-------------------------- MODULE ComparatorProofs ---------------------------
(***************************************************************************)
(* What holds of the comparison for any texts, any folding and any numbers *)
(* the parsers may make of them.                                           *)
(***************************************************************************)
EXTENDS Comparator, FiniteSetTheorems, TLAPS

\* What a catalog entry and a reading are.
Given == validation \in Validations /\ observed \in Observations

\* A reading is given its weight by where it came from, and by nothing else.
LEMMA JudgeWeighs ==
  ASSUME NEW reading \in Reading, NEW source
  PROVE  /\ Judge(reading, source).status \in {"system_verified", "verification_failed",
                                               "inconclusive"}
         /\ Judge(reading, source).status = "system_verified" <=>
              reading = "match" /\ source = "trusted_adapter"
         /\ Judge(reading, source).status = "verification_failed" <=> reading = "mismatch"
         /\ Judge(reading, source).reason = "matched" <=> reading = "match"
         /\ \A other : Judge(reading, other).reason = Judge(reading, source).reason
BY DEF Judge, Reading

LEMMA ReadingIsReading ==
  ASSUME NEW contract, NEW key, NEW text
  PROVE  ReadingOf(contract, key, text) \in Reading
BY DEF ReadingOf, Reading

\* A contract is the entry itself, or none.
LEMMA ContractIsEntry ==
  ASSUME NEW v \in Validations
  PROVE  /\ ContractFrom(v) \in {v, None}
         /\ ContractFrom(v) # None => /\ ContractFrom(v) = v
                                      /\ \A f \in DOMAIN v : v[f] # None
                                      /\ Folded[v.value] # ""
<1>1. DOMAIN v = {"deeplink", "key", "type", "condition", "value"}
  BY DEF Validations
<1> QED BY <1>1 DEF ContractFrom, Blank

\* The outcome of a usable entry is what its reading weighs.
LEMMA OutcomeOfEntry ==
  ASSUME NEW v \in Validations, NEW o \in Observations
  PROVE  IF ContractFrom(v) = None
           THEN /\ Outcome(v, o).status = "verification_unavailable"
                /\ Outcome(v, o).reason = "incomplete_contract"
           ELSE Outcome(v, o) = Judge(ReadingOf(v, o.key, o.text), o.source)
BY ContractIsEntry DEF Outcome, Compare
-----------------------------------------------------------------------------
LEMMA Demotes == Given => ProvenanceOnlyDemotes
<1> SUFFICES ASSUME Given PROVE ProvenanceOnlyDemotes
  OBVIOUS
<1> DEFINE o(s) == [observed EXCEPT !.source = s]
           reading == ReadingOf(validation, observed.key, observed.text)
<1>1. ASSUME NEW s \in {"trusted_adapter", "client_reported"}
      PROVE  /\ o(s) \in Observations
             /\ o(s).key = observed.key /\ o(s).text = observed.text /\ o(s).source = s
  BY DEF Given, Observations
<1>2. CASE ContractFrom(validation) = None
  BY <1>1, <1>2, OutcomeOfEntry DEF Given, ProvenanceOnlyDemotes
<1>3. CASE ContractFrom(validation) # None
  <2>1. /\ Outcome(validation, o("trusted_adapter")) = Judge(reading, "trusted_adapter")
        /\ Outcome(validation, o("client_reported")) = Judge(reading, "client_reported")
    BY <1>1, <1>3, OutcomeOfEntry DEF Given
  <2>2. reading \in Reading
    BY ReadingIsReading
  <2> HIDE DEF reading
  <2> QED BY <2>1, <2>2 DEF ProvenanceOnlyDemotes, Judge, Reading
<1> QED BY <1>2, <1>3

\* What is not undecided was read for the contract's key and parsed.
LEMMA DecidedIsParsed ==
  ASSUME NEW v, NEW key, NEW text, ReadingOf(v, key, text) # "undecided"
  PROVE  /\ key = v.key /\ Folded[text] # ""
         /\ Parse(v.type, v.value) # None /\ Parse(v.type, text) # None
         /\ v.type \notin Orderable => v.condition = "equal"
BY DEF ReadingOf, Blank

LEMMA Decides == Given => DecidedOnlyOnCompleteEvidence
<1> SUFFICES ASSUME Given,
                    Outcome(validation, observed).status
                      \in {"system_verified", "verification_failed"}
             PROVE  DecidedOnlyOnCompleteEvidence
  BY DEF DecidedOnlyOnCompleteEvidence
<1> DEFINE reading == ReadingOf(validation, observed.key, observed.text)
<1>1. /\ ContractFrom(validation) # None
      /\ Judge(reading, observed.source).status \in {"system_verified",
                                                     "verification_failed"}
  BY OutcomeOfEntry DEF Given
<1>2. reading # "undecided"
  BY <1>1 DEF Judge
<1>3. /\ observed.key = validation.key /\ Folded[observed.text] # ""
      /\ Parse(validation.type, validation.value) # None
      /\ Parse(validation.type, observed.text) # None
  BY <1>2, DecidedIsParsed
<1>4. (\A f \in DOMAIN validation : validation[f] # None) /\ Folded[validation.value] # ""
  BY <1>1, ContractIsEntry DEF Given
<1>5. ASSUME NEW text, Parse(validation.type, text) # None
      PROVE  /\ validation.type = "boolean" => Folded[text] \in TrueLiterals \cup FalseLiterals
             /\ validation.type = "intNum" => Folded[text] \in DigitForms
             /\ validation.type = "floatNum" => Folded[text] \in DOMAIN Halves
  BY <1>5 DEF Parse, ParseBoolean, ParseInteger, ParseFloat
<1> QED BY <1>3, <1>4, <1>5 DEF DecidedOnlyOnCompleteEvidence
-----------------------------------------------------------------------------
\* A number stands to another in exactly one of the three ways.
LEMMA OneOrder ==
  ASSUME NEW actual \in Int, NEW expected \in Int
  PROVE  \E c \in Condition : /\ Ordered(actual, expected, c)
                              /\ \A d \in Condition \ {c} : ~ Ordered(actual, expected, d)
BY DEF Ordered, Condition

LEMMA OthersAreTwo ==
  ASSUME NEW c \in Condition
  PROVE  Cardinality({c}) = 1 /\ Cardinality(Condition \ {c}) = 2
<1>1. Cardinality({c}) = 1 /\ IsFiniteSet({c})
  BY FS_Singleton
<1>2. ASSUME NEW d, NEW e, d # e PROVE Cardinality({d, e}) = 2
  <2>1. IsFiniteSet({d}) /\ Cardinality({d}) = 1
    BY FS_Singleton
  <2>2. Cardinality({d} \cup {e}) = 2
    BY <1>2, <2>1, FS_AddElement
  <2>3. {d, e} = {d} \cup {e}
    OBVIOUS
  <2> QED BY <2>2, <2>3
<1>3. \E d, e : d # e /\ Condition \ {c} = {d, e}
  <2>1. CASE c = "equal"
    <3>1. Condition \ {c} = {"greater", "less"}
      BY <2>1 DEF Condition
    <3> QED BY <3>1
  <2>2. CASE c = "greater"
    <3>1. Condition \ {c} = {"equal", "less"}
      BY <2>2 DEF Condition
    <3> QED BY <3>1
  <2>3. CASE c = "less"
    <3>1. Condition \ {c} = {"equal", "greater"}
      BY <2>3 DEF Condition
    <3> QED BY <3>1
  <2> QED BY <2>1, <2>2, <2>3 DEF Condition
<1>4. PICK d, e : d # e /\ Condition \ {c} = {d, e}
  BY <1>3
<1>5. Cardinality({d, e}) = 2
  BY <1>2, <1>4
<1>6. Cardinality(Condition \ {c}) = 2
  BY <1>4, <1>5
<1> QED BY <1>1, <1>6
\* The number a text parses to, if it does.
LEMMA ParsedIsNumber ==
  ASSUME NEW type \in Orderable, NEW text, Parse(type, text) # None
  PROVE  Parse(type, text) \in Int
BY ComparatorAssumption DEF Parse, Orderable, ParseInteger, ParseFloat

\* Of a reading that parses, one condition is verified and the two others fail.
LEMMA Partitions == Given => ConditionsPartitionReadings
<1> SUFFICES ASSUME Given, validation.type \in Orderable,
                    observed.source = "trusted_adapter"
             PROVE  ConditionsPartitionReadings
  BY DEF ConditionsPartitionReadings
<1> DEFINE v(c) == [validation EXCEPT !.condition = c]
           status(c) == Outcome(v(c), observed).status
           satisfied == {c \in Condition : status(c) = "system_verified"}
           failed == {c \in Condition : status(c) = "verification_failed"}
           reading(c) == ReadingOf(v(c), observed.key, observed.text)
           expected == Parse(validation.type, validation.value)
           actual == Parse(validation.type, observed.text)
<1>1. ASSUME NEW c \in Condition
      PROVE  /\ v(c) \in Validations /\ v(c).condition = c
             /\ v(c).deeplink = validation.deeplink /\ v(c).key = validation.key
             /\ v(c).type = validation.type /\ v(c).value = validation.value
  BY DEF Given, Validations
<1>2. SUFFICES \/ Cardinality(satisfied) = 1 /\ Cardinality(failed) = 2
               \/ satisfied = {} /\ failed = {}
  BY DEF ConditionsPartitionReadings
<1> HIDE DEF v
<1>3. CASE \E c \in Condition : ContractFrom(v(c)) = None
  <2>1. ASSUME NEW c \in Condition PROVE ContractFrom(v(c)) = None
    BY <1>1, <1>3, ComparatorAssumption DEF ContractFrom
  <2>2. ASSUME NEW c \in Condition
        PROVE  status(c) = "verification_unavailable"
    BY <1>1, <2>1, OutcomeOfEntry DEF Given
  <2> QED BY <2>2
<1>4. CASE \A c \in Condition : ContractFrom(v(c)) # None
  <2>1. ASSUME NEW c \in Condition
        PROVE  /\ status(c) = "system_verified" <=> reading(c) = "match"
               /\ status(c) = "verification_failed" <=> reading(c) = "mismatch"
    <3>1. Outcome(v(c), observed) = Judge(reading(c), "trusted_adapter")
      BY <1>1, <1>4, OutcomeOfEntry DEF Given
    <3>2. reading(c) \in Reading
      BY ReadingIsReading
    <3> HIDE DEF reading
    <3> QED BY <3>1, <3>2 DEF Judge, Reading
  <2>2. CASE \/ observed.key # validation.key \/ Blank(observed.text)
             \/ expected = None \/ actual = None
    <3>1. ASSUME NEW c \in Condition PROVE reading(c) = "undecided"
      BY <1>1, <2>2 DEF ReadingOf
    <3> QED BY <2>1, <3>1
  <2>3. CASE ~ (\/ observed.key # validation.key \/ Blank(observed.text)
                \/ expected = None \/ actual = None)
    <3>1. ASSUME NEW c \in Condition
          PROVE  reading(c) = IF Ordered(actual, expected, c) THEN "match" ELSE "mismatch"
      BY <1>1, <2>3 DEF ReadingOf
    <3>2. expected \in Int /\ actual \in Int
      BY <2>3, ParsedIsNumber
    <3>3. PICK c \in Condition : /\ Ordered(actual, expected, c)
                                 /\ \A d \in Condition \ {c} :
                                      ~ Ordered(actual, expected, d)
      BY <3>2, OneOrder
    <3>4. satisfied = {c} /\ failed = Condition \ {c}
      <4> HIDE DEF status, reading, expected, actual
      <4> QED BY <2>1, <3>1, <3>3
    <3> QED BY <3>4, OthersAreTwo
  <2> QED BY <2>2, <2>3
<1> QED BY <1>3, <1>4
-----------------------------------------------------------------------------
LEMMA AlwaysGiven == Spec => []Given
<1>1. Init => Given
  BY DEF Init, Given
<1>2. Given /\ [Observe]_vars => Given'
  BY DEF Given, Observe, vars, Validations, Observations
<1> QED BY <1>1, <1>2, PTL DEF Spec

\* A client's word changes the weight of a finding and never the finding
\* (compare's last two returns).
THEOREM ProvenanceAlwaysDemotes == Spec => []ProvenanceOnlyDemotes
BY AlwaysGiven, Demotes, PTL

\* One reading of a number verifies one of the three conditions and fails the
\* two others, or decides none of them (_ordered).
THEOREM ConditionsAlwaysPartition == Spec => []ConditionsPartitionReadings
BY AlwaysGiven, Partitions, PTL

\* A verdict needs a whole contract, its own key, and two texts that parse
\* (contract_from, compare).
THEOREM EvidenceAlwaysComplete == Spec => []DecidedOnlyOnCompleteEvidence
BY AlwaysGiven, Decides, PTL

=============================================================================

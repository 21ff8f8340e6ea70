----------------------------- MODULE Comparator -----------------------------
(***************************************************************************)
(* The deterministic comparison of an observed text with the expectation   *)
(* of a validation contract.  A text is a member of Texts; what the code   *)
(* computes of it (the trimmed, case-folded form and the three parses) is  *)
(* given by tables over those forms.  Numbers are counted in halves, so    *)
(* that "1.5" is the integer 3; None stands for a parse that is refused.   *)
(***************************************************************************)
EXTENDS Integers, FiniteSets, Evidence

CONSTANTS Texts,        \* the texts a device, a user or the catalog may give
          Folded,       \* [Texts -> forms], strip() then casefold()
          Halves,       \* the forms float() accepts as finite, with values
          DigitForms,   \* the forms that are an optional sign and digits
          None

ResultTypes == {"boolean", "intNum", "string", "floatNum"}
Condition == {"equal", "greater", "less"}

TrueLiterals == {"true", "yes", "on", "1", "enabled"}
FalseLiterals == {"false", "no", "off", "0", "disabled"}

ParseBoolean(text) == CASE Folded[text] \in TrueLiterals  -> "true"
                        [] Folded[text] \in FalseLiterals -> "false"
                        [] OTHER -> None

ParseInteger(text) ==
  IF Folded[text] \in DigitForms THEN Halves[Folded[text]] ELSE None

ParseFloat(text) ==
  IF Folded[text] \in DOMAIN Halves THEN Halves[Folded[text]] ELSE None

Blank(text) == Folded[text] = ""

\* Slip: "greater" lets equality through.
OrderedLoosely(actual, expected, condition) ==
  \/ condition = "equal"   /\ actual = expected
  \/ condition = "greater" /\ actual >= expected
  \/ condition = "less"    /\ actual < expected

Ordered(actual, expected, condition) ==
  \/ condition = "equal"   /\ actual = expected
  \/ condition = "greater" /\ actual > expected
  \/ condition = "less"    /\ actual < expected

Orderable == {"intNum", "floatNum"}

Parse(type, text) == CASE type = "boolean"  -> ParseBoolean(text)
                       [] type = "intNum"   -> ParseInteger(text)
                       [] type = "floatNum" -> ParseFloat(text)
                       [] OTHER -> Folded[text]

\* Slip: a value of blanks counts as a value.
ContractFromBlank(validation) ==
  IF \E f \in DOMAIN validation : validation[f] = None THEN None ELSE validation

\* A contract is usable only when nothing of it is missing or blank.
ContractFrom(validation) ==
  IF \/ validation.deeplink = None \/ validation.key = None
     \/ validation.type = None \/ validation.condition = None
     \/ validation.value = None
     \/ Blank(validation.value)
    THEN None
    ELSE validation

\* How a text read for a key stands to the contract.
ReadingOf(contract, key, text) ==
  LET expected == Parse(contract.type, contract.value)
      actual   == Parse(contract.type, text)
      decided  == IF contract.type \in Orderable
                    THEN Ordered(actual, expected, contract.condition)
                    ELSE actual = expected
  IN CASE key # contract.key -> "undecided"
       [] Blank(text) -> "undecided"
       [] contract.type \notin Orderable /\ contract.condition # "equal" -> "undecided"
       [] expected = None \/ actual = None -> "undecided"
       [] OTHER -> IF decided THEN "match" ELSE "mismatch"

Compare(contract, key, text, source) ==
  Judge(ReadingOf(contract, key, text), source)
-----------------------------------------------------------------------------
(* One validation deeplink of the catalog, and readings offered for it.    *)
VARIABLES validation, observed

vars == <<validation, observed>>

Validations == [deeplink : {"d", None}, key : {"k", None}, type : ResultTypes \cup {None},
                condition : Condition \cup {None},
                value : Texts \cup {None}]

\* None is no number and no value of the catalog; what int() takes, float() takes.
ASSUME ComparatorAssumption ==
  /\ DigitForms \subseteq DOMAIN Halves
  /\ \A form \in DOMAIN Halves : Halves[form] \in Int
  /\ None \notin Int /\ None \notin Condition
  /\ \A v \in Validations : v # None

Observations == [key : {"k", "other"}, text : Texts,
                 source : {"trusted_adapter", "client_reported"}]

Outcome(v, o) ==
  IF ContractFrom(v) = None
    THEN [status |-> "verification_unavailable", source |-> o.source,
          reason |-> "incomplete_contract"]
    ELSE Compare(ContractFrom(v), o.key, o.text, o.source)

Init == validation \in Validations /\ observed \in Observations

Observe == observed' \in Observations /\ UNCHANGED validation

Spec == Init /\ [][Observe]_vars
-----------------------------------------------------------------------------
(* Where a value came from never changes what is found in it, only how far *)
(* it counts: the client's match stops short of verified, and every other  *)
(* outcome is the same from both sources (compare's last two returns).     *)
ProvenanceOnlyDemotes ==
  LET from(s) == Outcome(validation, [observed EXCEPT !.source = s])
      server == from("trusted_adapter")
      client == from("client_reported")
  IN IF server.status = "system_verified"
       THEN client.status = "inconclusive" /\ client.reason = "matched"
       ELSE client.status = server.status /\ client.reason = server.reason

(* Whatever number is read, exactly one of the three conditions holds of   *)
(* it: no two contracts on the same value can both be verified, or both    *)
(* fail, by one reading (_ordered).                                        *)
ConditionsPartitionReadings ==
  LET satisfied == {c \in Condition : Outcome([validation EXCEPT !.condition = c],
                                              observed).status = "system_verified"}
      failed == {c \in Condition : Outcome([validation EXCEPT !.condition = c],
                                           observed).status = "verification_failed"}
  IN validation.type \in Orderable /\ observed.source = "trusted_adapter"
       => \/ Cardinality(satisfied) = 1 /\ Cardinality(failed) = 2
          \/ satisfied = {} /\ failed = {}

(* Nothing is decided by filling a gap: a verdict, for or against, needs   *)
(* every field of the contract, the contract's own key, and two texts that *)
(* both parse as the contract's type (contract_from, compare).             *)
DecidedOnlyOnCompleteEvidence ==
  Outcome(validation, observed).status \in {"system_verified", "verification_failed"} =>
    /\ \A f \in DOMAIN validation : validation[f] # None
    /\ observed.key = validation.key
    /\ Folded[validation.value] # "" /\ Folded[observed.text] # ""
    /\ validation.type = "boolean" =>
         {Folded[validation.value], Folded[observed.text]}
           \subseteq TrueLiterals \cup FalseLiterals
    /\ validation.type = "intNum" =>
         {Folded[validation.value], Folded[observed.text]} \subseteq DigitForms
    /\ validation.type = "floatNum" =>
         {Folded[validation.value], Folded[observed.text]} \subseteq DOMAIN Halves
=============================================================================

---------------------------- MODULE PipelineProofs ----------------------------
(***************************************************************************)
(* What the pipeline hands over breaks no rule on categories, links and    *)
(* order, for any catalogs, any extractions and any rankings: the sort     *)
(* comes before the mapping and the mapping may change a category, so the  *)
(* argument is that the mapping neither makes nor unmakes a critical one.  *)
(* And an action is passed over only for rows a ranking has above the one  *)
(* that fits: a rank further down never has the greater share of a score.  *)
(***************************************************************************)
EXTENDS Pipeline, SequenceTheorems, FiniteSetTheorems, TLAPS

Sorted(actions) ==
  \A i, j \in DOMAIN actions :
    i < j /\ actions[i].category = "critical" => actions[j].category = "critical"

\* A built action stands to the extracted one it was built from as it should.
Matches(action, extracted) ==
  /\ action.category = "critical" <=> extracted.category = "critical"
  /\ action.category = "manual" => action.link = NoLink
  /\ action.category = "auto" => action.link # NoLink

Shapes ==
  /\ plan \in Seq(Ranked(plan)) /\ built \in Seq(Ranked(built))
  /\ \A i \in DOMAIN plan : plan[i].category \in Category
  /\ Len(built) <= Len(plan)
  /\ live \in Catalogs

Started == /\ run.stage \in {"build", "rows"} => plan # <<>>
           /\ run.stage \in {"enrich", "extract"} => built = <<>>

Searching == run.stage = "rows" => Len(built) < Len(plan) /\ NeedsLookup(Action)

Faithful == \A i \in DOMAIN built : Matches(built[i], plan[i])

\* An attempt is a call.
Counted == run.calls = run.attempt

Structure == Shapes /\ Started /\ Searching /\ Sorted(plan) /\ Faithful

IInv == TypeOK /\ Counted /\ GivesUpOnlyAfterEveryTry /\ Structure
-----------------------------------------------------------------------------
\* A row of a catalog is a row, and it has a link.
LEMMA RowHasLink ==
  ASSUME NEW c \in Catalogs, NEW i \in DOMAIN c
  PROVE  c[i] \in Rows /\ c[i] # NoRow /\ c[i].link # NoLink
<1>1. c[i] \in Ranked(c)
  BY DEF Ranked
<1>2. c[i] \in Rows
  BY <1>1 DEF Rows
<1> QED BY <1>2, PipelineAssumption

\* Sorting leaves no action behind a critical one that is not critical itself.
LEMMA OrdersSort ==
  ASSUME NEW a, a \in Seq(Ranked(a)), NEW p \in Orders(a),
         \A i \in DOMAIN a : a[i].category \in Category
  PROVE  Sorted([i \in DOMAIN a |-> a[p[i]]])
<1> DEFINE s == [i \in DOMAIN a |-> a[p[i]]]
<1>1. SUFFICES ASSUME NEW i \in DOMAIN a, NEW j \in DOMAIN a, i < j,
                      a[p[i]].category = "critical"
               PROVE  a[p[j]].category = "critical"
  BY DEF Sorted
<1>2. SortsBefore(a, p[i], p[j]) /\ p[i] \in DOMAIN a /\ p[j] \in DOMAIN a
  BY <1>1 DEF Orders
<1>3. Urgency[a[p[i]].category] <= Urgency[a[p[j]].category]
  <2>1. Urgency[a[p[i]].category] \in Nat /\ Urgency[a[p[j]].category] \in Nat
    BY <1>2 DEF Urgency, Category
  <2> QED BY <1>2, <2>1 DEF SortsBefore
<1>4. Urgency[a[p[j]].category] >= 2
  BY <1>1, <1>3 DEF Urgency
<1> QED BY <1>2, <1>4 DEF Urgency, Category

\* What _build_action makes of an action keeps it critical or not, and gives it
\* the link its category asks for.
LEMMA BuildMatches ==
  ASSUME NEW action, action.category \in Category,
         NEW match, \/ match = NoRow
                    \/ /\ match # NoRow /\ match.link # NoLink
                       /\ action.category # "manual"
  PROVE  Matches(BuildAction(action, match), action)
BY DEF Matches, BuildAction, CategoryOf, LinkOf, Category

\* Building the next action keeps everything the invariant says of the actions.
LEMMA BuildKeeps ==
  ASSUME TypeOK, Structure, Len(built) < Len(plan), UNCHANGED <<plan, live>>,
         NEW match, Build(match),
         \/ match = NoRow
         \/ match \in Rows /\ Action.category # "manual"
  PROVE  /\ Shapes' /\ Sorted(plan)' /\ Faithful' /\ plan' # <<>>
         /\ \A i \in DOMAIN built' :
              built'[i] \in BuiltType
<1> DEFINE b == BuildAction(Action, match)
<1>1. /\ built \in Seq(Ranked(built)) /\ Len(built) \in Nat
      /\ plan \in Seq(Ranked(plan)) /\ Len(plan) \in Nat
      /\ DOMAIN plan = 1..Len(plan) /\ DOMAIN built = 1..Len(built)
  BY DEF Structure, Shapes
<1>2. built' = Append(built, b)
  BY DEF Build
<1>3. Len(built) + 1 \in DOMAIN plan /\ Action.category \in Category
  BY <1>1 DEF Structure, Shapes, Action
<1>4. /\ Len(built') = Len(built) + 1 /\ DOMAIN built' = 1..(Len(built) + 1)
      /\ \A i \in DOMAIN built : built'[i] = built[i]
      /\ built'[Len(built) + 1] = b
  BY <1>1, <1>2
<1>5. built' \in Seq(Ranked(built'))
  <2>1. \A i \in 1..Len(built') : built'[i] \in Ranked(built')
    BY <1>4 DEF Ranked
  <2>2. built' \in Seq(Ranked(built) \cup {b})
    <3>1. built \in Seq(Ranked(built) \cup {b})
      BY <1>1
    <3> QED BY <1>2, <3>1
  <2> QED BY <2>1, <2>2
<1>6. Matches(b, plan[Len(built) + 1])
  <2>1. match \in Rows => match # NoRow /\ match.link # NoLink
    BY PipelineAssumption
  <2> QED BY <1>3, <2>1, BuildMatches DEF Action
<1>7. Faithful'
  BY <1>1, <1>4, <1>6 DEF Structure, Faithful, Matches
<1>8. Shapes'
  BY <1>1, <1>4, <1>5 DEF Structure, Shapes
<1>9. b \in BuiltType
  BY <1>3 DEF BuiltType, BuildAction, CategoryOf, LinkOf, CheckOf, Category, Links
<1>10. ASSUME NEW i \in DOMAIN built'
       PROVE  built'[i] \in BuiltType
  BY <1>1, <1>4, <1>9 DEF TypeOK, RunType
<1> QED BY <1>1, <1>7, <1>8, <1>10 DEF Structure, Sorted
-----------------------------------------------------------------------------
\* A request starts in the invariant.
LEMMA InitHolds == Init => IInv
<1> SUFFICES ASSUME Init PROVE IInv
  OBVIOUS
<1>1. TypeOK
  <2>1. 1 \in 1..Models /\ 1 \in 1..MaxAttempts
    BY PipelineAssumption
  <2>2. /\ \A i \in DOMAIN built : FALSE
        /\ Len(built) <= Len(plan)
        /\ held \in BOOLEAN /\ {loaded, live} \subseteq Catalogs
    <3>1. plan = <<>> /\ built = <<>> /\ held = FALSE
      BY DEF Init
    <3>2. loaded \in Catalogs /\ live \in Catalogs
      BY DEF Init
    <3>3. (\A i \in DOMAIN built : FALSE) /\ Len(built) = 0 /\ Len(plan) = 0
      BY <3>1
    <3>4. Len(built) <= Len(plan)
      BY <3>3
    <3>5. held \in BOOLEAN
      BY <3>1
    <3> QED BY <3>2, <3>3, <3>4, <3>5
  <2>3. run \in RunType
    BY <2>1 DEF Init, RunType
  <2> QED BY <2>2, <2>3 DEF TypeOK, RunType
<1>2. Counted /\ GivesUpOnlyAfterEveryTry
  BY DEF Init, Counted, GivesUpOnlyAfterEveryTry
<1>3. Structure
  BY DEF Init, Structure, Shapes, Started, Searching, Sorted, Faithful, Ranked
<1> QED BY <1>1, <1>2, <1>3 DEF IInv

\* What the steps have in common that build nothing.
LEMMA NothingBuilt ==
  ASSUME Structure, UNCHANGED <<plan, built>>, live' \in Catalogs,
         run'.stage = "build" => run.stage = "build",
         run'.stage \in {"enrich", "extract"} => run.stage \in {"enrich", "extract"},
         run'.stage = "rows" =>
           run.stage = "rows" \/ (Len(built) < Len(plan) /\ NeedsLookup(Action)),
         run'.stage = "rows" => run.stage \in {"build", "rows"}
  PROVE  Structure'
<1>1. Shapes'
  BY DEF Structure, Shapes
<1>2. Started' /\ Sorted(plan)' /\ Faithful'
  BY DEF Structure, Started, Sorted, Faithful
<1>3. Searching'
  BY DEF Structure, Searching, NeedsLookup, Action
<1> QED BY <1>1, <1>2, <1>3 DEF Structure

\* A rebuild, and a step of somebody else, leaves the request where it is.
LEMMA SameStage ==
  ASSUME Structure, UNCHANGED <<plan, built>>, live' \in Catalogs, run'.stage = run.stage
  PROVE  Structure'
<1>1. Shapes' /\ Started' /\ Sorted(plan)' /\ Faithful'
  BY DEF Structure, Shapes, Started, Sorted, Faithful
<1>2. Searching'
  BY DEF Structure, Searching, NeedsLookup, Action
<1> QED BY <1>1, <1>2 DEF Structure

\* Ending keeps the count of the last model's calls.
LEMMA EndKeeps ==
  ASSUME TypeOK, Counted, NEW outcome, NEW why, End(outcome, why),
         outcome \in {"none", "plan", "no_match", "no_siis_context"},
         why \in Replies \cup {"none", "schema", "integrity", "grounding", "database",
                               "invalid"},
         why \in {"busy", "unreachable"} =>
           run.model = Models /\ run.attempt = MaxAttempts,
         UNCHANGED <<built, plan, loaded, live>>
  PROVE  TypeOK' /\ Counted' /\ GivesUpOnlyAfterEveryTry' /\ run'.stage = "done"
<1>1. /\ run' = [run EXCEPT !.stage = "done", !.outcome = outcome, !.why = why]
      /\ held' = FALSE
  BY DEF End
<1>2. TypeOK'
  BY <1>1 DEF TypeOK, RunType
<1>3. Counted' /\ run'.stage = "done"
  BY <1>1 DEF TypeOK, RunType, Counted
<1>4. GivesUpOnlyAfterEveryTry'
  BY <1>1 DEF TypeOK, RunType, Counted, GivesUpOnlyAfterEveryTry
<1> QED BY <1>2, <1>3, <1>4

\* A call that fails is tried again, handed to the next model, or ends the request.
LEMMA CallFailsKeeps ==
  ASSUME IInv, NEW stage \in {"enrich", "extract"}, CallFails(stage)
  PROVE  IInv'
<1>1. PICK reply \in Replies \ {"text"} :
        \/ Retries(stage, reply) /\ TryAgain(reply) /\ UNCHANGED held
        \/ /\ reply \in Caught(stage) /\ ~ Retries(stage, reply)
           /\ run.model < Models /\ NextModel(reply) /\ UNCHANGED held
        \/ /\ ~ Retries(stage, reply)
           /\ reply \in Caught(stage) => run.model = Models
           /\ End("no_match", reply)
  BY DEF CallFails
<1>2. run.stage = stage /\ UNCHANGED <<plan, built, lookup, loaded, live>>
  BY DEF CallFails, Calling
<1>3. TypeOK /\ Counted /\ Structure
  BY DEF IInv
<1>4. run.model \in 1..Models /\ run.attempt \in 1..MaxAttempts
  BY <1>3 DEF TypeOK, RunType
<1>5. Models \in Nat /\ MaxAttempts \in Nat
  BY PipelineAssumption
<1>6. CASE Retries(stage, reply) /\ TryAgain(reply) /\ UNCHANGED held
  <2>1. run' = [run EXCEPT !.attempt = @ + 1, !.calls = @ + 1, !.why = reply]
    BY <1>6 DEF TryAgain
  <2>2. run.attempt < MaxAttempts
    BY <1>6 DEF Retries
  <2>3. TypeOK'
    <3>1. /\ run.attempt + 1 \in 1..MaxAttempts
          /\ run.calls + 1 \in 1..MaxAttempts
      BY <1>3, <1>4, <1>5, <2>2 DEF Counted
    <3> QED BY <1>1, <1>2, <1>3, <1>6, <2>1, <3>1 DEF TypeOK, RunType
  <2>4. Counted' /\ run'.stage = stage
    BY <1>2, <1>3, <2>1 DEF TypeOK, RunType, Counted
  <2>5. GivesUpOnlyAfterEveryTry'
    BY <2>4 DEF GivesUpOnlyAfterEveryTry
  <2>6. Structure'
    BY <1>2, <1>3, <2>4, NothingBuilt DEF TypeOK, RunType
  <2> QED BY <2>3, <2>4, <2>5, <2>6 DEF IInv
<1>7. CASE run.model < Models /\ NextModel(reply) /\ UNCHANGED held
  <2>1. run' = [run EXCEPT !.model = @ + 1, !.attempt = 1, !.calls = 1, !.why = reply]
    BY <1>7 DEF NextModel
  <2>2. 1 \in 1..MaxAttempts /\ run.model + 1 \in 1..Models
    BY <1>4, <1>5, <1>7, PipelineAssumption
  <2>3. TypeOK'
    BY <1>1, <1>2, <1>3, <1>7, <2>1, <2>2 DEF TypeOK, RunType
  <2>4. Counted' /\ run'.stage = stage
    BY <1>2, <1>3, <2>1 DEF TypeOK, RunType, Counted
  <2>5. GivesUpOnlyAfterEveryTry'
    BY <2>4 DEF GivesUpOnlyAfterEveryTry
  <2>6. Structure'
    BY <1>2, <1>3, <2>4, NothingBuilt DEF TypeOK, RunType
  <2> QED BY <2>3, <2>4, <2>5, <2>6 DEF IInv
<1>8. CASE /\ ~ Retries(stage, reply)
           /\ reply \in Caught(stage) => run.model = Models
           /\ End("no_match", reply)
  <2>1. reply \in {"busy", "unreachable"} =>
          run.model = Models /\ run.attempt = MaxAttempts
    BY <1>4, <1>5, <1>8 DEF Retries, Retried, Caught
  <2>2. TypeOK' /\ Counted' /\ GivesUpOnlyAfterEveryTry' /\ run'.stage = "done"
    BY <1>1, <1>2, <1>3, <1>8, <2>1, EndKeeps
  <2>3. Structure'
    BY <1>2, <1>3, <2>2, NothingBuilt DEF TypeOK, RunType
  <2> QED BY <2>2, <2>3 DEF IInv
<1> QED BY <1>1, <1>6, <1>7, <1>8

\* A phase that is over begins the next with the first model's first call.
LEMMA EnterKeeps ==
  ASSUME TypeOK, NEW stage \in {"extract", "build"}, Enter(stage), UNCHANGED held,
         UNCHANGED <<built, loaded, live>>, built = <<>>, Len(plan') \in Nat
  PROVE  TypeOK' /\ Counted' /\ GivesUpOnlyAfterEveryTry' /\ run'.stage = stage
<1>1. run' = [run EXCEPT !.stage = stage, !.model = 1, !.attempt = 1, !.calls = 1,
                        !.why = "none"]
  BY DEF Enter
<1>2. 1 \in 1..MaxAttempts /\ 1 \in 1..Models
  BY PipelineAssumption
<1>3. TypeOK'
  <2>1. Len(built) = 0
    OBVIOUS
  <2>2. run' \in RunType
    BY <1>1, <1>2 DEF TypeOK, RunType
  <2> QED BY <2>1, <2>2 DEF TypeOK
<1>4. Counted' /\ run'.stage = stage
  BY <1>1 DEF TypeOK, RunType, Counted
<1> QED BY <1>3, <1>4 DEF GivesUpOnlyAfterEveryTry

\* Ending a request, by whatever step, keeps the invariant.
LEMMA EndKeepsAll ==
  ASSUME IInv, NEW outcome, NEW why, End(outcome, why),
         outcome \in {"plan", "no_match", "no_siis_context"},
         why \in {"none", "schema", "integrity", "grounding", "database", "invalid"},
         UNCHANGED <<plan, built, loaded, live>>
  PROVE  IInv'
<1>1. TypeOK /\ Counted /\ Structure /\ live' \in Catalogs
  BY DEF IInv, Structure, Shapes
<1>2. TypeOK' /\ Counted' /\ GivesUpOnlyAfterEveryTry' /\ run'.stage = "done"
  BY <1>1, EndKeeps
<1>3. Structure'
  BY <1>1, <1>2, NothingBuilt
<1> QED BY <1>2, <1>3 DEF IInv

\* The enriched query goes on to the extraction or ends the request.
LEMMA EnrichedKeeps == ASSUME IInv, Enriched PROVE IInv'
<1>1. UNCHANGED <<plan, built, lookup, loaded, live>> /\ run.stage = "enrich"
  BY DEF Enriched, Calling
<1>2. CASE Enter("extract") /\ UNCHANGED held
  <2>1. TypeOK /\ Structure /\ built = <<>> /\ Len(plan') \in Nat /\ live' \in Catalogs
    BY <1>1 DEF IInv, Structure, Started, Shapes
  <2>2. TypeOK' /\ Counted' /\ GivesUpOnlyAfterEveryTry' /\ run'.stage = "extract"
    BY <1>1, <1>2, <2>1, EnterKeeps
  <2>3. Structure'
    BY <1>1, <2>1, <2>2, NothingBuilt
  <2> QED BY <2>2, <2>3 DEF IInv
<1>3. CASE \/ End("no_siis_context", "none") \/ End("no_match", "schema")
           \/ End("no_match", "integrity")
  BY <1>1, <1>3, EndKeepsAll
<1> QED BY <1>2, <1>3 DEF Enriched

\* The extracted plan is sorted before anything is built from it.
LEMMA ExtractedKeeps == ASSUME IInv, Extracted PROVE IInv'
<1>1. UNCHANGED <<built, lookup, loaded, live>> /\ run.stage = "extract"
  BY DEF Extracted, Calling
<1>2. TypeOK /\ Structure /\ built = <<>> /\ live' \in Catalogs
  BY <1>1 DEF IInv, Structure, Started, Shapes
<1>3. ASSUME NEW p \in Plans, NEW order \in Orders(p),
             plan' = [i \in DOMAIN p |-> p[order[i]]],
             Enter("build"), UNCHANGED held
      PROVE  IInv'
  <2>1. /\ p # <<>> /\ p \in Seq(Ranked(p))
        /\ \A i \in DOMAIN p : p[i].category \in Category
    BY PipelineAssumption
  <2>2. Sorted(plan')
    BY <1>3, <2>1, OrdersSort
  <2>3. /\ DOMAIN plan' = 1..Len(p) /\ Len(p) \in Nat \ {0}
        /\ order \in [DOMAIN p -> DOMAIN p]
    BY <1>3, <2>1 DEF Orders
  <2>4. \A i \in DOMAIN plan' : plan'[i] \in Ranked(plan') /\ plan'[i].category \in Category
    BY <1>3, <2>1, <2>3 DEF Ranked
  <2>5. plan' \in Seq(Ranked(plan')) /\ Len(plan') = Len(p)
    <3>1. plan' \in [1..Len(p) -> Ranked(plan')]
      BY <1>3, <2>1, <2>3, <2>4
    <3>2. plan' \in Seq(Ranked(plan'))
      BY <2>3, <3>1, SeqDef
    <3>3. DOMAIN plan' = 1..Len(plan') /\ Len(plan') \in Nat
      BY <3>2
    <3> QED BY <2>3, <3>2, <3>3
  <2>6. TypeOK' /\ Counted' /\ GivesUpOnlyAfterEveryTry' /\ run'.stage = "build"
    BY <1>1, <1>2, <1>3, <2>3, <2>5, EnterKeeps
  <2>7. /\ Len(built') = 0 /\ built' \in Seq(Ranked(built'))
        /\ \A i \in DOMAIN built' : FALSE
    BY <1>1, <1>2 DEF Structure, Shapes
  <2>8. Shapes'
    BY <1>2, <2>3, <2>4, <2>5, <2>7 DEF Shapes
  <2>9. Started' /\ Searching' /\ Faithful'
    BY <2>3, <2>5, <2>6, <2>7 DEF Started, Searching, Faithful
  <2> QED BY <2>2, <2>6, <2>8, <2>9 DEF IInv, Structure
<1>4. ASSUME NEW why \in {"grounding", "schema"}, End("no_match", why), UNCHANGED plan
      PROVE  IInv'
  BY <1>1, <1>4, EndKeepsAll
<1> QED BY <1>3, <1>4 DEF Extracted

\* A built action, whatever was found for it.
LEMMA BuiltKeeps ==
  ASSUME IInv, Len(built) < Len(plan), UNCHANGED <<plan, loaded, live>>,
         NEW match, Build(match),
         \/ match = NoRow
         \/ match \in Rows /\ Action.category # "manual",
         run' \in RunType, run'.stage = "build", run'.attempt = run'.calls, held' \in BOOLEAN
  PROVE  IInv'
<1>1. TypeOK /\ Structure
  BY DEF IInv
<1>2. /\ Shapes' /\ Sorted(plan)' /\ Faithful' /\ plan' # <<>>
      /\ \A i \in DOMAIN built' : built'[i] \in BuiltType
  BY <1>1, BuildKeeps
<1>3. TypeOK'
  BY <1>1, <1>2 DEF TypeOK, Shapes
<1>4. Counted' /\ GivesUpOnlyAfterEveryTry'
  BY DEF Counted, GivesUpOnlyAfterEveryTry
<1>5. Started' /\ Searching'
  BY <1>2 DEF Started, Searching
<1> QED BY <1>2, <1>3, <1>4, <1>5 DEF IInv, Structure

\* Every step of the request, and every rebuild beside it, keeps the invariant.
LEMMA StepKeeps == IInv /\ [Next]_vars => IInv'
<1> SUFFICES ASSUME IInv, [Next]_vars PROVE IInv'
  OBVIOUS
<1>1. /\ TypeOK /\ Counted /\ Structure
      /\ Len(built) \in Nat /\ Len(plan) \in Nat
      /\ built \in Seq(Ranked(built)) /\ live \in Catalogs
  BY DEF IInv, Structure, Shapes
<1>2. run \in RunType /\ held \in BOOLEAN /\ run.attempt = run.calls
  BY <1>1 DEF TypeOK, Counted
<1>3. CASE \E stage \in {"enrich", "extract"} : CallFails(stage)
  BY <1>3, CallFailsKeeps
<1>4. CASE Enriched
  BY <1>4, EnrichedKeeps
<1>5. CASE Extracted
  BY <1>5, ExtractedKeeps
<1>6. CASE WithoutLookup
  <2>1. Len(built) < Len(plan) /\ run.stage = "build" /\ Build(NoRow)
        /\ UNCHANGED <<run, plan, held, loaded, live>>
    BY <1>6 DEF WithoutLookup, Unfinished
  <2>2. run' \in RunType /\ run'.stage = "build" /\ run'.attempt = run'.calls
        /\ held' \in BOOLEAN
    BY <1>2, <2>1
  <2> QED BY <2>1, <2>2, BuiltKeeps
<1>7. CASE Search
  <2>1. /\ Len(built) < Len(plan) /\ run.stage = "build" /\ NeedsLookup(Action)
        /\ UNCHANGED <<plan, held, loaded, live>>
    BY <1>7 DEF Search, Unfinished
  <2>2. \/ Build(NoRow) /\ UNCHANGED run
        \/ run' = [run EXCEPT !.stage = "rows"] /\ UNCHANGED built
    BY <1>7 DEF Search
  <2>3. CASE Build(NoRow) /\ UNCHANGED run
    <3>1. run' \in RunType /\ run'.stage = "build" /\ run'.attempt = run'.calls
          /\ held' \in BOOLEAN
      BY <1>2, <2>1, <2>3
    <3> QED BY <2>1, <2>3, <3>1, BuiltKeeps
  <2>4. CASE run' = [run EXCEPT !.stage = "rows"] /\ UNCHANGED built
    <3>1. run' \in RunType /\ run'.stage = "rows" /\ run'.attempt = run'.calls
      BY <1>2, <2>4 DEF RunType
    <3>2. TypeOK' /\ Counted' /\ GivesUpOnlyAfterEveryTry'
      BY <1>1, <2>1, <2>4, <3>1 DEF TypeOK, Counted, GivesUpOnlyAfterEveryTry
    <3>3. Structure'
      BY <1>1, <2>1, <2>4, <3>1, NothingBuilt
    <3> QED BY <3>2, <3>3 DEF IInv
  <2> QED BY <2>2, <2>3, <2>4
<1>8. CASE FetchRows
  <2>1. /\ run.stage = "rows" /\ run' = [run EXCEPT !.stage = "build"] /\ held' = TRUE
        /\ UNCHANGED <<plan, loaded, live>>
    BY <1>8 DEF FetchRows
  <2>2. Len(built) < Len(plan) /\ NeedsLookup(Action)
    BY <1>1, <2>1 DEF Structure, Searching
  <2>3. run' \in RunType /\ run'.stage = "build" /\ run'.attempt = run'.calls
        /\ held' \in BOOLEAN
    BY <1>2, <2>1 DEF RunType
  <2>4. PICK match : Build(match) /\ (match = NoRow \/ match \in Rows)
    <3>1. CASE Build(NoRow)
      BY <3>1
    <3>2. CASE \E i \in DOMAIN lookup.ids : /\ Verified(Action, lookup.ids[i])
                                            /\ Build(live[lookup.ids[i]])
      BY <1>1, <3>2, RowHasLink DEF Verified
    <3> QED BY <1>8, <3>1, <3>2 DEF FetchRows
  <2> QED BY <2>1, <2>2, <2>3, <2>4, BuiltKeeps DEF NeedsLookup
<1>9. CASE LookupRaises
  BY <1>9, EndKeepsAll DEF LookupRaises
<1>10. CASE Validate
  BY <1>10, EndKeepsAll DEF Validate
<1>11. CASE Rebuild
  <2>1. UNCHANGED <<run, plan, built, held, loaded>> /\ live' \in Catalogs
    BY <1>11 DEF Rebuild
  <2>2. TypeOK' /\ Counted' /\ GivesUpOnlyAfterEveryTry'
    BY <1>1, <2>1 DEF IInv, TypeOK, Counted, GivesUpOnlyAfterEveryTry
  <2>3. run'.stage = run.stage /\ live' \in Catalogs /\ UNCHANGED <<plan, built>>
    BY <1>1, <2>1
  <2>4. Structure'
    BY <1>1, <2>3, SameStage
  <2> QED BY <2>2, <2>4 DEF IInv
<1>12. CASE UNCHANGED vars
  <2>1. UNCHANGED <<run, plan, built, held, loaded, live>>
    BY <1>12 DEF vars
  <2>2. TypeOK' /\ Counted' /\ GivesUpOnlyAfterEveryTry'
    BY <1>1, <2>1 DEF IInv, TypeOK, Counted, GivesUpOnlyAfterEveryTry
  <2>3. run'.stage = run.stage /\ live' \in Catalogs /\ UNCHANGED <<plan, built>>
    BY <1>1, <2>1
  <2>4. Structure'
    BY <1>1, <2>3, SameStage
  <2> QED BY <2>2, <2>4 DEF IInv
<1> QED BY <1>3, <1>4, <1>5, <1>6, <1>7, <1>8, <1>9, <1>10, <1>11, <1>12
        DEF Next, RequestStep

\* A finished plan the invariant holds of breaks no rule the service knows.
LEMMA FinishedPlansPass == IInv => BuiltPlansBreakNoRule
<1> SUFFICES ASSUME IInv, run.stage = "build", Len(built) = Len(plan)
             PROVE  /\ Violations(built) \cap {"manual_with_deeplink", "no_actions",
                                               "critical_ordering"} = {}
                    /\ Violations(built) # {} =>
                         \E i \in DOMAIN built :
                           ~ {built[i].link, built[i].check} \subseteq Permitted \cup {NoLink}
  BY DEF BuiltPlansBreakNoRule
<1>1. /\ DOMAIN built = DOMAIN plan /\ \E i \in DOMAIN built : TRUE
      /\ Faithful /\ Sorted(plan)
  <2>1. /\ built \in Seq(Ranked(built)) /\ plan \in Seq(Ranked(plan)) /\ plan # <<>>
        /\ Faithful /\ Sorted(plan)
    BY DEF IInv, Structure, Shapes, Started
  <2>2. Len(plan) \in Nat \ {0} /\ DOMAIN plan = 1..Len(plan) /\ DOMAIN built = 1..Len(plan)
    BY <2>1
  <2>3. 1 \in DOMAIN built
    BY <2>2
  <2> QED BY <2>1, <2>2, <2>3
<1>2. \A i \in DOMAIN built : ~ (built[i].category = "manual" /\ built[i].link # NoLink)
  BY <1>1 DEF Faithful, Matches
<1>3. \A i, j \in DOMAIN built :
        ~ (i < j /\ built[i].category = "critical" /\ built[j].category # "critical")
  BY <1>1 DEF Faithful, Matches, Sorted
<1>4. \A i \in DOMAIN built : built[i].category = "auto" => built[i].link # NoLink
  BY <1>1 DEF Faithful, Matches
<1>5. DOMAIN built # {} /\ ~ CriticalNotLast(built)
  BY <1>1, <1>3 DEF CriticalNotLast
<1>6. When(DOMAIN built = {}, "no_actions") = {}
      /\ When(CriticalNotLast(built), "critical_ordering") = {}
  BY <1>5 DEF When
<1>7. Violations(built) = BrokenByOne(built)
  BY <1>6 DEF Violations
<1>8. \A i \in DOMAIN built :
        BrokenBy(built[i]) \cap {"manual_with_deeplink", "no_actions",
                                "critical_ordering"} = {}
  BY <1>2 DEF BrokenBy, When
<1>9. ASSUME \A i \in DOMAIN built :
               {built[i].link, built[i].check} \subseteq Permitted \cup {NoLink}
      PROVE  BrokenByOne(built) = {}
  <2>1. \A i \in DOMAIN built : BrokenBy(built[i]) = {}
    BY <1>2, <1>4, <1>9 DEF BrokenBy, When
  <2> QED BY <2>1 DEF BrokenByOne
<1>10. BrokenByOne(built) \cap {"manual_with_deeplink", "no_actions", "critical_ordering"} = {}
  BY <1>8 DEF BrokenByOne
<1> QED BY <1>7, <1>9, <1>10

\* Building the next action attaches a link that fits it, and leaves the others.
LEMMA BuildNames ==
  ASSUME IInv, LinksNameTheScreen, Len(built) < Len(plan), UNCHANGED plan,
         NEW match, Build(match),
         \/ match = NoRow
         \/ match \in Rows /\ Action.target /\ Fits(Action.words, match.words)
  PROVE  LinksNameTheScreen'
<1> DEFINE b == BuildAction(Action, match)
<1>1. built \in Seq(Ranked(built)) /\ Len(built) \in Nat /\ built' = Append(built, b)
  BY DEF IInv, Structure, Shapes, Build
<1>2. /\ DOMAIN built' = DOMAIN built \cup {Len(built) + 1}
      /\ \A i \in DOMAIN built : built'[i] = built[i]
      /\ built'[Len(built) + 1] = b
  BY <1>1
<1>3. b.link = LinkOf(match) /\ b.check = CheckOf(match)
  BY DEF BuildAction
<1>4. ASSUME b.link # NoLink
      PROVE  \E r \in Rows : /\ r.link = b.link /\ b.check \in {r.check, NoLink}
                             /\ Action.target /\ Fits(Action.words, r.words)
  <2>1. match \in Rows /\ match # NoRow
    BY <1>3, <1>4 DEF LinkOf
  <2>2. b.link = match.link /\ b.check \in {match.check, NoLink}
    BY <1>3, <2>1 DEF LinkOf, CheckOf
  <2> QED BY <2>1, <2>2
<1>5. ASSUME NEW i \in DOMAIN built', built'[i].link # NoLink
      PROVE  \E r \in Rows : /\ r.link = built'[i].link
                             /\ built'[i].check \in {r.check, NoLink}
                             /\ plan'[i].target /\ Fits(plan'[i].words, r.words)
  <2>1. CASE i \in DOMAIN built
    BY <1>2, <1>5, <2>1 DEF LinksNameTheScreen
  <2>2. CASE i = Len(built) + 1
    BY <1>2, <1>4, <1>5, <2>2 DEF Action
  <2> QED BY <1>2, <2>1, <2>2
<1> QED BY <1>5 DEF LinksNameTheScreen

\* The ids of a search may have changed their rows since they were ranked: the
\* row that is read is the one that is verified and the one that is attached.
LEMMA StepNames == IInv /\ LinksNameTheScreen /\ [Next]_vars => LinksNameTheScreen'
<1> SUFFICES ASSUME IInv, LinksNameTheScreen, [Next]_vars PROVE LinksNameTheScreen'
  OBVIOUS
<1>1. CASE UNCHANGED <<plan, built>>
  BY <1>1 DEF LinksNameTheScreen
<1>2. CASE Extracted
  <2>1. built' = built /\ built = <<>>
    BY <1>2 DEF Extracted, Calling, IInv, Structure, Started
  <2>2. DOMAIN built' = {}
    BY <2>1
  <2> QED BY <2>2 DEF LinksNameTheScreen
<1>3. CASE Len(built) < Len(plan) /\ UNCHANGED plan /\ Build(NoRow)
  BY <1>3, BuildNames
<1>4. CASE FetchRows
  <2>1. run.stage = "rows" /\ UNCHANGED plan
    BY <1>4 DEF FetchRows
  <2>2. Len(built) < Len(plan) /\ Action.target /\ live \in Catalogs
    BY <2>1 DEF IInv, Structure, Searching, Shapes, NeedsLookup
  <2>3. CASE Build(NoRow)
    BY <1>3, <2>1, <2>2, <2>3
  <2>4. CASE \E i \in DOMAIN lookup.ids : /\ Verified(Action, lookup.ids[i])
                                          /\ Build(live[lookup.ids[i]])
    <3>1. PICK i \in DOMAIN lookup.ids : /\ Verified(Action, lookup.ids[i])
                                         /\ Build(live[lookup.ids[i]])
      BY <2>4
    <3>2. live[lookup.ids[i]] \in Rows
          /\ Fits(Action.words, live[lookup.ids[i]].words)
      BY <2>2, <3>1, RowHasLink DEF Verified, Screen
    <3> QED BY <2>1, <2>2, <3>1, <3>2, BuildNames
  <2> QED BY <1>4, <2>3, <2>4 DEF FetchRows
<1>5. CASE WithoutLookup
  BY <1>3, <1>5 DEF WithoutLookup, Unfinished
<1>6. CASE Search
  BY <1>1, <1>3, <1>6 DEF Search, Unfinished
<1>7. CASE \/ \E stage \in {"enrich", "extract"} : CallFails(stage)
           \/ Enriched \/ LookupRaises \/ Validate \/ Rebuild \/ UNCHANGED vars
  BY <1>1, <1>7 DEF CallFails, Enriched, LookupRaises, Validate, Rebuild, vars
<1> QED BY <1>2, <1>4, <1>5, <1>6, <1>7 DEF Next, RequestStep
-----------------------------------------------------------------------------
\* The inductive invariant holds of every state a request can be in.
THEOREM Invariance == Spec => []IInv
BY InitHolds, StepKeeps, PTL DEF Spec

\* The variables keep their types: TypeOK of the runs.
THEOREM TypesHold == Spec => []TypeOK
<1>1. IInv => TypeOK
  BY DEF IInv
<1> QED BY <1>1, Invariance, PTL

\* A plan handed over by phase 2 (pipeline.py _build_action after extractor.py
\* _ensure_critical_last) is refused only for links the service did not load.
THEOREM PlansBreakNoRule == Spec => []BuiltPlansBreakNoRule
BY FinishedPlansPass, Invariance, PTL

\* Overload ends a request only after the last model's last attempt, whatever the
\* models answered before (_call_gemini and _call_model of both phases).
THEOREM EveryTryIsMade == Spec => []GivesUpOnlyAfterEveryTry
<1>1. IInv => GivesUpOnlyAfterEveryTry
  BY DEF IInv
<1> QED BY <1>1, Invariance, PTL

\* The link of an action opens a screen that fits it (_first_verified_match), for
\* any catalogs that replace one another while the plan is built.
THEOREM LinksAlwaysFit == Spec => []LinksNameTheScreen
<1>1. Init => LinksNameTheScreen
  BY DEF Init, LinksNameTheScreen
<1> QED BY <1>1, Invariance, StepNames, PTL DEF Spec
-----------------------------------------------------------------------------
(* Why a row is passed over only when others were put above it.            *)

\* A worse rank has the smaller share of a score: the denominators divide Scale.
LEMMA WorseRankCountsLess ==
  ASSUME NEW i \in 1..Fetch, NEW j \in 1..Fetch, i < j
  PROVE  /\ Scale \div (RrfK + i) \in Nat \ {0} /\ Scale \div (RrfK + j) \in Nat \ {0}
         /\ Scale \div (RrfK + j) < Scale \div (RrfK + i)
<1>1. ASSUME NEW d \in Nat \ {0}, NEW n \in Nat \ {0}, n % d = 0
      PROVE  \E q \in Nat \ {0} : n \div d = q /\ n = d * q
  <2>1. n = d * (n \div d) + (n % d) /\ n \div d \in Int
    OBVIOUS
  <2>2. PICK q \in Int : q = n \div d
    BY <2>1
  <2>3. n = d * q
    BY <1>1, <2>1, <2>2
  <2>4. q > 0
    <3>1. SUFFICES ASSUME q <= 0 PROVE FALSE
      BY <2>2
    <3>2. d * q <= 0
      BY <3>1, <2>2
    <3> QED BY <2>3, <3>2
  <2> QED BY <2>2, <2>3, <2>4
<1>2. PICK d \in Nat \ {0} : d = RrfK + i
  BY RetrievalAssumption
<1>3. PICK e \in Nat \ {0} : e = RrfK + j
  BY RetrievalAssumption
<1>4. d < e /\ Scale \in Nat \ {0} /\ Scale % d = 0 /\ Scale % e = 0
  BY <1>2, <1>3, RetrievalAssumption
<1>5. PICK p \in Nat \ {0} : Scale \div d = p /\ Scale = d * p
  BY <1>1, <1>4
<1>6. PICK q \in Nat \ {0} : Scale \div e = q /\ Scale = e * q
  BY <1>1, <1>4
<1>7. q < p
  <2>1. SUFFICES ASSUME p <= q PROVE FALSE
    OBVIOUS
  <2>2. d * p <= d * q
    BY <2>1
  <2>3. d * q < e * q
    BY <1>4
  <2> QED BY <1>5, <1>6, <2>2, <2>3
<1> QED BY <1>2, <1>3, <1>5, <1>6, <1>7

\* A ranking as a search uses it: ids of rows, no more than it asks for.
Short == {r \in Seq(Nat) : Len(r) <= Fetch}

LEMMA RankFacts ==
  ASSUME NEW r \in Short, NEW a \in Ranked(r)
  PROVE  RankOf(a, r) \in DOMAIN r /\ RankOf(a, r) \in 1..Fetch /\ r[RankOf(a, r)] = a
<1>1. \E i \in DOMAIN r : r[i] = a
  BY DEF Ranked
<1>2. RankOf(a, r) \in DOMAIN r /\ r[RankOf(a, r)] = a
  BY <1>1 DEF RankOf
<1>3. DOMAIN r = 1..Len(r) /\ Len(r) \in Nat /\ Len(r) <= Fetch
  BY DEF Short
<1> QED BY <1>2, <1>3, RetrievalAssumption

\* What is not above another id in a ranking gets no greater share of it, and a
\* smaller one if it is ranked at all.
LEMMA LowerCountsLess ==
  ASSUME NEW r \in Short, NEW weight \in Nat \ {0}, NEW a, NEW b, a # b,
         ~ Above(a, b, r)
  PROVE  /\ Share(a, r, weight) \in Nat /\ Share(b, r, weight) \in Nat
         /\ Share(a, r, weight) <= Share(b, r, weight)
         /\ a \in Ranked(r) => Share(a, r, weight) < Share(b, r, weight)
<1>1. ASSUME NEW i \in 1..Fetch PROVE Scale \div (RrfK + i) \in Nat
  <2>1. RrfK + i \in Nat \ {0} /\ Scale \in Nat
    BY RetrievalAssumption
  <2> QED BY <2>1
<1>2. ASSUME NEW c PROVE Share(c, r, weight) \in Nat
  <2>1. CASE c \in Ranked(r)
    <3>1. PICK n \in Nat : n = Scale \div (RrfK + RankOf(c, r))
      BY <2>1, <1>1, RankFacts
    <3>2. Share(c, r, weight) = weight * n
      BY <2>1, <3>1 DEF Share
    <3> QED BY <3>2
  <2>2. CASE c \notin Ranked(r)
    BY <2>2 DEF Share
  <2> QED BY <2>1, <2>2
<1>3. CASE a \notin Ranked(r)
  <2>1. Share(a, r, weight) = 0
    BY <1>3 DEF Share
  <2> QED BY <1>2, <1>3, <2>1
<1>4. CASE a \in Ranked(r)
  <2>1. b \in Ranked(r) /\ ~ (RankOf(a, r) < RankOf(b, r))
    BY <1>4 DEF Above
  <2>2. PICK i \in 1..Fetch : i = RankOf(a, r)
    BY <1>4, RankFacts
  <2>3. PICK j \in 1..Fetch : j = RankOf(b, r)
    BY <2>1, RankFacts
  <2>4. j < i
    <3>1. r[i] = a /\ r[j] = b
      BY <1>4, <2>1, <2>2, <2>3, RankFacts
    <3>2. Fetch \in Nat
      BY RetrievalAssumption
    <3> QED BY <2>1, <2>2, <2>3, <3>1, <3>2
  <2>5. PICK m \in Nat : m = Scale \div (RrfK + i)
    BY <1>1
  <2>6. PICK n \in Nat : n = Scale \div (RrfK + j)
    BY <1>1
  <2>7. m < n
    BY <2>4, <2>5, <2>6, WorseRankCountsLess
  <2>8. Share(a, r, weight) = weight * m /\ Share(b, r, weight) = weight * n
    BY <1>4, <2>1, <2>2, <2>3, <2>5, <2>6 DEF Share
  <2>9. weight * m < weight * n
    BY <2>7
  <2> QED BY <1>2, <2>8, <2>9
<1> QED BY <1>3, <1>4

\* Neither ranking is switched off.  The settings allow a weight of zero; then
\* the ids of that ranking are ordered by the other one, or by their number.
BothRankingsCount == DenseWeight # 0 /\ SparseWeight # 0

\* What precedes another id in the fused order is above it in a ranking.
LEMMA PrecedesIsAbove ==
  ASSUME BothRankingsCount, NEW dense \in Short, NEW sparse \in Short,
         NEW a \in Ranked(dense) \cup Ranked(sparse), NEW b, a # b,
         Precedes(a, b, dense, sparse)
  PROVE  Above(a, b, dense) \/ Above(a, b, sparse)
<1>1. SUFFICES ASSUME ~ Above(a, b, dense), ~ Above(a, b, sparse) PROVE FALSE
  OBVIOUS
<1>2. DenseWeight \in Nat \ {0} /\ SparseWeight \in Nat \ {0}
  BY RetrievalAssumption DEF BothRankingsCount
<1>3. PICK ad \in Nat, bd \in Nat : /\ ad = Share(a, dense, DenseWeight)
                                    /\ bd = Share(b, dense, DenseWeight)
  BY <1>1, <1>2, LowerCountsLess
<1>4. PICK ap \in Nat, bp \in Nat : /\ ap = Share(a, sparse, SparseWeight)
                                    /\ bp = Share(b, sparse, SparseWeight)
  BY <1>1, <1>2, LowerCountsLess
<1>5. ad <= bd /\ (a \in Ranked(dense) => ad < bd)
  BY <1>1, <1>2, <1>3, LowerCountsLess
<1>6. ap <= bp /\ (a \in Ranked(sparse) => ap < bp)
  BY <1>1, <1>2, <1>4, LowerCountsLess
<1>7. ad < bd \/ ap < bp
  BY <1>5, <1>6
<1>8. Fused(a, dense, sparse) = ad + ap /\ Fused(b, dense, sparse) = bd + bp
  BY <1>3, <1>4 DEF Fused
<1>9. ad + ap < bd + bp
  BY <1>5, <1>6, <1>7
<1> QED BY <1>8, <1>9 DEF Precedes

LEMMA FusedIsANumber ==
  ASSUME NEW dense \in Short, NEW sparse \in Short, NEW a
  PROVE  Fused(a, dense, sparse) \in Nat
<1>1. ASSUME NEW r \in Short, NEW weight \in Nat PROVE Share(a, r, weight) \in Nat
  <2>1. CASE a \in Ranked(r)
    <3>1. PICK i \in 1..Fetch : i = RankOf(a, r)
      BY <2>1, RankFacts
    <3>2. RrfK + i \in Nat \ {0} /\ Scale \in Nat
      BY RetrievalAssumption
    <3>3. PICK n \in Nat : n = Scale \div (RrfK + i)
      BY <3>2
    <3>4. Share(a, r, weight) = weight * n
      BY <2>1, <3>1, <3>3 DEF Share
    <3> QED BY <3>4
  <2>2. CASE a \notin Ranked(r)
    BY <2>2 DEF Share
  <2> QED BY <2>1, <2>2
<1>2. PICK m \in Nat : m = Share(a, dense, DenseWeight)
  BY <1>1, RetrievalAssumption
<1>3. PICK n \in Nat : n = Share(a, sparse, SparseWeight)
  BY <1>1, RetrievalAssumption
<1> QED BY <1>2, <1>3 DEF Fused

\* The fused order is one.
LEMMA PrecedesIsAnOrder ==
  ASSUME NEW dense \in Short, NEW sparse \in Short
  PROVE  /\ \A a \in Nat : ~ Precedes(a, a, dense, sparse)
         /\ \A a, b \in Nat : \/ a = b \/ Precedes(a, b, dense, sparse)
                              \/ Precedes(b, a, dense, sparse)
         /\ \A a, b, c \in Nat :
              Precedes(a, b, dense, sparse) /\ Precedes(b, c, dense, sparse)
                => Precedes(a, c, dense, sparse)
<1> DEFINE score == [a \in Nat |-> Fused(a, dense, sparse)]
<1>1. score \in [Nat -> Nat]
  BY FusedIsANumber
<1>2. \A a, b \in Nat : Precedes(a, b, dense, sparse)
                          <=> score[a] > score[b] \/ (score[a] = score[b] /\ a < b)
  BY DEF Precedes
<1> HIDE DEF score
<1> QED BY <1>1, <1>2

\* A finite set can be ranked along any strict total order.
LEMMA RankingExists ==
  ASSUME NEW S, IsFiniteSet(S), NEW R,
         \A a \in S : <<a, a>> \notin R,
         \A a, b \in S : a = b \/ <<a, b>> \in R \/ <<b, a>> \in R,
         \A a, b, c \in S : <<a, b>> \in R /\ <<b, c>> \in R => <<a, c>> \in R
  PROVE  \E s \in RankingsOf(S) : \A i, j \in DOMAIN s : i < j => <<s[i], s[j]>> \in R
<1> DEFINE upTo(a) == {b \in S : b = a \/ <<b, a>> \in R}
           place == [a \in S |-> Cardinality(upTo(a))]
<1>1. PICK n \in Nat : n = Cardinality(S)
  BY FS_CardinalityType
<1>2. ASSUME NEW a \in S PROVE IsFiniteSet(upTo(a)) /\ Cardinality(upTo(a)) \in 1..n
  <2>1. upTo(a) \in SUBSET S /\ upTo(a) # {}
    OBVIOUS
  <2>2. PICK T \in SUBSET S : T = upTo(a)
    BY <2>1
  <2>3. IsFiniteSet(T) /\ Cardinality(T) <= n
    BY <1>1, FS_Subset
  <2>4. Cardinality(T) \in Nat /\ Cardinality(T) # 0
    BY <2>1, <2>2, <2>3, FS_CardinalityType, FS_EmptySet
  <2> QED BY <2>2, <2>3, <2>4
<1>3. ASSUME NEW a \in S, NEW b \in S, <<a, b>> \in R PROVE place[a] < place[b]
  <2>1. PICK T : T = upTo(a)
    OBVIOUS
  <2>2. PICK U : U = upTo(b)
    OBVIOUS
  <2>3. T \in SUBSET U
    BY <1>3, <2>1, <2>2
  <2>4. b \in U /\ b \notin T
    BY <1>3, <2>1, <2>2
  <2>5. IsFiniteSet(U) /\ Cardinality(U) \in Nat /\ Cardinality(T) \in Nat
    BY <1>1, <1>2, <2>1, <2>2
  <2>6. Cardinality(T) <= Cardinality(U) /\ (Cardinality(U) = Cardinality(T) => U = T)
    BY <2>3, <2>5, FS_Subset
  <2>7. Cardinality(T) < Cardinality(U)
    BY <2>4, <2>5, <2>6
  <2> HIDE DEF upTo
  <2> QED BY <2>1, <2>2, <2>7
<1>4. place \in [S -> 1..n]
  <2> HIDE DEF upTo
  <2>1. \A a \in S : Cardinality(upTo(a)) \in 1..n
    BY <1>2
  <2> QED BY <2>1
<1> HIDE DEF place
<1>5. place \in Injection(S, 1..n)
  <2>1. ASSUME NEW a \in S, NEW b \in S, place[a] = place[b] PROVE a = b
    <3>1. place[a] \in Nat /\ place[b] \in Nat
      BY <1>1, <1>4
    <3>2. <<a, b>> \notin R /\ <<b, a>> \notin R
      BY <1>3, <2>1, <3>1
    <3> QED BY <3>2
  <2> QED BY <1>4, <2>1 DEF Injection, IsInjective
<1>6. place \in Surjection(S, 1..n)
  <2>1. IsFiniteSet(1..n) /\ Cardinality(1..n) = n
    BY FS_Interval
  <2> QED BY <1>1, <1>5, <2>1, FS_Injection
<1> DEFINE r == [i \in 1..n |-> CHOOSE a \in S : place[a] = i]
<1>7. ASSUME NEW i \in 1..n PROVE r[i] \in S /\ place[r[i]] = i
  BY <1>6 DEF Surjection
<1>8. r \in [1..n -> S] /\ DOMAIN r = 1..n
  BY <1>7
<1> HIDE DEF r
<1>9. r \in RankingsOf(S)
  BY <1>1, <1>7, <1>8 DEF RankingsOf
<1>10. ASSUME NEW i \in 1..n, NEW j \in 1..n, i < j PROVE <<r[i], r[j]>> \in R
  <2>1. ~ (place[r[j]] < place[r[i]]) /\ r[i] # r[j]
    BY <1>7, <1>10
  <2> QED BY <1>3, <1>7, <2>1
<1> QED BY <1>8, <1>9, <1>10

\* Any ids can be put into the fused order.
LEMMA FusedOrderExists ==
  ASSUME NEW dense \in Short, NEW sparse \in Short,
         NEW ids \in SUBSET Nat, IsFiniteSet(ids)
  PROVE  \E s \in RankingsOf(ids) :
           \A i, j \in DOMAIN s : i < j => Precedes(s[i], s[j], dense, sparse)
<1>1. PICK order : \A a, b \in ids : <<a, b>> \in order <=> Precedes(a, b, dense, sparse)
  <2>1. PICK R : R = {p \in ids \X ids : Precedes(p[1], p[2], dense, sparse)}
    OBVIOUS
  <2>2. \A a, b \in ids : <<a, b>> \in R <=> Precedes(a, b, dense, sparse)
    BY <2>1
  <2> QED BY <2>2
<1>2. \E s \in RankingsOf(ids) : \A i, j \in DOMAIN s : i < j => <<s[i], s[j]>> \in order
  <2>1. \A a \in ids : <<a, a>> \notin order
    BY <1>1, PrecedesIsAnOrder
  <2>2. \A a, b \in ids : a = b \/ <<a, b>> \in order \/ <<b, a>> \in order
    BY <1>1, PrecedesIsAnOrder
  <2>3. \A a, b, c \in ids : <<a, b>> \in order /\ <<b, c>> \in order => <<a, c>> \in order
    BY <1>1, PrecedesIsAnOrder
  <2> QED BY <2>1, <2>2, <2>3, RankingExists
<1>3. PICK s \in RankingsOf(ids) : \A i, j \in DOMAIN s : i < j => <<s[i], s[j]>> \in order
  BY <1>2
<1>4. \A i \in DOMAIN s : s[i] \in ids
  BY DEF RankingsOf
<1> QED BY <1>1, <1>3, <1>4

FusionOf(dense, sparse, ids, r) ==
  ids = Ranked(dense) \cup Ranked(sparse) /\ r = FusedRanking(dense, sparse)

\* The fused ranking has the ids of both, each before those it precedes.
LEMMA FusedRankingFacts ==
  ASSUME NEW dense \in Short, NEW sparse \in Short, NEW ids, NEW r,
         FusionOf(dense, sparse, ids, r)
  PROVE  /\ ids \subseteq Nat /\ IsFiniteSet(ids)
         /\ r \in [1..Cardinality(ids) -> ids]
         /\ \A id \in ids : \E i \in DOMAIN r : r[i] = id
         /\ \A i, j \in DOMAIN r :
              i < j => r[i] # r[j] /\ Precedes(r[i], r[j], dense, sparse)
<1>1. ASSUME NEW s \in Short PROVE Ranked(s) \subseteq Nat /\ IsFiniteSet(Ranked(s))
  <2>1. s \in [1..Len(s) -> Nat] /\ Len(s) \in Nat
    BY DEF Short
  <2>2. s \in Surjection(1..Len(s), Ranked(s))
    BY <2>1 DEF Surjection, Ranked
  <2>3. IsFiniteSet(1..Len(s))
    BY <2>1, FS_Interval
  <2>4. IsFiniteSet(Ranked(s))
    BY <2>2, <2>3, FS_Surjection
  <2> QED BY <2>1, <2>4 DEF Ranked
<1>2. ids \subseteq Nat /\ IsFiniteSet(ids)
  BY <1>1, FS_Union DEF FusionOf
<1>3. \E s \in RankingsOf(ids) :
        \A i, j \in DOMAIN s : i < j => Precedes(s[i], s[j], dense, sparse)
  BY <1>2, FusedOrderExists
<1>4. r \in RankingsOf(ids) /\ \A i, j \in DOMAIN r : i < j => Precedes(r[i], r[j], dense, sparse)
  BY <1>3 DEF FusedRanking, FusionOf
<1>5. PICK n \in Nat : n = Cardinality(ids)
  BY <1>2, FS_CardinalityType
<1>6. r \in [1..n -> ids] /\ \A i, j \in 1..n : i # j => r[i] # r[j]
  BY <1>4, <1>5 DEF RankingsOf
<1>7. r \in Surjection(1..n, ids)
  <2>1. r \in Injection(1..n, ids)
    BY <1>6 DEF Injection, IsInjective
  <2>2. Cardinality(1..n) = n
    BY FS_Interval
  <2> QED BY <1>2, <1>5, <2>1, <2>2, FS_Injection
<1>8. \A id \in ids : \E i \in DOMAIN r : r[i] = id
  BY <1>6, <1>7 DEF Surjection
<1>9. \A i, j \in DOMAIN r : i < j => r[i] # r[j]
  BY <1>6
<1> QED BY <1>2, <1>4, <1>5, <1>6, <1>8, <1>9

\* A search that passes an id over proposes as many as it may in its place.
LEMMA PassedOverIsOutranked ==
  ASSUME BothRankingsCount, NEW dense \in Short, NEW sparse \in Short,
         NEW id \in Ranked(dense) \cup Ranked(sparse),
         id \notin Ranked(Proposed(dense, sparse))
  PROVE  Cardinality({q \in Ranked(dense) \cup Ranked(sparse) :
                        Above(q, id, dense) \/ Above(q, id, sparse)}) >= TopK
<1>1. PICK ids : ids = Ranked(dense) \cup Ranked(sparse)
  OBVIOUS
<1>2. PICK r : r = FusedRanking(dense, sparse)
  OBVIOUS
<1>3. PICK n : n = Cardinality(ids)
  OBVIOUS
<1>4. /\ ids \subseteq Nat /\ IsFiniteSet(ids) /\ r \in [1..n -> ids]
      /\ \A a \in ids : \E i \in DOMAIN r : r[i] = a
      /\ \A i, j \in DOMAIN r : i < j => r[i] # r[j] /\ Precedes(r[i], r[j], dense, sparse)
  <2>1. FusionOf(dense, sparse, ids, r)
    BY <1>1, <1>2 DEF FusionOf
  <2> QED BY <1>3, <2>1, FusedRankingFacts
<1>5. n \in Nat /\ TopK \in Nat \ {0}
  BY <1>3, <1>4, FS_CardinalityType, RetrievalAssumption
<1>6. r \in Seq(ids) /\ Len(r) = n
  BY <1>4, <1>5
<1>7. PICK k \in 1..n : r[k] = id
  BY <1>1, <1>4
<1>8. k > TopK
  <2>1. SUFFICES ASSUME k <= TopK PROVE FALSE
    BY <1>5
  <2>2. PICK first : first = FirstOf(TopK, r)
    OBVIOUS
  <2>3. k \in DOMAIN first /\ first[k] = r[k]
    <3>1. CASE n <= TopK
      BY <1>4, <1>6, <2>2, <3>1 DEF FirstOf
    <3>2. CASE ~ (n <= TopK)
      <4>1. first = SubSeq(r, 1, TopK)
        BY <1>6, <2>2, <3>2 DEF FirstOf
      <4>2. first = [i \in 1..TopK |-> r[i]]
        BY <1>5, <1>6, <3>2, <4>1
      <4> QED BY <1>5, <2>1, <4>2
    <3> QED BY <3>1, <3>2
  <2>4. first = Proposed(dense, sparse)
    BY <1>2, <2>2 DEF Proposed
  <2> QED BY <1>7, <2>3, <2>4 DEF Ranked
<1> DEFINE above == {q \in ids : Above(q, id, dense) \/ Above(q, id, sparse)}
<1>9. ASSUME NEW i \in 1..TopK PROVE r[i] \in above
  <2>1. i \in DOMAIN r /\ k \in DOMAIN r /\ i < k
    BY <1>4, <1>5, <1>7, <1>8
  <2>2. r[i] \in ids /\ r[i] # id /\ Precedes(r[i], id, dense, sparse)
    BY <1>4, <1>7, <2>1
  <2>3. Above(r[i], id, dense) \/ Above(r[i], id, sparse)
    BY <1>1, <2>2, PrecedesIsAbove
  <2> QED BY <2>2, <2>3
<1>10. above \in SUBSET ids
  OBVIOUS
<1>11. IsFiniteSet(above)
  BY <1>4, <1>10, FS_Subset
<1> DEFINE top == [i \in 1..TopK |-> r[i]]
<1> HIDE DEF above
<1>12. top \in Injection(1..TopK, above)
  <2>1. ASSUME NEW i \in 1..TopK, NEW j \in 1..TopK, r[i] = r[j] PROVE i = j
    <3>1. i \in DOMAIN r /\ j \in DOMAIN r
      BY <1>4, <1>5, <1>7, <1>8
    <3>2. ~ (i < j) /\ ~ (j < i)
      BY <1>4, <2>1, <3>1
    <3> QED BY <1>5, <3>2
  <2> QED BY <1>9, <2>1 DEF Injection, IsInjective
<1>13. Cardinality(1..TopK) = TopK
  BY <1>5, FS_Interval
<1> HIDE DEF top
<1>14. Cardinality(1..TopK) <= Cardinality(above)
  BY <1>11, <1>12, FS_Injection
<1>15. Cardinality(above) \in Nat
  BY <1>11, FS_CardinalityType
<1> QED BY <1>1, <1>5, <1>13, <1>14, <1>15 DEF above

\* The candidates of a lookup in progress are what fusion makes of its rankings.
Fusing ==
  run.stage = "rows" =>
    /\ lookup.dense \in Short /\ lookup.sparse \in Short
    /\ lookup.ids = Proposed(lookup.dense, lookup.sparse)

LEMMA FirstOfIsShort ==
  ASSUME NEW c \in Catalogs, NEW ids \in SUBSET DOMAIN c, NEW r \in RankingsOf(ids)
  PROVE  FirstOf(Fetch, r) \in Short
<1>1. c \in Seq(Ranked(c))
  BY PipelineAssumption
<1>2. Len(c) \in Nat /\ DOMAIN c = 1..Len(c)
  BY <1>1
<1>3. IsFiniteSet(ids)
  <2>1. PICK m \in Nat : m = Len(c)
    BY <1>2
  <2>2. IsFiniteSet(1..m)
    BY FS_Interval
  <2>3. ids \in SUBSET (1..m)
    BY <1>2, <2>1
  <2> QED BY <2>2, <2>3, FS_Subset
<1>4. PICK n \in Nat : n = Cardinality(ids)
  BY <1>3, FS_CardinalityType
<1>5. r \in [1..n -> Nat]
  BY <1>2, <1>4 DEF RankingsOf
<1>6. r \in Seq(Nat) /\ Len(r) = n
  BY <1>4, <1>5
<1>7. Fetch \in Nat
  BY RetrievalAssumption
<1>8. CASE n <= Fetch
  BY <1>6, <1>8 DEF FirstOf, Short
<1>9. CASE ~ (n <= Fetch)
  <2>1. FirstOf(Fetch, r) = SubSeq(r, 1, Fetch)
    BY <1>6, <1>9 DEF FirstOf
  <2>2. SubSeq(r, 1, Fetch) \in Seq(Nat) /\ Len(SubSeq(r, 1, Fetch)) = Fetch
    BY <1>6, <1>7, <1>9
  <2> QED BY <1>7, <2>1, <2>2 DEF Short
<1> QED BY <1>8, <1>9

LEMMA SearchFuses == ASSUME IInv, Search PROVE Fusing'
<1> SUFFICES ASSUME run'.stage = "rows" PROVE Fusing'
  BY DEF Fusing
<1>1. live \in Catalogs /\ loaded \in Catalogs /\ run.stage = "build" /\ run \in RunType
  BY DEF IInv, TypeOK, Search, Unfinished
<1>2. PICK dense \in RankingsOf(DOMAIN live),
           sparse \in UNION {RankingsOf(s) : s \in SUBSET DOMAIN loaded} :
        IF Ranked(FirstOf(Fetch, dense)) \cup Ranked(FirstOf(Fetch, sparse)) = {}
          THEN run' = run
          ELSE lookup' = [dense |-> FirstOf(Fetch, dense), sparse |-> FirstOf(Fetch, sparse),
                          ids |-> Proposed(FirstOf(Fetch, dense), FirstOf(Fetch, sparse))]
  BY DEF Search
<1>3. PICK ids \in SUBSET DOMAIN loaded : sparse \in RankingsOf(ids)
  BY <1>2
<1>4. PICK d \in Short : d = FirstOf(Fetch, dense)
  BY <1>1, FirstOfIsShort
<1>5. PICK s \in Short : s = FirstOf(Fetch, sparse)
  BY <1>1, <1>3, FirstOfIsShort
<1>6. lookup' = [dense |-> d, sparse |-> s, ids |-> Proposed(d, s)]
  BY <1>1, <1>2, <1>4, <1>5
<1> QED BY <1>6 DEF Fusing

LEMMA StepFuses == IInv /\ Fusing /\ [Next]_vars => Fusing'
<1> SUFFICES ASSUME IInv, Fusing, [Next]_vars PROVE Fusing'
  OBVIOUS
<1>1. run \in RunType
  BY DEF IInv, TypeOK
<1>2. CASE UNCHANGED lookup /\ run'.stage = run.stage
  BY <1>2 DEF Fusing
<1>3. CASE run'.stage # "rows"
  BY <1>3 DEF Fusing
<1>4. ASSUME NEW stage \in {"enrich", "extract"}, CallFails(stage) PROVE Fusing'
  BY <1>1, <1>3, <1>4 DEF CallFails, Calling, TryAgain, NextModel, End, RunType
<1>5. CASE Enriched
  BY <1>1, <1>3, <1>5 DEF Enriched, Enter, End, RunType
<1>6. CASE Extracted
  <2>1. \/ Enter("build") \/ \E why \in {"grounding", "schema"} : End("no_match", why)
    BY <1>6 DEF Extracted
  <2> QED BY <1>1, <1>3, <2>1 DEF Enter, End, RunType
<1>7. CASE WithoutLookup
  BY <1>3, <1>7 DEF WithoutLookup, Unfinished
<1>8. CASE Search
  BY <1>8, SearchFuses
<1>9. CASE FetchRows
  BY <1>1, <1>3, <1>9 DEF FetchRows, RunType
<1>10. CASE LookupRaises \/ Validate
  BY <1>1, <1>3, <1>10 DEF LookupRaises, Validate, End, RunType
<1>11. CASE Rebuild \/ UNCHANGED vars
  BY <1>2, <1>11 DEF Rebuild, vars
<1> QED BY <1>4, <1>5, <1>6, <1>7, <1>8, <1>9, <1>10, <1>11 DEF Next, RequestStep

\* An action that a search could have given a link goes without only when as many
\* rows as the search returns were put above the one that fits by one of the
\* rankings (search_catalog, _first_verified_match), for any limits and
\* any weights but zero.
THEOREM OnlyOutrankedAreMissed ==
  ASSUME BothRankingsCount
  PROVE  Spec => MissedOnlyWhenOutranked
<1>1. Init => Fusing
  BY DEF Init, Fusing
<1>2. IInv /\ Fusing /\ [Next]_vars =>
        [run.stage = "rows" /\ built' # built /\ built'[Len(built')].link = NoLink =>
           \A id \in DOMAIN live \cap (Ranked(lookup.dense) \cup Ranked(lookup.sparse)) :
             Fits(Action.words, live[id].words) =>
               Cardinality({q \in Ranked(lookup.dense) \cup Ranked(lookup.sparse) :
                              \/ Above(q, id, lookup.dense)
                              \/ Above(q, id, lookup.sparse)}) >= TopK]_vars
  <2> SUFFICES ASSUME IInv, Fusing, Next, run.stage = "rows", built' # built,
                      built'[Len(built')].link = NoLink,
                      NEW id \in DOMAIN live \cap (Ranked(lookup.dense)
                                                     \cup Ranked(lookup.sparse)),
                      Fits(Action.words, live[id].words)
               PROVE  Cardinality({q \in Ranked(lookup.dense) \cup Ranked(lookup.sparse) :
                                     \/ Above(q, id, lookup.dense)
                                     \/ Above(q, id, lookup.sparse)}) >= TopK
    BY DEF vars
  <2>1. FetchRows
    <3>1. ~ \E stage \in {"enrich", "extract"} : CallFails(stage)
      BY DEF CallFails, Calling
    <3>2. ~ Enriched /\ ~ Extracted
      BY DEF Enriched, Extracted, Calling
    <3>3. ~ WithoutLookup /\ ~ Search /\ ~ Validate
      BY DEF WithoutLookup, Search, Unfinished, Validate
    <3>4. ~ LookupRaises /\ ~ Rebuild
      BY DEF LookupRaises, Rebuild
    <3> QED BY <3>1, <3>2, <3>3, <3>4 DEF Next, RequestStep
  <2>2. live \in Catalogs /\ built \in Seq(Ranked(built))
    BY DEF IInv, Structure, Shapes
  <2>3. ASSUME NEW match, Build(match) PROVE LinkOf(match) = NoLink
    <3>1. PICK b : b = BuildAction(Action, match)
      OBVIOUS
    <3>2. built' = Append(built, b) /\ b.link = LinkOf(match)
      BY <2>3, <3>1 DEF Build, BuildAction
    <3>3. built'[Len(built')] = b
      BY <2>2, <3>2
    <3> QED BY <3>2, <3>3
  <2>4. \A i \in DOMAIN lookup.ids : ~ Verified(Action, lookup.ids[i])
    <3>1. SUFFICES ASSUME NEW j \in DOMAIN lookup.ids, Verified(Action, lookup.ids[j])
                   PROVE  FALSE
      OBVIOUS
    <3>2. PICK i \in DOMAIN lookup.ids : /\ Verified(Action, lookup.ids[i])
                                         /\ Build(live[lookup.ids[i]])
      BY <2>1, <3>1 DEF FetchRows
    <3>3. PICK k \in DOMAIN live : k = lookup.ids[i]
      BY <3>2 DEF Verified
    <3>4. live[k] # NoRow /\ live[k].link # NoLink
      BY <2>2, RowHasLink
    <3>5. LinkOf(live[k]) = NoLink
      BY <2>3, <3>2, <3>3
    <3> QED BY <3>4, <3>5 DEF LinkOf
  <2>5. id \notin Ranked(lookup.ids)
    BY <2>4 DEF Ranked, Verified, Screen
  <2>6. PICK d \in Short : d = lookup.dense
    BY DEF Fusing
  <2>7. PICK s \in Short : s = lookup.sparse
    BY DEF Fusing
  <2>8. id \in Ranked(d) \cup Ranked(s) /\ id \notin Ranked(Proposed(d, s))
    BY <2>5, <2>6, <2>7 DEF Fusing
  <2>9. Cardinality({q \in Ranked(d) \cup Ranked(s) :
                       Above(q, id, d) \/ Above(q, id, s)}) >= TopK
    BY <2>8, PassedOverIsOutranked
  <2> QED BY <2>6, <2>7, <2>9
<1> QED BY <1>1, <1>2, Invariance, StepFuses, PTL DEF Spec, MissedOnlyWhenOutranked
=============================================================================

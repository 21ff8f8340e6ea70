------------------------------- MODULE Pipeline -------------------------------
(***************************************************************************)
(* Phases 0 to 2 of one request, on a cache miss: the query is enriched by *)
(* a language model, a plan is extracted from the reference text by        *)
(* another call, every action of it is mapped to a verified row of the     *)
(* deeplink catalog, and the service validates what came of it.            *)
(*                                                                         *)
(* The catalog may be replaced while the request is under way: the running *)
(* service keeps the word index and the permitted links it loaded when it  *)
(* started, and row ids start over with every rebuild.                     *)
(*                                                                         *)
(* A text is what the code reads in it: the meaningful tokens of a screen, *)
(* whether a passage is grounded, whether wording rules are met.           *)
(***************************************************************************)
EXTENDS Retrieval

CONSTANTS Models,       \* 1, or 2 when a different fallback model is configured
          MaxAttempts,  \* max_attempts of _call_model
          Catalogs,     \* what deeplink_catalog may hold: sequences of rows
          Plans,        \* the extractions a model may reply with
          Distinctive,  \* _DISTINCTIVE_FEATURE_TOKENS
          NoLink, NoRow

Rows == UNION {Ranked(c) : c \in Catalogs}
Links == {r.link : r \in Rows}
Category == {"auto", "manual", "critical"}

\* An official catalog gives every row a URI; the loader does not look.
ASSUME PipelineAssumption ==
  /\ Models \in {1, 2} /\ MaxAttempts \in Nat \ {0}
  /\ Catalogs # {} /\ \A c \in Catalogs : c \in Seq(Ranked(c))
  /\ \A r \in Rows : r.link # NoLink
  /\ NoRow \notin Rows
  /\ \A p \in Plans : /\ p # <<>> /\ p \in Seq(Ranked(p))
                      /\ \A i \in DOMAIN p : p[i].category \in Category

VARIABLES run,     \* the request: its stage, the model and attempt of its call, the
                   \* calls that model has had, the last error, and the outcome
          plan,    \* the extracted actions, critical ones last
          built,   \* the actions of the contract built so far
          lookup,  \* the candidates of the search in progress, and their rankings
          held,    \* the connection's transaction is open: it locks the catalog
          loaded,  \* the catalog as the service read it when it started
          live     \* deeplink_catalog

vars == <<run, plan, built, lookup, held, loaded, live>>

NoLookup == [dense |-> <<>>, sparse |-> <<>>, ids |-> <<>>]
-----------------------------------------------------------------------------
(* One call of a language model.                                           *)
Replies == {"text",         \* generated text
            "unparseable",  \* generated text that is not a JSON object
            "noText",       \* a body without generated text
            "garbled",      \* a body that is not JSON
            "busy",         \* HTTP 429, 500, 502, 503, 504
            "refused",      \* any other HTTP error
            "unreachable",  \* URLError
            "slow"}         \* TimeoutError while the answer is read

\* Only the enricher catches TimeoutError.
Retried(stage) ==
  {"busy", "unreachable"} \cup (IF stage = "enrich" THEN {"slow"} ELSE {})

\* What makes the next model's turn.  The extractor parses within the loop over
\* the models, the enricher after it.
Caught(stage) ==
  Retried(stage) \cup {"refused", "noText"}
                 \cup (IF stage = "extract" THEN {"unparseable"} ELSE {})

Calling(stage) == run.stage = stage /\ stage \in {"enrich", "extract"}

Enter(stage) ==
  run' = [run EXCEPT !.stage = stage, !.model = 1, !.attempt = 1, !.calls = 1,
                     !.why = "none"]

\* Every way out hands the connection back.
End(outcome, why) ==
  /\ run' = [run EXCEPT !.stage = "done", !.outcome = outcome, !.why = why]
  /\ held' = FALSE

\* Slip: the attempts are counted over both models.
NextModelSharedAttempts(reply) ==
  run' = [run EXCEPT !.model = @ + 1, !.calls = 1, !.why = reply]

NextModel(reply) ==
  run' = [run EXCEPT !.model = @ + 1, !.attempt = 1, !.calls = 1, !.why = reply]

\* Slip: the same attempt is made again.
TryAgainSameAttempt(reply) == run' = [run EXCEPT !.why = reply]

TryAgain(reply) ==
  run' = [run EXCEPT !.attempt = @ + 1, !.calls = @ + 1, !.why = reply]

\* Slip: the last attempt is retried as well.
RetriesAlways(stage, reply) == reply \in Retried(stage)

Retries(stage, reply) == reply \in Retried(stage) /\ run.attempt < MaxAttempts

\* A call that yields no text the phase can go on with.
CallFails(stage) ==
  /\ Calling(stage)
  /\ \E reply \in Replies \ {"text"} :
       \/ Retries(stage, reply) /\ TryAgain(reply) /\ UNCHANGED held
       \/ /\ reply \in Caught(stage) /\ ~ Retries(stage, reply)
          /\ run.model < Models /\ NextModel(reply) /\ UNCHANGED held
       \/ /\ ~ Retries(stage, reply)
          /\ reply \in Caught(stage) => run.model = Models
          /\ End("no_match", reply)
  /\ UNCHANGED <<plan, built, lookup, loaded, live>>
-----------------------------------------------------------------------------
(* Phases 0 and 1.                                                         *)
Init ==
  /\ run = [stage |-> "enrich", model |-> 1, attempt |-> 1, calls |-> 1,
            outcome |-> "none", why |-> "none"]
  /\ plan = <<>> /\ built = <<>> /\ lookup = NoLookup /\ held = FALSE
  /\ loaded \in Catalogs \ {<<>>} /\ live \in Catalogs

\* The service says no_siis_context when it was given no reference text.
Enriched ==
  /\ Calling("enrich")
  /\ \/ Enter("extract") /\ UNCHANGED held
     \/ End("no_siis_context", "none")
     \/ End("no_match", "schema")
     \/ End("no_match", "integrity")
  /\ UNCHANGED <<plan, built, lookup, loaded, live>>

Urgency == [auto |-> 0, manual |-> 1, critical |-> 2]

SortsBefore(actions, i, j) ==
  \/ Urgency[actions[i].category] < Urgency[actions[j].category]
  \/ Urgency[actions[i].category] = Urgency[actions[j].category] /\ i < j

\* The stable orders of a plan: the sort finds the one there is.
Orders(actions) ==
  {p \in [DOMAIN actions -> DOMAIN actions] :
     \A i, j \in DOMAIN actions : i < j => SortsBefore(actions, p[i], p[j])}

Grounded(actions) == \A i \in DOMAIN actions : actions[i].grounded

Extracted ==
  /\ Calling("extract")
  /\ \/ \E actions \in Plans :
          IF Grounded(actions)
            THEN /\ \E order \in Orders(actions) :
                      plan' = [i \in DOMAIN actions |-> actions[order[i]]]
                 /\ Enter("build") /\ UNCHANGED held
            ELSE End("no_match", "grounding") /\ UNCHANGED plan
     \/ End("no_match", "schema") /\ UNCHANGED plan
  /\ UNCHANGED <<built, lookup, loaded, live>>
-----------------------------------------------------------------------------
(* Phase 2: retrieval proposes, verification decides.                      *)
Action == plan[Len(built) + 1]

Unfinished == run.stage = "build" /\ Len(built) < Len(plan)

\* One distinctive feature in common, or two meaningful tokens.
Fits(words, screen) ==
  LET overlap == words \cap screen
  IN \/ overlap \cap Distinctive # {}
     \/ Cardinality(overlap) >= 2

NeedsLookup(action) == action.category # "manual" /\ action.target

\* Slip: the category stays what it was, found or not.
CategoryKept(action, match) == action.category

\* An auto action nothing was found for has nothing to open.
CategoryOf(action, match) ==
  IF action.category = "auto" /\ match = NoRow THEN "manual" ELSE action.category

LinkOf(match) == IF match = NoRow THEN NoLink ELSE match.link

\* A validation link with metadata the contract refuses is left out.
CheckOf(match) == IF match = NoRow \/ ~ match.sound THEN NoLink ELSE match.check

BuildAction(action, match) ==
  [category |-> CategoryOf(action, match), link |-> LinkOf(match), check |-> CheckOf(match)]

Build(match) == /\ built' = Append(built, BuildAction(Action, match))
                /\ lookup' = NoLookup

WithoutLookup ==
  /\ Unfinished /\ ~ NeedsLookup(Action)
  /\ Build(NoRow)
  /\ UNCHANGED <<run, plan, held, loaded, live>>

\* The word index ranks rows by the catalog it was built from.
Search ==
  /\ Unfinished /\ NeedsLookup(Action)
  /\ \E dense \in RankingsOf(DOMAIN live),
        sparse \in UNION {RankingsOf(s) : s \in SUBSET DOMAIN loaded} :
       LET d == FirstOf(Fetch, dense)
           s == FirstOf(Fetch, sparse)
       IN IF Ranked(d) \cup Ranked(s) = {}
            THEN Build(NoRow) /\ UNCHANGED run
            ELSE /\ lookup' = [dense |-> d, sparse |-> s, ids |-> Proposed(d, s)]
                 /\ run' = [run EXCEPT !.stage = "rows"]
                 /\ UNCHANGED built
  /\ UNCHANGED <<plan, held, loaded, live>>

\* Slip: a candidate is verified by the text its id was indexed with.
ScreenIndexed(id) == IF id \in DOMAIN loaded THEN loaded[id].words ELSE {}

\* What the row that has the id now says of its screen.
Screen(id) == live[id].words

\* An id no row has any more is left out.
Verified(action, id) == id \in DOMAIN live /\ Fits(action.words, Screen(id))

\* The first candidate that fits; its transaction stays open from here on.
FetchRows ==
  /\ run.stage = "rows"
  /\ LET fitting == {i \in DOMAIN lookup.ids : Verified(Action, lookup.ids[i])}
     IN \/ fitting = {} /\ Build(NoRow)
        \/ \E i \in fitting : /\ \A j \in fitting : i <= j
                              /\ Build(live[lookup.ids[i]])
  /\ run' = [run EXCEPT !.stage = "build"]
  /\ held' = TRUE
  /\ UNCHANGED <<plan, loaded, live>>

\* No connection, or a statement fails: the exception leaves the run.
LookupRaises ==
  /\ run.stage = "rows" \/ Unfinished
  /\ End("no_match", "database")
  /\ UNCHANGED <<plan, built, lookup, loaded, live>>
-----------------------------------------------------------------------------
(* Validation: the rules about categories, links and their order.          *)
Permitted == {loaded[i].link : i \in DOMAIN loaded}
             \cup ({loaded[i].check : i \in DOMAIN loaded} \ {NoLink})

When(broken, rule) == IF broken THEN {rule} ELSE {}

BrokenBy(action) ==
  When(action.category = "manual" /\ action.link # NoLink, "manual_with_deeplink")
  \cup When(action.link \notin Permitted \cup {NoLink}, "unknown_deeplink")
  \cup When(action.check \notin Permitted \cup {NoLink}, "unknown_validation_deeplink")
  \cup When(action.category = "auto" /\ action.link \notin Permitted,
            "auto_action_missing_deeplink")

CriticalNotLast(actions) ==
  \E i, j \in DOMAIN actions : /\ i < j /\ actions[i].category = "critical"
                              /\ actions[j].category # "critical"

BrokenByOne(actions) == UNION {BrokenBy(actions[i]) : i \in DOMAIN actions}

Violations(actions) ==
  BrokenByOne(actions) \cup When(DOMAIN actions = {}, "no_actions")
                       \cup When(CriticalNotLast(actions), "critical_ordering")

\* What the model worded may break a rule as well.
Validate ==
  /\ run.stage = "build" /\ Len(built) = Len(plan)
  /\ \/ Violations(built) = {} /\ End("plan", "none")
     \/ End("no_match", "invalid")
  /\ UNCHANGED <<plan, built, lookup, loaded, live>>

\* scripts.build_catalog and scripts.reset_catalog, which need the table alone.
Rebuild ==
  /\ run.stage # "done" /\ ~ held
  /\ live' \in Catalogs \ {live}
  /\ UNCHANGED <<run, plan, built, lookup, held, loaded>>
-----------------------------------------------------------------------------
RequestStep ==
  \/ \E stage \in {"enrich", "extract"} : CallFails(stage)
  \/ Enriched \/ Extracted
  \/ WithoutLookup \/ Search \/ FetchRows \/ LookupRaises
  \/ Validate

Next == RequestStep \/ Rebuild

\* The model's service answers or times out; nothing else makes the request wait.
Spec == Init /\ [][Next]_vars /\ WF_vars(RequestStep)
-----------------------------------------------------------------------------
RunType ==
  [stage : {"enrich", "extract", "build", "rows", "done"},
   model : 1..Models, attempt : 1..MaxAttempts, calls : 1..MaxAttempts,
   outcome : {"none", "plan", "no_match", "no_siis_context"},
   why : Replies \cup {"none", "schema", "integrity", "grounding", "database", "invalid"}]

BuiltType == [category : Category, link : Links \cup {NoLink},
              check : {r.check : r \in Rows} \cup {NoLink}]

TypeOK ==
  /\ run \in RunType
  /\ Len(built) <= Len(plan)
  /\ \A i \in DOMAIN built : built[i] \in BuiltType
  /\ held \in BOOLEAN
  /\ {loaded, live} \subseteq Catalogs

\* A plan the pipeline hands over breaks none of the rules on categories, links
\* and order, whatever the model extracted and the search proposed: only what the
\* service did not know when it started makes it refuse a link.  The categories
\* change in _build_action after the sort, and links are attached by category.
BuiltPlansBreakNoRule ==
  run.stage = "build" /\ Len(built) = Len(plan) =>
    /\ Violations(built) \cap {"manual_with_deeplink", "no_actions",
                               "critical_ordering"} = {}
    /\ Violations(built) # {} =>
         \E i \in DOMAIN built :
           ~ {built[i].link, built[i].check} \subseteq Permitted \cup {NoLink}

\* A link opens a screen that fits the action it is attached to, and its check is
\* that row's own, even when ids changed their rows between ranking and reading.
LinksNameTheScreen ==
  \A i \in DOMAIN built : built[i].link # NoLink =>
    \E r \in Rows : /\ r.link = built[i].link
                    /\ built[i].check \in {r.check, NoLink}
                    /\ plan[i].target /\ Fits(plan[i].words, r.words)

\* An action loses its link to ranking only: a row that fits is passed over by a
\* search that knew it only if as many rows as a search returns were each put
\* above it by one of the rankings.
MissedOnlyWhenOutranked ==
  [][run.stage = "rows" /\ built' # built /\ built'[Len(built')].link = NoLink =>
       \A id \in DOMAIN live \cap (Ranked(lookup.dense) \cup Ranked(lookup.sparse)) :
         Fits(Action.words, live[id].words) =>
           Cardinality({q \in Ranked(lookup.dense) \cup Ranked(lookup.sparse) :
                          \/ Above(q, id, lookup.dense)
                          \/ Above(q, id, lookup.sparse)}) >= TopK]_vars

\* A request is given up because the model's service is overloaded or out of reach
\* only after the last model configured was called as often as a model may be.
GivesUpOnlyAfterEveryTry ==
  run.stage = "done" /\ run.why \in {"busy", "unreachable"} =>
    run.model = Models /\ run.calls = MaxAttempts

\* However the model's service answers and however often the catalog is replaced,
\* the request comes to an end.
RunEnds == <>(run.stage = "done")
=============================================================================

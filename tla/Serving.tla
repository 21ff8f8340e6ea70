------------------------------- MODULE Serving -------------------------------
(***************************************************************************)
(* One service process and the operator's scripts on one database.  The    *)
(* process runs its requests and health probes as coroutines of a single   *)
(* event loop; each waits for a connection, for the model, and for the     *)
(* answers to its statements.  Phase 2 of the pipeline queries the catalog *)
(* synchronously: until the database answers, the loop runs nobody else.   *)
(* Scripts that rebuild or purge the catalog lock whole tables.            *)
(***************************************************************************)
EXTENDS Integers, Sequences, FiniteSets

CONSTANTS Requests, Probes,   \* coroutines: complaints and health probes
          PoolSize,           \* connections of the pool
          RetrievalOnLoop,    \* phase 2 runs on the loop, not on a worker thread
          Scripts,            \* what the operator may run beside the service
          Script, Free        \* the script as a holder of locks; nobody

Tasks == Requests \cup Probes

ASSUME ServingAssumption ==
  /\ PoolSize \in Nat \ {0} /\ RetrievalOnLoop \in BOOLEAN
  /\ Scripts \subseteq {"build_catalog", "reset_catalog"}
  /\ Requests \cap Probes = {} /\ Script \notin Tasks /\ Free \notin Tasks

VARIABLES task,   \* per coroutine: where it is, and whether its wait is over
          loop,   \* the coroutine that keeps the event loop, or Free
          locks,  \* table locks held in the database
          script  \* the script that runs, and the step it is at

vars == <<task, loop, locks, script>>

Tables == {"deeplink_catalog", "plan_cache", "plan_cache_vector"}
Modes == {"read", "write", "share", "exclusive"}
Lock == [by : Tasks \cup {Script}, table : Tables, mode : Modes]

At(h) == task[h].at
Waiting == {"lookup", "store", "probe"}      \* for a connection
Statements == {"search", "count", "upsert", "replace", "retrieve", "catalog", "plans"}
Over == {"idle", "served", "failed"}
Stages == Over \cup Waiting \cup Statements \cup {"model"}

\* The tables the statement of a stage locks, in the order it locks them.
Needs(stage) ==
  CASE stage = "search"  -> << <<"plan_cache_vector", "read">>, <<"plan_cache", "read">> >>
    [] stage = "count"   -> << <<"plan_cache", "write">> >>
    [] stage = "upsert"  -> << <<"plan_cache", "write">> >>
    [] stage = "replace" -> << <<"plan_cache_vector", "write">> >>
    [] stage \in {"retrieve", "catalog"} -> << <<"deeplink_catalog", "read">> >>
    [] stage = "plans"   -> << <<"plan_cache", "read">> >>
    [] OTHER -> << >>

\* Stages that hold a connection of the pool; phase 2 opens one of its own.
Pooled == Statements \ {"retrieve"}
PoolHasRoom == Cardinality({h \in Tasks : At(h) \in Pooled}) < PoolSize

Commit == <<"commit", "">>

\* The indexes are there.  index_catalog drops both, then loads, in one transaction, and
\* builds them in another.  reset_catalog has counted the rows of every table
\* in the transaction that then truncates.
Program ==
  [build_catalog |->
     << <<"deeplink_catalog", "exclusive">>, <<"plan_cache_vector", "exclusive">>, Commit,
        <<"deeplink_catalog", "share">>, <<"plan_cache_vector", "share">>, Commit >>,
   reset_catalog |->
     << <<"deeplink_catalog", "read">>, <<"plan_cache", "read">>,
        <<"plan_cache_vector", "read">>, <<"deeplink_catalog", "exclusive">>,
        <<"plan_cache_vector", "exclusive">>, <<"plan_cache", "exclusive">>, Commit >>,
   none |-> << >>]

Step == IF script.pc \in DOMAIN Program[script.run] THEN Program[script.run][script.pc]
                                                    ELSE <<"end", "">>
-----------------------------------------------------------------------------
(* The locks of the database.                                              *)
Conflict(m, n) == "exclusive" \in {m, n} \/ {m, n} = {"share", "write"}

Has(w, need) == [by |-> w, table |-> need[1], mode |-> need[2]] \in locks

\* What a worker's current statement still has to lock: at most one lock.
Wanted(w) ==
  IF w = Script
    THEN {[by |-> w, table |-> Step[1], mode |-> Step[2]] : t \in Tables \cap {Step[1]}}
    ELSE LET needs == Needs(At(w))
             missing == {i \in DOMAIN needs : ~ Has(w, needs[i])}
         IN {[by |-> w, table |-> needs[i][1], mode |-> needs[i][2]] :
               i \in {j \in missing : \A k \in missing : j <= k}}

\* A lock request stands behind the script's when that conflicts with it and
\* its worker holds nothing on the table yet.
Queued(l) ==
  /\ l.by # Script
  /\ \A k \in locks : k.by = l.by => k.table # l.table
  /\ \E q \in Wanted(Script) : q.table = l.table /\ Conflict(q.mode, l.mode)

Grantable(l) ==
  /\ \A k \in locks : k.by # l.by /\ k.table = l.table => ~ Conflict(k.mode, l.mode)
  /\ ~ Queued(l)

Released(w) == {l \in locks : l.by # w}
-----------------------------------------------------------------------------
Init == /\ task = [h \in Tasks |-> [at |-> "idle", over |-> FALSE]]
        /\ loop = Free
        /\ locks = {}
        /\ script = [run |-> "none", pc |-> 1]

To(h, stage) == task' = [task EXCEPT ![h] = [at |-> stage, over |-> FALSE]]
Ready(h) == task' = [task EXCEPT ![h].over = TRUE]

Arrive(h) ==
  /\ loop = Free
  /\ At(h) \in Over
  /\ To(h, IF h \in Probes THEN "probe" ELSE "lookup")
  /\ UNCHANGED <<loop, locks, script>>

\* A pipeline that raised, or whose plan is not stored, only leaves metrics.
AfterCheckout(stage) ==
  CASE stage = "lookup" -> {"search"}
    [] stage = "store"  -> {"upsert", "served"}
    [] stage = "probe"  -> {"catalog"}

Checkout(h) ==
  /\ loop = Free
  /\ At(h) \in Waiting /\ PoolHasRoom
  /\ \E stage \in AfterCheckout(At(h)) : To(h, stage)
  /\ UNCHANGED <<loop, locks, script>>

PoolTimeout(h) ==
  /\ loop = Free
  /\ At(h) \in Waiting /\ ~ PoolHasRoom
  /\ To(h, "failed")
  /\ UNCHANGED <<loop, locks, script>>

\* The database grants one lock of a statement, and answers it when it has
\* them all.  Neither takes the event loop.
Grant(h) ==
  /\ \E l \in Wanted(h) : Grantable(l) /\ locks' = locks \cup {l}
  /\ UNCHANGED <<task, loop, script>>

Answer(h) ==
  /\ At(h) \in Statements /\ ~ task[h].over
  /\ Wanted(h) = {}
  /\ Ready(h)
  /\ UNCHANGED <<loop, locks, script>>

\* The model answers, or gives up, on a worker thread.
ModelReturns(h) ==
  /\ At(h) = "model" /\ ~ task[h].over
  /\ Ready(h)
  /\ UNCHANGED <<loop, locks, script>>

Successors(stage) ==
  CASE stage = "search"   -> {"count", "model"}
    [] stage = "model"    -> {"retrieve", "store"}
    [] stage = "retrieve" -> {"store"}
    [] stage = "upsert"   -> {"replace"}
    [] stage = "catalog"  -> {"plans"}
    [] OTHER -> {"served"}

\* Slip: the lookup's transaction is left open while the pipeline runs.
EndsLate(stage) == stage \in {"count", "retrieve", "replace", "plans"}

\* Slip: the probe returns its connection with its transaction open.
EndsNever(stage) == stage \in {"search", "count", "retrieve", "replace"}

EndsTransaction(stage) == stage \in {"search", "count", "retrieve", "replace", "plans"}

\* Slip: the hop to a worker thread is forgotten.
KeepsAlways(h, stage) == IF stage = "retrieve" THEN h ELSE Free

\* Who keeps the loop once a coroutine has entered a stage.
Keeps(h, stage) == IF stage = "retrieve" /\ RetrievalOnLoop THEN h ELSE Free

\* The loop takes a coroutine up whose wait is over and runs it to its next.
Resume(h) ==
  /\ loop \in {Free, h}
  /\ task[h].over
  /\ \E stage \in Successors(At(h)) :
       /\ To(h, stage)
       /\ loop' = Keeps(h, stage)
  /\ locks' = IF EndsTransaction(At(h)) THEN Released(h) ELSE locks
  /\ UNCHANGED script
-----------------------------------------------------------------------------
StartScript(name) ==
  /\ script.run = "none"
  /\ script' = [run |-> name, pc |-> 1]
  /\ UNCHANGED <<task, loop, locks>>

ScriptLocks ==
  /\ \E l \in Wanted(Script) : Grantable(l) /\ locks' = locks \cup {l}
  /\ script' = [script EXCEPT !.pc = @ + 1]
  /\ UNCHANGED <<task, loop>>

ScriptCommits ==
  /\ Step = Commit
  /\ script' = [script EXCEPT !.pc = @ + 1]
  /\ locks' = Released(Script)
  /\ UNCHANGED <<task, loop>>

ScriptEnds ==
  /\ script.run # "none" /\ Step = <<"end", "">>
  /\ script' = [run |-> "none", pc |-> 1]
  /\ UNCHANGED <<task, loop, locks>>

\* The database rolls back everything the script has not committed.
AbortScript ==
  /\ script.run # "none"
  /\ script' = [run |-> "none", pc |-> 1]
  /\ locks' = Released(Script)
  /\ UNCHANGED <<task, loop>>

Blocks(w, v) ==
  \E l \in Wanted(v), k \in locks :
    k.by = w /\ k.table = l.table /\ Conflict(k.mode, l.mode)

\* The database sees a cycle of statements that wait for each other's locks
\* and picks a victim; it cannot see who waits for the event loop.
DeadlockDetected(h) ==
  /\ Blocks(h, Script) /\ Blocks(Script, h)
  /\ \/ AbortScript
     \/ /\ To(h, "failed")
        /\ locks' = Released(h)
        /\ loop' = IF loop = h THEN Free ELSE loop
        /\ UNCHANGED script

TaskStep(h) ==
  \/ Checkout(h) \/ PoolTimeout(h) \/ Grant(h)
  \/ Answer(h) \/ ModelReturns(h) \/ Resume(h)

ScriptStep == ScriptLocks \/ ScriptCommits \/ ScriptEnds

Next ==
  \/ \E h \in Tasks : Arrive(h) \/ TaskStep(h) \/ DeadlockDetected(h)
  \/ \E name \in Scripts : StartScript(name)
  \/ ScriptStep
  \/ AbortScript   \* the operator interrupts it

\* The loop, the pool and a table's lock serve in turn, so a step that is
\* possible again and again is taken; the database, the model and a script go
\* on while they can.  Nobody has to call, and no operator to interrupt.
Fairness ==
  /\ \A h \in Tasks : SF_vars(TaskStep(h))
  /\ WF_vars(\E h \in Tasks : DeadlockDetected(h))
  /\ WF_vars(ScriptStep)

Spec == Init /\ [][Next]_vars /\ Fairness
-----------------------------------------------------------------------------
TypeOK ==
  /\ task \in [Tasks -> [at : Stages, over : BOOLEAN]]
  /\ loop \in {Free} \cup {h \in Tasks : RetrievalOnLoop}
  /\ locks \subseteq Lock
  /\ script \in [run : Scripts \cup {"none"}, pc : 1..8]

(* The lookup of a request holds nothing while the pipeline thinks, so no  *)
(* script waits for the model (troubleshoot leaves the connection).        *)
NothingHeldByThinkers ==
  \A h \in Tasks : At(h) \in {"model"} \cup Waiting \cup Over => Released(h) = locks

(* A rebuild is never in a lock cycle with a request or a probe: only a    *)
(* purge, which locks what a store writes in another order, may have to be *)
(* rolled back, or roll a request back (index_catalog, reset_catalog).     *)
RebuildNeverDeadlocks ==
  \A h \in Tasks : Blocks(h, Script) /\ Blocks(Script, h) => script.run = "reset_catalog"

(* Every request and every probe is answered, with a failure at worst,     *)
(* whatever scripts the operator runs beside the service.                  *)
EverybodyIsAnswered == \A h \in Tasks : At(h) \notin Over ~> At(h) \in Over

(* A rebuild or purge gets through however many requests keep coming.      *)
ScriptsEnd == script.run # "none" ~> script.run = "none"
=============================================================================

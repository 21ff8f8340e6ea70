---------------------------- MODULE ServingProofs -----------------------------
(***************************************************************************)
(* Who may hold which table lock, and why a rebuild is never in a cycle of *)
(* lock waits: for any number of requests, probes and connections, on the  *)
(* loop or off it.                                                         *)
(***************************************************************************)
EXTENDS Serving, TLAPS

\* The tables on which the transaction of a stage may hold locks.
Reach(stage) ==
  CASE stage = "search" -> {"plan_cache_vector", "plan_cache"}
    [] stage \in {"count", "upsert"} -> {"plan_cache"}
    [] stage = "replace" -> {"plan_cache", "plan_cache_vector"}
    [] stage \in {"retrieve", "catalog"} -> {"deeplink_catalog"}
    [] stage = "plans" -> {"deeplink_catalog", "plan_cache"}
    [] OTHER -> {}

\* The tables a script has locked before its next step.
Taken(run, pc) ==
  CASE run = "build_catalog" /\ pc \in {2, 5} -> {"deeplink_catalog"}
    [] run = "build_catalog" /\ pc \in {3, 6} ->
         {"deeplink_catalog", "plan_cache_vector"}
    [] run = "reset_catalog" /\ pc \in 1..7 -> Tables
    [] OTHER -> {}

Types ==
  /\ task \in [Tasks -> [at : Stages, over : BOOLEAN]]
  /\ script \in [run : {"none", "build_catalog", "reset_catalog"}, pc : Nat]
  /\ script.run = "none" => script.pc = 1
  /\ script.run = "build_catalog" => script.pc \in 1..7
  /\ script.run = "reset_catalog" => script.pc \in 1..8

\* Only a statement or the model is waited for with an end that can be seen.
WaitsEnd == \A h \in Tasks : task[h].over => At(h) \in Statements \cup {"model"}

TasksHold == \A h \in Tasks : \A l \in locks : l.by = h => l.table \in Reach(At(h))

ScriptHolds == \A l \in locks : l.by = Script => l.table \in Taken(script.run, script.pc)

IInv == Types /\ WaitsEnd /\ TasksHold /\ ScriptHolds
-----------------------------------------------------------------------------
\* What a task's statement wants is a lock of its own on a table in reach.
LEMMA WantsWithinReach ==
  ASSUME NEW h \in Tasks, NEW l \in Wanted(h)
  PROVE  l.by = h /\ l.table \in Reach(At(h)) /\ At(h) \in Statements
<1>1. h # Script
  BY ServingAssumption
<1> DEFINE needs == Needs(At(h))
<1>2. PICK i \in DOMAIN needs : l = [by |-> h, table |-> needs[i][1], mode |-> needs[i][2]]
  BY <1>1 DEF Wanted
<1>3. l.by = h /\ l.table = needs[i][1]
  BY <1>2
<1>4. At(h) \in Statements /\ needs[i][1] \in Reach(At(h))
  <2>1. CASE At(h) = "search"
    BY <2>1 DEF Needs, Reach, Statements
  <2>2. CASE At(h) = "count"
    BY <2>2 DEF Needs, Reach, Statements
  <2>3. CASE At(h) = "upsert"
    BY <2>3 DEF Needs, Reach, Statements
  <2>4. CASE At(h) = "replace"
    BY <2>4 DEF Needs, Reach, Statements
  <2>5. CASE At(h) = "retrieve"
    BY <2>5 DEF Needs, Reach, Statements
  <2>6. CASE At(h) = "catalog"
    BY <2>6 DEF Needs, Reach, Statements
  <2>7. CASE At(h) = "plans"
    BY <2>7 DEF Needs, Reach, Statements
  <2>8. CASE At(h) \notin Statements
    BY <2>8 DEF Needs, Statements
  <2> QED
    BY <2>1, <2>2, <2>3, <2>4, <2>5, <2>6, <2>7, <2>8 DEF Statements
<1> QED
  BY <1>3, <1>4

\* What a script's step begins with: a table, "commit" or "end".
LEMMA StepOfBuild ==
  ASSUME Types, script.run = "build_catalog"
  PROVE  \/ script.pc \in {1, 4} /\ Step[1] = "deeplink_catalog"
         \/ script.pc \in {2, 5} /\ Step[1] = "plan_cache_vector"
         \/ script.pc \in {3, 6} /\ Step[1] = "commit"
         \/ script.pc = 7 /\ Step[1] = "end"
<1> DEFINE p == Program[script.run]
<1>1. p = << <<"deeplink_catalog", "exclusive">>, <<"plan_cache_vector", "exclusive">>,
             Commit, <<"deeplink_catalog", "share">>, <<"plan_cache_vector", "share">>,
             Commit >>
  BY DEF Program
<1>2. DOMAIN p = 1..6
  BY <1>1
<1>3. Step = IF script.pc \in 1..6 THEN p[script.pc] ELSE <<"end", "">>
  BY <1>2 DEF Step
<1>4. /\ p[1] = <<"deeplink_catalog", "exclusive">> /\ p[3] = Commit
      /\ p[2] = <<"plan_cache_vector", "exclusive">> /\ p[6] = Commit
      /\ p[4] = <<"deeplink_catalog", "share">>
      /\ p[5] = <<"plan_cache_vector", "share">>
  BY <1>1
<1> HIDE DEF p
<1>5. p[1][1] = "deeplink_catalog" /\ p[4][1] = "deeplink_catalog"
  BY <1>4
<1>6. p[2][1] = "plan_cache_vector" /\ p[5][1] = "plan_cache_vector"
  BY <1>4
<1>7. Commit[1] = "commit" /\ <<"end", "">>[1] = "end"
  BY DEF Commit
<1>8. p[3][1] = "commit" /\ p[6][1] = "commit"
  BY <1>4, <1>7
<1>9. script.pc \in 1..7
  BY DEF Types
<1>10. CASE script.pc = 7
  <2>1. script.pc \notin 1..6
    BY <1>10
  <2>2. Step = <<"end", "">>
    BY <1>3, <2>1, Zenon
  <2> QED
    BY <1>7, <1>10, <2>2
<1>11. CASE script.pc \in 1..6
  <2>1. Step = p[script.pc]
    BY <1>3, <1>11
  <2> QED
    BY <1>5, <1>6, <1>8, <1>11, <2>1
<1> QED
  BY <1>9, <1>10, <1>11

LEMMA StepOfReset ==
  ASSUME Types, script.run = "reset_catalog"
  PROVE  \/ script.pc \in 1..6 /\ Step[1] \in Tables
         \/ script.pc = 7 /\ Step[1] = "commit"
         \/ script.pc = 8 /\ Step[1] = "end"
<1> DEFINE p == Program[script.run]
<1>1. p = << <<"deeplink_catalog", "read">>, <<"plan_cache", "read">>,
             <<"plan_cache_vector", "read">>, <<"deeplink_catalog", "exclusive">>,
             <<"plan_cache_vector", "exclusive">>, <<"plan_cache", "exclusive">>, Commit >>
  BY DEF Program
<1>2. DOMAIN p = 1..7
  BY <1>1
<1>3. Step = IF script.pc \in 1..7 THEN p[script.pc] ELSE <<"end", "">>
  BY <1>2 DEF Step
<1>4. /\ p[1] = <<"deeplink_catalog", "read">> /\ p[2] = <<"plan_cache", "read">>
      /\ p[3] = <<"plan_cache_vector", "read">>
      /\ p[4] = <<"deeplink_catalog", "exclusive">>
      /\ p[5] = <<"plan_cache_vector", "exclusive">>
      /\ p[6] = <<"plan_cache", "exclusive">> /\ p[7] = Commit
  BY <1>1
<1> HIDE DEF p
<1>5. p[1][1] \in Tables /\ p[2][1] \in Tables /\ p[3][1] \in Tables
  BY <1>4 DEF Tables
<1>6. p[4][1] \in Tables /\ p[5][1] \in Tables /\ p[6][1] \in Tables
  BY <1>4 DEF Tables
<1>7. Commit[1] = "commit" /\ <<"end", "">>[1] = "end"
  BY DEF Commit
<1>8. p[7][1] = "commit"
  BY <1>4, <1>7
<1>9. script.pc \in 1..8
  BY DEF Types
<1>10. CASE script.pc = 8
  <2>1. script.pc \notin 1..7
    BY <1>10
  <2>2. Step = <<"end", "">>
    BY <1>3, <2>1, Zenon
  <2> QED
    BY <1>7, <1>10, <2>2
<1>11. CASE script.pc \in 1..7
  <2>1. Step = p[script.pc]
    BY <1>3, <1>11
  <2> QED
    BY <1>5, <1>6, <1>8, <1>11, <2>1
<1> QED
  BY <1>9, <1>10, <1>11

LEMMA StepOfNone ==
  ASSUME script.run = "none"
  PROVE  Step[1] = "end"
<1> DEFINE p == Program[script.run]
<1>1. p = << >>
  BY DEF Program
<1>2. DOMAIN p = {}
  BY <1>1
<1>3. Step = <<"end", "">>
  BY <1>2 DEF Step
<1> QED
  BY <1>3

\* A script wants at most the lock of its step.
LEMMA ScriptWants ==
  ASSUME NEW l \in Wanted(Script)
  PROVE  l.by = Script /\ l.table = Step[1] /\ Step[1] \in Tables
BY DEF Wanted
-----------------------------------------------------------------------------
LEMMA InvInit == Init => IInv
<1> SUFFICES ASSUME Init PROVE IInv
  OBVIOUS
<1>1. Types
  BY DEF Init, Types, Stages, Over
<1>2. WaitsEnd /\ TasksHold /\ ScriptHolds
  BY DEF Init, WaitsEnd, TasksHold, ScriptHolds
<1> QED
  BY <1>1, <1>2 DEF IInv

\* A coroutine that goes to another stage keeps only what is in reach there.
LEMMA MoveKeepsInv ==
  ASSUME IInv, NEW h \in Tasks, NEW stage \in Stages, To(h, stage), UNCHANGED script,
         \/ locks' = Released(h)
         \/ locks' = locks /\ Reach(At(h)) \subseteq Reach(stage)
  PROVE  IInv'
<1> USE DEF IInv
<1>1. h # Script
  BY ServingAssumption
<1>2. /\ task' \in [Tasks -> [at : Stages, over : BOOLEAN]]
      /\ At(h)' = stage /\ task'[h].over = FALSE
      /\ \A g \in Tasks \ {h} : task'[g] = task[g]
  BY DEF To, Types, At
<1>3. Types'
  BY <1>2 DEF Types
<1>4. WaitsEnd'
  BY <1>2 DEF WaitsEnd, At
<1>5. locks' \subseteq locks
  BY DEF Released
<1>6. TasksHold'
  <2> SUFFICES ASSUME NEW g \in Tasks, NEW l \in locks', l.by = g
               PROVE  l.table \in Reach(At(g)')
    BY DEF TasksHold, Reach
  <2>1. CASE g # h
    BY <1>2, <1>5, <2>1 DEF TasksHold, At
  <2>2. CASE g = h
    BY <1>2, <1>5, <2>2 DEF TasksHold, Released
  <2> QED
    BY <2>1, <2>2
<1>7. ScriptHolds'
  BY <1>5 DEF ScriptHolds, Taken
<1> QED
  BY <1>3, <1>4, <1>6, <1>7

LEMMA InvNext == IInv /\ [Next]_vars => IInv'
<1> SUFFICES ASSUME IInv, [Next]_vars PROVE IInv'
  OBVIOUS
<1> USE DEF IInv
<1>0. \A h \in Tasks : h # Script /\ At(h) \in Stages
  BY ServingAssumption DEF Types, At
<1>1. ASSUME NEW h \in Tasks, Arrive(h) PROVE IInv'
  <2>1. Reach(At(h)) = {}
    BY <1>1 DEF Arrive, Over, Reach
  <2>2. "probe" \in Stages /\ "lookup" \in Stages
    BY DEF Stages, Waiting
  <2> QED
    BY <1>1, <2>1, <2>2, MoveKeepsInv DEF Arrive
<1>2. ASSUME NEW h \in Tasks, Checkout(h) PROVE IInv'
  <2>1. Reach(At(h)) = {} /\ AfterCheckout(At(h)) \subseteq Stages
    BY <1>2 DEF Checkout, Waiting, Reach, AfterCheckout, Stages, Statements, Over
  <2> QED
    BY <1>2, <2>1, MoveKeepsInv DEF Checkout
<1>3. ASSUME NEW h \in Tasks, PoolTimeout(h) PROVE IInv'
  <2>1. Reach(At(h)) = {} /\ "failed" \in Stages
    BY <1>3 DEF PoolTimeout, Waiting, Reach, Stages, Over
  <2> QED
    BY <1>3, <2>1, MoveKeepsInv DEF PoolTimeout
<1>4. ASSUME NEW h \in Tasks, Grant(h) PROVE IInv'
  <2>1. PICK l \in Wanted(h) : locks' = locks \cup {l}
    BY <1>4 DEF Grant
  <2>2. l.by = h /\ l.table \in Reach(At(h))
    BY <2>1, WantsWithinReach
  <2>3. UNCHANGED <<task, script>>
    BY <1>4 DEF Grant
  <2>4. Types' /\ WaitsEnd'
    BY <2>3 DEF Types, WaitsEnd, At
  <2>5. TasksHold'
    BY <2>1, <2>2, <2>3 DEF TasksHold, At
  <2>6. ScriptHolds'
    BY <1>0, <2>1, <2>2, <2>3 DEF ScriptHolds
  <2> QED
    BY <2>4, <2>5, <2>6
<1>5. ASSUME NEW h \in Tasks, Answer(h) \/ ModelReturns(h) PROVE IInv'
  <2>1. /\ At(h) \in Statements \cup {"model"}
        /\ Ready(h) /\ UNCHANGED <<locks, script>>
    BY <1>5 DEF Answer, ModelReturns
  <2>2. /\ task' \in [Tasks -> [at : Stages, over : BOOLEAN]]
        /\ \A g \in Tasks : At(g)' = At(g) /\ (g # h => task'[g] = task[g])
    BY <2>1 DEF Ready, Types, At
  <2>3. Types' /\ WaitsEnd'
    BY <2>1, <2>2 DEF Types, WaitsEnd, At
  <2>4. TasksHold' /\ ScriptHolds'
    BY <2>1, <2>2 DEF TasksHold, ScriptHolds
  <2> QED
    BY <2>3, <2>4
<1>6. ASSUME NEW h \in Tasks, Resume(h) PROVE IInv'
  <2>1. PICK stage \in Successors(At(h)) : To(h, stage)
    BY <1>6 DEF Resume
  <2>2. At(h) \in Statements \cup {"model"}
    BY <1>6 DEF Resume, WaitsEnd
  <2>3. /\ stage \in Stages
        /\ ~ EndsTransaction(At(h)) => Reach(At(h)) \subseteq Reach(stage)
    BY <2>1, <2>2 DEF Statements, Successors, Stages, Waiting, Over, EndsTransaction, Reach
  <2> QED
    BY <1>6, <2>1, <2>3, MoveKeepsInv DEF Resume
<1>7. ASSUME NEW name \in Scripts, StartScript(name) PROVE IInv'
  <2>1. name \in {"build_catalog", "reset_catalog"}
    BY ServingAssumption
  <2>2. script' = [run |-> name, pc |-> 1] /\ UNCHANGED <<task, locks>>
    BY <1>7 DEF StartScript
  <2>3. Types' /\ WaitsEnd' /\ TasksHold'
    BY <2>1, <2>2 DEF Types, WaitsEnd, TasksHold, At
  <2>4. ScriptHolds'
    BY <1>7, <2>2 DEF StartScript, ScriptHolds, Taken
  <2> QED
    BY <2>3, <2>4
<1>8. CASE ScriptLocks
  <2>1. PICK l \in Wanted(Script) : locks' = locks \cup {l}
    BY <1>8 DEF ScriptLocks
  <2>2. l.by = Script /\ l.table = Step[1] /\ Step[1] \in Tables
    BY <2>1, ScriptWants
  <2>3. UNCHANGED task /\ script' = [script EXCEPT !.pc = @ + 1]
    BY <1>8 DEF ScriptLocks
  <2>4. script.run \in {"build_catalog", "reset_catalog"}
    BY <2>2, StepOfNone DEF Types, Tables
  <2>5. script'.run = script.run /\ script'.pc = script.pc + 1
    BY <2>3 DEF Types
  <2>6. \/ script.run = "build_catalog" /\ script.pc \in {1, 4} /\ l.table = "deeplink_catalog"
        \/ script.run = "build_catalog" /\ script.pc \in {2, 5} /\ l.table = "plan_cache_vector"
        \/ script.run = "reset_catalog" /\ script.pc \in 1..6
    BY <2>2, <2>4, StepOfBuild, StepOfReset DEF Tables
  <2>7. Types'
    BY <2>3, <2>4, <2>5, <2>6 DEF Types
  <2>8. WaitsEnd' /\ TasksHold'
    BY <1>0, <2>1, <2>2, <2>3 DEF WaitsEnd, TasksHold, At
  <2>9. ScriptHolds'
    BY <2>1, <2>2, <2>5, <2>6 DEF ScriptHolds, Taken, Tables
  <2> QED
    BY <2>7, <2>8, <2>9
<1>9. CASE ScriptCommits
  <2>1. /\ Step[1] = "commit" /\ UNCHANGED task /\ locks' = Released(Script)
        /\ script' = [script EXCEPT !.pc = @ + 1]
    BY <1>9 DEF ScriptCommits, Commit
  <2>2. script.run \in {"build_catalog", "reset_catalog"}
    BY <2>1, StepOfNone DEF Types
  <2>3. \/ script.run = "build_catalog" /\ script.pc \in {3, 6}
        \/ script.run = "reset_catalog" /\ script.pc = 7
    BY <2>1, <2>2, StepOfBuild, StepOfReset DEF Tables
  <2>4. Types'
    BY <2>1, <2>2, <2>3 DEF Types
  <2>5. WaitsEnd' /\ TasksHold' /\ ScriptHolds'
    BY <2>1 DEF WaitsEnd, TasksHold, ScriptHolds, Released, At
  <2> QED
    BY <2>4, <2>5
<1>10. CASE ScriptEnds
  <2>1. /\ script.run # "none" /\ Step[1] = "end" /\ UNCHANGED <<task, locks>>
        /\ script' = [run |-> "none", pc |-> 1]
    BY <1>10 DEF ScriptEnds
  <2>2. \/ script.run = "build_catalog" /\ script.pc = 7
        \/ script.run = "reset_catalog" /\ script.pc = 8
    BY <2>1, StepOfBuild, StepOfReset DEF Types, Tables
  <2>3. Types'
    BY <2>1 DEF Types
  <2>4. WaitsEnd' /\ TasksHold'
    BY <2>1 DEF WaitsEnd, TasksHold, At
  <2>5. ScriptHolds'
    BY <2>1, <2>2 DEF ScriptHolds, Taken
  <2> QED
    BY <2>3, <2>4, <2>5
<1>11. ASSUME AbortScript PROVE IInv'
  BY <1>11 DEF AbortScript, Types, WaitsEnd, TasksHold, ScriptHolds, Released, At
<1>12. ASSUME NEW h \in Tasks, DeadlockDetected(h) PROVE IInv'
  <2>1. CASE AbortScript
    BY <1>11, <2>1
  <2>2. CASE To(h, "failed") /\ locks' = Released(h) /\ UNCHANGED script
    BY <2>2, MoveKeepsInv DEF Stages, Over
  <2> QED
    BY <1>12, <2>1, <2>2 DEF DeadlockDetected
<1>13. CASE UNCHANGED vars
  BY <1>13 DEF vars, Types, WaitsEnd, TasksHold, ScriptHolds, At
<1> QED
  BY <1>1, <1>2, <1>3, <1>4, <1>5, <1>6, <1>7, <1>8, <1>9, <1>10, <1>11, <1>12, <1>13
  DEF Next, TaskStep, ScriptStep

\* The invariant holds in every state.
THEOREM Invariance == Spec => []IInv
BY InvInit, InvNext, PTL DEF Spec
-----------------------------------------------------------------------------
(* A coroutine that waits for the model or for a connection, or is done,   *)
(* holds no lock: no script waits for a language model (troubleshoot).     *)
THEOREM ThinkersHoldNothing == Spec => []NothingHeldByThinkers
<1>1. IInv => NothingHeldByThinkers
  <2> SUFFICES ASSUME IInv, NEW h \in Tasks, At(h) \in {"model"} \cup Waiting \cup Over
               PROVE  Released(h) = locks
    BY DEF NothingHeldByThinkers
  <2>1. Reach(At(h)) = {}
    BY DEF Reach, Waiting, Over
  <2> QED
    BY <2>1 DEF IInv, TasksHold, Released
<1> QED
  BY Invariance, <1>1, PTL

(* A rebuild takes its locks in an order no statement of the service takes *)
(* the other way round, so only a purge can be in a cycle of lock waits    *)
(* (index_catalog, reset_catalog).                                         *)
THEOREM RebuildsNeverDeadlock == Spec => []RebuildNeverDeadlocks
<1>1. IInv => RebuildNeverDeadlocks
  <2> SUFFICES ASSUME IInv, NEW h \in Tasks, Blocks(h, Script), Blocks(Script, h),
                      script.run # "reset_catalog"
               PROVE  FALSE
    BY DEF RebuildNeverDeadlocks
  <2> USE DEF IInv
  <2>1. PICK wanted \in Wanted(Script), held \in locks :
          held.by = h /\ held.table = wanted.table
    BY DEF Blocks
  <2>2. PICK wants \in Wanted(h), kept \in locks :
          kept.by = Script /\ kept.table = wants.table
    BY DEF Blocks
  <2>3. wanted.table = Step[1] /\ Step[1] \in Tables
    BY <2>1, ScriptWants
  <2>4. script.run = "build_catalog"
    BY <2>3, StepOfNone DEF Types, Tables
  <2>5. \/ script.pc \in {1, 4}
        \/ script.pc \in {2, 5} /\ wanted.table = "plan_cache_vector"
    BY <2>3, <2>4, StepOfBuild DEF Tables
  <2>6. kept.table \in Taken(script.run, script.pc)
    BY <2>2 DEF ScriptHolds
  <2>7. wanted.table = "plan_cache_vector" /\ wants.table = "deeplink_catalog"
    BY <2>2, <2>4, <2>5, <2>6 DEF Taken
  <2>8. /\ "deeplink_catalog" \in Reach(At(h)) /\ "plan_cache_vector" \in Reach(At(h))
    BY <2>1, <2>2, <2>7, WantsWithinReach DEF TasksHold
  <2> QED
    BY <2>8 DEF Reach
<1> QED
  BY Invariance, <1>1, PTL
=============================================================================

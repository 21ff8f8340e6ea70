---------------------------- MODULE CatalogProofs -----------------------------
(***************************************************************************)
(* The safety of the catalog's life cycle for any catalogs, any number of  *)
(* requests and any length of a pipeline run.  Where the database must not *)
(* change between two statements the operator runs one script at a time    *)
(* (OneScript); the types do not need it.                                  *)
(***************************************************************************)
EXTENDS Catalog, TLAPS

\* A script is never started beside another one.
OneScript == \A o, p \in Operators : o = p

Types ==
  /\ file \in Catalogs /\ rows \in Catalogs \cup {{}}
  /\ indexed \in BOOLEAN
  /\ shell \in [Operators -> [at : {"idle", "embedded", "loaded"},
                              links : Catalogs \cup {{}}]]
  /\ service \in [phase : Phases, words : SUBSET Links, permitted : SUBSET Links]
  /\ probe \in [at : {"none", "asked", "counting"}, loaded : BOOLEAN,
                indexed : BOOLEAN, whole : BOOLEAN]

\* What a build is about to load is a catalog of the operator's.
BuildsAreReal ==
  \A o \in Operators : shell[o].at # "idle" => shell[o].links \in Catalogs

\* What a start-up has read is what it will read next: it holds the lock.
WordsAreCurrent ==
  /\ service.phase = "words" => service.words = rows
  /\ service.phase = "ready" => service.words = service.permitted

\* Indexes are built over rows, and never outlive them.
IndexesHaveRows ==
  /\ indexed => rows # {}
  /\ \A o \in Operators : shell[o].at = "loaded" => rows # {}

\* What a probe has seen.
ProbeIsHonest ==
  /\ probe.at # "none" => service.phase # "down"
  /\ probe.at # "none" /\ probe.loaded => service.phase = "ready"
  /\ probe.at = "counting" /\ probe.indexed => probe.whole

IInv == /\ Types /\ BuildsAreReal /\ WordsAreCurrent /\ IndexesHaveRows
        /\ ProbeIsHonest /\ HealthOkMeansServed
-----------------------------------------------------------------------------
LEMMA CatalogsHaveLinks ==
  ASSUME NEW c \in Catalogs PROVE c # {} /\ c \in SUBSET Links
BY CatalogAssumption DEF Links

LEMMA InvInit == Init => IInv
<1> SUFFICES ASSUME Init PROVE IInv
  OBVIOUS
<1>1. Types
  BY DEF Init, Types, Idle, NoProbe, Down, Phases
<1>2. BuildsAreReal /\ WordsAreCurrent
  BY DEF Init, BuildsAreReal, WordsAreCurrent, Idle, Down
<1>3. IndexesHaveRows
  BY DEF Init, IndexesHaveRows, Idle
<1>4. ProbeIsHonest /\ HealthOkMeansServed
  BY DEF Init, ProbeIsHonest, HealthOkMeansServed, NoProbe
<1> QED
  BY <1>1, <1>2, <1>3, <1>4 DEF IInv

LEMMA InvNext ==
  ASSUME OneScript, IInv, [Next]_vars
  PROVE  IInv'
<1> USE CatalogsHaveLinks
    DEF IInv, Types, BuildsAreReal, WordsAreCurrent, IndexesHaveRows, ProbeIsHonest,
        HealthOkMeansServed, Phases, process, database
<1>1. CASE SwapFile
  BY <1>1 DEF SwapFile
<1>2. ASSUME NEW o \in Operators, ReadFile(o) PROVE IInv'
  BY <1>2, OneScript DEF ReadFile, OneScript
<1>3. ASSUME NEW o \in Operators, Load(o) PROVE IInv'
  BY <1>3, OneScript DEF Load, Locked, OneScript
<1>4. ASSUME NEW o \in Operators, BuildIndexes(o) PROVE IInv'
  BY <1>4, OneScript DEF BuildIndexes, Idle, OneScript
<1>5. ASSUME NEW o \in Operators, Interrupt(o) PROVE IInv'
  BY <1>5, OneScript DEF Interrupt, Idle, OneScript
<1>6. ASSUME NEW o \in Operators, Purge(o) PROVE IInv'
  BY <1>6, OneScript DEF Purge, Locked, PurgeIndexes, OneScript
<1>7. CASE Start
  BY <1>7 DEF Start
<1>8. CASE ReadWords
  BY <1>8 DEF ReadWords
<1>9. CASE ReadPermitted
  BY <1>9 DEF ReadPermitted
<1>10. CASE StartFails
  BY <1>10 DEF StartFails
<1>11. CASE Stop
  BY <1>11 DEF Stop, Down, NoProbe
<1>12. CASE ProbeStarts
  BY <1>12 DEF ProbeStarts, Loaded, NoProbe
<1>13. CASE ProbeIndexes
  BY <1>13 DEF ProbeIndexes, Whole
<1>14. CASE ProbeAnswers
  BY <1>14 DEF ProbeAnswers, NoProbe
<1>15. ASSUME NEW r \in Requests, Hit(r) PROVE IInv'
  BY <1>15, OneScript DEF Hit, Enter, OneScript
<1>16. ASSUME NEW r \in Requests, Miss(r) PROVE IInv'
  BY <1>16, OneScript DEF Miss, Enter, OneScript
<1>17. ASSUME NEW r \in Requests, Retrieve(r) PROVE IInv'
  BY <1>17, OneScript DEF Retrieve, Enter, OneScript
<1>18. ASSUME NEW r \in Requests, Finish(r) PROVE IInv'
  BY <1>18, OneScript DEF Finish, Enter, OneScript
<1>19. ASSUME NEW r \in Requests, PipelineFails(r) PROVE IInv'
  BY <1>19, OneScript DEF PipelineFails, Enter, OneScript
<1>20. ASSUME NEW r \in Requests, FindStale(r) PROVE IInv'
  BY <1>20, OneScript DEF FindStale, OneScript
<1>21. CASE UNCHANGED vars
  BY <1>21 DEF vars
<1> QED
  BY <1>1, <1>2, <1>3, <1>4, <1>5, <1>6, <1>7, <1>8, <1>9, <1>10, <1>11, <1>12,
     <1>13, <1>14, <1>15, <1>16, <1>17, <1>18, <1>19, <1>20, <1>21
  DEF Next, OperatorStep, ProcessStep

\* The invariant holds in every state, when scripts run one at a time.
THEOREM Invariance == ASSUME OneScript PROVE Spec => []IInv
<1>1. IInv /\ [Next]_vars => IInv'
  BY InvNext, OneScript
<1> QED
  BY InvInit, <1>1, PTL DEF Spec
-----------------------------------------------------------------------------
(* A service that answers has built its word index and its permitted links *)
(* from one and the same catalog, whatever the operator ran while it       *)
(* started (load_catalog_state's transaction).                             *)
THEOREM OneCatalogPerProcess ==
  ASSUME OneScript PROVE Spec => []SnapshotIsOneCatalog
<1>1. IInv => SnapshotIsOneCatalog
  BY DEF IInv, WordsAreCurrent, SnapshotIsOneCatalog
<1> QED
  BY Invariance, <1>1, PTL

(* Whoever /health sent to a process is served by it (lifespan sets the    *)
(* flag last, and a stopped process has said nothing).                     *)
THEOREM HealthyProcessesServe ==
  ASSUME OneScript PROVE Spec => []HealthOkMeansServed
<1>1. IInv => HealthOkMeansServed
  BY DEF IInv
<1> QED
  BY Invariance, <1>1, PTL

(* A probe that ends in ok has seen rows and both indexes at one moment,   *)
(* although its statements are not one transaction: indexes never outlive  *)
(* the rows they were built over (index_catalog, reset_catalog, probe).    *)
THEOREM HealthOkWasOnceTrue ==
  ASSUME OneScript PROVE Spec => HealthOkWasTrue
<1>1. IInv /\ [Next]_vars
        => [health' = "ok" /\ probe.at = "counting" /\ probe'.at = "none"
              => probe.whole]_vars
  <2> SUFFICES ASSUME IInv, [Next]_vars, health' = "ok", probe.at = "counting",
                      probe'.at = "none", vars' # vars
               PROVE  probe.whole
    BY DEF vars
  <2> USE DEF process, database
  <2>1. CASE OperatorStep
    BY <2>1 DEF OperatorStep, SwapFile, ReadFile, Load, BuildIndexes, Interrupt, Purge
  <2>2. CASE ProbeAnswers
    BY <2>2 DEF ProbeAnswers, IInv, ProbeIsHonest
  <2>3. CASE Start \/ ReadWords \/ ReadPermitted \/ StartFails
    BY <2>3 DEF Start, ReadWords, ReadPermitted, StartFails
  <2>4. CASE Stop
    BY <2>4 DEF Stop
  <2>5. CASE ProbeStarts \/ ProbeIndexes
    BY <2>5 DEF ProbeStarts, ProbeIndexes
  <2>6. CASE \E r \in Requests : Hit(r) \/ Miss(r) \/ FindStale(r) \/ Retrieve(r)
                                \/ Finish(r) \/ PipelineFails(r)
    BY <2>6 DEF Hit, Miss, FindStale, Retrieve, Finish, PipelineFails
  <2> QED
    BY <2>1, <2>2, <2>3, <2>4, <2>5, <2>6 DEF Next, ProcessStep
<1> QED
  BY Invariance, <1>1, PTL DEF Spec, HealthOkWasTrue
-----------------------------------------------------------------------------
\* One row of the cache for each canonical query.
OneRowEach ==
  /\ cached \subseteq [query : Canonicals, links : SUBSET Links]
  /\ \A p, q \in cached : p.query = q.query => p = q

AllTypes ==
  /\ Types
  /\ OneRowEach
  /\ health \in {"none", "ok", "not_ready"}
  /\ request \in [Requests -> [at : {"idle", "pipeline"}, links : SUBSET Links]]
  /\ answer \in {"none", "plan", "fallback"}

(* The catalog's state is always of its type, however many scripts run     *)
(* beside each other; above all a canonical query has one row in the cache *)
(* at most, whatever is stored over it or purged (store_plan,              *)
(* reset_catalog).                                                         *)
THEOREM CatalogTypeCorrect == Spec => []TypeOK
<1>1. Init => AllTypes
  <2> SUFFICES ASSUME Init PROVE AllTypes
    OBVIOUS
  <2>1. Types
    BY DEF Init, Types, Idle, NoProbe, Down, Phases
  <2> QED BY <2>1 DEF Init, AllTypes, OneRowEach, Idle
<1>2. ASSUME AllTypes, [Next]_vars PROVE AllTypes'
  <2> USE CatalogsHaveLinks
      DEF AllTypes, Types, OneRowEach, Phases, process, database
  <2>1. ASSUME OperatorStep PROVE AllTypes'
    <3>1. CASE SwapFile
      BY <1>2, <3>1 DEF SwapFile
    <3>2. ASSUME NEW o \in Operators, ReadFile(o) PROVE AllTypes'
      BY <1>2, <3>2 DEF ReadFile
    <3>3. ASSUME NEW o \in Operators, Load(o) PROVE AllTypes'
      BY <1>2, <3>3 DEF Load
    <3>4. ASSUME NEW o \in Operators, BuildIndexes(o) PROVE AllTypes'
      BY <1>2, <3>4 DEF BuildIndexes, Idle
    <3>5. ASSUME NEW o \in Operators, Interrupt(o) PROVE AllTypes'
      BY <1>2, <3>5 DEF Interrupt, Idle
    <3>6. ASSUME NEW o \in Operators, Purge(o) PROVE AllTypes'
      BY <1>2, <3>6 DEF Purge, PurgeIndexes
    <3> QED BY <2>1, <3>1, <3>2, <3>3, <3>4, <3>5, <3>6 DEF OperatorStep
  <2>2. ASSUME ProcessStep PROVE AllTypes'
    <3>1. CASE Start
      BY <1>2, <3>1 DEF Start
    <3>2. CASE StartFails
      BY <1>2, <3>2 DEF StartFails
    <3>3. CASE Stop
      BY <1>2, <3>3 DEF Stop, Down, NoProbe, Idle
    <3>4. rows \in SUBSET Links
      BY <1>2
    <3>5. CASE ReadWords
      BY <1>2, <3>4, <3>5 DEF ReadWords
    <3>6. CASE ReadPermitted
      BY <1>2, <3>4, <3>6 DEF ReadPermitted
    <3>7. CASE ProbeStarts
      BY <1>2, <3>7 DEF ProbeStarts, Loaded, NoProbe
    <3>8. CASE ProbeIndexes
      <4>1. Whole \in BOOLEAN
        BY <1>2 DEF Whole
      <4> QED BY <1>2, <3>8, <4>1 DEF ProbeIndexes
    <3>9. CASE ProbeAnswers
      BY <1>2, <3>9 DEF ProbeAnswers, NoProbe
    <3>10. ASSUME NEW r \in Requests, Hit(r) PROVE AllTypes'
      BY <1>2, <3>10 DEF Hit
    <3>11. ASSUME NEW r \in Requests, Miss(r) \/ FindStale(r) PROVE AllTypes'
      BY <1>2, <3>11 DEF Miss, FindStale, AfterStale, Enter
    <3>12. ASSUME NEW r \in Requests, Retrieve(r) PROVE AllTypes'
      <4>1. PICK link \in rows :
              request' = [request EXCEPT ![r] = [request[r] EXCEPT !.links = @ \cup {link}]]
        BY <3>12 DEF Retrieve, Enter
      <4>2. [request[r] EXCEPT !.links = @ \cup {link}]
              \in [at : {"idle", "pipeline"}, links : SUBSET Links]
        BY <1>2, <3>4, <4>1
      <4> QED BY <1>2, <3>12, <4>1, <4>2 DEF Retrieve
    <3>13. ASSUME NEW r \in Requests, Finish(r) PROVE AllTypes'
      <4>1. PICK links : links = request[r].links
        OBVIOUS
      <4>2. links \in SUBSET Links
        BY <1>2, <4>1
      <4>3. OneRowEach' /\ answer' \in {"none", "plan", "fallback"}
        <5>1. CASE Permits(links)
          <6>1. PICK query \in Canonicals : cached' = Stored(query, links)
            BY <3>13, <4>1, <5>1 DEF Finish
          <6> QED BY <1>2, <3>13, <4>1, <4>2, <5>1, <6>1 DEF Finish, Stored
        <5>2. CASE ~ Permits(links)
          BY <1>2, <3>13, <4>1, <5>2 DEF Finish
        <5> QED BY <5>1, <5>2
      <4>4. request' \in [Requests -> [at : {"idle", "pipeline"}, links : SUBSET Links]]
        BY <1>2, <3>13 DEF Finish, Enter, Idle
      <4> QED BY <1>2, <3>13, <4>3, <4>4 DEF Finish
    <3>14. ASSUME NEW r \in Requests, PipelineFails(r) PROVE AllTypes'
      BY <1>2, <3>14 DEF PipelineFails, Enter, Idle
    <3> QED BY <2>2, <3>1, <3>2, <3>3, <3>5, <3>6, <3>7, <3>8, <3>9, <3>10, <3>11,
               <3>12, <3>13, <3>14 DEF ProcessStep
  <2>3. CASE UNCHANGED vars
    BY <1>2, <2>3 DEF vars
  <2> QED BY <1>2, <2>1, <2>2, <2>3 DEF Next
<1>3. AllTypes => TypeOK
  BY DEF AllTypes, Types, OneRowEach, TypeOK
<1> QED
  BY <1>1, <1>2, <1>3, PTL DEF Spec
=============================================================================

------------------------ MODULE TroubleshootingProofs -----------------------
(***************************************************************************)
(* What holds of the service and its plan cache for any number of          *)
(* requests in flight, any plans the pipeline may produce, any similarity  *)
(* of texts and any succession of deployments.                             *)
(***************************************************************************)
EXTENDS Troubleshooting, FiniteSetTheorems, TLAPS

Versions == {d.version : d \in Deployments}

Stages == {"idle", "lookup", "hit", "pipeline", "upsert", "replace", "commit", "stored",
           "served"}

PlanRow == [result : Produced, query : Queries, version : Versions, hits : 0..MaxHits]

Request == [stage : Stages, query : Queries \cup {0}, id : Ids \cup {0},
            result : Produced \cup {Nothing}, similarity : Nat,
            rivals : SUBSET Nat, replaced : SUBSET [plan : Ids, text : Texts]]

RowsTyped ==
  /\ DOMAIN plans \subseteq Ids
  /\ \A i \in DOMAIN plans : plans[i] \in PlanRow /\ i < nextId
  /\ vectors \subseteq [plan : DOMAIN plans, text : Texts]
  /\ DOMAIN hitRows \subseteq DOMAIN plans
  /\ nextId \in 1..(MaxId + 1)
  /\ deployment \in Deployments

RequestsTyped ==
  /\ req \in [Handlers -> Request]
  /\ \A h \in Handlers : req[h].stage \notin {"idle", "served"} => req[h].query \in Queries

\* What a request carries from phase to phase has passed validation.
Carried ==
  \A h \in Handlers :
    req[h].stage \in {"hit", "upsert", "replace", "commit", "stored", "served"}
      => req[h].result.uses \subseteq deployment.allows

Writes(h) == req[h].stage \in {"replace", "commit"}

\* A plan on its way to the cache is one the pipeline produced, not empty.
Storable ==
  \A h \in Handlers : req[h].stage = "upsert" \/ Writes(h)
    => req[h].result \in Produced /\ ~ req[h].result.empty

\* A writer's id is its own, and the only one its canonical query has.
OwnsItsRow ==
  \A h \in Handlers : Writes(h) =>
    /\ req[h].id \in Ids /\ req[h].id < nextId
    /\ RowOf(req[h].result.canonical) \subseteq {req[h].id}
    /\ req[h].id \in DOMAIN plans =>
         req[h].id \in RowOf(req[h].result.canonical)

WritersApart ==
  \A g, h \in Handlers : g # h /\ Writes(g) /\ Writes(h) =>
    /\ req[g].result.canonical # req[h].result.canonical
    /\ req[g].id # req[h].id

\* Nothing else touches the vectors of a row that is being replaced.
ReplacesAll ==
  \A h \in Handlers : req[h].stage = "commit" =>
    req[h].replaced = {v \in vectors : v.plan = req[h].id}

IInv == /\ RowsTyped /\ RequestsTyped /\ Carried /\ Storable
        /\ OwnsItsRow /\ WritersApart /\ ReplacesAll
        /\ CacheIsConsistent /\ HitsMatchMetrics

-----------------------------------------------------------------------------
LEMMA MatchesAreCurrent ==
  ASSUME NEW scan, NEW query
  PROVE  Matches(scan, query) \subseteq
           {v \in vectors : plans[v.plan].version = deployment.version}
BY DEF Matches, Closest, Candidates, Current, Scanned

LEMMA PhrasesAreTexts ==
  ASSUME NEW query \in Queries, NEW result \in Produced, ~ result.empty
  PROVE  Phrases(query, result) \subseteq Texts
BY CacheAssumption DEF Phrases

LEMMA IdleIsTyped == Idle \in Request /\ Nothing.uses = {}
BY DEF Idle, Nothing, Request, Stages

LEMMA NearIsNat ==
  ASSUME NEW query \in Queries, NEW v \in vectors, RowsTyped
  PROVE  Near(v, query) \in Nat
<1>1. v.text \in Texts /\ query \in Texts
  BY CacheAssumption DEF RowsTyped
<1>2. QED
  BY <1>1, CacheAssumption DEF Near

LEMMA Initially == Init => IInv
<1> SUFFICES ASSUME Init PROVE IInv
  OBVIOUS
<1> USE DEF Init
<1>1. DOMAIN plans = {} /\ DOMAIN hitRows = {}
  OBVIOUS
<1>2. \A h \in Handlers : req[h] = Idle /\ req[h].stage = "idle"
  BY DEF Idle
<1>3. RowsTyped
  BY <1>1, CacheAssumption DEF RowsTyped
<1>4. RequestsTyped
  BY <1>2, IdleIsTyped DEF RequestsTyped
<1>5. CacheIsConsistent /\ HitsMatchMetrics
  BY <1>1 DEF CacheIsConsistent, HitsMatchMetrics
<1>6. QED
  BY <1>2, <1>3, <1>4, <1>5
     DEF IInv, Carried, Storable, OwnsItsRow, WritersApart, ReplacesAll, Writes

-----------------------------------------------------------------------------
(* Steps that leave the rows alone: every request they touch ends up       *)
(* outside the writing stages.                                             *)
Settled(r) ==
  /\ r \in Request /\ r.stage \notin {"replace", "commit"}
  /\ r.stage \notin {"idle", "served"} => r.query \in Queries
  /\ r.stage \in {"hit", "upsert", "stored", "served"}
       => r.result.uses \subseteq deployment'.allows
  /\ r.stage = "upsert" => r.result \in Produced /\ ~ r.result.empty

LEMMA QuietStep ==
  ASSUME IInv, UNCHANGED <<plans, vectors, hitRows, nextId>>,
         deployment' \in Deployments, DOMAIN req' = Handlers,
         req' = [g \in Handlers |-> req'[g]],
         \A g \in Handlers : \/ req'[g] = req[g] /\ deployment' = deployment
                             \/ Settled(req'[g])
  PROVE  IInv'
<1>1. \A g \in Handlers : Writes(g)' => Writes(g) /\ req'[g] = req[g] /\ deployment' = deployment
  BY DEF Writes, Settled
<1>2. RowsTyped'
  BY DEF IInv, RowsTyped
<1>3. RequestsTyped'
  BY DEF IInv, RequestsTyped, Settled
<1>4. Carried'
  BY DEF IInv, Carried, Settled
<1>5. Storable'
  BY <1>1 DEF IInv, Storable, Settled
<1>6. OwnsItsRow'
  BY <1>1 DEF IInv, OwnsItsRow, RowOf
<1>7. WritersApart'
  BY <1>1 DEF IInv, WritersApart
<1>8. ReplacesAll'
  BY <1>1 DEF IInv, ReplacesAll, Writes
<1>9. CacheIsConsistent' /\ HitsMatchMetrics'
  BY DEF IInv, CacheIsConsistent, HitsMatchMetrics, Hits
<1>10. QED
  BY <1>2, <1>3, <1>4, <1>5, <1>6, <1>7, <1>8, <1>9 DEF IInv

\* One slot is put to r, the deployment stays.
LEMMA PutSettled ==
  ASSUME IInv, NEW h \in Handlers, NEW r, Put(h, r), Settled(r),
         UNCHANGED <<plans, vectors, hitRows, nextId, deployment>>
  PROVE  IInv'
<1>1. deployment' \in Deployments
  BY DEF IInv, RowsTyped
<1>2. /\ DOMAIN req' = Handlers /\ req' = [g \in Handlers |-> req'[g]]
      /\ \A g \in Handlers : g # h => req'[g] = req[g]
      /\ req'[h] = r
  BY DEF IInv, RequestsTyped, Put
<1>3. QED
  BY <1>1, <1>2, QuietStep

LEMMA ArriveKeeps ==
  ASSUME IInv, NEW h \in Handlers, NEW query \in Queries, NEW force \in BOOLEAN,
         Arrive(h, query, force)
  PROVE  IInv'
<1> DEFINE r == [Idle EXCEPT !.stage = IF force THEN "pipeline" ELSE "lookup",
                             !.query = query]
<1>1. Settled(r)
  BY DEF Settled, Request, Stages, Idle, Nothing
<1>2. QED
  BY <1>1, PutSettled DEF Arrive

LEMMA LookupHitKeeps ==
  ASSUME IInv, NEW h \in Handlers, LookupHit(h)
  PROVE  IInv'
<1>0. PICK scan \in Scans : \E v \in Matches(scan, req[h].query) :
        /\ Passes(plans[v.plan].result, TRUE)
        /\ Put(h, [req[h] EXCEPT !.stage = "hit", !.id = v.plan,
                    !.result = plans[v.plan].result,
                    !.similarity = Near(v, req[h].query),
                    !.rivals = RivalsOf(v, req[h].query)])
  BY DEF LookupHit
<1>1. PICK v \in Matches(scan, req[h].query) :
        /\ Passes(plans[v.plan].result, TRUE)
        /\ Put(h, [req[h] EXCEPT !.stage = "hit", !.id = v.plan,
                    !.result = plans[v.plan].result,
                    !.similarity = Near(v, req[h].query),
                    !.rivals = RivalsOf(v, req[h].query)])
  BY <1>0
<1> DEFINE r == [req[h] EXCEPT !.stage = "hit", !.id = v.plan,
                    !.result = plans[v.plan].result,
                    !.similarity = Near(v, req[h].query),
                    !.rivals = RivalsOf(v, req[h].query)]
<1>2. req[h] \in Request /\ req[h].query \in Queries
  BY DEF LookupHit, IInv, RequestsTyped
<1>3. v \in vectors /\ v.plan \in Ids /\ plans[v.plan].result \in Produced
  <2>1. v \in vectors
    BY MatchesAreCurrent
  <2>2. QED
    BY <2>1 DEF IInv, RowsTyped, PlanRow
<1>4. Near(v, req[h].query) \in Nat /\ RivalsOf(v, req[h].query) \subseteq Nat
  BY <1>2, <1>3, NearIsNat DEF IInv, RivalsOf, Current
<1>5. plans[v.plan].result.uses \subseteq deployment'.allows
  BY <1>1 DEF Passes, LookupHit
<1>6. Settled(r)
  BY <1>2, <1>3, <1>4, <1>5 DEF Settled, Request, Stages
<1>7. QED
  BY <1>1, <1>6, PutSettled DEF LookupHit

LEMMA LookupMissKeeps ==
  ASSUME IInv, NEW h \in Handlers, LookupMiss(h)
  PROVE  IInv'
<1>1. req[h] \in Request /\ req[h].query \in Queries
  BY DEF LookupMiss, IInv, RequestsTyped
<1>2. Settled([req[h] EXCEPT !.stage = "pipeline"])
  BY <1>1 DEF Settled, Request, Stages
<1>3. QED
  BY <1>2, PutSettled DEF LookupMiss

LEMMA FailKeeps ==
  ASSUME IInv, NEW h \in Handlers, Fail(h)
  PROVE  IInv'
<1>1. Settled(Idle)
  BY IdleIsTyped DEF Settled, Idle
<1>2. QED
  BY <1>1, PutSettled DEF Fail

LEMMA RunPipelineKeeps ==
  ASSUME IInv, NEW h \in Handlers, RunPipeline(h)
  PROVE  IInv'
<1>1. req[h] \in Request /\ req[h].query \in Queries
  BY DEF RunPipeline, IInv, RequestsTyped
<1>2. PICK result \in Results[req[h].query] \cup {Raised} :
        IF result # Raised /\ Passes(result, FALSE) /\ ~ result.empty
          THEN Put(h, [req[h] EXCEPT !.stage = "upsert", !.result = result])
          ELSE Serve(h, Nothing)
  BY DEF RunPipeline
<1>3. CASE result # Raised /\ Passes(result, FALSE) /\ ~ result.empty
  <2>1. result \in Produced /\ result.uses \subseteq deployment'.allows
    BY <1>1, <1>3 DEF Produced, Passes, RunPipeline
  <2>2. Settled([req[h] EXCEPT !.stage = "upsert", !.result = result])
    BY <1>1, <1>3, <2>1 DEF Settled, Request, Stages
  <2>3. QED
    BY <1>2, <1>3, <2>2, PutSettled DEF RunPipeline
<1>4. CASE ~ (result # Raised /\ Passes(result, FALSE) /\ ~ result.empty)
  <2>1. Settled([req[h] EXCEPT !.stage = "served", !.result = Nothing, !.replaced = {}])
    BY <1>1, IdleIsTyped DEF Settled, Request, Stages
  <2>2. QED
    BY <1>2, <1>4, <2>1, PutSettled DEF RunPipeline, Serve
<1>5. QED
  BY <1>3, <1>4

LEMMA RedeployKeeps ==
  ASSUME IInv, NEW d \in Deployments, Redeploy(d)
  PROVE  IInv'
<1>1. \A g \in Handlers : req'[g] = Idle
  BY DEF Redeploy
<1>2. Settled(Idle)
  BY IdleIsTyped DEF Settled, Idle
<1>3. QED
  BY <1>1, <1>2, QuietStep DEF Redeploy

-----------------------------------------------------------------------------
(* Counting a hit.                                                         *)
LEMMA RecordHitKeeps ==
  ASSUME IInv, NEW h \in Handlers, NEW recorded \in BOOLEAN, RecordHit(h, recorded)
  PROVE  IInv'
<1> DEFINE id == req[h].id
           r == [req[h] EXCEPT !.stage = "served", !.result = req[h].result,
                               !.replaced = {}]
<1>1. /\ req[h].stage = "hit" /\ req[h] \in Request
      /\ req[h].result.uses \subseteq deployment.allows
  BY DEF RecordHit, IInv, RequestsTyped, Carried
<1>2. Settled(r) /\ Put(h, r)
  BY <1>1 DEF Settled, Request, Stages, RecordHit, Serve
<1>3. CASE ~ recorded \/ id \notin DOMAIN plans
  <2>1. plans' = plans /\ hitRows' = hitRows
    BY <1>3 DEF RecordHit, Counted
  <2>2. QED
    BY <1>2, <2>1, PutSettled DEF RecordHit
<1>4. CASE recorded /\ id \in DOMAIN plans
  <2>1. /\ plans' = [plans EXCEPT ![id].hits = @ + 1]
        /\ hitRows' = [i \in DOMAIN plans |-> Hits(hitRows, i) + IF i = id THEN 1 ELSE 0]
        /\ plans[id].hits < MaxHits
    BY <1>4 DEF RecordHit, Counted
  <2>2. /\ DOMAIN plans' = DOMAIN plans
        /\ \A i \in DOMAIN plans :
             /\ plans[i] \in PlanRow /\ plans'[i] \in PlanRow
             /\ plans'[i].result = plans[i].result /\ plans'[i].query = plans[i].query
             /\ plans'[i].version = plans[i].version
             /\ plans'[i].hits = plans[i].hits + IF i = id THEN 1 ELSE 0
    BY <2>1, CacheAssumption DEF IInv, RowsTyped, PlanRow
  <2>3. /\ req'[h] = r /\ \A g \in Handlers : g # h => req'[g] = req[g]
        /\ req' \in [Handlers -> Request]
    BY <1>2 DEF IInv, RequestsTyped, Put, Settled
  <2>4. \A g \in Handlers : Writes(g)' => Writes(g) /\ req'[g] = req[g]
    BY <1>2, <2>3 DEF Writes, Settled
  <2>5. UNCHANGED <<vectors, nextId, deployment>>
    BY DEF RecordHit
  <2>6. RowsTyped'
    BY <2>1, <2>2, <2>5 DEF IInv, RowsTyped
  <2>7. RequestsTyped' /\ Carried' /\ Storable'
    BY <1>2, <2>3, <2>4, <2>5 DEF IInv, RequestsTyped, Carried, Storable, Settled
  <2>8. OwnsItsRow'
    BY <2>2, <2>4, <2>5 DEF IInv, OwnsItsRow, RowOf
  <2>9. WritersApart' /\ ReplacesAll'
    BY <2>4, <2>5 DEF IInv, WritersApart, ReplacesAll, Writes
  <2>10. CacheIsConsistent'
    BY <2>2, <2>5 DEF IInv, CacheIsConsistent
  <2>11. HitsMatchMetrics'
    BY <2>1, <2>2 DEF IInv, HitsMatchMetrics, Hits
  <2>12. QED
    BY <2>6, <2>7, <2>8, <2>9, <2>10, <2>11 DEF IInv
<1>5. QED
  BY <1>3, <1>4

-----------------------------------------------------------------------------
(* Storing a plan.                                                         *)
LEMMA UpsertKeeps ==
  ASSUME IInv, NEW h \in Handlers, Upsert(h)
  PROVE  IInv'
<1> DEFINE r == req[h]
<1>1. PICK id \in Ids :
        /\ \/ id \in RowOf(r.result.canonical) /\ nextId' = nextId
           \/ RowOf(r.result.canonical) = {} /\ id = nextId /\ nextId' = nextId + 1
        /\ Put(h, [r EXCEPT !.stage = "replace", !.id = id])
        /\ nextId' \in 1..(MaxId + 1)
  <2>1. nextId \in 1..(MaxId + 1) /\ MaxId \in Nat /\ DOMAIN plans \subseteq Ids
    BY CacheAssumption DEF IInv, RowsTyped
  <2>2. CASE \E i \in RowOf(r.result.canonical) :
               /\ Put(h, [r EXCEPT !.stage = "replace", !.id = i])
               /\ UNCHANGED nextId
    <3>1. RowOf(r.result.canonical) \subseteq Ids
      BY <2>1 DEF RowOf
    <3>2. QED
      BY <2>1, <2>2, <3>1
  <2>3. CASE /\ RowOf(r.result.canonical) = {}
             /\ nextId <= MaxId
             /\ Put(h, [r EXCEPT !.stage = "replace", !.id = nextId])
             /\ nextId' = nextId + 1
    <3>1. nextId \in Ids /\ nextId' \in 1..(MaxId + 1)
      BY <2>1, <2>3 DEF Ids
    <3>2. QED
      BY <2>3, <3>1
  <2>4. QED
    BY <2>2, <2>3 DEF Upsert
<1>2. /\ r \in Request /\ r.stage = "upsert" /\ r.query \in Queries
      /\ r.result \in Produced /\ ~ r.result.empty
      /\ r.result.uses \subseteq deployment.allows
      /\ UNCHANGED <<plans, vectors, hitRows, deployment>>
  BY DEF Upsert, IInv, RequestsTyped, Storable, Carried
<1>3. /\ req'[h] = [r EXCEPT !.stage = "replace", !.id = id]
      /\ \A g \in Handlers : g # h => req'[g] = req[g]
      /\ req' \in [Handlers -> Request]
  BY <1>1, <1>2 DEF IInv, RequestsTyped, Put, Request, Stages
<1>4. /\ req'[h].stage = "replace" /\ req'[h].id = id
      /\ req'[h].result = r.result /\ req'[h].query = r.query
  BY <1>2, <1>3 DEF Request
<1>5. \A g \in Handlers \ {h} : Writes(g) =>
        /\ req[g].result.canonical # r.result.canonical
        /\ req[g].id # id
  <2> SUFFICES ASSUME NEW g \in Handlers \ {h}, Writes(g)
               PROVE  /\ req[g].result.canonical # r.result.canonical
                      /\ req[g].id # id
    OBVIOUS
  <2>1. req[g].result.canonical # r.result.canonical
    BY DEF Upsert, Waits, Writes
  <2>2. /\ req[g].id \in Ids /\ req[g].id < nextId /\ nextId \in Nat
        /\ req[g].id \in DOMAIN plans => req[g].id \in RowOf(req[g].result.canonical)
    BY CacheAssumption DEF IInv, OwnsItsRow, RowsTyped
  <2>3. req[g].id # id
    BY <1>1, <2>1, <2>2 DEF RowOf, Ids
  <2>4. QED
    BY <2>1, <2>3
<1>6. RowsTyped'
  BY <1>1, <1>2, CacheAssumption DEF IInv, RowsTyped, Ids
<1>7. RequestsTyped' /\ Carried' /\ Storable'
  BY <1>2, <1>3, <1>4 DEF IInv, RequestsTyped, Carried, Storable, Writes
<1>8. OwnsItsRow'
  <2>1. id < nextId' /\ nextId' >= nextId
    BY <1>1, CacheAssumption DEF IInv, RowsTyped, RowOf, Ids
  <2>2. /\ RowOf(r.result.canonical) \subseteq {id}
        /\ id \in DOMAIN plans => id \in RowOf(r.result.canonical)
    BY <1>1, CacheAssumption DEF IInv, RowsTyped, RowOf, CacheIsConsistent, Ids
  <2>3. \A g \in Handlers : g # h /\ Writes(g)' => Writes(g) /\ req'[g] = req[g]
    BY <1>3 DEF Writes
  <2>4. ASSUME NEW g \in Handlers, Writes(g)', g # h
        PROVE  /\ req'[g].id \in Ids /\ req'[g].id < nextId'
               /\ RowOf(req'[g].result.canonical) \subseteq {req'[g].id}
               /\ req'[g].id \in DOMAIN plans =>
                    req'[g].id \in RowOf(req'[g].result.canonical)
    <3>1. req'[g] = req[g] /\ Writes(g)
      BY <2>3, <2>4
    <3>2. nextId \in Nat /\ nextId' \in Nat /\ req[g].id < nextId /\ req[g].id \in Nat
      BY <1>1, <3>1, CacheAssumption DEF IInv, OwnsItsRow, RowsTyped, Ids
    <3>3. req[g].id < nextId'
      BY <2>1, <3>2
    <3>4. QED
      BY <3>1, <3>3 DEF IInv, OwnsItsRow
  <2>5. ASSUME NEW g \in Handlers, Writes(g)'
        PROVE  /\ req'[g].id \in Ids /\ req'[g].id < nextId'
               /\ RowOf(req'[g].result.canonical) \subseteq {req'[g].id}
               /\ req'[g].id \in DOMAIN plans =>
                    req'[g].id \in RowOf(req'[g].result.canonical)
    BY <1>4, <2>1, <2>2, <2>4, <2>5
  <2>6. QED
    BY <1>2, <2>5 DEF OwnsItsRow, RowOf
<1>9. WritersApart'
  <2>1. \A g \in Handlers : g # h /\ Writes(g)' => Writes(g) /\ req'[g] = req[g]
    BY <1>3 DEF Writes
  <2>2. ASSUME NEW f \in Handlers, NEW g \in Handlers, f # g, Writes(f)', Writes(g)'
        PROVE  /\ req'[f].result.canonical # req'[g].result.canonical
               /\ req'[f].id # req'[g].id
    <3>1. CASE f = h
      BY <1>4, <1>5, <2>1, <2>2, <3>1
    <3>2. CASE g = h
      BY <1>4, <1>5, <2>1, <2>2, <3>2
    <3>3. CASE f # h /\ g # h
      BY <2>1, <2>2, <3>3 DEF IInv, WritersApart
    <3>4. QED
      BY <3>1, <3>2, <3>3
  <2>3. QED
    BY <2>2 DEF WritersApart
<1>10. ReplacesAll'
  <2>1. ASSUME NEW g \in Handlers, req'[g].stage = "commit"
        PROVE  req'[g].replaced = {v \in vectors : v.plan = req'[g].id}
    <3>1. g # h /\ req'[g] = req[g]
      BY <1>3, <1>4, <2>1
    <3>2. QED
      BY <2>1, <3>1 DEF IInv, ReplacesAll
  <2>2. QED
    BY <1>2, <2>1 DEF ReplacesAll
<1>11. CacheIsConsistent' /\ HitsMatchMetrics'
  BY <1>2 DEF IInv, CacheIsConsistent, HitsMatchMetrics, Hits
<1>12. QED
  BY <1>6, <1>7, <1>8, <1>9, <1>10, <1>11 DEF IInv

LEMMA DeleteVectorsKeeps ==
  ASSUME IInv, NEW h \in Handlers, DeleteVectors(h)
  PROVE  IInv'
<1> DEFINE r == req[h]
           gone == {v \in vectors : v.plan = r.id}
<1>1. r \in Request /\ r.stage = "replace" /\ gone \subseteq [plan : Ids, text : Texts]
  BY DEF DeleteVectors, IInv, RequestsTyped, RowsTyped
<1>2. /\ UNCHANGED <<plans, vectors, hitRows, nextId, deployment>>
      /\ req'[h] = [r EXCEPT !.stage = "commit", !.replaced = gone]
      /\ \A g \in Handlers : g # h => req'[g] = req[g]
      /\ req' \in [Handlers -> Request]
  BY <1>1 DEF DeleteVectors, IInv, RequestsTyped, Put, Request, Stages
<1>3. /\ req'[h].stage = "commit" /\ req'[h].replaced = gone /\ req'[h].id = r.id
      /\ req'[h].result = r.result /\ req'[h].query = r.query
  BY <1>1, <1>2 DEF Request
<1>4. \A g \in Handlers : /\ Writes(g)' <=> Writes(g)
                          /\ req'[g].id = req[g].id /\ req'[g].result = req[g].result
                          /\ req'[g].query = req[g].query
  BY <1>1, <1>2, <1>3 DEF Writes
<1>5. RowsTyped' /\ RequestsTyped' /\ Carried' /\ Storable'
  BY <1>1, <1>2, <1>3, <1>4
     DEF IInv, RowsTyped, RequestsTyped, Carried, Storable, Writes
<1>6. OwnsItsRow' /\ WritersApart'
  <2>1. ASSUME NEW g \in Handlers, Writes(g)'
        PROVE  /\ req'[g].id \in Ids /\ req'[g].id < nextId'
               /\ RowOf(req'[g].result.canonical) \subseteq {req'[g].id}
               /\ req'[g].id \in DOMAIN plans =>
                    req'[g].id \in RowOf(req'[g].result.canonical)
    BY <1>2, <1>4, <2>1 DEF IInv, OwnsItsRow
  <2>2. OwnsItsRow'
    BY <1>2, <2>1 DEF OwnsItsRow, RowOf
  <2>3. WritersApart'
    BY <1>4 DEF IInv, WritersApart
  <2>4. QED
    BY <2>2, <2>3
<1>7. ReplacesAll'
  <2>1. ASSUME NEW g \in Handlers, req'[g].stage = "commit"
        PROVE  req'[g].replaced = {v \in vectors : v.plan = req'[g].id}
    <3>1. CASE g = h
      BY <1>3, <3>1
    <3>2. CASE g # h
      BY <1>2, <2>1, <3>2 DEF IInv, ReplacesAll
    <3>3. QED
      BY <3>1, <3>2
  <2>2. QED
    BY <1>2, <2>1 DEF ReplacesAll
<1>8. CacheIsConsistent' /\ HitsMatchMetrics'
  BY <1>2 DEF IInv, CacheIsConsistent, HitsMatchMetrics, Hits
<1>9. QED
  BY <1>5, <1>6, <1>7, <1>8 DEF IInv

LEMMA InsertVectorsKeeps ==
  ASSUME IInv, NEW h \in Handlers, InsertVectors(h)
  PROVE  IInv'
<1> DEFINE r == req[h]
           row == [result |-> r.result, query |-> r.query, version |-> deployment.version,
                   hits |-> IF r.id \in DOMAIN plans THEN plans[r.id].hits ELSE 0]
           new == {[plan |-> r.id, text |-> t] : t \in Phrases(r.query, r.result)}
           s == [r EXCEPT !.stage = "stored", !.replaced = {}]
<1>1. /\ r \in Request /\ r.stage = "commit" /\ r.query \in Queries /\ Writes(h)
      /\ r.result \in Produced /\ ~ r.result.empty
      /\ r.result.uses \subseteq deployment.allows
      /\ r.id \in Ids /\ r.id < nextId
      /\ r.replaced = {v \in vectors : v.plan = r.id}
      /\ UNCHANGED <<hitRows, nextId, deployment>>
  BY DEF InsertVectors, IInv, RequestsTyped, Storable, Carried, OwnsItsRow, ReplacesAll, Writes
<1>2. /\ DOMAIN plans' = DOMAIN plans \cup {r.id}
      /\ plans'[r.id] = row
      /\ \A i \in DOMAIN plans : i # r.id => plans'[i] = plans[i]
  BY DEF InsertVectors
<1>3. /\ vectors' = (vectors \ r.replaced) \cup new
      /\ new \subseteq [plan : {r.id}, text : Texts]
  BY <1>1, PhrasesAreTexts DEF InsertVectors
<1>4. Settled(s) /\ Put(h, s)
  BY <1>1 DEF Settled, Request, Stages, InsertVectors
<1>5. /\ req'[h] = s /\ \A g \in Handlers : g # h => req'[g] = req[g]
      /\ req' \in [Handlers -> Request]
  BY <1>4 DEF IInv, RequestsTyped, Put, Settled
<1>6. \A g \in Handlers : Writes(g)' =>
        /\ Writes(g) /\ req'[g] = req[g]
        /\ req[g].id # r.id /\ req[g].result.canonical # r.result.canonical
  BY <1>1, <1>4, <1>5 DEF Writes, Settled, IInv, WritersApart
<1>7. RowsTyped'
  <2>1. row \in PlanRow
    BY <1>1, CacheAssumption DEF PlanRow, Versions, IInv, RowsTyped
  <2>2. vectors' \subseteq [plan : DOMAIN plans', text : Texts]
    BY <1>2, <1>3 DEF IInv, RowsTyped
  <2>3. QED
    BY <1>1, <1>2, <2>1, <2>2 DEF IInv, RowsTyped
<1>8. RequestsTyped' /\ Carried' /\ Storable'
  BY <1>1, <1>4, <1>5, <1>6 DEF IInv, RequestsTyped, Carried, Storable, Settled
<1>9. OwnsItsRow'
  BY <1>1, <1>2, <1>6 DEF IInv, OwnsItsRow, RowOf
<1>10. WritersApart'
  BY <1>6 DEF IInv, WritersApart
<1>11. ReplacesAll'
  BY <1>1, <1>3, <1>6 DEF IInv, ReplacesAll, Writes
<1>12. CacheIsConsistent'
  <2>1. ASSUME NEW i \in DOMAIN plans'
        PROVE  {v.text : v \in {w \in vectors' : w.plan = i}}
                 = Phrases(plans'[i].query, plans'[i].result)
    <3>1. CASE i = r.id
      <4>1. {w \in vectors' : w.plan = i} = new
        BY <1>1, <1>3, <3>1
      <4>2. {v.text : v \in new} = Phrases(r.query, r.result)
        <5>1. ASSUME NEW t \in Phrases(r.query, r.result) PROVE t \in {v.text : v \in new}
          <6>1. [plan |-> r.id, text |-> t] \in new /\ [plan |-> r.id, text |-> t].text = t
            OBVIOUS
          <6>2. QED
            BY <6>1
        <5>2. ASSUME NEW t \in {v.text : v \in new} PROVE t \in Phrases(r.query, r.result)
          OBVIOUS
        <5>3. QED
          BY <5>1, <5>2
      <4>3. plans'[i].query = r.query /\ plans'[i].result = r.result
        BY <1>2, <3>1
      <4>4. QED
        BY <4>1, <4>2, <4>3
    <3>2. CASE i # r.id
      <4>1. {w \in vectors' : w.plan = i} = {w \in vectors : w.plan = i}
        BY <1>1, <1>3, <3>2
      <4>2. i \in DOMAIN plans /\ plans'[i] = plans[i]
        BY <1>2, <3>2
      <4>3. QED
        BY <4>1, <4>2 DEF IInv, CacheIsConsistent
    <3>3. QED
      BY <3>1, <3>2
  <2>2. ASSUME NEW i \in DOMAIN plans, i # r.id
        PROVE  ~ /\ plans[i].result.canonical = r.result.canonical
                 /\ plans[i].version = deployment.version
    BY <1>1, <2>2 DEF IInv, OwnsItsRow, RowOf
  <2>3. ASSUME NEW i \in DOMAIN plans', NEW j \in DOMAIN plans',
               plans'[i].result.canonical = plans'[j].result.canonical,
               plans'[i].version = plans'[j].version
        PROVE  i = j
    BY <1>2, <2>2, <2>3 DEF IInv, CacheIsConsistent
  <2>4. QED
    BY <2>1, <2>3 DEF CacheIsConsistent
<1>13. HitsMatchMetrics'
  BY <1>1, <1>2 DEF IInv, HitsMatchMetrics, Hits, RowsTyped
<1>14. QED
  BY <1>7, <1>8, <1>9, <1>10, <1>11, <1>12, <1>13 DEF IInv

LEMMA ServeStoredKeeps ==
  ASSUME IInv, NEW h \in Handlers, ServeStored(h)
  PROVE  IInv'
<1> DEFINE s == [req[h] EXCEPT !.stage = "served", !.result = req[h].result, !.replaced = {}]
<1>1. req[h] \in Request /\ req[h].result.uses \subseteq deployment'.allows
  BY DEF ServeStored, IInv, RequestsTyped, Storable, Carried, Writes
<1>2. Settled(s)
  BY <1>1 DEF Settled, Request, Stages
<1>3. QED
  BY <1>2, PutSettled DEF ServeStored, Serve

LEMMA ResetKeeps ==
  ASSUME IInv, Reset
  PROVE  IInv'
<1>1. DOMAIN plans' = {} /\ DOMAIN hitRows' = {} /\ vectors' = {} /\ nextId' = 1
  BY DEF Reset
<1>2. UNCHANGED <<deployment, req>> /\ \A g \in Handlers : ~ Writes(g)'
  BY DEF Reset, Writes
<1>3. RowsTyped'
  BY <1>1, <1>2, CacheAssumption DEF IInv, RowsTyped
<1>4. RequestsTyped' /\ Carried' /\ Storable'
  BY <1>2 DEF IInv, RequestsTyped, Carried, Storable, Writes
<1>5. OwnsItsRow' /\ WritersApart' /\ ReplacesAll'
  BY <1>2 DEF OwnsItsRow, WritersApart, ReplacesAll, Writes
<1>6. CacheIsConsistent' /\ HitsMatchMetrics'
  BY <1>1 DEF CacheIsConsistent, HitsMatchMetrics
<1>7. QED
  BY <1>3, <1>4, <1>5, <1>6 DEF IInv

LEMMA StutterKeeps ==
  ASSUME IInv, UNCHANGED vars
  PROVE  IInv'
<1>1. deployment' \in Deployments
  BY DEF IInv, RowsTyped, vars
<1>2. DOMAIN req' = Handlers /\ req' = [g \in Handlers |-> req'[g]]
  BY DEF IInv, RequestsTyped, vars
<1>3. QED
  BY <1>1, <1>2, QuietStep DEF vars

-----------------------------------------------------------------------------
(* The inductive invariant: what the service carries has been validated,   *)
(* writers of the cache own their rows, and the rows are consistent        *)
(* (troubleshoot, store_plan, record_hit).                                 *)
THEOREM Invariance == Spec => []IInv
<1>1. Init => IInv
  BY Initially
<1>2. ASSUME IInv, [Next]_vars PROVE IInv'
  <2>1. CASE UNCHANGED vars
    BY <1>2, <2>1, StutterKeeps
  <2>2. ASSUME NEW h \in Handlers, NEW query \in Queries, NEW force \in BOOLEAN,
               Arrive(h, query, force)
        PROVE  IInv'
    BY <1>2, <2>2, ArriveKeeps
  <2>3. ASSUME NEW h \in Handlers, NEW recorded \in BOOLEAN, RecordHit(h, recorded)
        PROVE  IInv'
    BY <1>2, <2>3, RecordHitKeeps
  <2>4. ASSUME NEW h \in Handlers,
               LookupHit(h) \/ LookupMiss(h) \/ RunPipeline(h) \/ Fail(h)
        PROVE  IInv'
    BY <1>2, <2>4, LookupHitKeeps, LookupMissKeeps, RunPipelineKeeps, FailKeeps
  <2>5. ASSUME NEW h \in Handlers, \/ Upsert(h) \/ DeleteVectors(h)
                                   \/ InsertVectors(h) \/ ServeStored(h)
        PROVE  IInv'
    BY <1>2, <2>5, UpsertKeeps, DeleteVectorsKeeps, InsertVectorsKeeps, ServeStoredKeeps
  <2>6. ASSUME NEW d \in Deployments, Redeploy(d)
        PROVE  IInv'
    BY <1>2, <2>6, RedeployKeeps
  <2>7. CASE Reset
    BY <1>2, <2>7, ResetKeeps
  <2>8. QED
    BY <1>2, <2>1, <2>2, <2>3, <2>4, <2>5, <2>6, <2>7 DEF Next
<1>3. QED
  BY <1>1, <1>2, PTL DEF Spec

(* Rows, vectors and requests keep their types, and no vector outlives its *)
(* plan (plan_cache_vector).                                               *)
THEOREM RowsAreTyped == Spec => []TypeOK
<1>1. IInv => TypeOK
  BY DEF IInv, TypeOK, RowsTyped, RequestsTyped, PlanRow, Request, Stages
<1>2. QED
  BY <1>1, Invariance, PTL

(* Nothing is ever served that the running deployment does not allow,      *)
(* whatever was cached under another (troubleshoot).                       *)
THEOREM OnlyAllowedServed == Spec => []ServedIsAllowed
<1>1. IInv => ServedIsAllowed
  BY DEF IInv, Carried, ServedIsAllowed
<1>2. QED
  BY <1>1, Invariance, PTL

(* Stores that interleave or fail leave every plan under its own phrasings *)
(* and alone under its canonical query (store_plan).                       *)
THEOREM CacheStaysConsistent == Spec => []CacheIsConsistent
<1>1. IInv => CacheIsConsistent
  BY DEF IInv
<1>2. QED
  BY <1>1, Invariance, PTL

(* Hits are counted with the metrics row they belong to or not at all      *)
(* (record_hit, _record).                                                  *)
THEOREM HitsStayCounted == Spec => []HitsMatchMetrics
<1>1. IInv => HitsMatchMetrics
  BY DEF IInv
<1>2. QED
  BY <1>1, Invariance, PTL
-----------------------------------------------------------------------------
(* Why a hit is decisive although a lookup sees a pool of vectors only:    *)
(* the vectors nearer than the nearest rival all belong to the plan that   *)
(* is hit, and one plan does not fill the pool.                            *)

\* The pipeline words a problem in twelve ways at most, the pool holds fifty.
PoolOutgrowsPlans ==
  /\ Pool \in Nat
  /\ \A query \in Queries, result \in Produced :
       /\ IsFiniteSet(Phrases(query, result))
       /\ Cardinality(Phrases(query, result)) < Pool

LEMMA CloserIsAnOrder ==
  ASSUME RowsTyped, NEW query \in Queries,
         NEW u \in vectors, NEW v \in vectors, NEW w \in vectors
  PROVE  /\ ~ Closer(u, u, query)
         /\ Closer(u, v, query) /\ Closer(v, w, query) => Closer(u, w, query)
         /\ ~ Closer(u, v, query) => Near(u, query) <= Near(v, query)
<1>1. Near(u, query) \in Nat /\ Near(v, query) \in Nat /\ Near(w, query) \in Nat
  BY NearIsNat
<1>2. /\ u.plan \in Nat /\ v.plan \in Nat /\ w.plan \in Nat
      /\ u.text \in Nat /\ v.text \in Nat /\ w.text \in Nat
  <2>1. DOMAIN plans \subseteq Nat /\ Texts \subseteq Nat
    BY CacheAssumption DEF RowsTyped, Ids
  <2>2. \A x \in vectors : x.plan \in DOMAIN plans /\ x.text \in Texts
    BY DEF RowsTyped
  <2> QED BY <2>1, <2>2
<1> QED BY <1>1, <1>2 DEF Closer

\* Of finitely many vectors some is nearest.
LEMMA SomeIsClosest ==
  ASSUME RowsTyped, IsFiniteSet(vectors), NEW query \in Queries,
         NEW from \in SUBSET vectors, from # {}
  PROVE  \E v \in from : \A w \in from : ~ Closer(w, v, query)
<1> DEFINE nearer(v) == {w \in vectors : Closer(w, v, query)}
           nearers == {nearer(v) : v \in from}
<1>1. nearers # {} /\ nearers \subseteq SUBSET vectors
  OBVIOUS
<1>2. IsWellFoundedOn(StrictSubsetOrdering(vectors), SUBSET vectors)
  BY FS_FiniteSubsetsOfFinite, FS_StrictSubsetOrderingWellFounded
<1>3. PICK least \in nearers : \A s \in nearers : <<s, least>> \notin StrictSubsetOrdering(vectors)
  <2> HIDE DEF nearers
  <2> QED BY <1>1, <1>2, WFMin
<1>4. PICK v \in from : least = nearer(v)
  OBVIOUS
<1>5. ASSUME NEW w \in from, Closer(w, v, query) PROVE FALSE
  <2>1. nearer(w) \subseteq nearer(v)
    BY <1>5, CloserIsAnOrder
  <2>2. w \in nearer(v) /\ w \notin nearer(w)
    BY <1>5, CloserIsAnOrder
  <2>3. nearer(w) # nearer(v)
    BY <2>2
  <2>4. nearer(w) \in nearers /\ nearer(w) \in SUBSET vectors /\ nearer(v) \in SUBSET vectors
    OBVIOUS
  <2>5. <<nearer(w), nearer(v)>> \in StrictSubsetOrdering(vectors)
    <3> HIDE DEF nearer
    <3> QED BY <2>1, <2>3, <2>4 DEF StrictSubsetOrdering
  <2> QED BY <1>3, <1>4, <2>4, <2>5
<1> QED BY <1>5

LEMMA PlansDoNotFillThePool ==
  ASSUME PoolOutgrowsPlans, IInv, NEW i \in DOMAIN plans
  PROVE  /\ IsFiniteSet({v \in vectors : v.plan = i})
         /\ Cardinality({v \in vectors : v.plan = i}) < Pool
<1> DEFINE own == {v \in vectors : v.plan = i}
           f == [v \in own |-> v.text]
<1>1. PICK phrases : phrases = Phrases(plans[i].query, plans[i].result)
  OBVIOUS
<1>2. IsFiniteSet(phrases) /\ Cardinality(phrases) < Pool
  <2>1. plans[i].query \in Queries /\ plans[i].result \in Produced
    BY DEF IInv, RowsTyped, PlanRow
  <2> QED BY <1>1, <2>1 DEF PoolOutgrowsPlans
<1>3. {v.text : v \in own} = phrases
  BY <1>1 DEF IInv, CacheIsConsistent
<1>4. \A v, w \in own : v.text = w.text => v = w
  BY DEF IInv, RowsTyped
<1>5. f \in Injection(own, phrases)
  <2>1. f \in [own -> phrases]
    BY <1>3
  <2>2. \A v, w \in own : f[v] = f[w] => v = w
    BY <1>4
  <2> HIDE DEF f, own
  <2> QED BY <2>1, <2>2 DEF Injection, IsInjective
<1> HIDE DEF f, own
<1>6. IsFiniteSet(own) /\ Cardinality(own) <= Cardinality(phrases)
  BY <1>2, <1>5, FS_Injection
<1>7. Cardinality(own) \in Nat /\ Cardinality(phrases) \in Nat /\ Pool \in Nat
  BY <1>2, <1>6, FS_CardinalityType DEF PoolOutgrowsPlans
<1> QED BY <1>2, <1>6, <1>7 DEF own

LEMMA MatchIsDecisive ==
  ASSUME PoolOutgrowsPlans, IInv, IsFiniteSet(vectors),
         NEW query \in Queries, NEW v \in Matches("exact", query)
  PROVE  /\ Near(v, query) >= Threshold
         /\ \A s \in RivalsOf(v, query) : Near(v, query) - s >= Margin
<1> DEFINE current == Current(vectors)
           found == Closest(Pool, current, query)
           rivals == {u \in current : u.plan # v.plan}
<1>1. /\ v \in vectors /\ Near(v, query) >= Threshold
      /\ \A u \in found : u.plan # v.plan => ~ (Near(v, query) - Near(u, query) < Margin)
  BY DEF Matches, Candidates, Scanned, Closest, Ambiguous, Current
<1>2. rivals \subseteq vectors /\ current \subseteq vectors /\ RowsTyped
  BY DEF Current, IInv
<1>3. SUFFICES ASSUME NEW s \in RivalsOf(v, query) PROVE Near(v, query) - s >= Margin
  BY <1>1
<1>4. PICK rival \in rivals : s = Near(rival, query)
  BY DEF RivalsOf
<1>5. PICK u \in rivals : \A w \in rivals : ~ Closer(w, u, query)
  <2> HIDE DEF rivals
  <2> QED BY <1>2, <1>4, SomeIsClosest
<1>6. u \in found
  <2> DEFINE nearer == {w \in current : Closer(w, u, query)}
             own == {w \in vectors : w.plan = v.plan}
  <2>1. nearer \subseteq own
    BY <1>2, <1>5
  <2>2. v.plan \in DOMAIN plans
    BY <1>1 DEF IInv, RowsTyped
  <2>3. IsFiniteSet(own) /\ Cardinality(own) < Pool
    BY <2>2, PlansDoNotFillThePool
  <2> HIDE DEF own
  <2>4. /\ Cardinality(nearer) <= Cardinality(own) /\ Cardinality(nearer) \in Nat
        /\ Cardinality(own) \in Nat /\ Pool \in Nat
    BY <2>1, <2>3, FS_Subset, FS_CardinalityType DEF PoolOutgrowsPlans
  <2>5. Cardinality(nearer) < Pool
    BY <2>3, <2>4
  <2> QED BY <2>5 DEF Closest
<1>7. Near(rival, query) <= Near(u, query)
  BY <1>2, <1>4, <1>5, CloserIsAnOrder
<1>8. ~ (Near(v, query) - Near(u, query) < Margin)
  BY <1>1, <1>5, <1>6
<1>9. /\ Near(v, query) \in Nat /\ Near(rival, query) \in Nat /\ Near(u, query) \in Nat
      /\ Margin \in Nat
  BY <1>1, <1>2, <1>4, <1>5, NearIsNat, CacheAssumption
<1> QED BY <1>4, <1>7, <1>8, <1>9

LEMMA VectorsStayFinite ==
  ASSUME PoolOutgrowsPlans, IInv, IsFiniteSet(vectors), [Next]_vars
  PROVE  IsFiniteSet(vectors')
<1>1. CASE UNCHANGED vectors
  BY <1>1
<1>2. CASE Reset
  BY <1>2, FS_EmptySet DEF Reset
<1>3. ASSUME NEW h \in Handlers, InsertVectors(h) PROVE IsFiniteSet(vectors')
  <2>1. PICK phrases : phrases = Phrases(req[h].query, req[h].result)
    OBVIOUS
  <2>2. IsFiniteSet(phrases)
    <3>1. req[h].query \in Queries /\ req[h].result \in Produced
      BY <1>3 DEF InsertVectors, IInv, RequestsTyped, Storable, Writes
    <3> QED BY <2>1, <3>1 DEF PoolOutgrowsPlans
  <2> DEFINE new == {[plan |-> req[h].id, text |-> t] : t \in phrases}
             f == [t \in phrases |-> [plan |-> req[h].id, text |-> t]]
  <2>3. vectors' = (vectors \ req[h].replaced) \cup new
    BY <1>3, <2>1 DEF InsertVectors
  <2>4. f \in Surjection(phrases, new)
    BY DEF Surjection
  <2> HIDE DEF new, f
  <2>5. IsFiniteSet(new)
    BY <2>2, <2>4, FS_Surjection
  <2>6. IsFiniteSet(vectors \ req[h].replaced)
    BY FS_Subset
  <2> QED BY <2>3, <2>5, <2>6, FS_Union
<1> QED BY <1>1, <1>2, <1>3
        DEF Next, vars, Arrive, LookupHit, LookupMiss, RecordHit, RunPipeline, Upsert,
            DeleteVectors, ServeStored, Fail, Redeploy

\* Only a lookup makes a hit of a request.
LEMMA HitsComeFromLookups ==
  ASSUME IInv, [Next]_vars, NEW h \in Handlers, req'[h].stage = "hit"
  PROVE  req'[h] = req[h] \/ LookupHit(h)
<1>1. req \in [Handlers -> Request] /\ req[h] \in Request
  BY DEF IInv, RequestsTyped
<1>2. ASSUME NEW g \in Handlers, NEW r, Put(g, r), r.stage # "hit"
      PROVE  req'[h] = req[h]
  BY <1>1, <1>2 DEF Put
<1>3. \A g \in Handlers : req[g] \in Request
  BY <1>1
<1>4. ASSUME NEW g \in Handlers, NEW result, Serve(g, result) PROVE req'[h] = req[h]
  <2>1. [req[g] EXCEPT !.stage = "served", !.result = result, !.replaced = {}].stage = "served"
    BY <1>3 DEF Request
  <2> QED BY <1>2, <1>4, <2>1 DEF Serve
<1>5. CASE UNCHANGED vars
  BY <1>5 DEF vars
<1>6. ASSUME NEW g \in Handlers, NEW query \in Queries, NEW force \in BOOLEAN,
             Arrive(g, query, force)
      PROVE  req'[h] = req[h]
  <2>1. [Idle EXCEPT !.stage = IF force THEN "pipeline" ELSE "lookup",
                     !.query = query].stage # "hit"
    BY DEF Idle
  <2> QED BY <1>2, <1>6, <2>1 DEF Arrive
<1>7. ASSUME NEW g \in Handlers, LookupHit(g) PROVE req'[h] = req[h] \/ LookupHit(h)
  BY <1>1, <1>7 DEF LookupHit, Put
<1>8. ASSUME NEW g \in Handlers, LookupMiss(g) PROVE req'[h] = req[h]
  <2>1. [req[g] EXCEPT !.stage = "pipeline"].stage = "pipeline"
    BY <1>3 DEF Request
  <2> QED BY <1>2, <1>8, <2>1 DEF LookupMiss
<1>9. ASSUME NEW g \in Handlers, NEW recorded \in BOOLEAN, RecordHit(g, recorded)
      PROVE  req'[h] = req[h]
  BY <1>4, <1>9 DEF RecordHit
<1>10. ASSUME NEW g \in Handlers, RunPipeline(g) PROVE req'[h] = req[h]
  <2>1. PICK result : \/ Put(g, [req[g] EXCEPT !.stage = "upsert", !.result = result])
                      \/ Serve(g, Nothing)
    BY <1>10 DEF RunPipeline
  <2>2. [req[g] EXCEPT !.stage = "upsert", !.result = result].stage = "upsert"
    BY <1>3 DEF Request
  <2> QED BY <1>2, <1>4, <2>1, <2>2
<1>11. ASSUME NEW g \in Handlers, Upsert(g) PROVE req'[h] = req[h]
  <2>1. PICK id : Put(g, [req[g] EXCEPT !.stage = "replace", !.id = id])
    BY <1>11 DEF Upsert
  <2>2. [req[g] EXCEPT !.stage = "replace", !.id = id].stage = "replace"
    BY <1>3 DEF Request
  <2> QED BY <1>2, <2>1, <2>2
<1>12. ASSUME NEW g \in Handlers, DeleteVectors(g) PROVE req'[h] = req[h]
  <2>1. PICK gone : Put(g, [req[g] EXCEPT !.stage = "commit", !.replaced = gone])
    BY <1>12 DEF DeleteVectors
  <2>2. [req[g] EXCEPT !.stage = "commit", !.replaced = gone].stage = "commit"
    BY <1>3 DEF Request
  <2> QED BY <1>2, <2>1, <2>2
<1>13. ASSUME NEW g \in Handlers, InsertVectors(g) PROVE req'[h] = req[h]
  <2>1. [req[g] EXCEPT !.stage = "stored", !.replaced = {}].stage = "stored"
    BY <1>3 DEF Request
  <2> QED BY <1>2, <1>13, <2>1 DEF InsertVectors
<1>14. ASSUME NEW g \in Handlers, ServeStored(g) PROVE req'[h] = req[h]
  BY <1>4, <1>14 DEF ServeStored
<1>15. ASSUME NEW g \in Handlers, Fail(g) PROVE req'[h] = req[h]
  <2>1. Idle.stage = "idle"
    BY DEF Idle
  <2> QED BY <1>2, <1>15, <2>1 DEF Fail
<1>16. ASSUME NEW d \in Deployments, Redeploy(d) PROVE FALSE
  BY <1>16 DEF Redeploy, Idle
<1>17. CASE Reset
  BY <1>17 DEF Reset
<1> QED BY <1>5, <1>6, <1>7, <1>8, <1>9, <1>10, <1>11, <1>12, <1>13, <1>14, <1>15,
           <1>16, <1>17 DEF Next

(* When the vectors are scanned exactly, a plan is served from the cache   *)
(* only if it beats every other current plan by the margin, also those the *)
(* pool does not reach (lookup_detailed).                                  *)
THEOREM ExactHitsAreDecisive ==
  ASSUME Scans = {"exact"}, PoolOutgrowsPlans
  PROVE  Spec => []HitIsDecisive
<1> DEFINE Inv == IsFiniteSet(vectors) /\ HitIsDecisive
<1>1. Init => Inv
  <2> SUFFICES ASSUME Init PROVE Inv
    OBVIOUS
  <2>1. IsFiniteSet(vectors)
    BY FS_EmptySet DEF Init
  <2>2. \A h \in Handlers : req[h].stage # "hit"
    BY DEF Init, Idle
  <2> QED BY <2>1, <2>2 DEF HitIsDecisive
<1>2. ASSUME IInv, Inv, [Next]_vars PROVE Inv'
  <2>1. IsFiniteSet(vectors')
    BY <1>2, VectorsStayFinite
  <2>2. ASSUME NEW h \in Handlers, req'[h].stage = "hit"
        PROVE  /\ req'[h].similarity >= Threshold
               /\ \A s \in req'[h].rivals : req'[h].similarity - s >= Margin
    <3>1. CASE req'[h] = req[h]
      BY <1>2, <2>2, <3>1 DEF HitIsDecisive
    <3>2. CASE LookupHit(h)
      <4>1. PICK query \in Queries : query = req[h].query
        BY <1>2, <3>2 DEF LookupHit, IInv, RequestsTyped
      <4>2. PICK scan \in Scans : \E w \in Matches(scan, query) :
              Put(h, [req[h] EXCEPT !.stage = "hit", !.id = w.plan,
                        !.result = plans[w.plan].result,
                        !.similarity = Near(w, query),
                        !.rivals = RivalsOf(w, query)])
        BY <3>2, <4>1 DEF LookupHit
      <4>3. PICK v \in Matches(scan, query) :
              Put(h, [req[h] EXCEPT !.stage = "hit", !.id = v.plan,
                        !.result = plans[v.plan].result,
                        !.similarity = Near(v, query),
                        !.rivals = RivalsOf(v, query)])
        BY <4>2
      <4>4. scan = "exact"
        OBVIOUS
      <4>5. /\ Near(v, query) >= Threshold
            /\ \A s \in RivalsOf(v, query) : Near(v, query) - s >= Margin
        BY <1>2, <4>3, <4>4, MatchIsDecisive
      <4>6. req \in [Handlers -> Request] /\ req[h] \in Request
        BY <1>2 DEF IInv, RequestsTyped
      <4>7. req'[h].similarity = Near(v, query) /\ req'[h].rivals = RivalsOf(v, query)
        BY <4>3, <4>6 DEF Put, Request
      <4> QED BY <4>5, <4>7
    <3> QED BY <1>2, <2>2, <3>1, <3>2, HitsComeFromLookups
  <2> QED BY <2>1, <2>2 DEF HitIsDecisive
<1>3. Inv => HitIsDecisive
  OBVIOUS
<1> HIDE DEF Inv
<1> QED BY <1>1, <1>2, <1>3, Invariance, PTL DEF Spec
=============================================================================

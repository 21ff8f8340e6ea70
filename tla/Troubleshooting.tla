--------------------------- MODULE Troubleshooting ---------------------------
(***************************************************************************)
(* The troubleshooting service in front of its semantic plan cache.  A     *)
(* request looks for a cached plan by meaning; a hit is validated again    *)
(* and counted, anything else runs the pipeline, whose plan is validated,  *)
(* stored under every phrasing of it and served.  Requests of one          *)
(* deployment interleave between their transactions, and inside the one    *)
(* that stores a plan; a deployment is replaced while its rows stay; and   *)
(* the operator may purge the cache under a running service.               *)
(*                                                                         *)
(* Validation is abstracted to what can change between the writing and the *)
(* reading of a plan: a plan uses URIs and wordings, a deployment allows   *)
(* some.  Similarities are whole numbers.                                  *)
(***************************************************************************)
EXTENDS Integers, FiniteSets

CONSTANTS Texts,        \* queries and phrasings, numbered
          Similarity,   \* how close two texts embed, by pairs of texts
          Threshold,    \* cache_similarity_threshold
          Margin,       \* cache_ambiguity_margin
          Pool,         \* cache_candidate_pool
          EfSearch,     \* hnsw_ef_search_cache
          Scans,        \* how the planner may read the vectors
          Results,      \* by query: the plans phases 0-2 may come back with
          Deployments,  \* what a running service allows, and its cache_version
          Handlers,     \* slots for requests in flight
          Raised,       \* phases 0-2 ended in an exception
          MaxId,        \* bound: the plan ids handed out
          MaxHits       \* bound: the hits counted on one plan

Ids == 1..MaxId
Queries == DOMAIN Results
Produced == UNION {Results[q] : q \in Queries}

ASSUME CacheAssumption ==
  /\ Queries \subseteq Texts /\ Texts \subseteq Nat
  /\ Similarity \in [Texts \X Texts -> Nat]
  /\ Threshold \in Nat /\ Margin \in Nat /\ MaxId \in Nat /\ MaxHits \in Nat
  /\ Scans \subseteq {"exact", "index"}
  /\ \A r \in Produced : r.empty \/ {r.canonical} \cup r.variations \subseteq Texts
  /\ Raised \notin Produced

VARIABLES plans,        \* plan_cache: the committed rows, by id
          vectors,      \* plan_cache_vector: the committed phrasings
          hitRows,      \* request_metrics: the rows of hits, by matched plan
          nextId,       \* the id sequence of plan_cache
          deployment,   \* what the running service loaded when it started
          req           \* per slot: the request it serves and how far it got

vars == <<plans, vectors, hitRows, nextId, deployment, req>>

Nothing == [canonical |-> 0, variations |-> {}, uses |-> {}, empty |-> TRUE]

Idle == [stage |-> "idle", query |-> 0, id |-> 0, result |-> Nothing,
         similarity |-> 0, rivals |-> {}, replaced |-> {}]
-----------------------------------------------------------------------------
(* The cache, as one statement of a request sees it.                       *)
Near(v, query) == Similarity[<<query, v.text>>]

Closer(v, w, query) ==
  \/ Near(v, query) > Near(w, query)
  \/ Near(v, query) = Near(w, query) /\ v.plan < w.plan
  \/ Near(v, query) = Near(w, query) /\ v.plan = w.plan /\ v.text < w.text

Closest(k, from, query) ==
  {v \in from : Cardinality({w \in from : Closer(w, v, query)}) < k}

Current(from) == {v \in from : plans[v.plan].version = deployment.version}

\* An HNSW scan yields its nearest vectors first and filters them afterwards.
Scanned(scan, query) ==
  IF scan = "index" THEN Closest(EfSearch, vectors, query) ELSE vectors

Candidates(scan, query) == Closest(Pool, Current(Scanned(scan, query)), query)

\* Slip: only a runner-up that would be a hit itself makes a hit ambiguous.
AmbiguousAboveThreshold(best, others, query) ==
  \E v \in others : /\ Near(v, query) >= Threshold
                    /\ Near(best, query) - Near(v, query) < Margin

Ambiguous(best, others, query) ==
  \E v \in others : Near(best, query) - Near(v, query) < Margin

\* The vectors that may answer a query: one, or none when the lookup misses.
Matches(scan, query) ==
  LET found == Candidates(scan, query)
  IN {v \in Closest(1, found, query) :
        /\ Near(v, query) >= Threshold
        /\ ~ Ambiguous(v, {w \in found : w.plan # v.plan}, query)}

\* Slip: what was valid when it was written is valid.
TrustedOnceCached(result, cached) ==
  cached \/ result.uses \subseteq deployment.allows

\* validate_plan, on a plan just produced and on one read back alike.
Passes(result, cached) == result.uses \subseteq deployment.allows

\* Canonical form, original wording and paraphrases.
Phrases(query, result) == {result.canonical, query} \cup result.variations
-----------------------------------------------------------------------------
Init == /\ plans = <<>>
        /\ vectors = {}
        /\ hitRows = <<>>
        /\ nextId = 1
        /\ deployment \in Deployments
        /\ req = [h \in Handlers |-> Idle]

Put(h, r) == req' = [req EXCEPT ![h] = r]

\* force_pipeline, which pre-warming uses, passes the lookup over.
Arrive(h, query, force) ==
  /\ req[h].stage \in {"idle", "served"}
  /\ Put(h, [Idle EXCEPT !.stage = IF force THEN "pipeline" ELSE "lookup",
                         !.query = query])
  /\ UNCHANGED <<plans, vectors, hitRows, nextId, deployment>>

\* How near the other current plans come to a query, all of them looked at.
RivalsOf(v, query) ==
  {Near(w, query) : w \in {u \in Current(vectors) : u.plan # v.plan}}

LookupHit(h) ==
  LET query == req[h].query IN
  /\ req[h].stage = "lookup"
  /\ \E scan \in Scans : \E v \in Matches(scan, query) :
       /\ Passes(plans[v.plan].result, TRUE)
       /\ Put(h, [req[h] EXCEPT !.stage = "hit", !.id = v.plan,
                    !.result = plans[v.plan].result,
                    !.similarity = Near(v, query),
                    !.rivals = RivalsOf(v, query)])
  /\ UNCHANGED <<plans, vectors, hitRows, nextId, deployment>>

\* Nothing cached, too far, ambiguous, or cached but no longer valid.
LookupMiss(h) ==
  /\ req[h].stage = "lookup"
  /\ \E scan \in Scans : \A v \in Matches(scan, req[h].query) :
       ~ Passes(plans[v.plan].result, TRUE)
  /\ Put(h, [req[h] EXCEPT !.stage = "pipeline"])
  /\ UNCHANGED <<plans, vectors, hitRows, nextId, deployment>>

Hits(rows, id) == IF id \in DOMAIN rows THEN rows[id] ELSE 0

\* Slip: on autocommit the hit stays counted when its metrics row is lost.
CountedAutocommit(id, recorded) ==
  IF id \notin DOMAIN plans THEN <<plans, hitRows>>
  ELSE <<[plans EXCEPT ![id].hits = @ + 1],
         IF recorded THEN [i \in DOMAIN plans |-> Hits(hitRows, i) + IF i = id THEN 1 ELSE 0]
                     ELSE hitRows>>

\* record_hit and record_metrics share a transaction: a metrics insert that
\* fails is swallowed, but the commit that follows rolls both back.
Counted(id, recorded) ==
  IF ~ recorded \/ id \notin DOMAIN plans THEN <<plans, hitRows>>
  ELSE <<[plans EXCEPT ![id].hits = @ + 1],
         [i \in DOMAIN plans |-> Hits(hitRows, i) + IF i = id THEN 1 ELSE 0]>>

Serve(h, result) == Put(h, [req[h] EXCEPT !.stage = "served", !.result = result,
                                          !.replaced = {}])

RowLocked(id) == \E g \in Handlers : req[g].stage \in {"replace", "commit"}
                                     /\ req[g].id = id

RecordHit(h, recorded) ==
  LET r == req[h] IN
  /\ r.stage = "hit"
  /\ ~ RowLocked(r.id)
  /\ r.id \in DOMAIN plans => plans[r.id].hits < MaxHits
  /\ plans' = Counted(r.id, recorded)[1]
  /\ hitRows' = Counted(r.id, recorded)[2]
  /\ Serve(h, r.result)
  /\ UNCHANGED <<vectors, nextId, deployment>>

\* An exception of phases 0-2 and a plan that does not pass are both served
\* as the fallback, an empty plan; only a plan with contexts is stored.
RunPipeline(h) ==
  /\ req[h].stage = "pipeline"
  /\ \E result \in Results[req[h].query] \cup {Raised} :
       IF result # Raised /\ Passes(result, FALSE) /\ ~ result.empty
         THEN Put(h, [req[h] EXCEPT !.stage = "upsert", !.result = result])
         ELSE Serve(h, Nothing)
  /\ UNCHANGED <<plans, vectors, hitRows, nextId, deployment>>
-----------------------------------------------------------------------------
(* store_plan, a statement at a time, committed when its block ends.  The  *)
(* unique index on the canonical query and version makes a second writer   *)
(* wait for the first.  (The sequence also skips an id when the row was    *)
(* there; no id depends on it.)                                            *)
RowOf(canonical) == {i \in DOMAIN plans : plans[i].result.canonical = canonical
                                          /\ plans[i].version = deployment.version}

\* Slip: no index, so nobody waits.
NobodyWaits(h) == FALSE

Waits(h) ==
  \E g \in Handlers \ {h} : /\ req[g].stage \in {"replace", "commit"}
                            /\ req[g].result.canonical = req[h].result.canonical

Upsert(h) ==
  LET r == req[h] IN
  /\ r.stage = "upsert"
  /\ ~ Waits(h)
  /\ \/ \E i \in RowOf(r.result.canonical) :
          /\ Put(h, [r EXCEPT !.stage = "replace", !.id = i])
          /\ UNCHANGED nextId
     \/ /\ RowOf(r.result.canonical) = {}
        /\ nextId <= MaxId
        /\ Put(h, [r EXCEPT !.stage = "replace", !.id = nextId])
        /\ nextId' = nextId + 1
  /\ UNCHANGED <<plans, vectors, hitRows, deployment>>

DeleteVectors(h) ==
  /\ req[h].stage = "replace"
  /\ Put(h, [req[h] EXCEPT !.stage = "commit",
               !.replaced = {v \in vectors : v.plan = req[h].id}])
  /\ UNCHANGED <<plans, vectors, hitRows, nextId, deployment>>

InsertVectors(h) ==
  LET r == req[h]
      row == [result |-> r.result, query |-> r.query, version |-> deployment.version,
              hits |-> IF r.id \in DOMAIN plans THEN plans[r.id].hits ELSE 0]
  IN
  /\ r.stage = "commit"
  /\ plans' = [i \in DOMAIN plans \cup {r.id} |-> IF i = r.id THEN row ELSE plans[i]]
  /\ vectors' = (vectors \ r.replaced)
                  \cup {[plan |-> r.id, text |-> t] : t \in Phrases(r.query, r.result)}
  /\ Put(h, [r EXCEPT !.stage = "stored", !.replaced = {}])
  /\ UNCHANGED <<hitRows, nextId, deployment>>

\* The metrics insert of a miss is a transaction of its own: whether it is lost
\* or not, the plan stays stored and is served.
ServeStored(h) ==
  /\ req[h].stage = "stored"
  /\ Serve(h, req[h].result)
  /\ UNCHANGED <<plans, vectors, hitRows, nextId, deployment>>

\* The pool times out, the database drops or the client gives up: the open
\* transaction is rolled back and the request ends without an answer.
Fail(h) ==
  /\ req[h].stage \notin {"idle", "served"}
  /\ Put(h, Idle)
  /\ UNCHANGED <<plans, vectors, hitRows, nextId, deployment>>
-----------------------------------------------------------------------------
\* The service is restarted on another catalog, other rules or another cache
\* version.  What it cached stays.
Redeploy(d) ==
  /\ deployment' = d
  /\ req' = [h \in Handlers |-> Idle]
  /\ UNCHANGED <<plans, vectors, hitRows, nextId>>

\* Slip: the vectors are left behind.
ResetLeavesVectors ==
  /\ plans' = <<>> /\ hitRows' = <<>> /\ nextId' = 1
  /\ UNCHANGED <<vectors, deployment, req>>

\* reset_catalog truncates the cache, and by cascade what refers to it, once
\* no transaction holds its rows; the running service does not notice.
Reset ==
  /\ \A h \in Handlers : req[h].stage \notin {"replace", "commit"}
  /\ plans' = <<>> /\ vectors' = {} /\ hitRows' = <<>> /\ nextId' = 1
  /\ UNCHANGED <<deployment, req>>

Next ==
  \/ \E h \in Handlers :
       \/ \E query \in Queries, force \in BOOLEAN : Arrive(h, query, force)
       \/ LookupHit(h)
       \/ LookupMiss(h)
       \/ \E recorded \in BOOLEAN : RecordHit(h, recorded)
       \/ RunPipeline(h)
       \/ Upsert(h)
       \/ DeleteVectors(h)
       \/ InsertVectors(h)
       \/ ServeStored(h)
       \/ Fail(h)
  \/ \E d \in Deployments : Redeploy(d)
  \/ Reset

Spec == Init /\ [][Next]_vars
-----------------------------------------------------------------------------
TypeOK ==
  /\ DOMAIN plans \subseteq Ids
  /\ \A i \in DOMAIN plans : /\ plans[i].result \in Produced
                             /\ plans[i].query \in Queries
                             /\ plans[i].hits \in 0..MaxHits
  /\ vectors \subseteq [plan : DOMAIN plans, text : Texts]
  /\ DOMAIN hitRows \subseteq DOMAIN plans
  /\ nextId \in 1..(MaxId + 1)
  /\ deployment \in Deployments
  /\ \A h \in Handlers : req[h].stage \in
       {"idle", "lookup", "hit", "pipeline", "upsert", "replace", "commit", "stored",
        "served"}

(* Whatever the answer came from, it uses only what the running deployment *)
(* allows: a plan cached under another catalog or looser rules is never    *)
(* served (troubleshoot, validate_plan on the hit and on the miss path).   *)
ServedIsAllowed ==
  \A h \in Handlers :
    req[h].stage = "served" => req[h].result.uses \subseteq deployment.allows

(* A cached plan is found under exactly the phrasings it was stored with,  *)
(* and no other row has its canonical query and version, however stores of *)
(* the same problem interleave or fail (store_plan).                       *)
CacheIsConsistent ==
  /\ \A i \in DOMAIN plans : {v.text : v \in {w \in vectors : w.plan = i}}
                               = Phrases(plans[i].query, plans[i].result)
  /\ \A i, j \in DOMAIN plans :
       /\ plans[i].result.canonical = plans[j].result.canonical
       /\ plans[i].version = plans[j].version
       => i = j

(* The hits counted on a plan are the metrics rows that matched it, also   *)
(* when recording the metrics fails and the failure is swallowed           *)
(* (record_hit, _record).                                                  *)
HitsMatchMetrics ==
  \A i \in DOMAIN plans : plans[i].hits = Hits(hitRows, i)

(* A query is answered from the cache only when the plan beats every other *)
(* cached plan of the current version by the margin (lookup_detailed).     *)
HitIsDecisive ==
  \A h \in Handlers :
    req[h].stage = "hit" => /\ req[h].similarity >= Threshold
                            /\ \A s \in req[h].rivals : req[h].similarity - s >= Margin
=============================================================================

------------------------------- MODULE Catalog -------------------------------
(***************************************************************************)
(* The way of the deeplink catalog: from its file into the database by the *)
(* operator's scripts, from there into a service process once, when it     *)
(* starts, and with every plan into the cache.  A catalog is the set of    *)
(* links it lists.                                                         *)
(*                                                                         *)
(* Of the cache the rows of one complaint are kept.  The language model    *)
(* words its canonical query anew with every run, and rows are keyed by    *)
(* it: a row that went stale may stay beside a later one.  Scripts commit  *)
(* a transaction in one step, for which no reader may hold its lock; how   *)
(* the lock is waited for is the matter of Serving.                        *)
(***************************************************************************)
EXTENDS Naturals, FiniteSets

CONSTANTS Catalogs,    \* the catalogs the operator may point CATALOG_PATH at
          Operators,   \* shells in which the operator runs one script at a time
          Canonicals,  \* the canonical queries the complaint may be given
          Requests,    \* complaints under way at once
          MaxLinks     \* bound: retrievals of a pipeline run

ASSUME CatalogAssumption == {} \notin Catalogs /\ MaxLinks \in Nat \ {0}

Links == UNION Catalogs

VARIABLES file,      \* the catalog file
          rows,      \* deeplink_catalog
          indexed,   \* both HNSW indexes exist
          cached,    \* the complaint's rows of plan_cache: query, and the plan's links
          shell,     \* per operator: how far its build is, and with what
          service,   \* the service process
          probe,     \* a health probe under way
          health,    \* what GET /health last said of this process
          request,   \* per request: where it is, and the links of its plan
          answer     \* what was served last: a plan, or the fallback

vars == <<file, rows, indexed, cached, shell, service, probe, health, request,
          answer>>
process == <<service, probe, health, request, answer>>
-----------------------------------------------------------------------------
Idle == [at |-> "idle", links |-> {}]
NoProbe == [at |-> "none", loaded |-> FALSE, indexed |-> FALSE, whole |-> FALSE]
Down == [phase |-> "down", words |-> {}, permitted |-> {}]

Whole == indexed /\ rows # {}

Init == /\ file \in Catalogs
        /\ rows = {} /\ indexed = FALSE /\ cached = {}
        /\ shell = [o \in Operators |-> Idle]
        /\ service = Down
        /\ probe = NoProbe /\ health = "none"
        /\ request = [r \in Requests |-> Idle]
        /\ answer = "none"
-----------------------------------------------------------------------------
(* The operator.                                                           *)
SwapFile ==
  /\ file' \in Catalogs \ {file}
  /\ UNCHANGED <<rows, indexed, cached, shell>> /\ UNCHANGED process

\* build_catalog reads the file and embeds its entries before it opens a transaction.
ReadFile(o) ==
  /\ shell[o].at = "idle"
  /\ shell' = [shell EXCEPT ![o] = [at |-> "embedded", links |-> file]]
  /\ UNCHANGED <<file, rows, indexed, cached>> /\ UNCHANGED process

\* Slip: every statement of load_catalog_state is a transaction of its own.
LockedNever == FALSE

\* Between its two statements load_catalog_state keeps the table's read lock.
Locked == service.phase = "words"

Load(o) ==
  /\ shell[o].at = "embedded" /\ ~ Locked
  /\ rows' = shell[o].links
  /\ indexed' = FALSE
  /\ shell' = [shell EXCEPT ![o].at = "loaded"]
  /\ UNCHANGED <<file, cached>> /\ UNCHANGED process

BuildIndexes(o) ==
  /\ shell[o].at = "loaded"
  /\ indexed' = TRUE
  /\ shell' = [shell EXCEPT ![o] = Idle]
  /\ UNCHANGED <<file, rows, cached>> /\ UNCHANGED process

\* The script is interrupted, or fails: what it has committed stays.
Interrupt(o) ==
  /\ shell[o].at # "idle"
  /\ shell' = [shell EXCEPT ![o] = Idle]
  /\ UNCHANGED <<file, rows, indexed, cached>> /\ UNCHANGED process

\* Slip: the purge empties the tables and leaves their indexes.
PurgeIndexesKept == indexed

PurgeIndexes == FALSE

\* reset_catalog: one transaction.
Purge(o) ==
  /\ shell[o].at = "idle" /\ ~ Locked
  /\ rows' = {}
  /\ indexed' = PurgeIndexes
  /\ cached' = {}
  /\ UNCHANGED <<file, shell>> /\ UNCHANGED process
-----------------------------------------------------------------------------
(* The life of the process: lifespan, build_service, load_catalog_state.   *)
database == <<file, rows, indexed, cached, shell>>

Start ==
  /\ service.phase = "down"
  /\ service' = [service EXCEPT !.phase = "starting"]
  /\ UNCHANGED <<probe, health, request, answer>> /\ UNCHANGED database

ReadWords ==
  /\ service.phase = "starting"
  /\ service' = [service EXCEPT !.phase = "words", !.words = rows]
  /\ UNCHANGED <<probe, health, request, answer>> /\ UNCHANGED database

\* No links at all is an error; otherwise the service is published.
ReadPermitted ==
  /\ service.phase = "words"
  /\ service' = [service EXCEPT !.phase = IF rows = {} THEN "failed" ELSE "ready",
                                !.permitted = rows]
  /\ UNCHANGED <<probe, health, request, answer>> /\ UNCHANGED database

\* The model does not load, the database does not answer: the process stays up.
StartFails ==
  /\ service.phase \in {"starting", "words"}
  /\ service' = [service EXCEPT !.phase = "failed"]
  /\ UNCHANGED <<probe, health, request, answer>> /\ UNCHANGED database

\* Stopped or crashed: everything in memory is gone.
Stop ==
  /\ service.phase # "down"
  /\ service' = Down /\ probe' = NoProbe /\ health' = "none"
  /\ request' = [r \in Requests |-> Idle]
  /\ UNCHANGED answer /\ UNCHANGED database
-----------------------------------------------------------------------------
(* GET /health: each of its statements sees what is committed by then.     *)

\* Slip: the flag is set before the service is built.
LoadedEarly == service.phase # "down"

\* encoder_loaded
Loaded == service.phase = "ready"

ProbeStarts ==
  /\ service.phase # "down" /\ probe.at = "none"
  /\ probe' = [NoProbe EXCEPT !.at = "asked", !.loaded = Loaded]
  /\ UNCHANGED <<service, health, request, answer>> /\ UNCHANGED database

ProbeIndexes ==
  /\ probe.at = "asked"
  /\ probe' = [probe EXCEPT !.at = "counting", !.indexed = indexed, !.whole = Whole]
  /\ UNCHANGED <<service, health, request, answer>> /\ UNCHANGED database

\* Any error of a statement, or of the pool, makes the answer "not_ready".
ProbeAnswers ==
  /\ probe.at = "counting"
  /\ probe' = NoProbe
  /\ \/ health' = "not_ready"
     \/ /\ probe.loaded /\ probe.indexed /\ rows # {}
        /\ health' = "ok"
  /\ UNCHANGED <<service, request, answer>> /\ UNCHANGED database
-----------------------------------------------------------------------------
(* POST /v1/troubleshoot, as far as links go.                              *)
Enter(r, entry) == request' = [request EXCEPT ![r] = entry]

\* The plan is validated against the links the process was started with; one
\* without links has nothing to refuse.
Permits(links) == links \subseteq service.permitted

Ask(r) == service.phase = "ready" /\ request[r].at = "idle"

\* The lookup finds one of the rows.
Hit(r) ==
  /\ Ask(r)
  /\ \E row \in cached : Permits(row.links)
  /\ answer' = "plan"
  /\ UNCHANGED <<service, probe, health, request>> /\ UNCHANGED database

\* There is no row, or two are too near each other.
Miss(r) ==
  /\ Ask(r) /\ Cardinality(cached) # 1
  /\ Enter(r, [at |-> "pipeline", links |-> {}])
  /\ UNCHANGED <<service, probe, health, answer>> /\ UNCHANGED database

\* Slip: a cached plan that fails re-validation is answered as an invalid new one.
AfterStaleFallback(r) == answer' = "fallback" /\ UNCHANGED request

\* It is a miss like any other.
AfterStale(r) == Enter(r, [at |-> "pipeline", links |-> {}]) /\ UNCHANGED answer

\* The lookup finds a row that fails re-validation.  The row stays.
FindStale(r) ==
  /\ Ask(r)
  /\ \E row \in cached : ~ Permits(row.links)
  /\ AfterStale(r)
  /\ UNCHANGED <<service, probe, health>> /\ UNCHANGED database

\* Phase 2 looks one action up; the database may change before the next.
Retrieve(r) ==
  /\ request[r].at = "pipeline" /\ Cardinality(request[r].links) < MaxLinks
  /\ \E link \in rows \ request[r].links :
       Enter(r, [request[r] EXCEPT !.links = @ \cup {link}])
  /\ UNCHANGED <<service, probe, health, answer>> /\ UNCHANGED database

\* Slip: no ON CONFLICT, and no unique index that would ask for it.
StoredBeside(query, links) == cached \cup {[query |-> query, links |-> links]}

\* The row of the canonical query is overwritten, or there is one more.
Stored(query, links) == {row \in cached : row.query # query}
                          \cup {[query |-> query, links |-> links]}

\* A valid plan is stored and served, any other is dropped for the fallback.
\* Actions without a screen are manual by now: a plan may have no links at all.
Finish(r) ==
  /\ request[r].at = "pipeline"
  /\ IF Permits(request[r].links)
       THEN /\ \E query \in Canonicals : cached' = Stored(query, request[r].links)
            /\ answer' = "plan"
       ELSE answer' = "fallback" /\ UNCHANGED cached
  /\ Enter(r, Idle)
  /\ UNCHANGED <<service, probe, health, file, rows, indexed, shell>>

\* The pipeline raises: the fallback is served.
PipelineFails(r) ==
  /\ request[r].at = "pipeline"
  /\ Enter(r, Idle)
  /\ answer' = "fallback"
  /\ UNCHANGED <<service, probe, health>> /\ UNCHANGED database
-----------------------------------------------------------------------------
OperatorStep ==
  \/ SwapFile
  \/ \E o \in Operators :
       ReadFile(o) \/ Load(o) \/ BuildIndexes(o) \/ Interrupt(o) \/ Purge(o)

ProcessStep ==
  \/ Start \/ ReadWords \/ ReadPermitted \/ StartFails \/ Stop
  \/ ProbeStarts \/ ProbeIndexes \/ ProbeAnswers
  \/ \E r \in Requests :
       \/ Hit(r) \/ Miss(r) \/ FindStale(r)
       \/ Retrieve(r) \/ Finish(r) \/ PipelineFails(r)

Next == OperatorStep \/ ProcessStep

\* Users keep asking, and the model behind the pipeline, which may fail any
\* number of times, does not fail for ever.
Fairness ==
  \A r \in Requests :
    WF_vars(Hit(r) \/ Miss(r) \/ FindStale(r)) /\ SF_vars(Finish(r))

Spec == Init /\ [][Next]_vars /\ Fairness
-----------------------------------------------------------------------------
Phases == {"down", "starting", "words", "ready", "failed"}

TypeOK ==
  /\ file \in Catalogs /\ rows \in Catalogs \cup {{}} /\ indexed \in BOOLEAN
  /\ cached \subseteq [query : Canonicals, links : SUBSET Links]
  /\ \A p, q \in cached : p.query = q.query => p = q
  /\ shell \in [Operators -> [at : {"idle", "embedded", "loaded"},
                              links : Catalogs \cup {{}}]]
  /\ service \in [phase : Phases, words : SUBSET Links, permitted : SUBSET Links]
  /\ probe \in [at : {"none", "asked", "counting"}, loaded : BOOLEAN,
                indexed : BOOLEAN, whole : BOOLEAN]
  /\ health \in {"none", "ok", "not_ready"}
  /\ request \in [Requests -> [at : {"idle", "pipeline"}, links : SUBSET Links]]
  /\ answer \in {"none", "plan", "fallback"}

(* The word index and the permitted links of a process are of one and the  *)
(* same catalog, whatever scripts ran while it started                     *)
(* (load_catalog_state).                                                   *)
SnapshotIsOneCatalog == service.phase = "ready" => service.words = service.permitted

(* /health says ok only of a process that serves: nobody it sent here is   *)
(* told to wait (lifespan, get_service).                                   *)
HealthOkMeansServed == health = "ok" => service.phase = "ready"

(* /health says ok only if rows and both indexes were there together while *)
(* it looked, although it reads them in statements between which scripts   *)
(* may commit or break off (probe, index_catalog, reset_catalog).          *)
HealthOkWasTrue ==
  [][health' = "ok" /\ probe.at = "counting" /\ probe'.at = "none" => probe.whole]_vars

(* Rows that went stale with an earlier catalog shut nobody out: once the  *)
(* database and the process agree for good, users who keep asking are      *)
(* given a plan again and again, although such a row is never deleted and  *)
(* may be what every lookup finds (troubleshoot's re-validation).          *)
StaleRowsShutNobodyOut ==
  <>[](service.phase = "ready" /\ service.permitted = rows)
    => []<>(answer = "plan")
=============================================================================

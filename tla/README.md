# Verification of the guided troubleshooting engine

TLA+ models of this repository, checked with TLC and in part proved with TLAPS.
Paths are relative to the repository. `PROJECT.json` maps every definition to the
lines it models and lists the runs, the mutants, the findings, the hazards and
the theorems.

The program turns a free-text complaint about a phone into a *plan* (goals,
actions, groups of settings links), keeps plans in a semantic cache in
PostgreSQL, and walks a user through a plan in a *resolution session* that
records evidence for every step. It is one FastAPI process (or several) on one
asyncio event loop each, over one database with pgvector, beside scripts an
operator runs by hand and a console in the browser.

Contents: 1 inventory, 2 what is modelled, 3 runs, 4 bounds and fairness,
5 proofs, 6 findings, 7 what is not modelled, 8 plan.

## 1. Inventory

| Part | State it keeps | Operations | Talks to |
|---|---|---|---|
| **Resolution session** `app/resolution/{service,store,models}.py`, `api/resolution_routes.py`, migration 004 | `resolution_session` row (cursor, status, verdict, times), `resolution_attempt` rows | start, mark_presented, verify, submit_observation, confirm, advance, complete, receipt | database, verification, plan validation |
| **Plan walk** `app/resolution/models.py` | none (pure) | walk, step_at, next_position | session |
| **Verification** `app/verification/` | none (pure), a device adapter behind an interface | contract_from, compare, read_state | session |
| **Troubleshooting service and cache** `app/service.py`, `app/cache/store.py`, migrations 001 and 003 | `plan_cache`, `plan_cache_vector`, `request_metrics` | troubleshoot, lookup_detailed, record_hit, store_plan, record_metrics, cache_stats | pipeline, encoder, validation, database |
| **Pipeline** `app/pipeline/` | none between requests | run: enrich (phase 0), extract (1), attach links and order (2); mock | two language models over HTTP, retrieval |
| **Retrieval** `app/retrieval/resolver.py` | BM25 index, read once | search_catalog: vector and word ranking, fused | `deeplink_catalog` |
| **Plan validation** `app/validation/rules.py` | none (pure) | validate_plan and its parts | service, session start |
| **Catalog** `app/catalog/`, `scripts/build_catalog.py`, `scripts/reset_catalog.py` | `deeplink_catalog`, two HNSW indexes | rebuild (two transactions), purge | everything that reads the catalog |
| **Serving** `app/api/main.py`, `api/readiness.py`, `bootstrap.py`, `db/pool.py` | pool, loaded service (word index, permitted links), start-up flags | lifespan, health probe, routes | all of the above |
| **Console** `web/resolution.js`, `web/app.js` | the last answer it rendered, a busy flag | one call per button, a dialog before a critical step | session routes |
| **Scripts** pre-warm, benchmark, audit, init_db | none | forced requests, measurements, migrations | service, database |

How they interact. A request of the API is a coroutine; it is suspended at every
`await`, so requests of one process interleave there and those of several
processes anywhere. Each `async with pool.connection()` is one transaction
(committed on a normal exit, rolled back on an exception, read committed
throughout). The session and the cache share nothing but the pool and foreign
keys. The operator's scripts share only the database with the service.

Hard behaviours, by component, and the property that answers for them:

* *Session.* Every operation loads the row in one transaction and writes all
  mutable columns back in another, with nothing checked in between; the
  idempotency token is looked up in a third; confirm is two commits. Stale
  writes, token races and half-done confirmations are the normal hazards:
  `StatusRestsOnEvidence`, `OneAttemptPerToken`, `CriticalIsAgreed`,
  `NothingSkipped`, `ResolvedActionConfirmed`, `TerminalIsFinal`,
  `ReceiptNamesTheFix`, `KeepsThePromise`. A purge of the cache reaches the
  session through foreign keys: `RecordOutlivesTheCache`.
* *Plan walk.* Three nested indices where every step group must come once and in
  order. (A start refuses empty goals and actions, `Validates`; the walk itself is
  proved right for them too.)
* *Verification.* Boundary values, texts that do not parse, evidence of
  different weight: `ProvenanceOnlyDemotes`, `ConditionsPartitionReadings`,
  `DecidedOnlyOnCompleteEvidence`, `VerifiedMeansRead`.
* *Console.* Requests and answers that are lost, answers that come after their
  panel was taken away, an `advance` without a token that is clicked again, and a
  request the page gave up on that saves after the ones that came later:
  `NothingSkipped`, `ShownOutcomeHolds`, `PageNeverGoesBack`,
  `OneDialogPerCriticalStep`, `StayingUserFinishes`.
* *Cache.* Rows outlive the catalog, the rules and the version they were written
  under; overlapping stores of one canonical query; metrics that fail inside a
  transaction somebody else needs; a purge under a running service; a bounded
  index scan: `ServedIsAllowed`, `CacheIsConsistent`, `HitsMatchMetrics`,
  `HitIsDecisive`.
* *Serving.* Who waits for whom across the event loop, the pool and table locks:
  `EverybodyIsAnswered`, `ScriptsEnd`, `NothingHeldByThinkers`,
  `RebuildNeverDeadlocks`.
* *Pipeline and retrieval.* Retries, fallbacks, exceptions nobody expects; a plan
  whose critical actions must stay last although categories change after the
  sort; a word index and a list of permitted links read at start-up, beside a
  catalog whose ids start over with every rebuild: `BuiltPlansBreakNoRule`,
  `LinksNameTheScreen`, `MissedOnlyWhenOutranked`, `GivesUpOnlyAfterEveryTry`,
  `RunEnds`.
* *Catalog life cycle.* A build in two transactions that may break off between
  them, a start-up that reads twice, a probe whose statements are not one
  snapshot, a cache older than the catalog: `SnapshotIsOneCatalog`,
  `HealthOkMeansServed`, `HealthOkWasTrue`, `StaleRowsShutNobodyOut`.

## 2. What is modelled, and where

`Evidence.tla` is the vocabulary of verdicts and `Judge`, the last decision of
`compare`: what a reading is worth given where it came from. `Comparator.tla`
adds the contract, the three parsers and the orders, over tables of texts; the
session uses only `Evidence`.

`Plan.tla` flattens a nested plan as `walk` does and finds positions in it.
`Console.tla` moves a cursor through nested plans and compares where it has been
with the plain order of index triples (`Below` over `PositionsOf`), which knows
nothing of `walk`. `PlanProofs` shows for every plan that the two agree, and it is
this that allows the session to use step *indices*.

`ResolutionSession.tla` is the core: the row, the attempts, and per slot a
request with the *stage* it is suspended at and the copy of the session it
holds.

| Code | Model |
|---|---|
| `get` + `require_active` + the operation in memory | one action per operation: `MarkPresented`, `Verify`, `SubmitObservation`, `Confirm`, `AdvanceToNext`, `AdvancePastEnd`, `Complete` |
| the token: a missing or an empty one is not looked up, an empty one is stored | `Unlooked`, `NoToken`, `EmptyToken` |
| token look-up, adapter call, attempt number, insert + `save_progress`, `_save` | `FindAttemptByToken`, `ReadState`, `NextAttemptNo`, `RecordAttempt` or `InsertRefused`, `Save` |
| pool timeout, lost connection, dead worker | `Fail`, at every stage |
| `_receipt` | `Decisive` |
| `reset_catalog`'s `TRUNCATE plan_cache ... CASCADE`, seen from a session | `Purge`: `stored` says whether the rows are still there; an insert is then refused by the foreign key, a save updates nothing and is answered all the same |

`GuidedWalk.tla` is the abstract specification: what a user is promised, with no
requests, transactions or copies. `Promise!Spec` in `ResolutionSession` is the
refinement.

`Troubleshooting.tla` has the three cache tables, the running deployment (its
permitted links and cache version) and the requests in flight. A request goes
`lookup → hit → served` or `lookup → pipeline → upsert → replace → commit →
stored → served`; the three steps of `store_plan` are separate because other
requests run between its statements, and the last one commits: `store_plan`'s
transaction block is the outermost of its connection. `Redeploy` replaces the running service and keeps the
rows, `Reset` is the purge, `Fail` ends a request anywhere. A metrics insert that
fails is swallowed: after a hit it takes the counted hit with it, as both share a
transaction (`Counted`), after a store it takes nothing (`ServeStored`). The lookup is the SQL: candidates by distance, filtered by version,
best vector, best rival of another plan, threshold and margin; with `Scans`
containing `"index"` the filter comes after a bounded index scan, as in pgvector.

`Serving.tla` has the coroutines of one process, who keeps the event loop, the
table locks and the script that runs. A statement locks its tables one after the
other; a lock waits behind a script's conflicting request, as PostgreSQL's queue
has it; the deadlock detector sees cycles of lock waits and nothing else. The
constant `RetrievalOnLoop` tells the two pipelines apart: the mock hops to a
worker thread for its retrieval (`mock_pipeline.py:218`), the real one does not
(`pipeline/real/pipeline.py:227`).

`Retrieval.tla` has the fusion of two rankings of row ids, in whole numbers: each
reciprocal rank is multiplied by a common multiple of the denominators (`Scale`),
so comparisons are exact. (The code adds floats; with `rrf_k = 60` the shares of
different ranks differ by far more than their rounding.)

`Pipeline.tla` is one request on a cache miss.

| Code | Model |
|---|---|
| one HTTP exchange of `_call_model`, its `except` clauses and the loop over the models | a reply of `Replies` and `CallFails`: `TryAgain`, `NextModel` or `End` |
| `enrich` after its call: no reference text, schema, source integrity | `Enriched` |
| `extract` after its call: schema, `_verify_grounding`, `_ensure_critical_last` | `Extracted` |
| `_build_action` | `WithoutLookup`, or `Search` and `FetchRows`; both end in `BuildAction` |
| `search_catalog`: the vector query and the fused ids; then `SELECT ... WHERE id = ANY` | `Search`; `FetchRows` |
| `_candidate_is_compatible` | `Fits`, over sets of meaningful tokens |
| `validate_plan` on links, categories and order | `Violations`; wording rules may refuse any plan (`Validate`) |
| `index_catalog`, `reset_catalog` | `Rebuild`: another catalog of `Catalogs`, at any moment the connection holds no lock on the table |

The vector query commits on its own (`with conn.transaction()`), so a rebuild
fits between ranking and reading. The row query opens a transaction that stays
open until the request ends (`held`), so after the first lookup the table cannot
change any more. `loaded` is what the service read at start-up: the word index
ranks its ids, the permitted links are its links.

`Catalog.tla` follows a catalog, as the set of its links, from the file into the
database, from there into a service process and with each plan into the cache.
Of the cache it keeps the rows of one complaint. They are keyed by the canonical
query, which the language model words anew with every run, so a stale row may stay
beside a later one and be what the lookup finds. A plan whose actions found no
screen has no links; it is stored and served like any other.

| Code | Model |
|---|---|
| `load_catalog` and the embedding; `index_catalog`'s two transactions | `ReadFile`; `Load`, `BuildIndexes`; `Interrupt` between any two |
| `reset_catalog` | `Purge`, one transaction |
| `lifespan`, `build_service` and the two reads of `load_catalog_state`, which share a transaction and so its lock | `Start`, `ReadWords`, `ReadPermitted` (`Locked` in between), `StartFails`, `Stop` |
| `readiness.probe`: the flag, the indexes, the count | `ProbeStarts`, `ProbeIndexes`, `ProbeAnswers` |
| `get_service`, the lookup with its re-validation, phase 2 one action at a time, validation and store | `Ask` with `Hit`, `Miss` or `FindStale`; `Retrieve`, `Finish`, `PipelineFails` |
| `ON CONFLICT (canonical_query, cache_version) DO UPDATE` | `Stored` |

`Console.tla` has three parties. The *page* keeps what it shows, whether its
panel and its start control are visible, and whether a call is under way; it
sends one request per button and drops a click while it is busy. The *network*
may lose a request or its answer (`FetchFails`): a request lost to the page may
still be served (`adrift`), even much later. Requests are kept in a set, and
`seen` (the failures the page had seen when it sent one) keeps a request that is
repeated apart from the lost one. The *server* walks a nested plan, and handles a
request as the code does: one transaction loads the row, a later one saves all of
it, and confirm saves twice. The page waits for one request at a time, but one it
gave up on goes on: when it saves over a row it did not load, the row is marked
`overwritten`.

| Code | Model |
|---|---|
| `call` in `resolution.js` | `MaySend`, `Send`, `Receive`, `FetchFails` |
| `render` | `Render`, `Enabled` |
| the start button, link, "This fixed it", "Stop here", next with its dialog | `ClickStart`, `ClickLink`, `ClickButton`, `ClickNext` |
| `window.__resolution.offer` and `hide`, called by `app.js` | `Offer`, `Hide`; neither cancels a call |
| `start`, with what `validate_plan` refuses of a plan's shape | `ServeStart`, `Validates` |
| `get`, `require_active` and the acknowledgement | `Load`, `Allowed` |
| `confirm`'s attempt; `save_progress` and the answer | `Record`; `Served`, `Saved`, `Save` |
| 500, 503 at any stage | `ServeFails` |

How the modules compose. `ResolutionSession` uses `Plan` and `Evidence` and
implements `GuidedWalk`; `Console` uses `Plan`; `Pipeline` extends `Retrieval`.
`Troubleshooting` has any sequence of deployments, `Catalog` says which ones the
scripts and start-ups can produce; `Serving` says when a script's transaction
gets its locks, `Catalog` and `Pipeline` what its commit changes.

Definitions that begin with the comment `Slip:` are mistakes one could make in
this code. No specification uses them; each run is repeated with one of them in
place of the correct definition to see that the property notices.

## 3. Runs

| Run | Module, cfg | Shows |
|---|---|---|
| concurrent | MCResolutionSession, MCConcurrentSession | The invariants of a session that survive two interleaving requests, stale saves, token races, requests that die anywhere and a purge under the session. |
| serial | MCResolutionSession, MCSerialSession | With one request at a time, failures included, the session implements `GuidedWalk`, is final once finished, and its receipt names the action that resolved it. |
| comparator | MCComparator | All contracts against all readings of a set of texts with the parsers' boundary cases. |
| cache | MCTroubleshooting | Two requests, redeployments and purges interleave: nothing the deployment forbids is served, rows and vectors fit, hits are the metrics, a hit beats every rival by the margin. 223,204 states. |
| serving | MCServing | With retrieval off the loop everybody is answered, every script ends, nobody holds a lock while the model thinks, and a rebuild never meets a deadlock. |
| pipeline | MCPipeline | Model calls fail in every way and the catalog changes under a request: no plan is refused for a rule the mapping should have kept, links open a fitting screen, only outranked rows are missed, nobody gives up early, the request ends. |
| console | MCConsole | Two sessions of one page, a request lost or failed at any point, a given-up one that saves late, panels taken away under a call: what is skipped, shown and agreed to, and that a user who stays gets to the end. 546,554 states. |
| catalog | MCCatalog | Scripts that break off, processes that start, fail, stop and serve, a probe and a request, statement by statement, and cached rows that go stale. 799,486 states. |
| late_save, purge | MCResolutionSession | Violations: section 6. |
| crowded_scan | MCTroubleshooting, MCCrowdedScan | Violation: section 6. |
| standstill | MCServing, MCStandstill | Violation: section 6. |

`serial` and `concurrent` ask different questions of one module: what the code
promises can only be kept when requests do not overlap (late_save shows how it
breaks when they do), and `concurrent` says what holds regardless.

## 4. Bounds and fairness

* concurrent: a plan with three step groups, the last one critical, the three
  kinds of contract but "none" (which differs from "partial" only in its reason);
  two slots; one token; `MaxAttempts = 2`. Two requests are enough for every
  stale copy, as a request holds one copy and only one other write is needed to
  outdate it; more requests are covered by the proofs.
* serial: one slot, a token and the empty one, all readings, all statuses `complete` may be
  asked for, the one the code refuses included.
* cache: five texts whose distances put one query on the margin, two handlers,
  two plan ids, one counted hit per plan, three deployments (other links, other
  version). The bounds `MaxId` and `MaxHits` stop the id sequence and the hit
  counter, nothing else. crowded_scan has one handler and a scan of four.
* serving: two requests, a probe, two connections. One holder, one waiter and
  one more behind it are the longest chain the locks of this code can form.
* pipeline: two models, `MaxAttempts = 2` (the code has 4; the third attempt does
  nothing the second does not, and the proofs have any number), four catalogs of
  at most three rows: the one loaded, one with two of its screens the other way
  round, one with a link the service does not know, the purged one. `TopK` and
  `Fetch` are 2 (the code has 10 and 40), so that both lists are cut off. A
  ranking is any order of its ids, and the word ranking is of any subset of them.
  Four extractions have every category, critical actions first, actions without a
  target, a passage that is not grounded.
* console: three plans: one whose second goal is a critical action of two groups,
  one that opens on a critical action and goes on in another goal, one with an
  empty goal, which a start refuses. Two sessions, as a late answer of an earlier
  one needs no third; one failure (`MaxFailures`), which is enough to lose either
  half of any exchange, and to leave one request adrift that saves at any later
  time; `MaxDialogs` stops a counter that only grows.
* catalog: two catalogs that share a link, one request, two canonical queries (a
  stale row and one beside it), retrievals of up to two links, and one operator, who runs one script at a time. With two operators
  `HealthOkWasTrue` does not hold: a purge that commits between the two
  transactions of a build lets the build make indexes over nothing, and a probe
  can read those indexes and count the rows after another build has loaded them.

Deadlock is not checked where the system may stop: a session or a request that
is finished, a database nobody uses, the bounds reached. `serving` checks it.

Fairness. The sessions' and the cache's properties are safety and need none.
In `Console` the server serves what reaches it and the network brings the
answer, weakly fair, except for the counted failures; and the liveness is
conditional on the user: `ClickLink` and `ClickNext` are strongly fair, the user
who stays and keeps opening the link and asking for the next action, which the
page makes possible again and again rather than always. In `Catalog` users keep
asking (`Hit`, `Miss` or `FindStale`, weakly fair), and a pipeline that may fail
any number of times does not fail for ever (`Finish`, strongly fair); scripts, starts
and stops are not fair. In `Serving`, a coroutine's own steps are strongly fair: the
event loop takes ready callbacks in order, the pool serves its waiters in order
and gives up after 10 s, and a table's lock queue is served in order, so what is
possible again and again happens; the model's answer is part of it because both
clients have timeouts. The deadlock detector and a script's next statement are
weakly fair. In `Pipeline` the request's own steps are weakly fair: its call
returns or times out, its statements return, and no step of it waits for another
party; that its lock may have to wait is the business of `Serving`. `Rebuild` is
not fair. Of users no fairness is assumed but the two conditions named above, that
they stay (`Console`) and keep asking (`Catalog`); of the operator, or of an
operator's interrupt, none.

## 5. Proofs

TLAPS checks the theorems below for every value of the constants: any plan, any
number of requests, tokens, texts, deployments, catalogs, connections. The
assumptions are `StepsAssumption` and `InputsAssumption` (a non-empty walk,
tokens that are not `NoToken`); `CacheAssumption` (similarities are natural
numbers, what is produced is worded in `Texts`, the mark of an exception is no
plan); `RetrievalAssumption` and `PipelineAssumption` (the settings are in their
bounds, `Scale` is a multiple of every denominator, there is one model or two,
extractions are not empty and use the three categories, a catalog row has a
link: the official catalog's rows do, the loader does not check);
`ConsoleAssumption` (plans have the shape of the contract, the bounds are
numbers); `CatalogAssumption` (no catalog is empty); `ServingAssumption`
(requests, probes and the script are different parties); `ComparatorAssumption`
(what `int()` takes `float()` takes, parses are numbers, `None` is not one).

* `ResolutionSessionProofs`, for any number of requests at once: `TypeCorrect`,
  the inductive invariant and the safety properties of the run `concurrent`. The
  properties alone are not inductive: a request writes back a copy made long ago,
  so they could hold of the row and be destroyed by any `Save`. The invariant
  therefore says of every session *held in memory* what it says of the stored one.
  That works because all it claims of a session rests on things that only grow,
  the attempts, the agreements and the visited positions: what was well founded
  when it was loaded is still well founded when it is written. It is also why
  `TerminalIsFinal` fails where these do not: "finished" does not rest on anything
  that stays. `CompletedExactlyWhenTerminal` (a session has a completion time
  exactly when its status is terminal) is proved and has no run of its own.

  With one request at a time (`OneSlot`: a request on the session is over before
  the next starts): `PromiseIsKept` (the refinement: the initial state maps to
  one, and every step to a step of `GuidedWalk` or a stutter), `FinishedIsFinal`
  and `ReceiptsNameTheFix`. The run late_save shows what happens without the
  assumption. Here the argument is the opposite one: what a request holds is still
  what the row is (`RecordsFresh`), so what it saves is one legal move from there
  (`SavesOneMove`), although it may fail at any stage and `confirm` leaves its
  second transaction to a later step. Numbers follow the commits (`Numbered`), and
  a fix that is named is the last attempt (`FixIsLast`); so the attempt with the
  highest number, which the receipt shows, is the user's confirmation.
* `PlanProofs`, for any nested plan: `WalkIsInOrder` (the walk has exactly the
  plan's positions, in the order of their triples, whatever goals and actions are
  empty), `NextByIndex` (the next step is the one at the next index: what the
  session model takes for granted) and `NextIsNext` (the next position is the
  least one above, and there is none exactly when `next_position` has none). The
  walk is a fold over a fold; that a concatenation of sequences in ascending order
  is one is an induction over the number of sequences, done by the least number at
  which it would fail (`LeastNatural`).
* `ConsoleProofs`, for any plans, sessions and failures: `ConsoleTypeCorrect`,
  `NoStepGroupSkipped`, `OutcomeShownHolds`, `PageOnlyMovesOn`,
  `DialogsAreSpentOnce`, with requests that load and save in two transactions, the
  ones adrift included. The invariant says that one call at most is waited for and a
  lost one has no answer (`OneCall`); that of every view that is shown or on its way
  the session has only moved on since, or was overwritten (`Known`); that a copy a
  request holds is of a cursor the session has had, however long ago, and that
  whoever may leave it for a critical action has the user's word (`Copies`); that
  starts on their way have room (`Room`); and that dialogs pay for the critical steps
  entered *and* for the agreements still on their way, also adrift (`Spent`). Why
  nothing is skipped although a late save may put the cursor anywhere it has been: a
  request saves the cursor it loaded or the next one, the loaded one was visited, and
  `NextIsNext` puts no position between a cursor and its next, so what was visited
  has no gap. `OutcomeShownHolds` and `PageOnlyMovesOn` except sessions that were
  overwritten, and must (section 6).
  `DialogsAreSpentOnce` assumes that the counter of dialogs is not stopped by its
  bound before every critical step could have had one (`DialogsCounted`), which
  says nothing of the code.
* `ComparatorProofs`: `ProvenanceAlwaysDemotes`, `ConditionsAlwaysPartition`,
  `EvidenceAlwaysComplete`, for any texts, foldings and parses; TLC has eleven
  texts. Nothing but the shape of a state is needed as an invariant.
* `TroubleshootingProofs`: `RowsAreTyped`, `OnlyAllowedServed`,
  `CacheStaysConsistent`, `HitsStayCounted`, `ExactHitsAreDecisive`. The strengthening says of a request
  between the statements of `store_plan` that it owns its row: its id is below the
  sequence, no other row has its canonical query and version, no other request
  between statements has its id or its canonical query (the unique index made it
  wait), and what it will replace is exactly the vectors the row has. Everything a
  request carries past validation is allowed by the *running* deployment, as a
  redeployment ends the requests of the old one.

  `ExactHitsAreDecisive` (a hit beats every other current plan by the margin, those
  the lookup never looked at too) has two assumptions. The scan is exact
  (`Scans = {"exact"}`); the run crowded_scan shows that it fails with the bounded
  index scan. And a plan has fewer phrases than the pool has places
  (`PoolOutgrowsPlans`): a query, its canonical form and at most ten variations
  (`enrichment/schema.py:26`; the mock makes no more) against
  `cache_candidate_pool`, 50 unless it is configured. The setting may be as low as
  2 (`config.py:118`), and then a plan can fill the pool and hide its rival: the
  theorem says nothing there. Given both, either the pool holds a vector of the
  rival, or every vector outside it is as far away as one of another plan inside it.
* `PipelineProofs`: `TypesHold`, `PlansBreakNoRule`, `EveryTryIsMade`,
  `LinksAlwaysFit`, `OnlyOutrankedAreMissed`. A plan is sorted before it is mapped, and the mapping may turn
  an automatic action into a manual one. The invariant relates each built action
  to the extracted one at its place (`Faithful`): it is critical exactly when that
  one is, has no link when it is manual and has one when it is automatic. With the
  extracted plan sorted (`Sorted`) the built one is, and the only rules left to
  break are about links the service does not know. `Searching` says that a lookup
  in progress is for an action that may have a link, `Counted` that attempts are
  calls. Links fit because the row that is read is the row that is verified and
  attached: nothing is claimed of the ids that were ranked before.
  `OnlyOutrankedAreMissed` is about those: the ids of a lookup are still the fusion
  of its rankings (`Fusing`), a fused order exists for any rankings
  (`RankingExists`, by counting for each id those before it), a worse rank has a
  strictly smaller share (`WorseRankCountsLess`), so an id that precedes another is
  above it in a ranking (`PrecedesIsAbove`), and the `TopK` ids proposed instead of
  the one that fits are `TopK` different ones. It assumes that no weight is zero
  (`BothRankingsCount`); the settings allow zero (`config.py:78`), and then the
  property does not hold: ids of that ranking alone tie and go by their number.
* `CatalogProofs`: `OneCatalogPerProcess`, `HealthyProcessesServe`,
  `HealthOkWasOnceTrue`, under the further assumption `OneScript`, that the
  operator has one shell (section 4 says what happens with two), and
  `CatalogTypeCorrect` (above all that a canonical query never has two rows)
  without it. What makes them inductive: what a
  start-up has read is still in the table, since it holds the lock
  (`WordsAreCurrent`); indexes never outlive the rows they were built over
  (`IndexesHaveRows`), so a probe that saw indexes saw rows (`ProbeIsHonest`).
* `ServingProofs`: `ThinkersHoldNothing`, `RebuildsNeverDeadlock`. The invariant
  gives for each statement the tables its transaction can have locked
  (`TasksHold` with `Reach`) and for each step of a script the tables it has
  (`ScriptHolds` with `Taken`). A rebuild locks the catalog and then the vectors;
  nobody who has the vectors ever asks for the catalog, and so there is no cycle,
  whether the retrieval runs on the loop or not. That does not make the system
  live: see `standstill`.

Every invariant and every action property of the passing runs is stated by a
theorem. Only model-checked is the liveness, which is beyond the prover:
`StayingUserFinishes`, `StaleRowsShutNobodyOut`, `EverybodyIsAnswered`, `ScriptsEnd`,
`RunEnds`; and the counterexamples of section 6. Five assumptions go beyond the
constants' own, each named where it is used: `OneSlot`, `OneScript`,
`DialogsCounted`, `BothRankingsCount`, and `PoolOutgrowsPlans` with the exact scan.

## 6. Findings

Each is a run TLC ends with a counterexample.

1. **late_save** A finished session can be reopened: every write puts back the
   whole copy a request loaded, and only the load checks that the session is
   active. `models.py:237` and the test at `test_resolution.py:457` say it accepts
   no further changes. It does not take two pages: a request the page gave up on
   goes on in the server and saves after the next one. So an outcome the console
   shows need not last, and a page can be taken back to a step it has left; without
   the words "saved over" (`overwritten`) TLC refutes `ShownOutcomeHolds` and
   `PageNeverGoesBack` at once.
2. **purge** `reset_catalog.py:62` truncates `plan_cache` with `CASCADE`, which
   follows every foreign key whatever its `ON DELETE` says: the resolution
   sessions and their attempts go too. `004_resolution_sessions.sql:17` says that
   losing the cached plan must not destroy the record of what a user was guided
   through. A request under way then saves into nothing: `save_progress` does not
   look at the number of rows it updated, so the user is answered 200.
3. **crowded_scan** `store.py:94` says a missed neighbour degrades to a cache
   miss. When the neighbour that is missed is the *runner-up*, an ambiguous
   lookup becomes a hit.
4. **standstill** The real pipeline queries the catalog synchronously on the
   event loop. With a rebuild waiting for a suspended coroutine's lock and the
   retrieval waiting behind the rebuild, the coroutine is never resumed. The
   database sees an idle transaction and no cycle; no timeout is configured that
   would end it.

Two statements of the API's documentation are refuted as well; their definitions
stay in `ResolutionSession` and a run that has them as an INVARIANT in
`MCConcurrentSession.cfg` shows it. `PresentedCriticalIsAcked`: a plan that opens
on a critical action shows it without any acknowledgement, as only `advance` asks
(`resolution_schemas.py:72`). `ResubmissionIsReplayed`: of two overlapping
submissions of one token the second breaks the unique index and is answered with
a server error, not with the recorded attempt (`resolution_schemas.py:58`), and so
is a second submission of an empty token, which is never looked up; nothing is
recorded twice.

Seen while modelling, each a behaviour of the models:

* When the answer of an acknowledged `advance` is lost, the page still shows the
  step before it. The user agrees to the same action again, and the server takes
  that agreement for the action after it. `OneDialogPerCriticalStep` still holds,
  as an agreement is spent once; whether the user meant it is another matter.
* A refused `advance` (409) does not refresh the page, and `GET` of a session is
  not used by it. When the answer of the `advance` to the step before a critical
  one is lost, asking for the next step is refused for ever; only an operation that
  answers with a view, such as the link, brings the page up to date. `StayingUserFinishes`
  needs both clicks. When it is the last answer of a session that is lost, the link
  is refused with 409 too, and the page shows an open session for good:
  `StayingUserFinishes` speaks of the session's end, not of what the page shows.
* `hide` and `offer` cancel no call. A late answer brings the old panel back and
  hides the start control of the new plan.
* The token of an observation contains `Date.now()` (`resolution.js:537`), so a
  retry has another token, contrary to the comment above it.
* A running process keeps the links and the word index it started with. After a
  rebuild it goes on serving, and storing, plans of the old catalog until it is
  restarted; the condition of `StaleRowsShutNobodyOut` excludes it. `RESTART IDENTITY` gives
  the new rows the ids the old word index ranks; `LinksAlwaysFit` says that this
  costs matches and never attaches a wrong screen.
* A process whose start failed stays up, answers 503 "still initializing" for ever
  (`main.py:123`), and its probe reports that the embedding model is not loaded
  whatever failed (`readiness.py:8`). `HealthOkMeansServed` is what holds.
* `catalog_source` is read from the catalog file while the links come from the
  database (`001_core_schema.sql:45` says it "records which catalog the plan's
  deeplinks came from"); between a swap of the file and the rebuild the two differ.
* `StructureExtractor._call_gemini` promises "If it fails, try the configured
  fallback model" (`extractor.py:157`), but a read that times out raises
  `TimeoutError`, which is neither a `URLError` nor a `StructureExtractionError`,
  and leaves both loops at once; so does a body that is not JSON, in both phases.
  `Retried` and `Caught` have it as the code has it, and `GivesUpOnlyAfterEveryTry`
  is therefore about overload and unreachable services alone.

## 7. What is not modelled

* The language models, the encoder, pgvector's distances, rank_bm25: sets of
  results, or functions given by constants.
* Texts: messages, prompts, wording rules, JSON repair. In the pipeline a text is
  what the code reads in it, tokens and whether it is grounded. In the comparator a text
  is its folded form and its parses, so digit strings beyond `int()`'s limit and
  unicode digits are outside.
* Row-level timing below a statement, other isolation levels (the code uses the
  default), replication.
* Costs, latencies, the statistics page, `origin`, logging.
* The metrics table's own lock. `Serving` has the three tables on which two
  parties meet; there a script starts with both indexes in place (without them a
  `DROP INDEX` locks nothing), and one script runs at a time.
* The service starts with a catalog in `Pipeline` (`Catalog` has the start
  without one); the mock pipeline differs there only in what it skips.
* Of the console: the observation form, the rail, the history and the receipt,
  which decide nothing. Of its server: attempts, verdicts and the receipt, which are
  the matter of `ResolutionSession`, and a second page on the same session.
* Migrations, the loader, configuration, prompts, landing page, benchmark: no
  state that two parties share.

## 8. Plan

Done: `Evidence`, `Plan`, `ResolutionSession` with `GuidedWalk`, `Comparator`,
`Troubleshooting`, `Serving`, `Retrieval`, `Pipeline`, `Console`, `Catalog`, and
the eight proof modules.

Next:

1. Two pages on one session in `Console`.
2. The refinement from `Console`'s server to `GuidedWalk`, so that the two models
   of a session rest on one promise.

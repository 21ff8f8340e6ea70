------------------------- MODULE ResolutionSession --------------------------
(***************************************************************************)
(* One guided resolution session: its row and its attempts in PostgreSQL,  *)
(* and the requests that work on it.  Every request loads the row in a     *)
(* transaction of its own, decides in memory, and writes the whole mutable *)
(* part of the row back in a later transaction.  Between the two the       *)
(* coroutine is suspended, so requests on one session interleave there,    *)
(* on one event loop or across worker processes.                           *)
(*                                                                         *)
(* A position is the index of a step in the walk of the plan snapshot      *)
(* (Console shows that the walk visits every step group once, in order).   *)
(* Timestamps are kept as "set or not".  Sessions share no row, so one is  *)
(* enough.  A purge of the plan cache takes the session's rows with it;    *)
(* row and attempts then keep what they last held, out of every request's  *)
(* reach.                                                                  *)
(***************************************************************************)
EXTENDS Integers, Sequences, FiniteSets, Evidence

CONSTANTS Steps,        \* the walk of the session's plan snapshot
          Handlers,     \* slots for requests in flight on the session
          Tokens,       \* idempotency tokens clients put on observations
          NoToken,      \* an observation without one
          EmptyToken,   \* the token that is an empty string
          Readings,     \* how observed values compare to the contracts, here
          Asked,        \* the statuses complete is asked for
          MaxAttempts   \* bound: attempts recorded or about to be

ASSUME StepsAssumption ==
  /\ Steps \in Seq([position : Nat \X Nat \X Nat, critical : BOOLEAN,
                    validation : {"none", "partial", "complete"}])
  /\ Steps # <<>>

ASSUME InputsAssumption ==
  /\ NoToken \notin Tokens
  /\ Readings \subseteq Reading

VARIABLES row,          \* the resolution_session row
          attempts,     \* the resolution_attempt rows, in commit order
          req,          \* per slot: the request it serves and how far it got
          agreed,       \* history: positions a user acknowledged as critical
          visited,      \* history: positions the stored cursor has had
          stored        \* are the session's rows still in the database?

vars == <<row, attempts, req, agreed, visited, stored>>
-----------------------------------------------------------------------------
Positions == 1..Len(Steps)
NoPosition == 0

Terminal == {"resolved", "unresolved", "inconclusive", "abandoned"}
SessionStatus == {"pending", "in_progress"} \cup Terminal

Row == [status : SessionStatus, position : Positions,
        verification : VerificationStatus, reason : ReasonCode \cup {"null"},
        presented : BOOLEAN, acked : BOOLEAN,
        resolved_action : Positions \cup {NoPosition}, completed : BOOLEAN]

NoVerdict == [status |-> "pending", reason |-> "undecided",
              source |-> "trusted_adapter"]

Attempt == [no : Nat, position : Positions, verdict : Verdict,
            token : Tokens \cup {NoToken}]

\* Slip: moves by whole actions and jumps over a step group.
NextPositionByAction(p) ==
  IF p = Len(Steps) THEN NoPosition ELSE IF p + 2 <= Len(Steps) THEN p + 2 ELSE p + 1

NextPosition(p) == IF p = Len(Steps) THEN NoPosition ELSE p + 1

\* Slip: only a resolved session is taken for finished.
RequireUnresolved(r) == r.status # "resolved"

RequireActive(r) == r.status \notin Terminal

\* Slip: no reason is given for what was not checked.
NoContractNoReason(p) == [status |-> "verification_unavailable",
                          reason |-> "null", source |-> "trusted_adapter"]

NoContract(p) ==
  [status |-> "verification_unavailable",
   reason |-> IF Steps[p].validation = "none" THEN "no_validation_deeplink"
                                              ELSE "incomplete_contract",
   source |-> "trusted_adapter"]

HasContract(p) == Steps[p].validation = "complete"
-----------------------------------------------------------------------------
(* The row a session is opened with.                                       *)
OpenedRow ==
  [status |-> "pending", position |-> 1, verification |-> "pending",
   reason |-> "null", presented |-> FALSE, acked |-> FALSE,
   resolved_action |-> NoPosition, completed |-> FALSE]

(* What each operation makes of the session it loaded.                     *)
Presented(r) == [r EXCEPT !.status = "in_progress", !.presented = TRUE]

\* Slip: the verdict on the last action is carried to the next.
MovedWithVerdict(r, p) ==
  [r EXCEPT !.position = p, !.status = "in_progress", !.presented = FALSE,
            !.acked = @ \/ Steps[p].critical]

Moved(r, p) ==
  [r EXCEPT !.position = p, !.status = "in_progress",
            !.verification = "pending", !.reason = "null", !.presented = FALSE,
            !.acked = @ \/ Steps[p].critical]

Recorded(r, verdict) ==
  [r EXCEPT !.verification = verdict.status, !.reason = verdict.reason,
            !.status = IF @ = "pending" THEN "in_progress" ELSE @]

\* Slip: any resolved session names the action under its cursor.
FinishedAtCursor(r, status, action) ==
  [r EXCEPT !.status = status, !.completed = TRUE,
            !.resolved_action = IF status = "resolved" THEN r.position ELSE @]

\* Slip: the time of completion is left out.
FinishedUndated(r, status, action) ==
  [r EXCEPT !.status = status,
            !.resolved_action = IF action = NoPosition THEN @ ELSE action]

Finished(r, status, action) ==
  [r EXCEPT !.status = status, !.completed = TRUE,
            !.resolved_action = IF action = NoPosition THEN @ ELSE action]
-----------------------------------------------------------------------------
(* A request: the stage it is at, the session it holds in memory, and, for *)
(* one that records an attempt, what it will record.                       *)
(*   idle    - no request; next: any operation                             *)
(*   lookup  - looking an observation token up; next: number or idle       *)
(*   adapter - waiting for the device; next: number                        *)
(*   number  - opening the recording transaction; next: insert             *)
(*   insert  - has its attempt number; next: idle, save or conflict        *)
(*   save    - about to write the session it holds; next: idle             *)
(*   conflict - the database refused the insert; next: idle (a 500)        *)
Request == [stage : {"idle", "lookup", "adapter", "number", "insert", "save",
                     "conflict"},
            session : Row, verdict : Verdict, token : Tokens \cup {NoToken},
            no : Nat, resolves : BOOLEAN]

Idle == [stage |-> "idle", session |-> OpenedRow, verdict |-> NoVerdict,
         token |-> NoToken, no |-> 0, resolves |-> FALSE]

Init == /\ row = OpenedRow
        /\ attempts = <<>>
        /\ req = [h \in Handlers |-> Idle]
        /\ agreed = {}
        /\ visited = {1}
        /\ stored = TRUE

\* get and require_active: a request that is refused leaves no trace.
Loads(h) == req[h].stage = "idle" /\ stored /\ RequireActive(row)

WillSave(h, session) ==
  /\ req' = [req EXCEPT ![h] = [Idle EXCEPT !.stage = "save",
                                            !.session = session]]
  /\ UNCHANGED <<row, attempts, visited, stored>>

WillRecord(h, stage, verdict, token, resolves) ==
  /\ Len(attempts) + Cardinality({g \in Handlers : req[g].stage \in
                        {"lookup", "adapter", "number", "insert"}}) < MaxAttempts
  /\ req' = [req EXCEPT ![h] = [Idle EXCEPT !.stage = stage, !.session = row,
                                  !.verdict = verdict, !.token = token,
                                  !.resolves = resolves]]
  /\ UNCHANGED <<row, attempts, agreed, visited, stored>>
-----------------------------------------------------------------------------
(* The operations, up to the first point where the coroutine is suspended  *)
(* after the load.                                                         *)
MarkPresented(h) ==
  /\ Loads(h)
  /\ WillSave(h, Presented(row))
  /\ UNCHANGED agreed

Verify(h) ==
  /\ Loads(h)
  /\ IF HasContract(row.position)
       THEN WillRecord(h, "adapter", NoVerdict, NoToken, FALSE)
       ELSE WillRecord(h, "number", NoContract(row.position), NoToken, FALSE)

ObservedVerdict(p, reading) ==
  IF HasContract(p)
    THEN Judge(reading, "client_reported")
    ELSE [NoContract(p) EXCEPT !.source = "client_reported"]

\* An empty token is not looked up, but is stored as any other.
Unlooked == {NoToken, EmptyToken}

SubmitObservation(h, token, reading) ==
  /\ Loads(h)
  /\ WillRecord(h, IF token \in Unlooked THEN "number" ELSE "lookup",
                ObservedVerdict(row.position, reading), token, FALSE)

Confirm(h, resolved) ==
  /\ Loads(h)
  /\ WillRecord(h, "number",
       IF resolved
         THEN [status |-> "user_confirmed", source |-> "user_confirmation",
               reason |-> "user_confirmed_resolved"]
         ELSE [status |-> "verification_failed", source |-> "user_confirmation",
               reason |-> "user_reported_unresolved"],
       NoToken, resolved)

\* Slip: asks about the action being left instead of the one entered.
PermittedByCurrent(upcoming, acknowledge) ==
  Steps[upcoming - 1].critical => acknowledge

\* A critical action is entered only by a request that acknowledges it.
Permitted(upcoming, acknowledge) == Steps[upcoming].critical => acknowledge

AdvanceToNext(h, acknowledge) ==
  LET upcoming == NextPosition(row.position) IN
  /\ Loads(h)
  /\ upcoming # NoPosition
  /\ Permitted(upcoming, acknowledge)
  /\ WillSave(h, Moved(row, upcoming))
  /\ agreed' = IF acknowledge THEN agreed \cup {upcoming} ELSE agreed

AdvancePastEnd(h) ==
  /\ Loads(h)
  /\ NextPosition(row.position) = NoPosition
  /\ WillSave(h, Finished(row, "unresolved", NoPosition))
  /\ UNCHANGED agreed

Complete(h, status) ==
  /\ status \in Terminal
  /\ Loads(h)
  /\ WillSave(h, Finished(row, status, NoPosition))
  /\ UNCHANGED agreed
-----------------------------------------------------------------------------
(* The stages a suspended request resumes with.                            *)
Recorder(token) == {i \in 1..Len(attempts) : attempts[i].token = token}

\* Slip: an index that is not unique.
NeverTaken(token) == FALSE

\* What the partial unique index on (session_id, observation_token) refuses.
Taken(token) == token # NoToken /\ Recorder(token) # {}

\* A token already recorded ends the request with a replay of that attempt.
FindAttemptByToken(h) ==
  /\ req[h].stage = "lookup"
  /\ req' = [req EXCEPT ![h] = IF stored /\ Recorder(req[h].token) # {}
                                 THEN Idle ELSE [@ EXCEPT !.stage = "number"]]
  /\ UNCHANGED <<row, attempts, agreed, visited, stored>>

AdapterVerdict(reading) ==
  IF reading = "unavailable"
    THEN [status |-> "verification_unavailable", reason |-> "adapter_unavailable",
          source |-> "trusted_adapter"]
    ELSE Judge(reading, "trusted_adapter")

ReadState(h, reading) ==
  /\ req[h].stage = "adapter"
  /\ req' = [req EXCEPT ![h] = [@ EXCEPT !.stage = "number",
                                         !.verdict = AdapterVerdict(reading)]]
  /\ UNCHANGED <<row, attempts, agreed, visited, stored>>

Numbers == IF stored THEN {attempts[i].no : i \in 1..Len(attempts)} ELSE {}

NextAttemptNo(h) ==
  /\ req[h].stage = "number"
  /\ \E n \in 1..(Len(attempts) + 1) :
       /\ n - 1 \in Numbers \cup {0}
       /\ \A m \in Numbers : m < n
       /\ req' = [req EXCEPT ![h] = [@ EXCEPT !.stage = "insert", !.no = n]]
  /\ UNCHANGED <<row, attempts, agreed, visited, stored>>

\* The attempt and the session are written in one transaction.
RecordAttempt(h) ==
  LET r == req[h]
      session == Recorded(r.session, r.verdict)
  IN
  /\ r.stage = "insert"
  /\ stored
  /\ ~ Taken(r.token)
  /\ attempts' = Append(attempts, [no |-> r.no, position |-> r.session.position,
                                   verdict |-> r.verdict, token |-> r.token])
  /\ row' = session
  /\ visited' = visited \cup {session.position}
  /\ req' = [req EXCEPT ![h] =
               IF r.resolves
                 THEN [Idle EXCEPT !.stage = "save",
                         !.session = Finished(session, "resolved", session.position)]
                 ELSE Idle]
  /\ UNCHANGED <<agreed, stored>>

\* The insert is refused, the transaction rolls back, nothing catches it:
\* its token is taken, or the session it refers to is gone.
InsertRefused(h) ==
  /\ req[h].stage = "insert"
  /\ stored => Taken(req[h].token)
  /\ req' = [req EXCEPT ![h] = [Idle EXCEPT !.stage = "conflict"]]
  /\ UNCHANGED <<row, attempts, agreed, visited, stored>>

Respond500(h) ==
  /\ req[h].stage = "conflict"
  /\ req' = [req EXCEPT ![h] = Idle]
  /\ UNCHANGED <<row, attempts, agreed, visited, stored>>

\* An UPDATE that finds no row changes nothing, and nobody looks.
Save(h) ==
  /\ req[h].stage = "save"
  /\ IF stored
       THEN /\ row' = req[h].session
            /\ visited' = visited \cup {req[h].session.position}
       ELSE UNCHANGED <<row, visited>>
  /\ req' = [req EXCEPT ![h] = Idle]
  /\ UNCHANGED <<attempts, agreed, stored>>

\* The pool times out, the connection drops or the worker dies: the request
\* ends where it was suspended and its open transaction is rolled back.
Fail(h) ==
  /\ req[h].stage \notin {"idle", "conflict"}
  /\ req' = [req EXCEPT ![h] = Idle]
  /\ UNCHANGED <<row, attempts, agreed, visited, stored>>

\* reset_catalog: TRUNCATE plan_cache CASCADE empties every table that refers
\* to it, directly or not.  It locks resolution_session before
\* resolution_attempt; a transaction between its attempt number and its insert
\* has them the other way round, and is the one PostgreSQL aborts (or it aborts
\* the purge, which then changes nothing).
Purge ==
  /\ stored
  /\ stored' = FALSE
  /\ req' = [h \in Handlers |-> IF req[h].stage = "insert"
                                  THEN [Idle EXCEPT !.stage = "conflict"]
                                  ELSE req[h]]
  /\ UNCHANGED <<row, attempts, agreed, visited>>
-----------------------------------------------------------------------------
Resume(h) ==
  \/ FindAttemptByToken(h)
  \/ \E reading \in Readings \cup {"unavailable"} : ReadState(h, reading)
  \/ NextAttemptNo(h)
  \/ RecordAttempt(h)
  \/ InsertRefused(h)
  \/ Respond500(h)
  \/ Save(h)

Arrive(h) ==
  \/ MarkPresented(h)
  \/ Verify(h)
  \/ \E token \in Tokens \cup {NoToken}, reading \in Readings :
       SubmitObservation(h, token, reading)
  \/ \E resolved \in BOOLEAN : Confirm(h, resolved)
  \/ \E acknowledge \in BOOLEAN : AdvanceToNext(h, acknowledge)
  \/ AdvancePastEnd(h)
  \/ \E status \in Asked : Complete(h, status)

Next == Purge \/ \E h \in Handlers : Arrive(h) \/ Resume(h) \/ Fail(h)

Spec == Init /\ [][Next]_vars
-----------------------------------------------------------------------------
TypeOK ==
  /\ row \in Row
  /\ attempts \in Seq(Attempt)
  /\ req \in [Handlers -> Request]
  /\ agreed \subseteq Positions
  /\ visited \subseteq Positions
  /\ stored \in BOOLEAN

(* The verification status and reason a session shows are those of an      *)
(* attempt made at the step its cursor stands on, whatever stale copy of   *)
(* the session was written last: an advance leaves no verdict behind for   *)
(* the next action (advance, _record and save_progress).                   *)
StatusRestsOnEvidence ==
  row.verification # "pending" =>
    \E i \in 1..Len(attempts) :
      /\ attempts[i].position = row.position
      /\ attempts[i].verdict.status = row.verification
      /\ attempts[i].verdict.reason = row.reason

(* However often an observation is resubmitted, and however the copies     *)
(* interleave, one attempt at most is recorded for its token               *)
(* (submit_observation, the partial unique index).                         *)
OneAttemptPerToken ==
  \A i, j \in 1..Len(attempts) :
    attempts[i].token # NoToken /\ attempts[i].token = attempts[j].token => i = j

(* No critical action past the opening one is under the cursor, or has     *)
(* evidence recorded against it, unless a request acknowledged that very   *)
(* action (advance).                                                       *)
CriticalIsAgreed ==
  \A p \in {row.position} \cup {attempts[i].position : i \in 1..Len(attempts)} :
    p # 1 /\ Steps[p].critical => p \in agreed

(* A client can ask to move on but cannot pick where to: every step before *)
(* one the cursor has reached was itself under the cursor before           *)
(* (next_position, and no position taken from a request).                  *)
NothingSkipped ==
  /\ row.position \in visited
  /\ \A p \in visited : 1..p \subseteq visited

(* A session that names the action that resolved it is resolved, and the   *)
(* user confirmed exactly that action (confirm, whose record and finish    *)
(* are two transactions).                                                  *)
ResolvedActionConfirmed ==
  row.resolved_action # NoPosition =>
    /\ row.status = "resolved"
    /\ \E i \in 1..Len(attempts) :
         /\ attempts[i].position = row.resolved_action
         /\ attempts[i].verdict.status = "user_confirmed"

(* system_verified is only ever claimed for a step with a complete         *)
(* contract, on a reading the server took itself: in no attempt and on no  *)
(* session does client evidence or a missing contract earn it (compare,    *)
(* verify, submit_observation).                                            *)
VerifiedMeansRead ==
  /\ \A i \in 1..Len(attempts) :
       attempts[i].verdict.status = "system_verified" =>
         /\ attempts[i].verdict.source = "trusted_adapter"
         /\ HasContract(attempts[i].position)
  /\ row.verification = "system_verified" => HasContract(row.position)

(* The database's own check, completed_at set exactly on finished          *)
(* sessions, is never what stops a write, stale or not (_finish,           *)
(* save_progress, resolution_session_completed_chk).                       *)
CompletedIffTerminal == row.completed <=> row.status \in Terminal

(* Once finished, a session accepts no further change, and no attempt is   *)
(* recorded against it (require_active).                                   *)
TerminalIsFinal ==
  [][row.status \in Terminal => UNCHANGED <<row, attempts>>]_vars

\* Slip: the receipt stops at the first success.
FirstSuccess ==
  LET success == {i \in 1..Len(attempts) : attempts[i].verdict.status \in
                    {"system_verified", "user_confirmed"}}
  IN {i \in success : \A j \in success : attempts[i].no <= attempts[j].no}

(* The decisive attempts: the confirmed or verified ones with the highest  *)
(* number.  The receipt shows one of them.                                 *)
Decisive ==
  LET success == {i \in 1..Len(attempts) : attempts[i].verdict.status \in
                    {"system_verified", "user_confirmed"}}
  IN {i \in success : \A j \in success : attempts[j].no <= attempts[i].no}

(* When the session names a resolved action, the receipt's successful      *)
(* action is that one and is labelled as the user's own account (_receipt, *)
(* confirm).                                                               *)
ReceiptNamesTheFix ==
  row.resolved_action # NoPosition =>
    /\ Decisive # {}
    /\ \A i \in Decisive :
         /\ attempts[i].position = row.resolved_action
         /\ attempts[i].verdict.status = "user_confirmed"

(* A critical action is on screen only for a session whose user has        *)
(* acknowledged one (critical_ack_at).                                     *)
PresentedCriticalIsAcked ==
  row.presented /\ Steps[row.position].critical => row.acked

(* A resubmitted observation is answered with the attempt the first one    *)
(* recorded; as long as the session exists it never ends in a database     *)
(* error (find_attempt_by_token, submit_observation).                      *)
ResubmissionIsReplayed ==
  \A h \in Handlers : stored => req[h].stage # "conflict"

Record == IF stored THEN attempts ELSE <<>>

(* The record of what a user was guided through is append-only and         *)
(* outlives the cached plan it came from: no attempt once on record is     *)
(* ever lost or changed (resolution_session.plan_id, resolution_attempt).  *)
RecordOutlivesTheCache ==
  [][\A i \in 1..Len(Record) :
       i \in 1..Len(Record') /\ Record'[i] = Record[i]]_vars
-----------------------------------------------------------------------------
\* The guided walk this session is, as its user sees it.
Promise == INSTANCE GuidedWalk WITH
  Length   <- Len(Steps),
  Critical <- {p \in Positions : Steps[p].critical},
  Outcomes <- Terminal,
  Findings <- VerificationStatus,
  cursor   <- row.position,
  outcome  <- IF row.status \in Terminal THEN row.status ELSE "open",
  fix      <- row.resolved_action,
  reports  <- [i \in 1..Len(attempts) |->
                 [no |-> attempts[i].no, step |-> attempts[i].position,
                  finding |-> attempts[i].verdict.status]]

(* With one request at a time, every commit of the code is one legal move  *)
(* of the guided walk, or invisible to the user; a request that fails      *)
(* between its transactions leaves a legal walk too.                       *)
KeepsThePromise == Promise!Spec
=============================================================================

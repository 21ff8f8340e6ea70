---------------------- MODULE ResolutionSessionProofs -----------------------
(***************************************************************************)
(* What holds of a resolution session for every plan, every number of      *)
(* requests in flight and every supply of tokens: its types, its safety    *)
(* under any interleaving, and, with one request at a time, that it        *)
(* implements the guided walk its user is promised.                        *)
(***************************************************************************)
EXTENDS ResolutionSession, SequenceTheorems, TLAPS

LEMMA StepFacts ==
  /\ Len(Steps) \in Nat /\ Len(Steps) >= 1
  /\ 1 \in Positions
  /\ NoPosition \notin Positions
  /\ \A p \in Positions : /\ Steps[p].critical \in BOOLEAN
                          /\ p \in Nat
                          /\ NextPosition(p) \in Positions \cup {NoPosition}
                          /\ NextPosition(p) # NoPosition => NextPosition(p) = p + 1
<1> DEFINE Step == [position : Nat \X Nat \X Nat, critical : BOOLEAN,
                    validation : {"none", "partial", "complete"}]
<1>1. Steps \in Seq(Step) /\ Steps # <<>>
  BY StepsAssumption
<1>2. \A step \in Step : step.critical \in BOOLEAN
  OBVIOUS
<1> HIDE DEF Step
<1>3. Len(Steps) \in Nat /\ Len(Steps) >= 1
  BY <1>1
<1>4. \A p \in Positions : p \in Nat /\ Steps[p] \in Step
  BY <1>1, <1>3 DEF Positions
<1>5. QED
  BY <1>2, <1>3, <1>4 DEF Positions, NoPosition, NextPosition

-----------------------------------------------------------------------------
(* Type correctness.                                                       *)
LEMMA SessionTypes ==
  ASSUME NEW r \in Row
  PROVE  /\ Presented(r) \in Row
         /\ \A p \in Positions : Moved(r, p) \in Row
         /\ \A v \in Verdict : Recorded(r, v) \in Row
         /\ \A s \in SessionStatus, a \in Positions \cup {NoPosition} :
              Finished(r, s, a) \in Row
<1>1. Presented(r) \in Row
  BY DEF Presented, Row, SessionStatus
<1>2. ASSUME NEW p \in Positions PROVE Moved(r, p) \in Row
  <2>1. (r.acked \/ Steps[p].critical) \in BOOLEAN
    OBVIOUS
  <2>2. QED
    BY <2>1 DEF Moved, Row, SessionStatus, VerificationStatus
<1>3. ASSUME NEW v \in Verdict PROVE Recorded(r, v) \in Row
  BY DEF Recorded, Row, Verdict, SessionStatus
<1>4. ASSUME NEW s \in SessionStatus, NEW a \in Positions \cup {NoPosition}
      PROVE  Finished(r, s, a) \in Row
  BY DEF Finished, Row
<1>5. QED
  BY <1>1, <1>2, <1>3, <1>4

LEMMA VerdictTypes ==
  /\ NoVerdict \in Verdict
  /\ \A p \in Positions : NoContract(p) \in Verdict
  /\ \A reading \in Reading, source \in EvidenceSource :
       Judge(reading, source) \in Verdict
  /\ \A p \in Positions, reading \in Readings : ObservedVerdict(p, reading) \in Verdict
  /\ \A reading \in Readings \cup {"unavailable"} : AdapterVerdict(reading) \in Verdict
<1>1. NoVerdict \in Verdict
  BY DEF NoVerdict, Verdict, VerificationStatus, ReasonCode, EvidenceSource
<1>2. ASSUME NEW p \in Positions PROVE NoContract(p) \in Verdict
  BY DEF NoContract, Verdict, VerificationStatus, ReasonCode, EvidenceSource
<1>3. ASSUME NEW reading \in Reading, NEW source \in EvidenceSource
      PROVE  Judge(reading, source) \in Verdict
  BY DEF Judge, Reading, Verdict, VerificationStatus, ReasonCode, EvidenceSource
<1>4. ASSUME NEW p \in Positions, NEW reading \in Readings
      PROVE  ObservedVerdict(p, reading) \in Verdict
  <2>1. reading \in Reading /\ "client_reported" \in EvidenceSource
    BY InputsAssumption DEF EvidenceSource
  <2>2. [NoContract(p) EXCEPT !.source = "client_reported"] \in Verdict
    BY <1>2, <2>1 DEF Verdict
  <2>3. QED
    BY <1>3, <2>1, <2>2 DEF ObservedVerdict
<1>5. ASSUME NEW reading \in Readings \cup {"unavailable"}
      PROVE  AdapterVerdict(reading) \in Verdict
  <2>1. CASE reading = "unavailable"
    BY <2>1 DEF AdapterVerdict, Verdict, VerificationStatus, ReasonCode, EvidenceSource
  <2>2. CASE reading # "unavailable"
    BY <1>3, <2>2, InputsAssumption DEF AdapterVerdict, EvidenceSource
  <2>3. QED
    BY <2>1, <2>2
<1>6. QED
  BY <1>1, <1>2, <1>3, <1>4, <1>5

LEMMA OpenedTypes == OpenedRow \in Row /\ Idle \in Request
<1>1. OpenedRow \in Row
  BY StepFacts DEF OpenedRow, Row, SessionStatus, VerificationStatus, NoPosition
<1>2. QED
  BY <1>1, VerdictTypes DEF Idle, Request

LEMMA SaveTypes ==
  ASSUME TypeOK, NEW h \in Handlers, NEW s \in Row, WillSave(h, s)
  PROVE  req' \in [Handlers -> Request]
<1>1. [Idle EXCEPT !.stage = "save", !.session = s] \in Request
  BY OpenedTypes DEF Request
<1>2. QED
  BY <1>1 DEF TypeOK, WillSave

LEMMA RecordTypes ==
  ASSUME TypeOK, NEW h \in Handlers, NEW stage \in {"lookup", "adapter", "number"},
         NEW verdict \in Verdict, NEW token \in Tokens \cup {NoToken},
         NEW resolves \in BOOLEAN, WillRecord(h, stage, verdict, token, resolves)
  PROVE  req' \in [Handlers -> Request]
<1>1. [Idle EXCEPT !.stage = stage, !.session = row, !.verdict = verdict,
                   !.token = token, !.resolves = resolves] \in Request
  BY OpenedTypes DEF TypeOK, Request
<1>2. QED
  BY <1>1 DEF TypeOK, WillRecord

LEMMA ArriveTypes ==
  ASSUME TypeOK, NEW h \in Handlers, Arrive(h)
  PROVE  TypeOK'
<1> USE DEF TypeOK
<1>1. CASE MarkPresented(h)
  BY <1>1, SessionTypes, SaveTypes DEF MarkPresented, WillSave
<1>2. CASE Verify(h)
  <2>1. row.position \in Positions
    BY DEF Row
  <2>2. CASE HasContract(row.position)
    <3>1. WillRecord(h, "adapter", NoVerdict, NoToken, FALSE)
      BY <1>2, <2>2 DEF Verify
    <3>2. QED
      BY <3>1, RecordTypes, VerdictTypes DEF WillRecord
  <2>3. CASE ~ HasContract(row.position)
    <3>1. WillRecord(h, "number", NoContract(row.position), NoToken, FALSE)
      BY <1>2, <2>3 DEF Verify
    <3>2. NoContract(row.position) \in Verdict
      BY <2>1, VerdictTypes
    <3>3. QED
      BY <3>1, <3>2, RecordTypes DEF WillRecord
  <2>4. QED
    BY <2>2, <2>3
<1>3. ASSUME NEW token \in Tokens \cup {NoToken}, NEW reading \in Readings,
             SubmitObservation(h, token, reading)
      PROVE  TypeOK'
  <2> DEFINE stage == IF token \in Unlooked THEN "number" ELSE "lookup"
             verdict == ObservedVerdict(row.position, reading)
  <2>1. stage \in {"lookup", "adapter", "number"} /\ verdict \in Verdict
    BY VerdictTypes DEF Row
  <2>2. WillRecord(h, stage, verdict, token, FALSE)
    BY <1>3 DEF SubmitObservation
  <2> HIDE DEF stage, verdict
  <2>3. QED
    BY <2>1, <2>2, RecordTypes DEF WillRecord
<1>4. ASSUME NEW resolved \in BOOLEAN, Confirm(h, resolved)
      PROVE  TypeOK'
  <2> DEFINE verdict ==
        IF resolved
          THEN [status |-> "user_confirmed", source |-> "user_confirmation",
                reason |-> "user_confirmed_resolved"]
          ELSE [status |-> "verification_failed", source |-> "user_confirmation",
                reason |-> "user_reported_unresolved"]
  <2>1. verdict \in Verdict
    BY DEF Verdict, VerificationStatus, ReasonCode, EvidenceSource
  <2>2. WillRecord(h, "number", verdict, NoToken, resolved)
    BY <1>4 DEF Confirm
  <2> HIDE DEF verdict
  <2>3. QED
    BY <2>1, <2>2, RecordTypes DEF WillRecord
<1>5. ASSUME NEW acknowledge \in BOOLEAN, AdvanceToNext(h, acknowledge)
      PROVE  TypeOK'
  <2> DEFINE upcoming == NextPosition(row.position)
  <2>1. upcoming \in Positions
    BY <1>5, StepFacts DEF AdvanceToNext, Row
  <2>2. /\ WillSave(h, Moved(row, upcoming))
        /\ agreed' = IF acknowledge THEN agreed \cup {upcoming} ELSE agreed
    BY <1>5 DEF AdvanceToNext
  <2>3. Moved(row, upcoming) \in Row
    BY <2>1, SessionTypes
  <2> HIDE DEF upcoming
  <2>4. QED
    BY <2>1, <2>2, <2>3, SaveTypes DEF WillSave
<1>6. CASE AdvancePastEnd(h)
  <2>1. Finished(row, "unresolved", NoPosition) \in Row
    BY SessionTypes DEF SessionStatus, Terminal
  <2>2. QED
    BY <1>6, <2>1, SaveTypes DEF AdvancePastEnd, WillSave
<1>7. ASSUME NEW status \in Asked, Complete(h, status)
      PROVE  TypeOK'
  <2>1. Finished(row, status, NoPosition) \in Row
    BY <1>7, SessionTypes DEF Complete, SessionStatus
  <2>2. QED
    BY <1>7, <2>1, SaveTypes DEF Complete, WillSave
<1>8. QED
  BY <1>1, <1>2, <1>3, <1>4, <1>5, <1>6, <1>7 DEF Arrive

LEMMA ResumeTypes ==
  ASSUME TypeOK, NEW h \in Handlers, Resume(h) \/ Fail(h)
  PROVE  TypeOK'
<1> USE DEF TypeOK
<1>1. CASE FindAttemptByToken(h)
  <2>1. [req[h] EXCEPT !.stage = "number"] \in Request
    BY DEF Request
  <2>2. QED
    BY <1>1, <2>1, OpenedTypes DEF FindAttemptByToken
<1>2. ASSUME NEW reading \in Readings \cup {"unavailable"}, ReadState(h, reading)
      PROVE  TypeOK'
  <2>1. AdapterVerdict(reading) \in Verdict
    BY VerdictTypes
  <2>2. [req[h] EXCEPT !.stage = "number",
                       !.verdict = AdapterVerdict(reading)] \in Request
    BY <2>1 DEF Request
  <2>3. QED
    BY <1>2, <2>2 DEF ReadState
<1>3. CASE NextAttemptNo(h)
  <2>1. PICK n \in 1..(Len(attempts) + 1) :
          req' = [req EXCEPT ![h] = [req[h] EXCEPT !.stage = "insert", !.no = n]]
    BY <1>3 DEF NextAttemptNo
  <2>2. n \in Nat
    OBVIOUS
  <2>3. [req[h] EXCEPT !.stage = "insert", !.no = n] \in Request
    BY <2>2 DEF Request
  <2>4. QED
    BY <1>3, <2>1, <2>3 DEF NextAttemptNo
<1>4. CASE RecordAttempt(h)
  <2> DEFINE session == Recorded(req[h].session, req[h].verdict)
             attempt == [no |-> req[h].no, position |-> req[h].session.position,
                         verdict |-> req[h].verdict, token |-> req[h].token]
             closed == Finished(session, "resolved", session.position)
  <2>1. /\ req[h].session \in Row /\ req[h].verdict \in Verdict
        /\ req[h].session.position \in Positions
        /\ req[h].no \in Nat /\ req[h].token \in Tokens \cup {NoToken}
    BY DEF Request, Row
  <2>2. session \in Row /\ session.position \in Positions
    BY <2>1, SessionTypes DEF Row
  <2>3. attempt \in Attempt
    BY <2>1 DEF Attempt
  <2>4. closed \in Row
    BY <2>2, SessionTypes DEF SessionStatus, Terminal
  <2>5. /\ attempts' = Append(attempts, attempt)
        /\ row' = session
        /\ visited' = visited \cup {session.position}
        /\ req' = [req EXCEPT ![h] =
                     IF req[h].resolves
                       THEN [Idle EXCEPT !.stage = "save", !.session = closed]
                       ELSE Idle]
        /\ UNCHANGED <<agreed, stored>>
    BY <1>4 DEF RecordAttempt
  <2> HIDE DEF session, attempt, closed
  <2>6. [Idle EXCEPT !.stage = "save", !.session = closed] \in Request
    BY <2>4, OpenedTypes DEF Request
  <2>7. attempts' \in Seq(Attempt)
    BY <2>3, <2>5
  <2>8. req' \in [Handlers -> Request]
    BY <2>5, <2>6, OpenedTypes
  <2>9. QED
    BY <2>2, <2>5, <2>7, <2>8
<1>5. CASE InsertRefused(h)
  <2>1. [Idle EXCEPT !.stage = "conflict"] \in Request
    BY OpenedTypes DEF Request
  <2>2. QED
    BY <1>5, <2>1 DEF InsertRefused
<1>6. CASE Respond500(h) \/ Fail(h)
  BY <1>6, OpenedTypes DEF Respond500, Fail
<1>7. CASE Save(h)
  <2>1. req[h].session \in Row /\ req[h].session.position \in Positions
    BY DEF Request, Row
  <2>2. QED
    BY <1>7, <2>1, OpenedTypes DEF Save
<1>8. QED
  BY <1>1, <1>2, <1>3, <1>4, <1>5, <1>6, <1>7 DEF Resume

LEMMA PurgeTypes ==
  ASSUME TypeOK, Purge
  PROVE  TypeOK'
<1>1. [Idle EXCEPT !.stage = "conflict"] \in Request
  BY OpenedTypes DEF Request
<1>2. QED
  BY <1>1 DEF Purge, TypeOK

(* Whatever requests interleave, wherever they fail and whenever the cache *)
(* is purged, the stored row, the attempts and the sessions held in memory *)
(* keep their types: a save never writes a value the columns or their      *)
(* CHECKs would refuse.                                                    *)
THEOREM TypeCorrect == Spec => []TypeOK
<1>1. Init => TypeOK
  BY StepFacts, OpenedTypes DEF Init, TypeOK
<1>2. TypeOK /\ [Next]_vars => TypeOK'
  <2> SUFFICES ASSUME TypeOK, [Next]_vars PROVE TypeOK'
    OBVIOUS
  <2>1. CASE Next
    BY <2>1, ArriveTypes, ResumeTypes, PurgeTypes DEF Next
  <2>2. CASE UNCHANGED vars
    BY <2>2 DEF vars, TypeOK
  <2>3. QED
    BY <2>1, <2>2
<1>3. QED
  BY <1>1, <1>2, PTL DEF Spec
-----------------------------------------------------------------------------
(***************************************************************************)
(* Safety under any interleaving.  Requests overwrite the row with stale   *)
(* copies, so no property of the row alone is inductive: the invariant     *)
(* says of every session held in memory what it says of the stored one,    *)
(* relative to state that only grows (the attempts, the acknowledgements,  *)
(* the positions visited).                                                 *)
(***************************************************************************)
Recording(q) == q.stage \in {"lookup", "adapter", "number", "insert"}
Holding(q) == Recording(q) \/ q.stage = "save"

\* A session is backed by the log of attempts, the agreed and the visited.
Evidenced(s, log) ==
  s.verification # "pending" =>
    \E i \in 1..Len(log) : /\ log[i].position = s.position
                           /\ log[i].verdict.status = s.verification
                           /\ log[i].verdict.reason = s.reason

FixConfirmed(s, log) ==
  s.resolved_action # NoPosition =>
    /\ s.status = "resolved"
    /\ \E i \in 1..Len(log) : /\ log[i].position = s.resolved_action
                              /\ log[i].verdict.status = "user_confirmed"

AgreedTo(p, ag) == p # 1 /\ Steps[p].critical => p \in ag

Reached(p, vis) == p \in vis \/ (p # 1 /\ p - 1 \in vis)

Backed(s, log, ag, vis) ==
  /\ Evidenced(s, log)
  /\ FixConfirmed(s, log)
  /\ AgreedTo(s.position, ag)
  /\ Reached(s.position, vis)
  /\ s.completed <=> s.status \in Terminal

Earned(v, p) ==
  v.status = "system_verified" => v.source = "trusted_adapter" /\ HasContract(p)

\* What a request that will record an attempt holds.
MayRecord(q, vis) ==
  /\ RequireActive(q.session)
  /\ q.session.position \in vis
  /\ Earned(q.verdict, q.session.position)
  /\ q.stage = "adapter" => HasContract(q.session.position)
  /\ q.resolves => q.verdict.status = "user_confirmed" /\ q.stage # "adapter"

Sound(q, log, ag, vis) ==
  /\ Holding(q) => Backed(q.session, log, ag, vis)
  /\ Recording(q) => MayRecord(q, vis)

Closed(vis) == \A p \in vis : 1..p \subseteq vis

LogSound(log, ag) ==
  \A i \in 1..Len(log) : /\ AgreedTo(log[i].position, ag)
                         /\ Earned(log[i].verdict, log[i].position)

IInv ==
  /\ TypeOK
  /\ row.position \in visited
  /\ Closed(visited)
  /\ Backed(row, attempts, agreed, visited)
  /\ \A h \in Handlers : Sound(req[h], attempts, agreed, visited)
  /\ LogSound(attempts, agreed)
  /\ OneAttemptPerToken
-----------------------------------------------------------------------------
(* What is backed stays backed as the state it rests on grows.             *)
LEMMA BackedGrows ==
  ASSUME NEW s \in Row, NEW log, NEW log2, NEW ag, NEW ag2, NEW vis, NEW vis2,
         Backed(s, log, ag, vis),
         \A i \in 1..Len(log) : i \in 1..Len(log2) /\ log2[i] = log[i],
         ag \subseteq ag2, vis \subseteq vis2
  PROVE  Backed(s, log2, ag2, vis2)
<1>1. Evidenced(s, log2)
  BY DEF Backed, Evidenced
<1>2. FixConfirmed(s, log2)
  BY DEF Backed, FixConfirmed
<1>3. AgreedTo(s.position, ag2) /\ Reached(s.position, vis2)
  BY DEF Backed, AgreedTo, Reached
<1>4. QED
  BY <1>1, <1>2, <1>3 DEF Backed

LEMMA ActiveHasNoFix ==
  ASSUME NEW s \in Row, NEW log, FixConfirmed(s, log), RequireActive(s)
  PROVE  s.resolved_action = NoPosition
BY DEF FixConfirmed, RequireActive, Terminal

(* Each operation keeps an active session backed.                          *)
LEMMA PresentedBacked ==
  ASSUME NEW s \in Row, NEW log, NEW ag, NEW vis, Backed(s, log, ag, vis),
         RequireActive(s)
  PROVE  Backed(Presented(s), log, ag, vis)
<1> DEFINE t == Presented(s)
<1>1. /\ t.position = s.position /\ t.verification = s.verification
      /\ t.reason = s.reason /\ t.resolved_action = s.resolved_action
      /\ t.completed = s.completed /\ t.status = "in_progress"
  BY DEF Presented, Row
<1>2. t.resolved_action = NoPosition /\ ~ t.completed
  BY <1>1, ActiveHasNoFix DEF Backed, RequireActive, Row
<1>3. t.status \notin Terminal
  BY <1>1 DEF Terminal
<1> HIDE DEF t
<1>4. Evidenced(t, log) /\ FixConfirmed(t, log)
  BY <1>1, <1>2 DEF Backed, Evidenced, FixConfirmed
<1>5. Backed(t, log, ag, vis)
  BY <1>1, <1>2, <1>3, <1>4 DEF Backed
<1>6. QED
  BY <1>5 DEF t

LEMMA MovedBacked ==
  ASSUME NEW s \in Row, NEW log, NEW ag, NEW ag2, NEW vis,
         Backed(s, log, ag, vis), RequireActive(s), s.position \in vis,
         NEW p \in Positions, p = s.position + 1, AgreedTo(p, ag2)
  PROVE  Backed(Moved(s, p), log, ag2, vis)
<1> DEFINE t == Moved(s, p)
<1>1. /\ t.position = p /\ t.verification = "pending"
      /\ t.resolved_action = s.resolved_action
      /\ t.completed = s.completed /\ t.status = "in_progress"
  BY DEF Moved, Row
<1>2. t.resolved_action = NoPosition /\ ~ t.completed
  BY <1>1, ActiveHasNoFix DEF Backed, RequireActive, Row
<1>3. t.status \notin Terminal
  BY <1>1 DEF Terminal
<1>4. Reached(p, vis)
  BY StepFacts DEF Reached, Row, Positions
<1> HIDE DEF t
<1>5. Evidenced(t, log) /\ FixConfirmed(t, log)
  BY <1>1, <1>2 DEF Evidenced, FixConfirmed
<1>6. Backed(t, log, ag2, vis)
  BY <1>1, <1>2, <1>3, <1>4, <1>5 DEF Backed
<1>7. QED
  BY <1>6 DEF t

LEMMA FinishedBacked ==
  ASSUME NEW s \in Row, NEW log, NEW ag, NEW vis,
         Backed(s, log, ag, vis), RequireActive(s), NEW status \in Terminal
  PROVE  Backed(Finished(s, status, NoPosition), log, ag, vis)
<1> DEFINE t == Finished(s, status, NoPosition)
<1>1. /\ t.position = s.position /\ t.verification = s.verification
      /\ t.reason = s.reason /\ t.completed /\ t.status = status
      /\ t.resolved_action = s.resolved_action
  BY DEF Finished, Row
<1>2. t.resolved_action = NoPosition
  BY <1>1, ActiveHasNoFix DEF Backed
<1> HIDE DEF t
<1>3. Evidenced(t, log) /\ FixConfirmed(t, log)
  BY <1>1, <1>2 DEF Backed, Evidenced, FixConfirmed
<1>4. Backed(t, log, ag, vis)
  BY <1>1, <1>3 DEF Backed
<1>5. QED
  BY <1>4 DEF t

(* A session saved with its new attempt is backed by it, and may then be   *)
(* closed as fixed by the action that was confirmed.                       *)
LEMMA RecordedBacked ==
  ASSUME NEW s \in Row, NEW log \in Seq(Attempt), NEW ag, NEW vis,
         Backed(s, log, ag, vis), RequireActive(s),
         NEW a \in Attempt, a.position = s.position
  PROVE  LET t == Recorded(s, a.verdict)
         IN  /\ t.position = s.position
             /\ RequireActive(t)
             /\ Backed(t, Append(log, a), ag, vis)
             /\ a.verdict.status = "user_confirmed" =>
                  Backed(Finished(t, "resolved", t.position), Append(log, a), ag, vis)
<1> DEFINE t == Recorded(s, a.verdict)
           u == Finished(t, "resolved", t.position)
           log2 == Append(log, a)
<1>1. /\ t \in Row /\ t.position = s.position
      /\ t.verification = a.verdict.status /\ t.reason = a.verdict.reason
      /\ t.resolved_action = s.resolved_action /\ t.completed = s.completed
      /\ t.status = IF s.status = "pending" THEN "in_progress" ELSE s.status
  BY SessionTypes DEF Recorded, Row, Attempt
<1>2. t.resolved_action = NoPosition /\ ~ t.completed
  BY <1>1, ActiveHasNoFix DEF Backed, RequireActive, Row
<1>3. t.status \notin Terminal /\ RequireActive(t)
  BY <1>1 DEF Terminal, RequireActive
<1>4. /\ Len(log) \in Nat /\ Len(log2) = Len(log) + 1
      /\ log2[Len(log) + 1] = a
  OBVIOUS
<1>5. t.position \in Positions /\ t.position # NoPosition
  BY <1>1, StepFacts DEF Row
<1>6. /\ u.position = t.position /\ u.verification = t.verification
      /\ u.reason = t.reason /\ u.completed /\ u.status = "resolved"
      /\ u.resolved_action = t.position
  BY <1>1, <1>5 DEF Finished, Row
<1> HIDE DEF t, u, log2
<1>7. Evidenced(t, log2) /\ Evidenced(u, log2)
  BY <1>1, <1>4, <1>6 DEF Evidenced
<1>8. FixConfirmed(t, log2)
  BY <1>2 DEF FixConfirmed
<1>9. Backed(t, log2, ag, vis)
  BY <1>1, <1>2, <1>3, <1>7, <1>8 DEF Backed
<1>10. ASSUME a.verdict.status = "user_confirmed" PROVE Backed(u, log2, ag, vis)
  <2>1. FixConfirmed(u, log2)
    BY <1>1, <1>4, <1>6, <1>10 DEF FixConfirmed
  <2>2. QED
    BY <1>6, <1>7, <1>9, <2>1 DEF Backed, Terminal
<1>11. QED
  BY <1>1, <1>3, <1>9, <1>10 DEF t, u, log2
-----------------------------------------------------------------------------
(* What a step owes: the slot that moves stays sound, the others follow    *)
(* from what only grew.  A step either leaves the row alone ...            *)
LEMMA SoundGrows ==
  ASSUME NEW q \in Request, NEW log, NEW log2, NEW ag, NEW ag2, NEW vis, NEW vis2,
         Sound(q, log, ag, vis),
         \A i \in 1..Len(log) : i \in 1..Len(log2) /\ log2[i] = log[i],
         ag \subseteq ag2, vis \subseteq vis2
  PROVE  Sound(q, log2, ag2, vis2)
<1>1. q.session \in Row
  BY DEF Request
<1>2. Holding(q) => Backed(q.session, log2, ag2, vis2)
  BY <1>1, BackedGrows DEF Sound
<1>3. Recording(q) => MayRecord(q, vis2)
  BY DEF Sound, MayRecord
<1>4. QED
  BY <1>2, <1>3 DEF Sound

LEMMA SlotStep ==
  ASSUME IInv, TypeOK', NEW h \in Handlers, NEW q, req' = [req EXCEPT ![h] = q],
         UNCHANGED <<row, attempts, visited>>, agreed \subseteq agreed',
         Sound(q, attempts, agreed', visited)
  PROVE  IInv'
<1>1. row \in Row /\ \A g \in Handlers : req[g] \in Request
  BY DEF IInv, TypeOK
<1>2. Backed(row, attempts, agreed', visited)
  BY <1>1, BackedGrows DEF IInv
<1>3. ASSUME NEW g \in Handlers PROVE Sound(req'[g], attempts, agreed', visited)
  <2>1. CASE g = h
    BY <2>1 DEF IInv, TypeOK
  <2>2. CASE g # h
    <3>1. Sound(req[g], attempts, agreed', visited)
      BY <1>1, SoundGrows DEF IInv
    <3>2. QED
      BY <2>2, <3>1 DEF IInv, TypeOK
  <2>3. QED
    BY <2>1, <2>2
<1>4. LogSound(attempts, agreed')
  BY DEF IInv, LogSound, AgreedTo
<1>5. OneAttemptPerToken'
  BY DEF IInv, OneAttemptPerToken
<1>6. QED
  BY <1>2, <1>3, <1>4, <1>5 DEF IInv, Sound

(* ... or writes a session that is backed by the state it is written in.   *)
LEMMA WriteStep ==
  ASSUME IInv, TypeOK', NEW h \in Handlers, NEW q, req' = [req EXCEPT ![h] = q],
         NEW s \in Row, row' = s, visited' = visited \cup {s.position},
         UNCHANGED agreed,
         \A i \in 1..Len(attempts) :
           i \in 1..Len(attempts') /\ attempts'[i] = attempts[i],
         Backed(s, attempts', agreed, visited),
         Sound(q, attempts', agreed, visited'),
         LogSound(attempts', agreed), OneAttemptPerToken'
  PROVE  IInv'
<1>1. row \in Row /\ \A g \in Handlers : req[g] \in Request
  BY DEF IInv, TypeOK
<1>2. Backed(s, attempts', agreed', visited')
  BY BackedGrows
<1>3. ASSUME NEW g \in Handlers PROVE Sound(req'[g], attempts', agreed', visited')
  <2>1. CASE g = h
    BY <2>1 DEF IInv, TypeOK
  <2>2. CASE g # h
    <3>1. Sound(req[g], attempts', agreed', visited')
      BY <1>1, SoundGrows DEF IInv
    <3>2. QED
      BY <2>2, <3>1 DEF IInv, TypeOK
  <2>3. QED
    BY <2>1, <2>2
<1>4. Closed(visited')
  <2>1. ASSUME NEW p \in visited' PROVE 1..p \subseteq visited'
    <3>1. CASE p \in visited
      BY <3>1 DEF IInv, Closed
    <3>2. CASE p = s.position /\ p # 1 /\ p - 1 \in visited
      <4>1. 1..(p - 1) \subseteq visited
        BY <3>2 DEF IInv, Closed
      <4>2. p \in Nat
        BY <3>2, StepFacts DEF Row
      <4>3. QED
        BY <3>2, <4>1, <4>2
    <3>3. CASE p = s.position /\ p = 1
      BY <3>3
    <3>4. QED
      BY <3>1, <3>2, <3>3 DEF Backed, Reached
  <2>2. QED
    BY <2>1 DEF Closed
<1>5. QED
  BY <1>2, <1>3, <1>4 DEF IInv
-----------------------------------------------------------------------------
(* Requests arriving: the session they load is the stored one.             *)
LEMMA SavingSound ==
  ASSUME NEW s, NEW log, NEW ag, NEW vis, Backed(s, log, ag, vis)
  PROVE  Sound([Idle EXCEPT !.stage = "save", !.session = s], log, ag, vis)
BY DEF Sound, Holding, Recording, Idle

LEMMA RecordingStep ==
  ASSUME IInv, TypeOK', NEW h \in Handlers, Loads(h),
         NEW stage \in {"lookup", "adapter", "number"}, NEW verdict, NEW token,
         NEW resolves, WillRecord(h, stage, verdict, token, resolves),
         Earned(verdict, row.position),
         stage = "adapter" => HasContract(row.position),
         resolves => verdict.status = "user_confirmed" /\ stage # "adapter"
  PROVE  IInv'
<1> DEFINE q == [Idle EXCEPT !.stage = stage, !.session = row,
                    !.verdict = verdict, !.token = token, !.resolves = resolves]
<1>1. /\ q.stage = stage /\ q.session = row /\ q.verdict = verdict
      /\ q.resolves = resolves
  BY DEF Idle
<1>2. /\ req' = [req EXCEPT ![h] = q]
      /\ UNCHANGED <<row, attempts, agreed, visited>>
  BY DEF WillRecord
<1> HIDE DEF q
<1>3. MayRecord(q, visited)
  BY <1>1 DEF MayRecord, Loads, IInv
<1>4. Sound(q, attempts, agreed', visited)
  BY <1>1, <1>2, <1>3 DEF Sound, IInv
<1>5. QED
  BY <1>2, <1>4, SlotStep

LEMMA SavingStep ==
  ASSUME IInv, TypeOK', NEW h \in Handlers, NEW s, WillSave(h, s),
         agreed \subseteq agreed', Backed(s, attempts, agreed', visited)
  PROVE  IInv'
<1> DEFINE q == [Idle EXCEPT !.stage = "save", !.session = s]
<1>1. Sound(q, attempts, agreed', visited)
  BY SavingSound
<1>2. /\ req' = [req EXCEPT ![h] = q]
      /\ UNCHANGED <<row, attempts, visited>>
  BY DEF WillSave
<1> HIDE DEF q
<1>3. QED
  BY <1>1, <1>2, SlotStep

LEMMA ArriveKeeps ==
  ASSUME IInv, NEW h \in Handlers, Arrive(h)
  PROVE  IInv'
<1>1. TypeOK'
  BY ArriveTypes DEF IInv
<1>2. /\ row \in Row /\ row.position \in visited
      /\ Backed(row, attempts, agreed, visited)
  BY DEF IInv, TypeOK
<1>3. CASE MarkPresented(h)
  <2>1. WillSave(h, Presented(row)) /\ UNCHANGED agreed /\ RequireActive(row)
    BY <1>3 DEF MarkPresented, Loads
  <2>2. Backed(Presented(row), attempts, agreed', visited)
    BY <1>2, <2>1, PresentedBacked
  <2>3. QED
    BY <1>1, <2>1, <2>2, SavingStep
<1>4. CASE Verify(h)
  <2>1. CASE HasContract(row.position)
    <3>1. Loads(h) /\ WillRecord(h, "adapter", NoVerdict, NoToken, FALSE)
      BY <1>4, <2>1 DEF Verify
    <3>2. Earned(NoVerdict, row.position)
      BY DEF Earned, NoVerdict
    <3>3. QED
      BY <1>1, <2>1, <3>1, <3>2, RecordingStep
  <2>2. CASE ~ HasContract(row.position)
    <3> DEFINE verdict == NoContract(row.position)
    <3>1. Loads(h) /\ WillRecord(h, "number", verdict, NoToken, FALSE)
      BY <1>4, <2>2 DEF Verify
    <3>2. Earned(verdict, row.position)
      BY DEF Earned, NoContract
    <3> HIDE DEF verdict
    <3>3. QED
      BY <1>1, <3>1, <3>2, RecordingStep
  <2>3. QED
    BY <2>1, <2>2
<1>5. ASSUME NEW token \in Tokens \cup {NoToken}, NEW reading \in Readings,
             SubmitObservation(h, token, reading)
      PROVE  IInv'
  <2> DEFINE stage == IF token \in Unlooked THEN "number" ELSE "lookup"
             verdict == ObservedVerdict(row.position, reading)
  <2>1. Loads(h) /\ WillRecord(h, stage, verdict, token, FALSE)
    BY <1>5 DEF SubmitObservation
  <2>2. Earned(verdict, row.position)
    <3>1. Judge(reading, "client_reported").status # "system_verified"
      BY InputsAssumption DEF Judge, Reading
    <3>2. [NoContract(row.position) EXCEPT !.source = "client_reported"].status
            # "system_verified"
      BY DEF NoContract
    <3>3. QED
      BY <3>1, <3>2 DEF Earned, ObservedVerdict
  <2>3. stage \in {"lookup", "number"}
    OBVIOUS
  <2> HIDE DEF stage, verdict
  <2>4. QED
    BY <1>1, <2>1, <2>2, <2>3, RecordingStep
<1>6. ASSUME NEW resolved \in BOOLEAN, Confirm(h, resolved)
      PROVE  IInv'
  <2> DEFINE verdict ==
        IF resolved
          THEN [status |-> "user_confirmed", source |-> "user_confirmation",
                reason |-> "user_confirmed_resolved"]
          ELSE [status |-> "verification_failed", source |-> "user_confirmation",
                reason |-> "user_reported_unresolved"]
  <2>1. Loads(h) /\ WillRecord(h, "number", verdict, NoToken, resolved)
    BY <1>6 DEF Confirm
  <2>2. /\ Earned(verdict, row.position)
        /\ resolved => verdict.status = "user_confirmed"
    BY DEF Earned
  <2> HIDE DEF verdict
  <2>3. QED
    BY <1>1, <2>1, <2>2, RecordingStep
<1>7. ASSUME NEW acknowledge \in BOOLEAN, AdvanceToNext(h, acknowledge)
      PROVE  IInv'
  <2> DEFINE upcoming == NextPosition(row.position)
  <2>1. /\ RequireActive(row) /\ upcoming # NoPosition
        /\ Steps[upcoming].critical => acknowledge
        /\ WillSave(h, Moved(row, upcoming))
        /\ agreed' = IF acknowledge THEN agreed \cup {upcoming} ELSE agreed
    BY <1>7 DEF AdvanceToNext, Loads, Permitted
  <2>2. upcoming \in Positions /\ upcoming = row.position + 1
    BY <1>2, <2>1, StepFacts DEF Row
  <2>3. AgreedTo(upcoming, agreed') /\ agreed \subseteq agreed'
    BY <2>1 DEF AgreedTo
  <2> HIDE DEF upcoming
  <2>4. Backed(Moved(row, upcoming), attempts, agreed', visited)
    BY <1>2, <2>1, <2>2, <2>3, MovedBacked
  <2>5. QED
    BY <1>1, <2>1, <2>3, <2>4, SavingStep
<1>8. CASE AdvancePastEnd(h)
  <2>1. /\ WillSave(h, Finished(row, "unresolved", NoPosition))
        /\ UNCHANGED agreed /\ RequireActive(row)
    BY <1>8 DEF AdvancePastEnd, Loads
  <2>2. Backed(Finished(row, "unresolved", NoPosition), attempts, agreed', visited)
    BY <1>2, <2>1, FinishedBacked DEF Terminal
  <2>3. QED
    BY <1>1, <2>1, <2>2, SavingStep
<1>9. ASSUME NEW status \in Asked, Complete(h, status)
      PROVE  IInv'
  <2>1. /\ WillSave(h, Finished(row, status, NoPosition))
        /\ UNCHANGED agreed /\ RequireActive(row) /\ status \in Terminal
    BY <1>9 DEF Complete, Loads
  <2>2. Backed(Finished(row, status, NoPosition), attempts, agreed', visited)
    BY <1>2, <2>1, FinishedBacked
  <2>3. QED
    BY <1>1, <2>1, <2>2, SavingStep
<1>10. QED
  BY <1>3, <1>4, <1>5, <1>6, <1>7, <1>8, <1>9 DEF Arrive
-----------------------------------------------------------------------------
(* Requests resuming, or failing where they were suspended.                *)
LEMMA IdleSound ==
  ASSUME NEW log, NEW ag, NEW vis
  PROVE  /\ Sound(Idle, log, ag, vis)
         /\ Sound([Idle EXCEPT !.stage = "conflict"], log, ag, vis)
BY DEF Sound, Holding, Recording, Idle

(* A request that goes on to the next recording stage holds what it held.  *)
LEMMA NextStageSound ==
  ASSUME NEW q, NEW t, NEW log, NEW ag, NEW vis, Sound(q, log, ag, vis),
         Recording(q), t.stage \in {"number", "insert"},
         t.session = q.session, t.resolves = q.resolves,
         Earned(t.verdict, t.session.position),
         t.resolves => t.verdict.status = "user_confirmed"
  PROVE  Sound(t, log, ag, vis)
BY DEF Sound, Holding, Recording, MayRecord

LEMMA RecordKeeps ==
  ASSUME IInv, NEW h \in Handlers, RecordAttempt(h)
  PROVE  IInv'
<1> DEFINE r == req[h]
           a == [no |-> r.no, position |-> r.session.position,
                 verdict |-> r.verdict, token |-> r.token]
           t == Recorded(r.session, r.verdict)
           u == Finished(t, "resolved", t.position)
           q == IF r.resolves THEN [Idle EXCEPT !.stage = "save", !.session = u]
                              ELSE Idle
           log == Append(attempts, a)
<1>1. TypeOK'
  BY ResumeTypes DEF IInv, Resume
<1>2. /\ r.stage = "insert" /\ ~ Taken(r.token)
      /\ attempts' = log /\ row' = t
      /\ visited' = visited \cup {t.position}
      /\ req' = [req EXCEPT ![h] = q] /\ UNCHANGED agreed
  BY DEF RecordAttempt
<1>3. /\ r.session \in Row /\ a \in Attempt /\ attempts \in Seq(Attempt)
      /\ a.position = r.session.position /\ a.verdict = r.verdict
      /\ a.token = r.token /\ r.verdict \in Verdict
  BY DEF IInv, TypeOK, Request, Attempt, Row
<1>4. /\ Backed(r.session, attempts, agreed, visited)
      /\ MayRecord(r, visited)
  BY <1>2 DEF IInv, Sound, Holding, Recording
<1>5. /\ t.position = r.session.position
      /\ Backed(t, log, agreed, visited)
      /\ r.verdict.status = "user_confirmed" => Backed(u, log, agreed, visited)
  BY <1>3, <1>4, RecordedBacked DEF MayRecord
<1>6. t \in Row
  BY <1>3, SessionTypes
<1>7. /\ Len(attempts) \in Nat /\ Len(log) = Len(attempts) + 1
      /\ log[Len(log)] = a
      /\ \A i \in 1..Len(attempts) : i \in 1..Len(log) /\ log[i] = attempts[i]
  BY <1>3
<1> HIDE DEF a, t, u, log
<1>8. Sound(q, log, agreed, visited')
  <2>1. CASE r.resolves
    <3>1. u \in Row
      BY <1>6, SessionTypes DEF u, SessionStatus, Terminal, Row
    <3>2. Backed(u, log, agreed, visited)
      BY <1>4, <1>5, <2>1 DEF MayRecord
    <3>3. Backed(u, log, agreed, visited')
      BY <1>2, <3>1, <3>2, BackedGrows
    <3>4. QED
      BY <2>1, <3>3, SavingSound
  <2>2. CASE ~ r.resolves
    BY <2>2, IdleSound
  <2>3. QED
    BY <2>1, <2>2
<1>9. LogSound(log, agreed)
  <2>1. AgreedTo(a.position, agreed) /\ Earned(a.verdict, a.position)
    BY <1>3, <1>4 DEF Backed, MayRecord
  <2>2. LogSound(attempts, agreed)
    BY DEF IInv
  <2>3. QED
    BY <1>7, <2>1, <2>2 DEF LogSound
<1>10. OneAttemptPerToken'
  <2>1. a.token # NoToken => \A i \in 1..Len(attempts) : attempts[i].token # a.token
    BY <1>2, <1>3 DEF Taken, Recorder
  <2>2. OneAttemptPerToken
    BY DEF IInv
  <2>3. QED
    BY <1>2, <1>7, <2>1, <2>2 DEF OneAttemptPerToken
<1> HIDE DEF q, r
<1>11. QED
  BY <1>1, <1>2, <1>5, <1>6, <1>7, <1>8, <1>9, <1>10, WriteStep

LEMMA ResumeKeeps ==
  ASSUME IInv, NEW h \in Handlers, Resume(h) \/ Fail(h)
  PROVE  IInv'
<1>1. TypeOK'
  BY ResumeTypes DEF IInv
<1>2. req[h] \in Request /\ Sound(req[h], attempts, agreed, visited)
  BY DEF IInv, TypeOK
<1>3. CASE FindAttemptByToken(h)
  <2> DEFINE t == [req[h] EXCEPT !.stage = "number"]
  <2>1. /\ t.stage = "number" /\ t.session = req[h].session
        /\ t.resolves = req[h].resolves /\ t.verdict = req[h].verdict
    BY <1>2 DEF Request
  <2>2. /\ Recording(req[h]) /\ UNCHANGED <<row, attempts, agreed, visited>>
        /\ req' = [req EXCEPT ![h] = t] \/ req' = [req EXCEPT ![h] = Idle]
    BY <1>3 DEF FindAttemptByToken, Recording
  <2> HIDE DEF t
  <2>3. Sound(t, attempts, agreed, visited)
    BY <1>2, <2>1, <2>2, NextStageSound DEF Sound, MayRecord
  <2>4. QED
    BY <1>1, <2>2, <2>3, IdleSound, SlotStep
<1>4. ASSUME NEW reading \in Readings \cup {"unavailable"}, ReadState(h, reading)
      PROVE  IInv'
  <2> DEFINE t == [req[h] EXCEPT !.stage = "number",
                                 !.verdict = AdapterVerdict(reading)]
  <2>1. /\ t.stage = "number" /\ t.session = req[h].session
        /\ t.resolves = req[h].resolves /\ t.verdict = AdapterVerdict(reading)
    BY <1>2 DEF Request
  <2>2. /\ req[h].stage = "adapter" /\ req' = [req EXCEPT ![h] = t]
        /\ UNCHANGED <<row, attempts, agreed, visited>>
    BY <1>4 DEF ReadState
  <2> HIDE DEF t
  <2>3. /\ Recording(req[h]) /\ HasContract(req[h].session.position)
        /\ ~ req[h].resolves
    BY <1>2, <2>2 DEF Sound, Recording, MayRecord
  <2>4. AdapterVerdict(reading).status = "system_verified" =>
          AdapterVerdict(reading).source = "trusted_adapter"
    BY DEF AdapterVerdict, Judge
  <2>5. Sound(t, attempts, agreed, visited)
    BY <1>2, <2>1, <2>3, <2>4, NextStageSound DEF Earned
  <2>6. QED
    BY <1>1, <2>2, <2>5, SlotStep
<1>5. CASE NextAttemptNo(h)
  <2>1. PICK n \in 1..(Len(attempts) + 1) :
          req' = [req EXCEPT ![h] = [req[h] EXCEPT !.stage = "insert", !.no = n]]
    BY <1>5 DEF NextAttemptNo
  <2> DEFINE t == [req[h] EXCEPT !.stage = "insert", !.no = n]
  <2>2. /\ t.stage = "insert" /\ t.session = req[h].session
        /\ t.resolves = req[h].resolves /\ t.verdict = req[h].verdict
    BY <1>2 DEF Request
  <2>3. /\ Recording(req[h]) /\ req' = [req EXCEPT ![h] = t]
        /\ UNCHANGED <<row, attempts, agreed, visited>>
    BY <1>5, <2>1 DEF NextAttemptNo, Recording
  <2> HIDE DEF t
  <2>4. Sound(t, attempts, agreed, visited)
    BY <1>2, <2>2, <2>3, NextStageSound DEF Sound, MayRecord
  <2>5. QED
    BY <1>1, <2>3, <2>4, SlotStep
<1>6. CASE RecordAttempt(h)
  BY <1>6, RecordKeeps
<1>7. CASE InsertRefused(h)
  BY <1>1, <1>7, IdleSound, SlotStep DEF InsertRefused
<1>8. CASE Respond500(h) \/ Fail(h)
  BY <1>1, <1>8, IdleSound, SlotStep DEF Respond500, Fail
<1>9. CASE Save(h)
  <2>1. /\ req[h].stage = "save" /\ req[h].session \in Row
        /\ Backed(req[h].session, attempts, agreed, visited)
    BY <1>2, <1>9 DEF Save, Sound, Holding, Request
  <2>2. req' = [req EXCEPT ![h] = Idle] /\ UNCHANGED <<attempts, agreed>>
    BY <1>9 DEF Save
  <2>3. CASE stored
    <3>1. /\ row' = req[h].session
          /\ visited' = visited \cup {req[h].session.position}
      BY <1>9, <2>3 DEF Save
    <3>2. LogSound(attempts', agreed) /\ OneAttemptPerToken'
      BY <2>2 DEF IInv, OneAttemptPerToken
    <3>3. QED
      BY <1>1, <2>1, <2>2, <3>1, <3>2, IdleSound, WriteStep
  <2>4. CASE ~ stored
    <3>1. UNCHANGED <<row, visited>>
      BY <1>9, <2>4 DEF Save
    <3>2. QED
      BY <1>1, <2>2, <3>1, IdleSound, SlotStep
  <2>5. QED
    BY <2>3, <2>4
<1>10. QED
  BY <1>3, <1>4, <1>5, <1>6, <1>7, <1>8, <1>9 DEF Resume

(* A purge takes the rows and ends the inserts; what was true of the other *)
(* requests, and of what the rows last held, stays true.                   *)
LEMMA PurgeKeeps ==
  ASSUME IInv, Purge
  PROVE  IInv'
<1>1. TypeOK'
  BY PurgeTypes DEF IInv
<1>2. UNCHANGED <<row, attempts, agreed, visited>>
  BY DEF Purge
<1>3. ASSUME NEW h \in Handlers
      PROVE  Sound(req'[h], attempts, agreed, visited)
  <2>1. \/ req'[h] = req[h]
        \/ req'[h] = [Idle EXCEPT !.stage = "conflict"]
    BY DEF Purge
  <2>2. QED
    BY <2>1, IdleSound DEF IInv
<1>4. OneAttemptPerToken'
  BY <1>2 DEF IInv, OneAttemptPerToken
<1>5. QED
  BY <1>1, <1>2, <1>3, <1>4 DEF IInv
-----------------------------------------------------------------------------
(* The inductive invariant holds of every behaviour.                       *)
THEOREM Invariance == Spec => []IInv
<1>1. Init => IInv
  <2> SUFFICES ASSUME Init PROVE IInv
    OBVIOUS
  <2>1. TypeOK
    BY StepFacts, OpenedTypes DEF Init, TypeOK
  <2>2. row.position \in visited /\ Closed(visited)
    BY DEF Init, OpenedRow, Closed
  <2>3. Backed(row, attempts, agreed, visited)
    BY DEF Init, OpenedRow, Backed, Evidenced, FixConfirmed, AgreedTo, Reached,
           Terminal
  <2>4. \A h \in Handlers : Sound(req[h], attempts, agreed, visited)
    BY IdleSound DEF Init
  <2>5. LogSound(attempts, agreed) /\ OneAttemptPerToken
    BY DEF Init, LogSound, OneAttemptPerToken
  <2>6. QED
    BY <2>1, <2>2, <2>3, <2>4, <2>5 DEF IInv
<1>2. IInv /\ [Next]_vars => IInv'
  <2> SUFFICES ASSUME IInv, [Next]_vars PROVE IInv'
    OBVIOUS
  <2>1. CASE Next
    BY <2>1, ArriveKeeps, ResumeKeeps, PurgeKeeps DEF Next
  <2>2. CASE UNCHANGED vars
    BY <2>2 DEF vars, IInv, TypeOK, OneAttemptPerToken
  <2>3. QED
    BY <2>1, <2>2
<1>3. QED
  BY <1>1, <1>2, PTL DEF Spec

(* What a session shows rests on an attempt made at the step under its     *)
(* cursor, however many stale copies of the row are written.               *)
THEOREM StatusAlwaysRestsOnEvidence == Spec => []StatusRestsOnEvidence
<1>1. IInv => StatusRestsOnEvidence
  BY DEF IInv, Backed, Evidenced, StatusRestsOnEvidence
<1>2. QED
  BY <1>1, Invariance, PTL

(* No number of resubmissions records a token twice.                       *)
THEOREM TokensRecordOnce == Spec => []OneAttemptPerToken
<1>1. IInv => OneAttemptPerToken
  BY DEF IInv
<1>2. QED
  BY <1>1, Invariance, PTL

(* No critical step past the first is entered, or has evidence recorded    *)
(* against it, without a request that acknowledged it.                     *)
THEOREM CriticalAlwaysAgreed == Spec => []CriticalIsAgreed
<1>1. IInv => CriticalIsAgreed
  BY DEF IInv, Backed, LogSound, AgreedTo, CriticalIsAgreed
<1>2. QED
  BY <1>1, Invariance, PTL

(* The cursor only ever stands on a step all of whose predecessors it has  *)
(* stood on.                                                               *)
THEOREM NothingEverSkipped == Spec => []NothingSkipped
<1>1. IInv => NothingSkipped
  BY DEF IInv, Closed, NothingSkipped
<1>2. QED
  BY <1>1, Invariance, PTL

(* A session names a resolved action only when it is resolved and the user *)
(* confirmed that action.                                                  *)
THEOREM FixAlwaysConfirmed == Spec => []ResolvedActionConfirmed
<1>1. IInv => ResolvedActionConfirmed
  BY DEF IInv, Backed, FixConfirmed, ResolvedActionConfirmed
<1>2. QED
  BY <1>1, Invariance, PTL

(* system_verified is claimed only on the server's own reading of a step   *)
(* that has a complete contract.                                           *)
THEOREM VerifiedAlwaysRead == Spec => []VerifiedMeansRead
<1>1. IInv => VerifiedMeansRead
  <2> SUFFICES ASSUME IInv PROVE VerifiedMeansRead
    OBVIOUS
  <2>1. \A i \in 1..Len(attempts) :
          attempts[i].verdict.status = "system_verified" =>
            /\ attempts[i].verdict.source = "trusted_adapter"
            /\ HasContract(attempts[i].position)
    BY DEF IInv, LogSound, Earned
  <2>2. row.verification = "system_verified" => HasContract(row.position)
    BY <2>1 DEF IInv, Backed, Evidenced
  <2>3. QED
    BY <2>1, <2>2 DEF VerifiedMeansRead
<1>2. QED
  BY <1>1, Invariance, PTL

(* completed_at is set on exactly the finished sessions, so the table's    *)
(* CHECK never refuses a write.                                            *)
THEOREM CompletedExactlyWhenTerminal == Spec => []CompletedIffTerminal
<1>1. IInv => CompletedIffTerminal
  BY DEF IInv, Backed, CompletedIffTerminal
<1>2. QED
  BY <1>1, Invariance, PTL
-----------------------------------------------------------------------------
(***************************************************************************)
(* One request at a time.  What a request holds in memory is then what the *)
(* row still is, and what it saves is one move of the guided walk from     *)
(* there, for any plan, any supply of tokens and any number of attempts.   *)
(***************************************************************************)
\* A request on the session is over before the next one starts.
OneSlot == \A g, h \in Handlers : g = h

RecordingStages == {"lookup", "adapter", "number", "insert"}

\* The attempts are numbered in the order of their commits.
Numbered == \A i \in 1..Len(attempts) : attempts[i].no = i

\* The last attempt is the user's word that an action fixed the problem.
LastConfirms(action) ==
  /\ attempts # <<>>
  /\ attempts[Len(attempts)].position = action
  /\ attempts[Len(attempts)].verdict.status = "user_confirmed"

\* What one operation, alone, may make of the row.
OneMove(session) ==
  \/ session = Presented(row)
  \/ \E p \in Positions : /\ p = row.position + 1
                          /\ Steps[p].critical => p \in agreed
                          /\ session = Moved(row, p)
  \/ \E status \in Terminal : session = Finished(row, status, NoPosition)
  \/ session = Finished(row, "resolved", row.position) /\ LastConfirms(row.position)

RecordsFresh ==
  \A h \in Handlers : req[h].stage \in RecordingStages =>
    /\ req[h].session = row /\ RequireActive(row)
    /\ req[h].resolves => /\ req[h].stage \in {"number", "insert"}
                          /\ req[h].verdict.status = "user_confirmed"
    /\ req[h].stage = "insert" /\ stored => req[h].no = Len(attempts) + 1

SavesOneMove ==
  \A h \in Handlers : req[h].stage = "save" =>
    RequireActive(row) /\ OneMove(req[h].session)

FixIsLast ==
  row.resolved_action # NoPosition =>
    row.status \in Terminal /\ LastConfirms(row.resolved_action)

SInv == TypeOK /\ Numbered /\ RecordsFresh /\ SavesOneMove /\ FixIsLast
-----------------------------------------------------------------------------
\* The slot that takes a step is the only one there is.
LEMMA OnlySlot ==
  ASSUME OneSlot, TypeOK, NEW h \in Handlers, NEW r, req' = [req EXCEPT ![h] = r]
  PROVE  \A g \in Handlers : req'[g] = r
BY DEF OneSlot, TypeOK

LEMMA InitSerial == Init => SInv
<1> SUFFICES ASSUME Init PROVE SInv
  OBVIOUS
<1>1. TypeOK
  BY StepFacts, OpenedTypes DEF Init, TypeOK
<1>2. Numbered /\ FixIsLast
  BY DEF Init, Numbered, FixIsLast, OpenedRow
<1>3. RecordsFresh /\ SavesOneMove
  BY DEF Init, RecordsFresh, SavesOneMove, Idle, RecordingStages
<1> QED BY <1>1, <1>2, <1>3 DEF SInv

\* A slot that is left with no request, and a row nobody touched.
LEMMA EndsSerial ==
  ASSUME OneSlot, SInv, TypeOK', NEW h \in Handlers, NEW r, req' = [req EXCEPT ![h] = r],
         r.stage \in {"idle", "conflict"}, UNCHANGED <<row, attempts>>
  PROVE  SInv'
<1>1. \A g \in Handlers : req'[g] = r
  BY OnlySlot DEF SInv
<1>2. Numbered' /\ FixIsLast'
  BY DEF SInv, Numbered, FixIsLast, LastConfirms
<1>3. RecordsFresh' /\ SavesOneMove'
  BY <1>1 DEF RecordsFresh, SavesOneMove, RecordingStages
<1> QED BY <1>2, <1>3 DEF SInv

\* A request that will save holds one move of the row it has just loaded.
LEMMA WillSaveSerial ==
  ASSUME OneSlot, SInv, TypeOK', NEW h \in Handlers, NEW session,
         Loads(h), WillSave(h, session), OneMove(session)'
  PROVE  SInv'
<1> DEFINE r == [Idle EXCEPT !.stage = "save", !.session = session]
<1>1. UNCHANGED <<row, attempts>> /\ RequireActive(row)
  BY DEF WillSave, Loads
<1>2. \A g \in Handlers : req'[g] = r
  BY OnlySlot DEF SInv, WillSave
<1>3. r.stage = "save" /\ r.session = session
  BY DEF Idle
<1>4. Numbered' /\ FixIsLast'
  BY <1>1 DEF SInv, Numbered, FixIsLast, LastConfirms
<1>5. RecordsFresh'
  BY <1>2, <1>3 DEF RecordsFresh, RecordingStages
<1>6. SavesOneMove'
  BY <1>1, <1>2, <1>3 DEF SavesOneMove, RequireActive
<1> QED BY <1>4, <1>5, <1>6 DEF SInv

\* A request that will record holds the row it has just loaded.
LEMMA WillRecordSerial ==
  ASSUME OneSlot, SInv, TypeOK', NEW h \in Handlers, NEW stage, NEW verdict, NEW token,
         NEW resolves, Loads(h), WillRecord(h, stage, verdict, token, resolves),
         stage \in {"lookup", "adapter", "number"}, resolves \in BOOLEAN,
         resolves => stage = "number" /\ verdict.status = "user_confirmed"
  PROVE  SInv'
<1> DEFINE r == [Idle EXCEPT !.stage = stage, !.session = row, !.verdict = verdict,
                             !.token = token, !.resolves = resolves]
<1>1. UNCHANGED <<row, attempts>> /\ RequireActive(row)
  BY DEF WillRecord, Loads
<1>2. \A g \in Handlers : req'[g] = r
  BY OnlySlot DEF SInv, WillRecord
<1>3. /\ r.stage = stage /\ r.session = row /\ r.verdict = verdict
      /\ r.resolves = resolves
  BY DEF Idle
<1>4. Numbered' /\ FixIsLast'
  BY <1>1 DEF SInv, Numbered, FixIsLast, LastConfirms
<1>5. RecordsFresh'
  BY <1>1, <1>2, <1>3 DEF RecordsFresh, RecordingStages, RequireActive
<1>6. SavesOneMove'
  BY <1>2, <1>3 DEF SavesOneMove
<1> QED BY <1>4, <1>5, <1>6 DEF SInv

\* A new request decides on the row as it is.
LEMMA ArriveSerial ==
  ASSUME OneSlot, SInv, NEW h \in Handlers, Arrive(h)
  PROVE  SInv'
<1>1. TypeOK /\ TypeOK'
  BY ArriveTypes DEF SInv
<1>2. CASE MarkPresented(h)
  <2>1. Loads(h) /\ WillSave(h, Presented(row)) /\ row' = row
    BY <1>2 DEF MarkPresented, WillSave
  <2>2. OneMove(Presented(row))'
    BY <2>1 DEF OneMove, Presented
  <2> QED BY <1>1, <2>1, <2>2, WillSaveSerial
<1>3. CASE Verify(h)
  <2>1. Loads(h) /\ \/ WillRecord(h, "adapter", NoVerdict, NoToken, FALSE)
                    \/ WillRecord(h, "number", NoContract(row.position), NoToken, FALSE)
    BY <1>3 DEF Verify
  <2> QED BY <1>1, <2>1, WillRecordSerial
<1>4. ASSUME NEW token \in Tokens \cup {NoToken}, NEW reading \in Readings,
             SubmitObservation(h, token, reading)
      PROVE  SInv'
  <2> DEFINE stage == IF token \in Unlooked THEN "number" ELSE "lookup"
  <2>1. /\ Loads(h) /\ stage \in {"lookup", "adapter", "number"}
        /\ WillRecord(h, stage, ObservedVerdict(row.position, reading), token, FALSE)
    BY <1>4 DEF SubmitObservation
  <2> HIDE DEF stage
  <2> QED BY <1>1, <2>1, WillRecordSerial
<1>5. ASSUME NEW resolved \in BOOLEAN, Confirm(h, resolved)
      PROVE  SInv'
  <2> DEFINE verdict == IF resolved
         THEN [status |-> "user_confirmed", source |-> "user_confirmation",
               reason |-> "user_confirmed_resolved"]
         ELSE [status |-> "verification_failed", source |-> "user_confirmation",
               reason |-> "user_reported_unresolved"]
  <2>1. Loads(h) /\ WillRecord(h, "number", verdict, NoToken, resolved)
    BY <1>5 DEF Confirm
  <2>2. resolved => verdict.status = "user_confirmed"
    OBVIOUS
  <2> HIDE DEF verdict
  <2> QED BY <1>1, <2>1, <2>2, WillRecordSerial
<1>6. ASSUME NEW acknowledge \in BOOLEAN, AdvanceToNext(h, acknowledge)
      PROVE  SInv'
  <2> DEFINE upcoming == NextPosition(row.position)
  <2>1. /\ Loads(h) /\ WillSave(h, Moved(row, upcoming)) /\ row' = row
        /\ upcoming # NoPosition /\ Permitted(upcoming, acknowledge)
        /\ agreed' = IF acknowledge THEN agreed \cup {upcoming} ELSE agreed
    BY <1>6 DEF AdvanceToNext, WillSave
  <2>2. upcoming \in Positions /\ upcoming = row.position + 1
    BY <1>1, <2>1, StepFacts DEF TypeOK, Row
  <2>3. Steps[upcoming].critical => upcoming \in agreed'
    BY <2>1 DEF Permitted
  <2>4. OneMove(Moved(row, upcoming))'
    BY <2>1, <2>2, <2>3 DEF OneMove, Moved
  <2> QED BY <1>1, <2>1, <2>4, WillSaveSerial
<1>7. ASSUME NEW status \in Terminal, Loads(h),
             WillSave(h, Finished(row, status, NoPosition))
      PROVE  SInv'
  <2>1. PICK session : session = Finished(row, status, NoPosition)
    OBVIOUS
  <2>2. row' = row /\ WillSave(h, session)
    BY <1>7, <2>1 DEF WillSave
  <2>3. OneMove(session)'
    BY <2>1, <2>2 DEF OneMove
  <2> QED BY <1>1, <1>7, <2>2, <2>3, WillSaveSerial
<1>8. CASE AdvancePastEnd(h) \/ \E status \in Asked : Complete(h, status)
  BY <1>7, <1>8 DEF AdvancePastEnd, Complete, Terminal
<1> QED BY <1>2, <1>3, <1>4, <1>5, <1>6, <1>8 DEF Arrive

\* The number of the next attempt is one more than there are attempts.
LEMMA NumbersNext ==
  ASSUME TypeOK, Numbered, stored, NEW n \in 1..(Len(attempts) + 1),
         n - 1 \in Numbers \cup {0}, \A m \in Numbers : m < n
  PROVE  n = Len(attempts) + 1
<1>1. Len(attempts) \in Nat
  BY DEF TypeOK
<1>2. Numbers = 1..Len(attempts)
  BY DEF Numbers, Numbered
<1> QED BY <1>1, <1>2

\* The recording transaction, alone, adds the next attempt to the row it loaded.
LEMMA RecordSerial ==
  ASSUME OneSlot, SInv, TypeOK', NEW h \in Handlers, RecordAttempt(h)
  PROVE  /\ SInv'
         /\ RequireActive(row)
         /\ row' = Recorded(row, req[h].verdict)
         /\ attempts' = Append(attempts,
              [no |-> Len(attempts) + 1, position |-> row.position,
               verdict |-> req[h].verdict, token |-> req[h].token])
<1> DEFINE verdict == req[h].verdict
           attempt == [no |-> Len(attempts) + 1, position |-> row.position,
                       verdict |-> verdict, token |-> req[h].token]
<1>0. PICK closed : closed = Finished(row', "resolved", row'.position)
  OBVIOUS
<1> DEFINE r == IF req[h].resolves
                  THEN [Idle EXCEPT !.stage = "save", !.session = closed] ELSE Idle
<1>1. /\ req[h].stage = "insert" /\ stored
      /\ req[h].session = row /\ RequireActive(row) /\ req[h].no = Len(attempts) + 1
      /\ req[h].resolves => verdict.status = "user_confirmed"
  BY DEF SInv, RecordsFresh, RecordingStages, RecordAttempt
<1>2. /\ row' = Recorded(row, verdict) /\ attempts' = Append(attempts, attempt)
      /\ req' = [req EXCEPT ![h] = r]
  BY <1>0, <1>1 DEF RecordAttempt
<1>3. /\ attempts \in Seq(Attempt) /\ Len(attempts) \in Nat /\ row \in Row
      /\ verdict \in Verdict
  BY DEF SInv, TypeOK, Request
<1>4. /\ Len(attempts') = Len(attempts) + 1 /\ attempts' # <<>>
      /\ \A i \in 1..Len(attempts) : attempts'[i] = attempts[i]
      /\ attempts'[Len(attempts')] = attempt
  BY <1>2, <1>3
<1>5. /\ row'.position = row.position /\ row'.resolved_action = row.resolved_action
      /\ RequireActive(row')
  BY <1>1, <1>2, <1>3 DEF Recorded, RequireActive, Row, Terminal
<1>6. Numbered'
  BY <1>3, <1>4 DEF SInv, Numbered
<1>7. FixIsLast'
  BY <1>1, <1>5 DEF SInv, FixIsLast, RequireActive
<1>8. \A g \in Handlers : req'[g] = r
  BY <1>2, OnlySlot DEF SInv
<1>9. r.stage \in {"idle", "save"}
      /\ (r.stage = "save" => req[h].resolves /\ r.session = closed)
  BY DEF Idle
<1> HIDE DEF r
<1>10. RecordsFresh'
  BY <1>8, <1>9 DEF RecordsFresh, RecordingStages
<1>11. SavesOneMove'
  <2>1. req[h].resolves => LastConfirms(row.position)'
    BY <1>1, <1>4, <1>5 DEF LastConfirms
  <2>2. req[h].resolves => OneMove(closed)'
    BY <1>0, <2>1, <1>5 DEF OneMove
  <2> QED BY <1>5, <1>8, <1>9, <2>2 DEF SavesOneMove, RequireActive
<1> QED BY <1>1, <1>2, <1>6, <1>7, <1>10, <1>11 DEF SInv

\* A save, alone, makes one move from the row it was decided on.
LEMMA SaveSerial ==
  ASSUME OneSlot, SInv, TypeOK', NEW h \in Handlers, Save(h)
  PROVE  SInv' /\ RequireActive(row)
<1>1. /\ req[h].stage = "save" /\ RequireActive(row) /\ OneMove(req[h].session)
      /\ req' = [req EXCEPT ![h] = Idle] /\ attempts' = attempts
      /\ row' = req[h].session \/ row' = row
  BY DEF SInv, SavesOneMove, Save
<1>2. \A g \in Handlers : req'[g].stage = "idle"
  <2>1. \A g \in Handlers : req'[g] = Idle
    BY <1>1, OnlySlot DEF SInv
  <2> QED BY <2>1 DEF Idle
<1>3. RecordsFresh' /\ SavesOneMove'
  BY <1>2 DEF RecordsFresh, SavesOneMove, RecordingStages
<1>4. Numbered' /\ row.resolved_action = NoPosition /\ row \in Row
  BY <1>1 DEF SInv, Numbered, FixIsLast, RequireActive, TypeOK
<1>5. FixIsLast'
  <2>1. CASE row' = row
    BY <1>1, <1>4, <2>1 DEF FixIsLast
  <2>2. CASE \/ row' = Presented(row)
             \/ \E p \in Positions : row' = Moved(row, p)
             \/ \E status \in Terminal : row' = Finished(row, status, NoPosition)
    <3>1. row'.resolved_action = NoPosition
      BY <1>4, <2>2 DEF Presented, Moved, Finished, Row
    <3> QED BY <3>1 DEF FixIsLast
  <2>3. CASE row' = Finished(row, "resolved", row.position) /\ LastConfirms(row.position)
    <3>1. row'.status = "resolved" /\ row'.resolved_action = row.position
      BY <1>4, <2>3, StepFacts DEF Finished, Row
    <3>2. LastConfirms(row.position)'
      <4>1. row'.position = row.position
        BY <1>4, <2>3 DEF Finished, Row
      <4> QED BY <1>1, <2>3, <4>1 DEF LastConfirms
    <3> QED BY <1>4, <2>3, <3>1, <3>2 DEF FixIsLast, Terminal, Finished, Row, LastConfirms
  <2> QED BY <1>1, <2>1, <2>2, <2>3 DEF OneMove
<1> QED BY <1>1, <1>3, <1>4, <1>5 DEF SInv

\* A suspended request goes on.
LEMMA ResumeSerial ==
  ASSUME OneSlot, SInv, NEW h \in Handlers, Resume(h)
  PROVE  SInv'
<1>1. TypeOK /\ TypeOK' /\ req[h].stage \in {"lookup", "adapter", "number", "insert",
                                             "save", "conflict"}
  <2>1. Idle.stage = "idle"
    BY DEF Idle
  <2> QED BY ResumeTypes DEF SInv, Resume, FindAttemptByToken, ReadState, NextAttemptNo,
                            RecordAttempt, InsertRefused, Respond500, Save
<1>2. ASSUME NEW r, req' = [req EXCEPT ![h] = r], UNCHANGED <<row, attempts, stored>>,
             req[h].stage \in RecordingStages, r.stage \in RecordingStages,
             r.session = req[h].session,
             r.resolves => /\ r.stage \in {"number", "insert"}
                           /\ r.verdict.status = "user_confirmed",
             r.stage = "insert" /\ stored => r.no = Len(attempts) + 1
      PROVE  SInv'
  <2>1. \A g \in Handlers : req'[g] = r
    BY <1>2, OnlySlot DEF SInv
  <2>2. Numbered' /\ FixIsLast'
    BY <1>2 DEF SInv, Numbered, FixIsLast, LastConfirms
  <2>3. RecordsFresh' /\ SavesOneMove'
    BY <1>2, <2>1 DEF SInv, RecordsFresh, SavesOneMove, RecordingStages, RequireActive
  <2> QED BY <1>1, <2>2, <2>3 DEF SInv
<1>3. req[h] \in Request /\ (req[h].stage \in RecordingStages => RecordsFresh)
  BY <1>1 DEF TypeOK, SInv
<1>4. CASE FindAttemptByToken(h)
  <2>1. req[h].stage = "lookup" /\ UNCHANGED <<row, attempts, stored>>
    BY <1>4 DEF FindAttemptByToken
  <2>2. CASE req' = [req EXCEPT ![h] = Idle]
    BY <1>1, <2>1, <2>2, EndsSerial DEF Idle
  <2>3. CASE req' = [req EXCEPT ![h] = [@ EXCEPT !.stage = "number"]]
    <3> DEFINE r == [req[h] EXCEPT !.stage = "number"]
    <3>1. /\ r.stage = "number" /\ r.session = req[h].session
          /\ r.resolves = req[h].resolves /\ ~ req[h].resolves
      BY <1>3, <2>1 DEF Request, SInv, RecordsFresh, RecordingStages
    <3>2. req' = [req EXCEPT ![h] = r]
      BY <2>3
    <3> HIDE DEF r
    <3> QED BY <1>2, <2>1, <3>1, <3>2 DEF RecordingStages
  <2> QED BY <1>4, <2>2, <2>3 DEF FindAttemptByToken
<1>5. ASSUME NEW reading \in Readings \cup {"unavailable"}, ReadState(h, reading)
      PROVE  SInv'
  <2>1. req[h].stage = "adapter" /\ UNCHANGED <<row, attempts, stored>>
    BY <1>5 DEF ReadState
  <2> DEFINE r == [req[h] EXCEPT !.stage = "number", !.verdict = AdapterVerdict(reading)]
  <2>2. /\ r.stage = "number" /\ r.session = req[h].session
        /\ r.resolves = req[h].resolves /\ ~ req[h].resolves
    BY <1>3, <2>1 DEF Request, SInv, RecordsFresh, RecordingStages
  <2>3. req' = [req EXCEPT ![h] = r]
    BY <1>5 DEF ReadState
  <2> HIDE DEF r
  <2> QED BY <1>2, <2>1, <2>2, <2>3 DEF RecordingStages
<1>6. CASE NextAttemptNo(h)
  <2>1. req[h].stage = "number" /\ UNCHANGED <<row, attempts, stored>>
    BY <1>6 DEF NextAttemptNo
  <2>2. PICK n \in 1..(Len(attempts) + 1) :
          /\ n - 1 \in Numbers \cup {0} /\ \A m \in Numbers : m < n
          /\ req' = [req EXCEPT ![h] = [@ EXCEPT !.stage = "insert", !.no = n]]
    BY <1>6 DEF NextAttemptNo
  <2> DEFINE r == [req[h] EXCEPT !.stage = "insert", !.no = n]
  <2>3. /\ r.stage = "insert" /\ r.session = req[h].session /\ r.no = n
        /\ r.resolves => r.verdict.status = "user_confirmed"
    BY <1>3, <2>1 DEF Request, SInv, RecordsFresh, RecordingStages
  <2>4. stored => n = Len(attempts) + 1
    BY <2>2, NumbersNext DEF SInv
  <2>5. req' = [req EXCEPT ![h] = r]
    BY <2>2
  <2> HIDE DEF r
  <2> QED BY <1>2, <2>1, <2>3, <2>4, <2>5 DEF RecordingStages
<1>7. CASE RecordAttempt(h)
  BY <1>1, <1>7, RecordSerial
<1>8. CASE InsertRefused(h) \/ Respond500(h)
  <2>1. [Idle EXCEPT !.stage = "conflict"].stage = "conflict" /\ Idle.stage = "idle"
    BY DEF Idle
  <2> QED BY <1>1, <1>8, <2>1, EndsSerial DEF InsertRefused, Respond500
<1>9. CASE Save(h)
  BY <1>1, <1>9, SaveSerial
<1> QED BY <1>4, <1>5, <1>6, <1>7, <1>8, <1>9, Zenon DEF Resume

\* A purge leaves the request that was about to insert with an error.
LEMMA PurgeSerial ==
  ASSUME SInv, Purge
  PROVE  SInv'
<1>1. TypeOK' /\ UNCHANGED <<row, attempts, agreed>> /\ stored' = FALSE
  BY PurgeTypes DEF SInv, Purge
<1>2. \A g \in Handlers : req'[g] = req[g] \/ req'[g].stage = "conflict"
  BY DEF SInv, Purge, Idle
<1>3. Numbered' /\ FixIsLast'
  BY <1>1 DEF SInv, Numbered, FixIsLast, LastConfirms
<1>4. RecordsFresh'
  BY <1>1, <1>2 DEF SInv, RecordsFresh, RecordingStages, RequireActive
<1>5. SavesOneMove'
  BY <1>1, <1>2 DEF SInv, SavesOneMove, OneMove, LastConfirms, RequireActive
<1> QED BY <1>1, <1>3, <1>4, <1>5 DEF SInv

LEMMA StepSerial ==
  ASSUME OneSlot, SInv, [Next]_vars
  PROVE  SInv'
<1>1. CASE UNCHANGED vars
  <2>1. UNCHANGED <<row, attempts, req, agreed, visited, stored>>
    BY <1>1 DEF vars
  <2>2. TypeOK' /\ Numbered' /\ FixIsLast'
    BY <2>1 DEF SInv, TypeOK, Numbered, FixIsLast, LastConfirms
  <2>3. RecordsFresh' /\ SavesOneMove'
    BY <2>1 DEF SInv, RecordsFresh, SavesOneMove, OneMove, LastConfirms, RequireActive
  <2> QED BY <2>2, <2>3 DEF SInv
<1>2. ASSUME NEW h \in Handlers, Fail(h) PROVE SInv'
  <2>1. req' = [req EXCEPT ![h] = Idle] /\ UNCHANGED <<row, attempts, agreed, visited, stored>>
    BY <1>2 DEF Fail
  <2>2. TypeOK'
    BY <2>1, OpenedTypes DEF SInv, TypeOK
  <2>3. Idle.stage = "idle"
    BY DEF Idle
  <2> QED BY <2>1, <2>2, <2>3, EndsSerial
<1> QED BY <1>1, <1>2, ArriveSerial, ResumeSerial, PurgeSerial DEF Next

-----------------------------------------------------------------------------
\* The reports of the promise are the attempts, one for one.
Reported(history) ==
  [i \in 1..Len(history) |-> [no |-> history[i].no, step |-> history[i].position,
                              finding |-> history[i].verdict.status]]

LEMMA ReportsAreSeq ==
  ASSUME NEW history \in Seq(Attempt)
  PROVE  /\ Len(Reported(history)) = Len(history)
         /\ \E S : Reported(history) \in Seq(S)
         /\ Reported(history) # <<>> <=> history # <<>>
<1>1. Len(history) \in Nat
  OBVIOUS
<1> DEFINE S == {Reported(history)[i] : i \in 1..Len(history)}
<1>2. Reported(history) \in [1..Len(history) -> S]
  BY DEF Reported
<1>3. Reported(history) \in Seq(S)
  BY <1>1, <1>2, SeqDef
<1>4. Len(Reported(history)) = Len(history)
  <2>1. DOMAIN Reported(history) = 1..Len(history)
    BY DEF Reported
  <2>2. DOMAIN Reported(history) = 1..Len(Reported(history))
        /\ Len(Reported(history)) \in Nat
    BY <1>3, LenProperties
  <2> QED BY <1>1, <2>1, <2>2
<1> HIDE DEF S
<1> QED BY <1>3, <1>4

\* Another attempt is another report.
LEMMA ReportsAppend ==
  ASSUME NEW history \in Seq(Attempt), NEW attempt \in Attempt
  PROVE  Reported(Append(history, attempt)) =
           Append(Reported(history), [no |-> attempt.no, step |-> attempt.position,
                                      finding |-> attempt.verdict.status])
<1> DEFINE report == [no |-> attempt.no, step |-> attempt.position,
                      finding |-> attempt.verdict.status]
           longer == Append(history, attempt)
<1>1. PICK S : Reported(history) \in Seq(S)
  BY ReportsAreSeq
<1>2. Reported(history) \in Seq(S \cup {report}) /\ report \in S \cup {report}
  BY <1>1, SeqMonotonic
<1>3. /\ Len(history) \in Nat /\ Len(Reported(history)) = Len(history)
      /\ longer \in Seq(Attempt) /\ Len(longer) = Len(history) + 1
      /\ \A i \in 1..Len(history) : longer[i] = history[i]
      /\ longer[Len(history) + 1] = attempt
  BY ReportsAreSeq
<1> DEFINE a == Append(Reported(history), report)
           b == Reported(longer)
<1>4. /\ a \in Seq(S \cup {report}) /\ Len(a) = Len(history) + 1
      /\ \A i \in 1..Len(history) : a[i] = Reported(history)[i]
      /\ a[Len(history) + 1] = report
  <2> HIDE DEF report
  <2> QED BY <1>2, <1>3, AppendProperties
<1>5. /\ a = [i \in 1..(Len(history) + 1) |-> a[i]]
      /\ b = [i \in 1..(Len(history) + 1) |-> b[i]]
  <2>1. a \in [1..Len(a) -> S \cup {report}]
    BY <1>4, LenProperties
  <2> QED BY <1>3, <1>4, <2>1 DEF Reported
<1>6. ASSUME NEW i \in 1..(Len(history) + 1) PROVE a[i] = b[i]
  <2>1. CASE i \in 1..Len(history)
    BY <1>3, <1>4, <2>1 DEF Reported
  <2>2. CASE i = Len(history) + 1
    BY <1>3, <1>4, <2>2 DEF Reported
  <2> QED BY <1>3, <2>1, <2>2
<1> HIDE DEF a, b
<1>7. a = b
  BY <1>5, <1>6
<1> QED BY <1>7 DEF a, b

Shown(r) == IF r.status \in Terminal THEN r.status ELSE "open"

\* What the user sees, if it does not change.
LEMMA Stutters ==
  ASSUME row'.position = row.position, Shown(row)' = Shown(row),
         row'.resolved_action = row.resolved_action, UNCHANGED <<attempts, agreed>>
  PROVE  UNCHANGED Promise!vars
<1>1. Reported(attempts)' = Reported(attempts)
  OBVIOUS
<1> QED BY <1>1 DEF Promise!vars, Shown, Reported

LEMMA InitPromises == Init => Promise!Init
<1> SUFFICES ASSUME Init PROVE Promise!Init
  OBVIOUS
<1>1. /\ row.position = 1 /\ Shown(row) = "open" /\ row.resolved_action = 0
      /\ attempts = <<>> /\ agreed = {}
  BY DEF Init, OpenedRow, Shown, Terminal, NoPosition
<1>2. Reported(attempts) = <<>>
  <2>1. attempts \in Seq(Attempt)
    BY <1>1
  <2> QED BY <1>1, <2>1, ReportsAreSeq
<1> QED BY <1>1, <1>2 DEF Promise!Init, Shown, Reported

\* A new request shows the user nothing, except that an acknowledgement counts.
LEMMA ArrivePromises ==
  ASSUME SInv, NEW h \in Handlers, Arrive(h)
  PROVE  [Promise!Next]_(Promise!vars)
<1>1. UNCHANGED <<row, attempts>>
  BY DEF Arrive, MarkPresented, Verify, SubmitObservation, Confirm, AdvanceToNext,
         AdvancePastEnd, Complete, WillSave, WillRecord
<1>2. CASE UNCHANGED agreed
  BY <1>1, <1>2, Stutters
<1>3. ASSUME NEW acknowledge \in BOOLEAN, AdvanceToNext(h, acknowledge)
      PROVE  [Promise!Next]_(Promise!vars)
  <2> DEFINE upcoming == NextPosition(row.position)
  <2>1. /\ upcoming \in Positions /\ RequireActive(row)
        /\ agreed' = agreed \cup {upcoming} \/ UNCHANGED agreed
    BY <1>3, StepFacts DEF AdvanceToNext, Loads, SInv, TypeOK, Row
  <2>2. CASE agreed' = agreed \cup {upcoming}
    <3> HIDE DEF upcoming
    <3>1. Promise!Open
      BY <2>1 DEF Promise!Open, RequireActive
    <3>2. UNCHANGED <<row.position, Shown(row), row.resolved_action, Reported(attempts)>>
      BY <1>1 DEF Shown
    <3>3. Promise!Agree(upcoming)
      BY <2>2, <3>1, <3>2 DEF Promise!Agree, Shown, Reported
    <3> QED BY <2>1, <3>3 DEF Promise!Next, Positions
  <2> QED BY <1>2, <2>1, <2>2
<1>4. UNCHANGED agreed \/ \E acknowledge \in BOOLEAN : AdvanceToNext(h, acknowledge)
  BY DEF Arrive, MarkPresented, Verify, SubmitObservation, Confirm,
         AdvancePastEnd, Complete, WillRecord
<1> QED BY <1>2, <1>3, <1>4

\* A recorded attempt is the next report about the step the user is on.
LEMMA RecordPromises ==
  ASSUME OneSlot, SInv, NEW h \in Handlers, RecordAttempt(h)
  PROVE  Promise!Next
<1> DEFINE attempt == [no |-> Len(attempts) + 1, position |-> row.position,
                       verdict |-> req[h].verdict, token |-> req[h].token]
<1>1. /\ RequireActive(row) /\ row' = Recorded(row, req[h].verdict)
      /\ attempts' = Append(attempts, attempt) /\ UNCHANGED agreed
  <2>1. TypeOK'
    BY ResumeTypes DEF SInv, Resume
  <2> QED BY <2>1, RecordSerial DEF RecordAttempt
<1>2. /\ attempts \in Seq(Attempt) /\ Len(attempts) \in Nat /\ row \in Row
      /\ req[h].verdict \in Verdict /\ req[h].token \in Tokens \cup {NoToken}
  BY DEF SInv, TypeOK, Request
<1>3. attempt \in Attempt
  BY <1>2 DEF Attempt, Row
<1>4. /\ Len(Reported(attempts)) = Len(attempts)
      /\ Reported(attempts)' = Append(Reported(attempts),
           [no |-> Len(attempts) + 1, step |-> row.position,
            finding |-> req[h].verdict.status])
  <2>1. Reported(attempts)' = Reported(Append(attempts, attempt))
    BY <1>1
  <2> QED BY <1>2, <1>3, <2>1, ReportsAppend, ReportsAreSeq
<1>5. /\ row'.position = row.position /\ row'.resolved_action = row.resolved_action
      /\ Shown(row) = "open" /\ Shown(row)' = "open"
  BY <1>1, <1>2 DEF Recorded, RequireActive, Row, Terminal, Shown
<1>6. PICK finding \in VerificationStatus : finding = req[h].verdict.status
  BY <1>2 DEF Verdict
<1>7. Promise!Report(finding)
  BY <1>1, <1>4, <1>5, <1>6 DEF Promise!Report, Promise!Open, Shown, Reported
<1> QED BY <1>7 DEF Promise!Next

\* A save is one move of the walk, or nothing the user sees.
LEMMA SavePromises ==
  ASSUME SInv, NEW h \in Handlers, Save(h)
  PROVE  [Promise!Next]_(Promise!vars)
<1>1. /\ RequireActive(row) /\ OneMove(req[h].session) /\ UNCHANGED <<attempts, agreed>>
      /\ row' = req[h].session \/ row' = row
  BY DEF SInv, SavesOneMove, Save
<1>2. /\ Shown(row) = "open" /\ row \in Row /\ row.resolved_action = NoPosition
      /\ attempts \in Seq(Attempt)
  BY <1>1 DEF SInv, TypeOK, FixIsLast, RequireActive, Shown
<1>3. Reported(attempts)' = Reported(attempts)
  BY <1>1
<1>4. CASE row' = row
  BY <1>1, <1>4, Stutters
<1>5. CASE row' = Presented(row)
  <2>1. /\ row'.position = row.position /\ Shown(row)' = "open"
        /\ row'.resolved_action = row.resolved_action
    BY <1>2, <1>5 DEF Presented, Row, Shown, Terminal
  <2> QED BY <1>1, <1>2, <2>1, Stutters
<1>6. ASSUME NEW p \in Positions, p = row.position + 1,
             Steps[p].critical => p \in agreed, row' = Moved(row, p)
      PROVE  Promise!Next
  <2>1. /\ row'.position = row.position + 1 /\ Shown(row)' = "open"
        /\ row'.resolved_action = row.resolved_action
    BY <1>2, <1>6 DEF Moved, Row, Shown, Terminal
  <2>2. row.position < Len(Steps)
    BY <1>2, <1>6, StepFacts DEF Positions, Row
  <2>3. Promise!Move
    BY <1>1, <1>2, <1>3, <1>6, <2>1, <2>2 DEF Promise!Move, Promise!Open, Shown, Reported
  <2> QED BY <2>3 DEF Promise!Next
<1>7. ASSUME NEW status \in Terminal, row' = Finished(row, status, NoPosition)
      PROVE  Promise!Next
  <2>1. /\ row'.position = row.position /\ Shown(row)' = status
        /\ row'.resolved_action = row.resolved_action
    BY <1>2, <1>7 DEF Finished, Row, Shown
  <2>2. Promise!Close(status)
    BY <1>1, <1>2, <1>3, <2>1 DEF Promise!Close, Promise!Open, Shown, Reported
  <2> QED BY <2>2 DEF Promise!Next
<1>8. CASE row' = Finished(row, "resolved", row.position) /\ LastConfirms(row.position)
  <2>1. /\ row'.position = row.position /\ Shown(row)' = "resolved"
        /\ row'.resolved_action = row.position
    BY <1>2, <1>8, StepFacts DEF Finished, Row, Shown, Terminal
  <2>2. /\ Reported(attempts) # <<>>
        /\ Reported(attempts)[Len(Reported(attempts))].step = row.position
        /\ Reported(attempts)[Len(Reported(attempts))].finding = "user_confirmed"
    <3>1. /\ attempts # <<>> /\ Len(attempts) \in Nat \ {0}
          /\ Len(Reported(attempts)) = Len(attempts) /\ Reported(attempts) # <<>>
      BY <1>2, <1>8, ReportsAreSeq DEF LastConfirms
    <3> QED BY <1>8, <3>1 DEF LastConfirms, Reported
  <2>3. Promise!CloseFixed
    BY <1>1, <1>2, <1>3, <2>1, <2>2 DEF Promise!CloseFixed, Promise!Open, Shown, Reported
  <2> QED BY <2>3 DEF Promise!Next
<1> QED BY <1>1, <1>4, <1>5, <1>6, <1>7, <1>8 DEF OneMove

\* Every step of the session is a step of the walk, or invisible to its user.
LEMMA StepPromises ==
  ASSUME OneSlot, SInv, [Next]_vars
  PROVE  [Promise!Next]_(Promise!vars)
<1>1. CASE UNCHANGED <<row, attempts, agreed>>
  BY <1>1, Stutters
<1>2. ASSUME NEW h \in Handlers, Resume(h)
      PROVE  [Promise!Next]_(Promise!vars)
  <2>1. CASE RecordAttempt(h)
    BY <2>1, RecordPromises
  <2>2. CASE Save(h)
    BY <2>2, SavePromises
  <2>3. CASE ~ RecordAttempt(h) /\ ~ Save(h)
    <3>1. UNCHANGED <<row, attempts, agreed>>
      BY <1>2, <2>3 DEF Resume, FindAttemptByToken, ReadState, NextAttemptNo,
                        InsertRefused, Respond500
    <3> QED BY <1>1, <3>1
  <2> QED BY <2>1, <2>2, <2>3
<1>3. CASE Purge \/ (\E h \in Handlers : Fail(h)) \/ UNCHANGED vars
  <2>1. UNCHANGED <<row, attempts, agreed>>
    BY <1>3 DEF Purge, Fail, vars
  <2> QED BY <1>1, <2>1
<1> QED BY <1>2, <1>3, ArrivePromises DEF Next

\* Nothing is under way on a finished session that could still change it.
LEMMA FinishedStays ==
  ASSUME SInv, [Next]_vars, row.status \in Terminal
  PROVE  UNCHANGED <<row, attempts>>
<1>1. ASSUME NEW h \in Handlers, RecordAttempt(h) \/ Save(h)
      PROVE  FALSE
  <2>1. req[h].stage \in {"insert", "save"}
    BY <1>1 DEF RecordAttempt, Save
  <2> QED BY <2>1 DEF SInv, RecordsFresh, SavesOneMove, RecordingStages, RequireActive
<1>2. ASSUME NEW h \in Handlers, Arrive(h)
      PROVE  UNCHANGED <<row, attempts>>
  BY <1>2 DEF Arrive, MarkPresented, Verify, SubmitObservation, Confirm, AdvanceToNext,
              AdvancePastEnd, Complete, WillSave, WillRecord
<1>3. ASSUME NEW h \in Handlers, Resume(h)
      PROVE  UNCHANGED <<row, attempts>>
  BY <1>1, <1>3 DEF Resume, FindAttemptByToken, ReadState, NextAttemptNo,
                    InsertRefused, Respond500
<1> QED BY <1>2, <1>3 DEF Next, Purge, Fail, vars

\* The decisive attempt is the last one, since numbers follow the commits.
LEMMA FixIsDecisive == SInv => ReceiptNamesTheFix
<1> SUFFICES ASSUME SInv, row.resolved_action # NoPosition
             PROVE  /\ Decisive # {}
                    /\ \A i \in Decisive :
                         /\ attempts[i].position = row.resolved_action
                         /\ attempts[i].verdict.status = "user_confirmed"
  BY DEF ReceiptNamesTheFix
<1>1. LastConfirms(row.resolved_action) /\ attempts \in Seq(Attempt)
  BY DEF SInv, FixIsLast, TypeOK
<1>2. Len(attempts) \in Nat \ {0} /\ \A i \in 1..Len(attempts) : attempts[i].no = i
  BY <1>1 DEF LastConfirms, SInv, Numbered
<1>3. Decisive = {Len(attempts)}
  BY <1>1, <1>2 DEF Decisive, LastConfirms
<1> QED BY <1>1, <1>3 DEF LastConfirms
-----------------------------------------------------------------------------
\* With one request at a time, what a request holds is what the row still is.
THEOREM Serial == ASSUME OneSlot PROVE Spec => []SInv
BY InitSerial, StepSerial, PTL DEF Spec

\* A finished session accepts no further change and no further attempt
\* (require_active), if no other request was under way when it finished.
THEOREM FinishedIsFinal == ASSUME OneSlot PROVE Spec => TerminalIsFinal
<1>1. SInv /\ [Next]_vars => [row.status \in Terminal => UNCHANGED <<row, attempts>>]_vars
  BY FinishedStays
<1> QED BY <1>1, Serial, PTL DEF Spec, TerminalIsFinal

\* The receipt of a session that names a fix shows the user's own word on exactly
\* that action (_receipt, confirm).
THEOREM ReceiptsNameTheFix == ASSUME OneSlot PROVE Spec => []ReceiptNamesTheFix
BY FixIsDecisive, Serial, PTL

\* The session implements the guided walk: every commit of the code is one legal
\* move of it, or invisible to the user.
THEOREM PromiseIsKept == ASSUME OneSlot PROVE Spec => KeepsThePromise
BY InitPromises, StepPromises, Serial, PTL DEF Spec, KeepsThePromise, Promise!Spec

=============================================================================

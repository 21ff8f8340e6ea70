------------------------------ MODULE Console ------------------------------
(***************************************************************************)
(* The browser's side of a guided session: one page, one user, and a       *)
(* network that may lose a request or its answer.  The page knows a session *)
(* by the last view it was sent; the server walks the nested plan step     *)
(* group by step group.                                                    *)
(*                                                                         *)
(* A request loads the session in one transaction and saves the whole row  *)
(* in a later one.  The page waits for one request at most, but one that   *)
(* it gave up on goes on in the server, and may save after the requests    *)
(* that came later: the row then is what it was before them.               *)
(*                                                                         *)
(* The user may ask about the same problem again, and is then offered the  *)
(* same plan, so every session of a behaviour walks one plan.  Of a view   *)
(* are kept the cursor and the status, which the page decides by; pending  *)
(* and in_progress are both "open".  Reports that leave a session open     *)
(* change neither: with the link of the step they are one operation here,  *)
(* "present".                                                              *)
(***************************************************************************)
EXTENDS Plan, FiniteSets

CONSTANTS Plans,        \* the plans the user may be offered
          MaxSessions,  \* bound: sessions the user opens
          MaxFailures,  \* bound: requests that are lost or fail
          MaxDialogs    \* bound: accepted dialogs that are counted

ASSUME ConsoleAssumption ==
  /\ Plans \subseteq Nested
  /\ MaxSessions \in Nat /\ MaxFailures \in Nat /\ MaxDialogs \in Nat

VARIABLES plan,         \* the plan offered, tabulated
          sessions,     \* the server's sessions, oldest first
          page,         \* what the page shows, and whether it is busy
          awaited,      \* requests the page waits for
          adrift,       \* requests it gave up on that may still be served
          failures,     \* how many requests have failed
          dialogs       \* history: how many dialogs were accepted

vars == <<plan, sessions, page, awaited, adrift, failures, dialogs>>
-----------------------------------------------------------------------------
Finished == {"resolved", "unresolved", "abandoned"}
Operations == {"start", "present", "confirm", "advance", "abandon"}

Nothing == [session |-> 0, position |-> Origin, status |-> "open"]
Refused == [Nothing EXCEPT !.session = -1]
Unserved == [Nothing EXCEPT !.session = -2]

\* A session and its history: the positions its cursor has had, the outcomes it
\* was given, and whether a request ever saved over what it had not loaded.
Opened == [position |-> Origin, status |-> "open",
           visited |-> {Origin}, outcomes |-> {}, overwritten |-> FALSE]

\* _session_view: what the server says of a session when it answers.
View(i, s) == [session |-> i, position |-> s.position, status |-> s.status]

\* A plan, with what walk and next_position make of it, tabulated.
Tabulated(p) ==
  [shape     |-> p,
   positions |-> PositionsOf(p),
   critical  |-> {step.position : step \in {t \in ToSet(Walk(p)) : t.critical}},
   following |-> [pos \in {step.position : step \in ToSet(Walk(p))} |->
                    NextPosition(p, pos)]]

Offered == {Tabulated(p) : p \in Plans \ {<<>>}}

Following(pos) == plan.following[pos]
NextIsCritical(view) == Following(view.position) \in plan.critical

Init == /\ plan \in Offered
        /\ sessions = <<>>
        /\ page = [shown |-> Nothing, panel |-> FALSE, offered |-> TRUE,
                   busy |-> FALSE]
        /\ awaited = {}
        /\ adrift = {}
        /\ failures = 0
        /\ dialogs = 0
-----------------------------------------------------------------------------
(* The page.                                                               *)

\* Slip: call() does not look at busy.
MaySendAlways == TRUE

\* call returns null at once while another call is under way.
MaySend == ~ page.busy

\* Of two requests on their way the page has given the earlier one up, so they
\* differ in the failures it had seen when it sent them, if in nothing else.
Send(op, acknowledge) ==
  /\ MaySend
  /\ awaited' = awaited \cup {[op |-> op, session |-> page.shown.session,
                               acknowledge |-> acknowledge, seen |-> failures,
                               held |-> NoPosition, recorded |-> FALSE,
                               answer |-> Unserved]}
  /\ page' = [page EXCEPT !.busy = TRUE]
  /\ UNCHANGED <<plan, sessions, adrift, failures>>

ClickStart ==
  /\ page.offered
  /\ Len(sessions) + Cardinality({q \in awaited \cup adrift : q.op = "start"})
       < MaxSessions
  /\ Send("start", FALSE)
  /\ UNCHANGED dialogs

\* The link of the step shown stays clickable after the session has finished.
ClickLink ==
  /\ page.panel
  /\ Send("present", FALSE)
  /\ UNCHANGED dialogs

Enabled == page.panel /\ page.shown.status \notin Finished

\* "This fixed it" and "Stop here".
ClickButton(op) ==
  /\ Enabled
  /\ Send(op, FALSE)
  /\ UNCHANGED dialogs

\* Slip: acknowledges whether a dialog was shown or not.
AcknowledgesAlways(view) == TRUE

\* The dialog appears when the view shown says the next action is critical.
\* Declining it, or accepting it while a call is under way, sends nothing.
Acknowledges(view) == NextIsCritical(view)

ClickNext ==
  /\ Enabled
  /\ Send("advance", Acknowledges(page.shown))
  /\ dialogs' = IF NextIsCritical(page.shown) /\ dialogs < MaxDialogs
                  THEN dialogs + 1 ELSE dialogs

\* A new complaint, or a reset, takes the panel away, and its answer offers a
\* plan; no call is cancelled.  The page forgets its session then; `shown`
\* keeps what was rendered last, which no button can use without the panel.
Hide ==
  /\ page' = [page EXCEPT !.panel = FALSE, !.offered = FALSE]
  /\ UNCHANGED <<plan, sessions, awaited, adrift, failures, dialogs>>

Offer ==
  /\ page' = [page EXCEPT !.panel = FALSE, !.offered = TRUE]
  /\ UNCHANGED <<plan, sessions, awaited, adrift, failures, dialogs>>

\* render: the panel shows whatever view has come, and the offer goes away.
Render(view) == [page EXCEPT !.shown = view, !.panel = TRUE, !.offered = FALSE,
                             !.busy = FALSE]

\* Slip: an action that was sent is shown as done.
AfterFailureAssumed(q) ==
  IF q.op = "abandon"
    THEN Render([page.shown EXCEPT !.status = "abandoned"])
    ELSE [page EXCEPT !.busy = FALSE]

\* Slip: only an answer makes the page idle again.
AfterFailureBusy(q) == page

\* A toast, and the view stays as it was.
AfterFailure(q) == [page EXCEPT !.busy = FALSE]

Receive(q) ==
  /\ q.answer # Unserved
  /\ awaited' = awaited \ {q}
  /\ page' = IF q.answer = Refused THEN AfterFailure(q) ELSE Render(q.answer)
  /\ UNCHANGED <<plan, sessions, adrift, failures, dialogs>>

\* fetch rejects: the request, or the answer, is lost on the way.
FetchFails(q) ==
  /\ failures < MaxFailures
  /\ failures' = failures + 1
  /\ awaited' = awaited \ {q}
  /\ adrift' = IF q.answer = Unserved THEN adrift \cup {q} ELSE adrift
  /\ page' = AfterFailure(q)
  /\ UNCHANGED <<plan, sessions, dialogs>>
-----------------------------------------------------------------------------
(* The server: what a request makes of the session it is about.            *)

\* The request is another one now, for whoever has it.
Becomes(q, r) ==
  /\ awaited' = IF q \in awaited THEN (awaited \ {q}) \cup {r} ELSE awaited
  /\ adrift' = IF q \in adrift THEN (adrift \ {q}) \cup {r} ELSE adrift
  /\ UNCHANGED <<plan, page, dialogs>>

\* Whoever still waits for the request is answered.
Answer(q, view) ==
  /\ awaited' = IF q \in awaited
                  THEN (awaited \ {q}) \cup {[q EXCEPT !.answer = view]}
                  ELSE awaited
  /\ adrift' = adrift \ {q}
  /\ UNCHANGED <<plan, page, dialogs>>

ServeStart(q) ==
  /\ q.op = "start"
  /\ IF Validates(plan.shape) /\ Opens(plan.shape)
       THEN /\ sessions' = Append(sessions, Opened)
            /\ Answer(q, View(Len(sessions) + 1, Opened))
       ELSE /\ Answer(q, Refused)
            /\ UNCHANGED sessions
  /\ UNCHANGED failures

\* require_active and the acknowledgement look at the copy just loaded.
Allowed(s, q) ==
  /\ s.status \notin Finished
  /\ q.op = "advance" /\ NextIsCritical(s) => q.acknowledge

\* Of the copy, which is of an open session, the request keeps the cursor.
Load(q) ==
  /\ q.op # "start" /\ q.held = NoPosition
  /\ LET s == sessions[q.session] IN
       IF Allowed(s, q) THEN Becomes(q, [q EXCEPT !.held = s.position])
                        ELSE Answer(q, Refused)
  /\ UNCHANGED <<sessions, failures>>

\* What the request makes of the copy it holds.
Left(position, status) == [position |-> position, status |-> status]

Advanced(held) ==
  IF Following(held) = NoPosition THEN Left(held, "unresolved")
                                  ELSE Left(Following(held), "open")

Served(q) ==
  CASE q.op = "present" -> Left(q.held, "open")
    [] q.op = "confirm" -> Left(q.held, "resolved")
    [] q.op = "advance" -> Advanced(q.held)
    [] q.op = "abandon" -> Left(q.held, "abandoned")

\* save_progress: the row becomes the copy, whatever the row is by then.
Saved(s, q, copy) ==
  [position    |-> copy.position,
   status      |-> copy.status,
   visited     |-> s.visited \cup {copy.position},
   outcomes    |-> s.outcomes \cup ({copy.status} \cap Finished),
   overwritten |-> s.overwritten \/ s.position # q.held \/ s.status \in Finished]

\* confirm commits its attempt, and with it the copy, before it finishes.
Record(q) ==
  /\ q.op = "confirm" /\ q.held # NoPosition /\ ~ q.recorded
  /\ sessions' = [sessions EXCEPT ![q.session] = Saved(@, q, Left(q.held, "open"))]
  /\ Becomes(q, [q EXCEPT !.recorded = TRUE])
  /\ UNCHANGED failures

Save(q) ==
  /\ q.held # NoPosition /\ (q.op = "confirm" => q.recorded)
  /\ sessions' = [sessions EXCEPT ![q.session] = Saved(@, q, Served(q))]
  /\ Answer(q, View(q.session, Served(q)))
  /\ UNCHANGED failures

\* A 500 or a 503 at any stage: what is saved by then stays saved.
ServeFails(q) ==
  /\ failures < MaxFailures
  /\ failures' = failures + 1
  /\ UNCHANGED sessions
  /\ Answer(q, Refused)
-----------------------------------------------------------------------------
Waiting == {q \in awaited \cup adrift : q.answer = Unserved}

Serve(q) == ServeStart(q) \/ Load(q) \/ Record(q) \/ Save(q)

Next ==
  \/ ClickStart \/ ClickLink \/ ClickNext
  \/ \E op \in {"confirm", "abandon"} : ClickButton(op)
  \/ Hide \/ Offer
  \/ \E q \in awaited : Receive(q) \/ FetchFails(q)
  \/ \E q \in Waiting : Serve(q) \/ ServeFails(q)

\* The server serves what the page waits for and the network brings the answer,
\* unless one of the counted failures intervenes; nothing is promised of what
\* the page gave up on.  A user who stays keeps trying.
Answering ==
  \E q \in awaited : Receive(q) \/ (q.answer = Unserved /\ Serve(q))

Fairness == WF_vars(Answering) /\ SF_vars(ClickLink) /\ SF_vars(ClickNext)

Spec == Init /\ [][Next]_vars
FairSpec == Spec /\ Fairness
-----------------------------------------------------------------------------
Addressable == plan.positions

Views == [session : 1..MaxSessions, position : Addressable,
          status : {"open"} \cup Finished]

Rows == [position : Addressable, status : {"open"} \cup Finished,
         visited : SUBSET Addressable, outcomes : SUBSET Finished,
         overwritten : BOOLEAN]

Requests == [op : Operations, session : 0..MaxSessions, acknowledge : BOOLEAN,
             seen : 0..MaxFailures, held : Addressable \cup {NoPosition},
             recorded : BOOLEAN, answer : Views \cup {Unserved, Refused}]

TypeOK ==
  /\ sessions \in Seq(Rows)
  /\ page \in [shown : Views \cup {Nothing}, panel : BOOLEAN, offered : BOOLEAN,
               busy : BOOLEAN]
  /\ awaited \cup adrift \subseteq Requests
  /\ failures \in 0..MaxFailures

(* Whatever is lost on the way, served late or saved over, no step group   *)
(* of a plan is skipped: before the cursor stands on one it has stood on   *)
(* all that precede it in reading order, goal by goal, action by action;   *)
(* and a session was closed as unresolved only when it had stood on all of *)
(* them (next_position, walk, advance).                                    *)
NothingSkipped ==
  \A i \in DOMAIN sessions :
    LET s == sessions[i] IN
      /\ s.position \in s.visited
      /\ \A p \in s.visited, q \in Addressable : Below(q, p) => q \in s.visited
      /\ "unresolved" \in s.outcomes => Addressable \subseteq s.visited

\* Does the page show what its session is?
Current(view) == view = View(view.session, sessions[view.session])

(* An outcome the page shows is one the server has saved: the page never   *)
(* decides that a problem is solved.  And it is the session's for good,    *)
(* unless a request has saved over what it had not loaded (render,         *)
(* require_active, save_progress).                                         *)
ShownOutcomeHolds ==
  page.shown.status \in Finished =>
    LET s == sessions[page.shown.session] IN
      /\ page.shown.status \in s.outcomes
      /\ s.overwritten \/ Current(page.shown)

\* Is w a view of a later session, or a later one of the same session?
NotOlder(v, w) ==
  \/ v.session < w.session
  \/ /\ v.session = w.session
     /\ v.position = w.position \/ Below(v.position, w.position)
     /\ v.status \in Finished => w = v

Overwritten(view) == view # Nothing /\ sessions[view.session].overwritten

(* The page never goes back: not to an earlier session, and to an earlier  *)
(* view of the same one only when a request has saved over what it had not *)
(* loaded; panels that were taken away and answers that come late do not   *)
(* take it there (call's busy flag).                                       *)
PageNeverGoesBack ==
  [][\/ NotOlder(page.shown, page'.shown)
     \/ page'.shown.session = page.shown.session /\ Overwritten(page'.shown)]_vars

CriticalEntered ==
  {entry \in (DOMAIN sessions) \X (plan.critical \ {Origin}) :
     entry[2] \in sessions[entry[1]].visited}

(* A dialog the user accepts lets the session into one critical action at  *)
(* most, and without a dialog it enters none past the opening one: no      *)
(* lost, late or overwriting request spends an agreement twice (the next   *)
(* button, advance).                                                       *)
OneDialogPerCriticalStep == Cardinality(CriticalEntered) <= dialogs

(* A user who stays with a session and keeps opening the link and asking   *)
(* for the next action is led to its end, whatever was lost on the way or  *)
(* saved late; asking alone is not enough, a refused advance does not      *)
(* refresh the page.                                                       *)
StayingUserFinishes ==
  <>[]page.panel
    => <>[](page.panel /\ sessions[page.shown.session].status \in Finished)
=============================================================================

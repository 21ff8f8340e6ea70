---------------------------- MODULE ConsoleProofs -----------------------------
(***************************************************************************)
(* What the page and the server agree on, for any plans, any number of     *)
(* sessions and any number of lost requests, with requests that save late. *)
(*                                                                         *)
(* The argument has four parts.  The page has one call at most under way,  *)
(* and every view it holds or is about to be sent is one its session had   *)
(* once, so the session has only moved on since or was overwritten (Known).*)
(* A copy a request holds is of a cursor the session has had, however long *)
(* ago (Copies); what is saved is such a position, or the next one of the  *)
(* plan, so what a session has visited has no gap (NothingSkipped, by the  *)
(* theorems of PlanProofs).  Every dialog accepted is either on its way as *)
(* an acknowledgement or spent on a critical action entered (Spent).       *)
(***************************************************************************)
EXTENDS Console, PlanProofs, FiniteSetTheorems

Typed == TypeOK /\ plan \in Offered /\ dialogs \in 0..MaxDialogs

OneCall ==
  /\ \A q, r \in awaited : q = r
  /\ page.busy <=> awaited # {}
  /\ \A q \in adrift : q.answer = Unserved
  /\ page.panel => page.shown # Nothing
  /\ IsFiniteSet(awaited) /\ IsFiniteSet(adrift)

\* The session of a view exists, was given the outcome in it, and has only moved
\* on since the view was made, unless it was overwritten.
Held(v, kept) ==
  /\ v.session \in DOMAIN kept
  /\ v.status \in Finished => v.status \in kept[v.session].outcomes
  /\ kept[v.session].overwritten \/ NotOlder(v, View(v.session, kept[v.session]))

Onward(v, w, kept) ==
  \/ NotOlder(v, w)
  \/ v.session = w.session /\ kept[w.session].overwritten

Known ==
  /\ \A q \in awaited \cup adrift : q.op # "start" => q.session \in DOMAIN sessions
  /\ \A q \in awaited : q.op # "start" => q.session = page.shown.session
  /\ page.shown # Nothing => Held(page.shown, sessions)
  /\ \A q \in awaited : q.answer \notin {Unserved, Refused} =>
       Held(q.answer, sessions) /\ Onward(page.shown, q.answer, sessions)

\* A copy a request holds is of a cursor its session has had, and whoever may
\* leave it for a critical action has the user's word.
CopyOf(q, kept) ==
  q.held # NoPosition =>
    /\ q.op # "start" /\ q.held \in kept[q.session].visited
    /\ q.op = "advance" /\ Following(q.held) \in plan.critical => q.acknowledge

Copies == \A q \in awaited \cup adrift : CopyOf(q, sessions)

Starts == {q \in Waiting : q.op = "start"}

Room == Len(sessions) + Cardinality(Starts) <= MaxSessions

Agreed == {q \in Waiting : q.acknowledge}

Spent ==
  /\ IsFiniteSet(CriticalEntered)
  /\ dialogs = MaxDialogs
       \/ Cardinality(CriticalEntered) + Cardinality(Agreed) <= dialogs

IInv == /\ Typed /\ OneCall /\ Known /\ Copies /\ Room
        /\ NothingSkipped /\ Spent
-----------------------------------------------------------------------------
(* The plan, and what views and sessions are made of.                      *)

LEMMA PlanFacts ==
  ASSUME plan \in Offered
  PROVE  \E p \in Nested :
           /\ plan.shape = p /\ plan.positions = PositionsOf(p)
           /\ plan.critical \subseteq PositionsOf(p)
           /\ \A pos \in PositionsOf(p) : plan.following[pos] = NextPosition(p, pos)
<1>1. PICK p \in Plans : plan = Tabulated(p)
  BY DEF Offered
<1>2. p \in Nested
  BY ConsoleAssumption
<1>3. PlacesOf(Walk(p)) = PositionsOf(p)
  BY <1>2, WalkIsInOrder
<1>4. {step.position : step \in ToSet(Walk(p))} = PositionsOf(p)
  BY <1>3 DEF PlacesOf
<1>5. {step.position : step \in {t \in ToSet(Walk(p)) : t.critical}} \subseteq PositionsOf(p)
  BY <1>4
<1>6. plan = [shape |-> p, positions |-> PositionsOf(p), critical |-> plan.critical,
              following |-> [pos \in PositionsOf(p) |-> NextPosition(p, pos)]]
      /\ plan.critical \subseteq PositionsOf(p)
  BY <1>1, <1>4, <1>5 DEF Tabulated
<1> QED BY <1>2, <1>6

LEMMA AddressableFacts ==
  ASSUME plan \in Offered
  PROVE  /\ Addressable \subseteq Nat \X Nat \X Nat
         /\ plan.critical \subseteq Addressable
         /\ NoPosition \notin Addressable
         /\ \A p \in Addressable : ~ Below(p, Origin)
         /\ Opens(plan.shape) => Origin \in Addressable
BY PlanFacts, PositionsAreTriples, OpensAtTheTop DEF Addressable

LEMMA FollowingFacts ==
  ASSUME plan \in Offered, NEW pos \in Addressable
  PROVE  /\ Following(pos) = NoPosition => \A q \in Addressable : ~ Below(pos, q)
         /\ Following(pos) # NoPosition =>
              /\ Following(pos) \in Addressable
              /\ Below(pos, Following(pos))
              /\ \A q \in Addressable : Below(q, Following(pos)) <=> q = pos \/ Below(q, pos)
<1>1. PICK p \in Nested :
        /\ Addressable = PositionsOf(p) /\ pos \in PositionsOf(p)
        /\ Following(pos) = NextPosition(p, pos)
  BY PlanFacts DEF Addressable, Following
<1>2. /\ NextPosition(p, pos) = NoPosition => \A q \in PositionsOf(p) : ~ Below(pos, q)
      /\ NextPosition(p, pos) # NoPosition =>
           /\ NextPosition(p, pos) \in PositionsOf(p)
           /\ \A q \in PositionsOf(p) :
                Below(q, NextPosition(p, pos)) <=> q = pos \/ Below(q, pos)
  BY <1>1, NextIsNext
<1> QED BY <1>1, <1>2

LEMMA NotOlderTransitive ==
  ASSUME plan \in Offered,
         NEW u \in Views \cup {Nothing}, NEW v \in Views, NEW w \in Views,
         NotOlder(u, v), NotOlder(v, w)
  PROVE  NotOlder(u, w)
<1>1. /\ u.session \in Nat /\ v.session \in Nat /\ w.session \in Nat
      /\ v.position \in Nat \X Nat \X Nat /\ w.position \in Nat \X Nat \X Nat
      /\ u.position \in Nat \X Nat \X Nat
  BY AddressableFacts DEF Views, Nothing, Origin
<1>2. CASE u.session < v.session \/ v.session < w.session
  BY <1>1, <1>2 DEF NotOlder
<1>3. CASE ~ (u.session < v.session) /\ ~ (v.session < w.session)
  <2>1. u.session = v.session /\ v.session = w.session
    BY <1>1, <1>3 DEF NotOlder
  <2>2. u.position = w.position \/ Below(u.position, w.position)
    <3>1. /\ u.position = v.position \/ Below(u.position, v.position)
          /\ v.position = w.position \/ Below(v.position, w.position)
      BY <1>3 DEF NotOlder
    <3>2. \A p, q, r \in Nat \X Nat \X Nat : Below(p, q) /\ Below(q, r) => Below(p, r)
      <4> TAKE p, q, r \in Nat \X Nat \X Nat
      <4>1. /\ p[1] \in Nat /\ p[2] \in Nat /\ p[3] \in Nat
            /\ q[1] \in Nat /\ q[2] \in Nat /\ q[3] \in Nat
            /\ r[1] \in Nat /\ r[2] \in Nat /\ r[3] \in Nat
        OBVIOUS
      <4> QED BY <4>1 DEF Below
    <3> QED BY <1>1, <3>1, <3>2
  <2>3. u.status \in Finished => w = u
    BY <1>3 DEF NotOlder
  <2> QED BY <2>1, <2>2, <2>3 DEF NotOlder
<1> QED BY <1>2, <1>3
LEMMA BelowIsTotal ==
  ASSUME NEW p \in Nat \X Nat \X Nat, NEW q \in Nat \X Nat \X Nat
  PROVE  p = q \/ Below(p, q) \/ Below(q, p)
<1>1. /\ p[1] \in Nat /\ p[2] \in Nat /\ p[3] \in Nat /\ p = <<p[1], p[2], p[3]>>
      /\ q[1] \in Nat /\ q[2] \in Nat /\ q[3] \in Nat /\ q = <<q[1], q[2], q[3]>>
  OBVIOUS
<1>2. CASE p[1] = q[1] /\ p[2] = q[2] /\ p[3] = q[3]
  BY <1>1, <1>2
<1>3. CASE ~ (p[1] = q[1] /\ p[2] = q[2] /\ p[3] = q[3])
  BY <1>1, <1>3 DEF Below
<1> QED BY <1>2, <1>3
-----------------------------------------------------------------------------
(* The steps, by what they do: the page sends, the page hears, a panel     *)
(* goes away, the server answers a request, or it works on one.            *)

Sends(op, acknowledge) ==
  /\ Send(op, acknowledge)
  /\ op \in Operations /\ acknowledge \in BOOLEAN
  /\ op # "start" => page.panel
  /\ op = "start" =>
       Len(sessions) + Cardinality({q \in awaited \cup adrift : q.op = "start"}) < MaxSessions
  /\ dialogs' = IF acknowledge /\ dialogs < MaxDialogs THEN dialogs + 1 ELSE dialogs

Clears ==
  /\ \E offered \in BOOLEAN : page' = [page EXCEPT !.panel = FALSE, !.offered = offered]
  /\ UNCHANGED <<plan, sessions, awaited, adrift, failures, dialogs>>

Hears(q) == q \in awaited /\ (Receive(q) \/ FetchFails(q))

Opening(q, view) == /\ q.op = "start" /\ Opens(plan.shape)
                    /\ sessions' = Append(sessions, Opened)
                    /\ view = View(Len(sessions) + 1, Opened)

\* What a request may leave of the copy it holds, before or when it is done.
Leaves(q, copy) == q.held # NoPosition /\ copy \in {Left(q.held, "open"), Served(q)}

Stores(q, copy) ==
  /\ Leaves(q, copy)
  /\ sessions' = [sessions EXCEPT ![q.session] = Saved(@, q, copy)]

Refusing(view) == view = Refused /\ UNCHANGED sessions

Answers(q, view) ==
  /\ q \in Waiting /\ Answer(q, view)
  /\ failures' = failures \/ (failures < MaxFailures /\ failures' = failures + 1)
  /\ \/ Opening(q, view) \/ Refusing(view)
     \/ \E copy : Stores(q, copy) /\ view = View(q.session, copy)

Loads(q, r) ==
  /\ q.op # "start" /\ q.held = NoPosition
  /\ Allowed(sessions[q.session], q)
  /\ r = [q EXCEPT !.held = sessions[q.session].position]
  /\ UNCHANGED sessions

Records(q, r) == Stores(q, Left(q.held, "open")) /\ r = [q EXCEPT !.recorded = TRUE]

Works(q, r) == /\ q \in Waiting /\ Becomes(q, r)
               /\ Loads(q, r) \/ Records(q, r)
               /\ UNCHANGED failures

LEMMA StepCases ==
  ASSUME Next
  PROVE  \/ \E op, acknowledge : Sends(op, acknowledge)
         \/ Clears
         \/ \E q : Hears(q)
         \/ \E q, view : Answers(q, view)
         \/ \E q, r : Works(q, r)
<1>1. ASSUME ClickStart PROVE Sends("start", FALSE)
  BY <1>1 DEF ClickStart, Sends, Operations
<1>2. ASSUME ClickLink PROVE Sends("present", FALSE)
  BY <1>2 DEF ClickLink, Sends, Operations
<1>3. ASSUME NEW op \in {"confirm", "abandon"}, ClickButton(op) PROVE Sends(op, FALSE)
  BY <1>3 DEF ClickButton, Enabled, Sends, Operations
<1>4. ASSUME ClickNext PROVE Sends("advance", NextIsCritical(page.shown))
  <2>1. NextIsCritical(page.shown) \in BOOLEAN
    BY DEF NextIsCritical
  <2> QED BY <1>4, <2>1 DEF ClickNext, Enabled, Sends, Operations, Acknowledges
<1>5. ASSUME Hide \/ Offer PROVE Clears
  BY <1>5 DEF Hide, Offer, Clears
<1>6. ASSUME NEW q \in Waiting, ServeStart(q) PROVE \E view : Answers(q, view)
  <2>1. CASE Validates(plan.shape) /\ Opens(plan.shape)
    BY <1>6, <2>1 DEF ServeStart, Answers, Opening
  <2>2. CASE ~ (Validates(plan.shape) /\ Opens(plan.shape))
    BY <1>6, <2>2 DEF ServeStart, Answers, Refusing
  <2> QED BY <2>1, <2>2
<1>7. ASSUME NEW q \in Waiting, Load(q)
      PROVE  (\E r : Works(q, r)) \/ \E view : Answers(q, view)
  <2>1. CASE Allowed(sessions[q.session], q)
    BY <1>7, <2>1 DEF Load, Works, Loads
  <2>2. CASE ~ Allowed(sessions[q.session], q)
    BY <1>7, <2>2 DEF Load, Answers, Refusing
  <2> QED BY <2>1, <2>2
<1>8. ASSUME NEW q \in Waiting, Record(q) PROVE \E r : Works(q, r)
  BY <1>8 DEF Record, Works, Records, Stores, Leaves
<1>9. ASSUME NEW q \in Waiting, Save(q) PROVE \E view : Answers(q, view)
  <2>1. Stores(q, Served(q)) /\ Answer(q, View(q.session, Served(q))) /\ failures' = failures
    BY <1>9 DEF Save, Stores, Leaves
  <2> QED BY <2>1 DEF Answers
<1>10. ASSUME NEW q \in Waiting, ServeFails(q) PROVE Answers(q, Refused)
  BY <1>10 DEF ServeFails, Answers, Refusing
<1>11. ASSUME NEW q \in awaited, Receive(q) \/ FetchFails(q) PROVE Hears(q)
  BY <1>11 DEF Hears
<1> QED BY <1>1, <1>2, <1>3, <1>4, <1>5, <1>6, <1>7, <1>8, <1>9, <1>10, <1>11 DEF Next, Serve

LEMMA SendFacts ==
  ASSUME Typed, OneCall, NEW op, NEW acknowledge, Sends(op, acknowledge)
  PROVE  \E q \in Requests :
           /\ q.op = op /\ q.session = page.shown.session
           /\ q.acknowledge = acknowledge /\ q.answer = Unserved /\ q.held = NoPosition
           /\ awaited = {} /\ awaited' = {q} /\ adrift' = adrift
           /\ Waiting' = Waiting \cup {q}
           /\ page' = [page EXCEPT !.busy = TRUE]
           /\ plan' = plan /\ sessions' = sessions /\ failures' = failures
<1> DEFINE q == [op |-> op, session |-> page.shown.session, acknowledge |-> acknowledge,
                 seen |-> failures, held |-> NoPosition, recorded |-> FALSE,
                 answer |-> Unserved]
<1>1. awaited = {} /\ awaited' = {q} /\ adrift' = adrift
  BY DEF Sends, Send, MaySend, OneCall
<1>2. q \in Requests
  <2>1. page.shown.session \in 0..MaxSessions
    BY ConsoleAssumption DEF Typed, TypeOK, Views, Nothing
  <2>2. failures \in 0..MaxFailures
    BY DEF Typed, TypeOK
  <2> QED BY <2>1, <2>2 DEF Requests, Sends
<1>3. Waiting' = Waiting \cup {q}
  BY <1>1 DEF Waiting
<1> QED BY <1>1, <1>2, <1>3 DEF Sends, Send

LEMMA ViewsAreServed ==
  /\ Unserved \notin Views /\ Refused \notin Views /\ Nothing \notin Views
  /\ Unserved # Refused
BY ConsoleAssumption DEF Views, Unserved, Refused, Nothing

LEMMA WaitingOnceLess ==
  ASSUME OneCall, NEW q \in Waiting, NEW view, view # Unserved, Answer(q, view)
  PROVE  /\ Waiting' = Waiting \ {q}
         /\ adrift' = adrift \ {q}
         /\ plan' = plan /\ page' = page /\ dialogs' = dialogs
         /\ q \in awaited => awaited' = {[q EXCEPT !.answer = view]}
         /\ q \notin awaited => awaited' = awaited
<1>1. [q EXCEPT !.answer = view].answer # Unserved
  <2>1. q.answer = Unserved
    BY DEF Waiting
  <2> QED BY <2>1
<1>2. q \in awaited => awaited' = {[q EXCEPT !.answer = view]}
  BY DEF OneCall, Answer
<1>3. q \notin awaited => awaited' = awaited
  BY DEF Answer
<1>4. Waiting' = Waiting \ {q}
  <2>1. CASE q \in awaited
    <3>1. awaited = {q}
      BY <2>1 DEF OneCall
    <3> QED BY <1>1, <1>2, <2>1, <3>1 DEF Answer, Waiting
  <2>2. CASE q \notin awaited
    BY <1>3, <2>2 DEF Answer, Waiting
  <2> QED BY <2>1, <2>2
<1> QED BY <1>2, <1>3, <1>4 DEF Answer
-----------------------------------------------------------------------------
(* What the state is made of.                                              *)

LEMMA StateFacts ==
  ASSUME Typed
  PROVE  /\ plan \in Offered /\ sessions \in Seq(Rows)
         /\ Len(sessions) \in Nat /\ DOMAIN sessions = 1..Len(sessions)
         /\ \A i \in DOMAIN sessions : sessions[i] \in Rows
         /\ awaited \subseteq Requests /\ adrift \subseteq Requests
         /\ Waiting \subseteq Requests
         /\ page.shown \in Views \cup {Nothing}
<1>1. sessions \in Seq(Rows) /\ awaited \subseteq Requests /\ adrift \subseteq Requests
  BY DEF Typed, TypeOK
<1>2. page.shown \in Views \cup {Nothing}
  BY DEF Typed, TypeOK
<1>3. Waiting \subseteq Requests
  BY <1>1 DEF Waiting
<1>4. /\ Len(sessions) \in Nat /\ DOMAIN sessions = 1..Len(sessions)
      /\ \A i \in DOMAIN sessions : sessions[i] \in Rows
  BY <1>1, LenProperties
<1> QED BY <1>1, <1>2, <1>3, <1>4 DEF Typed

\* A request that loads or records is still waited for.
LEMMA WorksFacts ==
  ASSUME Typed, OneCall, NEW q, NEW r, Works(q, r),
         q.op # "start" => q.session \in DOMAIN sessions
  PROVE  /\ q \in Waiting /\ q \in Requests /\ r \in Requests
         /\ r.answer = Unserved /\ r.op = q.op
         /\ r.session = q.session /\ r.acknowledge = q.acknowledge
         /\ plan' = plan /\ page' = page /\ dialogs' = dialogs /\ failures' = failures
         /\ q \in awaited => awaited' = {r}
         /\ q \notin awaited => awaited' = awaited
         /\ adrift' \subseteq (adrift \ {q}) \cup {r}
         /\ Waiting' = (Waiting \ {q}) \cup {r}
<1>1. q \in Waiting /\ q \in Requests /\ q.answer = Unserved
  BY StateFacts DEF Works, Waiting
<1>2. r \in Requests /\ r.op = q.op /\ r.session = q.session
      /\ r.acknowledge = q.acknowledge /\ r.answer = Unserved
  <2>1. CASE Loads(q, r)
    <3>1. PICK pos : pos = sessions[q.session].position
      OBVIOUS
    <3>2. sessions[q.session] \in Rows
      BY <2>1, StateFacts DEF Loads
    <3>3. pos \in Addressable
      BY <3>1, <3>2 DEF Rows
    <3>4. r = [q EXCEPT !.held = pos]
      BY <2>1, <3>1 DEF Loads
    <3> QED BY <1>1, <3>3, <3>4 DEF Requests
  <2>2. CASE Records(q, r)
    <3>1. r = [q EXCEPT !.recorded = TRUE]
      BY <2>2 DEF Records
    <3> QED BY <1>1, <3>1 DEF Requests
  <2> QED BY <2>1, <2>2 DEF Works
<1>3. /\ plan' = plan /\ page' = page /\ dialogs' = dialogs /\ failures' = failures
      /\ adrift' = IF q \in adrift THEN (adrift \ {q}) \cup {r} ELSE adrift
      /\ awaited' = IF q \in awaited THEN (awaited \ {q}) \cup {r} ELSE awaited
  BY DEF Works, Becomes
<1>4. q \in awaited => awaited' = {r}
  <2>1. q \in awaited => awaited \ {q} = {}
    BY DEF OneCall
  <2> QED BY <1>3, <2>1
<1>5. Waiting' = (Waiting \ {q}) \cup {r}
  BY <1>1, <1>2, <1>3 DEF Waiting
<1> QED BY <1>1, <1>2, <1>3, <1>4, <1>5
-----------------------------------------------------------------------------
(* What a request saves.                                                   *)

\* What it leaves is the cursor it loaded, or the next one of the plan.
LEMMA LeftFacts ==
  ASSUME plan \in Offered, NEW q \in Requests, NEW copy, Leaves(q, copy),
         q.op # "start", q.op = "advance" /\ Following(q.held) \in plan.critical => q.acknowledge
  PROVE  /\ q.held \in Addressable
         /\ copy.position \in Addressable /\ copy.status \in {"open"} \cup Finished
         /\ \/ /\ copy.position = q.held
               /\ copy.status = "unresolved" =>
                    \A p \in Addressable : ~ Below(q.held, p)
            \/ /\ copy.status = "open" /\ Below(q.held, copy.position)
               /\ \A p \in Addressable :
                    Below(p, copy.position) <=> p = q.held \/ Below(p, q.held)
               /\ copy.position \in plan.critical => q.acknowledge
<1>1. q.held \in Addressable
  BY DEF Requests, Leaves
<1>2. ASSUME NEW status \in {"open", "resolved", "abandoned"}, copy = Left(q.held, status)
      PROVE  /\ copy.position = q.held /\ copy.status \in {"open"} \cup Finished
             /\ copy.status # "unresolved"
  BY <1>2 DEF Left, Finished
<1>3. CASE copy = Left(q.held, "open") \/ q.op # "advance"
  <2>1. \E status \in {"open", "resolved", "abandoned"} : copy = Left(q.held, status)
    BY <1>3 DEF Leaves, Served, Requests, Operations
  <2> QED BY <1>1, <1>2, <2>1
<1>4. CASE copy = Served(q) /\ q.op = "advance"
  <2>1. PICK next : next = Following(q.held)
    OBVIOUS
  <2>2. CASE next = NoPosition
    <3>1. copy = [position |-> q.held, status |-> "unresolved"]
      BY <1>4, <2>1, <2>2 DEF Served, Advanced, Left
    <3>2. \A p \in Addressable : ~ Below(q.held, p)
      BY <1>1, <2>1, <2>2, FollowingFacts
    <3> QED BY <1>1, <3>1, <3>2 DEF Finished
  <2>3. CASE next # NoPosition
    <3>1. copy = [position |-> next, status |-> "open"]
      BY <1>4, <2>1, <2>3 DEF Served, Advanced, Left
    <3>2. /\ next \in Addressable /\ Below(q.held, next)
          /\ \A p \in Addressable : Below(p, next) <=> p = q.held \/ Below(p, q.held)
      BY <1>1, <2>1, <2>3, FollowingFacts
    <3>3. next \in plan.critical => q.acknowledge
      BY <1>4, <2>1
    <3> QED BY <1>1, <3>1, <3>2, <3>3
  <2> QED BY <2>2, <2>3
<1> QED BY <1>3, <1>4 DEF Leaves

\* A save keeps every other session, and of its own it keeps the history.
LEMMA StoredFacts ==
  ASSUME Typed, Known, Copies, NEW q \in Waiting, NEW copy, Stores(q, copy)
  PROVE  /\ q \in Requests /\ q.session \in DOMAIN sessions /\ Leaves(q, copy)
         /\ q.held \in sessions[q.session].visited
         /\ q.op # "start"
         /\ q.op = "advance" /\ Following(q.held) \in plan.critical => q.acknowledge
         /\ copy.position \in Addressable /\ copy.status \in {"open"} \cup Finished
         /\ sessions' \in Seq(Rows)
         /\ Len(sessions') = Len(sessions) /\ DOMAIN sessions' = DOMAIN sessions
         /\ \A i \in DOMAIN sessions : i # q.session => sessions'[i] = sessions[i]
         /\ LET s == sessions[q.session]
                t == sessions'[q.session]
            IN  /\ t.position = copy.position /\ t.status = copy.status
                /\ t.visited = s.visited \cup {copy.position}
                /\ t.outcomes = s.outcomes \cup ({copy.status} \cap Finished)
                /\ t.overwritten <=>
                     s.overwritten \/ s.position # q.held \/ s.status \in Finished
<1>1. q \in Requests /\ q \in awaited \cup adrift /\ q.held # NoPosition /\ Leaves(q, copy)
  BY StateFacts DEF Stores, Leaves, Waiting
<1>2. /\ q.op # "start" /\ q.held \in sessions[q.session].visited
      /\ q.op = "advance" /\ Following(q.held) \in plan.critical => q.acknowledge
  BY <1>1 DEF Copies, CopyOf
<1>3. q.session \in DOMAIN sessions
  BY <1>1, <1>2 DEF Known
<1>4. copy.position \in Addressable /\ copy.status \in {"open"} \cup Finished
  BY <1>1, <1>2, StateFacts, LeftFacts
<1>5. PICK s : s = sessions[q.session]
  OBVIOUS
<1>6. PICK t : t = Saved(s, q, copy)
  OBVIOUS
<1>7. s \in Rows
  BY <1>3, <1>5, StateFacts
<1>8. /\ t.position = copy.position /\ t.status = copy.status
      /\ t.visited = s.visited \cup {copy.position}
      /\ t.outcomes = s.outcomes \cup ({copy.status} \cap Finished)
      /\ t.overwritten = (s.overwritten \/ s.position # q.held \/ s.status \in Finished)
      /\ t \in Rows
  BY <1>4, <1>6, <1>7 DEF Saved, Rows
<1>9. sessions' = [sessions EXCEPT ![q.session] = t]
  BY <1>5, <1>6 DEF Stores
<1>10. /\ sessions' \in Seq(Rows) /\ Len(sessions') = Len(sessions)
       /\ DOMAIN sessions' = DOMAIN sessions
       /\ \A i \in DOMAIN sessions :
            sessions'[i] = IF i = q.session THEN t ELSE sessions[i]
  BY <1>3, <1>8, <1>9, StateFacts, ExceptSeq
<1>11. sessions'[q.session] = t
  BY <1>3, <1>10
<1> QED BY <1>1, <1>2, <1>3, <1>4, <1>5, <1>8, <1>10, <1>11

\* The session that a start opens, and the view that is made of it.
LEMMA OpeningFacts ==
  ASSUME Typed, Room, NEW q \in Waiting, NEW view, Opening(q, view), IsFiniteSet(Starts)
  PROVE  /\ sessions' \in Seq(Rows) /\ Opened \in Rows
         /\ view \in Views /\ view.session = Len(sessions) + 1
         /\ view = View(view.session, Opened)
         /\ Len(sessions') = Len(sessions) + 1
         /\ DOMAIN sessions' = DOMAIN sessions \cup {Len(sessions) + 1}
         /\ \A i \in DOMAIN sessions : sessions'[i] = sessions[i]
         /\ sessions'[Len(sessions) + 1] = Opened
<1>1. Opened \in Rows
  <2>1. Origin \in Addressable
    BY AddressableFacts DEF Opening, Typed
  <2> QED BY <2>1 DEF Opened, Rows
<1>2. /\ Len(sessions) \in Nat /\ DOMAIN sessions = 1..Len(sessions) /\ sessions \in Seq(Rows)
      /\ sessions' = Append(sessions, Opened)
  BY StateFacts DEF Opening
<1>3. /\ sessions' \in Seq(Rows) /\ Len(sessions') = Len(sessions) + 1
      /\ DOMAIN sessions' = 1..(Len(sessions) + 1)
      /\ \A i \in 1..Len(sessions) : sessions'[i] = sessions[i]
      /\ sessions'[Len(sessions) + 1] = Opened
  BY <1>1, <1>2, AppendProperties
<1>4. Len(sessions) + 1 \in 1..MaxSessions
  <2>1. q \in Starts
    BY DEF Starts, Opening
  <2>2. Cardinality(Starts) \in Nat /\ Cardinality(Starts) # 0
    BY <2>1, FS_CardinalityType, FS_EmptySet
  <2> QED BY <1>2, <2>2, ConsoleAssumption DEF Room
<1>5. /\ view.session = Len(sessions) + 1 /\ view = View(Len(sessions) + 1, Opened)
      /\ view \in Views
  <2>1. view = [session |-> Len(sessions) + 1, position |-> Opened.position, status |-> Opened.status]
    BY DEF Opening, View
  <2>2. Opened.position \in Addressable /\ Opened.status \in {"open"} \cup Finished
    BY <1>1 DEF Rows
  <2> QED BY <1>4, <2>1, <2>2 DEF Views, View
<1>6. 1..(Len(sessions) + 1) = (1..Len(sessions)) \cup {Len(sessions) + 1}
  BY <1>2
<1> QED BY <1>1, <1>2, <1>3, <1>5, <1>6

\* The view a save is answered with is a view of what was saved.
LEMMA SavedView ==
  ASSUME Typed, Known, Copies, Len(sessions) <= MaxSessions,
         NEW q \in Waiting, NEW copy, Stores(q, copy)
  PROVE  /\ View(q.session, copy) \in Views /\ View(q.session, copy).session = q.session
         /\ View(q.session, copy) = View(q.session, sessions'[q.session])
<1>1. /\ q.session \in DOMAIN sessions
      /\ copy.position \in Addressable /\ copy.status \in {"open"} \cup Finished
      /\ sessions'[q.session].position = copy.position
      /\ sessions'[q.session].status = copy.status
  BY StoredFacts
<1>2. q.session \in 1..MaxSessions
  BY <1>1, StateFacts, ConsoleAssumption
<1> QED BY <1>1, <1>2 DEF View, Views
-----------------------------------------------------------------------------
LEMMA SamePlan ==
  ASSUME plan' = plan
  PROVE  Addressable' = Addressable /\ Views' = Views /\ Rows' = Rows /\ Requests' = Requests
<1>1. Addressable' = Addressable
  BY DEF Addressable
<1>2. Views' = Views
  BY <1>1 DEF Views
<1> QED BY <1>1, <1>2 DEF Rows, Requests

LEMMA RoomFacts ==
  ASSUME Typed, OneCall, Room
  PROVE  /\ IsFiniteSet(Waiting) /\ IsFiniteSet(Starts) /\ IsFiniteSet(Agreed)
         /\ Cardinality(Starts) \in Nat /\ Cardinality(Agreed) \in Nat
         /\ Len(sessions) <= MaxSessions
<1>1. IsFiniteSet(awaited \cup adrift)
  BY FS_Union DEF OneCall
<1>2. Waiting \subseteq awaited \cup adrift
  BY DEF Waiting
<1>3. IsFiniteSet(Waiting)
  BY <1>1, <1>2, FS_Subset
<1>4. Starts \subseteq Waiting /\ Agreed \subseteq Waiting
  BY DEF Starts, Agreed
<1>5. IsFiniteSet(Starts) /\ IsFiniteSet(Agreed)
  BY <1>3, <1>4, FS_Subset
<1>6. Cardinality(Starts) \in Nat /\ Cardinality(Agreed) \in Nat
  BY <1>5, FS_CardinalityType
<1>7. Len(sessions) <= MaxSessions
  BY <1>6, StateFacts, ConsoleAssumption DEF Room
<1> QED BY <1>3, <1>5, <1>6, <1>7

LEMMA TypedFromParts ==
  ASSUME Typed, plan' = plan,
         sessions' \in Seq(Rows),
         page' \in [shown : Views \cup {Nothing}, panel : BOOLEAN, offered : BOOLEAN,
                    busy : BOOLEAN],
         awaited' \subseteq Requests, adrift' \subseteq Requests,
         failures' \in 0..MaxFailures, dialogs' \in 0..MaxDialogs
  PROVE  Typed'
<1>1. plan' \in Offered
  BY DEF Typed
<1>2. Rows' = Rows /\ Requests' = Requests /\ Views' = Views
  BY SamePlan
<1> QED BY <1>1, <1>2 DEF Typed, TypeOK

LEMMA TypedKept ==
  ASSUME Typed, OneCall, Known, Copies, Room, [Next]_vars
  PROVE  Typed'
<1>0. /\ plan \in Offered /\ sessions \in Seq(Rows)
      /\ awaited \subseteq Requests /\ adrift \subseteq Requests
      /\ page \in [shown : Views \cup {Nothing}, panel : BOOLEAN, offered : BOOLEAN,
                   busy : BOOLEAN]
      /\ failures \in 0..MaxFailures /\ dialogs \in 0..MaxDialogs
  BY StateFacts DEF Typed, TypeOK
<1>1. ASSUME NEW op, NEW acknowledge, Sends(op, acknowledge) PROVE Typed'
  <2>1. PICK q \in Requests :
           /\ awaited = {} /\ awaited' = {q} /\ adrift' = adrift
           /\ page' = [page EXCEPT !.busy = TRUE]
           /\ plan' = plan /\ sessions' = sessions /\ failures' = failures
    BY <1>1, SendFacts
  <2>2. dialogs' \in 0..MaxDialogs
    BY <1>0, <1>1, ConsoleAssumption DEF Sends
  <2>3. page' \in [shown : Views \cup {Nothing}, panel : BOOLEAN, offered : BOOLEAN,
                   busy : BOOLEAN] /\ page'.shown = page.shown
    BY <1>0, <2>1
  <2>4. awaited' \subseteq Requests /\ adrift' \subseteq Requests
    BY <1>0, <2>1
  <2> QED BY <1>0, <2>1, <2>2, <2>3, <2>4, TypedFromParts
<1>2. ASSUME Clears PROVE Typed'
  <2>1. page' \in [shown : Views \cup {Nothing}, panel : BOOLEAN, offered : BOOLEAN,
                   busy : BOOLEAN] /\ page'.shown = page.shown
    BY <1>0, <1>2 DEF Clears
  <2>2. /\ plan' = plan /\ sessions' = sessions /\ awaited' = awaited /\ adrift' = adrift
        /\ failures' = failures /\ dialogs' = dialogs
    BY <1>2 DEF Clears
  <2> QED BY <1>0, <2>1, <2>2, TypedFromParts
<1>3. ASSUME NEW q, Hears(q) PROVE Typed'
  <2>1. q \in Requests
    BY <1>0, <1>3 DEF Hears
  <2>2. /\ plan' = plan /\ sessions' = sessions /\ dialogs' = dialogs
        /\ awaited' \subseteq Requests /\ adrift' \subseteq Requests
    BY <1>0, <1>3, <2>1 DEF Hears, Receive, FetchFails
  <2>3. failures' \in 0..MaxFailures
    BY <1>0, <1>3, ConsoleAssumption DEF Hears, Receive, FetchFails
  <2>4. page' \in [shown : Views \cup {Nothing}, panel : BOOLEAN, offered : BOOLEAN,
                   busy : BOOLEAN]
    <3>1. CASE page' = AfterFailure(q)
      BY <1>0, <3>1 DEF AfterFailure
    <3>2. CASE page' = Render(q.answer) /\ q.answer \notin {Unserved, Refused}
      <4>1. q.answer \in Views
        BY <2>1, <3>2 DEF Requests
      <4> QED BY <1>0, <3>2, <4>1 DEF Render
    <3> QED BY <1>3, <3>1, <3>2 DEF Hears, Receive, FetchFails
  <2>5. page'.shown \in Views \cup {Nothing}
    BY <2>4
  <2> QED BY <1>0, <2>2, <2>3, <2>4, <2>5, TypedFromParts
<1>4. ASSUME NEW q, NEW view, Answers(q, view) PROVE Typed'
  <2>1. q \in Waiting /\ q \in Requests /\ Len(sessions) <= MaxSessions /\ IsFiniteSet(Starts)
    BY <1>4, StateFacts, RoomFacts DEF Answers
  <2>2. sessions' \in Seq(Rows) /\ view \in Views \cup {Refused}
    <3>1. CASE Opening(q, view)
      BY <2>1, <3>1, OpeningFacts
    <3>2. ASSUME NEW copy, Stores(q, copy), view = View(q.session, copy)
          PROVE  sessions' \in Seq(Rows) /\ view \in Views
      BY <2>1, <3>2, StoredFacts, SavedView
    <3>3. CASE Refusing(view)
      BY <1>0, <3>3 DEF Refusing
    <3> QED BY <1>4, <3>1, <3>2, <3>3 DEF Answers
  <2>3. Answer(q, view) /\ view # Unserved
    BY <1>4, <2>2, ViewsAreServed DEF Answers
  <2>4. /\ plan' = plan /\ page' = page /\ dialogs' = dialogs /\ adrift' \subseteq Requests
        /\ awaited' = awaited \/ awaited' = {[q EXCEPT !.answer = view]}
    BY <1>0, <2>1, <2>3, WaitingOnceLess
  <2>5. [q EXCEPT !.answer = view] \in Requests
    BY <2>1, <2>2 DEF Requests
  <2>6. awaited' \subseteq Requests
    BY <1>0, <2>4, <2>5
  <2>7. failures' \in 0..MaxFailures
    BY <1>0, <1>4, ConsoleAssumption DEF Answers
  <2> QED BY <1>0, <2>2, <2>4, <2>6, <2>7, TypedFromParts
<1>5. ASSUME NEW q, NEW r, Works(q, r) PROVE Typed'
  <2>1. q \in Waiting /\ (q.op # "start" => q.session \in DOMAIN sessions)
    BY <1>5 DEF Works, Waiting, Known
  <2>2. /\ r \in Requests /\ plan' = plan /\ page' = page /\ dialogs' = dialogs
        /\ failures' = failures
        /\ q \in awaited => awaited' = {r}
        /\ q \notin awaited => awaited' = awaited
        /\ adrift' \subseteq (adrift \ {q}) \cup {r}
    BY <1>5, <2>1, WorksFacts
  <2>3. awaited' \subseteq Requests /\ adrift' \subseteq Requests
    BY <1>0, <2>2
  <2>4. sessions' \in Seq(Rows)
    BY <1>0, <1>5, <2>1, StoredFacts DEF Works, Loads, Records
  <2> QED BY <1>0, <2>2, <2>3, <2>4, TypedFromParts
<1>6. ASSUME UNCHANGED vars PROVE Typed'
  BY <1>6 DEF vars, Typed, TypeOK, Addressable, Views, Rows, Requests
<1> QED BY <1>1, <1>2, <1>3, <1>4, <1>5, <1>6, StepCases
-----------------------------------------------------------------------------
LEMMA PageFacts ==
  ASSUME Typed
  PROVE  /\ page \in [shown : Views \cup {Nothing}, panel : BOOLEAN, offered : BOOLEAN,
                      busy : BOOLEAN]
         /\ \A view, panel, offered, busy :
              LET shows == [page EXCEPT !.shown = view, !.panel = panel,
                                        !.offered = offered, !.busy = busy] IN
                /\ shows.shown = view /\ shows.panel = panel
                /\ shows.offered = offered /\ shows.busy = busy
         /\ \A busy : LET waits == [page EXCEPT !.busy = busy] IN
              /\ waits.shown = page.shown /\ waits.panel = page.panel
              /\ waits.offered = page.offered /\ waits.busy = busy
         /\ \A offered : LET clear == [page EXCEPT !.panel = FALSE, !.offered = offered] IN
              clear.shown = page.shown /\ clear.panel = FALSE /\ clear.busy = page.busy
<1>1. page \in [shown : Views \cup {Nothing}, panel : BOOLEAN, offered : BOOLEAN,
                busy : BOOLEAN]
  BY DEF Typed, TypeOK
<1> QED BY <1>1

\* What is left of an answer when the page has heard it.
LEMMA HearsFacts ==
  ASSUME Typed, OneCall, NEW q, Hears(q)
  PROVE  /\ q \in Requests /\ awaited = {q} /\ awaited' = {} /\ page'.busy = FALSE
         /\ plan' = plan /\ sessions' = sessions /\ dialogs' = dialogs
         /\ q.answer = Unserved => adrift' \subseteq adrift \cup {q}
         /\ q.answer # Unserved => adrift' = adrift
         /\ \/ page'.shown = page.shown /\ page'.panel = page.panel
            \/ /\ q.answer \in Views /\ q.answer \notin {Unserved, Refused}
               /\ page'.shown = q.answer /\ page'.panel = TRUE
<1>1. q \in Requests /\ awaited = {q}
  BY StateFacts DEF Hears, OneCall
<1>2. awaited' = {} /\ plan' = plan /\ sessions' = sessions /\ dialogs' = dialogs
  BY <1>1 DEF Hears, Receive, FetchFails
<1>3. /\ q.answer = Unserved => adrift' \subseteq adrift \cup {q}
      /\ q.answer # Unserved => adrift' = adrift
  BY DEF Hears, Receive, FetchFails
<1>4. CASE page' = AfterFailure(q)
  BY <1>1, <1>2, <1>3, <1>4, PageFacts DEF AfterFailure
<1>5. CASE page' = Render(q.answer) /\ q.answer \notin {Unserved, Refused}
  <2>1. q.answer \in Views
    BY <1>1, <1>5 DEF Requests
  <2>2. page'.shown = q.answer /\ page'.panel = TRUE /\ page'.busy = FALSE
    BY <1>5, PageFacts DEF Render
  <2> QED BY <1>1, <1>2, <1>3, <1>5, <2>1, <2>2
<1> QED BY <1>4, <1>5 DEF Hears, Receive, FetchFails

LEMMA AnsweredViews ==
  ASSUME Typed, OneCall, Known, Copies, Room, NEW q, NEW view, Answers(q, view)
  PROVE  view \in Views \cup {Refused} /\ view # Unserved
<1>1. q \in Waiting /\ Len(sessions) <= MaxSessions /\ IsFiniteSet(Starts)
  BY RoomFacts DEF Answers
<1>2. view \in Views \cup {Refused}
  BY <1>1, OpeningFacts, SavedView DEF Answers, Refusing
<1> QED BY <1>2, ViewsAreServed

LEMMA OneCallKept ==
  ASSUME Typed, OneCall, Known, Copies, Room, [Next]_vars
  PROVE  OneCall'
<1>1. ASSUME NEW op, NEW acknowledge, Sends(op, acknowledge) PROVE OneCall'
  <2>1. PICK q \in Requests :
           /\ awaited' = {q} /\ adrift' = adrift /\ page' = [page EXCEPT !.busy = TRUE]
    BY <1>1, SendFacts
  <2>2. page'.busy = TRUE /\ page'.shown = page.shown /\ page'.panel = page.panel
    BY <2>1, PageFacts
  <2>3. IsFiniteSet({q})
    BY FS_Singleton
  <2> QED BY <2>1, <2>2, <2>3 DEF OneCall
<1>2. ASSUME Clears PROVE OneCall'
  <2>1. page'.shown = page.shown /\ page'.panel = FALSE /\ page'.busy = page.busy
    BY <1>2, PageFacts DEF Clears
  <2> QED BY <1>2, <2>1 DEF Clears, OneCall
<1>3. ASSUME NEW q, Hears(q) PROVE OneCall'
  <2>1. /\ awaited' = {} /\ page'.busy = FALSE
        /\ q.answer = Unserved => adrift' \subseteq adrift \cup {q}
        /\ q.answer # Unserved => adrift' = adrift
        /\ \/ page'.shown = page.shown /\ page'.panel = page.panel
           \/ q.answer \in Views /\ page'.shown = q.answer
    BY <1>3, HearsFacts
  <2>2. page'.panel => page'.shown # Nothing
    BY <2>1, ViewsAreServed DEF OneCall
  <2>3. IsFiniteSet(awaited') /\ IsFiniteSet(adrift')
    <3>1. IsFiniteSet(adrift) /\ IsFiniteSet(adrift \cup {q})
      BY FS_AddElement DEF OneCall
    <3>2. IsFiniteSet(adrift')
      BY <2>1, <3>1, FS_Subset
    <3> QED BY <2>1, <3>2, FS_EmptySet
  <2>4. \A r \in adrift' : r.answer = Unserved
    BY <2>1 DEF OneCall
  <2> QED BY <2>1, <2>2, <2>3, <2>4 DEF OneCall
<1>4. ASSUME NEW q, NEW view, Answers(q, view) PROVE OneCall'
  <2>1. q \in Waiting /\ Answer(q, view)
    BY <1>4 DEF Answers
  <2>2. view # Unserved
    BY <1>4, AnsweredViews
  <2>3. /\ page' = page /\ adrift' = adrift \ {q}
        /\ q \in awaited => awaited' = {[q EXCEPT !.answer = view]}
        /\ q \notin awaited => awaited' = awaited
    BY <2>1, <2>2, WaitingOnceLess
  <2>4. IsFiniteSet(awaited') /\ IsFiniteSet(adrift')
    <3>1. IsFiniteSet(adrift \ {q})
      BY FS_RemoveElement DEF OneCall
    <3>2. IsFiniteSet({[q EXCEPT !.answer = view]}) /\ IsFiniteSet(awaited)
      BY FS_Singleton DEF OneCall
    <3> QED BY <2>3, <3>1, <3>2
  <2>5. /\ awaited' # {} <=> awaited # {}
        /\ \A r, s \in awaited' : r = s
    BY <2>3 DEF OneCall
  <2>6. \A r \in adrift' : r.answer = Unserved
    BY <2>3 DEF OneCall
  <2> QED BY <2>3, <2>4, <2>5, <2>6 DEF OneCall
<1>5. ASSUME NEW q, NEW r, Works(q, r) PROVE OneCall'
  <2>1. q.op # "start" => q.session \in DOMAIN sessions
    BY <1>5 DEF Works, Waiting, Known
  <2>2. /\ r.answer = Unserved /\ page' = page
        /\ q \in awaited => awaited' = {r}
        /\ q \notin awaited => awaited' = awaited
        /\ adrift' \subseteq (adrift \ {q}) \cup {r}
    BY <1>5, <2>1, WorksFacts
  <2>3. IsFiniteSet(awaited') /\ IsFiniteSet(adrift')
    <3>1. IsFiniteSet(adrift \ {q}) /\ IsFiniteSet((adrift \ {q}) \cup {r})
      BY FS_RemoveElement, FS_AddElement DEF OneCall
    <3>2. IsFiniteSet(adrift')
      BY <2>2, <3>1, FS_Subset
    <3>3. IsFiniteSet({r}) /\ IsFiniteSet(awaited)
      BY FS_Singleton DEF OneCall
    <3> QED BY <2>2, <3>2, <3>3
  <2>4. /\ awaited' # {} <=> awaited # {}
        /\ \A s, t \in awaited' : s = t
    BY <2>2 DEF OneCall
  <2>5. \A s \in adrift' : s.answer = Unserved
    BY <2>2 DEF OneCall
  <2> QED BY <2>2, <2>3, <2>4, <2>5 DEF OneCall
<1>6. ASSUME UNCHANGED vars PROVE OneCall'
  BY <1>6 DEF vars, OneCall
<1> QED BY <1>1, <1>2, <1>3, <1>4, <1>5, <1>6, StepCases
-----------------------------------------------------------------------------
LEMMA ViewOfSession ==
  ASSUME NEW i \in 1..MaxSessions, NEW s \in Rows
  PROVE  /\ View(i, s) \in Views /\ View(i, s).session = i
         /\ View(i, s).position = s.position /\ View(i, s).status = s.status
BY DEF View, Views, Rows

LEMMA NotOlderThanItself ==
  ASSUME NEW v
  PROVE  NotOlder(v, v)
BY DEF NotOlder

\* What the server does to the sessions in any of its steps.
Grown ==
  /\ DOMAIN sessions \subseteq DOMAIN sessions'
  /\ \A i \in DOMAIN sessions :
       /\ sessions[i].visited \subseteq sessions'[i].visited
       /\ sessions[i].outcomes \subseteq sessions'[i].outcomes
       /\ sessions[i].overwritten => sessions'[i].overwritten
       /\ sessions'[i].overwritten \/ NotOlder(View(i, sessions[i]), View(i, sessions'[i]))

LEMMA SameIsGrown ==
  ASSUME sessions' = sessions
  PROVE  Grown
BY NotOlderThanItself DEF Grown

LEMMA SessionsGrow ==
  ASSUME Typed, Known, Copies, Room, IsFiniteSet(Starts), NEW q \in Waiting,
         (\E view : Opening(q, view)) \/ \E copy : Stores(q, copy)
  PROVE  Grown
<1>1. ASSUME NEW view, Opening(q, view) PROVE Grown
  <2>1. /\ DOMAIN sessions' = DOMAIN sessions \cup {Len(sessions) + 1}
        /\ \A i \in DOMAIN sessions : sessions'[i] = sessions[i]
    BY <1>1, OpeningFacts
  <2> QED BY <2>1, NotOlderThanItself DEF Grown
<1>2. ASSUME NEW copy, Stores(q, copy) PROVE Grown
  <2>1. PICK i : i = q.session
    OBVIOUS
  <2>2. PICK s : s = sessions[i]
    OBVIOUS
  <2>3. PICK t : t = sessions'[i]
    OBVIOUS
  <2>4. /\ q \in Requests /\ i \in DOMAIN sessions /\ Leaves(q, copy) /\ q.op # "start"
        /\ q.op = "advance" /\ Following(q.held) \in plan.critical => q.acknowledge
        /\ DOMAIN sessions' = DOMAIN sessions
        /\ \A j \in DOMAIN sessions : j # i => sessions'[j] = sessions[j]
        /\ t.position = copy.position /\ t.status = copy.status
        /\ t.visited = s.visited \cup {copy.position}
        /\ t.outcomes = s.outcomes \cup ({copy.status} \cap Finished)
        /\ t.overwritten <=> s.overwritten \/ s.position # q.held \/ s.status \in Finished
    BY <1>2, <2>1, <2>2, <2>3, StoredFacts
  <2>5. copy.position = q.held \/ Below(q.held, copy.position)
    BY <2>4, StateFacts, LeftFacts
  <2>6. t.overwritten \/ NotOlder(View(i, s), View(i, t))
    BY <2>4, <2>5 DEF NotOlder, View
  <2>7. \A j \in DOMAIN sessions :
          /\ sessions[j].visited \subseteq sessions'[j].visited
          /\ sessions[j].outcomes \subseteq sessions'[j].outcomes
          /\ sessions[j].overwritten => sessions'[j].overwritten
          /\ sessions'[j].overwritten \/ NotOlder(View(j, sessions[j]), View(j, sessions'[j]))
    <3> TAKE j \in DOMAIN sessions
    <3>1. CASE j = i
      BY <2>2, <2>3, <2>4, <2>6, <3>1
    <3>2. CASE j # i
      BY <2>4, <3>2, NotOlderThanItself
    <3> QED BY <3>1, <3>2
  <2> QED BY <2>4, <2>7 DEF Grown
<1> QED BY <1>1, <1>2

\* The sessions may grow, and a view that was one's own stays one.
LEMMA HeldKept ==
  ASSUME Typed, Grown, sessions' \in Seq(Rows), NEW v \in Views, Held(v, sessions)
  PROVE  Held(v, sessions')
<1>1. PICK i : i = v.session
  OBVIOUS
<1>2. i \in DOMAIN sessions /\ i \in DOMAIN sessions'
  BY <1>1 DEF Held, Grown
<1>3. PICK s : s = sessions[i]
  OBVIOUS
<1>4. PICK t : t = sessions'[i]
  OBVIOUS
<1>5. /\ s.outcomes \subseteq t.outcomes /\ (s.overwritten => t.overwritten)
      /\ t.overwritten \/ NotOlder(View(i, s), View(i, t))
  BY <1>2, <1>3, <1>4 DEF Grown
<1>6. s \in Rows /\ i \in 1..MaxSessions /\ plan \in Offered
  BY <1>1, <1>2, <1>3, StateFacts DEF Views
<1>7. t \in Rows
  BY <1>2, <1>4, LenProperties
<1>8. s.overwritten \/ NotOlder(v, View(i, s))
  BY <1>1, <1>3 DEF Held
<1>9. t.overwritten \/ NotOlder(v, View(i, t))
  <2>1. View(i, s) \in Views /\ View(i, t) \in Views
    BY <1>6, <1>7, ViewOfSession
  <2> QED BY <1>5, <1>6, <1>8, <2>1, NotOlderTransitive
<1>10. v.status \in Finished => v.status \in t.outcomes
  BY <1>1, <1>3, <1>5 DEF Held
<1> QED BY <1>1, <1>2, <1>4, <1>9, <1>10 DEF Held

\* What the server has done when it answers, and when it does not yet.
LEMMA AnswersFacts ==
  ASSUME Typed, OneCall, Known, Copies, Room, NEW q, NEW view, Answers(q, view)
  PROVE  /\ q \in Waiting /\ q \in Requests /\ q.answer = Unserved
         /\ Waiting' = Waiting \ {q} /\ adrift' = adrift \ {q}
         /\ plan' = plan /\ page' = page /\ dialogs' = dialogs
         /\ q \in awaited => awaited' = {[q EXCEPT !.answer = view]}
         /\ q \notin awaited => awaited' = awaited
         /\ Grown /\ sessions' \in Seq(Rows) /\ view # Unserved
         /\ view # Refused =>
              /\ view \in Views /\ Held(view, sessions')
              /\ q.op = "start" => view.session = Len(sessions) + 1
              /\ q.op # "start" => view.session = q.session
<1>1. /\ q \in Waiting /\ Answer(q, view) /\ view # Unserved
      /\ Len(sessions) <= MaxSessions /\ IsFiniteSet(Starts)
  BY AnsweredViews, RoomFacts DEF Answers
<1>2. /\ Waiting' = Waiting \ {q} /\ adrift' = adrift \ {q}
      /\ plan' = plan /\ page' = page /\ dialogs' = dialogs
      /\ q \in awaited => awaited' = {[q EXCEPT !.answer = view]}
      /\ q \notin awaited => awaited' = awaited
  BY <1>1, WaitingOnceLess
<1>3. q \in Requests /\ q.answer = Unserved
  BY <1>1, StateFacts DEF Waiting
<1>4. CASE Opening(q, view)
  <2>1. /\ view \in Views /\ view.session = Len(sessions) + 1
        /\ view = View(view.session, Opened) /\ sessions' \in Seq(Rows)
        /\ DOMAIN sessions' = DOMAIN sessions \cup {Len(sessions) + 1}
        /\ sessions'[Len(sessions) + 1] = Opened
    BY <1>1, <1>4, OpeningFacts
  <2>2. view.status \notin Finished
    BY <2>1 DEF View, Opened, Finished
  <2>3. Held(view, sessions')
    BY <2>1, <2>2, NotOlderThanItself DEF Held
  <2>4. Grown
    BY <1>1, <1>4, SessionsGrow
  <2> QED BY <1>1, <1>2, <1>3, <1>4, <2>1, <2>3, <2>4 DEF Opening
<1>5. ASSUME NEW copy, Stores(q, copy), view = View(q.session, copy)
      PROVE  /\ view \in Views /\ Held(view, sessions') /\ view.session = q.session
             /\ q.op # "start" /\ sessions' \in Seq(Rows)
  <2>1. /\ view \in Views /\ view.session = q.session
        /\ view = View(q.session, sessions'[q.session])
    BY <1>1, <1>5, SavedView
  <2>2. /\ q.session \in DOMAIN sessions' /\ q.op # "start" /\ sessions' \in Seq(Rows)
        /\ sessions'[q.session].outcomes
             = sessions[q.session].outcomes \cup ({copy.status} \cap Finished)
    BY <1>1, <1>5, StoredFacts
  <2>3. view.status = copy.status
    BY <1>5 DEF View
  <2> QED BY <2>1, <2>2, <2>3, NotOlderThanItself DEF Held
<1>6. ASSUME NEW copy, Stores(q, copy) PROVE Grown
  BY <1>1, <1>6, SessionsGrow
<1>7. CASE Refusing(view)
  <2>1. sessions' = sessions /\ view = Refused
    BY <1>7 DEF Refusing
  <2> QED BY <1>1, <1>2, <1>3, <2>1, SameIsGrown, StateFacts
<1> QED BY <1>1, <1>2, <1>3, <1>4, <1>5, <1>6, <1>7 DEF Answers

LEMMA WorkingGrows ==
  ASSUME Typed, OneCall, Known, Copies, Room, NEW q, NEW r, Works(q, r)
  PROVE  /\ Grown /\ sessions' \in Seq(Rows)
         /\ q.op # "start" /\ q.session \in DOMAIN sessions
<1>1. q \in Waiting /\ IsFiniteSet(Starts)
  BY RoomFacts DEF Works
<1>2. CASE Loads(q, r)
  <2>1. q.op # "start" /\ sessions' = sessions
    BY <1>2 DEF Loads
  <2>2. q.session \in DOMAIN sessions
    BY <1>1, <2>1 DEF Known, Waiting
  <2> QED BY <2>1, <2>2, SameIsGrown, StateFacts
<1>3. CASE Records(q, r)
  <2>1. Stores(q, Left(q.held, "open"))
    BY <1>3 DEF Records
  <2>2. Grown
    BY <1>1, <2>1, SessionsGrow
  <2> QED BY <1>1, <2>1, <2>2, StoredFacts
<1> QED BY <1>2, <1>3 DEF Works

LEMMA OnwardKept ==
  ASSUME Grown, NEW v, NEW w, w.session \in DOMAIN sessions, Onward(v, w, sessions)
  PROVE  Onward(v, w, sessions')
BY DEF Grown, Onward

\* The answer of a call that is waited for is of the session the page shows.
LEMMA AnswerIsOnward ==
  ASSUME Typed, Known, Grown, sessions' \in Seq(Rows), page.shown # Nothing,
         NEW view \in Views, view.session = page.shown.session, Held(view, sessions'),
         view = View(view.session, sessions'[view.session])
  PROVE  Onward(page.shown, view, sessions')
<1>1. PICK i : i = view.session
  OBVIOUS
<1>2. Held(page.shown, sessions) /\ page.shown \in Views
  BY StateFacts DEF Known
<1>3. Held(page.shown, sessions')
  BY <1>2, HeldKept
<1> QED BY <1>3 DEF Held, Onward

LEMMA KnownKept ==
  ASSUME Typed, OneCall, Known, Copies, Room, [Next]_vars
  PROVE  Known'
<1>0. /\ page.shown \in Views \cup {Nothing} /\ Len(sessions) \in Nat
      /\ DOMAIN sessions = 1..Len(sessions) /\ plan \in Offered
  BY StateFacts
<1>1. ASSUME NEW op, NEW acknowledge, Sends(op, acknowledge) PROVE Known'
  <2>1. PICK q \in Requests :
           /\ q.op = op /\ q.session = page.shown.session /\ q.answer = Unserved
           /\ awaited' = {q} /\ adrift' = adrift /\ page' = [page EXCEPT !.busy = TRUE]
           /\ sessions' = sessions
    BY <1>1, SendFacts
  <2>2. page'.shown = page.shown
    BY <2>1, PageFacts
  <2>3. q.op # "start" => q.session \in DOMAIN sessions
    <3>1. q.op # "start" => page.shown # Nothing
      BY <1>1, <2>1 DEF Sends, OneCall
    <3> QED BY <2>1, <3>1 DEF Known, Held
  <2> QED BY <2>1, <2>2, <2>3 DEF Known
<1>2. ASSUME Clears PROVE Known'
  <2>1. page'.shown = page.shown
    BY <1>2, PageFacts DEF Clears
  <2> QED BY <1>2, <2>1 DEF Clears, Known
<1>3. ASSUME NEW q, Hears(q) PROVE Known'
  <2>1. /\ awaited = {q} /\ awaited' = {} /\ sessions' = sessions
        /\ adrift' \subseteq adrift \cup {q}
        /\ \/ page'.shown = page.shown
           \/ q.answer \notin {Unserved, Refused} /\ page'.shown = q.answer
    BY <1>3, HearsFacts
  <2>2. \A r \in adrift' : r.op # "start" => r.session \in DOMAIN sessions'
    BY <2>1 DEF Known
  <2>3. page'.shown # Nothing => Held(page'.shown, sessions')
    BY <2>1 DEF Known
  <2> QED BY <2>1, <2>2, <2>3 DEF Known
<1>4. ASSUME NEW q, NEW view, Answers(q, view) PROVE Known'
  <2>1. /\ q \in Waiting /\ q \in Requests /\ Grown /\ sessions' \in Seq(Rows)
        /\ adrift' = adrift \ {q} /\ page' = page /\ view # Unserved
        /\ q \in awaited => awaited' = {[q EXCEPT !.answer = view]}
        /\ q \notin awaited => awaited' = awaited
        /\ view # Refused =>
             /\ view \in Views /\ Held(view, sessions')
             /\ q.op = "start" => view.session = Len(sessions) + 1
             /\ q.op # "start" => view.session = q.session
    BY <1>4, AnswersFacts
  <2>2. DOMAIN sessions \subseteq DOMAIN sessions'
    BY <2>1 DEF Grown
  <2>3. page.shown # Nothing => Held(page.shown, sessions')
    BY <1>0, <2>1, HeldKept DEF Known
  <2>4. CASE q \notin awaited
    <3>1. ASSUME NEW r \in awaited, r.answer \notin {Unserved, Refused}
          PROVE  Held(r.answer, sessions') /\ Onward(page.shown, r.answer, sessions')
      <4>1. r.answer \in Views /\ Held(r.answer, sessions)
            /\ Onward(page.shown, r.answer, sessions)
        BY <3>1, StateFacts DEF Requests, Known
      <4>2. r.answer.session \in DOMAIN sessions
        BY <4>1 DEF Held
      <4> QED BY <2>1, <4>1, <4>2, HeldKept, OnwardKept
    <3> QED BY <2>1, <2>2, <2>3, <2>4, <3>1 DEF Known
  <2>5. CASE q \in awaited
    <3>1. PICK r : r = [q EXCEPT !.answer = view]
      OBVIOUS
    <3>2. r.op = q.op /\ r.session = q.session /\ r.answer = view
      BY <2>1, <3>1 DEF Requests
    <3>3. r.op # "start" => r.session \in DOMAIN sessions' /\ r.session = page.shown.session
      BY <2>2, <2>5, <3>2 DEF Known
    <3>4. ASSUME view # Refused PROVE Onward(page.shown, view, sessions')
      <4>1. CASE q.op = "start"
        <5>1. page.shown.session < Len(sessions) + 1
          <6>1. CASE page.shown = Nothing
            BY <1>0, <6>1 DEF Nothing
          <6>2. CASE page.shown # Nothing
            <7>1. page.shown.session \in DOMAIN sessions
              BY <6>2 DEF Known, Held
            <7> QED BY <1>0, <7>1
          <6> QED BY <6>1, <6>2
        <5> QED BY <2>1, <3>4, <4>1, <5>1 DEF NotOlder, Onward
      <4>2. CASE q.op # "start"
        <5>1. view.session = page.shown.session /\ page.shown.session \in DOMAIN sessions
          BY <2>1, <2>5, <3>4, <4>2 DEF Known
        <5>2. page.shown # Nothing
          BY <1>0, <5>1 DEF Nothing
        <5>3. PICK copy : Stores(q, copy) /\ view = View(q.session, copy)
          BY <1>4, <3>4, <4>2 DEF Answers, Opening, Refusing
        <5>4. view = View(view.session, sessions'[view.session])
          BY <2>1, <4>2, <3>4, <5>3, RoomFacts, SavedView
        <5> QED BY <2>1, <3>4, <5>1, <5>2, <5>4, AnswerIsOnward
      <4> QED BY <4>1, <4>2
    <3>5. \A t \in adrift' : t.op # "start" => t.session \in DOMAIN sessions'
      BY <2>1, <2>2 DEF Known
    <3>6. awaited' = {r}
      BY <2>1, <2>5, <3>1
    <3>7. view \notin {Unserved, Refused} =>
            Held(view, sessions') /\ Onward(page.shown, view, sessions')
      BY <2>1, <3>4
    <3> QED BY <2>1, <2>3, <3>2, <3>3, <3>5, <3>6, <3>7 DEF Known
  <2> QED BY <2>4, <2>5
<1>5. ASSUME NEW q, NEW r, Works(q, r) PROVE Known'
  <2>1. /\ Grown /\ sessions' \in Seq(Rows)
        /\ q.op # "start" /\ q.session \in DOMAIN sessions
    BY <1>5, WorkingGrows
  <2>2. /\ q \in Waiting /\ r.answer = Unserved /\ r.op = q.op /\ r.session = q.session
        /\ page' = page
        /\ q \in awaited => awaited' = {r}
        /\ q \notin awaited => awaited' = awaited
        /\ adrift' \subseteq (adrift \ {q}) \cup {r}
    BY <1>5, <2>1, WorksFacts
  <2>3. DOMAIN sessions \subseteq DOMAIN sessions'
    BY <2>1 DEF Grown
  <2>4. page.shown # Nothing => Held(page.shown, sessions')
    BY <1>0, <2>1, HeldKept DEF Known
  <2>5. ASSUME NEW t \in awaited', t.answer \notin {Unserved, Refused}
        PROVE  Held(t.answer, sessions') /\ Onward(page.shown, t.answer, sessions')
    <3>1. t \in awaited
      BY <2>2, <2>5
    <3>2. /\ t.answer \in Views /\ Held(t.answer, sessions)
          /\ Onward(page.shown, t.answer, sessions)
      BY <2>5, <3>1, StateFacts DEF Requests, Known
    <3>3. t.answer.session \in DOMAIN sessions
      BY <3>2 DEF Held
    <3> QED BY <2>1, <3>2, <3>3, HeldKept, OnwardKept
  <2>6. \A t \in awaited' \cup adrift' : t.op # "start" => t.session \in DOMAIN sessions'
    BY <2>1, <2>2, <2>3 DEF Known
  <2>7. \A t \in awaited' : t.op # "start" => t.session = page.shown.session
    BY <2>2 DEF Known
  <2> QED BY <2>2, <2>4, <2>5, <2>6, <2>7 DEF Known
<1>6. ASSUME UNCHANGED vars PROVE Known'
  BY <1>6 DEF vars, Known
<1> QED BY <1>1, <1>2, <1>3, <1>4, <1>5, <1>6, StepCases
-----------------------------------------------------------------------------
LEMMA CopyKept ==
  ASSUME Grown, plan' = plan, NEW r, r.op # "start" => r.session \in DOMAIN sessions,
         CopyOf(r, sessions)
  PROVE  CopyOf(r, sessions)'
<1>1. r.held # NoPosition => r.held \in sessions'[r.session].visited
  BY DEF Grown, CopyOf
<1> QED BY <1>1 DEF CopyOf, Following

LEMMA CopiesKept ==
  ASSUME Typed, OneCall, Known, Copies, Room, NothingSkipped, [Next]_vars
  PROVE  Copies'
<1>0. SUFFICES \A r \in awaited' \cup adrift' : CopyOf(r, sessions)'
  BY DEF Copies
<1>1. \A r \in awaited \cup adrift :
        CopyOf(r, sessions) /\ (r.op # "start" => r.session \in DOMAIN sessions)
  BY DEF Copies, Known
<1>2. ASSUME plan' = plan, Grown
      PROVE  \A r \in awaited \cup adrift : CopyOf(r, sessions)'
  BY <1>1, <1>2, CopyKept
<1>3. ASSUME NEW op, NEW acknowledge, Sends(op, acknowledge)
      PROVE  \A r \in awaited' \cup adrift' : CopyOf(r, sessions)'
  <2>1. PICK q \in Requests :
           /\ q.held = NoPosition /\ awaited' = {q} /\ adrift' = adrift
           /\ plan' = plan /\ sessions' = sessions
    BY <1>3, SendFacts
  <2>2. CopyOf(q, sessions)'
    BY <2>1 DEF CopyOf
  <2> QED BY <1>2, <2>1, <2>2, SameIsGrown
<1>4. ASSUME Clears \/ UNCHANGED vars
      PROVE  \A r \in awaited' \cup adrift' : CopyOf(r, sessions)'
  <2>1. plan' = plan /\ sessions' = sessions /\ awaited' = awaited /\ adrift' = adrift
    BY <1>4 DEF Clears, vars
  <2> QED BY <1>2, <2>1, SameIsGrown
<1>5. ASSUME NEW q, Hears(q)
      PROVE  \A r \in awaited' \cup adrift' : CopyOf(r, sessions)'
  <2>1. /\ plan' = plan /\ sessions' = sessions /\ awaited = {q} /\ awaited' = {}
        /\ adrift' \subseteq adrift \cup {q}
    BY <1>5, HearsFacts
  <2> QED BY <1>2, <2>1, SameIsGrown
<1>6. ASSUME NEW q, NEW view, Answers(q, view)
      PROVE  \A r \in awaited' \cup adrift' : CopyOf(r, sessions)'
  <2>1. /\ q \in Waiting /\ q \in Requests /\ Grown /\ plan' = plan
        /\ adrift' = adrift \ {q}
        /\ q \in awaited => awaited' = {[q EXCEPT !.answer = view]}
        /\ q \notin awaited => awaited' = awaited
    BY <1>6, AnswersFacts
  <2>2. PICK r : r = [q EXCEPT !.answer = view]
    OBVIOUS
  <2>3. /\ r.op = q.op /\ r.session = q.session /\ r.held = q.held
        /\ r.acknowledge = q.acknowledge
    BY <2>1, <2>2 DEF Requests
  <2>4. CopyOf(q, sessions)'
    BY <1>2, <2>1 DEF Waiting
  <2>5. CopyOf(r, sessions)'
    BY <2>3, <2>4 DEF CopyOf
  <2> QED BY <1>2, <2>1, <2>2, <2>5
<1>7. ASSUME NEW q, NEW r, Works(q, r)
      PROVE  \A t \in awaited' \cup adrift' : CopyOf(t, sessions)'
  <2>1. Grown /\ q.op # "start" /\ q.session \in DOMAIN sessions
    BY <1>7, WorkingGrows
  <2>2. /\ q \in Waiting /\ q \in Requests /\ r.op = q.op /\ r.session = q.session
        /\ r.acknowledge = q.acknowledge /\ plan' = plan
        /\ q \in awaited => awaited' = {r}
        /\ q \notin awaited => awaited' = awaited
        /\ adrift' \subseteq (adrift \ {q}) \cup {r}
    BY <1>7, <2>1, WorksFacts
  <2>3. CopyOf(r, sessions)'
    <3>1. CASE Loads(q, r)
      <4>1. PICK s : s = sessions[q.session]
        OBVIOUS
      <4>2. s.position \in s.visited /\ Allowed(s, q) /\ sessions' = sessions
        BY <2>1, <3>1, <4>1 DEF NothingSkipped, Loads
      <4>3. r.held = s.position
        BY <2>2, <3>1, <4>1 DEF Loads, Requests
      <4>4. q.op = "advance" /\ Following(s.position) \in plan.critical => q.acknowledge
        BY <4>2 DEF Allowed, NextIsCritical
      <4> QED BY <2>1, <2>2, <4>1, <4>2, <4>3, <4>4 DEF CopyOf, Following
    <3>2. CASE Records(q, r)
      <4>1. r.held = q.held
        BY <2>2, <3>2 DEF Records, Requests
      <4>2. CopyOf(q, sessions)'
        BY <1>2, <2>1, <2>2 DEF Waiting
      <4> QED BY <2>2, <4>1, <4>2 DEF CopyOf
    <3> QED BY <1>7, <3>1, <3>2 DEF Works
  <2> QED BY <1>2, <2>1, <2>2, <2>3
<1> QED BY <1>3, <1>4, <1>5, <1>6, <1>7, StepCases
-----------------------------------------------------------------------------
LEMMA WaitingAfterHearing ==
  ASSUME Typed, OneCall, NEW q, Hears(q)
  PROVE  Waiting' \subseteq Waiting
<1>1. /\ awaited = {q} /\ awaited' = {}
      /\ q.answer = Unserved => adrift' \subseteq adrift \cup {q}
      /\ q.answer # Unserved => adrift' = adrift
  BY HearsFacts
<1> QED BY <1>1 DEF Waiting

LEMMA RoomKept ==
  ASSUME Typed, OneCall, Known, Copies, Room, [Next]_vars
  PROVE  Room'
<1>0. /\ Len(sessions) \in Nat /\ IsFiniteSet(Starts) /\ Cardinality(Starts) \in Nat
      /\ Len(sessions) <= MaxSessions /\ MaxSessions \in Nat
  BY StateFacts, RoomFacts, ConsoleAssumption
<1>1. ASSUME Waiting' \subseteq Waiting, sessions' = sessions PROVE Room'
  <2>1. Starts' \subseteq Starts
    BY <1>1 DEF Starts
  <2>2. IsFiniteSet(Starts') /\ Cardinality(Starts') <= Cardinality(Starts)
    BY <1>0, <2>1, FS_Subset
  <2>3. Cardinality(Starts') \in Nat
    BY <2>2, FS_CardinalityType
  <2> QED BY <1>0, <1>1, <2>2, <2>3 DEF Room
<1>2. ASSUME NEW op, NEW acknowledge, Sends(op, acknowledge) PROVE Room'
  <2>1. PICK q \in Requests :
           /\ q.op = op /\ Waiting' = Waiting \cup {q} /\ sessions' = sessions
    BY <1>2, SendFacts
  <2>2. CASE op # "start"
    <3>1. Starts' = Starts
      BY <2>1, <2>2 DEF Starts
    <3> QED BY <2>1, <3>1 DEF Room
  <2>3. CASE op = "start"
    <3> DEFINE all == {r \in awaited \cup adrift : r.op = "start"}
    <3>1. IsFiniteSet(awaited \cup adrift) /\ all \subseteq awaited \cup adrift
      BY FS_Union DEF OneCall
    <3>2. Starts \subseteq all
      BY DEF Starts, Waiting
    <3>3. Len(sessions) + Cardinality(all) < MaxSessions
      BY <1>2, <2>3 DEF Sends
    <3> HIDE DEF all
    <3>4. IsFiniteSet(all)
      BY <3>1, FS_Subset
    <3>5. Cardinality(Starts) <= Cardinality(all) /\ Cardinality(all) \in Nat
      BY <3>2, <3>4, FS_Subset, FS_CardinalityType
    <3>6. Starts' = Starts \cup {q}
      BY <2>1, <2>3 DEF Starts
    <3>7. Cardinality(Starts') <= Cardinality(Starts) + 1 /\ Cardinality(Starts') \in Nat
      <4>1. Cardinality(Starts \cup {q}) \in {Cardinality(Starts), Cardinality(Starts) + 1}
        BY <1>0, FS_AddElement
      <4> QED BY <1>0, <3>6, <4>1
    <3> QED BY <1>0, <2>1, <3>3, <3>5, <3>7 DEF Room
  <2> QED BY <2>2, <2>3
<1>3. ASSUME Clears PROVE Room'
  <2>1. Waiting' = Waiting /\ sessions' = sessions
    BY <1>3 DEF Clears, Waiting
  <2> QED BY <1>1, <2>1
<1>4. ASSUME NEW q, Hears(q) PROVE Room'
  <2>1. Waiting' \subseteq Waiting /\ sessions' = sessions
    BY <1>4, HearsFacts, WaitingAfterHearing
  <2> QED BY <1>1, <2>1
<1>5. ASSUME NEW q, NEW view, Answers(q, view) PROVE Room'
  <2>1. q \in Waiting /\ Waiting' = Waiting \ {q}
    BY <1>5, AnswersFacts
  <2>2. CASE Opening(q, view)
    <3>1. q \in Starts /\ Starts' = Starts \ {q}
      BY <2>1, <2>2 DEF Opening, Starts
    <3>2. Cardinality(Starts') = Cardinality(Starts) - 1
      BY <1>0, <3>1, FS_RemoveElement
    <3>3. Len(sessions') = Len(sessions) + 1
      BY <1>0, <2>1, <2>2, OpeningFacts
    <3> QED BY <1>0, <3>2, <3>3 DEF Room
  <2>3. CASE Refusing(view) \/ \E copy : Stores(q, copy)
    <3>1. Len(sessions') = Len(sessions)
      BY <2>1, <2>3, StoredFacts DEF Refusing
    <3>2. Starts' \subseteq Starts
      BY <2>1 DEF Starts
    <3>3. IsFiniteSet(Starts') /\ Cardinality(Starts') <= Cardinality(Starts)
      BY <1>0, <3>2, FS_Subset
    <3>4. Cardinality(Starts') \in Nat
      BY <3>3, FS_CardinalityType
    <3> QED BY <1>0, <3>1, <3>3, <3>4 DEF Room
  <2> QED BY <1>5, <2>2, <2>3 DEF Answers
<1>6. ASSUME NEW q, NEW r, Works(q, r) PROVE Room'
  <2>1. q.op # "start" /\ q.session \in DOMAIN sessions
    BY <1>6, WorkingGrows
  <2>2. q \in Waiting /\ r.op = q.op /\ Waiting' = (Waiting \ {q}) \cup {r}
    BY <1>6, <2>1, WorksFacts
  <2>3. Starts' = Starts
    BY <2>1, <2>2 DEF Starts
  <2>4. Len(sessions') = Len(sessions)
    BY <1>6, <2>2, StoredFacts DEF Works, Loads, Records
  <2> QED BY <2>3, <2>4 DEF Room
<1>7. ASSUME UNCHANGED vars PROVE Room'
  <2>1. Waiting' = Waiting /\ sessions' = sessions
    BY <1>7 DEF vars, Waiting
  <2> QED BY <1>1, <2>1
<1> QED BY <1>2, <1>3, <1>4, <1>5, <1>6, <1>7, StepCases
-----------------------------------------------------------------------------
\* NothingSkipped, of one session.
Walked(s) ==
  /\ s.position \in s.visited
  /\ \A p \in s.visited, q \in Addressable : Below(q, p) => q \in s.visited
  /\ "unresolved" \in s.outcomes => Addressable \subseteq s.visited

\* A cursor put back to where it was, or on the next position, leaves no gap.
LEMMA WalkedOn ==
  ASSUME plan \in Offered, NEW s \in Rows, Walked(s), NEW q \in Requests,
         NEW copy, Leaves(q, copy), q.held \in s.visited, q.op # "start",
         q.op = "advance" /\ Following(q.held) \in plan.critical => q.acknowledge,
         NEW t \in Rows, t.position = copy.position,
         t.visited = s.visited \cup {copy.position},
         t.outcomes = s.outcomes \cup ({copy.status} \cap Finished)
  PROVE  Walked(t)
<1>1. /\ q.held \in Addressable /\ Addressable \subseteq Nat \X Nat \X Nat
      /\ s.visited \subseteq Addressable
  BY LeftFacts, AddressableFacts DEF Rows
<1>2. ASSUME copy.position = q.held,
             copy.status = "unresolved" => \A p \in Addressable : ~ Below(q.held, p)
      PROVE  Walked(t)
  <2>1. t.visited = s.visited
    BY <1>2
  <2>2. copy.status = "unresolved" => Addressable \subseteq s.visited
    <3> SUFFICES ASSUME copy.status = "unresolved", NEW p \in Addressable
                 PROVE  p \in s.visited
      OBVIOUS
    <3>1. p = q.held \/ Below(p, q.held)
      BY <1>1, <1>2, BelowIsTotal
    <3> QED BY <3>1 DEF Walked
  <2> QED BY <1>2, <2>1, <2>2 DEF Walked
<1>3. ASSUME copy.status = "open",
             \A p \in Addressable :
               Below(p, copy.position) <=> p = q.held \/ Below(p, q.held)
      PROVE  Walked(t)
  <2>1. t.outcomes = s.outcomes
    BY <1>3 DEF Finished
  <2>2. ASSUME NEW p \in t.visited, NEW r \in Addressable, Below(r, p)
        PROVE  r \in t.visited
    <3>1. CASE p \in s.visited
      BY <2>2, <3>1 DEF Walked
    <3>2. CASE p = copy.position
      BY <1>3, <2>2, <3>2 DEF Walked
    <3> QED BY <2>2, <3>1, <3>2
  <2> QED BY <2>1, <2>2 DEF Walked
<1> QED BY <1>2, <1>3, LeftFacts

LEMMA WalkedKept ==
  ASSUME Typed, OneCall, Known, Copies, Room, NothingSkipped, [Next]_vars
  PROVE  NothingSkipped'
<1>0. /\ plan \in Offered /\ IsFiniteSet(Starts)
      /\ \A i \in DOMAIN sessions : sessions[i] \in Rows
  BY StateFacts, RoomFacts
<1>1. \A i \in DOMAIN sessions : Walked(sessions[i])
  BY DEF NothingSkipped, Walked
<1>2. SUFFICES plan' = plan /\ \A i \in DOMAIN sessions' : Walked(sessions'[i])
  <2> SUFFICES ASSUME plan' = plan, \A i \in DOMAIN sessions' : Walked(sessions'[i])
               PROVE  NothingSkipped'
    OBVIOUS
  <2>1. Addressable' = Addressable
    BY SamePlan
  <2> QED BY <2>1 DEF NothingSkipped, Walked
<1>3. ASSUME NEW q \in Waiting, NEW copy, Stores(q, copy), sessions' \in Seq(Rows)
      PROVE  \A i \in DOMAIN sessions' : Walked(sessions'[i])
  <2>1. PICK s : s = sessions[q.session]
    OBVIOUS
  <2>2. PICK t : t = sessions'[q.session]
    OBVIOUS
  <2>3. /\ q \in Requests /\ q.session \in DOMAIN sessions /\ Leaves(q, copy)
        /\ q.held \in s.visited /\ q.op # "start"
        /\ q.op = "advance" /\ Following(q.held) \in plan.critical => q.acknowledge
        /\ DOMAIN sessions' = DOMAIN sessions
        /\ \A i \in DOMAIN sessions : i # q.session => sessions'[i] = sessions[i]
        /\ t.position = copy.position /\ t.visited = s.visited \cup {copy.position}
        /\ t.outcomes = s.outcomes \cup ({copy.status} \cap Finished)
    BY <1>3, <2>1, <2>2, StoredFacts
  <2>4. s \in Rows /\ Walked(s)
    BY <1>0, <1>1, <2>1, <2>3
  <2>5. t \in Rows
    BY <1>3, <2>2, <2>3, LenProperties
  <2>6. Walked(t)
    BY <1>0, <2>3, <2>4, <2>5, WalkedOn
  <2> QED BY <1>1, <2>2, <2>3, <2>6
<1>4. ASSUME NEW op, NEW acknowledge, Sends(op, acknowledge)
      PROVE  plan' = plan /\ sessions' = sessions
  BY <1>4 DEF Sends, Send
<1>5. ASSUME Clears \/ UNCHANGED vars PROVE plan' = plan /\ sessions' = sessions
  BY <1>5 DEF Clears, vars
<1>6. ASSUME NEW q, Hears(q) PROVE plan' = plan /\ sessions' = sessions
  BY <1>6, HearsFacts
<1>7. ASSUME NEW q, NEW view, Answers(q, view)
      PROVE  plan' = plan /\ \A i \in DOMAIN sessions' : Walked(sessions'[i])
  <2>1. plan' = plan /\ q \in Waiting /\ sessions' \in Seq(Rows)
    BY <1>7, AnswersFacts
  <2>2. CASE Opening(q, view)
    <3>1. /\ DOMAIN sessions' = DOMAIN sessions \cup {Len(sessions) + 1}
          /\ \A i \in DOMAIN sessions : sessions'[i] = sessions[i]
          /\ sessions'[Len(sessions) + 1] = Opened
      BY <1>0, <2>1, <2>2, OpeningFacts
    <3>2. Walked(Opened)
      <4>1. \A p \in Addressable : ~ Below(p, Origin)
        BY <1>0, AddressableFacts
      <4> QED BY <4>1 DEF Opened, Walked
    <3> QED BY <1>1, <2>1, <3>1, <3>2
  <2>3. CASE Refusing(view)
    BY <1>1, <2>1, <2>3 DEF Refusing
  <2> QED BY <1>3, <1>7, <2>1, <2>2, <2>3 DEF Answers
<1>8. ASSUME NEW q, NEW r, Works(q, r)
      PROVE  plan' = plan /\ \A i \in DOMAIN sessions' : Walked(sessions'[i])
  <2>1. /\ plan' = plan /\ q \in Waiting /\ sessions' \in Seq(Rows)
    BY <1>8, WorkingGrows DEF Works, Becomes
  <2> QED BY <1>1, <1>3, <1>8, <2>1 DEF Works, Loads, Records
<1> QED BY <1>1, <1>4, <1>5, <1>6, <1>7, <1>8, StepCases
-----------------------------------------------------------------------------
\* The counts of Spent, when neither grows.
LEMMA SpentStays ==
  ASSUME Typed, OneCall, Room, Spent, CriticalEntered' \subseteq CriticalEntered,
         IsFiniteSet(Agreed'), Cardinality(Agreed') <= Cardinality(Agreed),
         dialogs' = dialogs
  PROVE  Spent'
<1>1. /\ IsFiniteSet(CriticalEntered') /\ Cardinality(CriticalEntered') \in Nat
      /\ Cardinality(CriticalEntered') <= Cardinality(CriticalEntered)
      /\ Cardinality(CriticalEntered) \in Nat
  BY FS_Subset, FS_CardinalityType DEF Spent
<1>2. Cardinality(Agreed') \in Nat /\ Cardinality(Agreed) \in Nat
  BY RoomFacts, FS_CardinalityType
<1>3. dialogs \in Nat
  BY ConsoleAssumption DEF Typed
<1> QED BY <1>1, <1>2, <1>3 DEF Spent

LEMMA FewerAgreed ==
  ASSUME Typed, OneCall, Room, Waiting' \subseteq Waiting
  PROVE  IsFiniteSet(Agreed') /\ Cardinality(Agreed') <= Cardinality(Agreed)
<1>1. Agreed' \subseteq Agreed
  BY DEF Agreed
<1> QED BY <1>1, RoomFacts, FS_Subset

\* What is saved enters one critical action at most, and only for a request that
\* has the user's word and moves on from the copy it holds.
LEMMA StoredEnters ==
  ASSUME Typed, Known, Copies, plan' = plan,
         NEW q \in Waiting, NEW copy, Stores(q, copy),
         NEW e \in CriticalEntered', e \notin CriticalEntered
  PROVE  e = <<q.session, copy.position>> /\ copy.position # q.held /\ q.acknowledge
<1>1. PICK i : i = q.session
  OBVIOUS
<1>2. /\ q \in Requests /\ i \in DOMAIN sessions /\ Leaves(q, copy)
      /\ q.held \in sessions[i].visited /\ q.op # "start"
      /\ q.op = "advance" /\ Following(q.held) \in plan.critical => q.acknowledge
      /\ DOMAIN sessions' = DOMAIN sessions
      /\ \A j \in DOMAIN sessions : j # i => sessions'[j] = sessions[j]
      /\ sessions'[i].visited = sessions[i].visited \cup {copy.position}
  BY <1>1, StoredFacts
<1>3. PICK j \in DOMAIN sessions, p \in plan.critical \ {Origin} :
        e = <<j, p>> /\ p \in sessions'[j].visited /\ p \notin sessions[j].visited
  <2>1. /\ e \in (DOMAIN sessions) \X (plan.critical \ {Origin})
        /\ e[2] \in sessions'[e[1]].visited
    BY <1>2 DEF CriticalEntered
  <2>2. e[2] \notin sessions[e[1]].visited
    BY <2>1 DEF CriticalEntered
  <2> QED BY <2>1, <2>2
<1>4. j = i /\ p = copy.position
  BY <1>2, <1>3
<1>5. copy.position # q.held /\ copy.position \in plan.critical
  BY <1>2, <1>3, <1>4
<1>6. plan \in Offered
  BY DEF Typed
<1>7. q.acknowledge
  BY <1>2, <1>5, <1>6, LeftFacts
<1> QED BY <1>1, <1>3, <1>4, <1>5, <1>7

LEMMA SpentKept ==
  ASSUME Typed, OneCall, Known, Copies, Room, Spent, [Next]_vars
  PROVE  Spent'
<1>0. /\ plan \in Offered /\ IsFiniteSet(Starts)
      /\ IsFiniteSet(Agreed) /\ Cardinality(Agreed) \in Nat
      /\ IsFiniteSet(CriticalEntered) /\ Cardinality(CriticalEntered) \in Nat
      /\ dialogs \in 0..MaxDialogs /\ MaxDialogs \in Nat
      /\ DOMAIN sessions = 1..Len(sessions) /\ Len(sessions) \in Nat
  BY StateFacts, RoomFacts, ConsoleAssumption, FS_CardinalityType DEF Typed, Spent
<1>1. ASSUME NEW op, NEW acknowledge, Sends(op, acknowledge) PROVE Spent'
  <2>1. PICK q \in Requests :
           /\ q.acknowledge = acknowledge /\ Waiting' = Waiting \cup {q}
           /\ plan' = plan /\ sessions' = sessions
    BY <1>1, SendFacts
  <2>2. CriticalEntered' = CriticalEntered
    BY <2>1 DEF CriticalEntered
  <2>3. /\ acknowledge \in BOOLEAN
        /\ dialogs' = IF acknowledge /\ dialogs < MaxDialogs THEN dialogs + 1 ELSE dialogs
    BY <1>1 DEF Sends
  <2>4. CASE acknowledge
    <3>1. Agreed' = Agreed \cup {q}
      BY <2>1, <2>4 DEF Agreed
    <3>2. Cardinality(Agreed \cup {q}) \in {Cardinality(Agreed), Cardinality(Agreed) + 1}
      BY <1>0, FS_AddElement
    <3>3. \/ dialogs' = MaxDialogs
          \/ Cardinality(CriticalEntered) + Cardinality(Agreed') <= dialogs'
      BY <1>0, <2>3, <2>4, <3>1, <3>2 DEF Spent
    <3> QED BY <1>0, <2>2, <3>3 DEF Spent
  <2>5. CASE ~ acknowledge
    <3>1. Agreed' = Agreed
      BY <2>1, <2>5 DEF Agreed
    <3> QED BY <2>2, <2>3, <2>5, <3>1 DEF Spent
  <2> QED BY <2>3, <2>4, <2>5
<1>2. ASSUME Clears \/ UNCHANGED vars PROVE Spent'
  <2>1. CriticalEntered' = CriticalEntered /\ Waiting' = Waiting /\ dialogs' = dialogs
    BY <1>2 DEF Clears, vars, CriticalEntered, Waiting
  <2> QED BY <2>1, FewerAgreed, SpentStays
<1>3. ASSUME NEW q, Hears(q) PROVE Spent'
  <2>1. plan' = plan /\ sessions' = sessions /\ dialogs' = dialogs
    BY <1>3, HearsFacts
  <2>2. CriticalEntered' = CriticalEntered
    BY <2>1 DEF CriticalEntered
  <2> QED BY <1>3, <2>1, <2>2, WaitingAfterHearing, FewerAgreed, SpentStays
<1>4. ASSUME NEW q, NEW view, Answers(q, view) PROVE Spent'
  <2>1. /\ q \in Waiting /\ Waiting' = Waiting \ {q} /\ plan' = plan /\ dialogs' = dialogs
    BY <1>4, AnswersFacts
  <2>2. CASE CriticalEntered' \subseteq CriticalEntered
    BY <2>1, <2>2, FewerAgreed, SpentStays
  <2>3. CASE Opening(q, view)
    <3>1. /\ DOMAIN sessions' = DOMAIN sessions \cup {Len(sessions) + 1}
          /\ \A i \in DOMAIN sessions : sessions'[i] = sessions[i]
          /\ sessions'[Len(sessions) + 1] = Opened
      BY <1>0, <2>1, <2>3, OpeningFacts
    <3>2. Opened.visited = {Origin}
      BY DEF Opened
    <3>3. ASSUME NEW e \in CriticalEntered' PROVE e \in CriticalEntered
      <4>1. /\ e \in (DOMAIN sessions') \X (plan.critical \ {Origin})
            /\ e[2] \in sessions'[e[1]].visited
        BY <2>1 DEF CriticalEntered
      <4>2. e[1] # Len(sessions) + 1
        BY <3>1, <3>2, <4>1
      <4>3. e[1] \in DOMAIN sessions
        BY <3>1, <4>1, <4>2
      <4> QED BY <3>1, <4>1, <4>3 DEF CriticalEntered
    <3> QED BY <2>2, <3>3
  <2>4. CASE Refusing(view)
    <3>1. CriticalEntered' = CriticalEntered
      BY <2>1, <2>4 DEF Refusing, CriticalEntered
    <3> QED BY <2>2, <3>1
  <2>5. ASSUME NEW copy, Stores(q, copy), ~ (CriticalEntered' \subseteq CriticalEntered)
        PROVE  Spent'
    <3>1. PICK x : x = <<q.session, copy.position>>
      OBVIOUS
    <3>2. q.acknowledge /\ CriticalEntered' \subseteq CriticalEntered \cup {x}
      BY <2>1, <2>5, <3>1, StoredEnters
    <3>3. Agreed' = Agreed \ {q} /\ q \in Agreed
      BY <2>1, <3>2 DEF Agreed
    <3>4. Cardinality(Agreed') = Cardinality(Agreed) - 1
      BY <1>0, <3>3, FS_RemoveElement
    <3>5. /\ IsFiniteSet(CriticalEntered \cup {x})
          /\ Cardinality(CriticalEntered \cup {x})
               \in {Cardinality(CriticalEntered), Cardinality(CriticalEntered) + 1}
      BY <1>0, FS_AddElement
    <3>6. /\ IsFiniteSet(CriticalEntered') /\ Cardinality(CriticalEntered') \in Nat
          /\ Cardinality(CriticalEntered') <= Cardinality(CriticalEntered \cup {x})
      BY <3>2, <3>5, FS_Subset, FS_CardinalityType
    <3> QED BY <1>0, <2>1, <3>4, <3>5, <3>6 DEF Spent
  <2> QED BY <1>4, <2>2, <2>3, <2>4, <2>5 DEF Answers
<1>5. ASSUME NEW q, NEW r, Works(q, r) PROVE Spent'
  <2>1. q.op # "start" /\ q.session \in DOMAIN sessions
    BY <1>5, WorkingGrows
  <2>2. /\ q \in Waiting /\ r.acknowledge = q.acknowledge
        /\ Waiting' = (Waiting \ {q}) \cup {r} /\ plan' = plan /\ dialogs' = dialogs
    BY <1>5, <2>1, WorksFacts
  <2>3. CriticalEntered' \subseteq CriticalEntered
    <3>1. CASE Loads(q, r)
      BY <2>2, <3>1 DEF Loads, CriticalEntered
    <3>2. CASE Records(q, r)
      <4>1. Stores(q, Left(q.held, "open")) /\ Left(q.held, "open").position = q.held
        BY <3>2 DEF Records, Left
      <4> QED BY <2>2, <4>1, StoredEnters
    <3> QED BY <1>5, <3>1, <3>2 DEF Works
  <2>4. IsFiniteSet(Agreed') /\ Cardinality(Agreed') <= Cardinality(Agreed)
    <3>1. CASE q.acknowledge
      <4>1. Agreed' = (Agreed \ {q}) \cup {r} /\ q \in Agreed
        BY <2>2, <3>1 DEF Agreed
      <4>2. /\ IsFiniteSet(Agreed \ {q})
            /\ Cardinality(Agreed \ {q}) = Cardinality(Agreed) - 1
        BY <1>0, <4>1, FS_RemoveElement
      <4>3. /\ IsFiniteSet((Agreed \ {q}) \cup {r})
            /\ Cardinality((Agreed \ {q}) \cup {r})
                 \in {Cardinality(Agreed \ {q}), Cardinality(Agreed \ {q}) + 1}
        BY <4>2, FS_AddElement
      <4> QED BY <1>0, <4>1, <4>2, <4>3
    <3>2. CASE ~ q.acknowledge
      <4>1. Agreed' \subseteq Agreed
        BY <2>2, <3>2 DEF Agreed
      <4> QED BY <1>0, <4>1, FS_Subset
    <3> QED BY <3>1, <3>2
  <2> QED BY <2>2, <2>3, <2>4, SpentStays
<1> QED BY <1>1, <1>2, <1>3, <1>4, <1>5, StepCases
-----------------------------------------------------------------------------
LEMMA IInvAtFirst ==
  ASSUME Init
  PROVE  IInv
<1>1. /\ plan \in Offered /\ sessions = <<>> /\ awaited = {} /\ adrift = {}
      /\ failures = 0 /\ dialogs = 0
      /\ page = [shown |-> Nothing, panel |-> FALSE, offered |-> TRUE, busy |-> FALSE]
  BY DEF Init
<1>2. Typed
  BY <1>1, ConsoleAssumption DEF Typed, TypeOK
<1>3. OneCall
  BY <1>1, FS_EmptySet DEF OneCall
<1>4. Known /\ Copies
  BY <1>1 DEF Known, Copies
<1>5. Waiting = {} /\ Starts = {} /\ Agreed = {}
  BY <1>1 DEF Waiting, Starts, Agreed
<1>6. Room
  BY <1>1, <1>5, FS_EmptySet, ConsoleAssumption DEF Room
<1>7. DOMAIN sessions = {}
  BY <1>1
<1>8. NothingSkipped
  BY <1>7 DEF NothingSkipped
<1>9. CriticalEntered = {}
  BY <1>7 DEF CriticalEntered
<1>10. Spent
  BY <1>1, <1>5, <1>9, FS_EmptySet DEF Spent
<1> QED BY <1>2, <1>3, <1>4, <1>6, <1>8, <1>10 DEF IInv

LEMMA IInvKept ==
  ASSUME IInv, [Next]_vars
  PROVE  IInv'
<1>1. Typed /\ OneCall /\ Known /\ Copies /\ Room /\ NothingSkipped /\ Spent
  BY DEF IInv
<1>2. Typed'
  BY <1>1, TypedKept
<1>3. OneCall'
  BY <1>1, OneCallKept
<1>4. Known'
  BY <1>1, KnownKept
<1>5. Copies'
  BY <1>1, CopiesKept
<1>6. Room'
  BY <1>1, RoomKept
<1>7. NothingSkipped'
  BY <1>1, WalkedKept
<1>8. Spent'
  BY <1>1, SpentKept
<1> QED BY <1>2, <1>3, <1>4, <1>5, <1>6, <1>7, <1>8 DEF IInv

(* The page waits for one call at most; every view it shows or is about to *)
(* be sent is one its session has had, and only a session saved over by a  *)
(* late request may have gone back since; a late request saves a cursor    *)
(* its session has had or the next one; and each critical action entered   *)
(* has a dialog of its own, accepted and no longer on its way (call,       *)
(* render, advance, save_progress).                                        *)
THEOREM ConsoleInvariant == Spec => []IInv
<1>1. Init => IInv
  BY IInvAtFirst
<1>2. IInv /\ [Next]_vars => IInv'
  BY IInvKept
<1> QED BY <1>1, <1>2, PTL DEF Spec

(* The state of the page and of the server is always of its type: no view  *)
(* of a session that was not opened, no cursor off the plan.               *)
THEOREM ConsoleTypeCorrect == Spec => []TypeOK
<1>1. IInv => TypeOK
  BY DEF IInv, Typed
<1> QED BY <1>1, ConsoleInvariant, PTL

(* For every plan, any number of sessions and however many requests are    *)
(* lost or save late: a cursor has stood on all that precedes it, and a    *)
(* session closed as unresolved has stood on the whole plan (advance,      *)
(* next_position, save_progress).                                          *)
THEOREM NoStepGroupSkipped == Spec => []NothingSkipped
<1>1. IInv => NothingSkipped
  BY DEF IInv
<1> QED BY <1>1, ConsoleInvariant, PTL

(* An outcome the page shows was saved by the server, and is the session's *)
(* still unless a late request has saved over the row: nothing else, no    *)
(* lost answer and no panel taken away, can part the page from the server  *)
(* (render, require_active, save_progress).                                *)
THEOREM OutcomeShownHolds == Spec => []ShownOutcomeHolds
<1>1. IInv => ShownOutcomeHolds
  <2> SUFFICES ASSUME Typed, Known, page.shown.status \in Finished
               PROVE  /\ page.shown.status \in sessions[page.shown.session].outcomes
                      /\ sessions[page.shown.session].overwritten \/ Current(page.shown)
    BY DEF IInv, ShownOutcomeHolds
  <2>1. page.shown # Nothing
    BY DEF Nothing, Finished
  <2>2. PICK i : i = page.shown.session
    OBVIOUS
  <2>3. /\ i \in DOMAIN sessions /\ page.shown.status \in sessions[i].outcomes
        /\ sessions[i].overwritten \/ NotOlder(page.shown, View(i, sessions[i]))
    BY <2>1, <2>2 DEF Known, Held
  <2>4. i \in Nat /\ View(i, sessions[i]).session = i
    BY <2>3, StateFacts DEF View
  <2>5. NotOlder(page.shown, View(i, sessions[i])) => Current(page.shown)
    BY <2>2, <2>4 DEF NotOlder, Current
  <2> QED BY <2>2, <2>3, <2>5
<1> QED BY <1>1, ConsoleInvariant, PTL

(* The page never goes back to an older view, of the same session or of    *)
(* another, while no late request has saved over the session it shows; it  *)
(* has one call at most under way, and that is enough (call's busy flag,   *)
(* render).                                                                *)
THEOREM PageOnlyMovesOn == Spec => PageNeverGoesBack
<1>1. IInv /\ [Next]_vars =>
        [\/ NotOlder(page.shown, page'.shown)
         \/ page'.shown.session = page.shown.session /\ Overwritten(page'.shown)]_vars
  <2> SUFFICES ASSUME Typed, OneCall, Known, Copies, Room, Next
               PROVE  \/ NotOlder(page.shown, page'.shown)
                      \/ /\ page'.shown.session = page.shown.session
                         /\ Overwritten(page'.shown)
    BY DEF IInv
  <2>1. ASSUME NEW op, NEW acknowledge, Sends(op, acknowledge)
        PROVE  page'.shown = page.shown
    <3>1. page' = [page EXCEPT !.busy = TRUE]
      BY <2>1 DEF Sends, Send
    <3> QED BY <3>1, PageFacts
  <2>2. ASSUME Clears PROVE page'.shown = page.shown
    BY <2>2, PageFacts DEF Clears
  <2>3. ASSUME NEW q, Hears(q), page'.shown # page.shown
        PROVE  \/ NotOlder(page.shown, page'.shown)
               \/ /\ page'.shown.session = page.shown.session
                  /\ Overwritten(page'.shown)
    <3>1. q.answer \in Views /\ q.answer \notin {Unserved, Refused} /\ page'.shown = q.answer
      BY <2>3, HearsFacts
    <3>2. Onward(page.shown, q.answer, sessions)
      BY <2>3, <3>1 DEF Hears, Known
    <3>3. q.answer # Nothing
      BY <3>1, ViewsAreServed
    <3> QED BY <3>1, <3>2, <3>3 DEF Onward, Overwritten
  <2>4. ASSUME NEW q, NEW view, Answers(q, view) PROVE page'.shown = page.shown
    BY <2>4, AnswersFacts
  <2>5. ASSUME NEW q, NEW r, Works(q, r) PROVE page'.shown = page.shown
    BY <2>5 DEF Works, Becomes
  <2> QED BY <2>1, <2>2, <2>3, <2>4, <2>5, StepCases, NotOlderThanItself
<1> QED BY <1>1, ConsoleInvariant, PTL DEF Spec, PageNeverGoesBack
-----------------------------------------------------------------------------
\* The counter of dialogs does not stop before every critical step group of
\* every session could have been agreed to.  It bounds the model only.
DialogsCounted ==
  \A p \in Offered : MaxSessions * Cardinality(p.critical \ {Origin}) <= MaxDialogs

LEMMA CriticalIsFinite ==
  ASSUME plan \in Offered
  PROVE  IsFiniteSet(plan.critical)
<1>1. PICK p \in Nested : plan.critical \subseteq PositionsOf(p)
  BY PlanFacts
<1>2. PICK n \in Nat : n = Len(Walk(p))
  BY <1>1, WalkFacts
<1>3. PositionsOf(p) = {Walk(p)[i].position : i \in 1..n}
  BY <1>2, WalkIsInOrder, WalkFacts DEF PlacesOf
<1> DEFINE f == [i \in 1..n |-> Walk(p)[i].position]
<1>4. f \in Surjection(1..n, PositionsOf(p))
  BY <1>3 DEF Surjection
<1>5. IsFiniteSet(1..n)
  BY FS_Interval
<1> HIDE DEF f
<1>6. IsFiniteSet(PositionsOf(p))
  BY <1>4, <1>5, FS_Surjection
<1> QED BY <1>1, <1>6, FS_Subset

(* A dialog the user accepts lets a session into one critical action at    *)
(* most, however requests are lost, repeated by the user, served late or   *)
(* saved over (the next button, advance).                                  *)
THEOREM DialogsAreSpentOnce ==
  ASSUME DialogsCounted
  PROVE  Spec => []OneDialogPerCriticalStep
<1>1. IInv => OneDialogPerCriticalStep
  <2> SUFFICES ASSUME Typed, OneCall, Room, Spent
               PROVE  Cardinality(CriticalEntered) <= dialogs
    BY DEF IInv, OneDialogPerCriticalStep
  <2>1. PICK C : C = plan.critical \ {Origin}
    OBVIOUS
  <2>2. IsFiniteSet(C) /\ MaxSessions * Cardinality(C) <= MaxDialogs
    <3>1. plan \in Offered
      BY DEF Typed
    <3>2. IsFiniteSet(plan.critical)
      BY <3>1, CriticalIsFinite
    <3>3. IsFiniteSet(C)
      BY <2>1, <3>2, FS_Subset
    <3> QED BY <2>1, <3>1, <3>3 DEF DialogsCounted
  <2>3. IsFiniteSet(1..MaxSessions) /\ Cardinality(1..MaxSessions) = MaxSessions
    BY FS_Interval, ConsoleAssumption
  <2>4. /\ IsFiniteSet((1..MaxSessions) \X C)
        /\ Cardinality((1..MaxSessions) \X C) = MaxSessions * Cardinality(C)
    BY <2>2, <2>3, FS_Product
  <2>5. CriticalEntered \subseteq (1..MaxSessions) \X C
    <3>1. DOMAIN sessions \subseteq 1..MaxSessions
      BY StateFacts, RoomFacts, ConsoleAssumption
    <3> QED BY <2>1, <3>1 DEF CriticalEntered
  <2>6. Cardinality(CriticalEntered) <= MaxSessions * Cardinality(C)
    BY <2>4, <2>5, FS_Subset
  <2>7. /\ Cardinality(CriticalEntered) \in Nat /\ Cardinality(Agreed) \in Nat
        /\ Cardinality(C) \in Nat /\ dialogs \in Nat /\ MaxDialogs \in Nat
        /\ MaxSessions * Cardinality(C) \in Nat
    BY <2>2, <2>4, RoomFacts, FS_CardinalityType, ConsoleAssumption DEF Spent, Typed
  <2> QED BY <2>2, <2>6, <2>7 DEF Spent
<1> QED BY <1>1, ConsoleInvariant, PTL
=============================================================================

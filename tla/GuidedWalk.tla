----------------------------- MODULE GuidedWalk -----------------------------
(***************************************************************************)
(* What a guided session promises the user, without requests, rows or      *)
(* transactions: the walk moves one step at a time, into a critical action *)
(* only with the user's agreement; a report is about the step the user is  *)
(* on and is numbered in order; and once the session is closed nothing     *)
(* about it changes.                                                       *)
(***************************************************************************)
EXTENDS Integers, Sequences

CONSTANTS Length,       \* the number of steps in the plan
          Critical,     \* the steps that are critical
          Outcomes,     \* how a session may be closed
          Findings      \* what a report may say

VARIABLES cursor, outcome, fix, reports, agreed

vars == <<cursor, outcome, fix, reports, agreed>>

Open == outcome = "open"

Init == /\ cursor = 1
        /\ outcome = "open"
        /\ fix = 0
        /\ reports = <<>>
        /\ agreed = {}

Agree(p) == /\ Open
            /\ agreed' = agreed \cup {p}
            /\ UNCHANGED <<cursor, outcome, fix, reports>>

Move == /\ Open
        /\ cursor < Length
        /\ cursor + 1 \in Critical => cursor + 1 \in agreed
        /\ cursor' = cursor + 1
        /\ UNCHANGED <<outcome, fix, reports, agreed>>

Report(finding) ==
  /\ Open
  /\ reports' = Append(reports, [no |-> Len(reports) + 1, step |-> cursor,
                                 finding |-> finding])
  /\ UNCHANGED <<cursor, outcome, fix, agreed>>

Close(how) == /\ Open
              /\ outcome' = how
              /\ UNCHANGED <<cursor, fix, reports, agreed>>

\* The user's last word is that the current step fixed the problem.
CloseFixed ==
  /\ Open
  /\ reports # <<>>
  /\ reports[Len(reports)].step = cursor
  /\ reports[Len(reports)].finding = "user_confirmed"
  /\ outcome' = "resolved"
  /\ fix' = cursor
  /\ UNCHANGED <<cursor, reports, agreed>>

Next == \/ \E p \in 1..Length : Agree(p)
        \/ Move
        \/ \E finding \in Findings : Report(finding)
        \/ \E how \in Outcomes : Close(how)
        \/ CloseFixed

Spec == Init /\ [][Next]_vars
=============================================================================

----------------------------- MODULE MCConsole ------------------------------
(* Plans cut into goals and actions in the ways that could confuse a       *)
(* cursor or a dialog.                                                     *)
EXTENDS Console

O(groups) == [critical |-> FALSE, groups |-> groups]
C(groups) == [critical |-> TRUE, groups |-> groups]
G1 == <<"none">>
G2 == <<"none", "none">>

MCPlans ==
  {\* A goal follows another, with two critical step groups to agree to.
   << <<O(G2)>>, <<C(G2)>> >>,
   \* Opens on a critical action; an action and a goal end there.
   << <<C(G1)>>, <<O(G1)>> >>,
   \* An empty goal: validate_plan refuses it.
   << <<O(G1)>>, <<>> >>}
=============================================================================

------------------------ MODULE MCResolutionSession -------------------------
(* Two small plans for the session: one that opens on an ordinary action   *)
(* and meets a critical one, and one whose only action is critical.        *)
EXTENDS ResolutionSession, TLC

P == INSTANCE Plan

OrdinaryThenCritical ==
  <<<<[critical |-> FALSE, groups |-> <<"complete", "partial">>],
      [critical |-> TRUE, groups |-> <<"complete">>]>>>>

OnlyCritical == <<<<[critical |-> TRUE, groups |-> <<"none">>]>>>>

MCSteps == P!Walk(OrdinaryThenCritical)
MCCriticalSteps == P!Walk(OnlyCritical)

Slots == Permutations(Handlers)
=============================================================================

-------------------------------- MODULE Plan ----------------------------------
(***************************************************************************)
(* How a nested plan (contexts, their actions, their step groups) is       *)
(* flattened into the list of step groups a session walks, and how the     *)
(* cursor finds its place in that list.  Positions are the zero-based      *)
(* triples of the code: <<goal, action, step group>>.                      *)
(*                                                                         *)
(* A plan is a sequence of goals, a goal a sequence of actions, and an     *)
(* action a record of its category's criticality and its step groups; a    *)
(* step group is represented by how much of a validation contract the      *)
(* catalog gave it ("none", "partial" or "complete").                      *)
(***************************************************************************)
EXTENDS Integers, Sequences, SequencesExt

NoPosition == <<>>
Origin == <<0, 0, 0>>

StepsOfAction(g, a, action) ==
  [s \in DOMAIN action.groups |->
     [position   |-> <<g - 1, a - 1, s - 1>>,
      critical   |-> action.critical,
      validation |-> action.groups[s]]]

StepsOfGoal(g, goal) ==
  FlattenSeq([a \in DOMAIN goal |-> StepsOfAction(g, a, goal[a])])

Walk(plan) == FlattenSeq([g \in DOMAIN plan |-> StepsOfGoal(g, plan[g])])

\* The index of the step at a position, 0 when the plan has none there.
IndexOf(plan, pos) == SelectInSeq(Walk(plan), LAMBDA step : step.position = pos)

\* Slip: counts step groups without looking where an action ends.
NextPositionByCount(plan, pos) ==
  IF IndexOf(plan, pos) = Len(Walk(plan)) THEN NoPosition
                                          ELSE <<pos[1], pos[2], pos[3] + 1>>

\* Slip: stops with the goal it started in.
NextPositionInGoal(plan, pos) ==
  LET i == IndexOf(plan, pos) IN
    IF i = Len(Walk(plan)) \/ Walk(plan)[i + 1].position[1] # pos[1]
      THEN NoPosition ELSE Walk(plan)[i + 1].position

\* Slip: jumps over the step group that follows.
NextPositionSkipping(plan, pos) ==
  LET i == IndexOf(plan, pos) IN
    IF i + 2 > Len(Walk(plan)) THEN NoPosition ELSE Walk(plan)[i + 2].position

\* The walk is scanned for the position; the step after it is the answer.
NextPosition(plan, pos) ==
  LET i == IndexOf(plan, pos) IN
    IF i = 0 \/ i = Len(Walk(plan)) THEN NoPosition
                                    ELSE Walk(plan)[i + 1].position

\* What validate_plan requires of the shape of a plan: no empty goal, no empty
\* action, and the critical actions of a goal last.
Validates(plan) ==
  \A g \in DOMAIN plan :
    /\ plan[g] # <<>>
    /\ \A a \in DOMAIN plan[g] :
         /\ plan[g][a].groups # <<>>
         /\ plan[g][a].critical =>
              \A b \in a..Len(plan[g]) : plan[g][b].critical

\* What start requires of the shape of a plan, past its validation.
Opens(plan) == plan # <<>> /\ IndexOf(plan, Origin) # 0
-----------------------------------------------------------------------------
\* What the pipeline and the cache hand over as a plan.
Nested == Seq(Seq([critical : BOOLEAN,
                   groups : Seq({"none", "partial", "complete"})]))

\* Reference: positions ordered as triples, independent of any flattening.
Below(p, q) == \/ p[1] < q[1]
               \/ p[1] = q[1] /\ p[2] < q[2]
               \/ p[1] = q[1] /\ p[2] = q[2] /\ p[3] < q[3]

PositionsOf(plan) ==
  UNION {UNION {{<<g - 1, a - 1, s - 1>> : s \in DOMAIN plan[g][a].groups}
                : a \in DOMAIN plan[g]} : g \in DOMAIN plan}
=============================================================================

------------------------- MODULE MCTroubleshooting --------------------------
(* Two problems phrased almost alike: texts 1 and 2 are the queries, 3 and  *)
(* 4 their canonical forms, and 5 a paraphrase that strays from the second  *)
(* problem towards the first.                                               *)
EXTENDS Troubleshooting, TLC

MCTexts == 1..5

Pairs == (<<1, 2>> :> 7) @@ (<<1, 3>> :> 9) @@ (<<1, 4>> :> 5) @@ (<<1, 5>> :> 8)
         @@ (<<2, 3>> :> 4) @@ (<<2, 4>> :> 9) @@ (<<2, 5>> :> 9)
         @@ (<<3, 4>> :> 2) @@ (<<3, 5>> :> 6) @@ (<<4, 5>> :> 7)

MCSimilarity ==
  [p \in MCTexts \X MCTexts |->
     IF p[1] = p[2] THEN 10
     ELSE IF p \in DOMAIN Pairs THEN Pairs[p] ELSE Pairs[<<p[2], p[1]>>]]

Produce(canonical, variations, uses) ==
  [canonical |-> canonical, variations |-> variations, uses |-> uses, empty |-> FALSE]

\* The model may word the second problem its own way or as the first one.
MCResults == <<{Produce(3, {}, {"old"}), Produce(3, {1}, {"kept"})},
               {Produce(3, {4}, {"kept"}), Produce(4, {5}, {"kept"}), Nothing}>>

MCDeployments == {[allows |-> {"old", "kept"}, version |-> 1],
                  [allows |-> {"kept", "new"}, version |-> 1],
                  [allows |-> {"kept", "new"}, version |-> 2]}

Slots == Permutations(Handlers)
=============================================================================

----------------------------- MODULE PlanProofs ------------------------------
(***************************************************************************)
(* The walk of a nested plan, for every plan: it has every step group once *)
(* and in reading order, and the cursor goes through it one by one.  This  *)
(* is what lets a session be modelled over step indices.                   *)
(*                                                                         *)
(* What a recursive function computes is proved by the least number        *)
(* principle, stated over sets of numbers.                                 *)
(***************************************************************************)
EXTENDS Plan, WellFoundedInduction, SequenceTheorems, TLAPS

LEMMA LeastNatural ==
  ASSUME NEW T \in SUBSET Nat, T # {}
  PROVE  \E n \in T : \A m \in T : n <= m
<1> DEFINE R == {p \in Nat \X Nat : p[1] < p[2]}
<1>1. IsWellFoundedOn(R, Nat)
  BY NatLessThanWellFounded DEF OpToRel
<1>2. PICK n \in T : \A m \in T : <<m, n>> \notin R
  <2> HIDE DEF R
  <2> QED BY <1>1, WFMin
<1>3. \A m \in T : ~ (m < n)
  BY <1>2
<1> QED BY <1>3

Folds(f, seqs, n) ==
  f = [i \in 1..n |-> IF i = 1 THEN seqs[i] ELSE f[i - 1] \o seqs[i]]

LEMMA FlattenExists ==
  ASSUME NEW seqs, NEW n \in Nat \ {0}
  PROVE  \E f : Folds(f, seqs, n)
<1> DEFINE Bad == {m \in Nat \ {0} : \A f : ~ Folds(f, seqs, m)}
<1>1. SUFFICES Bad = {}
  OBVIOUS
<1>2. SUFFICES ASSUME Bad # {} PROVE FALSE
  OBVIOUS
<1>3. PICK m \in Bad : \A k \in Bad : m <= k
  <2> Bad \in SUBSET Nat
    OBVIOUS
  <2> HIDE DEF Bad
  <2> QED BY <1>2, LeastNatural
<1>4. CASE m = 1
  <2> DEFINE f == [i \in 1..1 |-> seqs[1]]
  <2>1. Folds(f, seqs, 1)
    BY DEF Folds
  <2> QED BY <1>4, <2>1
<1>5. CASE m # 1
  <2>1. m \in Nat /\ m - 1 \in Nat \ {0} /\ m - 1 \notin Bad
    BY <1>3, <1>5
  <2>2. PICK f : Folds(f, seqs, m - 1)
    BY <2>1
  <2> DEFINE g == [i \in 1..m |-> IF i = m THEN f[m - 1] \o seqs[m] ELSE f[i]]
  <2>3. \A i \in 1..m : g[i] = IF i = 1 THEN seqs[i] ELSE g[i - 1] \o seqs[i]
    <3>1. \A i \in 1..(m - 1) : f[i] = IF i = 1 THEN seqs[i] ELSE f[i - 1] \o seqs[i]
      BY <2>2 DEF Folds
    <3>2. \A i \in 1..(m - 1) : g[i] = f[i]
      BY <2>1
    <3>3. ASSUME NEW i \in 1..m
          PROVE  g[i] = IF i = 1 THEN seqs[i] ELSE g[i - 1] \o seqs[i]
      <4>1. CASE i = m
        <5>0. m \in 1..m /\ m - 1 \in 1..(m - 1)
          <6> HIDE DEF Bad, g
          <6> QED BY <2>1
        <5>1. g[m] = f[m - 1] \o seqs[m] /\ m - 1 \in 1..(m - 1)
          BY <5>0
        <5>2. g[m - 1] = f[m - 1]
          BY <3>2, <5>1
        <5> HIDE DEF g
        <5> QED BY <1>5, <4>1, <5>1, <5>2
      <4>2. CASE i # m
        <5>1. i \in 1..(m - 1) /\ (i # 1 => i - 1 \in 1..(m - 1))
          BY <2>1, <4>2
        <5> HIDE DEF g
        <5> QED BY <5>1, <3>1, <3>2
      <4> QED BY <4>1, <4>2
    <3> QED BY <3>3
  <2>4. Folds(g, seqs, m)
    BY <2>1, <2>3 DEF Folds
  <2> QED BY <2>4
<1> QED BY <1>4, <1>5

LEMMA FlattenFolds ==
  ASSUME NEW seqs, NEW n \in Nat \ {0}, Len(seqs) = n
  PROVE  \E f : Folds(f, seqs, n) /\ FlattenSeq(seqs) = f[n]
<1> DEFINE f == CHOOSE g : g = [i \in 1..n |-> IF i = 1 THEN seqs[i] ELSE g[i - 1] \o seqs[i]]
<1>1. FlattenSeq(seqs) = f[n]
  BY DEF FlattenSeq
<1>2. \E g : g = [i \in 1..n |-> IF i = 1 THEN seqs[i] ELSE g[i - 1] \o seqs[i]]
  BY FlattenExists DEF Folds
<1>3. f = [i \in 1..n |-> IF i = 1 THEN seqs[i] ELSE f[i - 1] \o seqs[i]]
  BY <1>2
<1>4. Folds(f, seqs, n)
  BY <1>3 DEF Folds
<1> QED BY <1>1, <1>4

Chain(s, R) == \A j, k \in DOMAIN s : j < k => <<s[j], s[k]>> \in R

LEMMA ChainJoin ==
  ASSUME NEW S, NEW R, NEW s \in Seq(S), NEW t \in Seq(S), Chain(s, R), Chain(t, R),
         \A j \in DOMAIN s, k \in DOMAIN t : <<s[j], t[k]>> \in R
  PROVE  /\ s \o t \in Seq(S)
         /\ Chain(s \o t, R)
         /\ ToSet(s \o t) = ToSet(s) \cup ToSet(t)
<1> DEFINE st == s \o t
<1>1. /\ st \in Seq(S) /\ DOMAIN st = 1..(Len(s) + Len(t))
      /\ DOMAIN s = 1..Len(s) /\ DOMAIN t = 1..Len(t)
      /\ Len(s) \in Nat /\ Len(t) \in Nat
      /\ \A i \in 1..(Len(s) + Len(t)) :
           st[i] = IF i <= Len(s) THEN s[i] ELSE t[i - Len(s)]
  BY ConcatProperties, LenProperties
<1>2. Chain(st, R)
  <2> HIDE DEF st
  <2> SUFFICES ASSUME NEW j \in DOMAIN st, NEW k \in DOMAIN st, j < k
               PROVE  <<st[j], st[k]>> \in R
    BY DEF Chain
  <2>1. CASE k <= Len(s)
    BY <1>1, <2>1 DEF Chain
  <2>2. CASE j <= Len(s) /\ ~ (k <= Len(s))
    <3>1. j \in DOMAIN s /\ k - Len(s) \in DOMAIN t
      BY <1>1, <2>2
    <3> QED BY <1>1, <2>2, <3>1
  <2>3. CASE ~ (j <= Len(s))
    <3>1. /\ j - Len(s) \in DOMAIN t /\ k - Len(s) \in DOMAIN t /\ j - Len(s) < k - Len(s)
          /\ st[j] = t[j - Len(s)] /\ st[k] = t[k - Len(s)]
      BY <1>1, <2>3
    <3> QED BY <3>1 DEF Chain
  <2> QED BY <1>1, <2>1, <2>2, <2>3
<1>3. ASSUME NEW x PROVE x \in ToSet(st) <=> x \in ToSet(s) \cup ToSet(t)
  <2> HIDE DEF st
  <2>1. CASE x \in ToSet(s)
    <3>1. PICK i \in DOMAIN s : x = s[i]
      BY <2>1 DEF ToSet
    <3>2. i \in DOMAIN st /\ st[i] = x
      BY <1>1, <3>1
    <3> QED BY <2>1, <3>2 DEF ToSet
  <2>2. CASE x \in ToSet(t)
    <3>1. PICK i \in DOMAIN t : x = t[i]
      BY <2>2 DEF ToSet
    <3>2. i + Len(s) \in DOMAIN st /\ st[i + Len(s)] = x
      BY <1>1, <3>1
    <3> QED BY <2>2, <3>2 DEF ToSet
  <2>3. CASE x \in ToSet(st)
    <3>1. PICK i \in DOMAIN st : x = st[i]
      BY <2>3 DEF ToSet
    <3>2. CASE i <= Len(s)
      BY <1>1, <2>3, <3>1, <3>2 DEF ToSet
    <3>3. CASE ~ (i <= Len(s))
      <4>1. i - Len(s) \in DOMAIN t /\ t[i - Len(s)] = x
        BY <1>1, <3>1, <3>3
      <4> QED BY <2>3, <4>1 DEF ToSet
    <3> QED BY <3>2, <3>3
  <2> QED BY <2>1, <2>2, <2>3
<1> QED BY <1>1, <1>2, <1>3

LEMMA FlattenChains ==
  ASSUME NEW S, NEW R, NEW seqs \in Seq(Seq(S)),
         \A i \in DOMAIN seqs : Chain(seqs[i], R),
         \A i, j \in DOMAIN seqs : i < j =>
           \A a \in ToSet(seqs[i]), b \in ToSet(seqs[j]) : <<a, b>> \in R
  PROVE  /\ FlattenSeq(seqs) \in Seq(S)
         /\ Chain(FlattenSeq(seqs), R)
         /\ ToSet(FlattenSeq(seqs)) = UNION {ToSet(seqs[i]) : i \in DOMAIN seqs}
<1> DEFINE n == Len(seqs)
<1>1. n \in Nat /\ DOMAIN seqs = 1..n /\ \A i \in 1..n : seqs[i] \in Seq(S)
  BY LenProperties
<1> HIDE DEF n
<1>2. CASE n = 0
  <2>1. seqs = <<>> /\ FlattenSeq(seqs) = <<>>
    BY <1>2, EmptySeq DEF FlattenSeq, n
  <2>2. <<>> \in Seq(S) /\ DOMAIN <<>> = {}
    OBVIOUS
  <2>3. ToSet(<<>>) = {} /\ {ToSet(seqs[i]) : i \in DOMAIN seqs} = {}
    BY <1>1, <1>2, <2>2 DEF ToSet
  <2> QED BY <2>1, <2>2, <2>3 DEF Chain
<1>3. CASE n # 0
  <2>1. PICK f : Folds(f, seqs, n) /\ FlattenSeq(seqs) = f[n]
    BY <1>1, <1>3, FlattenFolds DEF n
  <2> DEFINE Good(i) == /\ f[i] \in Seq(S) /\ Chain(f[i], R)
                        /\ ToSet(f[i]) = UNION {ToSet(seqs[j]) : j \in 1..i}
             Bad == {i \in 1..n : ~ Good(i)}
  <2>2. f[1] = seqs[1] /\ \A i \in 1..n : i # 1 => f[i] = f[i - 1] \o seqs[i]
    <3>1. f = [i \in 1..n |-> IF i = 1 THEN seqs[i] ELSE f[i - 1] \o seqs[i]]
      BY <2>1 DEF Folds
    <3>2. 1 \in 1..n
      BY <1>1, <1>3
    <3>3. \A i \in 1..n : f[i] = IF i = 1 THEN seqs[i] ELSE f[i - 1] \o seqs[i]
      BY <3>1
    <3> QED BY <3>2, <3>3
  <2>3. Good(1)
    <3>1. UNION {ToSet(seqs[j]) : j \in 1..1} = ToSet(seqs[1])
      OBVIOUS
    <3>2. 1 \in DOMAIN seqs /\ f[1] = seqs[1] /\ f[1] \in Seq(S)
      BY <1>1, <1>3, <2>2
    <3> QED BY <3>1, <3>2
  <2>4. ASSUME NEW i \in 1..n, i # 1, Good(i - 1) PROVE Good(i)
    <3>1. i - 1 \in 1..n /\ i \in DOMAIN seqs /\ 1..i = (1..(i - 1)) \cup {i}
      BY <1>1, <2>4
    <3>2. ASSUME NEW a \in ToSet(f[i - 1]), NEW b \in ToSet(seqs[i])
          PROVE  <<a, b>> \in R
      <4>1. PICK j \in 1..(i - 1) : a \in ToSet(seqs[j])
        BY <2>4
      <4>2. j \in DOMAIN seqs /\ j < i
        BY <1>1, <3>1
      <4> QED BY <3>1, <4>1, <4>2
    <3>3. \A j \in DOMAIN f[i - 1], k \in DOMAIN seqs[i] : <<f[i - 1][j], seqs[i][k]>> \in R
      BY <3>2 DEF ToSet
    <3>4. /\ f[i] \in Seq(S) /\ Chain(f[i], R)
          /\ ToSet(f[i]) = ToSet(f[i - 1]) \cup ToSet(seqs[i])
      <4>1. /\ f[i - 1] \in Seq(S) /\ seqs[i] \in Seq(S)
            /\ Chain(f[i - 1], R) /\ Chain(seqs[i], R) /\ f[i] = f[i - 1] \o seqs[i]
        BY <1>1, <2>2, <2>4, <3>1
      <4>2. PICK s : s = f[i - 1]
        OBVIOUS
      <4>3. PICK t : t = seqs[i]
        OBVIOUS
      <4> HIDE DEF Good, Bad
      <4>4. /\ s \o t \in Seq(S) /\ Chain(s \o t, R) /\ ToSet(s \o t) = ToSet(s) \cup ToSet(t)
        <5>1. s \in Seq(S) /\ t \in Seq(S) /\ Chain(s, R) /\ Chain(t, R)
          BY <4>1, <4>2, <4>3
        <5>2. \A j \in DOMAIN s, k \in DOMAIN t : <<s[j], t[k]>> \in R
          BY <3>3, <4>2, <4>3
        <5> QED BY <5>1, <5>2, ChainJoin
      <4> QED BY <4>1, <4>2, <4>3, <4>4
    <3>5. UNION {ToSet(seqs[j]) : j \in 1..i}
            = (UNION {ToSet(seqs[j]) : j \in 1..(i - 1)}) \cup ToSet(seqs[i])
      BY <3>1
    <3> QED BY <2>4, <3>4, <3>5
  <2>5. Bad = {}
    <3>1. SUFFICES ASSUME Bad # {} PROVE FALSE
      OBVIOUS
    <3>2. PICK i \in Bad : \A k \in Bad : i <= k
      <4>1. Bad \in SUBSET Nat
        OBVIOUS
      <4> HIDE DEF Bad
      <4> QED BY <3>1, <4>1, LeastNatural
    <3>3. i \in 1..n /\ ~ Good(i)
      OBVIOUS
    <3> HIDE DEF Good
    <3>4. i # 1
      BY <2>3, <3>3
    <3>5. i - 1 \in 1..n /\ i - 1 \notin Bad
      BY <1>1, <3>2, <3>3, <3>4
    <3>6. Good(i - 1)
      BY <3>5
    <3> QED BY <2>4, <3>3, <3>4, <3>6
  <2>6. Good(n)
    <3> HIDE DEF Good
    <3> QED BY <1>1, <1>3, <2>5
  <2> QED BY <1>1, <2>1, <2>6
<1> QED BY <1>1, <1>2, <1>3
-----------------------------------------------------------------------------
Grades == {"none", "partial", "complete"}
Action == [critical : BOOLEAN, groups : Seq(Grades)]
Step == [position : Nat \X Nat \X Nat, critical : BOOLEAN, validation : Grades]

Precedes == {e \in Step \X Step : Below(e[1].position, e[2].position)}

LEMMA ListIsSeq ==
  ASSUME NEW S, NEW n \in Nat, NEW f \in [1..n -> S]
  PROVE  f \in Seq(S) /\ DOMAIN f = 1..n
BY SeqDef

PlacesOf(steps) == {step.position : step \in ToSet(steps)}

PlacesOfAction(g, a, action) ==
  {<<g - 1, a - 1, s - 1>> : s \in DOMAIN action.groups}

PlacesOfGoal(g, goal) ==
  UNION {PlacesOfAction(g, a, goal[a]) : a \in DOMAIN goal}

LEMMA ActionInOrder ==
  ASSUME NEW g \in Nat \ {0}, NEW a \in Nat \ {0}, NEW action \in Action
  PROVE  /\ StepsOfAction(g, a, action) \in Seq(Step)
         /\ Chain(StepsOfAction(g, a, action), Precedes)
         /\ \A step \in ToSet(StepsOfAction(g, a, action)) :
              step \in Step /\ step.position[1] = g - 1 /\ step.position[2] = a - 1
         /\ PlacesOf(StepsOfAction(g, a, action)) = PlacesOfAction(g, a, action)
<1> DEFINE steps == StepsOfAction(g, a, action)
           step(s) == [position   |-> <<g - 1, a - 1, s - 1>>,
                       critical   |-> action.critical,
                       validation |-> action.groups[s]]
<1>1. PICK n \in Nat : DOMAIN action.groups = 1..n /\ action.groups \in [1..n -> Grades]
  BY LenProperties DEF Action
<1>2. ASSUME NEW s \in 1..n PROVE step(s) \in Step
  <2>1. action.critical \in BOOLEAN /\ action.groups[s] \in Grades
    BY <1>1 DEF Action
  <2>2. g - 1 \in Nat /\ a - 1 \in Nat /\ s - 1 \in Nat
    OBVIOUS
  <2> QED BY <2>1, <2>2 DEF Step
<1>3. steps = [s \in 1..n |-> step(s)]
  BY <1>1 DEF StepsOfAction
<1>4. /\ DOMAIN steps = 1..n
      /\ \A s \in 1..n : /\ steps[s] \in Step
                          /\ steps[s].position = <<g - 1, a - 1, s - 1>>
  BY <1>2, <1>3
<1>5. steps \in [1..n -> Step]
  BY <1>2, <1>3
<1> HIDE DEF steps, step
<1>6. steps \in Seq(Step)
  BY <1>5, ListIsSeq
<1>7. Chain(steps, Precedes)
  <2> SUFFICES ASSUME NEW j \in 1..n, NEW k \in 1..n, j < k
               PROVE  <<steps[j], steps[k]>> \in Precedes
    BY <1>4 DEF Chain
  <2>1. Below(steps[j].position, steps[k].position)
    BY <1>4 DEF Below
  <2> QED BY <1>4, <2>1 DEF Precedes
<1>8. ASSUME NEW t \in ToSet(steps)
      PROVE  t \in Step /\ t.position[1] = g - 1 /\ t.position[2] = a - 1
  BY <1>4, <1>8 DEF ToSet
<1>9. PlacesOf(steps) = PlacesOfAction(g, a, action)
  BY <1>1, <1>4 DEF ToSet, PlacesOf, PlacesOfAction
<1> QED BY <1>6, <1>7, <1>8, <1>9 DEF steps

LEMMA PartsInOrder ==
  ASSUME NEW n \in Nat, NEW parts \in [1..n -> Seq(Step)],
         \A i \in 1..n : Chain(parts[i], Precedes),
         \A i, j \in 1..n : i < j =>
           \A t \in ToSet(parts[i]), u \in ToSet(parts[j]) : Below(t.position, u.position)
  PROVE  /\ FlattenSeq(parts) \in Seq(Step)
         /\ Chain(FlattenSeq(parts), Precedes)
         /\ ToSet(FlattenSeq(parts)) = UNION {ToSet(parts[i]) : i \in 1..n}
         /\ PlacesOf(FlattenSeq(parts)) = UNION {PlacesOf(parts[i]) : i \in 1..n}
<1>1. parts \in Seq(Seq(Step)) /\ DOMAIN parts = 1..n
  BY ListIsSeq
<1>2. ASSUME NEW i \in DOMAIN parts PROVE \A t \in ToSet(parts[i]) : t \in Step
  BY <1>1, LenProperties DEF ToSet
<1>3. \A i \in DOMAIN parts : Chain(parts[i], Precedes)
  BY <1>1
<1>4. \A i, j \in DOMAIN parts : i < j =>
        \A t \in ToSet(parts[i]), u \in ToSet(parts[j]) : <<t, u>> \in Precedes
  BY <1>1, <1>2 DEF Precedes
<1>5. /\ FlattenSeq(parts) \in Seq(Step) /\ Chain(FlattenSeq(parts), Precedes)
      /\ ToSet(FlattenSeq(parts)) = UNION {ToSet(parts[i]) : i \in DOMAIN parts}
  BY <1>1, <1>3, <1>4, FlattenChains
<1>6. PICK all : all = FlattenSeq(parts)
  OBVIOUS
<1>7. ToSet(all) = UNION {ToSet(parts[i]) : i \in 1..n}
  BY <1>1, <1>5, <1>6
<1>8. PlacesOf(all) = UNION {PlacesOf(parts[i]) : i \in 1..n}
  BY <1>7 DEF PlacesOf
<1> QED BY <1>1, <1>5, <1>6, <1>8

LEMMA GoalInOrder ==
  ASSUME NEW g \in Nat \ {0}, NEW goal \in Seq(Action)
  PROVE  /\ StepsOfGoal(g, goal) \in Seq(Step)
         /\ Chain(StepsOfGoal(g, goal), Precedes)
         /\ \A step \in ToSet(StepsOfGoal(g, goal)) :
              step \in Step /\ step.position[1] = g - 1
         /\ PlacesOf(StepsOfGoal(g, goal)) = PlacesOfGoal(g, goal)
<1> DEFINE parts == [a \in DOMAIN goal |-> StepsOfAction(g, a, goal[a])]
<1>1. PICK n \in Nat : DOMAIN goal = 1..n /\ \A a \in 1..n : goal[a] \in Action
  BY LenProperties
<1>2. ASSUME NEW a \in 1..n
      PROVE  /\ parts[a] \in Seq(Step) /\ Chain(parts[a], Precedes)
             /\ \A t \in ToSet(parts[a]) :
                  t \in Step /\ t.position[1] = g - 1 /\ t.position[2] = a - 1
             /\ PlacesOf(parts[a]) = PlacesOfAction(g, a, goal[a])
  <2>1. parts[a] = StepsOfAction(g, a, goal[a]) /\ a \in Nat \ {0} /\ goal[a] \in Action
    BY <1>1
  <2> HIDE DEF parts
  <2>2. PICK act \in Action : act = goal[a]
    BY <2>1
  <2>3. PICK steps : steps = StepsOfAction(g, a, act)
    OBVIOUS
  <2>4. /\ steps \in Seq(Step) /\ Chain(steps, Precedes)
        /\ \A t \in ToSet(steps) :
             t \in Step /\ t.position[1] = g - 1 /\ t.position[2] = a - 1
        /\ PlacesOf(steps) = PlacesOfAction(g, a, act)
    BY <2>1, <2>3, ActionInOrder
  <2>5. parts[a] = steps /\ act = goal[a]
    BY <2>1, <2>2, <2>3
  <2> QED BY <2>4, <2>5
<1>3. parts \in [1..n -> Seq(Step)] /\ StepsOfGoal(g, goal) = FlattenSeq(parts)
  BY <1>1, <1>2 DEF StepsOfGoal
<1> HIDE DEF parts
<1>4. \A i \in 1..n : Chain(parts[i], Precedes)
  BY <1>2
<1>5. \A i, j \in 1..n : i < j =>
        \A t \in ToSet(parts[i]), u \in ToSet(parts[j]) : Below(t.position, u.position)
  BY <1>2 DEF Below
<1>6. PICK all : all = FlattenSeq(parts)
  OBVIOUS
<1>7. /\ all \in Seq(Step) /\ Chain(all, Precedes)
      /\ ToSet(all) = UNION {ToSet(parts[a]) : a \in 1..n}
      /\ PlacesOf(all) = UNION {PlacesOf(parts[a]) : a \in 1..n}
  BY <1>3, <1>4, <1>5, <1>6, PartsInOrder
<1>8. ASSUME NEW t \in ToSet(all) PROVE t \in Step /\ t.position[1] = g - 1
  BY <1>2, <1>7
<1>9. PlacesOf(all) = PlacesOfGoal(g, goal)
  BY <1>1, <1>2, <1>7 DEF PlacesOfGoal
<1> QED BY <1>3, <1>6, <1>7, <1>8, <1>9

(* A walk has the step groups of its plan and no others, in reading order, *)
(* whatever goals and actions are empty (walk).                            *)
THEOREM WalkIsInOrder ==
  ASSUME NEW plan \in Nested
  PROVE  /\ Walk(plan) \in Seq(Step)
         /\ \A i, j \in DOMAIN Walk(plan) :
              i < j => Below(Walk(plan)[i].position, Walk(plan)[j].position)
         /\ PlacesOf(Walk(plan)) = PositionsOf(plan)
<1> DEFINE parts == [g \in DOMAIN plan |-> StepsOfGoal(g, plan[g])]
<1>1. PICK n \in Nat : DOMAIN plan = 1..n /\ \A g \in 1..n : plan[g] \in Seq(Action)
  BY LenProperties DEF Nested, Action, Grades
<1>2. ASSUME NEW g \in 1..n
      PROVE  /\ parts[g] \in Seq(Step) /\ Chain(parts[g], Precedes)
             /\ \A t \in ToSet(parts[g]) : t \in Step /\ t.position[1] = g - 1
             /\ PlacesOf(parts[g]) = PlacesOfGoal(g, plan[g])
  <2>1. parts[g] = StepsOfGoal(g, plan[g]) /\ g \in Nat \ {0} /\ plan[g] \in Seq(Action)
    BY <1>1
  <2> HIDE DEF parts
  <2>2. PICK goal \in Seq(Action) : goal = plan[g]
    BY <2>1
  <2>3. PICK steps : steps = StepsOfGoal(g, goal)
    OBVIOUS
  <2>4. /\ steps \in Seq(Step) /\ Chain(steps, Precedes)
        /\ \A t \in ToSet(steps) : t \in Step /\ t.position[1] = g - 1
        /\ PlacesOf(steps) = PlacesOfGoal(g, goal)
    BY <2>1, <2>3, GoalInOrder
  <2>5. parts[g] = steps /\ goal = plan[g]
    BY <2>1, <2>2, <2>3
  <2> QED BY <2>4, <2>5
<1>3. parts \in [1..n -> Seq(Step)] /\ Walk(plan) = FlattenSeq(parts)
  BY <1>1, <1>2 DEF Walk
<1> HIDE DEF parts
<1>4. \A i \in 1..n : Chain(parts[i], Precedes)
  BY <1>2
<1>5. \A i, j \in 1..n : i < j =>
        \A t \in ToSet(parts[i]), u \in ToSet(parts[j]) : Below(t.position, u.position)
  BY <1>2 DEF Below
<1>6. PICK all : all = FlattenSeq(parts)
  OBVIOUS
<1>7. /\ all \in Seq(Step) /\ Chain(all, Precedes)
      /\ PlacesOf(all) = UNION {PlacesOf(parts[g]) : g \in 1..n}
  BY <1>3, <1>4, <1>5, <1>6, PartsInOrder
<1>8. \A i, j \in DOMAIN all : i < j => Below(all[i].position, all[j].position)
  BY <1>7 DEF Chain, Precedes
<1>9. PlacesOf(all) = UNION {PlacesOfGoal(g, plan[g]) : g \in 1..n}
  BY <1>2, <1>7
<1>10. PositionsOf(plan) = UNION {PlacesOfGoal(g, plan[g]) : g \in 1..n}
  BY <1>1 DEF PositionsOf, PlacesOfGoal, PlacesOfAction
<1> QED BY <1>3, <1>6, <1>7, <1>8, <1>9, <1>10

LEMMA BelowIsStrict ==
  ASSUME NEW p \in Nat \X Nat \X Nat, NEW q \in Nat \X Nat \X Nat, Below(p, q)
  PROVE  p # q /\ ~ Below(q, p)
<1>1. p[1] \in Nat /\ p[2] \in Nat /\ p[3] \in Nat /\ q[1] \in Nat /\ q[2] \in Nat /\ q[3] \in Nat
  OBVIOUS
<1> QED BY <1>1 DEF Below

\* What the theorems below use of a walk, in one place.
LEMMA WalkFacts ==
  ASSUME NEW plan \in Nested
  PROVE  /\ Len(Walk(plan)) \in Nat /\ DOMAIN Walk(plan) = 1..Len(Walk(plan))
         /\ \A i \in 1..Len(Walk(plan)) : Walk(plan)[i] \in Step
         /\ \A i, j \in 1..Len(Walk(plan)) :
              i < j => Below(Walk(plan)[i].position, Walk(plan)[j].position)
         /\ PositionsOf(plan) = {Walk(plan)[i].position : i \in 1..Len(Walk(plan))}
<1>1. PICK w : w = Walk(plan)
  OBVIOUS
<1>2. /\ w \in Seq(Step)
      /\ \A i, j \in DOMAIN w : i < j => Below(w[i].position, w[j].position)
      /\ PlacesOf(w) = PositionsOf(plan)
  BY <1>1, WalkIsInOrder
<1>3. Len(w) \in Nat /\ DOMAIN w = 1..Len(w) /\ \A i \in 1..Len(w) : w[i] \in Step
  BY <1>2, LenProperties
<1>4. PositionsOf(plan) = {w[i].position : i \in 1..Len(w)}
  BY <1>2, <1>3 DEF PlacesOf, ToSet
<1> QED BY <1>1, <1>2, <1>3, <1>4

LEMMA IndexOfStep ==
  ASSUME NEW plan \in Nested, NEW i \in 1..Len(Walk(plan))
  PROVE  IndexOf(plan, Walk(plan)[i].position) = i
<1>1. PICK w : w = Walk(plan)
  OBVIOUS
<1>2. PICK pos : pos = w[i].position
  OBVIOUS
<1> DEFINE here == {j \in 1..Len(w) : w[j].position = pos}
<1>3. /\ Len(w) \in Nat /\ \A j \in 1..Len(w) : w[j] \in Step
      /\ \A j, k \in 1..Len(w) : j < k => Below(w[j].position, w[k].position)
      /\ i \in 1..Len(w)
  BY <1>1, WalkFacts
<1>4. ASSUME NEW j \in 1..Len(w), w[j].position = pos PROVE j = i
  <2>1. w[i].position \in Nat \X Nat \X Nat
    BY <1>3 DEF Step
  <2>2. ~ Below(w[i].position, w[j].position) /\ ~ Below(w[j].position, w[i].position)
    BY <1>2, <1>4, <2>1, BelowIsStrict
  <2>3. ~ (i < j) /\ ~ (j < i)
    BY <1>3, <2>2
  <2> QED BY <1>3, <2>3
<1>5. here = {i}
  BY <1>2, <1>3, <1>4
<1>6. (CHOOSE m \in {i} : \A k \in {i} : m <= k) = i
  BY <1>3
<1>7. IndexOf(plan, pos) = IF here # {} THEN (CHOOSE m \in here : \A k \in here : m <= k) ELSE 0
  BY <1>1 DEF IndexOf, SelectInSeq, Min
<1> HIDE DEF here
<1>8. IndexOf(plan, pos) = i
  BY <1>5, <1>6, <1>7
<1> QED BY <1>1, <1>2, <1>8

LEMMA IndexOfNowhere ==
  ASSUME NEW plan \in Nested, NEW pos, pos \notin PositionsOf(plan)
  PROVE  IndexOf(plan, pos) = 0
<1>1. PICK w : w = Walk(plan)
  OBVIOUS
<1>2. {j \in 1..Len(w) : w[j].position = pos} = {}
  BY <1>1, WalkFacts
<1> QED BY <1>1, <1>2 DEF IndexOf, SelectInSeq

(* The cursor goes through the walk one step after another, from any step  *)
(* group to the one after it and from the last one nowhere: a session that *)
(* counts indices of the walk visits what the code visits (next_position). *)
THEOREM NextByIndex ==
  ASSUME NEW plan \in Nested, NEW i \in 1..Len(Walk(plan))
  PROVE  NextPosition(plan, Walk(plan)[i].position) =
           IF i = Len(Walk(plan)) THEN NoPosition ELSE Walk(plan)[i + 1].position
<1>1. IndexOf(plan, Walk(plan)[i].position) = i
  BY IndexOfStep
<1>2. i # 0
  BY WalkFacts
<1> QED BY <1>1, <1>2 DEF NextPosition

LEMMA TripleIsNoPosition ==
  ASSUME NEW p \in Nat \X Nat \X Nat
  PROVE  p # NoPosition
<1>1. DOMAIN p = 1..3 /\ DOMAIN NoPosition = {}
  BY DEF NoPosition
<1>2. 1 \in 1..3
  OBVIOUS
<1> QED BY <1>1, <1>2

LEMMA PositionsAreTriples ==
  ASSUME NEW plan \in Nested
  PROVE  PositionsOf(plan) \subseteq Nat \X Nat \X Nat
<1>1. ASSUME NEW i \in 1..Len(Walk(plan)) PROVE Walk(plan)[i].position \in Nat \X Nat \X Nat
  <2>1. Walk(plan)[i] \in Step
    BY WalkFacts
  <2> QED BY <2>1 DEF Step
<1> QED BY <1>1, WalkFacts

(* The cursor moves to the least position above its own, and ends when     *)
(* there is none: it skips no step group and returns to none.              *)
THEOREM NextIsNext ==
  ASSUME NEW plan \in Nested, NEW pos \in PositionsOf(plan)
  PROVE  LET next == NextPosition(plan, pos) IN
           /\ next = NoPosition => \A q \in PositionsOf(plan) : ~ Below(pos, q)
           /\ next # NoPosition =>
                /\ next \in PositionsOf(plan)
                /\ \A q \in PositionsOf(plan) : Below(q, next) <=> q = pos \/ Below(q, pos)
<1> DEFINE next == NextPosition(plan, pos)
<1>1. PICK w : w = Walk(plan)
  OBVIOUS
<1>2. PICK n \in Nat : n = Len(w)
  BY <1>1, WalkFacts
<1>3. /\ \A i \in 1..n : w[i] \in Step
      /\ \A i, j \in 1..n : i < j => Below(w[i].position, w[j].position)
      /\ PositionsOf(plan) = {w[i].position : i \in 1..n}
  BY <1>1, <1>2, WalkFacts
<1>4. \A i \in 1..n : w[i].position \in Nat \X Nat \X Nat
  BY <1>3 DEF Step
<1>5. \A i, j \in 1..n : Below(w[i].position, w[j].position) <=> i < j
  <2> SUFFICES ASSUME NEW i \in 1..n, NEW j \in 1..n, Below(w[i].position, w[j].position)
               PROVE  i < j
    BY <1>3
  <2>1. ~ Below(w[j].position, w[i].position) /\ w[i].position # w[j].position
    BY <1>4, BelowIsStrict
  <2>2. ~ (j < i) /\ i # j
    BY <1>3, <2>1
  <2> QED BY <2>2
<1>6. PICK i \in 1..n : pos = w[i].position
  BY <1>3
<1>7. next = IF i = n THEN NoPosition ELSE w[i + 1].position
  BY <1>1, <1>2, <1>6, NextByIndex
<1> HIDE DEF next
<1>8. CASE i = n
  <2>1. next = NoPosition
    BY <1>7, <1>8
  <2>2. ASSUME NEW q \in PositionsOf(plan) PROVE ~ Below(pos, q)
    <3>1. PICK j \in 1..n : q = w[j].position
      BY <1>3
    <3>2. ~ (i < j)
      BY <1>8
    <3> QED BY <1>5, <1>6, <3>1, <3>2
  <2> QED BY <2>1, <2>2 DEF next
<1>9. CASE i # n
  <2>1. i + 1 \in 1..n
    BY <1>9
  <2>2. next = w[i + 1].position /\ next \in PositionsOf(plan) /\ next # NoPosition
    <3>1. next = w[i + 1].position
      BY <1>7, <1>9
    <3>2. next \in PositionsOf(plan)
      BY <1>3, <2>1, <3>1
    <3>3. next # NoPosition
      BY <1>4, <2>1, <3>1, TripleIsNoPosition
    <3> QED BY <3>1, <3>2, <3>3
  <2>3. ASSUME NEW q \in PositionsOf(plan) PROVE Below(q, next) <=> q = pos \/ Below(q, pos)
    <3>1. PICK j \in 1..n : q = w[j].position
      BY <1>3
    <3>2. j < i + 1 <=> j = i \/ j < i
      OBVIOUS
    <3>3. Below(q, next) <=> j < i + 1
      BY <1>5, <2>1, <2>2, <3>1
    <3>4. Below(q, pos) <=> j < i
      BY <1>5, <1>6, <3>1
    <3>5. q = pos <=> j = i
      <4>1. CASE j = i
        BY <1>6, <3>1, <4>1
      <4>2. CASE j # i
        <5>1. j < i \/ i < j
          BY <4>2
        <5>2. Below(w[j].position, w[i].position) \/ Below(w[i].position, w[j].position)
          BY <1>5, <5>1
        <5>3. w[i].position # w[j].position
          BY <1>4, <5>2, BelowIsStrict
        <5> QED BY <1>6, <3>1, <4>2, <5>3
      <4> QED BY <4>1, <4>2
    <3> QED BY <3>2, <3>3, <3>4, <3>5
  <2> QED BY <2>2, <2>3 DEF next
<1> QED BY <1>8, <1>9

LEMMA OpensAtTheTop ==
  ASSUME NEW plan \in Nested
  PROVE  /\ Opens(plan) => Origin \in PositionsOf(plan)
         /\ \A p \in PositionsOf(plan) : ~ Below(p, Origin)
         /\ NoPosition \notin PositionsOf(plan)
<1>1. Opens(plan) => Origin \in PositionsOf(plan)
  BY IndexOfNowhere DEF Opens
<1>2. ASSUME NEW p \in PositionsOf(plan) PROVE ~ Below(p, Origin) /\ p # NoPosition
  <2>1. p \in Nat \X Nat \X Nat
    BY PositionsAreTriples
  <2>2. p[1] \in Nat /\ p[2] \in Nat /\ p[3] \in Nat
    BY <2>1
  <2> QED BY <2>1, <2>2, TripleIsNoPosition DEF Below, Origin
<1> QED BY <1>1, <1>2
=============================================================================

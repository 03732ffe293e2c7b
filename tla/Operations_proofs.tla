-------------------------- MODULE Operations_proofs --------------------------
(***************************************************************************)
(* Proofs about Operations, for any inputs, limits and table of texts: all *)
(* its invariants.                                                         *)
(*                                                                         *)
(* The operations keep nothing but what has passed its steps, so that a step *)
(* a cache spares would have passed: every answer is a function of the input *)
(* (AnswersKnown), and with TypeOK and the order in which a program comes to *)
(* be prepared that is inductive (IInv).  What is left of each property is a *)
(* fact about that function, and rests on what the recursive operators on  *)
(* types, values and JSON do with trees of any shape: a value that decodes is *)
(* well formed and no deeper than its JSON, it matches a type exactly when it *)
(* inhabits it, what matches a type matches any other that it is assignable *)
(* to, and what goes out tagged decodes to what it was.                    *)
(***************************************************************************)
EXTENDS Operations, FiniteSetTheorems, SequenceTheorems, WellFoundedInduction, TLAPS

(***************************************************************************)
(* Induction: over the natural numbers, as in RequestBatches_proofs, and   *)
(* over the nodes of trees, whose depth the JSON decoder bounds.           *)
(***************************************************************************)
\* A non-empty set of natural numbers has a smallest element.
LEMMA SmallestElement ==
  ASSUME NEW T, T \subseteq Nat, T # {}
  PROVE  \E x \in T : \A y \in T : x <= y
<1>1. PICK R : R = {ss \in Nat \X Nat : ss[1] < ss[2]}
  OBVIOUS
<1>2. IsWellFoundedOn(R, Nat)
  BY <1>1, NatLessThanWellFounded DEF OpToRel
<1>3. PICK x \in T : \A y \in T : ~(<<y, x>> \in R)
  BY <1>2, WFMin
<1>4. \A y \in T : ~(y < x)
  BY <1>1, <1>3
<1> QED BY <1>4

\* A set with 0 and the successors of its elements has every natural number.
LEMMA EveryNatural ==
  ASSUME NEW T, 0 \in T, \A n \in Nat : n \in T => n + 1 \in T
  PROVE  \A n \in Nat : n \in T
<1>1. SUFFICES ASSUME Nat \ T # {} PROVE FALSE
  OBVIOUS
<1>2. PICK x \in Nat \ T : \A y \in Nat \ T : x <= y
  BY <1>1, SmallestElement
<1>3. x # 0 /\ x - 1 \in Nat /\ x - 1 \notin T
  BY <1>2
<1> QED BY <1>2, <1>3

\* The recursion of Level: a function that satisfies its equation.
Levels(t, level) ==
  level = [m \in Nat |-> IF m = 0 THEN {t} ELSE UNION {Kids(u) : u \in level[m - 1]}]

\* The recursion that defines the levels of a tree has a solution.
LEMMA LevelsExist ==
  ASSUME NEW t
  PROVE  \E level : Levels(t, level)
<1> DEFINE Body(g, m) == IF m = 0 THEN {t} ELSE UNION {Kids(u) : u \in g[m - 1]}
           Upto(k) == \E g : \A m \in 0..k : g[m] = Body(g, m)
<1>0. ASSUME NEW g, NEW h, NEW m, m # 0 => g[m - 1] = h[m - 1] PROVE Body(g, m) = Body(h, m)
  BY <1>0
<1>b. \A g : Body(g, 0) = {t}
  OBVIOUS
<1>a. \A level : (level = [m \in Nat |-> level[m]] /\ \A m \in Nat : level[m] = Body(level, m)) => Levels(t, level)
  BY DEF Levels
<1> HIDE DEF Body
<1>1. Upto(0)
  <2>1. PICK g : g = [m \in 0..0 |-> {t}]
    OBVIOUS
  <2> QED BY <1>b, <2>1
<1>2. ASSUME NEW k \in Nat, Upto(k) PROVE Upto(k + 1)
  <2>1. PICK g : \A m \in 0..k : g[m] = Body(g, m)
    BY <1>2
  <2>2. PICK h : h = [m \in Nat |-> Body(g, m)]
    OBVIOUS
  <2>3. \A m \in 0..k : h[m] = g[m]
    BY <2>1, <2>2
  <2>4. ASSUME NEW m \in 0..(k + 1) PROVE h[m] = Body(h, m)
    <3>1. m # 0 => m - 1 \in 0..k
      OBVIOUS
    <3>2. h[m] = Body(g, m)
      BY <2>2
    <3>3. Body(g, m) = Body(h, m)
      BY <1>0, <2>3, <3>1
    <3> QED BY <3>2, <3>3
  <2> QED BY <2>4
<1>3. \A k \in Nat : Upto(k)
  <2>1. PICK T : T = {k \in Nat : Upto(k)}
    OBVIOUS
  <2> HIDE DEF Upto
  <2>2. 0 \in T /\ \A k \in Nat : k \in T => k + 1 \in T
    BY <1>1, <1>2, <2>1
  <2>3. \A k \in Nat : k \in T
    BY <2>2, EveryNatural
  <2> QED BY <2>1, <2>3
<1>4. ASSUME NEW g, NEW h, NEW k \in Nat, \A m \in 0..k : g[m] = Body(g, m),
             NEW l \in Nat, k <= l, \A m \in 0..l : h[m] = Body(h, m)
      PROVE  g[k] = h[k]
  <2>1. PICK T : T = {m \in Nat : m <= k => g[m] = h[m]}
    OBVIOUS
  <2>2. 0 \in T
    BY <1>b, <1>4, <2>1
  <2>3. ASSUME NEW m \in Nat, m \in T PROVE m + 1 \in T
    <3>1. CASE m + 1 <= k
      <4>1. m + 1 \in 0..k /\ m + 1 \in 0..l /\ (m + 1) - 1 = m /\ m + 1 # 0 /\ m <= k
        BY <1>4, <3>1
      <4>2. g[m] = h[m]
        BY <2>1, <2>3, <4>1
      <4>3. g[m + 1] = Body(g, m + 1) /\ h[m + 1] = Body(h, m + 1)
        BY <1>4, <4>1
      <4>4. Body(g, m + 1) = Body(h, m + 1)
        BY <1>0, <4>1, <4>2
      <4> QED BY <2>1, <4>3, <4>4
    <3> QED BY <2>1, <3>1
  <2> QED BY <2>1, <2>2, <2>3, EveryNatural
<1> DEFINE From(k) == CHOOSE g : \A m \in 0..k : g[m] = Body(g, m)
<1>5. \A k \in Nat : \A m \in 0..k : From(k)[m] = Body(From(k), m)
  BY <1>3
<1>6. PICK level : level = [k \in Nat |-> From(k)[k]]
  OBVIOUS
<1>7. ASSUME NEW k \in Nat PROVE level[k] = Body(level, k)
  <2>1. level[k] = From(k)[k]
    BY <1>6
  <2>3. From(k)[k] = Body(From(k), k)
    BY <1>5
  <2>2. ASSUME k # 0 PROVE From(k)[k - 1] = level[k - 1]
    <3>1. PICK j \in Nat : j = k - 1
      BY <2>2
    <3>2. j <= k
      BY <3>1
    <3>3. PICK g, h : g = From(j) /\ h = From(k)
      OBVIOUS
    <3>4. \A m \in 0..j : g[m] = Body(g, m)
      BY <1>5, <3>3
    <3>5. \A m \in 0..k : h[m] = Body(h, m)
      BY <1>5, <3>3
    <3>6. g[j] = h[j]
      BY <1>4, <3>2, <3>4, <3>5
    <3> QED BY <1>6, <3>1, <3>3, <3>6
  <2> QED BY <1>0, <2>1, <2>2, <2>3
<1>8. level = [m \in Nat |-> level[m]]
  BY <1>6
<1> QED BY <1>a, <1>7, <1>8

\* A level is what lies directly below the one above it.
LEMMA LevelUnfolds ==
  ASSUME NEW t
  PROVE  /\ Level(t, 0) = {t}
         /\ \A n \in Nat : Level(t, n + 1) = UNION {Kids(u) : u \in Level(t, n)}
<1>1. PICK level : level = CHOOSE l : Levels(t, l)
  OBVIOUS
<1>2. Levels(t, level)
  BY <1>1, LevelsExist, Zenon
<1>3. \A n : Level(t, n) = level[n]
  BY <1>1 DEF Level, Levels
<1>4. level[0] = {t}
  BY <1>2 DEF Levels
<1>5. ASSUME NEW n \in Nat PROVE level[n + 1] = UNION {Kids(u) : u \in level[n]}
  <2>1. n + 1 \in Nat /\ (n + 1) - 1 = n /\ n + 1 # 0
    OBVIOUS
  <2>2. level[n + 1] = UNION {Kids(u) : u \in level[(n + 1) - 1]}
    BY <1>2, <2>1 DEF Levels
  <2> QED BY <2>1, <2>2, Zenon
<1> QED BY <1>3, <1>4, <1>5

\* The members of the levels of a tree, one level by the one above.
LEMMA LevelMembers ==
  ASSUME NEW t
  PROVE  /\ \A u : u \in Level(t, 0) <=> u = t
         /\ \A n \in Nat : \A u : u \in Level(t, n + 1) <=> \E v \in Level(t, n) : u \in Kids(v)
BY LevelUnfolds

\* The levels of a tree are those of what lies directly below it.
LEMMA LevelShifts ==
  ASSUME NEW t
  PROVE  \A n \in Nat : \A u : u \in Level(t, n + 1) <=> \E k \in Kids(t) : u \in Level(k, n)
<1> DEFINE Shifts(n) == \A u : u \in Level(t, n + 1) <=> \E k \in Kids(t) : u \in Level(k, n)
<1>1. PICK T : T = {n \in Nat : Shifts(n)}
  OBVIOUS
<1>2. Shifts(0)
  <2>1. \A u : u \in Level(t, 0 + 1) <=> \E v \in Level(t, 0) : u \in Kids(v)
    BY LevelMembers
  <2> QED BY <2>1, LevelMembers
<1>3. ASSUME NEW n \in Nat, Shifts(n) PROVE Shifts(n + 1)
  <2>0. n + 1 \in Nat
    OBVIOUS
  <2>1. \A u : u \in Level(t, (n + 1) + 1) <=> \E v \in Level(t, n + 1) : u \in Kids(v)
    BY <2>0, LevelMembers
  <2>2. \A k : \A u : u \in Level(k, n + 1) <=> \E v \in Level(k, n) : u \in Kids(v)
    <3>1. ASSUME NEW k PROVE \A m \in Nat : \A u : u \in Level(k, m + 1) <=> \E v \in Level(k, m) : u \in Kids(v)
      BY LevelMembers
    <3> QED BY <3>1
  <2> QED BY <1>3, <2>1, <2>2
<1> HIDE DEF Shifts
<1>4. \A n \in Nat : n \in T
  BY <1>1, <1>2, <1>3, EveryNatural
<1>5. \A n \in Nat : Shifts(n)
  BY <1>1, <1>4
<1> QED BY <1>5 DEF Shifts

\* The recursion of Nodes.
Within(t, within) ==
  within = [n \in Nat |-> IF n = 0 THEN {t}
                          ELSE LET above == within[n - 1] IN above \cup UNION {Kids(u) : u \in above}]

\* The nodes of a tree are what is on one of its levels, as deep as JSON goes.
LEMMA NodesAre ==
  ASSUME NEW t
  PROVE  \A u : u \in Nodes(t) <=> \E n \in 0..MaxNesting : u \in Level(t, n)
<1>1. PICK w : w = [n \in Nat |-> UNION {Level(t, m) : m \in 0..n}]
  OBVIOUS
<1>2. \A n \in Nat : \A u : u \in w[n] <=> \E m \in 0..n : u \in Level(t, m)
  BY <1>1
<1>3. w[0] = {t}
  BY <1>2, LevelMembers
<1>4. ASSUME NEW n \in Nat PROVE w[n + 1] = w[n] \cup UNION {Kids(u) : u \in w[n]}
  <2>1. ASSUME NEW u, u \in w[n + 1] PROVE u \in w[n] \/ \E v \in w[n] : u \in Kids(v)
    <3>1. PICK m \in 0..(n + 1) : u \in Level(t, m)
      BY <1>2, <2>1
    <3>2. CASE m \in 0..n
      BY <1>2, <3>1, <3>2
    <3>3. CASE m = n + 1
      <4>1. PICK v \in Level(t, n) : u \in Kids(v)
        BY <3>1, <3>3, LevelMembers
      <4>2. n \in 0..n
        OBVIOUS
      <4> QED BY <1>2, <4>1, <4>2
    <3> QED BY <3>2, <3>3
  <2>2. ASSUME NEW u, u \in w[n] PROVE u \in w[n + 1]
    BY <1>2, <2>2
  <2>3. ASSUME NEW u, NEW v \in w[n], u \in Kids(v) PROVE u \in w[n + 1]
    <3>1. PICK m \in 0..n : v \in Level(t, m)
      BY <1>2
    <3>2. u \in Level(t, m + 1)
      BY <2>3, <3>1, LevelMembers
    <3>3. m + 1 \in 0..(n + 1)
      OBVIOUS
    <3> QED BY <1>2, <3>2, <3>3
  <2>4. \A u : u \in w[n + 1] <=> u \in w[n] \/ \E v \in w[n] : u \in Kids(v)
    BY <2>1, <2>2, <2>3
  <2> QED BY <2>4
<1>5. ASSUME NEW n \in Nat, n # 0 PROVE w[n] = w[n - 1] \cup UNION {Kids(u) : u \in w[n - 1]}
  <2>1. PICK m \in Nat : m = n - 1
    BY <1>5
  <2>2. w[m + 1] = w[m] \cup UNION {Kids(u) : u \in w[m]} /\ m + 1 = n
    BY <1>4, <2>1
  <2> QED BY <2>1, <2>2, Zenon
<1>6. Within(t, w)
  <2>1. PICK z : z = [n \in Nat |-> IF n = 0 THEN {t}
                          ELSE LET above == w[n - 1] IN above \cup UNION {Kids(u) : u \in above}]
    OBVIOUS
  <2>2. ASSUME NEW n \in Nat PROVE w[n] = z[n]
    <3>1. CASE n = 0
      BY <1>3, <2>1, <3>1
    <3>2. CASE n # 0
      <4>1. z[n] = w[n - 1] \cup UNION {Kids(u) : u \in w[n - 1]}
        BY <2>1, <3>2, Zenon
      <4> QED BY <1>5, <3>2, <4>1, Zenon
    <3> QED BY <3>1, <3>2
  <2>3. w = [n \in Nat |-> w[n]] /\ z = [n \in Nat |-> z[n]]
    BY <1>1, <2>1
  <2>4. w = z
    BY <2>2, <2>3
  <2> QED BY <2>1, <2>4, Zenon DEF Within
<1>7. ASSUME NEW x, Within(t, x) PROVE \A n \in Nat : x[n] = w[n]
  <2>1. PICK T : T = {n \in Nat : x[n] = w[n]}
    OBVIOUS
  <2>2. 0 \in T
    BY <1>3, <1>7, <2>1 DEF Within
  <2>3. ASSUME NEW n \in Nat, n \in T PROVE n + 1 \in T
    <3>0. n + 1 \in Nat /\ n + 1 # 0 /\ (n + 1) - 1 = n
      OBVIOUS
    <3>1. x[n + 1] = x[(n + 1) - 1] \cup UNION {Kids(u) : u \in x[(n + 1) - 1]}
      BY <1>7, <3>0, Zenon DEF Within
    <3>2. x[n + 1] = w[n] \cup UNION {Kids(u) : u \in w[n]}
      <4>1. x[n] = w[n]
        BY <2>1, <2>3
      <4> QED BY <3>0, <3>1, <4>1, Zenon
    <3> QED BY <1>4, <2>1, <3>0, <3>2
  <2> QED BY <2>1, <2>2, <2>3, EveryNatural
<1>8. PICK x : x = CHOOSE y : Within(t, y)
  OBVIOUS
<1>9. Within(t, x)
  BY <1>6, <1>8, Zenon
<1>10. Nodes(t) = x[MaxNesting]
  BY <1>8, Zenon DEF Nodes, Within
<1> QED BY <1>2, <1>7, <1>9, <1>10, NestingAssumption

\* What lies below a tree is one level less deep.
LEMMA DepthOfKids ==
  ASSUME NEW t, NEW n \in Nat
  PROVE  /\ ~Deeper(t, n) <=> (Kids(t) = {} \/ (n # 0 /\ \A k \in Kids(t) : ~Deeper(k, n - 1)))
         /\ ~Deeper(t, n) => ~Deeper(t, n + 1)
<1>1. CASE n = 0
  <2>1. \A u : u \in Level(t, 0 + 1) <=> \E k \in Kids(t) : u \in Level(k, 0)
    BY LevelShifts
  <2>2. \A k \in Kids(t) : k \in Level(k, 0)
    BY LevelMembers
  <2> QED BY <1>1, <2>1, <2>2, LevelMembers DEF Deeper
<1>2. CASE n # 0
  <2>1. n - 1 \in Nat /\ (n - 1) + 1 = n
    BY <1>2
  <2>2. \A u : u \in Level(t, n + 1) <=> \E k \in Kids(t) : u \in Level(k, n)
    BY LevelShifts
  <2>3. \A k : Deeper(k, n - 1) <=> Level(k, n) # {}
    BY <2>1 DEF Deeper
  <2>4. ~Deeper(t, n) <=> \A k \in Kids(t) : ~Deeper(k, n - 1)
    BY <2>2, <2>3 DEF Deeper
  <2> QED BY <1>2, <2>4, LevelMembers DEF Deeper
<1>3. ~Deeper(t, n) => ~Deeper(t, n + 1)
  <2>1. n + 1 \in Nat
    OBVIOUS
  <2>2. \A u : u \in Level(t, (n + 1) + 1) <=> \E v \in Level(t, n + 1) : u \in Kids(v)
    BY <2>1, LevelMembers
  <2> QED BY <2>2 DEF Deeper
<1> QED BY <1>1, <1>2, <1>3

\* What a smaller limit admits, a greater one admits.
LEMMA DepthIsALimit ==
  ASSUME NEW t, NEW n \in Nat, NEW m \in Nat, n <= m, ~Deeper(t, n)
  PROVE  ~Deeper(t, m)
<1>1. PICK T : T = {l \in Nat : n <= l => ~Deeper(t, l)}
  OBVIOUS
<1>2. 0 \in T
  BY <1>1
<1>3. ASSUME NEW l \in Nat, l \in T PROVE l + 1 \in T
  <2>1. CASE n <= l
    BY <1>1, <1>3, <2>1, DepthOfKids
  <2>2. CASE n = l + 1
    BY <1>1, <2>2
  <2>3. CASE ~(n <= l + 1)
    BY <1>1, <2>3
  <2> QED BY <2>1, <2>2, <2>3
<1> QED BY <1>1, <1>2, <1>3, EveryNatural

\* Every node of a tree that JSON can hold is such a tree, and has its nodes
\* among those of the whole.
LEMMA NodesUnfold ==
  ASSUME NEW t, ~Deeper(t, MaxNesting)
  PROVE  \A u : u \in Nodes(t) <=> u = t \/ \E k \in Kids(t) : u \in Nodes(k)
<1>0. MaxNesting \in Nat
  BY NestingAssumption
<1>1. ASSUME NEW u, u \in Nodes(t), u # t PROVE \E k \in Kids(t) : u \in Nodes(k)
  <2>1. PICK n \in 0..MaxNesting : u \in Level(t, n)
    BY <1>1, NodesAre
  <2>2. n # 0
    BY <1>1, <2>1, LevelMembers
  <2>3. PICK m \in Nat : n = m + 1
    <3>1. n - 1 \in Nat /\ n = (n - 1) + 1
      BY <1>0, <2>2
    <3> QED BY <3>1
  <2>4. m \in 0..MaxNesting
    BY <1>0, <2>3
  <2>5. PICK k \in Kids(t) : u \in Level(k, m)
    BY <2>1, <2>3, LevelShifts
  <2> QED BY <2>4, <2>5, NodesAre
<1>2. t \in Nodes(t)
  <2>1. 0 \in 0..MaxNesting
    BY <1>0
  <2> QED BY <2>1, NodesAre, LevelMembers
<1>3. ASSUME NEW k \in Kids(t), NEW u \in Nodes(k) PROVE u \in Nodes(t)
  <2>1. PICK n \in 0..MaxNesting : u \in Level(k, n)
    BY NodesAre
  <2>2. n + 1 \in Nat /\ u \in Level(t, n + 1)
    BY <2>1, LevelShifts
  <2>3. n # MaxNesting
    <3>1. Level(t, MaxNesting + 1) = {}
      BY DEF Deeper
    <3> QED BY <2>2, <3>1
  <2>4. n + 1 \in 0..MaxNesting
    BY <1>0, <2>3
  <2> QED BY <2>2, <2>4, NodesAre
<1> QED BY <1>1, <1>2, <1>3

\* A set of trees that JSON can hold and of all that lies below them.
Grown(D) == \A u \in D : ~Deeper(u, MaxNesting) /\ Kids(u) \subseteq D

\* The nodes of a tree are such a set.
LEMMA NodesGrown ==
  ASSUME NEW t, ~Deeper(t, MaxNesting)
  PROVE  /\ Grown(Nodes(t)) /\ t \in Nodes(t)
         /\ \A k \in Kids(t) : ~Deeper(k, MaxNesting) /\ Nodes(k) \subseteq Nodes(t)
<1>0. MaxNesting \in Nat
  BY NestingAssumption
<1>1. ASSUME NEW u, ~Deeper(u, MaxNesting), NEW k \in Kids(u) PROVE ~Deeper(k, MaxNesting)
  <2>1. MaxNesting # 0 /\ ~Deeper(k, MaxNesting - 1)
    BY <1>0, <1>1, DepthOfKids
  <2>2. MaxNesting - 1 \in Nat /\ (MaxNesting - 1) + 1 = MaxNesting
    BY <1>0, <2>1
  <2>3. ~Deeper(k, (MaxNesting - 1) + 1)
    BY <2>1, <2>2, DepthOfKids
  <2> QED BY <2>2, <2>3
<1>2. ASSUME NEW u \in Nodes(t) PROVE ~Deeper(u, MaxNesting) /\ Kids(u) \subseteq Nodes(t)
  <2>1. PICK T : T = {n \in Nat : \A v \in Level(t, n) : ~Deeper(v, MaxNesting)}
    OBVIOUS
  <2>2. 0 \in T
    BY <2>1, LevelMembers
  <2>3. ASSUME NEW n \in Nat, n \in T PROVE n + 1 \in T
    <3>0. n + 1 \in Nat
      OBVIOUS
    <3>1. ASSUME NEW v \in Level(t, n + 1) PROVE ~Deeper(v, MaxNesting)
      <4>1. PICK x \in Level(t, n) : v \in Kids(x)
        BY LevelMembers
      <4>2. ~Deeper(x, MaxNesting)
        BY <2>1, <2>3
      <4> QED BY <1>1, <4>1, <4>2
    <3> QED BY <2>1, <3>0, <3>1
  <2>4. \A n \in Nat : n \in T
    BY <2>2, <2>3, EveryNatural
  <2>5. PICK n \in 0..MaxNesting : u \in Level(t, n)
    BY NodesAre
  <2>6. ~Deeper(u, MaxNesting)
    <3>1. n \in T
      BY <2>4
    <3> QED BY <2>1, <2>5, <3>1
  <2>7. ASSUME NEW k \in Kids(u) PROVE k \in Nodes(t)
    <3>1. n \in Nat /\ k \in Level(t, n + 1)
      BY <2>5, LevelMembers
    <3>2. n # MaxNesting
      BY <3>1 DEF Deeper
    <3>3. n + 1 \in 0..MaxNesting
      BY <1>0, <3>2
    <3> QED BY <3>1, <3>3, NodesAre
  <2> QED BY <2>6, <2>7
<1>3. t \in Nodes(t) /\ \A k \in Kids(t) : Nodes(k) \subseteq Nodes(t)
  BY NodesUnfold
<1> QED BY <1>1, <1>2, <1>3 DEF Grown

\* All that is below a tree.
Below(t) == UNION {Nodes(k) : k \in Kids(t)}

\* What lies directly below lies below.
LEMMA KidsAreBelow ==
  ASSUME NEW t
  PROVE  Kids(t) \subseteq Below(t)
<1>1. 0 \in 0..MaxNesting
  BY NestingAssumption
<1>2. \A k : k \in Nodes(k)
  BY <1>1, NodesAre, LevelMembers
<1> QED BY <1>2 DEF Below

\* A set that is closed downwards has what lies below its members.
LEMMA BelowGrown ==
  ASSUME NEW D, Grown(D), NEW t \in D
  PROVE  Below(t) \subseteq D
<1>1. ASSUME NEW k \in Kids(t), NEW u \in Nodes(k) PROVE u \in D
  <2>1. PICK n \in 0..MaxNesting : u \in Level(k, n)
    BY NodesAre
  <2>2. PICK T : T = {m \in Nat : Level(k, m) \subseteq D}
    OBVIOUS
  <2>3. 0 \in T
    BY <2>2, LevelMembers DEF Grown
  <2>4. ASSUME NEW m \in Nat, m \in T PROVE m + 1 \in T
    BY <2>2, <2>4, LevelMembers DEF Grown
  <2>5. n \in T
    BY <2>3, <2>4, EveryNatural
  <2> QED BY <2>1, <2>2, <2>5
<1> QED BY <1>1 DEF Below

\* What is below a tree is less deep.
LEMMA DepthOfBelow ==
  ASSUME NEW t, NEW n \in Nat, ~Deeper(t, n), NEW u \in Below(t)
  PROVE  n # 0 /\ ~Deeper(u, n - 1)
<1>1. PICK k \in Kids(t) : u \in Nodes(k)
  BY DEF Below
<1>2. n # 0 /\ ~Deeper(k, n - 1)
  BY <1>1, DepthOfKids
<1>3. PICK l \in Nat : l = n - 1
  BY <1>2
<1>4. PICK m \in 0..MaxNesting : u \in Level(k, m)
  BY <1>1, NodesAre
<1>5. PICK T : T = {i \in Nat : \A v \in Level(k, i) : ~Deeper(v, l)}
  OBVIOUS
<1>6. 0 \in T
  BY <1>2, <1>3, <1>5, LevelMembers
<1>7. ASSUME NEW i \in Nat, i \in T PROVE i + 1 \in T
  <2>0. i + 1 \in Nat
    OBVIOUS
  <2>1. ASSUME NEW v \in Level(k, i + 1) PROVE ~Deeper(v, l)
    <3>1. PICK x \in Level(k, i) : v \in Kids(x)
      BY LevelMembers
    <3>2. ~Deeper(x, l)
      BY <1>5, <1>7
    <3>3. l # 0 /\ ~Deeper(v, l - 1)
      BY <3>1, <3>2, DepthOfKids
    <3>4. l - 1 \in Nat /\ (l - 1) + 1 = l
      BY <3>3
    <3>5. ~Deeper(v, (l - 1) + 1)
      BY <3>3, <3>4, DepthOfKids
    <3> QED BY <3>4, <3>5
  <2> QED BY <1>5, <2>0, <2>1
<1>8. m \in T
  BY <1>6, <1>7, EveryNatural
<1> QED BY <1>2, <1>3, <1>4, <1>5, <1>8

\* Induction from all that is below a tree.
LEMMA BelowInduction ==
  ASSUME NEW D, Grown(D), NEW S, \A u \in D : Below(u) \subseteq S => u \in S
  PROVE  D \subseteq S
<1>1. PICK T : T = {n \in Nat : \A u \in D : ~Deeper(u, n) => u \in S}
  OBVIOUS
<1>2. 0 \in T
  <2>1. ASSUME NEW u \in D, ~Deeper(u, 0) PROVE u \in S
    <3>1. 0 \in Nat
      OBVIOUS
    <3>2. \A v : v \notin Below(u)
      BY <2>1, <3>1, DepthOfBelow
    <3> QED BY <3>2
  <2> QED BY <1>1, <2>1
<1>3. ASSUME NEW n \in Nat, n \in T PROVE n + 1 \in T
  <2>0. n + 1 \in Nat /\ (n + 1) - 1 = n
    OBVIOUS
  <2>1. ASSUME NEW u \in D, ~Deeper(u, n + 1) PROVE u \in S
    <3>1. ASSUME NEW v \in Below(u) PROVE ~Deeper(v, n)
      BY <2>0, <2>1, DepthOfBelow
    <3>2. Below(u) \subseteq D
      BY BelowGrown
    <3>3. Below(u) \subseteq S
      BY <1>1, <1>3, <3>1, <3>2
    <3> QED BY <3>3
  <2> QED BY <1>1, <2>0, <2>1
<1>4. \A n \in Nat : n \in T
  BY <1>2, <1>3, EveryNatural
<1>5. MaxNesting \in T
  BY <1>4, NestingAssumption
<1> QED BY <1>1, <1>5 DEF Grown

(***************************************************************************)
(* The recursive functions on trees: each has a solution, which its values *)
(* for what lies below determine.                                          *)
(***************************************************************************)
\* The nodes of a node are among those of the whole tree.
LEMMA NodesWithin ==
  ASSUME NEW t, ~Deeper(t, MaxNesting), NEW u \in Nodes(t)
  PROVE  ~Deeper(u, MaxNesting) /\ Nodes(u) \subseteq Nodes(t)
<1>1. Grown(Nodes(t)) /\ ~Deeper(u, MaxNesting)
  BY NodesGrown DEF Grown
<1>2. Below(u) \subseteq Nodes(t)
  BY <1>1, BelowGrown
<1>3. \A v : v \in Nodes(u) => v = u \/ v \in Below(u)
  BY <1>1, NodesUnfold DEF Below
<1> QED BY <1>1, <1>2, <1>3

\* One step of FromCEL, given what it makes of the parts; and a function that
\* satisfies its equation on D.
FromCELBody(g, u) ==
  IF ~WellShaped(u) THEN Dyn
  ELSE [type |-> u.type, parts |-> [p \in DOMAIN u.parts |-> g[u.parts[p]]]]
FromCELOn(D, x) == x = [u \in D |-> FromCELBody(x, u)]

\* One step of FromCEL depends on what it gives for what lies below.
LEMMA FromCELFrame ==
  ASSUME NEW u, NEW g, NEW h, \A k \in Below(u) : g[k] = h[k]
  PROVE  FromCELBody(g, u) = FromCELBody(h, u)
<1>1. \A p \in DOMAIN u.parts : u.parts[p] \in Below(u)
  BY KidsAreBelow DEF Kids, Range
<1> QED BY <1>1 DEF FromCELBody

\* The recursion of FromCEL has a solution.
LEMMA FromCELExists ==
  ASSUME NEW D, Grown(D)
  PROVE  \E x : FromCELOn(D, x)
<1> DEFINE Upto(n) == \E g : \A u \in D : ~Deeper(u, n) => g[u] = FromCELBody(g, u)
<1>1. Upto(0)
  <2>1. PICK h : h = [u \in D |-> FromCELBody(<<>>, u)]
    OBVIOUS
  <2>2. ASSUME NEW u \in D, ~Deeper(u, 0) PROVE h[u] = FromCELBody(h, u)
    <3>1. 0 \in Nat
      OBVIOUS
    <3>2. \A k : k \notin Below(u)
      BY <2>2, <3>1, DepthOfBelow
    <3>3. FromCELBody(<<>>, u) = FromCELBody(h, u)
      BY <3>2, FromCELFrame
    <3> QED BY <2>1, <3>3
  <2> QED BY <2>2
<1>2. ASSUME NEW n \in Nat, Upto(n) PROVE Upto(n + 1)
  <2>0. n + 1 \in Nat /\ (n + 1) - 1 = n
    OBVIOUS
  <2>1. PICK g : \A u \in D : ~Deeper(u, n) => g[u] = FromCELBody(g, u)
    BY <1>2
  <2>2. PICK h : h = [u \in D |-> FromCELBody(g, u)]
    OBVIOUS
  <2>3. ASSUME NEW u \in D, ~Deeper(u, n + 1) PROVE h[u] = FromCELBody(h, u)
    <3>1. ASSUME NEW k \in Below(u) PROVE g[k] = h[k]
      <4>1. k \in D
        BY BelowGrown
      <4>2. ~Deeper(k, n)
        BY <2>0, <2>3, DepthOfBelow
      <4> QED BY <2>1, <2>2, <4>1, <4>2
    <3>2. FromCELBody(g, u) = FromCELBody(h, u)
      BY <3>1, FromCELFrame
    <3> QED BY <2>2, <3>2
  <2> QED BY <2>3
<1>3. PICK T : T = {n \in Nat : Upto(n)}
  OBVIOUS
<1> HIDE DEF Upto
<1>4. \A n \in Nat : n \in T
  BY <1>1, <1>2, <1>3, EveryNatural
<1>5. Upto(MaxNesting)
  BY <1>3, <1>4, NestingAssumption
<1>6. PICK g : \A u \in D : g[u] = FromCELBody(g, u)
  BY <1>5 DEF Upto, Grown
<1>7. PICK x : x = [u \in D |-> g[u]]
  OBVIOUS
<1>8. ASSUME NEW u \in D PROVE x[u] = FromCELBody(x, u)
  <2>1. \A k \in Below(u) : g[k] = x[k]
    BY <1>7, BelowGrown
  <2>2. FromCELBody(g, u) = FromCELBody(x, u)
    BY <2>1, FromCELFrame
  <2> QED BY <1>6, <1>7, <2>2
<1>9. x = [u \in D |-> FromCELBody(x, u)]
  BY <1>7, <1>8
<1> QED BY <1>9 DEF FromCELOn

\* It is determined by what FromCEL gives below.
LEMMA FromCELUnfolds ==
  ASSUME NEW t, ~Deeper(t, MaxNesting)
  PROVE  \A g : (\A k \in Below(t) : g[k] = FromCEL(k)) => FromCEL(t) = FromCELBody(g, t)
<1>1. ASSUME NEW D, Grown(D), NEW x, FromCELOn(D, x),
             NEW E, Grown(E), NEW y, FromCELOn(E, y), NEW k \in D \cap E
      PROVE  x[k] = y[k]
  <2>1. PICK S : S = {u \in D \cap E : x[u] = y[u]}
    OBVIOUS
  <2>2. Grown(D \cap E)
    BY <1>1 DEF Grown
  <2>3. ASSUME NEW u \in D \cap E, Below(u) \subseteq S PROVE u \in S
    <3>1. \A v \in Below(u) : x[v] = y[v]
      BY <2>1, <2>3
    <3>2. FromCELBody(x, u) = FromCELBody(y, u)
      BY <1>1, <3>1, FromCELFrame
    <3> QED BY <1>1, <2>1, <3>2 DEF FromCELOn
  <2> QED BY <2>1, <2>2, <2>3, BelowInduction
<1>2. ASSUME NEW k, ~Deeper(k, MaxNesting)
      PROVE  \E x : FromCELOn(Nodes(k), x) /\ FromCEL(k) = x[k]
  <2>1. \E x : FromCELOn(Nodes(k), x)
    BY <1>2, NodesGrown, FromCELExists
  <2>2. PICK x : x = CHOOSE y : FromCELOn(Nodes(k), y)
    OBVIOUS
  <2>3. FromCELOn(Nodes(k), x)
    BY <2>1, <2>2, Zenon
  <2>4. FromCEL(k) = x[k]
    BY <2>2, Zenon DEF FromCEL, FromCELOn, FromCELBody
  <2> QED BY <2>3, <2>4
<1>3. PICK x : FromCELOn(Nodes(t), x) /\ FromCEL(t) = x[t]
  BY <1>2
<1>4. Grown(Nodes(t)) /\ t \in Nodes(t)
  BY NodesGrown
<1>5. ASSUME NEW k \in Below(t) PROVE x[k] = FromCEL(k)
  <2>1. k \in Nodes(t)
    BY <1>4, BelowGrown
  <2>2. ~Deeper(k, MaxNesting) /\ Nodes(k) \subseteq Nodes(t)
    BY <1>4, <2>1, NodesWithin DEF Grown
  <2>3. PICK y : FromCELOn(Nodes(k), y) /\ FromCEL(k) = y[k]
    BY <1>2, <2>2
  <2>4. Grown(Nodes(k)) /\ k \in Nodes(k)
    BY <2>2, NodesGrown
  <2> QED BY <1>1, <1>3, <1>4, <2>1, <2>3, <2>4
<1>6. ASSUME NEW g, \A k \in Below(t) : g[k] = FromCEL(k) PROVE FromCEL(t) = FromCELBody(g, t)
  <2>1. FromCELBody(g, t) = FromCELBody(x, t)
    BY <1>4, <1>5, <1>6, FromCELFrame
  <2> QED BY <1>3, <1>4, <2>1 DEF FromCELOn
<1> QED BY <1>6

\* One step of Assignable, its row for a type, and a function that satisfies its
\* equation.
AssignableHolds(g, e, a) ==
  \/ e.type = "dyn"
  \/ /\ a.type = e.type
     /\ \A p \in DOMAIN e.parts :
          IF p \in DOMAIN a.parts THEN g[e.parts[p]][a.parts[p]]
          ELSE e.parts[p].type = "dyn"
AssignableBody(A, g, e) == [a \in A |-> AssignableHolds(g, e, a)]
AssignableOn(D, A, x) == x = [e \in D |-> AssignableBody(A, x, e)]

\* One step of Assignable depends on what it gives for what lies below.
LEMMA AssignableHoldsFrame ==
  ASSUME NEW e, NEW a, NEW g, NEW h, \A k \in Below(e) : \A b \in Below(a) : g[k][b] = h[k][b]
  PROVE  AssignableHolds(g, e, a) = AssignableHolds(h, e, a)
<1>1. \A p \in DOMAIN e.parts : e.parts[p] \in Below(e)
  BY KidsAreBelow DEF Kids, Range
<1>2. \A p \in DOMAIN a.parts : a.parts[p] \in Below(a)
  BY KidsAreBelow DEF Kids, Range
<1>3. \A p \in DOMAIN e.parts : p \in DOMAIN a.parts => g[e.parts[p]][a.parts[p]] = h[e.parts[p]][a.parts[p]]
  BY <1>1, <1>2
<1> QED BY <1>3 DEF AssignableHolds

\* The same for a type held against many.
LEMMA AssignableFrame ==
  ASSUME NEW A, NEW e, NEW g, NEW h, \A k \in Below(e) : g[k] = h[k]
  PROVE  AssignableBody(A, g, e) = AssignableBody(A, h, e)
<1>1. \A a \in A : AssignableHolds(g, e, a) = AssignableHolds(h, e, a)
  BY AssignableHoldsFrame
<1> QED BY <1>1 DEF AssignableBody

\* The recursion of Assignable has a solution.
LEMMA AssignableExists ==
  ASSUME NEW D, Grown(D), NEW A
  PROVE  \E x : AssignableOn(D, A, x)
<1> DEFINE Upto(n) == \E g : \A u \in D : ~Deeper(u, n) => g[u] = AssignableBody(A, g, u)
<1>1. Upto(0)
  <2>1. PICK h : h = [u \in D |-> AssignableBody(A, <<>>, u)]
    OBVIOUS
  <2>2. ASSUME NEW u \in D, ~Deeper(u, 0) PROVE h[u] = AssignableBody(A, h, u)
    <3>1. 0 \in Nat
      OBVIOUS
    <3>2. \A k : k \notin Below(u)
      BY <2>2, <3>1, DepthOfBelow
    <3>3. AssignableBody(A, <<>>, u) = AssignableBody(A, h, u)
      BY <3>2, AssignableFrame
    <3> QED BY <2>1, <3>3
  <2> QED BY <2>2
<1>2. ASSUME NEW n \in Nat, Upto(n) PROVE Upto(n + 1)
  <2>0. n + 1 \in Nat /\ (n + 1) - 1 = n
    OBVIOUS
  <2>1. PICK g : \A u \in D : ~Deeper(u, n) => g[u] = AssignableBody(A, g, u)
    BY <1>2
  <2>2. PICK h : h = [u \in D |-> AssignableBody(A, g, u)]
    OBVIOUS
  <2>3. ASSUME NEW u \in D, ~Deeper(u, n + 1) PROVE h[u] = AssignableBody(A, h, u)
    <3>1. ASSUME NEW k \in Below(u) PROVE g[k] = h[k]
      <4>1. k \in D
        BY BelowGrown
      <4>2. ~Deeper(k, n)
        BY <2>0, <2>3, DepthOfBelow
      <4> QED BY <2>1, <2>2, <4>1, <4>2
    <3>2. AssignableBody(A, g, u) = AssignableBody(A, h, u)
      BY <3>1, AssignableFrame
    <3> QED BY <2>2, <3>2
  <2> QED BY <2>3
<1>3. PICK T : T = {n \in Nat : Upto(n)}
  OBVIOUS
<1> HIDE DEF Upto
<1>4. \A n \in Nat : n \in T
  BY <1>1, <1>2, <1>3, EveryNatural
<1>5. Upto(MaxNesting)
  BY <1>3, <1>4, NestingAssumption
<1>6. PICK g : \A u \in D : g[u] = AssignableBody(A, g, u)
  BY <1>5 DEF Upto, Grown
<1>7. PICK x : x = [u \in D |-> g[u]]
  OBVIOUS
<1>8. ASSUME NEW u \in D PROVE x[u] = AssignableBody(A, x, u)
  <2>1. \A k \in Below(u) : g[k] = x[k]
    BY <1>7, BelowGrown
  <2>2. AssignableBody(A, g, u) = AssignableBody(A, x, u)
    BY <2>1, AssignableFrame
  <2> QED BY <1>6, <1>7, <2>2
<1>9. x = [u \in D |-> AssignableBody(A, x, u)]
  BY <1>7, <1>8
<1> QED BY <1>9 DEF AssignableOn

\* It is determined by what Assignable gives below.
LEMMA AssignableUnfolds ==
  ASSUME NEW e, ~Deeper(e, MaxNesting), NEW a, ~Deeper(a, MaxNesting)
  PROVE  \A g : (\A k \in Below(e) : \A b \in Below(a) : g[k][b] = Assignable(b, k)) =>
                  Assignable(a, e) = AssignableHolds(g, e, a)
<1>1. ASSUME NEW D, Grown(D), NEW A, Grown(A), NEW x, AssignableOn(D, A, x),
             NEW E, Grown(E), NEW B, Grown(B), NEW y, AssignableOn(E, B, y), NEW k \in D \cap E, NEW b \in A \cap B
      PROVE  x[k][b] = y[k][b]
  <2>1. PICK S : S = {u \in D \cap E : \A c \in A \cap B : x[u][c] = y[u][c]}
    OBVIOUS
  <2>2. Grown(D \cap E)
    BY <1>1 DEF Grown
  <2>3. ASSUME NEW u \in D \cap E, Below(u) \subseteq S PROVE u \in S
    <3>1. ASSUME NEW c \in A \cap B PROVE x[u][c] = y[u][c]
      <4>1. Below(c) \subseteq A \cap B
        BY <1>1, BelowGrown
      <4>2. \A v \in Below(u) : \A d \in Below(c) : x[v][d] = y[v][d]
        BY <2>1, <2>3, <4>1
      <4>3. AssignableHolds(x, u, c) = AssignableHolds(y, u, c)
        BY <1>1, <4>2, AssignableHoldsFrame
      <4>4. x[u][c] = AssignableHolds(x, u, c) /\ y[u][c] = AssignableHolds(y, u, c)
        BY <1>1 DEF AssignableOn, AssignableBody
      <4> QED BY <4>3, <4>4
    <3> QED BY <2>1, <3>1
  <2>4. k \in S
    BY <2>1, <2>2, <2>3, BelowInduction
  <2> QED BY <2>1, <2>4
<1>2. ASSUME NEW k, ~Deeper(k, MaxNesting), NEW b, ~Deeper(b, MaxNesting)
      PROVE  \E x : AssignableOn(Nodes(k), Nodes(b), x) /\ Assignable(b, k) = x[k][b]
  <2>1. \E x : AssignableOn(Nodes(k), Nodes(b), x)
    BY <1>2, NodesGrown, AssignableExists
  <2>2. PICK x : x = CHOOSE y : AssignableOn(Nodes(k), Nodes(b), y)
    OBVIOUS
  <2>3. AssignableOn(Nodes(k), Nodes(b), x)
    BY <2>1, <2>2, Zenon
  <2>4. Assignable(b, k) = x[k][b]
    BY <2>2, Zenon DEF Assignable, AssignableOn, AssignableBody, AssignableHolds
  <2> QED BY <2>3, <2>4
<1>3. PICK x : AssignableOn(Nodes(e), Nodes(a), x) /\ Assignable(a, e) = x[e][a]
  BY <1>2
<1>4. Grown(Nodes(e)) /\ e \in Nodes(e) /\ Grown(Nodes(a)) /\ a \in Nodes(a)
  BY NodesGrown
<1>5. ASSUME NEW k \in Below(e), NEW b \in Below(a) PROVE x[k][b] = Assignable(b, k)
  <2>1. k \in Nodes(e) /\ b \in Nodes(a)
    BY <1>4, BelowGrown
  <2>2. /\ ~Deeper(k, MaxNesting) /\ Nodes(k) \subseteq Nodes(e)
        /\ ~Deeper(b, MaxNesting) /\ Nodes(b) \subseteq Nodes(a)
    BY <1>4, <2>1, NodesWithin DEF Grown
  <2>3. PICK y : AssignableOn(Nodes(k), Nodes(b), y) /\ Assignable(b, k) = y[k][b]
    BY <1>2, <2>2
  <2>4. Grown(Nodes(k)) /\ k \in Nodes(k) /\ Grown(Nodes(b)) /\ b \in Nodes(b)
    BY <2>2, NodesGrown
  <2> QED BY <1>1, <1>3, <1>4, <2>1, <2>3, <2>4
<1>6. x[e][a] = AssignableHolds(x, e, a)
  BY <1>3, <1>4 DEF AssignableOn, AssignableBody
<1>7. ASSUME NEW g, \A k \in Below(e) : \A b \in Below(a) : g[k][b] = Assignable(b, k)
      PROVE  Assignable(a, e) = AssignableHolds(g, e, a)
  <2>1. \A k \in Below(e) : \A b \in Below(a) : g[k][b] = x[k][b]
    BY <1>5, <1>7
  <2>2. AssignableHolds(g, e, a) = AssignableHolds(x, e, a)
    BY <1>4, <2>1, AssignableHoldsFrame
  <2> QED BY <1>3, <1>6, <2>2
<1> QED BY <1>7

\* The same for MatchesValue.
MatchesValueHolds(g, e, v) ==
  \/ e.type = "dyn"
  \/ /\ e.type = v.kind
     /\ v.kind = "list" => \A i \in DOMAIN v.parts : g[e.parts["element"]][v.parts[i]]
     /\ v.kind = "map" =>
          \A k \in DOMAIN v.parts :
            MatchesKind(e.parts["key"], k) /\ g[e.parts["value"]][v.parts[k]]
MatchesValueBody(A, g, e) == [v \in A |-> MatchesValueHolds(g, e, v)]
MatchesValueOn(D, A, x) == x = [e \in D |-> MatchesValueBody(A, x, e)]

\* The names of a type's parts.
LEMMA PartsOf ==
  ASSUME NEW t, WellShaped(t)
  PROVE  /\ t.type = "list" => DOMAIN t.parts = {"element"}
         /\ t.type = "map" => DOMAIN t.parts = {"key", "value"}
         /\ t.type \notin {"list", "map"} => t.type \in ScalarNames \cup {"dyn"} /\ DOMAIN t.parts = {}
BY TypesAssumption DEF WellShaped

\* One step of MatchesValue depends on what it gives for what lies below.
LEMMA MatchesValueHoldsFrame ==
  ASSUME NEW e, WellShaped(e), NEW a, NEW g, NEW h, \A k \in Below(e) : \A b \in Below(a) : g[k][b] = h[k][b]
  PROVE  MatchesValueHolds(g, e, a) = MatchesValueHolds(h, e, a)
<1>1. \A p \in DOMAIN e.parts : e.parts[p] \in Below(e)
  BY KidsAreBelow DEF Kids, Range
<1>2. \A p \in DOMAIN a.parts : a.parts[p] \in Below(a)
  BY KidsAreBelow DEF Kids, Range
<1>3. e.type = "list" => \A i \in DOMAIN a.parts : g[e.parts["element"]][a.parts[i]] = h[e.parts["element"]][a.parts[i]]
  BY <1>1, <1>2, PartsOf
<1>4. e.type = "map" => \A i \in DOMAIN a.parts : g[e.parts["value"]][a.parts[i]] = h[e.parts["value"]][a.parts[i]]
  BY <1>1, <1>2, PartsOf
<1> QED BY <1>3, <1>4 DEF MatchesValueHolds

\* The same for a type held against many values.
LEMMA MatchesValueFrame ==
  ASSUME NEW A, NEW e, WellShaped(e), NEW g, NEW h, \A k \in Below(e) : g[k] = h[k]
  PROVE  MatchesValueBody(A, g, e) = MatchesValueBody(A, h, e)
<1>1. \A a \in A : MatchesValueHolds(g, e, a) = MatchesValueHolds(h, e, a)
  BY MatchesValueHoldsFrame
<1> QED BY <1>1 DEF MatchesValueBody

\* The recursion of MatchesValue has a solution on well-shaped types.
LEMMA MatchesValueExists ==
  ASSUME NEW D, Grown(D), NEW A, \A u \in D : WellShaped(u)
  PROVE  \E x : MatchesValueOn(D, A, x)
<1> DEFINE Upto(n) == \E g : \A u \in D : ~Deeper(u, n) => g[u] = MatchesValueBody(A, g, u)
<1>1. Upto(0)
  <2>1. PICK h : h = [u \in D |-> MatchesValueBody(A, <<>>, u)]
    OBVIOUS
  <2>2. ASSUME NEW u \in D, ~Deeper(u, 0) PROVE h[u] = MatchesValueBody(A, h, u)
    <3>1. 0 \in Nat
      OBVIOUS
    <3>2. \A k : k \notin Below(u)
      BY <2>2, <3>1, DepthOfBelow
    <3>3. MatchesValueBody(A, <<>>, u) = MatchesValueBody(A, h, u)
      BY <3>2, MatchesValueFrame
    <3> QED BY <2>1, <3>3
  <2> QED BY <2>2
<1>2. ASSUME NEW n \in Nat, Upto(n) PROVE Upto(n + 1)
  <2>0. n + 1 \in Nat /\ (n + 1) - 1 = n
    OBVIOUS
  <2>1. PICK g : \A u \in D : ~Deeper(u, n) => g[u] = MatchesValueBody(A, g, u)
    BY <1>2
  <2>2. PICK h : h = [u \in D |-> MatchesValueBody(A, g, u)]
    OBVIOUS
  <2>3. ASSUME NEW u \in D, ~Deeper(u, n + 1) PROVE h[u] = MatchesValueBody(A, h, u)
    <3>1. ASSUME NEW k \in Below(u) PROVE g[k] = h[k]
      <4>1. k \in D
        BY BelowGrown
      <4>2. ~Deeper(k, n)
        BY <2>0, <2>3, DepthOfBelow
      <4> QED BY <2>1, <2>2, <4>1, <4>2
    <3>2. MatchesValueBody(A, g, u) = MatchesValueBody(A, h, u)
      BY <3>1, MatchesValueFrame
    <3> QED BY <2>2, <3>2
  <2> QED BY <2>3
<1>3. PICK T : T = {n \in Nat : Upto(n)}
  OBVIOUS
<1> HIDE DEF Upto
<1>4. \A n \in Nat : n \in T
  BY <1>1, <1>2, <1>3, EveryNatural
<1>5. Upto(MaxNesting)
  BY <1>3, <1>4, NestingAssumption
<1>6. PICK g : \A u \in D : g[u] = MatchesValueBody(A, g, u)
  BY <1>5 DEF Upto, Grown
<1>7. PICK x : x = [u \in D |-> g[u]]
  OBVIOUS
<1>8. ASSUME NEW u \in D PROVE x[u] = MatchesValueBody(A, x, u)
  <2>1. \A k \in Below(u) : g[k] = x[k]
    BY <1>7, BelowGrown
  <2>2. MatchesValueBody(A, g, u) = MatchesValueBody(A, x, u)
    BY <2>1, MatchesValueFrame
  <2> QED BY <1>6, <1>7, <2>2
<1>9. x = [u \in D |-> MatchesValueBody(A, x, u)]
  BY <1>7, <1>8
<1> QED BY <1>9 DEF MatchesValueOn

\* It is determined by what MatchesValue gives below.
LEMMA MatchesValueUnfolds ==
  ASSUME NEW e, ~Deeper(e, MaxNesting), \A u \in Nodes(e) : WellShaped(u), NEW a, ~Deeper(a, MaxNesting)
  PROVE  \A g : (\A k \in Below(e) : \A b \in Below(a) : g[k][b] = MatchesValue(k, b)) =>
                  MatchesValue(e, a) = MatchesValueHolds(g, e, a)
<1>1. ASSUME NEW D, Grown(D), NEW A, Grown(A), NEW x, MatchesValueOn(D, A, x), \A u \in D : WellShaped(u),
             NEW E, Grown(E), NEW B, Grown(B), NEW y, MatchesValueOn(E, B, y), NEW k \in D \cap E, NEW b \in A \cap B
      PROVE  x[k][b] = y[k][b]
  <2>1. PICK S : S = {u \in D \cap E : \A c \in A \cap B : x[u][c] = y[u][c]}
    OBVIOUS
  <2>2. Grown(D \cap E)
    BY <1>1 DEF Grown
  <2>3. ASSUME NEW u \in D \cap E, Below(u) \subseteq S PROVE u \in S
    <3>1. ASSUME NEW c \in A \cap B PROVE x[u][c] = y[u][c]
      <4>1. Below(c) \subseteq A \cap B
        BY <1>1, BelowGrown
      <4>2. \A v \in Below(u) : \A d \in Below(c) : x[v][d] = y[v][d]
        BY <2>1, <2>3, <4>1
      <4>3. MatchesValueHolds(x, u, c) = MatchesValueHolds(y, u, c)
        BY <1>1, <4>2, MatchesValueHoldsFrame
      <4>4. x[u][c] = MatchesValueHolds(x, u, c) /\ y[u][c] = MatchesValueHolds(y, u, c)
        BY <1>1 DEF MatchesValueOn, MatchesValueBody
      <4> QED BY <4>3, <4>4
    <3> QED BY <2>1, <3>1
  <2>4. k \in S
    BY <2>1, <2>2, <2>3, BelowInduction
  <2> QED BY <2>1, <2>4
<1>2. ASSUME NEW k, ~Deeper(k, MaxNesting), \A u \in Nodes(k) : WellShaped(u), NEW b, ~Deeper(b, MaxNesting)
      PROVE  \E x : MatchesValueOn(Nodes(k), Nodes(b), x) /\ MatchesValue(k, b) = x[k][b]
  <2>1. \E x : MatchesValueOn(Nodes(k), Nodes(b), x)
    BY <1>2, NodesGrown, MatchesValueExists
  <2>2. PICK x : x = CHOOSE y : MatchesValueOn(Nodes(k), Nodes(b), y)
    OBVIOUS
  <2>3. MatchesValueOn(Nodes(k), Nodes(b), x)
    BY <2>1, <2>2, Zenon
  <2>4. MatchesValue(k, b) = x[k][b]
    BY <2>2, Zenon DEF MatchesValue, MatchesValueOn, MatchesValueBody, MatchesValueHolds
  <2> QED BY <2>3, <2>4
<1>3. PICK x : MatchesValueOn(Nodes(e), Nodes(a), x) /\ MatchesValue(e, a) = x[e][a]
  BY <1>2
<1>4. Grown(Nodes(e)) /\ e \in Nodes(e) /\ Grown(Nodes(a)) /\ a \in Nodes(a)
  BY NodesGrown
<1>5. ASSUME NEW k \in Below(e), NEW b \in Below(a) PROVE x[k][b] = MatchesValue(k, b)
  <2>1. k \in Nodes(e) /\ b \in Nodes(a)
    BY <1>4, BelowGrown
  <2>2. /\ ~Deeper(k, MaxNesting) /\ Nodes(k) \subseteq Nodes(e)
        /\ ~Deeper(b, MaxNesting) /\ Nodes(b) \subseteq Nodes(a)
    BY <1>4, <2>1, NodesWithin DEF Grown
  <2>3. PICK y : MatchesValueOn(Nodes(k), Nodes(b), y) /\ MatchesValue(k, b) = y[k][b]
    BY <1>2, <2>2
  <2>4. Grown(Nodes(k)) /\ k \in Nodes(k) /\ Grown(Nodes(b)) /\ b \in Nodes(b)
    BY <2>2, NodesGrown
  <2> QED BY <1>1, <1>3, <1>4, <2>1, <2>3, <2>4
<1>6. x[e][a] = MatchesValueHolds(x, e, a)
  BY <1>3, <1>4 DEF MatchesValueOn, MatchesValueBody
<1>7. ASSUME NEW g, \A k \in Below(e) : \A b \in Below(a) : g[k][b] = MatchesValue(k, b)
      PROVE  MatchesValue(e, a) = MatchesValueHolds(g, e, a)
  <2>1. \A k \in Below(e) : \A b \in Below(a) : g[k][b] = x[k][b]
    BY <1>5, <1>7
  <2>2. MatchesValueHolds(g, e, a) = MatchesValueHolds(x, e, a)
    BY <1>4, <2>1, MatchesValueHoldsFrame
  <2> QED BY <1>3, <1>6, <2>2
<1> QED BY <1>7

(***************************************************************************)
(* Types that may be expected.                                             *)
(***************************************************************************)
\* What lies below a part of a tree is below the tree.
LEMMA PartsAreBelow ==
  ASSUME NEW t, NEW p \in DOMAIN t.parts
  PROVE  t.parts[p] \in Below(t) /\ t.parts[p] \in Kids(t)
<1>1. t.parts[p] \in Kids(t)
  BY DEF Kids, Range
<1> QED BY <1>1, KidsAreBelow

\* A part of a type that may be expected may be expected.
LEMMA ExpectableParts ==
  ASSUME NEW t, Expectable(t)
  PROVE  /\ WellShaped(t) /\ ~Deeper(t, MaxNesting)
         /\ \A p \in DOMAIN t.parts : Expectable(t.parts[p])
<1>1. t \in Nodes(t) /\ \A k \in Kids(t) : ~Deeper(k, MaxNesting) /\ Nodes(k) \subseteq Nodes(t)
  BY NodesGrown DEF Expectable
<1>2. \A p \in DOMAIN t.parts : t.parts[p] \in Kids(t)
  BY PartsAreBelow
<1> QED BY <1>1, <1>2 DEF Expectable

\* Whatever lies in a type that may be expected may be expected.
LEMMA ExpectableNodes ==
  ASSUME NEW t, Expectable(t), NEW u \in Nodes(t)
  PROVE  Expectable(u)
BY NodesWithin DEF Expectable

\* The recursive functions, in terms of their values for the parts.
LEMMA FromCELIs ==
  ASSUME NEW t, ~Deeper(t, MaxNesting)
  PROVE  FromCEL(t) = IF ~WellShaped(t) THEN Dyn
                      ELSE [type |-> t.type, parts |-> [p \in DOMAIN t.parts |-> FromCEL(t.parts[p])]]
<1>1. PICK g : g = [k \in Below(t) |-> FromCEL(k)]
  OBVIOUS
<1>2. FromCEL(t) = FromCELBody(g, t)
  BY <1>1, FromCELUnfolds
<1>3. \A p \in DOMAIN t.parts : g[t.parts[p]] = FromCEL(t.parts[p])
  BY <1>1, PartsAreBelow
<1> QED BY <1>2, <1>3 DEF FromCELBody

\* Assignable, by its values for the parts.
LEMMA AssignableIs ==
  ASSUME NEW a, ~Deeper(a, MaxNesting), NEW e, ~Deeper(e, MaxNesting)
  PROVE  Assignable(a, e) <=>
           \/ e.type = "dyn"
           \/ /\ a.type = e.type
              /\ \A p \in DOMAIN e.parts :
                   IF p \in DOMAIN a.parts THEN Assignable(a.parts[p], e.parts[p])
                   ELSE e.parts[p].type = "dyn"
<1>1. PICK g : g = [k \in Below(e) |-> [b \in Below(a) |-> Assignable(b, k)]]
  OBVIOUS
<1>2. \A k \in Below(e) : \A b \in Below(a) : g[k][b] = Assignable(b, k)
  BY <1>1
<1>3. Assignable(a, e) = AssignableHolds(g, e, a)
  BY <1>2, AssignableUnfolds
<1>4. \A p \in DOMAIN e.parts : p \in DOMAIN a.parts => g[e.parts[p]][a.parts[p]] = Assignable(a.parts[p], e.parts[p])
  BY <1>2, PartsAreBelow
<1>5. PICK holds : holds = AssignableHolds(g, e, a)
  OBVIOUS
<1> QED BY <1>3, <1>4 DEF AssignableHolds

\* MatchesValue, by its values for the parts.
LEMMA MatchesValueIs ==
  ASSUME NEW e, Expectable(e), NEW v, ~Deeper(v, MaxNesting)
  PROVE  MatchesValue(e, v) <=>
           \/ e.type = "dyn"
           \/ /\ e.type = v.kind
              /\ v.kind = "list" => \A i \in DOMAIN v.parts : MatchesValue(e.parts["element"], v.parts[i])
              /\ v.kind = "map" =>
                   \A k \in DOMAIN v.parts :
                     MatchesKind(e.parts["key"], k) /\ MatchesValue(e.parts["value"], v.parts[k])
<1>1. PICK g : g = [k \in Below(e) |-> [b \in Below(v) |-> MatchesValue(k, b)]]
  OBVIOUS
<1>2. \A k \in Below(e) : \A b \in Below(v) : g[k][b] = MatchesValue(k, b)
  BY <1>1
<1>3. MatchesValue(e, v) = MatchesValueHolds(g, e, v)
  BY <1>2, MatchesValueUnfolds DEF Expectable
<1>4. \A p \in DOMAIN e.parts : \A i \in DOMAIN v.parts : g[e.parts[p]][v.parts[i]] = MatchesValue(e.parts[p], v.parts[i])
  BY <1>2, PartsAreBelow
<1>5. /\ e.type = "list" => "element" \in DOMAIN e.parts
      /\ e.type = "map" => "value" \in DOMAIN e.parts
  BY ExpectableParts, PartsOf
<1> QED BY <1>3, <1>4, <1>5 DEF MatchesValueHolds

\* A type is assignable to itself.
LEMMA AssignableToItself ==
  ASSUME NEW t, ~Deeper(t, MaxNesting)
  PROVE  Assignable(t, t)
<1>1. PICK S : S = {u \in Nodes(t) : Assignable(u, u)}
  OBVIOUS
<1>2. Grown(Nodes(t)) /\ t \in Nodes(t)
  BY NodesGrown
<1>3. ASSUME NEW u \in Nodes(t), Below(u) \subseteq S PROVE u \in S
  <2>1. \A p \in DOMAIN u.parts : Assignable(u.parts[p], u.parts[p])
    BY <1>1, <1>3, PartsAreBelow
  <2>2. ~Deeper(u, MaxNesting)
    BY <1>2 DEF Grown
  <2>3. Assignable(u, u)
    BY <2>1, <2>2, AssignableIs
  <2> QED BY <1>1, <2>3
<1> QED BY <1>1, <1>2, <1>3, BelowInduction

\* FromCEL changes nothing in a type that the wire can name.
LEMMA FromCELKeeps ==
  ASSUME NEW t, Expectable(t), IsType(t)
  PROVE  FromCEL(t) = t
<1>1. PICK S : S = {u \in Nodes(t) : FromCEL(u) = u}
  OBVIOUS
<1>2. Grown(Nodes(t)) /\ t \in Nodes(t)
  BY NodesGrown DEF Expectable
<1>3. ASSUME NEW u \in Nodes(t), Below(u) \subseteq S PROVE u \in S
  <2>1. \A p \in DOMAIN u.parts : FromCEL(u.parts[p]) = u.parts[p]
    BY <1>1, <1>3, PartsAreBelow
  <2>2. ~Deeper(u, MaxNesting) /\ WellShaped(u)
    BY <1>2 DEF Grown, Expectable
  <2>3. FromCEL(u) = [type |-> u.type, parts |-> [p \in DOMAIN u.parts |-> FromCEL(u.parts[p])]]
    BY <2>2, FromCELIs
  <2>4. FromCEL(u) = [type |-> u.type, parts |-> [p \in DOMAIN u.parts |-> u.parts[p]]]
    BY <2>1, <2>3
  <2>5. FromCEL(u) = u
    BY <2>4 DEF IsType
  <2> QED BY <1>1, <2>5
<1> QED BY <1>1, <1>2, <1>3, BelowInduction

(***************************************************************************)
(* The places of a type and of a value.                                    *)
(***************************************************************************)
\* The recursion of Places.
PlaceLevels(t, v, level) ==
  level = [n \in 0..MaxNesting |->
             IF n = 0 THEN {<<t, v>>} ELSE UNION {PlacesBelow(p[1], p[2]) : p \in level[n - 1]}]

\* The recursion of Places has a solution.
LEMMA PlaceLevelsExist ==
  ASSUME NEW t, NEW v
  PROVE  \E level : PlaceLevels(t, v, level)
<1> DEFINE Body(g, m) == IF m = 0 THEN {<<t, v>>} ELSE UNION {PlacesBelow(p[1], p[2]) : p \in g[m - 1]}
           Upto(k) == \E g : \A m \in 0..k : g[m] = Body(g, m)
<1>1. ASSUME NEW g, NEW h, NEW m, m # 0 => g[m - 1] = h[m - 1] PROVE Body(g, m) = Body(h, m)
  BY <1>1, Zenon
<1>2. \A g : Body(g, 0) = {<<t, v>>}
  OBVIOUS
<1>3. ASSUME NEW x, x = [m \in 0..MaxNesting |-> Body(x, m)] PROVE PlaceLevels(t, v, x)
  BY <1>3, Zenon DEF PlaceLevels
<1> HIDE DEF Body
<1>4. Upto(0)
  <2>1. PICK g : g = [m \in 0..0 |-> {<<t, v>>}]
    OBVIOUS
  <2>2. \A m \in 0..0 : m = 0 /\ g[m] = {<<t, v>>}
    BY <2>1
  <2> QED BY <1>2, <2>2
<1>5. ASSUME NEW k \in Nat, Upto(k) PROVE Upto(k + 1)
  <2>1. PICK g : \A m \in 0..k : g[m] = Body(g, m)
    BY <1>5
  <2>2. PICK h : h = [m \in Nat |-> Body(g, m)]
    OBVIOUS
  <2>3. \A m \in 0..k : h[m] = g[m]
    BY <2>1, <2>2
  <2>4. ASSUME NEW m \in 0..(k + 1) PROVE h[m] = Body(h, m)
    <3>1. m # 0 => m - 1 \in 0..k
      OBVIOUS
    <3>2. h[m] = Body(g, m)
      BY <2>2
    <3>3. Body(g, m) = Body(h, m)
      BY <1>1, <2>3, <3>1
    <3> QED BY <3>2, <3>3
  <2> QED BY <2>4
<1>6. PICK T : T = {k \in Nat : Upto(k)}
  OBVIOUS
<1> HIDE DEF Upto
<1>7. \A k \in Nat : k \in T
  BY <1>4, <1>5, <1>6, EveryNatural
<1>8. Upto(MaxNesting)
  BY <1>6, <1>7, NestingAssumption
<1>9. PICK g : \A m \in 0..MaxNesting : g[m] = Body(g, m)
  BY <1>8 DEF Upto
<1>10. PICK x : x = [m \in 0..MaxNesting |-> g[m]]
  OBVIOUS
<1>11. ASSUME NEW m \in 0..MaxNesting PROVE x[m] = Body(x, m)
  <2>1. m # 0 => m - 1 \in 0..MaxNesting
    BY NestingAssumption
  <2>2. Body(g, m) = Body(x, m)
    BY <1>1, <1>10, <2>1
  <2> QED BY <1>9, <1>10, <2>2
<1>12. x = [m \in 0..MaxNesting |-> Body(x, m)]
  BY <1>10, <1>11
<1> QED BY <1>3, <1>12

\* The places n levels below the root.
PlaceLevel(t, v, n) == (CHOOSE level : PlaceLevels(t, v, level))[n]

\* The places level by level, each by those above it.
LEMMA PlaceMembers ==
  ASSUME NEW t, NEW v
  PROVE  /\ PlaceLevel(t, v, 0) = {<<t, v>>}
         /\ \A n \in Nat : n + 1 <= MaxNesting =>
              \A q : q \in PlaceLevel(t, v, n + 1) <=> \E p \in PlaceLevel(t, v, n) : q \in PlacesBelow(p[1], p[2])
         /\ \A q : q \in Places(t, v) <=> \E n \in 0..MaxNesting : q \in PlaceLevel(t, v, n)
<1>1. PICK level : level = CHOOSE l : PlaceLevels(t, v, l)
  OBVIOUS
<1>2. PlaceLevels(t, v, level)
  BY <1>1, PlaceLevelsExist, Zenon
<1>3. \A n : PlaceLevel(t, v, n) = level[n]
  BY <1>1 DEF PlaceLevel
<1>4. level[0] = {<<t, v>>}
  <2>1. 0 \in 0..MaxNesting
    BY NestingAssumption
  <2> QED BY <1>2, <2>1 DEF PlaceLevels
<1>5. ASSUME NEW n \in Nat, n + 1 <= MaxNesting
      PROVE  \A q : q \in level[n + 1] <=> \E p \in level[n] : q \in PlacesBelow(p[1], p[2])
  <2>1. n + 1 \in 0..MaxNesting /\ (n + 1) - 1 = n /\ n + 1 # 0
    BY <1>5, NestingAssumption
  <2>2. level[n + 1] = UNION {PlacesBelow(p[1], p[2]) : p \in level[(n + 1) - 1]}
    BY <1>2, <2>1, Zenon DEF PlaceLevels
  <2>3. level[n + 1] = UNION {PlacesBelow(p[1], p[2]) : p \in level[n]}
    BY <2>1, <2>2, Zenon
  <2> QED BY <2>3, Zenon
<1>6. Places(t, v) = UNION {level[n] : n \in 0..MaxNesting}
  BY <1>1, Zenon DEF Places, PlaceLevels
<1>7. \A q : q \in Places(t, v) <=> \E n \in 0..MaxNesting : q \in level[n]
  BY <1>6
<1> QED BY <1>3, <1>4, <1>5, <1>7

\* What stands below a place is a part of the type.
LEMMA PlacesBelowParts ==
  ASSUME NEW t, WellShaped(t), NEW v, NEW q \in PlacesBelow(t, v)
  PROVE  q[1] \in Kids(t)
<1>1. t.type = "list" => t.parts["element"] \in Kids(t)
  BY PartsOf, PartsAreBelow
<1>2. t.type = "map" => t.parts["key"] \in Kids(t) /\ t.parts["value"] \in Kids(t)
  BY PartsOf, PartsAreBelow
<1>3. CASE t.type = "list" /\ v.kind = "list"
  BY <1>1, <1>3 DEF PlacesBelow
<1>4. CASE t.type = "map" /\ v.kind = "map"
  BY <1>2, <1>4 DEF PlacesBelow
<1>5. CASE ~(t.type = "list" /\ v.kind = "list") /\ ~(t.type = "map" /\ v.kind = "map")
  BY <1>5 DEF PlacesBelow
<1> QED BY <1>3, <1>4, <1>5

\* The places of a type that JSON can hold are all within its depth.
LEMMA PlacesAreNodes ==
  ASSUME NEW t, Expectable(t), NEW v
  PROVE  \A n \in 0..MaxNesting : \A p \in PlaceLevel(t, v, n) : p[1] \in Level(t, n)
<1>0. MaxNesting \in Nat
  BY NestingAssumption
<1>1. PICK T : T = {n \in Nat : n <= MaxNesting => \A p \in PlaceLevel(t, v, n) : p[1] \in Level(t, n)}
  OBVIOUS
<1>2. 0 \in T
  BY <1>1, PlaceMembers, LevelMembers
<1>3. ASSUME NEW n \in Nat, n \in T PROVE n + 1 \in T
  <2>1. ASSUME n + 1 <= MaxNesting, NEW p \in PlaceLevel(t, v, n + 1) PROVE p[1] \in Level(t, n + 1)
    <3>1. PICK q \in PlaceLevel(t, v, n) : p \in PlacesBelow(q[1], q[2])
      BY <2>1, PlaceMembers
    <3>2. n \in 0..MaxNesting
      BY <1>0, <2>1
    <3>3. q[1] \in Level(t, n)
      BY <1>0, <1>1, <1>3, <3>1, <3>2
    <3>4. q[1] \in Nodes(t)
      BY <3>2, <3>3, NodesAre
    <3>5. p[1] \in Kids(q[1])
      BY <3>1, <3>4, PlacesBelowParts DEF Expectable
    <3> QED BY <3>3, <3>5, LevelMembers
  <2> QED BY <1>1, <2>1
<1> QED BY <1>1, <1>2, <1>3, EveryNatural

\* The places below the root are those of the pairs right below it.
LEMMA PlacesShift ==
  ASSUME NEW t, Expectable(t), NEW v
  PROVE  \A n \in Nat : n + 1 <= MaxNesting =>
           \A q : q \in PlaceLevel(t, v, n + 1) <=>
                  \E p \in PlacesBelow(t, v) : q \in PlaceLevel(p[1], p[2], n)
<1> DEFINE Shifts(n) == n + 1 <= MaxNesting =>
                          \A q : q \in PlaceLevel(t, v, n + 1) <=>
                                 \E p \in PlacesBelow(t, v) : q \in PlaceLevel(p[1], p[2], n)
<1>0. MaxNesting \in Nat
  BY NestingAssumption
<1>1. ASSUME NEW p, NEW a, NEW b, p \in PlacesBelow(a, b) PROVE p = <<p[1], p[2]>>
  <2>1. \A x, y : <<x, y>> = <<<<x, y>>[1], <<x, y>>[2]>>
    OBVIOUS
  <2>2. CASE a.type = "list" /\ b.kind = "list"
    BY <1>1, <2>1, <2>2 DEF PlacesBelow
  <2>3. CASE a.type = "map" /\ b.kind = "map"
    BY <1>1, <2>1, <2>3 DEF PlacesBelow
  <2>4. CASE ~(a.type = "list" /\ b.kind = "list") /\ ~(a.type = "map" /\ b.kind = "map")
    BY <1>1, <2>4 DEF PlacesBelow
  <2> QED BY <2>2, <2>3, <2>4
<1>2. Shifts(0)
  <2>1. SUFFICES ASSUME 0 + 1 <= MaxNesting, NEW q
                 PROVE  q \in PlaceLevel(t, v, 0 + 1) <=> \E p \in PlacesBelow(t, v) : q \in PlaceLevel(p[1], p[2], 0)
    OBVIOUS
  <2>2. q \in PlaceLevel(t, v, 0 + 1) <=> \E p \in PlaceLevel(t, v, 0) : q \in PlacesBelow(p[1], p[2])
    BY <2>1, PlaceMembers
  <2>3. PlaceLevel(t, v, 0) = {<<t, v>>} /\ <<t, v>>[1] = t /\ <<t, v>>[2] = v
    BY PlaceMembers
  <2>4. q \in PlaceLevel(t, v, 0 + 1) <=> q \in PlacesBelow(t, v)
    BY <2>2, <2>3
  <2>5. \A p \in PlacesBelow(t, v) : q \in PlaceLevel(p[1], p[2], 0) <=> q = p
    <3>1. ASSUME NEW p \in PlacesBelow(t, v) PROVE q \in PlaceLevel(p[1], p[2], 0) <=> q = p
      BY <1>1, PlaceMembers
    <3> QED BY <3>1
  <2> QED BY <2>4, <2>5
<1>3. ASSUME NEW n \in Nat, Shifts(n) PROVE Shifts(n + 1)
  <2>0. n + 1 \in Nat
    OBVIOUS
  <2>1. SUFFICES ASSUME (n + 1) + 1 <= MaxNesting, NEW q
                 PROVE  q \in PlaceLevel(t, v, (n + 1) + 1) <=>
                        \E p \in PlacesBelow(t, v) : q \in PlaceLevel(p[1], p[2], n + 1)
    OBVIOUS
  <2>2. n + 1 <= MaxNesting
    BY <1>0, <2>1
  <2>3. \A x : x \in PlaceLevel(t, v, n + 1) <=> \E p \in PlacesBelow(t, v) : x \in PlaceLevel(p[1], p[2], n)
    BY <1>3, <2>2
  <2>4. q \in PlaceLevel(t, v, (n + 1) + 1) <=> \E p \in PlaceLevel(t, v, n + 1) : q \in PlacesBelow(p[1], p[2])
    BY <2>0, <2>1, PlaceMembers
  <2>5. ASSUME NEW a, NEW b
        PROVE  q \in PlaceLevel(a, b, n + 1) <=> \E p \in PlaceLevel(a, b, n) : q \in PlacesBelow(p[1], p[2])
    BY <2>2, PlaceMembers
  <2> QED BY <2>3, <2>4, <2>5
<1>4. PICK T : T = {n \in Nat : Shifts(n)}
  OBVIOUS
<1> HIDE DEF Shifts
<1>5. \A n \in Nat : n \in T
  BY <1>2, <1>3, <1>4, EveryNatural
<1>6. \A n \in Nat : Shifts(n)
  BY <1>4, <1>5
<1> QED BY <1>6 DEF Shifts

\* A value inhabits a type when its kind does and what is below it inhabits
\* what is below the type.
LEMMA InhabitsIs ==
  ASSUME NEW t, Expectable(t), NEW v
  PROVE  Inhabits(v, t) <=> /\ t.type \in {"dyn", v.kind}
                            /\ \A q \in PlacesBelow(t, v) : Inhabits(q[2], q[1])
<1>0. MaxNesting \in Nat
  BY NestingAssumption
<1>1. <<t, v>> \in Places(t, v) /\ <<t, v>>[1] = t /\ <<t, v>>[2] = v
  <2>1. 0 \in 0..MaxNesting
    BY <1>0
  <2> QED BY <2>1, PlaceMembers
<1>2. ASSUME NEW q \in PlacesBelow(t, v), NEW p \in Places(q[1], q[2]) PROVE p \in Places(t, v)
  <2>1. PICK n \in 0..MaxNesting : p \in PlaceLevel(q[1], q[2], n)
    BY PlaceMembers
  <2>2. q[1] \in Kids(t)
    BY ExpectableParts, PlacesBelowParts
  <2>3. Expectable(q[1])
    <3>1. PICK x \in DOMAIN t.parts : q[1] = t.parts[x]
      BY <2>2 DEF Kids, Range
    <3> QED BY <3>1, ExpectableParts
  <2>4. p[1] \in Level(q[1], n)
    BY <2>1, <2>3, PlacesAreNodes
  <2>5. p[1] \in Level(t, n + 1)
    BY <2>2, <2>4, LevelShifts
  <2>6. n # MaxNesting
    BY <2>5, ExpectableParts DEF Deeper
  <2>7. n + 1 \in 0..MaxNesting /\ n + 1 <= MaxNesting /\ n \in Nat
    BY <1>0, <2>6
  <2>8. p \in PlaceLevel(t, v, n + 1)
    BY <2>1, <2>7, PlacesShift
  <2> QED BY <2>7, <2>8, PlaceMembers
<1>3. ASSUME NEW p \in Places(t, v), p # <<t, v>> PROVE \E q \in PlacesBelow(t, v) : p \in Places(q[1], q[2])
  <2>1. PICK n \in 0..MaxNesting : p \in PlaceLevel(t, v, n)
    BY PlaceMembers
  <2>2. n # 0
    BY <1>3, <2>1, PlaceMembers
  <2>3. PICK m \in Nat : n = m + 1
    <3>1. n - 1 \in Nat /\ n = (n - 1) + 1
      BY <1>0, <2>2
    <3> QED BY <3>1
  <2>4. m + 1 <= MaxNesting /\ m \in 0..MaxNesting
    BY <1>0, <2>3
  <2>5. PICK q \in PlacesBelow(t, v) : p \in PlaceLevel(q[1], q[2], m)
    BY <2>1, <2>3, <2>4, PlacesShift
  <2> QED BY <2>4, <2>5, PlaceMembers
<1>4. Inhabits(v, t) => t.type \in {"dyn", v.kind} /\ \A q \in PlacesBelow(t, v) : Inhabits(q[2], q[1])
  BY <1>1, <1>2 DEF Inhabits
<1>5. ASSUME t.type \in {"dyn", v.kind}, \A q \in PlacesBelow(t, v) : Inhabits(q[2], q[1])
      PROVE  Inhabits(v, t)
  <2>1. ASSUME NEW p \in Places(t, v) PROVE p[1].type \in {"dyn", p[2].kind}
    <3>1. CASE p = <<t, v>>
      BY <1>1, <1>5, <3>1
    <3>2. CASE p # <<t, v>>
      BY <1>3, <1>5, <3>2 DEF Inhabits
    <3> QED BY <3>1, <3>2
  <2> QED BY <2>1 DEF Inhabits
<1> QED BY <1>4, <1>5

(***************************************************************************)
(* Values, and the types they inhabit.                                     *)
(***************************************************************************)
\* A scalar with the text that encodeValue writes for it.
IsScalar(v) ==
  /\ v = Value(v.kind, v.text)
  /\ \/ v.kind \in DOMAIN Reading /\ v.text \in Range(Reading[v.kind])
     \/ v.kind \in {"bool", "string"}
     \/ v = Null

\* A scalar, a list, or a map whose keys are scalars.
IsNode(v) ==
  \/ IsScalar(v)
  \/ v = ListValue([i \in DOMAIN v.parts |-> v.parts[i]])
  \/ /\ v = MapValue([k \in DOMAIN v.parts |-> v.parts[k]])
     /\ IsFiniteSet(DOMAIN v.parts)
     /\ \A k \in DOMAIN v.parts : IsScalar(k) /\ k.kind \in KeyKinds

\* What the decoder makes of a request's JSON.
IsValue(v) == ~Deeper(v, MaxNesting) /\ \A u \in Nodes(v) : IsNode(u)

\* The parts of a value are values.
LEMMA ValueParts ==
  ASSUME NEW v, IsValue(v)
  PROVE  IsNode(v) /\ \A i \in DOMAIN v.parts : IsValue(v.parts[i])
<1>1. v \in Nodes(v) /\ \A k \in Kids(v) : ~Deeper(k, MaxNesting) /\ Nodes(k) \subseteq Nodes(v)
  BY NodesGrown DEF IsValue
<1>2. \A i \in DOMAIN v.parts : v.parts[i] \in Kids(v)
  BY PartsAreBelow
<1> QED BY <1>1, <1>2 DEF IsValue

\* What the kind of a node says about its parts.
LEMMA ValueKinds ==
  ASSUME NEW v, IsNode(v)
  PROVE  /\ IsScalar(v) => v.kind \notin {"list", "map"} /\ DOMAIN v.parts = {}
         /\ v.kind = "map" => \A k \in DOMAIN v.parts : IsScalar(k) /\ k.kind \in KeyKinds
<1>1. \A x, y : /\ Value(x, y).kind = x /\ DOMAIN Value(x, y).parts = {}
                /\ ListValue(x).kind = "list"
  BY DEF Value, ListValue
<1>2. IsScalar(v) => v.kind \notin {"list", "map"} /\ DOMAIN v.parts = {}
  <2>1. Null.kind = "null"
    BY DEF Null, Value
  <2> QED BY <1>1, <2>1, CodecAssumption DEF IsScalar, OtherKinds
<1> QED BY <1>1, <1>2 DEF IsNode

\* A value that inhabits a type matches it.
LEMMA InhabitantsMatch ==
  ASSUME NEW t, Expectable(t), NEW v, ~Deeper(v, MaxNesting), Inhabits(v, t)
  PROVE  MatchesValue(t, v)
<1>1. PICK S : S = {u \in Nodes(t) : \A x : ~Deeper(x, MaxNesting) /\ Inhabits(x, u) => MatchesValue(u, x)}
  OBVIOUS
<1>2. Grown(Nodes(t)) /\ t \in Nodes(t)
  BY NodesGrown DEF Expectable
<1>3. ASSUME NEW u \in Nodes(t), Below(u) \subseteq S PROVE u \in S
  <2>1. SUFFICES ASSUME NEW x, ~Deeper(x, MaxNesting), Inhabits(x, u) PROVE MatchesValue(u, x)
    BY <1>1
  <2>2. Expectable(u) /\ WellShaped(u)
    BY ExpectableNodes, ExpectableParts
  <2>3. u.type \in {"dyn", x.kind} /\ \A q \in PlacesBelow(u, x) : Inhabits(q[2], q[1])
    BY <2>1, <2>2, InhabitsIs
  <2>4. \A i \in DOMAIN x.parts : ~Deeper(x.parts[i], MaxNesting) /\ x.parts[i] \in Range(x.parts)
    BY <2>1, NodesGrown DEF Kids, Range
  <2>5. \A p \in DOMAIN u.parts : \A i \in DOMAIN x.parts :
          Inhabits(x.parts[i], u.parts[p]) => MatchesValue(u.parts[p], x.parts[i])
    BY <1>1, <1>3, <2>4, PartsAreBelow
  <2>6. CASE u.type = "dyn"
    BY <2>1, <2>2, <2>6, MatchesValueIs
  <2>7. CASE u.type = "list" /\ x.kind = "list"
    <3>1. "element" \in DOMAIN u.parts
      BY <2>2, <2>7, PartsOf
    <3>2. ASSUME NEW i \in DOMAIN x.parts PROVE Inhabits(x.parts[i], u.parts["element"])
      <4>1. <<u.parts["element"], x.parts[i]>> \in PlacesBelow(u, x)
        BY <2>4, <2>7 DEF PlacesBelow
      <4> QED BY <2>3, <4>1
    <3> QED BY <2>1, <2>2, <2>5, <2>7, <3>1, <3>2, MatchesValueIs
  <2>8. CASE u.type = "map" /\ x.kind = "map"
    <3>1. "key" \in DOMAIN u.parts /\ "value" \in DOMAIN u.parts
      BY <2>2, <2>8, PartsOf
    <3>2. ASSUME NEW k \in DOMAIN x.parts
          PROVE  MatchesKind(u.parts["key"], k) /\ Inhabits(x.parts[k], u.parts["value"])
      <4>1. <<u.parts["value"], x.parts[k]>> \in PlacesBelow(u, x)
        BY <2>4, <2>8 DEF PlacesBelow
      <4>2. <<u.parts["key"], k>> \in PlacesBelow(u, x)
        BY <2>8 DEF PlacesBelow
      <4>3. Inhabits(k, u.parts["key"]) /\ Inhabits(x.parts[k], u.parts["value"])
        BY <2>3, <4>1, <4>2
      <4>4. Expectable(u.parts["key"])
        BY <2>2, <3>1, ExpectableParts
      <4> QED BY <4>3, <4>4, InhabitsIs DEF MatchesKind
    <3> QED BY <2>1, <2>2, <2>5, <2>8, <3>1, <3>2, MatchesValueIs
  <2>9. CASE u.type = x.kind /\ x.kind \notin {"list", "map"}
    BY <2>1, <2>2, <2>9, MatchesValueIs
  <2> QED BY <2>3, <2>6, <2>7, <2>8, <2>9
<1> QED BY <1>1, <1>2, <1>3, BelowInduction

\* A value that matches a type inhabits it.
LEMMA MatchesInhabit ==
  ASSUME NEW t, Expectable(t), NEW v, IsValue(v), MatchesValue(t, v)
  PROVE  Inhabits(v, t)
<1>1. PICK S : S = {u \in Nodes(t) : \A x : IsValue(x) /\ MatchesValue(u, x) => Inhabits(x, u)}
  OBVIOUS
<1>2. Grown(Nodes(t)) /\ t \in Nodes(t)
  BY NodesGrown DEF Expectable
<1>3. ASSUME NEW u \in Nodes(t), Below(u) \subseteq S PROVE u \in S
  <2>1. SUFFICES ASSUME NEW x, IsValue(x), MatchesValue(u, x) PROVE Inhabits(x, u)
    BY <1>1
  <2>2. Expectable(u) /\ WellShaped(u)
    BY ExpectableNodes, ExpectableParts
  <2>3. IsNode(x) /\ ~Deeper(x, MaxNesting) /\ \A i \in DOMAIN x.parts : IsValue(x.parts[i])
    BY <2>1, ValueParts DEF IsValue
  <2>4. /\ u.type \in {"dyn", x.kind}
        /\ u.type = "list" => \A i \in DOMAIN x.parts : MatchesValue(u.parts["element"], x.parts[i])
        /\ u.type = "map" => \A k \in DOMAIN x.parts :
             MatchesKind(u.parts["key"], k) /\ MatchesValue(u.parts["value"], x.parts[k])
    BY <2>1, <2>2, <2>3, MatchesValueIs
  <2>5. \A p \in DOMAIN u.parts : \A i \in DOMAIN x.parts :
          MatchesValue(u.parts[p], x.parts[i]) => Inhabits(x.parts[i], u.parts[p])
    BY <1>1, <1>3, <2>3, PartsAreBelow
  <2>6. ASSUME NEW q \in PlacesBelow(u, x) PROVE Inhabits(q[2], q[1])
    <3>1. CASE u.type = "list" /\ x.kind = "list"
      <4>1. PICK i \in DOMAIN x.parts : q = <<u.parts["element"], x.parts[i]>>
        BY <3>1 DEF PlacesBelow, Range
      <4>2. "element" \in DOMAIN u.parts
        BY <2>2, <3>1, PartsOf
      <4> QED BY <2>4, <2>5, <3>1, <4>1, <4>2
    <3>2. CASE u.type = "map" /\ x.kind = "map"
      <4>1. "key" \in DOMAIN u.parts /\ "value" \in DOMAIN u.parts
        BY <2>2, <3>2, PartsOf
      <4>2. CASE \E k \in DOMAIN x.parts : q = <<u.parts["value"], x.parts[k]>>
        BY <2>4, <2>5, <3>2, <4>1, <4>2
      <4>3. CASE \E k \in DOMAIN x.parts : q = <<u.parts["key"], k>>
        <5>1. PICK k \in DOMAIN x.parts : q = <<u.parts["key"], k>>
          BY <4>3
        <5>2. k.kind \in KeyKinds /\ MatchesKind(u.parts["key"], k)
          BY <2>3, <2>4, <3>2, ValueKinds
        <5>3. Expectable(u.parts["key"])
          BY <2>2, <4>1, ExpectableParts
        <5>4. PlacesBelow(u.parts["key"], k) = {}
          BY <5>2 DEF PlacesBelow, KeyKinds
        <5> QED BY <5>1, <5>2, <5>3, <5>4, InhabitsIs DEF MatchesKind
      <4>4. (\E k \in DOMAIN x.parts : q = <<u.parts["value"], x.parts[k]>>) \/ (\E k \in DOMAIN x.parts : q = <<u.parts["key"], k>>)
        BY <3>2 DEF PlacesBelow, Range
      <4> QED BY <4>2, <4>3, <4>4
    <3>3. (u.type = "list" /\ x.kind = "list") \/ (u.type = "map" /\ x.kind = "map")
      BY DEF PlacesBelow
    <3> QED BY <3>1, <3>2, <3>3
  <2> QED BY <2>2, <2>4, <2>6, InhabitsIs
<1> QED BY <1>1, <1>2, <1>3, BelowInduction

\* What matches a type without dyn matches whatever that type is assignable to.
LEMMA AssignableMatches ==
  ASSUME NEW t, Expectable(t), ~ContainsDyn(t), NEW e, Expectable(e), Assignable(t, e),
         NEW v, ~Deeper(v, MaxNesting), MatchesValue(t, v)
  PROVE  MatchesValue(e, v)
<1>1. PICK S : S = {u \in Nodes(e) : \A a, x :
                      Expectable(a) /\ ~ContainsDyn(a) /\ Assignable(a, u) /\ ~Deeper(x, MaxNesting)
                      /\ MatchesValue(a, x) => MatchesValue(u, x)}
  OBVIOUS
<1>2. Grown(Nodes(e)) /\ e \in Nodes(e)
  BY NodesGrown DEF Expectable
<1>3. ASSUME NEW u \in Nodes(e), Below(u) \subseteq S PROVE u \in S
  <2>1. SUFFICES ASSUME NEW a, NEW x, Expectable(a), ~ContainsDyn(a), Assignable(a, u), ~Deeper(x, MaxNesting),
                        MatchesValue(a, x)
                 PROVE  MatchesValue(u, x)
    BY <1>1
  <2>2. Expectable(u) /\ WellShaped(u) /\ WellShaped(a) /\ ~Deeper(u, MaxNesting) /\ ~Deeper(a, MaxNesting)
    BY <2>1, ExpectableNodes, ExpectableParts
  <2>3. CASE u.type = "dyn"
    BY <2>1, <2>2, <2>3, MatchesValueIs
  <2>4. CASE u.type # "dyn"
    <3>0. Kids(a) \subseteq Nodes(a) /\ a \in Nodes(a) /\ \A k \in Kids(a) : Nodes(k) \subseteq Nodes(a)
      BY <2>2, NodesGrown DEF Grown
    <3>1. /\ a.type = u.type /\ a.type # "dyn"
          /\ \A p \in DOMAIN a.parts :
               Expectable(a.parts[p]) /\ ~ContainsDyn(a.parts[p]) /\ a.parts[p].type # "dyn"
      <4>1. a.type = u.type
        BY <2>1, <2>2, <2>4, AssignableIs
      <4>2. \A p \in DOMAIN a.parts : a.parts[p] \in Kids(a)
        BY PartsAreBelow
      <4> QED BY <2>1, <3>0, <4>1, <4>2, ExpectableParts DEF ContainsDyn
    <3>2. DOMAIN a.parts = DOMAIN u.parts
      BY <2>2, <3>1, PartsOf
    <3>3. \A p \in DOMAIN u.parts : Assignable(a.parts[p], u.parts[p])
      BY <2>1, <2>2, <2>4, <3>2, AssignableIs
    <3>4. /\ a.type = x.kind
          /\ a.type = "list" => \A i \in DOMAIN x.parts : MatchesValue(a.parts["element"], x.parts[i])
          /\ a.type = "map" => \A k \in DOMAIN x.parts :
               MatchesKind(a.parts["key"], k) /\ MatchesValue(a.parts["value"], x.parts[k])
      BY <2>1, <3>1, MatchesValueIs
    <3>5. \A i \in DOMAIN x.parts : ~Deeper(x.parts[i], MaxNesting)
      BY <2>1, NodesGrown DEF Kids, Range
    <3>6. \A p \in DOMAIN u.parts : \A i \in DOMAIN x.parts :
            MatchesValue(a.parts[p], x.parts[i]) => MatchesValue(u.parts[p], x.parts[i])
      <4>1. \A p \in DOMAIN u.parts : u.parts[p] \in S
        BY <1>3, PartsAreBelow
      <4> QED BY <1>1, <3>1, <3>2, <3>3, <3>5, <4>1
    <3>7. u.type = "list" => "element" \in DOMAIN u.parts
      BY <2>2, PartsOf
    <3>8. u.type = "map" => "key" \in DOMAIN u.parts /\ "value" \in DOMAIN u.parts
      BY <2>2, PartsOf
    <3>9. u.type = "map" => u.parts["key"].type \in {"dyn", a.parts["key"].type}
      <4>1. ASSUME u.type = "map" PROVE u.parts["key"].type \in {"dyn", a.parts["key"].type}
        <5>1. PICK b, k : b = a.parts["key"] /\ k = u.parts["key"]
          OBVIOUS
        <5>2. Assignable(b, k) /\ ~Deeper(b, MaxNesting) /\ ~Deeper(k, MaxNesting)
          BY <2>2, <3>1, <3>2, <3>3, <3>8, <4>1, <5>1, ExpectableParts
        <5> QED BY <5>1, <5>2, AssignableIs
      <4> QED BY <4>1
    <3>10. u.type = "map" => \A k \in DOMAIN x.parts : MatchesKind(u.parts["key"], k)
      BY <3>1, <3>2, <3>4, <3>8, <3>9 DEF MatchesKind
    <3> QED BY <2>1, <2>2, <3>1, <3>4, <3>6, <3>7, <3>8, <3>10, MatchesValueIs
  <2> QED BY <2>3, <2>4
<1>4. e \in S
  BY <1>2, <1>3, BelowInduction
<1> QED BY <1>1, <1>4

(***************************************************************************)
(* Decoding: what is not refused is a value, no deeper than its JSON.      *)
(***************************************************************************)
\* What is below something that is below a tree is below the tree.
LEMMA BelowBelow ==
  ASSUME NEW t, ~Deeper(t, MaxNesting), NEW u \in Below(t)
  PROVE  Kids(u) \subseteq Below(t)
<1>1. PICK k \in Kids(t) : u \in Nodes(k)
  BY DEF Below
<1>2. Grown(Nodes(k))
  BY NodesGrown
<1> QED BY <1>1, <1>2 DEF Below, Grown

\* One step of DecodeInput, and a function that satisfies its equation on D.
DecodeInputBody(g, c) ==
  CASE c.json = "leaf" -> DecodeLeaf(c.has)
    [] c.json = "array" -> DecodeItems(c.parts, g)
    [] c.json = "object" /\ Marker \in DOMAIN c.parts -> DecodeTagged(c.parts, g)
    [] OTHER -> DecodeObject(c.parts, g)
DecodeInputOn(D, x) == x = [c \in D |-> DecodeInputBody(x, c)]

\* The decoders of collections depend on what their parts decode to.
LEMMA DecodeItemsFrame ==
  ASSUME NEW s, NEW g, NEW h, \A i \in DOMAIN s : g[s[i]] = h[s[i]]
  PROVE  DecodeItems(s, g) = DecodeItems(s, h)
<1>1. [i \in DOMAIN s |-> g[s[i]]] = [i \in DOMAIN s |-> h[s[i]]]
  OBVIOUS
<1> QED BY <1>1, Zenon DEF DecodeItems

\* The same for the members of an object.
LEMMA DecodeObjectFrame ==
  ASSUME NEW f, NEW g, NEW h, \A n \in DOMAIN f : g[f[n]] = h[f[n]]
  PROVE  DecodeObject(f, g) = DecodeObject(f, h)
<1>1. PICK names : names = {Value("string", n) : n \in DOMAIN f}
  OBVIOUS
<1>2. \A n : Value("string", n).text = n
  BY DEF Value
<1>3. \A k \in names : k.text \in DOMAIN f
  BY <1>1, <1>2
<1>4. [k \in names |-> g[f[k.text]]] = [k \in names |-> h[f[k.text]]]
  BY <1>3
<1>5. (\E n \in DOMAIN f : g[f[n]] = Refused) <=> (\E n \in DOMAIN f : h[f[n]] = Refused)
  OBVIOUS
<1> QED BY <1>1, <1>4, <1>5, Zenon DEF DecodeObject

\* The same for what a tagged object holds.
LEMMA DecodeTaggedFrame ==
  ASSUME NEW c, ~Deeper(c, MaxNesting), NEW g, NEW h, \A k \in Below(c) : g[k] = h[k]
  PROVE  DecodeTagged(c.parts, g) = DecodeTagged(c.parts, h)
<1>1. PICK f : f = c.parts
  OBVIOUS
<1>2. \A n \in DOMAIN f : f[n] \in Below(c)
  BY <1>1, PartsAreBelow
<1>3. \A u \in Below(c) : \A n \in DOMAIN u.parts : u.parts[n] \in Below(c)
  BY BelowBelow, PartsAreBelow
<1>4. "items" \in DOMAIN f => DecodeItems(f["items"].parts, g) = DecodeItems(f["items"].parts, h)
  BY <1>2, <1>3, DecodeItemsFrame
<1>5. "entries" \in DOMAIN f /\ (\A e \in Range(f["entries"].parts) : IsEntry(e)) =>
        \A part \in {"key", "value"} :
          [i \in DOMAIN f["entries"].parts |-> g[f["entries"].parts[i].parts[part]]]
            = [i \in DOMAIN f["entries"].parts |-> h[f["entries"].parts[i].parts[part]]]
  <2>1. SUFFICES ASSUME "entries" \in DOMAIN f, \A e \in Range(f["entries"].parts) : IsEntry(e),
                        NEW part \in {"key", "value"}
                 PROVE  [i \in DOMAIN f["entries"].parts |-> g[f["entries"].parts[i].parts[part]]]
                          = [i \in DOMAIN f["entries"].parts |-> h[f["entries"].parts[i].parts[part]]]
    OBVIOUS
  <2>2. PICK s : s = f["entries"].parts
    OBVIOUS
  <2>3. \A i \in DOMAIN s : s[i] \in Below(c) /\ part \in DOMAIN s[i].parts
    BY <1>2, <1>3, <2>1, <2>2 DEF IsEntry, Range
  <2>4. \A i \in DOMAIN s : g[s[i].parts[part]] = h[s[i].parts[part]]
    BY <1>3, <2>3
  <2> QED BY <2>2, <2>4
<1>6. DecodeTagged(f, g) = DecodeTagged(f, h)
  <2>1. CASE ~Has(f, "kind", "leaf") \/ f[Marker] # True \/ f["kind"].has.kind # "string"
    BY <2>1 DEF DecodeTagged
  <2>2. CASE f["kind"].has.text = "list"
    BY <1>4, <2>2 DEF DecodeTagged, Has
  <2>3. CASE f["kind"].has.text = "map" /\ Has(f, "entries", "array") /\ \A e \in Range(f["entries"].parts) : IsEntry(e)
    BY <1>5, <2>3, Zenon DEF DecodeTagged, Has
  <2>4. CASE f["kind"].has.text # "list" /\ ~(f["kind"].has.text = "map" /\ Has(f, "entries", "array") /\ \A e \in Range(f["entries"].parts) : IsEntry(e))
    BY <2>4 DEF DecodeTagged
  <2> QED BY <2>1, <2>2, <2>3, <2>4
<1> QED BY <1>1, <1>6

\* One step of DecodeInput depends on what it gives for what lies below.
LEMMA DecodeInputFrame ==
  ASSUME NEW c, ~Deeper(c, MaxNesting), NEW g, NEW h, \A k \in Below(c) : g[k] = h[k]
  PROVE  DecodeInputBody(g, c) = DecodeInputBody(h, c)
<1>1. \A n \in DOMAIN c.parts : g[c.parts[n]] = h[c.parts[n]]
  BY PartsAreBelow
<1>2. DecodeItems(c.parts, g) = DecodeItems(c.parts, h)
  BY <1>1, DecodeItemsFrame
<1>3. DecodeObject(c.parts, g) = DecodeObject(c.parts, h)
  BY <1>1, DecodeObjectFrame
<1>4. DecodeTagged(c.parts, g) = DecodeTagged(c.parts, h)
  BY DecodeTaggedFrame
<1> QED BY <1>2, <1>3, <1>4, Zenon DEF DecodeInputBody

\* The recursion of DecodeInput has a solution.
LEMMA DecodeInputExists ==
  ASSUME NEW D, Grown(D)
  PROVE  \E x : DecodeInputOn(D, x)
<1> DEFINE Upto(n) == \E g : \A u \in D : ~Deeper(u, n) => g[u] = DecodeInputBody(g, u)
<1>1. Upto(0)
  <2>1. PICK h : h = [u \in D |-> DecodeInputBody(<<>>, u)]
    OBVIOUS
  <2>2. ASSUME NEW u \in D, ~Deeper(u, 0) PROVE h[u] = DecodeInputBody(h, u)
    <3>1. 0 \in Nat
      OBVIOUS
    <3>2. \A k : k \notin Below(u)
      BY <2>2, <3>1, DepthOfBelow
    <3>3. DecodeInputBody(<<>>, u) = DecodeInputBody(h, u)
      BY <3>2, DecodeInputFrame DEF Grown
    <3> QED BY <2>1, <3>3
  <2> QED BY <2>2
<1>2. ASSUME NEW n \in Nat, Upto(n) PROVE Upto(n + 1)
  <2>0. n + 1 \in Nat /\ (n + 1) - 1 = n
    OBVIOUS
  <2>1. PICK g : \A u \in D : ~Deeper(u, n) => g[u] = DecodeInputBody(g, u)
    BY <1>2
  <2>2. PICK h : h = [u \in D |-> DecodeInputBody(g, u)]
    OBVIOUS
  <2>3. ASSUME NEW u \in D, ~Deeper(u, n + 1) PROVE h[u] = DecodeInputBody(h, u)
    <3>1. ASSUME NEW k \in Below(u) PROVE g[k] = h[k]
      <4>1. k \in D
        BY BelowGrown
      <4>2. ~Deeper(k, n)
        BY <2>0, <2>3, DepthOfBelow
      <4> QED BY <2>1, <2>2, <4>1, <4>2
    <3>2. DecodeInputBody(g, u) = DecodeInputBody(h, u)
      BY <3>1, DecodeInputFrame DEF Grown
    <3> QED BY <2>2, <3>2
  <2> QED BY <2>3
<1>3. PICK T : T = {n \in Nat : Upto(n)}
  OBVIOUS
<1> HIDE DEF Upto
<1>4. \A n \in Nat : n \in T
  BY <1>1, <1>2, <1>3, EveryNatural
<1>5. Upto(MaxNesting)
  BY <1>3, <1>4, NestingAssumption
<1>6. PICK g : \A u \in D : g[u] = DecodeInputBody(g, u)
  BY <1>5 DEF Upto, Grown
<1>7. PICK x : x = [u \in D |-> g[u]]
  OBVIOUS
<1>8. ASSUME NEW u \in D PROVE x[u] = DecodeInputBody(x, u)
  <2>1. \A k \in Below(u) : g[k] = x[k]
    BY <1>7, BelowGrown
  <2>2. DecodeInputBody(g, u) = DecodeInputBody(x, u)
    BY <2>1, DecodeInputFrame DEF Grown
  <2> QED BY <1>6, <1>7, <2>2
<1>9. x = [u \in D |-> DecodeInputBody(x, u)]
  BY <1>7, <1>8
<1> QED BY <1>9 DEF DecodeInputOn

\* It is determined by what DecodeInput gives below.
LEMMA DecodeInputUnfolds ==
  ASSUME NEW t, ~Deeper(t, MaxNesting)
  PROVE  \A g : (\A k \in Below(t) : g[k] = DecodeInput(k)) => DecodeInput(t) = DecodeInputBody(g, t)
<1>1. ASSUME NEW D, Grown(D), NEW x, DecodeInputOn(D, x),
             NEW E, Grown(E), NEW y, DecodeInputOn(E, y), NEW k \in D \cap E
      PROVE  x[k] = y[k]
  <2>1. PICK S : S = {u \in D \cap E : x[u] = y[u]}
    OBVIOUS
  <2>2. Grown(D \cap E)
    BY <1>1 DEF Grown
  <2>3. ASSUME NEW u \in D \cap E, Below(u) \subseteq S PROVE u \in S
    <3>1. \A v \in Below(u) : x[v] = y[v]
      BY <2>1, <2>3
    <3>2. DecodeInputBody(x, u) = DecodeInputBody(y, u)
      BY <1>1, <3>1, DecodeInputFrame DEF Grown
    <3> QED BY <1>1, <2>1, <3>2 DEF DecodeInputOn
  <2> QED BY <2>1, <2>2, <2>3, BelowInduction
<1>2. ASSUME NEW k, ~Deeper(k, MaxNesting)
      PROVE  \E x : DecodeInputOn(Nodes(k), x) /\ DecodeInput(k) = x[k]
  <2>1. \E x : DecodeInputOn(Nodes(k), x)
    BY <1>2, NodesGrown, DecodeInputExists
  <2>2. PICK x : x = CHOOSE y : DecodeInputOn(Nodes(k), y)
    OBVIOUS
  <2>3. DecodeInputOn(Nodes(k), x)
    BY <2>1, <2>2, Zenon
  <2>4. DecodeInput(k) = x[k]
    BY <2>2, Zenon DEF DecodeInput, DecodeInputOn, DecodeInputBody
  <2> QED BY <2>3, <2>4
<1>3. PICK x : DecodeInputOn(Nodes(t), x) /\ DecodeInput(t) = x[t]
  BY <1>2
<1>4. Grown(Nodes(t)) /\ t \in Nodes(t)
  BY NodesGrown
<1>5. ASSUME NEW k \in Below(t) PROVE x[k] = DecodeInput(k)
  <2>1. k \in Nodes(t)
    BY <1>4, BelowGrown
  <2>2. ~Deeper(k, MaxNesting) /\ Nodes(k) \subseteq Nodes(t)
    BY <1>4, <2>1, NodesWithin DEF Grown
  <2>3. PICK y : DecodeInputOn(Nodes(k), y) /\ DecodeInput(k) = y[k]
    BY <1>2, <2>2
  <2>4. Grown(Nodes(k)) /\ k \in Nodes(k)
    BY <2>2, NodesGrown
  <2> QED BY <1>1, <1>3, <1>4, <2>1, <2>3, <2>4
<1>6. ASSUME NEW g, \A k \in Below(t) : g[k] = DecodeInput(k) PROVE DecodeInput(t) = DecodeInputBody(g, t)
  <2>1. DecodeInputBody(g, t) = DecodeInputBody(x, t)
    BY <1>4, <1>5, <1>6, DecodeInputFrame
  <2> QED BY <1>3, <1>4, <2>1 DEF DecodeInputOn
<1> QED BY <1>6

\* A tree is as deep as what is below it, and one level more.
LEMMA DepthFromParts ==
  ASSUME NEW v, NEW n \in Nat, \A i \in DOMAIN v.parts : n # 0 /\ ~Deeper(v.parts[i], n - 1)
  PROVE  ~Deeper(v, n)
<1>1. \A k \in Kids(v) : n # 0 /\ ~Deeper(k, n - 1)
  BY DEF Kids, Range
<1> QED BY <1>1, DepthOfKids

\* A scalar is a value, of no depth.
LEMMA ScalarIsValue ==
  ASSUME NEW v, IsScalar(v)
  PROVE  IsValue(v) /\ \A n \in Nat : ~Deeper(v, n)
<1>1. DOMAIN v.parts = {}
  BY ValueKinds DEF IsNode
<1>2. Kids(v) = {}
  BY <1>1 DEF Kids, Range
<1>3. \A n \in Nat : ~Deeper(v, n)
  BY <1>2, DepthOfKids
<1>4. ~Deeper(v, MaxNesting)
  BY <1>3, NestingAssumption
<1>5. \A u : u \in Nodes(v) => u = v
  BY <1>2, <1>4, NodesUnfold
<1> QED BY <1>3, <1>4, <1>5 DEF IsValue, IsNode

\* A node whose parts are values is one.
LEMMA ValueFromParts ==
  ASSUME NEW v, IsNode(v), ~Deeper(v, MaxNesting), \A i \in DOMAIN v.parts : IsValue(v.parts[i])
  PROVE  IsValue(v)
<1>1. \A k \in Kids(v) : IsValue(k)
  BY DEF Kids, Range
<1>2. \A u : u \in Nodes(v) => u = v \/ \E k \in Kids(v) : u \in Nodes(k)
  BY NodesUnfold
<1> QED BY <1>1, <1>2 DEF IsValue

\* A value that is no deeper than the JSON it was decoded from, or a refusal.
DecodesTo(c, v) == v = Refused \/ (IsValue(v) /\ \A n \in Nat : ~Deeper(c, n) => ~Deeper(v, n))

\* A collection of decoded values is one, no deeper than its JSON.
LEMMA CollectionDecodes ==
  ASSUME NEW c, ~Deeper(c, MaxNesting), NEW v, IsNode(v),
         \A i \in DOMAIN v.parts : \E k \in Below(c) : v.parts[i] # Refused /\ DecodesTo(k, v.parts[i])
  PROVE  DecodesTo(c, v)
<1>1. ASSUME NEW n \in Nat, ~Deeper(c, n) PROVE ~Deeper(v, n)
  <2>1. ASSUME NEW i \in DOMAIN v.parts PROVE n # 0 /\ ~Deeper(v.parts[i], n - 1)
    <3>1. PICK k \in Below(c) : v.parts[i] # Refused /\ DecodesTo(k, v.parts[i])
      OBVIOUS
    <3>2. n # 0 /\ ~Deeper(k, n - 1)
      BY <1>1, DepthOfBelow
    <3>3. n - 1 \in Nat
      BY <3>2
    <3> QED BY <3>1, <3>2, <3>3 DEF DecodesTo
  <2> QED BY <2>1, DepthFromParts
<1>2. ~Deeper(v, MaxNesting)
  BY <1>1, NestingAssumption
<1>3. \A i \in DOMAIN v.parts : IsValue(v.parts[i])
  BY DEF DecodesTo
<1> QED BY <1>1, <1>2, <1>3, ValueFromParts DEF DecodesTo

\* A decoded scalar is no deeper than its JSON.
LEMMA ScalarDecodes ==
  ASSUME NEW c, NEW v, IsScalar(v)
  PROVE  DecodesTo(c, v)
BY ScalarIsValue DEF DecodesTo

\* What a text is written as is that of a scalar.
LEMMA WrittenIsScalar ==
  ASSUME NEW kind \in DOMAIN Reading, NEW text \in DOMAIN Reading[kind]
  PROVE  IsScalar(Value(kind, Reading[kind][text]))
<1>1. PICK w : w = Reading[kind][text]
  OBVIOUS
<1>2. w \in Range(Reading[kind])
  BY <1>1 DEF Range
<1>3. Value(kind, w).kind = kind /\ Value(kind, w).text = w
  BY DEF Value
<1> QED BY <1>1, <1>2, <1>3 DEF IsScalar

\* What JSON spells is a scalar, numbers apart.
LEMMA JsonScalarIs ==
  ASSUME NEW v, IsJsonScalar(v), v.kind \notin {"integer", "fraction"}
  PROVE  IsScalar(v)
BY DEF IsJsonScalar, IsScalar

\* A leaf decodes to a scalar or is refused.
LEMMA LeafDecodes ==
  ASSUME NEW v, IsJsonScalar(v)
  PROVE  DecodeLeaf(v) = Refused \/ IsScalar(DecodeLeaf(v))
<1>1. CASE v.kind \notin {"integer", "fraction"}
  BY <1>1, JsonScalarIs DEF DecodeLeaf
<1>2. CASE v.kind \in {"integer", "fraction"}
  <2>1. PICK fits : fits = {kind \in IF v.kind = "fraction" THEN {"double"} ELSE {"int", "uint"} :
                              v.text \in DOMAIN Reading[kind]}
    OBVIOUS
  <2>2. CASE fits = {}
    BY <1>2, <2>1, <2>2, Zenon DEF DecodeLeaf
  <2>3. CASE fits # {}
    <3>1. PICK kind : kind = IF "int" \in fits THEN "int" ELSE CHOOSE k \in fits : TRUE
      OBVIOUS
    <3>2. DecodeLeaf(v) = Value(kind, Reading[kind][v.text])
      BY <1>2, <2>1, <2>3, <3>1, Zenon DEF DecodeLeaf
    <3>3. kind \in fits
      BY <2>3, <3>1
    <3>4. kind \in DOMAIN Reading /\ v.text \in DOMAIN Reading[kind]
      BY <2>1, <3>3, CodecAssumption
    <3> QED BY <3>2, <3>4, WrittenIsScalar
  <2> QED BY <2>2, <2>3
<1> QED BY <1>1, <1>2

\* So does a tagged scalar.
LEMMA TaggedScalarDecodes ==
  ASSUME NEW raw, raw.json = "leaf" => IsJsonScalar(raw.has),
         NEW kind \in DOMAIN Reading \cup {"null", "bool", "string"}
  PROVE  DecodeScalar(kind, raw) = Refused \/ IsScalar(DecodeScalar(kind, raw))
<1>1. IsScalar(Null)
  BY DEF IsScalar, Null, Value
<1>2. CASE kind = "null"
  BY <1>1, <1>2 DEF DecodeScalar
<1>3. CASE kind \in {"bool", "string"}
  <2>1. raw.json = "leaf" /\ raw.has.kind = kind => IsScalar(raw.has)
    BY <1>3, JsonScalarIs
  <2> QED BY <1>3, <2>1 DEF DecodeScalar
<1>4. CASE kind \notin {"null", "bool", "string"}
  <2>1. kind \in DOMAIN Reading
    BY <1>4
  <2> QED BY <1>4, <2>1, WrittenIsScalar DEF DecodeScalar
<1> QED BY <1>2, <1>3, <1>4

\* The range of a function on a finite set is finite.
LEMMA RangeFinite ==
  ASSUME NEW S, IsFiniteSet(S), NEW f, DOMAIN f = S
  PROVE  IsFiniteSet(Range(f))
<1>1. PICK h : h = [x \in S |-> f[x]]
  OBVIOUS
<1>2. h \in Surjection(S, Range(f))
  BY <1>1 DEF Surjection, Range
<1> QED BY <1>2, FS_Surjection

\* A refusal is an outcome of decoding.
LEMMA RefusalDecodes ==
  ASSUME NEW c
  PROVE  DecodesTo(c, Refused)
BY DEF DecodesTo

\* DecodeItems keeps what its items have.
LEMMA ItemsDecode ==
  ASSUME NEW c, ~Deeper(c, MaxNesting), NEW s, NEW decoded,
         \A i \in DOMAIN s : \E k \in Below(c) : DecodesTo(k, decoded[s[i]])
  PROVE  DecodesTo(c, DecodeItems(s, decoded))
<1>1. PICK items : items = [i \in DOMAIN s |-> decoded[s[i]]]
  OBVIOUS
<1>2. DecodeItems(s, decoded) = IF Refused \in Range(items) THEN Refused ELSE ListValue(items)
  BY <1>1, Zenon DEF DecodeItems
<1>3. CASE Refused \in Range(items)
  BY <1>2, <1>3, RefusalDecodes
<1>4. CASE Refused \notin Range(items)
  <2>1. PICK v : v = ListValue(items)
    OBVIOUS
  <2>2. v.parts = items /\ IsNode(v)
    <3>1. v.parts = items
      BY <2>1 DEF ListValue
    <3>2. items = [i \in DOMAIN items |-> items[i]]
      BY <1>1
    <3> QED BY <2>1, <3>1, <3>2 DEF IsNode
  <2>3. \A i \in DOMAIN items : items[i] # Refused
    BY <1>4 DEF Range
  <2>4. \A i \in DOMAIN v.parts : \E k \in Below(c) : v.parts[i] # Refused /\ DecodesTo(k, v.parts[i])
    BY <1>1, <2>2, <2>3
  <2>5. DecodesTo(c, v)
    BY <2>2, <2>4, CollectionDecodes
  <2> QED BY <1>2, <1>4, <2>1, <2>5
<1> QED BY <1>3, <1>4

\* What is decoded of a key's kind is a scalar.
LEMMA KeyIsScalar ==
  ASSUME NEW c, NEW k, DecodesTo(c, k), k.kind \in KeyKinds
  PROVE  IsScalar(k)
<1>1. k # Refused
  <2>1. Refused.kind = "refused"
    BY DEF Refused, Value
  <2> QED BY <2>1 DEF KeyKinds
<1>2. IsNode(k)
  BY <1>1, ValueParts DEF DecodesTo
<1>3. \A f : ListValue(f).kind \notin KeyKinds /\ MapValue(f).kind \notin KeyKinds
  BY DEF ListValue, MapValue, KeyKinds
<1> QED BY <1>2, <1>3 DEF IsNode

\* A map of decoded values under scalar keys is one.
LEMMA MapDecodes ==
  ASSUME NEW c, ~Deeper(c, MaxNesting), NEW f, f = [k \in DOMAIN f |-> f[k]], IsFiniteSet(DOMAIN f),
         \A k \in DOMAIN f : /\ IsScalar(k) /\ k.kind \in KeyKinds
                             /\ f[k] # Refused /\ \E u \in Below(c) : DecodesTo(u, f[k])
  PROVE  DecodesTo(c, MapValue(f))
<1>1. PICK v : v = MapValue(f)
  OBVIOUS
<1>2. v.parts = f
  BY <1>1 DEF MapValue
<1>3. IsNode(v)
  BY <1>1, <1>2 DEF IsNode
<1>4. \A i \in DOMAIN v.parts : \E k \in Below(c) : v.parts[i] # Refused /\ DecodesTo(k, v.parts[i])
  BY <1>2
<1> QED BY <1>1, <1>3, <1>4, CollectionDecodes

\* DecodeEntries keeps what its keys and values have.
LEMMA EntriesDecode ==
  ASSUME NEW c, ~Deeper(c, MaxNesting), NEW keys, NEW values, IsFiniteSet(DOMAIN keys), DOMAIN values = DOMAIN keys,
         \A i \in DOMAIN keys : /\ \E k \in Below(c) : DecodesTo(k, keys[i])
                                /\ \E k \in Below(c) : DecodesTo(k, values[i])
  PROVE  DecodesTo(c, DecodeEntries(keys, values))
<1> DEFINE at(k) == CHOOSE i \in DOMAIN keys : keys[i] = k
<1>1. PICK f : f = [k \in Range(keys) |-> values[at(k)]]
  OBVIOUS
<1>2. DecodeEntries(keys, values) =
        IF \/ Refused \in Range(values)
           \/ \E k \in Range(keys) : k.kind \notin KeyKinds
           \/ ~IsInjective(keys)
        THEN Refused ELSE MapValue(f)
  BY <1>1, Zenon DEF DecodeEntries
<1>3. CASE Refused \notin Range(values) /\ \A k \in Range(keys) : k.kind \in KeyKinds
  <2>1. \A k \in Range(keys) : at(k) \in DOMAIN keys /\ keys[at(k)] = k
    BY DEF Range
  <2> HIDE DEF at
  <2>2. f = [k \in DOMAIN f |-> f[k]] /\ DOMAIN f = Range(keys)
    BY <1>1
  <2>3. IsFiniteSet(DOMAIN f)
    BY <2>2, RangeFinite
  <2>4. ASSUME NEW k \in DOMAIN f
        PROVE  /\ IsScalar(k) /\ k.kind \in KeyKinds
               /\ f[k] # Refused /\ \E u \in Below(c) : DecodesTo(u, f[k])
    <3>1. PICK i \in DOMAIN keys : i = at(k) /\ keys[i] = k
      BY <2>1, <2>2
    <3>2. f[k] = values[i]
      BY <1>1, <2>2, <3>1
    <3>3. values[i] # Refused
      BY <1>3, <3>1 DEF Range
    <3>4. k.kind \in KeyKinds
      BY <1>3, <2>2
    <3>5. IsScalar(k)
      BY <3>1, <3>4, KeyIsScalar
    <3> QED BY <3>1, <3>2, <3>3, <3>4, <3>5
  <2>5. DecodesTo(c, MapValue(f))
    BY <2>2, <2>3, <2>4, MapDecodes
  <2> QED BY <1>2, <2>5, RefusalDecodes
<1>4. CASE ~(Refused \notin Range(values) /\ \A k \in Range(keys) : k.kind \in KeyKinds)
  BY <1>2, <1>4, RefusalDecodes
<1> QED BY <1>3, <1>4

\* DecodeObject keeps what its members have.
LEMMA ObjectDecodes ==
  ASSUME NEW c, ~Deeper(c, MaxNesting), NEW f, IsFiniteSet(DOMAIN f), NEW decoded,
         \A n \in DOMAIN f : \E k \in Below(c) : DecodesTo(k, decoded[f[n]])
  PROVE  DecodesTo(c, DecodeObject(f, decoded))
<1>1. PICK named : named = [n \in DOMAIN f |-> Value("string", n)]
  OBVIOUS
<1>2. PICK g : g = [k \in Range(named) |-> decoded[f[k.text]]]
  OBVIOUS
<1>3. Range(named) = {Value("string", n) : n \in DOMAIN f}
  BY <1>1 DEF Range
<1>4. DecodeObject(f, decoded) = IF \E n \in DOMAIN f : decoded[f[n]] = Refused THEN Refused ELSE MapValue(g)
  BY <1>2, <1>3, Zenon DEF DecodeObject
<1>5. CASE \E n \in DOMAIN f : decoded[f[n]] = Refused
  BY <1>4, <1>5, RefusalDecodes
<1>6. CASE \A n \in DOMAIN f : decoded[f[n]] # Refused
  <2>1. IsFiniteSet(Range(named))
    BY <1>1, RangeFinite
  <2>2. g = [k \in DOMAIN g |-> g[k]] /\ DOMAIN g = Range(named)
    BY <1>2
  <2>3. ASSUME NEW k \in DOMAIN g
        PROVE  /\ IsScalar(k) /\ k.kind \in KeyKinds
               /\ g[k] # Refused /\ \E u \in Below(c) : DecodesTo(u, g[k])
    <3>1. PICK n \in DOMAIN f : k = Value("string", n)
      BY <1>3, <2>2
    <3>2. k.kind = "string" /\ k.text = n
      BY <3>1 DEF Value
    <3>3. g[k] = decoded[f[n]]
      BY <1>2, <2>2, <3>2
    <3>4. IsScalar(k) /\ k.kind \in KeyKinds
      BY <3>1, <3>2 DEF IsScalar, KeyKinds
    <3> QED BY <1>6, <3>3, <3>4
  <2>4. DecodesTo(c, MapValue(g))
    BY <2>1, <2>2, <2>3, MapDecodes
  <2> QED BY <1>4, <1>6, <2>4
<1> QED BY <1>5, <1>6

\* A node of a JSON document.
IsJsonNode(c) ==
  \/ c = Malformed
  \/ c = Leaf(c.has) /\ IsJsonScalar(c.has)
  \/ c = Array(c.parts) /\ c.parts \in Seq(Range(c.parts))
  \/ c = Object([n \in DOMAIN c.parts |-> c.parts[n]]) /\ IsFiniteSet(DOMAIN c.parts)

\* What the nodes of a JSON document are.
LEMMA JsonNodes ==
  ASSUME NEW c, IsJsonNode(c)
  PROVE  /\ c.json \in {"malformed", "leaf", "array", "object"}
         /\ c.json = "leaf" => c = Leaf(c.has) /\ IsJsonScalar(c.has)
         /\ IsFiniteSet(DOMAIN c.parts)
<1>1. /\ Malformed.json = "malformed" /\ DOMAIN Malformed.parts = {}
      /\ \A x : Leaf(x).json = "leaf" /\ DOMAIN Leaf(x).parts = {}
      /\ \A x : Array(x).json = "array" /\ Object(x).json = "object"
  BY DEF Malformed, Leaf, Array, Object
<1>2. c.parts \in Seq(Range(c.parts)) => IsFiniteSet(DOMAIN c.parts)
  <2>1. SUFFICES ASSUME c.parts \in Seq(Range(c.parts)) PROVE IsFiniteSet(DOMAIN c.parts)
    OBVIOUS
  <2>2. PICK n \in Nat : DOMAIN c.parts = 1..n
    BY <2>1
  <2> QED BY <2>2, FS_Interval
<1>3. IsFiniteSet({})
  BY FS_EmptySet
<1> QED BY <1>1, <1>2, <1>3 DEF IsJsonNode

\* A tagged object decodes to a value, or is refused.
LEMMA TaggedDecodes ==
  ASSUME NEW c, ~Deeper(c, MaxNesting), \A k \in Below(c) : IsJsonNode(k), NEW decoded,
         \A k \in Below(c) : DecodesTo(k, decoded[k])
  PROVE  DecodesTo(c, DecodeTagged(c.parts, decoded))
<1>1. PICK f : f = c.parts
  OBVIOUS
<1>2. \A n \in DOMAIN f : f[n] \in Below(c) /\ IsJsonNode(f[n])
  BY <1>1, PartsAreBelow
<1>3. \A u \in Below(c) : \A n \in DOMAIN u.parts : u.parts[n] \in Below(c)
  BY BelowBelow, PartsAreBelow
<1>4. CASE f[Marker] # True \/ ~Has(f, "kind", "leaf") \/ f["kind"].has.kind # "string"
  BY <1>1, <1>4, RefusalDecodes DEF DecodeTagged
<1>5. CASE ~(f[Marker] # True \/ ~Has(f, "kind", "leaf") \/ f["kind"].has.kind # "string")
  <2>1. PICK kind : kind = f["kind"].has.text
    OBVIOUS
  <2>2. CASE kind = "list"
    <3>1. DecodeTagged(f, decoded) = IF Has(f, "items", "array") THEN DecodeItems(f["items"].parts, decoded) ELSE Refused
      BY <1>5, <2>1, <2>2 DEF DecodeTagged
    <3>2. ASSUME Has(f, "items", "array") PROVE DecodesTo(c, DecodeItems(f["items"].parts, decoded))
      <4>1. PICK s : s = f["items"].parts
        OBVIOUS
      <4>2. \A i \in DOMAIN s : s[i] \in Below(c)
        BY <1>2, <1>3, <3>2, <4>1 DEF Has
      <4>3. \A i \in DOMAIN s : \E k \in Below(c) : DecodesTo(k, decoded[s[i]])
        BY <4>2
      <4> QED BY <4>1, <4>3, ItemsDecode
    <3> QED BY <1>1, <3>1, <3>2, RefusalDecodes
  <2>3. CASE kind = "map"
    <3>1. PICK s : s = f["entries"].parts
      OBVIOUS
    <3>2. PICK keys : keys = [i \in DOMAIN s |-> decoded[s[i].parts["key"]]]
      OBVIOUS
    <3>3. PICK values : values = [i \in DOMAIN s |-> decoded[s[i].parts["value"]]]
      OBVIOUS
    <3>4. DecodeTagged(f, decoded) = IF Has(f, "entries", "array") /\ \A e \in Range(s) : IsEntry(e)
                                     THEN DecodeEntries(keys, values) ELSE Refused
      BY <1>5, <2>1, <2>3, <3>1, <3>2, <3>3 DEF DecodeTagged
    <3>5. ASSUME Has(f, "entries", "array"), \A e \in Range(s) : IsEntry(e)
          PROVE  DecodesTo(c, DecodeEntries(keys, values))
      <4>1. f["entries"] \in Below(c) /\ IsFiniteSet(DOMAIN s)
        BY <1>2, <3>1, <3>5, JsonNodes DEF Has
      <4>2. \A i \in DOMAIN s : s[i] \in Below(c) /\ "key" \in DOMAIN s[i].parts /\ "value" \in DOMAIN s[i].parts
        BY <1>3, <3>1, <3>5, <4>1 DEF IsEntry, Range
      <4>3. \A i \in DOMAIN keys : /\ \E k \in Below(c) : DecodesTo(k, keys[i])
                                   /\ \E k \in Below(c) : DecodesTo(k, values[i])
        BY <1>3, <3>2, <3>3, <4>2
      <4>4. DOMAIN keys = DOMAIN s /\ DOMAIN values = DOMAIN s
        BY <3>2, <3>3
      <4>5. IsFiniteSet(DOMAIN keys) /\ DOMAIN values = DOMAIN keys
        BY <4>1, <4>4
      <4> QED BY <4>3, <4>5, EntriesDecode
    <3> QED BY <1>1, <3>4, <3>5, RefusalDecodes
  <2>4. CASE kind \in DOMAIN Reading \cup {"null", "bool", "string"}
    <3>1. PICK raw : raw = IF "value" \in DOMAIN f THEN f["value"] ELSE Leaf(Null)
      OBVIOUS
    <3>2. kind # "list" /\ kind # "map"
      BY <2>4, CodecAssumption DEF OtherKinds
    <3>3. DecodeTagged(f, decoded) = DecodeScalar(kind, raw)
      BY <1>5, <2>1, <2>4, <3>1, <3>2 DEF DecodeTagged
    <3>4. Leaf(Null).json = "leaf" /\ Leaf(Null).has = Null /\ IsJsonScalar(Null)
      BY DEF Leaf, IsJsonScalar, Null, Value
    <3>5. raw.json = "leaf" => IsJsonScalar(raw.has)
      BY <1>2, <3>1, <3>4, JsonNodes
    <3>6. DecodeScalar(kind, raw) = Refused \/ IsScalar(DecodeScalar(kind, raw))
      BY <2>4, <3>5, TaggedScalarDecodes
    <3> QED BY <1>1, <3>3, <3>6, RefusalDecodes, ScalarDecodes
  <2>5. CASE kind \notin {"list", "map"} /\ kind \notin DOMAIN Reading \cup {"null", "bool", "string"}
    <3>1. DecodeTagged(f, decoded) = Refused
      BY <1>5, <2>1, <2>5 DEF DecodeTagged
    <3> QED BY <1>1, <3>1, RefusalDecodes
  <2> QED BY <2>2, <2>3, <2>4, <2>5
<1> QED BY <1>4, <1>5

\* What is decoded of JSON is a value, and no deeper.
LEMMA Decodes ==
  ASSUME NEW j, ~Deeper(j, MaxNesting), IsJson(j)
  PROVE  DecodesTo(j, DecodeInput(j))
<1>0. \A c \in Nodes(j) : IsJsonNode(c)
  BY DEF IsJson, IsJsonNode
<1>1. PICK S : S = {c \in Nodes(j) : DecodesTo(c, DecodeInput(c))}
  OBVIOUS
<1>2. Grown(Nodes(j)) /\ j \in Nodes(j)
  BY NodesGrown
<1>3. ASSUME NEW c \in Nodes(j), Below(c) \subseteq S PROVE c \in S
  <2>1. PICK g : g = [k \in Below(c) |-> DecodeInput(k)]
    OBVIOUS
  <2>2. ~Deeper(c, MaxNesting) /\ IsJsonNode(c)
    BY <1>0, <1>2 DEF Grown
  <2>3. \A k \in Below(c) : g[k] = DecodeInput(k) /\ DecodesTo(k, g[k]) /\ IsJsonNode(k)
    BY <1>0, <1>1, <1>3, <2>1
  <2>4. DecodeInput(c) = DecodeInputBody(g, c)
    BY <2>2, <2>3, DecodeInputUnfolds
  <2>5. \A i \in DOMAIN c.parts : \E k \in Below(c) : DecodesTo(k, g[c.parts[i]])
    BY <2>3, PartsAreBelow
  <2>6. CASE c.json = "leaf"
    <3>1. DecodeInputBody(g, c) = DecodeLeaf(c.has)
      BY <2>6 DEF DecodeInputBody
    <3> QED BY <1>1, <2>2, <2>4, <2>6, <3>1, JsonNodes, LeafDecodes, ScalarDecodes, RefusalDecodes
  <2>7. CASE c.json = "array"
    <3>1. DecodeInputBody(g, c) = DecodeItems(c.parts, g)
      BY <2>7 DEF DecodeInputBody
    <3> QED BY <1>1, <2>2, <2>4, <2>5, <3>1, ItemsDecode
  <2>8. CASE c.json = "object" /\ Marker \in DOMAIN c.parts
    <3>1. DecodeInputBody(g, c) = DecodeTagged(c.parts, g)
      BY <2>8 DEF DecodeInputBody
    <3>2. DecodesTo(c, DecodeTagged(c.parts, g))
      BY <2>2, <2>3, TaggedDecodes
    <3> QED BY <1>1, <2>4, <3>1, <3>2
  <2>9. CASE c.json \notin {"leaf", "array"} /\ ~(c.json = "object" /\ Marker \in DOMAIN c.parts)
    <3>1. DecodeInputBody(g, c) = DecodeObject(c.parts, g)
      BY <2>9 DEF DecodeInputBody
    <3>2. DecodesTo(c, DecodeObject(c.parts, g))
      BY <2>2, <2>5, JsonNodes, ObjectDecodes
    <3> QED BY <1>1, <2>4, <3>1, <3>2
  <2> QED BY <2>6, <2>7, <2>8, <2>9
<1>4. j \in S
  BY <1>2, <1>3, BelowInduction
<1> QED BY <1>1, <1>4

(***************************************************************************)
(* What an operation answers.  What is in the caches has passed its steps, *)
(* so that a step that is skipped would have passed: an answer depends on  *)
(* the input alone.                                                        *)
(***************************************************************************)
\* The answer of an operation of these steps.
Outcome(steps, result) ==
  IF Answered(steps) THEN result ELSE Fail(steps[Passing(steps) + 1].code)

\* Every step before the one an operation stops at has passed.
LEMMA StepsPassed ==
  ASSUME NEW steps, NEW len \in Nat, Len(steps) = len, DOMAIN steps = 1..len
  PROVE  /\ Passing(steps) \in 0..len
         /\ \A n \in 1..Passing(steps) : steps[n].code = Passed
         /\ Passing(steps) # len => steps[Passing(steps) + 1].code # Passed
<1>1. PICK F : F = {n \in DOMAIN steps : steps[n].code # Passed}
  OBVIOUS
<1>2. CASE F = {}
  BY <1>1, <1>2 DEF Passing
<1>3. CASE F # {}
  <2>1. F \subseteq Nat
    BY <1>1
  <2>2. Min(F) \in F /\ \A y \in F : Min(F) <= y
    BY <1>3, <2>1, SmallestElement DEF Min
  <2>3. Passing(steps) = Min(F) - 1
    BY <1>1, <1>3 DEF Passing
  <2>4. PICK f \in 1..len : f = Min(F)
    BY <1>1, <2>2
  <2>5. \A n \in 1..len : n < f => n \notin F
    BY <2>2, <2>4
  <2>6. steps[f].code # Passed
    BY <1>1, <2>2, <2>4
  <2>7. Passing(steps) = f - 1
    BY <2>3, <2>4
  <2>8. \A n \in 1..(f - 1) : n \in DOMAIN steps /\ n \notin F
    BY <2>4, <2>5
  <2>9. \A n \in 1..(f - 1) : steps[n].code = Passed
    BY <1>1, <2>8
  <2> QED BY <2>6, <2>7, <2>9
<1> QED BY <1>2, <1>3

\* The answer is the result, or the code of the first step that did not pass.
LEMMA OutcomeIs ==
  ASSUME NEW steps, NEW len \in Nat, Len(steps) = len, DOMAIN steps = 1..len, NEW result
  PROVE  \/ Outcome(steps, result) = result /\ \A n \in 1..len : steps[n].code = Passed
         \/ \E f \in 1..len : /\ Outcome(steps, result) = Fail(steps[f].code)
                              /\ steps[f].code # Passed
                              /\ \A n \in 1..len : n < f => steps[n].code = Passed
<1>1. PICK p : p = Passing(steps)
  OBVIOUS
<1>2. /\ p \in 0..len /\ \A n \in 1..p : steps[n].code = Passed
      /\ p # len => steps[p + 1].code # Passed
  BY <1>1, StepsPassed
<1>3. CASE p = len
  BY <1>1, <1>2, <1>3 DEF Outcome, Answered
<1>4. CASE p # len
  <2>1. p + 1 \in 1..len /\ \A n \in 1..len : n < p + 1 => n \in 1..p
    BY <1>2, <1>4
  <2>2. Outcome(steps, result) = Fail(steps[p + 1].code)
    BY <1>1, <1>4 DEF Outcome, Answered
  <2> QED BY <1>2, <1>4, <2>1, <2>2
<1> QED BY <1>3, <1>4

\* The answer to two steps, in their order; and to three, four, five and seven.
LEMMA OutcomeOf2 ==
  ASSUME NEW a, NEW b, NEW result
  PROVE  Outcome(<<a, b>>, result) =
           IF a.code # Passed THEN Fail(a.code)
           ELSE IF b.code # Passed THEN Fail(b.code)
           ELSE result
<1>1. PICK s : s = <<a, b>>
  OBVIOUS
<1>2. Len(s) = 2 /\ DOMAIN s = 1..2 /\ s[1] = a /\ s[2] = b
  BY <1>1
<1>3. \/ Outcome(s, result) = result /\ \A n \in 1..2 : s[n].code = Passed
      \/ \E k \in 1..2 : /\ Outcome(s, result) = Fail(s[k].code)
                          /\ s[k].code # Passed
                          /\ \A n \in 1..2 : n < k => s[n].code = Passed
  <2>1. PICK len \in Nat : len = 2
    OBVIOUS
  <2>2. Len(s) = len /\ DOMAIN s = 1..len
    BY <1>2, <2>1
  <2>3. \/ Outcome(s, result) = result /\ \A n \in 1..len : s[n].code = Passed
        \/ \E k \in 1..len : /\ Outcome(s, result) = Fail(s[k].code)
                              /\ s[k].code # Passed
                              /\ \A n \in 1..len : n < k => s[n].code = Passed
    BY <2>2, OutcomeIs
  <2> QED BY <2>1, <2>3
<1>4. \A k \in 1..2 : k = 1 \/ k = 2
  OBVIOUS
<1> QED BY <1>1, <1>2, <1>3, <1>4

\* Of three steps.
LEMMA OutcomeOf3 ==
  ASSUME NEW a, NEW b, NEW c, NEW result
  PROVE  Outcome(<<a, b, c>>, result) =
           IF a.code # Passed THEN Fail(a.code)
           ELSE IF b.code # Passed THEN Fail(b.code)
           ELSE IF c.code # Passed THEN Fail(c.code)
           ELSE result
<1>1. PICK s : s = <<a, b, c>>
  OBVIOUS
<1>2. Len(s) = 3 /\ DOMAIN s = 1..3 /\ s[1] = a /\ s[2] = b /\ s[3] = c
  BY <1>1
<1>3. \/ Outcome(s, result) = result /\ \A n \in 1..3 : s[n].code = Passed
      \/ \E k \in 1..3 : /\ Outcome(s, result) = Fail(s[k].code)
                          /\ s[k].code # Passed
                          /\ \A n \in 1..3 : n < k => s[n].code = Passed
  <2>1. PICK len \in Nat : len = 3
    OBVIOUS
  <2>2. Len(s) = len /\ DOMAIN s = 1..len
    BY <1>2, <2>1
  <2>3. \/ Outcome(s, result) = result /\ \A n \in 1..len : s[n].code = Passed
        \/ \E k \in 1..len : /\ Outcome(s, result) = Fail(s[k].code)
                              /\ s[k].code # Passed
                              /\ \A n \in 1..len : n < k => s[n].code = Passed
    BY <2>2, OutcomeIs
  <2> QED BY <2>1, <2>3
<1>4. \A k \in 1..3 : k = 1 \/ k = 2 \/ k = 3
  OBVIOUS
<1> QED BY <1>1, <1>2, <1>3, <1>4

\* Of four steps.
LEMMA OutcomeOf4 ==
  ASSUME NEW a, NEW b, NEW c, NEW d, NEW result
  PROVE  Outcome(<<a, b, c, d>>, result) =
           IF a.code # Passed THEN Fail(a.code)
           ELSE IF b.code # Passed THEN Fail(b.code)
           ELSE IF c.code # Passed THEN Fail(c.code)
           ELSE IF d.code # Passed THEN Fail(d.code)
           ELSE result
<1>1. PICK s : s = <<a, b, c, d>>
  OBVIOUS
<1>2. Len(s) = 4 /\ DOMAIN s = 1..4 /\ s[1] = a /\ s[2] = b /\ s[3] = c /\ s[4] = d
  BY <1>1
<1>3. \/ Outcome(s, result) = result /\ \A n \in 1..4 : s[n].code = Passed
      \/ \E k \in 1..4 : /\ Outcome(s, result) = Fail(s[k].code)
                          /\ s[k].code # Passed
                          /\ \A n \in 1..4 : n < k => s[n].code = Passed
  <2>1. PICK len \in Nat : len = 4
    OBVIOUS
  <2>2. Len(s) = len /\ DOMAIN s = 1..len
    BY <1>2, <2>1
  <2>3. \/ Outcome(s, result) = result /\ \A n \in 1..len : s[n].code = Passed
        \/ \E k \in 1..len : /\ Outcome(s, result) = Fail(s[k].code)
                              /\ s[k].code # Passed
                              /\ \A n \in 1..len : n < k => s[n].code = Passed
    BY <2>2, OutcomeIs
  <2> QED BY <2>1, <2>3
<1>4. \A k \in 1..4 : k = 1 \/ k = 2 \/ k = 3 \/ k = 4
  OBVIOUS
<1> QED BY <1>1, <1>2, <1>3, <1>4

\* Of five steps.
LEMMA OutcomeOf5 ==
  ASSUME NEW a, NEW b, NEW c, NEW d, NEW e, NEW result
  PROVE  Outcome(<<a, b, c, d, e>>, result) =
           IF a.code # Passed THEN Fail(a.code)
           ELSE IF b.code # Passed THEN Fail(b.code)
           ELSE IF c.code # Passed THEN Fail(c.code)
           ELSE IF d.code # Passed THEN Fail(d.code)
           ELSE IF e.code # Passed THEN Fail(e.code)
           ELSE result
<1>1. PICK s : s = <<a, b, c, d, e>>
  OBVIOUS
<1>2. Len(s) = 5 /\ DOMAIN s = 1..5 /\ s[1] = a /\ s[2] = b /\ s[3] = c /\ s[4] = d /\ s[5] = e
  BY <1>1
<1>3. \/ Outcome(s, result) = result /\ \A n \in 1..5 : s[n].code = Passed
      \/ \E k \in 1..5 : /\ Outcome(s, result) = Fail(s[k].code)
                          /\ s[k].code # Passed
                          /\ \A n \in 1..5 : n < k => s[n].code = Passed
  <2>1. PICK len \in Nat : len = 5
    OBVIOUS
  <2>2. Len(s) = len /\ DOMAIN s = 1..len
    BY <1>2, <2>1
  <2>3. \/ Outcome(s, result) = result /\ \A n \in 1..len : s[n].code = Passed
        \/ \E k \in 1..len : /\ Outcome(s, result) = Fail(s[k].code)
                              /\ s[k].code # Passed
                              /\ \A n \in 1..len : n < k => s[n].code = Passed
    BY <2>2, OutcomeIs
  <2> QED BY <2>1, <2>3
<1>4. \A k \in 1..5 : k = 1 \/ k = 2 \/ k = 3 \/ k = 4 \/ k = 5
  OBVIOUS
<1> QED BY <1>1, <1>2, <1>3, <1>4

\* Of seven steps.
LEMMA OutcomeOf7 ==
  ASSUME NEW a, NEW b, NEW c, NEW d, NEW e, NEW f, NEW g, NEW result
  PROVE  Outcome(<<a, b, c, d, e, f, g>>, result) =
           IF a.code # Passed THEN Fail(a.code)
           ELSE IF b.code # Passed THEN Fail(b.code)
           ELSE IF c.code # Passed THEN Fail(c.code)
           ELSE IF d.code # Passed THEN Fail(d.code)
           ELSE IF e.code # Passed THEN Fail(e.code)
           ELSE IF f.code # Passed THEN Fail(f.code)
           ELSE IF g.code # Passed THEN Fail(g.code)
           ELSE result
<1>1. PICK s : s = <<a, b, c, d, e, f, g>>
  OBVIOUS
<1>2. Len(s) = 7 /\ DOMAIN s = 1..7 /\ s[1] = a /\ s[2] = b /\ s[3] = c /\ s[4] = d /\ s[5] = e /\ s[6] = f /\ s[7] = g
  BY <1>1
<1>3. \/ Outcome(s, result) = result /\ \A n \in 1..7 : s[n].code = Passed
      \/ \E k \in 1..7 : /\ Outcome(s, result) = Fail(s[k].code)
                          /\ s[k].code # Passed
                          /\ \A n \in 1..7 : n < k => s[n].code = Passed
  <2>1. PICK len \in Nat : len = 7
    OBVIOUS
  <2>2. Len(s) = len /\ DOMAIN s = 1..len
    BY <1>2, <2>1
  <2>3. \/ Outcome(s, result) = result /\ \A n \in 1..len : s[n].code = Passed
        \/ \E k \in 1..len : /\ Outcome(s, result) = Fail(s[k].code)
                              /\ s[k].code # Passed
                              /\ \A n \in 1..len : n < k => s[n].code = Passed
    BY <2>2, OutcomeIs
  <2> QED BY <2>1, <2>3
<1>4. \A k \in 1..7 : k = 1 \/ k = 2 \/ k = 3 \/ k = 4 \/ k = 5 \/ k = 6 \/ k = 7
  OBVIOUS
<1> QED BY <1>1, <1>2, <1>3, <1>4

\* The steps as they are on cold caches, and the answer of each operation made of
\* them.
EnvironmentStep(i) == Step("environment", DecodeEnvironment(i).code)
ProgramStep(i) == Step("program", CompileStep(i.source))
FoundStep == Step("find", Passed)
Result(i, expected) == EvalProgram(i.source, DecodeVariables(i.wire).body, expected)
Valid(i) == CheckContract(i, Dyn).code = Passed /\ CheckContract(i, i.expected).code = Passed
ForPrepare(i) == IF i.contract = "prepare" THEN i.expected ELSE Nil
ForEvaluation(i) == IF i.contract = "evaluation" THEN i.expected ELSE Nil

ValidateAnswer(i) ==
  Outcome(<<ValidateSource(i), ParseOptions(i.expected), DecodeEnvironment(i)>>,
          OK([valid |-> Valid(i), type |-> ResultType(i)]))

EvaluateAnswer(i) ==
  Outcome(<<ParseOptions(i.expected), CheckDeadline(i), ValidateSource(i), EnvironmentStep(i),
            CheckContract(i, i.expected), DecodeVariablesStep(i.wire), ProgramStep(i)>>,
          Result(i, i.expected))

ManyAnswer(i) ==
  Outcome(<<EnvironmentStep(i), DecodeVariablesStep(i.wire), ValidateSource(i), ProgramStep(i)>>,
          Result(i, Nil))

PrepareAnswer(i) ==
  Outcome(<<ValidateSource(i), ParseOptions(ForPrepare(i)), EnvironmentStep(i),
            CheckContract(i, ForPrepare(i)), ProgramStep(i)>>, OK("id"))

\* That of a program which was prepared before.
ProgramAnswer(i) ==
  Outcome(<<ParseOptions(ForEvaluation(i)), CheckDeadline(i), FoundStep, DecodeVariablesStep(i.wire)>>,
          Result(i, i.expected))

\* The depth check of the SDK, and the answer to a value that it sends.
InSdk(value) == Step("encode", IF Deeper(value, MaxSdkDepth - 1) THEN "invalid_request" ELSE Passed)

EchoAnswer(value) ==
  Outcome(<<InSdk(value), DecodeVariablesStep(Resent(value))>>,
          EvalProgram("x", DecodeVariables(Resent(value)).body, Nil))

\* Every answer is that of its operation on cold caches.
AnswersKnown ==
  /\ "validate" \in DOMAIN answers => answers["validate"] = ValidateAnswer(input)
  /\ "evaluate" \in DOMAIN answers => answers["evaluate"] = EvaluateAnswer(input)
  /\ "many" \in DOMAIN answers => answers["many"] = ManyAnswer(input)
  /\ "prepare" \in DOMAIN answers => answers["prepare"] = PrepareAnswer(input)
  /\ "program" \in DOMAIN answers =>
       answers["program"] \in {ProgramAnswer(input), Fail("program_not_found")}
  /\ "echo" \in DOMAIN answers =>
       /\ "evaluate" \in DOMAIN answers /\ answers["evaluate"].ok
       /\ answers["echo"] = EchoAnswer(answers["evaluate"].body)

\* A program that can be evaluated, or was, has been prepared.
PreparedFirst ==
  LET done == "prepare" \in DOMAIN answers /\ answers["prepare"].ok
  IN /\ prepared # NotPrepared => done
     /\ "program" \in DOMAIN answers /\ answers["program"].ok => done

IInv == input \in Inputs /\ TypeOK /\ AnswersKnown /\ PreparedFirst

\* A source has a value, or evalProgram fails with one of two codes.
LEMMA EvalIs ==
  ASSUME NEW source, NEW variables
  PROVE  \/ \E r : Eval(source, variables) = OK(r)
         \/ \E c : Eval(source, variables) = Fail(c) /\ c \in {"evaluation_error", "missing_variable"}
<1>1. CASE source = "1/0"
  BY <1>1 DEF Eval
<1>2. CASE source = "{}"
  BY <1>2 DEF Eval
<1>3. CASE source \notin {"1/0", "{}"} /\ "x" \notin DOMAIN variables
  <2>1. Eval(source, variables) = Fail("missing_variable")
    BY <1>3 DEF Eval
  <2> QED BY <2>1
<1>4. CASE source \notin {"1/0", "{}"} /\ "x" \in DOMAIN variables
  <2>1. Eval(source, variables) \in {OK(ListValue(<<ListValue(<<variables["x"]>>)>>)),
                                    OK(Value(Unnamed, variables["x"].kind)), OK(variables["x"])}
    BY <1>4 DEF Eval
  <2> QED BY <2>1
<1> QED BY <1>1, <1>2, <1>3, <1>4

\* An answer is a result or the code of a failure.
LEMMA OutcomeType ==
  /\ \A i : ValidateAnswer(i).ok \in BOOLEAN /\ EvaluateAnswer(i).ok \in BOOLEAN
  /\ \A i : ManyAnswer(i).ok \in BOOLEAN /\ PrepareAnswer(i).ok \in BOOLEAN
  /\ \A i : ProgramAnswer(i).ok \in BOOLEAN
  /\ \A value : EchoAnswer(value).ok \in BOOLEAN
<1>1. \A s, r : r.ok \in BOOLEAN => Outcome(s, r).ok \in BOOLEAN
  BY DEF Outcome, Fail
<1>2. ASSUME NEW source, NEW variables, NEW expected
      PROVE  EvalProgram(source, variables, expected).ok \in BOOLEAN
  <2>1. \A r : OK(r).ok \in BOOLEAN /\ Fail(r).ok \in BOOLEAN
    BY DEF OK, Fail
  <2>2. Eval(source, variables).ok \in BOOLEAN
    BY <2>1, EvalIs
  <2> QED BY <2>1, <2>2 DEF EvalProgram
<1>3. \A r : OK(r).ok \in BOOLEAN
  BY DEF OK
<1> QED BY <1>1, <1>2, <1>3
        DEF ValidateAnswer, EvaluateAnswer, ManyAnswer, PrepareAnswer, ProgramAnswer, EchoAnswer, Result

\* What an operation reached passed, and so did what it reached before.
LEMMA ReachedPassed ==
  ASSUME NEW steps, NEW len \in Nat, Len(steps) = len, DOMAIN steps = 1..len, NEW name \in Reached(steps)
  PROVE  \E n \in 1..len : /\ steps[n].name = name /\ steps[n].code = Passed
                           /\ \A m \in 1..len : m < n => steps[m].name \in Reached(steps)
<1>1. Passing(steps) \in 0..len /\ \A n \in 1..Passing(steps) : steps[n].code = Passed
  BY StepsPassed
<1>2. PICK n \in 1..Passing(steps) : steps[n].name = name
  BY DEF Reached
<1>3. \A m \in 1..len : m < n => steps[m].name \in Reached(steps)
  BY <1>1, <1>2 DEF Reached
<1> QED BY <1>1, <1>2, <1>3

\* The step of an action that is the same for every operation.
LEMMA AnswerIs ==
  ASSUME NEW op, NEW steps, NEW result, Answer(op, steps, result)
  PROVE  /\ op \notin DOMAIN answers /\ DOMAIN answers' = DOMAIN answers \cup {op}
         /\ answers'[op] = Outcome(steps, result)
         /\ \A o \in DOMAIN answers : answers'[o] = answers[o]
         /\ cached' = cached \cup (Reached(steps) \cap {"environment", "program"})
         /\ input' = input
BY DEF Answer, Outcome

\* The parts of TypeOK about what is kept.
CachesOK ==
  /\ cached \subseteq {"environment", "program"}
  /\ "environment" \in cached => DecodeEnvironment(input).code = Passed
  /\ "program" \in cached => "environment" \in cached /\ CompileStep(input.source) = Passed

\* A step that a cache spares would have passed.
LEMMA SparedSteps ==
  ASSUME CachesOK
  PROVE  EnvFor(input) = EnvironmentStep(input) /\ GetOrCompile(input) = ProgramStep(input)
BY DEF CachesOK, EnvFor, GetOrCompile, EnvironmentStep, ProgramStep, Step

\* What an operation adds to the caches has passed its steps.
LEMMA CachesKept ==
  ASSUME CachesOK, NEW op, NEW result,
         NEW steps, NEW len \in Nat, Len(steps) = len, DOMAIN steps = 1..len,
         Answer(op, steps, result),
         \A n \in 1..len :
           /\ steps[n].name = "environment" => steps[n].code = DecodeEnvironment(input).code
           /\ steps[n].name = "program" =>
                steps[n].code = CompileStep(input.source) /\ \E m \in 1..len : m < n /\ steps[m].name = "environment"
  PROVE  CachesOK'
<1>1. cached' = cached \cup (Reached(steps) \cap {"environment", "program"}) /\ input' = input
  BY AnswerIs
<1>2. ASSUME "environment" \in Reached(steps) PROVE DecodeEnvironment(input).code = Passed
  BY <1>2, ReachedPassed
<1>3. ASSUME "program" \in Reached(steps)
      PROVE  "environment" \in Reached(steps) /\ CompileStep(input.source) = Passed
  BY <1>3, ReachedPassed
<1> QED BY <1>1, <1>2, <1>3 DEF CachesOK

(***************************************************************************)
(* Each operation preserves the inductive invariant.                       *)
(***************************************************************************)
\* The initial states.
LEMMA InitKnown == Init => IInv
BY DEF Init, IInv, TypeOK, AnswersKnown, PreparedFirst

\* Validate answers as determined and fills no cache.
LEMMA ValidateKeeps ==
  ASSUME IInv, Validate
  PROVE  IInv'
<1>0. CachesOK
  BY DEF IInv, TypeOK, CachesOK
<1>1. PICK s : s = <<ValidateSource(input), ParseOptions(input.expected), DecodeEnvironment(input)>>
  OBVIOUS
<1>2. PICK r : r = OK([valid |-> Valid(input), type |-> ResultType(input)])
  OBVIOUS
<1>3. Answer("validate", s, r)
  BY <1>1, <1>2 DEF Validate, Valid
<1>4. /\ "validate" \notin DOMAIN answers /\ DOMAIN answers' = DOMAIN answers \cup {"validate"}
      /\ answers'["validate"] = Outcome(s, r)
      /\ \A o \in DOMAIN answers : answers'[o] = answers[o]
      /\ input' = input
      /\ cached' = cached \cup (Reached(s) \cap {"environment", "program"})
  BY <1>3, AnswerIs
<1>5. Outcome(s, r) = ValidateAnswer(input)
  BY <1>0, <1>1, <1>2, SparedSteps DEF ValidateAnswer, Valid
<1>6. Outcome(s, r).ok \in BOOLEAN
  BY <1>5, OutcomeType
<1>7. CachesOK'
  <2>1. PICK len \in Nat : len = 3
    OBVIOUS
  <2>2. Len(s) = len /\ DOMAIN s = 1..len
    BY <1>1, <2>1 DEF Step
  <2>3. s[1].name = "source" /\ s[2].name = "options" /\ s[3].name = "decode environment"
    BY <1>1 DEF ValidateSource, ParseOptions, DecodeEnvironment, Step
  <2>4. \A n \in 1..len : n = 1 \/ n = 2 \/ n = 3
    BY <2>1
  <2> QED BY <1>0, <1>3, <2>2, <2>3, <2>4, CachesKept
<1>8. prepared' = prepared
  BY DEF Validate
<1>9. prepared' # NotPrepared => "program" \in cached' /\ prepared' = AtPrepare'
  BY <1>4, <1>8 DEF IInv, TypeOK, AtPrepare
<1>10. TypeOK'
  BY <1>4, <1>5, <1>6, <1>7, <1>9 DEF IInv, TypeOK, CachesOK, Operations
<1>11. AnswersKnown'
  BY <1>4, <1>5 DEF IInv, AnswersKnown
<1>12. PreparedFirst'
  BY <1>4, <1>8 DEF IInv, PreparedFirst
<1> QED BY <1>4, <1>10, <1>11, <1>12 DEF IInv

\* Evaluate answers the same from either cache, and fills them with what passed.
LEMMA EvaluateKeeps ==
  ASSUME IInv, Evaluate
  PROVE  IInv'
<1>0. CachesOK
  BY DEF IInv, TypeOK, CachesOK
<1>1. PICK s : s = EvaluateSteps(input.expected)
  OBVIOUS
<1>2. PICK r : r = Result(input, input.expected)
  OBVIOUS
<1>3. Answer("evaluate", s, r)
  BY <1>1, <1>2 DEF Evaluate, EvaluateSteps, Result
<1>4. /\ "evaluate" \notin DOMAIN answers /\ DOMAIN answers' = DOMAIN answers \cup {"evaluate"}
      /\ answers'["evaluate"] = Outcome(s, r)
      /\ \A o \in DOMAIN answers : answers'[o] = answers[o]
      /\ input' = input
      /\ cached' = cached \cup (Reached(s) \cap {"environment", "program"})
  BY <1>3, AnswerIs
<1>5. Outcome(s, r) = EvaluateAnswer(input)
  BY <1>0, <1>1, <1>2, SparedSteps DEF EvaluateAnswer, EvaluateSteps, Result
<1>6. Outcome(s, r).ok \in BOOLEAN
  BY <1>5, OutcomeType
<1>7. CachesOK'
  <2>1. PICK len \in Nat : len = 7
    OBVIOUS
  <2>2. Len(s) = len /\ DOMAIN s = 1..len
    BY <1>1, <2>1 DEF EvaluateSteps
  <2>3. \A n \in 1..len :
           /\ s[n].name = "environment" => s[n].code = DecodeEnvironment(input).code
           /\ s[n].name = "program" =>
                s[n].code = CompileStep(input.source) /\ \E m \in 1..len : m < n /\ s[m].name = "environment"
    BY <1>0, <1>1, <2>1, SparedSteps
       DEF EvaluateSteps, ValidateSource, ParseOptions, CheckDeadline, DecodeEnvironment, EnvironmentStep, CheckContract,
           DecodeVariablesStep, ProgramStep, Step
  <2> QED BY <1>0, <1>3, <2>2, <2>3, CachesKept
<1>8. prepared' = prepared
  BY DEF Evaluate
<1>9. prepared' # NotPrepared => "program" \in cached' /\ prepared' = AtPrepare'
  BY <1>4, <1>8 DEF IInv, TypeOK, AtPrepare
<1>10. TypeOK'
  BY <1>4, <1>5, <1>6, <1>7, <1>9 DEF IInv, TypeOK, CachesOK, Operations
<1>11. AnswersKnown'
  BY <1>4, <1>5 DEF IInv, AnswersKnown
<1>12. PreparedFirst'
  BY <1>4, <1>8 DEF IInv, PreparedFirst
<1> QED BY <1>4, <1>10, <1>11, <1>12 DEF IInv

\* So does EvaluateMany.
LEMMA EvaluateManyKeeps ==
  ASSUME IInv, EvaluateMany
  PROVE  IInv'
<1>0. CachesOK
  BY DEF IInv, TypeOK, CachesOK
<1>1. PICK s : s = <<EnvFor(input), DecodeVariablesStep(input.wire), ValidateSource(input), GetOrCompile(input)>>
  OBVIOUS
<1>2. PICK r : r = Result(input, Nil)
  OBVIOUS
<1>3. Answer("many", s, r)
  BY <1>1, <1>2 DEF EvaluateMany, Result
<1>4. /\ "many" \notin DOMAIN answers /\ DOMAIN answers' = DOMAIN answers \cup {"many"}
      /\ answers'["many"] = Outcome(s, r)
      /\ \A o \in DOMAIN answers : answers'[o] = answers[o]
      /\ input' = input
      /\ cached' = cached \cup (Reached(s) \cap {"environment", "program"})
  BY <1>3, AnswerIs
<1>5. Outcome(s, r) = ManyAnswer(input)
  BY <1>0, <1>1, <1>2, SparedSteps DEF ManyAnswer, Result
<1>6. Outcome(s, r).ok \in BOOLEAN
  BY <1>5, OutcomeType
<1>7. CachesOK'
  <2>1. PICK len \in Nat : len = 4
    OBVIOUS
  <2>2. Len(s) = len /\ DOMAIN s = 1..len
    BY <1>1, <2>1 DEF Step
  <2>3. \A n \in 1..len :
           /\ s[n].name = "environment" => s[n].code = DecodeEnvironment(input).code
           /\ s[n].name = "program" =>
                s[n].code = CompileStep(input.source) /\ \E m \in 1..len : m < n /\ s[m].name = "environment"
    BY <1>0, <1>1, <2>1, SparedSteps
       DEF ValidateSource, ParseOptions, CheckDeadline, DecodeEnvironment, EnvironmentStep, CheckContract,
           DecodeVariablesStep, ProgramStep, Step
  <2> QED BY <1>0, <1>3, <2>2, <2>3, CachesKept
<1>8. prepared' = prepared
  BY DEF EvaluateMany
<1>9. prepared' # NotPrepared => "program" \in cached' /\ prepared' = AtPrepare'
  BY <1>4, <1>8 DEF IInv, TypeOK, AtPrepare
<1>10. TypeOK'
  BY <1>4, <1>5, <1>6, <1>7, <1>9 DEF IInv, TypeOK, CachesOK, Operations
<1>11. AnswersKnown'
  BY <1>4, <1>5 DEF IInv, AnswersKnown
<1>12. PreparedFirst'
  BY <1>4, <1>8 DEF IInv, PreparedFirst
<1> QED BY <1>4, <1>10, <1>11, <1>12 DEF IInv

\* So does Prepare; what it keeps is the type it was given, if it succeeds.
LEMMA PrepareKeeps ==
  ASSUME IInv, Prepare
  PROVE  IInv'
<1>0. CachesOK
  BY DEF IInv, TypeOK, CachesOK
<1>1. PICK s : s = <<ValidateSource(input), ParseOptions(AtPrepare), EnvFor(input), CheckContract(input, AtPrepare), GetOrCompile(input)>>
  OBVIOUS
<1>2. PICK r : r = OK("id")
  OBVIOUS
<1>3. Answer("prepare", s, r)
  BY <1>1, <1>2 DEF Prepare, AtPrepare, ForPrepare
<1>4. /\ "prepare" \notin DOMAIN answers /\ DOMAIN answers' = DOMAIN answers \cup {"prepare"}
      /\ answers'["prepare"] = Outcome(s, r)
      /\ \A o \in DOMAIN answers : answers'[o] = answers[o]
      /\ input' = input
      /\ cached' = cached \cup (Reached(s) \cap {"environment", "program"})
  BY <1>3, AnswerIs
<1>5. Outcome(s, r) = PrepareAnswer(input)
  BY <1>0, <1>1, <1>2, SparedSteps DEF PrepareAnswer, AtPrepare, ForPrepare
<1>6. Outcome(s, r).ok \in BOOLEAN
  BY <1>5, OutcomeType
<1>7. CachesOK'
  <2>1. PICK len \in Nat : len = 5
    OBVIOUS
  <2>2. Len(s) = len /\ DOMAIN s = 1..len
    BY <1>1, <2>1 DEF Step
  <2>3. \A n \in 1..len :
           /\ s[n].name = "environment" => s[n].code = DecodeEnvironment(input).code
           /\ s[n].name = "program" =>
                s[n].code = CompileStep(input.source) /\ \E m \in 1..len : m < n /\ s[m].name = "environment"
    BY <1>0, <1>1, <2>1, SparedSteps
       DEF ValidateSource, ParseOptions, CheckDeadline, DecodeEnvironment, EnvironmentStep, CheckContract,
           DecodeVariablesStep, ProgramStep, Step
  <2> QED BY <1>0, <1>3, <2>2, <2>3, CachesKept
<1>8. Answered(s) => "program" \in cached'
  <2>1. Len(s) = 5 /\ s[5].name = "program"
    BY <1>1 DEF GetOrCompile, Step
  <2> QED BY <1>4, <2>1 DEF Answered, Reached
<1>9. prepared' # NotPrepared => "program" \in cached' /\ prepared' = AtPrepare'
  <2>1. prepared' = IF Answered(s) THEN AtPrepare ELSE NotPrepared
    BY <1>1 DEF Prepare
  <2> QED BY <1>4, <1>8, <2>1 DEF AtPrepare
<1>10. TypeOK'
  BY <1>4, <1>5, <1>6, <1>7, <1>9 DEF IInv, TypeOK, CachesOK, Operations
<1>11. AnswersKnown'
  BY <1>4, <1>5 DEF IInv, AnswersKnown
<1>12. PreparedFirst'
  <2>1. Answered(s) => Outcome(s, r).ok
    BY <1>2 DEF Outcome, OK
  <2>2. prepared' # NotPrepared => Answered(s)
    BY <1>1 DEF Prepare
  <2> QED BY <1>4, <2>1, <2>2 DEF IInv, PreparedFirst
<1> QED BY <1>4, <1>10, <1>11, <1>12 DEF IInv

\* EvaluateProgram finds the type of the prepared program, or no program.
LEMMA EvaluateProgramKeeps ==
  ASSUME IInv, EvaluateProgram
  PROVE  IInv'
<1>0. CachesOK
  BY DEF IInv, TypeOK, CachesOK
<1>1. PICK s : s = <<ParseOptions(AtEvaluation), CheckDeadline(input), FindProgram, DecodeVariablesStep(input.wire)>>
  OBVIOUS
<1>2. PICK r : r = Result(input, IF AtEvaluation # Nil THEN AtEvaluation ELSE prepared)
  OBVIOUS
<1>3. Answer("program", s, r)
  BY <1>1, <1>2 DEF EvaluateProgram, Result
<1>4. /\ "program" \notin DOMAIN answers /\ DOMAIN answers' = DOMAIN answers \cup {"program"}
      /\ answers'["program"] = Outcome(s, r)
      /\ \A o \in DOMAIN answers : answers'[o] = answers[o]
      /\ input' = input
      /\ cached' = cached \cup (Reached(s) \cap {"environment", "program"})
  BY <1>3, AnswerIs
<1>5. AtEvaluation = ForEvaluation(input)
  BY DEF AtEvaluation, ForEvaluation
<1>8. Outcome(s, r) \in {ProgramAnswer(input), Fail("program_not_found")}
  <2>1. CASE prepared = NotPrepared
    <3>1. FindProgram.code = "program_not_found" /\ FindProgram.code # Passed
      BY <2>1 DEF FindProgram, Step, Passed
    <3> QED BY <1>1, <1>5, <3>1, OutcomeOf4 DEF ProgramAnswer
  <2>2. CASE prepared # NotPrepared
    <3>1. FindProgram = FoundStep
      BY <2>2 DEF FindProgram, FoundStep
    <3>2. r = Result(input, input.expected)
      <4>1. input.contract \in {"prepare", "evaluation"} /\ prepared = AtPrepare
        BY <2>2, InputsAssumption DEF IInv, TypeOK
      <4>2. (IF AtEvaluation # Nil THEN AtEvaluation ELSE prepared) = input.expected
        BY <4>1 DEF AtEvaluation, AtPrepare
      <4> QED BY <1>2, <4>2
    <3> QED BY <1>1, <1>5, <3>1, <3>2 DEF ProgramAnswer
  <2> QED BY <2>1, <2>2
<1>9. Outcome(s, r).ok \in BOOLEAN
  <2>1. Fail("program_not_found").ok \in BOOLEAN
    BY DEF Fail
  <2> QED BY <1>8, <2>1, OutcomeType
<1>10. CachesOK'
  <2>1. PICK len \in Nat : len = 4
    OBVIOUS
  <2>2. Len(s) = len /\ DOMAIN s = 1..len
    BY <1>1, <2>1
  <2>3. s[1].name = "options" /\ s[2].name = "deadline" /\ s[3].name = "find" /\ s[4].name = "variables"
    BY <1>1 DEF ParseOptions, CheckDeadline, FindProgram, DecodeVariablesStep, Step
  <2>4. \A n \in 1..len : n = 1 \/ n = 2 \/ n = 3 \/ n = 4
    BY <2>1
  <2> QED BY <1>0, <1>3, <2>2, <2>3, <2>4, CachesKept
<1>11. prepared' = prepared
  BY DEF EvaluateProgram
<1>12. TypeOK'
  BY <1>4, <1>9, <1>10, <1>11 DEF IInv, TypeOK, CachesOK, Operations, AtPrepare
<1>13. AnswersKnown'
  BY <1>4, <1>8 DEF IInv, AnswersKnown
<1>14. PreparedFirst'
  <2>1. prepared = NotPrepared => ~Outcome(s, r).ok
    <3>1. ASSUME prepared = NotPrepared PROVE ~Outcome(s, r).ok
      <4>1. FindProgram.code # Passed
        BY <3>1 DEF FindProgram, Step, Passed
      <4>2. \E c : Outcome(s, r) = Fail(c)
        BY <1>1, <4>1, OutcomeOf4
      <4> QED BY <4>2 DEF Fail
    <3> QED BY <3>1
  <2> QED BY <1>4, <1>11, <2>1 DEF IInv, PreparedFirst
<1> QED BY <1>4, <1>12, <1>13, <1>14 DEF IInv

\* An answer is sent back only once there is one.
LEMMA EchoKeeps ==
  ASSUME IInv, Echo
  PROVE  IInv'
<1>0. CachesOK
  BY DEF IInv, TypeOK, CachesOK
<1>1. PICK value : value = answers["evaluate"].body
  OBVIOUS
<1>2. PICK s : s = <<InSdk(value), DecodeVariablesStep(Resent(value))>>
  OBVIOUS
<1>3. PICK r : r = EvalProgram("x", DecodeVariables(Resent(value)).body, Nil)
  OBVIOUS
<1>4. "evaluate" \in DOMAIN answers /\ answers["evaluate"].ok /\ Answer("echo", s, r)
  BY <1>1, <1>2, <1>3 DEF Echo, InSdk
<1>5. /\ "echo" \notin DOMAIN answers /\ DOMAIN answers' = DOMAIN answers \cup {"echo"}
      /\ answers'["echo"] = Outcome(s, r)
      /\ \A o \in DOMAIN answers : answers'[o] = answers[o]
      /\ input' = input
      /\ cached' = cached \cup (Reached(s) \cap {"environment", "program"})
  BY <1>4, AnswerIs
<1>6. Outcome(s, r) = EchoAnswer(value)
  BY <1>2, <1>3 DEF EchoAnswer
<1>7. Outcome(s, r).ok \in BOOLEAN
  BY <1>6, OutcomeType
<1>8. CachesOK'
  <2>1. PICK len \in Nat : len = 2
    OBVIOUS
  <2>2. Len(s) = len /\ DOMAIN s = 1..len
    BY <1>2, <2>1
  <2>3. s[1].name = "encode" /\ s[2].name = "variables"
    BY <1>2 DEF InSdk, DecodeVariablesStep, Step
  <2>4. \A n \in 1..len : n = 1 \/ n = 2
    BY <2>1
  <2> QED BY <1>0, <1>4, <2>2, <2>3, <2>4, CachesKept
<1>9. prepared' = prepared
  BY DEF Echo
<1>10. TypeOK'
  BY <1>5, <1>7, <1>8, <1>9 DEF IInv, TypeOK, CachesOK, Operations, AtPrepare
<1>11. AnswersKnown'
  BY <1>1, <1>4, <1>5, <1>6 DEF IInv, AnswersKnown
<1>12. PreparedFirst'
  BY <1>5, <1>9 DEF IInv, PreparedFirst
<1> QED BY <1>5, <1>10, <1>11, <1>12 DEF IInv

\* No operation makes IInv false.
LEMMA IInvInductive == IInv /\ [Next]_vars => IInv'
<1>1. SUFFICES ASSUME IInv, [Next]_vars PROVE IInv'
  OBVIOUS
<1>2. CASE UNCHANGED vars
  BY <1>1, <1>2 DEF vars, IInv, TypeOK, AnswersKnown, PreparedFirst, AtPrepare
<1>3. CASE Next
  BY <1>1, <1>3, ValidateKeeps, EvaluateKeeps, EvaluateManyKeeps, PrepareKeeps, EvaluateProgramKeeps, EchoKeeps DEF Next
<1> QED BY <1>1, <1>2, <1>3

\* In every reachable state every answer is the one that the input determines,
\* whichever operations came before and whatever they left in the caches.
THEOREM AnswersDetermined == Spec => []IInv
BY InitKnown, IInvInductive, PTL DEF Spec

\* Nothing invalid is kept for later calls: what is in the caches and in the
\* store of prepared programs has passed the steps before it (envFor, getOrCompile).
THEOREM TypeCorrect == Spec => []TypeOK
<1>1. IInv => TypeOK
  BY DEF IInv
<1> QED BY <1>1, AnswersDetermined, PTL

(***************************************************************************)
(* Answers, step by step.                                                  *)
(***************************************************************************)
\* The answers as the order of their steps decides them.
LEMMA EvaluateAnswerIs ==
  ASSUME NEW i
  PROVE  EvaluateAnswer(i) =
           IF ParseOptions(i.expected).code # Passed THEN Fail(ParseOptions(i.expected).code)
           ELSE IF CheckDeadline(i).code # Passed THEN Fail(CheckDeadline(i).code)
           ELSE IF ValidateSource(i).code # Passed THEN Fail(ValidateSource(i).code)
           ELSE IF DecodeEnvironment(i).code # Passed THEN Fail(DecodeEnvironment(i).code)
           ELSE IF CheckContract(i, i.expected).code # Passed THEN Fail(CheckContract(i, i.expected).code)
           ELSE IF DecodeVariablesStep(i.wire).code # Passed THEN Fail(DecodeVariablesStep(i.wire).code)
           ELSE IF CompileStep(i.source) # Passed THEN Fail(CompileStep(i.source))
           ELSE Result(i, i.expected)
<1>1. EnvironmentStep(i).code = DecodeEnvironment(i).code /\ ProgramStep(i).code = CompileStep(i.source)
  BY DEF EnvironmentStep, ProgramStep, Step
<1> QED BY <1>1, OutcomeOf7 DEF EvaluateAnswer

\* What EvaluateProgram answers for a prepared program.
LEMMA ProgramAnswerIs ==
  ASSUME NEW i
  PROVE  ProgramAnswer(i) =
           IF ParseOptions(ForEvaluation(i)).code # Passed THEN Fail(ParseOptions(ForEvaluation(i)).code)
           ELSE IF CheckDeadline(i).code # Passed THEN Fail(CheckDeadline(i).code)
           ELSE IF DecodeVariablesStep(i.wire).code # Passed THEN Fail(DecodeVariablesStep(i.wire).code)
           ELSE Result(i, i.expected)
<1>1. FoundStep.code = Passed
  BY DEF FoundStep, Step
<1> QED BY <1>1, OutcomeOf4 DEF ProgramAnswer

\* What EvaluateMany answers for its source.
LEMMA ManyAnswerIs ==
  ASSUME NEW i
  PROVE  ManyAnswer(i) =
           IF DecodeEnvironment(i).code # Passed THEN Fail(DecodeEnvironment(i).code)
           ELSE IF DecodeVariablesStep(i.wire).code # Passed THEN Fail(DecodeVariablesStep(i.wire).code)
           ELSE IF ValidateSource(i).code # Passed THEN Fail(ValidateSource(i).code)
           ELSE IF CompileStep(i.source) # Passed THEN Fail(CompileStep(i.source))
           ELSE Result(i, Nil)
<1>1. EnvironmentStep(i).code = DecodeEnvironment(i).code /\ ProgramStep(i).code = CompileStep(i.source)
  BY DEF EnvironmentStep, ProgramStep, Step
<1> QED BY <1>1, OutcomeOf4 DEF ManyAnswer

\* What has passed when Validate succeeds; and Prepare, Evaluate, EvaluateProgram.
LEMMA ValidateGave ==
  ASSUME NEW i, ValidateAnswer(i).ok
  PROVE  /\ ValidateSource(i).code = Passed /\ ParseOptions(i.expected).code = Passed
         /\ DecodeEnvironment(i).code = Passed
         /\ ValidateAnswer(i).body = [valid |-> Valid(i), type |-> ResultType(i)]
<1>1. ~ \E c : ValidateAnswer(i) = Fail(c)
  BY DEF Fail
<1>2. PICK r : r = OK([valid |-> Valid(i), type |-> ResultType(i)])
  OBVIOUS
<1>3. ValidateAnswer(i) = Outcome(<<ValidateSource(i), ParseOptions(i.expected), DecodeEnvironment(i)>>, r)
  BY <1>2 DEF ValidateAnswer
<1>4. /\ ValidateSource(i).code = Passed /\ ParseOptions(i.expected).code = Passed
      /\ DecodeEnvironment(i).code = Passed /\ ValidateAnswer(i) = r
  BY <1>1, <1>3, OutcomeOf3
<1> QED BY <1>2, <1>4 DEF OK

\* The same for Prepare.
LEMMA PrepareGave ==
  ASSUME NEW i, PrepareAnswer(i).ok
  PROVE  /\ ValidateSource(i).code = Passed /\ ParseOptions(ForPrepare(i)).code = Passed
         /\ DecodeEnvironment(i).code = Passed /\ CheckContract(i, ForPrepare(i)).code = Passed
         /\ CompileStep(i.source) = Passed
<1>1. ~ \E c : PrepareAnswer(i) = Fail(c)
  BY DEF Fail
<1>2. EnvironmentStep(i).code = DecodeEnvironment(i).code /\ ProgramStep(i).code = CompileStep(i.source)
  BY DEF EnvironmentStep, ProgramStep, Step
<1> QED BY <1>1, <1>2, OutcomeOf5 DEF PrepareAnswer

\* The same for Evaluate.
LEMMA EvaluateGave ==
  ASSUME NEW i, EvaluateAnswer(i).ok
  PROVE  /\ ParseOptions(i.expected).code = Passed /\ CheckDeadline(i).code = Passed
         /\ ValidateSource(i).code = Passed /\ DecodeEnvironment(i).code = Passed
         /\ CheckContract(i, i.expected).code = Passed /\ DecodeVariablesStep(i.wire).code = Passed
         /\ CompileStep(i.source) = Passed
         /\ EvaluateAnswer(i) = Result(i, i.expected)
<1>1. ~ \E c : EvaluateAnswer(i) = Fail(c)
  BY DEF Fail
<1> QED BY <1>1, EvaluateAnswerIs

\* The same for EvaluateProgram.
LEMMA ProgramGave ==
  ASSUME NEW i, ProgramAnswer(i).ok
  PROVE  /\ ParseOptions(ForEvaluation(i)).code = Passed /\ DecodeVariablesStep(i.wire).code = Passed
         /\ ProgramAnswer(i) = Result(i, i.expected)
<1>1. ~ \E c : ProgramAnswer(i) = Fail(c)
  BY DEF Fail
<1> QED BY <1>1, ProgramAnswerIs

\* An expected type only turns a value into a failure.
LEMMA ExpectationKeepsValue ==
  ASSUME NEW i, NEW expected
  PROVE  /\ Result(i, expected).ok => Result(i, Nil) = Result(i, expected)
         /\ Result(i, Nil).ok => Result(i, expected) \in {Result(i, Nil), Fail("result_type_mismatch")}
<1>1. ~Fail("result_type_mismatch").ok
  BY DEF Fail
<1> QED BY <1>1 DEF Result, EvalProgram

\* A prepared program gives the answer that its source gives.
LEMMA PreparedAgrees ==
  ASSUME NEW i \in Inputs, PrepareAnswer(i).ok
  PROVE  \/ ProgramAnswer(i) = EvaluateAnswer(i)
         \/ /\ i.contract = "evaluation"
            /\ EvaluateAnswer(i) = Fail("result_type_mismatch")
<1>1. /\ ValidateSource(i).code = Passed /\ ParseOptions(ForPrepare(i)).code = Passed
      /\ DecodeEnvironment(i).code = Passed /\ CheckContract(i, ForPrepare(i)).code = Passed
      /\ CompileStep(i.source) = Passed
  BY PrepareGave
<1>2. i.contract \in {"prepare", "evaluation"}
  BY InputsAssumption
<1>3. \A e : CheckContract(i, e).code \in {Passed, "result_type_mismatch"}
  BY <1>1 DEF CheckContract, Step
<1>4. ParseOptions(Nil).code = Passed
  BY DEF ParseOptions, Step
<1>5. CASE i.contract = "prepare"
  <2>1. ForPrepare(i) = i.expected /\ ForEvaluation(i) = Nil
    BY <1>5 DEF ForPrepare, ForEvaluation
  <2> QED BY <1>1, <1>4, <2>1, EvaluateAnswerIs, ProgramAnswerIs
<1>6. CASE i.contract = "evaluation"
  <2>1. ForEvaluation(i) = i.expected
    BY <1>6 DEF ForEvaluation
  <2> QED BY <1>1, <1>3, <1>6, <2>1, EvaluateAnswerIs, ProgramAnswerIs
<1> QED BY <1>2, <1>5, <1>6

\* One of many sources gives the answer that it gives alone.
LEMMA ManyAgrees ==
  ASSUME NEW i \in Inputs, ~i.expired
  PROVE  IF EvaluateAnswer(i).ok THEN ManyAnswer(i) = EvaluateAnswer(i)
         ELSE ManyAnswer(i).ok => i.expected # Nil
<1>1. CASE EvaluateAnswer(i).ok
  <2>1. /\ ValidateSource(i).code = Passed /\ DecodeEnvironment(i).code = Passed
        /\ DecodeVariablesStep(i.wire).code = Passed /\ CompileStep(i.source) = Passed
        /\ EvaluateAnswer(i) = Result(i, i.expected)
    BY <1>1, EvaluateGave
  <2>2. ManyAnswer(i) = Result(i, Nil)
    BY <2>1, ManyAnswerIs
  <2>3. Result(i, Nil) = Result(i, i.expected)
    BY <1>1, <2>1, ExpectationKeepsValue
  <2> QED BY <1>1, <2>1, <2>2, <2>3
<1>2. CASE ~EvaluateAnswer(i).ok /\ ManyAnswer(i).ok /\ i.expected = Nil
  <2>1. ~ \E c : ManyAnswer(i) = Fail(c)
    BY <1>2 DEF Fail
  <2>2. /\ ValidateSource(i).code = Passed /\ DecodeEnvironment(i).code = Passed
        /\ DecodeVariablesStep(i.wire).code = Passed /\ CompileStep(i.source) = Passed
        /\ ManyAnswer(i) = Result(i, Nil)
    BY <2>1, ManyAnswerIs
  <2>3. ParseOptions(i.expected).code = Passed /\ CheckContract(i, i.expected).code = Passed
        /\ CheckDeadline(i).code = Passed
    BY <1>2 DEF ParseOptions, CheckContract, CheckDeadline, Step
  <2>4. EvaluateAnswer(i) = Result(i, Nil)
    BY <1>2, <2>2, <2>3, EvaluateAnswerIs
  <2> QED BY <1>2, <2>2, <2>4
<1> QED BY <1>1, <1>2

\* Evaluated, prepared and evaluated, or one of many, a source has one value
\* (Evaluate, Prepare, EvaluateProgram and EvaluateMany, whichever comes first).
THEOREM RoutesAgreeAlways == Spec => []RoutesAgree
<1>1. ASSUME IInv PROVE RoutesAgree
  <2>0. input \in Inputs
    BY <1>1 DEF IInv
  <2>1. ASSUME Gave("prepare"), Both("program", "evaluate"), ~Failed("program", {"program_not_found"})
        PROVE  \/ answers["program"] = answers["evaluate"]
               \/ input.contract = "evaluation" /\ Failed("evaluate", {"result_type_mismatch"})
    <3>1. answers["prepare"] = PrepareAnswer(input) /\ PrepareAnswer(input).ok
      BY <1>1, <2>1 DEF IInv, AnswersKnown, Gave
    <3>2. /\ "program" \in DOMAIN answers /\ "evaluate" \in DOMAIN answers
          /\ answers["evaluate"] = EvaluateAnswer(input)
      BY <1>1, <2>1 DEF IInv, AnswersKnown, Both
    <3>3. answers["program"] # Fail("program_not_found")
      BY <2>1, <3>2 DEF Failed, Fail
    <3>4. answers["program"] = ProgramAnswer(input)
      BY <1>1, <3>2, <3>3 DEF IInv, AnswersKnown
    <3>5. answers["evaluate"] = Fail("result_type_mismatch") => Failed("evaluate", {"result_type_mismatch"})
      BY <3>2 DEF Failed, Fail
    <3> QED BY <2>0, <3>1, <3>2, <3>4, <3>5, PreparedAgrees
  <2>2. ASSUME Both("many", "evaluate"), ~input.expired
        PROVE  IF Gave("evaluate") THEN answers["many"] = answers["evaluate"]
               ELSE Gave("many") => input.expected # Nil
    <3>1. /\ "many" \in DOMAIN answers /\ "evaluate" \in DOMAIN answers
          /\ answers["many"] = ManyAnswer(input) /\ answers["evaluate"] = EvaluateAnswer(input)
      BY <1>1, <2>2 DEF IInv, AnswersKnown, Both
    <3> QED BY <2>0, <2>2, <3>1, ManyAgrees DEF Gave
  <2> QED BY <2>1, <2>2 DEF RoutesAgree
<1> QED BY <1>1, AnswersDetermined, PTL

(***************************************************************************)
(* Evaluation: what it makes of the variables that a request decodes to.   *)
(***************************************************************************)
\* The variables that a request's JSON decodes to.
LEMMA DecodedVariables ==
  ASSUME NEW j, IsJson(j), DecodeVariables(j).ok
  PROVE  /\ DecodeVariables(j) = OK([n \in DOMAIN j.parts |-> DecodeInput(j.parts[n])])
         /\ \A n \in DOMAIN j.parts : IsValue(DecodeInput(j.parts[n]))
<1>0. MaxNesting \in Nat /\ MaxValueDepth \in Nat /\ MaxValueDepth <= MaxNesting
  BY NestingAssumption, CodecAssumption
<1>1. \A c, r : Fail(c).ok = FALSE /\ OK(r).body = r
  BY DEF Fail, OK
<1>2. /\ ~Deeper(j, MaxValueDepth) /\ j.json = "object" /\ Marker \notin DOMAIN j.parts
      /\ DecodeInput(j) # Refused
      /\ DecodeVariables(j) = OK([n \in DOMAIN j.parts |-> DecodeInput(j.parts[n])])
  BY <1>1 DEF DecodeVariables
<1>3. ~Deeper(j, MaxNesting)
  BY <1>0, <1>2, DepthIsALimit
<1>4. ASSUME NEW n \in DOMAIN j.parts PROVE IsValue(DecodeInput(j.parts[n]))
  <2>1. PICK g : g = [k \in Below(j) |-> DecodeInput(k)]
    OBVIOUS
  <2>2. DecodeInput(j) = DecodeInputBody(g, j)
    BY <1>3, <2>1, DecodeInputUnfolds
  <2>3. DecodeInputBody(g, j) = DecodeObject(j.parts, g)
    BY <1>2 DEF DecodeInputBody
  <2>4. g[j.parts[n]] # Refused
    BY <1>2, <2>2, <2>3 DEF DecodeObject
  <2>5. g[j.parts[n]] = DecodeInput(j.parts[n])
    BY <2>1, PartsAreBelow
  <2>6. ~Deeper(j.parts[n], MaxNesting) /\ Nodes(j.parts[n]) \subseteq Nodes(j)
    BY <1>3, NodesGrown, PartsAreBelow
  <2>7. IsJson(j.parts[n])
    BY <2>6 DEF IsJson
  <2> QED BY <2>4, <2>5, <2>6, <2>7, Decodes DEF DecodesTo
<1> QED BY <1>2, <1>4

\* What a value is evaluated to, before it is encoded and compared.
LEMMA Evaluates ==
  ASSUME NEW source, NEW variables, \A n \in DOMAIN variables : IsValue(variables[n]),
         NEW v, Eval(source, variables) = OK(v), v.kind # Unnamed, ~Deeper(v, MaxNesting)
  PROVE  IsValue(v)
<1>1. \A c, r : Fail(c).ok = FALSE /\ OK(r).ok = TRUE /\ OK(r).body = r
  BY DEF Fail, OK
<1>3. PICK x : x = variables["x"]
  OBVIOUS
<1>4. source # "1/0"
  BY <1>1 DEF Eval
<1>5. CASE source = "{}"
  <2>1. v = MapValue(<<>>)
    BY <1>1, <1>5 DEF Eval
  <2>a. \A f : MapValue(f).parts = f
    BY DEF MapValue
  <2>b. DOMAIN <<>> = {}
    OBVIOUS
  <2>2. v.parts = <<>> /\ DOMAIN v.parts = {}
    BY <2>1, <2>a, <2>b, Zenon
  <2>3. v.parts = [k \in DOMAIN v.parts |-> v.parts[k]]
    BY <2>2
  <2>4. IsFiniteSet(DOMAIN v.parts)
    BY <2>2, FS_EmptySet
  <2>5. IsNode(v)
    BY <2>1, <2>2, <2>3, <2>4 DEF IsNode
  <2> QED BY <2>2, <2>5, ValueFromParts
<1>6. CASE source # "{}"
  <2>1. "x" \in DOMAIN variables
    BY <1>1, <1>4, <1>6 DEF Eval
  <2>2. IsValue(x)
    BY <1>3, <2>1
  <2>3. CASE source = "[[x]]"
    <3>1. PICK w : w = ListValue(<<x>>)
      OBVIOUS
    <3>2. v = ListValue(<<w>>)
      BY <1>1, <1>3, <1>4, <1>6, <2>1, <2>3, <3>1 DEF Eval
    <3>3. w.parts = <<x>> /\ v.parts = <<w>>
      BY <3>1, <3>2 DEF ListValue
    <3>4. w.parts = [i \in DOMAIN w.parts |-> w.parts[i]] /\ v.parts = [i \in DOMAIN v.parts |-> v.parts[i]]
      BY <3>3
    <3>5. IsNode(w) /\ IsNode(v)
      BY <3>1, <3>2, <3>3, <3>4 DEF IsNode
    <3>6. 1 \in DOMAIN v.parts /\ v.parts[1] = w
      BY <3>3
    <3>7. ~Deeper(w, MaxNesting)
      BY <3>6, NodesGrown, PartsAreBelow
    <3>8. \A i \in DOMAIN w.parts : w.parts[i] = x
      BY <3>3
    <3>9. \A i \in DOMAIN v.parts : v.parts[i] = w
      BY <3>3
    <3>10. IsValue(w)
      BY <2>2, <3>5, <3>7, <3>8, ValueFromParts
    <3> QED BY <3>5, <3>9, <3>10, ValueFromParts
  <2>4. CASE source = "type(x)"
    <3>1. v = Value(Unnamed, x.kind)
      BY <1>1, <1>3, <1>4, <1>6, <2>1, <2>4 DEF Eval
    <3> QED BY <3>1 DEF Value
  <2>5. CASE source # "[[x]]" /\ source # "type(x)"
    <3>1. v = x
      BY <1>1, <1>3, <1>4, <1>6, <2>1, <2>5 DEF Eval
    <3> QED BY <2>2, <3>1
  <2> QED BY <2>3, <2>4, <2>5
<1> QED BY <1>5, <1>6

\* The value of a successful evaluation.
LEMMA EvalProgramIs ==
  ASSUME NEW source, NEW variables, \A n \in DOMAIN variables : IsValue(variables[n]),
         NEW expected, EvalProgram(source, variables, expected).ok
  PROVE  \E v : /\ EvalProgram(source, variables, expected) = OK(v) /\ Eval(source, variables) = OK(v)
                /\ IsValue(v) /\ ~Deeper(v, MaxEncodeDepth)
                /\ expected # Nil => MatchesValue(expected, v)
<1>0. MaxNesting \in Nat /\ MaxEncodeDepth \in Nat /\ MaxEncodeDepth <= MaxNesting
  BY NestingAssumption, CodecAssumption
<1>1. \A c, r : Fail(c).ok = FALSE /\ OK(r).ok = TRUE /\ OK(r).body = r
  BY DEF Fail, OK
<1>2. PICK value : value = Eval(source, variables)
  OBVIOUS
<1>3. PICK encoded : encoded = EncodeValue(value.body)
  OBVIOUS
<1>4. /\ value.ok /\ encoded # Refused /\ (expected # Nil => MatchesValue(expected, encoded))
      /\ EvalProgram(source, variables, expected) = OK(encoded)
  BY <1>1, <1>2, <1>3, Zenon DEF EvalProgram
<1>5. /\ encoded = value.body /\ ~Deeper(encoded, MaxEncodeDepth) /\ encoded.kind \in EncodableKinds
  BY <1>3, <1>4 DEF EncodeValue
<1>6. value = OK(encoded)
  BY <1>1, <1>2, <1>4, <1>5, EvalIs
<1>7. Unnamed \notin EncodableKinds
  BY CodecAssumption DEF EncodableKinds, Unnamed, OtherKinds
<1>8. IsValue(encoded)
  <2>1. ~Deeper(encoded, MaxNesting)
    BY <1>0, <1>5, DepthIsALimit
  <2>2. encoded.kind # Unnamed
    BY <1>5, <1>7
  <2> QED BY <1>2, <1>6, <2>1, <2>2, Evaluates
<1> QED BY <1>2, <1>4, <1>5, <1>6, <1>8

\* The step of the variables passes when they decode.
LEMMA VariablesPassed ==
  ASSUME NEW j
  PROVE  DecodeVariablesStep(j).code = Passed <=> DecodeVariables(j).ok
<1>1. \A c, r : Fail(c).ok = FALSE /\ Fail(c).body = c /\ OK(r).ok = TRUE
  BY DEF Fail, OK
<1>2. \/ DecodeVariables(j) = Fail("invalid_request") \/ DecodeVariables(j) = Fail("internal_error")
      \/ \E r : DecodeVariables(j) = OK(r)
  BY Zenon DEF DecodeVariables
<1>3. "invalid_request" # Passed /\ "internal_error" # Passed
  BY DEF Passed
<1>4. PICK variables : variables = DecodeVariables(j)
  OBVIOUS
<1>5. DecodeVariablesStep(j).code = IF variables.ok THEN Passed ELSE variables.body
  BY <1>4 DEF DecodeVariablesStep, Step
<1> QED BY <1>1, <1>2, <1>3, <1>4, <1>5

\* What an operation evaluates to with the variables of a request.
LEMMA ResultIs ==
  ASSUME NEW i \in Inputs, DecodeVariables(i.wire).ok, NEW expected, Result(i, expected).ok
  PROVE  \E v : /\ Result(i, expected) = OK(v) /\ Eval(i.source, DecodeVariables(i.wire).body) = OK(v)
                /\ IsValue(v) /\ ~Deeper(v, MaxEncodeDepth)
                /\ expected # Nil => MatchesValue(expected, v)
<1>1. IsJson(i.wire)
  BY InputsAssumption
<1>2. PICK variables : variables = DecodeVariables(i.wire).body
  OBVIOUS
<1>3. variables = [n \in DOMAIN i.wire.parts |-> DecodeInput(i.wire.parts[n])]
  BY <1>1, <1>2, DecodedVariables DEF OK
<1>4. \A n \in DOMAIN variables : IsValue(variables[n])
  BY <1>1, <1>3, DecodedVariables
<1>5. Result(i, expected) = EvalProgram(i.source, variables, expected)
  BY <1>2 DEF Result
<1> QED BY <1>2, <1>4, <1>5, EvalProgramIs

\* A result that was held against an expected type inhabits it.
LEMMA ExpectationHolds ==
  ASSUME NEW i \in Inputs, i.expected # Nil, ParseOptions(i.expected).code = Passed,
         DecodeVariablesStep(i.wire).code = Passed, Result(i, i.expected).ok
  PROVE  Inhabits(Result(i, i.expected).body, i.expected)
<1>1. Expectable(i.expected)
  BY DEF ParseOptions, Step, Passed
<1>2. PICK v : Result(i, i.expected) = OK(v) /\ IsValue(v) /\ MatchesValue(i.expected, v)
  BY VariablesPassed, ResultIs
<1>3. Result(i, i.expected).body = v
  BY <1>2 DEF OK
<1> QED BY <1>1, <1>2, <1>3, MatchesInhabit

\* IInv implies ExpectedTypeHolds.
LEMMA ExpectedTypesKnown == IInv => ExpectedTypeHolds
<1> SUFFICES ASSUME IInv, input.expected # Nil, NEW op \in {"evaluate", "program"}, Gave(op)
             PROVE  Inhabits(answers[op].body, input.expected)
  BY DEF ExpectedTypeHolds
<1>0. input \in Inputs /\ op \in DOMAIN answers /\ answers[op].ok
  BY DEF IInv, Gave
<1>1. PICK i : i = input
  OBVIOUS
<1>2. CASE op = "evaluate"
  <2>1. answers[op] = EvaluateAnswer(i)
    BY <1>0, <1>1, <1>2 DEF IInv, AnswersKnown
  <2> QED BY <1>0, <1>1, <2>1, EvaluateGave, ExpectationHolds
<1>3. CASE op = "program"
  <2>1. answers[op] = ProgramAnswer(i)
    BY <1>0, <1>1, <1>3 DEF IInv, AnswersKnown, Fail
  <2>2. PrepareAnswer(i).ok
    BY <1>0, <1>1, <1>3 DEF IInv, AnswersKnown, PreparedFirst
  <2>3. ParseOptions(ForPrepare(i)).code = Passed /\ ParseOptions(ForEvaluation(i)).code = Passed
    BY <1>0, <2>1, <2>2, PrepareGave, ProgramGave
  <2>4. i.expected \in {ForPrepare(i), ForEvaluation(i)}
    BY <1>0, <1>1, InputsAssumption DEF ForPrepare, ForEvaluation
  <2>5. ParseOptions(i.expected).code = Passed
    BY <2>3, <2>4
  <2> QED BY <1>0, <1>1, <2>1, <2>5, ProgramGave, ExpectationHolds
<1> QED BY <1>2, <1>3

\* A value answered under an expected type, by whichever of the three ways to
\* send one, inhabits it in all its depth: ParseOptions, matchesValue.
THEOREM ExpectedTypesHold == Spec => []ExpectedTypeHolds
<1>1. IInv => ExpectedTypeHolds
  BY ExpectedTypesKnown
<1> QED BY <1>1, AnswersDetermined, PTL

(***************************************************************************)
(* The type of a source, and the values it can have.                       *)
(***************************************************************************)
\* A name with nothing nested in it.
LEMMA ScalarType ==
  ASSUME NEW name \in ScalarNames \cup {"dyn"}
  PROVE  Expectable(Scalar(name)) /\ IsType(Scalar(name))
<1>0. MaxNesting \in Nat
  BY NestingAssumption
<1>1. PICK t : t = Scalar(name)
  OBVIOUS
<1>2. t.type = name /\ t.parts = <<>> /\ t = [type |-> t.type, parts |-> t.parts]
  BY <1>1 DEF Scalar
<1>3. DOMAIN t.parts = {} /\ t.parts = [p \in DOMAIN t.parts |-> t.parts[p]]
  BY <1>2
<1>4. Kids(t) = {}
  BY <1>3 DEF Kids, Range
<1>5. ~Deeper(t, MaxNesting)
  BY <1>0, <1>4, DepthOfKids
<1>6. \A u \in Nodes(t) : u = t
  BY <1>4, <1>5, NodesUnfold
<1>7. WellShaped(t)
  BY <1>2, <1>3 DEF WellShaped
<1>8. t = [type |-> t.type, parts |-> [p \in DOMAIN t.parts |-> t.parts[p]]]
  BY <1>2, <1>3
<1> QED BY <1>1, <1>5, <1>6, <1>7, <1>8 DEF Expectable, IsType

\* A well-shaped type may be expected if its parts may.
LEMMA NestedType ==
  ASSUME NEW t, WellShaped(t), t = [type |-> t.type, parts |-> [p \in DOMAIN t.parts |-> t.parts[p]]],
         NEW n \in Nat, n + 1 <= MaxNesting,
         \A p \in DOMAIN t.parts : Expectable(t.parts[p]) /\ IsType(t.parts[p]) /\ ~Deeper(t.parts[p], n)
  PROVE  Expectable(t) /\ IsType(t) /\ ~Deeper(t, n + 1)
<1>0. MaxNesting \in Nat
  BY NestingAssumption
<1>1. ~Deeper(t, n + 1)
  BY DepthFromParts
<1>2. ~Deeper(t, MaxNesting)
  BY <1>0, <1>1, DepthIsALimit
<1>3. \A u \in Nodes(t) : u = t \/ \E p \in DOMAIN t.parts : u \in Nodes(t.parts[p])
  BY <1>2, NodesUnfold DEF Kids, Range
<1> QED BY <1>1, <1>2, <1>3 DEF Expectable, IsType

\* The type of a source that compiles against a declaration which decodes: one
\* that the wire can name and that may be expected.
LEMMA ResultTypeIs ==
  ASSUME NEW i \in Inputs, Declarable(i.declared)
  PROVE  /\ Expectable(ResultType(i))
         /\ i.source = "x" => ResultType(i) = i.declared
         /\ i.source = "[[x]]" => ResultType(i) = ListOf(ListOf(i.declared)) /\ Expectable(ListOf(i.declared))
         /\ i.source = "{}" => ResultType(i) = MapOf(Dyn, Dyn)
         /\ i.source \notin {"x", "[[x]]", "{}", "1/0"} => ResultType(i) = Dyn
<1>0. /\ MaxNesting \in Nat /\ MaxTypeDepth \in Nat /\ MaxTypeDepth + 2 <= MaxNesting
      /\ "int" \in ScalarNames /\ IsType(i.declared)
  BY NestingAssumption, TypesAssumption, InputsAssumption
<1>1. PICK d : d = i.declared
  OBVIOUS
<1>2. MaxTypeDepth # 0 /\ ~Deeper(d, MaxTypeDepth - 1)
  <2>1. Level(d, MaxTypeDepth) = {}
    BY <1>1 DEF Declarable
  <2>2. MaxTypeDepth # 0
    BY <2>1, LevelMembers
  <2>3. (MaxTypeDepth - 1) + 1 = MaxTypeDepth
    BY <1>0
  <2> QED BY <2>1, <2>2, <2>3 DEF Deeper
<1>3. PICK m \in Nat : m + 1 = MaxTypeDepth
  BY <1>0, <1>2
<1>4. ~Deeper(d, m) /\ ~Deeper(d, MaxNesting)
  BY <1>0, <1>2, <1>3, DepthIsALimit
<1>5. Expectable(d) /\ IsType(d)
  BY <1>0, <1>1, <1>4 DEF Expectable, Declarable
<1>6. ASSUME NEW t, Expectable(t), IsType(t), NEW n \in Nat, n + 1 <= MaxNesting, ~Deeper(t, n)
      PROVE  Expectable(ListOf(t)) /\ IsType(ListOf(t)) /\ ~Deeper(ListOf(t), n + 1)
  <2>1. PICK l : l = ListOf(t)
    OBVIOUS
  <2>2. /\ l.type = "list" /\ DOMAIN l.parts = {"element"} /\ l.parts["element"] = t
        /\ l = [type |-> l.type, parts |-> [p \in DOMAIN l.parts |-> l.parts[p]]]
    BY <2>1 DEF ListOf
  <2>3. WellShaped(l)
    BY <2>2 DEF WellShaped
  <2>4. \A p \in DOMAIN l.parts : Expectable(l.parts[p]) /\ IsType(l.parts[p]) /\ ~Deeper(l.parts[p], n)
    BY <1>6, <2>2
  <2> QED BY <1>6, <2>1, <2>2, <2>3, <2>4, NestedType
<1>7. CASE i.source = "x"
  <2>1. OutputType(i) = d
    BY <1>1, <1>7 DEF OutputType
  <2> QED BY <1>1, <1>5, <1>7, <2>1, FromCELKeeps DEF ResultType
<1>8. CASE i.source = "[[x]]"
  <2>1. OutputType(i) = ListOf(ListOf(d))
    BY <1>1, <1>8 DEF OutputType
  <2>2. m + 1 <= MaxNesting /\ (m + 1) \in Nat /\ (m + 1) + 1 <= MaxNesting
    BY <1>0, <1>3
  <2>3. Expectable(ListOf(d)) /\ IsType(ListOf(d)) /\ ~Deeper(ListOf(d), m + 1)
    BY <1>4, <1>5, <1>6, <2>2
  <2>4. Expectable(ListOf(ListOf(d))) /\ IsType(ListOf(ListOf(d)))
    BY <1>6, <2>2, <2>3
  <2>5. ResultType(i) = ListOf(ListOf(d))
    BY <2>1, <2>4, FromCELKeeps DEF ResultType
  <2> QED BY <1>1, <1>8, <2>3, <2>4, <2>5
<1>9. CASE i.source = "{}"
  <2>1. PICK t : t = MapOf(Dyn, Dyn)
    OBVIOUS
  <2>2. /\ t.type = "map" /\ DOMAIN t.parts = {"key", "value"} /\ t.parts["key"] = Dyn /\ t.parts["value"] = Dyn
        /\ t = [type |-> t.type, parts |-> [p \in DOMAIN t.parts |-> t.parts[p]]]
    BY <2>1 DEF MapOf
  <2>3. WellShaped(t)
    BY <2>2 DEF WellShaped
  <2>4. Expectable(Dyn) /\ IsType(Dyn)
    BY ScalarType DEF Dyn
  <2>5. ~Deeper(Dyn, 0)
    <3>1. DOMAIN Dyn.parts = {}
      BY DEF Dyn, Scalar
    <3> QED BY <3>1, DepthFromParts
  <2>6. \A p \in DOMAIN t.parts : Expectable(t.parts[p]) /\ IsType(t.parts[p]) /\ ~Deeper(t.parts[p], 0)
    BY <2>2, <2>4, <2>5
  <2>7. Expectable(t) /\ IsType(t)
    BY <1>0, <2>2, <2>3, <2>6, NestedType
  <2>8. OutputType(i) = t
    BY <1>9, <2>1 DEF OutputType
  <2>9. ResultType(i) = t
    BY <2>7, <2>8, FromCELKeeps DEF ResultType
  <2> QED BY <1>9, <2>1, <2>7, <2>9
<1>10. CASE i.source = "1/0"
  <2>1. OutputType(i) = Scalar("int")
    BY <1>10 DEF OutputType
  <2>2. Expectable(Scalar("int")) /\ IsType(Scalar("int"))
    BY <1>0, ScalarType
  <2>3. ResultType(i) = Scalar("int")
    BY <2>1, <2>2, FromCELKeeps DEF ResultType
  <2> QED BY <1>10, <2>2, <2>3
<1>11. CASE i.source \notin {"x", "[[x]]", "{}", "1/0"}
  <2>1. PICK t : t = Scalar(Unnamed)
    OBVIOUS
  <2>2. OutputType(i) = t
    BY <1>11, <2>1 DEF OutputType
  <2>3. t.type = Unnamed /\ DOMAIN t.parts = {}
    BY <2>1 DEF Scalar
  <2>4. ~WellShaped(t)
    BY <2>3, InputsAssumption DEF WellShaped, Unnamed
  <2>5. ~Deeper(t, MaxNesting)
    BY <1>0, <2>3, DepthFromParts
  <2>6. ResultType(i) = Dyn
    BY <2>2, <2>4, <2>5, FromCELIs DEF ResultType
  <2>7. Expectable(Dyn)
    BY ScalarType DEF Dyn
  <2> QED BY <1>11, <2>6, <2>7
<1> QED BY <1>7, <1>8, <1>9, <1>10, <1>11

\* A well-typed x gives the source a value of its type.
LEMMA ValueIsOfItsType ==
  ASSUME NEW i \in Inputs, Declarable(i.declared), NEW variables, NEW v, Eval(i.source, variables) = OK(v),
         "x" \in DOMAIN variables, Inhabits(variables["x"], i.declared)
  PROVE  Inhabits(v, ResultType(i))
<1>1. \A c, r : Fail(c).ok = FALSE /\ OK(r).ok = TRUE /\ OK(r).body = r
  BY DEF Fail, OK
<1>2. PICK x : x = variables["x"]
  OBVIOUS
<1>3. PICK type : type = ResultType(i)
  OBVIOUS
<1>4. Expectable(type)
  BY <1>3, ResultTypeIs
<1>5. i.source # "1/0"
  BY <1>1 DEF Eval
<1>6. CASE i.source = "x"
  <2>1. v = x
    BY <1>1, <1>2, <1>6 DEF Eval
  <2> QED BY <1>2, <1>6, <2>1, ResultTypeIs
<1>7. CASE i.source = "[[x]]"
  <2>1. PICK w : w = ListValue(<<x>>)
    OBVIOUS
  <2>2. v = ListValue(<<w>>)
    BY <1>1, <1>2, <1>7, <2>1 DEF Eval
  <2>3. PICK inner : inner = ListOf(i.declared)
    OBVIOUS
  <2>4. type = ListOf(inner) /\ Expectable(inner)
    BY <1>3, <1>7, <2>3, ResultTypeIs
  <2>5. /\ w.kind = "list" /\ Range(w.parts) = {x} /\ v.kind = "list" /\ Range(v.parts) = {w}
    <3>1. w.kind = "list" /\ w.parts = <<x>> /\ v.kind = "list" /\ v.parts = <<w>>
      BY <2>1, <2>2 DEF ListValue
    <3>2. \A e : DOMAIN <<e>> = {1} /\ <<e>>[1] = e
      OBVIOUS
    <3> QED BY <3>1, <3>2 DEF Range
  <2>6. /\ inner.type = "list" /\ inner.parts["element"] = i.declared
        /\ type.type = "list" /\ type.parts["element"] = inner
    BY <2>3, <2>4 DEF ListOf
  <2>7. \A q \in PlacesBelow(inner, w) : q[1] = i.declared /\ q[2] = x
    BY <2>5, <2>6 DEF PlacesBelow
  <2>8. \A q \in PlacesBelow(type, v) : q[1] = inner /\ q[2] = w
    BY <2>5, <2>6 DEF PlacesBelow
  <2>9. Inhabits(w, inner)
    BY <1>2, <2>4, <2>5, <2>6, <2>7, InhabitsIs
  <2>10. Inhabits(v, type)
    BY <1>4, <2>5, <2>6, <2>8, <2>9, InhabitsIs
  <2> QED BY <1>3, <2>10
<1>8. CASE i.source = "{}"
  <2>1. v = MapValue(<<>>)
    BY <1>1, <1>8 DEF Eval
  <2>2. v.kind = "map" /\ v.parts = <<>>
    BY <2>1 DEF MapValue
  <2>3. DOMAIN v.parts = {} /\ Range(v.parts) = {}
    BY <2>2 DEF Range
  <2>4. type.type = "map"
    <3>1. \A k, e : MapOf(k, e).type = "map"
      BY DEF MapOf
    <3> QED BY <1>3, <1>8, <3>1, ResultTypeIs
  <2>5. PlacesBelow(type, v) = {}
    BY <2>2, <2>3, <2>4 DEF PlacesBelow
  <2>6. Inhabits(v, type)
    BY <1>4, <2>2, <2>4, <2>5, InhabitsIs
  <2> QED BY <1>3, <2>6
<1>9. CASE i.source \notin {"x", "[[x]]", "{}", "1/0"}
  <2>1. type.type = "dyn"
    <3>1. Dyn.type = "dyn"
      BY DEF Dyn, Scalar
    <3> QED BY <1>3, <1>9, <3>1, ResultTypeIs
  <2>2. PlacesBelow(type, v) = {}
    BY <2>1 DEF PlacesBelow
  <2>3. Inhabits(v, type)
    BY <1>4, <2>1, <2>2, InhabitsIs
  <2> QED BY <1>3, <2>3
<1> QED BY <1>5, <1>6, <1>7, <1>8, <1>9

\* WellTyped of any input.
WellTypedInput(i) ==
  LET variables == DecodeVariables(i.wire)
  IN variables.ok /\ "x" \in DOMAIN variables.body /\ Inhabits(variables.body["x"], i.declared)

\* The environment decodes when the type of x may be declared.
LEMMA DeclarationDecodes ==
  ASSUME NEW i
  PROVE  DecodeEnvironment(i).code = Passed <=> Declarable(i.declared)
BY DEF DecodeEnvironment, Step, Passed

\* What a comparison of types that passes has found.
LEMMA ContractIs ==
  ASSUME NEW i, NEW expected
  PROVE  CheckContract(i, expected).code = Passed <=>
           expected = Nil \/ (CompileStep(i.source) = Passed /\ Compatible(ResultType(i), expected))
<1>1. "result_type_mismatch" # Passed
  BY DEF Passed
<1>2. PICK code : code = CheckContract(i, expected).code
  OBVIOUS
<1>3. code = IF expected = Nil THEN Passed
             ELSE IF CompileStep(i.source) # Passed THEN CompileStep(i.source)
             ELSE IF Compatible(ResultType(i), expected) THEN Passed
             ELSE "result_type_mismatch"
  BY <1>2 DEF CheckContract, Step
<1> QED BY <1>1, <1>2, <1>3

\* How an evaluation with variables that decode can fail.
LEMMA ResultFails ==
  ASSUME NEW i \in Inputs, NEW expected, ~Result(i, expected).ok
  PROVE  \/ /\ Result(i, expected).body \in {"evaluation_error", "missing_variable", "unsupported_value"}
         \/ /\ Result(i, expected).body = "result_type_mismatch" /\ expected # Nil
            /\ Result(i, Nil).ok /\ ~MatchesValue(expected, Result(i, Nil).body)
<1>1. \A c, r : Fail(c).ok = FALSE /\ Fail(c).body = c /\ OK(r).ok = TRUE /\ OK(r).body = r
  BY DEF Fail, OK
<1>2. PICK value : value = Eval(i.source, DecodeVariables(i.wire).body)
  OBVIOUS
<1>3. PICK encoded : encoded = EncodeValue(value.body)
  OBVIOUS
<1>4. \A e : Result(i, e) = IF ~value.ok THEN value
                            ELSE IF encoded = Refused THEN Fail("unsupported_value")
                            ELSE IF e # Nil /\ ~MatchesValue(e, encoded) THEN Fail("result_type_mismatch")
                            ELSE OK(encoded)
  BY <1>2, <1>3, Zenon DEF Result, EvalProgram
<1>5. CASE ~value.ok
  BY <1>1, <1>2, <1>4, <1>5, EvalIs
<1>6. CASE value.ok /\ encoded = Refused
  BY <1>1, <1>4, <1>6
<1>7. CASE value.ok /\ encoded # Refused
  <2>1. Result(i, Nil) = OK(encoded)
    BY <1>4, <1>7
  <2>2. expected # Nil /\ ~MatchesValue(expected, encoded) /\ Result(i, expected) = Fail("result_type_mismatch")
    BY <1>1, <1>4, <1>7
  <2> QED BY <1>1, <2>1, <2>2
<1> QED BY <1>5, <1>6, <1>7

\* A well-typed x gives a value that the type of the source matches.
LEMMA ResultMatches ==
  ASSUME NEW i \in Inputs, Declarable(i.declared), WellTypedInput(i), Result(i, Nil).ok
  PROVE  \E v : Result(i, Nil) = OK(v) /\ ~Deeper(v, MaxNesting) /\ MatchesValue(ResultType(i), v)
<1>1. PICK variables : variables = DecodeVariables(i.wire).body
  OBVIOUS
<1>2. DecodeVariables(i.wire).ok /\ "x" \in DOMAIN variables /\ Inhabits(variables["x"], i.declared)
  BY <1>1 DEF WellTypedInput
<1>3. PICK v : Result(i, Nil) = OK(v) /\ Eval(i.source, variables) = OK(v) /\ IsValue(v)
  BY <1>1, <1>2, ResultIs
<1>4. Inhabits(v, ResultType(i))
  BY <1>2, <1>3, ValueIsOfItsType
<1>5. ~Deeper(v, MaxNesting)
  BY <1>3 DEF IsValue
<1> QED BY <1>3, <1>4, <1>5, InhabitantsMatch, ResultTypeIs

\* What Validate answers for an input foresees what Evaluate answers for it.
LEMMA ValidationForesees ==
  ASSUME NEW i \in Inputs, ValidateAnswer(i).ok
  PROVE  /\ ~Valid(i) => ~EvaluateAnswer(i).ok
         /\ Valid(i) /\ ~EvaluateAnswer(i).ok =>
              /\ EvaluateAnswer(i).body \notin {"parse_error", "compile_error"}
              /\ EvaluateAnswer(i).body = "result_type_mismatch" => ContainsDyn(ResultType(i)) \/ ~WellTypedInput(i)
<1>0. Nil # Dyn /\ i.source \in Sources
  BY InputsAssumption
<1>1. \A c, r : Fail(c).ok = FALSE /\ Fail(c).body = c /\ OK(r).ok = TRUE /\ OK(r).body = r
  BY DEF Fail, OK
<1>2. Declarable(i.declared)
  BY ValidateGave, DeclarationDecodes
<1>3. Expectable(ResultType(i)) /\ ~Deeper(ResultType(i), MaxNesting)
  BY <1>2, ResultTypeIs DEF Expectable
<1>4. ASSUME EvaluateAnswer(i).ok PROVE Valid(i)
  <2>1. Dyn.type = "dyn"
    BY DEF Dyn, Scalar
  <2>2. Compatible(ResultType(i), Dyn)
    BY <2>1 DEF Compatible
  <2>3. CompileStep(i.source) = Passed /\ CheckContract(i, i.expected).code = Passed
    BY <1>4, EvaluateGave
  <2> QED BY <2>2, <2>3, ContractIs DEF Valid
<1>5. ASSUME Valid(i), ~EvaluateAnswer(i).ok, EvaluateAnswer(i).body \in {"parse_error", "compile_error", "result_type_mismatch"}
      PROVE  EvaluateAnswer(i) = Result(i, i.expected)
  <2>1. CompileStep(i.source) = Passed /\ CheckContract(i, i.expected).code = Passed
    BY <1>0, <1>5, ContractIs DEF Valid
  <2>2. /\ ParseOptions(i.expected).code \in {Passed, "invalid_request"}
        /\ CheckDeadline(i).code \in {Passed, "deadline_exceeded"}
        /\ ValidateSource(i).code \in {Passed, "source_too_large"}
        /\ DecodeEnvironment(i).code \in {Passed, "invalid_environment"}
    BY DEF ParseOptions, CheckDeadline, ValidateSource, DecodeEnvironment, Step
  <2>3. DecodeVariablesStep(i.wire).code \in {Passed, "invalid_request", "internal_error"}
    <3>1. \/ DecodeVariables(i.wire) = Fail("invalid_request") \/ DecodeVariables(i.wire) = Fail("internal_error")
          \/ \E r : DecodeVariables(i.wire) = OK(r)
      BY Zenon DEF DecodeVariables
    <3>2. PICK variables : variables = DecodeVariables(i.wire)
      OBVIOUS
    <3>3. DecodeVariablesStep(i.wire).code = IF variables.ok THEN Passed ELSE variables.body
      BY <3>2 DEF DecodeVariablesStep, Step
    <3> QED BY <1>1, <3>1, <3>2, <3>3
  <2>4. ASSUME NEW c, EvaluateAnswer(i) = Fail(c) PROVE c \in {"parse_error", "compile_error", "result_type_mismatch"}
    BY <1>1, <1>5, <2>4
  <2>5. /\ EvaluateAnswer(i) # Fail("invalid_request") /\ EvaluateAnswer(i) # Fail("deadline_exceeded")
        /\ EvaluateAnswer(i) # Fail("source_too_large") /\ EvaluateAnswer(i) # Fail("invalid_environment")
        /\ EvaluateAnswer(i) # Fail("internal_error")
    BY <2>4
  <2> QED BY <2>1, <2>2, <2>3, <2>5, EvaluateAnswerIs
<1>6. ASSUME Valid(i), ~EvaluateAnswer(i).ok,
             EvaluateAnswer(i).body \in {"parse_error", "compile_error", "result_type_mismatch"}
      PROVE  /\ EvaluateAnswer(i).body = "result_type_mismatch"
             /\ i.expected # Nil /\ Result(i, Nil).ok /\ ~MatchesValue(i.expected, Result(i, Nil).body)
             /\ Expectable(i.expected)
  <2>1. PICK c : c = EvaluateAnswer(i).body
    OBVIOUS
  <2>2. ~Result(i, i.expected).ok /\ Result(i, i.expected).body = c
    BY <1>5, <1>6, <2>1
  <2>3. c \notin {"evaluation_error", "missing_variable", "unsupported_value"}
    BY <1>6, <2>1
  <2>4. ParseOptions(i.expected).code = Passed
    BY ValidateGave
  <2>5. i.expected = Nil \/ Expectable(i.expected)
    BY <2>4 DEF ParseOptions, Step, Passed
  <2> QED BY <2>1, <2>2, <2>3, <2>5, ResultFails
<1>7. ASSUME Valid(i), ~EvaluateAnswer(i).ok, EvaluateAnswer(i).body = "result_type_mismatch", WellTypedInput(i)
      PROVE  ContainsDyn(ResultType(i))
  <2>1. SUFFICES ASSUME ~ContainsDyn(ResultType(i)) PROVE FALSE
    OBVIOUS
  <2>2. i.expected # Nil /\ Result(i, Nil).ok /\ ~MatchesValue(i.expected, Result(i, Nil).body) /\ Expectable(i.expected)
    BY <1>6, <1>7
  <2>3. PICK v : Result(i, Nil) = OK(v) /\ ~Deeper(v, MaxNesting) /\ MatchesValue(ResultType(i), v)
    BY <1>2, <1>7, <2>2, ResultMatches
  <2>4. ~MatchesValue(i.expected, v)
    BY <1>1, <2>2, <2>3
  <2>5. Compatible(ResultType(i), i.expected)
    BY <1>7, <2>2, ContractIs DEF Valid
  <2>6. i.expected.type # "dyn"
    BY <2>2, <2>3, <2>4, MatchesValueIs
  <2>7. Assignable(ResultType(i), i.expected)
    BY <2>1, <2>5, <2>6 DEF Compatible
  <2> QED BY <1>3, <2>1, <2>2, <2>3, <2>4, <2>7, AssignableMatches
<1> QED BY <1>4, <1>6, <1>7

\* Sent back as an expected type, the type of a source changes nothing.
LEMMA ReportedTypeServes ==
  ASSUME NEW i \in Inputs, ValidateAnswer(i).ok, Valid(i)
  PROVE  /\ ParseOptions(ResultType(i)).code = Passed
         /\ CheckContract(i, ResultType(i)).code = Passed
         /\ WellTypedInput(i) => Result(i, ResultType(i)) = Result(i, Nil)
<1>0. Nil # Dyn
  BY InputsAssumption
<1>1. \A c, r : Fail(c).ok = FALSE /\ OK(r).ok = TRUE /\ OK(r).body = r /\ Fail(c).body = c
  BY DEF Fail, OK
<1>2. Declarable(i.declared)
  BY ValidateGave, DeclarationDecodes
<1>3. Expectable(ResultType(i)) /\ ~Deeper(ResultType(i), MaxNesting)
  BY <1>2, ResultTypeIs DEF Expectable
<1>4. ParseOptions(ResultType(i)).code = Passed
  BY <1>3 DEF ParseOptions, Step
<1>5. CompileStep(i.source) = Passed
  BY <1>0, ContractIs DEF Valid
<1>6. CheckContract(i, ResultType(i)).code = Passed
  BY <1>3, <1>5, AssignableToItself, ContractIs DEF Compatible
<1>7. ASSUME WellTypedInput(i) PROVE Result(i, ResultType(i)) = Result(i, Nil)
  <2>1. PICK type : type = ResultType(i)
    OBVIOUS
  <2>2. PICK value : value = Eval(i.source, DecodeVariables(i.wire).body)
    OBVIOUS
  <2>3. PICK encoded : encoded = EncodeValue(value.body)
    OBVIOUS
  <2>4. \A e : Result(i, e) = IF ~value.ok THEN value
                              ELSE IF encoded = Refused THEN Fail("unsupported_value")
                              ELSE IF e # Nil /\ ~MatchesValue(e, encoded) THEN Fail("result_type_mismatch")
                              ELSE OK(encoded)
    BY <2>2, <2>3, Zenon DEF Result, EvalProgram
  <2>5. CASE ~value.ok \/ encoded = Refused
    BY <2>1, <2>4, <2>5
  <2>6. CASE value.ok /\ encoded # Refused
    <3>1. Result(i, Nil) = OK(encoded)
      BY <2>4, <2>6
    <3>2. PICK v : Result(i, Nil) = OK(v) /\ MatchesValue(type, v)
      BY <1>1, <1>2, <1>7, <2>1, <3>1, ResultMatches
    <3>3. v = encoded
      BY <3>1, <3>2 DEF OK
    <3>4. Result(i, type) = OK(encoded)
      BY <2>4, <2>6, <3>2, <3>3
    <3> QED BY <2>1, <3>1, <3>4
  <2> QED BY <2>5, <2>6
<1> QED BY <1>4, <1>6, <1>7

\* Validate and Evaluate see the same errors.
THEOREM ValidateForeseesAlways == Spec => []ValidateForesees
<1>1. ASSUME IInv PROVE ValidateForesees
  <2> SUFFICES ASSUME Both("validate", "evaluate"), answers["validate"].ok
               PROVE  LET validation == answers["validate"].body
                      IN IF ~validation.valid THEN ~Gave("evaluate")
                         ELSE /\ ~Failed("evaluate", {"parse_error", "compile_error"})
                              /\ Failed("evaluate", {"result_type_mismatch"}) =>
                                   ContainsDyn(validation.type) \/ ~WellTyped
    BY DEF ValidateForesees
  <2>1. PICK i : i = input
    OBVIOUS
  <2>2. /\ i \in Inputs /\ "evaluate" \in DOMAIN answers
        /\ answers["validate"] = ValidateAnswer(i) /\ answers["evaluate"] = EvaluateAnswer(i)
    BY <1>1, <2>1 DEF IInv, AnswersKnown, Both
  <2>3. ValidateAnswer(i).ok /\ ValidateAnswer(i).body = [valid |-> Valid(i), type |-> ResultType(i)]
    BY <2>2, ValidateGave
  <2>4. PICK validation : validation = answers["validate"].body
    OBVIOUS
  <2>5. validation.valid = Valid(i) /\ validation.type = ResultType(i)
    BY <2>2, <2>3, <2>4
  <2>6. WellTyped = WellTypedInput(i)
    BY <2>1 DEF WellTyped, WellTypedInput
  <2>8. Gave("evaluate") = EvaluateAnswer(i).ok
    BY <2>2, OutcomeType DEF Gave
  <2>9. \A codes : Failed("evaluate", codes) => ~EvaluateAnswer(i).ok /\ EvaluateAnswer(i).body \in codes
    BY <2>2 DEF Failed
  <2>10. CASE ~Valid(i)
    BY <2>2, <2>3, <2>4, <2>5, <2>8, <2>10, ValidationForesees
  <2>11. CASE Valid(i)
    <3>1. ~Failed("evaluate", {"parse_error", "compile_error"})
      BY <2>2, <2>3, <2>9, <2>11, ValidationForesees
    <3>2. Failed("evaluate", {"result_type_mismatch"}) => ContainsDyn(ResultType(i)) \/ ~WellTypedInput(i)
      BY <2>2, <2>3, <2>9, <2>11, ValidationForesees
    <3> QED BY <2>4, <2>5, <2>6, <2>11, <3>1, <3>2
  <2> QED BY <2>10, <2>11
<1> QED BY <1>1, AnswersDetermined, PTL

\* The type Validate reports may be sent as an expected type.
THEOREM ResultTypesCanBeExpected == Spec => []ResultTypeCanBeExpected
<1>1. ASSUME IInv PROVE ResultTypeCanBeExpected
  <2>0. SUFFICES ASSUME "validate" \in DOMAIN answers, answers["validate"].ok, answers["validate"].body.valid
                 PROVE  LET type == answers["validate"].body.type
                            run(expected) == EvalProgram(input.source, DecodeVariables(input.wire).body, expected)
                        IN /\ ParseOptions(type).code = Passed
                           /\ CheckContract(input, type).code = Passed
                           /\ WellTyped => run(type) = run(Nil)
    BY DEF ResultTypeCanBeExpected
  <2>1. PICK i : i = input
    OBVIOUS
  <2>2. i \in Inputs /\ answers["validate"] = ValidateAnswer(i)
    BY <1>1, <2>0, <2>1 DEF IInv, AnswersKnown
  <2>3. ValidateAnswer(i).ok /\ ValidateAnswer(i).body = [valid |-> Valid(i), type |-> ResultType(i)]
    BY <2>0, <2>2, ValidateGave
  <2>4. Valid(i) /\ answers["validate"].body.type = ResultType(i)
    BY <2>0, <2>2, <2>3
  <2>5. PICK type : type = ResultType(i)
    OBVIOUS
  <2>6. /\ ParseOptions(type).code = Passed /\ CheckContract(i, type).code = Passed
        /\ WellTypedInput(i) => Result(i, type) = Result(i, Nil)
    BY <2>2, <2>3, <2>4, <2>5, ReportedTypeServes
  <2>7. WellTyped = WellTypedInput(i)
    BY <2>1 DEF WellTyped, WellTypedInput
  <2> QED BY <2>1, <2>4, <2>5, <2>6, <2>7 DEF Result
<1> QED BY <1>1, AnswersDetermined, PTL

(***************************************************************************)
(* Values that are sent back: how deep their tagged form is, and what it  *)
(* decodes to.                                                             *)
(***************************************************************************)
\* The items of SetToSeq are the members of a finite set, each once.
LEMMA SequenceOf ==
  ASSUME NEW S, IsFiniteSet(S)
  PROVE  /\ DOMAIN SetToSeq(S) = 1..Cardinality(S) /\ Cardinality(S) \in Nat
         /\ IsInjective(SetToSeq(S)) /\ Range(SetToSeq(S)) = S
         /\ \A i \in DOMAIN SetToSeq(S) : SetToSeq(S)[i] \in S
         /\ SetToSeq(S) = [i \in DOMAIN SetToSeq(S) |-> SetToSeq(S)[i]]
<1>1. PICK n \in Nat : n = Cardinality(S) /\ ExistsBijection(1..n, S)
  BY FS_CardinalityType
<1>2. PICK b \in [1..n -> S] : IsInjective(b)
  BY <1>1 DEF ExistsBijection, Bijection, Injection
<1>3. PICK f : f = SetToSeq(S)
  OBVIOUS
<1>4. f \in [1..n -> S] /\ IsInjective(f)
  BY <1>1, <1>2, <1>3 DEF SetToSeq
<1>5. f \in Injection(1..n, S)
  BY <1>4 DEF Injection
<1>6. Cardinality(1..n) = n
  BY FS_Interval
<1>7. f \in Surjection(1..n, S)
  BY <1>1, <1>5, <1>6, FS_Injection
<1>8. Range(f) = S
  BY <1>4, <1>7 DEF Surjection, Range
<1> QED BY <1>1, <1>3, <1>4, <1>8

\* A map whose keys can be listed.
Listable(u) == u.kind = "map" => IsFiniteSet(DOMAIN u.parts)

\* One step of Tag, and a function that satisfies its equation on D.
TagEntry(g, c, k) == Object([key |-> TagScalar(k), value |-> g[c.parts[k]]])

TagBody(g, c) ==
  LET keys == SetToSeq(DOMAIN c.parts)
  IN CASE c.kind = "list" ->
            Tagged([kind |-> Text("list"), items |-> Array([i \in DOMAIN c.parts |-> g[c.parts[i]]])])
       [] c.kind = "map" ->
            Tagged([kind |-> Text("map"), entries |-> Array([i \in DOMAIN keys |-> TagEntry(g, c, keys[i])])])
       [] OTHER -> TagScalar(c)
TagOn(D, x) == x = [c \in D |-> TagBody(x, c)]

\* One step of Tag depends on what it gives for what lies below.
LEMMA TagFrame ==
  ASSUME NEW c, Listable(c), NEW g, NEW h, \A k \in Below(c) : g[k] = h[k]
  PROVE  TagBody(g, c) = TagBody(h, c)
<1>1. \A i \in DOMAIN c.parts : g[c.parts[i]] = h[c.parts[i]]
  BY PartsAreBelow
<1>2. CASE c.kind = "list"
  <2>1. [i \in DOMAIN c.parts |-> g[c.parts[i]]] = [i \in DOMAIN c.parts |-> h[c.parts[i]]]
    BY <1>1
  <2> QED BY <1>2, <2>1 DEF TagBody
<1>3. CASE c.kind = "map"
  <2>1. PICK keys : keys = SetToSeq(DOMAIN c.parts)
    OBVIOUS
  <2>2. \A i \in DOMAIN keys : keys[i] \in DOMAIN c.parts
    BY <1>3, <2>1, SequenceOf DEF Listable
  <2>3. \A i \in DOMAIN keys : TagEntry(g, c, keys[i]) = TagEntry(h, c, keys[i])
    BY <1>1, <2>2 DEF TagEntry
  <2>4. [i \in DOMAIN keys |-> TagEntry(g, c, keys[i])] = [i \in DOMAIN keys |-> TagEntry(h, c, keys[i])]
    BY <2>3
  <2> QED BY <1>3, <2>1, <2>4 DEF TagBody
<1>4. CASE c.kind \notin {"list", "map"}
  BY <1>4 DEF TagBody
<1> QED BY <1>2, <1>3, <1>4

\* The recursion of Tag has a solution on values whose maps are finite.
LEMMA TagExists ==
  ASSUME NEW D, Grown(D), \A u \in D : Listable(u)
  PROVE  \E x : TagOn(D, x)
<1> DEFINE Upto(n) == \E g : \A u \in D : ~Deeper(u, n) => g[u] = TagBody(g, u)
<1>1. Upto(0)
  <2>1. PICK h : h = [u \in D |-> TagBody(<<>>, u)]
    OBVIOUS
  <2>2. ASSUME NEW u \in D, ~Deeper(u, 0) PROVE h[u] = TagBody(h, u)
    <3>1. 0 \in Nat
      OBVIOUS
    <3>2. \A k : k \notin Below(u)
      BY <2>2, <3>1, DepthOfBelow
    <3>3. TagBody(<<>>, u) = TagBody(h, u)
      BY <3>2, TagFrame
    <3> QED BY <2>1, <3>3
  <2> QED BY <2>2
<1>2. ASSUME NEW n \in Nat, Upto(n) PROVE Upto(n + 1)
  <2>0. n + 1 \in Nat /\ (n + 1) - 1 = n
    OBVIOUS
  <2>1. PICK g : \A u \in D : ~Deeper(u, n) => g[u] = TagBody(g, u)
    BY <1>2
  <2>2. PICK h : h = [u \in D |-> TagBody(g, u)]
    OBVIOUS
  <2>3. ASSUME NEW u \in D, ~Deeper(u, n + 1) PROVE h[u] = TagBody(h, u)
    <3>1. ASSUME NEW k \in Below(u) PROVE g[k] = h[k]
      <4>1. k \in D
        BY BelowGrown
      <4>2. ~Deeper(k, n)
        BY <2>0, <2>3, DepthOfBelow
      <4> QED BY <2>1, <2>2, <4>1, <4>2
    <3>2. TagBody(g, u) = TagBody(h, u)
      BY <3>1, TagFrame
    <3> QED BY <2>2, <3>2
  <2> QED BY <2>3
<1>3. PICK T : T = {n \in Nat : Upto(n)}
  OBVIOUS
<1> HIDE DEF Upto
<1>4. \A n \in Nat : n \in T
  BY <1>1, <1>2, <1>3, EveryNatural
<1>5. Upto(MaxNesting)
  BY <1>3, <1>4, NestingAssumption
<1>6. PICK g : \A u \in D : g[u] = TagBody(g, u)
  BY <1>5 DEF Upto, Grown
<1>7. PICK x : x = [u \in D |-> g[u]]
  OBVIOUS
<1>8. ASSUME NEW u \in D PROVE x[u] = TagBody(x, u)
  <2>1. \A k \in Below(u) : g[k] = x[k]
    BY <1>7, BelowGrown
  <2>2. TagBody(g, u) = TagBody(x, u)
    BY <2>1, TagFrame
  <2> QED BY <1>6, <1>7, <2>2
<1>9. x = [u \in D |-> TagBody(x, u)]
  BY <1>7, <1>8
<1> QED BY <1>9 DEF TagOn

\* It is determined by what Tag gives below.
LEMMA TagUnfolds ==
  ASSUME NEW t, ~Deeper(t, MaxNesting), \A u \in Nodes(t) : Listable(u)
  PROVE  \A g : (\A k \in Below(t) : g[k] = Tag(k)) => Tag(t) = TagBody(g, t)
<1>1. ASSUME NEW D, Grown(D), NEW x, TagOn(D, x), \A u \in D : Listable(u),
             NEW E, Grown(E), NEW y, TagOn(E, y), NEW k \in D \cap E
      PROVE  x[k] = y[k]
  <2>1. PICK S : S = {u \in D \cap E : x[u] = y[u]}
    OBVIOUS
  <2>2. Grown(D \cap E)
    BY <1>1 DEF Grown
  <2>3. ASSUME NEW u \in D \cap E, Below(u) \subseteq S PROVE u \in S
    <3>1. \A v \in Below(u) : x[v] = y[v]
      BY <2>1, <2>3
    <3>2. TagBody(x, u) = TagBody(y, u)
      BY <1>1, <3>1, TagFrame
    <3> QED BY <1>1, <2>1, <3>2 DEF TagOn
  <2> QED BY <2>1, <2>2, <2>3, BelowInduction
<1>2. ASSUME NEW k, ~Deeper(k, MaxNesting), \A u \in Nodes(k) : Listable(u)
      PROVE  \E x : TagOn(Nodes(k), x) /\ Tag(k) = x[k]
  <2>1. \E x : TagOn(Nodes(k), x)
    BY <1>2, NodesGrown, TagExists
  <2>2. PICK x : x = CHOOSE y : TagOn(Nodes(k), y)
    OBVIOUS
  <2>3. TagOn(Nodes(k), x)
    BY <2>1, <2>2, Zenon
  <2>4. Tag(k) = x[k]
    BY <2>2, Zenon DEF Tag, TagOn, TagBody, TagEntry
  <2> QED BY <2>3, <2>4
<1>3. PICK x : TagOn(Nodes(t), x) /\ Tag(t) = x[t]
  BY <1>2
<1>4. Grown(Nodes(t)) /\ t \in Nodes(t)
  BY NodesGrown
<1>5. ASSUME NEW k \in Below(t) PROVE x[k] = Tag(k)
  <2>1. k \in Nodes(t)
    BY <1>4, BelowGrown
  <2>2. ~Deeper(k, MaxNesting) /\ Nodes(k) \subseteq Nodes(t)
    BY <1>4, <2>1, NodesWithin DEF Grown
  <2>3. PICK y : TagOn(Nodes(k), y) /\ Tag(k) = y[k]
    BY <1>2, <2>2
  <2>4. Grown(Nodes(k)) /\ k \in Nodes(k)
    BY <2>2, NodesGrown
  <2> QED BY <1>1, <1>3, <1>4, <2>1, <2>3, <2>4
<1>6. ASSUME NEW g, \A k \in Below(t) : g[k] = Tag(k) PROVE Tag(t) = TagBody(g, t)
  <2>1. TagBody(g, t) = TagBody(x, t)
    BY <1>4, <1>5, <1>6, TagFrame
  <2> QED BY <1>3, <1>4, <2>1 DEF TagOn
<1> QED BY <1>6

\* One step of Fits, a function that satisfies its equation, and its row for v.
FitsForBody(g, c) ==
  [n \in Int |->
     IF Kids(c) = {} THEN n >= 1
     ELSE \A k \in Kids(c) : g[k][n - (IF c.kind = "list" THEN 2 ELSE 3)]]
FitsForOn(D, x) == x = [c \in D |-> FitsForBody(x, c)]

\* The numbers of levels that a value fits in, as a function.
FitsFor(v) == (CHOOSE x : FitsForOn(Nodes(v), x))[v]

\* One step of Fits depends on what it gives for what lies below.
LEMMA FitsForFrame ==
  ASSUME NEW c, NEW g, NEW h, \A k \in Below(c) : g[k] = h[k]
  PROVE  FitsForBody(g, c) = FitsForBody(h, c)
<1>1. \A k \in Kids(c) : g[k] = h[k]
  BY KidsAreBelow
<1> QED BY <1>1 DEF FitsForBody

\* The recursion of Fits has a solution.
LEMMA FitsForExists ==
  ASSUME NEW D, Grown(D)
  PROVE  \E x : FitsForOn(D, x)
<1> DEFINE Upto(n) == \E g : \A u \in D : ~Deeper(u, n) => g[u] = FitsForBody(g, u)
<1>1. Upto(0)
  <2>1. PICK h : h = [u \in D |-> FitsForBody(<<>>, u)]
    OBVIOUS
  <2>2. ASSUME NEW u \in D, ~Deeper(u, 0) PROVE h[u] = FitsForBody(h, u)
    <3>1. 0 \in Nat
      OBVIOUS
    <3>2. \A k : k \notin Below(u)
      BY <2>2, <3>1, DepthOfBelow
    <3>3. FitsForBody(<<>>, u) = FitsForBody(h, u)
      BY <3>2, FitsForFrame
    <3> QED BY <2>1, <3>3
  <2> QED BY <2>2
<1>2. ASSUME NEW n \in Nat, Upto(n) PROVE Upto(n + 1)
  <2>0. n + 1 \in Nat /\ (n + 1) - 1 = n
    OBVIOUS
  <2>1. PICK g : \A u \in D : ~Deeper(u, n) => g[u] = FitsForBody(g, u)
    BY <1>2
  <2>2. PICK h : h = [u \in D |-> FitsForBody(g, u)]
    OBVIOUS
  <2>3. ASSUME NEW u \in D, ~Deeper(u, n + 1) PROVE h[u] = FitsForBody(h, u)
    <3>1. ASSUME NEW k \in Below(u) PROVE g[k] = h[k]
      <4>1. k \in D
        BY BelowGrown
      <4>2. ~Deeper(k, n)
        BY <2>0, <2>3, DepthOfBelow
      <4> QED BY <2>1, <2>2, <4>1, <4>2
    <3>2. FitsForBody(g, u) = FitsForBody(h, u)
      BY <3>1, FitsForFrame
    <3> QED BY <2>2, <3>2
  <2> QED BY <2>3
<1>3. PICK T : T = {n \in Nat : Upto(n)}
  OBVIOUS
<1> HIDE DEF Upto
<1>4. \A n \in Nat : n \in T
  BY <1>1, <1>2, <1>3, EveryNatural
<1>5. Upto(MaxNesting)
  BY <1>3, <1>4, NestingAssumption
<1>6. PICK g : \A u \in D : g[u] = FitsForBody(g, u)
  BY <1>5 DEF Upto, Grown
<1>7. PICK x : x = [u \in D |-> g[u]]
  OBVIOUS
<1>8. ASSUME NEW u \in D PROVE x[u] = FitsForBody(x, u)
  <2>1. \A k \in Below(u) : g[k] = x[k]
    BY <1>7, BelowGrown
  <2>2. FitsForBody(g, u) = FitsForBody(x, u)
    BY <2>1, FitsForFrame
  <2> QED BY <1>6, <1>7, <2>2
<1>9. x = [u \in D |-> FitsForBody(x, u)]
  BY <1>7, <1>8
<1> QED BY <1>9 DEF FitsForOn

\* It is determined by what Fits gives below.
LEMMA FitsForUnfolds ==
  ASSUME NEW t, ~Deeper(t, MaxNesting)
  PROVE  \A g : (\A k \in Below(t) : g[k] = FitsFor(k)) => FitsFor(t) = FitsForBody(g, t)
<1>1. ASSUME NEW D, Grown(D), NEW x, FitsForOn(D, x),
             NEW E, Grown(E), NEW y, FitsForOn(E, y), NEW k \in D \cap E
      PROVE  x[k] = y[k]
  <2>1. PICK S : S = {u \in D \cap E : x[u] = y[u]}
    OBVIOUS
  <2>2. Grown(D \cap E)
    BY <1>1 DEF Grown
  <2>3. ASSUME NEW u \in D \cap E, Below(u) \subseteq S PROVE u \in S
    <3>1. \A v \in Below(u) : x[v] = y[v]
      BY <2>1, <2>3
    <3>2. FitsForBody(x, u) = FitsForBody(y, u)
      BY <1>1, <3>1, FitsForFrame
    <3> QED BY <1>1, <2>1, <3>2 DEF FitsForOn
  <2> QED BY <2>1, <2>2, <2>3, BelowInduction
<1>2. ASSUME NEW k, ~Deeper(k, MaxNesting)
      PROVE  \E x : FitsForOn(Nodes(k), x) /\ FitsFor(k) = x[k]
  <2>1. \E x : FitsForOn(Nodes(k), x)
    BY <1>2, NodesGrown, FitsForExists
  <2>2. PICK x : x = CHOOSE y : FitsForOn(Nodes(k), y)
    OBVIOUS
  <2>3. FitsForOn(Nodes(k), x)
    BY <2>1, <2>2, Zenon
  <2>4. FitsFor(k) = x[k]
    BY <2>2, Zenon DEF FitsFor, FitsForOn, FitsForBody
  <2> QED BY <2>3, <2>4
<1>3. PICK x : FitsForOn(Nodes(t), x) /\ FitsFor(t) = x[t]
  BY <1>2
<1>4. Grown(Nodes(t)) /\ t \in Nodes(t)
  BY NodesGrown
<1>5. ASSUME NEW k \in Below(t) PROVE x[k] = FitsFor(k)
  <2>1. k \in Nodes(t)
    BY <1>4, BelowGrown
  <2>2. ~Deeper(k, MaxNesting) /\ Nodes(k) \subseteq Nodes(t)
    BY <1>4, <2>1, NodesWithin DEF Grown
  <2>3. PICK y : FitsForOn(Nodes(k), y) /\ FitsFor(k) = y[k]
    BY <1>2, <2>2
  <2>4. Grown(Nodes(k)) /\ k \in Nodes(k)
    BY <2>2, NodesGrown
  <2> QED BY <1>1, <1>3, <1>4, <2>1, <2>3, <2>4
<1>6. ASSUME NEW g, \A k \in Below(t) : g[k] = FitsFor(k) PROVE FitsFor(t) = FitsForBody(g, t)
  <2>1. FitsForBody(g, t) = FitsForBody(x, t)
    BY <1>4, <1>5, <1>6, FitsForFrame
  <2> QED BY <1>3, <1>4, <2>1 DEF FitsForOn
<1> QED BY <1>6

\* The maps of a value are finite.
LEMMA ValuesAreListable ==
  ASSUME NEW v, IsValue(v)
  PROVE  \A u \in Nodes(v) : Listable(u)
<1>1. ASSUME NEW u, IsNode(u), u.kind = "map" PROVE IsFiniteSet(DOMAIN u.parts)
  <2>1. ~IsScalar(u)
    BY <1>1, ValueKinds
  <2>2. \A x : ListValue(x).kind = "list"
    BY DEF ListValue
  <2> QED BY <1>1, <2>1, <2>2 DEF IsNode
<1> QED BY <1>1 DEF IsValue, Listable

\* What a value goes out as.
LEMMA TagIs ==
  ASSUME NEW v, IsValue(v)
  PROVE  /\ v.kind = "list" =>
              Tag(v) = Tagged([kind |-> Text("list"), items |-> Array([i \in DOMAIN v.parts |-> Tag(v.parts[i])])])
         /\ v.kind = "map" =>
              LET keys == SetToSeq(DOMAIN v.parts)
              IN Tag(v) = Tagged([kind |-> Text("map"), entries |->
                            Array([i \in DOMAIN keys |->
                              Object([key |-> TagScalar(keys[i]), value |-> Tag(v.parts[keys[i]])])])])
         /\ v.kind \notin {"list", "map"} => Tag(v) = TagScalar(v)
<1>1. PICK g : g = [k \in Below(v) |-> Tag(k)]
  OBVIOUS
<1>2. ~Deeper(v, MaxNesting) /\ \A u \in Nodes(v) : Listable(u)
  BY ValuesAreListable DEF IsValue
<1>3. Tag(v) = TagBody(g, v)
  BY <1>1, <1>2, TagUnfolds
<1>4. \A i \in DOMAIN v.parts : g[v.parts[i]] = Tag(v.parts[i])
  BY <1>1, PartsAreBelow
<1>5. ASSUME v.kind = "list"
      PROVE  Tag(v) = Tagged([kind |-> Text("list"), items |-> Array([i \in DOMAIN v.parts |-> Tag(v.parts[i])])])
  <2>1. [i \in DOMAIN v.parts |-> g[v.parts[i]]] = [i \in DOMAIN v.parts |-> Tag(v.parts[i])]
    BY <1>4
  <2> QED BY <1>3, <1>5, <2>1 DEF TagBody
<1>6. ASSUME v.kind = "map", NEW keys, keys = SetToSeq(DOMAIN v.parts)
      PROVE  Tag(v) = Tagged([kind |-> Text("map"), entries |->
                        Array([i \in DOMAIN keys |->
                          Object([key |-> TagScalar(keys[i]), value |-> Tag(v.parts[keys[i]])])])])
  <2>1. v \in Nodes(v)
    BY <1>2, NodesGrown
  <2>2. \A i \in DOMAIN keys : keys[i] \in DOMAIN v.parts
    BY <1>2, <1>6, <2>1, SequenceOf DEF Listable
  <2>3. \A i \in DOMAIN keys :
          TagEntry(g, v, keys[i]) = Object([key |-> TagScalar(keys[i]), value |-> Tag(v.parts[keys[i]])])
    BY <1>4, <2>2 DEF TagEntry
  <2>4. [i \in DOMAIN keys |-> TagEntry(g, v, keys[i])] =
        [i \in DOMAIN keys |-> Object([key |-> TagScalar(keys[i]), value |-> Tag(v.parts[keys[i]])])]
    BY <2>3
  <2> QED BY <1>3, <1>6, <2>4 DEF TagBody
<1>7. v.kind \notin {"list", "map"} => Tag(v) = TagScalar(v)
  BY <1>3 DEF TagBody
<1> QED BY <1>5, <1>6, <1>7

\* Fits, by its values for what lies directly below.
LEMMA FitsIs ==
  ASSUME NEW v, ~Deeper(v, MaxNesting), NEW n \in Int
  PROVE  Fits(v, n) <=> IF Kids(v) = {} THEN n >= 1
                        ELSE \A k \in Kids(v) : Fits(k, n - (IF v.kind = "list" THEN 2 ELSE 3))
<1>1. \A u, m : Fits(u, m) = FitsFor(u)[m]
  BY Zenon DEF Fits, FitsFor, FitsForOn, FitsForBody
<1>2. PICK g : g = [k \in Below(v) |-> FitsFor(k)]
  OBVIOUS
<1>3. FitsFor(v) = FitsForBody(g, v)
  BY <1>2, FitsForUnfolds
<1>4. \A k \in Kids(v) : g[k] = FitsFor(k)
  BY <1>2, KidsAreBelow
<1>5. PICK d : d = IF v.kind = "list" THEN 2 ELSE 3
  OBVIOUS
<1>6. FitsForBody(g, v)[n] = IF Kids(v) = {} THEN n >= 1 ELSE \A k \in Kids(v) : g[k][n - d]
  BY <1>5 DEF FitsForBody
<1>7. \A k \in Kids(v) : g[k][n - d] = Fits(k, n - d)
  BY <1>1, <1>4
<1>8. Fits(v, n) = IF Kids(v) = {} THEN n >= 1 ELSE \A k \in Kids(v) : g[k][n - d]
  BY <1>1, <1>3, <1>6
<1>9. Fits(v, n) <=> IF Kids(v) = {} THEN n >= 1 ELSE \A k \in Kids(v) : Fits(k, n - d)
  BY <1>7, <1>8
<1> QED BY <1>5, <1>9

\* A tagged value takes at least one level, and no fewer than the value has.
LEMMA FitsTakes ==
  ASSUME NEW v, ~Deeper(v, MaxNesting)
  PROVE  /\ \A n \in Int : Fits(v, n) => n >= 1
         /\ \A n \in Nat : Fits(v, n) => ~Deeper(v, n)
<1>1. PICK S : S = {u \in Nodes(v) : /\ \A n \in Int : Fits(u, n) => n >= 1
                                     /\ \A n \in Nat : Fits(u, n) => ~Deeper(u, n)}
  OBVIOUS
<1>2. Grown(Nodes(v)) /\ v \in Nodes(v)
  BY NodesGrown
<1>3. ASSUME NEW u \in Nodes(v), Below(u) \subseteq S PROVE u \in S
  <2>1. ~Deeper(u, MaxNesting)
    BY <1>2 DEF Grown
  <2>2. PICK d \in {2, 3} : d = IF u.kind = "list" THEN 2 ELSE 3
    OBVIOUS
  <2>3. \A n \in Int : Fits(u, n) <=> IF Kids(u) = {} THEN n >= 1 ELSE \A k \in Kids(u) : Fits(k, n - d)
    BY <2>1, <2>2, FitsIs
  <2>4. \A k \in Kids(u) : /\ \A n \in Int : Fits(k, n) => n >= 1
                           /\ \A n \in Nat : Fits(k, n) => ~Deeper(k, n)
    BY <1>1, <1>3, KidsAreBelow
  <2>5. ASSUME NEW n \in Int, Fits(u, n) PROVE n >= 1
    BY <2>3, <2>4, <2>5
  <2>6. ASSUME NEW n \in Nat, Fits(u, n) PROVE ~Deeper(u, n)
    <3>1. ASSUME NEW k \in Kids(u) PROVE n # 0 /\ ~Deeper(k, n - 1)
      <4>1. Fits(k, n - d) /\ n - d >= 1
        BY <2>3, <2>4, <2>6, <3>1
      <4>2. n - d \in Nat /\ n - 1 \in Nat /\ n - d <= n - 1 /\ n # 0
        BY <4>1
      <4>3. ~Deeper(k, n - d)
        BY <2>4, <4>1, <4>2
      <4> QED BY <4>2, <4>3, DepthIsALimit
    <3> QED BY <3>1, DepthOfKids
  <2> QED BY <1>1, <2>5, <2>6
<1> QED BY <1>1, <1>2, <1>3, BelowInduction

(***************************************************************************)
(* The depth of tagged JSON.                                               *)
(***************************************************************************)
LEMMA LeafDepth ==
  ASSUME NEW x, NEW n \in Nat
  PROVE  ~Deeper(Leaf(x), n) /\ Kids(Leaf(x)) = {}
<1>1. PICK l : l = Leaf(x)
  OBVIOUS
<1>2. l.parts = <<>>
  BY <1>1 DEF Leaf
<1>3. DOMAIN l.parts = {}
  BY <1>2
<1>4. Kids(l) = {}
  BY <1>3 DEF Kids, Range
<1> QED BY <1>1, <1>4, DepthOfKids

\* The kids of a tagged object.
LEMMA TaggedKids ==
  ASSUME NEW f, Marker \notin DOMAIN f
  PROVE  /\ Tagged(f).json = "object"
         /\ DOMAIN Tagged(f).parts = DOMAIN f \cup {Marker} /\ Tagged(f).parts[Marker] = True
         /\ \A n \in DOMAIN f : Tagged(f).parts[n] = f[n]
         /\ Kids(Tagged(f)) = Range(f) \cup {True}
<1>1. PICK t : t = Tagged(f)
  OBVIOUS
<1>2. t.json = "object" /\ t.parts = [n \in DOMAIN f \cup {Marker} |-> IF n = Marker THEN True ELSE f[n]]
  BY <1>1 DEF Tagged, Object
<1>3. /\ DOMAIN t.parts = DOMAIN f \cup {Marker} /\ t.parts[Marker] = True
      /\ \A n \in DOMAIN f : t.parts[n] = f[n]
  BY <1>2
<1>4. Kids(t) = Range(f) \cup {True}
  BY <1>3 DEF Kids, Range
<1> QED BY <1>1, <1>2, <1>3, <1>4

\* The object of a tagged value: its mark, its kind and one part more.
LEMMA TaggedDepth ==
  ASSUME NEW f, Marker \notin DOMAIN f, NEW kind, NEW part, Range(f) = {Text(kind), part}, NEW n \in Nat
  PROVE  ~Deeper(Tagged(f), n) <=> n # 0 /\ ~Deeper(part, n - 1)
<1>1. Kids(Tagged(f)) = {Text(kind), part, True}
  BY TaggedKids
<1>2. \A m \in Nat : ~Deeper(Text(kind), m) /\ ~Deeper(True, m)
  BY LeafDepth DEF Text, True
<1>3. n # 0 => n - 1 \in Nat
  OBVIOUS
<1> QED BY <1>1, <1>2, <1>3, DepthOfKids

\* The depth of an array.
LEMMA ArrayDepth ==
  ASSUME NEW s, NEW n \in Nat
  PROVE  ~Deeper(Array(s), n) <=> DOMAIN s = {} \/ (n # 0 /\ \A i \in DOMAIN s : ~Deeper(s[i], n - 1))
<1>1. Array(s).parts = s
  BY DEF Array
<1>2. \A k : k \in Kids(Array(s)) <=> \E i \in DOMAIN s : k = s[i]
  BY <1>1 DEF Kids, Range
<1>3. Kids(Array(s)) = {} <=> DOMAIN s = {}
  BY <1>2
<1>4. (\A k \in Kids(Array(s)) : ~Deeper(k, n - 1)) <=> \A i \in DOMAIN s : ~Deeper(s[i], n - 1)
  BY <1>2
<1> QED BY <1>3, <1>4, DepthOfKids

\* The depth of an entry of a map.
LEMMA EntryDepth ==
  ASSUME NEW k, NEW v, NEW n \in Nat
  PROVE  /\ Kids(Object([key |-> k, value |-> v])) = {k, v}
         /\ ~Deeper(Object([key |-> k, value |-> v]), n) <=> n # 0 /\ ~Deeper(k, n - 1) /\ ~Deeper(v, n - 1)
<1>1. PICK e : e = Object([key |-> k, value |-> v])
  OBVIOUS
<1>2. e.parts = [key |-> k, value |-> v]
  BY <1>1 DEF Object
<1>3. DOMAIN e.parts = {"key", "value"} /\ e.parts["key"] = k /\ e.parts["value"] = v
  BY <1>2
<1>4. Kids(e) = {k, v}
  BY <1>3 DEF Kids, Range
<1> QED BY <1>1, <1>4, DepthOfKids

\* A tagged scalar has its kind, and its text unless it is null.
LEMMA TagScalarIs ==
  ASSUME NEW v
  PROVE  \E f : /\ TagScalar(v) = Tagged(f) /\ Marker \notin DOMAIN f
                /\ f["kind"] = Text(v.kind) /\ "kind" \in DOMAIN f
                /\ \/ DOMAIN f = {"kind"} /\ v.kind = "null"
                   \/ DOMAIN f = {"kind", "value"} /\ v.kind = "bool" /\ f["value"] = Leaf(v)
                   \/ DOMAIN f = {"kind", "value"} /\ v.kind \notin {"null", "bool"} /\ f["value"] = Text(SentText(v))
<1>0. Marker \notin {"kind", "value"}
  BY DEF Marker
<1>1. CASE v.kind = "null"
  <2>1. PICK f : f = [kind |-> Text("null")]
    OBVIOUS
  <2>2. DOMAIN f = {"kind"} /\ f["kind"] = Text(v.kind)
    BY <1>1, <2>1
  <2>3. TagScalar(v) = Tagged(f)
    BY <1>1, <2>1 DEF TagScalar
  <2> QED BY <1>0, <1>1, <2>2, <2>3
<1>2. CASE v.kind = "bool"
  <2>1. PICK f : f = [kind |-> Text("bool"), value |-> Leaf(v)]
    OBVIOUS
  <2>2. DOMAIN f = {"kind", "value"} /\ f["kind"] = Text(v.kind) /\ f["value"] = Leaf(v)
    BY <1>2, <2>1
  <2>3. TagScalar(v) = Tagged(f)
    BY <1>2, <2>1 DEF TagScalar
  <2> QED BY <1>0, <1>2, <2>2, <2>3
<1>3. CASE v.kind \notin {"null", "bool"}
  <2>1. PICK f : f = [kind |-> Text(v.kind), value |-> Text(SentText(v))]
    OBVIOUS
  <2>2. DOMAIN f = {"kind", "value"} /\ f["kind"] = Text(v.kind) /\ f["value"] = Text(SentText(v))
    BY <2>1
  <2>3. TagScalar(v) = Tagged(f)
    BY <1>3, <2>1 DEF TagScalar
  <2> QED BY <1>0, <1>3, <2>2, <2>3
<1> QED BY <1>1, <1>2, <1>3

\* A tagged scalar takes one level.
LEMMA TagScalarDepth ==
  ASSUME NEW v, NEW n \in Nat
  PROVE  ~Deeper(TagScalar(v), n) <=> n # 0
<1>1. PICK f : /\ TagScalar(v) = Tagged(f) /\ Marker \notin DOMAIN f
               /\ f["kind"] = Text(v.kind) /\ "kind" \in DOMAIN f
               /\ \/ DOMAIN f = {"kind"}
                  \/ DOMAIN f = {"kind", "value"} /\ f["value"] \in {Leaf(v), Text(SentText(v))}
  BY TagScalarIs
<1>2. PICK part : Range(f) = {Text(v.kind), part} /\ part \in {Text(v.kind), Leaf(v), Text(SentText(v))}
  <2>1. CASE DOMAIN f = {"kind"}
    <3>1. Range(f) = {Text(v.kind), Text(v.kind)}
      BY <1>1, <2>1 DEF Range
    <3> QED BY <3>1
  <2>2. CASE DOMAIN f = {"kind", "value"} /\ f["value"] \in {Leaf(v), Text(SentText(v))}
    <3>1. Range(f) = {Text(v.kind), f["value"]}
      BY <1>1, <2>2 DEF Range
    <3> QED BY <2>2, <3>1
  <2> QED BY <1>1, <2>1, <2>2
<1>3. \A m \in Nat : ~Deeper(part, m)
  BY <1>2, LeafDepth DEF Text
<1>4. n # 0 => n - 1 \in Nat
  OBVIOUS
<1> QED BY <1>1, <1>2, <1>3, <1>4, TaggedDepth

\* A tagged list takes two levels around its items.
LEMMA ListTagDepth ==
  ASSUME NEW v, IsValue(v), v.kind = "list", NEW n \in Nat
  PROVE  ~Deeper(Tag(v), n) <=>
           n # 0 /\ (DOMAIN v.parts = {} \/ (n >= 2 /\ \A i \in DOMAIN v.parts : ~Deeper(Tag(v.parts[i]), n - 2)))
<1>1. PICK s : s = [i \in DOMAIN v.parts |-> Tag(v.parts[i])]
  OBVIOUS
<1>2. PICK f : f = [kind |-> Text("list"), items |-> Array(s)]
  OBVIOUS
<1>3. Tag(v) = Tagged(f)
  BY <1>1, <1>2, TagIs
<1>4. DOMAIN f = {"kind", "items"} /\ f["kind"] = Text("list") /\ f["items"] = Array(s)
  BY <1>2
<1>5. Range(f) = {Text("list"), Array(s)}
  BY <1>4 DEF Range
<1>6. Marker \notin DOMAIN f
  BY <1>4 DEF Marker
<1>7. ~Deeper(Tag(v), n) <=> n # 0 /\ ~Deeper(Array(s), n - 1)
  BY <1>3, <1>5, <1>6, TaggedDepth
<1>8. ASSUME n # 0
      PROVE  ~Deeper(Array(s), n - 1) <=> DOMAIN s = {} \/ (n - 1 # 0 /\ \A i \in DOMAIN s : ~Deeper(s[i], n - 2))
  <2>1. PICK m \in Nat : m = n - 1 /\ m - 1 = n - 2
    BY <1>8
  <2> QED BY <2>1, ArrayDepth
<1>9. n # 0 => (n - 1 # 0 <=> n >= 2)
  OBVIOUS
<1>10. DOMAIN s = DOMAIN v.parts /\ \A i \in DOMAIN s : s[i] = Tag(v.parts[i])
  BY <1>1
<1> QED BY <1>7, <1>8, <1>9, <1>10

\* A tagged map takes three levels around its values, and one more for its keys.
LEMMA MapTagDepth ==
  ASSUME NEW v, IsValue(v), v.kind = "map", NEW n \in Nat
  PROVE  ~Deeper(Tag(v), n) <=>
           n # 0 /\ (DOMAIN v.parts = {} \/ (n >= 4 /\ \A k \in DOMAIN v.parts : ~Deeper(Tag(v.parts[k]), n - 3)))
<1>1. PICK keys : keys = SetToSeq(DOMAIN v.parts)
  OBVIOUS
<1>2. IsFiniteSet(DOMAIN v.parts)
  <2>1. v \in Nodes(v)
    BY NodesGrown DEF IsValue
  <2> QED BY <2>1, ValuesAreListable DEF Listable
<1>3. Range(keys) = DOMAIN v.parts
  BY <1>1, <1>2, SequenceOf
<1>4. PICK s : s = [i \in DOMAIN keys |-> Object([key |-> TagScalar(keys[i]), value |-> Tag(v.parts[keys[i]])])]
  OBVIOUS
<1>5. PICK f : f = [kind |-> Text("map"), entries |-> Array(s)]
  OBVIOUS
<1>6. Tag(v) = Tagged(f)
  BY <1>1, <1>4, <1>5, TagIs
<1>7. DOMAIN f = {"kind", "entries"} /\ f["kind"] = Text("map") /\ f["entries"] = Array(s)
  BY <1>5
<1>8. Range(f) = {Text("map"), Array(s)}
  BY <1>7 DEF Range
<1>9. Marker \notin DOMAIN f
  BY <1>7 DEF Marker
<1>10. ~Deeper(Tag(v), n) <=> n # 0 /\ ~Deeper(Array(s), n - 1)
  BY <1>6, <1>8, <1>9, TaggedDepth
<1>11. DOMAIN s = DOMAIN keys
  BY <1>4
<1>12. DOMAIN s = {} <=> DOMAIN v.parts = {}
  BY <1>3, <1>11 DEF Range
<1>13. ASSUME n # 0
       PROVE  ~Deeper(Array(s), n - 1) <=> DOMAIN s = {} \/ (n - 1 # 0 /\ \A i \in DOMAIN s : ~Deeper(s[i], n - 2))
  <2>1. PICK m \in Nat : m = n - 1 /\ m - 1 = n - 2
    BY <1>13
  <2> QED BY <2>1, ArrayDepth
<1>14. ASSUME n >= 2, NEW i \in DOMAIN s
       PROVE  ~Deeper(s[i], n - 2) <=> n >= 4 /\ ~Deeper(Tag(v.parts[keys[i]]), n - 3)
  <2>1. s[i] = Object([key |-> TagScalar(keys[i]), value |-> Tag(v.parts[keys[i]])])
    BY <1>4, <1>11
  <2>2. PICK m \in Nat : m = n - 2 /\ m - 1 = n - 3
    BY <1>14
  <2>3. ~Deeper(s[i], m) <=> m # 0 /\ ~Deeper(TagScalar(keys[i]), m - 1) /\ ~Deeper(Tag(v.parts[keys[i]]), m - 1)
    BY <2>1, <2>2, EntryDepth
  <2>4. m # 0 => (~Deeper(TagScalar(keys[i]), m - 1) <=> m - 1 # 0)
    <3>1. m # 0 => m - 1 \in Nat
      OBVIOUS
    <3> QED BY <3>1, TagScalarDepth
  <2>5. (m # 0 /\ m - 1 # 0) <=> n >= 4
    BY <2>2
  <2> QED BY <2>2, <2>3, <2>4, <2>5
<1>15. ASSUME n >= 2, DOMAIN s # {}
       PROVE  (\A i \in DOMAIN s : ~Deeper(s[i], n - 2)) <=>
              n >= 4 /\ \A k \in DOMAIN v.parts : ~Deeper(Tag(v.parts[k]), n - 3)
  <2>1. (\A i \in DOMAIN s : ~Deeper(s[i], n - 2)) <=>
        n >= 4 /\ \A i \in DOMAIN keys : ~Deeper(Tag(v.parts[keys[i]]), n - 3)
    BY <1>11, <1>14, <1>15
  <2>2. (\A i \in DOMAIN keys : ~Deeper(Tag(v.parts[keys[i]]), n - 3)) <=>
        \A k \in DOMAIN v.parts : ~Deeper(Tag(v.parts[k]), n - 3)
    BY <1>3 DEF Range
  <2> QED BY <2>1, <2>2
<1>16. n # 0 => (n - 1 # 0 <=> n >= 2) /\ (n >= 4 => n >= 2)
  OBVIOUS
<1>17. CASE n = 0
  BY <1>10, <1>17
<1>18. CASE n # 0 /\ DOMAIN s = {}
  BY <1>10, <1>12, <1>13, <1>18
<1>19. CASE n # 0 /\ DOMAIN s # {}
  BY <1>10, <1>12, <1>13, <1>15, <1>16, <1>19
<1> QED BY <1>17, <1>18, <1>19

\* A value fits in the levels that its tagged form has.
LEMMA TagDepth ==
  ASSUME NEW v, IsValue(v)
  PROVE  \A n \in Nat : ~Deeper(Tag(v), n) <=> Fits(v, n)
<1>1. PICK S : S = {u \in Nodes(v) : \A n \in Nat : ~Deeper(Tag(u), n) <=> Fits(u, n)}
  OBVIOUS
<1>2. Grown(Nodes(v)) /\ v \in Nodes(v) /\ ~Deeper(v, MaxNesting)
  BY NodesGrown DEF IsValue
<1>3. ASSUME NEW u \in Nodes(v), Below(u) \subseteq S PROVE u \in S
  <2>1. IsValue(u) /\ IsNode(u) /\ ~Deeper(u, MaxNesting)
    BY <1>2, NodesWithin DEF IsValue, Grown
  <2>2. SUFFICES ASSUME NEW n \in Nat PROVE ~Deeper(Tag(u), n) <=> Fits(u, n)
    BY <1>1
  <2>3. \A i \in DOMAIN u.parts : \A m \in Nat : ~Deeper(Tag(u.parts[i]), m) <=> Fits(u.parts[i], m)
    BY <1>1, <1>3, PartsAreBelow
  <2>4. \A i \in DOMAIN u.parts : \A m \in Int : Fits(u.parts[i], m) => m >= 1
    <3>1. \A i \in DOMAIN u.parts : IsValue(u.parts[i])
      BY <2>1, ValueParts
    <3> QED BY <3>1, FitsTakes DEF IsValue
  <2>5. Kids(u) = {} <=> DOMAIN u.parts = {}
    BY DEF Kids, Range
  <2>6. PICK d \in {2, 3} : d = IF u.kind = "list" THEN 2 ELSE 3
    OBVIOUS
  <2>7. Fits(u, n) <=> IF DOMAIN u.parts = {} THEN n >= 1 ELSE \A i \in DOMAIN u.parts : Fits(u.parts[i], n - d)
    <3>1. Fits(u, n) <=> IF Kids(u) = {} THEN n >= 1 ELSE \A k \in Kids(u) : Fits(k, n - d)
      BY <2>1, <2>6, FitsIs
    <3>2. (\A k \in Kids(u) : Fits(k, n - d)) <=> \A i \in DOMAIN u.parts : Fits(u.parts[i], n - d)
      BY DEF Kids, Range
    <3> QED BY <2>5, <3>1, <3>2
  <2>8. CASE u.kind = "list"
    <3>1. ASSUME n >= 2, NEW i \in DOMAIN u.parts PROVE ~Deeper(Tag(u.parts[i]), n - 2) <=> Fits(u.parts[i], n - 2)
      <4>1. PICK m \in Nat : m = n - 2
        BY <3>1
      <4> QED BY <2>3, <4>1
    <3>2. ASSUME NEW i \in DOMAIN u.parts, Fits(u.parts[i], n - 2) PROVE n >= 2
      BY <2>4, <3>2
    <3>3. ~Deeper(Tag(u), n) <=>
            n # 0 /\ (DOMAIN u.parts = {} \/ (n >= 2 /\ \A i \in DOMAIN u.parts : ~Deeper(Tag(u.parts[i]), n - 2)))
      BY <2>1, <2>8, ListTagDepth
    <3>4. d = 2
      BY <2>6, <2>8
    <3> QED BY <2>7, <3>1, <3>2, <3>3, <3>4
  <2>9. CASE u.kind = "map"
    <3>1. ASSUME n >= 4, NEW i \in DOMAIN u.parts PROVE ~Deeper(Tag(u.parts[i]), n - 3) <=> Fits(u.parts[i], n - 3)
      <4>1. PICK m \in Nat : m = n - 3
        BY <3>1
      <4> QED BY <2>3, <4>1
    <3>2. ASSUME NEW i \in DOMAIN u.parts, Fits(u.parts[i], n - 3) PROVE n >= 4
      BY <2>4, <3>2
    <3>3. ~Deeper(Tag(u), n) <=>
            n # 0 /\ (DOMAIN u.parts = {} \/ (n >= 4 /\ \A i \in DOMAIN u.parts : ~Deeper(Tag(u.parts[i]), n - 3)))
      BY <2>1, <2>9, MapTagDepth
    <3>4. d = 3
      BY <2>6, <2>9
    <3> QED BY <2>7, <3>1, <3>2, <3>3, <3>4
  <2>10. CASE u.kind \notin {"list", "map"}
    <3>1. \A x : ListValue(x).kind = "list" /\ MapValue(x).kind = "map"
      BY DEF ListValue, MapValue
    <3>2. IsScalar(u)
      BY <2>1, <2>10, <3>1 DEF IsNode
    <3>3. DOMAIN u.parts = {}
      BY <2>1, <3>2, ValueKinds
    <3>4. Tag(u) = TagScalar(u)
      BY <2>1, <2>10, TagIs
    <3> QED BY <2>7, <3>3, <3>4, TagScalarDepth
  <2> QED BY <2>8, <2>9, <2>10
<1>4. v \in S
  BY <1>1, <1>2, <1>3, BelowInduction
<1> QED BY <1>1, <1>4

\* JSON is well formed if what lies below it is.
LEMMA WellFormedFromParts ==
  ASSUME NEW t, ~Deeper(t, MaxNesting), t.json # "malformed", \A k \in Kids(t) : WellFormed(k)
  PROVE  WellFormed(t)
BY NodesUnfold DEF WellFormed

\* A leaf is well formed.
LEMMA LeafWellFormed ==
  ASSUME NEW x
  PROVE  WellFormed(Leaf(x))
<1>1. Kids(Leaf(x)) = {} /\ ~Deeper(Leaf(x), MaxNesting)
  BY LeafDepth, NestingAssumption
<1>2. Leaf(x).json # "malformed"
  BY DEF Leaf
<1> QED BY <1>1, <1>2, WellFormedFromParts

\* What lies in a tagged object is well formed with it, and all is below it.
LEMMA TaggedWellFormed ==
  ASSUME NEW f, Marker \notin DOMAIN f, NEW kind, NEW part, Range(f) = {Text(kind), part},
         ~Deeper(Tagged(f), MaxNesting), WellFormed(part)
  PROVE  WellFormed(Tagged(f))
<1>1. Kids(Tagged(f)) = {Text(kind), part, True} /\ Tagged(f).json # "malformed"
  BY TaggedKids
<1>2. WellFormed(Text(kind)) /\ WellFormed(True)
  BY LeafWellFormed DEF Text, True
<1> QED BY <1>1, <1>2, WellFormedFromParts

\* A tagged object is decoded by DecodeTagged.
LEMMA TaggedDecodesAs ==
  ASSUME NEW f, Marker \notin DOMAIN f, ~Deeper(Tagged(f), MaxNesting)
  PROVE  \E g, p : /\ DecodeInput(Tagged(f)) = DecodeTagged(p, g)
                   /\ \A k \in Below(Tagged(f)) : g[k] = DecodeInput(k)
                   /\ DOMAIN p = DOMAIN f \cup {Marker} /\ p[Marker] = True /\ \A n \in DOMAIN f : p[n] = f[n]
<1>1. PICK t : t = Tagged(f)
  OBVIOUS
<1>2. PICK g : g = [k \in Below(t) |-> DecodeInput(k)]
  OBVIOUS
<1>3. DecodeInput(t) = DecodeInputBody(g, t)
  BY <1>1, <1>2, DecodeInputUnfolds
<1>4. /\ t.json = "object" /\ DOMAIN t.parts = DOMAIN f \cup {Marker} /\ t.parts[Marker] = True
      /\ \A n \in DOMAIN f : t.parts[n] = f[n]
  BY <1>1, TaggedKids
<1>5. DecodeInputBody(g, t) = DecodeTagged(t.parts, g)
  BY <1>4 DEF DecodeInputBody
<1> QED BY <1>1, <1>2, <1>3, <1>4, <1>5

\* No value is what a decoder refuses with.
LEMMA ValuesAreNotRefused ==
  ASSUME NEW v, IsValue(v)
  PROVE  v # Refused
<1> SUFFICES ASSUME IsValue(Refused) PROVE FALSE
  OBVIOUS
<1>1. IsNode(Refused)
  BY ValueParts
<1>2. Refused.kind = "refused" /\ Null.kind = "null"
  BY DEF Refused, Null, Value
<1>3. \A x : ListValue(x).kind = "list" /\ MapValue(x).kind = "map"
  BY DEF ListValue, MapValue
<1>4. IsScalar(Refused)
  BY <1>1, <1>2, <1>3 DEF IsNode
<1>5. "refused" \notin DOMAIN Reading
  BY CodecAssumption
<1> QED BY <1>2, <1>4, <1>5 DEF IsScalar

(***************************************************************************)
(* What comes back of a value.                                             *)
(***************************************************************************)
\* One step of ReadBack, and a function that satisfies its equation on D.
ReadBackBody(g, c) ==
  LET parts == [i \in DOMAIN c.parts |-> g[c.parts[i]]]
  IN CASE c.kind \in DOMAIN Reading -> Value(c.kind, Reading[c.kind][SentText(c)])
       [] c.kind = "list" -> ListValue(parts)
       [] c.kind = "map" -> MapValue(parts)
       [] OTHER -> c
ReadBackOn(D, x) == x = [c \in D |-> ReadBackBody(x, c)]

\* One step of ReadBack depends on what it gives for what lies below.
LEMMA ReadBackFrame ==
  ASSUME NEW c, NEW g, NEW h, \A k \in Below(c) : g[k] = h[k]
  PROVE  ReadBackBody(g, c) = ReadBackBody(h, c)
<1>1. \A i \in DOMAIN c.parts : g[c.parts[i]] = h[c.parts[i]]
  BY PartsAreBelow
<1>2. [i \in DOMAIN c.parts |-> g[c.parts[i]]] = [i \in DOMAIN c.parts |-> h[c.parts[i]]]
  BY <1>1
<1>3. ListValue([i \in DOMAIN c.parts |-> g[c.parts[i]]]) = ListValue([i \in DOMAIN c.parts |-> h[c.parts[i]]])
  BY <1>2
<1>4. MapValue([i \in DOMAIN c.parts |-> g[c.parts[i]]]) = MapValue([i \in DOMAIN c.parts |-> h[c.parts[i]]])
  BY <1>2
<1> QED BY <1>3, <1>4, Zenon DEF ReadBackBody

\* The recursion of ReadBack has a solution.
LEMMA ReadBackExists ==
  ASSUME NEW D, Grown(D)
  PROVE  \E x : ReadBackOn(D, x)
<1> DEFINE Upto(n) == \E g : \A u \in D : ~Deeper(u, n) => g[u] = ReadBackBody(g, u)
<1>1. Upto(0)
  <2>1. PICK h : h = [u \in D |-> ReadBackBody(<<>>, u)]
    OBVIOUS
  <2>2. ASSUME NEW u \in D, ~Deeper(u, 0) PROVE h[u] = ReadBackBody(h, u)
    <3>1. 0 \in Nat
      OBVIOUS
    <3>2. \A k : k \notin Below(u)
      BY <2>2, <3>1, DepthOfBelow
    <3>3. ReadBackBody(<<>>, u) = ReadBackBody(h, u)
      BY <3>2, ReadBackFrame
    <3> QED BY <2>1, <3>3
  <2> QED BY <2>2
<1>2. ASSUME NEW n \in Nat, Upto(n) PROVE Upto(n + 1)
  <2>0. n + 1 \in Nat /\ (n + 1) - 1 = n
    OBVIOUS
  <2>1. PICK g : \A u \in D : ~Deeper(u, n) => g[u] = ReadBackBody(g, u)
    BY <1>2
  <2>2. PICK h : h = [u \in D |-> ReadBackBody(g, u)]
    OBVIOUS
  <2>3. ASSUME NEW u \in D, ~Deeper(u, n + 1) PROVE h[u] = ReadBackBody(h, u)
    <3>1. ASSUME NEW k \in Below(u) PROVE g[k] = h[k]
      <4>1. k \in D
        BY BelowGrown
      <4>2. ~Deeper(k, n)
        BY <2>0, <2>3, DepthOfBelow
      <4> QED BY <2>1, <2>2, <4>1, <4>2
    <3>2. ReadBackBody(g, u) = ReadBackBody(h, u)
      BY <3>1, ReadBackFrame
    <3> QED BY <2>2, <3>2
  <2> QED BY <2>3
<1>3. PICK T : T = {n \in Nat : Upto(n)}
  OBVIOUS
<1> HIDE DEF Upto
<1>4. \A n \in Nat : n \in T
  BY <1>1, <1>2, <1>3, EveryNatural
<1>5. Upto(MaxNesting)
  BY <1>3, <1>4, NestingAssumption
<1>6. PICK g : \A u \in D : g[u] = ReadBackBody(g, u)
  BY <1>5 DEF Upto, Grown
<1>7. PICK x : x = [u \in D |-> g[u]]
  OBVIOUS
<1>8. ASSUME NEW u \in D PROVE x[u] = ReadBackBody(x, u)
  <2>1. \A k \in Below(u) : g[k] = x[k]
    BY <1>7, BelowGrown
  <2>2. ReadBackBody(g, u) = ReadBackBody(x, u)
    BY <2>1, ReadBackFrame
  <2> QED BY <1>6, <1>7, <2>2
<1>9. x = [u \in D |-> ReadBackBody(x, u)]
  BY <1>7, <1>8
<1> QED BY <1>9 DEF ReadBackOn

\* It is determined by what ReadBack gives below.
LEMMA ReadBackUnfolds ==
  ASSUME NEW t, ~Deeper(t, MaxNesting)
  PROVE  \A g : (\A k \in Below(t) : g[k] = ReadBack(k)) => ReadBack(t) = ReadBackBody(g, t)
<1>1. ASSUME NEW D, Grown(D), NEW x, ReadBackOn(D, x),
             NEW E, Grown(E), NEW y, ReadBackOn(E, y), NEW k \in D \cap E
      PROVE  x[k] = y[k]
  <2>1. PICK S : S = {u \in D \cap E : x[u] = y[u]}
    OBVIOUS
  <2>2. Grown(D \cap E)
    BY <1>1 DEF Grown
  <2>3. ASSUME NEW u \in D \cap E, Below(u) \subseteq S PROVE u \in S
    <3>1. \A v \in Below(u) : x[v] = y[v]
      BY <2>1, <2>3
    <3>2. ReadBackBody(x, u) = ReadBackBody(y, u)
      BY <1>1, <3>1, ReadBackFrame
    <3> QED BY <1>1, <2>1, <3>2 DEF ReadBackOn
  <2> QED BY <2>1, <2>2, <2>3, BelowInduction
<1>2. ASSUME NEW k, ~Deeper(k, MaxNesting)
      PROVE  \E x : ReadBackOn(Nodes(k), x) /\ ReadBack(k) = x[k]
  <2>1. \E x : ReadBackOn(Nodes(k), x)
    BY <1>2, NodesGrown, ReadBackExists
  <2>2. PICK x : x = CHOOSE y : ReadBackOn(Nodes(k), y)
    OBVIOUS
  <2>3. ReadBackOn(Nodes(k), x)
    BY <2>1, <2>2, Zenon
  <2>4. ReadBack(k) = x[k]
    BY <2>2, Zenon DEF ReadBack, ReadBackOn, ReadBackBody
  <2> QED BY <2>3, <2>4
<1>3. PICK x : ReadBackOn(Nodes(t), x) /\ ReadBack(t) = x[t]
  BY <1>2
<1>4. Grown(Nodes(t)) /\ t \in Nodes(t)
  BY NodesGrown
<1>5. ASSUME NEW k \in Below(t) PROVE x[k] = ReadBack(k)
  <2>1. k \in Nodes(t)
    BY <1>4, BelowGrown
  <2>2. ~Deeper(k, MaxNesting) /\ Nodes(k) \subseteq Nodes(t)
    BY <1>4, <2>1, NodesWithin DEF Grown
  <2>3. PICK y : ReadBackOn(Nodes(k), y) /\ ReadBack(k) = y[k]
    BY <1>2, <2>2
  <2>4. Grown(Nodes(k)) /\ k \in Nodes(k)
    BY <2>2, NodesGrown
  <2> QED BY <1>1, <1>3, <1>4, <2>1, <2>3, <2>4
<1>6. ASSUME NEW g, \A k \in Below(t) : g[k] = ReadBack(k) PROVE ReadBack(t) = ReadBackBody(g, t)
  <2>1. ReadBackBody(g, t) = ReadBackBody(x, t)
    BY <1>4, <1>5, <1>6, ReadBackFrame
  <2> QED BY <1>3, <1>4, <2>1 DEF ReadBackOn
<1> QED BY <1>6

\* What comes back of a value, by what comes back of its parts.
LEMMA ReadBackIs ==
  ASSUME NEW v, ~Deeper(v, MaxNesting)
  PROVE  /\ v.kind \in DOMAIN Reading => ReadBack(v) = Value(v.kind, Reading[v.kind][SentText(v)])
         /\ v.kind = "list" => ReadBack(v) = ListValue([i \in DOMAIN v.parts |-> ReadBack(v.parts[i])])
         /\ v.kind = "map" => ReadBack(v) = MapValue([k \in DOMAIN v.parts |-> ReadBack(v.parts[k])])
         /\ v.kind \notin DOMAIN Reading \cup {"list", "map"} => ReadBack(v) = v
<1>1. PICK g : g = [k \in Below(v) |-> ReadBack(k)]
  OBVIOUS
<1>2. ReadBack(v) = ReadBackBody(g, v)
  BY <1>1, ReadBackUnfolds
<1>3. \A i \in DOMAIN v.parts : g[v.parts[i]] = ReadBack(v.parts[i])
  BY <1>1, PartsAreBelow
<1>4. [i \in DOMAIN v.parts |-> g[v.parts[i]]] = [i \in DOMAIN v.parts |-> ReadBack(v.parts[i])]
  BY <1>3
<1>5. "list" \notin DOMAIN Reading /\ "map" \notin DOMAIN Reading
  BY CodecAssumption DEF OtherKinds
<1>6. v.kind = "list" => ReadBack(v) = ListValue([i \in DOMAIN v.parts |-> g[v.parts[i]]])
  BY <1>2, <1>5 DEF ReadBackBody
<1>7. v.kind = "map" => ReadBack(v) = MapValue([k \in DOMAIN v.parts |-> g[v.parts[k]]])
  BY <1>2, <1>5 DEF ReadBackBody
<1>8. v.kind \in DOMAIN Reading => ReadBack(v) = Value(v.kind, Reading[v.kind][SentText(v)])
  BY <1>2, <1>5 DEF ReadBackBody
<1>9. v.kind \notin DOMAIN Reading \cup {"list", "map"} => ReadBack(v) = v
  BY <1>2 DEF ReadBackBody
<1> QED BY <1>4, <1>6, <1>7, <1>8, <1>9

\* The runtime parses all of a value when it parses its own text and its parts.
LEMMA ResendableIs ==
  ASSUME NEW v, ~Deeper(v, MaxNesting)
  PROVE  Resendable(v) <=> /\ v.kind \in DOMAIN Reading => SentText(v) \in DOMAIN Reading[v.kind]
                           /\ \A i \in DOMAIN v.parts : Resendable(v.parts[i])
<1> DEFINE Parsed(c) == c.kind \in DOMAIN Reading => SentText(c) \in DOMAIN Reading[c.kind]
<1>1. \A u : u \in Nodes(v) <=> u = v \/ \E k \in Kids(v) : u \in Nodes(k)
  BY NodesUnfold
<1>2. \A k : k \in Kids(v) <=> \E i \in DOMAIN v.parts : k = v.parts[i]
  BY DEF Kids, Range
<1>3. \A c : Resendable(c) <=> \A u \in Nodes(c) : Parsed(u)
  BY DEF Resendable
<1> HIDE DEF Parsed
<1>4. Resendable(v) <=> Parsed(v) /\ \A i \in DOMAIN v.parts : Resendable(v.parts[i])
  BY <1>1, <1>2, <1>3
<1> QED BY <1>4 DEF Parsed

\* The same for a scalar: it has no parts.
LEMMA ScalarResendable ==
  ASSUME NEW v, IsScalar(v)
  PROVE  /\ ~Deeper(v, MaxNesting) /\ v.kind \notin {"list", "map"}
         /\ Resendable(v) <=> (v.kind \in DOMAIN Reading => SentText(v) \in DOMAIN Reading[v.kind])
<1>1. DOMAIN v.parts = {} /\ v.kind \notin {"list", "map"}
  BY ValueKinds DEF IsNode
<1>2. ~Deeper(v, MaxNesting)
  BY ScalarIsValue DEF IsValue
<1> QED BY <1>1, <1>2, ResendableIs

\* The keys of maps come back as they were.
LEMMA KeysComeBack ==
  ASSUME NEW v, IsScalar(v), v.kind \in KeyKinds
  PROVE  Resendable(v) /\ ReadBack(v) = v
<1>1. /\ {"int", "uint"} \subseteq DOMAIN Reading /\ "bool" \notin DOMAIN Reading /\ "string" \notin DOMAIN Reading
      /\ "null" \notin DOMAIN Reading
  BY CodecAssumption DEF OtherKinds
<1>2. CASE v.kind \in {"bool", "string"}
  <2>1. Resendable(v)
    BY <1>1, <1>2, ScalarResendable
  <2>2. ReadBack(v) = v
    BY <1>1, <1>2, ScalarResendable, ReadBackIs
  <2> QED BY <2>1, <2>2
<1>3. CASE v.kind \in {"int", "uint"}
  <2>1. Null.kind = "null"
    BY DEF Null, Value
  <2>2. v = Value(v.kind, v.text) /\ v.text \in Range(Reading[v.kind])
    BY <1>3, <2>1 DEF IsScalar
  <2>3. v.text \in DOMAIN Reading[v.kind] /\ Reading[v.kind][v.text] = v.text /\ SdkText[v.kind][v.text] = v.text
    BY <1>3, <2>2, CodecAssumption
  <2>4. SentText(v) = v.text
    BY <1>3, <2>3 DEF SentText
  <2>5. Resendable(v)
    BY <2>3, <2>4, ScalarResendable
  <2>6. ReadBack(v) = Value(v.kind, Reading[v.kind][SentText(v)])
    BY <1>1, <1>3, ScalarResendable, ReadBackIs
  <2> QED BY <2>2, <2>3, <2>4, <2>5, <2>6
<1> QED BY <1>2, <1>3 DEF KeyKinds

\* What comes back is a value, as deep as what was sent.
LEMMA ReadBackIsValue ==
  ASSUME NEW v, IsValue(v), Resendable(v)
  PROVE  IsValue(ReadBack(v)) /\ \A n \in Nat : ~Deeper(v, n) => ~Deeper(ReadBack(v), n)
<1>1. PICK S : S = {u \in Nodes(v) : Resendable(u) => /\ IsValue(ReadBack(u))
                                                     /\ \A n \in Nat : ~Deeper(u, n) => ~Deeper(ReadBack(u), n)}
  OBVIOUS
<1>2. Grown(Nodes(v)) /\ v \in Nodes(v) /\ ~Deeper(v, MaxNesting)
  BY NodesGrown DEF IsValue
<1>3. ASSUME NEW u \in Nodes(v), Below(u) \subseteq S PROVE u \in S
  <2>1. IsValue(u) /\ IsNode(u) /\ ~Deeper(u, MaxNesting)
    BY <1>2, NodesWithin DEF IsValue, Grown
  <2>2. SUFFICES ASSUME Resendable(u)
                 PROVE  IsValue(ReadBack(u)) /\ \A n \in Nat : ~Deeper(u, n) => ~Deeper(ReadBack(u), n)
    BY <1>1
  <2>3. \A i \in DOMAIN u.parts : /\ Resendable(u.parts[i]) /\ u.parts[i] \in Kids(u)
                                 /\ IsValue(ReadBack(u.parts[i]))
                                 /\ \A n \in Nat : ~Deeper(u.parts[i], n) => ~Deeper(ReadBack(u.parts[i]), n)
    BY <1>1, <1>3, <2>1, <2>2, ResendableIs, PartsAreBelow DEF Kids, Range
  <2>4. PICK w : w = ReadBack(u)
    OBVIOUS
  <2>5. ASSUME IsNode(w), DOMAIN w.parts = DOMAIN u.parts, \A i \in DOMAIN u.parts : w.parts[i] = ReadBack(u.parts[i])
        PROVE  IsValue(w) /\ \A n \in Nat : ~Deeper(u, n) => ~Deeper(w, n)
    <3>1. ASSUME NEW n \in Nat, ~Deeper(u, n) PROVE ~Deeper(w, n)
      <4>1. ASSUME NEW i \in DOMAIN w.parts PROVE n # 0 /\ ~Deeper(w.parts[i], n - 1)
        <5>1. n # 0 /\ ~Deeper(u.parts[i], n - 1)
          BY <2>3, <2>5, <3>1, <4>1, DepthOfKids
        <5>2. n - 1 \in Nat
          BY <5>1
        <5> QED BY <2>3, <2>5, <4>1, <5>1, <5>2
      <4> QED BY <4>1, DepthFromParts
    <3>2. ~Deeper(w, MaxNesting)
      BY <2>1, <3>1, NestingAssumption
    <3>3. \A i \in DOMAIN w.parts : IsValue(w.parts[i])
      BY <2>3, <2>5
    <3> QED BY <2>5, <3>1, <3>2, <3>3, ValueFromParts
  <2>6. CASE u.kind = "list"
    <3>1. w = ListValue([i \in DOMAIN u.parts |-> ReadBack(u.parts[i])])
      BY <2>1, <2>4, <2>6, ReadBackIs
    <3>2. w.parts = [i \in DOMAIN u.parts |-> ReadBack(u.parts[i])]
      BY <3>1 DEF ListValue
    <3>3. DOMAIN w.parts = DOMAIN u.parts /\ \A i \in DOMAIN u.parts : w.parts[i] = ReadBack(u.parts[i])
      BY <3>2
    <3>4. w = ListValue([i \in DOMAIN w.parts |-> w.parts[i]])
      BY <3>1, <3>2
    <3> QED BY <2>4, <2>5, <3>3, <3>4 DEF IsNode
  <2>7. CASE u.kind = "map"
    <3>1. w = MapValue([k \in DOMAIN u.parts |-> ReadBack(u.parts[k])])
      BY <2>1, <2>4, <2>7, ReadBackIs
    <3>2. w.parts = [k \in DOMAIN u.parts |-> ReadBack(u.parts[k])]
      BY <3>1 DEF MapValue
    <3>3. DOMAIN w.parts = DOMAIN u.parts /\ \A i \in DOMAIN u.parts : w.parts[i] = ReadBack(u.parts[i])
      BY <3>2
    <3>4. w = MapValue([k \in DOMAIN w.parts |-> w.parts[k]])
      BY <3>1, <3>2
    <3>5. \A k \in DOMAIN w.parts : IsScalar(k) /\ k.kind \in KeyKinds
      BY <2>1, <2>7, <3>3, ValueKinds
    <3>6. IsFiniteSet(DOMAIN w.parts)
      <4>1. u \in Nodes(u)
        BY <2>1, NodesGrown
      <4>2. Listable(u)
        BY <2>1, <4>1, ValuesAreListable
      <4> QED BY <2>7, <3>3, <4>2 DEF Listable
    <3>7. IsNode(w)
      BY <3>4, <3>5, <3>6 DEF IsNode
    <3> QED BY <2>4, <2>5, <3>3, <3>7
  <2>8. CASE u.kind \notin {"list", "map"}
    <3>1. \A x : ListValue(x).kind = "list" /\ MapValue(x).kind = "map"
      BY DEF ListValue, MapValue
    <3>2. IsScalar(u)
      BY <2>1, <2>8, <3>1 DEF IsNode
    <3>3. IsScalar(w)
      <4>1. CASE u.kind \in DOMAIN Reading
        <5>1. w = Value(u.kind, Reading[u.kind][SentText(u)])
          BY <2>1, <2>4, <4>1, ReadBackIs
        <5>2. SentText(u) \in DOMAIN Reading[u.kind]
          BY <2>2, <3>2, <4>1, ScalarResendable
        <5> QED BY <4>1, <5>1, <5>2, WrittenIsScalar
      <4>2. CASE u.kind \notin DOMAIN Reading
        <5>1. w = u
          BY <2>1, <2>4, <2>8, <4>2, ReadBackIs
        <5> QED BY <3>2, <5>1
      <4> QED BY <4>1, <4>2
    <3> QED BY <2>4, <3>3, ScalarIsValue
  <2> QED BY <2>6, <2>7, <2>8
<1>4. v \in S
  BY <1>1, <1>2, <1>3, BelowInduction
<1> QED BY <1>1, <1>4

\* What the decoder makes of the tagged form of v.
ComesBack(v) == IF Resendable(v) THEN ReadBack(v) ELSE Refused

\* A scalar that is sent tagged is read back, or refused.
LEMMA TagScalarDecodes ==
  ASSUME NEW v, IsScalar(v), ~Deeper(TagScalar(v), MaxNesting)
  PROVE  DecodeInput(TagScalar(v)) = ComesBack(v) /\ WellFormed(TagScalar(v))
<1>0. /\ v = Value(v.kind, v.text)
      /\ \/ v.kind \in DOMAIN Reading
         \/ v.kind \in {"bool", "string"}
         \/ v.kind = "null" /\ v = Null
  <2>1. Null.kind = "null"
    BY DEF Null, Value
  <2> QED BY <2>1 DEF IsScalar
<1>1. PICK f : /\ TagScalar(v) = Tagged(f) /\ Marker \notin DOMAIN f
               /\ f["kind"] = Text(v.kind) /\ "kind" \in DOMAIN f
               /\ \/ DOMAIN f = {"kind"} /\ v.kind = "null"
                  \/ DOMAIN f = {"kind", "value"} /\ v.kind = "bool" /\ f["value"] = Leaf(v)
                  \/ DOMAIN f = {"kind", "value"} /\ v.kind \notin {"null", "bool"} /\ f["value"] = Text(SentText(v))
  BY TagScalarIs
<1>2. PICK g, p : /\ DecodeInput(Tagged(f)) = DecodeTagged(p, g)
                  /\ DOMAIN p = DOMAIN f \cup {Marker} /\ p[Marker] = True /\ \A n \in DOMAIN f : p[n] = f[n]
  <2>1. ~Deeper(Tagged(f), MaxNesting) /\ Marker \notin DOMAIN f
    BY <1>1
  <2>2. \E g, p : /\ DecodeInput(Tagged(f)) = DecodeTagged(p, g)
                  /\ \A k \in Below(Tagged(f)) : g[k] = DecodeInput(k)
                  /\ DOMAIN p = DOMAIN f \cup {Marker} /\ p[Marker] = True /\ \A n \in DOMAIN f : p[n] = f[n]
    BY <2>1, TaggedDecodesAs
  <2> QED BY <2>2
<1>3. /\ \A x : Leaf(x).json = "leaf" /\ Leaf(x).has = x
      /\ \A x : Text(x).json = "leaf" /\ Text(x).has.kind = "string" /\ Text(x).has.text = x
      /\ \A x : Text(x).has = Value("string", x)
  BY DEF Leaf, Text, Value
<1>4. p["kind"].json = "leaf" /\ p["kind"].has.kind = "string" /\ p["kind"].has.text = v.kind /\ "kind" \in DOMAIN p
  BY <1>1, <1>2, <1>3
<1>5. v.kind \in DOMAIN Reading \cup {"null", "bool", "string"} /\ v.kind \notin {"list", "map"}
  BY <1>0, CodecAssumption DEF OtherKinds
<1>6. PICK raw : raw = IF "value" \in DOMAIN p THEN p["value"] ELSE Leaf(Null)
  OBVIOUS
<1>7. DecodeTagged(p, g) = DecodeScalar(v.kind, raw)
  <2>1. Has(p, "kind", "leaf")
    BY <1>4 DEF Has
  <2>2. p[Marker] = True
    BY <1>2
  <2> QED BY <1>4, <1>5, <1>6, <2>1, <2>2, Zenon DEF DecodeTagged
<1>8. "value" # Marker
  BY DEF Marker
<1>9. CASE v.kind = "null"
  <2>1. DecodeScalar(v.kind, raw) = Null
    BY <1>9 DEF DecodeScalar
  <2>2. v = Null /\ ComesBack(v) = v
    <3>1. "null" \notin DOMAIN Reading
      BY CodecAssumption DEF OtherKinds
    <3>2. Resendable(v) /\ ReadBack(v) = v
      BY <1>9, <3>1, ScalarResendable, ReadBackIs
    <3> QED BY <1>0, <1>9, <3>1, <3>2 DEF ComesBack
  <2>3. Range(f) = {Text(v.kind), Text(v.kind)}
    BY <1>1, <1>9 DEF Range
  <2>4. WellFormed(Text(v.kind))
    BY LeafWellFormed DEF Text
  <2> QED BY <1>1, <1>2, <1>7, <2>1, <2>2, <2>3, <2>4, TaggedWellFormed
<1>10. CASE v.kind = "bool"
  <2>1. DOMAIN f = {"kind", "value"} /\ f["value"] = Leaf(v)
    BY <1>1, <1>10
  <2>2. raw = Leaf(v)
    BY <1>2, <1>6, <2>1
  <2>3. DecodeScalar(v.kind, raw) = ComesBack(v)
    <3>1. ComesBack(v) = v
      BY <1>10, KeysComeBack DEF KeyKinds, ComesBack
    <3> QED BY <1>3, <1>10, <2>2, <3>1 DEF DecodeScalar
  <2>4. Range(f) = {Text(v.kind), Leaf(v)}
    BY <1>1, <2>1 DEF Range
  <2>5. WellFormed(Leaf(v))
    BY LeafWellFormed
  <2> QED BY <1>1, <1>2, <1>7, <2>3, <2>4, <2>5, TaggedWellFormed
<1>11. CASE v.kind \notin {"null", "bool"}
  <2>1. DOMAIN f = {"kind", "value"} /\ f["value"] = Text(SentText(v))
    BY <1>1, <1>11
  <2>2. raw = Text(SentText(v))
    BY <1>2, <1>6, <2>1
  <2>3. DecodeScalar(v.kind, raw) = ComesBack(v)
    <3>1. CASE v.kind = "string"
      <4>1. SentText(v) = v.text
        BY <3>1 DEF SentText
      <4>2. raw.json = "leaf" /\ raw.has = Value("string", v.text) /\ raw.has.kind = "string"
        BY <1>3, <2>2, <4>1 DEF Value
      <4>3. raw.has = v
        BY <1>0, <3>1, <4>2
      <4>4. ComesBack(v) = v
        BY <3>1, KeysComeBack DEF KeyKinds, ComesBack
      <4> QED BY <3>1, <4>2, <4>3, <4>4 DEF DecodeScalar
    <3>2. CASE v.kind # "string"
      <4>1. v.kind \in DOMAIN Reading
        BY <1>0, <1>11, <3>2
      <4>2. raw.json = "leaf" /\ raw.has.kind = "string" /\ raw.has.text = SentText(v)
        BY <1>3, <2>2
      <4>3. DecodeScalar(v.kind, raw) = IF SentText(v) \in DOMAIN Reading[v.kind]
                                        THEN Value(v.kind, Reading[v.kind][SentText(v)]) ELSE Refused
        BY <1>11, <3>2, <4>1, <4>2 DEF DecodeScalar
      <4>4. Resendable(v) <=> SentText(v) \in DOMAIN Reading[v.kind]
        BY <4>1, ScalarResendable
      <4>5. ReadBack(v) = Value(v.kind, Reading[v.kind][SentText(v)])
        BY <4>1, ScalarResendable, ReadBackIs
      <4> QED BY <4>3, <4>4, <4>5 DEF ComesBack
    <3> QED BY <3>1, <3>2
  <2>4. Range(f) = {Text(v.kind), Text(SentText(v))}
    BY <1>1, <2>1 DEF Range
  <2>5. WellFormed(Text(SentText(v)))
    BY LeafWellFormed DEF Text
  <2> QED BY <1>1, <1>2, <1>7, <2>3, <2>4, <2>5, TaggedWellFormed
<1> QED BY <1>9, <1>10, <1>11

\* Distinct scalar keys and their values make a map again, unless a value was refused.
LEMMA EntriesDecodeAs ==
  ASSUME NEW keys, IsInjective(keys), NEW f, NEW values, values = [i \in DOMAIN keys |-> f[keys[i]]],
         \A k \in Range(keys) : k.kind \in KeyKinds
  PROVE  DecodeEntries(keys, values) =
           IF \E k \in Range(keys) : f[k] = Refused THEN Refused ELSE MapValue([k \in Range(keys) |-> f[k]])
<1> DEFINE at(k) == CHOOSE i \in DOMAIN keys : keys[i] = k
<1>1. ASSUME NEW k \in Range(keys) PROVE at(k) \in DOMAIN keys /\ keys[at(k)] = k
  <2>1. \E i \in DOMAIN keys : keys[i] = k
    BY DEF Range
  <2> QED BY <2>1
<1>2. Refused \in Range(values) <=> \E k \in Range(keys) : f[k] = Refused
  BY DEF Range
<1>3. ~(\E k \in Range(keys) : k.kind \notin KeyKinds)
  OBVIOUS
<1>4. DecodeEntries(keys, values) =
        IF Refused \in Range(values) THEN Refused ELSE MapValue([k \in Range(keys) |-> values[at(k)]])
  BY <1>3, Zenon DEF DecodeEntries
<1> HIDE DEF at
<1>5. \A k \in Range(keys) : values[at(k)] = f[k]
  BY <1>1
<1>6. [k \in Range(keys) |-> values[at(k)]] = [k \in Range(keys) |-> f[k]]
  BY <1>5
<1> QED BY <1>2, <1>4, <1>6

\* A list is read back when its items are.
LEMMA TagListDecodes ==
  ASSUME NEW v, IsValue(v), v.kind = "list", ~Deeper(Tag(v), MaxNesting),
         \A i \in DOMAIN v.parts : ~Deeper(Tag(v.parts[i]), MaxNesting) =>
           WellFormed(Tag(v.parts[i])) /\ DecodeInput(Tag(v.parts[i])) = ComesBack(v.parts[i])
  PROVE  WellFormed(Tag(v)) /\ DecodeInput(Tag(v)) = ComesBack(v)
<1>1. PICK s : s = [i \in DOMAIN v.parts |-> Tag(v.parts[i])]
  OBVIOUS
<1>2. PICK f : f = [kind |-> Text("list"), items |-> Array(s)]
  OBVIOUS
<1>3. Tag(v) = Tagged(f)
  BY <1>1, <1>2, TagIs
<1>4. DOMAIN f = {"kind", "items"} /\ f["kind"] = Text("list") /\ f["items"] = Array(s)
  BY <1>2
<1>5. Range(f) = {Text("list"), Array(s)}
  BY <1>4 DEF Range
<1>6. Marker \notin DOMAIN f
  BY <1>4 DEF Marker
<1>7. Array(s).parts = s /\ Array(s).json = "array"
  BY DEF Array
<1>8. Array(s) \in Kids(Tag(v)) /\ Kids(Array(s)) = Range(s)
  BY <1>3, <1>5, <1>6, <1>7, TaggedKids DEF Kids
<1>9. ~Deeper(Array(s), MaxNesting)
  BY <1>8, NodesGrown
<1>10. \A i \in DOMAIN v.parts : s[i] = Tag(v.parts[i]) /\ s[i] \in Kids(Array(s))
  BY <1>1, <1>8 DEF Range
<1>11. ASSUME NEW i \in DOMAIN v.parts
       PROVE  WellFormed(s[i]) /\ DecodeInput(s[i]) = ComesBack(v.parts[i]) /\ s[i] \in Below(Tag(v))
  <2>1. ~Deeper(Tag(v.parts[i]), MaxNesting)
    BY <1>9, <1>10, NodesGrown
  <2>2. s[i] \in Below(Tag(v))
    BY <1>8, <1>10, KidsAreBelow, BelowBelow
  <2> QED BY <1>10, <2>1, <2>2
<1>12. WellFormed(Array(s))
  <2>1. \A k \in Kids(Array(s)) : WellFormed(k)
    BY <1>1, <1>8, <1>11 DEF Range
  <2> QED BY <1>7, <1>9, <2>1, WellFormedFromParts
<1>13. WellFormed(Tag(v))
  BY <1>3, <1>5, <1>6, <1>12, TaggedWellFormed
<1>14. PICK g, p : /\ DecodeInput(Tag(v)) = DecodeTagged(p, g)
                   /\ \A k \in Below(Tag(v)) : g[k] = DecodeInput(k)
                   /\ DOMAIN p = DOMAIN f \cup {Marker} /\ p[Marker] = True /\ \A n \in DOMAIN f : p[n] = f[n]
  <2>1. PICK t : t = Tagged(f) /\ t = Tag(v)
    BY <1>3
  <2>2. ~Deeper(Tagged(f), MaxNesting)
    BY <2>1
  <2>3. \E g, p : /\ DecodeInput(t) = DecodeTagged(p, g)
                  /\ \A k \in Below(t) : g[k] = DecodeInput(k)
                  /\ DOMAIN p = DOMAIN f \cup {Marker} /\ p[Marker] = True /\ \A n \in DOMAIN f : p[n] = f[n]
    <3>1. \E g, p : /\ DecodeInput(Tagged(f)) = DecodeTagged(p, g)
                    /\ \A k \in Below(Tagged(f)) : g[k] = DecodeInput(k)
                    /\ DOMAIN p = DOMAIN f \cup {Marker} /\ p[Marker] = True /\ \A n \in DOMAIN f : p[n] = f[n]
      BY <1>6, <2>2, TaggedDecodesAs
    <3> QED BY <2>1, <3>1
  <2> QED BY <2>1, <2>3
<1>15. /\ Text("list").json = "leaf" /\ Text("list").has.kind = "string" /\ Text("list").has.text = "list"
  BY DEF Leaf, Text, Value
<1>16. /\ "kind" \in DOMAIN p /\ p["kind"] = Text("list") /\ "items" \in DOMAIN p /\ p["items"] = Array(s)
  BY <1>4, <1>14
<1>17. DecodeTagged(p, g) = DecodeItems(s, g)
  <2>1. Has(p, "kind", "leaf") /\ Has(p, "items", "array")
    BY <1>7, <1>15, <1>16 DEF Has
  <2> QED BY <1>7, <1>14, <1>15, <1>16, <2>1, Zenon DEF DecodeTagged
<1>18. \A i \in DOMAIN v.parts : g[s[i]] = ComesBack(v.parts[i])
  BY <1>11, <1>14
<1>19. [i \in DOMAIN s |-> g[s[i]]] = [i \in DOMAIN v.parts |-> ComesBack(v.parts[i])]
  BY <1>1, <1>18
<1>20. PICK items : items = [i \in DOMAIN v.parts |-> ComesBack(v.parts[i])]
  OBVIOUS
<1>21. DecodeItems(s, g) = IF Refused \in Range(items) THEN Refused ELSE ListValue(items)
  BY <1>19, <1>20, Zenon DEF DecodeItems
<1>22. "list" \notin DOMAIN Reading /\ ~Deeper(v, MaxNesting)
  BY CodecAssumption DEF OtherKinds, IsValue
<1>23. Resendable(v) <=> \A i \in DOMAIN v.parts : Resendable(v.parts[i])
  BY <1>22, ResendableIs
<1>24. CASE Resendable(v)
  <2>1. \A i \in DOMAIN v.parts : ComesBack(v.parts[i]) = ReadBack(v.parts[i]) /\ ReadBack(v.parts[i]) # Refused
    BY <1>23, <1>24, ValueParts, ReadBackIsValue, ValuesAreNotRefused DEF ComesBack
  <2>2. Refused \notin Range(items)
    BY <1>20, <2>1 DEF Range
  <2>3. items = [i \in DOMAIN v.parts |-> ReadBack(v.parts[i])]
    BY <1>20, <2>1
  <2>4. ComesBack(v) = ListValue([i \in DOMAIN v.parts |-> ReadBack(v.parts[i])])
    BY <1>22, <1>24, ReadBackIs DEF ComesBack
  <2> QED BY <1>13, <1>14, <1>17, <1>21, <2>2, <2>3, <2>4
<1>25. CASE ~Resendable(v)
  <2>1. PICK i \in DOMAIN v.parts : ComesBack(v.parts[i]) = Refused
    BY <1>23, <1>25 DEF ComesBack
  <2>2. Refused \in Range(items)
    BY <1>20, <2>1 DEF Range
  <2> QED BY <1>13, <1>14, <1>17, <1>21, <1>25, <2>2 DEF ComesBack
<1> QED BY <1>24, <1>25

\* A map is read back when its values are; its keys always are.
LEMMA TagMapDecodes ==
  ASSUME NEW v, IsValue(v), v.kind = "map", ~Deeper(Tag(v), MaxNesting),
         \A k \in DOMAIN v.parts : ~Deeper(Tag(v.parts[k]), MaxNesting) =>
           WellFormed(Tag(v.parts[k])) /\ DecodeInput(Tag(v.parts[k])) = ComesBack(v.parts[k])
  PROVE  WellFormed(Tag(v)) /\ DecodeInput(Tag(v)) = ComesBack(v)
<1>1. PICK keys : keys = SetToSeq(DOMAIN v.parts)
  OBVIOUS
<1>2. /\ v = MapValue([k \in DOMAIN v.parts |-> v.parts[k]]) /\ IsFiniteSet(DOMAIN v.parts)
      /\ \A k \in DOMAIN v.parts : IsScalar(k) /\ k.kind \in KeyKinds
  <2>1. \A x : ListValue(x).kind = "list"
    BY DEF ListValue
  <2>2. IsNode(v) /\ ~IsScalar(v)
    BY ValueParts, ValueKinds
  <2> QED BY <2>1, <2>2 DEF IsNode
<1>3. /\ Range(keys) = DOMAIN v.parts /\ IsInjective(keys) /\ \A i \in DOMAIN keys : keys[i] \in DOMAIN v.parts
      /\ keys = [i \in DOMAIN keys |-> keys[i]]
  BY <1>1, <1>2, SequenceOf
<1>4. PICK s : s = [i \in DOMAIN keys |-> Object([key |-> TagScalar(keys[i]), value |-> Tag(v.parts[keys[i]])])]
  OBVIOUS
<1>5. PICK f : f = [kind |-> Text("map"), entries |-> Array(s)]
  OBVIOUS
<1>6. Tag(v) = Tagged(f)
  BY <1>1, <1>4, <1>5, TagIs
<1>7. DOMAIN f = {"kind", "entries"} /\ f["kind"] = Text("map") /\ f["entries"] = Array(s)
  BY <1>5
<1>8. Range(f) = {Text("map"), Array(s)}
  BY <1>7 DEF Range
<1>9. Marker \notin DOMAIN f
  BY <1>7 DEF Marker
<1>10. Array(s).parts = s /\ Array(s).json = "array"
  BY DEF Array
<1>11. Array(s) \in Kids(Tag(v)) /\ Kids(Array(s)) = Range(s)
  BY <1>6, <1>8, <1>9, <1>10, TaggedKids DEF Kids
<1>12. ~Deeper(Array(s), MaxNesting) /\ Array(s) \in Below(Tag(v))
  BY <1>11, NodesGrown, KidsAreBelow
<1>13. ASSUME NEW i \in DOMAIN keys
       PROVE  /\ WellFormed(s[i]) /\ IsEntry(s[i])
              /\ s[i].parts["key"] \in Below(Tag(v)) /\ DecodeInput(s[i].parts["key"]) = keys[i]
              /\ s[i].parts["value"] \in Below(Tag(v)) /\ DecodeInput(s[i].parts["value"]) = ComesBack(v.parts[keys[i]])
  <2>1. PICK k, x : k = TagScalar(keys[i]) /\ x = Tag(v.parts[keys[i]])
    OBVIOUS
  <2>2. s[i] = Object([key |-> k, value |-> x])
    BY <1>4, <2>1
  <2>3. s[i].json = "object" /\ s[i].parts = [key |-> k, value |-> x]
    BY <2>2 DEF Object
  <2>4. DOMAIN s[i].parts = {"key", "value"} /\ s[i].parts["key"] = k /\ s[i].parts["value"] = x
    BY <2>3
  <2>5. Kids(s[i]) = {k, x}
    BY <2>4 DEF Kids, Range
  <2>6. s[i] \in Kids(Array(s))
    BY <1>4, <1>11 DEF Range
  <2>7. ~Deeper(s[i], MaxNesting) /\ s[i] \in Below(Tag(v))
    BY <1>12, <2>6, NodesGrown, BelowBelow
  <2>8. ~Deeper(k, MaxNesting) /\ ~Deeper(x, MaxNesting) /\ k \in Below(Tag(v)) /\ x \in Below(Tag(v))
    BY <2>5, <2>7, NodesGrown, BelowBelow
  <2>9. WellFormed(k) /\ DecodeInput(k) = keys[i]
    <3>1. IsScalar(keys[i]) /\ keys[i].kind \in KeyKinds
      BY <1>2, <1>3
    <3>2. ComesBack(keys[i]) = keys[i]
      BY <3>1, KeysComeBack DEF ComesBack
    <3> QED BY <2>1, <2>8, <3>1, <3>2, TagScalarDecodes
  <2>10. WellFormed(x) /\ DecodeInput(x) = ComesBack(v.parts[keys[i]])
    BY <1>3, <2>1, <2>8
  <2>11. WellFormed(s[i])
    BY <2>3, <2>5, <2>7, <2>9, <2>10, WellFormedFromParts
  <2> QED BY <2>3, <2>4, <2>8, <2>9, <2>10, <2>11 DEF IsEntry
<1>14. DOMAIN s = DOMAIN keys
  BY <1>4
<1>15. WellFormed(Array(s))
  <2>1. \A k \in Kids(Array(s)) : WellFormed(k)
    BY <1>11, <1>13, <1>14 DEF Range
  <2> QED BY <1>10, <1>12, <2>1, WellFormedFromParts
<1>16. WellFormed(Tag(v))
  BY <1>6, <1>8, <1>9, <1>15, TaggedWellFormed
<1>17. PICK g, p : /\ DecodeInput(Tag(v)) = DecodeTagged(p, g)
                   /\ \A k \in Below(Tag(v)) : g[k] = DecodeInput(k)
                   /\ DOMAIN p = DOMAIN f \cup {Marker} /\ p[Marker] = True /\ \A n \in DOMAIN f : p[n] = f[n]
  <2>1. PICK t : t = Tagged(f) /\ t = Tag(v)
    BY <1>6
  <2>2. ~Deeper(Tagged(f), MaxNesting)
    BY <2>1
  <2>3. \E g, p : /\ DecodeInput(t) = DecodeTagged(p, g)
                  /\ \A k \in Below(t) : g[k] = DecodeInput(k)
                  /\ DOMAIN p = DOMAIN f \cup {Marker} /\ p[Marker] = True /\ \A n \in DOMAIN f : p[n] = f[n]
    <3>1. \E g, p : /\ DecodeInput(Tagged(f)) = DecodeTagged(p, g)
                    /\ \A k \in Below(Tagged(f)) : g[k] = DecodeInput(k)
                    /\ DOMAIN p = DOMAIN f \cup {Marker} /\ p[Marker] = True /\ \A n \in DOMAIN f : p[n] = f[n]
      BY <1>9, <2>2, TaggedDecodesAs
    <3> QED BY <2>1, <3>1
  <2> QED BY <2>1, <2>3
<1>18. Text("map").json = "leaf" /\ Text("map").has.kind = "string" /\ Text("map").has.text = "map"
  BY DEF Leaf, Text, Value
<1>19. "kind" \in DOMAIN p /\ p["kind"] = Text("map") /\ "entries" \in DOMAIN p /\ p["entries"] = Array(s)
  BY <1>7, <1>17
<1>20. PICK values : values = [i \in DOMAIN s |-> g[s[i].parts["value"]]]
  OBVIOUS
<1>21. PICK written : written = [i \in DOMAIN s |-> g[s[i].parts["key"]]]
  OBVIOUS
<1>22. DecodeTagged(p, g) = DecodeEntries(written, values)
  <2>1. Has(p, "kind", "leaf") /\ Has(p, "entries", "array")
    BY <1>10, <1>18, <1>19 DEF Has
  <2>2. \A e \in Range(s) : IsEntry(e)
    BY <1>13, <1>14 DEF Range
  <2>3. p["entries"].parts = s /\ p["kind"].has.kind = "string" /\ p["kind"].has.text = "map" /\ p[Marker] = True
    BY <1>10, <1>17, <1>18, <1>19
  <2>4. "map" # "list"
    OBVIOUS
  <2> QED BY <1>20, <1>21, <2>1, <2>2, <2>3, <2>4, Zenon DEF DecodeTagged
<1>23. \A i \in DOMAIN s : /\ g[s[i].parts["key"]] = keys[i]
                            /\ g[s[i].parts["value"]] = ComesBack(v.parts[keys[i]])
  BY <1>13, <1>14, <1>17
<1>24. written = keys
  BY <1>3, <1>14, <1>21, <1>23
<1>25. PICK back : back = [k \in DOMAIN v.parts |-> ComesBack(v.parts[k])]
  OBVIOUS
<1>26. values = [i \in DOMAIN keys |-> back[keys[i]]]
  BY <1>3, <1>14, <1>20, <1>23, <1>25
<1>27. \A k \in Range(keys) : k.kind \in KeyKinds
  BY <1>2, <1>3
<1>28. DecodeEntries(keys, values) =
         IF \E k \in Range(keys) : back[k] = Refused THEN Refused ELSE MapValue([k \in Range(keys) |-> back[k]])
  BY <1>3, <1>26, <1>27, EntriesDecodeAs
<1>29. "map" \notin DOMAIN Reading /\ ~Deeper(v, MaxNesting)
  BY CodecAssumption DEF OtherKinds, IsValue
<1>30. Resendable(v) <=> \A k \in DOMAIN v.parts : Resendable(v.parts[k])
  BY <1>29, ResendableIs
<1>31. CASE Resendable(v)
  <2>1. \A k \in DOMAIN v.parts : ComesBack(v.parts[k]) = ReadBack(v.parts[k]) /\ ReadBack(v.parts[k]) # Refused
    BY <1>30, <1>31, ValueParts, ReadBackIsValue, ValuesAreNotRefused DEF ComesBack
  <2>2. ~(\E k \in Range(keys) : back[k] = Refused)
    BY <1>3, <1>25, <2>1
  <2>3. [k \in Range(keys) |-> back[k]] = [k \in DOMAIN v.parts |-> ReadBack(v.parts[k])]
    BY <1>3, <1>25, <2>1
  <2>4. ComesBack(v) = MapValue([k \in DOMAIN v.parts |-> ReadBack(v.parts[k])])
    BY <1>29, <1>31, ReadBackIs DEF ComesBack
  <2> QED BY <1>16, <1>17, <1>22, <1>24, <1>28, <2>2, <2>3, <2>4
<1>32. CASE ~Resendable(v)
  <2>1. PICK k \in DOMAIN v.parts : ComesBack(v.parts[k]) = Refused
    BY <1>30, <1>32 DEF ComesBack
  <2>2. \E x \in Range(keys) : back[x] = Refused
    BY <1>3, <1>25, <2>1
  <2> QED BY <1>16, <1>17, <1>22, <1>24, <1>28, <1>32, <2>2 DEF ComesBack
<1> QED BY <1>31, <1>32

\* A value that is sent tagged is read back, or refused.
LEMMA TagDecodes ==
  ASSUME NEW v, IsValue(v), ~Deeper(Tag(v), MaxNesting)
  PROVE  WellFormed(Tag(v)) /\ DecodeInput(Tag(v)) = ComesBack(v)
<1>1. PICK S : S = {u \in Nodes(v) : ~Deeper(Tag(u), MaxNesting) => WellFormed(Tag(u)) /\ DecodeInput(Tag(u)) = ComesBack(u)}
  OBVIOUS
<1>2. Grown(Nodes(v)) /\ v \in Nodes(v) /\ ~Deeper(v, MaxNesting)
  BY NodesGrown DEF IsValue
<1>3. ASSUME NEW u \in Nodes(v), Below(u) \subseteq S PROVE u \in S
  <2>1. IsValue(u) /\ IsNode(u)
    BY <1>2, NodesWithin DEF IsValue, Grown
  <2>2. SUFFICES ASSUME ~Deeper(Tag(u), MaxNesting) PROVE WellFormed(Tag(u)) /\ DecodeInput(Tag(u)) = ComesBack(u)
    BY <1>1
  <2>3. \A i \in DOMAIN u.parts : ~Deeper(Tag(u.parts[i]), MaxNesting) =>
          WellFormed(Tag(u.parts[i])) /\ DecodeInput(Tag(u.parts[i])) = ComesBack(u.parts[i])
    BY <1>1, <1>3, PartsAreBelow
  <2>4. CASE u.kind = "list"
    BY <2>1, <2>2, <2>3, <2>4, TagListDecodes
  <2>5. CASE u.kind = "map"
    BY <2>1, <2>2, <2>3, <2>5, TagMapDecodes
  <2>6. CASE u.kind \notin {"list", "map"}
    <3>1. \A x : ListValue(x).kind = "list" /\ MapValue(x).kind = "map"
      BY DEF ListValue, MapValue
    <3>2. IsScalar(u)
      BY <2>1, <2>6, <3>1 DEF IsNode
    <3>3. Tag(u) = TagScalar(u)
      BY <2>1, <2>6, TagIs
    <3> QED BY <2>2, <3>2, <3>3, TagScalarDecodes
  <2> QED BY <2>4, <2>5, <2>6
<1>4. v \in S
  BY <1>1, <1>2, <1>3, BelowInduction
<1> QED BY <1>1, <1>4

\* The variables of a request that sends a value back.
LEMMA ResentIs ==
  ASSUME NEW v
  PROVE  /\ Resent(v).json = "object" /\ DOMAIN Resent(v).parts = {"x"} /\ Resent(v).parts["x"] = Tag(v)
         /\ Kids(Resent(v)) = {Tag(v)}
<1>1. PICK r : r = Resent(v)
  OBVIOUS
<1>2. r.json = "object" /\ r.parts = [n \in {"x"} |-> Tag(v)]
  BY <1>1 DEF Resent, Object
<1>3. DOMAIN r.parts = {"x"} /\ r.parts["x"] = Tag(v)
  BY <1>2
<1>4. Kids(r) = {Tag(v)}
  BY <1>3 DEF Kids, Range
<1> QED BY <1>1, <1>2, <1>3, <1>4

\* The variables that a value sent back decodes to.
LEMMA ResentDecodes ==
  ASSUME NEW v, IsValue(v), ~Deeper(Resent(v), MaxValueDepth), ~Deeper(Tag(v), MaxNesting)
  PROVE  DecodeVariables(Resent(v)) =
           IF Resendable(v) THEN OK([n \in {"x"} |-> ReadBack(v)]) ELSE Fail("invalid_request")
<1>0. MaxNesting \in Nat /\ MaxValueDepth \in Nat /\ MaxValueDepth <= MaxNesting
  BY NestingAssumption, CodecAssumption
<1>1. PICK r : r = Resent(v)
  OBVIOUS
<1>2. /\ r.json = "object" /\ DOMAIN r.parts = {"x"} /\ r.parts["x"] = Tag(v) /\ Kids(r) = {Tag(v)}
  BY <1>1, ResentIs
<1>3. ~Deeper(r, MaxNesting)
  BY <1>0, <1>1, DepthIsALimit
<1>4. WellFormed(Tag(v)) /\ DecodeInput(Tag(v)) = ComesBack(v)
  BY TagDecodes
<1>5. WellFormed(r)
  BY <1>2, <1>3, <1>4, WellFormedFromParts
<1>6. Marker \notin DOMAIN r.parts
  BY <1>2 DEF Marker
<1>7. DecodeInput(r) = Refused <=> ~Resendable(v)
  <2>1. PICK g : g = [k \in Below(r) |-> DecodeInput(k)]
    OBVIOUS
  <2>2. DecodeInput(r) = DecodeInputBody(g, r)
    BY <1>3, <2>1, DecodeInputUnfolds
  <2>3. DecodeInputBody(g, r) = DecodeObject(r.parts, g)
    BY <1>2, <1>6 DEF DecodeInputBody
  <2>4. Tag(v) \in Below(r)
    BY <1>2, KidsAreBelow
  <2>5. g[Tag(v)] = ComesBack(v)
    BY <1>4, <2>1, <2>4
  <2>6. ComesBack(v) = Refused <=> ~Resendable(v)
    BY ReadBackIsValue, ValuesAreNotRefused DEF ComesBack
  <2>7. IF Resendable(v) THEN \E f : DecodeObject(r.parts, g) = MapValue(f) ELSE DecodeObject(r.parts, g) = Refused
    BY <1>2, <2>5, <2>6 DEF DecodeObject
  <2>8. (\A f : MapValue(f).kind = "map") /\ Refused.kind = "refused"
    BY DEF MapValue, Refused, Value
  <2> QED BY <2>2, <2>3, <2>7, <2>8
<1>8. CASE Resendable(v)
  <2>1. DecodeVariables(r) = OK([n \in DOMAIN r.parts |-> DecodeInput(r.parts[n])])
    BY <1>1, <1>2, <1>5, <1>6, <1>7, <1>8 DEF DecodeVariables
  <2>2. [n \in DOMAIN r.parts |-> DecodeInput(r.parts[n])] = [n \in {"x"} |-> ReadBack(v)]
    BY <1>2, <1>4, <1>8 DEF ComesBack
  <2> QED BY <1>1, <1>8, <2>1, <2>2
<1>9. CASE ~Resendable(v)
  BY <1>1, <1>7, <1>9 DEF DecodeVariables
<1> QED BY <1>8, <1>9

\* What the runtime answers for a value that it answered before.
LEMMA EchoAnswerIs ==
  ASSUME NEW v, IsValue(v), ~Deeper(v, MaxEncodeDepth)
  PROVE  EchoAnswer(v) = IF Fits(v, MaxValueDepth - 1) /\ Resendable(v) THEN OK(ReadBack(v))
                         ELSE Fail("invalid_request")
<1>0. /\ MaxNesting \in Nat /\ MaxValueDepth \in Nat /\ MaxSdkDepth \in Nat
      /\ MaxValueDepth <= MaxNesting /\ MaxValueDepth <= MaxSdkDepth
  BY NestingAssumption, CodecAssumption
<1>1. "invalid_request" # Passed
  BY DEF Passed
<1>2. \A c, r : Fail(c).ok = FALSE /\ Fail(c).body = c /\ OK(r).ok = TRUE /\ OK(r).body = r
  BY DEF Fail, OK
<1>3. PICK result : result = EvalProgram("x", DecodeVariables(Resent(v)).body, Nil)
  OBVIOUS
<1>4. EchoAnswer(v) = IF InSdk(v).code # Passed THEN Fail(InSdk(v).code)
                      ELSE IF DecodeVariablesStep(Resent(v)).code # Passed THEN Fail(DecodeVariablesStep(Resent(v)).code)
                      ELSE result
  BY <1>3, OutcomeOf2 DEF EchoAnswer
<1>5. InSdk(v).code = IF Deeper(v, MaxSdkDepth - 1) THEN "invalid_request" ELSE Passed
  BY DEF InSdk, Step
<1>6. ~Deeper(v, MaxNesting)
  BY DEF IsValue
<1>7. CASE Fits(v, MaxValueDepth - 1)
  <2>1. PICK m \in Nat : m = MaxValueDepth - 1 /\ m + 1 = MaxValueDepth
    <3>1. MaxValueDepth - 1 \in Int
      BY <1>0
    <3>2. MaxValueDepth - 1 >= 1
      BY <1>6, <1>7, <3>1, FitsTakes
    <3> QED BY <1>0, <3>2
  <2>2. ~Deeper(v, m) /\ ~Deeper(Tag(v), m)
    BY <1>6, <1>7, <2>1, FitsTakes, TagDepth
  <2>3. ~Deeper(v, MaxSdkDepth - 1)
    <3>1. MaxSdkDepth - 1 \in Nat /\ m <= MaxSdkDepth - 1
      BY <1>0, <2>1
    <3> QED BY <2>2, <3>1, DepthIsALimit
  <2>4. ~Deeper(Tag(v), MaxNesting)
    BY <1>0, <2>1, <2>2, DepthIsALimit
  <2>5. ~Deeper(Resent(v), MaxValueDepth)
    <3>1. MaxValueDepth # 0 /\ \A k \in Kids(Resent(v)) : ~Deeper(k, MaxValueDepth - 1)
      BY <2>1, <2>2, ResentIs
    <3> QED BY <1>0, <3>1, DepthOfKids
  <2>6. CASE ~Resendable(v)
    <3>1. DecodeVariables(Resent(v)) = Fail("invalid_request")
      BY <2>4, <2>5, <2>6, ResentDecodes
    <3>2. DecodeVariablesStep(Resent(v)).code = "invalid_request"
      BY <1>2, <3>1 DEF DecodeVariablesStep, Step
    <3> QED BY <1>1, <1>4, <1>5, <2>3, <2>6, <3>2
  <2>7. CASE Resendable(v)
    <3>1. PICK w : w = ReadBack(v)
      OBVIOUS
    <3>2. IsValue(w) /\ ~Deeper(w, MaxEncodeDepth)
      BY <2>7, <3>1, ReadBackIsValue, CodecAssumption
    <3>3. PICK variables : variables = [n \in {"x"} |-> w]
      OBVIOUS
    <3>4. DecodeVariables(Resent(v)) = OK(variables)
      BY <2>4, <2>5, <2>7, <3>1, <3>3, ResentDecodes
    <3>5. DecodeVariablesStep(Resent(v)).code = Passed
      BY <1>2, <3>4, VariablesPassed
    <3>6. Eval("x", variables) = OK(w)
      <4>1. "x" \in DOMAIN variables /\ variables["x"] = w
        BY <3>3
      <4> QED BY <4>1 DEF Eval
    <3>7. EncodeValue(w) = w
      <4>1. IsNode(w)
        BY <3>2, ValueParts
      <4>2. \A x : ListValue(x).kind = "list" /\ MapValue(x).kind = "map" /\ Null.kind = "null"
        BY DEF ListValue, MapValue, Null, Value
      <4>3. w.kind \in EncodableKinds
        BY <4>1, <4>2 DEF IsNode, IsScalar, EncodableKinds, OtherKinds
      <4> QED BY <3>2, <4>3 DEF EncodeValue
    <3>8. w # Refused
      BY <3>2, ValuesAreNotRefused
    <3>9. result = OK(w)
      <4>1. result = EvalProgram("x", variables, Nil)
        BY <1>2, <1>3, <3>4
      <4>2. PICK value : value = Eval("x", variables)
        OBVIOUS
      <4>3. value.ok /\ value.body = w
        BY <1>2, <3>6, <4>2
      <4>4. EncodeValue(value.body) = w
        BY <3>7, <4>3
      <4>5. EvalProgram("x", variables, Nil) =
              IF ~value.ok THEN value
              ELSE IF EncodeValue(value.body) = Refused THEN Fail("unsupported_value")
              ELSE IF Nil # Nil /\ ~MatchesValue(Nil, EncodeValue(value.body)) THEN Fail("result_type_mismatch")
              ELSE OK(EncodeValue(value.body))
        BY <4>2, Zenon DEF EvalProgram
      <4> QED BY <3>8, <4>1, <4>3, <4>4, <4>5
    <3> QED BY <1>4, <1>5, <1>7, <2>3, <2>7, <3>1, <3>5, <3>9
  <2> QED BY <2>6, <2>7
<1>8. CASE ~Fits(v, MaxValueDepth - 1)
  <2>1. Deeper(Resent(v), MaxValueDepth)
    <3>1. CASE MaxValueDepth = 0
      BY <3>1, ResentIs, DepthOfKids
    <3>2. CASE MaxValueDepth # 0
      <4>1. MaxValueDepth - 1 \in Nat
        BY <1>0, <3>2
      <4>2. Deeper(Tag(v), MaxValueDepth - 1)
        BY <1>8, <4>1, TagDepth
      <4> QED BY <1>0, <4>2, ResentIs, DepthOfKids
    <3> QED BY <3>1, <3>2
  <2>2. DecodeVariables(Resent(v)) = Fail("invalid_request")
    BY <2>1 DEF DecodeVariables
  <2>3. DecodeVariablesStep(Resent(v)).code = "invalid_request"
    BY <1>2, <2>2 DEF DecodeVariablesStep, Step
  <2> QED BY <1>1, <1>4, <1>5, <1>8, <2>3
<1> QED BY <1>7, <1>8

\* A value that was answered may be sent back: the encoder, the SDK's tagging and
\* the decoder keep its kinds, keys and order, and do to each scalar what reading
\* the SDK's text for it does, whatever texts there are.
THEOREM EchoKeepsValueAlways == Spec => []EchoKeepsValue
<1>1. ASSUME IInv PROVE EchoKeepsValue
  <2> SUFFICES ASSUME "echo" \in DOMAIN answers
               PROVE  LET value == answers["evaluate"].body
                      IN answers["echo"] =
                           IF Fits(value, MaxValueDepth - 1) /\ Resendable(value) THEN OK(ReadBack(value))
                           ELSE Fail("invalid_request")
    BY DEF EchoKeepsValue
  <2>1. PICK i : i = input
    OBVIOUS
  <2>2. /\ i \in Inputs /\ answers["evaluate"] = EvaluateAnswer(i) /\ EvaluateAnswer(i).ok
        /\ answers["echo"] = EchoAnswer(answers["evaluate"].body)
    BY <1>1, <2>1 DEF IInv, AnswersKnown
  <2>3. DecodeVariables(i.wire).ok /\ EvaluateAnswer(i) = Result(i, i.expected)
    BY <2>2, EvaluateGave, VariablesPassed
  <2>4. PICK v : Result(i, i.expected) = OK(v) /\ IsValue(v) /\ ~Deeper(v, MaxEncodeDepth)
    BY <2>2, <2>3, ResultIs
  <2>5. answers["evaluate"].body = v
    BY <2>2, <2>3, <2>4 DEF OK
  <2> QED BY <2>2, <2>4, <2>5, EchoAnswerIs
<1> QED BY <1>1, AnswersDetermined, PTL
==============================================================================

------------------------- MODULE RequestBatches_proofs -------------------------
(***************************************************************************)
(* Proofs about RequestBatches: what an SDK splits and the runtime answers *)
(* comes back whole, in order, as each request alone would have been       *)
(* answered, and under one deadline.                                       *)
(***************************************************************************)
EXTENDS RequestBatches, FiniteSetTheorems, WellFoundedInduction, TLAPS

(***************************************************************************)
(* Induction over the natural numbers, stated for the set of the numbers   *)
(* that a proof is about.                                                  *)
(***************************************************************************)
\* A non-empty set of natural numbers has a smallest element.
LEMMA SmallestElement ==
  ASSUME NEW T, T \subseteq Nat, T # {}
  PROVE  \E x \in T : \A y \in T : x <= y
<1>1. PICK R : R = {ss \in Nat \X Nat : ss[1] < ss[2]}
  OBVIOUS
<1>2. IsWellFoundedOn(R, Nat)
  BY <1>1, NatLessThanWellFounded DEF OpToRel
<1>3. PICK x \in T : \A y \in T : ~(<<y, x>> \in R)
  BY <1>2, WFMin
<1>4. \A y \in T : ~(y < x)
  BY <1>1, <1>3
<1> QED BY <1>4

\* A set with 0 and the successors of its elements has every natural number.
LEMMA EveryNatural ==
  ASSUME NEW T, 0 \in T, \A n \in Nat : n \in T => n + 1 \in T
  PROVE  \A n \in Nat : n \in T
<1>1. SUFFICES ASSUME Nat \ T # {} PROVE FALSE
  OBVIOUS
<1>2. PICK x \in Nat \ T : \A y \in Nat \ T : x <= y
  BY <1>1, SmallestElement
<1>3. x # 0 /\ x - 1 \in Nat /\ x - 1 \notin T
  BY <1>2
<1> QED BY <1>2, <1>3

\* The largest element of a set of natural numbers up to some bound.
LEMMA LargestElement ==
  ASSUME NEW T, NEW b \in Nat, T \subseteq 0..b, T # {}
  PROVE  Max(T) \in T /\ \A y \in T : y <= Max(T)
<1>1. PICK U : U = {b - y : y \in T}
  OBVIOUS
<1>2. U \subseteq Nat /\ U # {}
  <2>1. \A y \in T : b - y \in Nat
    OBVIOUS
  <2> QED BY <1>1, <2>1
<1>3. PICK u \in U : \A v \in U : u <= v
  BY <1>2, SmallestElement
<1>4. PICK x \in T : u = b - x
  BY <1>1, <1>3
<1>5. \A y \in T : y <= x
  BY <1>1, <1>3, <1>4
<1> QED BY <1>5 DEF Max

(***************************************************************************)
(* Sums over finite sets.                                                  *)
(***************************************************************************)
SumsTo(f, S, iter) ==
  iter = [s \in SUBSET S |->
            IF s = {} THEN 0
            ELSE LET x == CHOOSE x \in s : TRUE IN f[x] + iter[s \ {x}]]

\* The recursion that defines a sum over a finite set has a solution.
LEMMA SumExists ==
  ASSUME NEW f, NEW S, IsFiniteSet(S)
  PROVE  \E iter : SumsTo(f, S, iter)
<1> DEFINE Chosen(s) == CHOOSE x \in s : TRUE
           Body(g, s) == IF s = {} THEN 0 ELSE f[Chosen(s)] + g[s \ {Chosen(s)}]
           Small(n) == {s \in SUBSET S : Cardinality(s) <= n}
           Upto(n) == \E g : \A s \in Small(n) : g[s] = Body(g, s)
<1>1. \A s \in SUBSET S : IsFiniteSet(s) /\ Cardinality(s) \in Nat
  BY FS_Subset, FS_CardinalityType
<1>2. \A s \in SUBSET S : s # {} =>
        s \ {Chosen(s)} \in SUBSET S /\ Cardinality(s \ {Chosen(s)}) = Cardinality(s) - 1
  BY <1>1, FS_RemoveElement
<1>3. \A s \in SUBSET S : Cardinality(s) = 0 => s = {}
  BY <1>1, FS_EmptySet
<1>4. Upto(0)
  <2>1. PICK g : g = [s \in SUBSET S |-> 0]
    OBVIOUS
  <2> QED BY <1>1, <1>3, <2>1
<1>5. ASSUME NEW n \in Nat, Upto(n) PROVE Upto(n + 1)
  <2>1. PICK g : \A s \in Small(n) : g[s] = Body(g, s)
    BY <1>5
  <2>2. PICK h : h = [s \in SUBSET S |-> Body(g, s)]
    OBVIOUS
  <2>3. \A s \in Small(n) : h[s] = g[s]
    BY <2>1, <2>2
  <2>4. ASSUME NEW s \in Small(n + 1) PROVE h[s] = Body(h, s)
    <3>1. CASE s = {}
      BY <2>2, <3>1
    <3>2. CASE s # {}
      <4>1. s \ {Chosen(s)} \in Small(n)
        BY <1>1, <1>2, <3>2
      <4>2. h[s \ {Chosen(s)}] = g[s \ {Chosen(s)}]
        BY <2>3, <4>1
      <4> QED BY <2>2, <3>2, <4>2
    <3> QED BY <3>1, <3>2
  <2> QED BY <2>4
<1>6. Upto(Cardinality(S))
  <2>1. PICK T : T = {n \in Nat : Upto(n)}
    OBVIOUS
  <2> HIDE DEF Upto
  <2>2. 0 \in T /\ \A n \in Nat : n \in T => n + 1 \in T
    BY <1>4, <1>5, <2>1
  <2>3. \A n \in Nat : n \in T
    BY <2>2, EveryNatural
  <2> QED BY <1>1, <2>1, <2>3
<1>7. PICK g : \A s \in Small(Cardinality(S)) : g[s] = Body(g, s)
  BY <1>6
<1>8. \A s \in SUBSET S : s \in Small(Cardinality(S))
  BY FS_Subset
<1>9. PICK iter : iter = [s \in SUBSET S |-> g[s]]
  OBVIOUS
<1>10. \A s \in SUBSET S : iter[s] = Body(iter, s)
  <2>1. \A s \in SUBSET S : iter[s] = g[s]
    BY <1>9
  <2>2. \A s \in SUBSET S : g[s] = Body(g, s)
    BY <1>7, <1>8
  <2> QED BY <2>1, <2>2
<1>11. iter = [s \in SUBSET S |-> Body(iter, s)]
  BY <1>9, <1>10
<1> QED BY <1>11 DEF SumsTo

\* Two solutions agree where both are defined.
LEMMA SumIsUnique ==
  ASSUME NEW f, NEW S, IsFiniteSet(S), NEW R, R \subseteq S, NEW i, NEW j,
         SumsTo(f, S, i), SumsTo(f, R, j)
  PROVE  \A s \in SUBSET R : i[s] = j[s]
<1> DEFINE Chosen(s) == CHOOSE x \in s : TRUE
<1>1. \A s \in SUBSET R : s \in SUBSET S /\ IsFiniteSet(s) /\ Cardinality(s) \in Nat
  BY FS_Subset, FS_CardinalityType
<1>2. PICK T : T = {n \in Nat : \A s \in SUBSET R : Cardinality(s) = n => i[s] = j[s]}
  OBVIOUS
<1>3. 0 \in T
  <2>1. \A s \in SUBSET R : Cardinality(s) = 0 => s = {}
    BY <1>1, FS_EmptySet
  <2>2. i[{}] = 0 /\ j[{}] = 0
    BY DEF SumsTo
  <2> QED BY <1>2, <2>1, <2>2
<1>4. ASSUME NEW n \in Nat, n \in T PROVE n + 1 \in T
  <2>1. SUFFICES ASSUME NEW s \in SUBSET R, Cardinality(s) = n + 1 PROVE i[s] = j[s]
    BY <1>2
  <2>2. s # {}
    BY <2>1, FS_EmptySet
  <2>3. s \ {Chosen(s)} \in SUBSET R /\ Cardinality(s \ {Chosen(s)}) = n
    <3>1. Chosen(s) \in s
      BY <2>2
    <3>2. Cardinality(s \ {Chosen(s)}) = Cardinality(s) - 1
      BY <1>1, <3>1, FS_RemoveElement
    <3> QED BY <2>1, <3>2
  <2>4. i[s \ {Chosen(s)}] = j[s \ {Chosen(s)}]
    BY <1>2, <1>4, <2>3
  <2>5. i[s] = f[Chosen(s)] + i[s \ {Chosen(s)}]
    BY <1>1, <2>2 DEF SumsTo
  <2>6. j[s] = f[Chosen(s)] + j[s \ {Chosen(s)}]
    BY <2>2 DEF SumsTo
  <2> QED BY <2>4, <2>5, <2>6
<1>5. \A n \in Nat : n \in T
  BY <1>3, <1>4, EveryNatural
<1> QED BY <1>1, <1>2, <1>5

\* A sum is what any solution of its recursion gives.
LEMMA SumIsIter ==
  ASSUME NEW f, NEW S, IsFiniteSet(S), NEW iter, SumsTo(f, S, iter), NEW R \in SUBSET S
  PROVE  SumFunctionOnSet(f, R) = iter[R]
<1>1. PICK j : j = CHOOSE it : SumsTo(f, R, it)
  OBVIOUS
<1>2. SumsTo(f, R, j)
  BY <1>1, SumExists, FS_Subset, Zenon
<1>3. SumFunctionOnSet(f, R) = j[R]
  BY <1>1 DEF SumFunctionOnSet, FoldFunctionOnSet, MapThenFoldSet, SumsTo
<1>4. R \in SUBSET R
  OBVIOUS
<1> QED BY <1>2, <1>3, <1>4, SumIsUnique

\* The sum over some elements: the same one is taken out
\* whatever is added up.
LEMMA SumChoice ==
  ASSUME NEW S, IsFiniteSet(S), S # {}
  PROVE  \E c \in S : \A f : SumFunctionOnSet(f, S) = f[c] + SumFunctionOnSet(f, S \ {c})
<1>1. PICK c \in S : c = CHOOSE x \in S : TRUE
  OBVIOUS
<1>2. ASSUME NEW f PROVE SumFunctionOnSet(f, S) = f[c] + SumFunctionOnSet(f, S \ {c})
  <2>1. PICK iter : SumsTo(f, S, iter)
    BY SumExists
  <2>2. S \in SUBSET S /\ S \ {c} \in SUBSET S
    OBVIOUS
  <2>3. SumFunctionOnSet(f, S) = iter[S] /\ SumFunctionOnSet(f, S \ {c}) = iter[S \ {c}]
    BY <2>1, <2>2, SumIsIter
  <2>4. iter[S] = f[c] + iter[S \ {c}]
    BY <1>1, <2>1, <2>2 DEF SumsTo
  <2> QED BY <2>3, <2>4
<1> QED BY <1>2

\* The sum over nothing.
LEMMA SumEmpty ==
  ASSUME NEW f
  PROVE  SumFunctionOnSet(f, {}) = 0
<1>1. PICK iter : SumsTo(f, {}, iter)
  BY SumExists, FS_EmptySet
<1>2. iter[{}] = 0
  BY <1>1 DEF SumsTo
<1> QED BY <1>1, <1>2, SumIsIter, FS_EmptySet

\* What is left of a set of n + 1 elements without one of them.
LEMMA OneFewer ==
  ASSUME NEW S, NEW R \in SUBSET S, IsFiniteSet(R), NEW n \in Nat, Cardinality(R) = n + 1, NEW x \in R
  PROVE  R \ {x} \in SUBSET S /\ Cardinality(R \ {x}) = n
<1>1. Cardinality(R \ {x}) = Cardinality(R) - 1
  BY FS_RemoveElement
<1> QED BY <1>1

\* A sum of integers is an integer, one of natural numbers a natural number.
LEMMA SumType ==
  ASSUME NEW f, NEW S, IsFiniteSet(S)
  PROVE  /\ (\A x \in S : f[x] \in Int) => SumFunctionOnSet(f, S) \in Int
         /\ (\A x \in S : f[x] \in Nat) => SumFunctionOnSet(f, S) \in Nat
<1>1. \A R \in SUBSET S : IsFiniteSet(R) /\ Cardinality(R) \in Nat
  BY FS_Subset, FS_CardinalityType
<1> DEFINE Typed(R) == /\ (\A x \in R : f[x] \in Int) => SumFunctionOnSet(f, R) \in Int
                       /\ (\A x \in R : f[x] \in Nat) => SumFunctionOnSet(f, R) \in Nat
<1>2. PICK T : T = {n \in Nat : \A R \in SUBSET S : Cardinality(R) = n => Typed(R)}
  OBVIOUS
<1>3. 0 \in T
  <2>1. \A R \in SUBSET S : Cardinality(R) = 0 => R = {}
    BY <1>1, FS_EmptySet
  <2>2. SumFunctionOnSet(f, {}) = 0
    BY SumEmpty
  <2> QED BY <1>2, <2>1, <2>2
<1>4. ASSUME NEW n \in Nat, n \in T PROVE n + 1 \in T
  <2>1. SUFFICES ASSUME NEW R \in SUBSET S, Cardinality(R) = n + 1 PROVE Typed(R)
    BY <1>2
  <2>2. R # {}
    BY <2>1, FS_EmptySet
  <2>3. PICK x \in R : SumFunctionOnSet(f, R) = f[x] + SumFunctionOnSet(f, R \ {x})
    BY <1>1, <2>2, SumChoice
  <2>4. R \ {x} \in SUBSET S /\ Cardinality(R \ {x}) = n
    BY <1>1, <2>1, <2>3, OneFewer
  <2>5. Typed(R \ {x})
    BY <1>2, <1>4, <2>4
  <2> QED BY <2>3, <2>5
<1>5. \A n \in Nat : n \in T
  BY <1>3, <1>4, EveryNatural
<1> QED BY <1>1, <1>2, <1>5

\* Any one element can be taken out of a sum.
LEMMA SumRemove ==
  ASSUME NEW f, NEW S, IsFiniteSet(S), \A x \in S : f[x] \in Int, NEW e \in S
  PROVE  SumFunctionOnSet(f, S) = f[e] + SumFunctionOnSet(f, S \ {e})
<1>1. \A R \in SUBSET S : IsFiniteSet(R) /\ Cardinality(R) \in Nat
  BY FS_Subset, FS_CardinalityType
<1> DEFINE Removable(R) == \A x \in R : SumFunctionOnSet(f, R) = f[x] + SumFunctionOnSet(f, R \ {x})
<1>2. PICK T : T = {n \in Nat : \A R \in SUBSET S : Cardinality(R) = n => Removable(R)}
  OBVIOUS
<1>3. 0 \in T
  <2>1. \A R \in SUBSET S : Cardinality(R) = 0 => R = {}
    BY <1>1, FS_EmptySet
  <2> QED BY <1>2, <2>1
<1>4. ASSUME NEW n \in Nat, n \in T PROVE n + 1 \in T
  <2>1. SUFFICES ASSUME NEW R \in SUBSET S, Cardinality(R) = n + 1, NEW x \in R
                 PROVE  SumFunctionOnSet(f, R) = f[x] + SumFunctionOnSet(f, R \ {x})
    BY <1>2
  <2>2. PICK c \in R : SumFunctionOnSet(f, R) = f[c] + SumFunctionOnSet(f, R \ {c})
    BY <1>1, SumChoice
  <2>3. CASE c = x
    BY <2>2, <2>3
  <2>4. CASE c # x
    <3>1. R \ {c} \in SUBSET S /\ R \ {x} \in SUBSET S /\ x \in R \ {c} /\ c \in R \ {x}
      BY <2>4
    <3>2. Cardinality(R \ {c}) = n /\ Cardinality(R \ {x}) = n
      BY <1>1, <2>1, OneFewer
    <3>3. SumFunctionOnSet(f, R \ {c}) = f[x] + SumFunctionOnSet(f, (R \ {c}) \ {x})
      BY <1>2, <1>4, <3>1, <3>2
    <3>4. SumFunctionOnSet(f, R \ {x}) = f[c] + SumFunctionOnSet(f, (R \ {x}) \ {c})
      BY <1>2, <1>4, <3>1, <3>2
    <3>5. (R \ {c}) \ {x} = (R \ {x}) \ {c}
      OBVIOUS
    <3>6. PICK rest : rest = SumFunctionOnSet(f, (R \ {x}) \ {c})
      OBVIOUS
    <3>7. rest \in Int /\ f[x] \in Int /\ f[c] \in Int
      <4>1. (R \ {x}) \ {c} \in SUBSET S
        OBVIOUS
      <4> QED BY <1>1, <3>6, <4>1, SumType
    <3>8. SumFunctionOnSet(f, R) = f[c] + (f[x] + rest)
      BY <2>2, <3>3, <3>5, <3>6
    <3>9. SumFunctionOnSet(f, R \ {x}) = f[c] + rest
      BY <3>4, <3>6
    <3> QED BY <3>7, <3>8, <3>9
  <2> QED BY <2>3, <2>4
<1>5. \A n \in Nat : n \in T
  BY <1>3, <1>4, EveryNatural
<1> QED BY <1>1, <1>2, <1>5

\* The sum over two sets that have nothing in common.
LEMMA SumUnion ==
  ASSUME NEW f, NEW A, NEW B, IsFiniteSet(A), IsFiniteSet(B), A \cap B = {},
         \A x \in A \cup B : f[x] \in Int
  PROVE  SumFunctionOnSet(f, A \cup B) = SumFunctionOnSet(f, A) + SumFunctionOnSet(f, B)
<1>1. \A R \in SUBSET B : IsFiniteSet(R) /\ Cardinality(R) \in Nat /\ IsFiniteSet(A \cup R)
  BY FS_Subset, FS_CardinalityType, FS_Union
<1>2. \A R \in SUBSET B : /\ SumFunctionOnSet(f, R) \in Int /\ SumFunctionOnSet(f, A) \in Int
                          /\ SumFunctionOnSet(f, A \cup R) \in Int
  BY <1>1, SumType
<1> DEFINE Splits(R) == SumFunctionOnSet(f, A \cup R) = SumFunctionOnSet(f, A) + SumFunctionOnSet(f, R)
<1>3. PICK T : T = {n \in Nat : \A R \in SUBSET B : Cardinality(R) = n => Splits(R)}
  OBVIOUS
<1>4. 0 \in T
  <2>1. \A R \in SUBSET B : Cardinality(R) = 0 => R = {}
    BY <1>1, FS_EmptySet
  <2>2. SumFunctionOnSet(f, {}) = 0 /\ A \cup {} = A
    BY SumEmpty
  <2> QED BY <1>2, <1>3, <2>1, <2>2
<1>5. ASSUME NEW n \in Nat, n \in T PROVE n + 1 \in T
  <2>1. SUFFICES ASSUME NEW R \in SUBSET B, Cardinality(R) = n + 1 PROVE Splits(R)
    BY <1>3
  <2>2. PICK x : x \in R
    <3>1. R # {}
      BY <2>1, FS_EmptySet
    <3> QED BY <3>1
  <2>3. R \ {x} \in SUBSET B /\ Cardinality(R \ {x}) = n
    <3>1. IsFiniteSet(R)
      BY <1>1
    <3> QED BY <2>1, <2>2, <3>1, OneFewer
  <2>4. Splits(R \ {x})
    BY <1>3, <1>5, <2>3
  <2>5. SumFunctionOnSet(f, R) = f[x] + SumFunctionOnSet(f, R \ {x})
    <3>1. IsFiniteSet(R) /\ \A y \in R : f[y] \in Int
      BY <1>1
    <3> QED BY <2>2, <3>1, SumRemove
  <2>6. SumFunctionOnSet(f, A \cup R) = f[x] + SumFunctionOnSet(f, (A \cup R) \ {x})
    <3>1. (\A y \in A \cup R : f[y] \in Int) /\ x \in A \cup R
      BY <2>2
    <3> QED BY <1>1, <3>1, SumRemove
  <2>7. (A \cup R) \ {x} = A \cup (R \ {x})
    BY <2>2
  <2>8. f[x] \in Int
    BY <2>2
  <2> HIDE DEF Splits
  <2>9. SumFunctionOnSet(f, A \cup (R \ {x})) = SumFunctionOnSet(f, A) + SumFunctionOnSet(f, R \ {x})
    BY <2>4 DEF Splits
  <2>10. SumFunctionOnSet(f, A \cup R) = SumFunctionOnSet(f, A) + SumFunctionOnSet(f, R)
    <3>1. PICK a, r : a = SumFunctionOnSet(f, A) /\ r = SumFunctionOnSet(f, R \ {x})
      OBVIOUS
    <3>2. a \in Int /\ r \in Int
      BY <1>2, <2>3, <3>1
    <3>3. SumFunctionOnSet(f, R) = f[x] + r
      BY <2>5, <3>1
    <3>4. SumFunctionOnSet(f, A \cup R) = f[x] + (a + r)
      BY <2>6, <2>7, <2>9, <3>1
    <3> QED BY <2>8, <3>1, <3>2, <3>3, <3>4
  <2> QED BY <2>10 DEF Splits
<1>6. \A n \in Nat : n \in T
  BY <1>4, <1>5, EveryNatural
<1>7. B \in SUBSET B
  OBVIOUS
<1> QED BY <1>1, <1>3, <1>6, <1>7

\* A sum depends only on what is added up.
LEMMA SumSame ==
  ASSUME NEW f, NEW g, NEW S, IsFiniteSet(S), \A x \in S : f[x] = g[x]
  PROVE  SumFunctionOnSet(f, S) = SumFunctionOnSet(g, S)
<1>1. \A R \in SUBSET S : IsFiniteSet(R) /\ Cardinality(R) \in Nat
  BY FS_Subset, FS_CardinalityType
<1>2. PICK T : T = {n \in Nat : \A R \in SUBSET S : Cardinality(R) = n =>
                                  SumFunctionOnSet(f, R) = SumFunctionOnSet(g, R)}
  OBVIOUS
<1>3. 0 \in T
  <2>1. \A R \in SUBSET S : Cardinality(R) = 0 => R = {}
    BY <1>1, FS_EmptySet
  <2>2. SumFunctionOnSet(f, {}) = 0 /\ SumFunctionOnSet(g, {}) = 0
    BY SumEmpty
  <2> QED BY <1>2, <2>1, <2>2
<1>4. ASSUME NEW n \in Nat, n \in T PROVE n + 1 \in T
  <2>1. SUFFICES ASSUME NEW R \in SUBSET S, Cardinality(R) = n + 1
                 PROVE  SumFunctionOnSet(f, R) = SumFunctionOnSet(g, R)
    BY <1>2
  <2>2. R # {}
    BY <2>1, FS_EmptySet
  <2>3. PICK c \in R : \A h : SumFunctionOnSet(h, R) = h[c] + SumFunctionOnSet(h, R \ {c})
    BY <1>1, <2>2, SumChoice
  <2>4. /\ SumFunctionOnSet(f, R) = f[c] + SumFunctionOnSet(f, R \ {c})
        /\ SumFunctionOnSet(g, R) = g[c] + SumFunctionOnSet(g, R \ {c})
        /\ f[c] = g[c]
    BY <2>3
  <2>5. R \ {c} \in SUBSET S /\ Cardinality(R \ {c}) = n
    BY <1>1, <2>1, <2>3, OneFewer
  <2>6. SumFunctionOnSet(f, R \ {c}) = SumFunctionOnSet(g, R \ {c})
    BY <1>2, <1>4, <2>5
  <2> QED BY <2>4, <2>6
<1>5. \A n \in Nat : n \in T
  BY <1>3, <1>4, EveryNatural
<1> QED BY <1>1, <1>2, <1>5

(***************************************************************************)
(* Sizes.                                                                  *)
(***************************************************************************)
\* The size of variables is a natural number.
LEMMA BytesType ==
  ASSUME NEW v, IsObject(v), NEW keyBytes \in [DOMAIN KeyBytes -> Nat]
  PROVE  BytesWith(keyBytes, v) \in Nat
<1>1. PICK w : w = [n \in DOMAIN v |-> keyBytes[n] + ValueBytes[v[n]]]
  OBVIOUS
<1>2. DOMAIN w = DOMAIN v /\ \A n \in DOMAIN w : w[n] \in Nat
  BY <1>1, BatchAssumption DEF IsObject
<1>3. SumFunction(w) \in Nat
  BY <1>2, SumType DEF SumFunction, IsObject
<1>4. DOMAIN v # {} => Cardinality(DOMAIN v) - 1 \in Nat
  <2>1. Cardinality(DOMAIN v) \in Nat /\ (Cardinality(DOMAIN v) = 0 <=> DOMAIN v = {})
    BY FS_CardinalityType, FS_EmptySet DEF IsObject
  <2> QED BY <2>1
<1>5. BytesWith(keyBytes, v) = 2 + SumFunction(w) + (IF DOMAIN v = {} THEN 0 ELSE Cardinality(DOMAIN v) - 1)
  BY <1>1 DEF BytesWith, Content
<1>6. PICK total, commas :
        total = SumFunction(w) /\ commas = IF DOMAIN v = {} THEN 0 ELSE Cardinality(DOMAIN v) - 1
  OBVIOUS
<1>7. total \in Nat /\ commas \in Nat
  BY <1>3, <1>4, <1>6
<1> QED BY <1>5, <1>6, <1>7

LEMMA ObjectBytesType ==
  ASSUME NEW v, IsObject(v)
  PROVE  ObjectBytes(v) \in Nat
  BY BytesType, BatchAssumption DEF ObjectBytes

\* The shared variables that a request does not have.
Kept(shared, own) == Restrict(shared, DOMAIN shared \ DOMAIN own)

\* The variables of two objects, each name once, sized together.
LEMMA MergedTotals ==
  ASSUME NEW shared, NEW own, IsObject(shared), IsObject(own),
         NEW keyBytes \in [DOMAIN KeyBytes -> Nat]
  PROVE  /\ IsObject(Merged(shared, own))
         /\ Content(keyBytes, own) \in Nat /\ Content(keyBytes, Kept(shared, own)) \in Nat
         /\ Cardinality(DOMAIN own) \in Nat /\ Cardinality(DOMAIN Kept(shared, own)) \in Nat
         /\ BytesWith(keyBytes, own) =
              2 + Content(keyBytes, own) + (IF Cardinality(DOMAIN own) = 0 THEN 0 ELSE Cardinality(DOMAIN own) - 1)
         /\ BytesWith(keyBytes, Merged(shared, own)) =
              2 + (Content(keyBytes, own) + Content(keyBytes, Kept(shared, own)))
                + (IF Cardinality(DOMAIN own) + Cardinality(DOMAIN Kept(shared, own)) = 0 THEN 0
                   ELSE Cardinality(DOMAIN own) + Cardinality(DOMAIN Kept(shared, own)) - 1)
<1>1. PICK m, rest : m = Merged(shared, own) /\ rest = Kept(shared, own)
  OBVIOUS
<1>2. PICK wo, wr :
        /\ wo = [n \in DOMAIN own |-> keyBytes[n] + ValueBytes[own[n]]]
        /\ wr = [n \in DOMAIN rest |-> keyBytes[n] + ValueBytes[rest[n]]]
  OBVIOUS
<1>3. PICK so, sr, co, cr :
        /\ so = SumFunction(wo) /\ sr = SumFunction(wr)
        /\ co = Cardinality(DOMAIN own) /\ cr = Cardinality(DOMAIN rest)
  OBVIOUS
<1>4. PICK kept : kept = DOMAIN shared \ DOMAIN own
  OBVIOUS
<1>5. /\ DOMAIN m = DOMAIN own \cup kept /\ DOMAIN own \cap kept = {} /\ DOMAIN rest = kept
      /\ \A n \in DOMAIN own : m[n] = own[n]
      /\ \A n \in kept : m[n] = shared[n] /\ rest[n] = shared[n]
  BY <1>4, <1>1 DEF Merged, Restrict, Kept
<1>6. IsFiniteSet(DOMAIN own) /\ IsFiniteSet(kept) /\ IsFiniteSet(DOMAIN m)
  <2>1. IsFiniteSet(DOMAIN own) /\ IsFiniteSet(kept)
    BY <1>4, FS_Difference DEF IsObject
  <2>2. IsFiniteSet(DOMAIN own \cup kept)
    BY <2>1, FS_Union
  <2> QED BY <1>5, <2>1, <2>2
<1>7. IsObject(m)
  <2>1. \A n \in DOMAIN m : m[n] \in DOMAIN ValueBytes /\ n \in DOMAIN KeyBytes
    BY <1>4, <1>5 DEF IsObject
  <2>2. m = [n \in DOMAIN m |-> m[n]]
    BY <1>1 DEF Merged
  <2> QED BY <1>6, <2>1, <2>2 DEF IsObject
<1>8. PICK wm : wm = [n \in DOMAIN m |-> keyBytes[n] + ValueBytes[m[n]]]
  OBVIOUS
<1>9. /\ \A n \in DOMAIN own : wm[n] = wo[n]
      /\ \A n \in kept : wm[n] = wr[n]
      /\ \A n \in DOMAIN own \cup kept : wm[n] \in Nat
  <2>1. \A n \in DOMAIN own \cup kept : m[n] \in DOMAIN ValueBytes /\ n \in DOMAIN KeyBytes
    BY <1>5, <1>7 DEF IsObject
  <2>2. \A n \in DOMAIN own \cup kept : keyBytes[n] + ValueBytes[m[n]] \in Nat
    BY <2>1, BatchAssumption
  <2> QED BY <1>5, <1>8, <1>2, <2>2
<1>10. SumFunctionOnSet(wm, DOMAIN own \cup kept) = SumFunctionOnSet(wm, DOMAIN own) + SumFunctionOnSet(wm, kept)
  <2>1. \A n \in DOMAIN own \cup kept : wm[n] \in Int
    BY <1>9
  <2>2. IsFiniteSet(DOMAIN own) /\ IsFiniteSet(kept) /\ DOMAIN own \cap kept = {}
    BY <1>5, <1>6
  <2> QED BY <2>1, <2>2, SumUnion
<1>11. SumFunctionOnSet(wm, DOMAIN own) = SumFunctionOnSet(wo, DOMAIN own)
  BY <1>6, <1>9, SumSame
<1>12. SumFunctionOnSet(wm, kept) = SumFunctionOnSet(wr, kept)
  <2>1. IsFiniteSet(kept) /\ \A n \in kept : wm[n] = wr[n]
    BY <1>6, <1>9
  <2> QED BY <2>1, SumSame
<1>13. /\ so = SumFunctionOnSet(wm, DOMAIN own) /\ sr = SumFunctionOnSet(wm, kept)
       /\ co = Cardinality(DOMAIN own) /\ cr = Cardinality(kept)
  BY <1>5, <1>11, <1>12, <1>3, <1>2 DEF SumFunction
<1>14. so \in Nat /\ sr \in Nat /\ co \in Nat /\ cr \in Nat
  <2>1. co \in Nat /\ cr \in Nat
    BY <1>6, <1>13, FS_CardinalityType
  <2>2. \A n \in DOMAIN own : wm[n] \in Nat
    BY <1>9
  <2>3. \A n \in kept : wm[n] \in Nat
    BY <1>9
  <2> QED BY <1>6, <1>13, <2>1, <2>2, <2>3, SumType
<1>15. SumFunction(wm) = so + sr /\ SumFunction(wo) = so /\ SumFunction(wr) = sr
  BY <1>5, <1>8, <1>10, <1>11, <1>12, <1>13, <1>2 DEF SumFunction
<1>16. Cardinality(DOMAIN m) = co + cr
  <2>1. Cardinality(DOMAIN own \cup kept) = co + cr - Cardinality(DOMAIN own \cap kept)
    BY <1>6, <1>13, FS_Union
  <2>2. Cardinality(DOMAIN own \cap kept) = 0
    BY <1>5, FS_EmptySet
  <2> QED BY <1>5, <1>14, <2>1, <2>2
<1>17. /\ co = 0 <=> DOMAIN own = {}
       /\ co + cr = 0 <=> DOMAIN m = {}
  <2>1. co = 0 <=> DOMAIN own = {}
    BY <1>6, <1>13, FS_EmptySet
  <2>2. cr = 0 <=> kept = {}
    BY <1>6, <1>13, FS_EmptySet
  <2>3. DOMAIN m = {} <=> DOMAIN own = {} /\ kept = {}
    BY <1>5
  <2>4. co + cr = 0 <=> co = 0 /\ cr = 0
    BY <1>14
  <2> QED BY <2>1, <2>2, <2>3, <2>4
<1>18. BytesWith(keyBytes, own) = 2 + so + (IF co = 0 THEN 0 ELSE co - 1)
  BY <1>13, <1>15, <1>17, <1>2 DEF BytesWith, Content
<1>19. BytesWith(keyBytes, m) = 2 + (so + sr) + (IF co + cr = 0 THEN 0 ELSE co + cr - 1)
  <2>1. BytesWith(keyBytes, m)
          = 2 + SumFunction(wm) + (IF DOMAIN m = {} THEN 0 ELSE Cardinality(DOMAIN m) - 1)
    BY <1>8 DEF BytesWith, Content
  <2> QED BY <1>14, <1>15, <1>16, <1>17, <2>1
<1>20. Content(keyBytes, own) = so /\ Content(keyBytes, rest) = sr
  BY <1>3, <1>2 DEF Content
<1> QED BY <1>7, <1>14, <1>18, <1>19, <1>20, <1>1, <1>3

\* What mergedVariableObjectSize adds up from two objects is the size of the
\* object they are merged into, in the names' JSON of json.Marshal.
LEMMA MergedSizeIsExact ==
  ASSUME NEW shared, NEW own, IsObject(shared), IsObject(own)
  PROVE  MergedSize(shared, own) = BytesWith(MarshaledBytes, Merged(shared, own))
<1>1. MarshaledBytes \in [DOMAIN KeyBytes -> Nat]
  BY BatchAssumption
<1>2. PICK so, sr, co, cr, bytes :
        /\ so = Content(MarshaledBytes, own) /\ sr = Content(MarshaledBytes, Kept(shared, own))
        /\ co = Cardinality(DOMAIN own) /\ cr = Cardinality(DOMAIN Kept(shared, own))
        /\ bytes = BytesWith(MarshaledBytes, Merged(shared, own))
  OBVIOUS
<1>3. /\ so \in Nat /\ sr \in Nat /\ co \in Nat /\ cr \in Nat
      /\ bytes = 2 + (so + sr) + (IF co + cr = 0 THEN 0 ELSE co + cr - 1)
  BY <1>1, <1>2, MergedTotals
<1>4. MergedSize(shared, own) = 2 + sr + so + (IF cr + co = 0 THEN 0 ELSE cr + co - 1)
  <2>1. PICK kept : kept = Restrict(shared, DOMAIN shared \ DOMAIN own)
    OBVIOUS
  <2>2. sr = Content(MarshaledBytes, kept) /\ cr = Cardinality(DOMAIN kept)
    BY <1>2, <2>1 DEF Kept
  <2> QED BY <1>2, <1>3, <2>1, <2>2 DEF MergedSize
<1> QED BY <1>2, <1>3, <1>4

\* Merging only adds variables.
LEMMA MergedIsLarger ==
  ASSUME NEW shared, NEW own, IsObject(shared), IsObject(own)
  PROVE  IsObject(Merged(shared, own)) /\ ObjectBytes(own) <= ObjectBytes(Merged(shared, own))
<1>1. KeyBytes \in [DOMAIN KeyBytes -> Nat]
  BY BatchAssumption
<1>2. PICK so, sr, co, cr, bytes, all :
        /\ so = Content(KeyBytes, own) /\ sr = Content(KeyBytes, Kept(shared, own))
        /\ co = Cardinality(DOMAIN own) /\ cr = Cardinality(DOMAIN Kept(shared, own))
        /\ bytes = BytesWith(KeyBytes, own) /\ all = BytesWith(KeyBytes, Merged(shared, own))
  OBVIOUS
<1>3. /\ so \in Nat /\ sr \in Nat /\ co \in Nat /\ cr \in Nat
      /\ bytes = 2 + so + (IF co = 0 THEN 0 ELSE co - 1)
      /\ all = 2 + (so + sr) + (IF co + cr = 0 THEN 0 ELSE co + cr - 1)
      /\ IsObject(Merged(shared, own))
  BY <1>1, <1>2, MergedTotals
<1>4. bytes <= all
  BY <1>3
<1> QED BY <1>2, <1>3, <1>4 DEF ObjectBytes

\* The size of an envelope is a natural number, and so is that of its sources.
LEMMA SourceTotalType ==
  ASSUME NEW batch, IsFiniteSet(DOMAIN batch),
         \A i \in DOMAIN batch : batch[i].source \in DOMAIN SourceBytes \cup {Blank}
  PROVE  SourceTotal(batch) \in Nat
<1>1. PICK w : w = [i \in DOMAIN batch |-> SourceLength(batch[i])]
  OBVIOUS
<1>2. DOMAIN w = DOMAIN batch /\ \A i \in DOMAIN w : w[i] \in Nat
  BY <1>1, BatchAssumption DEF SourceLength
<1>3. SumFunction(w) \in Nat
  BY <1>2, SumType DEF SumFunction
<1> QED BY <1>1, <1>3 DEF SourceTotal

LEMMA EnvelopeLengthType ==
  ASSUME NEW e, IsObject(e.shared), IsFiniteSet(DOMAIN e.requests),
         \A i \in DOMAIN e.requests : /\ e.requests[i].source \in DOMAIN SourceBytes \cup {Blank}
                                      /\ IsObject(e.requests[i].variables)
  PROVE  EnvelopeLength(e) \in Nat
<1>1. PICK w : w = [i \in DOMAIN e.requests |-> RequestLength(e.requests[i])]
  OBVIOUS
<1>2. DOMAIN w = DOMAIN e.requests /\ \A i \in DOMAIN w : w[i] \in Nat
  BY <1>1, BatchAssumption, ObjectBytesType DEF SourceLength, RequestLength
<1>3. SumFunction(w) \in Nat
  BY <1>2, SumType DEF SumFunction
<1> QED BY <1>1, <1>3, BatchAssumption, ObjectBytesType DEF EnvelopeLength

(***************************************************************************)
(* Sequences whose elements need no name.                                  *)
(***************************************************************************)
IsSeq(s) == s \in Seq(Range(s))

\* What a sequence is, element by element.
LEMMA SeqFacts ==
  ASSUME NEW s, IsSeq(s)
  PROVE  /\ Len(s) \in Nat /\ DOMAIN s = 1..Len(s)
         /\ IsFiniteSet(DOMAIN s)
         /\ s = [i \in 1..Len(s) |-> s[i]]
         /\ s = <<>> <=> Len(s) = 0
<1>1. Len(s) \in Nat /\ DOMAIN s = 1..Len(s)
  BY DEF IsSeq
<1>2. s = [i \in 1..Len(s) |-> s[i]]
  BY DEF IsSeq
<1>3. IsFiniteSet(DOMAIN s)
  BY <1>1, FS_Interval
<1>4. s = <<>> <=> Len(s) = 0
  BY DEF IsSeq
<1> QED BY <1>1, <1>2, <1>3, <1>4

\* A function on 1..n is a sequence.
LEMMA SeqByElements ==
  ASSUME NEW n \in Nat, NEW s, s = [i \in 1..n |-> s[i]]
  PROVE  IsSeq(s) /\ Len(s) = n
<1>1. DOMAIN s = 1..n /\ \A i \in 1..n : s[i] \in Range(s)
  BY DEF Range
<1>2. s \in [1..n -> Range(s)]
  BY <1>1
<1> QED BY <1>2 DEF IsSeq

\* Concatenation and Append.
LEMMA Joined ==
  ASSUME NEW s, NEW t, IsSeq(s), IsSeq(t)
  PROVE  /\ IsSeq(s \o t) /\ Len(s \o t) = Len(s) + Len(t)
         /\ \A i \in 1..Len(s) : (s \o t)[i] = s[i]
         /\ \A i \in 1..Len(t) : (s \o t)[Len(s) + i] = t[i]
<1>1. PICK S : S = Range(s) \cup Range(t)
  OBVIOUS
<1>2. s \in Seq(S) /\ t \in Seq(S)
  BY <1>1 DEF IsSeq
<1>3. Len(s) \in Nat /\ Len(t) \in Nat
  BY SeqFacts
<1>4. PICK j : j = s \o t
  OBVIOUS
<1>5. j \in Seq(S) /\ Len(j) = Len(s) + Len(t)
  BY <1>2, <1>4
<1>6. j = [i \in 1..(Len(s) + Len(t)) |-> j[i]]
  BY <1>5
<1>7. IsSeq(j) /\ Len(j) = Len(s) + Len(t)
  BY <1>3, <1>6, SeqByElements
<1>8. \A i \in 1..Len(s) : j[i] = s[i]
  BY <1>2, <1>3, <1>4
<1>9. ASSUME NEW i \in 1..Len(t) PROVE j[Len(s) + i] = t[i]
  <2>1. Len(s) + i \in 1..(Len(s) + Len(t)) /\ ~(Len(s) + i <= Len(s)) /\ Len(s) + i - Len(s) = i
    BY <1>3
  <2> QED BY <1>2, <1>3, <1>4, <2>1
<1> QED BY <1>4, <1>7, <1>8, <1>9

LEMMA Appended ==
  ASSUME NEW s, NEW e, IsSeq(s)
  PROVE  /\ IsSeq(Append(s, e)) /\ Len(Append(s, e)) = Len(s) + 1
         /\ \A i \in 1..Len(s) : Append(s, e)[i] = s[i]
         /\ Append(s, e)[Len(s) + 1] = e
<1>1. PICK S : S = Range(s) \cup {e}
  OBVIOUS
<1>2. s \in Seq(S) /\ e \in S
  BY <1>1 DEF IsSeq
<1>3. Len(s) \in Nat
  BY SeqFacts
<1>4. PICK j : j = Append(s, e)
  OBVIOUS
<1>5. /\ j \in Seq(S) /\ Len(j) = Len(s) + 1
      /\ \A i \in 1..Len(s) : j[i] = s[i]
      /\ j[Len(s) + 1] = e
  BY <1>2, <1>4
<1>6. j = [i \in 1..(Len(s) + 1) |-> j[i]]
  BY <1>5
<1>7. IsSeq(j)
  BY <1>3, <1>6, SeqByElements
<1> QED BY <1>4, <1>5, <1>7

\* The piece of a sequence that comes after the first o elements.
LEMMA Piece ==
  ASSUME NEW s, IsSeq(s), NEW o \in 0..Len(s), NEW n \in 0..(Len(s) - o)
  PROVE  /\ IsSeq(SubSeq(s, o + 1, o + n)) /\ Len(SubSeq(s, o + 1, o + n)) = n
         /\ \A i \in 1..n : SubSeq(s, o + 1, o + n)[i] = s[o + i]
<1>1. Len(s) \in Nat /\ o \in Nat /\ n \in Nat
  BY SeqFacts
<1>2. PICK p : p = SubSeq(s, o + 1, o + n)
  OBVIOUS
<1>3. p = [i \in 1..(o + n - (o + 1) + 1) |-> s[o + 1 + i - 1]]
  BY <1>1, <1>2 DEF IsSeq
<1>4. o + n - (o + 1) + 1 = n /\ \A i \in 1..n : o + 1 + i - 1 = o + i
  BY <1>1
<1>5. p = [i \in 1..n |-> p[i]] /\ \A i \in 1..n : p[i] = s[o + i]
  BY <1>3, <1>4
<1>6. IsSeq(p) /\ Len(p) = n
  BY <1>1, <1>5, SeqByElements
<1> QED BY <1>2, <1>5, <1>6

\* All that comes after the first o elements.
LEMMA Rest ==
  ASSUME NEW s, IsSeq(s), NEW o \in 0..Len(s)
  PROVE  /\ IsSeq(SubSeq(s, o + 1, Len(s))) /\ Len(SubSeq(s, o + 1, Len(s))) = Len(s) - o
         /\ \A i \in 1..(Len(s) - o) : SubSeq(s, o + 1, Len(s))[i] = s[o + i]
<1>1. Len(s) \in Nat
  BY SeqFacts
<1>2. PICK n : n = Len(s) - o
  OBVIOUS
<1>3. n \in 0..(Len(s) - o) /\ o + n = Len(s)
  BY <1>1, <1>2
<1>4. /\ IsSeq(SubSeq(s, o + 1, o + n)) /\ Len(SubSeq(s, o + 1, o + n)) = n
      /\ \A i \in 1..n : SubSeq(s, o + 1, o + n)[i] = s[o + i]
  BY <1>3, Piece
<1> QED BY <1>2, <1>3, <1>4

\* A first piece of the rest.
LEMMA PieceOfRest ==
  ASSUME NEW s, IsSeq(s), NEW o \in 0..Len(s), NEW n \in 0..(Len(s) - o)
  PROVE  SubSeq(SubSeq(s, o + 1, Len(s)), 1, n) = SubSeq(s, o + 1, o + n)
<1>1. Len(s) \in Nat
  BY SeqFacts
<1>2. PICK r : r = SubSeq(s, o + 1, Len(s))
  OBVIOUS
<1>3. IsSeq(r) /\ Len(r) = Len(s) - o /\ \A i \in 1..(Len(s) - o) : r[i] = s[o + i]
  BY <1>2, Rest
<1>4. PICK p, q : p = SubSeq(r, 1, n) /\ q = SubSeq(s, o + 1, o + n)
  OBVIOUS
<1>5. IsSeq(p) /\ Len(p) = n /\ \A i \in 1..n : p[i] = r[i]
  <2>1. 0 \in 0..Len(r) /\ n \in 0..(Len(r) - 0)
    BY <1>1, <1>3
  <2>2. /\ IsSeq(SubSeq(r, 0 + 1, 0 + n)) /\ Len(SubSeq(r, 0 + 1, 0 + n)) = n
        /\ \A i \in 1..n : SubSeq(r, 0 + 1, 0 + n)[i] = r[0 + i]
    BY <1>3, <2>1, Piece
  <2>3. 0 + n = n /\ 0 + 1 = 1 /\ \A i \in 1..n : 0 + i = i
    OBVIOUS
  <2> QED BY <1>4, <2>2, <2>3
<1>6. IsSeq(q) /\ Len(q) = n /\ \A i \in 1..n : q[i] = s[o + i]
  BY <1>4, Piece
<1>7. \A i \in 1..n : p[i] = q[i]
  BY <1>1, <1>3, <1>5, <1>6
<1>8. p = [i \in 1..n |-> p[i]] /\ q = [i \in 1..n |-> q[i]]
  BY <1>5, <1>6, SeqFacts
<1>9. p = q
  BY <1>7, <1>8
<1> QED BY <1>2, <1>4, <1>9

LEMMA SingleSeq ==
  ASSUME NEW e
  PROVE  IsSeq(<<e>>) /\ Len(<<e>>) = 1 /\ DOMAIN <<e>> = 1..1 /\ <<e>>[1] = e /\ <<e>> # <<>>
  BY DEF IsSeq, Range

LEMMA EmptySequence == IsSeq(<<>>) /\ Len(<<>>) = 0 /\ DOMAIN <<>> = {} /\ Range(<<>>) = {}
  BY DEF IsSeq, Range

(***************************************************************************)
(* Splitting.                                                              *)
(***************************************************************************)
\* The next batch is the largest that fits, or empty.
LEMMA AcceptedFits ==
  ASSUME NEW limits, NEW list, IsSeq(list)
  PROVE  /\ Accepted(list, limits) \in 0..Len(list)
         /\ Accepted(list, limits) > 0 => Fits(SubSeq(list, 1, Accepted(list, limits)), limits)
<1>1. Len(list) \in Nat /\ DOMAIN list = 1..Len(list)
  BY SeqFacts
<1>2. PICK T : T = {0} \cup {n \in DOMAIN list : \A m \in 1..n : Fits(SubSeq(list, 1, m), limits)}
  OBVIOUS
<1>3. T \subseteq 0..Len(list) /\ T # {}
  BY <1>1, <1>2
<1>4. Max(T) \in T
  BY <1>1, <1>3, LargestElement
<1>5. Accepted(list, limits) = Max(T)
  BY <1>2 DEF Accepted
<1>6. ASSUME Max(T) > 0 PROVE Fits(SubSeq(list, 1, Max(T)), limits)
  <2>1. Max(T) \in 1..Max(T)
    <3>1. Max(T) \in 0..Len(list)
      BY <1>3, <1>4
    <3> QED BY <1>1, <1>6, <3>1
  <2> QED BY <1>2, <1>4, <1>6, <2>1
<1> QED BY <1>3, <1>4, <1>5, <1>6

Rests(list, o) == SubSeq(list, o + 1, Len(list))

\* from[o] is the batches of what comes after the first o requests.
SplitsTo(list, limits, from) ==
  from = [o \in 0..Len(list) |->
            IF o = Len(list) THEN <<>>
            ELSE LET n == Accepted(Rests(list, o), limits)
                 IN IF n = 0 THEN <<<<>>>> ELSE <<SubSeq(list, o + 1, o + n)>> \o from[Advance(o, n)]]

SplitFrom(list, limits, o) == (CHOOSE from : SplitsTo(list, limits, from))[o]

\* A batch ends where the list does or before.
LEMMA NextOffset ==
  ASSUME NEW limits, NEW list, IsSeq(list), NEW o \in 0..Len(list), NEW n, n = Accepted(Rests(list, o), limits)
  PROVE  n \in 0..(Len(list) - o) /\ Advance(o, n) = o + n /\ o + n \in 0..Len(list)
<1>1. Len(list) \in Nat
  BY SeqFacts
<1>2. IsSeq(Rests(list, o)) /\ Len(Rests(list, o)) = Len(list) - o
  BY Rest DEF Rests
<1>3. n \in 0..(Len(list) - o)
  BY <1>2, AcceptedFits
<1> QED BY <1>1, <1>3 DEF Advance

\* The recursion that splits a list has a solution.
LEMMA SplitExists ==
  ASSUME NEW limits, NEW list, IsSeq(list)
  PROVE  \E from : SplitsTo(list, limits, from)
<1> DEFINE L == Len(list)
           Body(g, o) == IF o = L THEN <<>>
                         ELSE LET n == Accepted(Rests(list, o), limits)
                              IN IF n = 0 THEN <<<<>>>> ELSE <<SubSeq(list, o + 1, o + n)>> \o g[Advance(o, n)]
           Upto(k) == \E g : \A o \in 0..L : L - o <= k => g[o] = Body(g, o)
<1>1. L \in Nat
  BY SeqFacts
<1>2. Upto(0)
  <2>1. PICK g : g = [o \in 0..L |-> <<>>]
    OBVIOUS
  <2>2. \A o \in 0..L : L - o <= 0 => o = L
    BY <1>1
  <2>3. \A o \in 0..L : L - o <= 0 => g[o] = Body(g, o)
    BY <2>1, <2>2
  <2> QED BY <2>3
<1>3. ASSUME NEW k \in Nat, Upto(k) PROVE Upto(k + 1)
  <2>1. PICK g : \A o \in 0..L : L - o <= k => g[o] = Body(g, o)
    BY <1>3
  <2>2. PICK h : h = [o \in 0..L |-> Body(g, o)]
    OBVIOUS
  <2>3. \A o \in 0..L : L - o <= k => h[o] = g[o]
    BY <2>1, <2>2
  <2>4. ASSUME NEW o \in 0..L, L - o <= k + 1 PROVE h[o] = Body(h, o)
    <3>1. PICK n : n = Accepted(Rests(list, o), limits)
      OBVIOUS
    <3>2. n \in 0..(L - o) /\ Advance(o, n) = o + n /\ o + n \in 0..L
      BY <3>1, NextOffset
    <3>3. h[o] = Body(g, o)
      BY <2>2
    <3>4. CASE o = L \/ n = 0
      BY <3>1, <3>3, <3>4
    <3>5. CASE o # L /\ n # 0
      <4>1. L - (o + n) <= k
        BY <1>1, <2>4, <3>2, <3>5
      <4>2. h[o + n] = g[o + n]
        BY <2>3, <3>2, <4>1
      <4> QED BY <3>1, <3>2, <3>3, <3>5, <4>2
    <3> QED BY <3>4, <3>5
  <2> QED BY <2>4
<1>4. Upto(L)
  <2>1. PICK T : T = {k \in Nat : Upto(k)}
    OBVIOUS
  <2> HIDE DEF Upto
  <2>2. 0 \in T /\ \A k \in Nat : k \in T => k + 1 \in T
    BY <1>2, <1>3, <2>1
  <2>3. \A k \in Nat : k \in T
    BY <2>2, EveryNatural
  <2> QED BY <1>1, <2>1, <2>3
<1>5. PICK g : \A o \in 0..L : L - o <= L => g[o] = Body(g, o)
  BY <1>4
<1>6. \A o \in 0..L : g[o] = Body(g, o)
  BY <1>1, <1>5
<1>7. PICK from : from = [o \in 0..L |-> g[o]]
  OBVIOUS
<1>8. ASSUME NEW o \in 0..L PROVE from[o] = Body(from, o)
  <2>1. PICK n : n = Accepted(Rests(list, o), limits)
    OBVIOUS
  <2>2. Advance(o, n) = o + n /\ o + n \in 0..L
    BY <2>1, NextOffset
  <2>3. from[o] = Body(g, o) /\ from[o + n] = g[o + n]
    BY <1>6, <1>7, <2>2
  <2> QED BY <2>1, <2>2, <2>3
<1>9. from = [o \in 0..L |-> Body(from, o)]
  <2>1. \A o \in 0..L : from[o] = Body(from, o)
    BY <1>8
  <2> QED BY <1>7, <2>1
<1> QED BY <1>9 DEF SplitsTo

\* Split is the batches of all the requests.
LEMMA SplitIsFromStart ==
  ASSUME NEW limits, NEW list
  PROVE  Split(list, limits) = SplitFrom(list, limits, 0)
  BY DEF Split, SplitFrom, SplitsTo, Rests

\* The batches of what is left are a first one that fits, and the batches of
\* what is left after it.
LEMMA SplitUnfolds ==
  ASSUME NEW limits, NEW list, IsSeq(list), NEW o \in 0..Len(list)
  PROVE  SplitFrom(list, limits, o) =
           IF o = Len(list) THEN <<>>
           ELSE LET n == Accepted(Rests(list, o), limits)
                IN IF n = 0 THEN <<<<>>>> ELSE <<SubSeq(list, o + 1, o + n)>> \o SplitFrom(list, limits, Advance(o, n))
<1>1. PICK from : from = CHOOSE f : SplitsTo(list, limits, f)
  OBVIOUS
<1>2. SplitsTo(list, limits, from)
  BY <1>1, SplitExists, Zenon
<1>3. \A p : SplitFrom(list, limits, p) = from[p]
  BY <1>1 DEF SplitFrom
<1> QED BY <1>2, <1>3 DEF SplitsTo

\* The batches are a sequence.
LEMMA SplitType ==
  ASSUME NEW limits, NEW list, IsSeq(list)
  PROVE  \A o \in 0..Len(list) : IsSeq(SplitFrom(list, limits, o))
<1>1. PICK L : L = Len(list)
  OBVIOUS
<1>2. L \in Nat
  BY <1>1, SeqFacts
<1>3. PICK T : T = {k \in Nat : \A o \in 0..L : L - o <= k => IsSeq(SplitFrom(list, limits, o))}
  OBVIOUS
<1>4. \A s : IsSeq(<<s>>) /\ IsSeq(<<>>) /\ Len(<<s>>) = 1
  BY DEF IsSeq, Range
<1>5. 0 \in T
  <2>1. ASSUME NEW o \in 0..L, L - o <= 0 PROVE IsSeq(SplitFrom(list, limits, o))
    <3>1. o = L
      BY <1>2, <2>1
    <3>2. SplitFrom(list, limits, o) = <<>>
      BY <1>1, <3>1, SplitUnfolds
    <3> QED BY <1>4, <3>2
  <2> QED BY <1>3, <2>1
<1>6. ASSUME NEW k \in Nat, k \in T PROVE k + 1 \in T
  <2>1. ASSUME NEW o \in 0..L, L - o <= k + 1 PROVE IsSeq(SplitFrom(list, limits, o))
    <3>1. PICK n : n = Accepted(Rests(list, o), limits)
      OBVIOUS
    <3>2. n \in 0..(L - o) /\ Advance(o, n) = o + n /\ o + n \in 0..L
      BY <1>1, <3>1, NextOffset
    <3>3. SplitFrom(list, limits, o) =
            IF o = L THEN <<>>
            ELSE IF n = 0 THEN <<<<>>>> ELSE <<SubSeq(list, o + 1, o + n)>> \o SplitFrom(list, limits, o + n)
      BY <1>1, <3>1, <3>2, SplitUnfolds
    <3>4. CASE o = L \/ n = 0
      BY <1>4, <3>3, <3>4
    <3>5. CASE o # L /\ n # 0
      <4>1. L - (o + n) <= k
        BY <1>2, <2>1, <3>2, <3>5
      <4>2. IsSeq(SplitFrom(list, limits, o + n))
        BY <1>3, <1>6, <3>2, <4>1
      <4> QED BY <1>4, <3>3, <3>5, <4>2, Joined
    <3> QED BY <3>4, <3>5
  <2> QED BY <1>3, <2>1
<1>7. \A k \in Nat : k \in T
  BY <1>5, <1>6, EveryNatural
<1>8. \A o \in 0..L : L - o <= L
  BY <1>2
<1> QED BY <1>1, <1>2, <1>3, <1>7, <1>8

\* One batch off the front: when no request of the list is too large.
LEMMA SplitStep ==
  ASSUME NEW limits, NEW list, IsSeq(list), NEW o \in 0..Len(list), <<>> \notin Range(SplitFrom(list, limits, o))
  PROVE  /\ o = Len(list) => SplitFrom(list, limits, o) = <<>>
         /\ o # Len(list) =>
              /\ SplitFrom(list, limits, o) # <<>>
              /\ \E n \in 1..(Len(list) - o) :
                   /\ Head(SplitFrom(list, limits, o)) = SubSeq(list, o + 1, o + n)
                   /\ Fits(SubSeq(list, o + 1, o + n), limits)
                   /\ Tail(SplitFrom(list, limits, o)) = SplitFrom(list, limits, o + n)
                   /\ <<>> \notin Range(SplitFrom(list, limits, o + n))
<1>1. o = Len(list) => SplitFrom(list, limits, o) = <<>>
  BY SplitUnfolds
<1>2. ASSUME o # Len(list)
      PROVE  /\ SplitFrom(list, limits, o) # <<>>
             /\ \E n \in 1..(Len(list) - o) :
                  /\ Head(SplitFrom(list, limits, o)) = SubSeq(list, o + 1, o + n)
                  /\ Fits(SubSeq(list, o + 1, o + n), limits)
                  /\ Tail(SplitFrom(list, limits, o)) = SplitFrom(list, limits, o + n)
                  /\ <<>> \notin Range(SplitFrom(list, limits, o + n))
  <2>1. PICK n : n = Accepted(Rests(list, o), limits)
    OBVIOUS
  <2>2. n \in 0..(Len(list) - o) /\ Advance(o, n) = o + n /\ o + n \in 0..Len(list)
    BY <2>1, NextOffset
  <2>3. SplitFrom(list, limits, o) =
          IF n = 0 THEN <<<<>>>> ELSE <<SubSeq(list, o + 1, o + n)>> \o SplitFrom(list, limits, o + n)
    BY <1>2, <2>1, <2>2, SplitUnfolds
  <2>4. n # 0
    <3>1. <<>> \in Range(<<<<>>>>)
      BY DEF Range
    <3> QED BY <2>3, <3>1
  <2>5. PICK b, t : b = SubSeq(list, o + 1, o + n) /\ t = SplitFrom(list, limits, o + n)
    OBVIOUS
  <2>6. IsSeq(t) /\ IsSeq(<<b>>) /\ Len(<<b>>) = 1
    BY <2>2, <2>5, SplitType, SingleSeq
  <2>7. PICK S : S = Range(t) \cup {b}
    OBVIOUS
  <2>8. t \in Seq(S) /\ b \in S
    BY <2>6, <2>7 DEF IsSeq
  <2>9. <<b>> \o t # <<>> /\ Head(<<b>> \o t) = b /\ Tail(<<b>> \o t) = t
    BY <2>8
  <2>10. \A e \in Range(t) : e \in Range(<<b>> \o t)
    <3>1. IsSeq(<<b>> \o t) /\ Len(<<b>> \o t) = 1 + Len(t) /\ \A i \in 1..Len(t) : (<<b>> \o t)[1 + i] = t[i]
      BY <2>6, Joined
    <3>2. DOMAIN t = 1..Len(t) /\ DOMAIN (<<b>> \o t) = 1..(1 + Len(t)) /\ Len(t) \in Nat
      BY <2>6, <3>1, SeqFacts
    <3>3. \A i \in 1..Len(t) : 1 + i \in DOMAIN (<<b>> \o t)
      BY <3>2
    <3> QED BY <3>1, <3>2, <3>3 DEF Range
  <2>11. Fits(b, limits)
    <3>1. IsSeq(Rests(list, o))
      BY Rest DEF Rests
    <3>2. n > 0
      BY <2>2, <2>4
    <3>3. Fits(SubSeq(Rests(list, o), 1, n), limits)
      BY <2>1, <3>1, <3>2, AcceptedFits
    <3> QED BY <2>2, <2>5, <3>3, PieceOfRest DEF Rests
  <2>12. SplitFrom(list, limits, o) = <<b>> \o t /\ n \in 1..(Len(list) - o)
    BY <2>2, <2>3, <2>4, <2>5
  <2>13. <<>> \notin Range(t)
    BY <2>10, <2>12
  <2> QED BY <2>5, <2>9, <2>11, <2>12, <2>13
<1> QED BY <1>1, <1>2

(***************************************************************************)
(* The invariants.                                                         *)
(***************************************************************************)
\* The types, and what is known of the runtimes and of the call's arguments.
TypeInv ==
  /\ TypeOK
  /\ IsSeq(runtimes) /\ runtimes # <<>>
  /\ IsSeq(programs) /\ Len(programs) = Len(runtimes)
  /\ \A r \in DOMAIN runtimes : r > 1 => programs[r] = {}
  /\ info = Public(runtimes[1])
  /\ requests \in Lists /\ deadline \in Deadlines

\* The n requests that come after those that have a result.
Due(n) == SubSeq(requests, Len(results) + 1, Len(results) + n)

\* The requests are those with a result, those of the batch under way, and
\* those of the batches to be sent, in this order.
BatchInv ==
  /\ IsSeq(results) /\ Len(results) <= Len(requests)
  /\ call = "encode" => results = <<>>
  /\ call = "send" =>
       /\ Len(results) < Len(requests)
       /\ batches = SplitFrom(requests, info, Len(results)) /\ <<>> \notin Range(batches)
  /\ call \in {"sent", "received"} =>
       \E n \in 1..(Len(requests) - Len(results)) :
         /\ served.envelope = Envelope(Due(n)) /\ Fits(Due(n), info)
         /\ batches = SplitFrom(requests, info, Len(results) + n) /\ <<>> \notin Range(batches)
  /\ call = "received" =>
       /\ served \in [envelope : {served.envelope}, sent : {served.sent}, received : {served.received},
                      until : {served.until}, on : {served.on}, items : {served.items}]
       /\ IsSeq(served.items) /\ Len(served.items) <= Len(served.envelope.requests)
  /\ call = "done" /\ failure = Blank => Len(results) = Len(requests)

\* An answer that the request could have got by itself, given the runtimes there
\* have been, their programs, the deadline, and the requests that were given
\* together with it.
OwnAnswer(rts, progs, due, all, request, answer) ==
  \/ answer = Bad("deadline_exceeded") /\ due # Blank
  \/ \E r \in DOMAIN rts, store \in SUBSET Programs, same \in Equals(request, all) :
       /\ progs[r] \subseteq store /\ (r > 1 => store = {})
       /\ AsAlone(answer, same, rts[r], store)

\* Items that are answers to the first requests of the list, in its order.
OwnAnswers(rts, progs, due, all, items, list) ==
  \A i \in DOMAIN items :
    items[i].id = list[i].id /\ OwnAnswer(rts, progs, due, all, list[i], items[i].answer)

\* Every result is the one of the request in its place.
AnswerInv ==
  /\ call \in {"send", "sent", "received"} => ValidRequests(requests)
  /\ OwnAnswers(runtimes, programs, deadline, requests, results, requests)
  /\ call = "received" =>
       /\ served.on \in DOMAIN runtimes /\ ~Undecodable(served.envelope.shared)
       /\ OwnAnswers(runtimes, programs, deadline, requests, served.items, Rests(requests, Len(results)))

\* What a batch that was sent at time t had left of the deadline.
RemainingAt(t) == IF deadline = Blank THEN Blank ELSE Max({0, deadline - t})

\* The deadline on the runtime's side is what was left of the call's.
TimeInv ==
  /\ call \in {"sent", "received"} => served.sent \in 0..clock
  /\ call = "sent" => served.remaining = RemainingAt(served.sent)
  /\ call = "received" =>
       /\ served.received \in served.sent..clock
       /\ served.until =
            IF deadline = Blank THEN Blank
            ELSE served.received * Milli + Wrapped(RemainingAt(served.sent) * Milli, DurationLimit)

TooLate(item) == item.answer = Bad("deadline_exceeded")

\* A result that came too late comes after the deadline, and is the first of
\* results that all came too late, with nothing sent any more.
FinalInv ==
  deadline # Blank /\ deadline * Milli < DurationLimit =>
    /\ \A i \in DOMAIN results : TooLate(results[i]) =>
         clock >= deadline /\ call \in {"send", "done"} /\ \A j \in i..Len(results) : TooLate(results[j])
    /\ call = "received" =>
         \A i \in DOMAIN served.items : TooLate(served.items[i]) =>
           DeadlinePassed(served.until) /\ \A j \in i..Len(served.items) : TooLate(served.items[j])

(***************************************************************************)
(* Types.                                                                  *)
(***************************************************************************)
\* Options that are accepted make limits that can be used.
LEMMA ParsedLimits ==
  ASSUME NEW options \in CreateOptions, ParseCreateOptions(options) # BadOptions
  PROVE  ParseCreateOptions(options) \in [LimitNames -> Nat \ {0}]
<1>1. PICK limits, overrides : limits = LimitsForProfile(options.profile) /\ overrides = options.limits
  OBVIOUS
<1>2. limits # BadOptions /\ ParseCreateOptions(options) = Apply(overrides, limits)
  BY <1>1 DEF ParseCreateOptions
<1>3. limits \in [LimitNames -> Nat \ {0}]
  BY <1>1, <1>2, LimitsAssumption DEF LimitsForProfile
<1>4. /\ ~(\E n \in DOMAIN overrides : n \notin Overridable \/ overrides[n] <= 0)
      /\ ParseCreateOptions(options) =
           [n \in DOMAIN limits |-> IF n \in DOMAIN overrides THEN overrides[n] ELSE limits[n]]
  BY <1>2 DEF Apply
<1>5. \A n \in DOMAIN overrides : overrides[n] \in Nat \ {0}
  <2>1. \A n \in DOMAIN overrides : overrides[n] \in Int
    BY <1>1, BatchAssumption
  <2> QED BY <1>4, <2>1
<1> QED BY <1>3, <1>4, <1>5

LEMMA InitTypes == Init => TypeInv
<1> SUFFICES ASSUME Init PROVE TypeInv
  OBVIOUS
<1>1. PICK options \in CreateOptions :
        /\ ParseCreateOptions(options) # BadOptions
        /\ runtimes = <<ParseCreateOptions(options)>>
        /\ info = Public(ParseCreateOptions(options))
  BY DEF Init
<1>2. ParseCreateOptions(options) \in [LimitNames -> Nat \ {0}]
  BY <1>1, ParsedLimits
<1>3. PICK limits : limits = ParseCreateOptions(options)
  OBVIOUS
<1>4. /\ IsSeq(runtimes) /\ runtimes # <<>> /\ Len(runtimes) = 1 /\ DOMAIN runtimes = 1..1 /\ runtimes[1] = limits
      /\ IsSeq(programs) /\ Len(programs) = 1 /\ programs[1] = Programs
  BY <1>1, <1>3, SingleSeq DEF Init
<1>5. info = Public(limits) /\ limits \in [LimitNames -> Nat \ {0}]
  BY <1>1, <1>2, <1>3
<1>6. TypeOK
  BY <1>4, <1>5, BatchAssumption DEF Init, TypeOK
<1> QED BY <1>4, <1>5, <1>6 DEF Init, TypeInv

\* The steps of the call and of the runtime that serves it.
LEMMA StepKeepsTypes ==
  ASSUME TypeInv, Step
  PROVE  TypeInv'
<1>1. UNCHANGED <<clock, runtimes, programs, info, requests, deadline>>
  BY DEF Step, Encode, GiveUp, Send, Receive, AnswerNext, Reply
<1>2. /\ call' \in {"encode", "send", "sent", "received", "done"}
      /\ failure' # Blank => call' = "done"
  BY DEF TypeInv, TypeOK, Step, Encode, GiveUp, Send, Receive, AnswerNext, Reply, Throw, Unanswered
<1>3. TypeOK'
  BY <1>1, <1>2 DEF TypeInv, TypeOK
<1> QED BY <1>1, <1>3 DEF TypeInv

\* Where the runtimes are, and which of them is current.
LEMMA RuntimeFacts ==
  ASSUME TypeInv
  PROVE  /\ Len(runtimes) \in Nat \ {0} /\ DOMAIN runtimes = 1..Len(runtimes)
         /\ DOMAIN programs = 1..Len(runtimes)
         /\ Current \in DOMAIN runtimes /\ 1 \in DOMAIN runtimes
         /\ \A r \in DOMAIN runtimes : runtimes[r] \in [LimitNames -> Nat \ {0}] /\ programs[r] \subseteq Programs
<1>1. /\ Len(runtimes) \in Nat /\ DOMAIN runtimes = 1..Len(runtimes) /\ Len(runtimes) # 0
      /\ Len(programs) = Len(runtimes) /\ DOMAIN programs = 1..Len(programs)
  BY SeqFacts DEF TypeInv
<1> QED BY <1>1 DEF TypeInv, TypeOK, Current

LEMMA ReleaseKeepsTypes ==
  ASSUME TypeInv, NEW p, ReleaseProgram(p)
  PROVE  TypeInv'
<1>1. /\ programs' = [programs EXCEPT ![Current] = @ \ {p}]
      /\ UNCHANGED <<clock, runtimes, info, requests, deadline, call, failure>>
  BY DEF ReleaseProgram
<1>2. PICK n : n = Len(runtimes)
  OBVIOUS
<1>3. n \in Nat /\ DOMAIN runtimes = 1..n /\ DOMAIN programs = 1..n /\ Len(programs) = n
  BY <1>2, RuntimeFacts DEF TypeInv
<1>4. programs' = [r \in 1..n |-> programs'[r]] /\ \A r \in 1..n : programs'[r] \subseteq programs[r]
  <2>1. programs = [r \in 1..n |-> programs[r]]
    BY <1>3, SeqFacts DEF TypeInv
  <2> QED BY <1>1, <1>3, <2>1
<1>5. IsSeq(programs') /\ Len(programs') = n
  BY <1>3, <1>4, SeqByElements
<1>6. \A r \in 1..n : programs'[r] \subseteq Programs /\ (r > 1 => programs'[r] = {})
  BY <1>3, <1>4 DEF TypeInv, TypeOK
<1>7. TypeOK'
  BY <1>1, <1>3, <1>6 DEF TypeInv, TypeOK
<1> QED BY <1>1, <1>2, <1>3, <1>5, <1>6, <1>7 DEF TypeInv

LEMMA CreateKeepsTypes ==
  ASSUME TypeInv, NEW options \in CreateOptions, Create(options)
  PROVE  TypeInv'
<1>1. PICK limits : limits = ParseCreateOptions(options)
  OBVIOUS
<1>2. limits \in [LimitNames -> Nat \ {0}]
  BY <1>1, ParsedLimits DEF Create
<1>3. /\ runtimes' = Append(runtimes, limits) /\ programs' = Append(programs, {})
      /\ UNCHANGED <<clock, info, requests, deadline, call, failure>>
  BY <1>1 DEF Create
<1>4. PICK n : n = Len(runtimes)
  OBVIOUS
<1>5. n \in Nat \ {0} /\ DOMAIN runtimes = 1..n /\ Len(programs) = n
  BY <1>4, RuntimeFacts DEF TypeInv
<1>6. /\ IsSeq(runtimes') /\ Len(runtimes') = n + 1 /\ runtimes'[n + 1] = limits
      /\ \A r \in 1..n : runtimes'[r] = runtimes[r]
  BY <1>3, <1>4, Appended DEF TypeInv
<1>7. /\ IsSeq(programs') /\ Len(programs') = n + 1 /\ programs'[n + 1] = {}
      /\ \A r \in 1..n : programs'[r] = programs[r]
  BY <1>3, <1>5, Appended DEF TypeInv
<1>8. DOMAIN runtimes' = 1..(n + 1) /\ runtimes' # <<>>
  BY <1>5, <1>6, SeqFacts
<1>9. \A r \in 1..(n + 1) : r = n + 1 \/ r \in 1..n
  BY <1>5
<1>10. \A r \in DOMAIN runtimes' : /\ runtimes'[r] \in [LimitNames -> Nat \ {0}] /\ programs'[r] \subseteq Programs
                                   /\ r > 1 => programs'[r] = {}
  BY <1>2, <1>5, <1>6, <1>7, <1>8, <1>9 DEF TypeInv, TypeOK
<1>11. runtimes'[1] = runtimes[1]
  BY <1>5, <1>6
<1>12. TypeOK'
  BY <1>3, <1>10 DEF TypeInv, TypeOK
<1> QED BY <1>3, <1>6, <1>7, <1>8, <1>10, <1>11, <1>12 DEF TypeInv

LEMMA NextKeepsTypes == TypeInv /\ [Next]_vars => TypeInv'
<1> SUFFICES ASSUME TypeInv, [Next]_vars PROVE TypeInv'
  OBVIOUS
<1>1. CASE Step
  BY <1>1, StepKeepsTypes
<1>2. CASE Tick
  <2>1. clock' \in 0..MaxTime
    BY <1>2, BatchAssumption DEF TypeInv, TypeOK, Tick
  <2> QED BY <1>2, <2>1 DEF TypeInv, TypeOK, Tick
<1>3. CASE \E p \in Programs : ReleaseProgram(p)
  BY <1>3, ReleaseKeepsTypes
<1>4. CASE \E options \in CreateOptions : Create(options)
  BY <1>4, CreateKeepsTypes
<1>5. CASE UNCHANGED vars
  BY <1>5 DEF vars, TypeInv, TypeOK
<1> QED BY <1>1, <1>2, <1>3, <1>4, <1>5 DEF Next

\* Every runtime has limits that can be used and knows only programs that were
\* prepared, and the call fails once.
THEOREM TypeCorrect == Spec => []TypeOK
<1>1. TypeInv => TypeOK
  BY DEF TypeInv
<1> QED BY <1>1, InitTypes, NextKeepsTypes, PTL DEF Spec

(***************************************************************************)
(* Factoring and merging.                                                  *)
(***************************************************************************)
LEMMA RequestFacts ==
  ASSUME TypeInv
  PROVE  IsSeq(requests) /\ \A i \in DOMAIN requests : IsRequest(requests[i])
  BY BatchAssumption DEF TypeInv, IsSeq

\* A part of some variables is variables.
LEMMA PartIsObject ==
  ASSUME NEW v, IsObject(v), NEW S, S \subseteq DOMAIN v, NEW w, w = [n \in S |-> v[n]]
  PROVE  IsObject(w)
<1>1. IsFiniteSet(S)
  BY FS_Subset DEF IsObject
<1>2. \A n \in S : v[n] \in DOMAIN ValueBytes /\ n \in DOMAIN KeyBytes
  BY DEF IsObject
<1>3. DOMAIN w = S /\ w \in [S -> DOMAIN ValueBytes]
  BY <1>2
<1> QED BY <1>1, <1>3 DEF IsObject

\* What the runtime merges from an envelope has the names that the requests
\* were factored from, and equal values of theirs.
LEMMA EnvelopeFacts ==
  ASSUME NEW batch, IsSeq(batch), 1 \in DOMAIN batch, \A i \in DOMAIN batch : IsRequest(batch[i]),
         NEW e, e = Envelope(batch)
  PROVE  /\ IsSeq(e.requests) /\ Len(e.requests) = Len(batch)
         /\ IsObject(e.shared) /\ (Undecodable(e.shared) => Undecodable(batch[1].variables))
         /\ \A i \in DOMAIN batch :
              /\ e.requests[i].id = batch[i].id
              /\ e.requests[i].source = batch[i].source
              /\ e.requests[i].program = batch[i].program
              /\ IsObject(e.requests[i].variables)
              /\ DOMAIN Merged(e.shared, e.requests[i].variables) = DOMAIN batch[i].variables
              /\ \A n \in DOMAIN batch[i].variables : \E j \in DOMAIN batch :
                   /\ n \in DOMAIN batch[j].variables
                   /\ Merged(e.shared, e.requests[i].variables)[n] = batch[j].variables[n]
                   /\ JsonEquivalent(batch[j].variables[n], batch[i].variables[n])
<1>1. PICK names : names = SharedNames(batch)
  OBVIOUS
<1>2. \A i \in DOMAIN batch, n \in names :
        n \in DOMAIN batch[i].variables /\ JsonEquivalent(batch[1].variables[n], batch[i].variables[n])
  BY <1>1 DEF SharedNames, JsonEquivalent
<1>3. /\ e.shared = [n \in names |-> batch[1].variables[n]]
      /\ e.requests = [i \in DOMAIN batch |->
                         [batch[i] EXCEPT !.variables = Without(batch[i].variables, names)]]
  BY <1>1 DEF Envelope, Restrict
<1>4. Len(batch) \in Nat /\ DOMAIN batch = 1..Len(batch)
  BY SeqFacts
<1>5. IsSeq(e.requests) /\ Len(e.requests) = Len(batch)
  <2>1. e.requests = [i \in 1..Len(batch) |-> e.requests[i]]
    BY <1>3, <1>4
  <2> QED BY <1>4, <2>1, SeqByElements
<1>6. IsObject(e.shared) /\ (Undecodable(e.shared) => Undecodable(batch[1].variables))
  <2>1. IsObject(batch[1].variables) /\ names \subseteq DOMAIN batch[1].variables
    BY <1>2 DEF IsRequest
  <2>2. Undecodable(e.shared) => Undecodable(batch[1].variables)
    BY <1>3, <2>1 DEF Undecodable
  <2> QED BY <1>3, <2>1, <2>2, PartIsObject
<1>7. ASSUME NEW i \in DOMAIN batch
      PROVE  /\ e.requests[i].id = batch[i].id
             /\ e.requests[i].source = batch[i].source
             /\ e.requests[i].program = batch[i].program
             /\ IsObject(e.requests[i].variables)
             /\ DOMAIN Merged(e.shared, e.requests[i].variables) = DOMAIN batch[i].variables
             /\ \A n \in DOMAIN batch[i].variables : \E j \in DOMAIN batch :
                  /\ n \in DOMAIN batch[j].variables
                  /\ Merged(e.shared, e.requests[i].variables)[n] = batch[j].variables[n]
                  /\ JsonEquivalent(batch[j].variables[n], batch[i].variables[n])
  <2>1. PICK v, own : v = batch[i].variables /\ own = Without(batch[i].variables, names)
    OBVIOUS
  <2>2. /\ e.requests[i].id = batch[i].id
        /\ e.requests[i].source = batch[i].source
        /\ e.requests[i].program = batch[i].program
        /\ e.requests[i].variables = own
    BY <1>3, <2>1 DEF IsRequest
  <2>3. IsObject(v) /\ own = [n \in DOMAIN v \ names |-> v[n]] /\ names \subseteq DOMAIN v
    BY <1>2, <2>1 DEF IsRequest, Without
  <2>4. IsObject(own)
    BY <2>3, PartIsObject
  <2>5. DOMAIN e.shared = names /\ DOMAIN own = DOMAIN v \ names
    BY <1>3, <2>3
  <2>6. PICK m : m = Merged(e.shared, own)
    OBVIOUS
  <2>7. DOMAIN m = DOMAIN v
    BY <2>3, <2>5, <2>6 DEF Merged
  <2>8. /\ \A n \in DOMAIN v \ names : m[n] = v[n]
        /\ \A n \in names : m[n] = batch[1].variables[n]
    BY <1>3, <2>3, <2>5, <2>6 DEF Merged
  <2>9. \A n \in DOMAIN v : \E j \in DOMAIN batch :
          /\ n \in DOMAIN batch[j].variables /\ m[n] = batch[j].variables[n]
          /\ JsonEquivalent(batch[j].variables[n], v[n])
    <3>1. ASSUME NEW n \in DOMAIN v, n \in names
          PROVE  /\ n \in DOMAIN batch[1].variables /\ m[n] = batch[1].variables[n]
                 /\ JsonEquivalent(batch[1].variables[n], v[n])
      BY <1>2, <2>1, <2>8, <3>1
    <3>2. ASSUME NEW n \in DOMAIN v, n \notin names
          PROVE  /\ n \in DOMAIN batch[i].variables /\ m[n] = batch[i].variables[n]
                 /\ JsonEquivalent(batch[i].variables[n], v[n])
      BY <2>1, <2>8, <3>2 DEF JsonEquivalent
    <3> QED BY <3>1, <3>2
  <2> QED BY <2>1, <2>2, <2>4, <2>6, <2>7, <2>9
<1> QED BY <1>5, <1>6, <1>7

\* The sources of an envelope are those of its batch.
LEMMA EnvelopeSources ==
  ASSUME NEW batch, IsSeq(batch), 1 \in DOMAIN batch, \A i \in DOMAIN batch : IsRequest(batch[i]),
         NEW e, e = Envelope(batch)
  PROVE  /\ SourceTotal(e.requests) = SourceTotal(batch) /\ SourceTotal(batch) \in Nat
         /\ EnvelopeLength(e) \in Nat
<1>1. /\ IsSeq(e.requests) /\ Len(e.requests) = Len(batch) /\ IsObject(e.shared)
      /\ \A i \in DOMAIN batch : e.requests[i].source = batch[i].source /\ IsObject(e.requests[i].variables)
  BY EnvelopeFacts
<1>2. DOMAIN e.requests = DOMAIN batch /\ IsFiniteSet(DOMAIN batch)
  BY <1>1, SeqFacts
<1>3. \A i \in DOMAIN batch : SourceLength(e.requests[i]) = SourceLength(batch[i])
  BY <1>1 DEF SourceLength
<1>4. [i \in DOMAIN e.requests |-> SourceLength(e.requests[i])] = [i \in DOMAIN batch |-> SourceLength(batch[i])]
  BY <1>2, <1>3
<1>5. SourceTotal(e.requests) = SourceTotal(batch)
  BY <1>4 DEF SourceTotal
<1>6. \A i \in DOMAIN batch : batch[i].source \in DOMAIN SourceBytes \cup {Blank}
  BY DEF IsRequest
<1>7. SourceTotal(batch) \in Nat
  BY <1>2, <1>6, SourceTotalType
<1>8. EnvelopeLength(e) \in Nat
  BY <1>1, <1>2, <1>6, EnvelopeLengthType
<1> QED BY <1>5, <1>7, <1>8

\* The batch under way: requests of the list, in its order.
LEMMA DueFacts ==
  ASSUME TypeInv, Len(results) \in Nat, NEW n \in 1..(Len(requests) - Len(results))
  PROVE  /\ IsSeq(Due(n)) /\ Len(Due(n)) = n /\ DOMAIN Due(n) = 1..n /\ 1 \in DOMAIN Due(n)
         /\ \A i \in 1..n : /\ Due(n)[i] = requests[Len(results) + i]
                            /\ Len(results) + i \in DOMAIN requests /\ IsRequest(Due(n)[i])
<1>1. IsSeq(requests) /\ Len(requests) \in Nat /\ DOMAIN requests = 1..Len(requests)
  BY RequestFacts, SeqFacts
<1>2. Len(results) \in 0..Len(requests) /\ n \in 0..(Len(requests) - Len(results))
  BY <1>1
<1>3. /\ IsSeq(Due(n)) /\ Len(Due(n)) = n
      /\ \A i \in 1..n : Due(n)[i] = requests[Len(results) + i]
  BY <1>1, <1>2, Piece DEF Due
<1>4. \A i \in 1..n : Len(results) + i \in DOMAIN requests
  BY <1>1
<1>5. DOMAIN Due(n) = 1..n /\ 1 \in 1..n
  BY <1>3, SeqFacts
<1> QED BY <1>3, <1>4, <1>5, RequestFacts

(***************************************************************************)
(* Requests are neither lost, repeated nor reordered.                      *)
(***************************************************************************)
LEMMA CallFacts ==
  ASSUME TypeInv, BatchInv
  PROVE  /\ IsSeq(requests) /\ Len(requests) \in Nat /\ DOMAIN requests = 1..Len(requests)
         /\ IsSeq(results) /\ Len(results) \in Nat /\ DOMAIN results = 1..Len(results)
         /\ Len(results) \in 0..Len(requests)
<1>1. IsSeq(results) /\ Len(results) <= Len(requests) /\ IsSeq(requests)
  BY RequestFacts DEF BatchInv
<1>2. /\ Len(requests) \in Nat /\ DOMAIN requests = 1..Len(requests)
      /\ Len(results) \in Nat /\ DOMAIN results = 1..Len(results)
  BY <1>1, SeqFacts
<1> QED BY <1>1, <1>2

LEMMA InitBatches == Init => BatchInv
<1> SUFFICES ASSUME Init PROVE BatchInv
  OBVIOUS
<1>1. results = <<>> /\ call = "encode"
  BY DEF Init
<1>2. IsSeq(requests) /\ Len(requests) \in Nat
  BY InitTypes, RequestFacts, SeqFacts
<1> QED BY <1>1, <1>2, EmptySequence DEF BatchInv

LEMMA EncodeKeepsBatches ==
  ASSUME TypeInv, BatchInv, Encode
  PROVE  BatchInv'
<1>1. /\ call = "encode" /\ results = <<>> /\ Len(results) = 0 /\ IsSeq(results)
      /\ UNCHANGED <<info, requests, results, served>>
  BY EmptySequence DEF BatchInv, Encode
<1>2. IsSeq(requests) /\ Len(requests) \in Nat
  BY CallFacts
<1>3. CASE call' = "done" /\ failure' # Blank
  BY <1>1, <1>2, <1>3 DEF BatchInv
<1>4. CASE /\ <<>> \notin Range(Split(requests, info)) /\ batches' = Split(requests, info)
           /\ call' = IF requests = <<>> THEN "done" ELSE "send"
  <2>1. batches' = SplitFrom(requests, info, 0) /\ <<>> \notin Range(batches')
    BY <1>4, SplitIsFromStart
  <2>2. requests = <<>> <=> Len(requests) = 0
    BY <1>2, SeqFacts
  <2>3. CASE requests = <<>>
    BY <1>1, <1>2, <1>4, <2>2, <2>3 DEF BatchInv
  <2>4. CASE requests # <<>>
    <3>1. call' = "send" /\ Len(results) < Len(requests)
      BY <1>1, <1>2, <1>4, <2>2, <2>4
    <3>2. /\ Len(results') < Len(requests') /\ Len(results') <= Len(requests') /\ IsSeq(results')
          /\ batches' = SplitFrom(requests', info', Len(results')) /\ <<>> \notin Range(batches')
      BY <1>1, <1>2, <2>1, <3>1
    <3>3. call' # "encode" /\ call' # "sent" /\ call' # "received" /\ call' # "done"
      BY <3>1
    <3> QED BY <3>2, <3>3, Zenon DEF BatchInv
  <2> QED BY <2>3, <2>4
<1>5. \/ call' = "done" /\ failure' # Blank
      \/ /\ <<>> \notin Range(Split(requests, info)) /\ batches' = Split(requests, info)
         /\ call' = IF requests = <<>> THEN "done" ELSE "send"
  <2>1. Blank # "invalid_request" /\ Blank # "request_payload_too_large"
    BY BatchAssumption DEF Codes
  <2> QED BY <2>1, Zenon DEF Encode, Throw
<1> QED BY <1>3, <1>4, <1>5, Zenon

LEMMA GiveUpKeepsBatches ==
  ASSUME TypeInv, BatchInv, GiveUp
  PROVE  BatchInv'
<1>1. PICK unsent, late :
        /\ unsent = SubSeq(requests, Len(results) + 1, Len(requests))
        /\ late = [i \in DOMAIN unsent |-> Exceeded(unsent[i])]
        /\ results' = results \o late
  BY DEF GiveUp
<1>2. call' = "done" /\ requests' = requests
  BY DEF GiveUp
<1>3. IsSeq(unsent) /\ Len(unsent) = Len(requests) - Len(results)
  BY <1>1, CallFacts, Rest
<1>4. IsSeq(late) /\ Len(late) = Len(requests) - Len(results)
  <2>1. DOMAIN unsent = 1..Len(unsent) /\ Len(unsent) \in Nat
    BY <1>3, SeqFacts
  <2>2. late = [i \in 1..Len(unsent) |-> late[i]]
    BY <1>1, <2>1
  <2> QED BY <1>3, <2>1, <2>2, SeqByElements
<1>5. IsSeq(results') /\ Len(results') = Len(requests)
  <2>1. IsSeq(results \o late) /\ Len(results \o late) = Len(results) + Len(late)
    BY <1>4, CallFacts, Joined
  <2>2. PICK had, all : had = Len(results) /\ all = Len(requests)
    OBVIOUS
  <2>3. had \in Nat /\ all \in Nat /\ Len(results \o late) = had + (all - had)
    BY <1>4, <2>1, <2>2, CallFacts
  <2>4. had + (all - had) = all
    BY <2>3
  <2> QED BY <1>1, <2>1, <2>2, <2>3, <2>4
<1> QED BY <1>2, <1>5, CallFacts DEF BatchInv

LEMMA SendKeepsBatches ==
  ASSUME TypeInv, BatchInv, Send
  PROVE  BatchInv'
<1>1. /\ call = "send" /\ call' = "sent"
      /\ UNCHANGED <<info, requests, results, failure>>
      /\ served'.envelope = Envelope(Head(batches)) /\ batches' = Tail(batches)
  BY DEF Send
<1>2. /\ batches = SplitFrom(requests, info, Len(results)) /\ <<>> \notin Range(batches)
      /\ Len(results) < Len(requests)
  BY <1>1 DEF BatchInv
<1>3. PICK n \in 1..(Len(requests) - Len(results)) :
        /\ Head(batches) = SubSeq(requests, Len(results) + 1, Len(results) + n)
        /\ Fits(SubSeq(requests, Len(results) + 1, Len(results) + n), info)
        /\ Tail(batches) = SplitFrom(requests, info, Len(results) + n)
        /\ <<>> \notin Range(SplitFrom(requests, info, Len(results) + n))
  <2>1. PICK o : o = Len(results)
    OBVIOUS
  <2>2. IsSeq(requests) /\ o \in 0..Len(requests) /\ o # Len(requests)
    BY <1>2, <2>1, CallFacts
  <2>3. batches = SplitFrom(requests, info, o) /\ <<>> \notin Range(SplitFrom(requests, info, o))
    BY <1>2, <2>1
  <2>4. \E n \in 1..(Len(requests) - o) :
          /\ Head(SplitFrom(requests, info, o)) = SubSeq(requests, o + 1, o + n)
          /\ Fits(SubSeq(requests, o + 1, o + n), info)
          /\ Tail(SplitFrom(requests, info, o)) = SplitFrom(requests, info, o + n)
          /\ <<>> \notin Range(SplitFrom(requests, info, o + n))
    BY <2>2, <2>3, SplitStep
  <2> QED BY <2>1, <2>3, <2>4
<1>4. Due(n)' = Due(n)
  BY <1>1 DEF Due
<1>5. served'.envelope = Envelope(Due(n)) /\ Fits(Due(n), info)
  BY <1>1, <1>3 DEF Due
<1>6. IsSeq(results) /\ Len(results) <= Len(requests)
  BY DEF BatchInv
<1> QED BY <1>1, <1>3, <1>4, <1>5, <1>6 DEF BatchInv

\* The batch under way is still there after a step that leaves the call's side alone.
LEMMA ReceiveKeepsBatches ==
  ASSUME TypeInv, BatchInv, Receive
  PROVE  BatchInv'
<1>1. call = "sent" /\ UNCHANGED <<info, requests, results, batches>>
  BY DEF Receive
<1>2. IsSeq(results) /\ Len(results) <= Len(requests)
  BY DEF BatchInv
<1>3. PICK n \in 1..(Len(requests) - Len(results)) :
        /\ served.envelope = Envelope(Due(n)) /\ Fits(Due(n), info)
        /\ batches = SplitFrom(requests, info, Len(results) + n) /\ <<>> \notin Range(batches)
  BY <1>1 DEF BatchInv
<1>4. CASE call' = "done" /\ failure' # Blank
  BY <1>1, <1>2, <1>4 DEF BatchInv
<1>5. CASE call' = "received" /\ failure' = failure
  <2>1. /\ served'.envelope = served.envelope /\ served'.items = <<>>
        /\ served' \in [envelope : {served'.envelope}, sent : {served'.sent}, received : {served'.received},
                        until : {served'.until}, on : {served'.on}, items : {served'.items}]
    BY <1>4, <1>5, BatchAssumption DEF Receive, Throw
  <2>2. Due(n)' = Due(n)
    BY <1>1 DEF Due
  <2>3. Len(served.envelope.requests) \in Nat
    BY <1>2, <1>3, DueFacts, EnvelopeFacts, SeqFacts
  <2>4. IsSeq(served'.items) /\ Len(served'.items) <= Len(served'.envelope.requests)
    BY <2>1, <2>3, EmptySequence
  <2> QED BY <1>1, <1>2, <1>3, <1>5, <2>1, <2>2, <2>4 DEF BatchInv
<1> QED BY <1>4, <1>5 DEF Receive, Throw

LEMMA AnswerKeepsBatches ==
  ASSUME TypeInv, BatchInv, AnswerNext
  PROVE  BatchInv'
<1>1. /\ call = "received" /\ call' = call /\ Answered < Len(served.envelope.requests)
      /\ UNCHANGED <<info, requests, results, batches, failure>>
  BY DEF AnswerNext, Unanswered
<1>2. PICK item : served' = [served EXCEPT !.items = Append(served.items, item)]
  BY DEF AnswerNext
<1>3. /\ served \in [envelope : {served.envelope}, sent : {served.sent}, received : {served.received},
                     until : {served.until}, on : {served.on}, items : {served.items}]
      /\ IsSeq(served.items)
      /\ IsSeq(results) /\ Len(results) <= Len(requests)
  BY <1>1 DEF BatchInv
<1>4. /\ served' \in [envelope : {served'.envelope}, sent : {served'.sent}, received : {served'.received},
                      until : {served'.until}, on : {served'.on}, items : {served'.items}]
      /\ served'.envelope = served.envelope /\ served'.items = Append(served.items, item)
  BY <1>2, <1>3
<1>5. PICK n \in 1..(Len(requests) - Len(results)) :
        /\ served.envelope = Envelope(Due(n)) /\ Fits(Due(n), info)
        /\ batches = SplitFrom(requests, info, Len(results) + n) /\ <<>> \notin Range(batches)
  BY <1>1 DEF BatchInv
<1>6. Due(n)' = Due(n)
  BY <1>1 DEF Due
<1>7. IsSeq(served'.items) /\ Len(served'.items) <= Len(served'.envelope.requests)
  <2>1. IsSeq(served'.items) /\ Len(served'.items) = Len(served.items) + 1
    BY <1>3, <1>4, Appended
  <2>2. Len(served.items) \in Nat /\ Len(served.envelope.requests) \in Nat
    BY <1>3, <1>5, DueFacts, EnvelopeFacts, SeqFacts
  <2> QED BY <1>1, <1>4, <2>1, <2>2 DEF Answered
<1> QED BY <1>1, <1>3, <1>4, <1>5, <1>6, <1>7 DEF BatchInv

LEMMA ReplyKeepsBatches ==
  ASSUME TypeInv, BatchInv, Reply
  PROVE  BatchInv'
<1>1. /\ call = "received" /\ ~(Len(served.items) < Len(served.envelope.requests))
      /\ UNCHANGED <<info, requests, batches>>
  BY DEF Reply, Unanswered, Answered
<1>2. PICK n \in 1..(Len(requests) - Len(results)) :
        /\ served.envelope = Envelope(Due(n))
        /\ batches = SplitFrom(requests, info, Len(results) + n) /\ <<>> \notin Range(batches)
  BY <1>1 DEF BatchInv
<1>3. IsSeq(results) /\ Len(results) <= Len(requests) /\ IsSeq(served.items)
  BY <1>1 DEF BatchInv
<1>4. CASE call' = "done" /\ failure' # Blank /\ results' = results
  BY <1>1, <1>3, <1>4 DEF BatchInv
<1>5. CASE /\ results' = results \o served.items
           /\ call' = IF batches = <<>> THEN "done" ELSE "send"
           /\ failure' = failure
  <2>1. Len(served.items) = n
    <3>1. Len(served.envelope.requests) = n
      BY <1>2, DueFacts, EnvelopeFacts, CallFacts
    <3>2. Len(served.items) \in Nat /\ Len(served.items) <= Len(served.envelope.requests)
      BY <1>1, <1>3, SeqFacts DEF BatchInv
    <3> QED BY <1>1, <3>1, <3>2
  <2>2. IsSeq(results') /\ Len(results') = Len(results) + n
    BY <1>3, <1>5, <2>1, Joined
  <2>3. Len(results') \in 0..Len(requests)
    BY <2>2, CallFacts
  <2>4. batches = <<>> <=> Len(results') = Len(requests)
    <3>1. batches = SplitFrom(requests, info, Len(results'))
      BY <1>2, <2>2
    <3>2. PICK o : o = Len(results')
      OBVIOUS
    <3>3. IsSeq(requests) /\ o \in 0..Len(requests) /\ <<>> \notin Range(SplitFrom(requests, info, o))
      BY <1>2, <2>3, <3>1, <3>2, CallFacts
    <3>4. o = Len(requests) <=> SplitFrom(requests, info, o) = <<>>
      BY <3>3, SplitStep
    <3> QED BY <3>1, <3>2, <3>4
  <2>5. CASE batches = <<>>
    BY <1>1, <1>5, <2>2, <2>3, <2>4, <2>5 DEF BatchInv
  <2>6. CASE batches # <<>>
    <3>1. call' = "send" /\ Len(results') < Len(requests)
      BY <1>5, <2>3, <2>4, <2>6
    <3>2. batches = SplitFrom(requests, info, Len(results'))
      BY <1>2, <2>2
    <3>3. IsSeq(results') /\ Len(results') <= Len(requests')
      BY <1>1, <2>2, <2>3, CallFacts
    <3>4. /\ Len(results') < Len(requests')
          /\ batches' = SplitFrom(requests', info', Len(results')) /\ <<>> \notin Range(batches')
      BY <1>1, <1>2, <3>1, <3>2
    <3>5. call' # "encode" /\ call' # "sent" /\ call' # "received" /\ call' # "done"
      BY <3>1
    <3> QED BY <3>3, <3>4, <3>5, Zenon DEF BatchInv
  <2> QED BY <2>5, <2>6
<1>6. \/ call' = "done" /\ failure' # Blank /\ results' = results
      \/ /\ results' = results \o served.items
         /\ call' = IF batches = <<>> THEN "done" ELSE "send"
         /\ failure' = failure
  <2>1. Blank # "output_too_large"
    BY BatchAssumption DEF Codes
  <2> QED BY <2>1, Zenon DEF Reply, Throw
<1> QED BY <1>4, <1>5, <1>6, Zenon

\* What happens outside the call and the batch under way.
LEMMA OthersKeepBatches ==
  ASSUME BatchInv,
         \/ UNCHANGED vars \/ Tick
         \/ \E p \in Programs : ReleaseProgram(p)
         \/ \E options \in CreateOptions : Create(options)
  PROVE  BatchInv'
<1>1. UNCHANGED <<info, requests, batches, results, call, failure, served>>
  BY DEF vars, Tick, ReleaseProgram, Create
<1>2. \A n : Due(n)' = Due(n)
  BY <1>1 DEF Due
<1> QED BY <1>1, <1>2 DEF BatchInv

LEMMA NextKeepsBatches == TypeInv /\ BatchInv /\ [Next]_vars => BatchInv'
  BY EncodeKeepsBatches, GiveUpKeepsBatches, SendKeepsBatches, ReceiveKeepsBatches, AnswerKeepsBatches,
     ReplyKeepsBatches, OthersKeepBatches DEF Next, Step

(***************************************************************************)
(* The deadline on the runtime's side.                                     *)
(***************************************************************************)
\* What remains is what is left of the deadline, or nothing.
LEMMA LargerOfTwo == ASSUME NEW x \in Int PROVE Max({0, x}) = IF x > 0 THEN x ELSE 0
<1>1. CASE x > 0
  <2>1. \A y \in {0, x} : (\A z \in {0, x} : y >= z) <=> y = x
    BY <1>1
  <2> QED BY <1>1, <2>1 DEF Max
<1>2. CASE ~(x > 0)
  <2>1. \A y \in {0, x} : (\A z \in {0, x} : y >= z) <=> y = 0
    BY <1>2
  <2> QED BY <1>2, <2>1 DEF Max
<1> QED BY <1>1, <1>2

LEMMA ModType == ASSUME NEW a \in Int, NEW m \in Nat \ {0} PROVE a % m \in 0..(m - 1)
  OBVIOUS

LEMMA ModSmall == ASSUME NEW m \in Nat \ {0}, NEW a \in 0..(m - 1) PROVE a % m = a
  OBVIOUS

LEMMA ModAtMost == ASSUME NEW m \in Nat \ {0}, NEW a \in Nat PROVE a % m <= a
  OBVIOUS

LEMMA TimesAtLeast ==
  ASSUME NEW m \in Nat \ {0}, NEW a \in Int, NEW b \in Int
  PROVE  a * m >= b * m <=> a >= b
  OBVIOUS

LEMMA TimesSum == ASSUME NEW m \in Nat, NEW a \in Int, NEW b \in Int PROVE (a + b) * m = a * m + b * m
  OBVIOUS

\* A number keeps its value or falls when its width is cut, and keeps it when it fits.
LEMMA WrappedFacts ==
  ASSUME NEW n \in Nat, NEW limit \in Nat \ {0}
  PROVE  Wrapped(n, limit) \in Int /\ Wrapped(n, limit) <= n /\ (n < limit => Wrapped(n, limit) = n)
<1>1. PICK m, a : m = 2 * limit /\ a = n + limit
  OBVIOUS
<1>2. m \in Nat \ {0} /\ a \in Nat
  BY <1>1
<1>3. a % m \in 0..(m - 1) /\ a % m <= a
  <2>1. a % m \in 0..(m - 1)
    BY <1>2, ModType
  <2>2. a % m <= a
    BY <1>2, ModAtMost
  <2> QED BY <2>1, <2>2
<1>4. Wrapped(n, limit) = (a % m) - limit
  BY <1>1 DEF Wrapped
<1>5. ASSUME n < limit PROVE a % m = a
  BY <1>1, <1>2, <1>5, ModSmall
<1> QED BY <1>1, <1>2, <1>3, <1>4, <1>5

\* The milliseconds that are left.
Left(t) == IF deadline > t THEN deadline - t ELSE 0

LEMMA RemainingFacts ==
  ASSUME TypeInv, NEW t \in Nat
  PROVE  /\ deadline = Blank => RemainingAt(t) = Blank
         /\ deadline # Blank =>
              /\ deadline \in Nat /\ Left(t) \in 0..deadline
              /\ RemainingAt(t) = Left(t) /\ RemainingAt(t) # Blank
<1>1. deadline \in Nat \cup {Blank} /\ Blank \notin Int
  BY BatchAssumption DEF TypeInv
<1>2. ASSUME deadline # Blank
      PROVE  /\ deadline \in Nat /\ Left(t) \in 0..deadline
             /\ RemainingAt(t) = Left(t) /\ RemainingAt(t) # Blank
  <2>1. PICK d : d = deadline
    OBVIOUS
  <2>2. d \in Nat
    BY <1>1, <1>2, <2>1
  <2>3. Max({0, d - t}) = IF d - t > 0 THEN d - t ELSE 0
    BY <2>2, LargerOfTwo
  <2>4. RemainingAt(t) = IF d - t > 0 THEN d - t ELSE 0
    BY <1>2, <2>1, <2>3 DEF RemainingAt
  <2> QED BY <1>1, <2>1, <2>2, <2>4 DEF Left
<1> QED BY <1>2 DEF RemainingAt

LEMMA InitTime == Init => TimeInv
  BY DEF Init, TimeInv

LEMMA ClockFacts ==
  ASSUME TypeInv, [Next]_vars
  PROVE  clock \in Nat /\ clock' \in Nat /\ clock <= clock' /\ deadline' = deadline /\ requests' = requests
<1>1. clock \in Nat
  BY BatchAssumption DEF TypeInv, TypeOK
<1>2. clock' = clock \/ clock' = clock + 1
  BY DEF Next, Step, Encode, GiveUp, Send, Receive, AnswerNext, Reply, Tick, ReleaseProgram, Create, vars
<1>3. UNCHANGED <<deadline, requests>>
  BY DEF Next, Step, Encode, GiveUp, Send, Receive, AnswerNext, Reply, Tick, ReleaseProgram, Create, vars
<1> QED BY <1>1, <1>2, <1>3

LEMMA SendKeepsTime ==
  ASSUME TypeInv, TimeInv, Send
  PROVE  TimeInv'
<1>1. /\ call' = "sent" /\ UNCHANGED <<clock, deadline>>
      /\ served'.sent = clock /\ served'.remaining = Remaining
  BY DEF Send
<1>2. clock \in Nat
  BY BatchAssumption DEF TypeInv, TypeOK
<1>3. Remaining = RemainingAt(clock)
  BY DEF Remaining, RemainingAt
<1>4. RemainingAt(served.sent)' = RemainingAt(clock)
  BY <1>1 DEF RemainingAt
<1> QED BY <1>1, <1>2, <1>3, <1>4 DEF TimeInv

LEMMA ReceiveKeepsTime ==
  ASSUME TypeInv, TimeInv, Receive
  PROVE  TimeInv'
<1>1. call = "sent" /\ UNCHANGED <<clock, deadline>>
  BY DEF Receive
<1>2. CASE call' = "done"
  BY <1>2 DEF TimeInv
<1>3. CASE /\ call' = "received"
           /\ served'.sent = served.sent /\ served'.received = clock
           /\ served'.until = NewDeadline(served.remaining)
  <2>1. PICK t : t = served.sent
    OBVIOUS
  <2>2. t \in 0..clock /\ served.remaining = RemainingAt(t) /\ clock \in Nat /\ t \in Nat
    BY <1>1, <2>1, BatchAssumption DEF TimeInv, TypeInv, TypeOK
  <2>3. RemainingAt(t) = Blank <=> deadline = Blank
    BY <2>2, RemainingFacts
  <2>4. served'.until =
          IF deadline = Blank THEN Blank ELSE clock * Milli + Wrapped(RemainingAt(t) * Milli, DurationLimit)
    BY <1>3, <2>2, <2>3 DEF NewDeadline
  <2>5. RemainingAt(t)' = RemainingAt(t)
    BY <1>1 DEF RemainingAt
  <2> QED BY <1>1, <1>3, <2>1, <2>2, <2>4, <2>5 DEF TimeInv
<1> QED BY <1>2, <1>3 DEF Receive, Throw

LEMMA AnswerKeepsTime ==
  ASSUME TypeInv, BatchInv, TimeInv, AnswerNext
  PROVE  TimeInv'
<1>1. /\ call = "received" /\ call' = "received" /\ UNCHANGED <<clock, deadline>>
  BY DEF AnswerNext, Unanswered
<1>2. PICK item : served' = [served EXCEPT !.items = Append(served.items, item)]
  BY DEF AnswerNext
<1>3. served \in [envelope : {served.envelope}, sent : {served.sent}, received : {served.received},
                  until : {served.until}, on : {served.on}, items : {served.items}]
  BY <1>1 DEF BatchInv
<1>4. served'.sent = served.sent /\ served'.received = served.received /\ served'.until = served.until
  BY <1>2, <1>3
<1>5. \A t : RemainingAt(t)' = RemainingAt(t)
  BY <1>1 DEF RemainingAt
<1> QED BY <1>1, <1>4, <1>5 DEF TimeInv

LEMMA OthersKeepTime ==
  ASSUME TypeInv, TimeInv, [Next]_vars, UNCHANGED <<call, served>> \/ call' \in {"send", "done"}
  PROVE  TimeInv'
<1>1. clock \in Nat /\ clock' \in Nat /\ clock <= clock' /\ deadline' = deadline
  BY ClockFacts
<1>2. CASE call' \in {"send", "done"}
  BY <1>2 DEF TimeInv
<1>3. CASE UNCHANGED <<call, served>>
  <2>1. call \in {"sent", "received"} => served.sent \in 0..clock'
    BY <1>1 DEF TimeInv
  <2>2. call = "received" => served.received \in served.sent..clock'
    BY <1>1 DEF TimeInv
  <2>3. RemainingAt(served.sent)' = RemainingAt(served.sent)
    BY <1>1, <1>3 DEF RemainingAt
  <2> QED BY <1>1, <1>3, <2>1, <2>2, <2>3 DEF TimeInv
<1> QED BY <1>2, <1>3

\* Every other step leaves the runtime's side alone or ends the batch under way.
LEMMA OtherSteps ==
  ASSUME [Next]_vars, ~Send, ~Receive, ~AnswerNext
  PROVE  UNCHANGED <<call, served>> \/ call' \in {"send", "done"}
  BY DEF Next, Step, Encode, GiveUp, Reply, Tick, ReleaseProgram, Create, vars, Throw

LEMMA NextKeepsTime == TypeInv /\ BatchInv /\ TimeInv /\ [Next]_vars => TimeInv'
  BY SendKeepsTime, ReceiveKeepsTime, AnswerKeepsTime, OthersKeepTime, OtherSteps

\* The runtime's deadline: never after the call's by more than the time that
\* the batch was under way, and not before it when its multiplication fits.
LEMMA UntilFacts ==
  ASSUME TypeInv, TimeInv, call = "received", deadline # Blank
  PROVE  /\ served.until # Blank
         /\ DeadlinePassed(served.until) \/ clock < deadline + (served.received - served.sent)
         /\ deadline * Milli < DurationLimit /\ DeadlinePassed(served.until) => clock >= deadline
<1>1. PICK t, r, d, left, x : /\ t = served.sent /\ r = served.received /\ d = deadline
                              /\ left = Left(served.sent) /\ x = Left(served.sent) * Milli
  OBVIOUS
<1>2. clock \in Nat /\ t \in 0..clock /\ r \in t..clock /\ t \in Nat
  BY <1>1, BatchAssumption DEF TypeInv, TypeOK, TimeInv
<1>3. d \in Nat /\ left = (IF d > t THEN d - t ELSE 0) /\ RemainingAt(t) = left
  BY <1>1, <1>2, RemainingFacts DEF Left
<1>4. Milli \in Nat \ {0} /\ DurationLimit \in Nat \ {0} /\ Blank \notin Int
  BY BatchAssumption
<1>5. served.until = r * Milli + Wrapped(x, DurationLimit)
  BY <1>1, <1>3 DEF TimeInv
<1>6. left \in Nat /\ x = left * Milli /\ x \in Nat
  BY <1>1, <1>2, <1>3, <1>4
<1>7. PICK w : w = Wrapped(x, DurationLimit)
  OBVIOUS
<1>8. w \in Int /\ w <= x /\ (x < DurationLimit => w = x)
  BY <1>4, <1>6, <1>7, WrappedFacts
<1>9. PICK u : u = served.until
  OBVIOUS
<1>10. u = r * Milli + w /\ u \in Int /\ u # Blank
  BY <1>2, <1>4, <1>5, <1>7, <1>8, <1>9
<1>11. (r + left) * Milli = r * Milli + x
  BY <1>2, <1>4, <1>6, TimesSum
<1>12. clock * Milli >= (r + left) * Milli <=> clock >= r + left
  BY <1>2, <1>4, <1>6, TimesAtLeast
<1>13. DeadlinePassed(served.until) <=> clock * Milli >= u
  BY <1>9, <1>10 DEF DeadlinePassed
<1>14. PICK now, then : now = clock * Milli /\ then = r * Milli
  OBVIOUS
<1>15. now \in Int /\ then \in Int
  BY <1>2, <1>4, <1>14
<1>16. clock >= r + left => DeadlinePassed(served.until)
  BY <1>8, <1>10, <1>11, <1>12, <1>13, <1>14, <1>15, <1>6
<1>17. ASSUME d * Milli < DurationLimit, DeadlinePassed(served.until) PROVE clock >= d
  <2>1. d * Milli >= left * Milli
    BY <1>2, <1>3, <1>4, <1>6, TimesAtLeast
  <2>2. d * Milli \in Int
    BY <1>3, <1>4
  <2>3. x < DurationLimit
    BY <1>4, <1>6, <1>17, <2>1, <2>2
  <2>4. clock >= r + left
    BY <1>6, <1>8, <1>10, <1>11, <1>12, <1>13, <1>14, <1>15, <1>17, <2>3
  <2> QED BY <1>2, <1>3, <1>6, <2>4
<1>18. clock >= r + left \/ clock < d + (r - t)
  BY <1>2, <1>3, <1>6
<1> QED BY <1>1, <1>9, <1>10, <1>16, <1>17, <1>18

(***************************************************************************)
(* Every request gets its own answer.                                      *)
(***************************************************************************)
\* Factored or not, a request with the variables it is merged to is answered
\* as it would be alone.
LEMMA AnsweredTheSame ==
  ASSUME NEW limits, limits \in [LimitNames -> Nat \ {0}], NEW store,
         NEW shared, IsObject(shared), ~Undecodable(shared),
         NEW own, IsObject(own.variables), NEW request, ExactlyOne(request),
         own.source = request.source, own.program = request.program,
         request.variables = Merged(shared, own.variables)
  PROVE  AsAlone(AnswerOf(own, shared, limits, store), request, limits, store)
<1>1. PICK v, max, marshaled, sent, first, last :
        /\ v = request.variables /\ max = limits["MaxVariablesBytes"]
        /\ marshaled = BytesWith(MarshaledBytes, v) /\ sent = BytesWith(KeyBytes, v)
        /\ first = FirstError(request, limits, store) /\ last = LastError(request)
  OBVIOUS
<1>2. PICK bytes, error : bytes = ObjectBytes(own.variables) /\ error = VariableError(own.variables, limits)
  OBVIOUS
<1>3. /\ IsObject(v) /\ bytes <= sent
      /\ marshaled \in Nat /\ sent \in Nat /\ bytes \in Nat /\ max \in Nat
  <2>1. IsObject(v) /\ bytes <= sent
    BY <1>1, <1>2, MergedIsLarger DEF ObjectBytes
  <2>2. marshaled \in Nat /\ sent \in Nat /\ bytes \in Nat
    BY <1>1, <1>2, <2>1, BytesType, ObjectBytesType, BatchAssumption
  <2>3. max \in Nat
    BY <1>1 DEF LimitNames
  <2> QED BY <2>1, <2>2, <2>3
<1>4. MergedSize(shared, own.variables) = marshaled
  BY <1>1, MergedSizeIsExact
<1>5. Undecodable(v) <=> Undecodable(own.variables)
  BY <1>1 DEF Undecodable, Merged
<1>6. Blank # "variables_too_large" /\ Blank # "invalid_request"
  BY BatchAssumption DEF Codes
<1>7. /\ error = "variables_too_large" => bytes > max
      /\ error = "invalid_request" => ~(bytes > max) /\ Undecodable(own.variables)
      /\ error = Blank => ~(bytes > max) /\ ~Undecodable(own.variables)
      /\ error \in {"variables_too_large", "invalid_request", Blank}
  <2>1. error = CASE bytes > max -> "variables_too_large"
                  [] bytes <= max /\ Undecodable(own.variables) -> "invalid_request"
                  [] OTHER -> Blank
    BY <1>1, <1>2 DEF VariableError
  <2>2. error = IF bytes > max THEN "variables_too_large"
                ELSE IF Undecodable(own.variables) THEN "invalid_request" ELSE Blank
    <3>1. CASE bytes > max
      <4>1. ~(bytes <= max)
        BY <1>3, <3>1
      <4> QED BY <2>1, <3>1, <4>1
    <3>2. CASE ~(bytes > max)
      <4>1. bytes <= max
        BY <1>3, <3>2
      <4> QED BY <2>1, <3>2, <4>1
    <3> QED BY <3>1, <3>2
  <2> QED BY <1>6, <2>2
<1>8. AnswerOf(own, shared, limits, store) =
        IF marshaled > max THEN Bad("variables_too_large")
        ELSE IF error # Blank THEN Bad(error) ELSE Evaluate(own, v, limits, store)
  BY <1>1, <1>2, <1>4 DEF AnswerOf
<1>9. Evaluate(own, v, limits, store) =
        IF first # Blank THEN Bad(first) ELSE IF last # Blank THEN Bad(last) ELSE Outcome(request, v)
  <2>1. ExactlyOne(own) /\ FirstError(own, limits, store) = first /\ LastError(own) = last
    BY <1>1 DEF ExactlyOne, FirstError, LastError
  <2>2. Outcome(own, v) = Outcome(request, v)
    BY DEF Outcome
  <2> QED BY <2>1, <2>2 DEF Evaluate
<1>10. ASSUME NEW size
       PROVE  Alone(request, size, limits, store) =
                IF first # Blank THEN Bad(first)
                ELSE IF size > max THEN Bad("variables_too_large")
                ELSE IF Undecodable(v) THEN Bad("invalid_request")
                ELSE IF last # Blank THEN Bad(last) ELSE Outcome(request, v)
  BY <1>1, <1>6 DEF Alone
<1>11. ASSUME NEW size
       PROVE  /\ size > max => "variables_too_large" \in Faults(request, size, limits, store)
              /\ Undecodable(v) => "invalid_request" \in Faults(request, size, limits, store)
  BY <1>1 DEF Faults
<1>12. \A code : Bad(code).ok = FALSE /\ Bad(code).body = code
  BY DEF Bad
<1>13. ASSUME NEW keyBytes \in {KeyBytes, MarshaledBytes}, NEW answer,
              \/ answer = Alone(request, BytesWith(keyBytes, v), limits, store)
              \/ /\ ~answer.ok /\ ~Alone(request, BytesWith(keyBytes, v), limits, store).ok
                 /\ answer.body \in Faults(request, BytesWith(keyBytes, v), limits, store)
       PROVE  AsAlone(answer, request, limits, store)
  BY <1>1, <1>13 DEF AsAlone
<1>14. ASSUME NEW keyBytes \in {KeyBytes, MarshaledBytes}, BytesWith(keyBytes, v) > max
       PROVE  AsAlone(Bad("variables_too_large"), request, limits, store)
  <2>1. PICK size, answer : size = BytesWith(keyBytes, v) /\ answer = Bad("variables_too_large")
    OBVIOUS
  <2>2. /\ ~answer.ok /\ answer.body \in Faults(request, size, limits, store)
        /\ ~Alone(request, size, limits, store).ok
    <3>1. answer.ok = FALSE /\ answer.body = "variables_too_large"
      BY <1>12, <2>1
    <3>2. "variables_too_large" \in Faults(request, size, limits, store)
      BY <1>11, <1>14, <2>1
    <3>3. Alone(request, size, limits, store) \in {Bad(first), Bad("variables_too_large")}
      BY <1>10, <1>14, <2>1
    <3> QED BY <1>12, <3>1, <3>2, <3>3
  <2> QED BY <1>13, <2>1, <2>2
<1>15. CASE marshaled > max
  <2>1. AnswerOf(own, shared, limits, store) = Bad("variables_too_large")
    BY <1>8, <1>15
  <2> QED BY <1>1, <1>14, <1>15, <2>1
<1>16. CASE ~(marshaled > max) /\ error = "variables_too_large"
  <2>1. AnswerOf(own, shared, limits, store) = Bad("variables_too_large")
    BY <1>6, <1>8, <1>16
  <2>2. sent > max
    BY <1>3, <1>7, <1>16
  <2> QED BY <1>1, <1>14, <2>1, <2>2
<1>17. CASE ~(marshaled > max) /\ error = "invalid_request"
  <2>1. PICK answer : answer = Bad("invalid_request")
    OBVIOUS
  <2>2. AnswerOf(own, shared, limits, store) = answer
    BY <1>6, <1>8, <1>17, <2>1
  <2>3. Undecodable(v)
    BY <1>5, <1>7, <1>17
  <2>4. /\ ~answer.ok /\ answer.body \in Faults(request, marshaled, limits, store)
        /\ ~Alone(request, marshaled, limits, store).ok
    <3>1. answer.ok = FALSE /\ answer.body = "invalid_request"
      BY <1>12, <2>1
    <3>2. "invalid_request" \in Faults(request, marshaled, limits, store)
      BY <1>11, <2>3
    <3>3. Alone(request, marshaled, limits, store) \in {Bad(first), Bad("invalid_request")}
      BY <1>10, <1>17, <2>3
    <3> QED BY <1>12, <3>1, <3>2, <3>3
  <2> QED BY <1>1, <1>13, <2>2, <2>4
<1>18. CASE ~(marshaled > max) /\ error = Blank
  <2>1. AnswerOf(own, shared, limits, store) = Alone(request, marshaled, limits, store)
    BY <1>5, <1>7, <1>8, <1>9, <1>10, <1>18
  <2> QED BY <1>1, <1>13, <2>1
<1> QED BY <1>7, <1>15, <1>16, <1>17, <1>18

\* No answer of the evaluation itself says that it came too late.
LEMMA AnswerIsNotLate ==
  ASSUME NEW request, request.source \in DOMAIN SourceBytes \cup {Blank},
         NEW shared, NEW limits, NEW store
  PROVE  AnswerOf(request, shared, limits, store) # Bad("deadline_exceeded")
<1>1. \A code : Bad(code) = Bad("deadline_exceeded") => code = "deadline_exceeded"
  BY DEF Bad
<1>2. \A variables : Outcome(request, variables) # Bad("deadline_exceeded")
  BY DEF Outcome, Good, Bad
<1>3. ASSUME ExactlyOne(request)
      PROVE  /\ FirstError(request, limits, store) # "deadline_exceeded" \/ FirstError(request, limits, store) = Blank
             /\ LastError(request) # "deadline_exceeded" \/ LastError(request) = Blank
  <2>1. request.program = Blank => request.source \in DOMAIN SourceBytes
    BY <1>3 DEF ExactlyOne
  <2> QED BY <2>1, BatchAssumption DEF FirstError, LastError
<1>4. \A variables : Evaluate(request, variables, limits, store) # Bad("deadline_exceeded")
  BY <1>1, <1>2, <1>3 DEF Evaluate
<1>5. VariableError(request.variables, limits) # Blank =>
        VariableError(request.variables, limits) # "deadline_exceeded"
  <2>1. PICK a, b, c : /\ a = (ObjectBytes(request.variables) > limits["MaxVariablesBytes"])
                       /\ b = (ObjectBytes(request.variables) <= limits["MaxVariablesBytes"])
                       /\ c = Undecodable(request.variables)
    OBVIOUS
  <2> QED BY DEF VariableError
<1> QED BY <1>1, <1>4, <1>5 DEF AnswerOf

\* A runtime keeps its limits, and loses programs.
LEMMA RuntimesStay ==
  ASSUME TypeInv, [Next]_vars
  PROVE  /\ Len(runtimes) \in Nat /\ Len(runtimes') \in Nat /\ Len(runtimes) <= Len(runtimes')
         /\ \A r \in DOMAIN runtimes :
              r \in DOMAIN runtimes' /\ runtimes'[r] = runtimes[r] /\ programs'[r] \subseteq programs[r]
<1>1. PICK n : n = Len(runtimes)
  OBVIOUS
<1>2. n \in Nat \ {0} /\ DOMAIN runtimes = 1..n /\ DOMAIN programs = 1..n
  BY <1>1, RuntimeFacts
<1>3. CASE UNCHANGED <<runtimes, programs>>
  BY <1>1, <1>2, <1>3
<1>4. CASE \E p \in Programs : ReleaseProgram(p)
  <2>1. runtimes' = runtimes /\ \A r \in 1..n : programs'[r] \subseteq programs[r]
    BY <1>2, <1>4 DEF ReleaseProgram
  <2> QED BY <1>1, <1>2, <2>1
<1>5. ASSUME NEW options \in CreateOptions, Create(options)
      PROVE  /\ Len(runtimes) \in Nat /\ Len(runtimes') \in Nat /\ Len(runtimes) <= Len(runtimes')
             /\ \A r \in DOMAIN runtimes :
                  r \in DOMAIN runtimes' /\ runtimes'[r] = runtimes[r] /\ programs'[r] \subseteq programs[r]
  <2>1. PICK limits : runtimes' = Append(runtimes, limits) /\ programs' = Append(programs, {})
    BY <1>5 DEF Create
  <2>2. /\ IsSeq(runtimes') /\ Len(runtimes') = n + 1
        /\ \A r \in 1..n : runtimes'[r] = runtimes[r]
    BY <1>1, <2>1, Appended DEF TypeInv
  <2>3. \A r \in 1..n : programs'[r] = programs[r]
    BY <1>1, <2>1, Appended DEF TypeInv
  <2>4. DOMAIN runtimes' = 1..(n + 1)
    BY <2>2, SeqFacts
  <2> QED BY <1>1, <1>2, <2>2, <2>3, <2>4
<1> QED BY <1>3, <1>4, <1>5 DEF Next, Step, Encode, GiveUp, Send, Receive, AnswerNext, Reply, Tick, vars

LEMMA AnswersStay ==
  ASSUME TypeInv, [Next]_vars, NEW items, NEW list,
         OwnAnswers(runtimes, programs, deadline, requests, items, list)
  PROVE  OwnAnswers(runtimes', programs', deadline', requests', items, list)
<1>1. SUFFICES ASSUME NEW i \in DOMAIN items
               PROVE  OwnAnswer(runtimes', programs', deadline', requests', list[i], items[i].answer)
  BY DEF OwnAnswers
<1>2. OwnAnswer(runtimes, programs, deadline, requests, list[i], items[i].answer)
  BY DEF OwnAnswers
<1>3. CASE items[i].answer = Bad("deadline_exceeded") /\ deadline # Blank
  BY <1>3, ClockFacts DEF OwnAnswer
<1>4. CASE \E r \in DOMAIN runtimes, store \in SUBSET Programs, same \in Equals(list[i], requests) :
             /\ programs[r] \subseteq store /\ (r > 1 => store = {})
             /\ AsAlone(items[i].answer, same, runtimes[r], store)
  <2>1. PICK r \in DOMAIN runtimes, store \in SUBSET Programs, same \in Equals(list[i], requests) :
          /\ programs[r] \subseteq store /\ (r > 1 => store = {})
          /\ AsAlone(items[i].answer, same, runtimes[r], store)
    BY <1>4
  <2>2. PICK all : all = requests
    OBVIOUS
  <2>3. r \in DOMAIN runtimes' /\ runtimes'[r] = runtimes[r] /\ programs'[r] \subseteq store /\ requests' = all
    BY <2>1, <2>2, RuntimesStay, ClockFacts
  <2>4. OwnAnswer(runtimes', programs', deadline', all, list[i], items[i].answer)
    BY <2>1, <2>2, <2>3 DEF OwnAnswer
  <2> QED BY <2>3, <2>4
<1> QED BY <1>2, <1>3, <1>4 DEF OwnAnswer

LEMMA InitAnswers == Init => AnswerInv
  BY EmptySequence DEF Init, AnswerInv, OwnAnswers

\* The answers to a list, and those to the rest of it, are answers to the list.
LEMMA AnswersJoin ==
  ASSUME NEW rts, NEW progs, NEW due, NEW all, NEW list, IsSeq(list), NEW had, IsSeq(had), Len(had) <= Len(list),
         NEW more, IsSeq(more), Len(more) <= Len(list) - Len(had),
         OwnAnswers(rts, progs, due, all, had, list),
         OwnAnswers(rts, progs, due, all, more, Rests(list, Len(had)))
  PROVE  OwnAnswers(rts, progs, due, all, had \o more, list)
<1>1. PICK h, m, l : h = Len(had) /\ m = Len(more) /\ l = Len(list)
  OBVIOUS
<1>2. h \in Nat /\ m \in Nat /\ l \in Nat /\ DOMAIN had = 1..h /\ DOMAIN more = 1..m
  BY <1>1, SeqFacts
<1>3. PICK joined, rest : joined = had \o more /\ rest = Rests(list, h)
  OBVIOUS
<1>4. /\ IsSeq(joined) /\ Len(joined) = h + m
      /\ \A i \in 1..h : joined[i] = had[i]
      /\ \A i \in 1..m : joined[h + i] = more[i]
  BY <1>1, <1>3, Joined
<1>5. \A i \in 1..(l - h) : rest[i] = list[h + i]
  BY <1>1, <1>2, <1>3, Rest DEF Rests
<1>6. ASSUME NEW i \in 1..h
      PROVE  joined[i].id = list[i].id /\ OwnAnswer(rts, progs, due, all, list[i], joined[i].answer)
  BY <1>2, <1>4 DEF OwnAnswers
<1>7. ASSUME NEW i \in 1..m
      PROVE  joined[h + i].id = list[h + i].id /\ OwnAnswer(rts, progs, due, all, list[h + i], joined[h + i].answer)
  <2>1. i \in 1..(l - h)
    BY <1>1, <1>2
  <2> QED BY <1>1, <1>2, <1>3, <1>4, <1>5, <2>1 DEF OwnAnswers
<1>8. DOMAIN joined = 1..(h + m)
  BY <1>4, SeqFacts
<1>9. \A k \in 1..(h + m) : k \in 1..h \/ (k - h \in 1..m /\ h + (k - h) = k)
  BY <1>2
<1>10. ASSUME NEW k \in 1..(h + m)
       PROVE  joined[k].id = list[k].id /\ OwnAnswer(rts, progs, due, all, list[k], joined[k].answer)
  <2>1. CASE k \in 1..h
    BY <1>6, <2>1
  <2>2. CASE k - h \in 1..m /\ h + (k - h) = k
    <3>1. PICK i \in 1..m : h + i = k
      BY <2>2
    <3> QED BY <1>7, <3>1
  <2> QED BY <1>9, <2>1, <2>2
<1> QED BY <1>3, <1>8, <1>10 DEF OwnAnswers

\* Requests that get no more than that it is too late.
LEMMA LateAnswers ==
  ASSUME NEW rts, NEW progs, NEW due, due # Blank, NEW all, NEW list, NEW late,
         late = [i \in DOMAIN list |-> Exceeded(list[i])]
  PROVE  OwnAnswers(rts, progs, due, all, late, list) /\ \A i \in DOMAIN late : TooLate(late[i])
  BY DEF OwnAnswers, OwnAnswer, Exceeded, Item, TooLate

LEMMA GiveUpKeepsAnswers ==
  ASSUME TypeInv, BatchInv, AnswerInv, GiveUp
  PROVE  AnswerInv'
<1>1. PICK unsent, late :
        /\ unsent = SubSeq(requests, Len(results) + 1, Len(requests))
        /\ late = [i \in DOMAIN unsent |-> Exceeded(unsent[i])]
        /\ results' = results \o late
  BY DEF GiveUp
<1>2. call' = "done" /\ UNCHANGED <<runtimes, programs, deadline, requests>> /\ deadline # Blank
  BY DEF GiveUp, TimeIsUp
<1>3. IsSeq(unsent) /\ Len(unsent) = Len(requests) - Len(results)
  BY <1>1, CallFacts, Rest
<1>4. IsSeq(late) /\ Len(late) = Len(requests) - Len(results)
  <2>1. DOMAIN unsent = 1..Len(unsent) /\ Len(unsent) \in Nat
    BY <1>3, SeqFacts
  <2>2. late = [i \in 1..Len(unsent) |-> late[i]]
    BY <1>1, <2>1
  <2> QED BY <1>3, <2>1, <2>2, SeqByElements
<1>5. OwnAnswers(runtimes, programs, deadline, requests, late, unsent)
  BY <1>1, <1>2, LateAnswers
<1>6. PICK had, list : had = results /\ list = requests
  OBVIOUS
<1>7. /\ IsSeq(list) /\ IsSeq(had) /\ Len(had) <= Len(list) /\ Len(late) <= Len(list) - Len(had)
      /\ OwnAnswers(runtimes, programs, deadline, requests, had, list)
      /\ OwnAnswers(runtimes, programs, deadline, requests, late, Rests(list, Len(had)))
  <2>1. Len(late) <= Len(requests) - Len(results)
    BY <1>4, CallFacts
  <2>2. IsSeq(requests) /\ IsSeq(results) /\ Len(results) <= Len(requests)
    BY CallFacts
  <2>3. /\ OwnAnswers(runtimes, programs, deadline, requests, results, requests)
        /\ OwnAnswers(runtimes, programs, deadline, requests, late, Rests(requests, Len(results)))
    BY <1>1, <1>5 DEF AnswerInv, Rests
  <2> QED BY <1>6, <2>1, <2>2, <2>3
<1>8. OwnAnswers(runtimes, programs, deadline, requests, had \o late, list)
  BY <1>4, <1>7, AnswersJoin
<1> QED BY <1>1, <1>2, <1>6, <1>8 DEF AnswerInv

LEMMA ReceiveKeepsAnswers ==
  ASSUME TypeInv, BatchInv, AnswerInv, Receive
  PROVE  AnswerInv'
<1>1. call = "sent" /\ UNCHANGED <<runtimes, programs, deadline, requests, results>>
  BY DEF Receive
<1>2. OwnAnswers(runtimes, programs, deadline, requests, results, requests)
  BY DEF AnswerInv
<1>3. CASE call' = "done"
  BY <1>1, <1>2, <1>3 DEF AnswerInv
<1>4. CASE /\ call' = "received"
           /\ Refusal(served.envelope, runtimes[Current]) = Blank
           /\ served'.on = Current /\ served'.items = <<>> /\ served'.envelope = served.envelope
  <2>1. ~Undecodable(served.envelope.shared)
    <3>1. PICK shared, limits : shared = served.envelope.shared /\ limits = runtimes[Current]
      OBVIOUS
    <3>2. IsObject(shared) /\ limits["MaxVariablesBytes"] \in Nat
      <4>1. PICK n \in 1..(Len(requests) - Len(results)) : served.envelope = Envelope(Due(n))
        BY <1>1 DEF BatchInv
      <4>2. IsObject(shared)
        BY <3>1, <4>1, CallFacts, DueFacts, EnvelopeFacts
      <4>3. limits["MaxVariablesBytes"] \in Nat
        BY <3>1, RuntimeFacts DEF LimitNames
      <4> QED BY <4>2, <4>3
    <3>3. VariableError(shared, limits) = Blank
      <4>1. Blank # "batch_payload_too_large"
        BY BatchAssumption DEF Codes
      <4> QED BY <1>4, <3>1, <4>1 DEF Refusal
    <3>4. ObjectBytes(shared) \in Nat
      BY <3>2, ObjectBytesType
    <3>5. Blank # "variables_too_large" /\ Blank # "invalid_request"
      BY BatchAssumption DEF Codes
    <3>6. ~Undecodable(shared)
      <4>1. CASE ObjectBytes(shared) > limits["MaxVariablesBytes"]
        <5>1. ~(ObjectBytes(shared) <= limits["MaxVariablesBytes"])
          BY <3>2, <3>4, <4>1
        <5>2. VariableError(shared, limits) = "variables_too_large"
          BY <4>1, <5>1 DEF VariableError
        <5> QED BY <3>3, <3>5, <5>2
      <4>2. CASE ObjectBytes(shared) <= limits["MaxVariablesBytes"] /\ Undecodable(shared)
        <5>1. ~(ObjectBytes(shared) > limits["MaxVariablesBytes"])
          BY <3>2, <3>4, <4>2
        <5>2. VariableError(shared, limits) = "invalid_request"
          BY <4>2, <5>1 DEF VariableError
        <5> QED BY <3>3, <3>5, <5>2
      <4> QED BY <3>2, <3>4, <4>1, <4>2
    <3> QED BY <3>1, <3>6
  <2>2. served'.on \in DOMAIN runtimes'
    BY <1>1, <1>4, RuntimeFacts
  <2>3. OwnAnswers(runtimes', programs', deadline', requests', served'.items, Rests(requests', Len(results')))
    BY <1>4, EmptySequence DEF OwnAnswers
  <2> QED BY <1>1, <1>2, <1>4, <2>1, <2>2, <2>3 DEF AnswerInv
<1> QED BY <1>3, <1>4 DEF Receive, Throw

LEMMA AnswerKeepsAnswers ==
  ASSUME TypeInv, BatchInv, TimeInv, AnswerInv, AnswerNext
  PROVE  AnswerInv'
<1>1. /\ call = "received" /\ call' = "received" /\ Answered < Len(served.envelope.requests)
      /\ UNCHANGED <<runtimes, programs, deadline, requests, results>>
  BY DEF AnswerNext, Unanswered
<1>2. PICK item, own, k :
        /\ served' = [served EXCEPT !.items = Append(served.items, item)]
        /\ k = Len(served.items) + 1 /\ own = served.envelope.requests[k]
        /\ item = IF DeadlinePassed(served.until) THEN Exceeded(own)
                  ELSE Item(own.id, AnswerOf(own, served.envelope.shared,
                                             runtimes[served.on], programs[served.on]))
  BY DEF AnswerNext, Answered
<1>3. /\ served \in [envelope : {served.envelope}, sent : {served.sent}, received : {served.received},
                     until : {served.until}, on : {served.on}, items : {served.items}]
      /\ IsSeq(served.items)
  BY <1>1 DEF BatchInv
<1>4. /\ served'.envelope = served.envelope /\ served'.on = served.on
      /\ served'.items = Append(served.items, item)
  BY <1>2, <1>3
<1>5. PICK n \in 1..(Len(requests) - Len(results)) : served.envelope = Envelope(Due(n))
  BY <1>1 DEF BatchInv
<1>6. PICK batch, e : batch = Due(n) /\ e = Envelope(Due(n))
  OBVIOUS
<1>7. /\ IsSeq(batch) /\ Len(batch) = n /\ DOMAIN batch = 1..n /\ 1 \in DOMAIN batch
      /\ \A i \in 1..n : batch[i] = requests[Len(results) + i] /\ IsRequest(batch[i])
  BY <1>6, CallFacts, DueFacts
<1>8. Len(e.requests) = n
  BY <1>6, <1>7, EnvelopeFacts
<1>9. k \in 1..n
  <2>1. Len(served.items) \in Nat
    BY <1>3, SeqFacts
  <2> QED BY <1>1, <1>2, <1>5, <1>6, <1>8, <2>1 DEF Answered
<1>10. /\ IsObject(e.shared)
       /\ own.id = batch[k].id /\ own.source = batch[k].source /\ own.program = batch[k].program
       /\ IsObject(own.variables)
       /\ DOMAIN Merged(e.shared, own.variables) = DOMAIN batch[k].variables
       /\ \A x \in DOMAIN batch[k].variables : \E j \in DOMAIN batch :
            /\ x \in DOMAIN batch[j].variables
            /\ Merged(e.shared, own.variables)[x] = batch[j].variables[x]
            /\ JsonEquivalent(batch[j].variables[x], batch[k].variables[x])
  <2>1. own = e.requests[k] /\ k \in DOMAIN batch /\ e = Envelope(batch)
    BY <1>2, <1>5, <1>6, <1>7, <1>9
  <2>2. IsSeq(batch) /\ 1 \in DOMAIN batch /\ \A i \in DOMAIN batch : IsRequest(batch[i])
    BY <1>7
  <2> QED BY <2>1, <2>2, EnvelopeFacts
<1>11. ~Undecodable(e.shared) /\ served.on \in DOMAIN runtimes
  BY <1>1, <1>5, <1>6 DEF AnswerInv
<1>12. OwnAnswer(runtimes, programs, deadline, requests, batch[k], item.answer)
  <2>1. CASE DeadlinePassed(served.until)
    <3>1. deadline # Blank
      BY <1>1, <2>1 DEF TimeInv, DeadlinePassed
    <3> QED BY <1>2, <2>1, <3>1 DEF OwnAnswer, Exceeded, Item
  <2>2. CASE ~DeadlinePassed(served.until)
    <3>1. PICK r, limits, store : r = served.on /\ limits = runtimes[r] /\ store = programs[r]
      OBVIOUS
    <3>2. /\ limits \in [LimitNames -> Nat \ {0}] /\ r \in DOMAIN runtimes
          /\ store \in SUBSET Programs /\ (r > 1 => store = {})
      BY <1>11, <3>1, RuntimeFacts DEF TypeInv
    <3>3. item.answer = AnswerOf(own, e.shared, limits, store)
      BY <1>2, <1>5, <1>6, <2>2, <3>1 DEF Item
    <3>4. PICK v, same : v = Merged(e.shared, own.variables) /\ same = [batch[k] EXCEPT !.variables = v]
      OBVIOUS
    <3>5. /\ IsRequest(batch[k]) /\ ExactlyOne(batch[k])
      <4>1. \E i \in DOMAIN requests : batch[k] = requests[i]
        BY <1>7, <1>9, CallFacts, DueFacts
      <4>2. ValidRequests(requests)
        BY <1>1 DEF AnswerInv
      <4> QED BY <1>7, <1>9, <4>1, <4>2 DEF ValidRequests
    <3>6. /\ same.variables = v /\ same.source = own.source /\ same.program = own.program
          /\ ExactlyOne(same)
      BY <1>10, <3>4, <3>5 DEF IsRequest, ExactlyOne
    <3>7. AsAlone(AnswerOf(own, e.shared, limits, store), same, limits, store)
      BY <1>10, <1>11, <3>2, <3>4, <3>6, AnsweredTheSame
    <3>8. same \in Equals(batch[k], requests)
      <4>1. IsObject(v)
        BY <1>10, <3>4, MergedIsLarger
      <4>2. v \in [DOMAIN batch[k].variables -> DOMAIN ValueBytes]
        BY <1>10, <3>4, <4>1 DEF IsObject
      <4>3. \A x \in DOMAIN v : \E i \in DOMAIN requests :
              /\ x \in DOMAIN requests[i].variables
              /\ v[x] = requests[i].variables[x] /\ JsonEquivalent(v[x], batch[k].variables[x])
        <5>1. SUFFICES ASSUME NEW x \in DOMAIN v
                       PROVE  \E i \in DOMAIN requests :
                                /\ x \in DOMAIN requests[i].variables
                                /\ v[x] = requests[i].variables[x] /\ JsonEquivalent(v[x], batch[k].variables[x])
          OBVIOUS
        <5>2. PICK j \in DOMAIN batch :
                /\ x \in DOMAIN batch[j].variables /\ v[x] = batch[j].variables[x]
                /\ JsonEquivalent(batch[j].variables[x], batch[k].variables[x])
          BY <1>10, <3>4
        <5>3. j \in 1..n /\ Len(results) \in Nat
          BY <1>7, CallFacts
        <5>4. batch[j] = requests[Len(results) + j] /\ Len(results) + j \in DOMAIN requests
          BY <1>6, <5>3, DueFacts
        <5> QED BY <5>2, <5>4 DEF JsonEquivalent
      <4> QED BY <3>4, <4>2, <4>3 DEF Equals
    <3> QED BY <3>1, <3>2, <3>3, <3>7, <3>8 DEF OwnAnswer
  <2> QED BY <2>1, <2>2
<1>13. item.id = batch[k].id
  BY <1>2, <1>10 DEF Exceeded, Item
<1>14. PICK rest, had : rest = Rests(requests, Len(results)) /\ had = served.items
  OBVIOUS
<1>15. rest[k] = batch[k]
  <2>1. /\ IsSeq(requests) /\ Len(results) \in 0..Len(requests) /\ Len(requests) \in Nat
    BY CallFacts
  <2>2. \A i \in 1..(Len(requests) - Len(results)) : rest[i] = requests[Len(results) + i]
    BY <1>14, <2>1, Rest DEF Rests
  <2>3. k \in 1..(Len(requests) - Len(results))
    BY <1>9, <2>1
  <2> QED BY <1>7, <1>9, <2>2, <2>3
<1>16. OwnAnswers(runtimes, programs, deadline, requests, Append(had, item), rest)
  <2>1. /\ IsSeq(Append(had, item)) /\ Len(Append(had, item)) = Len(had) + 1
        /\ \A i \in 1..Len(had) : Append(had, item)[i] = had[i]
        /\ Append(had, item)[Len(had) + 1] = item
    BY <1>3, <1>14, Appended
  <2>2. OwnAnswers(runtimes, programs, deadline, requests, had, rest)
    BY <1>1, <1>14 DEF AnswerInv
  <2>3. PICK l, more : l = Len(had) /\ more = Append(had, item)
    OBVIOUS
  <2>4. l \in Nat /\ DOMAIN had = 1..l /\ DOMAIN more = 1..(l + 1) /\ k = l + 1
    BY <1>2, <1>3, <1>14, <2>1, <2>3, SeqFacts
  <2>5. /\ \A i \in 1..l : more[i] = had[i]
        /\ more[k] = item
    BY <2>1, <2>3, <2>4
  <2>6. \A i \in 1..(l + 1) : i \in 1..l \/ i = k
    BY <2>4
  <2>7. \A i \in DOMAIN more : more[i].id = rest[i].id /\ OwnAnswer(runtimes, programs, deadline, requests, rest[i], more[i].answer)
    BY <1>12, <1>13, <1>15, <2>2, <2>4, <2>5, <2>6 DEF OwnAnswers
  <2> QED BY <2>3, <2>7 DEF OwnAnswers
<1>17. OwnAnswers(runtimes, programs, deadline, requests, results, requests)
  BY DEF AnswerInv
<1> QED BY <1>1, <1>4, <1>5, <1>6, <1>11, <1>14, <1>16, <1>17 DEF AnswerInv

LEMMA ReplyKeepsAnswers ==
  ASSUME TypeInv, BatchInv, AnswerInv, Reply
  PROVE  AnswerInv'
<1>1. /\ call = "received" /\ call' # "received"
      /\ UNCHANGED <<runtimes, programs, deadline, requests>>
  BY DEF Reply, Throw
<1>2. OwnAnswers(runtimes, programs, deadline, requests, results, requests)
  BY DEF AnswerInv
<1>3. CASE results' = results
  BY <1>1, <1>2, <1>3 DEF AnswerInv
<1>4. CASE results' = results \o served.items
  <2>1. PICK had, list, more : had = results /\ list = requests /\ more = served.items
    OBVIOUS
  <2>2. PICK n \in 1..(Len(requests) - Len(results)) : served.envelope = Envelope(Due(n))
    BY <1>1 DEF BatchInv
  <2>3. Len(served.envelope.requests) = n
    BY <2>2, DueFacts, EnvelopeFacts, CallFacts
  <2>4. IsSeq(more) /\ Len(more) <= n
    BY <1>1, <2>1, <2>3 DEF BatchInv
  <2>5. IsSeq(list) /\ IsSeq(had) /\ Len(had) <= Len(list) /\ Len(more) <= Len(list) - Len(had)
    <3>1. Len(more) \in Nat
      BY <2>4, SeqFacts
    <3> QED BY <2>1, <2>2, <2>4, <3>1, CallFacts
  <2>6. /\ OwnAnswers(runtimes, programs, deadline, requests, had, list)
        /\ OwnAnswers(runtimes, programs, deadline, requests, more, Rests(list, Len(had)))
    BY <1>1, <1>2, <2>1 DEF AnswerInv
  <2>7. OwnAnswers(runtimes, programs, deadline, requests, had \o more, list)
    BY <2>4, <2>5, <2>6, AnswersJoin
  <2> QED BY <1>1, <1>4, <2>1, <2>7 DEF AnswerInv
<1> QED BY <1>3, <1>4 DEF Reply

LEMMA OthersKeepAnswers ==
  ASSUME TypeInv, AnswerInv, [Next]_vars, UNCHANGED <<requests, results>>,
         UNCHANGED <<call, served>> \/ call' # "received",
         call' \in {"send", "sent", "received"} => ValidRequests(requests)
  PROVE  AnswerInv'
<1>1. PICK had, list : had = results /\ list = requests
  OBVIOUS
<1>2. OwnAnswers(runtimes', programs', deadline', requests', had, list)
  BY <1>1, AnswersStay DEF AnswerInv
<1>3. CASE call' # "received"
  BY <1>1, <1>2, <1>3 DEF AnswerInv
<1>4. CASE UNCHANGED <<call, served>> /\ call = "received"
  <2>1. PICK items, rest : items = served.items /\ rest = Rests(requests, Len(results))
    OBVIOUS
  <2>2. OwnAnswers(runtimes', programs', deadline', requests', items, rest)
    BY <1>4, <2>1, AnswersStay DEF AnswerInv
  <2>3. served.on \in DOMAIN runtimes'
    BY <1>4, RuntimesStay DEF AnswerInv
  <2> QED BY <1>1, <1>2, <1>4, <2>1, <2>2, <2>3 DEF AnswerInv
<1> QED BY <1>3, <1>4

LEMMA NextKeepsAnswers == TypeInv /\ BatchInv /\ TimeInv /\ AnswerInv /\ [Next]_vars => AnswerInv'
<1> SUFFICES ASSUME TypeInv, BatchInv, TimeInv, AnswerInv, [Next]_vars PROVE AnswerInv'
  OBVIOUS
<1>1. CASE GiveUp
  BY <1>1, GiveUpKeepsAnswers
<1>2. CASE Receive
  BY <1>2, ReceiveKeepsAnswers
<1>3. CASE AnswerNext
  BY <1>3, AnswerKeepsAnswers
<1>4. CASE Reply
  BY <1>4, ReplyKeepsAnswers
<1>5. CASE ~GiveUp /\ ~Receive /\ ~AnswerNext /\ ~Reply
  <2>1. UNCHANGED <<requests, results>> /\ (UNCHANGED <<call, served>> \/ call' # "received")
    BY <1>5 DEF Next, Step, Encode, Send, Tick, ReleaseProgram, Create, vars, Throw
  <2>2. call' \in {"send", "sent", "received"} => ValidRequests(requests)
    <3>1. CASE Encode
      BY <3>1 DEF Encode, Throw
    <3>2. CASE ~Encode
      <4>1. call' = call \/ call = "send"
        BY <1>5, <3>2 DEF Next, Step, Send, Tick, ReleaseProgram, Create, vars
      <4> QED BY <4>1 DEF AnswerInv
    <3> QED BY <3>1, <3>2
  <2> QED BY <2>1, <2>2, OthersKeepAnswers
<1> QED BY <1>1, <1>2, <1>3, <1>4, <1>5

CallInv == TypeInv /\ BatchInv /\ TimeInv /\ AnswerInv

LEMMA CallInvHolds == Spec => []CallInv
<1>1. Init => CallInv
  BY InitTypes, InitBatches, InitTime, InitAnswers DEF CallInv
<1>2. CallInv /\ [Next]_vars => CallInv'
  BY NextKeepsTypes, NextKeepsBatches, NextKeepsTime, NextKeepsAnswers DEF CallInv
<1> QED BY <1>1, <1>2, PTL DEF Spec

\* The results are the requests', each once and in order, however the list was
\* split; all of them once the call has returned without a failure.
THEOREM ResultsInOrder == Spec => []ResultsMatchRequests
<1>1. CallInv => ResultsMatchRequests
  BY DEF CallInv, BatchInv, AnswerInv, OwnAnswers, ResultsMatchRequests
<1> QED BY <1>1, CallInvHolds, PTL

\* Factoring, splitting and merging change no answer.
THEOREM AnswersUnchanged == Spec => []AnsweredAsAlone
<1>1. CallInv => AnsweredAsAlone
  BY DEF CallInv, AnswerInv, OwnAnswers, OwnAnswer, AnsweredAsAlone
<1> QED BY <1>1, CallInvHolds, PTL

(***************************************************************************)
(* One deadline for all the requests.                                      *)
(***************************************************************************)
\* One deadline covers the whole list: nothing is evaluated after it, but for
\* the time its batch was under way to the runtime.
THEOREM DeadlineCoversAll == Spec => DeadlineIsOverall
<1>1. ASSUME CallInv, [Next]_vars, served' # served, call = "received", deadline # Blank
      PROVE  \/ Last(served'.items).answer = Bad("deadline_exceeded")
             \/ clock < deadline + (served.received - served.sent)
  <2>1. AnswerNext
    BY <1>1 DEF Next, Step, Encode, GiveUp, Send, Receive, Reply, Tick, ReleaseProgram, Create, vars
  <2>2. CASE ~DeadlinePassed(served.until)
    BY <1>1, <2>2, UntilFacts DEF CallInv
  <2>3. CASE DeadlinePassed(served.until)
    <3>1. PICK item, had :
            /\ had = served.items /\ item.answer = Bad("deadline_exceeded")
            /\ served' = [served EXCEPT !.items = Append(had, item)]
      BY <2>1, <2>3 DEF AnswerNext, Exceeded, Item
    <3>2. /\ served \in [envelope : {served.envelope}, sent : {served.sent}, received : {served.received},
                         until : {served.until}, on : {served.on}, items : {served.items}]
          /\ IsSeq(had)
      BY <1>1, <3>1 DEF CallInv, BatchInv
    <3>3. served'.items = Append(had, item)
      BY <3>1, <3>2
    <3>4. PICK more : more = Append(had, item)
      OBVIOUS
    <3>5. Len(more) = Len(had) + 1 /\ more[Len(had) + 1] = item
      BY <3>2, <3>4, Appended
    <3>6. Last(more) = item
      BY <3>5 DEF Last
    <3> QED BY <3>1, <3>3, <3>4, <3>6
  <2> QED BY <2>2, <2>3
<1>2. CallInv /\ [Next]_vars =>
        [served' # served /\ call = "received" /\ deadline # Blank =>
           \/ Last(served'.items).answer = Bad("deadline_exceeded")
           \/ clock < deadline + (served.received - served.sent)]_vars
  BY <1>1
<1> QED BY <1>2, CallInvHolds, PTL DEF Spec, DeadlineIsOverall

\* Items that all came too late from the first that did.
LateOnwards(items) ==
  \A i \in DOMAIN items : TooLate(items[i]) => \A j \in i..Len(items) : TooLate(items[j])

NoneLate(items) == \A i \in DOMAIN items : ~TooLate(items[i])

\* FinalInv of a deadline that fits its multiplication.
LEMMA FinalForm ==
  ASSUME deadline # Blank, deadline * Milli < DurationLimit
  PROVE  FinalInv <=>
           /\ NoneLate(results) \/ (clock >= deadline /\ call \in {"send", "done"})
           /\ LateOnwards(results)
           /\ call = "received" =>
                /\ NoneLate(served.items) \/ DeadlinePassed(served.until)
                /\ LateOnwards(served.items)
  BY DEF FinalInv, NoneLate, LateOnwards

LEMMA LateJoin ==
  ASSUME NEW had, IsSeq(had), NEW more, IsSeq(more), LateOnwards(more),
         \/ NoneLate(had)
         \/ LateOnwards(had) /\ \A i \in DOMAIN more : TooLate(more[i])
  PROVE  /\ LateOnwards(had \o more)
         /\ NoneLate(had) /\ NoneLate(more) => NoneLate(had \o more)
<1>1. PICK h, m, all : h = Len(had) /\ m = Len(more) /\ all = had \o more
  OBVIOUS
<1>2. h \in Nat /\ m \in Nat /\ DOMAIN had = 1..h /\ DOMAIN more = 1..m
  BY <1>1, SeqFacts
<1>3. /\ DOMAIN all = 1..(h + m) /\ Len(all) = h + m
      /\ \A i \in 1..h : all[i] = had[i]
      /\ \A i \in 1..m : all[h + i] = more[i]
  BY <1>1, Joined, SeqFacts
<1>4. \A k \in 1..(h + m) : k \in 1..h \/ \E i \in 1..m : k = h + i
  <2>1. ASSUME NEW k \in 1..(h + m) PROVE k \in 1..h \/ (k - h \in 1..m /\ k = h + (k - h))
    BY <1>2
  <2> QED BY <2>1
<1>5. ASSUME NEW i \in 1..(h + m), TooLate(all[i]), NEW j \in i..(h + m)
      PROVE  TooLate(all[j])
  <2>1. j \in 1..(h + m) /\ i <= j
    BY <1>2
  <2>2. CASE \E b \in 1..m : j = h + b
    <3>1. PICK b \in 1..m : j = h + b
      BY <2>2
    <3>2. CASE \A x \in DOMAIN more : TooLate(more[x])
      BY <1>2, <1>3, <3>1, <3>2
    <3>3. CASE NoneLate(had)
      <4>1. i \notin 1..h
        BY <1>2, <1>3, <1>5, <3>3 DEF NoneLate
      <4>2. PICK a \in 1..m : i = h + a
        BY <1>4, <4>1
      <4>3. b \in a..m
        BY <1>2, <2>1, <3>1, <4>2
      <4> QED BY <1>1, <1>2, <1>3, <1>5, <3>1, <4>2, <4>3 DEF LateOnwards
    <3> QED BY <3>2, <3>3
  <2>3. CASE j \in 1..h
    <3>1. i \in 1..h /\ j \in i..h
      BY <1>2, <2>1, <2>3
    <3>2. ~NoneLate(had)
      BY <1>2, <1>3, <1>5, <3>1 DEF NoneLate
    <3>3. LateOnwards(had) /\ TooLate(had[i])
      BY <1>3, <1>5, <3>1, <3>2
    <3>4. TooLate(had[j])
      BY <1>1, <1>2, <3>1, <3>3 DEF LateOnwards
    <3> QED BY <1>3, <2>3, <3>4
  <2> QED BY <1>4, <2>1, <2>2, <2>3
<1>6. LateOnwards(all)
  BY <1>3, <1>5 DEF LateOnwards
<1>7. ASSUME NoneLate(had), NoneLate(more) PROVE NoneLate(all)
  <2>1. ASSUME NEW k \in 1..(h + m) PROVE ~TooLate(all[k])
    <3>1. CASE k \in 1..h
      BY <1>2, <1>3, <1>7, <3>1 DEF NoneLate
    <3>2. CASE \E i \in 1..m : k = h + i
      BY <1>2, <1>3, <1>7, <3>2 DEF NoneLate
    <3> QED BY <1>4, <3>1, <3>2
  <2> QED BY <1>3, <2>1 DEF NoneLate
<1> QED BY <1>1, <1>6, <1>7

LEMMA InitFinal == Init => FinalInv
  BY EmptySequence DEF Init, FinalInv

\* The hypotheses of FinalInv's preservation: the deadline fits.
DeadlineFits == deadline # Blank /\ deadline * Milli < DurationLimit

LEMMA GiveUpKeepsFinal ==
  ASSUME CallInv, FinalInv, DeadlineFits, GiveUp
  PROVE  FinalInv'
<1>1. PICK unsent, late, had :
        /\ unsent = SubSeq(requests, Len(results) + 1, Len(requests))
        /\ late = [i \in DOMAIN unsent |-> Exceeded(unsent[i])]
        /\ had = results /\ results' = had \o late
  BY DEF GiveUp
<1>2. call' = "done" /\ UNCHANGED <<clock, deadline>> /\ clock >= deadline /\ call = "send"
  BY DEF GiveUp, TimeIsUp
<1>3. IsSeq(unsent) /\ IsSeq(had)
  BY <1>1, CallFacts, Rest DEF CallInv
<1>4. IsSeq(late)
  <2>1. DOMAIN unsent = 1..Len(unsent) /\ Len(unsent) \in Nat
    BY <1>3, SeqFacts
  <2>2. late = [i \in 1..Len(unsent) |-> late[i]]
    BY <1>1, <2>1
  <2> QED BY <2>1, <2>2, SeqByElements
<1>5. \A i \in DOMAIN late : TooLate(late[i])
  BY <1>1 DEF TooLate, Exceeded, Item
<1>6. LateOnwards(late)
  <2>1. \A i \in DOMAIN late : \A j \in i..Len(late) : j \in DOMAIN late
    BY <1>4, SeqFacts
  <2> QED BY <1>5, <2>1 DEF LateOnwards
<1>7. LateOnwards(had)
  BY <1>1, FinalForm DEF DeadlineFits
<1>8. LateOnwards(had \o late)
  BY <1>3, <1>4, <1>5, <1>6, <1>7, LateJoin
<1>9. LateOnwards(results)'
  BY <1>1, <1>8 DEF LateOnwards
<1> QED BY <1>2, <1>9 DEF FinalInv, LateOnwards

\* A batch is sent only while nothing came too late.
LEMMA SendKeepsFinal ==
  ASSUME CallInv, FinalInv, DeadlineFits, Send
  PROVE  FinalInv'
<1>1. ~TimeIsUp /\ call' = "sent" /\ UNCHANGED <<clock, deadline, results>>
  BY DEF Send
<1>2. NoneLate(results)
  <2>1. ASSUME ~NoneLate(results) PROVE FALSE
    <3>1. results # <<>>
      BY <2>1, EmptySequence DEF NoneLate
    <3>2. clock >= deadline
      BY <2>1, FinalForm DEF DeadlineFits
    <3> QED BY <1>1, <3>1, <3>2 DEF TimeIsUp, DeadlineFits
  <2> QED BY <2>1
<1> QED BY <1>1, <1>2 DEF FinalInv, NoneLate

LEMMA ReceiveKeepsFinal ==
  ASSUME CallInv, FinalInv, DeadlineFits, Receive
  PROVE  FinalInv'
<1>1. call = "sent" /\ UNCHANGED <<clock, deadline, results>>
  BY DEF Receive
<1>2. NoneLate(results)
  BY <1>1, FinalForm DEF DeadlineFits
<1>3. call' = "done" \/ (call' = "received" /\ served'.items = <<>>)
  BY DEF Receive, Throw
<1>4. call' = "received" => DOMAIN served'.items = {}
  BY <1>3, EmptySequence
<1> QED BY <1>1, <1>2, <1>4 DEF FinalInv, NoneLate

\* The request that is answered next has a source of the list's, or none.
LEMMA ServedSource ==
  ASSUME TypeInv, BatchInv, AnswerNext
  PROVE  served.envelope.requests[Answered + 1].source \in DOMAIN SourceBytes \cup {Blank}
<1>1. call = "received" /\ Answered < Len(served.envelope.requests)
  BY DEF AnswerNext, Unanswered
<1>2. PICK n \in 1..(Len(requests) - Len(results)) : served.envelope = Envelope(Due(n))
  BY <1>1 DEF BatchInv
<1>3. PICK batch, e, k : batch = Due(n) /\ e = Envelope(batch) /\ k = Answered + 1
  OBVIOUS
<1>4. IsSeq(batch) /\ Len(batch) = n /\ DOMAIN batch = 1..n /\ 1 \in DOMAIN batch
  BY <1>3, CallFacts, DueFacts
<1>5. \A i \in DOMAIN batch : IsRequest(batch[i])
  BY <1>3, <1>4, CallFacts, DueFacts
<1>6. Len(e.requests) = n /\ \A i \in DOMAIN batch : e.requests[i].source = batch[i].source
  BY <1>3, <1>4, <1>5, EnvelopeFacts
<1>7. k \in DOMAIN batch
  <2>1. Len(served.items) \in Nat
    BY <1>1, SeqFacts DEF BatchInv
  <2> QED BY <1>1, <1>2, <1>3, <1>4, <1>6, <2>1 DEF Answered
<1> QED BY <1>2, <1>3, <1>5, <1>6, <1>7 DEF IsRequest

LEMMA AnswerKeepsFinal ==
  ASSUME CallInv, FinalInv, DeadlineFits, AnswerNext
  PROVE  FinalInv'
<1>1. call = "received" /\ call' = "received" /\ UNCHANGED <<clock, deadline, results>>
  BY DEF AnswerNext, Unanswered
<1>2. PICK item, own, had :
        /\ had = served.items /\ served' = [served EXCEPT !.items = Append(had, item)]
        /\ own = served.envelope.requests[Answered + 1]
        /\ item = IF DeadlinePassed(served.until) THEN Exceeded(own)
                  ELSE Item(own.id, AnswerOf(own, served.envelope.shared,
                                             runtimes[served.on], programs[served.on]))
  BY DEF AnswerNext
<1>3. /\ served \in [envelope : {served.envelope}, sent : {served.sent}, received : {served.received},
                     until : {served.until}, on : {served.on}, items : {served.items}]
      /\ IsSeq(had)
  BY <1>1, <1>2 DEF CallInv, BatchInv
<1>4. served'.until = served.until /\ served'.items = Append(had, item)
  BY <1>2, <1>3
<1>5. TooLate(item) <=> DeadlinePassed(served.until)
  <2>1. CASE DeadlinePassed(served.until)
    BY <1>2, <2>1 DEF TooLate, Exceeded, Item
  <2>2. CASE ~DeadlinePassed(served.until)
    <3>1. own.source \in DOMAIN SourceBytes \cup {Blank}
      BY <1>1, <1>2, ServedSource DEF CallInv
    <3>2. item.answer # Bad("deadline_exceeded")
      BY <1>2, <2>2, <3>1, AnswerIsNotLate DEF Item
    <3> QED BY <2>2, <3>2 DEF TooLate
  <2> QED BY <2>1, <2>2
<1>6. /\ NoneLate(results)
      /\ NoneLate(had) \/ DeadlinePassed(served.until)
      /\ LateOnwards(had)
  BY <1>1, <1>2, FinalForm DEF DeadlineFits
<1>7. PICK l, more : l = Len(had) /\ more = Append(had, item)
  OBVIOUS
<1>8. /\ l \in Nat /\ DOMAIN had = 1..l /\ DOMAIN more = 1..(l + 1) /\ Len(more) = l + 1
      /\ \A i \in 1..l : more[i] = had[i]
      /\ more[l + 1] = item
  BY <1>3, <1>7, Appended, SeqFacts
<1>9. \A i \in 1..(l + 1) : i \in 1..l \/ i = l + 1
  BY <1>8
<1>10. ASSUME NEW i \in 1..(l + 1), TooLate(more[i])
       PROVE  DeadlinePassed(served.until) /\ \A j \in i..(l + 1) : TooLate(more[j])
  <2>1. DeadlinePassed(served.until)
    BY <1>5, <1>6, <1>8, <1>9, <1>10 DEF NoneLate
  <2>2. ASSUME NEW j \in i..(l + 1) PROVE TooLate(more[j])
    <3>1. j = l + 1 \/ (j \in i..l /\ i \in 1..l /\ j \in 1..l)
      BY <1>8
    <3>2. CASE j = l + 1
      BY <1>5, <1>8, <2>1, <3>2
    <3>3. CASE j \in i..l /\ i \in 1..l /\ j \in 1..l
      BY <1>6, <1>7, <1>8, <1>10, <3>3 DEF LateOnwards
    <3> QED BY <3>1, <3>2, <3>3
  <2> QED BY <2>1, <2>2
<1>11. DeadlinePassed(served.until)' <=> DeadlinePassed(served.until)
  BY <1>1, <1>4 DEF DeadlinePassed
<1>12. /\ NoneLate(more) \/ DeadlinePassed(served.until)
       /\ LateOnwards(more)
  BY <1>8, <1>10 DEF NoneLate, LateOnwards
<1> QED BY <1>1, <1>4, <1>6, <1>7, <1>11, <1>12 DEF FinalInv, NoneLate, LateOnwards

LEMMA ReplyKeepsFinal ==
  ASSUME CallInv, FinalInv, DeadlineFits, Reply
  PROVE  FinalInv'
<1>1. /\ call = "received" /\ call' \in {"send", "done"} /\ UNCHANGED <<clock, deadline>>
      /\ results' = results \/ results' = results \o served.items
  BY DEF Reply, Throw
<1>2. PICK had, more : had = results /\ more = served.items
  OBVIOUS
<1>3. IsSeq(had) /\ IsSeq(more)
  BY <1>1, <1>2 DEF CallInv, BatchInv
<1>4. /\ NoneLate(had) /\ LateOnwards(had) /\ LateOnwards(more)
      /\ NoneLate(more) \/ DeadlinePassed(served.until)
  BY <1>1, <1>2, FinalForm DEF DeadlineFits
<1>5. NoneLate(more) \/ clock >= deadline
  BY <1>1, <1>4, UntilFacts DEF DeadlineFits, CallInv
<1>6. LateOnwards(had \o more) /\ (NoneLate(more) => NoneLate(had \o more))
  BY <1>3, <1>4, LateJoin
<1>7. \E all : results' = all /\ LateOnwards(all) /\ (NoneLate(all) \/ clock >= deadline)
  BY <1>1, <1>2, <1>4, <1>5, <1>6
<1> QED BY <1>1, <1>7 DEF FinalInv, NoneLate, LateOnwards

LEMMA OthersKeepFinal ==
  ASSUME CallInv, FinalInv, DeadlineFits, [Next]_vars,
         UNCHANGED results, UNCHANGED <<call, served>> \/ (call = "encode" /\ call' # "received")
  PROVE  FinalInv'
<1>1. clock \in Nat /\ clock' \in Nat /\ clock <= clock' /\ deadline' = deadline
  BY ClockFacts DEF CallInv
<1>2. deadline \in Nat /\ Milli \in Nat \ {0}
  BY RemainingFacts, BatchAssumption, <1>1 DEF CallInv, DeadlineFits
<1>3. clock >= deadline => clock' >= deadline'
  BY <1>1, <1>2
<1>4. CASE call = "encode" /\ call' # "received"
  <2>1. DOMAIN results = {}
    BY <1>4, EmptySequence DEF CallInv, BatchInv
  <2> QED BY <1>4, <2>1 DEF FinalInv
<1>5. CASE UNCHANGED <<call, served>>
  <2>1. call = "received" /\ DeadlinePassed(served.until) => DeadlinePassed(served.until)'
    <3>1. ASSUME call = "received", DeadlinePassed(served.until) PROVE DeadlinePassed(served.until)'
      <4>1. PICK u, a, b : u = served.until /\ a = clock * Milli /\ b = clock' * Milli
        OBVIOUS
      <4>2. b >= a /\ a \in Int /\ b \in Int
        <5>1. PICK now, next : now = clock /\ next = clock'
          OBVIOUS
        <5>2. next * Milli >= now * Milli
          <6>1. next \in Int /\ now \in Int /\ next >= now
            BY <1>1, <5>1
          <6>2. Milli \in Nat \ {0}
            BY <1>2
          <6> QED BY <6>1, <6>2, TimesAtLeast
        <5>3. now * Milli \in Int /\ next * Milli \in Int
          BY <1>1, <1>2, <5>1
        <5> QED BY <4>1, <5>1, <5>2, <5>3
      <4>3. u \in Int
        <5>1. PICK r, w : u = r * Milli + w /\ r \in Nat /\ w \in Int
          <6>1. PICK t, x : t = served.sent /\ x = Left(t) * Milli
            OBVIOUS
          <6>2. t \in Nat /\ served.received \in Nat
            BY <1>1, <3>1, <6>1 DEF CallInv, TimeInv
          <6>3. RemainingAt(t) = Left(t) /\ Left(t) \in Nat
            BY <6>2, RemainingFacts DEF CallInv, DeadlineFits
          <6>4. u = served.received * Milli + Wrapped(x, DurationLimit)
            BY <3>1, <4>1, <6>1, <6>3 DEF CallInv, TimeInv, DeadlineFits
          <6>5. x \in Nat /\ DurationLimit \in Nat \ {0}
            BY <1>2, <6>1, <6>3, BatchAssumption
          <6> QED BY <6>2, <6>4, <6>5, WrappedFacts
        <5> QED BY <1>2, <5>1
      <4>4. u # Blank /\ a >= u
        BY <3>1, <4>1 DEF DeadlinePassed
      <4>5. b >= u
        BY <4>2, <4>3, <4>4
      <4> QED BY <1>5, <4>1, <4>4, <4>5 DEF DeadlinePassed
    <3> QED BY <3>1
  <2> QED BY <1>1, <1>3, <1>5, <2>1 DEF FinalInv, DeadlineFits
<1> QED BY <1>4, <1>5

LEMMA NextKeepsFinal == CallInv /\ FinalInv /\ [Next]_vars => FinalInv'
<1> SUFFICES ASSUME CallInv, FinalInv, [Next]_vars PROVE FinalInv'
  OBVIOUS
<1>1. CASE ~DeadlineFits
  <2>1. deadline' = deadline
    BY ClockFacts DEF CallInv
  <2> QED BY <1>1, <2>1 DEF DeadlineFits, FinalInv
<1>2. CASE DeadlineFits
  <2>1. CASE GiveUp \/ Send \/ Receive \/ AnswerNext \/ Reply
    BY <1>2, <2>1, GiveUpKeepsFinal, SendKeepsFinal, ReceiveKeepsFinal, AnswerKeepsFinal, ReplyKeepsFinal
  <2>2. CASE ~(GiveUp \/ Send \/ Receive \/ AnswerNext \/ Reply)
    <3>1. UNCHANGED results /\ (UNCHANGED <<call, served>> \/ (call = "encode" /\ call' # "received"))
      BY <2>2 DEF Next, Step, Encode, Tick, ReleaseProgram, Create, vars, Throw
    <3> QED BY <1>2, <3>1, OthersKeepFinal
  <2> QED BY <2>1, <2>2
<1> QED BY <1>1, <1>2

\* A deadline that fits its multiplication is never reported early, and once it
\* has passed for one request it has for all that follow, in later batches too.
THEOREM DeadlineStaysPassed == Spec => []DeadlineIsFinal
<1>1. FinalInv => DeadlineIsFinal
  BY DEF FinalInv, TooLate, DeadlineIsFinal
<1> QED BY <1>1, InitFinal, NextKeepsFinal, CallInvHolds, PTL DEF Spec

(***************************************************************************)
(* The runtime that advertised its limits accepts what was split by them.  *)
(***************************************************************************)
\* A part of a list with distinct ids has distinct ids.
LEMMA DistinctIds ==
  ASSUME NEW list, IsSeq(list), Cardinality(Ids(list)) = Len(list),
         NEW o \in 0..Len(list), NEW n \in 0..(Len(list) - o),
         NEW part, IsSeq(part), Len(part) = n, \A i \in 1..n : part[i].id = list[o + i].id
  PROVE  Cardinality(Ids(part)) = Len(part) /\ Ids(part) \subseteq Ids(list)
<1>1. PICK l : l = Len(list)
  OBVIOUS
<1>2. /\ l \in Nat /\ n \in Nat /\ o \in Nat /\ DOMAIN list = 1..l /\ DOMAIN part = 1..n
      /\ IsFiniteSet(1..l) /\ IsFiniteSet(1..n)
  BY <1>1, SeqFacts, FS_Interval
<1>3. PICK f, g : f = [i \in 1..l |-> list[i].id] /\ g = [i \in 1..n |-> part[i].id]
  OBVIOUS
<1>4. f \in Surjection(1..l, Ids(list)) /\ g \in Surjection(1..n, Ids(part))
  BY <1>2, <1>3 DEF Surjection, Ids
<1>5. Cardinality(1..l) = l /\ Cardinality(1..n) = n
  <2>1. \A k \in Nat : Cardinality(1..k) = IF 1 > k THEN 0 ELSE k - 1 + 1
    BY FS_Interval
  <2>2. \A k \in Nat : (IF 1 > k THEN 0 ELSE k - 1 + 1) = k
    OBVIOUS
  <2> QED BY <1>2, <2>1, <2>2
<1>6. f \in Injection(1..l, Ids(list))
  BY <1>1, <1>2, <1>4, <1>5, FS_Surjection
<1>7. \A i \in 1..n : o + i \in 1..l /\ g[i] = f[o + i]
  BY <1>1, <1>2, <1>3
<1>8. g \in Injection(1..n, Ids(part))
  <2>1. ASSUME NEW i \in 1..n, NEW j \in 1..n, g[i] = g[j] PROVE i = j
    <3>1. o + i = o + j
      BY <1>6, <1>7, <2>1 DEF Injection, IsInjective
    <3> QED BY <1>2, <3>1
  <2> QED BY <1>4, <2>1 DEF Injection, IsInjective, Surjection
<1>9. Cardinality(Ids(part)) = n
  BY <1>2, <1>4, <1>5, <1>8, FS_Surjection
<1>10. \A i \in 1..n : part[i].id \in Ids(list)
  BY <1>1, <1>2, <1>7 DEF Ids
<1> QED BY <1>2, <1>9, <1>10 DEF Ids

\* A batch that fits the limits of a runtime, of requests with distinct ids and
\* values that decode, is refused by it for no more than its shared variables.
LEMMA FittingIsAccepted ==
  ASSUME NEW list, IsSeq(list), \A i \in DOMAIN list : IsRequest(list[i]),
         NEW o \in 0..Len(list), NEW n \in 1..(Len(list) - o),
         NEW batch, IsSeq(batch), Len(batch) = n, \A i \in 1..n : batch[i] = list[o + i],
         NEW limits, limits \in [LimitNames -> Nat \ {0}], Fits(batch, Public(limits))
  PROVE  /\ Refusal(Envelope(batch), limits) # "batch_payload_too_large"
         /\ ValidRequests(list) /\ (\A i \in DOMAIN list : ~Undecodable(list[i].variables)) =>
              Refusal(Envelope(batch), limits) # "invalid_request"
<1>1. PICK e : e = Envelope(batch)
  OBVIOUS
<1>2. PICK max, maxSources, maxRequests :
        /\ max = limits["MaxBatchExpressions"] /\ maxSources = limits["MaxBatchSourceBytes"]
        /\ maxRequests = limits["MaxBatchRequestBytes"]
  OBVIOUS
<1>3. /\ max \in Nat /\ maxSources \in Nat /\ maxRequests \in Nat
      /\ Len(list) \in Nat /\ DOMAIN list = 1..Len(list) /\ DOMAIN batch = 1..n
      /\ \A i \in 1..n : o + i \in DOMAIN list
  <2>1. max \in Nat /\ maxSources \in Nat /\ maxRequests \in Nat
    BY <1>2 DEF LimitNames, Overridable
  <2>2. Len(list) \in Nat /\ DOMAIN list = 1..Len(list) /\ DOMAIN batch = 1..n
    BY SeqFacts
  <2> QED BY <2>1, <2>2
<1>4. 1 \in DOMAIN batch /\ \A i \in DOMAIN batch : IsRequest(batch[i])
  BY <1>3
<1>5. /\ IsSeq(e.requests) /\ Len(e.requests) = n /\ IsObject(e.shared)
      /\ \A i \in 1..n : e.requests[i].id = list[o + i].id
      /\ Undecodable(e.shared) => Undecodable(list[o + 1].variables)
  <2>1. /\ IsSeq(e.requests) /\ Len(e.requests) = Len(batch) /\ IsObject(e.shared)
        /\ Undecodable(e.shared) => Undecodable(batch[1].variables)
        /\ \A i \in DOMAIN batch : e.requests[i].id = batch[i].id
    <3>1. Undecodable(e.shared) => Undecodable(batch[1].variables)
      BY <1>1, <1>4, EnvelopeFacts
    <3>2. IsSeq(e.requests) /\ Len(e.requests) = Len(batch) /\ IsObject(e.shared)
      BY <1>1, <1>4, EnvelopeFacts
    <3>3. \A i \in DOMAIN batch : e.requests[i].id = batch[i].id
      BY <1>1, <1>4, EnvelopeFacts
    <3> QED BY <3>1, <3>2, <3>3
  <2>2. 1 \in 1..n
    BY <1>3, <1>4
  <2> QED BY <1>3, <2>1, <2>2
<1>6. SourceTotal(e.requests) = SourceTotal(batch) /\ SourceTotal(batch) \in Nat /\ EnvelopeLength(e) \in Nat
  BY <1>1, <1>4, EnvelopeSources
<1>7. n <= max /\ SourceTotal(e.requests) <= maxSources /\ EnvelopeLength(e) <= maxRequests
  BY <1>1, <1>2, <1>6 DEF Fits, Public
<1>8. ~(n > max) /\ ~(SourceTotal(e.requests) > maxSources) /\ ~(EnvelopeLength(e) > maxRequests)
  BY <1>3, <1>6, <1>7
<1>9. /\ Blank # "batch_payload_too_large" /\ Blank # "invalid_request"
  BY BatchAssumption DEF Codes
<1>10. PICK error : error = VariableError(e.shared, limits)
  OBVIOUS
<1>11. error # "batch_payload_too_large" /\ (error = "invalid_request" => Undecodable(e.shared))
  <2>1. error = CASE ObjectBytes(e.shared) > limits["MaxVariablesBytes"] -> "variables_too_large"
                  [] ObjectBytes(e.shared) <= limits["MaxVariablesBytes"] /\ Undecodable(e.shared) ->
                       "invalid_request"
                  [] OTHER -> Blank
    BY <1>10 DEF VariableError
  <2>2. PICK size, most : size = ObjectBytes(e.shared) /\ most = limits["MaxVariablesBytes"]
    OBVIOUS
  <2>3. size \in Nat /\ most \in Nat
    BY <1>5, <2>2, ObjectBytesType DEF LimitNames
  <2>4. CASE size > most
    <3>1. ~(size <= most)
      BY <2>3, <2>4
    <3>2. error = "variables_too_large"
      BY <2>1, <2>2, <2>4, <3>1
    <3> QED BY <3>2
  <2>5. CASE size <= most
    <3>1. ~(size > most)
      BY <2>3, <2>5
    <3>2. error = IF Undecodable(e.shared) THEN "invalid_request" ELSE Blank
      BY <2>1, <2>2, <2>5, <3>1
    <3> QED BY <1>9, <3>2
  <2> QED BY <2>3, <2>4, <2>5
<1>12. /\ Refusal(e, limits) # "batch_payload_too_large"
       /\ Refusal(e, limits) = "invalid_request" =>
            \/ Undecodable(e.shared)
            \/ Blank \in Ids(e.requests) \/ Cardinality(Ids(e.requests)) < n
  BY <1>2, <1>5, <1>8, <1>9, <1>10, <1>11 DEF Refusal
<1>13. ASSUME ValidRequests(list), \A i \in DOMAIN list : ~Undecodable(list[i].variables)
       PROVE  Refusal(e, limits) # "invalid_request"
  <2>1. ~Undecodable(e.shared)
    BY <1>3, <1>5, <1>13
  <2>2. Cardinality(Ids(e.requests)) = n /\ Ids(e.requests) \subseteq Ids(list)
    <3>1. Cardinality(Ids(list)) = Len(list) /\ n \in 0..(Len(list) - o)
      BY <1>3, <1>13 DEF ValidRequests
    <3>2. PICK part : part = e.requests
      OBVIOUS
    <3>3. IsSeq(part) /\ Len(part) = n /\ \A i \in 1..n : part[i].id = list[o + i].id
      BY <1>5, <3>2
    <3>4. Cardinality(Ids(part)) = Len(part) /\ Ids(part) \subseteq Ids(list)
      BY <3>1, <3>3, DistinctIds
    <3> QED BY <3>2, <3>3, <3>4
  <2>3. Blank \notin Ids(e.requests)
    BY <1>13, <2>2 DEF ValidRequests
  <2> QED BY <1>12, <2>1, <2>2, <2>3
<1> QED BY <1>1, <1>12, <1>13

\* The failures that a runtime with the advertised limits does not cause.
SizeFailure(code) ==
  \/ code = "batch_payload_too_large"
  \/ /\ code = "invalid_request" /\ ValidRequests(requests)
     /\ \A i \in DOMAIN requests : ~Undecodable(requests[i].variables)

LEMMA FirstRuntimeAccepts ==
  ASSUME TypeInv, BatchInv, Receive, Current = 1
  PROVE  ~SizeFailure(Refusal(served.envelope, runtimes[Current]))
<1>1. PICK n \in 1..(Len(requests) - Len(results)) : served.envelope = Envelope(Due(n)) /\ Fits(Due(n), info)
  BY DEF Receive, BatchInv
<1>2. PICK list, o, batch, limits :
        list = requests /\ o = Len(results) /\ batch = Due(n) /\ limits = runtimes[1]
  OBVIOUS
<1>3. /\ IsSeq(list) /\ \A i \in DOMAIN list : IsRequest(list[i])
      /\ o \in 0..Len(list) /\ n \in 1..(Len(list) - o)
  BY <1>1, <1>2, CallFacts, RequestFacts
<1>4. IsSeq(batch) /\ Len(batch) = n /\ \A i \in 1..n : batch[i] = list[o + i]
  BY <1>2, CallFacts, DueFacts
<1>5. limits \in [LimitNames -> Nat \ {0}] /\ Fits(batch, Public(limits))
  BY <1>1, <1>2, RuntimeFacts DEF TypeInv
<1>6. /\ Refusal(Envelope(batch), limits) # "batch_payload_too_large"
      /\ ValidRequests(list) /\ (\A i \in DOMAIN list : ~Undecodable(list[i].variables)) =>
           Refusal(Envelope(batch), limits) # "invalid_request"
  BY <1>3, <1>4, <1>5, FittingIsAccepted
<1> QED BY <1>1, <1>2, <1>6 DEF SizeFailure

LEMMA NextKeepsAccepting == CallInv /\ SplitIsAccepted /\ [Next]_vars => SplitIsAccepted'
<1> SUFFICES ASSUME CallInv, SplitIsAccepted, [Next]_vars, ~(Current' > 1)
             PROVE  ~SizeFailure(failure')
  BY ClockFacts DEF CallInv, SplitIsAccepted, SizeFailure
<1>1. Current = 1
  BY RuntimesStay, RuntimeFacts DEF CallInv, Current
<1>2. ~SizeFailure(failure)
  BY <1>1 DEF SplitIsAccepted, SizeFailure
<1>3. CASE failure' = failure
  BY <1>2, <1>3
<1>4. CASE Encode /\ failure' # failure
  BY <1>4 DEF Encode, Throw, SizeFailure
<1>5. CASE Receive /\ failure' # failure
  <2>1. failure' = Refusal(served.envelope, runtimes[Current])
    BY <1>5 DEF Receive, Throw
  <2> QED BY <1>1, <1>5, <2>1, FirstRuntimeAccepts DEF CallInv
<1>6. CASE Reply /\ failure' # failure
  BY <1>6 DEF Reply, Throw, SizeFailure
<1>7. failure' = failure \/ Encode \/ Receive \/ Reply
  BY DEF Next, Step, GiveUp, Send, AnswerNext, Tick, ReleaseProgram, Create, vars
<1> QED BY <1>3, <1>4, <1>5, <1>6, <1>7

\* The splitting keeps to the limits that the runtime advertised: a batch is
\* refused for its size only by another runtime.
THEOREM SplitsAreAccepted == Spec => []SplitIsAccepted
<1>1. Init => SplitIsAccepted
  BY BatchAssumption DEF Init, SplitIsAccepted, Codes
<1> QED BY <1>1, NextKeepsAccepting, CallInvHolds, PTL DEF Spec

=============================================================================

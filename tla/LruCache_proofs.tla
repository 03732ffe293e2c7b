--------------------------- MODULE LruCache_proofs ---------------------------
(***************************************************************************)
(* Proofs about LruCache: its list and its map agree in every reachable    *)
(* state, whatever the keys, the values and the configured capacity.       *)
(* CacheInv is inductive as it stands; the lemmas on Hit and Put are used  *)
(* again for every component that embeds the cache.                        *)
(***************************************************************************)
EXTENDS LruCache, SequenceTheorems, FiniteSetTheorems, TLAPS

CacheInv == CacheTypeOK /\ ListMatchesMap

Distinct(list) == \A i, j \in 1..Len(list) : list[i] = list[j] => i = j

ElementsOf(list) == {list[i] : i \in 1..Len(list)}

-----------------------------------------------------------------------------
\* The capacity in use is a natural number, whatever the configured one.
LEMMA CapacityNat == Capacity \in Nat
BY CacheAssumption DEF Capacity

\* A list has no more different elements than places.
LEMMA ElementsBounded ==
  ASSUME NEW list \in Seq(Keys)
  PROVE  IsFiniteSet(ElementsOf(list)) /\ Cardinality(ElementsOf(list)) <= Len(list)
<1>1. Len(list) \in Nat /\ list \in [1..Len(list) -> Keys]
  BY LenProperties
<1>2. list \in Surjection(1..Len(list), ElementsOf(list))
  BY <1>1 DEF Surjection, ElementsOf
<1>3. ExistsSurjection(1..Len(list), ElementsOf(list))
  BY <1>2 DEF ExistsSurjection
<1> QED BY <1>1, <1>3, FS_NatSurjection, FS_SurjCardinalityBound

\* list.MoveToFront permutes the list: same length, same keys, none twice.
LEMMA MoveToFrontPermutes ==
  ASSUME NEW list \in Seq(Keys), NEW i \in 1..Len(list), Distinct(list)
  PROVE  /\ MoveToFront(list, i) \in Seq(Keys)
         /\ Len(MoveToFront(list, i)) = Len(list)
         /\ ElementsOf(MoveToFront(list, i)) = ElementsOf(list)
         /\ Distinct(MoveToFront(list, i))
<1> DEFINE n == Len(list)
           moved == MoveToFront(list, i)
<1>1. n \in Nat /\ list \in [1..n -> Keys]
  BY LenProperties
<1>2. moved \in [1..n -> Keys]
  BY <1>1 DEF MoveToFront
<1>3. moved \in Seq(Keys) /\ Len(moved) = n
  BY <1>1, <1>2, SeqDef, LenProperties DEF MoveToFront
<1>4. \A j \in 1..n : moved[j] = IF j = 1 THEN list[i] ELSE IF j <= i THEN list[j - 1] ELSE list[j]
  BY <1>1 DEF MoveToFront
<1> HIDE DEF moved
<1>5. ElementsOf(moved) \subseteq ElementsOf(list)
  <2> SUFFICES ASSUME NEW j \in 1..n PROVE \E m \in 1..n : moved[j] = list[m]
    BY <1>3 DEF ElementsOf
  <2>1. CASE j = 1
    BY <2>1, <1>4
  <2>2. CASE j # 1 /\ j <= i
    <3>1. j - 1 \in 1..n
      BY <2>2, <1>1
    <3> QED BY <2>2, <3>1, <1>4
  <2>3. CASE j # 1 /\ ~(j <= i)
    BY <2>3, <1>4
  <2> QED BY <2>1, <2>2, <2>3
<1>6. ElementsOf(list) \subseteq ElementsOf(moved)
  <2> SUFFICES ASSUME NEW j \in 1..n PROVE \E m \in 1..n : moved[m] = list[j]
    BY <1>3 DEF ElementsOf
  <2>1. CASE j = i
    <3>1. 1 \in 1..n
      BY <1>1
    <3> QED BY <2>1, <3>1, <1>4
  <2>2. CASE j < i
    <3>1. j + 1 \in 1..n /\ j + 1 # 1 /\ j + 1 <= i /\ (j + 1) - 1 = j
      BY <2>2, <1>1
    <3> QED BY <3>1, <1>4
  <2>3. CASE j > i
    <3>1. j # 1 /\ ~(j <= i)
      BY <2>3, <1>1
    <3> QED BY <3>1, <1>4
  <2> QED BY <1>1, <2>1, <2>2, <2>3
<1>7. Distinct(moved)
  <2> DEFINE from(j) == IF j = 1 THEN i ELSE IF j <= i THEN j - 1 ELSE j
  <2>1. \A j \in 1..n : from(j) \in 1..n /\ moved[j] = list[from(j)]
    BY <1>1, <1>4
  <2>2. \A j, m \in 1..n : from(j) = from(m) => j = m
    BY <1>1
  <2> HIDE DEF from
  <2> QED BY <1>3, <2>1, <2>2 DEF Distinct
<1> QED BY <1>3, <1>5, <1>6, <1>7 DEF moved

\* list.PushFront, then the eviction loop: the key comes first, the others
\* move up by one, and the last ones go while there are too many.
LEMMA PushFrontPositions ==
  ASSUME NEW list \in Seq(Keys), NEW k \in Keys, Capacity > 0
  PROVE  LET pushed == WithinCapacity(PushFront(list, k)) IN
         /\ pushed \in Seq(Keys)
         /\ Len(pushed) = IF Len(list) + 1 > Capacity THEN Capacity ELSE Len(list) + 1
         /\ \A j \in 1..Len(pushed) :
              /\ j = 1 => pushed[j] = k
              /\ j > 1 => j - 1 \in 1..Len(list) /\ pushed[j] = list[j - 1]
<1> DEFINE n == Len(list)
           whole == PushFront(list, k)
           pushed == WithinCapacity(whole)
<1>1. n \in Nat /\ list \in [1..n -> Keys]
  BY LenProperties
<1>2. <<k>> \in Seq(Keys) /\ Len(<<k>>) = 1 /\ <<k>>[1] = k
  OBVIOUS
<1>3. /\ whole \in Seq(Keys)
      /\ Len(whole) = n + 1
      /\ \A j \in 1..n + 1 : whole[j] = IF j = 1 THEN k ELSE list[j - 1]
  <2>1. /\ whole \in Seq(Keys)
        /\ Len(whole) = 1 + n
        /\ \A j \in 1..1 + n : whole[j] = IF j <= 1 THEN <<k>>[j] ELSE list[j - 1]
    BY <1>2, ConcatProperties, Zenon DEF PushFront
  <2> QED BY <1>1, <1>2, <2>1
<1> HIDE DEF whole
<1>4. /\ pushed \in Seq(Keys)
      /\ Len(pushed) = IF n + 1 > Capacity THEN Capacity ELSE n + 1
      /\ \A j \in 1..Len(pushed) : pushed[j] = whole[j]
  <2>1. CASE Len(whole) > Capacity
    <3>1. pushed = SubSeq(whole, 1, Capacity)
      BY <2>1 DEF WithinCapacity
    <3>2. \A j \in 1..Capacity : whole[j] \in Keys
      BY <2>1, <1>1, <1>3, CapacityNat, ElementOfSeq
    <3>3. 1 \in Int /\ Capacity \in Int
      BY CapacityNat
    <3>4. /\ SubSeq(whole, 1, Capacity) \in Seq(Keys)
          /\ Len(SubSeq(whole, 1, Capacity)) = IF 1 <= Capacity THEN Capacity - 1 + 1 ELSE 0
          /\ \A j \in 1..(Capacity - 1 + 1) : SubSeq(whole, 1, Capacity)[j] = whole[1 + j - 1]
      BY <3>2, <3>3, SubSeqProperties
    <3>5. /\ pushed \in Seq(Keys)
          /\ Len(pushed) = Capacity
          /\ \A j \in 1..Capacity : pushed[j] = whole[1 + j - 1]
      BY <3>1, <3>4, CapacityNat
    <3>6. \A j \in 1..Capacity : 1 + j - 1 = j
      BY CapacityNat
    <3> HIDE DEF pushed
    <3>7. \A j \in 1..Capacity : pushed[j] = whole[j]
      BY <3>5, <3>6
    <3>8. Capacity <= n + 1 /\ 1 <= Capacity
      BY <2>1, <1>1, <1>3, CapacityNat
    <3> QED BY <2>1, <1>1, <1>3, <3>5, <3>7, <3>8, CapacityNat
  <2>2. CASE ~(Len(whole) > Capacity)
    BY <2>2, <1>1, <1>3, CapacityNat DEF WithinCapacity
  <2> QED BY <2>1, <2>2
<1> HIDE DEF pushed
<1>5. Len(pushed) \in Nat /\ Len(pushed) <= n + 1
  BY <1>1, <1>4, CapacityNat
<1>6. \A j \in 1..Len(pushed) :
        /\ j = 1 => pushed[j] = k
        /\ j > 1 => j - 1 \in 1..n /\ pushed[j] = list[j - 1]
  BY <1>1, <1>3, <1>4, <1>5
<1> QED BY <1>4, <1>6 DEF pushed, whole

\* Pushing a key that the list does not hold leaves it without duplicates and
\* within the capacity, holding the new key and otherwise only keys it had.
LEMMA PushFrontEvicts ==
  ASSUME NEW list \in Seq(Keys), NEW k \in Keys, Distinct(list),
         k \notin ElementsOf(list), Capacity > 0
  PROVE  LET pushed == WithinCapacity(PushFront(list, k)) IN
         /\ pushed \in Seq(Keys)
         /\ Len(pushed) <= Capacity
         /\ ElementsOf(pushed) \subseteq ElementsOf(list) \cup {k}
         /\ k \in ElementsOf(pushed)
         /\ Distinct(pushed)
<1> DEFINE n == Len(list)
           pushed == WithinCapacity(PushFront(list, k))
<1>1. n \in Nat
  BY LenProperties
<1>2. /\ pushed \in Seq(Keys)
      /\ Len(pushed) = IF n + 1 > Capacity THEN Capacity ELSE n + 1
      /\ \A j \in 1..Len(pushed) :
           /\ j = 1 => pushed[j] = k
           /\ j > 1 => j - 1 \in 1..n /\ pushed[j] = list[j - 1]
  BY PushFrontPositions
<1> HIDE DEF pushed
<1>3. Len(pushed) \in Nat /\ 1 <= Len(pushed) /\ Len(pushed) <= Capacity
  BY <1>1, <1>2, CapacityNat
<1>4. ElementsOf(pushed) \subseteq ElementsOf(list) \cup {k}
  <2> SUFFICES ASSUME NEW j \in 1..Len(pushed), pushed[j] # k
               PROVE  \E m \in 1..n : pushed[j] = list[m]
    BY DEF ElementsOf
  <2>1. j > 1
    BY <1>2, <1>3
  <2> QED BY <2>1, <1>2
<1>5. k \in ElementsOf(pushed)
  <2>1. 1 \in 1..Len(pushed) /\ pushed[1] = k
    BY <1>2, <1>3
  <2> QED BY <2>1 DEF ElementsOf
<1>6. Distinct(pushed)
  <2> SUFFICES ASSUME NEW j \in 1..Len(pushed), NEW m \in 1..Len(pushed), pushed[j] = pushed[m]
               PROVE  j = m
    BY DEF Distinct
  <2>1. \A q \in 1..n : list[q] # k
    BY DEF ElementsOf
  <2>2. CASE j = 1 \/ m = 1
    BY <2>1, <2>2, <1>2, <1>3
  <2>3. CASE j > 1 /\ m > 1
    <3>1. list[j - 1] = list[m - 1] /\ j - 1 \in 1..n /\ m - 1 \in 1..n
      BY <2>3, <1>2
    <3>2. j - 1 = m - 1
      BY <3>1 DEF Distinct
    <3> QED BY <3>2, <1>3
  <2> QED BY <2>2, <2>3, <1>3
<1> QED BY <1>2, <1>3, <1>4, <1>5, <1>6 DEF pushed

-----------------------------------------------------------------------------
\* An empty cache is a good cache.
LEMMA CacheInitInv == CacheInit => CacheInv
<1> SUFFICES ASSUME CacheInit PROVE CacheInv
  OBVIOUS
<1>1. order \in Seq(Keys) /\ Len(order) = 0
  BY EmptySeq DEF CacheInit
<1>2. entries \in [Keys -> Values \cup {Absent}] /\ Resident = {}
  BY DEF CacheInit, Resident
<1> QED BY <1>1, <1>2, CapacityNat DEF CacheInv, CacheTypeOK, ListMatchesMap

\* Moving a resident key to the front, with or without a new value for it,
\* keeps the list and the map in step.
LEMMA TouchKeepsInv ==
  ASSUME CacheInv, NEW k \in Resident, NEW v \in Values,
         order' = MoveToFront(order, PositionOf(order, k)),
         entries' = entries \/ entries' = [entries EXCEPT ![k] = v]
  PROVE  CacheInv'
<1> DEFINE i == PositionOf(order, k)
<1>1. order \in Seq(Keys) /\ entries \in [Keys -> Values \cup {Absent}] /\ k \in Keys
  BY DEF CacheInv, CacheTypeOK, Resident
<1>2. i \in 1..Len(order)
  BY DEF CacheInv, ListMatchesMap, PositionOf
<1>3. Distinct(order)
  BY DEF CacheInv, ListMatchesMap, Distinct
<1>4. /\ order' \in Seq(Keys)
      /\ Len(order') = Len(order)
      /\ ElementsOf(order') = ElementsOf(order)
      /\ Distinct(order')
  BY <1>1, <1>2, <1>3, MoveToFrontPermutes
<1>5. entries' \in [Keys -> Values \cup {Absent}]
  BY <1>1
<1>6. Resident' = Resident
  BY <1>1, CacheAssumption DEF Resident
<1>7. ListMatchesMap'
  BY <1>4, <1>6 DEF CacheInv, ListMatchesMap, ElementsOf, Distinct
<1> QED BY <1>4, <1>5, <1>7 DEF CacheInv, CacheTypeOK

\* Get keeps them in step.
LEMMA HitKeepsInv ==
  ASSUME CacheInv, NEW k \in Keys, Hit(k)
  PROVE  CacheInv'
<1>1. k \in Resident
  BY DEF Hit
<1>2. \E v \in Values : entries[k] = v
  BY <1>1 DEF CacheInv, CacheTypeOK, Resident
<1> QED BY <1>1, <1>2, TouchKeepsInv DEF Hit, cacheVars

LEMMA UnchangedKeepsInv ==
  ASSUME CacheInv, UNCHANGED cacheVars
  PROVE  CacheInv'
BY DEF CacheInv, CacheTypeOK, ListMatchesMap, Resident, cacheVars

LEMMA MissKeepsInv ==
  ASSUME CacheInv, NEW k \in Keys, Miss(k)
  PROVE  CacheInv'
BY UnchangedKeepsInv DEF Miss

\* Put of a new key keeps them in step, and holds the key afterwards.
LEMMA InsertKeepsInv ==
  ASSUME CacheInv, NEW k \in Keys, NEW v \in Values, Capacity > 0, Insert(k, v)
  PROVE  CacheInv' /\ k \in Resident'
<1>1. order \in Seq(Keys) /\ entries \in [Keys -> Values \cup {Absent}]
  BY DEF CacheInv, CacheTypeOK
<1>2. Distinct(order) /\ k \notin ElementsOf(order) /\ Resident = ElementsOf(order)
  BY DEF CacheInv, ListMatchesMap, Insert, Distinct, ElementsOf
<1>3. /\ order' \in Seq(Keys)
      /\ Len(order') <= Capacity
      /\ ElementsOf(order') \subseteq ElementsOf(order) \cup {k}
      /\ k \in ElementsOf(order')
      /\ Distinct(order')
  BY <1>1, <1>2, PushFrontEvicts DEF Insert
<1>4. entries' = [q \in Keys |-> IF q \in ElementsOf(order')
                                  THEN [entries EXCEPT ![k] = v][q] ELSE Absent]
  BY DEF Insert, OnlyListed, ElementsOf
<1>5. entries' \in [Keys -> Values \cup {Absent}]
  BY <1>1, <1>4
<1>6. Resident' = ElementsOf(order')
  <2>1. ElementsOf(order') \subseteq Keys
    BY <1>3, ElementOfSeq DEF ElementsOf
  <2>2. \A q \in ElementsOf(order') : [entries EXCEPT ![k] = v][q] # Absent
    BY <1>1, <1>2, <1>3, <2>1, CacheAssumption DEF Resident
  <2> QED BY <1>4, <2>1, <2>2 DEF Resident
<1>7. ListMatchesMap'
  BY <1>3, <1>6 DEF ListMatchesMap, Distinct, ElementsOf
<1> QED BY <1>3, <1>5, <1>6, <1>7 DEF CacheInv, CacheTypeOK

\* Put keeps them in step.
LEMMA PutKeepsInv ==
  ASSUME CacheInv, NEW k \in Keys, NEW v \in Values, Put(k, v)
  PROVE  CacheInv'
<1>1. CASE UNCHANGED cacheVars
  BY <1>1, UnchangedKeepsInv
<1>2. CASE Capacity > 0 /\ Replace(k, v)
  BY <1>2, TouchKeepsInv DEF Replace
<1>3. CASE Capacity > 0 /\ Insert(k, v)
  BY <1>3, InsertKeepsInv
<1> QED BY <1>1, <1>2, <1>3 DEF Put

\* Get misses only what the map does not hold, the disabled cache included.
LEMMA MissMeansAbsent ==
  ASSUME CacheInv, NEW k \in Keys, Miss(k)
  PROVE  k \notin Resident
<1>1. CASE Capacity = 0
  <2>1. Len(order) \in Nat /\ Len(order) <= 0
    BY <1>1, LenProperties DEF CacheInv, CacheTypeOK, ListMatchesMap
  <2>2. Resident = {}
    BY <2>1 DEF CacheInv, ListMatchesMap
  <2> QED BY <2>2
<1>2. CASE k \notin Resident
  BY <1>2
<1> QED BY <1>1, <1>2 DEF Miss

\* Get changes the value of no key, and Put that of its own key only.
LEMMA HitChangesNoEntry ==
  ASSUME NEW k \in Keys, Hit(k)
  PROVE  entries' = entries /\ Resident' = Resident
BY DEF Hit, Resident

LEMMA PutStoresOwnKey ==
  ASSUME CacheInv, NEW k \in Keys, NEW v \in Values, Put(k, v)
  PROVE  \A q \in Resident' : \/ q = k /\ entries'[q] = v
                              \/ q \in Resident /\ entries'[q] = entries[q]
<1>1. entries \in [Keys -> Values \cup {Absent}]
  BY DEF CacheInv, CacheTypeOK
<1>2. CASE UNCHANGED cacheVars
  BY <1>2 DEF cacheVars, Resident
<1>3. CASE Replace(k, v)
  BY <1>1, <1>3 DEF Replace, Resident
<1>4. CASE Insert(k, v)
  BY <1>1, <1>4 DEF Insert, OnlyListed, Resident
<1> QED BY <1>2, <1>3, <1>4 DEF Put

-----------------------------------------------------------------------------
LEMMA CacheInvariant == CacheSpec => []CacheInv
<1>1. CacheInit => CacheInv
  BY CacheInitInv
<1>2. CacheInv /\ [CacheNext]_cacheVars => CacheInv'
  <2> SUFFICES ASSUME CacheInv, [CacheNext]_cacheVars PROVE CacheInv'
    OBVIOUS
  <2>1. CASE UNCHANGED cacheVars
    BY <2>1, UnchangedKeepsInv
  <2>2. ASSUME NEW k \in Keys, Hit(k) PROVE CacheInv'
    BY <2>2, HitKeepsInv
  <2>3. ASSUME NEW k \in Keys, Miss(k) PROVE CacheInv'
    BY <2>3, MissKeepsInv
  <2>4. ASSUME NEW k \in Keys, NEW v \in Values, Put(k, v) PROVE CacheInv'
    BY <2>4, PutKeepsInv
  <2> QED BY <2>1, <2>2, <2>3, <2>4 DEF CacheNext
<1> QED BY <1>1, <1>2, PTL DEF CacheSpec

\* The map's values are programs or none, and the list is one of keys.
THEOREM CacheTypeCorrect == CacheSpec => []CacheTypeOK
BY CacheInvariant, PTL DEF CacheInv

\* programCache.Get and Put, in any sequence and at any capacity, never leave a
\* list element without its map entry or a map entry without its element, nor
\* exceed the capacity.
THEOREM CacheSafe == CacheSpec => []ListMatchesMap
BY CacheInvariant, PTL DEF CacheInv

=============================================================================

-------------------------- MODULE LruRecency_proofs --------------------------
(***************************************************************************)
(* Proofs about LruRecency, for any keys, values, capacity and number of   *)
(* uses: the list of LruCache, whose places no clock ever sets, is the     *)
(* order of last use, and what it drops is what was used longest ago.      *)
(*                                                                         *)
(* KeepsMostRecentlyUsed is not inductive.  That the key evicted was used  *)
(* before those kept needs the list to be in order of last use             *)
(* (LatestUsedFirst); that as many keys are kept as fit needs a cache that *)
(* has dropped a key to be full ever since (FullOnceEvicting).             *)
(***************************************************************************)
EXTENDS LruRecency, LruCache_proofs

\* No use lies in the future.
UsesAreTimed ==
  /\ clock \in Nat
  /\ lastUse \in [Keys -> Nat]
  /\ \A k \in Keys : lastUse[k] <= clock
  /\ IsFiniteSet(Used)

LatestUsedFirst ==
  \A i, j \in 1..Len(order) : i < j => lastUse[order[j]] < lastUse[order[i]]

\* The two parts of KeepsMostRecentlyUsed that say which keys are kept.
KeptAreUsed == Resident \subseteq Used
GoneUsedBeforeKept ==
  \A kept \in Resident, gone \in Used \ Resident : lastUse[gone] < lastUse[kept]

FullOnceEvicting == Used = Resident \/ Len(order) = Capacity

RecencyInv ==
  /\ CacheInv
  /\ UsesAreTimed
  /\ LatestUsedFirst
  /\ KeptAreUsed
  /\ GoneUsedBeforeKept
  /\ FullOnceEvicting
  /\ latest \in [Keys -> Values \cup {Absent}]
  /\ HitReturnsLatestValue

-----------------------------------------------------------------------------
\* The list holds each key of the map once, so their numbers agree.
LEMMA AsManyAsListed ==
  ASSUME CacheInv
  PROVE  IsFiniteSet(Resident) /\ Cardinality(Resident) = Len(order)
<1>1. Len(order) \in Nat /\ order \in [1..Len(order) -> Keys]
  BY LenProperties DEF CacheInv, CacheTypeOK
<1>2. order \in Bijection(1..Len(order), Resident)
  <2>1. order \in [1..Len(order) -> Resident]
    BY <1>1 DEF CacheInv, ListMatchesMap
  <2>2. \A i, j \in 1..Len(order) : order[i] = order[j] => i = j
    BY DEF CacheInv, ListMatchesMap
  <2>3. \A k \in Resident : \E i \in 1..Len(order) : order[i] = k
    BY DEF CacheInv, ListMatchesMap
  <2>4. \A i, j \in DOMAIN order : order[i] = order[j] => i = j
    BY <1>1, <2>2
  <2> QED BY <2>1, <2>3, <2>4 DEF Bijection, Injection, Surjection, IsInjective
<1>3. ExistsBijection(1..Len(order), Resident)
  BY <1>2 DEF ExistsBijection
<1> QED BY <1>1, <1>3, FS_CountingElements, FS_NatBijection

\* A disabled cache is empty.
LEMMA DisabledIsEmpty ==
  ASSUME CacheInv, Capacity = 0
  PROVE  Resident = {}
<1>1. Len(order) \in Nat /\ Len(order) <= 0
  BY LenProperties DEF CacheInv, CacheTypeOK, ListMatchesMap
<1> QED BY <1>1 DEF CacheInv, ListMatchesMap

\* A use of k is its last one, and later than that of any other key.
LEMMA UseIsLatest ==
  ASSUME UsesAreTimed, NEW k \in Keys, Use(k)
  PROVE  /\ UsesAreTimed'
         /\ lastUse'[k] = clock + 1
         /\ \A q \in Keys : q # k => lastUse'[q] = lastUse[q]
         /\ \A q \in Keys : lastUse[q] < clock + 1
         /\ Used' = Used \cup {k}
<1>1. clock' = clock + 1 /\ lastUse' = [lastUse EXCEPT ![k] = clock + 1]
  BY DEF Use
<1>2. /\ clock' \in Nat /\ lastUse' \in [Keys -> Nat]
      /\ lastUse'[k] = clock + 1
      /\ \A q \in Keys : q # k => lastUse'[q] = lastUse[q]
      /\ \A q \in Keys : lastUse[q] < clock + 1
  BY <1>1 DEF UsesAreTimed
<1>3. \A q \in Keys : lastUse'[q] <= clock'
  BY <1>1, <1>2 DEF UsesAreTimed
<1>4. Used' = Used \cup {k}
  BY <1>2 DEF UsesAreTimed, Used
<1>5. IsFiniteSet(Used')
  BY <1>4, FS_AddElement DEF UsesAreTimed
<1> QED BY <1>2, <1>3, <1>4, <1>5 DEF UsesAreTimed

\* Get of a resident key and Put over one: the key comes to the front of the
\* list, and nothing is dropped.
LEMMA TouchKeepsRecency ==
  ASSUME RecencyInv, NEW k \in Resident, Use(k), CacheInv', Resident' = Resident,
         order' = MoveToFront(order, PositionOf(order, k))
  PROVE  UsesAreTimed' /\ LatestUsedFirst' /\ KeptAreUsed' /\ GoneUsedBeforeKept' /\ FullOnceEvicting'
<1> DEFINE n == Len(order)
<1>1. PICK i \in 1..n : i = PositionOf(order, k) /\ order[i] = k
  BY DEF RecencyInv, CacheInv, ListMatchesMap, PositionOf
<1>2. k \in Keys /\ Resident \subseteq Keys
  BY DEF Resident
<1>3. n \in Nat /\ order \in [1..n -> Keys]
  BY LenProperties DEF RecencyInv, CacheInv, CacheTypeOK
<1>4. /\ UsesAreTimed'
      /\ lastUse'[k] = clock + 1
      /\ \A q \in Keys : q # k => lastUse'[q] = lastUse[q]
      /\ \A q \in Keys : lastUse[q] < clock + 1
      /\ Used' = Used \cup {k}
  BY <1>2, UseIsLatest DEF RecencyInv
<1>5. Len(order') = n
  BY <1>1, <1>3, MoveToFrontPermutes DEF RecencyInv, CacheInv, CacheTypeOK, ListMatchesMap, Distinct
<1>6. \A j \in 1..n : order'[j] = IF j = 1 THEN k ELSE IF j <= i THEN order[j - 1] ELSE order[j]
  BY <1>1, <1>3 DEF MoveToFront
<1>7. lastUse \in [Keys -> Nat] /\ clock \in Nat
  BY DEF RecencyInv, UsesAreTimed
<1>8. LatestUsedFirst'
  <2> SUFFICES ASSUME NEW a \in 1..n, NEW b \in 1..n, a < b
               PROVE  lastUse'[order'[b]] < lastUse'[order'[a]]
    BY <1>5 DEF LatestUsedFirst
  <2>1. PICK c \in 1..n : /\ c = IF b <= i THEN b - 1 ELSE b
                          /\ c # i
                          /\ order'[b] = order[c]
    BY <1>1, <1>3, <1>6
  <2>2. order[c] # k /\ order[c] \in Keys
    BY <1>1, <1>3, <2>1 DEF RecencyInv, CacheInv, ListMatchesMap
  <2>3. lastUse'[order'[b]] = lastUse[order[c]]
    BY <1>4, <2>1, <2>2
  <2>4. CASE a = 1
    BY <2>2, <2>3, <2>4, <1>4, <1>6
  <2>5. CASE a # 1
    <3>1. PICK d \in 1..n : /\ d = IF a <= i THEN a - 1 ELSE a
                            /\ d # i
                            /\ order'[a] = order[d]
      BY <1>1, <1>3, <1>6, <2>5
    <3>2. order[d] # k /\ order[d] \in Keys
      BY <1>1, <1>3, <3>1 DEF RecencyInv, CacheInv, ListMatchesMap
    <3>3. lastUse'[order'[a]] = lastUse[order[d]]
      BY <1>4, <3>1, <3>2
    <3>4. d < c
      BY <1>3, <2>1, <3>1
    <3> QED BY <2>3, <3>3, <3>4 DEF RecencyInv, LatestUsedFirst
  <2> QED BY <2>4, <2>5
<1>9. k \in Used /\ Used' = Used
  BY <1>4 DEF RecencyInv, KeptAreUsed
<1>10. KeptAreUsed'
  BY <1>9 DEF RecencyInv, KeptAreUsed
<1>11. GoneUsedBeforeKept'
  <2> SUFFICES ASSUME NEW kept \in Resident, NEW gone \in Used \ Resident
               PROVE  lastUse'[gone] < lastUse'[kept]
    BY <1>9 DEF GoneUsedBeforeKept
  <2>1. gone \in Keys /\ gone # k /\ lastUse[gone] < lastUse[kept]
    BY DEF Used, RecencyInv, GoneUsedBeforeKept
  <2> QED BY <1>2, <1>4, <2>1
<1>12. FullOnceEvicting'
  BY <1>5, <1>9 DEF RecencyInv, FullOnceEvicting, Capacity
<1> QED BY <1>4, <1>8, <1>10, <1>11, <1>12

\* Put of a new key: it comes first, and what falls off the end of a full
\* list is the key used longest ago.
LEMMA InsertKeepsRecency ==
  ASSUME RecencyInv, NEW k \in Keys, NEW v \in Values, Capacity > 0, Insert(k, v), Use(k), CacheInv'
  PROVE  UsesAreTimed' /\ LatestUsedFirst' /\ KeptAreUsed' /\ GoneUsedBeforeKept' /\ FullOnceEvicting'
<1> DEFINE n == Len(order)
<1>1. n \in Nat /\ order \in Seq(Keys) /\ order \in [1..n -> Keys]
  BY LenProperties DEF RecencyInv, CacheInv, CacheTypeOK
<1>2. /\ UsesAreTimed'
      /\ lastUse'[k] = clock + 1
      /\ \A q \in Keys : q # k => lastUse'[q] = lastUse[q]
      /\ \A q \in Keys : lastUse[q] < clock + 1
      /\ Used' = Used \cup {k}
  BY UseIsLatest DEF RecencyInv
<1>3. /\ Len(order') = IF n + 1 > Capacity THEN Capacity ELSE n + 1
      /\ \A j \in 1..Len(order') :
           /\ j = 1 => order'[j] = k
           /\ j > 1 => j - 1 \in 1..n /\ order'[j] = order[j - 1]
  BY <1>1, PushFrontPositions DEF Insert
<1>4. k \notin Resident /\ Resident = {order[j] : j \in 1..n}
  BY DEF Insert, RecencyInv, CacheInv, ListMatchesMap
<1>5. Resident' = {order'[j] : j \in 1..Len(order')}
  BY DEF CacheInv, ListMatchesMap
<1>6. Len(order') \in Nat /\ Len(order') >= 1 /\ Len(order') <= n + 1
  BY <1>1, <1>3, CapacityNat
<1>7. \A j \in 1..n : order[j] \in Keys /\ order[j] # k /\ lastUse'[order[j]] = lastUse[order[j]]
  BY <1>1, <1>2, <1>4
<1>8. lastUse \in [Keys -> Nat] /\ clock \in Nat
  BY DEF RecencyInv, UsesAreTimed
<1>9. LatestUsedFirst'
  <2> SUFFICES ASSUME NEW a \in 1..Len(order'), NEW b \in 1..Len(order'), a < b
               PROVE  lastUse'[order'[b]] < lastUse'[order'[a]]
    BY DEF LatestUsedFirst
  <2>1. b - 1 \in 1..n /\ order'[b] = order[b - 1]
    BY <1>3, <1>6
  <2>2. CASE a = 1
    BY <1>2, <1>3, <1>7, <2>1, <2>2
  <2>3. CASE a # 1
    <3>1. a - 1 \in 1..n /\ order'[a] = order[a - 1] /\ a - 1 < b - 1
      BY <1>3, <1>6, <2>3
    <3> QED BY <1>7, <2>1, <3>1 DEF RecencyInv, LatestUsedFirst
  <2> QED BY <2>2, <2>3
<1>10. \A q \in Resident' : q = k \/ \E j \in 1..n : q = order[j] /\ j + 1 <= Len(order')
  <2> SUFFICES ASSUME NEW j \in 1..Len(order'), j # 1
               PROVE  \E m \in 1..n : order'[j] = order[m] /\ m + 1 <= Len(order')
    BY <1>3, <1>5
  <2>1. j - 1 \in 1..n /\ order'[j] = order[j - 1] /\ (j - 1) + 1 <= Len(order')
    BY <1>3, <1>6
  <2> QED BY <2>1
<1>11. \A j \in 1..n : j + 1 <= Len(order') => order[j] \in Resident'
  <2> SUFFICES ASSUME NEW j \in 1..n, j + 1 <= Len(order') PROVE order[j] \in Resident'
    OBVIOUS
  <2>1. j + 1 \in 1..Len(order') /\ order'[j + 1] = order[(j + 1) - 1] /\ (j + 1) - 1 = j
    BY <1>1, <1>3, <1>6
  <2> QED BY <1>5, <2>1
<1>12. k \in Resident'
  <2>1. 1 \in 1..Len(order') /\ order'[1] = k
    BY <1>3, <1>6
  <2> QED BY <1>5, <2>1
<1>13. KeptAreUsed'
  BY <1>2, <1>4, <1>10 DEF RecencyInv, KeptAreUsed
<1>14. GoneUsedBeforeKept'
  <2> SUFFICES ASSUME NEW kept \in Resident', NEW gone \in Used' \ Resident'
               PROVE  lastUse'[gone] < lastUse'[kept]
    BY DEF GoneUsedBeforeKept
  <2>1. gone \in Keys /\ gone # k /\ gone \in Used /\ lastUse'[gone] = lastUse[gone]
    BY <1>2, <1>12 DEF Used
  <2>2. CASE kept = k
    BY <1>2, <2>1, <2>2
  <2>3. ASSUME NEW j \in 1..n, kept = order[j], j + 1 <= Len(order')
        PROVE  lastUse'[gone] < lastUse'[kept]
    <3>1. lastUse'[kept] = lastUse[order[j]] /\ order[j] \in Resident
      BY <1>4, <1>7, <2>3
    <3>2. CASE gone \notin Resident
      BY <2>1, <3>1, <3>2 DEF RecencyInv, GoneUsedBeforeKept
    <3>3. CASE gone \in Resident
      <4>1. PICK g \in 1..n : gone = order[g]
        BY <1>4, <3>3
      <4>2. j < g
        BY <1>1, <1>6, <1>11, <2>3, <4>1
      <4> QED BY <2>1, <3>1, <4>1, <4>2 DEF RecencyInv, LatestUsedFirst
    <3> QED BY <3>2, <3>3
  <2> QED BY <1>10, <2>2, <2>3
<1>15. FullOnceEvicting'
  <2>1. CASE n + 1 > Capacity
    BY <1>3, <2>1 DEF FullOnceEvicting, Capacity
  <2>2. CASE ~(n + 1 > Capacity)
    <3>1. Used = Resident
      <4> HIDE DEF n
      <4>1. n + 1 <= Capacity
        BY <1>1, <2>2, CapacityNat
      <4>2. n # Capacity
        BY <1>1, <4>1, CapacityNat
      <4> QED BY <4>2, Zenon DEF n, RecencyInv, FullOnceEvicting
    <3>2. Resident \subseteq Resident'
      BY <1>1, <1>3, <1>4, <1>11, <2>2
    <3>3. Used' = Resident'
      BY <1>2, <1>4, <1>10, <1>12, <3>1, <3>2
    <3> QED BY <3>3 DEF FullOnceEvicting
  <2> QED BY <2>1, <2>2
<1> QED BY <1>2, <1>9, <1>13, <1>14, <1>15

-----------------------------------------------------------------------------
LEMMA RecencyInitInv == RecencyInit => RecencyInv
<1> SUFFICES ASSUME RecencyInit PROVE RecencyInv
  OBVIOUS
<1>1. CacheInv
  BY CacheInitInv DEF RecencyInit
<1>2. Resident = {} /\ Len(order) = 0
  BY DEF RecencyInit, CacheInit, Resident
<1>3. Used = {}
  BY DEF RecencyInit, Used
<1>4. UsesAreTimed
  BY <1>3, FS_EmptySet DEF RecencyInit, UsesAreTimed
<1>5. latest \in [Keys -> Values \cup {Absent}]
  BY DEF RecencyInit
<1> QED BY <1>1, <1>2, <1>3, <1>4, <1>5
        DEF RecencyInv, LatestUsedFirst, KeptAreUsed, GoneUsedBeforeKept, FullOnceEvicting,
            HitReturnsLatestValue

LEMMA UseHitKeepsRecency ==
  ASSUME RecencyInv, NEW k \in Keys, UseHit(k)
  PROVE  RecencyInv'
<1>1. k \in Resident /\ Resident' = Resident /\ entries' = entries /\ latest' = latest
  BY HitChangesNoEntry DEF UseHit, Hit
<1>2. CacheInv'
  BY HitKeepsInv DEF UseHit, RecencyInv
<1>3. order' = MoveToFront(order, PositionOf(order, k)) /\ Use(k)
  BY DEF UseHit, Hit
<1>4. UsesAreTimed' /\ LatestUsedFirst' /\ KeptAreUsed' /\ GoneUsedBeforeKept' /\ FullOnceEvicting'
  BY <1>1, <1>2, <1>3, TouchKeepsRecency
<1>5. HitReturnsLatestValue'
  BY <1>1 DEF RecencyInv, HitReturnsLatestValue
<1>6. latest' \in [Keys -> Values \cup {Absent}]
  BY <1>1 DEF RecencyInv
<1> QED BY <1>2, <1>4, <1>5, <1>6 DEF RecencyInv

LEMMA MissKeepsRecency ==
  ASSUME RecencyInv, UNCHANGED recencyVars
  PROVE  RecencyInv'
<1>1. CacheInv'
  BY UnchangedKeepsInv DEF recencyVars, cacheVars, RecencyInv
<1>2. Resident' = Resident /\ Used' = Used
  BY DEF recencyVars, Resident, Used
<1> QED BY <1>1, <1>2
        DEF recencyVars, RecencyInv, UsesAreTimed, LatestUsedFirst, KeptAreUsed, GoneUsedBeforeKept,
            FullOnceEvicting, HitReturnsLatestValue, Capacity

LEMMA UsePutKeepsRecency ==
  ASSUME RecencyInv, NEW k \in Keys, NEW v \in Values, UsePut(k, v)
  PROVE  RecencyInv'
<1>1. Put(k, v) /\ Use(k) /\ CacheInv
  BY DEF UsePut, RecencyInv
<1>2. CacheInv'
  BY <1>1, PutKeepsInv
<1>3. HitReturnsLatestValue'
  <2>1. \A q \in Resident' : \/ q = k /\ entries'[q] = v
                             \/ q \in Resident /\ entries'[q] = entries[q]
    BY <1>1, PutStoresOwnKey
  <2>2. \A q \in Resident' : latest'[q] = IF q = k THEN v ELSE latest[q]
    BY DEF UsePut, RecencyInv, Resident
  <2>3. k \in Resident' => entries'[k] = v
    <3>1. CASE Capacity = 0 /\ UNCHANGED cacheVars
      BY <1>1, <3>1, DisabledIsEmpty DEF cacheVars, Resident
    <3>2. CASE Replace(k, v)
      BY <3>2 DEF Replace, RecencyInv, CacheInv, CacheTypeOK
    <3>3. CASE Insert(k, v)
      BY <3>3 DEF Insert, OnlyListed, Resident, RecencyInv, CacheInv, CacheTypeOK
    <3> QED BY <1>1, <3>1, <3>2, <3>3 DEF Put
  <2> QED BY <2>1, <2>2, <2>3 DEF RecencyInv, HitReturnsLatestValue
<1>4. UsesAreTimed' /\ LatestUsedFirst' /\ KeptAreUsed' /\ GoneUsedBeforeKept' /\ FullOnceEvicting'
  <2>1. CASE Capacity = 0 /\ UNCHANGED cacheVars
    <3>1. Resident = {} /\ Resident' = {} /\ Len(order) = 0 /\ order' = order
      <4>1. Resident = {} /\ Resident' = Resident /\ order' = order
        BY <1>1, <2>1, DisabledIsEmpty DEF cacheVars, Resident
      <4>2. Len(order) \in Nat /\ Len(order) <= 0
        BY <1>1, <2>1, LenProperties DEF CacheInv, CacheTypeOK, ListMatchesMap
      <4> QED BY <4>1, <4>2
    <3>2. UsesAreTimed'
      BY <1>1, UseIsLatest DEF RecencyInv
    <3>3. FullOnceEvicting'
      BY <2>1, <3>1 DEF FullOnceEvicting, Capacity
    <3> QED BY <3>1, <3>2, <3>3 DEF LatestUsedFirst, KeptAreUsed, GoneUsedBeforeKept
  <2>2. CASE Capacity > 0 /\ Replace(k, v)
    <3>1. k \in Resident /\ Resident' = Resident
      BY <2>2, CacheAssumption DEF Replace, Resident, RecencyInv, CacheInv, CacheTypeOK
    <3> QED BY <1>1, <1>2, <2>2, <3>1, TouchKeepsRecency DEF Replace
  <2>3. CASE Capacity > 0 /\ Insert(k, v)
    BY <1>1, <1>2, <2>3, InsertKeepsRecency
  <2> QED BY <1>1, <2>1, <2>2, <2>3 DEF Put
<1>5. latest' \in [Keys -> Values \cup {Absent}]
  BY DEF UsePut, RecencyInv
<1> QED BY <1>2, <1>3, <1>4, <1>5 DEF RecencyInv

LEMMA RecencyInvariant == RecencySpec => []RecencyInv
<1>1. RecencyInv /\ [RecencyNext]_recencyVars => RecencyInv'
  <2> SUFFICES ASSUME RecencyInv, [RecencyNext]_recencyVars PROVE RecencyInv'
    OBVIOUS
  <2>1. ASSUME NEW k \in Keys, UseHit(k) PROVE RecencyInv'
    BY <2>1, UseHitKeepsRecency
  <2>2. ASSUME NEW k \in Keys, MissKey(k) PROVE RecencyInv'
    BY <2>2, MissKeepsRecency DEF MissKey, Miss, cacheVars, recencyVars
  <2>3. ASSUME NEW k \in Keys, NEW v \in Values, UsePut(k, v) PROVE RecencyInv'
    BY <2>3, UsePutKeepsRecency
  <2>4. CASE UNCHANGED recencyVars
    BY <2>4, MissKeepsRecency
  <2> QED BY <2>1, <2>2, <2>3, <2>4 DEF RecencyNext
<1> QED BY <1>1, RecencyInitInv, PTL DEF RecencySpec

-----------------------------------------------------------------------------
\* programCache keeps exactly the most recently used programs, and as many of
\* them as its capacity allows, whatever Gets and Puts it is given.
THEOREM MostRecentlyUsedKept == RecencySpec => []KeepsMostRecentlyUsed
<1>1. RecencyInv => KeepsMostRecentlyUsed
  <2> SUFFICES ASSUME RecencyInv PROVE KeepsMostRecentlyUsed
    OBVIOUS
  <2>1. IsFiniteSet(Resident) /\ Cardinality(Resident) = Len(order) /\ Len(order) <= Capacity
    BY AsManyAsListed DEF RecencyInv, CacheInv, ListMatchesMap
  <2>2. IsFiniteSet(Used) /\ Resident \subseteq Used
    BY DEF RecencyInv, UsesAreTimed, KeptAreUsed
  <2>3. /\ Cardinality(Used) \in Nat /\ Cardinality(Resident) \in Nat
        /\ Cardinality(Resident) <= Cardinality(Used)
    BY <2>1, <2>2, FS_CardinalityType, FS_Subset
  <2>4. Cardinality(Resident) = IF Cardinality(Used) > Capacity THEN Capacity ELSE Cardinality(Used)
    BY <2>1, <2>3, CapacityNat DEF RecencyInv, FullOnceEvicting
  <2> QED BY <2>2, <2>4 DEF RecencyInv, GoneUsedBeforeKept, KeepsMostRecentlyUsed
<1> QED BY <1>1, RecencyInvariant, PTL

\* A hit never returns anything but what was last put under its key.
THEOREM HitsAreLatest == RecencySpec => []HitReturnsLatestValue
BY RecencyInvariant, PTL DEF RecencyInv
=============================================================================

------------------------------ MODULE LruCache ------------------------------
(***************************************************************************)
(* The bounded least-recently-used cache of compiled programs              *)
(* (runtime/internal/runtime/program_cache.go; environment_cache.go holds  *)
(* the same structure for CEL environments).                               *)
(*                                                                         *)
(* The code keeps a map from keys to list elements and a doubly linked     *)
(* list, most recently used first.  Here `entries' is the map together     *)
(* with the values of its elements and `order' is the list.  Every method  *)
(* holds the cache's mutex from its first to its last access, so one call  *)
(* is one step.  The hit and miss counters are statistics nothing reads    *)
(* back and are left out.                                                  *)
(***************************************************************************)
EXTENDS Integers, Sequences

CONSTANTS
  Keys,               \* program keys: hashes of (environment JSON, source)
  Values,             \* compiled programs
  Absent,             \* "no such key in the map"
  ConfiguredCapacity  \* Limits.MaxCompiledPrograms, possibly negative

ASSUME CacheAssumption ==
  /\ Absent \notin Values
  /\ ConfiguredCapacity \in Int

\* newProgramCache turns a negative capacity into the disabled cache.
Capacity == IF ConfiguredCapacity < 0 THEN 0 ELSE ConfiguredCapacity

VARIABLES entries, order

cacheVars == <<entries, order>>

Resident == {k \in Keys : entries[k] # Absent}

-----------------------------------------------------------------------------
\* list.MoveToFront of the key at position i, and list.PushFront.
MoveToFront(list, i) ==
  [j \in 1..Len(list) |->
     IF j = 1 THEN list[i] ELSE IF j <= i THEN list[j - 1] ELSE list[j]]

PositionOf(list, k) == CHOOSE i \in 1..Len(list) : list[i] = k

PushFront(list, k) == <<k>> \o list

\* The eviction loop keeps the front of the list and drops the rest.
WithinCapacity(list) ==
  IF Len(list) > Capacity THEN SubSeq(list, 1, Capacity) ELSE list

OnlyListed(map, list) ==
  [k \in Keys |-> IF \E i \in 1..Len(list) : list[i] = k THEN map[k] ELSE Absent]

-----------------------------------------------------------------------------
CacheInit ==
  /\ entries = [k \in Keys |-> Absent]
  /\ order = << >>

\* Mutations of the steps below, as plausible slips of the code.
HitWithoutMove(k) ==
  /\ Capacity > 0
  /\ k \in Resident
  /\ UNCHANGED cacheVars

ReplaceKeepingOld(k, v) ==
  /\ k \in Resident
  /\ order' = MoveToFront(order, PositionOf(order, k))
  /\ UNCHANGED entries

InsertLeavingMapEntry(k, v) ==
  /\ k \notin Resident
  /\ order' = WithinCapacity(PushFront(order, k))
  /\ entries' = [entries EXCEPT ![k] = v]

InsertListingValue(k, v) ==
  /\ k \notin Resident
  /\ order' = WithinCapacity(PushFront(order, v))
  /\ entries' = [entries EXCEPT ![k] = v]

\* Get of a resident key: it becomes the most recently used one.
Hit(k) ==
  /\ Capacity > 0
  /\ k \in Resident
  /\ order' = MoveToFront(order, PositionOf(order, k))
  /\ UNCHANGED entries

\* Get of any other key, or of a disabled cache.
Miss(k) ==
  /\ Capacity = 0 \/ k \notin Resident
  /\ UNCHANGED cacheVars

\* Put of a key that is already there: new value, most recently used.
Replace(k, v) ==
  /\ k \in Resident
  /\ order' = MoveToFront(order, PositionOf(order, k))
  /\ entries' = [entries EXCEPT ![k] = v]

\* Put of a new key: pushed to the front, then the tail is evicted while the
\* list is longer than the capacity.
Insert(k, v) ==
  /\ k \notin Resident
  /\ order' = WithinCapacity(PushFront(order, k))
  /\ entries' = OnlyListed([entries EXCEPT ![k] = v], order')

Put(k, v) ==
  \/ Capacity = 0 /\ UNCHANGED cacheVars
  \/ Capacity > 0 /\ Replace(k, v)
  \/ Capacity > 0 /\ Insert(k, v)

CacheNext ==
  \E k \in Keys :
    \/ Hit(k)
    \/ Miss(k)
    \/ \E v \in Values : Put(k, v)

CacheSpec == CacheInit /\ [][CacheNext]_cacheVars

-----------------------------------------------------------------------------
\* The types of the cache's two variables.
CacheTypeOK ==
  /\ entries \in [Keys -> Values \cup {Absent}]
  /\ order \in Seq(Keys)

\* The list and the map describe the same set of keys: the list names no key
\* twice, names exactly the keys of the map, and is within the capacity.  A
\* list element left behind by an eviction, or a map entry whose element is
\* gone, is what Get and Put would corrupt memory use and recency with.
ListMatchesMap ==
  /\ \A i, j \in 1..Len(order) : order[i] = order[j] => i = j
  /\ Resident = {order[i] : i \in 1..Len(order)}
  /\ Len(order) <= Capacity

=============================================================================

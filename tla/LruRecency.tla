----------------------------- MODULE LruRecency -----------------------------
(***************************************************************************)
(* What LruCache promises, stated without its list: a clock that ticks on  *)
(* every hit and every put, the time each key was last used, and the value *)
(* last stored under it.  At any time the cache must hold exactly the most *)
(* recently used keys, as many as fit, each with its latest value.         *)
(***************************************************************************)
EXTENDS LruCache, FiniteSets

CONSTANT MaxUses   \* bound on the number of hits and puts of a behaviour

VARIABLES
  clock,     \* hits and puts so far
  lastUse,   \* [Keys -> time of the last hit or put, 0 when never used]
  latest     \* [Keys -> value of the last put]

recencyVars == <<entries, order, clock, lastUse, latest>>

RecencyInit ==
  /\ CacheInit
  /\ clock = 0
  /\ lastUse = [k \in Keys |-> 0]
  /\ latest = [k \in Keys |-> Absent]

Use(k) ==
  /\ clock < MaxUses
  /\ clock' = clock + 1
  /\ lastUse' = [lastUse EXCEPT ![k] = clock']

UseHit(k) == Hit(k) /\ Use(k) /\ UNCHANGED latest

UsePut(k, v) == Put(k, v) /\ Use(k) /\ latest' = [latest EXCEPT ![k] = v]

MissKey(k) == Miss(k) /\ UNCHANGED <<clock, lastUse, latest>>

RecencyNext ==
  \E k \in Keys :
    \/ UseHit(k)
    \/ MissKey(k)
    \/ \E v \in Values : UsePut(k, v)

RecencySpec == RecencyInit /\ [][RecencyNext]_recencyVars

-----------------------------------------------------------------------------
Used == {k \in Keys : lastUse[k] > 0}

\* programCache.Put evicts the tail and Get moves to the front, so that the
\* keys kept are exactly the Capacity most recently used ones (all of them
\* while they fit): no key out of the cache was used later than one in it.
KeepsMostRecentlyUsed ==
  /\ Resident \subseteq Used
  /\ \A kept \in Resident, gone \in Used \ Resident : lastUse[gone] < lastUse[kept]
  /\ Cardinality(Resident)
       = IF Cardinality(Used) > Capacity THEN Capacity ELSE Cardinality(Used)

\* A hit returns the value of the last Put of that key, across replacements,
\* evictions and re-insertions.
HitReturnsLatestValue == \A k \in Resident : entries[k] = latest[k]

=============================================================================

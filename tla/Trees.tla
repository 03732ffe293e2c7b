-------------------------------- MODULE Trees --------------------------------
(***************************************************************************)
(* What types, values and JSON documents have in common.  Each is a record *)
(* with a field "parts", a function from the names (indices, keys) of what *)
(* lies directly below it; a leaf has none.  The Go functions on them are  *)
(* recursive; here they are recursive functions on the nodes of a tree.    *)
(***************************************************************************)
EXTENDS Integers, Sequences, FiniteSets, SequencesExt

CONSTANT MaxNesting   \* encoding/json refuses whatever is nested deeper than this

ASSUME NestingAssumption == MaxNesting \in Nat

Kids(t) == Range(t.parts)

\* The nodes n levels below the root.
Level(t, n) ==
  LET level[m \in Nat] == IF m = 0 THEN {t} ELSE UNION {Kids(u) : u \in level[m - 1]}
  IN level[n]

\* A depth limit of n is exceeded.
Deeper(t, n) == Level(t, n + 1) # {}

Nodes(t) ==
  LET within[n \in Nat] ==
        IF n = 0 THEN {t}
        ELSE LET above == within[n - 1] IN above \cup UNION {Kids(u) : u \in above}
  IN within[MaxNesting]
=============================================================================

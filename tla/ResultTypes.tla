----------------------------- MODULE ResultTypes ----------------------------
(***************************************************************************)
(* The types a caller declares for its variables and expects of a result:  *)
(* internal/environment/decode.go and types.go, internal/celtype/celtype.go*)
(* and the two moments at which a result is held against one: statically,  *)
(* by the checker's type, and after the evaluation, by the value.          *)
(*                                                                         *)
(* A type is Go's TypeSpec: a name and what is nested in it, as a tree.    *)
(* The JSON a caller sends has the same shape, well formed or not, so a    *)
(* decoder is modelled by what it accepts.  A bare name in place of an     *)
(* object ("int") means the same as an object with nothing nested.         *)
(***************************************************************************)
EXTENDS Trees

CONSTANTS
  ScalarNames,    \* "int", "string", ...: every type name without parameters, "dyn" apart
  KeyNames,       \* the scalars that may key a declared map
  MaxTypeDepth    \* Limits.MaxTypeDepth

ASSUME TypesAssumption ==
  /\ KeyNames \subseteq ScalarNames
  /\ {"list", "map", "dyn"} \cap ScalarNames = {}
  /\ MaxTypeDepth \in Nat /\ MaxTypeDepth + 2 <= MaxNesting

Scalar(n) == [type |-> n, parts |-> <<>>]
Dyn == Scalar("dyn")
ListOf(t) == [type |-> "list", parts |-> [element |-> t]]
MapOf(k, v) == [type |-> "map", parts |-> [key |-> k, value |-> v]]

\* The parts each name calls for.
WellShaped(t) ==
  \/ t.type \in ScalarNames \cup {"dyn"} /\ DOMAIN t.parts = {}
  \/ t.type = "list" /\ DOMAIN t.parts = {"element"}
  \/ t.type = "map" /\ DOMAIN t.parts = {"key", "value"}

\* The rule for declared maps applied to expected types: a mutant of Expectable.
ExpectableKeys(t) == WellShaped(t) /\ (t.type = "map" => t.parts["key"].type \in KeyNames)

\* celtype.fromRef: any well-shaped type may be expected of a result.  Its only
\* bound is that of the JSON decoder.
Expectable(t) == ~Deeper(t, MaxNesting) /\ \A u \in Nodes(t) : WellShaped(u)

\* environment.decodeType: a variable's type is bounded in depth, which is
\* counted from 1, and in what keys a map.
Declarable(t) ==
  /\ Level(t, MaxTypeDepth) = {}
  /\ \A u \in Nodes(t) :
       WellShaped(u) /\ (u.type = "map" => u.parts["key"].type \in KeyNames)

\* celtype.FromCEL on a type of the checker, which has kinds (type, optional
\* and opaque types) that the wire has no name for.
FromCEL(t) ==
  LET spec[u \in Nodes(t)] ==
        IF ~WellShaped(u) THEN Dyn
        ELSE [type |-> u.type, parts |-> [p \in DOMAIN u.parts |-> spec[u.parts[p]]]]
  IN spec[t]

ContainsDyn(t) == \E u \in Nodes(t) : u.type = "dyn"

Assignable(actual, expected) ==
  LET assignable[e \in Nodes(expected)] == [a \in Nodes(actual) |->
        \/ e.type = "dyn"
        \/ /\ a.type = e.type
           /\ \A p \in DOMAIN e.parts :
                IF p \in DOMAIN a.parts THEN assignable[e.parts[p]][a.parts[p]]
                ELSE e.parts[p].type = "dyn"]
  IN assignable[expected][actual]

\* Element types are not compared: a mutant of Compatible.
CompatibleNames(actual, expected) ==
  expected.type = "dyn" \/ ContainsDyn(actual) \/ actual.type = expected.type

\* The first result of celtype.Compatible; its callers ignore the second.
Compatible(actual, expected) ==
  expected.type = "dyn" \/ ContainsDyn(actual) \/ Assignable(actual, expected)

\* The outer kind; all that there is to compare of a map's key.  As a whole, a
\* mutant of MatchesValue.
MatchesKind(expected, value) == expected.type \in {"dyn", value.kind}

MatchesValue(expected, value) ==
  LET matches[e \in Nodes(expected)] == [v \in Nodes(value) |->
        \/ e.type = "dyn"
        \/ /\ e.type = v.kind
           /\ v.kind = "list" => \A i \in DOMAIN v.parts : matches[e.parts["element"]][v.parts[i]]
           /\ v.kind = "map" =>
                \A k \in DOMAIN v.parts :
                  MatchesKind(e.parts["key"], k) /\ matches[e.parts["value"]][v.parts[k]]]
  IN matches[expected][value]
=============================================================================

---------------------------- MODULE RuntimeGate ----------------------------
(***************************************************************************)
(* What Runtime's begin, end and Close promise: operations are let in only *)
(* while the runtime is open, it is shut once and for good, and what it    *)
(* holds is cleared only when every operation that was let in has left.    *)
(***************************************************************************)
CONSTANT Operations

VARIABLES
  phase,    \* "open", "shut" (closed is set), "cleared"
  running   \* operations let in and not yet out

gateVars == <<phase, running>>

Init == phase = "open" /\ running = {}

Admit(o) ==
  /\ phase = "open"
  /\ o \notin running
  /\ running' = running \cup {o}
  /\ UNCHANGED phase

Leave(o) ==
  /\ o \in running
  /\ running' = running \ {o}
  /\ UNCHANGED phase

Shut ==
  /\ phase = "open"
  /\ phase' = "shut"
  /\ UNCHANGED running

Clear ==
  /\ phase = "shut"
  /\ running = {}
  /\ phase' = "cleared"
  /\ UNCHANGED running

Next == Shut \/ Clear \/ \E o \in Operations : Admit(o) \/ Leave(o)

Spec == Init /\ [][Next]_gateVars

=============================================================================

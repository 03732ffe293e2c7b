--------------------------- MODULE ProgramService ---------------------------
(***************************************************************************)
(* What Runtime.getOrCompile promises its callers, without the cache's     *)
(* list, the flight table or its calls: a request for a key is answered    *)
(* with what the key compiles to, a key is never compiled twice at a time  *)
(* nor while its program is kept, and at most Capacity programs are kept.  *)
(***************************************************************************)
EXTENDS Integers, FiniteSets

CONSTANTS Keys, Callers, Values, Compiled, CompileError, InternalError, Nothing,
          NoKey, Panicking, Capacity

VARIABLES
  asked,   \* [Callers -> the key requested and not yet answered, or NoKey]
  answer,  \* [Callers -> the last answer, Nothing while a request is open]
  busy,    \* keys being compiled
  kept     \* keys whose program is kept

serviceVars == <<asked, answer, busy, kept>>

Init ==
  /\ asked = [c \in Callers |-> NoKey]
  /\ answer = [c \in Callers |-> Nothing]
  /\ busy = {}
  /\ kept = {}

Request(c, k) ==
  /\ asked[c] = NoKey
  /\ asked' = [asked EXCEPT ![c] = k]
  /\ answer' = [answer EXCEPT ![c] = Nothing]
  /\ UNCHANGED <<busy, kept>>

\* A kept program is returned at once.
Reuse(c, k) ==
  /\ asked[c] = NoKey
  /\ k \in kept
  /\ answer' = [answer EXCEPT ![c] = Compiled[k]]
  /\ UNCHANGED <<asked, busy, kept>>

Start(k) ==
  /\ k \notin busy \cup kept
  /\ \E c \in Callers : asked[c] = k
  /\ busy' = busy \cup {k}
  /\ UNCHANGED <<asked, answer, kept>>

\* A program is kept if anything is, and may push out others.
Succeed(k) ==
  /\ k \in busy
  /\ Compiled[k] # CompileError
  /\ busy' = busy \ {k}
  /\ kept' \subseteq kept \cup {k}
  /\ Capacity > 0 => k \in kept'
  /\ Cardinality(kept') <= Capacity
  /\ UNCHANGED <<asked, answer>>

Fail(k) ==
  /\ k \in busy
  /\ Compiled[k] = CompileError
  /\ busy' = busy \ {k}
  /\ UNCHANGED <<asked, answer, kept>>

Answer(c) ==
  /\ asked[c] # NoKey
  /\ asked' = [asked EXCEPT ![c] = NoKey]
  /\ answer' = [answer EXCEPT ![c] = Compiled[asked[c]]]
  /\ UNCHANGED <<busy, kept>>

\* A panicking compilation ends with an internal error for one caller.
Panic(c) ==
  /\ asked[c] \in busy \cap Panicking
  /\ asked' = [asked EXCEPT ![c] = NoKey]
  /\ answer' = [answer EXCEPT ![c] = InternalError]
  /\ busy' = busy \ {asked[c]}
  /\ UNCHANGED kept

Next ==
  \/ \E c \in Callers : Answer(c) \/ Panic(c) \/ \E k \in Keys : Request(c, k) \/ Reuse(c, k)
  \/ \E k \in Keys : Start(k) \/ Succeed(k) \/ Fail(k)

Spec == Init /\ [][Next]_serviceVars

=============================================================================

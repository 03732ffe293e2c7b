----------------------------- MODULE Lifecycle -----------------------------
(***************************************************************************)
(* Admission and disposal of one Runtime: begin, end and Close             *)
(* (runtime/internal/runtime/runtime.go, prepared.go).                     *)
(*                                                                         *)
(* Operations and closers are goroutines: cel_bridge_* calls arrive on     *)
(* whatever threads the host program has.  Each atomic access (closed.Load, *)
(* closed.Swap, one access to the WaitGroup) is one step; what an admitted *)
(* operation does between begin and end is opaque here, its own recovered  *)
(* panics included, because end runs in every case.                        *)
(***************************************************************************)
EXTENDS WaitGroup, FiniteSets

CONSTANTS
  Operations,  \* goroutines that run one operation after another
  Closers      \* goroutines that call Close

ASSUME LifecycleAssumption == IsFiniteSet(Operations)

VARIABLES
  closed,       \* Runtime.closed
  cleared,      \* Close has run prepared.clear()
  pc, answer,   \* [Operations -> ...]: where it is, what it will return or returned
  cpc, closing, \* [Closers -> ...]: the same for Close
  raced         \* history: when closed was set, some operation had made its first
                \* check but not yet its Add

opVars == <<pc, answer>>
closerVars == <<cpc, closing>>
vars == <<counter, waiters, tokens, closed, cleared, pc, answer, cpc, closing, raced>>

\* `own' is whatever the operation itself has to say.
Answers == {"none", "own", "runtime_closed", "internal_error"}

OpSteps == {"idle", "enter", "recheck", "body", "leave", "bail", "settle", "wake"}
CloserSteps == {"idle", "drain", "asleep", "awake", "clear"}

\* Operations that begin has let in and end has not let out.
Running == {o \in Operations : pc[o] \in {"body", "leave"}}

\* Operations that hold one count of the WaitGroup.
Counted == {o \in Operations : pc[o] \in {"recheck", "body", "leave", "bail"}}

Goto(o, from, to) == pc[o] = from /\ pc' = [pc EXCEPT ![o] = to]
Say(o, what) == answer' = [answer EXCEPT ![o] = what]
CloserGoto(c, from, to) == cpc[c] = from /\ cpc' = [cpc EXCEPT ![c] = to]
CloserSay(c, what) == closing' = [closing EXCEPT ![c] = what]

-----------------------------------------------------------------------------
Init ==
  /\ GroupInit
  /\ closed = FALSE
  /\ cleared = FALSE
  /\ pc = [o \in Operations |-> "idle"]
  /\ answer = [o \in Operations |-> "none"]
  /\ cpc = [c \in Closers |-> "idle"]
  /\ closing = [c \in Closers |-> "none"]
  /\ raced = FALSE

\* Mutations of the definitions below, as plausible slips of the code.
RefuseThenEnd(o) ==
  /\ closed
  /\ Goto(o, "idle", "leave")
  /\ Say(o, "runtime_closed")
  /\ UNCHANGED <<groupVars, closed, cleared, closerVars, raced>>

AdmitUnchecked(o) ==
  /\ Goto(o, "recheck", "body")
  /\ UNCHANGED <<groupVars, closed, cleared, answer, closerVars, raced>>

DeclineCounted(o) ==
  /\ closed
  /\ Goto(o, "recheck", "idle")
  /\ Say(o, "runtime_closed")
  /\ UNCHANGED <<groupVars, closed, cleared, closerVars, raced>>

DrainSkipped(c) ==
  /\ CloserGoto(c, "drain", "clear")
  /\ UNCHANGED <<groupVars, closed, cleared, opVars, closing, raced>>

AwakenUnreleased(c) ==
  /\ CloserGoto(c, "asleep", "awake")
  /\ tokens' = tokens - 1
  /\ UNCHANGED <<counter, waiters, closed, cleared, opVars, closing, raced>>

\* begin, first check.
Refuse(o) ==
  /\ closed
  /\ Goto(o, "idle", "idle")
  /\ Say(o, "runtime_closed")
  /\ UNCHANGED <<groupVars, closed, cleared, closerVars, raced>>

Start(o) ==
  /\ ~closed
  /\ Goto(o, "idle", "enter")
  /\ Say(o, "none")
  /\ UNCHANGED <<groupVars, closed, cleared, closerVars, raced>>

\* begin, inflight.Add(1).  If it panics, the operation has not yet deferred
\* end: it answers internal_error and its count stays.
Enter(o) ==
  /\ Goto(o, "enter", "recheck")
  /\ AddOne
  /\ UNCHANGED <<closed, cleared, answer, closerVars, raced>>

EnterPanics(o) ==
  /\ Goto(o, "enter", "idle")
  /\ AddOnePanics
  /\ Say(o, "internal_error")
  /\ UNCHANGED <<closed, cleared, closerVars, raced>>

\* begin, second check.
Admit(o) ==
  /\ ~closed
  /\ Goto(o, "recheck", "body")
  /\ UNCHANGED <<groupVars, closed, cleared, answer, closerVars, raced>>

Decline(o) ==
  /\ closed
  /\ Goto(o, "recheck", "bail")
  /\ Say(o, "runtime_closed")
  /\ UNCHANGED <<groupVars, closed, cleared, closerVars, raced>>

Work(o) ==
  /\ Goto(o, "body", "leave")
  /\ Say(o, "own")
  /\ UNCHANGED <<groupVars, closed, cleared, closerVars, raced>>

\* end, or the Done of the second check: inflight.Done().
Leave(o) ==
  /\ \/ Goto(o, "leave", "idle")
     \/ Goto(o, "bail", "idle")
  /\ DoneQuietly
  /\ UNCHANGED <<closed, cleared, answer, closerVars, raced>>

LeavePanics(o) ==
  /\ \/ Goto(o, "leave", "idle")
     \/ Goto(o, "bail", "idle")
  /\ DonePanics
  /\ Say(o, "internal_error")
  /\ UNCHANGED <<closed, cleared, closerVars, raced>>

LeaveLast(o) ==
  /\ \/ Goto(o, "leave", "settle")
     \/ Goto(o, "bail", "settle")
  /\ DoneLast
  /\ UNCHANGED <<closed, cleared, answer, closerVars, raced>>

Settle(o) ==
  /\ Goto(o, "settle", "wake")
  /\ StillSettled
  /\ UNCHANGED <<groupVars, closed, cleared, answer, closerVars, raced>>

SettlePanics(o) ==
  /\ Goto(o, "settle", "idle")
  /\ ~StillSettled
  /\ Say(o, "internal_error")
  /\ UNCHANGED <<groupVars, closed, cleared, closerVars, raced>>

Wake(o) ==
  /\ Goto(o, "wake", "idle")
  /\ Release
  /\ UNCHANGED <<closed, cleared, answer, closerVars, raced>>

-----------------------------------------------------------------------------
\* Close, closed.Swap(true): only the first one goes on.
CloseFirst(c) ==
  /\ ~closed
  /\ CloserGoto(c, "idle", "drain")
  /\ closed' = TRUE
  /\ CloserSay(c, "none")
  /\ raced' = \E o \in Operations : pc[o] = "enter"
  /\ UNCHANGED <<groupVars, cleared, opVars>>

CloseAgain(c) ==
  /\ closed
  /\ CloserGoto(c, "idle", "idle")
  /\ CloserSay(c, "closed")
  /\ UNCHANGED <<groupVars, closed, cleared, opVars, raced>>

\* Close, inflight.Wait().
Drain(c) ==
  /\ CloserGoto(c, "drain", "clear")
  /\ WaitPasses
  /\ UNCHANGED <<closed, cleared, opVars, closing, raced>>

DrainSleeps(c) ==
  /\ CloserGoto(c, "drain", "asleep")
  /\ WaitSleeps
  /\ UNCHANGED <<closed, cleared, opVars, closing, raced>>

Awaken(c) ==
  /\ CloserGoto(c, "asleep", "awake")
  /\ TakeToken
  /\ UNCHANGED <<closed, cleared, opVars, closing, raced>>

Drained(c) ==
  /\ CloserGoto(c, "awake", "clear")
  /\ ~Reused
  /\ UNCHANGED <<groupVars, closed, cleared, opVars, closing, raced>>

DrainPanics(c) ==
  /\ CloserGoto(c, "awake", "idle")
  /\ Reused
  /\ CloserSay(c, "internal_error")
  /\ UNCHANGED <<groupVars, closed, cleared, opVars, raced>>

\* Close, prepared.clear() and the answer.
Clear(c) ==
  /\ CloserGoto(c, "clear", "idle")
  /\ cleared' = TRUE
  /\ CloserSay(c, "closed")
  /\ UNCHANGED <<groupVars, closed, opVars, raced>>

-----------------------------------------------------------------------------
OpStep(o) ==
  \/ Enter(o) \/ EnterPanics(o) \/ Admit(o) \/ Decline(o) \/ Work(o)
  \/ Leave(o) \/ LeavePanics(o) \/ LeaveLast(o)
  \/ Settle(o) \/ SettlePanics(o) \/ Wake(o)

CloseStep(c) ==
  \/ Drain(c) \/ DrainSleeps(c) \/ Awaken(c) \/ Drained(c) \/ DrainPanics(c) \/ Clear(c)

Next ==
  \/ \E o \in Operations : Refuse(o) \/ Start(o) \/ OpStep(o)
  \/ \E c \in Closers : CloseFirst(c) \/ CloseAgain(c) \/ CloseStep(c)

\* Nobody has to call; a goroutine that is inside a call and can run does run.
Spec ==
  /\ Init /\ [][Next]_vars
  /\ \A o \in Operations : WF_vars(OpStep(o))
  /\ \A c \in Closers : WF_vars(CloseStep(c))

-----------------------------------------------------------------------------
\* The types of the admission protocol's variables.
TypeOK ==
  /\ counter \in Int
  /\ waiters \in Nat
  /\ tokens \in Nat
  /\ closed \in BOOLEAN
  /\ cleared \in BOOLEAN
  /\ raced \in BOOLEAN
  /\ pc \in [Operations -> OpSteps]
  /\ answer \in [Operations -> Answers]
  /\ cpc \in [Closers -> CloserSteps]
  /\ closing \in [Closers -> {"none", "closed", "internal_error"}]

\* Close clears the prepared programs only after every admitted operation has
\* left, whatever the races on the WaitGroup: no operation works on a store
\* that is being, or has been, cleared.
DrainedBeforeClear ==
  cleared \/ (\E c \in Closers : cpc[c] = "clear") => Running = {}

\* The WaitGroup is misused (and answers become internal errors) only when an
\* operation was between its first check and its Add as Close set `closed'.
MisuseOnlyWhenRaced ==
  /\ \A o \in Operations : answer[o] = "internal_error" => raced
  /\ \A c \in Closers : closing[c] = "internal_error" => raced

\* Without that race Close never hangs: its drain ends and it returns.
CloseReturnsUnlessRaced ==
  \A c \in Closers : cpc[c] # "idle" /\ ~raced ~> cpc[c] = "idle"

\* protocol/README.md: "Every native and Wasm operation returns an object":
\* Close returns.
CloseReturns == \A c \in Closers : cpc[c] # "idle" ~> cpc[c] = "idle"

\* begin, end and Close implement the gate of RuntimeGate.
Gate ==
  INSTANCE RuntimeGate WITH
    phase <- IF cleared THEN "cleared" ELSE IF closed THEN "shut" ELSE "open",
    running <- Running

GateSpec == Gate!Spec

=============================================================================

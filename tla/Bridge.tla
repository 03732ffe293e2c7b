------------------------------- MODULE Bridge -------------------------------
(***************************************************************************)
(* The process-wide bridge (runtime/celbridge/celbridge.go): the current   *)
(* Runtime behind defaultMu, the operations that fetch it and run on it,   *)
(* cel_bridge_create, which installs another one and disposes the one it   *)
(* replaces, cel_bridge_close, and the store of prepared programs of each  *)
(* Runtime (runtime/internal/runtime/prepared.go).                         *)
(*                                                                         *)
(* Runtimes are numbered in the order they are installed.  A Runtime's     *)
(* begin, end and Close are the steps of RuntimeGate, which Lifecycle      *)
(* implements, and its Close fails to drain exactly when Lifecycle's may:  *)
(* when an operation was on its way in as it set `closed'.  Store methods  *)
(* hold the store's mutex and are one step.                                *)
(* A client uses ids it was given by a prepare that succeeded.             *)
(***************************************************************************)
EXTENDS Integers, Sequences, FiniteSets

CONSTANTS
  Clients,          \* goroutines in operations
  Admins,           \* goroutines in cel_bridge_create and cel_bridge_close
  Absent,           \* no such id in the map; no program
  PreparedCapacity, \* Limits.MaxPreparedPrograms
  MaxRuntimes,      \* bound on the runtimes of a behaviour
  MaxIds            \* bound on the ids a runtime issues

ASSUME BridgeAssumption ==
  /\ IsFiniteSet(Clients)
  /\ PreparedCapacity \in Int
  /\ MaxRuntimes \in Nat \ {0}
  /\ MaxIds \in Nat
  /\ Absent \notin [by : 1..MaxRuntimes, nth : 1..MaxIds]

Runtimes == 1..MaxRuntimes
Ids == 1..MaxIds   \* "prg_<n>"

\* The program of the nth prepare on a runtime; each prepare makes its own.
Programs == [by : Runtimes, nth : Ids]

VARIABLES
  current, newest,  \* defaultRuntime; runtimes installed so far
  phase,            \* [Runtimes -> "open", "shut" (closed is set), "cleared"]
  raced,            \* history: [Runtimes -> an operation was on its way in when it was shut]
  items, next,      \* preparedStore of each runtime: its map, its id counter
  issued,           \* history: [Runtimes -> the id each prepare was answered with]
  pc, rt, request, held,  \* [Clients -> ...]
  apc, target                     \* [Admins -> ...]

storeVars == <<items, next, issued>>
clientVars == <<pc, rt, request, held>>
adminVars == <<apc, target>>
vars == <<current, newest, phase, raced, storeVars, clientVars, adminVars>>

\* A client uses the id that the nth prepare on a runtime was answered with.
Requests ==
  [op : {"prepare"}] \cup [op : {"evaluateProgram", "releaseProgram"}, from : Runtimes, nth : Ids]

IdIn(q) == issued[q.from][q.nth]

Known(r) == {k \in Ids : items[r][k] # Absent}

Inside == {"work", "run"}
Running(r) == {o \in Clients : pc[o] \in Inside /\ rt[o] = r}

Goto(o, from, to) == pc[o] = from /\ pc' = [pc EXCEPT ![o] = to]
AdminGoto(a, from, to) == apc[a] = from /\ apc' = [apc EXCEPT ![a] = to]

Nothing == [op |-> "none"]

\* The call returns and its variables are gone.
Return(o, from) ==
  /\ Goto(o, from, "idle")
  /\ rt' = [rt EXCEPT ![o] = 1]
  /\ request' = [request EXCEPT ![o] = Nothing]
  /\ held' = [held EXCEPT ![o] = Absent]

AdminReturn(a, from) ==
  /\ AdminGoto(a, from, "idle")
  /\ target' = [target EXCEPT ![a] = 1]

-----------------------------------------------------------------------------
Init ==
  /\ current = 1 /\ newest = 1
  /\ phase = [r \in Runtimes |-> "open"]
  /\ raced = [r \in Runtimes |-> FALSE]
  /\ items = [r \in Runtimes |-> [k \in Ids |-> Absent]]
  /\ next = [r \in Runtimes |-> 0]
  /\ issued = [r \in Runtimes |-> << >>]
  /\ pc = [o \in Clients |-> "idle"]
  /\ rt = [o \in Clients |-> 1]
  /\ request = [o \in Clients |-> Nothing]
  /\ held = [o \in Clients |-> Absent]
  /\ apc = [a \in Admins |-> "idle"]
  /\ target = [a \in Admins |-> 1]

\* Mutations of the definitions below, as plausible slips of the code.
ReusedId(r) == Cardinality(Known(r)) + 1

ZeroBasedId(r) == next[r]

CheckPreviousInverted(a) ==
  /\ \/ phase[target[a]] # "open" /\ AdminGoto(a, "check", "close") /\ UNCHANGED target
     \/ phase[target[a]] = "open" /\ AdminReturn(a, "check")
  /\ UNCHANGED <<current, newest, phase, raced, storeVars, clientVars>>

ClearUndrained(a) ==
  /\ AdminReturn(a, "drain")
  /\ phase' = [phase EXCEPT ![target[a]] = "cleared"]
  /\ items' = [items EXCEPT ![target[a]] = [k \in Ids |-> Absent]]
  /\ UNCHANGED <<current, newest, raced, next, issued, clientVars>>

\* The prepares on their way leave one of the MaxIds ids for another one.
Preparing(r) ==
  {o \in Clients : rt[o] = r /\ request[o].op = "prepare" /\ pc[o] \in {"begin", "work"}}

WithinIdBound(r) == next[r] + Cardinality(Preparing(r)) < MaxIds

\* The call: currentRuntime() under defaultMu.
Fetch(o, q) ==
  /\ Goto(o, "idle", "begin")
  /\ IF q.op = "prepare" THEN WithinIdBound(current) ELSE q.nth <= Len(issued[q.from])
  /\ rt' = [rt EXCEPT ![o] = current]
  /\ request' = [request EXCEPT ![o] = q]
  /\ UNCHANGED <<current, newest, phase, raced, storeVars, held, adminVars>>

Begin(o) ==
  /\ phase[rt[o]] = "open"
  /\ Goto(o, "begin", "work")
  /\ UNCHANGED <<current, newest, phase, raced, storeVars, rt, request, held, adminVars>>

Refuse(o) ==
  /\ phase[rt[o]] # "open"
  /\ Return(o, "begin")
  /\ UNCHANGED <<current, newest, phase, raced, storeVars, adminVars>>

\* The options, the source, the environment or the compilation are refused
\* before the store is asked.  An operation without a program id (validate,
\* evaluate, evaluateMany) touches the bridge in no other way than this.
Reject(o) ==
  /\ Goto(o, "work", "run")
  /\ request[o].op \in {"prepare", "evaluateProgram"}
  /\ UNCHANGED <<current, newest, phase, raced, storeVars, rt, request, held, adminVars>>

\* preparedStore.put
Full(r) == PreparedCapacity <= 0 \/ Cardinality(Known(r)) >= PreparedCapacity

NewId(r) == next[r] + 1

PrepareFull(o) ==
  /\ Goto(o, "work", "run")
  /\ request[o].op = "prepare"
  /\ Full(rt[o])
  /\ UNCHANGED <<current, newest, phase, raced, storeVars, rt, request, held, adminVars>>

Prepare(o) ==
  LET r == rt[o] IN
  /\ Goto(o, "work", "run")
  /\ request[o].op = "prepare"
  /\ ~Full(r)
  /\ next' = [next EXCEPT ![r] = @ + 1]
  /\ items' = [items EXCEPT ![r][NewId(r)] = [by |-> r, nth |-> Len(issued[r]) + 1]]
  /\ issued' = [issued EXCEPT ![r] = Append(@, NewId(r))]
  /\ UNCHANGED <<current, newest, phase, raced, rt, request, held, adminVars>>

\* preparedStore.get keeps a pointer to the program; Eval runs on it after
\* the store has been left, up to the end of the operation.
FindProgram(o) ==
  /\ Goto(o, "work", "run")
  /\ request[o].op = "evaluateProgram"
  /\ IdIn(request[o]) \in Known(rt[o])
  /\ held' = [held EXCEPT ![o] = items[rt[o]][IdIn(request[o])]]
  /\ UNCHANGED <<current, newest, phase, raced, storeVars, rt, request, adminVars>>

\* preparedStore.release
ReleaseProgram(o) ==
  /\ Goto(o, "work", "run")
  /\ request[o].op = "releaseProgram"
  /\ IdIn(request[o]) \in Known(rt[o])
  /\ items' = [items EXCEPT ![rt[o]][IdIn(request[o])] = Absent]
  /\ UNCHANGED <<current, newest, phase, raced, next, issued, rt, request, held, adminVars>>

NotFound(o) ==
  /\ Goto(o, "work", "run")
  /\ request[o].op \in {"evaluateProgram", "releaseProgram"}
  /\ IdIn(request[o]) \notin Known(rt[o])
  /\ UNCHANGED <<current, newest, phase, raced, storeVars, rt, request, held, adminVars>>

End(o) ==
  /\ Return(o, "run")
  /\ UNCHANGED <<current, newest, phase, raced, storeVars, adminVars>>

-----------------------------------------------------------------------------
\* Create with valid options: a new runtime replaces the current one ...
Replace(a) ==
  /\ newest < MaxRuntimes
  /\ AdminGoto(a, "idle", "check")
  /\ newest' = newest + 1
  /\ current' = newest'
  /\ target' = [target EXCEPT ![a] = current]
  /\ UNCHANGED <<phase, raced, storeVars, clientVars>>

\* ... which is closed unless somebody has closed it: previous.Closed().
CheckPrevious(a) ==
  /\ \/ phase[target[a]] = "open" /\ AdminGoto(a, "check", "close") /\ UNCHANGED target
     \/ phase[target[a]] # "open" /\ AdminReturn(a, "check")
  /\ UNCHANGED <<current, newest, phase, raced, storeVars, clientVars>>

\* cel_bridge_close fetches the current runtime.
FetchToClose(a) ==
  /\ AdminGoto(a, "idle", "close")
  /\ target' = [target EXCEPT ![a] = current]
  /\ UNCHANGED <<current, newest, phase, raced, storeVars, clientVars>>

\* Runtime.Close on the target: the first to set `closed' drains and clears.
Shut(a) ==
  /\ AdminGoto(a, "close", "drain")
  /\ phase[target[a]] = "open"
  /\ phase' = [phase EXCEPT ![target[a]] = "shut"]
  /\ raced' = [raced EXCEPT ![target[a]] =
                 \E o \in Clients : pc[o] = "begin" /\ rt[o] = target[a]]
  /\ UNCHANGED <<current, newest, storeVars, clientVars, target>>

ShutAlready(a) ==
  /\ AdminReturn(a, "close")
  /\ phase[target[a]] # "open"
  /\ UNCHANGED <<current, newest, phase, raced, storeVars, clientVars>>

Clear(a) ==
  /\ AdminReturn(a, "drain")
  /\ Running(target[a]) = {}
  /\ phase' = [phase EXCEPT ![target[a]] = "cleared"]
  /\ items' = [items EXCEPT ![target[a]] = [k \in Ids |-> Absent]]
  /\ UNCHANGED <<current, newest, raced, next, issued, clientVars>>

\* The drain of a raced Close may panic, which is answered internal_error.
DrainPanics(a) ==
  /\ AdminReturn(a, "drain")
  /\ raced[target[a]]
  /\ UNCHANGED <<current, newest, phase, raced, storeVars, clientVars>>

-----------------------------------------------------------------------------
OpStep(o) ==
  \/ Begin(o) \/ Refuse(o)
  \/ Reject(o) \/ PrepareFull(o) \/ Prepare(o) \/ FindProgram(o)
  \/ ReleaseProgram(o) \/ NotFound(o)
  \/ End(o)

AdminStep(a) == CheckPrevious(a) \/ Shut(a) \/ ShutAlready(a) \/ Clear(a) \/ DrainPanics(a)

Next ==
  \/ \E o \in Clients : OpStep(o) \/ \E q \in Requests : Fetch(o, q)
  \/ \E a \in Admins : AdminStep(a) \/ Replace(a) \/ FetchToClose(a)

\* A goroutine inside a call runs on, but a raced drain may never end.
Spec ==
  /\ Init /\ [][Next]_vars
  /\ \A o \in Clients : WF_vars(OpStep(o))
  /\ \A a \in Admins : WF_vars(AdminStep(a) /\ ~raced[target[a]])

-----------------------------------------------------------------------------
\* The types of the bridge's variables.
TypeOK ==
  /\ current \in Runtimes /\ newest \in Runtimes
  /\ phase \in [Runtimes -> {"open", "shut", "cleared"}]
  /\ raced \in [Runtimes -> BOOLEAN]
  /\ items \in [Runtimes -> [Ids -> Programs \cup {Absent}]]
  /\ next \in [Runtimes -> 0..MaxIds]
  /\ issued \in [Runtimes -> Seq(Ids)]
  /\ pc \in [Clients -> {"idle", "begin"} \cup Inside]
  /\ rt \in [Clients -> Runtimes]
  /\ request \in [Clients -> Requests \cup {Nothing}]
  /\ held \in [Clients -> Programs \cup {Absent}]
  /\ apc \in [Admins -> {"idle", "check", "close", "drain"}]
  /\ target \in [Admins -> Runtimes]

\* A runtime that was replaced never stays open with nobody to close it: as
\* long as it is open, the Create that replaced it is on its way there.
ReplacedIsBeingClosed ==
  \A r \in Runtimes : r < current /\ phase[r] = "open" =>
    \E a \in Admins : target[a] = r /\ apc[a] \in {"check", "close"}

\* A cleared runtime holds no program and nothing runs on it, so what was
\* prepared on it cannot come back (an operation may still hold a pointer to
\* the runtime: it is refused).
ClearedStaysEmpty ==
  \A r \in Runtimes : phase[r] = "cleared" => Known(r) = {} /\ Running(r) = {}

\* An id evaluates the very program it was issued for on the runtime that
\* issued it, however many prepares and releases run at the same time.
IdNamesItsProgram ==
  \A o \in Clients : held[o] # Absent /\ request[o].from = rt[o] =>
    held[o] = [by |-> rt[o], nth |-> request[o].nth]

\* protocol/README.md: "Unknown ids return `program_not_found`": a runtime
\* evaluates only ids that it has issued.
OnlyOwnIds ==
  \A o \in Clients : held[o] # Absent => request[o].from = rt[o]

\* Every runtime that was replaced or closed is eventually drained and
\* cleared, so its programs do not pile up in the process; only a Close that
\* raced with an operation on its way in may fail to.
DisposedIsCleared ==
  \A r \in Runtimes :
    r < current \/ phase[r] = "shut" ~> phase[r] = "cleared" \/ raced[r]

-----------------------------------------------------------------------------
Gate(r) ==
  INSTANCE RuntimeGate WITH Operations <- Clients, phase <- phase[r], running <- Running(r)

\* However creates and closes of the process overlap, each runtime by itself is
\* the gate that Lifecycle implements: shut once, cleared when nobody is left.
GatesHold == \A r \in Runtimes : Gate(r)!Spec

=============================================================================

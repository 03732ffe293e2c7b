--------------------------- MODULE CompileFlight ---------------------------
(***************************************************************************)
(* Runtime.getOrCompile: the program cache in front of the single-flight   *)
(* table (runtime/internal/runtime/runtime.go, flight.go).                 *)
(*                                                                         *)
(* A caller is a goroutine inside an operation of the runtime; it asks for *)
(* one program after another.  Every critical section of a mutex is one    *)
(* step, together with the caller's own work around it; the compilation    *)
(* itself runs outside every lock, between `compile' and the next step.  A *)
(* call object (compileCall) is reached by pointer: the table's and the    *)
(* one each waiter keeps after it has left the lock, so a call outlives    *)
(* its table entry.  Calls come from a finite pool and a call nothing      *)
(* points to is free again, as the garbage collector makes it.             *)
(***************************************************************************)
EXTENDS LruCache

CONSTANTS
  Callers,       \* goroutines
  Calls,         \* pool of call objects
  NoCall,        \* nil pointer to a call
  NoKey,         \* a caller that has not asked for anything yet
  Compiled,      \* [Keys -> what cel-go makes of the key: a program or CompileError]
  CompileError,  \* parse_error or compile_error response
  InternalError, \* "runtime panic recovered" response
  Nothing,       \* no result yet: the zero value of call.program and call.fail
  Panicking      \* keys whose compilation may panic

ASSUME FlightAssumption ==
  /\ CompileError \notin Values /\ InternalError \notin Values /\ Nothing \notin Values
  /\ CompileError # InternalError /\ Nothing \notin {CompileError, InternalError}
  /\ Absent \notin {CompileError, InternalError, Nothing}
  /\ NoCall \notin Calls
  /\ NoKey \notin Keys
  /\ Compiled \in [Keys -> Values \cup {CompileError}]
  /\ Panicking \subseteq Keys

VARIABLES
  flights,  \* compileFlight.calls: the registered call of each key
  outcome,  \* [Calls -> call.program or call.fail, Nothing until call.done is closed]
  pc,       \* where each caller is
  key,      \* the key it asks for
  call,     \* its pointer to a call
  result,   \* the response it has in hand; what it returned when it is idle
  panicked  \* history, kept for the properties only: the calls whose leader panicked

flightVars == <<flights, outcome, panicked>>
callerVars == <<pc, key, call, result>>
vars == <<entries, order, flights, outcome, panicked, pc, key, call, result>>

Outcomes == Values \cup {CompileError}

\* Past the first Get, a caller comes to the table lookup of Do (`join'); the
\* one that leads goes through the closure's Get (`recheck'), the compilation
\* and the end of Do (`publish', `forget'), the others wait.
Leading == {"recheck", "compile", "publish", "forget"}
Steps == {"idle", "join", "wait"} \cup Leading

\* The calls something points to: the table `fl' or a goroutine's variable in
\* `ptr'.  The others are free, and collected as soon as they are.
Live(fl, ptr) == {x \in Calls : (\E k \in Keys : fl[k] = x) \/ \E c \in Callers : ptr[c] = x}

Fresh == CHOOSE x \in Calls : x \notin Live(flights, call)

Collected == [x \in Calls |-> IF x \in Live(flights', call') THEN outcome[x] ELSE Nothing]

Goto(c, from, to) == pc[c] = from /\ pc' = [pc EXCEPT ![c] = to]

-----------------------------------------------------------------------------
Init ==
  /\ CacheInit
  /\ flights = [k \in Keys |-> NoCall]
  /\ outcome = [x \in Calls |-> Nothing]
  /\ panicked = {}
  /\ pc = [c \in Callers |-> "idle"]
  /\ key = [c \in Callers |-> NoKey]
  /\ call = [c \in Callers |-> NoCall]
  /\ result = [c \in Callers |-> Nothing]

\* Mutations of the definitions below, as plausible slips of the code.
LeadAlways(c) ==
  /\ Goto(c, "join", "recheck")
  /\ Live(flights, call) # Calls
  /\ flights' = [flights EXCEPT ![key[c]] = Fresh]
  /\ call' = [call EXCEPT ![c] = Fresh]
  /\ UNCHANGED <<cacheVars, outcome, panicked, key, result>>

RecheckSkipped(c) ==
  /\ Goto(c, "recheck", "compile")
  /\ UNCHANGED <<cacheVars, flightVars, key, call, result>>

CompileStoringUnderAny(c) ==
  /\ Goto(c, "compile", "publish")
  /\ Compiled[key[c]] # CompileError
  /\ \E k \in Keys : Put(k, Compiled[key[c]])
  /\ result' = [result EXCEPT ![c] = Compiled[key[c]]]
  /\ UNCHANGED <<flightVars, key, call>>

PanicPublished(c) ==
  /\ Goto(c, "compile", "forget")
  /\ key[c] \in Panicking
  /\ result' = [result EXCEPT ![c] = InternalError]
  /\ outcome' = [outcome EXCEPT ![call[c]] = InternalError]
  /\ UNCHANGED <<cacheVars, flights, panicked, key, call>>

PublishUnclosed(c) ==
  /\ Goto(c, "publish", "forget")
  /\ UNCHANGED <<cacheVars, flightVars, key, call, result>>

\* An operation calls getOrCompile with some key: programs.Get.
AskHit(c, k) ==
  /\ pc[c] = "idle"
  /\ Hit(k)
  /\ key' = [key EXCEPT ![c] = k]
  /\ result' = [result EXCEPT ![c] = entries[k]]
  /\ UNCHANGED <<flightVars, pc, call>>

AskMiss(c, k) ==
  /\ Goto(c, "idle", "join")
  /\ Miss(k)
  /\ key' = [key EXCEPT ![c] = k]
  /\ result' = [result EXCEPT ![c] = Nothing]
  /\ UNCHANGED <<flightVars, call>>

\* Do finds a registered call: keep a pointer to it and wait for it.
Join(c) ==
  /\ Goto(c, "join", "wait")
  /\ flights[key[c]] # NoCall
  /\ call' = [call EXCEPT ![c] = flights[key[c]]]
  /\ UNCHANGED <<cacheVars, flightVars, key, result>>

\* Do finds none: register a new call and run the closure.
Lead(c) ==
  /\ Goto(c, "join", "recheck")
  /\ flights[key[c]] = NoCall
  /\ Live(flights, call) # Calls
  /\ flights' = [flights EXCEPT ![key[c]] = Fresh]
  /\ call' = [call EXCEPT ![c] = Fresh]
  /\ UNCHANGED <<cacheVars, outcome, panicked, key, result>>

\* The closure looks again: another flight may have finished meanwhile.
RecheckHit(c) ==
  /\ Goto(c, "recheck", "publish")
  /\ Hit(key[c])
  /\ result' = [result EXCEPT ![c] = entries[key[c]]]
  /\ UNCHANGED <<flightVars, key, call>>

RecheckMiss(c) ==
  /\ Goto(c, "recheck", "compile")
  /\ Miss(key[c])
  /\ UNCHANGED <<flightVars, key, call, result>>

\* compileWithEnv outside every lock, and Put if it made a program.
CompileSucceeds(c) ==
  /\ Goto(c, "compile", "publish")
  /\ Compiled[key[c]] # CompileError
  /\ Put(key[c], Compiled[key[c]])
  /\ result' = [result EXCEPT ![c] = Compiled[key[c]]]
  /\ UNCHANGED <<flightVars, key, call>>

CompileFails(c) ==
  /\ Goto(c, "compile", "publish")
  /\ Compiled[key[c]] = CompileError
  /\ result' = [result EXCEPT ![c] = CompileError]
  /\ UNCHANGED <<cacheVars, flightVars, key, call>>

\* The compiler panics: the panic unwinds through Do, which has no deferred
\* clean-up, to the operation's recover, which answers internal_error.
CompilePanics(c) ==
  /\ Goto(c, "compile", "idle")
  /\ key[c] \in Panicking
  /\ result' = [result EXCEPT ![c] = InternalError]
  /\ call' = [call EXCEPT ![c] = NoCall]
  /\ panicked' = panicked \cup {call[c]}
  /\ UNCHANGED <<cacheVars, flights, outcome, key>>

\* Fill in the call and close its channel.
Publish(c) ==
  /\ Goto(c, "publish", "forget")
  /\ outcome' = [outcome EXCEPT ![call[c]] = result[c]]
  /\ UNCHANGED <<cacheVars, flights, panicked, key, call, result>>

\* Remove the key from the table and return.
Forget(c) ==
  /\ Goto(c, "forget", "idle")
  /\ flights' = [flights EXCEPT ![key[c]] = NoCall]
  /\ call' = [call EXCEPT ![c] = NoCall]
  /\ UNCHANGED <<cacheVars, panicked, key, result>>
  /\ outcome' = Collected

\* A waiter is released by the closed channel and returns the call's result.
Receive(c) ==
  /\ Goto(c, "wait", "idle")
  /\ outcome[call[c]] # Nothing
  /\ result' = [result EXCEPT ![c] = outcome[call[c]]]
  /\ call' = [call EXCEPT ![c] = NoCall]
  /\ UNCHANGED <<cacheVars, flights, panicked, key>>
  /\ outcome' = Collected

Step(c) ==
  \/ Join(c) \/ Lead(c)
  \/ RecheckHit(c) \/ RecheckMiss(c)
  \/ CompileSucceeds(c) \/ CompileFails(c) \/ CompilePanics(c)
  \/ Publish(c) \/ Forget(c)
  \/ Receive(c)

Next == \E c \in Callers : Step(c) \/ \E k \in Keys : AskHit(c, k) \/ AskMiss(c, k)

\* The Go scheduler runs every runnable goroutine; nothing obliges a caller
\* to ask again.
Spec == Init /\ [][Next]_vars /\ \A c \in Callers : WF_vars(Step(c))

-----------------------------------------------------------------------------
\* The types of the flight's and the callers' variables, and of the cache's.
TypeOK ==
  /\ CacheTypeOK
  /\ flights \in [Keys -> Calls \cup {NoCall}]
  /\ outcome \in [Calls -> Outcomes \cup {Nothing}]
  /\ panicked \subseteq Calls
  /\ pc \in [Callers -> Steps]
  /\ key \in [Callers -> Keys \cup {NoKey}]
  /\ call \in [Callers -> Calls \cup {NoCall}]
  /\ result \in [Callers -> Outcomes \cup {InternalError, Nothing}]

\* compileFlight and the second Get inside it: at no time do two callers
\* compile the same key, and none compiles a key whose program is cached.
NoDuplicateCompile ==
  \A c \in Callers : pc[c] = "compile" =>
    /\ key[c] \notin Resident
    /\ \A d \in Callers : pc[d] = "compile" /\ key[d] = key[c] => d = c

\* Whatever way a caller came by its answer (cache, own compilation, somebody
\* else's flight), getOrCompile returns what its own key compiles to, and an
\* internal error only for a key whose compilation panics.
AnswersOwnKey ==
  \A c \in Callers : pc[c] = "idle" /\ key[c] # NoKey =>
    \/ result[c] = Compiled[key[c]]
    \/ result[c] = InternalError /\ key[c] \in Panicking

\* programs.Put runs only for successful compilations: a parse or compile
\* error is never answered from the cache, nor a program under a wrong key.
CachesOnlyOwnPrograms ==
  \A k \in Resident : entries[k] = Compiled[k] /\ Compiled[k] # CompileError

\* flight.go: no waiter is lost.  The call it waits for has been published, or
\* its leader is still on the way there, or the compilation of that very call
\* has panicked, as flight.go:41 leaves it: a key that may panic excuses no
\* waiter whose own leader compiled normally.
WaitersHaveALeader ==
  \A c \in Callers : pc[c] = "wait" =>
    \/ outcome[call[c]] = Compiled[key[c]]
    \/ \E d \in Callers : pc[d] \in Leading /\ call[d] = call[c] /\ key[d] = key[c]
    \/ call[c] \in panicked

\* Every call of getOrCompile returns, unless it is for a key whose
\* compilation panics: a panic never blocks the callers of another key.
UnaffectedCallsReturn ==
  \A c \in Callers : pc[c] # "idle" /\ key[c] \notin Panicking ~> pc[c] = "idle"

\* protocol/README.md: "Every native and Wasm operation returns an object":
\* every call returns, a recovered panic being answered internal_error.
EveryCallReturns == \A c \in Callers : pc[c] # "idle" ~> pc[c] = "idle"

-----------------------------------------------------------------------------
\* getOrCompile implements the memoising service of ProgramService.
Asked == [c \in Callers |-> IF pc[c] = "idle" THEN NoKey ELSE key[c]]
Answered == [c \in Callers |-> IF pc[c] = "idle" THEN result[c] ELSE Nothing]
Busy == {key[c] : c \in {d \in Callers : pc[d] = "compile"}}

Service ==
  INSTANCE ProgramService WITH asked <- Asked, answer <- Answered, busy <- Busy, kept <- Resident

ServiceSpec == Service!Spec

=============================================================================

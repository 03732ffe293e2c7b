----------------------------- MODULE DartRuntime -----------------------------
(***************************************************************************)
(* CelRuntime of the Dart SDK (cel_runtime.dart) over the native worker:   *)
(* the shared initialization, the handles, their calls and dispose, with   *)
(* worker isolates that may fail to start, die or throw.                   *)
(*                                                                         *)
(* Calls are numbered in the order they are made.  An initialize that      *)
(* succeeds makes a handle, known by the number of its call.               *)
(***************************************************************************)
EXTENDS NativeWorker

CONSTANT MaxCalls   \* bound: calls made

ASSUME CallsAssumption == MaxCalls \in Nat \ {0}

VARIABLES
  calls,           \* the calls made so far
  initialization,  \* CelRuntime._initialization: the initialize whose future it is, or 0
  needsCreate,     \* CelRuntime._needsCreate
  disposed         \* the handles with _disposed set

handleVars == <<calls, initialization, needsCreate, disposed>>
vars == <<workerVars, handleVars>>

\* What each kind of call asks of the worker, one operation after the other.
\* A list is an evaluateRequests that was split into two batches.
Operations == {"initialize", "evaluate", "list", "dispose"}

Outstanding == {c \in DOMAIN calls : calls[c].outcome = "none"}
Handles == {c \in DOMAIN calls : calls[c].op = "initialize" /\ calls[c].outcome = "ok"}

Init ==
  /\ WorkerInit
  /\ calls = <<>> /\ initialization = 0 /\ needsCreate = FALSE /\ disposed = {}

(***************************************************************************)
(* Calls.                                                                  *)
(***************************************************************************)
NewCall == Len(calls) + 1

Make(op, handle, todo) ==
  /\ NewCall <= MaxCalls
  /\ Invoke([call |-> NewCall, op |-> Head(todo)], pending)
  /\ calls' = Append(calls, [op |-> op, handle |-> handle, todo |-> todo,
                             outcome |-> IF Refused(pending) THEN "failed" ELSE "none"])
  /\ UNCHANGED <<worker, phase, serving, mail, native>>

\* A call of initialize while there is an initialization shares its future.
Initialize(withOptions) ==
  /\ initialization = 0
  /\ Make("initialize", 0, (IF needsCreate \/ withOptions THEN <<"create">> ELSE <<>>) \o <<"info">>)
  /\ initialization' = IF Refused(pending) THEN 0 ELSE NewCall
  /\ UNCHANGED <<needsCreate, disposed>>

Evaluate(h) ==
  /\ h \in Handles \ disposed
  /\ Make("evaluate", h, <<"evaluate">>)
  /\ UNCHANGED <<initialization, needsCreate, disposed>>

EvaluateList(h) ==
  /\ h \in Handles \ disposed
  /\ Make("list", h, <<"evaluate", "evaluate">>)
  /\ UNCHANGED <<initialization, needsCreate, disposed>>

\* dispose does not ask for a create: a mutant of Dispose.
DisposeWithoutCreate(h) ==
  /\ h \in Handles \ disposed
  /\ disposed' = disposed \cup {h}
  /\ initialization' = 0
  /\ Make("dispose", h, <<"close">>)
  /\ UNCHANGED needsCreate

Dispose(h) ==
  /\ h \in Handles \ disposed
  /\ disposed' = disposed \cup {h}
  /\ initialization' = 0 /\ needsCreate' = TRUE
  /\ Make("dispose", h, <<"close">>)

(***************************************************************************)
(* Answers.                                                                *)
(***************************************************************************)
\* These calls return and those throw; an initialize that does clears the
\* shared future, whichever initialize that belongs to.
Settle(returned, thrown) ==
  /\ calls' = [c \in DOMAIN calls |->
                 IF c \in thrown THEN [calls[c] EXCEPT !.outcome = "failed"]
                 ELSE IF c \in returned THEN [calls[c] EXCEPT !.outcome = "ok"] ELSE calls[c]]
  /\ initialization' = IF \E c \in thrown : calls[c].op = "initialize" THEN 0 ELSE initialization

Started ==
  /\ StartSucceeds
  /\ Settle({}, Turned)
  /\ UNCHANGED <<needsCreate, disposed>>

NotStarted ==
  /\ StartFails
  /\ Settle({}, {waiting[i].call : i \in DOMAIN waiting})
  /\ UNCHANGED <<needsCreate, disposed>>

Message == Head(mail)

\* Only messages to the ports of the current isolate are heard.
Heard(kinds) ==
  /\ mail # <<>> /\ Message.from = worker /\ Message.answer \in kinds
  /\ mail' = Tail(mail)

Unheard ==
  /\ mail # <<>> /\ Message.from # worker
  /\ mail' = Tail(mail)
  /\ UNCHANGED <<clientVars, phase, inbox, serving, native, handleVars>>

\* _failAll resets before it looks at what was pending: a mutant of Lost.
LostAfterReset == {}

Lost == Range(pending)

\* _failAll, for an error or an exit.
WorkerGone ==
  /\ Heard({"gone"})
  /\ Reset
  /\ Settle({}, Lost)
  /\ UNCHANGED <<starting, waiting, nextId, serving, native, needsCreate, disposed>>

Answered == pending[Message.id]
Rest == Restrict(pending, DOMAIN pending \ {Message.id})
Step == Head(calls[Answered].todo)
Left == Tail(calls[Answered].todo)

\* The call goes on to its next operation, without a look at its handle; the
\* worker is up, and this answer has made room.
Continue ==
  /\ Heard({"ok"})
  /\ Left # <<>>
  /\ Send(worker, <<[call |-> Answered, op |-> Head(Left)]>>, Rest)
  /\ calls' = [calls EXCEPT ![Answered].todo = Left]
  /\ needsCreate' = IF Step = "create" THEN FALSE ELSE needsCreate
  /\ UNCHANGED <<started, starting, worker, waiting, phase, serving, native, initialization, disposed>>

\* _onReply completes the call and leaves the rest as it is.
Complete ==
  /\ pending' = Rest
  /\ UNCHANGED <<started, starting, worker, waiting, nextId, phase, inbox, serving, native,
                 needsCreate, disposed>>

Return ==
  /\ Heard({"ok"}) /\ Left = <<>> /\ Step # "close"
  /\ Complete
  /\ Settle({Answered}, {})

ReturnError ==
  /\ Heard({"refused", "thrown"})
  /\ Complete
  /\ Settle({}, {Answered})

\* The answer is runtime_closed.
ReturnClosed ==
  /\ Heard({"closed"})
  /\ Complete
  /\ calls' = [calls EXCEPT ![Answered].outcome = "closed"]
  /\ UNCHANGED initialization

\* The worker is left running: a mutant of CloseWorker.
CloseKeepsWorker ==
  /\ Heard({"ok"})
  /\ Step = "close"
  /\ Complete
  /\ Settle({Answered}, {})

\* _NativeBackend.close: the worker is closed once the runtime has been.
CloseWorker ==
  /\ Heard({"ok"})
  /\ Step = "close"
  /\ Reset
  /\ Settle({Answered}, Range(Rest))
  /\ UNCHANGED <<starting, waiting, nextId, serving, native, needsCreate, disposed>>

-----------------------------------------------------------------------------
Deliver == Unheard \/ WorkerGone \/ Continue \/ Return \/ ReturnError \/ ReturnClosed \/ CloseWorker
Isolate(w) == (Take(w) \/ Finish(w) \/ Throws(w)) /\ UNCHANGED handleVars
Failure(w) == Dies(w) /\ UNCHANGED handleVars

Next ==
  \/ \E withOptions \in BOOLEAN : Initialize(withOptions)
  \/ \E h \in Handles : Evaluate(h) \/ EvaluateList(h) \/ Dispose(h)
  \/ Started \/ NotStarted \/ Deliver
  \/ \E w \in Workers : Isolate(w) \/ Failure(w)

\* Isolate.spawn ends, an isolate goes on with its messages, and the main
\* isolate's event loop runs.
Spec ==
  /\ Init /\ [][Next]_vars
  /\ WF_vars(Started \/ NotStarted) /\ WF_vars(Deliver)
  /\ \A w \in Workers : WF_vars(Isolate(w))

-----------------------------------------------------------------------------
\* The types of the variables, and what of the client goes together; the only
\* initialize under way is the one whose future is shared.
TypeOK ==
  /\ started \in BOOLEAN /\ starting \in {0, 1} /\ worker \in Workers \cup {0}
  /\ started <=> (starting = 1 \/ worker # 0)
  /\ starting = 1 => worker = 0
  /\ Range(pending) \cup {waiting[i].call : i \in DOMAIN waiting} \subseteq Outstanding
  /\ Cardinality(DOMAIN pending) <= MaxPending
  /\ initialization \in 0..Len(calls)
  /\ \A c \in Outstanding : calls[c].op = "initialize" => initialization = c
  /\ disposed \subseteq Handles
  /\ needsCreate \in BOOLEAN

\* However many calls come at once, however a worker ends: there is one worker
\* isolate, and it is the client's.
OneWorker == Alive \subseteq {worker}

\* sdk/dart/CHANGELOG.md: "Make `CelRuntime.dispose()` terminate the native
\* worker isolate": once dispose has returned, none runs until an initialize,
\* whatever calls the handle had on their way.
DisposedLeavesNoWorker ==
  \A d \in DOMAIN calls :
    calls[d].op = "dispose" /\ calls[d].outcome = "ok"
      /\ (\A c \in d..Len(calls) : calls[c].op # "initialize") =>
        Alive = {} /\ ~started

\* A handle that is not disposed is never told that the runtime is closed,
\* though another dispose, its close and a create may just have passed.
OpenHandleIsServed ==
  \A c \in DOMAIN calls : calls[c].outcome = "closed" => calls[c].handle \in disposed

\* Terminating the worker fails no call that was made before the dispose, but
\* for the rest of a list whose first batch has been answered.
EarlierCallsAnswered ==
  [][\A d \in DOMAIN calls :
       calls[d].op = "dispose" /\ calls[d].outcome = "none" /\ calls'[d].outcome = "ok" =>
         \A c \in Outstanding : c < d => calls[c].op = "list" /\ Len(calls[c].todo) = 1]_vars

\* Every call returns or throws.
EveryCallReturns == \A c \in 1..MaxCalls : c \in Outstanding ~> c \notin Outstanding
=============================================================================

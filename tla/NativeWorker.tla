---------------------------- MODULE NativeWorker ----------------------------
(***************************************************************************)
(* The Dart SDK's worker isolate (sdk/dart/lib/src/backend/ffi): its       *)
(* client in the main isolate, the isolates it spawns, the message queues  *)
(* between them and the process's native runtime.                          *)
(*                                                                         *)
(* A step of the main isolate is one event of its loop with the microtasks *)
(* it schedules, which all run before the next event: with the worker up,  *)
(* invoke's await of start() lets nothing else in.  What calls and what is *)
(* done with an answer is the business of the module that extends this.    *)
(* A spawned isolate is taken to shake hands.                              *)
(***************************************************************************)
EXTENDS Integers, Sequences, FiniteSets, Functions

CONSTANTS
  MaxPending,   \* NativeWorkerClient.maxPendingRequests
  MaxWorkers    \* bound: isolates spawned

ASSUME WorkerAssumption == MaxPending \in Nat \ {0} /\ MaxWorkers \in Nat \ {0}

Workers == 1..MaxWorkers

VARIABLES
  started,    \* NativeWorkerClient._started is set
  starting,   \* the number of _start()s under way
  worker,     \* the isolate that _worker, _isolate and the ports belong to; 0: none
  waiting,    \* the invokes that await start, in the order they asked
  pending,    \* _pending: from request ids to calls
  nextId,     \* _nextRequestId
  phase,      \* [Workers -> "unborn", "alive", "killed" (in a native call), "gone"]
  inbox,      \* [Workers -> the messages sent to it]
  serving,    \* [Workers -> it is in a native call for the first of them]
  mail,       \* the messages to the main isolate
  native      \* the process's runtime: open or not, and the call that created it

clientVars == <<started, starting, worker, waiting, pending, nextId>>
isolateVars == <<phase, inbox, serving, mail, native>>
workerVars == <<clientVars, isolateVars>>

Alive == {w \in Workers : phase[w] = "alive"}

WorkerInit ==
  /\ started = FALSE /\ starting = 0 /\ worker = 0
  /\ waiting = <<>> /\ pending = <<>> /\ nextId = 0
  /\ phase = [w \in Workers |-> "unborn"]
  /\ inbox = [w \in Workers |-> <<>>]
  /\ serving = [w \in Workers |-> FALSE]
  /\ mail = <<>>
  /\ native = [open |-> TRUE, by |-> 0]

(***************************************************************************)
(* The client.  A job is a call and the native operation it asks for.      *)
(***************************************************************************)
Room(pend) == MaxPending - Cardinality(DOMAIN pend)

\* The nth request sent from here takes this id.
FreshId(n, pend) == nextId + n - 1

\* Register the jobs and send them to the isolate w.
Send(w, jobs, pend) ==
  LET ids == {FreshId(n, pend) : n \in DOMAIN jobs}
      Nth(id) == CHOOSE n \in DOMAIN jobs : FreshId(n, pend) = id
  IN /\ pending' = [id \in ids \cup DOMAIN pend |-> IF id \in ids THEN jobs[Nth(id)].call ELSE pend[id]]
     /\ nextId' = nextId + Len(jobs)
     /\ inbox' = [inbox EXCEPT ![w] = @ \o
                    [n \in DOMAIN jobs |-> [id |-> FreshId(n, pend), job |-> jobs[n]]]]

\* start looks at the worker and not at the future: a mutant of NeedsStart.
NeedsStartWithoutWorker == worker = 0

NeedsStart == ~started

\* The limit is passed by one: a mutant of Refused.
RefusedAtOneMore(pend) == started /\ starting = 0 /\ (worker = 0 \/ Room(pend) < 0)

\* invoke throws: there is no worker, or too much is pending.
Refused(pend) == started /\ starting = 0 /\ (worker = 0 \/ Room(pend) <= 0)

\* invoke(job), when pend is what is pending.
Invoke(job, pend) ==
  \/ /\ NeedsStart \/ starting > 0
     /\ IF NeedsStart THEN started' = TRUE /\ starting' = starting + 1
                      ELSE UNCHANGED <<started, starting>>
     /\ waiting' = Append(waiting, job)
     /\ pending' = pend
     /\ UNCHANGED <<nextId, inbox>>
  \/ /\ Refused(pend)
     /\ pending' = pend
     /\ UNCHANGED <<started, starting, waiting, nextId, inbox>>
  \/ /\ ~NeedsStart /\ starting = 0 /\ ~Refused(pend)
     /\ Send(worker, <<job>>, pend)
     /\ UNCHANGED <<started, starting, waiting>>

\* How many of the waiting invokes the pending requests leave room for.
Admitted ==
  IF Len(waiting) <= Room(pending) THEN Len(waiting) ELSE Room(pending)

Turned == {waiting[i].call : i \in (Admitted + 1)..Len(waiting)}

\* _start has its isolate, and the invokes that await it resume in order.
StartSucceeds ==
  /\ starting > 0
  /\ \E w \in Workers :
       /\ phase[w] = "unborn" /\ \A v \in Workers : v < w => phase[v] # "unborn"
       /\ worker' = w
       /\ phase' = [phase EXCEPT ![w] = "alive"]
       /\ Send(w, SubSeq(waiting, 1, Admitted), pending)
  /\ starting' = starting - 1 /\ waiting' = <<>>
  /\ UNCHANGED <<started, serving, mail, native>>

\* _reset: the isolate dies at once unless it is in a native call; the ports
\* are closed, so whatever it still sends is dropped.
Reset ==
  /\ started' = FALSE /\ worker' = 0 /\ pending' = <<>>
  /\ phase' = [w \in Workers |->
                 IF w = worker /\ phase[w] = "alive"
                 THEN IF serving[w] THEN "killed" ELSE "gone" ELSE phase[w]]
  /\ inbox' = [w \in Workers |->
                 IF w # worker \/ inbox[w] = <<>> THEN inbox[w]
                 ELSE IF serving[w] THEN <<Head(inbox[w])>> ELSE <<>>]

StartFails ==
  /\ starting > 0
  /\ Reset
  /\ starting' = starting - 1 /\ waiting' = <<>>
  /\ UNCHANGED <<nextId, serving, mail, native>>

(***************************************************************************)
(* The isolates: one message at a time, in the order they were sent.       *)
(***************************************************************************)
\* The listener waits for something before it serves: a mutant of Take.
TakeAny(w) ==
  /\ phase[w] = "alive" /\ ~serving[w]
  /\ \E i \in DOMAIN inbox[w] :
       inbox' = [inbox EXCEPT ![w] = <<@[i]>> \o SubSeq(@, 1, i - 1) \o SubSeq(@, i + 1, Len(@))]
  /\ serving' = [serving EXCEPT ![w] = TRUE]
  /\ UNCHANGED <<clientVars, phase, mail, native>>

Take(w) ==
  /\ phase[w] = "alive" /\ ~serving[w] /\ inbox[w] # <<>>
  /\ serving' = [serving EXCEPT ![w] = TRUE]
  /\ UNCHANGED <<clientVars, phase, inbox, mail, native>>

\* What the bridge answers, and what becomes of its runtime: only create
\* looks at its options, and only evaluations mind a closed runtime.
Answers(op) ==
  CASE op = "create" -> {"ok", "refused"}
    [] op = "evaluate" -> {IF native.open THEN "ok" ELSE "closed"}
    [] OTHER -> {"ok"}

Effect(job, answer) ==
  CASE job.op = "create" /\ answer = "ok" -> [open |-> TRUE, by |-> job.call]
    [] job.op = "close" -> [native EXCEPT !.open = FALSE]
    [] OTHER -> native

Serving(w) == phase[w] \in {"alive", "killed"} /\ serving[w]

\* A killed isolate finishes its native call, and that is all.
Finish(w) ==
  /\ Serving(w)
  /\ LET message == Head(inbox[w])
     IN \E answer \in Answers(message.job.op) :
          /\ native' = Effect(message.job, answer)
          /\ mail' = IF phase[w] = "killed" THEN mail
                     ELSE Append(mail, [from |-> w, id |-> message.id, answer |-> answer])
  /\ phase' = [phase EXCEPT ![w] = IF @ = "killed" THEN "gone" ELSE @]
  /\ inbox' = [inbox EXCEPT ![w] = Tail(@)]
  /\ serving' = [serving EXCEPT ![w] = FALSE]
  /\ UNCHANGED clientVars

\* The call throws on the way to the library or back: that is replied too.
Throws(w) ==
  /\ phase[w] = "alive" /\ serving[w]
  /\ LET message == Head(inbox[w])
     IN /\ native' \in {native} \cup {Effect(message.job, a) : a \in Answers(message.job.op)}
        /\ mail' = Append(mail, [from |-> w, id |-> message.id, answer |-> "thrown"])
  /\ inbox' = [inbox EXCEPT ![w] = Tail(@)]
  /\ serving' = [serving EXCEPT ![w] = FALSE]
  /\ UNCHANGED <<clientVars, phase>>

\* The isolate fails or exits, before it takes a message; of the error and the
\* exit it is reported with, the client closes the ports on the first.
Dies(w) ==
  /\ phase[w] = "alive" /\ ~serving[w]
  /\ phase' = [phase EXCEPT ![w] = "gone"]
  /\ inbox' = [inbox EXCEPT ![w] = <<>>]
  /\ mail' = Append(mail, [from |-> w, id |-> -1, answer |-> "gone"])
  /\ UNCHANGED <<clientVars, serving, native>>
=============================================================================

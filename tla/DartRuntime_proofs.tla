-------------------------- MODULE DartRuntime_proofs --------------------------
(***************************************************************************)
(* Proofs about DartRuntime, for any numbers of calls, isolates and        *)
(* pending requests.  First: the client never has more than one worker     *)
(* isolate.                                                                *)
(*                                                                         *)
(* OneWorker is not inductive.  A start may only spawn because there is no *)
(* worker then (ClientInv), and a reset may only forget the future of a    *)
(* start because it is never under way when one is heard of: a message is  *)
(* from an isolate (MailInv), and while a start is under way the client    *)
(* listens to none.                                                        *)
(***************************************************************************)
EXTENDS DartRuntime, FiniteSetTheorems, SequenceTheorems, TLAPS

Phases == {"unborn", "alive", "killed", "gone"}

\* The future is set while a start is under way and while there is a worker.
ClientInv ==
  /\ started \in BOOLEAN /\ starting \in {0, 1} /\ worker \in Workers \cup {0}
  /\ started <=> (starting = 1 \/ worker # 0)
  /\ starting = 1 => worker = 0

\* Mail comes from isolates.
MailInv ==
  /\ mail \in Seq(Range(mail))
  /\ \A m \in Range(mail) : m.from \in Workers

WorkerInv ==
  /\ ClientInv
  /\ MailInv
  /\ phase \in [Workers -> Phases]
  /\ OneWorker

-----------------------------------------------------------------------------
\* A sequence is a sequence of its own elements.
LEMMA OfItsElements ==
  ASSUME NEW S, NEW s \in Seq(S)
  PROVE  s \in Seq(Range(s)) /\ Range(s) = {s[i] : i \in 1..Len(s)}
<1>1. PICK n \in Nat : s \in [1..n -> S]
  BY SeqDef
<1>2. DOMAIN s = 1..n /\ Len(s) = n
  BY <1>1
<1>3. \A i \in 1..n : s[i] \in Range(s)
  BY <1>2 DEF Range
<1>4. s \in [1..n -> Range(s)]
  BY <1>1, <1>3
<1>5. s \in Seq(Range(s))
  BY <1>4, SeqDef
<1> QED BY <1>2, <1>5 DEF Range

\* What is first in the mail is from an isolate.
LEMMA FirstOfMail ==
  ASSUME MailInv, mail # <<>>
  PROVE  Head(mail).from \in Workers /\ Head(mail).from # 0
<1>1. Head(mail) \in Range(mail)
  BY HeadTailProperties DEF MailInv
<1> QED BY <1>1 DEF MailInv, Workers

\* Taking the first message keeps the mail in order.
LEMMA TakeMail ==
  ASSUME MailInv, mail # <<>>, mail' = Tail(mail)
  PROVE  MailInv'
<1> DEFINE T == Range(mail)
<1>1. mail \in Seq(T) /\ \A m \in T : m.from \in Workers
  BY DEF MailInv
<1>2. PICK t : t = Tail(mail)
  OBVIOUS
<1> HIDE DEF T
<1>3. /\ t \in Seq(T)
      /\ Len(t) = Len(mail) - 1
      /\ \A i \in 1..Len(t) : t[i] = mail[i + 1]
  BY <1>1, <1>2, HeadTailProperties
<1>4. t \in Seq(Range(t)) /\ Range(t) = {t[i] : i \in 1..Len(t)}
  BY <1>3, OfItsElements
<1>5. Range(t) \subseteq T
  BY <1>3, <1>4, ElementOfSeq
<1> QED BY <1>1, <1>2, <1>4, <1>5 DEF MailInv

\* A message from an isolate joins the mail.
LEMMA AddMail ==
  ASSUME MailInv, NEW m, m.from \in Workers, mail' = Append(mail, m)
  PROVE  MailInv'
<1> DEFINE T == Range(mail) \cup {m}
<1>1. mail \in Seq(T)
  BY SeqMonotonic DEF MailInv
<1>2. /\ Append(mail, m) \in Seq(T)
      /\ Len(Append(mail, m)) = Len(mail) + 1
      /\ \A i \in 1..Len(mail) : Append(mail, m)[i] = mail[i]
      /\ Append(mail, m)[Len(mail) + 1] = m
  BY <1>1, AppendProperties
<1> HIDE DEF T
<1>3. /\ Append(mail, m) \in Seq(Range(Append(mail, m)))
      /\ Range(Append(mail, m)) = {Append(mail, m)[i] : i \in 1..Len(Append(mail, m))}
  BY <1>2, OfItsElements
<1>4. Range(Append(mail, m)) \subseteq T
  BY <1>2, <1>3, ElementOfSeq
<1>5. \A n \in T : n.from \in Workers
  BY DEF T, MailInv
<1> QED BY <1>3, <1>4, <1>5 DEF MailInv

-----------------------------------------------------------------------------
LEMMA InitWorker == Init => WorkerInv
<1> SUFFICES ASSUME Init PROVE WorkerInv
  OBVIOUS
<1>1. ClientInv
  <2>1. started = FALSE /\ starting = 0 /\ worker = 0
    BY DEF Init, WorkerInit
  <2>2. started \in BOOLEAN /\ ~started
    BY <2>1, Zenon
  <2> QED BY <2>1, <2>2 DEF ClientInv
<1>2. Range(mail) = {} /\ mail \in Seq({})
  BY DEF Init, WorkerInit, Range
<1>3. MailInv
  BY <1>2 DEF MailInv
<1>4. phase \in [Workers -> Phases] /\ OneWorker
  BY DEF Init, WorkerInit, Phases, OneWorker, Alive
<1> QED BY <1>1, <1>3, <1>4 DEF WorkerInv

\* A call may set off a start, when there is neither one nor a worker.
LEMMA MakeKeepsInv ==
  ASSUME WorkerInv, NEW op, NEW handle, NEW todo, Make(op, handle, todo)
  PROVE  WorkerInv'
<1>1. UNCHANGED <<worker, phase, mail>>
  BY DEF Make
<1>2. \/ NeedsStart /\ started' = TRUE /\ starting' = starting + 1
      \/ UNCHANGED <<started, starting>>
  BY DEF Make, Invoke
<1>3. ClientInv'
  <2>1. CASE NeedsStart /\ started' = TRUE /\ starting' = starting + 1
    <3>1. starting = 0 /\ worker = 0
      BY <2>1 DEF WorkerInv, ClientInv, NeedsStart
    <3>2. started' = TRUE /\ starting' = 1 /\ worker' = 0
      BY <1>1, <2>1, <3>1
    <3> QED BY <3>2 DEF ClientInv
  <2>2. CASE UNCHANGED <<started, starting>>
    BY <1>1, <2>2 DEF WorkerInv, ClientInv
  <2> QED BY <1>2, <2>1, <2>2
<1>4. MailInv' /\ phase' \in [Workers -> Phases] /\ OneWorker'
  BY <1>1 DEF WorkerInv, MailInv, OneWorker, Alive
<1> QED BY <1>3, <1>4 DEF WorkerInv

\* A start that ends has been the only one, and there was no worker.
LEMMA StartedKeepsInv ==
  ASSUME WorkerInv, StartSucceeds
  PROVE  WorkerInv'
<1>1. PICK w \in Workers : /\ worker' = w
                           /\ phase' = [phase EXCEPT ![w] = "alive"]
  BY DEF StartSucceeds
<1>2. starting = 1 /\ starting' = 0 /\ worker = 0 /\ started
  BY DEF StartSucceeds, WorkerInv, ClientInv
<1>3. UNCHANGED <<started, mail>>
  BY DEF StartSucceeds
<1>4. ClientInv'
  BY <1>1, <1>2, <1>3 DEF WorkerInv, ClientInv, Workers
<1>5. phase' \in [Workers -> Phases]
  BY <1>1 DEF WorkerInv, Phases
<1>6. Alive = {}
  BY <1>2 DEF WorkerInv, OneWorker, Alive, Workers
<1>7. OneWorker'
  BY <1>1, <1>6 DEF WorkerInv, OneWorker, Alive
<1>8. MailInv'
  BY <1>3 DEF WorkerInv, MailInv
<1> QED BY <1>4, <1>5, <1>7, <1>8 DEF WorkerInv

\* A reset leaves no worker isolate alive, and no future.
LEMMA ResetLeavesNone ==
  ASSUME WorkerInv, Reset
  PROVE  /\ started' = FALSE /\ worker' = 0
         /\ phase' \in [Workers -> Phases] /\ OneWorker'
<1>1. started' = FALSE /\ worker' = 0
  BY DEF Reset
<1>2. phase' = [w \in Workers |->
                  IF w = worker /\ phase[w] = "alive"
                  THEN IF serving[w] THEN "killed" ELSE "gone" ELSE phase[w]]
  BY DEF Reset
<1>3. phase' \in [Workers -> Phases]
  BY <1>2 DEF WorkerInv, Phases
<1>4. \A w \in Workers : phase'[w] # "alive"
  BY <1>2 DEF WorkerInv, OneWorker, Alive
<1> QED BY <1>1, <1>3, <1>4 DEF OneWorker, Alive

LEMMA NotStartedKeepsInv ==
  ASSUME WorkerInv, StartFails
  PROVE  WorkerInv'
<1>1. started' = FALSE /\ worker' = 0 /\ phase' \in [Workers -> Phases] /\ OneWorker'
  BY ResetLeavesNone DEF StartFails
<1>2. starting' = 0
  BY DEF StartFails, WorkerInv, ClientInv
<1>3. started' \in BOOLEAN /\ ~started'
  BY <1>1, Zenon
<1>4. ClientInv'
  BY <1>1, <1>2, <1>3 DEF ClientInv
<1>5. MailInv'
  BY DEF StartFails, WorkerInv, MailInv
<1> QED BY <1>1, <1>4, <1>5 DEF WorkerInv

\* While a message of the worker is heard no start is under way, so that a
\* reset then forgets no start.
LEMMA HeardResetKeepsInv ==
  ASSUME WorkerInv, NEW kinds, Heard(kinds), Reset, UNCHANGED starting
  PROVE  WorkerInv'
<1>1. started' = FALSE /\ worker' = 0 /\ phase' \in [Workers -> Phases] /\ OneWorker'
  BY ResetLeavesNone
<1>2. worker # 0
  BY FirstOfMail DEF Heard, Message, WorkerInv
<1>3. ClientInv'
  BY <1>1, <1>2 DEF WorkerInv, ClientInv
<1>4. MailInv'
  BY TakeMail DEF Heard, WorkerInv
<1> QED BY <1>1, <1>3, <1>4 DEF WorkerInv

\* Any other message changes nothing but the mail.
LEMMA DeliveryKeepsInv ==
  ASSUME WorkerInv, mail # <<>>, mail' = Tail(mail), UNCHANGED <<started, starting, worker, phase>>
  PROVE  WorkerInv'
<1>1. MailInv'
  BY TakeMail DEF WorkerInv
<1> QED BY <1>1 DEF WorkerInv, ClientInv, OneWorker, Alive

LEMMA DeliverKeepsInv ==
  ASSUME WorkerInv, Deliver
  PROVE  WorkerInv'
<1>1. CASE Unheard
  BY <1>1, DeliveryKeepsInv DEF Unheard, clientVars
<1>2. CASE WorkerGone
  BY <1>2, HeardResetKeepsInv DEF WorkerGone
<1>3. CASE Continue
  BY <1>3, DeliveryKeepsInv DEF Continue, Heard
<1>4. CASE Return
  BY <1>4, DeliveryKeepsInv DEF Return, Heard, Complete
<1>5. CASE ReturnError
  BY <1>5, DeliveryKeepsInv DEF ReturnError, Heard, Complete
<1>6. CASE ReturnClosed
  BY <1>6, DeliveryKeepsInv DEF ReturnClosed, Heard, Complete
<1>7. CASE CloseWorker
  BY <1>7, HeardResetKeepsInv DEF CloseWorker
<1> QED BY <1>1, <1>2, <1>3, <1>4, <1>5, <1>6, <1>7 DEF Deliver

\* An isolate never comes to life by itself, and writes under its own name.
LEMMA IsolateKeepsInv ==
  ASSUME WorkerInv, NEW w \in Workers, Take(w) \/ Finish(w) \/ Throws(w) \/ Dies(w)
  PROVE  WorkerInv'
<1>1. UNCHANGED <<started, starting, worker>>
  BY DEF Take, Finish, Throws, Dies, clientVars
<1>2. \/ phase' = phase
      \/ phase' = [phase EXCEPT ![w] = IF @ = "killed" THEN "gone" ELSE @]
      \/ phase' = [phase EXCEPT ![w] = "gone"]
  BY DEF Take, Finish, Throws, Dies
<1>3. phase' \in [Workers -> Phases]
  BY <1>2 DEF WorkerInv, Phases
<1>4. Alive' \subseteq Alive
  BY <1>2 DEF WorkerInv, Alive
<1>5. ClientInv' /\ OneWorker'
  BY <1>1, <1>4 DEF WorkerInv, ClientInv, OneWorker
<1>6. MailInv'
  <2>1. CASE Take(w)
    BY <2>1 DEF Take, WorkerInv, MailInv
  <2>2. CASE Finish(w)
    <3>1. PICK answer : \/ mail' = mail
                        \/ mail' = Append(mail, [from |-> w, id |-> Head(inbox[w]).id, answer |-> answer])
      BY <2>2 DEF Finish
    <3>2. CASE mail' = mail
      BY <3>2 DEF WorkerInv, MailInv
    <3>3. CASE mail' # mail
      BY <3>1, <3>3, AddMail DEF WorkerInv
    <3> QED BY <3>2, <3>3
  <2>3. CASE Throws(w)
    BY <2>3, AddMail DEF Throws, WorkerInv
  <2>4. CASE Dies(w)
    BY <2>4, AddMail DEF Dies, WorkerInv
  <2> QED BY <2>1, <2>2, <2>3, <2>4
<1> QED BY <1>3, <1>5, <1>6 DEF WorkerInv

\* Every step keeps the invariant.
LEMMA WorkerStep == WorkerInv /\ [Next]_vars => WorkerInv'
<1> SUFFICES ASSUME WorkerInv, [Next]_vars PROVE WorkerInv'
  OBVIOUS
<1>1. ASSUME NEW withOptions \in BOOLEAN, Initialize(withOptions) PROVE WorkerInv'
  BY <1>1, MakeKeepsInv DEF Initialize
<1>2. ASSUME NEW h, Evaluate(h) \/ EvaluateList(h) \/ Dispose(h) PROVE WorkerInv'
  BY <1>2, MakeKeepsInv DEF Evaluate, EvaluateList, Dispose
<1>3. CASE Started
  BY <1>3, StartedKeepsInv DEF Started
<1>4. CASE NotStarted
  BY <1>4, NotStartedKeepsInv DEF NotStarted
<1>5. CASE Deliver
  BY <1>5, DeliverKeepsInv
<1>6. ASSUME NEW w \in Workers, Isolate(w) \/ Failure(w) PROVE WorkerInv'
  BY <1>6, IsolateKeepsInv DEF Isolate, Failure
<1>7. CASE UNCHANGED vars
  BY <1>7 DEF vars, workerVars, clientVars, isolateVars, WorkerInv, ClientInv, MailInv, OneWorker, Alive
<1> QED BY <1>1, <1>2, <1>3, <1>4, <1>5, <1>6, <1>7 DEF Next

\* However many calls come at once, and however workers end, there is never a
\* worker isolate besides the one that NativeWorkerClient holds.
THEOREM SingleWorker == Spec => []OneWorker
<1>1. WorkerInv => OneWorker
  BY DEF WorkerInv
<1> QED BY <1>1, InitWorker, WorkerStep, PTL DEF Spec

-----------------------------------------------------------------------------
(***************************************************************************)
(* What the calls of a handle may count on.                                *)
(*                                                                         *)
(* Everything rests on the order in which requests are answered, which the *)
(* client neither checks nor stores: ids grow, an isolate serves its inbox *)
(* from the front, and its answers are heard from the front of the mail    *)
(* (LinesInv).  From it, what each call awaits, which initialize the       *)
(* runtime is initialized by, and what dispose leaves (CallInv); from      *)
(* both, that no close is served while a handle is open (RuntimeInv).      *)
(***************************************************************************)
\* What is sent and answered.
NativeOps == {"create", "info", "evaluate", "close"}
Job == [call : Nat, op : NativeOps]
SentJob == [id : Nat, job : Job]
Letter == [from : Workers, id : Int, answer : {"ok", "refused", "closed", "thrown", "gone"}]

\* The answers that the client is going to hear, and the messages that its
\* worker has not served yet.
Letters == {m \in Range(mail) : m.from = worker /\ m.answer # "gone"}
Queue == IF worker = 0 THEN {} ELSE Range(inbox[worker])

QueueTypes ==
  /\ nextId \in Nat
  /\ waiting \in Seq(Job)
  /\ inbox \in [Workers -> Seq(SentJob)]
  /\ serving \in [Workers -> BOOLEAN]
  /\ mail \in Seq(Letter)

PendingTypes ==
  /\ pending \in [DOMAIN pending -> Nat]
  /\ \A p \in DOMAIN pending : p \in Nat /\ p < nextId
  /\ IsFiniteSet(DOMAIN pending) /\ Cardinality(DOMAIN pending) <= MaxPending

\* An isolate that is not born has been sent nothing and has sent nothing.
UnbornAreSilent ==
  /\ worker # 0 => phase[worker] \in {"alive", "gone"}
  /\ \A w \in Workers : phase[w] = "unborn" =>
       inbox[w] = <<>> /\ ~serving[w] /\ \A m \in Range(mail) : m.from # w

ServingHasMessage == \A w \in Workers : serving[w] => inbox[w] # <<>>

NothingWaitsForNothing ==
  /\ worker = 0 => DOMAIN pending = {}
  /\ starting = 0 => waiting = <<>>

\* The worker takes and answers its messages in the order of their ids, and
\* its end is the last that is heard of it.
InboxInOrder ==
  worker # 0 =>
    \A i, j \in 1..Len(inbox[worker]) : i < j => inbox[worker][i].id < inbox[worker][j].id

MailInOrder ==
  \A i, j \in 1..Len(mail) :
    i < j /\ mail[i].from = worker /\ mail[j].from = worker =>
      /\ mail[i].answer # "gone"
      /\ mail[j].answer # "gone" => mail[i].id < mail[j].id

GoneIsGone ==
  \A m \in Range(mail) : m.from = worker /\ m.answer = "gone" => phase[worker] = "gone"

\* Answers and messages are of pending requests, answers come before messages,
\* and no answer overtakes another.
Lines(letters, queue, pend) ==
  /\ \A m \in letters, x \in queue : m.id < x.id
  /\ \A m \in letters : m.id \in DOMAIN pend
  /\ \A x \in queue : x.id \in DOMAIN pend /\ pend[x.id] = x.job.call
  /\ \A m \in letters : \A p \in DOMAIN pend : p < m.id => \E n \in letters : n.id = p

\* Every pending request has its answer or its message.
AllInLine(letters, queue, pend) ==
  \A p \in DOMAIN pend : (\E m \in letters : m.id = p) \/ (\E x \in queue : x.id = p)

LinesInv ==
  /\ QueueTypes /\ PendingTypes
  /\ UnbornAreSilent /\ ServingHasMessage /\ NothingWaitsForNothing
  /\ InboxInOrder /\ MailInOrder /\ GoneIsGone
  /\ Lines(Letters, Queue, pending)
  /\ worker # 0 /\ phase[worker] = "alive" => AllInLine(Letters, Queue, pending)

-----------------------------------------------------------------------------
\* Tail and Append, and the elements of what they return.
LEMMA TailOf ==
  ASSUME NEW S, NEW s \in Seq(S), s # <<>>
  PROVE  /\ Tail(s) \in Seq(S)
         /\ Len(s) \in Nat /\ Len(s) >= 1 /\ Len(Tail(s)) = Len(s) - 1
         /\ \A i \in 1..Len(Tail(s)) : i + 1 \in 1..Len(s) /\ Tail(s)[i] = s[i + 1]
         /\ Head(s) \in S /\ Head(s) = s[1]
         /\ Range(s) = {Head(s)} \cup Range(Tail(s))
<1>1. PICK t : t = Tail(s)
  OBVIOUS
<1>2. /\ t \in Seq(S) /\ Len(t) = Len(s) - 1
      /\ \A i \in 1..Len(t) : t[i] = s[i + 1]
      /\ Head(s) \in S
  BY <1>1, HeadTailProperties
<1>3. Len(s) \in Nat /\ Len(s) >= 1 /\ Head(s) = s[1]
  BY EmptySeq, LenProperties
<1>4. Range(s) = {s[i] : i \in 1..Len(s)} /\ Range(t) = {t[i] : i \in 1..Len(t)}
  <2>1. Range(s) = {s[i] : i \in 1..Len(s)}
    BY OfItsElements
  <2>2. Range(t) = {t[i] : i \in 1..Len(t)}
    BY <1>2, OfItsElements
  <2> QED BY <2>1, <2>2
<1>5. \A i \in 1..Len(t) : i + 1 \in 1..Len(s)
  BY <1>2, <1>3
<1>6. Range(s) \subseteq {Head(s)} \cup Range(t)
  <2> SUFFICES ASSUME NEW i \in 1..Len(s), i # 1 PROVE \E j \in 1..Len(t) : s[i] = t[j]
    BY <1>3, <1>4
  <2>1. i - 1 \in 1..Len(t) /\ t[i - 1] = s[(i - 1) + 1] /\ (i - 1) + 1 = i
    BY <1>2, <1>3
  <2> QED BY <2>1
<1>7. {Head(s)} \cup Range(t) \subseteq Range(s)
  BY <1>2, <1>3, <1>4, <1>5
<1> QED BY <1>1, <1>2, <1>3, <1>5, <1>6, <1>7

LEMMA OneMore ==
  ASSUME NEW S, NEW s \in Seq(S), NEW t \in Seq(S), NEW x,
         Len(s) \in Nat, Len(t) = Len(s) + 1,
         \A i \in 1..Len(s) : t[i] = s[i],
         t[Len(s) + 1] = x
  PROVE  Range(t) = Range(s) \cup {x}
<1>1. Range(s) = {s[i] : i \in 1..Len(s)}
  BY OfItsElements
<1>2. Range(t) = {t[i] : i \in 1..Len(t)}
  BY OfItsElements
<1>3. 1..Len(t) = 1..Len(s) \cup {Len(s) + 1}
  OBVIOUS
<1>4. Range(t) \subseteq Range(s) \cup {x}
  BY <1>1, <1>2, <1>3
<1>5. Len(s) + 1 \in 1..Len(t) /\ \A i \in 1..Len(s) : i \in 1..Len(t)
  OBVIOUS
<1>6. Range(s) \cup {x} \subseteq Range(t)
  BY <1>1, <1>2, <1>5
<1> QED BY <1>4, <1>6

LEMMA AppendOf ==
  ASSUME NEW S, NEW s \in Seq(S), NEW x \in S
  PROVE  /\ Append(s, x) \in Seq(S)
         /\ Len(s) \in Nat /\ Len(Append(s, x)) = Len(s) + 1
         /\ \A i \in 1..Len(s) : Append(s, x)[i] = s[i]
         /\ Append(s, x)[Len(s) + 1] = x
         /\ Range(Append(s, x)) = Range(s) \cup {x}
<1>1. PICK t : t = Append(s, x)
  OBVIOUS
<1>2. /\ t \in Seq(S) /\ Len(t) = Len(s) + 1
      /\ \A i \in 1..Len(s) : t[i] = s[i]
      /\ t[Len(s) + 1] = x
  BY <1>1, AppendProperties
<1>3. Len(s) \in Nat
  BY LenProperties
<1>4. Range(t) = Range(s) \cup {x}
  BY <1>2, <1>3, OneMore
<1> QED BY <1>1, <1>2, <1>3, <1>4

LEMMA EmptyRange ==
  ASSUME NEW s, s = <<>>
  PROVE  Range(s) = {}
BY DEF Range

-----------------------------------------------------------------------------
\* What hearing, sending, serving and dying do to the lines.
LEMMA HearLine ==
  ASSUME NEW letters, NEW queue, NEW pend, Lines(letters, queue, pend),
         NEW h \in letters, \A m \in letters \ {h} : h.id < m.id,
         \A m \in letters : m.id \in Int, \A x \in queue : x.id \in Int,
         \A p \in DOMAIN pend : p \in Int,
         NEW left, DOMAIN left = DOMAIN pend \ {h.id},
         \A p \in DOMAIN left : left[p] = pend[p]
  PROVE  /\ \A p \in DOMAIN pend : h.id <= p
         /\ Lines(letters \ {h}, queue, left)
         /\ AllInLine(letters, queue, pend) => AllInLine(letters \ {h}, queue, left)
<1>1. DOMAIN left = DOMAIN pend \ {h.id} /\ \A p \in DOMAIN left : left[p] = pend[p]
  OBVIOUS
<1>2. \A p \in DOMAIN pend : h.id <= p
  <2> SUFFICES ASSUME NEW p \in DOMAIN pend, ~(h.id <= p) PROVE FALSE
    OBVIOUS
  <2>1. p < h.id
    OBVIOUS
  <2>2. PICK n \in letters : n.id = p
    BY <2>1 DEF Lines
  <2> QED BY <2>1, <2>2
<1>3. \A x \in queue : h.id < x.id
  BY DEF Lines
<1>4. Lines(letters \ {h}, queue, left)
  <2>1. \A m \in letters \ {h} : m.id \in DOMAIN left
    BY <1>1 DEF Lines
  <2>2. \A x \in queue : x.id \in DOMAIN left /\ left[x.id] = x.job.call
    BY <1>1, <1>3 DEF Lines
  <2>3. \A m \in letters \ {h} : \A p \in DOMAIN left : p < m.id => \E n \in letters \ {h} : n.id = p
    BY <1>1 DEF Lines
  <2> QED BY <2>1, <2>2, <2>3 DEF Lines
<1>5. AllInLine(letters, queue, pend) => AllInLine(letters \ {h}, queue, left)
  BY <1>1 DEF AllInLine
<1> QED BY <1>1, <1>2, <1>4, <1>5

LEMMA SendLine ==
  ASSUME NEW letters, NEW queue, NEW pend, Lines(letters, queue, pend),
         NEW x, \A p \in DOMAIN pend : p \in Int /\ p < x.id, x.id \in Int,
         NEW more, DOMAIN more = DOMAIN pend \cup {x.id},
         \A p \in DOMAIN pend : more[p] = pend[p], more[x.id] = x.job.call
  PROVE  /\ Lines(letters, queue \cup {x}, more)
         /\ AllInLine(letters, queue, pend) => AllInLine(letters, queue \cup {x}, more)
<1>1. \A m \in letters : m.id \in DOMAIN pend /\ m.id < x.id
  BY DEF Lines
<1>2. \A m \in letters : \A p \in DOMAIN more : p < m.id => \E n \in letters : n.id = p
  <2> SUFFICES ASSUME NEW m \in letters, NEW p \in DOMAIN more, p < m.id
               PROVE  \E n \in letters : n.id = p
    OBVIOUS
  <2>1. m.id \in Int /\ m.id < x.id
    BY <1>1
  <2>2. p # x.id
    BY <2>1
  <2> QED BY <2>2 DEF Lines
<1>3. Lines(letters, queue \cup {x}, more)
  BY <1>1, <1>2 DEF Lines
<1>4. AllInLine(letters, queue, pend) => AllInLine(letters, queue \cup {x}, more)
  BY DEF AllInLine
<1> QED BY <1>3, <1>4

LEMMA AnswerLine ==
  ASSUME NEW letters, NEW queue, NEW pend, Lines(letters, queue, pend),
         AllInLine(letters, queue, pend),
         NEW x \in queue, \A y \in queue \ {x} : x.id < y.id,
         \A y \in queue : y.id \in Int, \A n \in letters : n.id \in Int,
         NEW m, m.id = x.id
  PROVE  /\ Lines(letters \cup {m}, queue \ {x}, pend)
         /\ AllInLine(letters \cup {m}, queue \ {x}, pend)
<1>1. \A p \in DOMAIN pend : p < m.id => \E n \in letters : n.id = p
  BY DEF AllInLine
<1>2. \A n \in letters \cup {m}, y \in queue \ {x} : n.id < y.id
  BY DEF Lines
<1>3. Lines(letters \cup {m}, queue \ {x}, pend)
  BY <1>1, <1>2 DEF Lines
<1>4. AllInLine(letters \cup {m}, queue \ {x}, pend)
  BY DEF AllInLine
<1> QED BY <1>3, <1>4

-----------------------------------------------------------------------------
\* The first letter comes before the others, which have later ids.
LEMMA FirstLetter ==
  ASSUME QueueTypes, MailInOrder, mail # <<>>
  PROVE  /\ Head(mail) \in Letter
         /\ Range(mail) = Range(Tail(mail)) \cup {Head(mail)}
         /\ \A m \in Range(Tail(mail)) :
              /\ m \in Letter
              /\ Head(mail).from = worker /\ m.from = worker =>
                   Head(mail).answer # "gone" /\ (m.answer # "gone" => Head(mail).id < m.id)
<1>1. mail \in Seq(Letter)
  BY DEF QueueTypes
<1>2. PICK t : t = Tail(mail)
  OBVIOUS
<1>3. /\ t \in Seq(Letter)
      /\ Len(mail) \in Nat /\ Len(mail) >= 1 /\ Len(t) = Len(mail) - 1
      /\ \A i \in 1..Len(t) : i + 1 \in 1..Len(mail) /\ t[i] = mail[i + 1]
      /\ Head(mail) \in Letter /\ Head(mail) = mail[1]
      /\ Range(mail) = {Head(mail)} \cup Range(t)
  BY <1>1, <1>2, TailOf
<1>4. Range(t) = {t[i] : i \in 1..Len(t)}
  BY <1>3, OfItsElements
<1>5. \A i \in 1..Len(t) : t[i].from = worker /\ Head(mail).from = worker =>
        /\ Head(mail).answer # "gone"
        /\ t[i].answer # "gone" => Head(mail).id < t[i].id
  <2> SUFFICES ASSUME NEW i \in 1..Len(t), t[i].from = worker, Head(mail).from = worker
               PROVE  /\ Head(mail).answer # "gone"
                      /\ t[i].answer # "gone" => Head(mail).id < t[i].id
    OBVIOUS
  <2>1. i + 1 \in 1..Len(mail) /\ 1 \in 1..Len(mail) /\ 1 < i + 1
    BY <1>3
  <2> QED BY <1>3, <2>1 DEF MailInOrder
<1>6. \A m \in Range(t) : m \in Letter
  <2>1. \A i \in 1..Len(t) : t[i] \in Letter
    BY <1>3, ElementOfSeq
  <2> QED BY <1>4, <2>1
<1> QED BY <1>2, <1>3, <1>4, <1>5, <1>6

\* Taking it leaves the others.
LEMMA TakeLetter ==
  ASSUME QueueTypes, MailInOrder, mail # <<>>, mail' = Tail(mail), worker' = worker
  PROVE  /\ mail' \in Seq(Letter) /\ MailInOrder'
         /\ Letters' = Letters \ {Head(mail)}
<1>1. mail \in Seq(Letter)
  BY DEF QueueTypes
<1>2. PICK t : t = Tail(mail)
  OBVIOUS
<1>3. /\ t \in Seq(Letter) /\ Len(t) = Len(mail) - 1 /\ Len(mail) \in Nat
      /\ \A i \in 1..Len(t) : i + 1 \in 1..Len(mail) /\ t[i] = mail[i + 1]
  BY <1>1, <1>2, TailOf
<1>4. MailInOrder'
  <2>1. \A i, j \in 1..Len(t) : i < j => i + 1 < j + 1
    BY <1>3
  <2>2. \A i, j \in 1..Len(t) :
          i < j /\ t[i].from = worker /\ t[j].from = worker =>
            /\ t[i].answer # "gone"
            /\ t[j].answer # "gone" => t[i].id < t[j].id
    BY <1>3, <2>1 DEF MailInOrder
  <2> QED BY <1>2, <2>2 DEF MailInOrder
<1>5. Letters' = {m \in Range(t) : m.from = worker /\ m.answer # "gone"}
  BY <1>2 DEF Letters
<1>6. /\ Range(mail) = Range(t) \cup {Head(mail)}
      /\ \A m \in Range(t) :
           /\ m.id \in Int
           /\ Head(mail).from = worker /\ m.from = worker =>
                Head(mail).answer # "gone" /\ (m.answer # "gone" => Head(mail).id < m.id)
  BY <1>2, FirstLetter DEF Letter
<1>7. Head(mail) \notin Letters'
  BY <1>5, <1>6
<1>8. Letters' = Letters \ {Head(mail)}
  BY <1>5, <1>6, <1>7 DEF Letters
<1> QED BY <1>2, <1>3, <1>4, <1>8

\* A letter that comes after what its isolate has sent before.
LEMMA AddLetter ==
  ASSUME QueueTypes, MailInOrder, NEW m \in Letter, mail' = Append(mail, m), worker' = worker,
         \A n \in Range(mail) : n.from = worker /\ m.from = worker =>
           n.answer # "gone" /\ (m.answer # "gone" => n.id < m.id)
  PROVE  /\ mail' \in Seq(Letter) /\ MailInOrder'
         /\ Range(mail') = Range(mail) \cup {m}
         /\ Letters' = Letters \cup {n \in {m} : n.from = worker /\ n.answer # "gone"}
<1>1. mail \in Seq(Letter)
  BY DEF QueueTypes
<1>2. PICK t : t = Append(mail, m)
  OBVIOUS
<1>3. /\ t \in Seq(Letter)
      /\ Len(mail) \in Nat /\ Len(t) = Len(mail) + 1
      /\ \A i \in 1..Len(mail) : t[i] = mail[i]
      /\ t[Len(mail) + 1] = m
      /\ Range(t) = Range(mail) \cup {m}
  BY <1>1, <1>2, AppendOf
<1>4. Range(mail) = {mail[i] : i \in 1..Len(mail)}
  BY <1>1, OfItsElements
<1>5. MailInOrder'
  <2> SUFFICES ASSUME NEW i \in 1..Len(t), NEW j \in 1..Len(t), i < j,
                      t[i].from = worker, t[j].from = worker
               PROVE  /\ t[i].answer # "gone"
                      /\ t[j].answer # "gone" => t[i].id < t[j].id
    BY <1>2 DEF MailInOrder
  <2>1. i \in 1..Len(mail) /\ t[i] = mail[i]
    BY <1>3
  <2>2. CASE j \in 1..Len(mail)
    BY <1>3, <2>1, <2>2 DEF MailInOrder
  <2>3. CASE j \notin 1..Len(mail)
    <3>1. j = Len(mail) + 1
      BY <1>3, <2>3
    <3> QED BY <1>3, <1>4, <2>1, <3>1
  <2> QED BY <2>2, <2>3
<1>6. Letters' = {n \in Range(t) : n.from = worker /\ n.answer # "gone"}
  BY <1>2 DEF Letters
<1> QED BY <1>2, <1>3, <1>5, <1>6 DEF Letters

\* The first message of an inbox has the least id.
LEMMA TakeMessage ==
  ASSUME QueueTypes, InboxInOrder, worker \in Workers, inbox[worker] # <<>>
  PROVE  /\ Head(inbox[worker]) \in Queue
         /\ Head(inbox[worker]) \in SentJob
         /\ Range(Tail(inbox[worker])) = Queue \ {Head(inbox[worker])}
         /\ \A y \in Queue \ {Head(inbox[worker])} : Head(inbox[worker]).id < y.id
         /\ \A i, j \in 1..Len(Tail(inbox[worker])) :
              i < j => Tail(inbox[worker])[i].id < Tail(inbox[worker])[j].id
<1>1. PICK s : s = inbox[worker]
  OBVIOUS
<1>2. s \in Seq(SentJob) /\ s # <<>> /\ worker # 0 /\ Queue = Range(s)
  BY <1>1 DEF QueueTypes, Workers, Queue
<1>3. PICK t : t = Tail(s)
  OBVIOUS
<1>4. /\ t \in Seq(SentJob)
      /\ Len(s) \in Nat /\ Len(s) >= 1 /\ Len(t) = Len(s) - 1
      /\ \A i \in 1..Len(t) : i + 1 \in 1..Len(s) /\ t[i] = s[i + 1]
      /\ Head(s) \in SentJob /\ Head(s) = s[1]
      /\ Range(s) = {Head(s)} \cup Range(t)
  BY <1>2, <1>3, TailOf
<1>5. \A i, j \in 1..Len(s) : i < j => s[i].id < s[j].id
  BY <1>1, <1>2 DEF InboxInOrder
<1>6. \A i \in 1..Len(t) : Head(s).id < t[i].id /\ t[i].id \in Int
  <2> SUFFICES ASSUME NEW i \in 1..Len(t) PROVE Head(s).id < t[i].id /\ t[i].id \in Int
    OBVIOUS
  <2>1. i + 1 \in 1..Len(s) /\ 1 \in 1..Len(s) /\ 1 < i + 1 /\ t[i] = s[i + 1]
    BY <1>4
  <2>2. t[i] \in SentJob
    BY <1>4, ElementOfSeq
  <2> QED BY <1>4, <1>5, <2>1, <2>2 DEF SentJob
<1>7. Range(t) = {t[i] : i \in 1..Len(t)}
  BY <1>4, OfItsElements
<1>8. \A y \in Range(t) : Head(s).id < y.id /\ y.id \in Int
  BY <1>6, <1>7
<1>9. Head(s) \notin Range(t)
  BY <1>8
<1>10. \A i, j \in 1..Len(t) : i < j => t[i].id < t[j].id
  <2>1. \A i, j \in 1..Len(t) : i < j => i + 1 < j + 1
    BY <1>4
  <2> QED BY <1>4, <1>5, <2>1
<1> QED BY <1>1, <1>2, <1>3, <1>4, <1>8, <1>9, <1>10

-----------------------------------------------------------------------------
\* Sending gives each job the next id, at the end of the inbox.
LEMMA SendOf ==
  ASSUME QueueTypes, NEW w \in Workers, NEW jobs \in Seq(Job), NEW pend,
         pend \in [DOMAIN pend -> Nat], \A p \in DOMAIN pend : p \in Nat /\ p < nextId,
         Send(w, jobs, pend)
  PROVE  /\ nextId' = nextId + Len(jobs) /\ Len(jobs) \in Nat
         /\ DOMAIN pending' = DOMAIN pend \cup {nextId + n - 1 : n \in 1..Len(jobs)}
         /\ pending' \in [DOMAIN pending' -> Nat]
         /\ \A p \in DOMAIN pend : pending'[p] = pend[p]
         /\ \A n \in 1..Len(jobs) : pending'[nextId + n - 1] = jobs[n].call
         /\ inbox' \in [Workers -> Seq(SentJob)]
         /\ \A v \in Workers \ {w} : inbox'[v] = inbox[v]
         /\ Len(inbox[w]) \in Nat /\ Len(inbox'[w]) = Len(inbox[w]) + Len(jobs)
         /\ \A i \in 1..Len(inbox[w]) : inbox'[w][i] = inbox[w][i]
         /\ \A n \in 1..Len(jobs) :
              inbox'[w][Len(inbox[w]) + n] = [id |-> nextId + n - 1, job |-> jobs[n]]
<1> DEFINE Fresh(n) == nextId + n - 1
           ids == {Fresh(n) : n \in 1..Len(jobs)}
           Nth(id) == CHOOSE n \in 1..Len(jobs) : Fresh(n) = id
<1>1. Len(jobs) \in Nat /\ DOMAIN jobs = 1..Len(jobs) /\ nextId \in Nat
  BY LenProperties DEF QueueTypes
<1>2. /\ pending' = [id \in ids \cup DOMAIN pend |-> IF id \in ids THEN jobs[Nth(id)].call ELSE pend[id]]
      /\ nextId' = nextId + Len(jobs)
      /\ inbox' = [inbox EXCEPT ![w] = @ \o [n \in 1..Len(jobs) |-> [id |-> Fresh(n), job |-> jobs[n]]]]
  BY <1>1 DEF Send, FreshId
<1>3. \A n \in 1..Len(jobs) : Nth(Fresh(n)) = n
  BY <1>1
<1>4. \A n \in 1..Len(jobs) : Fresh(n) \in Nat /\ Fresh(n) >= nextId /\ Fresh(n) \notin DOMAIN pend
  BY <1>1
<1>5. \A n \in 1..Len(jobs) : jobs[n] \in Job /\ jobs[n].call \in Nat
  <2>1. \A n \in 1..Len(jobs) : jobs[n] \in Job
    BY ElementOfSeq
  <2> QED BY <2>1 DEF Job
<1> HIDE DEF Nth
<1>6. /\ DOMAIN pending' = ids \cup DOMAIN pend
      /\ \A p \in DOMAIN pend : pending'[p] = pend[p]
      /\ \A n \in 1..Len(jobs) : pending'[Fresh(n)] = jobs[n].call
  BY <1>2, <1>3, <1>4
<1>7. pending' \in [DOMAIN pending' -> Nat]
  <2>1. \A id \in ids \cup DOMAIN pend : pending'[id] \in Nat
    BY <1>5, <1>6
  <2> QED BY <1>2, <2>1
<1>8. PICK msgs : msgs = [n \in 1..Len(jobs) |-> [id |-> Fresh(n), job |-> jobs[n]]]
  OBVIOUS
<1>9. msgs \in Seq(SentJob) /\ Len(msgs) = Len(jobs)
  <2>1. msgs \in [1..Len(jobs) -> SentJob]
    BY <1>4, <1>5, <1>8 DEF SentJob
  <2> QED BY <1>1, <2>1, SeqDef, LenProperties
<1>10. inbox[w] \in Seq(SentJob)
  BY DEF QueueTypes
<1>11. /\ inbox[w] \o msgs \in Seq(SentJob)
       /\ Len(inbox[w] \o msgs) = Len(inbox[w]) + Len(msgs)
       /\ \A i \in 1..Len(inbox[w]) + Len(msgs) :
            (inbox[w] \o msgs)[i] = IF i <= Len(inbox[w]) THEN inbox[w][i] ELSE msgs[i - Len(inbox[w])]
  BY <1>9, <1>10, ConcatProperties
<1>12. inbox' = [inbox EXCEPT ![w] = @ \o msgs]
  BY <1>2, <1>8
<1>13. inbox'[w] = inbox[w] \o msgs /\ \A v \in Workers \ {w} : inbox'[v] = inbox[v]
  BY <1>12 DEF QueueTypes
<1>14. inbox' \in [Workers -> Seq(SentJob)]
  BY <1>11, <1>12 DEF QueueTypes
<1>15. Len(inbox[w]) \in Nat /\ Len(inbox'[w]) = Len(inbox[w]) + Len(jobs)
  BY <1>9, <1>10, <1>11, <1>13, LenProperties
<1>16. \A i \in 1..Len(inbox[w]) : inbox'[w][i] = inbox[w][i]
  BY <1>1, <1>9, <1>11, <1>13, <1>15
<1>17. \A n \in 1..Len(jobs) : inbox'[w][Len(inbox[w]) + n] = msgs[n]
  <2> SUFFICES ASSUME NEW n \in 1..Len(jobs) PROVE inbox'[w][Len(inbox[w]) + n] = msgs[n]
    OBVIOUS
  <2>1. /\ Len(inbox[w]) + n \in 1..Len(inbox[w]) + Len(msgs)
        /\ ~(Len(inbox[w]) + n <= Len(inbox[w]))
        /\ (Len(inbox[w]) + n) - Len(inbox[w]) = n
    BY <1>1, <1>9, <1>15
  <2> QED BY <1>11, <1>13, <2>1
<1>18. \A n \in 1..Len(jobs) : inbox'[w][Len(inbox[w]) + n] = [id |-> Fresh(n), job |-> jobs[n]]
  BY <1>8, <1>17
<1> QED BY <1>1, <1>2, <1>6, <1>7, <1>13, <1>14, <1>15, <1>16, <1>18

\* One job more.
LEMMA SendOne ==
  ASSUME QueueTypes, NEW w \in Workers, NEW job \in Job, NEW pend,
         pend \in [DOMAIN pend -> Nat], \A p \in DOMAIN pend : p \in Nat /\ p < nextId,
         Send(w, <<job>>, pend)
  PROVE  /\ nextId' = nextId + 1
         /\ DOMAIN pending' = DOMAIN pend \cup {nextId}
         /\ pending' \in [DOMAIN pending' -> Nat]
         /\ \A p \in DOMAIN pend : pending'[p] = pend[p]
         /\ pending'[nextId] = job.call
         /\ inbox' \in [Workers -> Seq(SentJob)]
         /\ \A v \in Workers \ {w} : inbox'[v] = inbox[v]
         /\ Len(inbox[w]) \in Nat /\ Len(inbox'[w]) = Len(inbox[w]) + 1
         /\ \A i \in 1..Len(inbox[w]) : inbox'[w][i] = inbox[w][i]
         /\ inbox'[w][Len(inbox[w]) + 1] = [id |-> nextId, job |-> job]
         /\ Range(inbox'[w]) = Range(inbox[w]) \cup {[id |-> nextId, job |-> job]}
<1>1. PICK jobs : jobs = <<job>>
  OBVIOUS
<1>2. jobs \in Seq(Job) /\ Len(jobs) = 1 /\ jobs[1] = job
  BY <1>1
<1>3. nextId \in Nat /\ nextId + 1 - 1 = nextId /\ 1..1 = {1}
  BY DEF QueueTypes
<1>4. Send(w, jobs, pend)
  BY <1>1
<1>5. /\ nextId' = nextId + Len(jobs) /\ Len(jobs) \in Nat
      /\ DOMAIN pending' = DOMAIN pend \cup {nextId + n - 1 : n \in 1..Len(jobs)}
      /\ pending' \in [DOMAIN pending' -> Nat]
      /\ \A p \in DOMAIN pend : pending'[p] = pend[p]
      /\ \A n \in 1..Len(jobs) : pending'[nextId + n - 1] = jobs[n].call
      /\ inbox' \in [Workers -> Seq(SentJob)]
      /\ \A v \in Workers \ {w} : inbox'[v] = inbox[v]
      /\ Len(inbox[w]) \in Nat /\ Len(inbox'[w]) = Len(inbox[w]) + Len(jobs)
      /\ \A i \in 1..Len(inbox[w]) : inbox'[w][i] = inbox[w][i]
      /\ \A n \in 1..Len(jobs) :
           inbox'[w][Len(inbox[w]) + n] = [id |-> nextId + n - 1, job |-> jobs[n]]
  BY <1>2, <1>4, SendOf
<1>6. DOMAIN pending' = DOMAIN pend \cup {nextId} /\ pending'[nextId] = job.call
  BY <1>2, <1>3, <1>5
<1>7. inbox'[w][Len(inbox[w]) + 1] = [id |-> nextId, job |-> job]
  BY <1>2, <1>3, <1>5
<1>8. Range(inbox'[w]) = Range(inbox[w]) \cup {[id |-> nextId, job |-> job]}
  <2>1. inbox[w] \in Seq(SentJob) /\ inbox'[w] \in Seq(SentJob)
    BY <1>5 DEF QueueTypes
  <2>2. Len(inbox[w]) \in Nat /\ Len(inbox'[w]) = Len(inbox[w]) + 1
    BY <1>2, <1>5
  <2>3. PICK s : s = inbox[w]
    OBVIOUS
  <2>4. PICK t : t = inbox'[w]
    OBVIOUS
  <2>5. PICK x : x = [id |-> nextId, job |-> job]
    OBVIOUS
  <2>6. s \in Seq(SentJob) /\ t \in Seq(SentJob) /\ Len(s) \in Nat /\ Len(t) = Len(s) + 1
    BY <2>1, <2>2, <2>3, <2>4
  <2>7. t[Len(s) + 1] = x /\ \A i \in 1..Len(s) : t[i] = s[i]
    BY <1>5, <1>7, <2>3, <2>4, <2>5
  <2>8. Range(t) = Range(s) \cup {x}
    BY <2>6, <2>7, OneMore
  <2> QED BY <2>3, <2>4, <2>5, <2>8
<1> QED BY <1>2, <1>5, <1>6, <1>7, <1>8

\* A job for the worker goes to the end of its line.
LEMMA SendKeepsLines ==
  ASSUME QueueTypes, ServingHasMessage, InboxInOrder, worker \in Workers,
         NEW job \in Job, NEW pend, Send(worker, <<job>>, pend),
         pend \in [DOMAIN pend -> Nat], \A p \in DOMAIN pend : p \in Nat /\ p < nextId,
         IsFiniteSet(DOMAIN pend), Cardinality(DOMAIN pend) < MaxPending,
         NEW letters, Lines(letters, Queue, pend),
         phase[worker] = "alive" => AllInLine(letters, Queue, pend),
         Letters' = letters, mail' \in Seq(Letter),
         UNCHANGED <<worker, phase, serving, waiting>>
  PROVE  /\ QueueTypes' /\ PendingTypes' /\ ServingHasMessage' /\ InboxInOrder'
         /\ Queue' = Queue \cup {[id |-> nextId, job |-> job]}
         /\ Lines(Letters, Queue, pending)'
         /\ (worker # 0 /\ phase[worker] = "alive" => AllInLine(Letters, Queue, pending))'
<1> DEFINE x == [id |-> nextId, job |-> job]
<1>1. /\ nextId' = nextId + 1
      /\ DOMAIN pending' = DOMAIN pend \cup {nextId}
      /\ pending' \in [DOMAIN pending' -> Nat]
      /\ \A p \in DOMAIN pend : pending'[p] = pend[p]
      /\ pending'[nextId] = job.call
      /\ inbox' \in [Workers -> Seq(SentJob)]
      /\ \A v \in Workers \ {worker} : inbox'[v] = inbox[v]
      /\ Len(inbox[worker]) \in Nat /\ Len(inbox'[worker]) = Len(inbox[worker]) + 1
      /\ \A i \in 1..Len(inbox[worker]) : inbox'[worker][i] = inbox[worker][i]
      /\ inbox'[worker][Len(inbox[worker]) + 1] = x
      /\ Range(inbox'[worker]) = Range(inbox[worker]) \cup {x}
  BY SendOne
<1>2. nextId \in Nat /\ worker # 0 /\ x.id = nextId /\ x.job = job
  BY DEF QueueTypes, Workers
<1> HIDE DEF x
<1>3. QueueTypes'
  BY <1>1, <1>2 DEF QueueTypes
<1>4. PendingTypes'
  <2>1. \A p \in DOMAIN pending' : p \in Nat /\ p < nextId'
    BY <1>1, <1>2
  <2>2. IsFiniteSet(DOMAIN pend \cup {nextId})
        /\ Cardinality(DOMAIN pend \cup {nextId})
             = IF nextId \in DOMAIN pend THEN Cardinality(DOMAIN pend) ELSE Cardinality(DOMAIN pend) + 1
    BY FS_AddElement
  <2>3. Cardinality(DOMAIN pend) \in Nat
    BY FS_CardinalityType
  <2>4. Cardinality(DOMAIN pend \cup {nextId}) <= MaxPending
    BY <2>2, <2>3, WorkerAssumption
  <2> QED BY <1>1, <2>1, <2>2, <2>4 DEF PendingTypes
<1>5. ServingHasMessage'
  <2> SUFFICES ASSUME NEW w \in Workers, serving[w] PROVE inbox'[w] # <<>>
    BY DEF ServingHasMessage
  <2>1. CASE w = worker
    <3>1. Len(inbox'[worker]) # 0
      BY <1>1
    <3> QED BY <2>1, <3>1
  <2>2. CASE w # worker
    BY <1>1, <2>2 DEF ServingHasMessage
  <2> QED BY <2>1, <2>2
<1>6. \A y \in Queue : y.id \in DOMAIN pend /\ y.id < nextId
  BY DEF Lines
<1>7. InboxInOrder'
  <2> SUFFICES ASSUME NEW i \in 1..Len(inbox'[worker]), NEW j \in 1..Len(inbox'[worker]), i < j
               PROVE  inbox'[worker][i].id < inbox'[worker][j].id
    BY DEF InboxInOrder
  <2>1. i \in 1..Len(inbox[worker]) /\ inbox'[worker][i] = inbox[worker][i]
    BY <1>1
  <2>2. CASE j \in 1..Len(inbox[worker])
    BY <1>1, <1>2, <2>1, <2>2 DEF InboxInOrder
  <2>3. CASE j \notin 1..Len(inbox[worker])
    <3>1. j = Len(inbox[worker]) + 1
      BY <1>1, <2>3
    <3>2. inbox[worker] \in Seq(SentJob)
      BY DEF QueueTypes
    <3>3. inbox[worker][i] \in Queue
      BY <1>2, <2>1, <3>2, OfItsElements DEF Queue
    <3> QED BY <1>1, <1>2, <1>6, <2>1, <3>1, <3>3
  <2> QED BY <2>2, <2>3
<1>8. Queue' = Queue \cup {x}
  BY <1>1, <1>2 DEF Queue
<1>9. PICK more : more = pending'
  OBVIOUS
<1>10. PICK queue : queue = Queue
  OBVIOUS
<1>11. /\ Lines(letters, queue \cup {x}, more)
       /\ AllInLine(letters, queue, pend) => AllInLine(letters, queue \cup {x}, more)
  <2>1. Lines(letters, queue, pend)
    BY <1>10
  <2>2. \A p \in DOMAIN pend : p \in Int /\ p < x.id
    BY <1>2
  <2>3. DOMAIN more = DOMAIN pend \cup {x.id} /\ more[x.id] = x.job.call
        /\ \A p \in DOMAIN pend : more[p] = pend[p]
    BY <1>1, <1>2, <1>9
  <2>4. x.id \in Int
    BY <1>2
  <2> QED BY <2>1, <2>2, <2>3, <2>4, SendLine
<1>12. Lines(Letters, Queue, pending)'
  BY <1>8, <1>9, <1>10, <1>11 DEF Lines
<1>13. (worker # 0 /\ phase[worker] = "alive" => AllInLine(Letters, Queue, pending))'
  BY <1>8, <1>9, <1>10, <1>11 DEF AllInLine
<1> QED BY <1>3, <1>4, <1>5, <1>7, <1>8, <1>12, <1>13 DEF x

-----------------------------------------------------------------------------
\* The steps keep the lines.

LEMMA InitLines == Init => LinesInv
<1> SUFFICES ASSUME Init PROVE LinesInv
  OBVIOUS
<1>1. /\ worker = 0 /\ waiting = <<>> /\ pending = <<>> /\ nextId = 0 /\ mail = <<>>
      /\ phase = [w \in Workers |-> "unborn"]
      /\ inbox = [w \in Workers |-> <<>>]
      /\ serving = [w \in Workers |-> FALSE]
  BY DEF Init, WorkerInit
<1>2. Range(mail) = {} /\ DOMAIN pending = {} /\ Len(mail) = 0
  BY <1>1, EmptyRange
<1>3. QueueTypes
  BY <1>1 DEF QueueTypes
<1>4. PendingTypes
  <2>1. IsFiniteSet({}) /\ Cardinality({}) = 0
    BY FS_EmptySet
  <2>2. pending \in [DOMAIN pending -> Nat]
    BY <1>1
  <2> QED BY <1>2, <2>1, <2>2, WorkerAssumption DEF PendingTypes
<1>5. UnbornAreSilent /\ ServingHasMessage /\ NothingWaitsForNothing
  BY <1>1, <1>2 DEF UnbornAreSilent, ServingHasMessage, NothingWaitsForNothing
<1>6. InboxInOrder /\ MailInOrder /\ GoneIsGone
  BY <1>1, <1>2 DEF InboxInOrder, MailInOrder, GoneIsGone
<1>7. Lines(Letters, Queue, pending)
  BY <1>1, <1>2 DEF Lines, Letters, Queue
<1> QED BY <1>1, <1>3, <1>4, <1>5, <1>6, <1>7 DEF LinesInv

\* What every letter and message is.
LEMMA LineTypes ==
  ASSUME WorkerInv, LinesInv
  PROVE  /\ \A m \in Range(mail) : m \in Letter /\ m.id \in Int /\ m.from \in Workers /\ m.from # 0
         /\ \A m \in Letters : m \in Range(mail)
         /\ \A x \in Queue : x \in SentJob /\ x.id \in Nat /\ x.job \in Job
         /\ worker = 0 => Letters = {} /\ Queue = {}
         /\ \A p \in DOMAIN pending : p \in Int
<1>1. \A m \in Range(mail) : m \in Letter
  <2>1. Range(mail) = {mail[i] : i \in 1..Len(mail)}
    BY OfItsElements DEF LinesInv, QueueTypes
  <2>2. \A i \in 1..Len(mail) : mail[i] \in Letter
    BY ElementOfSeq DEF LinesInv, QueueTypes
  <2> QED BY <2>1, <2>2
<1>2. \A m \in Range(mail) : m.id \in Int /\ m.from \in Workers /\ m.from # 0
  BY <1>1 DEF Letter, Workers
<1>3. \A x \in Queue : x \in SentJob
  <2> SUFFICES ASSUME worker \in Workers, NEW x \in Range(inbox[worker]) PROVE x \in SentJob
    BY DEF Queue, WorkerInv, ClientInv
  <2>1. PICK s \in Seq(SentJob) : s = inbox[worker]
    BY DEF LinesInv, QueueTypes
  <2>2. Range(s) = {s[i] : i \in 1..Len(s)}
    BY OfItsElements
  <2>3. \A i \in 1..Len(s) : s[i] \in SentJob
    BY ElementOfSeq
  <2> QED BY <2>1, <2>2, <2>3
<1>4. worker = 0 => Letters = {} /\ Queue = {}
  BY <1>2 DEF Letters, Queue
<1> QED BY <1>1, <1>2, <1>3, <1>4 DEF Letters, LinesInv, PendingTypes, SentJob

\* A call waits for a start, is refused or is sent.
LEMMA MakeKeepsLines ==
  ASSUME WorkerInv, LinesInv, Len(calls) \in Nat,
         NEW op, NEW handle, NEW todo, Head(todo) \in NativeOps, Make(op, handle, todo)
  PROVE  LinesInv'
<1>1. PICK job \in Job : job = [call |-> NewCall, op |-> Head(todo)]
  <2>1. NewCall \in Nat
    BY DEF NewCall
  <2> QED BY <2>1 DEF Job
<1>2. Invoke(job, pending) /\ UNCHANGED <<worker, phase, serving, mail>>
  BY <1>1 DEF Make
<1>3. Letters' = Letters
  BY <1>2 DEF Letters
<1>4. CASE UNCHANGED <<pending, nextId, inbox>> /\ QueueTypes' /\ NothingWaitsForNothing'
  <2>1. Queue' = Queue
    BY <1>2, <1>4 DEF Queue
  <2>2. PendingTypes' /\ UnbornAreSilent' /\ ServingHasMessage' /\ InboxInOrder' /\ MailInOrder' /\ GoneIsGone'
    BY <1>2, <1>4 DEF LinesInv, PendingTypes, UnbornAreSilent, ServingHasMessage, InboxInOrder,
                      MailInOrder, GoneIsGone
  <2>3. Lines(Letters, Queue, pending)'
    BY <1>3, <1>4, <2>1 DEF LinesInv, Lines
  <2>4. (worker # 0 /\ phase[worker] = "alive" => AllInLine(Letters, Queue, pending))'
    BY <1>2, <1>3, <1>4, <2>1 DEF LinesInv, AllInLine
  <2> QED BY <1>4, <2>2, <2>3, <2>4 DEF LinesInv
<1>5. CASE /\ NeedsStart \/ starting > 0
           /\ IF NeedsStart THEN started' = TRUE /\ starting' = starting + 1
                            ELSE UNCHANGED <<started, starting>>
           /\ waiting' = Append(waiting, job)
           /\ UNCHANGED <<pending, nextId, inbox>>
  <2>1. waiting' \in Seq(Job)
    BY <1>5, AppendProperties DEF LinesInv, QueueTypes
  <2>2. starting' # 0
    BY <1>5 DEF WorkerInv, ClientInv
  <2>3. QueueTypes' /\ NothingWaitsForNothing'
    BY <1>2, <1>5, <2>1, <2>2 DEF LinesInv, QueueTypes, NothingWaitsForNothing
  <2> QED BY <1>4, <1>5, <2>3
<1>6. CASE UNCHANGED <<pending, started, starting, waiting, nextId, inbox>>
  <2>1. QueueTypes' /\ NothingWaitsForNothing'
    BY <1>2, <1>6 DEF LinesInv, QueueTypes, NothingWaitsForNothing
  <2> QED BY <1>4, <1>6, <2>1
<1>7. CASE /\ ~NeedsStart /\ starting = 0 /\ ~Refused(pending)
           /\ Send(worker, <<job>>, pending)
           /\ UNCHANGED <<started, starting, waiting>>
  <2>1. worker \in Workers /\ Room(pending) > 0
    <3>1. started /\ starting = 0
      BY <1>7 DEF NeedsStart
    <3>2. worker # 0 /\ ~(Room(pending) <= 0)
      BY <1>7, <3>1 DEF Refused
    <3>3. Cardinality(DOMAIN pending) \in Nat
      BY FS_CardinalityType DEF LinesInv, PendingTypes
    <3>4. Room(pending) \in Int
      BY <3>3, WorkerAssumption DEF Room
    <3> QED BY <3>2, <3>4 DEF WorkerInv, ClientInv
  <2>2. Cardinality(DOMAIN pending) < MaxPending
    <3>1. Cardinality(DOMAIN pending) \in Nat
      BY FS_CardinalityType DEF LinesInv, PendingTypes
    <3> QED BY <2>1, <3>1, WorkerAssumption DEF Room
  <2>3. PICK pend : pend = pending
    OBVIOUS
  <2>4. PICK letters : letters = Letters
    OBVIOUS
  <2>5. /\ QueueTypes /\ ServingHasMessage /\ InboxInOrder
        /\ pend \in [DOMAIN pend -> Nat] /\ \A p \in DOMAIN pend : p \in Nat /\ p < nextId
        /\ IsFiniteSet(DOMAIN pend) /\ Cardinality(DOMAIN pend) < MaxPending
        /\ Lines(letters, Queue, pend)
        /\ phase[worker] = "alive" => AllInLine(letters, Queue, pend)
        /\ mail' \in Seq(Letter) /\ Letters' = letters
        /\ Send(worker, <<job>>, pend)
    BY <1>2, <1>3, <1>7, <2>1, <2>2, <2>3, <2>4 DEF LinesInv, PendingTypes, Workers, QueueTypes
  <2>6. /\ QueueTypes' /\ PendingTypes' /\ ServingHasMessage' /\ InboxInOrder'
        /\ Lines(Letters, Queue, pending)'
        /\ (worker # 0 /\ phase[worker] = "alive" => AllInLine(Letters, Queue, pending))'
    BY <1>2, <1>7, <2>1, <2>5, SendKeepsLines
  <2>7. \A v \in Workers \ {worker} : inbox'[v] = inbox[v]
    BY <2>1, <2>5, SendOne
  <2>8. UnbornAreSilent'
    BY <1>2, <2>1, <2>7 DEF LinesInv, UnbornAreSilent, Workers
  <2>9. NothingWaitsForNothing' /\ MailInOrder' /\ GoneIsGone'
    BY <1>2, <1>7, <2>1 DEF LinesInv, NothingWaitsForNothing, MailInOrder, GoneIsGone, Workers
  <2> QED BY <2>6, <2>8, <2>9 DEF LinesInv
<1> QED BY <1>2, <1>5, <1>6, <1>7 DEF Invoke

\* The invokes that a start resumes are the first in a new worker's line.
LEMMA StartedSends ==
  ASSUME WorkerInv, LinesInv, NEW w \in Workers, phase[w] = "unborn", starting > 0,
         Send(w, SubSeq(waiting, 1, Admitted), pending)
  PROVE  /\ Admitted \in Nat /\ Admitted <= Len(waiting) /\ Admitted <= MaxPending
         /\ Len(waiting) \in Nat
         /\ nextId' = nextId + Admitted
         /\ DOMAIN pending' = {nextId + n - 1 : n \in 1..Admitted}
         /\ pending' \in [DOMAIN pending' -> Nat]
         /\ \A n \in 1..Admitted : pending'[nextId + n - 1] = waiting[n].call
         /\ inbox' \in [Workers -> Seq(SentJob)]
         /\ \A v \in Workers \ {w} : inbox'[v] = inbox[v]
         /\ Len(inbox'[w]) = Admitted
         /\ \A n \in 1..Admitted : inbox'[w][n] = [id |-> nextId + n - 1, job |-> waiting[n]]
<1>1. worker = 0 /\ DOMAIN pending = {} /\ inbox[w] = <<>> /\ Len(inbox[w]) = 0
  BY DEF WorkerInv, ClientInv, LinesInv, NothingWaitsForNothing, UnbornAreSilent
<1>2. waiting \in Seq(Job) /\ Len(waiting) \in Nat
  BY LenProperties DEF LinesInv, QueueTypes
<1>3. Room(pending) = MaxPending
  BY <1>1, FS_EmptySet, WorkerAssumption DEF Room
<1>4. Admitted \in Nat /\ Admitted <= Len(waiting) /\ Admitted <= MaxPending
  BY <1>2, <1>3, WorkerAssumption DEF Admitted
<1>5. PICK jobs : jobs = SubSeq(waiting, 1, Admitted)
  OBVIOUS
<1>6. jobs \in Seq(Job) /\ Len(jobs) = Admitted /\ \A n \in 1..Admitted : jobs[n] = waiting[n]
  <2>1. \A n \in 1..Admitted : waiting[n] \in Job
    BY <1>2, <1>4, ElementOfSeq
  <2>2. PICK k \in Nat : k = Admitted
    BY <1>4
  <2>3. /\ SubSeq(waiting, 1, k) \in Seq(Job)
        /\ Len(SubSeq(waiting, 1, k)) = IF 1 <= k THEN k - 1 + 1 ELSE 0
        /\ \A i \in 1..(k - 1 + 1) : SubSeq(waiting, 1, k)[i] = waiting[1 + i - 1]
    BY <2>1, <2>2, SubSeqProperties
  <2>4. k - 1 + 1 = k /\ \A i \in 1..k : 1 + i - 1 = i
    OBVIOUS
  <2> QED BY <1>4, <1>5, <2>2, <2>3, <2>4
<1>7. PICK pend : pend = pending
  OBVIOUS
<1>8. /\ QueueTypes
      /\ pend \in [DOMAIN pend -> Nat] /\ \A p \in DOMAIN pend : p \in Nat /\ p < nextId
      /\ Send(w, jobs, pend)
  BY <1>5, <1>7 DEF LinesInv, PendingTypes
<1>9. /\ nextId' = nextId + Len(jobs) /\ Len(jobs) \in Nat
      /\ DOMAIN pending' = DOMAIN pend \cup {nextId + n - 1 : n \in 1..Len(jobs)}
      /\ pending' \in [DOMAIN pending' -> Nat]
      /\ \A p \in DOMAIN pend : pending'[p] = pend[p]
      /\ \A n \in 1..Len(jobs) : pending'[nextId + n - 1] = jobs[n].call
      /\ inbox' \in [Workers -> Seq(SentJob)]
      /\ \A v \in Workers \ {w} : inbox'[v] = inbox[v]
      /\ Len(inbox[w]) \in Nat /\ Len(inbox'[w]) = Len(inbox[w]) + Len(jobs)
      /\ \A i \in 1..Len(inbox[w]) : inbox'[w][i] = inbox[w][i]
      /\ \A n \in 1..Len(jobs) :
           inbox'[w][Len(inbox[w]) + n] = [id |-> nextId + n - 1, job |-> jobs[n]]
  BY <1>6, <1>8, SendOf
<1>10. DOMAIN pending' = {nextId + n - 1 : n \in 1..Admitted}
  BY <1>1, <1>6, <1>7, <1>9
<1>11. Len(inbox'[w]) = Admitted
  BY <1>1, <1>4, <1>6, <1>9
<1>12. \A n \in 1..Admitted : inbox'[w][n] = [id |-> nextId + n - 1, job |-> waiting[n]]
  <2> SUFFICES ASSUME NEW n \in 1..Admitted
               PROVE  inbox'[w][n] = [id |-> nextId + n - 1, job |-> waiting[n]]
    OBVIOUS
  <2>1. Len(inbox[w]) + n = n
    BY <1>1
  <2> QED BY <1>6, <1>9, <2>1
<1>13. \A n \in 1..Admitted : pending'[nextId + n - 1] = waiting[n].call
  BY <1>6, <1>9
<1> QED BY <1>2, <1>4, <1>6, <1>9, <1>10, <1>11, <1>12, <1>13

LEMMA StartedKeepsLines ==
  ASSUME WorkerInv, LinesInv, StartSucceeds
  PROVE  LinesInv'
<1>1. PICK w \in Workers : /\ phase[w] = "unborn"
                           /\ worker' = w
                           /\ phase' = [phase EXCEPT ![w] = "alive"]
                           /\ Send(w, SubSeq(waiting, 1, Admitted), pending)
  BY DEF StartSucceeds
<1>2. starting > 0 /\ starting' = 0 /\ waiting' = <<>> /\ UNCHANGED <<started, serving, mail>>
  BY DEF StartSucceeds, WorkerInv, ClientInv
<1>3. PICK k : k = Admitted
  OBVIOUS
<1>4. /\ k \in Nat /\ k <= Len(waiting) /\ k <= MaxPending /\ Len(waiting) \in Nat
      /\ nextId' = nextId + k
      /\ DOMAIN pending' = {nextId + n - 1 : n \in 1..k}
      /\ pending' \in [DOMAIN pending' -> Nat]
      /\ \A n \in 1..k : pending'[nextId + n - 1] = waiting[n].call
      /\ inbox' \in [Workers -> Seq(SentJob)]
      /\ \A v \in Workers \ {w} : inbox'[v] = inbox[v]
      /\ Len(inbox'[w]) = k
      /\ \A n \in 1..k : inbox'[w][n] = [id |-> nextId + n - 1, job |-> waiting[n]]
  BY <1>1, <1>2, <1>3, StartedSends
<1>5. nextId \in Nat /\ w # 0 /\ phase \in [Workers -> Phases] /\ ~serving[w]
  BY <1>1 DEF LinesInv, QueueTypes, UnbornAreSilent, Workers, WorkerInv
<1>6. \A m \in Range(mail) : m.from # w
  BY <1>1 DEF LinesInv, UnbornAreSilent
<1>7. Letters' = {}
  BY <1>1, <1>2, <1>6 DEF Letters
<1>8. Range(inbox'[w]) = {[id |-> nextId + n - 1, job |-> waiting[n]] : n \in 1..k}
  <2>1. PICK s \in Seq(SentJob) : s = inbox'[w]
    BY <1>4
  <2>2. Range(s) = {s[i] : i \in 1..Len(s)}
    BY OfItsElements
  <2> QED BY <1>4, <2>1, <2>2
<1>9. Queue' = {[id |-> nextId + n - 1, job |-> waiting[n]] : n \in 1..k}
  BY <1>1, <1>5, <1>8 DEF Queue
<1>10. QueueTypes'
  <2>1. waiting' \in Seq(Job)
    BY <1>2
  <2> QED BY <1>2, <1>4, <1>5, <2>1 DEF LinesInv, QueueTypes
<1>11. PendingTypes'
  <2>1. \A p \in DOMAIN pending' : p \in Nat /\ p < nextId'
    BY <1>4, <1>5
  <2>2. IsFiniteSet(DOMAIN pending') /\ Cardinality(DOMAIN pending') = k
    <3>1. \A p \in DOMAIN pending' : p \in nextId..nextId + k - 1
      BY <1>4, <1>5
    <3>2. \A p \in nextId..nextId + k - 1 : p \in DOMAIN pending'
      <4> SUFFICES ASSUME NEW p \in nextId..nextId + k - 1 PROVE \E n \in 1..k : p = nextId + n - 1
        BY <1>4
      <4>1. p - nextId + 1 \in 1..k /\ p = nextId + (p - nextId + 1) - 1
        BY <1>4, <1>5
      <4> QED BY <4>1
    <3>3. DOMAIN pending' = nextId..nextId + k - 1
      BY <3>1, <3>2
    <3>4. nextId \in Int /\ nextId + k - 1 \in Int
      BY <1>4, <1>5
    <3>5. /\ IsFiniteSet(nextId..nextId + k - 1)
          /\ Cardinality(nextId..nextId + k - 1)
               = IF nextId > nextId + k - 1 THEN 0 ELSE (nextId + k - 1) - nextId + 1
      BY <3>4, FS_Interval
    <3>6. Cardinality(nextId..nextId + k - 1) = k
      BY <1>4, <1>5, <3>5
    <3> QED BY <3>3, <3>5, <3>6
  <2>3. Cardinality(DOMAIN pending') <= MaxPending
    BY <1>4, <2>2
  <2> QED BY <1>4, <2>1, <2>2, <2>3 DEF PendingTypes
<1>12. UnbornAreSilent'
  <2>1. phase'[w] = "alive" /\ \A v \in Workers \ {w} : phase'[v] = phase[v]
    BY <1>1, <1>5
  <2> QED BY <1>1, <1>2, <1>4, <2>1 DEF LinesInv, UnbornAreSilent
<1>13. ServingHasMessage'
  BY <1>2, <1>4, <1>5 DEF LinesInv, ServingHasMessage
<1>14. NothingWaitsForNothing'
  BY <1>1, <1>2, <1>5 DEF NothingWaitsForNothing
<1>15. InboxInOrder'
  BY <1>1, <1>4, <1>5 DEF InboxInOrder
<1>16. MailInOrder' /\ GoneIsGone'
  <2>1. \A i \in 1..Len(mail) : mail[i] \in Range(mail)
    BY OfItsElements DEF LinesInv, QueueTypes
  <2> QED BY <1>1, <1>2, <1>6, <2>1 DEF MailInOrder, GoneIsGone
<1>17. Lines(Letters, Queue, pending)'
  <2>1. \A x \in Queue' : x.id \in DOMAIN pending' /\ pending'[x.id] = x.job.call
    BY <1>4, <1>9
  <2> QED BY <1>7, <2>1 DEF Lines
<1>18. AllInLine(Letters, Queue, pending)'
  <2> SUFFICES ASSUME NEW p \in DOMAIN pending' PROVE \E x \in Queue' : x.id = p
    BY DEF AllInLine
  <2>1. PICK n \in 1..k : p = nextId + n - 1
    BY <1>4
  <2>2. PICK x : x = [id |-> nextId + n - 1, job |-> waiting[n]]
    OBVIOUS
  <2> QED BY <1>9, <2>1, <2>2
<1> QED BY <1>10, <1>11, <1>12, <1>13, <1>14, <1>15, <1>16, <1>17, <1>18 DEF LinesInv

\* What the client hears is the answer to the request that has waited longest.
LEMMA HeardFirst ==
  ASSUME WorkerInv, LinesInv, NEW kinds, "gone" \notin kinds, Heard(kinds)
  PROVE  /\ worker \in Workers /\ worker # 0
         /\ Message \in Letters /\ Message.answer \in kinds
         /\ Message.id \in DOMAIN pending
         /\ \A p \in DOMAIN pending : Message.id <= p
         /\ DOMAIN Rest = DOMAIN pending \ {Message.id}
         /\ \A p \in DOMAIN Rest : Rest[p] = pending[p]
         /\ Lines(Letters \ {Message}, Queue, Rest)
         /\ phase[worker] = "alive" => AllInLine(Letters \ {Message}, Queue, Rest)
<1>1. QueueTypes /\ MailInOrder /\ mail # <<>> /\ Message = Head(mail)
  BY DEF LinesInv, Heard, Message
<1>2. /\ Message \in Letter
      /\ Range(mail) = Range(Tail(mail)) \cup {Message}
      /\ \A m \in Range(Tail(mail)) :
           /\ m \in Letter
           /\ Message.from = worker /\ m.from = worker =>
                Message.answer # "gone" /\ (m.answer # "gone" => Message.id < m.id)
  BY <1>1, FirstLetter
<1>3. Message.from = worker /\ Message.answer \in kinds
  BY DEF Heard
<1>4. worker \in Workers /\ worker # 0
  BY <1>2, <1>3 DEF Letter, Workers
<1>5. Message \in Letters
  BY <1>2, <1>3 DEF Letters
<1>6. \A m \in Letters \ {Message} : Message.id < m.id
  BY <1>2, <1>3 DEF Letters
<1>7. PICK letters : letters = Letters
  OBVIOUS
<1>8. PICK queue : queue = Queue
  OBVIOUS
<1>9. PICK pend : pend = pending
  OBVIOUS
<1>10. PICK h : h = Message
  OBVIOUS
<1>11. PICK left : left = Rest
  OBVIOUS
<1>12. /\ Lines(letters, queue, pend)
       /\ phase[worker] = "alive" => AllInLine(letters, queue, pend)
  BY <1>4, <1>7, <1>8, <1>9 DEF LinesInv
<1>13. /\ h \in letters /\ \A m \in letters \ {h} : h.id < m.id
       /\ \A m \in letters : m.id \in Int
       /\ \A x \in queue : x.id \in Int
       /\ \A p \in DOMAIN pend : p \in Int
  BY <1>5, <1>6, <1>7, <1>8, <1>9, <1>10, LineTypes
<1>14. DOMAIN left = DOMAIN pend \ {h.id} /\ \A p \in DOMAIN left : left[p] = pend[p]
  BY <1>9, <1>10, <1>11 DEF Rest, Restrict
<1>15. /\ \A p \in DOMAIN pend : h.id <= p
       /\ Lines(letters \ {h}, queue, left)
       /\ AllInLine(letters, queue, pend) => AllInLine(letters \ {h}, queue, left)
  BY <1>12, <1>13, <1>14, HearLine
<1>16. h.id \in DOMAIN pend
  BY <1>12, <1>13 DEF Lines
<1> QED BY <1>3, <1>4, <1>5, <1>7, <1>8, <1>9, <1>10, <1>11, <1>12, <1>14, <1>15, <1>16

\* Rest is what is left to be answered.
LEMMA RestTypes ==
  ASSUME WorkerInv, LinesInv, NEW kinds, "gone" \notin kinds, Heard(kinds)
  PROVE  /\ Rest \in [DOMAIN Rest -> Nat]
         /\ \A p \in DOMAIN Rest : p \in Nat /\ p < nextId
         /\ IsFiniteSet(DOMAIN Rest) /\ Cardinality(DOMAIN Rest) < MaxPending
         /\ Answered \in Nat
<1>1. /\ Message.id \in DOMAIN pending
      /\ DOMAIN Rest = DOMAIN pending \ {Message.id}
      /\ \A p \in DOMAIN Rest : Rest[p] = pending[p]
  BY HeardFirst
<1>2. Rest = [p \in DOMAIN Rest |-> Rest[p]]
  BY DEF Rest, Restrict
<1>3. Rest \in [DOMAIN Rest -> Nat]
  BY <1>1, <1>2 DEF LinesInv, PendingTypes
<1>4. /\ IsFiniteSet(DOMAIN pending \ {Message.id})
      /\ Cardinality(DOMAIN pending \ {Message.id})
           = IF Message.id \in DOMAIN pending THEN Cardinality(DOMAIN pending) - 1 ELSE Cardinality(DOMAIN pending)
  BY FS_RemoveElement DEF LinesInv, PendingTypes
<1>5. Cardinality(DOMAIN pending) \in Nat /\ Cardinality(DOMAIN pending) <= MaxPending
  BY FS_CardinalityType DEF LinesInv, PendingTypes
<1>6. Cardinality(DOMAIN Rest) < MaxPending
  BY <1>1, <1>4, <1>5, WorkerAssumption
<1> QED BY <1>1, <1>3, <1>4, <1>6 DEF LinesInv, PendingTypes, Answered

\* Hearing takes the letter out of the line.
LEMMA HeardMail ==
  ASSUME WorkerInv, LinesInv, NEW kinds, Heard(kinds), worker' = worker
  PROVE  /\ mail' \in Seq(Letter) /\ MailInOrder'
         /\ Letters' = Letters \ {Message}
         /\ Range(mail') \subseteq Range(mail)
<1>1. QueueTypes /\ MailInOrder /\ mail # <<>> /\ Message = Head(mail) /\ mail' = Tail(mail)
  BY DEF LinesInv, Heard, Message
<1>2. Range(mail) = Range(Tail(mail)) \cup {Head(mail)}
  BY <1>1, FirstLetter
<1> QED BY <1>1, <1>2, TakeLetter

\* An answer to a call's last operation.
LEMMA CompleteKeepsLines ==
  ASSUME WorkerInv, LinesInv, NEW kinds, "gone" \notin kinds, Heard(kinds), Complete
  PROVE  LinesInv'
<1>1. /\ pending' = Rest
      /\ UNCHANGED <<started, starting, worker, waiting, nextId, phase, inbox, serving, native>>
  BY DEF Complete
<1>2. /\ worker # 0
      /\ Lines(Letters \ {Message}, Queue, Rest)
      /\ phase[worker] = "alive" => AllInLine(Letters \ {Message}, Queue, Rest)
  BY HeardFirst
<1>3. /\ Rest \in [DOMAIN Rest -> Nat]
      /\ \A p \in DOMAIN Rest : p \in Nat /\ p < nextId
      /\ IsFiniteSet(DOMAIN Rest) /\ Cardinality(DOMAIN Rest) < MaxPending
  BY RestTypes
<1>4. /\ mail' \in Seq(Letter) /\ MailInOrder'
      /\ Letters' = Letters \ {Message}
      /\ Range(mail') \subseteq Range(mail)
  BY <1>1, HeardMail
<1>5. Queue' = Queue
  BY <1>1 DEF Queue
<1>6. QueueTypes'
  BY <1>1, <1>4 DEF LinesInv, QueueTypes
<1>7. PendingTypes'
  <2>1. Cardinality(DOMAIN Rest) \in Nat
    BY <1>3, FS_CardinalityType
  <2> QED BY <1>1, <1>3, <2>1, WorkerAssumption DEF PendingTypes
<1>8. UnbornAreSilent' /\ ServingHasMessage' /\ NothingWaitsForNothing' /\ InboxInOrder' /\ GoneIsGone'
  BY <1>1, <1>2, <1>4 DEF LinesInv, UnbornAreSilent, ServingHasMessage, NothingWaitsForNothing,
                          InboxInOrder, GoneIsGone
<1>9. Lines(Letters, Queue, pending)'
  BY <1>1, <1>2, <1>4, <1>5 DEF Lines
<1>10. (worker # 0 /\ phase[worker] = "alive" => AllInLine(Letters, Queue, pending))'
  BY <1>1, <1>2, <1>4, <1>5 DEF AllInLine
<1> QED BY <1>4, <1>6, <1>7, <1>8, <1>9, <1>10 DEF LinesInv

\* An answer that the call's next operation follows.
LEMMA ContinueKeepsLines ==
  ASSUME WorkerInv, LinesInv, Continue, Head(Left) \in NativeOps
  PROVE  LinesInv'
<1>1. /\ Heard({"ok"})
      /\ Send(worker, <<[call |-> Answered, op |-> Head(Left)]>>, Rest)
      /\ UNCHANGED <<started, starting, worker, waiting, phase, serving, native>>
  BY DEF Continue
<1>2. /\ worker \in Workers /\ worker # 0
      /\ Lines(Letters \ {Message}, Queue, Rest)
      /\ phase[worker] = "alive" => AllInLine(Letters \ {Message}, Queue, Rest)
  BY <1>1, HeardFirst
<1>3. /\ Rest \in [DOMAIN Rest -> Nat]
      /\ \A p \in DOMAIN Rest : p \in Nat /\ p < nextId
      /\ IsFiniteSet(DOMAIN Rest) /\ Cardinality(DOMAIN Rest) < MaxPending
      /\ Answered \in Nat
  BY <1>1, RestTypes
<1>4. /\ mail' \in Seq(Letter) /\ MailInOrder'
      /\ Letters' = Letters \ {Message}
      /\ Range(mail') \subseteq Range(mail)
  BY <1>1, HeardMail
<1>5. PICK job \in Job : job = [call |-> Answered, op |-> Head(Left)]
  BY <1>3 DEF Job
<1>6. PICK pend : pend = Rest
  OBVIOUS
<1>7. PICK letters : letters = Letters \ {Message}
  OBVIOUS
<1>8. /\ QueueTypes /\ ServingHasMessage /\ InboxInOrder
      /\ pend \in [DOMAIN pend -> Nat] /\ \A p \in DOMAIN pend : p \in Nat /\ p < nextId
      /\ IsFiniteSet(DOMAIN pend) /\ Cardinality(DOMAIN pend) < MaxPending
      /\ Lines(letters, Queue, pend)
      /\ phase[worker] = "alive" => AllInLine(letters, Queue, pend)
      /\ Letters' = letters
      /\ Send(worker, <<job>>, pend)
  BY <1>1, <1>2, <1>3, <1>4, <1>5, <1>6, <1>7 DEF LinesInv
<1>9. /\ QueueTypes' /\ PendingTypes' /\ ServingHasMessage' /\ InboxInOrder'
      /\ Lines(Letters, Queue, pending)'
      /\ (worker # 0 /\ phase[worker] = "alive" => AllInLine(Letters, Queue, pending))'
  BY <1>1, <1>2, <1>4, <1>8, SendKeepsLines
<1>10. \A v \in Workers \ {worker} : inbox'[v] = inbox[v]
  BY <1>2, <1>8, SendOne
<1>11. UnbornAreSilent'
  BY <1>1, <1>2, <1>4, <1>10 DEF LinesInv, UnbornAreSilent
<1>12. NothingWaitsForNothing' /\ GoneIsGone'
  BY <1>1, <1>2, <1>4 DEF LinesInv, NothingWaitsForNothing, GoneIsGone
<1> QED BY <1>4, <1>9, <1>11, <1>12 DEF LinesInv

\* A message of an isolate that the client has given up.
LEMMA UnheardKeepsLines ==
  ASSUME WorkerInv, LinesInv, Unheard
  PROVE  LinesInv'
<1>1. /\ mail # <<>> /\ Message.from # worker /\ mail' = Tail(mail) /\ Message = Head(mail)
      /\ UNCHANGED <<starting, worker, waiting, pending, nextId, phase, inbox, serving>>
  BY DEF Unheard, clientVars, Message
<1>2. QueueTypes /\ MailInOrder
  BY DEF LinesInv
<1>3. mail' \in Seq(Letter) /\ MailInOrder' /\ Letters' = Letters \ {Head(mail)}
  BY <1>1, <1>2, TakeLetter
<1>4. Range(mail') \subseteq Range(mail)
  BY <1>1, <1>2, FirstLetter
<1>5. Letters' = Letters /\ Queue' = Queue
  BY <1>1, <1>3 DEF Letters, Queue
<1>6. QueueTypes' /\ PendingTypes'
  BY <1>1, <1>3 DEF LinesInv, QueueTypes, PendingTypes
<1>7. UnbornAreSilent' /\ ServingHasMessage' /\ NothingWaitsForNothing' /\ InboxInOrder' /\ GoneIsGone'
  BY <1>1, <1>4 DEF LinesInv, UnbornAreSilent, ServingHasMessage, NothingWaitsForNothing,
                    InboxInOrder, GoneIsGone
<1>8. Lines(Letters, Queue, pending)'
  BY <1>1, <1>5 DEF LinesInv, Lines
<1>9. (worker # 0 /\ phase[worker] = "alive" => AllInLine(Letters, Queue, pending))'
  BY <1>1, <1>5 DEF LinesInv, AllInLine
<1> QED BY <1>3, <1>6, <1>7, <1>8, <1>9 DEF LinesInv

\* A reset leaves no lines.
LEMMA ResetKeepsLines ==
  ASSUME WorkerInv, LinesInv, Reset, UNCHANGED <<nextId, serving>>,
         mail' = mail \/ (mail # <<>> /\ mail' = Tail(mail)),
         waiting' \in Seq(Job), starting' = 0 => waiting' = <<>>
  PROVE  LinesInv'
<1>1. /\ worker' = 0 /\ pending' = <<>>
      /\ phase' = [w \in Workers |->
                     IF w = worker /\ phase[w] = "alive"
                     THEN IF serving[w] THEN "killed" ELSE "gone" ELSE phase[w]]
      /\ inbox' = [w \in Workers |->
                     IF w # worker \/ inbox[w] = <<>> THEN inbox[w]
                     ELSE IF serving[w] THEN <<Head(inbox[w])>> ELSE <<>>]
  BY DEF Reset
<1>2. mail' \in Seq(Letter) /\ Range(mail') \subseteq Range(mail)
  <2>1. CASE mail' = mail
    BY <2>1 DEF LinesInv, QueueTypes
  <2>2. CASE mail # <<>> /\ mail' = Tail(mail)
    BY <2>2, TailOf DEF LinesInv, QueueTypes
  <2> QED BY <2>1, <2>2
<1>3. \A m \in Range(mail') : m.from # 0
  BY <1>2, LineTypes
<1>4. Letters' = {} /\ Queue' = {} /\ DOMAIN pending' = {}
  BY <1>1, <1>3 DEF Letters, Queue
<1>5. \A w \in Workers : inbox'[w] \in Seq(SentJob)
  <2> SUFFICES ASSUME NEW w \in Workers PROVE inbox'[w] \in Seq(SentJob)
    OBVIOUS
  <2>1. inbox[w] \in Seq(SentJob)
    BY DEF LinesInv, QueueTypes
  <2>2. inbox[w] # <<>> => Head(inbox[w]) \in SentJob
    BY <2>1, TailOf
  <2> QED BY <1>1, <2>1, <2>2
<1>6. QueueTypes'
  BY <1>1, <1>2, <1>5 DEF LinesInv, QueueTypes
<1>7. PendingTypes'
  <2>1. IsFiniteSet({}) /\ Cardinality({}) = 0
    BY FS_EmptySet
  <2>2. pending' \in [DOMAIN pending' -> Nat]
    BY <1>1
  <2> QED BY <1>4, <2>1, <2>2, WorkerAssumption DEF PendingTypes
<1>8. UnbornAreSilent'
  BY <1>1, <1>2 DEF LinesInv, UnbornAreSilent
<1>9. ServingHasMessage'
  BY <1>1 DEF LinesInv, ServingHasMessage
<1>10. NothingWaitsForNothing'
  BY <1>4 DEF NothingWaitsForNothing
<1>11. InboxInOrder'
  BY <1>1 DEF InboxInOrder
<1>12. MailInOrder' /\ GoneIsGone'
  <2>1. \A i \in 1..Len(mail') : mail'[i] \in Range(mail')
    BY <1>2, OfItsElements
  <2> QED BY <1>1, <1>3, <2>1 DEF MailInOrder, GoneIsGone
<1>13. Lines(Letters, Queue, pending)'
  BY <1>4 DEF Lines
<1> QED BY <1>1, <1>6, <1>7, <1>8, <1>9, <1>10, <1>11, <1>12, <1>13 DEF LinesInv

\* An isolate begins to serve its next message.
LEMMA TakeKeepsLines ==
  ASSUME WorkerInv, LinesInv, NEW w \in Workers, Take(w)
  PROVE  LinesInv'
<1>1. /\ phase[w] = "alive" /\ inbox[w] # <<>>
      /\ serving' = [serving EXCEPT ![w] = TRUE]
      /\ UNCHANGED <<starting, worker, waiting, pending, nextId, phase, inbox, mail>>
  BY DEF Take, clientVars
<1>2. Letters' = Letters /\ Queue' = Queue
  BY <1>1 DEF Letters, Queue
<1>3. QueueTypes' /\ PendingTypes'
  BY <1>1 DEF LinesInv, QueueTypes, PendingTypes
<1>4. UnbornAreSilent' /\ ServingHasMessage'
  BY <1>1 DEF LinesInv, QueueTypes, UnbornAreSilent, ServingHasMessage
<1>5. NothingWaitsForNothing' /\ InboxInOrder' /\ MailInOrder' /\ GoneIsGone'
  BY <1>1 DEF LinesInv, NothingWaitsForNothing, InboxInOrder, MailInOrder, GoneIsGone
<1>6. Lines(Letters, Queue, pending)'
  BY <1>1, <1>2 DEF LinesInv, Lines
<1>7. (worker # 0 /\ phase[worker] = "alive" => AllInLine(Letters, Queue, pending))'
  BY <1>1, <1>2 DEF LinesInv, AllInLine
<1> QED BY <1>3, <1>4, <1>5, <1>6, <1>7 DEF LinesInv

\* The message that an isolate serves is answered, unless it has been killed.
AnswerIs(w, answer) ==
  /\ Serving(w)
  /\ mail' = IF phase[w] = "killed" THEN mail
             ELSE Append(mail, [from |-> w, id |-> Head(inbox[w]).id, answer |-> answer])
  /\ phase' = [phase EXCEPT ![w] = IF @ = "killed" THEN "gone" ELSE @]
  /\ inbox' = [inbox EXCEPT ![w] = Tail(@)]
  /\ serving' = [serving EXCEPT ![w] = FALSE]
  /\ UNCHANGED clientVars

\* What that does to the line of the client's worker, and to no other.
LEMMA AnswerOfWorker ==
  ASSUME WorkerInv, LinesInv, worker \in Workers,
         NEW answer \in {"ok", "refused", "closed", "thrown"}, AnswerIs(worker, answer)
  PROVE  /\ phase[worker] = "alive" /\ phase' = phase
         /\ Head(inbox[worker]) \in Queue
         /\ Letters' = Letters \cup {[from |-> worker, id |-> Head(inbox[worker]).id, answer |-> answer]}
         /\ Queue' = Queue \ {Head(inbox[worker])}
         /\ LinesInv'
<1> DEFINE x == Head(inbox[worker])
           m == [from |-> worker, id |-> x.id, answer |-> answer]
<1>1. worker # 0 /\ phase \in [Workers -> Phases] /\ phase[worker] = "alive" /\ serving[worker] /\ inbox[worker] # <<>>
  BY DEF AnswerIs, Serving, LinesInv, UnbornAreSilent, ServingHasMessage, Workers, WorkerInv
<1>2. /\ mail' = Append(mail, m)
      /\ phase' = phase
      /\ inbox' = [inbox EXCEPT ![worker] = Tail(@)]
      /\ serving' = [serving EXCEPT ![worker] = FALSE]
      /\ UNCHANGED <<starting, worker, waiting, pending, nextId>>
  BY <1>1 DEF AnswerIs, clientVars
<1>3. /\ x \in Queue /\ x \in SentJob
      /\ Range(Tail(inbox[worker])) = Queue \ {x}
      /\ \A y \in Queue \ {x} : x.id < y.id
      /\ \A i, j \in 1..Len(Tail(inbox[worker])) :
           i < j => Tail(inbox[worker])[i].id < Tail(inbox[worker])[j].id
  BY <1>1, TakeMessage DEF LinesInv
<1>4. x.id \in Nat
  BY <1>3 DEF SentJob
<1> HIDE DEF x
<1>5. m \in Letter /\ m.from = worker /\ m.id = x.id /\ m.answer # "gone"
  BY <1>4 DEF Letter
<1> HIDE DEF m
<1>6. \A n \in Range(mail) : n.from = worker => n.answer # "gone" /\ n.id < m.id
  BY <1>1, <1>3, <1>5 DEF LinesInv, GoneIsGone, Lines, Letters
<1>7. /\ mail' \in Seq(Letter) /\ MailInOrder'
      /\ Range(mail') = Range(mail) \cup {m}
      /\ Letters' = Letters \cup {n \in {m} : n.from = worker /\ n.answer # "gone"}
  <2>1. QueueTypes /\ MailInOrder /\ worker' = worker
    BY <1>2 DEF LinesInv
  <2> QED BY <1>2, <1>5, <1>6, <2>1, AddLetter
<1>8. Letters' = Letters \cup {m}
  BY <1>5, <1>7
<1>9. inbox'[worker] = Tail(inbox[worker]) /\ \A v \in Workers \ {worker} : inbox'[v] = inbox[v]
  BY <1>2 DEF LinesInv, QueueTypes
<1>10. Queue' = Queue \ {x}
  BY <1>1, <1>2, <1>3, <1>9 DEF Queue
<1>11. QueueTypes'
  <2>1. Tail(inbox[worker]) \in Seq(SentJob)
    BY <1>1, TailOf DEF LinesInv, QueueTypes
  <2> QED BY <1>2, <1>7, <2>1 DEF LinesInv, QueueTypes
<1>12. PendingTypes'
  BY <1>2 DEF LinesInv, PendingTypes
<1>13. UnbornAreSilent' /\ ServingHasMessage'
  BY <1>1, <1>2, <1>5, <1>7, <1>9 DEF LinesInv, QueueTypes, UnbornAreSilent, ServingHasMessage
<1>14. NothingWaitsForNothing' /\ GoneIsGone'
  BY <1>2, <1>5, <1>7 DEF LinesInv, NothingWaitsForNothing, GoneIsGone
<1>15. InboxInOrder'
  BY <1>2, <1>3, <1>9 DEF InboxInOrder
<1>16. PICK letters : letters = Letters
  OBVIOUS
<1>17. PICK queue : queue = Queue
  OBVIOUS
<1>18. PICK pend : pend = pending
  OBVIOUS
<1>19. /\ Lines(letters \cup {m}, queue \ {x}, pend)
       /\ AllInLine(letters \cup {m}, queue \ {x}, pend)
  <2>1. Lines(letters, queue, pend) /\ AllInLine(letters, queue, pend)
    BY <1>1, <1>16, <1>17, <1>18 DEF LinesInv
  <2>2. /\ x \in queue /\ \A y \in queue \ {x} : x.id < y.id
        /\ \A y \in queue : y.id \in Int
        /\ \A n \in letters : n.id \in Int
        /\ m.id = x.id
    BY <1>3, <1>5, <1>16, <1>17, LineTypes
  <2> QED BY <2>1, <2>2, AnswerLine
<1>20. Lines(Letters, Queue, pending)'
  BY <1>2, <1>8, <1>10, <1>16, <1>17, <1>18, <1>19 DEF Lines
<1>21. AllInLine(Letters, Queue, pending)'
  BY <1>2, <1>8, <1>10, <1>16, <1>17, <1>18, <1>19 DEF AllInLine
<1>22. LinesInv'
  BY <1>7, <1>11, <1>12, <1>13, <1>14, <1>15, <1>20, <1>21 DEF LinesInv
<1> QED BY <1>1, <1>2, <1>3, <1>8, <1>10, <1>22 DEF m, x

LEMMA AnswerOfOther ==
  ASSUME WorkerInv, LinesInv, NEW w \in Workers, w # worker,
         NEW answer \in {"ok", "refused", "closed", "thrown"}, AnswerIs(w, answer)
  PROVE  Letters' = Letters /\ Queue' = Queue /\ LinesInv'
<1> DEFINE m == [from |-> w, id |-> Head(inbox[w]).id, answer |-> answer]
<1>1. serving[w] /\ inbox[w] # <<>> /\ phase[w] \in {"alive", "killed"} /\ phase \in [Workers -> Phases]
  BY DEF AnswerIs, Serving, LinesInv, ServingHasMessage, WorkerInv
<1>2. /\ mail' = mail \/ mail' = Append(mail, m)
      /\ phase' = [phase EXCEPT ![w] = IF @ = "killed" THEN "gone" ELSE @]
      /\ inbox' = [inbox EXCEPT ![w] = Tail(@)]
      /\ serving' = [serving EXCEPT ![w] = FALSE]
      /\ UNCHANGED <<starting, worker, waiting, pending, nextId>>
  BY DEF AnswerIs, clientVars
<1>3. inbox[w] \in Seq(SentJob) /\ Tail(inbox[w]) \in Seq(SentJob) /\ Head(inbox[w]) \in SentJob
  BY <1>1, TailOf DEF LinesInv, QueueTypes
<1>4. m \in Letter /\ m.from = w /\ m.answer # "gone"
  BY <1>3 DEF Letter, SentJob
<1> HIDE DEF m
<1>5. /\ mail' \in Seq(Letter) /\ MailInOrder' /\ Letters' = Letters
      /\ Range(mail') \subseteq Range(mail) \cup {m}
  <2>1. CASE mail' = mail
    BY <1>2, <2>1 DEF LinesInv, QueueTypes, MailInOrder, Letters
  <2>2. CASE mail' = Append(mail, m)
    <3>1. \A n \in Range(mail) : n.from = worker /\ m.from = worker =>
            n.answer # "gone" /\ (m.answer # "gone" => n.id < m.id)
      BY <1>4
    <3>2. QueueTypes /\ MailInOrder /\ worker' = worker
      BY <1>2 DEF LinesInv
    <3>3. /\ mail' \in Seq(Letter) /\ MailInOrder'
          /\ Range(mail') = Range(mail) \cup {m}
          /\ Letters' = Letters \cup {n \in {m} : n.from = worker /\ n.answer # "gone"}
      BY <1>4, <2>2, <3>1, <3>2, AddLetter
    <3> QED BY <1>4, <3>3
  <2> QED BY <1>2, <2>1, <2>2
<1>6. \A v \in Workers \ {w} : inbox'[v] = inbox[v] /\ phase'[v] = phase[v] /\ serving'[v] = serving[v]
  BY <1>1, <1>2 DEF LinesInv, QueueTypes
<1>7. worker # 0 => worker \in Workers \ {w}
  BY DEF WorkerInv, ClientInv
<1>8. Queue' = Queue
  BY <1>2, <1>6, <1>7 DEF Queue
<1>9. QueueTypes' /\ PendingTypes'
  BY <1>2, <1>3, <1>5 DEF LinesInv, QueueTypes, PendingTypes
<1>10. phase'[w] # "unborn" /\ ~serving'[w]
  BY <1>1, <1>2 DEF LinesInv, QueueTypes
<1>11. UnbornAreSilent' /\ ServingHasMessage'
  BY <1>2, <1>4, <1>5, <1>6, <1>7, <1>10 DEF LinesInv, UnbornAreSilent, ServingHasMessage
<1>12. NothingWaitsForNothing' /\ InboxInOrder'
  BY <1>2, <1>6, <1>7 DEF LinesInv, NothingWaitsForNothing, InboxInOrder
<1>13. GoneIsGone'
  <2>1. \A n \in Range(mail) : n.from \in Workers /\ n.from # 0
    BY LineTypes
  <2> QED BY <1>2, <1>4, <1>5, <1>6, <1>7, <2>1 DEF LinesInv, GoneIsGone
<1>14. Lines(Letters, Queue, pending)'
  BY <1>2, <1>5, <1>8 DEF LinesInv, Lines
<1>15. (worker # 0 /\ phase[worker] = "alive" => AllInLine(Letters, Queue, pending))'
  BY <1>2, <1>5, <1>6, <1>7, <1>8 DEF LinesInv, AllInLine
<1> QED BY <1>5, <1>8, <1>9, <1>11, <1>12, <1>13, <1>14, <1>15 DEF LinesInv

\* An isolate that ends leaves what it was sent unanswered.
LEMMA DiesKeepsLines ==
  ASSUME WorkerInv, LinesInv, NEW w \in Workers, Dies(w)
  PROVE  Letters' = Letters /\ Queue' \subseteq Queue /\ LinesInv'
<1> DEFINE m == [from |-> w, id |-> -1, answer |-> "gone"]
<1>1. /\ phase[w] = "alive" /\ ~serving[w] /\ phase \in [Workers -> Phases]
      /\ phase' = [phase EXCEPT ![w] = "gone"]
      /\ inbox' = [inbox EXCEPT ![w] = <<>>]
      /\ mail' = Append(mail, m)
      /\ UNCHANGED <<starting, worker, waiting, pending, nextId, serving>>
  BY DEF Dies, clientVars, WorkerInv
<1>2. m \in Letter /\ m.from = w /\ m.answer = "gone"
  BY DEF Letter
<1> HIDE DEF m
<1>3. /\ mail' \in Seq(Letter) /\ MailInOrder'
      /\ Range(mail') = Range(mail) \cup {m}
      /\ Letters' = Letters
  <2>1. \A n \in Range(mail) : n.from = worker /\ m.from = worker =>
          n.answer # "gone" /\ (m.answer # "gone" => n.id < m.id)
    BY <1>1, <1>2 DEF LinesInv, GoneIsGone
  <2>2. QueueTypes /\ MailInOrder /\ worker' = worker
    BY <1>1 DEF LinesInv
  <2>3. /\ mail' \in Seq(Letter) /\ MailInOrder'
        /\ Range(mail') = Range(mail) \cup {m}
        /\ Letters' = Letters \cup {n \in {m} : n.from = worker /\ n.answer # "gone"}
    BY <1>1, <1>2, <2>1, <2>2, AddLetter
  <2> QED BY <1>2, <2>3
<1>4. /\ inbox'[w] = <<>> /\ phase'[w] = "gone"
      /\ \A v \in Workers \ {w} : inbox'[v] = inbox[v] /\ phase'[v] = phase[v]
  BY <1>1 DEF LinesInv, QueueTypes
<1>5. worker # 0 => worker \in Workers
  BY DEF WorkerInv, ClientInv
<1>6. Queue' = IF worker = w THEN {} ELSE Queue
  <2>1. CASE worker = w
    <3>1. Range(inbox'[w]) = {}
      BY <1>4, EmptyRange
    <3>2. worker' = w /\ w # 0
      BY <1>1, <2>1 DEF Workers
    <3> QED BY <2>1, <3>1, <3>2 DEF Queue
  <2>2. CASE worker # w
    BY <1>1, <1>4, <1>5, <2>2 DEF Queue
  <2> QED BY <2>1, <2>2
<1>7. QueueTypes' /\ PendingTypes'
  BY <1>1, <1>3 DEF LinesInv, QueueTypes, PendingTypes
<1>8. UnbornAreSilent' /\ ServingHasMessage'
  BY <1>1, <1>2, <1>3, <1>4, <1>5 DEF LinesInv, UnbornAreSilent, ServingHasMessage
<1>9. NothingWaitsForNothing'
  BY <1>1 DEF LinesInv, NothingWaitsForNothing
<1>10. InboxInOrder'
  <2>1. Len(inbox'[w]) = 0
    BY <1>4
  <2> QED BY <1>1, <1>4, <1>5, <2>1 DEF LinesInv, InboxInOrder
<1>11. GoneIsGone'
  <2>1. \A n \in Range(mail) : n.from \in Workers /\ n.from # 0
    BY LineTypes
  <2> QED BY <1>1, <1>2, <1>3, <1>4, <1>5, <2>1 DEF LinesInv, GoneIsGone
<1>12. Lines(Letters, Queue, pending)'
  BY <1>1, <1>3, <1>6 DEF LinesInv, Lines
<1>13. (worker # 0 /\ phase[worker] = "alive" => AllInLine(Letters, Queue, pending))'
  BY <1>1, <1>3, <1>4, <1>5, <1>6 DEF LinesInv, AllInLine
<1>14. Queue' \subseteq Queue
  BY <1>6
<1> QED BY <1>3, <1>7, <1>8, <1>9, <1>10, <1>11, <1>12, <1>13, <1>14 DEF LinesInv

\* Both ways for a native call to end are answers.
LEMMA FinishAnswers ==
  ASSUME NEW w \in Workers, Finish(w)
  PROVE  \E answer \in Answers(Head(inbox[w]).job.op) :
           /\ answer \in {"ok", "refused", "closed", "thrown"}
           /\ AnswerIs(w, answer)
           /\ native' = Effect(Head(inbox[w]).job, answer)
<1>1. PICK answer \in Answers(Head(inbox[w]).job.op) :
        /\ native' = Effect(Head(inbox[w]).job, answer)
        /\ mail' = IF phase[w] = "killed" THEN mail
                   ELSE Append(mail, [from |-> w, id |-> Head(inbox[w]).id, answer |-> answer])
  BY DEF Finish
<1>2. answer \in {"ok", "refused", "closed", "thrown"}
  BY DEF Answers
<1>3. AnswerIs(w, answer)
  BY <1>1 DEF Finish, AnswerIs
<1> QED BY <1>1, <1>2, <1>3

LEMMA ThrowsAnswers ==
  ASSUME NEW w \in Workers, Throws(w), WorkerInv
  PROVE  AnswerIs(w, "thrown")
<1>1. phase' = [phase EXCEPT ![w] = IF @ = "killed" THEN "gone" ELSE @]
  BY DEF Throws, WorkerInv
<1> QED BY <1>1 DEF Throws, AnswerIs, Serving, clientVars

-----------------------------------------------------------------------------
\* The calls and their handles.
CallRecord == [op : Operations, handle : Nat, todo : Seq(NativeOps),
               outcome : {"none", "ok", "failed", "closed"}]

CallTypes ==
  /\ Len(calls) \in Nat /\ calls \in [1..Len(calls) -> CallRecord]
  /\ initialization \in 0..Len(calls)
  /\ needsCreate \in BOOLEAN
  /\ disposed \subseteq Handles

Waiting == {waiting[i].call : i \in 1..Len(waiting)}

\* Each call under way awaits one answer, or a start.
EachAwaitsOne ==
  /\ Outstanding = Range(pending) \cup Waiting
  /\ \A p, q \in DOMAIN pending : pending[p] = pending[q] => p = q
  /\ \A i, j \in 1..Len(waiting) : i < j => waiting[i].call < waiting[j].call

\* What a call of this kind may have left to ask for.
Todos(op) ==
  CASE op = "initialize" -> {<<"create", "info">>, <<"info">>}
    [] op = "evaluate" -> {<<"evaluate">>}
    [] op = "list" -> {<<"evaluate", "evaluate">>, <<"evaluate">>}
    [] op = "dispose" -> {<<"close">>}

\* The job that is under way is the first that its call has left to ask for.
WorkIsNext ==
  /\ \A c \in Outstanding : calls[c].todo \in Todos(calls[c].op)
  /\ \A i \in 1..Len(waiting) : waiting[i].op = Head(calls[waiting[i].call].todo)
  /\ \A x \in Queue : x.job.op = Head(calls[x.job.call].todo)

HandlesAreMade ==
  \A c \in 1..Len(calls) :
    /\ calls[c].op # "initialize" => calls[c].handle \in Handles
    /\ calls[c].op = "initialize" => calls[c].handle = 0
    /\ calls[c].op = "dispose" => calls[c].handle \in disposed

\* An initialize under way, or the handle it made until it is disposed.
Current(c) ==
  /\ calls[c].op = "initialize"
  /\ calls[c].outcome = "none" \/ (calls[c].outcome = "ok" /\ c \notin disposed)

\* There is at most one, the one whose future is shared, and nobody has called
\* dispose since it was called.
CurrentIsShared ==
  \A c \in 1..Len(calls) : Current(c) =>
    /\ initialization = c
    /\ \A d \in 1..Len(calls) : calls[d].op = "dispose" => d < c

\* A dispose that has returned and no initialize has followed.
Final(d) ==
  /\ calls[d].op = "dispose" /\ calls[d].outcome = "ok"
  /\ \A c \in d..Len(calls) : calls[c].op # "initialize"

QuietAfterDispose ==
  \A d \in 1..Len(calls) : Final(d) => Alive = {} /\ ~started /\ Outstanding = {}

CallInv ==
  /\ CallTypes /\ EachAwaitsOne /\ WorkIsNext
  /\ HandlesAreMade /\ CurrentIsShared /\ QuietAfterDispose

LEMMA CallFacts ==
  ASSUME CallTypes
  PROVE  /\ DOMAIN calls = 1..Len(calls)
         /\ Outstanding \subseteq 1..Len(calls) /\ Handles \subseteq 1..Len(calls)
         /\ 1..Len(calls) \subseteq Nat /\ 0 \notin Handles
         /\ \A c \in 1..Len(calls) : calls[c] \in CallRecord
BY DEF CallTypes, Outstanding, Handles

LEMMA InitCalls == Init => CallInv
<1> SUFFICES ASSUME Init PROVE CallInv
  OBVIOUS
<1>1. calls = <<>> /\ initialization = 0 /\ needsCreate = FALSE /\ disposed = {}
  BY DEF Init
<1>2. worker = 0 /\ waiting = <<>> /\ pending = <<>>
  BY DEF Init, WorkerInit
<1>3. Len(calls) = 0 /\ 1..0 = {} /\ DOMAIN calls = {}
  BY <1>1
<1>4. CallTypes
  <2>1. calls \in [1..0 -> CallRecord] /\ 0 \in 0..0
    BY <1>1, <1>3
  <2>2. needsCreate \in BOOLEAN
    BY <1>1, Zenon
  <2> QED BY <1>1, <1>3, <2>1, <2>2 DEF CallTypes
<1>5. Outstanding = {} /\ Queue = {} /\ Len(waiting) = 0 /\ Range(pending) = {} /\ DOMAIN pending = {}
  BY <1>2, <1>3, EmptyRange DEF Outstanding, Queue
<1>6. EachAwaitsOne /\ WorkIsNext
  BY <1>3, <1>5 DEF EachAwaitsOne, WorkIsNext, Waiting
<1> QED BY <1>3, <1>4, <1>6 DEF CallInv, HandlesAreMade, CurrentIsShared, QuietAfterDispose

\* Steps of the isolates change nothing of the calls.
LEMMA IdleKeepsCalls ==
  ASSUME CallInv, UNCHANGED <<handleVars, pending, waiting, started>>,
         Queue' \subseteq Queue, Alive' \subseteq Alive
  PROVE  CallInv'
<1>1. UNCHANGED <<calls, initialization, needsCreate, disposed, pending, waiting, started>>
  BY DEF handleVars
<1>2. Outstanding' = Outstanding /\ Handles' = Handles
  BY <1>1 DEF Outstanding, Handles
<1>3. CallTypes'
  BY <1>1, <1>2 DEF CallInv, CallTypes
<1>4. EachAwaitsOne'
  BY <1>1, <1>2 DEF CallInv, EachAwaitsOne, Waiting
<1>5. WorkIsNext'
  BY <1>1, <1>2 DEF CallInv, WorkIsNext
<1>6. HandlesAreMade' /\ CurrentIsShared'
  BY <1>1, <1>2 DEF CallInv, HandlesAreMade, CurrentIsShared, Current
<1>7. QuietAfterDispose'
  BY <1>1, <1>2 DEF CallInv, QuietAfterDispose, Final
<1> QED BY <1>3, <1>4, <1>5, <1>6, <1>7 DEF CallInv

-----------------------------------------------------------------------------
\* While anything is heard there is a worker, so that nothing waits for a
\* start and no dispose is the last word.
LEMMA HeardFacts ==
  ASSUME WorkerInv, LinesInv, CallInv, worker # 0
  PROVE  /\ waiting = <<>> /\ Waiting = {} /\ Outstanding = Range(pending)
         /\ started /\ \A d \in 1..Len(calls) : ~Final(d)
<1>1. started /\ starting = 0
  BY DEF WorkerInv, ClientInv
<1>2. waiting = <<>>
  BY <1>1 DEF LinesInv, NothingWaitsForNothing
<1>3. Waiting = {}
  BY <1>2 DEF Waiting
<1>4. \A d \in 1..Len(calls) : ~Final(d)
  BY <1>1 DEF CallInv, QuietAfterDispose
<1> QED BY <1>1, <1>2, <1>3, <1>4 DEF CallInv, EachAwaitsOne

\* These calls end, with these outcomes, and the others go on.
Ends(returned, thrown, closed) ==
  /\ Len(calls') = Len(calls)
  /\ calls' \in [1..Len(calls) -> CallRecord]
  /\ \A c \in 1..Len(calls) :
       /\ calls'[c].op = calls[c].op
       /\ calls'[c].handle = calls[c].handle
       /\ calls'[c].todo = calls[c].todo
       /\ calls'[c].outcome = IF c \in thrown THEN "failed" ELSE IF c \in returned THEN "ok"
                              ELSE IF c \in closed THEN "closed" ELSE calls[c].outcome

LEMMA SettleEnds ==
  ASSUME CallTypes, NEW returned, NEW thrown, Settle(returned, thrown)
  PROVE  Ends(returned, thrown, {})
<1>1. DOMAIN calls = 1..Len(calls) /\ \A c \in 1..Len(calls) : calls[c] \in CallRecord
  BY CallFacts
<1>2. calls' = [c \in 1..Len(calls) |->
                  IF c \in thrown THEN [calls[c] EXCEPT !.outcome = "failed"]
                  ELSE IF c \in returned THEN [calls[c] EXCEPT !.outcome = "ok"] ELSE calls[c]]
  BY <1>1 DEF Settle
<1>3. calls' \in [1..Len(calls) -> CallRecord]
  BY <1>1, <1>2 DEF CallRecord
<1>4. Len(calls') = Len(calls)
  BY <1>3, SeqDef, LenProperties DEF CallTypes
<1>5. \A c \in 1..Len(calls) :
        /\ calls'[c].op = calls[c].op
        /\ calls'[c].handle = calls[c].handle
        /\ calls'[c].todo = calls[c].todo
        /\ calls'[c].outcome = IF c \in thrown THEN "failed" ELSE IF c \in returned THEN "ok"
                               ELSE calls[c].outcome
  BY <1>1, <1>2 DEF CallRecord
<1> QED BY <1>3, <1>4, <1>5 DEF Ends

\* What such an end leaves of the calls; what awaits what is left to its uses.
LEMMA EndsKeepCalls ==
  ASSUME CallInv, NEW returned, NEW thrown, NEW closed, Ends(returned, thrown, closed),
         returned \cup thrown \cup closed \subseteq Outstanding,
         initialization' = IF \E c \in thrown : calls[c].op = "initialize" THEN 0 ELSE initialization,
         UNCHANGED <<needsCreate, disposed>>,
         \A i \in 1..Len(waiting') :
           waiting'[i].call \in 1..Len(calls) /\ waiting'[i].op = Head(calls[waiting'[i].call].todo),
         \A x \in Queue' : x.job.call \in 1..Len(calls) /\ x.job.op = Head(calls[x.job.call].todo)
  PROVE  /\ Outstanding' = Outstanding \ (returned \cup thrown \cup closed)
         /\ Handles' = Handles \cup {c \in returned \ thrown : calls[c].op = "initialize"}
         /\ CallTypes' /\ WorkIsNext' /\ HandlesAreMade' /\ CurrentIsShared'
<1>1. /\ DOMAIN calls = 1..Len(calls)
      /\ Outstanding \subseteq 1..Len(calls) /\ Handles \subseteq 1..Len(calls)
      /\ \A c \in 1..Len(calls) : calls[c] \in CallRecord
  BY CallFacts DEF CallInv
<1>2. /\ Len(calls') = Len(calls) /\ DOMAIN calls' = 1..Len(calls)
      /\ calls' \in [1..Len(calls) -> CallRecord]
      /\ \A c \in 1..Len(calls) :
           /\ calls'[c].op = calls[c].op
           /\ calls'[c].handle = calls[c].handle
           /\ calls'[c].todo = calls[c].todo
           /\ calls'[c].outcome = IF c \in thrown THEN "failed" ELSE IF c \in returned THEN "ok"
                                  ELSE IF c \in closed THEN "closed" ELSE calls[c].outcome
  BY DEF Ends
<1>3. Outstanding' = Outstanding \ (returned \cup thrown \cup closed)
  BY <1>1, <1>2 DEF Outstanding
<1>4. Handles' = Handles \cup {c \in returned \ thrown : calls[c].op = "initialize"}
  BY <1>1, <1>2 DEF Outstanding, Handles
<1>5. CallTypes'
  BY <1>2, <1>4 DEF CallInv, CallTypes
<1>6. WorkIsNext'
  <2>1. \A c \in Outstanding' : calls'[c].todo \in Todos(calls'[c].op)
    BY <1>1, <1>2, <1>3 DEF CallInv, WorkIsNext
  <2>2. \A i \in 1..Len(waiting') : waiting'[i].op = Head(calls'[waiting'[i].call].todo)
    BY <1>2
  <2>3. \A x \in Queue' : x.job.op = Head(calls'[x.job.call].todo)
    BY <1>2
  <2> QED BY <2>1, <2>2, <2>3 DEF WorkIsNext
<1>7. HandlesAreMade'
  BY <1>2, <1>4 DEF CallInv, HandlesAreMade
<1>8. CurrentIsShared'
  <2> SUFFICES ASSUME NEW c \in 1..Len(calls), Current(c)'
               PROVE  /\ initialization' = c
                      /\ \A d \in 1..Len(calls) : calls[d].op = "dispose" => d < c
    BY <1>2 DEF CurrentIsShared
  <2>1. c \notin thrown /\ calls[c].op = "initialize" /\ Current(c)
    BY <1>1, <1>2 DEF Current, Outstanding, Handles, CallInv, CallTypes
  <2>2. initialization = c /\ \A d \in 1..Len(calls) : calls[d].op = "dispose" => d < c
    BY <2>1 DEF CallInv, CurrentIsShared
  <2>3. \A e \in thrown : calls[e].op # "initialize"
    <3> SUFFICES ASSUME NEW e \in thrown, calls[e].op = "initialize" PROVE FALSE
      OBVIOUS
    <3>1. e \in 1..Len(calls) /\ Current(e)
      BY <1>1 DEF Current, Outstanding
    <3>2. initialization = e
      BY <3>1 DEF CallInv, CurrentIsShared
    <3> QED BY <2>1, <2>2, <3>2
  <2> QED BY <2>2, <2>3
<1> QED BY <1>3, <1>4, <1>5, <1>6, <1>7, <1>8

-----------------------------------------------------------------------------
\* What is left of a call's work is work of its kind.
LEMMA TodoFacts ==
  ASSUME NEW op \in Operations, NEW todo \in Todos(op)
  PROVE  /\ todo \in Seq(NativeOps) /\ todo # <<>> /\ Head(todo) \in NativeOps
         /\ Tail(todo) # <<>> => Tail(todo) \in Todos(op) /\ Head(Tail(todo)) \in NativeOps
         /\ Head(todo) = "close" <=> op = "dispose"
         /\ Head(todo) = "create" => op = "initialize"
         /\ op = "dispose" => Tail(todo) = <<>>
         /\ op = "initialize" => Head(todo) = IF Tail(todo) = <<>> THEN "info" ELSE "create"
         /\ op = "list" /\ Tail(todo) # <<>> => Len(Tail(todo)) = 1
         /\ op # "initialize" /\ op # "list" => Tail(todo) = <<>>
         /\ Head(todo) = "evaluate" => op \in {"evaluate", "list"}
<1>1. \/ op = "initialize" /\ todo = <<"create", "info">>
      \/ op = "initialize" /\ todo = <<"info">>
      \/ op = "evaluate" /\ todo = <<"evaluate">>
      \/ op = "list" /\ todo = <<"evaluate", "evaluate">>
      \/ op = "list" /\ todo = <<"evaluate">>
      \/ op = "dispose" /\ todo = <<"close">>
  BY DEF Operations, Todos
<1>2. CASE op = "initialize" /\ todo = <<"create", "info">>
  <2>1. Head(todo) = "create" /\ Tail(todo) = <<"info">> /\ Head(Tail(todo)) = "info"
    BY <1>2
  <2>2. todo \in Seq(NativeOps) /\ todo # <<>>
    BY <1>2 DEF NativeOps
  <2> QED BY <1>2, <2>1, <2>2 DEF NativeOps, Todos
<1>3. CASE op = "initialize" /\ todo = <<"info">>
  <2>1. Head(todo) = "info" /\ Tail(todo) = <<>>
    BY <1>3
  <2> QED BY <1>3, <2>1 DEF NativeOps, Todos
<1>4. CASE op = "evaluate" /\ todo = <<"evaluate">>
  <2>1. Head(todo) = "evaluate" /\ Tail(todo) = <<>>
    BY <1>4
  <2> QED BY <1>4, <2>1 DEF NativeOps, Todos
<1>5. CASE op = "list" /\ todo = <<"evaluate", "evaluate">>
  <2>1. Head(todo) = "evaluate" /\ Tail(todo) = <<"evaluate">> /\ Head(Tail(todo)) = "evaluate"
    BY <1>5
  <2>2. todo \in Seq(NativeOps) /\ todo # <<>>
    BY <1>5 DEF NativeOps
  <2> QED BY <1>5, <2>1, <2>2 DEF NativeOps, Todos
<1>6. CASE op = "list" /\ todo = <<"evaluate">>
  <2>1. Head(todo) = "evaluate" /\ Tail(todo) = <<>>
    BY <1>6
  <2> QED BY <1>6, <2>1 DEF NativeOps, Todos
<1>7. CASE op = "dispose" /\ todo = <<"close">>
  <2>1. Head(todo) = "close" /\ Tail(todo) = <<>>
    BY <1>7
  <2> QED BY <1>7, <2>1 DEF NativeOps, Todos
<1> QED BY <1>1, <1>2, <1>3, <1>4, <1>5, <1>6, <1>7

\* A call is refused, waits for a start or is sent.
LEMMA InvokeEffect ==
  ASSUME WorkerInv, LinesInv, Len(calls) \in Nat,
         NEW op, NEW handle, NEW todo, Head(todo) \in NativeOps, Make(op, handle, todo)
  PROVE  LET job == [call |-> NewCall, op |-> Head(todo)]
         IN \/ /\ Refused(pending)
               /\ UNCHANGED <<pending, waiting, started>> /\ Queue' = Queue
            \/ /\ ~Refused(pending)
               /\ waiting' = Append(waiting, job) /\ UNCHANGED pending /\ Queue' = Queue
            \/ /\ ~Refused(pending)
               /\ worker # 0 /\ waiting = <<>> /\ waiting' = <<>>
               /\ DOMAIN pending' = DOMAIN pending \cup {nextId}
               /\ \A p \in DOMAIN pending : pending'[p] = pending[p]
               /\ pending'[nextId] = NewCall
               /\ Queue' = Queue \cup {[id |-> nextId, job |-> job]}
<1>1. PICK job \in Job : job = [call |-> NewCall, op |-> Head(todo)]
  <2>1. NewCall \in Nat
    BY DEF NewCall
  <2> QED BY <2>1 DEF Job
<1>2. Invoke(job, pending) /\ UNCHANGED <<worker, phase, serving, mail>>
  BY <1>1 DEF Make
<1>3. CASE /\ NeedsStart \/ starting > 0
           /\ waiting' = Append(waiting, job)
           /\ UNCHANGED <<pending, nextId, inbox>>
  <2>1. ~Refused(pending)
    BY <1>3 DEF NeedsStart, Refused
  <2> QED BY <1>1, <1>2, <1>3, <2>1 DEF Queue
<1>4. CASE Refused(pending) /\ UNCHANGED <<pending, started, starting, waiting, nextId, inbox>>
  BY <1>2, <1>4 DEF Queue
<1>5. CASE /\ ~NeedsStart /\ starting = 0 /\ ~Refused(pending)
           /\ Send(worker, <<job>>, pending)
           /\ UNCHANGED <<started, starting, waiting>>
  <2>1. worker \in Workers /\ worker # 0
    BY <1>5 DEF NeedsStart, WorkerInv, ClientInv
  <2>2. PICK pend : pend = pending
    OBVIOUS
  <2>3. /\ QueueTypes
        /\ pend \in [DOMAIN pend -> Nat] /\ \A p \in DOMAIN pend : p \in Nat /\ p < nextId
        /\ Send(worker, <<job>>, pend)
    BY <1>5, <2>2 DEF LinesInv, PendingTypes
  <2>4. PICK w \in Workers : w = worker
    BY <2>1
  <2>8. Send(w, <<job>>, pend)
    BY <2>3, <2>4
  <2>9. /\ nextId' = nextId + 1
        /\ DOMAIN pending' = DOMAIN pend \cup {nextId}
        /\ pending' \in [DOMAIN pending' -> Nat]
        /\ \A p \in DOMAIN pend : pending'[p] = pend[p]
        /\ pending'[nextId] = job.call
        /\ inbox' \in [Workers -> Seq(SentJob)]
        /\ \A v \in Workers \ {w} : inbox'[v] = inbox[v]
        /\ Len(inbox[w]) \in Nat /\ Len(inbox'[w]) = Len(inbox[w]) + 1
        /\ \A i \in 1..Len(inbox[w]) : inbox'[w][i] = inbox[w][i]
        /\ inbox'[w][Len(inbox[w]) + 1] = [id |-> nextId, job |-> job]
        /\ Range(inbox'[w]) = Range(inbox[w]) \cup {[id |-> nextId, job |-> job]}
    BY <2>3, <2>8, SendOne
  <2>5. Queue' = Queue \cup {[id |-> nextId, job |-> job]}
    BY <1>2, <2>1, <2>4, <2>9 DEF Queue
  <2>6. waiting = <<>> /\ waiting' = <<>>
    BY <1>5 DEF LinesInv, NothingWaitsForNothing
  <2>7. job.call = NewCall
    BY <1>1
  <2> QED BY <1>1, <1>5, <2>1, <2>2, <2>5, <2>6, <2>7, <2>9
<1>6. \/ /\ NeedsStart \/ starting > 0
         /\ waiting' = Append(waiting, job)
         /\ UNCHANGED <<pending, nextId, inbox>>
      \/ Refused(pending) /\ UNCHANGED <<pending, started, starting, waiting, nextId, inbox>>
      \/ /\ ~NeedsStart /\ starting = 0 /\ ~Refused(pending)
         /\ Send(worker, <<job>>, pending)
         /\ UNCHANGED <<started, starting, waiting>>
  BY <1>2 DEF Invoke
<1> QED BY <1>3, <1>4, <1>5, <1>6

\* A new call joins those that there are.
LEMMA MakeAddsCall ==
  ASSUME CallTypes, NEW op \in Operations, NEW handle \in Nat, NEW todo \in Seq(NativeOps),
         Make(op, handle, todo)
  PROVE  /\ NewCall = Len(calls) + 1 /\ Len(calls') = NewCall
         /\ NewCall \in Nat /\ 1..NewCall = 1..Len(calls) \cup {NewCall} /\ NewCall \notin 1..Len(calls)
         /\ calls' \in [1..NewCall -> CallRecord]
         /\ \A c \in 1..Len(calls) : calls'[c] = calls[c]
         /\ calls'[NewCall].op = op /\ calls'[NewCall].handle = handle /\ calls'[NewCall].todo = todo
         /\ calls'[NewCall].outcome = IF Refused(pending) THEN "failed" ELSE "none"
         /\ Outstanding' = Outstanding \cup (IF Refused(pending) THEN {} ELSE {NewCall})
         /\ Handles' = Handles
<1>1. PICK x \in CallRecord : x = [op |-> op, handle |-> handle, todo |-> todo,
                                   outcome |-> IF Refused(pending) THEN "failed" ELSE "none"]
  <2>1. PICK outcome \in {"failed", "none"} : outcome = IF Refused(pending) THEN "failed" ELSE "none"
    OBVIOUS
  <2> QED BY <2>1 DEF CallRecord
<1>2. calls' = Append(calls, x)
  BY <1>1 DEF Make
<1>3. calls \in Seq(CallRecord) /\ DOMAIN calls = 1..Len(calls)
  BY SeqDef DEF CallTypes
<1>4. PICK t : t = Append(calls, x)
  OBVIOUS
<1>5. /\ t \in Seq(CallRecord) /\ Len(calls) \in Nat /\ Len(t) = Len(calls) + 1
      /\ \A i \in 1..Len(calls) : t[i] = calls[i]
      /\ t[Len(calls) + 1] = x
  BY <1>3, <1>4, AppendProperties DEF CallTypes
<1>6. /\ NewCall = Len(calls) + 1 /\ Len(t) = NewCall /\ NewCall \in Nat
      /\ 1..NewCall = 1..Len(calls) \cup {NewCall} /\ NewCall \notin 1..Len(calls)
  BY <1>5 DEF NewCall
<1>7. t \in [1..NewCall -> CallRecord] /\ DOMAIN t = 1..NewCall
  BY <1>5, <1>6, LenProperties
<1>8. t[NewCall] = x
  BY <1>5, <1>6
<1>9. \A i \in 1..Len(calls) : t[i] = calls[i]
  BY <1>5
<1>10. Outstanding' = {c \in DOMAIN t : t[c].outcome = "none"}
  BY <1>2, <1>4 DEF Outstanding
<1>11. Handles' = {c \in DOMAIN t : t[c].op = "initialize" /\ t[c].outcome = "ok"}
  BY <1>2, <1>4 DEF Handles
<1>12. x.outcome = (IF Refused(pending) THEN "failed" ELSE "none") /\ x.outcome # "ok"
  BY <1>1
<1>13. Outstanding' = Outstanding \cup (IF Refused(pending) THEN {} ELSE {NewCall})
  <2>1. CASE Refused(pending)
    BY <1>3, <1>6, <1>7, <1>8, <1>9, <1>10, <1>12, <2>1 DEF Outstanding
  <2>2. CASE ~Refused(pending)
    BY <1>3, <1>6, <1>7, <1>8, <1>9, <1>10, <1>12, <2>2 DEF Outstanding
  <2> QED BY <2>1, <2>2
<1>14. Handles' = Handles
  BY <1>3, <1>6, <1>7, <1>8, <1>9, <1>11, <1>12 DEF Handles
<1> QED BY <1>1, <1>2, <1>4, <1>6, <1>7, <1>8, <1>9, <1>12, <1>13, <1>14

\* Whatever is called, with a handle that is open or without one.
LEMMA MakeKeepsCalls ==
  ASSUME WorkerInv, LinesInv, CallInv,
         NEW op \in Operations, NEW handle \in Nat, NEW todo \in Todos(op), Make(op, handle, todo),
         IF op = "initialize" THEN handle = 0 /\ initialization = 0 ELSE handle \in Handles \ disposed,
         initialization' = IF op = "initialize" THEN IF Refused(pending) THEN 0 ELSE NewCall
                           ELSE IF op = "dispose" THEN 0 ELSE initialization,
         disposed' = IF op = "dispose" THEN disposed \cup {handle} ELSE disposed,
         needsCreate' \in BOOLEAN
  PROVE  CallInv'
<1> DEFINE refused == Refused(pending)
           job == [call |-> NewCall, op |-> Head(todo)]
           WaitingIsNext == \A i \in 1..Len(waiting) : waiting[i].op = Head(calls[waiting[i].call].todo)
           QueueIsNext == \A x \in Queue : x.job.op = Head(calls[x.job.call].todo)
<1>1. todo \in Seq(NativeOps) /\ Head(todo) \in NativeOps /\ todo # <<>>
  BY TodoFacts
<1>2. /\ DOMAIN calls = 1..Len(calls) /\ Len(calls) \in Nat
      /\ Outstanding \subseteq 1..Len(calls) /\ Handles \subseteq 1..Len(calls)
      /\ \A c \in 1..Len(calls) : calls[c] \in CallRecord
  BY CallFacts DEF CallInv, CallTypes
<1>3. /\ NewCall = Len(calls) + 1 /\ Len(calls') = NewCall
      /\ NewCall \in Nat /\ 1..NewCall = 1..Len(calls) \cup {NewCall} /\ NewCall \notin 1..Len(calls)
      /\ calls' \in [1..NewCall -> CallRecord]
      /\ \A c \in 1..Len(calls) : calls'[c] = calls[c]
      /\ calls'[NewCall].op = op /\ calls'[NewCall].handle = handle /\ calls'[NewCall].todo = todo
      /\ calls'[NewCall].outcome = IF refused THEN "failed" ELSE "none"
      /\ Outstanding' = Outstanding \cup (IF refused THEN {} ELSE {NewCall})
      /\ Handles' = Handles
  BY <1>1, MakeAddsCall DEF CallInv
<1>4. \/ /\ refused
         /\ UNCHANGED <<pending, waiting, started>> /\ Queue' = Queue
      \/ /\ ~refused
         /\ waiting' = Append(waiting, job) /\ UNCHANGED pending /\ Queue' = Queue
      \/ /\ ~refused
         /\ worker # 0 /\ waiting = <<>> /\ waiting' = <<>>
         /\ DOMAIN pending' = DOMAIN pending \cup {nextId}
         /\ \A p \in DOMAIN pending : pending'[p] = pending[p]
         /\ pending'[nextId] = NewCall
         /\ Queue' = Queue \cup {[id |-> nextId, job |-> job]}
  BY <1>1, <1>2, InvokeEffect
<1>5. job.call = NewCall /\ job.op = Head(todo) /\ job \in Job
  BY <1>1, <1>3 DEF Job
<1> HIDE DEF refused, job
<1>6. /\ waiting \in Seq(Job) /\ Len(waiting) \in Nat
      /\ \A i \in 1..Len(waiting) : waiting[i].call \in Outstanding
  BY LenProperties DEF LinesInv, QueueTypes, CallInv, EachAwaitsOne, Waiting
<1>7. \A p \in DOMAIN pending : pending[p] \in Outstanding /\ p < nextId
  BY DEF CallInv, EachAwaitsOne, LinesInv, PendingTypes, Range
<1>8. nextId \in Nat /\ nextId \notin DOMAIN pending
  BY DEF LinesInv, QueueTypes, PendingTypes
<1>9. \A x \in Queue : x.job.call \in Outstanding
  BY <1>7 DEF LinesInv, Lines
<1>10. ASSUME ~refused, waiting' = Append(waiting, job), UNCHANGED pending, Queue' = Queue
       PROVE  EachAwaitsOne' /\ WaitingIsNext' /\ QueueIsNext'
  <2>1. PICK t : t = waiting'
    OBVIOUS
  <2>2. /\ Len(t) = Len(waiting) + 1
        /\ \A i \in 1..Len(waiting) : t[i] = waiting[i]
        /\ t[Len(waiting) + 1] = job
    BY <1>5, <1>6, <1>10, <2>1, AppendProperties
  <2>3. 1..Len(t) = 1..Len(waiting) \cup {Len(waiting) + 1}
    BY <1>6, <2>2
  <2>4. Waiting' = {t[i].call : i \in 1..Len(t)}
    BY <2>1 DEF Waiting
  <2>5. Waiting' = Waiting \cup {NewCall}
    <3>1. Waiting' \subseteq Waiting \cup {NewCall}
      BY <1>5, <2>2, <2>3, <2>4 DEF Waiting
    <3>2. NewCall \in Waiting'
      <4>1. Len(waiting) + 1 \in 1..Len(t) /\ t[Len(waiting) + 1].call = NewCall
        BY <1>5, <2>2, <2>3
      <4> QED BY <2>4, <4>1
    <3>3. Waiting \subseteq Waiting'
      <4>1. \A i \in 1..Len(waiting) : i \in 1..Len(t) /\ t[i].call = waiting[i].call
        BY <2>2, <2>3
      <4>2. \A i \in 1..Len(waiting) : waiting[i].call \in Waiting'
        BY <2>4, <4>1
      <4> QED BY <4>2 DEF Waiting
    <3> QED BY <3>1, <3>2, <3>3
  <2>6. \A i, j \in 1..Len(t) : i < j => t[i].call < t[j].call
    <3> SUFFICES ASSUME NEW i \in 1..Len(t), NEW j \in 1..Len(t), i < j PROVE t[i].call < t[j].call
      OBVIOUS
    <3>1. i \in 1..Len(waiting) /\ t[i] = waiting[i]
      BY <1>6, <2>2
    <3>2. CASE j \in 1..Len(waiting)
      BY <2>2, <3>1, <3>2 DEF CallInv, EachAwaitsOne
    <3>3. CASE j \notin 1..Len(waiting)
      <4>1. t[j].call = NewCall
        BY <1>5, <2>2, <2>3, <3>3
      <4>2. waiting[i].call \in 1..Len(calls)
        BY <1>2, <1>6, <3>1
      <4> QED BY <1>2, <1>3, <3>1, <4>1, <4>2
    <3> QED BY <3>2, <3>3
  <2>7. EachAwaitsOne'
    <3>1. Outstanding' = Range(pending') \cup Waiting'
      BY <1>3, <1>10, <2>5 DEF CallInv, EachAwaitsOne
    <3> QED BY <1>10, <2>1, <2>6, <3>1 DEF CallInv, EachAwaitsOne
  <2>8. \A i \in 1..Len(t) : t[i].op = Head(calls'[t[i].call].todo)
    <3> SUFFICES ASSUME NEW i \in 1..Len(t) PROVE t[i].op = Head(calls'[t[i].call].todo)
      OBVIOUS
    <3>1. CASE i \in 1..Len(waiting)
      BY <1>2, <1>3, <1>6, <2>2, <3>1 DEF CallInv, WorkIsNext
    <3>2. CASE i \notin 1..Len(waiting)
      BY <1>3, <1>5, <2>2, <2>3, <3>2
    <3> QED BY <3>1, <3>2
  <2>9. \A x \in Queue' : x.job.op = Head(calls'[x.job.call].todo)
    BY <1>2, <1>3, <1>9, <1>10 DEF CallInv, WorkIsNext
  <2> QED BY <2>1, <2>7, <2>8, <2>9
<1>11. ASSUME refused, UNCHANGED <<pending, waiting, started>>, Queue' = Queue
       PROVE  EachAwaitsOne' /\ WaitingIsNext' /\ QueueIsNext'
  <2>1. EachAwaitsOne'
    BY <1>3, <1>11 DEF CallInv, EachAwaitsOne, Waiting
  <2>2. \A i \in 1..Len(waiting') : waiting'[i].op = Head(calls'[waiting'[i].call].todo)
    BY <1>2, <1>3, <1>6, <1>11 DEF CallInv, WorkIsNext
  <2>3. \A x \in Queue' : x.job.op = Head(calls'[x.job.call].todo)
    BY <1>2, <1>3, <1>9, <1>11 DEF CallInv, WorkIsNext
  <2> QED BY <2>1, <2>2, <2>3
<1>12. ASSUME ~refused, waiting = <<>>, waiting' = <<>>,
              DOMAIN pending' = DOMAIN pending \cup {nextId},
              \A p \in DOMAIN pending : pending'[p] = pending[p],
              pending'[nextId] = NewCall,
              Queue' = Queue \cup {[id |-> nextId, job |-> job]}
       PROVE  EachAwaitsOne' /\ WaitingIsNext' /\ QueueIsNext'
  <2>1. Len(waiting') = 0 /\ Len(waiting) = 0 /\ 1..0 = {}
    BY <1>12
  <2>2. Waiting' = {} /\ Waiting = {}
    BY <2>1 DEF Waiting
  <2>3. Range(pending') = Range(pending) \cup {NewCall}
    BY <1>12 DEF Range
  <2>4. \A p, q \in DOMAIN pending' : pending'[p] = pending'[q] => p = q
    BY <1>2, <1>3, <1>7, <1>12 DEF CallInv, EachAwaitsOne
  <2>5. EachAwaitsOne'
    BY <1>3, <1>12, <2>1, <2>2, <2>3, <2>4 DEF CallInv, EachAwaitsOne
  <2>6. \A x \in Queue' : x.job.op = Head(calls'[x.job.call].todo)
    <3>1. \A x \in Queue : x.job.op = Head(calls'[x.job.call].todo)
      BY <1>2, <1>3, <1>9 DEF CallInv, WorkIsNext
    <3> QED BY <1>3, <1>5, <1>12, <3>1
  <2> QED BY <2>1, <2>5, <2>6
<1>13. EachAwaitsOne' /\ WaitingIsNext' /\ QueueIsNext'
  BY <1>4, <1>10, <1>11, <1>12
<1>14. WorkIsNext'
  <2>1. \A c \in Outstanding' : calls'[c].todo \in Todos(calls'[c].op)
    <3>1. \A c \in Outstanding : calls'[c].todo \in Todos(calls'[c].op)
      BY <1>2, <1>3 DEF CallInv, WorkIsNext
    <3> QED BY <1>3, <3>1
  <2> QED BY <1>13, <2>1 DEF WorkIsNext
<1>15. CallTypes'
  <2>1. initialization' \in 0..NewCall
    BY <1>2, <1>3 DEF CallInv, CallTypes
  <2>2. disposed' \subseteq Handles'
    BY <1>3 DEF CallInv, CallTypes
  <2> QED BY <1>3, <2>1, <2>2 DEF CallTypes
<1>16. HandlesAreMade'
  <2>1. disposed \subseteq disposed'
    OBVIOUS
  <2>2. \A c \in 1..Len(calls) :
          /\ calls'[c].op # "initialize" => calls'[c].handle \in Handles'
          /\ calls'[c].op = "initialize" => calls'[c].handle = 0
          /\ calls'[c].op = "dispose" => calls'[c].handle \in disposed'
    BY <1>3, <2>1 DEF CallInv, HandlesAreMade
  <2>3. /\ op # "initialize" => handle \in Handles
        /\ op = "initialize" => handle = 0
        /\ op = "dispose" => handle \in disposed'
    OBVIOUS
  <2> QED BY <1>3, <2>2, <2>3 DEF HandlesAreMade
\* The handle that is used is of the current initialize.
<1>17. op # "initialize" =>
         /\ handle \in 1..Len(calls) /\ calls[handle].op = "initialize" /\ initialization = handle
         /\ \A d \in 1..Len(calls) : calls[d].op = "dispose" => d < handle
         /\ \A c \in 1..Len(calls) : Current(c) => c = handle
  BY <1>2 DEF CallInv, CurrentIsShared, Current, Handles
<1>18. CurrentIsShared'
  <2> SUFFICES ASSUME NEW c \in 1..NewCall, Current(c)'
               PROVE  /\ initialization' = c
                      /\ \A d \in 1..NewCall : calls'[d].op = "dispose" => d < c
    BY <1>3 DEF CurrentIsShared
  <2>1. CASE c = NewCall
    <3>1. op = "initialize" /\ ~refused
      BY <1>3, <2>1 DEF Current
    <3> QED BY <1>2, <1>3, <2>1, <3>1 DEF refused
  <2>2. CASE c # NewCall
    <3>1. c \in 1..Len(calls) /\ Current(c)
      BY <1>3, <2>2 DEF Current
    <3>2. initialization = c /\ \A d \in 1..Len(calls) : calls[d].op = "dispose" => d < c
      BY <3>1 DEF CallInv, CurrentIsShared
    <3>3. op # "initialize"
      BY <1>2, <3>1, <3>2
    <3>4. op # "dispose"
      BY <1>3, <1>17, <2>2, <3>1 DEF Current, Handles
    <3> QED BY <1>3, <3>2, <3>3, <3>4
  <2> QED BY <2>1, <2>2
<1>19. QuietAfterDispose'
  <2> SUFFICES ASSUME NEW d \in 1..NewCall, Final(d)' PROVE FALSE
    BY <1>3 DEF QuietAfterDispose
  <2>1. d # NewCall
    BY <1>3 DEF Final
  <2>2. d \in 1..Len(calls) /\ calls[d].op = "dispose"
    BY <1>3, <2>1 DEF Final
  <2>3. \A c \in d..NewCall : calls'[c].op # "initialize"
    BY <1>3 DEF Final
  <2>4. CASE op = "initialize"
    BY <1>2, <1>3, <2>2, <2>3, <2>4
  <2>5. CASE op # "initialize"
    <3>1. handle \in d..NewCall /\ calls'[handle].op = "initialize"
      BY <1>2, <1>3, <1>17, <2>2, <2>5
    <3> QED BY <2>3, <3>1
  <2> QED BY <2>4, <2>5
<1> QED BY <1>13, <1>14, <1>15, <1>16, <1>18, <1>19 DEF CallInv

-----------------------------------------------------------------------------
\* A start that ends admits the first of those that wait for it.
LEMMA StartedKeepsCalls ==
  ASSUME WorkerInv, LinesInv, CallInv, Started
  PROVE  /\ CallInv'
         /\ Outstanding = Waiting /\ DOMAIN pending = {} /\ Outstanding' \subseteq Outstanding
         /\ \A p \in DOMAIN pending', q \in DOMAIN pending' : p < q => pending'[p] < pending'[q]
         /\ Letters' = {}
<1>1. PICK w \in Workers : /\ phase[w] = "unborn"
                           /\ worker' = w
                           /\ Send(w, SubSeq(waiting, 1, Admitted), pending)
  BY DEF Started, StartSucceeds
<1>2. starting > 0 /\ started /\ worker = 0 /\ waiting' = <<>> /\ UNCHANGED <<started, mail>>
  BY DEF Started, StartSucceeds, WorkerInv, ClientInv
<1>3. PICK k : k = Admitted
  OBVIOUS
<1>4. /\ k \in Nat /\ k <= Len(waiting) /\ Len(waiting) \in Nat
      /\ DOMAIN pending' = {nextId + n - 1 : n \in 1..k}
      /\ \A n \in 1..k : pending'[nextId + n - 1] = waiting[n].call
      /\ inbox' \in [Workers -> Seq(SentJob)]
      /\ Len(inbox'[w]) = k
      /\ \A n \in 1..k : inbox'[w][n] = [id |-> nextId + n - 1, job |-> waiting[n]]
  BY <1>1, <1>2, <1>3, StartedSends
<1>5. nextId \in Nat /\ w # 0
  BY DEF LinesInv, QueueTypes, Workers
<1>6. DOMAIN pending = {} /\ Range(pending) = {}
  BY <1>2 DEF LinesInv, NothingWaitsForNothing, Range
<1>7. Outstanding = Waiting
  BY <1>6 DEF CallInv, EachAwaitsOne
<1>8. /\ DOMAIN calls = 1..Len(calls) /\ Outstanding \subseteq 1..Len(calls) /\ 1..Len(calls) \subseteq Nat
      /\ \A i \in 1..Len(waiting) : waiting[i].call \in Outstanding
  BY <1>7, CallFacts DEF CallInv, Waiting
<1>9. Turned = {waiting[i].call : i \in (k + 1)..Len(waiting)}
  BY <1>3 DEF Turned
<1>10. Ends({}, Turned, {})
  BY SettleEnds DEF Started, CallInv
<1>11. \A i \in (k + 1)..Len(waiting) : i \in 1..Len(waiting)
  BY <1>4
<1>12. Turned \subseteq Outstanding
  BY <1>8, <1>9, <1>11
<1>13. Queue' = {[id |-> nextId + n - 1, job |-> waiting[n]] : n \in 1..k}
  <2>1. PICK s \in Seq(SentJob) : s = inbox'[w]
    BY <1>4
  <2>2. Range(s) = {s[i] : i \in 1..Len(s)}
    BY OfItsElements
  <2>3. Range(inbox'[w]) = {[id |-> nextId + n - 1, job |-> waiting[n]] : n \in 1..k}
    BY <1>4, <2>1, <2>2
  <2> QED BY <1>1, <1>5, <2>3 DEF Queue
<1>14. \A n \in 1..k : n \in 1..Len(waiting)
  BY <1>4
<1>15. \A x \in Queue' : x.job.call \in 1..Len(calls) /\ x.job.op = Head(calls[x.job.call].todo)
  <2> SUFFICES ASSUME NEW n \in 1..k
               PROVE  /\ waiting[n].call \in 1..Len(calls)
                      /\ waiting[n].op = Head(calls[waiting[n].call].todo)
    BY <1>13
  <2> QED BY <1>8, <1>14 DEF CallInv, WorkIsNext
<1>16. Len(waiting') = 0 /\ 1..0 = {}
  BY <1>2
<1>17. initialization' = IF \E c \in Turned : calls[c].op = "initialize" THEN 0 ELSE initialization
  BY DEF Started, Settle
<1>18. PICK thrown : thrown = Turned
  OBVIOUS
<1>19. /\ Outstanding' = Outstanding \ ({} \cup thrown \cup {})
       /\ CallTypes' /\ WorkIsNext' /\ HandlesAreMade' /\ CurrentIsShared'
  <2>1. {} \cup thrown \cup {} \subseteq Outstanding
    BY <1>12, <1>18
  <2>2. Ends({}, thrown, {})
    BY <1>10, <1>18 DEF Ends
  <2>3. initialization' = IF \E c \in thrown : calls[c].op = "initialize" THEN 0 ELSE initialization
    BY <1>17, <1>18
  <2>4. UNCHANGED <<needsCreate, disposed>>
    BY DEF Started
  <2>5. \A i \in 1..Len(waiting') :
          waiting'[i].call \in 1..Len(calls) /\ waiting'[i].op = Head(calls[waiting'[i].call].todo)
    BY <1>16
  <2> QED BY <1>15, <2>1, <2>2, <2>3, <2>4, <2>5, EndsKeepCalls
<1>20. \A i, j \in 1..Len(waiting) : i < j => waiting[i].call < waiting[j].call
  BY DEF CallInv, EachAwaitsOne
<1>21. \A p \in DOMAIN pending' : \E n \in 1..k :
         /\ p = nextId + n - 1 /\ n \in 1..Len(waiting)
         /\ pending'[p] = waiting[n].call /\ waiting[n].call \in Nat
  BY <1>4, <1>8, <1>14
<1>22. \A p \in DOMAIN pending', q \in DOMAIN pending' : p < q => pending'[p] < pending'[q]
  <2> SUFFICES ASSUME NEW p \in DOMAIN pending', NEW q \in DOMAIN pending', p < q
               PROVE  pending'[p] < pending'[q]
    OBVIOUS
  <2>1. PICK i \in 1..k : p = nextId + i - 1 /\ i \in 1..Len(waiting) /\ pending'[p] = waiting[i].call
    BY <1>21
  <2>2. PICK j \in 1..k : q = nextId + j - 1 /\ j \in 1..Len(waiting) /\ pending'[q] = waiting[j].call
    BY <1>21
  <2>3. i < j
    BY <1>5, <2>1, <2>2
  <2> QED BY <1>20, <2>1, <2>2, <2>3
<1>23. EachAwaitsOne'
  <2>1. Range(pending') = {waiting[n].call : n \in 1..k}
    <3>1. \A n \in 1..k : nextId + n - 1 \in DOMAIN pending'
      BY <1>4
    <3>2. Range(pending') \subseteq {waiting[n].call : n \in 1..k}
      BY <1>21 DEF Range
    <3>3. {waiting[n].call : n \in 1..k} \subseteq Range(pending')
      BY <1>4, <3>1 DEF Range
    <3> QED BY <3>2, <3>3
  <2>2. Waiting' = {}
    BY <1>16 DEF Waiting
  <2>3. Outstanding' = {waiting[n].call : n \in 1..k}
    <3>1. \A n \in 1..Len(waiting) : n \in 1..k \/ n \in (k + 1)..Len(waiting)
      BY <1>4
    <3>2. Outstanding' \subseteq {waiting[n].call : n \in 1..k}
      BY <1>7, <1>9, <1>18, <1>19, <3>1 DEF Waiting
    <3>3. \A n \in 1..k : \A i \in (k + 1)..Len(waiting) : waiting[n].call # waiting[i].call
      <4> SUFFICES ASSUME NEW n \in 1..k, NEW i \in (k + 1)..Len(waiting)
                   PROVE  waiting[n].call # waiting[i].call
        OBVIOUS
      <4>1. n < i /\ n \in 1..Len(waiting) /\ i \in 1..Len(waiting)
        BY <1>4
      <4>2. waiting[n].call < waiting[i].call /\ waiting[n].call \in Nat /\ waiting[i].call \in Nat
        BY <1>8, <1>20, <4>1
      <4> QED BY <4>2
    <3>4. {waiting[n].call : n \in 1..k} \subseteq Outstanding'
      BY <1>8, <1>9, <1>14, <1>18, <1>19, <3>3
    <3> QED BY <3>2, <3>4
  <2>4. \A p, q \in DOMAIN pending' : pending'[p] = pending'[q] => p = q
    <3>1. \A p \in DOMAIN pending' : p \in Nat /\ pending'[p] \in Nat
      <4>1. \A n \in 1..k : nextId + n - 1 \in Nat
        BY <1>5
      <4> QED BY <1>21, <4>1
    <3>2. \A p, q \in DOMAIN pending' : p < q => pending'[p] # pending'[q]
      BY <1>22, <3>1
    <3> QED BY <3>1, <3>2
  <2> QED BY <1>16, <2>1, <2>2, <2>3, <2>4 DEF EachAwaitsOne
<1>24. QuietAfterDispose'
  <2> SUFFICES ASSUME NEW d \in 1..Len(calls), Final(d)' PROVE FALSE
    BY <1>10 DEF QuietAfterDispose, Ends
  <2>1. Final(d)
    BY <1>10 DEF Final, Ends
  <2> QED BY <1>2, <2>1 DEF CallInv, QuietAfterDispose
<1>25. Letters' = {}
  <2>1. \A m \in Range(mail) : m.from # w
    BY <1>1 DEF LinesInv, UnbornAreSilent
  <2> QED BY <1>1, <1>2, <2>1 DEF Letters
<1> QED BY <1>6, <1>7, <1>19, <1>22, <1>23, <1>24, <1>25 DEF CallInv

\* A start that fails throws for all that wait for it, a worker that is gone
\* for all that are pending, and a dispose for all but itself.
LEMMA AllEnd ==
  ASSUME WorkerInv, LinesInv, CallInv, Reset,
         NEW returned, NEW thrown, Settle(returned, thrown),
         returned \cup thrown = Outstanding,
         UNCHANGED <<needsCreate, disposed>>, waiting' = <<>>,
         started
  PROVE  CallInv' /\ Outstanding' = {}
<1>1. Ends(returned, thrown, {})
  BY SettleEnds DEF CallInv
<1>2. worker' = 0 /\ pending' = <<>> /\ started' = FALSE
  BY DEF Reset
<1>3. Len(waiting') = 0 /\ 1..0 = {} /\ Queue' = {} /\ DOMAIN pending' = {}
  BY <1>2 DEF Queue
<1>4. initialization' = IF \E c \in thrown : calls[c].op = "initialize" THEN 0 ELSE initialization
  BY DEF Settle
<1>5. /\ Outstanding' = Outstanding \ (returned \cup thrown \cup {})
      /\ CallTypes' /\ WorkIsNext' /\ HandlesAreMade' /\ CurrentIsShared'
  <2>1. returned \cup thrown \cup {} \subseteq Outstanding
    OBVIOUS
  <2> QED BY <1>1, <1>3, <1>4, <2>1, EndsKeepCalls
<1>6. Outstanding' = {}
  BY <1>5
<1>7. EachAwaitsOne'
  <2>1. Range(pending') = {} /\ Waiting' = {}
    BY <1>3 DEF Range, Waiting
  <2> QED BY <1>3, <1>6, <2>1 DEF EachAwaitsOne
<1>8. QuietAfterDispose'
  <2>1. Alive' = {}
    <3>1. worker' = 0 /\ OneWorker'
      BY ResetLeavesNone
    <3> QED BY <3>1 DEF OneWorker, Alive, Workers
  <2> QED BY <1>2, <1>6, <2>1 DEF QuietAfterDispose
<1> QED BY <1>5, <1>6, <1>7, <1>8 DEF CallInv

LEMMA NotStartedKeepsCalls ==
  ASSUME WorkerInv, LinesInv, CallInv, NotStarted
  PROVE  CallInv' /\ Outstanding' = {}
<1>1. Reset /\ starting > 0 /\ waiting' = <<>> /\ UNCHANGED <<needsCreate, disposed>>
  BY DEF NotStarted, StartFails
<1>2. started /\ worker = 0
  BY <1>1 DEF WorkerInv, ClientInv
<1>3. Range(pending) = {}
  BY <1>2 DEF LinesInv, NothingWaitsForNothing, Range
<1>4. {waiting[i].call : i \in DOMAIN waiting} = Outstanding
  <2>1. DOMAIN waiting = 1..Len(waiting)
    BY LenProperties DEF LinesInv, QueueTypes
  <2> QED BY <1>3, <2>1 DEF CallInv, EachAwaitsOne, Waiting
<1>5. Settle({}, Outstanding)
  BY <1>4 DEF NotStarted
<1>6. PICK thrown : thrown = Outstanding
  OBVIOUS
<1>7. Settle({}, thrown) /\ {} \cup thrown = Outstanding
  BY <1>5, <1>6 DEF Settle
<1> QED BY <1>1, <1>2, <1>7, AllEnd

LEMMA WorkerGoneKeepsCalls ==
  ASSUME WorkerInv, LinesInv, CallInv, WorkerGone
  PROVE  CallInv' /\ Outstanding' = {}
<1>1. Reset /\ Settle({}, Range(pending)) /\ UNCHANGED <<waiting, needsCreate, disposed>>
  BY DEF WorkerGone, Lost
<1>2. worker # 0
  BY FirstOfMail DEF WorkerGone, Heard, Message, WorkerInv
<1>3. started /\ waiting = <<>> /\ Outstanding = Range(pending)
  BY <1>2, HeardFacts
<1>4. PICK thrown : thrown = Range(pending)
  OBVIOUS
<1>5. Settle({}, thrown) /\ {} \cup thrown = Outstanding
  BY <1>1, <1>3, <1>4 DEF Settle
<1> QED BY <1>1, <1>3, <1>5, AllEnd

-----------------------------------------------------------------------------
\* The call that is answered is under way, and nothing else of it is.
LEMMA AnsweredFacts ==
  ASSUME WorkerInv, LinesInv, CallInv, NEW kinds, "gone" \notin kinds, Heard(kinds)
  PROVE  /\ Answered \in Outstanding /\ Answered \in 1..Len(calls)
         /\ calls[Answered].op \in Operations /\ calls[Answered].todo \in Todos(calls[Answered].op)
         /\ Range(Rest) = Outstanding \ {Answered}
         /\ \A p, q \in DOMAIN Rest : Rest[p] = Rest[q] => p = q
         /\ \A x \in Queue : x.job.call \in Outstanding \ {Answered}
<1>1. /\ Message.id \in DOMAIN pending
      /\ DOMAIN Rest = DOMAIN pending \ {Message.id}
      /\ \A p \in DOMAIN Rest : Rest[p] = pending[p]
      /\ worker # 0 /\ Message \in Letters
  BY HeardFirst
<1>2. Outstanding = Range(pending)
  BY <1>1, HeardFacts
<1>3. Answered \in Outstanding
  BY <1>1, <1>2 DEF Answered, Range
<1>4. Outstanding \subseteq 1..Len(calls) /\ \A c \in 1..Len(calls) : calls[c] \in CallRecord
  BY CallFacts DEF CallInv
<1>5. \A p, q \in DOMAIN pending : pending[p] = pending[q] => p = q
  BY DEF CallInv, EachAwaitsOne
<1>6. Range(Rest) = Outstanding \ {Answered}
  BY <1>1, <1>2, <1>5 DEF Answered, Range
<1>7. \A x \in Queue : x.job.call \in Outstanding \ {Answered}
  <2> SUFFICES ASSUME NEW x \in Queue PROVE x.job.call \in Outstanding \ {Answered}
    OBVIOUS
  <2>1. x.id \in DOMAIN pending /\ pending[x.id] = x.job.call /\ Message.id < x.id
    BY <1>1 DEF LinesInv, Lines
  <2>2. x.id # Message.id
    BY <1>1, <2>1, LineTypes
  <2> QED BY <1>1, <1>2, <1>5, <2>1, <2>2 DEF Answered, Range
<1>8. calls[Answered].op \in Operations
  BY <1>3, <1>4 DEF CallRecord
<1>9. calls[Answered].todo \in Todos(calls[Answered].op)
  BY <1>3 DEF CallInv, WorkIsNext
<1> QED BY <1>1, <1>3, <1>4, <1>5, <1>6, <1>7, <1>8, <1>9

\* An answer that ends a call, other than a dispose that returns, ends it alone.
LEMMA CompleteKeepsCalls ==
  ASSUME WorkerInv, LinesInv, CallInv, NEW kinds, "gone" \notin kinds, Heard(kinds), Complete,
         NEW returned, NEW thrown, NEW closed, Ends(returned, thrown, closed),
         returned \cup thrown \cup closed = {Answered},
         \A c \in returned : calls[c].op # "dispose",
         initialization' = IF \E c \in thrown : calls[c].op = "initialize" THEN 0 ELSE initialization,
         UNCHANGED disposed
  PROVE  /\ CallInv' /\ Outstanding' = Outstanding \ {Answered}
         /\ Handles' = Handles \cup {c \in returned \ thrown : calls[c].op = "initialize"}
<1>1. /\ pending' = Rest
      /\ UNCHANGED <<started, worker, waiting, phase, inbox, needsCreate>>
  BY DEF Complete
<1>2. /\ Answered \in Outstanding
      /\ Range(Rest) = Outstanding \ {Answered}
      /\ \A p, q \in DOMAIN Rest : Rest[p] = Rest[q] => p = q
      /\ \A x \in Queue : x.job.call \in Outstanding \ {Answered}
  BY AnsweredFacts
<1>3. worker # 0
  BY HeardFirst
<1>4. /\ waiting = <<>> /\ Waiting = {} /\ started /\ \A d \in 1..Len(calls) : ~Final(d)
  BY <1>3, HeardFacts
<1>5. Outstanding \subseteq 1..Len(calls)
  BY CallFacts DEF CallInv
<1>6. Queue' = Queue /\ Waiting' = {} /\ Len(waiting') = 0 /\ 1..0 = {}
  BY <1>1, <1>4 DEF Queue, Waiting
<1>7. \A x \in Queue' : x.job.call \in 1..Len(calls) /\ x.job.op = Head(calls[x.job.call].todo)
  BY <1>2, <1>5, <1>6 DEF CallInv, WorkIsNext
<1>8. /\ Outstanding' = Outstanding \ (returned \cup thrown \cup closed)
      /\ Handles' = Handles \cup {c \in returned \ thrown : calls[c].op = "initialize"}
      /\ CallTypes' /\ WorkIsNext' /\ HandlesAreMade' /\ CurrentIsShared'
  BY <1>1, <1>2, <1>6, <1>7, EndsKeepCalls
<1>9. EachAwaitsOne'
  BY <1>1, <1>2, <1>6, <1>8 DEF EachAwaitsOne
<1>10. QuietAfterDispose'
  <2> SUFFICES ASSUME NEW d \in 1..Len(calls), Final(d)' PROVE FALSE
    BY DEF QuietAfterDispose, Ends
  <2>1. calls[d].op = "dispose" /\ d \notin returned
    BY DEF Final, Ends
  <2>2. Final(d)
    BY <2>1 DEF Final, Ends
  <2> QED BY <1>4, <2>2
<1> QED BY <1>8, <1>9, <1>10 DEF CallInv

\* How an answer ends its call.
LEMMA ReturnEnds ==
  ASSUME WorkerInv, LinesInv, CallInv, Return \/ ReturnError \/ ReturnClosed
  PROVE  \E kinds, returned, thrown, closed :
           /\ "gone" \notin kinds /\ Heard(kinds) /\ Complete
           /\ Ends(returned, thrown, closed)
           /\ returned \cup thrown \cup closed = {Answered}
           /\ \A c \in returned : Left = <<>> /\ Step # "close"
           /\ \A c \in closed : Message.answer = "closed"
           /\ initialization' = IF \E c \in thrown : calls[c].op = "initialize" THEN 0 ELSE initialization
<1>1. PICK a : a = Answered
  OBVIOUS
<1>2. CASE Return
  <2>1. Heard({"ok"}) /\ Complete /\ Settle({a}, {}) /\ Left = <<>> /\ Step # "close"
    BY <1>1, <1>2 DEF Return
  <2>2. Ends({a}, {}, {})
    BY <2>1, SettleEnds DEF CallInv
  <2>3. initialization' = IF \E c \in {} : calls[c].op = "initialize" THEN 0 ELSE initialization
    BY <2>1 DEF Settle
  <2>4. {a} \cup {} \cup {} = {Answered} /\ "gone" \notin {"ok"} /\ \A c \in {} : Message.answer = "closed"
    BY <1>1
  <2> QED BY <2>1, <2>2, <2>3, <2>4
<1>3. CASE ReturnError
  <2>1. Heard({"refused", "thrown"}) /\ Complete /\ Settle({}, {a})
    BY <1>1, <1>3 DEF ReturnError
  <2>2. Ends({}, {a}, {})
    BY <2>1, SettleEnds DEF CallInv
  <2>3. initialization' = IF \E c \in {a} : calls[c].op = "initialize" THEN 0 ELSE initialization
    BY <2>1 DEF Settle
  <2>4. {} \cup {a} \cup {} = {Answered} /\ "gone" \notin {"refused", "thrown"}
        /\ (\A c \in {} : Left = <<>> /\ Step # "close") /\ \A c \in {} : Message.answer = "closed"
    BY <1>1
  <2> QED BY <2>1, <2>2, <2>3, <2>4
<1>4. CASE ReturnClosed
  <2>1. /\ Heard({"closed"}) /\ Complete /\ UNCHANGED initialization
        /\ calls' = [calls EXCEPT ![a].outcome = "closed"]
    BY <1>1, <1>4 DEF ReturnClosed
  <2>2. a \in 1..Len(calls)
    BY <1>1, <2>1, AnsweredFacts
  <2>3. Ends({}, {}, {a})
    <3>1. DOMAIN calls = 1..Len(calls) /\ \A e \in 1..Len(calls) : calls[e] \in CallRecord
      BY CallFacts DEF CallInv
    <3>2. calls' = [e \in 1..Len(calls) |-> IF e = a THEN [calls[e] EXCEPT !.outcome = "closed"] ELSE calls[e]]
      BY <2>1, <2>2, <3>1 DEF CallInv, CallTypes
    <3>3. calls' \in [1..Len(calls) -> CallRecord]
      BY <3>1, <3>2 DEF CallRecord
    <3>4. Len(calls') = Len(calls)
      BY <3>3, SeqDef, LenProperties DEF CallInv, CallTypes
    <3>5. \A e \in 1..Len(calls) :
            /\ calls'[e].op = calls[e].op
            /\ calls'[e].handle = calls[e].handle
            /\ calls'[e].todo = calls[e].todo
            /\ calls'[e].outcome = IF e \in {a} THEN "closed" ELSE calls[e].outcome
      BY <3>1, <3>2 DEF CallRecord
    <3> QED BY <3>3, <3>4, <3>5 DEF Ends
  <2>4. initialization' = IF \E c \in {} : calls[c].op = "initialize" THEN 0 ELSE initialization
    BY <2>1
  <2>5. {} \cup {} \cup {a} = {Answered} /\ "gone" \notin {"closed"} /\ Message.answer = "closed"
        /\ \A c \in {} : Left = <<>> /\ Step # "close"
    BY <1>1, <2>1 DEF Heard
  <2> QED BY <2>1, <2>3, <2>4, <2>5
<1> QED BY <1>2, <1>3, <1>4

LEMMA ReturnKeepsCalls ==
  ASSUME WorkerInv, LinesInv, CallInv, Return \/ ReturnError \/ ReturnClosed
  PROVE  CallInv' /\ LinesInv'
<1>1. PICK kinds, returned, thrown, closed :
        /\ "gone" \notin kinds /\ Heard(kinds) /\ Complete
        /\ Ends(returned, thrown, closed)
        /\ returned \cup thrown \cup closed = {Answered}
        /\ \A c \in returned : Left = <<>> /\ Step # "close"
        /\ initialization' = IF \E c \in thrown : calls[c].op = "initialize" THEN 0 ELSE initialization
  BY ReturnEnds
<1>2. calls[Answered].op \in Operations /\ calls[Answered].todo \in Todos(calls[Answered].op)
  BY <1>1, AnsweredFacts
<1>3. \A c \in returned : calls[c].op # "dispose"
  BY <1>1, <1>2, TodoFacts DEF Step
<1>4. UNCHANGED disposed
  BY <1>1 DEF Complete
<1> QED BY <1>1, <1>3, <1>4, CompleteKeepsCalls, CompleteKeepsLines

LEMMA CloseKeepsCalls ==
  ASSUME WorkerInv, LinesInv, CallInv, CloseWorker
  PROVE  CallInv' /\ Outstanding' = {}
<1>1. /\ Heard({"ok"}) /\ Reset /\ Settle({Answered}, Range(Rest))
      /\ UNCHANGED <<waiting, needsCreate, disposed>>
  BY DEF CloseWorker
<1>2. worker # 0
  BY <1>1, HeardFirst
<1>3. started /\ waiting = <<>>
  BY <1>2, HeardFacts
<1>4. Answered \in Outstanding /\ Range(Rest) = Outstanding \ {Answered}
  BY <1>1, AnsweredFacts
<1>5. PICK returned : returned = {Answered}
  OBVIOUS
<1>6. PICK thrown : thrown = Range(Rest)
  OBVIOUS
<1>7. Settle(returned, thrown) /\ returned \cup thrown = Outstanding
  BY <1>1, <1>4, <1>5, <1>6 DEF Settle
<1> QED BY <1>1, <1>3, <1>7, AllEnd

\* A call that goes on awaits one answer again.
LEMMA ContinueKeepsCalls ==
  ASSUME WorkerInv, LinesInv, CallInv, Continue
  PROVE  /\ CallInv' /\ LinesInv'
         /\ Outstanding' = Outstanding /\ Handles' = Handles /\ Len(calls') = Len(calls)
         /\ \A c \in 1..Len(calls) :
              /\ calls'[c].op = calls[c].op /\ calls'[c].handle = calls[c].handle
              /\ calls'[c].outcome = calls[c].outcome
              /\ calls'[c].todo = IF c = Answered THEN Left ELSE calls[c].todo
         /\ DOMAIN pending' = DOMAIN Rest \cup {nextId} /\ pending'[nextId] = Answered
         /\ \A p \in DOMAIN Rest : pending'[p] = Rest[p]
         /\ Letters' = Letters \ {Message}
<1>1. /\ Heard({"ok"}) /\ Left # <<>>
      /\ Send(worker, <<[call |-> Answered, op |-> Head(Left)]>>, Rest)
      /\ calls' = [calls EXCEPT ![Answered].todo = Left]
      /\ needsCreate' = IF Step = "create" THEN FALSE ELSE needsCreate
      /\ UNCHANGED <<started, worker, waiting, phase, initialization, disposed>>
  BY DEF Continue
<1>2. /\ Answered \in Outstanding /\ Answered \in 1..Len(calls)
      /\ calls[Answered].op \in Operations /\ calls[Answered].todo \in Todos(calls[Answered].op)
      /\ Range(Rest) = Outstanding \ {Answered}
      /\ \A p, q \in DOMAIN Rest : Rest[p] = Rest[q] => p = q
      /\ \A x \in Queue : x.job.call \in Outstanding \ {Answered}
  BY <1>1, AnsweredFacts
<1>3. Left \in Todos(calls[Answered].op) /\ Head(Left) \in NativeOps
  BY <1>1, <1>2, TodoFacts DEF Left
<1>4. LinesInv'
  BY <1>3, ContinueKeepsLines
<1>5. worker \in Workers /\ worker # 0
  BY <1>1, HeardFirst
<1>6. /\ waiting = <<>> /\ Waiting = {} /\ Outstanding = Range(pending)
      /\ started /\ \A d \in 1..Len(calls) : ~Final(d)
  BY <1>5, HeardFacts
<1>7. /\ Rest \in [DOMAIN Rest -> Nat]
      /\ \A p \in DOMAIN Rest : p \in Nat /\ p < nextId
      /\ Answered \in Nat
  BY <1>1, RestTypes
<1>8. PICK job \in Job : job = [call |-> Answered, op |-> Head(Left)]
  BY <1>3, <1>7 DEF Job
<1>9. PICK pend : pend = Rest
  OBVIOUS
<1>10. PICK w \in Workers : w = worker
  BY <1>5
<1>11. /\ QueueTypes
       /\ pend \in [DOMAIN pend -> Nat] /\ \A p \in DOMAIN pend : p \in Nat /\ p < nextId
       /\ Send(w, <<job>>, pend)
  BY <1>1, <1>7, <1>8, <1>9, <1>10 DEF LinesInv
<1>12. /\ nextId' = nextId + 1
       /\ DOMAIN pending' = DOMAIN pend \cup {nextId}
       /\ pending' \in [DOMAIN pending' -> Nat]
       /\ \A p \in DOMAIN pend : pending'[p] = pend[p]
       /\ pending'[nextId] = job.call
       /\ inbox' \in [Workers -> Seq(SentJob)]
       /\ \A v \in Workers \ {w} : inbox'[v] = inbox[v]
       /\ Len(inbox[w]) \in Nat /\ Len(inbox'[w]) = Len(inbox[w]) + 1
       /\ \A i \in 1..Len(inbox[w]) : inbox'[w][i] = inbox[w][i]
       /\ inbox'[w][Len(inbox[w]) + 1] = [id |-> nextId, job |-> job]
       /\ Range(inbox'[w]) = Range(inbox[w]) \cup {[id |-> nextId, job |-> job]}
  BY <1>11, SendOne
<1>13. Queue' = Queue \cup {[id |-> nextId, job |-> job]}
  BY <1>1, <1>5, <1>10, <1>12 DEF Queue
<1>14. job.call = Answered /\ job.op = Head(Left)
  BY <1>8
<1>15. /\ DOMAIN pending' = DOMAIN Rest \cup {nextId} /\ pending'[nextId] = Answered
       /\ \A p \in DOMAIN Rest : pending'[p] = Rest[p]
  BY <1>9, <1>12, <1>14
<1>16. /\ DOMAIN calls = 1..Len(calls) /\ Outstanding \subseteq 1..Len(calls)
       /\ \A c \in 1..Len(calls) : calls[c] \in CallRecord
  BY CallFacts DEF CallInv
<1>17. /\ Len(calls') = Len(calls) /\ calls' \in [1..Len(calls) -> CallRecord]
       /\ \A c \in 1..Len(calls) :
            /\ calls'[c].op = calls[c].op /\ calls'[c].handle = calls[c].handle
            /\ calls'[c].outcome = calls[c].outcome
            /\ calls'[c].todo = IF c = Answered THEN Left ELSE calls[c].todo
  <2>1. PICK a : a = Answered
    OBVIOUS
  <2>2. PICK left \in Seq(NativeOps) : left = Left
    BY <1>2, <1>3, TodoFacts
  <2>3. calls' = [c \in 1..Len(calls) |-> IF c = a THEN [calls[c] EXCEPT !.todo = left] ELSE calls[c]]
    BY <1>1, <1>2, <1>16, <2>1, <2>2 DEF CallInv, CallTypes
  <2>4. calls' \in [1..Len(calls) -> CallRecord]
    BY <1>16, <2>3 DEF CallRecord
  <2>5. Len(calls') = Len(calls)
    BY <2>4, SeqDef, LenProperties DEF CallInv, CallTypes
  <2>6. \A c \in 1..Len(calls) :
          /\ calls'[c].op = calls[c].op /\ calls'[c].handle = calls[c].handle
          /\ calls'[c].outcome = calls[c].outcome
          /\ calls'[c].todo = IF c = a THEN left ELSE calls[c].todo
    BY <1>16, <2>3 DEF CallRecord
  <2> QED BY <2>1, <2>2, <2>4, <2>5, <2>6
<1>18. DOMAIN calls' = 1..Len(calls)
  BY <1>17
<1>19. Outstanding' = Outstanding /\ Handles' = Handles
  BY <1>16, <1>17, <1>18 DEF Outstanding, Handles
<1>20. CallTypes'
  <2>1. needsCreate' \in BOOLEAN
    <3>1. CASE Step = "create"
      BY <1>1, <3>1, Zenon
    <3>2. CASE Step # "create"
      BY <1>1, <3>2 DEF CallInv, CallTypes
    <3> QED BY <3>1, <3>2
  <2> QED BY <1>1, <1>17, <1>19, <2>1 DEF CallInv, CallTypes
<1>21. Waiting' = {} /\ Len(waiting') = 0 /\ 1..0 = {}
  BY <1>1, <1>6 DEF Waiting
<1>22. EachAwaitsOne'
  <2>1. Range(pending') = Range(Rest) \cup {Answered}
    BY <1>15 DEF Range
  <2>2. Outstanding' = Range(pending')
    BY <1>2, <1>19, <2>1
  <2>3. \A p \in DOMAIN Rest : Rest[p] # Answered
    BY <1>2 DEF Range
  <2>4. \A p, q \in DOMAIN pending' : pending'[p] = pending'[q] => p = q
    BY <1>2, <1>15, <2>3
  <2> QED BY <1>21, <2>2, <2>4 DEF EachAwaitsOne
<1>23. WorkIsNext'
  <2>1. \A c \in Outstanding : calls'[c].todo \in Todos(calls'[c].op)
    BY <1>3, <1>16, <1>17 DEF CallInv, WorkIsNext
  <2>2. \A x \in Queue : x.job.op = Head(calls'[x.job.call].todo)
    <3> SUFFICES ASSUME NEW x \in Queue PROVE x.job.op = Head(calls'[x.job.call].todo)
      OBVIOUS
    <3>1. x.job.call \in 1..Len(calls) /\ x.job.call # Answered
      BY <1>2, <1>16
    <3>2. calls'[x.job.call].todo = calls[x.job.call].todo
      BY <1>17, <3>1
    <3> QED BY <3>2 DEF CallInv, WorkIsNext
  <2>3. calls'[Answered].todo = Left
    BY <1>2, <1>17
  <2>4. \A x \in Queue' : x.job.op = Head(calls'[x.job.call].todo)
    BY <1>13, <1>14, <2>2, <2>3
  <2> QED BY <1>19, <1>21, <2>1, <2>4 DEF WorkIsNext
<1>24. HandlesAreMade'
  BY <1>1, <1>17, <1>19 DEF CallInv, HandlesAreMade
<1>25. CurrentIsShared'
  BY <1>1, <1>17 DEF CallInv, CurrentIsShared, Current
<1>26. QuietAfterDispose'
  <2> SUFFICES ASSUME NEW d \in 1..Len(calls), Final(d)' PROVE FALSE
    BY <1>17 DEF QuietAfterDispose
  <2>1. Final(d)
    <3>1. \A c \in d..Len(calls) : c \in 1..Len(calls)
      BY <1>17 DEF CallInv, CallTypes
    <3> QED BY <1>17, <3>1 DEF Final
  <2> QED BY <1>6, <2>1
<1>27. Letters' = Letters \ {Message}
  BY <1>1, HeardMail
<1> QED BY <1>4, <1>15, <1>17, <1>19, <1>20, <1>22, <1>23, <1>24, <1>25, <1>26, <1>27 DEF CallInv

-----------------------------------------------------------------------------
\* What the calls of a program have in common.
Called(op, handle, todo) ==
  /\ Make(op, handle, todo)
  /\ IF op = "initialize" THEN handle = 0 /\ initialization = 0 ELSE handle \in Handles \ disposed
  /\ initialization' = IF op = "initialize" THEN IF Refused(pending) THEN 0 ELSE NewCall
                       ELSE IF op = "dispose" THEN 0 ELSE initialization
  /\ disposed' = IF op = "dispose" THEN disposed \cup {handle} ELSE disposed
  /\ needsCreate' = IF op = "dispose" THEN TRUE ELSE needsCreate
  /\ op = "initialize" /\ needsCreate => Head(todo) = "create"

LEMMA ProgramCalls ==
  ASSUME CallInv,
         (\E withOptions \in BOOLEAN : Initialize(withOptions))
           \/ (\E h \in Handles : Evaluate(h) \/ EvaluateList(h) \/ Dispose(h))
  PROVE  \E op \in Operations, handle \in Nat : \E todo \in Todos(op) : Called(op, handle, todo)
<1>1. Handles \subseteq Nat
  BY CallFacts DEF CallInv
<1>2. ASSUME NEW withOptions \in BOOLEAN, Initialize(withOptions)
      PROVE  \E todo \in Todos("initialize") : Called("initialize", 0, todo)
  <2>1. PICK todo : /\ todo = (IF needsCreate \/ withOptions THEN <<"create">> ELSE <<>>) \o <<"info">>
                    /\ Make("initialize", 0, todo)
    BY <1>2 DEF Initialize
  <2>2. todo = IF needsCreate \/ withOptions THEN <<"create", "info">> ELSE <<"info">>
    <3>1. CASE needsCreate \/ withOptions
      BY <2>1, <3>1
    <3>2. CASE ~(needsCreate \/ withOptions)
      BY <2>1, <3>2
    <3> QED BY <3>1, <3>2
  <2>3. todo \in Todos("initialize")
    BY <2>2 DEF Todos
  <2>4. needsCreate => Head(todo) = "create"
    BY <2>2
  <2>5. Called("initialize", 0, todo)
    BY <1>2, <2>1, <2>4 DEF Called, Initialize
  <2> QED BY <2>3, <2>5
<1>3. ASSUME NEW h \in Handles, Evaluate(h)
      PROVE  Called("evaluate", h, <<"evaluate">>) /\ <<"evaluate">> \in Todos("evaluate")
  BY <1>3 DEF Called, Evaluate, Todos
<1>4. ASSUME NEW h \in Handles, EvaluateList(h)
      PROVE  Called("list", h, <<"evaluate", "evaluate">>) /\ <<"evaluate", "evaluate">> \in Todos("list")
  BY <1>4 DEF Called, EvaluateList, Todos
<1>5. ASSUME NEW h \in Handles, Dispose(h)
      PROVE  Called("dispose", h, <<"close">>) /\ <<"close">> \in Todos("dispose")
  BY <1>5 DEF Called, Dispose, Todos
<1>6. {"initialize", "evaluate", "list", "dispose"} \subseteq Operations /\ 0 \in Nat
  BY DEF Operations
<1>7. CASE \E withOptions \in BOOLEAN : Initialize(withOptions)
  BY <1>2, <1>6, <1>7
<1>8. CASE \E h \in Handles : Evaluate(h) \/ EvaluateList(h) \/ Dispose(h)
  <2>1. PICK h \in Handles : Evaluate(h) \/ EvaluateList(h) \/ Dispose(h)
    BY <1>8
  <2>2. CASE Evaluate(h)
    BY <1>1, <1>3, <1>6, <2>2
  <2>3. CASE EvaluateList(h)
    BY <1>1, <1>4, <1>6, <2>3
  <2>4. CASE Dispose(h)
    BY <1>1, <1>5, <1>6, <2>4
  <2> QED BY <2>1, <2>2, <2>3, <2>4
<1> QED BY <1>7, <1>8

LEMMA CalledKeepsInv ==
  ASSUME WorkerInv, LinesInv, CallInv,
         NEW op \in Operations, NEW handle \in Nat, NEW todo \in Todos(op), Called(op, handle, todo)
  PROVE  WorkerInv' /\ LinesInv' /\ CallInv'
<1>1. Make(op, handle, todo)
  BY DEF Called
<1>2. Head(todo) \in NativeOps
  BY TodoFacts
<1>3. Len(calls) \in Nat
  BY DEF CallInv, CallTypes
<1>4. WorkerInv'
  BY <1>1, MakeKeepsInv
<1>5. LinesInv'
  BY <1>1, <1>2, <1>3, MakeKeepsLines
<1>6. needsCreate' \in BOOLEAN
  <2>1. CASE op = "dispose"
    <3>1. needsCreate' = TRUE
      BY <2>1 DEF Called
    <3> QED BY <3>1, Zenon
  <2>2. CASE op # "dispose"
    BY <2>2 DEF Called, CallInv, CallTypes
  <2> QED BY <2>1, <2>2
<1>7. CallInv'
  BY <1>1, <1>6, MakeKeepsCalls DEF Called
<1> QED BY <1>4, <1>5, <1>7

\* An isolate's step leaves the calls alone; what it took from its inbox was
\* its first message.
LEMMA IsolateStep ==
  ASSUME WorkerInv, LinesInv, CallInv, NEW w \in Workers, Isolate(w) \/ Failure(w)
  PROVE  LinesInv' /\ CallInv' /\ Queue' \subseteq Queue
<1>1. UNCHANGED <<handleVars, pending, waiting, started, worker>>
  BY DEF Isolate, Failure, Take, Finish, Throws, Dies, clientVars
<1>2. Alive' \subseteq Alive
  BY DEF Isolate, Failure, Take, Finish, Throws, Dies, Alive, WorkerInv
<1>3. ASSUME NEW answer \in {"ok", "refused", "closed", "thrown"}, AnswerIs(w, answer)
      PROVE  LinesInv' /\ Queue' \subseteq Queue
  <2>1. CASE w = worker
    BY <1>3, <2>1, AnswerOfWorker
  <2>2. CASE w # worker
    BY <1>3, <2>2, AnswerOfOther
  <2> QED BY <2>1, <2>2
<1>4. LinesInv' /\ Queue' \subseteq Queue
  <2>1. CASE Take(w)
    <3>1. UNCHANGED <<worker, inbox>>
      BY <2>1 DEF Take, clientVars
    <3> QED BY <2>1, <3>1, TakeKeepsLines DEF Queue
  <2>2. CASE Finish(w)
    BY <1>3, <2>2, FinishAnswers
  <2>3. CASE Throws(w)
    BY <1>3, <2>3, ThrowsAnswers
  <2>4. CASE Dies(w)
    BY <2>4, DiesKeepsLines
  <2> QED BY <2>1, <2>2, <2>3, <2>4 DEF Isolate, Failure
<1>5. CallInv'
  BY <1>1, <1>2, <1>4, IdleKeepsCalls
<1> QED BY <1>4, <1>5

LEMMA DeliverStep ==
  ASSUME WorkerInv, LinesInv, CallInv, Deliver
  PROVE  LinesInv' /\ CallInv'
<1>1. CASE Unheard
  <2>1. UNCHANGED <<handleVars, pending, waiting, started, worker, inbox, phase>>
    BY <1>1 DEF Unheard, clientVars
  <2>2. Queue' = Queue /\ Alive' = Alive
    BY <2>1 DEF Queue, Alive
  <2> QED BY <1>1, <2>1, <2>2, UnheardKeepsLines, IdleKeepsCalls
<1>2. CASE WorkerGone
  <2>1. Reset /\ UNCHANGED <<starting, waiting, nextId, serving>> /\ mail # <<>> /\ mail' = Tail(mail)
    BY <1>2 DEF WorkerGone, Heard
  <2>2. waiting' \in Seq(Job) /\ (starting' = 0 => waiting' = <<>>)
    BY <2>1 DEF LinesInv, QueueTypes, NothingWaitsForNothing
  <2> QED BY <1>2, <2>1, <2>2, ResetKeepsLines, WorkerGoneKeepsCalls
<1>3. CASE Continue
  BY <1>3, ContinueKeepsCalls
<1>4. CASE Return \/ ReturnError \/ ReturnClosed
  BY <1>4, ReturnKeepsCalls
<1>5. CASE CloseWorker
  <2>1. Reset /\ UNCHANGED <<starting, waiting, nextId, serving>> /\ mail # <<>> /\ mail' = Tail(mail)
    BY <1>5 DEF CloseWorker, Heard
  <2>2. waiting' \in Seq(Job) /\ (starting' = 0 => waiting' = <<>>)
    BY <2>1 DEF LinesInv, QueueTypes, NothingWaitsForNothing
  <2> QED BY <1>5, <2>1, <2>2, ResetKeepsLines, CloseKeepsCalls
<1> QED BY <1>1, <1>2, <1>3, <1>4, <1>5 DEF Deliver

LEMMA StartStep ==
  ASSUME WorkerInv, LinesInv, CallInv, Started \/ NotStarted
  PROVE  LinesInv' /\ CallInv'
<1>1. CASE Started
  BY <1>1, StartedKeepsLines, StartedKeepsCalls DEF Started
<1>2. CASE NotStarted
  <2>1. Reset /\ UNCHANGED <<nextId, serving>> /\ mail' = mail /\ waiting' = <<>>
    BY <1>2 DEF NotStarted, StartFails
  <2>2. waiting' \in Seq(Job)
    BY <2>1
  <2> QED BY <1>2, <2>1, <2>2, ResetKeepsLines, NotStartedKeepsCalls
<1> QED BY <1>1, <1>2

\* A step that changes nothing.
LEMMA StutterStep ==
  ASSUME LinesInv, CallInv, UNCHANGED vars
  PROVE  LinesInv' /\ CallInv'
<1>1. UNCHANGED <<calls, initialization, needsCreate, disposed, started, starting, worker, waiting,
                  pending, nextId, phase, inbox, serving, mail, native>>
  BY DEF vars, workerVars, clientVars, isolateVars, handleVars
<1>2. Letters' = Letters /\ Queue' = Queue /\ Alive' = Alive
  BY <1>1 DEF Letters, Queue, Alive
<1>3. QueueTypes' /\ PendingTypes' /\ UnbornAreSilent' /\ ServingHasMessage' /\ NothingWaitsForNothing'
  BY <1>1 DEF LinesInv, QueueTypes, PendingTypes, UnbornAreSilent, ServingHasMessage, NothingWaitsForNothing
<1>4. InboxInOrder' /\ MailInOrder' /\ GoneIsGone'
  BY <1>1 DEF LinesInv, InboxInOrder, MailInOrder, GoneIsGone
<1>5. Lines(Letters, Queue, pending)' /\ (worker # 0 /\ phase[worker] = "alive" => AllInLine(Letters, Queue, pending))'
  BY <1>1, <1>2 DEF LinesInv, Lines, AllInLine
<1>6. CallInv'
  BY <1>1, <1>2, IdleKeepsCalls DEF handleVars
<1> QED BY <1>3, <1>4, <1>5, <1>6 DEF LinesInv

LEMMA CallStep == WorkerInv /\ LinesInv /\ CallInv /\ [Next]_vars => LinesInv' /\ CallInv'
<1> SUFFICES ASSUME WorkerInv, LinesInv, CallInv, [Next]_vars PROVE LinesInv' /\ CallInv'
  OBVIOUS
<1>1. CASE (\E withOptions \in BOOLEAN : Initialize(withOptions))
             \/ (\E h \in Handles : Evaluate(h) \/ EvaluateList(h) \/ Dispose(h))
  <2>1. PICK op \in Operations, handle \in Nat : \E todo \in Todos(op) : Called(op, handle, todo)
    BY <1>1, ProgramCalls
  <2>2. PICK todo \in Todos(op) : Called(op, handle, todo)
    BY <2>1
  <2> QED BY <2>2, CalledKeepsInv
<1>2. CASE Started \/ NotStarted
  BY <1>2, StartStep
<1>3. CASE Deliver
  BY <1>3, DeliverStep
<1>4. ASSUME NEW w \in Workers, Isolate(w) \/ Failure(w) PROVE LinesInv' /\ CallInv'
  BY <1>4, IsolateStep
<1>5. CASE UNCHANGED vars
  BY <1>5, StutterStep
<1> QED BY <1>1, <1>2, <1>3, <1>4, <1>5 DEF Next

-----------------------------------------------------------------------------
\* What the client keeps goes together: every request pending and every invoke
\* that waits is of a call under way, no more is pending than the limit, and
\* the one initialize under way is the one whose future _initialization is.
THEOREM TypeCorrect == Spec => []TypeOK
<1>1. WorkerInv /\ LinesInv /\ CallInv => TypeOK
  <2> SUFFICES ASSUME WorkerInv, LinesInv, CallInv PROVE TypeOK
    OBVIOUS
  <2>1. DOMAIN waiting = 1..Len(waiting)
    BY LenProperties DEF LinesInv, QueueTypes
  <2>2. Range(pending) \cup {waiting[i].call : i \in DOMAIN waiting} \subseteq Outstanding
    BY <2>1 DEF CallInv, EachAwaitsOne, Waiting
  <2>3. Cardinality(DOMAIN pending) <= MaxPending
    BY DEF LinesInv, PendingTypes
  <2>4. \A c \in Outstanding : calls[c].op = "initialize" => initialization = c
    <3>1. Outstanding \subseteq 1..Len(calls)
      BY CallFacts DEF CallInv
    <3> QED BY <3>1 DEF CallInv, CurrentIsShared, Current, Outstanding
  <2> QED BY <2>2, <2>3, <2>4 DEF TypeOK, WorkerInv, ClientInv, CallInv, CallTypes
<1> QED BY <1>1, InitWorker, InitLines, InitCalls, WorkerStep, CallStep, PTL DEF Spec

\* Once dispose has returned no isolate of the client runs until somebody calls
\* initialize, whatever calls were under way, waiting or made too late.
THEOREM DisposeEndsWorker == Spec => []DisposedLeavesNoWorker
<1>1. CallInv => DisposedLeavesNoWorker
  BY CallFacts DEF CallInv, QuietAfterDispose, Final, DisposedLeavesNoWorker
<1> QED BY <1>1, InitWorker, InitLines, InitCalls, WorkerStep, CallStep, PTL DEF Spec

-----------------------------------------------------------------------------
\* The process's runtime: open for the handles that are not disposed, and
\* closed by nobody but the one dispose under way.
Undisposed == Handles \ disposed
Closing == {c \in Outstanding : calls[c].op = "dispose"}

RuntimeTypes == native \in [open : BOOLEAN, by : Nat]

\* A dispose that is answered has been sent before the initialize that follows.
CloseComesFirst ==
  \A p, q \in DOMAIN pending :
    calls[pending[p]].op = "dispose" /\ calls[pending[q]].op = "initialize" => p < q

OneCloses == \A c, d \in Closing : c = d

\* What a dispose overtakes is the rest of a list whose first batch has been answered.
OnlyListsAreOvertaken ==
  \A p, q \in DOMAIN pending :
    p < q /\ calls[pending[p]].op = "dispose" /\ pending[q] < pending[p] =>
      calls[pending[q]].op = "list" /\ Len(calls[pending[q]].todo) = 1

OpenHandlesAreUsable == Undisposed # {} => ~needsCreate

CreatedIsOpen == ~needsCreate => native.open /\ Closing = {}

InfoNeedsNoCreate ==
  \A c \in Outstanding : calls[c].op = "initialize" /\ Head(calls[c].todo) = "info" => ~needsCreate

\* A create that was answered well is still in force when that is heard.
CreateHasOpened ==
  \A m \in Letters : m.answer = "ok" /\ Head(calls[pending[m.id]].todo) = "create" => native.open

\* What a killed isolate still finishes is not a close.
KilledDoNotClose ==
  \A w \in Workers : phase[w] = "killed" =>
    serving[w] /\ inbox[w] # <<>> /\ Head(inbox[w]).job.op # "close"

ClosedWereDisposed ==
  \A m \in Letters : m.answer = "closed" => calls[pending[m.id]].handle \in disposed

RuntimeInv ==
  /\ RuntimeTypes
  /\ CloseComesFirst /\ OneCloses /\ OnlyListsAreOvertaken
  /\ OpenHandlesAreUsable /\ CreatedIsOpen /\ InfoNeedsNoCreate /\ CreateHasOpened
  /\ KilledDoNotClose /\ ClosedWereDisposed /\ OpenHandleIsServed

LEMMA InitRuntime == Init => RuntimeInv
<1> SUFFICES ASSUME Init PROVE RuntimeInv
  OBVIOUS
<1>1. /\ worker = 0 /\ pending = <<>> /\ mail = <<>> /\ calls = <<>> /\ needsCreate = FALSE
      /\ native = [open |-> TRUE, by |-> 0] /\ phase = [w \in Workers |-> "unborn"]
  BY DEF Init, WorkerInit
<1>2. DOMAIN pending = {} /\ DOMAIN calls = {} /\ Range(mail) = {}
  BY <1>1, EmptyRange
<1>3. Outstanding = {} /\ Handles = {} /\ Letters = {}
  BY <1>2 DEF Outstanding, Handles, Letters
<1>4. Undisposed = {} /\ Closing = {}
  BY <1>3 DEF Undisposed, Closing
<1>5. native.open /\ native \in [open : BOOLEAN, by : Nat]
  <2>1. PICK yes \in BOOLEAN : yes = TRUE
    OBVIOUS
  <2>2. native = [open |-> yes, by |-> 0] /\ yes
    BY <1>1, <2>1
  <2> QED BY <2>2
<1>6. CloseComesFirst /\ OneCloses /\ OnlyListsAreOvertaken
  BY <1>2, <1>4 DEF CloseComesFirst, OneCloses, OnlyListsAreOvertaken
<1>7. OpenHandlesAreUsable /\ CreatedIsOpen /\ InfoNeedsNoCreate /\ CreateHasOpened
  BY <1>3, <1>4, <1>5 DEF OpenHandlesAreUsable, CreatedIsOpen, InfoNeedsNoCreate, CreateHasOpened
<1>8. KilledDoNotClose /\ ClosedWereDisposed /\ OpenHandleIsServed
  BY <1>1, <1>2, <1>3 DEF KilledDoNotClose, ClosedWereDisposed, OpenHandleIsServed
<1> QED BY <1>5, <1>6, <1>7, <1>8 DEF RuntimeInv, RuntimeTypes

\* An initialize under way or a handle that is not disposed excludes others.
LEMMA OneIsCurrent ==
  ASSUME CallInv
  PROVE  /\ \A c \in Undisposed : c \in 1..Len(calls) /\ Current(c)
         /\ \A c \in Outstanding : calls[c].op = "initialize" => c \in 1..Len(calls) /\ Current(c)
         /\ \A c, d \in 1..Len(calls) : Current(c) /\ Current(d) => c = d
<1>1. Outstanding \subseteq 1..Len(calls) /\ Handles \subseteq 1..Len(calls)
  BY CallFacts DEF CallInv
<1>2. \A c \in Undisposed : Current(c)
  BY DEF Undisposed, Handles, Current
<1>3. \A c \in Outstanding : calls[c].op = "initialize" => Current(c)
  BY DEF Outstanding, Current
<1>4. \A c, d \in 1..Len(calls) : Current(c) /\ Current(d) => c = d
  BY DEF CallInv, CurrentIsShared
<1> QED BY <1>1, <1>2, <1>3, <1>4 DEF Undisposed

LEMMA PendingCalls ==
  ASSUME LinesInv, CallInv
  PROVE  /\ \A p \in DOMAIN pending : p \in Nat /\ p < nextId /\ nextId \in Nat
         /\ \A p \in DOMAIN pending : pending[p] \in Outstanding /\ pending[p] \in 1..Len(calls)
         /\ \A m \in Letters : m.id \in DOMAIN pending
<1>1. Outstanding \subseteq 1..Len(calls)
  BY CallFacts DEF CallInv
<1>2. \A p \in DOMAIN pending : pending[p] \in Outstanding
  BY DEF CallInv, EachAwaitsOne, Range
<1> QED BY <1>1, <1>2 DEF LinesInv, PendingTypes, QueueTypes, Lines

\* A call goes to the end of the line; dispose takes the only open handle.
LEMMA CalledKeepsRuntime ==
  ASSUME WorkerInv, LinesInv, CallInv, RuntimeInv,
         NEW op \in Operations, NEW handle \in Nat, NEW todo \in Todos(op), Called(op, handle, todo)
  PROVE  RuntimeInv'
<1>1. /\ todo \in Seq(NativeOps) /\ Head(todo) \in NativeOps
      /\ Make(op, handle, todo) /\ Len(calls) \in Nat
  BY TodoFacts DEF Called, CallInv, CallTypes
<1>2. /\ NewCall = Len(calls) + 1 /\ Len(calls') = NewCall
      /\ NewCall \in Nat /\ 1..NewCall = 1..Len(calls) \cup {NewCall} /\ NewCall \notin 1..Len(calls)
      /\ calls' \in [1..NewCall -> CallRecord]
      /\ \A c \in 1..Len(calls) : calls'[c] = calls[c]
      /\ calls'[NewCall].op = op /\ calls'[NewCall].handle = handle /\ calls'[NewCall].todo = todo
      /\ calls'[NewCall].outcome = IF Refused(pending) THEN "failed" ELSE "none"
      /\ Outstanding' = Outstanding \cup (IF Refused(pending) THEN {} ELSE {NewCall})
      /\ Handles' = Handles
  BY <1>1, MakeAddsCall DEF CallInv
<1>3. /\ \A p \in DOMAIN pending : p \in Nat /\ p < nextId /\ nextId \in Nat
      /\ \A p \in DOMAIN pending : pending[p] \in Outstanding /\ pending[p] \in 1..Len(calls)
      /\ \A m \in Letters : m.id \in DOMAIN pending
  BY PendingCalls
<1>4. /\ DOMAIN pending \subseteq DOMAIN pending'
      /\ \A p \in DOMAIN pending : pending'[p] = pending[p]
      /\ \A p \in DOMAIN pending' : p \in DOMAIN pending \/ (p = nextId /\ pending'[p] = NewCall)
  BY <1>1, InvokeEffect
<1>5. UNCHANGED <<worker, phase, serving, mail, native>> /\ Letters' = Letters
  BY <1>1 DEF Make, Letters
<1>6. Outstanding \subseteq 1..Len(calls) /\ Handles \subseteq 1..Len(calls)
  BY CallFacts DEF CallInv
<1>7. op = "dispose" =>
        /\ Closing = {} /\ Undisposed' = {} /\ needsCreate' = TRUE
        /\ \A c \in Outstanding : calls[c].op # "initialize"
  <2> SUFFICES ASSUME op = "dispose"
               PROVE  /\ Closing = {} /\ Undisposed' = {} /\ needsCreate' = TRUE
                      /\ \A c \in Outstanding : calls[c].op # "initialize"
    OBVIOUS
  <2>1. handle \in Undisposed /\ disposed' = disposed \cup {handle} /\ needsCreate' = TRUE
    BY DEF Called, Undisposed
  <2>2. Closing = {}
    BY <2>1 DEF RuntimeInv, OpenHandlesAreUsable, CreatedIsOpen
  <2>3. \A c \in Undisposed : c = handle
    BY <2>1, OneIsCurrent
  <2>4. Undisposed' = {}
    BY <1>2, <2>1, <2>3 DEF Undisposed
  <2>5. \A c \in Outstanding : calls[c].op # "initialize"
    <3> SUFFICES ASSUME NEW c \in Outstanding, calls[c].op = "initialize" PROVE FALSE
      OBVIOUS
    <3>1. c = handle
      BY <2>1, OneIsCurrent
    <3> QED BY <2>1, <3>1 DEF Undisposed, Handles, Outstanding
  <2> QED BY <2>1, <2>2, <2>4, <2>5
<1>8. op # "dispose" => needsCreate' = needsCreate /\ disposed' = disposed /\ Undisposed' = Undisposed
  BY <1>2 DEF Called, Undisposed
<1>9. Closing' \subseteq Closing \cup {c \in {NewCall} : op = "dispose"}
  BY <1>2, <1>6 DEF Closing
<1>10. CloseComesFirst'
  <2> SUFFICES ASSUME NEW p \in DOMAIN pending', NEW q \in DOMAIN pending',
                      calls'[pending'[p]].op = "dispose", calls'[pending'[q]].op = "initialize"
               PROVE  p < q
    BY DEF CloseComesFirst
  <2>1. CASE p \in DOMAIN pending /\ q \in DOMAIN pending
    BY <1>2, <1>3, <1>4, <2>1 DEF RuntimeInv, CloseComesFirst
  <2>2. CASE p \in DOMAIN pending /\ q \notin DOMAIN pending
    BY <1>3, <1>4, <2>2
  <2>3. CASE p \notin DOMAIN pending
    <3>1. op = "dispose"
      BY <1>2, <1>4, <2>3
    <3>2. q \in DOMAIN pending
      BY <1>2, <1>4, <3>1
    <3> QED BY <1>2, <1>3, <1>4, <1>7, <3>1, <3>2
  <2> QED BY <2>1, <2>2, <2>3
<1>11. OneCloses'
  BY <1>7, <1>9 DEF RuntimeInv, OneCloses
<1>12. OnlyListsAreOvertaken'
  <2> SUFFICES ASSUME NEW p \in DOMAIN pending', NEW q \in DOMAIN pending', p < q,
                      calls'[pending'[p]].op = "dispose", pending'[q] < pending'[p]
               PROVE  calls'[pending'[q]].op = "list" /\ Len(calls'[pending'[q]].todo) = 1
    BY DEF OnlyListsAreOvertaken
  <2>1. CASE p \in DOMAIN pending /\ q \in DOMAIN pending
    BY <1>2, <1>3, <1>4, <2>1 DEF RuntimeInv, OnlyListsAreOvertaken
  <2>2. CASE p \in DOMAIN pending /\ q \notin DOMAIN pending
    <3>1. pending'[q] = NewCall /\ pending'[p] \in 1..Len(calls)
      BY <1>3, <1>4, <2>2
    <3> QED BY <1>1, <1>2, <3>1
  <2>3. CASE p \notin DOMAIN pending
    <3>1. p = nextId /\ (q = nextId \/ (q \in Nat /\ nextId \in Nat /\ q < nextId))
      BY <1>3, <1>4, <2>3
    <3>2. nextId \in Nat
      BY DEF LinesInv, QueueTypes
    <3> QED BY <3>1, <3>2
  <2> QED BY <2>1, <2>2, <2>3
<1>13. OpenHandlesAreUsable' /\ CreatedIsOpen'
  <2>1. CASE op = "dispose"
    BY <1>7, <2>1 DEF OpenHandlesAreUsable, CreatedIsOpen
  <2>2. CASE op # "dispose"
    <3>1. Closing' \subseteq Closing
      BY <1>9, <2>2
    <3> QED BY <1>5, <1>8, <2>2, <3>1 DEF RuntimeInv, OpenHandlesAreUsable, CreatedIsOpen
  <2> QED BY <2>1, <2>2
<1>14. InfoNeedsNoCreate'
  <2> SUFFICES ASSUME NEW c \in Outstanding', calls'[c].op = "initialize", Head(calls'[c].todo) = "info"
               PROVE  ~needsCreate'
    BY DEF InfoNeedsNoCreate
  <2>1. CASE c \in Outstanding
    <3>1. calls[c].op = "initialize" /\ Head(calls[c].todo) = "info"
      BY <1>2, <1>6, <2>1
    <3> QED BY <1>7, <1>8, <2>1, <3>1 DEF RuntimeInv, InfoNeedsNoCreate
  <2>2. CASE c \notin Outstanding
    <3>1. op = "initialize" /\ Head(todo) = "info"
      BY <1>2, <2>2
    <3> QED BY <1>8, <3>1 DEF Called
  <2> QED BY <2>1, <2>2
<1>15. CreateHasOpened'
  BY <1>2, <1>3, <1>4, <1>5 DEF RuntimeInv, CreateHasOpened
<1>16. KilledDoNotClose'
  <2>1. \A w \in Workers \ {worker} : inbox'[w] = inbox[w]
    BY <1>1 DEF Make, Invoke, Send, LinesInv, QueueTypes
  <2>2. \A w \in Workers : phase[w] = "killed" => w # worker
    BY DEF LinesInv, UnbornAreSilent, Workers
  <2> QED BY <1>5, <2>1, <2>2 DEF RuntimeInv, KilledDoNotClose
<1>17. ClosedWereDisposed'
  <2>1. disposed \subseteq disposed'
    BY DEF Called
  <2> QED BY <1>2, <1>3, <1>4, <1>5, <2>1 DEF RuntimeInv, ClosedWereDisposed
<1>18. OpenHandleIsServed'
  <2>1. disposed \subseteq disposed'
    BY DEF Called
  <2>2. DOMAIN calls' = 1..NewCall /\ DOMAIN calls = 1..Len(calls)
    BY <1>2, CallFacts DEF CallInv
  <2> QED BY <1>2, <2>1, <2>2 DEF RuntimeInv, OpenHandleIsServed
<1>19. RuntimeTypes'
  BY <1>5 DEF RuntimeInv, RuntimeTypes
<1> QED BY <1>10, <1>11, <1>12, <1>13, <1>14, <1>15, <1>16, <1>17, <1>18, <1>19 DEF RuntimeInv

\* Calls that end, an initialize only well when no create is needed.
LEMMA EndsKeepRuntime ==
  ASSUME CallInv, RuntimeInv,
         NEW returned, NEW thrown, NEW closed, Ends(returned, thrown, closed),
         returned \cup thrown \cup closed \subseteq Outstanding,
         \A c \in returned : calls[c].op = "initialize" => ~needsCreate,
         \A c \in closed : calls[c].handle \in disposed,
         UNCHANGED <<needsCreate, disposed, native>>
  PROVE  /\ Outstanding' \subseteq Outstanding /\ Closing' \subseteq Closing
         /\ RuntimeTypes' /\ OneCloses' /\ OpenHandlesAreUsable' /\ CreatedIsOpen'
         /\ InfoNeedsNoCreate' /\ OpenHandleIsServed'
<1>1. /\ DOMAIN calls = 1..Len(calls) /\ Outstanding \subseteq 1..Len(calls)
      /\ DOMAIN calls' = 1..Len(calls)
  BY CallFacts DEF CallInv, Ends
<1>2. \A c \in 1..Len(calls) :
        /\ calls'[c].op = calls[c].op
        /\ calls'[c].handle = calls[c].handle
        /\ calls'[c].todo = calls[c].todo
        /\ calls'[c].outcome = IF c \in thrown THEN "failed" ELSE IF c \in returned THEN "ok"
                               ELSE IF c \in closed THEN "closed" ELSE calls[c].outcome
  BY DEF Ends
<1>3. Outstanding' \subseteq Outstanding
  BY <1>1, <1>2 DEF Outstanding
<1>4. Closing' \subseteq Closing
  BY <1>1, <1>2, <1>3 DEF Closing
<1>5. RuntimeTypes' /\ OneCloses' /\ CreatedIsOpen'
  BY <1>4 DEF RuntimeInv, RuntimeTypes, OneCloses, CreatedIsOpen
<1>6. OpenHandlesAreUsable'
  <2> SUFFICES ASSUME NEW h \in Undisposed' PROVE ~needsCreate
    BY DEF OpenHandlesAreUsable
  <2>1. h \in 1..Len(calls) /\ calls[h].op = "initialize" /\ h \notin disposed
        /\ (h \in returned \/ calls[h].outcome = "ok")
    BY <1>1, <1>2 DEF Undisposed, Handles
  <2>2. CASE h \in returned
    BY <2>1, <2>2
  <2>3. CASE calls[h].outcome = "ok"
    BY <1>1, <2>1, <2>3 DEF RuntimeInv, OpenHandlesAreUsable, Undisposed, Handles
  <2> QED BY <2>1, <2>2, <2>3
<1>7. InfoNeedsNoCreate'
  BY <1>1, <1>2, <1>3 DEF RuntimeInv, InfoNeedsNoCreate
<1>8. OpenHandleIsServed'
  BY <1>1, <1>2 DEF RuntimeInv, OpenHandleIsServed
<1> QED BY <1>3, <1>4, <1>5, <1>6, <1>7, <1>8

\* A start that succeeds sends in the order of the calls.
LEMMA StartedKeepsRuntime ==
  ASSUME WorkerInv, LinesInv, CallInv, RuntimeInv, Started
  PROVE  RuntimeInv'
<1>1. /\ CallInv'
      /\ Outstanding' \subseteq Outstanding
      /\ \A p \in DOMAIN pending', q \in DOMAIN pending' : p < q => pending'[p] < pending'[q]
      /\ Letters' = {}
  BY StartedKeepsCalls
<1>2. LinesInv'
  BY StartedKeepsLines DEF Started
<1>3. PICK thrown : thrown = Turned
  OBVIOUS
<1>4. Settle({}, thrown) /\ UNCHANGED <<needsCreate, disposed, native, serving>>
  BY <1>3 DEF Started, Settle, StartSucceeds
<1>5. Ends({}, thrown, {})
  BY <1>4, SettleEnds DEF CallInv
<1>6. Turned \subseteq Outstanding
  <2>1. Turned \subseteq Waiting
    <3>1. starting > 0 /\ worker = 0
      BY DEF Started, StartSucceeds, WorkerInv, ClientInv
    <3>2. Cardinality(DOMAIN pending) = 0
      BY <3>1, FS_EmptySet DEF LinesInv, NothingWaitsForNothing
    <3>3. Len(waiting) \in Nat
      BY LenProperties DEF LinesInv, QueueTypes
    <3>4. Admitted \in Nat
      BY <3>2, <3>3, WorkerAssumption DEF Admitted, Room
    <3>5. \A i \in (Admitted + 1)..Len(waiting) : i \in 1..Len(waiting)
      BY <3>3, <3>4
    <3> QED BY <3>5 DEF Turned, Waiting
  <2> QED BY <2>1 DEF CallInv, EachAwaitsOne
<1>7. /\ RuntimeTypes' /\ OneCloses' /\ OpenHandlesAreUsable' /\ CreatedIsOpen'
      /\ InfoNeedsNoCreate' /\ OpenHandleIsServed'
  <2>1. {} \cup thrown \cup {} \subseteq Outstanding
    BY <1>3, <1>6
  <2>2. \A c \in {} : FALSE
    OBVIOUS
  <2> QED BY <1>4, <1>5, <2>1, <2>2, EndsKeepRuntime
<1>8. /\ \A p \in DOMAIN pending' : p \in Nat /\ pending'[p] \in Outstanding' /\ pending'[p] \in 1..Len(calls')
      /\ Outstanding' \subseteq 1..Len(calls')
  <2>1. Outstanding' \subseteq (1..Len(calls))'
    BY <1>1 DEF CallInv, CallTypes, Outstanding
  <2> QED BY <1>1, <1>2, <2>1 DEF CallInv, EachAwaitsOne, LinesInv, PendingTypes, Range
<1>9. CloseComesFirst'
  <2> SUFFICES ASSUME NEW p \in DOMAIN pending', NEW q \in DOMAIN pending',
                      calls'[pending'[p]].op = "dispose", calls'[pending'[q]].op = "initialize"
               PROVE  p < q
    BY DEF CloseComesFirst
  <2>1. calls'[pending'[q]].outcome = "none" /\ pending'[q] \in 1..Len(calls')
    BY <1>8 DEF Outstanding
  <2>2. pending'[p] < pending'[q]
    BY <1>1, <1>8, <2>1 DEF CallInv, CurrentIsShared, Current
  <2>3. pending'[p] \in Nat /\ pending'[q] \in Nat /\ p \in Nat /\ q \in Nat
    BY <1>8
  <2>4. ~(q < p) /\ p # q
    BY <1>1, <2>2, <2>3
  <2> QED BY <2>3, <2>4
<1>10. OnlyListsAreOvertaken'
  <2> SUFFICES ASSUME NEW p \in DOMAIN pending', NEW q \in DOMAIN pending', p < q, pending'[q] < pending'[p]
               PROVE  FALSE
    BY DEF OnlyListsAreOvertaken
  <2>1. pending'[p] < pending'[q] /\ pending'[p] \in Nat /\ pending'[q] \in Nat
    BY <1>1, <1>8
  <2> QED BY <2>1
<1>11. CreateHasOpened' /\ ClosedWereDisposed'
  BY <1>1 DEF CreateHasOpened, ClosedWereDisposed
<1>12. KilledDoNotClose'
  <2>1. PICK w \in Workers : /\ phase' = [phase EXCEPT ![w] = "alive"]
                             /\ Send(w, SubSeq(waiting, 1, Admitted), pending)
    BY DEF Started, StartSucceeds
  <2>2. \A v \in Workers \ {w} : inbox'[v] = inbox[v] /\ phase'[v] = phase[v]
    BY <2>1 DEF Send, LinesInv, QueueTypes, WorkerInv
  <2>3. phase'[w] = "alive"
    BY <2>1 DEF WorkerInv
  <2> QED BY <1>4, <2>2, <2>3 DEF RuntimeInv, KilledDoNotClose
<1> QED BY <1>7, <1>9, <1>10, <1>11, <1>12 DEF RuntimeInv

\* A reset leaves no requests and no answers, and kills no close.
LEMMA ResetKeepsRuntime ==
  ASSUME WorkerInv, LinesInv, CallInv, RuntimeInv, Reset, UNCHANGED serving,
         mail' = mail \/ (mail # <<>> /\ mail' = Tail(mail)),
         worker # 0 /\ phase[worker] = "alive" /\ serving[worker] => Head(inbox[worker]).job.op # "close"
  PROVE  /\ CloseComesFirst' /\ OnlyListsAreOvertaken' /\ CreateHasOpened' /\ ClosedWereDisposed'
         /\ KilledDoNotClose'
<1>1. /\ worker' = 0 /\ pending' = <<>>
      /\ phase' = [w \in Workers |->
                     IF w = worker /\ phase[w] = "alive"
                     THEN IF serving[w] THEN "killed" ELSE "gone" ELSE phase[w]]
      /\ inbox' = [w \in Workers |->
                     IF w # worker \/ inbox[w] = <<>> THEN inbox[w]
                     ELSE IF serving[w] THEN <<Head(inbox[w])>> ELSE <<>>]
  BY DEF Reset
<1>2. \A m \in Range(mail') : m.from # 0
  <2>1. \A m \in Range(mail) : m.from # 0
    BY LineTypes
  <2>2. Range(mail') \subseteq Range(mail)
    BY FirstLetter DEF LinesInv
  <2> QED BY <2>1, <2>2
<1>3. DOMAIN pending' = {} /\ Letters' = {}
  BY <1>1, <1>2 DEF Letters
<1>4. CloseComesFirst' /\ OnlyListsAreOvertaken' /\ CreateHasOpened' /\ ClosedWereDisposed'
  BY <1>3 DEF CloseComesFirst, OnlyListsAreOvertaken, CreateHasOpened, ClosedWereDisposed
<1>5. KilledDoNotClose'
  <2> SUFFICES ASSUME NEW w \in Workers, phase'[w] = "killed"
               PROVE  serving[w] /\ inbox'[w] # <<>> /\ Head(inbox'[w]).job.op # "close"
    BY DEF KilledDoNotClose
  <2>1. CASE w = worker
    <3>1. phase[w] = "alive" /\ serving[w] /\ inbox[w] # <<>> /\ w # 0
      BY <1>1, <2>1 DEF LinesInv, UnbornAreSilent, ServingHasMessage, Workers
    <3>2. inbox'[w] = <<Head(inbox[w])>>
      BY <1>1, <2>1, <3>1
    <3>3. PICK x : x = Head(inbox[w])
      OBVIOUS
    <3>4. inbox'[w] = <<x>> /\ x.job.op # "close"
      BY <2>1, <3>1, <3>2, <3>3
    <3>5. inbox'[w] # <<>> /\ Head(inbox'[w]) = x
      BY <3>4
    <3> QED BY <3>1, <3>4, <3>5
  <2>2. CASE w # worker
    <3>1. phase[w] = "killed" /\ inbox'[w] = inbox[w]
      BY <1>1, <2>2
    <3> QED BY <3>1 DEF RuntimeInv, KilledDoNotClose
  <2> QED BY <2>1, <2>2
<1> QED BY <1>4, <1>5

LEMMA LosingKeepsRuntime ==
  ASSUME WorkerInv, LinesInv, CallInv, RuntimeInv, NotStarted \/ WorkerGone
  PROVE  RuntimeInv'
<1>1. /\ Reset /\ UNCHANGED <<serving, native, needsCreate, disposed>>
      /\ mail' = mail \/ (mail # <<>> /\ mail' = Tail(mail))
  BY DEF NotStarted, StartFails, WorkerGone, Heard
<1>2. PICK thrown : thrown = (IF NotStarted THEN {waiting[i].call : i \in DOMAIN waiting} ELSE Range(pending))
  OBVIOUS
<1>3. Settle({}, thrown)
  BY <1>2 DEF NotStarted, WorkerGone, Lost, Settle
<1>4. Ends({}, thrown, {})
  BY <1>3, SettleEnds DEF CallInv
<1>5. thrown \subseteq Outstanding
  <2>1. DOMAIN waiting = 1..Len(waiting)
    BY LenProperties DEF LinesInv, QueueTypes
  <2> QED BY <1>2, <2>1 DEF CallInv, EachAwaitsOne, Waiting
<1>6. worker # 0 => phase[worker] # "alive"
  <2>1. CASE NotStarted
    BY <2>1 DEF NotStarted, StartFails, WorkerInv, ClientInv
  <2>2. CASE WorkerGone
    <3>1. mail # <<>> /\ Head(mail).from = worker /\ Head(mail).answer = "gone"
      BY <2>2 DEF WorkerGone, Heard, Message
    <3>2. Head(mail) \in Range(mail)
      BY <3>1, HeadTailProperties DEF WorkerInv, MailInv
    <3> QED BY <3>1, <3>2 DEF LinesInv, GoneIsGone
  <2> QED BY <2>1, <2>2
<1>7. /\ CloseComesFirst' /\ OnlyListsAreOvertaken' /\ CreateHasOpened' /\ ClosedWereDisposed'
      /\ KilledDoNotClose'
  BY <1>1, <1>6, ResetKeepsRuntime
<1>8. /\ RuntimeTypes' /\ OneCloses' /\ OpenHandlesAreUsable' /\ CreatedIsOpen'
      /\ InfoNeedsNoCreate' /\ OpenHandleIsServed'
  <2>1. {} \cup thrown \cup {} \subseteq Outstanding
    BY <1>5
  <2>2. \A c \in {} : FALSE
    OBVIOUS
  <2> QED BY <1>1, <1>4, <2>1, <2>2, EndsKeepRuntime
<1> QED BY <1>7, <1>8 DEF RuntimeInv

\* A call that is answered leaves the order of the others.
LEMMA ReturnKeepsRuntime ==
  ASSUME WorkerInv, LinesInv, CallInv, RuntimeInv, Return \/ ReturnError \/ ReturnClosed
  PROVE  RuntimeInv'
<1>1. PICK kinds, returned, thrown, closed :
        /\ "gone" \notin kinds /\ Heard(kinds) /\ Complete
        /\ Ends(returned, thrown, closed)
        /\ returned \cup thrown \cup closed = {Answered}
        /\ \A c \in returned : Left = <<>> /\ Step # "close"
        /\ \A c \in closed : Message.answer = "closed"
  BY ReturnEnds
<1>2. /\ Answered \in Outstanding /\ Answered \in 1..Len(calls)
      /\ calls[Answered].op \in Operations /\ calls[Answered].todo \in Todos(calls[Answered].op)
  BY <1>1, AnsweredFacts
<1>3. /\ Message \in Letters
      /\ DOMAIN Rest = DOMAIN pending \ {Message.id}
      /\ \A p \in DOMAIN Rest : Rest[p] = pending[p]
      /\ Lines(Letters \ {Message}, Queue, Rest)
  BY <1>1, HeardFirst
<1>4. /\ pending' = Rest
      /\ UNCHANGED <<worker, phase, inbox, serving, native, needsCreate, disposed>>
  BY <1>1 DEF Complete
<1>5. Letters' = Letters \ {Message}
  BY <1>1, <1>4, HeardMail
<1>6. \A c \in returned : calls[c].op = "initialize" => ~needsCreate
  BY <1>1, <1>2, TodoFacts DEF RuntimeInv, InfoNeedsNoCreate, Left
<1>7. \A c \in closed : calls[c].handle \in disposed
  BY <1>1, <1>3 DEF RuntimeInv, ClosedWereDisposed, Answered
<1>8. /\ RuntimeTypes' /\ OneCloses' /\ OpenHandlesAreUsable' /\ CreatedIsOpen'
      /\ InfoNeedsNoCreate' /\ OpenHandleIsServed'
  BY <1>1, <1>2, <1>4, <1>6, <1>7, EndsKeepRuntime
<1>9. \A p \in DOMAIN pending' :
        /\ p \in DOMAIN pending /\ pending'[p] = pending[p]
        /\ calls'[pending[p]].op = calls[pending[p]].op
        /\ calls'[pending[p]].handle = calls[pending[p]].handle
        /\ calls'[pending[p]].todo = calls[pending[p]].todo
  BY <1>1, <1>3, <1>4, PendingCalls DEF Ends
<1>10. CloseComesFirst' /\ OnlyListsAreOvertaken'
  BY <1>9 DEF RuntimeInv, CloseComesFirst, OnlyListsAreOvertaken
<1>11. \A m \in Letters' : m \in Letters /\ m.id \in DOMAIN pending'
  BY <1>3, <1>4, <1>5 DEF Lines
<1>12. CreateHasOpened' /\ ClosedWereDisposed'
  BY <1>4, <1>9, <1>11 DEF RuntimeInv, CreateHasOpened, ClosedWereDisposed
<1>13. KilledDoNotClose'
  BY <1>4 DEF RuntimeInv, KilledDoNotClose
<1> QED BY <1>8, <1>10, <1>12, <1>13 DEF RuntimeInv

\* The worker that a dispose closes is not closing a runtime again.
LEMMA CloseKeepsRuntime ==
  ASSUME WorkerInv, LinesInv, CallInv, RuntimeInv, CloseWorker
  PROVE  RuntimeInv'
<1>1. /\ Heard({"ok"}) /\ Reset /\ Settle({Answered}, Range(Rest)) /\ Step = "close"
      /\ mail # <<>> /\ mail' = Tail(mail)
      /\ UNCHANGED <<serving, native, needsCreate, disposed>>
  BY DEF CloseWorker, Heard
<1>2. /\ Answered \in Outstanding /\ Answered \in 1..Len(calls)
      /\ calls[Answered].op \in Operations /\ calls[Answered].todo \in Todos(calls[Answered].op)
      /\ Range(Rest) = Outstanding \ {Answered}
      /\ \A x \in Queue : x.job.call \in Outstanding \ {Answered}
  BY <1>1, AnsweredFacts
<1>3. calls[Answered].op = "dispose"
  BY <1>1, <1>2, TodoFacts DEF Step
<1>4. worker # 0 /\ phase[worker] = "alive" /\ serving[worker] => Head(inbox[worker]).job.op # "close"
  <2> SUFFICES ASSUME worker # 0, serving[worker], Head(inbox[worker]).job.op = "close" PROVE FALSE
    OBVIOUS
  <2>1. worker \in Workers /\ inbox[worker] # <<>>
    BY DEF WorkerInv, ClientInv, LinesInv, ServingHasMessage
  <2>2. PICK x \in Queue : x = Head(inbox[worker])
    BY <2>1, TakeMessage DEF LinesInv
  <2>3. PICK c : c = x.job.call
    OBVIOUS
  <2>4. c \in Outstanding /\ c # Answered /\ Head(calls[c].todo) = "close" /\ calls[c].todo \in Todos(calls[c].op)
    BY <1>2, <2>2, <2>3 DEF CallInv, WorkIsNext
  <2>5. calls[c].op \in Operations
    BY <2>4, CallFacts DEF CallInv, CallRecord
  <2>6. calls[c].op = "dispose"
    BY <2>4, <2>5, TodoFacts
  <2> QED BY <1>2, <1>3, <2>4, <2>6 DEF RuntimeInv, OneCloses, Closing
<1>5. /\ CloseComesFirst' /\ OnlyListsAreOvertaken' /\ CreateHasOpened' /\ ClosedWereDisposed'
      /\ KilledDoNotClose'
  BY <1>1, <1>4, ResetKeepsRuntime
<1>6. PICK returned : returned = {Answered}
  OBVIOUS
<1>7. PICK thrown : thrown = Range(Rest)
  OBVIOUS
<1>8. /\ RuntimeTypes' /\ OneCloses' /\ OpenHandlesAreUsable' /\ CreatedIsOpen'
      /\ InfoNeedsNoCreate' /\ OpenHandleIsServed'
  <2>1. Settle(returned, thrown)
    BY <1>1, <1>6, <1>7 DEF Settle
  <2>2. Ends(returned, thrown, {})
    BY <2>1, SettleEnds DEF CallInv
  <2>3. returned \cup thrown \cup {} \subseteq Outstanding
    BY <1>2, <1>6, <1>7
  <2>4. \A c \in returned : calls[c].op = "initialize" => ~needsCreate
    BY <1>3, <1>6
  <2>5. \A c \in {} : calls[c].handle \in disposed
    OBVIOUS
  <2> QED BY <1>1, <2>2, <2>3, <2>4, <2>5, EndsKeepRuntime
<1> QED BY <1>5, <1>8 DEF RuntimeInv

\* A call that goes on goes to the end of the line; one that has created goes
\* on with the runtime it created.
LEMMA ContinueKeepsRuntime ==
  ASSUME WorkerInv, LinesInv, CallInv, RuntimeInv, Continue
  PROVE  RuntimeInv'
<1> DEFINE a == Answered
<1>1. /\ Heard({"ok"}) /\ Left # <<>>
      /\ Send(worker, <<[call |-> Answered, op |-> Head(Left)]>>, Rest)
      /\ needsCreate' = IF Step = "create" THEN FALSE ELSE needsCreate
      /\ UNCHANGED <<worker, phase, serving, native, disposed>>
  BY DEF Continue
<1>2. /\ a \in Outstanding /\ a \in 1..Len(calls)
      /\ calls[a].op \in Operations /\ calls[a].todo \in Todos(calls[a].op)
      /\ Range(Rest) = Outstanding \ {a}
  BY <1>1, AnsweredFacts
<1>3. /\ Outstanding' = Outstanding /\ Handles' = Handles /\ Len(calls') = Len(calls)
      /\ \A c \in 1..Len(calls) :
           /\ calls'[c].op = calls[c].op /\ calls'[c].handle = calls[c].handle
           /\ calls'[c].outcome = calls[c].outcome
           /\ calls'[c].todo = IF c = a THEN Left ELSE calls[c].todo
      /\ DOMAIN pending' = DOMAIN Rest \cup {nextId} /\ pending'[nextId] = a
      /\ \A p \in DOMAIN Rest : pending'[p] = Rest[p]
      /\ Letters' = Letters \ {Message}
      /\ CallInv'
  BY ContinueKeepsCalls
<1>4. /\ worker \in Workers /\ worker # 0
      /\ Message \in Letters /\ Message.answer \in {"ok"}
      /\ Message.id \in DOMAIN pending
      /\ \A p \in DOMAIN pending : Message.id <= p
      /\ DOMAIN Rest = DOMAIN pending \ {Message.id}
      /\ \A p \in DOMAIN Rest : Rest[p] = pending[p]
      /\ Lines(Letters \ {Message}, Queue, Rest)
  BY <1>1, HeardFirst
<1>5. /\ calls[a].op \in {"initialize", "list"}
      /\ calls[a].op = "list" => Len(Left) = 1
      /\ calls[a].op = "initialize" <=> Step = "create"
  <2>1. Tail(calls[a].todo) # <<>>
    BY <1>1 DEF Left
  <2>2. /\ calls[a].op \in {"initialize", "list"}
        /\ calls[a].op = "list" => Len(Tail(calls[a].todo)) = 1
        /\ calls[a].op = "initialize" => Head(calls[a].todo) = "create"
        /\ Head(calls[a].todo) = "create" => calls[a].op = "initialize"
    BY <1>2, <2>1, TodoFacts
  <2> QED BY <2>2 DEF Left, Step
<1>6. /\ \A p \in DOMAIN pending : p \in Nat /\ p < nextId /\ nextId \in Nat
      /\ \A p \in DOMAIN pending : pending[p] \in Outstanding /\ pending[p] \in 1..Len(calls)
  BY PendingCalls
<1>7. \A p \in DOMAIN Rest : p \in DOMAIN pending /\ pending'[p] = pending[p] /\ pending[p] # a
  BY <1>2, <1>3, <1>4 DEF Range
<1> HIDE DEF a
<1>8. \A p \in DOMAIN Rest :
        calls'[pending'[p]].op = calls[pending[p]].op /\ calls'[pending'[p]].todo = calls[pending[p]].todo
        /\ calls'[pending'[p]].handle = calls[pending[p]].handle
  BY <1>3, <1>6, <1>7
<1>9. Closing' = Closing /\ Undisposed' = Undisposed
  <2>1. Outstanding \subseteq 1..Len(calls)
    BY CallFacts DEF CallInv
  <2>2. Closing' = {c \in Outstanding : calls'[c].op = "dispose"}
    BY <1>3 DEF Closing
  <2>3. \A c \in Outstanding : calls'[c].op = calls[c].op
    BY <1>3, <2>1
  <2>4. Closing' = Closing
    BY <2>2, <2>3 DEF Closing
  <2> QED BY <1>1, <1>3, <2>4 DEF Undisposed
<1>10. CloseComesFirst'
  <2> SUFFICES ASSUME NEW p \in DOMAIN pending', NEW q \in DOMAIN pending',
                      calls'[pending'[p]].op = "dispose", calls'[pending'[q]].op = "initialize"
               PROVE  p < q
    BY DEF CloseComesFirst
  <2>1. p \in DOMAIN Rest
    BY <1>2, <1>3, <1>5
  <2>2. CASE q \in DOMAIN Rest
    BY <1>7, <1>8, <2>1, <2>2 DEF RuntimeInv, CloseComesFirst
  <2>3. CASE q \notin DOMAIN Rest
    BY <1>3, <1>6, <1>7, <2>1, <2>3
  <2> QED BY <2>2, <2>3
<1>11. OnlyListsAreOvertaken'
  <2> SUFFICES ASSUME NEW p \in DOMAIN pending', NEW q \in DOMAIN pending', p < q,
                      calls'[pending'[p]].op = "dispose", pending'[q] < pending'[p]
               PROVE  calls'[pending'[q]].op = "list" /\ Len(calls'[pending'[q]].todo) = 1
    BY DEF OnlyListsAreOvertaken
  <2>1. p \in DOMAIN Rest
    BY <1>2, <1>3, <1>5
  <2>2. CASE q \in DOMAIN Rest
    BY <1>7, <1>8, <2>1, <2>2 DEF RuntimeInv, OnlyListsAreOvertaken
  <2>3. CASE q \notin DOMAIN Rest
    <3>1. pending'[q] = a /\ calls'[a].op = calls[a].op /\ calls'[a].todo = Left
      BY <1>2, <1>3, <2>3
    <3>2. calls[a].op # "initialize"
      <4> SUFFICES ASSUME calls[a].op = "initialize" PROVE FALSE
        OBVIOUS
      <4>1. Current(a)
        BY <1>2, OneIsCurrent
      <4>2. pending[p] < a /\ a < pending[p] /\ a \in Nat /\ pending[p] \in Nat
        BY <1>2, <1>6, <1>7, <1>8, <2>1, <3>1, <4>1 DEF CallInv, CallTypes, CurrentIsShared
      <4> QED BY <4>2
    <3> QED BY <1>5, <3>1, <3>2
  <2> QED BY <2>2, <2>3
<1>12. CreatedIsOpen'
  <2>1. CASE Step = "create"
    <3>1. native.open
      BY <1>4, <2>1 DEF RuntimeInv, CreateHasOpened, Step, Answered
    <3>2. Closing = {}
      <4> SUFFICES ASSUME NEW c \in Closing PROVE FALSE
        OBVIOUS
      <4>1. c \in Range(pending) /\ calls[c].op = "dispose"
        BY <1>4, HeardFacts DEF Closing
      <4>2. PICK p \in DOMAIN pending : pending[p] = c
        BY <4>1 DEF Range
      <4>3. calls[pending[Message.id]].op = "initialize"
        BY <1>5, <2>1 DEF a, Answered
      <4>4. p < Message.id /\ Message.id <= p /\ p \in Nat /\ Message.id \in Nat
        BY <1>4, <1>6, <4>1, <4>2, <4>3 DEF RuntimeInv, CloseComesFirst
      <4> QED BY <4>4
    <3> QED BY <1>1, <1>9, <3>1, <3>2 DEF CreatedIsOpen
  <2>2. CASE Step # "create"
    BY <1>1, <1>9, <2>2 DEF RuntimeInv, CreatedIsOpen
  <2> QED BY <2>1, <2>2
<1>13. OpenHandlesAreUsable'
  BY <1>1, <1>9 DEF RuntimeInv, OpenHandlesAreUsable
<1>14. InfoNeedsNoCreate'
  <2> SUFFICES ASSUME NEW c \in Outstanding, calls'[c].op = "initialize", Head(calls'[c].todo) = "info"
               PROVE  ~needsCreate'
    BY <1>3 DEF InfoNeedsNoCreate
  <2>1. c \in 1..Len(calls)
    BY CallFacts DEF CallInv
  <2>2. CASE c = a
    BY <1>1, <1>3, <1>5, <2>1, <2>2
  <2>3. CASE c # a
    BY <1>1, <1>3, <2>1, <2>3 DEF RuntimeInv, InfoNeedsNoCreate
  <2> QED BY <2>2, <2>3
<1>15. CreateHasOpened' /\ ClosedWereDisposed'
  <2>1. \A m \in Letters' : m \in Letters /\ m.id \in DOMAIN Rest
    BY <1>3, <1>4 DEF Lines
  <2> QED BY <1>1, <1>7, <1>8, <2>1 DEF RuntimeInv, CreateHasOpened, ClosedWereDisposed
<1>16. KilledDoNotClose'
  <2>1. \A w \in Workers \ {worker} : inbox'[w] = inbox[w]
    BY <1>1 DEF Send, LinesInv, QueueTypes
  <2>2. phase[worker] # "killed"
    BY <1>4 DEF LinesInv, UnbornAreSilent
  <2> QED BY <1>1, <2>1, <2>2 DEF RuntimeInv, KilledDoNotClose
<1>17. OpenHandleIsServed' /\ RuntimeTypes' /\ OneCloses'
  <2>1. DOMAIN calls' = 1..Len(calls) /\ DOMAIN calls = 1..Len(calls)
    BY <1>3 DEF CallInv, CallTypes
  <2> QED BY <1>1, <1>3, <1>9, <2>1 DEF RuntimeInv, OpenHandleIsServed, RuntimeTypes, OneCloses
<1> QED BY <1>10, <1>11, <1>12, <1>13, <1>14, <1>15, <1>16, <1>17 DEF RuntimeInv

\* What a native call leaves of the runtime.
LEMMA NativeEffect ==
  ASSUME RuntimeTypes, NEW job \in Job, NEW answer \in Answers(job.op),
         native' = native \/ native' = Effect(job, answer)
  PROVE  /\ RuntimeTypes'
         /\ native.open /\ job.op # "close" => native'.open
         /\ job.op = "create" /\ answer = "ok" /\ native' = Effect(job, answer) => native'.open
         /\ answer = "closed" => job.op = "evaluate" /\ ~native.open
<1>1. native \in [open : BOOLEAN, by : Nat]
  BY DEF RuntimeTypes
<1>2. job.op \in NativeOps /\ job.call \in Nat
  BY DEF Job
<1>3. PICK yes \in BOOLEAN : yes = TRUE
  OBVIOUS
<1>4. PICK no \in BOOLEAN : no = FALSE
  OBVIOUS
<1>5. Effect(job, answer) = CASE job.op = "create" /\ answer = "ok" -> [open |-> yes, by |-> job.call]
                              [] job.op = "close" -> [native EXCEPT !.open = no]
                              [] OTHER -> native
  BY <1>3, <1>4 DEF Effect
<1>6. answer = "closed" => job.op = "evaluate" /\ ~native.open
  BY <1>2 DEF Answers, NativeOps
<1>7. CASE native' = native
  <2>1. CASE job.op = "create" /\ answer = "ok" /\ native' = Effect(job, answer)
    <3>1. native' = [open |-> yes, by |-> job.call]
      BY <1>5, <2>1
    <3> QED BY <1>1, <1>2, <1>3, <1>6, <1>7, <3>1 DEF RuntimeTypes
  <2> QED BY <1>1, <1>6, <1>7, <2>1 DEF RuntimeTypes
<1>8. CASE native' = Effect(job, answer)
  <2>1. CASE job.op = "create" /\ answer = "ok"
    <3>1. native' = [open |-> yes, by |-> job.call]
      BY <1>5, <1>8, <2>1
    <3> QED BY <1>2, <1>3, <1>6, <3>1 DEF RuntimeTypes
  <2>2. CASE job.op = "close"
    <3>1. native' = [native EXCEPT !.open = no]
      BY <1>5, <1>8, <2>2
    <3> QED BY <1>1, <1>6, <2>2, <3>1 DEF RuntimeTypes
  <2>3. CASE ~(job.op = "create" /\ answer = "ok") /\ job.op # "close"
    <3>1. native' = native
      BY <1>5, <1>8, <2>3
    <3> QED BY <1>1, <1>6, <2>3, <3>1 DEF RuntimeTypes
  <2> QED BY <2>1, <2>2, <2>3
<1> QED BY <1>7, <1>8

\* An isolate's steps change the runtime, and nothing of the client.
LEMMA OthersKeepRuntime ==
  ASSUME RuntimeInv, UNCHANGED <<handleVars, pending, worker>>,
         Letters' = Letters, RuntimeTypes', native.open => native'.open,
         \A w \in Workers : phase'[w] = "killed" =>
           phase[w] = "killed" /\ serving'[w] = serving[w] /\ inbox'[w] = inbox[w]
  PROVE  RuntimeInv'
<1>1. UNCHANGED <<calls, initialization, needsCreate, disposed, pending>>
  BY DEF handleVars
<1>2. Closing' = Closing /\ Undisposed' = Undisposed /\ Outstanding' = Outstanding
  BY <1>1 DEF Closing, Undisposed, Outstanding, Handles
<1>3. CloseComesFirst' /\ OneCloses' /\ OnlyListsAreOvertaken' /\ OpenHandlesAreUsable' /\ InfoNeedsNoCreate'
  BY <1>1, <1>2 DEF RuntimeInv, CloseComesFirst, OneCloses, OnlyListsAreOvertaken,
                    OpenHandlesAreUsable, InfoNeedsNoCreate
<1>4. CreatedIsOpen' /\ CreateHasOpened' /\ ClosedWereDisposed' /\ OpenHandleIsServed'
  BY <1>1, <1>2 DEF RuntimeInv, CreatedIsOpen, CreateHasOpened, ClosedWereDisposed, OpenHandleIsServed
<1>5. KilledDoNotClose'
  BY DEF RuntimeInv, KilledDoNotClose
<1> QED BY <1>3, <1>4, <1>5 DEF RuntimeInv

\* The worker's answer: to a close only when nobody counts on the runtime, and
\* runtime_closed only for a handle that has been disposed.
LEMMA WorkerAnswersWell ==
  ASSUME WorkerInv, LinesInv, CallInv, RuntimeInv, UNCHANGED handleVars, worker \in Workers,
         NEW answer \in {"ok", "refused", "closed", "thrown"}, AnswerIs(worker, answer),
         NEW effect \in Answers(Head(inbox[worker]).job.op),
         native' = native \/ native' = Effect(Head(inbox[worker]).job, effect),
         answer # "thrown" => answer = effect /\ native' = Effect(Head(inbox[worker]).job, effect)
  PROVE  RuntimeInv'
<1>1. PICK x : x = Head(inbox[worker])
  OBVIOUS
<1>2. PICK m : m = [from |-> worker, id |-> x.id, answer |-> answer]
  OBVIOUS
<1>3. /\ phase[worker] = "alive" /\ phase' = phase
      /\ x \in Queue
      /\ Letters' = Letters \cup {m}
      /\ LinesInv'
  BY <1>1, <1>2, AnswerOfWorker
<1>4. /\ inbox' = [inbox EXCEPT ![worker] = Tail(@)]
      /\ serving' = [serving EXCEPT ![worker] = FALSE]
      /\ UNCHANGED <<pending, worker, calls, initialization, needsCreate, disposed>>
  BY DEF AnswerIs, clientVars, handleVars
<1>5. m.id = x.id /\ m.answer = answer
  BY <1>2
<1>6. x.job \in Job /\ x.id \in DOMAIN pending /\ pending[x.id] = x.job.call
      /\ \A n \in Letters : n.id < x.id /\ n.id \in Int /\ x.id \in Int
  BY <1>3, LineTypes DEF LinesInv, Lines
<1>7. PICK c : c = x.job.call
  OBVIOUS
<1>8. /\ \A p \in DOMAIN pending : pending[p] \in Outstanding /\ pending[p] \in 1..Len(calls)
      /\ \A n \in Letters : n.id \in DOMAIN pending
  BY PendingCalls
<1>9. /\ c \in Outstanding /\ c \in 1..Len(calls) /\ pending[x.id] = c
      /\ x.job.op = Head(calls[c].todo)
      /\ calls[c].op \in Operations /\ calls[c].todo \in Todos(calls[c].op)
  <2>1. c \in Outstanding /\ c \in 1..Len(calls) /\ pending[x.id] = c
    BY <1>6, <1>7, <1>8
  <2>2. calls[c] \in CallRecord
    BY <2>1, CallFacts DEF CallInv
  <2> QED BY <1>3, <1>7, <2>1, <2>2 DEF CallInv, WorkIsNext, CallRecord
<1>10. /\ RuntimeTypes'
       /\ native.open /\ x.job.op # "close" => native'.open
       /\ x.job.op = "create" /\ effect = "ok" /\ native' = Effect(x.job, effect) => native'.open
       /\ effect = "closed" => x.job.op = "evaluate" /\ ~native.open
  <2>1. PICK job \in Job : job = x.job
    BY <1>6
  <2>2. effect \in Answers(job.op) /\ (native' = native \/ native' = Effect(job, effect)) /\ RuntimeTypes
    BY <1>1, <2>1 DEF RuntimeInv
  <2>3. /\ RuntimeTypes'
        /\ native.open /\ job.op # "close" => native'.open
        /\ job.op = "create" /\ effect = "ok" /\ native' = Effect(job, effect) => native'.open
        /\ effect = "closed" => job.op = "evaluate" /\ ~native.open
    BY <2>2, NativeEffect
  <2> QED BY <2>1, <2>3
<1>11. x.job.op = "close" => c \in Closing
  BY <1>9, TodoFacts DEF Closing
<1>12. Closing' = Closing /\ Undisposed' = Undisposed /\ Outstanding' = Outstanding
  BY <1>4 DEF Closing, Undisposed, Outstanding, Handles
<1>13. CloseComesFirst' /\ OneCloses' /\ OnlyListsAreOvertaken' /\ OpenHandlesAreUsable' /\ InfoNeedsNoCreate'
  BY <1>4, <1>12 DEF RuntimeInv, CloseComesFirst, OneCloses, OnlyListsAreOvertaken,
                     OpenHandlesAreUsable, InfoNeedsNoCreate
<1>14. CreatedIsOpen'
  BY <1>4, <1>10, <1>11, <1>12 DEF RuntimeInv, CreatedIsOpen
<1>15. CreateHasOpened'
  <2> SUFFICES ASSUME NEW n \in Letters', n.answer = "ok", Head(calls[pending[n.id]].todo) = "create"
               PROVE  native'.open
    BY <1>4 DEF CreateHasOpened
  <2>1. CASE n \in Letters
    <3>1. native.open
      BY <2>1 DEF RuntimeInv, CreateHasOpened
    <3>2. x.job.op # "close"
      <4> SUFFICES ASSUME x.job.op = "close" PROVE FALSE
        OBVIOUS
      <4>1. calls[pending[x.id]].op = "dispose"
        BY <1>9, <1>11 DEF Closing
      <4>2. PICK d : d = pending[n.id]
        OBVIOUS
      <4>3. d \in Outstanding /\ d \in 1..Len(calls) /\ Head(calls[d].todo) = "create"
        BY <1>8, <2>1, <4>2
      <4>4. calls[d].op \in Operations /\ calls[d].todo \in Todos(calls[d].op)
        BY <4>3, CallFacts DEF CallInv, CallRecord, WorkIsNext
      <4>5. calls[d].op = "initialize"
        BY <4>3, <4>4, TodoFacts
      <4>6. x.id < n.id
        BY <1>6, <1>8, <2>1, <4>1, <4>2, <4>5 DEF RuntimeInv, CloseComesFirst
      <4> QED BY <1>6, <2>1, <4>6
    <3> QED BY <1>10, <3>1, <3>2
  <2>2. CASE n \notin Letters
    <3>1. n = m /\ answer = "ok" /\ x.job.op = "create"
      BY <1>3, <1>5, <1>9, <2>2
    <3> QED BY <1>1, <1>10, <3>1
  <2> QED BY <2>1, <2>2
<1>16. ClosedWereDisposed'
  <2> SUFFICES ASSUME NEW n \in Letters', n.answer = "closed" PROVE calls[pending[n.id]].handle \in disposed
    BY <1>4 DEF ClosedWereDisposed
  <2>1. CASE n \in Letters
    BY <2>1 DEF RuntimeInv, ClosedWereDisposed
  <2>2. CASE n \notin Letters
    <3>1. n = m /\ x.job.op = "evaluate" /\ ~native.open /\ pending[n.id] = c
      BY <1>3, <1>5, <1>9, <1>10, <2>2
    <3>2. calls[c].op # "initialize"
      BY <1>9, <3>1, TodoFacts
    <3>3. calls[c].handle \in Handles
      BY <1>9, <3>2 DEF CallInv, HandlesAreMade
    <3>4. Undisposed = {}
      BY <3>1 DEF RuntimeInv, OpenHandlesAreUsable, CreatedIsOpen
    <3> QED BY <3>1, <3>3, <3>4 DEF Undisposed
  <2> QED BY <2>1, <2>2
<1>17. KilledDoNotClose' /\ OpenHandleIsServed'
  BY <1>3, <1>4 DEF RuntimeInv, KilledDoNotClose, OpenHandleIsServed
<1> QED BY <1>10, <1>13, <1>14, <1>15, <1>16, <1>17 DEF RuntimeInv

LEMMA IsolateKeepsRuntime ==
  ASSUME WorkerInv, LinesInv, CallInv, RuntimeInv, NEW w \in Workers, Isolate(w) \/ Failure(w)
  PROVE  RuntimeInv'
<1>1. UNCHANGED <<handleVars, pending, worker>>
  BY DEF Isolate, Failure, Take, Finish, Throws, Dies, clientVars
<1>2. CASE Take(w)
  <2>1. phase[w] = "alive" /\ serving' = [serving EXCEPT ![w] = TRUE] /\ UNCHANGED <<phase, inbox, mail, native>>
    BY <1>2 DEF Take
  <2>2. Letters' = Letters /\ RuntimeTypes'
    BY <1>1, <2>1 DEF Letters, RuntimeInv, RuntimeTypes
  <2>3. \A v \in Workers : phase[v] = "killed" => serving'[v] = serving[v]
    BY <2>1 DEF LinesInv, QueueTypes
  <2> QED BY <1>1, <2>1, <2>2, <2>3, OthersKeepRuntime
<1>3. CASE Dies(w)
  <2>1. /\ phase' = [phase EXCEPT ![w] = "gone"] /\ inbox' = [inbox EXCEPT ![w] = <<>>]
        /\ UNCHANGED <<serving, native>>
    BY <1>3 DEF Dies
  <2>2. Letters' = Letters /\ RuntimeTypes'
    BY <1>3, <2>1, DiesKeepsLines DEF RuntimeInv, RuntimeTypes
  <2>3. \A v \in Workers : phase'[v] = "killed" => v # w
    BY <2>1 DEF WorkerInv
  <2> QED BY <1>1, <2>1, <2>2, <2>3, OthersKeepRuntime
<1>4. ASSUME NEW answer \in {"ok", "refused", "closed", "thrown"}, AnswerIs(w, answer),
             NEW effect \in Answers(Head(inbox[w]).job.op),
             native' = native \/ native' = Effect(Head(inbox[w]).job, effect),
             answer # "thrown" => answer = effect /\ native' = Effect(Head(inbox[w]).job, effect)
      PROVE  RuntimeInv'
  <2>1. UNCHANGED handleVars
    BY <1>1 DEF handleVars
  <2>2. CASE w = worker
    <3>1. worker \in Workers
      BY <2>2
    <3>2. /\ AnswerIs(worker, answer) /\ effect \in Answers(Head(inbox[worker]).job.op)
          /\ native' = native \/ native' = Effect(Head(inbox[worker]).job, effect)
          /\ answer # "thrown" => answer = effect /\ native' = Effect(Head(inbox[worker]).job, effect)
      BY <1>4, <2>2
    <3> QED BY <2>1, <3>1, <3>2, WorkerAnswersWell
  <2>3. CASE w # worker
    <3>1. Letters' = Letters
      BY <1>4, <2>3, AnswerOfOther
    <3>2. phase[w] = "killed"
      BY <1>4, <2>3 DEF AnswerIs, Serving, WorkerInv, OneWorker, Alive
    <3>3. inbox[w] # <<>> /\ Head(inbox[w]).job.op # "close"
      BY <3>2 DEF RuntimeInv, KilledDoNotClose
    <3>4. Head(inbox[w]) \in SentJob
      BY <3>3, TailOf DEF LinesInv, QueueTypes
    <3>5. PICK job \in Job : job = Head(inbox[w]).job
      BY <3>4 DEF SentJob
    <3>6. /\ RuntimeTypes /\ effect \in Answers(job.op) /\ job.op # "close"
          /\ native' = native \/ native' = Effect(job, effect)
      BY <1>4, <3>3, <3>5 DEF RuntimeInv
    <3>7. RuntimeTypes' /\ (native.open => native'.open)
      BY <3>6, NativeEffect
    <3>8. /\ phase' = [phase EXCEPT ![w] = IF @ = "killed" THEN "gone" ELSE @]
          /\ inbox' = [inbox EXCEPT ![w] = Tail(@)]
          /\ serving' = [serving EXCEPT ![w] = FALSE]
      BY <1>4 DEF AnswerIs
    <3>9. \A v \in Workers : phase'[v] = "killed" =>
            phase[v] = "killed" /\ serving'[v] = serving[v] /\ inbox'[v] = inbox[v]
      BY <3>2, <3>8 DEF WorkerInv, LinesInv, QueueTypes
    <3> QED BY <1>1, <3>1, <3>7, <3>9, OthersKeepRuntime
  <2> QED BY <2>2, <2>3
<1>5. CASE Finish(w)
  <2>1. PICK answer \in Answers(Head(inbox[w]).job.op) :
          /\ answer \in {"ok", "refused", "closed", "thrown"}
          /\ AnswerIs(w, answer)
          /\ native' = Effect(Head(inbox[w]).job, answer)
    BY <1>5, FinishAnswers
  <2> QED BY <1>4, <2>1
<1>6. CASE Throws(w)
  <2>1. AnswerIs(w, "thrown")
    BY <1>6, ThrowsAnswers
  <2>2. \E effect \in Answers(Head(inbox[w]).job.op) :
          native' = native \/ native' = Effect(Head(inbox[w]).job, effect)
    <3>1. native' \in {native} \cup {Effect(Head(inbox[w]).job, e) : e \in Answers(Head(inbox[w]).job.op)}
      BY <1>6 DEF Throws
    <3>2. \E e : e \in Answers(Head(inbox[w]).job.op)
      BY DEF Answers
    <3> QED BY <3>1, <3>2
  <2> QED BY <1>4, <2>1, <2>2
<1> QED BY <1>2, <1>3, <1>5, <1>6 DEF Isolate, Failure

LEMMA RuntimeStep == WorkerInv /\ LinesInv /\ CallInv /\ RuntimeInv /\ [Next]_vars => RuntimeInv'
<1> SUFFICES ASSUME WorkerInv, LinesInv, CallInv, RuntimeInv, [Next]_vars PROVE RuntimeInv'
  OBVIOUS
<1>1. CASE (\E withOptions \in BOOLEAN : Initialize(withOptions))
             \/ (\E h \in Handles : Evaluate(h) \/ EvaluateList(h) \/ Dispose(h))
  <2>1. PICK op \in Operations, handle \in Nat : \E todo \in Todos(op) : Called(op, handle, todo)
    BY <1>1, ProgramCalls
  <2>2. PICK todo \in Todos(op) : Called(op, handle, todo)
    BY <2>1
  <2> QED BY <2>2, CalledKeepsRuntime
<1>2. CASE Started
  BY <1>2, StartedKeepsRuntime
<1>3. CASE NotStarted \/ WorkerGone
  BY <1>3, LosingKeepsRuntime
<1>4. CASE Unheard
  <2>1. /\ mail # <<>> /\ mail' = Tail(mail) /\ Head(mail).from # worker
        /\ UNCHANGED <<handleVars, pending, worker, phase, inbox, serving, native>>
    BY <1>4 DEF Unheard, Message, clientVars
  <2>2. Letters' = Letters \ {Head(mail)}
    BY <2>1, TakeLetter DEF LinesInv
  <2>3. Letters' = Letters /\ RuntimeTypes'
    BY <2>1, <2>2 DEF Letters, RuntimeInv, RuntimeTypes
  <2> QED BY <2>1, <2>3, OthersKeepRuntime
<1>5. CASE Continue
  BY <1>5, ContinueKeepsRuntime
<1>6. CASE Return \/ ReturnError \/ ReturnClosed
  BY <1>6, ReturnKeepsRuntime
<1>7. CASE CloseWorker
  BY <1>7, CloseKeepsRuntime
<1>8. ASSUME NEW w \in Workers, Isolate(w) \/ Failure(w) PROVE RuntimeInv'
  BY <1>8, IsolateKeepsRuntime
<1>9. CASE UNCHANGED vars
  <2>1. UNCHANGED <<handleVars, pending, worker, mail, phase, inbox, serving, native>>
    BY <1>9 DEF vars, workerVars, clientVars, isolateVars, handleVars
  <2>2. Letters' = Letters /\ RuntimeTypes'
    BY <2>1 DEF Letters, RuntimeInv, RuntimeTypes
  <2> QED BY <2>1, <2>2, OthersKeepRuntime
<1> QED BY <1>1, <1>2, <1>3, <1>4, <1>5, <1>6, <1>7, <1>8, <1>9 DEF Next, Deliver

\* A handle that has not been disposed never learns that the runtime is closed,
\* whoever disposed of another handle, whatever isolates are still about.
THEOREM OpenHandlesServed == Spec => []OpenHandleIsServed
<1>1. RuntimeInv => OpenHandleIsServed
  BY DEF RuntimeInv
<1> QED BY <1>1, InitWorker, InitLines, InitCalls, InitRuntime, WorkerStep, CallStep, RuntimeStep, PTL DEF Spec

\* When dispose is answered, an earlier call that waits is a list with its last
\* batch under way.
LEMMA CloseAnswersEarlier ==
  ASSUME WorkerInv, LinesInv, CallInv, RuntimeInv, [Next]_vars,
         NEW d \in DOMAIN calls,
         calls[d].op = "dispose", calls[d].outcome = "none", calls'[d].outcome = "ok",
         NEW c \in Outstanding, c < d
  PROVE  calls[c].op = "list" /\ Len(calls[c].todo) = 1
<1>1. /\ DOMAIN calls = 1..Len(calls) /\ d \in 1..Len(calls) /\ d \in Outstanding
      /\ calls[d].op \in Operations /\ calls[d].todo \in Todos(calls[d].op)
  BY CallFacts DEF CallInv, CallRecord, WorkIsNext, Outstanding
<1>2. Head(calls[d].todo) = "close"
  BY <1>1, TodoFacts
<1>3. CloseWorker
  <2>1. CASE (\E withOptions \in BOOLEAN : Initialize(withOptions))
               \/ (\E h \in Handles : Evaluate(h) \/ EvaluateList(h) \/ Dispose(h))
    <3>1. PICK op \in Operations, handle \in Nat : \E todo \in Todos(op) : Called(op, handle, todo)
      BY <2>1, ProgramCalls
    <3>2. PICK todo \in Todos(op) : Called(op, handle, todo)
      BY <3>1
    <3>3. calls'[d] = calls[d]
      BY <1>1, <3>2, MakeAddsCall, TodoFacts DEF Called, CallInv
    <3> QED BY <3>3
  <2>2. ASSUME NEW thrown, Settle({}, thrown) PROVE FALSE
    <3>1. Ends({}, thrown, {})
      BY <2>2, SettleEnds DEF CallInv
    <3> QED BY <1>1, <3>1 DEF Ends
  <2>3. CASE Started \/ NotStarted \/ WorkerGone
    BY <2>2, <2>3 DEF Started, NotStarted, WorkerGone
  <2>4. CASE Unheard \/ UNCHANGED vars \/ \E w \in Workers : Isolate(w) \/ Failure(w)
    <3>1. calls' = calls
      BY <2>4 DEF Unheard, vars, handleVars, Isolate, Failure
    <3> QED BY <3>1
  <2>5. CASE Continue
    BY <1>1, <2>5, ContinueKeepsCalls
  <2>6. CASE Return \/ ReturnError \/ ReturnClosed
    <3>1. PICK kinds, returned, thrown, closed :
            /\ Ends(returned, thrown, closed)
            /\ returned \cup thrown \cup closed = {Answered}
            /\ \A e \in returned : Left = <<>> /\ Step # "close"
      BY <2>6, ReturnEnds
    <3>2. d \in returned
      BY <1>1, <3>1 DEF Ends
    <3> QED BY <1>2, <3>1, <3>2 DEF Step
  <2> QED BY <2>1, <2>3, <2>4, <2>5, <2>6 DEF Next, Deliver
<1>4. Heard({"ok"}) /\ Settle({Answered}, Range(Rest))
  BY <1>3 DEF CloseWorker
<1>5. d = Answered
  <2>1. PICK returned : returned = {Answered}
    OBVIOUS
  <2>2. PICK thrown : thrown = Range(Rest)
    OBVIOUS
  <2>3. Ends(returned, thrown, {})
    BY <1>4, <2>1, <2>2, SettleEnds DEF CallInv, Settle
  <2> QED BY <1>1, <2>1, <2>3 DEF Ends
<1>6. /\ worker # 0 /\ Message.id \in DOMAIN pending
      /\ \A p \in DOMAIN pending : Message.id <= p
  BY <1>4, HeardFirst
<1>7. PICK q \in DOMAIN pending : pending[q] = c
  BY <1>6, HeardFacts DEF Range
<1>8. \A p \in DOMAIN pending : p \in Nat /\ pending[p] \in 1..Len(calls)
  BY PendingCalls
<1>9. pending[Message.id] = d /\ pending[q] < pending[Message.id]
  BY <1>5, <1>7 DEF Answered
<1>10. Message.id < q
  <2>1. Message.id # q
    <3>1. c # d
      BY <1>1, <1>8, <1>7
    <3> QED BY <1>7, <1>9, <3>1
  <2> QED BY <1>6, <1>8, <2>1
<1> QED BY <1>6, <1>7, <1>9, <1>10 DEF RuntimeInv, OnlyListsAreOvertaken

\* When dispose returns, the calls made before it have been answered, up to the
\* second batches of lists.
THEOREM EarlierAnswered == Spec => EarlierCallsAnswered
<1> DEFINE Overtaken ==
             \A d \in DOMAIN calls :
               calls[d].op = "dispose" /\ calls[d].outcome = "none" /\ calls'[d].outcome = "ok" =>
                 \A c \in Outstanding : c < d => calls[c].op = "list" /\ Len(calls[c].todo) = 1
<1>1. WorkerInv /\ LinesInv /\ CallInv /\ RuntimeInv /\ [Next]_vars => Overtaken
  BY CloseAnswersEarlier
<1> HIDE DEF Overtaken
<1>2. Spec => [][Overtaken]_vars
  BY <1>1, InitWorker, InitLines, InitCalls, InitRuntime, WorkerStep, CallStep, RuntimeStep, PTL DEF Spec
<1> QED BY <1>2 DEF EarlierCallsAnswered, Overtaken

=============================================================================

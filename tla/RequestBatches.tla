--------------------------- MODULE RequestBatches ---------------------------
(***************************************************************************)
(* One logical list of evaluation requests: how an SDK factors, splits and *)
(* sends it (encoder.dart, cel_runtime.dart, sdk/rust/src/runtime.rs), and *)
(* how the runtime decodes, merges and answers each physical batch         *)
(* (internal/runtime/requests.go, internal/celtype/deadline.go), while the *)
(* clock runs, another client releases programs, and the process's runtime *)
(* may be replaced by one with other limits.                               *)
(*                                                                         *)
(* Sizes are counted as the code counts them, in the bytes of the JSON,    *)
(* from constants for the parts whose text does not matter.  What is wrong *)
(* with a source is a constant, and what it or a program computes is left  *)
(* symbolic: its result is the pair of it and the variables it was given.  *)
(***************************************************************************)
EXTENDS Limits, Sequences, SequencesExt

CONSTANTS
  Lists,          \* the lists of requests that may be given to the SDK
  Deadlines,      \* the deadlines, in milliseconds, that may be given with them
  CreateOptions,  \* the options that runtimes are created with
  MaxRuntimes,    \* bound: runtimes created
  MaxTime,        \* bound: milliseconds that pass
  Programs,       \* the ids of the programs prepared in the first runtime
  SourceBytes,    \* from sources to their length
  FoundBefore,    \* from sources to what prepareEvaluation finds but for their length, or Blank
  FoundAfter,     \* from sources to what their compilation finds, or Blank
  ValueBytes,     \* from variable values to the length of their JSON
  EqualityClass,  \* from variable values to what _jsonEquivalent tells apart of them
  KeyBytes,       \* from variable names to the length of their JSON from the SDK, and a colon
  MarshaledBytes, \* the same of their JSON from json.Marshal, which escapes other characters
  EnvelopeBytes,  \* of an envelope, and of a request, without what is counted below
  RequestBytes,
  DurationLimit,  \* 2^63: a time.Duration is one of -DurationLimit .. DurationLimit - 1
  Milli,          \* time.Millisecond
  BadValues,      \* the variable values that do not decode
  Blank           \* an absent source, program, deadline or failure, an empty id

\* Variables are finitely many, of names and values of known sizes.
IsObject(v) ==
  /\ IsFiniteSet(DOMAIN v) /\ DOMAIN v \subseteq DOMAIN KeyBytes
  /\ v \in [DOMAIN v -> DOMAIN ValueBytes]

\* A request has variables, and a source or a program or both or neither.
IsRequest(r) ==
  /\ r \in [id : {r.id}, source : DOMAIN SourceBytes \cup {Blank}, program : {r.program},
            variables : {r.variables}]
  /\ IsObject(r.variables)

\* The codes a call throws.
Codes == {"invalid_request", "request_payload_too_large", "batch_payload_too_large",
          "variables_too_large", "output_too_large"}

ASSUME BatchAssumption ==
  /\ \A options \in CreateOptions :
       /\ DOMAIN options.limits \subseteq Overridable
       /\ \A n \in DOMAIN options.limits : options.limits[n] \in Int
  /\ \A list \in Lists : list \in Seq(Range(list)) /\ \A i \in DOMAIN list : IsRequest(list[i])
  /\ \A d \in Deadlines : d \in Nat \cup {Blank}
  /\ MaxTime \in Nat /\ DurationLimit \in Nat \ {0} /\ Milli \in Nat \ {0}
  /\ {EnvelopeBytes, RequestBytes} \subseteq Nat
  /\ SourceBytes \in [DOMAIN SourceBytes -> Nat] /\ ValueBytes \in [DOMAIN ValueBytes -> Nat]
  /\ KeyBytes \in [DOMAIN KeyBytes -> Nat] /\ MarshaledBytes \in [DOMAIN KeyBytes -> Nat]
  /\ \A s \in DOMAIN SourceBytes : "deadline_exceeded" \notin {FoundBefore[s], FoundAfter[s]}
  /\ Blank \notin Int /\ Blank \notin Codes

VARIABLES
  clock,      \* milliseconds since the SDK was called
  runtimes,   \* the limits of every runtime created; the last one is current
  programs,   \* the programs the current runtime has
  info,       \* what the SDK was told of the first runtime's limits
  requests, deadline,   \* the SDK call's arguments
  batches,    \* its batches that are not sent yet
  results,    \* what it has of the results
  call,       \* where the call is: "encode", "send", "sent", "received", "done"
  failure,    \* the code it threw, or Blank
  served      \* the runtime's side of the batch being answered

vars == <<clock, runtimes, programs, info, requests, deadline, batches, results, call, failure, served>>

Ids(batch) == {batch[i].id : i \in DOMAIN batch}

(***************************************************************************)
(* Sizes.                                                                  *)
(***************************************************************************)
\* The variables of an object, and its JSON, with names of these lengths.
Content(keyBytes, v) == SumFunction([n \in DOMAIN v |-> keyBytes[n] + ValueBytes[v[n]]])

BytesWith(keyBytes, v) ==
  2 + Content(keyBytes, v) + (IF DOMAIN v = {} THEN 0 ELSE Cardinality(DOMAIN v) - 1)

ObjectBytes(v) == BytesWith(KeyBytes, v)

SourceLength(request) == IF request.source = Blank THEN 0 ELSE SourceBytes[request.source]
SourceTotal(batch) == SumFunction([i \in DOMAIN batch |-> SourceLength(batch[i])])

Without(v, names) == [n \in DOMAIN v \ names |-> v[n]]

JsonEquivalent(x, y) == EqualityClass[x] = EqualityClass[y]

\* Only the first and the last request are compared: a mutant of SharedNames.
SharedWithLast(batch) ==
  {n \in DOMAIN batch[1].variables :
     /\ n \in DOMAIN batch[Len(batch)].variables
     /\ JsonEquivalent(batch[Len(batch)].variables[n], batch[1].variables[n])}

\* The variables that every request of the batch has with an equal value.
\* Numbers are equal by ==, so 0.0 and -0.0 are; what is shared keeps the value
\* it has in the first request.
SharedNames(batch) ==
  {n \in DOMAIN batch[1].variables :
     \A i \in DOMAIN batch :
       /\ n \in DOMAIN batch[i].variables
       /\ JsonEquivalent(batch[i].variables[n], batch[1].variables[n])}

Envelope(batch) ==
  LET shared == SharedNames(batch)
  IN [shared |-> Restrict(batch[1].variables, shared),
      requests |-> [i \in DOMAIN batch |->
                      [batch[i] EXCEPT !.variables = Without(batch[i].variables, shared)]]]

RequestLength(r) == RequestBytes + SourceLength(r) + ObjectBytes(r.variables)

EnvelopeLength(envelope) ==
  EnvelopeBytes + ObjectBytes(envelope.shared)
    + SumFunction([i \in DOMAIN envelope.requests |-> RequestLength(envelope.requests[i])])

(***************************************************************************)
(* The SDK.                                                                *)
(***************************************************************************)
ExactlyOne(request) == (request.source # Blank) # (request.program # Blank)

ValidRequests(list) ==
  /\ Blank \notin Ids(list) /\ Cardinality(Ids(list)) = Len(list)
  /\ \A i \in DOMAIN list : ExactlyOne(list[i])

\* The bytes of the sources are added up after the check: a mutant of Fits.
FitsWithoutLastSource(batch, limits) ==
  /\ Len(batch) <= limits.maxBatchSize
  /\ SourceTotal(Front(batch)) <= limits.maxBatchSourceBytes
  /\ EnvelopeLength(Envelope(batch)) <= limits.maxBatchRequestBytes

Fits(batch, limits) ==
  /\ Len(batch) <= limits.maxBatchSize
  /\ SourceTotal(batch) <= limits.maxBatchSourceBytes
  /\ EnvelopeLength(Envelope(batch)) <= limits.maxBatchRequestBytes

\* How many of the requests go into the next batch: it grows until one no longer fits.
Accepted(list, limits) ==
  Max({0} \cup {n \in DOMAIN list : \A m \in 1..n : Fits(SubSeq(list, 1, m), limits)})

\* The requests of the batch but its first are encoded again: a mutant of Advance.
AdvanceByOne(offset, accepted) == offset + 1

Advance(offset, accepted) == offset + accepted

\* The batches of a list; an empty one stands for a request that fits in none.
Split(list, limits) ==
  LET rest(o) == SubSeq(list, o + 1, Len(list))
      from[o \in 0..Len(list)] ==
        IF o = Len(list) THEN <<>>
        ELSE LET n == Accepted(rest(o), limits)
             IN IF n = 0 THEN <<<<>>>> ELSE <<SubSeq(list, o + 1, o + n)>> \o from[Advance(o, n)]
  IN from[0]

Throw(code) == failure' = code /\ call' = "done"

Encode ==
  /\ call = "encode"
  /\ IF ~ValidRequests(requests) THEN Throw("invalid_request") /\ UNCHANGED batches
     ELSE IF <<>> \in Range(Split(requests, info))
       THEN Throw("request_payload_too_large") /\ UNCHANGED batches
     ELSE /\ batches' = Split(requests, info)
          /\ call' = IF requests = <<>> THEN "done" ELSE "send"
          /\ UNCHANGED failure
  /\ UNCHANGED <<clock, runtimes, programs, info, requests, deadline, results, served>>

Item(id, answer) == [id |-> id, answer |-> answer]
Good(r) == [ok |-> TRUE, body |-> r]
Bad(code) == [ok |-> FALSE, body |-> code]
Exceeded(request) == Item(request.id, Bad("deadline_exceeded"))

\* Every batch is given the whole deadline: a mutant of Remaining.
RemainingRestarted == deadline

\* The stopwatch started with the call; nothing less than 0 remains.
Remaining == IF deadline = Blank THEN Blank ELSE Max({0, deadline - clock})

\* The first batch is sent whatever the time.
TimeIsUp == results # <<>> /\ deadline # Blank /\ clock >= deadline

GiveUp ==
  /\ call = "send" /\ TimeIsUp
  /\ LET unsent == SubSeq(requests, Len(results) + 1, Len(requests))
     IN results' = results \o [i \in DOMAIN unsent |-> Exceeded(unsent[i])]
  /\ call' = "done"
  /\ UNCHANGED <<clock, runtimes, programs, info, requests, deadline, batches, failure, served>>

Send ==
  /\ call = "send" /\ ~TimeIsUp
  /\ served' = [envelope |-> Envelope(Head(batches)), remaining |-> Remaining, sent |-> clock]
  /\ batches' = Tail(batches)
  /\ call' = "sent"
  /\ UNCHANGED <<clock, runtimes, programs, info, requests, deadline, results, failure>>

(***************************************************************************)
(* The runtime.                                                            *)
(***************************************************************************)
Current == Len(runtimes)

\* NewDeadline multiplies in a signed integer, and the clock has the
\* multiplier's resolution.
Wrapped(n, limit) == ((n + limit) % (2 * limit)) - limit

\* The product is computed in a narrower integer: a mutant of NewDeadline.
NewDeadlineNarrow(ms) == IF ms = Blank THEN Blank ELSE clock * Milli + Wrapped(ms * Milli, DurationLimit \div 2)

NewDeadline(ms) == IF ms = Blank THEN Blank ELSE clock * Milli + Wrapped(ms * Milli, DurationLimit)
DeadlinePassed(at) == at # Blank /\ clock * Milli >= at

Undecodable(v) == \E n \in DOMAIN v : v[n] \in BadValues

VariableError(v, limits) ==
  CASE ObjectBytes(v) > limits["MaxVariablesBytes"] -> "variables_too_large"
    [] ObjectBytes(v) <= limits["MaxVariablesBytes"] /\ Undecodable(v) -> "invalid_request"
    [] OTHER -> Blank

\* decodeEvaluationRequests: why a whole batch is refused, or Blank.
Refusal(envelope, limits) ==
  LET list == envelope.requests
  IN IF EnvelopeLength(envelope) > limits["MaxBatchRequestBytes"] THEN "batch_payload_too_large"
     ELSE IF VariableError(envelope.shared, limits) # Blank THEN VariableError(envelope.shared, limits)
     ELSE IF Len(list) > limits["MaxBatchExpressions"] THEN "invalid_request"
     ELSE IF Blank \in Ids(list) \/ Cardinality(Ids(list)) < Len(list) THEN "invalid_request"
     ELSE IF SourceTotal(list) > limits["MaxBatchSourceBytes"] THEN "batch_payload_too_large"
     ELSE Blank

\* The operation runs on the runtime it finds here, and in its store.
Receive ==
  /\ call = "sent"
  /\ LET refusal == Refusal(served.envelope, runtimes[Current])
     IN IF refusal # Blank THEN Throw(refusal) /\ UNCHANGED served
        ELSE /\ call' = "received" /\ UNCHANGED failure
             /\ served' = [envelope |-> served.envelope, sent |-> served.sent, received |-> clock,
                           until |-> NewDeadline(served.remaining), on |-> Current, items |-> <<>>]
  /\ UNCHANGED <<clock, runtimes, programs, info, requests, deadline, batches, results>>

Merged(shared, own) ==
  [n \in DOMAIN own \cup DOMAIN shared |-> IF n \in DOMAIN own THEN own[n] ELSE shared[n]]

\* mergedVariableObjectSize writes every name with json.Marshal, and keeps the
\* values as they came.
MergedSize(shared, own) ==
  LET kept == Restrict(shared, DOMAIN shared \ DOMAIN own)
      count == Cardinality(DOMAIN kept) + Cardinality(DOMAIN own)
  IN 2 + Content(MarshaledBytes, kept) + Content(MarshaledBytes, own)
       + (IF count = 0 THEN 0 ELSE count - 1)

\* What is found before a source's variables are looked at: validateSource,
\* envFor and the static check of an expected type; or of a program's.
FirstError(request, limits, store) ==
  IF request.program # Blank THEN (IF request.program \in store THEN Blank ELSE "program_not_found")
  ELSE IF SourceBytes[request.source] > limits["MaxSourceBytes"] THEN "source_too_large"
  ELSE FoundBefore[request.source]

\* What the compilation finds; a prepared program is compiled already.
LastError(request) == IF request.program # Blank THEN Blank ELSE FoundAfter[request.source]

\* The result stands for what the program computes from the variables.
Outcome(request, variables) ==
  Good([of |-> IF request.program # Blank THEN request.program ELSE request.source, with |-> variables])

\* evaluateRequest, for variables that have been decoded.
Evaluate(request, variables, limits, store) ==
  IF ~ExactlyOne(request) THEN Bad("invalid_request")
  ELSE IF FirstError(request, limits, store) # Blank THEN Bad(FirstError(request, limits, store))
  ELSE IF LastError(request) # Blank THEN Bad(LastError(request))
  ELSE Outcome(request, variables)

AnswerOf(request, shared, limits, store) ==
  LET error == VariableError(request.variables, limits)
  IN IF MergedSize(shared, request.variables) > limits["MaxVariablesBytes"] THEN Bad("variables_too_large")
     ELSE IF error # Blank THEN Bad(error)
     ELSE Evaluate(request, Merged(shared, request.variables), limits, store)

Answered == Len(served.items)
Unanswered == call = "received" /\ Answered < Len(served.envelope.requests)

AnswerNext ==
  /\ Unanswered
  /\ LET request == served.envelope.requests[Answered + 1]
         item == IF DeadlinePassed(served.until) THEN Exceeded(request)
                 ELSE Item(request.id, AnswerOf(request, served.envelope.shared,
                                                runtimes[served.on], programs[served.on]))
     IN served' = [served EXCEPT !.items = Append(@, item)]
  /\ UNCHANGED <<clock, runtimes, programs, info, requests, deadline, batches, results, call, failure>>

OutputLength(items) ==
  SumFunction([i \in DOMAIN items |->
    RequestBytes + IF items[i].answer.ok THEN ObjectBytes(items[i].answer.body.with) ELSE 0])

Reply ==
  /\ call = "received" /\ ~Unanswered
  /\ IF OutputLength(served.items) > runtimes[served.on]["MaxOutputBytes"]
     THEN Throw("output_too_large") /\ UNCHANGED results
     ELSE /\ results' = results \o served.items
          /\ call' = IF batches = <<>> THEN "done" ELSE "send"
          /\ UNCHANGED failure
  /\ UNCHANGED <<clock, runtimes, programs, info, requests, deadline, batches, served>>

(***************************************************************************)
(* Everybody else.                                                         *)
(***************************************************************************)
ReleaseProgram(p) ==
  /\ call # "done" /\ p \in programs[Current]
  /\ programs' = [programs EXCEPT ![Current] = @ \ {p}]
  /\ UNCHANGED <<clock, runtimes, info, requests, deadline, batches, results, call, failure, served>>

\* The SDK call's handle keeps what it knows of the first runtime.
Create(options) ==
  /\ call # "done" /\ Current < MaxRuntimes
  /\ ParseCreateOptions(options) # BadOptions
  /\ runtimes' = Append(runtimes, ParseCreateOptions(options))
  /\ programs' = Append(programs, {})
  /\ UNCHANGED <<clock, info, requests, deadline, batches, results, call, failure, served>>

\* Without a deadline nobody looks at the clock.
Tick ==
  /\ call # "done" /\ deadline # Blank /\ clock < MaxTime
  /\ clock' = clock + 1
  /\ UNCHANGED <<runtimes, programs, info, requests, deadline, batches, results, call, failure, served>>

Init ==
  /\ \E options \in CreateOptions :
       /\ ParseCreateOptions(options) # BadOptions
       /\ runtimes = <<ParseCreateOptions(options)>>
       /\ info = Public(ParseCreateOptions(options))
  /\ requests \in Lists /\ deadline \in Deadlines
  /\ clock = 0 /\ programs = <<Programs>>
  /\ batches = <<>> /\ results = <<>>
  /\ call = "encode" /\ failure = Blank /\ served = Blank

Step == Encode \/ GiveUp \/ Send \/ Receive \/ AnswerNext \/ Reply

Next ==
  \/ Step \/ Tick
  \/ \E p \in Programs : ReleaseProgram(p)
  \/ \E options \in CreateOptions : Create(options)

Spec == Init /\ [][Next]_vars

(***************************************************************************)
(* Properties.                                                             *)
(***************************************************************************)
\* The types of the variables: every runtime has usable limits, and a call fails only once.
TypeOK ==
  /\ clock \in 0..MaxTime
  /\ \A r \in DOMAIN runtimes : runtimes[r] \in [LimitNames -> Nat \ {0}] /\ programs[r] \subseteq Programs
  /\ call \in {"encode", "send", "sent", "received", "done"}
  /\ failure # Blank => call = "done"

\* The results are the requests', each once and in order, however the list was
\* split; all of them once the call has returned without a failure.
ResultsMatchRequests ==
  /\ Len(results) <= Len(requests)
  /\ \A i \in DOMAIN results : results[i].id = requests[i].id
  /\ call = "done" /\ failure = Blank => Len(results) = Len(requests)

\* What Evaluate or EvaluateProgram answers to the request on its own, its
\* variables being of this size.
Alone(request, size, limits, store) ==
  LET error == IF size > limits["MaxVariablesBytes"] THEN "variables_too_large"
               ELSE IF Undecodable(request.variables) THEN "invalid_request" ELSE Blank
  IN IF FirstError(request, limits, store) # Blank THEN Bad(FirstError(request, limits, store))
     ELSE IF error # Blank THEN Bad(error)
     ELSE IF LastError(request) # Blank THEN Bad(LastError(request))
     ELSE Outcome(request, request.variables)

\* All that is wrong with a request by itself: alone it fails with one of
\* these, in a batch perhaps with another.
Faults(request, size, limits, store) ==
  ({FirstError(request, limits, store), LastError(request)} \ {Blank})
    \cup (IF size > limits["MaxVariablesBytes"] THEN {"variables_too_large"} ELSE {})
    \cup (IF Undecodable(request.variables) THEN {"invalid_request"} ELSE {})

\* An answer that the request could have got by itself, its names counted as
\* either side counts them, or another of the faults it has.
AsAlone(answer, request, limits, store) ==
  \E keyBytes \in {KeyBytes, MarshaledBytes} :
    LET size == BytesWith(keyBytes, request.variables)
        alone == Alone(request, size, limits, store)
    IN \/ answer = alone
       \/ ~answer.ok /\ ~alone.ok /\ answer.body \in Faults(request, size, limits, store)

\* A request as factoring may change it: with equal values of others in the list.
Equals(request, list) ==
  {[request EXCEPT !.variables = v] :
     v \in {f \in [DOMAIN request.variables -> DOMAIN ValueBytes] :
              \A n \in DOMAIN f : \E i \in DOMAIN list :
                /\ n \in DOMAIN list[i].variables
                /\ f[n] = list[i].variables[n] /\ JsonEquivalent(f[n], request.variables[n])}}

\* Factoring, splitting and merging change no answer: each is one that the
\* request would have got by itself, in time or too late, from some runtime of
\* this process with or without its program.  But for three things the code
\* does: a value may have become an equal one, the size of the variables may
\* be counted with other escapes in their names, and of several faults another
\* may be reported.
AnsweredAsAlone ==
  \A i \in DOMAIN results :
    \/ results[i].answer = Bad("deadline_exceeded") /\ deadline # Blank
    \/ \E r \in DOMAIN runtimes, store \in SUBSET Programs, request \in Equals(requests[i], requests) :
         /\ programs[r] \subseteq store /\ (r > 1 => store = {})
         /\ AsAlone(results[i].answer, request, runtimes[r], store)

\* The splitting keeps to the limits that the runtime advertised: a batch is
\* refused for its size only by another runtime.
SplitIsAccepted ==
  failure = "batch_payload_too_large"
    \/ (failure = "invalid_request" /\ ValidRequests(requests)
        /\ \A i \in DOMAIN requests : ~Undecodable(requests[i].variables)) =>
    Current > 1

\* A deadline that fits its multiplication is never reported early, and once it
\* has passed for one request it has for all that follow, in later batches too.
DeadlineIsFinal ==
  deadline # Blank /\ deadline * Milli < DurationLimit =>
    \A i \in DOMAIN results :
      results[i].answer = Bad("deadline_exceeded") =>
        clock >= deadline /\ \A j \in i..Len(results) : results[j].answer = results[i].answer

\* One deadline covers the whole list: nothing is evaluated after it, but for
\* the time its batch was under way to the runtime.
DeadlineIsOverall ==
  [][served' # served /\ call = "received" /\ deadline # Blank =>
       \/ Last(served'.items).answer = Bad("deadline_exceeded")
       \/ clock < deadline + (served.received - served.sent)]_vars

\* docs/migration-0.7.md: "Oversized merged variables return
\* `variables_too_large` on that request result."
OversizedStaysItsOwn == failure # "variables_too_large"
=============================================================================

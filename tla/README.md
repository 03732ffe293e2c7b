# A TLA+ development of cel-bridge

cel-bridge evaluates CEL expressions for Dart, Flutter, Rust, web and plain C
hosts. One Go runtime does the work; it is reached through a C library, a
WebAssembly module, and the SDKs built on them. These modules model the runtime
with its caches, stores, operations, types and values, the batches that the SDKs
send it, and the Dart SDK's handle and worker: what is checked with TLC on small
instances, and what TLAPS proves for instances of every size.

    tlc -config MCCompileFlight.cfg MCCompileFlight     # one run
    tlapm CompileFlight_proofs.tla                      # one set of proofs

Paths below are relative to the repository.

## The system

| part | source | state | operations |
|---|---|---|---|
| program cache | `runtime/internal/runtime/program_cache.go` | map and recency list under a mutex, capacity | `Get`, `Put` with eviction |
| environment cache | `.../environment_cache.go` | the same | the same |
| single flight | `.../flight.go`, `getOrCompile` in `.../runtime.go` | table of calls under a mutex, each with a channel and a result | `Do` |
| admission and disposal | `begin`, `end` in `.../runtime.go`, `Close` in `.../prepared.go` | `closed` (atomic), `inflight` (WaitGroup) | `begin`, `end`, `Close` |
| prepared programs | `.../prepared.go` | map from ids to programs, id counter, capacity | `put`, `get`, `release`, `clear` |
| operations | `.../runtime.go`, `.../requests.go` | none of their own | `Validate`, `Evaluate`, `EvaluateMany`, `EvaluateRequests`, `Prepare`, `EvaluateProgram`, `ReleaseProgram` |
| process bridge | `runtime/celbridge/celbridge.go` | the current runtime under a mutex | each operation, `Create`, `Close` |
| limits, types, decoding, values | `.../limits.go`, `internal/celtype`, `internal/environment`, `internal/protocol` | none | pure functions |
| hosts | `runtime/cmd/native`, `runtime/cmd/wasm` | none in Go; buffers owned by the caller | one export per operation |
| Dart handle | `sdk/dart/lib/src/cel_runtime.dart` | static initialisation future, `_needsCreate`, `_disposed` | `initialize`, operations, `dispose` |
| Dart native worker | `sdk/dart/lib/src/backend/ffi` | isolate, ports, pending requests | `invoke`, `_onReply`, `_failAll`, `close`, `_start` |
| Dart web loader | `sdk/dart/lib/src/backend/web` | shared load future | load with retry |
| Rust handle | `sdk/rust/src/runtime.rs` | the limits read when it was made | operations, `close`, `recreate` |
| batch encoders | `encoder.dart`, `runtime.rs` | none | split a list of requests, factor out shared variables |
| builds and downloads | `sdk/dart/hook`, `artifact.dart`, `sdk/rust/build` | files | fetch and verify a library |

How they interact. A host calls an exported operation on any of its threads. The
operation reads the current runtime under the bridge's lock and leaves the lock;
on that runtime it passes `begin`, does its work, and leaves through the deferred
`end`. The work asks `getOrCompile` for a program, which looks in the cache, then
joins or leads a flight, whose leader looks in the cache again, compiles outside
every lock, stores the program and publishes it. A prepared program is kept in
its runtime's store under an id. `Create` swaps the current runtime and closes
the one it replaced; `Close` sets `closed`, waits for the operations inside, and
clears the store. An operation that panics is recovered by the exported function
and answered with `internal_error`.

What is hard, and what makes each part correct:

* **Cache.** List and map must stay two views of one set through hits,
  replacements and evictions; what is kept must be what was used last.
* **Single flight.** A miss, the table lookup and the compilation are separate
  critical sections, and calls outlive their table entries. No key may be
  compiled twice at a time or while its program is cached; every caller must get
  the answer to its own key; no waiter may be left without someone to wake it,
  whatever fails.
* **Admission and disposal.** `closed` may be set between any two steps of
  `begin`. The store must be cleared only when nobody is inside, `Close` must
  return, and a WaitGroup may not be added to under a waiter.
* **Bridge.** Operations keep pointers to replaced runtimes, and creates and
  closes overlap. No replaced runtime may stay open, none may come back to life,
  and an id must mean the program it was issued for.
* **Operations.** The same checks are made in several operations, in different
  orders and with parts of them skipped when a cache is warm. Whatever the order of
  the calls, the answers must agree, an expected type must hold for what is
  answered, and nothing invalid may be kept.
* **Types and values.** Types are compared twice, by the checker's type and by the
  value; depths are counted in three ways. What was answered must be usable again.
* **Batches.** No request lost, repeated or reordered by splitting; the merge must
  undo the factoring; limits and deadlines must mean the same on both sides, while
  the runtime may be replaced under the SDK.
* **Dart worker and handle.** Every call answered once through replies, errors,
  exits and restarts; one worker at a time; `initialize` and `dispose` overlapping
  each other and the calls of a handle.

## Modules

| module | models | with |
|---|---|---|
| `LruCache` | the program cache | `entries` (map and element values), `order` (list, most recent first); `Hit`/`Miss` are `Get`, `Replace`/`Insert` are `Put` |
| `LruRecency` | what the cache promises | extends `LruCache` with a clock, each key's last use and last value |
| `CompileFlight` | `getOrCompile` and `compileFlight.Do` over `LruCache` | `flights` (table), `outcome` (the calls), and per caller `pc`, `key`, `call`, `result`; the history `panicked` |
| `ProgramService` | what `getOrCompile` promises | `asked`, `answer`, `busy`, `kept`; implemented by `CompileFlight` |
| `MCCompileFlight` | instances of `CompileFlight` | |
| `WaitGroup` | `sync.WaitGroup` (external) | state word and semaphore, one operator per atomic access |
| `Lifecycle` | `begin`, `end`, `Close` over `WaitGroup` | `closed`, `cleared`, and where each operation and closer is |
| `RuntimeGate` | what those three promise | `phase`, `running`; implemented by `Lifecycle` |
| `Bridge` | the process bridge and the prepared stores | `current`, and per runtime `phase`, `items`, `next`; per client and admin where it is |
| `MCBridge` | symmetry for `Bridge` | |
| `Trees` | what types, values and JSON have in common | operators: `Level`, `Deeper`, `Nodes` |
| `ResultTypes` | declared and expected types, `celtype` | operators: `Declarable`, `Expectable`, `FromCEL`, `Compatible`, `MatchesValue` |
| `ValueCodec` | `protocol/value.go`; receiving in `cel_value.dart` and tagging in `encoder.dart` | operators: `DecodeVariables`, `EncodeValue`, `Receivable`, `SentText`, `Tag` |
| `Operations` | `Validate`, `Evaluate`, `EvaluateMany`, `Prepare`, `EvaluateProgram`, over the two above | `input`, `cached`, `prepared`, `answers` |
| `MCOperations` | the inputs for `Operations` | |
| `Limits` | `limits.go` | operators: `ParseCreateOptions`, `Apply`, `Public` |
| `RequestBatches` | `evaluateRequests` of an SDK and `EvaluateRequests` of the runtime, over `Limits` | SDK: `batches`, `results`, `call`, `failure`; runtime: `served`; and `clock`, `runtimes`, `programs` |
| `MCRequestBatches` | limits and lists for `RequestBatches` | |
| `NativeWorker` | the Dart worker client, its isolates, the native runtime they share | `started`, `starting`, `worker`, `waiting`, `pending`, `nextId`; per isolate `phase`, `inbox`, `serving`; `mail`; `native` |
| `DartRuntime` | `CelRuntime` over `NativeWorker` | `calls`, `initialization`, `needsCreate`, `disposed` |
| `*_proofs` | theorems | |

In Go, one critical section of a mutex, or one access to an atomic variable, is a
step together with the work around it that nobody else can see. In Dart, a step is
one event of the main isolate's loop with every microtask it schedules.

**CompileFlight.** A caller goes `idle` → (`AskHit` back to `idle`, or `AskMiss`)
→ `join` → `wait`, or `recheck` → `compile` → `publish` → `forget`. `outcome[x]`
is `call.program`/`call.fail`, `Nothing` until `call.done` is closed, so
`Receive` is a read from the closed channel. Calls come from a pool of
`Callers + 1`, and a call that neither the table nor a goroutine points to goes
back to it, as the garbage collector would have it. `CompilePanics` leaves `Do`
without any clean-up, because the code has no `defer` there. What cel-go makes of
a key is a constant function `Compiled`; `Panicking` is the set of keys whose
compilation may panic instead. The history variable `panicked` holds the calls whose
leader did: a waiter is excused by that of its own call, not by its key
(`WaitersHaveALeader`). That the cache's list and map agree is checked and proved of
`LruCache`; every access is one locked step, so the flight adds nothing to it.

**Lifecycle.** `Add`, `Done` and `Wait` are taken apart into their atomic accesses
because the code's own discipline allows an `Add` during a `Wait`. The history
variable `raced` records that some operation stood between its first check and
its `Add` when `closed` was set.

**Bridge.** A runtime's begin, end and Close are `RuntimeGate`'s steps, which
`Lifecycle` is proved to implement. What `Lifecycle` shows of a raced `Close` is
kept: its drain may panic (`DrainPanics`), and nothing obliges it to end. Every
prepare makes a program of its own, named by its runtime and its number there, so
that taking one for another shows. The history `issued` is the id each prepare
was answered with; clients use only such ids. Operations that use no id leave the
bridge's state alone, as a rejected prepare does (`Reject`).

**Trees, ResultTypes, ValueCodec.** The Go functions on types, values and JSON recurse.
Here all three are trees, a field `parts` giving what lies directly below, and a Go
function is a recursive function on the nodes of its argument, `f[u \in Nodes(t)]`, or,
where it only looks for something, a quantifier over `Nodes(t)` or a `Level`. `MaxNesting`
is how deep `encoding/json` decodes at all (10 000 levels): the one bound that the code
has for expected types.

**Operations.** An operation is a list of steps, in the order in which its code
makes its checks, each with the code it fails with; `Answer` gives the first
failure, or the result. `GetOrCompile` and `EnvFor` pass when their cache is warm,
`CheckContract` parses and checks afresh as `prepareEvaluation` does. cel-go is a
table over nine sources: one variable, a list of lists of it, `dyn` and `type` of it, an
empty map, a division by zero, an undeclared name, a syntax error, and a source that is
too long. A declared or expected type is any shape the JSON may have, well formed or
not. Variables are JSON trees, with leaves that are spelt as they would be. `Reading` is
the table of what a text parses to in the runtime and is written as, and `SdkText` that of
what a `CelValue` parses and writes again. The two differ: a Dart `DateTime` has no
nanoseconds, a double `1` becomes `1.0`, a duration of whole seconds loses its fraction.
`Echo` is a client that sends the value it was answered as a variable of another request;
it comes back as `ReadBack` of the value, each scalar read by the runtime from the text
that the SDK has for it. The Rust SDK keeps each text, which is the table that maps every
text to itself.

**RequestBatches.** One call of `evaluateRequests`: `Encode` validates and splits it
(`Split` grows each batch while it `Fits`), `Send` factors a batch and gives it what is
left of the deadline, `Receive` is the decoding on the runtime's side, `AnswerNext` one
round of its loop, `Reply` the size check of the output and the SDK appending the
results. Lengths are computed as the code computes them. `ObjectBytes` is the length of the JSON,
with each name as the SDK writes it (`KeyBytes`); `MergedSize` charges each name as
`json.Marshal` writes it (`MarshaledBytes`), which escapes other characters. Values are
shared when they are `JsonEquivalent`, that is of one `EqualityClass`: `0.0` and `-0.0`
are. `FoundBefore` and `FoundAfter` are what is wrong with a source, found before or
after the variables are decoded when it is evaluated alone (`Alone`); a batch decodes the
variables first (`AnswerOf`). A request's `expectedResultType` is left to `Operations`. A
result is the pair of the source and the variables it was given, so any confusion of
variables shows.
`NewDeadline` multiplies in a signed integer below `DurationLimit`. Meanwhile the clock ticks, somebody
releases a program, and somebody creates a runtime with other limits. The Dart code is
the one translated; `evaluate_requests` and `encode_request_batches` of the Rust SDK are
the same algorithm.

**NativeWorker and DartRuntime.** An `await` on a completed future does not return to
the event loop, so a call that finds the worker up is registered and sent in the event
that makes it; one that does not waits, and all that wait resume in order when
`_start` ends (`StartSucceeds`, `StartFails`). Messages to an isolate are served in
order; messages to the main isolate are heard only if they come to the ports of the
worker the client still has (`Unheard`). `_reset` kills an isolate at once, or, in a
native call, when that call has ended, which it does with its effect on the native
runtime. `DartRuntime` adds the callers: `initialize` (a create if one is needed or
asked for, then `runtimeInfo`), `evaluate` for every operation that is one request, an
`evaluateRequests` of two batches, and `dispose`. A call names the handle it was made
on; the second batch of a list is sent without a look at whether its handle was
disposed, as in the code.

## Runs

| run | instance | distinct states | shows |
|---|---|---|---|
| `LruRecency.cfg` | 4 keys, 2 values, room for 2, 5 uses | 4 361 | list and map agree, the most recent keys are kept, hits return the latest value |
| `MCCompileFlight.cfg` | 3 callers, 3 keys (one never compiles, one may panic), room for 1 | 153 369 | all safety properties of the flight; `ServiceSpec`; calls for keys that do not panic return |
| `MCCompileFlightPanic.cfg` | 2 callers, 2 keys | violated | finding 1 |
| `Lifecycle.cfg` | 3 operations, 2 closers | 14 727 | drain before clear, misuse only in the race, `Close` returns otherwise; `GateSpec` |
| `LifecycleClose.cfg` | the same | violated | finding 2 |
| `MCBridge.cfg` | 2 clients, 2 admins, 2 runtimes, 2 ids each, room for 1 | 602 633 | no runtime is left open or refilled; ids name their programs |
| `BridgeLive.cfg` | 1 client, 2 admins, 2 runtimes | 13 471 | disposed runtimes are cleared |
| `BridgeIds.cfg` | 2 clients, 1 admin, 2 runtimes | violated | finding 3 |
| `MCOperations.cfg` | 5 427 inputs, each operation once in any order | 192 404 | `Validate`, `Evaluate`, `EvaluateMany` and prepared programs agree; expected types hold; results sent back keep their shape, and their scalars as far as the SDK's texts do |
| `MCRequestBatches.cfg` | 117 lists of up to 3 requests, 3 option sets, 3 deadlines, 2 runtimes, 2 ms | 568 624 | results match requests; answers are those a request could get alone; split batches are accepted; the deadline is one and final |
| `BatchesOversized.cfg` | the same, no deadline, one runtime | violated | finding 4 |
| `DartRuntime.cfg` | 4 calls, 2 pending, 3 isolates | 89 754 | every call returns; one worker; disposing cuts off only what it may |

Why the bounds are enough. With room for one program in the cache, two keys that
compile evict each other on every `Put`; three callers are a leader, a waiter and
one that comes between publishing and forgetting, and a fourth would stand where
one of these does. In `Lifecycle` two operations race at the two checks while a
third keeps the counter up, and the second closer finds `closed` set. In `Bridge`
one admin creates while the other closes or creates; with two ids and room for one
the second id is only issued after a release. In `Operations` every depth limit but
`MaxNesting` lies below the deepest type or value of the inputs; `MaxNesting` is 16, out of
their reach, as 10 000 is in the code. The timestamps of the inputs are one with
nanoseconds and two whose offset moves them to the years 10000 and -1, alone and nested.
In `RequestBatches` three requests make
one, two or three batches, with and without something in common; the profiles are so
small that each limit is met and passed by one; the names of variables include one that
only `json.Marshal` escapes and one that only the SDK does; sources and variables fail
alone and together; and the largest deadline overflows its
multiplication while the others do not. In `DartRuntime` four calls are enough for a
handle, two calls on it and a `dispose`, or for a dispose between two initializations,
and two pending requests to refuse a third. `MaxUses`, `MaxRuntimes` and
`MaxIds` bound counters that grow without limit in the code; they appear only in
the guards of `Use`, `Replace` and `Fetch` (`WithinIdBound`). So do `MaxRuntimes` and
`MaxTime` of `RequestBatches` (`Create`, `Tick`), `MaxCalls` of `DartRuntime` (`Make`)
and `MaxWorkers` of `NativeWorker` (a start that finds no isolate left fails). A larger
`DartRuntime`, 5 calls with 2 isolates, passes as well (516 680 states, four minutes).

Deadlock checking is off where a behaviour may legitimately stop: when a panicked
flight blocks all callers, in `Bridge` when the bounds are used up, and in `Operations`,
`RequestBatches` and `DartRuntime` when every call has been made and answered.

Fairness. Go's scheduler runs every runnable goroutine, and a mutex is not kept
from a waiter for ever (it hands over after 1 ms of starvation), so each goroutine
inside a call has weak fairness on its own next step. Nothing obliges a host to
call: `AskHit`, `AskMiss`, `Start`, `Refuse`, `Fetch`, `CloseFirst`, `CloseAgain`,
`Replace` and `FetchToClose` have none. Fairness on `compile` and on `Work` says
that a compilation and an evaluation end; the compiler's input is finite, and
evaluation has a cost limit. In `DartRuntime`, `Isolate.spawn` ends one way or the other
(`Started \/ NotStarted`), an isolate goes on with its messages (`Isolate(w)`), and the
main isolate's loop delivers what has arrived (`Deliver`); nothing obliges anybody to
call, or a worker to die.

Two liveness properties rest on bodies of operations that end, which finding 1 shows not
to be so for every one: a caller blocked on the call of a panicked compilation never
leaves its operation. `CloseReturnsUnlessRaced` takes `Work` as ending, so it says nothing
of a `Close` that waits for such a caller; and `EveryCallReturns` of `DartRuntime` takes
every native call as ending, so it says nothing of an isolate that is in one. `Operations` and `RequestBatches` have safety properties only.

## Findings

1. **A panicking compilation blocks its key for ever** (`flight.go:41`,
   `EveryCallReturns`). `Do` publishes and forgets a call without `defer`. When the
   compilation panics, the operation is answered `internal_error`, and the dead call
   stays in the table: the next caller of the key waits for a channel nobody will
   close. It never leaves `begin`…`end` either, so `Close` cannot drain. The damage
   is confined to that key (`UnaffectedCallsReturn`).
2. **`Close` racing `begin` misuses the WaitGroup** (`runtime.go:55`, `CloseReturns`).
   An operation past its first check calls `Add` while `Close` is in `Wait`. `Add`
   may panic with its increment kept and `end` not yet deferred; then `Close` never
   returns. It cannot go wrong in any other way: `MisuseOnlyWhenRaced` is proved.
   The store is cleared only when empty of operations all the same
   (`DrainedBeforeClear`, proved).
3. **Ids restart with each runtime** (`prepared.go:48`, `OnlyOwnIds`). After
   `Create`, an id of the old runtime is not unknown, as `protocol/README.md:84`
   has it: it evaluates whatever the new runtime prepared under that number.

4. **Oversized shared variables fail the whole call** (`requests.go:148`,
   `OversizedStaysItsOwn`). `docs/migration-0.7.md:45` promises `variables_too_large` on
   the one result. What a batch has in common is measured before any request is, and a
   batch of one request has everything in common, so the call throws. That is the run's
   trace, a list of one request. In a longer one the answers of the batches before it go
   with the exception (`cel_runtime.dart:216`), which the trace does not need to show.

## Observations

Behaviour that the models show and no document contradicts, or only loosely:

* A tagged list takes two JSON levels and a tagged map three, so of the 32 levels that
  `protocol/README.md` and `docs/dart.md` speak of, lists get 15 and maps 10 when an SDK
  sends them back (`EchoKeepsValue` states the exact bound). The depth check in
  `decodeInput` is never reached, since `decodeJSON` has made it before.
* A timestamp that a Dart client received and sends back has lost its nanoseconds. One
  whose offset moves it to the year 10000 or -1 is answered by the runtime in a text that
  the runtime refuses when it comes back. Both are part of what `EchoKeepsValue` states.
* Values are shared when `_jsonEquivalent` (`encoder.dart:185`) says so, and numbers of one
  type are compared by `==`: a request with `-0.0` behind one with `0.0` is evaluated with
  `0.0`, and `1.0 / x` is the other infinity. Rust shares them too (`runtime.rs:395`).
  `docs/migration-0.7.md:19` compares "by JSON value", which leaves room for it.
  `AnsweredAsAlone` allows an equal value from the same list and nothing else.
* A batch decodes a request's variables before it looks at its source, environment,
  type or program; `Evaluate` and `EvaluateProgram` do it after. With two faults a request
  gets another code in a batch than alone, always one of its own (`AnsweredAsAlone`).
* A name with `<`, `>`, `&` or U+2028/2029 is charged in its escaped form when variables
  are merged, so a request near the limit may be `variables_too_large` in a batch only.
* Variables that are, as a whole, a tagged value panic in `DecodeVariables` and are
  answered with `internal_error`.
* Undecodable shared variables, or an output that is too large, fail a whole batch and
  with it the call, like finding 4.
* A `deadlineMs` above about 9.2 * 10^12 wraps in `NewDeadline`.
* An `initialize` that overlaps a `dispose` that is not awaited fails: its create is
  queued behind the close, whose answer ends the worker. A retry succeeds.
* A `dispose` during an `evaluateRequests` may cut it between two batches.
* A create that a killed worker is still in ends after the next handle has initialized,
  and replaces that handle's runtime.
* A `dispose` that is refused for backpressure leaves everything running, and cannot be
  repeated on the same handle.

## Proofs

All theorems hold for every value of the constants, under the named assumptions:

* `CacheAssumption`: `Absent` is no value, the capacity is an integer (below 1 it
  disables the cache, as in the code).
* `FlightAssumption`: the markers are distinct from each other and from the values,
  `Compiled` is a function into programs and `CompileError`.
* `LifecycleAssumption`, `BridgeAssumption`: finitely many operations and clients, since
  the code counts the one and bounds the ids by what the other still ask for; `Absent` is
  no program.
* `WorkerAssumption`, `CallsAssumption`: the bounds are positive.
* `NestingAssumption`, `TypesAssumption`, `CodecAssumption`: the depth limits are natural
  numbers, and those of declared types and of values are below the decoder's; the SDK
  admits values as deep as the variables the runtime takes; an `int` or a `uint`, the
  keys of maps among them, keeps its text on both sides, and nothing is assumed of the
  texts of other kinds; `list`, `map` and `dyn` are not among the scalars, nor do
  kinds and the markers coincide.
* `InputsAssumption`: a client's input is a type and a JSON document of whatever shape,
  one of the sources, a flag for the clock, and the place where its type is given. The
  expected type is unrestricted, but "no type" is not the type `dyn`.
* `LimitsAssumption`, `BatchAssumption`: every profile has positive limits; overrides are
  integers of the three fields that may be overridden; lists are sequences of requests
  whose variables are finitely many and have sizes; deadlines are not negative
  (`_validateDeadline`); lengths are natural numbers; nothing that is wrong with a
  source is called `deadline_exceeded`; `Blank` is none of the numbers or codes it stands
  beside.

The modules:

* **`LruCache_proofs`.** `CacheInv == CacheTypeOK /\ ListMatchesMap` is inductive.
  `MoveToFrontPermutes` and `PushFrontEvicts` say what the list operations do to the
  set of listed keys and to the absence of duplicates; `HitKeepsInv`, `PutKeepsInv`
  and the rest carry that to the cache's steps, and are cited again by
  `CompileFlight_proofs` and `LruRecency_proofs`.
* **`LruRecency_proofs`.** The code never looks at a clock; that its list is the order of
  last use is the invariant `LatestUsedFirst`. `FullOnceEvicting` says that a cache
  which has dropped a key has been full ever since, so that it keeps as many of the
  keys used last as fit.
* **`CompileFlight_proofs`.** None of the flight's invariants is inductive alone.
  `FlightInv` adds what the argument really rests on: the call in the table under a
  key belongs to a leader of that key that has not forgotten it, or is itself in
  `panicked`; leaders of one key are registered and hence one; a caller between
  recheck and store has its key uncached (nobody else may store it); published
  outcomes are what the key compiles to; a call with a waiter is not free. One lemma
  per action shows that it is kept, then the properties follow, and
  `FlightRefinesService` maps each step to a step of `ProgramService` or to none.
* **`Lifecycle_proofs`.** `DrainInv` relates the counter to the operations that hold
  a count and to where the closer is, well enough to survive panics: a closer about
  to clear implies that nobody is inside. `RaceInv` says that without the race the
  counter is exactly the number of counted operations and no `Add` meets a waiter.
  `LifecycleIsAGate` uses the first to show the refinement.
* **`Bridge_proofs`.** `BridgeInv` adds to the properties that ids are counted and asked
  for only when issued, that a held program is named by its runtime and number, that
  the current runtime is the newest, and that a runtime is drained by the closer that
  shut it and by nobody else. `EachRuntimeIsAGate` composes: every runtime of the bridge
  goes through `RuntimeGate`, which `Lifecycle` implements, so the bridge takes nothing
  for granted that begin, end and `Close` do not give.
* **`DartRuntime_proofs`.** `OneWorker` rests on two facts about the client. Its future
  is set exactly while a start is under way or a worker is held, and never both
  (`ClientInv`), so a start finds no worker. And mail comes from isolates only
  (`MailInv`), so that a message heard comes from a worker that is held, and the reset
  it may cause forgets no start. `WorkerInv` adds the phases of the isolates.
  What a call may count on rests on an order that no variable
  holds: ids grow, an isolate serves its inbox from the front, its answers are heard in
  the order it sent them, so requests are answered as they were made (`LinesInv`). From
  that, `CallInv`: what each call is waiting for, which `initialize` the handles stand
  on, what a `dispose` has left. And from both, `RuntimeInv`: a runtime created for an
  open handle is open with no close on its way, a close is sent before the create that
  follows it, the rest of a list is all that a `dispose` overtakes, and what a killed
  isolate still finishes is not a close.
* **`RequestBatches_proofs`.** `BatchInv` says that the results, the batch under way and
  `SplitFrom` of the rest are the list in order. `Split` is a recursive function:
  `SplitExists` shows that it has a solution, `SplitStep` that a batch off its front
  fits. `MergedSizeIsExact` says that what is charged is the size of the merged
  variables with `json.Marshal`'s names; `EnvelopeFacts` that merging gives each request
  back its variables, or values equal to them from the first request of its batch; and
  `AnsweredTheSame` that a batch's order of checks leads to the answer of the request
  alone or to another of its faults. From these `AnswerInv`. `TimeInv` carries what was left of the deadline to the runtime, and
  `UntilFacts` what that says of the call's own clock, wrapped or not; `FinalInv` says
  that nothing is sent once something came too late. `FittingIsAccepted` is the
  agreement of the two sides about sizes and ids. The library's sums and its induction
  over the natural numbers take operators, so the module proves both for sets and
  functions from the least element of a set (`EveryNatural`, `SumUnion`).

* **`Operations_proofs`.** The inductive invariant `IInv` says that each answer is what its
  operation would have answered on cold caches (`AnswersKnown`): with `TypeOK`, a step
  that a cache spares would have passed. What is left are facts about functions of the
  input, and these are about trees. `NodesWithin`, `BelowInduction` and their kin give
  induction over the nodes of a tree, from the least number in a set, since no tree that
  JSON can hold is deeper than `MaxNesting`; each recursive function is shown to have a
  solution before its equation is used (`FromCELIs`, `AssignableIs`, `MatchesValueIs`,
  `DecodeInputUnfolds`, `TagIs`). On these rest the facts that the properties need:
  what decodes is a well-formed value no deeper than its JSON (`Decodes`);
  `MatchesValue` is inhabitation of a type in every place, for keys by their kind
  (`MatchesInhabit`, `InhabitantsMatch`); what inhabits a type inhabits any other it is
  assignable to (`AssignableMatches`); and tagged JSON is as deep as `Fits` counts and
  decodes to `ReadBack` of the value it was made of, or not at all when a text in it is
  not read (`TagDepth`, `TagDecodes`). That keys come back distinct (`KeysComeBack`) is
  what `CodecAssumption` says of the integers.

Only model-checked is liveness: `UnaffectedCallsReturn`, `CloseReturnsUnlessRaced`,
`DisposedIsCleared` and `EveryCallReturns`, which the prover does not do under fairness.
Every safety property that a passing run checks, invariants and refinements alike, is
the statement of a theorem.

## Not modelled

The C and WebAssembly exports, which add no state; the call dispatcher; the Dart web and
Flutter backends, which are JavaScript and platform glue; the SDKs' value
types beyond the texts of a `CelValue`; the build-time download of artifacts, which is file and network I/O. Of the modelled parts:
JSON syntax and the texts of numbers, timestamps, durations and bytes, identifiers and
containers of an environment, the lists of issues, cost limits, the item limit of
collections, and counters that are statistics. The Rust handle's single calls do what
the operations do. A compilation is atomic apart from taking time: what cel-go does in
it is outside the repository.

## Plan

What could be added, in this order:

1. `WebLoader`: the Wasm loader's polling, its shared future and its retry.
2. `CompileFlight` and `Lifecycle` in one module: that a drain ends when the
   compilations it waits for do.
3. The environment decoder's identifiers and containers, which would let `Operations`
   declare more than one variable.

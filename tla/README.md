# TLA+ models of grpc-php-rs

grpc-php-rs is a PHP extension in Rust that offers the classes of ext-grpc on
top of tonic and tokio. The models in this directory cover what is hard to test:
a `Grpc\Call` driven by batches from PHP, the tokio task that drives its stream,
and the races of both with the server, the deadline and cancellation; and around
it the channels with their shared transports and connectivity state, credentials
plugins, deadlines, metadata, the runtime, restarting servers and module startup.

## The system

| Part | Source | State | Operations |
|---|---|---|---|
| Call | `src/src/call.rs` | flags of the call, buffered send data, `ActiveStream`, cancellation token | `startBatch`, `cancel`, `setCredentials`, `getPeer`, destruction |
| Stream driver | `src/src/call.rs`, the tasks spawned by `start_server_stream` and `start_bidi_stream` | its position, four channels to the call | `ready()`, the request, the `select!` loop, sentinel and trailers |
| Channel | `src/src/channel.rs` | per-thread registry, shared transport, connectivity state, closed flag | construction, `getConnectivityState` with its probe, `watchConnectivityState`, `close` |
| Credentials | `src/src/credentials.rs` | default roots, plugin callables, ids | creation and composition |
| Timeval | `src/src/timeval.rs` | microseconds, span or absolute | saturating arithmetic, comparison, `sleepUntil` |
| Runtime | `src/src/runtime.rs` | mode, one runtime per thread or one for the process | `get_runtime`, `pump` |
| Metadata | `src/src/call.rs` | none | parsing of PHP arrays, headers of a request, headers and trailers to PHP |
| Binding | `src/src/lib.rs`, `src/src/compat.rs` | registered constants and classes, return types of methods | module startup, the first request startup |
| Errors, codec | `error.rs`, `codec.rs` | none | conversions |

How they interact: PHP builds a Channel (which finds or creates a shared
transport), makes a Call from it with a deadline from a Timeval, and passes
batches of up to six operations to `startBatch`. A batch runs a unary call
(`execute_call`), starts a stream, forwards to one, or reads from one. A stream is
driven by a task that hands messages to PHP through a bounded queue, the headers
and the final status through oneshots. Outcomes of calls are written to the
channel's connectivity state.

Where it is hard:

* the task runs ahead of PHP and parks on the full queue, PHP parks on the queue,
  on the oneshots, or on the full request queue;
* with the default runtime the task runs only while PHP is inside `block_on`; with
  `GRPC_PHP_RS_RUNTIME=multi-thread` it runs at any time;
* the deadline races connecting, the headers, every message, and a late answer;
  tonic reports its own timeout as CANCELLED;
* PHP may send its operations in any split and order, repeat them, go on after an
  exception, cancel, close the channel, or free the object;
* plugin callbacks may throw after the call's flags were already changed, and may
  themselves make calls while the lock of their credentials is held;
* channel objects come and go while the transports they share live on in a
  registry, and probes, calls and streams write one connectivity state;
* the server may restart while PHP is idle and nobody watches the connection;
* a call reads the clock several times, and the readings have to agree.

`PROJECT.json` lists the hazards line by line.

## Modules

* `StreamDriver.tla` - the driver task and its channels. `driver` is the await
  the task is at: `ready`, `response` (headers), `message` (the `select!` loop),
  `send` (a message, the queue may be full), `end` (the sentinel), `trailers`,
  `done`. `msgs` is the response queue: positive entries are the server's messages
  numbered in order, `End` is `Ok(None)`, `Err` is `Err(status)`. `meta` and
  `trailers` are the oneshots ("dropped": the sender went away), `reqs` counts the
  request queue. `verdict` is the status the task decided on. Answers of the
  transport are free choices (`TransportStep`); `DriverStep` is what the task does
  on its own. The two drivers of the source differ only in the request queue, which
  a server stream does not have (`req_rx = FALSE`).
* `GrpcCall.tla` (EXTENDS `StreamDriver`) - the call and the PHP thread. `pc` is
  `idle` (PHP code runs), an await of a batch (`ready` and `unary` in
  `execute_call`; `send`, `metadata`, `message`, `status`, `drain`, `await` on a
  stream), or `freed`. `startBatch` up to its first await is one step:
  `BatchRefused` and `BatchEmpty` are its early returns, `StreamBatch`,
  `StartBidiStream`, `BufferSend`, `RecvPluginFails`, `StartServerStream` and
  `ExecuteCall` the branches of `dispatch_batch`. The remaining actions are the
  awaits, the other methods and the destruction of the object. `reply` is what the
  last `startBatch` returned or threw. `dispatched`, `userMetadata`, `got` and
  `sawNull` are history.
* `CallContract.tla` - the abstract call: requests, messages produced, messages
  delivered, the end, the status, and nothing else. `GrpcCallContract.tla`
  (EXTENDS `GrpcCall`) has the refinement mapping; `KeepsContract` says that
  `GrpcCall` implements it.
* `ChannelRegistry.tla` - the Channel objects of one thread (`conf`, `shared`,
  `inner`), the registry of transports and the persistence key. `Construct` is the
  whole of `__construct`: `Rejected`, `Reuse`, `BuildFails` and `Build` are its
  outcomes in the order of the code.
* `Channel.tla` (EXTENDS `ChannelRegistry`) - the same objects in use. `state` is
  `SharedChannel.state`, `probes` and `streams` count the tasks in flight on a
  transport. `pc` is where the PHP thread is: `pump` and `connect` in
  `getConnectivityState` (before the state is read, before it is written), `watch`
  and `sleep` in the loop of `watchConnectivityState`, `unary` and `start` in calls.
  `Driven` says when tasks run: with the constant `Mode` = "current-thread" only in
  `block_on`, else always.
* `Timeval.tla` - the class as operators on integers of a small width, scripts that
  compute with it, and a unary call that uses one as its deadline. The call's
  readings of the clock are separate steps (`CreateCall`, `Dispatch`, `SetTimeout`,
  `SetInstant`, and `TimeoutFires`, where `status_to_php` reads it again) and time
  may pass between them.
* `Runtime.tla` - `get_runtime` on several threads, one step per access to `MODE`,
  `MULTI` or `LOCAL`, with failing builds and `putenv`.
* `Connection.tla` - server incarnations, the connection the transport holds, and
  the steps of a unary call: `pump`, connecting, the request, the answer.
* `Credentials.tla` - credentials objects, the default roots and the plugin mutexes.
  `stack` holds the calls being made; while its callback runs, a call may have
  another one above it.
* `Metadata.tla` - the metadata of one call, one round of a loop per step. `pc` is
  the loop that runs: `parse` (`ParseEntry`: `parse_send_metadata`), `plugin`
  (`PluginEntry`: `parse_metadata`), `apply` (`ApplyPair`: the two loops of
  `execute_call` and `build_request` that insert headers) and `collect`
  (`CollectNext`: `collect_metadata`, which goes through a map in an order of the
  map's own). A PHP array is the sequence of what the nested loops over it visit,
  `[key, shape, item]`; a header map is a function from keys to lists of values.
* `Binding.tla` (EXTENDS `Runtime`) - the process: module startup, the patch of
  return types by the first request startup of several threads, and requests, in
  which the threads take the steps of `Runtime`.
* `MCGrpcCall.tla`, `MCRegistry.tla`, `MCChannel.tla`, `MCMetadata.tla` - the sets
  of batches, configurations, arrays and header maps for TLC.
* `GrpcCallTypes.tla`, `GrpcCallSteps.tla` and `GrpcCallProofs.tla` (the call and
  its task), `MetadataProofs.tla`, `ChannelProofs.tla` (`Channel` and `Connection`),
  `TimevalProofs.tla`, `ProcessProofs.tla` (`Runtime` and `Binding`) and
  `CredentialsProofs.tla` - the proofs.

Definitions commented "Mutant of ..." are plausible bugs. No specification uses
them; each one, put in place of the definition it names, breaks the property that
`PROJECT.json` lists with it, which shows that the property depends on that code.

### Abstractions

* A batch is the set of its operations; `parse_ops` turns an array into such a set
  or rejects it (`Malformed`). Message bytes are left out. Of the metadata only
  whether the user's metadata goes along is kept. `pending_message` is left out:
  a request always has a message, possibly the empty one.
* The deadline is "none", "pending" or "passed". `deadline_usec` at or below zero
  counts as none, as in the code.
* tonic's statuses are CANCELLED, UNKNOWN "transport error" (`TRANSPORT`),
  UNAVAILABLE and any other (`APP`): the ones `status_to_php` and the state updates
  tell apart. `TERMINATED` and `CONSUMED` are the two UNKNOWN statuses the
  extension makes up.
* Not actions: the `cancelled()` arm of `execute_call`, which cannot fire because
  the only thread that could call `cancel` is inside `execute_call` and a cancelled
  call is refused before; a failure of `get_runtime`; `pump`, which has no effect on
  a model with one call (`Channel` and `Connection` have it). `trailers().await`
  after the end of the body completes without I/O and belongs to `SendTrailers`.
* A channel's arguments are a set of key, type and text. Texts with the separators
  of the key in them are left out. The endpoint's builder fails for bad targets;
  its other failures look the same to every property.
* `Channel` has no message size limits, and of a call only that it runs, that its
  outcome is written to the state, and that an expired one writes nothing. Calls
  themselves are `GrpcCall`, which has one channel with one `state`.
* `Timeval` counts in ticks; `Clamp` stands for the saturating operations of i64.
  There is one clock: the wall clock does not step during a call. `compare` is the
  order of the microseconds and is left out.
* `Credentials` leaves out a callback that makes a call with the very credentials
  object it is invoked for, which hangs in `plugin.lock()`. `StartCall` and
  `CompositeCall` state this discipline as guards.
* A metadata value is a name for a class of strings: good ones, `raw` (not UTF-8),
  `ctl` (control bytes), `other` (not a string), and in answers `bad` (undecodable).
  Arrays given are visited in any order of their keys; of the array PHP gets, the
  order of keys is left out, the order of values is not. tonic makes a Status only of
  trailers whose first rich status can be decoded, and a Status holds that one alone,
  if it is not empty.

## Runs

| Run | Checks | Instance |
|---|---|---|
| `stream` | `TypeOK`, `IndInv`, `InOrder`, `NullMeansAll`, `TruthfulStatus`, `HonestDeadline`, `NoReRun`, `KeepsContract` | response buffer 2, four messages, request buffer 1, one request, pending deadline, batches as the PHP library sends them for all kinds of streams |
| `batches` | `FinishedMeansOver`, `NeverConsumed`, `UserMetadataOnce`, `ExpiredIsLocal` | four ways to send with five ways to receive, and a malformed batch; up to two requests; valid and invalid paths, a plugin that may fail, a deadline to come and one in the past |
| `waits` | `NoMutualWait`, `DeadlineBoundsReceive`, `ReceiveReturns`, `FreedStops` under `FairSpec` | buffer 1, two messages, no deadline and a pending one |
| `sharing` | `RegistryInv`, `SharingIsKey`, `RegistryOnlyGrows` | three objects, three transports |
| `channel` | `ProbeInv`, `ConnectingHasProbe`, `ConnectingFromIdle`, `WatchReturns` under `FairSpec` | current-thread, two objects, two transports, a stream on each |
| `timeval` | `TimersInv`, `TimeoutIsDeadline`, `NeverEarly`, `SpanIsFromNow`, `ArithmeticSaturates` | integers from -8 to 7, the clock up to 5 |
| `process` | `RuntimeInv`, `OneRuntime`, `GotIsLive`, `RequestsSeePatch`, `RequestsStart` | three threads, three runtimes |
| `restart` | `RestartIsTransparent`, `OnlyRetryable` | four incarnations of the server |
| `credentials` | `NeverStuck`, `LockedWhileRunning`, `IdsTellApart` | three credentials of each kind, three nested calls |
| `metadata` | `RequestIsLastGiven`, `PhpSeesAnswer` | arrays of up to two keys with up to two values, header maps of up to four keys with up to three values |

All of them pass, with deadlock checking on except in `metadata` and `timeval`,
whose one call ends, and `process`, where a failed startup stops. The runs of calls
say: messages reach PHP in order and complete; a null message is the end; the status is the
driver's, comes once, and ends the call; nothing runs after it; `DEADLINE_EXCEEDED`
is never early; metadata is not sent twice; an expired call stays local; PHP in a
receive and the task on a full buffer never wait for each other; a receive
cannot hang past the deadline or, when the server ends its streams, at all; a freed
call with a deadline does not leave its task behind for ever. `KeepsContract` puts
the safety part in one formula: all a script can observe is explained by the 60
lines of `CallContract`.

The others say: objects share a transport exactly when their keys agree, and close
and free take it from nobody; a transport has at most one probe, is CONNECTING only
while there is one, and in the default mode becomes so only from IDLE; a watch
returns; whichever of its two timers ends a call, PHP sees DEADLINE_EXCEEDED and not
early; a restart that is over when the next call pumps is not noticed, and every
other failure is one that retry policies know; nested callbacks do not hang; the
last value given for a header is sent; PHP sees the same metadata from a call that
failed as from one that did not; no request runs before the class table is patched,
and threads get one runtime each or all the same one.

`channel` is an instance of the default mode, because `ConnectingFromIdle` holds
only there. Of the other three properties the two safety ones are proved for both
modes, and all three also pass TLC with `Mode = "multi-thread"` in `Channel.cfg`.

### Bounds

* `MsgBuf` stands for `STREAM_MSG_BUFFER` = 32, `ReqBuf` for 4. What matters is a
  buffer that is empty, partly filled and full. Four messages with a buffer of two
  let the buffer fill, drain and fill again, and let a message be read after one
  that a faulty send would lose. With one entry the buffer is empty or full, which
  is what `waits` and `batches` need.
* `MaxMessages` bounds the server, `MaxDispatches` the number of requests one call
  dispatches (the fallback of `dispatch_batch` allows one per batch until the
  status is delivered). No other variable of `GrpcCall` is unbounded. The proofs
  hold for every value of these constants.
* `MaxShared` bounds the transports built. Three objects and three transports allow
  a shared pair beside a third that must not share, and a transport that outlives
  its objects and is found again. `MaxStreams` = 1 with probes and unary calls gives
  three kinds of writers of one state.
* `Max` is the largest integer of `Timeval`. Eight values on each side are enough
  for sums and differences that fit, that saturate, and that hit the infinities;
  `MaxNow` below `Max` lets deadlines lie before, at and after every reading.
* `MaxRuntimes` = 3 lets every thread build one in the race. `MaxRestarts` = 4 lets
  the server restart between two calls and again within one. `MaxDepth` = 3 is a
  callback within a callback, `MaxCreds` = 3 a composite beside its two parts.
* `UserArrays`, `PluginArrays` and `HeaderMaps` are sets of examples. Two values of a
  key, a key in two spellings and a plugin's value beside a script's let one replace
  another; three values let a bad one stand between two good ones. The proofs hold for
  any sets of arrays and maps, of any length.

### Fairness

`FairSpec` is the current-thread runtime: an await of the PHP thread that can
complete does (tokio polls woken tasks), the driver task moves only while PHP is
blocked (`Blocked`), and time passes. The transport and the server owe nothing. One
exception: the request stream is dropped once the response is over, because hyper
drops the body of a finished request. Two properties assume more, as a hypothesis
of their own: `ReceiveReturns` a server that answers and ends its streams
(`ServerEnds`), `FreedStops` worker threads that run the task at any time
(`WorkerThreads`), which is `GRPC_PHP_RS_RUNTIME=multi-thread`.

`FairSpec` of `Channel`: the watch loop runs, a pending deadline passes, and a probe
that is driven again and again ends (strong fairness: it is driven in every sleep of
the loop, and `connect_timeout` bounds the attempt). Other calls owe nothing.
`ProcessSpec` of `Binding`: a thread that can go on in its request startup does.

### Statements the code does not meet

Two runs end, as expected, with a counterexample to what a comment says:

| Run | Statement | What happens |
|---|---|---|
| `send_unbounded` (`DeadlineBoundsCall`) | "Every await on the dispatch path races against this so the deadline bounds the WHOLE call" (`call.rs:119`) | `send_stream_message` waits for room in the request queue without the deadline |
| `ready_on_failure` (`ConnectionErrorShown`) | "TRANSIENT_FAILURE on connection errors" (`call.rs:442`) | the drivers look at the raw code, so UNKNOWN "transport error" sets READY although PHP sees UNAVAILABLE |

The modules state others, which have no run of their own: TLC finds each one
violated when it is put in place of the properties of the configuration named.

| Definition, configuration | Statement | What happens |
|---|---|---|
| `NeverTerminated`, `Stream.cfg` | "Stream ended or errored - the driver is now free to deliver trailers" (`call.rs:1626`) | after a failure of `ready()` no trailers follow; a status read without a message read is UNKNOWN "stream task terminated unexpectedly". With a lazily connected channel `ready()` rarely fails by itself |
| `ReadyMeansAnswered`, `Batches.cfg` | "READY on responses" (`call.rs:442`) | a deadline that passes while connecting sets READY |
| `ExpiredSendAccepted`, `Batches.cfg` | "fails such calls locally as DEADLINE_EXCEEDED" (`call.rs:142`) | the first send of an expired bidi call throws |
| `SameKindShares`, `Sharing.cfg` | "the same target + args + TLS kind shares one underlying transport" (`channel.rs:141`) | the key has the id of the credentials object, so two `createSsl()` never share |
| `SharedMeansSameArgs`, `Sharing.cfg` | "keyed by target + args + credentials" (`channel.rs:31`) | the key has the text of an argument; '1000' and 1000 share a transport although only the int configures it |
| `ConnectingFromIdle`, `Channel.cfg` with `Mode = "multi-thread"` | "IDLE→CONNECTING→READY/TRANSIENT_FAILURE" (`channel.rs:321`) | an outcome between reading and writing the state is overwritten by CONNECTING |
| `SleepReaches`, `Timeval.cfg` | "Blocks until this (absolute) time has been reached." (`timeval.rs:130`) | `infFuture()` returns at once |
| `NoReturnTypes`, `Process.cfg` | "clears the `ZEND_ACC_HAS_RETURN_TYPE` flag ... on our methods" (`compat.rs:11`) | `Timeval::toAbsoluteUsec` is not in the list |

## Proofs

`GrpcCallProofs.tla` proves, for every buffer size, message bound, dispatch bound,
set of batches and kind of deadline: `Spec => []IndInv` and from it `TypeOK`,
`NullMeansAll`, `FinishedMeansOver`, `NeverConsumed`, `TruthfulStatus`,
`HonestDeadline`, `UserMetadataOnce`, `InOrder`, `NoReRun`, `ExpiredIsLocal` and
`NoMutualWait`.
The assumptions are the ones the modules state about the constants: buffers hold at
least one entry, the bounds are natural numbers, batches are sets of operations or
malformed.

The properties are not inductive by themselves. `NullMeansAll`, for example, needs
to know what is in `msgs` when PHP finds a sentinel, an error, or nothing. `IndInv`
adds:

* `Control`: where PHP can be, given the flags and the stream;
* `StatusSource`: until the status is taken it is in `cached_trailers` or still to
  come from the oneshot, and it is the driver's verdict or an expired deadline;
* `Queue`: `msgs` holds exactly the messages between the last one PHP got and the
  last one the task read; before the end only messages, after it one terminal entry
  at the end of the queue;
* `Ended`: after a null or with a cached status nothing is left;
* `BufferedMetadata`: buffered metadata was accepted and has not been used.

`GrpcCallTypes` has the facts about operators (what `status_to_php`, `Refusal` and
`Phase` return, what a send and a receive do to the queue), summaries of the actions
that start a call, type correctness, `Control` and `BufferedMetadata`. `GrpcCallSteps`
proves the other conjuncts, each one preserved by every action. `Frame` states which
actions touch what the action properties speak of. `ExpiredIsLocal` has an invariant of its
own, `ExpiredInv`, inductive relative to `IndInv`.

`NoMutualWait` is the safety part of `ReceiveReturns` and `DeadlineBoundsReceive`:
when PHP waits in a receive, somebody is there to end the wait, and that somebody does
not wait for PHP. It rests on `IndInv` and on `Promises`: past connecting and the
response the headers are filled in, a task that returned has sent or dropped its
trailers, only a stream with a task has ends of oneshots to wait on, and PHP waits for
the trailers alone only when the task has nothing left to put into the buffer. The last
clause is why the code drains the buffer first, and needs `Queue`: an end or an error
at the head of `msgs` means that the task is at its trailers. That buffers hold at least
one entry is needed too. A wait for room in the request queue (`pc = "send"`) is not a
receive; `send_unbounded` is about it.

`StepsRunOut` is the safety part of all three liveness properties of a call: `Left`, a
natural number, falls with every step that is not a call of the script, so between two
calls of the script the PHP thread, the task, the transport and the clock take boundedly
many steps, for every batch, buffer size and number of messages. `Left` counts the awaits
PHP has before it in its batch, the entries of the two queues, and what the task may still
read, send and report. It weighs an await twice and a message the server has not sent three
times, because a send takes a step from PHP and gives one to the transport, and a message
is read, queued and taken. That PHP goes through the awaits of a batch in one order
(`Staged`) is what makes the first part fall. The drain loop of `build_stream_result` and
the task that fills the queue meanwhile cannot chase each other, and the task of a freed
call runs out of steps. With it, a call can only hang by waiting; `NoMutualWait` says
for receives that such a wait is not a circle, and that whoever is waited for is scheduled
is the fairness that only TLC works with.

`ContractKept` is the refinement: `Spec => Contract!Spec`. Initial states map to
initial states; for each action there is one step that names the action of
`CallContract` it is, or shows that it leaves the mapped variables alone, from
`IndInv` before and after the step and from `Requested` (a message was read only
after a request went out), which is inductive relative to `IndInv`.

`MetadataProofs.tla`, for any arrays of the script and of the plugin and any header maps,
of any length: `RequestIsLastGiven` and `PhpSeesAnswer`. Both say what whole loops compute,
and would need induction over the data if the loops were operators; with a round per step
the induction is the one over steps, and the inductive invariant holds the loop invariants.
`SendInv`: after `n` rounds `sent` lists exactly the items visited so far, in order, as
pairs (`Selects`: an increasing map from the positions of the result onto the positions
kept), `plugged` likewise those that a lenient parser keeps, and `request` has for each
name the value of the last pair applied that tonic accepts (`LastWins`). `RecvInv`: the
map collected is the answer, or what `status_metadata_for_php` makes of its status, and
the group of a key lists the decodable ones of the values the iterator is past. From
`LastWins` at the end of the loop `RequestComplete` goes back through both selections to
the arrays as they were given: the last pair accepted comes from the last value that can be
sent, because selections keep the order and the plugin's pairs come after the script's.
`StatusMap` is why a failed call shows the same as one that succeeds: what tonic takes out
of the trailers is either a transport header, which is hidden anyway, or the rich status,
which is put back.

`ChannelProofs.tla`, for any objects, configurations and number of transports:
`RegistryInv` is inductive (`SharingIsKey` is not: it does not say that a registered
transport belongs to its key when no object uses it) and gives `SharingIsKey` and
`RegistryOnlyGrows`. `OnlyRegistryMethods` is a refinement: seen from its objects and
transports (without `result`, which other methods set as well), every behaviour of
`Channel` is one of the registry, so `RegistryInv` and `SharingIsKey` hold there too.
`ProbeInv` is inductive and gives `ConnectingHasProbe`
and `OneProbe` in both modes; it adds that an idle transport has no probe and that
none appears between the read and the write of `getConnectivityState`. With
`Mode = "current-thread"` as a hypothesis `FromIdle` proves `ConnectingFromIdle`,
because nothing is driven at `connect`.

The second part of `ChannelProofs.tla` is about `Connection`, for any number of
restarts. `ConnectionInv` adds to `RestartIsTransparent` what a call knows after its
pump: while it connects, sends or waits, a server that is down, a dead connection or,
once it has one, a connection that is gone, all mean that the server stopped since the
pump. Without it a step that fails could not tell the stop it may be excused by from an
older one. `OnlyRetryable` follows as well.

`TimevalProofs.tla`, for every width and every clock: `TimersInv` (each timer, once
set, fires no earlier than the deadline) is inductive and gives `TimeoutIsDeadline`
and `NeverEarly`; the three properties of the arithmetic (`SpanIsFromNow`,
`ArithmeticSaturates` and `SimilarIsDistance`, which is only proved) follow from the
definitions.

`ProcessProofs.tla`, for any set of threads: `RuntimeInv` (what a thread has got is
what its cell holds, and cells hold live runtimes) is inductive and gives `OneRuntime`
and `GotIsLive`. `ProcessImplements` shows that a whole process (`Binding`) implements
`Runtime`, so both hold in it (`ProcessRuntimes`). `BindingInv` describes the class
table during the first request startups: at most one thread is in the closure of
`INIT.call_once`, exactly while the `Once` is running; the methods it has been through
have no return type; a request runs only after it is done. It gives `RequestsSeePatch`,
and `WaitsForClosure`, the safety part of `RequestsStart`: a thread that waits in
`call_once` waits for another thread that is in the closure. The induction is over
steps; that the closure goes through its list entry by entry is part of the invariant
(`patched`), so no induction over the list is needed.

`CredentialsProofs.tla`, for any callables and PEM texts, any number of credentials and
any depth of nesting: `CredentialsInv` says that every plugin has a mutex of its own,
that ids are handed out once (`CredsOK`), that the calls being made use different
credentials and all but the innermost are in their callbacks (`StackOK`), and that a
mutex is locked exactly while a callback of its credentials runs (`HeldOK`). `NeverStuck`
needs all of it: the mutex the innermost call asks for is held only if a call below uses
the same credentials. It gives `LockedWhileRunning` and `IdsTellApart` too. The guards
of `StartCall` and `CompositeCall` (see Abstractions) are part of the specification and
so a premise of these theorems.

`Promises`, `BindingInv`, `WaitsForClosure`, `ConnectionInv`, `CredentialsInv`, `Staged`,
the statement of `StepsRunOut` and, with its quantifiers bounded, `MetadataInv` were also
model-checked on the instances of the runs.

Only model-checked:

* the liveness properties (`DeadlineBoundsReceive`, `ReceiveReturns`, `FreedStops`,
  `WatchReturns`, `RequestsStart`), because liveness under fairness is out of the
  prover's reach; of the waits of a call and of a request startup the safety part is
  proved, as said above (`NobodyWaitsInVain`, `StepsRunOut`, `NobodyWaitsForNothing`);
* the statements the code does not meet, which are counterexamples.

## Not modelled

* TLS, HTTP/2, tonic's buffers and hyper: external; what they may answer is a free
  choice of the models.
* The codec, which passes bytes through, and message bytes and message size limits,
  which no statement of the repository ties to the order of steps.
* Class names and texts of exceptions (`error.rs`); what throws, and when, is in the
  models.
* The arguments that tune the transport (keepalive, windows, timeouts): they are set
  once, in one straight line of builder calls.
* Steps of the wall clock during a call: deadlines are wall-clock times and timers
  are monotonic, and the code has no means to notice.
* A callback that uses its own credentials (it hangs), and a rich status that cannot
  be decoded (left to tonic).
* Order of keys in metadata arrays, which PHP code has no reason to rely on.
* One model of several calls, streams and objects in full detail. `Channel` composes
  the objects with what calls do to a transport, `GrpcCall` composes a call with its
  task; calls share nothing else.

------------------------------ MODULE GrpcCall ------------------------------
(***************************************************************************)
(* One Grpc\Call object of src/src/call.rs and the PHP thread that uses    *)
(* it.  startBatch runs up to its first await in one step; every await on  *)
(* the PHP thread (block_on) is a value of pc at which the driver task and *)
(* the transport may run.  A batch is the set of its operations.           *)
(***************************************************************************)
EXTENDS StreamDriver

CONSTANTS
  Batches,      \* the ops arrays PHP code passes to startBatch
  Plugins,      \* whether the call is made with a credentials plugin
  Paths,        \* whether its method name is a valid path
  MaxDispatches \* bound: requests one call dispatches

ASSUME MaxDispatchesAssumption == MaxDispatches \in Nat

SendOps == {"SEND_INITIAL_METADATA", "SEND_MESSAGE", "SEND_CLOSE_FROM_CLIENT"}
RecvOps == {"RECV_INITIAL_METADATA", "RECV_MESSAGE", "RECV_STATUS_ON_CLIENT"}
Ops == SendOps \cup RecvOps

\* An ops array parse_ops rejects: an unknown key or a value of a wrong type.
Malformed == {"MALFORMED"}

ASSUME BatchesAssumption == Batches \subseteq (SUBSET Ops) \cup {Malformed}
ASSUME CallAssumption == Plugins \subseteq BOOLEAN /\ Paths \subseteq BOOLEAN

VARIABLES
  pc,         \* the PHP thread: idle, at an await of a batch, or object gone
  todo,       \* operations of the current batch still to be done
  reply,      \* what the last startBatch returned or threw
  send_closed, initial_metadata_sent, finished, channel_closed,
  call_plugin,    \* a credentials plugin is attached
  pending_metadata, \* OP_SEND_INITIAL_METADATA's metadata is buffered
  path_valid,     \* the method name is a valid path
  stream_state,   \* the call has an ActiveStream, with these fields:
  msg_tx, meta_rx, cached_trailers, trailers_rx,
  dispatched,     \* history: requests dispatched
  userMetadata,   \* history: dispatched requests that carried the metadata
                  \* of OP_SEND_INITIAL_METADATA
  got,            \* history: the last stream message PHP received
  sawNull         \* history: a stream read returned null

activeStream == <<stream_state, msg_tx, meta_rx, cached_trailers, trailers_rx>>
callVars == <<pc, todo, reply, send_closed, initial_metadata_sent, finished,
              channel_closed, call_plugin, pending_metadata, path_valid, activeStream,
              dispatched, userMetadata, got, sawNull>>
vars == <<driverVars, callVars>>

Null == 0
NoMessage == -1
Answer(exception, message, status) ==
  [exception |-> exception, message |-> message, status |-> status]
NoReply == Answer(None, NoMessage, None)

Exceptions == {"RuntimeException", "CANCELLED", "InvalidArgument",
               "LogicException", "PluginFailed", "NotSendable", "SendClosed",
               "Transport"}

CallTypeOK ==
  /\ pc \in {"idle", "ready", "unary", "send", "close", "metadata", "message",
             "status", "drain", "await", "freed"}
  /\ todo \in SUBSET Ops
  /\ reply \in [exception : Exceptions \cup {None},
                message : NoMessage .. (MaxMessages + 1),
                status : Status \cup {None}]
  /\ cached_trailers \in Status \cup {None}
  /\ dispatched \in Nat /\ userMetadata \in Nat
  /\ got \in 0 .. MaxMessages

FlagsOK ==
  /\ send_closed \in BOOLEAN /\ initial_metadata_sent \in BOOLEAN
  /\ finished \in BOOLEAN /\ channel_closed \in BOOLEAN
  /\ call_plugin \in BOOLEAN /\ path_valid \in BOOLEAN
  /\ pending_metadata \in BOOLEAN
  /\ stream_state \in BOOLEAN /\ msg_tx \in BOOLEAN
  /\ meta_rx \in BOOLEAN /\ trailers_rx \in BOOLEAN
  /\ sawNull \in BOOLEAN
  /\ req_rx \in BOOLEAN /\ msg_rx \in BOOLEAN /\ cancelled \in BOOLEAN

\* __construct, on an open channel.
Init ==
  /\ DriverInit
  /\ pc = "idle" /\ todo = {} /\ reply = NoReply
  /\ send_closed = FALSE /\ initial_metadata_sent = FALSE
  /\ finished = FALSE /\ channel_closed = FALSE
  /\ call_plugin \in Plugins /\ path_valid \in Paths
  /\ pending_metadata = FALSE
  /\ stream_state = FALSE /\ msg_tx = FALSE /\ meta_rx = FALSE
  /\ trailers_rx = FALSE /\ cached_trailers = None
  /\ dispatched = 0 /\ userMetadata = 0
  /\ got = 0 /\ sawNull = FALSE

-----------------------------------------------------------------------------
(* startBatch: the checks before dispatch_batch *)

HasSend(b) == b \cap SendOps # {}
Attached(b) == "SEND_INITIAL_METADATA" \in b
HasRecv(b) == b \cap RecvOps # {}

\* Mutant of Refusal: no check of finished.
RefusalButFinished(b) ==
  IF channel_closed THEN "RuntimeException"
  ELSE IF cancelled THEN "CANCELLED"
  ELSE IF b = Malformed THEN "InvalidArgument"
  ELSE IF b = {} THEN None
  ELSE IF Attached(b) /\ initial_metadata_sent THEN "LogicException"
  ELSE None

\* What startBatch throws before it touches the call, in the order of its
\* checks; None if it goes on.
Refusal(b) ==
  IF channel_closed THEN "RuntimeException"
  ELSE IF cancelled THEN "CANCELLED"
  ELSE IF b = Malformed THEN "InvalidArgument"
  ELSE IF b = {} THEN None
  ELSE IF finished \/ (Attached(b) /\ initial_metadata_sent) THEN "LogicException"
  ELSE None

\* The batch ends here, with an exception.
Throw(e) ==
  /\ reply' = Answer(e, NoMessage, None)
  /\ pc' = "idle" /\ todo' = {}

BatchRefused(b) ==
  /\ pc = "idle"
  /\ Refusal(b) # None
  /\ Throw(Refusal(b))
  /\ UNCHANGED <<driverVars, send_closed, initial_metadata_sent, finished,
                 channel_closed, call_plugin, pending_metadata, path_valid, activeStream,
                 dispatched, userMetadata, got, sawNull>>

BatchEmpty ==
  /\ pc = "idle"
  /\ {} \in Batches /\ Refusal({}) = None
  /\ reply' = NoReply
  /\ UNCHANGED <<driverVars, pc, todo, send_closed, initial_metadata_sent, finished,
                 channel_closed, call_plugin, pending_metadata, path_valid, activeStream,
                 dispatched, userMetadata, got, sawNull>>

\* The batch goes to dispatch_batch; the flags are set before it does, and stay
\* set if it throws.
Accepted(b) ==
  /\ pc = "idle"
  /\ b # {} /\ Refusal(b) = None
  /\ initial_metadata_sent' = (initial_metadata_sent \/ Attached(b))
  /\ send_closed' = (send_closed \/ "SEND_CLOSE_FROM_CLIENT" \in b)
  /\ UNCHANGED <<channel_closed, call_plugin, path_valid, got, sawNull>>

\* The next await of a batch on an active stream.
Phase(ops) ==
  IF "SEND_MESSAGE" \in ops THEN "send"
  ELSE IF "SEND_CLOSE_FROM_CLIENT" \in ops THEN "close"
  ELSE IF "RECV_INITIAL_METADATA" \in ops THEN "metadata"
  ELSE IF "RECV_MESSAGE" \in ops THEN "message"
  ELSE IF "RECV_STATUS_ON_CLIENT" \in ops THEN "status"
  ELSE "idle"

\* Go on with the operations ops, answering what is already known.
Continue(ops, answer) ==
  /\ todo' = ops
  /\ pc' = Phase(ops)
  /\ reply' = answer

-----------------------------------------------------------------------------
(* Starting a request *)

\* A request goes out, with the user's metadata or without.
Dispatch(metadata) ==
  /\ dispatched < MaxDispatches
  /\ dispatched' = dispatched + 1
  /\ userMetadata' = IF metadata THEN userMetadata + 1 ELSE userMetadata

\* expired_stream_state: no task, the status is already known.
ExpiredStream ==
  /\ Passed
  /\ stream_state' = TRUE
  /\ msg_tx' = FALSE /\ meta_rx' = FALSE /\ trailers_rx' = FALSE
  /\ cached_trailers' = "DEADLINE_EXCEEDED"
  /\ UNCHANGED <<driverVars, dispatched, userMetadata>>

\* Mutant of OpenStream: no check of the deadline.
OpenStreamUnchecked(metadata, bidi) ==
  /\ path_valid
  /\ Dispatch(metadata)
  /\ Spawn(bidi)
  /\ stream_state' = TRUE
  /\ msg_tx' = bidi /\ meta_rx' = TRUE /\ trailers_rx' = TRUE
  /\ cached_trailers' = None

\* start_server_stream and start_bidi_stream after their checks.
OpenStream(metadata, bidi) ==
  /\ ~Passed /\ path_valid
  /\ Dispatch(metadata)
  /\ Spawn(bidi)
  /\ stream_state' = TRUE
  /\ msg_tx' = bidi /\ meta_rx' = TRUE /\ trailers_rx' = TRUE
  /\ cached_trailers' = None

StartStream(metadata, bidi) == ExpiredStream \/ OpenStream(metadata, bidi)

\* An invalid method path is only found once the deadline check passed.
PathRejected ==
  /\ ~Passed /\ ~path_valid
  /\ Throw("InvalidArgument")
  /\ UNCHANGED <<activeStream, dispatched, userMetadata>>

-----------------------------------------------------------------------------
(* dispatch_batch *)

\* The stream is active: forward the message and the close, then read.
StreamBatch(b) ==
  /\ Accepted(b)
  /\ stream_state
  /\ Continue(b \ {"SEND_INITIAL_METADATA"}, NoReply)
  /\ UNCHANGED <<driverVars, finished, pending_metadata, activeStream, dispatched,
                 userMetadata>>

SendOnly(b) == HasSend(b) /\ ~HasRecv(b) /\ ~stream_state

\* invoke_call_plugin may throw whenever there is a plugin.
PluginFails ==
  /\ call_plugin
  /\ Throw("PluginFailed")
  /\ UNCHANGED <<driverVars, activeStream, dispatched, userMetadata>>

\* A first message without the close starts a bidi stream, with the buffered
\* metadata; the message itself is then sent on the stream.
StartBidiStream(b) ==
  /\ Accepted(b)
  /\ SendOnly(b) /\ "SEND_MESSAGE" \in b /\ "SEND_CLOSE_FROM_CLIENT" \notin b
  /\ pending_metadata' = FALSE
  /\ \/ PluginFails
     \/ PathRejected /\ UNCHANGED driverVars
     \/ /\ StartStream(pending_metadata, TRUE)
        /\ Continue({"SEND_MESSAGE"}, NoReply)
  /\ UNCHANGED finished

\* Any other send-only batch replaces what is buffered; with the close the
\* request goes out at once.
BufferSend(b) ==
  /\ Accepted(b)
  /\ SendOnly(b) /\ ("SEND_MESSAGE" \notin b \/ "SEND_CLOSE_FROM_CLIENT" \in b)
  /\ \/ /\ PluginFails
        /\ pending_metadata' = Attached(b)
     \/ /\ "SEND_CLOSE_FROM_CLIENT" \notin b
        /\ pending_metadata' = Attached(b)
        /\ Continue({}, NoReply)
        /\ UNCHANGED <<driverVars, activeStream, dispatched, userMetadata>>
     \/ /\ "SEND_CLOSE_FROM_CLIENT" \in b
        /\ pending_metadata' = FALSE
        /\ \/ PathRejected /\ UNCHANGED driverVars
           \/ StartStream(Attached(b), FALSE) /\ Continue({}, NoReply)
  /\ UNCHANGED finished

\* A batch that receives, without a stream: its own or the buffered metadata.
RecvFirst(b) == HasRecv(b) /\ ~stream_state
Metadata(b) == IF HasSend(b) THEN Attached(b) ELSE pending_metadata
\* Mutant of TakePending: the buffer is cloned instead of taken.
ClonePending(b) == pending_metadata' = pending_metadata
TakePending(b) == pending_metadata' = (pending_metadata /\ HasSend(b))

\* The unary pattern, and the fallback for anything that is not half-closed.
IsUnary(b) ==
  \/ {"RECV_MESSAGE", "RECV_STATUS_ON_CLIENT"} \subseteq b
  \/ ~(send_closed \/ "SEND_CLOSE_FROM_CLIENT" \in b)

RecvPluginFails(b) ==
  /\ Accepted(b)
  /\ RecvFirst(b) /\ HasSend(b)
  /\ PluginFails
  /\ UNCHANGED <<finished, pending_metadata>>

StartServerStream(b) ==
  /\ Accepted(b)
  /\ RecvFirst(b) /\ ~IsUnary(b)
  /\ TakePending(b)
  /\ \/ PathRejected /\ UNCHANGED driverVars
     \/ StartStream(Metadata(b), FALSE) /\ Continue(b \cap RecvOps, NoReply)
  /\ UNCHANGED finished

\* build_unary_result: only what the batch asked for.
UnaryDone(ops, msg, status) ==
  /\ reply' = Answer(None,
                     IF "RECV_MESSAGE" \in ops THEN msg ELSE NoMessage,
                     IF "RECV_STATUS_ON_CLIENT" \in ops THEN status ELSE None)
  /\ finished' = (finished \/ "RECV_STATUS_ON_CLIENT" \in ops)
  /\ pc' = "idle" /\ todo' = {}

\* execute_call up to its first await.
ExecuteCall(b) ==
  /\ Accepted(b)
  /\ RecvFirst(b) /\ IsUnary(b)
  /\ TakePending(b)
  /\ \/ /\ Passed
        /\ UnaryDone(b, Null, "DEADLINE_EXCEEDED")
        /\ UNCHANGED <<driverVars, dispatched, userMetadata>>
     \/ /\ ~Passed /\ ~path_valid
        /\ Throw("InvalidArgument")
        /\ state' = "TRANSIENT_FAILURE"
        /\ UNCHANGED <<driver, verdict, msgs, meta, trailers, reqs, req_rx, msg_rx,
                       read, sent, deadline, cancelled, finished, dispatched,
                       userMetadata>>
     \/ /\ ~Passed /\ path_valid
        /\ Dispatch(Metadata(b))
        /\ todo' = b \cap RecvOps
        /\ pc' = "ready"
        /\ reply' = NoReply
        /\ UNCHANGED <<driverVars, finished>>
  /\ UNCHANGED activeStream

-----------------------------------------------------------------------------
(* execute_call: its awaits *)

unaryUnchanged == <<driver, verdict, msgs, meta, trailers, reqs, req_rx, msg_rx,
                    read, deadline, cancelled, send_closed, initial_metadata_sent,
                    channel_closed, call_plugin, pending_metadata, path_valid, activeStream,
                    dispatched, userMetadata, got, sawNull>>

UnaryReady ==
  /\ pc = "ready"
  /\ pc' = "unary"
  /\ sent' = sent + 1
  /\ UNCHANGED <<unaryUnchanged, state, todo, reply, finished>>

UnaryNotReady ==
  /\ pc = "ready"
  /\ Throw("Transport")
  /\ state' = "TRANSIENT_FAILURE"
  /\ UNCHANGED <<unaryUnchanged, sent, finished>>

\* The deadline, while connecting or while waiting for the response.
UnaryElapsed ==
  /\ pc \in {"ready", "unary"}
  /\ Passed
  /\ UnaryDone(todo, Null, "DEADLINE_EXCEEDED")
  /\ state' = "READY"
  /\ UNCHANGED <<unaryUnchanged, sent>>

UnaryOk ==
  /\ pc = "unary"
  /\ UnaryDone(todo, 1, "OK")
  /\ state' = "READY"
  /\ UNCHANGED <<unaryUnchanged, sent>>

UnaryErr(raw) ==
  /\ pc = "unary"
  /\ UnaryDone(todo, Null, status_to_php(raw))
  /\ state' = IF status_to_php(raw) = "UNAVAILABLE" THEN "TRANSIENT_FAILURE"
              ELSE "READY"
  /\ UNCHANGED <<unaryUnchanged, sent>>

-----------------------------------------------------------------------------
(* send_stream_message, close_stream_send and build_stream_result *)

phpUnchanged == <<send_closed, initial_metadata_sent, channel_closed, call_plugin,
                  pending_metadata, path_valid, stream_state, dispatched, userMetadata>>

\* tx.send(message).await parks while reqs is full and races nothing.
SendStreamMessage ==
  /\ pc = "send"
  /\ \/ /\ ~msg_tx
        /\ Throw("NotSendable")
        /\ UNCHANGED reqs
     \/ /\ msg_tx /\ ~req_rx
        /\ Throw("SendClosed")
        /\ UNCHANGED reqs
     \/ /\ msg_tx /\ req_rx /\ reqs < ReqBuf
        /\ reqs' = reqs + 1
        /\ Continue(todo \ {"SEND_MESSAGE"}, reply)
  /\ UNCHANGED <<phpUnchanged, finished, msg_tx, meta_rx, cached_trailers,
                 trailers_rx, got, sawNull, driver, verdict, msgs, meta, trailers,
                 req_rx, msg_rx, read, sent, state, deadline, cancelled>>

CloseStreamSend ==
  /\ pc = "close"
  /\ msg_tx' = FALSE
  /\ Continue(todo \ {"SEND_CLOSE_FROM_CLIENT"}, reply)
  /\ UNCHANGED <<driverVars, phpUnchanged, finished, meta_rx, cached_trailers,
                 trailers_rx, got, sawNull>>

\* The headers are waited for and handed out once; later reads see an empty
\* array at once.
RecvInitialMetadata ==
  /\ pc = "metadata"
  /\ meta_rx => meta # None
  /\ meta_rx' = FALSE
  /\ Continue(todo \ {"RECV_INITIAL_METADATA"}, reply)
  /\ UNCHANGED <<driverVars, phpUnchanged, finished, msg_tx, cached_trailers,
                 trailers_rx, got, sawNull>>

\* Mutant of Disconnected: try_recv's Empty is taken for the end.
DisconnectedWhenEmpty == msgs = <<>>

\* All senders of msgs are gone: an empty channel is a disconnected one.
Disconnected == msgs = <<>> /\ driver \in {None, "done"}

MessageIs(m) ==
  Continue(todo \ {"RECV_MESSAGE"}, Answer(None, m, None))

\* try_recv, or recv().await when the channel is empty.
RecvMessage ==
  /\ pc = "message"
  /\ \/ /\ cached_trailers # None \/ Disconnected
        /\ MessageIs(Null)
        /\ sawNull' = TRUE
        /\ UNCHANGED <<msgs, got, cached_trailers>>
     \/ /\ cached_trailers = None /\ msgs # <<>>
        /\ msgs' = Tail(msgs)
        /\ IF Head(msgs) > 0
           THEN /\ MessageIs(Head(msgs))
                /\ got' = Head(msgs)
                /\ UNCHANGED <<sawNull, cached_trailers>>
           ELSE /\ MessageIs(Null)
                /\ sawNull' = TRUE
                /\ cached_trailers' = IF Head(msgs) = Err
                                      THEN status_to_php("TRANSPORT") ELSE None
                /\ UNCHANGED got
  /\ UNCHANGED <<phpUnchanged, finished, msg_tx, meta_rx, trailers_rx, driver,
                 verdict, meta, trailers, reqs, req_rx, msg_rx, read, sent, state,
                 deadline, cancelled>>

\* RECV_STATUS_ON_CLIENT is always the last operation of its batch.
StatusIs(status) ==
  /\ reply' = Answer(None, reply.message, status)
  /\ finished' = TRUE
  /\ pc' = "idle" /\ todo' = {}

\* Mutant of RecvStatus: the trailers are awaited with the buffer left full.
RecvStatusUndrained ==
  /\ pc = "status"
  /\ \/ /\ cached_trailers # None
        /\ StatusIs(cached_trailers)
        /\ cached_trailers' = None
        /\ UNCHANGED trailers_rx
     \/ /\ cached_trailers = None /\ trailers_rx
        /\ trailers_rx' = FALSE
        /\ pc' = "await"
        /\ UNCHANGED <<todo, reply, finished, cached_trailers>>
     \/ /\ cached_trailers = None /\ ~trailers_rx
        /\ StatusIs("CONSUMED")
        /\ UNCHANGED <<trailers_rx, cached_trailers>>
  /\ UNCHANGED <<driverVars, phpUnchanged, msg_tx, meta_rx, got, sawNull>>

RecvStatus ==
  /\ pc = "status"
  /\ \/ /\ cached_trailers # None
        /\ StatusIs(cached_trailers)
        /\ cached_trailers' = None
        /\ UNCHANGED trailers_rx
     \/ /\ cached_trailers = None /\ trailers_rx
        /\ trailers_rx' = FALSE
        /\ pc' = "drain"
        /\ UNCHANGED <<todo, reply, finished, cached_trailers>>
     \/ /\ cached_trailers = None /\ ~trailers_rx
        /\ StatusIs("CONSUMED")
        /\ UNCHANGED <<trailers_rx, cached_trailers>>
  /\ UNCHANGED <<driverVars, phpUnchanged, msg_tx, meta_rx, got, sawNull>>

\* Mutant of TrailersArrive: try_recv instead of an await.
TrailersTried ==
  StatusIs(IF trailers \in {None, "dropped"} THEN "TERMINATED" ELSE trailers)

\* Mutant of TrailersArrive: a dropped sender counts as a clean end.
TrailersDefaulted ==
  /\ trailers # None
  /\ StatusIs(IF trailers = "dropped" THEN "OK" ELSE trailers)

\* A oneshot whose sender was dropped yields the made-up status.
TrailersArrive ==
  /\ trailers # None
  /\ StatusIs(IF trailers = "dropped" THEN "TERMINATED" ELSE trailers)

\* Mutant of DrainMessages: polls for the trailers and leaves msgs full.
PollTrailers ==
  /\ pc = "drain"
  /\ TrailersArrive \/ (trailers = None /\ UNCHANGED <<pc, todo, reply, finished>>)
  /\ UNCHANGED <<phpUnchanged, msg_tx, meta_rx, cached_trailers, trailers_rx, got,
                 sawNull, driverVars>>

\* The select! that discards undelivered messages until the status comes.
DrainMessages ==
  /\ pc = "drain"
  /\ \/ /\ TrailersArrive
        /\ UNCHANGED msgs
     \/ /\ msgs # <<>>
        /\ msgs' = Tail(msgs)
        /\ pc' = IF Head(msgs) > 0 THEN "drain" ELSE "await"
        /\ UNCHANGED <<todo, reply, finished>>
     \/ /\ Disconnected
        /\ pc' = "await"
        /\ UNCHANGED <<msgs, todo, reply, finished>>
  /\ UNCHANGED <<phpUnchanged, msg_tx, meta_rx, cached_trailers, trailers_rx, got,
                 sawNull, driver, verdict, meta, trailers, reqs, req_rx, msg_rx,
                 read, sent, state, deadline, cancelled>>

AwaitTrailers ==
  /\ pc = "await"
  /\ TrailersArrive
  /\ UNCHANGED <<driverVars, phpUnchanged, msg_tx, meta_rx, cached_trailers,
                 trailers_rx, got, sawNull>>

-----------------------------------------------------------------------------
(* The other methods; like startBatch they run on the PHP thread. *)

Cancel ==
  /\ pc = "idle"
  /\ cancelled' = TRUE
  /\ UNCHANGED <<callVars, driver, verdict, msgs, meta, trailers, reqs, req_rx,
                 msg_rx, read, sent, state, deadline>>

SetCredentials ==
  /\ pc = "idle"
  /\ call_plugin' = TRUE
  /\ UNCHANGED <<driverVars, pc, todo, reply, send_closed, initial_metadata_sent,
                 finished, channel_closed, pending_metadata, path_valid, activeStream,
                 dispatched, userMetadata, got, sawNull>>

\* Channel::close on the channel the call was made from.
CloseChannel ==
  /\ pc = "idle"
  /\ channel_closed' = TRUE
  /\ UNCHANGED <<driverVars, pc, todo, reply, send_closed, initial_metadata_sent,
                 finished, call_plugin, pending_metadata, path_valid, activeStream,
                 dispatched, userMetadata, got, sawNull>>

\* The object is freed: its ends of the channels are dropped with its fields,
\* the task is not cancelled.
Free ==
  /\ pc = "idle"
  /\ pc' = "freed"
  /\ msg_rx' = FALSE /\ msgs' = <<>>
  /\ stream_state' = FALSE /\ msg_tx' = FALSE /\ meta_rx' = FALSE
  /\ trailers_rx' = FALSE /\ cached_trailers' = None
  /\ pending_metadata' = FALSE /\ reply' = NoReply
  /\ UNCHANGED <<todo, send_closed, initial_metadata_sent, finished, channel_closed,
                 call_plugin, path_valid, dispatched, userMetadata, got, sawNull,
                 driver, verdict, meta, trailers, reqs, req_rx, read, sent, state,
                 deadline, cancelled>>

-----------------------------------------------------------------------------
StartBatch(b) ==
  \/ BatchRefused(b)
  \/ StreamBatch(b)
  \/ StartBidiStream(b)
  \/ BufferSend(b)
  \/ RecvPluginFails(b)
  \/ StartServerStream(b)
  \/ ExecuteCall(b)

PhpCall ==
  \/ BatchEmpty
  \/ \E b \in Batches : StartBatch(b)
  \/ Cancel
  \/ SetCredentials
  \/ CloseChannel
  \/ Free

\* Steps of a blocked PHP thread that need nobody else.
PhpStep ==
  \/ SendStreamMessage
  \/ CloseStreamSend
  \/ RecvInitialMetadata
  \/ RecvMessage
  \/ RecvStatus
  \/ DrainMessages
  \/ AwaitTrailers
  \/ UnaryElapsed

\* Steps that the transport's answer to a unary call causes.
UnaryAnswer ==
  \/ UnaryReady
  \/ UnaryNotReady
  \/ UnaryOk
  \/ \E raw \in RawStatus : UnaryErr(raw)

Blocked == pc \notin {"idle", "freed"}

Background == (DriverStep \/ TransportStep \/ DeadlinePasses) /\ UNCHANGED callVars

\* Nothing is left to do once the object and its task are gone.
Gone == pc = "freed" /\ driver \in {None, "done"} /\ UNCHANGED vars

Next == PhpCall \/ PhpStep \/ UnaryAnswer \/ Background \/ Gone

Spec == Init /\ [][Next]_vars

\* The default runtime is current_thread: the driver task runs only while the
\* PHP thread is inside block_on.  Tokio polls every woken task, so an await that
\* can complete does; the transport and the server owe nobody an answer, but the
\* request stream is dropped once the server ended the response or the task is
\* gone.
ResponseOver == driver = "done" \/ verdict \in {"OK", "UNAVAILABLE", "APP"}
FairSpec ==
  /\ Spec
  /\ WF_vars(PhpStep)
  /\ WF_vars(Blocked /\ DriverStep /\ UNCHANGED callVars)
  /\ WF_vars(DeadlinePasses /\ UNCHANGED callVars)
  /\ WF_vars(ResponseOver /\ RequestStreamDropped /\ UNCHANGED callVars)

\* A server that answers every call and ends every stream.
ServerEnds ==
  /\ WF_vars(Blocked /\ TransportStep /\ UNCHANGED callVars)
  /\ WF_vars(UnaryAnswer)

\* GRPC_PHP_RS_RUNTIME=multi-thread: worker threads run the task at any time.
WorkerThreads == WF_vars(DriverStep /\ UNCHANGED callVars)

-----------------------------------------------------------------------------
(* Safety *)

TypeOK == DriverTypeOK /\ CallTypeOK /\ FlagsOK

\* RECV_MESSAGE hands PHP the server's messages in order, none skipped and none
\* twice, whatever the driver's run-ahead in msgs and whoever waits for whom.
InOrder == [][got' \in {got, got + 1}]_vars

\* A null message is the end: every message the driver task took off the wire
\* has been handed to PHP before the first null, and none follows it.
NullMeansAll == sawNull => got = read

\* Once RECV_STATUS_ON_CLIENT was delivered the call is over: the driver task
\* has returned and the PHP thread waits for nothing.
FinishedMeansOver == finished => driver \in {None, "done"} /\ ~Blocked

\* "any further batch is a sequencing error in ext-grpc, never a re-run": after
\* the status no batch puts a request on the wire or reads another message.
NoReRun == [][finished => sent' = sent /\ got' = got /\ finished']_vars

\* build_stream_result never reaches its "stream already consumed" status.
NeverConsumed == reply.status # "CONSUMED"

\* The status of a stream is the one the driver task decided on; without a task
\* it is the expired deadline; and it is made up only when the task returned
\* without sending trailers.
TruthfulStatus ==
  (stream_state /\ reply.status # None) =>
    \/ reply.status = verdict
    \/ reply.status = "DEADLINE_EXCEEDED" /\ driver = None
    \/ reply.status = "TERMINATED" /\ trailers = "dropped"

\* DEADLINE_EXCEEDED is never reported early: not by a race the deadline lost,
\* and not by status_to_php for a CANCELLED that came before the deadline.
HonestDeadline == reply.status = "DEADLINE_EXCEEDED" => Passed

\* The metadata of the one OP_SEND_INITIAL_METADATA a call accepts goes out with
\* at most one request, however its batches are split and retried.
UserMetadataOnce == userMetadata <= 1

\* A receive for which the PHP thread has to wait: for the headers, a message,
\* the next entry to discard or the trailers.
PhpWaits ==
  \/ pc = "metadata" /\ meta_rx /\ meta = None
  \/ pc = "message" /\ cached_trailers = None /\ msgs = <<>> /\ ~Disconnected
  \/ pc = "drain" /\ trailers = None /\ msgs = <<>> /\ ~Disconnected
  \/ pc = "await" /\ trailers = None

\* The driver task is parked on a full buffer.
TaskWaits == driver \in {"send", "end"} /\ msg_rx /\ ~HasRoom

\* Whenever the PHP thread waits in a receive there is a task to wait for, and
\* that task does not wait for the PHP thread in turn ("Drain any remaining
\* messages while waiting, otherwise asking for the status mid-stream deadlocks
\* both sides", call.rs).
NoMutualWait == PhpWaits => driver \notin {None, "done"} /\ ~TaskWaits

\* "ext-grpc fails such calls locally as DEADLINE_EXCEEDED without ever sending
\* the request": a call made with a deadline in the past puts nothing on the
\* wire, delivers no message and reports no other status.
ExpiredIsLocal ==
  Passed => [](/\ sent = 0
               /\ reply.message \in {NoMessage, Null}
               /\ reply.status \in {None, "DEADLINE_EXCEEDED"})

-----------------------------------------------------------------------------
(* The inductive invariant behind the safety properties *)

\* Where the PHP thread can be, given the call's flags.
Control ==
  /\ msg_rx <=> pc # "freed"
  /\ finished => pc \in {"idle", "freed"}
  /\ pc \in {"ready", "unary"} => ~stream_state
  /\ pc \in {"send", "close", "metadata", "message", "status", "drain", "await"}
       => stream_state
  /\ (~stream_state /\ pc # "freed") => driver = None /\ ~sawNull
  /\ Blocked => reply.status = None
  /\ reply.status # None => finished

\* Where the status of a stream comes from; it is there until it is taken.
StatusSource ==
  /\ finished => driver \in {None, "done"}
  /\ trailers # None => driver = "done"
  /\ trailers \in {None, "dropped", verdict}
  /\ verdict \notin {"CONSUMED", "TERMINATED"}
  /\ verdict = "DEADLINE_EXCEEDED" => Passed
  /\ cached_trailers # None =>
       \/ driver = "done" /\ cached_trailers = verdict
       \/ driver = None /\ cached_trailers = "DEADLINE_EXCEEDED" /\ Passed
  /\ (stream_state /\ ~finished /\ pc \notin {"drain", "await"}) =>
       cached_trailers # None \/ trailers_rx

\* PHP may still read messages.
Readable == pc \notin {"freed", "drain", "await"} /\ ~finished

\* What is in msgs: before the end only messages, after it the end is last.
Queue ==
  /\ driver \in {None, "ready", "response"} => msgs = <<>> /\ read = 0
  /\ driver = "send" => read > 0
  /\ driver \in {"message", "send", "end"} => \A i \in 1 .. Len(msgs) : msgs[i] > 0
  /\ \A i \in 1 .. Len(msgs) :
       msgs[i] = Err => driver = "done" /\ verdict = "UNAVAILABLE"
  /\ got <= read
  /\ Readable =>
       /\ \A i \in 1 .. Len(msgs) : msgs[i] > 0 => msgs[i] = got + i
       /\ driver \in {"message", "end"} => read = got + Len(msgs)
       /\ driver = "send" => read = got + Len(msgs) + 1
       /\ driver \in {"trailers", "done"} =>
            \/ msgs = <<>> /\ read = got
            \/ /\ msgs # <<>> /\ read = got + Len(msgs) - 1
               /\ \A i \in 1 .. Len(msgs) : msgs[i] > 0 <=> i < Len(msgs)

\* Once a read returned null nothing more can come.
Ended ==
  /\ (sawNull \/ cached_trailers # None) =>
       /\ got = read /\ driver \in {None, "trailers", "done"}
       /\ Readable => msgs = <<>>

\* Buffered metadata was accepted once and is not on the wire yet.
BufferedMetadata ==
  /\ userMetadata > 0 => initial_metadata_sent /\ ~pending_metadata
  /\ pending_metadata => initial_metadata_sent

IndInv ==
  /\ TypeOK
  /\ Control
  /\ StatusSource
  /\ Queue
  /\ Ended
  /\ BufferedMetadata
  /\ NeverConsumed /\ TruthfulStatus /\ HonestDeadline /\ UserMetadataOnce

\* What makes NoMutualWait inductive: the headers and the trailers that the PHP
\* thread can still wait for, and whose turn it is to fill them in.
Promises ==
  /\ driver \notin {None, "ready", "response"} => meta # None
  /\ driver = None => ~meta_rx /\ ~trailers_rx /\ pc \notin {"drain", "await"}
  /\ driver \in {"end", "trailers"} => verdict # None
  /\ driver = "done" => trailers # None
  /\ pc = "await" => driver \in {"trailers", "done"}

-----------------------------------------------------------------------------
(* Liveness *)

\* The deadline bounds every receive and every unary call: connecting, waiting
\* for headers, for a message, or for the status of a stream whose buffer is full.
DeadlineBoundsReceive ==
  (Blocked /\ pc # "send" /\ deadline # None) ~> pc = "idle"

\* Without a deadline too, a receive returns when the server answers and ends its
\* streams; asking for the status mid-stream does not deadlock with a driver
\* parked on a full buffer.
ReceiveReturns == ServerEnds => ((Blocked /\ pc # "send") ~> pc = "idle")

\* Freeing the object cancels nothing, yet on worker threads the task of a call
\* with a deadline does not outlive it for ever.
FreedStops ==
  WorkerThreads =>
    ((pc = "freed" /\ deadline # None) ~> driver \in {None, "done"})

-----------------------------------------------------------------------------
(* Statements of comments and tests that the code does not meet *)

\* "Every await on the dispatch path races against this so the deadline bounds
\* the WHOLE call" (call.rs, deadline_instant).
DeadlineBoundsCall == (Blocked /\ deadline # None) ~> pc = "idle"

\* "Stream ended or errored - the driver is now free to deliver trailers"
\* (call.rs, build_stream_result): the status is never the made-up one.
NeverTerminated == reply.status # "TERMINATED"

\* Call outcomes set READY "on responses" (call.rs, channel_shared): a channel
\* is not READY before any request went out.
ReadyMeansAnswered == state = "READY" => sent > 0

\* Call outcomes set "TRANSIENT_FAILURE on connection errors" (call.rs,
\* channel_shared): a stream that fails as UNAVAILABLE before any header came
\* does not leave the channel READY.
ConnectionErrorShown ==
  (verdict = "UNAVAILABLE" /\ meta = "default") => state # "READY"

\* An expired call fails "locally as DEADLINE_EXCEEDED" (call.rs,
\* deadline_already_expired): sending on it before the half-close does not throw.
ExpiredSendAccepted ==
  (stream_state /\ driver = None /\ ~send_closed) => reply.exception # "NotSendable"

=============================================================================

--------------------------- MODULE GrpcCallTypes ---------------------------
(***************************************************************************)
(* What the operators and the starting steps of GrpcCall do and what msgs  *)
(* can hold, the facts the proofs of its invariants rest on; that every    *)
(* step keeps the variables in their types; and that it keeps the parts of *)
(* IndInv about the control of the call and the user's metadata.           *)
(***************************************************************************)
EXTENDS GrpcCall, TLAPS

USE DEF None, End, Err, Null, NoMessage

-----------------------------------------------------------------------------
(* What the helper operators return *)

\* status_to_php maps every tonic status to one of the codes PHP can see, and to
\* DEADLINE_EXCEEDED only after the deadline.
LEMMA StatusToPhp ==
  ASSUME NEW raw \in RawStatus
  PROVE  /\ status_to_php(raw) \in Status \ {"CONSUMED", "TERMINATED"}
         /\ status_to_php(raw) = "DEADLINE_EXCEEDED" => Passed
  BY DEF RawStatus, Status, status_to_php

\* A transport error is UNAVAILABLE to PHP.
LEMMA TransportIsUnavailable ==
  "TRANSPORT" \in RawStatus /\ status_to_php("TRANSPORT") = "UNAVAILABLE"
  BY DEF RawStatus, status_to_php

\* The await that startBatch goes to is one of the stream's, or none.
LEMMA PhaseRange ==
  ASSUME NEW ops
  PROVE  Phase(ops) \in {"send", "close", "metadata", "message", "status", "idle"}
  BY DEF Phase

\* startBatch throws one of the documented exceptions; a batch it accepts is well
\* formed, and the call is not finished, cancelled or on a closed channel.
LEMMA RefusalRange ==
  ASSUME NEW b
  PROVE  /\ Refusal(b) \in Exceptions \cup {None}
         /\ (b # {} /\ Refusal(b) = None) =>
              /\ ~channel_closed /\ ~cancelled /\ b # Malformed
              /\ ~finished
              /\ Attached(b) => ~initial_metadata_sent
  BY DEF Refusal, Exceptions

-----------------------------------------------------------------------------
(* The bounded channel msgs as a sequence *)

\* A send adds one entry at the end and moves no other.
LEMMA SendEntry ==
  ASSUME NEW S, NEW q \in Seq(S), NEW e \in S
  PROVE  /\ Append(q, e) \in Seq(S)
         /\ Append(q, e) # <<>>
         /\ Len(Append(q, e)) = Len(q) + 1
         /\ Append(q, e)[Len(q) + 1] = e
         /\ \A i \in 1 .. Len(q) : Append(q, e)[i] = q[i]
  OBVIOUS

\* A receive takes the first entry and moves every other one place down.
LEMMA ReceiveEntry ==
  ASSUME NEW S, NEW q \in Seq(S), q # <<>>
  PROVE  /\ Tail(q) \in Seq(S)
         /\ Len(q) \in Nat /\ Len(q) >= 1
         /\ Len(Tail(q)) = Len(q) - 1
         /\ Head(q) \in S /\ Head(q) = q[1]
         /\ \A i \in 1 .. Len(q) - 1 : Tail(q)[i] = q[i + 1]
  OBVIOUS

\* Nothing is left behind a single entry.
LEMMA EmptyEntry ==
  ASSUME NEW S, NEW q \in Seq(S), Len(q) = 0
  PROVE  q = <<>>
  OBVIOUS

\* What PHP can find at the head of msgs: the next message, or an entry behind
\* which there is nothing.
LEMMA FirstEntry ==
  ASSUME DriverTypeOK, CallTypeOK, Queue, Readable, msgs # <<>>
  PROVE  /\ Head(msgs) > 0 => Head(msgs) = got + 1
         /\ ~(Head(msgs) > 0) =>
              /\ driver \in {"trailers", "done"}
              /\ Len(msgs) = 1 /\ Tail(msgs) = <<>> /\ got = read
         /\ Head(msgs) = Err => driver = "done" /\ verdict = "UNAVAILABLE"
<1>0. msgs \in Seq(Entries) /\ got \in Nat /\ read \in Nat
  BY MaxMessagesAssumption DEF DriverTypeOK, CallTypeOK
<1>1. /\ Head(msgs) = msgs[1] /\ msgs[1] \in Int
      /\ Len(msgs) \in Nat /\ Len(msgs) >= 1 /\ 1 \in 1 .. Len(msgs)
  BY <1>0, ReceiveEntry, MaxMessagesAssumption DEF Entries
<1>2. Head(msgs) > 0 => Head(msgs) = got + 1
  BY <1>0, <1>1 DEF Queue
<1>3. Head(msgs) = Err => driver = "done" /\ verdict = "UNAVAILABLE"
  BY <1>0, <1>1 DEF Queue
<1>4. ASSUME ~(Head(msgs) > 0)
      PROVE  driver \in {"trailers", "done"} /\ Len(msgs) = 1 /\ got = read
  <2>1. driver \in {"trailers", "done"}
    BY <1>1, <1>4 DEF Queue, DriverTypeOK
  <2>2. /\ read = got + Len(msgs) - 1
        /\ \A i \in 1 .. Len(msgs) : msgs[i] > 0 <=> i < Len(msgs)
    BY <2>1 DEF Queue
  <2>3. Len(msgs) = 1
    <3>1. msgs[1] > 0 <=> 1 < Len(msgs)
      BY <1>1, <2>2
    <3>2. ~(1 < Len(msgs))
      BY <1>1, <1>4, <3>1
    <3>3. \A n \in Nat : n >= 1 /\ ~(1 < n) => n = 1
      OBVIOUS
    <3>4. QED
      BY <1>1, <3>2, <3>3, Zenon
  <2>4. QED
    BY <1>0, <1>1, <2>1, <2>2, <2>3
<1>5. Len(msgs) = 1 => Tail(msgs) = <<>>
  <2>1. PICK rest : rest = Tail(msgs)
    BY Zenon
  <2>2. rest \in Seq(Entries) /\ Len(rest) = Len(msgs) - 1
    BY <1>0, <2>1, ReceiveEntry
  <2>3. QED
    BY <2>1, <2>2, EmptyEntry
<1>6. QED
  BY <1>2, <1>3, <1>4, <1>5

\* Taking the first entry leaves the kinds of the others as they were.
LEMMA AfterReceive ==
  ASSUME DriverTypeOK, Queue, msgs # <<>>, msgs' = Tail(msgs)
  PROVE  /\ Len(msgs) \in Nat /\ Len(msgs) >= 1 /\ Len(msgs') = Len(msgs) - 1
         /\ \A i \in 1 .. Len(msgs') :
              i + 1 \in 1 .. Len(msgs) /\ msgs'[i] = msgs[i + 1]
         /\ driver \in {"message", "send", "end"} =>
              \A i \in 1 .. Len(msgs') : msgs'[i] > 0
         /\ \A i \in 1 .. Len(msgs') :
              msgs'[i] = Err => driver = "done" /\ verdict = "UNAVAILABLE"
<1>1. msgs \in Seq(Entries)
  BY DEF DriverTypeOK
<1>2. /\ Len(msgs) \in Nat /\ Len(msgs) >= 1 /\ Len(msgs') = Len(msgs) - 1
      /\ \A i \in 1 .. Len(msgs) - 1 : msgs'[i] = msgs[i + 1]
  BY <1>1, ReceiveEntry
<1>3. ASSUME NEW i \in 1 .. Len(msgs')
      PROVE  i + 1 \in 1 .. Len(msgs) /\ msgs'[i] = msgs[i + 1]
  BY <1>2
<1>4. ASSUME driver \in {"message", "send", "end"}, NEW i \in 1 .. Len(msgs')
      PROVE  msgs'[i] > 0
  BY <1>3, <1>4 DEF Queue
<1>5. ASSUME NEW i \in 1 .. Len(msgs'), msgs'[i] = Err
      PROVE  driver = "done" /\ verdict = "UNAVAILABLE"
  BY <1>3, <1>5 DEF Queue
<1>6. QED
  BY <1>2, <1>3, <1>4, <1>5

-----------------------------------------------------------------------------
(* What the steps that start a stream have in common *)

Starts(b) == StartBidiStream(b) \/ BufferSend(b) \/ StartServerStream(b)

\* The ways in which such a batch goes on: the plugin throws, the path is invalid,
\* it is buffered, or a stream starts and the batch continues on it.
LEMMA StartsBy ==
  ASSUME NEW b \in Batches, Starts(b)
  PROVE  /\ Accepted(b) /\ ~stream_state /\ UNCHANGED finished
         /\ \/ PluginFails
            \/ PathRejected /\ UNCHANGED driverVars
            \/ /\ Continue({}, NoReply)
               /\ UNCHANGED <<driverVars, activeStream, dispatched, userMetadata>>
            \/ \E metadata : \E bidi \in {TRUE, FALSE}, ops \in SUBSET Ops :
                 StartStream(metadata, bidi) /\ Continue(ops, NoReply)
<1>1. Accepted(b) /\ ~stream_state /\ UNCHANGED finished
  BY Zenon DEF Starts, StartBidiStream, BufferSend, StartServerStream, SendOnly,
     RecvFirst
<1>2. {"SEND_MESSAGE"} \in SUBSET Ops /\ {} \in SUBSET Ops /\ (b \cap RecvOps) \in SUBSET Ops
  BY DEF Ops, SendOps, RecvOps
<1>3. CASE StartBidiStream(b)
  BY <1>1, <1>2, <1>3, Zenon DEF StartBidiStream
<1>4. CASE BufferSend(b)
  BY <1>1, <1>2, <1>4, Zenon DEF BufferSend
<1>5. CASE StartServerStream(b)
  BY <1>1, <1>2, <1>5, Zenon DEF StartServerStream
<1>6. QED
  BY <1>3, <1>4, <1>5, Zenon DEF Starts

\* dispatch_batch without a stream, outside execute_call: it throws or buffers and
\* leaves the call without a stream, or it has a stream that already expired, or
\* it spawns the driver task.
LEMMA StartsLemma ==
  ASSUME NEW b \in Batches, Starts(b)
  PROVE  /\ pc = "idle" /\ ~stream_state /\ ~finished /\ ~finished'
         /\ UNCHANGED <<got, sawNull>>
         /\ pc' \in {"idle", "send", "close", "metadata", "message", "status"}
         /\ reply'.status = None /\ reply'.message = NoMessage
         /\ \/ /\ UNCHANGED <<driverVars, activeStream, dispatched, userMetadata>>
               /\ pc' = "idle"
            \/ ExpiredStream
            \/ \E metadata, bidi : OpenStream(metadata, bidi)
<1>1. Accepted(b) /\ ~stream_state /\ UNCHANGED finished
  BY StartsBy
<1>2. pc = "idle" /\ ~finished /\ UNCHANGED <<got, sawNull>>
  BY <1>1, RefusalRange DEF Accepted
<1>3. \/ PluginFails
      \/ PathRejected /\ UNCHANGED driverVars
      \/ /\ Continue({}, NoReply)
         /\ UNCHANGED <<driverVars, activeStream, dispatched, userMetadata>>
      \/ \E metadata, bidi, ops :
           StartStream(metadata, bidi) /\ Continue(ops, NoReply)
  BY StartsBy, Zenon
<1>4. CASE PluginFails
  BY <1>1, <1>2, <1>4 DEF PluginFails, Throw, Answer
<1>5. CASE PathRejected /\ UNCHANGED driverVars
  BY <1>1, <1>2, <1>5 DEF PathRejected, Throw, Answer
<1>6. CASE /\ Continue({}, NoReply)
           /\ UNCHANGED <<driverVars, activeStream, dispatched, userMetadata>>
  BY <1>1, <1>2, <1>6 DEF Continue, Phase, NoReply, Answer
<1>7. ASSUME NEW metadata, NEW bidi, NEW ops,
             StartStream(metadata, bidi) /\ Continue(ops, NoReply)
      PROVE  /\ pc' \in {"idle", "send", "close", "metadata", "message", "status"}
             /\ reply'.status = None /\ reply'.message = NoMessage
             /\ ExpiredStream \/ \E md, bi : OpenStream(md, bi)
  BY <1>7, PhaseRange DEF StartStream, Continue, NoReply, Answer
<1>8. QED
  BY <1>1, <1>2, <1>3, <1>4, <1>5, <1>6, <1>7

\* A batch that startBatch refuses, or whose plugin throws, leaves the stream
\* and the task alone.
Rejected(b) == BatchRefused(b) \/ RecvPluginFails(b)

\* A batch that startBatch or the plugin rejects changes flags and the reply only.
LEMMA RejectedLemma ==
  ASSUME NEW b \in Batches, Rejected(b)
  PROVE  /\ pc = "idle" /\ pc' = "idle"
         /\ reply'.status = None /\ reply'.message = NoMessage
         /\ UNCHANGED <<driverVars, activeStream, finished, dispatched,
                        userMetadata, got, sawNull, pending_metadata>>
         /\ initial_metadata_sent => initial_metadata_sent'
<1>1. CASE BatchRefused(b)
  BY <1>1 DEF BatchRefused, Throw, Answer
<1>2. CASE RecvPluginFails(b)
  BY <1>2, Zenon DEF RecvPluginFails, Accepted, PluginFails, Throw, Answer
<1>3. QED
  BY <1>1, <1>2 DEF Rejected

\* execute_call fails on an expired deadline or an invalid path, or it connects.
LEMMA ExecuteLemma ==
  ASSUME NEW b \in Batches, ExecuteCall(b)
  PROVE  /\ pc = "idle" /\ ~stream_state /\ ~finished
         /\ UNCHANGED <<activeStream, got, sawNull, driver, verdict, msgs, meta,
                        trailers, reqs, req_rx, msg_rx, read, sent, deadline,
                        cancelled>>
         /\ reply'.message \in {NoMessage, Null}
         /\ reply'.status # None =>
              reply'.status = "DEADLINE_EXCEEDED" /\ Passed /\ finished'
         /\ \/ pc' = "idle" /\ UNCHANGED <<dispatched, userMetadata>>
            \/ pc' = "ready" /\ ~Passed /\ ~finished' /\ reply'.status = None
<1>1. Accepted(b) /\ ~stream_state /\ UNCHANGED activeStream
  BY DEF ExecuteCall, RecvFirst
<1>2. pc = "idle" /\ ~finished /\ UNCHANGED <<got, sawNull>>
  BY <1>1, RefusalRange DEF Accepted
<1>3. UNCHANGED <<driver, verdict, msgs, meta, trailers, reqs, req_rx, msg_rx,
                  read, sent, deadline, cancelled>>
  BY DEF ExecuteCall, driverVars
<1>4. reply'.message \in {NoMessage, Null}
  BY DEF ExecuteCall, UnaryDone, Throw, NoReply, Answer
<1>5. reply'.status # None =>
        reply'.status = "DEADLINE_EXCEEDED" /\ Passed /\ finished'
  <2>1. CASE Passed /\ UnaryDone(b, Null, "DEADLINE_EXCEEDED")
    BY <2>1, Zenon DEF UnaryDone, Answer
  <2>2. CASE Throw("InvalidArgument") \/ reply' = NoReply
    BY <2>2 DEF Throw, NoReply, Answer
  <2>3. QED
    BY <2>1, <2>2 DEF ExecuteCall
<1>6. \/ pc' = "idle" /\ UNCHANGED <<dispatched, userMetadata>>
      \/ pc' = "ready" /\ ~Passed /\ ~finished' /\ reply'.status = None
  BY <1>2 DEF ExecuteCall, UnaryDone, Throw, NoReply, Answer
<1>7. QED
  BY <1>1, <1>2, <1>3, <1>4, <1>5, <1>6


-----------------------------------------------------------------------------
(* Types *)

\* The Boolean variables, value by value: the form the provers reason about.
FlagValues ==
  /\ send_closed = TRUE \/ send_closed = FALSE
  /\ initial_metadata_sent = TRUE \/ initial_metadata_sent = FALSE
  /\ finished = TRUE \/ finished = FALSE
  /\ channel_closed = TRUE \/ channel_closed = FALSE
  /\ call_plugin = TRUE \/ call_plugin = FALSE
  /\ path_valid = TRUE \/ path_valid = FALSE
  /\ pending_metadata = TRUE \/ pending_metadata = FALSE
  /\ stream_state = TRUE \/ stream_state = FALSE
  /\ msg_tx = TRUE \/ msg_tx = FALSE
  /\ meta_rx = TRUE \/ meta_rx = FALSE
  /\ trailers_rx = TRUE \/ trailers_rx = FALSE
  /\ sawNull = TRUE \/ sawNull = FALSE
  /\ req_rx = TRUE \/ req_rx = FALSE
  /\ msg_rx = TRUE \/ msg_rx = FALSE
  /\ cancelled = TRUE \/ cancelled = FALSE

\* TRUE and FALSE are the two Booleans.
LEMMA BoolValue ==
  ASSUME NEW x
  PROVE  x \in BOOLEAN <=> (x = TRUE \/ x = FALSE)
  BY Zenon

\* Both ways of saying that the flags are Booleans agree: from the membership,
LEMMA FlagsAgree == FlagsOK => FlagValues
  BY DEF FlagsOK, FlagValues

\* and back to it after a step.
LEMMA FlagsAgreeNext == FlagValues' => FlagsOK'
<1>1. FlagValues' =>
        /\ send_closed' \in BOOLEAN /\ initial_metadata_sent' \in BOOLEAN
        /\ finished' \in BOOLEAN /\ channel_closed' \in BOOLEAN
        /\ call_plugin' \in BOOLEAN
  BY BoolValue, Zenon DEF FlagValues
<1>2. FlagValues' =>
        /\ path_valid' \in BOOLEAN /\ pending_metadata' \in BOOLEAN
        /\ stream_state' \in BOOLEAN /\ msg_tx' \in BOOLEAN
        /\ meta_rx' \in BOOLEAN
  BY BoolValue, Zenon DEF FlagValues
<1>3. FlagValues' =>
        /\ trailers_rx' \in BOOLEAN /\ sawNull' \in BOOLEAN
        /\ req_rx' \in BOOLEAN /\ msg_rx' \in BOOLEAN /\ cancelled' \in BOOLEAN
  BY BoolValue, Zenon DEF FlagValues
<1>4. QED
  BY <1>1, <1>2, <1>3, Zenon DEF FlagsOK

\* No step gives a flag any other value.
LEMMA FlagsStep ==
  ASSUME FlagValues, [Next]_vars
  PROVE  FlagValues'
<1> USE DEF FlagValues, driverVars, callVars, activeStream
<1>1. CASE BatchEmpty
  BY <1>1 DEF BatchEmpty
<1>2. ASSUME NEW b \in Batches, BatchRefused(b)
      PROVE  FlagValues'
  BY <1>2 DEF BatchRefused
<1>3. ASSUME NEW b \in Batches, StreamBatch(b)
      PROVE  FlagValues'
  BY <1>3 DEF StreamBatch, Accepted, Continue
<1>4. ASSUME NEW b \in Batches, Starts(b)
      PROVE  FlagValues'
  <2>1. /\ UNCHANGED <<finished, channel_closed, call_plugin, path_valid, sawNull>>
        /\ send_closed' = TRUE \/ send_closed' = FALSE
        /\ initial_metadata_sent' = TRUE \/ initial_metadata_sent' = FALSE
    BY <1>4, StartsBy DEF Accepted
  <2>2. pending_metadata' = TRUE \/ pending_metadata' = FALSE
    BY <1>4 DEF Starts, StartBidiStream, BufferSend, StartServerStream, TakePending,
       Attached
  <2>3. CASE UNCHANGED <<driverVars, activeStream>>
    BY <2>1, <2>2, <2>3
  <2>4. CASE ExpiredStream
    BY <2>1, <2>2, <2>4 DEF ExpiredStream
  <2>5. ASSUME NEW metadata, NEW bidi \in {TRUE, FALSE}, OpenStream(metadata, bidi)
        PROVE  FlagValues'
    BY <2>1, <2>2, <2>5 DEF OpenStream, Spawn
  <2>6. QED
    BY <1>4, <2>3, <2>4, <2>5, StartsBy, Zenon DEF PluginFails, PathRejected, StartStream
<1>5. ASSUME NEW b \in Batches, RecvPluginFails(b)
      PROVE  FlagValues'
  BY <1>5 DEF RecvPluginFails, Accepted, RecvFirst, PluginFails
<1>6. ASSUME NEW b \in Batches, ExecuteCall(b)
      PROVE  FlagValues'
  BY <1>6, SMTT(30) DEF ExecuteCall, Accepted, RecvFirst, TakePending, UnaryDone,
     Dispatch
<1>7. CASE Cancel
  BY <1>7 DEF Cancel
<1>8. CASE SetCredentials \/ CloseChannel
  BY <1>8 DEF SetCredentials, CloseChannel
<1>9. CASE Free
  BY <1>9 DEF Free
<1>10. CASE SendStreamMessage
  BY <1>10 DEF SendStreamMessage, Continue, phpUnchanged
<1>11. CASE CloseStreamSend
  BY <1>11 DEF CloseStreamSend, Continue, phpUnchanged
<1>12. CASE RecvInitialMetadata
  BY <1>12 DEF RecvInitialMetadata, Continue, phpUnchanged
<1>13. CASE RecvMessage
  BY <1>13 DEF RecvMessage, MessageIs, Continue, Disconnected, phpUnchanged
<1>14. CASE RecvStatus
  BY <1>14 DEF RecvStatus, StatusIs, phpUnchanged
<1>15. CASE DrainMessages
  BY <1>15 DEF DrainMessages, TrailersArrive, StatusIs, Disconnected,
     phpUnchanged
<1>16. CASE AwaitTrailers
  BY <1>16 DEF AwaitTrailers, TrailersArrive, StatusIs, phpUnchanged
<1>17. CASE UnaryElapsed
  BY <1>17 DEF UnaryElapsed, UnaryDone, unaryUnchanged
<1>18. CASE UnaryReady \/ UnaryNotReady
  BY <1>18 DEF UnaryReady, UnaryNotReady, unaryUnchanged
<1>19. CASE UnaryOk
  BY <1>19 DEF UnaryOk, UnaryDone, unaryUnchanged
<1>20. ASSUME NEW raw \in RawStatus, UnaryErr(raw)
       PROVE  FlagValues'
  BY <1>20, SMTT(30) DEF UnaryErr, UnaryDone, unaryUnchanged
<1>21. CASE Background
  <2>1. CASE Elapsed \/ CancelArm \/ DeadlineArm
    BY <1>21, <2>1 DEF Background, Elapsed, CancelArm, DeadlineArm, Finish
  <2>2. CASE SendMsg \/ SendEnd \/ SendTrailers
    BY <1>21, <2>2 DEF Background, SendMsg, SendEnd, SendTrailers
  <2>3. CASE RequestTaken \/ RequestStreamDropped \/ DeadlinePasses
    BY <1>21, <2>3 DEF Background, RequestTaken, RequestStreamDropped,
       DeadlinePasses
  <2>4. CASE ReadyOk \/ ReadyErr \/ ResponseOk
    BY <1>21, <2>4 DEF Background, ReadyOk, ReadyErr, ResponseOk
  <2>5. CASE MessageSome \/ MessageNone
    BY <1>21, <2>5 DEF Background, MessageSome, MessageNone, Finish
  <2>6. ASSUME NEW raw \in RawStatus, ResponseErr(raw) \/ MessageErr(raw)
        PROVE  FlagValues'
    BY <1>21, <2>6 DEF Background, Finish, ResponseErr, MessageErr
  <2>7. QED
    BY <1>21, <2>1, <2>2, <2>3, <2>4, <2>5, <2>6, Zenon DEF Background,
       DriverStep, TransportStep
<1>22. CASE UNCHANGED vars
  BY <1>22 DEF vars
<1>23. QED
  BY <1>1, <1>2, <1>3, <1>4, <1>5, <1>6, <1>7, <1>8, <1>9, <1>10, <1>11, <1>12,
     <1>13, <1>14, <1>15, <1>16, <1>17, <1>18, <1>19, <1>20, <1>21, <1>22,
     ZenonT(30) DEF Next, PhpCall, StartBatch, Starts, PhpStep, UnaryAnswer,
     Gone

\* msgs stays within its capacity, and the task's variables in their types.
LEMMA DriverTypeStep ==
  ASSUME DriverTypeOK, Queue, [Next]_vars
  PROVE  DriverTypeOK'
<1> USE BufferAssumption, MaxMessagesAssumption
    DEF DriverTypeOK, driverVars, Status
<1>1. CASE BatchEmpty
  BY <1>1 DEF BatchEmpty, NoReply, Answer
<1>2. ASSUME NEW b \in Batches, BatchRefused(b)
      PROVE  DriverTypeOK'
  BY <1>2, RefusalRange DEF BatchRefused, Throw, Answer
<1>3. ASSUME NEW b \in Batches, StreamBatch(b)
      PROVE  DriverTypeOK'
  BY <1>3, RefusalRange, PhaseRange DEF StreamBatch, Accepted, Continue,
     NoReply, Answer
<1>4. ASSUME NEW b \in Batches, Starts(b)
      PROVE  DriverTypeOK'
  <2>1. CASE UNCHANGED driverVars
    BY <2>1
  <2>2. ASSUME NEW metadata, NEW bidi, OpenStream(metadata, bidi)
        PROVE  DriverTypeOK'
    BY <2>2 DEF OpenStream, Spawn
  <2>3. QED
    BY <1>4, <2>1, <2>2, StartsLemma, Zenon DEF ExpiredStream
<1>5. ASSUME NEW b \in Batches, RecvPluginFails(b)
      PROVE  DriverTypeOK'
  BY <1>5, RefusalRange DEF RecvPluginFails, Accepted, RecvFirst, PluginFails,
     Throw, Answer
<1>6. ASSUME NEW b \in Batches, ExecuteCall(b)
      PROVE  DriverTypeOK'
  BY <1>6, RefusalRange, SMTT(30) DEF ExecuteCall, Accepted, RecvFirst, TakePending,
     UnaryDone, Dispatch, Throw, NoReply, Answer
<1>7. CASE Cancel
  BY <1>7 DEF Cancel
<1>8. CASE SetCredentials \/ CloseChannel
  BY <1>8 DEF SetCredentials, CloseChannel
<1>9. CASE Free
  BY <1>9 DEF Free, NoReply, Answer
<1>10. CASE SendStreamMessage
  BY <1>10, PhaseRange DEF SendStreamMessage, Throw, Continue, Answer,
     phpUnchanged
<1>11. CASE CloseStreamSend
  BY <1>11, PhaseRange DEF CloseStreamSend, Continue, phpUnchanged
<1>12. CASE RecvInitialMetadata
  BY <1>12, PhaseRange DEF RecvInitialMetadata, Continue, phpUnchanged
<1>13. CASE RecvMessage
  <2>1. msgs' \in Seq(Entries) /\ Len(msgs') <= MsgBuf
    BY <1>13, ReceiveEntry DEF RecvMessage
  <2>2. QED
    BY <1>13, <2>1 DEF RecvMessage
<1>14. CASE RecvStatus
  BY <1>14 DEF RecvStatus, StatusIs, Answer, phpUnchanged
<1>15. CASE DrainMessages
  <2>1. msgs' \in Seq(Entries) /\ Len(msgs') <= MsgBuf
    BY <1>15, ReceiveEntry DEF DrainMessages
  <2>2. QED
    BY <1>15, <2>1 DEF DrainMessages
<1>16. CASE AwaitTrailers
  BY <1>16 DEF AwaitTrailers, TrailersArrive, StatusIs, Answer, phpUnchanged
<1>17. CASE UnaryElapsed
  BY <1>17 DEF UnaryElapsed, UnaryDone, Answer, unaryUnchanged
<1>18. CASE UnaryReady \/ UnaryNotReady
  BY <1>18 DEF UnaryReady, UnaryNotReady, Throw, Answer, unaryUnchanged
<1>19. CASE UnaryOk
  BY <1>19 DEF UnaryOk, UnaryDone, Answer, unaryUnchanged
<1>20. ASSUME NEW raw \in RawStatus, UnaryErr(raw)
       PROVE  DriverTypeOK'
  BY <1>20, StatusToPhp DEF UnaryErr, UnaryDone, Answer, unaryUnchanged
<1>21. CASE Elapsed /\ UNCHANGED callVars
  BY <1>21 DEF Elapsed, EndWith
<1>22. CASE CancelArm /\ UNCHANGED callVars
  BY <1>22 DEF CancelArm, Finish, EndWith
<1>23. CASE DeadlineArm /\ UNCHANGED callVars
  BY <1>23 DEF DeadlineArm, Finish, EndWith
<1>24. CASE SendMsg /\ UNCHANGED callVars
  <2>1. 0 .. MaxMessages \subseteq Entries
    BY DEF Entries
  <2>2. msgs' \in Seq(Entries) /\ Len(msgs') <= MsgBuf
    BY <1>24, <2>1, SendEntry, SMTT(30) DEF SendMsg, HasRoom
  <2>3. QED
    BY <1>24, <2>2 DEF SendMsg
<1>25. CASE SendEnd /\ UNCHANGED callVars
  <2>1. End \in Entries
    BY DEF Entries
  <2>2. msgs' \in Seq(Entries) /\ Len(msgs') <= MsgBuf
    BY <1>25, <2>1, SendEntry DEF SendEnd, HasRoom
  <2>3. QED
    BY <1>25, <2>2 DEF SendEnd
<1>26. CASE SendTrailers /\ UNCHANGED callVars
  BY <1>26 DEF SendTrailers
<1>27. CASE ReadyOk /\ UNCHANGED callVars
  BY <1>27 DEF ReadyOk
<1>28. CASE ReadyErr /\ UNCHANGED callVars
  <2>1. Err \in Entries /\ msgs = <<>>
    BY <1>28 DEF ReadyErr, Queue, Entries
  <2>2. msgs' \in Seq(Entries) /\ Len(msgs') <= MsgBuf
    BY <1>28, <2>1, SendEntry DEF ReadyErr
  <2>3. QED
    BY <1>28, <2>2, TransportIsUnavailable DEF ReadyErr
<1>29. CASE ResponseOk /\ UNCHANGED callVars
  BY <1>29 DEF ResponseOk
<1>30. ASSUME NEW raw \in RawStatus, ResponseErr(raw) /\ UNCHANGED callVars
       PROVE  DriverTypeOK'
  BY <1>30, StatusToPhp DEF ResponseErr, EndWith
<1>31. CASE MessageSome /\ UNCHANGED callVars
  BY <1>31 DEF MessageSome
<1>32. CASE MessageNone /\ UNCHANGED callVars
  BY <1>32 DEF MessageNone, Finish, EndWith
<1>33. ASSUME NEW raw \in RawStatus, MessageErr(raw) /\ UNCHANGED callVars
       PROVE  DriverTypeOK'
  BY <1>33, StatusToPhp DEF MessageErr, Finish, EndWith
<1>34. CASE (RequestTaken \/ RequestStreamDropped) /\ UNCHANGED callVars
  BY <1>34 DEF RequestTaken, RequestStreamDropped
<1>35. CASE DeadlinePasses /\ UNCHANGED callVars
  BY <1>35 DEF DeadlinePasses
<1>36. CASE UNCHANGED vars
  BY <1>36 DEF vars
<1>37. QED
  BY <1>1, <1>2, <1>3, <1>4, <1>5, <1>6, <1>7, <1>8, <1>9, <1>10, <1>11, <1>12,
     <1>13, <1>14, <1>15, <1>16, <1>17, <1>18, <1>19, <1>20, <1>21, <1>22,
     <1>23, <1>24, <1>25, <1>26, <1>27, <1>28, <1>29, <1>30, <1>31, <1>32,
     <1>33, <1>34, <1>35, <1>36, ZenonT(30) DEF Next, PhpCall, StartBatch,
     Starts, PhpStep, UnaryAnswer, Background, DriverStep, TransportStep, Gone

\* The call's variables stay in their types.
LEMMA CallTypeStep ==
  ASSUME CallTypeOK, DriverTypeOK, [Next]_vars
  PROVE  CallTypeOK'
<1> USE BufferAssumption, MaxMessagesAssumption, BatchesAssumption
    DEF CallTypeOK, callVars, activeStream, Status, Exceptions, Malformed
<1>1. CASE BatchEmpty
  BY <1>1 DEF BatchEmpty, NoReply, Answer
<1>2. ASSUME NEW b \in Batches, BatchRefused(b)
      PROVE  CallTypeOK'
  BY <1>2, RefusalRange DEF BatchRefused, Throw, Answer
<1>3. ASSUME NEW b \in Batches, StreamBatch(b)
      PROVE  CallTypeOK'
  BY <1>3, RefusalRange, PhaseRange, SMTT(30) DEF StreamBatch, Accepted, Continue,
     NoReply, Answer
<1>4. ASSUME NEW b \in Batches, Starts(b)
      PROVE  CallTypeOK'
  <2>1. UNCHANGED got
    BY <1>4, StartsLemma
  <2>2. CASE PluginFails
    BY <2>1, <2>2 DEF PluginFails, Throw, Answer
  <2>3. CASE PathRejected
    BY <2>1, <2>3 DEF PathRejected, Throw, Answer
  <2>4. CASE /\ Continue({}, NoReply)
             /\ UNCHANGED <<activeStream, dispatched, userMetadata>>
    BY <2>1, <2>4, PhaseRange DEF Continue, NoReply, Answer
  <2>5. ASSUME NEW metadata, NEW bidi, NEW ops \in SUBSET Ops,
               StartStream(metadata, bidi), Continue(ops, NoReply)
        PROVE  CallTypeOK'
    BY <2>1, <2>5, PhaseRange DEF StartStream, ExpiredStream, OpenStream, Dispatch,
       Continue, NoReply, Answer
  <2>6. QED
    BY <1>4, <2>2, <2>3, <2>4, <2>5, StartsBy, Zenon
<1>5. ASSUME NEW b \in Batches, RecvPluginFails(b)
      PROVE  CallTypeOK'
  BY <1>5, RefusalRange, SMTT(30) DEF RecvPluginFails, Accepted, RecvFirst, PluginFails,
     Throw, Answer
<1>6. ASSUME NEW b \in Batches, ExecuteCall(b)
      PROVE  CallTypeOK'
  BY <1>6, RefusalRange DEF ExecuteCall, Accepted, RecvFirst, TakePending,
     UnaryDone, Dispatch, Throw, NoReply, Answer
<1>7. CASE Cancel
  BY <1>7 DEF Cancel
<1>8. CASE SetCredentials \/ CloseChannel
  BY <1>8 DEF SetCredentials, CloseChannel
<1>9. CASE Free
  BY <1>9 DEF Free, NoReply, Answer
<1>10. CASE SendStreamMessage
  BY <1>10, PhaseRange DEF SendStreamMessage, Throw, Continue, Answer,
     phpUnchanged
<1>11. CASE CloseStreamSend
  BY <1>11, PhaseRange DEF CloseStreamSend, Continue, phpUnchanged
<1>12. CASE RecvInitialMetadata
  BY <1>12, PhaseRange, SMTT(30) DEF RecvInitialMetadata, Continue, phpUnchanged
<1>13. CASE RecvMessage
  <2>1. msgs # <<>> => Head(msgs) \in Entries
    BY ReceiveEntry DEF DriverTypeOK
  <2>2. QED
    BY <1>13, <2>1, PhaseRange, TransportIsUnavailable, SMTT(30) DEF RecvMessage, MessageIs,
       Answer, Continue, Entries, phpUnchanged
<1>14. CASE RecvStatus
  BY <1>14 DEF RecvStatus, StatusIs, Answer, phpUnchanged
<1>15. CASE DrainMessages
  BY <1>15, SMTT(30) DEF DrainMessages, TrailersArrive, StatusIs, Answer, Disconnected,
     phpUnchanged, DriverTypeOK
<1>16. CASE AwaitTrailers
  BY <1>16 DEF AwaitTrailers, TrailersArrive, StatusIs, Answer, phpUnchanged,
     DriverTypeOK
<1>17. CASE UnaryElapsed
  BY <1>17 DEF UnaryElapsed, UnaryDone, Answer, unaryUnchanged
<1>18. CASE UnaryReady \/ UnaryNotReady
  BY <1>18 DEF UnaryReady, UnaryNotReady, Throw, Answer, unaryUnchanged
<1>19. CASE UnaryOk
  BY <1>19 DEF UnaryOk, UnaryDone, Answer, unaryUnchanged
<1>20. ASSUME NEW raw \in RawStatus, UnaryErr(raw)
       PROVE  CallTypeOK'
  BY <1>20, StatusToPhp DEF UnaryErr, UnaryDone, Answer, unaryUnchanged
<1>21. CASE Background
  BY <1>21 DEF Background
<1>22. CASE UNCHANGED vars
  BY <1>22 DEF vars
<1>23. QED
  BY <1>1, <1>2, <1>3, <1>4, <1>5, <1>6, <1>7, <1>8, <1>9, <1>10, <1>11, <1>12,
     <1>13, <1>14, <1>15, <1>16, <1>17, <1>18, <1>19, <1>20, <1>21, <1>22,
     ZenonT(30) DEF Next, PhpCall, StartBatch, Starts, PhpStep, UnaryAnswer,
     Gone

-----------------------------------------------------------------------------
\* Control: the PHP thread is where the flags and the stream allow.
LEMMA ControlStep ==
  ASSUME Control, StatusSource, [Next]_vars
  PROVE  Control'
<1> USE DEF driverVars, callVars, activeStream, Passed, Blocked, Control
<1>1. CASE BatchEmpty
  BY <1>1 DEF BatchEmpty, NoReply, Answer
<1>2. ASSUME NEW b \in Batches, Rejected(b)
      PROVE  Control'
  BY <1>2, RejectedLemma
<1>3. ASSUME NEW b \in Batches, StreamBatch(b)
      PROVE  Control'
  BY <1>3, RefusalRange, PhaseRange, SMTT(30) DEF StreamBatch, Accepted, Continue,
     NoReply, Answer
<1>4. ASSUME NEW b \in Batches, Starts(b)
      PROVE  Control'
  <2>1. CASE UNCHANGED <<driverVars, activeStream, dispatched, userMetadata>> /\ pc' = "idle"
    BY <1>4, <2>1, StartsLemma
  <2>2. CASE ExpiredStream
    BY <1>4, <2>2, StartsLemma, Zenon DEF ExpiredStream
  <2>3. ASSUME NEW metadata, NEW bidi, OpenStream(metadata, bidi)
        PROVE  Control'
    BY <1>4, <2>3, StartsLemma, Zenon DEF OpenStream, Spawn
  <2>4. QED
    BY <1>4, <2>1, <2>2, <2>3, StartsLemma
<1>5. ASSUME NEW b \in Batches, ExecuteCall(b)
      PROVE  Control'
  BY <1>5, ExecuteLemma
<1>6. CASE Cancel
  BY <1>6 DEF Cancel
<1>7. CASE SetCredentials \/ CloseChannel
  BY <1>7 DEF SetCredentials, CloseChannel
<1>8. CASE Free
  BY <1>8 DEF Free, NoReply, Answer
<1>9. CASE SendStreamMessage
  <2>1. /\ pc = "send" /\ UNCHANGED <<stream_state, finished, sawNull, driver, msg_rx>>
        /\ pc' \in {"send", "close", "metadata", "message", "status", "idle"}
        /\ reply'.status \in {None, reply.status}
    BY <1>9, PhaseRange DEF SendStreamMessage, Throw, Continue, Answer, phpUnchanged
  <2>2. QED
    BY <2>1
<1>10. CASE CloseStreamSend
  <2>1. /\ pc = "close" /\ UNCHANGED <<stream_state, finished, sawNull, driver, msg_rx, reply>>
        /\ pc' \in {"send", "close", "metadata", "message", "status", "idle"}
    BY <1>10, PhaseRange DEF CloseStreamSend, Continue, phpUnchanged
  <2>2. QED
    BY <2>1
<1>11. CASE RecvInitialMetadata
  BY <1>11, PhaseRange DEF RecvInitialMetadata, Continue, phpUnchanged
<1>12. CASE RecvMessage
  BY <1>12, PhaseRange, TransportIsUnavailable DEF RecvMessage, MessageIs,
     Answer, Continue, Disconnected, phpUnchanged
<1>13. CASE RecvStatus
  BY <1>13 DEF RecvStatus, StatusIs, Answer, phpUnchanged
<1>14. CASE DrainMessages
  BY <1>14 DEF DrainMessages, TrailersArrive, StatusIs, Answer, Disconnected,
     phpUnchanged
<1>15. CASE AwaitTrailers
  BY <1>15 DEF AwaitTrailers, TrailersArrive, StatusIs, Answer, phpUnchanged
<1>16. CASE UnaryElapsed
  BY <1>16, Zenon DEF UnaryElapsed, UnaryDone, Answer, unaryUnchanged
<1>17. CASE UnaryReady \/ UnaryNotReady
  BY <1>17 DEF UnaryReady, UnaryNotReady, Throw, Answer, unaryUnchanged
<1>18. CASE UnaryOk
  BY <1>18, Zenon DEF UnaryOk, UnaryDone, Answer, unaryUnchanged
<1>19. ASSUME NEW raw \in RawStatus, UnaryErr(raw)
       PROVE  Control'
  BY <1>19, StatusToPhp, Zenon DEF UnaryErr, UnaryDone, Answer, unaryUnchanged
<1>20. CASE Elapsed /\ UNCHANGED callVars
  BY <1>20 DEF Elapsed, EndWith
<1>21. CASE CancelArm /\ UNCHANGED callVars
  BY <1>21 DEF CancelArm, Finish, EndWith
<1>22. CASE DeadlineArm /\ UNCHANGED callVars
  BY <1>22 DEF DeadlineArm, Finish, EndWith
<1>23. CASE SendMsg /\ UNCHANGED callVars
  BY <1>23 DEF SendMsg, HasRoom
<1>24. CASE SendEnd /\ UNCHANGED callVars
  BY <1>24 DEF SendEnd, HasRoom
<1>25. CASE SendTrailers /\ UNCHANGED callVars
  BY <1>25 DEF SendTrailers
<1>26. CASE ReadyOk /\ UNCHANGED callVars
  BY <1>26 DEF ReadyOk
<1>27. CASE ReadyErr /\ UNCHANGED callVars
  BY <1>27, TransportIsUnavailable DEF ReadyErr
<1>28. CASE ResponseOk /\ UNCHANGED callVars
  BY <1>28 DEF ResponseOk
<1>29. ASSUME NEW raw \in RawStatus, ResponseErr(raw) /\ UNCHANGED callVars
       PROVE  Control'
  BY <1>29, StatusToPhp DEF ResponseErr, EndWith
<1>30. CASE MessageSome /\ UNCHANGED callVars
  BY <1>30 DEF MessageSome
<1>31. CASE MessageNone /\ UNCHANGED callVars
  BY <1>31 DEF MessageNone, Finish, EndWith
<1>32. ASSUME NEW raw \in RawStatus, MessageErr(raw) /\ UNCHANGED callVars
       PROVE  Control'
  BY <1>32, StatusToPhp DEF MessageErr, Finish, EndWith
<1>33. CASE (RequestTaken \/ RequestStreamDropped) /\ UNCHANGED callVars
  BY <1>33 DEF RequestTaken, RequestStreamDropped
<1>34. CASE DeadlinePasses /\ UNCHANGED callVars
  BY <1>34 DEF DeadlinePasses
<1>35. CASE UNCHANGED vars
  BY <1>35, SMTT(30) DEF vars
<1>36. QED
  BY <1>1, <1>2, <1>3, <1>4, <1>5, <1>6, <1>7, <1>8, <1>9, <1>10, <1>11, <1>12,
     <1>13, <1>14, <1>15, <1>16, <1>17, <1>18, <1>19, <1>20, <1>21, <1>22,
     <1>23, <1>24, <1>25, <1>26, <1>27, <1>28, <1>29, <1>30, <1>31, <1>32,
     <1>33, <1>34, <1>35, ZenonT(30) DEF Next, PhpCall, StartBatch, Starts, Rejected,
     PhpStep, UnaryAnswer, Background, DriverStep, TransportStep, Gone

\* The user's metadata is buffered or used, never both.
LEMMA MetadataStep ==
  ASSUME BufferedMetadata, UserMetadataOnce, CallTypeOK, [Next]_vars
  PROVE  (BufferedMetadata /\ UserMetadataOnce)'
<1> USE DEF driverVars, callVars, activeStream, BufferedMetadata,
            UserMetadataOnce
<1>1. CASE BatchEmpty
  BY <1>1 DEF BatchEmpty, NoReply, Answer
<1>2. ASSUME NEW b \in Batches, Rejected(b)
      PROVE  (BufferedMetadata /\ UserMetadataOnce)'
  BY <1>2, RejectedLemma
<1>3. ASSUME NEW b \in Batches, StreamBatch(b)
      PROVE  (BufferedMetadata /\ UserMetadataOnce)'
  BY <1>3, RefusalRange, PhaseRange, Zenon DEF StreamBatch, Accepted, Continue,
     NoReply, Answer
<1>4. ASSUME NEW b \in Batches, Starts(b)
      PROVE  (BufferedMetadata /\ UserMetadataOnce)'
  <2>0. userMetadata \in Nat
    BY DEF CallTypeOK
  <2>1. /\ Attached(b) => ~initial_metadata_sent
        /\ initial_metadata_sent' <=> (initial_metadata_sent \/ Attached(b))
    BY <1>4, RefusalRange, Zenon DEF Starts, StartBidiStream, BufferSend, StartServerStream,
       Accepted
  <2>3. CASE StartBidiStream(b)
    <3>1. \/ userMetadata' = userMetadata
          \/ userMetadata' = userMetadata + 1 /\ pending_metadata
      BY <2>0, <2>3, Zenon DEF StartBidiStream, PluginFails, PathRejected, StartStream,
         ExpiredStream, OpenStream, Dispatch
    <3>2. ~pending_metadata'
      BY <2>3 DEF StartBidiStream
    <3>3. QED
      BY <2>0, <2>1, <3>1, <3>2
  <2>4. CASE BufferSend(b)
    <3>1. \/ userMetadata' = userMetadata /\ (pending_metadata' => Attached(b))
          \/ userMetadata' = userMetadata + 1 /\ Attached(b) /\ ~pending_metadata'
      BY <2>0, <2>4, Zenon DEF BufferSend, PluginFails, PathRejected, StartStream,
         ExpiredStream, OpenStream, Dispatch
    <3>2. QED
      BY <2>0, <2>1, <3>1
  <2>5. CASE StartServerStream(b)
    <3>1. \/ userMetadata' = userMetadata
          \/ userMetadata' = userMetadata + 1 /\ Metadata(b)
      BY <2>0, <2>5, Zenon DEF StartServerStream, PathRejected, StartStream,
         ExpiredStream, OpenStream, Dispatch
    <3>2. pending_metadata' => pending_metadata /\ HasSend(b)
      BY <2>5, Zenon DEF StartServerStream, TakePending
    <3>3. QED
      BY <2>0, <2>1, <3>1, <3>2 DEF Metadata
  <2>6. QED
    BY <1>4, <2>3, <2>4, <2>5 DEF Starts
<1>5. ASSUME NEW b \in Batches, ExecuteCall(b)
      PROVE  (BufferedMetadata /\ UserMetadataOnce)'
  <2>0. userMetadata \in Nat
    BY DEF CallTypeOK
  <2>1. /\ Attached(b) => ~initial_metadata_sent
        /\ initial_metadata_sent' <=> (initial_metadata_sent \/ Attached(b))
    BY <1>5, RefusalRange, Zenon DEF ExecuteCall, Accepted
  <2>2. \/ userMetadata' = userMetadata
        \/ userMetadata' = userMetadata + 1 /\ Metadata(b)
    BY <1>5, <2>0 DEF ExecuteCall, Dispatch
  <2>3. pending_metadata' => pending_metadata /\ HasSend(b)
    BY <1>5, Zenon DEF ExecuteCall, TakePending
  <2>4. QED
    BY <2>0, <2>1, <2>2, <2>3 DEF Metadata
<1>6. CASE Cancel
  BY <1>6 DEF Cancel
<1>7. CASE SetCredentials \/ CloseChannel
  BY <1>7 DEF SetCredentials, CloseChannel
<1>8. CASE Free
  BY <1>8 DEF Free, NoReply, Answer
<1>9. CASE SendStreamMessage
  BY <1>9, PhaseRange DEF SendStreamMessage, Throw, Continue, Answer,
     phpUnchanged
<1>10. CASE CloseStreamSend
  BY <1>10, PhaseRange DEF CloseStreamSend, Continue, phpUnchanged
<1>11. CASE RecvInitialMetadata
  BY <1>11, PhaseRange, SMTT(30) DEF RecvInitialMetadata, Continue, phpUnchanged
<1>12. CASE RecvMessage
  BY <1>12, PhaseRange, TransportIsUnavailable DEF RecvMessage, MessageIs,
     Answer, Continue, Disconnected, phpUnchanged
<1>13. CASE RecvStatus
  BY <1>13 DEF RecvStatus, StatusIs, Answer, phpUnchanged
<1>14. CASE DrainMessages
  BY <1>14 DEF DrainMessages, TrailersArrive, StatusIs, Answer, Disconnected,
     phpUnchanged
<1>15. CASE AwaitTrailers
  BY <1>15 DEF AwaitTrailers, TrailersArrive, StatusIs, Answer, phpUnchanged
<1>16. CASE UnaryElapsed
  BY <1>16 DEF UnaryElapsed, UnaryDone, Answer, unaryUnchanged
<1>17. CASE UnaryReady \/ UnaryNotReady
  BY <1>17 DEF UnaryReady, UnaryNotReady, Throw, Answer, unaryUnchanged
<1>18. CASE UnaryOk
  BY <1>18 DEF UnaryOk, UnaryDone, Answer, unaryUnchanged
<1>19. ASSUME NEW raw \in RawStatus, UnaryErr(raw)
       PROVE  (BufferedMetadata /\ UserMetadataOnce)'
  BY <1>19, StatusToPhp DEF UnaryErr, UnaryDone, Answer, unaryUnchanged
<1>20. CASE Background
  BY <1>20 DEF Background
<1>21. CASE UNCHANGED vars
  BY <1>21 DEF vars
<1>22. QED
  BY <1>1, <1>2, <1>3, <1>4, <1>5, <1>6, <1>7, <1>8, <1>9, <1>10, <1>11, <1>12,
     <1>13, <1>14, <1>15, <1>16, <1>17, <1>18, <1>19, <1>20, <1>21, ZenonT(30) DEF Next,
     PhpCall, StartBatch, Starts, Rejected, PhpStep, UnaryAnswer, Gone

=============================================================================

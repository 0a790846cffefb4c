-------------------------- MODULE GrpcCallProofs ---------------------------
(***************************************************************************)
(* The safety of GrpcCall for every buffer size, every bound and every set *)
(* of batches: IndInv is inductive and implies the invariants; the action  *)
(* properties and ExpiredIsLocal follow from it.                           *)
(***************************************************************************)
EXTENDS GrpcCallContract, GrpcCallTypes, GrpcCallSteps

USE DEF None, End, Err, Null, NoMessage

-----------------------------------------------------------------------------
(* What changes what *)

\* Only RECV_MESSAGE delivers messages, only ready() puts a request on the wire,
\* and a delivered status is never taken back.
LEMMA Frame ==
  ASSUME [Next]_vars
  PROVE  /\ UNCHANGED got \/ RecvMessage
         /\ UNCHANGED sent \/ ReadyOk \/ UnaryReady
         /\ finished => finished'
<1> USE DEF driverVars, callVars, activeStream
<1>1. ASSUME NEW b \in Batches, Rejected(b)
      PROVE  UNCHANGED <<got, sent, finished>>
  BY <1>1, RejectedLemma
<1>2. ASSUME NEW b \in Batches, StreamBatch(b)
      PROVE  UNCHANGED <<got, sent, finished>>
  BY <1>2 DEF StreamBatch, Accepted
<1>3. ASSUME NEW b \in Batches, Starts(b)
      PROVE  UNCHANGED <<got, sent>> /\ ~finished
  BY <1>3, StartsLemma, Zenon DEF ExpiredStream, OpenStream, Spawn
<1>4. ASSUME NEW b \in Batches, ExecuteCall(b)
      PROVE  UNCHANGED <<got, sent>> /\ ~finished
  BY <1>4, ExecuteLemma
<1>5. CASE BatchEmpty \/ Cancel \/ SetCredentials \/ CloseChannel \/ Free
  BY <1>5, SMTT(30) DEF BatchEmpty, Cancel, SetCredentials, CloseChannel, Free
<1>6. CASE PhpStep
  <2>1. CASE SendStreamMessage \/ CloseStreamSend \/ RecvInitialMetadata
    BY <2>1, SMTT(30) DEF SendStreamMessage, CloseStreamSend, RecvInitialMetadata,
       phpUnchanged
  <2>2. CASE RecvMessage
    BY <2>2 DEF RecvMessage
  <2>3. CASE RecvStatus \/ DrainMessages \/ AwaitTrailers
    BY <2>3 DEF RecvStatus, DrainMessages, AwaitTrailers, TrailersArrive, StatusIs
  <2>4. CASE UnaryElapsed
    BY <2>4, Zenon DEF UnaryElapsed, UnaryDone, unaryUnchanged
  <2>5. QED
    BY <1>6, <2>1, <2>2, <2>3, <2>4 DEF PhpStep
<1>7. CASE UnaryAnswer
  <2>1. CASE UnaryReady \/ UnaryNotReady
    BY <2>1 DEF UnaryReady, UnaryNotReady, unaryUnchanged
  <2>2. CASE UnaryOk
    BY <2>2, Zenon DEF UnaryOk, UnaryDone, unaryUnchanged
  <2>3. ASSUME NEW raw \in RawStatus, UnaryErr(raw)
        PROVE  UNCHANGED <<got, sent>> /\ (finished => finished')
    BY <2>3, ZenonT(30) DEF UnaryErr, UnaryDone, unaryUnchanged
  <2>4. QED
    BY <1>7, <2>1, <2>2, <2>3 DEF UnaryAnswer
<1>8. CASE Background
  BY <1>8 DEF Background, DriverStep, TransportStep, Elapsed, CancelArm,
     DeadlineArm, Finish, SendMsg, SendEnd, SendTrailers, ReadyErr, ResponseOk,
     ResponseErr, MessageSome, MessageNone, MessageErr, RequestTaken,
     RequestStreamDropped, DeadlinePasses
<1>9. CASE UNCHANGED vars
  BY <1>9 DEF vars
<1>10. QED
  BY <1>1, <1>2, <1>3, <1>4, <1>5, <1>6, <1>7, <1>8, <1>9
     DEF Next, PhpCall, StartBatch, Starts, Rejected, Gone

-----------------------------------------------------------------------------
(* The inductive invariant *)

\* A call as __construct leaves it satisfies the invariant.
LEMMA InitInv == Init => IndInv
<1> SUFFICES ASSUME Init
             PROVE  IndInv
  OBVIOUS
<1> USE DEF Init, DriverInit
<1>1. DriverTypeOK
  <2>1. msgs \in Seq(Entries) /\ Len(msgs) <= MsgBuf
    BY BufferAssumption
  <2>2. QED
    BY <2>1, BufferAssumption, MaxMessagesAssumption, DeadlinesAssumption
       DEF DriverTypeOK
<1>2. CallTypeOK
  BY MaxMessagesAssumption DEF CallTypeOK, NoReply, Answer
<1>3. FlagsOK
  BY CallAssumption, Zenon DEF FlagsOK
<1>4. Control /\ StatusSource /\ Ended /\ BufferedMetadata
  BY DEF Control, StatusSource, Ended, BufferedMetadata, NoReply, Answer, Blocked,
     Readable
<1>5. Queue
  BY DEF Queue
<1>6. NeverConsumed /\ TruthfulStatus /\ HonestDeadline /\ UserMetadataOnce
  BY DEF NeverConsumed, TruthfulStatus, HonestDeadline, UserMetadataOnce, NoReply,
     Answer
<1>7. QED
  BY <1>1, <1>2, <1>3, <1>4, <1>5, <1>6 DEF IndInv, TypeOK

\* Every step of PHP, of the task, of the transport and of time preserves it.
LEMMA NextInv == IndInv /\ [Next]_vars => IndInv'
<1> SUFFICES ASSUME IndInv, [Next]_vars
             PROVE  IndInv'
  OBVIOUS
<1>0. /\ DriverTypeOK /\ CallTypeOK /\ FlagValues
      /\ Control /\ StatusSource /\ Queue /\ Ended /\ BufferedMetadata
      /\ NeverConsumed /\ TruthfulStatus /\ HonestDeadline /\ UserMetadataOnce
  BY FlagsAgree DEF IndInv, TypeOK
<1>1. DriverTypeOK' /\ CallTypeOK' /\ FlagsOK'
  BY <1>0, DriverTypeStep, CallTypeStep, FlagsStep, FlagsAgreeNext
<1>2. Control' /\ StatusSource' /\ Queue' /\ Ended'
  BY <1>0, ControlStep, StatusSourceStep, QueueStep, EndedStep
<1>3. NeverConsumed' /\ TruthfulStatus' /\ HonestDeadline'
  BY <1>0, StatusStep
<1>4. BufferedMetadata' /\ UserMetadataOnce'
  BY <1>0, MetadataStep
<1>5. QED
  BY <1>1, <1>2, <1>3, <1>4 DEF IndInv, TypeOK

\* IndInv holds in every reachable state of a call, whatever the batches PHP
\* passes and whatever the server and the transport do.
THEOREM Invariance == Spec => []IndInv
  BY InitInv, NextInv, PTL DEF Spec

-----------------------------------------------------------------------------
(* What it implies *)

\* Every variable keeps its type and msgs its capacity.
THEOREM TypeCorrect == Spec => []TypeOK
<1>1. IndInv => TypeOK
  BY DEF IndInv
<1>2. QED
  BY <1>1, Invariance, PTL

\* A null message from RECV_MESSAGE means that PHP has every message of the
\* stream that the driver task read.
THEOREM NullIsTheEnd == Spec => []NullMeansAll
<1>1. IndInv => NullMeansAll
  BY DEF IndInv, Ended, NullMeansAll
<1>2. QED
  BY <1>1, Invariance, PTL

\* When RECV_STATUS_ON_CLIENT has been delivered no task of the call runs and the
\* PHP thread is not blocked.
THEOREM FinishedIsOver == Spec => []FinishedMeansOver
<1>1. IndInv => FinishedMeansOver
  BY DEF IndInv, Control, StatusSource, FinishedMeansOver, Blocked
<1>2. QED
  BY <1>1, Invariance, PTL

\* No sequence of batches makes build_stream_result report that the stream is
\* already consumed.
THEOREM StatusNeverConsumed == Spec => []NeverConsumed
<1>1. IndInv => NeverConsumed
  BY DEF IndInv
<1>2. QED
  BY <1>1, Invariance, PTL

\* No sequence of batches makes build_stream_result report a status other than
\* the task's, unless the task left without one.
THEOREM StatusIsTruthful == Spec => []TruthfulStatus
<1>1. IndInv => TruthfulStatus
  BY DEF IndInv
<1>2. QED
  BY <1>1, Invariance, PTL

\* No status is DEADLINE_EXCEEDED before the deadline, whichever await lost its
\* race and whatever tonic reported.
THEOREM DeadlineIsHonest == Spec => []HonestDeadline
<1>1. IndInv => HonestDeadline
  BY DEF IndInv
<1>2. QED
  BY <1>1, Invariance, PTL

\* The user's metadata goes out with at most one request, however often the
\* batches are split, refused or failed by the plugin.
THEOREM MetadataOnce == Spec => []UserMetadataOnce
<1>1. IndInv => UserMetadataOnce
  BY DEF IndInv
<1>2. QED
  BY <1>1, Invariance, PTL

\* RECV_MESSAGE delivers the stream's messages in order, one by one.
THEOREM Ordered == Spec => InOrder
<1>1. IndInv /\ [Next]_vars => [got' \in {got, got + 1}]_vars
  <2> SUFFICES ASSUME IndInv, [Next]_vars
               PROVE  got' \in {got, got + 1}
    OBVIOUS
  <2>1. CASE RecvMessage
    <3>1. CASE UNCHANGED got
      BY <3>1
    <3>2. CASE msgs # <<>> /\ Head(msgs) > 0 /\ got' = Head(msgs)
      BY <2>1, <3>2, FirstEntry DEF IndInv, TypeOK, Control, RecvMessage, Readable
    <3>3. QED
      BY <2>1, <3>1, <3>2 DEF RecvMessage
  <2>2. CASE UNCHANGED got
    BY <2>2
  <2>3. QED
    BY <2>1, <2>2, Frame
<1>2. QED
  BY <1>1, Invariance, PTL DEF Spec, InOrder

\* After the status no batch sends a request or reads a message again.
THEOREM NoSecondRun == Spec => NoReRun
<1>1. IndInv /\ [Next]_vars =>
        [finished => sent' = sent /\ got' = got /\ finished']_vars
  <2> SUFFICES ASSUME IndInv, [Next]_vars, finished
               PROVE  sent' = sent /\ got' = got /\ finished'
    OBVIOUS
  <2>1. pc \in {"idle", "freed"} /\ driver \in {None, "done"}
    BY DEF IndInv, Control, StatusSource
  <2>2. QED
    BY <2>1, Frame, Zenon DEF ReadyOk, UnaryReady, RecvMessage
<1>2. QED
  BY <1>1, Invariance, PTL DEF Spec, NoReRun

-----------------------------------------------------------------------------
(* A call made with a deadline in the past *)

\* No task, nothing sent, and nothing but the deadline to report.
ExpiredInv ==
  /\ Passed /\ driver = None /\ sent = 0 /\ ~trailers_rx
  /\ pc \notin {"ready", "unary", "drain", "await"}
  /\ reply.message \in {NoMessage, Null}
  /\ reply.status \in {None, "DEADLINE_EXCEEDED"}

\* A step of such a call stays local.
LEMMA ExpiredStep ==
  ASSUME IndInv, NeverConsumed', ExpiredInv, [Next]_vars
  PROVE  ExpiredInv'
<1> USE DEF driverVars, callVars, activeStream, Passed, ExpiredInv
<1>1. CASE BatchEmpty
  BY <1>1 DEF BatchEmpty, NoReply, Answer
<1>2. ASSUME NEW b \in Batches, Rejected(b)
      PROVE  ExpiredInv'
  BY <1>2, RejectedLemma
<1>3. ASSUME NEW b \in Batches, StreamBatch(b)
      PROVE  ExpiredInv'
  BY <1>3, RefusalRange, PhaseRange DEF StreamBatch, Accepted, Continue,
     NoReply, Answer
<1>4. ASSUME NEW b \in Batches, Starts(b)
      PROVE  ExpiredInv'
  BY <1>4, StartsLemma, Zenon DEF ExpiredStream, OpenStream
<1>5. ASSUME NEW b \in Batches, ExecuteCall(b)
      PROVE  ExpiredInv'
  BY <1>5, ExecuteLemma
<1>6. CASE Cancel
  BY <1>6 DEF Cancel
<1>7. CASE SetCredentials \/ CloseChannel
  BY <1>7 DEF SetCredentials, CloseChannel
<1>8. CASE Free
  BY <1>8 DEF Free, NoReply, Answer
<1>9. CASE SendStreamMessage
  BY <1>9, PhaseRange DEF SendStreamMessage, Throw, Continue, Answer,
     phpUnchanged
<1>10. CASE CloseStreamSend
  BY <1>10, PhaseRange DEF CloseStreamSend, Continue, phpUnchanged
<1>11. CASE RecvInitialMetadata
  BY <1>11, PhaseRange DEF RecvInitialMetadata, Continue, phpUnchanged
<1>12. CASE RecvMessage
  <2>1. msgs = <<>>
    BY DEF IndInv, Queue
  <2>2. QED
    BY <1>12, <2>1, PhaseRange DEF RecvMessage, MessageIs, Continue, Answer,
       phpUnchanged
<1>13. CASE RecvStatus
  <2>1. cached_trailers \in {None, "DEADLINE_EXCEEDED"}
    BY DEF IndInv, StatusSource
  <2>2. QED
    BY <1>13, <2>1 DEF RecvStatus, StatusIs, Answer, phpUnchanged, NeverConsumed
<1>14. CASE DrainMessages
  BY <1>14 DEF DrainMessages, TrailersArrive, StatusIs, Answer, Disconnected,
     phpUnchanged
<1>15. CASE AwaitTrailers
  BY <1>15 DEF AwaitTrailers, TrailersArrive, StatusIs, Answer, phpUnchanged
<1>16. CASE UnaryElapsed
  BY <1>16 DEF UnaryElapsed, UnaryDone, Answer, unaryUnchanged
<1>17. CASE UnaryReady \/ UnaryNotReady
  BY <1>17 DEF UnaryReady, UnaryNotReady, Throw, Answer, unaryUnchanged
<1>18. CASE UnaryOk
  BY <1>18 DEF UnaryOk, UnaryDone, Answer, unaryUnchanged
<1>19. ASSUME NEW raw \in RawStatus, UnaryErr(raw)
       PROVE  ExpiredInv'
  BY <1>19, StatusToPhp DEF UnaryErr, UnaryDone, Answer, unaryUnchanged
<1>20. CASE Background
  BY <1>20, Zenon DEF Background, DriverStep, TransportStep, Elapsed, CancelArm,
     DeadlineArm, Finish, SendMsg, SendEnd, SendTrailers, ReadyOk, ReadyErr,
     ResponseOk, ResponseErr, MessageSome, MessageNone, MessageErr,
     RequestTaken, RequestStreamDropped, DeadlinePasses, OnWire
<1>21. CASE UNCHANGED vars
  BY <1>21 DEF vars
<1>22. QED
  BY <1>1, <1>2, <1>3, <1>4, <1>5, <1>6, <1>7, <1>8, <1>9, <1>10, <1>11, <1>12,
     <1>13, <1>14, <1>15, <1>16, <1>17, <1>18, <1>19, <1>20, <1>21, ZenonT(30) DEF Next,
     PhpCall, StartBatch, Starts, Rejected, PhpStep, UnaryAnswer, Gone

\* A call whose deadline has passed when it is made never puts a request on the
\* wire, delivers no message and reports DEADLINE_EXCEEDED or nothing.
THEOREM ExpiredStaysLocal == Spec => ExpiredIsLocal
<1>1. Init /\ Passed => ExpiredInv
  BY DEF Init, DriverInit, ExpiredInv, NoReply, Answer
<1>2. IndInv /\ IndInv' /\ ExpiredInv /\ [Next]_vars => ExpiredInv'
  BY ExpiredStep DEF IndInv
<1>3. ExpiredInv => /\ sent = 0
                    /\ reply.message \in {NoMessage, Null}
                    /\ reply.status \in {None, "DEADLINE_EXCEEDED"}
  BY DEF ExpiredInv
<1>4. QED
  BY <1>1, <1>2, <1>3, Invariance, PTL DEF Spec, ExpiredIsLocal

-----------------------------------------------------------------------------
(* Waiting *)

\* Promises: the task fills in the headers before it leaves connecting and
\* response behind and the trailers when it returns, and nobody waits for the
\* headers or trailers of a stream without a task.
LEMMA PromisesStep ==
  ASSUME IndInv, Promises, [Next]_vars
  PROVE  Promises'
<1> USE DEF driverVars, callVars, activeStream, Promises
<1>1. CASE BatchEmpty
  BY <1>1 DEF BatchEmpty, NoReply, Answer
<1>2. ASSUME NEW b \in Batches, Rejected(b)
      PROVE  Promises'
  BY <1>2, RejectedLemma
<1>3. ASSUME NEW b \in Batches, StreamBatch(b)
      PROVE  Promises'
  BY <1>3, RefusalRange, PhaseRange DEF StreamBatch, Accepted, Continue,
     NoReply, Answer
<1>4. ASSUME NEW b \in Batches, Starts(b)
      PROVE  Promises'
  <2>1. driver = None /\ pc' \notin {"drain", "await"}
    BY <1>4, StartsLemma DEF IndInv, Control
  <2>2. CASE UNCHANGED <<driverVars, activeStream>>
    BY <2>1, <2>2
  <2>3. CASE ExpiredStream
    BY <2>1, <2>3 DEF ExpiredStream
  <2>4. ASSUME NEW metadata, NEW bidi, OpenStream(metadata, bidi)
        PROVE  Promises'
    BY <2>1, <2>4, SMTT(30) DEF OpenStream, Spawn
  <2>5. QED
    BY <1>4, <2>2, <2>3, <2>4, StartsLemma
<1>5. ASSUME NEW b \in Batches, ExecuteCall(b)
      PROVE  Promises'
  BY <1>5, ExecuteLemma DEF ExecuteCall, UnaryDone, Throw
<1>6. CASE Cancel
  BY <1>6 DEF Cancel
<1>7. CASE SetCredentials \/ CloseChannel
  BY <1>7 DEF SetCredentials, CloseChannel
<1>8. CASE Free
  BY <1>8 DEF Free, NoReply, Answer
<1>9. CASE SendStreamMessage
  BY <1>9, PhaseRange DEF SendStreamMessage, Throw, Continue, Answer,
     phpUnchanged
<1>10. CASE CloseStreamSend
  BY <1>10, PhaseRange DEF CloseStreamSend, Continue, phpUnchanged
<1>11. CASE RecvInitialMetadata
  BY <1>11, PhaseRange DEF RecvInitialMetadata, Continue, phpUnchanged
<1>12. CASE RecvMessage
  BY <1>12, PhaseRange, Zenon DEF RecvMessage, MessageIs, Continue, phpUnchanged
<1>13. CASE RecvStatus
  BY <1>13 DEF RecvStatus, StatusIs, phpUnchanged
<1>14. CASE DrainMessages
  <2>1. ASSUME msgs # <<>>, ~(Head(msgs) > 0)
        PROVE  driver \in {"trailers", "done"}
    <3>1. DriverTypeOK /\ Queue
      BY DEF IndInv, TypeOK
    <3>2. msgs \in Seq(Entries)
      BY <3>1 DEF DriverTypeOK
    <3>3. Head(msgs) = msgs[1] /\ 1 \in 1 .. Len(msgs)
      BY <2>1, <3>2, ReceiveEntry, MaxMessagesAssumption DEF Entries
    <3>4. QED
      BY <2>1, <3>1, <3>3 DEF Queue, DriverTypeOK
  <2>2. QED
    BY <1>14, <2>1 DEF DrainMessages, TrailersArrive, StatusIs, Disconnected,
       phpUnchanged
<1>15. CASE AwaitTrailers
  BY <1>15 DEF AwaitTrailers, TrailersArrive, StatusIs, phpUnchanged
<1>16. CASE UnaryElapsed
  BY <1>16 DEF UnaryElapsed, UnaryDone, unaryUnchanged
<1>17. CASE UnaryReady \/ UnaryNotReady
  BY <1>17 DEF UnaryReady, UnaryNotReady, Throw, Answer, unaryUnchanged
<1>18. CASE UnaryOk
  BY <1>18 DEF UnaryOk, UnaryDone, unaryUnchanged
<1>19. ASSUME NEW raw \in RawStatus, UnaryErr(raw)
       PROVE  Promises'
  BY <1>19 DEF UnaryErr, UnaryDone, unaryUnchanged
<1>20. CASE (Elapsed \/ CancelArm \/ DeadlineArm) /\ UNCHANGED callVars
  BY <1>20 DEF Elapsed, CancelArm, DeadlineArm, Finish, EndWith
<1>21. CASE (SendMsg \/ SendEnd \/ SendTrailers) /\ UNCHANGED callVars
  BY <1>21 DEF SendMsg, SendEnd, SendTrailers
<1>22. CASE (ReadyOk \/ ReadyErr \/ ResponseOk) /\ UNCHANGED callVars
  BY <1>22 DEF ReadyOk, ReadyErr, ResponseOk, EndWith
<1>23. ASSUME NEW raw \in RawStatus,
              (ResponseErr(raw) \/ MessageErr(raw)) /\ UNCHANGED callVars
       PROVE  Promises'
  BY <1>23, StatusToPhp DEF Status, ResponseErr, MessageErr, Finish, EndWith
<1>24. CASE (MessageSome \/ MessageNone) /\ UNCHANGED callVars
  BY <1>24 DEF MessageSome, MessageNone, Finish, EndWith
<1>25. CASE /\ RequestTaken \/ RequestStreamDropped \/ DeadlinePasses
            /\ UNCHANGED callVars
  BY <1>25 DEF RequestTaken, RequestStreamDropped, DeadlinePasses
<1>26. CASE UNCHANGED vars
  BY <1>26 DEF vars
<1>27. QED
  BY <1>1, <1>2, <1>3, <1>4, <1>5, <1>6, <1>7, <1>8, <1>9, <1>10, <1>11, <1>12,
     <1>13, <1>14, <1>15, <1>16, <1>17, <1>18, <1>19, <1>20, <1>21, <1>22,
     <1>23, <1>24, <1>25, <1>26, ZenonT(30) DEF Next, PhpCall, StartBatch, Starts,
     Rejected, PhpStep, UnaryAnswer, Background, DriverStep, TransportStep, Gone

\* While a receive waits, the driver task exists and is not parked on a full
\* buffer: whatever the buffer sizes, the two threads never wait for each other.
THEOREM NobodyWaitsInVain == Spec => []NoMutualWait
<1>1. Init => Promises
  BY DEF Init, DriverInit, Promises
<1>2. IndInv /\ Promises /\ [Next]_vars => Promises'
  BY PromisesStep
<1>3. IndInv /\ Promises => NoMutualWait
  <2> SUFFICES ASSUME IndInv, Promises, PhpWaits
               PROVE  driver \notin {None, "done"} /\ ~TaskWaits
    BY DEF NoMutualWait
  <2>1. driver \notin {None, "done"}
    BY DEF PhpWaits, Promises, Disconnected
  <2>2. msgs = <<>> => HasRoom
    BY BufferAssumption DEF HasRoom
  <2>3. ~TaskWaits
    BY <2>1, <2>2 DEF PhpWaits, Promises, TaskWaits
  <2>4. QED
    BY <2>1, <2>3
<1>4. QED
  BY Invariance, <1>1, <1>2, <1>3, PTL DEF Spec

-----------------------------------------------------------------------------
(* The contract *)

\* A task that reads the response has put its request on the wire.
Requested == driver \in {"response", "message", "send"} => sent > 0

\* Only ready() lets the task go on to the response.
LEMMA RequestedStep ==
  ASSUME IndInv, Requested, [Next]_vars
  PROVE  Requested'
<1> USE DEF driverVars, callVars, activeStream, Requested
<1>1. sent \in Nat
  BY DEF IndInv, TypeOK, DriverTypeOK
<1>2. CASE Background
  <2>1. CASE ReadyOk
    BY <1>1, <2>1 DEF ReadyOk
  <2>2. CASE DriverStep \/ DeadlinePasses
    BY <2>2 DEF DriverStep, Elapsed, CancelArm, DeadlineArm, Finish, EndWith,
       SendMsg, SendEnd, SendTrailers, DeadlinePasses
  <2>3. CASE ReadyErr \/ ResponseOk \/ MessageSome \/ MessageNone
    BY <2>3 DEF ReadyErr, ResponseOk, MessageSome, MessageNone, Finish, EndWith
  <2>4. CASE \/ RequestTaken \/ RequestStreamDropped
             \/ \E raw \in RawStatus : ResponseErr(raw) \/ MessageErr(raw)
    BY <2>4 DEF RequestTaken, RequestStreamDropped, ResponseErr, MessageErr, Finish,
       EndWith
  <2>5. QED
    BY <1>2, <2>1, <2>2, <2>3, <2>4 DEF Background, TransportStep
<1>3. ASSUME NEW b \in Batches, StartBatch(b)
      PROVE  Requested'
  <2>1. CASE Rejected(b)
    BY <2>1, RejectedLemma
  <2>2. CASE StreamBatch(b)
    BY <2>2 DEF StreamBatch
  <2>3. CASE Starts(b)
    BY <2>3, StartsLemma, Zenon DEF ExpiredStream, OpenStream, Spawn
  <2>4. CASE ExecuteCall(b)
    BY <2>4, ExecuteLemma, SMTT(30)
  <2>5. QED
    BY <1>3, <2>1, <2>2, <2>3, <2>4 DEF StartBatch, Starts, Rejected
<1>4. CASE BatchEmpty \/ Cancel \/ SetCredentials \/ CloseChannel \/ Free
  BY <1>4 DEF BatchEmpty, Cancel, SetCredentials, CloseChannel, Free
<1>5. CASE PhpStep
  <2>1. UNCHANGED <<driver, sent>>
    BY <1>5, Zenon DEF PhpStep, SendStreamMessage, CloseStreamSend,
       RecvInitialMetadata, RecvMessage, RecvStatus, DrainMessages, AwaitTrailers,
       UnaryElapsed, unaryUnchanged
  <2>2. QED
    BY <2>1
<1>6. CASE UnaryAnswer
  BY <1>1, <1>6, SMTT(30) DEF UnaryAnswer, UnaryReady, UnaryNotReady, UnaryOk, UnaryErr,
     unaryUnchanged
<1>7. CASE UNCHANGED vars
  BY <1>7 DEF vars
<1>8. QED
  BY <1>2, <1>3, <1>4, <1>5, <1>6, <1>7 DEF Next, PhpCall, Gone

\* The values of the mapped closed, before and after a step.
LEMMA ClosedValue ==
  /\ ResponseClosed = TRUE \/ ResponseClosed = FALSE
  /\ driver \in {"end", "trailers", "done"} => ResponseClosed = TRUE
  /\ driver = None /\ (stream_state \/ finished \/ pc = "freed") =>
       ResponseClosed = TRUE
  /\ driver = None /\ ~stream_state /\ ~finished /\ pc # "freed" =>
       ResponseClosed = FALSE
  /\ driver \in {"ready", "response", "message", "send"} => ResponseClosed = FALSE
  BY DEF ResponseClosed

\* The same in the next state.
LEMMA ClosedValueNext ==
  /\ ResponseClosed' = TRUE \/ ResponseClosed' = FALSE
  /\ driver' \in {"end", "trailers", "done"} => ResponseClosed' = TRUE
  /\ driver' = None /\ (stream_state' \/ finished' \/ pc' = "freed") =>
       ResponseClosed' = TRUE
  /\ driver' = None /\ ~stream_state' /\ ~finished' /\ pc' # "freed" =>
       ResponseClosed' = FALSE
  /\ driver' \in {"ready", "response", "message", "send"} => ResponseClosed' = FALSE
  BY DEF ResponseClosed

\* Batches and reads that leave the stream, the task and the status alone leave
\* the response as it is.
LEMMA ClosedSame ==
  ASSUME UNCHANGED <<driver, stream_state, finished>>, pc # "freed", pc' # "freed"
  PROVE  ResponseClosed' = ResponseClosed
  BY DEF ResponseClosed

\* A unary call either delivers its status, which ends a response without stream
\* messages, or leaves everything the contract speaks of as it was.
LEMMA Finishes ==
  ASSUME FlagValues, FlagValues',
         ~stream_state, ~finished, pc # "freed", pc' # "freed",
         driver = None, read = 0,
         UNCHANGED <<activeStream, got, sawNull, driver, read, sent>>
  PROVE  Contract!Finish \/ UNCHANGED Contract!vars
<1> USE DEF activeStream, Contract!vars
<1>1. ResponseClosed = FALSE
  BY ClosedValue
<1>2. CASE finished'
  <2>1. finished' = TRUE /\ ResponseClosed' = TRUE
    BY <1>2, ClosedValueNext DEF FlagValues
  <2>2. QED
    BY <2>1, Zenon DEF Contract!Finish
<1>3. CASE ~finished'
  <2>1. finished' = finished
    BY <1>3, Zenon DEF FlagValues
  <2>2. QED
    BY <2>1, ClosedSame
<1>4. QED
  BY <1>2, <1>3

\* Every step of a call is a step of the contract or none.
LEMMA ContractStep ==
  ASSUME IndInv, IndInv', Requested, [Next]_vars
  PROVE  Contract!Next \/ UNCHANGED Contract!vars
<1> USE DEF driverVars, callVars, activeStream, Contract!vars
<1>0. /\ DriverTypeOK /\ CallTypeOK /\ FlagValues /\ FlagValues'
      /\ Control /\ StatusSource /\ Queue /\ Ended
  BY FlagsAgree, FlagsStep DEF IndInv, TypeOK
<1>1. ASSUME NEW b \in Batches, Rejected(b)
      PROVE  UNCHANGED Contract!vars
  BY <1>1, RejectedLemma, ClosedSame
<1>2. ASSUME NEW b \in Batches, StreamBatch(b)
      PROVE  UNCHANGED Contract!vars
  BY <1>2, PhaseRange, ClosedSame DEF StreamBatch, Accepted, Continue
<1>3. ASSUME NEW b \in Batches, Starts(b)
      PROVE  Contract!Close \/ UNCHANGED Contract!vars
  <2>1. /\ pc = "idle" /\ ~stream_state /\ ~finished /\ ~finished'
        /\ pc' # "freed" /\ driver = None
        /\ UNCHANGED <<got, sawNull>>
    BY <1>0, <1>3, StartsLemma DEF Control
  <2>2. UNCHANGED finished
    BY <2>1, <1>3, Zenon DEF Starts, StartBidiStream, BufferSend, StartServerStream
  <2>3. ResponseClosed = FALSE
    BY <2>1, ClosedValue
  <2>4. CASE UNCHANGED <<driverVars, activeStream>>
    BY <2>1, <2>2, <2>4, ClosedSame
  <2>5. CASE ExpiredStream
    <3>1. ResponseClosed' = TRUE
      BY <2>1, <2>5, ClosedValueNext DEF ExpiredStream
    <3>2. QED
      BY <2>1, <2>2, <2>3, <2>5, <3>1, Zenon DEF ExpiredStream, Contract!Close
  <2>6. ASSUME NEW metadata, NEW bidi, OpenStream(metadata, bidi)
        PROVE  UNCHANGED Contract!vars
    <3>1. ResponseClosed' = FALSE
      BY <2>6, ClosedValueNext DEF OpenStream, Spawn
    <3>2. QED
      BY <2>1, <2>2, <2>3, <2>6, <3>1, Zenon DEF OpenStream, Spawn
  <2>7. QED
    BY <1>3, <2>4, <2>5, <2>6, StartsLemma
<1>4. ASSUME NEW b \in Batches, ExecuteCall(b)
      PROVE  Contract!Finish \/ UNCHANGED Contract!vars
  <2>1. /\ pc = "idle" /\ ~stream_state /\ ~finished /\ pc' # "freed"
        /\ driver = None /\ read = 0
        /\ UNCHANGED <<activeStream, got, sawNull, driver, read, sent>>
    BY <1>0, <1>4, ExecuteLemma, SMTT(30) DEF Control, Queue
  <2>2. QED
    BY <1>0, <2>1, Finishes
<1>5. CASE BatchEmpty \/ Cancel \/ SetCredentials \/ CloseChannel
  BY <1>5, ClosedSame DEF BatchEmpty, Cancel, SetCredentials, CloseChannel
<1>6. CASE Free
  <2>1. /\ pc' = "freed" /\ pc # "freed"
        /\ UNCHANGED <<driver, finished, got, sawNull, read, sent>>
    BY <1>6 DEF Free
  <2>2. ResponseClosed = TRUE => ResponseClosed' = TRUE
    BY <1>0, <2>1, ClosedValue, ClosedValueNext, SMTT(30) DEF DriverTypeOK
  <2>3. QED
    BY <2>1, <2>2, ClosedValue, ClosedValueNext, Zenon DEF Contract!Close,
       Contract!Next
<1>7. CASE SendStreamMessage \/ CloseStreamSend \/ RecvInitialMetadata
  BY <1>7, PhaseRange, ClosedSame DEF SendStreamMessage, CloseStreamSend,
     RecvInitialMetadata, phpUnchanged, Continue, Throw
<1>8. CASE RecvMessage
  <2>1. /\ pc = "message" /\ pc' # "freed" /\ ~finished /\ stream_state /\ Readable
        /\ UNCHANGED <<driver, stream_state, finished, read, sent>>
    BY <1>0, <1>8, PhaseRange DEF RecvMessage, MessageIs, Continue, phpUnchanged,
       Control, Readable
  <2>2. got \in Nat /\ read \in Nat /\ got' <= read
    <3>1. got \in Nat /\ read \in Nat
      BY <1>0, MaxMessagesAssumption DEF DriverTypeOK, CallTypeOK
    <3>2. got' <= read'
      <4>1. Queue'
        BY Zenon DEF IndInv
      <4>2. QED
        BY <4>1, Zenon DEF Queue
    <3>3. QED
      BY <2>1, <3>1, <3>2
  <2>3. ResponseClosed' = ResponseClosed
    BY <2>1, ClosedSame
  <2>4. CASE UNCHANGED got /\ sawNull' = TRUE
    <3>1. got = read /\ driver \in {None, "trailers", "done"}
      BY <2>1, <2>4 DEF IndInv, Ended
    <3>2. ResponseClosed = TRUE
      BY <2>1, <3>1, ClosedValue
    <3>3. sawNull = TRUE \/ sawNull = FALSE
      BY <1>0 DEF FlagValues
    <3>4. QED
      BY <2>1, <2>3, <2>4, <3>1, <3>2, <3>3, Zenon DEF Contract!SeeEnd, Contract!Next
  <2>5. CASE msgs # <<>> /\ Head(msgs) > 0 /\ got' = Head(msgs) /\ UNCHANGED sawNull
    <3>1. got' = got + 1 /\ ~sawNull
      BY <1>0, <2>1, <2>5, FirstEntry DEF Ended
    <3>2. QED
      BY <2>1, <2>2, <2>3, <2>5, <3>1 DEF Contract!Deliver, Contract!Next
  <2>6. QED
    BY <1>8, <2>4, <2>5, Zenon DEF RecvMessage
<1>9. CASE RecvStatus \/ DrainMessages \/ AwaitTrailers
  <2>1. /\ stream_state /\ ~finished /\ pc # "freed" /\ pc' # "freed"
        /\ UNCHANGED <<driver, stream_state, read, sent, got, sawNull>>
    BY <1>0, <1>9 DEF RecvStatus, DrainMessages, AwaitTrailers, TrailersArrive,
       StatusIs, phpUnchanged, Control
  <2>2. CASE UNCHANGED finished
    BY <2>1, <2>2, ClosedSame
  <2>3. CASE finished' = TRUE
    <3>1. driver \in {None, "done"}
      BY <2>1, <2>3 DEF IndInv, StatusSource
    <3>2. ResponseClosed = TRUE /\ ResponseClosed' = TRUE
      BY <2>1, <2>3, <3>1, ClosedValue, ClosedValueNext
    <3>3. QED
      BY <2>1, <2>3, <3>2, Zenon DEF Contract!Finish, Contract!Next
  <2>4. finished' = TRUE \/ UNCHANGED finished
    BY <1>0, <2>1, Zenon DEF FlagValues
  <2>5. QED
    BY <2>2, <2>3, <2>4, ZenonT(30)
<1>10. CASE UnaryElapsed \/ UnaryOk \/ \E raw \in RawStatus : UnaryErr(raw)
  <2>1. /\ ~stream_state /\ ~finished /\ pc # "freed" /\ pc' # "freed"
        /\ driver = None /\ read = 0
        /\ UNCHANGED <<activeStream, got, sawNull, driver, read, sent>>
    BY <1>0, <1>10, Zenon DEF UnaryElapsed, UnaryOk, UnaryErr, UnaryDone,
       unaryUnchanged, Control, Queue
  <2>2. QED
    BY <1>0, <2>1, Finishes DEF Contract!Next
<1>11. CASE UnaryReady \/ UnaryNotReady
  <2>1. /\ ~stream_state /\ ~finished /\ driver = None /\ pc # "freed"
        /\ pc' # "freed"
        /\ UNCHANGED <<driver, stream_state, finished, read, got, sawNull>>
    BY <1>0, <1>11 DEF UnaryReady, UnaryNotReady, Control, Throw, unaryUnchanged
  <2>2. ResponseClosed = FALSE /\ ResponseClosed' = FALSE
    BY <2>1, ClosedValue, ClosedSame
  <2>3. QED
    BY <1>11, <2>1, <2>2, Zenon DEF UnaryReady, UnaryNotReady, Contract!Request,
       Contract!Next
<1>12. CASE Background
  <2>1. UNCHANGED <<pc, stream_state, finished, got, sawNull>>
    BY <1>12 DEF Background
  <2>2. CASE ReadyOk
    BY <2>1, <2>2, ClosedValue, ClosedValueNext, Zenon DEF ReadyOk, Contract!Request,
       Contract!Next
  <2>3. CASE MessageSome
    BY <2>1, <2>3, ClosedValue, ClosedValueNext, Zenon DEF MessageSome, Requested,
       Contract!Produce, Contract!Next
  <2>4. CASE \/ Elapsed \/ CancelArm \/ DeadlineArm \/ ReadyErr \/ MessageNone
             \/ \E raw \in RawStatus : ResponseErr(raw) \/ MessageErr(raw)
    <3>1. /\ driver \in {"ready", "response", "message"}
          /\ driver' \in {"end", "done"} /\ UNCHANGED <<read, sent>>
      BY <2>4 DEF Elapsed, CancelArm, DeadlineArm, ReadyErr, MessageNone,
         ResponseErr, MessageErr, Finish, EndWith
    <3>2. QED
      BY <2>1, <3>1, ClosedValue, ClosedValueNext, SMTT(30) DEF Contract!Close, Contract!Next
  <2>5. CASE SendMsg
    <3>1. /\ driver = "send" /\ driver' \in {"message", "done"}
          /\ UNCHANGED <<read, sent>>
      BY <2>5 DEF SendMsg
    <3>2. QED
      BY <2>1, <3>1, ClosedValue, ClosedValueNext, Zenon DEF Contract!Close,
         Contract!Next
  <2>6. CASE ResponseOk \/ SendEnd \/ SendTrailers
    <3>1. CASE ResponseOk
      BY <2>1, <3>1, ClosedValue, ClosedValueNext, Zenon DEF ResponseOk
    <3>2. CASE SendEnd
      BY <2>1, <3>2, ClosedValue, ClosedValueNext, Zenon DEF SendEnd
    <3>3. CASE SendTrailers
      BY <2>1, <3>3, ClosedValue, ClosedValueNext, Zenon DEF SendTrailers
    <3>4. QED
      BY <2>6, <3>1, <3>2, <3>3
  <2>7. CASE RequestTaken \/ RequestStreamDropped \/ DeadlinePasses
    <3>1. UNCHANGED <<driver, read, sent>>
      BY <2>7 DEF RequestTaken, RequestStreamDropped, DeadlinePasses
    <3>2. UNCHANGED ResponseClosed
      BY <2>1, <3>1 DEF ResponseClosed
    <3>3. QED
      BY <2>1, <3>1, <3>2
  <2>8. QED
    BY <1>12, <2>2, <2>3, <2>4, <2>5, <2>6, <2>7 DEF Background, DriverStep,
       TransportStep
<1>13. CASE UNCHANGED vars
  <2>1. UNCHANGED ResponseClosed
    BY <1>13 DEF ResponseClosed, vars
  <2>2. QED
    BY <1>13, <2>1 DEF vars
<1>14. QED
  BY <1>1, <1>2, <1>3, <1>4, <1>5, <1>6, <1>7, <1>8, <1>9, <1>10, <1>11, <1>12,
     <1>13, ZenonT(30) DEF Next, PhpCall, StartBatch, Starts, Rejected, PhpStep,
     UnaryAnswer, Gone, Contract!Next

\* The call implements the contract, for every buffer size and every set of
\* batches: started, buffered, expired, cancelled, freed or run more than once.
THEOREM ContractKept == Spec => KeepsContract
<1>1. Init => Contract!Init /\ Requested
  BY DEF Init, DriverInit, Contract!Init, ResponseClosed, Requested
<1>2. IndInv /\ Requested /\ [Next]_vars => Requested'
  BY RequestedStep
<1>3. IndInv /\ IndInv' /\ Requested /\ [Next]_vars =>
        [Contract!Next]_(Contract!vars)
  BY ContractStep
<1>4. QED
  BY <1>1, <1>2, <1>3, Invariance, PTL DEF Spec, KeepsContract, Contract!Spec

-----------------------------------------------------------------------------
(* Progress *)

\* The steps left: of the PHP thread in its batch; of whoever takes what the
\* channels hold; and of the task, which reads a message and sends it, and of
\* the clock.
PhpLeft(p) ==
  IF p = "send" THEN 7 ELSE IF p = "close" THEN 6 ELSE IF p = "metadata" THEN 5
  ELSE IF p = "message" THEN 4 ELSE IF p = "status" THEN 3
  ELSE IF p \in {"drain", "ready"} THEN 2 ELSE IF p \in {"await", "unary"} THEN 1 ELSE 0
TaskLeft(d) ==
  IF d \in {"ready", "send"} THEN 6 ELSE IF d = "response" THEN 5 ELSE IF d = "message" THEN 4
  ELSE IF d = "end" THEN 3 ELSE IF d = "trailers" THEN 1 ELSE 0
Requests == reqs + (IF req_rx THEN 1 ELSE 0)
Held == Len(msgs) + Requests
ClockLeft == IF deadline = "pending" THEN 1 ELSE 0
Ahead == 3 * (MaxMessages - read) + TaskLeft(driver) + ClockLeft
Left == 2 * PhpLeft(pc) + Held + Ahead

\* The await of the PHP thread is the first of the operations left.
Staged == pc \in {"send", "close", "metadata", "message", "status"} => pc = Phase(todo)

\* What is left is a number.
LEMMA PhpLeftNat == \A p : PhpLeft(p) \in Nat
  BY DEF PhpLeft

LEMMA TaskLeftNat == \A d : TaskLeft(d) \in Nat
  BY DEF TaskLeft

LEMMA LeftParts ==
  ASSUME DriverTypeOK
  PROVE  /\ Len(msgs) \in Nat /\ reqs \in Nat /\ Requests \in Nat
         /\ Held \in Nat /\ Ahead \in Nat
<1>1. msgs \in Seq(Entries) /\ reqs \in 0 .. ReqBuf /\ read \in 0 .. MaxMessages
  BY DEF DriverTypeOK
<1>2. MaxMessages - read \in Nat /\ reqs \in Nat
  BY <1>1, MaxMessagesAssumption, BufferAssumption
<1>3. ClockLeft \in Nat
  BY DEF ClockLeft
<1>4. Ahead \in Nat
  BY <1>2, <1>3, TaskLeftNat DEF Ahead
<1>5. QED
  BY <1>1, <1>2, <1>4 DEF Held, Requests

\* An operation that is done leaves a later one.
LEMMA PhaseFalls ==
  ASSUME NEW ops
  PROVE  /\ Phase(ops) = "send" => PhpLeft(Phase(ops \ {"SEND_MESSAGE"})) < 7
         /\ Phase(ops) = "close" => PhpLeft(Phase(ops \ {"SEND_CLOSE_FROM_CLIENT"})) < 6
         /\ Phase(ops) = "metadata" => PhpLeft(Phase(ops \ {"RECV_INITIAL_METADATA"})) < 5
         /\ Phase(ops) = "message" => PhpLeft(Phase(ops \ {"RECV_MESSAGE"})) < 4
<1>1. /\ PhpLeft("close") = 6 /\ PhpLeft("metadata") = 5 /\ PhpLeft("message") = 4
      /\ PhpLeft("status") = 3 /\ PhpLeft("idle") = 0
  BY DEF PhpLeft
<1>2. /\ Phase(ops) = "send" =>
           Phase(ops \ {"SEND_MESSAGE"}) \in {"close", "metadata", "message", "status", "idle"}
      /\ Phase(ops) = "close" =>
           Phase(ops \ {"SEND_CLOSE_FROM_CLIENT"}) \in {"metadata", "message", "status", "idle"}
  BY DEF Phase
<1>3. /\ Phase(ops) = "metadata" =>
           Phase(ops \ {"RECV_INITIAL_METADATA"}) \in {"message", "status", "idle"}
      /\ Phase(ops) = "message" => Phase(ops \ {"RECV_MESSAGE"}) \in {"status", "idle"}
  BY DEF Phase
<1>4. QED
  BY <1>1, <1>2, <1>3

\* startBatch and its awaits take the operations in this order.
LEMMA StagedStep ==
  ASSUME Staged, [Next]_vars
  PROVE  Staged'
<1>1. ASSUME NEW ops, NEW answer, Continue(ops, answer) PROVE Staged'
  BY <1>1 DEF Continue, Staged
<1>2. ASSUME pc' \notin {"send", "close", "metadata", "message", "status"} PROVE Staged'
  BY <1>2 DEF Staged
<1>3. ASSUME UNCHANGED <<pc, todo>> PROVE Staged'
  BY <1>3 DEF Staged
<1>4. ASSUME NEW b \in Batches, Starts(b) PROVE Staged'
  <2>1. CASE PluginFails \/ PathRejected
    BY <1>2, <2>1 DEF PluginFails, PathRejected, Throw
  <2>2. QED
    BY <1>1, <1>4, <2>1, StartsBy, Zenon
<1>5. ASSUME NEW b \in Batches, Rejected(b) \/ ExecuteCall(b) PROVE Staged'
  BY <1>2, <1>5, RejectedLemma, ExecuteLemma
<1>6. ASSUME NEW b \in Batches, StreamBatch(b) PROVE Staged'
  BY <1>1, <1>6, Zenon DEF StreamBatch
<1>7. CASE BatchEmpty \/ Cancel \/ SetCredentials \/ CloseChannel
  BY <1>3, <1>7 DEF BatchEmpty, Cancel, callVars, SetCredentials, CloseChannel
<1>8. CASE Free
  BY <1>2, <1>8 DEF Free
<1>9. CASE SendStreamMessage
  <2>1. CASE \E e : Throw(e)
    BY <1>2, <2>1 DEF Throw
  <2>2. QED
    BY <1>1, <1>9, <2>1, Zenon DEF SendStreamMessage
<1>10. CASE CloseStreamSend \/ RecvInitialMetadata
  BY <1>1, <1>10, Zenon DEF CloseStreamSend, RecvInitialMetadata
<1>11. CASE RecvMessage
  BY <1>1, <1>11, Zenon DEF RecvMessage, MessageIs
<1>12. CASE RecvStatus \/ DrainMessages \/ AwaitTrailers
  <2>1. pc' \in {"idle", "drain", "await"}
    BY <1>12 DEF RecvStatus, DrainMessages, AwaitTrailers, TrailersArrive, StatusIs
  <2>2. QED
    BY <1>2, <2>1, SMTT(30)
<1>13. CASE UnaryElapsed \/ UnaryAnswer
  <2>1. pc' \in {"idle", "unary"}
    BY <1>13 DEF UnaryElapsed, UnaryAnswer, UnaryReady, UnaryNotReady, UnaryOk, UnaryErr,
       UnaryDone, Throw
  <2>2. QED
    BY <1>2, <2>1
<1>14. CASE Background \/ Gone \/ UNCHANGED vars
  BY <1>3, <1>14 DEF Background, callVars, Gone, vars
<1>15. QED
  BY <1>4, <1>5, <1>6, <1>7, <1>8, <1>9, <1>10, <1>11, <1>12, <1>13, <1>14, ZenonT(30)
     DEF Next, PhpCall, StartBatch, Starts, Rejected, PhpStep

\* A step of the PHP thread leaves less.
LEMMA PhpFalls ==
  ASSUME DriverTypeOK, Staged, PhpStep \/ UnaryAnswer
  PROVE  Left' < Left
<1>1. ASSUME UNCHANGED <<read, driver, deadline>>, Held' \in Nat,
             \/ PhpLeft(pc') < PhpLeft(pc) /\ Held' <= Held + 1
             \/ PhpLeft(pc') = PhpLeft(pc) /\ Held' < Held
      PROVE  Left' < Left
  <2>1. Ahead' = Ahead
    BY <1>1 DEF Ahead, ClockLeft
  <2>2. 2 * PhpLeft(pc') + Held' < 2 * PhpLeft(pc) + Held
    BY <1>1, LeftParts, PhpLeftNat
  <2>3. QED
    BY <1>1, <2>1, <2>2, LeftParts, PhpLeftNat DEF Left
<1>2. ASSUME UNCHANGED <<msgs, reqs, req_rx>> PROVE Held' \in Nat /\ Held' <= Held + 1
  BY <1>2, LeftParts DEF Held, Requests
<1>3. ASSUME msgs # <<>>, msgs' = Tail(msgs), UNCHANGED <<reqs, req_rx>>
      PROVE  Held' \in Nat /\ Held' < Held
  <2>1. msgs \in Seq(Entries)
    BY DEF DriverTypeOK
  <2>2. Len(msgs') \in Nat /\ Len(msgs') + 1 = Len(msgs)
    BY <1>3, <2>1, ReceiveEntry
  <2>3. QED
    BY <1>3, <2>2, LeftParts DEF Held, Requests
<1>4. CASE SendStreamMessage
  <2>1. /\ UNCHANGED <<read, driver, req_rx, deadline, msgs>>
        /\ reqs' = reqs \/ reqs' = reqs + 1
        /\ pc = "send" /\ (pc' = "idle" \/ pc' = Phase(todo \ {"SEND_MESSAGE"}))
    BY <1>4 DEF SendStreamMessage, Throw, Continue
  <2>2. PhpLeft(pc) = 7 /\ PhpLeft("idle") = 0
    BY <2>1 DEF PhpLeft
  <2>3. PhpLeft(Phase(todo \ {"SEND_MESSAGE"})) < 7
    BY <2>1, PhaseFalls DEF Staged
  <2>4. Held' \in Nat /\ Held' <= Held + 1
    BY <2>1, LeftParts, SMTT(30) DEF Held, Requests
  <2>5. QED
    BY <1>1, <2>1, <2>2, <2>3, <2>4
<1>5. CASE CloseStreamSend \/ RecvInitialMetadata
  <2>1. /\ UNCHANGED <<read, driver, req_rx, deadline, msgs, reqs>>
        /\ \/ pc = "close" /\ pc' = Phase(todo \ {"SEND_CLOSE_FROM_CLIENT"})
           \/ pc = "metadata" /\ pc' = Phase(todo \ {"RECV_INITIAL_METADATA"})
    BY <1>5 DEF CloseStreamSend, RecvInitialMetadata, Continue, driverVars
  <2>2. PhpLeft("close") = 6 /\ PhpLeft("metadata") = 5
    BY DEF PhpLeft
  <2>3. PhpLeft(pc') < PhpLeft(pc)
    BY <2>1, <2>2, PhaseFalls DEF Staged
  <2>4. QED
    BY <1>1, <1>2, <2>1, <2>3, Zenon
<1>6. CASE RecvMessage
  <2>1. /\ UNCHANGED <<read, driver, req_rx, deadline, reqs>>
        /\ msgs' = msgs \/ (msgs # <<>> /\ msgs' = Tail(msgs))
        /\ pc = "message" /\ pc' = Phase(todo \ {"RECV_MESSAGE"})
    BY <1>6 DEF RecvMessage, MessageIs, Continue
  <2>2. PhpLeft("message") = 4
    BY DEF PhpLeft
  <2>3. PhpLeft(pc') < PhpLeft(pc)
    BY <2>1, <2>2, PhaseFalls DEF Staged
  <2>4. Held' \in Nat /\ Held' <= Held + 1
    BY <1>2, <1>3, <2>1, LeftParts
  <2>5. QED
    BY <1>1, <2>1, <2>3, <2>4
<1>7. CASE RecvStatus \/ AwaitTrailers
  <2>1. /\ UNCHANGED <<read, driver, req_rx, deadline, msgs, reqs>>
        /\ \/ pc = "status" /\ pc' \in {"idle", "drain"}
           \/ pc = "await" /\ pc' = "idle"
    BY <1>7 DEF RecvStatus, AwaitTrailers, TrailersArrive, StatusIs, driverVars
  <2>2. PhpLeft(pc') < PhpLeft(pc)
    BY <2>1 DEF PhpLeft
  <2>3. QED
    BY <1>1, <1>2, <2>1, <2>2, Zenon
<1>8. CASE DrainMessages
  <2>1. /\ UNCHANGED <<read, driver, req_rx, deadline, reqs>> /\ pc = "drain"
        /\ \/ msgs' = msgs /\ pc' \in {"idle", "await"}
           \/ msgs # <<>> /\ msgs' = Tail(msgs) /\ pc' \in {"drain", "await"}
    BY <1>8 DEF DrainMessages, TrailersArrive, StatusIs
  <2>2. PhpLeft("drain") = 2 /\ PhpLeft("await") = 1 /\ PhpLeft("idle") = 0
    BY DEF PhpLeft
  <2>3. CASE msgs' = msgs /\ pc' \in {"idle", "await"}
    BY <1>1, <1>2, <2>1, <2>2, <2>3
  <2>4. CASE msgs # <<>> /\ msgs' = Tail(msgs) /\ pc' \in {"drain", "await"}
    <3>1. Held' \in Nat /\ Held' < Held
      BY <1>3, <2>1, <2>4
    <3>2. QED
      BY <1>1, <2>1, <2>2, <2>4, <3>1, LeftParts
  <2>5. QED
    BY <2>1, <2>3, <2>4
<1>9. CASE UnaryElapsed \/ UnaryAnswer
  <2>1. /\ UNCHANGED <<read, driver, req_rx, deadline, msgs, reqs>>
        /\ \/ pc = "ready" /\ pc' \in {"unary", "idle"}
           \/ pc = "unary" /\ pc' = "idle"
    BY <1>9 DEF UnaryElapsed, UnaryAnswer, UnaryReady, UnaryNotReady, UnaryOk, UnaryErr,
       UnaryDone, Throw, unaryUnchanged
  <2>2. PhpLeft(pc') < PhpLeft(pc)
    BY <2>1 DEF PhpLeft
  <2>3. QED
    BY <1>1, <1>2, <2>1, <2>2, ZenonT(30)
<1>10. QED
  BY <1>4, <1>5, <1>6, <1>7, <1>8, <1>9 DEF PhpStep

\* A step of the task, of the transport or of the clock leaves less.
LEMMA TaskFalls ==
  ASSUME DriverTypeOK, Background
  PROVE  Left' < Left
<1>1. UNCHANGED pc
  BY DEF Background, callVars
<1>2. ASSUME Held' \in Nat, Ahead' \in Nat, Held' + Ahead' < Held + Ahead
      PROVE  Left' < Left
  BY <1>1, <1>2, LeftParts, PhpLeftNat, SMTT(30) DEF Left
<1>3. ASSUME UNCHANGED <<read, deadline>>, TaskLeft(driver') < TaskLeft(driver)
      PROVE  /\ Ahead' \in Nat
             /\ Ahead' - Ahead = TaskLeft(driver') - TaskLeft(driver)
  <2>1. MaxMessages - read \in Nat /\ ClockLeft \in Nat
    BY MaxMessagesAssumption DEF DriverTypeOK, ClockLeft
  <2>2. ClockLeft' = ClockLeft
    BY <1>3 DEF ClockLeft
  <2>3. QED
    BY <1>3, <2>1, <2>2, TaskLeftNat DEF Ahead
<1>4. CASE \/ Elapsed \/ CancelArm \/ DeadlineArm \/ ReadyOk \/ ResponseOk \/ MessageNone
           \/ SendTrailers \/ \E raw \in RawStatus : ResponseErr(raw) \/ MessageErr(raw)
  <2>1. /\ UNCHANGED <<read, deadline, reqs, req_rx, msgs>>
        /\ \/ driver = "ready" /\ driver' \in {"response", "end"}
           \/ driver = "response" /\ driver' \in {"message", "end"}
           \/ driver = "message" /\ driver' = "end"
           \/ driver = "trailers" /\ driver' = "done"
    BY <1>4 DEF Elapsed, CancelArm, DeadlineArm, ReadyOk, ResponseOk, MessageNone, SendTrailers,
       ResponseErr, MessageErr, Finish, EndWith
  <2>2. TaskLeft(driver') < TaskLeft(driver)
    BY <2>1 DEF TaskLeft
  <2>3. Held' = Held
    BY <2>1 DEF Held, Requests
  <2>4. Ahead' \in Nat /\ Ahead' < Ahead
    BY <1>3, <2>1, <2>2, LeftParts, TaskLeftNat
  <2>5. QED
    BY <1>2, <2>3, <2>4, LeftParts, SMTT(30)
<1>5. CASE ReadyErr \/ SendMsg \/ SendEnd
  <2>1. /\ UNCHANGED <<read, deadline>>
        /\ msgs' = msgs \/ \E e \in Entries : msgs' = Append(msgs, e)
        /\ UNCHANGED <<reqs, req_rx>> \/ (reqs' = 0 /\ ~req_rx')
        /\ \/ driver = "ready" /\ driver' = "done"
           \/ driver = "send" /\ driver' \in {"message", "done"}
           \/ driver = "end" /\ driver' = "trailers"
    <3>1. read \in Entries /\ End \in Entries /\ Err \in Entries
      BY MaxMessagesAssumption DEF DriverTypeOK, Entries
    <3>2. QED
      BY <1>5, <3>1 DEF ReadyErr, SendMsg, SendEnd
  <2>2. TaskLeft(driver') + 2 <= TaskLeft(driver)
    BY <2>1 DEF TaskLeft
  <2>3. Len(msgs') \in Nat /\ Len(msgs') <= Len(msgs) + 1
    <3>1. msgs \in Seq(Entries)
      BY DEF DriverTypeOK
    <3>2. \A e \in Entries : Len(Append(msgs, e)) = Len(msgs) + 1
      BY <3>1, SendEntry
    <3>3. QED
      BY <2>1, <3>2, LeftParts
  <2>4. Held' \in Nat /\ Held' <= Held + 1
    <3>1. Requests' \in Nat /\ Requests' <= Requests
      BY <2>1, LeftParts DEF Requests
    <3>2. QED
      BY <2>3, <3>1, LeftParts DEF Held
  <2>5. TaskLeft(driver') < TaskLeft(driver)
    BY <2>2, TaskLeftNat
  <2>6. Ahead' \in Nat /\ Ahead' - Ahead = TaskLeft(driver') - TaskLeft(driver)
    BY <1>3, <2>1, <2>5
  <2>7. Ahead' + 2 <= Ahead
    BY <2>2, <2>6, LeftParts, TaskLeftNat, SMTT(30)
  <2>8. Held' + Ahead' < Held + Ahead
    BY <2>4, <2>6, <2>7, LeftParts, SMTT(30)
  <2>9. QED
    BY <1>2, <2>4, <2>6, <2>8
<1>6. CASE MessageSome
  <2>1. /\ read < MaxMessages /\ read' = read + 1
        /\ driver = "message" /\ driver' = "send"
        /\ UNCHANGED <<deadline, reqs, req_rx, msgs>>
    BY <1>6 DEF MessageSome
  <2>2. TaskLeft("message") = 4 /\ TaskLeft("send") = 6
    BY DEF TaskLeft
  <2>3. Held' = Held /\ ClockLeft' = ClockLeft /\ ClockLeft \in Nat
    BY <2>1 DEF Held, Requests, ClockLeft
  <2>4. MaxMessages - read' \in Nat /\ MaxMessages - read = (MaxMessages - read') + 1
    BY <2>1, MaxMessagesAssumption DEF DriverTypeOK
  <2>5. Ahead' \in Nat /\ Ahead' + 1 = Ahead
    BY <2>1, <2>2, <2>3, <2>4 DEF Ahead
  <2>6. QED
    BY <1>2, <2>3, <2>5, LeftParts
<1>7. CASE RequestTaken \/ RequestStreamDropped
  <2>1. UNCHANGED <<read, deadline, driver, msgs>>
    BY <1>7 DEF RequestTaken, RequestStreamDropped
  <2>2. Held' \in Nat /\ Held' < Held
    BY <1>7, <2>1, LeftParts DEF RequestTaken, RequestStreamDropped, Held, Requests
  <2>3. Ahead' = Ahead
    BY <2>1 DEF Ahead, ClockLeft
  <2>4. QED
    BY <1>2, <2>2, <2>3, LeftParts
<1>8. CASE DeadlinePasses
  <2>1. UNCHANGED <<read, driver, msgs, reqs, req_rx>> /\ ClockLeft = 1 /\ ClockLeft' = 0
    BY <1>8 DEF DeadlinePasses, ClockLeft
  <2>2. Held' = Held
    BY <2>1 DEF Held, Requests
  <2>3. MaxMessages - read \in Nat
    BY MaxMessagesAssumption DEF DriverTypeOK
  <2>4. Ahead' \in Nat /\ Ahead' + 1 = Ahead
    BY <2>1, <2>3, TaskLeftNat DEF Ahead
  <2>5. QED
    BY <1>2, <2>2, <2>4, LeftParts
<1>9. QED
  BY <1>4, <1>5, <1>6, <1>7, <1>8, Zenon DEF Background, DriverStep, TransportStep

\* Between two calls of the script the extension takes boundedly many steps:
\* whatever the batch, the buffers and the server's messages, every step of the
\* PHP thread in an await of startBatch and every step of the task lowers Left.
\* The drain loop of build_stream_result and the loop of the task that feeds it
\* do not chase each other, and the task of a freed call runs out of steps.
THEOREM StepsRunOut ==
  Spec => [](Left \in Nat) /\ [][PhpCall \/ Left' < Left]_vars
<1>1. Init => Staged
  BY DEF Init, Staged
<1>2. Staged /\ [Next]_vars => Staged'
  BY StagedStep
<1>3. IndInv => Left \in Nat
  <2> SUFFICES ASSUME DriverTypeOK PROVE Left \in Nat
    BY DEF IndInv, TypeOK
  <2>1. QED
    BY LeftParts, PhpLeftNat DEF Left
<1>4. IndInv /\ Staged /\ [Next]_vars => [PhpCall \/ Left' < Left]_vars
  <2> SUFFICES ASSUME DriverTypeOK, Staged, Next, ~PhpCall, ~UNCHANGED vars
               PROVE  Left' < Left
    BY DEF IndInv, TypeOK
  <2>1. QED
    BY PhpFalls, TaskFalls DEF Next, Gone
<1>5. QED
  BY Invariance, <1>1, <1>2, <1>3, <1>4, PTL DEF Spec

=============================================================================

--------------------------- MODULE GrpcCallSteps ---------------------------
(***************************************************************************)
(* Every step of GrpcCall keeps the parts of IndInv about the messages in  *)
(* msgs, the end of the stream, the source of the status and the status    *)
(* that is delivered.                                                      *)
(***************************************************************************)
EXTENDS GrpcCallTypes

USE DEF None, End, Err, Null, NoMessage

-----------------------------------------------------------------------------
\* Queue: msgs holds the messages between the last one PHP got and the last one the
\* task read.
LEMMA QueueStep ==
  ASSUME Control, StatusSource, Queue, Ended, DriverTypeOK, CallTypeOK, [Next]_vars
  PROVE  Queue'
<1> USE DEF driverVars, callVars, activeStream, Passed, Blocked, Control,
            StatusSource, Queue, Ended, Readable
<1>1. CASE BatchEmpty
  BY <1>1 DEF BatchEmpty, NoReply, Answer
<1>2. ASSUME NEW b \in Batches, Rejected(b)
      PROVE  Queue'
  BY <1>2, RejectedLemma
<1>3. ASSUME NEW b \in Batches, StreamBatch(b)
      PROVE  Queue'
  BY <1>3, RefusalRange, PhaseRange DEF StreamBatch, Accepted, Continue,
     NoReply, Answer
<1>4. ASSUME NEW b \in Batches, Starts(b)
      PROVE  Queue'
  BY <1>4, StartsLemma, Zenon DEF ExpiredStream, OpenStream, Spawn, Dispatch
<1>5. ASSUME NEW b \in Batches, ExecuteCall(b)
      PROVE  Queue'
  BY <1>5, ExecuteLemma
<1>6. CASE Cancel
  BY <1>6 DEF Cancel
<1>7. CASE SetCredentials \/ CloseChannel
  BY <1>7 DEF SetCredentials, CloseChannel
<1>8. CASE Free
  BY <1>8 DEF Free, NoReply, Answer
<1>9. CASE SendStreamMessage
  BY <1>9, PhaseRange DEF SendStreamMessage, Throw, Continue, Answer,
     phpUnchanged
<1>10. CASE CloseStreamSend
  BY <1>10, PhaseRange DEF CloseStreamSend, Continue, phpUnchanged
<1>11. CASE RecvInitialMetadata
  BY <1>11, PhaseRange DEF RecvInitialMetadata, Continue, phpUnchanged
<1>12. CASE RecvMessage
  <2>1. msgs \in Seq(Entries) /\ Len(msgs) \in Nat /\ read \in Nat /\ got \in Nat
    BY MaxMessagesAssumption DEF CallTypeOK, DriverTypeOK
  <2>2. CASE UNCHANGED <<msgs, got>>
    BY <1>12, <2>2, PhaseRange DEF RecvMessage, MessageIs, Continue
  <2>3. CASE msgs # <<>> /\ msgs' = Tail(msgs) /\ cached_trailers = None
    <3>1. /\ Len(msgs') = Len(msgs) - 1 /\ Len(msgs) >= 1
          /\ \A i \in 1 .. Len(msgs') :
               i + 1 \in 1 .. Len(msgs) /\ msgs'[i] = msgs[i + 1]
      BY <2>3, AfterReceive
    <3>2. CASE Head(msgs) > 0
      <4>1. got' = got + 1 /\ Head(msgs) = msgs[1]
        BY <1>12, <2>1, <2>3, <3>2, FirstEntry, ReceiveEntry DEF RecvMessage, Disconnected
      <4>2. pc = "message" /\ Readable /\ UNCHANGED <<driver, verdict, read>>
        BY <1>12 DEF RecvMessage
      <4>3. driver \notin {None, "ready", "response"}
        BY <2>3
      <4>4. /\ driver \in {"message", "send", "end"} =>
                 \A i \in 1 .. Len(msgs') : msgs'[i] > 0
            /\ \A i \in 1 .. Len(msgs') :
                 msgs'[i] = Err => driver = "done" /\ verdict = "UNAVAILABLE"
        BY <2>3, AfterReceive
      <4>5. \A i \in 1 .. Len(msgs') : msgs'[i] > 0 => msgs'[i] = got' + i
        BY <2>1, <3>1, <4>1, <4>2, SMTT(30)
      <4>6. CASE driver \in {"message", "send", "end"}
        <5>1. /\ got' <= read'
              /\ driver = "send" => read' > 0
              /\ driver \in {"message", "end"} => read' = got' + Len(msgs')
              /\ driver = "send" => read' = got' + Len(msgs') + 1
          <6>1. /\ driver \in {"message", "end"} => read = got + Len(msgs)
                /\ driver = "send" => read = got + Len(msgs) + 1 /\ read > 0
            BY <4>2
          <6>2. Len(msgs') = Len(msgs) - 1 /\ got' = got + 1 /\ read' = read
            BY <3>1, <4>1, <4>2
          <6>3. CASE driver \in {"message", "end"}
            <7>1. read = got + Len(msgs) /\ driver # "send"
              BY <6>1, <6>3
            <7>2. got' <= read' /\ read' = got' + Len(msgs')
              BY <2>1, <3>1, <6>2, <7>1
            <7>3. QED
              BY <7>1, <7>2
          <6>4. CASE driver = "send"
            BY <2>1, <3>1, <6>1, <6>2, <6>4
          <6>5. QED
            BY <4>6, <6>3, <6>4
        <5>2. QED
          BY <4>2, <4>4, <4>5, <4>6, <5>1
      <4>7. CASE driver \in {"trailers", "done"}
        <5>1. /\ read = got + Len(msgs) - 1
              /\ \A i \in 1 .. Len(msgs) : msgs[i] > 0 <=> i < Len(msgs)
          BY <2>3, <4>2, <4>7
        <5>2. 1 < Len(msgs)
          BY <2>1, <3>1, <3>2, <4>1, <5>1
        <5>3. msgs' # <<>> /\ read' = got' + Len(msgs') - 1
          BY <2>1, <3>1, <4>1, <4>2, <5>1, <5>2
        <5>4. ASSUME NEW i \in 1 .. Len(msgs')
              PROVE  msgs'[i] > 0 <=> i < Len(msgs')
          <6>1. msgs'[i] = msgs[i + 1] /\ (msgs[i + 1] > 0 <=> i + 1 < Len(msgs))
            BY <3>1, <5>1
          <6>2. i + 1 < Len(msgs) <=> i < Len(msgs')
            BY <2>1, <3>1
          <6>3. QED
            BY <6>1, <6>2
        <5>5. got' <= read'
          BY <2>1, <3>1, <4>1, <4>2, <5>1, <5>2
        <5>6. QED
          BY <4>2, <4>4, <4>5, <4>7, <5>3, <5>4, <5>5
      <4>8. QED
        BY <4>3, <4>6, <4>7 DEF DriverTypeOK
    <3>3. CASE ~(Head(msgs) > 0)
      <4>1. msgs' = <<>> /\ Len(msgs') = 0 /\ got' = got /\ got = read /\ driver \in {"trailers", "done"}
        BY <1>12, <2>1, <2>3, <3>3, FirstEntry DEF RecvMessage, Disconnected
      <4>2. QED
        BY <1>12, <2>1, <2>3, <4>1 DEF RecvMessage
    <3>4. QED
      BY <3>2, <3>3
  <2>4. QED
    BY <1>12, <2>2, <2>3 DEF RecvMessage
<1>13. CASE RecvStatus
  BY <1>13, SMTT(30) DEF RecvStatus, StatusIs, Answer, phpUnchanged
<1>14. CASE DrainMessages
  <2>1. msgs \in Seq(Entries) /\ Len(msgs) \in Nat /\ read \in Nat /\ got \in Nat
    BY MaxMessagesAssumption DEF CallTypeOK, DriverTypeOK
  <2>2. CASE UNCHANGED msgs
    BY <1>14, <2>2 DEF DrainMessages, TrailersArrive, StatusIs
  <2>3. CASE msgs # <<>> /\ msgs' = Tail(msgs)
    <3>1. /\ Len(msgs') = Len(msgs) - 1 /\ Len(msgs) >= 1
          /\ \A i \in 1 .. Len(msgs') :
               i + 1 \in 1 .. Len(msgs) /\ msgs'[i] = msgs[i + 1]
      BY <2>3, AfterReceive
    <3>2. UNCHANGED <<driver, verdict, read, got>>
      BY <1>14 DEF DrainMessages
    <3>3. ~Readable'
      BY <1>14, <2>3 DEF DrainMessages, TrailersArrive, StatusIs
    <3>4. /\ driver \in {"message", "send", "end"} =>
               \A i \in 1 .. Len(msgs') : msgs'[i] > 0
          /\ \A i \in 1 .. Len(msgs') :
               msgs'[i] = Err => driver = "done" /\ verdict = "UNAVAILABLE"
      BY <2>3, AfterReceive
    <3>5. QED
      BY <2>3, <3>2, <3>3, <3>4
  <2>4. QED
    BY <1>14, <2>2, <2>3 DEF DrainMessages
<1>15. CASE AwaitTrailers
  BY <1>15 DEF AwaitTrailers, TrailersArrive, StatusIs, Answer, phpUnchanged
<1>16. CASE UnaryElapsed
  BY <1>16 DEF UnaryElapsed, UnaryDone, Answer, unaryUnchanged
<1>17. CASE UnaryReady \/ UnaryNotReady
  BY <1>17 DEF UnaryReady, UnaryNotReady, Throw, Answer, unaryUnchanged
<1>18. CASE UnaryOk
  BY <1>18 DEF UnaryOk, UnaryDone, Answer, unaryUnchanged
<1>19. ASSUME NEW raw \in RawStatus, UnaryErr(raw)
       PROVE  Queue'
  BY <1>19, StatusToPhp DEF UnaryErr, UnaryDone, Answer, unaryUnchanged
<1>20. CASE Elapsed /\ UNCHANGED callVars
  <2>1. msgs = <<>> /\ Len(msgs) = 0 /\ read = 0 /\ got = 0
    BY <1>20, MaxMessagesAssumption DEF Queue, CallTypeOK, Elapsed
  <2>2. QED
    BY <1>20, <2>1 DEF Queue, Elapsed, EndWith
<1>21. CASE CancelArm /\ UNCHANGED callVars
  BY <1>21 DEF CancelArm, Finish, EndWith
<1>22. CASE DeadlineArm /\ UNCHANGED callVars
  BY <1>22, SMTT(30) DEF DeadlineArm, Finish, EndWith
<1>23. CASE SendMsg /\ UNCHANGED callVars
  <2>1. /\ msgs \in Seq(Entries) /\ read \in Nat /\ got \in Nat /\ read \in Entries
        /\ Len(msgs) \in Nat
    BY <1>23, MaxMessagesAssumption DEF CallTypeOK, DriverTypeOK, Entries
  <2>2. CASE msgs' = Append(msgs, read) /\ driver' = "message"
    <3>1. /\ msgs' \in Seq(Entries)
          /\ Len(msgs') = Len(msgs) + 1
          /\ msgs'[Len(msgs) + 1] = read
          /\ \A i \in 1 .. Len(msgs) : msgs'[i] = msgs[i]
      BY <2>1, <2>2, SendEntry
    <3>2. read > 0
      BY <1>23 DEF SendMsg
    <3>3. driver = "send" /\ UNCHANGED <<read, got, verdict, pc, finished>>
      BY <1>23 DEF SendMsg
    <3>4. ASSUME NEW i \in 1 .. Len(msgs')
          PROVE  msgs'[i] > 0
      <4>1. CASE i = Len(msgs) + 1
        BY <3>1, <3>2, <4>1
      <4>2. CASE i \in 1 .. Len(msgs)
        BY <3>1, <3>3, <4>2
      <4>3. QED
        BY <2>1, <3>1, <4>1, <4>2
    <3>5. Readable =>
            /\ read = got + Len(msgs')
            /\ \A i \in 1 .. Len(msgs') : msgs'[i] = got + i
      <4>1. SUFFICES ASSUME Readable
                     PROVE  /\ read = got + Len(msgs')
                            /\ \A i \in 1 .. Len(msgs') : msgs'[i] = got + i
        OBVIOUS
      <4>2. read = got + Len(msgs) + 1
        BY <3>3, <4>1
      <4>3. ASSUME NEW i \in 1 .. Len(msgs')
            PROVE  msgs'[i] = got + i
        <5>1. CASE i = Len(msgs) + 1
          BY <2>1, <3>1, <4>2, <5>1
        <5>2. CASE i \in 1 .. Len(msgs)
          BY <3>1, <3>3, <4>1, <5>2, SMTT(30)
        <5>3. QED
          BY <2>1, <3>1, <5>1, <5>2
      <4>4. QED
        BY <2>1, <3>1, <4>2, <4>3
    <3>6. QED
      BY <2>2, <3>3, <3>4, <3>5
  <2>3. CASE ~msg_rx /\ driver' = "done" /\ UNCHANGED msgs
    BY <1>23, <2>3 DEF SendMsg
  <2>4. QED
    BY <1>23, <2>2, <2>3 DEF SendMsg
<1>24. CASE SendEnd /\ UNCHANGED callVars
  BY <1>24 DEF SendEnd, HasRoom
<1>25. CASE SendTrailers /\ UNCHANGED callVars
  BY <1>25 DEF SendTrailers
<1>26. CASE ReadyOk /\ UNCHANGED callVars
  BY <1>26, SMTT(30) DEF ReadyOk
<1>27. CASE ReadyErr /\ UNCHANGED callVars
  <2>1. msgs = <<>> /\ Len(msgs) = 0 /\ read = 0 /\ got = 0 /\ Err \in Entries
    BY <1>27, MaxMessagesAssumption DEF Queue, CallTypeOK, ReadyErr, Entries
  <2>2. /\ driver' = "done" /\ verdict' = "UNAVAILABLE"
        /\ UNCHANGED <<read, got, pc, finished, msg_rx>>
        /\ msgs' = IF msg_rx THEN Append(msgs, Err) ELSE msgs
    BY <1>27, TransportIsUnavailable DEF ReadyErr
  <2>3. CASE msg_rx
    <3>1. Len(msgs') = 1 /\ msgs' # <<>> /\ msgs'[1] = Err
      BY <2>1, <2>2, <2>3, SendEntry, SMTT(60) DEF DriverTypeOK
    <3>2. QED
      BY <2>1, <2>2, <2>3, <3>1, SMTT(30) DEF Queue
  <2>4. CASE ~msg_rx
    BY <2>1, <2>2, <2>4, SMTT(30) DEF Queue
  <2>5. QED
    BY <2>3, <2>4
<1>28. CASE ResponseOk /\ UNCHANGED callVars
  <2>1. msgs = <<>> /\ Len(msgs) = 0 /\ read = 0 /\ got = 0
    BY <1>28, MaxMessagesAssumption, SMTT(30) DEF Queue, CallTypeOK, ResponseOk
  <2>2. QED
    BY <1>28, <2>1 DEF Queue, ResponseOk, EndWith
<1>29. ASSUME NEW raw \in RawStatus, ResponseErr(raw) /\ UNCHANGED callVars
       PROVE  Queue'
  <2>1. msgs = <<>> /\ Len(msgs) = 0 /\ read = 0 /\ got = 0
    BY <1>29, MaxMessagesAssumption, SMTT(30) DEF Queue, CallTypeOK, ResponseErr
  <2>2. QED
    BY <1>29, <2>1, SMTT(30) DEF Queue, ResponseErr, EndWith
<1>30. CASE MessageSome /\ UNCHANGED callVars
  <2>1. read \in Nat /\ got \in Nat /\ read' = read + 1
    BY <1>30, MaxMessagesAssumption DEF CallTypeOK, DriverTypeOK, MessageSome
  <2>2. Len(msgs) \in Nat
    BY DEF DriverTypeOK
  <2>3. QED
    BY <1>30, <2>1, <2>2, SMTT(30) DEF MessageSome
<1>31. CASE MessageNone /\ UNCHANGED callVars
  BY <1>31, SMTT(60) DEF MessageNone, Finish, EndWith
<1>32. ASSUME NEW raw \in RawStatus, MessageErr(raw) /\ UNCHANGED callVars
       PROVE  Queue'
  BY <1>32, StatusToPhp, SMTT(60) DEF MessageErr, Finish, EndWith
<1>33. CASE (RequestTaken \/ RequestStreamDropped) /\ UNCHANGED callVars
  BY <1>33, SMTT(30) DEF RequestTaken, RequestStreamDropped
<1>34. CASE DeadlinePasses /\ UNCHANGED callVars
  BY <1>34, SMTT(60) DEF DeadlinePasses
<1>35. CASE UNCHANGED vars
  BY <1>35, SMTT(60) DEF vars
<1>36. QED
  BY <1>1, <1>2, <1>3, <1>4, <1>5, <1>6, <1>7, <1>8, <1>9, <1>10, <1>11, <1>12,
     <1>13, <1>14, <1>15, <1>16, <1>17, <1>18, <1>19, <1>20, <1>21, <1>22,
     <1>23, <1>24, <1>25, <1>26, <1>27, <1>28, <1>29, <1>30, <1>31, <1>32,
     <1>33, <1>34, <1>35, ZenonT(30) DEF Next, PhpCall, StartBatch, Starts, Rejected,
     PhpStep, UnaryAnswer, Background, DriverStep, TransportStep, Gone

\* Ended: a read returns null only behind the last message.
LEMMA EndedStep ==
  ASSUME Control, StatusSource, Queue, Ended, DriverTypeOK, CallTypeOK, [Next]_vars
  PROVE  Ended'
<1> USE DEF driverVars, callVars, activeStream, Passed, Blocked, Control,
            StatusSource, Ended, Readable
<1>1. CASE BatchEmpty
  BY <1>1 DEF BatchEmpty, NoReply, Answer
<1>2. ASSUME NEW b \in Batches, Rejected(b)
      PROVE  Ended'
  BY <1>2, RejectedLemma
<1>3. ASSUME NEW b \in Batches, StreamBatch(b)
      PROVE  Ended'
  BY <1>3, RefusalRange, PhaseRange, SMTT(60) DEF StreamBatch, Accepted, Continue,
     NoReply, Answer
<1>4. ASSUME NEW b \in Batches, Starts(b)
      PROVE  Ended'
  <2>1. /\ ~stream_state /\ ~finished /\ pc = "idle" /\ driver = None /\ ~sawNull
        /\ msgs = <<>> /\ got = read
    BY <1>4, StartsLemma, MaxMessagesAssumption, SMTT(30) DEF Queue, CallTypeOK
  <2>2. CASE UNCHANGED <<driverVars, activeStream, dispatched, userMetadata>>
    BY <1>4, <2>1, <2>2, StartsLemma, SMTT(60)
  <2>3. CASE ExpiredStream
    BY <1>4, <2>1, <2>3, StartsLemma, Zenon DEF ExpiredStream
  <2>4. ASSUME NEW metadata, NEW bidi, OpenStream(metadata, bidi)
        PROVE  Ended'
    BY <1>4, <2>1, <2>4, StartsLemma DEF OpenStream, Spawn
  <2>5. QED
    BY <1>4, <2>2, <2>3, <2>4, StartsLemma, SMTT(60)
<1>5. ASSUME NEW b \in Batches, ExecuteCall(b)
      PROVE  Ended'
  BY <1>5, ExecuteLemma
<1>6. CASE Cancel
  BY <1>6 DEF Cancel
<1>7. CASE SetCredentials \/ CloseChannel
  BY <1>7 DEF SetCredentials, CloseChannel
<1>8. CASE Free
  BY <1>8 DEF Free, NoReply, Answer
<1>9. CASE SendStreamMessage
  BY <1>9, PhaseRange DEF SendStreamMessage, Throw, Continue, Answer,
     phpUnchanged
<1>10. CASE CloseStreamSend
  BY <1>10, PhaseRange DEF CloseStreamSend, Continue, phpUnchanged
<1>11. CASE RecvInitialMetadata
  BY <1>11, PhaseRange, SMTT(30) DEF RecvInitialMetadata, Continue, phpUnchanged
<1>12. CASE RecvMessage
  <2>1. CASE Head(msgs) > 0 /\ msgs # <<>> /\ cached_trailers = None
    <3>1. ~sawNull
      BY <1>12, <2>1 DEF RecvMessage
    <3>2. ~sawNull' /\ cached_trailers' = None
      BY <1>12, <2>1, <3>1 DEF RecvMessage, Disconnected
    <3>3. QED
      BY <3>2
  <2>2. CASE ~(Head(msgs) > 0) /\ msgs # <<>> /\ cached_trailers = None
    <3>1. /\ driver \in {"trailers", "done"} /\ got = read /\ Tail(msgs) = <<>>
      BY <1>12, <2>2, FirstEntry DEF RecvMessage
    <3>2. msgs' = <<>> /\ UNCHANGED <<got, read, driver>>
      BY <1>12, <2>2, <3>1, ZenonT(30) DEF RecvMessage, Disconnected
    <3>3. QED
      BY <3>1, <3>2
  <2>3. CASE cached_trailers # None
    BY <1>12, <2>3 DEF RecvMessage, phpUnchanged
  <2>4. CASE cached_trailers = None /\ msgs = <<>> /\ driver \in {None, "done"}
    <3>1. got = read
      BY <1>12, <2>4, MaxMessagesAssumption, SMTT(60) DEF RecvMessage, Queue, CallTypeOK
    <3>2. QED
      BY <1>12, <2>4, <3>1 DEF RecvMessage
  <2>5. QED
    BY <1>12, <2>1, <2>2, <2>3, <2>4 DEF RecvMessage, Disconnected
<1>13. CASE RecvStatus
  BY <1>13, SMTT(60) DEF RecvStatus, StatusIs, Answer, phpUnchanged
<1>14. CASE DrainMessages
  BY <1>14 DEF DrainMessages, TrailersArrive, StatusIs, Answer, Disconnected,
     phpUnchanged
<1>15. CASE AwaitTrailers
  BY <1>15 DEF AwaitTrailers, TrailersArrive, StatusIs, Answer, phpUnchanged
<1>16. CASE UnaryElapsed
  BY <1>16, SMTT(30) DEF UnaryElapsed, UnaryDone, Answer, unaryUnchanged
<1>17. CASE UnaryReady \/ UnaryNotReady
  BY <1>17, SMTT(60) DEF UnaryReady, UnaryNotReady, Throw, Answer, unaryUnchanged
<1>18. CASE UnaryOk
  BY <1>18, SMTT(30) DEF UnaryOk, UnaryDone, Answer, unaryUnchanged
<1>19. ASSUME NEW raw \in RawStatus, UnaryErr(raw)
       PROVE  Ended'
  BY <1>19, StatusToPhp DEF UnaryErr, UnaryDone, Answer, unaryUnchanged
<1>20. CASE Elapsed /\ UNCHANGED callVars
  BY <1>20 DEF Elapsed, EndWith
<1>21. CASE CancelArm /\ UNCHANGED callVars
  BY <1>21 DEF CancelArm, Finish, EndWith
<1>22. CASE DeadlineArm /\ UNCHANGED callVars
  BY <1>22 DEF DeadlineArm, Finish, EndWith
<1>23. CASE SendMsg /\ UNCHANGED callVars
  BY <1>23 DEF SendMsg, HasRoom
<1>24. CASE SendEnd /\ UNCHANGED callVars
  BY <1>24 DEF SendEnd, HasRoom
<1>25. CASE SendTrailers /\ UNCHANGED callVars
  BY <1>25 DEF SendTrailers
<1>26. CASE ReadyOk /\ UNCHANGED callVars
  BY <1>26 DEF ReadyOk
<1>27. CASE ReadyErr /\ UNCHANGED callVars
  BY <1>27, TransportIsUnavailable DEF ReadyErr
<1>28. CASE ResponseOk /\ UNCHANGED callVars
  BY <1>28 DEF ResponseOk
<1>29. ASSUME NEW raw \in RawStatus, ResponseErr(raw) /\ UNCHANGED callVars
       PROVE  Ended'
  BY <1>29, StatusToPhp DEF ResponseErr, EndWith
<1>30. CASE MessageSome /\ UNCHANGED callVars
  BY <1>30 DEF MessageSome
<1>31. CASE MessageNone /\ UNCHANGED callVars
  BY <1>31 DEF MessageNone, Finish, EndWith
<1>32. ASSUME NEW raw \in RawStatus, MessageErr(raw) /\ UNCHANGED callVars
       PROVE  Ended'
  BY <1>32, StatusToPhp, SMTT(30) DEF MessageErr, Finish, EndWith
<1>33. CASE (RequestTaken \/ RequestStreamDropped) /\ UNCHANGED callVars
  BY <1>33 DEF RequestTaken, RequestStreamDropped
<1>34. CASE DeadlinePasses /\ UNCHANGED callVars
  BY <1>34 DEF DeadlinePasses
<1>35. CASE UNCHANGED vars
  BY <1>35 DEF vars
<1>36. QED
  BY <1>1, <1>2, <1>3, <1>4, <1>5, <1>6, <1>7, <1>8, <1>9, <1>10, <1>11, <1>12,
     <1>13, <1>14, <1>15, <1>16, <1>17, <1>18, <1>19, <1>20, <1>21, <1>22,
     <1>23, <1>24, <1>25, <1>26, <1>27, <1>28, <1>29, <1>30, <1>31, <1>32,
     <1>33, <1>34, <1>35, ZenonT(30) DEF Next, PhpCall, StartBatch, Starts, Rejected,
     PhpStep, UnaryAnswer, Background, DriverStep, TransportStep, Gone

-----------------------------------------------------------------------------
\* StatusSource: until it is taken the status is in cached_trailers or still to be
\* received, and it is the task's.
LEMMA StatusSourceStep ==
  ASSUME Control, StatusSource, Queue, DriverTypeOK, CallTypeOK, [Next]_vars
  PROVE  StatusSource'
<1> USE DEF driverVars, callVars, activeStream, Passed, Blocked, Control,
            StatusSource, Readable
<1>1. CASE BatchEmpty
  BY <1>1 DEF BatchEmpty, NoReply, Answer
<1>2. ASSUME NEW b \in Batches, Rejected(b)
      PROVE  StatusSource'
  BY <1>2, RejectedLemma
<1>3. ASSUME NEW b \in Batches, StreamBatch(b)
      PROVE  StatusSource'
  BY <1>3, RefusalRange, PhaseRange, SMTT(30) DEF StreamBatch, Accepted, Continue,
     NoReply, Answer
<1>4. ASSUME NEW b \in Batches, Starts(b)
      PROVE  StatusSource'
  <2>1. ~stream_state /\ ~finished /\ pc = "idle" /\ driver = None
    BY <1>4, StartsLemma
  <2>2. CASE UNCHANGED <<driverVars, activeStream, dispatched, userMetadata>>
    BY <1>4, <2>1, <2>2, StartsLemma
  <2>3. CASE ExpiredStream
    BY <1>4, <2>1, <2>3, StartsLemma DEF ExpiredStream
  <2>4. ASSUME NEW metadata, NEW bidi, OpenStream(metadata, bidi)
        PROVE  StatusSource'
    BY <1>4, <2>1, <2>4, StartsLemma DEF OpenStream, Spawn
  <2>5. QED
    BY <1>4, <2>2, <2>3, <2>4, StartsLemma
<1>5. ASSUME NEW b \in Batches, ExecuteCall(b)
      PROVE  StatusSource'
  BY <1>5, ExecuteLemma
<1>6. CASE Cancel
  BY <1>6 DEF Cancel
<1>7. CASE SetCredentials \/ CloseChannel
  BY <1>7 DEF SetCredentials, CloseChannel
<1>8. CASE Free
  BY <1>8 DEF Free, NoReply, Answer
<1>9. CASE SendStreamMessage
  BY <1>9, PhaseRange DEF SendStreamMessage, Throw, Continue, Answer,
     phpUnchanged
<1>10. CASE CloseStreamSend
  BY <1>10, PhaseRange DEF CloseStreamSend, Continue, phpUnchanged
<1>11. CASE RecvInitialMetadata
  BY <1>11, PhaseRange DEF RecvInitialMetadata, Continue, phpUnchanged
<1>12. CASE RecvMessage
  BY <1>12, PhaseRange, TransportIsUnavailable, FirstEntry DEF RecvMessage,
     MessageIs, Continue, phpUnchanged
<1>13. CASE RecvStatus
  BY <1>13 DEF RecvStatus, StatusIs, Answer, phpUnchanged
<1>14. CASE DrainMessages
  BY <1>14 DEF DrainMessages, TrailersArrive, StatusIs, Answer, Disconnected,
     phpUnchanged
<1>15. CASE AwaitTrailers
  BY <1>15 DEF AwaitTrailers, TrailersArrive, StatusIs, Answer, phpUnchanged
<1>16. CASE UnaryElapsed
  BY <1>16, SMTT(30) DEF UnaryElapsed, UnaryDone, Answer, unaryUnchanged
<1>17. CASE UnaryReady \/ UnaryNotReady
  BY <1>17 DEF UnaryReady, UnaryNotReady, Throw, Answer, unaryUnchanged
<1>18. CASE UnaryOk
  BY <1>18, SMTT(30) DEF UnaryOk, UnaryDone, Answer, unaryUnchanged
<1>19. ASSUME NEW raw \in RawStatus, UnaryErr(raw)
       PROVE  StatusSource'
  BY <1>19, StatusToPhp DEF UnaryErr, UnaryDone, Answer, unaryUnchanged
<1>20. CASE Elapsed /\ UNCHANGED callVars
  BY <1>20 DEF Elapsed, EndWith
<1>21. CASE CancelArm /\ UNCHANGED callVars
  BY <1>21 DEF CancelArm, Finish, EndWith
<1>22. CASE DeadlineArm /\ UNCHANGED callVars
  BY <1>22 DEF DeadlineArm, Finish, EndWith
<1>23. CASE SendMsg /\ UNCHANGED callVars
  BY <1>23 DEF SendMsg, HasRoom
<1>24. CASE SendEnd /\ UNCHANGED callVars
  BY <1>24 DEF SendEnd, HasRoom
<1>25. CASE SendTrailers /\ UNCHANGED callVars
  BY <1>25 DEF SendTrailers
<1>26. CASE ReadyOk /\ UNCHANGED callVars
  BY <1>26 DEF ReadyOk
<1>27. CASE ReadyErr /\ UNCHANGED callVars
  BY <1>27, TransportIsUnavailable DEF ReadyErr
<1>28. CASE ResponseOk /\ UNCHANGED callVars
  BY <1>28 DEF ResponseOk
<1>29. ASSUME NEW raw \in RawStatus, ResponseErr(raw) /\ UNCHANGED callVars
       PROVE  StatusSource'
  BY <1>29, StatusToPhp DEF ResponseErr, EndWith
<1>30. CASE MessageSome /\ UNCHANGED callVars
  BY <1>30 DEF MessageSome
<1>31. CASE MessageNone /\ UNCHANGED callVars
  BY <1>31 DEF MessageNone, Finish, EndWith
<1>32. ASSUME NEW raw \in RawStatus, MessageErr(raw) /\ UNCHANGED callVars
       PROVE  StatusSource'
  BY <1>32, StatusToPhp, SMTT(30) DEF MessageErr, Finish, EndWith
<1>33. CASE (RequestTaken \/ RequestStreamDropped) /\ UNCHANGED callVars
  BY <1>33 DEF RequestTaken, RequestStreamDropped
<1>34. CASE DeadlinePasses /\ UNCHANGED callVars
  BY <1>34 DEF DeadlinePasses
<1>35. CASE UNCHANGED vars
  BY <1>35, SMTT(30) DEF vars
<1>36. QED
  BY <1>1, <1>2, <1>3, <1>4, <1>5, <1>6, <1>7, <1>8, <1>9, <1>10, <1>11, <1>12,
     <1>13, <1>14, <1>15, <1>16, <1>17, <1>18, <1>19, <1>20, <1>21, <1>22,
     <1>23, <1>24, <1>25, <1>26, <1>27, <1>28, <1>29, <1>30, <1>31, <1>32,
     <1>33, <1>34, <1>35, ZenonT(30) DEF Next, PhpCall, StartBatch, Starts, Rejected,
     PhpStep, UnaryAnswer, Background, DriverStep, TransportStep, Gone

\* A delivered status is never the consumed one, is the task's, and is an expired
\* deadline only after the deadline.
LEMMA StatusStep ==
  ASSUME Control, StatusSource, NeverConsumed, TruthfulStatus, HonestDeadline, [Next]_vars
  PROVE  (NeverConsumed /\ TruthfulStatus /\ HonestDeadline)'
<1> USE DEF driverVars, callVars, activeStream, Passed, Blocked, Control,
            StatusSource, NeverConsumed, TruthfulStatus, HonestDeadline
<1>1. CASE BatchEmpty
  BY <1>1 DEF BatchEmpty, NoReply, Answer
<1>2. ASSUME NEW b \in Batches, Rejected(b)
      PROVE  (NeverConsumed /\ TruthfulStatus /\ HonestDeadline)'
  BY <1>2, RejectedLemma, SMTT(30)
<1>3. ASSUME NEW b \in Batches, StreamBatch(b)
      PROVE  (NeverConsumed /\ TruthfulStatus /\ HonestDeadline)'
  BY <1>3, RefusalRange, PhaseRange DEF StreamBatch, Accepted, Continue,
     NoReply, Answer
<1>4. ASSUME NEW b \in Batches, Starts(b)
      PROVE  (NeverConsumed /\ TruthfulStatus /\ HonestDeadline)'
  BY <1>4, StartsLemma, Zenon DEF ExpiredStream, OpenStream, Spawn, Dispatch
<1>5. ASSUME NEW b \in Batches, ExecuteCall(b)
      PROVE  (NeverConsumed /\ TruthfulStatus /\ HonestDeadline)'
  BY <1>5, ExecuteLemma
<1>6. CASE Cancel
  BY <1>6, SMTT(30) DEF Cancel
<1>7. CASE SetCredentials \/ CloseChannel
  BY <1>7 DEF SetCredentials, CloseChannel
<1>8. CASE Free
  BY <1>8, SMTT(30) DEF Free, NoReply, Answer
<1>9. CASE SendStreamMessage
  BY <1>9, PhaseRange DEF SendStreamMessage, Throw, Continue, Answer,
     phpUnchanged
<1>10. CASE CloseStreamSend
  BY <1>10, PhaseRange DEF CloseStreamSend, Continue, phpUnchanged
<1>11. CASE RecvInitialMetadata
  BY <1>11, PhaseRange, SMTT(30) DEF RecvInitialMetadata, Continue, phpUnchanged
<1>12. CASE RecvMessage
  BY <1>12, PhaseRange, TransportIsUnavailable, SMTT(30) DEF RecvMessage, MessageIs,
     Answer, Continue, Disconnected, phpUnchanged
<1>13. CASE RecvStatus
  BY <1>13, SMTT(30) DEF RecvStatus, StatusIs, Answer, phpUnchanged
<1>14. CASE DrainMessages
  BY <1>14, SMTT(30) DEF DrainMessages, TrailersArrive, StatusIs, Answer, Disconnected,
     phpUnchanged
<1>15. CASE AwaitTrailers
  BY <1>15, SMTT(30) DEF AwaitTrailers, TrailersArrive, StatusIs, Answer, phpUnchanged
<1>16. CASE UnaryElapsed
  BY <1>16, SMTT(30) DEF UnaryElapsed, UnaryDone, Answer, unaryUnchanged
<1>17. CASE UnaryReady \/ UnaryNotReady
  BY <1>17 DEF UnaryReady, UnaryNotReady, Throw, Answer, unaryUnchanged
<1>18. CASE UnaryOk
  BY <1>18 DEF UnaryOk, UnaryDone, Answer, unaryUnchanged
<1>19. ASSUME NEW raw \in RawStatus, UnaryErr(raw)
       PROVE  (NeverConsumed /\ TruthfulStatus /\ HonestDeadline)'
  BY <1>19, StatusToPhp DEF UnaryErr, UnaryDone, Answer, unaryUnchanged
<1>20. CASE Elapsed /\ UNCHANGED callVars
  BY <1>20 DEF Elapsed, EndWith
<1>21. CASE CancelArm /\ UNCHANGED callVars
  BY <1>21 DEF CancelArm, Finish, EndWith
<1>22. CASE DeadlineArm /\ UNCHANGED callVars
  BY <1>22 DEF DeadlineArm, Finish, EndWith
<1>23. CASE SendMsg /\ UNCHANGED callVars
  BY <1>23 DEF SendMsg, HasRoom
<1>24. CASE SendEnd /\ UNCHANGED callVars
  BY <1>24 DEF SendEnd, HasRoom
<1>25. CASE SendTrailers /\ UNCHANGED callVars
  BY <1>25 DEF SendTrailers
<1>26. CASE ReadyOk /\ UNCHANGED callVars
  BY <1>26 DEF ReadyOk
<1>27. CASE ReadyErr /\ UNCHANGED callVars
  BY <1>27, TransportIsUnavailable DEF ReadyErr
<1>28. CASE ResponseOk /\ UNCHANGED callVars
  BY <1>28 DEF ResponseOk
<1>29. ASSUME NEW raw \in RawStatus, ResponseErr(raw) /\ UNCHANGED callVars
       PROVE  (NeverConsumed /\ TruthfulStatus /\ HonestDeadline)'
  BY <1>29, StatusToPhp DEF ResponseErr, EndWith
<1>30. CASE MessageSome /\ UNCHANGED callVars
  BY <1>30 DEF MessageSome
<1>31. CASE MessageNone /\ UNCHANGED callVars
  BY <1>31 DEF MessageNone, Finish, EndWith
<1>32. ASSUME NEW raw \in RawStatus, MessageErr(raw) /\ UNCHANGED callVars
       PROVE  (NeverConsumed /\ TruthfulStatus /\ HonestDeadline)'
  BY <1>32, StatusToPhp DEF MessageErr, Finish, EndWith
<1>33. CASE (RequestTaken \/ RequestStreamDropped) /\ UNCHANGED callVars
  BY <1>33 DEF RequestTaken, RequestStreamDropped
<1>34. CASE DeadlinePasses /\ UNCHANGED callVars
  BY <1>34 DEF DeadlinePasses
<1>35. CASE UNCHANGED vars
  BY <1>35, SMTT(30) DEF vars
<1>36. QED
  BY <1>1, <1>2, <1>3, <1>4, <1>5, <1>6, <1>7, <1>8, <1>9, <1>10, <1>11, <1>12,
     <1>13, <1>14, <1>15, <1>16, <1>17, <1>18, <1>19, <1>20, <1>21, <1>22,
     <1>23, <1>24, <1>25, <1>26, <1>27, <1>28, <1>29, <1>30, <1>31, <1>32,
     <1>33, <1>34, <1>35, ZenonT(30) DEF Next, PhpCall, StartBatch, Starts, Rejected,
     PhpStep, UnaryAnswer, Background, DriverStep, TransportStep, Gone

=============================================================================

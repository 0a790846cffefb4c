---------------------------- MODULE StreamDriver ----------------------------
(***************************************************************************)
(* The background tokio task that start_server_stream and                  *)
(* start_bidi_stream of src/src/call.rs spawn, and the channels between it *)
(* and the PHP thread:                                                     *)
(*                                                                         *)
(*   msgs      the bounded mpsc of Result<Option<Bytes>, Status>           *)
(*   meta      the oneshot that carries the response headers               *)
(*   trailers  the oneshot that carries the final status                   *)
(*   reqs      the bounded mpsc of request messages (bidi streams only)    *)
(*                                                                         *)
(* Response messages are the numbers 1, 2, ... in the order the server     *)
(* sent them.  What tonic returns from ready(), streaming() and message()  *)
(* is the environment's choice.                                            *)
(***************************************************************************)
EXTENDS Integers, Sequences

CONSTANTS
  MsgBuf,      \* capacity of msgs, STREAM_MSG_BUFFER
  ReqBuf,      \* capacity of reqs, 4 in start_bidi_stream
  MaxMessages, \* bound: messages the server sends on one stream
  Deadlines    \* how calls are made: with no deadline (None), with one in the
               \* future ("pending"), with one in the past ("passed")

ASSUME BufferAssumption == MsgBuf \in Nat \ {0} /\ ReqBuf \in Nat \ {0}
ASSUME MaxMessagesAssumption == MaxMessages \in Nat
ASSUME DeadlinesAssumption == Deadlines \subseteq {"none", "pending", "passed"}

VARIABLES
  driver,    \* where the task is
  verdict,   \* the status the task decided on
  msgs, meta, trailers, reqs,
  req_rx,    \* the request stream's receiver is alive
  msg_rx,    \* the call's receiver of msgs is alive
  read,      \* messages the task has taken off the wire
  sent,      \* requests put on the wire by this call
  state,     \* SharedChannel.state
  deadline,  \* "none", or whether it has "passed"
  cancelled  \* the call's CancellationToken

driverVars == <<driver, verdict, msgs, meta, trailers, reqs, req_rx, msg_rx,
                read, sent, state, deadline, cancelled>>

None == "none"

\* Ok(None) and Err(status) in msgs; any other entry is a message.
End == 0
Err == -1
Entries == Err .. MaxMessages

\* Statuses a tonic call may fail with.  TRANSPORT is UNKNOWN with the
\* message "transport error"; APP is any other code.
RawStatus == {"CANCELLED", "TRANSPORT", "UNAVAILABLE", "APP"}

\* What RECV_STATUS_ON_CLIENT can report.  TERMINATED and CONSUMED are the two
\* UNKNOWNs the extension makes up itself.
Status == {"OK", "CANCELLED", "UNAVAILABLE", "APP", "DEADLINE_EXCEEDED",
           "TERMINATED", "CONSUMED"}

Passed == deadline = "passed"

\* Mutant of status_to_php: every CANCELLED becomes DEADLINE_EXCEEDED.
status_to_php_eager(raw) ==
  IF raw = "CANCELLED" THEN "DEADLINE_EXCEEDED"
  ELSE IF raw = "TRANSPORT" THEN "UNAVAILABLE"
  ELSE raw

status_to_php(raw) ==
  IF raw = "CANCELLED" /\ Passed THEN "DEADLINE_EXCEEDED"
  ELSE IF raw = "TRANSPORT" THEN "UNAVAILABLE"
  ELSE raw

HasRoom == Len(msgs) < MsgBuf

DriverTypeOK ==
  /\ driver \in {None, "ready", "response", "message", "send", "end", "trailers",
                 "done"}
  /\ verdict \in Status \cup {None}
  /\ msgs \in Seq(Entries) /\ Len(msgs) <= MsgBuf
  /\ meta \in {None, "default", "headers"}
  /\ trailers \in Status \cup {None, "dropped"}
  /\ reqs \in 0 .. ReqBuf
  /\ read \in 0 .. MaxMessages
  /\ sent \in Nat
  /\ state \in {"IDLE", "READY", "TRANSIENT_FAILURE"}
  /\ deadline \in {None, "pending", "passed"}

DriverInit ==
  /\ driver = None /\ verdict = None
  /\ msgs = <<>> /\ meta = None /\ trailers = None
  /\ reqs = 0 /\ req_rx = FALSE /\ msg_rx = TRUE
  /\ read = 0 /\ sent = 0
  /\ state = "IDLE"
  /\ deadline \in Deadlines
  /\ cancelled = FALSE

\* rt.spawn: the task starts with fresh channels.
Spawn(bidi) ==
  /\ driver' = "ready"
  /\ req_rx' = bidi
  /\ UNCHANGED <<verdict, msgs, meta, trailers, reqs, msg_rx, read, sent, state,
                 deadline, cancelled>>

-----------------------------------------------------------------------------
(* timeout_at(deadline, ready()) *)

ReadyOk ==
  /\ driver = "ready"
  /\ driver' = "response"
  /\ sent' = sent + 1
  /\ UNCHANGED <<verdict, msgs, meta, trailers, reqs, req_rx, msg_rx, read, state,
                 deadline, cancelled>>

\* The error goes out as a message and the task returns, dropping its ends of
\* the other channels.
ReadyErr ==
  /\ driver = "ready"
  /\ driver' = "done"
  /\ verdict' = status_to_php("TRANSPORT")
  /\ meta' = "default"
  /\ msgs' = IF msg_rx THEN Append(msgs, Err) ELSE msgs
  /\ trailers' = "dropped"
  /\ req_rx' = FALSE /\ reqs' = 0
  /\ UNCHANGED <<msg_rx, read, sent, state, deadline, cancelled>>

\* The end of the stream with a status: the sentinel, then the trailers.
EndWith(status) ==
  /\ driver' = "end"
  /\ verdict' = status

\* Mutant of Elapsed: connecting is not raced against the deadline.
ElapsedAfterConnect ==
  /\ driver = "response"
  /\ Passed
  /\ EndWith("DEADLINE_EXCEEDED")
  /\ meta' = "default"
  /\ UNCHANGED <<msgs, trailers, reqs, req_rx, msg_rx, read, sent, state,
                 deadline, cancelled>>

\* The deadline while connecting or while waiting for the response headers.
Elapsed ==
  /\ driver \in {"ready", "response"}
  /\ Passed
  /\ EndWith("DEADLINE_EXCEEDED")
  /\ meta' = "default"
  /\ UNCHANGED <<msgs, trailers, reqs, req_rx, msg_rx, read, sent, state,
                 deadline, cancelled>>

(* server_streaming() / streaming() answered *)

ResponseOk ==
  /\ driver = "response"
  /\ driver' = "message"
  /\ state' = "READY"
  /\ meta' = "headers"
  /\ UNCHANGED <<verdict, msgs, trailers, reqs, req_rx, msg_rx, read, sent,
                 deadline, cancelled>>

ResponseErr(raw) ==
  /\ driver = "response"
  /\ EndWith(status_to_php(raw))
  /\ state' = IF raw = "UNAVAILABLE" THEN "TRANSIENT_FAILURE" ELSE "READY"
  /\ meta' = "default"
  /\ UNCHANGED <<msgs, trailers, reqs, req_rx, msg_rx, read, sent, deadline,
                 cancelled>>

(* The select! loop *)

MessageSome ==
  /\ driver = "message"
  /\ read < MaxMessages
  /\ read' = read + 1
  /\ driver' = "send"
  /\ UNCHANGED <<verdict, msgs, meta, trailers, reqs, req_rx, msg_rx, sent, state,
                 deadline, cancelled>>

Finish(status) ==
  /\ driver = "message"
  /\ EndWith(status)
  /\ UNCHANGED <<msgs, meta, trailers, reqs, req_rx, msg_rx, read, sent, state,
                 deadline, cancelled>>

MessageNone == Finish("OK")
MessageErr(raw) == Finish(status_to_php(raw))
CancelArm == cancelled /\ Finish("CANCELLED")
\* Mutant of DeadlineArm: the select! has no deadline arm.
NoDeadlineArm == FALSE
DeadlineArm == Passed /\ Finish("DEADLINE_EXCEEDED")

\* Mutant of SendMsg: try_send, which loses the message when msgs is full.
TrySendMsg ==
  /\ driver = "send"
  /\ msgs' = IF msg_rx /\ HasRoom THEN Append(msgs, read) ELSE msgs
  /\ driver' = "message"
  /\ UNCHANGED <<verdict, meta, trailers, reqs, req_rx, msg_rx, read, sent, state,
                 deadline, cancelled>>

\* msg_tx.send(Ok(Some(bytes))).await parks while msgs is full and races
\* nothing; it fails once the call dropped the receiver.
SendMsg ==
  /\ driver = "send"
  /\ \/ /\ msg_rx /\ HasRoom
        /\ msgs' = Append(msgs, read)
        /\ driver' = "message"
        /\ UNCHANGED trailers
     \/ /\ ~msg_rx
        /\ driver' = "done"
        /\ trailers' = "dropped"
        /\ UNCHANGED msgs
  /\ UNCHANGED <<verdict, meta, reqs, req_rx, msg_rx, read, sent, state, deadline,
                 cancelled>>

\* Mutant of SendEnd: the sentinel does not wait for room.
SendEndAtOnce ==
  /\ driver = "end"
  /\ msgs' = IF msg_rx THEN Append(msgs, End) ELSE msgs
  /\ driver' = "trailers"
  /\ UNCHANGED <<verdict, meta, trailers, reqs, req_rx, msg_rx, read, sent, state,
                 deadline, cancelled>>

\* msg_tx.send(Ok(None)).await parks too; its failure is ignored.
SendEnd ==
  /\ driver = "end"
  /\ ~msg_rx \/ HasRoom
  /\ msgs' = IF msg_rx THEN Append(msgs, End) ELSE msgs
  /\ driver' = "trailers"
  /\ UNCHANGED <<verdict, meta, trailers, reqs, req_rx, msg_rx, read, sent, state,
                 deadline, cancelled>>

SendTrailers ==
  /\ driver = "trailers"
  /\ trailers' = verdict
  /\ driver' = "done"
  /\ UNCHANGED <<verdict, msgs, meta, reqs, req_rx, msg_rx, read, sent, state,
                 deadline, cancelled>>

-----------------------------------------------------------------------------
(* External: time, and the transport's side of the request stream. *)

DeadlinePasses ==
  /\ deadline = "pending"
  /\ deadline' = "passed"
  /\ UNCHANGED <<driver, verdict, msgs, meta, trailers, reqs, req_rx, msg_rx, read,
                 sent, state, cancelled>>

OnWire == driver \notin {None, "ready"}

RequestTaken ==
  /\ OnWire /\ req_rx /\ reqs > 0
  /\ reqs' = reqs - 1
  /\ UNCHANGED <<driver, verdict, msgs, meta, trailers, req_rx, msg_rx, read, sent,
                 state, deadline, cancelled>>

RequestStreamDropped ==
  /\ OnWire /\ req_rx
  /\ req_rx' = FALSE /\ reqs' = 0
  /\ UNCHANGED <<driver, verdict, msgs, meta, trailers, msg_rx, read, sent, state,
                 deadline, cancelled>>

-----------------------------------------------------------------------------
\* What the task does on its own once it is scheduled.
DriverStep ==
  \/ Elapsed
  \/ CancelArm
  \/ DeadlineArm
  \/ SendMsg
  \/ SendEnd
  \/ SendTrailers

\* What it does when the transport answers.
TransportStep ==
  \/ ReadyOk
  \/ ReadyErr
  \/ ResponseOk
  \/ \E raw \in RawStatus : ResponseErr(raw)
  \/ MessageSome
  \/ MessageNone
  \/ \E raw \in RawStatus : MessageErr(raw)
  \/ RequestTaken
  \/ RequestStreamDropped

=============================================================================

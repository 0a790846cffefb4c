----------------------------- MODULE MCGrpcCall -----------------------------
(***************************************************************************)
(* Instances of GrpcCall for TLC: the sets of batches PHP code passes.     *)
(***************************************************************************)
EXTENDS GrpcCallContract

SendMd == "SEND_INITIAL_METADATA"
SendMsgOp == "SEND_MESSAGE"
SendClose == "SEND_CLOSE_FROM_CLIENT"
RecvMd == "RECV_INITIAL_METADATA"
RecvMsg == "RECV_MESSAGE"
RecvSt == "RECV_STATUS_ON_CLIENT"

\* Server, client and bidi streaming as the PHP library drives them: message by
\* message, or everything a client stream receives in one batch.
StreamBatches ==
  {{SendMd}, {SendMsgOp}, {SendClose}, {SendMd, SendMsgOp, SendClose},
   {RecvMsg}, {RecvSt}, {RecvMd, RecvMsg, RecvSt}}

\* A bidi stream that mostly writes.
BidiBatches == {{SendMsgOp}, {RecvMsg}, {RecvSt}}

\* Calls of every kind cut into batches: each of some ways to send with each of
\* some ways to receive, the empty array and a malformed one.
CutBatches ==
  {send \cup recv : send \in {{}, {SendMd}, {SendMsgOp}, Ops \ RecvOps},
                   recv \in {{}, {RecvMd}, {RecvMsg}, {RecvSt}, RecvOps}}
  \cup {Malformed}

\* Server and bidi streams and unary calls.
WaitBatches == {{SendMsgOp}, Ops \ RecvOps, {RecvMd, RecvMsg}, {RecvSt}}
=============================================================================

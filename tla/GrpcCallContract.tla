-------------------------- MODULE GrpcCallContract --------------------------
(***************************************************************************)
(* The refinement mapping from GrpcCall to CallContract.                   *)
(***************************************************************************)
EXTENDS GrpcCall

\* The response is over once the driver task has left its message loop.  A call
\* without a task is over once it has a status, waiting (expired_stream_state) or
\* delivered, or is freed.
ResponseClosed ==
  \/ driver \in {"end", "trailers", "done"}
  \/ driver = None /\ (stream_state \/ finished \/ pc = "freed")

Contract == INSTANCE CallContract WITH
  requests <- sent, produced <- read, closed <- ResponseClosed,
  delivered <- got, ended <- sawNull, over <- finished

\* A Grpc\Call, with its batches, its background task, its bounded buffer, its
\* drain and its oneshots, implements the contract: PHP sees the messages in
\* order, a null only after the last of them, nothing after the status, and no
\* request goes out and no message comes in once the response has ended.
KeepsContract == Contract!Spec
=============================================================================

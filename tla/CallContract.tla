---------------------------- MODULE CallContract ----------------------------
(***************************************************************************)
(* What a Grpc\Call promises the PHP code that drives it, with no task, no *)
(* buffer and no batch in it: the server produces messages, the response   *)
(* ends, PHP is handed a prefix of the messages in order, a null only      *)
(* after the last of them, and a status that is the end of the call.       *)
(***************************************************************************)
EXTENDS Naturals

VARIABLES
  requests,  \* requests put on the wire
  produced,  \* messages of the response so far
  closed,    \* the response has ended: no request and no message follows
  delivered, \* messages PHP was handed
  ended,     \* PHP was handed a null
  over       \* PHP was handed the status

vars == <<requests, produced, closed, delivered, ended, over>>

Init ==
  /\ requests = 0 /\ produced = 0 /\ delivered = 0
  /\ closed = FALSE /\ ended = FALSE /\ over = FALSE

Request ==
  /\ ~closed
  /\ requests' = requests + 1
  /\ UNCHANGED <<produced, closed, delivered, ended, over>>

Produce ==
  /\ ~closed /\ requests > 0
  /\ produced' = produced + 1
  /\ UNCHANGED <<requests, closed, delivered, ended, over>>

Close ==
  /\ ~closed
  /\ closed' = TRUE
  /\ UNCHANGED <<requests, produced, delivered, ended, over>>

Deliver ==
  /\ ~ended /\ ~over
  /\ delivered < produced
  /\ delivered' = delivered + 1
  /\ UNCHANGED <<requests, produced, closed, ended, over>>

SeeEnd ==
  /\ ~ended /\ ~over
  /\ closed /\ delivered = produced
  /\ ended' = TRUE
  /\ UNCHANGED <<requests, produced, closed, delivered, over>>

\* The status ends a response that has messages only after its end; it may come
\* before PHP has read them all.
Finish ==
  /\ ~over
  /\ closed \/ produced = 0
  /\ closed' = TRUE /\ over' = TRUE
  /\ UNCHANGED <<requests, produced, delivered, ended>>

Next == Request \/ Produce \/ Close \/ Deliver \/ SeeEnd \/ Finish

Spec == Init /\ [][Next]_vars
=============================================================================

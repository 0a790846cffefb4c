----------------------------- MODULE Connection -----------------------------
(***************************************************************************)
(* The connection below a channel while servers stop and restart, and what *)
(* a unary call meets: the pump that execute_call (src/src/call.rs) makes  *)
(* before it dispatches (src/src/runtime.rs), the connection attempt of    *)
(* ready(), the request.  In current-thread mode, the default, the task    *)
(* that watches the connection runs only while the thread is in block_on,  *)
(* so a connection that died while PHP was idle is still there when the    *)
(* next call starts.                                                       *)
(*                                                                         *)
(* Server, connection task and transport are external: they are modelled   *)
(* from what the code and its tests expect of them.                        *)
(***************************************************************************)
EXTENDS Integers

CONSTANT
  MaxRestarts \* bound: incarnations of the server

ASSUME MaxRestartsAssumption == MaxRestarts \in Nat \ {0}

VARIABLES
  server, \* "up" or "down"
  gen,    \* its incarnation
  conn,   \* the incarnation the transport holds a connection to, 0 for none
  at,     \* the PHP thread: "idle" or where the call is
  status, \* of the last call
  outage  \* history: the server was not up all the time since the pump

callVars == <<at, status, outage>>
connectionVars == <<server, gen, conn, callVars>>

ConnectionTypeOK ==
  /\ server \in {"up", "down"} /\ gen \in 1 .. MaxRestarts
  /\ conn \in 0 .. gen
  /\ at \in {"idle", "pump", "ready", "send", "wire"}

ConnectionInit ==
  /\ server = "up" /\ gen = 1 /\ conn = 0
  /\ at = "idle" /\ status = "none" /\ outage = FALSE

Dead == conn # 0 /\ (server = "down" \/ conn # gen)

-----------------------------------------------------------------------------
(* External *)

ServerStops ==
  /\ server = "up"
  /\ server' = "down"
  /\ outage' = TRUE
  /\ UNCHANGED <<gen, conn, at, status>>

ServerStarts ==
  /\ server = "down" /\ gen < MaxRestarts
  /\ server' = "up" /\ gen' = gen + 1
  /\ UNCHANGED <<conn, callVars>>

\* The connection task, inside block_on, sees the end of the connection.
CloseNoticed ==
  /\ at \in {"ready", "send", "wire"}
  /\ Dead
  /\ conn' = 0
  /\ UNCHANGED <<server, gen, callVars>>

-----------------------------------------------------------------------------
(* execute_call *)

StartBatch ==
  /\ at = "idle"
  /\ at' = "pump"
  /\ status' = "none"
  /\ UNCHANGED <<server, gen, conn, outage>>

\* Mutant of pump: the runtime is not driven before the request.
NoPump ==
  /\ at = "pump"
  /\ at' = "ready"
  /\ outage' = (server = "down")
  /\ UNCHANGED <<server, gen, conn, status>>

\* pump polls the I/O driver and runs the tasks it wakes: what arrived while
\* PHP was idle is dealt with before the request is dispatched.
pump ==
  /\ at = "pump"
  /\ at' = "ready"
  /\ conn' = IF Dead THEN 0 ELSE conn
  /\ outage' = (server = "down")
  /\ UNCHANGED <<server, gen, status>>

\* Mutant of status_to_php: what tonic says.
raw_status(raw) == raw

\* UNKNOWN "transport error" becomes UNAVAILABLE.
status_to_php(raw) == IF raw = "TRANSPORT" THEN "UNAVAILABLE" ELSE raw

Finish(raw) ==
  /\ at' = "idle"
  /\ status' = status_to_php(raw)
  /\ UNCHANGED <<server, gen, outage>>

\* ready() of a connected transport, dead or not.
AlreadyConnected ==
  /\ at = "ready" /\ conn # 0
  /\ at' = "send"
  /\ UNCHANGED <<server, gen, conn, status, outage>>

Dial ==
  /\ at = "ready" /\ conn = 0 /\ server = "up"
  /\ conn' = gen
  /\ at' = "send"
  /\ UNCHANGED <<server, gen, status, outage>>

\* A lazily connected channel hands the failed attempt to the request, which
\* tonic ends with UNAVAILABLE.
DialFails ==
  /\ at = "ready" /\ conn = 0 /\ server = "down"
  /\ Finish("UNAVAILABLE")
  /\ UNCHANGED conn

Send ==
  /\ at = "send"
  /\ at' = "wire"
  /\ UNCHANGED <<server, gen, conn, status, outage>>

Answer ==
  /\ at = "wire" /\ conn # 0 /\ ~Dead
  /\ Finish("OK")
  /\ UNCHANGED conn

\* The connection ends under the request.
Broken ==
  /\ at = "wire" /\ (conn = 0 \/ Dead)
  /\ Finish("TRANSPORT")
  /\ conn' = 0

ConnectionNext ==
  \/ ServerStops
  \/ ServerStarts
  \/ CloseNoticed
  \/ StartBatch
  \/ pump
  \/ AlreadyConnected
  \/ Dial
  \/ DialFails
  \/ Send
  \/ Answer
  \/ Broken

ConnectionSpec == ConnectionInit /\ [][ConnectionNext]_connectionVars

-----------------------------------------------------------------------------
(* Properties *)

\* "a dead connection is replaced instead of failing it": a call fails only if
\* the server was down at some time since its pump, never because of a restart
\* that was over before the call began.
RestartIsTransparent == status \notin {"none", "OK"} => outage

\* "only OK or UNAVAILABLE may appear", whenever the server stops.
OnlyRetryable == status \in {"none", "OK", "UNAVAILABLE"}
=============================================================================

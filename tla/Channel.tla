------------------------------ MODULE Channel ------------------------------
(***************************************************************************)
(* The connectivity state the users of one transport share                 *)
(* (src/src/channel.rs), over the objects and transports of                *)
(* ChannelRegistry: the probe of getConnectivityState(true), the polling   *)
(* loop of watchConnectivityState, and what calls (src/src/call.rs) do to  *)
(* the state.  The registry belongs to one PHP thread.  In current-thread  *)
(* mode background tasks run only while that thread is in block_on.        *)
(***************************************************************************)
EXTENDS ChannelRegistry

CONSTANTS
  Mode,       \* of runtime.rs: "current-thread" or "multi-thread"
  MaxStreams  \* bound: streams in flight on one transport

ASSUME MaxStreamsAssumption == MaxStreams \in Nat

VARIABLES
  state,    \* SharedChannel.state of each transport
  probes,   \* probe tasks in flight on it
  streams,  \* stream tasks in flight on it
  pc,       \* the PHP thread: "idle" or inside a method
  self,     \* the transport of that method
  arg,      \* its try_to_connect or last_state
  deadline  \* of the watch: "infinite", "pending" or "passed"

phpVars == <<pc, self, arg, deadline>>
taskVars == <<state, probes, streams>>
vars == <<registryVars, phpVars, taskVars>>

States == {"IDLE", "CONNECTING", "READY", "TRANSIENT_FAILURE"}
Outcomes == {"READY", "TRANSIENT_FAILURE"}

TypeOK ==
  /\ state \in [Shared -> States]
  /\ probes \in [Shared -> Nat]
  /\ streams \in [Shared -> 0 .. MaxStreams]
  /\ pc \in {"idle", "pump", "connect", "unary", "start", "watch", "sleep"}
  /\ pc # "idle" => self \in Shared
  /\ deadline \in {"infinite", "pending", "passed"}

Init ==
  /\ RegistryInit
  /\ state = [s \in Shared |-> "IDLE"]
  /\ probes = [s \in Shared |-> 0]
  /\ streams = [s \in Shared |-> 0]
  /\ pc = "idle" /\ self = 0 /\ arg = None
  /\ deadline = "infinite"

\* The methods of ChannelRegistry, while the thread is in no other.
RegistryMethod(o) ==
  /\ pc = "idle"
  /\ RegistryCall(o)
  /\ UNCHANGED <<phpVars, taskVars>>

Uses(o) == pc = "idle" /\ Exists(o) /\ inner[o] = "open"

\* The thread goes into a method on transport s, and comes back with r.
Enter(at, s, a, d) ==
  /\ pc' = at /\ self' = s /\ arg' = a /\ deadline' = d
  /\ Return(None)
  /\ UNCHANGED <<state, probes, streams>>

Leave(r) ==
  /\ pc' = "idle" /\ self' = 0 /\ arg' = None /\ deadline' = "infinite"
  /\ Return(r)

-----------------------------------------------------------------------------
(* The connectivity state *)

Watching == pc \in {"watch", "sleep"}

\* *shared.state.lock() = next, by whoever holds the transport.
SetState(s, next) == state' = [state EXCEPT ![s] = next]

\* getConnectivityState rejects a non-bool before it looks at the channel.
NotBool(o) ==
  /\ pc = "idle" /\ Exists(o)
  /\ Return("InvalidArgument")
  /\ UNCHANGED <<phpVars, taskVars>>

GetConnectivityState(o, try_to_connect) ==
  /\ Uses(o)
  /\ Enter("pump", shared[o], try_to_connect, "infinite")

\* Mutant of ReadState: a probe for every transport that is not ready.
ReadStateNotReady ==
  /\ pc = "pump"
  /\ \/ /\ arg = "true" /\ state[self] # "READY"
        /\ pc' = "connect"
        /\ UNCHANGED <<registryVars, self, arg, deadline>>
     \/ /\ ~(arg = "true" /\ state[self] # "READY")
        /\ Leave(state[self])
  /\ UNCHANGED taskVars

\* After the pump: read the state, and go on only for an idle transport.
ReadState ==
  /\ pc = "pump"
  /\ \/ /\ arg = "true" /\ state[self] = "IDLE"
        /\ pc' = "connect"
        /\ UNCHANGED <<registryVars, self, arg, deadline>>
     \/ /\ ~(arg = "true" /\ state[self] = "IDLE")
        /\ Leave(state[self])
  /\ UNCHANGED taskVars

\* The state was read under another lock: in multi-thread mode it may have moved.
StartProbe ==
  /\ pc = "connect"
  /\ SetState(self, "CONNECTING")
  /\ probes' = [probes EXCEPT ![self] = @ + 1]
  /\ Leave("IDLE")
  /\ UNCHANGED streams

-----------------------------------------------------------------------------
(* watchConnectivityState *)

WatchConnectivityState(o, last_state, d) ==
  /\ Uses(o)
  /\ Enter("watch", shared[o], last_state, d)

\* Mutant of WatchLoop: only the deadline ends the loop.
WatchLoopBlind ==
  /\ pc = "watch"
  /\ \/ /\ deadline = "passed"
        /\ Leave("false")
     \/ /\ deadline # "passed"
        /\ pc' = "sleep"
        /\ UNCHANGED <<registryVars, self, arg, deadline>>
  /\ UNCHANGED taskVars

WatchLoop ==
  /\ pc = "watch"
  /\ \/ /\ state[self] # arg
        /\ Leave("true")
     \/ /\ state[self] = arg /\ deadline = "passed"
        /\ Leave("false")
     \/ /\ state[self] = arg /\ deadline # "passed"
        /\ pc' = "sleep"
        /\ UNCHANGED <<registryVars, self, arg, deadline>>
  /\ UNCHANGED taskVars

\* block_on(sleep) of at most 10 ms is over.
Wake ==
  /\ pc = "sleep"
  /\ pc' = "watch"
  /\ UNCHANGED <<registryVars, self, arg, deadline, taskVars>>

-----------------------------------------------------------------------------
(* Calls: a unary call blocks the thread and sets the state from its result; *)
(* a stream's task sets it when the response starts.                         *)

Unary(o) ==
  /\ Uses(o)
  /\ Enter("unary", shared[o], None, "infinite")

UnaryEnds(next) ==
  /\ pc = "unary"
  /\ SetState(self, next)
  /\ Leave(None)
  /\ UNCHANGED <<probes, streams>>

\* An expired deadline, after the pump: nothing is sent and nothing written.
Expired ==
  /\ pc \in {"unary", "start"}
  /\ Leave(None)
  /\ UNCHANGED taskVars

StartStream(o) ==
  /\ Uses(o)
  /\ Enter("start", shared[o], None, "infinite")

\* The stream's task is spawned after the pump.
StreamStarted ==
  /\ pc = "start"
  /\ streams[self] < MaxStreams
  /\ streams' = [streams EXCEPT ![self] = @ + 1]
  /\ Leave(None)
  /\ UNCHANGED <<state, probes>>

-----------------------------------------------------------------------------
(* Background tasks, and time *)

\* Mutant of Driven: tasks run on threads of their own in every mode.
DrivenAlways == TRUE

Driven == Mode = "multi-thread" \/ pc \in {"pump", "unary", "start", "sleep"}

\* Mutant of ProbeEnds: a failed probe writes nothing.
ProbeEndsQuietly(s, next) ==
  /\ Driven /\ probes[s] > 0
  /\ probes' = [probes EXCEPT ![s] = @ - 1]
  /\ IF next = "READY" THEN SetState(s, next) ELSE UNCHANGED state
  /\ UNCHANGED <<registryVars, phpVars, streams>>

\* ready() returned; the outcome is written whatever happened meanwhile.
ProbeEnds(s, next) ==
  /\ Driven /\ probes[s] > 0
  /\ probes' = [probes EXCEPT ![s] = @ - 1]
  /\ SetState(s, next)
  /\ UNCHANGED <<registryVars, phpVars, streams>>

StreamAnswered(s, next) ==
  /\ Driven /\ streams[s] > 0
  /\ streams' = [streams EXCEPT ![s] = @ - 1]
  /\ SetState(s, next)
  /\ UNCHANGED <<registryVars, phpVars, probes>>

\* No connection, or the deadline: the task leaves the state alone.
StreamGivesUp(s) ==
  /\ Driven /\ streams[s] > 0
  /\ streams' = [streams EXCEPT ![s] = @ - 1]
  /\ UNCHANGED <<registryVars, phpVars, state, probes>>

DeadlinePasses ==
  /\ Watching /\ deadline = "pending"
  /\ deadline' = "passed"
  /\ UNCHANGED <<registryVars, pc, self, arg, taskVars>>

-----------------------------------------------------------------------------
PhpCall(o) ==
  \/ RegistryMethod(o)
  \/ NotBool(o)
  \/ \E try_to_connect \in {"true", "false"} : GetConnectivityState(o, try_to_connect)
  \/ \E last \in States, d \in {"infinite", "pending", "passed"} :
       WatchConnectivityState(o, last, d)
  \/ Unary(o)
  \/ StartStream(o)

WatchStep == WatchLoop \/ Wake

PhpStep == ReadState \/ StartProbe \/ WatchStep \/ Expired \/ StreamStarted

Background ==
  \/ \E s \in Shared, next \in Outcomes : ProbeEnds(s, next)
  \/ \E s \in Shared, next \in Outcomes : StreamAnswered(s, next)
  \/ \E s \in Shared : StreamGivesUp(s)

Next ==
  \/ \E o \in Objects : PhpCall(o)
  \/ PhpStep
  \/ \E next \in Outcomes : UnaryEnds(next)
  \/ Background
  \/ DeadlinePasses

Spec == Init /\ [][Next]_vars

\* A thread in the watch loop runs, time passes, and every sleep drives the
\* runtime, so an attempt that is over (connect_timeout bounds it) is noticed.
FairSpec ==
  /\ Spec
  /\ WF_vars(WatchStep)
  /\ WF_vars(DeadlinePasses)
  /\ \A s \in Shared : SF_vars(\E next \in Outcomes : ProbeEnds(s, next))

-----------------------------------------------------------------------------
(* Properties *)

\* A transport is CONNECTING only while a probe is there to move it on, however
\* calls and probes of several objects overlap.
ConnectingHasProbe ==
  \A s \in Shared : state[s] = "CONNECTING" => probes[s] > 0

\* The inductive invariant of the probes: an idle transport has none, so the one
\* getConnectivityState decided to start is the only one.
ProbeInv ==
  /\ TypeOK
  /\ \A s \in Shared : probes[s] \in {0, 1}
  /\ \A s \in Shared : state[s] = "CONNECTING" => probes[s] = 1
  /\ \A s \in Shared : state[s] = "IDLE" => probes[s] = 0
  /\ pc = "connect" => probes[self] = 0

\* However often getConnectivityState(true) is called, and on however many
\* objects, a transport never has two probes.
OneProbe == \A s \in Shared : probes[s] <= 1

\* "the state transitions IDLE->CONNECTING->READY/TRANSIENT_FAILURE": a transport
\* that has been used never goes back to CONNECTING.  The state is read and
\* written under two locks; in current-thread mode nothing runs in between.
ConnectingFromIdle ==
  [][\A s \in Shared :
       (state'[s] = "CONNECTING" /\ state[s] # "CONNECTING") => state[s] = "IDLE"]_vars

\* watchConnectivityState returns by its deadline; and without one when it waits
\* for the end of CONNECTING, because its own sleep drives the probe.
WatchReturns ==
  (Watching /\ (deadline # "infinite" \/ arg = "CONNECTING")) ~> pc = "idle"

=============================================================================

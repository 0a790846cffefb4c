--------------------------- MODULE ChannelProofs ---------------------------
(***************************************************************************)
(* Proofs about ChannelRegistry and Channel, for every set of objects and  *)
(* configurations and any number of transports and streams, and about      *)
(* Connection, for any number of restarts.                                 *)
(***************************************************************************)
EXTENDS Channel, Connection, TLAPS

(* The registry *)

\* The registry starts empty and no object exists.
LEMMA RegistryInitial == RegistryInit => RegistryInv
BY MaxSharedAssumption DEF RegistryInit, RegistryInv, Exists, objVars

\* A step that touches neither objects nor transports keeps the invariant.
LEMMA RegistrySame ==
  RegistryInv /\ UNCHANGED <<registry, built, objVars>> => RegistryInv'
BY DEF RegistryInv, Exists, objVars

\* A construction that finds its key takes the key's transport.
LEMMA ReuseKeeps ==
  ASSUME NEW o \in Objects, NEW c \in Configs, RegistryInv, ~Exists(o), Reuse(o, c)
  PROVE  RegistryInv'
BY MaxSharedAssumption DEF RegistryInv, Exists, Reuse, Made

\* A construction that builds gets a transport nobody has, and registers it when
\* it is persistent.
LEMMA BuildKeeps ==
  ASSUME NEW o \in Objects, NEW c \in Configs, RegistryInv, ~Exists(o), Build(o, c)
  PROVE  RegistryInv'
<1> DEFINE s == built + 1
<1>1. /\ built \in Nat /\ built' = s /\ s \in 1 .. MaxShared
      /\ shared' = [shared EXCEPT ![o] = s]
      /\ conf' = [conf EXCEPT ![o] = c]
      /\ inner' = [inner EXCEPT ![o] = "open"]
  BY MaxSharedAssumption DEF RegistryInv, Build, Made
<1>2. \A p \in Objects : shared[p] \in 0 .. built
  BY DEF RegistryInv
<1>3. \A p \in Objects \ {o} : shared'[p] = shared[p] /\ conf'[p] = conf[p]
  BY <1>1 DEF RegistryInv
<1>4. shared'[o] = s /\ conf'[o] = c
  BY <1>1 DEF RegistryInv
<1>5. CASE Persisted(c) /\ Register(c, s)
  <2>1. /\ DOMAIN registry' = DOMAIN registry \cup {Key(c)}
        /\ registry'[Key(c)] = s
        /\ \A k \in DOMAIN registry \ {Key(c)} : registry'[k] = registry[k]
    BY <1>5 DEF Register
  <2>2. Key(c) \notin DOMAIN registry
    BY <1>5 DEF Build, Fresh
  <2> QED
    BY <1>1, <1>2, <1>3, <1>4, <1>5, <2>1, <2>2, SMTT(60) DEF RegistryInv, Exists
<1>6. CASE ~Persisted(c) /\ UNCHANGED registry
  BY <1>1, <1>2, <1>3, <1>4, <1>6, SMTT(60) DEF RegistryInv, Exists
<1> QED
  BY <1>5, <1>6 DEF Build

\* Every method that touches the registry keeps its invariant: __construct on
\* each of its ways out, close, a method of a closed object and the drop.
LEMMA RegistryKeeps ==
  ASSUME NEW o \in Objects, RegistryInv, RegistryCall(o)
  PROVE  RegistryInv'
<1>1. ASSUME NEW c \in Configs, Construct(o, c)  PROVE RegistryInv'
  <2>1. CASE Rejected(c) \/ BuildFails(c)
    BY <2>1, RegistrySame DEF Rejected, BuildFails, Return
  <2> QED
    BY <1>1, <2>1, ReuseKeeps, BuildKeeps DEF Construct
<1>2. CASE Close(o)
  BY <1>2 DEF RegistryInv, Exists, Close
<1>3. CASE ClosedThrows(o)
  BY <1>3, RegistrySame DEF ClosedThrows, Return
<1>4. CASE Free(o)
  BY <1>4 DEF RegistryInv, Exists, Free
<1> QED
  BY <1>1, <1>2, <1>3, <1>4 DEF RegistryCall

\* What the invariant says of two objects is the sharing rule of the constructor.
LEMMA InvShares == RegistryInv => SharingIsKey
<1> SUFFICES ASSUME RegistryInv, NEW o1 \in Objects, NEW o2 \in Objects,
                    o1 # o2, Exists(o1), Exists(o2)
             PROVE  shared[o1] = shared[o2] <=>
                      /\ \A o \in {o1, o2} : ~conf[o].creds.plugin /\ ~conf[o].force_new
                      /\ conf[o1].target = conf[o2].target
                      /\ conf[o1].creds.id = conf[o2].creds.id
                      /\ persist_parts(conf[o1].args) = persist_parts(conf[o2].args)
  BY DEF SharingIsKey
<1>1. shared[o1] = shared[o2] <=>
        Persisted(conf[o1]) /\ Persisted(conf[o2]) /\ Key(conf[o1]) = Key(conf[o2])
  BY DEF RegistryInv
<1> QED
  BY <1>1 DEF Persisted, Key

\* The registry holds one transport for every key in use, and every object
\* holds the transport of its key or one of its own (Channel::__construct).
THEOREM RegistryInvariant == RegistrySpec => []RegistryInv
<1>1. RegistryInv /\ [RegistryNext]_registryVars => RegistryInv'
  BY RegistryKeeps, RegistrySame DEF RegistryNext, registryVars
<1> QED
  BY <1>1, RegistryInitial, PTL DEF RegistrySpec

\* Objects share a transport exactly when both are persistent and their keys
\* agree, whatever is constructed, closed and freed (Channel::__construct).
THEOREM Sharing == RegistrySpec => []SharingIsKey
BY RegistryInvariant, InvShares, PTL

\* A registered transport is never replaced or dropped (CHANNEL_REGISTRY).
THEOREM RegistryGrows == RegistrySpec => RegistryOnlyGrows
<1>1. [RegistryNext]_registryVars =>
        [\A k \in DOMAIN registry :
           k \in DOMAIN registry' /\ registry'[k] = registry[k]]_registryVars
  BY DEF RegistryNext, RegistryCall, Construct, Rejected, Reuse, BuildFails, Build,
         Return, Register, Fresh, Close, ClosedThrows, Free, registryVars
<1> QED
  BY <1>1, PTL DEF RegistrySpec, RegistryOnlyGrows

-----------------------------------------------------------------------------
(* The connectivity state *)

ChannelInv == RegistryInv /\ ProbeInv

\* At the start there is no transport, hence no probe.
LEMMA ChannelInitial == Init => ChannelInv
<1> SUFFICES ASSUME Init PROVE ChannelInv
  OBVIOUS
<1>1. RegistryInv
  BY RegistryInitial DEF Init
<1>2. ProbeInv
  BY MaxStreamsAssumption DEF Init, ProbeInv, TypeOK, States
<1> QED
  BY <1>1, <1>2 DEF ChannelInv

\* The transport behind an object that is used is one of those built.
LEMMA UsedTransport ==
  ASSUME NEW o \in Objects, RegistryInv, Exists(o)
  PROVE  shared[o] \in Shared
BY MaxSharedAssumption DEF RegistryInv, Exists, Shared

\* Every step of the composition is a registry method or leaves objects and
\* transports alone.
LEMMA RegistryStep ==
  ASSUME [Next]_vars
  PROVE  [RegistryNext]_<<registry, built, objVars>>
<1>1. CASE \E o \in Objects : RegistryMethod(o)
  BY <1>1 DEF RegistryMethod, RegistryNext
<1>2. CASE \E o \in Objects : PhpCall(o) /\ ~RegistryMethod(o)
  BY <1>2 DEF PhpCall, NotBool, GetConnectivityState, WatchConnectivityState,
     Unary, StartStream, Enter, Return
<1>3. CASE PhpStep
  BY <1>3 DEF PhpStep, WatchStep, ReadState, StartProbe, WatchLoop, Wake, Expired,
     StreamStarted, Leave, Return, registryVars
<1>4. CASE \E next \in Outcomes : UnaryEnds(next)
  BY <1>4 DEF UnaryEnds, Leave, Return
<1>5. CASE Background \/ DeadlinePasses \/ UNCHANGED vars
  BY <1>5 DEF Background, ProbeEnds, StreamAnswered, StreamGivesUp,
     DeadlinePasses, vars, registryVars
<1> QED
  BY <1>1, <1>2, <1>3, <1>4, <1>5 DEF Next

\* Hence every step keeps the registry's invariant.
LEMMA RegistryPart == RegistryInv /\ [Next]_vars => RegistryInv'
BY RegistryStep, RegistryKeeps, RegistrySame DEF RegistryNext

\* Every step keeps the invariant of the probes: one is started only for an idle
\* transport, and its end takes the state away from CONNECTING.
LEMMA ProbePart == RegistryInv /\ ProbeInv /\ [Next]_vars => ProbeInv'
<1> SUFFICES ASSUME RegistryInv, ProbeInv, [Next]_vars PROVE ProbeInv'
  OBVIOUS
<1> USE DEF ProbeInv, TypeOK, States
<1>1. ASSUME NEW o \in Objects, PhpCall(o) PROVE ProbeInv'
  <2>1. CASE RegistryMethod(o) \/ NotBool(o)
    BY <2>1 DEF RegistryMethod, NotBool, phpVars, taskVars
  <2>2. CASE \E t \in {"true", "false"} : GetConnectivityState(o, t)
    BY <2>2, UsedTransport DEF GetConnectivityState, Uses, Enter
  <2>3. CASE \E last \in States, d \in {"infinite", "pending", "passed"} :
               WatchConnectivityState(o, last, d)
    BY <2>3, UsedTransport DEF WatchConnectivityState, Uses, Enter
  <2>4. CASE Unary(o)
    BY <2>4, UsedTransport DEF Unary, Uses, Enter
  <2>5. CASE StartStream(o)
    BY <2>5, UsedTransport DEF StartStream, Uses, Enter
  <2> QED
    BY <1>1, <2>1, <2>2, <2>3, <2>4, <2>5 DEF PhpCall
<1>2. CASE ReadState
  BY <1>2 DEF ReadState, Leave, taskVars
<1>3. CASE StartProbe
  BY <1>3 DEF StartProbe, SetState, Leave
<1>4. CASE WatchLoop \/ Wake \/ Expired
  BY <1>4 DEF WatchLoop, Wake, Expired, Leave, taskVars
<1>10. CASE StreamStarted
  BY <1>10, MaxStreamsAssumption DEF StreamStarted, Leave
<1>5. ASSUME NEW next \in Outcomes, UnaryEnds(next) PROVE ProbeInv'
  BY <1>5 DEF UnaryEnds, SetState, Leave, Outcomes
<1>6. ASSUME NEW s \in Shared, NEW next \in Outcomes, ProbeEnds(s, next) PROVE ProbeInv'
  BY <1>6 DEF ProbeEnds, SetState, Outcomes, phpVars
<1>7. ASSUME NEW s \in Shared, NEW next \in Outcomes, StreamAnswered(s, next)
      PROVE ProbeInv'
  BY <1>7, MaxStreamsAssumption DEF StreamAnswered, SetState, Outcomes, phpVars
<1>8. ASSUME NEW s \in Shared, StreamGivesUp(s) PROVE ProbeInv'
  BY <1>8, MaxStreamsAssumption DEF StreamGivesUp, phpVars
<1>9. CASE DeadlinePasses \/ UNCHANGED vars
  BY <1>9 DEF DeadlinePasses, vars, phpVars, taskVars
<1> QED
  BY <1>1, <1>2, <1>3, <1>4, <1>5, <1>6, <1>7, <1>8, <1>9, <1>10
  DEF Next, PhpStep, WatchStep, Background

\* The invariants of the registry and of the probes hold side by side.
LEMMA ChannelInvariant == Spec => []ChannelInv
<1>1. ChannelInv /\ [Next]_vars => ChannelInv'
  BY RegistryPart, ProbePart DEF ChannelInv
<1> QED
  BY <1>1, ChannelInitial, PTL DEF Spec

\* In both runtime modes an idle transport has no probe and a CONNECTING one has
\* exactly one, also between the two locks of get_connectivity_state.
THEOREM ProbeInvariant == Spec => []ProbeInv
BY ChannelInvariant, PTL DEF ChannelInv

\* In both runtime modes a CONNECTING transport has a probe that will move it
\* on (get_connectivity_state).
THEOREM ConnectingProbed == Spec => []ConnectingHasProbe
<1>1. ChannelInv => ConnectingHasProbe
  BY DEF ChannelInv, ProbeInv, ConnectingHasProbe
<1> QED
  BY <1>1, ChannelInvariant, PTL

\* In both runtime modes no transport ever has two probes.
THEOREM ProbeOnce == Spec => []OneProbe
<1>1. ChannelInv => OneProbe
  BY DEF ChannelInv, ProbeInv, OneProbe
<1> QED
  BY <1>1, ChannelInvariant, PTL

\* The sharing rule still holds when calls, probes and watches use the objects.
THEOREM SharingInUse == Spec => []SharingIsKey
<1>1. ChannelInv => SharingIsKey
  BY InvShares DEF ChannelInv
<1> QED
  BY <1>1, ChannelInvariant, PTL

\* Seen from its objects and transports, a process that also makes calls, probes
\* and watches is a run of the registry: nothing but __construct, close and the
\* drop of an object changes them.
THEOREM OnlyRegistryMethods ==
  Spec => RegistryInit /\ [][RegistryNext]_<<registry, built, objVars>>
<1>1. Init => RegistryInit
  BY DEF Init
<1> QED
  BY <1>1, RegistryStep, PTL DEF Spec

\* With the per-thread runtime no task runs between the two locks, so what
\* getConnectivityState found idle still is when it writes CONNECTING.
StillIdle == pc = "connect" => state[self] = "IDLE"

\* With the per-thread runtime the state goes to CONNECTING only from IDLE.
THEOREM FromIdle ==
  ASSUME Mode = "current-thread"
  PROVE  Spec => ConnectingFromIdle
<1> USE DEF ProbeInv, TypeOK
<1>1. Init => StillIdle
  BY DEF Init, StillIdle
<1>2. ChannelInv /\ StillIdle /\ [Next]_vars => StillIdle'
  <2> SUFFICES ASSUME ChannelInv, StillIdle, [Next]_vars PROVE StillIdle'
    OBVIOUS
  <2>1. CASE \E o \in Objects : PhpCall(o)
    BY <2>1 DEF StillIdle, PhpCall, RegistryMethod, NotBool, GetConnectivityState,
       WatchConnectivityState, Unary, StartStream, Uses, Enter, phpVars
  <2>2. CASE PhpStep
    BY <2>2 DEF StillIdle, PhpStep, WatchStep, ReadState, StartProbe, WatchLoop, Wake,
       Expired, StreamStarted, Leave, taskVars
  <2>3. CASE \E next \in Outcomes : UnaryEnds(next)
    BY <2>3 DEF StillIdle, UnaryEnds, Leave
  <2>4. CASE Background
    BY <2>4 DEF StillIdle, Background, ProbeEnds, StreamAnswered, StreamGivesUp,
       Driven, phpVars
  <2>5. CASE DeadlinePasses \/ UNCHANGED vars
    BY <2>5 DEF StillIdle, DeadlinePasses, vars, phpVars, taskVars
  <2> QED
    BY <2>1, <2>2, <2>3, <2>4, <2>5 DEF Next
<1>3. ChannelInv /\ StillIdle /\ [Next]_vars =>
        [\A s \in Shared :
           (state'[s] = "CONNECTING" /\ state[s] # "CONNECTING") =>
             state[s] = "IDLE"]_vars
  <2> SUFFICES ASSUME ChannelInv, StillIdle, Next, NEW s \in Shared,
                      state'[s] = "CONNECTING", state[s] # "CONNECTING"
               PROVE  state[s] = "IDLE"
    OBVIOUS
  <2>1. CASE StartProbe
    BY <2>1 DEF StartProbe, SetState, StillIdle, ChannelInv
  <2>2. CASE ~StartProbe
    BY <2>2 DEF ChannelInv, Next, PhpCall, RegistryMethod, NotBool,
       GetConnectivityState, WatchConnectivityState, Unary, StartStream, Enter,
       PhpStep, WatchStep, ReadState, WatchLoop, Wake, Expired, StreamStarted, Leave,
       UnaryEnds, Background, ProbeEnds, StreamAnswered, StreamGivesUp, SetState,
       Outcomes, DeadlinePasses, taskVars
  <2> QED
    BY <2>1, <2>2
<1> QED
  BY <1>1, <1>2, <1>3, ChannelInvariant, PTL DEF Spec, ConnectingFromIdle

-----------------------------------------------------------------------------
(* The connection below a channel *)

\* The inductive invariant.  After the pump a call can meet a server that is
\* down, or a connection that is dead or gone, only if the server stopped since;
\* and a call under way has no status yet, so the reset of outage by the pump
\* takes no excuse away from a call that failed.
ConnectionInv ==
  /\ ConnectionTypeOK
  /\ at \in {"ready", "send", "wire"} /\ (server = "down" \/ Dead) => outage
  /\ at \in {"send", "wire"} /\ conn = 0 => outage
  /\ at # "idle" => status = "none"
  /\ RestartIsTransparent
  /\ OnlyRetryable

\* The server is up, there is no connection and no call has been made.
LEMMA ConnectionInitial == ConnectionInit => ConnectionInv
BY MaxRestartsAssumption DEF ConnectionInit, ConnectionInv, ConnectionTypeOK, Dead,
   RestartIsTransparent, OnlyRetryable

\* Stops, restarts and the steps of a call preserve it in any order.
LEMMA ConnectionKeeps == ConnectionInv /\ [ConnectionNext]_connectionVars => ConnectionInv'
<1> SUFFICES ASSUME ConnectionInv, [ConnectionNext]_connectionVars PROVE ConnectionInv'
  OBVIOUS
<1> USE MaxRestartsAssumption DEF ConnectionInv, ConnectionTypeOK, Dead,
        RestartIsTransparent, OnlyRetryable, callVars
<1>1. CASE ServerStops
  BY <1>1 DEF ServerStops
<1>2. CASE ServerStarts
  BY <1>2 DEF ServerStarts
<1>3. CASE CloseNoticed
  BY <1>3 DEF CloseNoticed
<1>4. CASE StartBatch
  BY <1>4 DEF StartBatch
<1>5. CASE pump
  <2>1. server = "down" => outage'
    BY <1>5, Zenon DEF pump
  <2>2. ~Dead' /\ status' = "none" /\ server' = server
    BY <1>5 DEF pump
  <2> QED
    BY <1>5, <2>1, <2>2 DEF pump
<1>6. CASE AlreadyConnected
  BY <1>6 DEF AlreadyConnected
<1>7. CASE Dial
  BY <1>7 DEF Dial
<1>8. CASE DialFails
  BY <1>8 DEF DialFails, Finish, status_to_php
<1>9. CASE Send
  BY <1>9 DEF Send
<1>10. CASE Answer
  BY <1>10 DEF Answer, Finish, status_to_php
<1>11. CASE Broken
  BY <1>11 DEF Broken, Finish, status_to_php
<1>12. CASE UNCHANGED connectionVars
  BY <1>12 DEF connectionVars
<1> QED
  BY <1>1, <1>2, <1>3, <1>4, <1>5, <1>6, <1>7, <1>8, <1>9, <1>10, <1>11, <1>12
  DEF ConnectionNext

\* It holds however often the server stops and restarts.
THEOREM ConnectionInvariant == ConnectionSpec => []ConnectionInv
BY ConnectionInitial, ConnectionKeeps, PTL DEF ConnectionSpec

\* A call fails only if the server was down after its pump: a connection that
\* died while PHP was idle is replaced, after any number of restarts.
THEOREM RestartTransparent == ConnectionSpec => []RestartIsTransparent
<1>1. ConnectionInv => RestartIsTransparent
  BY DEF ConnectionInv
<1> QED
  BY <1>1, ConnectionInvariant, PTL

\* A server that stops at any moment of a call leaves it OK or UNAVAILABLE.
THEOREM FailuresRetryable == ConnectionSpec => []OnlyRetryable
<1>1. ConnectionInv => OnlyRetryable
  BY DEF ConnectionInv
<1> QED
  BY <1>1, ConnectionInvariant, PTL
=============================================================================

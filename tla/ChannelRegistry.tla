-------------------------- MODULE ChannelRegistry --------------------------
(***************************************************************************)
(* The Grpc\Channel objects of one PHP thread and the transports they use  *)
(* (src/src/channel.rs): __construct, with the thread-local registry of    *)
(* persistent transports, close and the destruction of the object.         *)
(*                                                                         *)
(* Transports are numbered in the order they are built.                    *)
(***************************************************************************)
EXTENDS Integers

CONSTANTS
  Objects,    \* Grpc\Channel objects
  Configs,    \* what __construct is called with
  NoConfig,   \* no object
  BadTargets, \* targets that are no URI
  MaxShared   \* bound: transports built

ASSUME MaxSharedAssumption == MaxShared \in Nat

VARIABLES
  registry, \* CHANNEL_REGISTRY: key to transport
  built,    \* transports built so far
  conf,     \* the configuration of each object
  shared,   \* its transport, 0 while there is no object
  inner,    \* "open", or "closed" once close() has dropped ChannelInner
  result    \* what the last method returned or threw

objVars == <<conf, shared, inner>>
registryVars == <<registry, built, objVars, result>>

None == "none"
Shared == 1 .. MaxShared
Exists(o) == shared[o] # 0

-----------------------------------------------------------------------------
(* The persistence key *)

\* key=value of every argument, sorted: the type of the value is lost.
persist_parts(args) == {<<a.key, a.text>> : a \in args}

\* An argument with an integer key or a value that is neither int nor string, or
\* credentials that are no ChannelCredentials.
Malformed(c) ==
  \/ \E a \in c.args : a.type \notin {"int", "string"}
  \/ c.creds.kind = "other"

\* Mutant of Key: the credentials are left out.
KeyNoCreds(c) == <<c.target, persist_parts(c.args)>>

Key(c) == <<c.target, c.creds.id, persist_parts(c.args)>>

\* Composites with a call plugin and force_new are built anew each time.
Persisted(c) == ~c.creds.plugin /\ ~c.force_new

-----------------------------------------------------------------------------
RegistryInit ==
  /\ registry = <<>> /\ built = 0
  /\ conf = [o \in Objects |-> NoConfig]
  /\ shared = [o \in Objects |-> 0]
  /\ inner = [o \in Objects |-> "open"]
  /\ result = None

\* A method that leaves objects and transports alone returns or throws r.
Return(r) ==
  /\ result' = r
  /\ UNCHANGED <<registry, built, objVars>>

\* __construct

Made(o, c, s) ==
  /\ conf' = [conf EXCEPT ![o] = c]
  /\ shared' = [shared EXCEPT ![o] = s]
  /\ inner' = [inner EXCEPT ![o] = "open"]
  /\ result' = None

Rejected(c) == Malformed(c) /\ Return("InvalidArgument")

\* A registered transport is used before target and arguments are looked at.
Reuse(o, c) ==
  /\ ~Malformed(c)
  /\ Persisted(c) /\ Key(c) \in DOMAIN registry
  /\ Made(o, c, registry[Key(c)])
  /\ UNCHANGED <<registry, built>>

Fresh(c) == ~Malformed(c) /\ ~(Persisted(c) /\ Key(c) \in DOMAIN registry)

BuildFails(c) == Fresh(c) /\ c.target \in BadTargets /\ Return("InvalidUri")

Register(c, s) ==
  registry' = [k \in DOMAIN registry \cup {Key(c)} |->
                 IF k = Key(c) THEN s ELSE registry[k]]

Build(o, c) ==
  /\ Fresh(c) /\ c.target \notin BadTargets
  /\ built < MaxShared
  /\ built' = built + 1
  /\ Made(o, c, built + 1)
  /\ \/ Persisted(c) /\ Register(c, built + 1)
     \/ ~Persisted(c) /\ UNCHANGED registry

Construct(o, c) ==
  /\ ~Exists(o)
  /\ Rejected(c) \/ Reuse(o, c) \/ BuildFails(c) \/ Build(o, c)

\* Mutant of Close: closing one object drops the transport from the registry.
CloseEvicts(o) ==
  /\ Exists(o)
  /\ inner' = [inner EXCEPT ![o] = "closed"]
  /\ registry' = [k \in DOMAIN registry \ {Key(conf[o])} |-> registry[k]]
  /\ result' = None
  /\ UNCHANGED <<built, conf, shared>>

\* close(): the transport lives on in the registry and in its other users.
Close(o) ==
  /\ Exists(o)
  /\ inner' = [inner EXCEPT ![o] = "closed"]
  /\ result' = None
  /\ UNCHANGED <<registry, built, conf, shared>>

\* Every method of a closed channel throws.
ClosedThrows(o) ==
  /\ Exists(o) /\ inner[o] = "closed"
  /\ Return("RuntimeException")

\* PHP destroys the object.
Free(o) ==
  /\ Exists(o)
  /\ conf' = [conf EXCEPT ![o] = NoConfig]
  /\ shared' = [shared EXCEPT ![o] = 0]
  /\ inner' = [inner EXCEPT ![o] = "open"]
  /\ result' = None
  /\ UNCHANGED <<registry, built>>

RegistryCall(o) ==
  \/ \E c \in Configs : Construct(o, c)
  \/ Close(o)
  \/ ClosedThrows(o)
  \/ Free(o)

RegistryNext == \E o \in Objects : RegistryCall(o)

RegistrySpec == RegistryInit /\ [][RegistryNext]_registryVars

-----------------------------------------------------------------------------
(* Properties *)

\* Two Channel objects use one transport exactly when both are persistent and
\* were built from the same target, credentials id and rendered arguments,
\* whatever was closed, freed or rebuilt in between.
SharingIsKey ==
  \A o1, o2 \in Objects :
    (o1 # o2 /\ Exists(o1) /\ Exists(o2)) =>
      (shared[o1] = shared[o2] <=>
         /\ \A o \in {o1, o2} : ~conf[o].creds.plugin /\ ~conf[o].force_new
         /\ conf[o1].target = conf[o2].target
         /\ conf[o1].creds.id = conf[o2].creds.id
         /\ persist_parts(conf[o1].args) = persist_parts(conf[o2].args))

\* The inductive invariant: registered transports are distinct and built, a
\* persistent object uses the one its key names, and any other object has one
\* of its own.
RegistryInv ==
  /\ built \in 0 .. MaxShared
  /\ shared \in [Objects -> 0 .. built]
  /\ conf \in [Objects -> Configs \cup {NoConfig}]
  /\ inner \in [Objects -> {"open", "closed"}]
  /\ \A k \in DOMAIN registry : registry[k] \in 1 .. built
  /\ \A k1, k2 \in DOMAIN registry : registry[k1] = registry[k2] => k1 = k2
  /\ \A o \in Objects : Exists(o) =>
       IF Persisted(conf[o])
       THEN Key(conf[o]) \in DOMAIN registry /\ registry[Key(conf[o])] = shared[o]
       ELSE /\ \A k \in DOMAIN registry : registry[k] # shared[o]
            /\ \A p \in Objects \ {o} : shared[p] # shared[o]

\* A transport, once registered, is the one its key names for the life of the
\* thread: no close, free or failed construction replaces or drops it.
RegistryOnlyGrows ==
  [][\A k \in DOMAIN registry :
       k \in DOMAIN registry' /\ registry'[k] = registry[k]]_registryVars

-----------------------------------------------------------------------------
(* Statements of comments that the code does not meet *)

\* "the same target + args + TLS kind shares one underlying transport across
\* Channel objects and requests" (channel.rs, __construct).
SameKindShares ==
  \A o1, o2 \in Objects :
    (/\ Exists(o1) /\ Exists(o2)
     /\ Persisted(conf[o1]) /\ Persisted(conf[o2])
     /\ conf[o1].target = conf[o2].target /\ conf[o1].args = conf[o2].args
     /\ conf[o1].creds.kind = conf[o2].creds.kind) => shared[o1] = shared[o2]

\* "keyed by target + args + credentials" (channel.rs, CHANNEL_REGISTRY): objects
\* on one transport were built with the same arguments.
SharedMeansSameArgs ==
  \A o1, o2 \in Objects :
    (Exists(o1) /\ Exists(o2) /\ shared[o1] = shared[o2]) =>
      conf[o1].args = conf[o2].args
=============================================================================

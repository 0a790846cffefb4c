------------------------------ MODULE Runtime ------------------------------
(***************************************************************************)
(* get_runtime of src/src/runtime.rs under ZTS: several PHP threads of one *)
(* process ask for their runtime while the mode and the shared runtime are *)
(* not yet set.  Runtimes are numbered in the order they are built.        *)
(***************************************************************************)
EXTENDS Integers

CONSTANTS
  Threads,   \* PHP threads
  MaxRuntimes \* bound: runtimes built

ASSUME MaxRuntimesAssumption == MaxRuntimes \in Nat

VARIABLES
  env,   \* GRPC_PHP_RS_RUNTIME, which putenv() may change
  mode,  \* MODE
  multi, \* MULTI, 0 while it is not set
  local, \* LOCAL of each thread, 0 while it is not set
  built, \* runtimes built so far
  live,  \* those not dropped
  pc,    \* where each thread is in get_runtime
  mine,  \* the runtime it has built for MULTI
  got    \* history: the runtimes get_runtime has returned to it

vars == <<env, mode, multi, local, built, live, pc, mine, got>>

Modes == {"current-thread", "multi-thread"}
Runtimes == 1 .. MaxRuntimes

Init ==
  /\ env \in Modes /\ mode = "unset"
  /\ multi = 0 /\ local = [t \in Threads |-> 0]
  /\ built = 0 /\ live = {}
  /\ pc = [t \in Threads |-> "php"]
  /\ mine = [t \in Threads |-> 0]
  /\ got = [t \in Threads |-> {}]

\* putenv() in a script, any value.
PutEnv(value) ==
  /\ env' = value
  /\ UNCHANGED <<mode, multi, local, built, live, pc, mine, got>>

Goto(t, at) == pc' = [pc EXCEPT ![t] = at]

\* mode(): the first thread decides, get_or_init makes the others wait for it.
GetMode(t) ==
  /\ pc[t] = "php"
  /\ mode' = IF mode = "unset" THEN env ELSE mode
  /\ Goto(t, "lookup")
  /\ UNCHANGED <<env, multi, local, built, live, mine, got>>

Returns(t, r) ==
  /\ got' = [got EXCEPT ![t] = @ \cup {r}]
  /\ Goto(t, "php")

\* Runtime::new() or the Builder fails: get_runtime returns the error.
BuildFails(t) ==
  /\ \/ pc[t] = "lookup" /\ mode = "current-thread" /\ local[t] = 0
     \/ pc[t] = "build"
  /\ Goto(t, "php")
  /\ UNCHANGED <<env, mode, multi, local, built, live, mine, got>>

\* LOCAL: nobody else touches it.
LocalFound(t) ==
  /\ pc[t] = "lookup" /\ mode = "current-thread" /\ local[t] # 0
  /\ Returns(t, local[t])
  /\ UNCHANGED <<env, mode, multi, local, built, live, mine>>

LocalBuilt(t) ==
  /\ pc[t] = "lookup" /\ mode = "current-thread" /\ local[t] = 0
  /\ built < MaxRuntimes
  /\ built' = built + 1 /\ live' = live \cup {built + 1}
  /\ local' = [local EXCEPT ![t] = built + 1]
  /\ Returns(t, built + 1)
  /\ UNCHANGED <<env, mode, multi, mine>>

\* MULTI: get, build, set and get again are separate steps.
MultiFound(t) ==
  /\ pc[t] = "lookup" /\ mode = "multi-thread" /\ multi # 0
  /\ Returns(t, multi)
  /\ UNCHANGED <<env, mode, multi, local, built, live, mine>>

MultiMissing(t) ==
  /\ pc[t] = "lookup" /\ mode = "multi-thread" /\ multi = 0
  /\ Goto(t, "build")
  /\ UNCHANGED <<env, mode, multi, local, built, live, mine, got>>

MultiBuilt(t) ==
  /\ pc[t] = "build"
  /\ built < MaxRuntimes
  /\ built' = built + 1 /\ live' = live \cup {built + 1}
  /\ mine' = [mine EXCEPT ![t] = built + 1]
  /\ Goto(t, "set")
  /\ UNCHANGED <<env, mode, multi, local, got>>

\* Mutant of MultiSet: the last thread to arrive replaces the runtime.
MultiReplace(t) ==
  /\ pc[t] = "set"
  /\ multi' = mine[t] /\ live' = live \ {multi}
  /\ Goto(t, "get")
  /\ UNCHANGED <<env, mode, local, built, mine, got>>

\* let _ = MULTI.set(rt): the loser's runtime is dropped.
MultiSet(t) ==
  /\ pc[t] = "set"
  /\ \/ multi = 0 /\ multi' = mine[t] /\ UNCHANGED live
     \/ multi # 0 /\ live' = live \ {mine[t]} /\ UNCHANGED multi
  /\ Goto(t, "get")
  /\ UNCHANGED <<env, mode, local, built, mine, got>>

\* Mutant of MultiGet: the thread keeps the runtime it built.
MultiGetMine(t) ==
  /\ pc[t] = "get"
  /\ Returns(t, mine[t])
  /\ UNCHANGED <<env, mode, multi, local, built, live, mine>>

MultiGet(t) ==
  /\ pc[t] = "get"
  /\ Returns(t, multi)
  /\ UNCHANGED <<env, mode, multi, local, built, live, mine>>

Step(t) ==
  \/ GetMode(t)
  \/ BuildFails(t)
  \/ LocalFound(t)
  \/ LocalBuilt(t)
  \/ MultiFound(t)
  \/ MultiMissing(t)
  \/ MultiBuilt(t)
  \/ MultiSet(t)
  \/ MultiGet(t)

Next ==
  \/ \E t \in Threads : Step(t)
  \/ \E value \in Modes : PutEnv(value)

Spec == Init /\ [][Next]_vars

-----------------------------------------------------------------------------
(* Properties *)

\* "should return the same runtime instance on one thread": a thread gets one
\* runtime for ever; in multi-thread mode all threads get the same, else no two
\* threads do, however their first calls interleave, fail and are repeated.
OneRuntime ==
  \A t, u \in Threads : \A r \in got[t], s \in got[u] :
    r = s <=> (t = u \/ mode = "multi-thread")

\* No thread holds a &'static Runtime that lost the race and was dropped.
GotIsLive == \A t \in Threads : got[t] \subseteq live

\* The inductive invariant: a thread has got nothing, or what its cell holds.
RuntimeInv ==
  /\ mode \in {"unset"} \cup Modes /\ env \in Modes
  /\ built \in 0 .. MaxRuntimes /\ multi \in 0 .. built
  /\ local \in [Threads -> 0 .. built] /\ mine \in [Threads -> 0 .. built]
  /\ pc \in [Threads -> {"php", "lookup", "build", "set", "get"}]
  /\ got \in [Threads -> SUBSET Runtimes]
  /\ multi # 0 => mode = "multi-thread" /\ multi \in live
  /\ \A t \in Threads :
       /\ pc[t] # "php" => mode # "unset"
       /\ pc[t] \in {"build", "set", "get"} => mode = "multi-thread"
       /\ pc[t] = "set" => mine[t] \in live /\ mine[t] # multi
       /\ pc[t] = "get" => multi # 0
       /\ local[t] # 0 => mode = "current-thread" /\ local[t] \in live
       /\ got[t] \subseteq {IF mode = "multi-thread" THEN multi ELSE local[t]} \ {0}
       /\ \A u \in Threads \ {t} :
            /\ local[t] # 0 => local[t] # local[u]
            /\ pc[t] = "set" /\ pc[u] = "set" => mine[t] # mine[u]
=============================================================================

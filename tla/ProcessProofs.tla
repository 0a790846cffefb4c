--------------------------- MODULE ProcessProofs ---------------------------
(***************************************************************************)
(* Proofs about Runtime and Binding, for every set of threads: what        *)
(* get_runtime returns, and what the requests of a process find.           *)
(***************************************************************************)
EXTENDS Binding, SequenceTheorems, TLAPS

-----------------------------------------------------------------------------
(* get_runtime *)

\* No thread has a runtime before its first get_runtime.
LEMMA RuntimeInitial == Init => RuntimeInv
BY MaxRuntimesAssumption, SMTT(30) DEF Init, RuntimeInv, Modes

\* Every step of get_runtime keeps the invariant; the thread whose set loses the
\* race drops a runtime nobody has got.
LEMMA RuntimeKeeps == RuntimeInv /\ [Next]_vars => RuntimeInv'
<1> SUFFICES ASSUME RuntimeInv, [Next]_vars PROVE RuntimeInv'
  OBVIOUS
<1> USE MaxRuntimesAssumption DEF RuntimeInv, Modes, Runtimes, Goto, Returns
<1>1. ASSUME NEW t \in Threads, GetMode(t) PROVE RuntimeInv'
  BY <1>1 DEF GetMode
<1>2. ASSUME NEW t \in Threads, BuildFails(t) PROVE RuntimeInv'
  BY <1>2 DEF BuildFails
<1>3. ASSUME NEW t \in Threads, LocalFound(t) PROVE RuntimeInv'
  BY <1>3 DEF LocalFound
<1>4. ASSUME NEW t \in Threads, LocalBuilt(t) PROVE RuntimeInv'
  BY <1>4, SMTT(30) DEF LocalBuilt
<1>5. ASSUME NEW t \in Threads, MultiFound(t) PROVE RuntimeInv'
  BY <1>5 DEF MultiFound
<1>6. ASSUME NEW t \in Threads, MultiMissing(t) PROVE RuntimeInv'
  BY <1>6 DEF MultiMissing
<1>7. ASSUME NEW t \in Threads, MultiBuilt(t) PROVE RuntimeInv'
  BY <1>7, SMTT(30) DEF MultiBuilt
<1>8. ASSUME NEW t \in Threads, MultiSet(t) PROVE RuntimeInv'
  BY <1>8, SMTT(30) DEF MultiSet
<1>9. ASSUME NEW t \in Threads, MultiGet(t) PROVE RuntimeInv'
  BY <1>9 DEF MultiGet
<1>10. CASE \E value \in Modes : PutEnv(value)
  BY <1>10 DEF PutEnv
<1>11. CASE UNCHANGED vars
  BY <1>11 DEF vars
<1> QED
  BY <1>1, <1>2, <1>3, <1>4, <1>5, <1>6, <1>7, <1>8, <1>9, <1>10, <1>11 DEF Next, Step

\* A thread that has got a runtime got the one its cell holds, which is alive
\* (get_runtime, for any number of threads).
THEOREM RuntimeHolds == Spec => []RuntimeInv
BY RuntimeInitial, RuntimeKeeps, PTL DEF Spec

\* For any number of threads: one runtime per thread, or one for all
\* (get_runtime).
THEOREM SameRuntime == Spec => []OneRuntime
<1>1. RuntimeInv => OneRuntime
  BY SMTT(30) DEF RuntimeInv, OneRuntime, Runtimes
<1> QED
  BY <1>1, RuntimeHolds, PTL

\* For any number of threads: what get_runtime returned is never dropped.
THEOREM RuntimeLives == Spec => []GotIsLive
<1>1. RuntimeInv => GotIsLive
  <2> SUFFICES ASSUME RuntimeInv, NEW t \in Threads, NEW r \in got[t] PROVE r \in live
    BY Zenon DEF GotIsLive
  <2>1. r # 0 /\ r = IF mode = "multi-thread" THEN multi ELSE local[t]
    BY SMTT(30) DEF RuntimeInv
  <2>2. CASE mode = "multi-thread"
    BY <2>1, <2>2, SMTT(30) DEF RuntimeInv
  <2>3. CASE mode # "multi-thread"
    BY <2>1, <2>3, SMTT(30) DEF RuntimeInv
  <2> QED
    BY <2>2, <2>3
<1> QED
  BY <1>1, RuntimeHolds, PTL

-----------------------------------------------------------------------------
(* A process is a run of get_runtime *)

\* Every step of a process is a step of its threads in get_runtime, or leaves
\* their runtimes alone: a process implements Runtime.
THEOREM ProcessImplements == ProcessSpec => Spec
<1>1. ProcessInit => Init
  BY DEF ProcessInit
<1>2. ASSUME [ProcessNext]_processVars PROVE [Next]_vars
  <2>1. ASSUME NEW t \in Threads, Request(t) PROVE Next
    BY <2>1, Zenon DEF Request, Next
  <2>2. CASE UNCHANGED processVars
    BY <2>2 DEF processVars
  <2> QED
    BY <1>2, <2>1, <2>2, Zenon DEF ProcessNext
<1> QED
  BY <1>1, <1>2, PTL DEF ProcessSpec, Spec

\* So its requests find their runtimes as get_runtime promises.
THEOREM ProcessRuntimes == ProcessSpec => [](OneRuntime /\ GotIsLive)
BY ProcessImplements, SameRuntime, RuntimeLives, PTL

-----------------------------------------------------------------------------
(* The patch of the class table *)

\* A function on 1 .. n is a sequence of its values.
LEMMA FunctionIsSeq ==
  ASSUME NEW s, NEW n \in Nat, s = [i \in 1 .. n |-> s[i]],
         NEW S, ToSet(s) \subseteq S
  PROVE  s \in Seq(S)
<1>1. \A i \in 1 .. n : s[i] \in S
  BY DEF ToSet
<1>2. s \in [1 .. n -> S]
  BY <1>1
<1> QED
  BY <1>2, SeqDef

\* The lists of methods make a sequence.
LEMMA ListedIsSeq == Len(Listed) \in Nat /\ DOMAIN Listed = 1 .. Len(Listed)
<1> DEFINE S == ToSet(CHANNEL_METHODS) \cup ToSet(CALL_METHODS) \cup ToSet(TIMEVAL_METHODS)
                  \cup ToSet(CHANNEL_CREDENTIALS_METHODS)
                  \cup ToSet(CALL_CREDENTIALS_METHODS)
<1>0. /\ ToSet(CHANNEL_METHODS) \subseteq S /\ ToSet(CALL_METHODS) \subseteq S
      /\ ToSet(TIMEVAL_METHODS) \subseteq S
      /\ ToSet(CHANNEL_CREDENTIALS_METHODS) \subseteq S
      /\ ToSet(CALL_CREDENTIALS_METHODS) \subseteq S
  OBVIOUS
<1> HIDE DEF S
<1>1. CHANNEL_METHODS \in Seq(S)
  <2>1. CHANNEL_METHODS = [i \in 1 .. 4 |-> CHANNEL_METHODS[i]]
    BY SMTT(30) DEF CHANNEL_METHODS, Of
  <2> QED
    BY <1>0, <2>1, FunctionIsSeq
<1>2. CALL_METHODS \in Seq(S)
  <2>1. CALL_METHODS = [i \in 1 .. 4 |-> CALL_METHODS[i]]
    BY SMTT(30) DEF CALL_METHODS, Of
  <2> QED
    BY <1>0, <2>1, FunctionIsSeq
<1>3. TIMEVAL_METHODS \in Seq(S)
  <2>1. TIMEVAL_METHODS = [i \in 1 .. 10 |-> TIMEVAL_METHODS[i]]
    BY SMTT(30) DEF TIMEVAL_METHODS, Of
  <2> QED
    BY <1>0, <2>1, FunctionIsSeq
<1>4. CHANNEL_CREDENTIALS_METHODS \in Seq(S)
  <2>1. CHANNEL_CREDENTIALS_METHODS = [i \in 1 .. 7 |-> CHANNEL_CREDENTIALS_METHODS[i]]
    BY SMTT(30) DEF CHANNEL_CREDENTIALS_METHODS, Of
  <2> QED
    BY <1>0, <2>1, FunctionIsSeq
<1>5. CALL_CREDENTIALS_METHODS \in Seq(S)
  <2>1. CALL_CREDENTIALS_METHODS = [i \in 1 .. 2 |-> CALL_CREDENTIALS_METHODS[i]]
    BY SMTT(30) DEF CALL_CREDENTIALS_METHODS, Of
  <2> QED
    BY <1>0, <2>1, FunctionIsSeq
<1>6. Listed \in Seq(S)
  BY <1>1, <1>2, <1>3, <1>4, <1>5 DEF Listed
<1> QED
  BY <1>6, LenProperties

\* The inductive invariant of the class table: no thread is past "out" before
\* the module is loaded; one thread at most runs the closure, and one does while
\* the Once is running; what the closure has been through has no return type;
\* and a request runs only after the closure has been through the lists.
BindingInv ==
  /\ phase \in [Threads -> {"out", "rinit", "closure", "request"}]
  /\ patched \in 0 .. Len(Listed)
  /\ once \in {"new", "running", "done"}
  /\ module # "loaded" => patched = 0 /\ \A t \in Threads : phase[t] = "out"
  /\ \A i \in 1 .. patched : Listed[i] \notin typed
  /\ \A t, u \in Threads : phase[t] = "closure" /\ phase[u] = "closure" => t = u
  /\ once = "running" <=> \E t \in Threads : phase[t] = "closure"
  /\ once = "done" => patched = Len(Listed)
  /\ (\E t \in Threads : phase[t] = "request") => once = "done"

\* Nothing is loaded and no thread is in a request.
LEMMA BindingInitial == ProcessInit => BindingInv
BY ListedIsSeq DEF ProcessInit, BindingInv

\* Startup, request startups and requests preserve it on any threads at once.
LEMMA BindingKeeps == BindingInv /\ [ProcessNext]_processVars => BindingInv'
<1> SUFFICES ASSUME BindingInv, [ProcessNext]_processVars PROVE BindingInv'
  OBVIOUS
<1>0. Len(Listed) \in Nat
  BY ListedIsSeq
<1> USE <1>0 DEF BindingInv, Enter
<1>1. CASE RegisterConstants
  BY <1>1 DEF RegisterConstants
<1>2. CASE RegistrationFails
  BY <1>2 DEF RegistrationFails
<1>3. CASE Load
  BY <1>3 DEF Load
<1>4. ASSUME NEW t \in Threads, RequestStartup(t) PROVE BindingInv'
  BY <1>4 DEF RequestStartup
<1>5. ASSUME NEW t \in Threads, CallOnce(t) PROVE BindingInv'
  BY <1>5 DEF CallOnce
<1>6. ASSUME NEW t \in Threads, Strip(t) PROVE BindingInv'
  <2>1. \A i \in 1 .. patched + 1 : Listed[i] \notin typed'
    BY <1>6 DEF Strip
  <2>2. once = "running" /\ module = "loaded"
    BY <1>6 DEF Strip
  <2> QED
    BY <1>6, <2>1, <2>2 DEF Strip
<1>7. ASSUME NEW t \in Threads, ClosureReturns(t) PROVE BindingInv'
  BY <1>7 DEF ClosureReturns
<1>8. ASSUME NEW t \in Threads, RequestEnds(t) PROVE BindingInv'
  BY <1>8 DEF RequestEnds
<1>9. ASSUME UNCHANGED bindingVars PROVE BindingInv'
  BY <1>9 DEF bindingVars
<1> QED
  BY <1>1, <1>2, <1>3, <1>4, <1>5, <1>6, <1>7, <1>8, <1>9, Zenon DEF ProcessNext,
     processVars, Startup, Rinit, Request

\* The invariant holds in every process, for any number of threads.
THEOREM BindingInvariant == ProcessSpec => []BindingInv
BY BindingInitial, BindingKeeps, PTL DEF ProcessSpec

\* For any number of threads: no request runs on one of them while the patch of
\* the class table is incomplete.
THEOREM PatchedBeforeRequests == ProcessSpec => []RequestsSeePatch
<1>1. BindingInv => RequestsSeePatch
  BY ListedIsSeq, Zenon DEF BindingInv, RequestsSeePatch, ToSet
<1> QED
  BY <1>1, BindingInvariant, PTL

\* A thread that INIT.call_once keeps waiting has one to wait for: the closure
\* runs on another thread.
WaitsForClosure ==
  \A t \in Threads : phase[t] = "rinit" /\ once = "running" =>
    \E u \in Threads \ {t} : phase[u] = "closure"

\* No request startup waits for a closure that nobody runs.
THEOREM NobodyWaitsForNothing == ProcessSpec => []WaitsForClosure
<1>1. BindingInv => WaitsForClosure
  BY Zenon DEF BindingInv, WaitsForClosure
<1> QED
  BY <1>1, BindingInvariant, PTL
=============================================================================

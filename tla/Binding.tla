------------------------------ MODULE Binding ------------------------------
(***************************************************************************)
(* A process of a thread-safe PHP from module startup (src/src/lib.rs)     *)
(* through the patch of the class table that the first request startup     *)
(* makes (src/src/compat.rs) to requests, in which the threads call        *)
(* get_runtime (Runtime).  PHP runs a request on a thread after the        *)
(* thread's RINIT handlers have returned; parking_lot's Once lets one      *)
(* thread run the closure and parks the others until it has.               *)
(*                                                                         *)
(* A method is <<class, name>>.                                            *)
(***************************************************************************)
EXTENDS Runtime, Sequences, SequencesExt

VARIABLES
  module,     \* "startup", "loaded" or "failed"
  registered, \* groups of constants registered so far
  typed,      \* methods whose HAS_RETURN_TYPE flag is set
  once,       \* INIT: "new", "running" or "done"
  patched,    \* methods the closure has been through
  phase       \* per thread: "out", "rinit", "closure", "request"

bindingVars == <<module, registered, typed, once, patched, phase>>
processVars == <<vars, bindingVars>>

Of(class, names) == [i \in DOMAIN names |-> <<class, names[i]>>]

CHANNEL_METHODS ==
  Of("Channel", <<"gettarget", "getconnectivitystate", "watchconnectivitystate", "close">>)
CALL_METHODS == Of("Call", <<"startbatch", "getpeer", "cancel", "setcredentials">>)
TIMEVAL_METHODS ==
  Of("Timeval", <<"getusec", "now", "inffuture", "infpast", "zero", "similar", "compare",
                  "add", "subtract", "sleepuntil">>)
CHANNEL_CREDENTIALS_METHODS ==
  Of("ChannelCredentials",
     <<"createssl", "createinsecure", "createcomposite", "createdefault",
       "setdefaultrootspem", "isdefaultrootspemset", "invalidatedefaultrootspem">>)
CALL_CREDENTIALS_METHODS == Of("CallCredentials", <<"createfromplugin", "createcomposite">>)

\* The methods the closure goes through, in order.
Listed ==
  CHANNEL_METHODS \o CALL_METHODS \o TIMEVAL_METHODS \o CHANNEL_CREDENTIALS_METHODS
    \o CALL_CREDENTIALS_METHODS

\* The methods ext-php-rs registers, every pub fn of the php_impl blocks: those
\* listed and one more.
Methods == ToSet(Listed) \cup {<<"Timeval", "toabsoluteusec">>}

\* Status codes, states, call errors, operations, write flags, version.
ConstantGroups == 6

ProcessInit ==
  /\ Init
  /\ module = "startup" /\ registered = 0
  /\ typed = {}
  /\ once = "new" /\ patched = 0
  /\ phase = [t \in Threads |-> "out"]

-----------------------------------------------------------------------------
(* MINIT *)

RegisterConstants ==
  /\ module = "startup" /\ registered < ConstantGroups
  /\ registered' = registered + 1
  /\ UNCHANGED <<module, typed, once, patched, phase>>

\* reg! returns -1 at the first constant that cannot be registered.
RegistrationFails ==
  /\ module = "startup" /\ registered < ConstantGroups
  /\ module' = "failed"
  /\ UNCHANGED <<registered, typed, once, patched, phase>>

\* get_module: the classes, with typed methods, and the RINIT handler.
Load ==
  /\ module = "startup" /\ registered = ConstantGroups
  /\ module' = "loaded"
  /\ typed' = Methods
  /\ UNCHANGED <<registered, once, patched, phase>>

-----------------------------------------------------------------------------
(* RINIT *)

Enter(t, where) == phase' = [phase EXCEPT ![t] = where]

\* PHP starts a request on a thread.
RequestStartup(t) ==
  /\ module = "loaded" /\ phase[t] = "out"
  /\ Enter(t, "rinit")
  /\ UNCHANGED <<module, registered, typed, once, patched>>

\* Mutant of CallOnce: a flag that is set before the work is done.
CallOnceFlag(t) ==
  /\ phase[t] = "rinit"
  /\ IF once = "new" THEN once' = "done" /\ Enter(t, "closure")
     ELSE Enter(t, "request") /\ UNCHANGED once
  /\ UNCHANGED <<module, registered, typed, patched>>

\* INIT.call_once: the first thread runs the closure, others wait for it.
CallOnce(t) ==
  /\ phase[t] = "rinit"
  /\ \/ once = "new" /\ once' = "running" /\ Enter(t, "closure")
     \/ once = "done" /\ Enter(t, "request") /\ UNCHANGED once
  /\ UNCHANGED <<module, registered, typed, patched>>

\* strip_method_return_type of the next method of the lists.
Strip(t) ==
  /\ phase[t] = "closure" /\ patched < Len(Listed)
  /\ typed' = typed \ {Listed[patched + 1]}
  /\ patched' = patched + 1
  /\ UNCHANGED <<module, registered, once, phase>>

\* Mutant of ClosureReturns: the Once is left as it is.
ClosureLeaves(t) ==
  /\ phase[t] = "closure" /\ patched = Len(Listed)
  /\ Enter(t, "request")
  /\ UNCHANGED <<module, registered, typed, once, patched>>

ClosureReturns(t) ==
  /\ phase[t] = "closure" /\ patched = Len(Listed)
  /\ once' = "done"
  /\ Enter(t, "request")
  /\ UNCHANGED <<module, registered, typed, patched>>

RequestEnds(t) ==
  /\ phase[t] = "request" /\ pc[t] = "php"
  /\ Enter(t, "out")
  /\ UNCHANGED <<module, registered, typed, once, patched>>

Startup == RegisterConstants \/ RegistrationFails \/ Load

Rinit(t) == CallOnce(t) \/ Strip(t) \/ ClosureReturns(t)

\* A script of the request: what it calls gets the thread's runtime.
Request(t) ==
  /\ phase[t] = "request"
  /\ Step(t) \/ \E value \in Modes : PutEnv(value)
  /\ UNCHANGED bindingVars

ProcessNext ==
  \/ Startup /\ UNCHANGED vars
  \/ \E t \in Threads :
       \/ (RequestStartup(t) \/ Rinit(t) \/ RequestEnds(t)) /\ UNCHANGED vars
       \/ Request(t)

\* The threads run; PHP owes no request.
ProcessSpec ==
  /\ ProcessInit /\ [][ProcessNext]_processVars
  /\ \A t \in Threads : WF_processVars(Rinit(t) /\ UNCHANGED vars)

-----------------------------------------------------------------------------
(* Properties *)

\* A request compiles classes that extend ours, so it must find no listed
\* method with a return type: on no thread does one run while the patch of
\* another thread's first request startup is under way.
RequestsSeePatch ==
  (\E t \in Threads : phase[t] = "request") => typed \cap ToSet(Listed) = {}

\* A request startup comes to an end on every thread, also on those that
\* arrive while another one patches.
RequestsStart == \A t \in Threads : phase[t] = "rinit" ~> phase[t] = "request"

\* "clears the ZEND_ACC_HAS_RETURN_TYPE flag ... on our methods during the
\* first RINIT": no method of ours has a return type in a request.  Does not
\* hold: Timeval::toAbsoluteUsec is not in TIMEVAL_METHODS.
NoReturnTypes == (\E t \in Threads : phase[t] = "request") => typed = {}
=============================================================================

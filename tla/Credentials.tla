---------------------------- MODULE Credentials ----------------------------
(***************************************************************************)
(* Channel and call credentials (src/src/credentials.rs) and the           *)
(* invocation of a call credentials plugin (invoke_call_plugin of          *)
(* src/src/call.rs) on one PHP thread.                                     *)
(*                                                                         *)
(* The plugin is a PHP callback.  It runs under the mutex of its           *)
(* credentials and may itself create credentials and make calls, so calls  *)
(* nest: the stack holds the calls being made, innermost last.             *)
(***************************************************************************)
EXTENDS Integers, Sequences, SequencesExt

CONSTANTS
  Pems,      \* root certificates
  Callables, \* PHP callables
  NoPem,     \* None
  MaxCreds,  \* bound: credentials of each kind
  MaxDepth   \* bound: nested calls

VARIABLES
  roots,   \* DEFAULT_ROOTS_PEM
  next_id, \* NEXT of next_credentials_id
  chans,   \* ChannelCredentials: id, root certificates, call credentials or 0
  calls,   \* CallCredentials: the plugin mutex of each
  plugins, \* the callable behind each plugin mutex
  held,    \* plugin mutexes that are locked
  stack    \* calls being made: their credentials and where they are

credVars == <<roots, next_id, chans, calls, plugins>>
vars == <<credVars, held, stack>>

Init ==
  /\ roots = NoPem /\ next_id = 1
  /\ chans = <<>> /\ calls = <<>> /\ plugins = <<>>
  /\ held = {} /\ stack = <<>>

\* The thread runs PHP code: the script, or a callback of the innermost call.
InPhp == stack # <<>> => Last(stack).at = "callback"

-----------------------------------------------------------------------------
(* ChannelCredentials *)

NewChannelCreds(pem, plugin) ==
  /\ InPhp /\ Len(chans) < MaxCreds
  /\ chans' = Append(chans, [id |-> next_id, roots |-> pem, plugin |-> plugin])
  /\ next_id' = next_id + 1
  /\ UNCHANGED <<roots, calls, plugins, held, stack>>

\* createSsl: its argument, else the default, else the built-in roots.
CreateSsl(pem) == NewChannelCreds(IF pem # NoPem THEN pem ELSE roots, 0)

CreateDefault == NewChannelCreds(roots, 0)

\* Mutant of CreateComposite: the id of the channel credentials is kept.
CreateCompositeSameId(c, k) ==
  /\ InPhp /\ Len(chans) < MaxCreds
  /\ chans' = Append(chans, [chans[c] EXCEPT !.plugin = k])
  /\ UNCHANGED <<roots, next_id, calls, plugins, held, stack>>

\* The TLS configuration is copied, the plugin is shared; a plugin the channel
\* credentials already had is dropped.
CreateComposite(c, k) == NewChannelCreds(chans[c].roots, k)

SetDefaultRootsPem(pem) ==
  /\ InPhp
  /\ roots' = pem
  /\ UNCHANGED <<next_id, chans, calls, plugins, held, stack>>

InvalidateDefaultRootsPem == SetDefaultRootsPem(NoPem)

-----------------------------------------------------------------------------
(* CallCredentials *)

\* A new mutex around the callable.
NewPlugin(callable) ==
  /\ InPhp /\ Len(calls) < MaxCreds
  /\ plugins' = Append(plugins, callable)
  /\ calls' = Append(calls, Len(plugins) + 1)
  /\ UNCHANGED <<roots, next_id, chans, held, stack>>

\* A value that is not callable throws.
CreateFromPlugin(callable) == NewPlugin(callable)

\* Mutant of CompositeCall: the mutex of the first credentials is shared.
CompositeCallShared(k1, k2) ==
  /\ InPhp /\ Len(calls) < MaxCreds
  /\ calls[k1] \notin held
  /\ calls' = Append(calls, calls[k1])
  /\ UNCHANGED <<roots, next_id, chans, plugins, held, stack>>

\* The first callable only, in a mutex of its own.  Reading it takes the lock:
\* in a callback of these very credentials the thread would hang here.
CompositeCall(k1, k2) ==
  /\ calls[k1] \notin held
  /\ NewPlugin(plugins[calls[k1]])

-----------------------------------------------------------------------------
(* A call with credentials *)

\* Its credentials are those of the channel, or those setCredentials gave it.
Using(k) == \E i \in DOMAIN stack : stack[i].creds = k

\* The discipline a callback has to keep: no call with the credentials it is
\* itself invoked for, or the thread hangs in plugin.lock().
StartCall(k) ==
  /\ InPhp /\ Len(stack) < MaxDepth
  /\ ~Using(k)
  /\ stack' = Append(stack, [creds |-> k, at |-> "lock"])
  /\ UNCHANGED <<credVars, held>>

At(where) == stack # <<>> /\ Last(stack).at = where

Innermost == calls[Last(stack).creds]

Goto(where) == stack' = [stack EXCEPT ![Len(stack)].at = where]

\* plugin.lock() and the call of the callable.
LockPlugin ==
  /\ At("lock") /\ Innermost \notin held
  /\ held' = held \cup {Innermost}
  /\ Goto("callback")
  /\ UNCHANGED credVars

\* The guard is dropped when invoke_call_plugin returns; only then block_on.
CallbackReturns ==
  /\ At("callback")
  /\ held' = held \ {Innermost}
  /\ Goto("block_on")
  /\ UNCHANGED credVars

\* Mutant of CallbackThrows: the lock is not released.
CallbackThrowsLocked ==
  /\ At("callback")
  /\ stack' = Front(stack)
  /\ UNCHANGED <<credVars, held>>

\* startBatch throws.
CallbackThrows ==
  /\ At("callback")
  /\ held' = held \ {Innermost}
  /\ stack' = Front(stack)
  /\ UNCHANGED credVars

BlockOnReturns ==
  /\ At("block_on")
  /\ stack' = Front(stack)
  /\ UNCHANGED <<credVars, held>>

Next ==
  \/ \E pem \in Pems \cup {NoPem} : CreateSsl(pem)
  \/ CreateDefault
  \/ \E c \in DOMAIN chans, k \in DOMAIN calls : CreateComposite(c, k)
  \/ \E pem \in Pems : SetDefaultRootsPem(pem)
  \/ InvalidateDefaultRootsPem
  \/ \E callable \in Callables : CreateFromPlugin(callable)
  \/ \E k1, k2 \in DOMAIN calls : CompositeCall(k1, k2)
  \/ \E k \in DOMAIN calls : StartCall(k)
  \/ LockPlugin
  \/ CallbackReturns
  \/ CallbackThrows
  \/ BlockOnReturns

Spec == Init /\ [][Next]_vars

-----------------------------------------------------------------------------
(* Properties *)

\* A callback may make calls, and callbacks of those too, with any credentials
\* objects that no enclosing call uses, and the thread never waits for a lock
\* it holds itself: composites have locks of their own, and a callback that
\* threw has left none behind.
NeverStuck == At("lock") => Innermost \notin held

\* "The callable is ONLY invoked on the PHP thread (before block_on)": however
\* calls nest, return and throw, the locked plugins are those whose callbacks
\* run, and no call that encloses another is in block_on, which must not nest.
LockedWhileRunning ==
  LET In(where) == {i \in DOMAIN stack : stack[i].at = where}
  IN /\ held = {calls[stack[i].creds] : i \in In("callback")}
     /\ In("block_on") \subseteq {Len(stack)}

\* "channels built from different credentials must never share a transport":
\* credentials objects differ in the id the persistence key is made of.
IdsTellApart ==
  \A c, d \in DOMAIN chans : chans[c].id = chans[d].id => c = d
=============================================================================

------------------------- MODULE CredentialsProofs -------------------------
(***************************************************************************)
(* Proofs about Credentials, for any callables, any number of credentials  *)
(* and any depth of nested calls.                                          *)
(***************************************************************************)
EXTENDS Credentials, SequenceTheorems, TLAPS

-----------------------------------------------------------------------------
(* What the steps do to the stack of calls *)

\* A call being made.
Made == [creds : Nat, at : {"lock", "callback", "block_on"}]

\* Goto moves the innermost call and leaves those that enclose it alone.
LEMMA GotoMoves ==
  ASSUME NEW where \in {"lock", "callback", "block_on"}, stack \in Seq(Made),
         stack # <<>>, Goto(where)
  PROVE  /\ stack' \in Seq(Made) /\ Len(stack') = Len(stack)
         /\ Len(stack) \in Nat \ {0} /\ Last(stack) = stack[Len(stack)]
         /\ \A i \in 1 .. Len(stack) : stack'[i].creds = stack[i].creds
         /\ \A i \in 1 .. Len(stack) - 1 : stack'[i].at = stack[i].at
         /\ stack'[Len(stack)].at = where
<1> DEFINE n == Len(stack)
           top == [stack[n] EXCEPT !.at = where]
<1>1. n \in Nat \ {0} /\ n \in 1 .. n /\ stack[n] \in Made
  BY EmptySeq, LenProperties, ElementOfSeq
<1>2. top \in Made /\ top.creds = stack[n].creds /\ top.at = where
  BY <1>1 DEF Made
<1>3. stack' = [stack EXCEPT ![n] = top]
  BY DEF Goto
<1> HIDE DEF top
<1>4. /\ stack' \in Seq(Made) /\ Len(stack') = n
      /\ \A i \in 1 .. n : stack'[i] = IF i = n THEN top ELSE stack[i]
  BY <1>1, <1>2, <1>3, ExceptSeq
<1> QED
  BY <1>1, <1>2, <1>4 DEF Last

\* What SubSeq keeps of a sequence.
LEMMA Prefix ==
  ASSUME NEW S, NEW s \in Seq(S), NEW n \in Nat, n <= Len(s)
  PROVE  /\ SubSeq(s, 1, n) \in Seq(S) /\ Len(SubSeq(s, 1, n)) = n
         /\ \A i \in 1 .. n : SubSeq(s, 1, n)[i] = s[i]
OBVIOUS

\* Front takes the innermost call away.
LEMMA FrontPops ==
  ASSUME stack \in Seq(Made), stack # <<>>, stack' = Front(stack)
  PROVE  /\ stack' \in Seq(Made) /\ Len(stack') = Len(stack) - 1
         /\ Len(stack) \in Nat \ {0} /\ Last(stack) = stack[Len(stack)]
         /\ \A i \in 1 .. Len(stack) - 1 : stack'[i] = stack[i]
<1>1. Len(stack) \in Nat \ {0}
  BY EmptySeq
<1>2. Len(stack) - 1 \in Nat /\ stack' = SubSeq(stack, 1, Len(stack) - 1)
  BY <1>1 DEF Front
<1> DEFINE n == Len(stack) - 1
<1>3. n \in Nat /\ n <= Len(stack) /\ stack' = SubSeq(stack, 1, n)
  BY <1>1, <1>2
<1> HIDE DEF n
<1>4. /\ stack' \in Seq(Made) /\ Len(stack') = n
      /\ \A i \in 1 .. n : stack'[i] = stack[i]
  BY <1>3, Prefix, ZenonT(30)
<1> QED
  BY <1>1, <1>4 DEF n, Last

-----------------------------------------------------------------------------
(* The inductive invariant *)

\* Credentials objects: a plugin mutex of its own for each, ids below next_id.
CredsOK ==
  /\ roots \in Pems \cup {NoPem} /\ next_id \in Nat
  /\ chans \in Seq([id : Nat, roots : Pems \cup {NoPem}, plugin : Nat])
  /\ calls \in Seq(Nat) /\ plugins \in Seq(Callables)
  /\ Len(plugins) = Len(calls)
  /\ \A k \in 1 .. Len(calls) : calls[k] = k
  /\ \A c \in 1 .. Len(chans) : chans[c].id < next_id
  /\ \A c, d \in 1 .. Len(chans) : chans[c].id = chans[d].id => c = d

\* Calls being made: no two use the same credentials, all but the innermost are
\* in their callbacks.
StackOK ==
  /\ stack \in Seq(Made)
  /\ \A i \in 1 .. Len(stack) : stack[i].creds \in 1 .. Len(calls)
  /\ \A i, j \in 1 .. Len(stack) : stack[i].creds = stack[j].creds => i = j
  /\ \A i \in 1 .. Len(stack) - 1 : stack[i].at = "callback"

\* A mutex is locked exactly while a callback of its credentials runs.
HeldOK ==
  /\ held \subseteq 1 .. Len(calls)
  /\ \A m \in 1 .. Len(calls) : m \in held <=>
       \E i \in 1 .. Len(stack) : stack[i].at = "callback" /\ stack[i].creds = m

CredentialsInv == CredsOK /\ StackOK /\ HeldOK

\* No credentials and no call.
LEMMA CredentialsInitial == Init => CredentialsInv
BY EmptySeq DEF Init, CredentialsInv, CredsOK, StackOK, HeldOK

\* New channel credentials take the next id.
LEMMA ChannelCredsKeep ==
  ASSUME CredentialsInv, NEW pem \in Pems \cup {NoPem}, NEW plugin \in Nat,
         NewChannelCreds(pem, plugin)
  PROVE  CredentialsInv'
<1> DEFINE new == [id |-> next_id, roots |-> pem, plugin |-> plugin]
           Creds == [id : Nat, roots : Pems \cup {NoPem}, plugin : Nat]
<1>1. new \in Creds /\ new.id = next_id
  BY DEF CredentialsInv, CredsOK
<1>2. chans \in Seq(Creds) /\ chans' = Append(chans, new) /\ next_id' = next_id + 1
  BY DEF CredentialsInv, CredsOK, NewChannelCreds
<1> HIDE DEF new, Creds
<1>3. /\ chans' \in Seq(Creds) /\ Len(chans') = Len(chans) + 1
      /\ Len(chans) \in Nat
      /\ chans'[Len(chans) + 1] = new
      /\ \A c \in 1 .. Len(chans) : chans'[c] = chans[c]
  BY <1>1, <1>2, AppendProperties, LenProperties
<1>4. \A c \in 1 .. Len(chans) : chans[c].id \in Nat
  <2>1. \A c \in 1 .. Len(chans) : chans[c] \in Creds
    BY <1>2, ElementOfSeq
  <2> QED
    BY <2>1 DEF Creds
<1>5. /\ \A c \in 1 .. Len(chans') : chans'[c].id < next_id'
      /\ \A c, d \in 1 .. Len(chans') : chans'[c].id = chans'[d].id => c = d
  <2>1. next_id \in Nat /\ \A c \in 1 .. Len(chans) : chans[c].id < next_id
        /\ \A d \in 1 .. Len(chans) : chans[c].id = chans[d].id => c = d
    BY DEF CredentialsInv, CredsOK
  <2>2. \A c \in 1 .. Len(chans') : c \in 1 .. Len(chans) \/ c = Len(chans) + 1
    BY <1>3
  <2> QED
    BY <1>1, <1>2, <1>3, <1>4, <2>1, <2>2
<1>6. CredsOK'
  BY <1>2, <1>3, <1>5 DEF CredentialsInv, CredsOK, NewChannelCreds, Creds
<1> QED
  BY <1>6 DEF CredentialsInv, StackOK, HeldOK, NewChannelCreds

\* New call credentials get a mutex of their own.
LEMMA PluginKeeps ==
  ASSUME CredentialsInv, NEW callable \in Callables, NewPlugin(callable)
  PROVE  CredentialsInv'
<1>1. /\ calls \in Seq(Nat) /\ calls' = Append(calls, Len(plugins) + 1)
      /\ plugins \in Seq(Callables) /\ plugins' = Append(plugins, callable)
      /\ Len(plugins) = Len(calls) /\ Len(calls) \in Nat
  BY LenProperties DEF CredentialsInv, CredsOK, NewPlugin
<1>2. /\ calls' \in Seq(Nat) /\ Len(calls') = Len(calls) + 1
      /\ calls'[Len(calls) + 1] = Len(calls) + 1
      /\ \A k \in 1 .. Len(calls) : calls'[k] = calls[k]
  BY <1>1, AppendProperties
<1>3. plugins' \in Seq(Callables) /\ Len(plugins') = Len(plugins) + 1
  BY <1>1, AppendProperties
<1>4. CredsOK'
  <2>1. \A k \in 1 .. Len(calls') : calls'[k] = k
    BY <1>1, <1>2 DEF CredentialsInv, CredsOK
  <2> QED
    BY <1>1, <1>2, <1>3, <2>1 DEF CredentialsInv, CredsOK, NewPlugin
<1>5. StackOK'
  BY <1>1, <1>2 DEF CredentialsInv, StackOK, NewPlugin
<1>6. HeldOK'
  BY <1>1, <1>2 DEF CredentialsInv, StackOK, HeldOK, NewPlugin
<1> QED
  BY <1>4, <1>5, <1>6 DEF CredentialsInv

\* A call starts with credentials that no enclosing call uses.
LEMMA StartCallKeeps ==
  ASSUME CredentialsInv, NEW k \in DOMAIN calls, StartCall(k)
  PROVE  CredentialsInv'
<1> DEFINE new == [creds |-> k, at |-> "lock"]
<1>1. /\ stack \in Seq(Made) /\ Len(stack) \in Nat /\ DOMAIN stack = 1 .. Len(stack)
      /\ k \in 1 .. Len(calls) /\ Len(calls) \in Nat
  BY LenProperties DEF CredentialsInv, StackOK, CredsOK
<1>2. new \in Made /\ new.creds = k /\ new.at = "lock" /\ stack' = Append(stack, new)
  BY <1>1 DEF Made, StartCall
<1> HIDE DEF new
<1>3. /\ stack' \in Seq(Made) /\ Len(stack') = Len(stack) + 1
      /\ stack'[Len(stack) + 1] = new
      /\ \A i \in 1 .. Len(stack) : stack'[i] = stack[i]
      /\ \A i \in 1 .. Len(stack') : i \in 1 .. Len(stack) \/ i = Len(stack) + 1
  BY <1>1, <1>2, AppendProperties
<1>4. UNCHANGED <<credVars, held>> /\ \A i \in 1 .. Len(stack) : stack[i].creds # k
  BY <1>1 DEF StartCall, Using
<1>5. \A i \in 1 .. Len(stack) : stack[i].at = "callback"
  <2>1. ASSUME NEW i \in 1 .. Len(stack), i = Len(stack) PROVE stack[i].at = "callback"
    <3>1. stack # <<>>
      BY <1>1
    <3> QED
      BY <2>1, <3>1 DEF StartCall, InPhp, Last
  <2>2. ASSUME NEW i \in 1 .. Len(stack), i # Len(stack) PROVE stack[i].at = "callback"
    <3>0. Len(stack) \in Nat
      BY <1>1
    <3>1. i \in 1 .. Len(stack) - 1
      BY <2>2, <3>0
    <3> QED
      BY <3>1, Zenon DEF CredentialsInv, StackOK
  <2> QED
    BY <2>1, <2>2
<1>6. CredsOK'
  BY <1>4 DEF CredentialsInv, CredsOK, credVars
<1>7. StackOK'
  BY <1>1, <1>2, <1>3, <1>4, <1>5 DEF CredentialsInv, StackOK, credVars
<1>8. HeldOK'
  <2>1. calls' = calls /\ held' = held /\ held \subseteq 1 .. Len(calls)
    BY <1>4 DEF CredentialsInv, HeldOK, credVars
  <2>2. stack'[Len(stack) + 1].at # "callback"
    BY <1>2, <1>3
  <2>3. 1 .. Len(stack) \subseteq 1 .. Len(stack')
    <3>1. Len(stack) \in Nat /\ Len(stack') = Len(stack) + 1
      BY <1>1, <1>3
    <3> QED
      BY <3>1
  <2>4. ASSUME NEW m
        PROVE  (\E i \in 1 .. Len(stack) : stack[i].at = "callback" /\ stack[i].creds = m)
                 <=> \E i \in 1 .. Len(stack') :
                       stack'[i].at = "callback" /\ stack'[i].creds = m
    BY <1>3, <2>2, <2>3, Zenon
  <2>5. \A m \in 1 .. Len(calls) : m \in held <=>
          \E i \in 1 .. Len(stack) : stack[i].at = "callback" /\ stack[i].creds = m
    BY DEF CredentialsInv, HeldOK
  <2> QED
    BY <2>1, <2>4, <2>5, Zenon DEF HeldOK
<1> QED
  BY <1>6, <1>7, <1>8 DEF CredentialsInv

\* The innermost call and its mutex.
LEMMA InnermostIs ==
  ASSUME CredentialsInv, stack # <<>>
  PROVE  /\ Len(stack) \in Nat \ {0} /\ stack \in Seq(Made)
         /\ Last(stack) = stack[Len(stack)]
         /\ Innermost = stack[Len(stack)].creds
         /\ Innermost \in 1 .. Len(calls)
         /\ Innermost \in held <=> stack[Len(stack)].at = "callback"
         /\ \A i \in 1 .. Len(stack) : stack[i].creds = Innermost <=> i = Len(stack)
<1>1. /\ Len(stack) \in Nat \ {0} /\ stack \in Seq(Made)
      /\ Last(stack) = stack[Len(stack)]
  BY EmptySeq DEF CredentialsInv, StackOK, Last
<1>2. stack[Len(stack)].creds \in 1 .. Len(calls)
  BY <1>1 DEF CredentialsInv, StackOK
<1>3. Innermost = stack[Len(stack)].creds
  BY <1>1, <1>2 DEF Innermost, CredentialsInv, CredsOK
<1>4. Len(stack) \in 1 .. Len(stack)
  BY <1>1
<1>5. \A i \in 1 .. Len(stack) : stack[i].creds = Innermost <=> i = Len(stack)
  BY <1>3, <1>4, Zenon DEF CredentialsInv, StackOK
<1>6. Innermost \in held <=> stack[Len(stack)].at = "callback"
  <2>1. Innermost \in held <=> \E i \in 1 .. Len(stack) :
          stack[i].at = "callback" /\ stack[i].creds = Innermost
    BY <1>2, <1>3 DEF CredentialsInv, HeldOK
  <2> QED
    BY <1>4, <1>5, <2>1, Zenon
<1> QED
  BY <1>1, <1>2, <1>3, <1>5, <1>6

\* plugin.lock() takes the mutex of the innermost call.
LEMMA LockKeeps ==
  ASSUME CredentialsInv, LockPlugin
  PROVE  CredentialsInv'
<1>1. stack # <<>> /\ Goto("callback") /\ UNCHANGED credVars
      /\ held' = held \cup {Innermost}
  BY DEF LockPlugin, At
<1>2. /\ stack' \in Seq(Made) /\ Len(stack') = Len(stack)
      /\ \A i \in 1 .. Len(stack) : stack'[i].creds = stack[i].creds
      /\ \A i \in 1 .. Len(stack) - 1 : stack'[i].at = stack[i].at
      /\ stack'[Len(stack)].at = "callback"
  BY <1>1, GotoMoves, InnermostIs
<1>3. CredsOK' /\ StackOK'
  BY <1>1, <1>2, InnermostIs DEF CredentialsInv, CredsOK, StackOK, credVars
<1>4. HeldOK'
  <2>1. calls' = calls /\ held' \subseteq 1 .. Len(calls)
    BY <1>1, InnermostIs DEF CredentialsInv, HeldOK, credVars
  <2>2. ASSUME NEW m \in 1 .. Len(calls), m = Innermost
        PROVE  \E i \in 1 .. Len(stack) : stack'[i].at = "callback" /\ stack'[i].creds = m
    BY <1>1, <1>2, <2>2, InnermostIs
  <2>3. ASSUME NEW m \in 1 .. Len(calls), m # Innermost
        PROVE  \A i \in 1 .. Len(stack) :
                 stack'[i].creds = m => i # Len(stack) /\ stack'[i].at = stack[i].at
    BY <1>1, <1>2, <2>3, InnermostIs
  <2>4. \A m \in 1 .. Len(calls) : m \in held <=>
          \E i \in 1 .. Len(stack) : stack[i].at = "callback" /\ stack[i].creds = m
    BY DEF CredentialsInv, HeldOK
  <2>5. \A m \in 1 .. Len(calls) : m \in held' <=>
          \E i \in 1 .. Len(stack) : stack'[i].at = "callback" /\ stack'[i].creds = m
    <3>1. \A m \in 1 .. Len(calls) : m # Innermost => (m \in held' <=> m \in held)
      BY <1>1
    <3>2. Innermost \in held'
      BY <1>1
    <3> QED
      BY <1>2, <2>2, <2>3, <2>4, <3>1, <3>2, ZenonT(30)
  <2> QED
    BY <1>2, <2>1, <2>5, Zenon DEF HeldOK
<1> QED
  BY <1>3, <1>4 DEF CredentialsInv

\* The callback returns, and the mutex of the innermost call is free again.
LEMMA ReturnKeeps ==
  ASSUME CredentialsInv, CallbackReturns
  PROVE  CredentialsInv'
<1>1. stack # <<>> /\ Goto("block_on") /\ UNCHANGED credVars
      /\ held' = held \ {Innermost}
  BY DEF CallbackReturns, At
<1>2. /\ stack' \in Seq(Made) /\ Len(stack') = Len(stack)
      /\ \A i \in 1 .. Len(stack) : stack'[i].creds = stack[i].creds
      /\ \A i \in 1 .. Len(stack) - 1 : stack'[i].at = stack[i].at
      /\ stack'[Len(stack)].at = "block_on"
  BY <1>1, GotoMoves, InnermostIs
<1>3. CredsOK' /\ StackOK'
  <2>1. CredsOK' /\ calls' = calls
    BY <1>1 DEF CredentialsInv, CredsOK, credVars
  <2>2. Len(stack) \in Nat \ {0}
    BY <1>1, InnermostIs
  <2>3. \A i \in 1 .. Len(stack') - 1 : stack'[i].at = "callback"
    BY <1>2, <2>2 DEF CredentialsInv, StackOK
  <2>4. \A i \in 1 .. Len(stack') : i \in 1 .. Len(stack) /\ stack'[i].creds = stack[i].creds
    BY <1>2, <2>2
  <2>5. /\ \A i \in 1 .. Len(stack') : stack'[i].creds \in 1 .. Len(calls)
        /\ \A i, j \in 1 .. Len(stack') : stack'[i].creds = stack'[j].creds => i = j
    BY <2>4, Zenon DEF CredentialsInv, StackOK
  <2> QED
    BY <1>2, <2>1, <2>3, <2>5, Zenon DEF StackOK
<1>4. HeldOK'
  <2>1. calls' = calls /\ held' \subseteq 1 .. Len(calls)
    BY <1>1 DEF CredentialsInv, HeldOK, credVars
  <2>2. ASSUME NEW i \in 1 .. Len(stack)
        PROVE  stack[i].creds = Innermost <=> i = Len(stack)
    BY <1>1, <2>2, InnermostIs, Zenon
  <2>3. ASSUME NEW i \in 1 .. Len(stack), i # Len(stack)
        PROVE  stack'[i].at = stack[i].at
    BY <1>1, <1>2, <2>3, InnermostIs
  <2>4. \A m \in 1 .. Len(calls) : m \in held <=>
          \E i \in 1 .. Len(stack) : stack[i].at = "callback" /\ stack[i].creds = m
    BY DEF CredentialsInv, HeldOK
  <2>5. \A m \in 1 .. Len(calls) : m \in held' <=>
          \E i \in 1 .. Len(stack) : stack'[i].at = "callback" /\ stack'[i].creds = m
    <3> SUFFICES ASSUME NEW m \in 1 .. Len(calls)
                 PROVE  m \in held' <=> \E i \in 1 .. Len(stack) :
                          stack'[i].at = "callback" /\ stack'[i].creds = m
      OBVIOUS
    <3>1. CASE m = Innermost
      BY <1>1, <1>2, <2>2, <3>1
    <3>2. CASE m # Innermost
      <4>1. m \in held' <=> m \in held
        BY <1>1, <3>2
      <4>2. \A i \in 1 .. Len(stack) :
              stack[i].creds = m => stack'[i].at = stack[i].at
        BY <2>2, <2>3, <3>2
      <4> QED
        BY <1>2, <2>4, <4>1, <4>2
    <3> QED
      BY <3>1, <3>2
  <2> QED
    BY <1>2, <2>1, <2>5, Zenon DEF HeldOK
<1> QED
  BY <1>3, <1>4 DEF CredentialsInv

\* The callback throws, or block_on returns: the innermost call is gone, and
\* its mutex with it if it was locked.
LEMMA PopKeeps ==
  ASSUME CredentialsInv, CallbackThrows \/ BlockOnReturns
  PROVE  CredentialsInv'
<1>1. /\ stack # <<>> /\ stack' = Front(stack) /\ UNCHANGED credVars
      /\ held' = held \ {Innermost}
  <2>1. CASE CallbackThrows
    BY <2>1 DEF CallbackThrows, At
  <2>2. CASE BlockOnReturns
    BY <2>2, InnermostIs DEF BlockOnReturns, At
  <2> QED
    BY <2>1, <2>2
<1>2. /\ stack' \in Seq(Made) /\ Len(stack') = Len(stack) - 1
      /\ \A i \in 1 .. Len(stack) - 1 : stack'[i] = stack[i]
  BY <1>1, FrontPops, InnermostIs
<1>3. CredsOK' /\ StackOK'
  <2>1. CredsOK' /\ calls' = calls
    BY <1>1 DEF CredentialsInv, CredsOK, credVars
  <2>2. Len(stack) \in Nat \ {0}
    BY <1>1, InnermostIs
  <2>3. \A i \in 1 .. Len(stack') - 1 : stack'[i].at = "callback"
    BY <1>2, <2>2 DEF CredentialsInv, StackOK
  <2>4. \A i \in 1 .. Len(stack') : i \in 1 .. Len(stack) /\ stack'[i].creds = stack[i].creds
    BY <1>2, <2>2
  <2>5. /\ \A i \in 1 .. Len(stack') : stack'[i].creds \in 1 .. Len(calls)
        /\ \A i, j \in 1 .. Len(stack') : stack'[i].creds = stack'[j].creds => i = j
    BY <2>4, Zenon DEF CredentialsInv, StackOK
  <2> QED
    BY <1>2, <2>1, <2>3, <2>5, Zenon DEF StackOK
<1>4. HeldOK'
  <2>1. calls' = calls /\ held' \subseteq 1 .. Len(calls)
    BY <1>1 DEF CredentialsInv, HeldOK, credVars
  <2>2. ASSUME NEW i \in 1 .. Len(stack)
        PROVE  stack[i].creds = Innermost <=> i = Len(stack)
    BY <1>1, <2>2, InnermostIs, Zenon
  <2>3. \A m \in 1 .. Len(calls) : m \in held <=>
          \E i \in 1 .. Len(stack) : stack[i].at = "callback" /\ stack[i].creds = m
    BY DEF CredentialsInv, HeldOK
  <2>4. Len(stack) \in Nat \ {0}
    BY <1>1, InnermostIs
  <2>5. \A m \in 1 .. Len(calls) : m \in held' <=>
          \E i \in 1 .. Len(stack') : stack'[i].at = "callback" /\ stack'[i].creds = m
    <3> SUFFICES ASSUME NEW m \in 1 .. Len(calls)
                 PROVE  m \in held' <=> \E i \in 1 .. Len(stack') :
                          stack'[i].at = "callback" /\ stack'[i].creds = m
      OBVIOUS
    <3>0. \A i : i \in 1 .. Len(stack') <=> i \in 1 .. Len(stack) /\ i # Len(stack)
      BY <1>2, <2>4
    <3>1. \A i \in 1 .. Len(stack') : stack'[i] = stack[i]
      BY <1>2
    <3>2. CASE m = Innermost
      BY <1>1, <2>2, <3>0, <3>1, <3>2, Zenon
    <3>3. CASE m # Innermost
      <4>1. m \in held' <=> m \in held
        BY <1>1, <3>3
      <4>2. \A i \in 1 .. Len(stack) : stack[i].creds = m => i \in 1 .. Len(stack')
        BY <2>2, <3>0, <3>3
      <4> QED
        BY <2>3, <3>0, <3>1, <4>1, <4>2
    <3> QED
      BY <3>2, <3>3
  <2> QED
    BY <2>1, <2>5, Zenon DEF HeldOK
<1> QED
  BY <1>3, <1>4 DEF CredentialsInv

-----------------------------------------------------------------------------
(* The theorems *)

\* Every step of the thread preserves the invariant, however calls nest.
LEMMA CredentialsKeep == CredentialsInv /\ [Next]_vars => CredentialsInv'
<1> SUFFICES ASSUME CredentialsInv, [Next]_vars PROVE CredentialsInv'
  OBVIOUS
<1>0. /\ roots \in Pems \cup {NoPem}
      /\ \A c \in DOMAIN chans : chans[c].roots \in Pems \cup {NoPem}
      /\ DOMAIN calls = 1 .. Len(calls) /\ Len(calls) \in Nat
  <2>1. chans \in Seq([id : Nat, roots : Pems \cup {NoPem}, plugin : Nat])
    BY DEF CredentialsInv, CredsOK
  <2>2. \A c \in DOMAIN chans : chans[c] \in [id : Nat, roots : Pems \cup {NoPem}, plugin : Nat]
    BY <2>1, ElementOfSeq, LenProperties
  <2> QED
    BY <2>2, LenProperties DEF CredentialsInv, CredsOK
<1>1. ASSUME NEW pem \in Pems \cup {NoPem}, CreateSsl(pem) PROVE CredentialsInv'
  BY <1>0, <1>1, ChannelCredsKeep DEF CreateSsl
<1>2. CASE CreateDefault
  BY <1>0, <1>2, ChannelCredsKeep DEF CreateDefault
<1>3. ASSUME NEW c \in DOMAIN chans, NEW k \in DOMAIN calls, CreateComposite(c, k)
      PROVE  CredentialsInv'
  BY <1>0, <1>3, ChannelCredsKeep DEF CreateComposite
<1>4. ASSUME NEW pem \in Pems \cup {NoPem}, SetDefaultRootsPem(pem) PROVE CredentialsInv'
  BY <1>4 DEF SetDefaultRootsPem, CredentialsInv, CredsOK, StackOK, HeldOK
<1>5. ASSUME NEW callable \in Callables, CreateFromPlugin(callable) PROVE CredentialsInv'
  BY <1>5, PluginKeeps DEF CreateFromPlugin
<1>6. ASSUME NEW k1 \in DOMAIN calls, NEW k2 \in DOMAIN calls, CompositeCall(k1, k2)
      PROVE  CredentialsInv'
  <2>1. plugins[calls[k1]] \in Callables
    BY <1>0, ElementOfSeq DEF CredentialsInv, CredsOK
  <2> QED
    BY <1>6, <2>1, PluginKeeps DEF CompositeCall
<1>7. ASSUME NEW k \in DOMAIN calls, StartCall(k) PROVE CredentialsInv'
  BY <1>7, StartCallKeeps
<1>8. CASE LockPlugin \/ CallbackReturns \/ CallbackThrows \/ BlockOnReturns
  BY <1>8, LockKeeps, ReturnKeeps, PopKeeps
<1>9. CASE UNCHANGED vars
  BY <1>9 DEF vars, credVars, CredentialsInv, CredsOK, StackOK, HeldOK
<1> QED
  BY <1>1, <1>2, <1>3, <1>4, <1>5, <1>6, <1>7, <1>8, <1>9, Zenon DEF Next,
     InvalidateDefaultRootsPem

\* The invariant holds in every reachable state of the thread.
THEOREM CredentialsInvariant == Spec => []CredentialsInv
BY CredentialsInitial, CredentialsKeep, PTL DEF Spec

\* invoke_call_plugin never waits for a mutex the thread itself holds, at any
\* depth of nested calls, if no callback calls with the credentials it serves.
THEOREM LockIsFree == Spec => []NeverStuck
<1>1. CredentialsInv => NeverStuck
  BY InnermostIs DEF NeverStuck, At
<1> QED
  BY <1>1, CredentialsInvariant, PTL

\* The locked mutexes are those of the callbacks that run, at any depth, and
\* block_on is never entered from a callback inside block_on.
THEOREM LocksAreCallbacks == Spec => []LockedWhileRunning
<1>1. CredentialsInv => LockedWhileRunning
  <2> SUFFICES ASSUME CredentialsInv PROVE LockedWhileRunning
    OBVIOUS
  <2>1. DOMAIN stack = 1 .. Len(stack) /\ Len(stack) \in Nat
    BY LenProperties DEF CredentialsInv, StackOK
  <2>2. \A i \in 1 .. Len(stack) : calls[stack[i].creds] = stack[i].creds
    BY DEF CredentialsInv, CredsOK, StackOK
  <2>3. \A i \in 1 .. Len(stack) : i # Len(stack) => stack[i].at = "callback"
    <3>1. Len(stack) \in Nat
      BY <2>1
    <3>2. \A i \in 1 .. Len(stack) : i # Len(stack) => i \in 1 .. Len(stack) - 1
      BY <3>1
    <3> QED
      BY <3>2, Zenon DEF CredentialsInv, StackOK
  <2>4. \A i \in 1 .. Len(stack) : stack[i].creds \in 1 .. Len(calls)
    BY DEF CredentialsInv, StackOK
  <2> DEFINE In(where) == {i \in DOMAIN stack : stack[i].at = where}
  <2>5. held = {calls[stack[i].creds] : i \in In("callback")}
    <3>1. ASSUME NEW m \in held PROVE \E i \in In("callback") : m = calls[stack[i].creds]
      <4>1. m \in 1 .. Len(calls)
        BY <3>1 DEF CredentialsInv, HeldOK
      <4>2. PICK i \in 1 .. Len(stack) : stack[i].at = "callback" /\ stack[i].creds = m
        BY <3>1, <4>1, Zenon DEF CredentialsInv, HeldOK
      <4> QED
        BY <2>1, <2>2, <4>2, Zenon
    <3>2. ASSUME NEW i \in In("callback") PROVE calls[stack[i].creds] \in held
      <4>1. i \in 1 .. Len(stack) /\ stack[i].at = "callback"
        BY <2>1, <3>2, ZenonT(30)
      <4> QED
        BY <2>2, <2>4, <4>1, Zenon DEF CredentialsInv, HeldOK
    <3> QED
      BY <3>1, <3>2, Zenon
  <2>6. In("block_on") \subseteq {Len(stack)}
    BY <2>1, <2>3
  <2> QED
    BY <2>5, <2>6, ZenonT(30) DEF LockedWhileRunning
<1> QED
  BY <1>1, CredentialsInvariant, PTL

\* No two channel credentials, however made, have the same id, so no two share
\* the part of the persistence key made of it.
THEOREM IdsAreUnique == Spec => []IdsTellApart
<1>1. CredentialsInv => IdsTellApart
  BY LenProperties DEF CredentialsInv, CredsOK, IdsTellApart
<1> QED
  BY <1>1, CredentialsInvariant, PTL
=============================================================================

--------------------------- MODULE MetadataProofs ---------------------------
(***************************************************************************)
(* What the loops over metadata compute, for arrays and header maps of any *)
(* length: the invariant of each loop, and the two properties that follow  *)
(* when the last of them ends.                                             *)
(***************************************************************************)
EXTENDS Metadata, SequenceTheorems, TLAPS

-----------------------------------------------------------------------------
(* A sequence selected from another *)

\* Nothing is selected from no position.
LEMMA SelectsNothing ==
  ASSUME NEW val
  PROVE  Selects(<<>>, {}, val)
<1> DEFINE at == [i \in {} |-> 0]
<1>1. at \in [DOMAIN <<>> -> {}]
  OBVIOUS
<1>2. QED
  BY <1>1 DEF Selects

\* A loop that pushes the value at a position after all the others.
LEMMA SelectsAppend ==
  ASSUME NEW S, NEW out \in Seq(S), NEW good \in SUBSET Int, NEW val,
         NEW p \in Int, \A q \in good : q < p, val[p] \in S,
         Selects(out, good, val)
  PROVE  Selects(Append(out, val[p]), good \cup {p}, val)
<1> DEFINE m == Len(out)
           new == Append(out, val[p])
<1>1. m \in Nat /\ DOMAIN out = 1 .. m
  BY LenProperties
<1>2. /\ DOMAIN new = 1 .. m + 1 /\ new[m + 1] = val[p]
      /\ \A i \in 1 .. m : new[i] = out[i]
  BY <1>1, AppendProperties
<1> HIDE DEF m, new
<1>3. PICK at \in [DOMAIN out -> good] :
        /\ \A i, j \in DOMAIN out : i < j => at[i] < at[j]
        /\ \A q \in good : \E i \in DOMAIN out : at[i] = q
        /\ \A i \in DOMAIN out : out[i] = val[at[i]]
  BY Zenon DEF Selects
<1> DEFINE to == [i \in 1 .. m + 1 |-> IF i = m + 1 THEN p ELSE at[i]]
<1>4. \A i \in 1 .. m + 1 : i \in 1 .. m \/ i = m + 1
  BY <1>1
<1>5. \A i \in 1 .. m : i \in 1 .. m + 1 /\ i # m + 1
  BY <1>1
<1>6. m + 1 \in 1 .. m + 1
  BY <1>1
<1>7. to[m + 1] = p /\ \A i \in 1 .. m : to[i] = at[i]
  BY <1>5, <1>6
<1>8. to \in [1 .. m + 1 -> good \cup {p}]
  BY <1>1, <1>3, <1>4
<1> HIDE DEF to
<1>9. ASSUME NEW i \in 1 .. m + 1, NEW j \in 1 .. m + 1, i < j
      PROVE  to[i] < to[j]
  <2>1. i \in 1 .. m
    BY <1>1, <1>9
  <2>2. CASE j = m + 1
    BY <1>1, <1>3, <1>7, <2>1, <2>2
  <2>3. CASE j \in 1 .. m
    BY <1>1, <1>3, <1>7, <1>9, <2>1, <2>3
  <2>4. QED
    BY <1>4, <2>2, <2>3
<1>10. \A q \in good \cup {p} : \E i \in 1 .. m + 1 : to[i] = q
  BY <1>1, <1>3, <1>5, <1>6, <1>7, Zenon
<1>11. \A i \in 1 .. m + 1 : new[i] = val[to[i]]
  <2>1. ASSUME NEW i \in 1 .. m
        PROVE  new[i] = val[to[i]]
    BY <1>1, <1>2, <1>3, <1>7
  <2>2. new[m + 1] = val[to[m + 1]]
    BY <1>2, <1>7
  <2>3. QED
    BY <1>4, <2>1, <2>2, Zenon
<1>12. Selects(new, good \cup {p}, val)
  <2>1. /\ to \in [DOMAIN new -> good \cup {p}]
        /\ \A i, j \in DOMAIN new : i < j => to[i] < to[j]
        /\ \A q \in good \cup {p} : \E i \in DOMAIN new : to[i] = q
        /\ \A i \in DOMAIN new : new[i] = val[to[i]]
    BY <1>2, <1>8, <1>9, <1>10, <1>11
  <2>2. QED
    BY <2>1, Zenon DEF Selects
<1>13. QED
  BY <1>12 DEF new

-----------------------------------------------------------------------------
(* Inserting pairs *)

\* The headers are those of the first m pairs, the last one of a name winning.
NameOf(pair) == HeaderName[pair[1]]
LastWins(headers, pairs, m) ==
  /\ \A name : name \in DOMAIN headers <=>
       \E i \in 1 .. m : Accepts(pairs[i]) /\ NameOf(pairs[i]) = name
  /\ \A i \in 1 .. m :
       /\ Accepts(pairs[i])
       /\ \A j \in 1 .. m : j > i /\ Accepts(pairs[j]) => NameOf(pairs[j]) # NameOf(pairs[i])
       => headers[NameOf(pairs[i])] = pairs[i][2]

\* A round of the loop over the pairs.
LEMMA InsertLast ==
  ASSUME NEW headers, NEW pairs, NEW m \in Nat, LastWins(headers, pairs, m)
  PROVE  /\ Accepts(pairs[m + 1]) => LastWins(Insert(headers, pairs[m + 1]), pairs, m + 1)
         /\ ~Accepts(pairs[m + 1]) => LastWins(headers, pairs, m + 1)
<1>1. \A i \in 1 .. m + 1 : i \in 1 .. m \/ i = m + 1
  OBVIOUS
<1>2. (\A i \in 1 .. m : i \in 1 .. m + 1 /\ i < m + 1) /\ m + 1 \in 1 .. m + 1
  OBVIOUS
<1>3. ASSUME ~Accepts(pairs[m + 1])
      PROVE  LastWins(headers, pairs, m + 1)
  BY <1>1, <1>2, <1>3, Zenon DEF LastWins
<1>4. ASSUME Accepts(pairs[m + 1])
      PROVE  LastWins(Insert(headers, pairs[m + 1]), pairs, m + 1)
  <2> DEFINE new == Insert(headers, pairs[m + 1])
             name == NameOf(pairs[m + 1])
  <2>1. /\ DOMAIN new = DOMAIN headers \cup {name}
        /\ new[name] = pairs[m + 1][2]
        /\ \A k \in DOMAIN headers : k # name => new[k] = headers[k]
    BY DEF Insert, NameOf
  <2> HIDE DEF new
  <2>2. \A k : k \in DOMAIN new <=>
          \E i \in 1 .. m + 1 : Accepts(pairs[i]) /\ NameOf(pairs[i]) = k
    BY <1>1, <1>2, <1>4, <2>1, Zenon DEF LastWins
  <2>3. ASSUME NEW i \in 1 .. m + 1, Accepts(pairs[i]),
               \A j \in 1 .. m + 1 :
                 j > i /\ Accepts(pairs[j]) => NameOf(pairs[j]) # NameOf(pairs[i])
        PROVE  new[NameOf(pairs[i])] = pairs[i][2]
    <3>1. CASE i = m + 1
      BY <2>1, <3>1
    <3>2. CASE i \in 1 .. m
      <4>1. m + 1 > i
        BY <3>2
      <4>2. NameOf(pairs[i]) # name
        BY <1>2, <1>4, <2>3, <4>1
      <4>3. NameOf(pairs[i]) \in DOMAIN headers
        BY <2>3, <3>2, Zenon DEF LastWins
      <4>4. headers[NameOf(pairs[i])] = pairs[i][2]
        BY <1>2, <2>3, <3>2, Zenon DEF LastWins
      <4>5. QED
        BY <2>1, <4>2, <4>3, <4>4
    <3>3. QED
      BY <1>1, <3>1, <3>2
  <2>4. LastWins(new, pairs, m + 1)
    BY <2>2, <2>3, Zenon DEF LastWins
  <2>5. QED
    BY <2>4 DEF new
<1>5. QED
  BY <1>3, <1>4

-----------------------------------------------------------------------------
(* The invariant of the loops *)

Visits == [key : STRING, shape : Shapes, item : STRING]
Pairs == STRING \X (STRING \cup {"replacement"})

\* The positions of an array whose item a loop has pushed, and the pairs.
Pushed(m) == {i \in 1 .. m : user[i].shape # "empty"}
ScriptPairs == [i \in DOMAIN user |-> <<user[i].key, from_utf8_lossy(user[i].item)>>]
Kept(m) == {i \in 1 .. m : Lenient(given[i])}
PluginPairs == [i \in DOMAIN given |-> <<given[i].key, given[i].item>>]

SendInv ==
  /\ n \in Nat
  /\ user \in Seq(Visits) /\ given \in Seq(Visits)
  /\ sent \in Seq(Pairs) /\ plugged \in Seq(Pairs)
  /\ pc = "script" => sent = <<>>
  /\ pc \in {"script", "parse"} => plugged = <<>>
  /\ pc \in {"script", "parse", "plugin"} => DOMAIN request = {}
  /\ pc = "parse" => n <= Len(user) /\ Selects(sent, Pushed(n), ScriptPairs)
  /\ pc \in {"plugin", "apply"} => Selects(sent, Pushed(Len(user)), ScriptPairs)
  /\ pc = "plugin" => n <= Len(given) /\ Selects(plugged, Kept(n), PluginPairs)
  /\ pc = "apply" => /\ Selects(plugged, Kept(Len(given)), PluginPairs)
                     /\ n <= Len(Applied) /\ LastWins(request, Applied, n)

\* The values of a key of the map that decode, and their bytes.
Good(key, m) == {i \in 1 .. m : Decodes(map[key][i])}
Decoded(key) == [i \in DOMAIN map[key] |-> Bytes(key, map[key][i])]
Values == {"decoded", "text"} \X STRING

HeaderMap(headers) == headers \in [DOMAIN headers -> Seq(STRING) \ {<<>>}]

RecvInv ==
  /\ pc = "collect" =>
       /\ HeaderMap(answer) /\ HeaderMap(map)
       /\ IF failed THEN map = status_metadata_for_php(StatusFrom(answer)) ELSE map = answer
       /\ seen \in [DOMAIN map -> Nat] /\ \A k \in DOMAIN map : seen[k] <= Len(map[k])
       /\ \A k : k \in DOMAIN entries <=> k \in DOMAIN map /\ Good(k, seen[k]) # {}
       /\ \A k \in DOMAIN entries :
            entries[k] \in Seq(Values) /\ Selects(entries[k], Good(k, seen[k]), Decoded(k))
  /\ PhpSeesAnswer

MetadataInv == SendInv /\ RecvInv

\* The script has not begun.
LEMMA MetadataInitial == Init => MetadataInv
<1>1. Init => SendInv
  BY EmptySeq DEF Init, SendInv, Empty
<1>2. Init => RecvInv
  BY DEF Init, RecvInv, PhpSeesAnswer
<1>3. QED
  BY <1>1, <1>2 DEF MetadataInv

-----------------------------------------------------------------------------
(* The loops that make a request *)

\* Another round adds its position, or nothing.
LEMMA OneMore ==
  ASSUME NEW m \in Nat
  PROVE  /\ (m + 1) \in 1 .. m + 1
         /\ \A i : i \in 1 .. m + 1 <=> i \in 1 .. m \/ i = m + 1
         /\ \A i \in 1 .. m : i < m + 1
         /\ 1 .. m \subseteq Int
OBVIOUS

\* parse_send_metadata pushes one pair, or none, or throws.
LEMMA ParseKeeps ==
  ASSUME SendInv, ParseEntry
  PROVE  SendInv'
<1> DEFINE e == user[n + 1]
<1>1. /\ n \in Nat /\ user \in Seq(Visits) /\ given \in Seq(Visits)
      /\ sent \in Seq(Pairs) /\ plugged = <<>> /\ plugged \in Seq(Pairs)
      /\ DOMAIN request = {} /\ pc = "parse"
      /\ Selects(sent, Pushed(n), ScriptPairs)
      /\ UNCHANGED <<user, given, plugged, request>>
  BY DEF SendInv, ParseEntry
<1>2. Len(user) \in Nat /\ n < Len(user) /\ n + 1 \in 1 .. Len(user)
      /\ DOMAIN user = 1 .. Len(user)
  BY <1>1, LenProperties DEF ParseEntry
<1>3. e \in Visits
  BY <1>1, <1>2, ElementOfSeq
<1>4. ScriptPairs[n + 1] = <<e.key, from_utf8_lossy(e.item)>>
  BY <1>2 DEF ScriptPairs
<1>5. <<e.key, from_utf8_lossy(e.item)>> \in Pairs
  BY <1>3 DEF Visits, Pairs, from_utf8_lossy
<1> HIDE DEF e
<1>6. CASE BadArgument(e)
  <2>1. pc' = "thrown" /\ sent' = <<>> /\ n' = n
    BY <1>6 DEF ParseEntry, e
  <2>2. QED
    BY <1>1, <2>1, EmptySeq DEF SendInv
<1>7. CASE ~BadArgument(e) /\ e.shape = "empty"
  <2>1. pc' = "parse" /\ sent' = sent /\ n' = n + 1
    BY <1>1, <1>7 DEF ParseEntry, e
  <2>2. Pushed(n + 1) = Pushed(n)
    BY <1>1, <1>7, OneMore, Zenon DEF Pushed, e
  <2>3. Selects(sent, Pushed(n), ScriptPairs)'
    BY <1>1, <2>1, <2>2 DEF Pushed, ScriptPairs
  <2>4. QED
    BY <1>1, <1>2, <2>1, <2>3 DEF SendInv
<1>8. CASE ~BadArgument(e) /\ e.shape # "empty"
  <2>1. pc' = "parse" /\ n' = n + 1 /\ sent' = Append(sent, ScriptPairs[n + 1])
    BY <1>1, <1>4, <1>8 DEF ParseEntry, e
  <2>2. Pushed(n + 1) = Pushed(n) \cup {n + 1}
    BY <1>1, <1>8, OneMore, Zenon DEF Pushed, e
  <2>3. Pushed(n) \in SUBSET Int /\ \A q \in Pushed(n) : q < n + 1
    BY <1>1, OneMore, Zenon DEF Pushed
  <2>4. Selects(Append(sent, ScriptPairs[n + 1]), Pushed(n + 1), ScriptPairs)
    <3>1. ScriptPairs[n + 1] \in Pairs /\ n + 1 \in Int
      BY <1>1, <1>4, <1>5
    <3>2. Selects(Append(sent, ScriptPairs[n + 1]), Pushed(n) \cup {n + 1}, ScriptPairs)
      BY <1>1, <2>3, <3>1, SelectsAppend, Zenon
    <3>3. QED
      BY <2>2, <3>2, Zenon
  <2>5. Selects(sent, Pushed(n), ScriptPairs)'
    BY <1>1, <2>1, <2>4 DEF Pushed, ScriptPairs
  <2>6. sent' \in Seq(Pairs)
    BY <1>1, <1>4, <1>5, <2>1, AppendProperties
  <2>7. QED
    BY <1>1, <1>2, <2>1, <2>5, <2>6 DEF SendInv
<1>9. QED
  BY <1>6, <1>7, <1>8

\* parse_metadata pushes one pair, or skips what it cannot use.
LEMMA PluginKeeps ==
  ASSUME SendInv, PluginEntry
  PROVE  SendInv'
<1> DEFINE e == given[n + 1]
<1>1. /\ n \in Nat /\ user \in Seq(Visits) /\ given \in Seq(Visits)
      /\ sent \in Seq(Pairs) /\ plugged \in Seq(Pairs)
      /\ DOMAIN request = {} /\ pc = "plugin"
      /\ Selects(sent, Pushed(Len(user)), ScriptPairs)
      /\ Selects(plugged, Kept(n), PluginPairs)
      /\ n' = n + 1
      /\ UNCHANGED <<pc, user, sent, given, request>>
  BY DEF SendInv, PluginEntry
<1>2. Len(given) \in Nat /\ n < Len(given) /\ n + 1 \in 1 .. Len(given)
      /\ DOMAIN given = 1 .. Len(given)
  BY <1>1, LenProperties DEF PluginEntry
<1>3. e \in Visits
  BY <1>1, <1>2, ElementOfSeq
<1>4. PluginPairs[n + 1] = <<e.key, e.item>>
  BY <1>2 DEF PluginPairs
<1>5. <<e.key, e.item>> \in Pairs
  BY <1>3 DEF Visits, Pairs
<1>6. Selects(sent, Pushed(Len(user)), ScriptPairs)'
  BY <1>1 DEF Pushed, ScriptPairs
<1> HIDE DEF e
<1>7. CASE ~Lenient(e)
  <2>1. plugged' = plugged
    BY <1>7 DEF PluginEntry, e
  <2>2. Kept(n + 1) = Kept(n)
    BY <1>1, <1>7, OneMore, Zenon DEF Kept, e
  <2>3. Selects(plugged, Kept(n), PluginPairs)'
    BY <1>1, <2>1, <2>2 DEF Kept, PluginPairs
  <2>4. QED
    BY <1>1, <1>2, <1>6, <2>1, <2>3 DEF SendInv
<1>8. CASE Lenient(e)
  <2>1. plugged' = Append(plugged, PluginPairs[n + 1])
    BY <1>4, <1>8 DEF PluginEntry, e
  <2>2. Kept(n + 1) = Kept(n) \cup {n + 1}
    BY <1>1, <1>8, OneMore, Zenon DEF Kept, e
  <2>3. Kept(n) \in SUBSET Int /\ \A q \in Kept(n) : q < n + 1
    BY <1>1, OneMore, Zenon DEF Kept
  <2>4. PluginPairs[n + 1] \in Pairs /\ n + 1 \in Int
    BY <1>1, <1>4, <1>5
  <2>5. Selects(Append(plugged, PluginPairs[n + 1]), Kept(n) \cup {n + 1}, PluginPairs)
    BY <1>1, <2>3, <2>4, SelectsAppend, Zenon
  <2>6. Selects(plugged, Kept(n), PluginPairs)'
    BY <1>1, <2>1, <2>2, <2>5 DEF Kept, PluginPairs
  <2>7. plugged' \in Seq(Pairs)
    BY <1>1, <2>1, <2>4, AppendProperties
  <2>8. QED
    BY <1>1, <1>2, <1>6, <2>6, <2>7 DEF SendInv
<1>9. QED
  BY <1>7, <1>8

\* The loops of build_request insert what tonic accepts.
LEMMA ApplyKeeps ==
  ASSUME SendInv, ApplyPair
  PROVE  SendInv'
<1>1. /\ n \in Nat /\ user \in Seq(Visits) /\ given \in Seq(Visits)
      /\ sent \in Seq(Pairs) /\ plugged \in Seq(Pairs) /\ pc = "apply"
      /\ n' = n + 1 /\ n < Len(Applied)
      /\ UNCHANGED <<pc, user, sent, given, plugged>>
  BY DEF SendInv, ApplyPair
<1>2. Applied \in Seq(Pairs) /\ Len(Applied) \in Nat /\ n' <= Len(Applied)
  <2>1. Applied \in Seq(Pairs)
    BY <1>1, ConcatProperties DEF Applied
  <2>2. Len(Applied) \in Nat
    BY <2>1, LenProperties
  <2>3. QED
    BY <1>1, <2>1, <2>2
<1>3. LastWins(request, Applied, n)
  BY <1>1 DEF SendInv
<1>4. LastWins(request', Applied, n + 1)
  <2>1. request' = IF Accepts(Applied[n + 1]) THEN Insert(request, Applied[n + 1]) ELSE request
    BY DEF ApplyPair
  <2>2. QED
    BY <1>1, <1>3, <2>1, InsertLast, Zenon
<1>5. Applied' = Applied
  BY <1>1 DEF Applied
<1>6. /\ Selects(sent, Pushed(Len(user)), ScriptPairs)'
      /\ Selects(plugged, Kept(Len(given)), PluginPairs)'
  <2>1. /\ Selects(sent, Pushed(Len(user)), ScriptPairs)
        /\ Selects(plugged, Kept(Len(given)), PluginPairs)
    BY <1>1 DEF SendInv
  <2>2. QED
    BY <1>1, <2>1 DEF Pushed, ScriptPairs, Kept, PluginPairs
<1>7. LastWins(request, Applied, n)'
  BY <1>1, <1>4, <1>5 DEF LastWins
<1>8. QED
  BY <1>1, <1>2, <1>5, <1>6, <1>7 DEF SendInv

\* Every step keeps the invariant of the loops that make a request.
LEMMA SendKeeps ==
  ASSUME SendInv, [Next]_vars
  PROVE  SendInv'
<1>1. ASSUME NEW ht \in UserArrays, ParseOps(ht) PROVE SendInv'
  <2>1. ht \in Seq(Visits)
    BY ArraysAssumption DEF Visits
  <2>2. /\ user' = ht /\ pc = "script" /\ pc' = "parse" /\ n' = 0
        /\ UNCHANGED <<sent, given, plugged, request>>
    BY <1>1 DEF ParseOps, Enter
  <2>3. Len(ht) \in Nat
    BY <2>1, LenProperties
  <2>4. Pushed(n)' = {}
    BY <2>2 DEF Pushed
  <2>5. Selects(sent, Pushed(n), ScriptPairs)'
    BY <2>2, <2>4, SelectsNothing DEF SendInv
  <2>6. QED
    BY <2>1, <2>2, <2>3, <2>5 DEF SendInv
<1>2. CASE ParseEntry
  BY <1>2, ParseKeeps
<1>3. ASSUME NEW ht \in PluginArrays, InvokePlugin(ht) PROVE SendInv'
  <2>1. ht \in Seq(Visits)
    BY ArraysAssumption DEF Visits
  <2>2. /\ given' = ht /\ pc = "parse" /\ n = Len(user) /\ pc' = "plugin" /\ n' = 0
        /\ UNCHANGED <<user, sent, plugged, request>>
    BY <1>3 DEF InvokePlugin, Enter
  <2>3. Len(ht) \in Nat
    BY <2>1, LenProperties
  <2>4. Kept(n)' = {}
    BY <2>2 DEF Kept
  <2>5. Selects(plugged, Kept(n), PluginPairs)'
    BY <2>2, <2>4, SelectsNothing DEF SendInv
  <2>6. Selects(sent, Pushed(Len(user)), ScriptPairs)'
    BY <2>2 DEF SendInv, Pushed, ScriptPairs
  <2>7. QED
    BY <2>1, <2>2, <2>3, <2>5, <2>6 DEF SendInv
<1>4. CASE PluginEntry
  BY <1>4, PluginKeeps
<1>5. CASE NewRequest
  <2>1. /\ pc = "plugin" /\ n = Len(given) /\ pc' = "apply" /\ n' = 0
        /\ UNCHANGED <<user, sent, given, plugged, request>>
    BY <1>5 DEF NewRequest, Enter, sendVars
  <2>2. Applied' = Applied /\ Len(Applied) \in Nat
    BY <2>1, ConcatProperties, LenProperties DEF SendInv, Applied
  <2>3. LastWins(request, Applied, n)'
    BY <2>1 DEF SendInv, LastWins
  <2>4. /\ Selects(sent, Pushed(Len(user)), ScriptPairs)'
        /\ Selects(plugged, Kept(Len(given)), PluginPairs)'
    BY <2>1 DEF SendInv, Pushed, ScriptPairs, Kept, PluginPairs
  <2>5. QED
    BY <2>1, <2>2, <2>3, <2>4 DEF SendInv
<1>6. CASE ApplyPair
  BY <1>6, ApplyKeeps
<1>7. CASE Dispatch
  BY <1>7, EmptySeq DEF Dispatch, Enter, SendInv
<1>8. ASSUME UNCHANGED sendVars, n' \in Nat,
             pc' \in {"collect", "over"}
      PROVE  SendInv'
  BY <1>8 DEF SendInv, sendVars
<1>9. ASSUME NEW headers, MapArrives(headers) \/ StatusArrives(headers)
      PROVE  SendInv'
  BY <1>8, <1>9 DEF MapArrives, StatusArrives, Deliver, Enter
<1>10. ASSUME NEW key, CollectNext(key) PROVE SendInv'
  BY <1>8, <1>10 DEF CollectNext, SendInv
<1>11. CASE metadata_to_php
  BY <1>8, <1>11 DEF metadata_to_php, Enter
<1>12. CASE UNCHANGED vars
  BY <1>12 DEF vars, sendVars, SendInv, Pushed, ScriptPairs, Kept, PluginPairs, Applied,
     LastWins
<1>13. QED
  BY <1>1, <1>2, <1>3, <1>4, <1>5, <1>6, <1>7, <1>9, <1>10, <1>11, <1>12, Zenon DEF Next

\* The k-th pair that is applied is a header of that name.
Carries(k, name) == Accepts(Applied[k]) /\ NameOf(Applied[k]) = name

\* What can be sent of a pair of the script, and of a pair of the plugin.
LEMMA ScriptPairCarries ==
  ASSUME NEW k, NEW p \in DOMAIN user, NEW name, user[p].shape # "empty",
         Applied[k] = <<user[p].key, from_utf8_lossy(user[p].item)>>
  PROVE  Carries(k, name) <=> ScriptGives(p, name)
BY DEF Carries, ScriptGives, Names, Accepts, NameOf, Parses, from_utf8_lossy

LEMMA PluginPairCarries ==
  ASSUME NEW k, NEW p \in DOMAIN given, NEW name, Lenient(given[p]),
         Applied[k] = <<given[p].key, given[p].item>>
  PROVE  Carries(k, name) <=> PluginGives(p, name)
BY DEF Carries, PluginGives, Names, Accepts, NameOf, Parses, Lenient, Utf8

\* When the last loop ends, the invariant of the loops says what was sent.
LEMMA RequestComplete ==
  ASSUME SendInv
  PROVE  RequestIsLastGiven
<1> SUFFICES ASSUME Built PROVE RequestIsLastGiven
  BY DEF RequestIsLastGiven
<1> DEFINE a == Len(sent)
           b == Len(plugged)
<1>1. /\ user \in Seq(Visits) /\ given \in Seq(Visits)
      /\ sent \in Seq(Pairs) /\ plugged \in Seq(Pairs)
      /\ Selects(sent, Pushed(Len(user)), ScriptPairs)
      /\ Selects(plugged, Kept(Len(given)), PluginPairs)
      /\ LastWins(request, Applied, Len(Applied))
  BY DEF SendInv, Built
<1>2. /\ a \in Nat /\ b \in Nat /\ DOMAIN sent = 1 .. a /\ DOMAIN plugged = 1 .. b
      /\ DOMAIN user = 1 .. Len(user) /\ DOMAIN given = 1 .. Len(given)
      /\ Len(user) \in Nat /\ Len(given) \in Nat
  BY <1>1, LenProperties
<1>3. /\ Len(Applied) = a + b
      /\ \A i \in 1 .. a : Applied[i] = sent[i]
      /\ \A j \in 1 .. b : Applied[a + j] = plugged[j]
  <2>1. /\ Len(Applied) = a + b
        /\ \A i \in 1 .. a + b : Applied[i] = IF i <= a THEN sent[i] ELSE plugged[i - a]
    BY <1>1, ConcatProperties DEF Applied
  <2>2. \A i \in 1 .. a : i \in 1 .. a + b /\ i <= a
    BY <1>2
  <2>3. \A j \in 1 .. b : a + j \in 1 .. a + b /\ ~(a + j <= a) /\ (a + j) - a = j
    BY <1>2
  <2>4. QED
    BY <2>1, <2>2, <2>3
<1>4. PICK sAt \in [DOMAIN sent -> Pushed(Len(user))] :
        /\ \A i, j \in DOMAIN sent : i < j => sAt[i] < sAt[j]
        /\ \A q \in Pushed(Len(user)) : \E i \in DOMAIN sent : sAt[i] = q
        /\ \A i \in DOMAIN sent : sent[i] = ScriptPairs[sAt[i]]
  BY <1>1, Zenon DEF Selects
<1>5. PICK pAt \in [DOMAIN plugged -> Kept(Len(given))] :
        /\ \A i, j \in DOMAIN plugged : i < j => pAt[i] < pAt[j]
        /\ \A q \in Kept(Len(given)) : \E i \in DOMAIN plugged : pAt[i] = q
        /\ \A i \in DOMAIN plugged : plugged[i] = PluginPairs[pAt[i]]
  BY <1>1, Zenon DEF Selects
<1> HIDE DEF a, b
<1>6. ASSUME NEW i \in 1 .. a, NEW name
      PROVE  sAt[i] \in DOMAIN user /\ (Carries(i, name) <=> ScriptGives(sAt[i], name))
  <2>1. sAt[i] \in DOMAIN user /\ user[sAt[i]].shape # "empty"
    BY <1>2, <1>4 DEF Pushed
  <2>2. Applied[i] = <<user[sAt[i]].key, from_utf8_lossy(user[sAt[i]].item)>>
    BY <1>2, <1>3, <1>4, <2>1 DEF ScriptPairs
  <2>3. QED
    BY <2>1, <2>2, ScriptPairCarries, Zenon
<1>7. ASSUME NEW j \in 1 .. b, NEW name
      PROVE  pAt[j] \in DOMAIN given /\ (Carries(a + j, name) <=> PluginGives(pAt[j], name))
  <2>1. pAt[j] \in DOMAIN given /\ Lenient(given[pAt[j]])
    BY <1>2, <1>5 DEF Kept
  <2>2. Applied[a + j] = <<given[pAt[j]].key, given[pAt[j]].item>>
    BY <1>2, <1>3, <1>5, <2>1 DEF PluginPairs
  <2>3. QED
    BY <2>1, <2>2, PluginPairCarries, Zenon
<1>8. ASSUME NEW p, NEW name, ScriptGives(p, name)
      PROVE  \E i \in 1 .. a : sAt[i] = p
  <2>1. p \in Pushed(Len(user))
    BY <1>2, <1>8 DEF ScriptGives, Names, Pushed
  <2>2. QED
    BY <1>2, <1>4, <2>1
<1>9. ASSUME NEW p, NEW name, PluginGives(p, name)
      PROVE  \E j \in 1 .. b : pAt[j] = p
  <2>1. p \in Kept(Len(given))
    BY <1>2, <1>9 DEF PluginGives, Names, Kept, Lenient, Utf8, array_key_to_string, HeaderName
  <2>2. QED
    BY <1>2, <1>5, <2>1
<1>10. ASSUME NEW k \in 1 .. a + b
       PROVE  k \in 1 .. a \/ \E j \in 1 .. b : k = a + j
  <2>1. CASE k > a
    <3>1. k - a \in 1 .. b /\ k = a + (k - a)
      BY <1>2, <2>1
    <3>2. QED
      BY <3>1
  <2>2. QED
    BY <1>2, <2>1
<1>11. (\A i \in 1 .. a : i \in 1 .. a + b) /\ \A j \in 1 .. b : a + j \in 1 .. a + b
  BY <1>2
<1>12. \A name : name \in DOMAIN request <=> \E k \in 1 .. a + b : Carries(k, name)
  BY <1>1, <1>3 DEF LastWins, Carries
<1>13. ASSUME NEW k \in 1 .. a + b, NEW name, Carries(k, name),
              \A l \in 1 .. a + b : l > k => ~Carries(l, name)
       PROVE  request[name] = Applied[k][2]
  <2>1. Accepts(Applied[k]) /\ NameOf(Applied[k]) = name
    BY <1>13 DEF Carries
  <2>2. \A l \in 1 .. Len(Applied) :
          l > k /\ Accepts(Applied[l]) => NameOf(Applied[l]) # NameOf(Applied[k])
    BY <1>3, <1>13, <2>1 DEF Carries
  <2>3. QED
    BY <1>1, <1>3, <2>1, <2>2 DEF LastWins
<1>14. \A k, name : Carries(k, name) => name \in Range(HeaderName)
  BY DEF Carries, Accepts, NameOf, Range
<1>15. ASSUME NEW name
       PROVE  name \in DOMAIN request <=>
                \/ \E i \in DOMAIN user : ScriptGives(i, name)
                \/ \E i \in DOMAIN given : PluginGives(i, name)
  <2>1. ASSUME name \in DOMAIN request
        PROVE  \/ \E i \in DOMAIN user : ScriptGives(i, name)
               \/ \E i \in DOMAIN given : PluginGives(i, name)
    <3>1. PICK k \in 1 .. a + b : Carries(k, name)
      BY <1>12, <2>1
    <3>2. CASE k \in 1 .. a
      BY <1>6, <3>1, <3>2
    <3>3. CASE \E j \in 1 .. b : k = a + j
      BY <1>7, <3>1, <3>3
    <3>4. QED
      BY <1>10, <3>2, <3>3
  <2>2. ASSUME NEW i \in DOMAIN user, ScriptGives(i, name) PROVE name \in DOMAIN request
    <3>1. PICK k \in 1 .. a : sAt[k] = i
      BY <1>8, <2>2
    <3>2. k \in 1 .. a + b /\ Carries(k, name)
      BY <1>6, <1>11, <2>2, <3>1
    <3>3. QED
      BY <1>12, <3>2
  <2>3. ASSUME NEW i \in DOMAIN given, PluginGives(i, name) PROVE name \in DOMAIN request
    <3>1. PICK j \in 1 .. b : pAt[j] = i
      BY <1>9, <2>3
    <3>2. a + j \in 1 .. a + b /\ Carries(a + j, name)
      BY <1>7, <1>11, <2>3, <3>1
    <3>3. QED
      BY <1>12, <3>2
  <2>4. QED
    BY <2>1, <2>2, <2>3, Zenon
<1>16. ASSUME NEW i \in DOMAIN given, NEW name, PluginGives(i, name),
              \A j \in DOMAIN given : j > i => ~PluginGives(j, name)
       PROVE  request[name] = given[i].item
  <2>1. PICK j \in 1 .. b : pAt[j] = i
    BY <1>9, <1>16
  <2>2. a + j \in 1 .. a + b /\ Carries(a + j, name)
    BY <1>7, <1>11, <1>16, <2>1
  <2>3. ASSUME NEW l \in 1 .. a + b, l > a + j PROVE ~Carries(l, name)
    <3>1. PICK m \in 1 .. b : l = a + m
      <4>1. ~(l \in 1 .. a)
        BY <1>2, <2>3
      <4>2. QED
        BY <1>10, <4>1, Zenon
    <3>2. pAt[j] < pAt[m]
      <4>1. j < m
        BY <1>2, <2>3, <3>1
      <4>2. QED
        BY <1>2, <1>5, <4>1, Zenon
    <3>3. pAt[m] \in DOMAIN given /\ pAt[m] > i
      BY <1>2, <1>7, <2>1, <3>2
    <3>4. QED
      BY <1>7, <1>16, <3>1, <3>3
  <2>4. request[name] = Applied[a + j][2]
    BY <1>13, <2>2, <2>3
  <2>5. Applied[a + j] = <<given[i].key, given[i].item>>
    BY <1>2, <1>3, <1>5, <2>1 DEF PluginPairs
  <2>6. QED
    BY <2>4, <2>5
<1>17. ASSUME NEW i \in DOMAIN user, NEW name, ScriptGives(i, name),
              \A j \in DOMAIN user : j > i => ~ScriptGives(j, name),
              \A j \in DOMAIN given : ~PluginGives(j, name)
       PROVE  request[name] = from_utf8_lossy(user[i].item)
  <2>1. PICK j \in 1 .. a : sAt[j] = i
    BY <1>8, <1>17
  <2>2. j \in 1 .. a + b /\ Carries(j, name)
    BY <1>6, <1>11, <1>17, <2>1
  <2>3. ASSUME NEW l \in 1 .. a + b, l > j PROVE ~Carries(l, name)
    <3>1. CASE l \in 1 .. a
      <4>1. sAt[j] < sAt[l]
        BY <1>2, <1>4, <2>3, <3>1
      <4>2. sAt[l] \in DOMAIN user /\ sAt[l] > i
        BY <1>2, <1>6, <2>1, <3>1, <4>1
      <4>3. QED
        BY <1>6, <1>17, <3>1, <4>2
    <3>2. CASE \E m \in 1 .. b : l = a + m
      BY <1>7, <1>17, <3>2
    <3>3. QED
      BY <1>10, <3>1, <3>2
  <2>4. request[name] = Applied[j][2]
    BY <1>13, <2>2, <2>3
  <2>5. Applied[j] = <<user[i].key, from_utf8_lossy(user[i].item)>>
    BY <1>2, <1>3, <1>4, <2>1 DEF ScriptPairs
  <2>6. QED
    BY <2>4, <2>5
<1>18. DOMAIN request =
         {name \in Range(HeaderName) : \/ \E i \in DOMAIN user : ScriptGives(i, name)
                                      \/ \E i \in DOMAIN given : PluginGives(i, name)}
  BY <1>12, <1>14, <1>15, Zenon
<1>19. QED
  BY <1>16, <1>17, <1>18, Zenon DEF RequestIsLastGiven

-----------------------------------------------------------------------------
(* The loop over what the server sent *)

\* Only the values at the positions selected matter.
LEMMA SelectsSame ==
  ASSUME NEW out, NEW good, NEW val, NEW other, Selects(out, good, val),
         \A p \in good : val[p] = other[p]
  PROVE  Selects(out, good, other)
<1>1. PICK at \in [DOMAIN out -> good] :
        /\ \A i, j \in DOMAIN out : i < j => at[i] < at[j]
        /\ \A p \in good : \E i \in DOMAIN out : at[i] = p
        /\ \A i \in DOMAIN out : out[i] = val[at[i]]
  BY Zenon DEF Selects
<1>2. \A i \in DOMAIN out : out[i] = other[at[i]]
  BY <1>1
<1>3. QED
  BY <1>1, <1>2, Zenon DEF Selects

\* A Status is made of a header map, and a header map of it.
LEMMA StatusMap ==
  ASSUME NEW headers, HeaderMap(headers)
  PROVE  LET shown == status_metadata_for_php(StatusFrom(headers)) IN
         /\ HeaderMap(shown)
         /\ \A k : k \notin {"grpc-status", "grpc-message", Details} =>
              /\ k \in DOMAIN shown <=> k \in DOMAIN headers
              /\ k \in DOMAIN headers => shown[k] = headers[k]
         /\ Details \in DOMAIN shown <=> Details \in DOMAIN headers /\ headers[Details][1] # "none"
         /\ Details \in DOMAIN shown => shown[Details] = <<headers[Details][1]>>
<1> DEFINE rest == DOMAIN headers \ {"grpc-status", "grpc-message", Details}
           left == [k \in rest |-> headers[k]]
           d == IF Details \in DOMAIN headers THEN headers[Details][1] ELSE "none"
           shown == status_metadata_for_php(StatusFrom(headers))
<1>1. shown = IF d = "none" THEN left
              ELSE [k \in rest \cup {Details} |-> IF k = Details THEN <<d>> ELSE left[k]]
  BY DEF status_metadata_for_php, StatusFrom, Restrict
<1>2. ASSUME d # "none" PROVE d \in STRING
  <2>1. Details \in DOMAIN headers
    BY <1>2, Zenon
  <2>2. headers[Details] \in Seq(STRING) /\ headers[Details] # <<>>
    BY <2>1 DEF HeaderMap
  <2>3. headers[Details][1] \in STRING
    BY <2>2, EmptySeq, LenProperties, ElementOfSeq
  <2>4. QED
    BY <2>1, <2>3, Zenon
<1>3. left \in [rest -> Seq(STRING) \ {<<>>}]
  BY DEF HeaderMap
<1>4. d # "none" => <<d>> \in Seq(STRING) \ {<<>>}
  BY <1>2
<1>5. Details \notin rest
  OBVIOUS
<1> HIDE DEF shown, d
<1>6. HeaderMap(shown)
  BY <1>1, <1>3, <1>4, <1>5 DEF HeaderMap
<1>7. DOMAIN shown = IF d = "none" THEN rest ELSE rest \cup {Details}
  BY <1>1
<1>8. \A k \in rest : shown[k] = headers[k]
  BY <1>1, <1>5
<1>9. d # "none" => shown[Details] = <<d>>
  BY <1>1
<1>10. d # "none" => Details \in DOMAIN headers /\ d = headers[Details][1]
  BY DEF d
<1>11. Details \in DOMAIN headers => d = headers[Details][1]
  BY DEF d
<1>12. Details \in DOMAIN shown <=> d # "none"
  BY <1>5, <1>7
<1>13. \A k : k \notin {"grpc-status", "grpc-message", Details} =>
         /\ k \in DOMAIN shown <=> k \in DOMAIN headers
         /\ k \in DOMAIN headers => shown[k] = headers[k]
  BY <1>7, <1>8
<1>14. QED
  BY <1>6, <1>9, <1>10, <1>11, <1>12, <1>13 DEF shown

\* collect_metadata starts.
LEMMA DeliverKeeps ==
  ASSUME NEW headers \in HeaderMaps, MapArrives(headers) \/ StatusArrives(headers)
  PROVE  RecvInv'
<1>1. HeaderMap(headers)
  BY HeaderMapsAssumption DEF HeaderMap
<1>2. PICK shown : /\ Deliver(headers, failed', shown) /\ HeaderMap(shown)
                   /\ IF failed' THEN shown = status_metadata_for_php(StatusFrom(headers))
                      ELSE shown = headers
  BY <1>1, StatusMap DEF MapArrives, StatusArrives, Deliver
<1>3. /\ pc' = "collect" /\ answer' = headers /\ map' = shown
      /\ seen' = [k \in DOMAIN shown |-> 0] /\ DOMAIN entries' = {}
  BY <1>2 DEF Deliver, Enter, Empty
<1>4. \A k \in DOMAIN shown : Len(shown[k]) \in Nat
  BY <1>2, LenProperties DEF HeaderMap
<1>5. seen' \in [DOMAIN map' -> Nat] /\ \A k \in DOMAIN map' : seen'[k] <= Len(map'[k])
  BY <1>3, <1>4
<1>6. \A k : k \in DOMAIN map' => Good(k, seen[k])' = {}
  BY <1>3 DEF Good
<1>7. IF failed' THEN map' = status_metadata_for_php(StatusFrom(answer')) ELSE map' = answer'
  BY <1>2, <1>3
<1>8. PhpSeesAnswer'
  <2>1. pc' # "over"
    BY <1>3
  <2>2. QED
    BY <2>1, Zenon DEF PhpSeesAnswer
<1>9. QED
  BY <1>1, <1>2, <1>3, <1>5, <1>6, <1>7, <1>8 DEF RecvInv, status_metadata_for_php, StatusFrom

\* A round of collect_metadata appends to the slot of its key, or skips a value.
LEMMA CollectKeeps ==
  ASSUME RecvInv, NEW key \in DOMAIN map, CollectNext(key)
  PROVE  RecvInv'
<1> DEFINE m == seen[key]
           v == map[key][m + 1]
           old == IF key \in DOMAIN entries THEN entries[key] ELSE <<>>
<1>1. /\ pc = "collect" /\ m < Len(map[key]) /\ seen' = [seen EXCEPT ![key] = m + 1]
      /\ entries' = IF Decodes(v) THEN Collect(entries, key, v) ELSE entries
      /\ UNCHANGED <<pc, answer, failed, map, php>>
  BY DEF CollectNext
<1>2. /\ HeaderMap(answer) /\ HeaderMap(map)
      /\ IF failed THEN map = status_metadata_for_php(StatusFrom(answer)) ELSE map = answer
      /\ seen \in [DOMAIN map -> Nat] /\ \A k \in DOMAIN map : seen[k] <= Len(map[k])
      /\ \A k : k \in DOMAIN entries <=> k \in DOMAIN map /\ Good(k, seen[k]) # {}
      /\ \A k \in DOMAIN entries :
           entries[k] \in Seq(Values) /\ Selects(entries[k], Good(k, seen[k]), Decoded(k))
  BY <1>1 DEF RecvInv
<1>3. m \in Nat /\ map[key] \in Seq(STRING) /\ Len(map[key]) \in Nat
      /\ DOMAIN map[key] = 1 .. Len(map[key]) /\ m + 1 \in 1 .. Len(map[key])
  <2>1. m \in Nat /\ map[key] \in Seq(STRING)
    BY <1>2 DEF HeaderMap
  <2>2. Len(map[key]) \in Nat /\ DOMAIN map[key] = 1 .. Len(map[key])
    BY <2>1, LenProperties
  <2>3. QED
    BY <1>1, <2>1, <2>2
<1>4. v \in STRING
  BY <1>3, ElementOfSeq
<1>5. Bytes(key, v) \in Values
  BY <1>4 DEF Bytes, Values
<1>6. Decoded(key)[m + 1] = Bytes(key, v)
  BY <1>3 DEF Decoded
<1>7. old \in Seq(Values) /\ Selects(old, Good(key, m), Decoded(key))
  <2>1. CASE key \in DOMAIN entries
    BY <1>2, <2>1
  <2>2. CASE key \notin DOMAIN entries
    BY <1>2, <2>2, EmptySeq, SelectsNothing
  <2>3. QED
    BY <2>1, <2>2
<1>8. seen'[key] = m + 1 /\ \A k \in DOMAIN map : k # key => seen'[k] = seen[k]
  BY <1>1, <1>2
<1>9. /\ seen' \in [DOMAIN map' -> Nat]
      /\ \A k \in DOMAIN map' : seen'[k] <= Len(map'[k])
  BY <1>1, <1>2, <1>3
<1>10. PhpSeesAnswer'
  BY <1>1 DEF PhpSeesAnswer
<1> SUFFICES /\ \A k : k \in DOMAIN entries' <=> k \in DOMAIN map /\ Good(k, seen'[k]) # {}
             /\ \A k \in DOMAIN entries' :
                  /\ entries'[k] \in Seq(Values)
                  /\ Selects(entries'[k], Good(k, seen'[k]), Decoded(k))
  <2>1. HeaderMap(answer)' /\ HeaderMap(map)'
    BY <1>1, <1>2 DEF HeaderMap
  <2>2. IF failed' THEN map' = status_metadata_for_php(StatusFrom(answer')) ELSE map' = answer'
    BY <1>1, <1>2
  <2>3. (\A k : k \in DOMAIN entries <=> k \in DOMAIN map /\ Good(k, seen[k]) # {})'
    BY <1>1 DEF Good
  <2>4. (\A k \in DOMAIN entries :
           entries[k] \in Seq(Values) /\ Selects(entries[k], Good(k, seen[k]), Decoded(k)))'
    BY <1>1 DEF Good, Decoded
  <2>5. QED
    BY <1>1, <1>9, <1>10, <2>1, <2>2, <2>3, <2>4, Zenon
       DEF RecvInv, status_metadata_for_php, StatusFrom
<1> HIDE DEF v, m, old
<1>12. CASE ~Decodes(v)
  <2>1. Good(key, m + 1) = Good(key, m)
    BY <1>3, <1>12, OneMore, Zenon DEF Good, v
  <2>2. \A k \in DOMAIN map : Good(k, seen'[k]) = Good(k, seen[k])
    BY <1>8, <2>1 DEF m
  <2>3. QED
    BY <1>1, <1>2, <1>12, <2>2
<1>13. CASE Decodes(v)
  <2>1. Good(key, m + 1) = Good(key, m) \cup {m + 1}
    BY <1>3, <1>13, OneMore, Zenon DEF Good, v
  <2>2. /\ DOMAIN entries' = DOMAIN entries \cup {key}
        /\ \A k \in DOMAIN entries : k # key => entries'[k] = entries[k]
        /\ entries'[key] = Append(old, Bytes(key, v))
    <3>1. entries' = Collect(entries, key, v)
      BY <1>1, <1>13
    <3>2. Append(<<>>, Bytes(key, v)) = <<Bytes(key, v)>>
      OBVIOUS
    <3>3. QED
      BY <3>1, <3>2 DEF Collect, old
  <2>3. Good(key, m) \in SUBSET Int /\ \A q \in Good(key, m) : q < m + 1
    BY <1>3, OneMore, Zenon DEF Good
  <2>4. Decoded(key)[m + 1] \in Values /\ m + 1 \in Int
    BY <1>3, <1>5, <1>6
  <2>5. Selects(Append(old, Decoded(key)[m + 1]), Good(key, m) \cup {m + 1}, Decoded(key))
    BY <1>7, <2>3, <2>4, SelectsAppend, Zenon
  <2>6. Selects(entries'[key], Good(key, seen'[key]), Decoded(key))
    BY <1>6, <1>8, <2>1, <2>2, <2>5, Zenon
  <2>7. entries'[key] \in Seq(Values)
    BY <1>5, <1>7, <2>2, AppendProperties
  <2>8. Good(key, seen'[key]) # {}
    BY <1>8, <2>1
  <2>9. \A k : k \in DOMAIN entries' <=> k \in DOMAIN map /\ Good(k, seen'[k]) # {}
    BY <1>2, <1>8, <2>2, <2>8
  <2>10. \A k \in DOMAIN entries' :
           /\ entries'[k] \in Seq(Values)
           /\ Selects(entries'[k], Good(k, seen'[k]), Decoded(k))
    BY <1>2, <1>8, <2>2, <2>6, <2>7
  <2>11. QED
    BY <2>9, <2>10
<1>14. QED
  BY <1>12, <1>13

\* The map that is collected shows of the answer what a script can see.
LEMMA MapShowsAnswer ==
  ASSUME HeaderMap(answer), HeaderMap(map), NEW k, ~is_reserved_header(k),
         IF failed THEN map = status_metadata_for_php(StatusFrom(answer)) ELSE map = answer
  PROVE  LET all == Good(k, Len(map[k])) IN
         /\ k \in DOMAIN map /\ all # {} <=> k \in DOMAIN answer /\ Shown(k) # {}
         /\ k \in DOMAIN map /\ all # {} =>
              /\ all = Shown(k)
              /\ \A i \in all : /\ i \in DOMAIN map[k] /\ i \in DOMAIN answer[k]
                              /\ map[k][i] = answer[k][i]
<1> DEFINE all == Good(k, Len(map[k]))
<1>1. /\ k \in DOMAIN map => Len(map[k]) \in Nat /\ DOMAIN map[k] = 1 .. Len(map[k])
      /\ k \in DOMAIN answer => /\ Len(answer[k]) \in Nat
                               /\ DOMAIN answer[k] = 1 .. Len(answer[k])
                               /\ 1 \in DOMAIN answer[k]
  <2>1. ASSUME k \in DOMAIN map PROVE Len(map[k]) \in Nat /\ DOMAIN map[k] = 1 .. Len(map[k])
    BY <2>1, LenProperties DEF HeaderMap
  <2>2. ASSUME k \in DOMAIN answer
        PROVE  /\ Len(answer[k]) \in Nat /\ DOMAIN answer[k] = 1 .. Len(answer[k])
               /\ 1 \in DOMAIN answer[k]
    <3>1. answer[k] \in Seq(STRING) /\ answer[k] # <<>>
      BY <2>2 DEF HeaderMap
    <3>2. QED
      BY <3>1, EmptySeq, LenProperties
  <2>3. QED
    BY <2>1, <2>2
<1>2. CASE /\ failed /\ k = Details => FALSE
           /\ k \in DOMAIN map <=> k \in DOMAIN answer
           /\ k \in DOMAIN map => map[k] = answer[k]
  <2>1. k \in DOMAIN map => all = Shown(k)
    BY <1>1, <1>2 DEF Good, Shown
  <2>2. k \in DOMAIN map => all \subseteq DOMAIN map[k]
    BY <1>1 DEF Good
  <2>3. QED
    BY <1>2, <2>1, <2>2
<1>3. CASE failed /\ k = Details
  <2> DEFINE d == answer[k][1]
  <2>1. /\ k \in DOMAIN map <=> k \in DOMAIN answer /\ d # "none"
        /\ k \in DOMAIN map => map[k] = <<d>>
    BY <1>3, StatusMap, Zenon
  <2>2. k \in DOMAIN answer => Shown(k) = IF Decodes(d) /\ d # "none" THEN {1} ELSE {}
    BY <1>1, <1>3 DEF Shown
  <2>3. k \in DOMAIN map => all = IF Decodes(d) THEN {1} ELSE {}
    <3>1. Len(<<d>>) = 1 /\ <<d>>[1] = d
      OBVIOUS
    <3>2. 1 .. 1 = {1}
      OBVIOUS
    <3>3. QED
      BY <2>1, <3>1, <3>2 DEF Good
  <2>4. k \in DOMAIN map => 1 \in DOMAIN map[k] /\ map[k][1] = d
    BY <2>1
  <2> HIDE DEF all
  <2>5. k \in DOMAIN map /\ all # {} => all = {1} /\ Shown(k) = {1}
    BY <2>1, <2>2, <2>3
  <2>6. k \in DOMAIN map /\ all # {} <=> k \in DOMAIN answer /\ Shown(k) # {}
    BY <2>1, <2>2, <2>3
  <2>7. QED
    BY <1>1, <2>1, <2>4, <2>5, <2>6 DEF all
<1>4. CASE ~failed
  BY <1>2, <1>4
<1>5. CASE failed /\ k # Details
  <2>1. k \notin {"grpc-status", "grpc-message", Details}
    BY <1>5 DEF is_reserved_header
  <2>2. k \in DOMAIN map <=> k \in DOMAIN answer
    BY <1>5, <2>1, StatusMap, ZenonT(30)
  <2>3. k \in DOMAIN answer => map[k] = answer[k]
    BY <1>5, <2>1, StatusMap, ZenonT(30)
  <2>4. QED
    BY <1>2, <1>5, <2>2, <2>3
<1>6. QED
  BY <1>3, <1>4, <1>5

\* When the loop is over, its groups without the transport headers are shown.
LEMMA ShowKeeps ==
  ASSUME RecvInv, metadata_to_php
  PROVE  RecvInv'
<1> DEFINE of(k) == [i \in DOMAIN answer[k] |-> Bytes(k, answer[k][i])]
<1>1. /\ pc = "collect" /\ \A k \in DOMAIN map : seen[k] = Len(map[k])
      /\ pc' = "over" /\ answer' = answer /\ failed' = failed
      /\ DOMAIN php' = {k \in DOMAIN entries : ~is_reserved_header(k)}
      /\ \A k \in DOMAIN php' : php'[k] = entries[k]
  BY DEF metadata_to_php, Enter, Restrict
<1>2. /\ HeaderMap(answer) /\ HeaderMap(map)
      /\ IF failed THEN map = status_metadata_for_php(StatusFrom(answer)) ELSE map = answer
      /\ \A k : k \in DOMAIN entries <=> k \in DOMAIN map /\ Good(k, seen[k]) # {}
      /\ \A k \in DOMAIN entries : Selects(entries[k], Good(k, seen[k]), Decoded(k))
  BY <1>1 DEF RecvInv
<1>3. ASSUME NEW k, ~is_reserved_header(k)
      PROVE  /\ k \in DOMAIN entries <=> k \in DOMAIN answer /\ Shown(k) # {}
             /\ k \in DOMAIN entries => Selects(entries[k], Shown(k), of(k))
  <2>1. k \in DOMAIN entries <=> k \in DOMAIN map /\ Good(k, Len(map[k])) # {}
    BY <1>1, <1>2
  <2>2. k \in DOMAIN entries <=> k \in DOMAIN answer /\ Shown(k) # {}
    BY <1>2, <1>3, <2>1, MapShowsAnswer, Zenon
  <2>3. ASSUME k \in DOMAIN entries PROVE Selects(entries[k], Shown(k), of(k))
    <3>1. /\ Good(k, Len(map[k])) = Shown(k)
          /\ \A i \in Good(k, Len(map[k])) : /\ i \in DOMAIN map[k] /\ i \in DOMAIN answer[k]
                                            /\ map[k][i] = answer[k][i]
      BY <1>2, <1>3, <2>1, <2>3, MapShowsAnswer, Zenon
    <3>2. Selects(entries[k], Shown(k), Decoded(k))
      BY <1>1, <1>2, <2>1, <2>3, <3>1
    <3>3. \A i \in Shown(k) : Decoded(k)[i] = of(k)[i]
      BY <3>1 DEF Decoded
    <3>4. QED
      BY <3>2, <3>3, SelectsSame, Zenon
  <2>4. QED
    BY <2>2, <2>3
<1>4. \A k : Shown(k)' = Shown(k)
  BY <1>1 DEF Shown
<1>5. DOMAIN php' = {k \in DOMAIN answer : ~is_reserved_header(k) /\ Shown(k) # {}}
  BY <1>1, <1>3
<1>6. \A k \in DOMAIN php' : Selects(php'[k], Shown(k), of(k))
  BY <1>1, <1>3
<1>7. PhpSeesAnswer'
  BY <1>1, <1>4, <1>5, <1>6, SMTT(30) DEF PhpSeesAnswer, Shown
<1>8. QED
  BY <1>1, <1>7 DEF RecvInv

\* Every step keeps the invariant of the loop over an answer.
LEMMA RecvKeeps ==
  ASSUME RecvInv, [Next]_vars
  PROVE  RecvInv'
<1>1. ASSUME pc' \notin {"collect", "over"} PROVE RecvInv'
  BY <1>1 DEF RecvInv, PhpSeesAnswer
<1>2. ASSUME \/ \E ht \in UserArrays : ParseOps(ht)
             \/ ParseEntry
             \/ \E ht \in PluginArrays : InvokePlugin(ht)
             \/ PluginEntry \/ NewRequest \/ ApplyPair \/ Dispatch
      PROVE  RecvInv'
  BY <1>1, <1>2 DEF ParseOps, ParseEntry, InvokePlugin, PluginEntry, NewRequest, ApplyPair,
     Dispatch, Built, Enter
<1>3. ASSUME NEW headers \in HeaderMaps, MapArrives(headers) \/ StatusArrives(headers)
      PROVE  RecvInv'
  BY <1>3, DeliverKeeps
<1>4. ASSUME NEW key \in DOMAIN map, CollectNext(key) PROVE RecvInv'
  BY <1>4, CollectKeeps
<1>5. CASE metadata_to_php
  BY <1>5, ShowKeeps
<1>6. CASE UNCHANGED vars
  <2>1. UNCHANGED <<pc, answer, failed, map, seen, entries, php>>
    BY <1>6 DEF vars, recvVars
  <2>2. PhpSeesAnswer'
    BY <2>1 DEF RecvInv, PhpSeesAnswer, Shown
  <2>3. CASE pc = "collect"
    <3>1. HeaderMap(answer)' /\ HeaderMap(map)'
      BY <2>1, <2>3 DEF RecvInv, HeaderMap
    <3>2. (IF failed THEN map = status_metadata_for_php(StatusFrom(answer)) ELSE map = answer)'
      BY <2>1, <2>3 DEF RecvInv
    <3>3. (/\ seen \in [DOMAIN map -> Nat] /\ \A k \in DOMAIN map : seen[k] <= Len(map[k])
           /\ \A k : k \in DOMAIN entries <=> k \in DOMAIN map /\ Good(k, seen[k]) # {})'
      BY <2>1, <2>3 DEF RecvInv, Good
    <3>4. (\A k \in DOMAIN entries :
             entries[k] \in Seq(Values) /\ Selects(entries[k], Good(k, seen[k]), Decoded(k)))'
      BY <2>1, <2>3 DEF RecvInv, Good, Decoded
    <3>5. QED
      BY <2>2, <3>1, <3>2, <3>3, <3>4, Zenon DEF RecvInv
  <2>4. CASE pc # "collect"
    BY <2>1, <2>2, <2>4, Zenon DEF RecvInv
  <2>5. QED
    BY <2>3, <2>4
<1>7. QED
  BY <1>2, <1>3, <1>4, <1>5, <1>6, Zenon DEF Next

-----------------------------------------------------------------------------
(* What a script sends and sees *)

\* The invariants of the loops over metadata hold in every state, for arrays
\* and header maps of any length.
THEOREM MetadataInvariant == Spec => []MetadataInv
<1>1. MetadataInv /\ [Next]_vars => MetadataInv'
  BY SendKeeps, RecvKeeps DEF MetadataInv
<1>2. QED
  BY MetadataInitial, <1>1, PTL DEF Spec

\* A request carries, of each header name, the plugin's last value that can be
\* sent, else the script's last: what parse_send_metadata, parse_metadata and
\* build_request compute together, for any two arrays.
THEOREM RequestRight == Spec => []RequestIsLastGiven
<1>1. MetadataInv => RequestIsLastGiven
  BY RequestComplete DEF MetadataInv
<1>2. QED
  BY MetadataInvariant, <1>1, PTL

\* metadata_to_php shows every key that is not a transport header with its
\* decodable values in the order sent, of headers, of trailers and, through
\* tonic::Status and status_metadata_for_php, of the trailers of a failed call.
THEOREM PhpSeesAll == Spec => []PhpSeesAnswer
<1>1. MetadataInv => PhpSeesAnswer
  BY DEF MetadataInv, RecvInv
<1>2. QED
  BY MetadataInvariant, <1>1, PTL

=============================================================================

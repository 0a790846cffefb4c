------------------------------ MODULE Metadata ------------------------------
(***************************************************************************)
(* The metadata of one call in src/src/call.rs: what a script gives to     *)
(* OP_SEND_INITIAL_METADATA and what the credentials plugin returns become *)
(* the headers of the request; the headers or trailers the server sends,   *)
(* or the tonic::Status made of them, become a PHP array.                  *)
(*                                                                         *)
(* A step is one round of one of the code's loops.  A PHP array of         *)
(* metadata is the sequence of what the nested loops over it visit, each   *)
(* [key, shape, item]: an item of a list, a bare item, or a list that is   *)
(* empty.  A header map is a function from keys to the values of the key.  *)
(***************************************************************************)
EXTENDS Integers, Sequences, Functions

CONSTANTS
  UserArrays,   \* arrays a script passes
  PluginArrays, \* arrays a plugin returns
  HeaderMaps    \* header maps a server sends

Shapes == {"list", "bare", "empty"}

ASSUME ArraysAssumption ==
  \A ht \in UserArrays \cup PluginArrays :
    ht \in Seq([key : STRING, shape : Shapes, item : STRING])

ASSUME HeaderMapsAssumption ==
  \A headers \in HeaderMaps : headers \in [DOMAIN headers -> Seq(STRING) \ {<<>>}]

VARIABLES
  pc,      \* the loop that runs, or "script", "wire", "thrown", "over"
  n,       \* the rounds of it that are done
  user,    \* the array of the script
  sent,    \* send_metadata
  given,   \* the array of the plugin
  plugged, \* plugin_metadata
  request, \* the headers of the request: a function from names
  answer,  \* the header map the server sent
  failed,  \* it came as the status of a failed call
  map,     \* the map that metadata_to_php gets
  seen,    \* how many values of each of its keys the iterator is past
  entries, \* what collect_metadata has grouped: a function from keys
  php      \* the array the script gets: a function from keys

sendVars == <<user, sent, given, plugged, request>>
recvVars == <<answer, failed, map, seen, entries, php>>
vars == <<pc, n, sendVars, recvVars>>

Empty == [k \in {} |-> <<>>]

Init ==
  /\ pc = "script" /\ n = 0
  /\ user = <<>> /\ sent = <<>> /\ given = <<>> /\ plugged = <<>> /\ request = Empty
  /\ answer = Empty /\ failed = FALSE /\ map = Empty /\ seen = Empty
  /\ entries = Empty /\ php = Empty

Enter(loop) == pc' = loop /\ n' = 0

-----------------------------------------------------------------------------
(* Requests *)

\* Values: raw is a string that is not UTF-8, ctl one with control bytes, other
\* is not a string.
Utf8(v) == v \notin {"raw", "other"}

\* Keys: an integer has no name; "Auth" is a header name that is not legal in
\* an argument; "x-bin" is legal, and no name of an ASCII header.
array_key_to_string(key) == key # "int"
header_key_is_legal(key) == key \in {"auth", "x-bin", "trace"}

\* MetadataKey::from_bytes for ASCII metadata, which lowers the case.
HeaderName == [key \in {"auth", "Auth", "trace"} |-> IF key = "Auth" THEN "auth" ELSE key]

from_utf8_lossy(v) == IF v = "raw" THEN "replacement" ELSE v

\* MetadataValue::from_str refuses control bytes, not other bytes.
Parses(v) == v # "ctl"

ParseOps(ht) ==
  /\ pc = "script"
  /\ user' = ht
  /\ Enter("parse")
  /\ UNCHANGED <<sent, given, plugged, request, recvVars>>

\* parse_send_metadata: the shape is array<string, list<string>> or it throws.
BadArgument(e) ==
  \/ ~array_key_to_string(e.key) \/ ~header_key_is_legal(e.key)
  \/ e.shape = "bare"
  \/ e.shape = "list" /\ e.item = "other"

\* A round of parse_send_metadata; what it has pushed is lost if it throws.
ParseEntry ==
  /\ pc = "parse" /\ n < Len(user)
  /\ LET e == user[n + 1] IN
       \/ /\ BadArgument(e)
          /\ pc' = "thrown" /\ sent' = <<>>
          /\ UNCHANGED n
       \/ /\ ~BadArgument(e)
          /\ sent' = IF e.shape = "empty" THEN sent
                     ELSE Append(sent, <<e.key, from_utf8_lossy(e.item)>>)
          /\ n' = n + 1
          /\ UNCHANGED pc
  /\ UNCHANGED <<user, given, plugged, request, recvVars>>

\* invoke_call_plugin: the callback returns an array, empty if it is none.
InvokePlugin(ht) ==
  /\ pc = "parse" /\ n = Len(user)
  /\ given' = ht
  /\ Enter("plugin")
  /\ UNCHANGED <<user, sent, plugged, request, recvVars>>

\* Lenient: what has no name or is not UTF-8 is skipped.
Lenient(e) == array_key_to_string(e.key) /\ e.shape # "empty" /\ Utf8(e.item)

\* A round of parse_metadata.
PluginEntry ==
  /\ pc = "plugin" /\ n < Len(given)
  /\ LET e == given[n + 1] IN
       plugged' = IF Lenient(e) THEN Append(plugged, <<e.key, e.item>>) ELSE plugged
  /\ n' = n + 1
  /\ UNCHANGED <<pc, user, sent, given, request, recvVars>>

\* A request is made, without headers.
NewRequest ==
  /\ pc = "plugin" /\ n = Len(given)
  /\ Enter("apply")
  /\ UNCHANGED <<sendVars, recvVars>>

\* Mutant of Applied: the plugin's pairs first.
AppliedPluginFirst == plugged \o sent

\* The loop over the script's pairs, then the one over the plugin's.
Applied == sent \o plugged

\* What tonic accepts.
Accepts(pair) == pair[1] \in DOMAIN HeaderName /\ Parses(pair[2])

\* req_metadata.insert: a later value replaces.
Insert(headers, pair) ==
  [k \in DOMAIN headers \cup {HeaderName[pair[1]]} |->
     IF k = HeaderName[pair[1]] THEN pair[2] ELSE headers[k]]

ApplyPair ==
  /\ pc = "apply" /\ n < Len(Applied)
  /\ LET pair == Applied[n + 1] IN
       request' = IF Accepts(pair) THEN Insert(request, pair) ELSE request
  /\ n' = n + 1
  /\ UNCHANGED <<pc, user, sent, given, plugged, recvVars>>

\* The request is complete, and is moved into tonic.
Built == pc = "apply" /\ n = Len(Applied)
Dispatch ==
  /\ Built
  /\ Enter("wire")
  /\ user' = <<>> /\ sent' = <<>> /\ given' = <<>> /\ plugged' = <<>> /\ request' = Empty
  /\ UNCHANGED recvVars

-----------------------------------------------------------------------------
(* Responses *)

\* Values: bad decodes neither as text nor as base64, none is the empty string.
Details == "grpc-status-details-bin"
IsBinary(key) == key \in {"t-bin", Details}

is_reserved_header(key) ==
  key \in {"content-type", "grpc-status", "grpc-message", "grpc-encoding",
           "grpc-accept-encoding"}

\* to_str of a text, to_bytes of a base64 payload.
Decodes(v) == v # "bad"
Bytes(key, v) == <<IF IsBinary(key) THEN "decoded" ELSE "text", v>>

\* tonic::Status::from_header_map: status, message and details leave the map;
\* it makes a status only of details it can decode.
StatusFrom(headers) ==
  [metadata |-> Restrict(headers, DOMAIN headers \ {"grpc-status", "grpc-message", Details}),
   details  |-> IF Details \in DOMAIN headers THEN headers[Details][1] ELSE "none"]

\* The details are encoded again and put back; insert_bin replaces.
status_metadata_for_php(status) ==
  IF status.details = "none" THEN status.metadata
  ELSE [k \in DOMAIN status.metadata \cup {Details} |->
          IF k = Details THEN <<status.details>> ELSE status.metadata[k]]

\* collect_metadata starts on a map.
Deliver(headers, err, shown) ==
  /\ pc = "wire"
  /\ Enter("collect")
  /\ answer' = headers /\ failed' = err
  /\ map' = shown
  /\ seen' = [k \in DOMAIN shown |-> 0]
  /\ entries' = Empty
  /\ UNCHANGED <<sendVars, php>>

\* Headers, and the trailers of a call that succeeds.
MapArrives(headers) == Deliver(headers, FALSE, headers)

\* The trailers of a call that fails.
StatusArrives(headers) ==
  /\ Details \in DOMAIN headers => Decodes(headers[Details][1])
  /\ Deliver(headers, TRUE, status_metadata_for_php(StatusFrom(headers)))

\* Mutant of Collect: a repeated key replaces.
CollectLast(groups, key, v) ==
  [k \in DOMAIN groups \cup {key} |-> IF k = key THEN <<Bytes(key, v)>> ELSE groups[k]]

\* The slot of the key is found, or there is a new one.
Collect(groups, key, v) ==
  [k \in DOMAIN groups \cup {key} |->
     IF k # key THEN groups[k]
     ELSE IF key \in DOMAIN groups THEN Append(groups[key], Bytes(key, v))
     ELSE <<Bytes(key, v)>>]

\* A round of collect_metadata.  The iterator goes from key to key in an order
\* of its own, and through all the values of a key.
CollectNext(key) ==
  /\ pc = "collect"
  /\ seen[key] < Len(map[key])
  /\ \A k \in DOMAIN map \ {key} : seen[k] \in {0, Len(map[k])}
  /\ LET v == map[key][seen[key] + 1] IN
       entries' = IF Decodes(v) THEN Collect(entries, key, v) ELSE entries
  /\ seen' = [seen EXCEPT ![key] = @ + 1]
  /\ UNCHANGED <<pc, n, sendVars, answer, failed, map, php>>

\* metadata_to_php: what transport uses is left out.
metadata_to_php ==
  /\ pc = "collect"
  /\ \A k \in DOMAIN map : seen[k] = Len(map[k])
  /\ Enter("over")
  /\ php' = Restrict(entries, {k \in DOMAIN entries : ~is_reserved_header(k)})
  /\ UNCHANGED <<sendVars, answer, failed, map, seen, entries>>

Next ==
  \/ \E ht \in UserArrays : ParseOps(ht)
  \/ ParseEntry
  \/ \E ht \in PluginArrays : InvokePlugin(ht)
  \/ PluginEntry \/ NewRequest \/ ApplyPair \/ Dispatch
  \/ \E headers \in HeaderMaps : MapArrives(headers)
  \/ \E headers \in HeaderMaps : StatusArrives(headers)
  \/ \E key \in DOMAIN map : CollectNext(key)
  \/ metadata_to_php

Spec == Init /\ [][Next]_vars

-----------------------------------------------------------------------------
(* Properties *)

\* The script, or the plugin, gives at i a value that can be sent for the name.
\* Of what is not UTF-8 only a script's string goes out, its bytes replaced.
Names(e, name) == e.shape # "empty" /\ e.key \in DOMAIN HeaderName /\ HeaderName[e.key] = name
ScriptGives(i, name) == i \in DOMAIN user /\ Names(user[i], name) /\ user[i].item # "ctl"
PluginGives(i, name) ==
  i \in DOMAIN given /\ Names(given[i], name) /\ given[i].item \notin {"ctl", "raw", "other"}

\* A request carries one value of each header name the script or the plugin
\* gave a value for that can be sent: the plugin's last one, also where the
\* script or another spelling of the name came first, else the script's last.
\* A value that is dropped, wherever that happens, uncovers the one before it.
RequestIsLastGiven ==
  Built =>
    /\ DOMAIN request =
         {name \in Range(HeaderName) : \/ \E i \in DOMAIN user : ScriptGives(i, name)
                                      \/ \E i \in DOMAIN given : PluginGives(i, name)}
    /\ \A i \in DOMAIN given, name \in DOMAIN request :
         PluginGives(i, name) /\ (\A j \in DOMAIN given : j > i => ~PluginGives(j, name))
           => request[name] = given[i].item
    /\ \A i \in DOMAIN user, name \in DOMAIN request :
         /\ ScriptGives(i, name) /\ \A j \in DOMAIN user : j > i => ~ScriptGives(j, name)
         /\ \A j \in DOMAIN given : ~PluginGives(j, name)
         => request[name] = from_utf8_lossy(user[i].item)

\* out lists the values at the positions in good, one for each, in order.
Selects(out, good, val) ==
  \E at \in [DOMAIN out -> good] :
    /\ \A i, j \in DOMAIN out : i < j => at[i] < at[j]
    /\ \A p \in good : \E i \in DOMAIN out : at[i] = p
    /\ \A i \in DOMAIN out : out[i] = val[at[i]]

\* The values of a key that a script can see.  A Status holds one rich status,
\* and none that is empty.
Shown(key) ==
  {i \in DOMAIN answer[key] : /\ Decodes(answer[key][i])
                              /\ failed /\ key = Details => i = 1 /\ answer[key][i] # "none"}

\* The script sees the same metadata whether the call succeeded or failed:
\* every key that is not a transport header with its decodable values in the
\* order sent, decoded, the rich status included.
PhpSeesAnswer ==
  pc = "over" =>
    /\ DOMAIN php = {k \in DOMAIN answer : ~is_reserved_header(k) /\ Shown(k) # {}}
    /\ \A k \in DOMAIN php :
         Selects(php[k], Shown(k), [i \in DOMAIN answer[k] |-> Bytes(k, answer[k][i])])
=============================================================================

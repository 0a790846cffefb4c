----------------------------- MODULE MCRegistry ----------------------------
(***************************************************************************)
(* Instances of ChannelRegistry for TLC.                                   *)
(***************************************************************************)
EXTENDS ChannelRegistry

insecure == [id |-> 0, kind |-> "insecure", plugin |-> FALSE]
\* Two results of createSsl, and a composite with a call plugin.
ssl1 == [id |-> 1, kind |-> "tls", plugin |-> FALSE]
ssl2 == [id |-> 2, kind |-> "tls", plugin |-> FALSE]
composite == [id |-> 3, kind |-> "tls", plugin |-> TRUE]
notCreds == [id |-> 0, kind |-> "other", plugin |-> FALSE]

\* grpc.keepalive_time_ms as an int and as a string.
asInt == [key |-> "keepalive", type |-> "int", text |-> "1000"]
asString == [key |-> "keepalive", type |-> "string", text |-> "1000"]
asFloat == [key |-> "keepalive", type |-> "float", text |-> "1000"]

Conf(target, creds, args, force) ==
  [target |-> target, creds |-> creds, args |-> args, force_new |-> force]

\* Every way to get or miss a shared transport, and every way to fail.
SharingConfigs ==
  {Conf("a", insecure, {}, FALSE), Conf("b", insecure, {}, FALSE),
   Conf("a", insecure, {}, TRUE), Conf("a", ssl1, {}, FALSE),
   Conf("a", ssl2, {}, FALSE), Conf("a", composite, {}, FALSE),
   Conf("a", insecure, {asInt}, FALSE), Conf("a", insecure, {asString}, FALSE),
   Conf("a", insecure, {asFloat}, FALSE), Conf("a", notCreds, {}, FALSE),
   Conf("bad", insecure, {}, FALSE)}
=============================================================================

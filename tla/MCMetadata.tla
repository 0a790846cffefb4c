----------------------------- MODULE MCMetadata -----------------------------
(* Small sets of PHP arrays and header maps for TLC. *)
EXTENDS Metadata

UpTo(m, S) == UNION {[1 .. l -> S] : l \in 0 .. m}

\* What the loops visit of one key: a list of items, or one bare item.
List(key, items) ==
  IF items = <<>> THEN <<[key |-> key, shape |-> "empty", item |-> "other"]>>
  ELSE [i \in DOMAIN items |-> [key |-> key, shape |-> "list", item |-> items[i]]]
Bare(key, item) == <<[key |-> key, shape |-> "bare", item |-> item]>>

\* Arrays of at most two keys; the keys of a PHP array are distinct.
Arrays(keys, lists, bare) ==
  LET Of(key) == {List(key, l) : l \in lists} \cup {Bare(key, v) : v \in bare}
  IN {<<>>} \cup UNION {Of(k) : k \in keys}
     \cup UNION {{a \o b : a \in Of(p[1]), b \in Of(p[2])} :
                 p \in {q \in keys \X keys : q[1] # q[2]}}

\* Scripts give two values of a key, keys that are not legal, strings that are
\* not UTF-8 or cannot be sent, items that are not strings; plugins give bare
\* strings and two spellings of a name.
MCUserArrays ==
  Arrays({"auth", "x-bin"}, {<<>>, <<"raw">>, <<"u1", "ctl">>, <<"ctl", "u2">>}, {})
  \cup Arrays({"auth", "trace"}, {<<"u1">>, <<"ctl">>, <<"u1", "raw">>}, {})
  \cup Arrays({"auth", "Auth", "int"}, {<<>>, <<"u1", "other">>}, {"u1"})
MCPluginArrays ==
  Arrays({"auth", "Auth", "int"}, {<<>>, <<"raw">>, <<"p1">>, <<"p2", "ctl">>}, {"p1", "other"})

\* Repeated and undecodable values, transport headers, rich statuses.
MCHeaderMaps ==
  LET Maps(key, lists) == {[k \in {key} |-> l] : l \in lists} \cup {Empty}
      Join(f, g) == [k \in DOMAIN f \cup DOMAIN g |-> IF k \in DOMAIN f THEN f[k] ELSE g[k]]
  IN {Join(Join(m[1], m[2]), Join(m[3], m[4])) :
        m \in Maps("x", (UpTo(2, {"v1", "bad"}) \ {<<>>}) \cup {<<"v1", "bad", "v2">>})
              \X Maps("t-bin", {<<"v1">>, <<"bad">>, <<"bad", "v1">>})
              \X Maps("content-type", {<<"v1">>})
              \X Maps(Details, {<<"v1">>, <<"none">>, <<"v1", "v2">>, <<"bad">>})}
=============================================================================

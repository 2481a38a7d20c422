------------------------------ MODULE ParseUri ------------------------------
(***************************************************************************)
(* parse_uri of src/util.cpp, with uri_unescape.  The uri is a sequence of *)
(* tokens: single characters, and the percent escapes "%26" and "%3D",     *)
(* which uri_unescape turns into "&" and "=" (when curl_easy_init fails it *)
(* returns the uri as it is).  The scanner then checks the leading "/",    *)
(* reads the index up to "?", and reads key "=" value pairs separated by   *)
(* "&" into a std::map, whose insert keeps the first value of a key.       *)
(*                                                                         *)
(* A uri comes either from a client that encodes an index path and a list *)
(* of pairs, escaping "&" and "=", or is any short token sequence.         *)
(***************************************************************************)
EXTENDS Naturals, Sequences, SequencesExt

CONSTANTS
  Letters,   \* plain characters of paths, keys and values
  Paths,     \* index paths a client asks for (sequences of characters)
  Words,     \* keys and values a client sends (sequences of characters)
  MaxPairs,  \* bound: pairs in a client request
  MaxLen,    \* bound: length of an arbitrary uri
  NoReq,     \* the uri was not built by a client; no result yet
  CurlInit   \* the outcomes of curl_easy_init considered (TRUE: it works)

Reserved == {"/", "?", "=", "&"}
Escapes  == {"%26", "%3D"}
Chars    == Letters \cup Reserved
Tokens   == Chars \cup Escapes

ASSUME /\ Letters \cap (Reserved \cup Escapes) = {}
       /\ MaxPairs \in Nat /\ MaxLen \in Nat
       /\ CurlInit \subseteq BOOLEAN /\ CurlInit # {}

(* A client request carries at least one pair (the websocket index asks   *)
(* for query=...); a uri without pairs is covered by the arbitrary uris.   *)
Requests == [path : Paths, pairs : BoundedSeq(Words \X Words, MaxPairs) \ {<<>>}]

VARIABLES
  uri,      \* escaped_uri
  req,      \* the request a client encoded into uri, or NoReq
  result    \* what parse_uri returned and left in index and params

vars == <<uri, req, result>>

-----------------------------------------------------------------------------
(* A client's encoding: "/" path "?" k1 "=" v1 "&" k2 "=" v2 ..., with "&"  *)
(* and "=" inside keys and values percent-escaped.                         *)
Escape(w) == [i \in 1 .. Len(w) |-> CASE w[i] = "&" -> "%26"
                                      [] w[i] = "=" -> "%3D"
                                      [] OTHER      -> w[i]]

RECURSIVE Query(_)
Query(ps) ==
  IF ps = <<>> THEN <<>>
  ELSE LET p    == Escape(Head(ps)[1]) \o <<"=">> \o Escape(Head(ps)[2])
       IN IF Tail(ps) = <<>> THEN p ELSE p \o <<"&">> \o Query(Tail(ps))

Encode(r) == <<"/">> \o r.path \o <<"?">> \o Query(r.pairs)

Init ==
  /\ \/ uri \in BoundedSeq(Tokens, MaxLen) /\ req = NoReq
     \/ \E r \in Requests : uri = Encode(r) /\ req = r
  /\ result = NoReq

-----------------------------------------------------------------------------
(* uri_unescape: curl_easy_unescape, or the uri itself when curl_easy_init *)
(* fails.                                                                  *)
uri_unescape(u, curlOk) ==
  IF ~curlOk THEN u
  ELSE [i \in 1 .. Len(u) |-> CASE u[i] = "%26" -> "&"
                                [] u[i] = "%3D" -> "="
                                [] OTHER        -> u[i]]

(* The while loops "while (it != uri.end() && *it != c)": the position of  *)
(* the first c at or after p, or Len(d) + 1 (uri.end()).                   *)
ScanTo(d, p, c) ==
  LET q == SelectInSubSeq(d, p, Len(d), LAMBDA x : x = c)
  IN IF q = 0 THEN Len(d) + 1 ELSE q

(* std::map::insert: a key already present keeps its value. *)
Insert(params, k, v) ==
  IF \E kv \in params : kv[1] = k THEN params ELSE params \cup {<<k, v>>}

(* Bug variant of ReadPairs: the "&" after a value is not skipped.        *)
RECURSIVE ReadPairsNoSkip(_, _, _, _)
ReadPairsNoSkip(d, p, index, params) ==
  LET k  == ScanTo(d, p, "=")
      v  == ScanTo(d, k + 1, "&")
      ps == Insert(params, SubSeq(d, p, k - 1), SubSeq(d, k + 1, v - 1))
  IN IF k > Len(d) THEN [ok |-> FALSE, index |-> index, params |-> params]
     ELSE IF v > Len(d) THEN [ok |-> TRUE, index |-> index, params |-> ps]
     ELSE ReadPairsNoSkip(d, v, index, ps)

(* The while (true) loop from position p: key up to "=", value up to "&".  *)
RECURSIVE ReadPairs(_, _, _, _)
ReadPairs(d, p, index, params) ==
  LET k  == ScanTo(d, p, "=")
      v  == ScanTo(d, k + 1, "&")
      ps == Insert(params, SubSeq(d, p, k - 1), SubSeq(d, k + 1, v - 1))
  IN IF k > Len(d) THEN [ok |-> FALSE, index |-> index, params |-> params]
     ELSE IF v > Len(d) THEN [ok |-> TRUE, index |-> index, params |-> ps]
     ELSE ReadPairs(d, v + 1, index, ps)

(* Bug variant of parse_uri: a uri without "?" is accepted with no         *)
(* parameters.                                                             *)
parse_uri_no_query_ok(u, curlOk, junk) ==
  LET d     == uri_unescape(u, curlOk)
      first == IF d = <<>> THEN junk ELSE d[1]
      q     == ScanTo(d, 1, "?")
      index == SubSeq(d, 1, q - 1)
  IN IF first # "/" THEN [ok |-> FALSE, index |-> <<>>, params |-> {}]
     ELSE IF q > Len(d) THEN [ok |-> TRUE, index |-> index, params |-> {}]
     ELSE ReadPairs(d, q + 1, index, {})

(* parse_uri.  *uri.begin() is read before any length check: on an empty  *)
(* uri it reads past the string, a byte junk the build decides.            *)
parse_uri(u, curlOk, junk) ==
  LET d     == uri_unescape(u, curlOk)
      first == IF d = <<>> THEN junk ELSE d[1]
      q     == ScanTo(d, 1, "?")
      index == SubSeq(d, 1, q - 1)
  IN IF first # "/" THEN [ok |-> FALSE, index |-> <<>>, params |-> {}]
     ELSE IF q > Len(d) THEN [ok |-> FALSE, index |-> index, params |-> {}]
     ELSE ReadPairs(d, q + 1, index, {})

(* The handler that receives the uri calls parse_uri once. *)
Parse ==
  /\ result = NoReq
  /\ \E curlOk \in CurlInit, junk \in Tokens :
       result' = parse_uri(uri, curlOk, junk)
  /\ UNCHANGED <<uri, req>>

Next == Parse

Spec == Init /\ [][Next]_vars

-----------------------------------------------------------------------------
(* The first value of each key in a list of pairs. *)
FirstWins(ps) ==
  {<<ps[i][1], ps[i][2]>> : i \in {j \in 1 .. Len(ps) :
                                     \A l \in 1 .. j - 1 : ps[l][1] # ps[j][1]}}

(* The read of *uri.begin() on an empty uri (undefined behaviour) never    *)
(* decides what parse_uri returns: whatever byte the read yields, the       *)
(* result is the same.                                                     *)
JunkIrrelevant ==
  \A c \in CurlInit, j1, j2 \in Tokens :
    parse_uri(uri, c, j1) = parse_uri(uri, c, j2)

(* A uri a client built from an index path and key/value pairs, escaping   *)
(* "&" and "=", parses back: accepted, the index is "/" path, and each key *)
(* maps to its first value.                                                *)
ParamsFromPairs ==
  req # NoReq /\ result # NoReq =>
    /\ result.ok
    /\ result.index = <<"/">> \o req.path
    /\ result.params = FirstWins(req.pairs)
=============================================================================

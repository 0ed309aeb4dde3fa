-------------------------------- MODULE Text --------------------------------
(***************************************************************************)
(* The pure text functions of the library, as operators on sequences of    *)
(* characters: percent encoding and query strings, URLs, header values     *)
(* (src/http.cpp), PIDs (src/pid.cpp), and messages and responses on the   *)
(* wire (src/encoder.hpp, parse() in src/process.cpp).  The behaviours     *)
(* only grow two texts s and t and a header, so that the invariants are    *)
(* checked for all of them up to a length.                                 *)
(***************************************************************************)
EXTENDS Naturals, Sequences, SequencesExt, FiniteSets

CONSTANTS MaxLength, MaxShort, MaxEntries, Error

VARIABLES s, t, accept
vars == <<s, t, accept>>

Alphabet == {"a", "%", "/", "+", " ", "2", "F", "@", "&", "=", ":"}

-----------------------------------------------------------------------------
(* stout's strings::tokenize, split and find, as src/ uses them *)

RECURSIVE Split(_, _)
Split(x, seps) ==
  LET Cuts == {i \in 1..Len(x) : x[i] \in seps} IN
  IF Cuts = {} THEN <<x>>
  ELSE LET i == CHOOSE j \in Cuts : \A k \in Cuts : j <= k
       IN <<SubSeq(x, 1, i - 1)>> \o Split(SubSeq(x, i + 1, Len(x)), seps)

Tokenize(x, seps) == SelectSeq(Split(x, seps), LAMBDA y : y # <<>>)

\* The text before and after the first separator, or <<x>>.
SplitOnce(x, sep) ==
  LET parts == Split(x, {sep}) IN
  IF Len(parts) = 1 THEN parts
  ELSE <<parts[1], SubSeq(x, Len(parts[1]) + 2, Len(x))>>

-----------------------------------------------------------------------------
(* http::encode, decode and query *)

Hex == [c \in {"%", "/", "+", " ", "@", "&", "=", ":"} |->
          CASE c = "%" -> <<"2", "5">> [] c = "/" -> <<"2", "F">>
            [] c = "+" -> <<"2", "B">> [] c = " " -> <<"2", "0">>
            [] c = "@" -> <<"4", "0">> [] c = "&" -> <<"2", "6">>
            [] c = "=" -> <<"3", "D">> [] c = ":" -> <<"3", "A">>]
HexDigits == {"a", "2", "F", "5", "B", "0", "4", "6", "3", "D", "A"}

\* MUTANT: '%' itself is not escaped.
encode_percent(x) ==
  FoldLeft(LAMBDA out, c : out \o IF c \in DOMAIN Hex \ {"%"} THEN <<"%">> \o Hex[c] ELSE <<c>>,
           <<>>, x)

\* Reserved and unsafe characters become %XX.
encode(x) ==
  FoldLeft(LAMBDA out, c : out \o IF c \in DOMAIN Hex THEN <<"%">> \o Hex[c] ELSE <<c>>,
           <<>>, x)

\* The character of two digits; any other is one outside the alphabet.
Char(a, b) ==
  IF \E c \in DOMAIN Hex : Hex[c] = <<a, b>>
  THEN CHOOSE c \in DOMAIN Hex : Hex[c] = <<a, b>> ELSE <<a, b>>

RECURSIVE decode(_)
decode(x) ==
  IF x = <<>> THEN <<>>
  ELSE IF Head(x) # "%" THEN
    LET rest == decode(Tail(x)) IN
    IF rest = Error THEN Error ELSE <<IF Head(x) = "+" THEN " " ELSE Head(x)>> \o rest
  ELSE IF Len(x) < 3 \/ x[2] \notin HexDigits \/ x[3] \notin HexDigits THEN Error
  ELSE LET rest == decode(SubSeq(x, 4, Len(x))) IN
       IF rest = Error THEN Error ELSE <<Char(x[2], x[3])>> \o rest

\* query::encode, for the pairs of a map in some order.
QueryEncode(pairs) ==
  LET One(p) == encode(p[1]) \o (IF p[2] = <<>> THEN <<>> ELSE <<"=">> \o encode(p[2]))
      all == FoldLeft(LAMBDA out, p : out \o One(p) \o <<"&">>, <<>>, pairs) IN
  IF all # <<>> /\ all[Len(all)] = "&" THEN SubSeq(all, 1, Len(all) - 1) ELSE all

\* query::decode, into the set of pairs of the map.
QueryDecode(x) ==
  LET tokens == Tokenize(x, {";", "&"})
      Pair(y) == LET p == SplitOnce(y, "=") IN
                 <<decode(p[1]), IF Len(p) = 2 THEN decode(p[2]) ELSE <<>>>>
      pairs == [i \in 1..Len(tokens) |-> Pair(tokens[i])] IN
  IF \E i \in 1..Len(pairs) : Error \in {pairs[i][1], pairs[i][2]} THEN Error
  ELSE {pairs[i] : i \in {i \in 1..Len(pairs) :
                            \A j \in i + 1..Len(pairs) : pairs[j][1] # pairs[i][1]}}

-----------------------------------------------------------------------------
(* PIDs and messages *)

\* A number that is the whole text, and one that a text begins with ("%hu"): a
\* sign and the only digit of the alphabet.
Unsigned(x) == IF x # <<>> /\ x[1] = "+" THEN Tail(x) ELSE x
Number(x) ==
  LET d == Unsigned(x) IN IF d # <<>> /\ Range(d) = {"2"} THEN d ELSE Error
NumberPrefix(x) ==
  LET d == Unsigned(x)
      n == CHOOSE n \in 0..Len(d) : (\A i \in 1..n : d[i] = "2")
                                /\ (n = Len(d) \/ d[n + 1] # "2")
  IN IF n = 0 THEN Error ELSE SubSeq(d, 1, n)

\* operator<< of a UPID, id@ip:port, and operator>>, which reads one word.  "a" is
\* the address here; no other host resolves.
PidText(id, ip, port) == id \o <<"@">> \o ip \o <<":">> \o port
PidParse(x) ==
  LET words == Tokenize(x, {" "}) IN
  IF words = <<>> THEN Error
  ELSE LET at == SplitOnce(words[1], "@") IN
       IF Len(at) = 1 THEN Error
       ELSE LET host == SplitOnce(at[2], ":") IN
            IF Len(host) = 1 \/ host[1] # <<"a">> THEN Error
            ELSE IF NumberPrefix(host[2]) = Error THEN Error
            ELSE [id |-> at[1], ip |-> host[1], port |-> NumberPrefix(host[2])]

\* The request path of MessageEncoder::encode.
MessagePath(id, name) ==
  (IF id = <<>> THEN <<>> ELSE <<"/">> \o id) \o <<"/">> \o name

\* MUTANT: the name is what follows the last '/'.
MessageParse_last(path) ==
  LET parts == Split(Tail(path), {"/"}) IN
  [to |-> decode(parts[1]), name |-> IF Len(parts) = 1 THEN <<>> ELSE parts[Len(parts)]]

\* parse(): `to' ends at the second '/' and is decoded, the rest is the name.
MessageParse(path) ==
  LET parts == SplitOnce(Tail(path), "/") IN
  [to |-> decode(parts[1]), name |-> IF Len(parts) = 1 THEN <<>> ELSE parts[2]]

-----------------------------------------------------------------------------
(* URLs *)

\* operator<< of a URL without query and fragment, after the scheme and "://".
UrlText(u) == u.host \o <<":">> \o u.port \o <<"/">>
              \o (IF u.path # <<>> /\ u.path[1] = "/" THEN Tail(u.path) ELSE u.path)

\* MUTANT: more than one port is accepted.
UrlParse_ports(x) ==
  LET slash == SplitOnce(x, "/")
      tokens == Tokenize(slash[1], {":"}) IN
  IF slash[1] = <<>> \/ tokens = <<>> THEN Error
  ELSE IF Len(tokens) >= 2 /\ Number(tokens[2]) = Error THEN Error
  ELSE [host |-> tokens[1], port |-> IF Len(tokens) >= 2 THEN tokens[2] ELSE <<"8", "0">>,
        path |-> <<"/">> \o (IF Len(slash) = 1 THEN <<>> ELSE slash[2])]

\* URL::parse after "http://"; without a port it is the default.
\* (A host of colons only has no first token to test: taken as an error.)
UrlParse(x) ==
  LET slash == SplitOnce(x, "/")
      tokens == Tokenize(slash[1], {":"}) IN
  IF slash[1] = <<>> \/ tokens = <<>> \/ Len(tokens) > 2 THEN Error
  ELSE IF Len(tokens) = 2 /\ Number(tokens[2]) = Error THEN Error
  ELSE [host |-> tokens[1], port |-> IF Len(tokens) = 2 THEN Number(tokens[2]) ELSE <<"8", "0">>,
        path |-> <<"/">> \o (IF Len(slash) = 1 THEN <<>> ELSE slash[2])]

-----------------------------------------------------------------------------
(* Header values: an entry of Accept-Encoding or Accept is [name, q] *)

Encodings == {"gzip", "*", "br"}
\* A q-value: none (or not one value), zero, positive, or not a number.
Qs == {"none", "0", "1", "bad"}
Accepts(e) == e.q \in {"none", "1"}

\* The first entry of the first candidate that is listed decides.
FirstOf(entries, candidates) ==
  LET Listed(c) == {i \in 1..Len(entries) : entries[i].name = c}
      found == SelectSeq(candidates, LAMBDA c : Listed(c) # {}) IN
  IF found = <<>> THEN 0
  ELSE CHOOSE i \in Listed(found[1]) : \A j \in Listed(found[1]) : i <= j

\* MUTANT: '*' overrides the encoding itself.
acceptsEncoding_star(entries, encoding) ==
  LET i == FirstOf(entries, <<"*", encoding>>) IN i # 0 /\ Accepts(entries[i])

\* Request::acceptsEncoding: the encoding itself, then '*'.
acceptsEncoding(entries, encoding) ==
  LET i == FirstOf(entries, <<encoding, "*">>) IN i # 0 /\ Accepts(entries[i])

\* _acceptsMediaType: type/subtype, then type/*, then */*; all without a header.
acceptsMediaType(header, entries) ==
  ~header \/ LET i == FirstOf(entries, <<"gzip", "br", "*">>) IN
             i # 0 /\ Accepts(entries[i])

-----------------------------------------------------------------------------
(* HttpResponseEncoder::encode: the lengths it announces and writes *)

Minimum == 2   \* GZIP_MINIMUM_BODY_LENGTH
Compressed(n) == 1 + n \div 2

\* MUTANT: the length of the body before it was compressed is announced.
ResponseLength_before(type, n, given, gzip) ==
  LET body == IF type = "body" /\ n >= Minimum /\ gzip THEN Compressed(n) ELSE n
      announced == IF given # Error THEN given ELSE IF type = "body" THEN n ELSE 0 IN
  [announced |-> announced,
   written |-> IF type # "body" THEN 0 ELSE IF announced <= body THEN announced ELSE body,
   body |-> body]

\* A body is compressed where the request accepts it; a length that is given bounds
\* what is written.
ResponseLength(type, n, given, gzip) ==
  LET compress == type = "body" /\ n >= Minimum /\ gzip
      body == IF compress THEN Compressed(n) ELSE n
      announced == IF compress THEN body ELSE IF given # Error THEN given
                   ELSE IF type = "body" THEN body ELSE 0 IN
  [announced |-> announced,
   written |-> IF type # "body" THEN 0 ELSE IF announced <= body THEN announced ELSE body,
   body |-> body]

-----------------------------------------------------------------------------
Init == s = <<>> /\ t = <<>> /\ accept = <<>>
GrowS(c) ==
  /\ accept = <<>> /\ t = <<>> /\ Len(s) < MaxLength /\ s' = Append(s, c)
  /\ UNCHANGED <<t, accept>>
GrowT(c) ==
  /\ accept = <<>> /\ Len(t) < MaxShort /\ Len(s) <= MaxShort /\ t' = Append(t, c)
  /\ UNCHANGED <<s, accept>>
GrowAccept(e) ==
  s = <<>> /\ t = <<>> /\ Len(accept) < MaxEntries /\ accept' = Append(accept, e) /\ UNCHANGED <<s, t>>
Next ==
  \/ \E c \in Alphabet : GrowS(c) \/ GrowT(c)
  \/ \E e \in [name : Encodings, q : Qs] : GrowAccept(e)
Spec == Init /\ [][Next]_vars

Plain(x) == Range(x) \cap {"/", "%", "+", " ", "@"} = {}

(***************************************************************************)
(* decode() undoes encode(), whose result can be a path token or a part of *)
(* a query; a query of pairs with keys survives both ways, whatever        *)
(* separators the keys and values contain; and decode() fails exactly on a *)
(* '%' that two hex digits do not follow.                                  *)
(***************************************************************************)
EncodingSafe ==
  /\ decode(encode(s)) = s /\ Range(encode(s)) \cap {"/", "&", "=", "+", " "} = {}
  /\ s # <<>> => QueryDecode(QueryEncode(<<<<s, t>>>>)) = {<<s, t>>}
  /\ s # <<>> /\ t # <<>> /\ s # t =>
       QueryDecode(QueryEncode(<<<<s, t>>, <<t, s>>>>)) = {<<s, t>>, <<t, s>>}

(***************************************************************************)
(* A PID and the path of a message to it are read back as they were        *)
(* written, for an id without the characters that the writer leaves as     *)
(* they are; the name may hold any.  A URL is read back too, and each text *)
(* with more than one port is refused.                                     *)
(***************************************************************************)
AddressSafe ==
  /\ Plain(s) => PidParse(PidText(s, <<"a">>, <<"2">>)) = [id |-> s, ip |-> <<"a">>, port |-> <<"2">>]
  /\ Plain(s) /\ s # <<>> => MessageParse(MessagePath(s, t)) = [to |-> s, name |-> t]
  /\ LET u == UrlParse(s) IN u # Error => UrlParse(UrlText([u EXCEPT !.port = <<"2">>])) = [u EXCEPT !.port = <<"2">>]
  /\ LET x == <<"a", ":", "2">> \o s IN
     UrlParse(x) # Error =>
       \A i, j \in 1..Len(SplitOnce(x, "/")[1]) :
         i < j /\ x[i] = "2" /\ x[j] = "2" => \A k \in i..j : x[k] # ":"

Sizes == 0..4

(***************************************************************************)
(* An encoding is accepted by the rules of RFC 2616 that the code quotes:  *)
(* listed without a q-value of 0, or else matched by '*' without one, and  *)
(* a media type likewise, the specific before the wildcard; and a response *)
(* whose length was not given announces what it writes.                    *)
(***************************************************************************)
NegotiationSafe ==
  /\ LET Of(c) == {i \in 1..Len(accept) : accept[i].name = c} IN
     /\ (\A i \in Of("gzip") : Accepts(accept[i])) /\ Of("gzip") # {} => acceptsEncoding(accept, "gzip")
     /\ (\A i \in Of("gzip") : ~Accepts(accept[i])) /\ Of("gzip") # {} => ~acceptsEncoding(accept, "gzip")
     /\ Of("gzip") = {} => (acceptsEncoding(accept, "gzip") <=>
          Of("*") # {} /\ Accepts(accept[CHOOSE i \in Of("*") : \A j \in Of("*") : i <= j]))
     /\ acceptsMediaType(FALSE, accept)
     /\ Of("gzip") \cup Of("br") = {} =>
          (acceptsMediaType(TRUE, accept) <=> acceptsEncoding(accept, "gzip"))
     /\ (\A i \in Of("gzip") : ~Accepts(accept[i])) /\ Of("gzip") # {} => ~acceptsMediaType(TRUE, accept)
  /\ \A n \in Sizes, gzip \in BOOLEAN, type \in {"body", "none"} :
       LET r == ResponseLength(type, n, Error, gzip) IN r.announced = r.written
  /\ \A n, given \in Sizes, gzip \in BOOLEAN :
       LET r == ResponseLength("body", n, given, gzip) IN
       r.written <= r.announced /\ (given <= n \/ gzip => r.written = r.announced \/ n < Minimum)

(***************************************************************************)
(* What the library writes it reads back: percent encoding, queries, PIDs, *)
(* message paths and URLs; and it answers in an encoding, a media type and *)
(* a length that the request and the response agree on.                    *)
(***************************************************************************)
TextSafe == EncodingSafe /\ AddressSafe /\ NegotiationSafe
=============================================================================

------------------------------ MODULE Decoder ------------------------------
(***************************************************************************)
(* The four decoders of src/decoder.hpp: DataDecoder, ResponseDecoder and  *)
(* their streaming variants, chosen by `request' and `streaming'.  The     *)
(* http_parser library is external: Parser steps call the callbacks in the *)
(* order of its grammar, with the url, the fields, the values and the body *)
(* cut into fragments at will, and stop at a callback that fails (a        *)
(* failing on_headers_complete makes it skip the body).  `wire' is what    *)
(* the parser read so far of the message, to compare the result with.      *)
(* Not modelled: trailers of the non-streaming decoders, which take them   *)
(* as headers; the Content-Length they write after they decompressed; and  *)
(* bodies that decompress to more than 127 bytes, at which a CHECK_LE of   *)
(* theirs fails.                                                           *)
(***************************************************************************)
EXTENDS Naturals, Sequences, SequencesExt

CONSTANTS MaxMessages, MaxHeaders, MaxPieces, None

VARIABLES
  request, streaming,  \* which decoder
  phase,      \* the callback the parser made last
  error,      \* has a callback failed?  the parser does nothing after that
  pieces,     \* fragments in the current url, field, value or body
  wire,       \* [url, headers, body, status, gzip]: the message being read
  header,     \* HEADER_FIELD or HEADER_VALUE
  field, value, url,  \* what is collected
  message,    \* decoder->request or decoder->response: [headers, body], or None
  failure,
  writer,     \* does the decoder hold the writer of the last pipe?
  decompressor,
  begun,      \* the messages that began
  decoded,    \* the message pushed to `requests' or `responses', or None
  pipe,       \* [state, body] of its pipe
  aborted, deleted

vars == <<request, streaming, phase, error, pieces, wire, header, field, value, url,
          message, failure, writer, decompressor, begun, decoded, pipe, aborted, deleted>>
fixed == <<request, streaming>>
collected == <<header, field, value, url>>

Letters == {"a", "e"}
NoPipe == [state |-> "none", body |-> <<>>]
Empty == [url |-> <<>>, headers |-> <<>>, body |-> <<>>, bad |-> FALSE]

Init ==
  /\ request \in BOOLEAN /\ streaming \in BOOLEAN
  /\ phase = "idle" /\ error = FALSE /\ pieces = 0 /\ wire = Empty
  /\ header = "field" /\ field = <<>> /\ value = <<>> /\ url = <<>> /\ message = None
  /\ failure = FALSE /\ writer = FALSE /\ decompressor = FALSE /\ begun = 0
  /\ decoded = None /\ pipe = NoPipe /\ aborted = FALSE /\ deleted = FALSE

\* The headers as a map: a later one of a name replaces the one before.
Put(h, k, v) == [x \in DOMAIN h \cup {k} |-> IF x = k THEN v ELSE h[x]]
Truth(pairs) ==
  LET Final(k) == CHOOSE i \in 1..Len(pairs) : pairs[i][1] = k
                   /\ \A j \in 1..Len(pairs) : pairs[j][1] = k => j <= i IN
  [k \in {pairs[i][1] : i \in 1..Len(pairs)} |-> pairs[Final(k)][2]]
Gzip(h) == <<"e">> \in DOMAIN h /\ h[<<"e">>] = <<"e">>

Parses == ~error /\ ~deleted
Piece(first) == pieces' = IF first THEN 1 ELSE pieces + 1

on_message_begin ==
  /\ Parses /\ phase = "idle" /\ begun < MaxMessages /\ begun' = begun + 1
  /\ phase' = "begin" /\ pieces' = 0 /\ wire' = Empty
  /\ aborted' = (aborted \/ failure \/ message # None \/ writer \/ pipe.state = "open")
  /\ header' = "field" /\ field' = <<>> /\ value' = <<>> /\ url' = <<>>
  /\ message' = [headers |-> <<>>, body |-> <<>>] /\ decompressor' = FALSE
  /\ decoded' = None /\ pipe' = NoPipe
  /\ UNCHANGED <<fixed, error, failure, writer, deleted>>

\* A request has a url; "bad" is one that does not parse or has a malformed query.
on_url(c) ==
  /\ Parses /\ request /\ phase \in {"begin", "url"} /\ (phase = "url" => pieces < MaxPieces)
  /\ phase' = "url" /\ Piece(phase = "begin") /\ url' = Append(url, c)
  /\ wire' = [wire EXCEPT !.url = Append(@, c)]
  /\ UNCHANGED <<fixed, error, header, field, value, message, failure, writer,
                 decompressor, begun, decoded, pipe, aborted, deleted>>

\* MUTANT: the fragments of a field are not told from a new field.
on_header_field_new(c) ==
  /\ Parses
  /\ \/ phase = IF request THEN "url" ELSE "begin"
     \/ phase = "value" /\ Len(wire.headers) < MaxHeaders
     \/ phase = "field" /\ pieces < MaxPieces
  /\ phase' = "field" /\ Piece(phase # "field")
  /\ wire' = [wire EXCEPT !.headers =
       IF phase = "field"
       THEN [@ EXCEPT ![Len(@)][1] = Append(@, c)] ELSE Append(@, <<<<c>>, <<>>>>)]
  /\ message' = IF phase = "value"
                THEN [message EXCEPT !.headers = Put(@, field, value)] ELSE message
  /\ field' = <<c>>
  /\ value' = IF header # "field" THEN <<>> ELSE value
  /\ header' = "field"
  /\ UNCHANGED <<fixed, error, url, failure, writer, decompressor, begun, decoded, pipe,
                 aborted, deleted>>

\* A fragment of a field: after a value it begins a new header.
on_header_field(c) ==
  /\ Parses
  /\ \/ phase = IF request THEN "url" ELSE "begin"
     \/ phase = "value" /\ Len(wire.headers) < MaxHeaders
     \/ phase = "field" /\ pieces < MaxPieces
  /\ phase' = "field" /\ Piece(phase # "field")
  /\ wire' = [wire EXCEPT !.headers =
       IF phase = "field"
       THEN [@ EXCEPT ![Len(@)][1] = Append(@, c)] ELSE Append(@, <<<<c>>, <<>>>>)]
  /\ message' = IF header # "field"
                THEN [message EXCEPT !.headers = Put(@, field, value)] ELSE message
  /\ field' = Append(IF header # "field" THEN <<>> ELSE field, c)
  /\ value' = IF header # "field" THEN <<>> ELSE value
  /\ header' = "field"
  /\ UNCHANGED <<fixed, error, url, failure, writer, decompressor, begun, decoded, pipe,
                 aborted, deleted>>

\* A fragment of a value, which may be empty.
on_header_value(c) ==
  /\ Parses /\ phase \in {"field", "value"} /\ (phase = "value" => pieces < MaxPieces)
  /\ phase' = "value" /\ Piece(phase = "field")
  /\ wire' = [wire EXCEPT !.headers[Len(wire.headers)][2] = @ \o c]
  /\ value' = value \o c /\ header' = "value"
  /\ UNCHANGED <<fixed, error, field, url, message, failure, writer, decompressor, begun,
                 decoded, pipe, aborted, deleted>>

Fails == failure' = TRUE /\ UNCHANGED <<decoded, pipe, writer>>

\* Push the message; a streaming decoder keeps the writer of its pipe.
Push(m, open) ==
  /\ decoded' = [message |-> m, wire |-> wire]
  /\ pipe' = [state |-> IF open THEN "open" ELSE "none", body |-> <<>>]
  /\ writer' = open
  /\ UNCHANGED failure

\* A trailer, at which the streaming decoders fail.
Trailer ==
  /\ Parses /\ phase = "body" /\ streaming /\ error' = TRUE
  /\ UNCHANGED <<fixed, phase, pieces, wire, collected, message, failure, writer,
                 decompressor, begun, decoded, pipe, aborted, deleted>>

\* The non-streaming decoders go on to the body.
HeadersCollected(m) ==
  /\ message' = m /\ phase' = "body"
  /\ UNCHANGED <<failure, writer, decompressor, decoded, pipe>>

\* The streaming response decoder rejects a bad status and a compressed body.
ResponseHeaders(m, bad) ==
  IF bad \/ Gzip(m.headers)
  THEN Fails /\ message' = m /\ phase' = "skip" /\ UNCHANGED decompressor
  ELSE Push(m, TRUE) /\ message' = None /\ phase' = "body" /\ UNCHANGED decompressor

\* The streaming request decoder rejects a bad url or query; it decompresses.
RequestHeaders(m, bad) ==
  IF bad
  THEN Fails /\ message' = m /\ phase' = "skip" /\ UNCHANGED decompressor
  ELSE Push(m, TRUE) /\ message' = None /\ phase' = "body" /\ decompressor' = Gzip(m.headers)

\* The final header is added; a streaming decoder hands out the message now.
on_headers_complete(bad) ==
  LET m == [message EXCEPT !.headers = Put(@, field, value)] IN
  /\ Parses /\ phase \in {"value", IF request THEN "url" ELSE "begin"}
  /\ aborted' = (aborted \/ message = None \/ (streaming /\ writer))
  /\ wire' = [wire EXCEPT !.bad = bad]
  /\ field' = <<>> /\ value' = <<>> /\ pieces' = 0
  /\ IF ~streaming THEN HeadersCollected(m)
     ELSE IF request THEN RequestHeaders(m, bad) ELSE ResponseHeaders(m, bad)
  /\ UNCHANGED <<fixed, error, header, url, begun, deleted>>

BodyCollected(c) ==
  /\ message' = [message EXCEPT !.body = Append(@, c)]
  /\ UNCHANGED <<failure, error, pipe, aborted>>

\* The pipe gets the fragment, decompressed if the request is.
BodyStreamed(c) ==
  /\ aborted' = (aborted \/ ~writer) /\ UNCHANGED message
  /\ IF decompressor /\ c = "corrupt"
     THEN failure' = TRUE /\ error' = TRUE /\ UNCHANGED pipe
     ELSE pipe' = [pipe EXCEPT !.body = Append(@, c)] /\ UNCHANGED <<failure, error>>

\* A fragment of the body; "corrupt" does not decompress, "end" ends the gzip stream.
on_body(c) ==
  /\ Parses /\ phase = "body" /\ pieces < MaxPieces /\ Piece(FALSE)
  /\ wire' = [wire EXCEPT !.body = Append(@, c)]
  /\ IF streaming THEN BodyStreamed(c) ELSE BodyCollected(c)
  /\ UNCHANGED <<fixed, phase, collected, writer, decompressor, begun, decoded, deleted>>

Whole(body) == Contains(body, "end") /\ ~Contains(body, "corrupt")
End(state) == pipe' = [pipe EXCEPT !.state = state]

\* MUTANT: a body whose gzip stream is cut off ends like a whole one.
CompleteStreaming_cut ==
  /\ UNCHANGED <<message, decoded>>
  /\ IF ~writer
     THEN aborted' = (aborted \/ ~failure) /\ error' = TRUE /\ UNCHANGED <<failure, writer, pipe>>
     ELSE End("closed") /\ writer' = FALSE /\ UNCHANGED <<failure, error, aborted>>

\* The streaming on_message_complete closes the pipe of a whole body.
CompleteStreaming ==
  /\ UNCHANGED <<message, decoded>>
  /\ IF ~writer
     THEN aborted' = (aborted \/ ~failure) /\ error' = TRUE /\ UNCHANGED <<failure, writer, pipe>>
     ELSE IF decompressor /\ ~Contains(pipe.body, "end")
     THEN End("failed") /\ failure' = TRUE /\ error' = TRUE /\ UNCHANGED <<writer, aborted>>
     ELSE End("closed") /\ writer' = FALSE /\ UNCHANGED <<failure, error, aborted>>

\* The others push the message here: its body decompresses, and the url and the
\* query of a request parse ...
CompleteRequest ==
  /\ aborted' = (aborted \/ message = None)
  /\ IF wire.bad \/ (Gzip(message.headers) /\ ~Whole(message.body))
     THEN Fails /\ error' = TRUE /\ UNCHANGED message
     ELSE Push(message, FALSE) /\ message' = None /\ UNCHANGED error

\* ... or the status of a response is a valid one.
CompleteResponse ==
  /\ aborted' = (aborted \/ message = None)
  /\ IF wire.bad \/ (Gzip(message.headers) /\ ~Whole(message.body))
     THEN Fails /\ error' = TRUE /\ UNCHANGED message
     ELSE Push(message, FALSE) /\ message' = None /\ UNCHANGED error

on_message_complete ==
  /\ Parses /\ phase \in {"body", "skip"} /\ phase' = "idle"
  /\ IF streaming THEN CompleteStreaming
     ELSE IF request THEN CompleteRequest ELSE CompleteResponse
  /\ UNCHANGED <<fixed, pieces, wire, collected, decompressor, begun, deleted>>

\* decode() returns: where the parser stopped early the decoder has failed, and so
\* does the pipe.  The parser may also stop at the very end of the data.
DecodeFails ==
  /\ error /\ ~deleted /\ (writer \/ ~failure) /\ failure' = TRUE
  /\ pipe' = [pipe EXCEPT !.state = IF writer /\ @ = "open" THEN "failed" ELSE @]
  /\ writer' = FALSE
  /\ UNCHANGED <<fixed, phase, error, pieces, wire, collected, message, decompressor,
                 begun, decoded, aborted, deleted>>

\* The parser rejects the data by itself.
ParseError ==
  /\ Parses /\ error' = TRUE
  /\ UNCHANGED <<fixed, phase, pieces, wire, collected, message, failure, writer,
                 decompressor, begun, decoded, pipe, aborted, deleted>>

\* MUTANT: the destructor leaves the pipe open.
Destroy_open ==
  /\ ~deleted /\ deleted' = TRUE /\ message' = None /\ UNCHANGED pipe
  /\ writer' = FALSE
  /\ UNCHANGED <<fixed, phase, error, pieces, wire, collected, failure, decompressor,
                 begun, decoded, aborted>>

\* The destructor fails the pipe that is still written.
Destroy ==
  /\ ~deleted /\ deleted' = TRUE /\ message' = None
  /\ pipe' = [pipe EXCEPT !.state = IF writer /\ @ = "open" THEN "failed" ELSE @]
  /\ writer' = FALSE
  /\ UNCHANGED <<fixed, phase, error, pieces, wire, collected, failure, decompressor,
                 begun, decoded, aborted>>

Next ==
  \/ on_message_begin \/ on_message_complete \/ Trailer \/ DecodeFails \/ ParseError
  \/ Destroy
  \/ on_url("a") \/ \E c \in Letters : on_header_field(c)
  \/ \E c \in {<<>>, <<"e">>} : on_header_value(c)
  \/ \E c \in {"x", "end", "corrupt"} : on_body(c)
  \/ \E bad \in BOOLEAN : on_headers_complete(bad)
Spec == Init /\ [][Next]_vars

-----------------------------------------------------------------------------
TypeOK ==
  /\ failure \in BOOLEAN /\ error \in BOOLEAN /\ writer \in BOOLEAN
  /\ begun \in 0..MaxMessages /\ pipe.state \in {"none", "open", "closed", "failed"}
  /\ phase \in {"idle", "begin", "url", "field", "value", "body", "skip"}

\* A message without headers gets the empty one.
Expected(w) == IF w.headers = <<>> THEN [k \in {<<>>} |-> <<>>] ELSE Truth(w.headers)

(***************************************************************************)
(* However the parser cuts the data: the headers of a decoded message are  *)
(* those on the wire, the last of a name; the body of a pipe is the body   *)
(* on the wire; a pipe is closed only when its whole message was read and  *)
(* decompressed, and at most one is open, that of the last message; when   *)
(* the decoder is deleted each pipe is closed or failed, so that no reader *)
(* waits for ever; and no CHECK of a callback fails.                       *)
(***************************************************************************)
DecoderSafe ==
  /\ TypeOK /\ ~aborted
  /\ decoded # None =>
       /\ decoded.message.headers = Expected(decoded.wire) /\ ~decoded.wire.bad
       /\ ~streaming => /\ decoded.message.body = decoded.wire.body
                        /\ Gzip(decoded.message.headers) => Whole(decoded.wire.body)
  /\ pipe.state = "open" => ~deleted /\ writer
  /\ pipe.state = "closed" /\ Gzip(decoded.message.headers) => Whole(pipe.body)
  /\ pipe.state = "open" /\ ~error => pipe.body = wire.body
  /\ deleted \/ (failure /\ ~writer) => pipe.state # "open"
=============================================================================

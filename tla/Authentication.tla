--------------------------- MODULE Authentication ---------------------------
(***************************************************************************)
(* JSON Web Tokens and the two authenticators of the library (src/jwt.cpp, *)
(* src/jwt_authenticator.cpp and src/authenticator.cpp).  A token is the   *)
(* sequence of the components between its dots; a component is <<"b64",    *)
(* text>>, <<"junk">> if it is not base64, or <<"empty">>.  A text is      *)
(* <<"json", object>>, a signature, or <<"text">> for anything else, and   *)
(* an object a function from fields to values with their JSON types.       *)
(***************************************************************************)
EXTENDS Naturals, Sequences

CONSTANTS
  Secret,      \* the secrets that tokens are signed with
  MaxTime,     \* bound on the time, in seconds
  None

VARIABLES
  secret,      \* the authenticator's (a constant of the behaviour)
  now,
  token,       \* what the client has ...
  issue,       \* ... and how it was made: [header, payload, alg, key], or None
  altered,     \* has it been changed since?
  answer       \* what authenticate said last, with the time: [result, at], or None

vars == <<secret, now, token, issue, altered, answer>>

String(x) == <<"string", x>>
Number(x) == <<"number", x>>
Object(fields) == <<"json", fields>>
encode(text) == <<"b64", text>>

\* base64::decode_url_safe
Base64(component) ==
  CASE component[1] = "b64" -> component[2]
    [] component[1] = "empty" -> <<"text">>
    [] component[1] = "junk" -> None

\* decode(): base64, then JSON.
decode(component) ==
  IF component[1] = "b64" /\ component[2][1] = "json" THEN component[2][2] ELSE None

Algs == {"none", "HS256", "RS256"}

\* The algorithm that a header names, or None if it is not valid.
parse_header(component) ==
  LET header == decode(component) IN
  IF /\ header # None
     /\ "typ" \in DOMAIN header => header["typ"][1] = "string"
     /\ "alg" \in DOMAIN header /\ header["alg"][1] = "string" /\ header["alg"][2] \in Algs
     /\ "crit" \notin DOMAIN header
  THEN header["alg"][2] ELSE None

\* MUTANT: a token is refused in the second of its expiration.
parse_payload_early(component, time) ==
  LET payload == decode(component) IN
  IF /\ payload # None
     /\ "exp" \in DOMAIN payload => payload["exp"][1] = "number" /\ payload["exp"][2] > time
  THEN payload ELSE None

parse_payload(component, time) ==
  LET payload == decode(component) IN
  IF /\ payload # None
     /\ "exp" \in DOMAIN payload => payload["exp"][1] = "number" /\ payload["exp"][2] >= time
  THEN payload ELSE None

\* The signatures, as terms that only the same message and key give again.
generate_hmac_sha256(message, key) == <<"hmac", message, key>>
sign_rsa_sha256(message, key) == <<"rsa", message, key>>
verify_rsa_sha256(message, signature, key) == signature = sign_rsa_sha256(message, key)
constantTimeEquals(left, right) == left = right

Invalid == <<"invalid token">>

\* What the three JWT::parse have in common.
Parse(tok, alg, time, valid) ==
  IF \/ Len(tok) # 3 \/ parse_header(tok[1]) = None \/ parse_header(tok[1]) # alg
     \/ parse_payload(tok[2], time) = None \/ ~valid
  THEN Invalid ELSE <<"jwt", decode(tok[1]), parse_payload(tok[2], time)>>

parse_unsecured(tok, time) ==
  Parse(tok, "none", time, Len(tok) = 3 /\ tok[3] = <<"empty">>)

parse_secret(tok, key, time) ==
  Parse(tok, "HS256", time,
        /\ Len(tok) = 3 /\ Base64(tok[3]) # None
        /\ constantTimeEquals(generate_hmac_sha256(<<tok[1], tok[2]>>, key),
                              Base64(tok[3])))

parse_public_key(tok, key, time) ==
  Parse(tok, "RS256", time,
        /\ Len(tok) = 3 /\ Base64(tok[3]) # None
        /\ verify_rsa_sha256(<<tok[1], tok[2]>>, Base64(tok[3]), key))

\* JWT::create: the fields of a JWT; the signature is kept encoded.
create(header, payload, alg, key) ==
  LET message == <<encode(Object(header)), encode(Object(payload))>> IN
  [header |-> header, payload |-> payload,
   signature |-> CASE alg = "none" -> <<"empty">>
                   [] alg = "HS256" -> encode(generate_hmac_sha256(message, key))
                   [] alg = "RS256" -> encode(sign_rsa_sha256(message, key))]

\* operator<< of a JWT.
Stringify(jwt) ==
  <<encode(Object(jwt.header)), encode(Object(jwt.payload)), jwt.signature>>

\* The claims of a principal: strings as they are, other values as their JSON.
Claims(payload) ==
  [f \in DOMAIN payload |-> IF payload[f][1] = "string" THEN payload[f][2]
                            ELSE <<"stringify", payload[f]>>]

\* JWTAuthenticatorProcess::authenticate, of the words of an Authorization header;
\* the HMAC may fail to be computed.
authenticateJWT(words, key, time, hmac) ==
  IF words = <<>> THEN <<"unauthorized">>
  ELSE IF Len(words) # 2 THEN <<"unauthorized">>
  ELSE IF words[1] # "Bearer" THEN <<"unauthorized">>
  ELSE LET jwt == parse_secret(words[2], key, time)
           reached == /\ Len(words[2]) = 3 /\ parse_header(words[2][1]) = "HS256"
                      /\ parse_payload(words[2][2], time) # None
                      /\ Base64(words[2][3]) # None
       IN IF reached /\ ~hmac THEN <<"failed">>
          ELSE IF jwt = Invalid THEN <<"unauthorized">>
          ELSE IF DOMAIN jwt[3] = {} THEN <<"unauthorized">>
          ELSE <<"principal", Claims(jwt[3])>>

\* BasicAuthenticatorProcess::authenticate; the text of the second word is the
\* sequence of its parts between colons.
authenticateBasic(words, credentials) ==
  IF /\ Len(words) = 2 /\ words[1] = "Basic"
     /\ words[2][1] = "b64" /\ Len(words[2][2]) = 2
     /\ words[2][2][1] \in DOMAIN credentials
     /\ credentials[words[2][2][1]] = <<words[2][2][2]>>
  THEN <<"principal", words[2][2][1]>> ELSE <<"unauthorized">>

-----------------------------------------------------------------------------
(* A client gets a token, which may be altered on its way, and uses it     *)

JWTHeader(alg) == [alg |-> String(alg), typ |-> String("JWT")]
Headers == {JWTHeader("none"), JWTHeader("HS256"), JWTHeader("RS256"), JWTHeader("ES256"),
            [alg |-> String("HS256")], [typ |-> String("JWT")], [alg |-> Number(1)],
            [alg |-> String("HS256"), typ |-> Number(1)],
            [alg |-> String("HS256"), crit |-> String("x")]}
Payloads == {<<>>, [sub |-> String("s")], [exp |-> String("s")]}
            \cup {[exp |-> Number(n), sub |-> Number(1)] : n \in 0..MaxTime}

Components == {<<"junk">>, <<"empty">>, encode(<<"text">>)}
              \cup {encode(Object(x)) : x \in Headers \cup Payloads}
              \cup {encode(generate_hmac_sha256(<<token[1], token[2]>>, k)) :
                      k \in Secret \ {secret}}

Init ==
  /\ secret \in Secret /\ now = 0 /\ token = <<>> /\ issue = None
  /\ altered = FALSE /\ answer = None

\* The library only makes the headers of JWTHeader; others may make more.
Issue(header, payload, alg, key) ==
  /\ token = <<>>
  /\ token' = Stringify(create(header, payload, alg, key))
  /\ issue' = [header |-> header, payload |-> payload, alg |-> alg, key |-> key]
  /\ UNCHANGED <<secret, now, altered, answer>>

Alter ==
  /\ Len(token) = 3 /\ ~altered
  /\ \/ \E i \in 1..3, c \in Components : token' = [token EXCEPT ![i] = c]
     \/ token' = SubSeq(token, 1, 2)
     \/ token' = Append(token, <<"empty">>)
  /\ altered' = (token' # token)
  /\ UNCHANGED <<secret, now, issue, answer>>

Tick == now < MaxTime /\ now' = now + 1 /\ UNCHANGED <<secret, token, issue, altered, answer>>

authenticate(hmac) ==
  /\ token # <<>>
  /\ answer' = [result |-> authenticateJWT(<<"Bearer", token>>, secret, now, hmac),
                at |-> now, hmac |-> hmac]
  /\ UNCHANGED <<secret, now, token, issue, altered>>

Next ==
  \/ \E h \in Headers, p \in Payloads, a \in Algs, k \in Secret : Issue(h, p, a, k)
  \/ Alter \/ Tick \/ (\E hmac \in BOOLEAN : authenticate(hmac))
Spec == Init /\ [][Next]_vars

-----------------------------------------------------------------------------
\* A token that the authenticator has to accept at a time.
Good(time) ==
  /\ ~altered /\ issue.alg = "HS256" /\ issue.key = secret
  /\ "alg" \in DOMAIN issue.header /\ issue.header["alg"] = String("HS256")
  /\ "typ" \in DOMAIN issue.header => issue.header["typ"] = String("JWT")
  /\ "crit" \notin DOMAIN issue.header /\ DOMAIN issue.payload # {}
  /\ "exp" \in DOMAIN issue.payload => \E n \in time..MaxTime : issue.payload["exp"] = Number(n)

(***************************************************************************)
(* A request is authenticated exactly if its token was signed with the     *)
(* authenticator's secret and HS256, is as it was issued, has claims and   *)
(* has not expired, and the principal has those claims; else it is         *)
(* unauthorized, and a failure only if the HMAC failed.  What create and   *)
(* operator<< write, parse reads with the same key and algorithm, and with *)
(* no other.  A user authenticates with the password given to the          *)
(* authenticator, if that can be told from the user's name.                *)
(***************************************************************************)
TokenSafe ==
  answer # None /\ ~altered =>
    LET result == answer.result IN
    /\ result[1] = "failed" => ~answer.hmac
    /\ answer.hmac => result[1] = (IF Good(answer.at) THEN "principal" ELSE "unauthorized")
    /\ result[1] = "principal" => DOMAIN result[2] = DOMAIN issue.payload
AlteredSafe ==
  altered /\ token # <<>> => parse_secret(token, secret, now) = Invalid

\* Each of the three parsers reads the tokens made for it.
RoundTrip ==
  issue # None /\ ~altered /\ issue.header = JWTHeader(issue.alg) =>
    LET fresh == parse_payload(token[2], now) # None
        jwt == <<"jwt", issue.header, issue.payload>>
    IN
    /\ (parse_unsecured(token, now) = jwt) = (fresh /\ issue.alg = "none")
    /\ \A k \in Secret :
         /\ (parse_secret(token, k, now) = jwt) = (fresh /\ issue.alg = "HS256" /\ k = issue.key)
         /\ (parse_public_key(token, k, now) = jwt) =
              (fresh /\ issue.alg = "RS256" /\ k = issue.key)

BasicSafe ==
  \A user, password \in {"u", "v"}, given \in {<<"u">>, <<"v">>, <<"u", "v">>} :
    LET credentials == [x \in {"u"} |-> given] IN
    (authenticateBasic(<<"Basic", <<"b64", <<user, password>>>>>>, credentials)[1] = "principal")
      = (user = "u" /\ given = <<password>>)

Safe == TokenSafe /\ AlteredSafe /\ RoundTrip /\ BasicSafe
=============================================================================

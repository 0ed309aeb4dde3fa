-------------------------------- MODULE TLS --------------------------------
(***************************************************************************)
(* The TLS policy of libprocess: the flags read from the environment, the  *)
(* context made from them, how a connection's SSL object is configured     *)
(* before the handshake, and `verify', which decides after the handshake.  *)
(*                                                                         *)
(* The handshake itself is OpenSSL's: it fails if the configured checks    *)
(* do, and reports the outcome of the chain verification otherwise.        *)
(* Certificates are abstract: is there one, does its chain verify, which   *)
(* names does it carry.  Lookups of names are answers of the environment.  *)
(***************************************************************************)
EXTENDS Naturals, Sequences, SequencesExt

CONSTANTS MaxLoads   \* bound on the calls of reinitialize()

VARIABLES
  flags,      \* ssl_flags
  ctx,        \* the SSL_CTX: "null", or what it was given
  exited,     \* EXIT(EXIT_FAILURE)
  loads,
  stage,      \* of the connection: "none", "configured", "shaken", "open", "refused"
  peer,       \* [mode, hostname, address, lookup, cert] of the connection
  ssl,        \* its SSL object: [verify, check]
  held        \* references to the peer's certificate that verify holds

vars == <<flags, ctx, exited, loads, stage, peer, ssl, held>>
connection == <<stage, peer, ssl, held>>

Null == [present |-> FALSE, paths |-> "none", protocols |-> {}]

-----------------------------------------------------------------------------
(* Flags                                                                   *)

\* The flags that decide something, and their defaults.
Defaults ==
  [enabled |-> FALSE, key |-> FALSE, cert |-> FALSE, ca |-> FALSE,
   verify_cert |-> FALSE, require_cert |-> FALSE, verify_ipadd |-> FALSE,
   scheme |-> "legacy", tls_v1_2 |-> TRUE, tls_v1_3 |-> FALSE]

\* Two settings of a flag, each {} or {value}: with the prefix LIBPROCESS_SSL_
\* and, deprecated, SSL_.  `insert' keeps what is there, so the former wins.
Setting(new, old, default) ==
  CHOOSE v \in IF new # {} THEN new ELSE IF old # {} THEN old ELSE {default} : TRUE

\* The environments considered: every setting of what verification depends on,
\* of which verify_cert is given with both prefixes.
On == {{}, {TRUE}}
Environments ==
  [enabled : On, key : On, ca : On, verify_cert : On \cup {{FALSE}},
   SSL_verify_cert : On, require_cert : On, verify_ipadd : On,
   scheme : {{}, {"legacy"}, {"openssl"}, {"other"}}, tls_v1_3 : On]
Load(e) ==
  [Defaults EXCEPT
     !.enabled = Setting(e.enabled, {}, @), !.key = Setting(e.key, {}, @),
     !.cert = Setting(e.key, {}, @), !.ca = Setting(e.ca, {}, @),
     !.verify_cert = Setting(e.verify_cert, e.SSL_verify_cert, @),
     !.require_cert = Setting(e.require_cert, {}, @),
     !.verify_ipadd = Setting(e.verify_ipadd, {}, @),
     !.scheme = Setting(e.scheme, {}, @), !.tls_v1_3 = Setting(e.tls_v1_3, {}, @)]

\* require_cert implies verify_cert.
Implied(f) == [f EXCEPT !.verify_cert = @ \/ f.require_cert]
Invalid(f) == ~f.key \/ ~f.cert \/ f.scheme \notin {"legacy", "openssl"}

\* SSL_CTX_set_options only adds, and the options were cleared.
Options(f) == {p \in {"TLSv1.2", "TLSv1.3"} :
                 (p = "TLSv1.2" /\ ~f.tls_v1_2) \/ (p = "TLSv1.3" /\ ~f.tls_v1_3)}
Paths(f) == IF ~f.verify_cert THEN "none" ELSE IF f.ca THEN "ca" ELSE "default"
Context(f) ==
  [present |-> TRUE, paths |-> Paths(f),
   protocols |-> {"TLSv1.2", "TLSv1.3"} \ Options(f)]

NoPeer == [mode |-> "CLIENT", hostname |-> "none", address |-> "unix",
           lookup |-> "error", cert |-> [given |-> FALSE]]
Init ==
  /\ flags = Defaults /\ ctx = Null /\ exited = FALSE /\ loads = 0
  /\ stage = "none" /\ peer = NoPeer /\ ssl = [verify |-> "none", check |-> "none"]
  /\ held = 0

\* Not while there are connections: the settings may not change under them.
\* OpenSSL may refuse the files, the ciphers or the curves.
reinitialize ==
  /\ stage = "none" /\ ~exited /\ loads < MaxLoads
  /\ loads' = loads + 1
  /\ \E e \in Environments, refused \in BOOLEAN :
       LET f == Load(e) IN
       IF ~f.enabled THEN flags' = f /\ UNCHANGED <<ctx, exited>>
       ELSE /\ flags' = Implied(f)
            /\ exited' = (Invalid(f) \/ refused)
            /\ ctx' = IF exited' THEN Null ELSE Context(Implied(f))
  /\ UNCHANGED connection

-----------------------------------------------------------------------------
(* Before the handshake                                                    *)

Names == {<<"dns", "host">>, <<"dns", "other">>, <<"dns", "malformed">>,
          <<"ip", "ours">>}
Certificates ==
  {[given |-> FALSE]} \cup
  [given : {TRUE}, chain : BOOLEAN, san : SeqOf(Names, 2), cn : {"none", "host", "other"}]

\* The hostname is "host", the address is that of the peer.  `lookup' is what
\* the reverse lookup of the address gives.
Peers ==
  [mode : {"CLIENT"}, hostname : {"none", "host"}, address : {"inet", "unix"},
   lookup : {"host", "other", "error"}, cert : Certificates] \cup
  [mode : {"SERVER"}, hostname : {"none"}, address : {"inet"},
   lookup : {"host", "other", "error"}, cert : Certificates]

\* MUTANT: clients never ask OpenSSL to verify the peer.
VerifyMode_server(mode) ==
  IF mode = "SERVER" /\ flags.require_cert THEN "peer, required" ELSE "none"
\* The mode OpenSSL verifies the peer in during the handshake.
VerifyMode(mode) ==
  IF mode = "CLIENT" /\ flags.verify_cert THEN "peer"
  ELSE IF mode = "SERVER" /\ flags.require_cert THEN "peer, required"
  ELSE "none"

\* The name OpenSSL is to check during the handshake; "error" refuses.
CheckedName(p) ==
  IF flags.scheme # "openssl" \/ p.mode = "SERVER" \/ ~flags.verify_cert THEN "none"
  ELSE IF p.hostname # "none" THEN "host"
  ELSE IF ~flags.verify_ipadd \/ p.address # "inet" THEN "error"
  ELSE "ip"

configure_socket ==
  /\ stage = "none" /\ ctx.present /\ flags.enabled /\ ~exited
  /\ \E p \in Peers :
       /\ peer' = p
       /\ ssl' = [verify |-> VerifyMode(p.mode), check |-> CheckedName(p)]
       /\ stage' = IF CheckedName(p) = "error" THEN "refused" ELSE "configured"
  /\ UNCHANGED <<flags, ctx, exited, loads, held>>

\* OpenSSL: does the certificate carry the name?  The common name counts only
\* without dNSNames.
Carries(cert, check) ==
  CASE check = "none" -> TRUE
    [] check = "ip" -> Contains(cert.san, <<"ip", "ours">>)
    [] check = "host" ->
         \/ Contains(cert.san, <<"dns", "host">>)
         \/ cert.cn = "host" /\ \A i \in DOMAIN cert.san : cert.san[i][1] # "dns"

\* OpenSSL's handshake with the peer; verify_callback agrees with its verdict.
Handshake ==
  /\ stage = "configured"
  /\ LET c == peer.cert
         verdict == ssl.verify = "none" \/ (c.given /\ c.chain /\ Carries(c, ssl.check))
                    \/ (~c.given /\ ssl.verify = "peer")   \* an anonymous cipher
     IN stage' = IF verdict THEN "shaken" ELSE "refused"
  /\ UNCHANGED <<flags, ctx, exited, loads, peer, ssl, held>>

-----------------------------------------------------------------------------
(* After the handshake: verify(ssl, mode, hostname, ip).  A result is      *)
(* "nothing" or "error"; X509_free on the way is in Frees.                 *)

PeerHostname(p) ==
  IF p.address = "inet" /\ p.lookup # "error" THEN p.lookup ELSE p.hostname

\* The first alternative name that settles it.
Settles(p, n) ==
  \/ n[1] = "dns" /\ PeerHostname(p) # "none" /\ n[2] \in {PeerHostname(p), "malformed"}
  \/ n = <<"ip", "ours">> /\ flags.verify_ipadd /\ p.address = "inet"
SanResult(p) ==
  LET settling == SelectSeq(p.cert.san, LAMBDA n : Settles(p, n)) IN
  IF settling = <<>> THEN "none"
  ELSE IF settling[1][2] = "malformed" THEN "error" ELSE "nothing"
CommonName(p) ==
  IF PeerHostname(p) # "none" /\ p.cert.cn = PeerHostname(p) THEN "nothing" ELSE "error"

Skipped(p) == (p.mode = "CLIENT" /\ ~flags.verify_cert)
              \/ (p.mode = "SERVER" /\ ~flags.require_cert)
\* MUTANT: with the openssl scheme the result of the handshake is not looked at.
VerifyResult_first(p) ==
  IF Skipped(p) THEN "nothing"
  ELSE IF flags.scheme = "openssl" THEN "nothing"
  ELSE IF ~p.cert.given \/ ~p.cert.chain THEN "error"
  ELSE IF ~flags.verify_ipadd /\ PeerHostname(p) = "none"
       THEN IF flags.require_cert THEN "error" ELSE "nothing"
  ELSE IF SanResult(p) # "none" THEN SanResult(p)
  ELSE CommonName(p)
\* verify, after the handshake.
VerifyResult(p) ==
  IF Skipped(p) THEN "nothing"
  ELSE IF ~p.cert.given THEN "error"
  ELSE IF ~p.cert.chain THEN "error"
  ELSE IF flags.scheme = "openssl" THEN "nothing"
  ELSE IF ~flags.verify_ipadd /\ PeerHostname(p) = "none"
       THEN IF flags.require_cert THEN "error" ELSE "nothing"
  ELSE IF SanResult(p) # "none" THEN SanResult(p)
  ELSE CommonName(p)

\* The certificate is freed on every return but that of the openssl scheme.
Taken(p) == ~Skipped(p) /\ p.cert.given
Frees(p) == Taken(p) /\ (~p.cert.chain \/ flags.scheme # "openssl")
verify ==
  /\ stage = "shaken"
  /\ stage' = IF VerifyResult(peer) = "nothing" THEN "open" ELSE "refused"
  /\ held' = IF Taken(peer) /\ ~Frees(peer) THEN 1 ELSE 0
  /\ UNCHANGED <<flags, ctx, exited, loads, peer, ssl>>

Next == reinitialize \/ configure_socket \/ Handshake \/ verify
Spec == Init /\ [][Next]_vars

-----------------------------------------------------------------------------
TypeOK ==
  /\ stage \in {"none", "configured", "shaken", "open", "refused"} /\ held \in 0..1
  /\ loads \in 0..MaxLoads /\ exited \in BOOLEAN
  /\ ctx = Null \/ ctx.present

\* The peer was identified: by the name the handshake checked, or by the name
\* or address `verify' found in the certificate.
Identified(p) ==
  LET c == p.cert  h == PeerHostname(p) IN
  IF flags.scheme = "openssl" THEN p.mode = "SERVER" \/ Carries(c, CheckedName(p))
  ELSE \/ h # "none" /\ (Contains(c.san, <<"dns", h>>) \/ c.cn = h)
       \/ flags.verify_ipadd /\ p.address = "inet" /\ Contains(c.san, <<"ip", "ours">>)

(***************************************************************************)
(* A connection that verification was asked for is open only if the peer   *)
(* gave a certificate, its chain verified and it identifies the peer, with *)
(* one exception: the legacy scheme, in client mode, when no name of the   *)
(* peer is known and addresses are not verified (a client certificate is   *)
(* then required of no one).  The context of an enabled configuration is   *)
(* the one of the flags loaded last, nothing of an earlier one is left in  *)
(* it, and CA paths are there whenever certificates are verified.          *)
(***************************************************************************)
Safe ==
  /\ TypeOK
  /\ stage = "open" =>
       /\ peer.mode = "CLIENT" /\ (flags.verify_cert \/ flags.require_cert) =>
            /\ peer.cert.given /\ peer.cert.chain
            /\ \/ Identified(peer)
               \/ flags.scheme = "legacy" /\ PeerHostname(peer) = "none"
                    /\ ~flags.verify_ipadd /\ ~flags.require_cert
       /\ peer.mode = "SERVER" /\ flags.require_cert =>
            peer.cert.given /\ peer.cert.chain /\ Identified(peer)
  /\ flags.enabled /\ ~exited /\ loads > 0 =>
       /\ ctx = Context(flags) /\ (flags.require_cert => flags.verify_cert)
       /\ flags.verify_cert => ctx.paths # "none"
  /\ stage \in {"open", "refused"} /\ flags.scheme = "legacy" => held = 0
=============================================================================

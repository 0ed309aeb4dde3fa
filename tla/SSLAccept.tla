----------------------------- MODULE SSLAccept -----------------------------
(***************************************************************************)
(* The listening half of LibeventSSLSocketImpl: from the connection that   *)
(* libevent reports to the socket that accept() returns, through the peek  *)
(* that tells TLS from plain traffic when downgrades are supported, and    *)
(* the handshake.  All callbacks run in the event loop; accept(), discards *)
(* and the destruction of the socket come from other threads.              *)
(***************************************************************************)
EXTENDS Naturals, Sequences, SequencesExt, FiniteSets

CONSTANTS
  Connection,    \* the connections that may arrive
  MaxAccepts     \* bound on the calls of accept()

VARIABLES
  support_downgrade,   \* a flag (a constant of the behaviour)
  hello,      \* hello[c]: what the peer sends first (a constant of the behaviour)
  listener,   \* "null", "listening" or "freed"
  impl,       \* the listening socket: "alive", "destructed", or its event loop
              \* handle is "deleted"
  request,    \* request[c]: its AcceptRequest, "none", "peek", "handshake", "deleted"
  socket,     \* socket[c]: "none", "open", "closed", or owned by an "SSL" or
              \* "POLL" socket
  tls,        \* tls[c]: its SSL object and bufferevent, "none", "made", "freed"
  promise,    \* promise[c]: "pending", "SSL", "POLL" or "failed"
  verified,   \* the connections whose handshake verify() let pass
  queue,      \* accept_queue: its elements ...
  gets,       \* ... and the accepts waiting for one
  accepted    \* accepted[n]: what the n-th accept() returned: "pending",
              \* "asked" to discard, "discarded", the connection, or the
              \* connection that was "dropped"

vars == <<support_downgrade, hello, listener, impl, request, socket, tls, promise,
          verified, queue, gets, accepted>>
fixed == <<support_downgrade, hello>>
accepts == <<queue, gets, accepted>>

\* How the first bytes of a connection look, and how many have arrived.
Prefix == {"tls", "sslv2", "text"}
Hellos == Prefix \X {1, 2, 6}

Init ==
  /\ support_downgrade \in BOOLEAN /\ hello \in [Connection -> Hellos]
  /\ support_downgrade \/ \A c \in Connection : hello[c] = <<"tls", 6>>
  /\ listener = "null" /\ impl = "alive"
  /\ request = [c \in Connection |-> "none"] /\ socket = [c \in Connection |-> "none"]
  /\ tls = [c \in Connection |-> "none"] /\ promise = [c \in Connection |-> "pending"]
  /\ verified = {} /\ queue = <<>> /\ gets = <<>> /\ accepted = <<>>

listen ==
  /\ listener = "null" /\ impl = "alive"
  /\ listener' = "listening"
  /\ UNCHANGED <<fixed, impl, request, socket, tls, promise, verified, accepts>>

-----------------------------------------------------------------------------
(* The accept queue (see module Synchronizers)                             *)

\* accept_queue_.put: the element goes to the accept that waits longest; its
\* `then' drops the socket if a discard was asked for in the meantime.
Put(c) ==
  IF gets = <<>> THEN queue' = Append(queue, c) /\ UNCHANGED <<gets, accepted>>
  ELSE /\ gets' = Tail(gets) /\ UNCHANGED queue
       /\ accepted' = [accepted EXCEPT ![gets[1]] =
                         IF @ = <<"asked">> THEN <<"dropped", c>> ELSE <<c>>]

\* The promise of c completes, which puts it into the queue, also when the
\* listening socket is gone: the callback holds a copy of the queue.
Complete(c, how) == promise' = [promise EXCEPT ![c] = how] /\ Put(c)

\* accept(): get, then the future of the socket itself.
accept ==
  /\ impl = "alive" /\ Len(accepted) < MaxAccepts
  /\ IF queue = <<>>
     THEN /\ gets' = Append(gets, Len(accepted) + 1)
          /\ accepted' = Append(accepted, <<"pending">>) /\ UNCHANGED queue
     ELSE /\ queue' = Tail(queue) /\ accepted' = Append(accepted, <<queue[1]>>)
          /\ UNCHANGED gets
  /\ UNCHANGED <<fixed, listener, impl, request, socket, tls, promise, verified>>

\* The caller discards a pending accept ...
Discard(n) ==
  /\ accepted[n] = <<"pending">>
  /\ accepted' = [accepted EXCEPT ![n] = <<"asked">>]
  /\ UNCHANGED <<fixed, listener, impl, request, socket, tls, promise, verified, queue,
                 gets>>

\* ... which then takes it out of the waiters of the queue.
Discarded(n) ==
  /\ accepted[n] = <<"asked">>
  /\ accepted' = [accepted EXCEPT ![n] = <<"discarded">>]
  /\ gets' = SelectSeq(gets, LAMBDA m : m # n)
  /\ UNCHANGED <<fixed, listener, impl, request, socket, tls, promise, verified, queue>>

-----------------------------------------------------------------------------
(* In the event loop                                                       *)

\* accept_SSL_callback up to the handshake: the SSL object and the bufferevent,
\* or a failure that deletes the request and leaves the socket open (and, if it
\* is that of the peer's address, the SSL object allocated).
StartHandshake(c) ==
  \/ /\ request' = [request EXCEPT ![c] = "handshake"]
     /\ tls' = [tls EXCEPT ![c] = "made"]
     /\ UNCHANGED <<promise, accepts>>
  \/ /\ request' = [request EXCEPT ![c] = "deleted"] /\ Complete(c, "failed")
     /\ \E left \in {"none", "made", "freed"} : tls' = [tls EXCEPT ![c] = left]

\* The listener's callback, then accept_callback.  Without the listening
\* socket nobody owns the connection.
NewConnection(c) ==
  /\ listener = "listening" /\ socket[c] = "none"
  /\ \/ /\ impl = "alive" /\ socket' = [socket EXCEPT ![c] = "open"]
        /\ IF support_downgrade
           THEN /\ request' = [request EXCEPT ![c] = "peek"]
                /\ UNCHANGED <<tls, promise, accepts>>
           ELSE StartHandshake(c)
     \/ /\ impl = "destructed" /\ socket' = [socket EXCEPT ![c] = "open"]
        /\ UNCHANGED <<request, tls, promise, accepts>>
     \/ /\ impl = "alive" /\ socket' = [socket EXCEPT ![c] = "closed"]   \* cloexec failed
        /\ Complete(c, "failed") /\ UNCHANGED <<request, tls>>
     \/ /\ impl = "destructed" /\ socket' = [socket EXCEPT ![c] = "closed"]
        /\ UNCHANGED <<request, tls, promise, accepts>>
  /\ UNCHANGED <<fixed, listener, impl, verified>>

\* Is it TLS?  With fewer than 6 bytes the rules read bytes of `data' that were
\* never written: they may say anything.
Peeks(c) ==
  LET prefix == hello[c][1]  size == hello[c][2] IN
  IF size < 2 THEN {FALSE}
  ELSE IF prefix = "text" THEN {FALSE}
  ELSE IF size < 6 THEN BOOLEAN ELSE {TRUE}
\* By then the listener, which accept_SSL_callback asks for its event base, may
\* have been freed.
peek_callback(c) ==
  /\ request[c] = "peek"
  /\ \E ssl \in Peeks(c) :
       IF ssl THEN StartHandshake(c) /\ UNCHANGED socket
       ELSE /\ request' = [request EXCEPT ![c] = "deleted"]
            /\ socket' = [socket EXCEPT ![c] = "POLL"] /\ Complete(c, "POLL")
            /\ UNCHANGED tls
  /\ UNCHANGED <<fixed, listener, impl, verified>>

\* MUTANT: the result of verify is ignored.
Connected_unverified(c) ==
  /\ request[c] = "handshake"
  /\ request' = [request EXCEPT ![c] = "deleted"]
  /\ verified' \in {verified, verified \cup {c}}
  /\ socket' = [socket EXCEPT ![c] = "SSL"] /\ Complete(c, "SSL")
  /\ UNCHANGED <<fixed, listener, impl, tls>>

\* The event callback set by accept_SSL_callback.
Connected(c) ==
  /\ request[c] = "handshake"
  /\ request' = [request EXCEPT ![c] = "deleted"]
  /\ \/ /\ verified' = verified \cup {c}
        /\ socket' = [socket EXCEPT ![c] = "SSL"] /\ Complete(c, "SSL")
        /\ UNCHANGED tls
     \/ /\ tls' = [tls EXCEPT ![c] = "freed"] /\ socket' = [socket EXCEPT ![c] = "closed"]
        /\ Complete(c, "failed") /\ UNCHANGED verified
  /\ UNCHANGED <<fixed, listener, impl>>

\* A connection closed during the handshake; nothing is freed or closed.
Eof(c) ==
  /\ request[c] = "handshake"
  /\ request' = [request EXCEPT ![c] = "deleted"] /\ Complete(c, "failed")
  /\ UNCHANGED <<fixed, listener, impl, socket, tls, verified>>

Error(c) ==
  /\ request[c] = "handshake"
  /\ request' = [request EXCEPT ![c] = "deleted"]
  /\ tls' = [tls EXCEPT ![c] = "freed"] /\ socket' = [socket EXCEPT ![c] = "closed"]
  /\ Complete(c, "failed")
  /\ UNCHANGED <<fixed, listener, impl, verified>>

\* The last reference to the listening socket goes; its destructor leaves the
\* rest to the event loop (see module SSLSocket).
Destruct ==
  /\ impl = "alive" /\ impl' = "destructed"
  /\ UNCHANGED <<fixed, listener, request, socket, tls, promise, verified, accepts>>
FreeListener ==
  /\ impl = "destructed" /\ impl' = "deleted"
  /\ listener' = IF listener = "listening" THEN "freed" ELSE listener
  /\ UNCHANGED <<fixed, request, socket, tls, promise, verified, accepts>>

EventLoop ==
  \/ \E c \in Connection : peek_callback(c) \/ Connected(c) \/ Error(c) \/ Eof(c)
  \/ FreeListener
Next ==
  \/ listen \/ accept \/ (\E n \in 1..Len(accepted) : Discard(n) \/ Discarded(n))
  \/ (\E c \in Connection : NewConnection(c)) \/ EventLoop \/ Destruct
Spec == Init /\ [][Next]_vars

-----------------------------------------------------------------------------
Times(c) == Cardinality({i \in DOMAIN queue : queue[i] = c})
            + Cardinality({n \in DOMAIN accepted :
                             accepted[n] \in {<<c>>, <<"dropped", c>>}})

(***************************************************************************)
(* Every request ends in the queue exactly once, as a failure or a socket, *)
(* and its AcceptRequest is deleted with it; a socket handed to accept()   *)
(* is open and has one owner, and what was freed or closed is not handed   *)
(* over.  An SSL socket has passed verify, and a plain one is given only   *)
(* if downgrades are supported and the peer did not send a whole hello.    *)
(* accept()s are answered in the order they were made, and wait only while *)
(* the queue is empty.                                                     *)
(***************************************************************************)
Safe ==
  /\ \A c \in Connection :
       /\ Times(c) = (IF promise[c] = "pending" THEN 0 ELSE 1)
       /\ promise[c] # "pending" => request[c] \in {"deleted", "none"}
       /\ request[c] = "deleted" => promise[c] # "pending"
       /\ request[c] \in {"peek", "handshake"} => socket[c] = "open"
       /\ promise[c] \in {"SSL", "POLL"} => socket[c] = promise[c]
       /\ socket[c] \in {"SSL", "POLL"} => promise[c] = socket[c]
       /\ promise[c] = "SSL" => c \in verified /\ tls[c] = "made"
       /\ promise[c] = "POLL" =>
            support_downgrade /\ (hello[c][1] = "text" \/ hello[c][2] < 6)
  /\ queue = <<>> \/ gets = <<>>
  /\ \A i, j \in DOMAIN gets : i < j => gets[i] < gets[j]
  /\ \A m, n \in DOMAIN accepted :
       m < n /\ accepted[m] = <<"pending">> =>
         accepted[n] \in {<<"pending">>, <<"asked">>, <<"discarded">>}
=============================================================================

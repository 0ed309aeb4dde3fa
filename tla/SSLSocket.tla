------------------------------ MODULE SSLSocket ------------------------------
(***************************************************************************)
(* One connection of LibeventSSLSocketImpl                                 *)
(* (src/posix/libevent/libevent_ssl_socket.cpp): a bufferevent that the    *)
(* thread of the event loop owns, and one slot for each of a pending       *)
(* connect, recv and send.  Any thread fills a slot under the lock of the  *)
(* socket, and asks the event loop to do the rest: run_in_event_loop       *)
(* queues a function that holds a reference to the socket.                 *)
(*                                                                         *)
(* The functions and the callbacks of the bufferevent run one at a time on *)
(* the event loop.  A call of a user is two steps: what it does under the  *)
(* lock, and the function it queues.                                       *)
(***************************************************************************)
EXTENDS Naturals, Sequences, FiniteSets, SequencesExt

CONSTANTS MaxRecvs, MaxSends, MaxData, MaxShutdowns   \* bounds

VARIABLES
  bev,           \* "null", "new", "connecting" or "connected"
  connect,       \* the future of connect(): "none", "pending", "ready", "failed"
  connect_request,
  recvs, sends,  \* the futures of recv() and send()
  recv_request, send_request,   \* the request in the slot, or 0
  received_eof,
  calls,         \* functions that a thread is about to queue
  functions,     \* functions queued for the event loop
  loop,          \* "idle", or what the event loop is in the middle of
  input,         \* chunks in the input buffer
  arrived,       \* chunks that ever arrived
  output,        \* sends whose data is in the output buffer
  written,       \* sends whose data has been written to the connection
  readable, writable,   \* a read or a write callback is deferred
  ended,         \* the bufferevent has reported its end or an error
  life,          \* "held", "dropped", "destroyed" or "closed"
  frees,         \* number of times a bufferevent was freed
  shutdowns, discards,
  aborted        \* a CHECK failed, or a null bufferevent was used

requestVars == <<connect, connect_request, recvs, sends, recv_request,
                 send_request>>
bufferVars == <<input, arrived, output, written, readable, writable, ended>>
queueVars == <<calls, functions, loop>>
miscVars == <<life, shutdowns, discards>>
vars == <<bev, requestVars, received_eof, bufferVars, queueVars, miscVars, frees,
          aborted>>

Fn(do, id) == <<do, id>>
Queued == calls \cup ToSet(functions)
Held == life = "held"
Alive == life \in {"held", "dropped"}

\* A socket that connects, or one that was accepted: then the handshake is over.
Init ==
  /\ \/ bev = "null" /\ connect = "none"
     \/ bev = "connected" /\ connect = "ready"
  /\ connect_request = FALSE /\ recv_request = 0 /\ send_request = 0
  /\ recvs = <<>> /\ sends = <<>> /\ received_eof = FALSE
  /\ calls = {} /\ functions = <<>> /\ loop = "idle"
  /\ input = 0 /\ arrived = 0 /\ output = {} /\ written = {}
  /\ readable = FALSE /\ writable = FALSE /\ ended = FALSE
  /\ life = "held" /\ frees = 0 /\ shutdowns = 0 /\ discards = {}
  /\ aborted = FALSE

-----------------------------------------------------------------------------
(* Calls of the users of the socket.                                       *)

\* connect(): the bufferevent is made before the slot is filled.
Connect ==
  /\ Held /\ connect = "none" /\ bev = "null"
  /\ bev' = "new" /\ connect' = "pending" /\ calls' = calls \cup {Fn("assign", 0)}
  /\ UNCHANGED <<connect_request, recvs, sends, recv_request, send_request,
                 received_eof, bufferVars, functions, loop, miscVars, frees,
                 aborted>>

ConnectAssign ==
  /\ Fn("assign", 0) \in calls
  /\ connect_request' = TRUE
  /\ calls' = calls \ {Fn("assign", 0)}
  /\ functions' = Append(functions, Fn("connect", 0))
  /\ UNCHANGED <<bev, connect, recvs, sends, recv_request, send_request,
                 received_eof, bufferVars, loop, miscVars, frees, aborted>>

\* run_in_event_loop.
Push(f) ==
  /\ f \in calls /\ f # Fn("assign", 0)
  /\ calls' = calls \ {f} /\ functions' = Append(functions, f)
  /\ UNCHANGED <<bev, requestVars, received_eof, bufferVars, loop, miscVars,
                 frees, aborted>>

\* recv(): a second recv fails while one is pending.
Recv ==
  LET id == Len(recvs) + 1 IN
  /\ Held /\ connect = "ready" /\ id <= MaxRecvs
  /\ IF recv_request # 0
       THEN /\ recvs' = Append(recvs, "failed")
            /\ UNCHANGED <<recv_request, calls>>
       ELSE /\ recvs' = Append(recvs, "pending")
            /\ recv_request' = id /\ calls' = calls \cup {Fn("recv", id)}
  /\ UNCHANGED <<bev, connect, connect_request, sends, send_request,
                 received_eof, bufferVars, functions, loop, miscVars, frees,
                 aborted>>

\* The onDiscard callback of the future of a recv.
Discard(id) ==
  /\ id \in 1..Len(recvs) /\ recvs[id] = "pending" /\ id \notin discards /\ Alive
  /\ discards' = discards \cup {id}
  /\ functions' = Append(functions, Fn("discard", id))
  /\ UNCHANGED <<bev, requestVars, received_eof, bufferVars, calls, loop, life,
                 shutdowns, frees, aborted>>

\* send() and sendfile(): `ok' is FALSE when the file descriptor cannot be
\* duplicated; the request stays in the slot.
Send(ok) ==
  LET id == Len(sends) + 1 IN
  /\ Held /\ connect = "ready" /\ id <= MaxSends
  /\ IF send_request # 0
       THEN /\ sends' = Append(sends, "failed")
            /\ UNCHANGED <<send_request, calls>>
       ELSE /\ sends' = Append(sends, IF ok THEN "pending" ELSE "failed")
            /\ send_request' = id
            /\ calls' = IF ok THEN calls \cup {Fn("send", id)} ELSE calls
  /\ UNCHANGED <<bev, connect, connect_request, recvs, recv_request,
                 received_eof, bufferVars, functions, loop, miscVars, frees,
                 aborted>>

\* shutdown(): without a bufferevent there must be no request either.
Shutdown ==
  /\ Held /\ shutdowns < MaxShutdowns /\ shutdowns' = shutdowns + 1
  /\ IF bev = "null"
       THEN /\ aborted' = (aborted \/ connect_request \/ recv_request # 0
                                   \/ send_request # 0)
            /\ calls' = calls
       ELSE /\ calls' = calls \cup {Fn("shutdown", shutdowns)}
            /\ aborted' = aborted
  /\ UNCHANGED <<bev, requestVars, received_eof, bufferVars, functions, loop,
                 life, discards, frees>>

\* The users let go of the socket.
Drop ==
  /\ Held /\ life' = "dropped"
  /\ UNCHANGED <<bev, requestVars, received_eof, bufferVars, queueVars,
                 shutdowns, discards, frees, aborted>>

-----------------------------------------------------------------------------
(* The event loop: queued functions.                                       *)

Complete(futures, id, result) ==
  IF id = 0 THEN futures ELSE [futures EXCEPT ![id] = result]
Pop == functions' = Tail(functions)

\* MUTANT: the request is taken out of the slot without a look at the buffer.
RecvCallback_eager ==
  /\ recv_request' = 0
  /\ recvs' = Complete(recvs, recv_request, IF input > 0 THEN "data" ELSE "eof")
  /\ input' = IF recv_request # 0 /\ input > 0 THEN input - 1 ELSE input

\* recv_callback(): leaves the slot alone when there is nothing to read.
RecvCallback ==
  IF input = 0 /\ ~received_eof THEN UNCHANGED <<recv_request, recvs, input>>
  ELSE /\ recv_request' = 0
       /\ recvs' = Complete(recvs, recv_request,
                            IF input > 0 THEN "data" ELSE "eof")
       /\ input' = IF recv_request # 0 /\ input > 0 THEN input - 1 ELSE input

\* The function that connect() queued.  On failure the bufferevent goes first.
RunConnect ==
  /\ \/ bev' = "connecting" /\ UNCHANGED <<loop, frees>>
     \/ bev' = "null" /\ frees' = frees + 1 /\ loop' = "failing"
  /\ UNCHANGED <<requestVars, received_eof, bufferVars, aborted>>

ConnectFails ==
  /\ loop = "failing" /\ loop' = "idle"
  /\ connect_request' = FALSE /\ connect' = "failed"
  /\ aborted' = (aborted \/ ~connect_request)
  /\ UNCHANGED <<bev, recvs, sends, recv_request, send_request, received_eof,
                 bufferVars, calls, functions, miscVars, frees>>

\* MUTANT: the function that recv() queues does not look for buffered data.
RunRecv_waits == UNCHANGED <<recv_request, recvs, input, aborted>>

\* The function that recv() queued.
RunRecv ==
  IF recv_request = 0 THEN UNCHANGED <<recv_request, recvs, input, aborted>>
  ELSE RecvCallback /\ aborted' = (aborted \/ bev = "null")

\* The function that a discard queued takes whatever request is in the slot.
RunDiscard ==
  /\ recv_request' = 0
  /\ recvs' = Complete(recvs, recv_request, "discarded")
  /\ UNCHANGED <<input, aborted>>

\* The function that shutdown() queued.
RunShutdown ==
  IF bev = "null"
    THEN aborted' = TRUE /\ UNCHANGED <<recv_request, recvs, input>>
    ELSE /\ recv_request' = 0
         /\ recvs' = Complete(recvs, recv_request,
                              IF input > 0 THEN "data" ELSE "eof")
         /\ input' = IF recv_request # 0 /\ input > 0 THEN input - 1 ELSE input
         /\ aborted' = aborted

\* The function that send() queued, for the request in the slot.
RunSend(id) ==
  IF send_request = 0 THEN UNCHANGED <<output, aborted>>
  ELSE output' = output \cup {id} /\ aborted' = (aborted \/ bev = "null")

RunFunction ==
  /\ loop = "idle" /\ functions # <<>> /\ Head(functions)[1] # "free" /\ Pop
  /\ CASE Head(functions)[1] = "connect" -> RunConnect
       [] Head(functions)[1] = "send" ->
            /\ RunSend(Head(functions)[2])
            /\ UNCHANGED <<bev, requestVars, received_eof, input, arrived,
                           written, readable, writable, ended, loop, frees>>
       [] OTHER ->
            /\ CASE Head(functions)[1] = "recv" -> RunRecv
                 [] Head(functions)[1] = "discard" -> RunDiscard
                 [] OTHER -> RunShutdown
            /\ UNCHANGED <<bev, connect, connect_request, sends, send_request,
                           received_eof, arrived, output, written, readable,
                           writable, ended, loop, frees>>
  /\ UNCHANGED <<calls, miscVars>>

-----------------------------------------------------------------------------
(* The event loop: callbacks of the bufferevent.                           *)

Callbacks == loop = "idle" /\ Alive /\ bev \in {"connecting", "connected"}

Arrive ==
  /\ bev = "connected" /\ ~ended /\ arrived < MaxData
  /\ input' = input + 1 /\ arrived' = arrived + 1 /\ readable' = TRUE
  /\ UNCHANGED <<bev, requestVars, received_eof, output, written, writable,
                 ended, queueVars, miscVars, frees, aborted>>

Drain ==
  /\ bev = "connected" /\ ~ended /\ output # {}
  /\ output' = {} /\ written' = written \cup output /\ writable' = TRUE
  /\ UNCHANGED <<bev, requestVars, received_eof, input, arrived, readable,
                 ended, queueVars, miscVars, frees, aborted>>

ReadCallback ==
  /\ Callbacks /\ readable /\ readable' = FALSE
  /\ RecvCallback
  /\ UNCHANGED <<bev, connect, connect_request, sends, send_request,
                 received_eof, arrived, output, written, writable, ended,
                 queueVars, miscVars, frees, aborted>>

\* send_callback().
SendCallback ==
  /\ Callbacks /\ writable /\ writable' = FALSE
  /\ send_request' = 0 /\ sends' = Complete(sends, send_request, "ready")
  /\ UNCHANGED <<bev, connect, connect_request, recvs, recv_request,
                 received_eof, input, arrived, output, written, readable, ended,
                 queueVars, miscVars, frees, aborted>>

\* BEV_EVENT_CONNECTED: the handshake is over; the certificate is verified.
ConnectedEvent(verified) ==
  /\ Callbacks /\ bev = "connecting"
  /\ connect_request' = FALSE
  /\ aborted' = (aborted \/ recv_request # 0 \/ send_request # 0
                         \/ ~connect_request)
  /\ connect' = IF verified THEN "ready" ELSE "failed"
  /\ bev' = IF verified THEN "connected" ELSE "null"
  /\ frees' = IF verified THEN frees ELSE frees + 1
  /\ UNCHANGED <<recvs, sends, recv_request, send_request, received_eof,
                 bufferVars, queueVars, miscVars>>

\* All three slots are emptied; a pending connect frees the bufferevent.
TakeRequests ==
  /\ recv_request' = 0 /\ send_request' = 0 /\ connect_request' = FALSE
  /\ sends' = Complete(sends, send_request, "failed")
  /\ IF connect_request
       THEN connect' = "failed" /\ bev' = "null" /\ frees' = frees + 1
       ELSE UNCHANGED <<connect, bev, frees>>

\* MUTANT: a pending recv is told of the end although there is data to read.
EofEvent_drops ==
  /\ Callbacks /\ ~readable /\ ~writable /\ (ended => output # {})
  /\ TakeRequests /\ received_eof' = TRUE /\ ended' = TRUE
  /\ recvs' = Complete(recvs, recv_request, "eof")
  /\ input' = input
  /\ UNCHANGED <<arrived, output, written, readable, writable, queueVars,
                 miscVars, aborted>>

\* BEV_EVENT_EOF, or BEV_EVENT_ERROR with no socket error.
EofEvent ==
  /\ Callbacks /\ ~readable /\ ~writable /\ (ended => output # {})
  /\ TakeRequests /\ received_eof' = TRUE /\ ended' = TRUE
  /\ recvs' = Complete(recvs, recv_request, IF input > 0 THEN "data" ELSE "eof")
  /\ input' = IF recv_request # 0 /\ input > 0 THEN input - 1 ELSE input
  /\ UNCHANGED <<arrived, output, written, readable, writable, queueVars,
                 miscVars, aborted>>

\* BEV_EVENT_ERROR with a socket error.
ErrorEvent ==
  /\ Callbacks /\ ~readable /\ ~writable /\ (ended => output # {})
  /\ TakeRequests /\ ended' = TRUE
  /\ recvs' = Complete(recvs, recv_request, "failed")
  /\ UNCHANGED <<received_eof, input, arrived, output, written, readable,
                 writable, queueVars, miscVars, aborted>>

-----------------------------------------------------------------------------
(* Destruction, when the last reference is gone: a queued function is one. *)

Abandon(futures, id) ==
  IF id # 0 /\ futures[id] = "pending" THEN Complete(futures, id, "abandoned")
  ELSE futures

Destroy ==
  /\ life = "dropped" /\ Queued = {} /\ loop = "idle"
  /\ life' = "destroyed" /\ functions' = <<Fn("free", 0)>>
  /\ recvs' = Abandon(recvs, recv_request) /\ sends' = Abandon(sends, send_request)
  /\ connect' = IF connect_request THEN "abandoned" ELSE connect
  /\ recv_request' = 0 /\ send_request' = 0 /\ connect_request' = FALSE
  /\ UNCHANGED <<bev, received_eof, bufferVars, calls, loop, shutdowns, discards,
                 frees, aborted>>

\* The function that the destructor queued owns the bufferevent.
RunFree ==
  /\ loop = "idle" /\ functions # <<>> /\ Head(functions)[1] = "free" /\ Pop
  /\ life' = "closed" /\ bev' = "null"
  /\ frees' = IF bev = "null" THEN frees ELSE frees + 1
  /\ UNCHANGED <<requestVars, received_eof, bufferVars, calls, loop, shutdowns,
                 discards, aborted>>

Next ==
  \/ Connect \/ ConnectAssign \/ (\E f \in calls : Push(f))
  \/ Recv \/ (\E id \in 1..MaxRecvs : Discard(id))
  \/ (\E ok \in BOOLEAN : Send(ok))
  \/ Shutdown \/ Drop
  \/ RunFunction \/ ConnectFails \/ RunFree
  \/ Arrive \/ Drain \/ ReadCallback \/ SendCallback
  \/ (\E v \in BOOLEAN : ConnectedEvent(v)) \/ EofEvent \/ ErrorEvent
  \/ Destroy

Spec == Init /\ [][Next]_vars

-----------------------------------------------------------------------------
(* Properties.                                                             *)

Pending(futures) == {id \in 1..Len(futures) : futures[id] = "pending"}

\* A request is in its slot as long as its future is pending, and no longer: no
\* call overwrites the request of another, and no completion is lost.
SlotsOK ==
  /\ Pending(recvs) = IF recv_request = 0 THEN {} ELSE {recv_request}
  /\ Pending(sends) \subseteq {send_request}

\* A recv for which there is data, or the end of the stream, is about to be
\* served by a function or a deferred callback: the wakeup cannot fall between
\* recv() and a callback that came before it.
NoLostRecv ==
  recv_request # 0 /\ (input > 0 \/ received_eof) =>
    readable \/ \E f \in Queued : f[1] = "recv"

\* A send that is reported as done has been written.
SendMeansWritten ==
  \A id \in 1..Len(sends) : sends[id] = "ready" => id \in written

\* No chunk is lost or read twice; the end of the stream is reported to a recv
\* only when it is the end: all chunks have been read, or the socket was shut.
EndAfterData ==
  /\ Cardinality({id \in 1..Len(recvs) : recvs[id] = "data"}) + input = arrived
  /\ (\E id \in 1..Len(recvs) : recvs[id] = "eof") /\ shutdowns = 0 =>
       received_eof /\ input = 0

\* The bufferevent is freed exactly once.
FreedOnce ==
  /\ frees <= 1
  /\ life = "closed" => frees = IF connect = "none" THEN 0 ELSE 1

\* The slots, the buffers and the life of the socket.
SSLSafe ==
  SlotsOK /\ NoLostRecv /\ SendMeansWritten /\ EndAfterData /\ FreedOnce
  /\ (shutdowns = 0 => ~aborted)

=============================================================================

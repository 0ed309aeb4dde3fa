--------------------------- MODULE HttpConnection ---------------------------
(***************************************************************************)
(* A client connection (ConnectionProcess in src/http.cpp): an actor that  *)
(* pipelines requests, chains the writes to the socket, and reads and      *)
(* decodes responses independently of them.                                *)
(***************************************************************************)
EXTENDS Naturals, Sequences, FiniteSets, SequencesExt

CONSTANTS
  MaxRequests, MaxResponses,  \* bounds
  Streamed                    \* requests whose response is streamed to the caller

Request == 1..MaxRequests
Response == 1..MaxResponses

VARIABLES
  mailbox, terminated,
  pipeline,      \* requests that wait for a response
  closing,       \* `close`: no more requests after the ones in the pipeline
  disconnected,
  decoder,       \* the state of the StreamingResponseDecoder
  chain, chainFailed,   \* requests to be written; has a write failed?
  reading,       \* is a recv outstanding?
  shutdown,      \* was the socket shut down?
  outcome, got,  \* of every request, and the number of its response
  accepted, last,       \* requests in the order of the pipeline; Connection: close
  dropped,       \* has the last Connection object gone?
  server         \* the server's side

actorVars == <<terminated, pipeline, closing, disconnected, decoder, shutdown, outcome,
               got, accepted>>
vars == <<actorVars, server, mailbox, chain, chainFailed, reading, last, dropped>>

Event(do, r, parts) == [do |-> do, r |-> r, parts |-> parts]
Disconnecting == Event("disconnect", 0, <<>>)

Init ==
  /\ mailbox = <<>> /\ terminated = FALSE
  /\ pipeline = <<>> /\ closing = FALSE /\ disconnected = FALSE
  /\ decoder = [failed |-> FALSE, writer |-> 0, heads |-> 0, out |-> <<>>,
                body |-> [k \in Response |-> "none"], framing |-> "length"]
  /\ chain = <<>> /\ chainFailed = FALSE
  /\ reading = TRUE    \* initialize()
  /\ shutdown = FALSE /\ dropped = FALSE
  /\ outcome = [r \in Request |-> "new"] /\ got = [r \in Request |-> 0]
  /\ accepted = <<>> /\ last = [r \in Request |-> FALSE]
  /\ server = [received |-> <<>>, heads |-> 0, sending |-> "none",
               closed |-> FALSE, ended |-> {}]

-----------------------------------------------------------------------------
(* The decoder.  A response is handed over when its headers are complete;  *)
(* its body follows through a pipe whose writer the decoder keeps.         *)

Fail(d) ==
  [d EXCEPT !.failed = TRUE, !.writer = 0,
            !.body = IF d.writer = 0 THEN @ ELSE [@ EXCEPT ![d.writer] = "failed"]]
Complete(d) ==
  [d EXCEPT !.writer = 0, !.body = [@ EXCEPT ![d.writer] = "closed"]]

DecodePart(d, part) ==
  IF d.failed \/ part = "bad" THEN Fail(d)
  ELSE IF part = "end" THEN Complete(d)
  ELSE LET k == d.heads + 1 IN
       [d EXCEPT !.heads = k, !.writer = k, !.out = Append(@, <<k, part>>),
                 !.body = [@ EXCEPT ![k] = "open"],
                 !.framing = IF part = "open" THEN "eof" ELSE "length"]
Decode(d, parts) ==
  LET after[n \in 0..Len(parts)] ==
        IF n = 0 THEN [d EXCEPT !.out = <<>>] ELSE DecodePart(after[n - 1], parts[n])
  IN after[Len(parts)]

\* decode("", 0): the end of file completes a body that has no length, and is
\* an error in the middle of another.
DecodeEof(d) ==
  LET e == [d EXCEPT !.out = <<>>] IN
  IF d.writer = 0 THEN e ELSE IF d.framing = "eof" THEN Complete(e) ELSE Fail(e)

-----------------------------------------------------------------------------
(* The operations of the process.                                          *)

\* disconnect().
Disconnect(o, p, d) ==
  /\ shutdown' = TRUE
  /\ decoder' = IF d.writer # 0 THEN DecodeEof(d) ELSE d
  /\ outcome' = [r \in Request |-> IF r \in ToSet(p) THEN "failed" ELSE o[r]]
  /\ pipeline' = <<>> /\ disconnected' = TRUE

\* send().  After a failed write onFailed dispatches a disconnect at once.
Send(r) ==
  IF disconnected \/ closing
    THEN /\ outcome' = [outcome EXCEPT ![r] = "failed"]
         /\ UNCHANGED <<closing, chain, accepted, pipeline>>
         /\ mailbox' = Tail(mailbox)
    ELSE /\ closing' = last[r]
         /\ chain' = IF chainFailed THEN chain ELSE Append(chain, r)
         /\ mailbox' = Tail(mailbox) \o (IF chainFailed THEN <<Disconnecting>> ELSE <<>>)
         /\ pipeline' = Append(pipeline, r) /\ accepted' = Append(accepted, r)
         /\ outcome' = [outcome EXCEPT ![r] = "pending"]

HandleSend ==
  /\ ~terminated /\ mailbox # <<>> /\ mailbox[1].do = "send"
  /\ Send(mailbox[1].r)
  /\ UNCHANGED <<server, terminated, disconnected, decoder, shutdown, got,
                 chainFailed, reading, last, dropped>>

HandleDisconnect ==
  /\ ~terminated /\ mailbox # <<>> /\ mailbox[1].do = "disconnect"
  /\ mailbox' = Tail(mailbox)
  /\ Disconnect(outcome, pipeline, decoder)
  /\ UNCHANGED <<server, terminated, closing, got, accepted, chain, chainFailed,
                 reading, last, dropped>>

\* MUTANT: the pipeline is kept when the server closes.
TakeKeepsRest(s, response) ==
  IF s.stop \/ s.pipeline = <<>> THEN [s EXCEPT !.stop = TRUE]
  ELSE LET r == s.pipeline[1] IN
       [s EXCEPT !.pipeline = Tail(s.pipeline), !.close = @ \/ response[2] # "head",
                 !.outcome = [@ EXCEPT ![r] = "answered"],
                 !.got = [@ EXCEPT ![r] = response[1]]]

\* One decoded response: it answers the first request of the pipeline, and one
\* with Connection: close fails the others.
Take(s, response) ==
  IF s.stop \/ s.pipeline = <<>> THEN [s EXCEPT !.stop = TRUE]
  ELSE LET r == s.pipeline[1]
           close == response[2] # "head"
           rest == ToSet(Tail(s.pipeline)) IN
       [pipeline |-> IF close THEN <<>> ELSE Tail(s.pipeline),
        outcome |-> [q \in Request |->
           IF q = r THEN "answered"
           ELSE IF close /\ q \in rest THEN "failed" ELSE s.outcome[q]],
        got |-> [s.got EXCEPT ![r] = response[1]],
        close |-> s.close \/ close, stop |-> FALSE]

TakeAll(responses) ==
  LET after[n \in 0..Len(responses)] ==
        IF n = 0 THEN [pipeline |-> pipeline, outcome |-> outcome, got |-> got,
                       close |-> closing, stop |-> FALSE]
        ELSE Take(after[n - 1], responses[n])
  IN after[Len(responses)]

\* _read().
HandleRead ==
  LET event == mailbox[1]
      eof == event.do = "eof"
      unexpected == ~eof /\ pipeline = <<>> /\ decoder.writer = 0
      d == IF eof THEN DecodeEof(decoder)
           ELSE IF unexpected THEN decoder ELSE Decode(decoder, event.parts)
      s == TakeAll(IF unexpected THEN <<>> ELSE d.out) IN
  /\ ~terminated /\ mailbox # <<>> /\ event.do \in {"read", "eof"}
  /\ mailbox' = Tail(mailbox)
  /\ got' = s.got /\ closing' = s.close
  /\ IF unexpected \/ s.stop \/ eof \/ d.failed
        \/ (s.close /\ s.pipeline = <<>> /\ d.writer = 0)
       THEN Disconnect(s.outcome, s.pipeline, d) /\ UNCHANGED reading
       ELSE /\ reading' = TRUE
            /\ decoder' = d /\ outcome' = s.outcome /\ pipeline' = s.pipeline
            /\ UNCHANGED <<shutdown, disconnected>>
  /\ UNCHANGED <<server, terminated, accepted, chain, chainFailed, last, dropped>>

\* finalize(); the events behind the terminate event are deleted.
HandleTerminate ==
  /\ ~terminated /\ mailbox # <<>> /\ mailbox[1].do = "terminate"
  /\ terminated' = TRUE /\ mailbox' = <<>>
  /\ Disconnect(outcome, pipeline, decoder)
  /\ UNCHANGED <<server, closing, got, accepted, chain, chainFailed, reading, last,
                 dropped>>

-----------------------------------------------------------------------------
(* The caller.                                                             *)

Dispatch(event) ==
  /\ ~dropped
  /\ mailbox' = IF terminated THEN mailbox ELSE Append(mailbox, event)
  /\ UNCHANGED <<server, terminated, pipeline, closing, disconnected, decoder,
                 shutdown, got, accepted, chain, chainFailed, reading>>

\* Connection::send.
CallSend(r, close) ==
  /\ outcome[r] = "new" /\ \A q \in 1..(r - 1) : outcome[q] # "new"
  /\ Dispatch(Event("send", r, <<>>))
  /\ outcome' = [outcome EXCEPT ![r] = "dispatched"]
  /\ last' = [last EXCEPT ![r] = close]
  /\ UNCHANGED dropped

\* Connection::disconnect.
CallDisconnect ==
  /\ ~disconnected /\ Disconnecting \notin ToSet(mailbox)
  /\ Dispatch(Disconnecting)
  /\ UNCHANGED <<outcome, last, dropped>>

\* MUTANT: the terminate event goes to the front of the mailbox.
DropInjects ==
  /\ ~dropped /\ dropped' = TRUE
  /\ mailbox' = <<Event("terminate", 0, <<>>)>> \o mailbox
  /\ UNCHANGED <<actorVars, server, chain, chainFailed, reading, last>>

\* Connection::Data::~Data: terminate(process, false).
Drop ==
  /\ ~dropped /\ dropped' = TRUE
  /\ mailbox' = Append(mailbox, Event("terminate", 0, <<>>))
  /\ UNCHANGED <<actorVars, server, chain, chainFailed, reading, last>>

-----------------------------------------------------------------------------
(* The socket and the server, who may send what no one asked for.          *)

Written ==
  /\ chain # <<>> /\ ~shutdown /\ ~server.closed
  /\ chain' = Tail(chain)
  /\ server' = [server EXCEPT !.received = Append(@, chain[1])]
  /\ UNCHANGED <<actorVars, mailbox, chainFailed, reading, last, dropped>>

\* The rest of the chain fails, and every request of it asks to disconnect.
WriteFails ==
  /\ chain # <<>>
  /\ chain' = <<>> /\ chainFailed' = TRUE
  /\ mailbox' = IF terminated THEN mailbox
                ELSE mailbox \o [i \in 1..Len(chain) |-> Disconnecting]
  /\ UNCHANGED <<actorVars, server, reading, last, dropped>>

Received(event) ==
  /\ reading /\ reading' = FALSE
  /\ mailbox' = IF terminated THEN mailbox ELSE Append(mailbox, event)
  /\ UNCHANGED <<actorVars, chain, chainFailed, last, dropped>>

\* What one recv may return: parts of responses, several responses, or rubbish.
Chunk == [none |-> {<<"head">>, <<"last">>, <<"open">>, <<"bad">>, <<"head", "end">>,
                    <<"last", "end">>, <<"head", "end", "head">>},
          body |-> {<<"end">>, <<"end", "head">>, <<"bad">>},
          all |-> {}]
Sent(s, part) ==
  CASE part = "bad" -> [s EXCEPT !.sending = "all"]
    [] part = "end" -> [s EXCEPT !.sending = "none", !.ended = @ \cup {s.heads}]
    [] OTHER -> [s EXCEPT !.heads = @ + 1,
                          !.sending = IF part = "open" THEN "all" ELSE "body"]
Recv ==
  \E parts \in Chunk[server.sending] :
    /\ ~server.closed
    /\ server' = FoldLeft(Sent, server, parts) /\ server'.heads <= MaxResponses
    /\ Received(Event("read", 0, parts))
RecvEnds ==
  /\ shutdown \/ server.closed
  /\ Received(Event("eof", 0, <<>>)) /\ server' = server

ServerCloses ==
  /\ ~server.closed /\ server' = [server EXCEPT !.closed = TRUE]
  /\ UNCHANGED <<actorVars, mailbox, chain, chainFailed, reading, last, dropped>>

Handle == HandleSend \/ HandleDisconnect \/ HandleRead \/ HandleTerminate
Caller == (\E r \in Request, c \in BOOLEAN : CallSend(r, c)) \/ CallDisconnect \/ Drop
Next ==
  \/ Handle \/ Caller
  \/ Written \/ WriteFails \/ Recv \/ RecvEnds
  \/ ServerCloses

\* The process is scheduled, and the socket reports what has happened.
Spec == Init /\ [][Next]_vars
Fairness == WF_vars(Handle) /\ WF_vars(RecvEnds)
FairSpec == Spec /\ Fairness

-----------------------------------------------------------------------------
\* Has the future of r been completed?
Done(r) ==
  \/ outcome[r] = "failed"
  \/ outcome[r] = "answered" /\ (r \in Streamed \/ decoder.body[got[r]] # "open")

\* The n-th response answers the n-th request that was put in the pipeline.
ResponsesMatch ==
  \A r \in Request : outcome[r] = "answered" => accepted[got[r]] = r

\* A disconnected connection has no request waiting and no body half written,
\* whatever was received, sent or dispatched in the meantime.
DisconnectedIsClean ==
  disconnected => pipeline = <<>> /\ decoder.writer = 0

\* No request follows one with Connection: close to the server.
CloseIsLast ==
  \A i \in 1..Len(server.received) :
    last[server.received[i]] => i = Len(server.received)

\* After the server announced its last response no request waits for one.
NoWaitAfterClose ==
  (closing /\ \A i \in 1..Len(pipeline) : ~last[pipeline[i]]) => pipeline = <<>>

\* A body with a length ends only after the server has sent all of it.
CompleteBodies ==
  \A k \in Response :
    decoder.body[k] = "closed" /\ (k < decoder.heads \/ decoder.framing = "length")
      => k \in server.ended

\* Once the connection ends, at either side, every request gets its answer or a
\* failure: also those dispatched just before the last Connection is gone.
Owed == dropped \/ disconnected \/ server.closed
Paid == \A r \in Request : outcome[r] = "new" \/ Done(r)
AllComplete == Owed ~> Paid

\* Pipelined requests and responses stay paired, and the end of the connection
\* leaves nothing half done.
Safe ==
  /\ ResponsesMatch /\ CloseIsLast /\ NoWaitAfterClose
  /\ DisconnectedIsClean /\ CompleteBodies
=============================================================================

------------------------------ MODULE HttpProxy ------------------------------
(***************************************************************************)
(* The process that sends the responses of one inbound socket              *)
(* (src/http_proxy.cpp).  It is an actor: the events in its mailbox are    *)
(* handled one at a time, and the futures it waits for append events.      *)
(***************************************************************************)
EXTENDS Naturals, Sequences, FiniteSets, Functions

CONSTANTS
  MaxRequests, MaxChunks,   \* bounds
  StreamPipelined           \* may a client that pipelines get a stream?

Request == 1..MaxRequests

VARIABLES
  client,      \* "serial", "burst" or "pipelining"
  arrived,     \* requests decoded so far
  future,      \* future[r]: the response of r
  mailbox,
  items,       \* requests whose response is still to be sent
  registered,  \* registered[r]: callbacks waiting for the future of r
  pipe,        \* the request that is being streamed, or 0
  reading,     \* requests whose pipe is being read
  chunks,      \* chunks[r]: chunks written to the pipe of r
  wire,        \* what was sent, as pairs of request and part
  readerClosed, discarded,
  state        \* "running", "finalized" or "aborted" (a CHECK failed)

envVars == <<client, arrived, chunks>>
vars == <<envVars, future, mailbox, items, registered, pipe, reading, wire,
          readerClosed, discarded, state>>

Init ==
  /\ client \in {"serial", "burst", "pipelining"}
  /\ arrived = 0
  /\ future = [r \in Request |-> "pending"]
  /\ mailbox = <<>> /\ items = <<>> /\ pipe = 0 /\ wire = <<>>
  /\ registered = [r \in Request |-> 0]
  /\ reading = {} /\ readerClosed = {} /\ discarded = {}
  /\ chunks = [r \in Request |-> 0]
  /\ state = "running"

Event(do, r, what) == [do |-> do, r |-> r, what |-> what]
Times(e, n) == [i \in 1..n |-> e]
Finished(r) == \E i \in 1..Len(wire) : wire[i] \in {<<r, "response">>, <<r, "end">>}

-----------------------------------------------------------------------------
(* The environment.                                                        *)

\* The receive loop decodes a request and dispatches HttpProxy::handle.  A serial
\* client waits for each response; one that sends bursts sends no request while
\* it is being answered.
Receive ==
  /\ state = "running" /\ arrived < MaxRequests
  /\ client = "serial" => arrived = 0 \/ Finished(arrived)
  /\ client = "burst" =>
       (\A r \in 1..arrived : future[r] = "pending") \/ Finished(arrived)
  /\ arrived' = arrived + 1
  /\ mailbox' = Append(mailbox, Event("handle", arrived', ""))
  /\ UNCHANGED <<client, chunks, future, items, registered, pipe, reading, wire,
                 readerClosed, discarded, state>>

\* The handler completes its response.
Respond(r, kind) ==
  /\ r <= arrived /\ future[r] = "pending"
  /\ kind = "pipe" => client # "pipelining" \/ StreamPipelined
  /\ kind = "discarded" => r \in discarded
  /\ future' = [future EXCEPT ![r] = kind]
  /\ mailbox' = IF state = "running"
                  THEN mailbox \o Times(Event("waited", r, ""), registered[r])
                  ELSE mailbox
  /\ registered' = [registered EXCEPT ![r] = 0]
  /\ readerClosed' = IF state = "finalized" /\ r \in discarded /\ kind = "pipe"
                       THEN readerClosed \cup {r} ELSE readerClosed
  /\ UNCHANGED <<envVars, items, pipe, reading, wire, discarded, state>>

\* The pipe gives a chunk, the end of file or a failure.
Read(r, what) ==
  /\ r \in reading /\ state = "running"
  /\ what = "chunk" => chunks[r] < MaxChunks
  /\ chunks' = [chunks EXCEPT ![r] = IF what = "chunk" THEN @ + 1 ELSE @]
  /\ reading' = reading \ {r}
  /\ mailbox' = Append(mailbox, Event("stream", r, what))
  /\ UNCHANGED <<client, arrived, future, items, registered, pipe, wire,
                 readerClosed, discarded, state>>

-----------------------------------------------------------------------------
(* The handlers.  Next is HttpProxy::next with the given items, after the  *)
(* events in the mailbox.                                                  *)

NextItem(its, box) ==
  IF its = <<>> THEN mailbox' = box /\ registered' = registered
  ELSE IF future[its[1]] = "pending"
    THEN /\ mailbox' = box
         /\ registered' = [registered EXCEPT ![its[1]] = @ + 1]
    ELSE /\ mailbox' = Append(box, Event("waited", its[1], ""))
         /\ registered' = registered

Handle ==
  LET e == Head(mailbox) IN
  /\ state = "running" /\ mailbox # <<>> /\ e.do = "handle"
  /\ items' = Append(items, e.r)
  /\ IF Len(items') = 1 THEN NextItem(items', Tail(mailbox))
     ELSE mailbox' = Tail(mailbox) /\ registered' = registered
  /\ UNCHANGED <<envVars, future, pipe, reading, wire, readerClosed, discarded,
                 state>>

\* waited and process: the response is sent, or the streaming of it begins.
Waited ==
  LET e == Head(mailbox) IN
  /\ state = "running" /\ mailbox # <<>> /\ e.do = "waited"
  /\ IF items = <<>> \/ items[1] # e.r
       THEN /\ state' = "aborted"
            /\ UNCHANGED <<mailbox, items, registered, pipe, reading, wire>>
     ELSE IF future[e.r] = "pipe"
       THEN /\ wire' = Append(wire, <<e.r, "head">>)
            /\ pipe' = e.r /\ reading' = reading \cup {e.r}
            /\ items' = Tail(items)
            /\ mailbox' = Tail(mailbox)
            /\ UNCHANGED <<registered, state>>
     ELSE /\ wire' = Append(wire, <<e.r, "response">>)
          /\ items' = Tail(items)
          /\ NextItem(Tail(items), Tail(mailbox))
          /\ UNCHANGED <<pipe, reading, state>>
  /\ UNCHANGED <<envVars, future, readerClosed, discarded>>

\* MUTANT: the proxy goes on to the next item after every chunk.
StreamNext ==
  LET e == Head(mailbox) IN
  /\ state = "running" /\ mailbox # <<>> /\ e.do = "stream"
  /\ wire' = Append(wire, <<e.r, IF e.what = "chunk" THEN "chunk" ELSE "end">>)
  /\ reading' = IF e.what = "chunk" THEN reading \cup {pipe} ELSE reading
  /\ pipe' = 0
  /\ readerClosed' = IF e.what = "chunk" THEN readerClosed
                     ELSE readerClosed \cup {pipe}
  /\ NextItem(items, Tail(mailbox))
  /\ UNCHANGED <<envVars, future, items, discarded, state>>

\* stream: the reader is that of the current pipe.
Stream ==
  LET e == Head(mailbox) IN
  /\ state = "running" /\ mailbox # <<>> /\ e.do = "stream"
  /\ IF pipe = 0
       THEN /\ state' = "aborted"
            /\ UNCHANGED <<mailbox, registered, pipe, reading, wire, readerClosed>>
     ELSE IF e.what = "chunk"
       THEN /\ wire' = Append(wire, <<e.r, "chunk">>)
            /\ reading' = reading \cup {pipe}
            /\ mailbox' = Tail(mailbox)
            /\ UNCHANGED <<registered, pipe, readerClosed, state>>
     ELSE /\ wire' = Append(wire, <<e.r, "end">>)
          /\ readerClosed' = readerClosed \cup {pipe}
          /\ pipe' = 0
          /\ NextItem(items, Tail(mailbox))
          /\ UNCHANGED <<reading, state>>
  /\ UNCHANGED <<envVars, future, items, discarded>>

\* finalize: the producers of the responses are told to stop.
Finalize ==
  /\ state = "running" /\ state' = "finalized"
  /\ readerClosed' = readerClosed
                       \cup (IF pipe = 0 THEN {} ELSE {pipe})
                       \cup {r \in Range(items) : future[r] = "pipe"}
  /\ discarded' = discarded \cup Range(items)
  /\ pipe' = 0 /\ items' = <<>> /\ mailbox' = <<>>
  /\ registered' = [r \in Request |-> 0]
  /\ UNCHANGED <<envVars, future, reading, wire>>

-----------------------------------------------------------------------------
Step == Handle \/ Waited \/ Stream
Environment ==
  \/ Receive
  \/ \E r \in Request, kind \in {"body", "pipe", "failed", "discarded"} :
       Respond(r, kind)
  \/ \E r \in Request, what \in {"chunk", "eof", "failed"} : Read(r, what)

Next == Step \/ Environment \/ Finalize
Spec == Init /\ [][Next]_vars
Fairness == WF_vars(Step)
FairSpec == Spec /\ Fairness

-----------------------------------------------------------------------------
(* Properties.                                                             *)

(***************************************************************************)
(* http_proxy.hpp: the responses are sent in the same order as the         *)
(* requests; no response begins before the previous one has ended.         *)
(***************************************************************************)
ResponsesInOrder ==
  \A i, j \in 1..Len(wire) : i < j =>
    /\ wire[i][1] <= wire[j][1]
    /\ wire[i][1] < wire[j][1] =>
         \E k \in i..(j - 1) : wire[k] \in {<<wire[i][1], "response">>,
                                           <<wire[i][1], "end">>}

\* The CHECKs of waited and stream hold: the future waited for is that of the
\* first item, and a chunk belongs to the current pipe.
NoAbort == state # "aborted"

\* After the proxy has ended, the producer of every response it had taken on,
\* begun or not, has been told that nobody reads it.
ProducersTold ==
  state = "finalized" =>
    \A r \in Request :
      /\ <<r, "head">> \in Range(wire) => r \in readerClosed
      /\ r \in discarded /\ future[r] = "pipe" => r \in readerClosed

\* A response that is there is sent after those before it have been.
Owed(r) == r <= arrived /\ \A q \in 1..r : future[q] \notin {"pending", "pipe"}
Paid(r) == Finished(r) \/ state # "running"
ResponsesSent == \A r \in Request : Owed(r) ~> Paid(r)

\* What a client and the producers of the responses rely on.
Safe == ResponsesInOrder /\ NoAbort /\ ProducersTold
=============================================================================

------------------------------ MODULE HttpServe ------------------------------
(***************************************************************************)
(* http::serve (src/http.cpp): a receive loop and a send loop that share a *)
(* socket and a queue of items, and the cleanup when both have ended.      *)
(***************************************************************************)
EXTENDS Naturals, Sequences, FiniteSets, SequencesExt

CONSTANTS MaxRequests, MaxChunks   \* bounds

Request == 1..MaxRequests
NoItem == 0          \* None in the queue: receiving has completed

VARIABLES
  receiving, sending,  \* the two loops
  item,        \* the request whose response is being sent
  queue,       \* the pipeline
  shutdown,    \* the directions of the socket that are shut down
  hasDiscard,  \* has the future of serve been discarded?
  serving,     \* the future of serve
  arrived, keepAlive,
  response,    \* response[r]: of the handler
  discarded,   \* responses the handler was asked to discard
  chunks, writer,   \* of the pipe of a streamed response
  freed,       \* freed[r]: how often the request was deleted
  wire         \* responses sent, as pairs of request and part

clientVars == <<arrived, keepAlive>>
handlerVars == <<response, chunks, writer>>
vars == <<receiving, sending, item, queue, shutdown, hasDiscard, serving, clientVars,
          discarded, handlerVars, freed, wire>>

Init ==
  /\ receiving = "recv" /\ sending = "get"
  /\ item = NoItem /\ queue = <<>> /\ shutdown = {}
  /\ hasDiscard = FALSE /\ serving = "pending"
  /\ arrived = 0 /\ keepAlive = [r \in Request |-> TRUE]
  /\ response = [r \in Request |-> "pending"] /\ discarded = {}
  /\ chunks = [r \in Request |-> 0] /\ writer = [r \in Request |-> "open"]
  /\ freed = [r \in Request |-> 0] /\ wire = <<>>

Ended == {"ready", "failed", "discarded"}
Ready(r) == response[r] \notin {"pending", "abandoned"}

-----------------------------------------------------------------------------
(* The receive loop.                                                       *)

\* A recv returns data with n requests in it.
ReceiveRequests(n, alive) ==
  /\ receiving = "recv" /\ "READ" \notin shutdown
  /\ arrived + n <= MaxRequests /\ arrived' = arrived + n
  /\ queue' = queue \o [i \in 1..n |-> arrived + i]
  /\ keepAlive' = [keepAlive EXCEPT ![arrived + n] = alive]
  /\ UNCHANGED <<receiving, sending, item, shutdown, hasDiscard, serving, handlerVars,
                 discarded, freed, wire>>

\* The loop ends: the end of file, a failure of the socket or the decoder, or a
\* discard; onAny puts None on the queue and shuts down reading.
ReceiveEnds(how) ==
  /\ receiving = "recv" /\ (how = "discarded" => hasDiscard)
  /\ receiving' = how
  /\ queue' = Append(queue, NoItem)
  /\ shutdown' = shutdown \cup {"READ"}
  /\ UNCHANGED <<sending, item, hasDiscard, serving, clientVars, discarded, handlerVars,
                 freed, wire>>

-----------------------------------------------------------------------------
(* The send loop.                                                          *)

\* The loop ends; onAny shuts down the socket, which also ends receiving.
SendEnds(how) == sending' = how /\ shutdown' = {"READ", "WRITE"}

Get ==
  /\ sending = "get" /\ queue # <<>>
  /\ queue' = Tail(queue) /\ item' = queue[1]
  /\ IF queue[1] = NoItem THEN SendEnds("ready")
     ELSE sending' = "await" /\ shutdown' = shutdown
  /\ UNCHANGED <<receiving, hasDiscard, serving, clientVars, discarded, handlerVars,
                 freed, wire>>

\* The response is complete or abandoned: it, or an error in its place, is sent.
Awaited ==
  /\ sending = "await" /\ response[item] # "pending"
  /\ sending' = "send"
  /\ UNCHANGED <<receiving, item, queue, shutdown, hasDiscard, serving, clientVars,
                 discarded, handlerVars, freed, wire>>

\* The onAny of the body deletes the request.
Finish(how) ==
  /\ item' = NoItem
  /\ freed' = [freed EXCEPT ![item] = @ + 1]
  /\ IF how \in Ended THEN SendEnds(how) ELSE sending' = how /\ shutdown' = shutdown

\* The loop continues if the request expects it and the response does not close.
Persist(r, close) == IF keepAlive[r] /\ ~close THEN "get" ELSE "ready"

Sent(close) ==
  /\ sending = "send" /\ "WRITE" \notin shutdown
  /\ IF response[item] = "pipe"
       THEN /\ wire' = Append(wire, <<item, "head">>)
            /\ sending' = "stream" /\ UNCHANGED <<item, freed, shutdown>>
       ELSE /\ wire' = Append(wire, <<item, "response">>)
            /\ Finish(Persist(item, close))
  /\ UNCHANGED <<receiving, queue, hasDiscard, serving, clientVars, discarded,
                 handlerVars>>

SentChunk(close) ==
  /\ sending = "stream"
  /\ \/ /\ chunks[item] > 0 /\ chunks' = [chunks EXCEPT ![item] = @ - 1]
        /\ wire' = Append(wire, <<item, "chunk">>)
        /\ UNCHANGED <<sending, item, freed, shutdown>>
     \/ /\ chunks[item] = 0 /\ writer[item] = "closed"
        /\ wire' = Append(wire, <<item, "end">>)
        /\ Finish(Persist(item, close)) /\ chunks' = chunks
  /\ UNCHANGED <<receiving, queue, hasDiscard, serving, clientVars, discarded, response,
                 writer>>

\* A write fails, or the pipe of a stream does.
SendFails ==
  /\ \/ sending = "send"
     \/ sending = "stream" /\ (chunks[item] > 0 \/ writer[item] # "open")
  /\ Finish("failed")
  /\ UNCHANGED <<receiving, queue, hasDiscard, serving, clientVars, discarded,
                 handlerVars, wire>>

\* A discarded loop ends where it waits; a read of a pipe cannot be discarded,
\* so that a stream ends only with the next chunk.
SendDiscarded ==
  /\ hasDiscard
  /\ \/ /\ sending = "get" /\ queue = <<>>
        /\ SendEnds("discarded") /\ UNCHANGED <<item, freed, discarded>>
     \/ /\ \/ sending \in {"await", "send"}
           \/ sending = "stream" /\ (chunks[item] > 0 \/ writer[item] # "open")
        /\ Finish("discarded")
        /\ discarded' = IF sending = "await" /\ ~Ready(item)
                          THEN discarded \cup {item} ELSE discarded
  /\ UNCHANGED <<receiving, queue, hasDiscard, serving, clientVars, handlerVars, wire>>

-----------------------------------------------------------------------------
(* The future of serve.                                                    *)

Left == ToSet(queue) \ {NoItem}

\* MUTANT: the requests left in the queue are not deleted.
CleanupLeaks ==
  /\ receiving \in Ended /\ sending \in Ended /\ serving = "pending"
  /\ queue' = <<>> /\ freed' = freed
  /\ discarded' = IF hasDiscard THEN discarded \cup Left ELSE discarded
  /\ serving' = IF receiving = "ready" /\ sending = "ready" THEN "ready"
                ELSE IF "failed" \in {receiving, sending} THEN "failed" ELSE "discarded"
  /\ UNCHANGED <<receiving, sending, item, shutdown, hasDiscard, clientVars, handlerVars,
                 wire>>

\* Both loops have ended: what is left in the queue is deleted up to None.
Cleanup ==
  /\ receiving \in Ended /\ sending \in Ended /\ serving = "pending"
  /\ queue' = <<>>
  /\ freed' = [r \in Request |-> IF r \in Left THEN freed[r] + 1 ELSE freed[r]]
  /\ discarded' = IF hasDiscard THEN discarded \cup Left ELSE discarded
  /\ serving' = IF receiving = "ready" /\ sending = "ready" THEN "ready"
                ELSE IF "failed" \in {receiving, sending} THEN "failed" ELSE "discarded"
  /\ UNCHANGED <<receiving, sending, item, shutdown, hasDiscard, clientVars, handlerVars,
                 wire>>

Discard ==
  /\ serving = "pending" /\ ~hasDiscard /\ hasDiscard' = TRUE
  /\ UNCHANGED <<receiving, sending, item, queue, shutdown, serving, clientVars,
                 discarded, handlerVars, freed, wire>>

-----------------------------------------------------------------------------
(* The handlers.                                                           *)

Respond(r, kind) ==
  /\ r <= arrived /\ response[r] = "pending"
  /\ response' = [response EXCEPT ![r] = kind]
  /\ UNCHANGED <<receiving, sending, item, queue, shutdown, hasDiscard, serving,
                 clientVars, discarded, chunks, writer, freed, wire>>

WriteChunk(r) ==
  /\ response[r] = "pipe" /\ writer[r] = "open"
  /\ chunks[r] + Cardinality({i \in 1..Len(wire) : wire[i] = <<r, "chunk">>}) < MaxChunks
  /\ chunks' = [chunks EXCEPT ![r] = @ + 1]
  /\ UNCHANGED <<receiving, sending, item, queue, shutdown, hasDiscard, serving,
                 clientVars, discarded, response, writer, freed, wire>>

EndStream(r, how) ==
  /\ response[r] = "pipe" /\ writer[r] = "open"
  /\ writer' = [writer EXCEPT ![r] = how]
  /\ UNCHANGED <<receiving, sending, item, queue, shutdown, hasDiscard, serving,
                 clientVars, discarded, response, chunks, freed, wire>>

Receive == \/ \E n \in 1..2, alive \in BOOLEAN : ReceiveRequests(n, alive)
           \/ \E how \in Ended : ReceiveEnds(how)
ReceiveMustEnd ==
  ("READ" \in shutdown /\ ReceiveEnds("ready")) \/ ReceiveEnds("discarded")
Send == Get \/ Awaited \/ (\E c \in BOOLEAN : Sent(c) \/ SentChunk(c)) \/ SendFails
Loops == Send \/ SendDiscarded \/ Cleanup
EndsStream == \E r \in Request, how \in {"closed", "failed"} : EndStream(r, how)
Handler == \E r \in Request :
  \/ \E kind \in {"body", "pipe", "failed", "abandoned"} : Respond(r, kind)
  \/ WriteChunk(r)
Next == Receive \/ Loops \/ Discard \/ Handler \/ EndsStream

\* The loops make progress, a socket that is shut down for reading returns the
\* end of file, and a handler ends its streams; it need not answer.
Spec == Init /\ [][Next]_vars
Fairness == WF_vars(Loops) /\ WF_vars(ReceiveMustEnd) /\ WF_vars(EndsStream)
FairSpec == Spec /\ Fairness

-----------------------------------------------------------------------------
\* A request is deleted once, and none is left when serving has ended, whichever
\* loop ended first and however.
RequestsFreedOnce ==
  /\ \A r \in Request : freed[r] <= 1 /\ (freed[r] = 1 => r <= arrived)
  /\ serving # "pending" => \A r \in 1..arrived : freed[r] = 1

\* The responses of pipelined requests are sent whole and in order.
ServedInOrder ==
  \A i, j \in 1..Len(wire) : i < j =>
    /\ wire[i][1] <= wire[j][1]
    /\ wire[i][2] \in {"response", "end"} => wire[i][1] < wire[j][1]

\* Nothing is sent after the response of a request that is not kept alive.
NothingAfterLast ==
  \A i \in 1..Len(wire) : i < Len(wire) =>
    (wire[i][2] \in {"response", "end"} => keepAlive[wire[i][1]])

\* If serving was discarded, every handler has answered or was told to stop.
HandlersTold ==
  serving # "pending" /\ hasDiscard =>
    \A r \in 1..arrived : Ready(r) \/ response[r] = "abandoned" \/ r \in discarded

\* When either loop has ended the other one is made to end: a discard ends
\* serving, and so does the end of sending.
Owed == hasDiscard \/ sending \in Ended
Paid == serving # "pending"
ServingEnds == Owed ~> Paid

\* What a client and the handlers of its requests rely on.
Safe == RequestsFreedOnce /\ ServedInOrder /\ NothingAfterLast /\ HandlersTold
=============================================================================

------------------------------- MODULE Collect ------------------------------
(***************************************************************************)
(* process::collect and process::await (include/process/collect.hpp): a    *)
(* process of their own that waits for a set of futures.  Its callbacks on *)
(* the futures are deferred to it, so each of them is an event; terminate  *)
(* is injected in front of the events that are already queued.             *)
(***************************************************************************)
EXTENDS Naturals, Sequences, FiniteSets

CONSTANTS Input   \* the futures, a nonempty set

VARIABLES
  kind,      \* "collect" or "await"
  input,     \* input[i]: "pending", "ready", "failed", "discarded" or "abandoned"
  asked,     \* asked[i]: it has a discard request
  result,    \* the future returned; "abandoned" when its promise is deleted
  discard,   \* it has a discard request
  process,   \* "spawned", "running" or "deleted"
  mailbox, ready,
  aborted    \* has a CHECK failed, or a value been read that is not there?

vars == <<kind, input, asked, result, discard, process, mailbox, ready, aborted>>

Ended == {"ready", "failed", "discarded"}

Init ==
  /\ kind \in {"collect", "await"}
  /\ input = [i \in Input |-> "pending"] /\ asked = [i \in Input |-> FALSE]
  /\ result = "pending" /\ discard = FALSE
  /\ process = "spawned" /\ mailbox = <<>> /\ ready = 0 /\ aborted = FALSE

Inject(events) == mailbox' = <<<<"terminate">>>> \o events

\* The event a future that is no longer pending leads to.
Callback(i, how) == IF how = "abandoned" THEN <<"abandoned">> ELSE <<"waited", i>>

\* initialize(): the callbacks on futures that are complete run at once.
initialize ==
  /\ process = "spawned" /\ process' = "running"
  /\ \E order \in [1..Cardinality(Input) -> Input] :
       /\ \A i \in Input : \E k \in DOMAIN order : order[k] = i
       /\ mailbox' = (IF discard THEN <<<<"discarded">>>> ELSE <<>>)
            \o [k \in 1..Cardinality({i \in Input : input[i] # "pending"}) |->
                  LET i == SelectSeq(order, LAMBDA j : input[j] # "pending")[k]
                  IN  Callback(i, input[i])]
  /\ UNCHANGED <<kind, input, asked, result, discard, ready, aborted>>

\* A future completes, or its promise is deleted.
Settle(i, how) ==
  /\ input[i] = "pending" /\ input' = [input EXCEPT ![i] = how]
  /\ mailbox' = IF process = "running" THEN Append(mailbox, Callback(i, how)) ELSE mailbox
  /\ UNCHANGED <<kind, asked, result, discard, process, ready, aborted>>

\* The caller discards the result.
Discard ==
  /\ result = "pending" /\ ~discard /\ discard' = TRUE
  /\ mailbox' = IF process = "running" THEN Append(mailbox, <<"discarded">>) ELSE mailbox
  /\ UNCHANGED <<kind, input, asked, result, process, ready, aborted>>

Handling(event) == process = "running" /\ mailbox # <<>> /\ Head(mailbox) = event

abandoned ==
  /\ Handling(<<"abandoned">>) /\ Inject(Tail(mailbox))
  /\ UNCHANGED <<kind, input, asked, result, discard, process, ready, aborted>>

\* MUTANT: discards the result only.
discarded_result ==
  /\ Handling(<<"discarded">>) /\ Inject(Tail(mailbox))
  /\ asked' = asked
  /\ result' = IF result = "pending" THEN "discarded" ELSE result
  /\ UNCHANGED <<kind, input, discard, process, ready, aborted>>

discarded ==
  /\ Handling(<<"discarded">>) /\ Inject(Tail(mailbox))
  /\ asked' = [i \in Input |-> asked[i] \/ input[i] = "pending"]
  /\ result' = IF result = "pending" THEN "discarded" ELSE result
  /\ UNCHANGED <<kind, input, discard, process, ready, aborted>>

\* The promise becomes `how' and the process is terminated.
Finish(how) ==
  /\ result' = IF result = "pending" THEN how ELSE result
  /\ Inject(Tail(mailbox))

Counted ==
  /\ ready' = ready + 1
  /\ IF ready + 1 = Cardinality(Input)
       THEN /\ Finish("ready")
            /\ aborted' = (aborted \/ (kind = "collect" /\ \E j \in Input : input[j] # "ready"))
       ELSE mailbox' = Tail(mailbox) /\ UNCHANGED <<result, aborted>>

\* MUTANT: a discarded future is counted like one that is ready.
waited_discarded(i) ==
  /\ Handling(<<"waited", i>>)
  /\ IF kind = "collect" /\ input[i] = "failed"
       THEN Finish("failed") /\ UNCHANGED <<ready, aborted>>
       ELSE Counted
  /\ UNCHANGED <<kind, input, asked, discard, process>>

\* CollectProcess fails with the first future that is not ready; AwaitProcess
\* counts them all.
waited(i) ==
  /\ Handling(<<"waited", i>>)
  /\ IF kind = "collect" /\ input[i] \in {"failed", "discarded"}
       THEN Finish("failed") /\ UNCHANGED <<ready, aborted>>
       ELSE Counted
  /\ UNCHANGED <<kind, input, asked, discard, process>>

\* The managed process is deleted, and its promise with it.
terminate ==
  /\ Handling(<<"terminate">>) /\ process' = "deleted" /\ mailbox' = <<>>
  /\ result' = IF result = "pending" THEN "abandoned" ELSE result
  /\ UNCHANGED <<kind, input, asked, discard, ready, aborted>>

Process == initialize \/ abandoned \/ discarded \/ (\E i \in Input : waited(i)) \/ terminate
Next == Process \/ Discard \/ \E i \in Input, how \in Ended \cup {"abandoned"} : Settle(i, how)
Spec == Init /\ [][Next]_vars
FairSpec == Spec /\ WF_vars(Process)

-----------------------------------------------------------------------------
TypeOK ==
  /\ input \in [Input -> Ended \cup {"pending", "abandoned"}]
  /\ asked \in [Input -> BOOLEAN] /\ result \in Ended \cup {"pending", "abandoned"}
  /\ ready \in 0..Cardinality(Input) /\ process \in {"spawned", "running", "deleted"}

(***************************************************************************)
(* The result agrees with the futures whatever the order of the events: it *)
(* is ready only if all of them are (for await: if none is pending), fails *)
(* only if one failed or was discarded, and is abandoned only if one was;  *)
(* and when it is discarded, every future that was pending has been asked  *)
(* to discard already (the happens-before relationship of discarded()).    *)
(***************************************************************************)
Safe ==
  /\ TypeOK /\ ~aborted
  /\ result = "ready" =>
       \A i \in Input : input[i] \in (IF kind = "collect" THEN {"ready"} ELSE Ended)
  /\ result = "failed" =>
       kind = "collect" /\ \E i \in Input : input[i] \in {"failed", "discarded"}
  /\ result = "abandoned" => \E i \in Input : input[i] = "abandoned"
  /\ result = "discarded" => \A i \in Input : input[i] = "pending" => asked[i]
  /\ process = "deleted" => result # "pending"

\* The result completes once all futures have, and a collection as soon as one
\* of them has failed: it does not wait for the others.
Owed ==
  \/ kind = "collect" /\ \E i \in Input : input[i] \in {"failed", "discarded"}
  \/ \A i \in Input : input[i] # "pending"
Paid == result # "pending" /\ process = "deleted"
Returns == Owed ~> Paid
=============================================================================

---------------------------- MODULE GrpcRuntime -----------------------------
(***************************************************************************)
(* client::Runtime of include/process/grpc.hpp and src/grpc.cpp: calls are *)
(* started by a process and end in a completion queue, from which a thread *)
(* of its own takes them back to the process.  terminate() shuts the queue *)
(* down; the thread terminates the process when the queue is drained.      *)
(***************************************************************************)
EXTENDS Naturals, Sequences

CONSTANTS
  Call,            \* the calls that may be made
  MaxTerminates    \* bound on the calls of terminate(), ~Data included

VARIABLES
  mailbox,      \* of the runtime process: <<"send", c>>, <<"receive", c>>,
                \* <<"terminate">> and the terminate event, <<"exit">>
  process,      \* "new", "running", "finalize" or "gone"
  terminating,
  started,      \* the calls that gRPC is working on ...
  completed,    \* ... and the tags of those that have ended
  shutdown,     \* the completion queue has been shut down
  looper,       \* the thread: "none", "running" or "exited"
  promise,      \* promise[c]: "none", "pending", "set", "failed", "discarded",
                \* or "abandoned"
  asked,        \* the calls whose future was asked to discard
  sent,         \* the calls that were ever started (history)
  terminated,   \* the promise of wait()
  requests,     \* the number of terminate()s so far
  aborted       \* has a CHECK failed?

vars == <<mailbox, process, terminating, started, completed, shutdown, looper, promise,
          asked, sent, terminated, requests, aborted>>
grpc == <<started, completed, shutdown>>

Init ==
  /\ mailbox = <<>> /\ process = "new" /\ terminating = FALSE
  /\ started = {} /\ completed = <<>> /\ shutdown = FALSE /\ looper = "none"
  /\ promise = [c \in Call |-> "none"] /\ asked = {} /\ sent = {}
  /\ terminated = FALSE /\ requests = 0 /\ aborted = FALSE

\* A process that is gone gets nothing.
Dispatch(event) == mailbox' = IF process = "gone" THEN mailbox ELSE Append(mailbox, event)

-----------------------------------------------------------------------------
(* Any thread                                                              *)

call(c) ==
  /\ promise[c] = "none"
  /\ promise' = [promise EXCEPT ![c] = IF process = "gone" THEN "abandoned" ELSE "pending"]
  /\ Dispatch(<<"send", c>>)
  /\ UNCHANGED <<process, terminating, grpc, looper, asked, sent, terminated, requests,
                 aborted>>

\* A call under way is cancelled (TryCancel), which only makes it end sooner.
Discard(c) ==
  /\ promise[c] = "pending" /\ c \notin asked
  /\ asked' = asked \cup {c}
  /\ UNCHANGED <<mailbox, process, terminating, grpc, looper, promise, sent, terminated,
                 requests, aborted>>

terminate ==
  /\ requests < MaxTerminates /\ requests' = requests + 1
  /\ Dispatch(<<"terminate">>)
  /\ UNCHANGED <<process, terminating, grpc, looper, promise, asked, sent, terminated,
                 aborted>>

-----------------------------------------------------------------------------
(* The process                                                             *)

initialize ==
  /\ process = "new" /\ process' = "running" /\ looper' = "running"
  /\ UNCHANGED <<mailbox, terminating, grpc, promise, asked, sent, terminated, requests,
                 aborted>>

\* Take the next event, e.g. <<"send", c>>, from the mailbox.
Event(event) ==
  /\ process = "running" /\ mailbox # <<>> /\ Head(mailbox) = event
  /\ mailbox' = Tail(mailbox)

send(c) ==
  /\ Event(<<"send", c>>)
  /\ IF terminating
     THEN promise' = [promise EXCEPT ![c] = "failed"] /\ UNCHANGED <<started, sent>>
     ELSE started' = started \cup {c} /\ sent' = sent \cup {c} /\ UNCHANGED promise
  /\ UNCHANGED <<process, terminating, completed, shutdown, looper, asked, terminated,
                 requests, aborted>>

receive(c) ==
  /\ Event(<<"receive", c>>)
  /\ aborted' = (aborted \/ promise[c] # "pending")
  /\ promise' = [promise EXCEPT ![c] = IF c \in asked THEN "discarded" ELSE "set"]
  /\ UNCHANGED <<process, terminating, grpc, looper, asked, sent, terminated, requests>>

Shutdown ==
  /\ Event(<<"terminate">>)
  /\ terminating' = TRUE /\ shutdown' = TRUE
  /\ UNCHANGED <<process, started, completed, looper, promise, asked, sent, terminated,
                 requests, aborted>>

Exit ==
  /\ Event(<<"exit">>)
  /\ process' = "finalize" /\ aborted' = (aborted \/ ~terminating)
  /\ UNCHANGED <<terminating, grpc, looper, promise, asked, sent, terminated, requests>>

\* finalize(), which joins the thread; then the events left in the mailbox are
\* deleted, and with them the promises of the calls.
finalize ==
  /\ process = "finalize" /\ looper = "exited"
  /\ looper' = "none" /\ terminated' = TRUE /\ process' = "gone"
  /\ promise' = [c \in Call |-> IF \E i \in DOMAIN mailbox : Len(mailbox[i]) = 2
                                                             /\ mailbox[i][2] = c
                                THEN "abandoned" ELSE promise[c]]
  /\ mailbox' = <<>>
  /\ UNCHANGED <<terminating, grpc, asked, sent, requests, aborted>>

-----------------------------------------------------------------------------
(* gRPC, and the looper thread                                             *)

\* A response, an error, a cancellation, or the deadline of the call.
Complete(c) ==
  /\ c \in started
  /\ started' = started \ {c} /\ completed' = Append(completed, c)
  /\ UNCHANGED <<mailbox, process, terminating, shutdown, looper, promise, asked, sent,
                 terminated, requests, aborted>>

\* MUTANT: the thread terminates the process ahead of the events queued.
loop_injected ==
  /\ looper = "running"
  /\ \/ /\ completed # <<>> /\ completed' = Tail(completed)
        /\ Dispatch(<<"receive", Head(completed)>>) /\ UNCHANGED looper
     \/ /\ shutdown /\ started = {} /\ completed = <<>>
        /\ mailbox' = <<<<"exit">>>> \o mailbox /\ looper' = "exited" /\ UNCHANGED completed
  /\ UNCHANGED <<process, terminating, started, shutdown, promise, asked, sent, terminated,
                 requests, aborted>>

\* Next() gives a tag, or says that the queue is shut down and drained.
loop ==
  /\ looper = "running"
  /\ \/ /\ completed # <<>> /\ completed' = Tail(completed)
        /\ Dispatch(<<"receive", Head(completed)>>) /\ UNCHANGED looper
     \/ /\ shutdown /\ started = {} /\ completed = <<>>
        /\ Dispatch(<<"exit">>) /\ looper' = "exited" /\ UNCHANGED completed
  /\ UNCHANGED <<process, terminating, started, shutdown, promise, asked, sent, terminated,
                 requests, aborted>>

Process == \/ initialize \/ Shutdown \/ Exit \/ finalize
           \/ \E c \in Call : send(c) \/ receive(c)
Ends == \E c \in Call : Complete(c)
Next == (\E c \in Call : call(c) \/ Discard(c)) \/ terminate \/ Process \/ Ends \/ loop
Spec == Init /\ [][Next]_vars
\* The process and the thread are scheduled, and calls have a deadline.
FairSpec == Spec /\ WF_vars(Process) /\ WF_vars(loop) /\ WF_vars(Ends)

-----------------------------------------------------------------------------
\* How often the runtime has the callbacks of call c.
Places(c) == (IF c \in started THEN 1 ELSE 0)
             + Len(SelectSeq(completed, LAMBDA d : d = c))
             + Len(SelectSeq(mailbox, LAMBDA e : Len(e) = 2 /\ e[2] = c))

(***************************************************************************)
(* A call is pending exactly while its send or its receive callback is in  *)
(* one place of the runtime, so it is completed once and CHECK_PENDING     *)
(* holds.  A call that was started is never abandoned, although the        *)
(* process is terminated with events in its mailbox; it is discarded only  *)
(* on request.  When wait() is over no call is left, nor is the thread.    *)
(***************************************************************************)
Safe ==
  /\ ~aborted
  /\ \A c \in Call :
       /\ Places(c) = IF promise[c] = "pending" THEN 1 ELSE 0
       /\ c \in sent => promise[c] \in {"pending", "set", "discarded"}
       /\ promise[c] \in {"set", "discarded"} => c \in sent
       /\ promise[c] = "discarded" => c \in asked
  /\ terminated => /\ process = "gone" /\ looper = "none"
                   /\ \A c \in Call : promise[c] # "pending"

\* Every call is answered, and a runtime that is told to terminate does.
Owed(k) == (k \in Call /\ promise[k] = "pending") \/ (k = 3 /\ requests > 0)
Paid(k) == (k \in Call /\ promise[k] # "pending") \/ (k = 3 /\ terminated)
Answered == \A k \in Call \cup {3} : Owed(k) ~> Paid(k)
=============================================================================

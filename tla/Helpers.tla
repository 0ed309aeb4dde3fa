------------------------------ MODULE Helpers -------------------------------
(***************************************************************************)
(* What libprocess makes to wait for one thing on behalf of a caller.      *)
(* WaitWaiter, for wait() with a timeout (src/process.cpp), and            *)
(* ReqResProcess, for the response to a request (include/process/          *)
(* protobuf.hpp), are processes that may get two events of which only the  *)
(* first counts: its handler terminates the process, ahead of what is in   *)
(* its mailbox.  after() (include/process/after.hpp) is a future that a    *)
(* timer completes, unless a discard cancels the timer first; `process' is *)
(* then where the threads of the caller are.                               *)
(***************************************************************************)
EXTENDS Naturals, Sequences

VARIABLES
  kind,       \* "wait", "request" or "after" (a constant of the behaviour)
  target,     \* the process waited for, or asked: "alive" or "gone"
  process,    \* the helper: "new", "running" or "terminated"; of after(): "new",
              \* "timer" made, "returned", or, discarding: "cancel", "discard", "over"
  mailbox,
  timer,      \* of a WaitWaiter or after(): "none", "set", "taken" by the clock,
              \* "fired" or "cancelled"
  request,    \* of a ReqResProcess: "none", "sent", "lost" or "answered"
  asked,      \* has the caller asked to discard the future?
  result,     \* *waited or the promise: "none", "true", "false", "set", "discarded"
  written,    \* how often a handler has written it
  returned    \* wait() has returned, and *waited is no more

vars == <<kind, target, process, mailbox, timer, request, asked, result, written, returned>>

Init ==
  /\ kind \in {"wait", "request", "after"} /\ target \in {"alive", "gone"}
  /\ process = "new" /\ mailbox = <<>> /\ timer = "none" /\ request = "none"
  /\ asked = FALSE /\ result = "none" /\ written = 0 /\ returned = FALSE

Deliver(event) ==
  mailbox' = IF process = "terminated" THEN mailbox ELSE Append(mailbox, event)

\* WaitWaiter::initialize: a link to a process that is gone exits at once.
initialize ==
  /\ kind = "wait" /\ process = "new" /\ process' = "running"
  /\ mailbox' = (IF target = "gone" THEN <<"exited">> ELSE <<>>)
  /\ timer' = "set"
  /\ UNCHANGED <<kind, target, request, asked, result, written, returned>>

\* ReqResProcess::run.  If the caller has discarded the future by now, onDiscard
\* runs its callback, which is deferred.
run ==
  /\ kind = "request" /\ process = "new" /\ process' = "running"
  /\ mailbox' = IF asked THEN <<"discarded">> ELSE <<>>
  /\ request' = IF target = "gone" THEN "lost" ELSE "sent"
  /\ UNCHANGED <<kind, target, timer, asked, result, written, returned>>

\* The process waited for, or asked, is cleaned up: the links exit.
TargetEnds ==
  /\ kind # "after" /\ target = "alive" /\ target' = "gone"
  /\ IF kind = "wait" /\ process = "running" THEN Deliver("exited") ELSE UNCHANGED mailbox
  /\ request' = IF request = "sent" THEN "lost" ELSE request
  /\ UNCHANGED <<kind, process, timer, asked, result, written, returned>>

TimerFires ==
  /\ kind = "wait" /\ timer = "set" /\ timer' = "fired" /\ Deliver("timeout")
  /\ UNCHANGED <<kind, target, process, request, asked, result, written, returned>>

Answer ==
  /\ request = "sent" /\ target = "alive"
  /\ request' = "answered" /\ Deliver("response")
  /\ UNCHANGED <<kind, target, process, timer, asked, result, written, returned>>

\* The caller discards the future, before or after run().
Discard ==
  /\ kind = "request" /\ ~asked /\ asked' = TRUE
  /\ IF process = "running" /\ result = "none" THEN Deliver("discarded")
     ELSE UNCHANGED mailbox
  /\ UNCHANGED <<kind, target, process, timer, request, result, written, returned>>

\* What each handler writes.
Outcome(event) == CASE event = "exited" -> "true" [] event = "timeout" -> "false"
                    [] event = "response" -> "set" [] event = "discarded" -> "discarded"

\* MUTANT: terminate(self(), false), behind the events that are queued.
Handle_queued ==
  /\ process = "running" /\ mailbox # <<>> /\ Head(mailbox) # "terminate"
  /\ result' = Outcome(Head(mailbox)) /\ written' = written + 1
  /\ mailbox' = Tail(mailbox) \o <<"terminate">>
  /\ UNCHANGED <<kind, target, process, timer, request, asked, returned>>

\* exited, timeout, response and discarded; each ends with terminate(self()).
Handle ==
  /\ process = "running" /\ mailbox # <<>> /\ Head(mailbox) # "terminate"
  /\ result' = Outcome(Head(mailbox)) /\ written' = written + 1
  /\ mailbox' = <<"terminate">> \o Tail(mailbox)
  /\ UNCHANGED <<kind, target, process, timer, request, asked, returned>>

\* The helper ends with what is left in its mailbox; the destructor of a
\* ReqResProcess would discard a promise that is still pending.
Terminate ==
  /\ process = "running" /\ mailbox # <<>> /\ Head(mailbox) = "terminate"
  /\ process' = "terminated" /\ mailbox' = <<>>
  /\ result' = IF result = "none" THEN "discarded" ELSE result
  /\ UNCHANGED <<kind, target, timer, request, asked, written, returned>>

\* wait(waiter) is over, and wait() returns *waited.
Return ==
  /\ kind = "wait" /\ process = "terminated" /\ ~returned /\ returned' = TRUE
  /\ UNCHANGED <<kind, target, process, mailbox, timer, request, asked, result, written>>

-----------------------------------------------------------------------------
(* after()                                                                 *)

\* The timer may expire before onDiscard has its callback.
after ==
  /\ kind = "after" /\ process = "new" /\ process' = "timer" /\ timer' = "set"
  /\ UNCHANGED <<kind, target, mailbox, request, asked, result, written, returned>>
AfterReturns ==
  /\ process = "timer" /\ process' = "returned"
  /\ UNCHANGED <<kind, target, mailbox, timer, request, asked, result, written, returned>>

\* Setting or discarding the promise does nothing unless it is pending.
Complete(how) ==
  IF result = "none" THEN result' = how /\ written' = written + 1
                     ELSE UNCHANGED <<result, written>>

\* The clock takes the timers that are due, and then runs what they hold.
Expire ==
  /\ kind = "after" /\ timer = "set" /\ timer' = "taken"
  /\ UNCHANGED <<kind, target, process, mailbox, request, asked, result, written, returned>>
Fire ==
  /\ timer = "taken" /\ timer' = "fired" /\ Complete("set")
  /\ UNCHANGED <<kind, target, process, mailbox, request, asked, returned>>

\* A discard of the future, while it is pending, runs the callback ...
DiscardAfter ==
  /\ process = "returned" /\ result = "none"
  /\ process' = "cancel" /\ asked' = TRUE
  /\ UNCHANGED <<kind, target, mailbox, timer, request, result, written, returned>>

\* MUTANT: the answer of cancel is taken for its opposite.
Cancel_inverted ==
  /\ process = "cancel"
  /\ timer' = IF timer = "set" THEN "cancelled" ELSE timer
  /\ process' = IF timer = "set" THEN "over" ELSE "discard"
  /\ UNCHANGED <<kind, target, mailbox, request, asked, result, written, returned>>

\* ... Clock::cancel, which says yes if there is a timer with this time, though it
\* be that of another call of after() ...
Cancel ==
  /\ process = "cancel"
  /\ timer' = IF timer = "set" THEN "cancelled" ELSE timer
  /\ \/ process' = "discard"
     \/ timer # "set" /\ process' = "over"
  /\ UNCHANGED <<kind, target, mailbox, request, asked, result, written, returned>>

\* ... and discards the promise if it did.
DiscardPromise ==
  /\ process = "discard" /\ process' = "over" /\ Complete("discarded")
  /\ UNCHANGED <<kind, target, mailbox, timer, request, asked, returned>>

After == after \/ AfterReturns \/ Cancel \/ DiscardPromise

Steps == initialize \/ run \/ Handle \/ Terminate \/ Return \/ After
Clock == TimerFires \/ Expire \/ Fire
Next == Steps \/ Clock \/ DiscardAfter \/ TargetEnds \/ Answer \/ Discard
Spec == Init /\ [][Next]_vars
\* Workers and clock go on; the target need not end, nor answer.
FairSpec == Spec /\ WF_vars(Steps) /\ WF_vars(Clock)

-----------------------------------------------------------------------------
(***************************************************************************)
(* The result is written once, though exited and timeout, or response and  *)
(* discarded, race, and never after wait() returned.  wait() returns true  *)
(* only if the process is gone, and false only after the timeout; a future *)
(* is discarded only on request, and set only with an answer or when its   *)
(* timer expired.  An after() that is pending has a timer, or a thread,    *)
(* that will complete it, whatever cancel() says of a timer that the clock *)
(* has taken.                                                              *)
(***************************************************************************)
Safe ==
  /\ written <= 1 /\ (written = 0) = (result = "none")
  /\ returned => process = "terminated" /\ result \in {"true", "false"}
  /\ result = "true" => target = "gone"
  /\ result = "false" => timer = "fired"
  /\ result = "set" => IF kind = "after" THEN timer = "fired" ELSE request = "answered"
  /\ result = "discarded" => asked
  /\ kind = "after" /\ result = "none" /\ process # "new" =>
       timer \in {"set", "taken"} \/ process = "discard"

\* A wait() with a timeout returns, a request that is answered or discarded
\* completes, and so does every after().
Owed == kind # "request" \/ asked \/ request = "answered"
Paid == CASE kind = "wait" -> returned
          [] kind = "request" -> result # "none" /\ process = "terminated"
          [] kind = "after" -> result # "none"
Returns == Owed ~> Paid
=============================================================================

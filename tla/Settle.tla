------------------------------- MODULE Settle -------------------------------
(***************************************************************************)
(* ProcessManager::settle (src/process.cpp): Clock::settle waits until no  *)
(* process runs or is queued and no expired timer is left, by looking at   *)
(* counters that the worker threads, the waiting threads and the event     *)
(* loop change at the same time.                                           *)
(*                                                                         *)
(* Time is paused.  A process is a unit of work in the run queue; while a  *)
(* thread runs one it may enqueue more, set a timer that is already        *)
(* expired.  Other threads donate themselves to a queued process while     *)
(* they wait for it (ProcessManager::wait).                                *)
(***************************************************************************)
EXTENDS Naturals

CONSTANTS
  Workers,
  Donors,      \* other threads, which wait for processes
  MaxWork      \* bound: processes enqueued and timers set

VARIABLES
  runq, epoch, semaphore, running,
  expired,     \* timers before the paused time that the clock still holds
  settling,    \* clock::settling
  firing,      \* expired timers that the event loop is running
  loop,        \* what the event loop does: a tick, or the enqueue of a timer
  pc,          \* pc[w]: what a worker or a donor does
  spc, old,    \* the thread in settle, and the epoch it remembers
  work         \* units of work created so far

queueVars == <<runq, epoch, semaphore>>
clockVars == <<expired, settling, firing, loop>>
settleVars == <<spc, old>>
vars == <<queueVars, running, clockVars, pc, settleVars, work>>

Init ==
  /\ runq \in 0..1 /\ epoch = runq /\ semaphore = runq
  /\ running = 0
  /\ expired \in 0..1 /\ settling = FALSE /\ firing = 0 /\ loop = "idle"
  /\ pc = [w \in Workers \cup Donors |-> IF w \in Workers THEN "start" ELSE "outside"]
  /\ spc = "epoch" /\ old = 0
  /\ work = 0

Goto(w, next) == pc' = [pc EXCEPT ![w] = next]

-----------------------------------------------------------------------------
(* RunQueue::enqueue: push, then epoch, then signal.                       *)

Push == runq' = runq + 1 /\ UNCHANGED <<epoch, semaphore>>
Count == epoch' = epoch + 1 /\ UNCHANGED <<runq, semaphore>>
Signal == semaphore' = semaphore + 1 /\ UNCHANGED <<runq, epoch>>

EnqueueNext(at) ==
  CASE at = "push" -> "count" [] at = "count" -> "signal" [] at = "signal" -> "done"
EnqueueStep(at) ==
  \/ at = "push" /\ Push
  \/ at = "count" /\ Count
  \/ at = "signal" /\ Signal

-----------------------------------------------------------------------------
(* Worker threads: the loop of init_threads and ProcessManager::dequeue.   *)

Start(w) ==
  /\ pc[w] = "start"
  /\ running' = running + 1 /\ Goto(w, "next")
  /\ UNCHANGED <<queueVars, clockVars, settleVars, work>>

NextProcess(w) ==
  /\ pc[w] = "next"
  /\ running' = running - 1 /\ Goto(w, "wait")
  /\ UNCHANGED <<queueVars, clockVars, settleVars, work>>

Wait(w) ==
  /\ pc[w] = "wait" /\ semaphore > 0
  /\ semaphore' = semaphore - 1 /\ Goto(w, "woken")
  /\ UNCHANGED <<runq, epoch, running, clockVars, settleVars, work>>

Woken(w) ==
  /\ pc[w] = "woken"
  /\ running' = running + 1 /\ Goto(w, "dequeue")
  /\ UNCHANGED <<queueVars, clockVars, settleVars, work>>

Dequeue(w) ==
  /\ pc[w] = "dequeue"
  /\ runq' = IF runq > 0 THEN runq - 1 ELSE 0
  /\ Goto(w, IF runq > 0 THEN "busy" ELSE "next")
  /\ UNCHANGED <<epoch, semaphore, running, clockVars, settleVars, work>>

Finish(w) ==
  /\ pc[w] = "busy" /\ Goto(w, IF w \in Workers THEN "next" ELSE "donated")
  /\ UNCHANGED <<queueVars, running, clockVars, settleVars, work>>

\* The process sends to a blocked process, which is enqueued.
Send(w) ==
  /\ pc[w] = "busy" /\ work < MaxWork
  /\ work' = work + 1 /\ Goto(w, "push")
  /\ UNCHANGED <<queueVars, running, clockVars, settleVars>>

Enqueue(w) ==
  /\ pc[w] \in {"push", "count", "signal"} /\ EnqueueStep(pc[w])
  /\ Goto(w, IF pc[w] = "signal" THEN "busy" ELSE EnqueueNext(pc[w]))
  /\ UNCHANGED <<running, clockVars, settleVars, work>>

\* The process sets a timer that is due.
SetTimer(w) ==
  /\ pc[w] = "busy" /\ work < MaxWork
  /\ work' = work + 1 /\ expired' = expired + 1
  /\ UNCHANGED <<queueVars, running, settling, firing, loop, pc, settleVars>>

\* ProcessManager::wait: the thread counts as running before it tries to
\* extract the process from the run queue, and until it has run it.
Donate(w) ==
  /\ pc[w] = "outside" /\ runq > 0
  /\ running' = running + 1 /\ Goto(w, "extract")
  /\ UNCHANGED <<queueVars, clockVars, settleVars, work>>

Extract(w) ==
  /\ pc[w] = "extract"
  /\ runq' = IF runq > 0 THEN runq - 1 ELSE 0
  /\ Goto(w, IF runq > 0 THEN "busy" ELSE "donated")
  /\ UNCHANGED <<epoch, semaphore, running, clockVars, settleVars, work>>

\* MUTANT: the thread still counts as running after its donation.
DonatedStillCounted(w) ==
  /\ pc[w] = "donated" /\ Goto(w, "outside")
  /\ UNCHANGED <<queueVars, running, clockVars, settleVars, work>>

Donated(w) ==
  /\ pc[w] = "donated"
  /\ running' = running - 1 /\ Goto(w, "outside")
  /\ UNCHANGED <<queueVars, clockVars, settleVars, work>>

-----------------------------------------------------------------------------
(* The event loop: a tick of the clock, whose timers enqueue processes.    *)

TakeExpired ==
  /\ loop = "idle" /\ expired > 0
  /\ firing' = expired /\ expired' = 0 /\ settling' = TRUE
  /\ loop' = "fire"
  /\ UNCHANGED <<queueVars, running, pc, settleVars, work>>

Fire ==
  /\ loop = "fire" /\ firing > 0 /\ loop' = "push"
  /\ UNCHANGED <<queueVars, running, expired, settling, firing, pc, settleVars,
                 work>>

FireEnqueue ==
  /\ loop \in {"push", "count", "signal"} /\ EnqueueStep(loop)
  /\ loop' = IF loop = "signal" THEN "fire" ELSE EnqueueNext(loop)
  /\ firing' = IF loop = "signal" THEN firing - 1 ELSE firing
  /\ UNCHANGED <<running, expired, settling, pc, settleVars, work>>

TickDone ==
  /\ loop = "fire" /\ firing = 0
  /\ settling' = IF expired = 0 THEN FALSE ELSE settling
  /\ loop' = "idle"
  /\ UNCHANGED <<queueVars, running, expired, firing, pc, settleVars, work>>

-----------------------------------------------------------------------------
(* The thread in settle.                                                   *)

Look(at, ok, next) ==
  /\ spc = at /\ spc' = IF ok THEN next ELSE "epoch"
  /\ UNCHANGED <<queueVars, running, clockVars, pc, old, work>>

ReadEpoch ==
  /\ spc = "epoch" /\ old' = epoch /\ spc' = "running"
  /\ UNCHANGED <<queueVars, running, clockVars, pc, work>>
NoneRunning == Look("running", running <= 0, "empty")
QueueEmpty == Look("empty", runq = 0, "again")

\* MUTANT: whether a thread runs is not looked at again.
StillNoneRunningSkipped == Look("again", TRUE, "clock")
StillNoneRunning == Look("again", running <= 0, "clock")

ClockSettled == Look("clock", ~settling /\ expired = 0, "same")
SameEpoch == Look("same", old = epoch, "settled")

-----------------------------------------------------------------------------
Worker(w) ==
  \/ Start(w) \/ NextProcess(w) \/ Wait(w) \/ Woken(w) \/ Dequeue(w)
  \/ Finish(w) \/ Send(w) \/ Enqueue(w) \/ SetTimer(w)
  \/ Donate(w) \/ Extract(w) \/ Donated(w)
EventLoop == TakeExpired \/ Fire \/ FireEnqueue \/ TickDone
Settling ==
  \/ ReadEpoch \/ NoneRunning \/ QueueEmpty \/ StillNoneRunning
  \/ ClockSettled \/ SameEpoch

Next == (\E w \in Workers \cup Donors : Worker(w)) \/ EventLoop \/ Settling
Spec == Init /\ [][Next]_vars
FairSpec ==
  Spec /\ WF_vars(EventLoop) /\ WF_vars(Settling)
       /\ \A w \in Workers \cup Donors : WF_vars(Worker(w))

-----------------------------------------------------------------------------
\* No process runs or is queued, and every expired timer has been run.
Idle ==
  /\ runq = 0 /\ expired = 0 /\ loop = "idle"
  /\ \A w \in Workers \cup Donors :
       pc[w] \notin {"busy", "push", "count", "signal"}

(***************************************************************************)
(* clock.hpp: settle returns only after all expired timers are executed,   *)
(* no processes are running and none are ready to run.                     *)
(***************************************************************************)
SettledMeansIdle == spc = "settled" => Idle

\* settle returns once the work runs out.
SettleReturns == <>(spc = "settled")
=============================================================================

--------------------------- MODULE ProcessManager ---------------------------
(***************************************************************************)
(* The scheduling core of libprocess: how an event reaches a process, how  *)
(* a process reaches a thread, and how it is torn down.                    *)
(*                                                                         *)
(*   ProcessManager::use, deliver, spawn, dequeue, resume, cleanup, wait   *)
(*   ProcessBase::enqueue, EventQueue, RunQueue, Gate, ProcessReference    *)
(*                                                                         *)
(* A thread is a worker (the loop of init_threads) or a client (a thread   *)
(* libprocess does not own).  Every atomic access of the code (an atomic   *)
(* load, store or compare-and-swap, one critical section) is a step of its *)
(* own; accesses are merged only where nothing can come between them.      *)
(*                                                                         *)
(* `pc' is where a thread is in the worker loop, in resume/cleanup or in   *)
(* wait; `dpc' is where it is in deliver/enqueue, which a client calls     *)
(* directly and a worker calls from inside a handler.                      *)
(*                                                                         *)
(* The counters `running' and `epoch' serve Clock::settle only; they are   *)
(* in module Settle.  Links and exited events are in module SocketManager. *)
(***************************************************************************)
EXTENDS Naturals, Sequences, FiniteSets, TLC

CONSTANTS
  Process,          \* ProcessBase objects
  Ids,              \* the names under which they are spawned
  Id,               \* pid.id of each object
  Managed,          \* objects spawned with manage = true
  Worker, Client,   \* threads
  Filtering,        \* a test has installed a Filter
  CanExtract,       \* RunQueue::extract is implemented (not LOCK_FREE_RUN_QUEUE)
  LockFreeEvents,   \* LOCK_FREE_EVENT_QUEUE
  MaxEvents,        \* bound: deliveries in a behaviour
  None

Thread == Worker \cup Client

(***************************************************************************)
(* "event" is a message, dispatch, http or exited event; "terminate" is a  *)
(* TerminateEvent with inject = false; "inject" is one with inject = true. *)
(***************************************************************************)
Kind == {"event", "terminate", "inject"}
IsTerminate(e) == e \in {"terminate", "inject"}

State == {"BOTTOM", "READY", "BLOCKED", "TERMINATING"}

ASSUME ConstantsAssumption ==
  /\ Id \in [Process -> Ids]
  /\ Managed \subseteq Process
  /\ Worker \cap Client = {}
  /\ Filtering \in BOOLEAN
  /\ CanExtract \in BOOLEAN /\ LockFreeEvents \in BOOLEAN
  /\ MaxEvents \in Nat
  /\ None \notin Process \cup Thread \cup Kind

VARIABLES
  state, events, comissioned, termination,   \* ProcessBase and its EventQueue
  reference,    \* the shared_ptr the process holds to itself is not reset
  gate,         \* Gate::opened
  spawned,      \* pid.reference is set
  deleted,      \* the object has been deallocated
  processes,    \* ProcessManager::processes: name -> object
  mutex,        \* owner of processes_mutex, None when free
  runq,         \* RunQueue::processes
  semaphore,    \* value of the kernel semaphore of the run queue
  posted,       \* number of deliveries so far (bound)
  pc, proc, event,     \* resume, cleanup and wait: place, process, event
  dpc, dst, devent     \* deliver and enqueue: place, process, event

procVars  == <<state, events, comissioned, termination, reference,
               gate, spawned, deleted>>
queueVars == <<runq, semaphore>>
mapVars   == <<processes, mutex>>
mainVars  == <<pc, proc, event>>
sendVars  == <<dpc, dst, devent, posted>>
vars == <<procVars, queueVars, mapVars, mainVars, sendVars>>

Init ==
  /\ state = [p \in Process |-> "BOTTOM"]
  /\ events = [p \in Process |-> <<>>]
  /\ comissioned = [p \in Process |-> TRUE]
  /\ termination = [p \in Process |-> FALSE]
  /\ reference = [p \in Process |-> TRUE]
  /\ gate = [p \in Process |-> FALSE]
  /\ spawned = [p \in Process |-> FALSE]
  /\ deleted = [p \in Process |-> FALSE]
  /\ processes = [i \in Ids |-> None]
  /\ mutex = None
  /\ runq = <<>>
  /\ semaphore = 0
  /\ posted = 0
  /\ pc = [t \in Thread |-> IF t \in Worker THEN "wait" ELSE "idle"]
  /\ proc = [t \in Thread |-> None]
  /\ event = [t \in Thread |-> None]
  /\ dpc = [t \in Thread |-> "idle"]
  /\ dst = [t \in Thread |-> None]
  /\ devent = [t \in Thread |-> None]

Goto(t, to) == pc' = [pc EXCEPT ![t] = to]
SendGoto(t, to) == dpc' = [dpc EXCEPT ![t] = to]

\* The thread is past the try-donate part of wait, or back in the worker loop.
Return(t) ==
  /\ Goto(t, IF t \in Worker THEN "wait" ELSE "gate")
  /\ proc' = [proc EXCEPT ![t] = IF t \in Worker THEN None ELSE @]

(***************************************************************************)
(* ProcessReference: a thread holds one to p while it runs p's events, up  *)
(* to the release at the end of resume; while wait inspects p; and from    *)
(* use to the end of ProcessBase::enqueue.  spawn enqueues p holding none. *)
(***************************************************************************)
MainHolds(t, p) ==
  /\ proc[t] = p
  /\ pc[t] \in {"loop", "block", "recheck", "unblock", "got", "serve",
                "release", "unref", "inspect", "extract"}
SendHolds(t, p) ==
  /\ dst[t] = p
  /\ dpc[t] \in {"load", "push", "flag", "cas", "runq", "signal"}
Referenced(p) == \E t \in Thread : MainHolds(t, p) \/ SendHolds(t, p)

\* weak_ptr::lock() on pid.reference succeeds.
Alive(p) == reference[p] \/ Referenced(p)

(***************************************************************************)
(* ProcessManager::use: the process a UPID named i resolves to, through    *)
(* the reference cached in the UPID or through the map.  When it resolves  *)
(* to none, deliver drops the event and wait returns false.                *)
(***************************************************************************)
Use(i, p) ==
  \/ Id[p] = i /\ spawned[p] /\ Alive(p)
  \/ mutex = None /\ processes[i] = p /\ reference[p]

\* Where a thread may call into libprocess: a client between two calls, any
\* thread inside initialize() or serve().
CanCall(t) == dpc[t] = "idle" /\ pc[t] \in {"idle", "init", "serve"}

-----------------------------------------------------------------------------
(* deliver(UPID, event), _deliver and ProcessBase::enqueue.                *)

Deliver(t, i, p, e) ==
  /\ CanCall(t) /\ posted < MaxEvents
  /\ Use(i, p)
  /\ posted' = posted + 1
  /\ dst' = [dst EXCEPT ![t] = p]
  /\ devent' = [devent EXCEPT ![t] = e]
  /\ SendGoto(t, "load")
  /\ UNCHANGED <<procVars, queueVars, mapVars, mainVars>>

\* enqueue returns: the caller releases the reference (and deletes the event
\* when it was not enqueued).
SendReturn(t) ==
  /\ SendGoto(t, "idle")
  /\ dst' = [dst EXCEPT ![t] = None]
  /\ devent' = [devent EXCEPT ![t] = None]
  /\ UNCHANGED posted

\* MUTANT: the termination flag is stored before the event is enqueued.
LoadStateFlagsFirst(t) ==
  /\ dpc[t] = "load"
  /\ termination' = [termination EXCEPT ![dst[t]] = @ \/ devent[t] = "inject"]
  /\ SendGoto(t, "push")
  /\ UNCHANGED <<state, events, comissioned, reference, gate, spawned, deleted,
                 queueVars, mapVars, mainVars, dst, devent, posted>>

LoadState(t) ==
  /\ dpc[t] = "load"
  /\ IF state[dst[t]] = "TERMINATING"
       THEN SendReturn(t)
       ELSE SendGoto(t, "push") /\ UNCHANGED <<dst, devent, posted>>
  /\ UNCHANGED <<procVars, queueVars, mapVars, mainVars>>

PushEvent(t) ==
  LET p == dst[t] IN
  /\ dpc[t] = "push"
  /\ IF comissioned[p]
       THEN /\ events' = [events EXCEPT ![p] = Append(@, devent[t])]
            /\ SendGoto(t, IF devent[t] = "inject" THEN "flag" ELSE "cas")
            /\ UNCHANGED <<dst, devent, posted>>
       ELSE SendReturn(t) /\ UNCHANGED events
  /\ UNCHANGED <<state, comissioned, termination, reference, gate, spawned,
                 deleted, queueVars, mapVars, mainVars>>

StoreTermination(t) ==
  /\ dpc[t] = "flag"
  /\ termination' = [termination EXCEPT ![dst[t]] = TRUE]
  /\ SendGoto(t, "cas")
  /\ UNCHANGED <<state, events, comissioned, reference, gate, spawned, deleted,
                 queueVars, mapVars, mainVars, dst, devent, posted>>

\* MUTANT: the process is put in the run queue without exchanging its state.
WakeWithoutSwap(t) ==
  /\ dpc[t] = "cas"
  /\ IF state[dst[t]] = "BLOCKED"
       THEN SendGoto(t, "runq") /\ UNCHANGED <<dst, devent, posted>>
       ELSE SendReturn(t)
  /\ UNCHANGED <<procVars, queueVars, mapVars, mainVars>>

\* load() == BLOCKED and the compare-and-swap: a failed load and a failed
\* exchange do the same, so the pair is one step.
WakeIfBlocked(t) ==
  LET p == dst[t] IN
  /\ dpc[t] = "cas"
  /\ IF state[p] = "BLOCKED"
       THEN /\ state' = [state EXCEPT ![p] = "READY"]
            /\ SendGoto(t, "runq")
            /\ UNCHANGED <<dst, devent, posted>>
       ELSE SendReturn(t) /\ UNCHANGED state
  /\ UNCHANGED <<events, comissioned, termination, reference, gate, spawned,
                 deleted, queueVars, mapVars, mainVars>>

-----------------------------------------------------------------------------
(* RunQueue::enqueue and dequeue, and ProcessManager::dequeue.             *)

\* spawn holds no reference and does not touch the process again after this.
RunqPush(t) ==
  /\ dpc[t] \in {"runq", "spawnq"}
  /\ runq' = Append(runq, dst[t])
  /\ dst' = [dst EXCEPT ![t] = IF dpc[t] = "runq" THEN @ ELSE None]
  /\ SendGoto(t, "signal")
  /\ UNCHANGED <<procVars, semaphore, mapVars, mainVars, devent, posted>>

\* MUTANT: the semaphore is not signalled.
RunqSignalForgotten(t) ==
  /\ dpc[t] = "signal"
  /\ SendReturn(t)
  /\ UNCHANGED <<procVars, queueVars, mapVars, mainVars>>

RunqSignal(t) ==
  /\ dpc[t] = "signal"
  /\ semaphore' = semaphore + 1
  /\ SendReturn(t)
  /\ UNCHANGED <<procVars, runq, mapVars, mainVars>>

RunqWait(t) ==
  /\ pc[t] = "wait" /\ semaphore > 0
  /\ semaphore' = semaphore - 1
  /\ Goto(t, "dequeue")
  /\ UNCHANGED <<procVars, runq, mapVars, proc, event, sendVars>>

\* The queue may be empty: a donating thread may have extracted the process.
RunqDequeue(t) ==
  /\ pc[t] = "dequeue"
  /\ IF runq = <<>>
       THEN Goto(t, "wait") /\ UNCHANGED <<runq, proc>>
       ELSE /\ proc' = [proc EXCEPT ![t] = Head(runq)]
            /\ runq' = Tail(runq)
            /\ Goto(t, "resume")
  /\ UNCHANGED <<procVars, semaphore, mapVars, event, sendVars>>

-----------------------------------------------------------------------------
(* ProcessManager::resume.                                                 *)

\* A failed CHECK ends the program.
Resume(t) ==
  /\ pc[t] = "resume"
  /\ Goto(t, CASE state[proc[t]] = "BOTTOM" -> "init"
               [] state[proc[t]] = "READY" -> "loop"
               [] OTHER -> "abort")
  /\ UNCHANGED <<procVars, queueVars, mapVars, proc, event, sendVars>>

\* initialize() returns; the process becomes READY and is referenced.
Initialized(t) ==
  /\ pc[t] = "init" /\ dpc[t] = "idle"
  /\ state' = [state EXCEPT ![proc[t]] = "READY"]
  /\ Goto(t, "loop")
  /\ UNCHANGED <<events, comissioned, termination, reference, gate, spawned,
                 deleted, queueVars, mapVars, proc, event, sendVars>>

\* empty() and dequeue(): producers only append, so nothing can come between.
DequeueEvent(t) ==
  LET p == proc[t] IN
  /\ pc[t] = "loop"
  /\ IF events[p] # <<>>
       THEN /\ event' = [event EXCEPT ![t] = Head(events[p])]
            /\ events' = [events EXCEPT ![p] = Tail(@)]
            /\ Goto(t, "got")
       ELSE Goto(t, "block") /\ UNCHANGED <<event, events>>
  /\ UNCHANGED <<state, comissioned, termination, reference, gate, spawned,
                 deleted, queueVars, mapVars, proc, sendVars>>

Block(t) ==
  /\ pc[t] = "block"
  /\ state' = [state EXCEPT ![proc[t]] = "BLOCKED"]
  /\ Goto(t, "recheck")
  /\ UNCHANGED <<events, comissioned, termination, reference, gate, spawned,
                 deleted, queueVars, mapVars, proc, event, sendVars>>

\* MUTANT: the queue is not looked at again after storing BLOCKED.
RecheckForgotten(t) ==
  /\ pc[t] = "recheck"
  /\ Goto(t, "release")
  /\ UNCHANGED <<procVars, queueVars, mapVars, proc, event, sendVars>>

Recheck(t) ==
  /\ pc[t] = "recheck"
  /\ Goto(t, IF events[proc[t]] # <<>> THEN "unblock" ELSE "release")
  /\ UNCHANGED <<procVars, queueVars, mapVars, proc, event, sendVars>>

Unblock(t) ==
  LET p == proc[t] IN
  /\ pc[t] = "unblock"
  /\ IF state[p] = "BLOCKED"
       THEN state' = [state EXCEPT ![p] = "READY"] /\ Goto(t, "loop")
       ELSE Goto(t, "release") /\ UNCHANGED state
  /\ UNCHANGED <<events, comissioned, termination, reference, gate, spawned,
                 deleted, queueVars, mapVars, proc, event, sendVars>>

\* The terminate event the purge stops at is the k-th of the queue s.
FirstTerminate(s, k) ==
  /\ k \in 1..Len(s) /\ IsTerminate(s[k])
  /\ \A j \in 1..(k - 1) : ~IsTerminate(s[j])

\* The purge up to the terminate event, when termination was injected, and
\* the filter, which may drop anything but a terminate event.  The purge
\* dequeues until it finds one: dequeue on an empty queue fails a CHECK.
Examine(t) ==
  LET p == proc[t]
      all == <<event[t]>> \o events[p]
  IN
  /\ pc[t] = "got"
  /\ \/ /\ ~termination[p]
        /\ \/ Goto(t, "serve") /\ UNCHANGED event
           \/ /\ Filtering /\ ~IsTerminate(event[t])
              /\ event' = [event EXCEPT ![t] = None]
              /\ Goto(t, "loop")
        /\ UNCHANGED events
     \/ /\ termination[p]
        /\ \E k \in 1..Len(all) :
             /\ FirstTerminate(all, k)
             /\ event' = [event EXCEPT ![t] = all[k]]
             /\ events' = [events EXCEPT ![p] = SubSeq(all, k + 1, Len(all))]
        /\ Goto(t, "serve")
     \/ /\ termination[p]
        /\ \A k \in 1..Len(all) : ~IsTerminate(all[k])
        /\ Goto(t, "abort")
        /\ UNCHANGED <<event, events>>
  /\ UNCHANGED <<state, comissioned, termination, reference, gate, spawned,
                 deleted, queueVars, mapVars, proc, sendVars>>

\* MUTANT: the loop goes on after the terminate event.
ServedGoesOn(t) ==
  /\ pc[t] = "serve" /\ dpc[t] = "idle"
  /\ event' = [event EXCEPT ![t] = None]
  /\ Goto(t, "loop")
  /\ UNCHANGED <<procVars, queueVars, mapVars, proc, sendVars>>

\* serve(event) returns and the event is deleted.
Served(t) ==
  /\ pc[t] = "serve" /\ dpc[t] = "idle"
  /\ event' = [event EXCEPT ![t] = None]
  /\ Goto(t, IF IsTerminate(event[t]) THEN "unref" ELSE "loop")
  /\ UNCHANGED <<procVars, queueVars, mapVars, proc, sendVars>>

\* reference = ProcessReference(), then cleanup or the end of resume.
ReleaseReference(t) ==
  /\ \/ pc[t] = "release" /\ Return(t)
     \/ pc[t] = "unref" /\ Goto(t, "cleanup") /\ UNCHANGED proc
  /\ UNCHANGED <<procVars, queueVars, mapVars, event, sendVars>>

-----------------------------------------------------------------------------
(* ProcessManager::cleanup, and the delete at the end of resume.           *)

Cleanup(t) ==
  LET p == proc[t] IN
  /\ pc[t] = "cleanup"
  /\ IF state[p] = "READY"
       THEN state' = [state EXCEPT ![p] = "TERMINATING"] /\ Goto(t, "decomission")
       ELSE Goto(t, "abort") /\ UNCHANGED state
  /\ UNCHANGED <<events, comissioned, termination, reference, gate, spawned,
                 deleted, queueVars, mapVars, proc, event, sendVars>>

\* MUTANT: the locking queue is emptied but not closed.
DecomissionLeavesOpen(t) ==
  /\ pc[t] = "decomission"
  /\ events' = [events EXCEPT ![proc[t]] = <<>>]
  /\ Goto(t, "lock")
  /\ UNCHANGED <<state, comissioned, termination, reference, gate, spawned,
                 deleted, queueVars, mapVars, proc, event, sendVars>>

\* The lock-free queue stores `true' into `comissioned' here.
Decomission(t) ==
  LET p == proc[t] IN
  /\ pc[t] = "decomission"
  /\ comissioned' = [comissioned EXCEPT ![p] = LockFreeEvents]
  /\ events' = [events EXCEPT ![p] = <<>>]
  /\ Goto(t, "lock")
  /\ UNCHANGED <<state, termination, reference, gate, spawned, deleted,
                 queueVars, mapVars, proc, event, sendVars>>

ResetReference(t) ==
  /\ pc[t] = "lock" /\ mutex = None
  /\ mutex' = t
  /\ reference' = [reference EXCEPT ![proc[t]] = FALSE]
  /\ Goto(t, "spin")
  /\ UNCHANGED <<state, events, comissioned, termination, gate, spawned,
                 deleted, queueVars, processes, proc, event, sendVars>>

\* MUTANT: cleanup does not wait for the references to be released.
EraseWithoutSpin(t) ==
  /\ pc[t] = "spin"
  /\ processes' = [processes EXCEPT ![Id[proc[t]]] = None]
  /\ Goto(t, "open")
  /\ UNCHANGED <<procVars, queueVars, mutex, proc, event, sendVars>>

\* The spin on pid.reference->expired(), then erase and the exited events.
EraseProcess(t) ==
  LET p == proc[t] IN
  /\ pc[t] = "spin" /\ ~Referenced(p)
  /\ processes' = [processes EXCEPT ![Id[p]] = None]
  /\ Goto(t, "open")
  /\ UNCHANGED <<procVars, queueVars, mutex, proc, event, sendVars>>

OpenGate(t) ==
  LET p == proc[t] IN
  /\ pc[t] = "open"
  /\ gate' = [gate EXCEPT ![p] = TRUE]
  /\ mutex' = None
  /\ IF p \in Managed THEN Goto(t, "delete") /\ UNCHANGED proc ELSE Return(t)
  /\ UNCHANGED <<state, events, comissioned, termination, reference, spawned,
                 deleted, queueVars, processes, event, sendVars>>

DeleteManaged(t) ==
  /\ pc[t] = "delete"
  /\ deleted' = [deleted EXCEPT ![proc[t]] = TRUE]
  /\ Return(t)
  /\ UNCHANGED <<state, events, comissioned, termination, reference, gate,
                 spawned, queueVars, mapVars, event, sendVars>>

-----------------------------------------------------------------------------
(* ProcessManager::spawn.  An object is spawned at most once; another      *)
(* object with the same name is refused while the first is in the map, and *)
(* deleted if libprocess was to manage it.                                 *)

\* MUTANT: a taken name is overwritten.
SpawnOverwrites(t, p) ==
  /\ CanCall(t) /\ ~spawned[p] /\ ~deleted[p]
  /\ mutex = None
  /\ processes' = [processes EXCEPT ![Id[p]] = p]
  /\ spawned' = [spawned EXCEPT ![p] = TRUE]
  /\ dst' = [dst EXCEPT ![t] = p]
  /\ SendGoto(t, "spawnq")
  /\ UNCHANGED <<state, events, comissioned, termination, reference, gate,
                 deleted, queueVars, mutex, mainVars, devent, posted>>

Spawn(t, p) ==
  /\ CanCall(t) /\ ~spawned[p] /\ ~deleted[p]
  /\ mutex = None
  /\ \/ /\ processes[Id[p]] = None
        /\ processes' = [processes EXCEPT ![Id[p]] = p]
        /\ spawned' = [spawned EXCEPT ![p] = TRUE]
        /\ dst' = [dst EXCEPT ![t] = p]
        /\ SendGoto(t, "spawnq")
        /\ UNCHANGED deleted
     \/ /\ processes[Id[p]] # None /\ p \in Managed
        /\ deleted' = [deleted EXCEPT ![p] = TRUE]
        /\ UNCHANGED <<processes, spawned, dst, dpc>>
  /\ UNCHANGED <<state, events, comissioned, termination, reference, gate,
                 queueVars, mutex, mainVars, devent, posted>>

-----------------------------------------------------------------------------
(* ProcessManager::wait, called by a client.                               *)

WaitUse(t, i, p) ==
  /\ pc[t] = "idle" /\ dpc[t] = "idle"
  /\ Use(i, p)
  /\ proc' = [proc EXCEPT ![t] = p]
  /\ Goto(t, "inspect")
  /\ UNCHANGED <<procVars, queueVars, mapVars, event, sendVars>>

Inspect(t) ==
  /\ pc[t] = "inspect"
  /\ Goto(t, IF state[proc[t]] \in {"BOTTOM", "READY"} THEN "extract" ELSE "gate")
  /\ UNCHANGED <<procVars, queueVars, mapVars, proc, event, sendVars>>

RemoveAt(s, k) == [j \in 1..(Len(s) - 1) |-> IF j < k THEN s[j] ELSE s[j + 1]]

\* RunQueue::extract; on success the thread is donated to the process.
Extract(t) ==
  LET p == proc[t]
      At(k) == runq[k] = p /\ \A j \in 1..(k - 1) : runq[j] # p
  IN
  /\ pc[t] = "extract"
  /\ \/ /\ CanExtract
        /\ \E k \in 1..Len(runq) : At(k) /\ runq' = RemoveAt(runq, k)
        /\ Goto(t, "resume")
     \/ /\ ~(CanExtract /\ \E k \in 1..Len(runq) : At(k))
        /\ Goto(t, "gate")
        /\ UNCHANGED runq
  /\ UNCHANGED <<procVars, semaphore, mapVars, proc, event, sendVars>>

\* Gate::wait returns, wait returns true, and the caller may now delete an
\* object that libprocess does not manage.
GateWait(t) ==
  LET p == proc[t] IN
  /\ pc[t] = "gate" /\ gate[p]
  /\ \/ /\ p \notin Managed /\ ~deleted[p]
        /\ deleted' = [deleted EXCEPT ![p] = TRUE]
     \/ UNCHANGED deleted
  /\ Goto(t, "idle")
  /\ proc' = [proc EXCEPT ![t] = None]
  /\ UNCHANGED <<state, events, comissioned, termination, reference, gate,
                 spawned, queueVars, mapVars, event, sendVars>>

-----------------------------------------------------------------------------
SendStep(t) ==
  \/ LoadState(t) \/ PushEvent(t) \/ StoreTermination(t) \/ WakeIfBlocked(t)
  \/ RunqPush(t) \/ RunqSignal(t)

ResumeStep(t) ==
  \/ Resume(t) \/ Initialized(t) \/ DequeueEvent(t) \/ Block(t) \/ Recheck(t)
  \/ Unblock(t) \/ Examine(t) \/ Served(t) \/ ReleaseReference(t)

CleanupStep(t) ==
  \/ Cleanup(t) \/ Decomission(t) \/ ResetReference(t) \/ EraseProcess(t)
  \/ OpenGate(t) \/ DeleteManaged(t)

WaitStep(t) == Inspect(t) \/ Extract(t) \/ GateWait(t)

\* What a thread does once it is inside a call, and the worker loop.
ThreadStep(t) ==
  \/ SendStep(t) \/ ResumeStep(t) \/ CleanupStep(t) \/ WaitStep(t)
  \/ RunqWait(t) \/ RunqDequeue(t)

\* What users of the library choose to do.
Call(t) ==
  \/ \E i \in Ids, p \in Process, e \in Kind : Deliver(t, i, p, e)
  \/ \E p \in Process : Spawn(t, p)
  \/ \E i \in Ids, p \in Process : WaitUse(t, i, p)

Next == \E t \in Thread : ThreadStep(t) \/ Call(t)

\* Threads are scheduled: a thread that can take its next step takes it.
Fairness == \A t \in Thread : WF_vars(ThreadStep(t))

Spec == Init /\ [][Next]_vars
FairSpec == Spec /\ Fairness

-----------------------------------------------------------------------------
(* Properties.                                                             *)

OwnPc == {"resume", "init", "loop", "block", "got", "serve", "unref", "cleanup"}
CleanPc == {"decomission", "lock", "spin", "open", "delete"}
MainPc == {"idle", "wait", "dequeue", "recheck", "unblock", "release",
           "inspect", "extract", "gate", "abort"} \cup OwnPc \cup CleanPc
SendPc == {"idle", "load", "push", "flag", "cas", "runq", "spawnq", "signal"}

ProcTypes ==
  /\ state \in [Process -> State]
  /\ events \in [Process -> Seq(Kind)]
  /\ comissioned \in [Process -> BOOLEAN]
  /\ termination \in [Process -> BOOLEAN]
  /\ reference \in [Process -> BOOLEAN]
  /\ gate \in [Process -> BOOLEAN]
  /\ spawned \in [Process -> BOOLEAN]
  /\ deleted \in [Process -> BOOLEAN]
QueueTypes == runq \in Seq(Process) /\ semaphore \in Nat
MapTypes ==
  processes \in [Ids -> Process \cup {None}] /\ mutex \in Thread \cup {None}
MainTypes ==
  /\ pc \in [Thread -> MainPc]
  /\ proc \in [Thread -> Process \cup {None}]
  /\ event \in [Thread -> Kind \cup {None}]
SendTypes ==
  /\ dpc \in [Thread -> SendPc]
  /\ dst \in [Thread -> Process \cup {None}]
  /\ devent \in [Thread -> Kind \cup {None}]
  /\ posted \in 0..MaxEvents

\* Every variable keeps its type.
TypeOK == ProcTypes /\ QueueTypes /\ MapTypes /\ MainTypes /\ SendTypes

Running(t, p) == proc[t] = p /\ pc[t] \in OwnPc \cup CleanPc
Pushing(t, p) == dst[t] = p /\ dpc[t] \in {"runq", "spawnq"}
QueuedAt(k, p) == k \in 1..Len(runq) /\ runq[k] = p

(***************************************************************************)
(* At most one token per process: it is in the run queue once, or one      *)
(* thread is about to put it there, or one thread runs it.  This is the    *)
(* "single thread consuming an actor's events at a time" that resume,      *)
(* enqueue, spawn and extract establish together.                          *)
(***************************************************************************)
OneToken ==
  \A p \in Process :
    /\ \A t, u \in Thread : Running(t, p) /\ Running(u, p) => t = u
    /\ \A t, u \in Thread : Pushing(t, p) /\ Pushing(u, p) => t = u
    /\ \A j, k \in 1..Len(runq) : QueuedAt(j, p) /\ QueuedAt(k, p) => j = k
    /\ \A t, u \in Thread : ~(Running(t, p) /\ Pushing(u, p))
    /\ \A t \in Thread, k \in 1..Len(runq) :
         QueuedAt(k, p) => ~Running(t, p) /\ ~Pushing(t, p)

(***************************************************************************)
(* No lost wakeup.  A spawned process that is not BLOCKED has its token    *)
(* somewhere; a BLOCKED process with events in its queue has a thread that *)
(* is still to look at the state: a sender before its compare-and-swap in  *)
(* ProcessBase::enqueue, or a thread before the recheck in resume.         *)
(***************************************************************************)
HasToken(p) ==
  \/ \E t \in Thread : Running(t, p) \/ Pushing(t, p)
  \/ \E k \in 1..Len(runq) : runq[k] = p
HasWaker(p) ==
  \E t \in Thread :
    \/ dst[t] = p /\ dpc[t] \in {"flag", "cas"}
    \/ proc[t] = p /\ pc[t] \in {"recheck", "unblock"}
RunnableHasToken(p) ==
  spawned[p] /\ state[p] \in {"BOTTOM", "READY"} => HasToken(p)
BlockedHasWaker(p) ==
  state[p] = "BLOCKED" /\ events[p] # <<>> => HasWaker(p)
NoLostWakeup == \A p \in Process : RunnableHasToken(p) /\ BlockedHasWaker(p)

(***************************************************************************)
(* No CHECK of resume and cleanup fails: a dequeued process is BOTTOM or   *)
(* READY, the purge finds its terminate event, cleanup starts from READY.  *)
(***************************************************************************)
NoAbort == \A t \in Thread : pc[t] # "abort"

(***************************************************************************)
(* Once a process is deleted (by resume when it is managed, else by a      *)
(* caller whose wait returned) no thread is going to dereference it: it is *)
(* not in the map or the run queue, not being run, inspected or sent to.   *)
(***************************************************************************)
NoDanglingUse ==
  \A p \in Process : deleted[p] =>
    /\ \A i \in Ids : processes[i] # p
    /\ \A k \in 1..Len(runq) : runq[k] # p
    /\ ~Referenced(p)
    /\ \A t \in Thread : ~Running(t, p) /\ ~Pushing(t, p)

(***************************************************************************)
(* When the gate of a process opens, cleanup is over: the process is       *)
(* TERMINATING, nothing refers to it any more and its name is free, so a   *)
(* caller of wait may spawn another process with that name.                *)
(***************************************************************************)
GateMeansGone ==
  \A p \in Process : gate[p] =>
    /\ state[p] = "TERMINATING" /\ ~reference[p]
    /\ ~Referenced(p)
    /\ processes[Id[p]] # p

(***************************************************************************)
(* A decomissioned queue accepts nothing: once the gate is open there is   *)
(* no event left in it.  EventQueue::Producer says that enqueue returns    *)
(* false when the queue is decomissioned.                                  *)
(***************************************************************************)
DecomissionedStaysEmpty ==
  \A p \in Process : gate[p] => events[p] = <<>>

(***************************************************************************)
(* Two objects with one name are never both in use: spawn refuses the      *)
(* second until cleanup has drained every reference to the first, so an    *)
(* event sent to the old process never reaches the new one by accident of  *)
(* both being reachable.                                                   *)
(***************************************************************************)
OneProcessPerName ==
  \A p, q \in Process :
    p # q /\ Id[p] = Id[q] /\ spawned[p] /\ spawned[q] =>
      \E r \in {p, q} :
        state[r] = "TERMINATING" /\ ~reference[r] /\ ~Referenced(r)

(***************************************************************************)
(* An open gate never closes and a TERMINATING process never becomes       *)
(* anything else, so an event queued for it can no longer be served.       *)
(***************************************************************************)
TerminatingIsFinal ==
  [][\A p \in Process :
       /\ state[p] = "TERMINATING" => state'[p] = "TERMINATING"
       /\ gate[p] => gate'[p]]_vars

(***************************************************************************)
(* Every event in a queue is eventually served or deleted.                 *)
(***************************************************************************)
QueuesDrain ==
  \A p \in Process : events[p] # <<>> ~> events[p] = <<>>

(***************************************************************************)
(* A process with a terminate event in its queue eventually opens its      *)
(* gate, so every wait on it returns.                                      *)
(***************************************************************************)
TerminateOpensGate ==
  \A p \in Process :
    (\E k \in 1..Len(events[p]) : IsTerminate(events[p][k])) ~> gate[p]

-----------------------------------------------------------------------------
(* The abstract mailbox this module implements (with the locking queue).   *)

At(p, where) == \E t \in Thread : proc[t] = p /\ pc[t] \in where
EventOf(p, where) ==
  event[CHOOSE t \in Thread : proc[t] = p /\ pc[t] \in where]

Phase(p) ==
  IF ~comissioned[p] THEN "closed"
  ELSE IF state[p] = "BOTTOM" THEN "new"
  ELSE IF state[p] = "TERMINATING" \/ At(p, {"unref", "cleanup"}) THEN "dying"
  ELSE "alive"

phaseBar == [p \in Process |-> Phase(p)]
inboxBar ==
  [p \in Process |-> IF At(p, {"got"}) THEN <<EventOf(p, {"got"})>> \o events[p]
                                       ELSE events[p]]
servingBar ==
  [p \in Process |-> IF At(p, {"serve"}) THEN EventOf(p, {"serve"}) ELSE None]

A == INSTANCE Actor WITH
  phase <- phaseBar, inbox <- inboxBar, serving <- servingBar

(***************************************************************************)
(* Seen from outside, the threads, the run queue, donation and the cleanup *)
(* implement the mailbox of module Actor: resume serves one event at a     *)
(* time, in order, and never one after the terminate event.                *)
(***************************************************************************)
ImplementsActor == A!Spec

-----------------------------------------------------------------------------
(***************************************************************************)
(* The inductive invariant: what ties the place of every thread to the     *)
(* state of the process it works on.  ProcessManagerProofs proves it for   *)
(* every number of threads, processes and events.                          *)
(***************************************************************************)

\* A thread that works on a process has one, and an event where it needs one.
PlacesOK ==
  \A t \in Thread :
    /\ pc[t] \notin {"idle", "wait", "dequeue"} => proc[t] \in Process
    /\ pc[t] \in {"got", "serve"} => event[t] \in Kind
    /\ dpc[t] \notin {"idle", "signal"} => dst[t] \in Process
    /\ dpc[t] \in {"load", "push", "flag"} => devent[t] \in Kind
    /\ dpc[t] = "flag" => devent[t] = "inject"

\* The state a process is in while its token is at a given place.
TokenState ==
  /\ \A t \in Thread :
       /\ pc[t] = "resume" => state[proc[t]] \in {"BOTTOM", "READY"}
       /\ pc[t] = "init" => state[proc[t]] = "BOTTOM"
       /\ pc[t] \in OwnPc \ {"resume", "init"} => state[proc[t]] = "READY"
       /\ pc[t] \in CleanPc => state[proc[t]] = "TERMINATING"
       /\ dpc[t] = "runq" => state[dst[t]] = "READY"
       /\ dpc[t] = "spawnq" => state[dst[t]] = "BOTTOM"
  /\ \A k \in 1..Len(runq) : state[runq[k]] \in {"BOTTOM", "READY"}

\* No thread runs p or is about to queue it, and it is not in the run queue.
NoToken(p) ==
  /\ \A u \in Thread : ~Running(u, p) /\ ~Pushing(u, p)
  /\ \A k \in 1..Len(runq) : runq[k] # p

\* Only a spawned process is known to anyone.
SpawnedFirst ==
  /\ \A t \in Thread : proc[t] \in Process => spawned[proc[t]]
  /\ \A t \in Thread : dst[t] \in Process => spawned[dst[t]]
  /\ \A k \in 1..Len(runq) : spawned[runq[k]]
  /\ \A i \in Ids : processes[i] \in Process =>
       spawned[processes[i]] /\ Id[processes[i]] = i
  /\ \A p \in Process : ~spawned[p] =>
       state[p] = "BOTTOM" /\ reference[p] /\ ~gate[p]

\* The runner of p has found an injected terminate event, or has served one.
Ending(t, p) ==
  /\ proc[t] = p
  /\ \/ pc[t] \in {"got", "serve"} /\ event[t] = "inject"
     \/ pc[t] \in {"unref", "cleanup"}
HasInject(p) == \E k \in 1..Len(events[p]) : events[p][k] = "inject"
InjectSeen(p) ==
  \/ HasInject(p) \/ state[p] = "TERMINATING"
  \/ \E t \in Thread : Ending(t, p)

\* The termination flag is never ahead of the event that raises it.
FlagAfterEvent ==
  /\ \A p \in Process : termination[p] => InjectSeen(p)
  /\ \A t \in Thread : dpc[t] = "flag" => InjectSeen(dst[t])

\* processes_mutex is held from the reset of the reference to the open gate.
MutexOK ==
  \A t \in Thread : mutex = t <=> pc[t] \in {"spin", "open"}

ReferenceOK ==
  /\ \A p \in Process : ~reference[p] => state[p] = "TERMINATING"
  /\ \A t \in Thread : pc[t] \in {"decomission", "lock"} => reference[proc[t]]
  /\ \A t \in Thread : pc[t] \in {"spin", "open", "delete"} => ~reference[proc[t]]

\* Cleanup has drained the references of p and erased it from the map.
Erased(p) == gate[p] \/ \E t \in Thread : pc[t] = "open" /\ proc[t] = p

ErasedOK ==
  /\ \A p \in Process : Erased(p) =>
       /\ state[p] = "TERMINATING" /\ ~reference[p]
       /\ ~Referenced(p) /\ processes[Id[p]] # p
  /\ \A p \in Process : spawned[p] /\ ~Erased(p) => processes[Id[p]] = p
  /\ \A t \in Thread :
       pc[t] \in {"decomission", "lock", "spin", "open"} => ~gate[proc[t]]

DeletedOK ==
  /\ \A t \in Thread : pc[t] = "delete" => gate[proc[t]] /\ proc[t] \in Managed
  /\ \A p \in Process : deleted[p] /\ spawned[p] =>
       gate[p] /\ \A t \in Thread : ~(pc[t] = "delete" /\ proc[t] = p)

(***************************************************************************)
(* The strengthening under which the safety invariants of ProcessManager   *)
(* are inductive.                                                          *)
(***************************************************************************)
IInv ==
  /\ TypeOK /\ PlacesOK /\ TokenState /\ OneToken /\ SpawnedFirst
  /\ FlagAfterEvent /\ NoAbort /\ NoLostWakeup
  /\ MutexOK /\ ReferenceOK /\ ErasedOK /\ DeletedOK

\* With the locking queue: a decomissioned queue is empty, and the queue of a
\* process in the second half of cleanup is decomissioned.
ClosedOK ==
  /\ \A p \in Process : ~comissioned[p] => events[p] = <<>>
  /\ \A p \in Process : gate[p] => ~comissioned[p]
  /\ \A t \in Thread :
       pc[t] \in {"lock", "spin", "open", "delete"} => ~comissioned[proc[t]]

\* The queue of a process is decomissioned by its cleanup only.
DecomissionOK == \A p \in Process : ~comissioned[p] => state[p] = "TERMINATING"

-----------------------------------------------------------------------------
(* Small instances.                                                        *)

\* All objects have the name "a"; two of them have it, the third has its own.
SameName == [p \in Process |-> "a"]
TwoNames == [p \in Process |-> IF p = "p3" THEN "b" ELSE "a"]

\* Workers are alike, and so are clients.
Threads == Permutations(Worker) \cup Permutations(Client)
=============================================================================

----------------------------- MODULE Lifecycle -----------------------------
(***************************************************************************)
(* process::initialize, finalize and reinitialize (src/process.cpp), with  *)
(* the accept loop on the event loop thread, the worker threads and the    *)
(* processes that finalize() terminates.  Thread "main" finalizes; the     *)
(* threads in Users only call initialize() before they use libprocess, as  *)
(* most of its functions do.                                               *)
(***************************************************************************)
EXTENDS Naturals, Sequences, FiniteSets

CONSTANTS
  Users,          \* other threads that call initialize()
  Children,       \* processes that a running process may spawn
  Workers,        \* the worker threads
  MaxConnections, \* connections that arrive
  MaxCycles       \* calls of reinitialize()

VARIABLES
  started, complete,  \* initialize_started and initialize_complete
  pc,                 \* pc[t]: where a thread is in initialize() or finalize()
  objects,            \* the global objects that exist
  running,            \* the worker threads and the event loop thread that run
  processes,          \* the process manager's processes
  terminating,        \* the processes with a TerminateEvent in their queue
  spawning,           \* children whose spawner saw that finalizing is not set
  finalizing, joining, stopped,  \* flags of the manager and of the event loop
  accepts,            \* the futures accept() returned that are pending
  future_accept,      \* the one the global variable holds
  loop,               \* on_accept on the event loop thread: "idle", "accepted", "again"
  sockets,            \* the sockets the socket manager has
  arrived, cycles,
  crashed             \* a deleted object was used or a CHECK failed

vars == <<started, complete, pc, objects, running, processes, terminating, spawning,
          finalizing, joining, stopped, accepts, future_accept, loop, sockets, arrived,
          cycles, crashed>>
flags == <<started, complete>>
manager == <<running, processes, terminating, spawning, finalizing, joining, stopped>>
server == <<accepts, future_accept, loop, sockets>>
bounds == <<arrived, cycles>>

Threads == {"main"} \cup Users

(***************************************************************************)
(* The steps of initialize() after the managers exist, in its order;       *)
(* "profiler" stands for the profiler and the memory profiler.             *)
(***************************************************************************)
Globals == <<"help", "metrics", "logging", "profiler", "system", "authenticator_manager",
             "reaper", "mime", "route">>
GlobalProcesses == {"help", "metrics", "logging", "profiler", "system",
                    "authenticator_manager", "reaper", "route"}
Managers == {"process_manager", "socket_manager", "event_loop", "clock", "server socket"}

Init ==
  /\ started = FALSE /\ complete = FALSE /\ pc = [t \in Threads |-> "start"]
  /\ objects = {} /\ running = {} /\ processes = {} /\ terminating = {} /\ spawning = {}
  /\ finalizing = FALSE /\ joining = FALSE /\ stopped = FALSE
  /\ accepts = {} /\ future_accept = 0 /\ loop = "idle" /\ sockets = {}
  /\ arrived = 0 /\ cycles = 0 /\ crashed = FALSE

Goto(t, s) == pc' = [pc EXCEPT ![t] = s]

-----------------------------------------------------------------------------
(* initialize *)

\* Already initialized: return.
Initialized(t) ==
  /\ pc[t] = "start" /\ started /\ complete /\ Goto(t, "initialized")
  /\ UNCHANGED <<flags, objects, manager, server, bounds, crashed>>

\* MUTANT: `started' is tested and set in two steps.
Start_racy(t) ==
  \/ /\ pc[t] = "start" /\ ~(started /\ complete)
     /\ Goto(t, IF started THEN "wait" ELSE "swap")
     /\ UNCHANGED <<flags, objects, manager, server, bounds, crashed>>
  \/ /\ pc[t] = "swap" /\ started' = TRUE /\ Goto(t, "managers")
     /\ UNCHANGED <<complete, objects, manager, server, bounds, crashed>>

\* The compare and exchange on `initialize_started', after the test above.
Start(t) ==
  \/ /\ pc[t] = "start" /\ ~(started /\ complete) /\ Goto(t, "swap")
     /\ UNCHANGED <<flags, objects, manager, server, bounds, crashed>>
  \/ /\ pc[t] = "swap" /\ started' = TRUE
     /\ Goto(t, IF started THEN "wait" ELSE "managers")
     /\ UNCHANGED <<complete, objects, manager, server, bounds, crashed>>

\* Spin until `initialize_complete'.
Wait(t) ==
  /\ pc[t] = "wait" /\ complete /\ Goto(t, "initialized")
  /\ UNCHANGED <<flags, objects, manager, server, bounds, crashed>>

\* The managers, the event loop, the threads (init_threads), the clock and the socket.
CreateManagers(t) ==
  /\ pc[t] = "managers" /\ Goto(t, "complete")
  /\ crashed' = (crashed \/ objects # {})
  /\ objects' = objects \cup Managers
  /\ running' = Workers \cup {"event_loop"} /\ finalizing' = FALSE /\ joining' = FALSE
  /\ stopped' = FALSE
  /\ UNCHANGED <<flags, processes, terminating, spawning, server, bounds>>

\* initialize_complete is set in the middle, for accept() and spawn() below.
SetComplete(t) ==
  /\ pc[t] = "complete" /\ complete' = TRUE /\ Goto(t, "accept")
  /\ UNCHANGED <<started, objects, manager, server, bounds, crashed>>

\* The first accept() ...
FirstAccept(t) ==
  /\ pc[t] = "accept" /\ accepts' = {1} /\ Goto(t, "assign")
  /\ UNCHANGED <<flags, objects, manager, future_accept, loop, sockets, bounds, crashed>>

\* ... and the assignment of its future, which is not under `socket_mutex'.
AssignAccept(t) ==
  /\ pc[t] = "assign" /\ future_accept' = 1 /\ Goto(t, "help")
  /\ UNCHANGED <<flags, objects, manager, accepts, loop, sockets, bounds, crashed>>

\* A process whose initialize() adds a route needs help, one with metrics metrics.
Needs(g) ==
  CASE g = "system" -> {"help", "metrics"}
    [] g \in {"metrics", "logging", "profiler", "route"} -> {"help"}
    [] OTHER -> {}

\* The global processes, one by one.
CreateGlobal(t, k) ==
  LET g == Globals[k] IN
  /\ pc[t] = g /\ Goto(t, IF k = Len(Globals) THEN "initialized" ELSE Globals[k + 1])
  /\ crashed' = (crashed \/ ~(Needs(g) \subseteq objects))
  /\ objects' = objects \cup {g}
  /\ processes' = processes \cup ({g} \cap GlobalProcesses)
  /\ UNCHANGED <<flags, running, terminating, spawning, finalizing, joining, stopped,
                 server, bounds>>

initialize(t) ==
  \/ Initialized(t) \/ Start(t) \/ Wait(t) \/ CreateManagers(t) \/ SetComplete(t)
  \/ FirstAccept(t) \/ AssignAccept(t) \/ \E k \in 1..Len(Globals) : CreateGlobal(t, k)

-----------------------------------------------------------------------------
(* The event loop thread: the accept loop *)

\* A connection arrives: the oldest pending accept completes and runs on_accept.
Accepted ==
  /\ "event_loop" \in running /\ loop = "idle" /\ accepts # {} /\ arrived < MaxConnections
  /\ "server socket" \in objects /\ arrived' = arrived + 1
  /\ accepts' = {} /\ loop' = "accepted"
  /\ UNCHANGED <<flags, pc, objects, manager, future_accept, sockets, cycles, crashed>>

\* on_accept gives the socket to the socket manager and starts to receive.
on_accept ==
  /\ loop = "accepted" /\ loop' = "again"
  /\ sockets' = sockets \cup {arrived}
  /\ crashed' = (crashed \/ "socket_manager" \notin objects)
  /\ UNCHANGED <<flags, pc, objects, manager, accepts, future_accept, bounds>>

\* It accepts again under `socket_mutex', unless the server socket is gone.
AcceptAgain ==
  /\ loop = "again" /\ loop' = "idle"
  /\ IF "server socket" \in objects
     THEN accepts' = {arrived + 1} /\ future_accept' = arrived + 1
     ELSE UNCHANGED <<accepts, future_accept>>
  /\ UNCHANGED <<flags, pc, objects, manager, sockets, bounds, crashed>>

\* A connection ends, and the socket manager closes its socket.
Disconnect(s) ==
  /\ "event_loop" \in running /\ s \in sockets /\ sockets' = sockets \ {s}
  /\ crashed' = (crashed \/ "socket_manager" \notin objects)
  /\ UNCHANGED <<flags, pc, objects, manager, accepts, future_accept, loop, bounds>>

\* The event loop thread leaves EventLoop::run.
StopLoop ==
  /\ "event_loop" \in running /\ stopped /\ loop = "idle"
  /\ running' = running \ {"event_loop"}
  /\ UNCHANGED <<flags, pc, objects, processes, terminating, spawning, finalizing,
                 joining, stopped, server, bounds, crashed>>

-----------------------------------------------------------------------------
(* The workers *)

\* A process that runs spawns another: the test of `finalizing' ...
SpawnCheck(p, c) ==
  /\ running \cap Workers # {} /\ p \in processes /\ p \notin terminating
  /\ c \in Children \ (processes \cup spawning) /\ spawning = {} /\ ~finalizing
  /\ spawning' = {c}
  /\ UNCHANGED <<flags, pc, objects, running, processes, terminating, finalizing,
                 joining, stopped, server, bounds, crashed>>

\* ... and the insertion into `processes'.
SpawnInsert(c) ==
  /\ c \in spawning /\ spawning' = {} /\ processes' = processes \cup {c}
  /\ UNCHANGED <<flags, pc, objects, running, terminating, finalizing, joining, stopped,
                 server, bounds, crashed>>

\* A worker runs the TerminateEvent and cleans up; its spawns are over by then.
Cleanup(p) ==
  /\ running \cap Workers # {} /\ p \in terminating /\ spawning = {}
  /\ processes' = processes \ {p} /\ terminating' = terminating \ {p}
  /\ crashed' = (crashed \/ ~({"process_manager", "socket_manager"} \subseteq objects))
  /\ UNCHANGED <<flags, pc, objects, running, spawning, finalizing, joining, stopped,
                 server, bounds>>

\* A worker that finds no process leaves once the threads are joining.
WorkerExit(w) ==
  /\ w \in running \cap Workers /\ joining /\ terminating = {}
  /\ running' = running \ {w}
  /\ UNCHANGED <<flags, pc, objects, processes, terminating, spawning, finalizing,
                 joining, stopped, server, bounds, crashed>>

-----------------------------------------------------------------------------
(* finalize *)

\* finalize() is called when no other thread uses libprocess; it deletes the route.
Finalize ==
  /\ \A t \in Threads : pc[t] = "initialized" /\ Goto("main", "route gone")
  /\ terminating' = terminating \cup {"route"}
  /\ UNCHANGED <<flags, objects, running, processes, spawning, finalizing, joining,
                 stopped, server, bounds, crashed>>

\* The server socket is closed and its accept discarded, under `socket_mutex'.
CloseServer ==
  /\ pc["main"] = "route gone" /\ "route" \notin processes /\ Goto("main", "terminate")
  /\ objects' = objects \ {"server socket", "route"}
  /\ accepts' = accepts \ {future_accept}
  /\ finalizing' = TRUE
  /\ UNCHANGED <<flags, running, processes, terminating, spawning, joining, stopped,
                 future_accept, loop, sockets, bounds, crashed>>

\* MUTANT: finalize() terminates the processes of the map as it was.
TerminateNext_once ==
  \/ /\ pc["main"] = "terminate" /\ Goto("main", "terminating")
     /\ terminating' = terminating \cup processes
     /\ UNCHANGED <<flags, objects, running, processes, spawning, finalizing, joining,
                    stopped, server, bounds, crashed>>
  \/ /\ pc["main"] = "terminating" /\ terminating = {} /\ Goto("main", "join")
     /\ joining' = TRUE /\ stopped' = TRUE
     /\ UNCHANGED <<flags, objects, running, processes, terminating, spawning, finalizing,
                    server, bounds, crashed>>

\* ProcessManager::finalize terminates one process at a time and waits for it;
\* when there is none it tells the threads to stop.
TerminateNext ==
  \/ /\ pc["main"] = "terminate" /\ terminating = {} /\ processes # {}
     /\ \E p \in processes : terminating' = {p}
     /\ UNCHANGED <<flags, pc, objects, running, processes, spawning, finalizing, joining,
                    stopped, server, bounds, crashed>>
  \/ /\ pc["main"] = "terminate" /\ processes = {} /\ Goto("main", "join")
     /\ joining' = TRUE /\ stopped' = TRUE
     /\ UNCHANGED <<flags, objects, running, processes, terminating, spawning, finalizing,
                    server, bounds, crashed>>

\* The threads are joined, and SocketManager::finalize closes what is left.
Join ==
  /\ pc["main"] = "join" /\ running = {} /\ Goto("main", "delete")
  /\ crashed' = (crashed \/ "server socket" \in objects)
  /\ sockets' = {}
  /\ UNCHANGED <<flags, objects, manager, accepts, future_accept, loop, bounds>>

\* The authenticator manager and the managers are deleted, in this order.
Delete ==
  /\ pc["main"] = "delete" /\ Goto("main", "finalized") /\ objects' = {}
  /\ UNCHANGED <<flags, manager, server, bounds, crashed>>

\* reinitialize(), a test's function, calls initialize() once more.
Reinitialize ==
  /\ pc["main"] = "finalized" /\ cycles < MaxCycles /\ cycles' = cycles + 1
  /\ Goto("main", "start") /\ started' = FALSE /\ complete' = FALSE
  /\ UNCHANGED <<objects, manager, server, arrived, crashed>>

Main == (\E t \in Threads : initialize(t)) \/ CloseServer \/ TerminateNext \/ Join \/ Delete
Loop == on_accept \/ AcceptAgain \/ StopLoop
Work == (\E c \in Children : SpawnInsert(c)) \/ (\E p \in processes : Cleanup(p))
        \/ \E w \in Workers : WorkerExit(w)

Next ==
  \/ Main \/ Loop \/ Work \/ Finalize \/ Reinitialize \/ Accepted
  \/ \E s \in sockets : Disconnect(s)
  \/ \E p \in processes, c \in Children : SpawnCheck(p, c)
Spec == Init /\ [][Next]_vars

(***************************************************************************)
(* Fairness: the threads run.  No process, timer or connection is forced   *)
(* to do anything.                                                         *)
(***************************************************************************)
Fairness == WF_vars(Main \/ Loop \/ Work)
FairSpec == Spec /\ Fairness

-----------------------------------------------------------------------------
TypeOK ==
  /\ started \in BOOLEAN /\ complete \in BOOLEAN /\ crashed \in BOOLEAN
  /\ running \subseteq Workers \cup {"event_loop"} /\ terminating \subseteq processes
  /\ processes \subseteq GlobalProcesses \cup Children
  /\ loop \in {"idle", "accepted", "again"} /\ sockets \subseteq 1..MaxConnections

(***************************************************************************)
(* One thread initializes, and a thread that returned from initialize()    *)
(* finds the managers, though it may not find every global process yet; no *)
(* thread uses a manager that finalize() deleted, in whatever order the    *)
(* accept loop, the workers and the processes they spawn stop; and when    *)
(* finalize() is over no process, thread or socket is left.                *)
(***************************************************************************)
LifecycleSafe ==
  /\ TypeOK /\ ~crashed
  /\ Cardinality({t \in Threads : pc[t] \in {"managers", "complete", "accept", "assign"}
                                  \cup GlobalProcesses \cup {"mime"}}) <= 1
  /\ \A t \in Users : pc[t] = "initialized" /\ pc["main"] \notin {"delete", "finalized"}
       /\ cycles = 0 => Managers \ {"server socket"} \subseteq objects
  /\ pc["main"] = "finalized" =>
       processes = {} /\ running = {} /\ sockets = {} /\ spawning = {}
       /\ loop = "idle"

\* finalize() comes to its end, whatever the processes spawn on the way.
Owed == pc["main"] = "route gone"
Paid == pc["main"] = "finalized"
FinalizeEnds == Owed ~> Paid
=============================================================================

-------------------------------- MODULE Poll --------------------------------
(***************************************************************************)
(* io::poll and the event loop it runs in, for both back ends:             *)
(* src/posix/libev/{libev.hpp, libev.cpp, libev_poll.cpp} and              *)
(* src/posix/libevent/{libevent.cpp, libevent_poll.cpp}.                   *)
(*                                                                         *)
(* One thread runs the event loop; any other thread calls poll, discards   *)
(* the future it got, delays a function or stops the loop.  The watchers   *)
(* of the two libraries are kept as "off", "on" or "pending" (activated,   *)
(* its callback not yet invoked); a loop invokes pending watchers in any   *)
(* order, and stopping one also clears it.  Calls made in the event loop   *)
(* itself, which run their function at once, are left out.                 *)
(***************************************************************************)
EXTENDS Integers, Sequences, FiniteSets

CONSTANTS
  Polls,     \* calls of io::poll
  Delays     \* calls of EventLoop::delay

VARIABLES
  lib,        \* "libev" or "libevent" (a constant of the behaviour)
  poll,       \* the Poll struct of a call: "none", "alive" or "deleted"
  io,         \* its I/O watcher (ev_io, or the libevent event)
  async,      \* libev: its async watcher, for discarding
  caller,     \* where the call of poll is
  discard,    \* discard requested on the returned future
  promise,    \* state of the returned future
  functions,  \* queue of functions to run in the event loop, under its mutex
  running,    \* functions swapped out by the event loop, being run
  wake,       \* activations of the queue's watcher not yet handled
  delay,      \* the timer of a delay: "none", "queued", "armed", "fired"
  loop        \* "running", "stopping" (stop was called) or "stopped"

vars == <<lib, poll, io, async, caller, discard, promise, functions, running,
          wake, delay, loop>>

Watcher == {"off", "on", "pending"}
Function == ({"poll", "start", "discard"} \X Polls) \cup ({"delay"} \X Delays)

TypeOK ==
  /\ lib \in {"libev", "libevent"}
  /\ poll \in [Polls -> {"none", "alive", "deleted"}]
  /\ io \in [Polls -> Watcher] /\ async \in [Polls -> Watcher]
  /\ caller \in [Polls -> {"idle", "add", "onDiscard", "done"}]
  /\ discard \in [Polls -> BOOLEAN]
  /\ promise \in [Polls -> {"pending", "ready", "wrong", "discarded"}]
  /\ functions \in Seq(Function) /\ running \in Seq(Function)
  /\ wake \in 0..(2 * Cardinality(Polls) + Cardinality(Delays))
  /\ delay \in [Delays -> {"none", "queued", "armed", "fired"}]
  /\ loop \in {"running", "stopping", "stopped"}

\* run_in_event_loop from another thread: queue the function and interrupt
\* the loop.  libev coalesces its activations, libevent makes one per call.
run_in_event_loop(f) ==
  /\ functions' = Append(functions, f)
  /\ wake' = IF lib = "libev" THEN 1 ELSE wake + 1

\* handle_async / async_function: swap the functions out and run them after.
handle_async ==
  /\ loop # "stopped" /\ wake > 0 /\ running = <<>>
  /\ wake' = wake - 1
  /\ running' = functions
  /\ functions' = <<>>
  /\ UNCHANGED <<lib, poll, io, async, caller, discard, promise, delay, loop>>

Delete(p) == poll' = [poll EXCEPT ![p] = "deleted"]
Set(p, s) == promise' = [promise EXCEPT ![p] = IF @ = "pending" THEN s ELSE "wrong"]

-----------------------------------------------------------------------------
(* libev *)

\* io::poll: everything happens in the event loop.
CallEv(p) ==
  /\ lib = "libev" /\ caller[p] = "idle"
  /\ run_in_event_loop(<<"poll", p>>)
  /\ caller' = [caller EXCEPT ![p] = "done"]
  /\ UNCHANGED <<lib, poll, io, async, discard, promise, running, delay, loop>>

\* _run_in_event_loop: do not bother if the future has a discard already.
_run_in_event_loop(p) ==
  /\ running # <<>> /\ Head(running) = <<"poll", p>>
  /\ IF discard[p] THEN /\ Set(p, "discarded")
                        /\ running' = Tail(running)
                   ELSE /\ running' = <<<<"start", p>>>> \o Tail(running)
                        /\ UNCHANGED promise
  /\ UNCHANGED <<lib, poll, io, async, caller, discard, functions, wake, delay, loop>>

\* internal::poll: start both watchers.  A discard requested since the check
\* reaches the inner future when the promise is associated with it.
StartEv(p) ==
  /\ running # <<>> /\ Head(running) = <<"start", p>>
  /\ poll' = [poll EXCEPT ![p] = "alive"]
  /\ io' = [io EXCEPT ![p] = "on"]
  /\ async' = [async EXCEPT ![p] = IF discard[p] THEN "pending" ELSE "on"]
  /\ running' = Tail(running)
  /\ UNCHANGED <<lib, caller, discard, promise, functions, wake, delay, loop>>

\* _poll: the discard activates the async watcher, unless it was stopped.
DiscardEv(p) ==
  /\ lib = "libev" /\ caller[p] = "done" /\ ~discard[p] /\ promise[p] = "pending"
  /\ discard' = [discard EXCEPT ![p] = TRUE]
  /\ async' = [async EXCEPT ![p] = IF @ = "on" THEN "pending" ELSE @]
  /\ UNCHANGED <<lib, poll, io, caller, promise, functions, running, wake, delay, loop>>

polled(p) ==
  /\ lib = "libev" /\ loop # "stopped" /\ running = <<>> /\ io[p] = "pending"
  /\ io' = [io EXCEPT ![p] = "off"]
  /\ async' = [async EXCEPT ![p] = "off"]
  /\ Set(p, "ready")
  /\ Delete(p)
  /\ UNCHANGED <<lib, caller, discard, functions, running, wake, delay, loop>>

\* MUTANT: the I/O watcher is neither looked at nor stopped.
discard_poll_racy(p) ==
  /\ lib = "libev" /\ loop # "stopped" /\ running = <<>> /\ async[p] = "pending"
  /\ async' = [async EXCEPT ![p] = "off"]
  /\ Set(p, "discarded")
  /\ Delete(p)
  /\ UNCHANGED <<lib, io, caller, discard, functions, running, wake, delay, loop>>

\* Event loop callback of the async watcher: a pending `polled' wins, else both
\* watchers are stopped before the struct is deleted.
discard_poll(p) ==
  /\ lib = "libev" /\ loop # "stopped" /\ running = <<>> /\ async[p] = "pending"
  /\ IF io[p] = "pending"
     THEN /\ async' = [async EXCEPT ![p] = "on"]
          /\ UNCHANGED <<poll, io, promise>>
     ELSE /\ async' = [async EXCEPT ![p] = "off"]
          /\ io' = [io EXCEPT ![p] = "off"]
          /\ Set(p, "discarded")
          /\ Delete(p)
  /\ UNCHANGED <<lib, caller, discard, functions, running, wake, delay, loop>>

-----------------------------------------------------------------------------
(* libevent *)

\* io::poll adds the event from the calling thread; its callback may run
\* before onDiscard is registered.
CallEvent(p) ==
  /\ lib = "libevent" /\ caller[p] = "idle"
  /\ poll' = [poll EXCEPT ![p] = "alive"]
  /\ caller' = [caller EXCEPT ![p] = "add"]
  /\ UNCHANGED <<lib, io, async, discard, promise, functions, running, wake, delay, loop>>

event_add(p) ==
  /\ caller[p] = "add"
  /\ io' = [io EXCEPT ![p] = "on"]
  /\ caller' = [caller EXCEPT ![p] = "onDiscard"]
  /\ UNCHANGED <<lib, poll, async, discard, promise, functions, running, wake, delay, loop>>

onDiscard(p) ==
  /\ caller[p] = "onDiscard"
  /\ caller' = [caller EXCEPT ![p] = "done"]
  /\ UNCHANGED <<lib, poll, io, async, discard, promise, functions, running, wake, delay, loop>>

\* pollDiscard, run as the onDiscard callback of the future.
pollDiscard(p) ==
  /\ lib = "libevent" /\ caller[p] = "done" /\ ~discard[p] /\ promise[p] = "pending"
  /\ discard' = [discard EXCEPT ![p] = TRUE]
  /\ run_in_event_loop(<<"discard", p>>)
  /\ UNCHANGED <<lib, poll, io, async, caller, promise, running, delay, loop>>

\* The function of pollDiscard: activate the event if it can be locked; an
\* event that is active already is activated once.
RunDiscard(p) ==
  /\ running # <<>> /\ Head(running) = <<"discard", p>>
  /\ io' = [io EXCEPT ![p] = IF poll[p] = "alive" /\ @ # "off" THEN "pending" ELSE @]
  /\ running' = Tail(running)
  /\ UNCHANGED <<lib, poll, async, caller, discard, promise, functions, wake, delay, loop>>

pollCallback(p) ==
  /\ lib = "libevent" /\ loop # "stopped" /\ running = <<>> /\ io[p] = "pending"
  /\ io' = [io EXCEPT ![p] = "off"]
  /\ Set(p, IF discard[p] THEN "discarded" ELSE "ready")
  /\ Delete(p)
  /\ UNCHANGED <<lib, async, caller, discard, functions, running, wake, delay, loop>>

-----------------------------------------------------------------------------
(* The descriptor, the timers and the end of the loop *)

\* The kernel reports the descriptor of p ready.
Ready(p) ==
  /\ loop # "stopped" /\ io[p] = "on"
  /\ io' = [io EXCEPT ![p] = "pending"]
  /\ UNCHANGED <<lib, poll, async, caller, discard, promise, functions, running, wake, delay, loop>>

\* EventLoop::delay: libev starts the timer in the loop, libevent adds it here.
Delay(d) ==
  /\ delay[d] = "none"
  /\ IF lib = "libev"
     THEN /\ run_in_event_loop(<<"delay", d>>)
          /\ delay' = [delay EXCEPT ![d] = "queued"]
     ELSE /\ delay' = [delay EXCEPT ![d] = "armed"]
          /\ UNCHANGED <<functions, wake>>
  /\ UNCHANGED <<lib, poll, io, async, caller, discard, promise, running, loop>>

RunDelay(d) ==
  /\ running # <<>> /\ Head(running) = <<"delay", d>>
  /\ delay' = [delay EXCEPT ![d] = "armed"]
  /\ running' = Tail(running)
  /\ UNCHANGED <<lib, poll, io, async, caller, discard, promise, functions, wake, loop>>

handle_delay(d) ==
  /\ loop # "stopped" /\ running = <<>> /\ delay[d] = "armed"
  /\ delay' = [delay EXCEPT ![d] = "fired"]
  /\ UNCHANGED <<lib, poll, io, async, caller, discard, promise, functions, running, wake, loop>>

\* EventLoop::stop, and the return of EventLoop::run.
stop ==
  /\ loop = "running"
  /\ loop' = "stopping"
  /\ UNCHANGED <<lib, poll, io, async, caller, discard, promise, functions, running, wake, delay>>

handle_shutdown ==
  /\ loop = "stopping" /\ running = <<>>
  /\ loop' = "stopped"
  /\ UNCHANGED <<lib, poll, io, async, caller, discard, promise, functions, running, wake, delay>>

Init ==
  /\ lib \in {"libev", "libevent"}
  /\ poll = [p \in Polls |-> "none"]
  /\ io = [p \in Polls |-> "off"] /\ async = [p \in Polls |-> "off"]
  /\ caller = [p \in Polls |-> "idle"] /\ discard = [p \in Polls |-> FALSE]
  /\ promise = [p \in Polls |-> "pending"]
  /\ functions = <<>> /\ running = <<>> /\ wake = 0
  /\ delay = [d \in Delays |-> "none"] /\ loop = "running"

EventLoop ==
  \/ handle_async \/ handle_shutdown
  \/ \E p \in Polls : \/ _run_in_event_loop(p) \/ StartEv(p) \/ RunDiscard(p)
                      \/ polled(p) \/ discard_poll(p) \/ pollCallback(p)
  \/ \E d \in Delays : RunDelay(d) \/ handle_delay(d)

Caller ==
  \/ \E p \in Polls : CallEv(p) \/ CallEvent(p) \/ DiscardEv(p) \/ pollDiscard(p)
  \/ \E d \in Delays : Delay(d)
  \/ stop

Calling == \E p \in Polls : event_add(p) \/ onDiscard(p)

Next == EventLoop \/ Caller \/ Calling \/ \E p \in Polls : Ready(p)

Spec == Init /\ [][Next]_vars

\* The event loop thread keeps running.
FairSpec == Spec /\ WF_vars(EventLoop)

-----------------------------------------------------------------------------
\* A watcher is started only while the struct its callback dereferences is
\* alive, every struct is deleted exactly when its promise completes, the
\* promise completes once (a second completion shows as "wrong"), a poll is
\* reported discarded only when somebody asked, and with libev a pending
\* `polled' always wins over the discard.
PollSafe ==
  \A p \in Polls :
    /\ io[p] # "off" \/ async[p] # "off" => poll[p] = "alive"
    /\ poll[p] = "deleted" => promise[p] # "pending"
    /\ promise[p] \in {"ready", "discarded"} => poll[p] # "alive"
    /\ promise[p] # "wrong"
    /\ promise[p] = "discarded" => discard[p]
    /\ poll[p] = "alive" /\ lib = "libevent" /\ caller[p] = "done" => io[p] # "off"

\* A discarded poll ends and a delayed function runs, even when the
\* descriptor never becomes ready, unless the event loop is stopped.
Owed(k) == (k \in Polls /\ discard[k]) \/ (k \in Delays /\ delay[k] # "none")
Paid(k) ==
  \/ k \in Polls /\ promise[k] # "pending"
  \/ k \in Delays /\ delay[k] = "fired"
  \/ loop = "stopped"
PollEnds == \A k \in Polls \cup Delays : Owed(k) ~> Paid(k)
=============================================================================

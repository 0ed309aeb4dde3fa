-------------------------- MODULE GlobalProcesses ---------------------------
(***************************************************************************)
(* The processes that libprocess runs for those who operate it: the help   *)
(* process, to which route() and cleanup() send what a process has         *)
(* (src/help.cpp), /__processes__, which asks every process to describe    *)
(* itself, and the logging process (src/logging.cpp), whose /toggle raises *)
(* the verbosity for a while.  Processes come and go meanwhile, and a name *)
(* may be used again; every toggle starts a timer of its own, and a revert *)
(* that comes before the end of a later toggle is ignored.                 *)
(***************************************************************************)
EXTENDS Integers, Sequences, SequencesExt

CONSTANTS
  Id,           \* the names of processes
  Name,         \* the names of routes
  MaxSpawns, MaxRoutes, MaxQueries,    \* bounds on what happens
  Levels,       \* the levels that are asked for, some of them invalid
  Durations,
  MaxTime, MaxToggles    \* bounds

VARIABLES
  part,      \* "directory" or "logging": the two do not interact, and a behaviour
             \* has one of them
  life,      \* life[p]: "none", "alive", or "ending" between decomission and erase
  routes,    \* routes[p]: its handlers.http
  mailbox,   \* of the help process: <<"add", p, n>>, or <<"remove", p>>
  helps,     \* helps[p]: the routes of p that have a page
  pages,     \* the ids that help itself has a route for
  asked,     \* the processes that the last /__processes__ has asked ...
  pending,   \* ... those that have not answered it yet ...
  listed,    \* ... those that described themselves ...
  missed,    \* ... and those whose event was dropped
  query,     \* "none", "pending" or "answered"
  spawns, added, queries,    \* counters, for the bounds
  original,   \* the level at the start (a constant of the behaviour)
  level,      \* FLAGS_v
  timeout,    \* when the last toggle ends
  timers,     \* timers[i]: when the timer of the i-th toggle fires, 0 if it has none
              \* or has fired
  reverts,    \* the revert events in the mailbox
  now,
  toggled     \* the level of the last toggle (history)

directory == <<life, routes, mailbox, helps, pages, asked, pending, listed, missed, query,
               spawns, added, queries>>
logging == <<original, level, timeout, timers, reverts, now, toggled>>
vars == <<part, directory, logging>>
helpVars == <<helps, pages>>
queryVars == <<asked, pending, listed, missed, query, queries>>

Init ==
  /\ part \in {"directory", "logging"}
  /\ life = [p \in Id |-> "none"] /\ routes = [p \in Id |-> {}] /\ mailbox = <<>>
  /\ helps = [p \in Id |-> {}] /\ pages = {}
  /\ asked = {} /\ pending = {} /\ listed = {} /\ missed = {} /\ query = "none"
  /\ spawns = 0 /\ added = 0 /\ queries = 0
  /\ original \in (IF part = "logging" THEN {0, 1} ELSE {0}) /\ level = original
  /\ timeout = 0 /\ timers = <<>> /\ reverts = 0 /\ now = 0 /\ toggled = original

spawn(p) ==
  /\ life[p] = "none" /\ spawns < MaxSpawns /\ spawns' = spawns + 1
  /\ life' = [life EXCEPT ![p] = "alive"]
  /\ UNCHANGED <<routes, mailbox, helpVars, queryVars, added>>

route(p, n) ==
  /\ life[p] = "alive" /\ n \notin routes[p] /\ added < MaxRoutes /\ added' = added + 1
  /\ routes' = [routes EXCEPT ![p] = @ \cup {n}]
  /\ mailbox' = Append(mailbox, <<"add", p, n>>)
  /\ UNCHANGED <<life, helpVars, queryVars, spawns>>

\* The future of a dispatch that is dropped is abandoned, and recovered.
Missed(p) ==
  /\ pending' = pending \ {p}
  /\ missed' = IF p \in pending THEN missed \cup {p} ELSE missed
  /\ UNCHANGED <<asked, listed, query, queries>>

\* MUTANT: help is not told that the routes are gone.
Decomission_silent(p) ==
  /\ life[p] = "alive" /\ life' = [life EXCEPT ![p] = "ending"] /\ Missed(p)
  /\ UNCHANGED <<routes, mailbox, helpVars, spawns, added>>

\* cleanup(): the events of the process are deleted, and help is told ...
Decomission(p) ==
  /\ life[p] = "alive" /\ life' = [life EXCEPT ![p] = "ending"] /\ Missed(p)
  /\ mailbox' = Append(mailbox, <<"remove", p>>)
  /\ UNCHANGED <<routes, helpVars, spawns, added>>

\* ... before its name is free again.
Erase(p) ==
  /\ life[p] = "ending" /\ life' = [life EXCEPT ![p] = "none"]
  /\ routes' = [routes EXCEPT ![p] = {}]
  /\ UNCHANGED <<mailbox, helpVars, queryVars, spawns, added>>

-----------------------------------------------------------------------------
(* The help process                                                        *)

\* Help::add: help has no help for itself, and gives every other process a page.
add(p, n) ==
  /\ mailbox # <<>> /\ Head(mailbox) = <<"add", p, n>>
  /\ IF p = "help" THEN mailbox' = Tail(mailbox) /\ UNCHANGED helpVars
     ELSE /\ helps' = [helps EXCEPT ![p] = @ \cup {n}]
          /\ pages' = pages \cup {p}
          /\ mailbox' = Append(Tail(mailbox), <<"add", "help", p>>)
  /\ UNCHANGED <<life, routes, queryVars, spawns, added>>

remove(p) ==
  /\ mailbox # <<>> /\ Head(mailbox) = <<"remove", p>> /\ mailbox' = Tail(mailbox)
  /\ helps' = [helps EXCEPT ![p] = {}]
  /\ UNCHANGED <<life, routes, pages, queryVars, spawns, added>>

\* Help::help, for /help/id and /help/id/name: is there a page?
help(id) == id \in pages /\ helps[id] # {}
helpName(id, name) == id \in pages /\ name \in helps[id]

-----------------------------------------------------------------------------
(* /__processes__                                                          *)

\* Every process in the map gets a dispatch; one that is ending drops it.
processes ==
  /\ query # "pending" /\ queries < MaxQueries /\ queries' = queries + 1
  /\ asked' = {p \in Id : life[p] # "none"}
  /\ pending' = {p \in Id : life[p] = "alive"} /\ missed' = asked' \ pending'
  /\ listed' = {} /\ query' = "pending"
  /\ UNCHANGED <<life, routes, mailbox, helpVars, spawns, added>>

Describe(p) ==
  /\ p \in pending /\ pending' = pending \ {p} /\ listed' = listed \cup {p}
  /\ UNCHANGED <<life, routes, mailbox, helpVars, asked, missed, query, spawns, added,
                 queries>>

\* collect has all of them.
Respond ==
  /\ query = "pending" /\ pending = {} /\ query' = "answered"
  /\ UNCHANGED <<life, routes, mailbox, helpVars, asked, pending, listed, missed, spawns,
                 added, queries>>

HelpProcess == \/ \E p \in Id, n \in Name : add(p, n)
               \/ \E p \in Id : add("help", p) \/ remove(p)
Describes == Respond \/ \E p \in Id : Describe(p)
Directory ==
  \/ \E p \in Id : spawn(p) \/ Decomission(p) \/ Erase(p) \/ (\E n \in Name : route(p, n))
  \/ HelpProcess \/ processes \/ Describes

-----------------------------------------------------------------------------
(* The logging process                                                     *)

\* Logging::toggle, then set_level: a level below the original one is refused, and
\* the original one ends the last toggle without stopping its timer.
toggle(v, duration) ==
  /\ Len(timers) < MaxToggles /\ now + duration <= MaxTime
  /\ v >= 0 /\ v >= original
  /\ level' = v /\ toggled' = v
  /\ timeout' = IF v # original THEN now + duration ELSE timeout
  /\ timers' = Append(timers, IF v # original THEN now + duration ELSE 0)
  /\ UNCHANGED <<original, reverts, now>>

\* A timer expires, some time after it is due.
Expire(i) ==
  /\ timers[i] # 0 /\ timers[i] <= now
  /\ timers' = [timers EXCEPT ![i] = 0] /\ reverts' = reverts + 1
  /\ UNCHANGED <<original, level, timeout, now, toggled>>

\* MUTANT: every revert counts.
revert_always ==
  /\ reverts > 0 /\ reverts' = reverts - 1
  /\ level' = original
  /\ UNCHANGED <<original, timeout, timers, now, toggled>>

revert ==
  /\ reverts > 0 /\ reverts' = reverts - 1
  /\ level' = IF timeout <= now THEN original ELSE level
  /\ UNCHANGED <<original, timeout, timers, now, toggled>>

Tick == now < MaxTime /\ now' = now + 1
        /\ UNCHANGED <<original, level, timeout, timers, reverts, toggled>>

Expires == \E i \in DOMAIN timers : Expire(i)
Logging == (\E v \in Levels, s \in Durations : toggle(v, s)) \/ Expires \/ revert \/ Tick

Next ==
  /\ UNCHANGED part
  /\ \/ part = "directory" /\ Directory /\ UNCHANGED logging
     \/ part = "logging" /\ Logging /\ UNCHANGED directory
Spec == Init /\ [][Next]_vars

\* Every process serves its mailbox, the timers expire and time passes.
HelpServes == part = "directory" /\ HelpProcess /\ Next
Described == part = "directory" /\ Describes /\ Next
Expired == part = "logging" /\ Expires /\ Next
Reverts == part = "logging" /\ revert /\ Next
TimePasses == part = "logging" /\ Tick /\ Next
FairSpec ==
  /\ Spec /\ WF_vars(HelpServes) /\ WF_vars(Described)
  /\ WF_vars(Expired) /\ WF_vars(Reverts) /\ WF_vars(TimePasses)

-----------------------------------------------------------------------------
\* The routes of p that help will know once it has handled its mailbox.
Told(p) ==
  FoldSeq(LAMBDA e, known : IF e[2] # p THEN known
                            ELSE IF e[1] = "remove" THEN {} ELSE known \cup {e[3]},
          helps[p], Reverse(mailbox))

(***************************************************************************)
(* What help has been told of a process is what the process with that name *)
(* routes now, and nothing of one that was there before: with an empty     *)
(* mailbox the pages are exactly those of the processes alive.             *)
(* /__processes__ lists a process exactly once, unless it is being removed *)
(* before it was asked.  The log level asked for last is kept until its    *)
(* time is over, whatever the timers of earlier toggles do; any other      *)
(* level than the original one has a timer, or a revert, that will end it. *)
(***************************************************************************)
Safe ==
  /\ \A p \in Id : Told(p) = (IF life[p] = "alive" THEN routes[p] ELSE {})
  /\ mailbox = <<>> => \A p \in Id, n \in Name :
       /\ helpName(p, n) = (life[p] = "alive" /\ n \in routes[p])
       /\ help(p) = (life[p] = "alive" /\ routes[p] # {})
  /\ pending \cap missed = {} /\ pending \cap listed = {} /\ listed \cap missed = {}
  /\ asked = pending \cup listed \cup missed
  /\ \A p \in pending : life[p] = "alive"
  /\ level \in {toggled, original} /\ level >= original
  /\ now < timeout => level = toggled
  /\ level # original => \/ \E i \in DOMAIN timers : timers[i] >= timeout
                         \/ reverts > 0 /\ timeout <= now

\* /__processes__ is answered, though processes end meanwhile, and the log level
\* is reverted.
Owed(k) == IF k = 1 THEN query = "pending" ELSE level # original
Paid(k) == IF k = 1 THEN query = "answered" ELSE level = original
Answered == \A k \in 1..2 : Owed(k) ~> Paid(k)
=============================================================================

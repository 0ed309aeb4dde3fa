-------------------------------- MODULE Clock --------------------------------
(***************************************************************************)
(* The clock (src/clock.cpp): timers, the ticks that run them on the event *)
(* loop, and the manipulation of time by tests: pause, resume, advance,    *)
(* update and order.                                                       *)
(*                                                                         *)
(* timers_mutex makes every call one step, except where the code lets go   *)
(* of it: between reading the time of a process and using it (Clock::timer *)
(* and Clock::order), and between the critical sections of a tick, when it *)
(* runs the expired timers.                                                *)
(***************************************************************************)
EXTENDS Integers, FiniteSets, Sequences, FiniteSetsExt

CONSTANTS
  Process,      \* processes with a clock of their own while time is paused
  Clients,      \* threads that use the clock
  Durations,
  MaxTimers,    \* bound: timers created
  MaxReal,      \* bound: time of the event loop
  MaxAdvance,   \* bound: sum of all advances
  MaxPauses,    \* bound: calls of pause
  None

\* Durations are not negative and have a longest one; the bounds are numbers.
ASSUME ConstantsAssumption ==
  /\ Durations \subseteq Nat /\ \E d \in Durations : \A e \in Durations : e <= d
  /\ MaxReal \in Nat /\ MaxAdvance \in Nat
  /\ None \notin Nat /\ None \notin Process

VARIABLES
  real,         \* EventLoop::time
  paused, settling, current, initial, advanced, currents,
  timers,       \* set of [id, at, creator]; id is the order of insertion
  ticks,        \* set of times a tick is scheduled for
  delays,       \* what EventLoop::delay has still to run, [due, tick, n]
  loop, fired,  \* the tick that runs on the event loop, and its timers
  updated,      \* how many of them have updated the clock of their creator
  cpc, ctime, cproc,  \* a client between its two critical sections
  created,      \* number of timers created
  pauses,
  steady        \* the running tick began paused and was not resumed since

clockVars == <<paused, settling, current, initial, advanced, currents>>
timerVars == <<timers, ticks, delays, created>>
loopVars == <<loop, fired, updated, steady>>
clientVars == <<cpc, ctime, cproc>>
vars == <<real, clockVars, timerVars, loopVars, clientVars, pauses>>

Init ==
  /\ real = 0 /\ paused = FALSE /\ settling = FALSE
  /\ current = 0 /\ initial = 0 /\ advanced = 0
  /\ currents = [p \in Process |-> None]
  /\ timers = {} /\ ticks = {} /\ delays = {} /\ created = 0
  /\ loop = "idle" /\ fired = <<>> /\ updated = 0 /\ steady = FALSE
  /\ cpc = [c \in Clients |-> "idle"]
  /\ ctime = [c \in Clients |-> 0] /\ cproc = [c \in Clients |-> None]
  /\ pauses = 0

\* Clock::now(nullptr); Time::create adds `advanced'.
Now == IF paused THEN current ELSE real + advanced

\* Clock::now(p): a process without a time of its own gets the initial one.
NowOf(p) ==
  IF ~paused \/ p = None THEN Now
  ELSE IF currents[p] = None THEN initial ELSE currents[p]
Touched(p) ==
  IF ~paused \/ p = None THEN currents
  ELSE [currents EXCEPT ![p] = NowOf(p)]

First(tms) == Min({x.at : x \in tms})

\* EventLoop::delay: run tick(time) in `time - now', at once if that is past.
Delay(rest, time, now) ==
  LET due == IF time > now THEN real + time - now ELSE real
      n == CHOOSE i \in 0..Cardinality(rest) :
             \A d \in rest : d.n # i \/ d.tick # time \/ d.due # due IN
  rest \cup {[due |-> due, tick |-> time, n |-> n]}

\* MUTANT: a tick is scheduled only when there is none.
ScheduleTickIfNone(tms, tks, rest, isPaused, now) ==
  IF tms # {} /\ tks = {} /\ ~(isPaused /\ First(tms) > now)
    THEN /\ ticks' = {First(tms)}
         /\ delays' = Delay(rest, First(tms), now)
    ELSE ticks' = tks /\ delays' = rest

\* clock::next and clock::scheduleTick.
ScheduleTick(tms, tks, rest, isPaused, now) ==
  IF /\ tms # {} /\ ~(isPaused /\ First(tms) > now)
     /\ tks = {} \/ First(tms) < Min(tks)
    THEN /\ ticks' = tks \cup {First(tms)}
         /\ delays' = Delay(rest, First(tms), now)
    ELSE ticks' = tks /\ delays' = rest

-----------------------------------------------------------------------------
(* clock::tick, on the event loop.                                         *)

\* The timers of a set in the order of their timeouts, and of their insertion.
InOrder(tms) ==
  {f \in [1..Cardinality(tms) -> tms] : \A i, j \in DOMAIN f : i < j =>
     f[i].at < f[j].at \/ (f[i].at = f[j].at /\ f[i].id < f[j].id)}

\* The first critical section: take the expired timers, in order.
Tick(d) ==
  LET out == {x \in timers : x.at <= Now} IN
  /\ loop = "idle" /\ d.due <= real
  /\ fired' \in InOrder(out)
  /\ timers' = timers \ out
  /\ settling' = (settling \/ (paused /\ out # {}))
  /\ ScheduleTick(timers \ out, ticks \ {d.tick}, delays \ {d}, paused, Now)
  /\ loop' = "check" /\ updated' = 0 /\ steady' = paused
  /\ UNCHANGED <<real, paused, current, initial, advanced, currents, created,
                 clientVars, pauses>>

\* timedout: is the clock paused?
TickCheck ==
  /\ loop = "check"
  /\ loop' = IF paused /\ fired # <<>> THEN "update" ELSE "run"
  /\ UNCHANGED <<real, clockVars, timerVars, fired, updated, steady, clientVars,
                 pauses>>

Forward(p, time) ==
  IF paused /\ p # None /\ NowOf(p) < time
    THEN [currents EXCEPT ![p] = time] ELSE Touched(p)

\* timedout: Clock::update of the creator of each timer.
UpdateCreator ==
  LET x == fired[updated + 1] IN
  /\ loop = "update"
  /\ currents' = Forward(x.creator, x.at)
  /\ updated' = updated + 1
  /\ loop' = IF updated' = Len(fired) THEN "run" ELSE "update"
  /\ UNCHANGED <<real, paused, settling, current, initial, advanced, timerVars,
                 fired, steady, clientVars, pauses>>

RunTimer ==
  /\ loop = "run" /\ fired # <<>>
  /\ fired' = Tail(fired)
  /\ UNCHANGED <<real, clockVars, timerVars, loop, updated, steady, clientVars,
                 pauses>>

\* The last critical section: nothing is left before the paused time.
TickDone ==
  /\ loop = "run" /\ fired = <<>>
  /\ settling' = IF paused /\ (timers = {} \/ First(timers) > current)
                   THEN FALSE ELSE settling
  /\ loop' = "idle" /\ steady' = FALSE
  /\ UNCHANGED <<real, paused, current, initial, advanced, currents, timerVars,
                 fired, updated, clientVars, pauses>>

TimePasses ==
  /\ real < MaxReal /\ real' = real + 1
  /\ UNCHANGED <<clockVars, timerVars, loopVars, clientVars, pauses>>

-----------------------------------------------------------------------------
(* Clients.                                                                *)

Done(c) ==
  /\ cpc' = [cpc EXCEPT ![c] = "idle"]
  /\ ctime' = [ctime EXCEPT ![c] = 0] /\ cproc' = [cproc EXCEPT ![c] = None]

\* Clock::timer: Timeout::in reads the time of the calling process ...
StartTimer(c, p, duration) ==
  /\ cpc[c] = "idle" /\ created < MaxTimers
  /\ created' = created + 1
  /\ cpc' = [cpc EXCEPT ![c] = "timer"]
  /\ ctime' = [ctime EXCEPT ![c] = NowOf(p) + duration]
  /\ cproc' = [cproc EXCEPT ![c] = p]
  /\ currents' = Touched(p)
  /\ UNCHANGED <<real, paused, settling, current, initial, advanced, timers,
                 ticks, delays, loopVars, pauses>>

\* ... and the timer is added later.
AddTimer(c) ==
  LET new == timers \cup {[id |-> 1 + Max({0} \cup {x.id : x \in timers}),
                           at |-> ctime[c], creator |-> cproc[c]]} IN
  /\ cpc[c] = "timer"
  /\ timers' = new
  /\ IF timers = {} \/ ctime[c] < First(timers)
       THEN ScheduleTick(new, ticks, delays, paused, Now)
       ELSE UNCHANGED <<ticks, delays>>
  /\ Done(c)
  /\ UNCHANGED <<real, clockVars, created, loopVars, pauses>>

Cancel(x) ==
  /\ timers' = timers \ {x}
  /\ UNCHANGED <<real, clockVars, ticks, delays, created, loopVars, clientVars,
                 pauses>>

Pause ==
  /\ ~paused /\ pauses < MaxPauses
  /\ pauses' = pauses + 1
  /\ initial' = Now /\ current' = Now /\ paused' = TRUE
  /\ ticks' = {}
  /\ UNCHANGED <<real, settling, advanced, currents, timers, delays, created,
                 loopVars, clientVars>>

\* MUTANT: the ticks cleared by pause are not scheduled again.
ResumeUnscheduled ==
  /\ paused
  /\ paused' = FALSE /\ settling' = FALSE
  /\ currents' = [p \in Process |-> None]
  /\ steady' = FALSE
  /\ UNCHANGED <<real, current, initial, advanced, timerVars, loop, fired,
                 updated, clientVars, pauses>>

Resume ==
  /\ paused
  /\ paused' = FALSE /\ settling' = FALSE
  /\ currents' = [p \in Process |-> None]
  /\ ScheduleTick(timers, ticks, delays, FALSE, real + advanced)
  /\ steady' = FALSE
  /\ UNCHANGED <<real, current, initial, advanced, timers, created, loop, fired,
                 updated, clientVars, pauses>>

\* MUTANT: the paused time is advanced, but not the offset of the real one.
AdvanceCurrentOnly(duration) ==
  /\ paused /\ current + duration <= MaxAdvance
  /\ current' = current + duration
  /\ ScheduleTick(timers, ticks, delays, TRUE, current')
  /\ UNCHANGED <<real, paused, settling, initial, advanced, currents, timers,
                 created, loopVars, clientVars, pauses>>

\* Clock::advance, and Clock::update to a later time.
Advance(duration) ==
  /\ paused /\ advanced + duration <= MaxAdvance
  /\ advanced' = advanced + duration /\ current' = current + duration
  /\ ScheduleTick(timers, ticks, delays, TRUE, current')
  /\ UNCHANGED <<real, paused, settling, initial, currents, timers, created,
                 loopVars, clientVars, pauses>>

AdvanceProcess(p, duration) ==
  /\ paused /\ NowOf(p) + duration <= MaxAdvance
  /\ currents' = [currents EXCEPT ![p] = NowOf(p) + duration]
  /\ UNCHANGED <<real, paused, settling, current, initial, advanced, timerVars,
                 loopVars, clientVars, pauses>>

\* Clock::update of a process with FORCE.
ForceUpdate(p, time) ==
  /\ paused
  /\ currents' = [currents EXCEPT ![p] = time]
  /\ UNCHANGED <<real, paused, settling, current, initial, advanced, timerVars,
                 loopVars, clientVars, pauses>>

\* Clock::order: the time of `from' is read ...
StartOrder(c, from, to) ==
  /\ cpc[c] = "idle" /\ paused /\ from # to
  /\ cpc' = [cpc EXCEPT ![c] = "order"]
  /\ ctime' = [ctime EXCEPT ![c] = NowOf(from)]
  /\ cproc' = [cproc EXCEPT ![c] = to]
  /\ currents' = Touched(from)
  /\ UNCHANGED <<real, paused, settling, current, initial, advanced, timerVars,
                 loopVars, pauses>>

\* ... and later Clock::update moves `to' forward to it.
EndOrder(c) ==
  /\ cpc[c] = "order"
  /\ currents' = Forward(cproc[c], ctime[c])
  /\ Done(c)
  /\ UNCHANGED <<real, paused, settling, current, initial, advanced, timerVars,
                 loopVars, pauses>>

-----------------------------------------------------------------------------
LoopStep ==
  \/ \E d \in delays : Tick(d)
  \/ TickCheck \/ UpdateCreator \/ RunTimer \/ TickDone

ClientStep ==
  \/ \E c \in Clients :
       \/ \E p \in Process \cup {None}, duration \in Durations :
            StartTimer(c, p, duration)
       \/ \E from, to \in Process : StartOrder(c, from, to)
       \/ AddTimer(c) \/ EndOrder(c)
  \/ \E x \in timers : Cancel(x)
  \/ Pause \/ Resume
  \/ \E duration \in Durations :
       \/ Advance(duration)
       \/ \E p \in Process : AdvanceProcess(p, duration)
  \/ \E p \in Process : ForceUpdate(p, initial)

Next == LoopStep \/ ClientStep \/ TimePasses

Spec == Init /\ [][Next]_vars
FairSpec == Spec /\ WF_vars(LoopStep)

-----------------------------------------------------------------------------
(* Properties.                                                             *)

Time == 0..(2 * (MaxReal + MaxAdvance + Max(Durations)))

\* Every variable keeps its type, and processes have a time of their own only
\* while the clock is paused.
TypeOK ==
  /\ real \in 0..MaxReal /\ advanced \in 0..MaxAdvance
  /\ {current, initial} \subseteq Time
  /\ paused \in BOOLEAN /\ settling \in BOOLEAN /\ steady \in BOOLEAN
  /\ currents \in [Process -> Time \cup {None}]
  /\ ~paused => \A p \in Process : currents[p] = None
  /\ \A x \in timers : x.at \in Time /\ x.creator \in Process \cup {None}
  /\ \A d \in delays : d.due \in Time /\ d.tick \in Time
  /\ ticks \subseteq Time
  /\ loop \in {"idle", "check", "update", "run"}
  /\ cpc \in [Clients -> {"idle", "timer", "order"}]

(***************************************************************************)
(* No timer is forgotten: if the first timer can expire (the clock runs,   *)
(* or is paused at or after the timeout), the event loop has a tick for it *)
(* that is due no later than the timeout, whatever pauses, advances and    *)
(* cancellations did to the set of scheduled ticks.                        *)
(***************************************************************************)
TickCovers ==
  timers # {} /\ ~(paused /\ First(timers) > current) =>
    \E d \in delays :
      IF paused THEN d.due <= real ELSE d.due + advanced <= Max({First(timers), Now})

\* A timer whose time has come is run or cancelled, or time is paused before it.
TimersRun ==
  \A n \in 1..MaxTimers :
    (\E x \in timers : x.id = n /\ x.at <= Now)
      ~> ~(\E x \in timers : x.id = n /\ x.at <= Now)

\* A timer never runs before its timeout, even if the clock is resumed,
\* paused or advanced after the tick has taken it.
NotEarly == \A i \in 1..Len(fired) : fired[i].at <= Now

\* Time never goes back, in particular not at pause and resume; while paused
\* the time of a process goes back only when forced to.
TimeForward ==
  [][/\ Now' >= Now
     /\ \A p \in Process :
          currents[p] # None /\ currents'[p] # None /\ currents'[p] < currents[p]
            => ForceUpdate(p, initial)]_vars

Settled == paused /\ ~settling /\ (timers = {} \/ First(timers) > current)

(***************************************************************************)
(* Clock::settled is false from the first critical section of a tick that  *)
(* found expired timers until it has run them, if time was paused during   *)
(* all of it.                                                              *)
(***************************************************************************)
SettledAfterTick == steady /\ fired # <<>> => ~Settled

(***************************************************************************)
(* clock.hpp: when the clock is paused, settled returns true if all timers *)
(* that expire before the paused time have executed.                       *)
(***************************************************************************)
SettledMeansExecuted ==
  Settled => \A i \in 1..Len(fired) : fired[i].at >= current

(***************************************************************************)
(* A timer is neither forgotten nor run early, whatever was done to the    *)
(* clock since it was set.                                                 *)
(***************************************************************************)
TimersExact == TypeOK /\ TickCovers /\ NotEarly

-----------------------------------------------------------------------------
(***************************************************************************)
(* Together with the other half of the manipulation of time, the settling  *)
(* of the processes (module Settle): `focus' says which of the two moves.  *)
(***************************************************************************)
CONSTANTS Workers, Donors, MaxWork

\* There are finitely many threads.
ASSUME ThreadsAssumption == IsFiniteSet(Workers) /\ IsFiniteSet(Donors)

VARIABLES
  focus,
  runq, epoch, semaphore, running, expired, settles, firing, looping, pc, spc,
  old, work

S == INSTANCE Settle WITH settling <- settles, loop <- looping

settleAll == <<runq, epoch, semaphore, running, expired, settles, firing,
               looping, pc, spc, old, work>>

MCInit ==
  /\ focus \in {"clock", "settle"} /\ Init /\ S!Init
  /\ focus = "clock" => runq = 0 /\ expired = 0
ClockNext == focus = "clock" /\ Next /\ UNCHANGED <<focus, settleAll>>
SettleNext == focus = "settle" /\ S!Next /\ UNCHANGED <<focus, vars>>

MCSpec ==
  /\ MCInit /\ [][ClockNext \/ SettleNext]_<<focus, vars, settleAll>>
  /\ WF_vars(focus = "clock" /\ LoopStep /\ UNCHANGED <<focus, settleAll>>)
  /\ WF_settleAll(focus = "settle" /\ S!EventLoop /\ UNCHANGED <<focus, vars>>)
  /\ WF_settleAll(focus = "settle" /\ S!Settling /\ UNCHANGED <<focus, vars>>)
  /\ \A w \in Workers \cup Donors :
       WF_settleAll(focus = "settle" /\ S!Worker(w) /\ UNCHANGED <<focus, vars>>)

\* settle returns only when no process runs or is queued and no timer is left;
\* a tick under way is seen by Clock::settled.
SettledMeansIdle == S!SettledMeansIdle /\ SettledAfterTick

\* A timer whose time has come is run or cancelled, or time is paused before it;
\* settle returns once the work runs out.
ClockGoesOn == TimersRun /\ (focus = "settle" => S!SettleReturns)
==============================================================================

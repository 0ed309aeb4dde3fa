----------------------------- MODULE ClockProofs -----------------------------
(***************************************************************************)
(* The clock and settle, for every set of processes, clients and threads   *)
(* and every bound: a timer is neither forgotten nor run early, time does  *)
(* not go back, and settle returns only when the system is idle.           *)
(*                                                                         *)
(* The clock's invariant (ClockInv) says of every tick in `ticks', not     *)
(* only of the first timer's, that the event loop has a delay for it which *)
(* is due in time: scheduleTick leaves a timer without a delay of its own  *)
(* when an earlier tick is scheduled, and counts on that one.              *)
(*                                                                         *)
(* settle's invariant (SettleInv) says what each of its looks has shown if *)
(* the epoch is still the one it remembers: the queue was empty and        *)
(* whoever filled it since has yet to count that, which a running thread   *)
(* or a tick would be, until both are seen not to be there.                *)
(***************************************************************************)
EXTENDS Clock, TLAPS, FiniteSetTheorems, WellFoundedInduction

-----------------------------------------------------------------------------
(* The inductive invariant of the clock.                                   *)

\* The latest time there is, and the latest timeout.
Latest == MaxReal + MaxAdvance
LastTimeout == Latest + Max(Durations)

\* A timer, with the process that set it.
Timer == [id : Nat, at : 0..LastTimeout, creator : Process \cup {None}]

\* No time is ahead of the running clock.
TimesOK ==
  /\ real \in 0..MaxReal /\ advanced \in 0..MaxAdvance
  /\ paused \in BOOLEAN /\ settling \in BOOLEAN /\ steady \in BOOLEAN
  /\ current \in 0..(real + advanced) /\ initial \in 0..(real + advanced)
  /\ currents \in [Process -> 0..Latest \cup {None}]
  /\ ~paused => \A p \in Process : currents[p] = None

\* Timers are finitely many and their numbers are bounded.
TimersOK ==
  /\ timers \subseteq Timer /\ IsFiniteSet(timers)
  /\ \E n \in Nat : \A x \in timers : x.id <= n
  /\ fired \in Seq(Timer)

\* Delays and ticks are for timeouts.
DelaysOK ==
  /\ \A d \in delays : d.due \in 0..(MaxReal + LastTimeout) /\ d.tick \in 0..LastTimeout
  /\ ticks \subseteq 0..LastTimeout

\* What a client has read of the clock.
ClientsOK ==
  /\ cpc \in [Clients -> {"idle", "timer", "order"}]
  /\ ctime \in [Clients -> 0..LastTimeout]
  /\ cproc \in [Clients -> Process \cup {None}]
  /\ \A c \in Clients : cpc[c] = "order" => ctime[c] <= Latest

\* Where the tick is among its timers, and what it knows of the clock.
LoopOK ==
  /\ loop \in {"idle", "check", "update", "run"}
  /\ updated \in Nat
  /\ loop = "check" => updated = 0
  /\ loop = "update" => updated < Len(fired)
  /\ loop = "idle" => fired = <<>>
  /\ steady => paused
  /\ steady /\ fired # <<>> => settling

\* A tick that is scheduled has a delay: while time is paused it is due, and
\* while the clock runs it is due when its time comes, or has come.
Due(d, time) ==
  IF paused THEN d.due <= real
  ELSE d.due + advanced <= time \/ d.due + advanced <= Now

TicksHaveDelays == \A tick \in ticks : \E d \in delays : d.tick = tick /\ Due(d, tick)

\* TickCovers, with Due.
FirstCovered ==
  timers # {} /\ ~(paused /\ First(timers) > current) =>
    \E d \in delays : Due(d, First(timers))

\* The inductive invariant.
ClockInv ==
  /\ TimesOK /\ TimersOK /\ DelaysOK /\ ClientsOK /\ LoopOK
  /\ TicksHaveDelays /\ FirstCovered /\ NotEarly

-----------------------------------------------------------------------------
(* The inductive invariant of settle.                                      *)

\* The threads, and where they are: with a process to run, counted in `running',
\* and anywhere.
Threads == Workers \cup Donors
Active == {"busy", "push", "count", "signal"}
Counted == Active \cup {"next", "dequeue", "extract", "donated"}
Pcs == Counted \cup {"start", "wait", "woken", "outside"}

\* The types of settle's variables.
SettleTypes ==
  /\ runq \in Nat /\ epoch \in Nat /\ semaphore \in Nat /\ expired \in Nat
  /\ firing \in Nat /\ work \in Nat /\ old \in Nat
  /\ pc \in [Threads -> Pcs] /\ settles \in BOOLEAN
  /\ looping \in {"idle", "fire", "push", "count", "signal"}
  /\ spc \in {"epoch", "running", "empty", "again", "clock", "same", "settled"}

\* `running' counts the threads that may run a process.
RunningOK == running = Cardinality({w \in Threads : pc[w] \in Counted})

\* From the look at the epoch on, and while it is the same: nobody has enqueued
\* a process since the queue was empty, unless a thread has yet to count it ...
QuietAgain ==
  spc = "again" /\ old = epoch =>
    runq = 0 \/ looping = "count" \/ \E w \in Threads : pc[w] = "count"

\* ... which is only the event loop once no thread runs, ...
NoneActive == \A w \in Threads : pc[w] \notin Active
QuietClock ==
  spc = "clock" /\ old = epoch => (runq = 0 /\ NoneActive) \/ looping = "count"

\* ... and not even the event loop once the clock is settled.
QuietSame == spc = "same" /\ old = epoch => S!Idle

\* The clock is settling while the loop is in a tick, and fires a timer while it
\* enqueues a process.
TickUnderWay ==
  /\ looping # "idle" => settles
  /\ looping \in {"push", "count", "signal"} => firing > 0

\* The inductive invariant.
SettleInv ==
  /\ SettleTypes /\ RunningOK /\ TickUnderWay /\ old <= epoch
  /\ QuietAgain /\ QuietClock /\ QuietSame /\ S!SettledMeansIdle

-----------------------------------------------------------------------------
(* Facts about the operators of the clock.                                 *)

\* Min is the least number of a set.
LEMMA MinFacts ==
  ASSUME NEW T \in SUBSET Nat, T # {}
  PROVE  Min(T) \in T /\ \A y \in T : Min(T) <= y
<1>1. \E x \in T : \A y \in T : ~(<<y, x>> \in OpToRel(<, Nat))
  BY NatLessThanWellFounded, WFMin
<1>2. \A x \in Nat, y \in Nat : y < x => <<y, x>> \in OpToRel(<, Nat)
  BY Zenon DEF OpToRel
<1>3. \A x \in Nat, y \in Nat : ~(y < x) => x <= y
  OBVIOUS
<1>4. \E x \in T : \A y \in T : x <= y
  BY <1>1, <1>2, <1>3, Zenon
<1> QED BY <1>4 DEF Min

\* Max is the greatest number of a bounded set.
LEMMA MaxFacts ==
  ASSUME NEW T \in SUBSET Nat, T # {}, NEW n \in Nat, \A y \in T : y <= n
  PROVE  Max(T) \in T /\ \A y \in T : y <= Max(T)
<1> DEFINE B == {k \in Nat : \A y \in T : y <= k}
<1>1. PICK m \in B : \A k \in B : m <= k
  BY MinFacts
<1>2. m \in T
  <2> SUFFICES ASSUME m \notin T PROVE FALSE
    OBVIOUS
  <2>1. \A y \in T : y <= m /\ y # m /\ y \in Nat
    OBVIOUS
  <2>2. PICK z \in T : z \in Nat /\ z <= m /\ z # m
    BY <2>1, Zenon
  <2>3. m - 1 \in Nat /\ \A y \in T : y <= m - 1
    BY <2>1, <2>2
  <2> QED BY <1>1, <2>3
<1>3. \E x \in T : \A y \in T : x >= y
  BY <1>2
<1> QED BY <1>3 DEF Max

\* The greater of two times.
LEMMA MaxOfTwo ==
  ASSUME NEW a \in Nat, NEW b \in Nat
  PROVE  Max({a, b}) = IF a >= b THEN a ELSE b
<1>1. \A x \in {a, b} : x <= a + b /\ x \in Nat
  OBVIOUS
<1>2. Max({a, b}) \in {a, b} /\ \A y \in {a, b} : y <= Max({a, b})
  <2>1. {a, b} \in SUBSET Nat /\ {a, b} # {} /\ a + b \in Nat
    OBVIOUS
  <2> QED BY <1>1, <2>1, MaxFacts, Zenon
<1> QED BY <1>2

\* The longest duration.
LEMMA DurationFacts ==
  /\ Max(Durations) \in Nat /\ \A d \in Durations : d \in Nat /\ d <= Max(Durations)
  /\ Latest \in Nat /\ LastTimeout \in Nat /\ Latest <= LastTimeout
<1>1. Max(Durations) \in Durations /\ \A d \in Durations : d <= Max(Durations)
  BY ConstantsAssumption, MaxFacts
<1>2. Max(Durations) \in Nat /\ \A d \in Durations : d \in Nat
  BY <1>1, ConstantsAssumption, Zenon
<1>3. MaxReal \in Nat /\ MaxAdvance \in Nat
  BY ConstantsAssumption, Zenon
<1>4. Latest \in Nat
  BY <1>3 DEF Latest
<1>5. LastTimeout \in Nat /\ Latest <= LastTimeout
  BY <1>2, <1>4 DEF LastTimeout
<1> QED BY <1>1, <1>2, <1>4, <1>5, Zenon

\* The first timeout of a set of timers.
LEMMA FirstFacts ==
  ASSUME NEW tms \in SUBSET Timer, tms # {}
  PROVE  /\ First(tms) \in 0..LastTimeout
         /\ \E x \in tms : x.at = First(tms)
         /\ \A x \in tms : First(tms) <= x.at
<1> DEFINE T == {x.at : x \in tms}
<1>1. T \in SUBSET Nat /\ T # {}
  BY DurationFacts DEF Timer
<1>2. Min(T) \in T /\ \A y \in T : Min(T) <= y
  BY <1>1, MinFacts
<1>3. T \subseteq 0..LastTimeout
  BY DEF Timer
<1> QED BY <1>2, <1>3 DEF First

\* The sum of the two parts of the time.
LEMMA LatestIsLast ==
  \A r \in 0..MaxReal, a \in 0..MaxAdvance :
    /\ r + a \in 0..Latest /\ a \in Nat
    /\ \A c \in 0..(r + a) : c \in 0..Latest
BY ConstantsAssumption DEF Latest

\* The time is never later than the latest.
LEMMA NowFacts ==
  ASSUME TimesOK
  PROVE  /\ Now \in 0..Latest /\ Now <= real + advanced
         /\ initial \in 0..Latest /\ current \in 0..Latest
<1>1. real + advanced \in 0..Latest
  BY ConstantsAssumption DEF TimesOK, Latest
<1> QED BY <1>1, DurationFacts DEF TimesOK, Now

\* The time of a process.
LEMMA NowOfFacts ==
  ASSUME TimesOK, NEW p \in Process \cup {None}
  PROVE  NowOf(p) \in 0..Latest
<1>1. paused /\ p # None => p \in Process /\ currents[p] \in 0..Latest \cup {None}
  BY Zenon DEF TimesOK
<1> QED BY <1>1, NowFacts, Zenon DEF NowOf

\* A process that is asked for its time keeps it.
LEMMA TouchedFacts ==
  ASSUME TimesOK, NEW p \in Process \cup {None}
  PROVE  /\ Touched(p) \in [Process -> 0..Latest \cup {None}]
         /\ ~paused => Touched(p) = currents
         /\ \A q \in Process : currents[q] # None => Touched(p)[q] = currents[q]
<1>1. NowOf(p) \in 0..Latest \cup {None}
  BY NowOfFacts, Zenon
<1>2. Touched(p) \in [Process -> 0..Latest \cup {None}]
  BY <1>1, Zenon DEF Touched, TimesOK
<1>3. ASSUME NEW q \in Process, currents[q] # None PROVE Touched(p)[q] = currents[q]
  <2>1. CASE paused /\ p = q
    BY <1>3, <2>1, ConstantsAssumption, Zenon DEF Touched, NowOf, TimesOK
  <2>2. CASE ~paused \/ p # q
    BY <2>2, Zenon DEF Touched, TimesOK
  <2> QED BY <2>1, <2>2, Zenon
<1> QED BY <1>2, <1>3, Zenon DEF Touched

\* Clock::update without FORCE moves the time of a process only forward.
LEMMA ForwardFacts ==
  ASSUME TimesOK, NEW p \in Process \cup {None}, NEW time \in 0..Latest
  PROVE  /\ Forward(p, time) \in [Process -> 0..Latest \cup {None}]
         /\ ~paused => Forward(p, time) = currents
         /\ \A q \in Process : currents[q] # None => ~(Forward(p, time)[q] < currents[q])
<1>1. CASE paused /\ p # None /\ NowOf(p) < time
  <2>1. Forward(p, time) = [currents EXCEPT ![p] = time] /\ p \in Process
    BY <1>1, Zenon DEF Forward
  <2>2. Forward(p, time) \in [Process -> 0..Latest \cup {None}]
    BY <2>1, Zenon DEF TimesOK
  <2>3. ASSUME NEW q \in Process, currents[q] # None
        PROVE  ~(Forward(p, time)[q] < currents[q])
    <3>1. currents[q] \in 0..Latest
      BY <2>3, Zenon DEF TimesOK
    <3>2. CASE q = p
      <4>1. Forward(p, time)[q] = time /\ currents[q] < time
        BY <1>1, <2>1, <2>3, <3>2, Zenon DEF NowOf, TimesOK
      <4> QED BY <3>1, <4>1, DurationFacts
    <3>3. CASE q # p
      <4>1. Forward(p, time)[q] = currents[q]
        BY <2>1, <3>3, Zenon DEF TimesOK
      <4> QED BY <3>1, <4>1, DurationFacts
    <3> QED BY <3>2, <3>3, Zenon
  <2> QED BY <1>1, <2>2, <2>3, Zenon
<1>2. CASE ~(paused /\ p # None /\ NowOf(p) < time)
  <2>1. Forward(p, time) = Touched(p)
    BY <1>2, Zenon DEF Forward
  <2>2. \A q \in Process : currents[q] # None =>
          Touched(p)[q] = currents[q] /\ currents[q] \in 0..Latest
    BY TouchedFacts, Zenon DEF TimesOK
  <2>3. \A n \in 0..Latest : ~(n < n)
    BY DurationFacts
  <2> QED BY <2>1, <2>2, <2>3, TouchedFacts, Zenon
<1> QED BY <1>1, <1>2, Zenon

\* A delay is due when its time comes, or at once if it has come.
LEMMA DelayIsDue ==
  ASSUME NEW r \in Nat, NEW time \in Nat, NEW now \in Nat, NEW a \in Nat, now = r + a,
         NEW due, due = IF time > now THEN r + time - now ELSE r
  PROVE  due + a <= time \/ due + a <= now
OBVIOUS

\* clock::scheduleTick: the ticks, and the first timer if it can expire, have a
\* delay afterwards if the ticks had one before.
LEMMA ScheduleStep ==
  ASSUME NEW tms \in SUBSET Timer, NEW tks \in SUBSET (0..LastTimeout), NEW rest,
         NEW now \in 0..Latest, ScheduleTick(tms, tks, rest, paused', now),
         real \in 0..MaxReal, real' = real, paused' \in BOOLEAN, Now' = now,
         advanced' \in Nat, ~paused' => now = real + advanced',
         \A d \in rest : d.due \in 0..(MaxReal + LastTimeout) /\ d.tick \in 0..LastTimeout,
         \A tick \in tks : \E d \in rest : d.tick = tick /\ Due(d, tick)'
  PROVE  /\ DelaysOK' /\ TicksHaveDelays'
         /\ tms # {} /\ ~(paused' /\ First(tms) > now) =>
              \E d \in delays' : Due(d, First(tms))'
<1>1. CASE /\ tms # {} /\ ~(paused' /\ First(tms) > now)
           /\ tks = {} \/ First(tms) < Min(tks)
  <2>1. PICK time \in 0..LastTimeout : time = First(tms)
    BY <1>1, FirstFacts, Zenon
  <2>2. PICK due : due = IF time > now THEN real + time - now ELSE real
    BY Zenon
  <2>3. PICK n : delays' = rest \cup {[due |-> due, tick |-> time, n |-> n]}
    BY <1>1, <2>1, <2>2, Zenon DEF ScheduleTick, Delay
  <2>4. ticks' = tks \cup {time}
    BY <1>1, <2>1, Zenon DEF ScheduleTick
  <2>5. PICK d : d = [due |-> due, tick |-> time, n |-> n]
    BY Zenon
  <2>6. d \in delays' /\ d.due = due /\ d.tick = time /\ \A e \in delays' : e \in rest \/ e = d
    BY <2>3, <2>5, Zenon
  <2>7. due \in 0..(MaxReal + LastTimeout)
    BY <2>1, <2>2, DurationFacts, ConstantsAssumption
  <2>8. Due(d, time)'
    <3>1. CASE paused'
      <4>1. ~(time > now)
        BY <1>1, <2>1, <3>1, Zenon
      <4>2. due <= real
        BY <2>2, <4>1, ConstantsAssumption
      <4> QED BY <2>6, <3>1, <4>2, Zenon DEF Due
    <3>2. CASE ~paused'
      <4>1. PICK a \in Nat : a = advanced' /\ now = real + a
        BY <3>2, Zenon
      <4>2. due + a <= time \/ due + a <= now
        <5>1. real \in Nat /\ now \in Nat /\ time \in Nat
          BY DurationFacts, ConstantsAssumption
        <5> QED BY <2>2, <4>1, <5>1, DelayIsDue, Zenon
      <4> QED BY <2>6, <3>2, <4>1, <4>2, Zenon DEF Due
    <3> QED BY <3>1, <3>2, Zenon
  <2>9. DelaysOK'
    BY <2>1, <2>4, <2>6, <2>7, Zenon DEF DelaysOK
  <2>10. TicksHaveDelays'
    <3>1. ASSUME NEW tick \in ticks' PROVE \E e \in delays' : e.tick = tick /\ Due(e, tick)'
      BY <2>3, <2>4, <2>6, <2>8, Zenon
    <3> QED BY <3>1, Zenon DEF TicksHaveDelays, Due, Now
  <2> QED BY <2>1, <2>6, <2>8, <2>9, <2>10, Zenon
<1>2. CASE ~(/\ tms # {} /\ ~(paused' /\ First(tms) > now)
             /\ tks = {} \/ First(tms) < Min(tks))
  <2>1. ticks' = tks /\ delays' = rest
    BY <1>2, Zenon DEF ScheduleTick
  <2>2. DelaysOK'
    BY <2>1, Zenon DEF DelaysOK
  <2>3. TicksHaveDelays'
    BY <2>1, Zenon DEF TicksHaveDelays, Due, Now
  <2>4. ASSUME tms # {}, ~(paused' /\ First(tms) > now)
        PROVE  \E d \in delays' : Due(d, First(tms))'
    <3>1. tks \in SUBSET Nat /\ tks # {} /\ ~(First(tms) < Min(tks))
      BY <1>2, <2>4, DurationFacts
    <3>2. PICK tick \in tks : tick = Min(tks)
      BY <3>1, MinFacts, Zenon
    <3>3. tick \in Nat /\ First(tms) \in Nat /\ tick <= First(tms)
      BY <2>4, <3>1, <3>2, FirstFacts, DurationFacts
    <3>4. PICK d \in rest : Due(d, tick)'
      BY Zenon
    <3>5. d.due \in Nat /\ d.due + advanced' \in Nat
      BY DurationFacts, ConstantsAssumption
    <3>6. Due(d, First(tms))'
      BY <3>3, <3>4, <3>5 DEF Due
    <3> QED BY <2>1, <3>6, Zenon
  <2> QED BY <2>2, <2>3, <2>4, Zenon
<1> QED BY <1>1, <1>2, Zenon

-----------------------------------------------------------------------------
(* Steps that leave the time, the timers and the ticks alone.              *)

\* Steps that change neither the time nor the timers.
LEMMA TimeFrame ==
  ASSUME ClockInv,
         UNCHANGED <<real, paused, current, advanced, timers, ticks, delays, fired>>
  PROVE  /\ TimersOK' /\ DelaysOK' /\ TicksHaveDelays' /\ FirstCovered' /\ NotEarly'
         /\ Now' = Now
<1>1. TimersOK'
  BY Zenon DEF ClockInv, TimersOK
<1>2. DelaysOK'
  BY Zenon DEF ClockInv, DelaysOK
<1>3. Now' = Now
  BY Zenon DEF Now
<1>4. TicksHaveDelays'
  BY <1>3, Zenon DEF ClockInv, TicksHaveDelays, Due
<1>5. FirstCovered'
  BY <1>3, Zenon DEF ClockInv, FirstCovered, Due, First
<1>6. NotEarly'
  BY <1>3, Zenon DEF ClockInv, NotEarly
<1> QED BY <1>1, <1>2, <1>3, <1>4, <1>5, <1>6, Zenon

\* Steps that change the times of processes, and clients.
LEMMA CurrentsFrame ==
  ASSUME ClockInv, ClientsOK', LoopOK',
         currents' \in [Process -> 0..Latest \cup {None}], ~paused => currents' = currents,
         UNCHANGED <<real, paused, settling, current, initial, advanced, steady,
                     timers, ticks, delays, fired>>
  PROVE  ClockInv'
<1>1. TimesOK'
  BY Zenon DEF ClockInv, TimesOK
<1> QED BY <1>1, TimeFrame, Zenon DEF ClockInv

\* What a client holds.
LEMMA ClientFacts ==
  ASSUME ClientsOK, NEW c \in Clients
  PROVE  /\ cproc[c] \in Process \cup {None} /\ ctime[c] \in 0..LastTimeout
         /\ cpc[c] = "order" => ctime[c] \in 0..Latest
<1>1. cproc[c] \in Process \cup {None} /\ ctime[c] \in 0..LastTimeout
  BY Zenon DEF ClientsOK
<1>2. cpc[c] = "order" => ctime[c] <= Latest
  BY Zenon DEF ClientsOK
<1> QED BY <1>1, <1>2, DurationFacts

\* A client that is done is idle.
LEMMA DoneStep ==
  ASSUME ClientsOK, NEW c \in Clients, Done(c)
  PROVE  ClientsOK'
<1>1. 0 \in 0..LastTimeout
  BY DurationFacts
<1> QED BY <1>1, Zenon DEF ClientsOK, Done

\* A client that has read the clock.
LEMMA ReadStep ==
  ASSUME ClientsOK, NEW c \in Clients, NEW at \in {"timer", "order"},
         NEW time \in 0..LastTimeout, at = "order" => time <= Latest,
         NEW p \in Process \cup {None},
         cpc' = [cpc EXCEPT ![c] = at], ctime' = [ctime EXCEPT ![c] = time],
         cproc' = [cproc EXCEPT ![c] = p]
  PROVE  ClientsOK'
BY Zenon DEF ClientsOK

\* The timer whose creator is updated next.
LEMMA FiredFacts ==
  ASSUME ClockInv, UpdateCreator
  PROVE  /\ updated + 1 \in 1..Len(fired) /\ updated + 1 \in Nat
         /\ fired[updated + 1].creator \in Process \cup {None}
         /\ fired[updated + 1].at \in 0..Latest
<1>1. PICK x : x = fired[updated + 1]
  BY Zenon
<1>2. updated + 1 \in 1..Len(fired) /\ updated + 1 \in Nat
  BY DEF ClockInv, LoopOK, TimersOK, UpdateCreator
<1>3. x \in Timer /\ x.at <= Now
  <2>1. fired \in Seq(Timer)
    BY Zenon DEF ClockInv, TimersOK
  <2>2. x \in Timer
    BY <1>1, <1>2, <2>1
  <2> QED BY <1>1, <1>2, <2>2, Zenon DEF ClockInv, NotEarly
<1>4. x.creator \in Process \cup {None} /\ x.at \in 0..Latest
  <2>1. x.creator \in Process \cup {None} /\ x.at \in 0..LastTimeout
    BY <1>3, Zenon DEF Timer
  <2>2. Now \in 0..Latest
    BY NowFacts, Zenon DEF ClockInv
  <2> QED BY <1>3, <2>1, <2>2, DurationFacts
<1> QED BY <1>1, <1>2, <1>4, Zenon

\* timedout, for one timer.
LEMMA UpdateCreatorStep ==
  ASSUME ClockInv, UpdateCreator
  PROVE  ClockInv'
<1>1. PICK x : x = fired[updated + 1]
  BY Zenon
<1>2. updated + 1 \in 1..Len(fired) /\ updated + 1 \in Nat
  BY FiredFacts, Zenon
<1>4. x.creator \in Process \cup {None} /\ x.at \in 0..Latest
  BY <1>1, FiredFacts, Zenon
<1>5. currents' = Forward(x.creator, x.at)
  BY <1>1, Zenon DEF UpdateCreator
<1>6. LoopOK'
  <2>1. /\ updated' = updated + 1 /\ loop = "update"
        /\ UNCHANGED <<fired, steady, paused, settling>>
        /\ loop' = IF updated' = Len(fired) THEN "run" ELSE "update"
    BY Zenon DEF UpdateCreator
  <2>2. updated' # Len(fired) => updated' < Len(fired)
    BY <1>2, <2>1
  <2> QED BY <1>2, <2>1, <2>2, Zenon DEF ClockInv, LoopOK
<1>7. ClientsOK'
  BY Zenon DEF ClockInv, ClientsOK, UpdateCreator, clientVars
<1>8. UNCHANGED <<real, paused, settling, current, initial, advanced, steady,
                  timers, ticks, delays, fired>>
  BY Zenon DEF UpdateCreator, timerVars
<1> QED BY <1>4, <1>5, <1>6, <1>7, <1>8, ForwardFacts, CurrentsFrame, Zenon DEF ClockInv

\* LoopOK speaks only of the tick.
LEMMA LoopFrame ==
  ASSUME ClockInv, UNCHANGED <<loopVars, paused, settling>>
  PROVE  LoopOK'
BY Zenon DEF ClockInv, LoopOK, loopVars

\* A client reads the time of a process.
LEMMA ReadClock ==
  ASSUME ClockInv, NEW c \in Clients, NEW at \in {"timer", "order"},
         NEW p \in Process \cup {None}, NEW q \in Process \cup {None},
         NEW time \in 0..LastTimeout, at = "order" => time <= Latest,
         cpc' = [cpc EXCEPT ![c] = at], ctime' = [ctime EXCEPT ![c] = time],
         cproc' = [cproc EXCEPT ![c] = q], currents' = Touched(p),
         UNCHANGED <<real, paused, settling, current, initial, advanced, timers,
                     ticks, delays, loopVars>>
  PROVE  ClockInv'
<1>1. ClientsOK'
  BY ReadStep, Zenon DEF ClockInv
<1>2. LoopOK'
  BY LoopFrame, Zenon
<1>3. UNCHANGED <<fired, steady>>
  BY Zenon DEF loopVars
<1> QED BY <1>1, <1>2, <1>3, TouchedFacts, CurrentsFrame, Zenon DEF ClockInv

\* Clock::timer and Clock::order start with that.
LEMMA ReadSteps ==
  ASSUME ClockInv, NEW c \in Clients,
         \/ \E p \in Process \cup {None}, duration \in Durations : StartTimer(c, p, duration)
         \/ \E from, to \in Process : StartOrder(c, from, to)
  PROVE  ClockInv'
<1>1. ASSUME NEW p \in Process \cup {None}, NEW duration \in Durations,
             StartTimer(c, p, duration)
      PROVE  ClockInv'
  <2>1. PICK time : time = NowOf(p) + duration
    BY Zenon
  <2>2. NowOf(p) \in 0..Latest
    BY NowOfFacts, Zenon DEF ClockInv
  <2>3. time \in 0..LastTimeout
    BY <2>1, <2>2, DurationFacts DEF LastTimeout
  <2> QED BY <1>1, <2>1, <2>3, ReadClock, Zenon DEF StartTimer
<1>2. ASSUME NEW from \in Process, NEW to \in Process, StartOrder(c, from, to)
      PROVE  ClockInv'
  <2>1. PICK time \in 0..Latest : time = NowOf(from)
    BY NowOfFacts, Zenon DEF ClockInv
  <2>2. time \in 0..LastTimeout /\ time <= Latest
    BY DurationFacts
  <2> QED BY <1>2, <2>1, <2>2, ReadClock, Zenon DEF StartOrder, timerVars
<1> QED BY <1>1, <1>2, Zenon

\* Clock::update, Clock::advance of a process, and the end of Clock::order.
LEMMA ProcessTimeSteps ==
  ASSUME ClockInv,
         \/ \E c \in Clients : EndOrder(c)
         \/ \E p \in Process, duration \in Durations : AdvanceProcess(p, duration)
         \/ \E p \in Process : ForceUpdate(p, initial)
  PROVE  ClockInv'
<1>1. ASSUME NEW c \in Clients, EndOrder(c) PROVE ClockInv'
  <2>1. cproc[c] \in Process \cup {None} /\ ctime[c] \in 0..Latest
    BY <1>1, ClientFacts, Zenon DEF ClockInv, EndOrder
  <2>2. ClientsOK'
    BY <1>1, DoneStep, Zenon DEF ClockInv, EndOrder
  <2>3. /\ currents' = Forward(cproc[c], ctime[c])
        /\ UNCHANGED <<real, paused, settling, current, initial, advanced, steady,
                       timers, ticks, delays, fired, loopVars>>
    BY <1>1, Zenon DEF EndOrder, timerVars, loopVars
  <2>4. PICK p \in Process \cup {None}, time \in 0..Latest : p = cproc[c] /\ time = ctime[c]
    BY <2>1, Zenon
  <2>5. LoopOK'
    BY <2>3, LoopFrame, Zenon
  <2> QED BY <2>2, <2>3, <2>4, <2>5, ForwardFacts, CurrentsFrame, Zenon DEF ClockInv
<1>2. ASSUME NEW p \in Process, NEW time \in 0..Latest, paused,
             currents' = [currents EXCEPT ![p] = time],
             UNCHANGED <<real, paused, settling, current, initial, advanced, timerVars,
                         loopVars, clientVars, pauses>>
      PROVE  ClockInv'
  <2>1. currents' \in [Process -> 0..Latest \cup {None}]
    BY <1>2, Zenon DEF ClockInv, TimesOK
  <2>2. ClientsOK'
    BY <1>2, Zenon DEF ClockInv, ClientsOK, clientVars
  <2>3. LoopOK'
    BY <1>2, LoopFrame, Zenon
  <2>4. UNCHANGED <<timers, ticks, delays, steady, fired>>
    BY <1>2, Zenon DEF timerVars, loopVars
  <2> QED BY <1>2, <2>1, <2>2, <2>3, <2>4, CurrentsFrame, Zenon
<1>3. ASSUME NEW p \in Process, NEW duration \in Durations, AdvanceProcess(p, duration)
      PROVE  ClockInv'
  <2>1. PICK time : time = NowOf(p) + duration
    BY Zenon
  <2>2. time <= MaxAdvance
    BY <1>3, <2>1, Zenon DEF AdvanceProcess
  <2>3. NowOf(p) \in 0..Latest
    BY NowOfFacts, Zenon DEF ClockInv
  <2>4. time \in 0..Latest
    BY <2>1, <2>2, <2>3, DurationFacts, ConstantsAssumption DEF Latest
  <2> QED BY <1>2, <1>3, <2>1, <2>4, Zenon DEF AdvanceProcess
<1>4. ASSUME NEW p \in Process, ForceUpdate(p, initial) PROVE ClockInv'
  <2>1. PICK time \in 0..Latest : time = initial
    BY NowFacts, Zenon DEF ClockInv
  <2> QED BY <1>2, <1>4, <2>1, Zenon DEF ForceUpdate
<1> QED BY <1>1, <1>3, <1>4, Zenon

-----------------------------------------------------------------------------
(* The rest of a tick, and the passing of time.                            *)

\* The timers of the tick are looked at and run, and the tick ends.
LEMMA TickSteps ==
  ASSUME ClockInv, TickCheck \/ RunTimer \/ TickDone
  PROVE  ClockInv'
<1>1. UNCHANGED <<real, paused, current, initial, advanced, currents, timerVars, clientVars>>
  BY Zenon DEF TickCheck, RunTimer, TickDone, clockVars
<1>2. ClientsOK'
  BY <1>1, Zenon DEF ClockInv, ClientsOK, clientVars
<1>3. UNCHANGED <<timers, ticks, delays>>
  BY <1>1, Zenon DEF timerVars
<1>4. CASE TickCheck \/ TickDone
  <2>1. UNCHANGED fired /\ settling' \in BOOLEAN /\ steady' \in BOOLEAN
    BY <1>4, Zenon DEF TickCheck, TickDone, ClockInv, TimesOK, clockVars
  <2>2. TimesOK'
    BY <1>1, <2>1, Zenon DEF ClockInv, TimesOK
  <2>3. LoopOK'
    <3>1. CASE TickCheck
      <4>1. fired # <<>> => 0 < Len(fired)
        BY DEF ClockInv, TimersOK
      <4> QED BY <3>1, <4>1, Zenon DEF TickCheck, ClockInv, LoopOK, clockVars
    <3>2. CASE TickDone
      BY <3>2, Zenon DEF TickDone, ClockInv, LoopOK
    <3> QED BY <1>4, <3>1, <3>2, Zenon
  <2> QED BY <1>1, <1>2, <1>3, <2>1, <2>2, <2>3, TimeFrame, Zenon DEF ClockInv
<1>5. CASE RunTimer
  <2>1. /\ fired' = Tail(fired) /\ fired # <<>> /\ fired \in Seq(Timer)
        /\ UNCHANGED <<loop, updated, steady, settling>> /\ loop = "run"
    BY <1>5, Zenon DEF RunTimer, ClockInv, TimersOK, clockVars
  <2>2. /\ fired' \in Seq(Timer)
        /\ \A i \in 1..Len(fired') : i + 1 \in 1..Len(fired) /\ fired'[i] = fired[i + 1]
    BY <2>1
  <2>3. TimesOK' /\ TimersOK' /\ DelaysOK'
    BY <1>1, <1>3, <2>1, <2>2, Zenon DEF ClockInv, TimesOK, TimersOK, DelaysOK
  <2>4. Now' = Now
    BY <1>1, Zenon DEF Now
  <2>5. TicksHaveDelays' /\ FirstCovered'
    BY <1>1, <1>3, <2>4, Zenon DEF ClockInv, TicksHaveDelays, FirstCovered, Due, First
  <2>6. NotEarly'
    BY <2>2, <2>4, Zenon DEF ClockInv, NotEarly
  <2>7. LoopOK'
    BY <1>1, <2>1, Zenon DEF ClockInv, LoopOK
  <2> QED BY <1>2, <2>3, <2>5, <2>6, <2>7, Zenon DEF ClockInv
<1> QED BY <1>4, <1>5, Zenon

\* The numbers of a delay.
LEMMA DelayFacts ==
  ASSUME ClockInv, NEW d \in delays
  PROVE  d.due \in Nat /\ real \in Nat /\ advanced \in Nat /\ Now \in Nat
<1>1. d.due \in Nat
  BY DurationFacts, ConstantsAssumption DEF ClockInv, DelaysOK
<1>2. real \in Nat /\ advanced \in Nat
  BY DEF ClockInv, TimesOK
<1>3. Now \in Nat
  BY NowFacts, DurationFacts DEF ClockInv
<1> QED BY <1>1, <1>2, <1>3, Zenon

\* Timers that were not early are not early later.
LEMMA NotEarlyLater ==
  ASSUME ClockInv, UNCHANGED fired, Now' \in Nat, Now <= Now'
  PROVE  NotEarly'
<1>1. ASSUME NEW i \in 1..Len(fired) PROVE fired[i].at <= Now'
  <2>1. fired[i] \in Timer
    BY DEF ClockInv, TimersOK
  <2>2. fired[i].at \in Nat /\ Now \in Nat
    BY <2>1, NowFacts, DurationFacts DEF Timer, ClockInv
  <2>3. fired[i].at <= Now
    BY Zenon DEF ClockInv, NotEarly
  <2> QED BY <2>2, <2>3
<1> QED BY <1>1, Zenon DEF NotEarly

\* The time of the event loop.
LEMMA TimePassesStep ==
  ASSUME ClockInv, TimePasses
  PROVE  ClockInv' /\ Now <= Now'
<1>1. real' = real + 1 /\ real \in Nat /\ real' \in 0..MaxReal /\ advanced \in Nat
  BY ConstantsAssumption DEF TimePasses, ClockInv, TimesOK
<1>2. UNCHANGED <<clockVars, timerVars, loopVars, clientVars>>
  BY Zenon DEF TimePasses
<1>3. UNCHANGED <<paused, settling, current, initial, advanced, currents, timers, ticks,
                  delays, fired, steady>>
  BY <1>2, Zenon DEF clockVars, timerVars, loopVars
<1>4. TimesOK'
  <2>1. current' \in 0..(real' + advanced') /\ initial' \in 0..(real' + advanced')
    BY <1>1, <1>3 DEF ClockInv, TimesOK
  <2> QED BY <1>1, <1>3, <2>1, Zenon DEF ClockInv, TimesOK
<1>5. ClientsOK' /\ LoopOK' /\ TimersOK' /\ DelaysOK'
  <2>1. ClientsOK'
    BY <1>2, Zenon DEF ClockInv, ClientsOK, clientVars
  <2>2. TimersOK' /\ DelaysOK'
    BY <1>3, Zenon DEF ClockInv, TimersOK, DelaysOK
  <2> QED BY <1>2, <1>3, <2>1, <2>2, LoopFrame, Zenon
<1>6. Now' \in Nat /\ Now <= Now'
  <2>1. Now \in Nat /\ Now' = (IF paused THEN Now ELSE Now + 1)
    BY <1>1, <1>3, NowFacts, DurationFacts DEF Now, ClockInv
  <2> QED BY <2>1
<1>7. \A d \in delays : \A time : Due(d, time) => Due(d, time)'
  <2>1. ASSUME NEW d \in delays PROVE
          /\ d.due <= real => d.due <= real'
          /\ d.due + advanced <= Now => d.due + advanced' <= Now'
    BY <1>1, <1>3, <1>6, DelayFacts
  <2> QED BY <1>3, <2>1, Zenon DEF Due
<1>8. TicksHaveDelays' /\ FirstCovered'
  BY <1>3, <1>7, Zenon DEF ClockInv, TicksHaveDelays, FirstCovered, First
<1>9. NotEarly'
  BY <1>3, <1>6, NotEarlyLater, Zenon
<1> QED BY <1>4, <1>5, <1>6, <1>8, <1>9, Zenon DEF ClockInv

\* Clock::pause: the first timer may still run if it is due now.
LEMMA PauseStep ==
  ASSUME ClockInv, Pause
  PROVE  ClockInv' /\ Now' = Now
<1>1. /\ ~paused /\ paused' = TRUE /\ current' = Now /\ initial' = Now /\ ticks' = {}
      /\ UNCHANGED <<real, settling, advanced, currents, timers, delays, loopVars, clientVars>>
  BY Zenon DEF Pause
<1>2. Now' = Now /\ Now = real + advanced
  BY <1>1, Zenon DEF Now
<1>3. UNCHANGED <<fired, steady>>
  BY <1>1, Zenon DEF loopVars
<1>4. TimesOK'
  <2>1. Now \in 0..(real' + advanced')
    BY <1>1, <1>2, NowFacts, DurationFacts DEF ClockInv
  <2> QED BY <1>1, <1>3, <2>1, Zenon DEF ClockInv, TimesOK
<1>5. TimersOK' /\ DelaysOK' /\ TicksHaveDelays'
  BY <1>1, <1>3, Zenon DEF ClockInv, TimersOK, DelaysOK, TicksHaveDelays
<1>6. ClientsOK'
  BY <1>1, Zenon DEF ClockInv, ClientsOK, clientVars
<1>7. LoopOK'
  BY <1>1, Zenon DEF ClockInv, LoopOK, loopVars
<1>8. FirstCovered'
  <2> SUFFICES ASSUME timers # {}, ~(First(timers) > Now)
               PROVE  \E d \in delays : d.due <= real
    BY <1>1, Zenon DEF FirstCovered, Due, First
  <2>1. PICK d \in delays : Due(d, First(timers))
    BY <1>1, Zenon DEF ClockInv, FirstCovered
  <2>2. d.due + advanced <= First(timers) \/ d.due + advanced <= Now
    BY <1>1, <2>1, Zenon DEF Due
  <2>3. First(timers) \in Nat
    BY FirstFacts, DurationFacts DEF ClockInv, TimersOK
  <2>4. d.due <= real
    BY <1>2, <2>2, <2>3, DelayFacts
  <2> QED BY <2>4, Zenon
<1>9. NotEarly'
  BY <1>2, <1>3, Zenon DEF ClockInv, NotEarly
<1> QED BY <1>2, <1>4, <1>5, <1>6, <1>7, <1>8, <1>9, Zenon DEF ClockInv

-----------------------------------------------------------------------------
(* Timers and ticks.                                                       *)

\* Clock::cancel: the first timer is no earlier without the cancelled one.
LEMMA CancelStep ==
  ASSUME ClockInv, NEW x \in timers, Cancel(x)
  PROVE  ClockInv' /\ Now' = Now
<1>1. /\ timers' = timers \ {x}
      /\ UNCHANGED <<real, clockVars, ticks, delays, loopVars, clientVars>>
  BY Zenon DEF Cancel
<1>2. UNCHANGED <<paused, settling, current, initial, advanced, currents, fired, steady>>
  BY <1>1, Zenon DEF clockVars, loopVars
<1>3. TimesOK' /\ DelaysOK' /\ Now' = Now
  BY <1>1, <1>2, Zenon DEF ClockInv, TimesOK, DelaysOK, Now
<1>4. ClientsOK'
  BY <1>1, Zenon DEF ClockInv, ClientsOK, clientVars
<1>5. LoopOK'
  BY <1>1, <1>2, LoopFrame, Zenon
<1>6. TimersOK'
  <2>1. IsFiniteSet(timers')
    BY <1>1, FS_RemoveElement, Zenon DEF ClockInv, TimersOK
  <2> QED BY <1>1, <1>2, <2>1, Zenon DEF ClockInv, TimersOK
<1>7. TicksHaveDelays' /\ NotEarly'
  BY <1>1, <1>2, <1>3, Zenon DEF ClockInv, TicksHaveDelays, NotEarly, Due
<1>8. FirstCovered'
  <2> SUFFICES ASSUME timers' # {}, ~(paused /\ First(timers') > current)
               PROVE  \E d \in delays : Due(d, First(timers'))
    BY <1>1, <1>2, <1>3, Zenon DEF FirstCovered, Due, First
  <2>1. PICK a \in Nat, b \in Nat : a = First(timers) /\ b = First(timers') /\ a <= b
    <3>1. timers \in SUBSET Timer /\ timers' \in SUBSET Timer /\ timers # {}
      BY <1>1, Zenon DEF ClockInv, TimersOK
    <3>2. First(timers) \in Nat /\ First(timers') \in Nat
      BY <3>1, FirstFacts, DurationFacts
    <3>3. PICK y \in timers' : y.at = First(timers')
      BY <3>1, FirstFacts, Zenon
    <3>4. First(timers) <= y.at
      BY <1>1, <3>1, FirstFacts, Zenon
    <3> QED BY <3>2, <3>3, <3>4, Zenon
  <2>2. ~(paused /\ First(timers) > current)
    <3>1. current \in Nat
      BY NowFacts, DurationFacts DEF ClockInv
    <3> QED BY <2>1, <3>1
  <2>3. PICK d \in delays : Due(d, a)
    BY <1>1, <2>1, <2>2, Zenon DEF ClockInv, FirstCovered
  <2>4. d.due + advanced <= a => d.due + advanced <= b
    BY <2>1, DelayFacts
  <2> QED BY <2>1, <2>3, <2>4, Zenon DEF Due
<1> QED BY <1>3, <1>4, <1>5, <1>6, <1>7, <1>8, Zenon DEF ClockInv

\* Steps that schedule a tick, with the timers, ticks and delays to do it for.
LEMMA ScheduleFrame ==
  ASSUME ClockInv, TimesOK', TimersOK', ClientsOK', LoopOK', NotEarly',
         NEW tks \in SUBSET ticks, NEW rest \in SUBSET delays,
         ScheduleTick(timers', tks, rest, paused', Now'), real' = real,
         paused' => current' = Now',
         \A tick \in tks : \E d \in rest : d.tick = tick /\ Due(d, tick)'
  PROVE  ClockInv'
<1>1. PICK tms, now : tms = timers' /\ now = Now'
  BY Zenon
<1>2. tms \in SUBSET Timer /\ now \in 0..Latest /\ advanced' \in Nat
  <2>1. /\ real' \in 0..MaxReal /\ advanced' \in 0..MaxAdvance /\ paused' \in BOOLEAN
        /\ current' \in 0..(real' + advanced')
    BY Zenon DEF TimesOK
  <2>2. Now' = IF paused' THEN current' ELSE real' + advanced'
    BY Zenon DEF Now
  <2>3. Now' \in 0..Latest /\ advanced' \in Nat
    BY <2>1, <2>2, LatestIsLast, Zenon
  <2> QED BY <1>1, <2>3, Zenon DEF TimersOK
<1>3. tks \in SUBSET (0..LastTimeout)
  BY Zenon DEF ClockInv, DelaysOK
<1>4. \A d \in rest : d.due \in 0..(MaxReal + LastTimeout) /\ d.tick \in 0..LastTimeout
  BY Zenon DEF ClockInv, DelaysOK
<1>5. ~paused' => now = real + advanced'
  BY <1>1, Zenon DEF Now
<1>6. ScheduleTick(tms, tks, rest, paused', now) /\ Now' = now
  BY <1>1, Zenon
<1>7. real \in 0..MaxReal /\ paused' \in BOOLEAN
  BY Zenon DEF ClockInv, TimesOK
<1>8. /\ DelaysOK' /\ TicksHaveDelays'
      /\ tms # {} /\ ~(paused' /\ First(tms) > now) => \E d \in delays' : Due(d, First(tms))'
  BY <1>2, <1>3, <1>4, <1>5, <1>6, <1>7, ScheduleStep, Zenon
<1>9. FirstCovered'
  BY <1>1, <1>8, Zenon DEF FirstCovered, First, Due
<1> QED BY <1>8, <1>9, Zenon DEF ClockInv

\* Clock::resume: what was due stays due.
LEMMA ResumeStep ==
  ASSUME ClockInv, Resume
  PROVE  ClockInv' /\ Now <= Now'
<1>1. /\ paused /\ paused' = FALSE /\ settling' = FALSE /\ steady' = FALSE
      /\ currents' = [p \in Process |-> None]
      /\ ScheduleTick(timers, ticks, delays, FALSE, real + advanced)
      /\ UNCHANGED <<real, current, initial, advanced, timers, loop, fired, updated, clientVars>>
  BY Zenon DEF Resume
<1>2. Now' = real + advanced /\ Now' \in Nat /\ Now <= Now'
  <2>1. Now' = real + advanced
    BY <1>1, Zenon DEF Now
  <2>2. real \in Nat /\ advanced \in Nat
    BY DEF ClockInv, TimesOK
  <2> QED BY <2>1, <2>2, NowFacts DEF ClockInv
<1>3. TimesOK'
  BY <1>1, Zenon DEF ClockInv, TimesOK
<1>4. TimersOK'
  BY <1>1, Zenon DEF ClockInv, TimersOK
<1>5. ClientsOK'
  BY <1>1, Zenon DEF ClockInv, ClientsOK, clientVars
<1>6. LoopOK'
  BY <1>1, Zenon DEF ClockInv, LoopOK
<1>7. NotEarly'
  BY <1>1, <1>2, NotEarlyLater, Zenon
<1>8. \A tick \in ticks : \E d \in delays : d.tick = tick /\ Due(d, tick)'
  <2>1. ASSUME NEW d \in delays, d.due <= real PROVE d.due + advanced <= real + advanced
    BY <2>1, DelayFacts
  <2>2. ASSUME NEW d \in delays, NEW tick, Due(d, tick) PROVE Due(d, tick)'
    BY <1>1, <1>2, <2>1, <2>2, Zenon DEF Due
  <2> QED BY <2>2, Zenon DEF ClockInv, TicksHaveDelays
<1>9. ScheduleTick(timers', ticks, delays, paused', Now')
  BY <1>1, <1>2, Zenon
<1>10. ClockInv'
  <2>1. PICK tks \in SUBSET ticks, rest \in SUBSET delays : tks = ticks /\ rest = delays
    BY Zenon
  <2> QED BY <1>1, <1>3, <1>4, <1>5, <1>6, <1>7, <1>8, <1>9, <2>1, ScheduleFrame, Zenon
<1> QED BY <1>2, <1>10, Zenon

\* Clock::advance of the clock.
LEMMA AdvanceStep ==
  ASSUME ClockInv, NEW duration \in Durations, Advance(duration)
  PROVE  ClockInv' /\ Now <= Now'
<1>1. /\ paused /\ advanced + duration <= MaxAdvance
      /\ advanced' = advanced + duration /\ current' = current + duration
      /\ ScheduleTick(timers, ticks, delays, TRUE, current')
      /\ UNCHANGED <<real, paused, settling, initial, currents, timers, loopVars, clientVars>>
  BY Zenon DEF Advance
<1>2. UNCHANGED <<fired, steady>>
  BY <1>1, Zenon DEF loopVars
<1>3. /\ advanced' \in 0..MaxAdvance /\ current' \in 0..(real' + advanced')
      /\ initial' \in 0..(real' + advanced') /\ current <= current' /\ current' \in Nat
  BY <1>1, DurationFacts, ConstantsAssumption DEF ClockInv, TimesOK
<1>4. Now = current /\ Now' = current'
  BY <1>1, Zenon DEF Now
<1>5. TimesOK'
  BY <1>1, <1>2, <1>3, Zenon DEF ClockInv, TimesOK
<1>6. TimersOK'
  BY <1>1, <1>2, Zenon DEF ClockInv, TimersOK
<1>7. ClientsOK'
  BY <1>1, Zenon DEF ClockInv, ClientsOK, clientVars
<1>8. LoopOK'
  BY <1>1, LoopFrame, Zenon
<1>9. NotEarly'
  BY <1>2, <1>3, <1>4, NotEarlyLater, Zenon
<1>10. \A tick \in ticks : \E d \in delays : d.tick = tick /\ Due(d, tick)'
  BY <1>1, Zenon DEF ClockInv, TicksHaveDelays, Due
<1>11. paused' = TRUE
  BY <1>1, Zenon DEF ClockInv, TimesOK
<1>12. ScheduleTick(timers', ticks, delays, paused', Now')
  BY <1>1, <1>4, <1>11, Zenon
<1>13. ClockInv'
  <2>1. PICK tks \in SUBSET ticks, rest \in SUBSET delays : tks = ticks /\ rest = delays
    BY Zenon
  <2> QED BY <1>1, <1>4, <1>5, <1>6, <1>7, <1>8, <1>9, <1>10, <1>12, <2>1, ScheduleFrame, Zenon
<1> QED BY <1>3, <1>4, <1>13, Zenon

\* The timers of a tick are expired ones, and there are some if any expired.
LEMMA InOrderFacts ==
  ASSUME NEW out \in SUBSET Timer, IsFiniteSet(out), NEW f \in InOrder(out)
  PROVE  /\ f \in Seq(Timer) /\ \A i \in 1..Len(f) : f[i] \in out
         /\ f # <<>> => out # {}
<1>1. PICK n \in Nat : n = Cardinality(out) /\ f \in [1..n -> out]
  BY FS_CardinalityType, Zenon DEF InOrder
<1>2. Len(f) = n /\ f \in Seq(out)
  BY <1>1
<1>3. f \in Seq(Timer) /\ \A i \in 1..Len(f) : f[i] \in out
  BY <1>1, <1>2
<1>4. out = {} => n = 0
  BY <1>1, FS_EmptySet, Zenon
<1>5. n = 0 => f = <<>>
  BY <1>2
<1> QED BY <1>3, <1>4, <1>5, Zenon

\* clock::tick, the first critical section: the delay that runs has no other tick.
LEMMA TickStep ==
  ASSUME ClockInv, NEW d \in delays, Tick(d)
  PROVE  ClockInv' /\ Now' = Now
<1>1. PICK out : out = {x \in timers : x.at <= Now}
  BY Zenon
<1>2. /\ fired' \in InOrder(out) /\ timers' = timers \ out
      /\ settling' = (settling \/ (paused /\ out # {}))
      /\ ScheduleTick(timers \ out, ticks \ {d.tick}, delays \ {d}, paused, Now)
      /\ loop' = "check" /\ updated' = 0 /\ steady' = paused
      /\ UNCHANGED <<real, paused, current, initial, advanced, currents, clientVars>>
  BY <1>1, Zenon DEF Tick
<1>3. Now' = Now
  BY <1>2, Zenon DEF Now
<1>4. out \in SUBSET Timer /\ out \in SUBSET timers /\ IsFiniteSet(out) /\ IsFiniteSet(timers \ out)
  <2>1. out \in SUBSET timers /\ timers \ out \in SUBSET timers /\ IsFiniteSet(timers)
    BY <1>1, Zenon DEF ClockInv, TimersOK
  <2>2. IsFiniteSet(out) /\ IsFiniteSet(timers \ out)
    BY <2>1, FS_Subset, Zenon
  <2> QED BY <2>1, <2>2, Zenon DEF ClockInv, TimersOK
<1>5. PICK f \in InOrder(out) : f = fired'
  BY <1>2, Zenon
<1>6. f \in Seq(Timer) /\ (\A i \in 1..Len(f) : f[i] \in out) /\ (f # <<>> => out # {})
  BY <1>4, InOrderFacts, Zenon
<1>7. TimesOK'
  BY <1>2, Zenon DEF ClockInv, TimesOK
<1>8. TimersOK'
  BY <1>2, <1>4, <1>5, <1>6, Zenon DEF ClockInv, TimersOK
<1>9. ClientsOK'
  BY <1>2, Zenon DEF ClockInv, ClientsOK, clientVars
<1>10. LoopOK'
  <2>1. 0 \in Nat
    OBVIOUS
  <2> QED BY <1>2, <1>5, <1>6, <2>1, Zenon DEF LoopOK
<1>11. NotEarly'
  BY <1>1, <1>3, <1>5, <1>6, Zenon DEF NotEarly
<1>12. PICK tks \in SUBSET ticks, rest \in SUBSET delays :
         tks = ticks \ {d.tick} /\ rest = delays \ {d}
  BY Zenon
<1>13. \A tick \in tks : \E e \in rest : e.tick = tick /\ Due(e, tick)'
  <2>1. ASSUME NEW tick \in tks PROVE \E e \in rest : e.tick = tick /\ Due(e, tick)'
    <3>1. PICK e \in delays : e.tick = tick /\ Due(e, tick)
      BY <1>12, Zenon DEF ClockInv, TicksHaveDelays
    <3>2. e \in rest
      BY <1>12, <3>1, Zenon
    <3> QED BY <1>2, <1>3, <3>1, <3>2, Zenon DEF Due
  <2> QED BY <2>1, Zenon
<1>14. ScheduleTick(timers', tks, rest, paused', Now') /\ (paused' => current' = Now')
  <2>1. paused' => current' = Now'
    BY Zenon DEF Now
  <2> QED BY <1>2, <1>3, <1>12, <2>1, Zenon
<1> QED BY <1>2, <1>3, <1>7, <1>8, <1>9, <1>10, <1>11, <1>13, <1>14, ScheduleFrame, Zenon

\* Clock::timer, the second critical section: a tick is scheduled if the timer
\* is the first.
LEMMA AddTimerStep ==
  ASSUME ClockInv, NEW c \in Clients, AddTimer(c)
  PROVE  ClockInv' /\ Now' = Now
<1>1. PICK x : x = [id |-> 1 + Max({0} \cup {y.id : y \in timers}),
                    at |-> ctime[c], creator |-> cproc[c]]
  BY Zenon
<1>2. /\ timers' = timers \cup {x} /\ Done(c)
      /\ UNCHANGED <<real, clockVars, loopVars>>
      /\ timers = {} \/ ctime[c] < First(timers) =>
           ScheduleTick(timers \cup {x}, ticks, delays, paused, Now)
      /\ ~(timers = {} \/ ctime[c] < First(timers)) => UNCHANGED <<ticks, delays>>
  BY <1>1, Zenon DEF AddTimer
<1>3. UNCHANGED <<paused, settling, current, initial, advanced, currents, fired, steady>>
  BY <1>2, Zenon DEF clockVars, loopVars
<1>4. Now' = Now
  BY <1>2, <1>3, Zenon DEF Now
<1>5. x \in Timer /\ x.at = ctime[c] /\ \E n \in Nat : \A y \in timers' : y.id <= n
  <2>1. timers \in SUBSET Timer
    BY Zenon DEF ClockInv, TimersOK
  <2>2. \A y \in timers : y.id \in Nat
    BY <2>1, Zenon DEF Timer
  <2>3. PICK n \in Nat : \A y \in timers : y.id <= n
    BY Zenon DEF ClockInv, TimersOK
  <2>4. PICK ids : ids = {0} \cup {y.id : y \in timers}
    BY Zenon
  <2>5. ids \in SUBSET Nat /\ ids # {} /\ \A i \in ids : i <= n
    BY <2>2, <2>3, <2>4
  <2>6. PICK m \in Nat : m = Max(ids) /\ \A i \in ids : i <= m
    BY <2>5, MaxFacts, Zenon
  <2>7. ctime[c] \in 0..LastTimeout /\ cproc[c] \in Process \cup {None}
    BY ClientFacts, Zenon DEF ClockInv
  <2>8. x = [id |-> 1 + m, at |-> ctime[c], creator |-> cproc[c]] /\ 1 + m \in Nat
    BY <1>1, <2>4, <2>6
  <2>9. \A y \in timers : y.id <= 1 + m
    BY <2>2, <2>4, <2>6
  <2>10. 1 + m <= 1 + m
    OBVIOUS
  <2>11. x.id = 1 + m /\ x.at = ctime[c] /\ x \in Timer
    BY <2>7, <2>8, Zenon DEF Timer
  <2> QED BY <1>2, <2>8, <2>9, <2>10, <2>11, Zenon
<1>6. TimesOK'
  BY <1>2, <1>3, Zenon DEF ClockInv, TimesOK
<1>7. TimersOK'
  <2>1. IsFiniteSet(timers')
    BY <1>2, FS_AddElement, Zenon DEF ClockInv, TimersOK
  <2> QED BY <1>2, <1>3, <1>5, <2>1, Zenon DEF ClockInv, TimersOK
<1>8. ClientsOK'
  BY <1>2, DoneStep, Zenon DEF ClockInv
<1>9. LoopOK'
  BY <1>2, <1>3, LoopFrame, Zenon
<1>10. NotEarly'
  BY <1>3, <1>4, Zenon DEF ClockInv, NotEarly
<1>11. CASE timers = {} \/ ctime[c] < First(timers)
  <2>1. PICK tks \in SUBSET ticks, rest \in SUBSET delays : tks = ticks /\ rest = delays
    BY Zenon
  <2>2. ScheduleTick(timers', tks, rest, paused', Now') /\ (paused' => current' = Now')
    <3>1. paused' => current' = Now'
      BY Zenon DEF Now
    <3> QED BY <1>2, <1>3, <1>4, <1>11, <2>1, <3>1, Zenon
  <2>3. \A tick \in tks : \E d \in rest : d.tick = tick /\ Due(d, tick)'
    BY <1>2, <1>3, <1>4, <2>1, Zenon DEF ClockInv, TicksHaveDelays, Due
  <2> QED BY <1>2, <1>4, <1>6, <1>7, <1>8, <1>9, <1>10, <2>2, <2>3, ScheduleFrame, Zenon
<1>12. CASE ~(timers = {} \/ ctime[c] < First(timers))
  <2>1. UNCHANGED <<ticks, delays>> /\ timers # {}
    BY <1>2, <1>12, Zenon
  <2>2. First(timers') = First(timers)
    <3>1. timers \in SUBSET Timer /\ timers' \in SUBSET Timer /\ timers' # {}
      BY <1>2, <1>5, <2>1, Zenon DEF ClockInv, TimersOK
    <3>2. /\ First(timers) \in Nat /\ \E y \in timers : y.at = First(timers)
          /\ \A y \in timers : First(timers) <= y.at
      BY <2>1, <3>1, FirstFacts, DurationFacts
    <3>3. /\ First(timers') \in Nat /\ \E y \in timers' : y.at = First(timers')
          /\ \A y \in timers' : First(timers') <= y.at
      BY <3>1, FirstFacts, DurationFacts
    <3>4. First(timers') <= First(timers)
      BY <1>2, <3>2, <3>3, Zenon
    <3>5. First(timers) <= First(timers')
      <4>1. ctime[c] \in Nat
        BY ClientFacts, DurationFacts DEF ClockInv
      <4>2. First(timers) <= x.at
        BY <1>5, <1>12, <3>2, <4>1
      <4> QED BY <1>2, <3>2, <3>3, <4>2, Zenon
    <3> QED BY <3>2, <3>3, <3>4, <3>5
  <2>3. DelaysOK' /\ TicksHaveDelays'
    BY <1>2, <1>3, <1>4, <2>1, Zenon DEF ClockInv, DelaysOK, TicksHaveDelays, Due
  <2>4. FirstCovered'
    <3>1. PICK a, b : a = First(timers) /\ b = First(timers')
      BY Zenon
    <3>2. a = b
      BY <2>2, <3>1, Zenon
    <3>3. ~(paused /\ a > current) => \E d \in delays : Due(d, a)
      BY <2>1, <3>1, Zenon DEF ClockInv, FirstCovered
    <3>4. First(timers)' = b
      BY <3>1, Zenon DEF First
    <3> QED BY <1>2, <1>3, <1>4, <2>1, <3>2, <3>3, <3>4, Zenon DEF FirstCovered, Due
  <2> QED BY <1>4, <1>6, <1>7, <1>8, <1>9, <1>10, <2>3, <2>4, Zenon DEF ClockInv
<1> QED BY <1>11, <1>12, Zenon

-----------------------------------------------------------------------------
(* The clock.                                                              *)

\* The clock starts running, with no timer.
LEMMA ClockInit ==
  ASSUME Init
  PROVE  ClockInv
<1>1. 0 \in 0..MaxReal /\ 0 \in 0..MaxAdvance /\ 0 \in 0..(0 + 0) /\ 0 \in 0..LastTimeout
  BY DurationFacts, ConstantsAssumption
<1>2. TimesOK
  BY <1>1, Zenon DEF Init, TimesOK
<1>3. TimersOK
  <2>1. <<>> \in Seq(Timer) /\ 0 \in Nat
    OBVIOUS
  <2> QED BY <2>1, FS_EmptySet, Zenon DEF Init, TimersOK
<1>4. DelaysOK /\ TicksHaveDelays /\ FirstCovered
  BY Zenon DEF Init, DelaysOK, TicksHaveDelays, FirstCovered
<1>5. ClientsOK
  BY <1>1, Zenon DEF Init, ClientsOK
<1>6. LoopOK /\ NotEarly
  BY DEF Init, LoopOK, NotEarly
<1> QED BY <1>2, <1>3, <1>4, <1>5, <1>6, Zenon DEF ClockInv

\* Every step of the event loop and of the clients keeps the invariant.
LEMMA ClockStep ==
  ASSUME ClockInv, Next
  PROVE  ClockInv'
<1>1. CASE LoopStep
  BY <1>1, TickStep, TickSteps, UpdateCreatorStep, Zenon DEF LoopStep
<1>2. CASE ClientStep
  BY <1>2, ReadSteps, ProcessTimeSteps, AddTimerStep, CancelStep, PauseStep, ResumeStep,
     AdvanceStep, Zenon DEF ClientStep
<1>3. CASE TimePasses
  BY <1>3, TimePassesStep, Zenon
<1> QED BY <1>1, <1>2, <1>3, Zenon DEF Next

\* A step that does not change the clock as a whole leaves the time as it is.
LEMMA NowKept ==
  ASSUME UNCHANGED <<real, paused, current, advanced>>
  PROVE  Now' = Now
BY Zenon DEF Now

\* The time goes forward, and so does that of a process unless it is forced.
Onward ==
  /\ Now' >= Now
  /\ \A p \in Process :
       currents[p] # None /\ currents'[p] # None /\ currents'[p] < currents[p]
         => ForceUpdate(p, initial)

\* Nothing goes back where the time and the times of the processes stay.
LEMMA OnwardKept ==
  ASSUME ClockInv, Now' \in Nat, Now <= Now',
         \A p \in Process : currents[p] # None /\ currents'[p] # None =>
           ~(currents'[p] < currents[p])
  PROVE  Onward
<1>1. Now \in Nat
  BY NowFacts, DurationFacts DEF ClockInv
<1>2. Now' >= Now
  BY <1>1
<1> QED BY <1>2, Zenon DEF Onward

\* A number is not less than itself.
LEMMA SameCurrents ==
  ASSUME ClockInv, NEW p \in Process, currents[p] # None
  PROVE  currents[p] \in Nat /\ ~(currents[p] < currents[p])
<1>1. currents[p] \in 0..Latest
  BY Zenon DEF ClockInv, TimesOK
<1> QED BY <1>1, DurationFacts

\* Every step of the clock goes forward.
LEMMA OnwardStep ==
  ASSUME ClockInv, Next
  PROVE  Onward
<1>1. Now \in Nat /\ Now' \in Nat /\ Now <= Now
  <2>1. TimesOK'
    BY ClockStep, Zenon DEF ClockInv
  <2>2. /\ real' \in 0..MaxReal /\ advanced' \in 0..MaxAdvance
        /\ current' \in 0..(real' + advanced')
        /\ Now' = IF paused' THEN current' ELSE real' + advanced'
    BY <2>1, Zenon DEF TimesOK, Now
  <2>3. Now' \in 0..Latest
    BY <2>2, LatestIsLast, Zenon
  <2> QED BY <2>3, NowFacts, DurationFacts DEF ClockInv
<1>2. ASSUME Now <= Now', UNCHANGED currents PROVE Onward
  BY <1>1, <1>2, SameCurrents, OnwardKept, Zenon
<1>3. CASE LoopStep
  <2>1. CASE \E d \in delays : Tick(d)
    BY <1>1, <1>2, <2>1, TickStep, Zenon DEF Tick
  <2>2. CASE TickCheck \/ RunTimer \/ TickDone
    <3>1. UNCHANGED <<real, paused, current, advanced, currents>>
      BY <2>2, Zenon DEF TickCheck, RunTimer, TickDone, clockVars
    <3> QED BY <1>1, <1>2, <3>1, NowKept, Zenon
  <2>3. CASE UpdateCreator
    <3>1. PICK x : x = fired[updated + 1]
      BY Zenon
    <3>2. x.creator \in Process \cup {None} /\ x.at \in 0..Latest
      BY <2>3, <3>1, FiredFacts, Zenon DEF ClockInv
    <3>3. currents' = Forward(x.creator, x.at) /\ UNCHANGED <<real, paused, current, advanced>>
      BY <2>3, <3>1, Zenon DEF UpdateCreator
    <3> QED BY <1>1, <3>2, <3>3, ForwardFacts, NowKept, OnwardKept, Zenon DEF ClockInv
  <2> QED BY <1>3, <2>1, <2>2, <2>3, Zenon DEF LoopStep
<1>4. CASE TimePasses
  BY <1>2, <1>4, TimePassesStep, Zenon DEF TimePasses, clockVars
<1>5. ASSUME NEW c \in Clients, NEW p \in Process \cup {None}, currents' = Touched(p),
             UNCHANGED <<real, paused, current, advanced>>
      PROVE  Onward
  BY <1>1, <1>5, TouchedFacts, SameCurrents, NowKept, OnwardKept, Zenon DEF ClockInv
<1>6. ASSUME NEW c \in Clients, AddTimer(c) \/ EndOrder(c) PROVE Onward
  <2>1. CASE AddTimer(c)
    BY <1>1, <1>2, <2>1, AddTimerStep, Zenon DEF AddTimer, clockVars
  <2>2. CASE EndOrder(c)
    <3>1. PICK p \in Process \cup {None}, time \in 0..Latest : p = cproc[c] /\ time = ctime[c]
      BY <2>2, ClientFacts, Zenon DEF ClockInv, EndOrder
    <3>2. currents' = Forward(p, time) /\ UNCHANGED <<real, paused, current, advanced>>
      BY <2>2, <3>1, Zenon DEF EndOrder
    <3> QED BY <1>1, <3>2, ForwardFacts, NowKept, OnwardKept, Zenon DEF ClockInv
  <2> QED BY <1>6, <2>1, <2>2, Zenon
<1>7. CASE (\E x \in timers : Cancel(x)) \/ Pause
  BY <1>1, <1>2, <1>7, CancelStep, PauseStep, Zenon DEF Cancel, Pause, clockVars
<1>8. CASE Resume
  <2>1. \A p \in Process : currents'[p] = None
    BY <1>8, Zenon DEF Resume
  <2> QED BY <1>1, <1>8, <2>1, ResumeStep, OnwardKept, Zenon
<1>9. ASSUME NEW duration \in Durations, Advance(duration) PROVE Onward
  BY <1>2, <1>9, AdvanceStep, Zenon DEF Advance
<1>10. ASSUME NEW p \in Process, NEW duration \in Durations, AdvanceProcess(p, duration)
       PROVE  Onward
  <2>1. paused /\ currents' = [currents EXCEPT ![p] = NowOf(p) + duration]
    BY <1>10, Zenon DEF AdvanceProcess
  <2>2. ASSUME NEW q \in Process, currents[q] # None, currents'[q] # None
        PROVE  ~(currents'[q] < currents[q])
    <3>1. currents \in [Process -> 0..Latest \cup {None}] /\ p # None
      BY ConstantsAssumption, Zenon DEF ClockInv, TimesOK
    <3>2. CASE q = p
      <4>1. NowOf(p) = currents[q] /\ currents'[q] = NowOf(p) + duration
        BY <2>1, <2>2, <3>1, <3>2, Zenon DEF NowOf
      <4>2. duration \in Nat
        BY DurationFacts, Zenon
      <4> QED BY <2>2, <4>1, <4>2, SameCurrents
    <3>3. CASE q # p
      <4>1. currents'[q] = currents[q]
        BY <2>1, <3>1, <3>3, Zenon
      <4> QED BY <2>2, <4>1, SameCurrents, Zenon
    <3> QED BY <3>2, <3>3, Zenon
  <2>3. Now' = Now
    BY <1>10, NowKept, Zenon DEF AdvanceProcess
  <2> QED BY <1>1, <2>2, <2>3, OnwardKept, Zenon
<1>11. ASSUME NEW p \in Process, ForceUpdate(p, initial) PROVE Onward
  <2>1. ASSUME NEW q \in Process, currents[q] # None, currents'[q] < currents[q]
        PROVE  ForceUpdate(q, initial)
    <3>1. CASE q = p
      BY <1>11, <3>1, Zenon
    <3>2. CASE q # p
      <4>1. currents'[q] = currents[q]
        BY <1>11, <3>2, Zenon DEF ForceUpdate, ClockInv, TimesOK
      <4> QED BY <2>1, <4>1, SameCurrents, Zenon
    <3> QED BY <3>1, <3>2, Zenon
  <2>2. Now' = Now
    BY <1>11, NowKept, Zenon DEF ForceUpdate
  <2>3. Now' >= Now
    BY <1>1, <2>2
  <2> QED BY <2>1, <2>3, Zenon DEF Onward
<1>12. CASE ClientStep
  <2>1. ASSUME NEW c \in Clients, NEW p \in Process \cup {None}, NEW duration \in Durations,
               StartTimer(c, p, duration)
        PROVE  Onward
    BY <1>5, <2>1, Zenon DEF StartTimer
  <2>2. ASSUME NEW c \in Clients, NEW from \in Process, NEW to \in Process,
               StartOrder(c, from, to)
        PROVE  Onward
    BY <1>5, <2>2, Zenon DEF StartOrder
  <2> QED BY <1>6, <1>7, <1>8, <1>9, <1>10, <1>11, <1>12, <2>1, <2>2, Zenon DEF ClientStep
<1> QED BY <1>3, <1>4, <1>12, Zenon DEF Next

-----------------------------------------------------------------------------
(* settle.                                                                 *)

\* `running' follows a thread that goes from one place to another.
LEMMA CountedStep ==
  ASSUME SettleTypes, RunningOK, NEW w \in Threads, NEW to \in Pcs,
         pc' = [pc EXCEPT ![w] = to],
         \/ (to \in Counted <=> pc[w] \in Counted) /\ running' = running
         \/ to \in Counted /\ pc[w] \notin Counted /\ running' = running + 1
         \/ to \notin Counted /\ pc[w] \in Counted /\ running' = running - 1
  PROVE  RunningOK' /\ pc' \in [Threads -> Pcs]
<1> DEFINE C == {v \in Threads : pc[v] \in Counted}
           D == {v \in Threads : pc'[v] \in Counted}
<1>1. pc \in [Threads -> Pcs] /\ pc' \in [Threads -> Pcs]
  BY Zenon DEF SettleTypes
<1>2. pc'[w] = to /\ \A v \in Threads \ {w} : pc'[v] = pc[v]
  BY <1>1, Zenon
<1>3. IsFiniteSet(C)
  <2>1. IsFiniteSet(Threads)
    BY ThreadsAssumption, FS_Union, Zenon DEF Threads
  <2> QED BY <2>1, FS_Subset, Zenon
<1>4. Cardinality(C) \in Nat /\ running = Cardinality(C)
  BY <1>3, FS_CardinalityType, Zenon DEF RunningOK
<1>5. running' = Cardinality(D)
  <2>1. CASE (to \in Counted <=> pc[w] \in Counted) /\ running' = running
    <3>1. \A v \in Threads : pc'[v] \in Counted <=> pc[v] \in Counted
      BY <1>2, <2>1, Zenon
    <3>2. D = C
      BY <3>1, Zenon
    <3> QED BY <1>4, <2>1, <3>2, Zenon
  <2>2. CASE to \in Counted /\ pc[w] \notin Counted /\ running' = running + 1
    <3>1. D = C \cup {w} /\ w \notin C
      BY <1>2, <2>2
    <3> HIDE DEF C, D
    <3>2. Cardinality(D) = Cardinality(C) + 1
      BY <1>3, <3>1, FS_AddElement, Zenon
    <3> QED BY <1>4, <2>2, <3>2, Zenon
  <2>3. CASE to \notin Counted /\ pc[w] \in Counted /\ running' = running - 1
    <3>1. D = C \ {w} /\ w \in C
      BY <1>2, <2>3
    <3> HIDE DEF C, D
    <3>2. Cardinality(D) = Cardinality(C) - 1
      BY <1>3, <3>1, FS_RemoveElement, Zenon
    <3> QED BY <1>4, <2>3, <3>2, Zenon
  <2> QED BY <2>1, <2>2, <2>3, Zenon
<1> QED BY <1>1, <1>5, Zenon DEF RunningOK

\* No thread runs a process when `running' is zero.
LEMMA NoneRuns ==
  ASSUME SettleTypes, RunningOK, running <= 0
  PROVE  \A w \in Threads : pc[w] \notin Counted
<1> DEFINE C == {v \in Threads : pc[v] \in Counted}
<1>1. IsFiniteSet(C)
  <2>1. IsFiniteSet(Threads)
    BY ThreadsAssumption, FS_Union, Zenon DEF Threads
  <2> QED BY <2>1, FS_Subset, Zenon
<1>2. Cardinality(C) \in Nat /\ running = Cardinality(C)
  BY <1>1, FS_CardinalityType, Zenon DEF RunningOK
<1>3. Cardinality(C) = 0
  BY <1>2
<1>4. C = {}
  BY <1>1, <1>3, FS_EmptySet, Zenon
<1> QED BY <1>4, Zenon

\* A thread moves, and enqueues no process but by a push it has yet to count.
LEMMA ThreadMoves ==
  ASSUME SettleInv, NEW w \in Threads, NEW to \in Pcs, pc' = [pc EXCEPT ![w] = to],
         UNCHANGED <<epoch, looping, spc, old, expired>>,
         pc[w] # "count", to \in Active => pc[w] \in Active \/ runq # 0,
         (runq = 0 => runq' = 0) \/ (to = "count" /\ pc[w] \in Active)
  PROVE  QuietAgain' /\ QuietClock' /\ QuietSame' /\ S!SettledMeansIdle'
<1>1. pc'[w] = to /\ \A v \in Threads \ {w} : pc'[v] = pc[v]
  BY Zenon DEF SettleInv, SettleTypes
<1>2. QuietAgain'
  BY <1>1, Zenon DEF SettleInv, QuietAgain, Active
<1>3. QuietClock'
  BY <1>1, Zenon DEF SettleInv, QuietClock, NoneActive
<1>4. S!Idle => S!Idle'
  BY <1>1, Zenon DEF S!Idle, Threads, Active
<1> QED BY <1>2, <1>3, <1>4, Zenon DEF SettleInv, QuietSame, S!SettledMeansIdle

\* The epoch a thread in settle remembers is old once a process is counted.
LEMMA EpochPasses ==
  ASSUME SettleInv, epoch' = epoch + 1, UNCHANGED <<spc, old>>, S!Idle => S!Idle'
  PROVE  /\ epoch' \in Nat /\ old' <= epoch'
         /\ QuietAgain' /\ QuietClock' /\ QuietSame' /\ S!SettledMeansIdle'
<1>1. epoch' \in Nat /\ old' <= epoch' /\ old' # epoch'
  BY DEF SettleInv, SettleTypes
<1> QED BY <1>1, Zenon DEF SettleInv, QuietAgain, QuietClock, QuietSame, S!SettledMeansIdle

\* The types of what the threads and the event loop count.
RestOK ==
  /\ runq \in Nat /\ semaphore \in Nat /\ expired \in Nat /\ firing \in Nat /\ work \in Nat

\* A step of a thread, from one place to another.
LEMMA ThreadGoes ==
  ASSUME SettleInv, NEW w \in Threads, NEW to \in Pcs, pc' = [pc EXCEPT ![w] = to],
         UNCHANGED <<epoch, settles, firing, looping, spc, old, expired>>, RestOK',
         pc[w] # "count", to \in Active => pc[w] \in Active \/ runq # 0,
         (runq = 0 => runq' = 0) \/ (to = "count" /\ pc[w] \in Active),
         \/ (to \in Counted <=> pc[w] \in Counted) /\ running' = running
         \/ to \in Counted /\ pc[w] \notin Counted /\ running' = running + 1
         \/ to \notin Counted /\ pc[w] \in Counted /\ running' = running - 1
  PROVE  SettleInv'
<1>1. RunningOK' /\ pc' \in [Threads -> Pcs]
  BY CountedStep, Zenon DEF SettleInv
<1>2. SettleTypes'
  BY <1>1, Zenon DEF SettleInv, SettleTypes, RestOK
<1>3. QuietAgain' /\ QuietClock' /\ QuietSame' /\ S!SettledMeansIdle'
  BY ThreadMoves, Zenon
<1>4. TickUnderWay' /\ (old <= epoch)'
  BY Zenon DEF SettleInv, TickUnderWay
<1> QED BY <1>1, <1>2, <1>3, <1>4, Zenon DEF SettleInv

\* Counting up and down.
LEMMA UpAndDown ==
  ASSUME NEW n \in Nat
  PROVE  n + 1 \in Nat /\ (n > 0 <=> n # 0) /\ (n > 0 => n - 1 \in Nat)
OBVIOUS

\* The steps of the threads that neither enqueue a process nor set a timer.
LEMMA ThreadSteps ==
  ASSUME SettleInv, NEW w \in Threads
  PROVE  /\ S!Start(w) \/ S!NextProcess(w) \/ S!Wait(w) \/ S!Woken(w) => SettleInv'
         /\ S!Donate(w) \/ S!Donated(w) \/ S!Finish(w) \/ S!Send(w) => SettleInv'
         /\ S!Dequeue(w) \/ S!Extract(w) => SettleInv'
<1> USE DEF S!Goto, S!queueVars, S!clockVars, S!settleVars
<1>1. RestOK
  BY Zenon DEF SettleInv, SettleTypes, RestOK
<1>2. ASSUME S!Start(w) PROVE SettleInv'
  BY <1>1, <1>2, ThreadGoes, Zenon DEF S!Start, Counted, Active, Pcs, RestOK
<1>3. ASSUME S!NextProcess(w) PROVE SettleInv'
  BY <1>1, <1>3, ThreadGoes, Zenon DEF S!NextProcess, Counted, Active, Pcs, RestOK
<1>4. ASSUME S!Wait(w) PROVE SettleInv'
  <2>1. semaphore' \in Nat
    BY <1>1, <1>4, UpAndDown, Zenon DEF S!Wait, RestOK
  <2> QED BY <1>1, <1>4, <2>1, ThreadGoes, Zenon DEF S!Wait, Counted, Active, Pcs, RestOK
<1>5. ASSUME S!Woken(w) PROVE SettleInv'
  BY <1>1, <1>5, ThreadGoes, Zenon DEF S!Woken, Counted, Active, Pcs, RestOK
<1>6. ASSUME S!Donate(w) PROVE SettleInv'
  BY <1>1, <1>6, ThreadGoes, Zenon DEF S!Donate, Counted, Active, Pcs, RestOK
<1>7. ASSUME S!Donated(w) PROVE SettleInv'
  BY <1>1, <1>7, ThreadGoes, Zenon DEF S!Donated, Counted, Active, Pcs, RestOK
<1>8. ASSUME S!Finish(w) PROVE SettleInv'
  <2>1. CASE w \in Workers
    BY <1>1, <1>8, <2>1, ThreadGoes, Zenon DEF S!Finish, Counted, Active, Pcs, RestOK
  <2>2. CASE w \notin Workers
    BY <1>1, <1>8, <2>2, ThreadGoes, Zenon DEF S!Finish, Counted, Active, Pcs, RestOK
  <2> QED BY <2>1, <2>2, Zenon
<1>9. ASSUME S!Send(w) PROVE SettleInv'
  <2>1. work' \in Nat
    BY <1>1, <1>9, UpAndDown, Zenon DEF S!Send, RestOK
  <2> QED BY <1>1, <1>9, <2>1, ThreadGoes, Zenon DEF S!Send, Counted, Active, Pcs, RestOK
<1>10. ASSUME S!Dequeue(w) PROVE SettleInv'
  <2>1. CASE runq > 0
    <3>1. runq' \in Nat /\ runq # 0
      BY <1>1, <1>10, <2>1, UpAndDown, Zenon DEF S!Dequeue, RestOK
    <3> QED BY <1>1, <1>10, <2>1, <3>1, ThreadGoes, Zenon
            DEF S!Dequeue, Counted, Active, Pcs, RestOK
  <2>2. CASE ~(runq > 0)
    <3>1. runq = 0 /\ runq' = 0
      BY <1>1, <1>10, <2>2, UpAndDown, Zenon DEF S!Dequeue, RestOK
    <3> QED BY <1>1, <1>10, <2>2, <3>1, ThreadGoes, Zenon
            DEF S!Dequeue, Counted, Active, Pcs, RestOK
  <2> QED BY <2>1, <2>2, Zenon
<1>11. ASSUME S!Extract(w) PROVE SettleInv'
  <2>1. CASE runq > 0
    <3>1. runq' \in Nat /\ runq # 0
      BY <1>1, <1>11, <2>1, UpAndDown, Zenon DEF S!Extract, RestOK
    <3> QED BY <1>1, <1>11, <2>1, <3>1, ThreadGoes, Zenon
            DEF S!Extract, Counted, Active, Pcs, RestOK
  <2>2. CASE ~(runq > 0)
    <3>1. runq = 0 /\ runq' = 0
      BY <1>1, <1>11, <2>2, UpAndDown, Zenon DEF S!Extract, RestOK
    <3> QED BY <1>1, <1>11, <2>2, <3>1, ThreadGoes, Zenon
            DEF S!Extract, Counted, Active, Pcs, RestOK
  <2> QED BY <2>1, <2>2, Zenon
<1> QED BY <1>2, <1>3, <1>4, <1>5, <1>6, <1>7, <1>8, <1>9, <1>10, <1>11, Zenon

\* RunQueue::enqueue by a thread, and a timer it sets.
LEMMA ThreadEnqueues ==
  ASSUME SettleInv, NEW w \in Threads
  PROVE  S!Enqueue(w) \/ S!SetTimer(w) => SettleInv'
<1> USE DEF S!Goto, S!queueVars, S!clockVars, S!settleVars
<1>1. RestOK
  BY Zenon DEF SettleInv, SettleTypes, RestOK
<1>2. ASSUME S!Enqueue(w), pc[w] = "push" PROVE SettleInv'
  <2>1. /\ runq' = runq + 1 /\ pc' = [pc EXCEPT ![w] = "count"]
        /\ UNCHANGED <<epoch, semaphore, running, expired, settles, firing, looping, spc, old,
                       work>>
    BY <1>2, Zenon DEF S!Enqueue, S!EnqueueStep, S!EnqueueNext, S!Push
  <2>2. runq' \in Nat
    BY <1>1, <2>1, UpAndDown, Zenon DEF RestOK
  <2> QED BY <1>1, <1>2, <2>1, <2>2, ThreadGoes, Zenon DEF Counted, Active, Pcs, RestOK
<1>3. ASSUME S!Enqueue(w), pc[w] = "signal" PROVE SettleInv'
  <2>1. /\ semaphore' = semaphore + 1 /\ pc' = [pc EXCEPT ![w] = "busy"]
        /\ UNCHANGED <<runq, epoch, running, expired, settles, firing, looping, spc, old, work>>
    BY <1>3, Zenon DEF S!Enqueue, S!EnqueueStep, S!Signal
  <2>2. semaphore' \in Nat
    BY <1>1, <2>1, UpAndDown, Zenon DEF RestOK
  <2> QED BY <1>1, <1>3, <2>1, <2>2, ThreadGoes, Zenon DEF Counted, Active, Pcs, RestOK
<1>4. ASSUME S!Enqueue(w), pc[w] = "count" PROVE SettleInv'
  <2>1. /\ epoch' = epoch + 1 /\ pc' = [pc EXCEPT ![w] = "signal"]
        /\ UNCHANGED <<runq, semaphore, running, expired, settles, firing, looping, spc, old,
                       work>>
    BY <1>4, Zenon DEF S!Enqueue, S!EnqueueStep, S!EnqueueNext, S!Count
  <2>2. ~S!Idle
    BY <1>4, Zenon DEF S!Idle, Threads
  <2>3. RunningOK' /\ pc' \in [Threads -> Pcs]
    BY <1>4, <2>1, CountedStep, Zenon DEF SettleInv, Counted, Active, Pcs
  <2>4. /\ epoch' \in Nat /\ old' <= epoch'
        /\ QuietAgain' /\ QuietClock' /\ QuietSame' /\ S!SettledMeansIdle'
    BY <2>1, <2>2, EpochPasses, Zenon
  <2>5. SettleTypes'
    BY <2>1, <2>3, <2>4, Zenon DEF SettleInv, SettleTypes
  <2> QED BY <2>1, <2>3, <2>4, <2>5, Zenon DEF SettleInv, TickUnderWay
<1>5. ASSUME S!SetTimer(w) PROVE SettleInv'
  <2>1. /\ work' = work + 1 /\ expired' = expired + 1
        /\ UNCHANGED <<runq, epoch, semaphore, running, settles, firing, looping, pc, spc, old>>
    BY <1>5, Zenon DEF S!SetTimer
  <2>2. work' \in Nat /\ expired' \in Nat
    BY <1>1, <2>1, UpAndDown, Zenon DEF RestOK
  <2>3. ~S!Idle
    BY <1>5, Zenon DEF S!Idle, S!SetTimer, Threads
  <2>4. SettleTypes' /\ RunningOK'
    BY <2>1, <2>2, Zenon DEF SettleInv, SettleTypes, RunningOK
  <2>5. QuietAgain' /\ QuietClock' /\ QuietSame' /\ S!SettledMeansIdle'
    BY <2>1, <2>3, Zenon DEF SettleInv, QuietAgain, QuietClock, NoneActive, QuietSame,
                             S!SettledMeansIdle
  <2> QED BY <2>1, <2>4, <2>5, Zenon DEF SettleInv, TickUnderWay
<1> QED BY <1>2, <1>3, <1>4, <1>5, Zenon DEF S!Enqueue

\* A step of the event loop that does not change the epoch.
LEMMA LoopGoes ==
  ASSUME SettleInv, looping # "count", S!Idle => S!Idle',
         UNCHANGED <<epoch, running, pc, spc, old>>, RestOK',
         looping' \in {"idle", "fire", "push", "count", "signal"}, settles' \in BOOLEAN,
         TickUnderWay', runq' = runq \/ looping' = "count"
  PROVE  SettleInv'
<1>1. SettleTypes' /\ RunningOK'
  BY Zenon DEF SettleInv, SettleTypes, RunningOK, RestOK
<1>2. QuietAgain'
  BY Zenon DEF SettleInv, QuietAgain
<1>3. QuietClock'
  BY Zenon DEF SettleInv, QuietClock, NoneActive
<1>4. QuietSame' /\ S!SettledMeansIdle' /\ (old <= epoch)'
  BY Zenon DEF SettleInv, QuietSame, S!SettledMeansIdle
<1> QED BY <1>1, <1>2, <1>3, <1>4, Zenon DEF SettleInv

\* The tick of the clock, and the processes that its timers enqueue.
LEMMA EventLoopStep ==
  ASSUME SettleInv, S!EventLoop
  PROVE  SettleInv'
<1> USE DEF S!queueVars, S!clockVars, S!settleVars
<1>1. RestOK
  BY Zenon DEF SettleInv, SettleTypes, RestOK
<1>2. CASE S!TakeExpired
  <2>1. ~S!Idle
    BY <1>1, <1>2, UpAndDown, Zenon DEF S!Idle, S!TakeExpired, RestOK
  <2>2. 0 \in Nat
    OBVIOUS
  <2> QED BY <1>1, <1>2, <2>1, <2>2, LoopGoes, Zenon DEF S!TakeExpired, RestOK, TickUnderWay
<1>3. CASE S!Fire
  <2>1. ~S!Idle /\ settles
    BY <1>3, Zenon DEF S!Idle, S!Fire, SettleInv, TickUnderWay
  <2> QED BY <1>1, <1>3, <2>1, LoopGoes, Zenon DEF S!Fire, RestOK, TickUnderWay
<1>4. CASE S!TickDone
  <2>1. ~S!Idle /\ settles' \in BOOLEAN
    BY <1>4, Zenon DEF S!Idle, S!TickDone, SettleInv, SettleTypes
  <2> QED BY <1>1, <1>4, <2>1, LoopGoes, Zenon DEF S!TickDone, RestOK, TickUnderWay
<1>5. CASE S!FireEnqueue
  <2>1. ~S!Idle /\ settles /\ settles' = settles /\ firing > 0
    BY <1>5, Zenon DEF S!Idle, S!FireEnqueue, SettleInv, TickUnderWay
  <2>2. CASE looping = "push"
    <3>1. /\ runq' = runq + 1 /\ looping' = "count"
          /\ UNCHANGED <<epoch, semaphore, running, expired, firing, pc, spc, old, work>>
      BY <1>5, <2>2, Zenon DEF S!FireEnqueue, S!EnqueueStep, S!EnqueueNext, S!Push
    <3>2. RestOK'
      BY <1>1, <3>1, UpAndDown, Zenon DEF RestOK
    <3> QED BY <2>1, <2>2, <3>1, <3>2, LoopGoes, Zenon DEF TickUnderWay
  <2>3. CASE looping = "signal"
    <3>1. /\ semaphore' = semaphore + 1 /\ looping' = "fire" /\ firing' = firing - 1
          /\ UNCHANGED <<runq, epoch, running, expired, pc, spc, old, work>>
      BY <1>5, <2>3, Zenon DEF S!FireEnqueue, S!EnqueueStep, S!Signal
    <3>2. RestOK'
      BY <1>1, <2>1, <3>1, UpAndDown, Zenon DEF RestOK
    <3> QED BY <2>1, <2>3, <3>1, <3>2, LoopGoes, Zenon DEF TickUnderWay
  <2>4. CASE looping = "count"
    <3>1. /\ epoch' = epoch + 1 /\ looping' = "signal"
          /\ UNCHANGED <<runq, semaphore, running, expired, firing, pc, spc, old, work>>
      BY <1>5, <2>4, Zenon DEF S!FireEnqueue, S!EnqueueStep, S!EnqueueNext, S!Count
    <3>2. /\ epoch' \in Nat /\ old' <= epoch'
          /\ QuietAgain' /\ QuietClock' /\ QuietSame' /\ S!SettledMeansIdle'
      BY <2>1, <3>1, EpochPasses, Zenon
    <3>3. SettleTypes' /\ RunningOK'
      BY <2>1, <3>1, <3>2, Zenon DEF SettleInv, SettleTypes, RunningOK
    <3> QED BY <2>1, <3>1, <3>2, <3>3, Zenon DEF SettleInv, TickUnderWay
  <2> QED BY <1>5, <2>2, <2>3, <2>4, Zenon DEF S!FireEnqueue
<1> QED BY <1>2, <1>3, <1>4, <1>5, Zenon DEF S!EventLoop

\* The thread in settle.
LEMMA SettlingStep ==
  ASSUME SettleInv, S!Settling
  PROVE  SettleInv'
<1> USE DEF S!queueVars, S!clockVars
<1>1. UNCHANGED <<runq, epoch, semaphore, running, expired, settles, firing, looping, pc, work>>
  BY Zenon DEF S!Settling, S!ReadEpoch, S!NoneRunning, S!QueueEmpty, S!StillNoneRunning,
               S!ClockSettled, S!SameEpoch, S!Look
<1>2. RunningOK' /\ TickUnderWay' /\ (S!Idle => S!Idle')
  BY <1>1, Zenon DEF SettleInv, RunningOK, TickUnderWay, S!Idle
<1>3. ASSUME SettleTypes', (old <= epoch)',
             spc' \in {"epoch", "running", "empty"}
      PROVE  SettleInv'
  BY <1>2, <1>3, Zenon DEF SettleInv, QuietAgain, QuietClock, QuietSame, S!SettledMeansIdle
<1>4. ASSUME old' = old,
             spc' \in {"epoch", "running", "empty", "again", "clock", "same", "settled"}
      PROVE  SettleTypes' /\ (old <= epoch)'
  BY <1>1, <1>4, Zenon DEF SettleInv, SettleTypes
<1>5. CASE S!ReadEpoch
  <2>1. old' = epoch /\ spc' = "running"
    BY <1>5, Zenon DEF S!ReadEpoch
  <2>2. epoch \in Nat /\ epoch <= epoch
    BY DEF SettleInv, SettleTypes
  <2>3. SettleTypes' /\ (old <= epoch)'
    BY <1>1, <2>1, <2>2, Zenon DEF SettleInv, SettleTypes
  <2> QED BY <1>3, <2>1, <2>3, Zenon
<1>6. CASE S!NoneRunning
  <2>1. old' = old /\ spc' \in {"epoch", "empty"}
    BY <1>6, Zenon DEF S!NoneRunning, S!Look
  <2> QED BY <1>3, <1>4, <2>1, Zenon
<1>7. CASE S!QueueEmpty
  <2>1. CASE runq = 0
    <3>1. old' = old /\ spc' = "again"
      BY <1>7, <2>1, Zenon DEF S!QueueEmpty, S!Look
    <3>2. QuietAgain' /\ QuietClock' /\ QuietSame' /\ S!SettledMeansIdle'
      BY <1>1, <2>1, <3>1, Zenon DEF QuietAgain, QuietClock, QuietSame, S!SettledMeansIdle
    <3> QED BY <1>2, <1>4, <3>1, <3>2, Zenon DEF SettleInv
  <2>2. CASE runq # 0
    <3>1. spc' = "epoch" /\ old' = old
      BY <1>7, <2>2, Zenon DEF S!QueueEmpty, S!Look
    <3> QED BY <1>3, <1>4, <3>1, Zenon
  <2> QED BY <2>1, <2>2, Zenon
<1>8. CASE S!StillNoneRunning
  <2>1. CASE running <= 0
    <3>1. spc = "again" /\ old' = old /\ spc' = "clock"
      BY <1>8, <2>1, Zenon DEF S!StillNoneRunning, S!Look
    <3>2. \A w \in Threads : pc[w] \notin Counted
      BY <2>1, NoneRuns, Zenon DEF SettleInv
    <3>3. QuietClock'
      BY <1>1, <3>1, <3>2, Zenon DEF SettleInv, QuietAgain, QuietClock, NoneActive, Counted,
                                     Active
    <3>4. QuietAgain' /\ QuietSame' /\ S!SettledMeansIdle'
      BY <3>1, Zenon DEF QuietAgain, QuietSame, S!SettledMeansIdle
    <3> QED BY <1>2, <1>4, <3>1, <3>3, <3>4, Zenon DEF SettleInv
  <2>2. CASE ~(running <= 0)
    <3>1. spc' = "epoch" /\ old' = old
      BY <1>8, <2>2, Zenon DEF S!StillNoneRunning, S!Look
    <3> QED BY <1>3, <1>4, <3>1, Zenon
  <2> QED BY <2>1, <2>2, Zenon
<1>9. CASE S!ClockSettled
  <2>1. CASE ~settles /\ expired = 0
    <3>1. spc = "clock" /\ old' = old /\ spc' = "same"
      BY <1>9, <2>1, Zenon DEF S!ClockSettled, S!Look
    <3>2. looping = "idle"
      BY <2>1, Zenon DEF SettleInv, TickUnderWay
    <3>3. old = epoch => S!Idle
      BY <2>1, <3>1, <3>2, Zenon DEF SettleInv, QuietClock, NoneActive, S!Idle, Active, Threads
    <3>4. QuietSame'
      BY <1>1, <1>2, <3>1, <3>3, Zenon DEF QuietSame
    <3>5. QuietAgain' /\ QuietClock' /\ S!SettledMeansIdle'
      BY <3>1, Zenon DEF QuietAgain, QuietClock, S!SettledMeansIdle
    <3> QED BY <1>2, <1>4, <3>1, <3>4, <3>5, Zenon DEF SettleInv
  <2>2. CASE ~(~settles /\ expired = 0)
    <3>1. spc' = "epoch" /\ old' = old
      BY <1>9, <2>2, Zenon DEF S!ClockSettled, S!Look
    <3> QED BY <1>3, <1>4, <3>1, Zenon
  <2> QED BY <2>1, <2>2, Zenon
<1>10. CASE S!SameEpoch
  <2>1. CASE old = epoch
    <3>1. spc = "same" /\ old' = old /\ spc' = "settled"
      BY <1>10, <2>1, Zenon DEF S!SameEpoch, S!Look
    <3>2. S!SettledMeansIdle'
      BY <1>2, <2>1, <3>1, Zenon DEF SettleInv, QuietSame, S!SettledMeansIdle
    <3>3. QuietAgain' /\ QuietClock' /\ QuietSame'
      BY <3>1, Zenon DEF QuietAgain, QuietClock, QuietSame
    <3> QED BY <1>2, <1>4, <3>1, <3>2, <3>3, Zenon DEF SettleInv
  <2>2. CASE old # epoch
    <3>1. spc' = "epoch" /\ old' = old
      BY <1>10, <2>2, Zenon DEF S!SameEpoch, S!Look
    <3> QED BY <1>3, <1>4, <3>1, Zenon
  <2> QED BY <2>1, <2>2, Zenon
<1> QED BY <1>5, <1>6, <1>7, <1>8, <1>9, <1>10, Zenon DEF S!Settling

\* No thread runs a process at first.
LEMMA SettleInit ==
  ASSUME S!Init
  PROVE  SettleInv
<1>1. /\ runq \in 0..1 /\ epoch = runq /\ semaphore = runq /\ running = 0
      /\ expired \in 0..1 /\ settles = FALSE /\ firing = 0 /\ looping = "idle"
      /\ pc = [w \in Threads |-> IF w \in Workers THEN "start" ELSE "outside"]
      /\ spc = "epoch" /\ old = 0 /\ work = 0
  BY Zenon DEF S!Init, Threads
<1>2. runq \in Nat /\ epoch \in Nat /\ semaphore \in Nat /\ expired \in Nat /\ 0 \in Nat
      /\ 0 <= epoch
  BY <1>1
<1>3. pc \in [Threads -> {"start", "outside"}]
  BY <1>1
<1>4. SettleTypes
  <2>1. pc \in [Threads -> Pcs]
    BY <1>3 DEF Pcs
  <2> QED BY <1>1, <1>2, <2>1, Zenon DEF SettleTypes
<1>5. RunningOK
  <2>1. {w \in Threads : pc[w] \in Counted} = {}
    <3>1. \A w \in Threads : pc[w] \in {"start", "outside"}
      BY <1>3, Zenon
    <3> QED BY <3>1, Zenon DEF Counted, Active
  <2> QED BY <1>1, <2>1, FS_EmptySet, Zenon DEF RunningOK
<1>6. TickUnderWay /\ QuietAgain /\ QuietClock /\ QuietSame /\ S!SettledMeansIdle
  BY <1>1, Zenon DEF TickUnderWay, QuietAgain, QuietClock, QuietSame, S!SettledMeansIdle
<1> QED BY <1>1, <1>2, <1>4, <1>5, <1>6, Zenon DEF SettleInv

\* Every step of the threads, of the event loop and of settle keeps the invariant.
LEMMA SettleStep ==
  ASSUME SettleInv, S!Next
  PROVE  SettleInv'
<1>1. ASSUME NEW w \in Threads, S!Worker(w) PROVE SettleInv'
  BY <1>1, ThreadSteps, ThreadEnqueues, Zenon DEF S!Worker
<1> QED BY <1>1, EventLoopStep, SettlingStep, Zenon DEF S!Next, Threads

-----------------------------------------------------------------------------
(* Theorems.                                                               *)

\* The two invariants together.
ManipulationInv == ClockInv /\ SettleInv

\* The invariants of the clock and of settle hold together: either of the two
\* moves, and the other stays.
LEMMA ManipulationInvariant == MCSpec => []ManipulationInv
<1>1. MCInit => ManipulationInv
  BY ClockInit, SettleInit, Zenon DEF MCInit, ManipulationInv
<1>2. ManipulationInv /\ [ClockNext \/ SettleNext]_<<focus, vars, settleAll>>
        => ManipulationInv'
  <2> SUFFICES ASSUME ManipulationInv, [ClockNext \/ SettleNext]_<<focus, vars, settleAll>>
               PROVE  ManipulationInv'
    OBVIOUS
  <2>1. ASSUME UNCHANGED vars PROVE ClockInv'
    <3>1. UNCHANGED <<real, paused, settling, current, initial, advanced, currents, timers,
                      ticks, delays, loop, fired, updated, steady, cpc, ctime, cproc>>
      BY <2>1, Zenon DEF vars, clockVars, timerVars, loopVars, clientVars
    <3>2. TimersOK' /\ DelaysOK' /\ TicksHaveDelays' /\ FirstCovered' /\ NotEarly'
      BY <3>1, TimeFrame, Zenon DEF ManipulationInv
    <3>3. TimesOK'
      BY <3>1, Zenon DEF ManipulationInv, ClockInv, TimesOK
    <3>4. ClientsOK' /\ LoopOK'
      BY <3>1, Zenon DEF ManipulationInv, ClockInv, ClientsOK, LoopOK
    <3> QED BY <3>2, <3>3, <3>4, Zenon DEF ClockInv
  <2>2. ASSUME UNCHANGED settleAll PROVE SettleInv'
    BY <2>2, Zenon DEF settleAll, ManipulationInv, SettleInv, SettleTypes, RunningOK,
                       TickUnderWay, QuietAgain, QuietClock, NoneActive, QuietSame,
                       S!SettledMeansIdle, S!Idle
  <2>3. CASE ClockNext
    BY <2>2, <2>3, ClockStep, Zenon DEF ClockNext, ManipulationInv
  <2>4. CASE SettleNext
    BY <2>1, <2>4, SettleStep, Zenon DEF SettleNext, ManipulationInv
  <2> QED BY <2>1, <2>2, <2>3, <2>4, Zenon DEF ManipulationInv
<1> QED BY <1>1, <1>2, PTL DEF MCSpec

\* What is at most one of two numbers is at most the larger.
LEMMA AtMostLater ==
  ASSUME NEW a \in Nat, NEW b \in Nat, NEW x \in Nat, x <= a \/ x <= b
  PROVE  x <= Max({a, b})
<1>1. Max({a, b}) = IF a >= b THEN a ELSE b
  BY MaxOfTwo, Zenon
<1> QED BY <1>1

\* The first timer's delay, as TickCovers has it.
LEMMA Covered ==
  ASSUME ClockInv
  PROVE  TickCovers
<1> SUFFICES ASSUME timers # {}, ~(paused /\ First(timers) > current)
             PROVE  \E d \in delays :
                      IF paused THEN d.due <= real
                      ELSE d.due + advanced <= Max({First(timers), Now})
  BY Zenon DEF TickCovers
<1>1. PICK d \in delays : Due(d, First(timers))
  BY Zenon DEF ClockInv, FirstCovered
<1>2. CASE paused
  BY <1>1, <1>2, Zenon DEF Due
<1>3. CASE ~paused
  <2>1. d.due \in 0..(MaxReal + LastTimeout) /\ advanced \in 0..MaxAdvance
    BY Zenon DEF ClockInv, DelaysOK, TimesOK
  <2>2. d.due + advanced \in Nat
    BY <2>1, DurationFacts, ConstantsAssumption
  <2>3. First(timers) \in Nat /\ Now \in Nat
    <3>1. First(timers) \in 0..LastTimeout
      BY FirstFacts, Zenon DEF ClockInv, TimersOK
    <3> QED BY <3>1, NowFacts, DurationFacts DEF ClockInv
  <2>4. d.due + advanced <= First(timers) \/ d.due + advanced <= Now
    BY <1>1, <1>3, Zenon DEF Due
  <2>5. d.due + advanced <= Max({First(timers), Now})
    BY <2>2, <2>3, <2>4, AtMostLater, Zenon
  <2> QED BY <1>3, <2>5, Zenon
<1> QED BY <1>2, <1>3, Zenon

\* The inductive invariant gives the types.
LEMMA ClockTypes ==
  ASSUME ClockInv
  PROVE  TypeOK
<1>1. /\ 0..(MaxReal + MaxAdvance) \subseteq Time /\ 0..LastTimeout \subseteq Time
      /\ 0..(MaxReal + LastTimeout) \subseteq Time /\ Latest = MaxReal + MaxAdvance
  BY DurationFacts, ConstantsAssumption DEF Time, Latest, LastTimeout
<1>2. current \in Time /\ initial \in Time
  <2>1. /\ real \in 0..MaxReal /\ advanced \in 0..MaxAdvance
        /\ current \in 0..(real + advanced) /\ initial \in 0..(real + advanced)
    BY Zenon DEF ClockInv, TimesOK
  <2>2. current \in 0..(MaxReal + MaxAdvance) /\ initial \in 0..(MaxReal + MaxAdvance)
    BY <2>1, ConstantsAssumption
  <2> QED BY <1>1, <2>2, Zenon
<1>3. currents \in [Process -> Time \cup {None}]
  <2>1. currents \in [Process -> 0..Latest \cup {None}]
    BY Zenon DEF ClockInv, TimesOK
  <2>2. 0..Latest \cup {None} \subseteq Time \cup {None}
    BY <1>1, Zenon
  <2> QED BY <2>1, <2>2, Zenon
<1>4. \A x \in timers : x.at \in Time /\ x.creator \in Process \cup {None}
  <2> TAKE x \in timers
  <2>1. x \in Timer
    BY Zenon DEF ClockInv, TimersOK
  <2> QED BY <1>1, <2>1, Zenon DEF Timer
<1>5. (\A d \in delays : d.due \in Time /\ d.tick \in Time) /\ ticks \subseteq Time
  BY <1>1, Zenon DEF ClockInv, DelaysOK
<1> QED BY <1>2, <1>3, <1>4, <1>5, Zenon DEF TypeOK, ClockInv, TimesOK, LoopOK, ClientsOK

(***************************************************************************)
(* No timer is forgotten, and none runs before its time: whatever pauses,  *)
(* advances, cancellations and late ticks do to Clock's `ticks', the event *)
(* loop has a delay that is due in time for the first timer, and a tick    *)
(* that has taken its timers outside the lock runs none of them early.     *)
(***************************************************************************)
THEOREM TimersAlwaysExact == MCSpec => []TimersExact
<1>1. ManipulationInv => TimersExact
  BY Covered, ClockTypes, Zenon DEF ManipulationInv, ClockInv, TimersExact
<1> QED BY <1>1, ManipulationInvariant, PTL

(***************************************************************************)
(* ProcessManager::settle returns only if no process runs or is queued and *)
(* every expired timer has been run, although it reads the epoch, the      *)
(* count of running threads, the queue and the clock one after the other;  *)
(* and Clock::settled is false during a tick under a paused clock.         *)
(***************************************************************************)
THEOREM SettledAlwaysMeansIdle == MCSpec => []SettledMeansIdle
<1>1. ManipulationInv => SettledMeansIdle
  BY Zenon DEF ManipulationInv, ClockInv, LoopOK, SettleInv, SettledMeansIdle,
               SettledAfterTick, Settled
<1> QED BY <1>1, ManipulationInvariant, PTL

(***************************************************************************)
(* Clock::now never goes back, in particular not at Clock::pause and       *)
(* Clock::resume, and the time of a process goes back only where the code  *)
(* forces it (Clock::update with FORCE).                                   *)
(***************************************************************************)
THEOREM TimeAlwaysForward == MCSpec => TimeForward
<1>1. /\ ManipulationInv
      /\ [ClockNext \/ SettleNext]_<<focus, vars, settleAll>>
      => [Onward]_vars
  BY OnwardStep, Zenon DEF ManipulationInv, ClockNext, SettleNext
<1>2. MCSpec => [][Onward]_vars
  BY <1>1, ManipulationInvariant, PTL DEF MCSpec
<1> QED BY <1>2, Zenon DEF TimeForward, Onward

=============================================================================

------------------------------ MODULE Semaphore -----------------------------
(***************************************************************************)
(* The semaphores of the run queue (src/semaphore.hpp), one step for each  *)
(* access to an atomic: DecomissionableLastInFirstOutFixedSizeSemaphore,   *)
(* and DecomissionableKernelSemaphore, the default.  In the first a        *)
(* waiter's slot holds its own kernel semaphore, so a slot is named by the *)
(* thread whose semaphore it holds; the second is one kernel semaphore,    *)
(* the counting semaphore of the operating system.                         *)
(***************************************************************************)
EXTENDS Naturals, FiniteSets

CONSTANTS
  Waiter, Signaler,   \* threads that wait(), and threads that signal()
  Free,               \* an empty slot
  Slots,              \* the size of the array (THREADS)
  MaxWaits, MaxSignals   \* bounds on the calls of wait(), and of signal() or
                         \* decomission()

VARIABLES
  type,        \* "LastInFirstOut" or "Kernel" (a constant of the behaviour)
  comissioned, count, waiters, semaphores,   \* the count of a Kernel one is that in the system
  kernel,      \* kernel[w]: the count of the kernel semaphore of thread w
  pc, old,     \* of the waiters: where they are and the count they have read
  at,          \* the slot a thread looks at
  spc, loaded, \* of the signalers: where they are and the slot's content read
  signals,     \* calls of signal() so far
  left,        \* the signals decomission() has still to do
  waits        \* calls of wait() so far

vars == <<type, comissioned, count, waiters, semaphores, kernel, pc, old, at, spc, loaded,
          signals, left, waits>>
waiting == <<type, pc, old, kernel, waits>>
signaling == <<type, spc, loaded, signals, left>>
Thread == Waiter \cup Signaler

Init ==
  /\ type \in {"LastInFirstOut", "Kernel"}
  /\ comissioned = TRUE /\ count = 0 /\ waiters = 0
  /\ semaphores = [i \in 1..Slots |-> Free]
  /\ kernel = [w \in Waiter |-> 0] /\ pc = [w \in Waiter |-> "idle"]
  /\ old = [w \in Waiter |-> 0] /\ at = [t \in Thread |-> 1]
  /\ spc = [s \in Signaler |-> "idle"] /\ loaded = [s \in Signaler |-> Free]
  /\ signals = 0 /\ left = [s \in Signaler |-> 0] /\ waits = 0

To(w, l) == pc' = [pc EXCEPT ![w] = l]
STo(s, l) == spc' = [spc EXCEPT ![s] = l]

-----------------------------------------------------------------------------
\* wait()
Wait(w) ==
  /\ type = "LastInFirstOut" /\ pc[w] = "idle"
  /\ waits < MaxWaits /\ waits' = waits + 1 /\ To(w, "load")
  /\ UNCHANGED <<comissioned, count, waiters, semaphores, old, kernel, at, signaling>>

LoadCount(w) ==
  /\ pc[w] = "load"
  /\ old' = [old EXCEPT ![w] = count] /\ To(w, IF count > 0 THEN "cas" ELSE "enter")
  /\ UNCHANGED <<comissioned, count, waiters, semaphores, kernel, at, waits, signaling>>

\* A failed exchange loads the count.
CasCount(w) ==
  /\ pc[w] = "cas"
  /\ IF count = old[w]
       THEN count' = count - 1 /\ To(w, "idle") /\ old' = [old EXCEPT ![w] = 0]
       ELSE /\ old' = [old EXCEPT ![w] = count] /\ UNCHANGED count
            /\ To(w, IF count > 0 THEN "cas" ELSE "enter")
  /\ UNCHANGED <<comissioned, waiters, semaphores, kernel, at, waits, signaling>>

Enter(w) ==
  /\ pc[w] = "enter" /\ waiters' = waiters + 1 /\ To(w, "comissioned?")
  /\ UNCHANGED <<comissioned, count, semaphores, old, kernel, at, waits, signaling>>

CheckComissioned(w) ==
  /\ pc[w] = "comissioned?"
  /\ IF comissioned THEN To(w, "slot") /\ UNCHANGED waiters
                    ELSE To(w, "idle") /\ waiters' = waiters - 1
  /\ UNCHANGED <<comissioned, count, semaphores, old, kernel, at, waits, signaling>>

FindSlot(w) ==
  /\ pc[w] = "slot"
  /\ IF semaphores[at[w]] = Free THEN To(w, "count?") /\ UNCHANGED at
     ELSE at' = [at EXCEPT ![w] = (@ % Slots) + 1] /\ UNCHANGED pc
  /\ UNCHANGED <<comissioned, count, waiters, semaphores, old, kernel, waits, signaling>>

\* MUTANT: the last check of the count is missing.
CheckCount_never(w) ==
  /\ pc[w] = "count?" /\ To(w, "install")
  /\ UNCHANGED <<comissioned, count, waiters, semaphores, old, kernel, at, waits, signaling>>

\* The last check, after which the signalers are sure to find the slot.
CheckCount(w) ==
  /\ pc[w] = "count?"
  /\ IF count > 0
       THEN /\ old' = [old EXCEPT ![w] = count] /\ waiters' = waiters - 1
            /\ at' = [at EXCEPT ![w] = 1] /\ To(w, "cas")
       ELSE To(w, "install") /\ UNCHANGED <<old, waiters, at>>
  /\ UNCHANGED <<comissioned, count, semaphores, kernel, waits, signaling>>

Install(w) ==
  /\ pc[w] = "install"
  /\ IF semaphores[at[w]] = Free
       THEN /\ semaphores' = [semaphores EXCEPT ![at[w]] = w]
            /\ at' = [at EXCEPT ![w] = 1] /\ To(w, "sleep")
       ELSE /\ at' = [at EXCEPT ![w] = (@ % Slots) + 1] /\ To(w, "slot")
            /\ UNCHANGED semaphores
  /\ UNCHANGED <<comissioned, count, waiters, old, kernel, waits, signaling>>

Wake(w) ==
  /\ pc[w] = "sleep" /\ kernel[w] > 0
  /\ kernel' = [kernel EXCEPT ![w] = @ - 1] /\ To(w, "load")
  /\ UNCHANGED <<comissioned, count, waiters, semaphores, old, at, waits, signaling>>

-----------------------------------------------------------------------------
\* signal(), called or by decomission().
Signal(s) ==
  /\ spc[s] = "idle" /\ signals < MaxSignals
  /\ signals' = signals + 1 /\ STo(s, "add")
  /\ UNCHANGED <<comissioned, count, waiters, semaphores, waiting, at, loaded, left>>

Add(s) ==
  /\ type = "LastInFirstOut" /\ spc[s] = "add" /\ count' = count + 1 /\ STo(s, "while")
  /\ UNCHANGED <<comissioned, waiters, semaphores, waiting, at, loaded, signals, left>>

\* One of decomission()'s signals is over.
Over(s) ==
  /\ left' = [left EXCEPT ![s] = IF @ > 0 THEN @ - 1 ELSE 0]
  /\ STo(s, IF left[s] > 1 THEN "add" ELSE "idle")
  /\ at' = [at EXCEPT ![s] = 1] /\ loaded' = [loaded EXCEPT ![s] = Free]

While(s) ==
  /\ spc[s] = "while"
  /\ IF waiters > 0 /\ count > 0 THEN STo(s, "for") /\ UNCHANGED <<left, at, loaded>>
                                 ELSE Over(s)
  /\ UNCHANGED <<comissioned, count, waiters, semaphores, waiting, signals>>

NextSlot(s) ==
  /\ at' = [at EXCEPT ![s] = (@ % Slots) + 1]
  /\ STo(s, IF at[s] = Slots THEN "while" ELSE "for")

For(s) ==
  /\ spc[s] = "for"
  /\ IF waiters = 0 \/ count = 0 THEN Over(s)
                                 ELSE STo(s, "look") /\ UNCHANGED <<left, at, loaded>>
  /\ UNCHANGED <<comissioned, count, waiters, semaphores, waiting, signals>>

Look(s) ==
  /\ spc[s] = "look" /\ loaded' = [loaded EXCEPT ![s] = semaphores[at[s]]]
  /\ IF semaphores[at[s]] = Free THEN NextSlot(s) ELSE STo(s, "clear") /\ UNCHANGED at
  /\ UNCHANGED <<comissioned, count, waiters, semaphores, waiting, signals, left>>

Clear(s) ==
  /\ spc[s] = "clear"
  /\ IF semaphores[at[s]] = loaded[s]
       THEN /\ semaphores' = [semaphores EXCEPT ![at[s]] = Free] /\ STo(s, "leave")
            /\ UNCHANGED at
       ELSE NextSlot(s) /\ UNCHANGED semaphores
  /\ UNCHANGED <<comissioned, count, waiters, waiting, loaded, signals, left>>

Leave(s) ==
  /\ spc[s] = "leave" /\ waiters' = waiters - 1 /\ STo(s, "post")
  /\ UNCHANGED <<comissioned, count, semaphores, waiting, at, loaded, signals, left>>

Post(s) ==
  /\ spc[s] = "post" /\ kernel' = [kernel EXCEPT ![loaded[s]] = @ + 1] /\ Over(s)
  /\ UNCHANGED <<comissioned, count, waiters, semaphores, type, pc, old, waits, signals>>

-----------------------------------------------------------------------------
(* DecomissionableKernelSemaphore                                          *)

KernelEnter(w) ==
  /\ type = "Kernel" /\ pc[w] = "idle" /\ waits < MaxWaits /\ waits' = waits + 1
  /\ waiters' = waiters + 1 /\ To(w, "check")
  /\ UNCHANGED <<comissioned, count, semaphores, old, kernel, at, signaling>>

KernelCheck(w) ==
  /\ pc[w] = "check" /\ To(w, IF comissioned THEN "wait" ELSE "leave")
  /\ UNCHANGED <<comissioned, count, waiters, semaphores, old, kernel, at, waits, signaling>>

\* KernelSemaphore::wait and signal
KernelWait(w) ==
  /\ pc[w] = "wait" /\ count > 0 /\ count' = count - 1 /\ To(w, "leave")
  /\ UNCHANGED <<comissioned, waiters, semaphores, old, kernel, at, waits, signaling>>

KernelLeave(w) ==
  /\ pc[w] = "leave" /\ waiters' = waiters - 1 /\ To(w, "idle")
  /\ UNCHANGED <<comissioned, count, semaphores, old, kernel, at, waits, signaling>>

KernelSignal(s) ==
  /\ type = "Kernel" /\ spc[s] = "add" /\ count' = count + 1 /\ Over(s)
  /\ UNCHANGED <<comissioned, waiters, semaphores, waiting, signals>>

-----------------------------------------------------------------------------
\* decomission(), of both: as many signals as there are waiters.
Decomission(s) ==
  /\ spc[s] = "idle" /\ comissioned /\ signals < MaxSignals /\ signals' = signals + 1
  /\ comissioned' = FALSE /\ STo(s, "waiters?")
  /\ UNCHANGED <<count, waiters, semaphores, waiting, at, loaded, left>>

\* MUTANT: one signal, however many wait.
LoadWaiters_one(s) ==
  /\ spc[s] = "waiters?"
  /\ left' = [left EXCEPT ![s] = IF waiters > 0 THEN 1 ELSE 0]
  /\ STo(s, IF waiters > 0 THEN "add" ELSE "idle")
  /\ UNCHANGED <<comissioned, count, waiters, semaphores, waiting, at, loaded, signals>>

LoadWaiters(s) ==
  /\ spc[s] = "waiters?"
  /\ left' = [left EXCEPT ![s] = waiters] /\ STo(s, IF waiters > 0 THEN "add" ELSE "idle")
  /\ UNCHANGED <<comissioned, count, waiters, semaphores, waiting, at, loaded, signals>>

WaitStep(w) ==
  \/ LoadCount(w) \/ CasCount(w) \/ Enter(w) \/ CheckComissioned(w) \/ FindSlot(w)
  \/ CheckCount(w) \/ Install(w) \/ Wake(w)
  \/ KernelCheck(w) \/ KernelWait(w) \/ KernelLeave(w)
SignalStep(s) ==
  \/ Add(s) \/ While(s) \/ For(s) \/ Look(s) \/ Clear(s) \/ Leave(s) \/ Post(s)
  \/ KernelSignal(s) \/ LoadWaiters(s)
Next ==
  \/ \E w \in Waiter : Wait(w) \/ KernelEnter(w) \/ WaitStep(w)
  \/ \E s \in Signaler : Signal(s) \/ Decomission(s) \/ SignalStep(s)
Spec == Init /\ [][Next]_vars
FairSpec == Spec /\ (\A w \in Waiter : WF_vars(WaitStep(w)))
                 /\ (\A s \in Signaler : WF_vars(SignalStep(s)))

-----------------------------------------------------------------------------
TypeOK ==
  /\ count \in Nat /\ waiters \in 0..Cardinality(Waiter)
  /\ semaphores \in [1..Slots -> Waiter \cup {Free}] /\ kernel \in [Waiter -> 0..1]
  /\ old \in [Waiter -> Nat] /\ at \in [Thread -> 1..Slots]

\* The threads that sleep and that nobody has decided to wake.
Asleep == {w \in Waiter : pc[w] = "sleep" /\ \E i \in 1..Slots : semaphores[i] = w}
\* The threads that have returned to the loop of wait(), or are about to.
Awake == {w \in Waiter : pc[w] \in {"load", "cas", "enter", "comissioned?", "slot", "count?"}
                         \/ (pc[w] = "sleep" /\ kernel[w] > 0)}

Quiet == \A s \in Signaler : spc[s] = "idle"

(***************************************************************************)
(* No wake-up is lost: when no signal() is under way, a thread sleeps only *)
(* if no more units are available (`count') than threads are on their way  *)
(* to take one.  No kernel semaphore is posted twice, no thread is in two  *)
(* slots, and `waiters' never wraps around below zero.  Once decomission() *)
(* of a kernel semaphore is over there is a unit for every thread that     *)
(* waits for one, so that all of them return, however late they counted    *)
(* themselves and whoever took the units of earlier signals.               *)
(***************************************************************************)
Safe ==
  /\ TypeOK
  /\ Quiet /\ comissioned /\ Asleep # {} => count <= Cardinality(Awake)
  /\ \A i, j \in 1..Slots : semaphores[i] = semaphores[j] /\ semaphores[i] # Free => i = j
  /\ type = "Kernel" /\ Quiet /\ ~comissioned =>
       Cardinality({w \in Waiter : pc[w] = "wait"}) <= count

\* A unit that is available while a thread waits for one is taken.
Paid == count = 0 \/ ~comissioned \/ \A w \in Waiter : pc[w] = "idle"
Owed == ~Paid
Taken == Owed ~> Paid
=============================================================================

------------------------------- MODULE Limiter ------------------------------
(***************************************************************************)
(* process::RateLimiter (include/process/limiter.hpp).  One action for     *)
(* each event the RateLimiterProcess handles; requests are numbered in the *)
(* order in which acquire() handles them.  Time is a counter.              *)
(***************************************************************************)
EXTENDS Naturals, Sequences

CONSTANTS
  Period,        \* Seconds(1) / permitsPerSecond
  MaxAcquires,   \* bound on the requests
  MaxTime        \* bound on the clock

VARIABLES
  now,
  timeout,    \* when the next permit is due
  promises,
  delays,     \* the deadlines of the delayed _acquire's
  future,     \* future[r]: "pending", "ready" or "discarded"
  discards,   \* the requests with a discard in the mailbox
  granted,    \* <<r, when>>, in the order of the permits
  alive,
  aborted     \* has a CHECK failed?

vars == <<now, timeout, promises, delays, future, discards, granted, alive, aborted>>

Init ==
  /\ now = 0 /\ timeout = 0 /\ promises = <<>> /\ delays = <<>>
  /\ future = <<>> /\ discards = {} /\ granted = <<>>
  /\ alive = TRUE /\ aborted = FALSE

Tick ==
  /\ now < MaxTime /\ now' = now + 1
  /\ UNCHANGED <<timeout, promises, delays, future, discards, granted, alive, aborted>>

acquire ==
  LET r == Len(future) + 1 IN
  /\ alive /\ r <= MaxAcquires
  /\ \/ /\ promises # <<>>
        /\ promises' = Append(promises, r) /\ future' = Append(future, "pending")
        /\ UNCHANGED <<timeout, delays, granted>>
     \/ /\ promises = <<>> /\ timeout > now
        /\ promises' = <<r>> /\ future' = Append(future, "pending")
        /\ delays' = Append(delays, timeout)
        /\ UNCHANGED <<timeout, granted>>
     \/ /\ promises = <<>> /\ timeout <= now
        /\ future' = Append(future, "ready") /\ granted' = Append(granted, <<r, now>>)
        /\ timeout' = now + Period
        /\ UNCHANGED <<promises, delays>>
  /\ UNCHANGED <<now, discards, alive, aborted>>

\* MUTANT: the next request in the queue is not given a timer.
_acquire_once ==
  LET live == {k \in 1..Len(promises) : future[promises[k]] # "discarded"} IN
  /\ alive /\ delays # <<>> /\ Head(delays) <= now
  /\ aborted' = (aborted \/ promises = <<>>)
  /\ IF live = {}
       THEN promises' = <<>> /\ UNCHANGED <<timeout, future, granted>>
       ELSE LET k == CHOOSE i \in live : \A j \in live : i <= j IN
            /\ promises' = SubSeq(promises, k + 1, Len(promises))
            /\ future' = [future EXCEPT ![promises[k]] = "ready"]
            /\ granted' = Append(granted, <<promises[k], now>>)
            /\ timeout' = now + Period
  /\ delays' = Tail(delays)
  /\ UNCHANGED <<now, discards, alive>>

\* The first request whose future is not discarded gets the permit.
_acquire ==
  LET live == {k \in 1..Len(promises) : future[promises[k]] # "discarded"} IN
  /\ alive /\ delays # <<>> /\ Head(delays) <= now
  /\ aborted' = (aborted \/ promises = <<>>)
  /\ IF live = {}
       THEN promises' = <<>> /\ UNCHANGED <<timeout, future, granted>>
       ELSE LET k == CHOOSE i \in live : \A j \in live : i <= j IN
            /\ promises' = SubSeq(promises, k + 1, Len(promises))
            /\ future' = [future EXCEPT ![promises[k]] = "ready"]
            /\ granted' = Append(granted, <<promises[k], now>>)
            /\ timeout' = now + Period
  /\ delays' = IF promises' = <<>> THEN Tail(delays) ELSE Append(Tail(delays), timeout')
  /\ UNCHANGED <<now, discards, alive>>

\* A caller discards the future of r, whose callback is deferred to the process.
AskDiscard(r) ==
  /\ r \in 1..Len(future) /\ future[r] = "pending" /\ r \notin discards
  /\ discards' = discards \cup {r}
  /\ UNCHANGED <<now, timeout, promises, delays, future, granted, alive, aborted>>

\* MUTANT: takes the promise out of the queue, too.
discard_erase(r) ==
  /\ alive /\ r \in discards /\ discards' = discards \ {r}
  /\ future' = IF \E k \in 1..Len(promises) : promises[k] = r
                 THEN [future EXCEPT ![r] = "discarded"] ELSE future
  /\ promises' = SelectSeq(promises, LAMBDA q : q # r)
  /\ UNCHANGED <<now, timeout, delays, granted, alive, aborted>>

\* The promise stays in the queue until its turn comes.
discard(r) ==
  /\ alive /\ r \in discards /\ discards' = discards \ {r}
  /\ future' = IF \E k \in 1..Len(promises) : promises[k] = r
                 THEN [future EXCEPT ![r] = "discarded"] ELSE future
  /\ UNCHANGED <<now, timeout, promises, delays, granted, alive, aborted>>

finalize ==
  /\ alive /\ alive' = FALSE
  /\ future' = [r \in 1..Len(future) |->
                  IF future[r] = "pending" THEN "discarded" ELSE future[r]]
  /\ promises' = <<>>
  /\ UNCHANGED <<now, timeout, delays, discards, granted, aborted>>

Timers == _acquire \/ Tick
Next ==
  \/ Timers \/ acquire \/ finalize
  \/ \E r \in 1..MaxAcquires : AskDiscard(r) \/ discard(r)
Spec == Init /\ [][Next]_vars
FairSpec == Spec /\ WF_vars(Timers)

-----------------------------------------------------------------------------
TypeOK ==
  /\ now \in 0..MaxTime /\ timeout \in 0..MaxTime + Period
  /\ promises \in Seq(1..MaxAcquires) /\ delays \in Seq(Nat)
  /\ future \in Seq({"pending", "ready", "discarded"}) /\ discards \subseteq 1..MaxAcquires

(***************************************************************************)
(* Permits are at least a period apart, and in the order of the requests;  *)
(* while requests are queued exactly one _acquire is on its way, and       *)
(* otherwise none (so that its CHECK never fails); and a future is pending *)
(* only while it is queued.  Discards and timers come in any order.        *)
(***************************************************************************)
Safe ==
  /\ TypeOK /\ ~aborted
  /\ \A k \in 1..Len(granted) - 1 :
       /\ granted[k + 1][2] >= granted[k][2] + Period
       /\ granted[k][1] < granted[k + 1][1]
  /\ alive => Len(delays) = IF promises = <<>> THEN 0 ELSE 1
  /\ \A r \in 1..Len(future) : future[r] = "pending" =>
       \E k \in 1..Len(promises) : promises[k] = r

\* A queued request is granted or discarded, unless its permit is due too late
\* for the bound on time.
Owed(r) == r \in 1..Len(future) /\ future[r] = "pending"
Paid(r) == ~Owed(r) \/ timeout > MaxTime
Served == \A r \in 1..MaxAcquires : Owed(r) ~> Paid(r)
=============================================================================

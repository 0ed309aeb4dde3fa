----------------------------- MODULE TimeSeries -----------------------------
(***************************************************************************)
(* The history of a metric: a time series of bounded size over a window of *)
(* time.  Threads push values: each reads the clock and then, under the    *)
(* metric's lock, sets the value at that time, so that values may come out *)
(* of order.  set() drops what is older than the window and, when there    *)
(* are more values than the capacity, every other one of the older half,   *)
(* keeping an iterator and its position for the next time.                 *)
(*                                                                         *)
(* The values are represented by their times, the keys of the map; `End'   *)
(* is the iterator past the last of them.                                  *)
(***************************************************************************)
EXTENDS Naturals, FiniteSets, FiniteSetsExt

CONSTANTS
  Thread,
  Capacity, Window,
  MaxTime     \* bound on the clock

VARIABLES
  now,
  values,     \* the keys of the map
  next,       \* the next deletion candidate, valid when index # Unknown
  index,      \* its position, counted from 0; Unknown when not known
  pushing,    \* pushing[t]: the time thread t read, or Unknown
  newest,     \* the latest time set so far
  misused     \* an iterator past the end was dereferenced or erased

vars == <<now, values, next, index, pushing, newest, misused>>

\* The truncation needs room for 3 values.
capacity == IF Capacity < 3 THEN 3 ELSE Capacity

Unknown == MaxTime + 1
End == MaxTime + 2

Init ==
  /\ now = 1 /\ values = {} /\ next = End /\ index = Unknown
  /\ pushing = [t \in Thread |-> Unknown] /\ newest = 0 /\ misused = FALSE

\* The position of the key k, and the key after it.
Position(vs, k) == Cardinality({v \in vs : v < k})
After(vs, k) == LET later == {v \in vs : v > k} IN IF later = {} THEN End ELSE Min(later)
Second(vs) == After(vs, Min(vs))

(***************************************************************************)
(* set: insert, truncate, sparsify.  A series is [values, next, index, ok].*)
(***************************************************************************)
Series == [values : SUBSET (1..MaxTime), next : 1..MaxTime + 2,
           index : 0..MaxTime + 1, ok : BOOLEAN]

\* MUTANT: an insertion out of order keeps the position.
Inserted_keeps(s, time) == [s EXCEPT !.values = @ \cup {time}]
\* An insertion that is not at the end resets the position.
Inserted(s, time) ==
  [s EXCEPT !.values = @ \cup {time},
            !.index = IF s.values # {} /\ time < Max(s.values) THEN Unknown ELSE @]

truncate(s) ==
  LET kept == {v \in s.values : v + Window > now}    \* from upper_bound on
      removed == Cardinality(s.values \ kept)
  IN IF Cardinality(s.values) <= 1 \/ kept = {} THEN s
     ELSE [s EXCEPT
             !.values = kept,
             !.ok = @ /\ (s.index # Unknown => s.next # End),
             !.index = IF s.index # Unknown /\ Min(kept) < s.next THEN @ - removed ELSE Unknown]

\* One turn of the loop.
Sparser(s) ==
  LET restart == s.index = Unknown \/ s.index > Cardinality(s.values) \div 2
      at == IF restart THEN Second(s.values) ELSE s.next
      i == IF restart THEN 1 ELSE s.index
      following == After(s.values, at)
  IN [values |-> s.values \ {at}, index |-> i + 1,
      next |-> IF following = End THEN End ELSE After(s.values, following),
      ok |-> s.ok /\ at \in s.values /\ following # End]
sparsify(s) ==
  LET loop[u \in Series] ==
        IF Cardinality(u.values) <= capacity THEN u ELSE loop[Sparser(u)]
  IN loop[s]

set(time) ==
  LET s == sparsify(truncate(Inserted([values |-> values, next |-> next,
                                       index |-> index, ok |-> TRUE], time)))
  IN /\ values' = s.values /\ next' = s.next /\ index' = s.index
     /\ misused' = (misused \/ ~s.ok)

\* Metric::push: the clock is read before the lock is taken.
ReadClock(t) ==
  /\ pushing[t] = Unknown
  /\ pushing' = [pushing EXCEPT ![t] = now]
  /\ UNCHANGED <<now, values, next, index, newest, misused>>
push(t) ==
  /\ pushing[t] # Unknown
  /\ set(pushing[t])
  /\ newest' = IF pushing[t] > newest THEN pushing[t] ELSE newest
  /\ pushing' = [pushing EXCEPT ![t] = Unknown]
  /\ UNCHANGED now

Tick == now < MaxTime /\ now' = now + 1
        /\ UNCHANGED <<values, next, index, pushing, newest, misused>>

Next == (\E t \in Thread : ReadClock(t) \/ push(t)) \/ Tick
Spec == Init /\ [][Next]_vars

-----------------------------------------------------------------------------
\* The position that Statistics::percentile interpolates from, for a percentile
\* in ten thousandths of n values; it reads the value there and the one after.
Percentiles == {2500, 5000, 7500, 9000, 9500, 9900, 9990, 9999}
percentile(p, n) == (p * (n - 1)) \div 10000

TypeOK ==
  /\ now \in 1..MaxTime /\ values \subseteq 1..MaxTime /\ newest \in 0..MaxTime
  /\ index \in 0..MaxTime + 1 /\ next \in 1..MaxTime + 2

(***************************************************************************)
(* The iterator is used only while it points at a value, and then its      *)
(* position is the index kept beside it, however values came in; the size  *)
(* stays within the capacity; the newest value is never dropped, not even  *)
(* when it comes late; the percentiles read values that are there.         *)
(***************************************************************************)
Safe ==
  /\ TypeOK /\ ~misused
  /\ index # Unknown => next \in values /\ index = Position(values, next)
  /\ Cardinality(values) <= capacity
  /\ newest > 0 => newest \in values
  /\ Cardinality(values) >= 2 =>
       \A p \in Percentiles : percentile(p, Cardinality(values)) + 1 < Cardinality(values)
=============================================================================

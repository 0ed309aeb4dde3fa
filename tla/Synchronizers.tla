---------------------------- MODULE Synchronizers ---------------------------
(***************************************************************************)
(* Small synchronizers that run on the threads of their callers: Once      *)
(* (include/process/once.hpp), CountDownLatch (include/process/            *)
(* count_down_latch.hpp), Latch (src/latch.cpp), whose state is that of a  *)
(* process that does nothing but terminate (see ProcessManager), and Queue *)
(* (include/process/queue.hpp), where the n-th put puts n and the gets are *)
(* numbered in the order in which they enter the critical section.         *)
(***************************************************************************)
EXTENDS Naturals, Sequences, FiniteSets

CONSTANTS Thread, Count, MaxPuts, MaxGets

VARIABLES
  object,      \* which of the four is used
  started, finished,
  opc,         \* of each thread in Once: "idle", "wait", "first", "done" or "second"
  count,
  cpc,         \* of each thread in CountDownLatch: "idle", "cas", "set" or "over"
  expected,
  sets,        \* how often the promise of the latch was set
  triggered,
  lpc,         \* of each thread in Latch: "idle", "terminate", "wait", "true" or "false"
  gate,        \* has the process of the latch terminated?
  winners,     \* the threads whose trigger() returned true
  elements, promises,
  setting,     \* {<<g, v>>}: a put that is about to set the promise of g to v
  puts, gets,
  future,      \* future[g]: "pending", "ready", "discarded" or "abandoned"
  got,         \* got[g]: the element it is ready with
  alive        \* has the queue not been destructed?

vars == <<object, started, finished, opc, count, cpc, expected, sets, triggered, lpc, gate,
          winners, elements, promises, setting, puts, gets, future, got, alive>>
onceVars == <<object, started, finished, opc>>
countVars == <<object, count, cpc, expected, sets>>
latchVars == <<object, triggered, lpc, gate, winners>>
queueVars == <<object, elements, promises, setting, puts, gets, future, got, alive>>
others == <<onceVars, countVars, latchVars>>

Init ==
  /\ object \in {"Once", "CountDownLatch", "Latch", "Queue"}
  /\ started = FALSE /\ finished = FALSE /\ opc = [t \in Thread |-> "idle"]
  /\ count \in (IF object = "CountDownLatch" THEN 0..Count ELSE {0})
  /\ cpc = [t \in Thread |-> "idle"] /\ expected = [t \in Thread |-> 0] /\ sets = 0
  /\ triggered = FALSE /\ lpc = [t \in Thread |-> "idle"] /\ gate = FALSE /\ winners = {}
  /\ elements = <<>> /\ promises = <<>> /\ setting = {} /\ puts = 0 /\ gets = 0
  /\ future = <<>> /\ got = <<>> /\ alive = TRUE

-----------------------------------------------------------------------------
once(t) ==
  /\ object = "Once" /\ opc[t] = "idle" /\ started' = TRUE
  /\ opc' = [opc EXCEPT ![t] = IF ~started THEN "first"
                               ELSE IF finished THEN "second" ELSE "wait"]
  /\ UNCHANGED <<finished, countVars, latchVars, queueVars>>

\* The wait returns true when it is notified and the action is done.
Notified(t) ==
  /\ opc[t] = "wait" /\ finished /\ opc' = [opc EXCEPT ![t] = "second"]
  /\ UNCHANGED <<started, finished, countVars, latchVars, queueVars>>

done(t) ==
  /\ opc[t] = "first" /\ opc' = [opc EXCEPT ![t] = "done"]
  /\ finished' = (finished \/ started)
  /\ UNCHANGED <<started, countVars, latchVars, queueVars>>

-----------------------------------------------------------------------------
Load(t) ==
  /\ object = "CountDownLatch" /\ cpc[t] = "idle" /\ expected' = [expected EXCEPT ![t] = count]
  /\ cpc' = [cpc EXCEPT ![t] = IF count > 0 THEN "cas" ELSE "over"]
  /\ UNCHANGED <<count, sets, onceVars, latchVars, queueVars>>

\* MUTANT: the load and the store are not one exchange.
decrement_stale(t) ==
  /\ cpc[t] = "cas"
  /\ count' = count - 1 /\ UNCHANGED expected
  /\ cpc' = [cpc EXCEPT ![t] = IF expected[t] = 1 THEN "set" ELSE "over"]
  /\ UNCHANGED <<sets, onceVars, latchVars, queueVars>>

decrement(t) ==
  /\ cpc[t] = "cas"
  /\ IF count = expected[t]
       THEN /\ count' = count - 1 /\ UNCHANGED expected
            /\ cpc' = [cpc EXCEPT ![t] = IF expected[t] = 1 THEN "set" ELSE "over"]
       ELSE /\ expected' = [expected EXCEPT ![t] = count] /\ UNCHANGED count
            /\ cpc' = [cpc EXCEPT ![t] = IF count > 0 THEN "cas" ELSE "over"]
  /\ UNCHANGED <<sets, onceVars, latchVars, queueVars>>

SetPromise(t) ==
  /\ cpc[t] = "set" /\ cpc' = [cpc EXCEPT ![t] = "over"] /\ sets' = sets + 1
  /\ UNCHANGED <<count, expected, onceVars, latchVars, queueVars>>

-----------------------------------------------------------------------------
\* trigger(), and the destructor: the first one terminates the process.
trigger(t) ==
  /\ object = "Latch" /\ lpc[t] = "idle" /\ triggered' = TRUE
  /\ lpc' = [lpc EXCEPT ![t] = IF triggered THEN "false" ELSE "terminate"]
  /\ winners' = IF triggered THEN winners ELSE winners \cup {t}
  /\ UNCHANGED <<gate, onceVars, countVars, queueVars>>
Terminate(t) ==
  /\ lpc[t] = "terminate" /\ lpc' = [lpc EXCEPT ![t] = "true"] /\ gate' = TRUE
  /\ UNCHANGED <<triggered, winners, onceVars, countVars, queueVars>>

await(t) ==
  /\ object = "Latch" /\ lpc[t] = "idle"
  /\ lpc' = [lpc EXCEPT ![t] = IF triggered THEN "true" ELSE "wait"]
  /\ UNCHANGED <<triggered, gate, winners, onceVars, countVars, queueVars>>

\* process::wait returns when the process has terminated, or after the timeout.
AwaitReturns(t, timedout) ==
  /\ lpc[t] = "wait" /\ (gate \/ timedout)
  /\ lpc' = [lpc EXCEPT ![t] = IF triggered THEN "true" ELSE "false"]
  /\ UNCHANGED <<triggered, gate, winners, onceVars, countVars, queueVars>>

-----------------------------------------------------------------------------
put ==
  /\ object = "Queue" /\ alive /\ puts < MaxPuts /\ puts' = puts + 1
  /\ IF promises = <<>>
       THEN elements' = Append(elements, puts + 1) /\ UNCHANGED <<promises, setting>>
       ELSE /\ setting' = setting \cup {<<Head(promises), puts + 1>>}
            /\ promises' = Tail(promises) /\ UNCHANGED elements
  /\ UNCHANGED <<gets, future, got, alive, others>>

\* Setting a promise does nothing unless it is pending.
Set(g, v) ==
  /\ <<g, v>> \in setting /\ setting' = setting \ {<<g, v>>}
  /\ future' = IF future[g] = "pending" THEN [future EXCEPT ![g] = "ready"] ELSE future
  /\ got' = IF future[g] = "pending" THEN [got EXCEPT ![g] = v] ELSE got
  /\ UNCHANGED <<elements, promises, puts, gets, alive, others>>

get ==
  /\ object = "Queue" /\ alive /\ gets < MaxGets /\ gets' = gets + 1
  /\ IF elements = <<>>
       THEN /\ promises' = Append(promises, gets + 1)
            /\ future' = Append(future, "pending") /\ got' = Append(got, 0)
            /\ UNCHANGED elements
       ELSE /\ future' = Append(future, "ready") /\ got' = Append(got, Head(elements))
            /\ elements' = Tail(elements) /\ UNCHANGED promises
  /\ UNCHANGED <<setting, puts, alive, others>>

\* MUTANT: discards a promise that a put has already taken.
onDiscard_always(g) ==
  /\ alive /\ g \in 1..gets /\ future[g] = "pending"
  /\ promises' = SelectSeq(promises, LAMBDA h : h # g)
  /\ future' = [future EXCEPT ![g] = "discarded"]
  /\ UNCHANGED <<elements, setting, puts, gets, got, alive, others>>

\* The callback on a discard of the future of g.
onDiscard(g) ==
  /\ alive /\ g \in 1..gets /\ \E k \in 1..Len(promises) : promises[k] = g
  /\ promises' = SelectSeq(promises, LAMBDA h : h # g)
  /\ future' = [future EXCEPT ![g] = "discarded"]
  /\ UNCHANGED <<elements, setting, puts, gets, got, alive, others>>

\* The destructor of the data: the promises in it are abandoned.
Destruct ==
  /\ object = "Queue" /\ alive /\ alive' = FALSE
  /\ future' = [g \in 1..gets |-> IF \E k \in 1..Len(promises) : promises[k] = g
                                    THEN "abandoned" ELSE future[g]]
  /\ UNCHANGED <<elements, promises, setting, puts, gets, got, others>>

Steps ==
  \E t \in Thread : \/ Notified(t) \/ done(t) \/ decrement(t) \/ SetPromise(t)
                    \/ Terminate(t) \/ AwaitReturns(t, FALSE)
Promises == \E g \in 1..MaxGets, v \in 1..MaxPuts : Set(g, v)
Next ==
  \/ Steps \/ Promises
  \/ put \/ get \/ (\E g \in 1..MaxGets : onDiscard(g)) \/ Destruct
  \/ \E t \in Thread : once(t) \/ Load(t) \/ trigger(t) \/ await(t) \/ AwaitReturns(t, TRUE)
Spec == Init /\ [][Next]_vars

-----------------------------------------------------------------------------
TypeOK ==
  /\ opc \in [Thread -> {"idle", "wait", "first", "done", "second"}]
  /\ count \in 0..Count /\ cpc \in [Thread -> {"idle", "cas", "set", "over"}]
  /\ lpc \in [Thread -> {"idle", "terminate", "wait", "true", "false"}]
  /\ puts \in 0..MaxPuts /\ gets \in 0..MaxGets
  /\ elements \in Seq(1..MaxPuts) /\ promises \in Seq(1..MaxGets)
  /\ setting \subseteq (1..MaxGets) \X (1..MaxPuts)
  /\ future \in [1..gets -> {"pending", "ready", "discarded", "abandoned"}]
  /\ got \in [1..gets -> 0..MaxPuts]

(***************************************************************************)
(* Once: one caller performs the action, and the others return only when   *)
(* it is done.  CountDownLatch: the promise is set once, by the caller     *)
(* that counts down to zero, and never before.  Latch: one trigger()       *)
(* returns true, and an await() without a timeout returns only true.       *)
(* Queue: no element is lost or given out twice, whatever put, get and a   *)
(* discard race for: each one is in the queue, on its way to a future that *)
(* still waits for it, or in exactly one future that is ready.  Gets are   *)
(* answered in the order of the calls with elements in the order of the    *)
(* puts, and a get waits only while there is no element.                   *)
(***************************************************************************)
Safe ==
  LET ready == {g \in 1..gets : future[g] = "ready"}
      queued == {elements[k] : k \in 1..Len(elements)}
      coming == {s[2] : s \in setting}
      value(g) == IF g \in ready THEN got[g] ELSE (CHOOSE s \in setting : s[1] = g)[2]
      served == ready \cup {s[1] : s \in setting}
  IN
  /\ TypeOK
  /\ Cardinality({t \in Thread : opc[t] \in {"first", "done"}}) <= 1
  /\ \A t \in Thread : opc[t] = "second" => \E u \in Thread : opc[u] = "done"
  /\ sets + Cardinality({t \in Thread : cpc[t] = "set"}) <= 1
  /\ sets = 1 => count = 0
  /\ Cardinality(winners) <= 1 /\ (gate => triggered)
  /\ queued \cup coming \cup {got[g] : g \in ready} = 1..puts
  /\ queued \cap coming = {}
  /\ \A s \in setting : future[s[1]] = "pending"
  /\ \A g, h \in served : g < h => value(g) < value(h)
  /\ alive => elements = <<>> \/ promises = <<>>
=============================================================================

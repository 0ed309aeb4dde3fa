------------------------------ MODULE Metrics ------------------------------
(***************************************************************************)
(* MetricsProcess: the registry of metrics and the snapshots of it.  A     *)
(* snapshot asks every metric for its value, waits until all values are    *)
(* there or a timeout expires, and only then, in another turn of the       *)
(* process, puts the values together.  In between metrics are added and    *)
(* removed, gauges answer, fail or never answer.                           *)
(*                                                                         *)
(* The rate limiter of the endpoint is module Limiter; here its permit     *)
(* just takes a while.                                                     *)
(***************************************************************************)
EXTENDS Naturals, Sequences, FiniteSets

CONSTANTS
  Name,           \* names of metrics
  MaxSnapshots,   \* bound on the requests of a snapshot
  MaxChanges      \* bound on the calls of add() and remove()

VARIABLES
  metrics,     \* the names registered
  changes,
  snapshot,    \* snapshot[s]: [stage, timeout, keys, result]
  value,       \* value[s]: name -> the future its metric gave to s
  timer,       \* the snapshots with a timer running
  mailbox,     \* the events of the process
  answers,     \* answers[i]: the calls handled and whether they succeeded
  aborted      \* CHECK_SOME(timeout)

vars == <<metrics, changes, snapshot, value, timer, mailbox, answers, aborted>>

S == 1..Len(snapshot)
NoValue == [n \in Name |-> "none"]
Stage(s) == snapshot[s].stage
Enqueue(e) == mailbox' = Append(mailbox, e)

Init ==
  /\ metrics = {} /\ changes = 0 /\ snapshot = <<>> /\ value = <<>> /\ timer = {}
  /\ mailbox = <<>> /\ answers = <<>> /\ aborted = FALSE

-----------------------------------------------------------------------------
(* Callers                                                                 *)

Change(what, n) ==
  /\ changes < MaxChanges /\ changes' = changes + 1
  /\ Enqueue(<<what, n>>)
  /\ UNCHANGED <<metrics, snapshot, value, timer, answers, aborted>>

\* _snapshot: parse the timeout, then wait for the rate limiter.
_snapshot(timeout) ==
  /\ Len(snapshot) < MaxSnapshots
  /\ snapshot' = Append(snapshot, [stage |-> "acquire", timeout |-> timeout,
                                   keys |-> {}, result |-> {}])
  /\ value' = Append(value, NoValue)
  /\ UNCHANGED <<metrics, changes, timer, mailbox, answers, aborted>>

Permit(s) ==
  /\ Stage(s) = "acquire"
  /\ snapshot' = [snapshot EXCEPT ![s].stage = "queued"] /\ Enqueue(<<"snapshot", s>>)
  /\ UNCHANGED <<metrics, changes, value, timer, answers, aborted>>

\* A gauge's process answers.
Answer(s, n, how) ==
  /\ value[s][n] = "pending"
  /\ value' = [value EXCEPT ![s][n] = how]
  /\ UNCHANGED <<metrics, changes, snapshot, timer, mailbox, answers, aborted>>

\* select: the timeout, or all values.  The timer is discarded either way.
Selected(s) ==
  /\ snapshot' = [snapshot EXCEPT ![s].stage = "selected"]
  /\ timer' = timer \ {s}
  /\ Enqueue(<<"__snapshot", s>>)
  /\ UNCHANGED <<metrics, changes, value, answers, aborted>>
\* MUTANT: the first value is enough.
Awaited_ready(s) ==
  /\ Stage(s) = "waiting" /\ \E n \in snapshot[s].keys : value[s][n] # "pending"
  /\ Selected(s)
\* await: every value is ready, failed or discarded.
Awaited(s) ==
  /\ Stage(s) = "waiting" /\ \A n \in snapshot[s].keys : value[s][n] # "pending"
  /\ Selected(s)
\* Without a timeout the timer is at the end of time.
TimedOut(s) == s \in timer /\ snapshot[s].timeout /\ Selected(s)

-----------------------------------------------------------------------------
(* The process                                                             *)

Handling(what) == mailbox # <<>> /\ mailbox[1][1] = what /\ mailbox' = Tail(mailbox)
Subject == mailbox[1][2]

add ==
  /\ Handling("add")
  /\ metrics' = metrics \cup {Subject}
  /\ answers' = Append(answers, <<"add", Subject, Subject \notin metrics>>)
  /\ UNCHANGED <<changes, snapshot, value, timer, aborted>>
remove ==
  /\ Handling("remove")
  /\ metrics' = metrics \ {Subject}
  /\ answers' = Append(answers, <<"remove", Subject, Subject \in metrics>>)
  /\ UNCHANGED <<changes, snapshot, value, timer, aborted>>

\* Values of counters and timers are there at once (a timer that never ran
\* fails), those of pulled gauges are pending.
TakeSnapshot ==
  /\ Handling("snapshot")
  /\ snapshot' = [snapshot EXCEPT ![Subject].stage = "waiting", ![Subject].keys = metrics]
  /\ \E v \in [metrics -> {"pending", "ready", "failed"}] :
       value' = [value EXCEPT ![Subject] =
                   [n \in Name |-> IF n \in metrics THEN v[n] ELSE "none"]]
  /\ timer' = timer \cup {Subject}
  /\ UNCHANGED <<metrics, changes, answers, aborted>>

__snapshot ==
  LET s == Subject
      Ready == {n \in snapshot[s].keys : value[s][n] = "ready"}
      Late == {n \in snapshot[s].keys : value[s][n] = "pending"}
  IN /\ Handling("__snapshot")
     /\ snapshot' = [snapshot EXCEPT ![s].stage = "done", ![s].result = Ready]
     /\ aborted' = (aborted \/ (Late # {} /\ ~snapshot[s].timeout))
     /\ UNCHANGED <<metrics, changes, value, timer, answers>>

Process == add \/ remove \/ TakeSnapshot \/ __snapshot
Threads == Process \/ \E s \in S : Permit(s) \/ Awaited(s) \/ TimedOut(s)
Next ==
  \/ Threads
  \/ \E n \in Name, what \in {"add", "remove"} : Change(what, n)
  \/ \E timeout \in BOOLEAN : _snapshot(timeout)
  \/ \E s \in S, n \in Name, how \in {"ready", "failed"} : Answer(s, n, how)
Spec == Init /\ [][Next]_vars
\* The process and the timers run; no gauge has to answer.
Fairness == WF_vars(Threads)
FairSpec == Spec /\ Fairness

-----------------------------------------------------------------------------
Successes(n) == SelectSeq(answers, LAMBDA a : a[2] = n /\ a[3])

(***************************************************************************)
(* A snapshot reports only metrics registered when it was taken and with   *)
(* values; without a timeout none that had a value is missing, and the     *)
(* CHECK of that holds whatever gauges do; no timer outlives its snapshot; *)
(* add()s and remove()s of a name succeed in turns.                        *)
(***************************************************************************)
Safe ==
  /\ ~aborted
  /\ timer = {s \in S : Stage(s) = "waiting"}
  /\ \A s \in S : Stage(s) = "done" =>
       /\ snapshot[s].result \subseteq {n \in snapshot[s].keys : value[s][n] = "ready"}
       /\ ~snapshot[s].timeout =>
            snapshot[s].result = {n \in snapshot[s].keys : value[s][n] # "failed"}
  /\ \A n \in Name : \A i \in 1..Len(Successes(n)) :
       Successes(n)[i][1] = IF i % 2 = 1 THEN "add" ELSE "remove"

\* Every snapshot asked for with a timeout is answered, also if gauges never are.
Owed(s) == s \in S /\ snapshot[s].timeout
Paid(s) == s \in S /\ Stage(s) = "done"
SnapshotsEnd == \A s \in 1..MaxSnapshots : Owed(s) ~> Paid(s)
=============================================================================

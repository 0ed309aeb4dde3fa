------------------------------- MODULE Tasks --------------------------------
(***************************************************************************)
(* Functions that run on a process of their own: run() (include/process/   *)
(* run.hpp), whose process calls the function when it serves its terminate *)
(* event; async() (async.hpp), whose process terminates itself as it calls *)
(* the function; and Executor (executor.hpp), which calls the functions it *)
(* is given one after the other until stop() or its destructor.  A worker  *)
(* takes an event, looks at `termination', and then serves it (see module  *)
(* ProcessManager).                                                        *)
(***************************************************************************)
EXTENDS Naturals, Sequences, SequencesExt

CONSTANT MaxTasks    \* bound on the functions given to an Executor

Task == 1..MaxTasks
Terminate == 0       \* the terminate event; a function is represented by its number

VARIABLES
  kind,          \* "run", "async" or "executor" (a constant of the behaviour)
  process,       \* "none", "alive" or "ended"
  mailbox, termination,
  event,         \* the event a worker is about to serve, as <<e>>, or <<>>
  running,       \* the function that is running, or 0
  promise,       \* promise[i]: "none", "pending", "set" or "abandoned"
  started,       \* the functions in the order they were started (history)
  ends,          \* the calls of terminate() so far: "run", "stop", "finalize"
                 \* or "destruct"
  late,          \* the functions started after stop() had returned (history)
  destroyed      \* ~Executor has returned

vars == <<kind, process, mailbox, termination, event, running, promise, started, ends,
          late, destroyed>>

Init ==
  /\ kind \in {"run", "async", "executor"} /\ process = "none"
  /\ mailbox = <<>> /\ termination = FALSE /\ event = <<>> /\ running = 0
  /\ promise = [i \in Task |-> "none"] /\ started = <<>> /\ ends = {} /\ late = <<>>
  /\ destroyed = FALSE

-----------------------------------------------------------------------------
(* The callers                                                             *)

\* The promise of run() exists before its process does.
Spawn ==
  /\ process = "none" /\ process' = "alive"
  /\ promise' = IF kind = "run" THEN [promise EXCEPT ![1] = "pending"] ELSE promise
  /\ UNCHANGED <<kind, mailbox, termination, event, running, started, ends, late, destroyed>>

\* The dispatch of async() and of Executor::execute.
Dispatch(i) ==
  /\ process # "none" /\ promise[i] = "none" /\ "destruct" \notin ends
  /\ \/ kind = "async" /\ i = 1
     \/ kind = "executor" /\ \A j \in 1..(i - 1) : promise[j] # "none"
  /\ IF process = "ended"
     THEN promise' = [promise EXCEPT ![i] = "abandoned"] /\ UNCHANGED mailbox
     ELSE promise' = [promise EXCEPT ![i] = "pending"] /\ mailbox' = Append(mailbox, i)
  /\ UNCHANGED <<kind, process, termination, event, running, started, ends, late, destroyed>>

\* terminate(): of run(), stop() and ~Executor, injected; of the library's
\* finalize(), not injected.
End(how) ==
  /\ process # "none" /\ how \notin ends
  /\ \/ kind = "run" /\ how = "run"
     \/ kind = "executor" /\ how \in {"stop", "destruct"}
     \/ how = "finalize"
  /\ ends' = ends \cup {how}
  /\ IF process = "ended" THEN UNCHANGED <<mailbox, termination>>
     ELSE /\ mailbox' = Append(mailbox, Terminate)
          /\ termination' = (termination \/ how # "finalize")
  /\ UNCHANGED <<kind, process, event, running, promise, started, late, destroyed>>

\* The wait() of ~Executor returns.
Destroyed ==
  /\ "destruct" \in ends /\ process = "ended" /\ ~destroyed /\ destroyed' = TRUE
  /\ UNCHANGED <<kind, process, mailbox, termination, event, running, promise, started,
                 ends, late>>

-----------------------------------------------------------------------------
(* The worker                                                              *)

\* The functions in `events' are deleted, and their promises with them.
Abandon(events) ==
  promise' = [i \in Task |-> IF Contains(events, i) THEN "abandoned" ELSE promise[i]]

\* MUTANT: the flag is not looked at.
Take_unchecked ==
  /\ process = "alive" /\ event = <<>> /\ running = 0 /\ mailbox # <<>>
  /\ event' = <<Head(mailbox)>> /\ mailbox' = Tail(mailbox)
  /\ UNCHANGED <<kind, process, termination, running, promise, started, ends, late, destroyed>>

\* The next event, or the terminate event once `termination' is set.
Take ==
  /\ process = "alive" /\ event = <<>> /\ running = 0 /\ mailbox # <<>>
  /\ LET k == IF termination THEN SelectInSeq(mailbox, LAMBDA e : e = Terminate) ELSE 1
     IN /\ event' = <<mailbox[k]>> /\ mailbox' = SubSeq(mailbox, k + 1, Len(mailbox))
        /\ Abandon(SubSeq(mailbox, 1, k - 1))
  /\ UNCHANGED <<kind, process, termination, running, started, ends, late, destroyed>>

\* The process of async() terminates itself first.
Start(i) ==
  /\ event = <<i>> /\ running' = i /\ started' = Append(started, i)
  /\ late' = IF "stop" \in ends THEN Append(late, i) ELSE late
  /\ IF kind = "async"
     THEN mailbox' = Append(mailbox, Terminate) /\ termination' = TRUE
     ELSE UNCHANGED <<mailbox, termination>>
  /\ UNCHANGED <<kind, process, event, promise, ends, destroyed>>

\* ThunkProcess::serve, for its terminate event.
Thunk ==
  /\ kind = "run" /\ event = <<Terminate>> /\ running = 0 /\ promise[1] = "pending"
  /\ running' = 1 /\ started' = Append(started, 1)
  /\ UNCHANGED <<kind, process, mailbox, termination, event, promise, ends, late, destroyed>>

\* The function has returned: the promise is set.
Return(i) ==
  /\ running = i /\ running' = 0
  /\ promise' = [promise EXCEPT ![i] = "set"]
  /\ event' = IF kind = "run" THEN event ELSE <<>>
  /\ UNCHANGED <<kind, process, mailbox, termination, started, ends, late, destroyed>>

\* After the terminate event the process is cleaned up.
Cleanup ==
  /\ event = <<Terminate>> /\ running = 0 /\ (kind = "run" => promise[1] = "set")
  /\ process' = "ended" /\ event' = <<>> /\ mailbox' = <<>> /\ Abandon(mailbox)
  /\ UNCHANGED <<kind, termination, running, started, ends, late, destroyed>>

Worker == Take \/ Thunk \/ Cleanup \/ \E i \in Task : (running = 0 /\ Start(i)) \/ Return(i)
Callers == Spawn \/ (kind = "run" /\ End("run")) \/ Destroyed
Next == \/ Worker \/ Callers \/ \E i \in Task : Dispatch(i)
        \/ \E how \in {"stop", "destruct", "finalize"} : End(how)
Spec == Init /\ [][Next]_vars
\* Workers are scheduled and functions return; a call of run() goes on.
FairSpec == Spec /\ WF_vars(Worker) /\ WF_vars(Callers)

-----------------------------------------------------------------------------
(***************************************************************************)
(* A function runs at most once, and its future is ready when it has and   *)
(* abandoned only if it will not.  An Executor runs them one at a time in  *)
(* the order they came; once stop() has returned at most one more starts   *)
(* (that taken by then), and once ~Executor has returned none runs.  run() *)
(* runs its function even if the library terminates the process first.     *)
(***************************************************************************)
Safe ==
  /\ \A m, n \in DOMAIN started : m < n => started[m] < started[n]
  /\ \A i \in Task :
       /\ (promise[i] = "set") = (Contains(started, i) /\ running # i)
       /\ promise[i] = "pending" => process = "none" \/ process = "alive"
       /\ running = i => promise[i] = "pending"
  /\ Len(late) <= 1
  /\ destroyed => running = 0 /\ event = <<>> /\ process = "ended"
  /\ kind = "run" /\ process = "ended" => promise[1] = "set"

\* Every function given is run or its future abandoned, and ~Executor returns.
Owed(k) == \/ k \in Task /\ promise[k] = "pending"
           \/ k = MaxTasks + 1 /\ "destruct" \in ends
Paid(k) == \/ k \in Task /\ promise[k] \in {"set", "abandoned"}
           \/ k = MaxTasks + 1 /\ destroyed
Completed == \A k \in 1..(MaxTasks + 1) : Owed(k) ~> Paid(k)
=============================================================================

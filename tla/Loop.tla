-------------------------------- MODULE Loop --------------------------------
(***************************************************************************)
(* process::loop (include/process/loop.hpp): an asynchronous loop whose    *)
(* `iterate' and `body' return futures.  `run' keeps going while the       *)
(* futures are ready and otherwise registers a continuation on the one it  *)
(* blocks on, which runs in whatever thread completes that future or, when *)
(* the loop was given a `pid', in that process, one dispatch at a time.    *)
(*                                                                         *)
(* Promises and futures are used through their interface: a future         *)
(* completes once, onAny runs at once on a completed future.  The values   *)
(* of the iterations are left out; which future the loop is blocked on,    *)
(* and which future the stored `discard' function names, are kept.         *)
(***************************************************************************)
EXTENDS Integers, Sequences, SequencesExt, FiniteSets

CONSTANTS
  Threads,      \* threads that complete futures and run continuations
  MaxFutures    \* bound on the futures returned by `iterate' and `body'

VARIABLES
  hasPid,       \* the loop was given a pid (a constant of the behaviour)
  state,        \* futures returned so far: "pending", "ready", "failed"...
  kind,         \* ... by "iterate", or by "body" (with its control flow)
  asked,        \* futures whose discard was requested
  onAny,        \* futures holding the continuation of this loop
  stack,        \* thread -> frames of `run', innermost last
  queue,        \* completed futures whose continuation was dispatched to pid
  discard,      \* the future `discard' captures, 0 for the empty function
  promise,      \* state of the loop's promise
  hasDiscard,   \* a discard was requested on the loop's future
  caller,       \* where the thread that discards the loop's future is
  copy          \* ... and its copy of `discard'

vars == <<hasPid, state, kind, asked, onAny, stack, queue, discard, promise,
          hasDiscard, caller, copy>>

Futures == 1..MaxFutures
Allocated == DOMAIN state
Pid == "pid"                   \* the thread of the process `pid'
Runners == Threads \cup {Pid}

Frame == [pc : {"run", "while", "onAny", "keep", "store", "check", "then"}, f : Futures]

TypeOK ==
  /\ hasPid \in BOOLEAN
  /\ state \in Seq({"pending", "ready", "failed", "discarded"})
  /\ Len(state) <= MaxFutures
  /\ kind \in Seq({"iterate", "continue", "break"}) /\ Len(kind) = Len(state)
  /\ asked \subseteq Allocated /\ onAny \subseteq Allocated
  /\ DOMAIN stack = Runners
  /\ \A t \in Runners : \A i \in DOMAIN stack[t] : stack[t][i] \in Frame
  /\ \A i \in DOMAIN queue : queue[i] \in Allocated
  /\ discard \in {0} \cup Allocated
  /\ promise \in {"pending", "ready", "failed", "discarded"}
  /\ hasDiscard \in BOOLEAN
  /\ caller \in {"idle", "copy", "invoke", "done"}
  /\ copy \in {0} \cup Allocated

(***************************************************************************)
(* The user's `iterate' returns a future that is pending or already        *)
(* complete.  start() runs the first one in the caller or in the pid.      *)
(***************************************************************************)
Outcomes == {"pending", "ready", "failed"}

iterate(s) == /\ state' = Append(state, s)
              /\ kind' = Append(kind, "iterate")

start(t, s) ==
  /\ state = <<>>
  /\ t = Pid <=> hasPid
  /\ iterate(s)
  /\ stack' = [stack EXCEPT ![t] = <<[pc |-> "run", f |-> 1]>>]
  /\ UNCHANGED <<hasPid, asked, onAny, queue, discard, promise, hasDiscard, caller, copy>>

Top(t) == Last(stack[t])
Goto(t, pc, f) ==
  stack' = [stack EXCEPT ![t] = Append(Front(@), [pc |-> pc, f |-> f])]
Return(t) == stack' = [stack EXCEPT ![t] = Front(@)]
At(t, pc) == stack[t] # <<>> /\ Top(t).pc = pc

Complete(s) == promise' = IF promise = "pending" THEN s ELSE promise

(***************************************************************************)
(* run(next): forget the previous future, then loop while what `iterate'   *)
(* and `body' return is ready.                                             *)
(***************************************************************************)
Reset(t) ==
  /\ At(t, "run")
  /\ discard' = 0
  /\ Goto(t, "while", Top(t).f)
  /\ UNCHANGED <<hasPid, state, kind, asked, onAny, queue, promise, hasDiscard, caller, copy>>

\* next is ready: invoke `body', which returns the future of a control flow.
Body(t, s, k) ==
  LET f == Top(t).f IN
  /\ At(t, "while") /\ kind[f] = "iterate" /\ state[f] = "ready"
  /\ Len(state) < MaxFutures
  /\ state' = Append(state, s) /\ kind' = Append(kind, k)
  /\ Goto(t, "while", Len(state) + 1)
  /\ UNCHANGED <<hasPid, asked, onAny, queue, discard, promise, hasDiscard, caller, copy>>

\* The flow is ready at once: iterate again, or set the promise and return.
ContinueNow(t, s) ==
  LET f == Top(t).f IN
  /\ At(t, "while") /\ kind[f] = "continue" /\ state[f] = "ready"
  /\ Len(state) < MaxFutures
  /\ iterate(s)
  /\ Goto(t, "while", Len(state) + 1)
  /\ UNCHANGED <<hasPid, asked, onAny, queue, discard, promise, hasDiscard, caller, copy>>

BreakNow(t) ==
  LET f == Top(t).f IN
  /\ At(t, "while") /\ kind[f] = "break" /\ state[f] = "ready"
  /\ Complete("ready")
  /\ Return(t)
  /\ UNCHANGED <<hasPid, state, kind, asked, onAny, queue, discard, hasDiscard, caller, copy>>

\* Not ready: leave the while loop and block on the future.
Block(t) ==
  LET f == Top(t).f IN
  /\ At(t, "while") /\ state[f] # "ready"
  /\ Goto(t, "onAny", f)
  /\ UNCHANGED <<hasPid, state, kind, asked, onAny, queue, discard, promise, hasDiscard, caller, copy>>

(***************************************************************************)
(* The continuation of a completed future f, invoked in thread t on top of *)
(* the given frames.                                                       *)
(***************************************************************************)
Continuation(t, f, frames, s) ==
  CASE state[f] = "ready" /\ kind[f] = "iterate" ->
         /\ stack' = [stack EXCEPT ![t] = Append(frames, [pc |-> "run", f |-> f])]
         /\ UNCHANGED <<state, kind, promise>>
    [] state[f] = "ready" /\ kind[f] = "continue" ->
         /\ Len(state) < MaxFutures
         /\ iterate(s)
         /\ stack' = [stack EXCEPT ![t] =
                        Append(frames, [pc |-> "run", f |-> Len(state) + 1])]
         /\ UNCHANGED promise
    [] OTHER ->
         /\ Complete(state[f])
         /\ stack' = [stack EXCEPT ![t] = frames]
         /\ UNCHANGED <<state, kind>>

\* onAny on a future that completed meanwhile runs the continuation at once,
\* inside this call of `run'; with a pid it is dispatched.
Register(t, s) ==
  LET f == Top(t).f
      rest == Append(Front(stack[t]), [pc |-> "keep", f |-> f])
  IN
  /\ At(t, "onAny")
  /\ IF state[f] = "pending"
     THEN /\ onAny' = onAny \cup {f}
          /\ stack' = [stack EXCEPT ![t] = rest]
          /\ s = "pending"
          /\ UNCHANGED <<state, kind, queue, promise>>
     ELSE /\ onAny' = onAny
          /\ IF hasPid THEN /\ queue' = Append(queue, f)
                            /\ stack' = [stack EXCEPT ![t] = rest]
                            /\ s = "pending"
                            /\ UNCHANGED <<state, kind, promise>>
                       ELSE /\ queue' = queue
                            /\ Continuation(t, f, rest, s)
  /\ UNCHANGED <<hasPid, asked, discard, hasDiscard, caller, copy>>

\* `if (!promise.future().hasDiscard())', then the store under the mutex.
Keep(t) ==
  /\ At(t, "keep")
  /\ Goto(t, IF hasDiscard THEN "check" ELSE "store", Top(t).f)
  /\ UNCHANGED <<hasPid, state, kind, asked, onAny, queue, discard, promise, hasDiscard, caller, copy>>

Store(t) ==
  /\ At(t, "store")
  /\ discard' = Top(t).f
  /\ Goto(t, "check", Top(t).f)
  /\ UNCHANGED <<hasPid, state, kind, asked, onAny, queue, promise, hasDiscard, caller, copy>>

\* MUTANT: the discard is not looked for again after the store.
Check_once(t) ==
  /\ At(t, "check")
  /\ Return(t)
  /\ UNCHANGED <<hasPid, state, kind, asked, onAny, queue, discard, promise, hasDiscard, caller, copy>>

\* The discard may have come between the check and the store.
Check(t) ==
  /\ At(t, "check")
  /\ asked' = IF hasDiscard THEN asked \cup {Top(t).f} ELSE asked
  /\ Return(t)
  /\ UNCHANGED <<hasPid, state, kind, onAny, queue, discard, promise, hasDiscard, caller, copy>>

(***************************************************************************)
(* A future completes in some thread, which runs the continuation; a       *)
(* future whose discard was asked for may end up discarded.                *)
(***************************************************************************)
Completes(f, s) ==
  /\ f \in Allocated /\ state[f] = "pending" /\ f \notin onAny
  /\ s = "discarded" => f \in asked
  /\ state' = [state EXCEPT ![f] = s]
  /\ UNCHANGED <<hasPid, kind, asked, onAny, stack, queue, discard, promise, hasDiscard, caller, copy>>

CompletesDeferred(f, s) ==
  /\ hasPid /\ f \in onAny /\ state[f] = "pending"
  /\ s = "discarded" => f \in asked
  /\ state' = [state EXCEPT ![f] = s]
  /\ onAny' = onAny \ {f}
  /\ queue' = Append(queue, f)
  /\ UNCHANGED <<hasPid, kind, asked, stack, discard, promise, hasDiscard, caller, copy>>

\* Without a pid thread t completes f and then runs its continuation.
CompletesIn(t, f, s) ==
  /\ ~hasPid /\ f \in onAny /\ state[f] = "pending" /\ stack[t] = <<>>
  /\ s = "discarded" => f \in asked
  /\ state' = [state EXCEPT ![f] = s]
  /\ onAny' = onAny \ {f}
  /\ stack' = [stack EXCEPT ![t] = <<[pc |-> "then", f |-> f]>>]
  /\ UNCHANGED <<hasPid, kind, asked, queue, discard, promise, hasDiscard, caller, copy>>

Then(t, s) ==
  /\ At(t, "then")
  /\ Continuation(t, Top(t).f, <<>>, s)
  /\ UNCHANGED <<hasPid, asked, onAny, queue, discard, hasDiscard, caller, copy>>

\* The process `pid' serves the next dispatched continuation.
Dispatched(s) ==
  /\ queue # <<>> /\ stack[Pid] = <<>>
  /\ queue' = Tail(queue)
  /\ Continuation(Pid, Head(queue), <<>>, s)
  /\ UNCHANGED <<hasPid, asked, onAny, discard, hasDiscard, caller, copy>>

(***************************************************************************)
(* The caller discards the loop's future: onDiscard copies `discard' under *)
(* the mutex and invokes the copy outside of it.                           *)
(***************************************************************************)
Discard ==
  /\ caller = "idle" /\ state # <<>> /\ promise = "pending"
  /\ hasDiscard' = TRUE
  /\ caller' = "copy"
  /\ UNCHANGED <<hasPid, state, kind, asked, onAny, stack, queue, discard, promise, copy>>

Copy ==
  /\ caller = "copy"
  /\ copy' = discard
  /\ caller' = "invoke"
  /\ UNCHANGED <<hasPid, state, kind, asked, onAny, stack, queue, discard, promise, hasDiscard>>

Invoke ==
  /\ caller = "invoke"
  /\ asked' = asked \cup ({copy} \ {0})
  /\ caller' = "done"
  /\ UNCHANGED <<hasPid, state, kind, onAny, stack, queue, discard, promise, hasDiscard, copy>>

Init ==
  /\ hasPid \in BOOLEAN
  /\ state = <<>> /\ kind = <<>> /\ asked = {} /\ onAny = {}
  /\ stack = [t \in Runners |-> <<>>]
  /\ queue = <<>> /\ discard = 0 /\ promise = "pending"
  /\ hasDiscard = FALSE /\ caller = "idle" /\ copy = 0

Run(t) ==
  \/ Reset(t) \/ BreakNow(t) \/ Block(t) \/ Keep(t) \/ Store(t) \/ Check(t)
  \/ \E s \in Outcomes : ContinueNow(t, s) \/ Register(t, s) \/ Then(t, s)
  \/ \E s \in Outcomes, k \in {"continue", "break"} : Body(t, s, k)

Environment ==
  \/ \E f \in Futures, s \in {"ready", "failed", "discarded"} :
       Completes(f, s) \/ CompletesDeferred(f, s) \/ \E t \in Threads : CompletesIn(t, f, s)

Next ==
  \/ \E t \in Runners, s \in Outcomes : start(t, s)
  \/ \E t \in Runners : Run(t)
  \/ \E s \in Outcomes : Dispatched(s)
  \/ Environment
  \/ Discard \/ Copy \/ Invoke

Spec == Init /\ [][Next]_vars

-----------------------------------------------------------------------------
Idle == \A t \in Runners : stack[t] = <<>>
Quiet == Idle /\ queue = <<>> /\ caller \in {"idle", "done"}

\* The future the loop is blocked on carries the discard request, once every
\* thread is through.
Reached == Quiet /\ hasDiscard => onAny \subseteq asked

\* At most one iteration of the loop is in flight: one future holds its
\* continuation, and a completed promise leaves none behind; and when every
\* thread is through and the promise is still pending the loop is blocked
\* somewhere.  With a pid a discard of the loop reaches what it is blocked on.
LoopSafe ==
  /\ Cardinality(onAny) <= 1
  /\ Len(queue) <= 1
  /\ promise # "pending" => onAny = {} /\ queue = <<>>
  /\ Quiet /\ promise = "pending" /\ state # <<>> => onAny # {}
  /\ hasPid => Reached

\* "When the caller does a discard we need to propagate it to either the
\* future returned from `iterate' or the future returned from `body'"
\* (loop.hpp, start): for every loop, with or without a pid.
DiscardPropagated == Reached
=============================================================================

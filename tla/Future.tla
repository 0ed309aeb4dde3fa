------------------------------- MODULE Future -------------------------------
(***************************************************************************)
(* Future and Promise (include/process/future.hpp): completion, discard,   *)
(* abandonment, callbacks and composition, with several threads at once.   *)
(*                                                                         *)
(* The code runs callbacks on the thread that completes a future (or that  *)
(* registers a callback too late), after it has released the lock of the   *)
(* future.  So what a thread still has to do is a stack `todo' of calls;   *)
(* one step performs the critical section of the first call and puts the   *)
(* callbacks it triggers in front of the rest.                             *)
(*                                                                         *)
(* A callback is itself a call: one of the bindings the library makes      *)
(* (Future::set, internal::thenf, ...) or a callback of the user.  The     *)
(* functions at the end of the calls section (Then, Recover, ...) are the  *)
(* sequences of calls the composition operators of the library make.       *)
(*                                                                         *)
(* The shared data of a future outlives the calls, so a weak future (see   *)
(* internal::discard) always resolves.                                     *)
(***************************************************************************)
EXTENDS Naturals, Sequences, FiniteSets, TLC

CONSTANTS
  Futures,     \* shared Data objects
  Threads,
  Users,       \* callbacks and functions of the user
  Programs,    \* what the threads call, [name, calls: Threads -> sequences]
  Clock,       \* the thread that runs expired timers
  None

State == {"PENDING", "READY", "FAILED", "DISCARDED"}
Kinds == {"abandoned", "discard", "ready", "failed", "discarded", "any"}

VARIABLES
  state, discard, associated, abandoned,
  callbacks,   \* callbacks[f][kind]: the vectors of Data
  latch,       \* the Latch of after (by the future it returns) and of await
  timer,       \* the Option<Timer> of after is Some
  armed,       \* timers the clock has still to run: the calls of their thunks
  program,     \* the name of the program that runs
  todo,        \* todo[t]: stack of calls of a thread
  asked,       \* user callbacks registered so far
  ran          \* ran[u]: how u was called, in order

dataVars == <<state, discard, associated, abandoned>>
vars == <<dataVars, callbacks, latch, timer, armed, program, todo, asked, ran>>

-----------------------------------------------------------------------------
(* Calls.                                                                  *)

Complete(f, to) == [call |-> "complete", f |-> f, to |-> to]
ViaPromise(f, to) == [call |-> "promise", f |-> f, to |-> to]
Clear(f) == [call |-> "clear", f |-> f]
Discard(f) == [call |-> "discard", f |-> f]
Abandon(f, propagating) ==
  [call |-> "abandon", f |-> f, propagating |-> propagating]
Associate(f, g) == [call |-> "associate", f |-> f, g |-> g]
On(kind, f, cb) == [call |-> "on", f |-> f, kind |-> kind, cb |-> cb]
User(u, f, kind) == [call |-> "user", f |-> f, u |-> u, kind |-> kind]
AwaitLatch(f) == [call |-> "await", f |-> f]
Trigger(f) == [call |-> "trigger", f |-> f]
Awaited(f) == [call |-> "awaited", f |-> f]

\* u is the function given to then, repair, recover or after; it returns the
\* future h, or a plain value when h is None.
Thenf(f, g, u, h) == [call |-> "thenf", f |-> f, g |-> g, u |-> u, h |-> h]
Repairf(f, g, u, h) == [call |-> "repairf", f |-> f, g |-> g, u |-> u, h |-> h]
Recoverf(f, g, u, h, when) ==
  [call |-> "recoverf", f |-> f, g |-> g, u |-> u, h |-> h, when |-> when]
Expired(f, g, u, h) == [call |-> "expired", f |-> f, g |-> g, u |-> u, h |-> h]
Afterf(f, g) == [call |-> "afterf", f |-> f, g |-> g]
Mirrorf(f, g) == [call |-> "mirrorf", f |-> f, g |-> g]
Selectf(f, g) == [call |-> "selectf", f |-> f, g |-> g]
StartTimer(e) == [call |-> "start", e |-> e]
StoreTimer(g) == [call |-> "store", g |-> g]
ClearTimer(g, cancel) == [call |-> "untimer", g |-> g, cancel |-> cancel]

\* ~Promise, a last promise handle going away.
DropPromise(f) == Abandon(f, FALSE)

\* g is the future returned by each of these.
Then(f, g, u, h) ==
  <<On("any", f, Thenf(f, g, u, h)), On("abandoned", f, Abandon(g, FALSE)),
    On("discard", g, Discard(f))>>
Repair(f, g, u, h) ==
  <<On("any", f, Repairf(f, g, u, h)), On("abandoned", f, Abandon(g, FALSE)),
    On("discard", g, Discard(f))>>
\* MUTANT: an abandoned f is not recovered from.
RecoverNotAbandoned(f, g, u, h) ==
  <<On("any", f, Recoverf(f, g, u, h, "any")), On("discard", g, Discard(f))>>

Recover(f, g, u, h) ==
  <<On("any", f, Recoverf(f, g, u, h, "any")),
    On("abandoned", f, Recoverf(f, g, u, h, "abandoned")),
    On("discard", g, Discard(f))>>
After(f, g, u, h) ==
  <<StartTimer(Expired(f, g, u, h)), StoreTimer(g), On("any", f, Afterf(f, g)),
    On("abandoned", f, Abandon(g, FALSE)), On("discard", g, Discard(f))>>
Undiscardable(f, g) == <<On("any", f, Mirrorf(f, g))>>
Select(fs, g) ==
  <<On("discard", g, Complete(g, "DISCARDED"))>>
    \o [i \in 1..Len(fs) |-> On("any", fs[i], Selectf(fs[i], g))]

-----------------------------------------------------------------------------
Init ==
  /\ state = [f \in Futures |-> "PENDING"]
  /\ discard = [f \in Futures |-> FALSE]
  /\ associated = [f \in Futures |-> FALSE]
  /\ abandoned = [f \in Futures |-> FALSE]
  /\ callbacks = [f \in Futures |-> [k \in Kinds |-> <<>>]]
  /\ latch = [f \in Futures |-> FALSE]
  /\ timer = [f \in Futures |-> FALSE]
  /\ armed = {}
  /\ \E s \in Programs : program = s.name /\ todo = s.calls
  /\ asked = {}
  /\ ran = [u \in Users |-> <<>>]

\* Thread t performs its next call c, and after it `next' before the rest.
Calls(t, what, c) == todo[t] # <<>> /\ c = Head(todo[t]) /\ c.call = what
Continue(t, next) == todo' = [todo EXCEPT ![t] = next \o Tail(@)]

othersThan == <<latch, timer, armed, asked, ran>>

-----------------------------------------------------------------------------
(* Completion, discard, abandonment.                                       *)

\* MUTANT: a completed future is completed again.
CompleteAgain(t, c) ==
  /\ Calls(t, "complete", c)
  /\ state' = [state EXCEPT ![c.f] = c.to]
  /\ Continue(t, callbacks[c.f]["any"] \o <<Clear(c.f)>>)
  /\ UNCHANGED <<discard, associated, abandoned, callbacks, othersThan>>

\* MUTANT: only the callbacks for the new state are run.
CompleteWithoutAny(t, c) ==
  /\ Calls(t, "complete", c)
  /\ \/ state[c.f] = "PENDING" /\ state' = [state EXCEPT ![c.f] = c.to]
     \/ state[c.f] # "PENDING" /\ UNCHANGED state
  /\ Continue(t, <<>>)
  /\ UNCHANGED <<discard, associated, abandoned, callbacks, othersThan>>

\* Future::_set, Future::fail and Promise::discard(future): the callbacks for
\* the new state, then those for any state, then all vectors are cleared.
CompleteStep(t, c) ==
  /\ Calls(t, "complete", c)
  /\ \/ /\ state[c.f] = "PENDING"
        /\ state' = [state EXCEPT ![c.f] = c.to]
        /\ Continue(t, callbacks[c.f][CASE c.to = "READY" -> "ready"
                                        [] c.to = "FAILED" -> "failed"
                                        [] c.to = "DISCARDED" -> "discarded"]
                       \o callbacks[c.f]["any"] \o <<Clear(c.f)>>)
     \/ state[c.f] # "PENDING" /\ Continue(t, <<>>) /\ UNCHANGED state
  /\ UNCHANGED <<discard, associated, abandoned, callbacks, othersThan>>

ClearStep(t, c) ==
  /\ Calls(t, "clear", c)
  /\ callbacks' = [callbacks EXCEPT ![c.f] = [k \in Kinds |-> <<>>]]
  /\ Continue(t, <<>>)
  /\ UNCHANGED <<dataVars, othersThan>>

\* Promise::set, fail and discard read `associated' without the lock.
PromiseStep(t, c) ==
  /\ Calls(t, "promise", c)
  /\ Continue(t, IF associated[c.f] THEN <<>> ELSE <<Complete(c.f, c.to)>>)
  /\ UNCHANGED <<dataVars, callbacks, othersThan>>

DiscardStep(t, c) ==
  /\ Calls(t, "discard", c)
  /\ \/ /\ ~discard[c.f] /\ state[c.f] = "PENDING"
        /\ discard' = [discard EXCEPT ![c.f] = TRUE]
        /\ callbacks' = [callbacks EXCEPT ![c.f]["discard"] = <<>>]
        /\ Continue(t, callbacks[c.f]["discard"])
     \/ /\ discard[c.f] \/ state[c.f] # "PENDING"
        /\ Continue(t, <<>>) /\ UNCHANGED <<discard, callbacks>>
  /\ UNCHANGED <<state, associated, abandoned, othersThan>>

AbandonStep(t, c) ==
  LET can == /\ ~abandoned[c.f] /\ state[c.f] = "PENDING"
             /\ ~associated[c.f] \/ c.propagating IN
  /\ Calls(t, "abandon", c)
  /\ \/ /\ can
        /\ abandoned' = [abandoned EXCEPT ![c.f] = TRUE]
        /\ callbacks' = [callbacks EXCEPT ![c.f]["abandoned"] = <<>>]
        /\ Continue(t, callbacks[c.f]["abandoned"])
     \/ ~can /\ Continue(t, <<>>) /\ UNCHANGED <<abandoned, callbacks>>
  /\ UNCHANGED <<state, discard, associated, othersThan>>

\* MUTANT: a discard of f is not passed on to g.
AssociateWithoutDiscard(t, c) ==
  /\ Calls(t, "associate", c)
  /\ associated' = [associated EXCEPT ![c.f] = TRUE]
  /\ Continue(t, <<On("ready", c.g, Complete(c.f, "READY")),
                   On("failed", c.g, Complete(c.f, "FAILED")),
                   On("discarded", c.g, Complete(c.f, "DISCARDED")),
                   On("abandoned", c.g, Abandon(c.f, TRUE))>>)
  /\ UNCHANGED <<state, discard, abandoned, callbacks, othersThan>>

\* Promise::associate of the promise of f with the future g.
AssociateStep(t, c) ==
  /\ Calls(t, "associate", c)
  /\ \/ /\ state[c.f] = "PENDING" /\ ~associated[c.f]
        /\ associated' = [associated EXCEPT ![c.f] = TRUE]
        /\ Continue(t, <<On("discard", c.f, Discard(c.g)),
                         On("ready", c.g, Complete(c.f, "READY")),
                         On("failed", c.g, Complete(c.f, "FAILED")),
                         On("discarded", c.g, Complete(c.f, "DISCARDED")),
                         On("abandoned", c.g, Abandon(c.f, TRUE))>>)
     \/ /\ state[c.f] # "PENDING" \/ associated[c.f]
        /\ Continue(t, <<>>) /\ UNCHANGED associated
  /\ UNCHANGED <<state, discard, abandoned, callbacks, othersThan>>

-----------------------------------------------------------------------------
(* Callbacks.                                                              *)

\* What a callback of a kind waits for ("after": the expiry of a timer).
Due(kind, f) ==
  CASE kind = "abandoned" -> abandoned[f]
    [] kind = "discard" -> discard[f]
    [] kind = "ready" -> state[f] = "READY"
    [] kind = "failed" -> state[f] = "FAILED"
    [] kind = "discarded" -> state[f] = "DISCARDED"
    [] kind = "any" -> state[f] # "PENDING"
    [] kind = "after" -> TRUE

\* onAbandoned, onDiscard, onReady, onFailed, onDiscarded and onAny run the
\* callback at once, or keep it while the future is pending, or drop it.
OnStep(t, c) ==
  /\ Calls(t, "on", c)
  /\ asked' = IF c.cb.call = "user" THEN asked \cup {c.cb} ELSE asked
  /\ Continue(t, IF Due(c.kind, c.f) THEN <<c.cb>> ELSE <<>>)
  /\ callbacks' = IF ~Due(c.kind, c.f) /\ state[c.f] = "PENDING"
                    THEN [callbacks EXCEPT ![c.f][c.kind] = Append(@, c.cb)]
                    ELSE callbacks
  /\ UNCHANGED <<dataVars, latch, timer, armed, ran>>

UserStep(t, c) ==
  /\ Calls(t, "user", c)
  /\ ran' = [ran EXCEPT ![c.u] = Append(@, Due(c.kind, c.f))]
  /\ Continue(t, <<>>)
  /\ UNCHANGED <<dataVars, callbacks, latch, timer, armed, asked>>

-----------------------------------------------------------------------------
(* Composition.                                                            *)

Returned(g, h) == IF h = None THEN ViaPromise(g, "READY") ELSE Associate(g, h)

\* internal::thenf and internal::then; the promise dies with the callback.
ThenStep(t, c) ==
  /\ Calls(t, "thenf", c)
  /\ Continue(t, (CASE state[c.f] = "READY" /\ discard[c.f] ->
                         <<ViaPromise(c.g, "DISCARDED")>>
                    [] state[c.f] = "READY" /\ ~discard[c.f] ->
                         <<User(c.u, c.f, "ready"), Returned(c.g, c.h)>>
                    [] state[c.f] \in {"FAILED", "DISCARDED"} ->
                         <<ViaPromise(c.g, state[c.f])>>)
                 \o <<DropPromise(c.g)>>)
  /\ UNCHANGED <<dataVars, callbacks, othersThan>>

RepairStep(t, c) ==
  /\ Calls(t, "repairf", c)
  /\ Continue(t, (IF state[c.f] = "FAILED"
                    THEN <<User(c.u, c.f, "failed"), Associate(c.g, c.h)>>
                    ELSE <<Associate(c.g, c.f)>>) \o <<DropPromise(c.g)>>)
  /\ UNCHANGED <<dataVars, callbacks, othersThan>>

\* MUTANT: the discard request is kept.
RecoverKeepsDiscard(t, c) ==
  /\ Calls(t, "recoverf", c)
  /\ Continue(t, IF c.when = "abandoned" \/ state[c.f] \in {"DISCARDED", "FAILED"}
                   THEN <<User(c.u, c.f, c.when), Returned(c.g, c.h)>>
                   ELSE <<Associate(c.g, c.f)>>)
  /\ UNCHANGED <<dataVars, callbacks, othersThan>>

\* The onAny and onAbandoned callbacks of recover: `discard' of the returned
\* future is reset, so that what the function returns is not discarded.
RecoverStep(t, c) ==
  LET failing == \/ c.when = "abandoned"
                 \/ state[c.f] \in {"DISCARDED", "FAILED"} IN
  /\ Calls(t, "recoverf", c)
  /\ discard' = IF failing THEN [discard EXCEPT ![c.g] = FALSE] ELSE discard
  /\ Continue(t, IF failing
                   THEN <<User(c.u, c.f, c.when), Returned(c.g, c.h)>>
                   ELSE <<Associate(c.g, c.f)>>)
  /\ UNCHANGED <<state, associated, abandoned, callbacks, othersThan>>

MirrorStep(t, c) ==
  /\ Calls(t, "mirrorf", c)
  /\ Continue(t, <<Associate(c.g, c.f), DropPromise(c.g)>>)
  /\ UNCHANGED <<dataVars, callbacks, othersThan>>

\* internal::select sets the promise to the first future that becomes ready.
SelectStep(t, c) ==
  /\ Calls(t, "selectf", c)
  /\ Continue(t, IF state[c.g] = "PENDING" /\ state[c.f] = "READY"
                   THEN <<ViaPromise(c.g, "READY")>> ELSE <<>>)
  /\ UNCHANGED <<dataVars, callbacks, othersThan>>

-----------------------------------------------------------------------------
(* Future::after.                                                          *)

\* Clock::timer returns after the timer is in the clock's list, so the clock
\* may run the thunk before the returned timer is stored.
StartTimerStep(t, c) ==
  /\ Calls(t, "start", c)
  /\ armed' = armed \cup {c.e}
  /\ Continue(t, <<>>)
  /\ UNCHANGED <<dataVars, callbacks, latch, timer, asked, ran>>

StoreTimerStep(t, c) ==
  /\ Calls(t, "store", c)
  /\ timer' = [timer EXCEPT ![c.g] = TRUE]
  /\ Continue(t, <<>>)
  /\ UNCHANGED <<dataVars, callbacks, latch, armed, asked, ran>>

TimerExpires(e) ==
  /\ todo[Clock] = <<>>
  /\ e \in armed
  /\ armed' = armed \ {e}
  /\ todo' = [todo EXCEPT ![Clock] = <<e>>]
  /\ UNCHANGED <<dataVars, callbacks, latch, timer, asked, ran>>

\* internal::expired and internal::after: whoever triggers the latch acts.
LatchStep(t, c) ==
  /\ Calls(t, "expired", c) \/ Calls(t, "afterf", c)
  /\ latch' = [latch EXCEPT ![c.g] = TRUE]
  /\ Continue(t, CASE latch[c.g] -> <<>>
                   [] ~latch[c.g] /\ c.call = "expired" ->
                        <<ClearTimer(c.g, FALSE), User(c.u, c.f, "after"),
                          Associate(c.g, c.h)>>
                   [] ~latch[c.g] /\ c.call = "afterf" ->
                        <<ClearTimer(c.g, TRUE), Associate(c.g, c.f)>>)
  /\ UNCHANGED <<dataVars, callbacks, timer, armed, asked, ran>>

\* *timer = None(), after CHECK_SOME and Clock::cancel in internal::after.
ClearTimerStep(t, c) ==
  /\ Calls(t, "untimer", c)
  /\ timer' = [timer EXCEPT ![c.g] = FALSE]
  /\ armed' = IF c.cancel THEN {e \in armed : e.g # c.g} ELSE armed
  /\ Continue(t, IF c.cancel /\ ~timer[c.g] THEN <<[call |-> "abort"]>> ELSE <<>>)
  /\ UNCHANGED <<dataVars, callbacks, latch, asked, ran>>

-----------------------------------------------------------------------------
(* Future::await.                                                          *)

AwaitStep(t, c) ==
  /\ Calls(t, "await", c)
  /\ \/ /\ state[c.f] = "PENDING"
        /\ callbacks' = [callbacks EXCEPT ![c.f]["any"] = Append(@, Trigger(c.f))]
        /\ Continue(t, <<Awaited(c.f)>>)
     \/ state[c.f] # "PENDING" /\ Continue(t, <<>>) /\ UNCHANGED callbacks
  /\ UNCHANGED <<dataVars, othersThan>>

TriggerStep(t, c) ==
  /\ Calls(t, "trigger", c)
  /\ latch' = [latch EXCEPT ![c.f] = TRUE]
  /\ Continue(t, <<>>)
  /\ UNCHANGED <<dataVars, callbacks, timer, armed, asked, ran>>

AwaitedStep(t, c) ==
  /\ Calls(t, "awaited", c) /\ latch[c.f]
  /\ Continue(t, <<>>)
  /\ UNCHANGED <<dataVars, callbacks, othersThan>>

-----------------------------------------------------------------------------
ThreadStep(t) ==
  /\ todo[t] # <<>>
  /\ LET c == Head(todo[t]) IN
       \/ CompleteStep(t, c) \/ ClearStep(t, c) \/ PromiseStep(t, c)
       \/ DiscardStep(t, c) \/ AbandonStep(t, c) \/ AssociateStep(t, c)
       \/ OnStep(t, c) \/ UserStep(t, c)
       \/ ThenStep(t, c) \/ RepairStep(t, c) \/ RecoverStep(t, c)
       \/ MirrorStep(t, c) \/ SelectStep(t, c)
       \/ StartTimerStep(t, c) \/ StoreTimerStep(t, c) \/ LatchStep(t, c)
       \/ ClearTimerStep(t, c)
       \/ AwaitStep(t, c) \/ TriggerStep(t, c) \/ AwaitedStep(t, c)

Next ==
  /\ \/ \E t \in Threads : ThreadStep(t)
     \/ \E e \in armed : TimerExpires(e)
  /\ UNCHANGED program

Spec == Init /\ [][Next]_vars
FairSpec == Spec /\ \A t \in Threads : WF_vars(ThreadStep(t) /\ UNCHANGED program)

-----------------------------------------------------------------------------
(***************************************************************************)
(* Programs that the proofs are about: any calls a client of the library   *)
(* can make, on any futures, but those of recover; a callback or function  *)
(* of the user is given to one of them only.                               *)
(***************************************************************************)

\* What can be kept in a callback vector, and the thunk of a timer.
Callback ==
  [call : {"complete", "promise"}, f : Futures, to : State \ {"PENDING"}]
    \cup [call : {"discard", "trigger"}, f : Futures]
    \cup [call : {"abandon"}, f : Futures, propagating : BOOLEAN]
    \cup [call : {"user"}, f : Futures, u : Users, kind : Kinds \cup {"after"}]
    \cup [call : {"thenf"}, f : Futures, g : Futures, u : Users,
          h : Futures \cup {None}]
    \cup [call : {"repairf"}, f : Futures, g : Futures, u : Users, h : Futures]
    \cup [call : {"afterf", "mirrorf", "selectf"}, f : Futures, g : Futures]
Expiry ==
  [call : {"expired"}, f : Futures, g : Futures, u : Users, h : Futures]

\* A callback of the user is registered as what it is recorded to be, and
\* internal::thenf for any completion of the future it is given.
Matches(cb, f, kind) ==
  /\ cb.call = "user" => cb.f = f /\ cb.kind = kind
  /\ cb.call = "thenf" => cb.f = f /\ kind = "any"
Registration ==
  {c \in [call : {"on"}, f : Futures, kind : Kinds, cb : Callback] :
     Matches(c.cb, c.f, c.kind)}

\* Calls a program is made of, and those a thread can have to do.
Request ==
  Registration
    \cup [call : {"complete", "promise"}, f : Futures, to : State \ {"PENDING"}]
    \cup [call : {"discard", "await"}, f : Futures]
    \cup [call : {"abandon"}, f : Futures, propagating : BOOLEAN]
    \cup [call : {"associate"}, f : Futures, g : Futures]
    \cup [call : {"start"}, e : Expiry] \cup [call : {"store"}, g : Futures]
Call ==
  Request \cup Callback \cup Expiry
    \cup [call : {"clear", "awaited"}, f : Futures]
    \cup [call : {"untimer"}, g : Futures, cancel : BOOLEAN]
    \cup [call : {"abort"}]

\* The call c will hand on, register or run the callback or function u.
Holder == {"user", "thenf", "repairf", "expired"}
Carries(c, u) ==
  \/ c.call \in Holder /\ c.u = u
  \/ c.call = "on" /\ c.cb.call \in Holder /\ c.cb.u = u
  \/ c.call = "start" /\ c.e.u = u

WellFormed(s) ==
  /\ s.calls \in [Threads -> Seq(Request)]
  /\ \A u \in Users, t1, t2 \in Threads :
       \A i \in 1..Len(s.calls[t1]), j \in 1..Len(s.calls[t2]) :
         Carries(s.calls[t1][i], u) /\ Carries(s.calls[t2][j], u) =>
           t1 = t2 /\ i = j

-----------------------------------------------------------------------------
(* Properties.                                                             *)

\* Every variable keeps its type; only calls that a callback can be are kept.
TypeOK ==
  /\ state \in [Futures -> State]
  /\ \A v \in {discard, associated, abandoned, latch, timer} :
       v \in [Futures -> BOOLEAN]
  /\ \A f \in Futures, k \in Kinds : \A i \in 1..Len(callbacks[f][k]) :
       callbacks[f][k][i].call \in
         {"promise", "complete", "discard", "abandon", "user", "trigger",
          "thenf", "repairf", "recoverf", "mirrorf", "selectf", "afterf"}
  /\ \A e \in armed : e.call = "expired"
  /\ \A u \in Users : ran[u] \in Seq(BOOLEAN)

\* No thread has anything left to do.
Quiet == \A t \in Threads : todo[t] = <<>>

(***************************************************************************)
(* A callback or a function of the user is called at most once, and only   *)
(* in the state it was registered for (onReady when READY, onDiscard when  *)
(* a discard was requested, and so on), however completion, discard,       *)
(* abandonment and registration interleave.  When every thread is done, a  *)
(* registered callback was called if and only if what it waits for has     *)
(* happened: none is lost between the critical section of its registration *)
(* and that of the completion.                                             *)
(***************************************************************************)
CallbacksOnce ==
  /\ TypeOK
  /\ \A u \in Users : Len(ran[u]) <= 1 /\ \A i \in 1..Len(ran[u]) : ran[u][i]
  /\ Quiet => \A c \in asked : (Len(ran[c.u]) > 0) = Due(c.kind, c.f)

\* A thread in await goes on once the future has completed.
Waiting(t, f) ==
  todo[t] # <<>> /\ Head(todo[t]) = Awaited(f) /\ state[f] # "PENDING"
AwaitReturns == (\E t \in Threads, f \in Futures : Waiting(t, f)) ~> Quiet

\* The CHECK of internal::after that the timer is still there holds.
NoAbort == \A t \in Threads : \A i \in 1..Len(todo[t]) : todo[t][i].call # "abort"

(***************************************************************************)
(* g follows f (Promise::associate): once all is quiet g is in the state   *)
(* of f, whether f completed before, during or after the association.      *)
(***************************************************************************)
Follows(g, f) == Quiet => state[g] = state[f]

\* A discard request on g has reached f, unless f completed.
DiscardReaches(g, f) ==
  Quiet /\ discard[g] /\ state[f] = "PENDING" => discard[f]

\* An abandoned f leaves g abandoned.
AbandonReaches(g, f) ==
  Quiet /\ abandoned[f] /\ state[g] = "PENDING" => abandoned[g]

(***************************************************************************)
(* g is f.then(u), h what u returns: g is READY only through u, a discard  *)
(* of f keeps u from being called even if f becomes READY, and failures    *)
(* and discards of f are passed on.                                        *)
(***************************************************************************)
ThenResult(f, g, u, h) ==
  Quiet =>
    /\ state[g] = CASE state[f] = "READY" /\ discard[f] -> "DISCARDED"
                    [] state[f] = "READY" /\ ~discard[f] ->
                         IF h = None THEN "READY" ELSE state[h]
                    [] OTHER -> state[f]
    /\ (Len(ran[u]) = 1) = (state[f] = "READY" /\ ~discard[f])

\* g is f.repair(u): u is called exactly when f fails, else g follows f.
RepairResult(f, g, u, h) ==
  Quiet => /\ state[g] = IF state[f] = "FAILED" THEN state[h] ELSE state[f]
           /\ (Len(ran[u]) = 1) = (state[f] = "FAILED")

\* g is f.recover(u): u is called exactly once when f fails, is discarded or is
\* abandoned, else g follows f.
RecoverResult(f, g, u, h) ==
  LET failing == abandoned[f] \/ state[f] \in {"FAILED", "DISCARDED"} IN
  Quiet => /\ state[g] = IF failing THEN state[h] ELSE state[f]
           /\ Len(ran[u]) = IF failing THEN 1 ELSE 0

(***************************************************************************)
(* g is f.after(u): the latch lets either the timer or the completion of f *)
(* decide, so g follows what u returns if u was called and f otherwise,    *)
(* and a cancelled or expired timer is not left in the clock.              *)
(***************************************************************************)
AfterResult(f, g, u, h) ==
  Quiet /\ armed = {} =>
    state[g] = IF Len(ran[u]) = 1 THEN state[h] ELSE state[f]

\* g is select({f, f2}): READY exactly when one of them is, unless discarded.
SelectResult(fs, g) ==
  Quiet /\ state[g] # "DISCARDED" =>
    (state[g] = "READY") = (\E f \in fs : state[f] = "READY")

(***************************************************************************)
(* Future::after: the timer, which refers to the future, is deallocated    *)
(* once the timer has expired or was cancelled.                            *)
(***************************************************************************)
TimerReleased == Quiet => \A g \in Futures : latch[g] => ~timer[g]

-----------------------------------------------------------------------------
(***************************************************************************)
(* Small instances: the programs of four threads p, q, r and d.            *)
(***************************************************************************)
MCThreads == {"p", "q", "r", "d"}
MCUsers == {"u1", "u2", "u3", "u4", "u5", "u6"}
MCFutures == {"f", "g", "h", "k"}

\* What the owner of the promise of x may do with it.
Fates(x) ==
  {<<ViaPromise(x, to), DropPromise(x)>> : to \in State \ {"PENDING"}}
    \cup {<<DropPromise(x)>>}

Runs(name, P, Q, R, D) ==
  {[name |-> name,
    calls |-> ("p" :> w) @@ ("q" :> x) @@ ("r" :> y) @@ ("d" :> z)] :
     w \in P, x \in Q, y \in R, z \in D}

\* One future: every kind of callback, registered by two threads while the
\* owner completes or drops the promise and a third thread discards.
CallbackPrograms ==
  Runs("callbacks", 
    {<<On("discard", "f", ViaPromise("f", "DISCARDED"))>> \o s : s \in Fates("f")}
      \cup Fates("f"),
    {<<On("ready", "f", User("u1", "f", "ready")),
       On("any", "f", User("u2", "f", "any")),
       On("abandoned", "f", User("u3", "f", "abandoned"))>>},
    {<<On("failed", "f", User("u4", "f", "failed")),
       On("discarded", "f", User("u5", "f", "discarded")),
       On("discard", "f", User("u6", "f", "discard")), AwaitLatch("f")>>},
    {<<Discard("f")>>})

\* g = f.then(u1) where u1 returns h, owned by another thread; k = g.then(u2).
ChainPrograms ==
  Runs("chain", Fates("f"),
       {Then("f", "g", "u1", "h") \o Then("g", "k", "u2", None)},
       Fates("h"), {<<Discard("k")>>})
\* Both futures of the chain have the result that then promises.
ChainHolds ==
  program = "chain" =>
    ThenResult("f", "g", "u1", "h") /\ ThenResult("g", "k", "u2", None)
\* A discard of the end of the chain reaches whatever the chain waits for.
ChainDiscardReaches ==
  program = "chain" =>
    /\ DiscardReaches("k", "g") /\ DiscardReaches("g", "f")
    /\ associated["g"] => DiscardReaches("g", "h")
\* Abandoning f, or h while g waits for it, abandons the rest of the chain.
ChainAbandonReaches ==
  program = "chain" =>
    /\ AbandonReaches("g", "f") /\ AbandonReaches("k", "g")
    /\ associated["g"] => AbandonReaches("g", "h")

\* h = undiscardable(f), k = f.recover(u2) where u2 returns g; h and k are
\* discarded.
RecoverPrograms ==
  Runs("recover", Fates("f"), {Recover("f", "k", "u2", "g")}, Fates("g"),
       {<<Discard("k")>>})
    \cup Runs("mirror", Fates("f"), {Undiscardable("f", "h")}, {<<>>},
              {<<Discard("h")>>})
\* k has the result that recover promises.
RecoverHolds == program = "recover" => RecoverResult("f", "k", "u2", "g")
\* A discard requested before f failed is not held against what u2 returns.
RecoveryNotDiscarded ==
  [](program = "recover" /\ discard["k"] /\ state["f"] = "PENDING"
       /\ ~abandoned["f"] => []~discard["g"])
\* undiscardable(f) completes like f, and discarding it leaves f alone.
UndiscardableHolds ==
  program = "mirror" => ~discard["f"] /\ (Quiet => state["h"] = state["f"])

\* g = f.after(u1), u1 returns h; r runs the clock.
AfterPrograms ==
  Runs("after", Fates("f"), {After("f", "g", "u1", "h") \o <<Discard("g")>>},
       {<<>>}, Fates("h"))
\* g has the result that after promises.
AfterHolds == program = "after" => AfterResult("f", "g", "u1", "h")

\* g = select({f, h}), discarded by d; k = f.repair(u1), u1 returns h.
SelectPrograms ==
  Runs("select", Fates("f"),
       {Select(<<"f", "h">>, "g") \o Repair("f", "k", "u1", "h")},
       Fates("h"), {<<Discard("g")>>})
\* g has the result that select promises.
SelectHolds == program = "select" => SelectResult({"f", "h"}, "g")
\* k has the result that repair promises.
RepairHolds == program = "select" => RepairResult("f", "k", "u1", "h")

(***************************************************************************)
(* Every combinator gives its future the result it promises, whoever is    *)
(* faster, and the CHECK of after holds.                                   *)
(***************************************************************************)
CombinatorsHold ==
  /\ ChainHolds /\ RecoverHolds /\ UndiscardableHolds
  /\ AfterHolds /\ SelectHolds /\ RepairHolds /\ NoAbort

(***************************************************************************)
(* Along a chain of thens, discards travel to the future that is waited    *)
(* for, and abandonment to the end of the chain.                           *)
(***************************************************************************)
RequestsReach == ChainDiscardReaches /\ ChainAbandonReaches

AllPrograms ==
  CallbackPrograms \cup ChainPrograms \cup RecoverPrograms \cup AfterPrograms
    \cup SelectPrograms

\* All but the programs with a recover are well formed.
ASSUME InstancesWellFormed ==
  Futures = MCFutures /\ Threads = MCThreads /\ Users = MCUsers =>
    \A s \in AllPrograms : s.name = "recover" \/ WellFormed(s)
=============================================================================

---------------------------- MODULE FutureProofs ----------------------------
(***************************************************************************)
(* Callbacks are called at most once, in time, and are not lost (see       *)
(* CallbacksOnce in module Future), for any futures, threads and programs  *)
(* that hand each callback to one call and do not use recover.             *)
(*                                                                         *)
(* The inductive invariant follows each callback or function u of the      *)
(* user.  It has one home (OneHome): a call that a thread has still to     *)
(* make, a vector of a pending future, a timer of the clock, or it was     *)
(* called.  The vectors of a completed future are not a home: the thread   *)
(* that completed it has taken their callbacks and will clear them.  And   *)
(* each registered callback is accounted for (Tracked).                    *)
(*                                                                         *)
(* A step of a thread replaces the top of its stack, so calls are counted  *)
(* from the bottom: those below the top keep their height.                 *)
(***************************************************************************)
EXTENDS Future, TLAPS

-----------------------------------------------------------------------------
(* The inductive invariant.                                                *)

\* The call at height d of the stack of t, counted from its bottom, holds u.
InTodo(u, t, d) ==
  /\ d \in Nat /\ d < Len(todo[t])
  /\ Carries(todo[t][Len(todo[t]) - d], u)
\* The i-th callback of kind k kept by the pending future f holds u.
InKept(u, f, k, i) ==
  /\ state[f] = "PENDING" /\ i \in 1..Len(callbacks[f][k])
  /\ Carries(callbacks[f][k][i], u)

\* Nothing holds u, and u was not called.
Nowhere(u) ==
  /\ \A t \in Threads, d \in Nat : ~InTodo(u, t, d)
  /\ \A f \in Futures, k \in Kinds, i \in Nat : ~InKept(u, f, k, i)
  /\ \A e \in armed : e.u # u
  /\ ran[u] = <<>>

\* u is in one place: one call of a stack, one kept callback, one armed timer,
\* or among what was called, and there once.
OneHome(u) ==
  /\ \A t1 \in Threads, d1 \in Nat : InTodo(u, t1, d1) =>
       \A t2 \in Threads, d2 \in Nat : InTodo(u, t2, d2) => t1 = t2 /\ d1 = d2
  /\ \A f1 \in Futures, k1 \in Kinds, i1 \in Nat : InKept(u, f1, k1, i1) =>
       \A f2 \in Futures, k2 \in Kinds, i2 \in Nat : InKept(u, f2, k2, i2) =>
         f1 = f2 /\ k1 = k2 /\ i1 = i2
  /\ \A e1, e2 \in armed : e1.u = u /\ e2.u = u => e1 = e2
  /\ \A t \in Threads, d \in Nat : InTodo(u, t, d) =>
       /\ \A f \in Futures, k \in Kinds, i \in Nat : ~InKept(u, f, k, i)
       /\ \A e \in armed : e.u # u
       /\ ran[u] = <<>>
  /\ \A f \in Futures, k \in Kinds, i \in Nat : InKept(u, f, k, i) =>
       (\A e \in armed : e.u # u) /\ ran[u] = <<>>
  /\ \A e \in armed : e.u = u => ran[u] = <<>>
  /\ Len(ran[u]) <= 1

\* The types of the variables, with the calls they are made of.
Types ==
  /\ state \in [Futures -> State]
  /\ discard \in [Futures -> BOOLEAN] /\ associated \in [Futures -> BOOLEAN]
  /\ abandoned \in [Futures -> BOOLEAN]
  /\ latch \in [Futures -> BOOLEAN] /\ timer \in [Futures -> BOOLEAN]
  /\ callbacks \in [Futures -> [Kinds -> Seq(Callback)]]
  /\ armed \subseteq Expiry
  /\ todo \in [Threads -> Seq(Call)]
  /\ asked \subseteq {c \in Callback : c.call = "user" /\ c.kind \in Kinds}
  /\ ran \in [Users -> Seq(BOOLEAN)]

\* Calls whose time has come: a user callback is due, and the vectors of a
\* future are cleared, and internal::thenf runs, once it has completed.
Timely ==
  {c \in Call : /\ c.call = "user" => Due(c.kind, c.f)
                /\ c.call \in {"clear", "thenf"} => state[c.f] # "PENDING"}
\* Whatever a thread has to do is timely.
TodoOK == \A t \in Threads : \A i \in 1..Len(todo[t]) : todo[t][i] \in Timely
\* Callbacks are kept for what they wait for.
KeptOK ==
  \A f \in Futures, k \in Kinds : \A i \in 1..Len(callbacks[f][k]) :
    Matches(callbacks[f][k][i], f, k)
\* User callbacks were called when due.
RanOK == \A u \in Users : \A i \in 1..Len(ran[u]) : ran[u][i]

\* Where a registered user callback c can be: in a stack, ...
ToRun(c) == \E t \in Threads : \E i \in 1..Len(todo[t]) : todo[t][i] = c
\* ... kept by the pending future it waits for, ...
ToKeep(c) ==
  /\ state[c.f] = "PENDING" /\ ~Due(c.kind, c.f)
  /\ \E i \in 1..Len(callbacks[c.f][c.kind]) : callbacks[c.f][c.kind][i] = c
\* ... gone, because its future completed in another way, ...
Dropped(c) == state[c.f] # "PENDING" /\ ~Due(c.kind, c.f) /\ Nowhere(c.u)
\* ... or called.
Answered(c) == Due(c.kind, c.f) /\ ran[c.u] # <<>>
\* A registered callback is never lost.
Tracked(c) == ToRun(c) \/ ToKeep(c) \/ Dropped(c) \/ Answered(c)
\* This holds of all of them.
AskedOK == \A c \in asked : Tracked(c)

\* The inductive invariant.
IInv ==
  /\ Types /\ TodoOK /\ KeptOK /\ RanOK /\ AskedOK
  /\ \A u \in Users : OneHome(u)
-----------------------------------------------------------------------------
(* Calls.                                                                  *)

\* Calls that have a future f.
WithFuture ==
  {"complete", "promise", "clear", "discard", "abandon", "associate", "on",
   "user", "await", "awaited", "trigger", "thenf", "repairf", "expired",
   "afterf", "mirrorf", "selectf"}
\* Calls that have a future g.
WithTarget ==
  {"associate", "thenf", "repairf", "expired", "afterf", "mirrorf", "selectf",
   "store", "untimer"}

\* The fields of the calls of a thread.
LEMMA CallFields ==
  \A c \in Call :
    /\ c.call \in WithFuture => c.f \in Futures
    /\ c.call \in WithTarget => c.g \in Futures
    /\ c.call \in Holder => c.u \in Users
    /\ c.call \in {"complete", "promise"} => c.to \in State \ {"PENDING"}
    /\ c.call = "thenf" => c.h \in Futures \cup {None}
    /\ c.call \in {"repairf", "expired"} => c.h \in Futures
    /\ c.call # "recoverf"
<1> SUFFICES ASSUME NEW c \in Call
             PROVE  /\ c.call \in WithFuture => c.f \in Futures
                    /\ c.call \in WithTarget => c.g \in Futures
                    /\ c.call \in Holder => c.u \in Users
                    /\ c.call \in {"complete", "promise"} =>
                         c.to \in State \ {"PENDING"}
                    /\ c.call = "thenf" => c.h \in Futures \cup {None}
                    /\ c.call \in {"repairf", "expired"} => c.h \in Futures
                    /\ c.call # "recoverf"
  OBVIOUS
<1> QED
  BY DEF Call, Request, Registration, Callback, Expiry, WithFuture, WithTarget,
         Holder

\* What user callbacks, registrations and timer starts are made of.
LEMMA CallParts ==
  \A c \in Call :
    /\ c.call = "user" => c \in Callback /\ c.kind \in Kinds \cup {"after"}
    /\ c.call = "on" => /\ c.kind \in Kinds /\ c.cb \in Callback
                        /\ Matches(c.cb, c.f, c.kind)
    /\ c.call = "start" => c.e \in Expiry
<1> SUFFICES ASSUME NEW c \in Call
             PROVE  /\ c.call = "user" =>
                         c \in Callback /\ c.kind \in Kinds \cup {"after"}
                    /\ c.call = "on" =>
                         /\ c.kind \in Kinds /\ c.cb \in Callback
                         /\ Matches(c.cb, c.f, c.kind)
                    /\ c.call = "start" => c.e \in Expiry
  OBVIOUS
<1> QED
  BY DEF Call, Request, Registration, Callback, Expiry

\* Callbacks are calls that are neither registrations nor timers.
LEMMA CallbackParts ==
  \A c \in Callback : c \in Call /\ c.call \notin {"on", "start", "expired", "clear"}
<1> SUFFICES ASSUME NEW c \in Callback
             PROVE  c \in Call /\ c.call \notin {"on", "start", "expired", "clear"}
  OBVIOUS
<1> QED
  BY DEF Call, Callback

\* The thunk of a timer is a call.
LEMMA ExpiryParts ==
  \A e \in Expiry : e \in Call /\ e.call = "expired" /\ e.u \in Users
BY DEF Call, Expiry

\* A callback is about a future, and holds a user callback or nothing.
LEMMA CallbackFacts ==
  \A c \in Callback : /\ c.call \in WithFuture /\ c.f \in Futures
                      /\ c.call \in Holder => c.u \in Users
BY DEF Callback, WithFuture, Holder

\* The calls the library makes that hold nothing of the user.
Plain(c) ==
  /\ c \in Call /\ c.call \notin {"user", "clear", "thenf"}
  /\ \A u : ~Carries(c, u)

\* Completions, requests and latches hold nothing of the user.
LEMMA PlainCalls ==
  ASSUME NEW f \in Futures, NEW g \in Futures
  PROVE  /\ Plain(Discard(f)) /\ Plain(Associate(f, g)) /\ Plain(Trigger(f))
         /\ Plain(Awaited(f)) /\ Plain(DropPromise(f)) /\ Plain([call |-> "abort"])
         /\ \A b \in BOOLEAN : Plain(Abandon(f, b)) /\ Plain(ClearTimer(f, b))
         /\ \A to \in State \ {"PENDING"} :
              Plain(Complete(f, to)) /\ Plain(ViaPromise(f, to))
<1>1. Plain(Discard(f)) /\ Plain(Associate(f, g)) /\ Plain(Trigger(f))
  BY DEF Plain, Discard, Associate, Trigger, Call, Request, Callback, Carries, Holder
<1>2. Plain(Awaited(f)) /\ Plain([call |-> "abort"])
  BY DEF Plain, Awaited, Call, Request, Callback, Carries, Holder
<1>3. ASSUME NEW b \in BOOLEAN
      PROVE  Plain(Abandon(f, b)) /\ Plain(ClearTimer(f, b))
  BY DEF Plain, Abandon, ClearTimer, Call, Request, Callback, Carries, Holder
<1>4. ASSUME NEW to \in State \ {"PENDING"}
      PROVE  Plain(Complete(f, to)) /\ Plain(ViaPromise(f, to))
  BY DEF Plain, Complete, ViaPromise, Call, Request, Callback, Carries, Holder
<1> QED
  BY <1>1, <1>2, <1>3, <1>4, Zenon DEF DropPromise

\* Nor do the registrations that Promise::associate makes.
LEMMA PlainOn ==
  ASSUME NEW f \in Futures, NEW g \in Futures
  PROVE  /\ Plain(On("discard", f, Discard(g)))
         /\ Plain(On("ready", g, Complete(f, "READY")))
         /\ Plain(On("failed", g, Complete(f, "FAILED")))
         /\ Plain(On("discarded", g, Complete(f, "DISCARDED")))
         /\ Plain(On("abandoned", g, Abandon(f, TRUE)))
<1>1. /\ Discard(g) \in Callback /\ Abandon(f, TRUE) \in Callback
      /\ Discard(g).call = "discard" /\ Abandon(f, TRUE).call = "abandon"
  BY DEF Discard, Abandon, Callback
<1>2. ASSUME NEW to \in State \ {"PENDING"}
      PROVE  Complete(f, to) \in Callback /\ Complete(f, to).call = "complete"
  BY DEF Complete, Callback
<1>3. ASSUME NEW k \in Kinds, NEW x \in Futures, NEW cb \in Callback,
             cb.call \in {"discard", "abandon", "complete"}
      PROVE  Plain(On(k, x, cb))
  BY <1>3 DEF Plain, On, Call, Request, Registration, Matches, Carries, Holder
<1> QED
  BY <1>1, <1>2, <1>3 DEF Kinds, State

-----------------------------------------------------------------------------
(* Stacks.                                                                 *)

\* What a stack holds after its top was replaced by n.
LEMMA Replaced ==
  ASSUME NEW s \in Seq(Call), NEW n \in Seq(Call), s # <<>>
  PROVE  /\ n \o Tail(s) \in Seq(Call)
         /\ Len(n \o Tail(s)) = Len(n) + Len(s) - 1
         /\ Len(s) \in Nat \ {0} /\ Len(n) \in Nat
         /\ Head(s) = s[1]
         /\ \A i \in 1..Len(n) : (n \o Tail(s))[i] = n[i]
         /\ \A i \in 2..Len(s) : (n \o Tail(s))[Len(n) + i - 1] = s[i]
OBVIOUS

\* A position in a concatenation is in one of its parts.
LEMMA Below ==
  ASSUME NEW l \in Nat \ {0}, NEW n \in Nat, NEW i \in 1..(n + l - 1)
  PROVE  i \in 1..n \/ \E j \in 2..l : i = n + j - 1
<1>1. CASE i \in 1..n
  BY <1>1
<1>2. CASE i \notin 1..n
  <2>1. i - n + 1 \in 2..l /\ i = n + (i - n + 1) - 1
    BY <1>2
  <2> QED
    BY <2>1
<1> QED
  BY <1>1, <1>2

\* The stacks after thread t has replaced its first call by the calls n.
LEMMA TodoAfter ==
  ASSUME NEW t \in Threads, NEW n \in Seq(Call),
         todo \in [Threads -> Seq(Call)], todo[t] # <<>>, Continue(t, n)
  PROVE  /\ todo' \in [Threads -> Seq(Call)]
         /\ \A s \in Threads : s # t => todo'[s] = todo[s]
         /\ Len(todo[t]) \in Nat \ {0} /\ Len(n) \in Nat
         /\ Len(todo'[t]) = Len(n) + Len(todo[t]) - 1
         /\ Head(todo[t]) = todo[t][1]
         /\ \A i \in 1..Len(n) : todo'[t][i] = n[i]
         /\ \A i \in 2..Len(todo[t]) : todo'[t][Len(n) + i - 1] = todo[t][i]
         /\ \A i \in 1..Len(todo'[t]) :
              i \in 1..Len(n) \/ \E j \in 2..Len(todo[t]) : i = Len(n) + j - 1
<1>1. /\ todo' = [todo EXCEPT ![t] = n \o Tail(todo[t])]
      /\ todo[t] \in Seq(Call)
  BY Zenon DEF Continue
<1>2. /\ n \o Tail(todo[t]) \in Seq(Call)
      /\ Len(n \o Tail(todo[t])) = Len(n) + Len(todo[t]) - 1
      /\ Len(todo[t]) \in Nat \ {0} /\ Len(n) \in Nat
      /\ Head(todo[t]) = todo[t][1]
      /\ \A i \in 1..Len(n) : (n \o Tail(todo[t]))[i] = n[i]
      /\ \A i \in 2..Len(todo[t]) :
           (n \o Tail(todo[t]))[Len(n) + i - 1] = todo[t][i]
  BY <1>1, Replaced, Zenon
<1>3. /\ todo' \in [Threads -> Seq(Call)]
      /\ todo'[t] = n \o Tail(todo[t])
      /\ \A s \in Threads : s # t => todo'[s] = todo[s]
  BY <1>1, <1>2, Zenon
<1>4. \A i \in 1..Len(todo'[t]) :
        i \in 1..Len(n) \/ \E j \in 2..Len(todo[t]) : i = Len(n) + j - 1
  <2> SUFFICES ASSUME NEW i \in 1..Len(todo'[t])
               PROVE  \/ i \in 1..Len(n)
                      \/ \E j \in 2..Len(todo[t]) : i = Len(n) + j - 1
    OBVIOUS
  <2>1. i \in 1..(Len(n) + Len(todo[t]) - 1)
    BY <1>2, <1>3, Zenon
  <2> QED
    BY <1>2, <2>1, Below, Zenon
<1> QED
  BY <1>2, <1>3, <1>4, Zenon

-----------------------------------------------------------------------------
(* Homes.                                                                  *)

\* Nothing of u is in a place it was not in before.
Unmoved(u) ==
  /\ \A t \in Threads, d \in Nat : InTodo(u, t, d)' => InTodo(u, t, d)
  /\ \A f \in Futures, k \in Kinds, i \in Nat :
       InKept(u, f, k, i)' => InKept(u, f, k, i)
  /\ \A e \in armed' : e.u = u => e \in armed
  /\ ran'[u] = ran[u]

\* What is not moved has one home as before.
LEMMA UnmovedHome ==
  ASSUME NEW u, Unmoved(u)
  PROVE  (OneHome(u) => OneHome(u)') /\ (Nowhere(u) => Nowhere(u)')
<1>1. Nowhere(u) => Nowhere(u)'
  BY Zenon DEF Unmoved, Nowhere
<1>2. ASSUME OneHome(u) PROVE OneHome(u)'
  <2>1. \A t1 \in Threads, d1 \in Nat : InTodo(u, t1, d1)' =>
          \A t2 \in Threads, d2 \in Nat : InTodo(u, t2, d2)' =>
            t1 = t2 /\ d1 = d2
    BY <1>2, Zenon DEF Unmoved, OneHome
  <2>2. \A f1 \in Futures, k1 \in Kinds, i1 \in Nat : InKept(u, f1, k1, i1)' =>
          \A f2 \in Futures, k2 \in Kinds, i2 \in Nat : InKept(u, f2, k2, i2)' =>
            f1 = f2 /\ k1 = k2 /\ i1 = i2
    <3> SUFFICES ASSUME NEW f1 \in Futures, NEW k1 \in Kinds, NEW i1 \in Nat,
                        InKept(u, f1, k1, i1)',
                        NEW f2 \in Futures, NEW k2 \in Kinds, NEW i2 \in Nat,
                        InKept(u, f2, k2, i2)'
                 PROVE  f1 = f2 /\ k1 = k2 /\ i1 = i2
      OBVIOUS
    <3>1. InKept(u, f1, k1, i1) /\ InKept(u, f2, k2, i2)
      BY Zenon DEF Unmoved
    <3> QED
      BY <1>2, <3>1, Zenon DEF OneHome
  <2>3. \A e1, e2 \in armed' : e1.u = u /\ e2.u = u => e1 = e2
    BY <1>2, Zenon DEF Unmoved, OneHome
  <2>4. \A t \in Threads, d \in Nat : InTodo(u, t, d)' =>
          /\ \A f \in Futures, k \in Kinds, i \in Nat : ~InKept(u, f, k, i)'
          /\ \A e \in armed' : e.u # u
          /\ ran'[u] = <<>>
    <3> SUFFICES ASSUME NEW t \in Threads, NEW d \in Nat, InTodo(u, t, d)'
                 PROVE  /\ \A f \in Futures, k \in Kinds, i \in Nat :
                             ~InKept(u, f, k, i)'
                        /\ \A e \in armed' : e.u # u
                        /\ ran'[u] = <<>>
      BY Zenon
    <3>1. InTodo(u, t, d)
      BY Zenon DEF Unmoved
    <3>2. /\ \A f \in Futures, k \in Kinds, i \in Nat : ~InKept(u, f, k, i)
          /\ \A e \in armed : e.u # u
          /\ ran[u] = <<>>
      BY <1>2, <3>1, Zenon DEF OneHome
    <3> QED
      BY <3>2, Zenon DEF Unmoved
  <2>5. \A f \in Futures, k \in Kinds, i \in Nat : InKept(u, f, k, i)' =>
          (\A e \in armed' : e.u # u) /\ ran'[u] = <<>>
    BY <1>2, Zenon DEF Unmoved, OneHome
  <2>6. (\A e \in armed' : e.u = u => ran'[u] = <<>>) /\ Len(ran'[u]) <= 1
    BY <1>2, Zenon DEF Unmoved, OneHome
  <2> QED
    BY <2>1, <2>2, <2>3, <2>4, <2>5, <2>6, Zenon DEF OneHome
<1> QED
  BY <1>1, <1>2

\* A call of u in a stack after a step was there before, at the same height,
\* or is one of the new calls.
NewHeights(u, t, n) ==
  \A s \in Threads, d \in Nat : InTodo(u, s, d)' =>
    \/ InTodo(u, s, d) /\ (s = t => d < Len(todo[t]) - 1)
    \/ /\ s = t
       /\ \E j \in 1..Len(n) : Carries(n[j], u) /\ d = Len(todo'[t]) - j

\* The calls that stay keep their heights.
LEMMA Heights ==
  ASSUME NEW t \in Threads, NEW n \in Seq(Call),
         todo \in [Threads -> Seq(Call)], todo[t] # <<>>, Continue(t, n),
         NEW u
  PROVE  NewHeights(u, t, n)
<1> SUFFICES ASSUME NEW s \in Threads, NEW d \in Nat, InTodo(u, s, d)'
             PROVE  \/ InTodo(u, s, d) /\ (s = t => d < Len(todo[t]) - 1)
                    \/ /\ s = t
                       /\ \E j \in 1..Len(n) :
                            Carries(n[j], u) /\ d = Len(todo'[t]) - j
  BY Zenon DEF NewHeights
<1>1. CASE s # t
  BY <1>1, TodoAfter, Zenon DEF InTodo
<1>2. CASE s = t
  <2> DEFINE i == Len(todo'[t]) - d
  <2>0. /\ Len(todo[t]) \in Nat \ {0} /\ Len(n) \in Nat
        /\ Len(todo'[t]) = Len(n) + Len(todo[t]) - 1
        /\ \A j \in 1..Len(n) : todo'[t][j] = n[j]
        /\ \A j \in 2..Len(todo[t]) : todo'[t][Len(n) + j - 1] = todo[t][j]
        /\ \A j \in 1..Len(todo'[t]) :
             j \in 1..Len(n) \/ \E k \in 2..Len(todo[t]) : j = Len(n) + k - 1
    BY TodoAfter, Zenon
  <2>1. d < Len(todo'[t]) /\ Carries(todo'[t][i], u)
    BY <1>2, Zenon DEF InTodo
  <2>2. i \in 1..Len(todo'[t]) /\ d = Len(todo'[t]) - i
    BY <2>0, <2>1
  <2> HIDE DEF i
  <2>3. CASE i \in 1..Len(n)
    BY <1>2, <2>0, <2>1, <2>2, <2>3, Zenon
  <2>4. CASE i \notin 1..Len(n)
    <3>1. PICK k \in 2..Len(todo[t]) : i = Len(n) + k - 1
      BY <2>0, <2>2, <2>4, Zenon
    <3>2. Carries(todo[t][k], u)
      BY <2>0, <2>1, <3>1, Zenon
    <3>3. k = Len(todo[t]) - d /\ d < Len(todo[t]) /\ d < Len(todo[t]) - 1
      BY <2>0, <2>2, <3>1
    <3> QED
      BY <1>2, <3>2, <3>3, Zenon DEF InTodo
  <2> QED
    BY <2>3, <2>4
<1> QED
  BY <1>1, <1>2

\* The first call of a stack is at its top.
LEMMA TopHeight ==
  ASSUME NEW t \in Threads, todo \in [Threads -> Seq(Call)], todo[t] # <<>>,
         NEW u, Carries(Head(todo[t]), u)
  PROVE  Len(todo[t]) - 1 \in Nat /\ InTodo(u, t, Len(todo[t]) - 1)
<1>1. /\ Len(todo[t]) \in Nat \ {0} /\ Head(todo[t]) = todo[t][1]
  OBVIOUS
<1>2. /\ Len(todo[t]) - 1 \in Nat /\ Len(todo[t]) - 1 < Len(todo[t])
      /\ Len(todo[t]) - (Len(todo[t]) - 1) = 1
  BY <1>1
<1> QED
  BY <1>1, <1>2, Zenon DEF InTodo

\* The calls n hold nothing of the user but what the call c held, once.
HandsOn(c, n) ==
  \A u \in Users :
    /\ \A j \in 1..Len(n) : Carries(n[j], u) => Carries(c, u)
    /\ \A i, j \in 1..Len(n) : Carries(n[i], u) /\ Carries(n[j], u) => i = j

\* Nothing of u is registered, armed or run by the step.
NotElsewhere(u) ==
  /\ \A f \in Futures, k \in Kinds, i \in Nat :
       InKept(u, f, k, i)' => InKept(u, f, k, i)
  /\ \A e \in armed' : e.u = u => e \in armed
  /\ ran'[u] = ran[u]

\* What is only in the stacks has one home if it is once in them.
LEMMA OnlyTodo ==
  ASSUME NEW u,
         \A f \in Futures, k \in Kinds, i \in Nat : ~InKept(u, f, k, i)',
         \A e \in armed' : e.u # u, ran'[u] = <<>>,
         \A t1 \in Threads, d1 \in Nat : InTodo(u, t1, d1)' =>
           \A t2 \in Threads, d2 \in Nat : InTodo(u, t2, d2)' =>
             t1 = t2 /\ d1 = d2
  PROVE  OneHome(u)'
<1>1. Len(ran'[u]) <= 1
  OBVIOUS
<1> QED
  BY <1>1, Zenon DEF OneHome

\* What a call held has one home when the call hands it on.
LEMMA PassedHome ==
  ASSUME NEW t \in Threads, NEW n \in Seq(Call),
         todo \in [Threads -> Seq(Call)], todo[t] # <<>>, Continue(t, n),
         HandsOn(Head(todo[t]), n), NEW u \in Users, NotElsewhere(u)
  PROVE  (OneHome(u) => OneHome(u)') /\ (Nowhere(u) => Nowhere(u)')
<1>0. NewHeights(u, t, n)
  BY Heights, Zenon
<1>1. CASE ~Carries(Head(todo[t]), u)
  <2>1. ASSUME NEW s \in Threads, NEW d \in Nat, InTodo(u, s, d)'
        PROVE  InTodo(u, s, d)
    BY <1>0, <1>1, <2>1, Zenon DEF HandsOn, NewHeights
  <2>2. Unmoved(u)
    BY <2>1, Zenon DEF Unmoved, NotElsewhere
  <2> QED
    BY <2>2, UnmovedHome, Zenon
<1>2. CASE Carries(Head(todo[t]), u)
  <2>1. Len(todo[t]) - 1 \in Nat /\ InTodo(u, t, Len(todo[t]) - 1)
    BY <1>2, TopHeight, Zenon
  <2>2. ~Nowhere(u)
    BY <2>1, Zenon DEF Nowhere
  <2>3. ASSUME OneHome(u) PROVE OneHome(u)'
    <3>1. /\ \A f \in Futures, k \in Kinds, i \in Nat : ~InKept(u, f, k, i)
          /\ \A e \in armed : e.u # u
          /\ ran[u] = <<>>
      BY <2>1, <2>3, Zenon DEF OneHome
    <3>2. /\ \A f \in Futures, k \in Kinds, i \in Nat : ~InKept(u, f, k, i)'
          /\ \A e \in armed' : e.u # u
          /\ ran'[u] = <<>>
      BY <3>1, Zenon DEF NotElsewhere
    <3>3. ASSUME NEW s \in Threads, NEW d \in Nat, InTodo(u, s, d)'
          PROVE  /\ s = t
                 /\ \E j \in 1..Len(n) :
                      Carries(n[j], u) /\ d = Len(todo'[t]) - j
      <4>1. ~(InTodo(u, s, d) /\ (s = t => d < Len(todo[t]) - 1))
        <5> SUFFICES ASSUME InTodo(u, s, d), s = t => d < Len(todo[t]) - 1
                     PROVE  FALSE
          OBVIOUS
        <5>1. s = t /\ d = Len(todo[t]) - 1
          BY <2>1, <2>3, Zenon DEF OneHome
        <5>2. Len(todo[t]) \in Nat
          OBVIOUS
        <5> QED
          BY <5>1, <5>2
      <4> QED
        BY <1>0, <3>3, <4>1, Zenon DEF NewHeights
    <3>4. ASSUME NEW t1 \in Threads, NEW d1 \in Nat, InTodo(u, t1, d1)',
                 NEW t2 \in Threads, NEW d2 \in Nat, InTodo(u, t2, d2)'
          PROVE  t1 = t2 /\ d1 = d2
      <4>1. PICK i \in 1..Len(n) : Carries(n[i], u) /\ d1 = Len(todo'[t]) - i
        BY <3>3, <3>4, Zenon
      <4>2. PICK j \in 1..Len(n) : Carries(n[j], u) /\ d2 = Len(todo'[t]) - j
        BY <3>3, <3>4, Zenon
      <4>3. i = j
        BY <4>1, <4>2, Zenon DEF HandsOn
      <4> QED
        BY <3>3, <3>4, <4>1, <4>2, <4>3, Zenon
    <3>5. \A t1 \in Threads, d1 \in Nat : InTodo(u, t1, d1)' =>
            \A t2 \in Threads, d2 \in Nat : InTodo(u, t2, d2)' =>
              t1 = t2 /\ d1 = d2
      BY <3>4, Zenon
    <3> QED
      BY <3>2, <3>5, OnlyTodo, Zenon
  <2> QED
    BY <2>2, <2>3, Zenon
<1> QED
  BY <1>1, <1>2

-----------------------------------------------------------------------------
(* What callbacks wait for.                                                *)

\* Requests stay, and a completed future does not change.
Steady ==
  \A f \in Futures :
    /\ discard[f] => discard'[f]
    /\ abandoned[f] => abandoned'[f]
    /\ state[f] # "PENDING" =>
         /\ state'[f] = state[f]
         /\ discard'[f] = discard[f] /\ abandoned'[f] = abandoned[f]

\* What has happened has happened for good.
LEMMA DueSteady ==
  ASSUME Steady, NEW f \in Futures, NEW k \in Kinds \cup {"after"}
  PROVE  /\ Due(k, f) => Due(k, f)'
         /\ state[f] # "PENDING" /\ ~Due(k, f) => ~Due(k, f)'
<1>1. CASE k = "abandoned"
  BY <1>1 DEF Steady, Due
<1>2. CASE k = "discard"
  BY <1>2 DEF Steady, Due
<1>3. CASE k = "ready"
  BY <1>3 DEF Steady, Due
<1>4. CASE k = "failed"
  BY <1>4 DEF Steady, Due
<1>5. CASE k = "discarded"
  BY <1>5 DEF Steady, Due
<1>6. CASE k = "any"
  BY <1>6 DEF Steady, Due
<1>7. CASE k = "after"
  BY <1>7 DEF Steady, Due
<1> QED
  BY <1>1, <1>2, <1>3, <1>4, <1>5, <1>6, <1>7, Zenon DEF Kinds

\* The calls n may be made in the next state.
Sound(n) == \A j \in 1..Len(n) : n[j] \in Timely'

\* A call whose time has come can wait.
LEMMA TimelySteady ==
  ASSUME Steady, NEW c \in Timely
  PROVE  c \in Timely'
<1>1. /\ c \in Call
      /\ c.call = "user" => Due(c.kind, c.f)
      /\ c.call \in {"clear", "thenf"} => state[c.f] # "PENDING"
  BY Zenon DEF Timely
<1>2. CASE c.call = "user"
  <2>1. c.f \in Futures /\ c.kind \in Kinds \cup {"after"}
    BY <1>1, <1>2, CallFields, CallParts DEF WithFuture
  <2>2. Due(c.kind, c.f)'
    BY <1>1, <1>2, <2>1, DueSteady, Zenon
  <2>3. c.call \notin {"clear", "thenf"}
    BY <1>2
  <2> QED
    BY <1>1, <2>2, <2>3, Zenon DEF Timely
<1>3. CASE c.call \in {"clear", "thenf"}
  <2>1. c.f \in Futures
    BY <1>1, <1>3, CallFields DEF WithFuture
  <2>2. state'[c.f] # "PENDING"
    BY <1>1, <1>3, <2>1 DEF Steady
  <2>3. c.call # "user"
    BY <1>3
  <2> QED
    BY <1>1, <2>2, <2>3, Zenon DEF Timely
<1>4. CASE c.call # "user" /\ c.call \notin {"clear", "thenf"}
  BY <1>1, <1>4, Zenon DEF Timely
<1> QED
  BY <1>2, <1>3, <1>4, Zenon

\* Timely calls keep the stacks timely.
LEMMA TodoStep ==
  ASSUME NEW t \in Threads, NEW n \in Seq(Call),
         todo \in [Threads -> Seq(Call)], todo[t] # <<>>, Continue(t, n),
         Steady, Sound(n), TodoOK
  PROVE  TodoOK'
<1>1. ASSUME NEW s \in Threads, NEW i \in 1..Len(todo[s])
      PROVE  todo[s][i] \in Timely'
  BY TimelySteady, Zenon DEF TodoOK
<1>2. ASSUME NEW s \in Threads, NEW i \in 1..Len(todo'[s])
      PROVE  todo'[s][i] \in Timely'
  <2>1. CASE s # t
    <3>1. todo'[s] = todo[s]
      BY <2>1, TodoAfter, Zenon
    <3> QED
      BY <1>1, <3>1, Zenon
  <2>2. CASE s = t
    <3>1. CASE i \in 1..Len(n)
      <4>1. todo'[s][i] = n[i]
        BY <2>2, <3>1, TodoAfter, Zenon
      <4> QED
        BY <3>1, <4>1, Zenon DEF Sound
    <3>2. CASE i \notin 1..Len(n)
      <4>1. PICK j \in 2..Len(todo[t]) : i = Len(n) + j - 1
        BY <2>2, <3>2, TodoAfter, Zenon
      <4>2. todo'[s][i] = todo[t][j]
        BY <2>2, <4>1, TodoAfter, Zenon
      <4>3. j \in 1..Len(todo[t])
        OBVIOUS
      <4> QED
        BY <1>1, <4>2, <4>3, Zenon
    <3> QED
      BY <3>1, <3>2
  <2> QED
    BY <2>1, <2>2
<1> QED
  BY <1>2, Zenon DEF TodoOK

\* A callback to run stays to be run while other calls are made.
LEMMA ToRunKept ==
  ASSUME NEW t \in Threads, NEW n \in Seq(Call),
         todo \in [Threads -> Seq(Call)], todo[t] # <<>>, Continue(t, n),
         NEW c, ToRun(c), Head(todo[t]) # c
  PROVE  ToRun(c)'
<1>0. PICK s \in Threads : \E i \in 1..Len(todo[s]) : todo[s][i] = c
  BY Zenon DEF ToRun
<1>1. PICK i \in 1..Len(todo[s]) : todo[s][i] = c
  BY <1>0
<1>2. CASE s # t
  BY <1>1, <1>2, TodoAfter, Zenon DEF ToRun
<1>3. CASE s = t
  <2>1. i # 1
    BY <1>1, <1>3, TodoAfter, Zenon
  <2>2. i \in 2..Len(todo[t])
    BY <1>1, <1>3, <2>1
  <2>3. todo'[t][Len(n) + i - 1] = c
    BY <1>1, <1>3, <2>2, TodoAfter, Zenon
  <2>4. Len(todo[t]) \in Nat /\ Len(n) \in Nat /\ Len(todo'[t]) = Len(n) + Len(todo[t]) - 1
    BY TodoAfter, Zenon
  <2>5. Len(n) + i - 1 \in 1..Len(todo'[t])
    BY <2>2, <2>4
  <2> QED
    BY <2>3, <2>5, Zenon DEF ToRun
<1> QED
  BY <1>2, <1>3

\* A new call is to be run.
LEMMA ToRunNew ==
  ASSUME NEW t \in Threads, NEW n \in Seq(Call),
         todo \in [Threads -> Seq(Call)], todo[t] # <<>>, Continue(t, n),
         NEW i \in 1..Len(n)
  PROVE  ToRun(n[i])'
<1>1. todo'[t][i] = n[i]
  BY TodoAfter, Zenon
<1>2. /\ Len(todo[t]) \in Nat \ {0} /\ Len(n) \in Nat
      /\ Len(todo'[t]) = Len(n) + Len(todo[t]) - 1
  BY TodoAfter, Zenon
<1>3. i \in 1..Len(todo'[t])
  BY <1>2
<1> QED
  BY <1>1, <1>3, Zenon DEF ToRun

\* The fields of a registered user callback.
LEMMA AskedFields ==
  ASSUME Types, NEW c \in asked
  PROVE  /\ c \in Callback /\ c.call = "user"
         /\ c.f \in Futures /\ c.kind \in Kinds /\ c.u \in Users
<1>1. c \in Callback /\ c.call = "user" /\ c.kind \in Kinds
  BY Zenon DEF Types
<1>2. c.f \in Futures /\ c.u \in Users
  BY <1>1, CallbackFacts DEF Holder
<1> QED
  BY <1>1, <1>2

\* A registered callback that is not called by the step stays accounted for.
LEMMA TrackedStep ==
  ASSUME Types, NEW t \in Threads, NEW n \in Seq(Call), todo[t] # <<>>,
         Continue(t, n), Steady, NEW c \in asked, Tracked(c),
         Head(todo[t]) # c,
         ToKeep(c) => Tracked(c)',
         Nowhere(c.u) => Nowhere(c.u)',
         ran[c.u] # <<>> => ran'[c.u] # <<>>
  PROVE  Tracked(c)'
<1>1. c.f \in Futures /\ c.kind \in Kinds \cup {"after"}
  BY AskedFields, Zenon
<1>2. CASE ToRun(c)
  <2>1. todo \in [Threads -> Seq(Call)]
    BY Zenon DEF Types
  <2>2. ToRun(c)'
    BY <1>2, <2>1, ToRunKept, Zenon
  <2> QED
    BY <2>2, Zenon DEF Tracked
<1>3. CASE ToKeep(c)
  BY <1>3
<1>4. CASE Dropped(c)
  <2>1. state[c.f] # "PENDING" /\ ~Due(c.kind, c.f) /\ Nowhere(c.u)
    BY <1>4, Zenon DEF Dropped
  <2>2. ~Due(c.kind, c.f)'
    BY <1>1, <2>1, DueSteady, Zenon
  <2>3. state'[c.f] # "PENDING"
    BY <1>1, <2>1, Zenon DEF Steady
  <2>4. Dropped(c)'
    BY <2>1, <2>2, <2>3, Zenon DEF Dropped
  <2> QED
    BY <2>4, Zenon DEF Tracked
<1>5. CASE Answered(c)
  <2>1. Due(c.kind, c.f)'
    BY <1>1, <1>5, DueSteady, Zenon DEF Answered
  <2>2. Answered(c)'
    BY <1>5, <2>1, Zenon DEF Answered
  <2> QED
    BY <2>2, Zenon DEF Tracked
<1> QED
  BY <1>2, <1>3, <1>4, <1>5, Zenon DEF Tracked

\* In particular if no future changes.
LEMMA SteadySame ==
  ASSUME UNCHANGED <<state, discard, abandoned>>
  PROVE  Steady
BY Zenon DEF Steady

\* A callback registered by the step, accounted for.
Fresh(d) == d \in Callback /\ d.call = "user" /\ d.kind \in Kinds /\ Tracked(d)'

\* The invariant after a step of a thread, from its parts.
LEMMA Assemble ==
  ASSUME IInv, NEW t \in Threads, NEW n \in Seq(Call), todo[t] # <<>>,
         Continue(t, n), Steady, Sound(n), state' \in [Futures -> State],
         discard' \in [Futures -> BOOLEAN], abandoned' \in [Futures -> BOOLEAN],
         associated' \in [Futures -> BOOLEAN],
         latch' \in [Futures -> BOOLEAN], timer' \in [Futures -> BOOLEAN],
         callbacks' \in [Futures -> [Kinds -> Seq(Callback)]], KeptOK',
         armed' \subseteq Expiry, ran' \in [Users -> Seq(BOOLEAN)], RanOK',
         \A u \in Users : OneHome(u)' /\ (Nowhere(u) => Nowhere(u)'),
         \A u \in Users : ran[u] # <<>> => ran'[u] # <<>>,
         \A d \in asked : Head(todo[t]) = d \/ ToKeep(d) => Tracked(d)',
         \A d \in asked' : d \in asked \/ Fresh(d)
  PROVE  IInv'
<1>1. /\ Types /\ TodoOK /\ AskedOK /\ todo \in [Threads -> Seq(Call)]
      /\ asked \subseteq {c \in Callback : c.call = "user" /\ c.kind \in Kinds}
  BY Zenon DEF IInv, Types
<1>2. TodoOK'
  BY <1>1, TodoStep, Zenon
<1>3. Types'
  <2>1. todo' \in [Threads -> Seq(Call)]
    BY <1>1, TodoAfter, Zenon
  <2>2. asked' \subseteq {c \in Callback : c.call = "user" /\ c.kind \in Kinds}
    BY <1>1, Zenon DEF Fresh
  <2> QED
    BY <2>1, <2>2, Zenon DEF Types
<1>4. ASSUME NEW c \in asked PROVE Tracked(c)'
  <2>1. CASE Head(todo[t]) = c
    BY <2>1, Zenon
  <2>2. CASE Head(todo[t]) # c
    <3>1. c.u \in Users
      BY <1>1, AskedFields, Zenon
    <3>2. /\ Nowhere(c.u) => Nowhere(c.u)'
          /\ ran[c.u] # <<>> => ran'[c.u] # <<>>
      BY <3>1, Zenon
    <3>3. Tracked(c) /\ (ToKeep(c) => Tracked(c)')
      BY <1>1, Zenon DEF AskedOK
    <3> QED
      BY <1>1, <2>2, <3>2, <3>3, TrackedStep, Zenon
  <2> QED
    BY <2>1, <2>2
<1>5. AskedOK'
  BY <1>4, Zenon DEF AskedOK, Fresh
<1> QED
  BY <1>2, <1>3, <1>5, Zenon DEF IInv

-----------------------------------------------------------------------------
(* Steps that only pass things on.                                         *)

\* The call c may be replaced by the calls n.
Passes(c, n) ==
  /\ n \in Seq(Call)
  /\ \A j \in 1..Len(n) : n[j] \in Timely
  /\ HandsOn(c, n)

\* A step that moves what it holds to the calls it makes, leaves what futures
\* wait for alone, and keeps the callbacks of the user.
LEMMA PassStep ==
  ASSUME IInv, NEW t \in Threads, NEW n, todo[t] # <<>>,
         Continue(t, n), Head(todo[t]).call # "user",
         Passes(Head(todo[t]), n),
         UNCHANGED <<state, discard, abandoned, ran>>,
         \A d \in asked' : d \in asked \/ Fresh(d),
         associated' \in [Futures -> BOOLEAN],
         latch' \in [Futures -> BOOLEAN], timer' \in [Futures -> BOOLEAN],
         callbacks' \in [Futures -> [Kinds -> Seq(Callback)]], KeptOK',
         armed' \subseteq armed,
         \A u \in Users, f \in Futures, k \in Kinds, i \in Nat :
           InKept(u, f, k, i)' => InKept(u, f, k, i),
         \A c \in asked : ToKeep(c) => ToKeep(c)'
  PROVE  IInv'
<1>0. /\ n \in Seq(Call) /\ HandsOn(Head(todo[t]), n)
      /\ \A j \in 1..Len(n) : n[j] \in Timely
  BY Zenon DEF Passes
<1>1. /\ Types /\ RanOK /\ todo \in [Threads -> Seq(Call)]
      /\ \A u \in Users : OneHome(u)
      /\ state' \in [Futures -> State] /\ discard' \in [Futures -> BOOLEAN]
      /\ abandoned' \in [Futures -> BOOLEAN] /\ armed' \subseteq Expiry
      /\ ran' \in [Users -> Seq(BOOLEAN)]
  BY Zenon DEF IInv, Types
<1>2. Steady
  BY SteadySame, Zenon
<1>3. Sound(n)
  BY <1>0, <1>2, TimelySteady, Zenon DEF Sound
<1>4. ASSUME NEW u \in Users
      PROVE  OneHome(u)' /\ (Nowhere(u) => Nowhere(u)')
  <2>1. NotElsewhere(u)
    BY Zenon DEF NotElsewhere
  <2> QED
    BY <1>0, <1>1, <2>1, PassedHome, Zenon
<1>5. RanOK'
  BY <1>1, Zenon DEF RanOK
<1>6. ASSUME NEW d \in asked, Head(todo[t]) = d \/ ToKeep(d) PROVE Tracked(d)'
  <2>1. Head(todo[t]) # d
    BY <1>1, AskedFields, Zenon
  <2> QED
    BY <1>6, <2>1, Zenon DEF Tracked
<1>7. \A u \in Users : ran[u] # <<>> => ran'[u] # <<>>
  BY Zenon
<1> QED
  BY <1>0, <1>1, <1>2, <1>3, <1>4, <1>5, <1>6, <1>7, Assemble, Zenon

\* The same if no callback is registered or removed.
LEMMA PassSame ==
  ASSUME IInv, NEW t \in Threads, NEW n, todo[t] # <<>>,
         Continue(t, n), Head(todo[t]).call # "user",
         Passes(Head(todo[t]), n),
         UNCHANGED <<state, discard, abandoned, callbacks, asked, ran>>,
         associated' \in [Futures -> BOOLEAN],
         latch' \in [Futures -> BOOLEAN], timer' \in [Futures -> BOOLEAN],
         armed' \subseteq armed
  PROVE  IInv'
<1>0. callbacks' = callbacks /\ Types /\ KeptOK
  BY Zenon DEF IInv
<1>1. callbacks' \in [Futures -> [Kinds -> Seq(Callback)]] /\ KeptOK'
  <2>1. KeptOK'
    BY <1>0 DEF KeptOK
  <2> QED
    BY <1>0, <2>1, Zenon DEF Types
<1>2. \A u \in Users, f \in Futures, k \in Kinds, i \in Nat :
        InKept(u, f, k, i)' => InKept(u, f, k, i)
  BY Zenon DEF InKept
<1>3. ASSUME NEW c \in asked, ToKeep(c) PROVE ToKeep(c)'
  <2>1. c.f \in Futures /\ c.kind \in Kinds \cup {"after"}
    BY AskedFields, Zenon DEF IInv
  <2>2. ~Due(c.kind, c.f)'
    BY <1>3, Zenon DEF ToKeep, Due
  <2> QED
    BY <1>3, <2>2, Zenon DEF ToKeep
<1> QED
  BY <1>1, <1>2, <1>3, PassStep, Zenon

\* Sequences of calls that hold nothing of the user.
Plains(n) == n \in Seq(Call) /\ \A j \in 1..Len(n) : Plain(n[j])

\* Calls that hold nothing can always be made.
LEMMA PlainsPass ==
  ASSUME NEW c, NEW n, Plains(n)
  PROVE  Passes(c, n)
<1>1. \A j \in 1..Len(n) : n[j] \in Timely
  BY Zenon DEF Plains, Plain, Timely
<1>2. HandsOn(c, n)
  BY Zenon DEF Plains, Plain, HandsOn
<1> QED
  BY <1>1, <1>2, Zenon DEF Passes, Plains

\* Such calls, one by one.
LEMMA PlainTuples ==
  /\ Plains(<<>>)
  /\ \A a : Plain(a) => Plains(<<a>>)
  /\ \A a, b : Plain(a) /\ Plain(b) => Plains(<<a, b>>)
  /\ \A a, b, c, d, e :
       Plain(a) /\ Plain(b) /\ Plain(c) /\ Plain(d) /\ Plain(e) =>
         Plains(<<a, b, c, d, e>>)
<1>1. Plains(<<>>)
  BY DEF Plains
<1>2. ASSUME NEW a, Plain(a) PROVE Plains(<<a>>)
  BY <1>2 DEF Plains, Plain
<1>3. ASSUME NEW a, NEW b, Plain(a), Plain(b) PROVE Plains(<<a, b>>)
  <2>1. <<a, b>> \in Seq(Call)
    BY <1>3 DEF Plain
  <2>2. \A j \in 1..Len(<<a, b>>) : <<a, b>>[j] = a \/ <<a, b>>[j] = b
    OBVIOUS
  <2> QED
    BY <1>3, <2>1, <2>2, Zenon DEF Plains
<1>4. ASSUME NEW a, NEW b, NEW c, NEW d, NEW e,
             Plain(a), Plain(b), Plain(c), Plain(d), Plain(e)
      PROVE  Plains(<<a, b, c, d, e>>)
  <2> DEFINE n == <<a, b, c, d, e>>
  <2>1. n \in Seq(Call)
    BY <1>4 DEF Plain
  <2>2. \A j \in 1..Len(n) :
          n[j] = a \/ n[j] = b \/ n[j] = c \/ n[j] = d \/ n[j] = e
    OBVIOUS
  <2> HIDE DEF n
  <2>3. Plains(n)
    BY <1>4, <2>1, <2>2, Zenon DEF Plains
  <2> QED
    BY <2>3 DEF n
<1> QED
  BY <1>1, <1>2, <1>3, <1>4, Zenon

\* A sequence of calls and one more.
LEMMA Joined ==
  ASSUME NEW m \in Seq(Call), NEW d \in Call
  PROVE  /\ m \o <<d>> \in Seq(Call)
         /\ \A j \in 1..Len(m \o <<d>>) :
              \/ j \in 1..Len(m) /\ (m \o <<d>>)[j] = m[j]
              \/ (m \o <<d>>)[j] = d
OBVIOUS

\* A call that holds nothing may follow.
LEMMA JoinedPasses ==
  ASSUME NEW c, NEW m, Passes(c, m), NEW d, Plain(d)
  PROVE  Passes(c, m \o <<d>>)
<1>1. PICK n : n = m \o <<d>>
  OBVIOUS
<1>2. m \in Seq(Call) /\ d \in Call /\ d \in Timely /\ \A u : ~Carries(d, u)
  BY Zenon DEF Passes, Plain, Timely
<1>3. /\ n \in Seq(Call)
      /\ \A j \in 1..Len(n) : (j \in 1..Len(m) /\ n[j] = m[j]) \/ n[j] = d
  BY <1>1, <1>2, Joined, Zenon
<1>4. \A j \in 1..Len(n) : n[j] \in Timely
  BY <1>2, <1>3, Zenon DEF Passes
<1>5. HandsOn(c, n)
  BY <1>2, <1>3, Zenon DEF Passes, HandsOn
<1> QED
  BY <1>1, <1>3, <1>4, <1>5, Zenon DEF Passes

\* A call of the user among calls that hold nothing.
LEMMA UserPasses ==
  ASSUME NEW c, NEW a, NEW b, NEW d, a \in Timely, Plain(b), Plain(d),
         \A u \in Users : Carries(a, u) => Carries(c, u)
  PROVE  Passes(c, <<a, b>>) /\ Passes(c, <<b, a, d>>)
<1>1. a \in Call /\ b \in Call /\ d \in Call /\ b \in Timely /\ d \in Timely
  BY Zenon DEF Timely, Plain
<1>2. \A u : ~Carries(b, u) /\ ~Carries(d, u)
  BY Zenon DEF Plain
<1>3. ASSUME NEW n, n = <<a, b>> PROVE Passes(c, n)
  <2>1. /\ n \in Seq(Call)
        /\ \A j \in 1..Len(n) : (j = 1 /\ n[j] = a) \/ n[j] = b
    BY <1>1, <1>3
  <2>2. \A j \in 1..Len(n) : n[j] \in Timely
    BY <1>1, <2>1, Zenon
  <2>3. HandsOn(c, n)
    BY <1>2, <2>1, Zenon DEF HandsOn
  <2> QED
    BY <2>1, <2>2, <2>3, Zenon DEF Passes
<1>4. ASSUME NEW n, n = <<b, a, d>> PROVE Passes(c, n)
  <2>1. /\ n \in Seq(Call)
        /\ \A j \in 1..Len(n) : (j = 2 /\ n[j] = a) \/ n[j] = b \/ n[j] = d
    BY <1>1, <1>4
  <2>2. \A j \in 1..Len(n) : n[j] \in Timely
    BY <1>1, <2>1, Zenon
  <2>3. HandsOn(c, n)
    BY <1>2, <2>1, Zenon DEF HandsOn
  <2> QED
    BY <2>1, <2>2, <2>3, Zenon DEF Passes
<1> QED
  BY <1>3, <1>4, Zenon

\* The call at the top of a stack.
LEMMA TopCall ==
  ASSUME Types, NEW t \in Threads, NEW what, NEW c, Calls(t, what, c)
  PROVE  /\ c \in Call /\ c = Head(todo[t]) /\ c.call = what
         /\ todo[t] # <<>>
<1>1. todo[t] \in Seq(Call) /\ todo[t] # <<>>
  BY Zenon DEF Types, Calls
<1>2. Head(todo[t]) \in Call
  BY <1>1
<1> QED
  BY <1>1, <1>2, Zenon DEF Calls

\* A step that changes none of the data, and passes the call on.
LEMMA QuietStep ==
  ASSUME IInv, NEW t \in Threads, NEW what, NEW c, NEW n, Calls(t, what, c),
         what # "user", Passes(c, n), Continue(t, n),
         UNCHANGED <<dataVars, callbacks, othersThan>>
  PROVE  IInv'
<1>1. Types
  BY Zenon DEF IInv
<1>2. c = Head(todo[t]) /\ c.call = what /\ todo[t] # <<>>
  BY <1>1, TopCall, Zenon
<1>3. /\ UNCHANGED <<state, discard, abandoned, callbacks, asked, ran>>
      /\ associated' = associated /\ latch' = latch /\ timer' = timer
      /\ armed' = armed
  BY DEF dataVars, othersThan
<1>4. /\ associated' \in [Futures -> BOOLEAN]
      /\ latch' \in [Futures -> BOOLEAN] /\ timer' \in [Futures -> BOOLEAN]
      /\ armed' \subseteq armed
  BY <1>1, <1>3, Zenon DEF Types
<1> QED
  BY <1>2, <1>3, <1>4, PassSame, Zenon

\* The call at the top of a stack may be made.
LEMMA TopTimely ==
  ASSUME IInv, NEW t \in Threads, NEW what, NEW c, Calls(t, what, c)
  PROVE  c \in Timely
<1>1. todo[t] \in Seq(Call) /\ todo[t] # <<>> /\ c = Head(todo[t])
  BY Zenon DEF IInv, Types, Calls
<1>2. c = todo[t][1] /\ 1 \in 1..Len(todo[t])
  BY <1>1
<1> QED
  BY <1>2, Zenon DEF IInv, TodoOK

\* Promise::set, fail and discard.
LEMMA PromisePass ==
  ASSUME IInv, NEW t \in Threads, NEW c, PromiseStep(t, c)
  PROVE  IInv'
<1>1. Types /\ Calls(t, "promise", c)
  BY Zenon DEF IInv, PromiseStep
<1>2. c \in Call /\ c.call = "promise"
  BY <1>1, TopCall, Zenon
<1>3. c.f \in Futures /\ c.to \in State \ {"PENDING"}
  BY <1>2, CallFields DEF WithFuture
<1>4. PICK n : n = IF associated[c.f] THEN <<>> ELSE <<Complete(c.f, c.to)>>
  OBVIOUS
<1>5. Plains(n)
  BY <1>3, <1>4, PlainCalls, PlainTuples, Zenon
<1> QED
  BY <1>1, <1>4, <1>5, PlainsPass, QuietStep, Zenon DEF PromiseStep

\* internal::thenf and internal::then hand the function on to one call.
LEMMA ThenPass ==
  ASSUME IInv, NEW t \in Threads, NEW c, ThenStep(t, c)
  PROVE  IInv'
<1>1. Types /\ Calls(t, "thenf", c)
  BY Zenon DEF IInv, ThenStep
<1>2. c \in Call /\ c.call = "thenf"
  BY <1>1, TopCall, Zenon
<1>3. /\ c.f \in Futures /\ c.g \in Futures /\ c.u \in Users
      /\ c.h \in Futures \cup {None}
  BY <1>2, CallFields DEF WithFuture, WithTarget, Holder
<1>m. PICK m : m = CASE state[c.f] = "READY" /\ discard[c.f] ->
                          <<ViaPromise(c.g, "DISCARDED")>>
                     [] state[c.f] = "READY" /\ ~discard[c.f] ->
                          <<User(c.u, c.f, "ready"), Returned(c.g, c.h)>>
                     [] state[c.f] \in {"FAILED", "DISCARDED"} ->
                          <<ViaPromise(c.g, state[c.f])>>
  OBVIOUS
<1>4. PICK n : n = m \o <<DropPromise(c.g)>>
  OBVIOUS
<1>5. Passes(c, m)
  <2>1. state[c.f] \in State
    BY <1>1, <1>3, Zenon DEF Types
  <2>3. \A to \in State \ {"PENDING"} : Plain(ViaPromise(c.g, to))
    BY <1>3, PlainCalls, Zenon
  <2>4. CASE state[c.f] = "READY" /\ ~discard[c.f]
    <3>1. m = <<User(c.u, c.f, "ready"), Returned(c.g, c.h)>>
      BY <1>m, <2>4
    <3>2. Plain(Returned(c.g, c.h))
      <4>1. CASE c.h = None
        BY <2>3, <4>1 DEF Returned, State
      <4>2. CASE c.h # None
        BY <1>3, <4>2, PlainCalls, Zenon DEF Returned
      <4> QED
        BY <4>1, <4>2
    <3>3. User(c.u, c.f, "ready") \in Timely
      <4>1. Due("ready", c.f)
        BY <2>4 DEF Due
      <4> QED
        BY <1>3, <4>1 DEF User, Timely, Call, Callback, Kinds
    <3>4. \A u \in Users : Carries(User(c.u, c.f, "ready"), u) => Carries(c, u)
      BY <1>2 DEF User, Carries, Holder
    <3> QED
      BY <3>1, <3>2, <3>3, <3>4, UserPasses, Zenon
  <2>5. CASE ~(state[c.f] = "READY" /\ ~discard[c.f])
    <3>1. \E to \in State \ {"PENDING"} : m = <<ViaPromise(c.g, to)>>
      <4>1. state[c.f] # "PENDING"
        <5>1. c \in Timely
          BY <1>1, TopTimely, Zenon
        <5> QED
          BY <1>2, <5>1 DEF Timely
      <4>2. CASE state[c.f] = "READY" /\ discard[c.f]
        <5>1. m = <<ViaPromise(c.g, "DISCARDED")>>
          BY <1>m, <4>2
        <5> QED
          BY <5>1 DEF State
      <4>3. CASE state[c.f] \in {"FAILED", "DISCARDED"}
        <5>1. m = <<ViaPromise(c.g, state[c.f])>>
          BY <1>m, <4>3
        <5> QED
          BY <2>1, <4>1, <5>1
      <4> QED
        BY <2>1, <2>5, <4>1, <4>2, <4>3 DEF State
    <3> QED
      BY <2>3, <3>1, PlainTuples, PlainsPass, Zenon
  <2> QED
    BY <2>4, <2>5
<1>6. Passes(c, n)
  <2>1. Plain(DropPromise(c.g))
    BY <1>3, PlainCalls, Zenon
  <2> QED
    BY <1>4, <1>5, <2>1, JoinedPasses, Zenon
<1> QED
  BY <1>1, <1>m, <1>4, <1>6, QuietStep, Zenon DEF ThenStep

\* The callback of repair hands its function on to one call.
LEMMA RepairPass ==
  ASSUME IInv, NEW t \in Threads, NEW c, RepairStep(t, c)
  PROVE  IInv'
<1>1. Types /\ Calls(t, "repairf", c)
  BY Zenon DEF IInv, RepairStep
<1>2. c \in Call /\ c.call = "repairf"
  BY <1>1, TopCall, Zenon
<1>3. c.f \in Futures /\ c.g \in Futures /\ c.u \in Users /\ c.h \in Futures
  BY <1>2, CallFields DEF WithFuture, WithTarget, Holder
<1>m. PICK m : m = IF state[c.f] = "FAILED"
                     THEN <<User(c.u, c.f, "failed"), Associate(c.g, c.h)>>
                     ELSE <<Associate(c.g, c.f)>>
  OBVIOUS
<1>4. PICK n : n = m \o <<DropPromise(c.g)>>
  OBVIOUS
<1>5. Passes(c, m)
  <2>1. /\ Plain(DropPromise(c.g)) /\ Plain(Associate(c.g, c.h))
        /\ Plain(Associate(c.g, c.f))
    BY <1>3, PlainCalls, Zenon
  <2>2. CASE state[c.f] = "FAILED"
    <3>1. m = <<User(c.u, c.f, "failed"), Associate(c.g, c.h)>>
      BY <1>m, <2>2, Zenon
    <3>2. User(c.u, c.f, "failed") \in Timely
      <4>1. Due("failed", c.f)
        BY <2>2 DEF Due
      <4> QED
        BY <1>3, <4>1 DEF User, Timely, Call, Callback, Kinds
    <3>3. \A u \in Users : Carries(User(c.u, c.f, "failed"), u) => Carries(c, u)
      BY <1>2 DEF User, Carries, Holder
    <3> QED
      BY <2>1, <3>1, <3>2, <3>3, UserPasses, Zenon
  <2>3. CASE state[c.f] # "FAILED"
    <3>1. m = <<Associate(c.g, c.f)>>
      BY <1>m, <2>3, Zenon
    <3> QED
      BY <2>1, <3>1, PlainTuples, PlainsPass, Zenon
  <2> QED
    BY <2>2, <2>3
<1>6. Passes(c, n)
  <2>1. Plain(DropPromise(c.g))
    BY <1>3, PlainCalls, Zenon
  <2> QED
    BY <1>4, <1>5, <2>1, JoinedPasses, Zenon
<1> QED
  BY <1>1, <1>m, <1>4, <1>6, QuietStep, Zenon DEF RepairStep

\* The callback of undiscardable.
LEMMA MirrorPass ==
  ASSUME IInv, NEW t \in Threads, NEW c, MirrorStep(t, c)
  PROVE  IInv'
<1>1. Types /\ Calls(t, "mirrorf", c)
  BY Zenon DEF IInv, MirrorStep
<1>2. c \in Call /\ c.call = "mirrorf"
  BY <1>1, TopCall, Zenon
<1>3. c.f \in Futures /\ c.g \in Futures
  BY <1>2, CallFields DEF WithFuture, WithTarget
<1>4. PICK n : n = <<Associate(c.g, c.f), DropPromise(c.g)>>
  OBVIOUS
<1>5. Plains(n)
  BY <1>3, <1>4, PlainCalls, PlainTuples, Zenon
<1> QED
  BY <1>1, <1>4, <1>5, PlainsPass, QuietStep, Zenon DEF MirrorStep

\* internal::select.
LEMMA SelectPass ==
  ASSUME IInv, NEW t \in Threads, NEW c, SelectStep(t, c)
  PROVE  IInv'
<1>1. Types /\ Calls(t, "selectf", c)
  BY Zenon DEF IInv, SelectStep
<1>2. c \in Call /\ c.call = "selectf"
  BY <1>1, TopCall, Zenon
<1>3. c.f \in Futures /\ c.g \in Futures
  BY <1>2, CallFields DEF WithFuture, WithTarget
<1>4. PICK n : n = IF state[c.g] = "PENDING" /\ state[c.f] = "READY"
                     THEN <<ViaPromise(c.g, "READY")>> ELSE <<>>
  OBVIOUS
<1>5. Plain(ViaPromise(c.g, "READY"))
  <2>1. "READY" \in State \ {"PENDING"}
    BY DEF State
  <2> QED
    BY <1>3, <2>1, PlainCalls, Zenon
<1>6. Plains(n)
  BY <1>4, <1>5, PlainTuples, Zenon
<1> QED
  BY <1>1, <1>4, <1>6, PlainsPass, QuietStep, Zenon DEF SelectStep

\* await returns.
LEMMA AwaitedPass ==
  ASSUME IInv, NEW t \in Threads, NEW c, AwaitedStep(t, c)
  PROVE  IInv'
BY PlainTuples, PlainsPass, QuietStep, Zenon DEF AwaitedStep

\* Promise::associate.
LEMMA AssociatePass ==
  ASSUME IInv, NEW t \in Threads, NEW c, AssociateStep(t, c)
  PROVE  IInv'
<1>1. Types /\ Calls(t, "associate", c)
  BY Zenon DEF IInv, AssociateStep
<1>2. c \in Call /\ c.call = "associate" /\ c = Head(todo[t]) /\ todo[t] # <<>>
  BY <1>1, TopCall, Zenon
<1>3. c.f \in Futures /\ c.g \in Futures
  BY <1>2, CallFields DEF WithFuture, WithTarget
<1>4. /\ UNCHANGED <<state, discard, abandoned, callbacks, asked, ran>>
      /\ latch' = latch /\ timer' = timer /\ armed' = armed
  BY DEF AssociateStep, othersThan
<1>5. /\ latch' \in [Futures -> BOOLEAN] /\ timer' \in [Futures -> BOOLEAN]
      /\ armed' \subseteq armed /\ associated \in [Futures -> BOOLEAN]
  BY <1>1, <1>4, Zenon DEF Types
<1>6. associated' \in [Futures -> BOOLEAN]
  BY <1>5, Zenon DEF AssociateStep
<1>7. \E n : Plains(n) /\ Continue(t, n)
  <2>1. Plains(<<On("discard", c.f, Discard(c.g)),
                 On("ready", c.g, Complete(c.f, "READY")),
                 On("failed", c.g, Complete(c.f, "FAILED")),
                 On("discarded", c.g, Complete(c.f, "DISCARDED")),
                 On("abandoned", c.g, Abandon(c.f, TRUE))>>)
    BY <1>3, PlainOn, PlainTuples, Zenon
  <2> QED
    BY <2>1, PlainTuples, Zenon DEF AssociateStep
<1>8. PICK n : Plains(n) /\ Continue(t, n)
  BY <1>7
<1>9. Passes(c, n) /\ c.call # "user"
  BY <1>2, <1>8, PlainsPass, Zenon
<1> QED
  BY <1>2, <1>4, <1>5, <1>6, <1>8, <1>9, PassSame, Zenon

\* after stores its timer.
LEMMA StoreTimerPass ==
  ASSUME IInv, NEW t \in Threads, NEW c, StoreTimerStep(t, c)
  PROVE  IInv'
<1>1. Types /\ Calls(t, "store", c)
  BY Zenon DEF IInv, StoreTimerStep
<1>2. c.call = "store" /\ c = Head(todo[t]) /\ todo[t] # <<>>
  BY <1>1, TopCall, Zenon
<1>3. /\ UNCHANGED <<state, discard, abandoned, callbacks, asked, ran>>
      /\ associated' = associated /\ latch' = latch /\ armed' = armed
  BY DEF StoreTimerStep, dataVars
<1>4. /\ associated' \in [Futures -> BOOLEAN] /\ latch' \in [Futures -> BOOLEAN]
      /\ armed' \subseteq armed /\ timer \in [Futures -> BOOLEAN]
  BY <1>1, <1>3, Zenon DEF Types
<1>5. timer' \in [Futures -> BOOLEAN]
  BY <1>4, Zenon DEF StoreTimerStep
<1>6. Passes(c, <<>>) /\ Continue(t, <<>>) /\ c.call # "user"
  BY <1>2, PlainTuples, PlainsPass, Zenon DEF StoreTimerStep
<1> QED
  BY <1>2, <1>3, <1>4, <1>5, <1>6, PassSame, Zenon

\* The callback of await triggers the latch.
LEMMA TriggerPass ==
  ASSUME IInv, NEW t \in Threads, NEW c, TriggerStep(t, c)
  PROVE  IInv'
<1>1. Types /\ Calls(t, "trigger", c)
  BY Zenon DEF IInv, TriggerStep
<1>2. c.call = "trigger" /\ c = Head(todo[t]) /\ todo[t] # <<>>
  BY <1>1, TopCall, Zenon
<1>3. /\ UNCHANGED <<state, discard, abandoned, callbacks, asked, ran>>
      /\ associated' = associated /\ timer' = timer /\ armed' = armed
  BY DEF TriggerStep, dataVars
<1>4. /\ associated' \in [Futures -> BOOLEAN] /\ timer' \in [Futures -> BOOLEAN]
      /\ armed' \subseteq armed /\ latch \in [Futures -> BOOLEAN]
  BY <1>1, <1>3, Zenon DEF Types
<1>5. latch' \in [Futures -> BOOLEAN]
  BY <1>4, Zenon DEF TriggerStep
<1>6. Passes(c, <<>>) /\ Continue(t, <<>>) /\ c.call # "user"
  BY <1>2, PlainTuples, PlainsPass, Zenon DEF TriggerStep
<1> QED
  BY <1>2, <1>3, <1>4, <1>5, <1>6, PassSame, Zenon

\* The timer of after is reset, and cancelled if it has not expired.
LEMMA ClearTimerPass ==
  ASSUME IInv, NEW t \in Threads, NEW c, ClearTimerStep(t, c)
  PROVE  IInv'
<1>1. Types /\ Calls(t, "untimer", c)
  BY Zenon DEF IInv, ClearTimerStep
<1>2. c \in Call /\ c.call = "untimer" /\ c = Head(todo[t]) /\ todo[t] # <<>>
  BY <1>1, TopCall, Zenon
<1>3. /\ UNCHANGED <<state, discard, abandoned, callbacks, asked, ran>>
      /\ associated' = associated /\ latch' = latch
  BY DEF ClearTimerStep, dataVars
<1>4. /\ associated' \in [Futures -> BOOLEAN] /\ latch' \in [Futures -> BOOLEAN]
      /\ timer \in [Futures -> BOOLEAN]
  BY <1>1, <1>3, Zenon DEF Types
<1>5. timer' \in [Futures -> BOOLEAN] /\ armed' \subseteq armed
  BY <1>4, Zenon DEF ClearTimerStep
<1>6. c.g \in Futures
  BY <1>2, CallFields DEF WithTarget
<1>7. Plains(<<>>) /\ Plains(<<[call |-> "abort"]>>)
  BY <1>6, PlainCalls, PlainTuples, Zenon
<1>8. PICK n : Plains(n) /\ Continue(t, n)
  BY <1>7, Zenon DEF ClearTimerStep
<1>9. Passes(c, n) /\ c.call # "user"
  BY <1>2, <1>8, PlainsPass, Zenon
<1> QED
  BY <1>2, <1>3, <1>4, <1>5, <1>8, <1>9, PassSame, Zenon

\* internal::expired hands its function on only if it triggers the latch.
LEMMA LatchPass ==
  ASSUME IInv, NEW t \in Threads, NEW c, LatchStep(t, c)
  PROVE  IInv'
<1>1. Types /\ (Calls(t, "expired", c) \/ Calls(t, "afterf", c))
  BY Zenon DEF IInv, LatchStep
<1>2. /\ c \in Call /\ c.call \in {"expired", "afterf"}
      /\ c = Head(todo[t]) /\ todo[t] # <<>>
  BY <1>1, TopCall, Zenon
<1>3. /\ UNCHANGED <<state, discard, abandoned, callbacks, asked, ran>>
      /\ associated' = associated /\ timer' = timer /\ armed' = armed
  BY DEF LatchStep, dataVars
<1>4. /\ associated' \in [Futures -> BOOLEAN] /\ timer' \in [Futures -> BOOLEAN]
      /\ armed' \subseteq armed /\ latch \in [Futures -> BOOLEAN]
  BY <1>1, <1>3, Zenon DEF Types
<1>5. latch' \in [Futures -> BOOLEAN]
  BY <1>4, Zenon DEF LatchStep
<1>6. /\ c.f \in Futures /\ c.g \in Futures
      /\ c.call = "expired" => c.h \in Futures /\ c.u \in Users
  BY <1>2, CallFields DEF WithFuture, WithTarget, Holder
<1>7. PICK n :
        n = CASE latch[c.g] -> <<>>
              [] ~latch[c.g] /\ c.call = "expired" ->
                   <<ClearTimer(c.g, FALSE), User(c.u, c.f, "after"),
                     Associate(c.g, c.h)>>
              [] ~latch[c.g] /\ c.call = "afterf" ->
                   <<ClearTimer(c.g, TRUE), Associate(c.g, c.f)>>
  OBVIOUS
<1>8. Passes(c, n)
  <2>1. CASE latch[c.g]
    <3>1. n = <<>>
      BY <1>7, <2>1
    <3> QED
      BY <3>1, PlainTuples, PlainsPass, Zenon
  <2>2. CASE ~latch[c.g] /\ c.call = "expired"
    <3>1. n = <<ClearTimer(c.g, FALSE), User(c.u, c.f, "after"),
                Associate(c.g, c.h)>>
      BY <1>7, <2>2
    <3>2. Plain(ClearTimer(c.g, FALSE)) /\ Plain(Associate(c.g, c.h))
      BY <1>6, <2>2, PlainCalls, Zenon
    <3>3. User(c.u, c.f, "after") \in Timely
      <4>1. Due("after", c.f)
        BY DEF Due
      <4> QED
        BY <1>6, <2>2, <4>1 DEF User, Timely, Call, Callback
    <3>4. \A u \in Users : Carries(User(c.u, c.f, "after"), u) => Carries(c, u)
      BY <2>2 DEF User, Carries, Holder
    <3> QED
      BY <3>1, <3>2, <3>3, <3>4, UserPasses, Zenon
  <2>3. CASE ~latch[c.g] /\ c.call = "afterf"
    <3>1. n = <<ClearTimer(c.g, TRUE), Associate(c.g, c.f)>>
      BY <1>7, <2>3
    <3>2. Plain(ClearTimer(c.g, TRUE)) /\ Plain(Associate(c.g, c.f))
      BY <1>6, PlainCalls, Zenon
    <3> QED
      BY <3>1, <3>2, PlainTuples, PlainsPass, Zenon
  <2> QED
    BY <1>2, <2>1, <2>2, <2>3, Zenon
<1>9. c.call # "user" /\ Continue(t, n)
  <2>1. c.call # "user"
    BY <1>2
  <2> QED
    BY <1>7, <2>1, Zenon DEF LatchStep
<1> QED
  BY <1>2, <1>3, <1>4, <1>5, <1>8, <1>9, PassSame, Zenon

-----------------------------------------------------------------------------
(* Registration.                                                           *)

\* A vector with one more callback.
LEMMA Appended ==
  ASSUME NEW s \in Seq(Callback), NEW cb \in Callback
  PROVE  /\ Append(s, cb) \in Seq(Callback)
         /\ Len(s) + 1 \in 1..Len(Append(s, cb))
         /\ Append(s, cb)[Len(s) + 1] = cb
         /\ \A i \in 1..Len(s) :
              i \in 1..Len(Append(s, cb)) /\ Append(s, cb)[i] = s[i]
         /\ \A i \in 1..Len(Append(s, cb)) :
              i \in 1..Len(s) \/ i = Len(s) + 1
OBVIOUS

\* Every registered callback stays where it is, and there is one more.
Grown(f, k, cb) ==
  /\ \A g \in Futures, l \in Kinds : \A i \in 1..Len(callbacks[g][l]) :
       i \in 1..Len(callbacks'[g][l]) /\ callbacks'[g][l][i] = callbacks[g][l][i]
  /\ \A g \in Futures, l \in Kinds : \A i \in 1..Len(callbacks'[g][l]) :
       \/ i \in 1..Len(callbacks[g][l])
       \/ /\ g = f /\ l = k /\ i = Len(callbacks[f][k]) + 1
          /\ callbacks'[g][l][i] = cb
  /\ Len(callbacks[f][k]) + 1 \in 1..Len(callbacks'[f][k])
  /\ callbacks'[f][k][Len(callbacks[f][k]) + 1] = cb

\* So it is when a callback is appended to a vector.
LEMMA Registered ==
  ASSUME callbacks \in [Futures -> [Kinds -> Seq(Callback)]],
         NEW f \in Futures, NEW k \in Kinds, NEW cb \in Callback,
         callbacks' = [callbacks EXCEPT ![f][k] = Append(@, cb)]
  PROVE  callbacks' \in [Futures -> [Kinds -> Seq(Callback)]] /\ Grown(f, k, cb)
<1>1. PICK s : s = callbacks[f][k]
  OBVIOUS
<1>2. s \in Seq(Callback)
  BY <1>1, Zenon
<1>3. PICK r : r = Append(s, cb)
  OBVIOUS
<1>4. /\ r \in Seq(Callback) /\ Len(s) + 1 \in 1..Len(r) /\ r[Len(s) + 1] = cb
      /\ \A i \in 1..Len(s) : i \in 1..Len(r) /\ r[i] = s[i]
      /\ \A i \in 1..Len(r) : i \in 1..Len(s) \/ i = Len(s) + 1
  BY <1>2, <1>3, Appended, Zenon
<1>5. callbacks' = [callbacks EXCEPT ![f] = [callbacks[f] EXCEPT ![k] = r]]
  BY <1>1, <1>3, Zenon
<1>6. /\ callbacks' \in [Futures -> [Kinds -> Seq(Callback)]]
      /\ callbacks'[f][k] = r
      /\ \A g \in Futures, l \in Kinds :
           ~(g = f /\ l = k) => callbacks'[g][l] = callbacks[g][l]
  <2>1. PICK w : w = [callbacks[f] EXCEPT ![k] = r]
    OBVIOUS
  <2>2. /\ w \in [Kinds -> Seq(Callback)] /\ w[k] = r
        /\ \A l \in Kinds : l # k => w[l] = callbacks[f][l]
    BY <1>4, <2>1, Zenon
  <2>3. /\ callbacks' \in [Futures -> [Kinds -> Seq(Callback)]]
        /\ callbacks'[f] = w
        /\ \A g \in Futures : g # f => callbacks'[g] = callbacks[g]
    BY <1>5, <2>1, <2>2, Zenon
  <2> QED
    BY <2>2, <2>3, Zenon
<1>7. \A g \in Futures, l \in Kinds : \A i \in 1..Len(callbacks[g][l]) :
        i \in 1..Len(callbacks'[g][l]) /\ callbacks'[g][l][i] = callbacks[g][l][i]
  <2> TAKE g \in Futures, l \in Kinds
  <2>1. CASE g = f /\ l = k
    <3>1. callbacks[g][l] = s /\ callbacks'[g][l] = r
      BY <1>1, <1>6, <2>1, Zenon
    <3> QED
      BY <1>4, <3>1, Zenon
  <2>2. CASE ~(g = f /\ l = k)
    BY <1>6, <2>2, Zenon
  <2> QED
    BY <2>1, <2>2
<1>8. \A g \in Futures, l \in Kinds : \A i \in 1..Len(callbacks'[g][l]) :
        \/ i \in 1..Len(callbacks[g][l])
        \/ /\ g = f /\ l = k /\ i = Len(callbacks[f][k]) + 1
           /\ callbacks'[g][l][i] = cb
  <2> TAKE g \in Futures, l \in Kinds
  <2>1. CASE g = f /\ l = k
    BY <1>1, <1>4, <1>6, <2>1, Zenon
  <2>2. CASE ~(g = f /\ l = k)
    BY <1>6, <2>2, Zenon
  <2> QED
    BY <2>1, <2>2
<1> QED
  BY <1>1, <1>4, <1>6, <1>7, <1>8, Zenon DEF Grown

\* Registered callbacks match where they are registered.
LEMMA GrownMatches ==
  ASSUME KeptOK, NEW f \in Futures, NEW k \in Kinds, NEW cb, Grown(f, k, cb),
         Matches(cb, f, k)
  PROVE  KeptOK'
<1> SUFFICES ASSUME NEW g \in Futures, NEW l \in Kinds,
                    NEW i \in 1..Len(callbacks'[g][l])
             PROVE  Matches(callbacks'[g][l][i], g, l)
  BY Zenon DEF KeptOK
<1>1. CASE i \in 1..Len(callbacks[g][l])
  <2>1. callbacks'[g][l][i] = callbacks[g][l][i]
    BY <1>1, Zenon DEF Grown
  <2>2. Matches(callbacks[g][l][i], g, l)
    BY <1>1, Zenon DEF KeptOK
  <2> QED
    BY <2>1, <2>2, Zenon
<1>2. CASE i \notin 1..Len(callbacks[g][l])
  <2>1. g = f /\ l = k /\ callbacks'[g][l][i] = cb
    BY <1>2, Zenon DEF Grown
  <2> QED
    BY <2>1, Zenon
<1> QED
  BY <1>1, <1>2

\* A callback that waits goes on waiting.
LEMMA GrownKeeps ==
  ASSUME UNCHANGED <<state, discard, abandoned>>,
         NEW f \in Futures, NEW k \in Kinds, NEW cb, Grown(f, k, cb),
         NEW c, c.f \in Futures, c.kind \in Kinds, ToKeep(c)
  PROVE  ToKeep(c)'
<1>1. PICK i \in 1..Len(callbacks[c.f][c.kind]) : callbacks[c.f][c.kind][i] = c
  BY Zenon DEF ToKeep
<1>2. i \in 1..Len(callbacks'[c.f][c.kind]) /\ callbacks'[c.f][c.kind][i] = c
  BY <1>1, Zenon DEF Grown
<1>3. state'[c.f] = "PENDING" /\ ~Due(c.kind, c.f)'
  BY Zenon DEF ToKeep, Due
<1> QED
  BY <1>2, <1>3, Zenon DEF ToKeep

\* What is registered after the step was so before, or is the new callback.
LEMMA GrownKept ==
  ASSUME state' = state, NEW f \in Futures, NEW k \in Kinds, NEW cb,
         Grown(f, k, cb), NEW u, NEW g \in Futures, NEW l \in Kinds,
         NEW i \in Nat, InKept(u, g, l, i)'
  PROVE  \/ InKept(u, g, l, i)
         \/ /\ g = f /\ l = k /\ i = Len(callbacks[f][k]) + 1 /\ Carries(cb, u)
<1>1. /\ state[g] = "PENDING" /\ i \in 1..Len(callbacks'[g][l])
      /\ Carries(callbacks'[g][l][i], u)
  BY Zenon DEF InKept
<1>2. CASE i \in 1..Len(callbacks[g][l])
  <2>1. callbacks'[g][l][i] = callbacks[g][l][i]
    BY <1>2, Zenon DEF Grown
  <2> QED
    BY <1>1, <1>2, <2>1, Zenon DEF InKept
<1>3. CASE i \notin 1..Len(callbacks[g][l])
  <2>1. /\ g = f /\ l = k /\ i = Len(callbacks[f][k]) + 1
        /\ callbacks'[g][l][i] = cb
    BY <1>1, <1>3, Zenon DEF Grown
  <2> QED
    BY <1>1, <2>1, Zenon
<1> QED
  BY <1>2, <1>3

\* Future::await.
LEMMA AwaitPass ==
  ASSUME IInv, NEW t \in Threads, NEW c, AwaitStep(t, c)
  PROVE  IInv'
<1>1. Types /\ KeptOK /\ Calls(t, "await", c)
  BY Zenon DEF IInv, AwaitStep
<1>2. c \in Call /\ c.call = "await" /\ c = Head(todo[t]) /\ todo[t] # <<>>
  BY <1>1, TopCall, Zenon
<1>3. c.f \in Futures
  BY <1>2, CallFields DEF WithFuture
<1>4. UNCHANGED <<dataVars, othersThan>>
  BY Zenon DEF AwaitStep
<1>5. CASE Continue(t, <<>>) /\ UNCHANGED callbacks
  <2>1. Passes(c, <<>>) /\ "await" # "user"
    BY PlainTuples, PlainsPass, Zenon
  <2> QED
    BY <1>1, <1>4, <1>5, <2>1, QuietStep, Zenon
<1>6. CASE /\ callbacks' = [callbacks EXCEPT ![c.f]["any"] =
                                              Append(@, Trigger(c.f))]
           /\ Continue(t, <<Awaited(c.f)>>)
  <2>1. PICK cb : cb = Trigger(c.f)
    OBVIOUS
  <2>2. cb \in Callback /\ Matches(cb, c.f, "any") /\ \A u : ~Carries(cb, u)
    BY <1>3, <2>1 DEF Trigger, Callback, Matches, Carries, Holder
  <2>3. /\ UNCHANGED <<state, discard, abandoned, asked, ran>>
        /\ associated' = associated /\ latch' = latch /\ timer' = timer
        /\ armed' = armed
    BY <1>4 DEF dataVars, othersThan
  <2>4. /\ associated' \in [Futures -> BOOLEAN]
        /\ latch' \in [Futures -> BOOLEAN] /\ timer' \in [Futures -> BOOLEAN]
        /\ armed' \subseteq armed
        /\ callbacks \in [Futures -> [Kinds -> Seq(Callback)]]
    BY <1>1, <2>3, Zenon DEF Types
  <2>5. "any" \in Kinds
    BY DEF Kinds
  <2>6. /\ callbacks' \in [Futures -> [Kinds -> Seq(Callback)]]
        /\ Grown(c.f, "any", cb)
    BY <1>3, <1>6, <2>1, <2>2, <2>4, <2>5, Registered, Zenon
  <2>7. KeptOK'
    BY <1>1, <1>3, <2>2, <2>5, <2>6, GrownMatches, Zenon
  <2>8. \A u \in Users, f \in Futures, k \in Kinds, i \in Nat :
          InKept(u, f, k, i)' => InKept(u, f, k, i)
    BY <1>3, <2>2, <2>3, <2>5, <2>6, GrownKept, Zenon
  <2>9. ASSUME NEW d \in asked, ToKeep(d) PROVE ToKeep(d)'
    <3>1. d.f \in Futures /\ d.kind \in Kinds
      BY <1>1, AskedFields, Zenon
    <3> QED
      BY <1>3, <2>3, <2>5, <2>6, <2>9, <3>1, GrownKeeps, Zenon
  <2>10. PICK n : n = <<Awaited(c.f)>>
    OBVIOUS
  <2>11. Plain(Awaited(c.f))
    BY <1>3, PlainCalls, Zenon
  <2>12. Passes(c, n) /\ c.call # "user"
    BY <1>2, <2>10, <2>11, PlainTuples, PlainsPass, Zenon
  <2> QED
    BY <1>2, <1>6, <2>3, <2>4, <2>6, <2>7, <2>8, <2>9, <2>10, <2>12, PassStep,
       Zenon
<1> QED
  BY <1>5, <1>6, Zenon DEF AwaitStep

\* The vectors of a completed future are cleared.
LEMMA ClearPass ==
  ASSUME IInv, NEW t \in Threads, NEW c, ClearStep(t, c)
  PROVE  IInv'
<1>1. Types /\ KeptOK /\ Calls(t, "clear", c)
  BY Zenon DEF IInv, ClearStep
<1>2. c \in Call /\ c.call = "clear" /\ c = Head(todo[t]) /\ todo[t] # <<>>
  BY <1>1, TopCall, Zenon
<1>3. c.f \in Futures
  BY <1>2, CallFields DEF WithFuture
<1>4. state[c.f] # "PENDING"
  <2>1. c \in Timely
    BY <1>1, TopTimely, Zenon
  <2> QED
    BY <1>2, <2>1 DEF Timely
<1>5. UNCHANGED <<dataVars, othersThan>>
  BY Zenon DEF ClearStep
<1>6. /\ UNCHANGED <<state, discard, abandoned, asked, ran>>
      /\ associated' = associated /\ latch' = latch /\ timer' = timer
      /\ armed' = armed
  BY <1>5 DEF dataVars, othersThan
<1>7. /\ associated' \in [Futures -> BOOLEAN]
      /\ latch' \in [Futures -> BOOLEAN] /\ timer' \in [Futures -> BOOLEAN]
      /\ armed' \subseteq armed
      /\ callbacks \in [Futures -> [Kinds -> Seq(Callback)]]
  BY <1>1, <1>6, Zenon DEF Types
<1>8. /\ [k \in Kinds |-> <<>>] \in [Kinds -> Seq(Callback)]
      /\ \A k \in Kinds : 1..Len([j \in Kinds |-> <<>>][k]) = {}
  OBVIOUS
<1>9. /\ callbacks' \in [Futures -> [Kinds -> Seq(Callback)]]
      /\ \A k \in Kinds : 1..Len(callbacks'[c.f][k]) = {}
      /\ \A g \in Futures : g # c.f => callbacks'[g] = callbacks[g]
  BY <1>3, <1>7, <1>8, Zenon DEF ClearStep
<1>10. KeptOK'
  <2> SUFFICES ASSUME NEW g \in Futures, NEW l \in Kinds,
                      NEW i \in 1..Len(callbacks'[g][l])
               PROVE  Matches(callbacks'[g][l][i], g, l)
    BY Zenon DEF KeptOK
  <2>1. g # c.f
    BY <1>9, Zenon
  <2>2. callbacks'[g] = callbacks[g]
    BY <1>9, <2>1, Zenon
  <2> QED
    BY <1>1, <2>2, Zenon DEF KeptOK
<1>11. ASSUME NEW u \in Users, NEW f \in Futures, NEW k \in Kinds, NEW i \in Nat,
              InKept(u, f, k, i)'
       PROVE  InKept(u, f, k, i)
  <2>1. f # c.f
    BY <1>4, <1>6, <1>11, Zenon DEF InKept
  <2>2. callbacks'[f] = callbacks[f]
    BY <1>9, <2>1, Zenon
  <2> QED
    BY <1>6, <1>11, <2>2, Zenon DEF InKept
<1>12. ASSUME NEW d \in asked, ToKeep(d) PROVE ToKeep(d)'
  <2>1. d.f \in Futures /\ d.f # c.f
    BY <1>1, <1>4, <1>12, AskedFields, Zenon DEF ToKeep
  <2>2. callbacks'[d.f] = callbacks[d.f]
    BY <1>9, <2>1, Zenon
  <2>3. ~Due(d.kind, d.f)'
    BY <1>6, <1>12, Zenon DEF ToKeep, Due
  <2> QED
    BY <1>6, <1>12, <2>2, <2>3, Zenon DEF ToKeep
<1>13. Passes(c, <<>>) /\ Continue(t, <<>>) /\ c.call # "user"
  BY <1>2, PlainTuples, PlainsPass, Zenon DEF ClearStep
<1> QED
  BY <1>2, <1>6, <1>7, <1>9, <1>10, <1>11, <1>12, <1>13, PassStep, Zenon

-----------------------------------------------------------------------------
(* Completion, discard and abandonment run the callbacks they find.        *)

\* A callback may be called when what it was registered for has happened.
LEMMA DueTimely ==
  ASSUME NEW f \in Futures, NEW k \in Kinds, NEW cb \in Callback,
         Matches(cb, f, k), Due(k, f)'
  PROVE  cb \in Timely'
<1>1. cb \in Call /\ cb.call # "clear"
  BY CallbackParts
<1>2. CASE cb.call = "user"
  <2>1. cb.f = f /\ cb.kind = k
    BY <1>2, Zenon DEF Matches
  <2>2. Due(cb.kind, cb.f)' /\ cb.call \notin {"clear", "thenf"}
    BY <1>2, <2>1
  <2> QED
    BY <1>1, <2>2, Zenon DEF Timely
<1>3. CASE cb.call = "thenf"
  <2>1. cb.f = f /\ k = "any"
    BY <1>3, Zenon DEF Matches
  <2>2. state'[cb.f] # "PENDING" /\ cb.call # "user"
    BY <1>3, <2>1 DEF Due
  <2> QED
    BY <1>1, <2>2, Zenon DEF Timely
<1>4. CASE cb.call # "user" /\ cb.call # "thenf"
  BY <1>1, <1>4, Zenon DEF Timely
<1> QED
  BY <1>2, <1>3, <1>4

\* The calls n hold only what was registered with the pending future f, and
\* leave nothing of it registered.
Gathers(u, f, n) ==
  /\ \A j \in 1..Len(n) : Carries(n[j], u) =>
       \E k \in Kinds, i \in Nat : InKept(u, f, k, i)
  /\ \A i, j \in 1..Len(n) : Carries(n[i], u) /\ Carries(n[j], u) => i = j
  /\ \A j \in 1..Len(n) : Carries(n[j], u) =>
       \A g \in Futures, l \in Kinds, i \in Nat : ~InKept(u, g, l, i)'

\* What moves from vectors to the stack has one home as before.
LEMMA GatheredHome ==
  ASSUME NEW t \in Threads, NEW n \in Seq(Call),
         todo \in [Threads -> Seq(Call)], todo[t] # <<>>, Continue(t, n),
         NEW f \in Futures, NEW u \in Users, Gathers(u, f, n), NotElsewhere(u)
  PROVE  (OneHome(u) => OneHome(u)') /\ (Nowhere(u) => Nowhere(u)')
<1>0. NewHeights(u, t, n)
  BY Heights, Zenon
<1>1. CASE \A j \in 1..Len(n) : ~Carries(n[j], u)
  <2>1. Unmoved(u)
    BY <1>0, <1>1, Zenon DEF Unmoved, NotElsewhere, NewHeights
  <2> QED
    BY <2>1, UnmovedHome, Zenon
<1>2. CASE \E j \in 1..Len(n) : Carries(n[j], u)
  <2>1. PICK k \in Kinds, i \in Nat : InKept(u, f, k, i)
    BY <1>2, Zenon DEF Gathers
  <2>2. ~Nowhere(u)
    BY <2>1, Zenon DEF Nowhere
  <2>3. ASSUME OneHome(u) PROVE OneHome(u)'
    <3>1. /\ \A s \in Threads, d \in Nat : ~InTodo(u, s, d)
          /\ \A e \in armed : e.u # u
          /\ ran[u] = <<>>
      BY <2>1, <2>3, Zenon DEF OneHome
    <3>2. /\ \A g \in Futures, l \in Kinds, j \in Nat : ~InKept(u, g, l, j)'
          /\ \A e \in armed' : e.u # u
          /\ ran'[u] = <<>>
      BY <1>2, <3>1, Zenon DEF NotElsewhere, Gathers
    <3>3. ASSUME NEW s \in Threads, NEW d \in Nat, InTodo(u, s, d)'
          PROVE  /\ s = t
                 /\ \E j \in 1..Len(n) :
                      Carries(n[j], u) /\ d = Len(todo'[t]) - j
      BY <1>0, <3>1, <3>3, Zenon DEF NewHeights
    <3>4. ASSUME NEW t1 \in Threads, NEW d1 \in Nat, InTodo(u, t1, d1)',
                 NEW t2 \in Threads, NEW d2 \in Nat, InTodo(u, t2, d2)'
          PROVE  t1 = t2 /\ d1 = d2
      <4>1. PICK j1 \in 1..Len(n) : Carries(n[j1], u) /\ d1 = Len(todo'[t]) - j1
        BY <3>3, <3>4, Zenon
      <4>2. PICK j2 \in 1..Len(n) : Carries(n[j2], u) /\ d2 = Len(todo'[t]) - j2
        BY <3>3, <3>4, Zenon
      <4>3. j1 = j2
        BY <4>1, <4>2, Zenon DEF Gathers
      <4> QED
        BY <3>3, <3>4, <4>1, <4>2, <4>3, Zenon
    <3>5. \A t1 \in Threads, d1 \in Nat : InTodo(u, t1, d1)' =>
            \A t2 \in Threads, d2 \in Nat : InTodo(u, t2, d2)' =>
              t1 = t2 /\ d1 = d2
      BY <3>4, Zenon
    <3> QED
      BY <3>2, <3>5, OnlyTodo, Zenon
  <2> QED
    BY <2>2, <2>3, Zenon
<1> QED
  BY <1>1, <1>2, Zenon

\* The invariant after a step that changes what callbacks wait for.
LEMMA GatherStep ==
  ASSUME IInv, NEW t \in Threads, NEW n \in Seq(Call), todo[t] # <<>>,
         Continue(t, n), Head(todo[t]).call # "user", NEW f \in Futures,
         Steady, Sound(n), state' \in [Futures -> State],
         discard' \in [Futures -> BOOLEAN], abandoned' \in [Futures -> BOOLEAN],
         callbacks' \in [Futures -> [Kinds -> Seq(Callback)]], KeptOK',
         UNCHANGED <<associated, latch, timer, armed, asked, ran>>,
         \A u \in Users : Gathers(u, f, n),
         \A u \in Users, g \in Futures, k \in Kinds, i \in Nat :
           InKept(u, g, k, i)' => InKept(u, g, k, i),
         \A c \in asked : ToKeep(c) => Tracked(c)'
  PROVE  IInv'
<1>1. /\ Types /\ RanOK /\ todo \in [Threads -> Seq(Call)]
      /\ \A u \in Users : OneHome(u)
      /\ associated' \in [Futures -> BOOLEAN]
      /\ latch' \in [Futures -> BOOLEAN] /\ timer' \in [Futures -> BOOLEAN]
      /\ armed' \subseteq Expiry /\ ran' \in [Users -> Seq(BOOLEAN)]
  BY Zenon DEF IInv, Types
<1>2. ASSUME NEW u \in Users
      PROVE  OneHome(u)' /\ (Nowhere(u) => Nowhere(u)')
  <2>1. NotElsewhere(u)
    BY Zenon DEF NotElsewhere
  <2> QED
    BY <1>1, <2>1, GatheredHome, Zenon
<1>3. RanOK'
  BY <1>1, Zenon DEF RanOK
<1>4. ASSUME NEW d \in asked, Head(todo[t]) = d \/ ToKeep(d) PROVE Tracked(d)'
  <2>1. Head(todo[t]) # d
    BY <1>1, AskedFields, Zenon
  <2> QED
    BY <1>4, <2>1, Zenon
<1>5. /\ \A u \in Users : ran[u] # <<>> => ran'[u] # <<>>
      /\ \A d \in asked' : d \in asked \/ Fresh(d)
  BY Zenon
<1> QED
  BY <1>1, <1>2, <1>3, <1>4, <1>5, Assemble, Zenon

\* One kept callback only holds u.
LEMMA KeptOnce ==
  ASSUME NEW u, OneHome(u),
         NEW f \in Futures, NEW k \in Kinds, NEW i \in Nat, InKept(u, f, k, i),
         NEW g \in Futures, NEW l \in Kinds, NEW j \in Nat, InKept(u, g, l, j)
  PROVE  f = g /\ k = l /\ i = j
BY Zenon DEF OneHome

\* One vector of a pending future is run, and emptied.
LEMMA DrainStep ==
  ASSUME IInv, NEW t \in Threads, todo[t] # <<>>, Head(todo[t]).call # "user",
         NEW f \in Futures, NEW k \in Kinds, state[f] = "PENDING",
         Continue(t, callbacks[f][k]),
         callbacks' = [callbacks EXCEPT ![f][k] = <<>>],
         UNCHANGED <<state, associated, latch, timer, armed, asked, ran>>,
         discard' \in [Futures -> BOOLEAN], abandoned' \in [Futures -> BOOLEAN],
         Steady, Due(k, f)',
         \A g \in Futures, l \in Kinds :
           ~(g = f /\ l = k) => (Due(l, g)' => Due(l, g))
  PROVE  IInv'
<1>1. /\ Types /\ KeptOK /\ state' \in [Futures -> State]
      /\ callbacks \in [Futures -> [Kinds -> Seq(Callback)]]
      /\ \A u \in Users : OneHome(u)
      /\ todo \in [Threads -> Seq(Call)]
  BY Zenon DEF IInv, Types
<1>2. PICK n : n = callbacks[f][k]
  OBVIOUS
<1>3. n \in Seq(Callback) /\ \A j \in 1..Len(n) : n[j] \in Callback
  <2>1. n \in Seq(Callback)
    BY <1>1, <1>2, Zenon
  <2> QED
    BY <2>1
<1>4. n \in Seq(Call)
  <2>1. \A c \in Callback : c \in Call
    BY CallbackParts, Zenon
  <2> QED
    BY <1>3, <2>1
<1>5. /\ callbacks' \in [Futures -> [Kinds -> Seq(Callback)]]
      /\ callbacks'[f][k] = <<>>
      /\ \A g \in Futures, l \in Kinds :
           ~(g = f /\ l = k) => callbacks'[g][l] = callbacks[g][l]
  <2>1. PICK w : w = [callbacks[f] EXCEPT ![k] = <<>>]
    OBVIOUS
  <2>2. <<>> \in Seq(Callback)
    OBVIOUS
  <2>3. /\ w \in [Kinds -> Seq(Callback)] /\ w[k] = <<>>
        /\ \A l \in Kinds : l # k => w[l] = callbacks[f][l]
    BY <1>1, <2>1, <2>2, Zenon
  <2>4. /\ callbacks' \in [Futures -> [Kinds -> Seq(Callback)]]
        /\ callbacks'[f] = w
        /\ \A g \in Futures : g # f => callbacks'[g] = callbacks[g]
    BY <1>1, <2>1, <2>3, Zenon
  <2> QED
    BY <2>3, <2>4, Zenon
<1>6. \A i : i \notin 1..Len(callbacks'[f][k])
  <2>1. \A i : i \notin 1..Len(<<>>)
    OBVIOUS
  <2> QED
    BY <1>5, <2>1, Zenon
<1>7. Sound(n)
  <2> SUFFICES ASSUME NEW j \in 1..Len(n) PROVE n[j] \in Timely'
    BY Zenon DEF Sound
  <2>1. Matches(n[j], f, k)
    BY <1>1, <1>2, Zenon DEF KeptOK
  <2> QED
    BY <1>3, <2>1, DueTimely, Zenon
<1>8. KeptOK'
  <2> SUFFICES ASSUME NEW g \in Futures, NEW l \in Kinds,
                      NEW i \in 1..Len(callbacks'[g][l])
               PROVE  Matches(callbacks'[g][l][i], g, l)
    BY Zenon DEF KeptOK
  <2>1. ~(g = f /\ l = k)
    BY <1>6, Zenon
  <2>2. callbacks'[g][l] = callbacks[g][l]
    BY <1>5, <2>1, Zenon
  <2> QED
    BY <1>1, <2>2, Zenon DEF KeptOK
<1>9. ASSUME NEW u \in Users, NEW g \in Futures, NEW l \in Kinds, NEW i \in Nat,
             InKept(u, g, l, i)'
      PROVE  InKept(u, g, l, i) /\ ~(g = f /\ l = k)
  <2>1. ~(g = f /\ l = k)
    BY <1>6, <1>9, Zenon DEF InKept
  <2>2. callbacks'[g][l] = callbacks[g][l]
    BY <1>5, <2>1, Zenon
  <2> QED
    BY <1>9, <2>1, <2>2, Zenon DEF InKept
<1>10. ASSUME NEW j \in 1..Len(n), NEW u, Carries(n[j], u)
       PROVE  j \in Nat /\ InKept(u, f, k, j)
  <2>1. j \in Nat
    OBVIOUS
  <2> QED
    BY <1>2, <1>10, <2>1, Zenon DEF InKept
<1>11. ASSUME NEW u \in Users PROVE Gathers(u, f, n)
  <2>1. \A i, j \in 1..Len(n) : Carries(n[i], u) /\ Carries(n[j], u) => i = j
    <3> SUFFICES ASSUME NEW i \in 1..Len(n), NEW j \in 1..Len(n),
                        Carries(n[i], u), Carries(n[j], u)
                 PROVE  i = j
      OBVIOUS
    <3>1. /\ i \in Nat /\ InKept(u, f, k, i)
          /\ j \in Nat /\ InKept(u, f, k, j)
      BY <1>10, Zenon
    <3>2. OneHome(u)
      BY <1>1, Zenon
    <3> QED
      BY <3>1, <3>2, KeptOnce, Zenon
  <2>2. ASSUME NEW j \in 1..Len(n), Carries(n[j], u),
               NEW g \in Futures, NEW l \in Kinds, NEW i \in Nat,
               InKept(u, g, l, i)'
        PROVE  FALSE
    <3>1. j \in Nat /\ InKept(u, f, k, j)
      BY <1>10, <2>2, Zenon
    <3>2. InKept(u, g, l, i) /\ ~(g = f /\ l = k)
      BY <1>9, <2>2, Zenon
    <3>3. OneHome(u)
      BY <1>1, Zenon
    <3> QED
      BY <3>1, <3>2, <3>3, KeptOnce, Zenon
  <2> QED
    BY <1>10, <2>1, <2>2, Zenon DEF Gathers
<1>12. ASSUME NEW c \in asked, ToKeep(c) PROVE Tracked(c)'
  <2>1. c.f \in Futures /\ c.kind \in Kinds
    BY <1>1, AskedFields, Zenon
  <2>2. PICK i \in 1..Len(callbacks[c.f][c.kind]) :
          callbacks[c.f][c.kind][i] = c
    BY <1>12, Zenon DEF ToKeep
  <2>3. CASE c.f = f /\ c.kind = k
    <3>1. i \in 1..Len(n) /\ n[i] = c
      BY <1>2, <2>2, <2>3, Zenon
    <3>2. ToRun(c)'
      BY <1>1, <1>2, <1>4, <3>1, ToRunNew, Zenon
    <3> QED
      BY <3>2, Zenon DEF Tracked
  <2>4. CASE ~(c.f = f /\ c.kind = k)
    <3>1. callbacks'[c.f][c.kind] = callbacks[c.f][c.kind]
      BY <1>5, <2>1, <2>4, Zenon
    <3>2. ~Due(c.kind, c.f)'
      BY <1>12, <2>1, <2>4, Zenon DEF ToKeep
    <3>3. ToKeep(c)'
      BY <1>12, <2>2, <3>1, <3>2, Zenon DEF ToKeep
    <3> QED
      BY <3>3, Zenon DEF Tracked
  <2> QED
    BY <2>3, <2>4, Zenon
<1>13. Continue(t, n)
  BY <1>2, Zenon
<1> QED
  BY <1>1, <1>4, <1>5, <1>7, <1>8, <1>9, <1>11, <1>12, <1>13, GatherStep, Zenon

\* A call that finds nothing to do.
LEMMA IdleStep ==
  ASSUME IInv, NEW t \in Threads, NEW what, NEW c, Calls(t, what, c),
         what # "user", Continue(t, <<>>),
         UNCHANGED <<dataVars, callbacks, othersThan>>
  PROVE  IInv'
BY PlainTuples, PlainsPass, QuietStep, Zenon

\* Future::discard runs the callbacks for the request.
LEMMA DiscardPass ==
  ASSUME IInv, NEW t \in Threads, NEW c, DiscardStep(t, c)
  PROVE  IInv'
<1>1. Types /\ Calls(t, "discard", c)
  BY Zenon DEF IInv, DiscardStep
<1>2. c \in Call /\ c.call = "discard" /\ c = Head(todo[t]) /\ todo[t] # <<>>
  BY <1>1, TopCall, Zenon
<1>3. c.f \in Futures /\ "discard" \in Kinds
  BY <1>2, CallFields DEF WithFuture, Kinds
<1>4. UNCHANGED <<state, associated, abandoned, latch, timer, armed, asked, ran>>
  BY DEF DiscardStep, othersThan
<1>5. CASE Continue(t, <<>>) /\ UNCHANGED <<discard, callbacks>>
  <2>1. UNCHANGED <<dataVars, callbacks, othersThan>>
    BY <1>4, <1>5 DEF dataVars, othersThan
  <2> QED
    BY <1>1, <1>5, <2>1, IdleStep, Zenon
<1>6. CASE /\ ~discard[c.f] /\ state[c.f] = "PENDING"
           /\ discard' = [discard EXCEPT ![c.f] = TRUE]
           /\ callbacks' = [callbacks EXCEPT ![c.f]["discard"] = <<>>]
           /\ Continue(t, callbacks[c.f]["discard"])
  <2>1. discard \in [Futures -> BOOLEAN] /\ abandoned' \in [Futures -> BOOLEAN]
    BY <1>1, <1>4, Zenon DEF Types
  <2>2. /\ discard' \in [Futures -> BOOLEAN] /\ discard'[c.f] = TRUE
        /\ \A g \in Futures : g # c.f => discard'[g] = discard[g]
    BY <1>3, <1>6, <2>1, Zenon
  <2>3. Steady
    BY <1>4, <1>6, <2>2, Zenon DEF Steady
  <2>4. Due("discard", c.f)'
    BY <2>2 DEF Due
  <2>5. ASSUME NEW g \in Futures, NEW l \in Kinds, ~(g = c.f /\ l = "discard"),
               Due(l, g)'
        PROVE  Due(l, g)
    <3>1. CASE l = "discard"
      BY <2>2, <2>5, <3>1 DEF Due
    <3>2. CASE l # "discard"
      BY <1>4, <2>5, <3>2 DEF Due, Kinds
    <3> QED
      BY <3>1, <3>2
  <2>6. Head(todo[t]).call # "user"
    BY <1>2
  <2>7. \A g \in Futures, l \in Kinds :
          ~(g = c.f /\ l = "discard") => (Due(l, g)' => Due(l, g))
    BY <2>5, Zenon
  <2>8. /\ UNCHANGED <<state, associated, latch, timer, armed, asked, ran>>
        /\ todo[t] # <<>> /\ state[c.f] = "PENDING"
        /\ callbacks' = [callbacks EXCEPT ![c.f]["discard"] = <<>>]
        /\ Continue(t, callbacks[c.f]["discard"])
    BY <1>2, <1>4, <1>6, Zenon
  <2> QED
    BY <1>3, <2>1, <2>2, <2>3, <2>4, <2>6, <2>7, <2>8, DrainStep, Zenon
<1> QED
  BY <1>5, <1>6, Zenon DEF DiscardStep

\* Abandonment runs the callbacks for it.
LEMMA AbandonPass ==
  ASSUME IInv, NEW t \in Threads, NEW c, AbandonStep(t, c)
  PROVE  IInv'
<1>1. Types /\ Calls(t, "abandon", c)
  BY Zenon DEF IInv, AbandonStep
<1>2. c \in Call /\ c.call = "abandon" /\ c = Head(todo[t]) /\ todo[t] # <<>>
  BY <1>1, TopCall, Zenon
<1>3. c.f \in Futures /\ "abandoned" \in Kinds
  BY <1>2, CallFields DEF WithFuture, Kinds
<1>4. UNCHANGED <<state, associated, discard, latch, timer, armed, asked, ran>>
  BY DEF AbandonStep, othersThan
<1>5. CASE Continue(t, <<>>) /\ UNCHANGED <<abandoned, callbacks>>
  <2>1. UNCHANGED <<dataVars, callbacks, othersThan>>
    BY <1>4, <1>5 DEF dataVars, othersThan
  <2> QED
    BY <1>1, <1>5, <2>1, IdleStep, Zenon
<1>6. CASE /\ ~abandoned[c.f] /\ state[c.f] = "PENDING"
           /\ abandoned' = [abandoned EXCEPT ![c.f] = TRUE]
           /\ callbacks' = [callbacks EXCEPT ![c.f]["abandoned"] = <<>>]
           /\ Continue(t, callbacks[c.f]["abandoned"])
  <2>1. abandoned \in [Futures -> BOOLEAN] /\ discard' \in [Futures -> BOOLEAN]
    BY <1>1, <1>4, Zenon DEF Types
  <2>2. /\ abandoned' \in [Futures -> BOOLEAN] /\ abandoned'[c.f] = TRUE
        /\ \A g \in Futures : g # c.f => abandoned'[g] = abandoned[g]
    BY <1>3, <1>6, <2>1, Zenon
  <2>3. Steady
    BY <1>4, <1>6, <2>2, Zenon DEF Steady
  <2>4. Due("abandoned", c.f)'
    BY <2>2 DEF Due
  <2>5. ASSUME NEW g \in Futures, NEW l \in Kinds,
               ~(g = c.f /\ l = "abandoned"), Due(l, g)'
        PROVE  Due(l, g)
    <3>1. CASE l = "abandoned"
      BY <2>2, <2>5, <3>1 DEF Due
    <3>2. CASE l # "abandoned"
      BY <1>4, <2>5, <3>2 DEF Due, Kinds
    <3> QED
      BY <3>1, <3>2
  <2>6. Head(todo[t]).call # "user"
    BY <1>2
  <2>7. \A g \in Futures, l \in Kinds :
          ~(g = c.f /\ l = "abandoned") => (Due(l, g)' => Due(l, g))
    BY <2>5, Zenon
  <2>8. /\ UNCHANGED <<state, associated, latch, timer, armed, asked, ran>>
        /\ todo[t] # <<>> /\ state[c.f] = "PENDING"
        /\ callbacks' = [callbacks EXCEPT ![c.f]["abandoned"] = <<>>]
        /\ Continue(t, callbacks[c.f]["abandoned"])
    BY <1>2, <1>4, <1>6, Zenon
  <2> QED
    BY <1>3, <2>1, <2>2, <2>3, <2>4, <2>6, <2>7, <2>8, DrainStep, Zenon
<1> QED
  BY <1>5, <1>6, Zenon DEF AbandonStep

\* A position in two vectors and one more call.
LEMMA Thirds ==
  ASSUME NEW a \in Nat, NEW b \in Nat
  PROVE  /\ \A i \in 1..b : a + i \in 1..(a + b) /\ a + i \in 1..(a + b + 1)
         /\ \A j \in 1..(a + b + 1) :
              j \in 1..a \/ (\E i \in 1..b : j = a + i) \/ j = a + b + 1
<1>1. \A i \in 1..b : a + i \in 1..(a + b) /\ a + i \in 1..(a + b + 1)
  OBVIOUS
<1>2. ASSUME NEW j \in 1..(a + b + 1), j \notin 1..a, j # a + b + 1
      PROVE  \E i \in 1..b : j = a + i
  <2>1. j - a \in 1..b /\ j = a + (j - a)
    BY <1>2
  <2> QED
    BY <2>1
<1> QED
  BY <1>1, <1>2

\* The calls n are those of two vectors and a last call.
MadeOf(n, v, w, d) ==
  /\ n \in Seq(Call)
  /\ \A i \in 1..Len(v) : i \in 1..Len(n) /\ n[i] = v[i]
  /\ \A i \in 1..Len(w) : Len(v) + i \in 1..Len(n) /\ n[Len(v) + i] = w[i]
  /\ \A j \in 1..Len(n) : \/ j \in 1..Len(v)
                          \/ \E i \in 1..Len(w) : j = Len(v) + i
                          \/ n[j] = d

\* So a completion makes the calls of two vectors and then clears them.
LEMMA Sources ==
  ASSUME NEW v \in Seq(Callback), NEW w \in Seq(Callback), NEW d \in Call,
         \A c \in Callback : c \in Call
  PROVE  MadeOf(v \o w \o <<d>>, v, w, d)
<1>1. v \in Seq(Call) /\ w \in Seq(Call)
  OBVIOUS
<1>2. /\ Len(v) \in Nat /\ Len(w) \in Nat
      /\ v \o w \in Seq(Call) /\ Len(v \o w) = Len(v) + Len(w)
      /\ \A i \in 1..Len(v) : (v \o w)[i] = v[i]
      /\ \A i \in 1..Len(w) : (v \o w)[Len(v) + i] = w[i]
  BY <1>1
<1>3. PICK x : x = v \o w
  OBVIOUS
<1>4. x \in Seq(Call)
  BY <1>2, <1>3, Zenon
<1>5. /\ x \o <<d>> \in Seq(Call) /\ Len(x \o <<d>>) = Len(x) + 1
      /\ \A i \in 1..Len(x) : (x \o <<d>>)[i] = x[i]
      /\ (x \o <<d>>)[Len(x) + 1] = d
  BY <1>4
<1>6. PICK n : n = x \o <<d>>
  OBVIOUS
<1>7. /\ Len(v) \in Nat /\ Len(w) \in Nat /\ n \in Seq(Call)
      /\ Len(n) = Len(v) + Len(w) + 1
      /\ \A i \in 1..(Len(v) + Len(w)) : n[i] = x[i]
      /\ n[Len(v) + Len(w) + 1] = d
      /\ \A i \in 1..Len(v) : x[i] = v[i]
      /\ \A i \in 1..Len(w) : x[Len(v) + i] = w[i]
  BY <1>2, <1>3, <1>5, <1>6, Zenon
<1>8. \A i \in 1..Len(v) : i \in 1..Len(n) /\ n[i] = v[i]
  BY <1>7
<1>9. /\ \A i \in 1..Len(w) : Len(v) + i \in 1..(Len(v) + Len(w))
                               /\ Len(v) + i \in 1..Len(n)
      /\ \A j \in 1..Len(n) : \/ j \in 1..Len(v)
                              \/ \E i \in 1..Len(w) : j = Len(v) + i
                              \/ j = Len(v) + Len(w) + 1
  <2>1. PICK a, b : a = Len(v) /\ b = Len(w)
    OBVIOUS
  <2>2. a \in Nat /\ b \in Nat /\ Len(n) = a + b + 1
    BY <1>7, <2>1, Zenon
  <2>3. /\ \A i \in 1..b : a + i \in 1..(a + b) /\ a + i \in 1..(a + b + 1)
        /\ \A j \in 1..(a + b + 1) :
             j \in 1..a \/ (\E i \in 1..b : j = a + i) \/ j = a + b + 1
    BY <2>2, Thirds
  <2> QED
    BY <2>1, <2>2, <2>3, Zenon
<1>10. /\ \A i \in 1..Len(w) :
            Len(v) + i \in 1..Len(n) /\ n[Len(v) + i] = w[i]
       /\ \A j \in 1..Len(n) : \/ j \in 1..Len(v)
                               \/ \E i \in 1..Len(w) : j = Len(v) + i
                               \/ n[j] = d
  BY <1>7, <1>9, Zenon
<1> QED
  BY <1>3, <1>6, <1>7, <1>8, <1>10, Zenon DEF MadeOf

\* The vector for a state.
LEMMA VectorOf ==
  ASSUME NEW to \in State \ {"PENDING"}, NEW k,
         k = CASE to = "READY" -> "ready" [] to = "FAILED" -> "failed"
               [] to = "DISCARDED" -> "discarded",
         NEW f \in Futures, state[f] = "PENDING", state'[f] = to,
         UNCHANGED <<discard, abandoned>>
  PROVE  /\ k \in Kinds /\ k # "any" /\ Due(k, f)' /\ Due("any", f)'
         /\ \A l \in Kinds : l # k /\ l # "any" /\ ~Due(l, f) => ~Due(l, f)'
<1>1. CASE to = "READY"
  <2>1. k = "ready"
    BY <1>1
  <2> QED
    BY <1>1, <2>1 DEF Kinds, Due
<1>2. CASE to = "FAILED"
  <2>1. k = "failed"
    BY <1>2
  <2> QED
    BY <1>2, <2>1 DEF Kinds, Due
<1>3. CASE to = "DISCARDED"
  <2>1. k = "discarded"
    BY <1>3
  <2> QED
    BY <1>3, <2>1 DEF Kinds, Due
<1> QED
  BY <1>1, <1>2, <1>3 DEF State

\* The clearing of the vectors is a call that holds nothing.
LEMMA ClearIs ==
  ASSUME NEW f \in Futures
  PROVE  /\ Clear(f) \in Call /\ Clear(f).call = "clear" /\ Clear(f).f = f
         /\ \A u : ~Carries(Clear(f), u)
BY DEF Clear, Call, Carries, Holder

\* Future::_set, Future::fail and Promise::discard(future) run two vectors.
LEMMA CompletePass ==
  ASSUME IInv, NEW t \in Threads, NEW c, CompleteStep(t, c)
  PROVE  IInv'
<1>1. Types /\ KeptOK /\ Calls(t, "complete", c) /\ \A u \in Users : OneHome(u)
  BY Zenon DEF IInv, CompleteStep
<1>2. c \in Call /\ c.call = "complete" /\ c = Head(todo[t]) /\ todo[t] # <<>>
  BY <1>1, TopCall, Zenon
<1>3. c.f \in Futures /\ c.to \in State \ {"PENDING"}
  BY <1>2, CallFields DEF WithFuture
<1>4. UNCHANGED <<discard, associated, abandoned, callbacks, latch, timer, armed,
                  asked, ran>>
  BY DEF CompleteStep, othersThan
<1>5. CASE Continue(t, <<>>) /\ UNCHANGED state
  <2>1. UNCHANGED <<dataVars, callbacks, othersThan>>
    BY <1>4, <1>5 DEF dataVars, othersThan
  <2> QED
    BY <1>1, <1>5, <2>1, IdleStep, Zenon
<1>6. CASE /\ state[c.f] = "PENDING" /\ state' = [state EXCEPT ![c.f] = c.to]
           /\ Continue(t, callbacks[c.f][CASE c.to = "READY" -> "ready"
                                           [] c.to = "FAILED" -> "failed"
                                           [] c.to = "DISCARDED" -> "discarded"]
                          \o callbacks[c.f]["any"] \o <<Clear(c.f)>>)
  <2>1. PICK k : k = CASE c.to = "READY" -> "ready" [] c.to = "FAILED" -> "failed"
                       [] c.to = "DISCARDED" -> "discarded"
    OBVIOUS
  <2>2. PICK f, to, v, w : /\ f = c.f /\ to = c.to
                           /\ v = callbacks[f][k] /\ w = callbacks[f]["any"]
    OBVIOUS
  <2>3. PICK n : n = v \o w \o <<Clear(f)>>
    OBVIOUS
  <2>4. Continue(t, n)
    BY <1>6, <2>1, <2>2, <2>3, Zenon
  <2>5. /\ f \in Futures /\ to \in State \ {"PENDING"} /\ state[f] = "PENDING"
        /\ state \in [Futures -> State]
        /\ callbacks \in [Futures -> [Kinds -> Seq(Callback)]]
        /\ discard \in [Futures -> BOOLEAN] /\ abandoned \in [Futures -> BOOLEAN]
        /\ todo \in [Threads -> Seq(Call)]
    BY <1>1, <1>3, <1>6, <2>2, Zenon DEF Types
  <2>6. /\ state' \in [Futures -> State] /\ state'[f] = to /\ to # "PENDING"
        /\ \A g \in Futures : g # f => state'[g] = state[g]
        /\ UNCHANGED <<discard, abandoned>>
    BY <1>4, <1>6, <2>2, <2>5, Zenon
  <2>7. /\ k \in Kinds /\ k # "any" /\ Due(k, f)' /\ Due("any", f)'
        /\ \A l \in Kinds : l # k /\ l # "any" /\ ~Due(l, f) => ~Due(l, f)'
    <3>1. k = CASE to = "READY" -> "ready" [] to = "FAILED" -> "failed"
                [] to = "DISCARDED" -> "discarded"
      BY <2>1, <2>2, Zenon
    <3> QED
      BY <2>5, <2>6, <3>1, VectorOf, Zenon
  <2>8. "any" \in Kinds
    BY DEF Kinds
  <2>9. v \in Seq(Callback) /\ w \in Seq(Callback)
    BY <2>2, <2>5, <2>7, <2>8, Zenon
  <2>10. /\ Clear(f) \in Call /\ Clear(f).call = "clear" /\ Clear(f).f = f
         /\ \A u : ~Carries(Clear(f), u)
    BY <2>5, ClearIs, Zenon
  <2>11. MadeOf(n, v, w, Clear(f))
    <3>1. \A x \in Callback : x \in Call
      BY CallbackParts, Zenon
    <3> QED
      BY <2>3, <2>9, <2>10, <3>1, Sources, Zenon
  <2>12. Steady
    BY <2>5, <2>6, Zenon DEF Steady
  <2>13. /\ \A i \in 1..Len(v) : v[i] \in Callback /\ Matches(v[i], f, k)
         /\ \A i \in 1..Len(w) : w[i] \in Callback /\ Matches(w[i], f, "any")
    <3>1. /\ \A i \in 1..Len(v) : v[i] \in Callback
          /\ \A i \in 1..Len(w) : w[i] \in Callback
      BY <2>9
    <3> QED
      BY <1>1, <2>2, <2>5, <2>7, <2>8, <3>1, Zenon DEF KeptOK
  <2>14. Sound(n)
    <3>1. Clear(f) \in Timely'
      <4>1. Clear(f).call # "user" /\ state'[Clear(f).f] # "PENDING"
        BY <2>6, <2>10
      <4> QED
        BY <2>10, <4>1, Zenon DEF Timely
    <3>2. /\ \A i \in 1..Len(v) : v[i] \in Timely'
          /\ \A i \in 1..Len(w) : w[i] \in Timely'
      BY <2>5, <2>7, <2>8, <2>13, DueTimely, Zenon
    <3> QED
      BY <2>11, <3>1, <3>2, Zenon DEF Sound, MadeOf
  <2>15. ASSUME NEW j \in 1..Len(n), NEW u, Carries(n[j], u)
         PROVE  \/ j \in 1..Len(v) /\ InKept(u, f, k, j)
                \/ \E i \in 1..Len(w) : j = Len(v) + i /\ InKept(u, f, "any", i)
    <3>1. CASE j \in 1..Len(v)
      <4>1. n[j] = v[j]
        BY <2>11, <3>1, Zenon DEF MadeOf
      <4> QED
        BY <2>2, <2>5, <2>15, <3>1, <4>1, Zenon DEF InKept
    <3>2. CASE j \notin 1..Len(v)
      <4>1. n[j] # Clear(f)
        BY <2>10, <2>15, Zenon
      <4>2. PICK i \in 1..Len(w) : j = Len(v) + i
        BY <2>11, <3>2, <4>1, Zenon DEF MadeOf
      <4>3. n[j] = w[i]
        BY <2>11, <4>2, Zenon DEF MadeOf
      <4>4. InKept(u, f, "any", i)
        BY <2>2, <2>5, <2>15, <4>3, Zenon DEF InKept
      <4> QED
        BY <4>2, <4>4
    <3> QED
      BY <3>1, <3>2
  <2>16. ASSUME NEW u \in Users, NEW g \in Futures, NEW l \in Kinds, NEW i \in Nat,
                InKept(u, g, l, i)'
         PROVE  InKept(u, g, l, i) /\ g # f
    <3>1. g # f
      BY <2>6, <2>16, Zenon DEF InKept
    <3> QED
      BY <1>4, <2>6, <2>16, <3>1, Zenon DEF InKept
  <2>17. \A i : (i \in 1..Len(v) => i \in Nat) /\ (i \in 1..Len(w) => i \in Nat)
    OBVIOUS
  <2>18. ASSUME NEW u \in Users PROVE Gathers(u, f, n)
    <3>0. OneHome(u)
      BY <1>1, Zenon
    <3>1. ASSUME NEW j \in 1..Len(n), Carries(n[j], u)
          PROVE  \E l \in Kinds, i \in Nat : InKept(u, f, l, i)
      BY <2>7, <2>8, <2>15, <2>17, <3>1, Zenon
    <3>2. ASSUME NEW i \in 1..Len(n), NEW j \in 1..Len(n),
                 Carries(n[i], u), Carries(n[j], u)
          PROVE  i = j
      <4>1. \/ i \in 1..Len(v) /\ InKept(u, f, k, i)
            \/ \E a \in 1..Len(w) : i = Len(v) + a /\ InKept(u, f, "any", a)
        BY <2>15, <3>2, Zenon
      <4>2. \/ j \in 1..Len(v) /\ InKept(u, f, k, j)
            \/ \E b \in 1..Len(w) : j = Len(v) + b /\ InKept(u, f, "any", b)
        BY <2>15, <3>2, Zenon
      <4>3. CASE i \in 1..Len(v) /\ InKept(u, f, k, i)
        <5>1. ~\E b \in 1..Len(w) : InKept(u, f, "any", b)
          BY <2>5, <2>7, <2>8, <2>17, <3>0, <4>3, KeptOnce, Zenon
        <5>2. j \in 1..Len(v) /\ InKept(u, f, k, j)
          BY <4>2, <5>1, Zenon
        <5> QED
          BY <2>5, <2>7, <2>17, <3>0, <4>3, <5>2, KeptOnce, Zenon
      <4>4. CASE \E a \in 1..Len(w) : i = Len(v) + a /\ InKept(u, f, "any", a)
        <5>1. PICK a \in 1..Len(w) : i = Len(v) + a /\ InKept(u, f, "any", a)
          BY <4>4
        <5>2. ~(j \in 1..Len(v) /\ InKept(u, f, k, j))
          BY <2>5, <2>7, <2>8, <2>17, <3>0, <5>1, KeptOnce, Zenon
        <5>3. PICK b \in 1..Len(w) : j = Len(v) + b /\ InKept(u, f, "any", b)
          BY <4>2, <5>2, Zenon
        <5>4. a = b
          BY <2>5, <2>8, <2>17, <3>0, <5>1, <5>3, KeptOnce, Zenon
        <5> QED
          BY <5>1, <5>3, <5>4, Zenon
      <4> QED
        BY <4>1, <4>3, <4>4, Zenon
    <3>3. ASSUME NEW j \in 1..Len(n), Carries(n[j], u), NEW g \in Futures,
                 NEW l \in Kinds, NEW i \in Nat, InKept(u, g, l, i)'
          PROVE  FALSE
      <4>1. PICK m \in Kinds, a \in Nat : InKept(u, f, m, a)
        BY <3>1, <3>3, Zenon
      <4>2. InKept(u, g, l, i) /\ g # f
        BY <2>16, <3>3, Zenon
      <4> QED
        BY <2>5, <3>0, <4>1, <4>2, KeptOnce, Zenon
    <3> QED
      BY <3>1, <3>2, <3>3, Zenon DEF Gathers
  <2>19. ASSUME NEW d \in asked, ToKeep(d) PROVE Tracked(d)'
    <3>1. d.f \in Futures /\ d.kind \in Kinds /\ d.u \in Users /\ d.call = "user"
      BY <1>1, AskedFields, Zenon
    <3>2. PICK i \in 1..Len(callbacks[d.f][d.kind]) :
            callbacks[d.f][d.kind][i] = d
      BY <2>19, Zenon DEF ToKeep
    <3>3. CASE d.f # f
      <4>1. state'[d.f] = state[d.f]
        BY <2>6, <3>1, <3>3, Zenon
      <4>2. ~Due(d.kind, d.f)'
        BY <2>6, <2>19, <4>1, Zenon DEF ToKeep, Due
      <4>3. ToKeep(d)'
        BY <1>4, <2>19, <4>1, <4>2, Zenon DEF ToKeep
      <4> QED
        BY <4>3, Zenon DEF Tracked
    <3>4. CASE d.f = f /\ d.kind = k
      <4>1. i \in 1..Len(n) /\ n[i] = d
        BY <2>2, <2>11, <3>2, <3>4, Zenon DEF MadeOf
      <4>2. n \in Seq(Call)
        BY <2>11, Zenon DEF MadeOf
      <4>3. ToRun(d)'
        BY <1>2, <2>4, <2>5, <4>1, <4>2, ToRunNew, Zenon
      <4> QED
        BY <4>3, Zenon DEF Tracked
    <3>5. CASE d.f = f /\ d.kind = "any"
      <4>1. Len(v) + i \in 1..Len(n) /\ n[Len(v) + i] = d
        BY <2>2, <2>11, <3>2, <3>5, Zenon DEF MadeOf
      <4>2. n \in Seq(Call)
        BY <2>11, Zenon DEF MadeOf
      <4>3. ToRun(d)'
        BY <1>2, <2>4, <2>5, <4>1, <4>2, ToRunNew, Zenon
      <4> QED
        BY <4>3, Zenon DEF Tracked
    <3>6. CASE d.f = f /\ d.kind # k /\ d.kind # "any"
      <4>1. ~Due(d.kind, d.f)' /\ state'[d.f] # "PENDING"
        BY <2>6, <2>7, <2>19, <3>1, <3>6, Zenon DEF ToKeep
      <4>2. i \in Nat /\ InKept(d.u, f, d.kind, i)
        <5>1. i \in Nat
          OBVIOUS
        <5>2. Carries(d, d.u)
          BY <3>1 DEF Carries, Holder
        <5> QED
          BY <2>5, <3>2, <3>6, <5>1, <5>2, Zenon DEF InKept
      <4>3. OneHome(d.u)
        BY <1>1, <3>1, Zenon
      <4>4. /\ \A s \in Threads, x \in Nat : ~InTodo(d.u, s, x)
            /\ \A e \in armed : e.u # d.u
            /\ ran[d.u] = <<>>
        BY <2>5, <3>1, <4>2, <4>3, Zenon DEF OneHome
      <4>5. ASSUME NEW j \in 1..Len(n) PROVE ~Carries(n[j], d.u)
        <5> SUFFICES ASSUME Carries(n[j], d.u) PROVE FALSE
          OBVIOUS
        <5>1. CASE InKept(d.u, f, k, j) /\ j \in 1..Len(v)
          <6>1. j \in Nat
            BY <2>17, <5>1, Zenon
          <6>2. k = d.kind
            BY <2>5, <2>7, <3>1, <4>2, <4>3, <5>1, <6>1, KeptOnce, Zenon
          <6> QED
            BY <3>6, <6>2, Zenon
        <5>2. CASE \E a \in 1..Len(w) : InKept(d.u, f, "any", a)
          <6>1. PICK a \in Nat : InKept(d.u, f, "any", a)
            BY <2>17, <5>2, Zenon
          <6>2. "any" = d.kind
            BY <2>5, <2>8, <3>1, <4>2, <4>3, <6>1, KeptOnce, Zenon
          <6> QED
            BY <3>6, <6>2, Zenon
        <5> QED
          BY <2>15, <5>1, <5>2, Zenon
      <4>6. \A s \in Threads, x \in Nat : ~InTodo(d.u, s, x)'
        <5>1. NewHeights(d.u, t, n)
          <6>1. n \in Seq(Call)
            BY <2>11, Zenon DEF MadeOf
          <6> QED
            BY <1>2, <2>4, <2>5, <6>1, Heights, Zenon
        <5> QED
          BY <4>4, <4>5, <5>1, Zenon DEF NewHeights
      <4>7. \A g \in Futures, l \in Kinds, x \in Nat : ~InKept(d.u, g, l, x)'
        <5> SUFFICES ASSUME NEW g \in Futures, NEW l \in Kinds, NEW x \in Nat,
                            InKept(d.u, g, l, x)'
                     PROVE  FALSE
          OBVIOUS
        <5>1. InKept(d.u, g, l, x) /\ g # f
          BY <2>16, <3>1, Zenon
        <5> QED
          BY <2>5, <3>1, <4>2, <4>3, <5>1, KeptOnce, Zenon
      <4>8. Nowhere(d.u)'
        BY <1>4, <4>4, <4>6, <4>7, Zenon DEF Nowhere
      <4>9. Dropped(d)'
        BY <4>1, <4>8, Zenon DEF Dropped
      <4> QED
        BY <4>9, Zenon DEF Tracked
    <3> QED
      BY <3>3, <3>4, <3>5, <3>6, Zenon
  <2>20. /\ discard' \in [Futures -> BOOLEAN] /\ abandoned' \in [Futures -> BOOLEAN]
         /\ callbacks' \in [Futures -> [Kinds -> Seq(Callback)]]
         /\ UNCHANGED <<associated, latch, timer, armed, asked, ran>>
         /\ n \in Seq(Call)
    BY <1>4, <2>5, <2>11, Zenon DEF MadeOf
  <2>21. KeptOK'
    <3>1. callbacks' = callbacks
      BY <1>4, Zenon
    <3> QED
      BY <1>1, <3>1 DEF KeptOK
  <2>22. Head(todo[t]).call # "user" /\ todo[t] # <<>>
    BY <1>2
  <2>23. \A u \in Users, g \in Futures, l \in Kinds, i \in Nat :
           InKept(u, g, l, i)' => InKept(u, g, l, i)
    BY <2>16, Zenon
  <2> QED
    BY <2>4, <2>5, <2>6, <2>12, <2>14, <2>18, <2>19, <2>20, <2>21, <2>22, <2>23,
       GatherStep, Zenon
<1> QED
  BY <1>5, <1>6, Zenon DEF CompleteStep

-----------------------------------------------------------------------------
(* Steps that register, arm or run what they hold.                         *)

\* What only the call performed holds is nowhere in the stacks afterwards.
LEMMA Leaves ==
  ASSUME NEW t \in Threads, NEW n \in Seq(Call),
         todo \in [Threads -> Seq(Call)], todo[t] # <<>>, Continue(t, n),
         NEW u \in Users, OneHome(u), Carries(Head(todo[t]), u),
         \A j \in 1..Len(n) : ~Carries(n[j], u)
  PROVE  /\ \A s \in Threads, d \in Nat : ~InTodo(u, s, d)'
         /\ \A f \in Futures, k \in Kinds, i \in Nat : ~InKept(u, f, k, i)
         /\ \A e \in armed : e.u # u
         /\ ran[u] = <<>> /\ ~Nowhere(u)
<1>0. NewHeights(u, t, n)
  BY Heights, Zenon
<1>1. Len(todo[t]) - 1 \in Nat /\ InTodo(u, t, Len(todo[t]) - 1)
  BY TopHeight, Zenon
<1>2. /\ \A f \in Futures, k \in Kinds, i \in Nat : ~InKept(u, f, k, i)
      /\ \A e \in armed : e.u # u
      /\ ran[u] = <<>>
  BY <1>1, Zenon DEF OneHome
<1>4. ~Nowhere(u)
  BY <1>1, Zenon DEF Nowhere
<1>3. ASSUME NEW s \in Threads, NEW d \in Nat, InTodo(u, s, d)' PROVE FALSE
  <2>1. InTodo(u, s, d) /\ (s = t => d < Len(todo[t]) - 1)
    BY <1>0, <1>3, Zenon DEF NewHeights
  <2>2. s = t /\ d = Len(todo[t]) - 1
    BY <1>1, <2>1, Zenon DEF OneHome
  <2>3. Len(todo[t]) \in Nat
    OBVIOUS
  <2> QED
    BY <2>1, <2>2, <2>3
<1> QED
  BY <1>2, <1>3, <1>4, Zenon

\* What the call performed does not hold stays where it is.
LEMMA Stays ==
  ASSUME NEW t \in Threads, NEW n \in Seq(Call),
         todo \in [Threads -> Seq(Call)], todo[t] # <<>>, Continue(t, n),
         NEW u \in Users, \A j \in 1..Len(n) : ~Carries(n[j], u),
         NotElsewhere(u)
  PROVE  (OneHome(u) => OneHome(u)') /\ (Nowhere(u) => Nowhere(u)')
<1>0. NewHeights(u, t, n)
  BY Heights, Zenon
<1>1. ASSUME NEW s \in Threads, NEW d \in Nat, InTodo(u, s, d)'
      PROVE  InTodo(u, s, d)
  BY <1>0, <1>1, Zenon DEF NewHeights
<1>2. Unmoved(u)
  BY <1>1, Zenon DEF Unmoved, NotElsewhere
<1> QED
  BY <1>2, UnmovedHome, Zenon

\* The empty sequence of calls.
LEMMA NoCalls ==
  /\ <<>> \in Seq(Call) /\ \A j \in 1..Len(<<>>) : FALSE
OBVIOUS

\* A registration holds what its callback holds.
LEMMA OnCarries ==
  ASSUME NEW c \in Call, c.call = "on", NEW u
  PROVE  Carries(c.cb, u) <=> Carries(c, u)
<1>1. c.cb \in Callback
  BY CallParts, Zenon
<1>2. c.cb.call \notin {"on", "start"}
  BY <1>1, CallbackParts, Zenon
<1>3. "on" \notin Holder /\ "start" # "on"
  BY DEF Holder
<1> QED
  BY <1>2, <1>3, Zenon DEF Carries

\* The callback that a registration adds to those that are tracked.
LEMMA Asks ==
  ASSUME NEW c \in Call, c.call = "on", c.cb.call = "user" => Tracked(c.cb)',
         asked' = IF c.cb.call = "user" THEN asked \cup {c.cb} ELSE asked,
         NEW d \in asked'
  PROVE  d \in asked \/ Fresh(d)
<1>1. /\ c.cb \in Callback /\ c.kind \in Kinds
      /\ c.cb.call = "user" => c.cb.kind = c.kind
  BY CallParts, Zenon DEF Matches
<1>2. d \in asked \/ (d = c.cb /\ c.cb.call = "user")
  OBVIOUS
<1> QED
  BY <1>1, <1>2, Zenon DEF Fresh

\* A registration that is late runs the callback at once.
LEMMA OnDuePass ==
  ASSUME IInv, NEW t \in Threads, NEW c, OnStep(t, c), Due(c.kind, c.f)
  PROVE  IInv'
<1>1. Types /\ KeptOK /\ Calls(t, "on", c) /\ todo \in [Threads -> Seq(Call)]
  BY Zenon DEF IInv, Types, OnStep
<1>2. c \in Call /\ c.call = "on" /\ c = Head(todo[t]) /\ todo[t] # <<>>
  BY <1>1, TopCall, Zenon
<1>3. PICK n : n = <<c.cb>>
  OBVIOUS
<1>4. /\ c.kind \in Kinds /\ c.cb \in Callback /\ Matches(c.cb, c.f, c.kind)
      /\ c.cb \in Call /\ c.cb.call # "clear"
  BY <1>2, CallParts, CallbackParts, Zenon
<1>5. n \in Seq(Call) /\ Len(n) = 1 /\ n[1] = c.cb /\ \A j \in 1..Len(n) : j = 1
  BY <1>3, <1>4
<1>6. Continue(t, n) /\ callbacks' = callbacks
  BY <1>3, Zenon DEF OnStep
<1>7. /\ UNCHANGED <<state, discard, abandoned, ran>>
      /\ associated' = associated /\ latch' = latch /\ timer' = timer
      /\ armed' = armed
  BY DEF OnStep, dataVars
<1>8. Passes(c, n)
  <2>1. Due("any", c.f) => state[c.f] # "PENDING"
    BY DEF Due
  <2>2. c.cb \in Timely
    BY <1>4, <2>1, Zenon DEF Timely, Matches
  <2>3. HandsOn(c, n)
    BY <1>2, <1>5, OnCarries, Zenon DEF HandsOn
  <2> QED
    BY <1>5, <2>2, <2>3, Zenon DEF Passes
<1>9. 1 \in 1..Len(n)
  BY <1>5
<1>10. Tracked(c.cb)'
  BY <1>1, <1>2, <1>5, <1>6, <1>9, ToRunNew, Zenon DEF Tracked
<1>11. \A d \in asked' : d \in asked \/ Fresh(d)
  <2>1. asked' = IF c.cb.call = "user" THEN asked \cup {c.cb} ELSE asked
    BY Zenon DEF OnStep
  <2> QED
    BY <1>2, <1>10, <2>1, Asks, Zenon
<1>12. /\ associated' \in [Futures -> BOOLEAN]
       /\ latch' \in [Futures -> BOOLEAN] /\ timer' \in [Futures -> BOOLEAN]
       /\ callbacks' \in [Futures -> [Kinds -> Seq(Callback)]]
       /\ armed' \subseteq armed
  BY <1>1, <1>6, <1>7, Zenon DEF Types
<1>13. KeptOK'
  BY <1>1, <1>6, Zenon DEF KeptOK
<1>14. /\ \A u \in Users, f \in Futures, k \in Kinds, i \in Nat :
            InKept(u, f, k, i)' => InKept(u, f, k, i)
       /\ \A d \in asked : ToKeep(d) => ToKeep(d)'
  <2>1. state' = state /\ discard' = discard /\ abandoned' = abandoned
    BY <1>7
  <2> QED
    BY <1>6, <2>1, Zenon DEF InKept, ToKeep, Due
<1>15. Head(todo[t]).call # "user"
  BY <1>2
<1> QED
  BY <1>2, <1>6, <1>7, <1>8, <1>11, <1>12, <1>13, <1>14, <1>15, PassStep, Zenon

\* What a step that leaves states and registrations alone does not change.
LEMMA NoEffect ==
  ASSUME UNCHANGED <<state, discard, abandoned, callbacks>>
  PROVE  /\ KeptOK => KeptOK'
         /\ \A u \in Users, f \in Futures, k \in Kinds, i \in Nat :
              InKept(u, f, k, i)' => InKept(u, f, k, i)
         /\ \A f \in Futures, k \in Kinds \cup {"after"} : Due(k, f)' <=> Due(k, f)
         /\ \A d : ToKeep(d) => ToKeep(d)'
<1>1. /\ state' = state /\ discard' = discard /\ abandoned' = abandoned
      /\ callbacks' = callbacks
  OBVIOUS
<1> QED
  BY <1>1, Zenon DEF InKept, ToKeep, Due, KeptOK

\* A step that makes no call and finds another home for what it holds.
LEMMA LeaveStep ==
  ASSUME IInv, NEW t \in Threads, todo[t] # <<>>, Continue(t, <<>>),
         UNCHANGED <<dataVars, latch, timer>>,
         callbacks' \in [Futures -> [Kinds -> Seq(Callback)]], KeptOK',
         armed' \subseteq Expiry, ran' \in [Users -> Seq(BOOLEAN)], RanOK',
         \A u \in Users :
           IF Carries(Head(todo[t]), u) THEN OneHome(u)' ELSE NotElsewhere(u),
         \A u \in Users : ran[u] # <<>> => ran'[u] # <<>>,
         \A d \in asked : Head(todo[t]) = d \/ ToKeep(d) => Tracked(d)',
         \A d \in asked' : d \in asked \/ Fresh(d)
  PROVE  IInv'
<1>1. Types /\ todo \in [Threads -> Seq(Call)] /\ \A u \in Users : OneHome(u)
  BY Zenon DEF IInv, Types
<1>2. PICK n \in Seq(Call) : Continue(t, n) /\ \A j \in 1..Len(n) : FALSE
  BY NoCalls, Zenon
<1>3. /\ UNCHANGED <<state, discard, abandoned>>
      /\ state' = state /\ discard' = discard /\ abandoned' = abandoned
      /\ associated' = associated /\ latch' = latch /\ timer' = timer
  BY DEF dataVars
<1>4. Steady /\ Sound(n)
  BY <1>2, <1>3, SteadySame, Zenon DEF Sound
<1>5. ASSUME NEW u \in Users
      PROVE  OneHome(u)' /\ (Nowhere(u) => Nowhere(u)')
  <2>1. CASE ~Carries(Head(todo[t]), u)
    BY <1>1, <1>2, <2>1, Stays, Zenon
  <2>2. CASE Carries(Head(todo[t]), u)
    BY <1>1, <1>2, <2>2, Leaves, Zenon
  <2> QED
    BY <2>1, <2>2
<1>6. /\ state' \in [Futures -> State] /\ discard' \in [Futures -> BOOLEAN]
      /\ abandoned' \in [Futures -> BOOLEAN]
      /\ associated' \in [Futures -> BOOLEAN]
      /\ latch' \in [Futures -> BOOLEAN] /\ timer' \in [Futures -> BOOLEAN]
  BY <1>1, <1>3, Zenon DEF Types
<1> QED
  BY <1>2, <1>4, <1>5, <1>6, Assemble, Zenon

\* What the call performed holds is nowhere else.
LEMMA LeftBehind ==
  ASSUME IInv, NEW t \in Threads, todo[t] # <<>>, Continue(t, <<>>),
         NEW u \in Users, Carries(Head(todo[t]), u)
  PROVE  /\ \A s \in Threads, d \in Nat : ~InTodo(u, s, d)'
         /\ \A f \in Futures, k \in Kinds, i \in Nat : ~InKept(u, f, k, i)
         /\ \A e \in armed : e.u # u
         /\ ran[u] = <<>>
<1>1. todo \in [Threads -> Seq(Call)] /\ OneHome(u)
  BY Zenon DEF IInv, Types
<1>2. PICK n \in Seq(Call) : Continue(t, n) /\ \A j \in 1..Len(n) : FALSE
  BY NoCalls, Zenon
<1> QED
  BY <1>1, <1>2, Leaves, Zenon

\* A registration for what can no longer happen drops the callback.
LEMMA OnDropPass ==
  ASSUME IInv, NEW t \in Threads, NEW c, OnStep(t, c), ~Due(c.kind, c.f),
         state[c.f] # "PENDING"
  PROVE  IInv'
<1>1. /\ Types /\ KeptOK /\ RanOK /\ Calls(t, "on", c)
      /\ callbacks \in [Futures -> [Kinds -> Seq(Callback)]]
      /\ armed \subseteq Expiry /\ ran \in [Users -> Seq(BOOLEAN)]
  BY Zenon DEF IInv, Types, OnStep
<1>2. c \in Call /\ c.call = "on" /\ c = Head(todo[t]) /\ todo[t] # <<>>
  BY <1>1, TopCall, Zenon
<1>3. c.f \in Futures /\ c.kind \in Kinds /\ Matches(c.cb, c.f, c.kind)
  BY <1>2, CallFields, CallParts DEF WithFuture
<1>4. Continue(t, <<>>) /\ callbacks' = callbacks
  BY Zenon DEF OnStep
<1>5. /\ UNCHANGED <<dataVars, latch, timer>> /\ armed' = armed /\ ran' = ran
      /\ UNCHANGED <<state, discard, abandoned, callbacks>> /\ state' = state
  BY <1>4 DEF OnStep, dataVars
<1>6. /\ KeptOK'
      /\ \A u \in Users, f \in Futures, k \in Kinds, i \in Nat :
           InKept(u, f, k, i)' => InKept(u, f, k, i)
      /\ ~Due(c.kind, c.f)'
      /\ \A d : ToKeep(d) => ToKeep(d)'
  BY <1>1, <1>3, <1>5, NoEffect, Zenon
<1>7. ASSUME NEW u \in Users, Carries(c, u) PROVE Nowhere(u)'
  <2>1. /\ \A s \in Threads, d \in Nat : ~InTodo(u, s, d)'
        /\ \A f \in Futures, k \in Kinds, i \in Nat : ~InKept(u, f, k, i)
        /\ \A e \in armed : e.u # u
        /\ ran[u] = <<>>
    BY <1>2, <1>4, <1>7, LeftBehind, Zenon
  <2> QED
    BY <1>5, <1>6, <2>1, Zenon DEF Nowhere
<1>8. ASSUME NEW u \in Users
      PROVE  IF Carries(Head(todo[t]), u) THEN OneHome(u)' ELSE NotElsewhere(u)
  <2>1. NotElsewhere(u)
    BY <1>5, <1>6, Zenon DEF NotElsewhere
  <2>2. ASSUME Nowhere(u)' PROVE OneHome(u)'
    BY <2>2, OnlyTodo, Zenon DEF Nowhere
  <2> QED
    BY <1>2, <1>7, <2>1, <2>2, Zenon
<1>9. c.cb.call = "user" => Tracked(c.cb)'
  <2> SUFFICES ASSUME c.cb.call = "user" PROVE Dropped(c.cb)'
    BY Zenon DEF Tracked
  <2>1. c.cb.f = c.f /\ c.cb.kind = c.kind
    BY <1>3, Zenon DEF Matches
  <2>2. c.cb.u \in Users /\ Carries(c.cb, c.cb.u)
    <3>1. c.cb \in Callback
      BY <1>2, CallParts, Zenon
    <3>2. "user" \in Holder
      BY DEF Holder
    <3> QED
      BY <3>1, <3>2, CallbackFacts, Zenon DEF Carries
  <2>3. Nowhere(c.cb.u)'
    BY <1>2, <1>7, <2>2, OnCarries, Zenon
  <2> QED
    BY <1>5, <1>6, <2>1, <2>3, Zenon DEF Dropped
<1>10. asked' = IF c.cb.call = "user" THEN asked \cup {c.cb} ELSE asked
  BY Zenon DEF OnStep
<1>11. \A d \in asked' : d \in asked \/ Fresh(d)
  BY <1>2, <1>9, <1>10, Asks, Zenon
<1>12. ASSUME NEW d \in asked, Head(todo[t]) = d \/ ToKeep(d)
       PROVE  Tracked(d)'
  <2>1. d.call = "user" /\ "user" # "on"
    BY <1>1, AskedFields, Zenon
  <2> QED
    BY <1>2, <1>6, <1>12, <2>1, Zenon DEF Tracked
<1>13. RanOK' /\ \A u \in Users : ran[u] # <<>> => ran'[u] # <<>>
  BY <1>1, <1>5, Zenon DEF RanOK
<1>14. /\ callbacks' \in [Futures -> [Kinds -> Seq(Callback)]]
       /\ armed' \subseteq Expiry /\ ran' \in [Users -> Seq(BOOLEAN)]
  BY <1>1, <1>4, <1>5, Zenon
<1> QED
  BY <1>2, <1>4, <1>5, <1>6, <1>8, <1>11, <1>12, <1>13, <1>14, LeaveStep, Zenon

\* A registration with a pending future keeps the callback.
LEMMA OnKeepPass ==
  ASSUME IInv, NEW t \in Threads, NEW c, OnStep(t, c), ~Due(c.kind, c.f),
         state[c.f] = "PENDING"
  PROVE  IInv'
<1>1. /\ Types /\ KeptOK /\ RanOK /\ Calls(t, "on", c)
      /\ callbacks \in [Futures -> [Kinds -> Seq(Callback)]]
      /\ armed \subseteq Expiry /\ ran \in [Users -> Seq(BOOLEAN)]
  BY Zenon DEF IInv, Types, OnStep
<1>2. c \in Call /\ c.call = "on" /\ c = Head(todo[t]) /\ todo[t] # <<>>
  BY <1>1, TopCall, Zenon
<1>3. /\ c.f \in Futures /\ c.kind \in Kinds /\ c.cb \in Callback
      /\ Matches(c.cb, c.f, c.kind)
  BY <1>2, CallFields, CallParts DEF WithFuture
<1>4. /\ Continue(t, <<>>)
      /\ callbacks' = [callbacks EXCEPT ![c.f][c.kind] = Append(@, c.cb)]
  BY Zenon DEF OnStep
<1>5. /\ UNCHANGED <<dataVars, latch, timer>> /\ armed' = armed /\ ran' = ran
      /\ UNCHANGED <<state, discard, abandoned>>
      /\ state' = state /\ discard' = discard /\ abandoned' = abandoned
  BY <1>4 DEF OnStep, dataVars
<1>6. /\ callbacks' \in [Futures -> [Kinds -> Seq(Callback)]]
      /\ Grown(c.f, c.kind, c.cb)
  BY <1>1, <1>3, <1>4, Registered, Zenon
<1>7. KeptOK'
  BY <1>1, <1>3, <1>6, GrownMatches, Zenon
<1>8. ASSUME NEW u \in Users
      PROVE  IF Carries(Head(todo[t]), u) THEN OneHome(u)' ELSE NotElsewhere(u)
  <2>1. \A f \in Futures, k \in Kinds, i \in Nat : InKept(u, f, k, i)' =>
          \/ InKept(u, f, k, i)
          \/ /\ f = c.f /\ k = c.kind /\ i = Len(callbacks[c.f][c.kind]) + 1
             /\ Carries(c, u)
    <3>1. Carries(c.cb, u) <=> Carries(c, u)
      BY <1>2, OnCarries, Zenon
    <3>2. ASSUME NEW f \in Futures, NEW k \in Kinds, NEW i \in Nat,
                 InKept(u, f, k, i)'
          PROVE  \/ InKept(u, f, k, i)
                 \/ /\ f = c.f /\ k = c.kind
                    /\ i = Len(callbacks[c.f][c.kind]) + 1 /\ Carries(c.cb, u)
      <4>1. PICK ff, kk, cb : ff = c.f /\ kk = c.kind /\ cb = c.cb
        OBVIOUS
      <4>2. /\ ff \in Futures /\ kk \in Kinds /\ Grown(ff, kk, cb)
            /\ state' = state
        BY <1>3, <1>5, <1>6, <4>1, Zenon
      <4>3. \/ InKept(u, f, k, i)
            \/ /\ f = ff /\ k = kk /\ i = Len(callbacks[ff][kk]) + 1
               /\ Carries(cb, u)
        BY <3>2, <4>2, GrownKept, Zenon
      <4> QED
        BY <4>1, <4>3, Zenon
    <3> QED
      BY <3>1, <3>2, Zenon
  <2>2. CASE ~Carries(c, u)
    BY <1>2, <1>5, <2>1, <2>2, Zenon DEF NotElsewhere
  <2>3. CASE Carries(c, u)
    <3>1. /\ \A s \in Threads, d \in Nat : ~InTodo(u, s, d)'
          /\ \A f \in Futures, k \in Kinds, i \in Nat : ~InKept(u, f, k, i)
          /\ \A e \in armed : e.u # u
          /\ ran[u] = <<>>
      BY <1>2, <1>4, <2>3, LeftBehind, Zenon
    <3>2. /\ ran'[u] = <<>> /\ Len(ran'[u]) <= 1
          /\ \A e \in armed' : e.u # u
      BY <1>5, <3>1
    <3> QED
      BY <1>2, <2>1, <2>3, <3>1, <3>2, Zenon DEF OneHome
  <2> QED
    BY <1>2, <2>2, <2>3, Zenon
<1>9. c.cb.call = "user" => Tracked(c.cb)'
  <2> SUFFICES ASSUME c.cb.call = "user" PROVE ToKeep(c.cb)'
    BY Zenon DEF Tracked
  <2>1. c.cb.f = c.f /\ c.cb.kind = c.kind
    BY <1>3, Zenon DEF Matches
  <2>2. ~Due(c.kind, c.f)'
    BY <1>5, Zenon DEF Due
  <2> QED
    BY <1>5, <1>6, <2>1, <2>2, Zenon DEF ToKeep, Grown
<1>10. asked' = IF c.cb.call = "user" THEN asked \cup {c.cb} ELSE asked
  BY Zenon DEF OnStep
<1>11. \A d \in asked' : d \in asked \/ Fresh(d)
  BY <1>2, <1>9, <1>10, Asks, Zenon
<1>12. ASSUME NEW d \in asked, Head(todo[t]) = d \/ ToKeep(d)
       PROVE  Tracked(d)'
  <2>1. /\ d.call = "user" /\ "user" # "on"
        /\ d.f \in Futures /\ d.kind \in Kinds
    BY <1>1, AskedFields, Zenon
  <2>2. ToKeep(d)
    BY <1>2, <1>12, <2>1, Zenon
  <2>3. ToKeep(d)'
    BY <1>3, <1>5, <1>6, <2>1, <2>2, GrownKeeps, Zenon
  <2> QED
    BY <2>3, Zenon DEF Tracked
<1>13. RanOK' /\ \A u \in Users : ran[u] # <<>> => ran'[u] # <<>>
  BY <1>1, <1>5, Zenon DEF RanOK
<1>14. armed' \subseteq Expiry /\ ran' \in [Users -> Seq(BOOLEAN)]
  BY <1>1, <1>5, Zenon
<1> QED
  BY <1>2, <1>4, <1>5, <1>6, <1>7, <1>8, <1>11, <1>12, <1>13, <1>14, LeaveStep,
     Zenon

\* onAbandoned, onDiscard, onReady, onFailed, onDiscarded and onAny.
LEMMA OnPass ==
  ASSUME IInv, NEW t \in Threads, NEW c, OnStep(t, c)
  PROVE  IInv'
BY OnDuePass, OnDropPass, OnKeepPass, Zenon

\* after arms a timer.
LEMMA StartTimerPass ==
  ASSUME IInv, NEW t \in Threads, NEW c, StartTimerStep(t, c)
  PROVE  IInv'
<1>1. /\ Types /\ KeptOK /\ RanOK /\ Calls(t, "start", c)
      /\ callbacks \in [Futures -> [Kinds -> Seq(Callback)]]
      /\ armed \subseteq Expiry /\ ran \in [Users -> Seq(BOOLEAN)]
  BY Zenon DEF IInv, Types, StartTimerStep
<1>2. c \in Call /\ c.call = "start" /\ c = Head(todo[t]) /\ todo[t] # <<>>
  BY <1>1, TopCall, Zenon
<1>3. c.e \in Expiry
  BY <1>2, CallParts, Zenon
<1>4. Continue(t, <<>>) /\ armed' = armed \cup {c.e} /\ asked' = asked
  BY Zenon DEF StartTimerStep
<1>5. /\ UNCHANGED <<dataVars, latch, timer>> /\ ran' = ran
      /\ UNCHANGED <<state, discard, abandoned, callbacks>>
      /\ callbacks' = callbacks
  BY DEF StartTimerStep, dataVars
<1>6. /\ KeptOK'
      /\ \A u \in Users, f \in Futures, k \in Kinds, i \in Nat :
           InKept(u, f, k, i)' => InKept(u, f, k, i)
      /\ \A d : ToKeep(d) => ToKeep(d)'
  BY <1>1, <1>5, NoEffect, Zenon
<1>7. \A u \in Users : Carries(c, u) <=> c.e.u = u
  BY <1>2 DEF Carries, Holder
<1>8. ASSUME NEW u \in Users
      PROVE  IF Carries(Head(todo[t]), u) THEN OneHome(u)' ELSE NotElsewhere(u)
  <2>1. CASE ~Carries(c, u)
    BY <1>2, <1>4, <1>5, <1>6, <1>7, <2>1, Zenon DEF NotElsewhere
  <2>2. CASE Carries(c, u)
    <3>1. /\ \A s \in Threads, d \in Nat : ~InTodo(u, s, d)'
          /\ \A f \in Futures, k \in Kinds, i \in Nat : ~InKept(u, f, k, i)
          /\ \A e \in armed : e.u # u
          /\ ran[u] = <<>>
      BY <1>2, <1>4, <2>2, LeftBehind, Zenon
    <3>2. ran'[u] = <<>> /\ Len(ran'[u]) <= 1
      BY <1>5, <3>1
    <3>3. \A e \in armed' : e.u = u => e = c.e
      BY <1>4, <3>1, Zenon
    <3> QED
      BY <1>2, <1>6, <2>2, <3>1, <3>2, <3>3, Zenon DEF OneHome
  <2> QED
    BY <1>2, <2>1, <2>2, Zenon
<1>9. \A d \in asked' : d \in asked \/ Fresh(d)
  BY <1>4, Zenon
<1>10. ASSUME NEW d \in asked, Head(todo[t]) = d \/ ToKeep(d)
       PROVE  Tracked(d)'
  <2>1. d.call = "user" /\ "user" # "start"
    BY <1>1, AskedFields, Zenon
  <2> QED
    BY <1>2, <1>6, <1>10, <2>1, Zenon DEF Tracked
<1>11. RanOK' /\ \A u \in Users : ran[u] # <<>> => ran'[u] # <<>>
  BY <1>1, <1>5, Zenon DEF RanOK
<1>12. /\ callbacks' \in [Futures -> [Kinds -> Seq(Callback)]]
       /\ armed' \subseteq Expiry /\ ran' \in [Users -> Seq(BOOLEAN)]
  BY <1>1, <1>3, <1>4, <1>5, Zenon
<1> QED
  BY <1>2, <1>4, <1>5, <1>6, <1>8, <1>9, <1>10, <1>11, <1>12, LeaveStep, Zenon

\* A sequence of one.
LEMMA OneMore ==
  ASSUME NEW s \in Seq(BOOLEAN), s = <<>>, NEW b \in BOOLEAN
  PROVE  /\ Append(s, b) \in Seq(BOOLEAN) /\ Append(s, b) # <<>>
         /\ Len(Append(s, b)) <= 1
         /\ \A i \in 1..Len(Append(s, b)) : Append(s, b)[i] = b
OBVIOUS

\* A callback or function of the user is called.
LEMMA UserPass ==
  ASSUME IInv, NEW t \in Threads, NEW c, UserStep(t, c)
  PROVE  IInv'
<1>1. /\ Types /\ KeptOK /\ RanOK /\ Calls(t, "user", c)
      /\ callbacks \in [Futures -> [Kinds -> Seq(Callback)]]
      /\ armed \subseteq Expiry /\ ran \in [Users -> Seq(BOOLEAN)]
  BY Zenon DEF IInv, Types, UserStep
<1>2. c \in Call /\ c.call = "user" /\ c = Head(todo[t]) /\ todo[t] # <<>>
  BY <1>1, TopCall, Zenon
<1>3. c.u \in Users /\ c.f \in Futures /\ c.kind \in Kinds \cup {"after"}
  BY <1>2, CallFields, CallParts DEF WithFuture, Holder
<1>4. Continue(t, <<>>) /\ asked' = asked /\ armed' = armed
  BY Zenon DEF UserStep
<1>5. /\ UNCHANGED <<dataVars, latch, timer>>
      /\ UNCHANGED <<state, discard, abandoned, callbacks>>
      /\ callbacks' = callbacks
  BY DEF UserStep, dataVars
<1>6. /\ KeptOK'
      /\ \A u \in Users, f \in Futures, k \in Kinds, i \in Nat :
           InKept(u, f, k, i)' => InKept(u, f, k, i)
      /\ \A d : ToKeep(d) => ToKeep(d)'
      /\ Due(c.kind, c.f)' <=> Due(c.kind, c.f)
  BY <1>1, <1>3, <1>5, NoEffect, Zenon
<1>7. Due(c.kind, c.f)
  BY <1>1, <1>2, TopTimely, Zenon DEF Timely
<1>8. \A u \in Users : Carries(c, u) <=> c.u = u
  BY <1>2 DEF Carries, Holder
<1>9. /\ \A s \in Threads, d \in Nat : ~InTodo(c.u, s, d)'
      /\ \A f \in Futures, k \in Kinds, i \in Nat : ~InKept(c.u, f, k, i)
      /\ \A e \in armed : e.u # c.u
      /\ ran[c.u] = <<>>
  <2>1. Carries(Head(todo[t]), c.u)
    BY <1>2, <1>3, <1>8, Zenon
  <2> QED
    BY <1>2, <1>3, <1>4, <2>1, LeftBehind, Zenon
<1>10. PICK b \in BOOLEAN : b /\ ran' = [ran EXCEPT ![c.u] = Append(@, b)]
  <2>1. PICK b : b = Due(c.kind, c.f)
    OBVIOUS
  <2>2. b = TRUE
    BY <1>7, <2>1
  <2> QED
    BY <2>1, <2>2 DEF UserStep
<1>11. /\ Append(ran[c.u], b) \in Seq(BOOLEAN) /\ Append(ran[c.u], b) # <<>>
       /\ Len(Append(ran[c.u], b)) <= 1
       /\ \A i \in 1..Len(Append(ran[c.u], b)) : Append(ran[c.u], b)[i] = b
  <2>1. PICK s : s = ran[c.u]
    OBVIOUS
  <2>2. s \in Seq(BOOLEAN) /\ s = <<>>
    BY <1>1, <1>3, <1>9, <2>1, Zenon
  <2> QED
    BY <2>1, <2>2, OneMore, Zenon
<1>12. /\ ran' \in [Users -> Seq(BOOLEAN)]
       /\ ran'[c.u] = Append(ran[c.u], b)
       /\ \A u \in Users : u # c.u => ran'[u] = ran[u]
  BY <1>1, <1>3, <1>10, <1>11, Zenon
<1>13. RanOK' /\ \A u \in Users : ran[u] # <<>> => ran'[u] # <<>>
  BY <1>1, <1>10, <1>11, <1>12, Zenon DEF RanOK
<1>14. ASSUME NEW u \in Users
       PROVE  IF Carries(Head(todo[t]), u) THEN OneHome(u)' ELSE NotElsewhere(u)
  <2>1. CASE u # c.u
    <3>1. NotElsewhere(u)
      BY <1>4, <1>6, <1>12, <2>1, Zenon DEF NotElsewhere
    <3> QED
      BY <1>2, <1>8, <2>1, <3>1, Zenon
  <2>2. CASE u = c.u
    <3>1. \A e \in armed' : e.u # u
      BY <1>4, <1>9, <2>2, Zenon
    <3>2. Len(ran'[u]) <= 1
      BY <1>11, <1>12, <2>2, Zenon
    <3>3. OneHome(u)'
      BY <1>6, <1>9, <2>2, <3>1, <3>2, Zenon DEF OneHome
    <3> QED
      BY <1>2, <1>8, <2>2, <3>3, Zenon
  <2> QED
    BY <2>1, <2>2
<1>15. ASSUME NEW d \in asked, Head(todo[t]) = d \/ ToKeep(d)
       PROVE  Tracked(d)'
  <2>1. Answered(c)'
    BY <1>6, <1>7, <1>11, <1>12, Zenon DEF Answered
  <2> QED
    BY <1>2, <1>6, <1>15, <2>1, Zenon DEF Tracked
<1>16. \A d \in asked' : d \in asked \/ Fresh(d)
  BY <1>4, Zenon
<1>17. callbacks' \in [Futures -> [Kinds -> Seq(Callback)]] /\ armed' \subseteq Expiry
  BY <1>1, <1>4, <1>5, Zenon
<1> QED
  BY <1>2, <1>4, <1>5, <1>6, <1>12, <1>13, <1>14, <1>15, <1>16, <1>17, LeaveStep,
     Zenon

-----------------------------------------------------------------------------
(* The clock's thread starts the thunk of an expired timer.                *)

\* A stack of one call.
LEMMA Alone ==
  ASSUME NEW e \in Call
  PROVE  /\ <<e>> \in Seq(Call) /\ Len(<<e>>) = 1 /\ <<e>>[1] = e
         /\ \A i \in 1..Len(<<e>>) : i = 1
         /\ \A d \in Nat : d < Len(<<e>>) => d = 0 /\ <<e>>[Len(<<e>>) - d] = e
OBVIOUS

\* The function of the timer moves from the clock to its thread.
LEMMA ExpiresHome ==
  ASSUME todo \in [Threads -> Seq(Call)], Clock \in Threads, NEW e \in armed,
         e \in Expiry, TimerExpires(e), NEW u \in Users, OneHome(u)
  PROVE  OneHome(u)' /\ (Nowhere(u) => Nowhere(u)')
<1>1. /\ e \in Call /\ \A v : Carries(e, v) <=> e.u = v
  BY DEF Expiry, Call, Carries, Holder
<1>2. /\ todo[Clock] = <<>> /\ armed' = armed \ {e}
      /\ todo' = [todo EXCEPT ![Clock] = <<e>>]
      /\ callbacks' = callbacks /\ state' = state /\ ran' = ran
  BY DEF TimerExpires, dataVars
<1>3. /\ \A t \in Threads : t # Clock => todo'[t] = todo[t]
      /\ todo'[Clock] = <<e>>
  BY <1>2, Zenon
<1>4. ASSUME NEW t \in Threads, NEW d \in Nat, InTodo(u, t, d)'
      PROVE  InTodo(u, t, d) \/ (t = Clock /\ d = 0 /\ e.u = u)
  <2>1. CASE t # Clock
    BY <1>3, <1>4, <2>1, Zenon DEF InTodo
  <2>2. CASE t = Clock
    <3>1. PICK s : s = <<e>>
      OBVIOUS
    <3>2. d < Len(s) /\ Carries(s[Len(s) - d], u)
      BY <1>3, <1>4, <2>2, <3>1, Zenon DEF InTodo
    <3>3. d = 0 /\ s[Len(s) - d] = e
      BY <1>1, <3>1, <3>2, Alone, Zenon
    <3> QED
      BY <1>1, <2>2, <3>2, <3>3, Zenon
  <2> QED
    BY <2>1, <2>2
<1>5. \A f \in Futures, k \in Kinds, i \in Nat :
        InKept(u, f, k, i)' <=> InKept(u, f, k, i)
  BY <1>2, Zenon DEF InKept
<1>6. CASE e.u # u
  <2>1. Unmoved(u)
    BY <1>2, <1>4, <1>5, <1>6, Zenon DEF Unmoved
  <2> QED
    BY <2>1, UnmovedHome, Zenon
<1>7. CASE e.u = u
  <2>1. /\ \A t \in Threads, d \in Nat : ~InTodo(u, t, d)
        /\ \A f \in Futures, k \in Kinds, i \in Nat : ~InKept(u, f, k, i)
        /\ \A e2 \in armed : e2.u = u => e2 = e
        /\ ran[u] = <<>>
    BY <1>7, Zenon DEF OneHome
  <2>2. /\ \A f \in Futures, k \in Kinds, i \in Nat : ~InKept(u, f, k, i)'
        /\ \A e2 \in armed' : e2.u # u
        /\ ran'[u] = <<>>
    BY <1>2, <1>5, <2>1, Zenon
  <2>3. \A t1 \in Threads, d1 \in Nat : InTodo(u, t1, d1)' =>
          \A t2 \in Threads, d2 \in Nat : InTodo(u, t2, d2)' =>
            t1 = t2 /\ d1 = d2
    BY <1>4, <2>1, Zenon
  <2>4. OneHome(u)'
    BY <2>2, <2>3, OnlyTodo, Zenon
  <2>5. ~Nowhere(u)
    BY <1>7, Zenon DEF Nowhere
  <2> QED
    BY <2>4, <2>5, Zenon
<1> QED
  BY <1>6, <1>7

\* A timer expires.
LEMMA ExpiresPass ==
  ASSUME IInv, Clock \in Threads, NEW e \in armed, TimerExpires(e)
  PROVE  IInv'
<1>1. /\ Types /\ TodoOK /\ KeptOK /\ RanOK /\ AskedOK
      /\ todo \in [Threads -> Seq(Call)] /\ armed \subseteq Expiry
      /\ \A u \in Users : OneHome(u)
  BY Zenon DEF IInv, Types
<1>2. e \in Expiry /\ e \in Call /\ e.call = "expired"
  BY <1>1, ExpiryParts, Zenon
<1>3. /\ todo[Clock] = <<>> /\ armed' = armed \ {e}
      /\ todo' = [todo EXCEPT ![Clock] = <<e>>]
      /\ callbacks' = callbacks /\ state' = state /\ ran' = ran
      /\ discard' = discard /\ abandoned' = abandoned /\ latch' = latch
      /\ associated' = associated /\ timer' = timer /\ asked' = asked
      /\ UNCHANGED <<state, discard, abandoned, callbacks>>
      /\ UNCHANGED <<state, discard, abandoned>>
  BY DEF TimerExpires, dataVars
<1>4. \A u \in Users : OneHome(u)' /\ (Nowhere(u) => Nowhere(u)')
  BY <1>1, <1>2, ExpiresHome, Zenon
<1>5. /\ \A t \in Threads : t # Clock => todo'[t] = todo[t]
      /\ todo'[Clock] = <<e>> /\ <<e>> \in Seq(Call)
      /\ \A i \in 1..Len(<<e>>) : <<e>>[i] = e
  BY <1>1, <1>2, <1>3, Alone, Zenon
<1>6. Types'
  <2>1. todo' \in [Threads -> Seq(Call)] /\ armed' \subseteq Expiry
    BY <1>1, <1>3, <1>5, Zenon
  <2> QED
    BY <1>1, <1>3, <2>1, Zenon DEF Types
<1>7. TodoOK'
  <2>1. Steady
    BY <1>3, SteadySame, Zenon
  <2>2. e \in Timely
    BY <1>2 DEF Timely
  <2> QED
    BY <1>1, <1>5, <2>1, <2>2, TimelySteady, Zenon DEF TodoOK
<1>8. KeptOK' /\ RanOK'
  BY <1>1, <1>3, Zenon DEF KeptOK, RanOK
<1>9. ASSUME NEW c \in asked PROVE Tracked(c)'
  <2>1. c.u \in Users /\ c.f \in Futures /\ c.kind \in Kinds
    BY <1>1, AskedFields, Zenon
  <2>2. (Due(c.kind, c.f)' <=> Due(c.kind, c.f)) /\ (ToKeep(c) => ToKeep(c)')
    BY <1>3, <2>1, NoEffect, Zenon
  <2>3. ToRun(c) => ToRun(c)'
    <3>1. \A i \in 1..Len(todo[Clock]) : FALSE
      BY <1>3
    <3> QED
      BY <1>5, <3>1, Zenon DEF ToRun
  <2>4. (Answered(c) => Answered(c)') /\ (Dropped(c) => Dropped(c)')
    BY <1>3, <1>4, <2>1, <2>2, Zenon DEF Answered, Dropped
  <2>5. Tracked(c)
    BY <1>1, Zenon DEF AskedOK
  <2> QED
    BY <2>2, <2>3, <2>4, <2>5, Zenon DEF Tracked
<1>10. AskedOK'
  BY <1>3, <1>9, Zenon DEF AskedOK
<1> QED
  BY <1>4, <1>6, <1>7, <1>8, <1>10, Zenon DEF IInv

-----------------------------------------------------------------------------
(* The invariant.                                                          *)

\* Requests are calls that need nothing to have happened.
LEMMA RequestParts ==
  \A c \in Request : c \in Call /\ c.call \notin {"user", "clear", "thenf"}
<1> SUFFICES ASSUME NEW c \in Request
             PROVE  c \in Call /\ c.call \notin {"user", "clear", "thenf"}
  OBVIOUS
<1> QED
  BY DEF Call, Request, Registration

\* Positions of a stack, from the top and from the bottom.
LEMMA BothEnds ==
  ASSUME NEW l \in Nat, NEW d \in Nat, d < l
  PROVE  /\ l - d \in 1..l
         /\ \A e \in Nat : e < l /\ l - d = l - e => d = e
OBVIOUS

\* Well-formed programs start with one home for all they mention.
LEMMA InitIInv ==
  ASSUME \A s \in Programs : WellFormed(s), Init
  PROVE  IInv
<1>1. PICK s \in Programs : todo = s.calls
  BY Zenon DEF Init
<1>2. /\ todo \in [Threads -> Seq(Request)]
      /\ \A u \in Users, t1, t2 \in Threads :
           \A i \in 1..Len(todo[t1]), j \in 1..Len(todo[t2]) :
             Carries(todo[t1][i], u) /\ Carries(todo[t2][j], u) =>
               t1 = t2 /\ i = j
  <2>1. WellFormed(s)
    BY Zenon
  <2> QED
    BY <1>1, <2>1, SMT DEF WellFormed
<1>3. Request \subseteq Call
  BY RequestParts, Zenon
<1>4. todo \in [Threads -> Seq(Call)]
  BY <1>2, <1>3
<1>5. /\ callbacks = [f \in Futures |-> [k \in Kinds |-> <<>>]]
      /\ armed = {} /\ asked = {} /\ ran = [u \in Users |-> <<>>]
  BY Zenon DEF Init
<1>6. /\ \A f \in Futures, k \in Kinds : callbacks[f][k] = <<>>
      /\ \A u \in Users : ran[u] = <<>>
  BY <1>5, Zenon
<1>7. Types
  <2>1. /\ state \in [Futures -> State] /\ discard \in [Futures -> BOOLEAN]
        /\ associated \in [Futures -> BOOLEAN]
        /\ abandoned \in [Futures -> BOOLEAN]
        /\ latch \in [Futures -> BOOLEAN] /\ timer \in [Futures -> BOOLEAN]
    BY DEF Init, State
  <2>2. <<>> \in Seq(Callback) /\ <<>> \in Seq(BOOLEAN)
    OBVIOUS
  <2>3. /\ callbacks \in [Futures -> [Kinds -> Seq(Callback)]]
        /\ ran \in [Users -> Seq(BOOLEAN)]
    BY <1>5, <2>2, Zenon
  <2>4. /\ armed \subseteq Expiry
        /\ asked \subseteq {c \in Callback : c.call = "user" /\ c.kind \in Kinds}
    BY <1>5, Zenon
  <2> QED
    BY <1>4, <2>1, <2>3, <2>4, Zenon DEF Types
<1>8. TodoOK
  <2>1. ASSUME NEW t \in Threads, NEW i \in 1..Len(todo[t])
        PROVE  todo[t][i] \in Timely
    <3>1. todo[t][i] \in Request
      BY <1>2
    <3> QED
      BY <3>1, RequestParts, Zenon DEF Timely
  <2> QED
    BY <2>1, Zenon DEF TodoOK
<1>9. \A i \in 1..Len(<<>>) : FALSE
  OBVIOUS
<1>10. KeptOK /\ RanOK /\ AskedOK
  BY <1>5, <1>6, <1>9, Zenon DEF KeptOK, RanOK, AskedOK
<1>11. ASSUME NEW u \in Users PROVE OneHome(u)
  <2>1. \A f \in Futures, k \in Kinds, i \in Nat : ~InKept(u, f, k, i)
    BY <1>6, <1>9, Zenon DEF InKept
  <2>2. ASSUME NEW t1 \in Threads, NEW d1 \in Nat, InTodo(u, t1, d1),
               NEW t2 \in Threads, NEW d2 \in Nat, InTodo(u, t2, d2)
        PROVE  t1 = t2 /\ d1 = d2
    <3>1. PICK l1, l2 : l1 = Len(todo[t1]) /\ l2 = Len(todo[t2])
      OBVIOUS
    <3>2. l1 \in Nat /\ l2 \in Nat
      BY <1>4, <3>1
    <3>3. /\ d1 < l1 /\ Carries(todo[t1][l1 - d1], u)
          /\ d2 < l2 /\ Carries(todo[t2][l2 - d2], u)
      BY <2>2, <3>1, Zenon DEF InTodo
    <3>4. l1 - d1 \in 1..l1 /\ l2 - d2 \in 1..l2
      BY <3>2, <3>3, BothEnds, Zenon
    <3>5. t1 = t2 /\ l1 - d1 = l2 - d2
      BY <1>2, <3>1, <3>3, <3>4, Zenon
    <3>6. l1 = l2
      BY <3>1, <3>5, Zenon
    <3> QED
      BY <3>2, <3>3, <3>5, <3>6, BothEnds, Zenon
  <2>3. ran[u] = <<>> /\ Len(ran[u]) <= 1
    BY <1>6
  <2> QED
    BY <1>5, <2>1, <2>2, <2>3, Zenon DEF OneHome
<1> QED
  BY <1>7, <1>8, <1>10, <1>11, Zenon DEF IInv

\* Every step of a thread preserves the invariant.
LEMMA ThreadIInv ==
  ASSUME IInv, NEW t \in Threads, ThreadStep(t)
  PROVE  IInv'
<1>1. PICK c : c = Head(todo[t])
  OBVIOUS
<1>2. \/ CompleteStep(t, c) \/ ClearStep(t, c) \/ PromiseStep(t, c)
      \/ DiscardStep(t, c) \/ AbandonStep(t, c) \/ AssociateStep(t, c)
      \/ OnStep(t, c) \/ UserStep(t, c)
      \/ ThenStep(t, c) \/ RepairStep(t, c) \/ RecoverStep(t, c)
      \/ MirrorStep(t, c) \/ SelectStep(t, c)
      \/ StartTimerStep(t, c) \/ StoreTimerStep(t, c) \/ LatchStep(t, c)
      \/ ClearTimerStep(t, c)
      \/ AwaitStep(t, c) \/ TriggerStep(t, c) \/ AwaitedStep(t, c)
  BY <1>1, Zenon DEF ThreadStep
<1>3. ~RecoverStep(t, c)
  <2> SUFFICES ASSUME RecoverStep(t, c) PROVE FALSE
    OBVIOUS
  <2>1. Types /\ Calls(t, "recoverf", c)
    BY Zenon DEF IInv, RecoverStep
  <2>2. c \in Call /\ c.call = "recoverf"
    BY <2>1, TopCall, Zenon
  <2> QED
    BY <2>2, CallFields, Zenon
<1> QED
  BY <1>2, <1>3, CompletePass, ClearPass, PromisePass, DiscardPass, AbandonPass,
     AssociatePass, OnPass, UserPass, ThenPass, RepairPass, MirrorPass, SelectPass,
     StartTimerPass, StoreTimerPass, LatchPass, ClearTimerPass, AwaitPass,
     TriggerPass, AwaitedPass, Zenon

\* So does every step.
LEMMA StepIInv ==
  ASSUME Clock \in Threads, IInv, [Next]_vars
  PROVE  IInv'
<1>1. CASE Next
  BY <1>1, ThreadIInv, ExpiresPass, Zenon DEF Next
<1>2. CASE UNCHANGED vars
  <2>1. /\ state' = state /\ discard' = discard /\ associated' = associated
        /\ abandoned' = abandoned /\ callbacks' = callbacks /\ latch' = latch
        /\ timer' = timer /\ armed' = armed /\ todo' = todo /\ asked' = asked
        /\ ran' = ran
    BY <1>2 DEF vars, dataVars
  <2>2. \A u : Nowhere(u)' <=> Nowhere(u)
    BY <2>1, Zenon DEF Nowhere, InTodo, InKept
  <2>3. \A u \in Users : OneHome(u) => OneHome(u)'
    <3>1. ASSUME NEW u \in Users PROVE Unmoved(u)
      BY <2>1, Zenon DEF Unmoved, InTodo, InKept
    <3> QED
      BY <3>1, UnmovedHome, Zenon
  <2>4. \A c : Tracked(c) => Tracked(c)'
    BY <2>1, <2>2, Zenon DEF Tracked, ToRun, ToKeep, Dropped, Answered, Due
  <2>5. (Types => Types') /\ (KeptOK => KeptOK') /\ (RanOK => RanOK')
    BY <2>1, Zenon DEF Types, KeptOK, RanOK
  <2>6. TodoOK => TodoOK'
    BY <2>1, Zenon DEF TodoOK, Timely, Due
  <2>7. AskedOK => AskedOK'
    BY <2>1, <2>4, Zenon DEF AskedOK
  <2> QED
    BY <2>3, <2>5, <2>6, <2>7, Zenon DEF IInv
<1> QED
  BY <1>1, <1>2, Zenon

-----------------------------------------------------------------------------
(* What the invariant says.                                                *)

\* What a callback waits for has happened or not.
LEMMA DueBoolean ==
  ASSUME Types, NEW f \in Futures, NEW k \in Kinds
  PROVE  Due(k, f) \in BOOLEAN
<1>1. discard[f] \in BOOLEAN /\ abandoned[f] \in BOOLEAN
  BY DEF Types
<1> QED
  BY <1>1 DEF Due, Kinds

\* Equal truth values.
LEMMA SameTruth ==
  ASSUME NEW n \in Nat, NEW b \in BOOLEAN, (n > 0) <=> b
  PROVE  (n > 0) = b
OBVIOUS

\* What a kept callback can be.
LEMMA KeptCalls ==
  ASSUME NEW c \in Callback
  PROVE  c.call \in {"promise", "complete", "discard", "abandon", "user",
                     "trigger", "thenf", "repairf", "recoverf", "mirrorf",
                     "selectf", "afterf"}
BY DEF Callback

\* The invariant implies what the runs check.
LEMMA IInvMeans ==
  ASSUME IInv
  PROVE  CallbacksOnce
<1>1. /\ Types /\ RanOK /\ AskedOK /\ todo \in [Threads -> Seq(Call)]
      /\ callbacks \in [Futures -> [Kinds -> Seq(Callback)]]
      /\ armed \subseteq Expiry /\ ran \in [Users -> Seq(BOOLEAN)]
      /\ \A u \in Users : OneHome(u)
  BY Zenon DEF IInv, Types
<1>2. TypeOK
  <2>1. ASSUME NEW f \in Futures, NEW k \in Kinds,
               NEW i \in 1..Len(callbacks[f][k])
        PROVE  callbacks[f][k][i].call \in
                 {"promise", "complete", "discard", "abandon", "user", "trigger",
                  "thenf", "repairf", "recoverf", "mirrorf", "selectf", "afterf"}
    <3>1. callbacks[f][k][i] \in Callback
      BY <1>1
    <3> QED
      BY <3>1, KeptCalls, Zenon
  <2>2. \A e \in armed : e.call = "expired"
    BY <1>1, ExpiryParts, Zenon
  <2>3. \A v \in {discard, associated, abandoned, latch, timer} :
          v \in [Futures -> BOOLEAN]
    BY <1>1, Zenon DEF Types
  <2>4. state \in [Futures -> State] /\ \A u \in Users : ran[u] \in Seq(BOOLEAN)
    BY <1>1, Zenon DEF Types
  <2> QED
    BY <2>1, <2>2, <2>3, <2>4, Zenon DEF TypeOK
<1>3. \A u \in Users : Len(ran[u]) <= 1 /\ \A i \in 1..Len(ran[u]) : ran[u][i]
  BY <1>1, Zenon DEF OneHome, RanOK
<1>4. ASSUME Quiet, NEW c \in asked
      PROVE  (Len(ran[c.u]) > 0) = Due(c.kind, c.f)
  <2>1. c.u \in Users /\ c.f \in Futures /\ c.kind \in Kinds
    BY <1>1, AskedFields, Zenon
  <2> SUFFICES (Len(ran[c.u]) > 0) <=> Due(c.kind, c.f)
    <3>1. PICK n, b : n = Len(ran[c.u]) /\ b = Due(c.kind, c.f)
      OBVIOUS
    <3>2. n \in Nat
      BY <1>1, <2>1, <3>1
    <3>3. b \in BOOLEAN
      BY <1>1, <2>1, <3>1, DueBoolean, Zenon
    <3>4. (n > 0) <=> b
      BY <3>1, Zenon
    <3> QED
      BY <3>1, <3>2, <3>3, <3>4, SameTruth, Zenon
  <2>2. ~ToRun(c)
    <3>1. \A t \in Threads : todo[t] = <<>>
      BY <1>4, Zenon DEF Quiet
    <3>2. \A i \in 1..Len(<<>>) : FALSE
      OBVIOUS
    <3> QED
      BY <3>1, <3>2, Zenon DEF ToRun
  <2>3. ToKeep(c) \/ Dropped(c) \/ Answered(c)
    BY <1>1, <2>2, Zenon DEF AskedOK, Tracked
  <2>4. PICK r : r = ran[c.u]
    OBVIOUS
  <2>5. r \in Seq(BOOLEAN)
    BY <1>1, <2>1, <2>4, Zenon
  <2>6. (Len(r) > 0) <=> r # <<>>
    BY <2>5
  <2>7. CASE ToKeep(c)
    <3>1. PICK i \in 1..Len(callbacks[c.f][c.kind]) :
            callbacks[c.f][c.kind][i] = c
      BY <2>7, Zenon DEF ToKeep
    <3>2. Carries(c, c.u)
      <4>1. c.call = "user" /\ "user" \in Holder
        BY <1>1, AskedFields DEF Holder
      <4> QED
        BY <4>1, Zenon DEF Carries
    <3>3. i \in Nat
      BY <1>1, <2>1
    <3>4. InKept(c.u, c.f, c.kind, i)
      BY <2>7, <3>1, <3>2, Zenon DEF InKept, ToKeep
    <3>5. ran[c.u] = <<>>
      BY <1>1, <2>1, <3>3, <3>4, Zenon DEF OneHome
    <3>6. ~Due(c.kind, c.f) /\ ~(Len(ran[c.u]) > 0)
      BY <2>4, <2>6, <2>7, <3>5, Zenon DEF ToKeep
    <3> QED
      BY <3>6, Zenon
  <2>8. CASE Dropped(c)
    <3>1. ran[c.u] = <<>> /\ ~Due(c.kind, c.f)
      BY <2>8, Zenon DEF Dropped, Nowhere
    <3>2. ~Due(c.kind, c.f) /\ ~(Len(ran[c.u]) > 0)
      BY <2>4, <2>6, <3>1, Zenon
    <3> QED
      BY <3>2, Zenon
  <2>9. CASE Answered(c)
    <3>1. Due(c.kind, c.f) /\ Len(ran[c.u]) > 0
      BY <2>4, <2>6, <2>9, Zenon DEF Answered
    <3> QED
      BY <3>1, Zenon
  <2> QED
    BY <2>3, <2>7, <2>8, <2>9, Zenon
<1> QED
  BY <1>2, <1>3, <1>4, Zenon DEF CallbacksOnce

(***************************************************************************)
(* However completion, discard, abandonment and registration interleave,   *)
(* on any number of futures and threads, a callback or a function of the   *)
(* user is called at most once and only in the state it waits for; when    *)
(* all threads are done, a registered callback was called if and only if   *)
(* what it waits for has happened (Future::set, fail, discard, abandon,    *)
(* onReady, onAny, ..., then, repair, after, select and await).            *)
(***************************************************************************)
THEOREM CallbacksAlwaysOnce ==
  ASSUME \A s \in Programs : WellFormed(s), Clock \in Threads
  PROVE  Spec => []CallbacksOnce
<1>1. Init => IInv
  BY InitIInv, Zenon
<1>2. IInv /\ [Next]_vars => IInv'
  BY StepIInv, Zenon
<1>3. IInv => CallbacksOnce
  BY IInvMeans, Zenon
<1> QED
  BY <1>1, <1>2, <1>3, PTL DEF Spec
=============================================================================

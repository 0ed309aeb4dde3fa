----------------------------- MODULE Ownership ------------------------------
(***************************************************************************)
(* process::Owned and process::Shared (include/process/owned.hpp and       *)
(* shared.hpp), the pointers that pass one object between threads.  Both   *)
(* are reference counted, so a handle can be copied; share() turns one     *)
(* Owned into a Shared, and own() asks for it back once nobody else has a  *)
(* Shared.  A handle is used by one thread at a time, but the handles on   *)
(* one Data by many.  Dropping the last reference runs the destructor in   *)
(* the same step: nobody else can reach the Data by then.                  *)
(***************************************************************************)
EXTENDS Naturals, TLAPS

CONSTANTS
  Handle,    \* the pointer variables of the program, with their thread
  MaxData    \* bound on the Data objects that are made

Datas == 1..MaxData

VARIABLES
  made,      \* the number of Data objects made so far
  kind,      \* kind[n]: a Data of an "Owned" or a "Shared"
  t,         \* t[n]: does it still hold the object?
  owned,     \* owned[n]: has own() succeeded?
  handle,    \* handle[h]: the Data it refers to, or 0
  op,        \* op[h]: "idle", or inside "share", "release" or "own"
  future,    \* future[h]: what its last own() returned: "none", "waiting",
             \* "ready" or "failed"
  source,    \* source[h]: the Data it waits for, or that it got
  object     \* "held" by the library, "raw" after a release, or "deleted"

vars == <<made, kind, t, owned, handle, op, future, source, object>>
datas == <<made, kind, t, owned>>
futures == <<future, source>>

\* The first Data is that of an Owned, which may already have copies.
Init ==
  /\ made = 1 /\ kind = [n \in Datas |-> "Owned"]
  /\ t = [n \in Datas |-> n = 1] /\ owned = [n \in Datas |-> FALSE]
  /\ handle \in [Handle -> {0, 1}] /\ (\E h \in Handle : handle[h] = 1)
  /\ op = [h \in Handle |-> "idle"]
  /\ future = [h \in Handle |-> "none"] /\ source = [h \in Handle |-> 0]
  /\ object = "held"

\* Owned's and Shared's Data::~Data: Owned deletes what it still holds; Shared
\* deletes too, or gives the object to the future of own(), if there is one left.
Destroy(n) ==
  LET waiting == {h \in Handle : future[h] = "waiting" /\ source[h] = n} IN
  IF kind[n] = "Shared" /\ owned[n] /\ waiting # {}
  THEN /\ made' = made + 1 /\ kind' = [kind EXCEPT ![made + 1] = "Owned"]
       /\ t' = [t EXCEPT ![n] = FALSE, ![made + 1] = TRUE]
       /\ future' = [h \in Handle |-> IF h \in waiting THEN "ready" ELSE future[h]]
       /\ source' = [h \in Handle |-> IF h \in waiting THEN made + 1 ELSE source[h]]
       /\ UNCHANGED <<owned, object>>
  ELSE /\ t' = [t EXCEPT ![n] = FALSE]
       /\ object' = IF t[n] THEN "deleted" ELSE object
       /\ UNCHANGED <<made, kind, owned, future, source>>

\* h no longer refers to its Data, which goes with the last handle, or future of
\* an own(), that refers to it.
Drop(h) ==
  /\ handle' = [handle EXCEPT ![h] = 0]
  /\ IF \E g \in Handle : \/ g # h /\ handle[g] = handle[h]
                          \/ future[g] = "ready" /\ source[g] = handle[h]
     THEN UNCHANGED <<datas, futures, object>>
     ELSE Destroy(handle[h])

-----------------------------------------------------------------------------
Idle(h) == op[h] = "idle"
Holds(h, k) == Idle(h) /\ handle[h] # 0 /\ kind[handle[h]] = k

Copy(g, h) ==
  /\ Idle(g) /\ Idle(h) /\ handle[g] # 0 /\ handle[h] = 0
  /\ handle' = [handle EXCEPT ![h] = handle[g]]
  /\ UNCHANGED <<datas, op, futures, object>>

reset(h) == Idle(h) /\ handle[h] # 0 /\ Drop(h) /\ UNCHANGED op

\* The exchange of `t' decides which of several copies shares or releases; the
\* others get a null pointer, and keep their handle.
Exchange(h, how) ==
  /\ Holds(h, "Owned") /\ t[handle[h]] /\ made < MaxData
  /\ t' = [t EXCEPT ![handle[h]] = FALSE]
  /\ op' = [op EXCEPT ![h] = how]
  /\ UNCHANGED <<made, kind, owned, handle, futures, object>>

\* data.reset(), the new Shared.  The Data left behind holds nothing.
share(h) ==
  /\ op[h] = "share" /\ op' = [op EXCEPT ![h] = "idle"]
  /\ made' = made + 1 /\ kind' = [kind EXCEPT ![made + 1] = "Shared"]
  /\ t' = [t EXCEPT ![made + 1] = TRUE]
  /\ handle' = [handle EXCEPT ![h] = made + 1]
  /\ UNCHANGED <<owned, futures, object>>

release(h) ==
  /\ op[h] = "release" /\ op' = [op EXCEPT ![h] = "idle"]
  /\ handle' = [handle EXCEPT ![h] = 0] /\ object' = "raw"
  /\ UNCHANGED <<datas, futures>>

\* MUTANT: `owned' is loaded and stored, so that a second own() also succeeds.
own_twice(h) ==
  /\ Holds(h, "Shared") /\ future[h] = "none" /\ made < MaxData
  /\ owned' = [owned EXCEPT ![handle[h]] = TRUE]
  /\ op' = [op EXCEPT ![h] = "own"]
  /\ future' = [future EXCEPT ![h] = "waiting"]
  /\ source' = [source EXCEPT ![h] = handle[h]]
  /\ UNCHANGED <<made, kind, t, handle, object>>

\* own() up to the future: the compare-and-swap of `owned'.  A handle whose own()
\* fails keeps its reference.
own(h) ==
  /\ Holds(h, "Shared") /\ future[h] = "none" /\ made < MaxData
  /\ IF owned[handle[h]]
     THEN future' = [future EXCEPT ![h] = "failed"] /\ UNCHANGED <<owned, op, source>>
     ELSE /\ owned' = [owned EXCEPT ![handle[h]] = TRUE]
          /\ op' = [op EXCEPT ![h] = "own"]
          /\ future' = [future EXCEPT ![h] = "waiting"]
          /\ source' = [source EXCEPT ![h] = handle[h]]
  /\ UNCHANGED <<made, kind, t, handle, object>>

\* ... and its data.reset().
OwnReset(h) ==
  /\ op[h] = "own" /\ op' = [op EXCEPT ![h] = "idle"]
  /\ Drop(h)

\* The caller of own() copies the Owned out of the future ...
Get(h) ==
  /\ Idle(h) /\ future[h] = "ready" /\ handle[h] = 0
  /\ handle' = [handle EXCEPT ![h] = source[h]]
  /\ UNCHANGED <<datas, op, futures, object>>

\* ... and drops the future, or drops it before it is ready.
Forget(h) ==
  /\ Idle(h) /\ future[h] # "none"
  /\ future' = [future EXCEPT ![h] = "none"] /\ source' = [source EXCEPT ![h] = 0]
  /\ IF future[h] = "ready" /\ (\A g \in Handle : handle[g] # source[h])
     THEN /\ object' = IF t[source[h]] THEN "deleted" ELSE object
          /\ t' = [t EXCEPT ![source[h]] = FALSE]
     ELSE UNCHANGED <<t, object>>
  /\ UNCHANGED <<made, kind, owned, handle, op>>

Next ==
  \/ \E g, h \in Handle : Copy(g, h)
  \/ \E h \in Handle :
       \/ reset(h) \/ Exchange(h, "share") \/ share(h)
       \/ Exchange(h, "release") \/ release(h)
       \/ own(h) \/ OwnReset(h) \/ Get(h) \/ Forget(h)
Spec == Init /\ [][Next]_vars

-----------------------------------------------------------------------------
TypeOK ==
  /\ made \in Datas /\ kind \in [Datas -> {"Owned", "Shared"}]
  /\ t \in [Datas -> BOOLEAN] /\ owned \in [Datas -> BOOLEAN]
  /\ handle \in [Handle -> 0..MaxData]
  /\ op \in [Handle -> {"idle", "share", "release", "own"}]
  /\ future \in [Handle -> {"none", "waiting", "ready", "failed"}]
  /\ source \in [Handle -> 0..MaxData]
  /\ object \in {"held", "raw", "deleted"}

(***************************************************************************)
(* One holder: while the library has the object, one Data holds it or one  *)
(* thread carries it from share()'s or release()'s exchange to where it    *)
(* goes; afterwards nothing does.  So it is deleted once, share() and      *)
(* release() of several copies succeed once, and an Owned excludes every   *)
(* other holder.                                                           *)
(***************************************************************************)
OneHolder ==
  /\ \A m, n \in Datas : t[m] /\ t[n] => m = n
  /\ \A g, h \in Handle : op[g] \in {"share", "release"}
                          /\ op[h] \in {"share", "release"} => g = h
  /\ \A n \in Datas, h \in Handle : t[n] => op[h] \notin {"share", "release"}
  /\ object = "held" <=> \/ \E n \in Datas : t[n]
                         \/ \E h \in Handle : op[h] \in {"share", "release"}

(***************************************************************************)
(* Shared: whoever has a Shared can use the object, which is neither       *)
(* deleted nor owned by another.  own(): of those who ask, one gets it,    *)
(* and it waits only while somebody has a Shared whose reset() will give   *)
(* it the object.                                                          *)
(***************************************************************************)
SharedHolds ==
  /\ \A h \in Handle : handle[h] # 0 /\ kind[handle[h]] = "Shared" => t[handle[h]]
  /\ \A h \in Handle : future[h] = "waiting" =>
       /\ source[h] # 0 /\ owned[source[h]]
       /\ \E g \in Handle : handle[g] = source[h]
       /\ \A g \in Handle : future[g] = "waiting" /\ source[g] = source[h] => g = h

\* What the two rest on: Data objects not made yet are unused, each step of an
\* operation finds what the step before left, and the bound leaves room for the
\* Data that a share() or an own() under way is going to make.
Bookkeeping ==
  /\ \A n \in Datas : n > made => ~t[n] /\ ~owned[n]
  /\ \A h \in Handle :
       /\ handle[h] <= made /\ source[h] <= made
       /\ op[h] \in {"share", "release"} => made < MaxData
       /\ op[h] = "own" => /\ future[h] = "waiting" /\ source[h] = handle[h]
                           /\ handle[h] # 0
       /\ future[h] = "waiting" => kind[source[h]] = "Shared" /\ made < MaxData
       /\ future[h] = "ready" => source[h] # 0 /\ kind[source[h]] = "Owned"

\* The inductive invariant, of which these are the parts.
Safe == TypeOK /\ OneHolder /\ SharedHolds /\ Bookkeeping

-----------------------------------------------------------------------------
(* Proofs: Safe holds for every number of handles and of Data objects.     *)

\* The invariant holds at first.
LEMMA InitSafe == ASSUME MaxData \in Nat \ {0}, Init PROVE Safe
<1> USE DEF Init, Datas
<1>0. 1 \in 1..MaxData
  OBVIOUS
<1>1. TypeOK
  BY DEF TypeOK
<1>2. OneHolder
  <2>1. 1 \in Datas /\ object = "held" /\ \A n \in Datas : t[n] <=> n = 1
    BY  <1>0, Zenon
  <2>2. \A h \in Handle : op[h] \notin {"share", "release"}
    BY Zenon
  <2> HIDE DEF Init, Datas
  <2> QED BY <2>1, <2>2, Zenon DEF OneHolder
<1>3. SharedHolds
  BY DEF SharedHolds
<1>4. Bookkeeping
  <2>1. \A n \in Datas : (t[n] <=> n = 1) /\ ~owned[n]
    BY Zenon
  <2>2. \A h \in Handle : /\ handle[h] \in {0, 1} /\ source[h] = 0
                          /\ op[h] = "idle" /\ future[h] = "none"
    BY Zenon
  <2>3. made = 1
    BY Zenon
  <2> HIDE DEF Init
  <2> QED BY <2>1, <2>2, <2>3 DEF Bookkeeping
<1> QED BY <1>1, <1>2, <1>3, <1>4, Zenon DEF Safe

\* Copying a handle adds a reference, and no holder.
LEMMA CopyStep ==
  ASSUME MaxData \in Nat \ {0}, Safe, NEW g \in Handle, NEW h \in Handle, Copy(g, h)
  PROVE  Safe'
<1> USE DEF Copy, Idle, datas, futures, Safe, Datas
<1>1. TypeOK'
  BY Zenon DEF TypeOK
<1>2. OneHolder'
  BY Zenon DEF OneHolder
<1>3. SharedHolds'
  BY DEF SharedHolds, TypeOK
<1>4. Bookkeeping'
  BY Zenon DEF Bookkeeping, TypeOK
<1> QED BY <1>1, <1>2, <1>3, <1>4, Zenon

\* The exchange of share() or release() takes the object out of its Data, into
\* the hands of one thread ...
LEMMA ExchangeStep ==
  ASSUME MaxData \in Nat \ {0}, Safe, NEW h \in Handle,
         Exchange(h, "share") \/ Exchange(h, "release")
  PROVE  Safe'
<1> USE DEF Exchange, Holds, Idle, datas, futures, Safe, Datas
<1>1. TypeOK'
  BY Zenon DEF TypeOK
<1>2. OneHolder'
  <2>1. /\ handle[h] \in Datas /\ t[handle[h]] /\ object' = object
        /\ op'[h] \in {"share", "release"}
        /\ \A g \in Handle : g # h => op'[g] = op[g]
        /\ \A n \in Datas : t'[n] <=> t[n] /\ n # handle[h]
    BY DEF TypeOK
  <2> HIDE DEF Exchange, Datas
  <2> QED BY <2>1, Zenon DEF OneHolder
<1>3. SharedHolds'
  <2>1. /\ UNCHANGED <<handle, kind, owned, future, source>>
        /\ \A g \in Handle : handle[g] # handle[h] /\ handle[g] # 0
                               => t'[handle[g]] = t[handle[g]]
        /\ kind[handle[h]] = "Owned"
    BY DEF TypeOK
  <2>2. \A g \in Handle : kind[handle[g]] = "Shared" => handle[g] # handle[h]
    BY <2>1, Zenon
  <2> HIDE DEF Exchange, Datas
  <2> QED BY <2>1, <2>2, Zenon DEF SharedHolds
<1>4. Bookkeeping'
  BY SMTT(30) DEF Bookkeeping, TypeOK
<1> QED BY <1>1, <1>2, <1>3, <1>4, Zenon

\* ... which puts it into a new Shared, that nobody refers to yet ...
LEMMA ShareStep ==
  ASSUME MaxData \in Nat \ {0}, Safe, NEW h \in Handle, share(h)
  PROVE  Safe'
<1> USE DEF share, datas, futures, Safe, Datas
<1>1. TypeOK'
  BY DEF TypeOK, Bookkeeping
<1>2. OneHolder'
  BY DEF OneHolder, TypeOK, Bookkeeping
<1>3. SharedHolds'
  BY DEF SharedHolds, OneHolder, TypeOK, Bookkeeping
<1>4. Bookkeeping'
  BY DEF Bookkeeping, TypeOK, OneHolder, SharedHolds
<1> QED BY <1>1, <1>2, <1>3, <1>4, Zenon

\* ... or gives it away.
LEMMA ReleaseStep ==
  ASSUME MaxData \in Nat \ {0}, Safe, NEW h \in Handle, release(h)
  PROVE  Safe'
<1> USE DEF release, datas, futures, Safe, Datas
<1>1. TypeOK'
  BY DEF TypeOK
<1>2. OneHolder'
  BY Zenon DEF OneHolder, TypeOK
<1>3. SharedHolds'
  BY DEF SharedHolds, OneHolder, TypeOK, Bookkeeping
<1>4. Bookkeeping'
  BY DEF Bookkeeping, TypeOK
<1> QED BY <1>1, <1>2, <1>3, <1>4, Zenon

\* own() claims a Shared once: a second caller sees `owned' and fails.
LEMMA OwnStep ==
  ASSUME MaxData \in Nat \ {0}, Safe, NEW h \in Handle, own(h)
  PROVE  Safe'
<1> USE DEF own, Holds, Idle, datas, futures, Safe, Datas
<1>1. TypeOK'
  <2>1. CASE owned[handle[h]]
    BY <2>1, Zenon DEF TypeOK
  <2>2. CASE ~owned[handle[h]]
    BY <2>2, ZenonT(30) DEF TypeOK
  <2> QED BY <2>1, <2>2, Zenon
<1>2. OneHolder'
  BY DEF OneHolder, TypeOK
<1>3. SharedHolds'
  <2>1. handle[h] # 0 /\ handle[h] \in Datas /\ UNCHANGED <<kind, t, handle>>
    BY DEF TypeOK
  <2>2. CASE owned[handle[h]]
    <3>1. /\ future'[h] = "failed" /\ UNCHANGED <<owned, source>>
          /\ \A g \in Handle : g # h => future'[g] = future[g]
      BY <2>2, Zenon DEF TypeOK
    <3> HIDE DEF own
    <3> QED BY <2>1, <3>1 DEF SharedHolds
  <2>3. CASE ~owned[handle[h]]
    <3>1. /\ source'[h] = handle[h] /\ owned'[handle[h]]
          /\ \A n \in Datas : owned[n] => owned'[n]
          /\ \A g \in Handle : g # h => future'[g] = future[g] /\ source'[g] = source[g]
      BY <2>1, <2>3, Zenon DEF TypeOK
    <3>2. \A g \in Handle : future[g] = "waiting" => source[g] # handle[h]
      BY <2>3, Zenon DEF SharedHolds
    <3>3. \A g \in Handle : future[g] = "waiting" => source[g] \in Datas
      BY DEF SharedHolds, TypeOK
    <3> HIDE DEF own
    <3> QED BY <2>1, <3>1, <3>2, <3>3 DEF SharedHolds
  <2> QED BY <2>2, <2>3, Zenon
<1>4. Bookkeeping'
  <2>1. /\ handle[h] # 0 /\ kind[handle[h]] = "Shared" /\ made < MaxData
        /\ handle[h] <= made /\ handle[h] \in Datas
        /\ UNCHANGED <<made, kind, t, handle>>
    BY DEF TypeOK, Bookkeeping
  <2>2. \A n \in Datas : n > made => ~owned'[n]
    BY <2>1, SMTT(30) DEF TypeOK, Bookkeeping
  <2>3. CASE owned[handle[h]]
    <3>1. /\ future'[h] = "failed" /\ UNCHANGED <<op, source>>
          /\ \A g \in Handle : g # h => future'[g] = future[g]
          /\ op[h] = "idle"
      BY <2>3, Zenon DEF TypeOK
    <3> HIDE DEF own
    <3> QED BY <2>1, <2>2, <3>1 DEF Bookkeeping
  <2>4. CASE ~owned[handle[h]]
    <3>1. /\ future'[h] = "waiting" /\ op'[h] = "own" /\ source'[h] = handle[h]
          /\ \A g \in Handle : g # h => /\ future'[g] = future[g] /\ op'[g] = op[g]
                                       /\ source'[g] = source[g]
      BY <2>4, Zenon DEF TypeOK
    <3> HIDE DEF own
    <3> QED BY <2>1, <2>2, <3>1 DEF Bookkeeping
  <2> QED BY <2>3, <2>4, Zenon
<1> QED BY <1>1, <1>2, <1>3, <1>4, Zenon

\* The Owned in the future can be copied like any other.
LEMMA GetStep ==
  ASSUME MaxData \in Nat \ {0}, Safe, NEW h \in Handle, Get(h)
  PROVE  Safe'
<1> USE DEF Get, Idle, datas, futures, Safe, Datas
<1>1. TypeOK'
  BY Zenon DEF TypeOK
<1>2. OneHolder'
  BY Zenon DEF OneHolder
<1>3. SharedHolds'
  BY DEF SharedHolds, TypeOK, Bookkeeping
<1>4. Bookkeeping'
  BY Zenon DEF Bookkeeping, TypeOK
<1> QED BY <1>1, <1>2, <1>3, <1>4, Zenon

\* A Data that nobody refers to any more deletes what it holds.
LEMMA DeleteHolder ==
  ASSUME MaxData \in Nat \ {0}, Safe, NEW n \in Datas,
         t' = [t EXCEPT ![n] = FALSE], object' = IF t[n] THEN "deleted" ELSE object,
         \A g \in Handle : op'[g] = op[g] \/ {op[g], op'[g]} = {"own", "idle"}
  PROVE  /\ OneHolder'
         /\ t' \in [Datas -> BOOLEAN] /\ object' \in {"held", "raw", "deleted"}
         /\ \A m \in Datas : m > made => ~t'[m]
<1>1. \A m \in Datas : t'[m] <=> t[m] /\ m # n
  BY Zenon DEF Safe, TypeOK
<1>2. \A g \in Handle : op'[g] \in {"share", "release"} <=> op[g] \in {"share", "release"}
  BY Zenon
<1>3. OneHolder'
  BY <1>1, <1>2, Zenon DEF OneHolder, Safe
<1>4. t' \in [Datas -> BOOLEAN] /\ object' \in {"held", "raw", "deleted"}
  BY Zenon DEF Safe, TypeOK
<1>5. \A m \in Datas : m > made => ~t'[m]
  BY <1>1, Zenon DEF Safe, Bookkeeping
<1> QED BY <1>3, <1>4, <1>5, Zenon

\* Dropping the future of own(), ready or not.
LEMMA ForgetStep ==
  ASSUME MaxData \in Nat \ {0}, Safe, NEW h \in Handle, Forget(h)
  PROVE  Safe'
<1> DEFINE last == future[h] = "ready" /\ (\A g \in Handle : handle[g] # source[h])
<1>1. /\ UNCHANGED <<made, kind, owned, handle, op>> /\ op[h] = "idle"
      /\ future'[h] = "none" /\ source'[h] = 0
      /\ \A g \in Handle : g # h => future'[g] = future[g] /\ source'[g] = source[g]
      /\ future' \in [Handle -> {"none", "waiting", "ready", "failed"}]
      /\ source' \in [Handle -> 0..MaxData]
  BY DEF Forget, Idle, Safe, TypeOK
<1>2. /\ OneHolder'
      /\ t' \in [Datas -> BOOLEAN] /\ object' \in {"held", "raw", "deleted"}
      /\ \A m \in Datas : m > made => ~t'[m]
  <2>1. CASE last
    <3>1. source[h] \in Datas
      BY <2>1 DEF Safe, TypeOK, Bookkeeping, Datas
    <3> QED BY <2>1, <3>1, <1>1, DeleteHolder, Zenon DEF Forget
  <2>2. CASE ~last
    BY <1>1, <2>2 DEF Forget, Safe, OneHolder, TypeOK, Bookkeeping
  <2> QED BY <2>1, <2>2, Zenon
<1>3. TypeOK'
  BY <1>1, <1>2, Zenon DEF TypeOK, Safe
<1>4. SharedHolds'
  <2>1. \A g \in Handle : handle[g] # 0 => t'[handle[g]] = t[handle[g]]
    BY DEF Forget, Safe, TypeOK, Datas
  <2> QED BY <1>1, <2>1 DEF SharedHolds, Safe
<1>5. Bookkeeping'
  <2>1. \A m \in Datas : m > made' => ~t'[m] /\ ~owned'[m]
    BY <1>1, <1>2, Zenon DEF Bookkeeping, Safe
  <2>2. made \in Nat
    BY DEF Safe, TypeOK, Datas
  <2> QED BY <1>1, <2>1, <2>2 DEF Bookkeeping, Safe
<1> QED BY <1>2, <1>3, <1>4, <1>5, Zenon DEF Safe

-----------------------------------------------------------------------------
(* The reset of a handle, and the destructors                              *)

\* The last reference hands the object over to the one future that waits for it,
\* deletes it, or had nothing to delete; any other reference changes nothing.
LEMMA DropStep ==
  ASSUME MaxData \in Nat \ {0}, Safe, NEW h \in Handle, handle[h] # 0, Drop(h),
         \/ op[h] = "idle" /\ UNCHANGED op
         \/ op[h] = "own" /\ op' = [op EXCEPT ![h] = "idle"]
  PROVE  Safe'
<1> DEFINE n == handle[h]
           waiting == {g \in Handle : future[g] = "waiting" /\ source[g] = n}
           others == \E g \in Handle : \/ g # h /\ handle[g] = n
                                       \/ future[g] = "ready" /\ source[g] = n
           handed == kind[n] = "Shared" /\ owned[n] /\ waiting # {}
<1>1. n \in Datas /\ made \in Nat /\ Datas = 1..MaxData
  BY DEF Safe, TypeOK, Datas
<1>2. /\ handle' \in [Handle -> 0..MaxData] /\ handle'[h] = 0
      /\ \A g \in Handle : g # h => handle'[g] = handle[g]
  BY DEF Drop, Safe, TypeOK
<1>3. /\ op' \in [Handle -> {"idle", "share", "release", "own"}] /\ op'[h] = "idle"
      /\ \A g \in Handle : g # h => op'[g] = op[g]
      /\ \A g \in Handle : op'[g] = op[g] \/ {op[g], op'[g]} = {"own", "idle"}
      /\ \A g \in Handle : op'[g] \in {"share", "release"} <=> op[g] \in {"share", "release"}
  BY Zenon DEF Safe, TypeOK
<1>4. CASE others
  <2>1. UNCHANGED <<made, kind, t, owned, future, source, object>>
    BY <1>4, Zenon DEF Drop, datas, futures
  <2>2. TypeOK'
    BY <1>2, <1>3, <2>1, Zenon DEF TypeOK, Safe
  <2>3. OneHolder'
    BY <1>3, <2>1, Zenon DEF OneHolder, Safe
  <2>4. SharedHolds'
    <3>1. ASSUME NEW g \in Handle, future[g] = "waiting"
          PROVE  \E f \in Handle : handle'[f] = source[g]
      <4>1. PICK f \in Handle : handle[f] = source[g]
        BY <3>1, Zenon DEF Safe, SharedHolds
      <4>2. CASE f = h
        <5>1. kind[n] = "Shared"
          BY <3>1, <4>1, <4>2, Zenon DEF Safe, Bookkeeping
        <5> QED BY <1>2, <1>4, <4>1, <4>2, <5>1 DEF Safe, Bookkeeping
      <4> QED BY <1>2, <4>1, <4>2, Zenon
    <3> QED BY <1>2, <2>1, <3>1, Zenon DEF SharedHolds, Safe
  <2>5. Bookkeeping'
    BY <1>1, <1>2, <1>3, <2>1 DEF Bookkeeping, Safe
  <2> QED BY <2>2, <2>3, <2>4, <2>5, Zenon DEF Safe
<1>5. CASE ~others /\ ~handed
  <2>1. /\ t' = [t EXCEPT ![n] = FALSE] /\ object' = IF t[n] THEN "deleted" ELSE object
        /\ UNCHANGED <<made, kind, owned, future, source>>
    BY <1>5, Zenon DEF Drop, Destroy
  <2>2. /\ OneHolder'
        /\ t' \in [Datas -> BOOLEAN] /\ object' \in {"held", "raw", "deleted"}
        /\ \A m \in Datas : m > made => ~t'[m]
    BY <1>1, <1>3, <2>1, DeleteHolder, Zenon
  <2>3. TypeOK'
    BY <1>2, <1>3, <2>1, <2>2, Zenon DEF TypeOK, Safe
  <2>4. SharedHolds'
    <3>1. ASSUME NEW g \in Handle, handle'[g] # 0, kind'[handle'[g]] = "Shared"
          PROVE  t'[handle'[g]]
      <4>1. g # h /\ handle'[g] = handle[g]
        BY <1>2, <3>1, Zenon
      <4>2. handle[g] \in Datas /\ handle[g] # n
        BY <1>1, <1>5, <3>1, <4>1 DEF Safe, TypeOK
      <4>3. t[handle[g]]
        BY <2>1, <3>1, <4>1, Zenon DEF Safe, SharedHolds
      <4> QED BY <2>1, <4>1, <4>2, <4>3, Zenon DEF Safe, TypeOK
    <3>2. ASSUME NEW g \in Handle, future[g] = "waiting"
          PROVE  \E f \in Handle : handle'[f] = source[g]
      <4>1. PICK f \in Handle : handle[f] = source[g]
        BY <3>2, Zenon DEF Safe, SharedHolds
      <4>2. kind[source[g]] = "Shared" /\ owned[source[g]]
        BY <3>2, Zenon DEF Safe, SharedHolds, Bookkeeping
      <4>3. f # h
        BY <1>5, <3>2, <4>1, <4>2, Zenon
      <4> QED BY <1>2, <4>1, <4>3, Zenon
    <3>3. \A g \in Handle : future'[g] = "waiting" =>
            /\ source'[g] # 0 /\ owned'[source'[g]]
            /\ \A f \in Handle : future'[f] = "waiting" /\ source'[f] = source'[g] => f = g
      BY <2>1, Zenon DEF SharedHolds, Safe
    <3> QED BY <2>1, <3>1, <3>2, <3>3, Zenon DEF SharedHolds
  <2>5. Bookkeeping'
    <3>1. \A m \in Datas : m > made' => ~t'[m] /\ ~owned'[m]
      BY <2>1, <2>2, Zenon DEF Bookkeeping, Safe
    <3> QED BY <1>1, <1>2, <1>3, <2>1, <3>1 DEF Bookkeeping, Safe
  <2> QED BY <2>2, <2>3, <2>4, <2>5, Zenon DEF Safe
<1>6. CASE ~others /\ handed
  <2> DEFINE m == made + 1
  <2>1. PICK w \in Handle : w \in waiting
    BY <1>6, Zenon
  <2>2. m \in Datas /\ m # n /\ n <= made /\ t[n]
    BY <1>1, <1>6, <2>1 DEF Safe, Bookkeeping, SharedHolds
  <2>3. \A x \in Datas : t[x] <=> x = n
    BY <1>1, <2>2, Zenon DEF Safe, OneHolder
  <2>4. \A g \in Handle : future[g] = "waiting" <=> g = w
    <3>1. ASSUME NEW g \in Handle, future[g] = "waiting" PROVE g = w
      <4>1. PICK f \in Handle : handle[f] = source[g]
        BY <3>1, Zenon DEF Safe, SharedHolds
      <4>2. source[g] \in Datas /\ t[source[g]]
        BY <1>1, <3>1, <4>1 DEF Safe, SharedHolds, Bookkeeping, TypeOK
      <4>3. source[g] = n
        BY <2>3, <4>2, Zenon
      <4> QED BY <2>1, <3>1, <4>3 DEF Safe, SharedHolds
    <3> QED BY <2>1, <3>1, Zenon
  <2>5. waiting = {w}
    BY <2>1, <2>4, Zenon
  <2>6. /\ made' = m /\ kind' = [kind EXCEPT ![m] = "Owned"]
        /\ t' = [t EXCEPT ![n] = FALSE, ![m] = TRUE]
        /\ future' = [g \in Handle |-> IF g \in waiting THEN "ready" ELSE future[g]]
        /\ source' = [g \in Handle |-> IF g \in waiting THEN m ELSE source[g]]
        /\ UNCHANGED <<owned, object>>
    BY <1>6, Zenon DEF Drop, Destroy
  <2> HIDE DEF waiting, others, handed, m
  <2>7. /\ future'[w] = "ready" /\ source'[w] = m
        /\ \A g \in Handle : g # w => future'[g] = future[g] /\ source'[g] = source[g]
        /\ \A g \in Handle : future'[g] # "waiting"
    BY <2>1, <2>4, <2>5, <2>6, Zenon
  <2>8. /\ kind'[m] = "Owned" /\ \A x \in Datas : x # m => kind'[x] = kind[x]
        /\ \A x \in Datas : t'[x] <=> x = m
    BY <1>1, <2>2, <2>3, <2>6, Zenon DEF Safe, TypeOK
  <2>9. \A g \in Handle : op'[g] = "idle"
    <3>1. ASSUME NEW g \in Handle, g # h, op[g] = "own" PROVE FALSE
      <4>1. g = w /\ source[g] = handle[g]
        BY <2>4, <3>1, Zenon DEF Safe, Bookkeeping
      <4> QED BY <1>6, <2>1, <3>1, <4>1, Zenon DEF waiting, others
    <3>2. \A g \in Handle : op[g] \notin {"share", "release"}
      BY <1>1, <2>2, Zenon DEF Safe, OneHolder
    <3> QED BY <1>3, <3>1, <3>2 DEF Safe, TypeOK
  <2>10. TypeOK'
    <3>1. made' \in Datas /\ kind' \in [Datas -> {"Owned", "Shared"}]
          /\ t' \in [Datas -> BOOLEAN] /\ owned' \in [Datas -> BOOLEAN]
      BY <1>1, <2>2, <2>6, Zenon DEF TypeOK, Safe
    <3>2. m \in 0..MaxData
      BY <1>1, <2>2
    <3>3. future' \in [Handle -> {"none", "waiting", "ready", "failed"}]
          /\ source' \in [Handle -> 0..MaxData]
      BY <2>6, <3>2, Zenon DEF TypeOK, Safe
    <3> QED BY <1>2, <1>3, <2>6, <3>1, <3>3, Zenon DEF TypeOK, Safe
  <2>11. OneHolder'
    <3>1. object' = "held"
      BY <1>1, <2>2, <2>6, Zenon DEF Safe, OneHolder
    <3> QED BY <2>2, <2>8, <2>9, <3>1, Zenon DEF OneHolder
  <2>12. SharedHolds'
    <3>1. ASSUME NEW g \in Handle, handle'[g] # 0 PROVE kind'[handle'[g]] = "Owned"
      <4>1. g # h /\ handle'[g] = handle[g] /\ handle[g] \in Datas /\ handle[g] # n
        BY <1>1, <1>2, <1>6, <3>1 DEF Safe, TypeOK, others
      <4>2. handle[g] # m
        BY <1>1 DEF Safe, Bookkeeping, m
      <4>3. kind[handle[g]] # "Shared"
        BY <1>1, <2>3, <4>1 DEF Safe, SharedHolds
      <4> QED BY <2>8, <4>1, <4>2, <4>3, ZenonT(30) DEF Safe, TypeOK
    <3> QED BY <2>7, <3>1, Zenon DEF SharedHolds
  <2>13. Bookkeeping'
    <3>1. \A x \in Datas : x > m => ~t'[x] /\ ~owned'[x]
      <4>1. \A x \in Datas : x > m => x > made /\ x # m
        BY <1>1 DEF m
      <4> QED BY <2>6, <2>8, <4>1, Zenon DEF Safe, Bookkeeping
    <3>2. \A g \in Handle : handle'[g] <= m /\ source'[g] <= m
      <4>1. \A g \in Handle : handle[g] <= made /\ source[g] <= made
        BY Zenon DEF Safe, Bookkeeping
      <4>2. \A k \in 0..MaxData : k <= made => k <= m
        BY <1>1 DEF m
      <4>3. m \in Nat /\ m <= m /\ 0 <= m
        BY <1>1 DEF m
      <4>4. \A g \in Handle : handle[g] \in 0..MaxData /\ source[g] \in 0..MaxData
        BY Zenon DEF Safe, TypeOK
      <4> QED BY <1>2, <2>7, <4>1, <4>2, <4>3, <4>4, Zenon
    <3>3. \A g \in Handle : future'[g] = "ready" =>
                              source'[g] # 0 /\ kind'[source'[g]] = "Owned"
      <4>1. ASSUME NEW g \in Handle, g # w, future'[g] = "ready"
            PROVE  source'[g] # 0 /\ kind'[source'[g]] = "Owned"
        <5>1. /\ source'[g] = source[g] /\ source[g] # 0 /\ source[g] <= made
              /\ kind[source[g]] = "Owned" /\ source[g] \in Datas
          BY <1>1, <2>7, <4>1 DEF Safe, Bookkeeping, TypeOK
        <5> QED BY <1>1, <2>8, <5>1, Zenon DEF m
      <4> QED BY <1>1, <2>2, <2>7, <2>8, <4>1
    <3> QED BY <2>6, <2>7, <2>9, <3>1, <3>2, <3>3, Zenon DEF Bookkeeping
  <2> QED BY <2>10, <2>11, <2>12, <2>13, Zenon DEF Safe
<1> QED BY <1>4, <1>5, <1>6, Zenon

-----------------------------------------------------------------------------
(* The invariant                                                           *)

\* Every step of Next preserves the invariant.
LEMMA NextSafe == ASSUME MaxData \in Nat \ {0}, Safe, [Next]_vars PROVE Safe'
<1>1. CASE Next
  <2>1. CASE \E g, h \in Handle : Copy(g, h)
    BY <2>1, CopyStep, Zenon
  <2>2. ASSUME NEW h \in Handle, reset(h) PROVE Safe'
    BY <2>2, DropStep, Zenon DEF reset, Idle
  <2>3. ASSUME NEW h \in Handle, OwnReset(h) PROVE Safe'
    <3>1. handle[h] # 0
      BY <2>3, Zenon DEF OwnReset, Safe, Bookkeeping
    <3> QED BY <2>3, <3>1, DropStep, Zenon DEF OwnReset
  <2> QED BY <1>1, <2>1, <2>2, <2>3, ExchangeStep, ShareStep, ReleaseStep, OwnStep,
             GetStep, ForgetStep, Zenon DEF Next
<1>2. CASE UNCHANGED vars
  BY <1>2 DEF vars, Safe, TypeOK, OneHolder, SharedHolds, Bookkeeping
<1> QED BY <1>1, <1>2, Zenon

\* Whatever the interleaving of copies, resets, share(), release() and own(), the
\* object has one holder, every Shared can be used, and own() neither succeeds
\* twice nor waits with nobody left to complete it.
THEOREM OwnershipSafe == ASSUME MaxData \in Nat \ {0} PROVE Spec => []Safe
BY InitSafe, NextSafe, PTL DEF Spec
=============================================================================

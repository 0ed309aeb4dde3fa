------------------------ MODULE ProcessManagerProofs ------------------------
(***************************************************************************)
(* The inductive invariant IInv of ProcessManager holds in every state of  *)
(* its behaviours, whatever the threads, processes, names and bounds, and  *)
(* the safety properties that the runs check on small instances follow.    *)
(*                                                                         *)
(* First the lemmas about types and tokens: every step keeps the types of  *)
(* the variables, the places of the threads and what the state of a        *)
(* process is under a token, and no step makes a second token or loses     *)
(* one.  Where an action moves a token, its proof says which threads run   *)
(* and which threads push the process after the step, and then argues      *)
(* about tokens alone.                                                     *)
(*                                                                         *)
(* Then the lemmas about the end of a process: the terminate event and its *)
(* flag, the mutex and the reference that cleanup takes, the event queue   *)
(* that it closes, and the object that it deletes.                         *)
(*                                                                         *)
(* Last the refinement: with the locking event queue, ProcessManager       *)
(* implements the mailbox of module Actor under the mapping phaseBar,      *)
(* inboxBar, servingBar.  First what the mapping is at a process that a    *)
(* thread runs and what a step of another thread does to it, then one      *)
(* lemma for each step that the mailbox can see.                           *)
(***************************************************************************)
EXTENDS ProcessManager, TLAPS

-----------------------------------------------------------------------------
(* Facts about the sequences used for the run queue and the event queues.  *)

\* push_back on RunQueue::processes or on an event queue.
LEMMA AppendFacts ==
  ASSUME NEW S, NEW s \in Seq(S), NEW x \in S
  PROVE  /\ Append(s, x) \in Seq(S)
         /\ Len(Append(s, x)) = Len(s) + 1
         /\ \A j \in 1..Len(s) : Append(s, x)[j] = s[j]
         /\ Append(s, x)[Len(s) + 1] = x
OBVIOUS

\* What is in the run queue after push_back.
LEMMA AppendElements ==
  ASSUME NEW s \in Seq(Process), NEW x \in Process
  PROVE  /\ \A j \in 1..Len(s) : j \in 1..Len(Append(s, x)) /\ Append(s, x)[j] = s[j]
         /\ \E j \in 1..Len(Append(s, x)) : Append(s, x)[j] = x
OBVIOUS

\* front and pop_front.
LEMMA HeadTailFacts ==
  ASSUME NEW S, NEW s \in Seq(S), s # <<>>
  PROVE  /\ Len(s) \in Nat /\ Len(s) > 0
         /\ Head(s) = s[1] /\ Head(s) \in S
         /\ Tail(s) \in Seq(S)
         /\ Len(Tail(s)) = Len(s) - 1
         /\ \A j \in 1..(Len(s) - 1) : Tail(s)[j] = s[j + 1]
OBVIOUS

\* The elements of the tail of a sequence are those of the sequence, one later.
LEMMA TailShift ==
  ASSUME NEW S, NEW s \in Seq(S), s # <<>>
  PROVE  /\ Head(s) = s[1] /\ 1 \in 1..Len(s)
         /\ \A k \in 1..Len(Tail(s)) :
              k + 1 \in 1..Len(s) /\ k + 1 # 1 /\ Tail(s)[k] = s[k + 1]
BY HeadTailFacts

\* RunQueue::extract removes one element and keeps the others in order.
LEMMA RemoveAtFacts ==
  ASSUME NEW S, NEW s \in Seq(S), NEW k \in 1..Len(s)
  PROVE  /\ RemoveAt(s, k) \in Seq(S)
         /\ Len(RemoveAt(s, k)) = Len(s) - 1
         /\ \A j \in 1..(Len(s) - 1) :
              RemoveAt(s, k)[j] = IF j < k THEN s[j] ELSE s[j + 1]
<1>1. Len(s) \in Nat /\ Len(s) > 0
  OBVIOUS
<1>2. \A j \in 1..(Len(s) - 1) : (IF j < k THEN s[j] ELSE s[j + 1]) \in S
  BY <1>1
<1> DEFINE r == [j \in 1..(Len(s) - 1) |-> IF j < k THEN s[j] ELSE s[j + 1]]
<1>3. r \in [1..(Len(s) - 1) -> S]
  BY <1>2, Zenon
<1>4. r \in Seq(S) /\ Len(r) = Len(s) - 1
  BY <1>1, <1>3
<1> QED BY <1>4, Zenon DEF RemoveAt

\* What is in a queue after extract was in it before.
LEMMA RemoveAtElements ==
  ASSUME NEW S, NEW s \in Seq(S), NEW k \in 1..Len(s)
  PROVE  \A j \in 1..Len(RemoveAt(s, k)) : \E i \in 1..Len(s) : RemoveAt(s, k)[j] = s[i]
<1>1. /\ Len(RemoveAt(s, k)) = Len(s) - 1
      /\ \A j \in 1..(Len(s) - 1) :
           RemoveAt(s, k)[j] = IF j < k THEN s[j] ELSE s[j + 1]
  BY RemoveAtFacts, Zenon
<1>2. \A j \in 1..(Len(s) - 1) : j \in 1..Len(s) /\ j + 1 \in 1..Len(s)
  OBVIOUS
<1> QED BY <1>1, <1>2, Zenon

\* The event in hand and the queue behind it, as the purge of resume sees them.
LEMMA PurgeFacts ==
  ASSUME NEW S, NEW s \in Seq(S), NEW x \in S
  PROVE  /\ <<x>> \o s \in Seq(S)
         /\ Len(<<x>> \o s) = Len(s) + 1
         /\ (<<x>> \o s)[1] = x
         /\ \A j \in 1..Len(s) : (<<x>> \o s)[j + 1] = s[j]
OBVIOUS

\* What the purge leaves in the queue.
LEMMA RestFacts ==
  ASSUME NEW S, NEW s \in Seq(S), NEW k \in 1..Len(s)
  PROVE  /\ Len(SubSeq(s, k + 1, Len(s))) = Len(s) - k
         /\ \A i \in 1..(Len(s) - k) : SubSeq(s, k + 1, Len(s))[i] = s[k + i]
OBVIOUS

\* Storing a queue of events for one process keeps the queues typed.
LEMMA EventsUpdate ==
  ASSUME events \in [Process -> Seq(Kind)],
         NEW p \in Process, NEW s \in Seq(Kind), events' = [events EXCEPT ![p] = s]
  PROVE  events' \in [Process -> Seq(Kind)]
BY Zenon

-----------------------------------------------------------------------------
(* Types.                                                                  *)

\* A step of resume, cleanup, enqueue or spawn keeps the types of a process.
LEMMA ProcTypesStep ==
  ASSUME TypeOK, PlacesOK,
         NEW t \in Thread, ThreadStep(t) \/ Call(t)
  PROVE  ProcTypes'
<1> USE ConstantsAssumption
<1>1. CASE \/ LoadState(t) \/ RunqPush(t) \/ RunqSignal(t)
         \/ RunqWait(t) \/ RunqDequeue(t) \/ Resume(t) \/ Recheck(t)
         \/ Served(t) \/ ReleaseReference(t) \/ EraseProcess(t)
         \/ Inspect(t) \/ Extract(t)
  <2>1. UNCHANGED procVars
    BY <1>1, Zenon DEF LoadState, RunqPush, RunqSignal, RunqWait, RunqDequeue, Resume,
           Recheck, Served, ReleaseReference, EraseProcess, Inspect, Extract,
           SendGoto, SendReturn, procVars, queueVars, mapVars, mainVars, Goto,
           sendVars, Return
  <2> QED BY <2>1, Zenon DEF TypeOK, ProcTypes, procVars
<1>2. CASE PushEvent(t)
  <2>1. dst[t] \in Process /\ devent[t] \in Kind
    BY <1>2, Zenon DEF PushEvent, PlacesOK
  <2>2. Append(events[dst[t]], devent[t]) \in Seq(Kind)
    BY <2>1 DEF TypeOK, ProcTypes
  <2>3. \/ UNCHANGED events
        \/ events' = [events EXCEPT ![dst[t]] = Append(@, devent[t])]
    BY <1>2, Zenon DEF PushEvent
  <2>4. events' \in [Process -> Seq(Kind)]
    BY <2>1, <2>2, <2>3, Zenon DEF TypeOK, ProcTypes
  <2> QED BY <1>2, <2>4, Zenon DEF PushEvent, TypeOK, ProcTypes
<1>3. CASE StoreTermination(t)
  BY <1>3, Zenon DEF StoreTermination, SendGoto, queueVars, mapVars, mainVars, TypeOK,
         ProcTypes
<1>4. CASE WakeIfBlocked(t)
  BY <1>4, Zenon DEF WakeIfBlocked, SendGoto, SendReturn, queueVars, mapVars, mainVars,
         TypeOK, ProcTypes, State
<1>5. CASE Initialized(t)
  BY <1>5, Zenon DEF Initialized, Goto, queueVars, mapVars, sendVars, TypeOK, ProcTypes,
         State
<1>6. CASE DequeueEvent(t)
  <2>1. proc[t] \in Process
    BY <1>6, Zenon DEF DequeueEvent, PlacesOK
  <2>2. \/ UNCHANGED events
        \/ /\ events[proc[t]] # <<>>
           /\ events' = [events EXCEPT ![proc[t]] = Tail(events[proc[t]])]
    BY <1>6, Zenon DEF DequeueEvent
  <2>3. events \in [Process -> Seq(Kind)]
    BY Zenon DEF TypeOK, ProcTypes
  <2>4. events[proc[t]] # <<>> => Tail(events[proc[t]]) \in Seq(Kind)
    BY <2>1, <2>3, HeadTailFacts, Zenon
  <2>5. events' \in [Process -> Seq(Kind)]
    BY <2>1, <2>2, <2>3, <2>4, EventsUpdate, Zenon
  <2> QED BY <1>6, <2>5, Zenon DEF DequeueEvent, TypeOK, ProcTypes
<1>7. CASE Block(t)
  BY <1>7, Zenon DEF Block, Goto, queueVars, mapVars, sendVars, TypeOK, ProcTypes, State
<1>8. CASE Unblock(t)
  BY <1>8, Zenon DEF Unblock, Goto, queueVars, mapVars, sendVars, TypeOK, ProcTypes,
         State
<1>9. CASE Examine(t)
  <2> DEFINE p == proc[t]
             all == <<event[t]>> \o events[p]
  <2>1. p \in Process /\ event[t] \in Kind
    BY <1>9, Zenon DEF Examine, PlacesOK
  <2>2. all \in Seq(Kind)
    BY <2>1, PurgeFacts, Zenon DEF TypeOK, ProcTypes
  <2>3. \A k \in 1..Len(all) : SubSeq(all, k + 1, Len(all)) \in Seq(Kind)
    BY <2>2
  <2>4. \/ UNCHANGED events
        \/ \E k \in 1..Len(all) :
             events' = [events EXCEPT ![p] = SubSeq(all, k + 1, Len(all))]
    BY <1>9, Zenon DEF Examine
  <2> HIDE DEF all, p
  <2>5. events' \in [Process -> Seq(Kind)]
    BY <2>1, <2>3, <2>4, EventsUpdate, Zenon DEF TypeOK, ProcTypes
  <2> QED BY <1>9, <2>5, Zenon DEF Examine, TypeOK, ProcTypes
<1>10. CASE Cleanup(t)
  BY <1>10, Zenon DEF Cleanup, Goto, queueVars, mapVars, sendVars, TypeOK, ProcTypes,
         State
<1>11. CASE Decomission(t)
  <2>1. proc[t] \in Process /\ <<>> \in Seq(Kind)
    BY <1>11 DEF Decomission, PlacesOK
  <2>3. events' \in [Process -> Seq(Kind)]
    BY <1>11, <2>1, EventsUpdate, Zenon DEF Decomission, TypeOK, ProcTypes
  <2>2. comissioned' \in [Process -> BOOLEAN]
    BY <1>11, Zenon DEF Decomission, TypeOK, ProcTypes
  <2> QED BY <1>11, <2>2, <2>3, Zenon DEF Decomission, TypeOK, ProcTypes
<1>12. CASE ResetReference(t)
  BY <1>12, Zenon DEF ResetReference, Goto, queueVars, sendVars, TypeOK, ProcTypes
<1>13. CASE OpenGate(t)
  BY <1>13, Zenon DEF OpenGate, Goto, Return, queueVars, sendVars, TypeOK, ProcTypes
<1>14. CASE DeleteManaged(t)
  BY <1>14, Zenon DEF DeleteManaged, Return, Goto, queueVars, mapVars, sendVars, TypeOK,
         ProcTypes
<1>15. CASE GateWait(t)
  BY <1>15, Zenon DEF GateWait, Goto, queueVars, mapVars, sendVars, TypeOK, ProcTypes
<1>16. ASSUME NEW i \in Ids, NEW p \in Process, NEW e \in Kind, Deliver(t, i, p, e)
      PROVE  ProcTypes'
  BY <1>16, Zenon DEF Deliver, SendGoto, CanCall, Use, procVars, queueVars, mapVars,
         mainVars, TypeOK, ProcTypes
<1>17. ASSUME NEW p \in Process, Spawn(t, p)
      PROVE  ProcTypes'
  BY <1>17, Zenon DEF Spawn, SendGoto, CanCall, queueVars, mainVars, TypeOK, ProcTypes
<1>18. ASSUME NEW i \in Ids, NEW p \in Process, WaitUse(t, i, p)
      PROVE  ProcTypes'
  BY <1>18, Zenon DEF WaitUse, Goto, Use, procVars, queueVars, mapVars, sendVars, TypeOK,
         ProcTypes
<1> QED
  BY <1>1, <1>2, <1>3, <1>4, <1>5, <1>6, <1>7, <1>8, <1>9, <1>10,
     <1>11, <1>12, <1>13, <1>14, <1>15, <1>16, <1>17, <1>18, Zenon
     DEF ThreadStep, SendStep, ResumeStep, CleanupStep, WaitStep, Call

\* A step keeps the types of the run queue.
LEMMA QueueTypesStep ==
  ASSUME TypeOK, PlacesOK,
         NEW t \in Thread, ThreadStep(t) \/ Call(t)
  PROVE  QueueTypes'
<1> USE ConstantsAssumption
<1>1. CASE \/ LoadState(t) \/ PushEvent(t) \/ StoreTermination(t)
         \/ WakeIfBlocked(t) \/ Resume(t) \/ Initialized(t)
         \/ DequeueEvent(t) \/ Block(t) \/ Recheck(t) \/ Unblock(t)
         \/ Examine(t) \/ Served(t) \/ ReleaseReference(t)
         \/ Cleanup(t) \/ Decomission(t) \/ ResetReference(t)
         \/ EraseProcess(t) \/ OpenGate(t) \/ DeleteManaged(t)
         \/ Inspect(t) \/ GateWait(t)
  <2>1. UNCHANGED queueVars
    BY <1>1, Zenon DEF LoadState, PushEvent, StoreTermination, WakeIfBlocked, Resume,
           Initialized, DequeueEvent, Block, Recheck, Unblock, Examine, Served,
           ReleaseReference, Cleanup, Decomission, ResetReference,
           EraseProcess, OpenGate, DeleteManaged, Inspect, GateWait, SendGoto,
           SendReturn, procVars, queueVars, mapVars, mainVars, Goto, sendVars,
           Return
  <2> QED BY <2>1, Zenon DEF TypeOK, QueueTypes, queueVars
<1>2. CASE RunqPush(t)
  BY <1>2 DEF RunqPush, SendGoto, procVars, mapVars, mainVars, TypeOK,
         QueueTypes, PlacesOK
<1>3. CASE RunqSignal(t)
  BY <1>3 DEF RunqSignal, SendReturn, SendGoto, procVars, mapVars, mainVars,
         TypeOK, QueueTypes
<1>4. CASE RunqWait(t)
  BY <1>4 DEF RunqWait, Goto, procVars, mapVars, sendVars, TypeOK, QueueTypes
<1>5. CASE RunqDequeue(t)
  BY <1>5 DEF RunqDequeue, Goto, procVars, mapVars, sendVars, TypeOK, QueueTypes
<1>6. CASE Extract(t)
  BY <1>6, RemoveAtFacts DEF Extract, Goto, procVars, mapVars, sendVars, TypeOK,
         QueueTypes
<1>7. ASSUME NEW i \in Ids, NEW p \in Process, NEW e \in Kind, Deliver(t, i, p, e)
      PROVE  QueueTypes'
  BY <1>7, Zenon DEF Deliver, SendGoto, CanCall, Use, procVars, queueVars, mapVars,
         mainVars, TypeOK, QueueTypes
<1>8. ASSUME NEW p \in Process, Spawn(t, p)
      PROVE  QueueTypes'
  BY <1>8, Zenon DEF Spawn, SendGoto, CanCall, queueVars, mainVars, TypeOK, QueueTypes
<1>9. ASSUME NEW i \in Ids, NEW p \in Process, WaitUse(t, i, p)
      PROVE  QueueTypes'
  BY <1>9, Zenon DEF WaitUse, Goto, Use, procVars, queueVars, mapVars, sendVars, TypeOK,
         QueueTypes
<1> QED
  BY <1>1, <1>2, <1>3, <1>4, <1>5, <1>6, <1>7, <1>8, <1>9, Zenon
     DEF ThreadStep, SendStep, ResumeStep, CleanupStep, WaitStep, Call

\* A step keeps the types of ProcessManager::processes and its mutex.
LEMMA MapTypesStep ==
  ASSUME TypeOK, PlacesOK,
         NEW t \in Thread, ThreadStep(t) \/ Call(t)
  PROVE  MapTypes'
<1> USE ConstantsAssumption
<1>1. CASE \/ LoadState(t) \/ PushEvent(t) \/ StoreTermination(t)
         \/ WakeIfBlocked(t) \/ RunqPush(t) \/ RunqSignal(t)
         \/ RunqWait(t) \/ RunqDequeue(t) \/ Resume(t)
         \/ Initialized(t) \/ DequeueEvent(t) \/ Block(t)
         \/ Recheck(t) \/ Unblock(t) \/ Examine(t) \/ Served(t)
         \/ ReleaseReference(t) \/ Cleanup(t) \/ Decomission(t)
         \/ DeleteManaged(t) \/ Inspect(t) \/ Extract(t)
         \/ GateWait(t)
  <2>1. UNCHANGED mapVars
    BY <1>1, Zenon DEF LoadState, PushEvent, StoreTermination, WakeIfBlocked,
           RunqPush, RunqSignal, RunqWait, RunqDequeue, Resume, Initialized,
           DequeueEvent, Block, Recheck, Unblock, Examine, Served,
           ReleaseReference, Cleanup, Decomission, DeleteManaged, Inspect,
           Extract, GateWait, SendGoto, SendReturn, procVars, queueVars,
           mapVars, mainVars, Goto, sendVars, Return
  <2> QED BY <2>1, Zenon DEF TypeOK, MapTypes, mapVars
<1>2. CASE ResetReference(t)
  BY <1>2, Zenon DEF ResetReference, Goto, queueVars, sendVars, TypeOK, MapTypes
<1>3. CASE EraseProcess(t)
  BY <1>3, Zenon DEF EraseProcess, Goto, procVars, queueVars, sendVars, TypeOK, MapTypes
<1>4. CASE OpenGate(t)
  BY <1>4, Zenon DEF OpenGate, Goto, Return, queueVars, sendVars, TypeOK, MapTypes
<1>5. ASSUME NEW i \in Ids, NEW p \in Process, NEW e \in Kind, Deliver(t, i, p, e)
      PROVE  MapTypes'
  BY <1>5, Zenon DEF Deliver, SendGoto, CanCall, Use, procVars, queueVars, mapVars,
         mainVars, TypeOK, MapTypes
<1>6. ASSUME NEW p \in Process, Spawn(t, p)
      PROVE  MapTypes'
  BY <1>6 DEF Spawn, SendGoto, CanCall, queueVars, mainVars, TypeOK, MapTypes
<1>7. ASSUME NEW i \in Ids, NEW p \in Process, WaitUse(t, i, p)
      PROVE  MapTypes'
  BY <1>7, Zenon DEF WaitUse, Goto, Use, procVars, queueVars, mapVars, sendVars, TypeOK,
         MapTypes
<1> QED
  BY <1>1, <1>2, <1>3, <1>4, <1>5, <1>6, <1>7, Zenon
     DEF ThreadStep, SendStep, ResumeStep, CleanupStep, WaitStep, Call

\* A step keeps the types of the worker loop, resume, cleanup and wait.
LEMMA MainTypesStep ==
  ASSUME TypeOK, PlacesOK,
         NEW t \in Thread, ThreadStep(t) \/ Call(t)
  PROVE  MainTypes'
<1> USE ConstantsAssumption
<1>1. CASE \/ LoadState(t) \/ PushEvent(t) \/ StoreTermination(t)
         \/ WakeIfBlocked(t) \/ RunqPush(t) \/ RunqSignal(t)
  <2>1. UNCHANGED mainVars
    BY <1>1, Zenon DEF LoadState, PushEvent, StoreTermination, WakeIfBlocked,
           RunqPush, RunqSignal, SendGoto, SendReturn, procVars, queueVars,
           mapVars, mainVars
  <2> QED BY <2>1, Zenon DEF TypeOK, MainTypes, mainVars
<1>2. CASE \/ RunqWait(t) \/ Resume(t) \/ Initialized(t) \/ Block(t)
         \/ Recheck(t) \/ Unblock(t) \/ Cleanup(t) \/ Decomission(t)
         \/ ResetReference(t) \/ EraseProcess(t) \/ Inspect(t)
         \/ Extract(t)
  <2>1. UNCHANGED <<proc, event>> /\ \E to \in MainPc : pc' = [pc EXCEPT ![t] = to]
    BY <1>2, Zenon DEF RunqWait, Resume, Initialized, Block, Recheck, Unblock,
           Cleanup, Decomission, ResetReference, EraseProcess, Inspect,
           Extract, Goto, procVars, mapVars, sendVars, queueVars, MainPc,
           OwnPc, CleanPc
  <2> QED BY <2>1 DEF TypeOK, MainTypes
<1>3. CASE RunqDequeue(t)
  BY <1>3 DEF RunqDequeue, Goto, procVars, mapVars, sendVars, TypeOK, MainTypes,
         MainPc, OwnPc, CleanPc, QueueTypes
<1>4. CASE DequeueEvent(t)
  <2>1. proc[t] \in Process /\ events[proc[t]] \in Seq(Kind)
    BY <1>4, Zenon DEF DequeueEvent, PlacesOK, TypeOK, ProcTypes
  <2>2. \/ UNCHANGED event
        \/ events[proc[t]] # <<>> /\ event' = [event EXCEPT ![t] = Head(events[proc[t]])]
    BY <1>4, Zenon DEF DequeueEvent
  <2>3. event' \in [Thread -> Kind \cup {None}]
    BY <2>1, <2>2, HeadTailFacts DEF TypeOK, MainTypes
  <2>4. pc' \in [Thread -> MainPc]
    BY <1>4 DEF DequeueEvent, Goto, TypeOK, MainTypes, MainPc, OwnPc
  <2> QED BY <1>4, <2>3, <2>4, Zenon DEF DequeueEvent, TypeOK, MainTypes
<1>5. CASE Examine(t)
  <2> DEFINE all == <<event[t]>> \o events[proc[t]]
  <2>1. proc[t] \in Process /\ event[t] \in Kind
    BY <1>5, Zenon DEF Examine, PlacesOK
  <2>2. all \in Seq(Kind)
    BY <2>1, PurgeFacts, Zenon DEF TypeOK, ProcTypes
  <2>3. \/ UNCHANGED event
        \/ event' = [event EXCEPT ![t] = None]
        \/ \E k \in 1..Len(all) : event' = [event EXCEPT ![t] = all[k]]
    BY <1>5, Zenon DEF Examine
  <2> HIDE DEF all
  <2>4. event' \in [Thread -> Kind \cup {None}]
    BY <2>2, <2>3 DEF TypeOK, MainTypes
  <2>5. pc' \in [Thread -> MainPc]
    BY <1>5 DEF Examine, Goto, TypeOK, MainTypes, MainPc, OwnPc
  <2> QED BY <1>5, <2>4, <2>5, Zenon DEF Examine, TypeOK, MainTypes
<1>6. CASE Served(t)
  BY <1>6, Zenon DEF Served, Goto, IsTerminate, procVars, queueVars, mapVars, sendVars,
         TypeOK, MainTypes, MainPc, OwnPc, CleanPc
<1>7. CASE ReleaseReference(t)
  BY <1>7, Zenon DEF ReleaseReference, Goto, Return, procVars, queueVars, mapVars,
         sendVars, TypeOK, MainTypes, MainPc, OwnPc, CleanPc
<1>8. CASE OpenGate(t)
  BY <1>8, Zenon DEF OpenGate, Goto, Return, queueVars, sendVars, TypeOK, MainTypes,
         MainPc, OwnPc, CleanPc
<1>9. CASE DeleteManaged(t)
  BY <1>9, Zenon DEF DeleteManaged, Return, Goto, queueVars, mapVars, sendVars, TypeOK,
         MainTypes, MainPc, OwnPc, CleanPc
<1>10. CASE GateWait(t)
  BY <1>10, Zenon DEF GateWait, Goto, queueVars, mapVars, sendVars, TypeOK, MainTypes,
         MainPc, OwnPc, CleanPc
<1>11. ASSUME NEW i \in Ids, NEW p \in Process, NEW e \in Kind, Deliver(t, i, p, e)
      PROVE  MainTypes'
  BY <1>11, Zenon DEF Deliver, SendGoto, CanCall, Use, procVars, queueVars, mapVars,
         mainVars, TypeOK, MainTypes, MainPc, OwnPc, CleanPc
<1>12. ASSUME NEW p \in Process, Spawn(t, p)
      PROVE  MainTypes'
  BY <1>12, Zenon DEF Spawn, SendGoto, CanCall, queueVars, mainVars, TypeOK, MainTypes,
         MainPc, OwnPc, CleanPc
<1>13. ASSUME NEW i \in Ids, NEW p \in Process, WaitUse(t, i, p)
      PROVE  MainTypes'
  BY <1>13, Zenon DEF WaitUse, Goto, Use, procVars, queueVars, mapVars, sendVars, TypeOK,
         MainTypes, MainPc, OwnPc, CleanPc
<1> QED
  BY <1>1, <1>2, <1>3, <1>4, <1>5, <1>6, <1>7, <1>8, <1>9, <1>10,
     <1>11, <1>12, <1>13, Zenon
     DEF ThreadStep, SendStep, ResumeStep, CleanupStep, WaitStep, Call

\* A step keeps the types of deliver and enqueue.
LEMMA SendTypesStep ==
  ASSUME TypeOK, PlacesOK,
         NEW t \in Thread, ThreadStep(t) \/ Call(t)
  PROVE  SendTypes'
<1> USE ConstantsAssumption
<1>1. CASE \/ RunqWait(t) \/ RunqDequeue(t) \/ Resume(t)
         \/ Initialized(t) \/ DequeueEvent(t) \/ Block(t)
         \/ Recheck(t) \/ Unblock(t) \/ Examine(t) \/ Served(t)
         \/ ReleaseReference(t) \/ Cleanup(t) \/ Decomission(t)
         \/ ResetReference(t) \/ EraseProcess(t) \/ OpenGate(t)
         \/ DeleteManaged(t) \/ Inspect(t) \/ Extract(t)
         \/ GateWait(t)
  <2>1. UNCHANGED sendVars
    BY <1>1, Zenon DEF RunqWait, RunqDequeue, Resume, Initialized, DequeueEvent,
           Block, Recheck, Unblock, Examine, Served, ReleaseReference, Cleanup,
           Decomission, ResetReference, EraseProcess, OpenGate, DeleteManaged,
           Inspect, Extract, GateWait, Goto, procVars, mapVars, sendVars,
           queueVars, Return
  <2> QED BY <2>1, Zenon DEF TypeOK, SendTypes, sendVars
<1>2. CASE LoadState(t)
  BY <1>2 DEF LoadState, SendGoto, SendReturn, procVars, queueVars, mapVars,
         mainVars, TypeOK, SendTypes, SendPc
<1>3. CASE PushEvent(t)
  BY <1>3 DEF PushEvent, SendGoto, SendReturn, queueVars, mapVars, mainVars,
         TypeOK, SendTypes, SendPc
<1>4. CASE StoreTermination(t)
  BY <1>4, Zenon DEF StoreTermination, SendGoto, queueVars, mapVars, mainVars, TypeOK,
         SendTypes, SendPc
<1>5. CASE WakeIfBlocked(t)
  BY <1>5, Zenon DEF WakeIfBlocked, SendGoto, SendReturn, queueVars, mapVars, mainVars,
         TypeOK, SendTypes, SendPc
<1>6. CASE RunqPush(t)
  BY <1>6, Zenon DEF RunqPush, SendGoto, procVars, mapVars, mainVars, TypeOK, SendTypes,
         SendPc
<1>7. CASE RunqSignal(t)
  BY <1>7, Zenon DEF RunqSignal, SendReturn, SendGoto, procVars, mapVars, mainVars,
         TypeOK, SendTypes, SendPc
<1>8. ASSUME NEW i \in Ids, NEW p \in Process, NEW e \in Kind, Deliver(t, i, p, e)
      PROVE  SendTypes'
  BY <1>8 DEF Deliver, SendGoto, CanCall, Use, procVars, queueVars, mapVars,
         mainVars, TypeOK, SendTypes, SendPc
<1>9. ASSUME NEW p \in Process, Spawn(t, p)
      PROVE  SendTypes'
  BY <1>9 DEF Spawn, SendGoto, CanCall, queueVars, mainVars, TypeOK, SendTypes,
         SendPc
<1>10. ASSUME NEW i \in Ids, NEW p \in Process, WaitUse(t, i, p)
      PROVE  SendTypes'
  BY <1>10, Zenon DEF WaitUse, Goto, Use, procVars, queueVars, mapVars, sendVars, TypeOK,
         SendTypes, SendPc
<1> QED
  BY <1>1, <1>2, <1>3, <1>4, <1>5, <1>6, <1>7, <1>8, <1>9, <1>10, Zenon
     DEF ThreadStep, SendStep, ResumeStep, CleanupStep, WaitStep, Call

\* A thread never works on a process, or with an event, it does not have.
LEMMA PlacesStep ==
  ASSUME TypeOK, PlacesOK,
         NEW t \in Thread, ThreadStep(t) \/ Call(t)
  PROVE  PlacesOK'
<1> USE ConstantsAssumption
<1>1. CASE \/ RunqWait(t) \/ Resume(t) \/ Initialized(t) \/ Block(t)
         \/ Recheck(t) \/ Unblock(t) \/ Cleanup(t) \/ Decomission(t)
         \/ ResetReference(t) \/ EraseProcess(t) \/ Inspect(t)
         \/ Extract(t)
  <2>1. /\ UNCHANGED <<proc, event, sendVars>>
        /\ \E to \in MainPc \ {"got", "serve"} : pc' = [pc EXCEPT ![t] = to]
        /\ pc[t] \in {"idle", "wait", "dequeue"} => pc'[t] \in {"idle", "wait", "dequeue"}
    BY <1>1, Zenon DEF RunqWait, Resume, Initialized, Block, Recheck, Unblock,
           Cleanup, Decomission, ResetReference, EraseProcess, Inspect,
           Extract, Goto, procVars, mapVars, sendVars, queueVars, MainPc,
           OwnPc, CleanPc, TypeOK, MainTypes
  <2> QED BY <2>1, Zenon DEF PlacesOK, TypeOK, MainTypes, sendVars
<1>2. CASE LoadState(t)
  BY <1>2 DEF LoadState, SendGoto, SendReturn, procVars, queueVars, mapVars,
         mainVars, TypeOK, MainTypes, SendTypes, PlacesOK
<1>3. CASE PushEvent(t)
  BY <1>3 DEF PushEvent, SendGoto, SendReturn, queueVars, mapVars, mainVars,
         TypeOK, MainTypes, SendTypes, PlacesOK
<1>4. CASE StoreTermination(t)
  BY <1>4, Zenon DEF StoreTermination, SendGoto, queueVars, mapVars, mainVars, TypeOK,
         MainTypes, SendTypes, PlacesOK
<1>5. CASE WakeIfBlocked(t)
  BY <1>5 DEF WakeIfBlocked, SendGoto, SendReturn, queueVars, mapVars, mainVars,
         TypeOK, MainTypes, SendTypes, PlacesOK
<1>6. CASE RunqPush(t)
  BY <1>6, Zenon DEF RunqPush, SendGoto, procVars, mapVars, mainVars, TypeOK, MainTypes,
         SendTypes, PlacesOK
<1>7. CASE RunqSignal(t)
  BY <1>7, Zenon DEF RunqSignal, SendReturn, SendGoto, procVars, mapVars, mainVars,
         TypeOK, MainTypes, SendTypes, PlacesOK
<1>8. CASE RunqDequeue(t)
  BY <1>8, HeadTailFacts DEF RunqDequeue, Goto, procVars, mapVars, sendVars,
         TypeOK, MainTypes, SendTypes, PlacesOK, QueueTypes
<1>9. CASE DequeueEvent(t)
  <2>1. proc[t] \in Process /\ events[proc[t]] \in Seq(Kind)
    BY <1>9, Zenon DEF DequeueEvent, PlacesOK, TypeOK, ProcTypes
  <2>2. /\ UNCHANGED <<proc, dpc, dst, devent>>
        /\ \/ pc' = [pc EXCEPT ![t] = "block"] /\ UNCHANGED event
           \/ /\ events[proc[t]] # <<>>
              /\ pc' = [pc EXCEPT ![t] = "got"]
              /\ event' = [event EXCEPT ![t] = Head(events[proc[t]])]
    BY <1>9, Zenon DEF DequeueEvent, Goto, sendVars
  <2>3. events[proc[t]] # <<>> => Head(events[proc[t]]) \in Kind
    BY <2>1, HeadTailFacts, Zenon
  <2> QED BY <2>1, <2>2, <2>3, Zenon DEF PlacesOK, TypeOK, MainTypes
<1>10. CASE Examine(t)
  BY <1>10, SMTT(30) DEF Examine, Goto, IsTerminate, queueVars, mapVars, sendVars, TypeOK,
         MainTypes, SendTypes, PlacesOK, ProcTypes
<1>11. CASE Served(t)
  BY <1>11, Zenon DEF Served, Goto, IsTerminate, procVars, queueVars, mapVars, sendVars,
         TypeOK, MainTypes, SendTypes, PlacesOK
<1>12. CASE ReleaseReference(t)
  BY <1>12 DEF ReleaseReference, Goto, Return, procVars, queueVars, mapVars,
         sendVars, TypeOK, MainTypes, SendTypes, PlacesOK
<1>13. CASE OpenGate(t)
  BY <1>13 DEF OpenGate, Goto, Return, queueVars, sendVars, TypeOK, MainTypes,
         SendTypes, PlacesOK
<1>14. CASE DeleteManaged(t)
  BY <1>14, Zenon DEF DeleteManaged, Return, Goto, queueVars, mapVars, sendVars, TypeOK,
         MainTypes, SendTypes, PlacesOK
<1>15. CASE GateWait(t)
  BY <1>15, Zenon DEF GateWait, Goto, queueVars, mapVars, sendVars, TypeOK, MainTypes,
         SendTypes, PlacesOK
<1>16. ASSUME NEW i \in Ids, NEW p \in Process, NEW e \in Kind, Deliver(t, i, p, e)
      PROVE  PlacesOK'
  BY <1>16, Zenon DEF Deliver, SendGoto, CanCall, Use, procVars, queueVars, mapVars,
         mainVars, TypeOK, MainTypes, SendTypes, PlacesOK
<1>17. ASSUME NEW p \in Process, Spawn(t, p)
      PROVE  PlacesOK'
  BY <1>17 DEF Spawn, SendGoto, CanCall, queueVars, mainVars, TypeOK, MainTypes,
         SendTypes, PlacesOK
<1>18. ASSUME NEW i \in Ids, NEW p \in Process, WaitUse(t, i, p)
      PROVE  PlacesOK'
  BY <1>18, Zenon DEF WaitUse, Goto, Use, procVars, queueVars, mapVars, sendVars, TypeOK,
         MainTypes, SendTypes, PlacesOK
<1> QED
  BY <1>1, <1>2, <1>3, <1>4, <1>5, <1>6, <1>7, <1>8, <1>9, <1>10,
     <1>11, <1>12, <1>13, <1>14, <1>15, <1>16, <1>17, <1>18, Zenon
     DEF ThreadStep, SendStep, ResumeStep, CleanupStep, WaitStep, Call

-----------------------------------------------------------------------------
(* The token of a process: where it is and who can have it.                *)

\* A BLOCKED process has no token, so whoever exchanges its state for READY
\* (enqueue or resume) makes the only one.
LEMMA FreeWhenBlocked ==
  ASSUME TypeOK, TokenState, NEW p \in Process, state[p] = "BLOCKED"
  PROVE  NoToken(p)
BY Zenon DEF TypeOK, TokenState, NoToken, Running, Pushing, OwnPc, CleanPc

\* An object that was not spawned has no token; spawn makes its first.
LEMMA FreeWhenNotSpawned ==
  ASSUME TypeOK, SpawnedFirst, NEW p \in Process, ~spawned[p]
  PROVE  NoToken(p)
BY DEF TypeOK, SpawnedFirst, NoToken, Running, Pushing

\* The thread that runs a process has its only token.
LEMMA OnlyRunner ==
  ASSUME TypeOK, OneToken, NEW p \in Process, NEW t \in Thread, Running(t, p)
  PROVE  /\ \A u \in Thread : ~Pushing(u, p) /\ (Running(u, p) => u = t)
         /\ \A k \in 1..Len(runq) : runq[k] # p
BY Zenon DEF TypeOK, OneToken, QueuedAt

\* A step that gives no token keeps them unique.
LEMMA TokensKept ==
  ASSUME OneToken, UNCHANGED runq,
         \A u \in Thread, q \in Process : Running(u, q)' => Running(u, q),
         \A u \in Thread, q \in Process : Pushing(u, q)' => Pushing(u, q)
  PROVE  OneToken'
BY Zenon DEF OneToken, QueuedAt

\* A process is BOTTOM or READY while it is queued or run, TERMINATING while
\* it is cleaned up: no step changes the state of a process under another
\* thread's token.
LEMMA TokenStateStep ==
  ASSUME TypeOK, PlacesOK, TokenState, OneToken, SpawnedFirst,
         NEW t \in Thread, ThreadStep(t) \/ Call(t)
  PROVE  TokenState'
<1> USE ConstantsAssumption
<1>1. CASE \/ LoadState(t) \/ PushEvent(t) \/ StoreTermination(t)
         \/ RunqSignal(t)
  <2>1. /\ UNCHANGED <<state, runq, pc, proc>>
        /\ \A u \in Thread : dpc'[u] \in {"runq", "spawnq"} =>
             dpc'[u] = dpc[u] /\ dst'[u] = dst[u]
    BY <1>1 DEF LoadState, PushEvent, StoreTermination, RunqSignal, SendGoto,
           SendReturn, procVars, queueVars, mapVars, mainVars, TypeOK,
           SendTypes
  <2> QED BY <2>1 DEF TokenState
<1>2. CASE \/ RunqWait(t) \/ Resume(t) \/ DequeueEvent(t) \/ Recheck(t)
         \/ Examine(t) \/ Served(t) \/ ReleaseReference(t)
         \/ Decomission(t) \/ ResetReference(t) \/ EraseProcess(t)
         \/ OpenGate(t) \/ DeleteManaged(t) \/ Inspect(t)
         \/ GateWait(t)
  <2>1. /\ UNCHANGED <<state, runq, dpc, dst>>
        /\ \A u \in Thread : \/ pc'[u] \notin OwnPc \cup CleanPc
                             \/ proc'[u] = proc[u] /\ u # t /\ pc'[u] = pc[u]
                             \/ /\ proc'[u] = proc[u] /\ pc[u] \in OwnPc
                                /\ pc'[u] \in OwnPc \ {"resume"}
                                /\ pc'[u] = "init" <=> state[proc[u]] = "BOTTOM"
                             \/ /\ proc'[u] = proc[u]
                                /\ pc[u] \in CleanPc /\ pc'[u] \in CleanPc
    <3>1. CASE \/ RunqWait(t) \/ Resume(t) \/ DequeueEvent(t) \/ Recheck(t)
               \/ Examine(t) \/ Served(t) \/ ReleaseReference(t)
      BY <3>1, SMTT(30) DEF RunqWait, Resume, DequeueEvent, Recheck, Examine, Served,
             ReleaseReference, Goto, procVars, sendVars, queueVars, Return,
             TypeOK, MainTypes, OwnPc, CleanPc, TokenState
    <3>2. CASE \/ Decomission(t) \/ ResetReference(t) \/ EraseProcess(t)
               \/ OpenGate(t) \/ DeleteManaged(t) \/ Inspect(t) \/ GateWait(t)
      BY <3>2, SMTT(30) DEF Decomission, ResetReference, EraseProcess, OpenGate,
             DeleteManaged, Inspect, GateWait, Goto, procVars, sendVars, queueVars,
             Return, TypeOK, MainTypes, OwnPc, CleanPc, TokenState
    <3> QED BY <1>2, <3>1, <3>2, Zenon
  <2> QED BY <2>1, SMTT(30) DEF TokenState, OwnPc, CleanPc
<1>3. CASE WakeIfBlocked(t)
  <2>1. UNCHANGED <<runq, pc, proc>>
    BY <1>3, Zenon DEF WakeIfBlocked, queueVars, mainVars
  <2>2. CASE state[dst[t]] = "BLOCKED"
    <3>1. PICK p \in Process : p = dst[t]
      BY <1>3, Zenon DEF WakeIfBlocked, PlacesOK
    <3>2. NoToken(p)
      BY <2>2, <3>1, FreeWhenBlocked, Zenon
    <3>3. state' = [state EXCEPT ![p] = "READY"]
      BY <1>3, <2>2, <3>1, Zenon DEF WakeIfBlocked
    <3>4. /\ dpc' = [dpc EXCEPT ![t] = "runq"] /\ dst' = dst
      BY <1>3, <2>2, Zenon DEF WakeIfBlocked, SendGoto
    <3> QED BY <2>1, <3>1, <3>2, <3>3, <3>4
            DEF TokenState, NoToken, Running, Pushing, TypeOK, ProcTypes,
                SendTypes, OwnPc, CleanPc
  <2>3. CASE state[dst[t]] # "BLOCKED"
    <3>1. UNCHANGED state
      BY <1>3, <2>3, Zenon DEF WakeIfBlocked
    <3>2. \A u \in Thread : dpc'[u] \in {"runq", "spawnq"} =>
            dpc'[u] = dpc[u] /\ dst'[u] = dst[u]
      BY <1>3, <2>3, Zenon DEF WakeIfBlocked, SendGoto, SendReturn, TypeOK, SendTypes
    <3> QED BY <2>1, <3>1, <3>2 DEF TokenState
  <2> QED BY <2>2, <2>3, Zenon
<1>4. CASE RunqPush(t)
  <2>1. UNCHANGED <<state, pc, proc>>
    BY <1>4, Zenon DEF RunqPush, procVars, mainVars
  <2>2. dst[t] \in Process /\ runq \in Seq(Process)
    BY <1>4, Zenon DEF RunqPush, PlacesOK, TypeOK, QueueTypes
  <2>3. \A k \in 1..Len(runq') :
          \/ k \in 1..Len(runq) /\ runq'[k] = runq[k]
          \/ runq'[k] = dst[t]
    BY <1>4, <2>2, AppendFacts DEF RunqPush
  <2>4. state[dst[t]] \in {"BOTTOM", "READY"}
    BY <1>4, Zenon DEF RunqPush, TokenState
  <2>5. \A u \in Thread : dpc'[u] \in {"runq", "spawnq"} =>
          dpc'[u] = dpc[u] /\ dst'[u] = dst[u]
    BY <1>4, Zenon DEF RunqPush, SendGoto, TypeOK, SendTypes
  <2>6. \A k \in 1..Len(runq') : state'[runq'[k]] \in {"BOTTOM", "READY"}
    BY <2>1, <2>3, <2>4, Zenon DEF TokenState
  <2>7. \A u \in Thread :
          /\ dpc'[u] = "runq" => state'[dst'[u]] = "READY"
          /\ dpc'[u] = "spawnq" => state'[dst'[u]] = "BOTTOM"
    BY <2>1, <2>5 DEF TokenState
  <2> QED BY <2>1, <2>6, <2>7, Zenon DEF TokenState
<1>5. CASE RunqDequeue(t)
  <2>1. UNCHANGED <<state, dpc, dst>>
    BY <1>5, Zenon DEF RunqDequeue, procVars, sendVars
  <2>2. CASE runq = <<>>
    BY <1>5, <2>1, <2>2
       DEF RunqDequeue, Goto, TokenState, TypeOK, MainTypes, OwnPc, CleanPc
  <2>3. CASE runq # <<>>
    <3>1. runq \in Seq(Process)
      BY Zenon DEF TypeOK, QueueTypes
    <3>2. /\ Head(runq) = runq[1] /\ 1 \in 1..Len(runq)
          /\ \A k \in 1..Len(runq') :
               k + 1 \in 1..Len(runq) /\ runq'[k] = runq[k + 1]
      <4>1. runq' = Tail(runq)
        BY <1>5, <2>3, Zenon DEF RunqDequeue
      <4> QED BY <2>3, <3>1, <4>1, TailShift, Zenon
    <3>3. /\ pc' = [pc EXCEPT ![t] = "resume"]
          /\ proc' = [proc EXCEPT ![t] = Head(runq)]
      BY <1>5, <2>3, Zenon DEF RunqDequeue, Goto
    <3> QED BY <2>1, <3>2, <3>3
            DEF TokenState, TypeOK, MainTypes, OwnPc, CleanPc
  <2> QED BY <2>2, <2>3, Zenon
<1>6. CASE Initialized(t)
  <2>1. PICK p \in Process : p = proc[t] /\ Running(t, p)
    BY <1>6, Zenon DEF Initialized, PlacesOK, Running, OwnPc
  <2>2. UNCHANGED <<runq, proc, dpc, dst>>
    BY <1>6, Zenon DEF Initialized, queueVars, sendVars
  <2>3. state' = [state EXCEPT ![p] = "READY"] /\ pc' = [pc EXCEPT ![t] = "loop"]
    BY <1>6, <2>1, Zenon DEF Initialized, Goto
  <2>4. /\ \A u \in Thread : ~Pushing(u, p) /\ (Running(u, p) => u = t)
        /\ \A k \in 1..Len(runq) : runq[k] # p
    BY <2>1, OnlyRunner, Zenon
  <2> QED BY <2>1, <2>2, <2>3, <2>4
          DEF TokenState, Running, Pushing, TypeOK, ProcTypes, MainTypes,
              OwnPc, CleanPc
<1>7. CASE Block(t)
  <2>1. PICK p \in Process : p = proc[t] /\ Running(t, p)
    BY <1>7, Zenon DEF Block, PlacesOK, Running, OwnPc
  <2>2. UNCHANGED <<runq, proc, dpc, dst>>
    BY <1>7, Zenon DEF Block, queueVars, sendVars
  <2>3. state' = [state EXCEPT ![p] = "BLOCKED"] /\ pc' = [pc EXCEPT ![t] = "recheck"]
    BY <1>7, <2>1, Zenon DEF Block, Goto
  <2>4. /\ \A u \in Thread : ~Pushing(u, p) /\ (Running(u, p) => u = t)
        /\ \A k \in 1..Len(runq) : runq[k] # p
    BY <2>1, OnlyRunner, Zenon
  <2> QED BY <2>1, <2>2, <2>3, <2>4
          DEF TokenState, Running, Pushing, TypeOK, ProcTypes, MainTypes,
              OwnPc, CleanPc
<1>8. CASE Unblock(t)
  <2>1. UNCHANGED <<runq, proc, dpc, dst>>
    BY <1>8, Zenon DEF Unblock, queueVars, sendVars
  <2>2. CASE state[proc[t]] = "BLOCKED"
    <3>1. PICK p \in Process : p = proc[t]
      BY <1>8, Zenon DEF Unblock, PlacesOK
    <3>2. NoToken(p)
      BY <2>2, <3>1, FreeWhenBlocked, Zenon
    <3>3. state' = [state EXCEPT ![p] = "READY"] /\ pc' = [pc EXCEPT ![t] = "loop"]
      BY <1>8, <2>2, <3>1, Zenon DEF Unblock, Goto
    <3> QED BY <2>1, <3>1, <3>2, <3>3
            DEF TokenState, NoToken, Running, Pushing, TypeOK, ProcTypes,
                MainTypes, OwnPc, CleanPc
  <2>3. CASE state[proc[t]] # "BLOCKED"
    <3>1. UNCHANGED state /\ pc' = [pc EXCEPT ![t] = "release"]
      BY <1>8, <2>3, Zenon DEF Unblock, Goto
    <3> QED BY <2>1, <3>1, Zenon DEF TokenState, TypeOK, MainTypes, OwnPc, CleanPc
  <2> QED BY <2>2, <2>3, Zenon
<1>9. CASE Cleanup(t)
  <2>1. PICK p \in Process : p = proc[t] /\ Running(t, p)
    BY <1>9, Zenon DEF Cleanup, PlacesOK, Running, OwnPc
  <2>2. UNCHANGED <<runq, proc, dpc, dst>>
    BY <1>9, Zenon DEF Cleanup, queueVars, sendVars
  <2>3. state' = [state EXCEPT ![p] = "TERMINATING"] /\ pc' = [pc EXCEPT ![t] = "decomission"]
    BY <1>9, <2>1, Zenon DEF Cleanup, Goto, TokenState, OwnPc
  <2>4. /\ \A u \in Thread : ~Pushing(u, p) /\ (Running(u, p) => u = t)
        /\ \A k \in 1..Len(runq) : runq[k] # p
    BY <2>1, OnlyRunner, Zenon
  <2> QED BY <2>1, <2>2, <2>3, <2>4
          DEF TokenState, Running, Pushing, TypeOK, ProcTypes, MainTypes,
              OwnPc, CleanPc
<1>10. CASE Extract(t)
  <2>1. UNCHANGED <<state, proc, dpc, dst>>
    BY <1>10, Zenon DEF Extract, procVars, sendVars
  <2>2. CASE UNCHANGED runq /\ pc' = [pc EXCEPT ![t] = "gate"]
    BY <2>1, <2>2, Zenon DEF TokenState, TypeOK, MainTypes, OwnPc, CleanPc
  <2>3. CASE /\ pc' = [pc EXCEPT ![t] = "resume"]
             /\ \E k \in 1..Len(runq) :
                  runq[k] = proc[t] /\ runq' = RemoveAt(runq, k)
    <3>1. runq \in Seq(Process)
      BY Zenon DEF TypeOK, QueueTypes
    <3>2. PICK k \in 1..Len(runq) : runq[k] = proc[t] /\ runq' = RemoveAt(runq, k)
      BY <2>3, Zenon
    <3>3. /\ Len(runq) \in Nat /\ Len(runq') = Len(runq) - 1
          /\ \A j \in 1..(Len(runq) - 1) :
               runq'[j] = IF j < k THEN runq[j] ELSE runq[j + 1]
      <4>1. /\ Len(RemoveAt(runq, k)) = Len(runq) - 1
            /\ \A j \in 1..(Len(runq) - 1) :
                 RemoveAt(runq, k)[j] = IF j < k THEN runq[j] ELSE runq[j + 1]
        BY <3>1, RemoveAtFacts, Zenon
      <4>2. Len(runq) \in Nat
        BY <3>1
      <4> QED BY <3>2, <4>1, <4>2, Zenon
    <3>4. \A j \in 1..Len(runq') : \E i \in 1..Len(runq) : runq'[j] = runq[i]
      BY <3>3
    <3> QED BY <2>1, <2>3, <3>2, <3>4
            DEF TokenState, TypeOK, MainTypes, OwnPc, CleanPc
  <2> QED BY <1>10, <2>2, <2>3, Zenon DEF Extract, Goto
<1>11. ASSUME NEW i \in Ids, NEW p \in Process, NEW e \in Kind, Deliver(t, i, p, e)
      PROVE  TokenState'
  <2>1. UNCHANGED <<state, runq, pc, proc>>
    BY <1>11, Zenon DEF Deliver, procVars, queueVars, mainVars
  <2>2. \A u \in Thread : dpc'[u] \in {"runq", "spawnq"} =>
          dpc'[u] = dpc[u] /\ dst'[u] = dst[u]
    BY <1>11, Zenon DEF Deliver, SendGoto, SendReturn, TypeOK, SendTypes
  <2> QED BY <2>1, <2>2 DEF TokenState
<1>12. ASSUME NEW p \in Process, Spawn(t, p)
      PROVE  TokenState'
  BY <1>12 DEF Spawn, SendGoto, CanCall, queueVars, mainVars, TypeOK, MainTypes,
         SendTypes, PlacesOK, TokenState, OwnPc, CleanPc, SpawnedFirst
<1>13. ASSUME NEW i \in Ids, NEW p \in Process, WaitUse(t, i, p)
      PROVE  TokenState'
  BY <1>13 DEF WaitUse, Goto, Use, procVars, queueVars, mapVars, sendVars, TypeOK,
         MainTypes, SendTypes, PlacesOK, TokenState, OwnPc, CleanPc
<1> QED
  BY <1>1, <1>2, <1>3, <1>4, <1>5, <1>6, <1>7, <1>8, <1>9, <1>10,
     <1>11, <1>12, <1>13, Zenon
     DEF ThreadStep, SendStep, ResumeStep, CleanupStep, WaitStep, Call

-----------------------------------------------------------------------------
(* Tokens are neither made twice nor lost.                                 *)

\* No step makes a second token.
LEMMA OneTokenStep ==
  ASSUME TypeOK, PlacesOK, TokenState, OneToken, SpawnedFirst,
         NEW t \in Thread, ThreadStep(t) \/ Call(t)
  PROVE  OneToken'
<1> USE ConstantsAssumption
<1>1. CASE \/ LoadState(t) \/ PushEvent(t) \/ StoreTermination(t)
         \/ RunqSignal(t)
         \/ \E i \in Ids, p \in Process, e \in Kind : Deliver(t, i, p, e)
  <2>1. /\ UNCHANGED <<runq, pc, proc>>
        /\ \A u \in Thread, q \in Process : Pushing(u, q)' => Pushing(u, q)
    BY <1>1, SMTT(30) DEF LoadState, PushEvent, StoreTermination, RunqSignal, Deliver,
           SendGoto, SendReturn, procVars, queueVars, mapVars, mainVars,
           CanCall, Use, Pushing, TypeOK, SendTypes
  <2> QED BY <2>1, TokensKept, Zenon DEF Running
<1>2. CASE \/ RunqWait(t) \/ Resume(t) \/ Initialized(t)
         \/ DequeueEvent(t) \/ Block(t) \/ Recheck(t) \/ Examine(t)
         \/ Served(t) \/ ReleaseReference(t) \/ Cleanup(t)
         \/ Decomission(t) \/ ResetReference(t) \/ EraseProcess(t)
         \/ OpenGate(t) \/ DeleteManaged(t) \/ Inspect(t)
         \/ GateWait(t)
         \/ \E i \in Ids, p \in Process : WaitUse(t, i, p)
  <2>1. /\ UNCHANGED <<runq, dpc, dst>>
        /\ \A u \in Thread, q \in Process : Running(u, q)' => Running(u, q)
    <3>1. CASE \/ RunqWait(t) \/ Resume(t) \/ Initialized(t)
               \/ DequeueEvent(t) \/ Block(t) \/ Recheck(t) \/ Examine(t)
               \/ Served(t) \/ ReleaseReference(t)
      BY <3>1 DEF RunqWait, Resume, Initialized, DequeueEvent, Block, Recheck,
             Examine, Served, ReleaseReference, Goto, sendVars, queueVars, Return,
             Running, OwnPc, CleanPc, TypeOK, MainTypes
    <3>2. CASE \/ Cleanup(t) \/ Decomission(t) \/ ResetReference(t)
               \/ EraseProcess(t) \/ OpenGate(t) \/ DeleteManaged(t) \/ Inspect(t)
               \/ GateWait(t)
               \/ \E i \in Ids, p \in Process : WaitUse(t, i, p)
      BY <3>2 DEF Cleanup, Decomission, ResetReference, EraseProcess, OpenGate,
             DeleteManaged, Inspect, GateWait, WaitUse, Goto, sendVars, queueVars,
             Return, Running, OwnPc, CleanPc, TypeOK, MainTypes
    <3> QED BY <1>2, <3>1, <3>2, Zenon
  <2> QED BY <2>1, TokensKept, Zenon DEF Pushing
<1>3. CASE WakeIfBlocked(t)
  <2>1. UNCHANGED <<runq, pc, proc>>
    BY <1>3, Zenon DEF WakeIfBlocked, queueVars, mainVars
  <2>2. CASE state[dst[t]] = "BLOCKED"
    <3>1. PICK p \in Process : p = dst[t]
      BY <1>3, Zenon DEF WakeIfBlocked, PlacesOK
    <3>2. NoToken(p)
      BY <2>2, <3>1, FreeWhenBlocked, Zenon
    <3>3. \A u \in Thread, q \in Process :
            Pushing(u, q)' => Pushing(u, q) \/ (u = t /\ q = p)
      BY <1>3, <2>2, <3>1, Zenon
         DEF WakeIfBlocked, Pushing, SendGoto, TypeOK, SendTypes
    <3>4. \A u \in Thread, q \in Process : Running(u, q)' = Running(u, q)
      BY <2>1, Zenon DEF Running
    <3> QED BY <2>1, <3>2, <3>3, <3>4 DEF OneToken, QueuedAt, NoToken
  <2>3. CASE state[dst[t]] # "BLOCKED"
    <3>1. \A u \in Thread, q \in Process : Pushing(u, q)' => Pushing(u, q)
      BY <1>3, <2>3, Zenon
         DEF WakeIfBlocked, Pushing, SendGoto, SendReturn, TypeOK, SendTypes
    <3> QED BY <2>1, <3>1, TokensKept, Zenon DEF Running
  <2> QED BY <2>2, <2>3, Zenon
<1>4. CASE RunqPush(t)
  <2>1. PICK p \in Process : p = dst[t] /\ Pushing(t, p)
    BY <1>4, Zenon DEF RunqPush, PlacesOK, Pushing
  <2>2. \A u \in Thread, q \in Process : Running(u, q)' = Running(u, q)
    BY <1>4, Zenon DEF RunqPush, Running, mainVars
  <2>3. \A u \in Thread, q \in Process :
          Pushing(u, q)' => Pushing(u, q) /\ u # t
    BY <1>4, Zenon DEF RunqPush, Pushing, SendGoto, TypeOK, SendTypes
  <2>4. /\ runq \in Seq(Process) /\ runq' = Append(runq, p)
        /\ Len(runq') = Len(runq) + 1 /\ runq'[Len(runq) + 1] = p
        /\ \A k \in 1..Len(runq) : runq'[k] = runq[k]
    BY <1>4, <2>1, AppendFacts DEF RunqPush, TypeOK, QueueTypes
  <2>5. \A q \in Process, k \in 1..Len(runq') : QueuedAt(k, q)' =>
          QueuedAt(k, q) \/ (k = Len(runq) + 1 /\ q = p)
    BY <2>4 DEF QueuedAt
  <2>6. /\ \A u \in Thread : ~Running(u, p) /\ (Pushing(u, p) => u = t)
        /\ \A k \in 1..Len(runq) : ~QueuedAt(k, p)
    BY <2>1, Zenon DEF OneToken
  <2>7. \A q \in Process, k \in 1..Len(runq') : QueuedAt(k, q)' =>
          \/ k \in 1..Len(runq) /\ QueuedAt(k, q) /\ q # p
          \/ k = Len(runq) + 1 /\ q = p
    BY <2>5, <2>6, Zenon DEF QueuedAt
  <2> QED BY <2>2, <2>3, <2>6, <2>7 DEF OneToken
<1>5. CASE RunqDequeue(t)
  <2>1. UNCHANGED <<dpc, dst>>
    BY <1>5, Zenon DEF RunqDequeue, sendVars
  <2>2. CASE runq = <<>>
    <3>1. \A u \in Thread, q \in Process : Running(u, q)' => Running(u, q)
      BY <1>5, <2>2, Zenon
         DEF RunqDequeue, Running, Goto, TypeOK, MainTypes, OwnPc, CleanPc
    <3>2. UNCHANGED runq
      BY <1>5, <2>2, Zenon DEF RunqDequeue
    <3> QED BY <2>1, <3>1, <3>2, TokensKept, Zenon DEF Pushing
  <2>3. CASE runq # <<>>
    <3>1. runq \in Seq(Process)
      BY Zenon DEF TypeOK, QueueTypes
    <3>2. PICK p \in Process : p = Head(runq) /\ QueuedAt(1, p)
      BY <2>3, <3>1, HeadTailFacts DEF QueuedAt
    <3>3. \A u \in Thread, q \in Process :
            Running(u, q)' => Running(u, q) \/ (u = t /\ q = p)
      BY <1>5, <2>3, <3>2, Zenon DEF RunqDequeue, Running, Goto, TypeOK, MainTypes
    <3>4. \A k \in 1..Len(runq') :
            k + 1 \in 1..Len(runq) /\ k + 1 # 1 /\ runq'[k] = runq[k + 1]
      <4>1. runq' = Tail(runq)
        BY <1>5, <2>3, Zenon DEF RunqDequeue
      <4> QED BY <2>3, <3>1, <4>1, TailShift, Zenon
    <3>5. \A q \in Process, k \in 1..Len(runq') :
            QueuedAt(k, q)' => QueuedAt(k + 1, q)
      BY <3>4, Zenon DEF QueuedAt
    <3>6. \A k \in 1..Len(runq') : ~QueuedAt(k, p)'
      BY <3>1, <3>2, <3>4, <3>5 DEF OneToken, QueuedAt
    <3>7. \A u \in Thread : ~Running(u, p) /\ ~Pushing(u, p)
      BY <3>2, Zenon DEF OneToken, QueuedAt
    <3>8. \A u \in Thread, q \in Process : Pushing(u, q)' = Pushing(u, q)
      BY <2>1, Zenon DEF Pushing
    <3> QED BY <3>3, <3>4, <3>5, <3>6, <3>7, <3>8 DEF OneToken
  <2> QED BY <2>2, <2>3, Zenon
<1>6. CASE Unblock(t)
  <2>1. UNCHANGED <<runq, dpc, dst>>
    BY <1>6, Zenon DEF Unblock, queueVars, sendVars
  <2>2. CASE state[proc[t]] = "BLOCKED"
    <3>1. PICK p \in Process : p = proc[t]
      BY <1>6, Zenon DEF Unblock, PlacesOK
    <3>2. NoToken(p)
      BY <2>2, <3>1, FreeWhenBlocked, Zenon
    <3>3. \A u \in Thread, q \in Process :
            Running(u, q)' => Running(u, q) \/ (u = t /\ q = p)
      BY <1>6, <2>2, <3>1, Zenon DEF Unblock, Running, Goto, TypeOK, MainTypes
    <3>4. \A u \in Thread, q \in Process : Pushing(u, q)' = Pushing(u, q)
      BY <2>1, Zenon DEF Pushing
    <3> QED BY <2>1, <3>2, <3>3, <3>4 DEF OneToken, QueuedAt, NoToken
  <2>3. CASE state[proc[t]] # "BLOCKED"
    <3>1. \A u \in Thread, q \in Process : Running(u, q)' => Running(u, q)
      BY <1>6, <2>3, Zenon
         DEF Unblock, Running, Goto, TypeOK, MainTypes, OwnPc, CleanPc
    <3> QED BY <2>1, <3>1, TokensKept, Zenon DEF Pushing
  <2> QED BY <2>2, <2>3, Zenon
<1>7. CASE Extract(t)
  <2>1. UNCHANGED <<dpc, dst>>
    BY <1>7, Zenon DEF Extract, sendVars
  <2>2. CASE UNCHANGED runq /\ pc'[t] = "gate"
    <3>1. \A u \in Thread, q \in Process : Running(u, q)' => Running(u, q)
      BY <1>7, <2>2, Zenon
         DEF Extract, Running, Goto, TypeOK, MainTypes, OwnPc, CleanPc
    <3> QED BY <2>1, <2>2, <3>1, TokensKept, Zenon DEF Pushing
  <2>3. CASE \E k \in 1..Len(runq) : runq[k] = proc[t] /\ runq' = RemoveAt(runq, k)
    <3>1. runq \in Seq(Process)
      BY Zenon DEF TypeOK, QueueTypes
    <3>2. PICK k \in 1..Len(runq) : runq[k] = proc[t] /\ runq' = RemoveAt(runq, k)
      BY <2>3, Zenon
    <3>3. PICK p \in Process : p = proc[t] /\ QueuedAt(k, p)
      BY <3>1, <3>2 DEF QueuedAt
    <3>4. \A u \in Thread, q \in Process :
            Running(u, q)' => Running(u, q) \/ (u = t /\ q = p)
      BY <1>7, <3>3, Zenon DEF Extract, Running, Goto, TypeOK, MainTypes
    <3>11. /\ Len(RemoveAt(runq, k)) = Len(runq) - 1
           /\ \A j \in 1..(Len(runq) - 1) :
                RemoveAt(runq, k)[j] = IF j < k THEN runq[j] ELSE runq[j + 1]
      BY <3>1, RemoveAtFacts, Zenon
    <3>12. Len(runq) \in Nat
      BY <3>1
    <3> DEFINE Old(j) == IF j < k THEN j ELSE j + 1
    <3>5. \A j \in 1..Len(runq') :
            Old(j) \in 1..Len(runq) /\ Old(j) # k /\ runq'[j] = runq[Old(j)]
      BY <3>2, <3>11, <3>12
    <3>6. \A i, j \in 1..Len(runq') : Old(i) = Old(j) => i = j
      BY <3>1
    <3> HIDE DEF Old
    <3>7. \A q \in Process, j \in 1..Len(runq') :
            QueuedAt(j, q)' => QueuedAt(Old(j), q)
      BY <3>5, Zenon DEF QueuedAt
    <3>8. \A j \in 1..Len(runq') : ~QueuedAt(j, p)'
      BY <3>1, <3>3, <3>5, <3>7, Zenon DEF OneToken
    <3>9. \A u \in Thread : ~Running(u, p) /\ ~Pushing(u, p)
      BY <3>3, Zenon DEF OneToken, QueuedAt
    <3>10. \A u \in Thread, q \in Process : Pushing(u, q)' = Pushing(u, q)
      BY <2>1, Zenon DEF Pushing
    <3> QED BY <3>4, <3>5, <3>6, <3>7, <3>8, <3>9, <3>10, SMTT(30) DEF OneToken
  <2> QED BY <1>7, <2>2, <2>3, Zenon DEF Extract, Goto, TypeOK, MainTypes
<1>8. ASSUME NEW p \in Process, Spawn(t, p)
      PROVE  OneToken'
  <2>1. UNCHANGED <<runq, pc, proc>>
    BY <1>8, Zenon DEF Spawn, queueVars, mainVars
  <2>2. \A u \in Thread, q \in Process :
          Pushing(u, q)' => Pushing(u, q) \/ (u = t /\ q = p)
    BY <1>8, Zenon DEF Spawn, Pushing, SendGoto, TypeOK, SendTypes
  <2>3. NoToken(p)
    BY <1>8, FreeWhenNotSpawned, Zenon DEF Spawn
  <2>4. \A u \in Thread, q \in Process : Running(u, q)' = Running(u, q)
    BY <2>1, Zenon DEF Running
  <2> QED BY <2>1, <2>2, <2>3, <2>4 DEF OneToken, QueuedAt, NoToken
<1> QED
  BY <1>1, <1>2, <1>3, <1>4, <1>5, <1>6, <1>7, <1>8, Zenon
     DEF ThreadStep, SendStep, ResumeStep, CleanupStep, WaitStep, Call

\* No step makes an object that was not spawned known to anyone.
LEMMA SpawnedStep ==
  ASSUME TypeOK, PlacesOK, SpawnedFirst,
         NEW t \in Thread, ThreadStep(t) \/ Call(t)
  PROVE  SpawnedFirst'
<1> USE ConstantsAssumption
<1>1. CASE \/ LoadState(t) \/ PushEvent(t) \/ StoreTermination(t)
         \/ RunqSignal(t) \/ RunqWait(t) \/ Resume(t)
         \/ DequeueEvent(t) \/ Recheck(t) \/ Examine(t) \/ Served(t)
         \/ ReleaseReference(t) \/ Decomission(t) \/ EraseProcess(t)
         \/ DeleteManaged(t) \/ Inspect(t) \/ GateWait(t)
  <2>1. /\ UNCHANGED <<state, reference, gate, spawned, runq>>
        /\ \A u \in Thread : dst'[u] \in Process => dst'[u] = dst[u]
        /\ \A u \in Thread : proc'[u] \in Process => proc'[u] = proc[u]
        /\ \A i \in Ids : processes'[i] \in Process => processes'[i] = processes[i]
    BY <1>1 DEF LoadState, PushEvent, StoreTermination, RunqSignal, RunqWait,
           Resume, DequeueEvent, Recheck, Examine, Served, ReleaseReference,
           Decomission, EraseProcess, DeleteManaged, Inspect, GateWait,
           SendGoto, SendReturn, procVars, queueVars, mapVars, mainVars, Goto,
           sendVars, Return, TypeOK, SendTypes, MainTypes, MapTypes, PlacesOK
  <2> QED BY <2>1, ZenonT(30) DEF SpawnedFirst
<1>2. CASE WakeIfBlocked(t)
  <2>1. UNCHANGED <<spawned, reference, gate, processes, runq, pc, proc>>
    BY <1>2, Zenon DEF WakeIfBlocked, queueVars, mapVars, mainVars
  <2>2. dst[t] \in Process /\ spawned[dst[t]]
    BY <1>2, Zenon DEF WakeIfBlocked, PlacesOK, SpawnedFirst
  <2>3. \A p \in Process : ~spawned[p] => state'[p] = state[p]
    BY <1>2, <2>2, Zenon DEF WakeIfBlocked, TypeOK, ProcTypes
  <2>4. \A u \in Thread : dst'[u] \in Process => dst'[u] = dst[u]
    BY <1>2, Zenon DEF WakeIfBlocked, SendReturn, TypeOK, SendTypes
  <2> QED BY <2>1, <2>3, <2>4, Zenon DEF SpawnedFirst
<1>3. CASE RunqPush(t)
  <2>1. UNCHANGED <<state, reference, gate, spawned, processes, proc>>
    BY <1>3, Zenon DEF RunqPush, procVars, mapVars, mainVars
  <2>2. dst[t] \in Process /\ runq \in Seq(Process) /\ spawned[dst[t]]
    BY <1>3, Zenon DEF RunqPush, PlacesOK, TypeOK, QueueTypes, SpawnedFirst
  <2>3. \A k \in 1..Len(runq') : spawned[runq'[k]]
    BY <1>3, <2>2, AppendFacts DEF RunqPush, SpawnedFirst
  <2>4. \A u \in Thread : dst'[u] \in Process => dst'[u] = dst[u]
    BY <1>3, Zenon DEF RunqPush, TypeOK, SendTypes
  <2> QED BY <2>1, <2>3, <2>4, Zenon DEF SpawnedFirst
<1>4. CASE RunqDequeue(t)
  <2>1. UNCHANGED <<state, spawned, reference, gate, processes, dpc, dst>>
    BY <1>4, Zenon DEF RunqDequeue, procVars, mapVars, sendVars
  <2>2. CASE runq = <<>>
    BY <1>4, <2>1, <2>2, Zenon DEF RunqDequeue, SpawnedFirst
  <2>3. CASE runq # <<>>
    <3>1. runq \in Seq(Process)
      BY Zenon DEF TypeOK, QueueTypes
    <3>2. /\ Head(runq) = runq[1] /\ 1 \in 1..Len(runq)
          /\ \A k \in 1..Len(runq') :
               k + 1 \in 1..Len(runq) /\ runq'[k] = runq[k + 1]
      <4>1. runq' = Tail(runq)
        BY <1>4, <2>3, Zenon DEF RunqDequeue
      <4> QED BY <2>3, <3>1, <4>1, TailShift, Zenon
    <3>3. proc' = [proc EXCEPT ![t] = Head(runq)]
      BY <1>4, <2>3, Zenon DEF RunqDequeue
    <3> QED BY <2>1, <3>2, <3>3, SMTT(30) DEF SpawnedFirst, TypeOK, MainTypes
  <2> QED BY <2>2, <2>3, Zenon
<1>5. CASE Initialized(t)
  BY <1>5, SMTT(30) DEF Initialized, Goto, queueVars, mapVars, sendVars, TypeOK, MainTypes,
         SendTypes, PlacesOK, SpawnedFirst, MapTypes, ProcTypes
<1>6. CASE Block(t)
  BY <1>6, SMTT(30) DEF Block, Goto, queueVars, mapVars, sendVars, TypeOK, MainTypes,
         SendTypes, PlacesOK, SpawnedFirst, MapTypes, ProcTypes
<1>7. CASE Unblock(t)
  BY <1>7, SMTT(30) DEF Unblock, Goto, queueVars, mapVars, sendVars, TypeOK, MainTypes,
         SendTypes, PlacesOK, SpawnedFirst, MapTypes, ProcTypes
<1>8. CASE Cleanup(t)
  BY <1>8, SMTT(30) DEF Cleanup, Goto, queueVars, mapVars, sendVars, TypeOK, MainTypes,
         SendTypes, PlacesOK, SpawnedFirst, MapTypes, ProcTypes
<1>9. CASE ResetReference(t)
  BY <1>9 DEF ResetReference, Goto, queueVars, sendVars, TypeOK, MainTypes,
         SendTypes, PlacesOK, SpawnedFirst, MapTypes, ProcTypes
<1>10. CASE OpenGate(t)
  <2>1. UNCHANGED <<state, spawned, reference, processes, runq, dst>>
    BY <1>10, Zenon DEF OpenGate, queueVars, sendVars
  <2>2. proc[t] \in Process /\ spawned[proc[t]]
    BY <1>10, Zenon DEF OpenGate, PlacesOK, SpawnedFirst
  <2>3. \A p \in Process : ~spawned[p] => gate'[p] = gate[p]
    BY <1>10, <2>2, Zenon DEF OpenGate, TypeOK, ProcTypes
  <2>4. \A u \in Thread : proc'[u] \in Process => proc'[u] = proc[u]
    BY <1>10, Zenon DEF OpenGate, Return, TypeOK, MainTypes
  <2> QED BY <2>1, <2>3, <2>4, Zenon DEF SpawnedFirst
<1>11. CASE Extract(t)
  <2>1. UNCHANGED <<state, spawned, reference, gate, processes, proc, dst>>
    BY <1>11, Zenon DEF Extract, procVars, mapVars, sendVars
  <2>2. CASE UNCHANGED runq
    BY <2>1, <2>2, Zenon DEF SpawnedFirst
  <2>3. CASE \E k \in 1..Len(runq) : runq' = RemoveAt(runq, k)
    <3>1. runq \in Seq(Process)
      BY Zenon DEF TypeOK, QueueTypes
    <3>2. PICK k \in 1..Len(runq) : runq' = RemoveAt(runq, k)
      BY <2>3, Zenon
    <3>3. \A j \in 1..Len(runq') : \E i \in 1..Len(runq) : runq'[j] = runq[i]
      BY <3>1, <3>2, RemoveAtElements
    <3>4. \A j \in 1..Len(runq') : spawned'[runq'[j]]
      <4>1. \A i \in 1..Len(runq) : spawned[runq[i]]
        BY Zenon DEF SpawnedFirst
      <4> QED BY <2>1, <3>3, <4>1, Zenon
    <3> QED BY <2>1, <3>4, Zenon DEF SpawnedFirst
  <2> QED BY <1>11, <2>2, <2>3, Zenon DEF Extract
<1>12. ASSUME NEW i \in Ids, NEW p \in Process, NEW e \in Kind, Deliver(t, i, p, e)
      PROVE  SpawnedFirst'
  BY <1>12 DEF Deliver, SendGoto, CanCall, Use, procVars, queueVars, mapVars,
         mainVars, TypeOK, MainTypes, SendTypes, PlacesOK, SpawnedFirst,
         MapTypes
<1>13. ASSUME NEW p \in Process, Spawn(t, p)
      PROVE  SpawnedFirst'
  <2>1. UNCHANGED <<state, reference, gate, runq, proc>>
    BY <1>13, Zenon DEF Spawn, queueVars, mainVars
  <2>2. CASE processes[Id[p]] = None
    <3>1. /\ processes' = [processes EXCEPT ![Id[p]] = p]
          /\ spawned' = [spawned EXCEPT ![p] = TRUE]
          /\ dst' = [dst EXCEPT ![t] = p]
      BY <1>13, <2>2, Zenon DEF Spawn
    <3> QED BY <2>1, <3>1, SMTT(30)
            DEF SpawnedFirst, TypeOK, ProcTypes, MapTypes, SendTypes
  <2>3. CASE processes[Id[p]] # None
    <3>1. UNCHANGED <<processes, spawned, dst>>
      BY <1>13, <2>3, Zenon DEF Spawn
    <3> QED BY <2>1, <3>1, Zenon DEF SpawnedFirst
  <2> QED BY <2>2, <2>3, Zenon
<1>14. ASSUME NEW i \in Ids, NEW p \in Process, WaitUse(t, i, p)
      PROVE  SpawnedFirst'
  BY <1>14, Zenon DEF WaitUse, Goto, Use, procVars, queueVars, mapVars, sendVars, TypeOK,
         MainTypes, SendTypes, PlacesOK, SpawnedFirst, MapTypes
<1> QED
  BY <1>1, <1>2, <1>3, <1>4, <1>5, <1>6, <1>7, <1>8, <1>9, <1>10,
     <1>11, <1>12, <1>13, <1>14, Zenon
     DEF ThreadStep, SendStep, ResumeStep, CleanupStep, WaitStep, Call

-----------------------------------------------------------------------------
(* Wakeups.                                                                *)

\* A runnable process keeps a token.
LEMMA TokenStep ==
  ASSUME TypeOK, PlacesOK, TokenState, NoAbort',
         NEW q \in Process, RunnableHasToken(q),
         NEW t \in Thread, ThreadStep(t) \/ Call(t)
  PROVE  RunnableHasToken(q)'
<1> USE ConstantsAssumption
<1>1. CASE \/ LoadState(t) \/ PushEvent(t) \/ StoreTermination(t)
         \/ RunqSignal(t)
  <2>1. /\ UNCHANGED <<state, spawned, runq, pc, proc>>
        /\ \A u \in Thread : Pushing(u, q) => Pushing(u, q)'
    BY <1>1, ZenonT(30) DEF LoadState, PushEvent, StoreTermination, RunqSignal, SendGoto,
           SendReturn, procVars, queueVars, mapVars, mainVars, Pushing, TypeOK,
           SendTypes
  <2> QED BY <2>1, Zenon DEF RunnableHasToken, HasToken, Running
<1>2. CASE \/ RunqWait(t) \/ Resume(t) \/ DequeueEvent(t) \/ Recheck(t)
         \/ Examine(t) \/ Served(t) \/ ReleaseReference(t)
         \/ Decomission(t) \/ ResetReference(t) \/ EraseProcess(t)
         \/ Inspect(t) \/ GateWait(t)
  <2>1. /\ UNCHANGED <<state, spawned, runq, dpc, dst>>
        /\ \A u \in Thread : Running(u, q) => Running(u, q)'
    BY <1>2 DEF RunqWait, Resume, DequeueEvent, Recheck, Examine, Served,
           ReleaseReference, Decomission, ResetReference, EraseProcess,
           Inspect, GateWait, Goto, procVars, mapVars, sendVars, queueVars,
           Return, Running, NoAbort, TypeOK, MainTypes, OwnPc, CleanPc
  <2> QED BY <2>1, Zenon DEF RunnableHasToken, HasToken, Pushing
<1>3. CASE WakeIfBlocked(t)
  <2>1. UNCHANGED <<spawned, runq, pc, proc>>
    BY <1>3, Zenon DEF WakeIfBlocked, queueVars, mainVars
  <2>2. \A u \in Thread : Pushing(u, q) => Pushing(u, q)'
    BY <1>3, Zenon DEF WakeIfBlocked, Pushing, SendGoto, SendReturn, TypeOK, SendTypes
  <2>3. state'[q] = state[q] \/ Pushing(t, q)'
    BY <1>3 DEF WakeIfBlocked, Pushing, SendGoto, TypeOK, ProcTypes, SendTypes
  <2> QED BY <2>1, <2>2, <2>3, Zenon DEF RunnableHasToken, HasToken, Running
<1>4. CASE RunqPush(t)
  <2>1. UNCHANGED <<state, spawned, pc, proc>>
    BY <1>4, Zenon DEF RunqPush, procVars, mainVars
  <2>2. /\ dst[t] \in Process /\ runq \in Seq(Process)
        /\ runq' = Append(runq, dst[t])
    BY <1>4, Zenon DEF RunqPush, PlacesOK, TypeOK, QueueTypes
  <2>3. /\ \A k \in 1..Len(runq) : k \in 1..Len(runq') /\ runq'[k] = runq[k]
        /\ \E k \in 1..Len(runq') : runq'[k] = dst[t]
    <3>1. PICK p \in Process : p = dst[t]
      BY <2>2, Zenon
    <3>2. /\ \A k \in 1..Len(runq) :
               k \in 1..Len(Append(runq, p)) /\ Append(runq, p)[k] = runq[k]
          /\ \E k \in 1..Len(Append(runq, p)) : Append(runq, p)[k] = p
      BY <2>2, AppendElements, Zenon
    <3> QED BY <2>2, <3>1, <3>2, Zenon
  <2>4. \A u \in Thread : Pushing(u, q) => Pushing(u, q)' \/ q = dst[t]
    BY <1>4, Zenon DEF RunqPush, Pushing, SendGoto, TypeOK, SendTypes
  <2>5. /\ (\E k \in 1..Len(runq) : runq[k] = q) => \E k \in 1..Len(runq') : runq'[k] = q
        /\ q = dst[t] => \E k \in 1..Len(runq') : runq'[k] = q
    BY <2>3, Zenon
  <2> QED BY <2>1, <2>4, <2>5, Zenon DEF RunnableHasToken, HasToken, Running
<1>5. CASE RunqDequeue(t)
  <2>1. UNCHANGED <<state, spawned, dpc, dst>>
    BY <1>5, Zenon DEF RunqDequeue, procVars, sendVars
  <2>2. \A u \in Thread : Running(u, q) => Running(u, q)'
    BY <1>5, Zenon DEF RunqDequeue, Running, Goto, TypeOK, MainTypes, OwnPc, CleanPc
  <2>3. ASSUME NEW k \in 1..Len(runq), runq[k] = q
        PROVE  Running(t, q)' \/ \E j \in 1..Len(runq') : runq'[j] = q
    <3>1. runq \in Seq(Process) /\ runq # <<>>
      BY <2>3 DEF TypeOK, QueueTypes
    <3>2. CASE k = 1
      BY <1>5, <2>3, <3>1, <3>2, HeadTailFacts
         DEF RunqDequeue, Running, Goto, OwnPc, TypeOK, MainTypes
    <3>3. CASE k # 1
      <4>1. k - 1 \in 1..Len(runq') /\ runq'[k - 1] = q
        BY <1>5, <2>3, <3>1, <3>3, HeadTailFacts DEF RunqDequeue
      <4> QED BY <4>1, Zenon
    <3> QED BY <3>2, <3>3, Zenon
  <2> QED BY <2>1, <2>2, <2>3, Zenon DEF RunnableHasToken, HasToken, Pushing
<1>6. CASE Initialized(t)
  <2>1. /\ UNCHANGED <<spawned, runq, dpc, dst, proc>> /\ proc[t] \in Process
        /\ state' = [state EXCEPT ![proc[t]] = "READY"] /\ pc'[t] # "abort"
    BY <1>6, Zenon DEF Initialized, PlacesOK, NoAbort, queueVars, sendVars, Goto, TypeOK, MainTypes
  <2>2. \A u \in Thread : Running(u, q) => Running(u, q)'
    BY <1>6, <2>1, Zenon DEF Initialized, Running, Goto, TypeOK, MainTypes, OwnPc, CleanPc
  <2>3. q = proc[t] => state[q] = "READY" \/ state[q] = "BOTTOM"
    BY <1>6, Zenon DEF Initialized, TokenState, OwnPc
  <2> QED BY <2>1, <2>2, <2>3, Zenon
          DEF RunnableHasToken, HasToken, Pushing, TypeOK, ProcTypes
<1>7. CASE Block(t)
  <2>1. UNCHANGED <<spawned, runq, dpc, dst>>
    BY <1>7, Zenon DEF Block, queueVars, sendVars
  <2>2. CASE q = proc[t]
    <3>1. state'[q] = "BLOCKED"
      BY <1>7, <2>1, <2>2, Zenon DEF Block, TypeOK, ProcTypes
    <3> QED BY <3>1, Zenon DEF RunnableHasToken
  <2>3. CASE q # proc[t]
    <3>1. \A u \in Thread : Running(u, q) => Running(u, q)'
      BY <1>7, <2>3, Zenon DEF Block, Running, Goto, TypeOK, MainTypes
    <3>2. state'[q] = state[q]
      BY <1>7, <2>1, <2>3, Zenon DEF Block, TypeOK, ProcTypes
    <3> QED BY <2>1, <3>1, <3>2, Zenon DEF RunnableHasToken, HasToken, Pushing
  <2> QED BY <2>2, <2>3, Zenon
<1>8. CASE Unblock(t)
  <2>1. UNCHANGED <<spawned, runq, dpc, dst>>
    BY <1>8, Zenon DEF Unblock, queueVars, sendVars
  <2>2. \A u \in Thread : Running(u, q) => Running(u, q)'
    BY <1>8, Zenon DEF Unblock, Running, Goto, TypeOK, MainTypes, OwnPc, CleanPc
  <2>3. state'[q] = state[q] \/ Running(t, q)'
    BY <1>8, Zenon DEF Unblock, Running, Goto, OwnPc, TypeOK, ProcTypes, MainTypes
  <2> QED BY <2>1, <2>2, <2>3, Zenon DEF RunnableHasToken, HasToken, Pushing
<1>9. CASE Cleanup(t)
  <2>1. /\ UNCHANGED <<spawned, runq, dpc, dst, proc>> /\ proc[t] \in Process
        /\ state' = [state EXCEPT ![proc[t]] = "TERMINATING"] /\ pc'[t] # "abort"
    BY <1>9, Zenon DEF Cleanup, PlacesOK, NoAbort, queueVars, sendVars, Goto, TypeOK, MainTypes
  <2>2. \A u \in Thread : Running(u, q) => Running(u, q)'
    BY <1>9, <2>1, Zenon DEF Cleanup, Running, Goto, TypeOK, MainTypes, OwnPc, CleanPc
  <2>3. q = proc[t] => state[q] = "READY" \/ state[q] = "BOTTOM"
    BY <1>9, Zenon DEF Cleanup, TokenState, OwnPc
  <2> QED BY <2>1, <2>2, <2>3, Zenon
          DEF RunnableHasToken, HasToken, Pushing, TypeOK, ProcTypes
<1>10. CASE OpenGate(t)
  <2>1. UNCHANGED <<state, spawned, runq, dpc, dst>>
    BY <1>10, Zenon DEF OpenGate, queueVars, sendVars
  <2>2. CASE q = proc[t]
    <3>1. state'[q] = "TERMINATING"
      BY <1>10, <2>1, <2>2, Zenon DEF OpenGate, TokenState, CleanPc
    <3> QED BY <3>1, Zenon DEF RunnableHasToken
  <2>3. CASE q # proc[t]
    <3>1. \A u \in Thread : Running(u, q) => Running(u, q)'
      BY <1>10, <2>3, Zenon DEF OpenGate, Running, Goto, Return, TypeOK, MainTypes
    <3>2. state'[q] = state[q]
      BY <1>10, <2>1, <2>3, Zenon DEF OpenGate, TypeOK, ProcTypes
    <3> QED BY <2>1, <3>1, <3>2, Zenon DEF RunnableHasToken, HasToken, Pushing
  <2> QED BY <2>2, <2>3, Zenon
<1>11. CASE DeleteManaged(t)
  <2>1. UNCHANGED <<state, spawned, runq, dpc, dst>>
    BY <1>11, Zenon DEF DeleteManaged, queueVars, sendVars
  <2>2. CASE q = proc[t]
    <3>1. state'[q] = "TERMINATING"
      BY <1>11, <2>1, <2>2, Zenon DEF DeleteManaged, TokenState, CleanPc
    <3> QED BY <3>1, Zenon DEF RunnableHasToken
  <2>3. CASE q # proc[t]
    <3>1. \A u \in Thread : Running(u, q) => Running(u, q)'
      BY <1>11, <2>3, Zenon DEF DeleteManaged, Running, Goto, Return, TypeOK, MainTypes
    <3>2. state'[q] = state[q]
      BY <1>11, <2>1, <2>3, Zenon DEF DeleteManaged, TypeOK, ProcTypes
    <3> QED BY <2>1, <3>1, <3>2, Zenon DEF RunnableHasToken, HasToken, Pushing
  <2> QED BY <2>2, <2>3, Zenon
<1>12. CASE Extract(t)
  <2>1. UNCHANGED <<state, spawned, dpc, dst>>
    BY <1>12, Zenon DEF Extract, procVars, sendVars
  <2>2. \A u \in Thread : Running(u, q) => Running(u, q)'
    BY <1>12, Zenon DEF Extract, Running, Goto, TypeOK, MainTypes, OwnPc, CleanPc
  <2>3. ASSUME NEW i \in 1..Len(runq), runq[i] = q
        PROVE  Running(t, q)' \/ \E j \in 1..Len(runq') : runq'[j] = q
    <3>1. runq \in Seq(Process) /\ Len(runq) \in Nat
      BY DEF TypeOK, QueueTypes
    <3>2. CASE UNCHANGED runq
      BY <2>3, <3>2, Zenon
    <3>3. ASSUME NEW k \in 1..Len(runq), runq[k] = proc[t],
                 runq' = RemoveAt(runq, k), pc' = [pc EXCEPT ![t] = "resume"]
          PROVE  Running(t, q)' \/ \E j \in 1..Len(runq') : runq'[j] = q
      <4>1. /\ Len(runq') = Len(runq) - 1
            /\ \A j \in 1..(Len(runq) - 1) :
                 runq'[j] = IF j < k THEN runq[j] ELSE runq[j + 1]
        BY <3>1, <3>3, RemoveAtFacts, Zenon
      <4>2. CASE i < k
        <5>1. i \in 1..Len(runq') /\ runq'[i] = q
          BY <2>3, <3>1, <4>1, <4>2
        <5> QED BY <5>1, Zenon
      <4>3. CASE i = k
        BY <1>12, <2>3, <3>3, <4>3, Zenon DEF Extract, Running, OwnPc, TypeOK, MainTypes
      <4>4. CASE i > k
        <5>1. i - 1 \in 1..Len(runq') /\ runq'[i - 1] = q
          BY <2>3, <3>1, <4>1, <4>4, SMTT(30)
        <5> QED BY <5>1, Zenon
      <4> QED BY <4>2, <4>3, <4>4
    <3> QED BY <1>12, <3>2, <3>3, Zenon DEF Extract, Goto
  <2> QED BY <2>1, <2>2, <2>3, Zenon DEF RunnableHasToken, HasToken, Pushing
<1>13. ASSUME NEW i \in Ids, NEW p \in Process, NEW e \in Kind, Deliver(t, i, p, e)
      PROVE  RunnableHasToken(q)'
  <2>1. UNCHANGED <<state, spawned, runq, pc, proc>>
    BY <1>13, Zenon DEF Deliver, procVars, queueVars, mainVars
  <2>2. \A u \in Thread : Pushing(u, q) => Pushing(u, q)'
    BY <1>13, Zenon DEF Deliver, Pushing, CanCall, SendGoto, SendReturn, TypeOK, SendTypes
  <2> QED BY <2>1, <2>2, Zenon DEF RunnableHasToken, HasToken, Running
<1>14. ASSUME NEW p \in Process, Spawn(t, p)
      PROVE  RunnableHasToken(q)'
  <2>1. UNCHANGED <<state, runq, pc, proc>>
    BY <1>14, Zenon DEF Spawn, queueVars, mainVars
  <2>2. \A u \in Thread : Pushing(u, q) => Pushing(u, q)'
    BY <1>14, Zenon DEF Spawn, CanCall, Pushing, SendGoto, TypeOK, SendTypes
  <2>3. spawned'[q] = spawned[q] \/ Pushing(t, q)'
    BY <1>14 DEF Spawn, Pushing, SendGoto, TypeOK, ProcTypes, SendTypes
  <2> QED BY <2>1, <2>2, <2>3, Zenon DEF RunnableHasToken, HasToken, Running
<1>15. ASSUME NEW i \in Ids, NEW p \in Process, WaitUse(t, i, p)
      PROVE  RunnableHasToken(q)'
  <2>1. UNCHANGED <<state, spawned, runq, dpc, dst>>
    BY <1>15, Zenon DEF WaitUse, procVars, queueVars, sendVars
  <2>2. \A u \in Thread : Running(u, q) => Running(u, q)'
    BY <1>15, Zenon DEF WaitUse, Running, Goto, TypeOK, MainTypes, OwnPc, CleanPc
  <2> QED BY <2>1, <2>2, Zenon DEF RunnableHasToken, HasToken, Pushing
<1> QED
  BY <1>1, <1>2, <1>3, <1>4, <1>5, <1>6, <1>7, <1>8, <1>9, <1>10,
     <1>11, <1>12, <1>13, <1>14, <1>15, Zenon
     DEF ThreadStep, SendStep, ResumeStep, CleanupStep, WaitStep, Call

\* A BLOCKED process with events keeps a thread that will look at its state.
LEMMA WakerStep ==
  ASSUME TypeOK, PlacesOK, TokenState,
         NEW q \in Process, BlockedHasWaker(q),
         NEW t \in Thread, ThreadStep(t) \/ Call(t)
  PROVE  BlockedHasWaker(q)'
<1> USE ConstantsAssumption
<1>1. CASE \/ LoadState(t) \/ StoreTermination(t) \/ RunqPush(t)
         \/ RunqSignal(t) \/ RunqWait(t) \/ RunqDequeue(t)
         \/ Resume(t) \/ Served(t) \/ ReleaseReference(t)
         \/ ResetReference(t) \/ EraseProcess(t) \/ OpenGate(t)
         \/ DeleteManaged(t) \/ Inspect(t) \/ Extract(t)
         \/ GateWait(t)
  <2>1. UNCHANGED <<state, events>> /\ (HasWaker(q) => HasWaker(q)')
    BY <1>1 DEF LoadState, StoreTermination, RunqPush, RunqSignal, RunqWait,
           RunqDequeue, Resume, Served, ReleaseReference, ResetReference,
           EraseProcess, OpenGate, DeleteManaged, Inspect, Extract, GateWait,
           SendGoto, SendReturn, procVars, queueVars, mapVars, mainVars, Goto,
           sendVars, Return, HasWaker, TypeOK, MainTypes, SendTypes
  <2> QED BY <2>1, ZenonT(30) DEF BlockedHasWaker
<1>2. CASE PushEvent(t)
  BY <1>2, SMTT(30) DEF PushEvent, SendGoto, SendReturn, queueVars, mapVars, mainVars,
         TypeOK, MainTypes, SendTypes, BlockedHasWaker, HasWaker, ProcTypes,
         PlacesOK
<1>3. CASE WakeIfBlocked(t)
  BY <1>3, SMTT(30) DEF WakeIfBlocked, SendGoto, SendReturn, queueVars, mapVars, mainVars,
         TypeOK, MainTypes, SendTypes, BlockedHasWaker, HasWaker, ProcTypes,
         PlacesOK
<1>4. CASE Initialized(t)
  BY <1>4, Zenon DEF Initialized, Goto, queueVars, mapVars, sendVars, TypeOK, MainTypes,
         SendTypes, BlockedHasWaker, HasWaker, ProcTypes, PlacesOK
<1>5. CASE DequeueEvent(t)
  BY <1>5 DEF DequeueEvent, Goto, queueVars, mapVars, sendVars, TypeOK,
         MainTypes, SendTypes, BlockedHasWaker, HasWaker, ProcTypes, PlacesOK,
         TokenState, OwnPc, CleanPc
<1>6. CASE Block(t)
  BY <1>6, Zenon DEF Block, Goto, queueVars, mapVars, sendVars, TypeOK, MainTypes,
         SendTypes, BlockedHasWaker, HasWaker, ProcTypes, PlacesOK
<1>7. CASE Recheck(t)
  BY <1>7, Zenon DEF Recheck, Goto, procVars, queueVars, mapVars, sendVars, TypeOK,
         MainTypes, SendTypes, BlockedHasWaker, HasWaker
<1>8. CASE Unblock(t)
  BY <1>8, SMTT(30) DEF Unblock, Goto, queueVars, mapVars, sendVars, TypeOK, MainTypes,
         SendTypes, BlockedHasWaker, HasWaker, ProcTypes, PlacesOK
<1>9. CASE Examine(t)
  BY <1>9, SMTT(30) DEF Examine, Goto, IsTerminate, queueVars, mapVars, sendVars, TypeOK,
         MainTypes, SendTypes, BlockedHasWaker, HasWaker, ProcTypes, PlacesOK,
         TokenState, OwnPc, CleanPc
<1>10. CASE Cleanup(t)
  BY <1>10, SMTT(30) DEF Cleanup, Goto, queueVars, mapVars, sendVars, TypeOK, MainTypes,
         SendTypes, BlockedHasWaker, HasWaker, ProcTypes, PlacesOK
<1>11. CASE Decomission(t)
  BY <1>11, Zenon DEF Decomission, Goto, queueVars, mapVars, sendVars, TypeOK, MainTypes,
         SendTypes, BlockedHasWaker, HasWaker, ProcTypes, PlacesOK, TokenState,
         OwnPc, CleanPc
<1>12. ASSUME NEW i \in Ids, NEW p \in Process, NEW e \in Kind, Deliver(t, i, p, e)
      PROVE  BlockedHasWaker(q)'
  BY <1>12, Zenon DEF Deliver, SendGoto, CanCall, Use, procVars, queueVars, mapVars,
         mainVars, TypeOK, MainTypes, SendTypes, BlockedHasWaker, HasWaker
<1>13. ASSUME NEW p \in Process, Spawn(t, p)
      PROVE  BlockedHasWaker(q)'
  BY <1>13, Zenon DEF Spawn, SendGoto, CanCall, queueVars, mainVars, TypeOK, MainTypes,
         SendTypes, BlockedHasWaker, HasWaker
<1>14. ASSUME NEW i \in Ids, NEW p \in Process, WaitUse(t, i, p)
      PROVE  BlockedHasWaker(q)'
  BY <1>14, Zenon DEF WaitUse, Goto, Use, procVars, queueVars, mapVars, sendVars, TypeOK,
         MainTypes, SendTypes, BlockedHasWaker, HasWaker
<1> QED
  BY <1>1, <1>2, <1>3, <1>4, <1>5, <1>6, <1>7, <1>8, <1>9, <1>10,
     <1>11, <1>12, <1>13, <1>14, Zenon
     DEF ThreadStep, SendStep, ResumeStep, CleanupStep, WaitStep, Call

-----------------------------------------------------------------------------
(* Termination.                                                            *)

\* When the flag is up, the runner of p holds an injected terminate event or has
\* one ahead of it in the queue.
LEMMA InjectAhead ==
  ASSUME TypeOK, PlacesOK, TokenState, OneToken, FlagAfterEvent,
         NEW t \in Thread, pc[t] = "got", termination[proc[t]]
  PROVE  LET all == <<event[t]>> \o events[proc[t]]
         IN  /\ all \in Seq(Kind) /\ Len(all) = Len(events[proc[t]]) + 1
             /\ \E k \in 1..Len(all) : all[k] = "inject"
<1> DEFINE p == proc[t]
           all == <<event[t]>> \o events[p]
<1>1. /\ p \in Process /\ event[t] \in Kind /\ events[p] \in Seq(Kind)
      /\ Running(t, p) /\ state[p] = "READY"
  BY Zenon DEF PlacesOK, TypeOK, ProcTypes, TokenState, Running, OwnPc
<1>2. event[t] = "inject" \/ HasInject(p)
  <2>1. InjectSeen(p)
    BY <1>1, Zenon DEF FlagAfterEvent
  <2>2. \A u \in Thread : Running(u, p) => u = t
    BY <1>1, OnlyRunner, Zenon
  <2>3. \A u \in Thread : Ending(u, p) => u = t
    BY <2>2, Zenon DEF Ending, Running, OwnPc
  <2> QED BY <1>1, <2>1, <2>3, Zenon DEF InjectSeen, Ending
<1>3. /\ all \in Seq(Kind) /\ Len(all) = Len(events[p]) + 1
      /\ all[1] = event[t]
      /\ \A j \in 1..Len(events[p]) : all[j + 1] = events[p][j]
  <2>1. PICK x, s : x = event[t] /\ s = events[p]
    BY Zenon
  <2>2. x \in Kind /\ s \in Seq(Kind)
    BY <1>1, <2>1, Zenon
  <2>3. /\ <<x>> \o s \in Seq(Kind) /\ Len(<<x>> \o s) = Len(s) + 1
        /\ (<<x>> \o s)[1] = x
        /\ \A j \in 1..Len(s) : (<<x>> \o s)[j + 1] = s[j]
    BY ONLY <2>2, PurgeFacts
  <2> QED BY <2>1, <2>3, Zenon
<1> HIDE DEF all
<1>4. CASE event[t] = "inject"
  BY <1>1, <1>3, <1>4 DEF all
<1>5. CASE HasInject(p)
  <2>1. PICK j \in 1..Len(events[p]) : events[p][j] = "inject"
    BY <1>5, Zenon DEF HasInject
  <2>2. j + 1 \in 1..Len(all) /\ all[j + 1] = "inject"
    BY <1>1, <1>3, <2>1
  <2> QED BY <1>3, <2>2, Zenon DEF all
<1> QED BY <1>2, <1>4, <1>5, Zenon

\* No CHECK of resume or cleanup fails in a step.
LEMMA NoAbortStep ==
  ASSUME TypeOK, PlacesOK, TokenState, OneToken, FlagAfterEvent, NoAbort,
         NEW t \in Thread, ThreadStep(t) \/ Call(t)
  PROVE  NoAbort'
<1> USE ConstantsAssumption
<1>1. CASE \/ LoadState(t) \/ PushEvent(t) \/ StoreTermination(t)
         \/ WakeIfBlocked(t) \/ RunqPush(t) \/ RunqSignal(t)
         \/ RunqWait(t) \/ RunqDequeue(t) \/ Initialized(t)
         \/ DequeueEvent(t) \/ Block(t) \/ Recheck(t) \/ Unblock(t)
         \/ Served(t) \/ ReleaseReference(t) \/ Decomission(t)
         \/ ResetReference(t) \/ EraseProcess(t) \/ OpenGate(t)
         \/ DeleteManaged(t) \/ Inspect(t) \/ Extract(t)
         \/ GateWait(t)
  BY <1>1, Zenon DEF LoadState, PushEvent, StoreTermination, WakeIfBlocked, RunqPush,
         RunqSignal, RunqWait, RunqDequeue, Initialized, DequeueEvent, Block,
         Recheck, Unblock, Served, ReleaseReference, Decomission,
         ResetReference, EraseProcess, OpenGate, DeleteManaged, Inspect,
         Extract, GateWait, SendGoto, SendReturn, procVars, queueVars, mapVars,
         mainVars, Goto, sendVars, Return, TypeOK, MainTypes, NoAbort
<1>2. CASE Resume(t)
  BY <1>2, Zenon DEF Resume, Goto, procVars, queueVars, mapVars, sendVars, TypeOK,
         MainTypes, NoAbort, TokenState, OwnPc, CleanPc
<1>3. CASE Examine(t)
  <2>1. pc[t] = "got"
    BY <1>3, Zenon DEF Examine
  <2>2. ASSUME termination[proc[t]]
        PROVE  \E k \in 1..Len(<<event[t]>> \o events[proc[t]]) :
                 IsTerminate((<<event[t]>> \o events[proc[t]])[k])
    BY <2>1, <2>2, InjectAhead, Zenon DEF IsTerminate
  <2>3. pc' # [pc EXCEPT ![t] = "abort"]
    BY <1>3, <2>2, Zenon DEF Examine, Goto, TypeOK, MainTypes
  <2> QED BY <1>3, <2>3, Zenon DEF Examine, Goto, NoAbort, TypeOK, MainTypes
<1>4. CASE Cleanup(t)
  BY <1>4, Zenon DEF Cleanup, Goto, queueVars, mapVars, sendVars, TypeOK, MainTypes,
         NoAbort, TokenState, OwnPc, CleanPc
<1>5. ASSUME NEW i \in Ids, NEW p \in Process, NEW e \in Kind, Deliver(t, i, p, e)
      PROVE  NoAbort'
  BY <1>5, Zenon DEF Deliver, SendGoto, CanCall, Use, procVars, queueVars, mapVars,
         mainVars, TypeOK, MainTypes, NoAbort
<1>6. ASSUME NEW p \in Process, Spawn(t, p)
      PROVE  NoAbort'
  BY <1>6, Zenon DEF Spawn, SendGoto, CanCall, queueVars, mainVars, TypeOK, MainTypes,
         NoAbort
<1>7. ASSUME NEW i \in Ids, NEW p \in Process, WaitUse(t, i, p)
      PROVE  NoAbort'
  BY <1>7, Zenon DEF WaitUse, Goto, Use, procVars, queueVars, mapVars, sendVars, TypeOK,
         MainTypes, NoAbort
<1> QED
  BY <1>1, <1>2, <1>3, <1>4, <1>5, <1>6, <1>7, Zenon
     DEF ThreadStep, SendStep, ResumeStep, CleanupStep, WaitStep, Call

\* Once an injected event is in the queue of q it stays in sight: it is queued,
\* or in the hands of the runner of q, or q is TERMINATING.
LEMMA SeenStep ==
  ASSUME TypeOK, PlacesOK, TokenState, NoAbort',
         NEW q \in Process, InjectSeen(q),
         NEW t \in Thread, ThreadStep(t) \/ Call(t)
  PROVE  InjectSeen(q)'
<1> USE ConstantsAssumption
<1>1. CASE \/ LoadState(t) \/ StoreTermination(t) \/ RunqPush(t)
         \/ RunqSignal(t) \/ RunqWait(t) \/ RunqDequeue(t)
         \/ Resume(t) \/ Recheck(t) \/ Served(t)
         \/ ReleaseReference(t) \/ ResetReference(t)
         \/ EraseProcess(t) \/ OpenGate(t) \/ DeleteManaged(t)
         \/ Inspect(t) \/ Extract(t) \/ GateWait(t)
  <2>1. /\ UNCHANGED <<state, events>>
        /\ \A u \in Thread : Ending(u, q) => Ending(u, q)'
    BY <1>1, Zenon DEF LoadState, StoreTermination, RunqPush, RunqSignal, RunqWait,
           RunqDequeue, Resume, Recheck, Served, ReleaseReference,
           ResetReference, EraseProcess, OpenGate, DeleteManaged, Inspect,
           Extract, GateWait, SendGoto, SendReturn, procVars, queueVars,
           mapVars, mainVars, Goto, sendVars, Return, Ending, IsTerminate,
           TypeOK, MainTypes, NoAbort
  <2> QED BY <2>1, Zenon DEF InjectSeen, HasInject
<1>2. CASE PushEvent(t)
  <2>1. UNCHANGED <<state, pc, proc, event>>
    BY <1>2, Zenon DEF PushEvent, mainVars
  <2>2. dst[t] \in Process /\ devent[t] \in Kind /\ events \in [Process -> Seq(Kind)]
    BY <1>2, Zenon DEF PushEvent, PlacesOK, TypeOK, ProcTypes
  <2>3. events'[q] = events[q] \/ events'[q] = Append(events[q], devent[t])
    BY <1>2, <2>2, Zenon DEF PushEvent
  <2>4. HasInject(q) => HasInject(q)'
    <3> SUFFICES ASSUME NEW i \in 1..Len(events[q]), events[q][i] = "inject"
                 PROVE  \E k \in 1..Len(events'[q]) : events'[q][k] = "inject"
      BY Zenon DEF HasInject
    <3>1. CASE events'[q] = events[q]
      BY <3>1, Zenon
    <3>2. CASE events'[q] = Append(events[q], devent[t])
      <4>1. events[q] \in Seq(Kind) /\ Len(events[q]) \in Nat
        BY <2>2
      <4>2. Len(events'[q]) = Len(events[q]) + 1 /\ events'[q][i] = events[q][i]
        BY <2>2, <3>2, <4>1, AppendFacts
      <4>3. i \in 1..Len(events'[q])
        BY <4>1, <4>2
      <4> QED BY <4>2, <4>3, Zenon
    <3> QED BY <2>3, <3>1, <3>2, Zenon
  <2> QED BY <2>1, <2>4, Zenon DEF InjectSeen, Ending
<1>3. CASE WakeIfBlocked(t)
  BY <1>3, Zenon DEF WakeIfBlocked, SendGoto, SendReturn, queueVars, mapVars, mainVars,
         TypeOK, MainTypes, InjectSeen, Ending, HasInject, ProcTypes,
         PlacesOK, TokenState, OwnPc, CleanPc
<1>4. CASE Initialized(t)
  BY <1>4, Zenon DEF Initialized, Goto, queueVars, mapVars, sendVars, TypeOK, MainTypes,
         InjectSeen, Ending, HasInject, ProcTypes, PlacesOK, TokenState,
         OwnPc, CleanPc
<1>5. CASE DequeueEvent(t)
  <2>1. /\ UNCHANGED <<state, proc>>
        /\ proc[t] \in Process /\ events[proc[t]] \in Seq(Kind)
    BY <1>5, Zenon DEF DequeueEvent, PlacesOK, TypeOK, ProcTypes
  <2>2. \A u \in Thread : Ending(u, q) => Ending(u, q)'
    BY <1>5, Zenon DEF DequeueEvent, Goto, Ending, TypeOK, MainTypes
  <2>3. ASSUME HasInject(q) PROVE InjectSeen(q)'
    <3>1. CASE events'[q] = events[q]
      BY <2>3, <3>1, Zenon DEF InjectSeen, HasInject
    <3>2. CASE /\ q = proc[t] /\ events[q] # <<>>
               /\ events'[q] = Tail(events[q])
               /\ event'[t] = Head(events[q]) /\ pc'[t] = "got"
      <4>1. PICK k \in 1..Len(events[q]) : events[q][k] = "inject"
        BY <2>3, Zenon DEF HasInject
      <4>2. CASE k = 1
        <5>0. PICK s : s = events[q]
          OBVIOUS
        <5>1. s \in Seq(Kind) /\ s # <<>> /\ s[1] = "inject"
          BY <2>1, <3>2, <4>1, <4>2, <5>0, Zenon
        <5>2. Head(s) = "inject"
          BY <5>1, HeadTailFacts
        <5>3. Ending(t, q)'
          BY <2>1, <3>2, <5>0, <5>2, Zenon DEF Ending
        <5> QED BY <5>3, Zenon DEF InjectSeen
      <4>3. CASE k # 1
        <5>0. PICK s : s = events[q]
          OBVIOUS
        <5>2. s \in Seq(Kind) /\ s # <<>> /\ k \in 1..Len(s)
          BY <2>1, <3>2, <5>0, Zenon
        <5>3. k - 1 \in 1..Len(Tail(s)) /\ Tail(s)[k - 1] = s[k]
          BY <4>3, <5>2, HeadTailFacts
        <5>1. /\ k - 1 \in 1..Len(events'[q])
              /\ events'[q][k - 1] = events[q][k]
          BY <3>2, <5>0, <5>3, Zenon
        <5> QED BY <4>1, <5>1, Zenon DEF InjectSeen, HasInject
      <4> QED BY <4>2, <4>3, Zenon
    <3> QED BY <1>5, <2>1, <3>1, <3>2
            DEF DequeueEvent, Goto, TypeOK, ProcTypes, MainTypes
  <2> QED BY <2>1, <2>2, <2>3, Zenon DEF InjectSeen
<1>6. CASE Block(t)
  BY <1>6, Zenon DEF Block, Goto, queueVars, mapVars, sendVars, TypeOK, MainTypes,
         InjectSeen, Ending, HasInject, ProcTypes, PlacesOK, TokenState,
         OwnPc, CleanPc
<1>7. CASE Unblock(t)
  <2>1. /\ UNCHANGED <<events, proc, event>> /\ pc[t] = "unblock"
        /\ \A u \in Thread : u # t => pc'[u] = pc[u]
    BY <1>7, Zenon DEF Unblock, Goto, TypeOK, MainTypes
  <2>2. \A u \in Thread : Ending(u, q) => u # t
    BY <2>1 DEF Ending
  <2>3. \A u \in Thread : Ending(u, q) => Ending(u, q)'
    BY <2>1, <2>2, Zenon DEF Ending
  <2>4. state[q] = "TERMINATING" => state'[q] = "TERMINATING"
    BY <1>7 DEF Unblock, TypeOK, ProcTypes
  <2> QED BY <2>1, <2>3, <2>4, Zenon DEF InjectSeen, HasInject
<1>8. CASE Examine(t)
  <2>1. UNCHANGED <<state, proc>> /\ proc[t] \in Process
    BY <1>8, Zenon DEF Examine, PlacesOK
  <2>2. CASE termination[proc[t]] /\ pc' = [pc EXCEPT ![t] = "serve"]
    <3>1. q = proc[t] /\ (HasInject(q) \/ Ending(t, q)) => InjectSeen(q)'
      <4> SUFFICES ASSUME q = proc[t], HasInject(q) \/ Ending(t, q)
                   PROVE  HasInject(q)' \/ Ending(t, q)'
        BY Zenon DEF InjectSeen
      <4> DEFINE all == <<event[t]>> \o events[q]
      <4>1. event[t] \in Kind /\ events[q] \in Seq(Kind) /\ pc[t] = "got"
        BY <1>8, Zenon DEF Examine, PlacesOK, TypeOK, ProcTypes
      <4>2. /\ all \in Seq(Kind) /\ Len(all) = Len(events[q]) + 1
            /\ all[1] = event[t]
            /\ \A i \in 1..Len(events[q]) : all[i + 1] = events[q][i]
        <5>1. PICK x, s : x = event[t] /\ s = events[q]
          OBVIOUS
        <5>2. /\ <<x>> \o s \in Seq(Kind) /\ Len(<<x>> \o s) = Len(s) + 1
              /\ (<<x>> \o s)[1] = x
              /\ \A i \in 1..Len(s) : (<<x>> \o s)[i + 1] = s[i]
          BY <4>1, <5>1, PurgeFacts
        <5> QED BY <5>1, <5>2, Zenon
      <4>3. PICK k \in 1..Len(all) :
              /\ FirstTerminate(all, k)
              /\ event' = [event EXCEPT ![t] = all[k]]
              /\ events' = [events EXCEPT ![q] = SubSeq(all, k + 1, Len(all))]
        BY <1>8, <2>2, Zenon DEF Examine, Goto, TypeOK, MainTypes
      <4> HIDE DEF all
      <4>4. PICK j \in 1..Len(all) : all[j] = "inject"
        <5>1. CASE event[t] = "inject"
          BY <4>1, <4>2, <5>1
        <5>2. CASE HasInject(q)
          <6>1. PICK i \in 1..Len(events[q]) : events[q][i] = "inject"
            BY <5>2, Zenon DEF HasInject
          <6> QED BY <4>1, <4>2, <6>1, SMTT(30)
        <5> QED BY <4>1, <5>1, <5>2, Zenon DEF Ending
      <4>5. j >= k
        BY <4>2, <4>3, <4>4 DEF FirstTerminate, IsTerminate
      <4>6. CASE j = k
        BY <2>1, <2>2, <4>3, <4>4, <4>6, Zenon DEF Ending, TypeOK, MainTypes
      <4>7. CASE j > k
        <5>1. /\ j - k \in 1..Len(SubSeq(all, k + 1, Len(all)))
              /\ SubSeq(all, k + 1, Len(all))[j - k] = all[j]
          <6>1. Len(all) \in Nat /\ j - k \in 1..(Len(all) - k) /\ k + (j - k) = j
            BY <4>2, <4>7
          <6>2. SubSeq(all, k + 1, Len(all))[j - k] = all[k + (j - k)]
            BY <4>2, <6>1, RestFacts
          <6>3. Len(SubSeq(all, k + 1, Len(all))) = Len(all) - k
            BY <4>2, RestFacts
          <6> QED BY <6>1, <6>2, <6>3, Zenon
        <5>2. events'[q] = SubSeq(all, k + 1, Len(all))
          BY <4>3, Zenon DEF TypeOK, ProcTypes
        <5> QED BY <4>4, <5>1, <5>2, Zenon DEF HasInject
      <4>8. j \in Nat /\ k \in Nat
        BY <4>2
      <4>9. j = k \/ j > k
        BY <4>5, <4>8
      <4> QED BY <4>6, <4>7, <4>9, Zenon
    <3>2. q # proc[t] => events'[q] = events[q]
      BY <1>8, <2>1, Zenon DEF Examine, TypeOK, ProcTypes
    <3>3. \A u \in Thread : u # t /\ Ending(u, q) => Ending(u, q)'
      BY <1>8, Zenon DEF Examine, Goto, Ending, TypeOK, MainTypes
    <3>4. q # proc[t] => ~Ending(t, q)
      BY Zenon DEF Ending
    <3>5. q # proc[t] /\ HasInject(q) => HasInject(q)'
      BY <3>2, Zenon DEF HasInject
    <3> QED BY <2>1, <3>1, <3>3, <3>4, <3>5, Zenon DEF InjectSeen
  <2>3. CASE /\ \/ pc' = [pc EXCEPT ![t] = "serve"] /\ UNCHANGED event
                \/ ~IsTerminate(event[t]) /\ event'= [event EXCEPT ![t] = None]
             /\ UNCHANGED events
    <3>1. \A u \in Thread : Ending(u, q) => Ending(u, q)'
      BY <1>8, <2>1, <2>3, Zenon DEF Examine, Goto, Ending, IsTerminate, TypeOK, MainTypes
    <3> QED BY <2>1, <2>3, <3>1, Zenon DEF InjectSeen, HasInject
  <2>4. pc'[t] # "abort"
    BY <1>8, Zenon DEF NoAbort
  <2> QED BY <1>8, <2>2, <2>3, <2>4, Zenon DEF Examine, Goto, TypeOK, MainTypes
<1>9. CASE Cleanup(t)
  <2>1. /\ UNCHANGED <<events, proc, event>> /\ proc[t] \in Process
        /\ \A u \in Thread : u # t => pc'[u] = pc[u]
    BY <1>9, Zenon DEF Cleanup, Goto, TypeOK, MainTypes, PlacesOK
  <2>2. \A u \in Thread : u # t /\ Ending(u, q) => Ending(u, q)'
    BY <2>1, Zenon DEF Ending
  <2>3. state[q] = "TERMINATING" => state'[q] = "TERMINATING"
    BY <1>9 DEF Cleanup, TypeOK, ProcTypes
  <2>4. Ending(t, q) => state'[q] = "TERMINATING"
    <3>1. pc'[t] # "abort"
      BY <1>9, Zenon DEF NoAbort
    <3>2. state' = [state EXCEPT ![proc[t]] = "TERMINATING"]
      BY <1>9, <3>1, Zenon DEF Cleanup, Goto, TypeOK, MainTypes
    <3> QED BY <3>2, Zenon DEF Ending, TypeOK, ProcTypes
  <2> QED BY <2>1, <2>2, <2>3, <2>4, Zenon DEF InjectSeen, HasInject
<1>10. CASE Decomission(t)
  BY <1>10, Zenon DEF Decomission, Goto, queueVars, mapVars, sendVars, TypeOK, MainTypes,
         InjectSeen, Ending, HasInject, ProcTypes, PlacesOK, TokenState,
         OwnPc, CleanPc
<1>11. ASSUME NEW i \in Ids, NEW p \in Process, NEW e \in Kind, Deliver(t, i, p, e)
      PROVE  InjectSeen(q)'
  BY <1>11, Zenon DEF Deliver, SendGoto, CanCall, Use, procVars, queueVars, mapVars,
         mainVars, TypeOK, MainTypes, InjectSeen, Ending, HasInject
<1>12. ASSUME NEW p \in Process, Spawn(t, p)
      PROVE  InjectSeen(q)'
  BY <1>12, Zenon DEF Spawn, SendGoto, CanCall, queueVars, mainVars, TypeOK, MainTypes,
         InjectSeen, Ending, HasInject
<1>13. ASSUME NEW i \in Ids, NEW p \in Process, WaitUse(t, i, p)
      PROVE  InjectSeen(q)'
  BY <1>13, Zenon DEF WaitUse, Goto, Use, procVars, queueVars, mapVars, sendVars, TypeOK,
         MainTypes, InjectSeen, Ending, HasInject
<1> QED
  BY <1>1, <1>2, <1>3, <1>4, <1>5, <1>6, <1>7, <1>8, <1>9, <1>10,
     <1>11, <1>12, <1>13, Zenon
     DEF ThreadStep, SendStep, ResumeStep, CleanupStep, WaitStep, Call

\* The termination flag stays behind the terminate event: only StoreTermination
\* sets it, and the sender is there only after its event is in the queue.
LEMMA FlagStep ==
  ASSUME TypeOK, PlacesOK, TokenState, NoAbort', FlagAfterEvent,
         NEW t \in Thread, ThreadStep(t) \/ Call(t)
  PROVE  FlagAfterEvent'
<1>1. \A q \in Process : InjectSeen(q) => InjectSeen(q)'
  BY SeenStep, Zenon
<1>2. CASE StoreTermination(t)
  <2>1. dst[t] \in Process /\ InjectSeen(dst[t])
    BY <1>2, Zenon DEF StoreTermination, PlacesOK, FlagAfterEvent
  <2>2. \A p \in Process : termination'[p] => termination[p] \/ p = dst[t]
    BY <1>2, Zenon DEF StoreTermination, TypeOK, ProcTypes
  <2>3. \A u \in Thread : dpc'[u] = "flag" => dpc[u] = "flag" /\ dst'[u] = dst[u]
    BY <1>2, Zenon DEF StoreTermination, SendGoto, TypeOK, SendTypes
  <2> QED BY <1>1, <2>1, <2>2, <2>3, Zenon DEF FlagAfterEvent, PlacesOK
<1>3. CASE PushEvent(t)
  <2>1. PICK p \in Process : p = dst[t]
    BY <1>3, Zenon DEF PushEvent, PlacesOK
  <2>2. /\ devent[t] \in Kind /\ events \in [Process -> Seq(Kind)]
        /\ UNCHANGED termination
    BY <1>3, Zenon DEF PushEvent, PlacesOK, TypeOK, ProcTypes
  <2>3. \A u \in Thread : dpc'[u] = "flag" =>
          /\ dst'[u] = dst[u]
          /\ dpc[u] = "flag" \/ (dst[u] = p /\ HasInject(p)')
    <3>1. ASSUME dpc'[t] = "flag"
          PROVE  devent[t] = "inject" /\ events'[p] = Append(events[p], devent[t])
      BY <1>3, <2>1, <2>2, <3>1, Zenon DEF PushEvent, SendGoto, SendReturn, TypeOK, SendTypes
    <3>2. ASSUME dpc'[t] = "flag" PROVE HasInject(p)'
      <4>1. PICK s : s = events[p]
        OBVIOUS
      <4>2. s \in Seq(Kind) /\ "inject" \in Kind
        BY <2>2, <3>1, <3>2, <4>1
      <4>3. /\ Len(s) + 1 \in 1..Len(Append(s, "inject"))
            /\ Append(s, "inject")[Len(s) + 1] = "inject"
        BY <4>2, AppendFacts
      <4>4. events'[p] = Append(s, "inject")
        BY <3>1, <3>2, <4>1, Zenon
      <4> QED BY <4>3, <4>4, Zenon DEF HasInject
    <3> QED BY <1>3, <2>1, <3>2, Zenon
            DEF PushEvent, SendGoto, SendReturn, TypeOK, SendTypes
  <2> QED BY <1>1, <2>1, <2>2, <2>3, Zenon DEF FlagAfterEvent, InjectSeen, PlacesOK
<1>4. CASE UNCHANGED termination /\
           \A u \in Thread : dpc'[u] = "flag" => dpc[u] = "flag" /\ dst'[u] = dst[u]
  BY <1>1, <1>4, Zenon DEF FlagAfterEvent, PlacesOK
<1>5. ASSUME ~StoreTermination(t), ~PushEvent(t)
      PROVE  UNCHANGED termination /\
             \A u \in Thread : dpc'[u] = "flag" => dpc[u] = "flag" /\ dst'[u] = dst[u]
  <2>1. CASE LoadState(t) \/ WakeIfBlocked(t) \/ RunqPush(t) \/ RunqSignal(t)
    BY <2>1, Zenon DEF LoadState, WakeIfBlocked, RunqPush, RunqSignal, SendGoto,
           SendReturn, procVars, TypeOK, SendTypes
  <2>2. CASE ResumeStep(t) \/ CleanupStep(t) \/ WaitStep(t) \/ RunqWait(t)
             \/ RunqDequeue(t)
    BY <2>2, Zenon DEF ResumeStep, Resume, Initialized, DequeueEvent, Block, Recheck,
           Unblock, Examine, Served, ReleaseReference, CleanupStep, Cleanup,
           Decomission, ResetReference, EraseProcess, OpenGate, DeleteManaged,
           WaitStep, Inspect, Extract, GateWait, RunqWait, RunqDequeue,
           procVars, sendVars
  <2>3. CASE Call(t)
    BY <2>3, Zenon DEF Call, Deliver, Spawn, WaitUse, SendGoto, procVars, sendVars,
           TypeOK, SendTypes
  <2> QED BY <1>5, <2>1, <2>2, <2>3, Zenon DEF ThreadStep, SendStep
<1> QED BY <1>2, <1>3, <1>4, <1>5, Zenon

-----------------------------------------------------------------------------
(* The mutex, the reference and the queue.                                 *)

\* processes_mutex is held exactly by the thread in the last part of cleanup.
LEMMA MutexStep ==
  ASSUME TypeOK, MutexOK,
         NEW t \in Thread, ThreadStep(t) \/ Call(t)
  PROVE  MutexOK'
<1> USE ConstantsAssumption
<1>1. CASE \/ LoadState(t) \/ PushEvent(t) \/ StoreTermination(t)
         \/ WakeIfBlocked(t) \/ RunqPush(t) \/ RunqSignal(t)
         \/ RunqWait(t) \/ RunqDequeue(t) \/ Resume(t)
         \/ Initialized(t) \/ DequeueEvent(t) \/ Block(t)
         \/ Recheck(t) \/ Unblock(t) \/ Examine(t) \/ Served(t)
         \/ ReleaseReference(t) \/ Cleanup(t) \/ Decomission(t)
         \/ EraseProcess(t) \/ DeleteManaged(t) \/ Inspect(t)
         \/ Extract(t) \/ GateWait(t)
  <2>1. /\ UNCHANGED mutex
        /\ \A u \in Thread : pc'[u] \in {"spin", "open"} <=> pc[u] \in {"spin", "open"}
    <3>1. CASE \/ LoadState(t) \/ PushEvent(t) \/ StoreTermination(t)
               \/ WakeIfBlocked(t) \/ RunqPush(t) \/ RunqSignal(t)
      BY <3>1 DEF LoadState, PushEvent, StoreTermination, WakeIfBlocked, RunqPush,
             RunqSignal, mapVars, mainVars
    <3>2. CASE \/ RunqWait(t) \/ RunqDequeue(t) \/ Resume(t) \/ Initialized(t)
               \/ DequeueEvent(t) \/ Block(t) \/ Recheck(t) \/ Unblock(t)
               \/ Examine(t)
      BY <3>2 DEF RunqWait, RunqDequeue, Resume, Initialized, DequeueEvent, Block,
             Recheck, Unblock, Examine, mapVars, Goto, TypeOK, MainTypes
    <3>3. CASE \/ Served(t) \/ ReleaseReference(t) \/ Cleanup(t) \/ Decomission(t)
               \/ EraseProcess(t) \/ DeleteManaged(t) \/ Inspect(t)
               \/ Extract(t) \/ GateWait(t)
      BY <3>3 DEF Served, ReleaseReference, Cleanup, Decomission, EraseProcess,
             DeleteManaged, Inspect, Extract, GateWait, mapVars, Goto, Return,
             TypeOK, MainTypes
    <3> QED BY <1>1, <3>1, <3>2, <3>3, Zenon
  <2> QED BY <2>1, Zenon DEF MutexOK
<1>2. CASE ResetReference(t)
  BY <1>2, Zenon DEF ResetReference, Goto, queueVars, sendVars, TypeOK, MainTypes,
         MutexOK
<1>3. CASE OpenGate(t)
  BY <1>3 DEF OpenGate, Goto, Return, queueVars, sendVars, TypeOK, MainTypes,
         MutexOK
<1>4. ASSUME NEW i \in Ids, NEW p \in Process, NEW e \in Kind, Deliver(t, i, p, e)
      PROVE  MutexOK'
  BY <1>4, Zenon DEF Deliver, SendGoto, CanCall, Use, procVars, queueVars, mapVars,
         mainVars, TypeOK, MainTypes, MutexOK
<1>5. ASSUME NEW p \in Process, Spawn(t, p)
      PROVE  MutexOK'
  BY <1>5, Zenon DEF Spawn, SendGoto, CanCall, queueVars, mainVars, TypeOK, MainTypes,
         MutexOK
<1>6. ASSUME NEW i \in Ids, NEW p \in Process, WaitUse(t, i, p)
      PROVE  MutexOK'
  BY <1>6, Zenon DEF WaitUse, Goto, Use, procVars, queueVars, mapVars, sendVars, TypeOK,
         MainTypes, MutexOK
<1> QED
  BY <1>1, <1>2, <1>3, <1>4, <1>5, <1>6, Zenon
     DEF ThreadStep, SendStep, ResumeStep, CleanupStep, WaitStep, Call

\* The shared reference is reset by the cleanup of the process and only there.
LEMMA ReferenceStep ==
  ASSUME TypeOK, PlacesOK, TokenState, OneToken, ReferenceOK,
         NEW t \in Thread, ThreadStep(t) \/ Call(t)
  PROVE  ReferenceOK'
<1> USE ConstantsAssumption
<1>1. CASE \/ LoadState(t) \/ PushEvent(t) \/ StoreTermination(t)
         \/ RunqPush(t) \/ RunqSignal(t) \/ RunqWait(t)
         \/ RunqDequeue(t) \/ Resume(t) \/ DequeueEvent(t)
         \/ Recheck(t) \/ Examine(t) \/ Served(t)
         \/ ReleaseReference(t) \/ Decomission(t) \/ EraseProcess(t)
         \/ OpenGate(t) \/ DeleteManaged(t) \/ Inspect(t)
         \/ Extract(t) \/ GateWait(t)
  <2>1. /\ UNCHANGED <<state, reference>>
        /\ \A u \in Thread :
             /\ pc'[u] \in {"decomission", "lock"} =>
                  pc[u] \in {"decomission", "lock"} /\ proc'[u] = proc[u]
             /\ pc'[u] \in {"spin", "open", "delete"} =>
                  pc[u] \in {"spin", "open"} \cup {"delete"} /\ proc'[u] = proc[u]
    <3>1. CASE \/ LoadState(t) \/ PushEvent(t) \/ StoreTermination(t)
               \/ RunqPush(t) \/ RunqSignal(t)
      BY <3>1 DEF LoadState, PushEvent, StoreTermination, RunqPush, RunqSignal,
             procVars, mainVars
    <3>2. CASE \/ RunqWait(t) \/ RunqDequeue(t) \/ Resume(t) \/ DequeueEvent(t)
               \/ Recheck(t) \/ Examine(t) \/ Served(t)
      BY <3>2 DEF RunqWait, RunqDequeue, Resume, DequeueEvent, Recheck, Examine,
             Served, procVars, Goto, TypeOK, MainTypes
    <3>3. CASE \/ ReleaseReference(t) \/ Decomission(t) \/ EraseProcess(t)
               \/ OpenGate(t) \/ DeleteManaged(t) \/ Inspect(t)
               \/ Extract(t) \/ GateWait(t)
      BY <3>3 DEF ReleaseReference, Decomission, EraseProcess, OpenGate,
             DeleteManaged, Inspect, Extract, GateWait, procVars, Goto, Return,
             TypeOK, MainTypes
    <3> QED BY <1>1, <3>1, <3>2, <3>3, Zenon
  <2> QED BY <2>1, ZenonT(30) DEF ReferenceOK
<1>2. CASE WakeIfBlocked(t)
  <2>1. UNCHANGED <<reference, pc, proc>>
    BY <1>2, Zenon DEF WakeIfBlocked, mainVars
  <2>2. \A p \in Process : state[p] = "TERMINATING" => state'[p] = state[p]
    BY <1>2, Zenon DEF WakeIfBlocked, TypeOK, ProcTypes
  <2> QED BY <2>1, <2>2, Zenon DEF ReferenceOK
<1>3. CASE Initialized(t)
  <2>1. PICK p \in Process : p = proc[t] /\ state[p] = "BOTTOM"
    BY <1>3, Zenon DEF Initialized, PlacesOK, TokenState, OwnPc
  <2>2. /\ UNCHANGED <<reference, proc>> /\ pc' = [pc EXCEPT ![t] = "loop"]
        /\ state' = [state EXCEPT ![p] = "READY"]
    BY <1>3, <2>1, Zenon DEF Initialized, Goto
  <2> QED BY <2>1, <2>2, Zenon DEF ReferenceOK, TypeOK, MainTypes, ProcTypes
<1>4. CASE Block(t)
  <2>1. PICK p \in Process : p = proc[t] /\ Running(t, p)
    BY <1>4, Zenon DEF Block, PlacesOK, Running, OwnPc, CleanPc
  <2>2. \A u \in Thread : Running(u, p) => u = t
    BY <2>1, OnlyRunner, Zenon
  <2>3. /\ UNCHANGED <<reference, proc>> /\ pc' = [pc EXCEPT ![t] = "recheck"]
        /\ state' = [state EXCEPT ![p] = "BLOCKED"] /\ state[p] = "READY"
    BY <1>4, <2>1, Zenon DEF Block, Goto, TokenState, OwnPc
  <2> QED BY <2>1, <2>3, Zenon DEF ReferenceOK, TypeOK, MainTypes, ProcTypes
<1>5. CASE Unblock(t)
  <2>1. UNCHANGED <<reference, proc>>
    BY <1>5, Zenon DEF Unblock
  <2>2. \A p \in Process : state[p] = "TERMINATING" => state'[p] = state[p]
    BY <1>5, Zenon DEF Unblock, TypeOK, ProcTypes
  <2>3. \A u \in Thread : u = t \/ pc'[u] = pc[u]
    BY <1>5, Zenon DEF Unblock, Goto, Return, TypeOK, MainTypes
  <2>4. pc'[t] \notin {"decomission", "lock", "spin", "open", "delete"}
    BY <1>5, Zenon DEF Unblock, Goto, Return, TypeOK, MainTypes
  <2> QED BY <2>1, <2>2, <2>3, <2>4, Zenon DEF ReferenceOK
<1>6. CASE Cleanup(t)
  <2>1. PICK p \in Process : p = proc[t] /\ Running(t, p)
    BY <1>6, Zenon DEF Cleanup, PlacesOK, Running, OwnPc, CleanPc
  <2>2. \A u \in Thread : Running(u, p) => u = t
    BY <2>1, OnlyRunner, Zenon
  <2>3. /\ UNCHANGED <<reference, proc>> /\ pc' = [pc EXCEPT ![t] = "decomission"]
        /\ state' = [state EXCEPT ![p] = "TERMINATING"] /\ state[p] = "READY"
    BY <1>6, <2>1, Zenon DEF Cleanup, Goto, TokenState, OwnPc
  <2> QED BY <2>1, <2>3, Zenon DEF ReferenceOK, TypeOK, MainTypes, ProcTypes
<1>7. CASE ResetReference(t)
  <2>1. PICK p \in Process : p = proc[t] /\ Running(t, p)
    BY <1>7, Zenon DEF ResetReference, PlacesOK, Running, OwnPc, CleanPc
  <2>2. \A u \in Thread : Running(u, p) => u = t
    BY <2>1, OnlyRunner, Zenon
  <2>3. /\ UNCHANGED <<state, proc>> /\ pc' = [pc EXCEPT ![t] = "spin"]
        /\ reference' = [reference EXCEPT ![p] = FALSE]
        /\ state[p] = "TERMINATING"
    BY <1>7, <2>1, Zenon DEF ResetReference, Goto, TokenState, CleanPc
  <2>4. \A u \in Thread : u # t /\ pc[u] \in {"decomission", "lock"} => proc[u] # p
    BY <2>2, Zenon DEF Running, CleanPc
  <2> QED BY <2>1, <2>3, <2>4 DEF ReferenceOK, TypeOK, MainTypes, ProcTypes, PlacesOK
<1>8. ASSUME NEW i \in Ids, NEW p \in Process, NEW e \in Kind, Deliver(t, i, p, e)
      PROVE  ReferenceOK'
  BY <1>8, Zenon DEF Deliver, SendGoto, CanCall, Use, procVars, queueVars, mapVars,
         mainVars, TypeOK, MainTypes, ProcTypes, PlacesOK, ReferenceOK
<1>9. ASSUME NEW p \in Process, Spawn(t, p)
      PROVE  ReferenceOK'
  BY <1>9, Zenon DEF Spawn, SendGoto, CanCall, queueVars, mainVars, TypeOK, MainTypes,
         ProcTypes, PlacesOK, ReferenceOK
<1>10. ASSUME NEW i \in Ids, NEW p \in Process, WaitUse(t, i, p)
      PROVE  ReferenceOK'
  BY <1>10, Zenon DEF WaitUse, Goto, Use, procVars, queueVars, mapVars, sendVars, TypeOK,
         MainTypes, ProcTypes, PlacesOK, ReferenceOK
<1> QED
  BY <1>1, <1>2, <1>3, <1>4, <1>5, <1>6, <1>7, <1>8, <1>9, <1>10, Zenon
     DEF ThreadStep, SendStep, ResumeStep, CleanupStep, WaitStep, Call

\* With the locking queue, nothing is enqueued after decomission.
LEMMA ClosedStep ==
  ASSUME TypeOK, PlacesOK, TokenState, OneToken, ReferenceOK,
         ~LockFreeEvents, ClosedOK,
         NEW t \in Thread, ThreadStep(t) \/ Call(t)
  PROVE  ClosedOK'
<1> USE ConstantsAssumption
<1>1. CASE \/ LoadState(t) \/ StoreTermination(t) \/ WakeIfBlocked(t)
         \/ RunqPush(t) \/ RunqSignal(t) \/ RunqWait(t)
         \/ RunqDequeue(t) \/ Resume(t) \/ Initialized(t) \/ Block(t)
         \/ Recheck(t) \/ Unblock(t) \/ Served(t)
         \/ ReleaseReference(t) \/ Cleanup(t) \/ DeleteManaged(t)
         \/ Inspect(t) \/ Extract(t) \/ GateWait(t)
  <2>1. /\ UNCHANGED <<events, comissioned, gate>>
        /\ \A u \in Thread : pc'[u] \in {"lock", "spin", "open", "delete"} =>
             pc[u] \in {"lock", "spin", "open", "delete"} /\ proc'[u] = proc[u]
    BY <1>1 DEF LoadState, StoreTermination, WakeIfBlocked, RunqPush,
           RunqSignal, RunqWait, RunqDequeue, Resume, Initialized, Block,
           Recheck, Unblock, Served, ReleaseReference, Cleanup, DeleteManaged,
           Inspect, Extract, GateWait, SendGoto, SendReturn, procVars,
           queueVars, mapVars, mainVars, Goto, sendVars, Return, TypeOK,
           MainTypes
  <2> QED BY <2>1, ZenonT(30) DEF ClosedOK
<1>2. CASE PushEvent(t)
  <2>1. UNCHANGED <<comissioned, gate, pc, proc>>
    BY <1>2, Zenon DEF PushEvent, mainVars
  <2>2. \A p \in Process : ~comissioned[p] => events'[p] = events[p]
    BY <1>2, Zenon DEF PushEvent, TypeOK, ProcTypes
  <2> QED BY <2>1, <2>2, Zenon DEF ClosedOK
<1>3. CASE DequeueEvent(t)
  <2>1. UNCHANGED <<comissioned, gate, proc>>
    BY <1>3, Zenon DEF DequeueEvent
  <2>2. \A u \in Thread : pc'[u] \in {"lock", "spin", "open", "delete"} =>
          pc[u] \in {"lock", "spin", "open", "delete"}
    BY <1>3, Zenon DEF DequeueEvent, Goto, TypeOK, MainTypes
  <2>3. \A p \in Process : events[p] = <<>> => events'[p] = <<>>
    BY <1>3, Zenon DEF DequeueEvent, TypeOK, ProcTypes
  <2> QED BY <2>1, <2>2, <2>3, Zenon DEF ClosedOK
<1>4. CASE Examine(t)
  <2>1. /\ UNCHANGED <<comissioned, gate, proc>>
        /\ proc[t] \in Process /\ event[t] \in Kind
        /\ events \in [Process -> Seq(Kind)]
    BY <1>4, Zenon DEF Examine, PlacesOK, TypeOK, ProcTypes
  <2>2. \A u \in Thread : pc'[u] \in {"lock", "spin", "open", "delete"} =>
          pc[u] \in {"lock", "spin", "open", "delete"}
    <3>1. \E to \in {"serve", "loop", "abort"} : pc' = [pc EXCEPT ![t] = to]
      BY <1>4, Zenon DEF Examine, Goto
    <3> QED BY <3>1, Zenon DEF TypeOK, MainTypes
  <2>3. \A q \in Process : q # proc[t] => events'[q] = events[q]
    BY <1>4, <2>1, Zenon DEF Examine
  <2>4. ASSUME events[proc[t]] = <<>> PROVE events'[proc[t]] = <<>>
    <3>1. <<event[t]>> \o events[proc[t]] = <<event[t]>> /\ Len(<<event[t]>>) = 1
      BY <2>1, <2>4, SMTT(30)
    <3>2. \A k \in 1..1 : SubSeq(<<event[t]>>, k + 1, 1) = <<>>
      BY <2>1
    <3>3. \/ UNCHANGED events
          \/ \E k \in 1..1 : events' =
               [events EXCEPT ![proc[t]] = SubSeq(<<event[t]>>, k + 1, 1)]
      BY <1>4, <3>1, Zenon DEF Examine
    <3>4. UNCHANGED events \/ events' = [events EXCEPT ![proc[t]] = <<>>]
      BY <3>2, <3>3, Zenon
    <3> QED BY <2>1, <2>4, <3>4, Zenon
  <2> QED BY <2>1, <2>2, <2>3, <2>4, Zenon DEF ClosedOK
<1>5. CASE Decomission(t)
  BY <1>5, Zenon DEF Decomission, Goto, queueVars, mapVars, sendVars, TypeOK, MainTypes,
         ProcTypes, PlacesOK, ClosedOK
<1>6. CASE ResetReference(t)
  BY <1>6, Zenon DEF ResetReference, Goto, queueVars, sendVars, TypeOK, MainTypes,
         ProcTypes, PlacesOK, ClosedOK
<1>7. CASE EraseProcess(t)
  BY <1>7, Zenon DEF EraseProcess, Goto, procVars, queueVars, sendVars, TypeOK,
         MainTypes, ProcTypes, PlacesOK, ClosedOK
<1>8. CASE OpenGate(t)
  <2>1. /\ UNCHANGED <<events, comissioned>> /\ ~comissioned[proc[t]]
        /\ gate' = [gate EXCEPT ![proc[t]] = TRUE]
    BY <1>8, Zenon DEF OpenGate, ClosedOK
  <2>2. \A u \in Thread : pc'[u] \in {"lock", "spin", "open", "delete"} =>
          pc[u] \in {"lock", "spin", "open", "delete"} /\ proc'[u] = proc[u]
    BY <1>8, Zenon DEF OpenGate, Goto, Return, TypeOK, MainTypes
  <2>3. \A p \in Process : gate'[p] => ~comissioned[p]
    BY <2>1, Zenon DEF TypeOK, ProcTypes, ClosedOK
  <2> QED BY <2>1, <2>2, <2>3, Zenon DEF ClosedOK
<1>9. ASSUME NEW i \in Ids, NEW p \in Process, NEW e \in Kind, Deliver(t, i, p, e)
      PROVE  ClosedOK'
  BY <1>9, Zenon DEF Deliver, SendGoto, CanCall, Use, procVars, queueVars, mapVars,
         mainVars, TypeOK, MainTypes, ProcTypes, PlacesOK, ClosedOK
<1>10. ASSUME NEW p \in Process, Spawn(t, p)
      PROVE  ClosedOK'
  BY <1>10, Zenon DEF Spawn, SendGoto, CanCall, queueVars, mainVars, TypeOK, MainTypes,
         ProcTypes, PlacesOK, ClosedOK
<1>11. ASSUME NEW i \in Ids, NEW p \in Process, WaitUse(t, i, p)
      PROVE  ClosedOK'
  BY <1>11, Zenon DEF WaitUse, Goto, Use, procVars, queueVars, mapVars, sendVars, TypeOK,
         MainTypes, ProcTypes, PlacesOK, ClosedOK
<1> QED
  BY <1>1, <1>2, <1>3, <1>4, <1>5, <1>6, <1>7, <1>8, <1>9, <1>10, <1>11, Zenon
     DEF ThreadStep, SendStep, ResumeStep, CleanupStep, WaitStep, Call

-----------------------------------------------------------------------------
(* References, the map and deletion.                                       *)

\* Once cleanup has drained the references of a process nobody gets another,
\* and until then the process is the one its name maps to.
LEMMA ErasedStep ==
  ASSUME TypeOK, PlacesOK, TokenState, OneToken, SpawnedFirst,
         MutexOK, ReferenceOK, ErasedOK,
         NEW t \in Thread, ThreadStep(t) \/ Call(t)
  PROVE  ErasedOK'
<1> USE ConstantsAssumption
<1>1. CASE \/ LoadState(t) \/ PushEvent(t) \/ StoreTermination(t)
         \/ RunqPush(t) \/ RunqSignal(t)
  <2>1. /\ UNCHANGED <<state, reference, gate, spawned, processes, pc, proc>>
        /\ \A p \in Process, u \in Thread : SendHolds(u, p)' => SendHolds(u, p)
    <3>1. CASE LoadState(t) \/ StoreTermination(t)
      BY <3>1 DEF LoadState, StoreTermination, SendGoto, SendReturn, procVars,
             queueVars, mapVars, mainVars, SendHolds, TypeOK, SendTypes
    <3>2. CASE PushEvent(t)
      BY <3>2 DEF PushEvent, SendGoto, SendReturn, procVars, queueVars, mapVars,
             mainVars, SendHolds, TypeOK, SendTypes
    <3>3. CASE RunqPush(t) \/ RunqSignal(t)
      BY <3>3 DEF RunqPush, RunqSignal, SendGoto, SendReturn, procVars, queueVars,
             mapVars, mainVars, SendHolds, TypeOK, SendTypes
    <3> QED BY <1>1, <3>1, <3>2, <3>3, Zenon
  <2> QED BY <2>1, Zenon DEF ErasedOK, Erased, Referenced, MainHolds
<1>2. CASE \/ RunqWait(t) \/ RunqDequeue(t) \/ DequeueEvent(t)
         \/ Recheck(t) \/ Examine(t) \/ Served(t)
         \/ ReleaseReference(t) \/ Decomission(t) \/ DeleteManaged(t)
         \/ Inspect(t) \/ Extract(t) \/ GateWait(t)
  <2>1. UNCHANGED <<state, reference, gate, spawned, processes, dpc, dst>>
    BY <1>2, Zenon DEF RunqWait, RunqDequeue, DequeueEvent, Recheck, Examine, Served,
           ReleaseReference, Decomission, DeleteManaged, Inspect, Extract,
           GateWait, procVars, mapVars, sendVars
  <2>2. \A u \in Thread : u # t => pc'[u] = pc[u] /\ proc'[u] = proc[u]
    BY <1>2, Zenon DEF RunqWait, RunqDequeue, DequeueEvent, Recheck, Examine, Served,
           ReleaseReference, Decomission, DeleteManaged, Inspect, Extract,
           GateWait, Goto, Return, TypeOK, MainTypes
  <2>3. /\ pc[t] # "open" /\ pc'[t] \notin {"decomission", "spin", "open"}
        /\ pc'[t] = "lock" => pc[t] = "decomission" /\ proc'[t] = proc[t]
    BY <1>2 DEF RunqWait, RunqDequeue, DequeueEvent, Recheck, Examine, Served,
           ReleaseReference, Decomission, DeleteManaged, Inspect, Extract,
           GateWait, Goto, Return, TypeOK, MainTypes
  <2>4. \A p \in Process : MainHolds(t, p)' => MainHolds(t, p)
    <3>1. CASE RunqWait(t)
      BY <3>1, Zenon DEF RunqWait, Goto, Return, MainHolds, TypeOK, MainTypes
    <3>2. CASE RunqDequeue(t)
      BY <3>2, Zenon DEF RunqDequeue, Goto, Return, MainHolds, TypeOK, MainTypes
    <3>3. CASE DequeueEvent(t)
      BY <3>3, Zenon DEF DequeueEvent, Goto, Return, MainHolds, TypeOK, MainTypes
    <3>4. CASE Recheck(t)
      BY <3>4, Zenon DEF Recheck, Goto, Return, MainHolds, TypeOK, MainTypes
    <3>5. CASE Examine(t)
      BY <3>5, Zenon DEF Examine, Goto, Return, MainHolds, TypeOK, MainTypes
    <3>6. CASE Served(t)
      BY <3>6, Zenon DEF Served, Goto, Return, MainHolds, TypeOK, MainTypes
    <3>7. CASE ReleaseReference(t)
      BY <3>7, Zenon DEF ReleaseReference, Goto, Return, MainHolds, TypeOK, MainTypes
    <3>8. CASE Decomission(t)
      BY <3>8, Zenon DEF Decomission, Goto, Return, MainHolds, TypeOK, MainTypes
    <3>9. CASE DeleteManaged(t)
      BY <3>9, Zenon DEF DeleteManaged, Goto, Return, MainHolds, TypeOK, MainTypes
    <3>10. CASE Inspect(t)
      BY <3>10, Zenon DEF Inspect, Goto, Return, MainHolds, TypeOK, MainTypes
    <3>11. CASE Extract(t)
      BY <3>11, Zenon DEF Extract, Goto, Return, MainHolds, TypeOK, MainTypes
    <3>12. CASE GateWait(t)
      BY <3>12, Zenon DEF GateWait, Goto, Return, MainHolds, TypeOK, MainTypes
    <3> QED BY <1>2, <3>1, <3>2, <3>3, <3>4, <3>5, <3>6, <3>7, <3>8,
             <3>9, <3>10, <3>11, <3>12, Zenon
  <2>5. \A p \in Process : Referenced(p)' => Referenced(p)
    BY <2>1, <2>2, <2>4 DEF Referenced, SendHolds, MainHolds
  <2>6. \A p \in Process : Erased(p)' <=> Erased(p)
    BY <2>1, <2>2, <2>3, Zenon DEF Erased
  <2>7. \A u \in Thread : pc'[u] \in {"decomission", "lock", "spin", "open"} =>
          /\ pc[u] \in {"decomission", "lock", "spin", "open"}
          /\ proc'[u] = proc[u]
    BY <2>2, <2>3, Zenon
  <2> QED BY <2>1, <2>5, <2>6, <2>7, Zenon DEF ErasedOK
<1>3. CASE WakeIfBlocked(t)
  <2>1. UNCHANGED <<reference, gate, spawned, processes, pc, proc>>
    BY <1>3, Zenon DEF WakeIfBlocked, mapVars, mainVars
  <2>2. \A p \in Process : state[p] = "TERMINATING" => state'[p] = state[p]
    BY <1>3, Zenon DEF WakeIfBlocked, TypeOK, ProcTypes
  <2>3. \A p \in Process : Referenced(p)' => Referenced(p)
    BY <1>3, <2>1 DEF WakeIfBlocked, SendGoto, SendReturn, Referenced, MainHolds,
           SendHolds, TypeOK, SendTypes
  <2> QED BY <2>1, <2>2, <2>3, Zenon DEF ErasedOK, Erased
<1>4. CASE Resume(t)
  BY <1>4 DEF Resume, Goto, procVars, queueVars, mapVars, sendVars, TypeOK,
         MainTypes, ErasedOK, Erased, Referenced, MainHolds, SendHolds,
         TokenState, OwnPc, CleanPc
<1>5. CASE Initialized(t)
  <2>1. PICK p \in Process : p = proc[t] /\ state[p] = "BOTTOM"
    BY <1>5, Zenon DEF Initialized, PlacesOK, TokenState, OwnPc
  <2>2. /\ UNCHANGED <<reference, gate, spawned, processes, proc, dpc, dst>>
        /\ pc' = [pc EXCEPT ![t] = "loop"] /\ pc[t] = "init"
        /\ state' = [state EXCEPT ![p] = "READY"]
    BY <1>5, <2>1, Zenon DEF Initialized, Goto, mapVars, sendVars
  <2>3. \A q \in Process : Erased(q)' <=> Erased(q)
    BY <2>2, Zenon DEF Erased, TypeOK, MainTypes
  <2>4. \A q \in Process : q # p /\ Referenced(q)' => Referenced(q)
    BY <2>1, <2>2, Zenon DEF Referenced, MainHolds, SendHolds, TypeOK, MainTypes
  <2>5. ~Erased(p)
    BY <2>1, Zenon DEF ErasedOK
  <2>6. \A u \in Thread : pc'[u] \in {"decomission", "lock", "spin", "open"} =>
                             pc[u] \in {"decomission", "lock", "spin", "open"}
    BY <2>2, Zenon DEF TypeOK, MainTypes
  <2> QED BY <2>2, <2>3, <2>4, <2>5, <2>6 DEF ErasedOK, TypeOK, ProcTypes
<1>6. CASE Block(t)
  <2>1. PICK p \in Process : p = proc[t] /\ state[p] = "READY"
    BY <1>6 DEF Block, PlacesOK, TokenState, OwnPc
  <2>2. /\ UNCHANGED <<reference, gate, spawned, processes, proc, dpc, dst>>
        /\ pc' = [pc EXCEPT ![t] = "recheck"] /\ pc[t] = "block"
        /\ state' = [state EXCEPT ![p] = "BLOCKED"]
    BY <1>6, <2>1, Zenon DEF Block, Goto, mapVars, sendVars
  <2>3. \A q \in Process : Erased(q)' <=> Erased(q)
    BY <2>2, Zenon DEF Erased, TypeOK, MainTypes
  <2>4. \A q \in Process : q # p /\ Referenced(q)' => Referenced(q)
    BY <2>1, <2>2, Zenon DEF Referenced, MainHolds, SendHolds, TypeOK, MainTypes
  <2>5. ~Erased(p)
    BY <2>1, Zenon DEF ErasedOK
  <2>6. \A u \in Thread : pc'[u] \in {"decomission", "lock", "spin", "open"} =>
          pc[u] \in {"decomission", "lock", "spin", "open"}
    BY <2>2, Zenon DEF TypeOK, MainTypes
  <2> QED BY <2>2, <2>3, <2>4, <2>5, <2>6 DEF ErasedOK, TypeOK, ProcTypes
<1>7. CASE Unblock(t)
  <2>1. UNCHANGED <<reference, gate, spawned, processes, proc, dpc, dst>>
    BY <1>7, Zenon DEF Unblock, mapVars, sendVars
  <2>2. \A p \in Process : state[p] = "TERMINATING" => state'[p] = state[p]
    BY <1>7, Zenon DEF Unblock, TypeOK, ProcTypes
  <2>3. \A u \in Thread : u # t => pc'[u] = pc[u]
    BY <1>7, Zenon DEF Unblock, Goto, TypeOK, MainTypes
  <2>4. pc[t] = "unblock" /\ pc'[t] \in {"loop", "release", "idle", "wait", "dequeue"}
    BY <1>7, Zenon DEF Unblock, Goto, TypeOK, MainTypes
  <2>5. \A q \in Process : Erased(q)' <=> Erased(q)
    BY <2>1, <2>3, <2>4, Zenon DEF Erased
  <2>6. \A q \in Process : Referenced(q)' => Referenced(q)
    BY <1>7, <2>1, Zenon DEF Unblock, Goto, Referenced, MainHolds, SendHolds, TypeOK,
           MainTypes
  <2> QED BY <2>1, <2>2, <2>3, <2>4, <2>5, <2>6, Zenon DEF ErasedOK
<1>8. CASE Cleanup(t)
  <2>1. PICK p \in Process : p = proc[t] /\ state[p] = "READY"
    BY <1>8, Zenon DEF Cleanup, PlacesOK, TokenState, OwnPc
  <2>2. /\ UNCHANGED <<reference, gate, spawned, processes, proc, dpc, dst>>
        /\ pc' = [pc EXCEPT ![t] = "decomission"]
        /\ state' = [state EXCEPT ![p] = "TERMINATING"]
    BY <1>8, <2>1, Zenon DEF Cleanup, Goto, mapVars, sendVars
  <2>3. \A q \in Process : Erased(q)' <=> Erased(q)
    BY <1>8, <2>2, Zenon DEF Cleanup, Erased, TypeOK, MainTypes
  <2>4. \A q \in Process : Referenced(q)' => Referenced(q)
    BY <1>8, <2>2, Zenon DEF Referenced, MainHolds, SendHolds, TypeOK, MainTypes
  <2>5. ~gate[p]
    BY <2>1, Zenon DEF ErasedOK, Erased
  <2> QED BY <2>1, <2>2, <2>3, <2>4, <2>5
          DEF ErasedOK, TypeOK, ProcTypes, MainTypes, PlacesOK
<1>9. CASE ResetReference(t)
  <2>1. PICK p \in Process : p = proc[t]
    BY <1>9, Zenon DEF ResetReference, PlacesOK
  <2>2. /\ UNCHANGED <<state, gate, spawned, processes, proc, dpc, dst>>
        /\ pc' = [pc EXCEPT ![t] = "spin"] /\ pc[t] = "lock"
        /\ reference' = [reference EXCEPT ![p] = FALSE]
    BY <1>9, <2>1, Zenon DEF ResetReference, Goto, sendVars
  <2>3. \A q \in Process : Erased(q)' <=> Erased(q)
    BY <2>2, Zenon DEF Erased, TypeOK, MainTypes
  <2>4. \A q \in Process : Referenced(q)' => Referenced(q)
    BY <2>2, Zenon DEF Referenced, MainHolds, SendHolds, TypeOK, MainTypes
  <2>5. \A u \in Thread : pc'[u] \in {"decomission", "lock", "spin", "open"} =>
                             pc[u] \in {"decomission", "lock", "spin", "open"}
    BY <2>2, Zenon DEF TypeOK, MainTypes
  <2> QED BY <2>2, <2>3, <2>4, <2>5, Zenon DEF ErasedOK, TypeOK, ProcTypes
<1>10. CASE EraseProcess(t)
  <2>1. PICK p \in Process : p = proc[t] /\ Running(t, p)
    BY <1>10, Zenon DEF EraseProcess, PlacesOK, Running, CleanPc
  <2>2. /\ UNCHANGED <<state, reference, gate, spawned, proc, dpc, dst>>
        /\ pc' = [pc EXCEPT ![t] = "open"]
        /\ processes' = [processes EXCEPT ![Id[p]] = None]
    BY <1>10, <2>1, Zenon DEF EraseProcess, Goto, procVars, sendVars
  <2>3. spawned[p] /\ ~Erased(p) /\ ~Referenced(p)
    <3>1. pc[t] = "spin" /\ proc[t] = p /\ ~Referenced(p)
      BY <1>10, <2>1, Zenon DEF EraseProcess
    <3>2. spawned[p] /\ ~gate[p]
      <4>1. spawned[p]
        BY <2>1, <3>1, Zenon DEF SpawnedFirst
      <4>2. \A u \in Thread : pc[u] \in {"decomission", "lock", "spin", "open"} =>
              ~gate[proc[u]]
        BY Zenon DEF ErasedOK
      <4>3. ~gate[p]
        BY <3>1, <4>2
      <4> QED BY <4>1, <4>3, Zenon
    <3>3. \A u \in Thread : ~(pc[u] = "open" /\ proc[u] = p)
      BY <2>1, <3>1, OnlyRunner, Zenon DEF Running, CleanPc
    <3> QED BY <3>1, <3>2, <3>3, Zenon DEF Erased
  <2>4. /\ state[p] = "TERMINATING" /\ ~reference[p]
        /\ processes[Id[p]] = p /\ ~gate[p]
    BY <1>10, <2>1, <2>3, Zenon
       DEF EraseProcess, TokenState, CleanPc, ReferenceOK, ErasedOK
  <2>5. \A q \in Process : Erased(q)' <=> Erased(q) \/ q = p
    BY <1>10, <2>1, <2>2, Zenon DEF EraseProcess, Erased, TypeOK, MainTypes
  <2>6. \A q \in Process : Referenced(q)' => Referenced(q)
    BY <2>2, Zenon DEF Referenced, MainHolds, SendHolds, TypeOK, MainTypes
  <2>7. \A q \in Process : Erased(q)' =>
          /\ state'[q] = "TERMINATING" /\ ~reference'[q]
          /\ ~Referenced(q)' /\ processes'[Id[q]] # q
    BY <2>2, <2>3, <2>4, <2>5, <2>6, Zenon DEF ErasedOK, TypeOK, MapTypes
  <2>8. \A q \in Process : spawned'[q] /\ ~Erased(q)' => processes'[Id[q]] = q
    BY <2>2, <2>4, <2>5, Zenon DEF ErasedOK, TypeOK, MapTypes
  <2>9. \A u \in Thread :
          pc'[u] \in {"decomission", "lock", "spin", "open"} => ~gate'[proc'[u]]
    BY <2>1, <2>2, <2>4, Zenon DEF ErasedOK, TypeOK, MainTypes
  <2> QED BY <2>7, <2>8, <2>9, Zenon DEF ErasedOK
<1>11. CASE OpenGate(t)
  <2>1. PICK p \in Process : p = proc[t] /\ Running(t, p)
    BY <1>11, Zenon DEF OpenGate, PlacesOK, Running, CleanPc
  <2>2. /\ UNCHANGED <<state, reference, spawned, processes, dpc, dst>>
        /\ gate' = [gate EXCEPT ![p] = TRUE]
    BY <1>11, <2>1, Zenon DEF OpenGate, sendVars
  <2>3. /\ \A u \in Thread : u # t => pc'[u] = pc[u] /\ proc'[u] = proc[u]
        /\ pc'[t] \in {"wait", "gate", "delete"}
    BY <1>11, Zenon DEF OpenGate, Return, Goto, TypeOK, MainTypes
  <2>4. \A q \in Process : Erased(q)' <=> Erased(q)
    BY <1>11, <2>1, <2>2, <2>3, ZenonT(30) DEF OpenGate, Erased, TypeOK, ProcTypes
  <2>5. \A q \in Process : Referenced(q)' => Referenced(q)
    BY <2>2, <2>3, Zenon DEF Referenced, MainHolds, SendHolds
  <2>6. \A u \in Thread :
          pc'[u] \in {"decomission", "lock", "spin", "open"} => ~gate'[proc'[u]]
    <3>1. \A u \in Thread : Running(u, p) => u = t
      BY <2>1, OnlyRunner, Zenon
    <3>2. \A u \in Thread : u # t /\ proc[u] = p =>
            pc[u] \notin {"decomission", "lock", "spin", "open"}
      BY <3>1, Zenon DEF Running, CleanPc
    <3> QED BY <2>2, <2>3, <3>2, Zenon DEF ErasedOK, PlacesOK, TypeOK, ProcTypes
  <2> QED BY <2>2, <2>4, <2>5, <2>6, Zenon DEF ErasedOK
<1>12. ASSUME NEW i \in Ids, NEW p \in Process, NEW e \in Kind, Deliver(t, i, p, e)
      PROVE  ErasedOK'
  <2>1. UNCHANGED <<state, reference, gate, spawned, processes, pc, proc>>
    BY <1>12, Zenon DEF Deliver, procVars, mapVars, mainVars
  <2>2. \A q \in Process : Erased(q)' <=> Erased(q)
    BY <2>1, Zenon DEF Erased
  <2>3. reference[p] \/ Referenced(p)
    BY <1>12, Zenon DEF Deliver, Use, Alive
  <2>4. ~Erased(p)
    BY <2>3, Zenon DEF ErasedOK
  <2>5. \A q \in Process : q # p /\ Referenced(q)' => Referenced(q)
    BY <1>12, <2>1, Zenon DEF Deliver, SendGoto, Referenced, MainHolds, SendHolds,
           TypeOK, SendTypes
  <2> QED BY <2>1, <2>2, <2>4, <2>5, Zenon DEF ErasedOK
<1>13. ASSUME NEW p \in Process, Spawn(t, p)
      PROVE  ErasedOK'
  <2>1. UNCHANGED <<state, reference, gate, pc, proc>>
    BY <1>13, Zenon DEF Spawn, mainVars
  <2>2. \A q \in Process : Erased(q)' <=> Erased(q)
    BY <2>1, Zenon DEF Erased
  <2>3. \A q \in Process : Referenced(q)' => Referenced(q)
    BY <1>13, <2>1
       DEF Spawn, CanCall, SendGoto, Referenced, MainHolds, SendHolds, TypeOK, SendTypes
  <2>4. ~spawned[p] /\ ~Erased(p)
    BY <1>13 DEF Spawn, Erased, SpawnedFirst
  <2>5. CASE processes[Id[p]] = None
    <3>1. /\ processes' = [processes EXCEPT ![Id[p]] = p]
          /\ spawned' = [spawned EXCEPT ![p] = TRUE]
      BY <1>13, <2>5, Zenon DEF Spawn
    <3> QED BY <2>1, <2>2, <2>3, <2>4, <2>5, <3>1
            DEF ErasedOK, TypeOK, MapTypes, ProcTypes
  <2>6. CASE processes[Id[p]] # None
    BY <1>13, <2>1, <2>2, <2>3, <2>6 DEF Spawn, ErasedOK
  <2> QED BY <2>5, <2>6, Zenon
<1>14. ASSUME NEW i \in Ids, NEW p \in Process, WaitUse(t, i, p)
      PROVE  ErasedOK'
  <2>1. /\ UNCHANGED <<state, reference, gate, spawned, processes, dpc, dst>>
        /\ pc' = [pc EXCEPT ![t] = "inspect"] /\ proc' = [proc EXCEPT ![t] = p]
        /\ pc[t] = "idle"
    BY <1>14, Zenon DEF WaitUse, Goto, procVars, mapVars, sendVars
  <2>2. \A q \in Process : Erased(q)' <=> Erased(q)
    BY <2>1, Zenon DEF Erased, TypeOK, MainTypes
  <2>3. reference[p] \/ Referenced(p)
    BY <1>14, Zenon DEF WaitUse, Use, Alive
  <2>4. ~Erased(p)
    BY <2>3, Zenon DEF ErasedOK
  <2>5. \A q \in Process : q # p /\ Referenced(q)' => Referenced(q)
    BY <2>1, Zenon DEF Referenced, MainHolds, SendHolds, TypeOK, MainTypes
  <2>6. \A u \in Thread : pc'[u] \in {"decomission", "lock", "spin", "open"} =>
          pc[u] = pc'[u] /\ proc[u] = proc'[u]
    BY <2>1, Zenon DEF TypeOK, MainTypes
  <2> QED BY <2>1, <2>2, <2>4, <2>5, <2>6 DEF ErasedOK
<1> QED
  BY <1>1, <1>2, <1>3, <1>4, <1>5, <1>6, <1>7, <1>8, <1>9, <1>10,
     <1>11, <1>12, <1>13, <1>14, Zenon
     DEF ThreadStep, SendStep, ResumeStep, CleanupStep, WaitStep, Call

\* A spawned process is deleted only behind its open gate.
LEMMA DeletedStep ==
  ASSUME TypeOK, PlacesOK, TokenState, OneToken, SpawnedFirst,
         ErasedOK, DeletedOK,
         NEW t \in Thread, ThreadStep(t) \/ Call(t)
  PROVE  DeletedOK'
<1> USE ConstantsAssumption
<1>1. CASE \/ LoadState(t) \/ PushEvent(t) \/ StoreTermination(t)
         \/ WakeIfBlocked(t) \/ RunqPush(t) \/ RunqSignal(t)
         \/ RunqWait(t) \/ RunqDequeue(t) \/ Resume(t)
         \/ Initialized(t) \/ DequeueEvent(t) \/ Block(t)
         \/ Recheck(t) \/ Unblock(t) \/ Examine(t) \/ Served(t)
         \/ ReleaseReference(t) \/ Cleanup(t) \/ Decomission(t)
         \/ ResetReference(t) \/ EraseProcess(t) \/ Inspect(t)
         \/ Extract(t)
  <2>1. UNCHANGED <<gate, spawned, deleted>>
    BY <1>1, Zenon DEF LoadState, PushEvent, StoreTermination, WakeIfBlocked,
           RunqPush, RunqSignal, RunqWait, RunqDequeue, Resume, Initialized,
           DequeueEvent, Block, Recheck, Unblock, Examine, Served,
           ReleaseReference, Cleanup, Decomission, ResetReference,
           EraseProcess, Inspect, Extract, procVars
  <2>2. \A u \in Thread : pc'[u] = "delete" =>
          pc[u] = "delete" /\ proc'[u] = proc[u]
    <3>1. CASE \/ LoadState(t) \/ PushEvent(t) \/ StoreTermination(t)
               \/ WakeIfBlocked(t) \/ RunqPush(t) \/ RunqSignal(t)
      BY <3>1 DEF LoadState, PushEvent, StoreTermination, WakeIfBlocked, RunqPush,
             RunqSignal, mainVars
    <3>2. CASE \/ RunqWait(t) \/ RunqDequeue(t) \/ Resume(t) \/ Initialized(t)
               \/ DequeueEvent(t) \/ Block(t) \/ Recheck(t) \/ Unblock(t)
      BY <3>2 DEF RunqWait, RunqDequeue, Resume, Initialized, DequeueEvent, Block,
             Recheck, Unblock, Goto, TypeOK, MainTypes
    <3>3. CASE Examine(t) \/ Served(t) \/ ReleaseReference(t) \/ Cleanup(t)
      <4>1. CASE Examine(t)
        <5>1. /\ proc' = proc
              /\ \E l \in {"serve", "loop", "abort"} : pc' = [pc EXCEPT ![t] = l]
          BY <4>1, Zenon DEF Examine, Goto
        <5> QED BY <5>1, Zenon DEF TypeOK, MainTypes
      <4>2. CASE Served(t)
        BY <4>2, Zenon DEF Served, Goto, TypeOK, MainTypes
      <4>3. CASE ReleaseReference(t)
        BY <4>3, Zenon DEF ReleaseReference, Goto, Return, TypeOK, MainTypes
      <4>4. CASE Cleanup(t)
        BY <4>4, Zenon DEF Cleanup, Goto, TypeOK, MainTypes
      <4> QED BY <3>3, <4>1, <4>2, <4>3, <4>4, Zenon
    <3>4. CASE Decomission(t) \/ ResetReference(t) \/ EraseProcess(t)
      BY <3>4 DEF Decomission, ResetReference, EraseProcess, Goto, TypeOK, MainTypes
    <3>5. CASE Inspect(t) \/ Extract(t)
      BY <3>5 DEF Inspect, Extract, Goto, Return, TypeOK, MainTypes
    <3> QED BY <1>1, <3>1, <3>2, <3>3, <3>4, <3>5, Zenon
  <2>3. \A u \in Thread : pc'[u] = "delete" =>
          gate'[proc'[u]] /\ proc'[u] \in Managed
    BY <2>1, <2>2, Zenon DEF DeletedOK
  <2>4. \A q \in Process, u \in Thread :
          deleted'[q] /\ spawned'[q] =>
            gate'[q] /\ ~(pc'[u] = "delete" /\ proc'[u] = q)
    <3>1. \A q \in Process : deleted[q] /\ spawned[q] =>
            gate[q] /\ \A u \in Thread : ~(pc[u] = "delete" /\ proc[u] = q)
      BY Zenon DEF DeletedOK
    <3> SUFFICES ASSUME NEW q \in Process, NEW u \in Thread, deleted'[q], spawned'[q]
                 PROVE  gate'[q] /\ ~(pc'[u] = "delete" /\ proc'[u] = q)
      OBVIOUS
    <3> QED BY <2>1, <2>2, <3>1, Zenon
  <2> QED BY <2>1, <2>3, <2>4, ZenonT(30) DEF DeletedOK
<1>2. CASE OpenGate(t)
  <2>1. PICK p \in Process : p = proc[t] /\ ~gate[p]
    BY <1>2, Zenon DEF OpenGate, PlacesOK, ErasedOK
  <2>2. /\ UNCHANGED <<spawned, deleted>> /\ gate' = [gate EXCEPT ![p] = TRUE]
    BY <1>2, <2>1, Zenon DEF OpenGate
  <2>3. \A u \in Thread : pc'[u] = "delete" =>
          \/ pc[u] = "delete" /\ proc'[u] = proc[u]
          \/ proc'[u] = p /\ p \in Managed
    BY <1>2, <2>1, Zenon DEF OpenGate, Return, Goto, TypeOK, MainTypes
  <2>4. \A q \in Process : gate[q] => gate'[q]
    BY <2>2, Zenon DEF TypeOK, ProcTypes
  <2>5. gate'[p] /\ ~(deleted[p] /\ spawned[p])
    BY <2>1, <2>2, Zenon DEF TypeOK, ProcTypes, DeletedOK
  <2> QED BY <2>2, <2>3, <2>4, <2>5 DEF DeletedOK, PlacesOK
<1>3. CASE DeleteManaged(t)
  <2>1. PICK p \in Process : p = proc[t] /\ Running(t, p) /\ gate[p]
    BY <1>3, Zenon DEF DeleteManaged, PlacesOK, Running, CleanPc, DeletedOK
  <2>2. /\ UNCHANGED <<gate, spawned>> /\ deleted' = [deleted EXCEPT ![p] = TRUE]
    BY <1>3, <2>1, Zenon DEF DeleteManaged
  <2>3. \A u \in Thread : pc'[u] = "delete" =>
          u # t /\ pc[u] = "delete" /\ proc'[u] = proc[u]
    BY <1>3, Zenon DEF DeleteManaged, Return, Goto, TypeOK, MainTypes
  <2>4. \A u \in Thread : u # t /\ pc[u] = "delete" => proc[u] # p
    BY <2>1, OnlyRunner, Zenon DEF Running, CleanPc
  <2>5. \A q \in Process : deleted'[q] => deleted[q] \/ q = p
    BY <2>2, Zenon DEF TypeOK, ProcTypes
  <2>6. \A u \in Thread : pc'[u] = "delete" => gate'[proc'[u]] /\ proc'[u] \in Managed
    BY <2>2, <2>3, Zenon DEF DeletedOK
  <2>7. \A q \in Process : deleted'[q] /\ spawned'[q] => gate'[q]
    BY <2>1, <2>2, <2>5, Zenon DEF DeletedOK
  <2>8. \A q \in Process, u \in Thread :
          deleted'[q] /\ spawned'[q] => ~(pc'[u] = "delete" /\ proc'[u] = q)
    BY <2>2, <2>3, <2>4, <2>5 DEF DeletedOK
  <2> QED BY <2>6, <2>7, <2>8, Zenon DEF DeletedOK
<1>4. CASE GateWait(t)
  <2>1. /\ UNCHANGED <<gate, spawned>>
        /\ \/ UNCHANGED deleted
           \/ /\ proc[t] \notin Managed /\ gate[proc[t]]
              /\ deleted' = [deleted EXCEPT ![proc[t]] = TRUE]
    BY <1>4, Zenon DEF GateWait
  <2>2. \A u \in Thread : pc'[u] = "delete" =>
          pc[u] = "delete" /\ proc'[u] = proc[u]
    BY <1>4, Zenon DEF GateWait, Goto, TypeOK, MainTypes
  <2>3. \A p \in Process : deleted'[p] =>
          deleted[p] \/ (gate[p] /\ p \notin Managed)
    BY <2>1, Zenon DEF TypeOK, ProcTypes
  <2> QED BY <2>1, <2>2, <2>3 DEF DeletedOK, PlacesOK
<1>5. ASSUME NEW i \in Ids, NEW p \in Process, NEW e \in Kind, Deliver(t, i, p, e)
      PROVE  DeletedOK'
  BY <1>5 DEF Deliver, SendGoto, CanCall, Use, procVars, queueVars, mapVars,
         mainVars, TypeOK, MainTypes, ProcTypes, PlacesOK, DeletedOK
<1>6. ASSUME NEW p \in Process, Spawn(t, p)
      PROVE  DeletedOK'
  <2>1. UNCHANGED <<gate, pc, proc>> /\ ~spawned[p] /\ ~deleted[p]
    BY <1>6, Zenon DEF Spawn, mainVars
  <2>2. \/ spawned' = [spawned EXCEPT ![p] = TRUE] /\ UNCHANGED deleted
        \/ deleted' = [deleted EXCEPT ![p] = TRUE] /\ UNCHANGED spawned
    BY <1>6, Zenon DEF Spawn
  <2>3. \A q \in Process : deleted'[q] /\ spawned'[q] => deleted[q] /\ spawned[q]
    BY <2>1, <2>2, Zenon DEF TypeOK, ProcTypes
  <2> QED BY <2>1, <2>3, Zenon DEF DeletedOK
<1>7. ASSUME NEW i \in Ids, NEW p \in Process, WaitUse(t, i, p)
      PROVE  DeletedOK'
  <2>1. UNCHANGED <<gate, spawned, deleted>>
    BY <1>7, Zenon DEF WaitUse, procVars
  <2>2. \A u \in Thread : pc'[u] = "delete" =>
          pc[u] = "delete" /\ proc'[u] = proc[u]
    BY <1>7, Zenon DEF WaitUse, Goto, TypeOK, MainTypes
  <2>3. \A u \in Thread : pc'[u] = "delete" =>
          gate'[proc'[u]] /\ proc'[u] \in Managed
    BY <2>1, <2>2, Zenon DEF DeletedOK
  <2>4. \A q \in Process, u \in Thread :
          deleted'[q] /\ spawned'[q] =>
            gate'[q] /\ ~(pc'[u] = "delete" /\ proc'[u] = q)
    <3>1. \A q \in Process : deleted[q] /\ spawned[q] =>
            gate[q] /\ \A u \in Thread : ~(pc[u] = "delete" /\ proc[u] = q)
      BY Zenon DEF DeletedOK
    <3> SUFFICES ASSUME NEW q \in Process, NEW u \in Thread, deleted'[q], spawned'[q]
                 PROVE  gate'[q] /\ ~(pc'[u] = "delete" /\ proc'[u] = q)
      OBVIOUS
    <3> QED BY <2>1, <2>2, <3>1, Zenon
  <2> QED BY <2>1, <2>3, <2>4, ZenonT(30) DEF DeletedOK
<1> QED
  BY <1>1, <1>2, <1>3, <1>4, <1>5, <1>6, <1>7, Zenon
     DEF ThreadStep, SendStep, ResumeStep, CleanupStep, WaitStep, Call

-----------------------------------------------------------------------------
(* The invariant is inductive.                                             *)

\* The initial state, before any process is spawned, has the inductive invariant.
LEMMA InitIInv == Init => IInv /\ ClosedOK
<1> SUFFICES ASSUME Init PROVE IInv /\ ClosedOK
  BY Zenon
<1> USE ConstantsAssumption DEF Init
<1>1. TypeOK
  <2>1. ProcTypes
    BY DEF ProcTypes, State
  <2>2. QueueTypes /\ MapTypes
    BY DEF QueueTypes, MapTypes
  <2>3. MainTypes /\ SendTypes
    BY DEF MainTypes, SendTypes, MainPc, SendPc, OwnPc, CleanPc
  <2> QED BY <2>1, <2>2, <2>3, Zenon DEF TypeOK
<1>2. \A t \in Thread :
        pc[t] \in {"wait", "idle"} /\ dpc[t] = "idle" /\ proc[t] = None /\ dst[t] = None
  BY Zenon
<1>3. Len(runq) = 0
  BY Zenon
<1>4. PlacesOK /\ NoAbort
  BY <1>2, Zenon DEF PlacesOK, NoAbort
<1>5. TokenState /\ OneToken
  BY <1>2, <1>3 DEF TokenState, OneToken, Running, Pushing, QueuedAt, OwnPc, CleanPc
<1>6. SpawnedFirst
  BY <1>2, <1>3 DEF SpawnedFirst
<1>7. FlagAfterEvent /\ NoLostWakeup
  BY <1>2, Zenon DEF FlagAfterEvent, NoLostWakeup, RunnableHasToken, BlockedHasWaker
<1>8. MutexOK /\ ReferenceOK
  BY <1>2, Zenon DEF MutexOK, ReferenceOK
<1>9. ErasedOK /\ DeletedOK /\ ClosedOK
  BY <1>2, Zenon DEF ErasedOK, Erased, DeletedOK, ClosedOK
<1> QED BY <1>1, <1>4, <1>5, <1>6, <1>7, <1>8, <1>9, Zenon DEF IInv

\* Every step, of a thread inside a call or of a new call, keeps the invariant.
LEMMA StepIInv ==
  ASSUME IInv, NEW t \in Thread, ThreadStep(t) \/ Call(t)
  PROVE  IInv'
<1> USE DEF IInv
<1>1. TypeOK'
  BY ProcTypesStep, QueueTypesStep, MapTypesStep, MainTypesStep, SendTypesStep, Zenon
     DEF TypeOK
<1>2. PlacesOK' /\ TokenState' /\ OneToken' /\ SpawnedFirst'
  BY PlacesStep, TokenStateStep, OneTokenStep, SpawnedStep, Zenon
<1>3. NoAbort'
  BY NoAbortStep, Zenon
<1>4. FlagAfterEvent'
  BY <1>3, FlagStep, Zenon
<1>5. NoLostWakeup'
  <2>1. \A q \in Process : RunnableHasToken(q)'
    BY <1>3, TokenStep, Zenon DEF NoLostWakeup
  <2>2. \A q \in Process : BlockedHasWaker(q)'
    BY WakerStep, Zenon DEF NoLostWakeup
  <2> QED BY <2>1, <2>2, Zenon DEF NoLostWakeup
<1>6. MutexOK' /\ ReferenceOK'
  BY MutexStep, ReferenceStep, Zenon
<1>7. ErasedOK' /\ DeletedOK'
  BY ErasedStep, DeletedStep, Zenon
<1> QED BY <1>1, <1>2, <1>3, <1>4, <1>5, <1>6, <1>7, Zenon

\* A step that changes nothing keeps the inductive invariant.
LEMMA StutterIInv == ASSUME IInv, UNCHANGED vars PROVE IInv'
<1> USE DEF vars, procVars, queueVars, mapVars, mainVars, sendVars
<1>1. TypeOK'
  BY Zenon DEF IInv, TypeOK, ProcTypes, QueueTypes, MapTypes, MainTypes, SendTypes
<1>2. PlacesOK' /\ TokenState' /\ SpawnedFirst' /\ NoAbort'
  BY Zenon DEF IInv, PlacesOK, TokenState, SpawnedFirst, NoAbort
<1>3. OneToken'
  <2>1. OneToken
    BY Zenon DEF IInv
  <2>2. \A t \in Thread, p \in Process :
          (Running(t, p)' <=> Running(t, p)) /\ (Pushing(t, p)' <=> Pushing(t, p))
    BY Zenon DEF Running, Pushing
  <2>3. UNCHANGED runq
    BY Zenon
  <2> HIDE DEF vars, procVars, queueVars, mapVars, mainVars, sendVars
  <2> QED BY <2>1, <2>2, <2>3, Zenon DEF OneToken, QueuedAt
<1>4. FlagAfterEvent'
  BY DEF IInv, FlagAfterEvent, InjectSeen, HasInject, Ending
<1>5. NoLostWakeup'
  BY Zenon DEF IInv, NoLostWakeup, RunnableHasToken, BlockedHasWaker, HasToken, HasWaker,
         Running, Pushing
<1>6. MutexOK' /\ ReferenceOK' /\ DeletedOK'
  BY Zenon DEF IInv, MutexOK, ReferenceOK, DeletedOK
<1>7. ErasedOK'
  BY DEF IInv, ErasedOK, Erased, Referenced, MainHolds, SendHolds
<1> QED BY <1>1, <1>2, <1>3, <1>4, <1>5, <1>6, <1>7, Zenon DEF IInv

\* The inductive invariant holds in every reachable state of resume,
\* enqueue, spawn, cleanup and wait.
THEOREM Invariance == Spec => []IInv
<1>1. IInv /\ [Next]_vars => IInv'
  BY StepIInv, StutterIInv, Zenon DEF Next
<1> QED BY <1>1, InitIInv, PTL DEF Spec

-----------------------------------------------------------------------------
(* The properties.                                                         *)

\* Every variable of the scheduler keeps its type.
THEOREM TypeCorrect == Spec => []TypeOK
BY Invariance, PTL DEF IInv

\* A process is in the run queue once, or about to be put there by one thread, or
\* run by one thread: resume never runs two events of a process at a time.
THEOREM SingleToken == Spec => []OneToken
BY Invariance, PTL DEF IInv

\* Storing BLOCKED and looking at the queue again in resume, and the exchange in
\* enqueue, never leave a process with events and no thread to run it.
THEOREM WakeupsAreNotLost == Spec => []NoLostWakeup
BY Invariance, PTL DEF IInv

\* No CHECK of resume or cleanup fails; in particular the purge of resume finds
\* the terminate event that the termination flag announces.
THEOREM ChecksHold == Spec => []NoAbort
BY Invariance, PTL DEF IInv

\* A process is deleted only when the map, the run queue and every thread have
\* let go of it: cleanup drains the references before it opens the gate.
THEOREM DeletedIsUnused == Spec => []NoDanglingUse
<1>1. IInv => NoDanglingUse
  <2> SUFFICES ASSUME IInv, NEW p \in Process, deleted[p]
               PROVE  /\ \A i \in Ids : processes[i] # p
                      /\ \A k \in 1..Len(runq) : runq[k] # p
                      /\ ~Referenced(p)
                      /\ \A t \in Thread : ~Running(t, p) /\ ~Pushing(t, p)
    BY Zenon DEF NoDanglingUse
  <2>1. CASE spawned[p]
    <3>1. gate[p] /\ Erased(p) /\ \A t \in Thread : ~(pc[t] = "delete" /\ proc[t] = p)
      BY <2>1, Zenon DEF IInv, DeletedOK, Erased
    <3>2. state[p] = "TERMINATING" /\ ~Referenced(p) /\ processes[Id[p]] # p
      BY <3>1, Zenon DEF IInv, ErasedOK
    <3>3. \A i \in Ids : processes[i] # p
      BY <3>2, Zenon DEF IInv, SpawnedFirst
    <3>4. \A k \in 1..Len(runq) : runq[k] # p
      BY <3>2, Zenon DEF IInv, TokenState
    <3>5. \A t \in Thread : ~Pushing(t, p)
      BY <3>2, Zenon DEF IInv, TokenState, Pushing
    <3>6. \A t \in Thread : ~Running(t, p)
      BY <3>1, <3>2 DEF IInv, TokenState, ErasedOK, Running, OwnPc, CleanPc
    <3> QED BY <3>2, <3>3, <3>4, <3>5, <3>6, Zenon
  <2>2. CASE ~spawned[p]
    <3>1. \A t \in Thread : proc[t] # p /\ dst[t] # p
      BY <2>2, Zenon DEF IInv, SpawnedFirst
    <3> QED BY <2>2, <3>1
            DEF IInv, SpawnedFirst, Referenced, MainHolds, SendHolds, Running, Pushing
  <2> QED BY <2>1, <2>2, Zenon
<1> QED BY <1>1, Invariance, PTL

\* When Gate::wait returns, cleanup is over and the name of the process is free.
THEOREM OpenGateMeansGone == Spec => []GateMeansGone
<1>1. IInv => GateMeansGone
  BY Zenon DEF IInv, ErasedOK, Erased, GateMeansGone
<1> QED BY <1>1, Invariance, PTL

\* spawn refuses a name until cleanup has drained every reference to its owner.
THEOREM NamesAreExclusive == Spec => []OneProcessPerName
<1>1. IInv => OneProcessPerName
  <2> SUFFICES ASSUME IInv, NEW p \in Process, NEW q \in Process,
                      p # q, Id[p] = Id[q], spawned[p], spawned[q]
               PROVE  Erased(p) \/ Erased(q)
    BY Zenon DEF OneProcessPerName, IInv, ErasedOK
  <2> QED BY Zenon DEF IInv, ErasedOK
<1> QED BY <1>1, Invariance, PTL

\* No step takes a process out of TERMINATING or closes an open gate.
LEMMA FinalStep ==
  ASSUME IInv, NEW t \in Thread, ThreadStep(t) \/ Call(t)
  PROVE  \A p \in Process :
           /\ state[p] = "TERMINATING" => state'[p] = "TERMINATING"
           /\ gate[p] => gate'[p]
<1>1. state \in [Process -> State] /\ gate \in [Process -> BOOLEAN]
  BY Zenon DEF IInv, TypeOK, ProcTypes
<1>2. CASE Initialized(t) \/ Block(t)
  <2>1. state[proc[t]] # "TERMINATING" /\ UNCHANGED gate
    BY <1>2, Zenon DEF IInv, TokenState, OwnPc, Initialized, Block
  <2> QED BY <1>1, <1>2, <2>1, Zenon DEF Initialized, Block
<1>3. CASE WakeIfBlocked(t) \/ Unblock(t) \/ Cleanup(t) \/ OpenGate(t)
  BY <1>1, <1>3, Zenon DEF WakeIfBlocked, Unblock, Cleanup, OpenGate
<1>4. CASE UNCHANGED <<state, gate>>
  BY <1>4, Zenon
<1> QED BY <1>2, <1>3, <1>4, ZenonT(30)
        DEF ThreadStep, SendStep, LoadState, PushEvent, StoreTermination, RunqPush,
            RunqSignal, ResumeStep, Resume, DequeueEvent, Recheck, Examine, Served,
            ReleaseReference, CleanupStep, Decomission, ResetReference,
            EraseProcess, DeleteManaged, WaitStep, Inspect, Extract, GateWait,
            RunqWait, RunqDequeue, Call, Deliver, Spawn, WaitUse, procVars

\* cleanup is never undone: TERMINATING and an open gate are for ever.
THEOREM TerminationIsFinal == Spec => TerminatingIsFinal
<1> DEFINE Final == \A p \in Process :
                      /\ state[p] = "TERMINATING" => state'[p] = "TERMINATING"
                      /\ gate[p] => gate'[p]
<1>1. IInv /\ [Next]_vars => [Final]_vars
  BY FinalStep, Zenon DEF Next
<1> QED BY <1>1, Invariance, PTL DEF Spec, TerminatingIsFinal

\* The locking event queue of a process stays closed and empty once cleanup has
\* decomissioned it.
LEMMA ClosedInvariance == ASSUME ~LockFreeEvents PROVE Spec => []ClosedOK
<1>1. IInv /\ ClosedOK /\ [Next]_vars => ClosedOK'
  <2>1. ASSUME ClosedOK, UNCHANGED vars PROVE ClosedOK'
    BY <2>1, Zenon DEF ClosedOK, vars, procVars, mainVars
  <2> QED BY <2>1, ClosedStep, Zenon DEF IInv, Next
<1> QED BY <1>1, InitIInv, Invariance, PTL DEF Spec

\* With the locking event queue nothing is enqueued once it is decomissioned.
THEOREM ClosedQueueIsEmpty ==
  ASSUME ~LockFreeEvents PROVE Spec => []DecomissionedStaysEmpty
<1>1. ClosedOK => DecomissionedStaysEmpty
  BY Zenon DEF ClosedOK, DecomissionedStaysEmpty
<1> QED BY <1>1, ClosedInvariance, PTL

-----------------------------------------------------------------------------
(* The refinement mapping.                                                 *)

\* What the refinement mapping is when the event in hand has one holder.
BarsOK ==
  /\ phaseBar = [p \in Process |-> phaseBar[p]]
  /\ inboxBar = [p \in Process |-> inboxBar[p]]
  /\ servingBar = [p \in Process |-> servingBar[p]]
  /\ \A p \in Process :
       /\ phaseBar[p] =
            IF ~comissioned[p] THEN "closed"
            ELSE IF state[p] = "BOTTOM" THEN "new"
            ELSE IF state[p] = "TERMINATING" \/ At(p, {"unref", "cleanup"}) THEN "dying"
            ELSE "alive"
       /\ At(p, {"got"}) \/ inboxBar[p] = events[p]
       /\ At(p, {"serve"}) \/ servingBar[p] = None
       /\ \A t \in Thread : proc[t] = p =>
            /\ pc[t] = "got" => inboxBar[p] = <<event[t]>> \o events[p]
            /\ pc[t] = "serve" => servingBar[p] = event[t]

\* The CHOOSE of the mapping picks the only thread there is.
LEMMA EventInHand ==
  ASSUME OneToken, NEW p \in Process, NEW t \in Thread, NEW w \in OwnPc,
         proc[t] = p, pc[t] = w
  PROVE  EventOf(p, {w}) = event[t]
<1> DEFINE c == CHOOSE u \in Thread : proc[u] = p /\ pc[u] \in {w}
<1>1. c \in Thread /\ proc[c] = p /\ pc[c] \in {w}
  BY Zenon
<1>2. Running(c, p) /\ Running(t, p)
  BY <1>1, Zenon DEF Running
<1>3. c = t
  BY <1>1, <1>2, Zenon DEF OneToken
<1> QED BY <1>3, Zenon DEF EventOf

\* What a mailbox shows is determined by the one thread that runs its process.
LEMMA BarsHold == TypeOK /\ OneToken => BarsOK
<1> SUFFICES ASSUME TypeOK, OneToken PROVE BarsOK
  BY Zenon
<1>1. /\ phaseBar = [p \in Process |-> phaseBar[p]]
      /\ inboxBar = [p \in Process |-> inboxBar[p]]
      /\ servingBar = [p \in Process |-> servingBar[p]]
  BY Zenon DEF phaseBar, inboxBar, servingBar
<1>2. ASSUME NEW p \in Process
      PROVE  phaseBar[p] =
            IF ~comissioned[p] THEN "closed"
            ELSE IF state[p] = "BOTTOM" THEN "new"
            ELSE IF state[p] = "TERMINATING" \/ At(p, {"unref", "cleanup"}) THEN "dying"
            ELSE "alive"
  BY Zenon DEF phaseBar, Phase
<1>3. ASSUME NEW p \in Process
      PROVE  /\ At(p, {"got"}) \/ inboxBar[p] = events[p]
             /\ At(p, {"serve"}) \/ servingBar[p] = None
  BY Zenon DEF inboxBar, servingBar
<1>4. ASSUME NEW p \in Process, NEW t \in Thread, proc[t] = p
      PROVE  /\ pc[t] = "got" => inboxBar[p] = <<event[t]>> \o events[p]
             /\ pc[t] = "serve" => servingBar[p] = event[t]
  <2>1. CASE pc[t] = "got"
    <3>1. EventOf(p, {"got"}) = event[t]
      BY <1>4, <2>1, EventInHand, Zenon DEF OwnPc
    <3>2. At(p, {"got"})
      BY <1>4, <2>1, Zenon DEF At
    <3> QED BY <2>1, <3>1, <3>2, Zenon DEF inboxBar
  <2>2. CASE pc[t] = "serve"
    <3>1. EventOf(p, {"serve"}) = event[t]
      BY <1>4, <2>2, EventInHand, Zenon DEF OwnPc
    <3>2. At(p, {"serve"})
      BY <1>4, <2>2, Zenon DEF At
    <3> QED BY <2>2, <3>1, <3>2, Zenon DEF servingBar
  <2> QED BY <2>1, <2>2, Zenon
<1> QED BY <1>1, <1>2, <1>3, <1>4, Zenon DEF BarsOK

\* The same in the state after a step.
LEMMA BarsHoldNext == TypeOK' /\ OneToken' => BarsOK'
BY BarsHold, PTL

\* A step that leaves the runner of q, its event and its queue alone, or does
\* not move between "new", "alive", "dying" and "closed".
Same(q) ==
  /\ comissioned'[q] = comissioned[q] /\ events'[q] = events[q]
  /\ state'[q] = state[q] \/ {state'[q], state[q]} \subseteq {"READY", "BLOCKED"}
  /\ \A w \in {{"got"}, {"serve"}, {"unref", "cleanup"}} : At(q, w)' <=> At(q, w)
  /\ \A u \in Thread : proc[u] = q /\ pc[u] \in {"got", "serve"} =>
       proc'[u] = q /\ pc'[u] = pc[u] /\ event'[u] = event[u]

\* A mailbox whose process and runner did not change shows the same.
LEMMA SameBars ==
  ASSUME BarsOK, BarsOK', NEW q \in Process, Same(q)
  PROVE  /\ phaseBar'[q] = phaseBar[q]
         /\ inboxBar'[q] = inboxBar[q]
         /\ servingBar'[q] = servingBar[q]
<1>1. phaseBar'[q] = phaseBar[q]
  BY DEF BarsOK, Same
<1>2. inboxBar'[q] = inboxBar[q]
  <2>1. CASE At(q, {"got"})
    <3>1. PICK u \in Thread : proc[u] = q /\ pc[u] = "got"
      BY <2>1, Zenon DEF At
    <3>2. /\ proc'[u] = q /\ pc'[u] = "got" /\ event'[u] = event[u]
          /\ events'[q] = events[q]
      BY <3>1, Zenon DEF Same
    <3>3. inboxBar[q] = <<event[u]>> \o events[q]
      BY <3>1, SMTT(30) DEF BarsOK
    <3>4. inboxBar'[q] = <<event'[u]>> \o events'[q]
      BY <3>2, Zenon DEF BarsOK
    <3> QED BY <3>2, <3>3, <3>4, Zenon
  <2>2. CASE ~At(q, {"got"})
    BY <2>2, Zenon DEF BarsOK, Same
  <2> QED BY <2>1, <2>2, Zenon
<1>3. servingBar'[q] = servingBar[q]
  <2>1. CASE At(q, {"serve"})
    <3>1. PICK u \in Thread : proc[u] = q /\ pc[u] = "serve"
      BY <2>1, Zenon DEF At
    <3>2. /\ proc'[u] = q /\ pc'[u] = "serve" /\ event'[u] = event[u]
          /\ events'[q] = events[q]
      BY <3>1, Zenon DEF Same
    <3>3. servingBar[q] = event[u]
      BY <3>1, Zenon DEF BarsOK
    <3>4. servingBar'[q] = event'[u]
      BY <3>2, Zenon DEF BarsOK
    <3> QED BY <3>2, <3>3, <3>4, Zenon
  <2>2. CASE ~At(q, {"serve"})
    BY <2>2, Zenon DEF BarsOK, Same
  <2> QED BY <2>1, <2>2, Zenon
<1> QED BY <1>1, <1>2, <1>3, Zenon

Shown == {"got", "serve", "unref", "cleanup"}

\* A step of t that does not touch the process q: another one's event.
LEMMA OthersSame ==
  ASSUME TypeOK, NEW t \in Thread, NEW q \in Process,
         comissioned'[q] = comissioned[q], events'[q] = events[q],
         state'[q] = state[q] \/ {state'[q], state[q]} \subseteq {"READY", "BLOCKED"},
         \A u \in Thread \ {t} :
           pc'[u] = pc[u] /\ proc'[u] = proc[u] /\ event'[u] = event[u],
         proc[t] = q => pc[t] \notin Shown, proc'[t] = q => pc'[t] \notin Shown
  PROVE  Same(q)
<1>1. ASSUME NEW w \in {{"got"}, {"serve"}, {"unref", "cleanup"}}
      PROVE  At(q, w)' <=> At(q, w)
  <2>1. w \subseteq Shown
    BY Zenon DEF Shown
  <2> QED BY <2>1, Zenon DEF At
<1> QED BY <1>1, Zenon DEF Same, Shown

\* A step that leaves every process and runner as it was is a stutter of the mailbox.
LEMMA Stutters ==
  ASSUME BarsOK, BarsOK', \A q \in Process : Same(q)
  PROVE  UNCHANGED A!vars
<1>1. \A q \in Process : /\ phaseBar'[q] = phaseBar[q]
                        /\ inboxBar'[q] = inboxBar[q]
                        /\ servingBar'[q] = servingBar[q]
  BY SameBars, Zenon
<1>2. phaseBar' = phaseBar /\ inboxBar' = inboxBar /\ servingBar' = servingBar
  BY <1>1, Zenon DEF BarsOK
<1> QED BY <1>2, Zenon DEF A!vars

\* The steps of the threads that the mailbox does not see.
LEMMA HiddenStep ==
  ASSUME TypeOK, PlacesOK, TokenState, OneToken, NoAbort', BarsOK, BarsOK',
         NEW t \in Thread,
         \/ LoadState(t) \/ StoreTermination(t) \/ WakeIfBlocked(t) \/ RunqPush(t)
         \/ RunqSignal(t) \/ RunqWait(t) \/ RunqDequeue(t) \/ Resume(t) \/ Block(t)
         \/ Recheck(t) \/ Unblock(t) \/ (pc[t] = "release" /\ ReleaseReference(t))
         \/ ResetReference(t) \/ EraseProcess(t) \/ OpenGate(t) \/ DeleteManaged(t)
         \/ WaitStep(t) \/ Call(t)
  PROVE  UNCHANGED A!vars
<1>1. UNCHANGED <<comissioned, events, event>>
  BY Zenon DEF LoadState, StoreTermination, WakeIfBlocked, RunqPush, RunqSignal, RunqWait,
         RunqDequeue, Resume, Block, Recheck, Unblock, ReleaseReference,
         ResetReference, EraseProcess, OpenGate, DeleteManaged, WaitStep, Inspect,
         Extract, GateWait, Call, Deliver, Spawn, WaitUse, procVars, mainVars
<1>2. \A u \in Thread \ {t} : pc'[u] = pc[u] /\ proc'[u] = proc[u]
  BY Zenon DEF LoadState, StoreTermination, WakeIfBlocked, RunqPush, RunqSignal, RunqWait,
         RunqDequeue, Resume, Block, Recheck, Unblock, ReleaseReference,
         ResetReference, EraseProcess, OpenGate, DeleteManaged, WaitStep, Inspect,
         Extract, GateWait, Call, Deliver, Spawn, WaitUse, Goto, Return, mainVars,
         TypeOK, MainTypes
<1>3. \A q \in Process :
        state'[q] = state[q] \/ {state'[q], state[q]} \subseteq {"READY", "BLOCKED"}
  <2>1. CASE WakeIfBlocked(t)
    BY <2>1, Zenon DEF WakeIfBlocked, TypeOK, ProcTypes
  <2>2. CASE Block(t)
    <3>1. pc[t] \in OwnPc \ {"resume", "init"} /\ pc[t] \notin {"idle", "wait", "dequeue"}
      <4>1. pc[t] = "block"
        BY <2>2, Zenon DEF Block
      <4> QED BY <4>1 DEF OwnPc
    <3>2. PICK p \in Process : p = proc[t] /\ state[p] = "READY"
      <4>1. proc[t] \in Process
        BY <3>1, Zenon DEF PlacesOK
      <4>2. state[proc[t]] = "READY"
        BY <3>1, Zenon DEF TokenState
      <4> QED BY <4>1, <4>2, Zenon
    <3>3. state'[p] = "BLOCKED" /\ \A q \in Process : q # p => state'[q] = state[q]
      BY <2>2, <3>2, Zenon DEF Block, TypeOK, ProcTypes
    <3> QED BY <3>2, <3>3, Zenon
  <2>3. CASE Unblock(t)
    BY <2>3, Zenon DEF Unblock, TypeOK, ProcTypes
  <2>4. CASE UNCHANGED state
    BY <2>4, Zenon
  <2> QED BY <2>1, <2>2, <2>3, <2>4, Zenon
          DEF LoadState, StoreTermination, RunqPush, RunqSignal, RunqWait,
              RunqDequeue, Resume, Recheck, ReleaseReference, ResetReference,
              EraseProcess, OpenGate, DeleteManaged, WaitStep, Inspect, Extract,
              GateWait, Call, Deliver, Spawn, WaitUse, procVars
<1>4. \/ pc'[t] = pc[t] /\ proc'[t] = proc[t]
      \/ pc[t] \notin Shown /\ pc'[t] \notin Shown
  BY Zenon DEF LoadState, StoreTermination, WakeIfBlocked, RunqPush, RunqSignal, RunqWait,
         RunqDequeue, Resume, Block, Recheck, Unblock, ReleaseReference,
         ResetReference, EraseProcess, OpenGate, DeleteManaged, WaitStep, Inspect,
         Extract, GateWait, Call, Deliver, Spawn, WaitUse, Goto, Return, mainVars,
         TypeOK, MainTypes, Shown
<1>5. ASSUME NEW q \in Process PROVE Same(q)
  <2>1. CASE pc'[t] = pc[t] /\ proc'[t] = proc[t]
    <3>1. \A u \in Thread : pc'[u] = pc[u] /\ proc'[u] = proc[u]
      BY <1>2, <2>1, Zenon
    <3>2. ASSUME NEW w \in {{"got"}, {"serve"}, {"unref", "cleanup"}}
          PROVE  At(q, w)' <=> At(q, w)
      BY <3>1, Zenon DEF At
    <3> QED BY <1>1, <1>3, <3>1, <3>2, Zenon DEF Same
  <2>2. CASE pc[t] \notin Shown /\ pc'[t] \notin Shown
    BY <1>1, <1>2, <1>3, <2>2, OthersSame, Zenon
  <2> QED BY <1>4, <2>1, <2>2, Zenon
<1> QED BY <1>5, Stutters, Zenon

\* The event in hand before the queue: enqueue appends behind both, dequeue takes
\* the head, and the purge takes any of them.
LEMMA InHandFacts ==
  ASSUME NEW S, NEW s \in Seq(S), NEW x \in S, NEW e \in S
  PROVE  /\ Append(<<x>> \o s, e) = <<x>> \o Append(s, e)
         /\ s # <<>> => <<Head(s)>> \o Tail(s) = s
         /\ Tail(<<x>> \o s) = s /\ Head(<<x>> \o s) = x
         /\ SubSeq(<<x>> \o s, 2, Len(<<x>> \o s)) = s
<1>1. Append(<<x>> \o s, e) = <<x>> \o Append(s, e)
  OBVIOUS
<1>2. s # <<>> => <<Head(s)>> \o Tail(s) = s
  OBVIOUS
<1>3. Tail(<<x>> \o s) = s /\ Head(<<x>> \o s) = x
  OBVIOUS
<1>4. SubSeq(<<x>> \o s, 2, Len(<<x>> \o s)) = s
  OBVIOUS
<1> QED BY <1>1, <1>2, <1>3, <1>4, Zenon

\* The mapping at the process p that the thread t runs.
RunnerSees(t, p) ==
  /\ phaseBar[p] =
       IF ~comissioned[p] THEN "closed"
       ELSE IF state[p] = "BOTTOM" THEN "new"
       ELSE IF state[p] = "TERMINATING" \/ pc[t] \in {"unref", "cleanup"} THEN "dying"
       ELSE "alive"
  /\ inboxBar[p] = IF pc[t] = "got" THEN <<event[t]>> \o events[p] ELSE events[p]
  /\ servingBar[p] = IF pc[t] = "serve" THEN event[t] ELSE None
RunnerOK == \A t \in Thread, p \in Process : Running(t, p) => RunnerSees(t, p)

\* The thread that runs a process fixes what its mailbox shows.
LEMMA RunnerHolds == TypeOK /\ OneToken => RunnerOK
<1> SUFFICES ASSUME TypeOK, OneToken, NEW t \in Thread, NEW p \in Process, Running(t, p)
             PROVE  RunnerSees(t, p)
  BY Zenon DEF RunnerOK
<1>1. BarsOK
  BY BarsHold, Zenon
<1>2. \A u \in Thread : Running(u, p) => u = t
  BY OnlyRunner, Zenon
<1>3. /\ At(p, {"got"}) <=> pc[t] = "got"
      /\ At(p, {"serve"}) <=> pc[t] = "serve"
      /\ At(p, {"unref", "cleanup"}) <=> pc[t] \in {"unref", "cleanup"}
  BY <1>2, Zenon DEF At, Running, OwnPc
<1>4. proc[t] = p
  BY Zenon DEF Running
<1> QED BY <1>1, <1>3, <1>4, Zenon DEF BarsOK, RunnerSees

\* The same in the state after a step.
LEMMA RunnerHoldsNext == TypeOK' /\ OneToken' => RunnerOK'
BY RunnerHolds, PTL

\* A step that changes the mailbox of p only.
LEMMA OnlyMailbox ==
  ASSUME BarsOK, BarsOK', NEW p \in Process, \A q \in Process \ {p} : Same(q)
  PROVE  /\ phaseBar' = [phaseBar EXCEPT ![p] = phaseBar'[p]]
         /\ inboxBar' = [inboxBar EXCEPT ![p] = inboxBar'[p]]
         /\ servingBar' = [servingBar EXCEPT ![p] = servingBar'[p]]
<1>1. \A q \in Process \ {p} : /\ phaseBar'[q] = phaseBar[q]
                              /\ inboxBar'[q] = inboxBar[q]
                              /\ servingBar'[q] = servingBar[q]
  BY SameBars, Zenon
<1> QED BY <1>1 DEF BarsOK

\* EventQueue::enqueue: the mailbox accepts the event.
LEMMA PushAccepts ==
  ASSUME TypeOK, PlacesOK, BarsOK, BarsOK', NEW t \in Thread, PushEvent(t)
  PROVE  A!Next \/ UNCHANGED A!vars
<1> DEFINE e == devent[t]
<1>0. PICK p \in Process : p = dst[t]
  BY Zenon DEF PushEvent, PlacesOK
<1>1. /\ e \in Kind /\ events \in [Process -> Seq(Kind)]
      /\ UNCHANGED <<comissioned, state, pc, proc, event>>
  BY Zenon DEF PushEvent, PlacesOK, TypeOK, ProcTypes, mainVars
<1>2. ASSUME NEW q \in Process, events'[q] = events[q] PROVE Same(q)
  <2>1. ASSUME NEW w \in {{"got"}, {"serve"}, {"unref", "cleanup"}}
        PROVE  At(q, w)' <=> At(q, w)
    BY <1>1, Zenon DEF At
  <2> QED BY <1>1, <1>2, <2>1, Zenon DEF Same
<1>3. CASE ~comissioned[p]
  <2>1. \A q \in Process : events'[q] = events[q]
    BY <1>0, <1>3, Zenon DEF PushEvent
  <2> QED BY <1>2, <2>1, Stutters, Zenon
<1>4. CASE comissioned[p]
  <2>1. events' = [events EXCEPT ![p] = Append(@, e)]
    BY <1>0, <1>4, Zenon DEF PushEvent
  <2>2. \A q \in Process \ {p} : Same(q)
    BY <1>1, <1>2, <2>1, Zenon
  <2>3. /\ phaseBar' = [phaseBar EXCEPT ![p] = phaseBar'[p]]
        /\ inboxBar' = [inboxBar EXCEPT ![p] = inboxBar'[p]]
        /\ servingBar' = [servingBar EXCEPT ![p] = servingBar'[p]]
    BY <1>1, <2>2, OnlyMailbox, Zenon
  <2>4. ASSUME NEW w PROVE At(p, w)' <=> At(p, w)
    BY <1>1, Zenon DEF At
  <2>5. phaseBar'[p] = phaseBar[p] /\ phaseBar[p] # "closed"
    BY <1>1, <1>4, <2>4, SMTT(30) DEF BarsOK
  <2>6. inboxBar'[p] = Append(inboxBar[p], e)
    <3>1. CASE At(p, {"got"})
      <4>1. PICK u \in Thread : proc[u] = p /\ pc[u] = "got"
        BY <3>1, Zenon DEF At
      <4>2. event[u] \in Kind
        BY <4>1, Zenon DEF PlacesOK
      <4>3. inboxBar[p] = <<event[u]>> \o events[p]
        BY <1>1, <4>1, Zenon DEF BarsOK
      <4>4. inboxBar'[p] = <<event[u]>> \o Append(events[p], e)
        BY <1>1, <2>1, <4>1 DEF BarsOK
      <4>5. PICK x, s, d : x = event[u] /\ s = events[p] /\ d = e
        BY Zenon
      <4>6. x \in Kind /\ s \in Seq(Kind) /\ d \in Kind
        BY <1>1, <4>2, <4>5, Zenon
      <4>7. Append(<<x>> \o s, d) = <<x>> \o Append(s, d)
        BY ONLY <4>6, InHandFacts
      <4> QED BY <4>3, <4>4, <4>5, <4>7, Zenon
    <3>2. CASE ~At(p, {"got"})
      BY <1>1, <2>1, <2>4, <3>2, Zenon DEF BarsOK
    <3> QED BY <3>1, <3>2, Zenon
  <2>7. servingBar'[p] = servingBar[p]
    <3>1. CASE At(p, {"serve"})
      <4>1. PICK u \in Thread : proc[u] = p /\ pc[u] = "serve"
        BY <3>1, Zenon DEF At
      <4>2. servingBar[p] = event[u]
        BY <4>1, Zenon DEF BarsOK
      <4>3. servingBar'[p] = event'[u]
        BY <1>1, <4>1, Zenon DEF BarsOK
      <4> QED BY <1>1, <4>2, <4>3, Zenon
    <3>2. CASE ~At(p, {"serve"})
      BY <1>1, <2>4, <3>2, Zenon DEF BarsOK
    <3> QED BY <3>1, <3>2, Zenon
  <2>8. UNCHANGED <<phaseBar, servingBar>>
    BY <1>1, <2>3, <2>5, <2>7 DEF BarsOK
  <2>9. A!Accept(p, e)
    BY <2>3, <2>5, <2>6, <2>8, Zenon DEF A!Accept
  <2> QED BY <1>1, <2>9, Zenon DEF A!Next, A!Kind, Kind
<1> QED BY <1>3, <1>4, Zenon

\* What a step of the runner t of p leaves alone.
LEMMA RunnerMoves ==
  ASSUME TypeOK, BarsOK, BarsOK', NEW t \in Thread, NEW p \in Process,
         proc[t] = p, UNCHANGED proc,
         \A q \in Process \ {p} :
           comissioned'[q] = comissioned[q] /\ state'[q] = state[q]
           /\ events'[q] = events[q],
         \A u \in Thread \ {t} : pc'[u] = pc[u] /\ event'[u] = event[u]
  PROVE  /\ phaseBar' = [phaseBar EXCEPT ![p] = phaseBar'[p]]
         /\ inboxBar' = [inboxBar EXCEPT ![p] = inboxBar'[p]]
         /\ servingBar' = [servingBar EXCEPT ![p] = servingBar'[p]]
<1>1. \A q \in Process \ {p} : Same(q)
  BY OthersSame, Zenon
<1> QED BY <1>1, OnlyMailbox, Zenon

\* resume calls initialize() once, before any event.
LEMMA InitializedStarts ==
  ASSUME TypeOK, PlacesOK, TokenState, OneToken, TypeOK', OneToken', ClosedOK,
         DecomissionOK, NEW t \in Thread, Initialized(t)
  PROVE  A!Next
<1>0. PICK p \in Process : p = proc[t]
  BY Zenon DEF Initialized, PlacesOK
<1>1. BarsOK /\ BarsOK' /\ RunnerOK /\ RunnerOK'
  BY BarsHold, BarsHoldNext, RunnerHolds, RunnerHoldsNext, Zenon
<1>2. /\ proc[t] = p /\ pc[t] = "init" /\ pc'[t] = "loop"
      /\ state[p] = "BOTTOM" /\ state'[p] = "READY" /\ comissioned[p]
      /\ UNCHANGED <<proc, event, events, comissioned>>
  BY <1>0 DEF Initialized, Goto, TokenState, DecomissionOK, TypeOK, MainTypes,
         ProcTypes
<1>3. RunnerSees(t, p) /\ RunnerSees(t, p)'
  <2>1. Running(t, p) /\ Running(t, p)'
    BY <1>2, Zenon DEF Running, OwnPc
  <2> QED BY <1>1, <2>1, Zenon DEF RunnerOK
<1>4. /\ phaseBar' = [phaseBar EXCEPT ![p] = phaseBar'[p]]
      /\ inboxBar' = [inboxBar EXCEPT ![p] = inboxBar'[p]]
      /\ servingBar' = [servingBar EXCEPT ![p] = servingBar'[p]]
  <2>1. \A q \in Process \ {p} : state'[q] = state[q]
    BY <1>0, Zenon DEF Initialized, TypeOK, ProcTypes
  <2>2. \A u \in Thread \ {t} : pc'[u] = pc[u]
    BY Zenon DEF Initialized, Goto, TypeOK, MainTypes
  <2>3. \A q \in Process \ {p} :
          comissioned'[q] = comissioned[q] /\ state'[q] = state[q] /\ events'[q] = events[q]
    BY <1>2, <2>1, Zenon
  <2>4. \A u \in Thread \ {t} : pc'[u] = pc[u] /\ event'[u] = event[u]
    BY <1>2, <2>2, Zenon
  <2> QED BY <1>1, <1>2, <2>3, <2>4, RunnerMoves, Zenon
<1>5. /\ phaseBar[p] = "new" /\ phaseBar'[p] = "alive"
      /\ inboxBar'[p] = inboxBar[p] /\ servingBar'[p] = servingBar[p]
  BY <1>2, <1>3, Zenon DEF RunnerSees
<1>6. A!Start(p)
  BY <1>1, <1>2, <1>4, <1>5 DEF A!Start, BarsOK
<1> QED BY <1>2, <1>6, Zenon DEF A!Next

\* A step of the runner that shows the same mailbox.
LEMMA RunnerStutters ==
  ASSUME BarsOK, BarsOK', NEW p \in Process,
         phaseBar' = [phaseBar EXCEPT ![p] = phaseBar[p]],
         inboxBar' = [inboxBar EXCEPT ![p] = inboxBar[p]],
         servingBar' = [servingBar EXCEPT ![p] = servingBar[p]]
  PROVE  UNCHANGED A!vars
<1>1. phaseBar' = phaseBar /\ inboxBar' = inboxBar /\ servingBar' = servingBar
  BY Zenon DEF BarsOK
<1> QED BY <1>1, Zenon DEF A!vars

\* Taking an event into the hand, dropping the reference before cleanup, and
\* TERMINATING change nothing that a caller can see.
LEMMA InternalStep ==
  ASSUME TypeOK, PlacesOK, TokenState, OneToken, TypeOK', OneToken', NoAbort',
         DecomissionOK, NEW t \in Thread,
         \/ DequeueEvent(t) \/ Cleanup(t) \/ (pc[t] = "unref" /\ ReleaseReference(t))
  PROVE  UNCHANGED A!vars
<1>0. PICK p \in Process : p = proc[t]
  BY Zenon DEF DequeueEvent, Cleanup, ReleaseReference, PlacesOK
<1>1. BarsOK /\ BarsOK' /\ RunnerOK /\ RunnerOK'
  BY BarsHold, BarsHoldNext, RunnerHolds, RunnerHoldsNext, Zenon
<1>2. /\ pc[t] \in {"loop", "cleanup", "unref"} /\ state[p] = "READY" /\ comissioned[p]
      /\ UNCHANGED <<proc, comissioned>>
  BY <1>0, Zenon DEF DequeueEvent, Cleanup, ReleaseReference, TokenState, OwnPc,
         DecomissionOK, procVars
<1>3. pc'[t] \in {"got", "block", "cleanup", "decomission"}
  <2>1. pc'[t] # "abort"
    BY Zenon DEF NoAbort
  <2> QED BY <2>1, Zenon DEF DequeueEvent, Cleanup, ReleaseReference, Goto, TypeOK, MainTypes
<1>4. RunnerSees(t, p) /\ RunnerSees(t, p)'
  <2>1. Running(t, p) /\ Running(t, p)'
    BY <1>0, <1>2, <1>3, Zenon DEF Running, OwnPc, CleanPc
  <2> QED BY <1>1, <2>1, Zenon DEF RunnerOK
<1>5. /\ phaseBar' = [phaseBar EXCEPT ![p] = phaseBar'[p]]
      /\ inboxBar' = [inboxBar EXCEPT ![p] = inboxBar'[p]]
      /\ servingBar' = [servingBar EXCEPT ![p] = servingBar'[p]]
  <2>1. \A q \in Process \ {p} : state'[q] = state[q] /\ events'[q] = events[q]
    BY <1>0, Zenon DEF DequeueEvent, Cleanup, ReleaseReference, procVars, TypeOK, ProcTypes
  <2>2. \A u \in Thread \ {t} : pc'[u] = pc[u] /\ event'[u] = event[u]
    BY Zenon DEF DequeueEvent, Cleanup, ReleaseReference, Goto, TypeOK, MainTypes
  <2>3. \A q \in Process \ {p} :
          comissioned'[q] = comissioned[q] /\ state'[q] = state[q] /\ events'[q] = events[q]
    BY <1>2, <2>1, Zenon
  <2> QED BY <1>0, <1>1, <1>2, <2>2, <2>3, RunnerMoves, Zenon
<1>6. phaseBar'[p] = phaseBar[p]
  <2>1. CASE DequeueEvent(t)
    <3>1. /\ pc[t] = "loop" /\ pc'[t] \in {"got", "block"} /\ state'[p] = "READY"
      BY <1>2, <2>1, Zenon DEF DequeueEvent, Goto, TypeOK, MainTypes
    <3> QED BY <1>2, <1>4, <3>1, Zenon DEF RunnerSees
  <2>2. CASE Cleanup(t)
    <3>1. pc[t] = "cleanup" /\ state'[p] = "TERMINATING"
      BY <1>0, <1>2, <2>2, Zenon DEF Cleanup, TypeOK, ProcTypes
    <3> QED BY <1>2, <1>4, <3>1, Zenon DEF RunnerSees
  <2>3. CASE pc[t] = "unref" /\ ReleaseReference(t)
    <3>1. pc[t] = "unref" /\ pc'[t] = "cleanup" /\ state'[p] = "READY"
      BY <1>2, <2>3, Zenon DEF ReleaseReference, Goto, procVars, TypeOK, MainTypes
    <3> QED BY <1>2, <1>4, <3>1, Zenon DEF RunnerSees
  <2> QED BY <2>1, <2>2, <2>3, Zenon
<1>7. inboxBar'[p] = inboxBar[p]
  <2>1. inboxBar[p] = events[p] /\ events[p] \in Seq(Kind)
    BY <1>2, <1>4, Zenon DEF RunnerSees, TypeOK, ProcTypes
  <2>2. CASE UNCHANGED events /\ pc'[t] # "got"
    BY <1>4, <2>1, <2>2, Zenon DEF RunnerSees
  <2>3. CASE DequeueEvent(t) /\ events[p] # <<>>
    <3>1. /\ pc'[t] = "got" /\ event'[t] = Head(events[p])
          /\ events'[p] = Tail(events[p])
      BY <1>0, <2>3, Zenon DEF DequeueEvent, Goto, TypeOK, MainTypes, ProcTypes
    <3>2. inboxBar'[p] = <<event'[t]>> \o events'[p]
      BY <1>4, <3>1, Zenon DEF RunnerSees
    <3>3. Head(events[p]) \in Kind
      BY <2>1, <2>3, HeadTailFacts, Zenon
    <3> QED BY <2>1, <2>3, <3>1, <3>2, <3>3, InHandFacts, Zenon
  <2> QED BY <1>0, <1>2, <1>3, <2>2, <2>3, Zenon
          DEF DequeueEvent, Cleanup, ReleaseReference, Goto, procVars, TypeOK,
              MainTypes
<1>8. servingBar'[p] = servingBar[p]
  BY <1>2, <1>3, <1>4, Zenon DEF RunnerSees
<1> QED BY <1>1, <1>5, <1>6, <1>7, <1>8, RunnerStutters, Zenon

\* serve returns: the handler of the event is over, and after a terminate event
\* the process takes no other.
LEMMA ServedEnds ==
  ASSUME TypeOK, PlacesOK, TokenState, OneToken, TypeOK', OneToken', DecomissionOK,
         NEW t \in Thread, Served(t)
  PROVE  A!Next
<1>0. PICK p \in Process : p = proc[t]
  BY Zenon DEF Served, PlacesOK
<1>1. BarsOK /\ BarsOK' /\ RunnerOK /\ RunnerOK'
  BY BarsHold, BarsHoldNext, RunnerHolds, RunnerHoldsNext, Zenon
<1>2. /\ pc[t] = "serve" /\ state[p] = "READY" /\ comissioned[p] /\ event[t] \in Kind
      /\ pc'[t] = IF IsTerminate(event[t]) THEN "unref" ELSE "loop"
      /\ UNCHANGED <<proc, state, events, comissioned>>
  BY <1>0, Zenon DEF Served, Goto, procVars, PlacesOK, TokenState, OwnPc, DecomissionOK,
         TypeOK, MainTypes
<1>3. RunnerSees(t, p) /\ RunnerSees(t, p)'
  <2>1. Running(t, p) /\ Running(t, p)'
    BY <1>0, <1>2, Zenon DEF Running, OwnPc
  <2> QED BY <1>1, <2>1, Zenon DEF RunnerOK
<1>4. /\ phaseBar' = [phaseBar EXCEPT ![p] = phaseBar'[p]]
      /\ inboxBar' = [inboxBar EXCEPT ![p] = inboxBar'[p]]
      /\ servingBar' = [servingBar EXCEPT ![p] = servingBar'[p]]
  <2>1. \A u \in Thread \ {t} : pc'[u] = pc[u] /\ event'[u] = event[u]
    BY Zenon DEF Served, Goto, TypeOK, MainTypes
  <2> QED BY <1>0, <1>1, <1>2, <2>1, RunnerMoves, Zenon
<1>5. /\ phaseBar[p] = "alive" /\ servingBar[p] = event[t]
      /\ phaseBar'[p] = IF IsTerminate(event[t]) THEN "dying" ELSE "alive"
      /\ inboxBar'[p] = inboxBar[p] /\ servingBar'[p] = None
  BY <1>2, <1>3, Zenon DEF RunnerSees
<1>6. event[t] # None
  BY <1>2, ConstantsAssumption, Zenon
<1>7. UNCHANGED inboxBar
  BY <1>1, <1>4, <1>5 DEF BarsOK
<1>8. phaseBar' = [phaseBar EXCEPT ![p] =
                     IF A!IsTerminate(servingBar[p]) THEN "dying" ELSE phaseBar[p]]
  BY <1>4, <1>5, Zenon DEF A!IsTerminate, IsTerminate
<1>9. A!End(p)
  BY <1>4, <1>5, <1>6, <1>7, <1>8, Zenon DEF A!End
<1> QED BY <1>9, Zenon DEF A!Next

\* EventQueue::decomission empties the mailbox and closes it.
LEMMA DecomissionCloses ==
  ASSUME TypeOK, PlacesOK, TokenState, OneToken, TypeOK', OneToken', ClosedOK,
         ~LockFreeEvents, NEW t \in Thread, Decomission(t)
  PROVE  A!Next \/ UNCHANGED A!vars
<1>0. PICK p \in Process : p = proc[t]
  BY Zenon DEF Decomission, PlacesOK
<1>1. BarsOK /\ BarsOK' /\ RunnerOK /\ RunnerOK'
  BY BarsHold, BarsHoldNext, RunnerHolds, RunnerHoldsNext, Zenon
<1>2. /\ pc[t] = "decomission" /\ state[p] = "TERMINATING" /\ pc'[t] = "lock"
      /\ ~comissioned'[p] /\ events'[p] = <<>> /\ UNCHANGED <<proc, state, event>>
  BY <1>0, Zenon DEF Decomission, Goto, TokenState, CleanPc, TypeOK, MainTypes, ProcTypes
<1>3. RunnerSees(t, p) /\ RunnerSees(t, p)'
  <2>1. Running(t, p) /\ Running(t, p)'
    BY <1>0, <1>2, Zenon DEF Running, CleanPc
  <2> QED BY <1>1, <2>1, Zenon DEF RunnerOK
<1>4. /\ phaseBar' = [phaseBar EXCEPT ![p] = phaseBar'[p]]
      /\ inboxBar' = [inboxBar EXCEPT ![p] = inboxBar'[p]]
      /\ servingBar' = [servingBar EXCEPT ![p] = servingBar'[p]]
  <2>1. \A u \in Thread \ {t} : pc'[u] = pc[u]
    BY Zenon DEF Decomission, Goto, TypeOK, MainTypes
  <2>2. \A q \in Process \ {p} :
          comissioned'[q] = comissioned[q] /\ events'[q] = events[q]
    BY <1>0, Zenon DEF Decomission, TypeOK, ProcTypes
  <2>3. /\ proc[t] = p /\ UNCHANGED proc
        /\ \A q \in Process \ {p} :
             comissioned'[q] = comissioned[q] /\ state'[q] = state[q] /\ events'[q] = events[q]
        /\ \A u \in Thread \ {t} : pc'[u] = pc[u] /\ event'[u] = event[u]
    BY <1>0, <1>2, <2>1, <2>2, Zenon
  <2> QED BY <1>1, <2>3, RunnerMoves, Zenon
<1>5. /\ phaseBar[p] = IF comissioned[p] THEN "dying" ELSE "closed"
      /\ phaseBar'[p] = "closed" /\ inboxBar'[p] = <<>>
      /\ servingBar'[p] = servingBar[p]
      /\ ~comissioned[p] => inboxBar[p] = <<>>
  BY <1>2, <1>3, Zenon DEF RunnerSees, ClosedOK
<1>6. CASE comissioned[p]
  <2>1. UNCHANGED servingBar
    BY <1>1, <1>4, <1>5 DEF BarsOK
  <2>2. A!Close(p)
    BY <1>4, <1>5, <1>6, <2>1, Zenon DEF A!Close
  <2> QED BY <2>2, Zenon DEF A!Next
<1>7. CASE ~comissioned[p]
  BY <1>1, <1>4, <1>5, <1>7, RunnerStutters, Zenon
<1> QED BY <1>6, <1>7, Zenon

\* The purge and the filter of resume: the next event, or the first terminate
\* event once one was injected, goes to serve, or a test drops an event.
LEMMA ExamineBegins ==
  ASSUME TypeOK, PlacesOK, TokenState, OneToken, TypeOK', OneToken', NoAbort',
         FlagAfterEvent, DecomissionOK, NEW t \in Thread, Examine(t)
  PROVE  A!Next
<1>0. PICK p \in Process : p = proc[t]
  BY Zenon DEF Examine, PlacesOK
<1>1. BarsOK /\ BarsOK' /\ RunnerOK /\ RunnerOK'
  BY BarsHold, BarsHoldNext, RunnerHolds, RunnerHoldsNext, Zenon
<1> DEFINE all == <<event[t]>> \o events[p]
<1>2. /\ pc[t] = "got" /\ state[p] = "READY" /\ comissioned[p] /\ event[t] \in Kind
      /\ events[p] \in Seq(Kind) /\ UNCHANGED <<proc, state, comissioned>>
      /\ event \in [Thread -> Kind \cup {None}] /\ events \in [Process -> Seq(Kind)]
  BY <1>0, Zenon DEF Examine, PlacesOK, TokenState, OwnPc, DecomissionOK, TypeOK, ProcTypes,
         MainTypes
<1>3. pc'[t] \in {"serve", "loop"}
  <2>1. pc'[t] # "abort"
    BY Zenon DEF NoAbort
  <2> QED BY <2>1, Zenon DEF Examine, Goto, TypeOK, MainTypes
<1>4. RunnerSees(t, p) /\ RunnerSees(t, p)'
  <2>1. Running(t, p) /\ Running(t, p)'
    BY <1>0, <1>2, <1>3, Zenon DEF Running, OwnPc
  <2> QED BY <1>1, <2>1, Zenon DEF RunnerOK
<1>5. /\ phaseBar' = [phaseBar EXCEPT ![p] = phaseBar'[p]]
      /\ inboxBar' = [inboxBar EXCEPT ![p] = inboxBar'[p]]
      /\ servingBar' = [servingBar EXCEPT ![p] = servingBar'[p]]
  <2>1. \A u \in Thread \ {t} : pc'[u] = pc[u]
    BY Zenon DEF Examine, Goto, TypeOK, MainTypes
  <2>2. \A u \in Thread \ {t} : event'[u] = event[u]
    BY <1>2, Zenon DEF Examine
  <2>3. \A q \in Process \ {p} : events'[q] = events[q]
    BY <1>0, <1>2, Zenon DEF Examine
  <2>4. /\ proc[t] = p /\ UNCHANGED proc
        /\ \A q \in Process \ {p} :
             comissioned'[q] = comissioned[q] /\ state'[q] = state[q] /\ events'[q] = events[q]
        /\ \A u \in Thread \ {t} : pc'[u] = pc[u] /\ event'[u] = event[u]
    BY <1>0, <1>2, <2>1, <2>2, <2>3, Zenon
  <2> QED BY <1>1, <2>4, RunnerMoves, Zenon
<1>6. /\ phaseBar[p] = "alive" /\ servingBar[p] = None /\ inboxBar[p] = all
      /\ phaseBar'[p] = "alive" /\ inboxBar'[p] = events'[p]
      /\ servingBar'[p] = IF pc'[t] = "serve" THEN event'[t] ELSE None
  BY <1>2, <1>3, <1>4, Zenon DEF RunnerSees
<1>7. UNCHANGED phaseBar
  BY <1>1, <1>5, <1>6 DEF BarsOK
<1>8. /\ all \in Seq(Kind) /\ Len(all) = Len(events[p]) + 1 /\ all[1] = event[t]
      /\ Head(all) = event[t] /\ Tail(all) = events[p]
      /\ SubSeq(all, 2, Len(all)) = events[p] /\ all # <<>>
  <2>1. all \in Seq(Kind) /\ Len(all) = Len(events[p]) + 1 /\ all[1] = event[t]
    BY <1>2, PurgeFacts
  <2>2. /\ Head(all) = event[t] /\ Tail(all) = events[p]
        /\ SubSeq(all, 2, Len(all)) = events[p]
    BY <1>2, InHandFacts
  <2>3. Len(events[p]) \in Nat
    BY <1>2
  <2>4. all # <<>>
    <3> HIDE DEF all
    <3> QED BY <2>1, <2>3
  <2> QED BY <2>1, <2>2, <2>4, Zenon
<1> HIDE DEF all
<1>9. ASSUME NEW k \in 1..Len(all), A!IsNext(p, k), pc'[t] = "serve",
             event'[t] = all[k], events'[p] = SubSeq(all, k + 1, Len(all))
      PROVE  A!Next
  <2>1. /\ servingBar' = [servingBar EXCEPT ![p] = inboxBar[p][k]]
        /\ inboxBar' = [inboxBar EXCEPT ![p] =
                           SubSeq(inboxBar[p], k + 1, Len(inboxBar[p]))]
    BY <1>5, <1>6, <1>9, Zenon
  <2>2. k \in 1..Len(inboxBar[p])
    BY <1>6, Zenon
  <2>3. A!Begin(p)
    BY <1>6, <1>7, <1>9, <2>1, <2>2, Zenon DEF A!Begin
  <2> QED BY <2>3, Zenon DEF A!Next
<1>10. CASE ~termination[p] /\ pc'[t] = "serve" /\ UNCHANGED <<event, events>>
  <2>1. A!IsNext(p, 1)
    BY Zenon DEF A!IsNext
  <2> QED BY <1>2, <1>8, <1>9, <1>10, <2>1
<1>11. CASE /\ ~IsTerminate(event[t]) /\ event'[t] = None /\ UNCHANGED events
            /\ pc'[t] = "loop"
  <2>1. event[t] = "event"
    BY <1>2, <1>11, Zenon DEF Kind, IsTerminate
  <2>2. UNCHANGED servingBar
    BY <1>1, <1>5, <1>6, <1>11 DEF BarsOK
  <2>3. inboxBar' = [inboxBar EXCEPT ![p] = Tail(inboxBar[p])]
    BY <1>5, <1>6, <1>8, <1>11, Zenon
  <2>4. A!Drop(p)
    BY <1>6, <1>7, <1>8, <2>1, <2>2, <2>3, Zenon DEF A!Drop
  <2> QED BY <2>4, Zenon DEF A!Next
<1>12. ASSUME termination[p], NEW k \in 1..Len(all), FirstTerminate(all, k),
              event'[t] = all[k], events'[p] = SubSeq(all, k + 1, Len(all)),
              pc'[t] = "serve"
       PROVE  A!Next
  <2>1. PICK j \in 1..Len(all) : all[j] = "inject"
    BY <1>0, <1>2, <1>12, InjectAhead, Zenon DEF all
  <2>2. j \in k..Len(all)
    BY <1>8, <1>12, <2>1 DEF FirstTerminate, IsTerminate
  <2>3. A!IsNext(p, k)
    BY <1>6, <1>12, <2>1, <2>2, Zenon DEF A!IsNext, A!IsTerminate, FirstTerminate, IsTerminate
  <2> QED BY <1>9, <1>12, <2>3, Zenon
<1>13. \/ /\ ~termination[p] /\ UNCHANGED events
          /\ \/ pc'[t] = "serve" /\ UNCHANGED event
             \/ /\ ~IsTerminate(event[t]) /\ event'[t] = None /\ pc'[t] = "loop"
       \/ /\ termination[p] /\ pc'[t] = "serve"
          /\ \E k \in 1..Len(all) :
               /\ FirstTerminate(all, k) /\ event'[t] = all[k]
               /\ events'[p] = SubSeq(all, k + 1, Len(all))
  BY <1>0, <1>2, <1>3, ZenonT(30) DEF Examine, Goto, TypeOK, MainTypes, all
<1> QED BY <1>10, <1>11, <1>12, <1>13, Zenon

\* Only cleanup decomissions a queue, after it has made the process TERMINATING.
LEMMA DecomissionStep ==
  ASSUME TypeOK, TokenState, PlacesOK, DecomissionOK, NEW t \in Thread,
         ThreadStep(t) \/ Call(t),
         \A p \in Process : state[p] = "TERMINATING" => state'[p] = "TERMINATING"
  PROVE  DecomissionOK'
<1>1. CASE Decomission(t)
  <2>1. state[proc[t]] = "TERMINATING"
    BY <1>1, Zenon DEF Decomission, TokenState, CleanPc
  <2>2. \A p \in Process : ~comissioned'[p] => ~comissioned[p] \/ p = proc[t]
    BY <1>1, Zenon DEF Decomission, TypeOK, ProcTypes
  <2> QED BY <2>1, <2>2, Zenon DEF DecomissionOK
<1>2. CASE UNCHANGED comissioned
  BY <1>2, Zenon DEF DecomissionOK
<1> QED BY <1>1, <1>2, ZenonT(30)
        DEF ThreadStep, SendStep, LoadState, PushEvent, StoreTermination,
            WakeIfBlocked, RunqPush, RunqSignal, ResumeStep, Resume, Initialized,
            DequeueEvent, Block, Recheck, Unblock, Examine, Served,
            ReleaseReference, CleanupStep, Cleanup, ResetReference, EraseProcess,
            OpenGate, DeleteManaged, WaitStep, Inspect, Extract, GateWait,
            RunqWait, RunqDequeue, Call, Deliver, Spawn, WaitUse, procVars

\* Every step of a thread is a step of the mailbox or one it does not show.
LEMMA StepRefines ==
  ASSUME IInv, IInv', ClosedOK, DecomissionOK, ~LockFreeEvents,
         NEW t \in Thread, ThreadStep(t) \/ Call(t)
  PROVE  A!Next \/ UNCHANGED A!vars
<1> USE DEF IInv
<1>1. BarsOK /\ BarsOK'
  BY BarsHold, BarsHoldNext, Zenon
<1>2. CASE PushEvent(t)
  BY <1>1, <1>2, PushAccepts, Zenon
<1>3. CASE Initialized(t)
  BY <1>3, InitializedStarts, Zenon
<1>4. CASE DequeueEvent(t) \/ Cleanup(t) \/ (pc[t] = "unref" /\ ReleaseReference(t))
  BY <1>4, InternalStep, Zenon
<1>5. CASE Examine(t)
  BY <1>5, ExamineBegins, Zenon
<1>6. CASE Served(t)
  BY <1>6, ServedEnds, Zenon
<1>7. CASE Decomission(t)
  BY <1>7, DecomissionCloses, Zenon
<1>8. CASE \/ LoadState(t) \/ StoreTermination(t) \/ WakeIfBlocked(t) \/ RunqPush(t)
           \/ RunqSignal(t) \/ RunqWait(t) \/ RunqDequeue(t) \/ Resume(t) \/ Block(t)
           \/ Recheck(t) \/ Unblock(t) \/ (pc[t] = "release" /\ ReleaseReference(t))
           \/ ResetReference(t) \/ EraseProcess(t) \/ OpenGate(t) \/ DeleteManaged(t)
           \/ WaitStep(t) \/ Call(t)
  BY <1>1, <1>8, HiddenStep, Zenon
<1>9. ReleaseReference(t) => pc[t] \in {"release", "unref"}
  BY Zenon DEF ReleaseReference
<1> QED BY <1>2, <1>3, <1>4, <1>5, <1>6, <1>7, <1>8, <1>9, Zenon
        DEF ThreadStep, SendStep, ResumeStep, CleanupStep

\* At the start every process is new and its mailbox empty.
LEMMA InitRefines == Init => A!Init /\ DecomissionOK
<1> SUFFICES ASSUME Init PROVE A!Init /\ DecomissionOK
  BY Zenon
<1>1. \A p \in Process, w \in {{"got"}, {"serve"}, {"unref", "cleanup"}} : ~At(p, w)
  BY Zenon DEF Init, At
<1>2. \A p \in Process : comissioned[p] /\ state[p] = "BOTTOM" /\ events[p] = <<>>
  BY Zenon DEF Init
<1>3. phaseBar = [p \in Process |-> "new"]
  BY <1>2, Zenon DEF phaseBar, Phase
<1>4. inboxBar = [p \in Process |-> <<>>]
  BY <1>1, <1>2, Zenon DEF inboxBar
<1>5. servingBar = [p \in Process |-> None]
  BY <1>1, Zenon DEF servingBar
<1> QED BY <1>2, <1>3, <1>4, <1>5, Zenon DEF A!Init, DecomissionOK

\* With the locking event queue, resume, enqueue, the purge, donation and cleanup
\* implement the mailbox of module Actor, for every number of threads and events.
THEOREM ImplementsMailbox ==
  ASSUME ~LockFreeEvents PROVE Spec => ImplementsActor
<1>1. IInv /\ DecomissionOK /\ [Next]_vars => DecomissionOK'
  <2>1. ASSUME DecomissionOK, UNCHANGED vars PROVE DecomissionOK'
    BY <2>1, Zenon DEF DecomissionOK, vars, procVars
  <2>2. ASSUME IInv, DecomissionOK, NEW t \in Thread, ThreadStep(t) \/ Call(t)
        PROVE  DecomissionOK'
    BY <2>2, FinalStep, DecomissionStep, Zenon DEF IInv
  <2> QED BY <2>1, <2>2, Zenon DEF Next
<1>2. Spec => []DecomissionOK
  BY <1>1, InitRefines, Invariance, PTL DEF Spec
<1>3. IInv /\ IInv' /\ ClosedOK /\ DecomissionOK /\ [Next]_vars => [A!Next]_(A!vars)
  <2>1. ASSUME UNCHANGED vars PROVE UNCHANGED A!vars
    BY <2>1, Zenon DEF vars, procVars, mainVars, A!vars, phaseBar, inboxBar, servingBar,
           Phase, At, EventOf
  <2>2. ASSUME IInv, IInv', ClosedOK, DecomissionOK, Next
        PROVE  A!Next \/ UNCHANGED A!vars
    BY <2>2, StepRefines, Zenon DEF Next
  <2> QED BY <2>1, <2>2, Zenon
<1>4. Spec => A!Spec
  BY <1>2, <1>3, InitRefines, Invariance, ClosedInvariance, PTL DEF Spec, A!Spec
<1> QED BY <1>4, Zenon DEF ImplementsActor
=============================================================================

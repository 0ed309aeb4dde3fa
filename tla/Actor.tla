------------------------------- MODULE Actor --------------------------------
(***************************************************************************)
(* What libprocess promises of a process, without threads, run queues or   *)
(* references: initialize() runs first, events are served one at a time in *)
(* the order they were accepted, a terminate event is the last one served, *)
(* an injected one overtakes the events queued before it, and after that   *)
(* whatever is still queued is deleted and nothing more is accepted.       *)
(***************************************************************************)
EXTENDS Naturals, Sequences

CONSTANTS Process, None

Kind == {"event", "terminate", "inject"}
IsTerminate(e) == e \in {"terminate", "inject"}

VARIABLES phase, inbox, serving
vars == <<phase, inbox, serving>>

Init ==
  /\ phase = [p \in Process |-> "new"]
  /\ inbox = [p \in Process |-> <<>>]
  /\ serving = [p \in Process |-> None]

Accept(p, e) ==
  /\ phase[p] # "closed"
  /\ inbox' = [inbox EXCEPT ![p] = Append(@, e)]
  /\ UNCHANGED <<phase, serving>>

Start(p) ==
  /\ phase[p] = "new"
  /\ phase' = [phase EXCEPT ![p] = "alive"]
  /\ UNCHANGED <<inbox, serving>>

\* The next event, or the first terminate event once one has been injected.
IsNext(p, k) ==
  \/ k = 1
  \/ /\ IsTerminate(inbox[p][k])
     /\ \A j \in 1..(k - 1) : ~IsTerminate(inbox[p][j])
     /\ \E j \in k..Len(inbox[p]) : inbox[p][j] = "inject"

Begin(p) ==
  /\ phase[p] = "alive" /\ serving[p] = None
  /\ \E k \in 1..Len(inbox[p]) :
       /\ IsNext(p, k)
       /\ serving' = [serving EXCEPT ![p] = inbox[p][k]]
       /\ inbox' = [inbox EXCEPT ![p] = SubSeq(@, k + 1, Len(@))]
  /\ UNCHANGED phase

\* A Filter installed by a test drops the next event.
Drop(p) ==
  /\ phase[p] = "alive" /\ serving[p] = None
  /\ inbox[p] # <<>> /\ Head(inbox[p]) = "event"
  /\ inbox' = [inbox EXCEPT ![p] = Tail(@)]
  /\ UNCHANGED <<phase, serving>>

End(p) ==
  /\ serving[p] # None
  /\ serving' = [serving EXCEPT ![p] = None]
  /\ phase' = [phase EXCEPT ![p] = IF IsTerminate(serving[p]) THEN "dying" ELSE @]
  /\ UNCHANGED inbox

Close(p) ==
  /\ phase[p] = "dying"
  /\ phase' = [phase EXCEPT ![p] = "closed"]
  /\ inbox' = [inbox EXCEPT ![p] = <<>>]
  /\ UNCHANGED serving

Next ==
  \E p \in Process :
    \/ \E e \in Kind : Accept(p, e)
    \/ Start(p) \/ Begin(p) \/ Drop(p) \/ End(p) \/ Close(p)

Spec == Init /\ [][Next]_vars
=============================================================================

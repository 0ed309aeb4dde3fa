------------------------------ MODULE Sequence ------------------------------
(***************************************************************************)
(* process::Sequence (include/process/sequence.hpp).  Callback k is the    *)
(* k-th that is added; F[k] is the future its add() returns and N[k] the   *)
(* notifier that its completion sets, which invokes callback k + 1.  The   *)
(* steps of notified() belong to the thread that set the notifier before.  *)
(***************************************************************************)
EXTENDS Naturals, Sequences

CONSTANTS MaxAdds

VARIABLES
  added,      \* the number of callbacks added
  F,          \* F[k]: "pending", "ready" or "discarded"
  Fdiscard,   \* F[k] has a discard request
  N,          \* N[k]: is the notifier set?
  Ndiscard,   \* N[k] has a discard request
  place,      \* of callback k: "waits", "check", "call", "associate", "runs",
              \* "completed" or "over"
  result,     \* the future callback k returned: "none", "pending", "ready", "discarded"
  asked,      \* it has a discard request
  alive,
  cascade     \* where finalize() is: <<"N", k>> or <<"F", k>>, or over

vars == <<added, F, Fdiscard, N, Ndiscard, place, result, asked, alive, cascade>>

K == 1..MaxAdds
Nowhere == <<"over", 0>>

Init ==
  /\ added = 0 /\ alive = TRUE /\ cascade = Nowhere
  /\ F = [k \in K |-> "pending"] /\ Fdiscard = [k \in K |-> FALSE]
  /\ N = [k \in K |-> FALSE] /\ Ndiscard = [k \in K |-> FALSE]
  /\ place = [k \in K |-> "waits"] /\ result = [k \in K |-> "none"]
  /\ asked = [k \in K |-> FALSE]

\* add(): callback k is notified at once if the notifier before it is set.
add ==
  LET k == added + 1 IN
  /\ alive /\ added < MaxAdds /\ added' = k
  /\ place' = IF k = 1 \/ N[added] THEN [place EXCEPT ![k] = "check"] ELSE place
  /\ UNCHANGED <<F, Fdiscard, N, Ndiscard, result, asked, alive, cascade>>

Complete(k, how) ==
  F' = [F EXCEPT ![k] = how] /\ place' = [place EXCEPT ![k] = "completed"]

\* The callback on F[k] sets N[k], and that notifies callback k + 1.
completed(k) ==
  /\ place[k] = "completed" /\ N' = [N EXCEPT ![k] = TRUE]
  /\ place' = [j \in K |-> IF j = k THEN "over"
                           ELSE IF j = k + 1 /\ j <= added THEN "check" ELSE place[j]]
  /\ UNCHANGED <<added, F, Fdiscard, Ndiscard, result, asked, alive, cascade>>

\* MUTANT: a callback that is skipped does not complete its future.
notified_forgets(k) ==
  /\ place[k] = "check"
  /\ place' = [place EXCEPT ![k] = IF Fdiscard[k] THEN "over" ELSE "call"]
  /\ UNCHANGED <<added, F, Fdiscard, N, Ndiscard, result, asked, alive, cascade>>

\* notified(): a callback whose future has a discard request is skipped.
notified(k) ==
  /\ place[k] = "check"
  /\ IF Fdiscard[k] THEN Complete(k, "discarded")
     ELSE place' = [place EXCEPT ![k] = "call"] /\ UNCHANGED F
  /\ UNCHANGED <<added, Fdiscard, N, Ndiscard, result, asked, alive, cascade>>

Call(k) ==
  /\ place[k] = "call" /\ place' = [place EXCEPT ![k] = "associate"]
  /\ result' = [result EXCEPT ![k] = "pending"]
  /\ UNCHANGED <<added, F, Fdiscard, N, Ndiscard, asked, alive, cascade>>

\* From here on a discard of F[k] is passed on to the future of the callback.
Associate(k) ==
  /\ place[k] = "associate" /\ place' = [place EXCEPT ![k] = "runs"]
  /\ asked' = [asked EXCEPT ![k] = @ \/ Fdiscard[k]]
  /\ UNCHANGED <<added, F, Fdiscard, N, Ndiscard, result, alive, cascade>>

\* The future of the callback completes, discarded only if it was asked to be.
ResultEnds(k, how) ==
  /\ result[k] = "pending" /\ (how = "discarded" => asked[k])
  /\ result' = [result EXCEPT ![k] = how]
  /\ UNCHANGED <<added, F, Fdiscard, N, Ndiscard, place, asked, alive, cascade>>

Propagate(k) ==
  /\ place[k] = "runs" /\ result[k] # "pending"
  /\ Complete(k, result[k])
  /\ UNCHANGED <<added, Fdiscard, N, Ndiscard, result, asked, alive, cascade>>

\* F[k].discard().
DiscardF(k) ==
  /\ Fdiscard' = [Fdiscard EXCEPT ![k] = @ \/ F[k] = "pending"]
  /\ asked' = [asked EXCEPT ![k] = @ \/ (F[k] = "pending" /\ place[k] = "runs")]

UserDiscard(k) ==
  /\ k <= added /\ F[k] = "pending" /\ ~Fdiscard[k] /\ DiscardF(k)
  /\ UNCHANGED <<added, F, N, Ndiscard, place, result, alive, cascade>>

\* finalize(), after every add() before the destructor: discards the last notifier.
finalize ==
  /\ alive /\ alive' = FALSE
  /\ cascade' = IF added = 0 THEN Nowhere ELSE <<"N", added>>
  /\ UNCHANGED <<added, F, Fdiscard, N, Ndiscard, place, result, asked>>

\* N[k].discard() has no effect once the notifier is set.
CascadeN(k) ==
  /\ cascade = <<"N", k>>
  /\ cascade' = IF N[k] THEN Nowhere ELSE <<"F", k>>
  /\ Ndiscard' = [Ndiscard EXCEPT ![k] = ~N[k]]
  /\ UNCHANGED <<added, F, Fdiscard, N, place, result, asked, alive>>

\* MUTANT: the callback that discards the notifier before is missing.
CascadeF_one(k) ==
  /\ cascade = <<"F", k>> /\ DiscardF(k)
  /\ cascade' = Nowhere
  /\ UNCHANGED <<added, F, N, Ndiscard, place, result, alive>>

\* The callbacks on the discard of N[k]: they discard F[k] and then N[k - 1].
CascadeF(k) ==
  /\ cascade = <<"F", k>> /\ DiscardF(k)
  /\ cascade' = IF k = 1 THEN Nowhere ELSE <<"N", k - 1>>
  /\ UNCHANGED <<added, F, N, Ndiscard, place, result, alive>>

Threads ==
  \E k \in K : \/ notified(k) \/ Call(k) \/ Associate(k) \/ Propagate(k)
               \/ completed(k) \/ CascadeN(k) \/ CascadeF(k)
Ends == \E k \in K : ResultEnds(k, "ready") \/ ResultEnds(k, "discarded")
Next == add \/ Threads \/ Ends \/ (\E k \in K : UserDiscard(k)) \/ finalize
Spec == Init /\ [][Next]_vars
FairSpec == Spec /\ WF_vars(Threads) /\ WF_vars(\E k \in K : ResultEnds(k, "discarded"))

-----------------------------------------------------------------------------
TypeOK ==
  /\ added \in 0..MaxAdds /\ F \in [K -> {"pending", "ready", "discarded"}]
  /\ place \in [K -> {"waits", "check", "call", "associate", "runs", "completed",
                     "over"}]
  /\ result \in [K -> {"none", "pending", "ready", "discarded"}]
  /\ Fdiscard \in [K -> BOOLEAN] /\ N \in [K -> BOOLEAN] /\ Ndiscard \in [K -> BOOLEAN]
  /\ asked \in [K -> BOOLEAN] /\ alive \in BOOLEAN

(***************************************************************************)
(* A callback is invoked only when the futures of all callbacks before it  *)
(* are complete, so that no two are under way; a notifier is set only when *)
(* its future is complete; and once finalize() is over every future that   *)
(* is still pending has a discard request, which has reached the callback  *)
(* if it is running: a race of finalize() along the chain of notifiers     *)
(* with callbacks that complete leaves none out.                           *)
(***************************************************************************)
Safe ==
  /\ TypeOK
  /\ \A k \in K : result[k] # "none" => \A j \in 1..(k - 1) : F[j] # "pending"
  /\ \A k \in K : N[k] => F[k] # "pending"
  /\ \A k \in K : ~alive /\ cascade = Nowhere /\ k <= added /\ F[k] = "pending" =>
       Fdiscard[k] /\ (place[k] = "runs" => asked[k])

\* Once the sequence is destructed, every future that add() returned completes.
Owed == ~alive
Paid == \A k \in 1..added : F[k] # "pending"
Ended == Owed ~> Paid
=============================================================================

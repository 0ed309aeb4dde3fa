----------------------------- MODULE HttpServer -----------------------------
(***************************************************************************)
(* http::Server (ServerProcess in src/http.cpp): an accept loop that runs  *)
(* in the process, the clients it serves, and stopping with a grace period.*)
(* Deferred callbacks of the process are steps of their own, in any order. *)
(***************************************************************************)
EXTENDS Naturals, FiniteSets

CONSTANTS Client   \* the sockets that may connect

VARIABLES
  state,       \* of the StateMachine
  accepting,   \* the accept loop
  acceptDiscard,
  socket,      \* the accepted socket the loop body has been dispatched with
  clients,
  serving,     \* serving[c]: "none", "pending" or "ended" (see HttpServe)
  discards,    \* clients whose serving was discarded
  erasing,     \* clients whose erase has been dispatched
  stop, waiting,   \* phase of stop(), and the clients it awaits
  run,         \* the future of run()
  alive        \* has the process not been finalized?

vars == <<state, accepting, acceptDiscard, socket, clients, serving, discards, erasing,
          stop, waiting, run, alive>>

Ended == {"ready", "failed", "discarded"}
NoSocket == {}

Init ==
  /\ state = "INITIALIZED" /\ accepting = "none" /\ acceptDiscard = FALSE
  /\ socket = NoSocket
  /\ clients = {} /\ serving = [c \in Client |-> "none"]
  /\ discards = {} /\ erasing = {}
  /\ stop = "none" /\ waiting = {} /\ run = "none" /\ alive = TRUE

-----------------------------------------------------------------------------
\* run().
Run ==
  /\ alive /\ state = "INITIALIZED"
  /\ state' = "RUNNING" /\ accepting' = "accept" /\ run' = "pending"
  /\ UNCHANGED <<acceptDiscard, socket, clients, serving, discards, erasing, stop,
                 waiting, alive>>

\* accept() completes, and the body of the loop is dispatched.
Accept(c) ==
  /\ accepting = "accept" /\ serving[c] = "none"
  /\ accepting' = "body" /\ socket' = {c}
  /\ UNCHANGED <<state, acceptDiscard, clients, serving, discards, erasing, stop,
                 waiting, run, alive>>

AcceptEnds(how) ==
  /\ accepting = "accept" /\ (how = "discarded" => acceptDiscard)
  /\ accepting' = how
  /\ UNCHANGED <<state, acceptDiscard, socket, clients, serving, discards, erasing, stop,
                 waiting, run, alive>>

\* MUTANT: the body does not look at the state.
BodyUnchecked ==
  /\ alive /\ accepting = "body" /\ socket' = NoSocket
  /\ accepting' = "accept" /\ clients' = clients \cup socket
  /\ serving' = [c \in Client |-> IF c \in socket THEN "pending" ELSE serving[c]]
  /\ UNCHANGED <<state, acceptDiscard, discards, erasing, stop, waiting, run, alive>>

\* The body: a server that is stopping drops the socket and breaks.
Body ==
  /\ alive /\ accepting = "body" /\ socket' = NoSocket
  /\ IF state = "STOPPING"
       THEN accepting' = "ready" /\ UNCHANGED <<clients, serving>>
       ELSE /\ accepting' = "accept" /\ clients' = clients \cup socket
            /\ serving' = [c \in Client |-> IF c \in socket THEN "pending" ELSE serving[c]]
  /\ UNCHANGED <<state, acceptDiscard, discards, erasing, stop, waiting, run, alive>>

\* A client is served (HttpServe), which dispatches its erase.
ServingEnds(c) ==
  /\ serving[c] = "pending"
  /\ serving' = [serving EXCEPT ![c] = "ended"] /\ erasing' = erasing \cup {c}
  /\ UNCHANGED <<state, accepting, acceptDiscard, socket, clients, discards, stop,
                 waiting, run, alive>>
Erase(c) ==
  /\ alive /\ c \in erasing
  /\ erasing' = erasing \ {c} /\ clients' = clients \ {c}
  /\ UNCHANGED <<state, accepting, acceptDiscard, socket, serving, discards, stop,
                 waiting, run, alive>>

\* stop(): await the clients there are.
Stop(how) ==
  /\ state = "RUNNING" /\ state' = "STOPPING"
  /\ stop' = "await" /\ waiting' = clients /\ run' = how
  /\ acceptDiscard' = TRUE

CallStop ==
  /\ alive /\ Stop(run)
  /\ UNCHANGED <<accepting, socket, clients, serving, discards, erasing, alive>>

\* MUTANT: the clients are not discarded.
GraceExpiresOnly ==
  /\ alive /\ stop = "await" /\ ~(\A c \in waiting : serving[c] = "ended")
  /\ stop' = "forced" /\ waiting' = clients /\ discards' = discards
  /\ UNCHANGED <<state, accepting, acceptDiscard, socket, clients, serving, erasing, run,
                 alive>>

\* The grace period expires: the clients that are left are discarded.
GraceExpires ==
  /\ alive /\ stop = "await" /\ ~(\A c \in waiting : serving[c] = "ended")
  /\ stop' = "forced" /\ waiting' = clients /\ discards' = discards \cup clients
  /\ UNCHANGED <<state, accepting, acceptDiscard, socket, clients, serving, erasing, run,
                 alive>>

\* All awaited clients have ended; the accept loop is awaited next.
Drained ==
  /\ alive /\ stop \in {"await", "forced"} /\ \A c \in waiting : serving[c] = "ended"
  /\ stop' = "drained" /\ clients' = {}
  /\ UNCHANGED <<state, accepting, acceptDiscard, socket, serving, discards, erasing,
                 waiting, run, alive>>

\* STOPPED: those who wait for it are notified.
Stopped ==
  /\ alive /\ stop = "drained" /\ accepting \in Ended
  /\ stop' = "done" /\ state' = "STOPPED"
  /\ run' = CASE run = "when" -> "ready" [] run = "own" -> "failed" [] OTHER -> run
  /\ UNCHANGED <<accepting, acceptDiscard, socket, clients, serving, discards, erasing,
                 waiting, alive>>

\* The callbacks of run() on the accept loop: it waits until the server has
\* stopped, and stops it if nobody else does.
AcceptLoopEnded ==
  /\ alive /\ run = "pending" /\ accepting \in Ended
  /\ \/ accepting # "ready" /\ Stop("own")
     \/ /\ accepting = "ready" \/ state # "RUNNING"
        /\ run' = IF state = "STOPPED" THEN "ready" ELSE "when"
        /\ UNCHANGED <<state, stop, waiting, acceptDiscard>>
  /\ UNCHANGED <<accepting, socket, clients, serving, discards, erasing, alive>>

\* The caller discards the future of run().
DiscardRun ==
  /\ run = "pending" /\ ~acceptDiscard /\ acceptDiscard' = TRUE
  /\ UNCHANGED <<state, accepting, socket, clients, serving, discards, erasing, stop,
                 waiting, run, alive>>

\* finalize(), by ~Server.
Finalize ==
  /\ alive /\ alive' = FALSE
  /\ acceptDiscard' = TRUE /\ discards' = discards \cup clients /\ clients' = {}
  /\ UNCHANGED <<state, accepting, socket, serving, erasing, stop, waiting, run>>

Process == Body \/ (\E c \in Client : Erase(c)) \/ GraceExpires \/ Drained
           \/ Stopped \/ AcceptLoopEnded
DiscardEnds == \E c \in discards : ServingEnds(c)
Next ==
  \/ Process \/ Run \/ CallStop \/ DiscardRun \/ Finalize
  \/ \E c \in Client : Accept(c) \/ ServingEnds(c)
  \/ \E how \in {"failed", "discarded"} : AcceptEnds(how)

\* The process is scheduled, a discarded accept completes, and a discarded
\* client ends (HttpServe's ServingEnds).
Spec == Init /\ [][Next]_vars
Fairness ==
  WF_vars(Process) /\ WF_vars(AcceptEnds("discarded")) /\ WF_vars(DiscardEnds)
FairSpec == Spec /\ Fairness

-----------------------------------------------------------------------------
\* A server that has stopped serves no one and accepts no one.
StoppedIsQuiet ==
  state = "STOPPED" => accepting \in Ended /\ \A c \in Client : serving[c] # "pending"

\* stop() misses no client: the accept loop adds none behind its back.
NoClientMissed ==
  stop # "none" => \A c \in Client : serving[c] = "pending" => c \in waiting

\* No one is served on by a server that is gone.
FinalizeDiscardsAll ==
  ~alive => \A c \in Client : serving[c] = "pending" => c \in discards

\* stop() completes.
\* run() completes once the accept loop has ended or was discarded.
Owed(k) ==
  \/ k = 1 /\ state = "STOPPING"
  \/ k = 2 /\ run = "pending" /\ (acceptDiscard \/ accepting \in Ended)
Paid(k) ==
  ~alive \/ (k = 1 /\ state = "STOPPED") \/ (k = 2 /\ run \in {"ready", "failed"})
ServerEnds == \A k \in 1..2 : Owed(k) ~> Paid(k)

\* stop and finalize reach every client.
Safe == StoppedIsQuiet /\ NoClientMissed /\ FinalizeDiscardsAll
=============================================================================

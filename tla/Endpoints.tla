----------------------------- MODULE Endpoints -----------------------------
(***************************************************************************)
(* From a decoded request to the handler of an endpoint (src/process.cpp): *)
(* ProcessManager::handle on the thread of the connection, then            *)
(* ProcessBase::consume(HttpEvent) and _consume in the receiving process,  *)
(* with the authenticator manager (src/authenticator_manager.cpp), the     *)
(* authorization callbacks and the sequence that keeps requests in order.  *)
(* A path is the sequence of its decoded tokens, "%" one that does not     *)
(* decode.  Requests 1, 2, ... arrive in this order on one connection: a   *)
(* request is decoded when the body of the one before it is complete.      *)
(***************************************************************************)
EXTENDS Naturals, Sequences, SequencesExt

CONSTANTS
  Processes,    \* the ids of the processes
  Delegate,     \* the id requests without a receiver are delegated to, or None
  Routes,       \* Routes[p]: the names with a handler, sequences of tokens
  Realm,        \* the routes <<p, name>> with a realm
  Streaming,    \* the routes <<p, name>> that take the body as a pipe
  Inputs,       \* the requests that may arrive: [kind, path]
  MaxRequests, MaxChanges, None

VARIABLES
  request,       \* request[r]: what arrived; path is rewritten for the delegate
  arrived,       \* the number of requests that arrived
  at,            \* where the connection's thread is with request r
  receiver,      \* receiver[r]: the process it is delivered to
  alive,         \* alive[p]: p is in `processes'
  mailbox,       \* mailbox[p]: its events, <<what, r>>
  converting,    \* requests whose body is awaited by convert()
  sequence,      \* sequence[p]: the futures in p's httpSequence, <<what, r>>
  manager,       \* the mailbox of the authenticator manager
  authenticator, \* has the realm an authenticator?
  authn, authz,  \* the authentication and authorization futures of request r
  callbacks,     \* the installed authorization callbacks: a version, 0 is none
  loaded,        \* loaded[p]: <<r, version>> after the unlocked load, or None
  firewall,      \* do the firewall rules reject?
  response,      \* response[r]: the state of its response future
  calls,         \* the requests passed to a handler or a message's receiver, in order
  changes,       \* changes to the installed objects so far
  aborted        \* a CHECK failed or freed callbacks were used

vars == <<request, arrived, at, receiver, alive, mailbox, converting, sequence, manager,
          authenticator, authn, authz, callbacks, loaded, firewall, response, calls,
          changes, aborted>>
auth == <<sequence, manager, authenticator, authn, authz, callbacks, loaded>>

R == 1..MaxRequests

\* Authorization callbacks may have been installed before.
Init ==
  /\ request = [r \in R |-> None] /\ arrived = 0 /\ at = [r \in R |-> "new"]
  /\ receiver = [r \in R |-> None] /\ alive = [p \in Processes |-> TRUE]
  /\ mailbox = [p \in Processes |-> <<>>] /\ converting = {}
  /\ sequence = [p \in Processes |-> <<>>] /\ manager = <<>> /\ authenticator = FALSE
  /\ authn = [r \in R |-> "none"] /\ authz = [r \in R |-> "none"]
  /\ callbacks \in {0, 1} /\ loaded = [p \in Processes |-> None] /\ firewall = FALSE
  /\ response = [r \in R |-> "none"] /\ calls = <<>> /\ changes = 0 /\ aborted = FALSE

Go(r, s) == at' = [at EXCEPT ![r] = s]
Post(p, e) == mailbox' = [mailbox EXCEPT ![p] = Append(@, e)]

\* The response future of r completes, unless it did: a promise is set only once.
Answer(r, s) == response' = [response EXCEPT ![r] = IF @ = "none" THEN s ELSE @]

-----------------------------------------------------------------------------
(* ProcessManager::handle *)

\* use(pid): is there such a process?
Use(p) == p \in Processes /\ alive[p]

\* The decoder hands over the next request once the body of the last one ended.
Arrive(i) ==
  LET r == arrived + 1 IN
  /\ arrived < MaxRequests /\ (arrived > 0 => at[arrived] = "over")
  /\ arrived' = r /\ request' = [request EXCEPT ![r] = i] /\ Go(r, "handle")
  /\ UNCHANGED <<receiver, alive, mailbox, converting, auth, firewall, response, calls,
                 changes, aborted>>

\* An error that is answered at once; the body is still to come.
Reject(r, s) ==
  /\ Go(r, "body") /\ Answer(r, s)
  /\ UNCHANGED <<request, arrived, receiver, alive, mailbox, converting, auth, firewall,
                 calls, changes, aborted>>

BadPath(r) == at[r] = "handle" /\ request[r].kind = "bad path" /\ Reject(r, "400")
Relative(r) == at[r] = "handle" /\ request[r].kind = "relative" /\ Reject(r, "404")

\* A libprocess message: parse() waits for the body.
Message(r) ==
  /\ at[r] = "handle" /\ request[r].kind \in {"message", "bad sender"}
  /\ Go(r, "message")
  /\ UNCHANGED <<request, arrived, receiver, alive, mailbox, converting, auth, firewall,
                 response, calls, changes, aborted>>

\* The body ended: the continuation runs before the next request is decoded.
Parsed(r) ==
  /\ at[r] = "message" /\ Go(r, "over")
  /\ LET path == request[r].path
         to == IF path = <<>> THEN None ELSE Head(path) IN
     \/ to = "%" /\ Answer(r, "500") /\ UNCHANGED mailbox
     \/ to # "%" /\ request[r].kind = "bad sender" /\ Answer(r, "400") /\ UNCHANGED mailbox
     \/ /\ to # "%" /\ request[r].kind = "message"
        /\ Answer(r, IF Use(to) THEN "202" ELSE "404")
        /\ IF Use(to) THEN Post(to, <<"message", r>>) ELSE UNCHANGED mailbox
  /\ UNCHANGED <<request, arrived, receiver, alive, converting, auth, firewall, calls,
                 changes, aborted>>

\* Determine a receiver, or else delegate, and rewrite the path.
Route(r) ==
  LET path == request[r].path
      root == path = <<>> /\ Delegate # None
      to == IF root THEN Delegate ELSE IF path = <<>> THEN None ELSE Head(path)
      path1 == IF root THEN <<Delegate>> ELSE path
      delegated == ~Use(to) /\ Delegate # None IN
  /\ at[r] = "handle" /\ request[r].kind = "http" /\ Go(r, "firewall")
  /\ receiver' = [receiver EXCEPT ![r] = IF delegated THEN Delegate ELSE to]
  /\ request' = [request EXCEPT ![r].path =
                   IF delegated THEN <<Delegate>> \o path1 ELSE path1]
  /\ UNCHANGED <<arrived, alive, mailbox, converting, auth, firewall, response, calls,
                 changes, aborted>>

\* The firewall rules, under their mutex.
Firewall(r) ==
  /\ at[r] = "firewall"
  /\ \/ firewall /\ Reject(r, "403")
     \/ /\ ~firewall /\ Go(r, "use")
        /\ UNCHANGED <<request, arrived, receiver, alive, mailbox, converting, auth,
                       firewall, response, calls, changes, aborted>>

Used(r) ==
  /\ at[r] = "use"
  /\ \/ ~Use(receiver[r]) /\ Reject(r, "404")
     \/ /\ Use(receiver[r]) /\ Go(r, "deliver")
        /\ UNCHANGED <<request, arrived, receiver, alive, mailbox, converting, auth,
                       firewall, response, calls, changes, aborted>>

\* MUTANT: the destructor of an event that is not delivered leaves its promise unset.
Deliver_unset(r) ==
  /\ at[r] = "deliver" /\ Go(r, "body")
  /\ IF Use(receiver[r])
     THEN Post(receiver[r], <<"http", r>>) /\ UNCHANGED response
     ELSE UNCHANGED <<mailbox, response>>
  /\ UNCHANGED <<request, arrived, receiver, alive, converting, auth, firewall, calls,
                 changes, aborted>>

\* The receiver may have terminated since: the event's destructor answers.
Deliver(r) ==
  /\ at[r] = "deliver" /\ Go(r, "body")
  /\ IF Use(receiver[r])
     THEN Post(receiver[r], <<"http", r>>) /\ UNCHANGED response
     ELSE Answer(r, "500") /\ UNCHANGED mailbox
  /\ UNCHANGED <<request, arrived, receiver, alive, converting, auth, firewall, calls,
                 changes, aborted>>

\* The end of the body; convert() continues with a dispatch to the receiver.
Body(r) ==
  /\ at[r] = "body" /\ Go(r, "over") /\ converting' = converting \ {r}
  /\ IF r \notin converting THEN UNCHANGED <<mailbox, response>>
     ELSE IF alive[receiver[r]]
     THEN Post(receiver[r], <<"converted", r>>) /\ UNCHANGED response
     ELSE Answer(r, "abandoned") /\ UNCHANGED mailbox
  /\ UNCHANGED <<request, arrived, receiver, alive, auth, firewall, calls, changes,
                 aborted>>

-----------------------------------------------------------------------------
(* ProcessBase::consume and _consume *)

\* The longest prefix of the name with a handler; the root only for itself.
Endpoint(p, name) ==
  LET Matches == {n \in 0..Len(name) : SubSeq(name, 1, n) \in Routes[p] /\ (n > 0 \/ name = <<>>)} IN
  IF Matches = {} THEN None
  ELSE SubSeq(name, 1, CHOOSE n \in Matches : \A m \in Matches : m <= n)

EndpointOf(r) == <<receiver[r], Endpoint(receiver[r], Tail(request[r].path))>>

\* p takes event e from its mailbox.
Takes(p, what, r) ==
  mailbox[p] # <<>> /\ Head(mailbox[p]) = <<what, r>> /\ loaded[p] = None
Took(p) == mailbox' = [mailbox EXCEPT ![p] = Tail(@)]

ConsumeMessage(p, r) ==
  /\ Takes(p, "message", r) /\ Took(p) /\ calls' = Append(calls, r)
  /\ UNCHANGED <<request, arrived, at, receiver, alive, converting, auth, firewall,
                 response, changes, aborted>>

\* _consume: authenticate, and put the future in the sequence.
_consume(p, r) ==
  /\ sequence' = [sequence EXCEPT ![p] = Append(@, <<"authn", r>>)]
  /\ LET asks == EndpointOf(r) \in Realm IN
     /\ authn' = [authn EXCEPT ![r] = IF asks THEN "pending" ELSE "no realm"]
     /\ manager' = IF asks THEN Append(manager, r) ELSE manager
  /\ UNCHANGED <<authenticator, authz, callbacks, loaded>>

\* consume(HttpEvent): the handler of the longest prefix, else an asset or 404.
Consume(p, r) ==
  LET path == request[r].path  e == EndpointOf(r) IN
  /\ Takes(p, "http", r)
  /\ aborted' = (aborted \/ path = <<>> \/ Head(path) # p)
  /\ IF e[2] = None
     THEN Took(p) /\ Answer(r, "404") /\ UNCHANGED <<auth, converting>>
     ELSE IF e \in Streaming
     THEN Took(p) /\ _consume(p, r) /\ UNCHANGED <<response, converting>>
     ELSE IF at[r] = "over"
     THEN /\ mailbox' = [mailbox EXCEPT ![p] = Append(Tail(@), <<"converted", r>>)]
          /\ UNCHANGED <<response, auth, converting>>
     ELSE /\ Took(p) /\ converting' = converting \cup {r} /\ UNCHANGED <<response, auth>>
  /\ UNCHANGED <<request, arrived, at, receiver, alive, firewall, calls, changes>>

Converted(p, r) ==
  /\ Takes(p, "converted", r) /\ Took(p) /\ _consume(p, r)
  /\ UNCHANGED <<request, arrived, at, receiver, alive, converting, firewall, response,
                 calls, changes, aborted>>

\* AuthenticatorManagerProcess::authenticate: None without an authenticator.
Authenticate ==
  /\ manager # <<>> /\ manager' = Tail(manager)
  /\ authn' = [authn EXCEPT ![Head(manager)] =
                 IF authenticator THEN "authenticating" ELSE "no authenticator"]
  /\ UNCHANGED <<request, arrived, at, receiver, alive, mailbox, converting, sequence,
                 authenticator, authz, callbacks, loaded, firewall, response, calls,
                 changes, aborted>>

\* The authenticator's future completes; a result without exactly one member fails.
Authenticated(r, s) ==
  /\ authn[r] = "authenticating" /\ authn' = [authn EXCEPT ![r] = s]
  /\ UNCHANGED <<request, arrived, at, receiver, alive, mailbox, converting, sequence,
                 manager, authenticator, authz, callbacks, loaded, firewall, response,
                 calls, changes, aborted>>

Results == {"principal", "401", "403", "failed"}

\* The sequence completes its first future once that of the callback is complete.
Completed(what, r) ==
  IF what = "authn" THEN authn[r] \notin {"none", "pending", "authenticating"}
  ELSE authz[r] \in {"true", "false", "failed"}
Failed(what, r) == (IF what = "authn" THEN authn ELSE authz)[r] = "failed"

Continue(p, e) ==
  IF Failed(e[1], e[2]) THEN Answer(e[2], "failed") /\ UNCHANGED mailbox
  ELSE IF alive[p] THEN Post(p, e) /\ UNCHANGED response
  ELSE Answer(e[2], "abandoned") /\ UNCHANGED mailbox

\* MUTANT: the futures are not put in a sequence.
Sequenced_any(p) ==
  /\ \E k \in 1..Len(sequence[p]) : LET e == sequence[p][k] IN
       /\ Completed(e[1], e[2]) /\ Continue(p, e)
       /\ sequence' = [sequence EXCEPT ![p] = RemoveAt(@, k)]
  /\ UNCHANGED <<request, arrived, at, receiver, alive, converting, manager,
                 authenticator, authn, authz, callbacks, loaded, firewall, calls, changes,
                 aborted>>

Sequenced(p) ==
  /\ sequence[p] # <<>>
  /\ LET e == Head(sequence[p]) IN Completed(e[1], e[2]) /\ Continue(p, e)
  /\ sequence' = [sequence EXCEPT ![p] = Tail(@)]
  /\ UNCHANGED <<request, arrived, at, receiver, alive, converting, manager,
                 authenticator, authn, authz, callbacks, loaded, firewall, calls, changes,
                 aborted>>

\* The result of the authentication: refused, or go on to authorization.
Refused(p, r) ==
  /\ Takes(p, "authn", r) /\ authn[r] \in {"401", "403"} /\ Took(p) /\ Answer(r, authn[r])
  /\ UNCHANGED <<request, arrived, at, receiver, alive, converting, auth, firewall, calls,
                 changes, aborted>>

\* The first, unlocked load of `authorization_callbacks'.
Load(p, r) ==
  /\ Takes(p, "authn", r) /\ authn[r] \notin {"401", "403"} /\ Took(p)
  /\ loaded' = [loaded EXCEPT ![p] = <<r, callbacks>>]
  /\ UNCHANGED <<request, arrived, at, receiver, alive, converting, sequence, manager,
                 authenticator, authn, authz, callbacks, firewall, response, calls,
                 changes, aborted>>

SequenceAuthz(p, r, asked) ==
  /\ authz' = [authz EXCEPT ![r] = IF asked THEN "pending" ELSE "true"]
  /\ sequence' = [sequence EXCEPT ![p] = Append(@, <<"authz", r>>)]
  /\ loaded' = [loaded EXCEPT ![p] = None]
  /\ UNCHANGED <<request, arrived, at, receiver, alive, mailbox, converting, manager,
                 authenticator, authn, callbacks, firewall, response, calls, changes>>

\* MUTANT: the callbacks of the first load are used under the lock.
Authorize_stale(p) ==
  /\ loaded[p] # None
  /\ aborted' = (aborted \/ (loaded[p][2] # 0 /\ loaded[p][2] # callbacks))
  /\ SequenceAuthz(p, loaded[p][1], loaded[p][2] # 0)

\* The callbacks, loaded again under the lock if there were any.
Authorize(p) ==
  /\ loaded[p] # None
  /\ LET used == IF loaded[p][2] = 0 THEN 0 ELSE callbacks IN
     /\ aborted' = (aborted \/ (used # 0 /\ used # callbacks))
     /\ SequenceAuthz(p, loaded[p][1], used # 0)

Authorized(r, s) ==
  /\ authz[r] = "pending" /\ authz' = [authz EXCEPT ![r] = s]
  /\ UNCHANGED <<request, arrived, at, receiver, alive, mailbox, converting, sequence,
                 manager, authenticator, authn, callbacks, loaded, firewall, response,
                 calls, changes, aborted>>

\* The handler is called, and its response is the response; or 403.
Handler(p, r) ==
  /\ Takes(p, "authz", r) /\ Took(p)
  /\ Answer(r, IF authz[r] = "true" THEN "200" ELSE "403")
  /\ calls' = IF authz[r] = "true" THEN Append(calls, r) ELSE calls
  /\ UNCHANGED <<request, arrived, at, receiver, alive, converting, auth, firewall,
                 changes, aborted>>

-----------------------------------------------------------------------------
(* The environment *)

\* The process terminates; an HttpEvent answers as it is deleted, a dispatch does not.
Terminate(p) ==
  /\ alive[p] /\ loaded[p] = None /\ alive' = [alive EXCEPT ![p] = FALSE]
  /\ mailbox' = [mailbox EXCEPT ![p] = <<>>]
  /\ response' = [r \in R |->
       LET E(S) == \E k \in 1..Len(mailbox[p]) : mailbox[p][k] \in S \X {r} IN
       IF response[r] # "none" THEN response[r]
       ELSE IF E({"http"}) THEN "500"
       ELSE IF E({"converted", "authn", "authz"}) THEN "abandoned" ELSE "none"]
  /\ UNCHANGED <<request, arrived, at, receiver, converting, auth, firewall, calls,
                 changes, aborted>>

\* ~Sequence, with the terminated process object: callbacks not yet invoked are skipped.
DeleteSequence(p) ==
  /\ ~alive[p] /\ Len(sequence[p]) > 1
  /\ sequence' = [sequence EXCEPT ![p] = <<Head(@)>>]
  /\ response' = [r \in R |->
       IF response[r] = "none" /\ \E k \in 2..Len(sequence[p]) : sequence[p][k][2] = r
       THEN "discarded" ELSE response[r]]
  /\ UNCHANGED <<request, arrived, at, receiver, alive, mailbox, converting, manager,
                 authenticator, authn, authz, callbacks, loaded, firewall, calls, changes,
                 aborted>>

Change == changes < MaxChanges /\ changes' = changes + 1

\* setAuthenticator and unsetAuthenticator, as the manager's process runs them.
SetAuthenticator(b) ==
  /\ Change /\ authenticator # b /\ authenticator' = b
  /\ UNCHANGED <<request, arrived, at, receiver, alive, mailbox, converting, sequence,
                 manager, authn, authz, callbacks, loaded, firewall, response, calls, aborted>>

\* authorization::setCallbacks and unsetCallbacks delete the callbacks before.
SetCallbacks(b) ==
  /\ Change /\ (b \/ callbacks # 0) /\ callbacks' = IF b THEN changes + 2 ELSE 0
  /\ UNCHANGED <<request, arrived, at, receiver, alive, mailbox, converting, sequence,
                 manager, authenticator, authn, authz, loaded, firewall, response, calls,
                 aborted>>

installFirewall ==
  /\ Change /\ firewall' = ~firewall
  /\ UNCHANGED <<request, arrived, at, receiver, alive, mailbox, converting, auth,
                 response, calls, aborted>>

Connection ==
  \E r \in R : \/ BadPath(r) \/ Relative(r) \/ Message(r) \/ Parsed(r) \/ Route(r)
               \/ Firewall(r) \/ Used(r) \/ Deliver(r) \/ Body(r)
Process ==
  \/ \E p \in Processes :
       \/ \E r \in R : \/ ConsumeMessage(p, r) \/ Consume(p, r) \/ Converted(p, r)
                       \/ Refused(p, r) \/ Load(p, r) \/ Handler(p, r)
       \/ Sequenced(p) \/ Authorize(p)
  \/ Authenticate
Futures ==
  \E r \in R : \/ \E s \in Results : Authenticated(r, s)
               \/ \E s \in {"true", "false", "failed"} : Authorized(r, s)
Environment ==
  \/ \E i \in Inputs : Arrive(i)
  \/ \E p \in Processes : Terminate(p) \/ DeleteSequence(p)
  \/ \E b \in BOOLEAN : SetAuthenticator(b) \/ SetCallbacks(b)
  \/ installFirewall

Next == Connection \/ Process \/ Futures \/ Environment
Spec == Init /\ [][Next]_vars

(***************************************************************************)
(* Fairness: the workers run a process that has events, the body of a      *)
(* request ends, and authenticators and callbacks complete their futures.  *)
(***************************************************************************)
Fairness == WF_vars(Connection \/ Process \/ Futures)
FairSpec == Spec /\ Fairness

-----------------------------------------------------------------------------
TypeOK ==
  /\ arrived \in 0..MaxRequests /\ authenticator \in BOOLEAN /\ firewall \in BOOLEAN
  /\ at \in [R -> {"new", "handle", "message", "firewall", "use", "deliver", "body", "over"}]
  /\ authn \in [R -> {"none", "no realm", "pending", "no authenticator",
                     "authenticating"} \cup Results]
  /\ authz \in [R -> {"none", "pending", "true", "false", "failed"}]
  /\ response \in [R -> {"none", "200", "202", "400", "401", "403", "404", "500",
                        "failed", "abandoned", "discarded"}]

Precedes(r, s) ==
  \E i, j \in 1..Len(calls) : i < j /\ calls[i] = r /\ calls[j] = s
Called(r) == \E i \in 1..Len(calls) : calls[i] = r
SameKind(r, s) ==
  /\ request[r] # None /\ request[s] # None
  /\ request[r].kind = request[s].kind /\ receiver[r] = receiver[s]
  /\ request[r].kind = "http" => (EndpointOf(r) \in Streaming <=> EndpointOf(s) \in Streaming)

(***************************************************************************)
(* A handler is called for no request that was not authenticated and       *)
(* authorized first, and for each at most once; two requests of one        *)
(* connection to endpoints of one process that take their body in the same *)
(* way are handled in the order they arrived, though their authentication  *)
(* and authorization overlap ("to ensure the handlers are invoked in the   *)
(* same order that requests arrive", process.cpp); no CHECK fails and no   *)
(* authorization callbacks are used that were replaced; and a request is   *)
(* left without an answer only by a process that terminates under it.      *)
(***************************************************************************)
EndpointsSafe ==
  /\ TypeOK /\ ~aborted
  /\ \A r \in R : Called(r) /\ request[r].kind = "http" =>
       /\ authz[r] = "true" /\ response[r] = "200"
       /\ authn[r] \in {"principal", "no realm", "no authenticator"}
       /\ authn[r] = "no realm" <=> EndpointOf(r) \notin Realm
  /\ \A i, j \in 1..Len(calls) : calls[i] = calls[j] => i = j
  /\ \A r, s \in R : r < s /\ SameKind(r, s) => ~Precedes(s, r)
  /\ \A r \in R : response[r] \in {"abandoned", "discarded"} => ~alive[receiver[r]]

\* The response future of every request completes; also if the receiver terminates,
\* at whichever step, though then it may be abandoned or discarded.
Owed(r) == r \in R /\ arrived >= r
Paid(r) == r \in R /\ response[r] # "none"
RequestsAnswered == \A r \in R : Owed(r) ~> Paid(r)
=============================================================================

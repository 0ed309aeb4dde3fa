---------------------------- MODULE SocketManager ----------------------------
(***************************************************************************)
(* The socket manager (src/process.cpp, src/socket_manager.hpp): outbound  *)
(* sockets, temporary for messages and persistent for links, inbound       *)
(* sockets with their HTTP proxies, the queues of outgoing data, and the   *)
(* links that make an exited process or a lost connection known.           *)
(*                                                                         *)
(* Every call holds the mutex of the manager and is one step.  What the    *)
(* code does after it has let go of the mutex, or when a future completes, *)
(* is a task: connecting, sending, asking for the next data, receiving,    *)
(* spawning or terminating a proxy.  Tasks run in any order.               *)
(***************************************************************************)
EXTENDS Naturals, Sequences

CONSTANTS
  Process,           \* local processes
  Address, Name,     \* remote addresses, and the ids of processes there
  Local,             \* __address__
  DefaultKind,       \* the kind of socket that is created
  SupportDowngrade,  \* SSL may fall back to POLL
  MaxSockets, MaxMessages, MaxLinks, MaxAccepts,   \* bounds
  None

Socket == 1..MaxSockets
Message == 1..MaxMessages
UPID == (Address \X Name) \cup ({Local} \X Process)

ASSUME ConstantsAssumption ==
  /\ None \notin Socket /\ None \notin Address /\ None \notin Seq(Message)
  /\ Local \notin Address
  /\ {MaxSockets, MaxMessages, MaxLinks, MaxAccepts} \subseteq Nat

VARIABLES
  sockets, dispose, addresses, temps, persists,
  outgoing,     \* outgoing[s]: None, or the queued messages
  proxies,      \* sockets with an HTTP proxy
  linkers, linkees, remotes,   \* links, as relations
  tasks,
  alive,        \* processes that have not been cleaned up
  shut,         \* sockets that are shut down, or whose peer has hung up
  kind, created, messages, linked, accepts,
  last,         \* last[s]: the last message written to the socket
  proxy,        \* proxy[s]: the HttpProxy of the socket
  exits         \* ExitedEvents delivered, as pairs of process and UPID

mapVars == <<sockets, dispose, addresses, temps, persists, outgoing, proxies>>
linkVars == <<linkers, linkees, remotes, exits>>
countVars == <<kind, created, messages, linked, accepts>>
vars == <<mapVars, linkVars, tasks, alive, shut, countVars, last, proxy>>

Task(do, s, m) == [do |-> do, s |-> s, m |-> m]

Init ==
  /\ sockets = {} /\ dispose = {} /\ proxies = {}
  /\ addresses = [s \in Socket |-> None]
  /\ temps = [a \in Address |-> None] /\ persists = [a \in Address |-> None]
  /\ outgoing = [s \in Socket |-> None]
  /\ linkers = {} /\ linkees = {} /\ remotes = {} /\ exits = {}
  /\ tasks = {} /\ alive = Process /\ shut = {}
  /\ kind = [s \in Socket |-> DefaultKind]
  /\ created = 0 /\ messages = 0 /\ linked = 0 /\ accepts = 0
  /\ last = [s \in Socket |-> 0] /\ proxy = [s \in Socket |-> "none"]

AddressOf(u) == u[1]

-----------------------------------------------------------------------------
(* Links.                                                                  *)

\* exited(Address): the linkers of every linkee at the address are told.
LostLinks(a) == {l \in linkers : <<a, l[1]>> \in remotes}
ExitedAddress(a) ==
  /\ exits' = exits \cup {<<l[2], l[1]>> : l \in LostLinks(a)}
  /\ linkees' = linkees \ {<<l[2], l[1]>> : l \in LostLinks(a)}
  /\ linkers' = linkers \ LostLinks(a)
  /\ remotes' = {r \in remotes : r[1] # a}

\* MUTANT: the last linker leaves its remote linkee in `remotes'.
ExitedKeepsRemotes(p) ==
  LET mine == {l \in linkers : l[2] = p}
      rest == linkers \ mine
      told == {l \in rest : l[1] = <<Local, p>>} IN
  /\ p \in alive /\ alive' = alive \ {p}
  /\ remotes' = remotes
  /\ linkers' = rest \ told
  /\ linkees' = {k \in linkees : k[1] # p /\ k[2] # <<Local, p>>}
  /\ exits' = exits \cup {<<l[2], l[1]>> : l \in told}
  /\ UNCHANGED <<mapVars, tasks, shut, countVars, last, proxy>>

\* exited(ProcessBase): the links of the process are removed, and its linkers
\* are told.
Exited(p) ==
  LET mine == {l \in linkers : l[2] = p}
      rest == linkers \ mine
      told == {l \in rest : l[1] = <<Local, p>>} IN
  /\ p \in alive /\ alive' = alive \ {p}
  /\ remotes' = remotes \ {<<AddressOf(l[1]), l[1]>> :
                             l \in {x \in mine : \A y \in rest : y[1] # x[1]}}
  /\ linkers' = rest \ told
  /\ linkees' = {k \in linkees : k[1] # p /\ k[2] # <<Local, p>>}
  /\ exits' = exits \cup {<<l[2], l[1]>> : l \in told}
  /\ UNCHANGED <<mapVars, tasks, shut, countVars, last, proxy>>

AddLink(p, to) ==
  /\ linkers' = linkers \cup {<<to, p>>}
  /\ linkees' = linkees \cup {<<p, to>>}
  /\ remotes' = IF AddressOf(to) = Local THEN remotes
                ELSE remotes \cup {<<AddressOf(to), to>>}
  /\ exits' = exits

CountLink(p) == p \in alive /\ linked < MaxLinks /\ linked' = linked + 1

\* ProcessManager::link with a process of this program.
LinkLocal(p, q) ==
  /\ CountLink(p)
  /\ IF q \in alive
       THEN AddLink(p, <<Local, q>>)
       ELSE /\ exits' = exits \cup {<<p, <<Local, q>>>>}
            /\ UNCHANGED <<linkers, linkees, remotes>>
  /\ UNCHANGED <<mapVars, tasks, alive, shut, kind, created, messages, accepts,
                 last, proxy>>

-----------------------------------------------------------------------------
(* Closing and swapping sockets.                                           *)

Unset(map, s) == [a \in DOMAIN map |-> IF map[a] = s THEN None ELSE map[a]]

TerminateProxy(s, rest) ==
  IF s \in proxies THEN rest \cup {Task("terminate", s, 0)} ELSE rest

\* MUTANT: the socket stays in `temps'.
ForgetNotTemps(s) ==
  /\ outgoing' = [outgoing EXCEPT ![s] = None]
  /\ temps' = temps /\ addresses' = [addresses EXCEPT ![s] = None]
  /\ proxies' = proxies \ {s} /\ dispose' = dispose \ {s}
  /\ sockets' = sockets \ {s} /\ shut' = shut \cup {s}

\* The socket and its queue are removed from the maps, and it is shut down.
Forget(s) ==
  /\ outgoing' = [outgoing EXCEPT ![s] = None]
  /\ temps' = Unset(temps, s) /\ addresses' = [addresses EXCEPT ![s] = None]
  /\ proxies' = proxies \ {s} /\ dispose' = dispose \ {s}
  /\ sockets' = sockets \ {s} /\ shut' = shut \cup {s}

\* MUTANT: the linkers of a persistent socket are not told.
CloseSilently(s, rest) ==
  IF s \notin sockets THEN tasks' = rest /\ UNCHANGED <<mapVars, linkVars, shut>>
  ELSE /\ UNCHANGED linkVars
       /\ persists' = Unset(persists, s) /\ Forget(s)
       /\ tasks' = TerminateProxy(s, rest)

\* close(s): a socket that is not known any more is left alone.
Close(s, rest) ==
  IF s \notin sockets THEN tasks' = rest /\ UNCHANGED <<mapVars, linkVars, shut>>
  ELSE /\ IF addresses[s] # None /\ persists[addresses[s]] = s
            THEN ExitedAddress(addresses[s]) ELSE UNCHANGED linkVars
       /\ persists' = Unset(persists, s) /\ Forget(s)
       /\ tasks' = TerminateProxy(s, rest)

Swapped(map, from, to) ==
  [a \in DOMAIN map |-> IF map[a] = from THEN to ELSE map[a]]

\* swap_implementing_socket: `to' takes the place of `from'.
Swap(from, to) ==
  /\ sockets' = (sockets \ {from}) \cup {to}
  /\ dispose' = IF from \in dispose THEN (dispose \ {from}) \cup {to} ELSE dispose
  /\ addresses' = [addresses EXCEPT ![to] = addresses[from], ![from] = None]
  /\ persists' = Swapped(persists, from, to) /\ temps' = Swapped(temps, from, to)
  /\ outgoing' = [outgoing EXCEPT
       ![to] = IF outgoing[from] = None THEN <<>> ELSE outgoing[from],
       ![from] = None]
  /\ proxies' = IF from \in proxies THEN (proxies \ {from}) \cup {to} ELSE proxies

Create(s) == created < MaxSockets /\ s = created + 1 /\ created' = s

-----------------------------------------------------------------------------
(* link and link_connect.                                                  *)

\* The first link to a remote address opens a persistent socket.
LinkOpen(p, to, s) ==
  LET a == AddressOf(to) IN
  /\ CountLink(p) /\ persists[a] = None /\ Create(s)
  /\ sockets' = sockets \cup {s}
  /\ addresses' = [addresses EXCEPT ![s] = a]
  /\ persists' = [persists EXCEPT ![a] = s]
  /\ outgoing' = [outgoing EXCEPT ![s] = <<>>]
  /\ tasks' = tasks \cup {Task("link_connect", s, 0)}
  /\ AddLink(p, to)
  /\ UNCHANGED <<dispose, temps, proxies, alive, shut, kind, messages, accepts,
                 last, proxy>>

\* RECONNECT: a new socket takes the place of the persistent one, which is
\* shut down.
LinkReconnect(p, to, s) ==
  LET old == persists[AddressOf(to)] IN
  /\ CountLink(p) /\ old # None /\ Create(s)
  /\ Swap(old, s)
  /\ shut' = shut \cup {old}
  /\ tasks' = tasks \cup {Task("link_connect", s, 0)}
  /\ AddLink(p, to)
  /\ UNCHANGED <<alive, kind, messages, accepts, last, proxy>>

\* REUSE of the persistent socket.
LinkReuse(p, to) ==
  /\ CountLink(p) /\ persists[AddressOf(to)] # None
  /\ AddLink(p, to)
  /\ UNCHANGED <<mapVars, tasks, alive, shut, kind, created, messages, accepts,
                 last, proxy>>

\* A socket that cannot be created gives an ExitedEvent.
LinkFails(p, to) ==
  /\ CountLink(p)
  /\ exits' = exits \cup {<<p, to>>}
  /\ UNCHANGED <<mapVars, linkers, linkees, remotes, tasks, alive, shut, kind,
                 created, messages, accepts, last, proxy>>

\* MUTANT: a socket that was swapped meanwhile is used.
LinkConnectedUnchecked(t) ==
  /\ t.do = "link_connect"
  /\ tasks' = (tasks \ {t}) \cup {Task("recv", t.s, 0), Task("next", t.s, 0)}
  /\ sockets' = sockets \cup {t.s}
  /\ UNCHANGED <<dispose, addresses, temps, persists, outgoing, proxies,
                 linkVars, alive, shut, countVars, last, proxy>>

\* The connection is there, unless another socket has taken over.
LinkConnected(t) ==
  /\ t.do = "link_connect"
  /\ tasks' = IF t.s \in sockets
                THEN (tasks \ {t}) \cup {Task("recv", t.s, 0), Task("next", t.s, 0)}
                ELSE tasks \ {t}
  /\ UNCHANGED <<mapVars, linkVars, alive, shut, countVars, last, proxy>>

MayDowngrade(s) == SupportDowngrade /\ kind[s] = "SSL"

\* The connection has failed: it is tried without SSL, or the socket closed.
ConnectDowngrade(t, s) ==
  /\ t.do \in {"link_connect", "send_connect"} /\ MayDowngrade(t.s)
  /\ t.do = "send_connect" \/ t.s \in sockets
  /\ Create(s) /\ Swap(t.s, s)
  /\ kind' = [kind EXCEPT ![s] = "POLL"]
  /\ tasks' = (tasks \ {t}) \cup {Task(t.do, s, t.m)}
  /\ UNCHANGED <<linkVars, alive, shut, messages, linked, accepts, last, proxy>>

ConnectFails(t) ==
  /\ t.do \in {"link_connect", "send_connect"}
  /\ Close(t.s, tasks \ {t})
  /\ UNCHANGED <<alive, countVars, last, proxy>>

-----------------------------------------------------------------------------
(* Sending.                                                                *)

NewMessage == messages < MaxMessages /\ messages' = messages + 1

\* Data for a socket is queued while other data is being sent.
Queue(s) ==
  IF outgoing[s] # None
    THEN /\ outgoing' = [outgoing EXCEPT ![s] = Append(@, messages + 1)]
         /\ tasks' = tasks
    ELSE /\ outgoing' = [outgoing EXCEPT ![s] = <<>>]
         /\ tasks' = tasks \cup {Task("write", s, messages + 1)}

\* send(Message) to an address that has a socket.
SendReuse(a) ==
  LET s == IF persists[a] # None THEN persists[a] ELSE temps[a] IN
  /\ s # None /\ NewMessage
  /\ dispose' = IF persists[a] = None THEN dispose \cup {s} ELSE dispose
  /\ Queue(s)
  /\ UNCHANGED <<sockets, addresses, temps, persists, proxies, linkVars, alive,
                 shut, kind, created, linked, accepts, last, proxy>>

\* send(Message) opens a temporary socket.
SendOpen(a, s) ==
  /\ persists[a] = None /\ temps[a] = None /\ NewMessage /\ Create(s)
  /\ sockets' = sockets \cup {s}
  /\ addresses' = [addresses EXCEPT ![s] = a]
  /\ temps' = [temps EXCEPT ![a] = s]
  /\ dispose' = dispose \cup {s}
  /\ outgoing' = [outgoing EXCEPT ![s] = <<>>]
  /\ tasks' = tasks \cup {Task("send_connect", s, messages + 1)}
  /\ UNCHANGED <<persists, proxies, linkVars, alive, shut, kind, linked, accepts,
                 last, proxy>>

SendConnected(t) ==
  /\ t.do = "send_connect"
  /\ tasks' = (tasks \ {t}) \cup {Task("recv", t.s, 0), Task("write", t.s, t.m)}
  /\ UNCHANGED <<mapVars, linkVars, alive, shut, countVars, last, proxy>>

\* internal::_send: all of the data is sent, or the socket is closed.
Written(t) ==
  /\ t.do = "write"
  /\ tasks' = (tasks \ {t}) \cup {Task("next", t.s, 0)}
  /\ last' = [last EXCEPT ![t.s] = t.m]
  /\ UNCHANGED <<mapVars, linkVars, alive, shut, countVars, proxy>>
WriteFails(t) ==
  /\ t.do = "write"
  /\ Close(t.s, tasks \ {t})
  /\ UNCHANGED <<alive, countVars, last, proxy>>

\* next(s): the next data, or the end of the queue and of a socket to dispose.
NextEncoder(t) ==
  LET s == t.s  rest == tasks \ {t} IN
  /\ t.do = "next"
  /\ IF s \notin sockets
       THEN tasks' = rest /\ UNCHANGED <<mapVars, shut>>
     ELSE IF outgoing[s] # <<>>
       THEN /\ tasks' = rest \cup {Task("write", s, Head(outgoing[s]))}
            /\ outgoing' = [outgoing EXCEPT ![s] = Tail(@)]
            /\ UNCHANGED <<sockets, dispose, addresses, temps, persists, proxies,
                           shut>>
     ELSE IF s \notin dispose
       THEN /\ tasks' = rest
            /\ outgoing' = [outgoing EXCEPT ![s] = None]
            /\ UNCHANGED <<sockets, dispose, addresses, temps, persists, proxies,
                           shut>>
     ELSE tasks' = TerminateProxy(s, rest) /\ Forget(s) /\ persists' = persists
  /\ UNCHANGED <<linkVars, alive, countVars, last, proxy>>

-----------------------------------------------------------------------------
(* Receiving, inbound sockets and proxies.                                 *)

\* The peer closes the connection, or it is lost.
HangUp(t) ==
  /\ t.do \in {"recv", "receive"} /\ t.s \notin shut
  /\ shut' = shut \cup {t.s}
  /\ UNCHANGED <<mapVars, linkVars, tasks, alive, countVars, last, proxy>>

\* ignore_recv_data and receive: a socket that is shut down is closed.
EndOfFile(t) ==
  /\ t.do \in {"recv", "receive"} /\ t.s \in shut
  /\ Close(t.s, tasks \ {t})
  /\ UNCHANGED <<alive, countVars, last, proxy>>

Accepted(s) ==
  /\ accepts < MaxAccepts /\ accepts' = accepts + 1 /\ Create(s)
  /\ sockets' = sockets \cup {s}
  /\ tasks' = tasks \cup {Task("receive", s, 0)}
  /\ UNCHANGED <<dispose, addresses, temps, persists, outgoing, proxies, linkVars,
                 alive, shut, kind, messages, linked, last, proxy>>

\* proxy(s): the first request on a socket creates its proxy ...
Proxy(t) ==
  /\ t.do = "receive" /\ t.s \in sockets \ proxies
  /\ proxies' = proxies \cup {t.s}
  /\ proxy' = [proxy EXCEPT ![t.s] = "new"]
  /\ tasks' = (tasks \ {t}) \cup {Task("spawn", t.s, 0)}
  /\ UNCHANGED <<sockets, dispose, addresses, temps, persists, outgoing, linkVars,
                 alive, shut, countVars, last>>

\* ... and spawns it after the mutex is released.
Spawn(t) ==
  /\ t.do = "spawn"
  /\ proxy' = [proxy EXCEPT ![t.s] = "live"]
  /\ tasks' = (tasks \ {t}) \cup {Task("receive", t.s, 0)}
  /\ UNCHANGED <<mapVars, linkVars, alive, shut, countVars, last>>

\* terminate has no effect on a proxy that is not spawned yet; the others take
\* themselves out of the map (unproxy), if they are still in it.
Terminate(t) ==
  /\ t.do = "terminate"
  /\ proxy' = [proxy EXCEPT ![t.s] = IF @ = "live" THEN "dead" ELSE @]
  /\ proxies' = IF proxy[t.s] = "live" THEN proxies \ {t.s} ELSE proxies
  /\ tasks' = tasks \ {t}
  /\ UNCHANGED <<sockets, dispose, addresses, temps, persists, outgoing, linkVars, alive,
                 shut, countVars, last>>

\* send(Encoder) from a proxy: a response on an inbound socket.
Respond(s, persist) ==
  /\ proxy[s] = "live" /\ NewMessage
  /\ IF s \in sockets
       THEN /\ dispose' = IF persist THEN dispose ELSE dispose \cup {s}
            /\ Queue(s)
       ELSE UNCHANGED <<dispose, outgoing, tasks>>
  /\ UNCHANGED <<sockets, addresses, temps, persists, proxies, linkVars, alive,
                 shut, kind, created, linked, accepts, last, proxy>>

-----------------------------------------------------------------------------
Run(t) ==
  \/ LinkConnected(t) \/ SendConnected(t) \/ ConnectFails(t)
  \/ \E s \in Socket : ConnectDowngrade(t, s)
  \/ Written(t) \/ WriteFails(t) \/ NextEncoder(t)
  \/ EndOfFile(t) \/ Spawn(t) \/ Terminate(t)

Call ==
  \/ \E p \in Process :
       \/ Exited(p)
       \/ \E q \in Process : LinkLocal(p, q)
       \/ \E to \in Address \X Name :
            \/ LinkReuse(p, to) \/ LinkFails(p, to)
            \/ \E s \in Socket : LinkOpen(p, to, s) \/ LinkReconnect(p, to, s)
  \/ \E a \in Address : SendReuse(a) \/ \E s \in Socket : SendOpen(a, s)
  \/ \E s \in Socket :
       \/ Accepted(s)
       \/ \E persist \in BOOLEAN : Respond(s, persist)
  \/ \E t \in tasks : Proxy(t) \/ HangUp(t)

Step == Call \/ \E t \in tasks : Run(t)

\* Bound: outbound sockets (links and messages) and inbound ones (requests and
\* responses) share no socket, so a behaviour has one kind or the other, which
\* leaves room for more sockets of it.
OneDirection == accepts = 0 \/ (linked = 0 /\ created = accepts)

Next == Step /\ OneDirection'
Spec == Init /\ [][Next]_vars
FairSpec ==
  /\ Spec
  /\ \A do \in {"link_connect", "send_connect", "write", "next", "recv",
                "receive", "spawn", "terminate"}, s \in Socket :
       WF_vars(\E t \in tasks : t.do = do /\ t.s = s /\ Run(t))

-----------------------------------------------------------------------------
(* Properties.                                                             *)

\* Every variable keeps its type.
TypeOK ==
  /\ sockets \subseteq Socket /\ dispose \subseteq sockets
  /\ proxies \subseteq sockets
  /\ addresses \in [Socket -> Address \cup {None}]
  /\ temps \in [Address -> Socket \cup {None}]
  /\ persists \in [Address -> Socket \cup {None}]
  /\ \A s \in Socket : outgoing[s] = None \/ outgoing[s] \in Seq(Message)
  /\ linkers \subseteq UPID \X Process /\ linkees \subseteq Process \X UPID
  /\ remotes \subseteq Address \X (Address \X Name)
  /\ exits \subseteq Process \X UPID
  /\ alive \subseteq Process /\ shut \subseteq Socket

(***************************************************************************)
(* The maps agree, as the CHECKs of next, send, close and                  *)
(* swap_implementing_socket demand: an address is mapped to a socket       *)
(* exactly if the socket is mapped to the address, no socket is temporary  *)
(* and persistent, a persistent socket is never disposed of, the socket of *)
(* every address is known, and a proxy that lives on has a socket or is    *)
(* about to be terminated.                                                 *)
(***************************************************************************)
MapsAgree ==
  /\ TypeOK
  /\ \A s \in Socket :
       addresses[s] # None <=> \E a \in Address : s \in {temps[a], persists[a]}
  /\ \A s \in Socket : addresses[s] # None =>
       /\ s \in sockets
       /\ s = temps[addresses[s]] <=> s # persists[addresses[s]]
       /\ s \in dispose <=> s = temps[addresses[s]]
  /\ \A s \in Socket : outgoing[s] # None => s \in sockets
  /\ \A s \in Socket : proxy[s] = "live" =>
       s \in proxies \/ Task("terminate", s, 0) \in tasks

Sending == {"link_connect", "send_connect", "write", "next"}
Senders(s) == {t \in tasks : t.s = s /\ t.do \in Sending}

\* The data of one socket is written in the order of the calls of send.
InOrder ==
  \A s \in sockets :
    LET pending == {t \in Senders(s) : t.m # 0} IN
    /\ \A t \in pending : t.m > last[s]
    /\ outgoing[s] # None => \A i \in 1..Len(outgoing[s]) :
         /\ outgoing[s][i] > last[s]
         /\ \A t \in pending : outgoing[s][i] > t.m
         /\ \A j \in 1..(i - 1) : outgoing[s][j] < outgoing[s][i]

(***************************************************************************)
(* While a known socket has a queue, exactly one connect, send or next is  *)
(* under way that will look at it: no message is left in a queue, and no   *)
(* two senders mix their data on one socket.  The data is sent in order,   *)
(* also when its queue has moved from a socket to its replacement.         *)
(***************************************************************************)
OneSender ==
  /\ \A s \in sockets :
       IF outgoing[s] = None THEN Senders(s) = {} ELSE \E t \in tasks : Senders(s) = {t}
  /\ InOrder

(***************************************************************************)
(* The three sides of the links agree, and only living processes link: an  *)
(* exited event never goes to a process that was cleaned up, and the       *)
(* CHECKs of exited hold.  Something watches the connection of every       *)
(* remote link: a persistent socket that is being connected, or received   *)
(* from.                                                                   *)
(***************************************************************************)
LinksAgree ==
  /\ linkees = {<<l[2], l[1]>> : l \in linkers}
  /\ remotes = {<<AddressOf(l[1]), l[1]>> : l \in {x \in linkers : AddressOf(x[1]) # Local}}
  /\ \A l \in linkers : l[2] \in alive
  /\ \A l \in linkers : AddressOf(l[1]) = Local => l[1][2] \in alive
  /\ \A r \in remotes :
       \E t \in tasks : t.s = persists[r[1]] /\ t.do \in {"link_connect", "recv"}

\* The loss of the connection of a link is made known, or a reconnect comes
\* in between.
LossIsKnown ==
  \A r \in Address \X Name, p \in Process :
    (<<r, p>> \in linkers /\ persists[r[1]] \in shut) ~>
      (<<p, r>> \in exits \/ p \notin alive \/ persists[r[1]] \in Socket \ shut)
=============================================================================

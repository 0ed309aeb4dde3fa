------------------------- MODULE SocketManagerProofs -------------------------
(***************************************************************************)
(* The maps of the socket manager agree, a socket has one sender and sends *)
(* in order, and the sides of the links agree, whatever the processes, the *)
(* addresses and the bounds, and with inbound and outbound sockets in one  *)
(* behaviour.                                                              *)
(*                                                                         *)
(* The inductive invariant IInv says what holds of one socket (SocketOK),  *)
(* how sockets and addresses map to each other (Maps, Watched) and how the *)
(* links agree (Links).  A step changes one socket or, when a socket takes *)
(* the place of another, two; SocketKept covers the others.                *)
(***************************************************************************)
EXTENDS SocketManager, TLAPS

-----------------------------------------------------------------------------
(* The inductive invariant.                                                *)

\* What tasks do.
Connects == {"link_connect", "send_connect"}
Dos == Sending \cup {"recv", "receive", "spawn", "terminate"}

\* Every variable that the invariants speak of keeps its type.
MapTypes ==
  /\ sockets \subseteq Socket /\ dispose \subseteq sockets
  /\ proxies \subseteq sockets /\ shut \subseteq Socket
  /\ addresses \in [Socket -> Address \cup {None}]
  /\ temps \in [Address -> Socket \cup {None}]
  /\ persists \in [Address -> Socket \cup {None}]
  /\ outgoing \in [Socket -> Seq(Message) \cup {None}]

LinkTypes ==
  /\ linkers \subseteq UPID \X Process /\ linkees \subseteq Process \X UPID
  /\ remotes \subseteq Address \X (Address \X Name)
  /\ exits \subseteq Process \X UPID /\ alive \subseteq Process

TaskTypes ==
  /\ tasks \subseteq [do : Dos, s : Socket, m : 0..MaxMessages]
  /\ \A t \in tasks : t.m # 0 <=> t.do \in {"send_connect", "write"}
  /\ proxy \in [Socket -> {"none", "new", "live", "dead"}]
  /\ last \in [Socket -> 0..MaxMessages]
  /\ created \in 0..MaxSockets /\ messages \in 0..MaxMessages

\* The tasks of a socket.
TasksOf(x) == {t \in tasks : t.s = x}

\* A socket that was not created yet is in no map, and no task has it.
Fresh(x) ==
  x > created =>
    /\ x \notin sockets /\ addresses[x] = None /\ outgoing[x] = None
    /\ proxy[x] = "none" /\ last[x] = 0 /\ TasksOf(x) = {}

\* A known socket that connects has an address; one that connects to send is
\* temporary, and nobody else uses it yet.
Connecting(x) ==
  \A t \in TasksOf(x) :
    /\ t.do \in Connects /\ x \in sockets => addresses[x] # None
    /\ t.do = "send_connect" => x \in sockets /\ x \in dispose /\ TasksOf(x) = {t}

\* An inbound socket has no address and no connect.  Until its proxy is spawned
\* there is one task, so that no terminate comes before the spawn.
Inbound(x) ==
  /\ \A t \in TasksOf(x) :
       /\ t.do \in {"receive", "spawn", "terminate"} =>
            addresses[x] = None /\ \A u \in TasksOf(x) : u.do \notin Connects
       /\ t.do = "spawn" => x \in sockets /\ proxy[x] = "new" /\ TasksOf(x) = {t}
       /\ t.do = "receive" /\ proxy[x] = "none" => TasksOf(x) = {t}
       /\ t.do = "terminate" => x \notin sockets
  /\ proxy[x] # "none" => addresses[x] = None
  /\ proxy[x] = "new" => \E t \in TasksOf(x) : t.do = "spawn"
  /\ x \in sockets => (x \in proxies <=> proxy[x] # "none")
  /\ proxy[x] = "live" => x \in proxies \/ \E t \in TasksOf(x) : t.do = "terminate"

\* A known socket has a sender exactly while it has a queue.
Served(x) ==
  x \in sockets => IF outgoing[x] = None THEN Senders(x) = {}
                   ELSE \E t \in tasks : Senders(x) = {t}

\* InOrder for one socket.
Ordered(x) ==
  x \in sockets =>
    /\ \A t \in Senders(x) : t.m # 0 => t.m > last[x]
    /\ outgoing[x] # None => \A i \in 1..Len(outgoing[x]) :
         /\ outgoing[x][i] > last[x]
         /\ \A t \in Senders(x) : t.m # 0 => outgoing[x][i] > t.m
         /\ \A j \in 1..(i - 1) : outgoing[x][j] < outgoing[x][i]

\* Messages are numbered as they are sent.
Numbered(x) ==
  /\ \A t \in TasksOf(x) : t.m <= messages
  /\ last[x] <= messages
  /\ outgoing[x] # None => \A i \in 1..Len(outgoing[x]) : outgoing[x][i] <= messages

SocketOK(x) ==
  /\ Fresh(x) /\ Connecting(x) /\ Inbound(x)
  /\ Served(x) /\ Ordered(x) /\ Numbered(x)

\* Sockets and addresses are mapped to each other, and the temporary ones are to
\* be disposed of.
Maps ==
  /\ \A a \in Address, x \in Socket :
       /\ temps[a] = x => addresses[x] = a /\ persists[a] # x /\ x \in dispose
       /\ persists[a] = x => addresses[x] = a /\ x \notin dispose
  /\ \A x \in Socket : addresses[x] # None =>
       x \in sockets /\ (temps[addresses[x]] = x \/ persists[addresses[x]] = x)
  /\ \A x \in Socket : outgoing[x] # None => x \in sockets

\* A task connects or receives from the persistent socket of an address.
Watched ==
  \A a \in Address : persists[a] # None =>
    \E t \in tasks : t.s = persists[a] /\ t.do \in {"link_connect", "recv"}

\* The sides of the links, and the socket of a remote one.
Links ==
  /\ \A p \in Process, u \in UPID : <<p, u>> \in linkees <=> <<u, p>> \in linkers
  /\ \A a \in Address, u \in Address \X Name :
       <<a, u>> \in remotes <=> a = AddressOf(u) /\ \E p \in Process : <<u, p>> \in linkers
  /\ \A p \in Process, u \in UPID : <<u, p>> \in linkers => p \in alive
  /\ \A p, q \in Process : <<<<Local, q>>, p>> \in linkers => q \in alive
  /\ \A a \in Address, u \in Address \X Name :
       <<a, u>> \in remotes => persists[a] # None

Core == Maps /\ Watched /\ \A x \in Socket : SocketOK(x)
IInv == MapTypes /\ LinkTypes /\ TaskTypes /\ Core /\ Links

\* Inbound and outbound sockets in one behaviour, without the bound OneDirection.
MixedSpec == Init /\ [][Step]_vars

-----------------------------------------------------------------------------
(* Frames.                                                                 *)

\* The variables that MapTypes, TaskTypes and Core speak of.
coreVars == <<mapVars, tasks, created, messages, last, proxy>>

\* None is neither a socket nor an address nor a queue.
LEMMA NoneIsNothing ==
  /\ None \notin Socket /\ None \notin Address /\ None \notin Seq(Message)
  /\ Socket \subseteq Nat /\ Message \subseteq Nat
BY ConstantsAssumption DEF Socket, Message

\* A queue is a sequence of numbers.
LEMMA QueueOfNumbers ==
  ASSUME MapTypes, NEW x \in Socket, outgoing[x] # None
  PROVE  /\ outgoing[x] \in Seq(Message) /\ Len(outgoing[x]) \in Nat
         /\ \A i \in 1..Len(outgoing[x]) : outgoing[x][i] \in Nat
<1>1. outgoing[x] \in Seq(Message)
  BY Zenon DEF MapTypes
<1>2. Len(outgoing[x]) \in Nat /\ \A i \in 1..Len(outgoing[x]) : outgoing[x][i] \in Message
  BY <1>1
<1>3. Message \subseteq Nat
  BY ConstantsAssumption DEF Message
<1> QED BY <1>1, <1>2, <1>3, Zenon

\* The length of a queue.
LEMMA QueueLength == \A q \in Seq(Message) : Len(q) \in Nat
OBVIOUS

\* The positions before a given one of a sequence.
LEMMA Indices ==
  ASSUME NEW k \in Nat
  PROVE  /\ \A i \in 1..k : \A j \in 1..(i - 1) : j \in 1..k /\ j < i
         /\ \A i \in 1..k, j \in 1..k : j < i => j \in 1..(i - 1)
OBVIOUS

\* The sockets of an address.
LEMMA SocketsOfAddress ==
  ASSUME MapTypes, Maps, NEW a \in Address
  PROVE  /\ persists[a] # None =>
              /\ persists[a] \in Socket /\ persists[a] \in sockets
              /\ addresses[persists[a]] = a /\ persists[a] \notin dispose
         /\ temps[a] # None =>
              /\ temps[a] \in Socket /\ temps[a] \in sockets
              /\ addresses[temps[a]] = a /\ temps[a] \in dispose
<1>1. persists[a] # None => persists[a] \in Socket
  BY Zenon DEF MapTypes
<1>2. temps[a] # None => temps[a] \in Socket
  BY Zenon DEF MapTypes
<1> QED BY <1>1, <1>2, NoneIsNothing, Zenon DEF Maps

\* What SocketOK says of a socket depends only on what the maps and the tasks
\* have for it.
SameSocket(x) ==
  /\ x \in sockets' <=> x \in sockets
  /\ x \in dispose' <=> x \in dispose
  /\ x \in proxies' <=> x \in proxies
  /\ addresses'[x] = addresses[x] /\ outgoing'[x] = outgoing[x]
  /\ proxy'[x] = proxy[x] /\ last'[x] = last[x]
  /\ TasksOf(x)' = TasksOf(x)

\* A step that leaves all that of a socket alone keeps SocketOK.
LEMMA SocketKept ==
  ASSUME MapTypes, TaskTypes, NEW x \in Socket, SocketOK(x), SameSocket(x),
         created' \in Nat, messages' \in Nat, created' >= created, messages' >= messages
  PROVE  SocketOK(x)'
<1>1. Senders(x)' = Senders(x)
  BY Zenon DEF Senders, SameSocket, TasksOf
<1>2. Fresh(x)'
  BY NoneIsNothing DEF SocketOK, SameSocket, Fresh, TaskTypes
<1>3. Connecting(x)' /\ Inbound(x)'
  BY Zenon DEF SocketOK, SameSocket, Connecting, Inbound
<1>4. Served(x)' /\ Ordered(x)'
  BY <1>1, Zenon DEF SocketOK, SameSocket, Served, Ordered, Senders
<1>5. Numbered(x)'
  <2>1. \A t \in TasksOf(x) : t.m \in Nat
    BY ConstantsAssumption DEF TaskTypes, TasksOf
  <2>2. last[x] \in Nat /\ messages \in Nat
    BY ConstantsAssumption DEF TaskTypes
  <2>3. outgoing[x] # None => \A i \in 1..Len(outgoing[x]) : outgoing[x][i] \in Nat
    BY QueueOfNumbers, Zenon
  <2> QED BY <2>1, <2>2, <2>3 DEF SocketOK, SameSocket, Numbered
<1> QED BY <1>2, <1>3, <1>4, <1>5, Zenon DEF SocketOK

\* Maps speaks only of the sockets and their addresses and queues.
LEMMA MapsKept ==
  ASSUME Maps, UNCHANGED <<sockets, dispose, addresses, temps, persists, outgoing>>
  PROVE  Maps'
BY DEF Maps

\* Steps that only change links leave the maps and the tasks as they were.
LEMMA CoreKept ==
  ASSUME MapTypes, TaskTypes, Core, shut' \subseteq Socket, UNCHANGED coreVars
  PROVE  MapTypes' /\ TaskTypes' /\ Core'
<1> USE DEF coreVars, mapVars
<1>1. MapTypes' /\ TaskTypes'
  BY Zenon DEF MapTypes, TaskTypes
<1>2. Maps' /\ Watched'
  BY Zenon DEF Core, Maps, Watched
<1>3. ASSUME NEW x \in Socket PROVE SocketOK(x)'
  BY SocketKept DEF Core, SameSocket, TasksOf, TaskTypes
<1> QED BY <1>1, <1>2, <1>3, Zenon DEF Core

\* Steps that change neither links nor persistent sockets keep the links.
LEMMA LinksKept ==
  ASSUME LinkTypes, Links, UNCHANGED <<linkVars, alive, persists>>
  PROVE  LinkTypes' /\ Links'
BY Zenon DEF linkVars, LinkTypes, Links

-----------------------------------------------------------------------------
(* Links.                                                                  *)

\* A link is added on all of its sides.
LEMMA AddLinkStep ==
  ASSUME LinkTypes, Links, NEW p \in alive, NEW u \in UPID, AddLink(p, u),
         UNCHANGED alive,
         AddressOf(u) = Local => u[2] \in alive,
         AddressOf(u) # Local => persists'[AddressOf(u)] # None,
         \A a \in Address : persists[a] # None => persists'[a] # None
  PROVE  LinkTypes' /\ Links'
<1> USE ConstantsAssumption
<1>1. AddressOf(u) # Local => AddressOf(u) \in Address /\ u \in Address \X Name
  BY Zenon DEF UPID, AddressOf
<1>2. LinkTypes'
  BY <1>1 DEF LinkTypes, AddLink
<1>3. \A q \in Process, v \in UPID :
        <<v, q>> \in linkers' <=> <<v, q>> \in linkers \/ (v = u /\ q = p)
  BY Zenon DEF AddLink
<1>4. \A q \in Process, v \in UPID :
        <<q, v>> \in linkees' <=> <<q, v>> \in linkees \/ (v = u /\ q = p)
  BY Zenon DEF AddLink
<1>5. \A a \in Address, v \in Address \X Name :
        <<a, v>> \in remotes' <=> <<a, v>> \in remotes \/ (v = u /\ a = AddressOf(u))
  BY <1>1, Zenon DEF AddLink, AddressOf
<1>6. \A a \in Address, v \in Address \X Name :
        <<a, v>> \in remotes' <=> a = AddressOf(v) /\ \E q \in Process : <<v, q>> \in linkers'
  BY <1>3, <1>5, Zenon DEF Links, UPID, LinkTypes
<1>7. \A q \in Process, v \in UPID :
        /\ <<q, v>> \in linkees' <=> <<v, q>> \in linkers'
        /\ <<v, q>> \in linkers' => q \in alive'
  BY <1>3, <1>4, Zenon DEF Links
<1>8. \A q, r \in Process : <<<<Local, r>>, q>> \in linkers' => r \in alive'
  <2> SUFFICES ASSUME NEW q \in Process, NEW r \in Process, <<<<Local, r>>, q>> \in linkers'
               PROVE  r \in alive
    BY Zenon
  <2>1. <<Local, r>> \in UPID
    BY Zenon DEF UPID
  <2>2. CASE <<<<Local, r>>, q>> \in linkers
    BY <2>2, Zenon DEF Links
  <2>3. CASE u = <<Local, r>>
    BY <2>3, Zenon DEF AddressOf
  <2> QED BY <2>1, <2>2, <2>3, <1>3, Zenon
<1>9. \A a \in Address, v \in Address \X Name : <<a, v>> \in remotes' => persists'[a] # None
  BY <1>1, <1>5, Zenon DEF Links
<1> QED BY <1>2, <1>6, <1>7, <1>8, <1>9, Zenon DEF Links

\* exited(ProcessBase).
LEMMA ExitedStep ==
  ASSUME IInv, NEW p \in Process, Exited(p)
  PROVE  IInv'
<1> USE ConstantsAssumption
<1>1. MapTypes' /\ TaskTypes' /\ Core'
  BY CoreKept, Zenon DEF IInv, Exited, coreVars, countVars, MapTypes
<1>2. /\ alive' = alive \ {p} /\ UNCHANGED persists
      /\ \A q \in Process, v \in UPID :
           /\ <<v, q>> \in linkers' <=>
                <<v, q>> \in linkers /\ q # p /\ v # <<Local, p>>
           /\ <<q, v>> \in linkees' <=>
                <<q, v>> \in linkees /\ q # p /\ v # <<Local, p>>
  BY Zenon DEF Exited, mapVars
<1>3. LinkTypes'
  <2>1. exits' \subseteq Process \X UPID
    BY DEF Exited, IInv, LinkTypes
  <2> QED BY <2>1, Zenon DEF Exited, IInv, LinkTypes
<1>4. ASSUME NEW a \in Address, NEW u \in Address \X Name
      PROVE  <<a, u>> \in remotes' <=>
               a = AddressOf(u) /\ \E q \in Process : <<u, q>> \in linkers'
  <2>1. u \in UPID /\ u # <<Local, p>>
    BY DEF UPID
  <2>2. <<a, u>> \in remotes' <=>
          /\ <<a, u>> \in remotes
          /\ ~(/\ a = AddressOf(u) /\ <<u, p>> \in linkers
               /\ \A q \in Process : <<u, q>> \in linkers => q = p)
    BY <2>1 DEF Exited, IInv, LinkTypes, AddressOf
  <2> QED BY <1>2, <2>1, <2>2, Zenon DEF IInv, Links
<1>5. \A q \in Process, v \in UPID :
        /\ <<q, v>> \in linkees' <=> <<v, q>> \in linkers'
        /\ <<v, q>> \in linkers' => q \in alive'
  BY <1>2, Zenon DEF IInv, Links
<1>6. \A q, r \in Process : <<<<Local, r>>, q>> \in linkers' => r \in alive'
  BY <1>2, Zenon DEF IInv, Links, UPID
<1>7. \A a \in Address, v \in Address \X Name : <<a, v>> \in remotes' => persists'[a] # None
  BY <1>2, Zenon DEF IInv, Links, Exited
<1> QED BY <1>1, <1>3, <1>4, <1>5, <1>6, <1>7, Zenon DEF IInv, Links

\* link with a process of this program, with a persistent socket, and with none.
LEMMA LinkStep ==
  ASSUME IInv, NEW p \in Process, NEW u \in UPID,
         \/ \E q \in Process : u = <<Local, q>> /\ LinkLocal(p, q)
         \/ u \in Address \X Name /\ (LinkReuse(p, u) \/ LinkFails(p, u))
  PROVE  IInv'
<1> USE ConstantsAssumption
<1>1. MapTypes' /\ TaskTypes' /\ Core'
  BY CoreKept, Zenon DEF IInv, LinkLocal, LinkReuse, LinkFails, CountLink, coreVars,
     countVars, MapTypes
<1>2. p \in alive /\ UNCHANGED <<alive, persists>>
  BY Zenon DEF LinkLocal, LinkReuse, LinkFails, CountLink, mapVars
<1>3. CASE /\ AddLink(p, u)
           /\ \/ u \in {Local} \X Process /\ u[2] \in alive
              \/ u \in Address \X Name /\ persists[AddressOf(u)] # None
  <2>1. /\ AddressOf(u) = Local => u[2] \in alive
        /\ AddressOf(u) # Local => persists'[AddressOf(u)] # None
    BY <1>2, <1>3, Zenon DEF AddressOf
  <2> QED BY <1>1, <1>2, <1>3, <2>1, AddLinkStep, Zenon DEF IInv
<1>4. CASE exits' = exits \cup {<<p, u>>} /\ UNCHANGED <<linkers, linkees, remotes>>
  <2>1. LinkTypes'
    BY <1>2, <1>4 DEF IInv, LinkTypes
  <2>2. Links'
    BY <1>2, <1>4, Zenon DEF IInv, Links
  <2> QED BY <1>1, <2>1, <2>2, Zenon DEF IInv
<1>5. CASE \E q \in Process : u = <<Local, q>> /\ LinkLocal(p, q)
  <2>1. PICK q \in Process : u = <<Local, q>> /\ LinkLocal(p, q)
    BY <1>5, Zenon
  <2>2. u \in {Local} \X Process /\ u[2] = q
    BY <2>1, Zenon
  <2> QED BY <1>3, <1>4, <2>1, <2>2, Zenon DEF LinkLocal
<1>6. CASE u \in Address \X Name /\ (LinkReuse(p, u) \/ LinkFails(p, u))
  BY <1>3, <1>4, <1>6, Zenon DEF LinkReuse, LinkFails
<1> QED BY <1>5, <1>6, Zenon

\* The peer hangs up: nothing but `shut' changes.
LEMMA HangUpStep ==
  ASSUME IInv, NEW t \in tasks, HangUp(t)
  PROVE  IInv'
<1>1. LinkTypes' /\ Links'
  BY LinksKept, Zenon DEF IInv, HangUp, mapVars
<1>2. MapTypes' /\ TaskTypes' /\ Core'
  BY CoreKept, Zenon DEF IInv, HangUp, coreVars, countVars, MapTypes, TaskTypes
<1> QED BY <1>1, <1>2, Zenon DEF IInv

-----------------------------------------------------------------------------
(* Closing a socket.                                                       *)

\* exited(Address): the links of the address go with its persistent socket.
LEMMA ExitedAddressStep ==
  ASSUME LinkTypes, Links, NEW b \in Address, ExitedAddress(b),
         UNCHANGED alive,
         \A a \in Address : a # b /\ persists[a] # None => persists'[a] # None
  PROVE  LinkTypes' /\ Links'
<1> USE ConstantsAssumption
<1> DEFINE told == {<<l[2], l[1]>> : l \in LostLinks(b)}
<1>0. /\ told \subseteq Process \X UPID
      /\ \A q \in Process, v \in UPID :
           /\ <<v, q>> \in LostLinks(b) <=> <<v, q>> \in linkers /\ <<b, v>> \in remotes
           /\ <<q, v>> \in told <=> <<v, q>> \in LostLinks(b)
  <2>1. LostLinks(b) \subseteq UPID \X Process
    BY Zenon DEF LostLinks, LinkTypes
  <2>2. \A q \in Process, v \in UPID :
          <<v, q>> \in LostLinks(b) <=> <<v, q>> \in linkers /\ <<b, v>> \in remotes
    BY Zenon DEF LostLinks
  <2>3. \A q \in Process, v \in UPID : <<v, q>> \in LostLinks(b) => <<q, v>> \in told
    OBVIOUS
  <2>4. \A l \in UPID \X Process : l = <<l[1], l[2]>>
    OBVIOUS
  <2>5. \A q \in Process, v \in UPID : <<q, v>> \in told => <<v, q>> \in LostLinks(b)
    BY <2>1, <2>4
  <2>6. told \subseteq Process \X UPID
    BY <2>1
  <2> QED BY <2>2, <2>3, <2>5, <2>6, Zenon
<1>1. /\ \A q \in Process, v \in UPID :
           /\ <<v, q>> \in linkers' <=> <<v, q>> \in linkers /\ <<b, v>> \notin remotes
           /\ <<q, v>> \in linkees' <=> <<q, v>> \in linkees /\ <<q, v>> \notin told
      /\ exits' = exits \cup told
  <2> HIDE DEF told
  <2>1. exits' = exits \cup told /\ linkees' = linkees \ told
        /\ linkers' = linkers \ LostLinks(b)
    BY Zenon DEF ExitedAddress, told
  <2> QED BY <1>0, <2>1, Zenon
<1> HIDE DEF told
<1>2. \A a \in Address, v \in Address \X Name :
        <<a, v>> \in remotes' <=> <<a, v>> \in remotes /\ a # b
  BY Zenon DEF ExitedAddress
<1>3. LinkTypes'
  BY <1>0, <1>1, Zenon DEF ExitedAddress, LinkTypes
<1>4. ASSUME NEW a \in Address, NEW u \in Address \X Name
      PROVE  <<a, u>> \in remotes' <=>
               a = AddressOf(u) /\ \E q \in Process : <<u, q>> \in linkers'
  <2>1. u \in UPID
    BY Zenon DEF UPID
  <2> QED BY <1>1, <1>2, <2>1, Zenon DEF Links
<1>5. \A q \in Process, v \in UPID :
        /\ <<q, v>> \in linkees' <=> <<v, q>> \in linkers'
        /\ <<v, q>> \in linkers' => q \in alive'
  BY <1>0, <1>1, Zenon DEF Links
<1>6. \A q, r \in Process : <<<<Local, r>>, q>> \in linkers' => r \in alive'
  BY <1>1, Zenon DEF Links, UPID
<1>7. \A a \in Address, v \in Address \X Name : <<a, v>> \in remotes' => persists'[a] # None
  BY <1>2, Zenon DEF Links
<1> QED BY <1>3, <1>4, <1>5, <1>6, <1>7, Zenon DEF Links

\* What a task is made of.
LEMMA TaskFields ==
  ASSUME NEW do, NEW s, NEW m
  PROVE  /\ Task(do, s, m).do = do /\ Task(do, s, m).s = s /\ Task(do, s, m).m = m
         /\ do \in Dos /\ s \in Socket /\ m \in 0..MaxMessages =>
              Task(do, s, m) \in [do : Dos, s : Socket, m : 0..MaxMessages]
BY Zenon DEF Task

\* A task without a message has number 0.
LEMMA NoMessage == 0 \in 0..MaxMessages
BY ConstantsAssumption

\* A task that finds its socket gone ends.
LEMMA DropTask ==
  ASSUME MapTypes, TaskTypes, Core, NEW t \in tasks,
         t.do \notin {"spawn", "terminate"}, t.s \notin sockets,
         tasks' = tasks \ {t}, UNCHANGED <<mapVars, shut, created, messages, last, proxy>>
  PROVE  MapTypes' /\ TaskTypes' /\ Core'
<1> USE DEF mapVars
<1>1. MapTypes' /\ TaskTypes'
  BY Zenon DEF MapTypes, TaskTypes
<1>2. Maps' /\ Watched'
  <2>1. Maps'
    BY Zenon DEF Core, Maps
  <2>2. \A a \in Address : persists[a] # None => persists[a] # t.s
    BY SocketsOfAddress, Zenon DEF Core
  <2> QED BY <2>1, <2>2, Zenon DEF Core, Watched
<1>3. PICK s \in Socket : s = t.s
  BY Zenon DEF TaskTypes
<1>4. ASSUME NEW x \in Socket, x # s PROVE SocketOK(x)'
  BY <1>3, <1>4, SocketKept DEF Core, SameSocket, TasksOf, TaskTypes
<1>5. SocketOK(s)'
  <2>1. TasksOf(s)' = TasksOf(s) \ {t} /\ t \in TasksOf(s) /\ s \notin sockets
    BY <1>3, Zenon DEF TasksOf
  <2>2. SocketOK(s)
    BY Zenon DEF Core
  <2>3. Fresh(s)' /\ Served(s)' /\ Ordered(s)' /\ Numbered(s)'
    BY <2>1, <2>2, Zenon DEF SocketOK, Fresh, Served, Ordered, Numbered
  <2>4. Connecting(s)' /\ Inbound(s)'
    BY <2>1, <2>2, Zenon DEF SocketOK, Connecting, Inbound
  <2> QED BY <2>3, <2>4, Zenon DEF SocketOK
<1> QED BY <1>1, <1>2, <1>4, <1>5, Zenon DEF Core

\* A task ends and its socket is forgotten.
LEMMA ForgetStep ==
  ASSUME MapTypes, TaskTypes, Core, NEW t \in tasks, NEW s \in sockets, s = t.s,
         t.do \notin {"spawn", "terminate"},
         Forget(s), persists' = Unset(persists, s),
         tasks' = TerminateProxy(s, tasks \ {t}),
         UNCHANGED <<created, messages, last, proxy>>
  PROVE  MapTypes' /\ TaskTypes' /\ Core'
<1>1. /\ s \in Socket /\ addresses'[s] = None /\ outgoing'[s] = None
      /\ \A x \in Socket : x # s =>
           addresses'[x] = addresses[x] /\ outgoing'[x] = outgoing[x]
  BY Zenon DEF Forget, MapTypes
<1>2. \A a \in Address :
        /\ temps'[a] = IF temps[a] = s THEN None ELSE temps[a]
        /\ persists'[a] = IF persists[a] = s THEN None ELSE persists[a]
  BY Zenon DEF Forget, Unset, MapTypes
<1>3. /\ sockets' = sockets \ {s} /\ proxies' = proxies \ {s} /\ dispose' = dispose \ {s}
      /\ shut' = shut \cup {s}
  BY Zenon DEF Forget
<1> DEFINE end == Task("terminate", s, 0)
<1>4. /\ end.s = s /\ end.do = "terminate" /\ end.m = 0
      /\ end \in [do : Dos, s : Socket, m : 0..MaxMessages]
  BY <1>1, TaskFields, ConstantsAssumption DEF Dos
<1>5. tasks' = IF s \in proxies THEN (tasks \ {t}) \cup {end} ELSE tasks \ {t}
  BY Zenon DEF TerminateProxy
<1> HIDE DEF end
<1>6. MapTypes'
  BY Zenon DEF MapTypes, Forget, Unset
<1>7. TaskTypes'
  BY <1>4, <1>5, Zenon DEF TaskTypes
<1>8. Maps'
  BY <1>1, <1>2, <1>3, NoneIsNothing DEF Core, Maps, MapTypes
<1>9. Watched'
  BY <1>2, <1>5, NoneIsNothing, Zenon DEF Core, Watched, MapTypes
<1>10. ASSUME NEW x \in Socket, x # s PROVE SocketOK(x)'
  <2>1. TasksOf(x)' = TasksOf(x)
    BY <1>4, <1>5, <1>10, Zenon DEF TasksOf
  <2> QED BY <1>1, <1>3, <1>10, <2>1, SocketKept DEF Core, SameSocket, TaskTypes
<1>11. SocketOK(s)'
  <2>1. SocketOK(s)
    BY <1>1, Zenon DEF Core
  <2>2. t \in TasksOf(s)
    BY Zenon DEF TasksOf
  <2>3. TasksOf(s)' = IF s \in proxies THEN (TasksOf(s) \ {t}) \cup {end} ELSE TasksOf(s) \ {t}
    BY <1>4, <1>5, Zenon DEF TasksOf
  <2>4. Fresh(s)' /\ Served(s)' /\ Ordered(s)'
    BY <1>3, <2>1, <2>2, Zenon DEF SocketOK, Fresh, Served, Ordered
  <2>5. Numbered(s)'
    BY <1>1, <1>4, <2>1, <2>3 DEF SocketOK, Numbered, TaskTypes
  <2>6. Connecting(s)'
    BY <1>3, <1>4, <2>1, <2>2, <2>3, Zenon DEF SocketOK, Connecting, Connects
  <2>7. /\ proxy[s] # "new" /\ (s \in proxies <=> proxy[s] # "none")
        /\ \A u \in TasksOf(s) : u.do \notin {"spawn", "terminate"}
        /\ s \in proxies => addresses[s] = None /\ \A u \in TasksOf(s) : u.do \notin Connects
    BY <2>1, <2>2, Zenon DEF SocketOK, Inbound, Connecting
  <2>8. \A u \in TasksOf(s)' :
          /\ u.do \notin {"spawn"} /\ (u.do = "receive" => proxy[s] # "none" \/ TasksOf(s)' = {u})
          /\ u.do = "terminate" => s \notin sockets'
    BY <1>3, <1>4, <2>1, <2>2, <2>3, <2>7, Zenon DEF SocketOK, Inbound
  <2>9. \A u \in TasksOf(s)' : u.do \in {"receive", "spawn", "terminate"} =>
          \A v \in TasksOf(s)' : v.do \notin Connects
    BY <1>4, <2>1, <2>3, <2>7, Zenon DEF SocketOK, Inbound, Connects
  <2>10. proxy'[s] = "live" => \E u \in TasksOf(s)' : u.do = "terminate"
    BY <1>4, <2>3, <2>7, Zenon
  <2>11. Inbound(s)'
    BY <1>1, <1>3, <2>7, <2>8, <2>9, <2>10, Zenon DEF Inbound
  <2> QED BY <2>4, <2>5, <2>6, <2>11, Zenon DEF SocketOK
<1> QED BY <1>6, <1>7, <1>8, <1>9, <1>10, <1>11, Zenon DEF Core

\* close(s), as the last step of a task: connecting, sending or receiving.
LEMMA CloseStep ==
  ASSUME IInv, NEW t \in tasks, t.do \notin {"spawn", "terminate"},
         Close(t.s, tasks \ {t}), UNCHANGED <<alive, countVars, last, proxy>>
  PROVE  IInv'
<1> USE ConstantsAssumption
<1>1. CASE t.s \notin sockets
  <2>1. MapTypes' /\ TaskTypes' /\ Core'
    BY <1>1, DropTask, Zenon DEF IInv, Close, mapVars, countVars
  <2>2. LinkTypes' /\ Links'
    BY <1>1, LinksKept, Zenon DEF IInv, Close, mapVars
  <2> QED BY <2>1, <2>2, Zenon DEF IInv
<1>2. CASE t.s \in sockets
  <2>1. PICK s \in sockets : s = t.s
    BY <1>2, Zenon
  <2>2. MapTypes' /\ TaskTypes' /\ Core'
    BY <1>2, <2>1, ForgetStep, Zenon DEF IInv, Close, countVars
  <2>3. \A a \in Address : persists'[a] = IF persists[a] = s THEN None ELSE persists[a]
    BY <2>1 DEF Close, Unset, IInv, MapTypes
  <2>4. CASE addresses[s] # None /\ persists[addresses[s]] = s
    <3>1. PICK b \in Address : b = addresses[s]
      BY <2>4, Zenon DEF IInv, MapTypes
    <3>2. ExitedAddress(b)
      BY <2>1, <2>4, <3>1, Zenon DEF Close
    <3>3. \A a \in Address : a # b /\ persists[a] # None => persists'[a] # None
      BY <2>1, <2>3, <3>1, Zenon DEF IInv, Core, Maps, MapTypes
    <3>4. LinkTypes' /\ Links'
      BY <3>2, <3>3, ExitedAddressStep, Zenon DEF IInv
    <3> QED BY <2>2, <3>4, Zenon DEF IInv
  <2>5. CASE ~(addresses[s] # None /\ persists[addresses[s]] = s)
    <3>1. UNCHANGED persists
      <4>1. \A a \in Address : persists'[a] = persists[a]
        BY <2>1, <2>3, <2>5 DEF IInv, Core, Maps, MapTypes
      <4> QED BY <2>2, <4>1 DEF IInv, MapTypes
    <3>2. LinkTypes' /\ Links'
      BY <2>1, <2>5, <3>1, LinksKept, Zenon DEF IInv, Close
    <3> QED BY <2>2, <3>2, Zenon DEF IInv
  <2> QED BY <2>4, <2>5, Zenon
<1> QED BY <1>1, <1>2, Zenon

-----------------------------------------------------------------------------
(* Sending.                                                                *)

\* The sender of a known socket is the only one, and the socket has a queue.
LEMMA OnlySender ==
  ASSUME Core, NEW s \in Socket, s \in sockets, NEW t \in tasks, t.s = s, t.do \in Sending
  PROVE  Senders(s) = {t} /\ outgoing[s] # None
<1>1. t \in Senders(s)
  BY Zenon DEF Senders
<1> QED BY <1>1, Zenon DEF Core, SocketOK, Served

\* A sender t of the socket s is replaced by another, n; when it has connected it
\* also starts to receive.
LEMMA SenderStep ==
  ASSUME IInv, NEW t \in tasks, NEW s \in Socket, s = t.s, t.do \in Sending,
         NEW n \in [do : {"write", "next"}, s : {s}, m : 0..MaxMessages],
         n.m # 0 <=> n.do = "write",
         NEW more \in SUBSET {Task("recv", s, 0)},
         more # {} => t.do \in Connects /\ s \in sockets,
         t.do = "link_connect" => more # {},
         tasks' = ((tasks \ {t}) \cup {n}) \cup more,
         outgoing' \in [Socket -> Seq(Message) \cup {None}],
         outgoing'[s] = None <=> outgoing[s] = None,
         last' \in [Socket -> 0..MaxMessages],
         \A x \in Socket : x # s => outgoing'[x] = outgoing[x] /\ last'[x] = last[x],
         UNCHANGED <<sockets, dispose, addresses, temps, persists, proxies, linkVars,
                     alive, shut, created, messages, proxy>>,
         s > created => last'[s] = 0,
         Senders(s)' = {n} => Ordered(s)', Numbered(s)'
  PROVE  IInv'
<1> DEFINE recv == Task("recv", s, 0)
<1>1. /\ recv.s = s /\ recv.do = "recv" /\ recv.m = 0
      /\ recv \in [do : Dos, s : Socket, m : 0..MaxMessages]
      /\ more = {} \/ more = {recv}
  BY TaskFields, ConstantsAssumption DEF Dos
<1> HIDE DEF recv
<1>2. n.s = s /\ n.do \in {"write", "next"} /\ n \in [do : Dos, s : Socket, m : 0..MaxMessages]
  BY Zenon DEF Dos, Sending
<1>3. LinkTypes' /\ Links'
  BY LinksKept, Zenon DEF IInv
<1>4. MapTypes' /\ TaskTypes'
  <2>1. MapTypes'
    BY Zenon DEF IInv, MapTypes
  <2>2. TaskTypes'
    BY <1>1, <1>2, Zenon DEF IInv, TaskTypes
  <2> QED BY <2>1, <2>2, Zenon
<1>5. Maps'
  BY DEF IInv, Core, Maps
<1>6. Watched'
  <2>1. t.do = "link_connect" => recv \in tasks'
    BY <1>1, Zenon
  <2>2. tasks \ {t} \subseteq tasks'
    BY Zenon
  <2> QED BY <1>1, <2>1, <2>2 DEF IInv, Core, Watched, Sending
<1>7. ASSUME NEW x \in Socket, x # s PROVE SocketOK(x)'
  <2>1. TasksOf(x)' = TasksOf(x)
    BY <1>1, <1>2, <1>7, Zenon DEF TasksOf
  <2>2. SameSocket(x)
    BY <1>7, <2>1, Zenon DEF SameSocket
  <2>3. MapTypes /\ TaskTypes /\ SocketOK(x)
    BY Zenon DEF IInv, Core
  <2> QED BY <2>2, <2>3, SocketKept DEF TaskTypes
<1>8. SocketOK(s)'
  <2>1. SocketOK(s) /\ t \in TasksOf(s)
    BY Zenon DEF IInv, Core, TasksOf
  <2>2. TasksOf(s)' = ((TasksOf(s) \ {t}) \cup {n}) \cup more
    BY <1>1, <1>2, Zenon DEF TasksOf
  <2>3. s \in sockets => Senders(s)' = {n}
    <3>1. s \in sockets => Senders(s) = {t}
      BY OnlySender, Zenon DEF IInv
    <3> QED BY <1>1, <1>2, <3>1, Zenon DEF Senders, Sending
  <2>4. Served(s)' /\ Ordered(s)'
    <3>1. s \in sockets => outgoing[s] # None
      BY OnlySender, Zenon DEF IInv
    <3> QED BY <2>3, <3>1, Zenon DEF Served, Ordered
  <2>5. Fresh(s)'
    BY <2>1, Zenon DEF SocketOK, Fresh
  <2>6. more # {} => addresses[s] # None
    BY <2>1, Zenon DEF SocketOK, Connecting
  <2>7. /\ \A u \in TasksOf(s) : u.do # "spawn" /\ (u.do = "receive" => proxy[s] # "none")
        /\ \A u \in TasksOf(s) : u # t => u.do # "send_connect"
    BY <2>1 DEF SocketOK, Inbound, Connecting, Sending
  <2>8. \A u \in TasksOf(s)' : (u \in TasksOf(s) /\ u # t) \/ u.do \in {"write", "next", "recv"}
    BY <1>1, <1>2, <2>2, Zenon
  <2>9. Connecting(s)'
    BY <2>1, <2>7, <2>8, Zenon DEF SocketOK, Connecting, Connects
  <2>10. TasksOf(s) \ {t} \subseteq TasksOf(s)'
    BY <2>2, Zenon
  <2>11. Inbound(s)'
    BY <2>1, <2>7, <2>8, <2>10, Zenon DEF SocketOK, Inbound, Connects, Sending
  <2> QED BY <2>4, <2>5, <2>9, <2>11, Zenon DEF SocketOK
<1> QED BY <1>3, <1>4, <1>5, <1>6, <1>7, <1>8, Zenon DEF IInv, Core

\* link_connect and send_connect, when the connection is there.
LEMMA ConnectedStep ==
  ASSUME IInv, NEW t \in tasks, LinkConnected(t) \/ SendConnected(t)
  PROVE  IInv'
<1>1. PICK s \in Socket : s = t.s
  BY Zenon DEF IInv, TaskTypes
<1>2. CASE s \notin sockets
  <2>1. t.do # "send_connect"
    BY <1>1, <1>2, Zenon DEF IInv, Core, SocketOK, Connecting, TasksOf
  <2>2. /\ tasks' = tasks \ {t} /\ t.do = "link_connect"
        /\ UNCHANGED <<mapVars, linkVars, alive, shut, countVars, last, proxy>>
    BY <1>1, <1>2, <2>1, Zenon DEF LinkConnected, SendConnected
  <2>3. MapTypes' /\ TaskTypes' /\ Core'
    BY <1>1, <1>2, <2>2, DropTask, Zenon DEF IInv, countVars
  <2>4. LinkTypes' /\ Links'
    BY <2>2, LinksKept, Zenon DEF IInv, mapVars
  <2> QED BY <2>3, <2>4, Zenon DEF IInv
<1>3. CASE s \in sockets
  <2>1. PICK n : n = IF t.do = "link_connect" THEN Task("next", s, 0) ELSE Task("write", s, t.m)
    BY Zenon
  <2>2. PICK recv : recv = Task("recv", s, 0)
    BY Zenon
  <2>3. /\ tasks' = ((tasks \ {t}) \cup {n}) \cup {recv} /\ t.do \in Connects
        /\ UNCHANGED <<mapVars, linkVars, alive, shut, countVars, last, proxy>>
    BY <1>1, <1>3, <2>1, <2>2, Zenon DEF LinkConnected, SendConnected, Connects
  <2>4. /\ n \in [do : {"write", "next"}, s : {s}, m : 0..MaxMessages]
        /\ (n.m # 0 <=> n.do = "write") /\ n.m = t.m /\ n.s = s
    BY <2>1, <2>3, ConstantsAssumption, Zenon DEF Task, IInv, TaskTypes, Connects
  <2>5. t.do \in Sending
    BY <2>3, Zenon DEF Sending, Connects
  <2>6. Senders(s) = {t} /\ SocketOK(s)
    BY <1>1, <1>3, <2>5, OnlySender, Zenon DEF IInv, Core
  <2>7. Senders(s)' = {n} => Ordered(s)'
    BY <2>3, <2>4, <2>6, Zenon DEF SocketOK, Ordered, mapVars
  <2>8. Numbered(s)'
    <3>1. t \in TasksOf(s) /\ recv.m = 0 /\ 0 <= messages
      BY <1>1, <2>2 DEF Task, TasksOf, IInv, TaskTypes
    <3>2. \A u \in TasksOf(s)' : u = recv \/ u = n \/ u \in TasksOf(s)
      BY <2>3, Zenon DEF TasksOf
    <3> QED BY <2>3, <2>4, <2>6, <3>1, <3>2, Zenon DEF SocketOK, Numbered, mapVars, countVars
  <2>9. s > created => last'[s] = 0
    BY <2>3, <2>6, Zenon DEF SocketOK, Fresh
  <2> QED BY <1>1, <1>3, <2>2, <2>3, <2>4, <2>5, <2>7, <2>8, <2>9, SenderStep, Zenon
          DEF IInv, MapTypes, TaskTypes, mapVars, countVars
<1> QED BY <1>2, <1>3, Zenon

\* internal::_send, when the data is written.
LEMMA WrittenStep ==
  ASSUME IInv, NEW t \in tasks, Written(t)
  PROVE  IInv'
<1>1. PICK s \in Socket : s = t.s
  BY Zenon DEF IInv, TaskTypes
<1>2. PICK n : n = Task("next", s, 0)
  BY Zenon
<1>3. /\ tasks' = ((tasks \ {t}) \cup {n}) \cup {} /\ t.do = "write" /\ t.do \in Sending
      /\ UNCHANGED <<mapVars, linkVars, alive, shut, countVars, proxy>>
  BY <1>1, <1>2, Zenon DEF Written, Sending
<1>4. n \in [do : {"write", "next"}, s : {s}, m : 0..MaxMessages] /\ n.m = 0 /\ n.do = "next"
  BY <1>2, ConstantsAssumption DEF Task
<1>5. /\ t.m \in 0..MaxMessages /\ last' \in [Socket -> 0..MaxMessages] /\ last'[s] = t.m
      /\ \A x \in Socket : x # s => last'[x] = last[x]
  BY <1>1, Zenon DEF Written, IInv, TaskTypes
<1>6. SocketOK(s) /\ t \in TasksOf(s)
  BY <1>1, Zenon DEF IInv, Core, TasksOf
<1>7. Senders(s)' = {n} => Ordered(s)'
  <2>1. s \in sockets => Senders(s) = {t} /\ t.m # 0
    BY <1>1, <1>3, OnlySender, Zenon DEF IInv, TaskTypes
  <2> QED BY <1>3, <1>4, <1>5, <1>6, <2>1, Zenon DEF SocketOK, Ordered, mapVars
<1>8. Numbered(s)'
  <2>1. \A u \in TasksOf(s)' : u = n \/ u \in TasksOf(s)
    BY <1>3, Zenon DEF TasksOf
  <2>2. 0 <= messages
    BY DEF IInv, TaskTypes
  <2> QED BY <1>3, <1>4, <1>5, <1>6, <2>1, <2>2, Zenon DEF SocketOK, Numbered, mapVars, countVars
<1>9. s <= created
  BY <1>6 DEF SocketOK, Fresh, IInv, TaskTypes, Socket
<1>10. ~(s > created) /\ (n.m # 0 <=> n.do = "write")
  BY <1>4, <1>9 DEF IInv, TaskTypes, Socket
<1> QED BY <1>1, <1>3, <1>4, <1>5, <1>7, <1>8, <1>10, SenderStep, Zenon
        DEF IInv, MapTypes, TaskTypes, mapVars, countVars, Connects

\* A step that changes the queue and the tasks of one known socket s, and nothing
\* of the others.
LEMMA QueueStep ==
  ASSUME IInv, NEW s \in Socket, s \in sockets, TaskTypes', SocketOK(s)',
         outgoing' \in [Socket -> Seq(Message) \cup {None}],
         \A x \in Socket : x # s =>
           /\ outgoing'[x] = outgoing[x] /\ last'[x] = last[x] /\ TasksOf(x)' = TasksOf(x)
           /\ x \in dispose' <=> x \in dispose,
         addresses[s] # None => (s \in dispose' <=> s \in dispose),
         dispose' \subseteq sockets,
         \A t \in tasks \ tasks' : t.do = "next",
         messages' >= messages,
         UNCHANGED <<sockets, addresses, temps, persists, proxies, linkVars, alive, shut,
                     created, proxy>>
  PROVE  IInv'
<1>1. LinkTypes' /\ Links'
  BY LinksKept, Zenon DEF IInv
<1>2. MapTypes'
  BY Zenon DEF IInv, MapTypes
<1>3. Maps'
  <2>1. \A x \in Socket : addresses[x] # None => (x \in dispose' <=> x \in dispose)
    BY Zenon
  <2>2. \A x \in Socket : outgoing'[x] # None => x \in sockets'
    BY Zenon DEF IInv, Core, Maps
  <2> QED BY <2>1, <2>2, NoneIsNothing DEF IInv, Core, Maps
<1>4. Watched'
  BY Zenon DEF IInv, Core, Watched
<1>5. ASSUME NEW x \in Socket, x # s PROVE SocketOK(x)'
  <2>1. SameSocket(x)
    BY <1>5, Zenon DEF SameSocket
  <2>2. MapTypes /\ TaskTypes /\ SocketOK(x)
    BY Zenon DEF IInv, Core
  <2> QED BY <2>1, <2>2, SocketKept DEF TaskTypes
<1> QED BY <1>1, <1>2, <1>3, <1>4, <1>5, Zenon DEF IInv, Core

\* next(s).
LEMMA NextEncoderStep ==
  ASSUME IInv, NEW t \in tasks, NextEncoder(t)
  PROVE  IInv'
<1>1. PICK s \in Socket : s = t.s
  BY Zenon DEF IInv, TaskTypes
<1>2. /\ t.do = "next" /\ t.do \in Sending
      /\ UNCHANGED <<linkVars, alive, created, messages, last, proxy>>
  BY Zenon DEF NextEncoder, Sending, countVars
<1>3. SocketOK(s) /\ t \in TasksOf(s)
  BY <1>1, Zenon DEF IInv, Core, TasksOf
<1>4. CASE s \notin sockets
  <2>1. tasks' = tasks \ {t} /\ UNCHANGED <<mapVars, shut>>
    BY <1>1, <1>4, Zenon DEF NextEncoder
  <2>2. MapTypes' /\ TaskTypes' /\ Core'
    BY <1>1, <1>2, <1>4, <2>1, DropTask, Zenon DEF IInv
  <2>3. LinkTypes' /\ Links'
    BY <1>2, <2>1, LinksKept, Zenon DEF IInv, mapVars
  <2> QED BY <2>2, <2>3, Zenon DEF IInv
<1>5. CASE s \in sockets /\ outgoing[s] # <<>>
  <2>1. Senders(s) = {t} /\ outgoing[s] # None
    BY <1>1, <1>2, <1>5, OnlySender, Zenon DEF IInv
  <2>2. PICK q \in Seq(Message) : q = outgoing[s]
    BY <2>1, Zenon DEF IInv, MapTypes
  <2>3. /\ Len(q) \in Nat \ {0} /\ Head(q) = q[1] /\ q[1] \in Message
        /\ Tail(q) \in Seq(Message) /\ Len(Tail(q)) = Len(q) - 1
        /\ \A i \in 1..Len(Tail(q)) : Tail(q)[i] = q[i + 1] /\ i + 1 \in 1..Len(q)
    BY <1>5, <2>2
  <2>4. \A i \in 1..Len(q) : q[i] \in Nat
    BY <2>1, <2>2, QueueOfNumbers, Zenon DEF IInv
  <2>5. PICK n : n = Task("write", s, q[1])
    BY Zenon
  <2>6. /\ tasks' = ((tasks \ {t}) \cup {n}) \cup {}
        /\ outgoing' = [outgoing EXCEPT ![s] = Tail(q)]
        /\ UNCHANGED <<sockets, dispose, addresses, temps, persists, proxies, shut>>
    BY <1>1, <1>5, <2>2, <2>3, <2>5, Zenon DEF NextEncoder
  <2>7. /\ n \in [do : {"write", "next"}, s : {s}, m : 0..MaxMessages]
        /\ (n.m # 0 <=> n.do = "write") /\ n.m = q[1]
    BY <2>3, <2>5 DEF Task, Message
  <2>8. /\ outgoing' \in [Socket -> Seq(Message) \cup {None}] /\ outgoing'[s] = Tail(q)
        /\ outgoing'[s] # None /\ \A x \in Socket : x # s => outgoing'[x] = outgoing[x]
    BY <2>3, <2>6, NoneIsNothing, Zenon DEF IInv, MapTypes
  <2>9. Senders(s)' = {n} => Ordered(s)'
    <3> SUFFICES ASSUME Senders(s)' = {n} PROVE Ordered(s)'
      BY Zenon
    <3>1. \A i \in 1..Len(q) : q[i] > last[s] /\ \A j \in 1..(i - 1) : q[j] < q[i]
      BY <1>3, <1>5, <2>1, <2>2, Zenon DEF SocketOK, Ordered
    <3>2. \A i \in 1..Len(Tail(q)) :
            /\ Tail(q)[i] > last[s] /\ Tail(q)[i] > q[1]
            /\ \A j \in 1..(i - 1) : Tail(q)[j] < Tail(q)[i]
      BY <2>3, <3>1
    <3>3. q[1] > last[s]
      BY <2>3, <3>1
    <3> QED BY <1>2, <2>7, <2>8, <3>2, <3>3, Zenon DEF Ordered
  <2>10. Numbered(s)'
    <3>1. \A u \in TasksOf(s)' : u = n \/ u \in TasksOf(s)
      BY <2>6, Zenon DEF TasksOf
    <3>2. \A i \in 1..Len(q) : q[i] <= messages
      BY <1>3, <2>1, <2>2, Zenon DEF SocketOK, Numbered
    <3>3. q[1] <= messages /\ \A i \in 1..Len(Tail(q)) : Tail(q)[i] <= messages
      BY <2>3, <3>2
    <3> QED BY <1>2, <1>3, <2>7, <2>8, <3>1, <3>3, Zenon DEF SocketOK, Numbered
  <2>11. s > created => last'[s] = 0
    BY <1>2, <1>3, Zenon DEF SocketOK, Fresh
  <2> QED BY <1>1, <1>2, <2>1, <2>6, <2>7, <2>8, <2>9, <2>10, <2>11, SenderStep, Zenon
          DEF IInv, TaskTypes
<1>6. CASE s \in sockets /\ outgoing[s] = <<>> /\ s \notin dispose
  <2>1. /\ tasks' = tasks \ {t} /\ outgoing' = [outgoing EXCEPT ![s] = None]
        /\ UNCHANGED <<sockets, dispose, addresses, temps, persists, proxies, shut>>
    BY <1>1, <1>6, Zenon DEF NextEncoder
  <2>2. Senders(s) = {t}
    BY <1>1, <1>2, <1>6, OnlySender, Zenon DEF IInv
  <2>3. /\ Senders(s)' = {} /\ TasksOf(s)' = TasksOf(s) \ {t}
        /\ \A x \in Socket : x # s => TasksOf(x)' = TasksOf(x)
    BY <1>1, <2>1, <2>2, Zenon DEF Senders, TasksOf
  <2>4. /\ outgoing' \in [Socket -> Seq(Message) \cup {None}] /\ outgoing'[s] = None
        /\ \A x \in Socket : x # s => outgoing'[x] = outgoing[x]
    BY <2>1, Zenon DEF IInv, MapTypes
  <2>5. TaskTypes'
    BY <1>2, <2>1, Zenon DEF IInv, TaskTypes
  <2>6. Fresh(s)' /\ Served(s)' /\ Ordered(s)' /\ Numbered(s)'
    BY <1>2, <1>3, <2>1, <2>3, <2>4, Zenon DEF SocketOK, Fresh, Served, Ordered, Numbered
  <2>7. Connecting(s)' /\ Inbound(s)'
    BY <1>2, <1>3, <2>1, <2>3, Zenon DEF SocketOK, Connecting, Inbound
  <2>8. SocketOK(s)'
    BY <2>6, <2>7, Zenon DEF SocketOK
  <2> QED BY <1>2, <1>6, <2>1, <2>3, <2>4, <2>5, <2>8, QueueStep, SMTT(30)
          DEF IInv, MapTypes, TaskTypes
<1>7. CASE s \in sockets /\ outgoing[s] = <<>> /\ s \in dispose
  <2>1. tasks' = TerminateProxy(s, tasks \ {t}) /\ Forget(s) /\ persists' = persists
    BY <1>1, <1>7, Zenon DEF NextEncoder
  <2>2. persists' = Unset(persists, s)
    <3>1. \A a \in Address : persists[a] # s
      BY <1>7, Zenon DEF IInv, Core, Maps
    <3> QED BY <2>1, <3>1, Zenon DEF Unset, IInv, MapTypes
  <2>3. MapTypes' /\ TaskTypes' /\ Core'
    BY <1>1, <1>2, <1>7, <2>1, <2>2, ForgetStep, Zenon DEF IInv
  <2>4. LinkTypes' /\ Links'
    BY <1>2, <2>1, LinksKept, Zenon DEF IInv
  <2> QED BY <2>3, <2>4, Zenon DEF IInv
<1> QED BY <1>4, <1>5, <1>6, <1>7, Zenon

\* send on a known socket: the data is queued, or written at once.
LEMMA EnqueueStep ==
  ASSUME IInv, NEW s \in Socket, s \in sockets, NewMessage, Queue(s),
         addresses[s] # None \/ proxy[s] = "live",
         dispose' = dispose \/ (addresses[s] = None /\ dispose' = dispose \cup {s}),
         UNCHANGED <<sockets, addresses, temps, persists, proxies, linkVars, alive,
                     shut, created, last, proxy>>
  PROVE  IInv'
<1>0. /\ messages \in Nat /\ messages' = messages + 1 /\ messages' \in Message
      /\ messages' \in 1..MaxMessages /\ last[s] \in Nat
  BY ConstantsAssumption DEF NewMessage, IInv, TaskTypes, Message
<1>1. SocketOK(s)
  BY Zenon DEF IInv, Core
<1>2. Fresh(s)'
  BY <1>1, Zenon DEF SocketOK, Fresh, IInv, TaskTypes, Socket
<1>3. \A t \in TasksOf(s) : t.m \in Nat /\ t.m <= messages
  BY <1>1, ConstantsAssumption DEF SocketOK, Numbered, TasksOf, IInv, TaskTypes
<1>4. last[s] <= messages
  BY <1>1, Zenon DEF SocketOK, Numbered
<1>9. /\ \A x \in Socket : x # s => (x \in dispose' <=> x \in dispose)
      /\ addresses[s] # None => (s \in dispose' <=> s \in dispose)
      /\ dispose' \subseteq sockets /\ messages' >= messages
  BY <1>0 DEF IInv, MapTypes
<1>5. CASE outgoing[s] # None
  <2>1. PICK q \in Seq(Message) : q = outgoing[s]
    BY <1>5, Zenon DEF IInv, MapTypes
  <2>2. PICK r : r = Append(q, messages + 1)
    BY Zenon
  <2>3. /\ r \in Seq(Message) /\ Len(q) \in Nat /\ Len(r) = Len(q) + 1
        /\ r[Len(q) + 1] = messages' /\ \A i \in 1..Len(q) : r[i] = q[i]
    <3>1. messages + 1 \in Message /\ messages' = messages + 1
      BY <1>0, Zenon
    <3> QED BY <2>2, <3>1
  <2>4. tasks' = tasks /\ outgoing' = [outgoing EXCEPT ![s] = r]
    BY <1>0, <1>5, <2>1, <2>2, Zenon DEF Queue
  <2>5. /\ outgoing' \in [Socket -> Seq(Message) \cup {None}] /\ outgoing'[s] = r
        /\ outgoing'[s] # None /\ \A x \in Socket : x # s => outgoing'[x] = outgoing[x]
    BY <2>3, <2>4, NoneIsNothing, Zenon DEF IInv, MapTypes
  <2>6. /\ Senders(s)' = Senders(s) /\ \A x \in Socket : TasksOf(x)' = TasksOf(x)
        /\ Senders(s) \subseteq TasksOf(s)
    BY <2>4, Zenon DEF Senders, TasksOf
  <2>7. \A i \in 1..Len(q) : q[i] \in Nat /\ q[i] <= messages
    <3>1. \A i \in 1..Len(q) : q[i] \in Nat
      BY <1>5, <2>1, QueueOfNumbers, Zenon DEF IInv
    <3> QED BY <1>1, <1>5, <2>1, <3>1, Zenon DEF SocketOK, Numbered
  <2>8. Numbered(s)'
    <3>1. \A i \in 1..Len(r) : r[i] <= messages'
      BY <1>0, <2>3, <2>7
    <3> QED BY <1>0, <1>3, <1>4, <2>5, <2>6, <3>1 DEF Numbered
  <2>9. Ordered(s)'
    <3>1. \A i \in 1..Len(q) :
            /\ q[i] > last[s] /\ \A j \in 1..(i - 1) : q[j] < q[i]
            /\ \A t \in Senders(s) : t.m # 0 => q[i] > t.m
      BY <1>1, <1>5, <2>1, Zenon DEF SocketOK, Ordered
    <3>2. \A i \in 1..Len(r) :
            /\ r[i] > last[s] /\ \A j \in 1..(i - 1) : r[j] < r[i]
      <4> SUFFICES ASSUME NEW i \in 1..Len(r)
                   PROVE  r[i] > last[s] /\ \A j \in 1..(i - 1) : r[j] < r[i]
        BY Zenon
      <4>1. CASE i \in 1..Len(q)
        BY <2>3, <3>1, <4>1
      <4>2. CASE i = Len(q) + 1
        BY <1>0, <1>4, <2>3, <2>7, <4>2
      <4> QED BY <2>3, <4>1, <4>2
    <3>3. \A i \in 1..Len(r), t \in Senders(s) : t.m # 0 => r[i] > t.m
      BY <1>0, <1>3, <2>3, <2>6, <3>1
    <3>4. \A t \in Senders(s) : t.m # 0 => t.m > last[s]
      BY <1>1, Zenon DEF SocketOK, Ordered
    <3> QED BY <2>5, <2>6, <3>2, <3>3, <3>4, Zenon DEF Ordered
  <2>10. Served(s)'
    BY <1>1, <1>5, <2>4, <2>5, <2>6, Zenon DEF SocketOK, Served
  <2>11. Connecting(s)' /\ Inbound(s)'
    BY <1>1, <2>6, Zenon DEF SocketOK, Connecting, Inbound
  <2>12. SocketOK(s)' /\ TaskTypes'
    BY <1>0, <1>2, <2>4, <2>8, <2>9, <2>10, <2>11 DEF SocketOK, IInv, TaskTypes
  <2> QED BY <1>9, <2>4, <2>5, <2>6, <2>12, QueueStep, Zenon
<1>6. CASE outgoing[s] = None
  <2>1. PICK n : n = Task("write", s, messages')
    BY Zenon
  <2>2. /\ n \in [do : Dos, s : Socket, m : 0..MaxMessages] /\ n.m = messages' /\ n.m # 0
        /\ n.s = s /\ n.do = "write"
    BY <1>0, <2>1 DEF Task, Dos, Sending
  <2>3. tasks' = tasks \cup {n} /\ outgoing' = [outgoing EXCEPT ![s] = <<>>]
    BY <1>0, <1>6, <2>1, Zenon DEF Queue
  <2>4. /\ outgoing' \in [Socket -> Seq(Message) \cup {None}] /\ outgoing'[s] = <<>>
        /\ outgoing'[s] # None /\ \A x \in Socket : x # s => outgoing'[x] = outgoing[x]
    <3>1. <<>> \in Seq(Message)
      OBVIOUS
    <3> QED BY <2>3, <3>1, NoneIsNothing, Zenon DEF IInv, MapTypes
  <2>5. Senders(s) = {}
    BY <1>1, <1>6, Zenon DEF SocketOK, Served
  <2>6. /\ Senders(s)' = {n} /\ TasksOf(s)' = TasksOf(s) \cup {n}
        /\ \A x \in Socket : x # s => TasksOf(x)' = TasksOf(x)
    BY <2>2, <2>3, <2>5, Zenon DEF Senders, TasksOf, Sending
  <2>7. \A t \in TasksOf(s) : t.do \notin Connects /\ t.do \notin {"spawn", "terminate"}
                                /\ (t.do = "receive" => proxy[s] # "none")
    <3>1. \A t \in TasksOf(s) : t.do \notin Connects
      BY <2>5, Zenon DEF Senders, TasksOf, Connects, Sending
    <3> QED BY <1>1, <3>1, Zenon DEF SocketOK, Inbound
  <2>8. Connecting(s)' /\ Inbound(s)'
    <3>1. Connecting(s)'
      BY <2>2, <2>6, <2>7, Zenon DEF Connecting, Connects
    <3>2. Inbound(s)'
      BY <1>1, <2>2, <2>6, <2>7, Zenon DEF SocketOK, Inbound, Connects
    <3> QED BY <3>1, <3>2, Zenon
  <2>9. Numbered(s)' /\ Ordered(s)' /\ Served(s)'
    <3>1. Len(<<>>) = 0
      BY Zenon
    <3>2. Numbered(s)'
      BY <1>0, <1>3, <1>4, <2>2, <2>4, <2>6, <3>1 DEF Numbered
    <3>3. Ordered(s)'
      BY <1>0, <1>4, <2>2, <2>4, <2>6, <3>1 DEF Ordered
    <3>4. Served(s)'
      BY <2>3, <2>4, <2>6, Zenon DEF Served
    <3> QED BY <3>2, <3>3, <3>4, Zenon
  <2>10. SocketOK(s)'
    BY <1>2, <2>8, <2>9, Zenon DEF SocketOK
  <2>11. TaskTypes'
    BY <1>0, <2>2, <2>3, Zenon DEF IInv, TaskTypes
  <2> QED BY <1>9, <2>3, <2>4, <2>6, <2>10, <2>11, QueueStep, Zenon
<1> QED BY <1>5, <1>6, Zenon

\* send(Message) to an address that has a socket.
LEMMA SendReuseStep ==
  ASSUME IInv, NEW a \in Address, SendReuse(a)
  PROVE  IInv'
<1>1. PICK s : s = IF persists[a] # None THEN persists[a] ELSE temps[a]
  BY Zenon
<1>2. /\ s # None /\ NewMessage /\ Queue(s)
      /\ dispose' = IF persists[a] = None THEN dispose \cup {s} ELSE dispose
      /\ UNCHANGED <<sockets, addresses, temps, persists, proxies, linkVars, alive,
                     shut, created, last, proxy>>
  BY <1>1, Zenon DEF SendReuse
<1>3. /\ s \in Socket /\ s \in sockets /\ addresses[s] # None
      /\ persists[a] = None => s \in dispose
  BY <1>1, <1>2, SocketsOfAddress, NoneIsNothing DEF IInv, Core
<1>4. dispose' = dispose
  BY <1>2, <1>3, Zenon
<1> QED BY <1>2, <1>3, <1>4, EnqueueStep, Zenon

\* send(Encoder) from a proxy.
LEMMA RespondStep ==
  ASSUME IInv, NEW s \in Socket, NEW persist \in BOOLEAN, Respond(s, persist)
  PROVE  IInv'
<1>1. /\ proxy[s] = "live" /\ NewMessage
      /\ UNCHANGED <<sockets, addresses, temps, persists, proxies, linkVars, alive,
                     shut, created, last, proxy>>
  BY Zenon DEF Respond
<1>2. CASE s \in sockets
  <2>1. addresses[s] = None
    BY <1>1, Zenon DEF IInv, Core, SocketOK, Inbound
  <2>2. Queue(s) /\ (dispose' = dispose \/ dispose' = dispose \cup {s})
    BY <1>2, Zenon DEF Respond
  <2> QED BY <1>1, <1>2, <2>1, <2>2, EnqueueStep, Zenon
<1>3. CASE s \notin sockets
  <2>1. /\ UNCHANGED <<dispose, outgoing, tasks>>
        /\ messages' \in 0..MaxMessages /\ messages' >= messages
    BY <1>1, <1>3, ConstantsAssumption DEF Respond, NewMessage, IInv, TaskTypes
  <2>2. LinkTypes' /\ Links'
    BY <1>1, LinksKept, Zenon DEF IInv
  <2>3. MapTypes' /\ TaskTypes' /\ Maps' /\ Watched'
    BY <1>1, <2>1 DEF IInv, MapTypes, TaskTypes, Core, Maps, Watched
  <2>4. ASSUME NEW x \in Socket PROVE SocketOK(x)'
    <3>1. SameSocket(x)
      BY <1>1, <2>1, Zenon DEF SameSocket, TasksOf
    <3> QED BY <1>1, <2>1, <3>1, SocketKept DEF IInv, Core, TaskTypes
  <2> QED BY <2>2, <2>3, <2>4, Zenon DEF IInv, Core
<1> QED BY <1>2, <1>3, Zenon

-----------------------------------------------------------------------------
(* New sockets.                                                            *)

\* A new socket s comes with its first task n: to connect, or to receive.
LEMMA NewSocketStep ==
  ASSUME IInv, NEW s \in Socket, Create(s), NEW n,
         n \in [do : {"link_connect", "send_connect", "receive"}, s : {s}, m : 0..MaxMessages],
         n.m # 0 <=> n.do = "send_connect", n.m <= messages',
         sockets' = sockets \cup {s}, tasks' = tasks \cup {n},
         messages' \in 0..MaxMessages, messages' >= messages,
         MapTypes', Maps', Watched', LinkTypes', Links',
         \A x \in Socket : x # s => /\ addresses'[x] = addresses[x] /\ outgoing'[x] = outgoing[x]
                                    /\ x \in dispose' <=> x \in dispose,
         IF n.do = "receive" THEN addresses'[s] = None /\ outgoing'[s] = None
                             ELSE addresses'[s] # None /\ outgoing'[s] = <<>>,
         n.do = "send_connect" => s \in dispose',
         UNCHANGED <<proxies, proxy, last>>
  PROVE  IInv'
<1>1. /\ created' = s /\ s > created /\ created' \in 0..MaxSockets /\ created' \in Nat
      /\ created' >= created /\ s \notin sockets /\ messages' \in Nat
  BY ConstantsAssumption DEF Create, IInv, TaskTypes, Core, SocketOK, Fresh, Socket
<1>2. TasksOf(s) = {} /\ proxy[s] = "none" /\ last[s] = 0
  BY <1>1, Zenon DEF IInv, Core, SocketOK, Fresh
<1>3. n \in [do : Dos, s : Socket, m : 0..MaxMessages] /\ n.s = s
  BY Zenon DEF Dos, Sending
<1>4. /\ TasksOf(s)' = {n} /\ \A x \in Socket : x # s => TasksOf(x)' = TasksOf(x)
      /\ Senders(s)' = IF n.do = "receive" THEN {} ELSE {n}
  <2>1. TasksOf(s)' = {n} /\ \A x \in Socket : x # s => TasksOf(x)' = TasksOf(x)
    BY <1>2, <1>3, Zenon DEF TasksOf
  <2>2. Senders(s)' = {t \in TasksOf(s)' : t.do \in Sending}
    BY Zenon DEF Senders, TasksOf
  <2> QED BY <2>1, <2>2, Zenon DEF Sending
<1>5. TaskTypes'
  BY <1>1, <1>3, Zenon DEF IInv, TaskTypes
<1>6. ASSUME NEW x \in Socket, x # s PROVE SocketOK(x)'
  <2>1. SameSocket(x)
    BY <1>4, <1>6, Zenon DEF SameSocket
  <2> QED BY <1>1, <2>1, SocketKept, Zenon DEF IInv, Core
<1>7. SocketOK(s)'
  <2>1. Fresh(s)' /\ Connecting(s)'
    <3>1. ~(s > created') /\ s \in sockets'
      BY <1>1
    <3>2. \A t \in TasksOf(s)' : t = n
      BY <1>4, Zenon
    <3> QED BY <1>4, <3>1, <3>2, Zenon DEF Fresh, Connecting, Connects
  <2>2. Inbound(s)'
    <3>1. s \in sockets' /\ s \notin proxies' /\ proxy'[s] = "none"
      BY <1>1, <1>2, Zenon DEF IInv, MapTypes
    <3>2. \A t \in TasksOf(s)' : t = n /\ t.do \in {"link_connect", "send_connect", "receive"}
      BY <1>4, Zenon
    <3> QED BY <1>4, <3>1, <3>2, Zenon DEF Inbound, Connects
  <2>3. <<>> # None /\ Len(<<>>) = 0
    <3>1. <<>> \in Seq(Message) /\ Len(<<>>) = 0
      OBVIOUS
    <3> QED BY <3>1, NoneIsNothing, Zenon
  <2>4. Served(s)'
    BY <1>4, <2>3, Zenon DEF Served
  <2>5. Ordered(s)' /\ Numbered(s)'
    BY <1>1, <1>2, <1>4, <2>3 DEF Ordered, Numbered
  <2> QED BY <2>1, <2>2, <2>4, <2>5, Zenon DEF SocketOK
<1> QED BY <1>5, <1>6, <1>7, Zenon DEF IInv, Core

\* link opens a persistent socket.
LEMMA LinkOpenStep ==
  ASSUME IInv, NEW p \in Process, NEW to \in Address \X Name, NEW s \in Socket,
         LinkOpen(p, to, s)
  PROVE  IInv'
<1>1. PICK a \in Address : a = AddressOf(to)
  BY Zenon DEF AddressOf
<1>2. PICK n : n = Task("link_connect", s, 0)
  BY Zenon
<1>3. /\ p \in alive /\ persists[a] = None /\ Create(s) /\ AddLink(p, to)
      /\ sockets' = sockets \cup {s} /\ tasks' = tasks \cup {n}
      /\ addresses' = [addresses EXCEPT ![s] = a] /\ persists' = [persists EXCEPT ![a] = s]
      /\ outgoing' = [outgoing EXCEPT ![s] = <<>>]
      /\ UNCHANGED <<dispose, temps, proxies, alive, shut, messages, last, proxy>>
  BY <1>1, <1>2, Zenon DEF LinkOpen, CountLink
<1>4. /\ n \in [do : {"link_connect", "send_connect", "receive"}, s : {s}, m : 0..MaxMessages]
      /\ n.do = "link_connect" /\ n.m = 0 /\ n.s = s
  BY <1>2, ConstantsAssumption DEF Task
<1>5. MapTypes'
  <2>1. <<>> \in Seq(Message)
    OBVIOUS
  <2> QED BY <1>3, <2>1, Zenon DEF IInv, MapTypes
<1>6. /\ addresses'[s] = a /\ outgoing'[s] = <<>> /\ persists'[a] = s
      /\ \A x \in Socket : x # s => addresses'[x] = addresses[x] /\ outgoing'[x] = outgoing[x]
      /\ \A b \in Address : b # a => persists'[b] = persists[b]
  BY <1>3, Zenon DEF IInv, MapTypes
<1>7. /\ s \notin sockets /\ s \notin dispose /\ addresses[s] = None
      /\ \A b \in Address : temps[b] # s /\ persists[b] # s
  <2>1. s \notin sockets
    BY <1>3 DEF Create, IInv, TaskTypes, Core, SocketOK, Fresh
  <2> QED BY <2>1, SocketsOfAddress, NoneIsNothing DEF IInv, Core, Maps, MapTypes
<1>8. Maps'
  BY <1>3, <1>6, <1>7, NoneIsNothing DEF IInv, Core, Maps, MapTypes
<1>9. Watched'
  <2>1. n \in tasks' /\ tasks \subseteq tasks'
    BY <1>3, Zenon
  <2> QED BY <1>4, <1>6, <2>1, Zenon DEF IInv, Core, Watched
<1>10. LinkTypes' /\ Links'
  <2>1. to \in UPID /\ AddressOf(to) # Local
    BY ConstantsAssumption, Zenon DEF UPID, AddressOf
  <2> QED BY <1>1, <1>3, <1>6, <2>1, NoneIsNothing, AddLinkStep, Zenon DEF IInv
<1>11. messages' \in 0..MaxMessages /\ messages' >= messages /\ 0 <= messages'
  BY <1>3 DEF IInv, TaskTypes
<1> QED BY <1>3, <1>4, <1>5, <1>6, <1>8, <1>9, <1>10, <1>11, NoneIsNothing, NewSocketStep

\* send opens a temporary socket.
LEMMA SendOpenStep ==
  ASSUME IInv, NEW a \in Address, NEW s \in Socket, SendOpen(a, s)
  PROVE  IInv'
<1>1. messages' = messages + 1 /\ messages' \in 1..MaxMessages /\ messages' >= messages
  BY ConstantsAssumption DEF SendOpen, NewMessage, IInv, TaskTypes
<1>2. PICK n : n = Task("send_connect", s, messages')
  BY Zenon
<1>3. /\ persists[a] = None /\ temps[a] = None /\ Create(s)
      /\ sockets' = sockets \cup {s} /\ tasks' = tasks \cup {n} /\ dispose' = dispose \cup {s}
      /\ addresses' = [addresses EXCEPT ![s] = a] /\ temps' = [temps EXCEPT ![a] = s]
      /\ outgoing' = [outgoing EXCEPT ![s] = <<>>]
      /\ UNCHANGED <<persists, proxies, linkVars, alive, shut, last, proxy>>
  BY <1>1, <1>2, Zenon DEF SendOpen
<1>4. /\ n \in [do : {"link_connect", "send_connect", "receive"}, s : {s}, m : 0..MaxMessages]
      /\ n.do = "send_connect" /\ n.m = messages' /\ n.m # 0 /\ n.m <= messages' /\ n.s = s
  BY <1>1, <1>2 DEF Task
<1>5. MapTypes'
  <2>1. <<>> \in Seq(Message)
    OBVIOUS
  <2> QED BY <1>3, <2>1, Zenon DEF IInv, MapTypes
<1>6. /\ addresses'[s] = a /\ outgoing'[s] = <<>> /\ temps'[a] = s
      /\ \A x \in Socket : x # s => addresses'[x] = addresses[x] /\ outgoing'[x] = outgoing[x]
      /\ \A b \in Address : b # a => temps'[b] = temps[b]
  BY <1>3, Zenon DEF IInv, MapTypes
<1>7. /\ s \notin sockets /\ s \notin dispose /\ addresses[s] = None
      /\ \A b \in Address : temps[b] # s /\ persists[b] # s
  <2>1. s \notin sockets
    BY <1>3 DEF Create, IInv, TaskTypes, Core, SocketOK, Fresh
  <2> QED BY <2>1, SocketsOfAddress, NoneIsNothing DEF IInv, Core, Maps, MapTypes
<1>8. Maps'
  BY <1>3, <1>6, <1>7, NoneIsNothing DEF IInv, Core, Maps, MapTypes
<1>9. Watched'
  BY <1>3, Zenon DEF IInv, Core, Watched
<1>10. LinkTypes' /\ Links'
  BY <1>3, LinksKept, Zenon DEF IInv
<1>11. messages' \in 0..MaxMessages
  BY <1>1
<1> QED BY <1>1, <1>3, <1>4, <1>5, <1>6, <1>8, <1>9, <1>10, <1>11, NoneIsNothing, NewSocketStep

\* An inbound socket.
LEMMA AcceptedStep ==
  ASSUME IInv, NEW s \in Socket, Accepted(s)
  PROVE  IInv'
<1>1. PICK n : n = Task("receive", s, 0)
  BY Zenon
<1>2. /\ Create(s) /\ sockets' = sockets \cup {s} /\ tasks' = tasks \cup {n}
      /\ UNCHANGED <<dispose, addresses, temps, persists, outgoing, proxies, linkVars,
                     alive, shut, messages, last, proxy>>
  BY <1>1, Zenon DEF Accepted
<1>3. /\ n \in [do : {"link_connect", "send_connect", "receive"}, s : {s}, m : 0..MaxMessages]
      /\ n.do = "receive" /\ n.m = 0
  BY <1>1, ConstantsAssumption DEF Task
<1>4. MapTypes' /\ Maps' /\ Watched'
  BY <1>2, Zenon DEF IInv, MapTypes, Core, Maps, Watched
<1>5. LinkTypes' /\ Links'
  BY <1>2, LinksKept, Zenon DEF IInv
<1>6. messages' \in 0..MaxMessages /\ messages' >= messages /\ 0 <= messages'
  BY <1>2 DEF IInv, TaskTypes
<1>7. addresses[s] = None /\ outgoing[s] = None
  BY <1>2 DEF Create, IInv, TaskTypes, Core, SocketOK, Fresh
<1> QED BY <1>2, <1>3, <1>4, <1>5, <1>6, <1>7, NewSocketStep, Zenon

\* swap_implementing_socket: the new socket s takes the place of an outbound one,
\* with the task n to connect.
LEMMA SwapStep ==
  ASSUME IInv, NEW from \in Socket, addresses[from] # None, NEW s \in Socket,
         Create(s), Swap(from, s),
         NEW n \in [do : Connects, s : {s}, m : 0..MaxMessages],
         n.m # 0 <=> n.do = "send_connect", n.do = "send_connect" => from \in dispose,
         n.m = 0 \/ \E t \in Senders(from) : t.m = n.m,
         NEW gone \in SUBSET TasksOf(from), tasks' = (tasks \ gone) \cup {n},
         \A t \in TasksOf(from) \ gone : t.do # "send_connect",
         shut' \subseteq Socket, LinkTypes', Links',
         UNCHANGED <<messages, proxy, last>>
  PROVE  IInv'
<1>1. /\ created' = s /\ s > created /\ created' \in 0..MaxSockets /\ created' \in Nat
      /\ created' >= created /\ messages' \in Nat /\ messages' >= messages /\ s \in Nat
      /\ 0 <= messages'
  BY ConstantsAssumption DEF Create, IInv, TaskTypes, Socket
<1>2. /\ s \notin sockets /\ s \notin dispose /\ s \notin proxies /\ addresses[s] = None
      /\ TasksOf(s) = {} /\ proxy[s] = "none" /\ last[s] = 0
  BY <1>1, Zenon DEF IInv, Core, SocketOK, Fresh, MapTypes
<1>3. from \in sockets /\ from # s /\ SocketOK(from)
  BY <1>2, Zenon DEF IInv, Core, Maps
<1>4. from \notin proxies /\ proxy[from] = "none"
  BY <1>3, Zenon DEF SocketOK, Inbound
<1>5. PICK q : q = IF outgoing[from] = None THEN <<>> ELSE outgoing[from]
  BY Zenon
<1>6. q \in Seq(Message) /\ q # None
  <2>1. <<>> \in Seq(Message)
    OBVIOUS
  <2> QED BY <1>5, <2>1, NoneIsNothing, Zenon DEF IInv, MapTypes
<1>7. /\ sockets' = (sockets \ {from}) \cup {s} /\ proxies' = proxies
      /\ dispose' = IF from \in dispose THEN (dispose \ {from}) \cup {s} ELSE dispose
      /\ addresses'[s] = addresses[from] /\ addresses'[from] = None
      /\ outgoing'[s] = q /\ outgoing'[from] = None
      /\ \A x \in Socket : x \notin {s, from} =>
           addresses'[x] = addresses[x] /\ outgoing'[x] = outgoing[x]
  BY <1>3, <1>4, <1>5, Zenon DEF Swap, IInv, MapTypes
<1>8. \A a \in Address :
        /\ temps'[a] = IF temps[a] = from THEN s ELSE temps[a]
        /\ persists'[a] = IF persists[a] = from THEN s ELSE persists[a]
  BY Zenon DEF Swap, Swapped, IInv, MapTypes
<1>9. MapTypes'
  <2>1. sockets' \subseteq Socket /\ dispose' \subseteq sockets' /\ proxies' \subseteq sockets'
    BY <1>4, <1>7, Zenon DEF IInv, MapTypes
  <2>2. addresses' \in [Socket -> Address \cup {None}]
    BY Zenon DEF Swap, IInv, MapTypes
  <2>3. /\ temps' \in [Address -> Socket \cup {None}]
        /\ persists' \in [Address -> Socket \cup {None}]
    BY Zenon DEF Swap, Swapped, IInv, MapTypes
  <2>4. outgoing' = [outgoing EXCEPT ![s] = q, ![from] = None]
    BY <1>5, Zenon DEF Swap
  <2>5. outgoing' \in [Socket -> Seq(Message) \cup {None}]
    BY <1>6, <2>4, Zenon DEF IInv, MapTypes
  <2> QED BY <2>1, <2>2, <2>3, <2>5, Zenon DEF MapTypes
<1>10. n \in [do : Dos, s : Socket, m : 0..MaxMessages] /\ n.s = s /\ n.do \in Sending
  BY Zenon DEF Dos, Sending, Connects
<1>11. /\ TasksOf(s)' = {n} /\ TasksOf(from)' = TasksOf(from) \ gone
       /\ \A x \in Socket : x \notin {s, from} => TasksOf(x)' = TasksOf(x)
       /\ Senders(s)' = {n}
  <2>1. TasksOf(s)' = {n} /\ TasksOf(from)' = TasksOf(from) \ gone
    BY <1>2, <1>3, <1>10, Zenon DEF TasksOf
  <2>2. \A x \in Socket : x \notin {s, from} => TasksOf(x)' = TasksOf(x)
    BY <1>10, Zenon DEF TasksOf
  <2>3. Senders(s)' = {t \in TasksOf(s)' : t.do \in Sending}
    BY Zenon DEF Senders, TasksOf
  <2> QED BY <1>10, <2>1, <2>2, <2>3, Zenon
<1>12. TaskTypes'
  BY <1>1, <1>10, Zenon DEF IInv, TaskTypes, Connects
<1>13. Maps'
  <2>1. \A a \in Address : temps[a] # s /\ persists[a] # s
    BY <1>2, SocketsOfAddress, NoneIsNothing DEF IInv, Core
  <2>2. \A a \in Address, x \in Socket :
          /\ temps'[a] = x => addresses'[x] = a /\ persists'[a] # x /\ x \in dispose'
          /\ persists'[a] = x => addresses'[x] = a /\ x \notin dispose'
    BY <1>2, <1>3, <1>7, <1>8, <2>1, NoneIsNothing DEF IInv, Core, Maps, MapTypes
  <2>3. \A x \in Socket : addresses'[x] # None =>
          x \in sockets' /\ (temps'[addresses'[x]] = x \/ persists'[addresses'[x]] = x)
    BY <1>2, <1>3, <1>7, <1>8, NoneIsNothing DEF IInv, Core, Maps, MapTypes
  <2>4. \A x \in Socket : outgoing'[x] # None => x \in sockets'
    BY <1>7, Zenon DEF IInv, Core, Maps
  <2> QED BY <2>2, <2>3, <2>4, Zenon DEF Maps
<1>14. Watched'
  <2> SUFFICES ASSUME NEW a \in Address, persists'[a] # None
               PROVE  \E t \in tasks' : t.s = persists'[a] /\ t.do \in {"link_connect", "recv"}
    BY Zenon DEF Watched
  <2>1. CASE persists[a] = from
    <3>1. from \notin dispose
      BY <2>1, Zenon DEF IInv, Core, Maps
    <3> QED BY <1>8, <1>10, <2>1, <3>1, Zenon DEF Connects
  <2>2. CASE persists[a] # from
    <3>1. PICK t \in tasks : t.s = persists[a] /\ t.do \in {"link_connect", "recv"}
      BY <1>8, <2>2, Zenon DEF IInv, Core, Watched
    <3>2. t \in tasks'
      BY <2>2, <3>1, Zenon DEF TasksOf
    <3> QED BY <1>8, <2>2, <3>1, <3>2, Zenon
  <2> QED BY <2>1, <2>2, Zenon
<1>15. ASSUME NEW x \in Socket, x \notin {s, from} PROVE SocketOK(x)'
  <2>1. SameSocket(x)
    BY <1>7, <1>11, <1>15, Zenon DEF SameSocket
  <2> QED BY <1>1, <2>1, SocketKept, Zenon DEF IInv, Core
<1>16. SocketOK(from)'
  <2>1. from <= created /\ ~(from > created') /\ from \notin sockets'
    <3>1. from <= created
      BY <1>3 DEF SocketOK, Fresh, IInv, TaskTypes, Socket
    <3> QED BY <1>1, <1>3, <1>7, <3>1 DEF Socket, IInv, TaskTypes
  <2>2. Fresh(from)' /\ Served(from)' /\ Ordered(from)'
    BY <2>1, Zenon DEF Fresh, Served, Ordered
  <2>3. Numbered(from)'
    BY <1>3, <1>7, <1>11, Zenon DEF SocketOK, Numbered
  <2>4. Connecting(from)'
    BY <1>11, <2>1, Zenon DEF Connecting
  <2>5. \A t \in TasksOf(from) : t.do \notin {"receive", "spawn", "terminate"}
    BY <1>3, Zenon DEF SocketOK, Inbound
  <2>6. Inbound(from)'
    BY <1>4, <1>11, <2>1, <2>5, Zenon DEF Inbound
  <2> QED BY <2>2, <2>3, <2>4, <2>6, Zenon DEF SocketOK
<1>17. SocketOK(s)'
  <2>1. Fresh(s)' /\ Connecting(s)'
    <3>1. ~(s > created') /\ s \in sockets' /\ (from \in dispose => s \in dispose')
      BY <1>1, <1>7
    <3>2. \A t \in TasksOf(s)' : t = n
      BY <1>11, Zenon
    <3> QED BY <1>7, <1>11, <3>1, <3>2, Zenon DEF Fresh, Connecting, Connects
  <2>2. Inbound(s)'
    BY <1>2, <1>7, <1>11, Zenon DEF Inbound, Connects
  <2>3. Served(s)'
    BY <1>6, <1>7, <1>11, Zenon DEF Served
  <2>4. /\ \A i \in 1..Len(q) : q[i] \in Nat /\ q[i] > 0 /\ q[i] <= messages
        /\ \A i \in 1..Len(q), j \in 1..Len(q) : j < i => q[j] < q[i]
        /\ \A i \in 1..Len(q) : n.m # 0 => q[i] > n.m
    <3>1. CASE outgoing[from] = None
      <4>1. Len(q) = 0
        BY <1>5, <3>1, Zenon
      <4> QED BY <4>1
    <3>2. CASE outgoing[from] # None
      <4>1. q = outgoing[from] /\ Len(q) \in Nat /\ \A i \in 1..Len(q) : q[i] \in Nat
        BY <1>5, <3>2, QueueOfNumbers, Zenon DEF IInv
      <4>2. \A i \in 1..Len(q) :
              /\ q[i] > last[from] /\ q[i] <= messages
              /\ \A j \in 1..(i - 1) : q[j] < q[i]
              /\ \A t \in Senders(from) : t.m # 0 => q[i] > t.m
        BY <1>3, <3>2, <4>1, Zenon DEF SocketOK, Ordered, Numbered
      <4>3. last[from] \in Nat
        BY ConstantsAssumption DEF IInv, TaskTypes
      <4>4. \A i \in 1..Len(q), j \in 1..Len(q) : j < i => j \in 1..(i - 1)
        BY <4>1, Indices, Zenon
      <4> QED BY <4>1, <4>2, <4>3, <4>4
    <3> QED BY <3>1, <3>2, Zenon
  <2>5. n.m \in Nat /\ n.m <= messages /\ (n.m # 0 => n.m > 0)
    <3>1. \A t \in Senders(from) : t.m <= messages
      BY <1>3, Zenon DEF SocketOK, Numbered, Senders, TasksOf
    <3> QED BY <3>1 DEF IInv, TaskTypes
  <2>6. Ordered(s)'
    <3>1. \A i \in 1..Len(q) : \A j \in 1..(i - 1) : j \in 1..Len(q) /\ j < i
      <4>1. Len(q) \in Nat
        BY <1>6, QueueLength, Zenon
      <4> QED BY <4>1, Indices, Zenon
    <3> QED BY <1>2, <1>7, <1>11, <2>4, <2>5, <3>1, ZenonT(30) DEF Ordered
  <2>7. Numbered(s)'
    <3>1. \A t \in TasksOf(s)' : t.m <= messages'
      BY <1>11, <2>5, Zenon
    <3>2. last'[s] <= messages'
      BY <1>1, <1>2, Zenon
    <3> QED BY <1>7, <2>4, <3>1, <3>2, Zenon DEF Numbered
  <2> QED BY <2>1, <2>2, <2>3, <2>6, <2>7, Zenon DEF SocketOK
<1> QED BY <1>9, <1>12, <1>13, <1>14, <1>15, <1>16, <1>17, Zenon DEF IInv, Core

\* RECONNECT.
LEMMA LinkReconnectStep ==
  ASSUME IInv, NEW p \in Process, NEW to \in Address \X Name, NEW s \in Socket,
         LinkReconnect(p, to, s)
  PROVE  IInv'
<1>1. PICK a \in Address : a = AddressOf(to)
  BY Zenon DEF AddressOf
<1>2. PICK n : n = Task("link_connect", s, 0)
  BY Zenon
<1>3. PICK old : old = persists[a]
  BY Zenon
<1>4. /\ p \in alive /\ old # None /\ Create(s) /\ AddLink(p, to) /\ Swap(old, s)
      /\ tasks' = (tasks \ {}) \cup {n} /\ shut' = shut \cup {old}
      /\ UNCHANGED <<alive, messages, last, proxy>>
  BY <1>1, <1>2, <1>3, Zenon DEF LinkReconnect, CountLink
<1>5. old \in Socket /\ addresses[old] # None /\ old \in sockets /\ old \notin dispose
  <2>1. MapTypes /\ Maps
    BY Zenon DEF IInv, Core
  <2>2. persists[a] # None
    BY <1>3, <1>4, Zenon
  <2>3. old \in Socket /\ old \in sockets /\ addresses[old] = a /\ old \notin dispose
    BY <1>3, <2>1, <2>2, SocketsOfAddress, Zenon
  <2> QED BY <2>3, NoneIsNothing, Zenon
<1>6. /\ n \in [do : Connects, s : {s}, m : 0..MaxMessages]
      /\ n.do = "link_connect" /\ n.m = 0
  BY <1>2, TaskFields, NoMessage, Zenon DEF Task, Connects
<1>7. \A t \in TasksOf(old) : t.do # "send_connect"
  BY <1>5, Zenon DEF IInv, Core, SocketOK, Connecting
<1>8. LinkTypes' /\ Links'
  <2>1. to \in UPID /\ AddressOf(to) # Local
    BY ConstantsAssumption, Zenon DEF UPID, AddressOf
  <2>2. \A b \in Address : persists[b] # None => persists'[b] # None
    BY <1>4, NoneIsNothing, Zenon DEF Swap, Swapped, IInv, MapTypes
  <2> QED BY <1>1, <1>3, <1>4, <2>1, <2>2, AddLinkStep, Zenon DEF IInv
<1>9. shut' \subseteq Socket
  BY <1>4, <1>5, Zenon DEF IInv, MapTypes
<1>10. {} \in SUBSET TasksOf(old) /\ \A t \in TasksOf(old) \ {} : t.do # "send_connect"
  BY <1>7, Zenon
<1>11. n.m # 0 <=> n.do = "send_connect"
  BY <1>6, Zenon
<1> QED BY <1>4, <1>5, <1>6, <1>8, <1>9, <1>10, <1>11, SwapStep, Zenon

\* A connection that failed is tried without SSL.
LEMMA ConnectDowngradeStep ==
  ASSUME IInv, NEW t \in tasks, NEW s \in Socket, ConnectDowngrade(t, s)
  PROVE  IInv'
<1>1. PICK from \in Socket : from = t.s
  BY Zenon DEF IInv, TaskTypes
<1>2. PICK n : n = Task(t.do, s, t.m)
  BY Zenon
<1>3. /\ t.do \in Connects /\ (t.do = "send_connect" \/ from \in sockets)
      /\ Create(s) /\ Swap(from, s) /\ tasks' = (tasks \ {t}) \cup {n}
      /\ UNCHANGED <<linkVars, alive, shut, messages, last, proxy>>
  BY <1>1, <1>2, Zenon DEF ConnectDowngrade, Connects
<1>4. t \in TasksOf(from) /\ t \in Senders(from) /\ SocketOK(from)
  BY <1>1, <1>3, Zenon DEF TasksOf, Senders, Sending, Connects, IInv, Core
<1>5. addresses[from] # None /\ (t.do = "send_connect" => from \in dispose)
  BY <1>3, <1>4, Zenon DEF SocketOK, Connecting
<1>6. /\ n \in [do : Connects, s : {s}, m : 0..MaxMessages]
      /\ n.do = t.do /\ n.m = t.m /\ (n.m # 0 <=> n.do = "send_connect")
  BY <1>2, <1>3, Zenon DEF Task, Connects, IInv, TaskTypes
<1>7. \A u \in TasksOf(from) \ {t} : u.do # "send_connect"
  BY <1>4, Zenon DEF SocketOK, Connecting
<1>8. LinkTypes' /\ Links'
  <2>1. \A a \in Address : persists[a] # None => persists'[a] # None
    BY <1>3, NoneIsNothing, Zenon DEF Swap, Swapped, IInv, MapTypes
  <2>2. LinkTypes'
    BY <1>3, Zenon DEF IInv, LinkTypes, linkVars
  <2>3. Links'
    BY <1>3, <2>1, Zenon DEF IInv, Links, linkVars
  <2> QED BY <2>2, <2>3, Zenon
<1>9. shut' \subseteq Socket
  BY <1>3, Zenon DEF IInv, MapTypes
<1>10. {t} \in SUBSET TasksOf(from)
  BY <1>4, Zenon
<1> QED BY <1>3, <1>4, <1>5, <1>6, <1>7, <1>8, <1>9, <1>10, SwapStep, Zenon

-----------------------------------------------------------------------------
(* Proxies.                                                                *)

\* A step of the proxy of one socket leaves everything else as it was.
LEMMA ProxyStep ==
  ASSUME IInv, NEW s \in Socket, NEW t \in tasks, t.s = s,
         t.do \in {"receive", "spawn", "terminate"},
         \A u \in tasks : u # t => u \in tasks',
         \A u \in tasks' : \/ u \in tasks
                           \/ /\ u \in [do : Dos, s : Socket, m : 0..MaxMessages]
                              /\ u.do \in {"receive", "spawn"} /\ u.s = s /\ u.m = 0,
         proxy' \in [Socket -> {"none", "new", "live", "dead"}], proxies' \subseteq sockets,
         \A x \in Socket : x # s => proxy'[x] = proxy[x] /\ (x \in proxies' <=> x \in proxies),
         Inbound(s)',
         UNCHANGED <<sockets, dispose, addresses, temps, persists, outgoing, linkVars,
                     alive, shut, created, messages, last>>
  PROVE  IInv'
<1>1. LinkTypes' /\ Links'
  BY LinksKept, Zenon DEF IInv
<1>2. \A u : u \in tasks' /\ u \notin tasks => u.do \notin Sending
  BY Zenon DEF Sending
<1>3. MapTypes' /\ TaskTypes'
  BY <1>2, Zenon DEF IInv, MapTypes, TaskTypes
<1>4. Maps' /\ Watched'
  <2>1. Maps'
    BY MapsKept, Zenon DEF IInv, Core
  <2>2. ASSUME NEW a \in Address, persists'[a] # None
        PROVE  \E u \in tasks' : u.s = persists'[a] /\ u.do \in {"link_connect", "recv"}
    <3>1. PICK u \in tasks : u.s = persists[a] /\ u.do \in {"link_connect", "recv"}
      BY <2>2, Zenon DEF IInv, Core, Watched
    <3>2. u # t
      BY <3>1, Zenon
    <3> QED BY <3>1, <3>2, Zenon
  <2> QED BY <2>1, <2>2, Zenon DEF Watched
<1>5. ASSUME NEW x \in Socket, x # s PROVE SocketOK(x)'
  <2>1. TasksOf(x)' = TasksOf(x)
    BY <1>2, <1>5, Zenon DEF TasksOf
  <2>2. SameSocket(x)
    BY <1>5, <2>1, Zenon DEF SameSocket
  <2> QED BY <2>2, SocketKept DEF IInv, Core, TaskTypes
<1>6. SocketOK(s)'
  <2>1. SocketOK(s) /\ t \in TasksOf(s)
    BY Zenon DEF IInv, Core, TasksOf
  <2>2. Senders(s)' = Senders(s)
    BY <1>2, Zenon DEF Senders, Sending
  <2>3. \A u \in TasksOf(s)' : u \in TasksOf(s) \/ (u.m = 0 /\ u.do \in {"receive", "spawn"})
    BY Zenon DEF TasksOf
  <2>4. Fresh(s)' /\ Served(s)' /\ Ordered(s)'
    BY <2>1, <2>2, Zenon DEF SocketOK, Fresh, Served, Ordered, Senders
  <2>5. Numbered(s)'
    BY <2>1, <2>3, ZenonT(30) DEF SocketOK, Numbered, IInv, TaskTypes
  <2>6. Connecting(s)'
    BY <2>1, <2>3, Zenon DEF SocketOK, Connecting, Connects
  <2> QED BY <2>4, <2>5, <2>6, Zenon DEF SocketOK
<1> QED BY <1>1, <1>3, <1>4, <1>5, <1>6, Zenon DEF IInv, Core

\* proxy(s) creates the proxy, spawn starts it, and terminate ends it.
LEMMA ProxyStepsKeep ==
  ASSUME IInv, NEW t \in tasks, Proxy(t) \/ Spawn(t) \/ Terminate(t)
  PROVE  IInv'
<1>1. PICK s \in Socket : s = t.s
  BY Zenon DEF IInv, TaskTypes
<1>2. SocketOK(s) /\ t \in TasksOf(s)
  BY <1>1, Zenon DEF IInv, Core, TasksOf
<1>3. CASE Proxy(t)
  <2>1. PICK n : n = Task("spawn", s, 0)
    BY Zenon
  <2>2. n \in [do : Dos, s : Socket, m : 0..MaxMessages] /\ n.m = 0 /\ n.do = "spawn" /\ n.s = s
    BY <2>1, TaskFields, ConstantsAssumption DEF Dos
  <2>3. /\ t.do = "receive" /\ s \in sockets /\ s \notin proxies
        /\ proxies' = proxies \cup {s} /\ proxy' = [proxy EXCEPT ![s] = "new"]
        /\ tasks' = (tasks \ {t}) \cup {n}
        /\ UNCHANGED <<sockets, dispose, addresses, temps, persists, outgoing, linkVars,
                       alive, shut, created, messages, last>>
    BY <1>1, <1>3, <2>1, Zenon DEF Proxy, countVars
  <2>4. /\ proxy' \in [Socket -> {"none", "new", "live", "dead"}] /\ proxy'[s] = "new"
        /\ \A x \in Socket : x # s => proxy'[x] = proxy[x]
    BY <2>3, Zenon DEF IInv, TaskTypes
  <2>5. proxy[s] = "none" /\ TasksOf(s) = {t} /\ addresses[s] = None
    BY <1>2, <2>3, Zenon DEF SocketOK, Inbound
  <2>6. TasksOf(s)' = {n}
    BY <2>2, <2>3, <2>5, Zenon DEF TasksOf
  <2>7. Inbound(s)'
    BY <2>2, <2>3, <2>4, <2>5, <2>6, Zenon DEF Inbound, Connects
  <2>8. /\ proxies' \subseteq sockets /\ t.do \in {"receive", "spawn", "terminate"}
        /\ \A x \in Socket : x # s => (x \in proxies' <=> x \in proxies)
    BY <2>2, <2>3, Zenon DEF IInv, MapTypes
  <2>9. /\ \A u \in tasks : u # t => u \in tasks'
        /\ \A u \in tasks' : u \in tasks \/ u = n
    BY <2>3, Zenon
  <2> QED BY <1>1, <2>2, <2>3, <2>4, <2>7, <2>8, <2>9, ProxyStep, Zenon
<1>4. CASE Spawn(t)
  <2>1. PICK n : n = Task("receive", s, 0)
    BY Zenon
  <2>2. n \in [do : Dos, s : Socket, m : 0..MaxMessages] /\ n.m = 0 /\ n.do = "receive" /\ n.s = s
    BY <2>1, TaskFields, ConstantsAssumption DEF Dos
  <2>3. /\ t.do = "spawn" /\ proxy' = [proxy EXCEPT ![s] = "live"]
        /\ tasks' = (tasks \ {t}) \cup {n}
        /\ UNCHANGED <<sockets, dispose, addresses, temps, persists, outgoing, proxies,
                       linkVars, alive, shut, created, messages, last>>
    BY <1>1, <1>4, <2>1, Zenon DEF Spawn, countVars, mapVars
  <2>4. /\ proxy' \in [Socket -> {"none", "new", "live", "dead"}] /\ proxy'[s] = "live"
        /\ \A x \in Socket : x # s => proxy'[x] = proxy[x]
    BY <2>3, Zenon DEF IInv, TaskTypes
  <2>5. TasksOf(s) = {t} /\ addresses[s] = None /\ s \in sockets /\ s \in proxies
    BY <1>2, <2>3, Zenon DEF SocketOK, Inbound
  <2>6. TasksOf(s)' = {n}
    BY <2>2, <2>3, <2>5, Zenon DEF TasksOf
  <2>7. Inbound(s)'
    BY <2>2, <2>3, <2>4, <2>5, <2>6, Zenon DEF Inbound, Connects
  <2>8. /\ proxies' \subseteq sockets /\ t.do \in {"receive", "spawn", "terminate"}
        /\ \A x \in Socket : x # s => (x \in proxies' <=> x \in proxies)
    BY <2>2, <2>3, Zenon DEF IInv, MapTypes
  <2>9. /\ \A u \in tasks : u # t => u \in tasks'
        /\ \A u \in tasks' : u \in tasks \/ u = n
    BY <2>3, Zenon
  <2> QED BY <1>1, <2>2, <2>3, <2>4, <2>7, <2>8, <2>9, ProxyStep, Zenon
<1>5. CASE Terminate(t)
  <2>1. /\ t.do = "terminate" /\ tasks' = tasks \ {t}
        /\ proxy' = [proxy EXCEPT ![s] = IF @ = "live" THEN "dead" ELSE @]
        /\ proxies' = IF proxy[s] = "live" THEN proxies \ {s} ELSE proxies
        /\ UNCHANGED <<sockets, dispose, addresses, temps, persists, outgoing,
                       linkVars, alive, shut, created, messages, last>>
    BY <1>1, <1>5, Zenon DEF Terminate, countVars
  <2>2. /\ proxy' \in [Socket -> {"none", "new", "live", "dead"}]
        /\ proxy'[s] = IF proxy[s] = "live" THEN "dead" ELSE proxy[s]
        /\ \A x \in Socket : x # s => proxy'[x] = proxy[x]
    BY <2>1, Zenon DEF IInv, TaskTypes
  <2>3. s \notin sockets /\ TasksOf(s)' = TasksOf(s) \ {t}
    BY <1>2, <2>1, Zenon DEF SocketOK, Inbound, TasksOf
  <2>4. Inbound(s)'
    BY <1>2, <2>1, <2>2, <2>3 DEF SocketOK, Inbound
  <2>5. /\ proxies' \subseteq sockets /\ t.do \in {"receive", "spawn", "terminate"}
        /\ \A x \in Socket : x # s => (x \in proxies' <=> x \in proxies)
        /\ \A u \in tasks : u # t => u \in tasks'
        /\ \A u \in tasks' : u \in tasks
    BY <2>1, Zenon DEF IInv, MapTypes
  <2> QED BY <1>1, <2>1, <2>2, <2>4, <2>5, ProxyStep, Zenon
<1> QED BY <1>3, <1>4, <1>5, Zenon

-----------------------------------------------------------------------------
(* The invariant, and what follows from it.                                *)

\* The socket manager starts with empty maps.
LEMMA InitIInv == Init => IInv
<1> SUFFICES ASSUME Init PROVE IInv
  BY Zenon
<1> USE ConstantsAssumption
<1>1. MapTypes /\ LinkTypes /\ TaskTypes /\ Links
  BY DEF Init, MapTypes, LinkTypes, TaskTypes, Links
<1>2. Maps /\ Watched
  BY Zenon DEF Init, Maps, Watched
<1>3. ASSUME NEW x \in Socket PROVE SocketOK(x)
  <2>1. TasksOf(x) = {} /\ Senders(x) = {}
    BY Zenon DEF Init, TasksOf, Senders
  <2>2. /\ x \notin sockets /\ x \notin proxies /\ addresses[x] = None
        /\ outgoing[x] = None /\ proxy[x] = "none" /\ last[x] = 0 /\ messages = 0
    BY Zenon DEF Init
  <2> QED BY <2>1, <2>2 DEF SocketOK, Fresh, Connecting, Inbound, Served, Ordered, Numbered
<1> QED BY <1>1, <1>2, <1>3, Zenon DEF IInv, Core

\* Every call and every task keeps the invariant.
LEMMA StepIInv ==
  ASSUME IInv, [Step]_vars
  PROVE  IInv'
<1>1. CASE UNCHANGED vars
  <2>1. MapTypes' /\ TaskTypes' /\ Core'
    BY <1>1, CoreKept, Zenon DEF vars, coreVars, countVars, IInv, MapTypes
  <2>2. LinkTypes' /\ Links'
    BY <1>1, LinksKept, Zenon DEF vars, mapVars, IInv
  <2> QED BY <2>1, <2>2, Zenon DEF IInv
<1>2. CASE Call
  <2>1. ASSUME NEW p \in Process, Exited(p) PROVE IInv'
    BY <2>1, ExitedStep, Zenon
  <2>2. ASSUME NEW p \in Process, NEW q \in Process, LinkLocal(p, q) PROVE IInv'
    <3>1. <<Local, q>> \in UPID
      BY Zenon DEF UPID
    <3> QED BY <2>2, <3>1, LinkStep, Zenon
  <2>3. ASSUME NEW p \in Process, NEW to \in Address \X Name,
               LinkReuse(p, to) \/ LinkFails(p, to)
        PROVE  IInv'
    <3>1. to \in UPID
      BY Zenon DEF UPID
    <3> QED BY <2>3, <3>1, LinkStep, Zenon
  <2>4. ASSUME NEW p \in Process, NEW to \in Address \X Name, NEW s \in Socket,
               LinkOpen(p, to, s) \/ LinkReconnect(p, to, s)
        PROVE  IInv'
    BY <2>4, LinkOpenStep, LinkReconnectStep, Zenon
  <2>5. ASSUME NEW a \in Address, SendReuse(a) \/ \E s \in Socket : SendOpen(a, s) PROVE IInv'
    BY <2>5, SendReuseStep, SendOpenStep, Zenon
  <2>6. ASSUME NEW s \in Socket, Accepted(s) \/ \E persist \in BOOLEAN : Respond(s, persist)
        PROVE  IInv'
    BY <2>6, AcceptedStep, RespondStep, Zenon
  <2>7. ASSUME NEW t \in tasks, Proxy(t) \/ HangUp(t) PROVE IInv'
    BY <2>7, ProxyStepsKeep, HangUpStep, Zenon
  <2> QED BY <1>2, <2>1, <2>2, <2>3, <2>4, <2>5, <2>6, <2>7, Zenon DEF Call
<1>3. ASSUME NEW t \in tasks, Run(t) PROVE IInv'
  <2>1. CASE LinkConnected(t) \/ SendConnected(t)
    BY <2>1, ConnectedStep, Zenon
  <2>2. CASE ConnectFails(t) \/ WriteFails(t) \/ EndOfFile(t)
    BY <2>2, CloseStep, Zenon DEF ConnectFails, WriteFails, EndOfFile
  <2>3. CASE \E s \in Socket : ConnectDowngrade(t, s)
    BY <2>3, ConnectDowngradeStep, Zenon
  <2>4. CASE Written(t) \/ NextEncoder(t)
    BY <2>4, WrittenStep, NextEncoderStep, Zenon
  <2>5. CASE Spawn(t) \/ Terminate(t)
    BY <2>5, ProxyStepsKeep, Zenon
  <2> QED BY <1>3, <2>1, <2>2, <2>3, <2>4, <2>5, Zenon DEF Run
<1> QED BY <1>1, <1>2, <1>3, Zenon DEF Step

\* The invariant holds in every state.
LEMMA InvariantHolds == MixedSpec => []IInv
BY InitIInv, StepIInv, PTL DEF MixedSpec

\* The bounded specification allows no other behaviours.
LEMMA SpecIsMixed == Spec => MixedSpec
<1>1. [Next]_vars => [Step]_vars
  BY Zenon DEF Next
<1> QED BY <1>1, PTL DEF Spec, MixedSpec

\* What the invariant says of the maps, of the senders and of the links.
LEMMA MapsOfIInv == IInv => MapsAgree
<1> SUFFICES ASSUME IInv PROVE MapsAgree
  BY Zenon
<1>1. TypeOK
  BY Zenon DEF IInv, MapTypes, LinkTypes, TypeOK
<1>2. ASSUME NEW s \in Socket
      PROVE  addresses[s] # None <=> \E a \in Address : s \in {temps[a], persists[a]}
  <2>1. addresses[s] # None => addresses[s] \in Address
    BY Zenon DEF IInv, MapTypes
  <2> QED BY <2>1, NoneIsNothing, Zenon DEF IInv, Core, Maps
<1>3. ASSUME NEW s \in Socket, addresses[s] # None
      PROVE  /\ s \in sockets
             /\ s = temps[addresses[s]] <=> s # persists[addresses[s]]
             /\ s \in dispose <=> s = temps[addresses[s]]
  <2>1. addresses[s] \in Address
    BY <1>3, Zenon DEF IInv, MapTypes
  <2> QED BY <1>3, <2>1, Zenon DEF IInv, Core, Maps
<1>4. \A s \in Socket : outgoing[s] # None => s \in sockets
  BY Zenon DEF IInv, Core, Maps
<1>5. ASSUME NEW s \in Socket, proxy[s] = "live", s \notin proxies
      PROVE  Task("terminate", s, 0) \in tasks
  <2>1. PICK t \in tasks : t.s = s /\ t.do = "terminate"
    BY <1>5, Zenon DEF IInv, Core, SocketOK, Inbound, TasksOf
  <2>2. t.m = 0 /\ t \in [do : Dos, s : Socket, m : 0..MaxMessages]
    BY <2>1, Zenon DEF IInv, TaskTypes
  <2> QED BY <2>1, <2>2, Zenon DEF Task
<1> QED BY <1>1, <1>2, <1>3, <1>4, <1>5, Zenon DEF MapsAgree

\* (Served and Ordered are the two parts of OneSender, for one socket.)
LEMMA SenderOfIInv == IInv => OneSender
<1> SUFFICES ASSUME IInv, NEW s \in sockets PROVE Served(s) /\ Ordered(s)
  BY Zenon DEF OneSender, InOrder, Served, Ordered
<1> QED BY Zenon DEF IInv, MapTypes, Core, SocketOK

\* (LinksAgree states as equalities of relations what Links states of pairs.)
LEMMA LinksOfIInv == IInv => LinksAgree
<1> SUFFICES ASSUME IInv PROVE LinksAgree
  BY Zenon
<1> USE ConstantsAssumption
<1>0. /\ LinkTypes /\ Links
      /\ \A l \in linkers : l = <<l[1], l[2]>> /\ l[1] \in UPID /\ l[2] \in Process
      /\ \A u \in UPID : u = <<u[1], u[2]>>
      /\ \A u \in UPID : u[1] # Local <=> u \in Address \X Name
      /\ \A u \in UPID : u[1] = Local => u[2] \in Process
  BY DEF IInv, LinkTypes, UPID
<1>1. linkees = {<<l[2], l[1]>> : l \in linkers}
  <2>1. ASSUME NEW k \in linkees PROVE k \in {<<l[2], l[1]>> : l \in linkers}
    <3>1. PICK p \in Process, u \in UPID : k = <<p, u>>
      BY <1>0 DEF LinkTypes
    <3>2. <<u, p>> \in linkers /\ k = <<<<u, p>>[2], <<u, p>>[1]>>
      BY <1>0, <3>1, Zenon DEF Links
    <3> QED BY <3>2, Zenon
  <2>2. ASSUME NEW l \in linkers PROVE <<l[2], l[1]>> \in linkees
    BY <1>0, Zenon DEF Links
  <2> QED BY <2>1, <2>2, Zenon
<1>2. remotes = {<<AddressOf(l[1]), l[1]>> : l \in {x \in linkers : AddressOf(x[1]) # Local}}
  <2> DEFINE far == {x \in linkers : AddressOf(x[1]) # Local}
  <2>1. ASSUME NEW r \in remotes PROVE r \in {<<AddressOf(l[1]), l[1]>> : l \in far}
    <3>1. PICK a \in Address, u \in Address \X Name : r = <<a, u>>
      BY <1>0 DEF LinkTypes
    <3>2. PICK p \in Process : <<u, p>> \in linkers
      BY <1>0, <3>1, Zenon DEF Links
    <3>3. a = AddressOf(u) /\ a # Local
      BY <1>0, <3>1, Zenon DEF Links
    <3>4. <<u, p>> \in far /\ r = <<AddressOf(<<u, p>>[1]), <<u, p>>[1]>>
      BY <3>1, <3>2, <3>3, Zenon
    <3> QED BY <3>4, Zenon
  <2>2. ASSUME NEW l \in far PROVE <<AddressOf(l[1]), l[1]>> \in remotes
    <3>1. l[1] \in Address \X Name /\ <<l[1], l[2]>> \in linkers /\ l[2] \in Process
      BY <1>0, Zenon DEF AddressOf
    <3>2. AddressOf(l[1]) \in Address
      BY <3>1, Zenon DEF AddressOf
    <3> QED BY <1>0, <3>1, <3>2, Zenon DEF Links
  <2> QED BY <2>1, <2>2, Zenon
<1>3. \A l \in linkers : l[2] \in alive
  BY <1>0 DEF Links
<1>4. \A l \in linkers : AddressOf(l[1]) = Local => l[1][2] \in alive
  BY <1>0 DEF Links, AddressOf
<1>5. ASSUME NEW r \in remotes
      PROVE  \E t \in tasks : t.s = persists[r[1]] /\ t.do \in {"link_connect", "recv"}
  <2>1. PICK a \in Address, u \in Address \X Name : r = <<a, u>>
    BY <1>0 DEF LinkTypes
  <2>2. persists[a] # None /\ r[1] = a
    BY <1>0, <2>1, Zenon DEF Links
  <2> QED BY <2>2, Zenon DEF IInv, Core, Watched
<1> QED BY <1>1, <1>2, <1>3, <1>4, <1>5, Zenon DEF LinksAgree

\* The CHECKs of next, send, close and swap_implementing_socket on the maps of
\* sockets and addresses never fail, in any order of calls and completions.
THEOREM MapsAlwaysAgree == MixedSpec => []MapsAgree
BY InvariantHolds, MapsOfIInv, PTL

\* No message is left in a queue that nobody serves, no two senders write to one
\* socket, and each socket's data goes out in the order of the calls of send.
THEOREM AlwaysOneSender == MixedSpec => []OneSender
BY InvariantHolds, SenderOfIInv, PTL

\* The CHECKs of exited hold, only living processes link, and something watches
\* the connection of every remote link.
THEOREM LinksAlwaysAgree == MixedSpec => []LinksAgree
BY InvariantHolds, LinksOfIInv, PTL

\* The specification that the runs check has all three.
THEOREM SocketManagerIsSafe == Spec => [](MapsAgree /\ OneSender /\ LinksAgree)
BY SpecIsMixed, MapsAlwaysAgree, AlwaysOneSender, LinksAlwaysAgree, PTL
=============================================================================

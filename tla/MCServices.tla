----------------------------- MODULE MCServices -----------------------------
(***************************************************************************)
(* One run for the parts of libprocess that owe their callers an answer.   *)
(* `focus' picks the component; x1, x2... are its variables.               *)
(***************************************************************************)
EXTENDS Integers

CONSTANTS None

\* The process "p" routes /a, which has a realm, and /a/b, which takes its body as
\* a pipe; requests without a receiver go to "d", which routes /x.
Routes == [p \in {"p", "d"} |-> IF p = "p" THEN {<<"a">>, <<"a", "b">>} ELSE {<<"x">>}]
Inputs ==
  {[kind |-> "http", path |-> p] : p \in {<<"p", "a", "c">>, <<"p", "a", "b">>, <<"x">>, <<>>}}
  \cup {[kind |-> "message", path |-> <<t>>] : t \in {"p", "%"}}
  \cup {[kind |-> k, path |-> <<"p">>] : k \in {"bad sender", "bad path", "relative"}}

VARIABLES
  focus,
  x1, x2, x3, x4, x5, x6, x7, x8, x9, x10, x11, x12, x13, x14, x15, x16, x17, x18,
  x19, x20, x21

all == <<focus, x1, x2, x3, x4, x5, x6, x7, x8, x9, x10, x11, x12, x13, x14, x15,
         x16, x17, x18, x19, x20, x21>>

P == INSTANCE Pipe WITH
  MaxReads <- 3, MaxWrites <- 3, readEnd <- x1, writeEnd <- x2, reads <- x3,
  writes <- x4, readerClosure <- x5, result <- x6, setting <- x7, issued <- x8,
  written <- x9, lost <- x10
C == INSTANCE HttpConnection WITH
  MaxRequests <- 2, MaxResponses <- 2, Streamed <- {2}, mailbox <- x1,
  terminated <- x2, pipeline <- x3, closing <- x4, disconnected <- x5,
  decoder <- x6, chain <- x7, chainFailed <- x8, reading <- x9, shutdown <- x10,
  outcome <- x11, got <- x12, accepted <- x13, last <- x14, dropped <- x15,
  server <- x16
V == INSTANCE HttpServe WITH
  MaxRequests <- 2, MaxChunks <- 1, receiving <- x1, sending <- x2, item <- x3,
  queue <- x4, shutdown <- x5, hasDiscard <- x6, serving <- x7, arrived <- x8,
  keepAlive <- x9, response <- x10, discarded <- x11, chunks <- x12, writer <- x13,
  freed <- x14, wire <- x15
R == INSTANCE HttpServer WITH
  Client <- {1, 2}, state <- x1, accepting <- x2, acceptDiscard <- x3, socket <- x4,
  clients <- x5, serving <- x6, discards <- x7, erasing <- x8, stop <- x9,
  waiting <- x10, run <- x11, alive <- x12
X == INSTANCE HttpProxy WITH
  MaxRequests <- 3, MaxChunks <- 1, StreamPipelined <- FALSE, client <- x1,
  arrived <- x2, future <- x3, mailbox <- x4, items <- x5, registered <- x6,
  pipe <- x7, reading <- x8, chunks <- x9, wire <- x10, readerClosed <- x11,
  discarded <- x12, state <- x13
E == INSTANCE Endpoints WITH
  Processes <- {"p", "d"}, Delegate <- "d", Routes <- Routes,
  Realm <- {<<"p", <<"a">>>>}, Streaming <- {<<"p", <<"a", "b">>>>},
  Inputs <- Inputs, MaxRequests <- 2, MaxChanges <- 1, None <- None, request <- x1,
  arrived <- x2, at <- x3, receiver <- x4, alive <- x5, mailbox <- x6,
  converting <- x7, sequence <- x8, manager <- x9, authenticator <- x10,
  authn <- x11, authz <- x12, callbacks <- x13, loaded <- x14, firewall <- x15,
  response <- x16, calls <- x17, changes <- x18, aborted <- x19
W == INSTANCE Locks WITH
  Client <- 1..3, MaxRequests <- 4, lockType <- x1, read_locked <- x2,
  write_locked <- x3, waiters <- x4, status <- x5, type <- x6, unblocked <- x7,
  ticket <- x8, requests <- x9, aborted <- x10
S == INSTANCE Semaphore WITH
  Waiter <- {1, 2}, Signaler <- {3, 4}, Free <- 0, Slots <- 1, MaxWaits <- 2,
  MaxSignals <- 2, type <- x1, comissioned <- x2, count <- x3, waiters <- x4,
  semaphores <- x5, kernel <- x6, pc <- x7, old <- x8, at <- x9, spc <- x10,
  loaded <- x11, signals <- x12, left <- x13, waits <- x14
L == INSTANCE Limiter WITH
  Period <- 2, MaxAcquires <- 3, MaxTime <- 6, now <- x1, timeout <- x2,
  promises <- x3, delays <- x4, future <- x5, discards <- x6, granted <- x7,
  alive <- x8, aborted <- x9
Q == INSTANCE Sequence WITH
  MaxAdds <- 3, added <- x1, F <- x2, Fdiscard <- x3, N <- x4, Ndiscard <- x5,
  place <- x6, result <- x7, asked <- x8, alive <- x9, cascade <- x10
A == INSTANCE Collect WITH
  Input <- {1, 2}, kind <- x1, input <- x2, asked <- x3, result <- x4,
  discard <- x5, process <- x6, mailbox <- x7, ready <- x8, aborted <- x9
I == INSTANCE Poll WITH
  Polls <- {1, 2}, Delays <- {3}, lib <- x1, poll <- x2, io <- x3, async <- x4,
  caller <- x5, discard <- x6, promise <- x7, functions <- x8, running <- x9,
  wake <- x10, delay <- x11, loop <- x12
F == INSTANCE Lifecycle WITH
  Users <- {"u"}, Children <- {"c"}, Workers <- {"w"}, MaxConnections <- 2,
  MaxCycles <- 1, started <- x1, complete <- x2, pc <- x3, objects <- x4,
  running <- x5, processes <- x6, terminating <- x7, spawning <- x8,
  finalizing <- x9, joining <- x10, stopped <- x11, accepts <- x12,
  future_accept <- x13, loop <- x14, sockets <- x15, arrived <- x16, cycles <- x17,
  crashed <- x18
B == INSTANCE Subprocess WITH
  Numbers <- 0..13, Closed <- {{}}, mode <- x1, blocking <- x2, table <- x3,
  cloexec <- x4, before <- x5, ours <- x6, theirs <- x7, sync <- x8, token <- x9,
  parent <- x10, ctable <- x11, ccloexec <- x12, child <- x13, promise <- x14,
  reaping <- x15, handle <- x16
H == INSTANCE MemoryProfiler WITH
  MaxTime <- 2, MaxRuns <- 2, MaxMailbox <- 2, MaxExternal <- 1, supported <- x1,
  active <- x2, now <- x3, runs <- x4, currentRun <- x5, timer <- x6, mailbox <- x7,
  artifact <- x8, disk <- x9, served <- x10, checked <- x11, external <- x12
M == INSTANCE Metrics WITH
  Name <- {"m", "n"}, MaxSnapshots <- 1, MaxChanges <- 4, metrics <- x1,
  changes <- x2, snapshot <- x3, value <- x4, timer <- x5, mailbox <- x6,
  answers <- x7, aborted <- x8
G == INSTANCE GrpcRuntime WITH
  Call <- {1, 2}, MaxTerminates <- 2, mailbox <- x1, process <- x2,
  terminating <- x3, started <- x4, completed <- x5, shutdown <- x6, looper <- x7,
  promise <- x8, asked <- x9, sent <- x10, terminated <- x11, requests <- x12,
  aborted <- x13
K == INSTANCE Helpers WITH
  kind <- x1, target <- x2, process <- x3, mailbox <- x4, timer <- x5,
  request <- x6, asked <- x7, result <- x8, written <- x9, returned <- x10
D == INSTANCE GlobalProcesses WITH
  Id <- {"p", "q"}, Name <- {"n"}, MaxSpawns <- 2, MaxRoutes <- 2, MaxQueries <- 1,
  Levels <- -1..2, Durations <- {1, 2}, MaxTime <- 4, MaxToggles <- 3, part <- x1,
  life <- x2, routes <- x3, mailbox <- x4, helps <- x5, pages <- x6, asked <- x7,
  pending <- x8, listed <- x9, missed <- x10, query <- x11, spawns <- x12,
  added <- x13, queries <- x14, original <- x15, level <- x16, timeout <- x17,
  timers <- x18, reverts <- x19, now <- x20, toggled <- x21
T == INSTANCE Tasks WITH
  MaxTasks <- 2, kind <- x1, process <- x2, mailbox <- x3, termination <- x4,
  event <- x5, running <- x6, promise <- x7, started <- x8, ends <- x9, late <- x10,
  destroyed <- x11

\* The variables from one on, which a component that has fewer does not use.
Rest21 == <<x21>>
Rest20 == <<x20, Rest21>>
Rest19 == <<x19, Rest20>>
Rest18 == <<x18, Rest19>>
Rest17 == <<x17, Rest18>>
Rest16 == <<x16, Rest17>>
Rest15 == <<x15, Rest16>>
Rest14 == <<x14, Rest15>>
Rest13 == <<x13, Rest14>>
Rest12 == <<x12, Rest13>>
Rest11 == <<x11, Rest12>>
Rest10 == <<x10, Rest11>>
Rest9 == <<x9, Rest10>>
Unused21 == x21 = 0
Unused20 == x20 = 0 /\ Unused21
Unused19 == x19 = 0 /\ Unused20
Unused18 == x18 = 0 /\ Unused19
Unused17 == x17 = 0 /\ Unused18
Unused16 == x16 = 0 /\ Unused17
Unused15 == x15 = 0 /\ Unused16
Unused14 == x14 = 0 /\ Unused15
Unused13 == x13 = 0 /\ Unused14
Unused12 == x12 = 0 /\ Unused13
Unused11 == x11 = 0 /\ Unused12
Unused10 == x10 = 0 /\ Unused11
Unused9 == x9 = 0 /\ Unused10

MCInit ==
  \/ focus = "pipe" /\ P!Init /\ Unused11
  \/ focus = "connection" /\ C!Init /\ Unused17
  \/ focus = "serve" /\ V!Init /\ Unused16
  \/ focus = "server" /\ R!Init /\ Unused13
  \/ focus = "proxy" /\ X!Init /\ Unused14
  \/ focus = "endpoints" /\ E!Init /\ Unused20
  \/ focus = "lock" /\ W!Init /\ Unused11
  \/ focus = "semaphore" /\ S!Init /\ Unused15
  \/ focus = "limiter" /\ L!Init /\ Unused10
  \/ focus = "sequence" /\ Q!Init /\ Unused11
  \/ focus = "collect" /\ A!Init /\ Unused10
  \/ focus = "poll" /\ I!Init /\ Unused13
  \/ focus = "lifecycle" /\ F!Init /\ Unused19
  \/ focus = "subprocess" /\ B!Init /\ Unused17
  \/ focus = "profiler" /\ H!Init /\ Unused13
  \/ focus = "metrics" /\ M!Init /\ Unused9
  \/ focus = "grpc" /\ G!Init /\ Unused14
  \/ focus = "helpers" /\ K!Init /\ Unused11
  \/ focus = "global" /\ D!Init
  \/ focus = "tasks" /\ T!Init /\ Unused12

\* Only this component moves.
OnlyP == focus = "pipe" /\ UNCHANGED <<focus, Rest11>>
OnlyC == focus = "connection" /\ UNCHANGED <<focus, Rest17>>
OnlyV == focus = "serve" /\ UNCHANGED <<focus, Rest16>>
OnlyR == focus = "server" /\ UNCHANGED <<focus, Rest13>>
OnlyX == focus = "proxy" /\ UNCHANGED <<focus, Rest14>>
OnlyE == focus = "endpoints" /\ UNCHANGED <<focus, Rest20>>
OnlyW == focus = "lock" /\ UNCHANGED <<focus, Rest11>>
OnlyS == focus = "semaphore" /\ UNCHANGED <<focus, Rest15>>
OnlyL == focus = "limiter" /\ UNCHANGED <<focus, Rest10>>
OnlyQ == focus = "sequence" /\ UNCHANGED <<focus, Rest11>>
OnlyA == focus = "collect" /\ UNCHANGED <<focus, Rest10>>
OnlyI == focus = "poll" /\ UNCHANGED <<focus, Rest13>>
OnlyF == focus = "lifecycle" /\ UNCHANGED <<focus, Rest19>>
OnlyB == focus = "subprocess" /\ UNCHANGED <<focus, Rest17>>
OnlyH == focus = "profiler" /\ UNCHANGED <<focus, Rest13>>
OnlyM == focus = "metrics" /\ UNCHANGED <<focus, Rest9>>
OnlyG == focus = "grpc" /\ UNCHANGED <<focus, Rest14>>
OnlyK == focus = "helpers" /\ UNCHANGED <<focus, Rest11>>
OnlyD == focus = "global" /\ UNCHANGED <<focus>>
OnlyT == focus = "tasks" /\ UNCHANGED <<focus, Rest12>>
MCNext ==
  \/ (OnlyP /\ P!Next) \/ (OnlyC /\ C!Next) \/ (OnlyV /\ V!Next)
  \/ (OnlyR /\ R!Next) \/ (OnlyX /\ X!Next) \/ (OnlyE /\ E!Next)
  \/ (OnlyW /\ W!Next) \/ (OnlyS /\ S!Next) \/ (OnlyL /\ L!Next)
  \/ (OnlyQ /\ Q!Next) \/ (OnlyA /\ A!Next) \/ (OnlyI /\ I!Next)
  \/ (OnlyF /\ F!Next) \/ (OnlyB /\ B!Next) \/ (OnlyH /\ H!Next)
  \/ (OnlyM /\ M!Next) \/ (OnlyG /\ G!Next) \/ (OnlyK /\ K!Next)
  \/ (OnlyD /\ D!Next) \/ (OnlyT /\ T!Next)

\* The steps of each component that are scheduled fairly, one of each in turn: as
\* only one component moves, these are the conditions of its FairSpec.
Fair1 ==
  \/ (OnlyP /\ P!Promises) \/ (OnlyC /\ C!Handle) \/ (OnlyV /\ V!Loops)
  \/ (OnlyR /\ R!Process) \/ (OnlyX /\ X!Step)
  \/ (OnlyE /\ (E!Connection \/ E!Process \/ E!Futures)) \/ (OnlyW /\ W!Unlock(1))
  \/ (OnlyS /\ S!WaitStep(1)) \/ (OnlyL /\ L!Timers) \/ (OnlyQ /\ Q!Threads)
  \/ (OnlyA /\ A!Process) \/ (OnlyI /\ I!EventLoop)
  \/ (OnlyF /\ (F!Main \/ F!Loop \/ F!Work)) \/ (OnlyB /\ B!InParent)
  \/ (OnlyH /\ H!Handler) \/ (OnlyM /\ M!Threads) \/ (OnlyG /\ G!Process)
  \/ (OnlyK /\ K!Steps) \/ (OnlyD /\ D!HelpServes) \/ (OnlyT /\ T!Worker)
Fair2 ==
  \/ (OnlyC /\ C!RecvEnds) \/ (OnlyV /\ V!ReceiveMustEnd)
  \/ (OnlyR /\ R!AcceptEnds("discarded")) \/ (OnlyW /\ W!Unlock(2))
  \/ (OnlyS /\ S!WaitStep(2))
  \/ (OnlyQ /\ \E k \in 1..3 : Q!ResultEnds(k, "discarded")) \/ (OnlyB /\ B!InChild)
  \/ (OnlyH /\ H!Expire(1)) \/ (OnlyG /\ G!loop) \/ (OnlyK /\ K!Clock)
  \/ (OnlyD /\ D!Described) \/ (OnlyT /\ T!Callers)
Fair3 ==
  \/ (OnlyV /\ V!EndsStream) \/ (OnlyR /\ R!DiscardEnds) \/ (OnlyW /\ W!Unlock(3))
  \/ (OnlyS /\ S!SignalStep(3)) \/ (OnlyB /\ B!Reaper) \/ (OnlyH /\ H!Expire(2))
  \/ (OnlyG /\ G!Ends) \/ (OnlyD /\ D!Expired)
Fair4 ==
  \/ (OnlyS /\ S!SignalStep(4)) \/ (OnlyD /\ D!Reverts)
Fair5 ==
  \/ (OnlyD /\ D!TimePasses)
MCSpec ==
  /\ MCInit /\ [][MCNext]_all
  /\ WF_all(Fair1) /\ WF_all(Fair2) /\ WF_all(Fair3) /\ WF_all(Fair4) /\
     WF_all(Fair5)

\* What each component owes, and what pays it; see its liveness property.
Owed(k) ==
  \/ (focus = "pipe" /\ k = 1 /\ P!Owed)
  \/ (focus = "connection" /\ k = 1 /\ C!Owed)
  \/ (focus = "serve" /\ k = 1 /\ V!Owed) \/ (focus = "server" /\ R!Owed(k))
  \/ (focus = "proxy" /\ X!Owed(k)) \/ (focus = "endpoints" /\ E!Owed(k))
  \/ (focus = "lock" /\ W!Owed(k)) \/ (focus = "semaphore" /\ k = 1 /\ S!Owed)
  \/ (focus = "limiter" /\ L!Owed(k)) \/ (focus = "sequence" /\ k = 1 /\ Q!Owed)
  \/ (focus = "collect" /\ k = 1 /\ A!Owed) \/ (focus = "poll" /\ I!Owed(k))
  \/ (focus = "lifecycle" /\ k = 1 /\ F!Owed)
  \/ (focus = "subprocess" /\ k = 1 /\ B!Owed) \/ (focus = "profiler" /\ H!Owed(k))
  \/ (focus = "metrics" /\ M!Owed(k)) \/ (focus = "grpc" /\ G!Owed(k))
  \/ (focus = "helpers" /\ k = 1 /\ K!Owed) \/ (focus = "global" /\ D!Owed(k))
  \/ (focus = "tasks" /\ T!Owed(k))
Paid(k) ==
  \/ (focus = "pipe" /\ k = 1 /\ P!Paid)
  \/ (focus = "connection" /\ k = 1 /\ C!Paid)
  \/ (focus = "serve" /\ k = 1 /\ V!Paid) \/ (focus = "server" /\ R!Paid(k))
  \/ (focus = "proxy" /\ X!Paid(k)) \/ (focus = "endpoints" /\ E!Paid(k))
  \/ (focus = "lock" /\ W!Paid(k)) \/ (focus = "semaphore" /\ k = 1 /\ S!Paid)
  \/ (focus = "limiter" /\ L!Paid(k)) \/ (focus = "sequence" /\ k = 1 /\ Q!Paid)
  \/ (focus = "collect" /\ k = 1 /\ A!Paid) \/ (focus = "poll" /\ I!Paid(k))
  \/ (focus = "lifecycle" /\ k = 1 /\ F!Paid)
  \/ (focus = "subprocess" /\ k = 1 /\ B!Paid) \/ (focus = "profiler" /\ H!Paid(k))
  \/ (focus = "metrics" /\ M!Paid(k)) \/ (focus = "grpc" /\ G!Paid(k))
  \/ (focus = "helpers" /\ k = 1 /\ K!Paid) \/ (focus = "global" /\ D!Paid(k))
  \/ (focus = "tasks" /\ T!Paid(k))

(***************************************************************************)
(* Pipe: reads give the data in the order it was written, each piece once, *)
(* and the end of file or a failure only after all of it; a read waits     *)
(* only while there is nothing to read; the writer is notified exactly if  *)
(* the read end is closed first.                                           *)
(***************************************************************************)
PipeSafe == focus = "pipe" => P!Safe

(***************************************************************************)
(* ConnectionProcess: the n-th response answers the n-th request in the    *)
(* pipeline; no request follows, or waits after, a Connection: close of    *)
(* either side; a disconnected connection has no request waiting and no    *)
(* body half written; a body with a length is completed only by all of it. *)
(***************************************************************************)
ConnectionSafe == focus = "connection" => C!Safe

(***************************************************************************)
(* serve: responses are sent whole and in the order of the requests, and   *)
(* none after that of a request not kept alive; a request is deleted once, *)
(* whichever loop ended first; after a discard every handler has answered  *)
(* or was told to stop.  ServerProcess: stop misses no client that the     *)
(* accept loop adds, a stopped server serves and accepts no one, and       *)
(* finalize discards all.                                                  *)
(***************************************************************************)
ServingSafe == (focus = "serve" => V!Safe) /\ (focus = "server" => R!Safe)

(***************************************************************************)
(* HttpProxy: the responses are sent in the order of the requests, none    *)
(* before the previous one has ended; its CHECKs hold; when it has ended   *)
(* the producer of every response it had taken on was told.                *)
(***************************************************************************)
ProxySafe == focus = "proxy" => X!Safe

(***************************************************************************)
(* ProcessManager::handle and the HTTP events of a process: no handler     *)
(* runs without the authentication and authorization its route asks for,   *)
(* whenever callbacks and authenticators are set and unset; none runs      *)
(* twice; requests to one kind of endpoint are handled in their order; a   *)
(* response is lost only with its process.                                 *)
(***************************************************************************)
EndpointsSafe == focus = "endpoints" => E!EndpointsSafe

(***************************************************************************)
(* Mutex and ReadWriteLock: owners and writers exclude everyone, the       *)
(* fields say who holds the lock, and nobody is overtaken.  The semaphores *)
(* of the run queue: when everything is quiet nobody sleeps on a unit that *)
(* is available, no waiter is in two slots, and a decomissioned kernel     *)
(* semaphore has a unit for everyone who waits.                            *)
(***************************************************************************)
LocksSafe == (focus = "lock" => W!Safe) /\ (focus = "semaphore" => S!Safe)

(***************************************************************************)
(* RateLimiter: permits are a period apart and in the order of the         *)
(* requests, with one timer exactly while requests wait.  Sequence: a      *)
(* callback runs only after those before it, and a discard of the whole    *)
(* reaches every one.  collect and await: the result says what became of   *)
(* the futures, and no CHECK fails.  WaitWaiter and ReqResProcess: the     *)
(* first event decides, and nothing is written after wait() returned.  The *)
(* gRPC runtime: a call is completed once, and none that was started is    *)
(* lost when the runtime terminates.  run(), async() and Executor: each    *)
(* function runs at most once, and its future says whether it did.         *)
(* after(): it is set or discarded by its timer or by a discard.           *)
(***************************************************************************)
CoordinationSafe ==
  /\ focus = "limiter" => L!Safe
  /\ focus = "sequence" => Q!Safe
  /\ focus = "collect" => A!Safe
  /\ focus = "helpers" => K!Safe
  /\ focus = "grpc" => G!Safe
  /\ focus = "tasks" => T!Safe

(***************************************************************************)
(* io::poll: a watcher is active only while its Poll lives, which is       *)
(* deleted once and only with the promise completed; a poll is discarded   *)
(* only if that was asked for.                                             *)
(***************************************************************************)
PollSafe == focus = "poll" => I!TypeOK /\ I!PollSafe

(***************************************************************************)
(* initialize() and finalize(): nobody uses a manager before it is made or *)
(* after it is deleted, and after finalize() no process, socket, worker or *)
(* event loop is left.                                                     *)
(***************************************************************************)
LifecycleSafe == focus = "lifecycle" => F!LifecycleSafe

(***************************************************************************)
(* subprocess(): whichever step fails, each descriptor it opened is closed *)
(* once and no other; the child starts only when the parent is ready, with *)
(* nothing of the parent but its streams; only reaped children are known   *)
(* to have ended.                                                          *)
(***************************************************************************)
SubprocessSafe == focus = "subprocess" => B!TypeOK /\ B!SubprocessSafe

(***************************************************************************)
(* MemoryProfiler: profiling is active only during a run, which a timer    *)
(* will end, the CHECK of /stop holds, and a download serves the run it    *)
(* was asked for.  Help: what it was told of a process is what the process *)
(* of that name routes now; /__processes__ misses only processes that end. *)
(* Logging: a level is kept until its time is over, and then reverted.     *)
(***************************************************************************)
AdministrationSafe ==
  /\ focus = "profiler" => H!TypeOK /\ H!ProfilerSafe
  /\ focus = "global" => D!Safe

(***************************************************************************)
(* The metrics process: a snapshot holds what its metrics gave in time, no *)
(* more and no less, and successful additions and removals of one name     *)
(* alternate.                                                              *)
(***************************************************************************)
MetricsSafe == focus = "metrics" => M!Safe

(***************************************************************************)
(* Whatever a component owes it gives.  No read of a pipe stays pending    *)
(* once an end is closed; once a connection ends every request has its     *)
(* answer or a failure; the proxy sends a response that is there after     *)
(* those before it; serving, stop and run end; every request to an         *)
(* endpoint gets a response, if only a discarded one.  Every request for   *)
(* a lock or a permit is granted, a unit of a semaphore that someone waits *)
(* for is taken, a sequence, a collection, a discarded poll and a delay    *)
(* end, finalize() returns, children are reaped, profiling runs end and    *)
(* snapshots with a timeout are answered.  gRPC calls are answered and the *)
(* runtime terminates, a wait() with a timeout returns, /__processes__ is  *)
(* answered, the log level reverted, a function given to a process is run  *)
(* or its future abandoned, and after() completes.                         *)
(***************************************************************************)
NothingWaitsForever == \A k \in 1..3 : Owed(k) ~> Paid(k)
=============================================================================

---------------------------- MODULE MCComponents ----------------------------
(***************************************************************************)
(* One run for the data structures, the sockets, the codecs and the other  *)
(* parts of which only safety is checked.  `focus' picks the component;    *)
(* x1, x2... are its variables.                                            *)
(***************************************************************************)
EXTENDS Naturals

CONSTANTS None

VARIABLES
  focus,
  x1, x2, x3, x4, x5, x6, x7, x8, x9, x10, x11, x12, x13, x14, x15, x16, x17, x18,
  x19, x20, x21, x22, x23

all == <<focus, x1, x2, x3, x4, x5, x6, x7, x8, x9, x10, x11, x12, x13, x14, x15,
         x16, x17, x18, x19, x20, x21, x22, x23>>

H == INSTANCE Synchronizers WITH
  Thread <- 1..3, Count <- 2, MaxPuts <- 3, MaxGets <- 4, object <- x1,
  started <- x2, finished <- x3, opc <- x4, count <- x5, cpc <- x6, expected <- x7,
  sets <- x8, triggered <- x9, lpc <- x10, gate <- x11, winners <- x12,
  elements <- x13, promises <- x14, setting <- x15, puts <- x16, gets <- x17,
  future <- x18, got <- x19, alive <- x20
M == INSTANCE MpscLinkedQueue WITH
  Producer <- {1, 2}, MaxNodes <- 4, head <- x1, tail <- x2, next <- x3,
  element <- x4, freed <- x5, link <- x6, sent <- x7, pc <- x8, nextTail <- x9,
  end <- x10, node <- x11, out <- x12, seen <- x13, misuse <- x14
T == INSTANCE TimeSeries WITH
  Thread <- {1, 2}, Capacity <- 4, Window <- 5, MaxTime <- 9, now <- x1,
  values <- x2, next <- x3, index <- x4, pushing <- x5, newest <- x6, misused <- x7
L == INSTANCE Loop WITH
  Threads <- {"t", "u"}, MaxFutures <- 3, hasPid <- x1, state <- x2, kind <- x3,
  asked <- x4, onAny <- x5, stack <- x6, queue <- x7, discard <- x8, promise <- x9,
  hasDiscard <- x10, caller <- x11, copy <- x12
I == INSTANCE IO WITH
  Size <- 4, Chunk <- 3, op <- x1, pc <- x2, fds <- x3, given <- x4, source <- x5,
  ended <- x6, buffer <- x7, data <- x8, index <- x9, sink <- x10, asked <- x11,
  result <- x12
S == INSTANCE SSLSocket WITH
  MaxRecvs <- 2, MaxSends <- 1, MaxData <- 1, MaxShutdowns <- 1, bev <- x1,
  connect <- x2, connect_request <- x3, recvs <- x4, sends <- x5,
  recv_request <- x6, send_request <- x7, received_eof <- x8, calls <- x9,
  functions <- x10, loop <- x11, input <- x12, arrived <- x13, output <- x14,
  written <- x15, readable <- x16, writable <- x17, ended <- x18, life <- x19,
  frees <- x20, shutdowns <- x21, discards <- x22, aborted <- x23
A == INSTANCE SSLAccept WITH
  Connection <- {"c", "d"}, MaxAccepts <- 2, support_downgrade <- x1, hello <- x2,
  listener <- x3, impl <- x4, request <- x5, socket <- x6, tls <- x7, promise <- x8,
  verified <- x9, queue <- x10, gets <- x11, accepted <- x12
V == INSTANCE TLS WITH
  MaxLoads <- 2, flags <- x1, ctx <- x2, exited <- x3, loads <- x4, stage <- x5,
  peer <- x6, ssl <- x7, held <- x8
D == INSTANCE Decoder WITH
  MaxMessages <- 1, MaxHeaders <- 2, MaxPieces <- 2, None <- None, request <- x1,
  streaming <- x2, phase <- x3, error <- x4, pieces <- x5, wire <- x6, header <- x7,
  field <- x8, value <- x9, url <- x10, message <- x11, failure <- x12,
  writer <- x13, decompressor <- x14, begun <- x15, decoded <- x16, pipe <- x17,
  aborted <- x18, deleted <- x19
X == INSTANCE Text WITH
  MaxLength <- 4, MaxShort <- 2, MaxEntries <- 3, Error <- None, s <- x1, t <- x2,
  accept <- x3
O == INSTANCE Ownership WITH
  Handle <- 1..3, MaxData <- 5, made <- x1, kind <- x2, t <- x3, owned <- x4,
  handle <- x5, op <- x6, future <- x7, source <- x8, object <- x9
B == INSTANCE Authentication WITH
  Secret <- {1, 2}, MaxTime <- 1, None <- None, secret <- x1, now <- x2,
  token <- x3, issue <- x4, altered <- x5, answer <- x6

\* The variables from one on, which a component that has fewer does not use.
Rest23 == <<x23>>
Rest22 == <<x22, Rest23>>
Rest21 == <<x21, Rest22>>
Rest20 == <<x20, Rest21>>
Rest19 == <<x19, Rest20>>
Rest18 == <<x18, Rest19>>
Rest17 == <<x17, Rest18>>
Rest16 == <<x16, Rest17>>
Rest15 == <<x15, Rest16>>
Rest14 == <<x14, Rest15>>
Rest13 == <<x13, Rest14>>
Rest12 == <<x12, Rest13>>
Rest11 == <<x11, Rest12>>
Rest10 == <<x10, Rest11>>
Rest9 == <<x9, Rest10>>
Rest8 == <<x8, Rest9>>
Rest7 == <<x7, Rest8>>
Rest6 == <<x6, Rest7>>
Rest5 == <<x5, Rest6>>
Rest4 == <<x4, Rest5>>
Unused23 == x23 = 0
Unused22 == x22 = 0 /\ Unused23
Unused21 == x21 = 0 /\ Unused22
Unused20 == x20 = 0 /\ Unused21
Unused19 == x19 = 0 /\ Unused20
Unused18 == x18 = 0 /\ Unused19
Unused17 == x17 = 0 /\ Unused18
Unused16 == x16 = 0 /\ Unused17
Unused15 == x15 = 0 /\ Unused16
Unused14 == x14 = 0 /\ Unused15
Unused13 == x13 = 0 /\ Unused14
Unused12 == x12 = 0 /\ Unused13
Unused11 == x11 = 0 /\ Unused12
Unused10 == x10 = 0 /\ Unused11
Unused9 == x9 = 0 /\ Unused10
Unused8 == x8 = 0 /\ Unused9
Unused7 == x7 = 0 /\ Unused8
Unused6 == x6 = 0 /\ Unused7
Unused5 == x5 = 0 /\ Unused6
Unused4 == x4 = 0 /\ Unused5

MCInit ==
  \/ focus = "synchronizers" /\ H!Init /\ Unused21
  \/ focus = "mpsc" /\ M!Init /\ Unused15
  \/ focus = "series" /\ T!Init /\ Unused8
  \/ focus = "loop" /\ L!Init /\ Unused13
  \/ focus = "io" /\ I!Init /\ Unused13
  \/ focus = "ssl" /\ S!Init
  \/ focus = "accept" /\ A!Init /\ Unused13
  \/ focus = "tls" /\ V!Init /\ Unused9
  \/ focus = "decoder" /\ D!Init /\ Unused20
  \/ focus = "text" /\ X!Init /\ Unused4
  \/ focus = "ownership" /\ O!Init /\ Unused10
  \/ focus = "auth" /\ B!Init /\ Unused7

\* Only this component moves.
OnlyH == focus = "synchronizers" /\ UNCHANGED <<focus, Rest21>>
OnlyM == focus = "mpsc" /\ UNCHANGED <<focus, Rest15>>
OnlyT == focus = "series" /\ UNCHANGED <<focus, Rest8>>
OnlyL == focus = "loop" /\ UNCHANGED <<focus, Rest13>>
OnlyI == focus = "io" /\ UNCHANGED <<focus, Rest13>>
OnlyS == focus = "ssl" /\ UNCHANGED <<focus>>
OnlyA == focus = "accept" /\ UNCHANGED <<focus, Rest13>>
OnlyV == focus = "tls" /\ UNCHANGED <<focus, Rest9>>
OnlyD == focus = "decoder" /\ UNCHANGED <<focus, Rest20>>
OnlyX == focus = "text" /\ UNCHANGED <<focus, Rest4>>
OnlyO == focus = "ownership" /\ UNCHANGED <<focus, Rest10>>
OnlyB == focus = "auth" /\ UNCHANGED <<focus, Rest7>>
MCNext ==
  \/ (OnlyH /\ H!Next) \/ (OnlyM /\ M!Next) \/ (OnlyT /\ T!Next)
  \/ (OnlyL /\ L!Next) \/ (OnlyI /\ I!Next) \/ (OnlyS /\ S!Next)
  \/ (OnlyA /\ A!Next) \/ (OnlyV /\ V!Next) \/ (OnlyD /\ D!Next)
  \/ (OnlyX /\ X!Next) \/ (OnlyO /\ O!Next) \/ (OnlyB /\ B!Next)
MCSpec == MCInit /\ [][MCNext]_all

(***************************************************************************)
(* LibeventSSLSocketImpl: each request is completed once and by its own    *)
(* event, no recv waits on data or an end that is there, a send completes  *)
(* only when its data is written, an end is seen after the data before it, *)
(* and everything is freed once.  An accepted connection gives one result, *)
(* in order, and is a TLS socket only if its peer was verified.  openssl:  *)
(* whatever the flags loaded, and reloaded, no connection is open without  *)
(* the certificate and the name that they ask for.                         *)
(***************************************************************************)
SSLSafe ==
  /\ focus = "ssl" => S!SSLSafe
  /\ focus = "accept" => A!Safe
  /\ focus = "tls" => V!Safe

(***************************************************************************)
(* io::read, write and redirect, and the sockets: the bytes arrive whole   *)
(* and in order, and every descriptor duplicated is closed once, whichever *)
(* way the operation ends.  process::loop: one continuation is registered  *)
(* at a time, and the loop never stalls while its promise is pending.      *)
(***************************************************************************)
IOSafe ==
  /\ focus = "io" => I!TypeOK /\ I!IOSafe
  /\ focus = "loop" => L!TypeOK /\ L!LoopSafe

(***************************************************************************)
(* The decoders give the message that was sent, however it is cut into     *)
(* pieces, and never leave a body's pipe open.  What encode, query::encode *)
(* and the text of a PID, a URL or a message's path write, the parsers     *)
(* read back; the negotiation of encodings and media types follows the     *)
(* header; the announced length is the one written.  A JSON Web Token is   *)
(* accepted exactly if it was signed with the same secret and algorithm,   *)
(* is unchanged and has not expired, and gives the claims it was made of.  *)
(***************************************************************************)
CodecSafe ==
  /\ focus = "decoder" => D!DecoderSafe
  /\ focus = "text" => X!TextSafe
  /\ focus = "auth" => B!Safe

(***************************************************************************)
(* Once, CountDownLatch and Latch: one thread goes first, and the others   *)
(* see what it did.  Queue: every element goes to one get, in order.       *)
(* MpscLinkedQueue: no node is used after it was freed, and only the links *)
(* being made are missing.  TimeSeries: the iterator is valid where it is  *)
(* used, and the newest value is kept.  Owned and Shared: the object has   *)
(* one holder, and own() gives it to one caller.                           *)
(***************************************************************************)
PrimitivesSafe ==
  /\ focus = "synchronizers" => H!Safe
  /\ focus = "mpsc" => M!Safe
  /\ focus = "series" => T!Safe
  /\ focus = "ownership" => O!Safe

\* MpscLinkedQueue behaves as an atomic first-in-first-out queue: enqueue() takes
\* effect when it exchanges the head, dequeue() when it reads head or element.
ImplementsFifo ==
  /\ focus = "mpsc" => M!FifoInit
  /\ [][focus = "mpsc" => M!FifoStep]_all
=============================================================================

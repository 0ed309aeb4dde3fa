--------------------------------- MODULE IO ---------------------------------
(***************************************************************************)
(* Asynchronous I/O on descriptors: src/io.cpp (read, write, redirect and  *)
(* splice), src/posix/io.cpp (one read or write, polling when the system   *)
(* call would block) and src/posix/poll_socket.cpp (accept, connect, recv, *)
(* send and sendfile of a plain socket).                                   *)
(*                                                                         *)
(* One operation runs per behaviour, chosen by the initial state.  Bytes   *)
(* are numbered by their place in the stream, so that loss, duplication    *)
(* and reordering are visible; every system call may fail.  io::poll ends  *)
(* ready, or discarded after a discard was asked for (module Poll).        *)
(***************************************************************************)
EXTENDS Integers, Sequences, SequencesExt

CONSTANTS
  Size,    \* bytes in the stream
  Chunk    \* most bytes one read returns (redirect's `chunk')

VARIABLES
  op,       \* the operation (a constant of the behaviour)
  pc,       \* its next step
  fds,      \* descriptor -> times opened minus times closed
  given,    \* the caller's descriptor is still open
  source,   \* bytes readable from the descriptor that are still there
  ended,    \* the other end is closed: end of file once source is empty
  buffer,   \* bytes read (read), or passed to the hooks (redirect)
  data,     \* the data the current write was called with
  index,    \* how much of it has been written
  sink,     \* bytes the system call `write' took
  asked,    \* a discard was requested on the returned future
  result    \* state of the returned future

vars == <<op, pc, fds, given, source, ended, buffer, data, index, sink, asked, result>>
stream == <<source, ended, buffer, data, index, sink>>

Ops == {"read", "write", "redirect", "recv", "send", "accept", "connect"}
Descriptors == {"from", "to", "dup", "accepted"}
Bytes == [i \in 1..Size |-> i]

TypeOK ==
  /\ op \in Ops
  /\ pc \in {"dup", "cloexec", "async", "dup_to", "cloexec_to", "async_to",
             "read", "poll_read", "write_dup", "write_cloexec", "write_async",
             "write", "poll_write", "accept", "accepted", "poll_accept",
             "connect", "poll_connect", "connected", "done"}
  /\ fds \in [Descriptors -> -1..2]
  /\ given \in BOOLEAN /\ ended \in BOOLEAN /\ asked \in BOOLEAN
  /\ index \in 0..Size
  /\ result \in {"pending", "ready", "failed", "discarded"}

Open(d) == fds' = [fds EXCEPT ![d] = @ + 1]
CloseAll(ds) == fds' = [d \in Descriptors |-> IF d \in ds THEN fds[d] - 1 ELSE fds[d]]

\* The descriptors the onAny callbacks and the error paths of an operation
\* close: those it opened before step pc.
Owned ==
  CASE op = "read" -> IF pc = "dup" THEN {} ELSE {"from"}
    [] op = "redirect" -> CASE pc = "dup_to" -> {}
                            [] pc = "dup" -> {"to"}
                            [] OTHER -> {"from", "to"}
    [] OTHER -> {}

\* The write inside a redirect owns a duplicate of `to' of its own.
OwnedByWrite == IF pc \in {"write_cloexec", "write_async", "write", "poll_write"}
                   /\ op \in {"write", "redirect"}
                THEN {"dup"} ELSE {}

\* MUTANT: an error path closes only one of two descriptors.
End_leaks(r) ==
  /\ result' = r
  /\ pc' = "done"
  /\ CloseAll(IF r = "failed" /\ pc \in {"cloexec", "cloexec_to"} THEN {"from"}
              ELSE Owned \cup OwnedByWrite)

\* The operation is over: the onAny callbacks, or the error path, close what it owns.
End(r) ==
  /\ result' = r
  /\ pc' = "done"
  /\ CloseAll(Owned \cup OwnedByWrite)

Goto(p) == pc' = p /\ UNCHANGED result

-----------------------------------------------------------------------------
(* Duplicating the caller's descriptors: io::read, io::write, io::redirect *)

\* os::dup of a closed descriptor fails; a live one may fail too.  Without a
\* `to' redirect opens /dev/null instead.
Dup(here, d, next) ==
  /\ pc = here
  /\ \/ /\ given \/ d = "to"
        /\ Open(d) /\ Goto(next)
     \/ End("failed")
  /\ UNCHANGED <<op, given, asked>> /\ UNCHANGED stream

\* os::cloexec and prepare_async, each of which may fail.
Prepare(here, next) ==
  /\ pc = here
  /\ \/ Goto(next) /\ UNCHANGED fds
     \/ End("failed")
  /\ UNCHANGED <<op, given, asked>> /\ UNCHANGED stream

Setup ==
  \/ Dup("dup_to", "to", "dup")
  \/ Dup("dup", "from", "cloexec")
  \/ Prepare("cloexec", IF op = "redirect" THEN "cloexec_to" ELSE "async")
  \/ Prepare("cloexec_to", "async")
  \/ Prepare("async", IF op = "redirect" THEN "async_to" ELSE "read")
  \/ Prepare("async_to", "read")

\* The write of a redirect duplicates `to', which it owns, so only the write
\* of the caller depends on the caller's descriptor.
WriteSetup ==
  \/ /\ pc = "write_dup"
     /\ \/ /\ given \/ op = "redirect"
           /\ Open("dup") /\ Goto("write_cloexec")
        \/ End("failed")
     /\ UNCHANGED <<op, given, asked>> /\ UNCHANGED stream
  \/ Prepare("write_cloexec", "write_async")
  \/ Prepare("write_async", "write")

-----------------------------------------------------------------------------
(* internal::read, and what read, splice and recv do with its result *)

\* Some bytes: read appends them to its buffer, splice hands them to the
\* hooks and writes them, recv returns them.
ReadBytes(n) ==
  LET bytes == SubSeq(source, 1, n) IN
  /\ pc = "read" /\ n \in 1..Chunk /\ n <= Len(source)
  /\ source' = SubSeq(source, n + 1, Len(source))
  /\ buffer' = buffer \o bytes
  /\ CASE op = "read" -> /\ Goto("read") /\ UNCHANGED <<data, index, fds>>
       [] op = "redirect" -> /\ data' = bytes /\ index' = 0
                             /\ Goto("write_dup") /\ UNCHANGED fds
       [] OTHER -> End("ready") /\ UNCHANGED <<data, index>>
  /\ UNCHANGED <<op, given, ended, sink, asked>>

ReadEnd ==
  /\ pc = "read" /\ source = <<>> /\ ended
  /\ End("ready")
  /\ UNCHANGED <<op, given, asked>> /\ UNCHANGED stream

ReadBlocks ==
  /\ pc = "read"
  /\ Goto("poll_read")
  /\ UNCHANGED <<op, fds, given, asked>> /\ UNCHANGED stream

\* The system call fails, or recv finds its descriptor not asynchronous.
SystemCallFails ==
  /\ pc \in {"read", "write"}
  /\ End("failed")
  /\ UNCHANGED <<op, given, asked>> /\ UNCHANGED stream

\* A poll ends: ready, or discarded once somebody asked for it.
PollReady ==
  /\ pc \in {"poll_read", "poll_write", "poll_accept", "poll_connect"}
  /\ Goto(CASE pc = "poll_read" -> "read" [] pc = "poll_write" -> "write"
            [] pc = "poll_accept" -> "accept" [] OTHER -> "connected")
  /\ UNCHANGED <<op, fds, given, asked>> /\ UNCHANGED stream

PollDiscarded ==
  /\ pc \in {"poll_read", "poll_write", "poll_accept", "poll_connect"} /\ asked
  /\ End("discarded")
  /\ UNCHANGED <<op, given, asked>> /\ UNCHANGED stream

-----------------------------------------------------------------------------
(* internal::write and the loops over it; send and sendfile alike *)

\* MUTANT: a partial write is repeated from the start of the data.
WriteBytes_restart(n) ==
  /\ pc = "write" /\ n <= Len(data) - index
  /\ n > 0 \/ data = <<>>
  /\ sink' = sink \o SubSeq(data, 1, n)
  /\ index' = index + n
  /\ CASE op = "send" -> End("ready")
       [] op # "send" /\ index' < Len(data) -> Goto("write") /\ UNCHANGED fds
       [] op = "write" /\ index' = Len(data) -> End("ready")
       [] op = "redirect" /\ index' = Len(data) -> Goto("read") /\ CloseAll({"dup"})
  /\ UNCHANGED <<op, given, source, ended, buffer, data, asked>>

\* write(fd, data.data() + *index, size - *index) takes n bytes.  io::write
\* loops until all are written; send and sendfile return the count.  An empty
\* string is written by the 0 that internal::write returns for it.
WriteBytes(n) ==
  /\ pc = "write" /\ n <= Len(data) - index
  /\ n > 0 \/ data = <<>>
  /\ sink' = sink \o SubSeq(data, index + 1, index + n)
  /\ index' = index + n
  /\ CASE op = "send" -> End("ready")
       [] op # "send" /\ index' < Len(data) -> Goto("write") /\ UNCHANGED fds
       [] op = "write" /\ index' = Len(data) -> End("ready")
       [] op = "redirect" /\ index' = Len(data) -> Goto("read") /\ CloseAll({"dup"})
  /\ UNCHANGED <<op, given, source, ended, buffer, data, asked>>

WriteBlocks ==
  /\ pc = "write" /\ data # <<>>
  /\ Goto("poll_write")
  /\ UNCHANGED <<op, fds, given, asked>> /\ UNCHANGED stream

-----------------------------------------------------------------------------
(* PollSocketImpl::accept and connect *)

Accept ==
  /\ pc = "accept"
  /\ \/ Open("accepted") /\ Goto("accepted")
     \/ End("failed")
  /\ UNCHANGED <<op, given, asked>> /\ UNCHANGED stream

\* nonblock, cloexec, address, TCP_NODELAY and create: any failure closes the
\* accepted socket, otherwise it is handed to the caller.
Accepted ==
  /\ pc = "accepted"
  /\ pc' = "done"
  /\ \/ result' = "ready" /\ UNCHANGED fds
     \/ result' = "failed" /\ CloseAll({"accepted"})
  /\ UNCHANGED <<op, given, asked>> /\ UNCHANGED stream

\* The first call connects, fails or is in progress; after the poll SO_ERROR
\* tells whether it succeeded.
Connect ==
  /\ pc \in {"connect", "connected"}
  /\ \/ End("ready") \/ End("failed")
     \/ pc = "connect" /\ Goto("poll_connect") /\ UNCHANGED fds
  /\ UNCHANGED <<op, given, asked>> /\ UNCHANGED stream

-----------------------------------------------------------------------------
(* The environment *)

CallerCloses ==
  /\ given /\ op \in {"read", "write", "redirect"}
  /\ given' = FALSE
  /\ UNCHANGED <<op, pc, fds, asked, result>> /\ UNCHANGED stream

Discard ==
  /\ ~asked /\ result = "pending"
  /\ asked' = TRUE
  /\ UNCHANGED <<op, pc, fds, given, result>> /\ UNCHANGED stream

PeerCloses ==
  /\ ~ended
  /\ ended' = TRUE
  /\ UNCHANGED <<op, pc, fds, given, source, buffer, data, index, sink, asked, result>>

Init ==
  /\ op \in Ops
  /\ pc = CASE op = "read" -> "dup" [] op = "redirect" -> "dup_to"
            [] op = "write" -> "write_dup" [] op = "recv" -> "read"
            [] op = "send" -> "write" [] op = "accept" -> "poll_accept"
            [] OTHER -> "connect"
  /\ fds = [d \in Descriptors |-> 0]
  /\ given = TRUE
  /\ source = IF op \in {"read", "redirect", "recv"} THEN Bytes ELSE <<>>
  /\ ended = FALSE
  /\ buffer = <<>>
  /\ data \in CASE op = "write" -> {<<>>, Bytes} [] op = "send" -> {Bytes} [] OTHER -> {<<>>}
  /\ index = 0 /\ sink = <<>> /\ asked = FALSE /\ result = "pending"

Operation ==
  \/ Setup \/ WriteSetup
  \/ \E n \in 1..Chunk : ReadBytes(n)
  \/ \E n \in 0..Size : WriteBytes(n)
  \/ ReadEnd \/ ReadBlocks \/ SystemCallFails \/ WriteBlocks
  \/ PollReady \/ PollDiscarded \/ Accept \/ Accepted \/ Connect

Next == Operation \/ CallerCloses \/ Discard \/ PeerCloses

Spec == Init /\ [][Next]_vars

-----------------------------------------------------------------------------
\* Every descriptor an operation opens is closed exactly once by the time its
\* future completes, on every error path and on discard, except the socket a
\* successful accept hands over; system calls use open descriptors only,
\* whatever the caller does with theirs; and the bytes come out complete and
\* in order: a ready read returns all of the stream, a ready write wrote all
\* of its data, a redirect wrote a prefix of what its hooks saw, and all of
\* the stream when it is ready.
IOSafe ==
  /\ result # "pending" => \A d \in Descriptors :
       fds[d] = IF d = "accepted" /\ op = "accept" /\ result = "ready" THEN 1 ELSE 0
  /\ pc \in {"read", "poll_read"} /\ op # "recv" => fds["from"] = 1
  /\ pc \in {"write", "poll_write"} /\ op # "send" => fds["dup"] = 1
  /\ pc \in {"write_dup", "write"} /\ op = "redirect" => fds["to"] = 1
  /\ buffer \o source = IF op \in {"read", "redirect", "recv"} THEN Bytes ELSE <<>>
  /\ op = "read" /\ result = "ready" => buffer = Bytes
  /\ op = "write" /\ result = "ready" => sink = data
  /\ IsPrefix(sink, Bytes)
  /\ op = "redirect" => IsPrefix(sink, buffer)
  /\ op = "redirect" /\ (pc = "read" \/ result = "ready") => sink = buffer
  /\ op = "redirect" /\ result = "ready" => sink = Bytes
=============================================================================

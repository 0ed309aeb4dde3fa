----------------------------- MODULE Subprocess -----------------------------
(***************************************************************************)
(* process::subprocess (src/subprocess.cpp, src/posix/subprocess.{hpp,cpp})*)
(* and the reaper it hands its child to (src/reap.cpp).                    *)
(*                                                                         *)
(* The descriptor tables of the parent and of the child map numbers to     *)
(* files; a table entry also has its close-on-exec flag.  The numbers      *)
(* matter: open takes the lowest free one, and childMain compares numbers  *)
(* with those of stdin, stdout and stderr.  After the clone the parent and *)
(* the child run concurrently, synchronised by a pipe when there are       *)
(* parent hooks.  Arguments and environment are left out.                  *)
(***************************************************************************)
EXTENDS Integers, Sequences, FiniteSets, FiniteSetsExt

CONSTANTS
  Numbers,    \* descriptor numbers, 0..n with room for every pipe
  Closed      \* sets of stdio numbers the parent may have closed before

Stdio == 0..2
Modes == {"pipe", "path", "dup", "owned"}

VARIABLES
  mode,       \* stream -> Subprocess::IO it was given
  blocking,   \* there are parent hooks
  table,      \* parent: number -> file, "none" when closed
  cloexec,    \* parent: numbers with FD_CLOEXEC
  before,     \* the parent's table when subprocess was called
  ours,       \* stream -> the child's end (fds.read of stdin, else .write)
  theirs,     \* stream -> the parent's end of its pipe, -1 if none
  sync,       \* numbers of the pipe of the parent hooks, <<-1, -1>> if none
  token,      \* bytes in that pipe
  parent,     \* where subprocess() is in the parent
  ctable,     \* child: number -> file
  ccloexec,   \* child: numbers with FD_CLOEXEC
  child,      \* where the child is
  promise,    \* the status future: "none", "pending", "status", "unknown"
  reaping,    \* the reaper holds a promise for the child
  handle      \* the caller still has its copy of the Subprocess

vars == <<mode, blocking, table, cloexec, before, ours, theirs, sync, token,
          parent, ctable, ccloexec, child, promise, reaping, handle>>

InFd(i) == IF i = 1 THEN "r" ELSE "w"     \* the end of a pipe the child uses
Std(i) == i - 1                           \* STDIN_FILENO, ...
Owned(i) == 2 + i                         \* the descriptor given as OWNED
File(name, i) == <<name, i>>
Unused == <<"none", 0>>

\* The file the child should see as stream i.
Wanted(i) ==
  CASE mode[i] = "pipe" -> File(InFd(i), i)
    [] mode[i] = "path" -> File("path", i)
    [] mode[i] = "dup" -> before[Std(i)]
    [] OTHER -> File("owned", i)

TypeOK ==
  /\ mode \in [1..3 -> Modes] /\ blocking \in BOOLEAN
  /\ DOMAIN table = Numbers /\ DOMAIN ctable = Numbers
  /\ cloexec \subseteq Numbers /\ ccloexec \subseteq Numbers
  /\ ours \in [1..3 -> Numbers \cup {-1}] /\ theirs \in [1..3 -> Numbers \cup {-1}]
  /\ token \in 0..1
  /\ parent \in {"prepare", "cloexec", "pipe", "clone", "close", "hooks", "signal", "kill",
                 "reap", "returned", "error"}
  /\ child \in {"none", "ends", "dup2", "copies", "wait", "hooks", "exec", "running",
                "zombie", "reaped"}
  /\ promise \in {"none", "pending", "status", "unknown"}
  /\ reaping \in BOOLEAN /\ handle \in BOOLEAN

Free(t) == {n \in Numbers : t[n] = Unused}
Lowest(t) == Min(Free(t))
Second(t) == Min(Free(t) \ {Lowest(t)})
Without(t, ns) == [n \in Numbers |-> IF n \in ns THEN Unused ELSE t[n]]

\* internal::close of every descriptor prepared so far (-1 is skipped).
AllEnds == {ours[i] : i \in 1..3} \cup {theirs[i] : i \in 1..3}
close(ns) == /\ table' = Without(table, ns)
             /\ cloexec' = cloexec \ ns

childState == <<ctable, ccloexec, child>>
result == <<promise, reaping, handle>>

-----------------------------------------------------------------------------
(* subprocess(), in the parent *)

Stream == CHOOSE i \in 1..4 : i = 4 \/ (ours[i] = -1 /\ \A j \in 1..(i - 1) : ours[j] # -1)

\* Each takes the lowest free number, or two of them.
PIPE(i) ==
  LET rd == Lowest(table)
      wr == Second(table)
  IN  /\ table' = [table EXCEPT ![rd] = File("r", i), ![wr] = File("w", i)]
      /\ ours' = [ours EXCEPT ![i] = IF i = 1 THEN rd ELSE wr]
      /\ theirs' = [theirs EXCEPT ![i] = IF i = 1 THEN wr ELSE rd]
      /\ cloexec' = cloexec \cup {rd, wr}

PATH(i) ==
  /\ table' = [table EXCEPT ![Lowest(table)] = File("path", i)]
  /\ ours' = [ours EXCEPT ![i] = Lowest(table)]
  /\ cloexec' = cloexec \cup {Lowest(table)}
  /\ UNCHANGED theirs

\* A duplicate of the parent's own stdio, or a descriptor given away.
FD(i, type) ==
  /\ IF type = "dup"
     THEN /\ table[Std(i)] # Unused
          /\ table' = [table EXCEPT ![Lowest(table)] = table[Std(i)]]
          /\ ours' = [ours EXCEPT ![i] = Lowest(table)]
     ELSE /\ ours' = [ours EXCEPT ![i] = Owned(i)]
          /\ UNCHANGED table
  /\ UNCHANGED <<theirs, cloexec>>

\* Prepare the descriptors of stream i.
Prepare(i) ==
  /\ parent = "prepare" /\ i = Stream
  /\ CASE mode[i] = "pipe" -> PIPE(i)
       [] mode[i] = "path" -> PATH(i)
       [] OTHER -> FD(i, mode[i])
  /\ parent' = IF i = 3 THEN "cloexec" ELSE "prepare"
  /\ UNCHANGED <<mode, blocking, before, sync, token>> /\ UNCHANGED childState /\ UNCHANGED result

\* MUTANT: the parent's ends of the pipes stay open.
Fail_keeps ==
  /\ parent \in {"prepare", "cloexec"}
  /\ close({ours[i] : i \in 1..3})
  /\ parent' = "error"
  /\ UNCHANGED <<mode, blocking, before, ours, theirs, sync, token>>
  /\ UNCHANGED childState /\ UNCHANGED result

\* A stream cannot be prepared or the flags cannot be set: close what was
\* prepared and return an error.
Fail ==
  /\ parent \in {"prepare", "cloexec"}
  /\ close(AllEnds)
  /\ parent' = "error"
  /\ UNCHANGED <<mode, blocking, before, ours, theirs, sync, token>>
  /\ UNCHANGED childState /\ UNCHANGED result

setCloexec ==
  /\ parent = "cloexec"
  /\ cloexec' = cloexec \cup (AllEnds \ {-1})
  /\ parent' = "pipe"
  /\ UNCHANGED <<mode, blocking, table, before, ours, theirs, sync, token>>
  /\ UNCHANGED childState /\ UNCHANGED result

\* cloneChild: the pipe that holds the child back until the hooks have run.
MakePipe ==
  /\ parent = "pipe"
  /\ IF blocking
     THEN /\ sync' = <<Lowest(table), Second(table)>>
          /\ table' = [table EXCEPT ![Lowest(table)] = File("r", 4),
                                    ![Second(table)] = File("w", 4)]
          /\ cloexec' = cloexec \cup {Lowest(table), Second(table)}
     ELSE UNCHANGED <<sync, table, cloexec>>
  /\ parent' = "clone"
  /\ UNCHANGED <<mode, blocking, before, ours, theirs, token>>
  /\ UNCHANGED childState /\ UNCHANGED result

Clone ==
  /\ parent = "clone"
  /\ ctable' = table /\ ccloexec' = cloexec /\ child' = "ends"
  /\ parent' = "close"
  /\ UNCHANGED <<mode, blocking, table, cloexec, before, ours, theirs, sync, token>>
  /\ UNCHANGED result

CloneFails ==
  /\ parent = "clone"
  /\ close(AllEnds \cup {sync[1], sync[2]})
  /\ parent' = "error"
  /\ UNCHANGED <<mode, blocking, before, ours, theirs, sync, token>>
  /\ UNCHANGED childState /\ UNCHANGED result

\* Close the child's ends, and the read end of the pipe.
CloseChildEnds ==
  /\ parent = "close"
  /\ close({ours[i] : i \in 1..3} \cup {sync[1]})
  /\ parent' = IF blocking THEN "hooks" ELSE "reap"
  /\ UNCHANGED <<mode, blocking, before, ours, theirs, sync, token>>
  /\ UNCHANGED childState /\ UNCHANGED result

ParentHooks ==
  /\ parent = "hooks"
  /\ parent' = "signal"
  /\ UNCHANGED <<mode, blocking, table, cloexec, before, ours, theirs, sync, token>>
  /\ UNCHANGED childState /\ UNCHANGED result

\* A hook fails, or the write to a child that is gone does: close the pipe,
\* then kill the child and return an error.
HookFails ==
  /\ parent = "hooks" \/ (parent = "signal" /\ child = "zombie")
  /\ close({sync[2]})
  /\ parent' = "kill"
  /\ UNCHANGED <<mode, blocking, before, ours, theirs, sync, token>>
  /\ UNCHANGED childState /\ UNCHANGED result

KillChild ==
  /\ parent = "kill"
  /\ child' = "zombie"
  /\ parent' = "error"
  /\ UNCHANGED <<mode, blocking, table, cloexec, before, ours, theirs, sync, token>>
  /\ UNCHANGED <<ctable, ccloexec>> /\ UNCHANGED result

Signal ==
  /\ parent = "signal" /\ child # "zombie"
  /\ token' = 1
  /\ close({sync[2]})
  /\ parent' = "reap"
  /\ UNCHANGED <<mode, blocking, before, ours, theirs, sync>>
  /\ UNCHANGED childState /\ UNCHANGED result

\* process::reap(pid).onAny(cleanup): dispatched to the reaper.
Return ==
  /\ parent = "reap"
  /\ promise' = "pending" /\ handle' = TRUE
  /\ parent' = "returned"
  /\ UNCHANGED <<mode, blocking, table, cloexec, before, ours, theirs, sync, token, reaping>>
  /\ UNCHANGED childState

-----------------------------------------------------------------------------
(* childMain, in the child *)

rest == <<mode, blocking, table, cloexec, before, ours, theirs, sync>>

\* Close the parent's ends of the pipes.
ChildEnds ==
  /\ child = "ends"
  /\ ctable' = Without(ctable, {theirs[i] : i \in 1..3} \cup {sync[2]})
  /\ ccloexec' = ccloexec \ ({theirs[i] : i \in 1..3} \cup {sync[2]})
  /\ child' = "dup2"
  /\ UNCHANGED rest /\ UNCHANGED <<token, parent>> /\ UNCHANGED result

\* dup2(n, m) clears the flag of m, but does nothing at all when n = m.
dup2(t, n, m) == [t EXCEPT ![m] = t[n]]
Redirect ==
  LET t1 == dup2(ctable, ours[1], 0)
      t2 == dup2(t1, ours[2], 1)
      t3 == dup2(t2, ours[3], 2)
  IN
  /\ child = "dup2"
  /\ ctable' = t3
  /\ ccloexec' = ccloexec \ {Std(i) : i \in {j \in 1..3 : ours[j] # Std(j)}}
  /\ child' = "copies"
  /\ UNCHANGED rest /\ UNCHANGED <<token, parent>> /\ UNCHANGED result

\* Close the copies, but not one that is stdin, stdout or stderr itself.
CloseCopies ==
  /\ child = "copies"
  /\ ctable' = Without(ctable, {ours[i] : i \in 1..3} \ Stdio)
  /\ ccloexec' = ccloexec \ ({ours[i] : i \in 1..3} \ Stdio)
  /\ child' = "wait"
  /\ UNCHANGED rest /\ UNCHANGED <<token, parent>> /\ UNCHANGED result

\* MUTANT: the end of file of the pipe is taken for the parent's byte.
Wait_eof ==
  /\ child = "wait"
  /\ IF blocking /\ token = 0
     THEN table[sync[2]] # File("w", 4)
     ELSE TRUE
  /\ child' = "hooks" /\ token' = 0
  /\ ctable' = Without(ctable, {sync[1]})
  /\ ccloexec' = ccloexec \ {sync[1]}
  /\ UNCHANGED rest /\ UNCHANGED parent /\ UNCHANGED result

\* Read the pipe: the parent's byte, or the end of file of a pipe whose write
\* ends are all closed, on which the child aborts.
Wait ==
  /\ child = "wait"
  /\ IF blocking /\ token = 0
     THEN /\ table[sync[2]] # File("w", 4)
          /\ child' = "zombie"
          /\ UNCHANGED <<ctable, ccloexec, token>>
     ELSE /\ child' = "hooks" /\ token' = 0
          /\ ctable' = Without(ctable, {sync[1]})
          /\ ccloexec' = ccloexec \ {sync[1]}
  /\ UNCHANGED rest /\ UNCHANGED parent /\ UNCHANGED result

\* The child hooks; a failing one aborts the child.
ChildHooks ==
  /\ child = "hooks"
  /\ child' \in {"exec", "zombie"}
  /\ UNCHANGED rest /\ UNCHANGED <<token, parent, ctable, ccloexec>> /\ UNCHANGED result

\* handleWhitelistFds closes what is neither stdio nor close-on-exec, and
\* execvpe what is close-on-exec; a failed exec exits.
Exec ==
  /\ child = "exec"
  /\ \/ /\ child' = "running"
        /\ ctable' = [n \in Numbers |->
             IF n \in Stdio /\ n \notin ccloexec THEN ctable[n] ELSE Unused]
     \/ child' = "zombie" /\ UNCHANGED ctable
  /\ UNCHANGED rest /\ UNCHANGED <<token, parent, ccloexec>> /\ UNCHANGED result

\* The program ends, or a signal ends the child before it runs.
Exit ==
  /\ child \notin {"none", "zombie", "reaped"}
  /\ child' = "zombie"
  /\ UNCHANGED rest /\ UNCHANGED <<token, parent, ctable, ccloexec>> /\ UNCHANGED result

-----------------------------------------------------------------------------
(* ReaperProcess, and the end of the Subprocess *)

\* internal::cleanup: the promise is completed, and the copy of the Subprocess
\* bound into the callback goes away; ~Data closes the parent's ends when it
\* was the last one.
Cleanup(status) ==
  /\ promise' = status
  /\ IF handle THEN UNCHANGED <<table, cloexec>>
     ELSE close({theirs[i] : i \in 1..3})

\* ReaperProcess::reap: the pid exists until it has been reaped.
reap ==
  /\ promise = "pending" /\ ~reaping
  /\ IF child # "reaped" THEN /\ reaping' = TRUE
                              /\ UNCHANGED <<promise, table, cloexec>>
     ELSE /\ reaping' = FALSE
          /\ Cleanup("unknown")
  /\ UNCHANGED <<mode, blocking, before, ours, theirs, sync, token, parent, handle>>
  /\ UNCHANGED childState

\* ReaperProcess::wait and notify, every interval.
waitpid ==
  /\ reaping /\ child \in {"zombie", "reaped"}
  /\ reaping' = FALSE
  /\ child' = "reaped"
  /\ Cleanup(IF child = "zombie" THEN "status" ELSE "unknown")
  /\ UNCHANGED <<mode, blocking, before, ours, theirs, sync, token, parent, handle,
                 ctable, ccloexec>>

\* The caller drops its copy of the Subprocess.
DropHandle ==
  /\ handle
  /\ handle' = FALSE
  /\ IF promise = "pending" THEN UNCHANGED <<table, cloexec>>
     ELSE close({theirs[i] : i \in 1..3})
  /\ UNCHANGED <<mode, blocking, before, ours, theirs, sync, token, parent, promise, reaping>>
  /\ UNCHANGED childState

Init ==
  /\ mode \in [1..3 -> Modes] /\ blocking \in BOOLEAN
  /\ \E shut \in Closed :
       table = [n \in Numbers |->
         CASE n \in Stdio -> IF n \in shut THEN Unused ELSE File("stdio", n + 1)
           [] n \in 3..5 -> IF mode[n - 2] = "owned" THEN File("owned", n - 2) ELSE Unused
           [] OTHER -> Unused]
  /\ cloexec = {} /\ before = table
  /\ ours = [i \in 1..3 |-> -1] /\ theirs = [i \in 1..3 |-> -1]
  /\ sync = <<-1, -1>> /\ token = 0 /\ parent = "prepare"
  /\ ctable = [n \in Numbers |-> Unused] /\ ccloexec = {} /\ child = "none"
  /\ promise = "none" /\ reaping = FALSE /\ handle = FALSE

InParent == \/ \E i \in 1..3 : Prepare(i)
            \/ Fail \/ setCloexec \/ MakePipe \/ Clone \/ CloneFails \/ CloseChildEnds
            \/ ParentHooks \/ HookFails \/ KillChild \/ Signal \/ Return
InChild == ChildEnds \/ Redirect \/ CloseCopies \/ Wait \/ ChildHooks \/ Exec \/ Exit
Reaper == reap \/ waitpid

Next == InParent \/ InChild \/ Reaper \/ DropHandle

Spec == Init /\ [][Next]_vars
FairSpec == Spec /\ WF_vars(InParent) /\ WF_vars(InChild) /\ WF_vars(Reaper)

-----------------------------------------------------------------------------
\* What the parent should be left with: what it had, without the descriptors
\* it gave away, and the parent's ends of the pipes while it owns them.
Left == [n \in Numbers |->
           IF \E i \in 1..3 : mode[i] = "owned" /\ n = Owned(i) THEN Unused ELSE before[n]]
Holding == handle \/ promise = "pending"
Expected == [n \in Numbers |->
               IF Holding /\ \E i \in 1..3 : theirs[i] = n
               THEN LET i == CHOOSE j \in 1..3 : theirs[j] = n
                    IN  File(IF i = 1 THEN "w" ELSE "r", i)
               ELSE Left[n]]

\* The program runs in the child only after every parent hook succeeded, with
\* stdin, stdout and stderr redirected as asked and no other descriptor; once
\* subprocess() has returned the parent holds its own ends of the pipes until
\* the child is reaped and nobody holds the Subprocess, and nothing else; a
\* child handed to the reaper is reaped with its own status.
SubprocessSafe ==
  /\ child = "running" =>
       /\ blocking => parent \in {"reap", "returned"}
       /\ \A n \in Numbers :
            ctable[n] = IF n \in Stdio THEN Wanted(n + 1) ELSE Unused
  /\ parent = "returned" => table = Expected
  /\ parent = "error" /\ child = "none" =>
       \A n \in Numbers : table[n] \in {Left[n], before[n]}
  /\ promise # "unknown"
  /\ promise = "status" => child = "reaped"

\* "We need to make sure that we do not close the file descriptor assigned to
\* stdin/stdout/stderr in case the parent has closed stdin/stdout/stderr when
\* calling this function" (posix/subprocess.hpp, childMain): the program's
\* standard streams are the ones asked for, whatever the parent has closed.
StdioRedirected ==
  child = "running" => \A n \in Stdio : ctable[n] = Wanted(n + 1)

\* Every child that subprocess() returned is reaped after it terminates, and
\* its status future completes.
Owed == promise = "pending" /\ child = "zombie"
Paid == promise = "status"
ChildrenReaped == Owed ~> Paid
=============================================================================

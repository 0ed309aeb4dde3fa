-------------------------------- MODULE Pipe --------------------------------
(***************************************************************************)
(* http::Pipe (src/http.cpp): an in-memory pipe between a writer and a     *)
(* reader on two threads.  A call is one critical section; the promises of *)
(* reads are completed after it, one after the other.                      *)
(***************************************************************************)
EXTENDS Naturals, Sequences, FiniteSets, Functions

CONSTANTS MaxReads, MaxWrites   \* bounds

Read == 1..MaxReads

VARIABLES
  readEnd, writeEnd,
  reads,         \* reads that wait for data
  writes,        \* data that waits for a read
  readerClosure,
  result,        \* result[i] = <<kind, data>> of the i-th read
  setting,       \* setting[t]: reads that a thread has still to complete
  issued, written,
  lost           \* data thrown away by the closed reader

vars == <<readEnd, writeEnd, reads, writes, readerClosure, result, setting,
          issued, written, lost>>

Is(kind) == <<kind, 0>>
Data(n) == <<"data", n>>
Idle(t) == setting[t] = <<>>

Init ==
  /\ readEnd = "OPEN" /\ writeEnd = "OPEN"
  /\ reads = <<>> /\ writes = <<>>
  /\ readerClosure = "pending"
  /\ result = [i \in Read |-> Is("none")]
  /\ setting = [t \in {"reader", "writer"} |-> <<>>]
  /\ issued = 0 /\ written = 0 /\ lost = {}

\* Reader::read.
DoRead ==
  LET i == issued + 1 IN
  /\ Idle("reader") /\ issued < MaxReads /\ issued' = i
  /\ result' = [result EXCEPT ![i] =
       IF readEnd = "CLOSED" THEN Is("closed")
       ELSE IF writes # <<>> THEN Data(writes[1])
       ELSE IF writeEnd = "CLOSED" THEN Is("eof")
       ELSE IF writeEnd = "FAILED" THEN Is("failed") ELSE Is("pending")]
  /\ writes' = IF readEnd = "OPEN" /\ writes # <<>> THEN Tail(writes) ELSE writes
  /\ reads' = IF readEnd = "OPEN" /\ writes = <<>> /\ writeEnd = "OPEN"
                THEN Append(reads, i) ELSE reads
  /\ UNCHANGED <<readEnd, writeEnd, readerClosure, setting, written, lost>>

SetAll(t, what) ==
  setting' = [setting EXCEPT ![t] = [k \in 1..Len(reads) |-> <<reads[k], Is(what)>>]]

\* Reader::close.
CloseReader ==
  /\ Idle("reader") /\ readEnd = "OPEN"
  /\ readEnd' = "CLOSED"
  /\ lost' = lost \cup Range(writes) /\ writes' = <<>>
  /\ SetAll("reader", "closed") /\ reads' = <<>>
  /\ readerClosure' = IF writeEnd = "OPEN" THEN "set" ELSE "discarded"
  /\ UNCHANGED <<writeEnd, result, issued, written>>

\* Writer::write of data that is not empty.
Write ==
  /\ Idle("writer") /\ writeEnd = "OPEN" /\ readEnd = "OPEN"
  /\ written < MaxWrites /\ written' = written + 1
  /\ IF reads = <<>>
       THEN writes' = Append(writes, written') /\ UNCHANGED <<reads, setting>>
       ELSE /\ setting' = [setting EXCEPT !["writer"] = <<<<reads[1], Data(written')>>>>]
            /\ reads' = Tail(reads) /\ writes' = writes
  /\ UNCHANGED <<readEnd, writeEnd, readerClosure, result, issued, lost>>

\* MUTANT: the pending reads stay in the queue.
CloseWriterKeepsReads(to, what) ==
  /\ Idle("writer") /\ writeEnd = "OPEN"
  /\ writeEnd' = to
  /\ SetAll("writer", what)
  /\ UNCHANGED <<reads, readEnd, writes, readerClosure, result, issued, written, lost>>

\* Writer::close and Writer::fail.
CloseWriter(to, what) ==
  /\ Idle("writer") /\ writeEnd = "OPEN"
  /\ writeEnd' = to
  /\ SetAll("writer", what) /\ reads' = <<>>
  /\ UNCHANGED <<readEnd, writes, readerClosure, result, issued, written, lost>>

\* A promise is completed after the critical section.
SetPromise(t) ==
  /\ setting[t] # <<>>
  /\ result' = [result EXCEPT ![setting[t][1][1]] = setting[t][1][2]]
  /\ setting' = [setting EXCEPT ![t] = Tail(@)]
  /\ UNCHANGED <<readEnd, writeEnd, reads, writes, readerClosure, issued, written,
                 lost>>

Promises == \E t \in DOMAIN setting : SetPromise(t)
Next ==
  \/ DoRead \/ CloseReader \/ Write
  \/ CloseWriter("CLOSED", "eof") \/ CloseWriter("FAILED", "failed")
  \/ Promises
Spec == Init /\ [][Next]_vars
Fairness == WF_vars(Promises)
FairSpec == Spec /\ Fairness

-----------------------------------------------------------------------------
\* What the i-th read gives, or will give once its promise is set.
Outcome(i) ==
  LET due == {s \in Range(setting["reader"]) \cup Range(setting["writer"]) :
                s[1] = i} IN
  IF due = {} THEN result[i] ELSE (CHOOSE s \in due : TRUE)[2]

(***************************************************************************)
(* Reads give the data in the order it was written, each piece once, and   *)
(* the end of file or a failure only after all data has been read.         *)
(***************************************************************************)
DataInOrder ==
  /\ \A i \in Read : Outcome(i)[1] \in {"eof", "failed"} => writes = <<>>
  /\ \A i, j \in Read : i < j /\ j <= issued =>
       /\ Outcome(i)[1] = "data" /\ Outcome(j)[1] = "data" =>
            Outcome(i)[2] < Outcome(j)[2]
       /\ Outcome(i)[1] \in {"eof", "failed"} => Outcome(j)[1] # "data"

\* Data is waiting, read, or thrown away by the reader: none is lost.
NothingLost ==
  1..written = Range(writes) \cup lost
                 \cup {n \in 1..written : \E i \in Read : Outcome(i) = Data(n)}

\* A read waits only while both ends are open and there is no data.
ReadsWait ==
  reads # <<>> => readEnd = "OPEN" /\ writeEnd = "OPEN" /\ writes = <<>>

\* http.hpp: the writer is notified exactly if the read end is closed first.
ClosureSaysWho ==
  readerClosure = "set" => readEnd = "CLOSED" /\ \A i \in Read : Outcome(i)[1] # "eof"

\* Once one of the ends is closed no read stays pending.
Owed == readEnd = "CLOSED" \/ writeEnd # "OPEN"
Paid == \A i \in Read : result[i][1] # "pending"
ReadsEnd == Owed ~> Paid

\* What reader and writer rely on, whoever closes first.
Safe == DataInOrder /\ NothingLost /\ ReadsWait /\ ClosureSaysWho
=============================================================================

------------------------------- MODULE Locks --------------------------------
(***************************************************************************)
(* process::Mutex (include/process/mutex.hpp) and process::ReadWriteLock   *)
(* (include/process/rwlock.hpp).  The critical section of each operation   *)
(* is one step; an unlock sets the promises of the waiters it unblocks     *)
(* after it, one at a time, and the callbacks of a promise may lock or     *)
(* unlock in between.                                                      *)
(***************************************************************************)
EXTENDS Naturals, Sequences, FiniteSets

CONSTANTS Client, MaxRequests

VARIABLES
  lockType,    \* "Mutex" or "ReadWriteLock" (a constant of the behaviour)
  read_locked, write_locked, waiters,   \* a Mutex has `locked' for write_locked
  status,      \* of each client: "idle", "waiting", "unblocked" or "held"
  type,        \* what it asked for last
  unblocked,   \* the clients whose promise its unlock has still to set
  ticket,      \* when it asked
  requests,    \* the number of requests so far
  aborted      \* has a CHECK failed?

vars == <<lockType, read_locked, write_locked, waiters, status, type, unblocked, ticket,
          requests, aborted>>

Init ==
  /\ lockType \in {"Mutex", "ReadWriteLock"}
  /\ read_locked = 0 /\ write_locked = FALSE /\ waiters = <<>>
  /\ status = [c \in Client |-> "idle"] /\ type = [c \in Client |-> "READ"]
  /\ unblocked = [c \in Client |-> <<>>] /\ ticket = [c \in Client |-> 0]
  /\ requests = 0 /\ aborted = FALSE

Ask(c, t, granted) ==
  /\ status[c] = "idle" /\ unblocked[c] = <<>> /\ requests < MaxRequests
  /\ requests' = requests + 1 /\ ticket' = [ticket EXCEPT ![c] = requests + 1]
  /\ type' = [type EXCEPT ![c] = t]
  /\ status' = [status EXCEPT ![c] = IF granted THEN "held" ELSE "waiting"]
  /\ waiters' = IF granted THEN waiters ELSE Append(waiters, c)
  /\ UNCHANGED <<lockType, unblocked, aborted>>

lock(c) ==
  /\ lockType = "Mutex" /\ Ask(c, "WRITE", ~write_locked)
  /\ write_locked' = TRUE /\ UNCHANGED read_locked

write_lock(c) ==
  LET free == ~write_locked /\ read_locked = 0 IN
  /\ lockType = "ReadWriteLock" /\ Ask(c, "WRITE", free)
  /\ write_locked' = (write_locked \/ free) /\ UNCHANGED read_locked

\* MUTANT: a reader joins the readers although a writer waits.
read_lock_barging(c) ==
  LET free == ~write_locked IN
  /\ lockType = "ReadWriteLock" /\ Ask(c, "READ", free)
  /\ read_locked' = (IF free THEN read_locked + 1 ELSE read_locked)
  /\ UNCHANGED write_locked

read_lock(c) ==
  LET free == ~write_locked /\ waiters = <<>> IN
  /\ lockType = "ReadWriteLock" /\ Ask(c, "READ", free)
  /\ read_locked' = (IF free THEN read_locked + 1 ELSE read_locked)
  /\ UNCHANGED write_locked

\* The first n waiters leave the queue, to be notified by c.
Unblock(c, n) ==
  LET group == {waiters[k] : k \in 1..n} IN
  /\ unblocked' = [unblocked EXCEPT ![c] = SubSeq(waiters, 1, n)]
  /\ waiters' = SubSeq(waiters, n + 1, Len(waiters))
  /\ status' = [d \in Client |-> IF d = c THEN "idle"
                                 ELSE IF d \in group THEN "unblocked" ELSE status[d]]
  /\ UNCHANGED <<lockType, type, ticket, requests>>

\* MUTANT: the mutex is free while the first waiter is being notified.
unlock_released(c) ==
  /\ lockType = "Mutex" /\ status[c] = "held"
  /\ Unblock(c, IF waiters = <<>> THEN 0 ELSE 1)
  /\ write_locked' = FALSE /\ UNCHANGED <<read_locked, aborted>>

\* The mutex goes to the first waiter, and is not free meanwhile.
unlock(c) ==
  /\ lockType = "Mutex" /\ status[c] = "held"
  /\ Unblock(c, IF waiters = <<>> THEN 0 ELSE 1)
  /\ write_locked' = (waiters # <<>>) /\ UNCHANGED <<read_locked, aborted>>

\* The group of readers at the front of the queue, or the writer there.
write_unlock(c) ==
  LET readers == {k \in 1..Len(waiters) : \A j \in 1..k : type[waiters[j]] = "READ"}
      writer == waiters # <<>> /\ readers = {}
  IN
  /\ lockType = "ReadWriteLock" /\ status[c] = "held" /\ type[c] = "WRITE"
  /\ aborted' = (aborted \/ ~write_locked \/ read_locked # 0)
  /\ Unblock(c, IF writer THEN 1 ELSE Cardinality(readers))
  /\ write_locked' = writer
  /\ read_locked' = IF readers # {} THEN Cardinality(readers) ELSE read_locked

read_unlock(c) ==
  LET last == read_locked = 1 /\ waiters # <<>> IN
  /\ status[c] = "held" /\ type[c] = "READ"
  /\ aborted' = (aborted \/ write_locked \/ read_locked = 0
                 \/ (last /\ type[Head(waiters)] # "WRITE"))
  /\ Unblock(c, IF last THEN 1 ELSE 0)
  /\ write_locked' = (write_locked \/ last)
  /\ read_locked' = read_locked - 1

\* MUTANT: the promise of the first waiter is dropped.
Notify_dropped(c) ==
  /\ unblocked[c] # <<>>
  /\ status' = status
  /\ unblocked' = [unblocked EXCEPT ![c] = Tail(@)]
  /\ UNCHANGED <<lockType, read_locked, write_locked, waiters, type, ticket, requests,
                 aborted>>

Notify(c) ==
  /\ unblocked[c] # <<>>
  /\ status' = [status EXCEPT ![Head(unblocked[c])] = "held"]
  /\ unblocked' = [unblocked EXCEPT ![c] = Tail(@)]
  /\ UNCHANGED <<lockType, read_locked, write_locked, waiters, type, ticket, requests,
                 aborted>>

Unlock(c) == unlock(c) \/ write_unlock(c) \/ read_unlock(c) \/ Notify(c)
Next == \E c \in Client : lock(c) \/ write_lock(c) \/ read_lock(c) \/ Unlock(c)
Spec == Init /\ [][Next]_vars
FairSpec == Spec /\ \A c \in Client : WF_vars(Unlock(c))

-----------------------------------------------------------------------------
TypeOK ==
  /\ read_locked \in 0..Cardinality(Client) /\ write_locked \in BOOLEAN
  /\ waiters \in Seq(Client)
  /\ status \in [Client -> {"idle", "waiting", "unblocked", "held"}]
  /\ type \in [Client -> {"READ", "WRITE"}] /\ unblocked \in [Client -> Seq(Client)]
  /\ requests \in 0..MaxRequests /\ ticket \in [Client -> 0..MaxRequests]

\* The clients that have the lock, whether they know it yet or not.
Owners(t) == {c \in Client : status[c] \in {"unblocked", "held"} /\ type[c] = t}

(***************************************************************************)
(* The fields say who owns the lock, a writer or a mutex's owner owns it   *)
(* alone, no CHECK fails, and nobody who asked later owns it while another *)
(* waits: nobody is overtaken, whatever the callbacks of the promises set  *)
(* by unlock, write_unlock and read_unlock do.                             *)
(***************************************************************************)
Safe ==
  /\ TypeOK /\ ~aborted
  /\ read_locked = Cardinality(Owners("READ"))
  /\ Cardinality(Owners("WRITE")) = IF write_locked THEN 1 ELSE 0
  /\ write_locked => read_locked = 0
  /\ \A c \in Owners("READ") \cup Owners("WRITE"), d \in Client :
       status[d] = "waiting" => ticket[c] < ticket[d]

\* Every request is granted, as every holder unlocks.
Owed(c) == c \in Client /\ status[c] = "waiting"
Paid(c) == c \in Client /\ status[c] = "held"
Granted == \A c \in Client : Owed(c) ~> Paid(c)
=============================================================================

--------------------------- MODULE ServicesProofs ---------------------------
(***************************************************************************)
(* Proofs, for every value of their constants, of the safety properties of *)
(* two components that run MCServices checks on small instances: the Mutex *)
(* and the ReadWriteLock (Locks), and io::poll with the event loop (Poll). *)
(***************************************************************************)
EXTENDS Locks, Integers, FiniteSetTheorems, WellFoundedInduction, TLAPS

-----------------------------------------------------------------------------
(* Locks: the inductive invariant.                                         *)

\* The types of the variables; no CHECK has failed.
LockTypes ==
  /\ lockType \in {"Mutex", "ReadWriteLock"} /\ read_locked \in Nat
  /\ write_locked \in BOOLEAN /\ waiters \in Seq(Client)
  /\ status \in [Client -> {"idle", "waiting", "unblocked", "held"}]
  /\ type \in [Client -> {"READ", "WRITE"}] /\ unblocked \in [Client -> Seq(Client)]
  /\ requests \in 0..MaxRequests /\ ticket \in [Client -> 0..MaxRequests]
  /\ aborted = FALSE

\* Those who wait are in the queue in the order in which they asked, all of them
\* after those who own the lock.
InLine ==
  /\ \A k \in 1..Len(waiters) : status[waiters[k]] = "waiting"
  /\ \A c \in Client : status[c] = "waiting" => \E k \in 1..Len(waiters) : waiters[k] = c
  /\ \A j, k \in 1..Len(waiters) : j < k => ticket[waiters[j]] < ticket[waiters[k]]
  /\ \A c \in Client : ticket[c] <= requests
  /\ \A c \in Client : status[c] \in {"unblocked", "held"} =>
       \A k \in 1..Len(waiters) : ticket[c] < ticket[waiters[k]]

\* A client that an unlock has still to notify is to be notified once.
Told(st, un) ==
  /\ \A c \in Client : \A k \in 1..Len(un[c]) : st[un[c][k]] = "unblocked"
  /\ \A c, d \in Client : \A j \in 1..Len(un[c]), k \in 1..Len(un[d]) :
       un[c][j] = un[d][k] => c = d /\ j = k
  /\ \A c \in Client : st[c] # "idle" => un[c] = <<>>

\* The fields say who owns the lock.
Fields ==
  /\ read_locked = Cardinality(Owners("READ"))
  /\ \A c, d \in Owners("WRITE") : c = d
  /\ write_locked <=> Owners("WRITE") # {}
  /\ write_locked => read_locked = 0

\* Why somebody waits.  A mutex has no readers.
Blocked ==
  /\ waiters # <<>> => write_locked \/ (read_locked # 0 /\ type[waiters[1]] = "WRITE")
  /\ lockType = "Mutex" =>
       read_locked = 0 /\ \A c \in Client : status[c] # "idle" => type[c] = "WRITE"

\* The inductive invariant.
LockInv == LockTypes /\ InLine /\ Told(status, unblocked) /\ Fields /\ Blocked

-----------------------------------------------------------------------------
\* A set of numbers that holds what is below its elements.
LEMMA PrefixSet ==
  ASSUME NEW m \in Nat, NEW R \in SUBSET (1..m), \A k \in R : \A j \in 1..k : j \in R
  PROVE  \E n \in 0..m : R = 1..n /\ Cardinality(R) = n
<1> DEFINE T == {k \in Nat : k # 0 /\ k \notin R}
<1>1. m + 1 \in T /\ T \subseteq Nat
  OBVIOUS
<1>2. \E x \in T : \A y \in T : ~(<<y, x>> \in OpToRel(<, Nat))
  BY <1>1, NatLessThanWellFounded, WFMin
<1>3. \A x \in Nat, y \in Nat : y < x => <<y, x>> \in OpToRel(<, Nat)
  BY Zenon DEF OpToRel
<1>4. PICK x \in T : \A y \in T : ~(y < x)
  BY <1>1, <1>2, <1>3
<1>5. x - 1 \in 0..m
  BY <1>1, <1>4
<1>6. R = 1..(x - 1)
  <2>1. ASSUME NEW k \in R PROVE k \in 1..(x - 1)
    <3>1. k \in Nat /\ k # 0 /\ x \in Nat /\ x # 0 /\ x \notin R
      BY <1>4
    <3>2. ~(x <= k)
      BY <3>1, <2>1
    <3> QED BY <3>1, <3>2
  <2>2. ASSUME NEW k \in 1..(x - 1) PROVE k \in R
    <3>1. k \in Nat /\ k # 0 /\ k < x
      BY <1>4
    <3> QED BY <1>4, <3>1
  <2> QED BY <2>1, <2>2
<1>7. Cardinality(1..(x - 1)) = x - 1
  <2>1. 1 \in Int /\ x - 1 \in Int
    BY <1>5
  <2>2. Cardinality(1..(x - 1)) = IF 1 > x - 1 THEN 0 ELSE (x - 1) - 1 + 1
    BY <2>1, FS_Interval
  <2> QED BY <1>5, <2>2
<1> QED BY <1>5, <1>6, <1>7

\* The elements of the first n places of a sequence without repetition.
LEMMA Distinct ==
  ASSUME NEW S, NEW s \in Seq(S), NEW n \in 0..Len(s),
         (\A j, k \in 1..n : s[j] = s[k] => j = k), NEW T, T = {s[k] : k \in 1..n}
  PROVE  IsFiniteSet(T) /\ Cardinality(T) = n
<1> DEFINE f == [k \in 1..n |-> s[k]]
<1>1. n \in Nat /\ n <= Len(s) /\ Len(s) \in Nat
  OBVIOUS
<1>2. IsFiniteSet(1..n) /\ Cardinality(1..n) = n
  <2>1. 1 \in Int /\ n \in Int
    BY <1>1
  <2>2. IsFiniteSet(1..n) /\ Cardinality(1..n) = IF 1 > n THEN 0 ELSE n - 1 + 1
    BY <2>1, FS_Interval
  <2> QED BY <1>1, <2>2
<1>3. f \in [1..n -> T] /\ \A t \in T : \E k \in 1..n : f[k] = t
  OBVIOUS
<1>4. f \in Surjection(1..n, T)
  BY <1>3 DEF Surjection
<1>5. \A j, k \in 1..n : f[j] = f[k] => j = k
  OBVIOUS
<1>6. f \in Injection(1..n, T)
  BY <1>3, <1>5 DEF Injection, IsInjective
<1>7. IsFiniteSet(T) /\ Cardinality(T) = Cardinality(1..n)
  BY <1>2, <1>4, <1>6, FS_Surjection
<1> QED BY <1>2, <1>7

\* Append, element by element.
LEMMA AppendFacts ==
  ASSUME NEW S, NEW s \in Seq(S), NEW e \in S
  PROVE  /\ Append(s, e) \in Seq(S) /\ Len(Append(s, e)) = Len(s) + 1
         /\ \A k \in 1..Len(s) : Append(s, e)[k] = s[k]
         /\ Append(s, e)[Len(s) + 1] = e
  OBVIOUS

\* The two parts of a sequence, element by element.
LEMMA TwoParts ==
  ASSUME NEW S, NEW s \in Seq(S), NEW n \in 0..Len(s),
         NEW a, a = SubSeq(s, 1, n), NEW b, b = SubSeq(s, n + 1, Len(s))
  PROVE  /\ a \in Seq(S) /\ Len(a) = n /\ \A k \in 1..n : a[k] = s[k] /\ k \in 1..Len(s)
         /\ b \in Seq(S) /\ \A k \in 1..Len(b) : b[k] = s[n + k] /\ n + k \in 1..Len(s)
         /\ \A k \in 1..Len(s) : k \in 1..n \/ (k - n \in 1..Len(b) /\ b[k - n] = s[k])
         /\ \A j, k \in 1..Len(b) : j < k => n + j < n + k
         /\ \A j \in 1..n, k \in 1..Len(b) : j < n + k /\ j # n + k
         /\ (b # <<>> => n + 1 \in 1..Len(s) /\ b[1] = s[n + 1] /\ s # <<>>)
  OBVIOUS

-----------------------------------------------------------------------------
\* What asking does to the queue and to those who own the lock: lock, write_lock and
\* read_lock grant a request only when nobody waits.
LEMMA AskKeeps ==
  ASSUME MaxRequests \in Nat, LockInv, NEW c \in Client, NEW t \in {"READ", "WRITE"},
         NEW g \in BOOLEAN, Ask(c, t, g), g => waiters = <<>>
  PROVE  /\ waiters' \in Seq(Client)
         /\ status' \in [Client -> {"idle", "waiting", "unblocked", "held"}]
         /\ type' \in [Client -> {"READ", "WRITE"}] /\ unblocked' \in [Client -> Seq(Client)]
         /\ requests' \in 0..MaxRequests /\ ticket' \in [Client -> 0..MaxRequests]
         /\ aborted' = FALSE /\ lockType' = lockType
         /\ InLine' /\ Told(status', unblocked')
         /\ type'[c] = t /\ \A d \in Client : d # c => type'[d] = type[d] /\ status'[d] = status[d]
         /\ \A u \in {"READ", "WRITE"} :
              /\ c \notin Owners(u)
              /\ Owners(u)' = IF g /\ u = t THEN Owners(u) \cup {c} ELSE Owners(u)
         /\ IF g THEN waiters' = waiters
            ELSE waiters' # <<>> /\ waiters'[1] = IF waiters = <<>> THEN c ELSE waiters[1]
<1>1. LockTypes /\ InLine /\ Told(status, unblocked)
  BY Zenon DEF LockInv
<1>2. /\ status[c] = "idle" /\ unblocked[c] = <<>> /\ requests < MaxRequests
      /\ requests' = requests + 1 /\ ticket' = [ticket EXCEPT ![c] = requests + 1]
      /\ type' = [type EXCEPT ![c] = t]
      /\ status' = [status EXCEPT ![c] = IF g THEN "held" ELSE "waiting"]
      /\ waiters' = IF g THEN waiters ELSE Append(waiters, c)
      /\ UNCHANGED <<lockType, unblocked, aborted>>
  BY Zenon DEF Ask
<1>3. PICK n : n = requests + 1
  OBVIOUS
<1>4. /\ requests' = n /\ n \in 0..MaxRequests /\ requests <= n
      /\ \A d \in Client : ticket[d] < n /\ ticket[d] <= n
      /\ n <= n
  <2>1. requests \in 0..MaxRequests /\ \A d \in Client : ticket[d] \in 0..MaxRequests /\ ticket[d] <= requests
    BY <1>1, Zenon DEF LockTypes, InLine
  <2> QED BY <1>2, <1>3, <2>1
<1>5. /\ ticket' \in [Client -> 0..MaxRequests] /\ ticket'[c] = n
      /\ \A d \in Client : d # c => ticket'[d] = ticket[d]
  BY <1>1, <1>2, <1>3, <1>4, Zenon DEF LockTypes
<1>6. /\ type' \in [Client -> {"READ", "WRITE"}] /\ type'[c] = t
      /\ \A d \in Client : d # c => type'[d] = type[d]
  BY <1>1, <1>2, Zenon DEF LockTypes
<1>7. /\ status' \in [Client -> {"idle", "waiting", "unblocked", "held"}]
      /\ status'[c] = IF g THEN "held" ELSE "waiting"
      /\ \A d \in Client : d # c => status'[d] = status[d]
  BY <1>1, <1>2, Zenon DEF LockTypes
<1>8. "idle" # "waiting" /\ "idle" # "unblocked" /\ "idle" # "held" /\ "waiting" # "held"
      /\ "waiting" # "unblocked" /\ "held" # "unblocked" /\ "READ" # "WRITE"
  OBVIOUS
<1>9. \A k \in 1..Len(waiters) : waiters[k] \in Client /\ waiters[k] # c
  <2>1. \A k \in 1..Len(waiters) : waiters[k] \in Client
    BY <1>1 DEF LockTypes
  <2> QED BY <1>1, <1>2, <1>8, <2>1, Zenon DEF InLine
<1>10. Told(status', unblocked')
  <2>1. \A d \in Client : \A k \in 1..Len(unblocked[d]) : unblocked[d][k] \in Client /\ unblocked[d][k] # c
    <3>1. \A d \in Client : \A k \in 1..Len(unblocked[d]) : unblocked[d][k] \in Client
      BY <1>1 DEF LockTypes
    <3> QED BY <1>1, <1>2, <1>8, <3>1, Zenon DEF Told
  <2>2. ASSUME NEW d \in Client, NEW k \in 1..Len(unblocked[d])
        PROVE  status'[unblocked[d][k]] = "unblocked"
    <3>1. status[unblocked[d][k]] = "unblocked"
      BY <1>1, Zenon DEF Told
    <3> QED BY <1>7, <2>1, <3>1, Zenon
  <2>3. \A d \in Client : status'[d] # "idle" => unblocked[d] = <<>>
    BY <1>1, <1>2, <1>7, Zenon DEF Told
  <2>4. /\ unblocked' = unblocked
        /\ \A a, d \in Client : \A j \in 1..Len(unblocked[a]), k \in 1..Len(unblocked[d]) :
             unblocked[a][j] = unblocked[d][k] => a = d /\ j = k
    BY <1>1, <1>2, Zenon DEF Told
  <2>5. Told(status', unblocked)
    BY <2>2, <2>3, <2>4, Zenon DEF Told
  <2> QED BY <2>4, <2>5, Zenon
<1>11. /\ waiters \in Seq(Client) /\ unblocked' \in [Client -> Seq(Client)]
       /\ aborted' = FALSE /\ lockType' = lockType
  BY <1>1, <1>2, Zenon DEF LockTypes
<1>12. \A u \in {"READ", "WRITE"} :
         /\ c \notin Owners(u)
         /\ Owners(u)' = IF g /\ u = t THEN Owners(u) \cup {c} ELSE Owners(u)
  <2>1. \A u \in {"READ", "WRITE"} : c \notin Owners(u)
    BY <1>2, <1>8, Zenon DEF Owners
  <2>2. ASSUME NEW u \in {"READ", "WRITE"}, NEW d \in Client, d # c
        PROVE  d \in Owners(u)' <=> d \in Owners(u)
    BY <1>6, <1>7, <2>2, Zenon DEF Owners
  <2>3. ASSUME NEW u \in {"READ", "WRITE"} PROVE c \in Owners(u)' <=> g /\ u = t
    BY <1>6, <1>7, <1>8, Zenon DEF Owners
  <2>4. \A u : (\A d \in Owners(u)' : d \in Client) /\ (\A d \in Owners(u) : d \in Client)
    BY Zenon DEF Owners
  <2>5. ASSUME NEW u \in {"READ", "WRITE"}
        PROVE  Owners(u)' = IF g /\ u = t THEN Owners(u) \cup {c} ELSE Owners(u)
    <3>1. CASE g /\ u = t
      <4>1. \A d \in Owners(u)' : d \in Owners(u) \cup {c}
        BY <2>2, <2>4, Zenon
      <4>2. \A d \in Owners(u) \cup {c} : d \in Owners(u)'
        BY <2>1, <2>2, <2>3, <2>4, <3>1, Zenon
      <4> QED BY <3>1, <4>1, <4>2, Zenon
    <3>2. CASE ~(g /\ u = t)
      <4>1. \A d : d \in Owners(u)' <=> d \in Owners(u)
        BY <2>1, <2>2, <2>3, <2>4, <3>2, Zenon
      <4> QED BY <3>2, <4>1, Zenon
    <3> QED BY <3>1, <3>2, Zenon
  <2> QED BY <2>1, <2>5, Zenon
<1>13. CASE g
  <2>1. waiters' = waiters /\ waiters = <<>> /\ \A k \in 1..Len(waiters) : FALSE
    BY <1>2, <1>13
  <2>2. InLine'
    <3>1. \A d \in Client : ticket'[d] <= n
      BY <1>4, <1>5, Zenon
    <3>2. \A d \in Client : status'[d] # "waiting"
      BY <1>1, <1>7, <1>8, <1>13, <2>1, Zenon DEF InLine
    <3> QED BY <1>4, <2>1, <3>1, <3>2, Zenon DEF InLine
  <2> QED BY <1>4, <1>5, <1>6, <1>7, <1>10, <1>11, <1>12, <1>13, <2>1, <2>2, Zenon
<1>14. CASE ~g
  <2>1. PICK w : w = Append(waiters, c)
    OBVIOUS
  <2>2. waiters' = w
    BY <1>2, <1>14, <2>1, Zenon
  <2>3. /\ w \in Seq(Client) /\ w # <<>>
        /\ w[1] = IF waiters = <<>> THEN c ELSE waiters[1]
        /\ \A k \in 1..Len(w) : (k \in 1..Len(waiters) /\ w[k] = waiters[k]) \/ (k = Len(waiters) + 1 /\ w[k] = c)
        /\ \A k \in 1..Len(waiters) : k \in 1..Len(w) /\ w[k] = waiters[k]
        /\ \A k \in 1..Len(waiters) : ~(Len(waiters) + 1 < k)
        /\ Len(waiters) + 1 \in 1..Len(w) /\ w[Len(waiters) + 1] = c
        /\ ~(Len(waiters) + 1 < Len(waiters) + 1)
    BY <1>11, <2>1, AppendFacts
  <2>4. InLine'
    <3>1. ASSUME NEW k \in 1..Len(w) PROVE status'[w[k]] = "waiting"
      <4>1. CASE k \in 1..Len(waiters) /\ w[k] = waiters[k]
        BY <1>1, <1>7, <1>9, <4>1, Zenon DEF InLine
      <4>2. CASE w[k] = c
        BY <1>7, <1>14, <4>2, Zenon
      <4> QED BY <2>3, <4>1, <4>2, Zenon
    <3>2. ASSUME NEW d \in Client, status'[d] = "waiting" PROVE \E k \in 1..Len(w) : w[k] = d
      <4>1. CASE d = c
        BY <2>3, <4>1, Zenon
      <4>2. CASE d # c
        <5>1. PICK k \in 1..Len(waiters) : waiters[k] = d
          BY <1>1, <1>7, <3>2, <4>2, Zenon DEF InLine
        <5> QED BY <2>3, <5>1, Zenon
      <4> QED BY <4>1, <4>2, Zenon
    <3>3. ASSUME NEW j \in 1..Len(w), NEW k \in 1..Len(w), j < k PROVE ticket'[w[j]] < ticket'[w[k]]
      <4>1. j \in 1..Len(waiters) /\ w[j] = waiters[j]
        BY <2>3, <3>3, Zenon
      <4>2. ticket'[w[j]] = ticket[waiters[j]]
        BY <1>5, <1>9, <4>1, Zenon
      <4>3. CASE k \in 1..Len(waiters) /\ w[k] = waiters[k]
        BY <1>1, <1>5, <1>9, <3>3, <4>1, <4>2, <4>3, Zenon DEF InLine
      <4>4. CASE w[k] = c
        BY <1>4, <1>5, <1>9, <4>1, <4>2, <4>4, Zenon
      <4> QED BY <2>3, <4>3, <4>4, Zenon
    <3>4. \A d \in Client : ticket'[d] <= n
      BY <1>4, <1>5, Zenon
    <3>5. ASSUME NEW d \in Client, status'[d] \in {"unblocked", "held"}, NEW k \in 1..Len(w)
          PROVE  ticket'[d] < ticket'[w[k]]
      <4>1. d # c /\ status[d] \in {"unblocked", "held"} /\ ticket'[d] = ticket[d]
        BY <1>5, <1>7, <1>8, <1>14, <3>5, Zenon
      <4>2. CASE k \in 1..Len(waiters) /\ w[k] = waiters[k]
        BY <1>1, <1>5, <1>9, <4>1, <4>2, Zenon DEF InLine
      <4>3. CASE w[k] = c
        BY <1>4, <1>5, <4>1, <4>3, Zenon
      <4> QED BY <2>3, <4>2, <4>3, Zenon
    <3> QED BY <1>4, <2>2, <3>1, <3>2, <3>3, <3>4, <3>5, Zenon DEF InLine
  <2> QED BY <1>4, <1>5, <1>6, <1>7, <1>10, <1>11, <1>12, <1>14, <2>2, <2>3, <2>4, Zenon
<1> QED BY <1>13, <1>14, Zenon

\* Nobody is twice in the queue.
LEMMA OnceInLine ==
  ASSUME MaxRequests \in Nat, LockTypes, InLine
  PROVE  /\ \A k \in 1..Len(waiters) : waiters[k] \in Client
         /\ \A j, k \in 1..Len(waiters) : waiters[j] = waiters[k] => j = k
<1>1. \A k \in 1..Len(waiters) : waiters[k] \in Client
  BY DEF LockTypes
<1>2. \A k \in 1..Len(waiters) : ticket[waiters[k]] \in 0..MaxRequests
  BY <1>1, Zenon DEF LockTypes
<1>3. ASSUME NEW j \in 1..Len(waiters), NEW k \in 1..Len(waiters), j < k, waiters[j] = waiters[k]
      PROVE  FALSE
  <2>1. ticket[waiters[j]] < ticket[waiters[k]]
    BY <1>3, Zenon DEF InLine
  <2>2. ticket[waiters[k]] < ticket[waiters[k]] /\ ticket[waiters[k]] \in 0..MaxRequests
    BY <1>2, <1>3, <2>1, Zenon
  <2> QED BY <2>2
<1>4. \A j, k \in 1..Len(waiters) : j < k \/ k < j \/ j = k
  BY DEF LockTypes
<1> QED BY <1>1, <1>3, <1>4, Zenon

\* What an unlock does: the owner leaves and the first n of the queue own the lock.
LEMMA UnblockKeeps ==
  ASSUME MaxRequests \in Nat, LockInv, NEW c \in Client, status[c] = "held",
         NEW n \in 0..Len(waiters), Unblock(c, n)
  PROVE  /\ waiters' \in Seq(Client)
         /\ status' \in [Client -> {"idle", "waiting", "unblocked", "held"}]
         /\ unblocked' \in [Client -> Seq(Client)]
         /\ UNCHANGED <<lockType, type, ticket, requests>>
         /\ InLine' /\ Told(status', unblocked')
         /\ \A d \in Client : status'[d] # "idle" => status[d] # "idle"
         /\ waiters' # <<>> => n + 1 \in 1..Len(waiters) /\ waiters'[1] = waiters[n + 1] /\ waiters # <<>>
         /\ \A u \in {"READ", "WRITE"} : \A d :
              d \in Owners(u)' <=>
                (d \in Owners(u) /\ d # c) \/ \E k \in 1..n : waiters[k] = d /\ type[d] = u
<1>1. LockTypes /\ InLine /\ Told(status, unblocked)
  BY Zenon DEF LockInv
<1>2. PICK a, b : a = SubSeq(waiters, 1, n) /\ b = SubSeq(waiters, n + 1, Len(waiters))
  OBVIOUS
<1>3. waiters \in Seq(Client) /\ unblocked \in [Client -> Seq(Client)]
  BY <1>1, Zenon DEF LockTypes
<1>4. PICK G : G = {waiters[k] : k \in 1..n}
  OBVIOUS
<1>5. /\ unblocked' = [unblocked EXCEPT ![c] = a] /\ waiters' = b
      /\ status' = [d \in Client |-> IF d = c THEN "idle"
                                     ELSE IF d \in G THEN "unblocked" ELSE status[d]]
      /\ UNCHANGED <<lockType, type, ticket, requests>>
  BY <1>2, <1>4, Zenon DEF Unblock
<1>6. /\ a \in Seq(Client) /\ Len(a) = n /\ \A k \in 1..n : a[k] = waiters[k] /\ k \in 1..Len(waiters)
      /\ b \in Seq(Client) /\ \A k \in 1..Len(b) : b[k] = waiters[n + k] /\ n + k \in 1..Len(waiters)
      /\ \A k \in 1..Len(waiters) : k \in 1..n \/ (k - n \in 1..Len(b) /\ b[k - n] = waiters[k])
      /\ \A j, k \in 1..Len(b) : j < k => n + j < n + k
      /\ \A j \in 1..n, k \in 1..Len(b) : j < n + k /\ j # n + k
      /\ (b # <<>> => n + 1 \in 1..Len(waiters) /\ b[1] = waiters[n + 1] /\ waiters # <<>>)
  BY <1>2, <1>3, TwoParts
<1>7. /\ \A k \in 1..Len(waiters) : waiters[k] \in Client
      /\ \A j, k \in 1..Len(waiters) : waiters[j] = waiters[k] => j = k
  BY <1>1, OnceInLine, Zenon
<1>8. /\ "idle" # "waiting" /\ "idle" # "unblocked" /\ "idle" # "held" /\ "waiting" # "held"
      /\ "waiting" # "unblocked" /\ "held" # "unblocked"
  OBVIOUS
<1>9. /\ \A d : d \in G <=> \E k \in 1..n : waiters[k] = d
      /\ \A d \in G : d \in Client /\ status[d] = "waiting" /\ d # c
  <2>1. \A d : d \in G <=> \E k \in 1..n : waiters[k] = d
    BY <1>4, Zenon
  <2>2. ASSUME NEW d \in G PROVE d \in Client /\ status[d] = "waiting" /\ d # c
    <3>1. PICK k \in 1..n : waiters[k] = d
      BY <2>1, Zenon
    <3>2. k \in 1..Len(waiters)
      BY <1>6, Zenon
    <3>3. status[waiters[k]] = "waiting" /\ waiters[k] \in Client
      BY <1>1, <1>7, <3>2, Zenon DEF InLine
    <3>4. status[d] = "waiting" /\ d \in Client
      BY <3>1, <3>3, Zenon
    <3> QED BY <1>8, <3>4, Zenon
  <2> QED BY <2>1, <2>2, Zenon
<1>10. /\ status' \in [Client -> {"idle", "waiting", "unblocked", "held"}]
       /\ status'[c] = "idle" /\ \A d \in G : status'[d] = "unblocked"
       /\ \A d \in Client : d # c /\ d \notin G => status'[d] = status[d]
  <2>1. \A d \in Client : status'[d] = IF d = c THEN "idle" ELSE IF d \in G THEN "unblocked" ELSE status[d]
    BY <1>5, Zenon
  <2>2. status' \in [Client -> {"idle", "waiting", "unblocked", "held"}]
    BY <1>1, <1>5 DEF LockTypes
  <2> QED BY <1>9, <2>1, <2>2, Zenon
<1>11. /\ unblocked' \in [Client -> Seq(Client)] /\ unblocked'[c] = a
       /\ \A d \in Client : d # c => unblocked'[d] = unblocked[d]
  BY <1>3, <1>5, <1>6, Zenon
<1>12. unblocked[c] = <<>>
  BY <1>1, <1>8, Zenon DEF Told
<1>13. ASSUME NEW d \in Client, NEW k \in 1..Len(unblocked[d])
       PROVE  /\ unblocked[d][k] \in Client /\ status[unblocked[d][k]] = "unblocked"
              /\ unblocked[d][k] # c /\ unblocked[d][k] \notin G
  <2>1. unblocked[d][k] \in Client
    BY <1>3
  <2>2. status[unblocked[d][k]] = "unblocked"
    BY <1>1, Zenon DEF Told
  <2> QED BY <1>8, <1>9, <2>1, <2>2, Zenon
<1>14. Told(status', unblocked')
  <2>1. PICK st, un : st = status' /\ un = unblocked'
    OBVIOUS
  <2>2. /\ st[c] = "idle" /\ (\A d \in G : st[d] = "unblocked") /\ un[c] = a
        /\ \A d \in Client : d # c /\ d \notin G => st[d] = status[d]
        /\ \A d \in Client : d # c => un[d] = unblocked[d]
    BY <1>10, <1>11, <2>1, Zenon
  <2>3. ASSUME NEW d \in Client, NEW k \in 1..Len(un[d]) PROVE st[un[d][k]] = "unblocked"
    <3>1. CASE d = c
      <4>1. k \in 1..n /\ un[d][k] = waiters[k]
        BY <1>6, <2>2, <2>3, <3>1, Zenon
      <4> QED BY <1>9, <2>2, <4>1, Zenon
    <3>2. CASE d # c
      <4>1. un[d] = unblocked[d] /\ k \in 1..Len(unblocked[d])
        BY <2>2, <2>3, <3>2, Zenon
      <4>2. PICK x : x = unblocked[d][k]
        OBVIOUS
      <4>3. x \in Client /\ x # c /\ x \notin G /\ status[x] = "unblocked"
        BY <1>13, <4>1, <4>2, Zenon
      <4>4. st[x] = "unblocked" /\ un[d][k] = x
        BY <2>2, <4>1, <4>2, <4>3, Zenon
      <4> QED BY <4>4, Zenon
    <3> QED BY <3>1, <3>2, Zenon
  <2>4. ASSUME NEW d \in Client, NEW k \in 1..Len(un[d])
        PROVE  IF d = c THEN k \in 1..n /\ un[d][k] = waiters[k] /\ un[d][k] \in G
               ELSE k \in 1..Len(unblocked[d]) /\ un[d][k] = unblocked[d][k] /\ un[d][k] \notin G
    <3>1. CASE d = c
      <4>1. k \in 1..n /\ un[d][k] = waiters[k]
        BY <1>6, <2>2, <2>4, <3>1, Zenon
      <4> QED BY <1>9, <3>1, <4>1, Zenon
    <3>2. CASE d # c
      <4>1. un[d] = unblocked[d] /\ k \in 1..Len(unblocked[d])
        BY <2>2, <2>4, <3>2, Zenon
      <4> QED BY <1>13, <3>2, <4>1, Zenon
    <3> QED BY <3>1, <3>2, Zenon
  <2>5. ASSUME NEW d \in Client, NEW e \in Client, NEW j \in 1..Len(un[d]), NEW k \in 1..Len(un[e]),
               un[d][j] = un[e][k]
        PROVE  d = e /\ j = k
    <3>1. CASE d = c
      <4>1. e = c
        BY <2>4, <2>5, <3>1, Zenon
      <4>2. j \in 1..Len(waiters) /\ k \in 1..Len(waiters) /\ waiters[j] = waiters[k]
        BY <1>6, <2>4, <2>5, <3>1, <4>1, Zenon
      <4> QED BY <1>7, <3>1, <4>1, <4>2, Zenon
    <3>2. CASE d # c
      <4>1. e # c
        BY <2>4, <2>5, <3>2, Zenon
      <4>2. /\ j \in 1..Len(unblocked[d]) /\ k \in 1..Len(unblocked[e])
            /\ unblocked[d][j] = unblocked[e][k]
        BY <2>4, <2>5, <3>2, <4>1, Zenon
      <4>3. \A p, q \in Client : \A l \in 1..Len(unblocked[p]), m \in 1..Len(unblocked[q]) :
              unblocked[p][l] = unblocked[q][m] => p = q /\ l = m
        BY <1>1, Zenon DEF Told
      <4>4. unblocked[d][j] = unblocked[e][k] => d = e /\ j = k
        BY ONLY <4>2, <4>3, d \in Client, e \in Client, Zenon
      <4> QED BY <4>2, <4>4, Zenon
    <3> QED BY <3>1, <3>2, Zenon
  <2>6. ASSUME NEW d \in Client, st[d] # "idle" PROVE un[d] = <<>>
    <3>1. d # c /\ status[d] # "idle"
      BY <1>8, <1>9, <2>2, <2>6, Zenon
    <3> QED BY <1>1, <2>2, <3>1, Zenon DEF Told
  <2>7. Told(st, un)
    BY <2>3, <2>5, <2>6, Zenon DEF Told
  <2> QED BY <2>1, <2>7, Zenon
<1>15. InLine'
  <2>1. ASSUME NEW k \in 1..Len(b)
        PROVE  b[k] \in Client /\ b[k] = waiters[n + k] /\ b[k] # c /\ b[k] \notin G /\ status'[b[k]] = "waiting"
    <3>1. n + k \in 1..Len(waiters) /\ b[k] = waiters[n + k]
      BY <1>6, Zenon
    <3>2. status[b[k]] = "waiting" /\ b[k] \in Client
      <4>1. PICK m \in 1..Len(waiters) : b[k] = waiters[m]
        BY <3>1, Zenon
      <4>2. status[waiters[m]] = "waiting" /\ waiters[m] \in Client
        BY <1>1, <1>7, <4>1, Zenon DEF InLine
      <4> QED BY <4>1, <4>2, Zenon
    <3>3. b[k] \notin G
      <4>1. ASSUME NEW j \in 1..n, waiters[j] = waiters[n + k] PROVE FALSE
        BY <1>6, <1>7, <3>1, <4>1, Zenon
      <4> QED BY <1>9, <3>1, <4>1, Zenon
    <3> QED BY <1>8, <1>10, <3>1, <3>2, <3>3, Zenon
  <2>2. ASSUME NEW d \in Client, status'[d] = "waiting" PROVE \E k \in 1..Len(b) : b[k] = d
    <3>1. d # c /\ d \notin G /\ status[d] = "waiting"
      BY <1>8, <1>10, <2>2, Zenon
    <3>2. PICK k \in 1..Len(waiters) : waiters[k] = d
      BY <1>1, <3>1, Zenon DEF InLine
    <3>3. k \notin 1..n
      BY <1>9, <3>1, <3>2, Zenon
    <3> QED BY <1>6, <3>2, <3>3, Zenon
  <2>3. ASSUME NEW j \in 1..Len(b), NEW k \in 1..Len(b), j < k PROVE ticket[b[j]] < ticket[b[k]]
    <3>1. PICK l \in 1..Len(waiters), m \in 1..Len(waiters) :
            l < m /\ b[j] = waiters[l] /\ b[k] = waiters[m]
      <4>1. n + j < n + k
        BY <1>6, <2>3, Zenon
      <4>2. b[j] = waiters[n + j] /\ n + j \in 1..Len(waiters)
        BY <1>6, Zenon
      <4>3. b[k] = waiters[n + k] /\ n + k \in 1..Len(waiters)
        BY <1>6, Zenon
      <4> QED BY <4>1, <4>2, <4>3, Zenon
    <3>2. ticket[waiters[l]] < ticket[waiters[m]]
      BY <1>1, <3>1, Zenon DEF InLine
    <3> QED BY <3>1, <3>2, Zenon
  <2>4. ASSUME NEW d \in Client, status'[d] \in {"unblocked", "held"}, NEW k \in 1..Len(b)
        PROVE  ticket[d] < ticket[b[k]]
    <3>1. CASE d \in G
      <4>1. PICK j \in 1..n : waiters[j] = d
        BY <1>9, <3>1, Zenon
      <4>2. PICK m \in 1..Len(waiters) : j < m /\ b[k] = waiters[m]
        BY <1>6, Zenon
      <4>3. j \in 1..Len(waiters)
        BY <1>6, Zenon
      <4>4. ticket[waiters[j]] < ticket[waiters[m]]
        BY <1>1, <4>2, <4>3, Zenon DEF InLine
      <4> QED BY <4>1, <4>2, <4>4, Zenon
    <3>2. CASE d \notin G
      <4>1. status[d] \in {"unblocked", "held"}
        BY <1>8, <1>10, <2>4, <3>2, Zenon
      <4>2. PICK m \in 1..Len(waiters) : b[k] = waiters[m]
        BY <1>6, Zenon
      <4>3. ticket[d] < ticket[waiters[m]]
        BY <1>1, <4>1, Zenon DEF InLine
      <4> QED BY <4>2, <4>3, Zenon
    <3> QED BY <3>1, <3>2, Zenon
  <2>5. \A d \in Client : ticket[d] <= requests
    BY <1>1, Zenon DEF InLine
  <2> QED BY <1>5, <2>1, <2>2, <2>3, <2>4, <2>5, Zenon DEF InLine
<1>16. ASSUME NEW u \in {"READ", "WRITE"}, NEW d
       PROVE  d \in Owners(u)' <=>
                (d \in Owners(u) /\ d # c) \/ \E k \in 1..n : waiters[k] = d /\ type[d] = u
  <2>1. d \in Owners(u)' <=> d \in Client /\ status'[d] \in {"unblocked", "held"} /\ type[d] = u
    BY <1>5, Zenon DEF Owners
  <2>2. d \in Owners(u) <=> d \in Client /\ status[d] \in {"unblocked", "held"} /\ type[d] = u
    BY Zenon DEF Owners
  <2>3. CASE d \in G
    BY <1>8, <1>9, <1>10, <2>1, <2>2, <2>3, Zenon
  <2>4. CASE d = c
    BY <1>8, <1>9, <1>10, <2>1, <2>2, <2>4, Zenon
  <2>5. CASE d # c /\ d \notin G
    BY <1>9, <1>10, <2>1, <2>2, <2>5, Zenon
  <2> QED BY <2>3, <2>4, <2>5, Zenon
<1>17. \A d \in Client : status'[d] # "idle" => status[d] # "idle"
  BY <1>8, <1>9, <1>10, Zenon
<1> QED BY <1>5, <1>6, <1>10, <1>11, <1>14, <1>15, <1>16, <1>17, Zenon

\* The owners of a lock are finitely many.
LEMMA OwnersFinite ==
  ASSUME IsFiniteSet(Client), NEW u
  PROVE  /\ Owners(u) \subseteq Client /\ IsFiniteSet(Owners(u))
         /\ Cardinality(Owners(u)) \in Nat /\ Cardinality(Owners(u)) <= Cardinality(Client)
         /\ Cardinality(Owners(u)) = 0 <=> Owners(u) = {}
<1>1. PICK O : O = Owners(u)
  OBVIOUS
<1>2. O \in SUBSET Client
  BY <1>1, Zenon DEF Owners
<1>3. IsFiniteSet(O) /\ Cardinality(O) <= Cardinality(Client)
  BY <1>2, FS_Subset, Zenon
<1>4. Cardinality(O) \in Nat /\ (Cardinality(O) = 0 <=> O = {})
  BY <1>3, FS_CardinalityType, FS_EmptySet, Zenon
<1> QED BY <1>1, <1>2, <1>3, <1>4, Zenon

\* Mutex::lock.
LEMMA LockKeeps ==
  ASSUME IsFiniteSet(Client), MaxRequests \in Nat, LockInv, NEW c \in Client, lock(c)
  PROVE  LockInv'
<1>1. LockTypes /\ Fields /\ Blocked
  BY Zenon DEF LockInv
<1>2. /\ lockType = "Mutex" /\ write_locked \in BOOLEAN /\ read_locked \in Nat
      /\ write_locked' = TRUE /\ read_locked' = read_locked /\ read_locked = 0
      /\ Ask(c, "WRITE", ~write_locked)
  BY <1>1, Zenon DEF lock, LockTypes, Blocked
<1>3. PICK g \in BOOLEAN : g = ~write_locked
  BY <1>2, Zenon
<1>4. Ask(c, "WRITE", g) /\ (g => waiters = <<>>)
  BY <1>1, <1>2, <1>3, Zenon DEF Blocked
<1>5. "WRITE" \in {"READ", "WRITE"} /\ "READ" \in {"READ", "WRITE"} /\ "READ" # "WRITE"
  OBVIOUS
<1>6. /\ waiters' \in Seq(Client)
      /\ status' \in [Client -> {"idle", "waiting", "unblocked", "held"}]
      /\ type' \in [Client -> {"READ", "WRITE"}] /\ unblocked' \in [Client -> Seq(Client)]
      /\ requests' \in 0..MaxRequests /\ ticket' \in [Client -> 0..MaxRequests]
      /\ aborted' = FALSE /\ lockType' = lockType
      /\ InLine' /\ Told(status', unblocked')
      /\ type'[c] = "WRITE"
      /\ \A d \in Client : d # c => type'[d] = type[d] /\ status'[d] = status[d]
      /\ Owners("READ")' = Owners("READ")
      /\ Owners("WRITE")' = IF g THEN Owners("WRITE") \cup {c} ELSE Owners("WRITE")
  BY <1>4, <1>5, AskKeeps, Zenon
<1>7. LockTypes'
  BY <1>1, <1>2, <1>6, Zenon DEF LockTypes
<1>8. Fields'
  <2>1. PICK A, B : A = Owners("WRITE") /\ B = Owners("WRITE")'
    OBVIOUS
  <2>2. (\A d, e \in B : d = e) /\ B # {}
    <3>1. CASE g
      <4>1. A = {}
        BY <1>1, <1>3, <2>1, <3>1, Zenon DEF Fields
      <4> QED BY <1>6, <2>1, <3>1, <4>1, Zenon
    <3>2. CASE ~g
      BY <1>1, <1>2, <1>3, <1>6, <2>1, <3>2, Zenon DEF Fields
    <3> QED BY <3>1, <3>2, Zenon
  <2>3. read_locked' = Cardinality(Owners("READ")')
    BY <1>1, <1>2, <1>6, Zenon DEF Fields
  <2> QED BY <1>2, <2>1, <2>2, <2>3, Zenon DEF Fields
<1>9. Blocked'
  BY <1>1, <1>2, <1>6, Zenon DEF Blocked
<1> QED BY <1>6, <1>7, <1>8, <1>9, Zenon DEF LockInv

\* ReadWriteLock::write_lock.
LEMMA WriteLockKeeps ==
  ASSUME IsFiniteSet(Client), MaxRequests \in Nat, LockInv, NEW c \in Client, write_lock(c)
  PROVE  LockInv'
<1>1. LockTypes /\ Fields /\ Blocked
  BY Zenon DEF LockInv
<1>2. PICK g \in BOOLEAN : g = (~write_locked /\ read_locked = 0)
  BY <1>1, Zenon DEF LockTypes
<1>3. /\ lockType = "ReadWriteLock" /\ write_locked \in BOOLEAN /\ read_locked \in Nat
      /\ write_locked' = (write_locked \/ g) /\ read_locked' = read_locked
      /\ Ask(c, "WRITE", g) /\ (g => waiters = <<>>)
  BY <1>1, <1>2, Zenon DEF write_lock, LockTypes, Blocked
<1>4. /\ "WRITE" \in {"READ", "WRITE"} /\ "READ" \in {"READ", "WRITE"} /\ "READ" # "WRITE"
      /\ "ReadWriteLock" # "Mutex"
  OBVIOUS
<1>5. /\ waiters' \in Seq(Client)
      /\ status' \in [Client -> {"idle", "waiting", "unblocked", "held"}]
      /\ type' \in [Client -> {"READ", "WRITE"}] /\ unblocked' \in [Client -> Seq(Client)]
      /\ requests' \in 0..MaxRequests /\ ticket' \in [Client -> 0..MaxRequests]
      /\ aborted' = FALSE /\ lockType' = lockType
      /\ InLine' /\ Told(status', unblocked')
      /\ type'[c] = "WRITE"
      /\ \A d \in Client : d # c => type'[d] = type[d] /\ status'[d] = status[d]
      /\ Owners("READ")' = Owners("READ")
      /\ Owners("WRITE")' = IF g THEN Owners("WRITE") \cup {c} ELSE Owners("WRITE")
      /\ ~g => waiters'[1] = IF waiters = <<>> THEN c ELSE waiters[1]
  BY <1>3, <1>4, AskKeeps, Zenon
<1>6. LockTypes'
  BY <1>1, <1>3, <1>5, Zenon DEF LockTypes
<1>7. Fields'
  <2>1. PICK A, B : A = Owners("WRITE") /\ B = Owners("WRITE")'
    OBVIOUS
  <2>2. (\A d, e \in B : d = e) /\ (write_locked' <=> B # {}) /\ (write_locked' => read_locked' = 0)
    <3>1. CASE g
      <4>1. A = {}
        BY <1>1, <1>2, <2>1, <3>1, Zenon DEF Fields
      <4> QED BY <1>2, <1>3, <1>5, <2>1, <3>1, <4>1, Zenon
    <3>2. CASE ~g
      <4>1. B = A /\ (write_locked' <=> write_locked)
        BY <1>3, <1>5, <2>1, <3>2, Zenon
      <4>2. (\A d, e \in A : d = e) /\ (write_locked <=> A # {}) /\ (write_locked => read_locked' = 0)
        BY <1>1, <1>3, <2>1, Zenon DEF Fields
      <4> QED BY <4>1, <4>2, Zenon
    <3> QED BY <3>1, <3>2, Zenon
  <2>3. read_locked' = Cardinality(Owners("READ")')
    BY <1>1, <1>3, <1>5, Zenon DEF Fields
  <2> QED BY <1>2, <2>1, <2>2, <2>3, Zenon DEF Fields
<1>8. Blocked'
  <2>1. ASSUME ~write_locked' PROVE read_locked' # 0 /\ type'[waiters'[1]] = "WRITE"
    <3>1. ~g /\ ~write_locked /\ read_locked # 0
      BY <1>2, <1>3, <2>1, Zenon
    <3>2. CASE waiters = <<>>
      BY <1>3, <1>5, <3>1, <3>2, Zenon
    <3>3. CASE waiters # <<>>
      <4>1. waiters'[1] = waiters[1] /\ type[waiters[1]] = "WRITE"
        BY <1>1, <1>5, <3>1, <3>3, Zenon DEF Blocked
      <4>2. waiters[1] \in Client
        BY <1>1, <3>3 DEF LockTypes
      <4> QED BY <1>3, <1>5, <3>1, <4>1, <4>2, Zenon
    <3> QED BY <3>2, <3>3, Zenon
  <2> QED BY <1>3, <1>4, <1>5, <2>1, Zenon DEF Blocked
<1> QED BY <1>5, <1>6, <1>7, <1>8, Zenon DEF LockInv

\* ReadWriteLock::read_lock.
LEMMA ReadLockKeeps ==
  ASSUME IsFiniteSet(Client), MaxRequests \in Nat, LockInv, NEW c \in Client, read_lock(c)
  PROVE  LockInv'
<1>1. LockTypes /\ Fields /\ Blocked /\ InLine
  BY Zenon DEF LockInv
<1>2. PICK g \in BOOLEAN : g = (~write_locked /\ waiters = <<>>)
  BY <1>1, Zenon DEF LockTypes
<1>3. /\ lockType = "ReadWriteLock" /\ write_locked \in BOOLEAN /\ read_locked \in Nat
      /\ write_locked' = write_locked
      /\ read_locked' = (IF g THEN read_locked + 1 ELSE read_locked)
      /\ Ask(c, "READ", g) /\ (g => waiters = <<>>) /\ status[c] = "idle"
  BY <1>1, <1>2, Zenon DEF read_lock, Ask, LockTypes
<1>4. /\ "WRITE" \in {"READ", "WRITE"} /\ "READ" \in {"READ", "WRITE"} /\ "READ" # "WRITE"
      /\ "ReadWriteLock" # "Mutex" /\ "idle" # "waiting"
  OBVIOUS
<1>5. /\ waiters' \in Seq(Client)
      /\ status' \in [Client -> {"idle", "waiting", "unblocked", "held"}]
      /\ type' \in [Client -> {"READ", "WRITE"}] /\ unblocked' \in [Client -> Seq(Client)]
      /\ requests' \in 0..MaxRequests /\ ticket' \in [Client -> 0..MaxRequests]
      /\ aborted' = FALSE /\ lockType' = lockType
      /\ InLine' /\ Told(status', unblocked')
      /\ \A d \in Client : d # c => type'[d] = type[d] /\ status'[d] = status[d]
      /\ c \notin Owners("READ")
      /\ Owners("WRITE")' = Owners("WRITE")
      /\ Owners("READ")' = IF g THEN Owners("READ") \cup {c} ELSE Owners("READ")
      /\ IF g THEN waiters' = waiters ELSE waiters'[1] = IF waiters = <<>> THEN c ELSE waiters[1]
  BY <1>3, <1>4, AskKeeps, Zenon
<1>6. LockTypes'
  <2>1. read_locked' \in Nat
    BY <1>3
  <2> QED BY <1>1, <1>3, <1>5, <2>1, Zenon DEF LockTypes
<1>7. Fields'
  <2>1. PICK A, B : A = Owners("READ") /\ B = Owners("READ")'
    OBVIOUS
  <2>2. IsFiniteSet(A) /\ c \notin A
    BY <1>5, <2>1, OwnersFinite, Zenon
  <2>3. Cardinality(A \cup {c}) = Cardinality(A) + 1
    BY <2>2, FS_AddElement, Zenon
  <2>4. read_locked' = Cardinality(B)
    BY <1>1, <1>3, <1>5, <2>1, <2>3, Zenon DEF Fields
  <2>5. write_locked' => read_locked' = 0
    BY <1>1, <1>2, <1>3, Zenon DEF Fields
  <2> QED BY <1>1, <1>3, <1>5, <2>1, <2>4, <2>5, Zenon DEF Fields
<1>8. Blocked'
  <2>1. ASSUME ~write_locked', waiters' # <<>> PROVE read_locked' # 0 /\ type'[waiters'[1]] = "WRITE"
    <3>1. ~g /\ ~write_locked /\ waiters # <<>>
      BY <1>2, <1>3, <1>5, <2>1, Zenon
    <3>2. read_locked # 0 /\ waiters'[1] = waiters[1] /\ type[waiters[1]] = "WRITE"
      BY <1>1, <1>5, <3>1, Zenon DEF Blocked
    <3>3. waiters[1] \in Client /\ 1 \in 1..Len(waiters)
      BY <1>1, <3>1 DEF LockTypes
    <3>4. status[waiters[1]] = "waiting"
      BY <1>1, <3>3, Zenon DEF InLine
    <3>5. waiters[1] # c
      BY <1>3, <1>4, <3>4, Zenon
    <3> QED BY <1>3, <1>5, <3>1, <3>2, <3>3, <3>5, Zenon
  <2> QED BY <1>3, <1>4, <1>5, <2>1, Zenon DEF Blocked
<1> QED BY <1>5, <1>6, <1>7, <1>8, Zenon DEF LockInv

\* What is left of LockTypes and Blocked after an unlock: the queue and the types.
LEMMA UnlockTypes ==
  ASSUME MaxRequests \in Nat, LockInv, NEW c \in Client, status[c] = "held",
         NEW n \in 0..Len(waiters), Unblock(c, n),
         aborted' = FALSE, read_locked' \in Nat, write_locked' \in BOOLEAN
  PROVE  LockTypes' /\ InLine' /\ Told(status', unblocked')
<1>1. LockTypes
  BY Zenon DEF LockInv
<1>2. /\ waiters' \in Seq(Client)
      /\ status' \in [Client -> {"idle", "waiting", "unblocked", "held"}]
      /\ unblocked' \in [Client -> Seq(Client)]
      /\ UNCHANGED <<lockType, type, ticket, requests>>
      /\ InLine' /\ Told(status', unblocked')
  BY UnblockKeeps, Zenon
<1> QED BY <1>1, <1>2, Zenon DEF LockTypes

\* Mutex::unlock.
LEMMA UnlockKeeps ==
  ASSUME IsFiniteSet(Client), MaxRequests \in Nat, LockInv, NEW c \in Client, unlock(c)
  PROVE  LockInv'
<1>1. LockTypes /\ Fields /\ Blocked /\ InLine
  BY Zenon DEF LockInv
<1>2. PICK n : n = IF waiters = <<>> THEN 0 ELSE 1
  OBVIOUS
<1>3. n \in 0..Len(waiters) /\ (waiters # <<>> => 1 \in 1..Len(waiters))
  BY <1>1, <1>2 DEF LockTypes
<1>4. /\ lockType = "Mutex" /\ status[c] = "held" /\ Unblock(c, n)
      /\ write_locked' = (waiters # <<>>) /\ read_locked' = read_locked /\ aborted' = aborted
      /\ aborted = FALSE /\ read_locked \in Nat /\ read_locked = 0
  BY <1>1, <1>2, Zenon DEF unlock, LockTypes, Blocked
<1>5. LockTypes' /\ InLine' /\ Told(status', unblocked')
  <2>1. write_locked' \in BOOLEAN /\ read_locked' \in Nat /\ aborted' = FALSE
    BY <1>4, Zenon
  <2> QED BY <1>3, <1>4, <2>1, UnlockTypes, Zenon
<1>6. /\ UNCHANGED <<lockType, type>>
      /\ \A d \in Client : status'[d] # "idle" => status[d] # "idle"
      /\ waiters' # <<>> => waiters # <<>>
      /\ \A u \in {"READ", "WRITE"} : \A d :
           d \in Owners(u)' <=>
             (d \in Owners(u) /\ d # c) \/ \E k \in 1..n : waiters[k] = d /\ type[d] = u
  BY <1>3, <1>4, UnblockKeeps, Zenon
<1>7. /\ "idle" # "held" /\ "idle" # "waiting" /\ "READ" # "WRITE" /\ {"READ", "WRITE"} # {}
      /\ "READ" \in {"READ", "WRITE"} /\ "WRITE" \in {"READ", "WRITE"}
  OBVIOUS
<1>8. Blocked'
  <2>1. waiters' # <<>> => write_locked'
    BY <1>4, <1>6, Zenon
  <2>2. read_locked' = 0 /\ \A d \in Client : status'[d] # "idle" => type'[d] = "WRITE"
    BY <1>1, <1>4, <1>6, Zenon DEF Blocked
  <2> QED BY <2>1, <2>2, Zenon DEF Blocked
<1>9. Fields'
  <2>1. Owners("READ")' = {}
    <3>1. ASSUME NEW d, d \in Owners("READ")' PROVE FALSE
      <4>1. d \in Client /\ status'[d] \in {"unblocked", "held"} /\ type'[d] = "READ"
        BY <3>1, Zenon DEF Owners
      <4>2. status'[d] # "idle"
        BY <4>1
      <4>3. type'[d] = "WRITE"
        BY <1>4, <1>6, <1>8, <4>1, <4>2, Zenon DEF Blocked
      <4> QED BY <1>7, <4>1, <4>3, Zenon
    <3> QED BY <3>1, Zenon
  <2>2. read_locked' = Cardinality(Owners("READ")')
    BY <1>4, <2>1, FS_EmptySet, Zenon
  <2>3. c \in Owners("WRITE") /\ \A d \in Owners("WRITE") : d = c
    <3>1. type[c] = "WRITE"
      BY <1>1, <1>4, <1>7, Zenon DEF Blocked
    <3>2. c \in Owners("WRITE")
      BY <1>4, <3>1, Zenon DEF Owners
    <3> QED BY <1>1, <3>2, Zenon DEF Fields
  <2>4. \A d : d \in Owners("WRITE")' <=> \E k \in 1..n : waiters[k] = d /\ type[d] = "WRITE"
    BY <1>6, <1>7, <2>3, Zenon
  <2>5. CASE waiters = <<>>
    <3>1. \A k : k \notin 1..n
      BY <1>2, <2>5
    <3>2. Owners("WRITE")' = {}
      BY <2>4, <3>1, Zenon
    <3> QED BY <1>4, <2>2, <2>5, <3>2, Zenon DEF Fields
  <2>6. CASE waiters # <<>>
    <3>1. 1 \in 1..n /\ \A k \in 1..n : k = 1
      BY <1>2, <2>6
    <3>2. waiters[1] \in Client
      BY <1>1, <1>3, <2>6 DEF LockTypes
    <3>3. status[waiters[1]] = "waiting"
      BY <1>1, <1>3, <2>6, Zenon DEF InLine
    <3>4. PICK w \in Client : w = waiters[1]
      BY <3>2, Zenon
    <3>5. type[w] = "WRITE"
      <4>1. status[w] # "idle"
        BY <1>7, <3>3, <3>4, Zenon
      <4> QED BY <1>1, <1>4, <4>1, Zenon DEF Blocked
    <3>6. w \in Owners("WRITE")' /\ \A d \in Owners("WRITE")' : d = w
      <4>1. \A k \in 1..n : waiters[k] = w
        BY <3>1, <3>4, Zenon
      <4>2. \E k \in 1..n : waiters[k] = w /\ type[w] = "WRITE"
        BY <3>1, <3>4, <3>5, Zenon
      <4>3. w \in Owners("WRITE")'
        BY <2>4, <4>2, Zenon
      <4>4. ASSUME NEW d, d \in Owners("WRITE")' PROVE d = w
        BY <2>4, <4>1, <4>4, Zenon
      <4> QED BY <4>3, <4>4, Zenon
    <3>7. (\A d, e \in Owners("WRITE")' : d = e) /\ Owners("WRITE")' # {}
      BY <3>6, Zenon
    <3> QED BY <1>4, <2>2, <2>6, <3>7, Zenon DEF Fields
  <2> QED BY <2>5, <2>6, Zenon
<1> QED BY <1>5, <1>8, <1>9, Zenon DEF LockInv

\* The readers at the front of the queue.
Readers == {k \in 1..Len(waiters) : \A j \in 1..k : type[waiters[j]] = "READ"}

\* They are the first m of it, and the next one, if there is one, is a writer.
LEMMA ReadersFirst ==
  ASSUME LockTypes
  PROVE  \E m \in 0..Len(waiters) :
           /\ Readers = 1..m /\ Cardinality(Readers) = m /\ (m = 0 <=> Readers = {})
           /\ \A k \in 1..m : type[waiters[k]] = "READ"
           /\ m + 1 \in 1..Len(waiters) => type[waiters[m + 1]] = "WRITE"
<1>1. waiters \in Seq(Client) /\ type \in [Client -> {"READ", "WRITE"}]
  BY Zenon DEF LockTypes
<1>2. PICK R : R = Readers
  OBVIOUS
<1>3. \A k : k \in R <=> k \in 1..Len(waiters) /\ \A j \in 1..k : type[waiters[j]] = "READ"
  BY <1>2, Zenon DEF Readers
<1>4. Len(waiters) \in Nat
  BY <1>1
<1>5. \A k \in 1..Len(waiters) : \A j \in 1..k : j \in 1..Len(waiters) /\ \A i \in 1..j : i \in 1..k
  BY <1>4
<1>6. \A k \in R : \A j \in 1..k : j \in R
  BY <1>3, <1>5, Zenon
<1>7. R \in SUBSET (1..Len(waiters))
  BY <1>3, Zenon
<1>8. PICK m \in 0..Len(waiters) : R = 1..m /\ Cardinality(R) = m
  BY <1>4, <1>6, <1>7, PrefixSet, Zenon
<1>9. (m = 0 <=> R = {}) /\ (\A k \in 1..m : k \in 1..k) /\ m + 1 \notin 1..m /\ m \in Nat
  BY <1>8
<1>10. \A k \in 1..m : type[waiters[k]] = "READ"
  BY <1>3, <1>8, <1>9, Zenon
<1>11. ASSUME m + 1 \in 1..Len(waiters) PROVE type[waiters[m + 1]] = "WRITE"
  <2>1. \E j \in 1..(m + 1) : type[waiters[j]] # "READ"
    BY <1>3, <1>8, <1>9, <1>11, Zenon
  <2>2. \A j \in 1..(m + 1) : j = m + 1 \/ j \in 1..m
    BY <1>9
  <2>3. type[waiters[m + 1]] # "READ"
    BY <1>10, <2>1, <2>2, Zenon
  <2>4. waiters[m + 1] \in Client
    BY <1>1, <1>11
  <2> QED BY <1>1, <2>3, <2>4, Zenon
<1> QED BY <1>2, <1>8, <1>9, <1>10, <1>11, Zenon

\* ReadWriteLock::write_unlock.
LEMMA WriteUnlockKeeps ==
  ASSUME IsFiniteSet(Client), MaxRequests \in Nat, LockInv, NEW c \in Client, write_unlock(c)
  PROVE  LockInv'
<1>1. LockTypes /\ Fields /\ Blocked /\ InLine
  BY Zenon DEF LockInv
<1>2. waiters \in Seq(Client) /\ type \in [Client -> {"READ", "WRITE"}]
  BY <1>1, Zenon DEF LockTypes
<1>3. PICK m \in 0..Len(waiters) :
        /\ Readers = 1..m /\ Cardinality(Readers) = m /\ (m = 0 <=> Readers = {})
        /\ \A k \in 1..m : type[waiters[k]] = "READ"
        /\ m + 1 \in 1..Len(waiters) => type[waiters[m + 1]] = "WRITE"
  BY <1>1, ReadersFirst, Zenon
<1>4. PICK wr \in BOOLEAN : wr = (waiters # <<>> /\ Readers = {})
  BY Zenon
<1>5. PICK n : n = IF wr THEN 1 ELSE m
  OBVIOUS
<1>6. /\ n \in 0..Len(waiters) /\ (wr => m = 0 /\ 1 \in 1..Len(waiters) /\ m + 1 = 1)
      /\ (~wr /\ m = 0 => waiters = <<>>) /\ n \in Nat /\ m \in Nat
  <2>1. CASE wr
    <3>1. m = 0 /\ n = 1 /\ waiters # <<>>
      BY <1>3, <1>4, <1>5, <2>1, Zenon
    <3>2. n \in 0..Len(waiters) /\ 1 \in 1..Len(waiters) /\ m + 1 = 1 /\ n \in Nat /\ m \in Nat
      BY <1>2, <3>1
    <3> QED BY <2>1, <3>1, <3>2, Zenon
  <2>2. CASE ~wr
    <3>1. n = m /\ (m = 0 => waiters = <<>>)
      BY <1>3, <1>4, <1>5, <2>2, Zenon
    <3>2. n \in 0..Len(waiters) /\ n \in Nat /\ m \in Nat
      BY <1>3, <3>1
    <3> QED BY <2>2, <3>1, <3>2, Zenon
  <2> QED BY <2>1, <2>2, Zenon
<1>7. /\ lockType = "ReadWriteLock" /\ status[c] = "held" /\ type[c] = "WRITE"
      /\ aborted' = (aborted \/ ~write_locked \/ read_locked # 0)
      /\ Unblock(c, n) /\ write_locked' = wr
      /\ read_locked' = IF m # 0 THEN m ELSE read_locked
  BY <1>3, <1>4, <1>5, Zenon DEF write_unlock, Readers
<1>8. /\ "READ" # "WRITE" /\ "READ" \in {"READ", "WRITE"} /\ "WRITE" \in {"READ", "WRITE"}
      /\ "ReadWriteLock" # "Mutex"
  OBVIOUS
<1>9. c \in Owners("WRITE") /\ \A d \in Owners("WRITE") : d = c
  <2>1. c \in Owners("WRITE")
    BY <1>7, Zenon DEF Owners
  <2> QED BY <1>1, <2>1, Zenon DEF Fields
<1>10. write_locked /\ read_locked = 0 /\ Owners("READ") = {}
  <2>1. write_locked /\ read_locked = 0
    BY <1>1, <1>9, Zenon DEF Fields
  <2>2. Cardinality(Owners("READ")) = 0
    BY <1>1, <2>1, Zenon DEF Fields
  <2> QED BY <2>1, <2>2, OwnersFinite, Zenon
<1>11. aborted' = FALSE /\ read_locked' = m /\ write_locked' \in BOOLEAN
  <2>1. aborted = FALSE
    BY <1>1, Zenon DEF LockTypes
  <2> QED BY <1>7, <1>10, <2>1, Zenon
<1>12. LockTypes' /\ InLine' /\ Told(status', unblocked')
  BY <1>6, <1>7, <1>11, UnlockTypes, Zenon
<1>13. /\ UNCHANGED <<lockType, type>>
       /\ waiters' # <<>> => n + 1 \in 1..Len(waiters) /\ waiters'[1] = waiters[n + 1] /\ waiters # <<>>
       /\ \A u \in {"READ", "WRITE"} : \A d :
            d \in Owners(u)' <=>
              (d \in Owners(u) /\ d # c) \/ \E k \in 1..n : waiters[k] = d /\ type[d] = u
  BY <1>6, <1>7, UnblockKeeps, Zenon
<1>14. \A u \in {"READ", "WRITE"} : \A d :
         d \in Owners(u)' <=> \E k \in 1..n : waiters[k] = d /\ type[d] = u
  BY <1>8, <1>9, <1>10, <1>13, Zenon
<1>15. CASE wr
  <2>1. n = 1 /\ type[waiters[1]] = "WRITE" /\ read_locked' = 0 /\ write_locked'
    BY <1>3, <1>5, <1>6, <1>7, <1>11, <1>15, Zenon
  <2>2. 1 \in 1..n /\ \A k \in 1..n : k = 1
    BY <2>1
  <2>3. PICK w : w = waiters[1]
    OBVIOUS
  <2>4. \A k \in 1..n : waiters[k] = w
    BY <2>2, <2>3, Zenon
  <2>5. Owners("READ")' = {}
    <3>1. ASSUME NEW d, d \in Owners("READ")' PROVE FALSE
      <4>1. d = w /\ type[d] = "READ"
        BY <1>8, <1>14, <2>4, <3>1, Zenon
      <4> QED BY <1>8, <2>1, <2>3, <4>1, Zenon
    <3> QED BY <3>1, Zenon
  <2>6. w \in Owners("WRITE")' /\ \A d \in Owners("WRITE")' : d = w
    <3>1. \E k \in 1..n : waiters[k] = w /\ type[w] = "WRITE"
      BY <2>1, <2>2, <2>3, Zenon
    <3>2. w \in Owners("WRITE")'
      BY <1>8, <1>14, <3>1, Zenon
    <3>3. ASSUME NEW d, d \in Owners("WRITE")' PROVE d = w
      BY <1>8, <1>14, <2>4, <3>3, Zenon
    <3> QED BY <3>2, <3>3, Zenon
  <2>7. (\A d, e \in Owners("WRITE")' : d = e) /\ Owners("WRITE")' # {}
    BY <2>6, Zenon
  <2>8. read_locked' = Cardinality(Owners("READ")')
    BY <2>1, <2>5, FS_EmptySet, Zenon
  <2>9. Fields'
    BY <2>1, <2>7, <2>8, Zenon DEF Fields
  <2>10. Blocked'
    BY <1>7, <1>8, <1>13, <2>1, Zenon DEF Blocked
  <2> QED BY <1>12, <2>9, <2>10, Zenon DEF LockInv
<1>16. CASE ~wr
  <2>1. n = m /\ ~write_locked'
    BY <1>5, <1>7, <1>16, Zenon
  <2>2. Owners("WRITE")' = {}
    <3>1. ASSUME NEW d, d \in Owners("WRITE")' PROVE FALSE
      <4>1. PICK k \in 1..n : waiters[k] = d /\ type[d] = "WRITE"
        BY <1>8, <1>14, <3>1, Zenon
      <4>2. type[waiters[k]] = "READ"
        BY <1>3, <2>1, <4>1, Zenon
      <4> QED BY <1>8, <4>1, <4>2, Zenon
    <3> QED BY <3>1, Zenon
  <2>3. Owners("READ")' = {waiters[k] : k \in 1..n}
    <3>1. ASSUME NEW d, d \in Owners("READ")' PROVE d \in {waiters[k] : k \in 1..n}
      <4>1. PICK k \in 1..n : waiters[k] = d
        BY <1>8, <1>14, <3>1, Zenon
      <4> QED BY <4>1, Zenon
    <3>2. ASSUME NEW k \in 1..n PROVE waiters[k] \in Owners("READ")'
      <4>1. type[waiters[k]] = "READ"
        BY <1>3, <2>1, <3>2, Zenon
      <4>2. \E j \in 1..n : waiters[j] = waiters[k] /\ type[waiters[k]] = "READ"
        BY <4>1, Zenon
      <4> QED BY <1>8, <1>14, <4>2, Zenon
    <3> QED BY <3>1, <3>2, Zenon
  <2>4. Cardinality({waiters[k] : k \in 1..n}) = n
    <3>1. \A j, k \in 1..Len(waiters) : waiters[j] = waiters[k] => j = k
      BY <1>1, OnceInLine, Zenon
    <3>2. \A j \in 1..n : j \in 1..Len(waiters)
      BY <1>2, <1>6
    <3>3. \A j, k \in 1..n : waiters[j] = waiters[k] => j = k
      BY <3>1, <3>2, Zenon
    <3>4. PICK s : s = waiters
      OBVIOUS
    <3>5. s \in Seq(Client) /\ n \in 0..Len(s) /\ \A j, k \in 1..n : s[j] = s[k] => j = k
      BY <1>2, <1>6, <3>3, <3>4, Zenon
    <3>6. PICK T : T = {s[k] : k \in 1..n}
      BY Zenon
    <3>7. Cardinality(T) = n
      BY <3>5, <3>6, Distinct
    <3> QED BY <3>4, <3>6, <3>7, Zenon
  <2>5. read_locked' = Cardinality(Owners("READ")')
    BY <1>11, <2>1, <2>3, <2>4, Zenon
  <2>6. Fields'
    BY <2>1, <2>2, <2>5, Zenon DEF Fields
  <2>7. ASSUME waiters' # <<>> PROVE read_locked' # 0 /\ type'[waiters'[1]] = "WRITE"
    <3>1. m + 1 \in 1..Len(waiters) /\ waiters'[1] = waiters[m + 1] /\ waiters # <<>>
      BY <1>13, <2>1, <2>7, Zenon
    <3>2. type[waiters[m + 1]] = "WRITE"
      BY <1>3, <3>1, Zenon
    <3>3. m # 0
      BY <1>6, <1>16, <3>1, Zenon
    <3> QED BY <1>11, <1>13, <3>1, <3>2, <3>3, Zenon
  <2>8. Blocked'
    BY <1>7, <1>8, <1>13, <2>7, Zenon DEF Blocked
  <2> QED BY <1>12, <2>6, <2>8, Zenon DEF LockInv
<1> QED BY <1>15, <1>16, Zenon

\* ReadWriteLock::read_unlock.
LEMMA ReadUnlockKeeps ==
  ASSUME IsFiniteSet(Client), MaxRequests \in Nat, LockInv, NEW c \in Client, read_unlock(c)
  PROVE  LockInv'
<1>1. LockTypes /\ Fields /\ Blocked /\ InLine
  BY Zenon DEF LockInv
<1>2. /\ waiters \in Seq(Client) /\ type \in [Client -> {"READ", "WRITE"}] /\ aborted = FALSE
      /\ write_locked \in BOOLEAN /\ lockType \in {"Mutex", "ReadWriteLock"} /\ read_locked \in Nat
  BY <1>1, Zenon DEF LockTypes
<1>3. PICK last \in BOOLEAN : last = (read_locked = 1 /\ waiters # <<>>)
  BY Zenon
<1>4. PICK n : n = IF last THEN 1 ELSE 0
  OBVIOUS
<1>5. n \in 0..Len(waiters) /\ (waiters # <<>> => Head(waiters) = waiters[1] /\ 1 \in 1..Len(waiters))
  <2>1. n = 0 \/ (n = 1 /\ waiters # <<>>)
    BY <1>3, <1>4, Zenon
  <2> QED BY <1>2, <2>1
<1>6. /\ status[c] = "held" /\ type[c] = "READ"
      /\ aborted' = (aborted \/ write_locked \/ read_locked = 0
                     \/ (last /\ type[Head(waiters)] # "WRITE"))
      /\ Unblock(c, n) /\ write_locked' = (write_locked \/ last)
      /\ read_locked' = read_locked - 1
  BY <1>3, <1>4, Zenon DEF read_unlock
<1>7. /\ "READ" # "WRITE" /\ "READ" \in {"READ", "WRITE"} /\ "WRITE" \in {"READ", "WRITE"}
      /\ "held" # "idle"
  OBVIOUS
<1>8. c \in Owners("READ")
  BY <1>6, Zenon DEF Owners
<1>9. read_locked # 0 /\ ~write_locked /\ Owners("WRITE") = {} /\ lockType # "Mutex"
  <2>1. Cardinality(Owners("READ")) # 0
    BY <1>8, OwnersFinite, Zenon
  <2>2. read_locked # 0
    BY <1>1, <2>1, Zenon DEF Fields
  <2>3. ~write_locked /\ Owners("WRITE") = {}
    BY <1>1, <2>2, Zenon DEF Fields
  <2> QED BY <1>1, <2>2, <2>3, Zenon DEF Blocked
<1>10. waiters # <<>> => type[waiters[1]] = "WRITE"
  BY <1>1, <1>9, Zenon DEF Blocked
<1>11. aborted' = FALSE /\ (write_locked' <=> last) /\ write_locked' \in BOOLEAN
  <2>1. last => type[Head(waiters)] = "WRITE"
    BY <1>3, <1>5, <1>10, Zenon
  <2> QED BY <1>2, <1>6, <1>9, <2>1, Zenon
<1>12. /\ read_locked' \in Nat /\ (last => read_locked' = 0)
       /\ (~last /\ waiters # <<>> => read_locked' # 0)
  <2>1. read_locked' \in Nat /\ (read_locked = 1 <=> read_locked' = 0)
    BY <1>2, <1>6, <1>9
  <2> QED BY <1>3, <2>1, Zenon
<1>13. LockTypes' /\ InLine' /\ Told(status', unblocked')
  BY <1>5, <1>6, <1>11, <1>12, UnlockTypes, Zenon
<1>14. /\ UNCHANGED <<lockType, type>>
       /\ waiters' # <<>> => waiters'[1] = waiters[n + 1] /\ waiters # <<>>
       /\ \A u \in {"READ", "WRITE"} : \A d :
            d \in Owners(u)' <=>
              (d \in Owners(u) /\ d # c) \/ \E k \in 1..n : waiters[k] = d /\ type[d] = u
  BY <1>5, <1>6, UnblockKeeps, Zenon
<1>15. (\A k \in 1..n : last /\ waiters # <<>> /\ k = 1) /\ (last => 1 \in 1..n) /\ (~last => n + 1 = 1)
  <2>1. CASE last
    <3>1. n = 1
      BY <1>4, <2>1, Zenon
    <3>2. 1 \in 1..n /\ \A k \in 1..n : k = 1
      BY <3>1
    <3> QED BY <1>3, <2>1, <3>2, Zenon
  <2>2. CASE ~last
    <3>1. n = 0
      BY <1>4, <2>2, Zenon
    <3>2. n + 1 = 1 /\ \A k : k \notin 1..n
      BY <3>1
    <3> QED BY <2>2, <3>2, Zenon
  <2> QED BY <2>1, <2>2, Zenon
<1>16. Owners("READ")' = Owners("READ") \ {c}
  <2>1. ASSUME NEW d, NEW k \in 1..n, waiters[k] = d, type[d] = "READ" PROVE FALSE
    <3>1. k = 1 /\ waiters # <<>>
      BY <1>15, Zenon
    <3>2. type[waiters[1]] = "READ"
      BY <2>1, <3>1, Zenon
    <3> QED BY <1>7, <1>10, <3>1, <3>2, Zenon
  <2>2. ASSUME NEW d PROVE d \in Owners("READ")' <=> d \in Owners("READ") /\ d # c
    <3>1. d \in Owners("READ")' <=>
            (d \in Owners("READ") /\ d # c) \/ \E k \in 1..n : waiters[k] = d /\ type[d] = "READ"
      BY <1>7, <1>14, Zenon
    <3>2. ~ \E k \in 1..n : waiters[k] = d /\ type[d] = "READ"
      BY <2>1, Zenon
    <3> QED BY <3>1, <3>2, Zenon
  <2> QED BY <2>2, Zenon
<1>17. read_locked' = Cardinality(Owners("READ")')
  <2>1. PICK O : O = Owners("READ")
    OBVIOUS
  <2>2. IsFiniteSet(O) /\ c \in O
    BY <1>8, <2>1, OwnersFinite, Zenon
  <2>3. Cardinality(O \ {c}) = Cardinality(O) - 1
    BY <2>2, FS_RemoveElement, Zenon
  <2>4. Cardinality(O) = read_locked
    BY <1>1, <2>1, Zenon DEF Fields
  <2> QED BY <1>6, <1>16, <2>1, <2>3, <2>4, Zenon
<1>18. \A d : d \in Owners("WRITE")' <=> \E k \in 1..n : waiters[k] = d /\ type[d] = "WRITE"
  BY <1>7, <1>9, <1>14, Zenon
<1>19. (\A d, e \in Owners("WRITE")' : d = e) /\ (last <=> Owners("WRITE")' # {})
  <2>1. PICK w : w = waiters[1]
    OBVIOUS
  <2>2. ASSUME NEW d, d \in Owners("WRITE")' PROVE d = w /\ last
    <3>1. PICK k \in 1..n : waiters[k] = d
      BY <1>18, <2>2, Zenon
    <3>2. k = 1 /\ last
      BY <1>15, Zenon
    <3> QED BY <2>1, <3>1, <3>2, Zenon
  <2>3. ASSUME last PROVE w \in Owners("WRITE")'
    <3>1. 1 \in 1..n /\ waiters # <<>>
      BY <1>3, <1>15, <2>3, Zenon
    <3>2. \E k \in 1..n : waiters[k] = w /\ type[w] = "WRITE"
      BY <1>10, <2>1, <3>1, Zenon
    <3> QED BY <1>18, <3>2, Zenon
  <2>4. ASSUME NEW d \in Owners("WRITE")', NEW e \in Owners("WRITE")' PROVE d = e
    <3>1. d = w /\ e = w
      BY <2>2, Zenon
    <3> QED BY <3>1, Zenon
  <2>5. last => Owners("WRITE")' # {}
    BY <2>3, Zenon
  <2>6. Owners("WRITE")' # {} => last
    BY <2>2, Zenon
  <2> QED BY <2>4, <2>5, <2>6, Zenon
<1>20. Fields'
  BY <1>11, <1>12, <1>17, <1>19, Zenon DEF Fields
<1>21. Blocked'
  <2>1. ASSUME waiters' # <<>>, ~write_locked' PROVE read_locked' # 0 /\ type'[waiters'[1]] = "WRITE"
    <3>1. ~last /\ waiters'[1] = waiters[1] /\ waiters # <<>>
      BY <1>11, <1>14, <1>15, <2>1, Zenon
    <3> QED BY <1>10, <1>12, <1>14, <3>1, Zenon
  <2> QED BY <1>9, <1>14, <2>1, Zenon DEF Blocked
<1> QED BY <1>13, <1>20, <1>21, Zenon DEF LockInv

\* A sequence that has a head.
LEMMA HeadAndTail ==
  ASSUME NEW S, NEW s \in Seq(S), s # <<>>, NEW t, t = Tail(s), NEW h, h = Head(s)
  PROVE  /\ t \in Seq(S) /\ h = s[1] /\ 1 \in 1..Len(s) /\ h \in S
         /\ \A k \in 1..Len(t) : t[k] = s[k + 1] /\ k + 1 \in 1..Len(s) /\ k + 1 # 1
         /\ \A j, k \in 1..Len(t) : j + 1 = k + 1 => j = k
  OBVIOUS

\* The promise of an unblocked client is set: it owned the lock before.
LEMMA NotifyKeeps ==
  ASSUME IsFiniteSet(Client), MaxRequests \in Nat, LockInv, NEW c \in Client, Notify(c)
  PROVE  LockInv'
<1>1. LockTypes /\ Fields /\ Blocked /\ InLine /\ Told(status, unblocked)
  BY Zenon DEF LockInv
<1>2. /\ status \in [Client -> {"idle", "waiting", "unblocked", "held"}]
      /\ unblocked \in [Client -> Seq(Client)] /\ unblocked[c] \in Seq(Client)
  BY <1>1, Zenon DEF LockTypes
<1>3. PICK u, t, h : u = unblocked[c] /\ t = Tail(u) /\ h = Head(u)
  OBVIOUS
<1>4. /\ u # <<>> /\ status' = [status EXCEPT ![h] = "held"]
      /\ unblocked' = [unblocked EXCEPT ![c] = t]
      /\ UNCHANGED <<lockType, read_locked, write_locked, waiters, type, ticket, requests, aborted>>
  BY <1>3, Zenon DEF Notify
<1>5. u \in Seq(Client)
  BY <1>2, <1>3, Zenon
<1>6. /\ t \in Seq(Client) /\ h = u[1] /\ 1 \in 1..Len(u) /\ h \in Client
      /\ \A k \in 1..Len(t) : t[k] = u[k + 1] /\ k + 1 \in 1..Len(u) /\ k + 1 # 1
      /\ \A j, k \in 1..Len(t) : j + 1 = k + 1 => j = k
  BY <1>3, <1>4, <1>5, HeadAndTail
<1>7. h \in Client /\ status[h] = "unblocked"
  <2>1. 1 \in 1..Len(unblocked[c]) /\ unblocked[c][1] = h
    BY <1>3, <1>6, Zenon
  <2>2. status[unblocked[c][1]] = "unblocked"
    BY <1>1, <2>1, Zenon DEF Told
  <2> QED BY <1>6, <2>1, <2>2, Zenon
<1>8. /\ status'[h] = "held" /\ \A d \in Client : d # h => status'[d] = status[d]
      /\ status' \in [Client -> {"idle", "waiting", "unblocked", "held"}]
  <2>1. "held" \in {"idle", "waiting", "unblocked", "held"}
    OBVIOUS
  <2> QED BY <1>2, <1>4, <1>7, <2>1, Zenon
<1>9. /\ unblocked' \in [Client -> Seq(Client)] /\ unblocked'[c] = t
      /\ \A d \in Client : d # c => unblocked'[d] = unblocked[d]
  BY <1>2, <1>4, <1>6, Zenon
<1>10. LockTypes'
  BY <1>1, <1>4, <1>8, <1>9, Zenon DEF LockTypes
<1>11. /\ "held" # "idle" /\ "unblocked" # "idle" /\ "held" # "waiting" /\ "unblocked" # "waiting"
       /\ "held" \in {"unblocked", "held"} /\ "unblocked" \in {"unblocked", "held"}
  OBVIOUS
<1>12. \A d \in Client : /\ status'[d] \in {"unblocked", "held"} <=> status[d] \in {"unblocked", "held"}
                         /\ status'[d] = "waiting" <=> status[d] = "waiting"
                         /\ status'[d] = "idle" <=> status[d] = "idle"
  BY <1>7, <1>8, <1>11, Zenon
<1>13. InLine'
  <2>1. \A k \in 1..Len(waiters) : waiters[k] \in Client
    BY <1>1, OnceInLine, Zenon
  <2>2. \A k \in 1..Len(waiters) : status'[waiters[k]] = "waiting"
    BY <1>1, <1>12, <2>1, Zenon DEF InLine
  <2> QED BY <1>1, <1>4, <1>12, <2>2, Zenon DEF InLine
<1>14. Told(status', unblocked')
  <2>1. PICK st, un : st = status' /\ un = unblocked'
    OBVIOUS
  <2>2. /\ \A d \in Client : d # h => st[d] = status[d]
        /\ \A d \in Client : st[d] = "idle" <=> status[d] = "idle"
        /\ un[c] = t /\ \A d \in Client : d # c => un[d] = unblocked[d]
    BY <1>8, <1>9, <1>12, <2>1, Zenon
  \* A place of a list after the step is a place of the list before it, and not the first of c's.
  <2>3. ASSUME NEW d \in Client, NEW k \in 1..Len(un[d])
        PROVE  \E l \in 1..Len(unblocked[d]) :
                 /\ un[d][k] = unblocked[d][l] /\ ~(d = c /\ l = 1)
                 /\ l = IF d = c THEN k + 1 ELSE k
    <3>1. CASE d = c
      <4>1. un[d] = t /\ unblocked[d] = u /\ k \in 1..Len(t)
        BY <1>3, <2>2, <2>3, <3>1, Zenon
      <4>2. PICK l \in 1..Len(u) : t[k] = u[l] /\ l # 1 /\ l = k + 1
        BY <1>6, <4>1, Zenon
      <4> QED BY <3>1, <4>1, <4>2, Zenon
    <3>2. CASE d # c
      <4>1. un[d] = unblocked[d]
        BY <2>2, <3>2, Zenon
      <4> QED BY <2>3, <3>2, <4>1, Zenon
    <3> QED BY <3>1, <3>2, Zenon
  <2>4. \A d, e \in Client : \A j \in 1..Len(unblocked[d]), k \in 1..Len(unblocked[e]) :
          unblocked[d][j] = unblocked[e][k] => d = e /\ j = k
    BY <1>1, Zenon DEF Told
  <2>5. ASSUME NEW d \in Client, NEW k \in 1..Len(un[d]) PROVE st[un[d][k]] = "unblocked"
    <3>1. PICK l \in 1..Len(unblocked[d]) : un[d][k] = unblocked[d][l] /\ ~(d = c /\ l = 1)
      <4>1. \E l \in 1..Len(unblocked[d]) :
              /\ un[d][k] = unblocked[d][l] /\ ~(d = c /\ l = 1)
              /\ l = IF d = c THEN k + 1 ELSE k
        BY <2>3, Zenon
      <4> QED BY <4>1, Zenon
    <3>2. PICK x : x = unblocked[d][l]
      OBVIOUS
    <3>3. x \in Client
      <4>1. unblocked[d] \in Seq(Client)
        BY <1>2, Zenon
      <4> QED BY <3>2, <4>1
    <3>4. status[x] = "unblocked"
      BY <1>1, <3>2, Zenon DEF Told
    <3>5. x # h
      <4>1. ASSUME x = h PROVE FALSE
        <5>1. unblocked[d][l] = unblocked[c][1] /\ 1 \in 1..Len(unblocked[c])
          BY <1>3, <1>6, <3>2, <4>1, Zenon
        <5> QED BY <2>4, <3>1, <5>1, Zenon
      <4> QED BY <4>1, Zenon
    <3>6. st[x] = "unblocked" /\ un[d][k] = x
      BY <2>2, <3>1, <3>2, <3>3, <3>4, <3>5, Zenon
    <3> QED BY <3>6, Zenon
  <2>6. ASSUME NEW d \in Client, NEW e \in Client, NEW j \in 1..Len(un[d]), NEW k \in 1..Len(un[e]),
               un[d][j] = un[e][k]
        PROVE  d = e /\ j = k
    <3>1. PICK l \in 1..Len(unblocked[d]) :
            un[d][j] = unblocked[d][l] /\ l = IF d = c THEN j + 1 ELSE j
      BY <2>3, Zenon
    <3>2. PICK m \in 1..Len(unblocked[e]) :
            un[e][k] = unblocked[e][m] /\ m = IF e = c THEN k + 1 ELSE k
      BY <2>3, Zenon
    <3>3. d = e /\ l = m
      <4>1. unblocked[d][l] = unblocked[e][m]
        BY <2>6, <3>1, <3>2, Zenon
      <4> QED BY <2>4, <4>1, Zenon
    <3>4. CASE d = c
      <4>1. j + 1 = k + 1 /\ j \in 1..Len(t) /\ k \in 1..Len(t)
        BY <2>2, <2>6, <3>1, <3>2, <3>3, <3>4, Zenon
      <4> QED BY <1>6, <3>3, <4>1, Zenon
    <3>5. CASE d # c
      BY <3>1, <3>2, <3>3, <3>5, Zenon
    <3> QED BY <3>4, <3>5, Zenon
  <2>7. ASSUME NEW d \in Client, st[d] # "idle" PROVE un[d] = <<>>
    <3>1. unblocked[d] = <<>>
      BY <1>1, <2>2, <2>7, Zenon DEF Told
    <3>2. d # c
      BY <1>3, <1>4, <3>1, Zenon
    <3> QED BY <2>2, <3>1, <3>2, Zenon
  <2>8. Told(st, un)
    BY <2>5, <2>6, <2>7, Zenon DEF Told
  <2> QED BY <2>1, <2>8, Zenon
<1>15. ASSUME NEW v PROVE Owners(v)' = Owners(v)
  <2>1. ASSUME NEW d PROVE d \in Owners(v)' <=> d \in Owners(v)
    BY <1>4, <1>12, Zenon DEF Owners
  <2> QED BY <2>1, Zenon
<1>16. Fields'
  <2>1. Owners("READ")' = Owners("READ") /\ Owners("WRITE")' = Owners("WRITE")
    BY <1>15, Zenon
  <2> QED BY <1>1, <1>4, <2>1, Zenon DEF Fields
<1>17. Blocked'
  BY <1>1, <1>4, <1>12, Zenon DEF Blocked
<1> QED BY <1>10, <1>13, <1>14, <1>16, <1>17, Zenon DEF LockInv

\* The invariant holds at first.
LEMMA LockInit ==
  ASSUME IsFiniteSet(Client), MaxRequests \in Nat, Init
  PROVE  LockInv
<1>1. /\ lockType \in {"Mutex", "ReadWriteLock"} /\ read_locked = 0 /\ write_locked = FALSE
      /\ waiters = <<>> /\ status = [c \in Client |-> "idle"] /\ type = [c \in Client |-> "READ"]
      /\ unblocked = [c \in Client |-> <<>>] /\ ticket = [c \in Client |-> 0]
      /\ requests = 0 /\ aborted = FALSE
  BY Zenon DEF Init
<1>2. LockTypes
  <2>1. <<>> \in Seq(Client) /\ 0 \in 0..MaxRequests /\ 0 \in Nat
    OBVIOUS
  <2>2. "READ" \in {"READ", "WRITE"} /\ "idle" \in {"idle", "waiting", "unblocked", "held"}
    OBVIOUS
  <2> QED BY <1>1, <2>1, <2>2, Zenon DEF LockTypes
<1>3. (\A c \in Client : status[c] = "idle" /\ ticket[c] = 0 /\ unblocked[c] = <<>>)
  BY <1>1, Zenon
<1>4. /\ (\A k : k \notin 1..Len(<<>>)) /\ 0 <= 0 /\ "idle" # "waiting"
      /\ "idle" \notin {"unblocked", "held"}
  OBVIOUS
<1>5. InLine
  BY <1>1, <1>3, <1>4, Zenon DEF InLine
<1>6. Told(status, unblocked)
  BY <1>3, <1>4, Zenon DEF Told
<1>7. ASSUME NEW u PROVE Owners(u) = {}
  BY <1>3, <1>4, Zenon DEF Owners
<1>8. Fields
  <2>1. Owners("READ") = {} /\ Owners("WRITE") = {}
    BY <1>7, Zenon
  <2> QED BY <1>1, <2>1, FS_EmptySet, Zenon DEF Fields
<1>9. Blocked
  BY <1>1, <1>3, Zenon DEF Blocked
<1> QED BY <1>2, <1>5, <1>6, <1>8, <1>9, Zenon DEF LockInv

\* Every step keeps the invariant.
LEMMA LockStep ==
  ASSUME IsFiniteSet(Client), MaxRequests \in Nat, LockInv, [Next]_vars
  PROVE  LockInv'
<1>1. ASSUME NEW c \in Client, Unlock(c) PROVE LockInv'
  BY <1>1, UnlockKeeps, WriteUnlockKeeps, ReadUnlockKeeps, NotifyKeeps, Zenon DEF Unlock
<1>2. CASE Next
  BY <1>1, <1>2, LockKeeps, WriteLockKeeps, ReadLockKeeps, Zenon DEF Next
<1>3. CASE UNCHANGED vars
  <2>1. UNCHANGED <<lockType, read_locked, write_locked, waiters, status, type, unblocked, ticket,
                    requests, aborted>>
    BY <1>3, Zenon DEF vars
  <2>2. \A u : Owners(u)' = Owners(u)
    BY <2>1, Zenon DEF Owners
  <2>3. Owners("READ")' = Owners("READ") /\ Owners("WRITE")' = Owners("WRITE")
    BY <2>2, Zenon
  <2>4. LockTypes' /\ InLine' /\ Told(status', unblocked') /\ Blocked'
    BY <2>1, Zenon DEF LockInv, LockTypes, InLine, Blocked
  <2>5. Fields'
    BY <2>1, <2>3, Zenon DEF LockInv, Fields
  <2> QED BY <2>4, <2>5, Zenon DEF LockInv
<1> QED BY <1>2, <1>3, Zenon

\* The invariant says what is to be proved.
LEMMA LockSound ==
  ASSUME IsFiniteSet(Client), MaxRequests \in Nat, LockInv
  PROVE  Safe
<1>1. LockTypes /\ Fields /\ InLine
  BY Zenon DEF LockInv
<1>2. read_locked = Cardinality(Owners("READ"))
  BY <1>1, Zenon DEF Fields
<1>3. TypeOK
  <2>1. PICK x, y : x = Cardinality(Owners("READ")) /\ y = Cardinality(Client)
    OBVIOUS
  <2>2. x \in Nat /\ x <= y /\ y \in Nat
    BY <2>1, OwnersFinite, FS_CardinalityType, Zenon
  <2>3. x \in 0..y
    BY <2>2
  <2>4. read_locked \in 0..Cardinality(Client)
    BY <1>2, <2>1, <2>3, Zenon
  <2> QED BY <1>1, <2>4, Zenon DEF LockTypes, TypeOK
<1>4. Cardinality(Owners("WRITE")) = IF write_locked THEN 1 ELSE 0
  <2>1. CASE write_locked
    <3>1. PICK w : w \in Owners("WRITE")
      BY <1>1, <2>1, Zenon DEF Fields
    <3>2. Owners("WRITE") = {w}
      BY <1>1, <3>1, Zenon DEF Fields
    <3> QED BY <2>1, <3>2, FS_Singleton, Zenon
  <2>2. CASE ~write_locked
    <3>1. Owners("WRITE") = {}
      BY <1>1, <2>2, Zenon DEF Fields
    <3> QED BY <2>2, <3>1, FS_EmptySet, Zenon
  <2> QED BY <2>1, <2>2, Zenon
<1>5. ASSUME NEW c \in Owners("READ") \cup Owners("WRITE"), NEW d \in Client, status[d] = "waiting"
      PROVE  ticket[c] < ticket[d]
  <2>1. c \in Client /\ status[c] \in {"unblocked", "held"}
    BY Zenon DEF Owners
  <2>2. PICK k \in 1..Len(waiters) : waiters[k] = d
    BY <1>1, <1>5, Zenon DEF InLine
  <2>3. ticket[c] < ticket[waiters[k]]
    BY <1>1, <2>1, Zenon DEF InLine
  <2> QED BY <2>2, <2>3, Zenon
<1>6. ~aborted /\ (write_locked => read_locked = 0)
  BY <1>1, Zenon DEF LockTypes, Fields
<1> QED BY <1>2, <1>3, <1>4, <1>5, <1>6, Zenon DEF Safe

(***************************************************************************)
(* A Mutex or a ReadWriteLock of any number of clients: its fields say who *)
(* owns it, a writer owns it alone, no CHECK of write_unlock or of         *)
(* read_unlock fails and nobody is overtaken, whenever unlock sets the     *)
(* promises of those it unblocks.                                          *)
(***************************************************************************)
THEOREM LocksAlwaysSafe ==
  ASSUME IsFiniteSet(Client), MaxRequests \in Nat
  PROVE  Spec => []Safe
<1>1. Init => LockInv
  BY LockInit
<1>2. LockInv /\ [Next]_vars => LockInv'
  BY LockStep
<1>3. LockInv => Safe
  BY LockSound
<1> QED BY <1>1, <1>2, <1>3, PTL DEF Spec

-----------------------------------------------------------------------------
(* Poll.                                                                   *)

CONSTANTS Polls, Delays

VARIABLES
  lib, poll, io, async, caller, discard, promise, functions, running, wake, delay, loop

I == INSTANCE Poll

\* What run MCServices checks of io::poll.
PollSafe == I!TypeOK /\ I!PollSafe

\* The functions of io::poll with libev that have still to be run, or to be finished.
Begins(f) == f[1] \in {"poll", "start"}
\* A poll that libev has not started to watch.
Fresh(p) ==
  /\ p \in Polls /\ lib = "libev" /\ caller[p] = "done" /\ poll[p] = "none"
  /\ promise[p] = "pending" /\ io[p] = "off" /\ async[p] = "off"
\* The queues hold the beginning of each poll once, and only before it began.
Once(s) ==
  \A j, k \in 1..Len(s) : Begins(s[j]) /\ Begins(s[k]) /\ s[j][2] = s[k][2] => j = k
\* No poll begins in both of two queues.
Apart(s, t) ==
  \A j \in 1..Len(s), k \in 1..Len(t) : Begins(s[j]) /\ Begins(t[k]) => s[j][2] # t[k][2]
\* The beginning of poll q is in the queue.
BeginsIn(s, q) == \E k \in 1..Len(s) : Begins(s[k]) /\ s[k][2] = q
\* What is still to begin was not touched.
Unbegun == \A q \in Polls : BeginsIn(functions, q) \/ BeginsIn(running, q) => Fresh(q)
\* All that the proof needs of the queues.
PollQueues == Once(functions) /\ Once(running) /\ Apart(functions, running) /\ Unbegun
\* Where the call of poll is, its struct, its watchers and its promise.
OnePoll(p) ==
  /\ io[p] # "off" \/ async[p] # "off" => poll[p] = "alive"
  /\ poll[p] = "deleted" => promise[p] # "pending"
  /\ promise[p] \in {"ready", "discarded"} => poll[p] # "alive"
  /\ promise[p] # "wrong"
  /\ promise[p] = "discarded" => discard[p]
  /\ poll[p] = "alive" /\ lib = "libevent" /\ caller[p] = "done" => io[p] # "off"
  /\ async[p] = "pending" => discard[p]
  /\ lib = "libevent" => async[p] = "off"
  /\ caller[p] = "idle" => poll[p] = "none" /\ promise[p] = "pending"
  /\ caller[p] = "add" => lib = "libevent" /\ poll[p] = "alive" /\ io[p] = "off"
  /\ caller[p] = "onDiscard" => lib = "libevent" /\ (poll[p] = "alive" => io[p] # "off")
\* libevent activates its watcher once for every discard, libev once for all.
Discarded == {p \in Polls : discard[p]}
\* How often the watcher of the queue is activated.
WakeBound ==
  /\ lib = "libevent" => wake <= Cardinality(Discarded)
  /\ lib = "libev" => wake = 0 \/ (wake = 1 /\ Polls \cup Delays # {})

\* The inductive invariant of Poll.
PollInv == I!TypeOK /\ WakeBound /\ PollQueues /\ \A p \in Polls : OnePoll(p)

-----------------------------------------------------------------------------
\* Tail, element by element.
LEMMA TailFacts ==
  ASSUME NEW S, NEW s \in Seq(S), s # <<>>
  PROVE  /\ Tail(s) \in Seq(S) /\ Len(Tail(s)) = Len(s) - 1 /\ s[1] \in S
         /\ \A k \in 1..Len(Tail(s)) : Tail(s)[k] = s[k + 1] /\ k + 1 \in 1..Len(s)
         /\ \A k \in 1..Len(s) : k = 1 \/ (k - 1 \in 1..Len(Tail(s)) /\ Tail(s)[k - 1] = s[k])
         /\ 1 \in 1..Len(s)
  OBVIOUS

\* A function that is continued by another at the head of the queue.
LEMMA ReplaceHead ==
  ASSUME NEW S, NEW s \in Seq(S), NEW e \in S, s # <<>>, NEW t, t = <<e>> \o Tail(s)
  PROVE  /\ t \in Seq(S) /\ Len(t) = Len(s) /\ t[1] = e
         /\ \A k \in 1..Len(s) : k # 1 => t[k] = s[k]
  OBVIOUS

\* The invariant of the polls implies what is to be shown.
LEMMA OnePollSafe == ASSUME \A p \in Polls : OnePoll(p) PROVE I!PollSafe
  BY Zenon DEF OnePoll, I!PollSafe

\* A poll whose state a step leaves alone.
LEMMA Untouched ==
  ASSUME NEW q, OnePoll(q), lib' = lib, poll'[q] = poll[q], io'[q] = io[q],
         async'[q] = async[q], caller'[q] = caller[q], discard'[q] = discard[q],
         promise'[q] = promise[q]
  PROVE  OnePoll(q)'
  BY Zenon DEF OnePoll

-----------------------------------------------------------------------------
\* The head of the queue that runs.
LEMMA HeadIs ==
  ASSUME PollInv, running # <<>>, NEW f, Head(running) = f
  PROVE  /\ running[1] = f /\ 1 \in 1..Len(running)
         /\ \A q \in Polls : Begins(f) /\ f[2] = q => Fresh(q)
<1>1. running \in Seq(I!Function)
  BY DEF PollInv, I!TypeOK
<1>2. running[1] = f /\ 1 \in 1..Len(running)
  BY <1>1
<1>3. \A q \in Polls : Begins(f) /\ f[2] = q => BeginsIn(running, q)
  BY <1>2, Zenon DEF BeginsIn
<1> QED BY <1>2, <1>3, Zenon DEF PollInv, PollQueues, Unbegun

\* Every step keeps the invariant of every poll.
LEMMA PollOnesStep ==
  ASSUME PollInv, [I!Next]_I!vars
  PROVE  \A q \in Polls : OnePoll(q)'
<1> SUFFICES ASSUME NEW q \in Polls PROVE OnePoll(q)'
  OBVIOUS
<1>1. OnePoll(q) /\ I!TypeOK
  BY DEF PollInv
<1>2. /\ q \in DOMAIN poll /\ q \in DOMAIN io /\ q \in DOMAIN async /\ q \in DOMAIN caller
      /\ q \in DOMAIN discard /\ q \in DOMAIN promise
      /\ poll[q] \in {"none", "alive", "deleted"}
      /\ io[q] \in {"off", "on", "pending"} /\ async[q] \in {"off", "on", "pending"}
      /\ caller[q] \in {"idle", "add", "onDiscard", "done"}
      /\ promise[q] \in {"pending", "ready", "wrong", "discarded"}
      /\ lib \in {"libev", "libevent"}
  BY <1>1 DEF I!TypeOK, I!Watcher
<1>3. ASSUME UNCHANGED <<lib, poll, io, async, caller, discard, promise>> PROVE OnePoll(q)'
  BY <1>1, <1>3, Untouched, Zenon
<1>4. ASSUME NEW p \in Polls, p # q, lib' = lib,
             \/ I!CallEv(p) \/ I!_run_in_event_loop(p) \/ I!StartEv(p) \/ I!DiscardEv(p)
             \/ I!polled(p) \/ I!discard_poll(p) \/ I!CallEvent(p) \/ I!event_add(p)
             \/ I!onDiscard(p) \/ I!pollDiscard(p) \/ I!RunDiscard(p)
             \/ I!pollCallback(p) \/ I!Ready(p)
      PROVE  OnePoll(q)'
  <2>1. poll'[q] = poll[q]
    BY <1>2, <1>4 DEF I!CallEv, I!_run_in_event_loop, I!StartEv, I!DiscardEv, I!polled,
       I!discard_poll, I!CallEvent, I!event_add, I!onDiscard, I!pollDiscard,
       I!RunDiscard, I!pollCallback, I!Ready, I!Delete
  <2>2. io'[q] = io[q]
    BY <1>2, <1>4 DEF I!CallEv, I!_run_in_event_loop, I!StartEv, I!DiscardEv, I!polled,
       I!discard_poll, I!CallEvent, I!event_add, I!onDiscard, I!pollDiscard,
       I!RunDiscard, I!pollCallback, I!Ready
  <2>3. async'[q] = async[q]
    BY <1>2, <1>4 DEF I!CallEv, I!_run_in_event_loop, I!StartEv, I!DiscardEv, I!polled,
       I!discard_poll, I!CallEvent, I!event_add, I!onDiscard, I!pollDiscard,
       I!RunDiscard, I!pollCallback, I!Ready
  <2>4. caller'[q] = caller[q]
    BY <1>2, <1>4 DEF I!CallEv, I!_run_in_event_loop, I!StartEv, I!DiscardEv, I!polled,
       I!discard_poll, I!CallEvent, I!event_add, I!onDiscard, I!pollDiscard,
       I!RunDiscard, I!pollCallback, I!Ready
  <2>5. discard'[q] = discard[q]
    BY <1>2, <1>4 DEF I!CallEv, I!_run_in_event_loop, I!StartEv, I!DiscardEv, I!polled,
       I!discard_poll, I!CallEvent, I!event_add, I!onDiscard, I!pollDiscard,
       I!RunDiscard, I!pollCallback, I!Ready
  <2>6. promise'[q] = promise[q]
    BY <1>2, <1>4 DEF I!CallEv, I!_run_in_event_loop, I!StartEv, I!DiscardEv, I!polled,
       I!discard_poll, I!CallEvent, I!event_add, I!onDiscard, I!pollDiscard,
       I!RunDiscard, I!pollCallback, I!Ready, I!Set
  <2> QED BY <1>1, <1>4, <2>1, <2>2, <2>3, <2>4, <2>5, <2>6, Untouched, Zenon
<1>5. CASE I!CallEv(q)
  BY <1>1, <1>2, <1>5 DEF I!CallEv, OnePoll
<1>6. CASE I!_run_in_event_loop(q)
  <2>1. Fresh(q)
    <3>1. Begins(<<"poll", q>>) /\ <<"poll", q>>[2] = q
      BY DEF Begins
    <3> QED BY <1>6, <3>1, HeadIs, Zenon DEF I!_run_in_event_loop
  <2> QED BY <1>1, <1>2, <1>6, <2>1 DEF I!_run_in_event_loop, I!Set, OnePoll, Fresh
<1>7. CASE I!StartEv(q)
  <2>1. Fresh(q)
    <3>1. Begins(<<"start", q>>) /\ <<"start", q>>[2] = q
      BY DEF Begins
    <3> QED BY <1>7, <3>1, HeadIs, Zenon DEF I!StartEv
  <2> QED BY <1>1, <1>2, <1>7, <2>1 DEF I!StartEv, OnePoll, Fresh
<1>8. CASE I!DiscardEv(q)
  BY <1>1, <1>2, <1>8 DEF I!DiscardEv, OnePoll
<1>9. CASE I!polled(q)
  BY <1>1, <1>2, <1>9 DEF I!polled, I!Set, I!Delete, OnePoll
<1>10. CASE I!discard_poll(q)
  BY <1>1, <1>2, <1>10 DEF I!discard_poll, I!Set, I!Delete, OnePoll
<1>11. CASE I!CallEvent(q)
  BY <1>1, <1>2, <1>11 DEF I!CallEvent, OnePoll
<1>12. CASE I!event_add(q)
  BY <1>1, <1>2, <1>12 DEF I!event_add, OnePoll
<1>13. CASE I!onDiscard(q)
  BY <1>1, <1>2, <1>13 DEF I!onDiscard, OnePoll
<1>14. CASE I!pollDiscard(q)
  BY <1>1, <1>2, <1>14 DEF I!pollDiscard, OnePoll
<1>15. CASE I!RunDiscard(q)
  BY <1>1, <1>2, <1>15 DEF I!RunDiscard, OnePoll
<1>16. CASE I!pollCallback(q)
  BY <1>1, <1>2, <1>16 DEF I!pollCallback, I!Set, I!Delete, OnePoll
<1>17. CASE I!Ready(q)
  BY <1>1, <1>2, <1>17 DEF I!Ready, OnePoll
<1>18. ASSUME NEW p \in Polls,
             \/ I!CallEv(p) \/ I!_run_in_event_loop(p) \/ I!StartEv(p) \/ I!DiscardEv(p)
             \/ I!polled(p) \/ I!discard_poll(p) \/ I!CallEvent(p) \/ I!event_add(p)
             \/ I!onDiscard(p) \/ I!pollDiscard(p) \/ I!RunDiscard(p)
             \/ I!pollCallback(p) \/ I!Ready(p)
      PROVE  OnePoll(q)'
  <2>1. lib' = lib
    BY <1>18, Zenon DEF I!CallEv, I!_run_in_event_loop, I!StartEv, I!DiscardEv, I!polled,
       I!discard_poll, I!CallEvent, I!event_add, I!onDiscard, I!pollDiscard,
       I!RunDiscard, I!pollCallback, I!Ready
  <2>2. CASE p = q
    BY <1>5, <1>6, <1>7, <1>8, <1>9, <1>10, <1>11, <1>12, <1>13, <1>14, <1>15, <1>16,
       <1>17, <1>18, <2>2, Zenon
  <2> QED BY <1>4, <1>18, <2>1, <2>2, Zenon
<1>19. ASSUME \/ I!handle_async \/ I!handle_shutdown \/ I!stop \/ UNCHANGED I!vars
              \/ \E d \in Delays : I!RunDelay(d) \/ I!handle_delay(d) \/ I!Delay(d)
       PROVE  OnePoll(q)'
  BY <1>3, <1>19, Zenon DEF I!handle_async, I!handle_shutdown, I!stop, I!vars,
     I!RunDelay, I!handle_delay, I!Delay
<1> QED BY <1>18, <1>19, Zenon DEF I!Next, I!EventLoop, I!Caller, I!Calling

\* Only its own beginning makes a poll begin.
LEMMA FreshKept ==
  ASSUME PollInv, NEW q, Fresh(q)
  PROVE  /\ \A p \in Polls :
              \/ p # q /\ (I!_run_in_event_loop(p) \/ I!StartEv(p))
              \/ I!_run_in_event_loop(p) /\ ~discard[p]
              \/ I!CallEv(p) \/ I!DiscardEv(p) \/ I!polled(p) \/ I!discard_poll(p)
              \/ I!CallEvent(p) \/ I!event_add(p) \/ I!onDiscard(p) \/ I!pollDiscard(p)
              \/ I!RunDiscard(p) \/ I!pollCallback(p) \/ I!Ready(p)
              => Fresh(q)'
         /\ \/ I!handle_async \/ I!handle_shutdown \/ I!stop \/ UNCHANGED I!vars
            \/ \E d \in Delays : I!RunDelay(d) \/ I!handle_delay(d) \/ I!Delay(d)
            => Fresh(q)'
<1>1. I!TypeOK /\ q \in Polls
  BY DEF PollInv, Fresh
<1>2. /\ q \in DOMAIN poll /\ q \in DOMAIN io /\ q \in DOMAIN async /\ q \in DOMAIN caller
      /\ q \in DOMAIN promise
  BY <1>1 DEF I!TypeOK
<1>3. ASSUME NEW p \in Polls,
             \/ p # q /\ (I!_run_in_event_loop(p) \/ I!StartEv(p))
             \/ I!_run_in_event_loop(p) /\ ~discard[p]
             \/ I!CallEv(p) \/ I!DiscardEv(p) \/ I!polled(p) \/ I!discard_poll(p)
             \/ I!CallEvent(p) \/ I!event_add(p) \/ I!onDiscard(p) \/ I!pollDiscard(p)
             \/ I!RunDiscard(p) \/ I!pollCallback(p) \/ I!Ready(p)
      PROVE  Fresh(q)'
  <2>1. lib' = lib /\ poll'[q] = poll[q]
    BY <1>2, <1>3 DEF Fresh, I!CallEv, I!_run_in_event_loop, I!StartEv, I!DiscardEv,
       I!polled,
      I!discard_poll, I!CallEvent, I!event_add, I!onDiscard, I!pollDiscard, I!RunDiscard,
      I!pollCallback, I!Ready, I!Delete
  <2>2. io'[q] = io[q]
    BY <1>2, <1>3 DEF Fresh, I!CallEv, I!_run_in_event_loop, I!StartEv, I!DiscardEv,
       I!polled,
      I!discard_poll, I!CallEvent, I!event_add, I!onDiscard, I!pollDiscard, I!RunDiscard,
      I!pollCallback, I!Ready
  <2>3. async'[q] = async[q]
    BY <1>2, <1>3 DEF Fresh, I!CallEv, I!_run_in_event_loop, I!StartEv, I!DiscardEv,
       I!polled,
      I!discard_poll, I!CallEvent, I!event_add, I!onDiscard, I!pollDiscard, I!RunDiscard,
      I!pollCallback, I!Ready
  <2>4. caller'[q] = caller[q]
    BY <1>2, <1>3 DEF Fresh, I!CallEv, I!_run_in_event_loop, I!StartEv, I!DiscardEv,
       I!polled,
      I!discard_poll, I!CallEvent, I!event_add, I!onDiscard, I!pollDiscard, I!RunDiscard,
      I!pollCallback, I!Ready
  <2>5. promise'[q] = promise[q]
    BY <1>2, <1>3 DEF Fresh, I!CallEv, I!_run_in_event_loop, I!StartEv, I!DiscardEv,
       I!polled,
      I!discard_poll, I!CallEvent, I!event_add, I!onDiscard, I!pollDiscard, I!RunDiscard,
      I!pollCallback, I!Ready, I!Set
  <2> QED BY <1>1, <2>1, <2>2, <2>3, <2>4, <2>5, Zenon DEF Fresh
<1>4. ASSUME \/ I!handle_async \/ I!handle_shutdown \/ I!stop \/ UNCHANGED I!vars
             \/ \E d \in Delays : I!RunDelay(d) \/ I!handle_delay(d) \/ I!Delay(d)
      PROVE  Fresh(q)'
  BY <1>4, Zenon DEF Fresh, I!handle_async, I!handle_shutdown, I!stop, I!vars, I!RunDelay,
                     I!handle_delay, I!Delay
<1> QED BY <1>3, <1>4, Zenon

-----------------------------------------------------------------------------
\* run_in_event_loop, and the end of a function that ran, on the queues.
Queue(f) == functions' = Append(functions, f) /\ UNCHANGED running
Pop == running # <<>> /\ running' = Tail(running) /\ UNCHANGED functions

\* The queues are sequences of functions.
LEMMA QueueTypes ==
  ASSUME PollInv
  PROVE  functions \in Seq(I!Function) /\ running \in Seq(I!Function)
         /\ Len(functions) \in Nat /\ Len(running) \in Nat
<1>1. functions \in Seq(I!Function) /\ running \in Seq(I!Function)
  BY DEF PollInv, I!TypeOK
<1> QED BY <1>1

\* How these change with a sequence.
LEMMA AppendBegins ==
  ASSUME NEW S, NEW s \in Seq(S), NEW e \in S, NEW t, Once(s), Apart(s, t),
         Begins(e) => ~BeginsIn(s, e[2]) /\ ~BeginsIn(t, e[2])
  PROVE  /\ Once(Append(s, e)) /\ Apart(Append(s, e), t)
         /\ \A q : BeginsIn(Append(s, e), q) => BeginsIn(s, q) \/ (Begins(e) /\ e[2] = q)
<1>1. PICK u : u = Append(s, e)
  OBVIOUS
<1>2. /\ Len(s) \in Nat /\ Len(u) = Len(s) + 1 /\ u[Len(s) + 1] = e
      /\ \A k \in 1..Len(s) : u[k] = s[k]
  BY <1>1, AppendFacts
<1>3. \A k \in 1..Len(u) : (k \in 1..Len(s) /\ u[k] = s[k]) \/ (u[k] = e /\ k = Len(s) + 1)
  BY <1>2
<1>4. ASSUME NEW j \in 1..Len(u), NEW k \in 1..Len(u), Begins(u[j]), Begins(u[k]),
             u[j][2] = u[k][2]
      PROVE  j = k
  <2>1. CASE j \in 1..Len(s) /\ u[j] = s[j] /\ k \in 1..Len(s) /\ u[k] = s[k]
    BY <1>4, <2>1, Zenon DEF Once
  <2>2. CASE u[j] = e /\ k \in 1..Len(s) /\ u[k] = s[k]
    BY <1>4, <2>2, Zenon DEF BeginsIn
  <2>3. CASE u[k] = e /\ j \in 1..Len(s) /\ u[j] = s[j]
    BY <1>4, <2>3, Zenon DEF BeginsIn
  <2>4. CASE j = Len(s) + 1 /\ k = Len(s) + 1
    BY <2>4, Zenon
  <2> QED BY <1>3, <2>1, <2>2, <2>3, <2>4, Zenon
<1>5. Apart(u, t)
  BY <1>3, Zenon DEF Apart, BeginsIn
<1>6. \A q : BeginsIn(u, q) => BeginsIn(s, q) \/ (Begins(e) /\ e[2] = q)
  BY <1>3, Zenon DEF BeginsIn
<1> QED BY <1>1, <1>4, <1>5, <1>6, Zenon DEF Once

\* The queue without its head, which began.
LEMMA TailBegins ==
  ASSUME NEW S, NEW s \in Seq(S), s # <<>>, NEW t, Once(s), Apart(t, s)
  PROVE  /\ Once(Tail(s)) /\ Apart(t, Tail(s))
         /\ \A q : BeginsIn(Tail(s), q) => BeginsIn(s, q) /\ ~(Begins(s[1]) /\ s[1][2] = q)
         /\ \A q : Begins(s[1]) /\ s[1][2] = q => ~BeginsIn(t, q)
<1>1. PICK u : u = Tail(s)
  OBVIOUS
<1>2. /\ \A k \in 1..Len(u) : u[k] = s[k + 1] /\ k + 1 \in 1..Len(s)
      /\ 1 \in 1..Len(s) /\ Len(u) \in Nat
  BY <1>1, TailFacts
<1>3. (\A j, k \in 1..Len(u) : j + 1 = k + 1 => j = k) /\ \A k \in 1..Len(u) : k + 1 # 1
  BY <1>2
<1>4. ASSUME NEW j \in 1..Len(u), NEW k \in 1..Len(u), Begins(u[j]), Begins(u[k]),
             u[j][2] = u[k][2]
      PROVE  j = k
  <2>1. j + 1 \in 1..Len(s) /\ k + 1 \in 1..Len(s) /\ u[j] = s[j + 1] /\ u[k] = s[k + 1]
    BY <1>2, Zenon
  <2> QED BY <1>3, <1>4, <2>1, Zenon DEF Once
<1>5. ASSUME NEW j \in 1..Len(t), NEW k \in 1..Len(u), Begins(t[j]), Begins(u[k])
      PROVE  t[j][2] # u[k][2]
  <2>1. k + 1 \in 1..Len(s) /\ u[k] = s[k + 1]
    BY <1>2, Zenon
  <2> QED BY <1>5, <2>1, Zenon DEF Apart
<1>6. \A q : BeginsIn(u, q) => BeginsIn(s, q) /\ ~(Begins(s[1]) /\ s[1][2] = q)
  BY <1>2, <1>3, Zenon DEF BeginsIn, Once
<1>7. \A q : Begins(s[1]) /\ s[1][2] = q => ~BeginsIn(t, q)
  BY <1>2, Zenon DEF BeginsIn, Apart
<1> QED BY <1>1, <1>4, <1>5, <1>6, <1>7, Zenon DEF Once, Apart

\* The queue whose head goes on.
LEMMA ReplaceBegins ==
  ASSUME NEW S, NEW s \in Seq(S), s # <<>>, NEW e \in S, NEW t, Once(s), Apart(t, s),
         Begins(s[1]), s[1][2] = e[2], NEW u, u = <<e>> \o Tail(s)
  PROVE  /\ Once(u) /\ Apart(t, u) /\ \A q : BeginsIn(u, q) => BeginsIn(s, q)
<1>1. /\ Len(u) = Len(s) /\ u[1] = e /\ \A k \in 1..Len(s) : k # 1 => u[k] = s[k]
  BY ReplaceHead
<1>2. \A k \in 1..Len(u) :
        k \in 1..Len(s) /\ (Begins(u[k]) => Begins(s[k]) /\ u[k][2] = s[k][2])
  BY <1>1, Zenon
<1>3. ASSUME NEW j \in 1..Len(u), NEW k \in 1..Len(u), Begins(u[j]), Begins(u[k]),
             u[j][2] = u[k][2]
      PROVE  j = k
  BY <1>2, <1>3, Zenon DEF Once
<1>4. Apart(t, u)
  BY <1>2, Zenon DEF Apart
<1>5. \A q : BeginsIn(u, q) => BeginsIn(s, q)
  BY <1>2, Zenon DEF BeginsIn
<1> QED BY <1>3, <1>4, <1>5, Zenon DEF Once

\* A function is added that does not begin a poll, or begins a new one.
LEMMA Queued ==
  ASSUME PollInv, NEW f \in I!Function, Queue(f), \A q \in Polls : Fresh(q) => Fresh(q)',
         \A q \in Polls : Begins(f) /\ f[2] = q => ~Fresh(q) /\ Fresh(q)',
         Begins(f) => f[2] \in Polls
  PROVE  PollQueues'
<1>1. /\ functions \in Seq(I!Function) /\ Once(functions) /\ Once(running)
      /\ Apart(functions, running) /\ Unbegun
  BY QueueTypes, Zenon DEF PollInv, PollQueues
<1>2. Begins(f) => ~BeginsIn(functions, f[2]) /\ ~BeginsIn(running, f[2])
  BY <1>1, Zenon DEF Unbegun
<1>3. PICK s, t : s = functions /\ t = running
  OBVIOUS
<1>4. functions' = Append(s, f) /\ running' = t
  BY <1>3, Zenon DEF Queue
<1>5. /\ Once(Append(s, f)) /\ Apart(Append(s, f), t)
      /\ \A q : BeginsIn(Append(s, f), q) => BeginsIn(s, q) \/ (Begins(f) /\ f[2] = q)
  BY <1>1, <1>2, <1>3, AppendBegins
<1>6. ASSUME NEW q \in Polls, BeginsIn(Append(s, f), q) \/ BeginsIn(t, q) PROVE Fresh(q)'
  BY <1>1, <1>3, <1>5, <1>6, Zenon DEF Unbegun
<1> QED BY <1>1, <1>3, <1>4, <1>5, <1>6, Zenon DEF PollQueues, Unbegun

\* The function at the head has been run.
LEMMA PopHead ==
  ASSUME PollInv, Pop,
         \A q \in Polls : Fresh(q) => Fresh(q)' \/ (Begins(running[1]) /\ running[1][2] = q)
  PROVE  PollQueues'
<1>1. /\ running \in Seq(I!Function) /\ Once(functions) /\ Once(running)
      /\ Apart(functions, running) /\ Unbegun /\ running # <<>>
  BY QueueTypes, Zenon DEF PollInv, PollQueues, Pop
<1>2. PICK s, t : s = running /\ t = functions
  OBVIOUS
<1>3. running' = Tail(s) /\ functions' = t
  BY <1>2, Zenon DEF Pop
<1>4. /\ Once(Tail(s)) /\ Apart(t, Tail(s))
      /\ \A q : BeginsIn(Tail(s), q) => BeginsIn(s, q) /\ ~(Begins(s[1]) /\ s[1][2] = q)
      /\ \A q : Begins(s[1]) /\ s[1][2] = q => ~BeginsIn(t, q)
  BY <1>1, <1>2, TailBegins
<1>5. ASSUME NEW q \in Polls, BeginsIn(t, q) \/ BeginsIn(Tail(s), q) PROVE Fresh(q)'
  BY <1>1, <1>2, <1>4, <1>5, Zenon DEF Unbegun
<1> QED BY <1>1, <1>2, <1>3, <1>4, <1>5, Zenon DEF PollQueues, Unbegun

\* _run_in_event_loop goes on to start the watchers.
LEMMA HeadGoesOn ==
  ASSUME PollInv, NEW p \in Polls, running # <<>>, running[1] = <<"poll", p>>,
         running' = <<<<"start", p>>>> \o Tail(running), UNCHANGED functions,
         \A q \in Polls : Fresh(q) => Fresh(q)'
  PROVE  PollQueues'
<1>1. PICK e : e = <<"start", p>> /\ e[2] = p /\ e \in I!Function
  BY DEF I!Function
<1>2. /\ running \in Seq(I!Function) /\ Once(functions) /\ Once(running)
      /\ Apart(functions, running) /\ Unbegun
  BY QueueTypes, Zenon DEF PollInv, PollQueues
<1>3. Begins(running[1]) /\ running[1][2] = p
  BY DEF Begins
<1>4. PICK s, t, u : s = running /\ t = functions /\ u = <<e>> \o Tail(s)
  OBVIOUS
<1>5. Once(u) /\ Apart(t, u) /\ \A q : BeginsIn(u, q) => BeginsIn(s, q)
  BY <1>1, <1>2, <1>3, <1>4, ReplaceBegins
<1>6. running' = u /\ functions' = t
  BY <1>1, <1>4, Zenon
<1>7. ASSUME NEW q \in Polls, BeginsIn(t, q) \/ BeginsIn(u, q) PROVE Fresh(q)'
  BY <1>2, <1>4, <1>5, <1>7, Zenon DEF Unbegun
<1> QED BY <1>2, <1>4, <1>5, <1>6, <1>7, Zenon DEF PollQueues, Unbegun

\* The queues do not change, or the loop takes all functions over.
LEMMA QueuesMoved ==
  ASSUME PollInv, \A q \in Polls : Fresh(q) => Fresh(q)',
         \/ UNCHANGED <<functions, running>>
         \/ running = <<>> /\ running' = functions /\ functions' = <<>>
  PROVE  PollQueues'
<1>1. Once(functions) /\ Once(running) /\ Apart(functions, running) /\ Unbegun
  BY Zenon DEF PollInv, PollQueues
<1>2. CASE UNCHANGED <<functions, running>>
  BY <1>1, <1>2, Zenon DEF PollQueues, Unbegun
<1>3. CASE running = <<>> /\ running' = functions /\ functions' = <<>>
  <2>1. Once(<<>>) /\ (\A s : Apart(<<>>, s)) /\ \A q : ~BeginsIn(<<>>, q)
    BY DEF Once, Apart, BeginsIn
  <2> QED BY <1>1, <1>3, <2>1, Zenon DEF PollQueues, Unbegun
<1> QED BY <1>2, <1>3, Zenon

\* The functions that are queued.
LEMMA FunctionTypes ==
  /\ \A p \in Polls : /\ <<"poll", p>> \in I!Function /\ <<"poll", p>>[2] = p
                      /\ Begins(<<"poll", p>>)
                      /\ <<"start", p>> \in I!Function /\ <<"start", p>>[2] = p
                      /\ Begins(<<"start", p>>)
                      /\ <<"discard", p>> \in I!Function /\ ~Begins(<<"discard", p>>)
  /\ \A d \in Delays : <<"delay", d>> \in I!Function /\ ~Begins(<<"delay", d>>)
  BY DEF I!Function, Begins

\* Every step keeps the queues as they should be.
LEMMA QueuesStep == ASSUME PollInv, [I!Next]_I!vars PROVE PollQueues'
<1>1. ASSUME NEW p \in Polls, I!CallEv(p) PROVE PollQueues'
  <2>1. PICK f : f = <<"poll", p>>
    OBVIOUS
  <2>2. f \in I!Function /\ f[2] = p
    BY <2>1, FunctionTypes, Zenon
  <2>3. Queue(f)
    BY <1>1, <2>1, Zenon DEF I!CallEv, I!run_in_event_loop, Queue
  <2>4. \A q \in Polls : Fresh(q) => Fresh(q)'
    BY <1>1, FreshKept, Zenon
  <2>5. ~Fresh(p)
    BY <1>1 DEF I!CallEv, Fresh
  <2>6. Fresh(p)'
    <3>1. p \in DOMAIN caller /\ OnePoll(p) /\ io[p] \in I!Watcher /\ async[p] \in I!Watcher
      BY DEF PollInv, I!TypeOK
    <3> QED BY <1>1, <3>1 DEF I!CallEv, Fresh, OnePoll
  <2> QED BY <2>2, <2>3, <2>4, <2>5, <2>6, Queued
<1>2. ASSUME NEW p \in Polls, I!pollDiscard(p) PROVE PollQueues'
  <2>1. PICK f : f = <<"discard", p>>
    OBVIOUS
  <2>2. f \in I!Function /\ ~Begins(f)
    BY <2>1, FunctionTypes, Zenon
  <2>3. Queue(f)
    BY <1>2, <2>1, Zenon DEF I!pollDiscard, I!run_in_event_loop, Queue
  <2>4. \A q \in Polls : Fresh(q) => Fresh(q)'
    BY <1>2, FreshKept, Zenon
  <2> QED BY <2>2, <2>3, <2>4, Queued
<1>3. ASSUME NEW d \in Delays, I!Delay(d) PROVE PollQueues'
  <2>4. \A q \in Polls : Fresh(q) => Fresh(q)'
    BY <1>3, FreshKept, Zenon
  <2>5. CASE lib = "libev"
    <3>1. PICK f : f = <<"delay", d>>
      OBVIOUS
    <3>2. f \in I!Function /\ ~Begins(f)
      BY <3>1, FunctionTypes, Zenon
    <3>3. Queue(f)
      BY <1>3, <2>5, <3>1, Zenon DEF I!Delay, I!run_in_event_loop, Queue
    <3> QED BY <2>4, <3>2, <3>3, Queued
  <2>6. CASE lib # "libev"
    BY <1>3, <2>4, <2>6, QueuesMoved, Zenon DEF I!Delay
  <2> QED BY <2>5, <2>6
<1>4. ASSUME NEW p \in Polls, I!_run_in_event_loop(p) PROVE PollQueues'
  <2>1. running[1] = <<"poll", p>> /\ running # <<>>
    BY <1>4, HeadIs, Zenon DEF I!_run_in_event_loop
  <2>2. CASE discard[p]
    <3>1. Begins(running[1]) /\ running[1][2] = p
      BY <2>1, FunctionTypes, Zenon
    <3>2. \A q \in Polls : Fresh(q) => Fresh(q)' \/ q = p
      BY <1>4, FreshKept, Zenon
    <3>3. Pop
      BY <1>4, <2>2, Zenon DEF I!_run_in_event_loop, Pop
    <3> QED BY <3>1, <3>2, <3>3, PopHead, Zenon
  <2>3. CASE ~discard[p]
    <3>1. \A q \in Polls : Fresh(q) => Fresh(q)'
      BY <1>4, <2>3, FreshKept, Zenon
    <3>2. running' = <<<<"start", p>>>> \o Tail(running) /\ UNCHANGED functions
      BY <1>4, <2>3, Zenon DEF I!_run_in_event_loop
    <3> QED BY <2>1, <3>1, <3>2, HeadGoesOn, Zenon
  <2> QED BY <2>2, <2>3
<1>5. ASSUME NEW p \in Polls, I!StartEv(p) PROVE PollQueues'
  <2>1. running[1] = <<"start", p>>
    BY <1>5, HeadIs, Zenon DEF I!StartEv
  <2>2. Begins(running[1]) /\ running[1][2] = p
    BY <2>1, FunctionTypes, Zenon
  <2>3. \A q \in Polls : Fresh(q) => Fresh(q)' \/ q = p
    BY <1>5, FreshKept, Zenon
  <2>4. Pop
    BY <1>5, Zenon DEF I!StartEv, Pop
  <2> QED BY <2>2, <2>3, <2>4, PopHead, Zenon
<1>6. ASSUME NEW p \in Polls, I!RunDiscard(p) PROVE PollQueues'
  <2>1. \A q \in Polls : Fresh(q) => Fresh(q)'
    BY <1>6, FreshKept, Zenon
  <2>2. Pop
    BY <1>6, Zenon DEF I!RunDiscard, Pop
  <2> QED BY <2>1, <2>2, PopHead, Zenon
<1>7. ASSUME NEW d \in Delays, I!RunDelay(d) PROVE PollQueues'
  <2>1. \A q \in Polls : Fresh(q) => Fresh(q)'
    BY <1>7, FreshKept, Zenon
  <2>2. Pop
    BY <1>7, Zenon DEF I!RunDelay, Pop
  <2> QED BY <2>1, <2>2, PopHead, Zenon
<1>8. ASSUME NEW p \in Polls,
             \/ I!DiscardEv(p) \/ I!polled(p) \/ I!discard_poll(p) \/ I!CallEvent(p)
             \/ I!event_add(p) \/ I!onDiscard(p) \/ I!pollCallback(p) \/ I!Ready(p)
      PROVE  PollQueues'
  <2>1. \A q \in Polls : Fresh(q) => Fresh(q)'
    BY <1>8, FreshKept, Zenon
  <2>2. UNCHANGED <<functions, running>>
    BY <1>8, Zenon DEF I!DiscardEv, I!polled, I!discard_poll, I!CallEvent, I!event_add,
                       I!onDiscard, I!pollCallback, I!Ready
  <2> QED BY <2>1, <2>2, QueuesMoved, Zenon
<1>9. ASSUME \/ I!handle_async \/ I!handle_shutdown \/ I!stop \/ UNCHANGED I!vars
             \/ \E d \in Delays : I!handle_delay(d)
      PROVE  PollQueues'
  <2>1. \A q \in Polls : Fresh(q) => Fresh(q)'
    BY <1>9, FreshKept, Zenon
  <2>2. \/ UNCHANGED <<functions, running>>
        \/ running = <<>> /\ running' = functions /\ functions' = <<>>
    BY <1>9, Zenon DEF I!handle_async, I!handle_shutdown, I!stop, I!vars, I!handle_delay
  <2> QED BY <2>1, <2>2, QueuesMoved, Zenon
<1> QED BY <1>1, <1>2, <1>3, <1>4, <1>5, <1>6, <1>7, <1>8, <1>9, Zenon
      DEF I!Next, I!EventLoop, I!Caller, I!Calling

-----------------------------------------------------------------------------
\* The bound on activations that Poll's type invariant states.
LEMMA WakeInBound ==
  ASSUME IsFiniteSet(Polls), IsFiniteSet(Delays), NEW D, D \subseteq Polls,
         NEW w \in Nat, w <= Cardinality(D) \/ w = 0 \/ (w = 1 /\ Polls \cup Delays # {})
  PROVE  w \in 0..(2 * Cardinality(Polls) + Cardinality(Delays))
<1>1. Cardinality(Polls) \in Nat /\ Cardinality(Delays) \in Nat
  BY FS_CardinalityType, Zenon
<1>2. Cardinality(D) \in Nat /\ Cardinality(D) <= Cardinality(Polls)
  <2>1. IsFiniteSet(D) /\ Cardinality(D) <= Cardinality(Polls)
    BY FS_Subset
  <2> QED BY <2>1, FS_CardinalityType, Zenon
<1>3. Polls \cup Delays # {} => Cardinality(Polls) # 0 \/ Cardinality(Delays) # 0
  BY FS_EmptySet
<1> QED BY <1>1, <1>2, <1>3

\* Every step keeps the bound on the activations.
LEMMA WakeStep ==
  ASSUME IsFiniteSet(Polls), IsFiniteSet(Delays), PollInv, [I!Next]_I!vars
  PROVE  WakeBound' /\ wake' \in Nat /\ lib' = lib
<1>1. wake \in Nat /\ lib \in {"libev", "libevent"} /\ WakeBound
  BY DEF PollInv, I!TypeOK
<1>2. ASSUME UNCHANGED lib, wake' \in Nat, wake' <= wake, UNCHANGED discard
      PROVE  WakeBound'
  <2>1. PICK c : c = Cardinality(Discarded)
    OBVIOUS
  <2>2. Cardinality(Discarded)' = c
    BY <1>2, <2>1, Zenon DEF Discarded
  <2>3. c \in Nat
    <3>1. Discarded \in SUBSET Polls
      BY DEF Discarded
    <3> QED BY <2>1, <3>1, FS_Subset, FS_CardinalityType
  <2> QED BY <1>1, <1>2, <2>1, <2>2, <2>3 DEF WakeBound
<1>3. ASSUME UNCHANGED <<lib, wake, discard>> PROVE WakeBound' /\ wake' \in Nat
  <2>1. wake' \in Nat /\ wake' <= wake
    BY <1>1, <1>3
  <2> QED BY <1>2, <1>3, <2>1
<1>4. CASE I!handle_async
  <2>1. wake' \in Nat /\ wake' <= wake /\ UNCHANGED <<lib, discard>>
    BY <1>1, <1>4 DEF I!handle_async
  <2> QED BY <1>2, <2>1
<1>5. ASSUME lib = "libev", UNCHANGED lib, wake' = 1, Polls \cup Delays # {}
      PROVE  WakeBound' /\ wake' \in Nat
  BY <1>5 DEF WakeBound
<1>6. ASSUME NEW p \in Polls, I!CallEv(p) PROVE WakeBound' /\ wake' \in Nat /\ lib' = lib
  BY <1>5, <1>6 DEF I!CallEv, I!run_in_event_loop
<1>7. ASSUME NEW d \in Delays, I!Delay(d) PROVE WakeBound' /\ wake' \in Nat /\ lib' = lib
  BY <1>3, <1>5, <1>7 DEF I!Delay, I!run_in_event_loop
<1>8. ASSUME NEW p \in Polls, I!pollDiscard(p) PROVE WakeBound' /\ wake' \in Nat /\ lib' = lib
  <2>1. /\ lib = "libevent" /\ lib' = lib /\ wake' = wake + 1 /\ ~discard[p]
        /\ discard' = [discard EXCEPT ![p] = TRUE]
    BY <1>8 DEF I!pollDiscard, I!run_in_event_loop
  <2>2. Discarded' = Discarded \cup {p} /\ p \notin Discarded /\ Discarded \in SUBSET Polls
    BY <2>1 DEF Discarded, PollInv, I!TypeOK
  <2>3. PICK D : D = Discarded
    OBVIOUS
  <2>4. IsFiniteSet(D)
    BY <2>2, <2>3, FS_Subset
  <2>5. Cardinality(D \cup {p}) = Cardinality(D) + 1 /\ Cardinality(D) \in Nat
    BY <2>2, <2>3, <2>4, FS_AddElement, FS_CardinalityType
  <2>6. Cardinality(Discarded)' = Cardinality(D \cup {p})
    BY <2>2, <2>3, Zenon
  <2>7. wake <= Cardinality(D)
    BY <1>1, <2>1, <2>3, Zenon DEF WakeBound
  <2> QED BY <1>1, <2>1, <2>5, <2>6, <2>7 DEF WakeBound
<1>9. ASSUME NEW p \in Polls, I!DiscardEv(p) PROVE WakeBound' /\ wake' \in Nat /\ lib' = lib
  BY <1>1, <1>9 DEF I!DiscardEv, WakeBound
<1>10. ASSUME NEW p \in Polls,
             \/ I!_run_in_event_loop(p) \/ I!StartEv(p)
             \/ I!polled(p) \/ I!discard_poll(p) \/ I!CallEvent(p) \/ I!event_add(p)
             \/ I!onDiscard(p) \/ I!RunDiscard(p) \/ I!pollCallback(p) \/ I!Ready(p)
       PROVE WakeBound' /\ wake' \in Nat /\ lib' = lib
  <2>1. UNCHANGED <<lib, wake, discard>>
    BY <1>10, Zenon DEF I!_run_in_event_loop, I!StartEv, I!polled, I!discard_poll,
       I!CallEvent,
         I!event_add, I!onDiscard, I!RunDiscard, I!pollCallback, I!Ready
  <2> QED BY <1>3, <2>1, Zenon
<1>11. ASSUME \/ I!handle_shutdown \/ I!stop \/ UNCHANGED I!vars
              \/ \E d \in Delays : I!RunDelay(d) \/ I!handle_delay(d)
       PROVE WakeBound' /\ wake' \in Nat /\ lib' = lib
  <2>1. UNCHANGED <<lib, wake, discard>>
    BY <1>11, Zenon DEF I!handle_shutdown, I!stop, I!vars, I!RunDelay, I!handle_delay
  <2> QED BY <1>3, <2>1, Zenon
<1>12. I!handle_async => wake' \in Nat /\ lib' = lib
  BY <1>1 DEF I!handle_async
<1> QED BY <1>4, <1>6, <1>7, <1>8, <1>9, <1>10, <1>11, <1>12, Zenon
      DEF I!Next, I!EventLoop, I!Caller, I!Calling

\* Every step leaves sequences of functions.
LEMMA SeqsStep ==
  ASSUME PollInv, [I!Next]_I!vars
  PROVE  functions' \in Seq(I!Function) /\ running' \in Seq(I!Function)
<1>1. functions \in Seq(I!Function) /\ running \in Seq(I!Function) /\ <<>> \in Seq(I!Function)
  BY QueueTypes
<1>2. ASSUME NEW f \in I!Function PROVE Append(functions, f) \in Seq(I!Function)
  BY <1>1, AppendFacts
<1>3. running # <<>> => Tail(running) \in Seq(I!Function)
  BY <1>1, TailFacts
<1>4. ASSUME NEW f \in I!Function, running # <<>>
      PROVE  <<f>> \o Tail(running) \in Seq(I!Function)
  BY <1>1, <1>4, ReplaceHead
<1>5. ASSUME NEW p \in Polls,
             \/ I!CallEv(p) \/ I!_run_in_event_loop(p) \/ I!StartEv(p) \/ I!DiscardEv(p)
             \/ I!polled(p) \/ I!discard_poll(p) \/ I!CallEvent(p) \/ I!event_add(p)
             \/ I!onDiscard(p) \/ I!pollDiscard(p) \/ I!RunDiscard(p)
             \/ I!pollCallback(p) \/ I!Ready(p)
      PROVE  functions' \in Seq(I!Function) /\ running' \in Seq(I!Function)
  <2>1. /\ <<"poll", p>> \in I!Function /\ <<"start", p>> \in I!Function
        /\ <<"discard", p>> \in I!Function
    BY FunctionTypes, Zenon
  <2>2. /\ Append(functions, <<"poll", p>>) \in Seq(I!Function)
        /\ Append(functions, <<"discard", p>>) \in Seq(I!Function)
        /\ running # <<>> => <<<<"start", p>>>> \o Tail(running) \in Seq(I!Function)
    BY <1>2, <1>4, <2>1, Zenon
  <2> QED BY <1>1, <1>3, <1>5, <2>2, Zenon
      DEF I!CallEv, I!_run_in_event_loop, I!StartEv, I!DiscardEv, I!polled,
      I!discard_poll, I!CallEvent, I!event_add, I!onDiscard, I!pollDiscard, I!RunDiscard,
      I!pollCallback, I!Ready, I!run_in_event_loop
<1>6. ASSUME NEW d \in Delays, I!Delay(d) \/ I!RunDelay(d) \/ I!handle_delay(d)
      PROVE  functions' \in Seq(I!Function) /\ running' \in Seq(I!Function)
  <2>1. Append(functions, <<"delay", d>>) \in Seq(I!Function)
    BY <1>2, FunctionTypes, Zenon
  <2> QED BY <1>1, <1>3, <1>6, <2>1, Zenon
      DEF I!Delay, I!RunDelay, I!handle_delay, I!run_in_event_loop
<1>7. ASSUME I!handle_async \/ I!handle_shutdown \/ I!stop \/ UNCHANGED I!vars
      PROVE  functions' \in Seq(I!Function) /\ running' \in Seq(I!Function)
  BY <1>1, <1>7, Zenon DEF I!handle_async, I!handle_shutdown, I!stop, I!vars
<1> QED BY <1>5, <1>6, <1>7, Zenon DEF I!Next, I!EventLoop, I!Caller, I!Calling

\* The other variables.
PollVars ==
  /\ poll \in [Polls -> {"none", "alive", "deleted"}]
  /\ io \in [Polls -> I!Watcher] /\ async \in [Polls -> I!Watcher]
  /\ caller \in [Polls -> {"idle", "add", "onDiscard", "done"}]
  /\ discard \in [Polls -> BOOLEAN]
  /\ promise \in [Polls -> {"pending", "ready", "wrong", "discarded"}]
  /\ delay \in [Delays -> {"none", "queued", "armed", "fired"}]
  /\ loop \in {"running", "stopping", "stopped"}

\* Every step keeps the types of the other variables.
LEMMA PollVarsStep == ASSUME PollVars, [I!Next]_I!vars PROVE PollVars'
<1>1. ASSUME NEW p \in Polls,
             \/ I!CallEv(p) \/ I!_run_in_event_loop(p) \/ I!StartEv(p) \/ I!DiscardEv(p)
             \/ I!polled(p) \/ I!discard_poll(p) \/ I!CallEvent(p) \/ I!event_add(p)
             \/ I!onDiscard(p) \/ I!pollDiscard(p) \/ I!RunDiscard(p)
             \/ I!pollCallback(p) \/ I!Ready(p)
      PROVE  PollVars'
  <2>1. poll' \in [Polls -> {"none", "alive", "deleted"}]
    <3>1. poll \in [Polls -> {"none", "alive", "deleted"}]
      BY Zenon DEF PollVars
    <3>2. CASE I!StartEv(p) \/ I!polled(p) \/ I!discard_poll(p) \/ I!CallEvent(p) \/
       I!pollCallback(p)
      BY <3>1, <3>2 DEF I!StartEv, I!polled, I!discard_poll, I!CallEvent,
         I!pollCallback, I!Delete
    <3>3. CASE I!CallEv(p) \/ I!_run_in_event_loop(p) \/ I!DiscardEv(p) \/
       I!event_add(p) \/ I!onDiscard(p) \/ I!pollDiscard(p) \/ I!RunDiscard(p) \/
       I!Ready(p)
      BY <3>1, <3>3, Zenon DEF I!CallEv, I!_run_in_event_loop, I!DiscardEv, I!event_add,
         I!onDiscard, I!pollDiscard, I!RunDiscard, I!Ready
    <3> QED BY <1>1, <3>2, <3>3, Zenon
  <2>2. io' \in [Polls -> I!Watcher]
    <3>1. io \in [Polls -> I!Watcher]
      BY Zenon DEF PollVars
    <3>2. CASE I!StartEv(p) \/ I!polled(p) \/ I!discard_poll(p) \/ I!event_add(p) \/
       I!RunDiscard(p) \/ I!pollCallback(p) \/ I!Ready(p)
      BY <3>1, <3>2 DEF I!StartEv, I!polled, I!discard_poll, I!event_add, I!RunDiscard,
         I!pollCallback, I!Ready, I!Watcher
    <3>3. CASE I!CallEv(p) \/ I!_run_in_event_loop(p) \/ I!DiscardEv(p) \/
       I!CallEvent(p) \/ I!onDiscard(p) \/ I!pollDiscard(p)
      BY <3>1, <3>3, Zenon DEF I!CallEv, I!_run_in_event_loop, I!DiscardEv, I!CallEvent,
         I!onDiscard, I!pollDiscard
    <3> QED BY <1>1, <3>2, <3>3, Zenon
  <2>3. async' \in [Polls -> I!Watcher]
    <3>1. async \in [Polls -> I!Watcher]
      BY Zenon DEF PollVars
    <3>2. CASE I!StartEv(p) \/ I!DiscardEv(p) \/ I!polled(p) \/ I!discard_poll(p)
      BY <3>1, <3>2 DEF I!StartEv, I!DiscardEv, I!polled, I!discard_poll, I!Watcher
    <3>3. CASE I!CallEv(p) \/ I!_run_in_event_loop(p) \/ I!CallEvent(p) \/
       I!event_add(p) \/ I!onDiscard(p) \/ I!pollDiscard(p) \/ I!RunDiscard(p) \/
       I!pollCallback(p) \/ I!Ready(p)
      BY <3>1, <3>3, Zenon DEF I!CallEv, I!_run_in_event_loop, I!CallEvent, I!event_add,
         I!onDiscard, I!pollDiscard, I!RunDiscard, I!pollCallback, I!Ready
    <3> QED BY <1>1, <3>2, <3>3, Zenon
  <2>4. caller' \in [Polls -> {"idle", "add", "onDiscard", "done"}]
    <3>1. caller \in [Polls -> {"idle", "add", "onDiscard", "done"}]
      BY Zenon DEF PollVars
    <3>2. CASE I!CallEv(p) \/ I!CallEvent(p) \/ I!event_add(p) \/ I!onDiscard(p)
      BY <3>1, <3>2 DEF I!CallEv, I!CallEvent, I!event_add, I!onDiscard
    <3>3. CASE I!_run_in_event_loop(p) \/ I!StartEv(p) \/ I!DiscardEv(p) \/ I!polled(p)
       \/ I!discard_poll(p) \/ I!pollDiscard(p) \/ I!RunDiscard(p) \/ I!pollCallback(p)
       \/ I!Ready(p)
      BY <3>1, <3>3, Zenon DEF I!_run_in_event_loop, I!StartEv, I!DiscardEv, I!polled,
         I!discard_poll, I!pollDiscard, I!RunDiscard, I!pollCallback, I!Ready
    <3> QED BY <1>1, <3>2, <3>3, Zenon
  <2>5. discard' \in [Polls -> BOOLEAN]
    <3>1. discard \in [Polls -> BOOLEAN]
      BY Zenon DEF PollVars
    <3>2. CASE I!DiscardEv(p) \/ I!pollDiscard(p)
      BY <3>1, <3>2 DEF I!DiscardEv, I!pollDiscard
    <3>3. CASE I!CallEv(p) \/ I!_run_in_event_loop(p) \/ I!StartEv(p) \/ I!polled(p) \/
       I!discard_poll(p) \/ I!CallEvent(p) \/ I!event_add(p) \/ I!onDiscard(p) \/
       I!RunDiscard(p) \/ I!pollCallback(p) \/ I!Ready(p)
      BY <3>1, <3>3, Zenon DEF I!CallEv, I!_run_in_event_loop, I!StartEv, I!polled,
         I!discard_poll, I!CallEvent, I!event_add, I!onDiscard, I!RunDiscard,
         I!pollCallback, I!Ready
    <3> QED BY <1>1, <3>2, <3>3, Zenon
  <2>6. promise' \in [Polls -> {"pending", "ready", "wrong", "discarded"}]
    <3>1. promise \in [Polls -> {"pending", "ready", "wrong", "discarded"}]
      BY Zenon DEF PollVars
    <3>2. CASE I!_run_in_event_loop(p) \/ I!polled(p) \/ I!discard_poll(p) \/
       I!pollCallback(p)
      BY <3>1, <3>2 DEF I!_run_in_event_loop, I!polled, I!discard_poll, I!pollCallback,
         I!Set
    <3>3. CASE I!CallEv(p) \/ I!StartEv(p) \/ I!DiscardEv(p) \/ I!CallEvent(p) \/
       I!event_add(p) \/ I!onDiscard(p) \/ I!pollDiscard(p) \/ I!RunDiscard(p) \/
       I!Ready(p)
      BY <3>1, <3>3, Zenon DEF I!CallEv, I!StartEv, I!DiscardEv, I!CallEvent,
         I!event_add, I!onDiscard, I!pollDiscard, I!RunDiscard, I!Ready
    <3> QED BY <1>1, <3>2, <3>3, Zenon
  <2>7. UNCHANGED <<delay, loop>>
    BY <1>1, Zenon DEF I!CallEv, I!_run_in_event_loop, I!StartEv, I!DiscardEv, I!polled,
      I!discard_poll, I!CallEvent, I!event_add, I!onDiscard, I!pollDiscard, I!RunDiscard,
      I!pollCallback, I!Ready
  <2> QED BY <2>1, <2>2, <2>3, <2>4, <2>5, <2>6, <2>7, Zenon DEF PollVars
<1>2. ASSUME NEW d \in Delays, I!Delay(d) \/ I!RunDelay(d) \/ I!handle_delay(d) PROVE PollVars'
  BY <1>2 DEF PollVars, I!Delay, I!RunDelay, I!handle_delay
<1>3. ASSUME I!handle_async \/ I!handle_shutdown \/ I!stop \/ UNCHANGED I!vars PROVE PollVars'
  BY <1>3, Zenon DEF PollVars, I!handle_async, I!handle_shutdown, I!stop, I!vars
<1> QED BY <1>1, <1>2, <1>3, Zenon DEF I!Next, I!EventLoop, I!Caller, I!Calling

\* Poll counts with the Cardinality of its own FiniteSets.
LEMMA SameCardinality ==
  I!Cardinality(Polls) = Cardinality(Polls) /\ I!Cardinality(Delays) = Cardinality(Delays)
  BY Zenon DEF I!Cardinality, Cardinality

\* Before any poll the invariant holds.
LEMMA PollInit == ASSUME IsFiniteSet(Polls), IsFiniteSet(Delays), I!Init PROVE PollInv
<1>1. lib \in {"libev", "libevent"} /\ wake = 0 /\ functions = <<>> /\ running = <<>>
  BY Zenon DEF I!Init
<1>2. PollVars
  BY DEF I!Init, PollVars, I!Watcher
<1>3. Discarded \in SUBSET Polls
  BY DEF Discarded
<1>4. wake \in 0..(2 * Cardinality(Polls) + Cardinality(Delays))
  <2>1. 0 \in 0..(2 * Cardinality(Polls) + Cardinality(Delays))
    BY <1>3, WakeInBound
  <2> QED BY <1>1, <2>1, Zenon
<1>5. I!TypeOK
  <2>1. <<>> \in Seq(I!Function)
    OBVIOUS
  <2>2. functions \in Seq(I!Function) /\ running \in Seq(I!Function)
    BY <1>1, <2>1, Zenon
  <2>3. wake \in 0..(2 * I!Cardinality(Polls) + I!Cardinality(Delays))
    BY <1>4, SameCardinality, Zenon
  <2> QED BY <1>1, <1>2, <2>2, <2>3, Zenon DEF I!TypeOK, PollVars
<1>6. WakeBound
  <2>1. PICK D : D = Discarded
    OBVIOUS
  <2>2. Cardinality(D) \in Nat
    BY <1>3, <2>1, FS_Subset, FS_CardinalityType
  <2> QED BY <1>1, <2>1, <2>2 DEF WakeBound
<1>7. PollQueues
  <2>1. Once(<<>>) /\ Apart(<<>>, <<>>) /\ \A q : ~BeginsIn(<<>>, q)
    BY DEF Once, Apart, BeginsIn
  <2> QED BY <1>1, <2>1, Zenon DEF PollQueues, Unbegun
<1>8. \A p \in Polls : OnePoll(p)
  BY DEF I!Init, OnePoll
<1> QED BY <1>5, <1>6, <1>7, <1>8, Zenon DEF PollInv

\* Every step preserves the invariant.
LEMMA PollStep ==
  ASSUME IsFiniteSet(Polls), IsFiniteSet(Delays), PollInv, [I!Next]_I!vars
  PROVE  PollInv'
<1>1. PollVars'
  <2>1. PollVars
    BY Zenon DEF PollInv, I!TypeOK, PollVars
  <2> QED BY <2>1, PollVarsStep, Zenon
<1>2. WakeBound' /\ wake' \in Nat /\ lib' = lib
  BY WakeStep
<1>3. lib' \in {"libev", "libevent"}
  BY <1>2, Zenon DEF PollInv, I!TypeOK
<1>4. wake' \in 0..(2 * Cardinality(Polls) + Cardinality(Delays))
  <2>1. PICK D, w : D = Discarded' /\ w = wake'
    OBVIOUS
  <2>2. D \in SUBSET Polls
    BY <2>1 DEF Discarded
  <2>3. w \in Nat
    BY <1>2, <2>1, Zenon
  <2>4. w <= Cardinality(D) \/ w = 0 \/ (w = 1 /\ Polls \cup Delays # {})
    BY <1>2, <1>3, <2>1 DEF WakeBound
  <2>5. w \in 0..(2 * Cardinality(Polls) + Cardinality(Delays))
    BY <2>2, <2>3, <2>4, WakeInBound
  <2> QED BY <2>1, <2>5, Zenon
<1>5. I!TypeOK'
  <2>1. functions' \in Seq(I!Function) /\ running' \in Seq(I!Function)
    BY SeqsStep
  <2>2. wake' \in 0..(2 * I!Cardinality(Polls) + I!Cardinality(Delays))
    BY <1>4, SameCardinality, Zenon
  <2> QED BY <1>1, <1>3, <2>1, <2>2, Zenon DEF I!TypeOK, PollVars
<1> QED BY <1>2, <1>5, QueuesStep, PollOnesStep, Zenon DEF PollInv

(***************************************************************************)
(* io::poll, with either library: a watcher is active only while its Poll  *)
(* lives, which is deleted once and only with the promise completed; the   *)
(* promise completes once, and is discarded only if that was asked for,    *)
(* however the callbacks, the discards and the queue of functions of the   *)
(* event loop interleave.                                                  *)
(***************************************************************************)
THEOREM PollAlwaysSafe ==
  ASSUME IsFiniteSet(Polls), IsFiniteSet(Delays)
  PROVE  I!Spec => []PollSafe
<1>1. I!Init => PollInv
  BY PollInit
<1>2. PollInv /\ [I!Next]_I!vars => PollInv'
  BY PollStep
<1>3. PollInv => PollSafe
  BY OnePollSafe, Zenon DEF PollInv, PollSafe
<1> QED BY <1>1, <1>2, <1>3, PTL DEF I!Spec
=============================================================================

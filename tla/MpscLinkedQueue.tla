--------------------------- MODULE MpscLinkedQueue --------------------------
(***************************************************************************)
(* MpscLinkedQueue (src/mpsc_linked_queue.hpp), one step for each access   *)
(* to shared memory.  A node is numbered by its turn at head.exchange();   *)
(* node 0 is the stub of the constructor.                                  *)
(***************************************************************************)
EXTENDS Naturals, Sequences, TLAPS

CONSTANTS
  Producer,
  MaxNodes    \* bound on the elements enqueued

VARIABLES
  head, tail, next,
  element,    \* element[n]: the producer that enqueued it and its how-manieth it is
  freed,      \* the nodes that have been deleted
  link,       \* link[p]: the oldhead whose next the producer has still to set
  sent,       \* sent[p]: the number of elements p enqueued
  pc,         \* of the consumer
  nextTail,   \* its local variables
  end, node,
  out,        \* what the last dequeue() returned
  seen,       \* the elements for_each() has visited
  misuse      \* has a deleted node been used?

vars == <<head, tail, next, element, freed, link, sent, pc, nextTail, end, node, out,
          seen, misuse>>
consumer == <<pc, nextTail, end, node, out, seen>>

Null == MaxNodes + 1
Node == 0..MaxNodes
Element == Producer \X (1..MaxNodes)
Nothing == <<>>

Init ==
  /\ head = 0 /\ tail = 0 /\ next = [n \in Node |-> Null]
  /\ element = [n \in Node |-> Nothing] /\ freed = {}
  /\ link = [p \in Producer |-> Null] /\ sent = [p \in Producer |-> 0]
  /\ pc = "idle" /\ nextTail = Null /\ end = Null /\ node = Null /\ out = Nothing
  /\ seen = <<>> /\ misuse = FALSE

Touch(n) == misuse' = (misuse \/ n \in freed)

-----------------------------------------------------------------------------
\* enqueue(): exchange the head, then link the old one to it.
Exchange(p) ==
  /\ link[p] = Null /\ head < MaxNodes
  /\ head' = head + 1 /\ link' = [link EXCEPT ![p] = head]
  /\ sent' = [sent EXCEPT ![p] = @ + 1]
  /\ element' = [element EXCEPT ![head + 1] = <<p, sent[p] + 1>>]
  /\ UNCHANGED <<tail, next, freed, consumer, misuse>>

Link(p) ==
  /\ link[p] # Null /\ Touch(link[p])
  /\ next' = [next EXCEPT ![link[p]] = link[p] + 1]
  /\ link' = [link EXCEPT ![p] = Null]
  /\ UNCHANGED <<head, tail, element, freed, sent, consumer>>

\* dequeue()
LoadNext ==
  /\ pc = "idle" /\ Touch(tail)
  /\ nextTail' = next[tail] /\ pc' = IF next[tail] = Null THEN "empty?" ELSE "unlink"
  /\ UNCHANGED <<head, tail, next, element, freed, link, sent, end, node, out, seen>>

\* MUTANT: takes a queue that appears empty for one that is.
LoadHead_unchecked ==
  /\ pc = "empty?" /\ pc' = "idle" /\ out' = Nothing
  /\ UNCHANGED <<head, tail, next, element, freed, link, sent, nextTail, end, node, seen,
                 misuse>>

\* Empty, or a producer has not linked its node yet.
LoadHead ==
  /\ pc = "empty?"
  /\ IF head = tail THEN pc' = "idle" /\ out' = Nothing
                    ELSE pc' = "spin" /\ UNCHANGED out
  /\ UNCHANGED <<head, tail, next, element, freed, link, sent, nextTail, end, node, seen,
                 misuse>>
Spin ==
  /\ pc = "spin" /\ Touch(tail) /\ next[tail] # Null
  /\ nextTail' = next[tail] /\ pc' = "unlink"
  /\ UNCHANGED <<head, tail, next, element, freed, link, sent, end, node, out, seen>>

Unlink ==
  /\ pc = "unlink" /\ Touch(tail)
  /\ next' = [next EXCEPT ![tail] = Null] /\ pc' = "take"
  /\ UNCHANGED <<head, tail, element, freed, link, sent, nextTail, end, node, out, seen>>

Take ==
  /\ pc = "take" /\ Touch(nextTail)
  /\ out' = element[nextTail] /\ element' = [element EXCEPT ![nextTail] = Nothing]
  /\ tail' = nextTail /\ freed' = freed \cup {tail} /\ pc' = "idle"
  /\ UNCHANGED <<head, next, link, sent, nextTail, end, node, seen>>

\* for_each(), up to the head at its start, or to a node not linked yet.
ForEach ==
  /\ pc = "idle" /\ pc' = "each" /\ end' = head /\ node' = tail /\ seen' = <<>>
  /\ UNCHANGED <<head, tail, next, element, freed, link, sent, nextTail, out, misuse>>
Visit ==
  /\ pc = "each" /\ Touch(node) /\ node' = next[node]
  /\ seen' = IF next[node] = Null THEN seen ELSE Append(seen, element[next[node]])
  /\ pc' = IF next[node] \in {Null, end} THEN "idle" ELSE "each"
  /\ UNCHANGED <<head, tail, next, element, freed, link, sent, nextTail, end, out>>

Consume == LoadNext \/ LoadHead \/ Spin \/ Unlink \/ Take \/ ForEach \/ Visit
Next == Consume \/ \E p \in Producer : Exchange(p) \/ Link(p)
Spec == Init /\ [][Next]_vars

-----------------------------------------------------------------------------
TypeOK ==
  /\ head \in Node /\ tail \in Node /\ next \in [Node -> Node \cup {Null}]
  /\ element \in [Node -> Element \cup {Nothing}] /\ freed \subseteq Node
  /\ link \in [Producer -> Node \cup {Null}]
  /\ pc \in {"idle", "empty?", "spin", "unlink", "take", "each"}

\* The elements in the queue, from the first exchanged to the last.
Queue == [k \in 1..(head - tail) |-> element[tail + k]]

(***************************************************************************)
(* No node is used after dequeue() deleted it, although producers link to  *)
(* nodes long after they have exchanged the head; only a producer that has *)
(* not linked its node yet can break the list; and for_each() visits the   *)
(* oldest elements of the queue, in order.                                 *)
(***************************************************************************)
Safe ==
  /\ TypeOK /\ ~misuse
  /\ \A n \in tail..(head - 1) : \/ next[n] = n + 1
                                 \/ \E p \in Producer : link[p] = n
                                 \/ n = tail /\ pc = "take"
  /\ pc = "each" => seen = SubSeq(Queue, 1, Len(seen))

(***************************************************************************)
(* The queue is an atomic FIFO queue: enqueue() takes effect when it       *)
(* exchanges the head, dequeue() when it reads the head or the element.    *)
(***************************************************************************)
FifoInit == Queue = <<>> /\ out = Nothing
FifoNext ==
  \/ \E e \in Element : Queue' = Append(Queue, e) /\ UNCHANGED out
  \/ Queue # <<>> /\ out' = Head(Queue) /\ Queue' = Tail(Queue)
  \/ Queue = <<>> /\ out' = Nothing /\ UNCHANGED Queue
FifoStep == [FifoNext]_<<Queue, out>>

-----------------------------------------------------------------------------
(***************************************************************************)
(* Both for any number of producers and elements.  A node leaves the list  *)
(* only after its `next' is set, which only the producer that exchanged    *)
(* the head from it does: so whoever has still to set a link refers to a   *)
(* node that is there, and no two producers to the same one.               *)
(***************************************************************************)

\* Types and order: nodes are deleted below the tail, which the head leads.
Counts ==
  /\ MaxNodes \in Nat /\ TypeOK /\ ~misuse
  /\ sent \in [Producer -> Nat] /\ \A p \in Producer : sent[p] <= head
  /\ tail <= head /\ \A n \in freed : n < tail

\* A producer that has still to link, and the list otherwise.
Linking ==
  /\ \A p \in Producer : link[p] # Null =>
       tail <= link[p] /\ link[p] < head /\ next[link[p]] = Null
  /\ \A p, q \in Producer : link[p] = link[q] /\ link[p] # Null => p = q
Linked ==
  /\ \A n \in Node : next[n] # Null => next[n] = n + 1 /\ n < head
  /\ \A n \in Node : tail <= n /\ n < head =>
       \/ next[n] # Null
       \/ \E p \in Producer : link[p] = n
       \/ n = tail /\ pc = "take"

\* What the consumer knows.
Consumer ==
  /\ pc = "unlink" => next[tail] # Null
  /\ pc = "take" => tail < head /\ \A p \in Producer : link[p] # tail
  /\ pc \in {"unlink", "take"} => nextTail = tail + 1

\* for_each() has visited a prefix of the queue.
Visiting ==
  pc = "each" =>
    /\ seen \in Seq(Element \cup {Nothing})
    /\ node = tail + Len(seen) /\ node <= head
    /\ \A i \in 1..Len(seen) : seen[i] = element[tail + i]

\* The inductive invariant.
IInv == Counts /\ Linking /\ Linked /\ Consumer /\ Visiting

\* The queue starts with the stub.
LEMMA InitIInv ==
  ASSUME MaxNodes \in Nat, Init
  PROVE  IInv /\ FifoInit
<1> USE DEF Init
<1>1. Counts
  BY DEF Counts, TypeOK, Node, Null
<1>2. Linking /\ Linked /\ Consumer /\ Visiting
  BY DEF Linking, Linked, Consumer, Visiting, Node, Null
<1>3. FifoInit
  BY DEF FifoInit, Queue
<1> QED BY <1>1, <1>2, <1>3, Zenon DEF IInv

\* A sequence that has one more element.
LEMMA AppendIs ==
  ASSUME NEW s \in Seq(Element \cup {Nothing}), NEW r \in Seq(Element \cup {Nothing}),
         NEW e \in Element \cup {Nothing}, NEW k \in Nat,
         Len(s) = k, Len(r) = k + 1, r[k + 1] = e, \A i \in 1..k : r[i] = s[i]
  PROVE  r = Append(s, e)
OBVIOUS

\* A sequence that has one element less, in front, and the beginning of one.
LEMMA TailIs ==
  ASSUME NEW q \in Seq(Element \cup {Nothing}), NEW r \in Seq(Element \cup {Nothing}),
         NEW k \in Nat, Len(q) = k + 1, Len(r) = k, \A i \in 1..k : r[i] = q[i + 1]
  PROVE  q # <<>> /\ Head(q) = q[1] /\ r = Tail(q)
<1>1. q # <<>> /\ Head(q) = q[1]
  OBVIOUS
<1>2. Tail(q) \in Seq(Element \cup {Nothing}) /\ Len(Tail(q)) = k
  OBVIOUS
<1>3. \A i \in 1..k : Tail(q)[i] = q[i + 1]
  OBVIOUS
<1> QED BY <1>1, <1>2, <1>3

\* A sequence that agrees with the beginning of another.
LEMMA PrefixIs ==
  ASSUME NEW q \in Seq(Element \cup {Nothing}), NEW s \in Seq(Element \cup {Nothing}),
         Len(s) <= Len(q), \A i \in 1..Len(s) : s[i] = q[i]
  PROVE  s = SubSeq(q, 1, Len(s))
<1>1. SubSeq(q, 1, Len(s)) \in Seq(Element \cup {Nothing}) /\ Len(SubSeq(q, 1, Len(s))) = Len(s)
  OBVIOUS
<1>2. \A i \in 1..Len(s) : SubSeq(q, 1, Len(s))[i] = q[i]
  OBVIOUS
<1> QED BY <1>1, <1>2

\* enqueue(), its first half: the elements get one more.
LEMMA ExchangeStep ==
  ASSUME IInv, NEW p \in Producer, Exchange(p)
  PROVE  IInv' /\ FifoNext
<1> USE DEF Node, Null
<1>1. /\ MaxNodes \in Nat /\ head \in Nat /\ tail \in Nat /\ head < MaxNodes /\ tail <= head
      /\ head' = head + 1 /\ tail' = tail /\ link[p] = Null /\ link'[p] = head
      /\ sent[p] \in Nat /\ sent[p] <= head
      /\ \A q \in Producer : q # p => link'[q] = link[q]
      /\ UNCHANGED <<next, freed, pc, nextTail, end, node, out, seen, misuse>>
  BY DEF IInv, Counts, TypeOK, Exchange, consumer
<1>2. /\ element' \in [Node -> Element \cup {Nothing}]
      /\ element'[head + 1] = <<p, sent[p] + 1>> /\ <<p, sent[p] + 1>> \in Element
      /\ \A n \in Node : n # head + 1 => element'[n] = element[n]
  BY <1>1 DEF IInv, Counts, TypeOK, Exchange, Element
<1>3. Counts'
  <2>1. /\ sent' \in [Producer -> Nat] /\ \A q \in Producer : sent'[q] <= head'
        /\ link' \in [Producer -> Node \cup {Null}]
    BY <1>1 DEF IInv, Counts, TypeOK, Exchange
  <2> QED BY <1>1, <1>2, <2>1 DEF IInv, Counts, TypeOK
<1>4. Linking'
  <2>1. next[head] = Null
    BY <1>1 DEF IInv, Counts, TypeOK, Linked
  <2>2. ASSUME NEW q \in Producer, link'[q] # Null
        PROVE  tail <= link'[q] /\ link'[q] < head + 1 /\ next[link'[q]] = Null
    <3>1. CASE q = p
      BY <1>1, <2>1, <3>1
    <3>2. CASE q # p
      <4>1. /\ link'[q] = link[q] /\ link[q] \in Node
            /\ tail <= link[q] /\ link[q] < head /\ next[link[q]] = Null
        BY <1>1, <2>2, <3>2 DEF IInv, Counts, TypeOK, Linking
      <4> QED BY <1>1, <4>1
    <3> QED BY <3>1, <3>2
  <2>3. ASSUME NEW q \in Producer, NEW r \in Producer, link'[q] = link'[r], link'[q] # Null
        PROVE  q = r
    <3>1. ASSUME NEW x \in Producer, x # p, link[x] # Null PROVE link[x] # head
      BY <1>1, <3>1 DEF IInv, Counts, TypeOK, Linking
    <3>2. q # p /\ r # p => q = r
      BY <1>1, <2>3, Zenon DEF IInv, Linking
    <3> QED BY <1>1, <2>3, <3>1, <3>2, Zenon
  <2> QED BY <1>1, <2>2, <2>3, Zenon DEF Linking
<1>5. Linked'
  <2>1. ASSUME NEW n \in Node, next[n] # Null PROVE next[n] = n + 1 /\ n < head + 1
    BY <1>1, <2>1 DEF IInv, Linked
  <2>2. ASSUME NEW n \in Node, tail <= n, n < head + 1, next[n] = Null
        PROVE  (\E q \in Producer : link'[q] = n) \/ (n = tail /\ pc = "take")
    <3>1. CASE n = head
      BY <1>1, <3>1, Zenon
    <3>2. CASE n # head
      <4>1. n < head
        BY <1>1, <2>2, <3>2
      <4>2. n # Null
        BY <1>1
      <4> QED BY <1>1, <2>2, <4>1, <4>2, Zenon DEF IInv, Linked
    <3> QED BY <3>1, <3>2
  <2> QED BY <1>1, <2>1, <2>2, Zenon DEF Linked
<1>6. Consumer'
  BY <1>1 DEF IInv, Consumer, Counts, TypeOK
<1>7. Visiting'
  BY <1>1, <1>2 DEF IInv, Visiting, Counts, TypeOK
<1>8. FifoNext
  <2>1. Queue' = Append(Queue, <<p, sent[p] + 1>>)
    <3>1. PICK q, r, e, k : q = Queue /\ r = Queue' /\ e = <<p, sent[p] + 1>> /\ k = head - tail
      BY Zenon
    <3>2. q = [i \in 1..k |-> element[tail + i]] /\ r = [i \in 1..(k + 1) |-> element'[tail + i]]
      BY <1>1, <3>1 DEF Queue
    <3>3. k \in Nat /\ e \in Element \cup {Nothing} /\ tail + (k + 1) = head + 1
      BY <1>1, <1>2, <3>1
    <3>4. \A i \in 1..k : tail + i \in Node /\ tail + i # head + 1
      BY <1>1, <3>1
    <3>5. q \in Seq(Element \cup {Nothing}) /\ Len(q) = k
      BY <3>2, <3>3, <3>4 DEF IInv, Counts, TypeOK
    <3>6. \A i \in 1..(k + 1) : element'[tail + i] \in Element \cup {Nothing}
      BY <1>1, <1>2, <3>1
    <3>7. r \in Seq(Element \cup {Nothing}) /\ Len(r) = k + 1
      BY <3>2, <3>3, <3>6
    <3>8. k + 1 \in 1..(k + 1) /\ \A i \in 1..k : i \in 1..(k + 1)
      BY <3>3
    <3>9. r[k + 1] = e
      <4>1. r[k + 1] = element'[tail + (k + 1)]
        BY <3>2, <3>8, Zenon
      <4> QED BY <1>2, <3>1, <3>3, <4>1, Zenon
    <3>10. \A i \in 1..k : r[i] = q[i]
      BY <1>2, <3>2, <3>4, <3>8, Zenon
    <3>11. r = Append(q, e)
      BY <3>3, <3>5, <3>7, <3>9, <3>10, AppendIs, Zenon
    <3> QED BY <3>1, <3>11, Zenon
  <2> QED BY <1>1, <1>2, <2>1, Zenon DEF FifoNext
<1> QED BY <1>3, <1>4, <1>5, <1>6, <1>7, <1>8, Zenon DEF IInv

\* The queue is as it was.
LEMMA SameQueue ==
  ASSUME UNCHANGED <<head, tail, element, out>>
  PROVE  FifoStep
BY Zenon DEF FifoStep, Queue

\* enqueue(), its second half: the node it links to is still there.
LEMMA LinkStep ==
  ASSUME IInv, NEW p \in Producer, Link(p)
  PROVE  IInv' /\ FifoStep
<1> USE DEF Node, Null
<1>1. /\ MaxNodes \in Nat /\ head \in Nat /\ tail \in Nat /\ head <= MaxNodes /\ link[p] \in Node
      /\ tail <= link[p] /\ link[p] < head /\ next[link[p]] = Null
      /\ link'[p] = Null /\ \A q \in Producer : q # p => link'[q] = link[q]
      /\ next'[link[p]] = link[p] + 1 /\ \A n \in Node : n # link[p] => next'[n] = next[n]
      /\ \A q \in Producer : q # p => link[q] # link[p]
      /\ UNCHANGED <<head, tail, element, freed, sent, pc, nextTail, end, node, out, seen>>
  BY DEF IInv, Counts, TypeOK, Linking, Link, consumer
<1>2. Counts'
  <2>1. link' \in [Producer -> Node \cup {Null}] /\ next' \in [Node -> Node \cup {Null}]
    BY <1>1 DEF IInv, Counts, TypeOK, Link
  <2>2. link[p] \notin freed
    BY <1>1 DEF IInv, Counts
  <2>3. ~misuse'
    BY <2>2, Zenon DEF IInv, Counts, Link, Touch
  <2> QED BY <1>1, <2>1, <2>3, Zenon DEF IInv, Counts, TypeOK
<1>3. Linking'
  <2>1. ASSUME NEW q \in Producer, link'[q] # Null
        PROVE  tail <= link'[q] /\ link'[q] < head /\ next'[link'[q]] = Null
    <3>1. q # p /\ link'[q] = link[q] /\ link[q] \in Node /\ link[q] # link[p]
      BY <1>1, <2>1, Zenon DEF IInv, Counts, TypeOK
    <3> QED BY <1>1, <2>1, <3>1, Zenon DEF IInv, Linking
  <2>2. ASSUME NEW q \in Producer, NEW r \in Producer, link'[q] = link'[r], link'[q] # Null
        PROVE  q = r
    <3>1. q # p /\ r # p /\ link'[q] = link[q] /\ link'[r] = link[r]
      BY <1>1, <2>2, Zenon
    <3> QED BY <2>2, <3>1, Zenon DEF IInv, Linking
  <2> QED BY <1>1, <2>1, <2>2, Zenon DEF Linking
<1>4. Linked'
  <2>1. ASSUME NEW n \in Node, next'[n] # Null PROVE next'[n] = n + 1 /\ n < head
    BY <1>1, <2>1, Zenon DEF IInv, Linked
  <2>2. ASSUME NEW n \in Node, tail <= n, n < head, next'[n] = Null
        PROVE  (\E q \in Producer : link'[q] = n) \/ (n = tail /\ pc = "take")
    <3>1. n # link[p]
      BY <1>1, <2>2
    <3> QED BY <1>1, <2>2, <3>1, Zenon DEF IInv, Linked
  <2> QED BY <1>1, <2>1, <2>2, Zenon DEF Linked
<1>5. Consumer' /\ Visiting'
  BY <1>1 DEF IInv, Counts, TypeOK, Consumer, Visiting
<1> QED BY <1>1, <1>2, <1>3, <1>4, <1>5, SameQueue, Zenon DEF IInv

\* The consumer reads, and neither comes from `take' nor goes there.
LEMMA ListKept ==
  ASSUME IInv, UNCHANGED <<head, tail, next, element, freed, link, sent>>,
         pc # "take", pc' \in {"idle", "empty?", "spin", "unlink", "each"},
         Touch(tail) \/ misuse' = misuse \/ ~misuse'
  PROVE  Counts' /\ Linking' /\ Linked'
<1>1. tail \notin freed
  BY DEF IInv, Counts, TypeOK, Node
<1>2. ~misuse'
  BY <1>1, Zenon DEF IInv, Counts, Touch
<1>3. Counts'
  BY <1>2, Zenon DEF IInv, Counts, TypeOK
<1>4. Linking' /\ Linked'
  BY Zenon DEF IInv, Linking, Linked
<1> QED BY <1>3, <1>4, Zenon

\* dequeue() up to where it has found the next node, or an empty queue.
LEMMA LoadStep ==
  ASSUME IInv, LoadNext \/ LoadHead \/ Spin
  PROVE  IInv' /\ FifoStep
<1>1. tail \in Node /\ (next[tail] # Null => next[tail] = tail + 1)
  BY Zenon DEF IInv, Counts, TypeOK, Linked
<1>2. CASE LoadNext
  <2>1. Counts' /\ Linking' /\ Linked'
    BY <1>2, ListKept, Zenon DEF LoadNext
  <2>2. Consumer' /\ Visiting'
    BY <1>1, <1>2, Zenon DEF LoadNext, Consumer, Visiting
  <2> QED BY <1>2, <2>1, <2>2, SameQueue, Zenon DEF IInv, LoadNext
<1>3. CASE Spin
  <2>1. Counts' /\ Linking' /\ Linked'
    BY <1>3, ListKept, Zenon DEF Spin
  <2>2. Consumer' /\ Visiting'
    BY <1>1, <1>3, Zenon DEF Spin, Consumer, Visiting
  <2> QED BY <1>3, <2>1, <2>2, SameQueue, Zenon DEF IInv, Spin
<1>4. CASE LoadHead
  <2>1. Counts' /\ Linking' /\ Linked'
    BY <1>4, ListKept, Zenon DEF LoadHead
  <2>2. Consumer' /\ Visiting'
    BY <1>4, Zenon DEF LoadHead, Consumer, Visiting
  <2>3. FifoStep
    <3>1. CASE head = tail
      <4>1. Queue = <<>>
        BY <3>1 DEF Queue, IInv, Counts, TypeOK, Node
      <4>2. Queue' = Queue /\ out' = Nothing
        BY <1>4, <3>1, Zenon DEF LoadHead, Queue
      <4> QED BY <4>1, <4>2, Zenon DEF FifoStep, FifoNext
    <3>2. CASE head # tail
      BY <1>4, <3>2, SameQueue, Zenon DEF LoadHead
    <3> QED BY <3>1, <3>2, Zenon
  <2> QED BY <2>1, <2>2, <2>3, Zenon DEF IInv
<1> QED BY <1>2, <1>3, <1>4, Zenon

\* dequeue() takes the first node out of the list: only its producer could still
\* refer to it, and has linked.
LEMMA UnlinkStep ==
  ASSUME IInv, Unlink
  PROVE  IInv' /\ FifoStep
<1> USE DEF Node, Null
<1>1. /\ MaxNodes \in Nat /\ head \in Nat /\ tail \in Nat /\ tail \in Node /\ tail \notin freed
      /\ next[tail] = tail + 1 /\ tail < head /\ next[tail] # Null
      /\ next'[tail] = Null /\ \A n \in Node : n # tail => next'[n] = next[n]
      /\ nextTail = tail + 1 /\ pc' = "take"
      /\ UNCHANGED <<head, tail, element, freed, link, sent, nextTail, end, node, out, seen>>
  BY DEF IInv, Counts, TypeOK, Linked, Consumer, Unlink
<1>2. \A p \in Producer : link[p] # tail
  <2>1. tail # Null
    BY <1>1
  <2> QED BY <1>1, <2>1, Zenon DEF IInv, Linking
<1>3. Counts'
  <2>1. next' \in [Node -> Node \cup {Null}]
    BY <1>1 DEF IInv, Counts, TypeOK, Unlink
  <2>2. ~misuse'
    BY <1>1, Zenon DEF IInv, Counts, Unlink, Touch
  <2> QED BY <1>1, <2>1, <2>2, Zenon DEF IInv, Counts, TypeOK
<1>4. Linking'
  <2>1. \A p \in Producer : link[p] # Null => link[p] \in Node
    BY Zenon DEF IInv, Counts, TypeOK
  <2> QED BY <1>1, <1>2, <2>1, Zenon DEF IInv, Linking
<1>5. Linked'
  <2> HIDE DEF Null, Node
  <2> QED BY <1>1, Zenon DEF IInv, Linked
<1>6. Consumer' /\ Visiting'
  BY <1>1, <1>2, Zenon DEF Consumer, Visiting
<1> QED BY <1>1, <1>3, <1>4, <1>5, <1>6, SameQueue, Zenon DEF IInv

\* for_each() follows the list from the tail.
LEMMA EachStep ==
  ASSUME IInv, ForEach \/ Visit
  PROVE  IInv' /\ FifoStep
<1> USE DEF Node, Null
<1>1. CASE ForEach
  <2>1. Counts' /\ Linking' /\ Linked'
    BY <1>1, ListKept, Zenon DEF ForEach
  <2>2. Consumer'
    BY <1>1, Zenon DEF ForEach, Consumer
  <2>3. Visiting'
    BY <1>1 DEF ForEach, Visiting, IInv, Counts, TypeOK
  <2> QED BY <1>1, <2>1, <2>2, <2>3, SameQueue, Zenon DEF IInv, ForEach
<1>2. CASE Visit
  <2>1. /\ MaxNodes \in Nat /\ head \in Nat /\ tail \in Nat /\ head <= MaxNodes
        /\ seen \in Seq(Element \cup {Nothing}) /\ Len(seen) \in Nat
        /\ node = tail + Len(seen) /\ node <= head /\ node \in Node
        /\ \A i \in 1..Len(seen) : seen[i] = element[tail + i]
        /\ element \in [Node -> Element \cup {Nothing}]
        /\ node' = next[node] /\ pc = "each" /\ pc' \in {"idle", "each"}
        /\ UNCHANGED <<head, tail, next, element, freed, link, sent, nextTail, end, out>>
    BY <1>2 DEF Visit, Visiting, IInv, Counts, TypeOK
  <2>2. Counts' /\ Linking' /\ Linked'
    <3>1. node \notin freed
      BY <2>1 DEF IInv, Counts
    <3>2. ~misuse'
      BY <1>2, <3>1, Zenon DEF IInv, Counts, Touch, Visit
    <3> QED BY <2>1, <3>2, ListKept, Zenon
  <2>3. Consumer'
    BY <2>1, Zenon DEF Consumer
  <2>4. Visiting'
    <3>1. CASE next[node] = Null
      BY <1>2, <3>1, Zenon DEF Visit, Visiting
    <3>2. CASE next[node] # Null
      <4>1. next[node] = node + 1 /\ node < head
        BY <2>1, <3>2, Zenon DEF IInv, Linked
      <4>2. PICK s, e : s = seen /\ e = element[node + 1]
        BY Zenon
      <4>3. s \in Seq(Element \cup {Nothing}) /\ e \in Element \cup {Nothing}
        BY <2>1, <4>1, <4>2
      <4>4. seen' = Append(s, e)
        BY <1>2, <3>2, <4>1, <4>2, Zenon DEF Visit
      <4>5. /\ seen' \in Seq(Element \cup {Nothing}) /\ Len(seen') = Len(s) + 1
            /\ seen'[Len(s) + 1] = e /\ \A i \in 1..Len(s) : seen'[i] = s[i]
        BY <4>3, <4>4
      <4>6. node' = tail + Len(seen') /\ node' <= head
        BY <2>1, <4>1, <4>2, <4>5
      <4>7. ASSUME NEW i \in 1..Len(seen') PROVE seen'[i] = element[tail + i]
        <5>1. CASE i = Len(s) + 1
          <6>1. tail + i = node + 1
            BY <2>1, <4>2, <5>1
          <6> QED BY <4>2, <4>5, <5>1, <6>1, Zenon
        <5>2. CASE i # Len(s) + 1
          <6>1. i \in 1..Len(s)
            BY <2>1, <4>2, <4>5, <4>7, <5>2
          <6> QED BY <2>1, <4>2, <4>5, <6>1, Zenon
        <5> QED BY <5>1, <5>2, Zenon
      <4> QED BY <2>1, <4>5, <4>6, <4>7, Zenon DEF Visiting
    <3> QED BY <3>1, <3>2, Zenon
  <2> QED BY <2>1, <2>2, <2>3, <2>4, SameQueue, Zenon DEF IInv
<1> QED BY <1>1, <1>2, Zenon

\* dequeue() takes the element and deletes the node before it, which no producer
\* has still to link.
LEMMA TakeStep ==
  ASSUME IInv, Take
  PROVE  IInv' /\ FifoStep
<1> USE DEF Node, Null
<1>1. /\ MaxNodes \in Nat /\ head \in Nat /\ tail \in Nat /\ head <= MaxNodes /\ tail < head
      /\ nextTail = tail + 1 /\ tail' = tail + 1 /\ tail + 1 \in Node /\ pc = "take"
      /\ pc' = "idle" /\ freed' = freed \cup {tail}
      /\ out' = element[tail + 1]
      /\ \A p \in Producer : link[p] # tail
      /\ UNCHANGED <<head, next, link, sent, nextTail, end, node, seen>>
  BY DEF IInv, Counts, TypeOK, Consumer, Take
<1>2. /\ element' \in [Node -> Element \cup {Nothing}]
      /\ \A n \in Node : n # tail + 1 => element'[n] = element[n]
  BY <1>1 DEF IInv, Counts, TypeOK, Take
<1>3. Counts'
  <2>1. nextTail \notin freed
    BY <1>1 DEF IInv, Counts
  <2>2. ~misuse'
    BY <2>1, Zenon DEF IInv, Counts, Take, Touch
  <2>3. tail' <= head' /\ \A n \in freed' : n \in Node /\ n < tail'
    BY <1>1 DEF IInv, Counts, TypeOK
  <2>4. tail' \in Node /\ freed' \subseteq Node
    BY <1>1, <2>3, Zenon
  <2> QED BY <1>1, <1>2, <2>2, <2>3, <2>4, Zenon DEF IInv, Counts, TypeOK
<1>4. Linking'
  <2>1. ASSUME NEW p \in Producer, link[p] # Null
        PROVE  tail + 1 <= link[p] /\ link[p] < head /\ next[link[p]] = Null
    <3>1. link[p] \in Node /\ tail <= link[p] /\ link[p] < head /\ next[link[p]] = Null
      BY <2>1, Zenon DEF IInv, Linking, Counts, TypeOK
    <3> QED BY <1>1, <3>1
  <2> QED BY <1>1, <2>1, Zenon DEF IInv, Linking
<1>5. Linked'
  <2>1. ASSUME NEW n \in Node, tail + 1 <= n, n < head, next[n] = Null
        PROVE  \E p \in Producer : link[p] = n
    <3>1. tail <= n /\ n # tail
      BY <1>1, <2>1
    <3> QED BY <2>1, <3>1, Zenon DEF IInv, Linked
  <2> QED BY <1>1, <2>1, Zenon DEF IInv, Linked
<1>6. Consumer' /\ Visiting'
  BY <1>1, Zenon DEF Consumer, Visiting
<1>7. FifoNext
  <2>1. PICK q, r, k : q = Queue /\ r = Queue' /\ k = head - (tail + 1)
    BY Zenon
  <2>2. k \in Nat /\ q = [i \in 1..(k + 1) |-> element[tail + i]]
        /\ r = [i \in 1..k |-> element'[tail + 1 + i]]
    BY <1>1, <2>1 DEF Queue
  <2>3. \A i \in 1..(k + 1) : tail + i \in Node
    BY <1>1, <2>1
  <2>4. q \in Seq(Element \cup {Nothing}) /\ Len(q) = k + 1
    <3>1. \A i \in 1..(k + 1) : element[tail + i] \in Element \cup {Nothing}
      BY <2>3, Zenon DEF IInv, Counts, TypeOK
    <3> QED BY <2>2, <3>1
  <2>5. \A i \in 1..k : tail + 1 + i \in Node /\ tail + 1 + i # tail + 1
                         /\ tail + 1 + i = tail + (i + 1) /\ i + 1 \in 1..(k + 1)
    BY <1>1, <2>1
  <2>6. r \in Seq(Element \cup {Nothing}) /\ Len(r) = k
    BY <1>2, <2>2, <2>5
  <2>7. \A i \in 1..k : r[i] = q[i + 1]
    BY <1>2, <2>2, <2>5, Zenon
  <2>8. out' = q[1]
    BY <1>1, <2>2
  <2>9. q # <<>> /\ Head(q) = q[1] /\ r = Tail(q)
    BY <2>2, <2>4, <2>6, <2>7, TailIs, Zenon
  <2> QED BY <2>1, <2>8, <2>9, Zenon DEF FifoNext
<1> QED BY <1>3, <1>4, <1>5, <1>6, <1>7, Zenon DEF IInv, FifoStep

\* Every step keeps the invariant and is one of the queue's, or none.
LEMMA StepIInv ==
  ASSUME IInv, [Next]_vars
  PROVE  IInv' /\ FifoStep
<1>1. CASE UNCHANGED vars
  <2>1. Counts' /\ Linking' /\ Linked'
    BY <1>1, Zenon DEF vars, consumer, IInv, Counts, TypeOK, Linking, Linked
  <2>2. Consumer' /\ Visiting'
    BY <1>1, Zenon DEF vars, consumer, IInv, Consumer, Visiting
  <2> QED BY <1>1, <2>1, <2>2, SameQueue, Zenon DEF IInv, vars
<1>2. CASE Consume
  BY <1>2, LoadStep, UnlinkStep, TakeStep, EachStep, Zenon DEF Consume
<1>3. ASSUME NEW p \in Producer, Exchange(p) \/ Link(p) PROVE IInv' /\ FifoStep
  BY <1>3, ExchangeStep, LinkStep, Zenon DEF FifoStep
<1> QED BY <1>1, <1>2, <1>3, Zenon DEF Next

\* The invariant says all that Safe does.
LEMMA SafeOfIInv ==
  ASSUME IInv
  PROVE  Safe
<1> USE DEF Node, Null
<1>1. MaxNodes \in Nat /\ head \in Nat /\ tail \in Nat /\ head <= MaxNodes /\ tail <= head
  BY DEF IInv, Counts, TypeOK
<1>2. ASSUME NEW n \in tail..(head - 1)
      PROVE  \/ next[n] = n + 1
             \/ \E p \in Producer : link[p] = n
             \/ n = tail /\ pc = "take"
  <2>1. n \in Node /\ tail <= n /\ n < head
    BY <1>1
  <2> QED BY <2>1, Zenon DEF IInv, Linked
<1>3. pc = "each" => seen = SubSeq(Queue, 1, Len(seen))
  <2> SUFFICES ASSUME pc = "each" PROVE seen = SubSeq(Queue, 1, Len(seen))
    OBVIOUS
  <2>1. /\ seen \in Seq(Element \cup {Nothing}) /\ Len(seen) \in Nat
        /\ Len(seen) <= head - tail
        /\ \A i \in 1..Len(seen) : seen[i] = element[tail + i]
    BY <1>1 DEF IInv, Visiting
  <2>2. PICK q, k : q = Queue /\ k = head - tail
    BY Zenon
  <2>3. k \in Nat /\ q = [i \in 1..k |-> element[tail + i]] /\ Len(seen) <= k
    BY <1>1, <2>1, <2>2 DEF Queue
  <2>4. \A i \in 1..k : tail + i \in Node
    BY <1>1, <2>2
  <2>5. q \in Seq(Element \cup {Nothing}) /\ Len(q) = k
    <3>1. \A i \in 1..k : element[tail + i] \in Element \cup {Nothing}
      BY <2>4, Zenon DEF IInv, Counts, TypeOK
    <3> QED BY <2>3, <3>1
  <2>6. \A i \in 1..Len(seen) : seen[i] = q[i]
    BY <2>1, <2>3
  <2>7. seen = SubSeq(q, 1, Len(seen))
    BY <2>1, <2>3, <2>5, <2>6, PrefixIs, Zenon
  <2> QED BY <2>2, <2>7, Zenon
<1> QED BY <1>2, <1>3, Zenon DEF IInv, Counts, Safe

(***************************************************************************)
(* No node of MpscLinkedQueue is used after dequeue() deleted it, only     *)
(* producers between their exchange and their store break the list, and    *)
(* for_each() visits the oldest elements in order.                         *)
(***************************************************************************)
THEOREM QueueSafe == ASSUME MaxNodes \in Nat PROVE Spec => []Safe
<1>1. Init => IInv
  BY InitIInv, Zenon
<1>2. IInv /\ [Next]_vars => IInv'
  BY StepIInv, Zenon
<1>3. IInv => Safe
  BY SafeOfIInv, Zenon
<1> QED BY <1>1, <1>2, <1>3, PTL DEF Spec

(***************************************************************************)
(* MpscLinkedQueue implements an atomic first-in-first-out queue: every    *)
(* access to shared memory by a producer or by the consumer is a step of   *)
(* that queue, or one it does not show.                                    *)
(***************************************************************************)
THEOREM QueueIsFifo == ASSUME MaxNodes \in Nat PROVE Spec => FifoInit /\ [][FifoStep]_vars
<1>1. Init => IInv /\ FifoInit
  BY InitIInv, Zenon
<1>2. IInv /\ [Next]_vars => IInv' /\ FifoStep
  BY StepIInv, Zenon
<1> QED BY <1>1, <1>2, PTL DEF Spec
=============================================================================

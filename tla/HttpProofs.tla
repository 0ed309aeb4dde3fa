----------------------------- MODULE HttpProofs -----------------------------
(***************************************************************************)
(* Proofs, for every value of their constants, of the safety properties of *)
(* two components that serve HTTP: HttpProxy, with a client that pipelines *)
(* not sent a stream, and Pipe, of which it reads the bodies it streams.   *)
(***************************************************************************)
EXTENDS HttpProxy, Integers, TLAPS

-----------------------------------------------------------------------------
(* HttpProxy: the inductive invariant.                                     *)

\* What is sent of a response, and the events of the mailbox.
Parts == {"head", "response", "chunk", "end"}
Events ==
  [do : {"handle", "waited", "stream"}, r : Request, what : {"", "chunk", "eof", "failed"}]
\* The types of the variables.
ProxyTypes ==
  /\ client \in {"serial", "burst", "pipelining"} /\ arrived \in 0..MaxRequests
  /\ future \in [Request -> {"pending", "body", "pipe", "failed", "discarded"}]
  /\ mailbox \in Seq(Events) /\ items \in Seq(Request) /\ wire \in Seq(Request \X Parts)
  /\ registered \in [Request -> Nat] /\ reading \subseteq Request
  /\ pipe \in 0..MaxRequests /\ state \in {"running", "finalized"}

\* The mailbox holds such an event of a request.
Has(b, d, r) == \E k \in 1..Len(b) : b[k].do = d /\ b[k].r = r
\* Of the events, at most one is the answer to what the proxy waits for, ...
OneAnswered(b) ==
  \A j, k \in 1..Len(b) : b[j].do # "handle" /\ b[k].do # "handle" => j = k
\* ... or none is.
Quiet(b) == \A k \in 1..Len(b) : b[k].do = "handle"
\* Requests are in the order of their arrival, ...
HandlesInOrder(b) ==
  \A j, k \in 1..Len(b) : b[j].do = "handle" /\ b[k].do = "handle" /\ j < k => b[j].r < b[k].r
\* ... and before that answer.
HandlesFirst(b) ==
  \A j, k \in 1..Len(b) : b[j].do = "handle" /\ b[k].do # "handle" => j < k

\* The proxy waits for one thing: the response of the first item, ...
WaitsForItem ==
  /\ \A r \in Request : Has(mailbox, "waited", r) =>
       /\ items # <<>> /\ r = items[1] /\ pipe = 0 /\ future[r] # "pending"
       /\ \A q \in Request : registered[q] = 0
  /\ \A r \in Request : registered[r] # 0 =>
       registered[r] = 1 /\ items # <<>> /\ r = items[1] /\ pipe = 0 /\ future[r] = "pending"
\* ... or more of the response it streams.  Then no request can arrive: this is
\* what a client that pipelines, and gets a stream, would break.
WaitsForPipe ==
  /\ \A r \in Request : Has(mailbox, "stream", r) => r = pipe /\ reading = {}
  /\ \A r \in reading : r = pipe
  /\ pipe # 0 => /\ client # "pipelining" /\ future[pipe] = "pipe"
                 /\ \A r \in Request : ~Has(mailbox, "handle", r)
  /\ \A r \in Request : future[r] = "pipe" => client # "pipelining"

\* What is sent, what is to be sent and what arrived, in this order.
Increasing(s) == \A j, k \in 1..Len(s) : j < k => s[j] < s[k]
InTurn ==
  /\ Increasing(items) /\ HandlesInOrder(mailbox)
  /\ \A k \in 1..Len(items) : items[k] <= arrived /\ pipe < items[k]
  /\ pipe <= arrived
  /\ \A r \in Request : Has(mailbox, "handle", r) =>
       r <= arrived /\ \A k \in 1..Len(items) : items[k] < r
\* The end of a response.
Ends(r) == {<<r, "response">>, <<r, "end">>}
\* What was sent is of earlier requests.
Behind ==
  \A i \in 1..Len(wire) :
    /\ wire[i][1] <= arrived /\ \A k \in 1..Len(items) : wire[i][1] < items[k]
    /\ \A r \in Request : Has(mailbox, "handle", r) => wire[i][1] < r
    /\ pipe # 0 => wire[i][1] <= pipe /\ wire[i] \notin Ends(pipe)

\* All responses begun have ended, but that of the pipe.
Over(w, p) ==
  \A i \in 1..Len(w) : w[i][1] = p \/ \E k \in i..Len(w) : w[k] \in Ends(w[i][1])
\* Responses are in order, one ending before the next begins.
InOrder(w) ==
  \A i, j \in 1..Len(w) : i < j =>
    /\ w[i][1] <= w[j][1]
    /\ w[i][1] < w[j][1] => \E k \in i..(j - 1) : w[k] \in Ends(w[i][1])
\* The reader of a response that was streamed is closed.
Closed ==
  /\ discarded = {}
  /\ \A i \in 1..Len(wire) :
       wire[i][2] = "head" => wire[i][1] = pipe \/ wire[i][1] \in readerClosed

\* The inductive invariant: while the proxy runs, and always.
Running ==
  /\ OneAnswered(mailbox) /\ (client # "pipelining" => HandlesFirst(mailbox))
  /\ WaitsForItem /\ WaitsForPipe /\ InTurn /\ Behind /\ Over(wire, pipe) /\ Closed
ProxyInv ==
  /\ ProxyTypes /\ InOrder(wire) /\ ProducersTold
  /\ state = "running" => Running


-----------------------------------------------------------------------------
\* Tail, element by element.
LEMMA TailFacts ==
  ASSUME NEW S, NEW s \in Seq(S), s # <<>>
  PROVE  /\ Tail(s) \in Seq(S) /\ Len(Tail(s)) = Len(s) - 1 /\ s[1] \in S
         /\ \A k \in 1..Len(Tail(s)) : Tail(s)[k] = s[k + 1] /\ k + 1 \in 1..Len(s)
         /\ \A k \in 1..Len(s) : k = 1 \/ (k - 1 \in 1..Len(Tail(s)) /\ Tail(s)[k - 1] = s[k])
         /\ 1 \in 1..Len(s)
  OBVIOUS

\* Append, element by element.
LEMMA AppendFacts ==
  ASSUME NEW S, NEW s \in Seq(S), NEW e \in S
  PROVE  /\ Append(s, e) \in Seq(S) /\ Len(Append(s, e)) = Len(s) + 1
         /\ \A k \in 1..Len(s) : Append(s, e)[k] = s[k]
         /\ Append(s, e)[Len(s) + 1] = e
  OBVIOUS

\* The positions of a sequence that grew.
LEMMA AppendPlaces ==
  ASSUME NEW S, NEW s \in Seq(S), NEW e \in S, NEW t, t = Append(s, e)
  PROVE  /\ \A k \in 1..Len(t) : (k \in 1..Len(s) /\ t[k] = s[k]) \/ (k = Len(s) + 1 /\ t[k] = e)
         /\ \A k \in 1..Len(s) : k \in 1..Len(t) /\ t[k] = s[k] /\ k < Len(s) + 1 /\ k # Len(s) + 1
         /\ Len(s) + 1 \in 1..Len(t) /\ t[Len(s) + 1] = e /\ ~(Len(s) + 1 < Len(s) + 1)
         /\ t \in Seq(S) /\ Len(t) = Len(s) + 1 /\ Len(s) \in Nat
  BY AppendFacts
\* The positions of a sequence without its head.
LEMMA TailPlaces ==
  ASSUME NEW S, NEW s \in Seq(S), s # <<>>, NEW t, t = Tail(s)
  PROVE  /\ \A k \in 1..Len(t) : t[k] = s[k + 1] /\ k + 1 \in 1..Len(s) /\ 1 < k + 1 /\ k + 1 # 1
         /\ \A k \in 1..Len(s) : k = 1 \/ (k - 1 \in 1..Len(t) /\ t[k - 1] = s[k])
         /\ \A j, k \in 1..Len(t) : (j < k <=> j + 1 < k + 1) /\ (j + 1 = k + 1 => j = k)
         /\ 1 \in 1..Len(s) /\ t \in Seq(S) /\ s[1] \in S
  BY TailFacts

-----------------------------------------------------------------------------
\* The mailbox when an event is appended, ...
LEMMA AppendHas ==
  ASSUME NEW S, NEW b \in Seq(S), NEW e \in S, NEW d, NEW r
  PROVE  Has(Append(b, e), d, r) <=> Has(b, d, r) \/ (e.do = d /\ e.r = r)
<1>1. PICK t : t = Append(b, e)
  OBVIOUS
<1>2. /\ \A k \in 1..Len(t) : (k \in 1..Len(b) /\ t[k] = b[k]) \/ (k = Len(b) + 1 /\ t[k] = e)
      /\ \A k \in 1..Len(b) : k \in 1..Len(t) /\ t[k] = b[k]
      /\ Len(b) + 1 \in 1..Len(t) /\ t[Len(b) + 1] = e
  BY <1>1, AppendPlaces
<1> QED BY <1>1, <1>2, Zenon DEF Has

\* ... a request ...
LEMMA AppendHandle ==
  ASSUME NEW S, NEW b \in Seq(S), NEW e \in S, e.do = "handle"
  PROVE  /\ OneAnswered(b) => OneAnswered(Append(b, e))
         /\ Quiet(b) => Quiet(Append(b, e)) /\ HandlesFirst(Append(b, e))
         /\ HandlesInOrder(b) /\ (\A k \in 1..Len(b) : b[k].do = "handle" => b[k].r < e.r) =>
              HandlesInOrder(Append(b, e))
<1>1. PICK t : t = Append(b, e)
  OBVIOUS
<1>2. /\ \A k \in 1..Len(t) : (k \in 1..Len(b) /\ t[k] = b[k]) \/ (k = Len(b) + 1 /\ t[k] = e)
      /\ \A k \in 1..Len(b) : ~(Len(b) + 1 < k)
      /\ ~(Len(b) + 1 < Len(b) + 1)
  BY <1>1, AppendPlaces
<1>3. OneAnswered(b) => OneAnswered(t)
  BY <1>2, Zenon DEF OneAnswered
<1>4. Quiet(b) => Quiet(t)
  BY <1>2, Zenon DEF Quiet
<1>5. Quiet(b) => HandlesFirst(t)
  BY <1>4, Zenon DEF Quiet, HandlesFirst
<1>6. ASSUME HandlesInOrder(b), \A k \in 1..Len(b) : b[k].do = "handle" => b[k].r < e.r,
             NEW j \in 1..Len(t), NEW k \in 1..Len(t), t[j].do = "handle", t[k].do = "handle", j < k
      PROVE  t[j].r < t[k].r
  <2>1. j \in 1..Len(b) /\ t[j] = b[j]
    BY <1>2, <1>6, Zenon
  <2> QED BY <1>2, <1>6, <2>1, Zenon DEF HandlesInOrder
<1> QED BY <1>1, <1>3, <1>4, <1>5, <1>6, Zenon DEF HandlesInOrder

\* ... or an answer, ...
LEMMA AppendAnswer ==
  ASSUME NEW S, NEW b \in Seq(S), NEW e \in S, e.do # "handle"
  PROVE  /\ Quiet(b) => OneAnswered(Append(b, e)) /\ HandlesFirst(Append(b, e))
         /\ HandlesInOrder(b) => HandlesInOrder(Append(b, e))
<1>1. PICK t : t = Append(b, e)
  OBVIOUS
<1>2. /\ \A k \in 1..Len(t) : (k \in 1..Len(b) /\ t[k] = b[k]) \/ (k = Len(b) + 1 /\ t[k] = e)
      /\ \A k \in 1..Len(b) : k < Len(b) + 1
  BY <1>1, AppendPlaces
<1>3. Quiet(b) => OneAnswered(t)
  BY <1>2, Zenon DEF OneAnswered, Quiet
<1>4. Quiet(b) => HandlesFirst(t)
  BY <1>2, Zenon DEF HandlesFirst, Quiet
<1>5. HandlesInOrder(b) => HandlesInOrder(t)
  BY <1>2, Zenon DEF HandlesInOrder
<1> QED BY <1>1, <1>3, <1>4, <1>5, Zenon

\* ... and when its head is taken.
LEMMA TailBox ==
  ASSUME NEW S, NEW b \in Seq(S), b # <<>>
  PROVE  /\ \A d, r : Has(Tail(b), d, r) => Has(b, d, r)
         /\ OneAnswered(b) => OneAnswered(Tail(b))
         /\ HandlesFirst(b) => HandlesFirst(Tail(b))
         /\ HandlesInOrder(b) => HandlesInOrder(Tail(b))
         /\ Quiet(b) => Quiet(Tail(b))
         /\ Has(b, b[1].do, b[1].r)
         /\ b[1].do = "handle" /\ HandlesInOrder(b) =>
              \A r : Has(Tail(b), "handle", r) => b[1].r < r
         /\ b[1].do # "handle" /\ OneAnswered(b) => Quiet(Tail(b))
         /\ b[1].do # "handle" /\ HandlesFirst(b) => \A r : ~Has(Tail(b), "handle", r)
<1>1. PICK t : t = Tail(b)
  OBVIOUS
<1>2. /\ \A k \in 1..Len(t) : t[k] = b[k + 1] /\ k + 1 \in 1..Len(b) /\ 1 < k + 1 /\ k + 1 # 1
                              /\ ~(k + 1 < 1)
      /\ \A j, k \in 1..Len(t) : (j < k <=> j + 1 < k + 1) /\ (j + 1 = k + 1 => j = k)
      /\ 1 \in 1..Len(b)
  BY <1>1, TailPlaces
<1>3. \A d, r : Has(t, d, r) => Has(b, d, r)
  BY <1>2, Zenon DEF Has
<1>4. OneAnswered(b) => OneAnswered(t)
  BY <1>2 DEF OneAnswered
<1>5. HandlesFirst(b) => HandlesFirst(t)
  BY <1>2 DEF HandlesFirst
<1>6. HandlesInOrder(b) => HandlesInOrder(t)
  BY <1>2 DEF HandlesInOrder
<1>7. Quiet(b) => Quiet(t)
  BY <1>2 DEF Quiet
<1>8. Has(b, b[1].do, b[1].r)
  BY <1>2, Zenon DEF Has
<1>9. ASSUME b[1].do = "handle", HandlesInOrder(b), NEW r, Has(t, "handle", r) PROVE b[1].r < r
  <2>1. PICK k \in 1..Len(t) : t[k].do = "handle" /\ t[k].r = r
    BY <1>9, Zenon DEF Has
  <2>2. PICK m : m = k + 1
    OBVIOUS
  <2>3. m \in 1..Len(b) /\ 1 < m /\ t[k] = b[m]
    BY <1>2, <2>2, Zenon
  <2>4. b[m].do = "handle" /\ b[m].r = r
    BY <2>1, <2>3
  <2>5. b[1].r < b[m].r
    BY <1>2, <1>9, <2>3, <2>4, Zenon DEF HandlesInOrder
  <2> QED BY <2>4, <2>5
<1>10. ASSUME b[1].do # "handle", OneAnswered(b) PROVE Quiet(t)
  <2>1. ASSUME NEW k \in 1..Len(t) PROVE t[k].do = "handle"
    <3>1. PICK m : m = k + 1
      OBVIOUS
    <3>2. m \in 1..Len(b) /\ 1 # m /\ t[k] = b[m]
      BY <1>2, <3>1, Zenon
    <3>3. b[m].do = "handle"
      BY <1>2, <1>10, <3>2, Zenon DEF OneAnswered
    <3> QED BY <3>2, <3>3
  <2> QED BY <2>1, Zenon DEF Quiet
<1>11. ASSUME b[1].do # "handle", HandlesFirst(b), NEW r PROVE ~Has(t, "handle", r)
  <2>1. ASSUME NEW k \in 1..Len(t), t[k].do = "handle" PROVE FALSE
    <3>1. PICK m : m = k + 1
      OBVIOUS
    <3>2. m \in 1..Len(b) /\ ~(m < 1) /\ t[k] = b[m]
      BY <1>2, <3>1, Zenon
    <3>3. b[m].do = "handle"
      BY <2>1, <3>2
    <3> QED BY <1>2, <1>11, <3>2, <3>3, Zenon DEF HandlesFirst
  <2> QED BY <2>1, Zenon DEF Has
<1> QED BY <1>1, <1>3, <1>4, <1>5, <1>6, <1>7, <1>8, <1>9, <1>10, <1>11, Zenon

\* A mailbox without an answer.
LEMMA QuietHas ==
  ASSUME NEW b
  PROVE  /\ Quiet(b) => \A r : ~Has(b, "waited", r) /\ ~Has(b, "stream", r)
         /\ Quiet(b) => OneAnswered(b) /\ HandlesFirst(b)
<1>1. "waited" # "handle" /\ "stream" # "handle"
  OBVIOUS
<1>2. Quiet(b) => \A r : ~Has(b, "waited", r) /\ ~Has(b, "stream", r)
  BY <1>1, Zenon DEF Quiet, Has
<1>3. Quiet(b) => OneAnswered(b) /\ HandlesFirst(b)
  BY Zenon DEF Quiet, OneAnswered, HandlesFirst
<1> QED BY <1>2, <1>3, Zenon

\* What is sent, when the response that is being sent goes on or ends.
LEMMA AppendWire ==
  ASSUME NEW S, S \subseteq Nat \ {0}, NEW w \in Seq(S \X Parts), NEW r \in S, NEW part \in Parts,
         NEW p \in {0, r}, InOrder(w), Over(w, p), \A i \in 1..Len(w) : w[i][1] <= r
  PROVE  /\ InOrder(Append(w, <<r, part>>)) /\ Over(Append(w, <<r, part>>), r)
         /\ part \in {"response", "end"} => Over(Append(w, <<r, part>>), 0)
<1>1. PICK e, t, n : e = <<r, part>> /\ t = Append(w, e) /\ n = Len(w) + 1
  OBVIOUS
<1>2. e \in S \X Parts /\ e[1] = r /\ r <= r /\ ~(r < r) /\ r # 0
  BY <1>1
<1>3. /\ \A k \in 1..Len(t) : (k \in 1..Len(w) /\ t[k] = w[k]) \/ (k = n /\ t[k] = e)
      /\ \A k \in 1..Len(w) : k \in 1..Len(t) /\ t[k] = w[k] /\ k # n /\ ~(n < k)
      /\ n \in 1..Len(t) /\ t[n] = e /\ Len(t) = n /\ ~(n < n) /\ Len(w) \in Nat
      /\ t \in Seq(S \X Parts)
  BY <1>1, <1>2, AppendPlaces
<1>4. \A i \in 1..Len(w) : w[i][1] \in S /\ w[i][1] # 0
  OBVIOUS
<1>5. ASSUME NEW i \in 1..Len(w), NEW k \in i..Len(w) PROVE k \in 1..Len(w) /\ k \in i..Len(t) /\ k \in i..(n - 1)
  BY <1>1, <1>3
<1>6. ASSUME NEW i \in 1..Len(w), w[i][1] # r
      PROVE  \E k \in i..Len(w) : k \in 1..Len(w) /\ w[k] \in Ends(w[i][1])
  BY <1>4, <1>5, <1>6, Zenon DEF Over
<1>7. ASSUME NEW i \in 1..Len(t), NEW j \in 1..Len(t), i < j
      PROVE  /\ t[i][1] <= t[j][1]
             /\ t[i][1] < t[j][1] => \E k \in i..(j - 1) : t[k] \in Ends(t[i][1])
  <2>1. i \in 1..Len(w) /\ t[i] = w[i]
    BY <1>3, <1>7, Zenon
  <2>2. CASE j \in 1..Len(w)
    <3>1. t[j] = w[j]
      BY <1>3, <2>2, Zenon
    <3>2. \A k \in i..(j - 1) : k \in 1..Len(w)
      BY <1>3, <2>1, <2>2
    <3>3. \A k \in i..(j - 1) : t[k] = w[k]
      BY <1>3, <3>2, Zenon
    <3>4. /\ w[i][1] <= w[j][1]
          /\ w[i][1] < w[j][1] => \E k \in i..(j - 1) : w[k] \in Ends(w[i][1])
      BY <1>7, <2>1, <2>2, Zenon DEF InOrder
    <3> QED BY <2>1, <3>1, <3>3, <3>4, Zenon
  <2>3. CASE j = n
    <3>1. t[j][1] = r /\ w[i][1] <= r
      BY <1>2, <1>3, <2>1, <2>3, Zenon
    <3>2. ASSUME w[i][1] < r PROVE \E k \in i..(n - 1) : t[k] \in Ends(t[i][1])
      <4>1. w[i][1] # r
        BY <1>2, <3>2, Zenon
      <4> QED BY <1>3, <1>5, <1>6, <2>1, <4>1, Zenon
    <3> QED BY <2>1, <2>3, <3>1, <3>2, Zenon
  <2> QED BY <1>3, <2>2, <2>3, Zenon
<1>8. Over(t, r)
  <2>1. ASSUME NEW i \in 1..Len(t), t[i][1] # r
        PROVE  \E k \in i..Len(t) : t[k] \in Ends(t[i][1])
    <3>1. i \in 1..Len(w) /\ t[i] = w[i]
      BY <1>2, <1>3, <2>1, Zenon
    <3> QED BY <1>3, <1>5, <1>6, <2>1, <3>1, Zenon
  <2> QED BY <2>1, Zenon DEF Over
<1>9. ASSUME part \in {"response", "end"} PROVE Over(t, 0)
  <2>1. e \in Ends(r)
    BY <1>1, <1>9 DEF Ends
  <2>2. ASSUME NEW i \in 1..Len(t) PROVE \E k \in i..Len(t) : t[k] \in Ends(t[i][1])
    <3>1. CASE t[i][1] = r
      <4>1. n \in i..Len(t)
        BY <1>3
      <4> QED BY <1>3, <2>1, <3>1, <4>1, Zenon
    <3>2. CASE t[i][1] # r
      BY <1>8, <3>2, Zenon DEF Over
    <3> QED BY <3>1, <3>2, Zenon
  <2> QED BY <2>2, Zenon DEF Over
<1> QED BY <1>1, <1>7, <1>8, <1>9, Zenon DEF InOrder

-----------------------------------------------------------------------------
\* The types, one by one.
LEMMA ProxyParts ==
  ASSUME MaxRequests \in Nat, ProxyTypes
  PROVE  /\ Request = 1..MaxRequests /\ Request \subseteq Nat \ {0} /\ 0 \notin Request
         /\ arrived \in Nat /\ pipe \in Nat /\ (pipe # 0 => pipe \in Request)
         /\ mailbox \in Seq(Events) /\ items \in Seq(Request)
         /\ wire \in Seq(Request \X Parts)
         /\ registered \in [Request -> Nat]
         /\ Len(mailbox) \in Nat /\ Len(items) \in Nat /\ Len(wire) \in Nat
         /\ \A k \in 1..Len(items) : items[k] \in Request
         /\ \A i \in 1..Len(wire) : wire[i][1] \in Request
         /\ 1 \in 1..Len(items) <=> items # <<>>
<1>1. /\ Request = 1..MaxRequests /\ Request \subseteq Nat \ {0} /\ 0 \notin Request
  BY DEF Request
<1>2. /\ arrived \in Nat /\ pipe \in Nat /\ (pipe # 0 => pipe \in Request)
  BY DEF ProxyTypes, Request
<1>3. /\ mailbox \in Seq(Events) /\ items \in Seq(Request)
      /\ wire \in Seq(Request \X Parts) /\ registered \in [Request -> Nat]
  BY Zenon DEF ProxyTypes
<1>4. Len(mailbox) \in Nat /\ Len(items) \in Nat /\ Len(wire) \in Nat
  BY <1>3
<1>5. /\ \A k \in 1..Len(items) : items[k] \in Request
      /\ 1 \in 1..Len(items) <=> items # <<>>
  BY <1>3
<1>6. \A i \in 1..Len(wire) : wire[i][1] \in Request
  BY <1>3
<1> QED BY <1>1, <1>2, <1>3, <1>4, <1>5, <1>6, Zenon

\* A mailbox in which no answer of any request is found.
LEMMA HasQuiet ==
  ASSUME NEW b \in Seq(Events),
         \A r \in Request : ~Has(b, "waited", r) /\ ~Has(b, "stream", r)
  PROVE  Quiet(b)
<1>1. ASSUME NEW k \in 1..Len(b) PROVE b[k].do = "handle"
  <2>1. b[k] \in Events
    OBVIOUS
  <2>2. b[k].do \in {"handle", "waited", "stream"} /\ b[k].r \in Request
    BY <2>1 DEF Events
  <2>3. b[k].do # "waited" /\ b[k].do # "stream"
    BY <2>2, Zenon DEF Has
  <2> QED BY <2>2, <2>3
<1> QED BY <1>1, Zenon DEF Quiet

\* When the proxy waits for nothing there is no answer in the mailbox.
LEMMA IdleIsQuiet ==
  ASSUME MaxRequests \in Nat, ProxyTypes, WaitsForItem, WaitsForPipe,
         items = <<>> \/ pipe # 0 \/ \E q \in Request : registered[q] # 0,
         pipe = 0 \/ reading # {}
  PROVE  Quiet(mailbox)
<1>1. \A r \in Request : ~Has(mailbox, "waited", r)
  BY Zenon DEF WaitsForItem
<1>2. \A r \in Request : ~Has(mailbox, "stream", r)
  BY ProxyParts, Zenon DEF WaitsForPipe
<1> QED BY <1>1, <1>2, HasQuiet, ProxyParts, Zenon

\* HttpProxy::next.
LEMMA NextItemKeeps ==
  ASSUME MaxRequests \in Nat, ProxyTypes, NEW its \in Seq(Request), NEW box \in Seq(Events),
         Quiet(box), NextItem(its, box), items' = its, pipe' = 0, UNCHANGED future,
         \A q \in Request : registered[q] = 0
  PROVE  /\ mailbox' \in Seq(Events) /\ registered' \in [Request -> Nat]
         /\ OneAnswered(mailbox') /\ HandlesFirst(mailbox') /\ WaitsForItem'
         /\ \A r : ~Has(mailbox', "stream", r)
         /\ \A r : Has(mailbox', "handle", r) => Has(box, "handle", r)
         /\ HandlesInOrder(box) => HandlesInOrder(mailbox')
<1>1. registered \in [Request -> Nat]
  BY ProxyParts, Zenon
<1>2. \A r : ~Has(box, "waited", r) /\ ~Has(box, "stream", r)
  BY QuietHas, Zenon
<1>3. CASE mailbox' = box /\ registered' = registered
  <2>1. WaitsForItem'
    BY <1>2, <1>3, Zenon DEF WaitsForItem
  <2> QED BY <1>1, <1>2, <1>3, <2>1, QuietHas, Zenon
<1>4. CASE its # <<>>
  <2>1. PICK r : r = its[1]
    OBVIOUS
  <2>2. r \in Request
    BY <1>4, <2>1
  <2>3. CASE future[r] = "pending"
    <3>1. mailbox' = box /\ registered' = [registered EXCEPT ![r] = @ + 1]
      BY <1>4, <2>1, <2>3, Zenon DEF NextItem
    <3>2. /\ registered' \in [Request -> Nat] /\ registered'[r] = 1
          /\ \A q \in Request : q # r => registered'[q] = 0
      BY <1>1, <2>2, <3>1
    <3>3. WaitsForItem'
      BY <1>2, <1>4, <2>1, <2>3, <3>1, <3>2, Zenon DEF WaitsForItem
    <3> QED BY <1>2, <3>1, <3>2, <3>3, QuietHas, Zenon
  <2>4. CASE future[r] # "pending"
    <3>1. PICK e : e = Event("waited", r, "")
      OBVIOUS
    <3>2. mailbox' = Append(box, e) /\ registered' = registered
      BY <1>4, <2>1, <2>4, <3>1, Zenon DEF NextItem
    <3>3. e \in Events /\ e.do = "waited" /\ e.r = r
      BY <2>2, <3>1 DEF Event, Events
    <3>4. "waited" # "handle" /\ "waited" # "stream"
      OBVIOUS
    <3>5. /\ Append(box, e) \in Seq(Events)
          /\ OneAnswered(Append(box, e)) /\ HandlesFirst(Append(box, e))
          /\ HandlesInOrder(box) => HandlesInOrder(Append(box, e))
      BY <3>3, <3>4, AppendAnswer, AppendFacts
    <3>6. ASSUME NEW d, NEW q
          PROVE  Has(Append(box, e), d, q) <=> Has(box, d, q) \/ (e.do = d /\ e.r = q)
      BY <3>3, AppendHas
    <3>7. WaitsForItem'
      BY <1>2, <1>4, <2>1, <2>4, <3>2, <3>3, <3>6, Zenon DEF WaitsForItem
    <3> QED BY <1>1, <1>2, <3>2, <3>3, <3>4, <3>5, <3>6, <3>7, Zenon
  <2> QED BY <2>3, <2>4, Zenon
<1> QED BY <1>3, <1>4, Zenon DEF NextItem

-----------------------------------------------------------------------------
\* The head of the mailbox.
LEMMA HeadOfBox ==
  ASSUME MaxRequests \in Nat, ProxyTypes, mailbox # <<>>
  PROVE  /\ Head(mailbox) = mailbox[1] /\ mailbox[1] \in Events /\ mailbox[1].r \in Request
         /\ Tail(mailbox) \in Seq(Events)
<1>1. mailbox \in Seq(Events)
  BY ProxyParts, Zenon
<1>2. Head(mailbox) = mailbox[1] /\ mailbox[1] \in Events /\ Tail(mailbox) \in Seq(Events)
  BY <1>1, TailFacts
<1>3. mailbox[1].r \in Request
  BY <1>2 DEF Events
<1> QED BY <1>2, <1>3, Zenon

\* HttpProxy::handle.
LEMMA HandleStep ==
  ASSUME MaxRequests \in Nat, ProxyInv, Handle PROVE ProxyInv'
<1>1. ProxyTypes /\ Running /\ state = "running" /\ mailbox # <<>>
  BY Zenon DEF ProxyInv, Handle
<1>2. PICK b, r, n : b = Tail(mailbox) /\ r = mailbox[1].r /\ n = Append(items, r)
  OBVIOUS
<1>3. /\ mailbox[1].do = "handle" /\ b \in Seq(Events) /\ r \in Request
      /\ items' = n
      /\ UNCHANGED <<client, arrived, chunks, future, pipe, reading, wire, readerClosed,
                     discarded, state>>
      /\ IF Len(items') = 1 THEN NextItem(items', b)
         ELSE mailbox' = b /\ registered' = registered
  BY <1>1, <1>2, HeadOfBox, Zenon DEF Handle, envVars
<1>4. mailbox \in Seq(Events) /\ items \in Seq(Request)
  BY <1>1, ProxyParts, Zenon
<1>5. /\ \A d, q : Has(b, d, q) => Has(mailbox, d, q)
      /\ OneAnswered(b) /\ (HandlesFirst(mailbox) => HandlesFirst(b)) /\ HandlesInOrder(b)
      /\ Quiet(mailbox) => Quiet(b)
      /\ Has(mailbox, "handle", r) /\ \A q : Has(b, "handle", q) => r < q
  <2>1. OneAnswered(mailbox) /\ HandlesInOrder(mailbox)
    BY <1>1, Zenon DEF Running, InTurn
  <2> QED BY <1>1, <1>2, <1>3, <1>4, <2>1, TailBox
<1>6. pipe = 0
  BY <1>1, <1>3, <1>5, Zenon DEF Running, WaitsForPipe
<1>7. /\ n \in Seq(Request) /\ Len(n) = Len(items) + 1
      /\ \A k \in 1..Len(n) : (k \in 1..Len(items) /\ n[k] = items[k]) \/ (k = Len(items) + 1 /\ n[k] = r)
      /\ \A k \in 1..Len(items) : ~(Len(items) + 1 < k)
      /\ ~(Len(items) + 1 < Len(items) + 1)
  BY <1>2, <1>3, <1>4, AppendPlaces
<1>8. r <= arrived /\ 0 < r /\ \A k \in 1..Len(items) : items[k] < r
  <2>1. r <= arrived /\ \A k \in 1..Len(items) : items[k] < r
    BY <1>1, <1>3, <1>5, Zenon DEF Running, InTurn
  <2>2. 0 < r
    BY <1>1, <1>3, ProxyParts
  <2> QED BY <2>1, <2>2, Zenon
<1>9. /\ mailbox' \in Seq(Events) /\ registered' \in [Request -> Nat]
      /\ OneAnswered(mailbox') /\ (client' # "pipelining" => HandlesFirst(mailbox')) /\ WaitsForItem'
      /\ \A q \in Request : ~Has(mailbox', "stream", q)
      /\ \A q : Has(mailbox', "handle", q) => Has(b, "handle", q)
      /\ HandlesInOrder(mailbox')
  <2>1. CASE items = <<>>
    <3>1. Quiet(mailbox)
      BY <1>1, <1>6, <2>1, IdleIsQuiet, Zenon DEF Running
    <3>2. Quiet(b)
      BY <1>5, <3>1, Zenon
    <3>3. \A q \in Request : registered[q] = 0
      BY <1>1, <2>1, Zenon DEF Running, WaitsForItem
    <3>4. Len(n) = 1
      BY <1>7, <2>1
    <3>5. NextItem(n, b)
      BY <1>3, <3>4, Zenon
    <3>6. items' = n /\ pipe' = 0 /\ UNCHANGED future
      BY <1>3, <1>6, Zenon
    <3>7. /\ mailbox' \in Seq(Events) /\ registered' \in [Request -> Nat]
          /\ OneAnswered(mailbox') /\ HandlesFirst(mailbox') /\ WaitsForItem'
          /\ \A q : ~Has(mailbox', "stream", q)
          /\ \A q : Has(mailbox', "handle", q) => Has(b, "handle", q)
          /\ HandlesInOrder(b) => HandlesInOrder(mailbox')
      BY <1>1, <1>3, <1>7, <3>2, <3>3, <3>5, <3>6, NextItemKeeps
    <3> QED BY <1>5, <3>7, Zenon
  <2>2. CASE items # <<>>
    <3>1. Len(n) # 1 /\ 1 \in 1..Len(items) /\ n # <<>> /\ n[1] = items[1]
      BY <1>4, <1>7, <2>2
    <3>2. mailbox' = b /\ registered' = registered
      BY <1>3, <3>1, Zenon
    <3>3. registered \in [Request -> Nat]
      BY <1>1, ProxyParts, Zenon
    <3>4. WaitsForItem'
      BY <1>1, <1>3, <1>5, <3>1, <3>2, Zenon DEF Running, WaitsForItem
    <3>5. \A q \in Request : ~Has(b, "stream", q)
      BY <1>1, <1>5, <1>6, ProxyParts, Zenon DEF Running, WaitsForPipe
    <3> QED BY <1>1, <1>3, <1>5, <3>2, <3>3, <3>4, <3>5, Zenon DEF Running
  <2> QED BY <2>1, <2>2, Zenon
<1>10. ProxyTypes'
  BY <1>1, <1>3, <1>7, <1>9, Zenon DEF ProxyTypes
<1>11. WaitsForPipe'
  BY <1>1, <1>3, <1>6, <1>9, Zenon DEF Running, WaitsForPipe
<1>12. InTurn'
  <2>1. Increasing(n)
    <3>1. ASSUME NEW j \in 1..Len(n), NEW k \in 1..Len(n), j < k PROVE n[j] < n[k]
      <4>1. j \in 1..Len(items) /\ n[j] = items[j]
        BY <1>7, <3>1, Zenon
      <4> QED BY <1>1, <1>7, <1>8, <3>1, <4>1, Zenon DEF Running, InTurn, Increasing
    <3> QED BY <3>1, Zenon DEF Increasing
  <2>2. \A k \in 1..Len(n) : n[k] <= arrived /\ pipe < n[k]
    BY <1>1, <1>6, <1>7, <1>8, Zenon DEF Running, InTurn
  <2>3. ASSUME NEW q \in Request, Has(mailbox', "handle", q)
        PROVE  q <= arrived /\ \A k \in 1..Len(n) : n[k] < q
    <3>1. Has(mailbox, "handle", q) /\ r < q
      BY <1>5, <1>9, <2>3, Zenon
    <3> QED BY <1>1, <1>7, <3>1, Zenon DEF Running, InTurn
  <2>4. pipe <= arrived
    BY <1>1, Zenon DEF Running, InTurn
  <2> QED BY <1>3, <1>9, <2>1, <2>2, <2>3, <2>4, Zenon DEF InTurn
<1>13. Behind'
  <2>1. ASSUME NEW i \in 1..Len(wire)
        PROVE  /\ wire[i][1] <= arrived /\ \A k \in 1..Len(n) : wire[i][1] < n[k]
               /\ \A q \in Request : Has(mailbox', "handle", q) => wire[i][1] < q
    BY <1>1, <1>3, <1>5, <1>7, <1>9, Zenon DEF Running, Behind
  <2> QED BY <1>3, <1>6, <2>1, Zenon DEF Behind
<1>14. Over(wire', pipe') /\ Closed' /\ InOrder(wire') /\ ProducersTold'
  <2>1. Over(wire', pipe') /\ InOrder(wire')
    BY <1>1, <1>3, Zenon DEF ProxyInv, Running
  <2>2. Closed'
    BY <1>1, <1>3, Zenon DEF Running, Closed
  <2>3. state' # "finalized"
    BY <1>1, <1>3
  <2> QED BY <2>1, <2>2, <2>3, Zenon DEF ProducersTold
<1> QED BY <1>9, <1>10, <1>11, <1>12, <1>13, <1>14, Zenon DEF ProxyInv, Running

\* A part of the response that is sent, or is the next to be sent, goes out.
LEMMA SentKeeps ==
  ASSUME MaxRequests \in Nat, ProxyTypes, InOrder(wire), Over(wire, pipe),
         NEW r \in Request, pipe \in {0, r}, \A i \in 1..Len(wire) : wire[i][1] <= r,
         NEW part \in Parts, wire' = Append(wire, <<r, part>>)
  PROVE  /\ wire' \in Seq(Request \X Parts) /\ InOrder(wire') /\ Over(wire', r)
         /\ part \in {"response", "end"} => Over(wire', 0)
         /\ \A i \in 1..Len(wire') :
              (i \in 1..Len(wire) /\ wire'[i] = wire[i])
              \/ (wire'[i][1] = r /\ wire'[i][2] = part /\ wire'[i] = <<r, part>>)
<1>1. PICK w, p, e : w = wire /\ p = pipe /\ e = <<r, part>>
  OBVIOUS
<1>2. /\ w \in Seq(Request \X Parts) /\ Request \subseteq Nat \ {0} /\ e \in Request \X Parts
      /\ e[1] = r /\ e[2] = part
  <2>1. w \in Seq(Request \X Parts) /\ Request \subseteq Nat \ {0}
    BY <1>1, ProxyParts, Zenon
  <2> QED BY <1>1, <2>1
<1>3. /\ InOrder(Append(w, <<r, part>>)) /\ Over(Append(w, <<r, part>>), r)
      /\ part \in {"response", "end"} => Over(Append(w, <<r, part>>), 0)
  <2>1. p \in {0, r} /\ InOrder(w) /\ Over(w, p) /\ \A i \in 1..Len(w) : w[i][1] <= r
    BY <1>1, Zenon
  <2> QED BY <1>2, <2>1, AppendWire
<1>4. PICK t : t = Append(w, e)
  OBVIOUS
<1>5. /\ \A k \in 1..Len(t) : (k \in 1..Len(w) /\ t[k] = w[k]) \/ (k = Len(w) + 1 /\ t[k] = e)
      /\ t \in Seq(Request \X Parts)
  BY <1>2, <1>4, AppendPlaces
<1> QED BY <1>1, <1>2, <1>3, <1>4, <1>5, Zenon

\* HttpProxy::waited and process.
LEMMA WaitedStep ==
  ASSUME MaxRequests \in Nat, ProxyInv, Waited PROVE ProxyInv'
<1>1. ProxyTypes /\ Running /\ state = "running" /\ mailbox # <<>>
  BY Zenon DEF ProxyInv, Waited
<1>2. PICK b, r, n : b = Tail(mailbox) /\ r = mailbox[1].r /\ n = Tail(items)
  OBVIOUS
<1>3. mailbox[1].do = "waited" /\ b \in Seq(Events) /\ r \in Request
  BY <1>1, <1>2, HeadOfBox, Zenon DEF Waited
<1>4. mailbox \in Seq(Events) /\ items \in Seq(Request)
  BY <1>1, ProxyParts, Zenon
<1>5. /\ \A d, q : Has(b, d, q) => Has(mailbox, d, q)
      /\ Quiet(b) /\ HandlesInOrder(b)
      /\ HandlesFirst(mailbox) => \A q : ~Has(b, "handle", q)
      /\ Has(mailbox, "waited", r)
  <2>1. OneAnswered(mailbox) /\ HandlesInOrder(mailbox)
    BY <1>1, Zenon DEF Running, InTurn
  <2>2. "waited" # "handle"
    OBVIOUS
  <2> QED BY <1>1, <1>2, <1>3, <1>4, <2>1, <2>2, TailBox
<1>6. /\ items # <<>> /\ items[1] = r /\ pipe = 0 /\ \A q \in Request : registered[q] = 0
  BY <1>1, <1>3, <1>5, Zenon DEF Running, WaitsForItem
<1>7. /\ IF future[r] = "pipe"
         THEN /\ wire' = Append(wire, <<r, "head">>) /\ pipe' = r
              /\ reading' = reading \cup {r} /\ mailbox' = b /\ UNCHANGED registered
         ELSE /\ wire' = Append(wire, <<r, "response">>) /\ NextItem(n, b)
              /\ UNCHANGED <<pipe, reading>>
      /\ items' = n
      /\ UNCHANGED <<client, arrived, chunks, future, readerClosed, discarded, state>>
  BY <1>1, <1>2, <1>6, HeadOfBox, Zenon DEF Waited, envVars
<1>8. /\ n \in Seq(Request) /\ 1 \in 1..Len(items)
      /\ \A k \in 1..Len(n) : n[k] = items[k + 1] /\ k + 1 \in 1..Len(items) /\ 1 < k + 1
      /\ \A j, k \in 1..Len(n) : j < k => j + 1 < k + 1
  BY <1>2, <1>4, <1>6, TailPlaces
<1>9. /\ Increasing(n) /\ \A k \in 1..Len(n) : n[k] <= arrived /\ r < n[k] /\ 0 < n[k]
      /\ r <= arrived
  <2>1. Increasing(items) /\ \A k \in 1..Len(items) : items[k] <= arrived /\ pipe < items[k]
    BY <1>1, Zenon DEF Running, InTurn
  <2> QED BY <1>6, <1>8, <2>1, Zenon DEF Increasing
<1>10. \A i \in 1..Len(wire) : wire[i][1] <= r /\ wire[i][1] < r /\ wire[i][1] # r
  <2>1. \A i \in 1..Len(wire) : wire[i][1] < r
    BY <1>1, <1>6, <1>8, Zenon DEF Running, Behind
  <2>2. \A i \in 1..Len(wire) : wire[i][1] \in Nat
    BY <1>1, ProxyParts
  <2>3. r \in Nat
    BY <1>1, <1>3, ProxyParts
  <2> QED BY <2>1, <2>2, <2>3
<1>11. \A i \in 1..Len(wire), k \in 1..Len(n) : wire[i][1] < n[k]
  BY <1>1, <1>8, Zenon DEF Running, Behind
<1>12. ASSUME NEW part \in {"head", "response"}, wire' = Append(wire, <<r, part>>)
       PROVE  /\ wire' \in Seq(Request \X Parts) /\ InOrder(wire') /\ Over(wire', r)
              /\ part \in {"response", "end"} => Over(wire', 0)
              /\ \A i \in 1..Len(wire') :
                   (i \in 1..Len(wire) /\ wire'[i] = wire[i])
                   \/ (wire'[i][1] = r /\ wire'[i][2] = part /\ wire'[i] = <<r, part>>)
  <2>1. part \in Parts /\ pipe \in {0, r} /\ InOrder(wire) /\ Over(wire, pipe)
    BY <1>1, <1>6, Zenon DEF Parts, ProxyInv, Running
  <2>2. \A i \in 1..Len(wire) : wire[i][1] <= r
    BY <1>10, Zenon
  <2> QED BY <1>1, <1>3, <1>12, <2>1, <2>2, SentKeeps, Zenon
<1>13. state' = "running" /\ ProducersTold'
  <2>1. state' = "running" /\ state' # "finalized"
    BY <1>1, <1>7
  <2> QED BY <2>1, Zenon DEF ProducersTold
<1>14. \A q \in reading : FALSE
  BY <1>1, <1>6, ProxyParts, Zenon DEF Running, WaitsForPipe, ProxyTypes
<1>15. r <= r /\ r # 0
  BY <1>1, <1>3, ProxyParts
<1>16. CASE future[r] = "pipe"
  <2>1. /\ wire' = Append(wire, <<r, "head">>) /\ pipe' = r
        /\ reading' = reading \cup {r} /\ mailbox' = b /\ UNCHANGED registered
    BY <1>7, <1>16, Zenon
  <2>2. /\ wire' \in Seq(Request \X Parts) /\ InOrder(wire') /\ Over(wire', pipe')
        /\ \A i \in 1..Len(wire') :
             (i \in 1..Len(wire) /\ wire'[i] = wire[i])
             \/ (wire'[i][1] = r /\ wire'[i][2] = "head" /\ wire'[i] = <<r, "head">>)
    BY <1>12, <2>1, Zenon
  <2>3. client # "pipelining" /\ \A q : ~Has(b, "handle", q)
    BY <1>1, <1>3, <1>5, <1>16, Zenon DEF Running, WaitsForPipe
  <2>4. OneAnswered(b) /\ HandlesFirst(b) /\ \A q : ~Has(b, "waited", q) /\ ~Has(b, "stream", q)
    BY <1>5, QuietHas, Zenon
  <2>5. ProxyTypes'
    <3>1. pipe' \in 0..MaxRequests /\ reading' \subseteq Request
      BY <1>1, <1>3, <2>1 DEF Request, ProxyTypes
    <3> QED BY <1>1, <1>3, <1>7, <1>8, <2>1, <2>2, <3>1, Zenon DEF ProxyTypes
  <2>6. WaitsForItem'
    BY <1>6, <2>1, <2>4, Zenon DEF WaitsForItem
  <2>7. WaitsForPipe'
    BY <1>1, <1>7, <1>14, <1>16, <2>1, <2>3, <2>4, Zenon DEF Running, WaitsForPipe
  <2>8. InTurn'
    BY <1>5, <1>7, <1>9, <2>1, <2>3, Zenon DEF InTurn
  <2>9. Behind'
    <3>1. ASSUME NEW i \in 1..Len(wire')
          PROVE  /\ wire'[i][1] <= arrived /\ \A k \in 1..Len(n) : wire'[i][1] < n[k]
                 /\ wire'[i][1] <= r /\ wire'[i] \notin Ends(r)
      <4>1. CASE i \in 1..Len(wire) /\ wire'[i] = wire[i]
        <5>1. wire[i] \notin Ends(r)
          <6>1. \A x \in Ends(r) : x[1] = r
            BY DEF Ends
          <6> QED BY <1>10, <4>1, <6>1, Zenon
        <5> QED BY <1>1, <1>10, <1>11, <4>1, <5>1, Zenon DEF Running, Behind
      <4>2. CASE wire'[i] = <<r, "head">> /\ wire'[i][1] = r
        <5>1. <<r, "head">> \notin Ends(r)
          BY DEF Ends
        <5> QED BY <1>9, <1>15, <4>2, <5>1, Zenon
      <4> QED BY <2>2, <4>1, <4>2, Zenon
    <3> QED BY <1>7, <2>1, <2>3, <3>1, Zenon DEF Behind
  <2>10. Closed'
    <3>1. ASSUME NEW i \in 1..Len(wire'), wire'[i][2] = "head"
          PROVE  wire'[i][1] = r \/ wire'[i][1] \in readerClosed
      <4>1. \A k \in 1..Len(wire) : wire[k][1] # pipe
        BY <1>1, <1>6, ProxyParts, Zenon
      <4> QED BY <1>1, <2>2, <3>1, <4>1, Zenon DEF Running, Closed
    <3> QED BY <1>1, <1>7, <2>1, <3>1, Zenon DEF Running, Closed
  <2> QED BY <1>13, <2>1, <2>2, <2>4, <2>5, <2>6, <2>7, <2>8, <2>9, <2>10, Zenon
          DEF ProxyInv, Running
<1>17. CASE future[r] # "pipe"
  <2>1. /\ wire' = Append(wire, <<r, "response">>) /\ NextItem(n, b)
        /\ UNCHANGED <<pipe, reading>>
    BY <1>7, <1>17, Zenon
  <2>2. /\ wire' \in Seq(Request \X Parts) /\ InOrder(wire') /\ Over(wire', 0)
        /\ \A i \in 1..Len(wire') :
             (i \in 1..Len(wire) /\ wire'[i] = wire[i])
             \/ (wire'[i][1] = r /\ wire'[i][2] = "response")
    BY <1>12, <2>1, Zenon
  <2>3. /\ mailbox' \in Seq(Events) /\ registered' \in [Request -> Nat]
        /\ OneAnswered(mailbox') /\ HandlesFirst(mailbox') /\ WaitsForItem'
        /\ \A q : ~Has(mailbox', "stream", q)
        /\ \A q : Has(mailbox', "handle", q) => Has(b, "handle", q)
        /\ HandlesInOrder(mailbox')
    <3>1. items' = n /\ pipe' = 0 /\ UNCHANGED future
      BY <1>6, <1>7, <2>1, Zenon
    <3> QED BY <1>1, <1>3, <1>5, <1>6, <1>8, <2>1, <3>1, NextItemKeeps
  <2>4. pipe' = 0 /\ \A q : Has(mailbox', "handle", q) => Has(mailbox, "handle", q)
    BY <1>5, <1>6, <2>1, <2>3, Zenon
  <2>5. \A q \in Request : Has(mailbox', "handle", q) =>
          q <= arrived /\ r < q /\ \A k \in 1..Len(n) : n[k] < q
    BY <1>1, <1>6, <1>8, <2>4, Zenon DEF Running, InTurn
  <2>6. ProxyTypes'
    BY <1>1, <1>7, <1>8, <2>1, <2>2, <2>3, Zenon DEF ProxyTypes
  <2>7. WaitsForPipe'
    BY <1>1, <1>7, <2>1, <2>3, <2>4, Zenon DEF Running, WaitsForPipe
  <2>8. InTurn'
    <3>1. 0 <= arrived
      BY <1>1, ProxyParts
    <3> QED BY <1>7, <1>9, <2>3, <2>4, <2>5, <3>1, Zenon DEF InTurn
  <2>9. Behind'
    <3>1. ASSUME NEW i \in 1..Len(wire')
          PROVE  /\ wire'[i][1] <= arrived /\ \A k \in 1..Len(n) : wire'[i][1] < n[k]
                 /\ \A q \in Request : Has(mailbox', "handle", q) => wire'[i][1] < q
      <4>1. CASE i \in 1..Len(wire) /\ wire'[i] = wire[i]
        BY <1>1, <1>11, <2>4, <4>1, Zenon DEF Running, Behind
      <4>2. CASE wire'[i][1] = r
        BY <1>9, <2>5, <4>2, Zenon
      <4> QED BY <2>2, <4>1, <4>2, Zenon
    <3> QED BY <1>7, <2>4, <3>1, Zenon DEF Behind
  <2>10. Closed'
    <3>1. "response" # "head"
      OBVIOUS
    <3>2. ASSUME NEW i \in 1..Len(wire'), wire'[i][2] = "head"
          PROVE  wire'[i][1] \in readerClosed
      <4>1. \A k \in 1..Len(wire) : wire[k][1] # pipe
        BY <1>1, <1>6, ProxyParts, Zenon
      <4> QED BY <1>1, <2>2, <3>1, <3>2, <4>1, Zenon DEF Running, Closed
    <3> QED BY <1>1, <1>7, <3>2, Zenon DEF Running, Closed
  <2> QED BY <1>13, <2>2, <2>3, <2>4, <2>6, <2>7, <2>8, <2>9, <2>10, Zenon
          DEF ProxyInv, Running
<1> QED BY <1>16, <1>17, Zenon

\* HttpProxy::stream.
LEMMA StreamStep ==
  ASSUME MaxRequests \in Nat, ProxyInv, Stream PROVE ProxyInv'
<1>1. ProxyTypes /\ Running /\ state = "running" /\ mailbox # <<>>
  BY Zenon DEF ProxyInv, Stream
<1>2. PICK b, r, w : b = Tail(mailbox) /\ r = mailbox[1].r /\ w = mailbox[1].what
  OBVIOUS
<1>3. mailbox[1].do = "stream" /\ b \in Seq(Events) /\ r \in Request
  BY <1>1, <1>2, HeadOfBox, Zenon DEF Stream
<1>4. mailbox \in Seq(Events) /\ items \in Seq(Request)
  BY <1>1, ProxyParts, Zenon
<1>5. /\ \A d, q : Has(b, d, q) => Has(mailbox, d, q)
      /\ Quiet(b) /\ HandlesInOrder(b) /\ Has(mailbox, "stream", r)
  <2>1. OneAnswered(mailbox) /\ HandlesInOrder(mailbox)
    BY <1>1, Zenon DEF Running, InTurn
  <2>2. "stream" # "handle"
    OBVIOUS
  <2> QED BY <1>1, <1>2, <1>3, <1>4, <2>1, <2>2, TailBox
<1>6. r = pipe /\ reading = {} /\ pipe # 0 /\ r <= r /\ r # 0
  <2>1. r = pipe /\ reading = {}
    BY <1>1, <1>3, <1>5, Zenon DEF Running, WaitsForPipe
  <2>2. r # 0 /\ r <= r
    BY <1>1, <1>3, ProxyParts
  <2> QED BY <2>1, <2>2, Zenon
<1>7. /\ client # "pipelining" /\ future[pipe] = "pipe"
      /\ \A q \in Request : ~Has(mailbox, "handle", q)
      /\ \A q \in Request : registered[q] = 0
  BY <1>1, <1>6, Zenon DEF Running, WaitsForPipe, WaitsForItem
<1>8. /\ IF w = "chunk"
         THEN /\ wire' = Append(wire, <<r, "chunk">>) /\ reading' = reading \cup {pipe}
              /\ mailbox' = b /\ UNCHANGED <<registered, pipe, readerClosed>>
         ELSE /\ wire' = Append(wire, <<r, "end">>) /\ readerClosed' = readerClosed \cup {pipe}
              /\ pipe' = 0 /\ NextItem(items, b) /\ UNCHANGED reading
      /\ UNCHANGED <<client, arrived, chunks, future, items, discarded, state>>
  BY <1>1, <1>2, <1>6, HeadOfBox, Zenon DEF Stream, envVars
<1>9. \A k \in 1..Len(items) : items[k] <= arrived /\ r < items[k] /\ 0 < items[k]
  <2>1. \A k \in 1..Len(items) : items[k] <= arrived /\ r < items[k]
    BY <1>1, <1>6, Zenon DEF Running, InTurn
  <2>2. \A k \in 1..Len(items) : 0 < items[k]
    BY <1>1, ProxyParts
  <2> QED BY <2>1, <2>2, Zenon
<1>10. \A i \in 1..Len(wire) : wire[i][1] <= r /\ wire[i] \notin Ends(r)
  BY <1>1, <1>6, Zenon DEF Running, Behind
<1>11. r <= arrived
  BY <1>1, <1>6, Zenon DEF Running, InTurn
<1>12. ASSUME NEW part \in {"chunk", "end"}, wire' = Append(wire, <<r, part>>)
       PROVE  /\ wire' \in Seq(Request \X Parts) /\ InOrder(wire') /\ Over(wire', r)
              /\ part \in {"response", "end"} => Over(wire', 0)
              /\ \A i \in 1..Len(wire') :
                   (i \in 1..Len(wire) /\ wire'[i] = wire[i])
                   \/ (wire'[i][1] = r /\ wire'[i][2] = part /\ wire'[i] = <<r, part>>)
  <2>1. part \in Parts /\ pipe \in {0, r} /\ InOrder(wire) /\ Over(wire, pipe)
    BY <1>1, <1>6, Zenon DEF Parts, ProxyInv, Running
  <2>2. \A i \in 1..Len(wire) : wire[i][1] <= r
    BY <1>10, Zenon
  <2> QED BY <1>1, <1>3, <1>12, <2>1, <2>2, SentKeeps, Zenon
<1>13. state' = "running" /\ ProducersTold'
  <2>1. state' = "running" /\ state' # "finalized"
    BY <1>1, <1>8
  <2> QED BY <2>1, Zenon DEF ProducersTold
<1>14. "chunk" # "head" /\ "end" # "head"
  OBVIOUS
<1>15. ASSUME NEW i \in 1..Len(wire),
              wire'[i] = wire[i], wire'[i][2] = "head"
       PROVE  wire'[i][1] = r \/ wire'[i][1] \in readerClosed
  BY <1>1, <1>6, <1>15, Zenon DEF Running, Closed
<1>16. CASE w = "chunk"
  <2>1. /\ wire' = Append(wire, <<r, "chunk">>) /\ reading' = reading \cup {pipe}
        /\ mailbox' = b /\ UNCHANGED <<registered, pipe, readerClosed>>
    BY <1>8, <1>16, Zenon
  <2>2. /\ wire' \in Seq(Request \X Parts) /\ InOrder(wire') /\ Over(wire', pipe')
        /\ \A i \in 1..Len(wire') :
             (i \in 1..Len(wire) /\ wire'[i] = wire[i])
             \/ (wire'[i][1] = r /\ wire'[i][2] = "chunk" /\ wire'[i] = <<r, "chunk">>)
    BY <1>6, <1>12, <2>1, Zenon
  <2>3. OneAnswered(b) /\ HandlesFirst(b) /\ \A q : ~Has(b, "waited", q) /\ ~Has(b, "stream", q)
    BY <1>5, QuietHas, Zenon
  <2>4. ProxyTypes'
    <3>1. reading' \subseteq Request
      BY <1>3, <1>6, <2>1
    <3> QED BY <1>1, <1>3, <1>8, <2>1, <2>2, <3>1, Zenon DEF ProxyTypes
  <2>5. WaitsForItem'
    BY <1>7, <2>1, <2>3, Zenon DEF WaitsForItem
  <2>6. WaitsForPipe'
    BY <1>1, <1>5, <1>6, <1>7, <1>8, <2>1, <2>3, Zenon DEF Running, WaitsForPipe
  <2>7. InTurn'
    BY <1>1, <1>5, <1>7, <1>8, <2>1, Zenon DEF Running, InTurn
  <2>8. Behind'
    <3>1. ASSUME NEW i \in 1..Len(wire')
          PROVE  /\ wire'[i][1] <= arrived /\ \A k \in 1..Len(items) : wire'[i][1] < items[k]
                 /\ wire'[i][1] <= r /\ wire'[i] \notin Ends(r)
      <4>1. CASE i \in 1..Len(wire) /\ wire'[i] = wire[i]
        BY <1>1, <1>10, <4>1, Zenon DEF Running, Behind
      <4>2. CASE wire'[i] = <<r, "chunk">> /\ wire'[i][1] = r
        <5>1. <<r, "chunk">> \notin Ends(r)
          BY DEF Ends
        <5> QED BY <1>6, <1>9, <1>11, <4>2, <5>1, Zenon
      <4> QED BY <2>2, <4>1, <4>2, Zenon
    <3> QED BY <1>5, <1>6, <1>7, <1>8, <2>1, <3>1, Zenon DEF Behind
  <2>9. Closed'
    BY <1>1, <1>6, <1>8, <1>14, <1>15, <2>1, <2>2, Zenon DEF Running, Closed
  <2> QED BY <1>13, <2>1, <2>2, <2>3, <2>4, <2>5, <2>6, <2>7, <2>8, <2>9, Zenon
          DEF ProxyInv, Running
<1>17. CASE w # "chunk"
  <2>1. /\ wire' = Append(wire, <<r, "end">>) /\ readerClosed' = readerClosed \cup {pipe}
        /\ pipe' = 0 /\ NextItem(items, b) /\ UNCHANGED reading
    BY <1>8, <1>17, Zenon
  <2>2. /\ wire' \in Seq(Request \X Parts) /\ InOrder(wire') /\ Over(wire', 0)
        /\ \A i \in 1..Len(wire') :
             (i \in 1..Len(wire) /\ wire'[i] = wire[i])
             \/ (wire'[i][1] = r /\ wire'[i][2] = "end")
    BY <1>12, <2>1, Zenon
  <2>3. /\ mailbox' \in Seq(Events) /\ registered' \in [Request -> Nat]
        /\ OneAnswered(mailbox') /\ HandlesFirst(mailbox') /\ WaitsForItem'
        /\ \A q : ~Has(mailbox', "stream", q)
        /\ \A q : Has(mailbox', "handle", q) => Has(b, "handle", q)
        /\ HandlesInOrder(mailbox')
    <3>1. items' = items /\ pipe' = 0 /\ UNCHANGED future
      BY <1>8, <2>1, Zenon
    <3> QED BY <1>1, <1>3, <1>4, <1>5, <1>7, <2>1, <3>1, NextItemKeeps
  <2>4. \A q \in Request : ~Has(mailbox', "handle", q)
    BY <1>5, <1>7, <2>3, Zenon
  <2>5. ProxyTypes'
    <3>1. pipe' \in 0..MaxRequests
      BY <2>1
    <3> QED BY <1>1, <1>8, <2>1, <2>2, <2>3, <3>1, Zenon DEF ProxyTypes
  <2>6. WaitsForPipe'
    BY <1>1, <1>6, <1>8, <2>1, <2>3, Zenon DEF Running, WaitsForPipe
  <2>7. InTurn'
    <3>1. 0 <= arrived
      BY <1>1, ProxyParts
    <3> QED BY <1>1, <1>8, <1>9, <2>1, <2>3, <2>4, <3>1, Zenon DEF Running, InTurn
  <2>8. Behind'
    <3>1. ASSUME NEW i \in 1..Len(wire')
          PROVE  /\ wire'[i][1] <= arrived /\ \A k \in 1..Len(items) : wire'[i][1] < items[k]
      <4>1. CASE i \in 1..Len(wire) /\ wire'[i] = wire[i]
        BY <1>1, <4>1, Zenon DEF Running, Behind
      <4>2. CASE wire'[i][1] = r
        BY <1>9, <1>11, <4>2, Zenon
      <4> QED BY <2>2, <4>1, <4>2, Zenon
    <3> QED BY <1>8, <2>1, <2>4, <3>1, Zenon DEF Behind
  <2>9. Closed'
    <3>1. r \in readerClosed' /\ readerClosed \subseteq readerClosed'
      BY <1>6, <2>1, Zenon
    <3> QED BY <1>1, <1>8, <1>14, <1>15, <2>2, <3>1, Zenon DEF Running, Closed
  <2> QED BY <1>13, <2>1, <2>2, <2>3, <2>5, <2>6, <2>7, <2>8, <2>9, Zenon
          DEF ProxyInv, Running
<1> QED BY <1>16, <1>17, Zenon

\* A request arrives.
LEMMA ReceiveStep ==
  ASSUME MaxRequests \in Nat, ProxyInv, Receive PROVE ProxyInv'
<1>1. ProxyTypes /\ Running /\ state = "running" /\ arrived < MaxRequests
  BY Zenon DEF ProxyInv, Receive
<1>2. PICK r, e : r = arrived + 1 /\ e = Event("handle", r, "")
  OBVIOUS
<1>3. /\ mailbox' = Append(mailbox, e) /\ arrived' = r
      /\ UNCHANGED <<client, chunks, future, items, registered, pipe, reading, wire,
                     readerClosed, discarded, state>>
  BY <1>2, Zenon DEF Receive
<1>4. /\ r \in Request /\ arrived' \in 0..MaxRequests
      /\ \A q \in Request : q <= arrived => q < r /\ q <= r
      /\ pipe <= arrived => pipe <= r
  <2>1. PICK a, p : a = arrived /\ p = pipe
    OBVIOUS
  <2>2. a \in Nat /\ p \in Nat /\ Request = 1..MaxRequests
    BY <1>1, <2>1, ProxyParts, Zenon
  <2>3. a < MaxRequests /\ r = a + 1 /\ arrived' = r
    BY <1>1, <1>2, <1>3, <2>1, Zenon
  <2>4. /\ r \in 1..MaxRequests /\ r \in 0..MaxRequests
        /\ \A q \in 1..MaxRequests : q <= a => q < r /\ q <= r
        /\ p <= a => p <= r
    BY <2>2, <2>3
  <2> QED BY <2>1, <2>2, <2>3, <2>4, Zenon
<1>5. e \in Events /\ e.do = "handle" /\ e.r = r /\ mailbox \in Seq(Events)
  <2>1. e \in Events /\ e.do = "handle" /\ e.r = r
    BY <1>2, <1>4 DEF Event, Events
  <2> QED BY <1>1, <2>1, ProxyParts, Zenon
<1>6. ASSUME NEW d, NEW q
      PROVE  Has(mailbox', d, q) <=> Has(mailbox, d, q) \/ (d = "handle" /\ q = r)
  <2>1. Has(Append(mailbox, e), d, q) <=> Has(mailbox, d, q) \/ (e.do = d /\ e.r = q)
    BY <1>5, AppendHas
  <2> QED BY <1>3, <1>5, <2>1, Zenon
<1>7. ASSUME NEW i \in 1..Len(wire), wire[i] \in Ends(arrived) PROVE pipe = 0 /\ items = <<>>
  <2>1. wire[i][1] = arrived
    BY <1>7 DEF Ends
  <2>2. items = <<>>
    <3>1. ASSUME items # <<>> PROVE FALSE
      <4>1. 1 \in 1..Len(items) /\ items[1] \in Nat /\ arrived \in Nat
        BY <1>1, <3>1, ProxyParts
      <4>2. arrived < items[1] /\ items[1] <= arrived
        BY <1>1, <2>1, <4>1, Zenon DEF Running, Behind, InTurn
      <4> QED BY <4>1, <4>2
    <3> QED BY <3>1
  <2>3. pipe = 0
    <3>1. ASSUME pipe # 0 PROVE FALSE
      <4>1. arrived <= pipe /\ wire[i] \notin Ends(pipe) /\ pipe <= arrived
        BY <1>1, <2>1, <3>1, Zenon DEF Running, Behind, InTurn
      <4>2. pipe = arrived
        BY <1>1, <4>1, ProxyParts
      <4> QED BY <1>7, <4>1, <4>2, Zenon
    <3> QED BY <3>1
  <2> QED BY <2>2, <2>3, Zenon
<1>8. ASSUME pipe = 0, items = <<>> PROVE Quiet(mailbox)
  BY <1>1, <1>8, IdleIsQuiet, Zenon DEF Running
<1>9. ASSUME client # "pipelining" PROVE pipe = 0 /\ Quiet(mailbox)
  <2>1. CASE Finished(arrived)
    BY <1>7, <1>8, <2>1, Zenon DEF Finished, Ends
  <2>2. CASE arrived = 0
    <3>1. pipe = 0
      BY <1>1, <2>2, ProxyParts DEF Running, InTurn
    <3>2. ASSUME items # <<>> PROVE FALSE
      <4>1. 1 \in 1..Len(items) /\ items[1] \in Nat \ {0}
        BY <1>1, <3>2, ProxyParts
      <4>2. items[1] <= arrived
        BY <1>1, <4>1, Zenon DEF Running, InTurn
      <4> QED BY <2>2, <4>1, <4>2
    <3> QED BY <1>8, <3>1, <3>2
  <2>3. CASE \A q \in 1..arrived : future[q] = "pending"
    <3>1. \A q \in Request : q <= arrived => q \in 1..arrived
      BY <1>1, ProxyParts
    <3>2. pipe = 0
      <4>1. ASSUME pipe # 0 PROVE FALSE
        <5>1. pipe \in Request /\ pipe <= arrived /\ future[pipe] = "pipe"
          BY <1>1, <4>1, ProxyParts, Zenon DEF Running, InTurn, WaitsForPipe
        <5>2. future[pipe] = "pending"
          BY <2>3, <3>1, <5>1, Zenon
        <5> QED BY <5>1, <5>2
      <4> QED BY <4>1
    <3>3. ASSUME NEW q \in Request, Has(mailbox, "waited", q) PROVE FALSE
      <4>1. items # <<>> /\ q = items[1] /\ future[q] # "pending"
        BY <1>1, <3>3, Zenon DEF Running, WaitsForItem
      <4>2. q <= arrived
        BY <1>1, <4>1, ProxyParts, Zenon DEF Running, InTurn
      <4> QED BY <2>3, <3>1, <4>1, <4>2, Zenon
    <3>4. ASSUME NEW q \in Request, Has(mailbox, "stream", q) PROVE FALSE
      BY <1>1, <3>2, <3>4, ProxyParts, Zenon DEF Running, WaitsForPipe
    <3> QED BY <1>5, <3>2, <3>3, <3>4, HasQuiet, Zenon
  <2>4. client \in {"serial", "burst", "pipelining"}
    BY <1>1, Zenon DEF ProxyTypes
  <2> QED BY <1>9, <2>1, <2>2, <2>3, <2>4, Zenon DEF Receive
<1>10. pipe = 0
  BY <1>1, <1>9, Zenon DEF Running, WaitsForPipe
<1>11. /\ mailbox' \in Seq(Events) /\ OneAnswered(mailbox')
       /\ client # "pipelining" => HandlesFirst(mailbox')
       /\ HandlesInOrder(mailbox')
  <2>1. /\ Append(mailbox, e) \in Seq(Events)
        /\ OneAnswered(mailbox) => OneAnswered(Append(mailbox, e))
        /\ Quiet(mailbox) => HandlesFirst(Append(mailbox, e))
        /\ HandlesInOrder(mailbox)
             /\ (\A k \in 1..Len(mailbox) : mailbox[k].do = "handle" => mailbox[k].r < e.r) =>
             HandlesInOrder(Append(mailbox, e))
    BY <1>5, AppendHandle, AppendFacts
  <2>2. ASSUME NEW k \in 1..Len(mailbox), mailbox[k].do = "handle" PROVE mailbox[k].r < r
    <3>1. mailbox[k] \in Events
      BY <1>5
    <3>2. mailbox[k].r \in Request
      BY <3>1 DEF Events
    <3>3. Has(mailbox, "handle", mailbox[k].r)
      BY <2>2, Zenon DEF Has
    <3> QED BY <1>1, <1>4, <3>2, <3>3, Zenon DEF Running, InTurn
  <2> QED BY <1>1, <1>3, <1>5, <1>9, <2>1, <2>2, Zenon DEF Running, InTurn
<1>12. "waited" # "handle" /\ "stream" # "handle" /\ r <= r
  BY <1>1, <1>4, ProxyParts
<1>13. ProxyTypes'
  BY <1>1, <1>3, <1>4, <1>11, Zenon DEF ProxyTypes
<1>14. WaitsForItem'
  BY <1>1, <1>3, <1>6, <1>12, Zenon DEF Running, WaitsForItem
<1>15. WaitsForPipe'
  BY <1>1, <1>3, <1>6, <1>10, <1>12, Zenon DEF Running, WaitsForPipe
<1>16. InTurn'
  <2>1. \A k \in 1..Len(items) : items[k] <= r /\ pipe < items[k] /\ items[k] < r
    BY <1>1, <1>4, ProxyParts, Zenon DEF Running, InTurn
  <2> QED BY <1>1, <1>3, <1>4, <1>6, <1>11, <1>12, <2>1, Zenon DEF Running, InTurn
<1>17. Behind'
  <2>1. \A i \in 1..Len(wire) : wire[i][1] <= r /\ wire[i][1] < r
    BY <1>1, <1>4, ProxyParts, Zenon DEF Running, Behind
  <2> QED BY <1>1, <1>3, <1>6, <1>10, <2>1, Zenon DEF Running, Behind
<1>18. Over(wire', pipe') /\ Closed' /\ InOrder(wire') /\ ProducersTold'
  <2>1. Over(wire', pipe') /\ InOrder(wire')
    BY <1>1, <1>3, Zenon DEF ProxyInv, Running
  <2>2. Closed'
    BY <1>1, <1>3, Zenon DEF Running, Closed
  <2>3. state' # "finalized"
    BY <1>1, <1>3
  <2> QED BY <2>1, <2>2, <2>3, Zenon DEF ProducersTold
<1> QED BY <1>3, <1>11, <1>13, <1>14, <1>15, <1>16, <1>17, <1>18, Zenon DEF ProxyInv, Running

\* The handler of a request responds.
LEMMA RespondStep ==
  ASSUME MaxRequests \in Nat, StreamPipelined = FALSE, ProxyInv,
         NEW r \in Request, NEW kind \in {"body", "pipe", "failed", "discarded"},
         Respond(r, kind)
  PROVE  ProxyInv'
<1>1. /\ ProxyTypes /\ future[r] = "pending" /\ (kind = "pipe" => client # "pipelining")
      /\ future' = [future EXCEPT ![r] = kind] /\ registered' = [registered EXCEPT ![r] = 0]
      /\ UNCHANGED <<client, arrived, chunks, items, pipe, reading, wire, discarded, state>>
  BY Zenon DEF ProxyInv, Respond, envVars
<1>2. kind # "pending" /\ kind \in {"pending", "body", "pipe", "failed", "discarded"}
  OBVIOUS
<1>3. /\ future' \in [Request -> {"pending", "body", "pipe", "failed", "discarded"}]
      /\ future'[r] = kind /\ \A q \in Request : q # r => future'[q] = future[q]
  BY <1>1, <1>2, Zenon DEF ProxyTypes
<1>4. /\ registered' \in [Request -> Nat] /\ registered'[r] = 0
      /\ \A q \in Request : q # r => registered'[q] = registered[q]
  BY <1>1, ProxyParts
<1>5. CASE state = "finalized"
  <2>1. /\ mailbox' = mailbox /\ state' # "running"
        /\ readerClosed' = IF r \in discarded /\ kind = "pipe"
                           THEN readerClosed \cup {r} ELSE readerClosed
    <3>1. state # "running"
      BY <1>5
    <3> QED BY <1>1, <1>5, <3>1, Zenon DEF Respond
  <2>2. ProxyTypes'
    BY <1>1, <1>3, <1>4, <2>1, Zenon DEF ProxyTypes
  <2>3. readerClosed \subseteq readerClosed' /\ (r \in discarded /\ kind = "pipe" => r \in readerClosed')
    BY <2>1, Zenon
  <2>4. ProducersTold'
    <3>1. ASSUME NEW q \in Request, q \in discarded, future'[q] = "pipe" PROVE q \in readerClosed'
      BY <1>3, <1>5, <2>3, <3>1, Zenon DEF ProxyInv, ProducersTold
    <3>2. ASSUME NEW q \in Request, <<q, "head">> \in Range(wire) PROVE q \in readerClosed'
      BY <1>5, <2>3, <3>2, Zenon DEF ProxyInv, ProducersTold
    <3>3. Range(wire)' = Range(wire)
      BY <1>1, Zenon DEF Range
    <3> QED BY <1>1, <3>1, <3>2, <3>3, Zenon DEF ProducersTold
  <2> QED BY <1>1, <2>1, <2>2, <2>4, Zenon DEF ProxyInv
<1>6. CASE state = "running"
  <2>1. Running /\ state' = "running" /\ state' # "finalized" /\ readerClosed' = readerClosed
    <3>1. state # "finalized"
      BY <1>6
    <3> QED BY <1>1, <1>6, <3>1, Zenon DEF ProxyInv, Respond
  <2>2. PICK e : e = Event("waited", r, "")
    OBVIOUS
  <2>3. mailbox' = mailbox \o Times(e, registered[r])
    BY <1>6, <2>2, Zenon DEF Respond
  <2>4. e \in Events /\ e.do = "waited" /\ e.r = r /\ mailbox \in Seq(Events)
    <3>1. e \in Events /\ e.do = "waited" /\ e.r = r
      BY <2>2 DEF Event, Events
    <3> QED BY <1>1, <3>1, ProxyParts, Zenon
  <2>5. "waited" # "handle" /\ "waited" # "stream" /\ "handle" # "waited" /\ "stream" # "waited"
    OBVIOUS
  <2>6. /\ mailbox' \in Seq(Events) /\ OneAnswered(mailbox')
        /\ client # "pipelining" => HandlesFirst(mailbox')
        /\ HandlesInOrder(mailbox')
        /\ \A q : Has(mailbox', "handle", q) => Has(mailbox, "handle", q)
        /\ \A q : Has(mailbox', "stream", q) => Has(mailbox, "stream", q)
        /\ WaitsForItem'
    <3>1. CASE registered[r] = 0
      <4>1. mailbox' = mailbox
        <5>1. Times(e, 0) = <<>>
          BY DEF Times
        <5>2. mailbox \o <<>> = mailbox
          BY <2>4
        <5> QED BY <2>3, <3>1, <5>1, <5>2, Zenon
      <4>2. WaitsForItem'
        <5>1. ASSUME NEW q \in Request, registered'[q] # 0 PROVE q # r /\ registered'[q] = registered[q]
          BY <1>4, <5>1, Zenon
        <5>2. ASSUME NEW q \in Request, registered[q] = 0 PROVE registered'[q] = 0
          BY <1>4, <5>2, Zenon
        <5>3. ASSUME NEW q \in Request, future[q] # "pending" PROVE future'[q] # "pending"
          BY <1>2, <1>3, <5>3, Zenon
        <5> QED BY <1>1, <1>3, <2>1, <4>1, <5>1, <5>2, <5>3, Zenon DEF Running, WaitsForItem
      <4> QED BY <2>1, <2>4, <4>1, <4>2, Zenon DEF Running, InTurn
    <3>2. CASE registered[r] # 0
      <4>1. registered[r] = 1 /\ items # <<>> /\ r = items[1] /\ pipe = 0
        BY <2>1, <3>2, Zenon DEF Running, WaitsForItem
      <4>2. Quiet(mailbox)
        BY <1>1, <2>1, <3>2, <4>1, IdleIsQuiet, Zenon DEF Running
      <4>3. mailbox' = Append(mailbox, e)
        <5>1. Times(e, 1) = <<e>>
          BY DEF Times
        <5>2. mailbox \o <<e>> = Append(mailbox, e)
          BY <2>4
        <5> QED BY <2>3, <4>1, <5>1, <5>2, Zenon
      <4>4. /\ Append(mailbox, e) \in Seq(Events)
            /\ OneAnswered(Append(mailbox, e)) /\ HandlesFirst(Append(mailbox, e))
            /\ HandlesInOrder(mailbox) => HandlesInOrder(Append(mailbox, e))
        BY <2>4, <2>5, <4>2, AppendAnswer, AppendFacts
      <4>5. ASSUME NEW d, NEW q
            PROVE  Has(Append(mailbox, e), d, q) <=> Has(mailbox, d, q) \/ (e.do = d /\ e.r = q)
        BY <2>4, AppendHas
      <4>6. \A q \in Request : registered'[q] = 0
        BY <1>4, <2>1, <4>1, Zenon DEF Running, WaitsForItem
      <4>7. \A q : ~Has(mailbox, "waited", q)
        BY <4>2, QuietHas, Zenon
      <4>8. WaitsForItem'
        BY <1>1, <1>2, <1>3, <2>4, <4>1, <4>3, <4>5, <4>6, <4>7, Zenon DEF WaitsForItem
      <4> QED BY <2>1, <2>4, <2>5, <4>3, <4>4, <4>5, <4>8, Zenon DEF Running, InTurn
    <3> QED BY <3>1, <3>2, Zenon
  <2>7. ProxyTypes'
    BY <1>1, <1>3, <1>4, <2>6, Zenon DEF ProxyTypes
  <2>8. WaitsForPipe'
    <3>1. ASSUME pipe # 0 PROVE pipe \in Request /\ pipe # r /\ future'[pipe] = "pipe"
      <4>1. pipe \in Request /\ future[pipe] = "pipe"
        BY <1>1, <2>1, <3>1, ProxyParts, Zenon DEF Running, WaitsForPipe
      <4>2. pipe # r
        BY <1>1, <4>1
      <4> QED BY <1>3, <4>1, <4>2, Zenon
    <3>2. ASSUME NEW q \in Request, future'[q] = "pipe" PROVE client # "pipelining"
      BY <1>1, <1>3, <2>1, <3>2, Zenon DEF Running, WaitsForPipe
    <3> QED BY <1>1, <2>1, <2>6, <3>1, <3>2, Zenon DEF Running, WaitsForPipe
  <2>9. InTurn'
    BY <1>1, <2>1, <2>6, Zenon DEF Running, InTurn
  <2>10. Behind'
    BY <1>1, <2>1, <2>6, Zenon DEF Running, Behind
  <2>11. Closed' /\ ProducersTold'
    BY <1>1, <2>1, Zenon DEF Running, Closed, ProducersTold
  <2>12. Over(wire', pipe') /\ InOrder(wire')
    BY <1>1, <2>1, Zenon DEF Running, ProxyInv
  <2> QED BY <1>1, <2>6, <2>7, <2>8, <2>9, <2>10, <2>11, <2>12, Zenon DEF Running, ProxyInv
<1> QED BY <1>1, <1>5, <1>6, Zenon DEF ProxyTypes

\* The pipe gives more.
LEMMA ReadStep ==
  ASSUME MaxRequests \in Nat, ProxyInv,
         NEW r \in Request, NEW what \in {"chunk", "eof", "failed"}, Read(r, what)
  PROVE  ProxyInv'
<1>1. /\ ProxyTypes /\ Running /\ state = "running" /\ r \in reading /\ reading' = reading \ {r}
      /\ UNCHANGED <<client, arrived, future, items, registered, pipe, wire,
                     readerClosed, discarded, state>>
  BY Zenon DEF ProxyInv, Read
<1>2. PICK e : e = Event("stream", r, what)
  OBVIOUS
<1>3. e \in Events /\ e.do = "stream" /\ e.r = r /\ mailbox \in Seq(Events)
  <2>1. e \in Events /\ e.do = "stream" /\ e.r = r
    BY <1>2 DEF Event, Events
  <2> QED BY <1>1, <2>1, ProxyParts, Zenon
<1>4. mailbox' = Append(mailbox, e)
  BY <1>2, Zenon DEF Read
<1>5. r = pipe /\ pipe # 0 /\ reading' = {}
  <2>1. \A q \in reading : q = pipe
    BY <1>1, Zenon DEF Running, WaitsForPipe
  <2>2. r # 0
    BY <1>1, ProxyParts, Zenon
  <2> QED BY <1>1, <2>1, <2>2
<1>6. Quiet(mailbox)
  <2>1. reading # {}
    BY <1>1
  <2> QED BY <1>1, <1>5, <2>1, IdleIsQuiet, Zenon DEF Running
<1>7. "stream" # "handle" /\ "stream" # "waited" /\ "handle" # "stream" /\ "waited" # "stream"
  OBVIOUS
<1>8. /\ Append(mailbox, e) \in Seq(Events)
      /\ OneAnswered(Append(mailbox, e)) /\ HandlesFirst(Append(mailbox, e))
      /\ HandlesInOrder(mailbox) => HandlesInOrder(Append(mailbox, e))
  BY <1>3, <1>6, <1>7, AppendAnswer, AppendFacts
<1>9. ASSUME NEW d, NEW q
      PROVE  Has(Append(mailbox, e), d, q) <=> Has(mailbox, d, q) \/ (e.do = d /\ e.r = q)
  BY <1>3, AppendHas
<1>10. /\ \A q : Has(mailbox', "handle", q) => Has(mailbox, "handle", q)
       /\ \A q : Has(mailbox', "waited", q) => Has(mailbox, "waited", q)
       /\ \A q : Has(mailbox', "stream", q) => Has(mailbox, "stream", q) \/ q = r
  BY <1>3, <1>4, <1>7, <1>9, Zenon
<1>11. ProxyTypes'
  BY <1>1, <1>4, <1>5, <1>8, Zenon DEF ProxyTypes
<1>12. WaitsForItem'
  BY <1>1, <1>10, Zenon DEF Running, WaitsForItem
<1>13. WaitsForPipe'
  BY <1>1, <1>5, <1>10, Zenon DEF Running, WaitsForPipe
<1>14. InTurn'
  BY <1>1, <1>4, <1>8, <1>10, Zenon DEF Running, InTurn
<1>15. Behind'
  BY <1>1, <1>10, Zenon DEF Running, Behind
<1>16. Closed' /\ ProducersTold'
  <2>1. state' # "finalized"
    BY <1>1
  <2> QED BY <1>1, <2>1, Zenon DEF Running, Closed, ProducersTold
<1>17. Over(wire', pipe') /\ InOrder(wire')
  BY <1>1, Zenon DEF Running, ProxyInv
<1> QED BY <1>1, <1>4, <1>8, <1>11, <1>12, <1>13, <1>14, <1>15, <1>16, <1>17, Zenon
        DEF Running, ProxyInv

\* HttpProxy::finalize.
LEMMA FinalizeStep ==
  ASSUME MaxRequests \in Nat, ProxyInv, Finalize PROVE ProxyInv'
<1>1. /\ ProxyTypes /\ Running /\ state' = "finalized"
      /\ readerClosed' = readerClosed \cup (IF pipe = 0 THEN {} ELSE {pipe})
                           \cup {r \in Range(items) : future[r] = "pipe"}
      /\ discarded' = discarded \cup Range(items)
      /\ pipe' = 0 /\ items' = <<>> /\ mailbox' = <<>>
      /\ registered' = [r \in Request |-> 0]
      /\ UNCHANGED <<client, arrived, chunks, future, reading, wire>>
  BY Zenon DEF ProxyInv, Finalize, envVars
<1>2. ProxyTypes'
  <2>1. /\ pipe' \in 0..MaxRequests /\ items' \in Seq(Request) /\ mailbox' \in Seq(Events)
        /\ registered' \in [Request -> Nat] /\ state' \in {"running", "finalized"}
    BY <1>1
  <2> QED BY <1>1, <2>1, Zenon DEF ProxyTypes
<1>3. ProducersTold'
  <2>1. ASSUME NEW q \in Request, q \in discarded', future'[q] = "pipe" PROVE q \in readerClosed'
    <3>1. q \in Range(items) /\ future[q] = "pipe"
      BY <1>1, <2>1, Zenon DEF Running, Closed
    <3> QED BY <1>1, <3>1, Zenon
  <2>2. ASSUME NEW q \in Request, <<q, "head">> \in Range(wire) PROVE q \in readerClosed'
    <3>1. DOMAIN wire = 1..Len(wire) /\ <<q, "head">>[1] = q /\ <<q, "head">>[2] = "head"
      BY <1>1, ProxyParts
    <3>2. PICK i \in 1..Len(wire) : wire[i] = <<q, "head">>
      BY <2>2, <3>1, Zenon DEF Range
    <3>3. q = pipe \/ q \in readerClosed
      BY <1>1, <3>1, <3>2, Zenon DEF Running, Closed
    <3>4. q # 0
      BY <1>1, ProxyParts, Zenon
    <3> QED BY <1>1, <3>3, <3>4, Zenon
  <2>3. Range(wire)' = Range(wire)
    BY <1>1, Zenon DEF Range
  <2> QED BY <2>1, <2>2, <2>3, Zenon DEF ProducersTold
<1>4. InOrder(wire')
  BY <1>1, Zenon DEF ProxyInv
<1>5. state' # "running"
  BY <1>1
<1> QED BY <1>2, <1>3, <1>4, <1>5, Zenon DEF ProxyInv

\* The proxy as it is spawned.
LEMMA ProxyInit ==
  ASSUME MaxRequests \in Nat, Init PROVE ProxyInv
<1>1. /\ client \in {"serial", "burst", "pipelining"} /\ arrived = 0
      /\ future = [r \in Request |-> "pending"]
      /\ mailbox = <<>> /\ items = <<>> /\ pipe = 0 /\ wire = <<>>
      /\ registered = [r \in Request |-> 0]
      /\ reading = {} /\ readerClosed = {} /\ discarded = {} /\ state = "running"
  BY Zenon DEF Init
<1>2. /\ \A k \in 1..Len(mailbox) : FALSE
      /\ \A k \in 1..Len(items) : FALSE
      /\ \A k \in 1..Len(wire) : FALSE
  BY <1>1
<1>3. \A d, r : ~Has(mailbox, d, r)
  BY <1>2, Zenon DEF Has
<1>4. ProxyTypes
  BY <1>1 DEF ProxyTypes
<1>5. ProducersTold
  <2>1. state # "finalized"
    BY <1>1
  <2> QED BY <2>1, Zenon DEF ProducersTold
<1>6. OneAnswered(mailbox) /\ HandlesFirst(mailbox) /\ HandlesInOrder(mailbox)
  BY <1>2, Zenon DEF OneAnswered, HandlesFirst, HandlesInOrder
<1>7. InOrder(wire) /\ Over(wire, pipe) /\ Closed /\ Behind
  BY <1>1, <1>2, Zenon DEF InOrder, Over, Closed, Behind
<1>8. WaitsForItem
  BY <1>1, <1>3, Zenon DEF WaitsForItem
<1>9. WaitsForPipe
  <2>1. "pending" # "pipe"
    OBVIOUS
  <2> QED BY <1>1, <1>3, <2>1, Zenon DEF WaitsForPipe
<1>10. InTurn
  <2>1. pipe <= arrived
    BY <1>1
  <2> QED BY <1>2, <1>3, <1>6, <2>1, Zenon DEF InTurn, Increasing
<1> QED BY <1>4, <1>5, <1>6, <1>7, <1>8, <1>9, <1>10, Zenon DEF ProxyInv, Running

\* Every step.
LEMMA ProxyStep ==
  ASSUME MaxRequests \in Nat, StreamPipelined = FALSE, ProxyInv, [Next]_vars
  PROVE  ProxyInv'
<1>1. CASE Step
  BY <1>1, HandleStep, WaitedStep, StreamStep, Zenon DEF Step
<1>2. CASE Environment
  BY <1>2, ReceiveStep, RespondStep, ReadStep, Zenon DEF Environment
<1>3. CASE Finalize
  BY <1>3, FinalizeStep, Zenon
<1>4. CASE UNCHANGED vars
  <2>1. UNCHANGED <<client, arrived, chunks, future, mailbox, items, registered, pipe, reading,
                    wire, readerClosed, discarded, state>>
    BY <1>4, Zenon DEF vars, envVars
  <2>2. /\ ProxyTypes' = ProxyTypes /\ InOrder(wire') = InOrder(wire)
        /\ ProducersTold' = ProducersTold
    BY <2>1, Zenon DEF ProxyTypes, ProducersTold
  <2>3. WaitsForItem' = WaitsForItem /\ WaitsForPipe' = WaitsForPipe
    BY <2>1, Zenon DEF WaitsForItem, WaitsForPipe
  <2>4. InTurn' = InTurn /\ Behind' = Behind /\ Closed' = Closed
    BY <2>1, Zenon DEF InTurn, Behind, Closed
  <2> QED BY <2>1, <2>2, <2>3, <2>4, Zenon DEF ProxyInv, Running
<1> QED BY <1>1, <1>2, <1>3, <1>4, Zenon DEF Next

\* Whatever the number of requests, of a client that pipelines or does not: the
\* responses of one connection are sent in the order of its requests, each whole
\* before the next begins; the CHECKs of waited and stream hold; and when the
\* proxy ends every producer of a response is told.
THEOREM ProxyAlwaysSafe ==
  ASSUME MaxRequests \in Nat, StreamPipelined = FALSE
  PROVE  Spec => []Safe
<1>1. Init => ProxyInv
  BY ProxyInit
<1>2. ProxyInv /\ [Next]_vars => ProxyInv'
  BY ProxyStep
<1>3. ProxyInv => Safe
  <2>1. ASSUME ProxyInv PROVE NoAbort /\ ResponsesInOrder /\ ProducersTold
    <3>1. state \in {"running", "finalized"}
      BY <2>1, Zenon DEF ProxyInv, ProxyTypes
    <3>2. NoAbort
      BY <3>1 DEF NoAbort
    <3>3. ResponsesInOrder
      BY <2>1, Zenon DEF ProxyInv, InOrder, Ends, ResponsesInOrder
    <3> QED BY <2>1, <3>2, <3>3, Zenon DEF ProxyInv
  <2> QED BY <2>1, Zenon DEF Safe
<1> QED BY <1>1, <1>2, <1>3, PTL DEF Spec

-----------------------------------------------------------------------------
(* Pipe.                                                                   *)

CONSTANTS MaxReads, MaxWrites

VARIABLES
  readEnd, writeEnd, reads, writes, readerClosure, result, setting, issued,
  written, lost

P == INSTANCE Pipe

\* What run MCServices checks of a pipe.
PipeSafe == P!Safe

\* The promises that the two threads have still to set.
Due == P!Range(setting["reader"]) \cup P!Range(setting["writer"])

\* What a read may give, and the types of the variables.
Kinds == {"none", "pending", "data", "eof", "failed", "closed"}
Answers == Kinds \X Nat
PipeTypes ==
  /\ readEnd \in {"OPEN", "CLOSED"} /\ writeEnd \in {"OPEN", "CLOSED", "FAILED"}
  /\ issued \in 0..MaxReads /\ written \in 0..MaxWrites
  /\ reads \in Seq(Nat) /\ writes \in Seq(Nat)
  /\ result \in [P!Read -> Answers]
  /\ setting \in [{"reader", "writer"} -> Seq(Nat \X Answers)]

\* A promise is set to one answer only, and only that of a read no longer queued.
OneAnswer == \A r, s \in Due : r[1] = s[1] => r[2] = s[2]
\* A promise to be set is that of a read made and no longer queued; queued reads
\* are pending and in order.
Placed ==
  /\ OneAnswer
  /\ \A s \in Due : s[1] \in 1..issued
  /\ \A s \in Due, k \in 1..Len(reads) : s[1] # reads[k]
  /\ \A k \in 1..Len(reads) :
       reads[k] \in 1..issued /\ result[reads[k]] = P!Is("pending")
  /\ \A j, k \in 1..Len(reads) : j < k => reads[j] < reads[k]
  /\ \A i \in P!Read : i > issued => result[i] = P!Is("none")

\* The data in the pipe is the last that was written; what was read is older,
\* and was read before all that is still to be read.
Ordered ==
  /\ \A k \in 1..Len(writes) : writes[k] = written - Len(writes) + k
  /\ Len(writes) <= written
  /\ \A i \in P!Read : P!Outcome(i)[1] = "data" =>
       /\ P!Outcome(i)[2] \in 1..(written - Len(writes))
       /\ \A k \in 1..Len(reads) : i < reads[k]
       /\ \A j \in P!Read : P!Outcome(j)[1] = "data" /\ i < j =>
            P!Outcome(i)[2] < P!Outcome(j)[2]
\* A read fails or ends only after all data was read.
EndsLast ==
  \A i \in P!Read : P!Outcome(i)[1] \in {"eof", "failed"} =>
    /\ writes = <<>> /\ writeEnd # "OPEN"
    /\ \A j \in P!Read : P!Outcome(j)[1] = "data" => j < i

\* The inductive invariant of Pipe.
PipeInv ==
  /\ PipeTypes /\ Placed /\ Ordered /\ EndsLast
  /\ P!NothingLost /\ P!ReadsWait /\ P!ClosureSaysWho

-----------------------------------------------------------------------------
\* P!Outcome with the promises still to set and the value as constants.
Answer(D, v, i) ==
  LET due == {s \in D : s[1] = i} IN
  IF due = {} THEN v ELSE (CHOOSE s \in due : TRUE)[2]

\* With one answer a promise the choice of it makes no difference.
LEMMA ChosenAnswer ==
  ASSUME NEW D, NEW v, NEW i, \A r, s \in D : r[1] = s[1] => r[2] = s[2]
  PROVE  /\ \A s \in D : s[1] = i => Answer(D, v, i) = s[2]
         /\ (\A s \in D : s[1] # i) => Answer(D, v, i) = v
<1> DEFINE due == {s \in D : s[1] = i}
           o == IF due = {} THEN v ELSE (CHOOSE s \in due : TRUE)[2]
<1>0. Answer(D, v, i) = o
  BY Zenon DEF Answer
<1>1. ASSUME NEW s \in D, s[1] = i PROVE o = s[2]
  <2>1. s \in due
    BY <1>1
  <2>2. (CHOOSE r \in due : TRUE) \in due
    BY <2>1, Zenon
  <2>3. due # {}
    BY <2>1, Zenon
  <2> HIDE DEF due
  <2>4. o = (CHOOSE r \in due : TRUE)[2]
    BY <2>3, Zenon
  <2> USE DEF due
  <2>5. PICK r : r = (CHOOSE q \in due : TRUE)
    OBVIOUS
  <2>6. r \in D /\ r[1] = s[1]
    BY <2>2, <2>5, <1>1
  <2> QED BY <2>4, <2>5, <2>6, Zenon
<1>2. (\A s \in D : s[1] # i) => o = v
  OBVIOUS
<1> QED BY <1>0, <1>1, <1>2, Zenon

\* What a read gives: the answer its promise is to be set to, or the one it has.
LEMMA OutcomeIs ==
  ASSUME OneAnswer, NEW i
  PROVE  /\ \A s \in Due : s[1] = i => P!Outcome(i) = s[2]
         /\ (\A s \in Due : s[1] # i) => P!Outcome(i) = result[i]
<1>1. PICK D : D = Due
  OBVIOUS
<1>2. PICK v : v = result[i]
  OBVIOUS
<1>3. \A r, s \in D : r[1] = s[1] => r[2] = s[2]
  BY <1>1, Zenon DEF OneAnswer
<1>4. P!Outcome(i) = Answer(Due, result[i], i)
  BY DEF P!Outcome, Due, Answer
<1>5. P!Outcome(i) = Answer(D, v, i)
  BY <1>1, <1>2, <1>4, Zenon
<1>6. /\ \A s \in D : s[1] = i => Answer(D, v, i) = s[2]
      /\ (\A s \in D : s[1] # i) => Answer(D, v, i) = v
  BY <1>3, ChosenAnswer
<1> QED BY <1>1, <1>2, <1>5, <1>6, Zenon

\* The same in the next state.
LEMMA OutcomeIsNext ==
  ASSUME OneAnswer', NEW i
  PROVE  /\ \A s \in Due' : s[1] = i => P!Outcome(i)' = s[2]
         /\ (\A s \in Due' : s[1] # i) => P!Outcome(i)' = result'[i]
<1>1. PICK D : D = Due'
  OBVIOUS
<1>2. PICK v : v = result'[i]
  OBVIOUS
<1>3. \A r, s \in D : r[1] = s[1] => r[2] = s[2]
  BY <1>1, Zenon DEF OneAnswer
<1>4. P!Outcome(i)' = Answer(Due, result[i], i)'
  BY DEF P!Outcome, Due, Answer
<1>5. P!Outcome(i)' = Answer(D, v, i)
  BY <1>1, <1>2, <1>4, Zenon
<1>6. /\ \A s \in D : s[1] = i => Answer(D, v, i) = s[2]
      /\ (\A s \in D : s[1] # i) => Answer(D, v, i) = v
  BY <1>3, ChosenAnswer
<1> QED BY <1>1, <1>2, <1>5, <1>6, Zenon

\* Setting a promise to the answer that was due gives nothing new.
LEMMA SameOutcome ==
  ASSUME OneAnswer, OneAnswer', NEW i,
         \A s \in Due' : s[1] = i => s \in Due,
         \A s \in Due : s[1] = i => s \in Due' \/ result'[i] = s[2],
         (\A s \in Due : s[1] # i) => result'[i] = result[i]
  PROVE  P!Outcome(i)' = P!Outcome(i)
<1>1. CASE \E s \in Due' : s[1] = i
  <2>1. PICK s \in Due' : s[1] = i
    BY <1>1, Zenon
  <2>2. s \in Due
    BY <2>1, Zenon
  <2>3. P!Outcome(i) = s[2]
    BY <2>1, <2>2, OutcomeIs, Zenon
  <2>4. P!Outcome(i)' = s[2]
    BY <2>1, OutcomeIsNext, Zenon
  <2> QED BY <2>3, <2>4, Zenon
<1>2. CASE \E s \in Due : s[1] = i /\ s \notin Due'
  BY <1>1, <1>2, OutcomeIs, OutcomeIsNext, Zenon
<1>3. CASE \A s \in Due \cup Due' : s[1] # i
  BY <1>3, OutcomeIs, OutcomeIsNext, Zenon
<1> QED BY <1>1, <1>2, <1>3, Zenon

\* Steps that touch no promise change no outcome.
LEMMA UnchangedOutcome ==
  ASSUME OneAnswer, UNCHANGED <<setting, result>>
  PROVE  \A i : P!Outcome(i)' = P!Outcome(i)
<1>1. Due' = Due /\ result' = result
  BY Zenon DEF Due
<1>2. OneAnswer'
  BY <1>1, Zenon DEF OneAnswer
<1>3. ASSUME NEW i PROVE P!Outcome(i)' = P!Outcome(i)
  <2>1. /\ \A s \in Due' : s[1] = i => s \in Due
        /\ \A s \in Due : s[1] = i => s \in Due' \/ result'[i] = s[2]
        /\ (\A s \in Due : s[1] # i) => result'[i] = result[i]
    BY <1>1, Zenon
  <2> QED BY <1>2, <2>1, SameOutcome
<1> QED BY <1>3, Zenon

\* Sequences: what is in the sequences that the actions make.
LEMMA RangeFacts ==
  ASSUME NEW S, NEW s \in Seq(S)
  PROVE  /\ Len(s) \in Nat /\ DOMAIN s = 1..Len(s)
         /\ P!Range(s) = {s[k] : k \in 1..Len(s)}
         /\ s = <<>> <=> Len(s) = 0
  BY DEF P!Range

\* An empty sequence has no elements.
LEMMA RangeEmpty == P!Range(<<>>) = {}
  BY DEF P!Range

\* The elements of a tail.
LEMMA RangeTail ==
  ASSUME NEW S, NEW s \in Seq(S), s # <<>>
  PROVE  /\ P!Range(Tail(s)) \subseteq P!Range(s)
         /\ P!Range(s) \subseteq P!Range(Tail(s)) \cup {s[1]}
         /\ s[1] \in P!Range(s)
<1>1. Tail(s) \in Seq(S)
  BY TailFacts
<1>2. P!Range(s) = {s[k] : k \in 1..Len(s)}
  BY RangeFacts
<1>3. P!Range(Tail(s)) = {Tail(s)[k] : k \in 1..Len(Tail(s))}
  BY <1>1, RangeFacts
<1>4. ASSUME NEW x \in P!Range(Tail(s)) PROVE x \in P!Range(s)
  <2>1. PICK k \in 1..Len(Tail(s)) : x = Tail(s)[k]
    BY <1>3, Zenon
  <2>2. x = s[k + 1] /\ k + 1 \in 1..Len(s)
    BY <2>1, TailFacts
  <2> QED BY <1>2, <2>2, Zenon
<1>5. ASSUME NEW x \in P!Range(s) PROVE x \in P!Range(Tail(s)) \/ x = s[1]
  <2>1. PICK k \in 1..Len(s) : x = s[k]
    BY <1>2, Zenon
  <2>2. k = 1 \/ (k - 1 \in 1..Len(Tail(s)) /\ Tail(s)[k - 1] = s[k])
    BY TailFacts
  <2> QED BY <1>3, <2>1, <2>2, Zenon
<1>6. s[1] \in P!Range(s)
  BY <1>2, TailFacts, Zenon
<1> QED BY <1>4, <1>5, <1>6, Zenon

-----------------------------------------------------------------------------
(* How each operation changes what the reads give.                         *)

\* The promises to set are kept in sequences.
LEMMA DueSeqs ==
  ASSUME PipeTypes
  PROVE  /\ setting["reader"] \in Seq(Nat \X Answers)
         /\ setting["writer"] \in Seq(Nat \X Answers)
  BY DEF PipeTypes

\* Reader::read: the new read, and it alone, gives what it was answered.
LEMMA ReadGives ==
  ASSUME MaxReads \in Nat, PipeInv, P!DoRead
  PROVE  /\ Due' = Due /\ OneAnswer'
         /\ \A i \in P!Read : i # issued + 1 => P!Outcome(i)' = P!Outcome(i)
         /\ \A i \in P!Read : i = issued + 1 => P!Outcome(i)' = result'[i]
         /\ issued + 1 \in P!Read
<1>1. Due' = Due
  BY Zenon DEF P!DoRead, Due
<1>2. OneAnswer /\ OneAnswer'
  BY <1>1, Zenon DEF PipeInv, Placed, OneAnswer
<1>3. /\ issued \in Nat /\ issued + 1 \in P!Read
      /\ \A i \in P!Read : i # issued + 1 => result'[i] = result[i]
  BY DEF P!DoRead, PipeInv, PipeTypes, P!Read
<1>4. \A s \in Due : s[1] # issued + 1
  BY <1>3 DEF PipeInv, Placed
<1>5. ASSUME NEW i \in P!Read, i # issued + 1
      PROVE  P!Outcome(i)' = P!Outcome(i)
  <2>1. result'[i] = result[i]
    BY <1>3, <1>5, Zenon
  <2>2. /\ \A s \in Due' : s[1] = i => s \in Due
        /\ \A s \in Due : s[1] = i => s \in Due' \/ result'[i] = s[2]
    BY <1>1, Zenon
  <2> QED BY <1>2, <2>1, <2>2, SameOutcome
<1>6. ASSUME NEW i \in P!Read, i = issued + 1
      PROVE  P!Outcome(i)' = result'[i]
  BY <1>1, <1>2, <1>4, <1>6, OutcomeIsNext, Zenon
<1> QED BY <1>1, <1>2, <1>3, <1>5, <1>6, Zenon

\* Promises to set are added for reads that are in the queue.
LEMMA SettingGives ==
  ASSUME PipeInv, NEW R, NEW a,
         Due \subseteq Due',
         \A s \in Due' : s \in Due \/ (s[1] \in R /\ s[2] = a),
         \A r \in R : <<r, a>> \in Due' /\ \A s \in Due : s[1] # r,
         UNCHANGED result
  PROVE  /\ OneAnswer'
         /\ \A i : i \notin R => P!Outcome(i)' = P!Outcome(i)
         /\ \A i \in R : P!Outcome(i)' = a
<1>2. OneAnswer
  BY DEF PipeInv, Placed
<1>3. OneAnswer'
  BY <1>2, Zenon DEF OneAnswer
<1>4. ASSUME NEW i, i \notin R PROVE P!Outcome(i)' = P!Outcome(i)
  <2>1. /\ \A s \in Due' : s[1] = i => s \in Due
        /\ \A s \in Due : s[1] = i => s \in Due' \/ result'[i] = s[2]
        /\ (\A s \in Due : s[1] # i) => result'[i] = result[i]
    BY <1>4, Zenon
  <2> QED BY <1>2, <1>3, <2>1, SameOutcome
<1>5. ASSUME NEW i \in R PROVE P!Outcome(i)' = a
  <2>1. PICK s : s = <<i, a>>
    OBVIOUS
  <2>2. s \in Due' /\ s[1] = i /\ s[2] = a
    BY <2>1
  <2> QED BY <1>3, <2>2, OutcomeIsNext, Zenon
<1> QED BY <1>3, <1>4, <1>5, Zenon

\* All reads in the queue are to be answered `what' by t.
LEMMA SetAllDue ==
  ASSUME PipeTypes, NEW t \in {"reader", "writer"}, NEW what, P!Idle(t),
         P!SetAll(t, what)
  PROVE  /\ Due \subseteq Due'
         /\ \A s \in Due' : s \in Due \/ (s[1] \in P!Range(reads) /\ s[2] = P!Is(what))
         /\ \A r \in P!Range(reads) : <<r, P!Is(what)>> \in Due'
         /\ \A u \in {"reader", "writer"} : u # t => setting'[u] = setting[u]
         /\ setting'[t] = [k \in 1..Len(reads) |-> <<reads[k], P!Is(what)>>]
         /\ DOMAIN setting' = {"reader", "writer"}
<1>1. PICK new : new = [k \in 1..Len(reads) |-> <<reads[k], P!Is(what)>>]
  OBVIOUS
<1>2. /\ setting'[t] = new /\ \A u \in {"reader", "writer"} : u # t => setting'[u] = setting[u]
      /\ DOMAIN setting' = {"reader", "writer"} /\ setting[t] = <<>>
  BY <1>1 DEF P!SetAll, P!Idle, PipeTypes
<1>3. /\ \A r \in P!Range(reads) : <<r, P!Is(what)>> \in P!Range(new)
      /\ \A s \in P!Range(new) : s[1] \in P!Range(reads) /\ s[2] = P!Is(what)
  <2>1. DOMAIN new = 1..Len(reads)
    BY <1>1, Zenon
  <2>2. P!Range(new) = {new[k] : k \in 1..Len(reads)}
    BY <2>1, Zenon DEF P!Range
  <2>3. P!Range(reads) = {reads[k] : k \in 1..Len(reads)}
    BY RangeFacts DEF PipeTypes
  <2>4. \A k \in 1..Len(reads) : new[k] = <<reads[k], P!Is(what)>>
    BY <1>1, Zenon
  <2> QED BY <2>2, <2>3, <2>4
<1>4. Due' = P!Range(setting'["reader"]) \cup P!Range(setting'["writer"])
  BY Zenon DEF Due
<1>5. CASE t = "reader"
  <2>1. Due = P!Range(setting["writer"])
    BY <1>2, <1>5, RangeEmpty, Zenon DEF Due
  <2>2. Due' = P!Range(new) \cup P!Range(setting["writer"])
    BY <1>2, <1>4, <1>5
  <2> QED BY <1>1, <1>2, <1>3, <2>1, <2>2, Zenon
<1>6. CASE t = "writer"
  <2>1. Due = P!Range(setting["reader"])
    BY <1>2, <1>6, RangeEmpty, Zenon DEF Due
  <2>2. Due' = P!Range(new) \cup P!Range(setting["reader"])
    BY <1>2, <1>4, <1>6
  <2> QED BY <1>1, <1>2, <1>3, <2>1, <2>2, Zenon
<1> QED BY <1>5, <1>6, Zenon

\* Only reads in the queue are pending without a promise to set.
LEMMA QueuedNotDue ==
  ASSUME PipeInv
  PROVE  /\ \A r \in P!Range(reads) : \A s \in Due : s[1] # r
         /\ \A r \in P!Range(reads) : r \in 1..issued /\ P!Outcome(r) = P!Is("pending")
<1>1. P!Range(reads) = {reads[k] : k \in 1..Len(reads)}
  BY RangeFacts DEF PipeInv, PipeTypes
<1>2. \A r \in P!Range(reads) : \A s \in Due : s[1] # r
  BY <1>1, Zenon DEF PipeInv, Placed
<1>3. \A r \in P!Range(reads) : r \in 1..issued /\ result[r] = P!Is("pending")
  BY <1>1, Zenon DEF PipeInv, Placed
<1>4. ASSUME NEW r \in P!Range(reads) PROVE P!Outcome(r) = result[r]
  BY <1>2, OutcomeIs, Zenon DEF PipeInv, Placed
<1> QED BY <1>2, <1>3, <1>4, Zenon

\* Reader::close, Writer::close and Writer::fail: the reads in the queue give `what'.
LEMMA SetAllGives ==
  ASSUME PipeInv, NEW t \in {"reader", "writer"}, NEW what, P!Idle(t),
         P!SetAll(t, what), UNCHANGED result
  PROVE  /\ OneAnswer'
         /\ \A i : i \notin P!Range(reads) => P!Outcome(i)' = P!Outcome(i)
         /\ \A i \in P!Range(reads) : P!Outcome(i)' = P!Is(what)
<1>1. PICK R, a : R = P!Range(reads) /\ a = P!Is(what)
  OBVIOUS
<1>2. /\ Due \subseteq Due' /\ \A s \in Due' : s \in Due \/ (s[1] \in R /\ s[2] = a)
      /\ \A r \in R : <<r, a>> \in Due'
  BY <1>1, SetAllDue, Zenon DEF PipeInv
<1>3. \A r \in R : \A s \in Due : s[1] # r
  BY <1>1, QueuedNotDue, Zenon
<1>4. /\ OneAnswer'
      /\ \A i : i \notin R => P!Outcome(i)' = P!Outcome(i)
      /\ \A i \in R : P!Outcome(i)' = a
  BY <1>2, <1>3, SettingGives
<1> QED BY <1>1, <1>4, Zenon

\* Writer::write: the first read in the queue, if there is one, gives the data.
LEMMA WriteGives ==
  ASSUME PipeInv, P!Write, reads # <<>>, NEW first, first = reads[1]
  PROVE  /\ OneAnswer' /\ Due \subseteq Due'
         /\ \A s \in Due' : s \in Due \/ (s[1] = first /\ s[2] = P!Data(written'))
         /\ \A i : i # first => P!Outcome(i)' = P!Outcome(i)
         /\ \A i : i = first => P!Outcome(i)' = P!Data(written')
<1>1. PICK new, a, R : new = <<<<first, a>>>> /\ a = P!Data(written') /\ R = {first}
  OBVIOUS
<1>2. /\ setting'["writer"] = new /\ setting'["reader"] = setting["reader"]
      /\ setting["writer"] = <<>> /\ UNCHANGED result
  BY <1>1 DEF P!Write, P!Idle, PipeInv, PipeTypes
<1>3. P!Range(new) = {<<first, a>>}
  BY <1>1 DEF P!Range
<1>4. Due = P!Range(setting["reader"])
  BY <1>2, RangeEmpty, Zenon DEF Due
<1>5. Due' = P!Range(setting["reader"]) \cup P!Range(new)
  BY <1>2, Zenon DEF Due
<1>6. \A s \in {<<first, a>>} : s[1] \in R /\ s[2] = a
  BY <1>1
<1>7. /\ Due \subseteq Due' /\ \A s \in Due' : s \in Due \/ (s[1] \in R /\ s[2] = a)
      /\ \A r \in R : <<r, a>> \in Due'
  BY <1>1, <1>3, <1>4, <1>5, <1>6, Zenon
<1>8. \A r \in R : \A s \in Due : s[1] # r
  <2>1. reads \in Seq(Nat)
    BY DEF PipeInv, PipeTypes
  <2>2. first \in P!Range(reads)
    BY <2>1, RangeTail, Zenon
  <2> QED BY <1>1, <2>2, QueuedNotDue, Zenon
<1>9. /\ OneAnswer'
      /\ \A i : i \notin R => P!Outcome(i)' = P!Outcome(i)
      /\ \A i \in R : P!Outcome(i)' = a
  BY <1>2, <1>7, <1>8, SettingGives
<1> QED BY <1>1, <1>7, <1>9, Zenon

\* A promise is set to what it was to be set to.
LEMMA PromiseGives ==
  ASSUME PipeInv, NEW t \in {"reader", "writer"}, P!SetPromise(t)
  PROVE  /\ OneAnswer' /\ Due' \subseteq Due
         /\ \E s \in Due : result' = [result EXCEPT ![s[1]] = s[2]]
         /\ \A i \in P!Read : P!Outcome(i)' = P!Outcome(i)
<1>1. PICK old, s : old = setting[t] /\ s = old[1]
  OBVIOUS
<1>2. old \in Seq(Nat \X Answers) /\ old # <<>>
  BY <1>1, DueSeqs DEF P!SetPromise, PipeInv
<1>3. /\ P!Range(Tail(old)) \subseteq P!Range(old) /\ s \in P!Range(old)
      /\ \A r \in P!Range(old) : r \in P!Range(Tail(old)) \/ r = s
  BY <1>1, <1>2, RangeTail, Zenon
<1>4. /\ setting'[t] = Tail(old)
      /\ \A u \in {"reader", "writer"} : u # t => setting'[u] = setting[u]
  BY <1>1 DEF P!SetPromise, PipeInv, PipeTypes
<1>5. Due' \subseteq Due /\ s \in Due /\ \A r \in Due : r \in Due' \/ r = s
  <2>1. CASE t = "reader"
    BY <1>1, <1>3, <1>4, <2>1 DEF Due
  <2>2. CASE t = "writer"
    BY <1>1, <1>3, <1>4, <2>2 DEF Due
  <2> QED BY <2>1, <2>2, Zenon
<1>6. OneAnswer /\ OneAnswer'
  BY <1>5, Zenon DEF OneAnswer, PipeInv, Placed
<1>7. result' = [result EXCEPT ![s[1]] = s[2]]
  BY <1>1, Zenon DEF P!SetPromise
<1>8. ASSUME NEW i \in P!Read PROVE P!Outcome(i)' = P!Outcome(i)
  <2>1. /\ \A r \in Due' : r[1] = i => r \in Due
        /\ \A r \in Due : r[1] = i => r \in Due' \/ r = s
    BY <1>5, Zenon
  <2>2. s[1] = i => result'[i] = s[2]
    BY <1>7 DEF PipeInv, PipeTypes
  <2>3. s[1] # i => result'[i] = result[i]
    BY <1>7 DEF PipeInv, PipeTypes
  <2>4. \A r \in Due : r[1] = i => r \in Due' \/ result'[i] = r[2]
    BY <2>1, <2>2, Zenon
  <2>5. (\A r \in Due : r[1] # i) => result'[i] = result[i]
    BY <1>5, <2>3, Zenon
  <2> QED BY <1>6, <2>1, <2>4, <2>5, SameOutcome
<1> QED BY <1>5, <1>6, <1>7, <1>8, Zenon

-----------------------------------------------------------------------------
(* The invariant of Pipe.                                                  *)

\* The answers of the operations.
LEMMA AnswerTypes ==
  /\ \A kind \in Kinds : P!Is(kind) \in Answers
  /\ P!Is("none") \in Answers /\ P!Is("pending") \in Answers
  /\ P!Is("eof") \in Answers /\ P!Is("failed") \in Answers
  /\ P!Is("closed") \in Answers
  /\ "eof" \in Kinds /\ "failed" \in Kinds /\ "closed" \in Kinds
  /\ \A n \in Nat : P!Data(n) \in Answers
<1>1. "data" \in Kinds /\ \A k \in {"none", "pending", "eof", "failed", "closed"} : k \in Kinds
  BY Zenon DEF Kinds
<1>2. \A kind \in Kinds : P!Is(kind) \in Answers
  BY DEF Answers, P!Is
<1>3. \A n \in Nat : P!Data(n) \in Answers
  BY <1>1 DEF Answers, P!Data
<1> QED BY <1>1, <1>2, <1>3, Zenon

\* A new pipe satisfies the invariant.
LEMMA PipeInit ==
  ASSUME MaxReads \in Nat, MaxWrites \in Nat, P!Init
  PROVE  PipeInv
<1>1. PipeTypes
  <2>1. P!Is("none") \in Answers
    BY AnswerTypes
  <2>2. result \in [P!Read -> Answers]
    BY <2>1, Zenon DEF P!Init
  <2>3. setting \in [{"reader", "writer"} -> Seq(Nat \X Answers)]
    <3>1. <<>> \in Seq(Nat \X Answers)
      OBVIOUS
    <3> QED BY <3>1, Zenon DEF P!Init
  <2> QED BY <2>2, <2>3 DEF P!Init, PipeTypes
<1>2. Due = {}
  <2>1. setting["reader"] = <<>> /\ setting["writer"] = <<>>
    BY DEF P!Init
  <2> QED BY <2>1, RangeEmpty, Zenon DEF Due
<1>3. OneAnswer
  BY <1>2, Zenon DEF OneAnswer
<1>4. \A i \in P!Read : P!Outcome(i) = P!Is("none")
  <2>1. \A i \in P!Read : result[i] = P!Is("none")
    BY DEF P!Init
  <2> QED BY <1>2, <1>3, <2>1, OutcomeIs, Zenon
<1>5. \A i \in P!Read : P!Outcome(i)[1] = "none"
  BY <1>4 DEF P!Is
<1>6. Placed
  BY <1>2, <1>3 DEF Placed, P!Init
<1>7. Ordered /\ EndsLast /\ P!ClosureSaysWho /\ P!ReadsWait
  BY <1>5 DEF Ordered, EndsLast, P!ClosureSaysWho, P!ReadsWait, P!Init
<1>8. P!NothingLost
  BY RangeEmpty DEF P!NothingLost, P!Init
<1> QED BY <1>1, <1>6, <1>7, <1>8, Zenon DEF PipeInv

\* A read waits only while the pipe is empty and both its ends are open.
LEMMA ReadsStep == ASSUME PipeInv, [P!Next]_P!vars PROVE P!ReadsWait'
<1>1. reads \in Seq(Nat) /\ P!ReadsWait
  BY DEF PipeInv, PipeTypes
<1>2. CASE P!DoRead
  BY <1>1, <1>2 DEF P!DoRead, P!ReadsWait
<1>3. CASE P!CloseReader
  BY <1>1, <1>3 DEF P!CloseReader, P!ReadsWait
<1>4. CASE P!Write
  BY <1>1, <1>4 DEF P!Write, P!ReadsWait
<1>5. ASSUME NEW to, NEW what, P!CloseWriter(to, what) PROVE P!ReadsWait'
  BY <1>1, <1>5 DEF P!CloseWriter, P!ReadsWait
<1>6. CASE P!Promises \/ UNCHANGED P!vars
  BY <1>1, <1>6, Zenon DEF P!Promises, P!SetPromise, P!ReadsWait, P!vars
<1> QED BY <1>2, <1>3, <1>4, <1>5, <1>6, Zenon DEF P!Next

\* Every operation keeps the types.
LEMMA TypesStep ==
  ASSUME MaxReads \in Nat, MaxWrites \in Nat, PipeInv, [P!Next]_P!vars
  PROVE  PipeTypes'
<1>1. PipeTypes
  BY DEF PipeInv
<1>2. CASE P!DoRead
  <2>1. writes # <<>> => writes[1] \in Nat /\ Tail(writes) \in Seq(Nat)
    BY <1>1, TailFacts DEF PipeTypes
  <2>2. issued' \in 0..MaxReads /\ issued + 1 \in Nat
    BY <1>1, <1>2 DEF PipeTypes, P!DoRead
  <2>3. writes' \in Seq(Nat) /\ reads' \in Seq(Nat)
    BY <1>1, <1>2, <2>1, <2>2 DEF PipeTypes, P!DoRead
  <2>4. result' \in [P!Read -> Answers]
    <3>1. PICK a : result' = [result EXCEPT ![issued + 1] = a] /\ a \in Answers
      <4>1. writes # <<>> => P!Data(writes[1]) \in Answers
        BY <2>1, AnswerTypes, Zenon
      <4> QED BY <1>2, <4>1, AnswerTypes, Zenon DEF P!DoRead
    <3> QED BY <1>1, <3>1, Zenon DEF PipeTypes
  <2> QED BY <1>1, <1>2, <2>2, <2>3, <2>4, Zenon DEF PipeTypes, P!DoRead
<1>3. ASSUME NEW t \in {"reader", "writer"}, NEW what \in Kinds, P!SetAll(t, what)
      PROVE  setting' \in [{"reader", "writer"} -> Seq(Nat \X Answers)]
  <2>1. PICK a \in Answers : a = P!Is(what)
    BY AnswerTypes, Zenon
  <2>2. reads \in Seq(Nat)
    BY <1>1 DEF PipeTypes
  <2>3. [k \in 1..Len(reads) |-> <<reads[k], a>>] \in Seq(Nat \X Answers)
    BY <2>2
  <2>4. setting' = [setting EXCEPT ![t] = [k \in 1..Len(reads) |-> <<reads[k], a>>]]
    BY <1>3, <2>1, Zenon DEF P!SetAll
  <2> QED BY <1>1, <2>3, <2>4, Zenon DEF PipeTypes
<1>4. CASE P!CloseReader
  <2>1. setting' \in [{"reader", "writer"} -> Seq(Nat \X Answers)]
    BY <1>3, <1>4, AnswerTypes, Zenon DEF P!CloseReader
  <2> QED BY <1>1, <1>4, <2>1 DEF PipeTypes, P!CloseReader
<1>5. CASE P!Write
  <2>1. reads # <<>> => reads[1] \in Nat /\ Tail(reads) \in Seq(Nat)
    BY <1>1, TailFacts DEF PipeTypes
  <2>2. written' \in 0..MaxWrites /\ written' \in Nat
    BY <1>1, <1>5 DEF PipeTypes, P!Write
  <2>3. PICK a \in Answers : a = P!Data(written')
    BY <2>2, AnswerTypes, Zenon
  <2>4. reads # <<>> => <<<<reads[1], a>>>> \in Seq(Nat \X Answers)
    <3>1. PICK r : r = <<reads[1], a>>
      OBVIOUS
    <3>2. reads # <<>> => r \in Nat \X Answers
      BY <2>1, <2>3, <3>1
    <3>3. \A S : r \in S => <<r>> \in Seq(S)
      OBVIOUS
    <3> QED BY <3>1, <3>2, <3>3, Zenon
  <2>5. setting' \in [{"reader", "writer"} -> Seq(Nat \X Answers)]
    BY <1>1, <1>5, <2>3, <2>4, Zenon DEF PipeTypes, P!Write
  <2>6. Append(writes, written') \in Seq(Nat)
    BY <1>1, <2>2, AppendFacts DEF PipeTypes
  <2>7. writes' \in Seq(Nat) /\ reads' \in Seq(Nat)
    BY <1>1, <1>5, <2>1, <2>6, Zenon DEF PipeTypes, P!Write
  <2> QED BY <1>1, <1>5, <2>2, <2>5, <2>7, Zenon DEF PipeTypes, P!Write
<1>6. CASE P!CloseWriter("CLOSED", "eof") \/ P!CloseWriter("FAILED", "failed")
  <2>1. setting' \in [{"reader", "writer"} -> Seq(Nat \X Answers)]
    BY <1>3, <1>6, AnswerTypes, Zenon DEF P!CloseWriter
  <2>2. writeEnd' \in {"OPEN", "CLOSED", "FAILED"}
    BY <1>6, Zenon DEF P!CloseWriter
  <2>3. reads' = <<>> /\ UNCHANGED <<readEnd, writes, result, issued, written>>
    BY <1>6, Zenon DEF P!CloseWriter
  <2>4. <<>> \in Seq(Nat)
    OBVIOUS
  <2> QED BY <1>1, <2>1, <2>2, <2>3, <2>4, Zenon DEF PipeTypes
<1>7. ASSUME NEW t \in {"reader", "writer"}, P!SetPromise(t) PROVE PipeTypes'
  <2>1. PICK old : old = setting[t]
    OBVIOUS
  <2>2. old \in Seq(Nat \X Answers) /\ old # <<>>
    BY <1>1, <1>7, <2>1 DEF PipeTypes, P!SetPromise
  <2>3. Tail(old) \in Seq(Nat \X Answers) /\ old[1] \in Nat \X Answers
    BY <2>2, TailFacts
  <2> QED BY <1>1, <1>7, <2>1, <2>3 DEF PipeTypes, P!SetPromise
<1>8. CASE UNCHANGED P!vars
  BY <1>1, <1>8, Zenon DEF PipeTypes, P!vars
<1>9. DOMAIN setting = {"reader", "writer"}
  BY <1>1 DEF PipeTypes
<1> QED BY <1>2, <1>4, <1>5, <1>6, <1>7, <1>8, <1>9, Zenon DEF P!Next, P!Promises

\* The promises due and the reads in the queue are of different reads.
LEMMA PlacedStep ==
  ASSUME MaxReads \in Nat, MaxWrites \in Nat, PipeInv, [P!Next]_P!vars
  PROVE  Placed'
<1>1. PipeTypes /\ Placed /\ P!ReadsWait
  BY DEF PipeInv
<1>2. /\ reads \in Seq(Nat) /\ issued \in Nat /\ Len(reads) \in Nat
      /\ DOMAIN result = P!Read /\ P!Read = 1..MaxReads /\ issued <= MaxReads
  BY <1>1 DEF PipeTypes, P!Read
<1>3. /\ \A s \in Due : s[1] \in 1..issued
      /\ \A s \in Due, k \in 1..Len(reads) : s[1] # reads[k]
      /\ \A k \in 1..Len(reads) :
           reads[k] \in 1..issued /\ result[reads[k]] = P!Is("pending")
      /\ \A j, k \in 1..Len(reads) : j < k => reads[j] < reads[k]
      /\ \A i \in P!Read : i > issued => result[i] = P!Is("none")
  BY <1>1, Zenon DEF Placed
<1>4. CASE P!DoRead
  <2>1. OneAnswer' /\ Due' = Due /\ issued' = issued + 1
    BY <1>4, ReadGives, Zenon DEF P!DoRead
  <2>2. \A i \in P!Read : i # issued + 1 => result'[i] = result[i]
    BY <1>2, <1>4 DEF P!DoRead
  <2>3. \/ UNCHANGED reads
        \/ reads' = Append(reads, issued + 1) /\ result'[issued + 1] = P!Is("pending")
    <3>1. issued + 1 \in DOMAIN result
      BY <1>2, <1>4 DEF P!DoRead
    <3> QED BY <1>4, <3>1 DEF P!DoRead
  <2>4. \A i \in P!Read : i > issued' => result'[i] = P!Is("none")
    BY <1>2, <1>3, <2>1, <2>2
  <2>5. \A s \in Due' : s[1] \in 1..issued'
    BY <1>2, <1>3, <2>1
  <2>6. \A k \in 1..Len(reads) : reads[k] \in 1..issued' /\ reads[k] < issued + 1
                                /\ result'[reads[k]] = P!Is("pending")
    BY <1>2, <1>3, <2>1, <2>2
  <2>7. CASE UNCHANGED reads
    BY <1>3, <2>1, <2>4, <2>5, <2>6, <2>7, Zenon DEF Placed
  <2>8. CASE reads' = Append(reads, issued + 1) /\ result'[issued + 1] = P!Is("pending")
    <3>1. /\ Len(reads') = Len(reads) + 1 /\ reads'[Len(reads) + 1] = issued + 1
          /\ \A k \in 1..Len(reads) : reads'[k] = reads[k]
      BY <1>2, <2>8, AppendFacts
    <3>2. \A s \in Due', k \in 1..Len(reads') : s[1] # reads'[k]
      BY <1>2, <1>3, <2>1, <3>1
    <3>3. \A k \in 1..Len(reads') :
            reads'[k] \in 1..issued' /\ result'[reads'[k]] = P!Is("pending")
      BY <1>2, <2>1, <2>6, <2>8, <3>1
    <3>4. ASSUME NEW j \in 1..Len(reads'), NEW k \in 1..Len(reads'), j < k
          PROVE  reads'[j] < reads'[k]
      <4>1. j \in 1..Len(reads) /\ reads'[j] = reads[j] /\ reads[j] < issued + 1
        BY <1>2, <2>6, <3>1, <3>4
      <4>2. CASE k \in 1..Len(reads)
        BY <1>3, <3>1, <3>4, <4>1, <4>2, Zenon
      <4>3. CASE k = Len(reads) + 1
        BY <3>1, <4>1, <4>3, Zenon
      <4> QED BY <1>2, <3>1, <4>2, <4>3
    <3> QED BY <2>1, <2>4, <2>5, <3>2, <3>3, <3>4, Zenon DEF Placed
  <2> QED BY <2>3, <2>7, <2>8, Zenon
<1>5. ASSUME NEW t \in {"reader", "writer"}, NEW what, P!Idle(t), P!SetAll(t, what),
             UNCHANGED <<result, issued>>, reads' = <<>>
      PROVE  Placed'
  <2>1. OneAnswer'
    BY <1>5, SetAllGives, Zenon
  <2>2. \A s \in Due' : s \in Due \/ s[1] \in P!Range(reads)
    BY <1>1, <1>5, SetAllDue, Zenon
  <2>3. \A r \in P!Range(reads) : r \in 1..issued
    BY QueuedNotDue, Zenon
  <2>4. \A s \in Due' : s[1] \in 1..issued'
    BY <1>3, <1>5, <2>2, <2>3, Zenon
  <2>5. Len(reads') = 0
    BY <1>5
  <2>6. 1..Len(reads') = {}
    BY <2>5
  <2> QED BY <1>3, <1>5, <2>1, <2>4, <2>6, Zenon DEF Placed
<1>6. CASE P!CloseReader
  BY <1>5, <1>6, Zenon DEF P!CloseReader
<1>7. ASSUME NEW to, NEW what, P!CloseWriter(to, what) PROVE Placed'
  BY <1>5, <1>7, Zenon DEF P!CloseWriter
<1>8. CASE P!Write
  <2>1. CASE reads = <<>>
    <3>1. UNCHANGED <<reads, result, issued, setting>>
      BY <1>8, <2>1, Zenon DEF P!Write
    <3> QED BY <1>1, <3>1, Zenon DEF Placed, OneAnswer, Due
  <2>2. CASE reads # <<>>
    <3>1. PICK first : first = reads[1]
      OBVIOUS
    <3>2. /\ OneAnswer' /\ \A s \in Due' : s \in Due \/ s[1] = first
      BY <1>8, <2>2, <3>1, WriteGives, Zenon
    <3>3. reads' = Tail(reads) /\ UNCHANGED <<result, issued>>
      BY <1>8, <2>2, Zenon DEF P!Write
    <3>4. /\ Len(reads') = Len(reads) - 1 /\ 1 \in 1..Len(reads)
          /\ \A k \in 1..Len(reads') : reads'[k] = reads[k + 1] /\ k + 1 \in 1..Len(reads)
      BY <1>2, <2>2, <3>3, TailFacts, Zenon
    <3>5. ASSUME NEW k \in 1..Len(reads') PROVE first < reads'[k] /\ first # reads'[k]
      <4>1. 1 < k + 1
        OBVIOUS
      <4>2. reads[1] < reads[k + 1] /\ k + 1 \in 1..Len(reads) /\ reads'[k] = reads[k + 1]
        BY <1>3, <3>4, <4>1, Zenon
      <4>3. reads[1] \in Nat /\ reads[k + 1] \in Nat
        BY <1>2, <3>4, <4>2
      <4>4. reads[1] # reads[k + 1]
        BY <4>2, <4>3
      <4> QED BY <3>1, <4>2, <4>4, Zenon
    <3>6. \A s \in Due', k \in 1..Len(reads') : s[1] # reads'[k]
      <4>1. ASSUME NEW s \in Due', NEW k \in 1..Len(reads') PROVE s[1] # reads'[k]
        <5>1. \A r \in Due : r[1] # reads[k + 1]
          BY <1>3, <3>4, Zenon
        <5> QED BY <3>2, <3>4, <3>5, <5>1, Zenon
      <4> QED BY <4>1, Zenon
    <3>7. ASSUME NEW j \in 1..Len(reads'), NEW k \in 1..Len(reads'), j < k
          PROVE  reads'[j] < reads'[k]
      <4>1. j + 1 < k + 1
        BY <3>7
      <4> QED BY <1>3, <3>4, <4>1, Zenon
    <3>8. \A s \in Due' : s[1] \in 1..issued'
      BY <1>3, <3>1, <3>2, <3>3, <3>4, Zenon
    <3>9. \A k \in 1..Len(reads') :
            reads'[k] \in 1..issued' /\ result'[reads'[k]] = P!Is("pending")
      BY <1>3, <3>3, <3>4, Zenon
    <3> QED BY <1>3, <3>2, <3>3, <3>6, <3>7, <3>8, <3>9, Zenon DEF Placed
  <2> QED BY <2>1, <2>2, Zenon
<1>9. ASSUME NEW t \in {"reader", "writer"}, P!SetPromise(t) PROVE Placed'
  <2>1. OneAnswer' /\ Due' \subseteq Due
    BY <1>9, PromiseGives, Zenon
  <2>2. PICK s \in Due : result' = [result EXCEPT ![s[1]] = s[2]]
    BY <1>9, PromiseGives, Zenon
  <2>3. UNCHANGED <<reads, issued>>
    BY <1>9, Zenon DEF P!SetPromise
  <2>4. \A i \in P!Read : i # s[1] => result'[i] = result[i]
    BY <1>2, <2>2
  <2>5. s[1] \in 1..issued /\ \A k \in 1..Len(reads) : s[1] # reads[k]
    BY <1>3, Zenon
  <2>6. \A k \in 1..Len(reads) : result'[reads[k]] = P!Is("pending")
    BY <1>2, <1>3, <2>4, <2>5
  <2>7. \A i \in P!Read : i > issued => result'[i] = P!Is("none")
    BY <1>2, <1>3, <2>4, <2>5
  <2> QED BY <1>3, <2>1, <2>3, <2>6, <2>7, Zenon DEF Placed
<1>10. CASE UNCHANGED P!vars
  BY <1>1, <1>10, Zenon DEF Placed, OneAnswer, Due, P!vars
<1>11. DOMAIN setting = {"reader", "writer"}
  BY <1>1 DEF PipeTypes
<1> QED BY <1>4, <1>6, <1>7, <1>8, <1>9, <1>10, <1>11, Zenon DEF P!Next, P!Promises

\* The parts of an answer.
LEMMA AnswerParts ==
  /\ \A k : P!Is(k)[1] = k
  /\ \A n : P!Data(n)[1] = "data" /\ P!Data(n)[2] = n
  BY DEF P!Is, P!Data

\* A read that was not issued gives nothing.
LEMMA NotIssued ==
  ASSUME PipeInv, NEW i \in P!Read, i > issued
  PROVE  P!Outcome(i) = P!Is("none")
<1>1. OneAnswer /\ result[i] = P!Is("none") /\ \A s \in Due : s[1] \in 1..issued
  BY Zenon DEF PipeInv, Placed
<1>2. i \notin 1..issued
  BY DEF PipeInv, PipeTypes
<1> QED BY <1>1, <1>2, OutcomeIs, Zenon

\* Nothing is lost, piece by piece.
LEMMA EachPiece ==
  P!NothingLost <=>
    /\ \A n \in P!Range(writes) \cup lost : n \in 1..written
    /\ \A n \in 1..written : \/ n \in P!Range(writes) \cup lost
                            \/ \E i \in P!Read : P!Outcome(i) = P!Data(n)
  BY Zenon DEF P!NothingLost
\* The same in the next state.
LEMMA EachPieceNext ==
  P!NothingLost' <=>
    /\ \A n \in P!Range(writes') \cup lost' : n \in 1..written'
    /\ \A n \in 1..written' : \/ n \in P!Range(writes') \cup lost'
                             \/ \E i \in P!Read : P!Outcome(i)' = P!Data(n)
  BY Zenon DEF P!NothingLost, P!Data

\* Closing an end: no read that had an answer, or was never made, gets another.
LEMMA CloseKeeps ==
  ASSUME MaxReads \in Nat, PipeInv, NEW t \in {"reader", "writer"}, NEW what, P!Idle(t),
         P!SetAll(t, what), UNCHANGED result, what # "data"
  PROVE  /\ \A i \in P!Read : P!Outcome(i)[1] # "pending" => P!Outcome(i)' = P!Outcome(i)
         /\ \A i \in P!Read : P!Outcome(i)'[1] = "data" => P!Outcome(i)' = P!Outcome(i)
         /\ \A i \in P!Read : P!Outcome(i)'[1] = what \/ P!Outcome(i)' = P!Outcome(i)
         /\ \A i \in P!Read : P!Outcome(i)' = P!Outcome(i) \/ \E k \in 1..Len(reads) : i = reads[k]
<1>1. /\ \A i : i \notin P!Range(reads) => P!Outcome(i)' = P!Outcome(i)
      /\ \A i \in P!Range(reads) : P!Outcome(i)' = P!Is(what)
  BY SetAllGives, Zenon
<1>2. \A i \in P!Range(reads) : P!Outcome(i) = P!Is("pending")
  BY QueuedNotDue, Zenon
<1>3. \A i \in P!Range(reads) : \E k \in 1..Len(reads) : i = reads[k]
  <2>1. P!Range(reads) = {reads[k] : k \in 1..Len(reads)}
    BY RangeFacts DEF PipeInv, PipeTypes
  <2> QED BY <2>1, Zenon
<1>4. P!Is(what)[1] = what /\ P!Is("pending")[1] = "pending"
  BY AnswerParts, Zenon
<1>5. ASSUME NEW i \in P!Read, i \in P!Range(reads)
      PROVE  /\ P!Outcome(i)[1] = "pending" /\ P!Outcome(i)'[1] = what
             /\ \E k \in 1..Len(reads) : i = reads[k]
  BY <1>1, <1>2, <1>3, <1>4, <1>5, Zenon
<1> QED BY <1>1, <1>5, Zenon

-----------------------------------------------------------------------------
(* What each operation leaves of the promise that reads give all data in order. *)

\* What Pipe promises to its reader and its writer.
Kept == Ordered /\ EndsLast /\ P!NothingLost /\ P!ClosureSaysWho

\* The counters and the lengths are numbers.
LEMMA PipeNumbers ==
  ASSUME MaxReads \in Nat, PipeInv
  PROVE  /\ issued \in Nat /\ written \in Nat /\ Len(writes) \in Nat
         /\ Len(writes) <= written /\ Len(reads) \in Nat /\ P!Read = 1..MaxReads
         /\ reads \in Seq(Nat) /\ writes \in Seq(Nat)
         /\ writes = <<>> <=> Len(writes) = 0
         /\ P!Range(writes) = {writes[k] : k \in 1..Len(writes)}
         /\ \A k \in 1..Len(writes) : writes[k] = written - Len(writes) + k
<1>1. /\ issued \in Nat /\ written \in Nat /\ reads \in Seq(Nat) /\ writes \in Seq(Nat)
      /\ P!Read = 1..MaxReads
  BY DEF PipeInv, PipeTypes, P!Read
<1>2. Len(reads) \in Nat
  BY <1>1, RangeFacts
<1>3. /\ Len(writes) \in Nat /\ P!Range(writes) = {writes[k] : k \in 1..Len(writes)}
      /\ writes = <<>> <=> Len(writes) = 0
  BY <1>1, RangeFacts
<1>4. /\ Len(writes) <= written
      /\ \A k \in 1..Len(writes) : writes[k] = written - Len(writes) + k
  BY Zenon DEF PipeInv, Ordered
<1> QED BY <1>1, <1>2, <1>3, <1>4, Zenon

\* Reader::close.
LEMMA CloseReaderKeeps ==
  ASSUME MaxReads \in Nat, PipeInv, P!CloseReader
  PROVE  Kept'
<1>1. /\ P!Idle("reader") /\ P!SetAll("reader", "closed")
      /\ UNCHANGED <<result, writeEnd, written>>
      /\ reads' = <<>> /\ writes' = <<>> /\ lost' = lost \cup P!Range(writes)
      /\ readEnd' = "CLOSED"
      /\ readerClosure' = "set" => writeEnd = "OPEN"
  BY DEF P!CloseReader
<1>2. /\ \A i \in P!Read : P!Outcome(i)[1] # "pending" => P!Outcome(i)' = P!Outcome(i)
      /\ \A i \in P!Read : P!Outcome(i)'[1] = "data" => P!Outcome(i)' = P!Outcome(i)
      /\ \A i \in P!Read : P!Outcome(i)'[1] = "closed" \/ P!Outcome(i)' = P!Outcome(i)
  <2>1. "closed" # "data"
    OBVIOUS
  <2> QED BY <1>1, <2>1, CloseKeeps, Zenon
<1>3. Len(writes') = 0 /\ Len(reads') = 0 /\ 1..Len(writes') = {} /\ 1..Len(reads') = {}
  BY <1>1
<1>4. Ordered'
  <2>1. \A i \in P!Read : P!Outcome(i)'[1] = "data" =>
          P!Outcome(i)'[2] \in 1..(written - Len(writes))
    BY <1>2, Zenon DEF PipeInv, Ordered
  <2>2. 1..(written - Len(writes)) \subseteq 1..(written' - Len(writes'))
    BY <1>1, <1>3, PipeNumbers
  <2>3. \A i, j \in P!Read :
          P!Outcome(i)'[1] = "data" /\ P!Outcome(j)'[1] = "data" /\ i < j =>
            P!Outcome(i)'[2] < P!Outcome(j)'[2]
    BY <1>2, Zenon DEF PipeInv, Ordered
  <2>4. Len(writes') <= written'
    BY <1>1, <1>3, PipeNumbers
  <2> QED BY <1>3, <2>1, <2>2, <2>3, <2>4, Zenon DEF Ordered
<1>5. \A i \in P!Read : P!Outcome(i)'[1] \in {"eof", "failed"} =>
        P!Outcome(i)' = P!Outcome(i)
  BY <1>2
<1>6. EndsLast'
  BY <1>1, <1>2, <1>5, Zenon DEF EndsLast, PipeInv
<1>7. P!NothingLost'
  <2>1. \A n : \A i \in P!Read : P!Outcome(i) = P!Data(n) => P!Outcome(i)' = P!Data(n)
    <3>1. \A n : P!Data(n)[1] # "pending"
      BY AnswerParts
    <3> QED BY <1>2, <3>1, Zenon
  <2>2. P!NothingLost
    BY DEF PipeInv
  <2>3. P!Range(writes') = {}
    BY <1>1, RangeEmpty, Zenon
  <2> QED BY <1>1, <2>1, <2>2, <2>3, EachPiece, EachPieceNext, Zenon
<1>8. P!ClosureSaysWho'
  <2>1. \A i \in P!Read : P!Outcome(i)'[1] = "eof" => writeEnd # "OPEN"
    BY <1>5, Zenon DEF EndsLast, PipeInv
  <2> QED BY <1>1, <2>1, Zenon DEF P!ClosureSaysWho
<1> QED BY <1>4, <1>6, <1>7, <1>8, Zenon DEF Kept

\* Writer::close and Writer::fail.
LEMMA CloseWriterKeeps ==
  ASSUME MaxReads \in Nat, PipeInv, NEW to, NEW what, P!CloseWriter(to, what),
         to # "OPEN", what \in {"eof", "failed"}
  PROVE  Kept'
<1>1. /\ P!Idle("writer") /\ P!SetAll("writer", what)
      /\ UNCHANGED <<result, readEnd, written, writes, lost, readerClosure>>
      /\ reads' = <<>> /\ writeEnd' # "OPEN"
  BY Zenon DEF P!CloseWriter
<1>2. /\ \A i \in P!Read : P!Outcome(i)[1] # "pending" => P!Outcome(i)' = P!Outcome(i)
      /\ \A i \in P!Read : P!Outcome(i)'[1] = "data" => P!Outcome(i)' = P!Outcome(i)
      /\ \A i \in P!Read : P!Outcome(i)' = P!Outcome(i) \/ \E k \in 1..Len(reads) : i = reads[k]
  <2>1. what # "data"
    OBVIOUS
  <2> QED BY <1>1, <2>1, CloseKeeps, Zenon
<1>3. Len(reads') = 0 /\ 1..Len(reads') = {}
  BY <1>1
<1>4. Ordered'
  <2>1. Ordered
    BY DEF PipeInv
  <2>2. ASSUME NEW i \in P!Read, P!Outcome(i)'[1] = "data"
        PROVE  P!Outcome(i)'[2] \in 1..(written' - Len(writes'))
    <3>1. P!Outcome(i)' = P!Outcome(i)
      BY <1>2, <2>2, Zenon
    <3>2. P!Outcome(i)[2] \in 1..(written - Len(writes))
      BY <2>1, <2>2, <3>1, Zenon DEF Ordered
    <3> QED BY <1>1, <3>1, <3>2, Zenon
  <2>3. ASSUME NEW i \in P!Read, NEW j \in P!Read, P!Outcome(i)'[1] = "data",
               P!Outcome(j)'[1] = "data", i < j
        PROVE  P!Outcome(i)'[2] < P!Outcome(j)'[2]
    <3>1. P!Outcome(i)' = P!Outcome(i) /\ P!Outcome(j)' = P!Outcome(j)
      BY <1>2, <2>3, Zenon
    <3>2. P!Outcome(i)[2] < P!Outcome(j)[2]
      BY <2>1, <2>3, <3>1, Zenon DEF Ordered
    <3> QED BY <3>1, <3>2, Zenon
  <2>4. /\ \A k \in 1..Len(writes') : writes'[k] = written' - Len(writes') + k
        /\ Len(writes') <= written'
    BY <1>1, <2>1, Zenon DEF Ordered
  <2> QED BY <1>3, <2>2, <2>3, <2>4, Zenon DEF Ordered
<1>5. EndsLast'
  <2> SUFFICES ASSUME NEW i \in P!Read, P!Outcome(i)'[1] \in {"eof", "failed"}
               PROVE  writes' = <<>> /\ \A j \in P!Read : P!Outcome(j)'[1] = "data" => j < i
    BY <1>1, Zenon DEF EndsLast
  <2>1. CASE P!Outcome(i)' = P!Outcome(i)
    BY <1>1, <1>2, <2>1, Zenon DEF PipeInv, EndsLast
  <2>2. CASE \E k \in 1..Len(reads) : i = reads[k]
    <3>1. PICK k \in 1..Len(reads) : i = reads[k]
      BY <2>2
    <3>2. reads # <<>>
      BY <3>1, PipeNumbers
    <3>3. writes' = <<>>
      BY <1>1, <3>2, Zenon DEF PipeInv, P!ReadsWait
    <3> QED BY <1>2, <3>1, <3>3, Zenon DEF PipeInv, Ordered
  <2> QED BY <1>2, <2>1, <2>2, Zenon
<1>6. P!NothingLost'
  <2>1. \A n : \A i \in P!Read : P!Outcome(i) = P!Data(n) => P!Outcome(i)' = P!Data(n)
    <3>1. \A n : P!Data(n)[1] # "pending"
      BY AnswerParts
    <3> QED BY <1>2, <3>1, Zenon
  <2>2. P!NothingLost
    BY DEF PipeInv
  <2> QED BY <1>1, <2>1, <2>2, EachPiece, EachPieceNext, Zenon
<1>7. P!ClosureSaysWho'
  <2> SUFFICES ASSUME readerClosure = "set"
               PROVE  readEnd = "CLOSED" /\ \A i \in P!Read : P!Outcome(i)'[1] # "eof"
    BY <1>1, Zenon DEF P!ClosureSaysWho
  <2>1. readEnd = "CLOSED" /\ \A i \in P!Read : P!Outcome(i)[1] # "eof"
    BY Zenon DEF PipeInv, P!ClosureSaysWho
  <2>2. reads = <<>>
    BY <2>1 DEF PipeInv, P!ReadsWait
  <2>3. 1..Len(reads) = {}
    BY <2>2
  <2> QED BY <1>2, <2>1, <2>3, Zenon
<1> QED BY <1>4, <1>5, <1>6, <1>7, Zenon DEF Kept

\* A promise set after the critical section.
LEMMA PromiseKeeps ==
  ASSUME PipeInv, NEW t \in {"reader", "writer"}, P!SetPromise(t)
  PROVE  Kept'
<1>1. \A i \in P!Read : P!Outcome(i)' = P!Outcome(i)
  BY PromiseGives, Zenon
<1>2. UNCHANGED <<readEnd, writeEnd, reads, writes, readerClosure, written, lost>>
  BY Zenon DEF P!SetPromise
<1>3. Ordered'
  BY <1>1, <1>2, Zenon DEF PipeInv, Ordered
<1>4. EndsLast'
  BY <1>1, <1>2, Zenon DEF PipeInv, EndsLast
<1>5. P!NothingLost'
  <2>1. P!NothingLost
    BY DEF PipeInv
  <2> QED BY <1>1, <1>2, <2>1, EachPiece, EachPieceNext, Zenon
<1>6. P!ClosureSaysWho'
  BY <1>1, <1>2, Zenon DEF PipeInv, P!ClosureSaysWho
<1> QED BY <1>3, <1>4, <1>5, <1>6, Zenon DEF Kept

\* Reader::read.
LEMMA ReadKeeps ==
  ASSUME MaxReads \in Nat, PipeInv, P!DoRead
  PROVE  Kept'
<1>1. PICK i : i = issued + 1
  OBVIOUS
<1>2. PICK a : a = result'[i]
  OBVIOUS
<1>3. /\ i \in P!Read /\ P!Outcome(i)' = a /\ P!Outcome(i) = P!Is("none")
      /\ \A j \in P!Read : j # i => P!Outcome(j)' = P!Outcome(j)
  <2>1. i \in P!Read /\ i > issued
    BY <1>1, ReadGives, PipeNumbers
  <2> QED BY <1>1, <1>2, <2>1, ReadGives, NotIssued, Zenon
<1>4. UNCHANGED <<readEnd, writeEnd, readerClosure, written, lost>>
  BY Zenon DEF P!DoRead
<1>5. \A j \in P!Read : j > issued => P!Outcome(j)[1] = "none"
  BY NotIssued, AnswerParts, Zenon
<1>6. \A j \in P!Read : j # i /\ P!Outcome(j)'[1] # "none" =>
        j < i /\ P!Outcome(j)' = P!Outcome(j)
  <2>1. \A j \in P!Read : j > issued \/ j < i
    BY <1>1, PipeNumbers
  <2> QED BY <1>3, <1>5, <2>1, Zenon
<1>7. \A n : \A j \in P!Read : P!Outcome(j) = P!Data(n) => P!Outcome(j)' = P!Data(n)
  <2>1. \A n : P!Data(n) # P!Is("none")
    BY DEF P!Is, P!Data
  <2> QED BY <1>3, <2>1, Zenon
<1>8. i \in DOMAIN result
  BY <1>3 DEF PipeInv, PipeTypes
<1>9. CASE readEnd = "OPEN" /\ writes # <<>>
  <2>1. a = P!Data(writes[1]) /\ writes' = Tail(writes) /\ UNCHANGED reads
    BY <1>1, <1>2, <1>8, <1>9 DEF P!DoRead
  <2>2. reads = <<>> /\ 1..Len(reads) = {} /\ 1..Len(reads') = {}
    BY <1>9, <2>1 DEF PipeInv, P!ReadsWait
  <2>3. a[1] = "data" /\ a[2] = writes[1] /\ writes[1] = written - Len(writes) + 1
    <3>1. 1 \in 1..Len(writes)
      BY <1>9, PipeNumbers
    <3> QED BY <2>1, <3>1, AnswerParts, PipeNumbers, Zenon
  <2>4. /\ Len(writes') = Len(writes) - 1
        /\ \A k \in 1..Len(writes') : writes'[k] = writes[k + 1] /\ k + 1 \in 1..Len(writes)
    BY <1>9, <2>1, PipeNumbers, TailFacts, Zenon
  <2>5. \A j \in P!Read : j # i /\ P!Outcome(j)'[1] = "data" =>
          j < i /\ P!Outcome(j)' = P!Outcome(j)
    <3>1. "data" # "none"
      OBVIOUS
    <3> QED BY <1>6, <3>1, Zenon
  <2>6. \A j \in P!Read : j # i /\ P!Outcome(j)'[1] = "data" =>
          P!Outcome(j)'[2] \in 1..(written - Len(writes))
    BY <2>5, Zenon DEF PipeInv, Ordered
  <2>7. Ordered'
    <3>1. /\ \A k \in 1..Len(writes') : writes'[k] = written' - Len(writes') + k
          /\ Len(writes') <= written'
      <4>1. written' = written /\ written \in Nat /\ Len(writes) \in Nat /\ Len(writes) <= written
        BY <1>4, PipeNumbers, Zenon
      <4>2. \A k \in 1..Len(writes') : writes'[k] = written - Len(writes) + (k + 1)
        BY <2>4, PipeNumbers, Zenon
      <4> QED BY <2>4, <4>1, <4>2
    <3>2. \A n : n \in 1..(written - Len(writes)) =>
            n \in 1..(written' - Len(writes')) /\ n < writes[1]
      BY <1>4, <2>3, <2>4, PipeNumbers
    <3>3. writes[1] \in 1..(written' - Len(writes'))
      BY <1>4, <1>9, <2>3, <2>4, PipeNumbers
    <3>4. \A j \in P!Read : P!Outcome(j)'[1] = "data" =>
            P!Outcome(j)'[2] \in 1..(written' - Len(writes'))
      BY <1>3, <2>3, <2>6, <3>2, <3>3, Zenon
    <3>5. ASSUME NEW j \in P!Read, NEW l \in P!Read, P!Outcome(j)'[1] = "data",
                 P!Outcome(l)'[1] = "data", j < l
          PROVE  P!Outcome(j)'[2] < P!Outcome(l)'[2]
      <4>1. j # i
        <5>1. j \in Nat /\ l \in Nat /\ ~(j < j) /\ ~(l < j)
          BY <3>5, PipeNumbers
        <5> QED BY <2>5, <3>5, <5>1, Zenon
      <4>2. CASE l = i
        BY <1>3, <2>3, <2>6, <3>2, <3>5, <4>1, <4>2, Zenon
      <4>3. CASE l # i
        BY <2>5, <3>5, <4>1, <4>3, Zenon DEF PipeInv, Ordered
      <4> QED BY <4>2, <4>3
    <3> QED BY <2>2, <3>1, <3>4, <3>5, Zenon DEF Ordered
  <2>8. \A j \in P!Read : P!Outcome(j)'[1] \notin {"eof", "failed"}
    <3>1. \A j \in P!Read : P!Outcome(j)[1] \notin {"eof", "failed"}
      BY <1>9, Zenon DEF PipeInv, EndsLast
    <3>2. a[1] \notin {"eof", "failed"}
      BY <2>3
    <3> QED BY <1>3, <3>1, <3>2, Zenon
  <2>9. EndsLast'
    BY <2>8, Zenon DEF EndsLast
  <2>10. P!NothingLost'
    <3>1. P!Range(writes') \subseteq P!Range(writes)
          /\ \A n \in P!Range(writes) : n \in P!Range(writes') \/ n = writes[1]
      BY <1>9, <2>1, PipeNumbers, RangeTail, Zenon
    <3>2. P!NothingLost
      BY DEF PipeInv
    <3> QED BY <1>3, <1>4, <1>7, <2>1, <3>1, <3>2, EachPiece, EachPieceNext, Zenon
  <2>11. P!ClosureSaysWho'
    BY <1>4, <2>8 DEF P!ClosureSaysWho, PipeInv
  <2> QED BY <2>7, <2>9, <2>10, <2>11, Zenon DEF Kept
<1>10. CASE ~(readEnd = "OPEN" /\ writes # <<>>)
  <2>1. /\ UNCHANGED writes
        /\ UNCHANGED reads \/ (reads' = Append(reads, i) /\ a = P!Is("pending"))
        /\ a \in {P!Is("closed"), P!Is("eof"), P!Is("failed"), P!Is("pending")}
        /\ readEnd = "CLOSED" => a = P!Is("closed")
        /\ a \in {P!Is("eof"), P!Is("failed")} => writes = <<>> /\ writeEnd # "OPEN"
    <3>1. a = IF readEnd = "CLOSED" THEN P!Is("closed")
              ELSE IF writes # <<>> THEN P!Data(writes[1])
              ELSE IF writeEnd = "CLOSED" THEN P!Is("eof")
              ELSE IF writeEnd = "FAILED" THEN P!Is("failed") ELSE P!Is("pending")
      BY <1>1, <1>2, <1>8 DEF P!DoRead
    <3>2. readEnd \in {"OPEN", "CLOSED"} /\ writeEnd \in {"OPEN", "CLOSED", "FAILED"}
      BY DEF PipeInv, PipeTypes
    <3>3. UNCHANGED writes
      BY <1>10, Zenon DEF P!DoRead
    <3>4. \/ UNCHANGED reads
          \/ /\ reads' = Append(reads, i) /\ readEnd = "OPEN" /\ writes = <<>>
             /\ writeEnd = "OPEN"
      BY <1>1, Zenon DEF P!DoRead
    <3>5. P!Is("closed") # P!Is("eof") /\ P!Is("closed") # P!Is("failed")
          /\ P!Is("pending") # P!Is("eof") /\ P!Is("pending") # P!Is("failed")
      BY DEF P!Is
    <3> QED BY <1>10, <3>1, <3>2, <3>3, <3>4, <3>5
  <2>2. /\ a[1] # "data"
        /\ readEnd = "CLOSED" => a[1] # "eof"
        /\ a[1] \in {"eof", "failed"} => writes = <<>> /\ writeEnd # "OPEN"
    BY <2>1 DEF P!Is
  <2>3. \A j \in P!Read : P!Outcome(j)'[1] = "data" =>
          j < i /\ P!Outcome(j)' = P!Outcome(j)
    <3>1. "data" # "none"
      OBVIOUS
    <3> QED BY <1>3, <1>6, <2>2, <3>1, Zenon
  <2>4. Ordered'
    <3>0. Ordered
      BY DEF PipeInv
    <3>1. /\ \A k \in 1..Len(writes') : writes'[k] = written' - Len(writes') + k
          /\ Len(writes') <= written'
      BY <1>4, <2>1, <3>0, Zenon DEF Ordered
    <3>2. \A j \in P!Read : P!Outcome(j)'[1] = "data" =>
            P!Outcome(j)'[2] \in 1..(written' - Len(writes'))
      BY <1>4, <2>1, <2>3, <3>0, Zenon DEF Ordered
    <3>3. \A j, l \in P!Read :
            P!Outcome(j)'[1] = "data" /\ P!Outcome(l)'[1] = "data" /\ j < l =>
              P!Outcome(j)'[2] < P!Outcome(l)'[2]
      BY <2>3, <3>0, Zenon DEF Ordered
    <3>4. \A k \in 1..Len(reads') : (k \in 1..Len(reads) /\ reads'[k] = reads[k]) \/ reads'[k] = i
      <4>1. CASE UNCHANGED reads
        BY <4>1, Zenon
      <4>2. CASE reads' = Append(reads, i)
        <5>1. i \in Nat
          BY <1>3, PipeNumbers
        <5>2. /\ Len(reads') = Len(reads) + 1 /\ reads'[Len(reads) + 1] = i
              /\ \A k \in 1..Len(reads) : reads'[k] = reads[k]
          <6>1. reads \in Seq(Nat)
            BY PipeNumbers, Zenon
          <6> QED BY <4>2, <5>1, <6>1, AppendFacts
        <5>3. Len(reads) \in Nat
          BY PipeNumbers, Zenon
        <5>4. \A k \in 1..Len(reads') : k \in 1..Len(reads) \/ k = Len(reads) + 1
          BY <5>2, <5>3
        <5> QED BY <5>2, <5>4, Zenon
      <4> QED BY <2>1, <4>1, <4>2, Zenon
    <3>5. \A j \in P!Read : P!Outcome(j)'[1] = "data" =>
            \A k \in 1..Len(reads') : j < reads'[k]
      BY <2>3, <3>0, <3>4, Zenon DEF Ordered
    <3> QED BY <3>1, <3>2, <3>3, <3>5, Zenon DEF Ordered
  <2>5. EndsLast'
    <3> SUFFICES ASSUME NEW j \in P!Read, P!Outcome(j)'[1] \in {"eof", "failed"}
                 PROVE  /\ writes' = <<>> /\ writeEnd' # "OPEN"
                        /\ \A l \in P!Read : P!Outcome(l)'[1] = "data" => l < j
      BY Zenon DEF EndsLast
    <3>1. CASE j = i
      BY <1>3, <1>4, <2>1, <2>2, <2>3, <3>1, Zenon
    <3>2. CASE j # i
      BY <1>3, <1>4, <2>1, <2>3, <3>2, Zenon DEF PipeInv, EndsLast
    <3> QED BY <3>1, <3>2, Zenon
  <2>6. P!NothingLost'
    <3>1. P!NothingLost
      BY DEF PipeInv
    <3> QED BY <1>4, <1>7, <2>1, <3>1, EachPiece, EachPieceNext, Zenon
  <2>7. P!ClosureSaysWho'
    <3>1. P!ClosureSaysWho
      BY DEF PipeInv
    <3> QED BY <1>3, <1>4, <2>2, <3>1, Zenon DEF P!ClosureSaysWho
  <2> QED BY <2>4, <2>5, <2>6, <2>7, Zenon DEF Kept
<1> QED BY <1>9, <1>10, Zenon

\* The elements of a sequence that grew.
LEMMA RangeAppend ==
  ASSUME NEW S, NEW s \in Seq(S), NEW e \in S
  PROVE  P!Range(Append(s, e)) = P!Range(s) \cup {e}
<1>1. PICK t : t = Append(s, e)
  OBVIOUS
<1>2. /\ t \in Seq(S) /\ Len(t) = Len(s) + 1 /\ t[Len(s) + 1] = e
      /\ \A k \in 1..Len(s) : t[k] = s[k]
  BY <1>1, AppendFacts
<1>3. Len(s) \in Nat /\ P!Range(s) = {s[k] : k \in 1..Len(s)}
  BY RangeFacts
<1>4. P!Range(t) = {t[k] : k \in 1..Len(t)}
  BY <1>2, RangeFacts
<1>5. /\ \A k \in 1..Len(t) : k \in 1..Len(s) \/ k = Len(s) + 1
      /\ \A k \in 1..Len(s) : k \in 1..Len(t)
      /\ Len(s) + 1 \in 1..Len(t)
  BY <1>2, <1>3
<1>6. ASSUME NEW x PROVE x \in P!Range(t) <=> x \in P!Range(s) \cup {e}
  <2>1. ASSUME x \in P!Range(t) PROVE x \in P!Range(s) \cup {e}
    <3>1. PICK k \in 1..Len(t) : x = t[k]
      BY <1>4, <2>1, Zenon
    <3> QED BY <1>2, <1>3, <1>5, <3>1, Zenon
  <2>2. ASSUME x \in P!Range(s) PROVE x \in P!Range(t)
    <3>1. PICK k \in 1..Len(s) : x = s[k]
      BY <1>3, <2>2, Zenon
    <3> QED BY <1>2, <1>4, <1>5, <3>1, Zenon
  <2>3. e \in P!Range(t)
    BY <1>2, <1>4, <1>5, Zenon
  <2> QED BY <2>1, <2>2, <2>3, Zenon
<1> QED BY <1>1, <1>6, Zenon

\* Writer::write.
LEMMA WriteKeeps ==
  ASSUME MaxReads \in Nat, PipeInv, P!Write
  PROVE  Kept'
<1>1. PICK n : n = written + 1
  OBVIOUS
<1>2. /\ written' = n /\ readEnd = "OPEN" /\ writeEnd = "OPEN"
      /\ UNCHANGED <<readEnd, writeEnd, readerClosure, result, issued, lost>>
  BY <1>1, Zenon DEF P!Write
<1>3. /\ n \in Nat /\ \A m \in 1..written : m \in 1..n /\ m < n
      /\ \A m \in 1..n : m \in 1..written \/ m = n
      /\ n \in 1..n
  BY <1>1, PipeNumbers
<1>4. \A i \in P!Read : P!Outcome(i)[1] \notin {"eof", "failed"}
  BY <1>2, Zenon DEF PipeInv, EndsLast
<1>5. P!NothingLost /\ Ordered
  BY DEF PipeInv
<1>6. ASSUME \A i \in P!Read : P!Outcome(i)'[1] \notin {"eof", "failed"}
      PROVE  EndsLast' /\ P!ClosureSaysWho'
  <2>1. readerClosure # "set"
    BY <1>2 DEF PipeInv, P!ClosureSaysWho
  <2> QED BY <1>2, <1>6, <2>1, Zenon DEF EndsLast, P!ClosureSaysWho
<1>7. CASE reads = <<>>
  <2>1. writes' = Append(writes, n) /\ UNCHANGED <<reads, setting>>
    BY <1>2, <1>7, Zenon DEF P!Write
  <2>2. \A i \in P!Read : P!Outcome(i)' = P!Outcome(i)
    BY <1>2, <2>1, UnchangedOutcome, Zenon DEF PipeInv, Placed
  <2>3. /\ Len(writes') = Len(writes) + 1 /\ writes'[Len(writes) + 1] = n
        /\ \A k \in 1..Len(writes) : writes'[k] = writes[k]
    <3>1. writes \in Seq(Nat)
      BY PipeNumbers, Zenon
    <3>2. n \in Nat
      BY <1>3, Zenon
    <3>3. /\ Len(Append(writes, n)) = Len(writes) + 1
          /\ Append(writes, n)[Len(writes) + 1] = n
          /\ \A k \in 1..Len(writes) : Append(writes, n)[k] = writes[k]
      BY <3>1, <3>2
    <3> QED BY <2>1, <3>3, Zenon
  <2>4. P!Range(writes') = P!Range(writes) \cup {n}
    <3>1. writes \in Seq(Nat)
      BY PipeNumbers, Zenon
    <3>2. PICK s : s = writes
      OBVIOUS
    <3>3. s \in Seq(Nat) /\ n \in Nat
      BY <1>3, <3>1, <3>2, Zenon
    <3>4. P!Range(Append(s, n)) = P!Range(s) \cup {n}
      BY <3>3, RangeAppend
    <3> QED BY <2>1, <3>2, <3>4, Zenon
  <2>5. Ordered'
    <3>0. /\ Len(writes') <= written' /\ written' - Len(writes') = written - Len(writes)
          /\ n = written - Len(writes) + (Len(writes) + 1)
          /\ \A k \in 1..Len(writes') : k \in 1..Len(writes) \/ k = Len(writes) + 1
      BY <1>1, <1>2, <2>3, PipeNumbers
    <3>1. /\ \A k \in 1..Len(writes') : writes'[k] = written' - Len(writes') + k
          /\ Len(writes') <= written' /\ written' - Len(writes') = written - Len(writes)
      BY <2>3, <3>0, PipeNumbers, Zenon
    <3>2. \A i \in P!Read : P!Outcome(i)'[1] = "data" =>
            /\ P!Outcome(i)'[2] \in 1..(written' - Len(writes'))
            /\ \A k \in 1..Len(reads') : i < reads'[k]
      BY <1>5, <2>1, <2>2, <3>1, Zenon DEF Ordered
    <3>3. \A i, j \in P!Read :
            P!Outcome(i)'[1] = "data" /\ P!Outcome(j)'[1] = "data" /\ i < j =>
              P!Outcome(i)'[2] < P!Outcome(j)'[2]
      BY <1>5, <2>2, Zenon DEF Ordered
    <3> QED BY <3>1, <3>2, <3>3, Zenon DEF Ordered
  <2>6. P!NothingLost'
    BY <1>2, <1>3, <1>5, <2>2, <2>4, EachPiece, EachPieceNext, Zenon
  <2> QED BY <1>4, <1>6, <2>2, <2>5, <2>6, Zenon DEF Kept
<1>8. CASE reads # <<>>
  <2>1. PICK first : first = reads[1]
    OBVIOUS
  <2>2. /\ \A i : i # first => P!Outcome(i)' = P!Outcome(i)
        /\ \A i : i = first => P!Outcome(i)' = P!Data(n)
    BY <1>2, <1>8, <2>1, WriteGives, Zenon
  <2>3. reads' = Tail(reads) /\ UNCHANGED writes
    BY <1>8, Zenon DEF P!Write
  <2>4. writes = <<>> /\ Len(writes) = 0 /\ Len(writes') = 0
    BY <1>8, <2>3 DEF PipeInv, P!ReadsWait
  <2>5. /\ Len(reads') = Len(reads) - 1 /\ 1 \in 1..Len(reads)
        /\ \A k \in 1..Len(reads') : reads'[k] = reads[k + 1] /\ k + 1 \in 1..Len(reads)
    BY <1>8, <2>3, PipeNumbers, TailFacts, Zenon
  <2>6. \A k \in 1..Len(reads') : first < reads'[k]
    <3>1. \A k \in 1..Len(reads') : 1 < k + 1
      BY <2>5, PipeNumbers
    <3> QED BY <2>1, <2>5, <3>1, Zenon DEF PipeInv, Placed
  <2>7. first \in P!Read /\ P!Outcome(first) = P!Is("pending") /\ first \in Nat
    <3>1. first \in P!Range(reads)
      BY <1>8, <2>1, PipeNumbers, RangeTail, Zenon
    <3>2. first \in 1..issued /\ P!Outcome(first) = P!Is("pending")
      BY <3>1, QueuedNotDue, Zenon
    <3> QED BY <3>2 DEF PipeInv, PipeTypes, P!Read
  <2>8. \A i \in P!Read : P!Outcome(i)'[1] = "data" /\ i # first =>
          /\ P!Outcome(i)' = P!Outcome(i) /\ i < first
          /\ P!Outcome(i)'[2] \in 1..written
          /\ \A k \in 1..Len(reads') : i < reads'[k]
    <3>1. written - Len(writes) = written
      BY <2>4, PipeNumbers
    <3> QED BY <1>5, <2>1, <2>2, <2>5, <3>1, Zenon DEF Ordered
  <2>9. P!Data(n)[1] = "data" /\ P!Data(n)[2] = n
    BY AnswerParts, Zenon
  <2>10. Ordered'
    <3>1. /\ \A k \in 1..Len(writes') : writes'[k] = written' - Len(writes') + k
          /\ Len(writes') <= written' /\ written' - Len(writes') = n
      BY <1>2, <1>3, <2>4
    <3>2. \A i \in P!Read : P!Outcome(i)'[1] = "data" =>
            /\ P!Outcome(i)'[2] \in 1..(written' - Len(writes'))
            /\ \A k \in 1..Len(reads') : i < reads'[k]
      BY <1>3, <2>2, <2>6, <2>8, <2>9, <3>1, Zenon
    <3>3. ASSUME NEW i \in P!Read, NEW j \in P!Read, P!Outcome(i)'[1] = "data",
                 P!Outcome(j)'[1] = "data", i < j
          PROVE  P!Outcome(i)'[2] < P!Outcome(j)'[2]
      <4>1. i # first
        <5>1. i \in Nat /\ j \in Nat /\ ~(i < i) /\ ~(j < i)
          BY <3>3, PipeNumbers
        <5> QED BY <2>8, <3>3, <5>1, Zenon
      <4>2. CASE j = first
        BY <1>3, <2>2, <2>8, <2>9, <3>3, <4>1, <4>2, Zenon
      <4>3. CASE j # first
        BY <1>5, <2>8, <3>3, <4>1, <4>3, Zenon DEF Ordered
      <4> QED BY <4>2, <4>3
    <3> QED BY <3>1, <3>2, <3>3, Zenon DEF Ordered
  <2>11. P!NothingLost'
    <3>1. \A m : \A i \in P!Read : P!Outcome(i) = P!Data(m) => P!Outcome(i)' = P!Data(m)
      <4>1. \A m : P!Data(m) # P!Is("pending")
        BY DEF P!Data, P!Is
      <4> QED BY <2>2, <2>7, <4>1, Zenon
    <3> QED BY <1>2, <1>3, <1>5, <2>2, <2>3, <2>7, <3>1, EachPiece, EachPieceNext, Zenon
  <2>12. \A i \in P!Read : P!Outcome(i)'[1] \notin {"eof", "failed"}
    <3>1. P!Data(n)[1] \notin {"eof", "failed"}
      BY <2>9
    <3> QED BY <1>4, <2>2, <3>1, Zenon
  <2> QED BY <1>6, <2>10, <2>11, <2>12, Zenon DEF Kept
<1> QED BY <1>7, <1>8, Zenon

-----------------------------------------------------------------------------
\* Every operation preserves the invariant ...
LEMMA PipeStep ==
  ASSUME MaxReads \in Nat, MaxWrites \in Nat, PipeInv, [P!Next]_P!vars
  PROVE  PipeInv'
<1>1. Kept'
  <2>1. ASSUME P!CloseWriter("CLOSED", "eof") \/ P!CloseWriter("FAILED", "failed")
        PROVE  Kept'
    <3>1. "CLOSED" # "OPEN" /\ "FAILED" # "OPEN"
      OBVIOUS
    <3> QED BY <2>1, <3>1, CloseWriterKeeps, Zenon
  <2>2. CASE UNCHANGED P!vars
    <3>1. \A i \in P!Read : P!Outcome(i)' = P!Outcome(i)
      BY <2>2, UnchangedOutcome, Zenon DEF P!vars, PipeInv, Placed
    <3>2. Kept
      BY Zenon DEF PipeInv, Kept
    <3>3. Ordered' /\ EndsLast' /\ P!ClosureSaysWho'
      <4>1. Ordered'
        <5>1. UNCHANGED <<reads, writes, written>> /\ Ordered
          BY <2>2, <3>2, Zenon DEF P!vars, Kept
        <5>2. ASSUME NEW i \in P!Read, P!Outcome(i)'[1] = "data"
              PROVE  /\ P!Outcome(i)'[2] \in 1..(written - Len(writes))
                     /\ \A k \in 1..Len(reads) : i < reads[k]
                     /\ \A j \in P!Read : P!Outcome(j)'[1] = "data" /\ i < j =>
                          P!Outcome(i)'[2] < P!Outcome(j)'[2]
          BY <3>1, <5>1, <5>2, Zenon DEF Ordered
        <5> QED BY <5>1, <5>2, Zenon DEF Ordered
      <4>2. EndsLast'
        BY <2>2, <3>1, <3>2, Zenon DEF P!vars, Kept, EndsLast
      <4>3. P!ClosureSaysWho'
        <5>1. P!ClosureSaysWho /\ UNCHANGED <<readEnd, writeEnd, readerClosure>>
          BY <2>2, <3>2, Zenon DEF P!vars, Kept
        <5> QED BY <3>1, <5>1, Zenon DEF P!ClosureSaysWho
      <4> QED BY <4>1, <4>2, <4>3, Zenon
    <3>4. P!NothingLost'
      BY <2>2, <3>1, <3>2, EachPiece, EachPieceNext, Zenon DEF P!vars, Kept
    <3> QED BY <3>3, <3>4, Zenon DEF Kept
  <2>3. DOMAIN setting = {"reader", "writer"}
    BY DEF PipeInv, PipeTypes
  <2> QED BY <2>1, <2>2, <2>3, ReadKeeps, WriteKeeps, CloseReaderKeeps, PromiseKeeps, Zenon
        DEF P!Next, P!Promises
<1> QED BY <1>1, TypesStep, PlacedStep, ReadsStep, Zenon DEF PipeInv, Kept

\* ... which says that the pipe is safe.
LEMMA PipeIsSafe == ASSUME MaxReads \in Nat, PipeInv PROVE P!Safe
<1>1. \A i, j \in P!Read : i < j => ~(j < i)
  BY PipeNumbers
<1>2. P!DataInOrder
  BY <1>1, Zenon DEF PipeInv, Ordered, EndsLast, P!DataInOrder
<1> QED BY <1>2, Zenon DEF PipeInv, P!Safe

(***************************************************************************)
(* Reader::read, Reader::close, Writer::write, Writer::close, Writer::fail: *)
(* reads give the data in the order it was written, each piece once and    *)
(* none lost, the end of file or the failure last, and a read waits only   *)
(* while both ends are open, whoever closes first and however the setting  *)
(* of promises after the critical sections interleaves.                    *)
(***************************************************************************)
THEOREM PipeAlwaysSafe ==
  ASSUME MaxReads \in Nat, MaxWrites \in Nat
  PROVE  P!Spec => []PipeSafe
<1>1. P!Init => PipeInv
  BY PipeInit
<1>2. PipeInv /\ [P!Next]_P!vars => PipeInv'
  BY PipeStep
<1>3. PipeInv => PipeSafe
  BY PipeIsSafe, Zenon DEF PipeSafe
<1> QED BY <1>1, <1>2, <1>3, PTL DEF P!Spec
=============================================================================

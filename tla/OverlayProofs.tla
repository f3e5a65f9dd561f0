--------------------------- MODULE OverlayProofs ---------------------------
(***************************************************************************)
(* The list of Peers and the flood records are right for any number of     *)
(* connections, any limits and any bounds (Overlay).                       *)
(*                                                                         *)
(* Most handlers touch the two ends of one connection and leave the lists  *)
(* alone.  What is so of two ends of a connection (EndOK) is stated about  *)
(* the two records, so that the proofs go end by end: what drop, a read    *)
(* and a send do to a pair of ends, then each handler as a combination of  *)
(* them.                                                                   *)
(***************************************************************************)
EXTENDS Overlay, NumberProofs

-----------------------------------------------------------------------------
(* The inductive invariant.                                                *)

Has(wire, m) == \E i \in DOMAIN wire : wire[i] = m
\* The messages that recvMessage drops the Peer for before HELLO.
Late(m) == m \notin {"HELLO", "PEERS", "EOF"}
\* The end a may still come to read its wire without having read a HELLO.
Unheard(a) == a.state \in {"none", "CONNECTING", "CONNECTED"} \/ a.dial
\* Such messages are behind a HELLO, or the fetcher asked early.
HelloFirst(wire, early) ==
    \A i \in DOMAIN wire : Late(wire[i]) => early \/ \E j \in DOMAIN wire : j < i /\ wire[j] = "HELLO"

\* What is so of the end a at n of a connection d called and of the end b at
\* the other node.
EndOK(n, d, a, b) ==
    /\ a.state = "none" => a.open /\ ~a.posted /\ ~a.dial /\ ~a.port /\ a.sent = 0
                           /\ ~a.took /\ ~a.early
    /\ d = "none" => a = NoEnd
    /\ d = n => a.state # "none"
    /\ a.dial => d = n /\ a.state \in {"CONNECTING", "CLOSING"}
    /\ d # n => a.state # "CONNECTING" /\ (a.posted \/ ~a.open => a.state = "CLOSING")
    /\ d = n /\ Has(a.wire, "HELLO") => b.state \in {"GOT_HELLO", "CLOSING"}
    /\ Unheard(a) => HelloFirst(a.wire, b.early)
    /\ Unheard(a) /\ b.state = "GOT_HELLO" /\ a.open /\ b.open => Has(a.wire, "HELLO")

EndsOK == \A c \in Conn, n \in Nodes : EndOK(n, dialer[c], e[c][n], e[c][Other(n)])

\* What was sent or taken over a connection is in the flood record.
ToldInv ==
    \A c \in Conn, n \in Nodes :
        /\ e[c][n].sent > 0 \/ e[c][n].took => c \in told[n] /\ n \in has
        /\ e[c][n].sent + (IF e[c][n].took THEN 1 ELSE 0) <= 1

IInv == TypeOK /\ EndsOK /\ OpenIsListed /\ AcceptBound /\ ToldInv

-----------------------------------------------------------------------------
(* Nodes and ends.                                                         *)

\* There are two nodes.
LEMMA OtherFacts ==
    ASSUME NEW n \in Nodes
    PROVE  /\ Other(n) \in Nodes /\ Other(n) # n /\ Other(Other(n)) = n
           /\ \A m \in Nodes : m = n \/ m = Other(n)
           /\ n # "none" /\ Other(n) # "none"
<1>1. IsFiniteSet(Nodes) /\ Cardinality(Nodes) = 2 /\ "none" \notin Nodes
  BY OverlayAssumption
<1>2. IsFiniteSet(Nodes \ {n}) /\ Cardinality(Nodes \ {n}) = 1
  BY <1>1, FS_RemoveElement
<1>3. PICK o : Nodes \ {n} = {o}
  BY <1>2, FS_Singleton
<1>4. o \in Nodes /\ o # n /\ \A m \in Nodes : m = n \/ m = o
  BY <1>3
<1>5. Other(n) = o
  BY <1>4 DEF Other
<1>6. Other(o) = n
  BY <1>4 DEF Other
<1> QED
  BY <1>1, <1>4, <1>5, <1>6

\* The numbers of connections are not the marks of nothing.
LEMMA ConnFacts ==
    Conn \in SUBSET Nat /\ 0 \notin Conn /\ NoConn \notin Conn /\ NoRecord \notin SUBSET Conn
BY OverlayAssumption DEF Conn, NoConn, NoRecord

Ends == [Conn -> [Nodes -> End]]

\* What is so of both ends.
PairOK(n, d, a, b) == EndOK(n, d, a, b) /\ EndOK(Other(n), d, b, a)

\* The end a of n becomes x: it does not come, open or close, and no caller is
\* accepted.
Quiet(n, d, a, x) ==
    /\ x \in End
    /\ x.state = "none" <=> a.state = "none"
    /\ x.open = a.open
    /\ d # n /\ x.state = "GOT_HELLO" => a.state = "GOT_HELLO"

\* The flood record has nothing to say of it.
SameFlood(a, x) == x.sent = a.sent /\ x.took = a.took

Dropped(a) == IF a.state = "CLOSING" THEN a ELSE [a EXCEPT !.state = "CLOSING", !.posted = TRUE]
Taken(a) == [a EXCEPT !.wire = Tail(@)]
Sent(a, b, msgs) == IF a.open /\ b.open THEN [b EXCEPT !.wire = @ \o msgs] ELSE b

\* The fields of an end.
LEMMA EndFields ==
    ASSUME NEW a \in End
    PROVE  /\ a.state \in {"none", "CONNECTING", "CONNECTED", "GOT_HELLO", "CLOSING"}
           /\ a.port \in BOOLEAN /\ a.dial \in BOOLEAN /\ a.open \in BOOLEAN
           /\ a.posted \in BOOLEAN /\ a.wire \in Seq(Message) /\ a.sent \in 0 .. 2
           /\ a.took \in BOOLEAN /\ a.early \in BOOLEAN
BY DEF End

\* What drop() does to a Peer object.
LEMMA DroppedFields ==
    ASSUME NEW a \in End
    PROVE  /\ Dropped(a) \in End
           /\ Dropped(a).state = "CLOSING" /\ Dropped(a).port = a.port
           /\ Dropped(a).dial = a.dial /\ Dropped(a).open = a.open
           /\ Dropped(a).posted = (a.posted \/ a.state # "CLOSING")
           /\ Dropped(a).wire = a.wire /\ Dropped(a).sent = a.sent
           /\ Dropped(a).took = a.took /\ Dropped(a).early = a.early
<1>1. CASE a.state = "CLOSING"
  <2>1. Dropped(a) = a
    BY <1>1 DEF Dropped
  <2> QED
    BY <1>1, <2>1 DEF End
<1>2. CASE a.state # "CLOSING"
  <2>1. Dropped(a) = [a EXCEPT !.state = "CLOSING", !.posted = TRUE]
    BY <1>2 DEF Dropped
  <2> QED
    BY <1>2, <2>1 DEF End
<1> QED
  BY <1>1, <1>2

\* A message is taken off the wire.
LEMMA TakenFields ==
    ASSUME NEW a \in End, a.wire # <<>>
    PROVE  /\ Taken(a) \in End
           /\ Taken(a).state = a.state /\ Taken(a).port = a.port
           /\ Taken(a).dial = a.dial /\ Taken(a).open = a.open
           /\ Taken(a).posted = a.posted
           /\ Taken(a).wire = Tail(a.wire) /\ Taken(a).sent = a.sent
           /\ Taken(a).took = a.took /\ Taken(a).early = a.early
<1>1. Tail(a.wire) \in Seq(Message)
  BY DEF End
<1> QED
  BY <1>1 DEF End, Taken

\* Messages are put on the wire.
LEMMA SentFields ==
    ASSUME NEW a \in End, NEW b \in End, NEW msgs \in Seq(Message)
    PROVE  /\ Sent(a, b, msgs) \in End
           /\ Sent(a, b, msgs).state = b.state /\ Sent(a, b, msgs).port = b.port
           /\ Sent(a, b, msgs).dial = b.dial /\ Sent(a, b, msgs).open = b.open
           /\ Sent(a, b, msgs).posted = b.posted
           /\ Sent(a, b, msgs).wire = (IF a.open /\ b.open THEN b.wire \o msgs ELSE b.wire)
           /\ Sent(a, b, msgs).sent = b.sent
           /\ Sent(a, b, msgs).took = b.took /\ Sent(a, b, msgs).early = b.early
<1>1. b.wire \o msgs \in Seq(Message)
  BY DEF End
<1>2. CASE a.open /\ b.open
  <2>1. Sent(a, b, msgs) = [b EXCEPT !.wire = b.wire \o msgs]
    BY <1>2 DEF Sent
  <2> QED
    BY <1>1, <1>2, <2>1 DEF End
<1>3. CASE ~(a.open /\ b.open)
  <2>1. Sent(a, b, msgs) = b
    BY <1>3 DEF Sent
  <2> QED
    BY <1>3, <2>1 DEF End
<1> QED
  BY <1>2, <1>3

\* A message is taken off a wire.
LEMMA WireTail ==
    ASSUME NEW w \in Seq(Message), w # <<>>
    PROVE  /\ Head(w) \in Message /\ Has(w, Head(w))
           /\ \A m : Has(Tail(w), m) => Has(w, m)
           /\ \A m : Has(w, m) /\ m # Head(w) => Has(Tail(w), m)
           /\ \A x \in BOOLEAN : HelloFirst(w, x) /\ Head(w) # "HELLO" => HelloFirst(Tail(w), x)
           /\ \A x \in BOOLEAN : HelloFirst(w, x) /\ Late(Head(w)) => x
<1> DEFINE t == Tail(w)
<1>1. /\ Len(w) \in Nat /\ Len(w) > 0 /\ DOMAIN w = 1 .. Len(w)
      /\ DOMAIN t = 1 .. Len(w) - 1 /\ \A i \in 1 .. Len(w) - 1 : t[i] = w[i + 1]
      /\ Head(w) = w[1] /\ 1 \in DOMAIN w /\ w[1] \in Message
  OBVIOUS
<1>2. \A i \in DOMAIN t : i + 1 \in DOMAIN w /\ t[i] = w[i + 1] /\ i \in Nat
  BY <1>1
<1>3. \A i \in DOMAIN w : i # 1 => i - 1 \in DOMAIN t /\ t[i - 1] = w[i] /\ i \in Nat
  BY <1>1
<1> HIDE DEF t
<1>4. \A m : Has(t, m) => Has(w, m)
  BY <1>2 DEF Has
<1>5. \A m : Has(w, m) /\ m # Head(w) => Has(t, m)
  BY <1>1, <1>3 DEF Has
<1>6. ASSUME NEW x \in BOOLEAN, HelloFirst(w, x), Head(w) # "HELLO"
      PROVE  HelloFirst(t, x)
  <2> SUFFICES ASSUME NEW i \in DOMAIN t, Late(t[i]), ~x
               PROVE  \E j \in DOMAIN t : j < i /\ t[j] = "HELLO"
    BY DEF HelloFirst
  <2>1. PICK j \in DOMAIN w : j < i + 1 /\ w[j] = "HELLO"
    BY <1>2, <1>6 DEF HelloFirst
  <2>2. j # 1
    BY <1>1, <1>6, <2>1
  <2>3. j - 1 \in DOMAIN t /\ t[j - 1] = "HELLO" /\ j \in Nat /\ i \in Nat
    BY <1>2, <1>3, <2>1, <2>2
  <2>4. j - 1 < i
    BY <2>1, <2>3
  <2> QED
    BY <2>3, <2>4
<1>7. ASSUME NEW x \in BOOLEAN, HelloFirst(w, x), Late(Head(w)) PROVE x
  <2>1. \A j \in DOMAIN w : ~(j < 1)
    BY <1>1
  <2> QED
    BY <1>1, <1>7, <2>1 DEF HelloFirst
<1>8. Has(w, Head(w))
  BY <1>1 DEF Has
<1> QED
  BY <1>1, <1>4, <1>5, <1>6, <1>7, <1>8 DEF t

\* Messages are put behind those of a wire.
LEMMA WireAppend ==
    ASSUME NEW w \in Seq(Message), NEW msgs \in Seq(Message)
    PROVE  /\ \A m : Has(w \o msgs, m) <=> Has(w, m) \/ Has(msgs, m)
           /\ \A x \in BOOLEAN : HelloFirst(w, x) /\ (x \/ Has(w, "HELLO") \/ HelloFirst(msgs, FALSE))
                                 => HelloFirst(w \o msgs, x)
<1> DEFINE v == w \o msgs
           k == Len(w)
<1>1. /\ k \in Nat /\ Len(msgs) \in Nat /\ DOMAIN w = 1 .. k /\ DOMAIN msgs = 1 .. Len(msgs)
      /\ DOMAIN v = 1 .. k + Len(msgs)
      /\ \A i \in 1 .. k : v[i] = w[i]
      /\ \A i \in 1 .. Len(msgs) : v[k + i] = msgs[i]
  OBVIOUS
<1> HIDE DEF v, k
<1>2. \A i \in DOMAIN w : i \in DOMAIN v /\ v[i] = w[i] /\ i \in Nat /\ i <= k
  BY <1>1
<1>3. \A i \in DOMAIN msgs : k + i \in DOMAIN v /\ v[k + i] = msgs[i] /\ i \in Nat /\ i > 0
  BY <1>1
<1>4. \A i \in DOMAIN v : /\ i \in Nat
                          /\ \/ i \in DOMAIN w /\ v[i] = w[i]
                             \/ i > k /\ i - k \in DOMAIN msgs /\ v[i] = msgs[i - k]
  <2> TAKE i \in DOMAIN v
  <2>1. CASE i <= k
    BY <1>1, <2>1
  <2>2. CASE ~(i <= k)
    <3>1. i \in Nat /\ i - k \in 1 .. Len(msgs) /\ i = k + (i - k)
      BY <1>1, <2>2
    <3>2. v[k + (i - k)] = msgs[i - k]
      BY <1>1, <3>1
    <3> QED
      BY <1>1, <2>2, <3>1, <3>2
  <2> QED
    BY <2>1, <2>2
<1>5. \A m : Has(v, m) <=> Has(w, m) \/ Has(msgs, m)
  BY <1>2, <1>3, <1>4 DEF Has
<1>6. ASSUME NEW x \in BOOLEAN, HelloFirst(w, x), x \/ Has(w, "HELLO") \/ HelloFirst(msgs, FALSE)
      PROVE  HelloFirst(v, x)
  <2> SUFFICES ASSUME NEW i \in DOMAIN v, Late(v[i]), ~x
               PROVE  \E j \in DOMAIN v : j < i /\ v[j] = "HELLO"
    BY DEF HelloFirst
  <2>1. CASE i \in DOMAIN w /\ v[i] = w[i]
    <3>1. PICK j \in DOMAIN w : j < i /\ w[j] = "HELLO"
      BY <1>6, <2>1 DEF HelloFirst
    <3> QED
      BY <1>2, <3>1
  <2>2. CASE i > k /\ i - k \in DOMAIN msgs /\ v[i] = msgs[i - k]
    <3>1. CASE Has(w, "HELLO")
      <4>1. PICK j \in DOMAIN w : w[j] = "HELLO"
        BY <3>1 DEF Has
      <4>2. j \in DOMAIN v /\ v[j] = "HELLO" /\ j <= k /\ j \in Nat /\ i \in Nat
        BY <1>2, <1>4, <4>1
      <4> QED
        BY <1>1, <2>2, <4>2
    <3>2. CASE HelloFirst(msgs, FALSE)
      <4>1. PICK j \in DOMAIN msgs : j < i - k /\ msgs[j] = "HELLO"
        BY <2>2, <3>2 DEF HelloFirst
      <4>2. k + j \in DOMAIN v /\ v[k + j] = "HELLO" /\ j \in Nat /\ i \in Nat
        BY <1>3, <1>4, <4>1
      <4> QED
        BY <1>1, <4>1, <4>2
    <3> QED
      BY <1>6, <3>1, <3>2
  <2> QED
    BY <1>4, <2>1, <2>2
<1> QED
  BY <1>5, <1>6 DEF v

\* Short messages.
LEMMA ShortWires ==
    /\ \A m \in Message : <<m>> \in Seq(Message) /\ \A x : Has(<<m>>, x) <=> x = m
    /\ <<"HELLO", "PEERS">> \in Seq(Message)
    /\ \A x : Has(<<"HELLO", "PEERS">>, x) <=> x \in {"HELLO", "PEERS"}
    /\ \A m \in Message : ~Late(m) => HelloFirst(<<m>>, FALSE)
    /\ HelloFirst(<<"HELLO", "PEERS">>, FALSE)
    /\ <<>> \in Seq(Message) /\ \A x : ~Has(<<>>, x)
    /\ HelloFirst(<<>>, FALSE)
    /\ \A w : HelloFirst(w, FALSE) => HelloFirst(w, TRUE)
<1>1. \A m \in Message : <<m>> \in Seq(Message) /\ DOMAIN <<m>> = {1} /\ <<m>>[1] = m
  OBVIOUS
<1>2. /\ <<"HELLO", "PEERS">> \in Seq(Message) /\ DOMAIN <<"HELLO", "PEERS">> = 1 .. 2
      /\ <<"HELLO", "PEERS">>[1] = "HELLO" /\ <<"HELLO", "PEERS">>[2] = "PEERS"
  BY DEF Message
<1>3. \A i \in 1 .. 2 : i = 1 \/ i = 2
  OBVIOUS
<1>4. \A x : Has(<<"HELLO", "PEERS">>, x) <=> x \in {"HELLO", "PEERS"}
  BY <1>2, <1>3 DEF Has
<1>5. HelloFirst(<<"HELLO", "PEERS">>, FALSE)
  BY <1>2, <1>3 DEF HelloFirst, Late
<1>6. \A m \in Message : /\ \A x : Has(<<m>>, x) <=> x = m
                         /\ ~Late(m) => HelloFirst(<<m>>, FALSE)
  BY <1>1 DEF Has, HelloFirst
<1>7. <<>> \in Seq(Message) /\ DOMAIN <<>> = {}
  OBVIOUS
<1> QED
  BY <1>1, <1>2, <1>4, <1>5, <1>6, <1>7 DEF Has, HelloFirst

-----------------------------------------------------------------------------
(* What happens to the two ends of a connection.                           *)

\* A connection one of whose ends exists was called by one of the nodes.
LEMMA PairCalled ==
    ASSUME NEW n \in Nodes, NEW d, NEW a \in End, NEW b \in End, PairOK(n, d, a, b),
           a.state # "none"
    PROVE  d # "none"
<1>1. NoEnd.state = "none"
  BY DEF NoEnd
<1> QED
  BY <1>1 DEF PairOK, EndOK

\* What the pair asks for does not depend on port, sent and took, and early only
\* excuses.
LEMMA PairSame ==
    ASSUME NEW n \in Nodes, NEW d, NEW a \in End, NEW b \in End, PairOK(n, d, a, b),
           a.state # "none", NEW x \in End,
           x.state = a.state, x.dial = a.dial, x.open = a.open, x.posted = a.posted,
           x.wire = a.wire, a.early => x.early
    PROVE  PairOK(n, d, x, b) /\ Quiet(n, d, a, x)
<1>1. d # "none"
  BY PairCalled
<1>2. Unheard(x) = Unheard(a)
  BY DEF Unheard
<1>3. HelloFirst(b.wire, a.early) => HelloFirst(b.wire, x.early)
  BY DEF HelloFirst
<1> QED
  BY <1>1, <1>2, <1>3 DEF PairOK, EndOK, Quiet

\* drop().
LEMMA PairDrop ==
    ASSUME NEW n \in Nodes, NEW d, NEW a \in End, NEW b \in End, PairOK(n, d, a, b),
           a.state # "none"
    PROVE  /\ PairOK(n, d, Dropped(a), b) /\ Quiet(n, d, a, Dropped(a))
           /\ SameFlood(a, Dropped(a))
<1> DEFINE x == Dropped(a)
<1>1. d # "none"
  BY PairCalled
<1>2. /\ x \in End
      /\ x.state = "CLOSING" /\ x.port = a.port /\ x.dial = a.dial /\ x.open = a.open
      /\ x.wire = a.wire /\ x.sent = a.sent /\ x.took = a.took /\ x.early = a.early
  BY DroppedFields
<1> HIDE DEF x
<1>3. Unheard(x) => Unheard(a)
  BY <1>2 DEF Unheard
<1>4. EndOK(n, d, x, b)
  BY <1>1, <1>2, <1>3 DEF PairOK, EndOK
<1>5. EndOK(Other(n), d, b, x)
  BY <1>1, <1>2 DEF PairOK, EndOK
<1> QED
  BY <1>2, <1>4, <1>5 DEF PairOK, Quiet, SameFlood, x

\* A message that is not HELLO is read.
LEMMA PairTake ==
    ASSUME NEW n \in Nodes, NEW d, NEW a \in End, NEW b \in End, PairOK(n, d, a, b),
           a.state # "none", a.wire # <<>>, Head(a.wire) # "HELLO"
    PROVE  /\ PairOK(n, d, Taken(a), b) /\ Quiet(n, d, a, Taken(a))
           /\ SameFlood(a, Taken(a))
<1> DEFINE x == Taken(a)
<1>1. d # "none"
  BY PairCalled
<1>2. /\ x \in End
      /\ x.state = a.state /\ x.port = a.port /\ x.dial = a.dial /\ x.open = a.open
      /\ x.posted = a.posted /\ x.wire = Tail(a.wire) /\ x.sent = a.sent
      /\ x.took = a.took /\ x.early = a.early
  BY TakenFields
<1> HIDE DEF x
<1>3. Unheard(x) = Unheard(a) /\ a.wire \in Seq(Message) /\ b.early \in BOOLEAN
  BY <1>2, EndFields DEF Unheard
<1>4. /\ Has(x.wire, "HELLO") <=> Has(a.wire, "HELLO")
      /\ HelloFirst(a.wire, b.early) => HelloFirst(x.wire, b.early)
  BY <1>2, <1>3, WireTail
<1>5. EndOK(n, d, x, b)
  BY <1>1, <1>2, <1>3, <1>4 DEF PairOK, EndOK
<1>6. EndOK(Other(n), d, b, x)
  BY <1>1, <1>2 DEF PairOK, EndOK
<1> QED
  BY <1>2, <1>5, <1>6 DEF PairOK, Quiet, SameFlood, x

\* Messages are sent from the end a.
LEMMA PairSend ==
    ASSUME NEW n \in Nodes, NEW d, NEW a \in End, NEW b \in End, PairOK(n, d, a, b),
           a.state # "none", NEW msgs \in Seq(Message),
           Has(msgs, "HELLO") => d = n \/ a.state \in {"GOT_HELLO", "CLOSING"},
           a.state = "GOT_HELLO" \/ a.early \/ HelloFirst(msgs, FALSE)
    PROVE  /\ PairOK(n, d, a, Sent(a, b, msgs)) /\ Quiet(Other(n), d, b, Sent(a, b, msgs))
           /\ SameFlood(b, Sent(a, b, msgs))
<1> DEFINE y == Sent(a, b, msgs)
           w == IF a.open /\ b.open THEN b.wire \o msgs ELSE b.wire
<1>1. d # "none" /\ Other(n) # n
  BY PairCalled, OtherFacts
<1>2. /\ y \in End
      /\ y.state = b.state /\ y.port = b.port /\ y.dial = b.dial /\ y.open = b.open
      /\ y.posted = b.posted /\ y.wire = w /\ y.sent = b.sent
      /\ y.took = b.took /\ y.early = b.early
  BY SentFields
<1>3. b.wire \in Seq(Message) /\ a.early \in BOOLEAN
  BY EndFields
<1>4. /\ Has(b.wire, "HELLO") => Has(w, "HELLO")
      /\ Has(w, "HELLO") => Has(b.wire, "HELLO") \/ Has(msgs, "HELLO")
  BY <1>3, WireAppend
<1>5. Unheard(b) => HelloFirst(w, a.early)
  <2> SUFFICES ASSUME Unheard(b), a.open, b.open PROVE HelloFirst(b.wire \o msgs, a.early)
    BY DEF PairOK, EndOK
  <2>1. HelloFirst(b.wire, a.early)
    BY DEF PairOK, EndOK
  <2>2. a.early \/ Has(b.wire, "HELLO") \/ HelloFirst(msgs, FALSE)
    BY DEF PairOK, EndOK
  <2> QED
    BY <1>3, <2>1, <2>2, WireAppend
<1>6. Unheard(y) = Unheard(b)
  BY <1>2 DEF Unheard
<1> HIDE DEF y, w
<1>7. EndOK(Other(n), d, y, a)
  BY <1>1, <1>2, <1>4, <1>5, <1>6 DEF PairOK, EndOK
<1>8. EndOK(n, d, a, y)
  BY <1>1, <1>2 DEF PairOK, EndOK
<1> QED
  BY <1>2, <1>7, <1>8 DEF PairOK, Quiet, SameFlood, y

\* async_connect reports to the caller, whatever drop() did meanwhile.
LEMMA PairDial ==
    ASSUME NEW n \in Nodes, NEW a \in End, NEW b \in End, PairOK(n, n, a, b),
           a.dial, NEW s \in {a.state, "CONNECTED"}, NEW x \in End,
           x = [a EXCEPT !.dial = FALSE, !.state = s]
    PROVE  PairOK(n, n, x, b) /\ Quiet(n, n, a, x) /\ SameFlood(a, x) /\ a.state # "none"
<1>1. /\ x.state = s /\ x.port = a.port /\ x.dial = FALSE /\ x.open = a.open
      /\ x.posted = a.posted /\ x.wire = a.wire /\ x.sent = a.sent
      /\ x.took = a.took /\ x.early = a.early
  BY DEF End
<1>2. n # "none" /\ n # Other(n) /\ a.state \in {"CONNECTING", "CLOSING"}
  BY OtherFacts DEF PairOK, EndOK
<1>3. Unheard(a)
  BY DEF Unheard
<1>4. EndOK(n, n, x, b)
  BY <1>1, <1>2, <1>3 DEF PairOK, EndOK
<1>5. EndOK(Other(n), n, b, x)
  BY <1>1, <1>2 DEF PairOK, EndOK
<1> QED
  BY <1>1, <1>2, <1>4, <1>5 DEF PairOK, Quiet, SameFlood

\* The caller is let in.
LEMMA PairKnock ==
    ASSUME NEW n \in Nodes, NEW a \in End, NEW b \in End, PairOK(n, Other(n), a, b),
           a.state = "none", NEW x \in End, x = [a EXCEPT !.state = "CONNECTED"]
    PROVE  /\ PairOK(n, Other(n), x, b) /\ SameFlood(a, x)
           /\ x.state = "CONNECTED" /\ x.open
<1>1. /\ x.state = "CONNECTED" /\ x.port = a.port /\ x.dial = a.dial /\ x.open = a.open
      /\ x.posted = a.posted /\ x.wire = a.wire /\ x.sent = a.sent
      /\ x.took = a.took /\ x.early = a.early
  BY DEF End
<1>2. Other(n) # "none" /\ n # Other(n) /\ Unheard(a) /\ ~a.dial /\ a.open /\ ~a.posted
  BY OtherFacts DEF PairOK, EndOK, Unheard
<1>3. EndOK(n, Other(n), x, b)
  BY <1>1, <1>2 DEF PairOK, EndOK
<1>4. EndOK(Other(n), Other(n), b, x)
  BY <1>1, <1>2 DEF PairOK, EndOK
<1> QED
  BY <1>1, <1>2, <1>3, <1>4 DEF PairOK, SameFlood

\* The caller reads HELLO: the one it called sent it, and knows the caller.
LEMMA PairHelloBack ==
    ASSUME NEW n \in Nodes, NEW a \in End, NEW b \in End, PairOK(n, n, a, b),
           a.state \in {"CONNECTED", "GOT_HELLO"}, a.wire # <<>>, Head(a.wire) = "HELLO",
           NEW x \in End, x = [Taken(a) EXCEPT !.state = "GOT_HELLO"]
    PROVE  PairOK(n, n, x, b) /\ Quiet(n, n, a, x) /\ SameFlood(a, x)
<1>1. /\ x.state = "GOT_HELLO" /\ x.port = a.port /\ x.dial = a.dial /\ x.open = a.open
      /\ x.posted = a.posted /\ x.wire = Tail(a.wire) /\ x.sent = a.sent
      /\ x.took = a.took /\ x.early = a.early
  BY TakenFields DEF End
<1>2. n # "none" /\ n # Other(n) /\ ~a.dial
  BY OtherFacts DEF PairOK, EndOK
<1>3. Has(a.wire, "HELLO") /\ (Has(Tail(a.wire), "HELLO") => Has(a.wire, "HELLO"))
  BY EndFields, WireTail
<1>4. b.state \in {"GOT_HELLO", "CLOSING"} /\ ~b.dial
  BY <1>2, <1>3 DEF PairOK, EndOK
<1>5. ~Unheard(b) /\ ~Unheard(x)
  BY <1>1, <1>2, <1>4 DEF Unheard
<1>6. EndOK(n, n, x, b)
  BY <1>1, <1>2, <1>4, <1>5 DEF PairOK, EndOK
<1>7. EndOK(Other(n), n, b, x)
  BY <1>1, <1>2, <1>5 DEF PairOK, EndOK
<1> QED
  BY <1>1, <1>6, <1>7 DEF PairOK, Quiet, SameFlood

\* The one that was called reads HELLO and answers, or gives up the Peer.
LEMMA PairHello ==
    ASSUME NEW n \in Nodes, NEW a \in End, NEW b \in End, PairOK(n, Other(n), a, b),
           a.state \in {"CONNECTED", "GOT_HELLO"}, a.open, a.wire # <<>>, Head(a.wire) = "HELLO",
           NEW x \in End, x = [Taken(a) EXCEPT !.state = "GOT_HELLO", !.port = TRUE]
    PROVE  /\ PairOK(n, Other(n), x, Sent(x, b, <<"HELLO", "PEERS">>))
           /\ x.state = "GOT_HELLO" /\ x.open /\ SameFlood(a, x)
           /\ Quiet(Other(n), Other(n), b, Sent(x, b, <<"HELLO", "PEERS">>))
           /\ SameFlood(b, Sent(x, b, <<"HELLO", "PEERS">>))
           /\ PairOK(n, Other(n), Dropped(x), Sent(x, b, <<"PEERS">>))
           /\ Quiet(n, Other(n), a, Dropped(x)) /\ SameFlood(a, Dropped(x))
           /\ Quiet(Other(n), Other(n), b, Sent(x, b, <<"PEERS">>))
           /\ SameFlood(b, Sent(x, b, <<"PEERS">>))
<1> DEFINE o == Other(n)
           y == Sent(x, b, <<"HELLO", "PEERS">>)
           z == Sent(x, b, <<"PEERS">>)
           g == Dropped(x)
<1>1. /\ x.state = "GOT_HELLO" /\ x.port = TRUE /\ x.dial = a.dial /\ x.open = a.open
      /\ x.posted = a.posted /\ x.wire = Tail(a.wire) /\ x.sent = a.sent
      /\ x.took = a.took /\ x.early = a.early
  BY TakenFields DEF End
<1>2. o \in Nodes /\ o # "none" /\ o # n /\ Other(o) = n /\ ~a.dial
  BY OtherFacts DEF PairOK, EndOK
<1>3. <<"HELLO", "PEERS">> \in Seq(Message) /\ <<"PEERS">> \in Seq(Message) /\ b.wire \in Seq(Message)
      /\ a.early \in BOOLEAN
  BY ShortWires, EndFields DEF Message
<1> DEFINE hp == <<"HELLO", "PEERS">>
           p == <<"PEERS">>
<1> HIDE DEF hp, p
<1>4. /\ y \in End
      /\ y.state = b.state /\ y.port = b.port /\ y.dial = b.dial /\ y.open = b.open
      /\ y.posted = b.posted
      /\ y.wire = (IF x.open /\ b.open THEN b.wire \o hp ELSE b.wire)
      /\ y.sent = b.sent /\ y.took = b.took /\ y.early = b.early
  <2>1. hp \in Seq(Message) /\ y = Sent(x, b, hp)
    BY <1>3 DEF hp
  <2> HIDE DEF y
  <2> QED
    BY ONLY <2>1, SentFields, x \in End, b \in End
<1>5. /\ z \in End
      /\ z.state = b.state /\ z.port = b.port /\ z.dial = b.dial /\ z.open = b.open
      /\ z.posted = b.posted
      /\ z.wire = (IF x.open /\ b.open THEN b.wire \o p ELSE b.wire)
      /\ z.sent = b.sent /\ z.took = b.took /\ z.early = b.early
  <2>1. p \in Seq(Message) /\ z = Sent(x, b, p)
    BY <1>3 DEF p
  <2> HIDE DEF z
  <2> QED
    BY ONLY <2>1, SentFields, x \in End, b \in End
<1>6. /\ g \in End
      /\ g.state = "CLOSING" /\ g.port = TRUE /\ g.dial = a.dial /\ g.open = a.open
      /\ g.wire = Tail(a.wire) /\ g.sent = a.sent /\ g.took = a.took /\ g.early = a.early
  BY <1>1, DroppedFields
<1>7. /\ b.open => Has(y.wire, "HELLO")
      /\ HelloFirst(b.wire, a.early) => HelloFirst(y.wire, a.early)
  <2>1. Has(hp, "HELLO") /\ HelloFirst(hp, FALSE) /\ hp \in Seq(Message)
    BY ShortWires DEF hp
  <2>2. b.wire \in Seq(Message) /\ a.early \in BOOLEAN
    BY <1>3
  <2>3. Has(b.wire \o hp, "HELLO")
    BY ONLY <2>1, <2>2, WireAppend, Zenon
  <2>4. HelloFirst(b.wire, a.early) => HelloFirst(b.wire \o hp, a.early)
    <3>1. \A v \in BOOLEAN : HelloFirst(b.wire, v) /\ (v \/ Has(b.wire, "HELLO") \/ HelloFirst(hp, FALSE))
                            => HelloFirst(b.wire \o hp, v)
      BY ONLY <2>1, <2>2, WireAppend
    <3> QED
      BY ONLY <2>1, <2>2, <3>1
  <2> QED
    BY <1>1, <1>4, <2>3, <2>4
<1>8. /\ Has(z.wire, "HELLO") => Has(b.wire, "HELLO")
      /\ HelloFirst(b.wire, a.early) => HelloFirst(z.wire, a.early)
  <2>1. "PEERS" \in Message /\ ~Late("PEERS")
    BY DEF Message, Late
  <2>2. ~Has(p, "HELLO") /\ HelloFirst(p, FALSE) /\ p \in Seq(Message)
    BY <2>1, ShortWires DEF p
  <2>3. /\ Has(b.wire \o p, "HELLO") => Has(b.wire, "HELLO")
        /\ HelloFirst(b.wire, a.early) => HelloFirst(b.wire \o p, a.early)
    BY ONLY <1>3, <2>2, WireAppend
  <2> QED
    BY <1>1, <1>5, <2>3
<1>9. ~Unheard(x) /\ ~Unheard(g) /\ Unheard(y) = Unheard(b) /\ Unheard(z) = Unheard(b)
  BY <1>1, <1>2, <1>4, <1>5, <1>6 DEF Unheard
<1> HIDE DEF y, z, g, o
<1>10. PairOK(n, o, a, b) /\ Other(n) = o
  BY DEF o
<1>11. EndOK(n, o, x, y) /\ EndOK(n, o, g, z)
  BY <1>1, <1>2, <1>6, <1>9, <1>10 DEF PairOK, EndOK
<1>12. EndOK(o, o, y, x)
  BY <1>1, <1>2, <1>4, <1>7, <1>9, <1>10 DEF PairOK, EndOK
<1>13. EndOK(o, o, z, g)
  BY <1>1, <1>2, <1>5, <1>6, <1>8, <1>9, <1>10 DEF PairOK, EndOK
<1>14. Quiet(n, o, a, g) /\ SameFlood(a, g) /\ SameFlood(a, x)
  BY <1>1, <1>6 DEF Quiet, SameFlood
<1>15. Quiet(o, o, b, y) /\ Quiet(o, o, b, z) /\ SameFlood(b, y) /\ SameFlood(b, z)
  BY <1>4, <1>5 DEF Quiet, SameFlood
<1>16. PairOK(n, o, x, y) /\ PairOK(n, o, g, z)
  BY <1>10, <1>11, <1>12, <1>13 DEF PairOK
<1> QED
  BY <1>1, <1>14, <1>15, <1>16 DEF y, z, g, o

\* The posted shutdown closes the socket; the other end may hear of it.
Closed(a) == [a EXCEPT !.posted = FALSE, !.open = FALSE, !.dial = FALSE, !.wire = <<>>]
LEMMA PairClose ==
    ASSUME NEW n \in Nodes, NEW d, NEW a \in End, NEW b \in End, PairOK(n, d, a, b),
           a.posted, NEW w \in {b.wire, <<"EOF">>, Append(b.wire, "EOF")},
           NEW y \in End, y = [b EXCEPT !.wire = w]
    PROVE  /\ Closed(a) \in End /\ Closed(a).state = a.state /\ ~Closed(a).open
           /\ a.state # "none" /\ SameFlood(a, Closed(a))
           /\ Closed(a).wire = <<>> /\ ~Closed(a).posted
           /\ PairOK(n, d, Closed(a), y)
           /\ Quiet(Other(n), d, b, y) /\ SameFlood(b, y)
<1> DEFINE x == Closed(a)
<1>1. <<>> \in Seq(Message)
  OBVIOUS
<1>2. /\ x \in End
      /\ x.state = a.state /\ x.port = a.port /\ x.dial = FALSE /\ x.open = FALSE
      /\ x.posted = FALSE /\ x.wire = <<>> /\ x.sent = a.sent
      /\ x.took = a.took /\ x.early = a.early
  BY <1>1 DEF End, Closed
<1>3. /\ y.state = b.state /\ y.port = b.port /\ y.dial = b.dial /\ y.open = b.open
      /\ y.posted = b.posted /\ y.wire = w /\ y.sent = b.sent
      /\ y.took = b.took /\ y.early = b.early
  BY DEF End
<1>4. a.state # "none" /\ Other(n) # n /\ n # "none" /\ (d # n => a.state = "CLOSING")
  BY OtherFacts DEF PairOK, EndOK
<1>5. d # "none"
  BY <1>4, PairCalled
<1>6. b.wire \in Seq(Message) /\ a.early \in BOOLEAN
  BY EndFields
<1>7. /\ Has(w, "HELLO") => Has(b.wire, "HELLO")
      /\ HelloFirst(b.wire, a.early) => HelloFirst(w, a.early)
  <2>1. "EOF" \in Message /\ ~Late("EOF")
    BY DEF Message, Late
  <2>2. /\ <<"EOF">> \in Seq(Message) /\ ~Has(<<"EOF">>, "HELLO")
        /\ HelloFirst(<<"EOF">>, FALSE)
    BY <2>1, ShortWires
  <2>3. HelloFirst(<<"EOF">>, a.early)
    BY <1>6, <2>2 DEF HelloFirst
  <2>4. Append(b.wire, "EOF") = b.wire \o <<"EOF">>
    BY <1>6, <2>1
  <2>5. /\ Has(b.wire \o <<"EOF">>, "HELLO") => Has(b.wire, "HELLO")
        /\ HelloFirst(b.wire, a.early) => HelloFirst(b.wire \o <<"EOF">>, a.early)
    BY <1>6, <2>2, WireAppend
  <2> QED
    BY <2>2, <2>3, <2>4, <2>5
<1>8. Unheard(y) = Unheard(b) /\ (Unheard(x) => Unheard(a)) /\ HelloFirst(<<>>, b.early)
      /\ ~Has(<<>>, "HELLO")
  <2>1. b.early \in BOOLEAN
    BY EndFields
  <2>2. HelloFirst(<<>>, b.early)
    BY <2>1 DEF HelloFirst
  <2> QED
    BY <1>2, <1>3, <2>2, ShortWires DEF Unheard
<1> HIDE DEF x
<1>9. EndOK(n, d, x, y)
  BY <1>2, <1>3, <1>4, <1>5, <1>8 DEF PairOK, EndOK
<1>10. EndOK(Other(n), d, y, x)
  BY <1>2, <1>3, <1>4, <1>5, <1>7, <1>8 DEF PairOK, EndOK
<1>11. Quiet(Other(n), d, b, y) /\ SameFlood(b, y) /\ SameFlood(a, x)
  BY <1>2, <1>3 DEF Quiet, SameFlood
<1> QED
  BY <1>2, <1>4, <1>9, <1>10, <1>11 DEF PairOK, x

\* A Peer that calls.
LEMMA PairTick ==
    ASSUME NEW n \in Nodes, NEW x, x = [NoEnd EXCEPT !.state = "CONNECTING", !.port = TRUE, !.dial = TRUE]
    PROVE  /\ x \in End /\ NoEnd \in End /\ PairOK(n, n, x, NoEnd)
           /\ x.state = "CONNECTING" /\ x.open /\ x.sent = 0 /\ ~x.took
<1>1. /\ NoEnd.state = "none" /\ NoEnd.port = FALSE /\ NoEnd.dial = FALSE /\ NoEnd.open = TRUE
      /\ NoEnd.posted = FALSE /\ NoEnd.wire = <<>> /\ NoEnd.sent = 0
      /\ NoEnd.took = FALSE /\ NoEnd.early = FALSE /\ NoEnd \in End
  BY DEF NoEnd, End
<1>2. /\ x.state = "CONNECTING" /\ x.port = TRUE /\ x.dial = TRUE /\ x.open = TRUE
      /\ x.posted = FALSE /\ x.wire = <<>> /\ x.sent = 0
      /\ x.took = FALSE /\ x.early = FALSE /\ x \in End
  BY <1>1 DEF End
<1>3. HelloFirst(<<>>, FALSE) /\ ~Has(<<>>, "HELLO")
  BY ShortWires
<1>4. n # "none" /\ n # Other(n)
  BY OtherFacts
<1>5. EndOK(n, n, x, NoEnd)
  BY <1>1, <1>2, <1>3, <1>4 DEF EndOK
<1>6. EndOK(Other(n), n, NoEnd, x)
  BY <1>1, <1>2, <1>3, <1>4 DEF EndOK
<1> QED
  BY <1>1, <1>2, <1>5, <1>6 DEF PairOK

\* A connection nobody called.
LEMMA PairNone ==
    ASSUME NEW n \in Nodes
    PROVE  PairOK(n, "none", NoEnd, NoEnd) /\ NoEnd \in End /\ NoEnd.state = "none"
           /\ NoEnd.sent = 0 /\ ~NoEnd.took
<1>2. /\ NoEnd.state = "none" /\ NoEnd.port = FALSE /\ NoEnd.dial = FALSE /\ NoEnd.open = TRUE
      /\ NoEnd.posted = FALSE /\ NoEnd.wire = <<>> /\ NoEnd.sent = 0
      /\ NoEnd.took = FALSE /\ NoEnd.early = FALSE /\ NoEnd \in End
  BY DEF NoEnd, End
<1>3. HelloFirst(<<>>, FALSE) /\ ~Has(<<>>, "HELLO")
  BY ShortWires
<1>4. n # "none" /\ Other(n) # "none"
  BY OtherFacts
<1> QED
  BY <1>2, <1>3, <1>4 DEF PairOK, EndOK

-----------------------------------------------------------------------------
(* Steps that touch one connection.                                        *)

\* g is f but for the ends x of n and y of the other node of connection c.
At(f, g, c, n, x, y) ==
    /\ g \in Ends
    /\ g[c][n] = x /\ g[c][Other(n)] = y
    /\ \A k \in Conn \ {c} : g[k] = f[k]

\* One end is replaced.
LEMMA SetAt ==
    ASSUME NEW f \in Ends, NEW c \in Conn, NEW n \in Nodes, NEW x \in End
    PROVE  At(f, [f EXCEPT ![c] = [f[c] EXCEPT ![n] = x]], c, n, x, f[c][Other(n)])
BY OtherFacts DEF At, Ends

\* Both ends are replaced one after the other.
LEMMA AtTwice ==
    ASSUME NEW f, NEW g, NEW h, NEW c, NEW n, NEW x, NEW y, NEW v, NEW w,
           At(f, g, c, n, x, y), At(g, h, c, n, v, w)
    PROVE  At(f, h, c, n, v, w)
BY DEF At

\* The same, seen from the other node.
LEMMA AtOther ==
    ASSUME NEW f, NEW g, NEW c, NEW n \in Nodes, NEW x, NEW y, At(f, g, c, n, x, y)
    PROVE  At(f, g, c, Other(n), y, x)
BY OtherFacts DEF At

\* drop(), on all ends.
LEMMA DropAt ==
    ASSUME NEW f \in Ends, NEW c \in Conn, NEW n \in Nodes
    PROVE  At(f, drop(f, c, n), c, n, Dropped(f[c][n]), f[c][Other(n)])
<1> DEFINE a == f[c][n]
<1>1. a \in End /\ Dropped(a) \in End
  BY DroppedFields DEF Ends
<1>2. CASE a.state = "CLOSING"
  BY <1>1, <1>2, OtherFacts DEF drop, Dropped, At, Ends
<1>3. CASE a.state # "CLOSING"
  <2>1. Dropped(a) = [a EXCEPT !.state = "CLOSING", !.posted = TRUE]
    BY <1>3 DEF Dropped
  <2>2. drop(f, c, n) = [f EXCEPT ![c] = [f[c] EXCEPT ![n] = Dropped(a)]]
    BY <1>1, <1>3, <2>1 DEF drop, Ends
  <2> HIDE DEF a
  <2>3. At(f, [f EXCEPT ![c] = [f[c] EXCEPT ![n] = Dropped(a)]], c, n, Dropped(a), f[c][Other(n)])
    BY <1>1, SetAt
  <2> QED
    BY <2>2, <2>3 DEF a
<1> QED
  BY <1>2, <1>3

\* Reading, on all ends.
LEMMA ReadAt ==
    ASSUME e \in Ends, NEW c \in Conn, NEW n \in Nodes, e[c][n].wire # <<>>
    PROVE  At(e, Read(c, n), c, n, Taken(e[c][n]), e[c][Other(n)])
<1> DEFINE a == e[c][n]
<1>1. a \in End /\ Taken(a) \in End
  BY TakenFields DEF Ends
<1>2. Read(c, n) = [e EXCEPT ![c] = [e[c] EXCEPT ![n] = Taken(a)]]
  BY DEF Read, Taken, Ends
<1> HIDE DEF a
<1>3. At(e, [e EXCEPT ![c] = [e[c] EXCEPT ![n] = Taken(a)]], c, n, Taken(a), e[c][Other(n)])
  BY <1>1, SetAt
<1> QED
  BY <1>2, <1>3 DEF a

\* send, on all ends.
LEMMA SendAt ==
    ASSUME NEW f \in Ends, NEW c \in Conn, NEW n \in Nodes, NEW msgs \in Seq(Message)
    PROVE  At(f, send(f, c, n, msgs), c, n, f[c][n], Sent(f[c][n], f[c][Other(n)], msgs))
<1> DEFINE o == Other(n)
           a == f[c][n]
           b == f[c][o]
           y == Sent(a, b, msgs)
<1>1. o \in Nodes /\ o # n /\ a \in End /\ b \in End
  BY OtherFacts DEF Ends
<1>2. y \in End
  BY <1>1, SentFields
<1>3. CASE a.open /\ b.open
  <2>1. y = [b EXCEPT !.wire = @ \o msgs]
    BY <1>3 DEF Sent
  <2>2. send(f, c, n, msgs) = [f EXCEPT ![c] = [f[c] EXCEPT ![o] = y]]
    BY <1>1, <1>3, <2>1 DEF send, Ends
  <2> HIDE DEF y
  <2>3. At(f, send(f, c, n, msgs), c, n, f[c][n], y)
    BY <1>1, <1>2, <2>2 DEF At, Ends
  <2> QED
    BY <2>3 DEF y
<1>4. CASE ~(a.open /\ b.open)
  <2>1. y = b /\ send(f, c, n, msgs) = f
    BY <1>4 DEF send, Sent
  <2> HIDE DEF y
  <2>2. At(f, send(f, c, n, msgs), c, n, f[c][n], y)
    BY <1>1, <2>1 DEF At, Ends
  <2> QED
    BY <2>2 DEF y
<1> QED
  BY <1>3, <1>4

\* What the invariant says of the ends of one connection.
LEMMA PairAt ==
    ASSUME TypeOK, EndsOK, NEW c \in Conn, NEW n \in Nodes
    PROVE  /\ e \in Ends /\ e[c][n] \in End /\ e[c][Other(n)] \in End /\ Other(n) \in Nodes
           /\ dialer[c] \in Nodes \cup {"none"}
           /\ PairOK(n, dialer[c], e[c][n], e[c][Other(n)])
<1>1. Other(n) \in Nodes /\ Other(Other(n)) = n
  BY OtherFacts
<1>2. e \in Ends /\ dialer[c] \in Nodes \cup {"none"}
  BY DEF TypeOK, Ends
<1>3. PairOK(n, dialer[c], e[c][n], e[c][Other(n)])
  BY <1>1 DEF PairOK, EndsOK
<1> QED
  BY <1>1, <1>2, <1>3 DEF Ends

\* The ends f are in order, and none came, opened, closed or was accepted.
StillOK(f) ==
    /\ f \in Ends
    /\ \A c \in Conn, n \in Nodes :
          /\ EndOK(n, dialer[c], f[c][n], f[c][Other(n)])
          /\ Quiet(n, dialer[c], e[c][n], f[c][n])

\* Nothing was flooded between e and f.
NoFlood(f) == \A c \in Conn, n \in Nodes : SameFlood(e[c][n], f[c][n])

\* A step that adds nothing to the lists and accepts nobody.
LEMMA QuietStep ==
    ASSUME TypeOK, OpenIsListed, AcceptBound, StillOK(e'), dialer' = dialer, mPeers' = mPeers
    PROVE  EndsOK' /\ OpenIsListed' /\ AcceptBound'
<1> USE DEF StillOK
<1>1. EndsOK'
  BY DEF EndsOK
<1>2. ASSUME NEW n \in Nodes
      PROVE  IsInjective(mPeers'[n]) /\ Listed(n)' = {c \in Conn : e'[c][n].state # "none" /\ e'[c][n].open}
  <2>1. Listed(n)' = Listed(n)
    BY DEF Listed
  <2>2. IsInjective(mPeers[n]) /\ Listed(n) = {c \in Conn : e[c][n].state # "none" /\ e[c][n].open}
    BY DEF OpenIsListed
  <2>3. \A c \in Conn : (e'[c][n].state # "none" /\ e'[c][n].open)
                        <=> (e[c][n].state # "none" /\ e[c][n].open)
    BY DEF Quiet
  <2> QED
    BY <2>1, <2>2, <2>3
<1>3. OpenIsListed'
  BY <1>2 DEF OpenIsListed
<1>4. ASSUME NEW n \in Nodes
      PROVE  Cardinality({c \in Conn : dialer'[c] = Other(n) /\ e'[c][n].state = "GOT_HELLO"}) < MaxPeers[n]
  <2> DEFINE S == {c \in Conn : dialer[c] = Other(n) /\ e[c][n].state = "GOT_HELLO"}
             T == {c \in Conn : dialer'[c] = Other(n) /\ e'[c][n].state = "GOT_HELLO"}
  <2>1. Other(n) # n /\ Other(n) # "none"
    BY OtherFacts
  <2>2. T \in SUBSET S
    BY <2>1 DEF Quiet
  <2>3. IsFiniteSet(S)
    <3>1. IsFiniteSet(Conn)
      BY OverlayAssumption, FS_Interval DEF Conn
    <3> QED
      BY <3>1, FS_Subset
  <2>4. Cardinality(S) < MaxPeers[n] /\ MaxPeers[n] \in Nat
    BY OverlayAssumption DEF AcceptBound
  <2> HIDE DEF S, T
  <2>5. Cardinality(T) <= Cardinality(S) /\ Cardinality(T) \in Nat /\ Cardinality(S) \in Nat
    BY <2>2, <2>3, FS_Subset, FS_CardinalityType
  <2>6. Cardinality(T) < MaxPeers[n]
    BY <2>4, <2>5
  <2> QED
    BY <2>6 DEF T
<1>5. AcceptBound'
  BY <1>4 DEF AcceptBound
<1> QED
  BY <1>1, <1>3, <1>5

\* A step that floods nothing.
LEMMA ToldSame ==
    ASSUME ToldInv, NoFlood(e'), told' = told, has' = has
    PROVE  ToldInv'
BY DEF ToldInv, NoFlood, SameFlood

\* Such a step that floods nothing either.
LEMMA QuietFinish ==
    ASSUME IInv, StillOK(e'), NoFlood(e'), UNCHANGED <<dialer, mPeers, told, has>>,
           record' \in [Nodes -> {"unknown", "ready", "waiting"}], cached' \subseteq Nodes,
           tracker' \in [asked : Seq(Conn), last : Conn \cup {NoConn}], faults' \in 0 .. MaxFaults
    PROVE  IInv'
<1>1. TypeOK'
  BY DEF IInv, TypeOK, StillOK, Ends
<1>2. EndsOK' /\ OpenIsListed' /\ AcceptBound'
  BY QuietStep DEF IInv
<1>3. ToldInv'
  BY ToldSame DEF IInv
<1> QED
  BY <1>1, <1>2, <1>3 DEF IInv

\* Nothing happened yet.
LEMMA StillStart ==
    ASSUME TypeOK, EndsOK
    PROVE  StillOK(e) /\ NoFlood(e)
<1>1. e \in Ends
  BY DEF TypeOK, Ends
<1>2. \A c \in Conn, n \in Nodes : e[c][n] \in End
  BY <1>1 DEF Ends
<1> QED
  BY <1>1, <1>2 DEF StillOK, NoFlood, SameFlood, Quiet, EndsOK

\* The ends of one connection that are still in order.
LEMMA StillPair ==
    ASSUME NEW f, StillOK(f), NEW c \in Conn, NEW n \in Nodes
    PROVE  /\ f \in Ends /\ f[c][n] \in End /\ f[c][Other(n)] \in End /\ Other(n) \in Nodes
           /\ PairOK(n, dialer[c], f[c][n], f[c][Other(n)])
           /\ f[c][n].state = "none" <=> e[c][n].state = "none"
           /\ f[c][n].open = e[c][n].open
<1>1. Other(n) \in Nodes /\ Other(Other(n)) = n
  BY OtherFacts
<1> QED
  BY <1>1 DEF StillOK, PairOK, Ends, Quiet

\* One more change to the ends of one connection.
LEMMA StillAt ==
    ASSUME NEW f, NEW g, StillOK(f), NEW c \in Conn, NEW n \in Nodes,
           NEW x, NEW y, At(f, g, c, n, x, y),
           PairOK(n, dialer[c], x, y), Quiet(n, dialer[c], f[c][n], x),
           Quiet(Other(n), dialer[c], f[c][Other(n)], y)
    PROVE  StillOK(g)
<1>1. g \in Ends
  BY DEF At
<1>2. ASSUME NEW k \in Conn, NEW m \in Nodes
      PROVE  /\ EndOK(m, dialer[k], g[k][m], g[k][Other(m)])
             /\ Quiet(m, dialer[k], e[k][m], g[k][m])
  <2>1. CASE k # c
    <3>1. g[k] = f[k]
      BY <2>1 DEF At
    <3> QED
      BY <3>1 DEF StillOK
  <2>2. CASE k = c
    <3>1. (m = n /\ Other(m) = Other(n)) \/ (m = Other(n) /\ Other(m) = n)
      BY OtherFacts
    <3>2. Quiet(m, dialer[c], e[c][m], f[c][m])
      BY DEF StillOK
    <3>3. Quiet(m, dialer[c], f[c][m], g[c][m]) /\ EndOK(m, dialer[c], g[c][m], g[c][Other(m)])
      BY <3>1 DEF At, PairOK
    <3> QED
      BY <2>2, <3>2, <3>3 DEF Quiet
  <2> QED
    BY <2>1, <2>2
<1> QED
  BY <1>1, <1>2 DEF StillOK

\* ... that floods nothing.
LEMMA NoFloodAt ==
    ASSUME NEW f, NEW g, NoFlood(f), NEW c \in Conn, NEW n \in Nodes,
           NEW x, NEW y, At(f, g, c, n, x, y),
           SameFlood(f[c][n], x), SameFlood(f[c][Other(n)], y)
    PROVE  NoFlood(g)
<1>1. ASSUME NEW k \in Conn, NEW m \in Nodes PROVE SameFlood(e[k][m], g[k][m])
  <2>1. CASE k # c
    BY <2>1 DEF At, NoFlood
  <2>2. CASE k = c
    <3>1. m = n \/ m = Other(n)
      BY OtherFacts
    <3>2. SameFlood(f[c][m], g[c][m]) /\ SameFlood(e[c][m], f[c][m])
      BY <3>1 DEF At, NoFlood
    <3> QED
      BY <2>2, <3>2 DEF SameFlood
  <2> QED
    BY <2>1, <2>2
<1> QED
  BY <1>1 DEF NoFlood

\* An end that stays as it is.
LEMMA QuietSelf ==
    ASSUME NEW n, NEW d, NEW a \in End
    PROVE  Quiet(n, d, a, a) /\ SameFlood(a, a)
BY DEF Quiet, SameFlood

-----------------------------------------------------------------------------
(* What the handlers are made of.                                          *)

\* drop() keeps the ends in order.
LEMMA StillDrop ==
    ASSUME NEW f, StillOK(f), NoFlood(f), NEW c \in Conn, NEW n \in Nodes, f[c][n].state # "none"
    PROVE  StillOK(drop(f, c, n)) /\ NoFlood(drop(f, c, n))
<1> DEFINE a == f[c][n]
           b == f[c][Other(n)]
           d == dialer[c]
<1>1. f \in Ends /\ a \in End /\ b \in End /\ Other(n) \in Nodes /\ PairOK(n, d, a, b)
  BY StillPair
<1>2. At(f, drop(f, c, n), c, n, Dropped(a), b)
  BY <1>1, DropAt
<1> HIDE DEF a, b, d
<1>3. a.state # "none"
  BY DEF a
<1>4. /\ PairOK(n, d, Dropped(a), b) /\ Quiet(n, d, a, Dropped(a)) /\ SameFlood(a, Dropped(a))
  BY <1>1, <1>3, PairDrop
<1>5. Quiet(Other(n), d, b, b) /\ SameFlood(b, b)
  BY <1>1, QuietSelf
<1> USE DEF a, b, d
<1>6. StillOK(drop(f, c, n))
  BY <1>2, <1>4, <1>5, StillAt
<1>7. NoFlood(drop(f, c, n))
  BY <1>2, <1>4, <1>5, NoFloodAt
<1> QED
  BY <1>6, <1>7

\* Reading a message that is not HELLO keeps the ends in order.
LEMMA StillRead ==
    ASSUME TypeOK, EndsOK, NEW c \in Conn, NEW n \in Nodes, e[c][n].state # "none",
           e[c][n].wire # <<>>, Head(e[c][n].wire) # "HELLO"
    PROVE  /\ StillOK(Read(c, n)) /\ NoFlood(Read(c, n)) /\ Read(c, n) \in Ends
           /\ At(e, Read(c, n), c, n, Taken(e[c][n]), e[c][Other(n)])
           /\ Taken(e[c][n]) \in End /\ Taken(e[c][n]).state = e[c][n].state
<1> DEFINE a == e[c][n]
           b == e[c][Other(n)]
           d == dialer[c]
<1>1. /\ e \in Ends /\ a \in End /\ b \in End /\ Other(n) \in Nodes /\ PairOK(n, d, a, b)
      /\ StillOK(e) /\ NoFlood(e)
  BY StillStart, StillPair
<1>2. At(e, Read(c, n), c, n, Taken(a), b)
  BY <1>1, ReadAt
<1> HIDE DEF a, b, d
<1>3. a.state # "none" /\ a.wire # <<>> /\ Head(a.wire) # "HELLO"
  BY DEF a
<1>4. /\ PairOK(n, d, Taken(a), b) /\ Quiet(n, d, a, Taken(a)) /\ SameFlood(a, Taken(a))
  BY <1>1, <1>3, PairTake
<1>5. Quiet(Other(n), d, b, b) /\ SameFlood(b, b)
  BY <1>1, QuietSelf
<1>6. Taken(a) \in End /\ Taken(a).state = a.state
  BY <1>1, <1>3, TakenFields
<1> USE DEF a, b, d
<1>7. StillOK(Read(c, n))
  BY <1>1, <1>2, <1>4, <1>5, StillAt
<1>8. NoFlood(Read(c, n))
  BY <1>1, <1>2, <1>4, <1>5, NoFloodAt
<1> QED
  BY <1>2, <1>6, <1>7, <1>8 DEF At

\* So does sending.
LEMMA StillSend ==
    ASSUME NEW f, StillOK(f), NEW c \in Conn, NEW n \in Nodes, f[c][n].state # "none",
           NEW msgs \in Seq(Message),
           Has(msgs, "HELLO") => dialer[c] = n \/ f[c][n].state \in {"GOT_HELLO", "CLOSING"},
           f[c][n].state = "GOT_HELLO" \/ f[c][n].early \/ HelloFirst(msgs, FALSE)
    PROVE  /\ StillOK(send(f, c, n, msgs))
           /\ NoFlood(f) => NoFlood(send(f, c, n, msgs))
<1> DEFINE a == f[c][n]
           b == f[c][Other(n)]
           d == dialer[c]
           g == send(f, c, n, msgs)
           y == Sent(a, b, msgs)
<1>1. f \in Ends /\ a \in End /\ b \in End /\ Other(n) \in Nodes /\ PairOK(n, d, a, b)
  BY StillPair
<1>2. At(f, g, c, n, a, y)
  BY <1>1, SendAt
<1> HIDE DEF a, b, d
<1>3. /\ a.state # "none" /\ (Has(msgs, "HELLO") => d = n \/ a.state \in {"GOT_HELLO", "CLOSING"})
      /\ (a.state = "GOT_HELLO" \/ a.early \/ HelloFirst(msgs, FALSE))
  BY DEF a, d
<1>4. PairOK(n, d, a, y) /\ Quiet(Other(n), d, b, y) /\ SameFlood(b, y)
  BY <1>1, <1>3, PairSend
<1>5. Quiet(n, d, a, a) /\ SameFlood(a, a)
  BY <1>1, QuietSelf
<1> HIDE DEF y, g
<1> USE DEF a, b, d
<1>6. StillOK(g)
  BY <1>2, <1>4, <1>5, StillAt
<1>7. NoFlood(f) => NoFlood(g)
  BY <1>2, <1>4, <1>5, NoFloodAt
<1> QED
  BY <1>6, <1>7 DEF g

\* The messages that are sent alone.
LEMMA OneMessage ==
    ASSUME NEW m \in Message
    PROVE  /\ <<m>> \in Seq(Message) /\ (Has(<<m>>, "HELLO") => m = "HELLO")
           /\ ~Late(m) => HelloFirst(<<m>>, FALSE)
BY ShortWires

-----------------------------------------------------------------------------
(* The actions.                                                            *)

\* The variables a handler leaves alone keep their types.
LEMMA RestTyped ==
    ASSUME IInv
    PROVE  /\ TypeOK /\ EndsOK
           /\ record \in [Nodes -> {"unknown", "ready", "waiting"}] /\ cached \subseteq Nodes
           /\ tracker \in [asked : Seq(Conn), last : Conn \cup {NoConn}] /\ faults \in 0 .. MaxFaults
           /\ MaxFaults \in Nat
BY OverlayAssumption DEF IInv, TypeOK

\* What it takes to receive a message.
LEMMA ReceivesFacts ==
    ASSUME NEW c \in Conn, NEW n \in Nodes, NEW type \in Message, Receives(c, n, type)
    PROVE  /\ e[c][n].open /\ e[c][n].state \in {"CONNECTED", "GOT_HELLO"}
           /\ e[c][n].state # "none"
           /\ e[c][n].wire # <<>> /\ Head(e[c][n].wire) = type
           /\ Late(type) => e[c][n].state = "GOT_HELLO"
BY DEF Receives, Reading, Late

\* A message before HELLO.
LEMMA recvBeforeHelloInv ==
    ASSUME IInv, NEW c \in Conn, NEW n \in Nodes, recvBeforeHello(c, n)
    PROVE  IInv'
<1>1. /\ e[c][n].state # "none" /\ e[c][n].wire # <<>> /\ Head(e[c][n].wire) # "HELLO"
      /\ e' = drop(Read(c, n), c, n)
      /\ UNCHANGED <<dialer, mPeers, record, has, told, cached, tracker, faults>>
  BY DEF recvBeforeHello
<1>2. /\ StillOK(Read(c, n)) /\ NoFlood(Read(c, n)) /\ Read(c, n)[c][n].state # "none"
  BY <1>1, RestTyped, StillRead DEF At
<1>3. StillOK(e') /\ NoFlood(e')
  BY <1>1, <1>2, StillDrop
<1> QED
  BY <1>1, <1>3, RestTyped, QuietFinish

\* PEERS.
LEMMA recvPeersInv ==
    ASSUME IInv, NEW c \in Conn, NEW n \in Nodes, recvPeers(c, n)
    PROVE  IInv'
<1>1. /\ Receives(c, n, "PEERS") /\ e' = Read(c, n) /\ "PEERS" \in Message
      /\ UNCHANGED <<dialer, mPeers, record, has, told, cached, tracker, faults>>
  BY DEF recvPeers, Message
<1>2. e[c][n].state # "none" /\ e[c][n].wire # <<>> /\ Head(e[c][n].wire) # "HELLO"
  BY <1>1, ReceivesFacts
<1>3. StillOK(e') /\ NoFlood(e')
  BY <1>1, <1>2, RestTyped, StillRead
<1> QED
  BY <1>1, <1>3, RestTyped, QuietFinish

\* The question for the set, and its answer.
LEMMA recvGetTxSetInv ==
    ASSUME IInv, NEW c \in Conn, NEW n \in Nodes, recvGetTxSet(c, n)
    PROVE  IInv'
<1> DEFINE m == IF n \in cached THEN "TX_SET" ELSE "DONT_HAVE"
<1>1. /\ Receives(c, n, "GET_TX_SET") /\ e' = send(Read(c, n), c, n, <<m>>)
      /\ "GET_TX_SET" \in Message /\ Late("GET_TX_SET") /\ m \in Message /\ m # "HELLO"
      /\ UNCHANGED <<dialer, mPeers, record, has, told, cached, tracker, faults>>
  BY DEF recvGetTxSet, Message, Late
<1> HIDE DEF m
<1>2. /\ e[c][n].state = "GOT_HELLO" /\ e[c][n].wire # <<>> /\ Head(e[c][n].wire) # "HELLO"
  BY <1>1, ReceivesFacts
<1>3. StillOK(Read(c, n)) /\ NoFlood(Read(c, n)) /\ Read(c, n)[c][n].state = "GOT_HELLO"
  BY <1>2, RestTyped, StillRead DEF At
<1> DEFINE ms == <<m>>
<1>4. ms \in Seq(Message) /\ ~Has(ms, "HELLO")
  BY <1>1, OneMessage
<1> HIDE DEF ms
<1>5. StillOK(send(Read(c, n), c, n, ms)) /\ NoFlood(send(Read(c, n), c, n, ms))
  BY <1>3, <1>4, StillSend
<1>6. StillOK(e') /\ NoFlood(e')
  BY <1>1, <1>5 DEF ms
<1> QED
  BY <1>1, <1>6, RestTyped, QuietFinish

\* The set.
LEMMA recvTxSetInv ==
    ASSUME IInv, NEW c \in Conn, NEW n \in Nodes, recvTxSet(c, n)
    PROVE  IInv'
<1>1. /\ Receives(c, n, "TX_SET") /\ e' = Read(c, n) /\ "TX_SET" \in Message
      /\ UNCHANGED <<dialer, mPeers, record, has, told, faults>>
      /\ cached' = cached \cup {n} /\ tracker' = [asked |-> <<>>, last |-> NoConn]
  BY DEF recvTxSet, Message
<1>2. e[c][n].state # "none" /\ e[c][n].wire # <<>> /\ Head(e[c][n].wire) # "HELLO"
  BY <1>1, ReceivesFacts
<1>3. StillOK(e') /\ NoFlood(e')
  BY <1>1, <1>2, RestTyped, StillRead
<1>4. cached' \subseteq Nodes /\ tracker' \in [asked : Seq(Conn), last : Conn \cup {NoConn}]
  BY <1>1, RestTyped
<1> QED
  BY <1>1, <1>3, <1>4, RestTyped, QuietFinish

\* The end of the stream.
LEMMA recvEOFInv ==
    ASSUME IInv, NEW c \in Conn, NEW n \in Nodes, recvEOF(c, n)
    PROVE  IInv'
<1>1. /\ Receives(c, n, "EOF") /\ e' = drop(Read(c, n), c, n) /\ "EOF" \in Message
      /\ UNCHANGED <<dialer, mPeers, record, has, told, cached, tracker, faults>>
  BY DEF recvEOF, Message
<1>2. e[c][n].state # "none" /\ e[c][n].wire # <<>> /\ Head(e[c][n].wire) # "HELLO"
  BY <1>1, ReceivesFacts
<1>3. StillOK(Read(c, n)) /\ NoFlood(Read(c, n)) /\ Read(c, n)[c][n].state # "none"
  BY <1>2, RestTyped, StillRead DEF At
<1>4. StillOK(e') /\ NoFlood(e')
  BY <1>1, <1>3, StillDrop
<1> QED
  BY <1>1, <1>4, RestTyped, QuietFinish

\* An operation on a closed socket reports.
LEMMA ioErrorInv ==
    ASSUME IInv, NEW c \in Conn, NEW n \in Nodes, ioError(c, n)
    PROVE  IInv'
<1>1. /\ e[c][n].state # "none" /\ e' = drop(e, c, n)
      /\ UNCHANGED <<dialer, mPeers, record, has, told, cached, tracker, faults>>
  BY DEF ioError
<1>2. StillOK(e') /\ NoFlood(e')
  BY <1>1, RestTyped, StillStart, StillDrop
<1> QED
  BY <1>1, <1>2, RestTyped, QuietFinish

\* A read or write timer expires.
LEMMA timeoutInv ==
    ASSUME IInv, NEW c \in Conn, NEW n \in Nodes, timeout(c, n)
    PROVE  IInv'
<1>1. /\ e[c][n].state # "none" /\ e' = drop(e, c, n)
      /\ UNCHANGED <<dialer, mPeers, record, has, told, cached, tracker>>
  BY DEF timeout
<1>2. faults' \in 0 .. MaxFaults
  BY RestTyped DEF timeout
<1>3. StillOK(e') /\ NoFlood(e')
  BY <1>1, RestTyped, StillStart, StillDrop
<1> QED
  BY <1>1, <1>2, <1>3, RestTyped, QuietFinish

\* The caller's connect handler.
LEMMA connectedInv ==
    ASSUME IInv, NEW c \in Conn, connected(c)
    PROVE  IInv'
<1> DEFINE n == dialer[c]
           a == e[c][n]
           b == e[c][Other(n)]
           x == [a EXCEPT !.dial = FALSE, !.state = "CONNECTED"]
           f == [e EXCEPT ![c] = [e[c] EXCEPT ![n] = x]]
           ms == <<"HELLO">>
<1>1. n \in Nodes /\ a.dial
      /\ e' = send([e EXCEPT ![c][n].dial = FALSE, ![c][n].state = "CONNECTED"], c, n, ms)
      /\ UNCHANGED <<dialer, mPeers, record, has, told, cached, tracker, faults>>
  BY DEF connected
<1>2. /\ e \in Ends /\ a \in End /\ b \in End /\ Other(n) \in Nodes /\ PairOK(n, n, a, b)
      /\ StillOK(e) /\ NoFlood(e)
  BY <1>1, RestTyped, StillStart, StillPair
<1>3. [e EXCEPT ![c][n].dial = FALSE, ![c][n].state = "CONNECTED"] = f
  BY <1>1, <1>2 DEF Ends
<1>4. x \in End
  BY <1>2 DEF End
<1> HIDE DEF a, b, x, n
<1>5. At(e, f, c, n, x, e[c][Other(n)])
  BY <1>1, <1>2, <1>4, SetAt
<1>6. x = [a EXCEPT !.dial = FALSE, !.state = "CONNECTED"] /\ "CONNECTED" \in {a.state, "CONNECTED"}
  BY DEF x
<1>7. PairOK(n, n, x, b) /\ Quiet(n, n, a, x) /\ SameFlood(a, x) /\ a.state # "none"
  BY <1>1, <1>2, <1>4, <1>6, PairDial
<1>8. Quiet(Other(n), n, b, b) /\ SameFlood(b, b)
  BY <1>2, QuietSelf
<1>9. StillOK(f) /\ NoFlood(f)
  <2> HIDE DEF f
  <2>1. n = dialer[c] /\ a = e[c][n] /\ b = e[c][Other(n)]
    BY DEF n, a, b
  <2>2. StillOK(f)
    BY <1>1, <1>2, <1>5, <1>7, <1>8, <2>1, StillAt
  <2>3. NoFlood(f)
    BY <1>1, <1>2, <1>5, <1>7, <1>8, <2>1, NoFloodAt
  <2> QED
    BY <2>2, <2>3
<1>10. f[c][n].state # "none" /\ n = dialer[c]
  <2>1. x.state # "none"
    BY <1>7 DEF Quiet
  <2> QED
    BY <1>5, <2>1 DEF At, n
<1>11. "HELLO" \in Message /\ ~Late("HELLO")
  BY DEF Message, Late
<1>12. ms \in Seq(Message) /\ HelloFirst(ms, FALSE)
  BY <1>11, OneMessage
<1> HIDE DEF f, ms
<1>13. StillOK(send(f, c, n, ms)) /\ NoFlood(send(f, c, n, ms))
  BY <1>1, <1>9, <1>10, <1>12, StillSend
<1>14. StillOK(e') /\ NoFlood(e')
  BY <1>1, <1>3, <1>13
<1> QED
  BY <1>1, <1>14, RestTyped, QuietFinish

\* The connect handler reports an error.
LEMMA connectFailsInv ==
    ASSUME IInv, NEW c \in Conn, connectFails(c)
    PROVE  IInv'
<1> DEFINE n == dialer[c]
           a == e[c][n]
           b == e[c][Other(n)]
           x == [a EXCEPT !.dial = FALSE]
           f == [e EXCEPT ![c] = [e[c] EXCEPT ![n] = x]]
<1>1. n \in Nodes /\ a.dial /\ e' = drop([e EXCEPT ![c][n].dial = FALSE], c, n)
      /\ UNCHANGED <<dialer, mPeers, record, has, told, cached, tracker>>
  BY DEF connectFails
<1>2. /\ e \in Ends /\ a \in End /\ b \in End /\ Other(n) \in Nodes /\ PairOK(n, n, a, b)
      /\ StillOK(e) /\ NoFlood(e)
  BY <1>1, RestTyped, StillStart, StillPair
<1>3. [e EXCEPT ![c][n].dial = FALSE] = f
  BY <1>1, <1>2 DEF Ends
<1>4. x \in End
  BY <1>2 DEF End
<1> HIDE DEF a, b, x, n
<1>5. At(e, f, c, n, x, e[c][Other(n)])
  BY <1>1, <1>2, <1>4, SetAt
<1>6. x = [a EXCEPT !.dial = FALSE, !.state = a.state] /\ a.state \in {a.state, "CONNECTED"}
  BY <1>2 DEF x, End
<1>7. PairOK(n, n, x, b) /\ Quiet(n, n, a, x) /\ SameFlood(a, x) /\ a.state # "none"
  BY <1>1, <1>2, <1>4, <1>6, PairDial
<1>8. Quiet(Other(n), n, b, b) /\ SameFlood(b, b)
  BY <1>2, QuietSelf
<1>9. StillOK(f) /\ NoFlood(f)
  <2> HIDE DEF f
  <2>1. n = dialer[c] /\ a = e[c][n] /\ b = e[c][Other(n)]
    BY DEF n, a, b
  <2>2. StillOK(f)
    BY <1>1, <1>2, <1>5, <1>7, <1>8, <2>1, StillAt
  <2>3. NoFlood(f)
    BY <1>1, <1>2, <1>5, <1>7, <1>8, <2>1, NoFloodAt
  <2> QED
    BY <2>2, <2>3
<1>10. f[c][n].state # "none"
  <2>1. x.state # "none"
    BY <1>7 DEF Quiet
  <2> QED
    BY <1>5, <2>1 DEF At
<1> HIDE DEF f
<1>11. StillOK(e') /\ NoFlood(e')
  BY <1>1, <1>3, <1>9, <1>10, StillDrop
<1>12. faults' \in 0 .. MaxFaults
  BY RestTyped DEF connectFails
<1> QED
  BY <1>1, <1>11, <1>12, RestTyped, QuietFinish

\* HELLO comes back to the caller.
LEMMA recvHelloBackInv ==
    ASSUME IInv, NEW c \in Conn, NEW n \in Nodes, recvHelloBack(c, n)
    PROVE  IInv'
<1> DEFINE a == e[c][n]
           b == e[c][Other(n)]
           t == Taken(a)
           x == [t EXCEPT !.state = "GOT_HELLO"]
           r == Read(c, n)
           f == [r EXCEPT ![c] = [r[c] EXCEPT ![n] = x]]
<1>1. /\ n = dialer[c] /\ Receives(c, n, "HELLO") /\ "HELLO" \in Message
      /\ e' = [r EXCEPT ![c][n].state = "GOT_HELLO"]
      /\ UNCHANGED <<dialer, mPeers, has, told, cached, tracker, faults>>
  BY DEF recvHelloBack, Message
<1>2. /\ e \in Ends /\ a \in End /\ b \in End /\ Other(n) \in Nodes /\ PairOK(n, n, a, b)
      /\ StillOK(e) /\ NoFlood(e)
  BY <1>1, RestTyped, StillStart, StillPair
<1>3. a.state \in {"CONNECTED", "GOT_HELLO"} /\ a.wire # <<>> /\ Head(a.wire) = "HELLO"
  BY <1>1, ReceivesFacts
<1>4. At(e, r, c, n, t, b) /\ t \in End
  BY <1>2, <1>3, ReadAt, TakenFields
<1>5. r \in Ends /\ r[c][n] = t /\ r[c][Other(n)] = b
  BY <1>4 DEF At
<1> HIDE DEF r, t
<1>6. x \in End
  BY <1>4 DEF End
<1>7. e' = f
  BY <1>1, <1>5 DEF Ends
<1> HIDE DEF x
<1>8. At(r, f, c, n, x, b)
  BY <1>5, <1>6, SetAt
<1>9. At(e, e', c, n, x, b)
  BY <1>4, <1>7, <1>8, AtTwice
<1>10. PairOK(n, n, x, b) /\ Quiet(n, n, a, x) /\ SameFlood(a, x)
  <2>1. x = [Taken(a) EXCEPT !.state = "GOT_HELLO"]
    BY DEF x, t
  <2> HIDE DEF a, b
  <2> QED
    BY <1>2, <1>3, <1>6, <2>1, PairHelloBack
<1>11. Quiet(Other(n), n, b, b) /\ SameFlood(b, b)
  BY <1>2, QuietSelf
<1>12. StillOK(e')
  BY <1>1, <1>2, <1>9, <1>10, <1>11, StillAt
<1>13. NoFlood(e')
  BY <1>1, <1>2, <1>9, <1>10, <1>11, NoFloodAt
<1>14. record' \in [Nodes -> {"unknown", "ready", "waiting"}]
  BY RestTyped DEF recvHelloBack
<1> QED
  BY <1>1, <1>12, <1>13, <1>14, RestTyped, QuietFinish

\* The other node gets the set; the time of the next attempt comes.
LEMMA cacheInv ==
    ASSUME IInv, cache \/ \E n \in Nodes : backOffEnds(n)
    PROVE  IInv'
<1>1. /\ UNCHANGED <<dialer, e, mPeers, has, told, tracker, faults>>
      /\ cached' \subseteq Nodes
      /\ record' \in [Nodes -> {"unknown", "ready", "waiting"}]
  <2>1. CASE cache
    <3>1. Wanter \in Nodes
      BY OverlayAssumption
    <3>2. Other(Wanter) \in Nodes
      BY <3>1, OtherFacts
    <3> QED
      BY <2>1, <3>2, RestTyped DEF cache
  <2>2. CASE \E n \in Nodes : backOffEnds(n)
    BY <2>2, RestTyped DEF backOffEnds
  <2> QED
    BY <2>1, <2>2
<1>2. StillOK(e') /\ NoFlood(e')
  BY <1>1, RestTyped, StillStart
<1> QED
  BY <1>1, <1>2, RestTyped, QuietFinish

-----------------------------------------------------------------------------
(* The item fetcher.                                                       *)

\* Whom the fetcher asks is on the list, and it remembers connections.
LEMMA TrackerFacts ==
    ASSUME TypeOK
    PROVE  /\ StillAsked \in Seq(Conn) /\ Candidates \in SUBSET Listed(Wanter)
           /\ Wanter \in Nodes /\ Listed(Wanter) \in SUBSET Conn
<1> DEFINE A == tracker.asked
           list == mPeers[Wanter]
           keep == {i \in DOMAIN A : A[i] \in Listed(Wanter)}
           K == keep \cup {0}
           k == CHOOSE i \in K : \A j \in keep : j <= i
<1>1. Wanter \in Nodes
  BY OverlayAssumption
<1>2. A \in Seq(Conn) /\ list \in Seq(Conn)
  BY <1>1 DEF TypeOK
<1>3. DOMAIN A = 1 .. Len(A) /\ Len(A) \in Nat /\ DOMAIN list = 1 .. Len(list) /\ Len(list) \in Nat
      /\ \A i \in DOMAIN list : list[i] \in Conn
  BY <1>2
<1>4. Listed(Wanter) \in SUBSET Conn
  BY <1>3 DEF Listed
<1>5. K \in SUBSET Nat /\ K # {} /\ \A i \in K : i <= Len(A)
  BY <1>3
<1>6. \E i \in K : \A j \in K : i >= j
  <2> HIDE DEF K, A
  <2> QED
    BY <1>3, <1>5, GreatestNatural
<1>7. k \in K
  <2>1. \E i \in K : \A j \in keep : j <= i
    <3>1. PICK i \in K : \A j \in K : i >= j
      BY <1>6
    <3>2. \A j \in keep : j \in Nat /\ i \in Nat /\ j <= i
      BY <1>5, <3>1
    <3> QED
      BY <3>2
  <2> HIDE DEF K, keep
  <2> QED
    BY <2>1
<1>8. StillAsked = SubSeq(A, 1, k)
  BY DEF StillAsked
<1> HIDE DEF k
<1>9. k \in Nat /\ k <= Len(A)
  BY <1>5, <1>7
<1>10. StillAsked \in Seq(Conn) /\ Len(StillAsked) = k /\ (k > 0 => StillAsked[k] = A[k])
  <2> HIDE DEF A
  <2> QED
    BY <1>2, <1>3, <1>8, <1>9
<1>11. StillAsked # <<>> => Last(StillAsked) \in Listed(Wanter)
  <2> SUFFICES ASSUME StillAsked # <<>> PROVE Last(StillAsked) \in Listed(Wanter)
    OBVIOUS
  <2>1. k > 0
    BY <1>9, <1>10
  <2>2. A[k] \in Listed(Wanter)
    BY <1>7, <2>1
  <2>3. Last(StillAsked) = A[k]
    BY <1>10, <2>1 DEF Last
  <2> QED
    BY <2>2, <2>3
<1>12. ASSUME NEW c \in Listed(Wanter) PROVE getNextPeer(c) \in Listed(Wanter)
  <2> DEFINE i == CHOOSE j \in DOMAIN list : list[j] = c
  <2>1. i \in DOMAIN list
    <3>1. \E j \in DOMAIN list : list[j] = c
      BY DEF Listed
    <3> QED
      BY <3>1
  <2>2. getNextPeer(c) = IF i = Len(list) THEN list[1] ELSE list[i + 1]
    BY DEF getNextPeer
  <2> HIDE DEF i
  <2>3. 1 \in DOMAIN list /\ (i # Len(list) => i + 1 \in DOMAIN list)
    BY <1>3, <2>1
  <2> QED
    BY <2>2, <2>3 DEF Listed
<1>13. Candidates \in SUBSET Listed(Wanter)
  BY <1>11, <1>12 DEF Candidates
<1> QED
  BY <1>1, <1>4, <1>10, <1>13

\* Tracker::tryNextPeer, from ends that are in order.
LEMMA tryNextPeerFacts ==
    ASSUME IInv, NEW f, StillOK(f), NoFlood(f), tryNextPeer(f)
    PROVE  /\ StillOK(e') /\ NoFlood(e') /\ faults' \in 0 .. MaxFaults
           /\ tracker' \in [asked : Seq(Conn), last : Conn \cup {NoConn}]
<1>1. /\ StillAsked \in Seq(Conn) /\ Candidates \in SUBSET Listed(Wanter)
      /\ Wanter \in Nodes /\ Listed(Wanter) \in SUBSET Conn
  BY RestTyped, TrackerFacts
<1>2. CASE /\ Candidates = {}
           /\ tracker' = [tracker EXCEPT !.asked = <<>>]
           /\ e' = f
           /\ UNCHANGED faults
  <2>1. tracker \in [asked : Seq(Conn), last : Conn \cup {NoConn}] /\ <<>> \in Seq(Conn)
    BY RestTyped
  <2>2. tracker' \in [asked : Seq(Conn), last : Conn \cup {NoConn}]
    BY <1>2, <2>1
  <2>3. faults' \in 0 .. MaxFaults
    BY <1>2, RestTyped
  <2>4. StillOK(e') /\ NoFlood(e')
    BY <1>2
  <2> QED
    BY <2>2, <2>3, <2>4
<1>3. ASSUME NEW c \in Candidates,
             f[c][Wanter].state = "GOT_HELLO" \/ faults < MaxFaults,
             faults' = IF f[c][Wanter].state = "GOT_HELLO" THEN faults ELSE faults + 1,
             e' = send([f EXCEPT ![c][Wanter].early = @ \/ ~(f[c][Wanter].state = "GOT_HELLO")],
                       c, Wanter, <<"GET_TX_SET">>),
             tracker' = [asked |-> Append(StillAsked, c), last |-> c]
      PROVE  /\ StillOK(e') /\ NoFlood(e') /\ faults' \in 0 .. MaxFaults
             /\ tracker' \in [asked : Seq(Conn), last : Conn \cup {NoConn}]
  <2> DEFINE n == Wanter
             a == f[c][n]
             b == f[c][Other(n)]
             d == dialer[c]
             late == a.state = "GOT_HELLO"
             x == [a EXCEPT !.early = @ \/ ~late]
             g == [f EXCEPT ![c] = [f[c] EXCEPT ![n] = x]]
             ms == <<"GET_TX_SET">>
  <2>1. c \in Conn /\ n \in Nodes
    BY <1>1
  <2>2. /\ f \in Ends /\ a \in End /\ b \in End /\ Other(n) \in Nodes /\ PairOK(n, d, a, b)
        /\ a.state = "none" <=> e[c][n].state = "none"
    BY <2>1, StillPair
  <2>3. a.state # "none"
    <3>1. e[c][n].state # "none"
      BY <1>1, <2>1 DEF IInv, OpenIsListed
    <3> QED
      BY <2>2, <3>1
  <2>4. e' = send(g, c, n, ms)
    BY <1>3, <2>1, <2>2 DEF Ends
  <2>5. /\ x \in End /\ x.state = a.state /\ x.dial = a.dial /\ x.open = a.open
        /\ x.posted = a.posted /\ x.wire = a.wire /\ x.early = (a.early \/ ~late)
        /\ x.sent = a.sent /\ x.took = a.took
    BY <2>2 DEF End
  <2> HIDE DEF a, b, d, x, late, n
  <2>6. PairOK(n, d, x, b) /\ Quiet(n, d, a, x)
    BY <2>1, <2>2, <2>3, <2>5, PairSame
  <2>7. SameFlood(a, x) /\ Quiet(Other(n), d, b, b) /\ SameFlood(b, b)
    BY <2>2, <2>5, QuietSelf DEF SameFlood
  <2>8. At(f, g, c, n, x, f[c][Other(n)])
    BY <2>1, <2>2, <2>5, SetAt
  <2> HIDE DEF g
  <2>9. a = f[c][n] /\ b = f[c][Other(n)] /\ d = dialer[c]
    BY DEF a, b, d
  <2>10. StillOK(g)
    BY <2>1, <2>6, <2>7, <2>8, <2>9, StillAt
  <2>11. NoFlood(g)
    BY <2>1, <2>7, <2>8, <2>9, NoFloodAt
  <2>12. g[c][n].state # "none" /\ (g[c][n].state = "GOT_HELLO" \/ g[c][n].early)
    <3>1. g[c][n] = x
      BY <2>8 DEF At
    <3> QED
      BY <2>3, <2>5, <3>1 DEF late
  <2>13. "GET_TX_SET" \in Message
    BY DEF Message
  <2>14. ms \in Seq(Message) /\ ~Has(ms, "HELLO")
    BY <2>13, OneMessage
  <2> HIDE DEF ms
  <2>15. StillOK(e') /\ NoFlood(e')
    BY <2>1, <2>4, <2>10, <2>11, <2>12, <2>14, StillSend
  <2>16. faults' \in 0 .. MaxFaults
    BY <1>3, RestTyped
  <2>17. Append(StillAsked, c) \in Seq(Conn)
    BY <1>1, <2>1
  <2>18. tracker' \in [asked : Seq(Conn), last : Conn \cup {NoConn}]
    BY <1>3, <2>1, <2>17
  <2> QED
    BY <2>15, <2>16, <2>18
<1> QED
  BY <1>2, <1>3 DEF tryNextPeer

\* The fetcher's timer.
LEMMA fetchTimerInv ==
    ASSUME IInv, fetchTimer
    PROVE  IInv'
<1>1. tryNextPeer(e) /\ UNCHANGED <<dialer, mPeers, record, has, told, cached>>
  BY DEF fetchTimer
<1>2. /\ StillOK(e') /\ NoFlood(e') /\ faults' \in 0 .. MaxFaults
      /\ tracker' \in [asked : Seq(Conn), last : Conn \cup {NoConn}]
  BY <1>1, RestTyped, StillStart, tryNextPeerFacts
<1> QED
  BY <1>1, <1>2, RestTyped, QuietFinish

\* The Peer does not have the set: the next one is asked.
LEMMA recvDontHaveInv ==
    ASSUME IInv, NEW c \in Conn, NEW n \in Nodes, recvDontHave(c, n)
    PROVE  IInv'
<1>1. /\ n = Wanter /\ Receives(c, n, "DONT_HAVE") /\ "DONT_HAVE" \in Message
      /\ UNCHANGED <<dialer, mPeers, record, has, told, cached>>
      /\ tryNextPeer(Read(c, n)) \/ (e' = Read(c, n) /\ UNCHANGED <<tracker, faults>>)
  BY DEF recvDontHave, Message
<1>2. e[c][n].state # "none" /\ e[c][n].wire # <<>> /\ Head(e[c][n].wire) # "HELLO"
  BY <1>1, ReceivesFacts
<1>3. StillOK(Read(c, n)) /\ NoFlood(Read(c, n))
  BY <1>2, RestTyped, StillRead
<1>4. /\ StillOK(e') /\ NoFlood(e') /\ faults' \in 0 .. MaxFaults
      /\ tracker' \in [asked : Seq(Conn), last : Conn \cup {NoConn}]
  <2>1. CASE tryNextPeer(Read(c, n))
    BY <1>3, <2>1, tryNextPeerFacts
  <2>2. CASE e' = Read(c, n) /\ UNCHANGED <<tracker, faults>>
    BY <1>3, <2>2, RestTyped
  <2> QED
    BY <1>1, <2>1, <2>2
<1> QED
  BY <1>1, <1>4, RestTyped, QuietFinish

-----------------------------------------------------------------------------
(* Flooding.                                                               *)

\* Floodgate::broadcast to Peers that said HELLO.
LEMMA broadcastFacts ==
    ASSUME NEW f, StillOK(f), NEW n \in Nodes, NEW to \in SUBSET Conn,
           \A k \in to : f[k][n].state = "GOT_HELLO"
    PROVE  /\ StillOK(broadcast(f, n, to))
           /\ \A k \in Conn, m \in Nodes :
                 /\ broadcast(f, n, to)[k][m].took = f[k][m].took
                 /\ k \in to /\ m = n => broadcast(f, n, to)[k][m].sent = (IF f[k][m].sent = 2 THEN 2 ELSE f[k][m].sent + 1)
                 /\ ~(k \in to /\ m = n) => broadcast(f, n, to)[k][m].sent = f[k][m].sent
<1> DEFINE g == broadcast(f, n, to)
           One(k) == [f EXCEPT ![k][n].sent = IF @ = 2 THEN 2 ELSE @ + 1]
           ms == <<"TRANSACTION">>
<1>1. g = [k \in Conn |-> IF k \in to THEN send(One(k), k, n, ms)[k] ELSE f[k]]
  BY DEF broadcast
<1>2. f \in Ends
  BY DEF StillOK
<1> HIDE DEF g
<1>3. ASSUME NEW k \in to
      PROVE  /\ g[k] \in [Nodes -> End]
             /\ \A m \in Nodes : /\ EndOK(m, dialer[k], g[k][m], g[k][Other(m)])
                                 /\ Quiet(m, dialer[k], e[k][m], g[k][m])
                                 /\ g[k][m].took = f[k][m].took
                                 /\ m # n => g[k][m].sent = f[k][m].sent
             /\ g[k][n].sent = (IF f[k][n].sent = 2 THEN 2 ELSE f[k][n].sent + 1)
  <2> DEFINE a == f[k][n]
             b == f[k][Other(n)]
             d == dialer[k]
             s == IF a.sent = 2 THEN 2 ELSE a.sent + 1
             x == [a EXCEPT !.sent = s]
             h == [f EXCEPT ![k] = [f[k] EXCEPT ![n] = x]]
             j == send(h, k, n, ms)
  <2>1. k \in Conn /\ a \in End /\ b \in End /\ PairOK(n, d, a, b)
    BY StillPair
  <2>2. One(k) = h
    BY <1>2, <2>1 DEF Ends
  <2> HIDE DEF One
  <2>3. s \in 0 .. 2
    BY <2>1, EndFields
  <2> HIDE DEF s
  <2>4. /\ x \in End /\ x.state = a.state /\ x.dial = a.dial /\ x.open = a.open
        /\ x.posted = a.posted /\ x.wire = a.wire /\ x.early = a.early
        /\ x.sent = s /\ x.took = a.took
    BY <2>1, <2>3 DEF End
  <2> HIDE DEF x
  <2>5. At(f, h, k, n, x, b)
    BY <1>2, <2>1, <2>4, SetAt
  <2>6. a.state = "GOT_HELLO" /\ a.state # "none"
    BY <1>3
  <2> HIDE DEF a, b, d
  <2>7. PairOK(n, d, x, b) /\ Quiet(n, d, a, x) /\ Quiet(Other(n), d, b, b)
    BY <2>1, <2>4, <2>6, PairSame, QuietSelf
  <2>8. a = f[k][n] /\ b = f[k][Other(n)] /\ d = dialer[k]
    BY DEF a, b, d
  <2> HIDE DEF h
  <2>9. StillOK(h)
    BY <2>1, <2>5, <2>7, <2>8, StillAt
  <2>10. h[k][n] = x /\ h[k][Other(n)] = b /\ h \in Ends
    BY <2>5 DEF At
  <2>11. "TRANSACTION" \in Message
    BY DEF Message
  <2>12. ms \in Seq(Message) /\ ~Has(ms, "HELLO")
    BY <2>11, OneMessage
  <2> HIDE DEF ms
  <2>13. StillOK(j)
    BY <2>1, <2>4, <2>6, <2>9, <2>10, <2>12, StillSend
  <2>14. At(h, j, k, n, x, Sent(x, b, ms))
    BY <2>1, <2>10, <2>12, SendAt
  <2>15. Sent(x, b, ms).sent = b.sent /\ Sent(x, b, ms).took = b.took
    BY <2>1, <2>4, <2>12, SentFields
  <2>16. g[k] = j[k]
    BY <1>1, <2>1, <2>2
  <2> HIDE DEF j
  <2>17. ASSUME NEW m \in Nodes
         PROVE  /\ EndOK(m, dialer[k], g[k][m], g[k][Other(m)])
                /\ Quiet(m, dialer[k], e[k][m], g[k][m])
                /\ g[k][m].took = f[k][m].took
                /\ m # n => g[k][m].sent = f[k][m].sent
    <3>1. m = n \/ m = Other(n)
      BY OtherFacts
    <3>2. j[k][n] = x /\ j[k][Other(n)] = Sent(x, b, ms)
      BY <2>14 DEF At
    <3>3. g[k][m].took = f[k][m].took /\ (m # n => g[k][m].sent = f[k][m].sent)
      BY <2>4, <2>8, <2>15, <2>16, <3>1, <3>2
    <3> QED
      BY <2>1, <2>13, <2>16, <3>3 DEF StillOK
  <2>18. g[k][n].sent = s
    BY <2>4, <2>14, <2>16 DEF At
  <2>19. g[k] \in [Nodes -> End]
    BY <2>1, <2>13, <2>16 DEF StillOK, Ends
  <2> QED
    BY <2>8, <2>17, <2>18, <2>19 DEF s
<1>4. ASSUME NEW k \in Conn, k \notin to PROVE g[k] = f[k]
  BY <1>1, <1>4
<1>5. ASSUME NEW k \in Conn
      PROVE  g[k] \in [Nodes -> End]
  BY <1>2, <1>3, <1>4 DEF Ends
<1>6. g \in Ends
  <2>1. g = [k \in Conn |-> g[k]]
    BY <1>1
  <2> QED
    BY <1>5, <2>1 DEF Ends
<1>7. ASSUME NEW k \in Conn, NEW m \in Nodes
      PROVE  /\ EndOK(m, dialer[k], g[k][m], g[k][Other(m)])
             /\ Quiet(m, dialer[k], e[k][m], g[k][m])
             /\ g[k][m].took = f[k][m].took
             /\ k \in to /\ m = n => g[k][m].sent = (IF f[k][m].sent = 2 THEN 2 ELSE f[k][m].sent + 1)
             /\ ~(k \in to /\ m = n) => g[k][m].sent = f[k][m].sent
  <2>1. CASE k \in to
    BY <1>3, <2>1
  <2>2. CASE k \notin to
    BY <1>4, <2>2 DEF StillOK
  <2> QED
    BY <2>1, <2>2
<1>8. StillOK(g)
  BY <1>6, <1>7 DEF StillOK
<1> QED
  BY <1>7, <1>8 DEF g

\* A transaction was sent from the end or taken from there, once.
FloodedOnce(a) == a.sent + (IF a.took THEN 1 ELSE 0) <= 1

\* n may flood f to the connections in to if its record becomes T.
FloodsTo(n, f, to, T) ==
    /\ to \subseteq T /\ told[n] \ NoRecord \subseteq T
    /\ \A k \in to : f[k][n].state = "GOT_HELLO" /\ k \notin told[n]
    /\ \A k \in Conn, m \in Nodes :
          \/ SameFlood(e[k][m], f[k][m])
          \/ m = n /\ k \in T /\ k \notin to /\ FloodedOnce(f[k][m])

\* A node floods to Peers its record does not name, and names them.
LEMMA FloodFinish ==
    ASSUME IInv, NEW n \in Nodes, NEW f, StillOK(f), NEW to \in SUBSET Conn, NEW T \in SUBSET Conn,
           FloodsTo(n, f, to, T), e' = broadcast(f, n, to), has' = has \cup {n}, told' = [told EXCEPT ![n] = T],
           UNCHANGED <<dialer, mPeers, record, cached, tracker, faults>>
    PROVE  IInv'
<1> USE DEF FloodsTo
<1>1. /\ StillOK(e')
      /\ \A k \in Conn, m \in Nodes :
                 /\ e'[k][m].took = f[k][m].took
                 /\ k \in to /\ m = n => e'[k][m].sent = (IF f[k][m].sent = 2 THEN 2 ELSE f[k][m].sent + 1)
                 /\ ~(k \in to /\ m = n) => e'[k][m].sent = f[k][m].sent
  BY broadcastFacts
<1>2. told \in [Nodes -> (SUBSET Conn) \cup {NoRecord}] /\ has \subseteq Nodes
  BY RestTyped DEF TypeOK
<1>3. told' \in [Nodes -> (SUBSET Conn) \cup {NoRecord}] /\ has' \subseteq Nodes
  BY <1>2
<1>4. TypeOK'
  BY <1>1, <1>3, RestTyped DEF TypeOK, StillOK, Ends
<1>5. EndsOK' /\ OpenIsListed' /\ AcceptBound'
  BY <1>1, QuietStep DEF IInv
<1>6. ASSUME NEW k \in Conn, NEW m \in Nodes
      PROVE  /\ e'[k][m].sent > 0 \/ e'[k][m].took => k \in told'[m] /\ m \in has'
             /\ e'[k][m].sent + (IF e'[k][m].took THEN 1 ELSE 0) <= 1
  <2>1. /\ e[k][m].sent > 0 \/ e[k][m].took => k \in told[m] /\ m \in has
        /\ e[k][m].sent + (IF e[k][m].took THEN 1 ELSE 0) <= 1
    BY DEF IInv, ToldInv
  <2>2. k \in told[m] => k \in told'[m]
    <3>1. k \notin NoRecord
      BY ConnFacts DEF NoRecord
    <3> QED
      BY <1>2, <3>1
  <2>3. e[k][m].sent \in Nat /\ e[k][m].took \in BOOLEAN
    <3>1. e[k][m] \in End
      BY RestTyped, PairAt
    <3> QED
      BY <3>1, EndFields
  <2>4. CASE k \in to /\ m = n
    <3>1. e[k][m].sent = 0 /\ ~e[k][m].took
      BY <2>1, <2>3, <2>4
    <3>2. SameFlood(e[k][m], f[k][m])
      BY <2>4
    <3>3. e'[k][m].sent = 1 /\ ~e'[k][m].took
      BY <1>1, <2>4, <3>1, <3>2 DEF SameFlood
    <3>4. k \in told'[m] /\ m \in has'
      BY <1>2, <2>4
    <3> QED
      BY <3>3, <3>4
  <2>5. CASE ~(k \in to /\ m = n)
    <3>1. e'[k][m].sent = f[k][m].sent /\ e'[k][m].took = f[k][m].took
      BY <1>1, <2>5
    <3>2. CASE SameFlood(e[k][m], f[k][m])
      BY <2>1, <2>2, <3>1, <3>2 DEF SameFlood
    <3>3. CASE m = n /\ k \in T /\ FloodedOnce(f[k][m])
      BY <1>2, <3>1, <3>3 DEF FloodedOnce
    <3> QED
      BY <3>2, <3>3
  <2> QED
    BY <2>4, <2>5
<1>7. ToldInv'
  BY <1>6 DEF ToldInv
<1> QED
  BY <1>4, <1>5, <1>7 DEF IInv

\* A transaction is submitted or sent again.
LEMMA broadcastMessageInv ==
    ASSUME IInv, NEW n \in Nodes, broadcastMessage(n)
    PROVE  IInv'
<1> DEFINE to == receivers(n)
           T == toldAfter(n, to)
<1>1. /\ has' = has \cup {n} /\ e' = broadcast(e, n, to) /\ told' = [told EXCEPT ![n] = T]
      /\ UNCHANGED <<dialer, mPeers, record, cached, tracker, faults>>
  BY DEF broadcastMessage
<1>2. StillOK(e) /\ NoFlood(e)
  BY RestTyped, StillStart
<1>3. Listed(n) \in SUBSET Conn
  BY DEF IInv, OpenIsListed
<1>4. told[n] \in SUBSET Conn \/ told[n] = NoRecord
  <2>1. told \in [Nodes -> (SUBSET Conn) \cup {NoRecord}]
    BY RestTyped DEF TypeOK
  <2> QED
    BY <2>1
<1>5. \A k \in Conn : k \notin NoRecord
  BY ConnFacts DEF NoRecord
<1>6. to \in SUBSET Conn /\ to \subseteq Listed(n)
      /\ \A k \in to : e[k][n].state = "GOT_HELLO" /\ k \notin told[n]
  BY <1>3, <1>5 DEF receivers
<1>7. T \in SUBSET Conn /\ to \subseteq T /\ told[n] \ NoRecord \subseteq T
  BY <1>3, <1>4, <1>6 DEF toldAfter
<1> HIDE DEF to, T
<1>8. FloodsTo(n, e, to, T)
  BY <1>6, <1>7 DEF FloodsTo, SameFlood
<1> QED
  BY <1>1, <1>2, <1>6, <1>7, <1>8, FloodFinish

\* A transaction is received.
LEMMA recvTransactionInv ==
    ASSUME IInv, NEW c \in Conn, NEW n \in Nodes, recvTransaction(c, n)
    PROVE  IInv'
<1> DEFINE r == Read(c, n)
           a == e[c][n]
           b == e[c][Other(n)]
           d == dialer[c]
           t == Taken(a)
           x == [t EXCEPT !.took = TRUE]
           f == [r EXCEPT ![c] = [r[c] EXCEPT ![n] = x]]
           record1 == (told[n] \ NoRecord) \cup {c}
           to == {k \in Listed(n) \ record1 : e[k][n].state = "GOT_HELLO"}
           T == record1 \cup to
<1>1. /\ Receives(c, n, "TRANSACTION") /\ "TRANSACTION" \in Message
      /\ UNCHANGED <<dialer, mPeers, record, cached, tracker, faults>>
  BY DEF recvTransaction, Message
<1>2. a.state # "none" /\ a.wire # <<>> /\ Head(a.wire) # "HELLO"
  BY <1>1, ReceivesFacts
<1>3. /\ StillOK(r) /\ NoFlood(r) /\ r \in Ends /\ At(e, r, c, n, t, b)
      /\ t \in End /\ t.state = a.state
  BY <1>2, RestTyped, StillRead
<1>4. CASE n \in has
  <2>1. e' = r /\ UNCHANGED <<has, told>>
    BY <1>4 DEF recvTransaction
  <2> QED
    BY <1>1, <1>3, <2>1, RestTyped, QuietFinish
<1>5. CASE n \notin has
  <2>1. /\ has' = has \cup {n} /\ e' = broadcast([r EXCEPT ![c][n].took = TRUE], n, to)
        /\ told' = [told EXCEPT ![n] = T]
    BY <1>5 DEF recvTransaction
  <2>2. r[c][n] = t /\ r[c][Other(n)] = b
    BY <1>3 DEF At
  <2>3. a \in End /\ t.sent = a.sent /\ t.took = a.took
    BY <1>2, RestTyped, PairAt, TakenFields
  <2>4. a.sent = 0 /\ ~a.took
    <3>1. a.sent \in Nat /\ a.took \in BOOLEAN
      BY <2>3, EndFields
    <3> QED
      BY <1>5, <3>1 DEF IInv, ToldInv
  <2> HIDE DEF r, t
  <2>5. [r EXCEPT ![c][n].took = TRUE] = f
    BY <1>3, <2>2 DEF Ends
  <2>6. /\ x \in End /\ x.state = t.state /\ x.dial = t.dial /\ x.open = t.open
        /\ x.posted = t.posted /\ x.wire = t.wire /\ x.early = t.early
        /\ x.sent = t.sent /\ x.took = TRUE
    BY <1>3 DEF End
  <2> HIDE DEF x
  <2>7. At(r, f, c, n, x, b)
    BY <1>3, <2>2, <2>6, SetAt
  <2>8. PairOK(n, d, t, b) /\ b \in End
    BY <1>3, <2>2, StillPair
  <2>9. StillOK(f)
    <3> HIDE DEF a, b, d, f
    <3>1. t.state # "none"
      BY <1>2, <1>3
    <3>2. PairOK(n, d, x, b) /\ Quiet(n, d, t, x) /\ Quiet(Other(n), d, b, b)
      BY <1>3, <2>6, <2>8, <3>1, PairSame, QuietSelf
    <3>3. d = dialer[c]
      BY DEF d
    <3> QED
      BY <1>3, <2>2, <2>7, <3>2, <3>3, StillAt
  <2>10. \A k \in Conn \ {c} : f[k] = e[k]
    BY <1>3, <2>7 DEF At
  <2>11. f[c][n] = x /\ f[c][Other(n)] = b
    BY <2>7 DEF At
  <2> HIDE DEF f
  <2>12. Listed(n) \in SUBSET Conn
    BY DEF IInv, OpenIsListed
  <2>13. told[n] \in SUBSET Conn \/ told[n] = NoRecord
    <3>1. told \in [Nodes -> (SUBSET Conn) \cup {NoRecord}]
      BY RestTyped DEF TypeOK
    <3> QED
      BY <3>1
  <2>14. \A k \in Conn : k \notin NoRecord
    BY ConnFacts DEF NoRecord
  <2>15. /\ to \in SUBSET Conn /\ T \in SUBSET Conn /\ to \subseteq T
         /\ told[n] \ NoRecord \subseteq T /\ c \in T /\ c \notin to
    BY <2>12, <2>13
  <2>16. \A k \in to : f[k][n].state = "GOT_HELLO" /\ k \notin told[n]
    <3> TAKE k \in to
    <3>1. k \in Conn /\ k # c /\ k \notin told[n] /\ e[k][n].state = "GOT_HELLO"
      BY <2>12, <2>14
    <3> QED
      BY <2>10, <3>1
  <2>17. ASSUME NEW k \in Conn, NEW m \in Nodes
         PROVE  \/ SameFlood(e[k][m], f[k][m])
                \/ m = n /\ k \in T /\ k \notin to /\ FloodedOnce(f[k][m])
    <3>1. CASE k # c
      BY <2>10, <3>1 DEF SameFlood
    <3>2. CASE k = c /\ m # n
      <4>1. m = Other(n)
        BY <3>2, OtherFacts
      <4> QED
        BY <2>11, <3>2, <4>1 DEF SameFlood
    <3>3. CASE k = c /\ m = n
      <4>1. FloodedOnce(f[k][m])
        BY <2>3, <2>4, <2>6, <2>11, <3>3 DEF FloodedOnce
      <4> QED
        BY <2>15, <3>3, <4>1
    <3> QED
      BY <3>1, <3>2, <3>3
  <2>18. /\ e' = broadcast(f, n, to)
         /\ has' = has \cup {n} /\ told' = [told EXCEPT ![n] = T]
         /\ UNCHANGED <<dialer, mPeers, record, cached, tracker, faults>>
    BY <1>1, <2>1, <2>5
  <2> HIDE DEF to, T, a, b, d
  <2>19. FloodsTo(n, f, to, T)
    BY <2>15, <2>16, <2>17 DEF FloodsTo
  <2> QED
    BY IInv, n \in Nodes, <2>9, <2>15, <2>18, <2>19, FloodFinish
<1> QED
  BY <1>4, <1>5

-----------------------------------------------------------------------------
(* Steps that change the lists or accept a caller.                         *)

\* The connections of a list, and those whose socket is open at n.
Elems(list) == {list[i] : i \in DOMAIN list}
OpenAt(n) == {c \in Conn : e[c][n].state # "none" /\ e[c][n].open}
ListOK(n) == IsInjective(mPeers[n]) /\ Elems(mPeers[n]) = OpenAt(n)
Accepted(n) == {c \in Conn : dialer[c] = Other(n) /\ e[c][n].state = "GOT_HELLO"}

\* The invariant in these words.
LEMMA ListsOK ==
    /\ OpenIsListed <=> \A n \in Nodes : ListOK(n)
    /\ OpenIsListed' <=> \A n \in Nodes : ListOK(n)'
    /\ AcceptBound <=> \A n \in Nodes : Cardinality(Accepted(n)) < MaxPeers[n]
    /\ AcceptBound' <=> \A n \in Nodes : Cardinality(Accepted(n)') < MaxPeers[n]
BY DEF OpenIsListed, ListOK, OpenAt, Elems, Listed, AcceptBound, Accepted

\* A connection is put at the end of a list.
LEMMA AppendFacts ==
    ASSUME NEW list \in Seq(Conn), NEW c \in Conn, c \notin Elems(list), IsInjective(list)
    PROVE  /\ Append(list, c) \in Seq(Conn) /\ IsInjective(Append(list, c))
           /\ Elems(Append(list, c)) = Elems(list) \cup {c}
<1> DEFINE new == Append(list, c)
           k == Len(list)
<1>1. /\ new \in Seq(Conn) /\ k \in Nat /\ DOMAIN list = 1 .. k /\ DOMAIN new = 1 .. k + 1
      /\ new[k + 1] = c /\ \A i \in 1 .. k : new[i] = list[i]
  OBVIOUS
<1> HIDE DEF new, k
<1>2. \A i \in 1 .. k + 1 : i = k + 1 \/ i \in 1 .. k
  BY <1>1
<1>3. IsInjective(new)
  <2> SUFFICES ASSUME NEW i \in DOMAIN new, NEW j \in DOMAIN new, new[i] = new[j]
               PROVE  i = j
    BY DEF IsInjective
  <2>1. \A i1 \in 1 .. k : new[i1] # c /\ i1 \in DOMAIN list /\ new[i1] = list[i1]
    BY <1>1 DEF Elems
  <2> QED
    BY <1>1, <1>2, <2>1 DEF IsInjective
<1>4. Elems(new) = Elems(list) \cup {c}
  <2>1. \A i \in 1 .. k : i \in 1 .. k + 1
    BY <1>1
  <2>2. k + 1 \in 1 .. k + 1
    BY <1>1
  <2> QED
    BY <1>1, <1>2, <2>1, <2>2 DEF Elems
<1> QED
  BY <1>1, <1>3, <1>4 DEF new

\* The length of a part of a sequence.
LEMMA SubSeqLength ==
    ASSUME NEW S, NEW s \in Seq(S), NEW i \in Int, NEW j \in Int
    PROVE  Len(SubSeq(s, i, j)) = IF i <= j THEN j - i + 1 ELSE 0
OBVIOUS

\* dropPeer's erase.
LEMMA EraseFacts ==
    ASSUME NEW list \in Seq(Conn), NEW c \in Conn
    PROVE  /\ Erase(list, c) \in Seq(Conn)
           /\ IsInjective(list) => /\ IsInjective(Erase(list, c))
                                   /\ Elems(Erase(list, c)) = Elems(list) \ {c}
<1>1. CASE ~ \E i \in DOMAIN list : list[i] = c
  <2>1. Erase(list, c) = list
    BY <1>1 DEF Erase
  <2> QED
    BY <1>1, <2>1 DEF Elems
<1>2. CASE \E i \in DOMAIN list : list[i] = c
  <2> DEFINE i == CHOOSE j \in DOMAIN list : list[j] = c
             k == Len(list)
             new == Erase(list, c)
  <2>1. i \in DOMAIN list /\ list[i] = c
    BY <1>2
  <2>2. new = SubSeq(list, 1, i - 1) \o SubSeq(list, i + 1, k)
    BY <1>2 DEF Erase, RemoveAt
  <2> HIDE DEF i, new
  <2>3. k \in Nat /\ DOMAIN list = 1 .. k /\ i \in 1 .. k /\ \A j \in 1 .. k : list[j] \in Conn
    BY <2>1
  <2> DEFINE p == SubSeq(list, 1, i - 1)
             q == SubSeq(list, i + 1, k)
  <2>4. /\ p \in Seq(Conn) /\ Len(p) = i - 1 /\ \A j \in 1 .. i - 1 : p[j] = list[j]
    BY <2>3
  <2>5. /\ q \in Seq(Conn) /\ Len(q) = k - i /\ \A j \in 1 .. k - i : q[j] = list[j + i]
    <3>1. q \in Seq(Conn)
      BY <2>3
    <3>2. Len(q) = k - i
      <4>1. i \in Int /\ k \in Int /\ i <= k
        BY <2>3
      <4>2. Len(q) = IF i + 1 <= k THEN k - (i + 1) + 1 ELSE 0
        BY ONLY <4>1, list \in Seq(Conn), SubSeqLength DEF q
      <4> HIDE DEF k, q
      <4> QED
        BY ONLY <4>1, <4>2
    <3>3. ASSUME NEW j \in 1 .. k - i PROVE q[j] = list[j + i]
      <4>1. q[j] = list[(i + 1) + j - 1]
        BY <2>3
      <4>2. (i + 1) + j - 1 = j + i
        BY <2>3
      <4> QED
        BY <4>1, <4>2
    <3> QED
      BY <3>1, <3>2, <3>3
  <2> HIDE DEF p, q
  <2>6. /\ new \in Seq(Conn) /\ DOMAIN new = 1 .. k - 1
        /\ \A j \in 1 .. i - 1 : new[j] = list[j]
        /\ \A j \in i .. k - 1 : new[j] = list[j + 1]
    <3>1. new = p \o q
      BY <2>2 DEF p, q
    <3>2. new \in Seq(Conn) /\ Len(new) = k - 1 /\ DOMAIN new = 1 .. k - 1
      <4>1. new \in Seq(Conn) /\ Len(new) = Len(p) + Len(q)
        <5>1. p \in Seq(Conn) /\ q \in Seq(Conn)
          BY <2>4, <2>5
        <5>2. p \o q \in Seq(Conn) /\ Len(p \o q) = Len(p) + Len(q)
          BY ONLY <5>1
        <5> QED
          BY <3>1, <5>2
      <4>2. Len(new) = k - 1
        BY <2>3, <2>4, <2>5, <4>1
      <4> QED
        BY <4>1, <4>2
    <3>3. ASSUME NEW j \in 1 .. i - 1 PROVE new[j] = list[j]
      BY <2>3, <2>4, <2>5, <3>1
    <3>4. ASSUME NEW j \in i .. k - 1 PROVE new[j] = list[j + 1]
      <4>1. j - (i - 1) \in 1 .. k - i /\ j \in 1 .. k - 1 /\ ~(j <= i - 1)
        BY <2>3
      <4>2. new[j] = q[j - (i - 1)]
        BY <2>3, <2>4, <2>5, <3>1, <4>1
      <4>3. q[j - (i - 1)] = list[j - (i - 1) + i]
        BY <2>5, <4>1
      <4>4. j - (i - 1) + i = j + 1
        BY <2>3
      <4> QED
        BY <4>2, <4>3, <4>4
    <3> QED
      BY <3>2, <3>3, <3>4
  <2>7. \A j \in 1 .. k - 1 : (j \in 1 .. i - 1 /\ j < i) \/ (j \in i .. k - 1 /\ j >= i)
    BY <2>3
  <2>8. ASSUME IsInjective(list) PROVE IsInjective(new)
    <3> SUFFICES ASSUME NEW j \in 1 .. k - 1, NEW m \in 1 .. k - 1, new[j] = new[m]
                 PROVE  j = m
      BY <2>6 DEF IsInjective
    <3> DEFINE J == IF j < i THEN j ELSE j + 1
               M == IF m < i THEN m ELSE m + 1
    <3>1. new[j] = list[J] /\ J \in 1 .. k
      BY <2>3, <2>6, <2>7
    <3>2. new[m] = list[M] /\ M \in 1 .. k
      BY <2>3, <2>6, <2>7
    <3>3. J = M
      BY <2>3, <2>8, <3>1, <3>2 DEF IsInjective
    <3> QED
      BY <2>3, <3>3
  <2>9. ASSUME IsInjective(list) PROVE Elems(new) = Elems(list) \ {c}
    <3>1. ASSUME NEW j \in 1 .. k - 1 PROVE new[j] \in Elems(list) \ {c}
      <4> DEFINE J == IF j < i THEN j ELSE j + 1
      <4>1. new[j] = list[J] /\ J \in 1 .. k /\ J # i
        BY <2>3, <2>6, <2>7
      <4>2. list[J] # c
        BY <2>1, <2>3, <2>9, <4>1 DEF IsInjective
      <4> QED
        BY <2>3, <4>1, <4>2 DEF Elems
    <3>2. ASSUME NEW j \in 1 .. k, list[j] # c PROVE list[j] \in Elems(new)
      <4>1. j # i
        BY <2>1, <3>2
      <4>2. CASE j < i
        <5>1. j \in 1 .. i - 1 /\ j \in 1 .. k - 1
          BY <2>3, <4>2
        <5> QED
          BY <2>6, <5>1 DEF Elems
      <4>3. CASE j > i
        <5>1. j - 1 \in i .. k - 1 /\ j - 1 \in 1 .. k - 1 /\ (j - 1) + 1 = j
          BY <2>3, <4>3
        <5>2. new[j - 1] = list[j]
          BY <2>6, <5>1
        <5> QED
          BY <2>6, <5>1, <5>2 DEF Elems
      <4> QED
        BY <2>3, <4>1, <4>2, <4>3
    <3> QED
      BY <2>3, <2>6, <3>1, <3>2 DEF Elems
  <2> QED
    BY <2>6, <2>8, <2>9 DEF new
<1> QED
  BY <1>1, <1>2

\* The ends of connection c were changed, and perhaps who called it.
LEMMA EndsAt ==
    ASSUME EndsOK, NEW c \in Conn, NEW n \in Nodes, NEW x, NEW y, At(e, e', c, n, x, y),
           \A k \in Conn \ {c} : dialer'[k] = dialer[k], PairOK(n, dialer'[c], x, y)
    PROVE  EndsOK'
<1> SUFFICES ASSUME NEW k \in Conn, NEW m \in Nodes
             PROVE  EndOK(m, dialer'[k], e'[k][m], e'[k][Other(m)])
  BY DEF EndsOK
<1>1. CASE k # c
  BY <1>1 DEF At, EndsOK
<1>2. CASE k = c
  <2>1. (m = n /\ Other(m) = Other(n)) \/ (m = Other(n) /\ Other(m) = n)
    BY OtherFacts
  <2> QED
    BY <1>2, <2>1 DEF At, PairOK
<1> QED
  BY <1>1, <1>2

\* Nobody new was accepted at n.
LEMMA AcceptSame ==
    ASSUME AcceptBound, NEW n \in Nodes, Accepted(n)' \subseteq Accepted(n)
    PROVE  Cardinality(Accepted(n)') < MaxPeers[n]
<1> DEFINE S == Accepted(n)
           T == Accepted(n)'
<1>1. T \in SUBSET S /\ Cardinality(S) < MaxPeers[n] /\ MaxPeers[n] \in Nat
  BY ListsOK, OverlayAssumption
<1>2. IsFiniteSet(S)
  <2>1. IsFiniteSet(Conn)
    BY OverlayAssumption, FS_Interval DEF Conn
  <2> QED
    BY <2>1, FS_Subset DEF Accepted
<1> HIDE DEF S, T
<1>3. Cardinality(T) <= Cardinality(S) /\ Cardinality(T) \in Nat /\ Cardinality(S) \in Nat
  BY <1>1, <1>2, FS_Subset, FS_CardinalityType
<1>4. Cardinality(T) < MaxPeers[n]
  BY <1>1, <1>3
<1> QED
  BY <1>4 DEF T

\* A list holds at least as many places as connections.
LEMMA ListLength ==
    ASSUME NEW list \in Seq(Conn), NEW T \in SUBSET Elems(list)
    PROVE  IsFiniteSet(T) /\ Cardinality(T) <= Len(list) /\ Cardinality(T) \in Nat
<1> DEFINE D == DOMAIN list
<1>1. D = 1 .. Len(list) /\ Len(list) \in Nat
  OBVIOUS
<1>2. IsFiniteSet(D) /\ Cardinality(D) = Len(list)
  <2>1. IsFiniteSet(1 .. Len(list)) /\ Cardinality(1 .. Len(list)) = Len(list)
    BY <1>1, FS_Interval
  <2> QED
    BY <1>1, <2>1
<1>3. IsFiniteSet(Elems(list)) /\ Cardinality(Elems(list)) <= Cardinality(D)
  <2> DEFINE f == [i \in D |-> list[i]]
  <2>1. f \in Surjection(D, Elems(list))
    BY DEF Surjection, Elems
  <2> HIDE DEF f, D
  <2> QED
    BY <1>2, <2>1, FS_Surjection
<1>4. IsFiniteSet(T) /\ Cardinality(T) <= Cardinality(Elems(list))
  BY <1>3, FS_Subset
<1>5. Cardinality(T) \in Nat /\ Cardinality(Elems(list)) \in Nat
  BY <1>3, <1>4, FS_CardinalityType
<1> HIDE DEF D
<1> QED
  BY <1>1, <1>2, <1>3, <1>4, <1>5

-----------------------------------------------------------------------------
\* HELLO reaches the node that was called.  When it accepts, the list is shorter
\* than the limit, and whoever it accepted before is on it.
LEMMA recvHelloInv ==
    ASSUME IInv, NEW c \in Conn, NEW n \in Nodes, recvHello(c, n)
    PROVE  IInv'
<1> DEFINE a == e[c][n]
           o == Other(n)
           b == e[c][o]
           t == Taken(a)
           x == [t EXCEPT !.state = "GOT_HELLO", !.port = TRUE]
           r == Read(c, n)
           f == [r EXCEPT ![c] = [r[c] EXCEPT ![n] = x]]
           hp == <<"HELLO", "PEERS">>
           p == <<"PEERS">>
           y == Sent(x, b, hp)
           z == Sent(x, b, p)
<1>1. /\ dialer[c] = o /\ Receives(c, n, "HELLO") /\ "HELLO" \in Message
      /\ e' = IF isPeerAccepted(n)
              THEN send([r EXCEPT ![c][n].state = "GOT_HELLO", ![c][n].port = TRUE], c, n, hp)
              ELSE drop(send([r EXCEPT ![c][n].state = "GOT_HELLO", ![c][n].port = TRUE], c, n, p), c, n)
      /\ UNCHANGED <<dialer, mPeers, has, told, cached, tracker, faults>>
  BY DEF recvHello, Message
<1>2. /\ e \in Ends /\ a \in End /\ b \in End /\ o \in Nodes /\ PairOK(n, o, a, b)
      /\ StillOK(e) /\ NoFlood(e)
  BY <1>1, RestTyped, StillStart, StillPair
<1>3. a.open /\ a.state \in {"CONNECTED", "GOT_HELLO"} /\ a.wire # <<>> /\ Head(a.wire) = "HELLO"
  BY <1>1, ReceivesFacts
<1>4. At(e, r, c, n, t, b) /\ t \in End
  BY <1>2, <1>3, ReadAt, TakenFields
<1>5. r \in Ends /\ r[c][n] = t /\ r[c][o] = b
  BY <1>4 DEF At
<1> HIDE DEF r, t
<1>6. x \in End
  BY <1>4 DEF End
<1>7. [r EXCEPT ![c][n].state = "GOT_HELLO", ![c][n].port = TRUE] = f
  BY <1>5 DEF Ends
<1>8. x = [Taken(a) EXCEPT !.state = "GOT_HELLO", !.port = TRUE]
  BY DEF t
<1> HIDE DEF x
<1>9. At(r, f, c, n, x, b)
  BY <1>5, <1>6, SetAt
<1>10. At(e, f, c, n, x, b) /\ f \in Ends /\ f[c][n] = x /\ f[c][o] = b
  <2>1. At(e, f, c, n, x, b)
    BY <1>4, <1>9, AtTwice
  <2> QED
    BY <2>1 DEF At
<1>11. hp \in Seq(Message) /\ p \in Seq(Message)
  BY ShortWires DEF Message
<1>12. /\ PairOK(n, o, x, y) /\ x.state = "GOT_HELLO" /\ x.open /\ SameFlood(a, x)
       /\ Quiet(o, o, b, y) /\ SameFlood(b, y)
       /\ PairOK(n, o, Dropped(x), z)
       /\ Quiet(n, o, a, Dropped(x)) /\ SameFlood(a, Dropped(x))
       /\ Quiet(o, o, b, z) /\ SameFlood(b, z)
  <2> HIDE DEF a, b
  <2> QED
    BY <1>2, <1>3, <1>6, <1>8, PairHello
<1> HIDE DEF f, hp, p
<1>13. At(f, send(f, c, n, hp), c, n, x, y) /\ At(f, send(f, c, n, p), c, n, x, z)
  BY <1>10, <1>11, SendAt
<1>14. At(e, send(f, c, n, hp), c, n, x, y) /\ At(e, send(f, c, n, p), c, n, x, z)
  BY <1>10, <1>13, AtTwice
<1>15. record' \in [Nodes -> {"unknown", "ready", "waiting"}]
  BY RestTyped DEF recvHello
<1> HIDE DEF y, z
<1>16. CASE ~isPeerAccepted(n)
  <2> DEFINE g == send(f, c, n, p)
  <2>1. g \in Ends /\ g[c][n] = x /\ g[c][Other(n)] = z
    BY <1>14 DEF At
  <2>2. e' = drop(g, c, n)
    BY <1>1, <1>7, <1>16
  <2> HIDE DEF g
  <2>3. At(g, e', c, n, Dropped(x), z)
    BY <2>1, <2>2, DropAt
  <2>4. At(e, e', c, n, Dropped(x), z)
    BY <1>14, <2>3, AtTwice DEF g
  <2>5. StillOK(e')
    BY <1>1, <1>2, <1>12, <2>4, StillAt
  <2>6. NoFlood(e')
    BY <1>1, <1>2, <1>12, <2>4, NoFloodAt
  <2> QED
    BY <1>1, <1>15, <2>5, <2>6, RestTyped, QuietFinish
<1>17. CASE isPeerAccepted(n)
  <2>1. At(e, e', c, n, x, y)
    BY <1>1, <1>7, <1>14, <1>17
  <2>2. NoFlood(e')
    BY <1>2, <1>12, <2>1, NoFloodAt
  <2>3. TypeOK'
    <3>1. e' \in Ends
      BY <2>1 DEF At
    <3> QED
      BY <1>1, <1>15, <3>1, RestTyped DEF TypeOK, Ends
  <2>4. ToldInv'
    BY <1>1, <2>2, ToldSame DEF IInv
  <2>5. EndsOK'
    <3>1. dialer' = dialer /\ PairOK(n, dialer'[c], x, y)
      BY <1>1, <1>12
    <3> QED
      BY <2>1, <3>1, EndsAt DEF IInv
  <2>6. e'[c][n] = x /\ e'[c][o] = y /\ \A k \in Conn \ {c} : e'[k] = e[k]
    BY <2>1 DEF At
  <2>7. x.open = a.open /\ y.open = b.open /\ (y.state = "none" <=> b.state = "none")
        /\ x.state # "none" /\ a.state # "none"
    BY <1>3, <1>12 DEF Quiet
  <2>8. ASSUME NEW m \in Nodes PROVE ListOK(m)'
    <3>1. ListOK(m)
      BY ListsOK DEF IInv
    <3>2. m = n \/ m = o
      BY OtherFacts
    <3>3. \A k \in Conn : (e'[k][m].state # "none" /\ e'[k][m].open)
                          <=> (e[k][m].state # "none" /\ e[k][m].open)
      BY <2>6, <2>7, <3>2
    <3>4. OpenAt(m)' = OpenAt(m)
      BY <3>3 DEF OpenAt
    <3> QED
      BY <1>1, <3>1, <3>4 DEF ListOK
  <2>9. Cardinality(Accepted(n)') < MaxPeers[n]
    <3>1. ASSUME NEW k \in Conn, dialer[k] = o, e'[k][n].state = "GOT_HELLO"
          PROVE  k \in Elems(mPeers[n])
      <4>1. e'[k][n].open /\ o # n
        BY <2>5, <1>1, <3>1, OtherFacts DEF EndsOK, EndOK
      <4>2. k \in OpenAt(n)'
        BY <3>1, <4>1 DEF OpenAt
      <4> QED
        BY <1>1, <2>8, <4>2 DEF ListOK
    <3>2. Accepted(n)' \in SUBSET Elems(mPeers[n])
      BY <1>1, <3>1 DEF Accepted
    <3>3. mPeers[n] \in Seq(Conn) /\ MaxPeers[n] \in Nat /\ Len(mPeers[n]) < MaxPeers[n]
      BY <1>17, RestTyped, OverlayAssumption DEF TypeOK, isPeerAccepted
    <3>4. /\ Cardinality(Accepted(n)') <= Len(mPeers[n])
          /\ Cardinality(Accepted(n)') \in Nat /\ Len(mPeers[n]) \in Nat
      BY <3>2, <3>3, ListLength
    <3> QED
      BY <3>3, <3>4
  <2>10. Cardinality(Accepted(o)') < MaxPeers[o]
    <3>1. o # n /\ Other(o) = n
      BY OtherFacts
    <3>2. Accepted(o)' \subseteq Accepted(o)
      <4> SUFFICES ASSUME NEW k \in Conn, dialer[k] = n, e'[k][o].state = "GOT_HELLO"
                   PROVE  e[k][o].state = "GOT_HELLO"
        BY <1>1, <3>1 DEF Accepted
      <4>1. k # c
        BY <1>1, <3>1
      <4> QED
        BY <2>6, <4>1
    <3> QED
      BY <1>2, <3>2, AcceptSame DEF IInv
  <2>11. OpenIsListed' /\ AcceptBound'
    <3>1. \A m \in Nodes : m = n \/ m = o
      BY OtherFacts
    <3> QED
      BY <2>8, <2>9, <2>10, <3>1, ListsOK
  <2> QED
    BY <2>3, <2>4, <2>5, <2>11 DEF IInv
<1> QED
  BY <1>16, <1>17

\* A node calls.
LEMMA tickInv ==
    ASSUME IInv, NEW n \in Nodes, tick(n)
    PROVE  IInv'
<1> DEFINE o == Other(n)
           x == [NoEnd EXCEPT !.state = "CONNECTING", !.port = TRUE, !.dial = TRUE]
<1>1. PICK c \in Conn :
          /\ dialer[c] = "none"
          /\ dialer' = [dialer EXCEPT ![c] = n]
          /\ e' = [e EXCEPT ![c][n].state = "CONNECTING", ![c][n].port = TRUE, ![c][n].dial = TRUE]
          /\ mPeers' = [mPeers EXCEPT ![n] = Append(@, c)]
  BY DEF tick
<1>2. record' = [record EXCEPT ![n] = "waiting"] /\ UNCHANGED <<has, told, cached, tracker, faults>>
  BY DEF tick
<1>3. /\ o \in Nodes /\ o # n /\ Other(o) = n /\ n # "none" /\ \A m \in Nodes : m = n \/ m = o
  BY OtherFacts
<1>4. e \in Ends /\ StillOK(e) /\ NoFlood(e) /\ PairOK(n, "none", e[c][n], e[c][o])
  BY <1>1, RestTyped, StillStart, StillPair
<1>5. e[c][n] = NoEnd /\ e[c][o] = NoEnd
  BY <1>3, <1>4 DEF PairOK, EndOK
<1>6. e' = [e EXCEPT ![c] = [e[c] EXCEPT ![n] = x]]
  BY <1>1, <1>4, <1>5 DEF Ends
<1>7. /\ x \in End /\ NoEnd \in End /\ PairOK(n, n, x, NoEnd)
      /\ x.state = "CONNECTING" /\ x.open /\ x.sent = 0 /\ ~x.took
  BY PairTick
<1>8. NoEnd.state = "none" /\ NoEnd.sent = 0 /\ NoEnd.took = FALSE
  BY DEF NoEnd
<1> HIDE DEF x
<1>9. At(e, e', c, n, x, NoEnd)
  BY <1>4, <1>5, <1>6, <1>7, SetAt
<1>10. e'[c][n] = x /\ e'[c][o] = NoEnd /\ (\A k \in Conn \ {c} : e'[k] = e[k]) /\ e' \in Ends
  BY <1>9 DEF At
<1>11. /\ dialer \in [Conn -> Nodes \cup {"none"}] /\ mPeers \in [Nodes -> Seq(Conn)]
       /\ record \in [Nodes -> {"unknown", "ready", "waiting"}]
  BY RestTyped DEF TypeOK
<1>12. dialer'[c] = n /\ (\A k \in Conn \ {c} : dialer'[k] = dialer[k])
       /\ dialer' \in [Conn -> Nodes \cup {"none"}]
  BY <1>1, <1>11
<1>13. EndsOK'
  BY <1>7, <1>9, <1>12, EndsAt DEF IInv
<1>14. \A k \in Conn, m \in Nodes : SameFlood(e[k][m], e'[k][m])
  <2> TAKE k \in Conn, m \in Nodes
  <2>1. CASE k # c
    BY <1>10, <2>1 DEF SameFlood
  <2>2. CASE k = c /\ m = o
    BY <1>5, <1>10, <2>2 DEF SameFlood
  <2>3. CASE k = c /\ m = n
    <3>1. x.took = FALSE
      BY <1>7, EndFields
    <3> QED
      BY <1>5, <1>7, <1>8, <1>10, <2>3, <3>1 DEF SameFlood
  <2> QED
    BY <1>3, <2>1, <2>2, <2>3
<1>15. ToldInv'
  BY <1>2, <1>14, ToldSame DEF IInv, NoFlood
<1>16. ListOK(n) /\ ListOK(o)
  BY <1>3, ListsOK DEF IInv
<1>17. c \notin Elems(mPeers[n]) /\ mPeers[n] \in Seq(Conn) /\ IsInjective(mPeers[n])
  BY <1>5, <1>8, <1>11, <1>16 DEF ListOK, OpenAt
<1>18. mPeers'[n] = Append(mPeers[n], c) /\ mPeers'[o] = mPeers[o]
  BY <1>1, <1>3, <1>11
<1>19. mPeers'[n] \in Seq(Conn) /\ ListOK(n)'
  <2>1. /\ mPeers'[n] \in Seq(Conn) /\ IsInjective(mPeers'[n])
        /\ Elems(mPeers'[n]) = Elems(mPeers[n]) \cup {c}
    BY <1>17, <1>18, AppendFacts
  <2>2. OpenAt(n)' = OpenAt(n) \cup {c}
    BY <1>7, <1>10 DEF OpenAt
  <2> QED
    BY <1>16, <2>1, <2>2 DEF ListOK
<1>20. ListOK(o)'
  <2>1. OpenAt(o)' = OpenAt(o)
    BY <1>5, <1>10 DEF OpenAt
  <2> QED
    BY <1>16, <1>18, <2>1 DEF ListOK
<1>21. mPeers' \in [Nodes -> Seq(Conn)]
  BY <1>1, <1>11, <1>18, <1>19
<1>22. Accepted(n)' \subseteq Accepted(n)
  BY <1>3, <1>10, <1>12 DEF Accepted
<1>23. Accepted(o)' \subseteq Accepted(o)
  <2>1. NoEnd.state # "GOT_HELLO"
    BY <1>8
  <2> QED
    BY <1>3, <1>10, <1>12, <2>1 DEF Accepted
<1>24. AcceptBound'
  BY <1>3, <1>22, <1>23, AcceptSame, ListsOK DEF IInv
<1>25. OpenIsListed'
  BY <1>3, <1>19, <1>20, ListsOK
<1>26. TypeOK'
  <2>1. record' \in [Nodes -> {"unknown", "ready", "waiting"}]
    BY <1>2, <1>11
  <2> QED
    BY <1>2, <1>10, <1>12, <1>21, <2>1, RestTyped DEF TypeOK, Ends
<1> QED
  BY <1>13, <1>15, <1>24, <1>25, <1>26 DEF IInv

\* The door lets a caller in.
LEMMA handleKnockInv ==
    ASSUME IInv, NEW c \in Conn, handleKnock(c)
    PROVE  IInv'
<1> SUFFICES ASSUME NEW o \in Nodes, o = dialer[c]
             PROVE  IInv'
  BY DEF handleKnock
<1> DEFINE n == Other(o)
           a == e[c][n]
           b == e[c][o]
           x == [a EXCEPT !.state = "CONNECTED"]
<1>1. /\ o \in Nodes /\ a.state = "none"
      /\ e' = [e EXCEPT ![c][n].state = "CONNECTED"]
      /\ mPeers' = [mPeers EXCEPT ![n] = Append(@, c)]
      /\ UNCHANGED <<dialer, record, has, told, cached, tracker, faults>>
  BY DEF handleKnock
<1>2. /\ n \in Nodes /\ o # n /\ Other(n) = o /\ \A m \in Nodes : m = n \/ m = o
  BY <1>1, OtherFacts
<1>3. e \in Ends /\ StillOK(e) /\ NoFlood(e) /\ PairOK(n, o, a, b) /\ a \in End /\ b \in End
  BY <1>2, RestTyped, StillStart, StillPair
<1>4. e' = [e EXCEPT ![c] = [e[c] EXCEPT ![n] = x]]
  BY <1>1, <1>2, <1>3 DEF Ends
<1>5. x \in End
  BY <1>3 DEF End
<1> HIDE DEF x, a, b
<1>6. /\ PairOK(n, o, x, b) /\ SameFlood(a, x) /\ x.state = "CONNECTED" /\ x.open
  <2>1. x = [a EXCEPT !.state = "CONNECTED"] /\ PairOK(n, Other(n), a, b)
    BY <1>2, <1>3 DEF x
  <2> HIDE DEF n
  <2> QED
    BY <1>1, <1>2, <1>3, <1>5, <2>1, PairKnock
<1>7. a = e[c][n] /\ b = e[c][Other(n)] /\ o = dialer[c]
  BY <1>2 DEF a, b
<1> HIDE DEF n
<1>8. At(e, e', c, n, x, b)
  BY <1>2, <1>3, <1>4, <1>5, <1>7, SetAt
<1>9. e'[c][n] = x /\ e'[c][o] = b /\ (\A k \in Conn \ {c} : e'[k] = e[k]) /\ e' \in Ends
  BY <1>2, <1>8 DEF At
<1>10. mPeers \in [Nodes -> Seq(Conn)]
  BY RestTyped DEF TypeOK
<1>11. EndsOK'
  <2>1. dialer'[c] = o /\ \A k \in Conn \ {c} : dialer'[k] = dialer[k]
    BY <1>1, <1>7
  <2> QED
    BY <1>2, <1>6, <1>8, <2>1, EndsAt DEF IInv
<1>12. NoFlood(e')
  <2>1. SameFlood(b, b)
    BY <1>3, QuietSelf
  <2> QED
    BY <1>2, <1>3, <1>6, <1>7, <1>8, <2>1, NoFloodAt
<1>13. ToldInv'
  BY <1>1, <1>12, ToldSame DEF IInv
<1>14. ListOK(n) /\ ListOK(o)
  BY <1>1, <1>2, ListsOK DEF IInv
<1>15. c \notin Elems(mPeers[n]) /\ mPeers[n] \in Seq(Conn) /\ IsInjective(mPeers[n])
  BY <1>1, <1>2, <1>7, <1>10, <1>14 DEF ListOK, OpenAt
<1>16. mPeers'[n] = Append(mPeers[n], c) /\ mPeers'[o] = mPeers[o]
  BY <1>1, <1>2, <1>10
<1>17. mPeers'[n] \in Seq(Conn) /\ ListOK(n)'
  <2>1. /\ mPeers'[n] \in Seq(Conn) /\ IsInjective(mPeers'[n])
        /\ Elems(mPeers'[n]) = Elems(mPeers[n]) \cup {c}
    BY <1>15, <1>16, AppendFacts
  <2>2. OpenAt(n)' = OpenAt(n) \cup {c}
    BY <1>6, <1>9 DEF OpenAt
  <2> QED
    BY <1>14, <2>1, <2>2 DEF ListOK
<1>18. ListOK(o)'
  <2>1. OpenAt(o)' = OpenAt(o)
    BY <1>2, <1>7, <1>9 DEF OpenAt
  <2> QED
    BY <1>14, <1>16, <2>1 DEF ListOK
<1>19. mPeers' \in [Nodes -> Seq(Conn)]
  BY <1>1, <1>2, <1>10, <1>16, <1>17
<1>20. Accepted(n)' \subseteq Accepted(n)
  BY <1>1, <1>6, <1>9 DEF Accepted
<1>21. Accepted(o)' \subseteq Accepted(o)
  BY <1>1, <1>2, <1>7, <1>9 DEF Accepted
<1>22. AcceptBound'
  BY <1>1, <1>2, <1>20, <1>21, AcceptSame, ListsOK DEF IInv
<1>23. OpenIsListed'
  BY <1>2, <1>17, <1>18, ListsOK
<1>24. TypeOK'
  BY <1>1, <1>9, <1>19, RestTyped DEF TypeOK, Ends
<1> QED
  BY <1>11, <1>13, <1>22, <1>23, <1>24 DEF IInv

\* The posted shutdown: the Peer goes off the list as its socket closes, and the
\* connection is forgotten when the other end is gone too.
LEMMA shutdownInv ==
    ASSUME IInv, NEW c \in Conn, NEW n \in Nodes, shutdown(c, n)
    PROVE  IInv'
<1> DEFINE o == Other(n)
           a == e[c][n]
           b == e[c][o]
           d == dialer[c]
           closed == [e EXCEPT ![c][n].posted = FALSE, ![c][n].open = FALSE, ![c][n].dial = FALSE,
                               ![c][n].wire = <<>>]
           x == Closed(a)
<1>1. /\ o \in Nodes /\ o # n /\ Other(o) = n /\ n # "none" /\ \A m \in Nodes : m = n \/ m = o
  BY OtherFacts
<1>2. e \in Ends /\ StillOK(e) /\ NoFlood(e) /\ PairOK(n, d, a, b) /\ a \in End /\ b \in End
  BY RestTyped, StillStart, StillPair
<1>3. a.posted
  BY DEF shutdown
<1>4. mPeers' = [mPeers EXCEPT ![n] = Erase(@, c)] /\ UNCHANGED <<record, has, cached, faults>>
  BY DEF shutdown
<1>5. mPeers \in [Nodes -> Seq(Conn)] /\ dialer \in [Conn -> Nodes \cup {"none"}]
      /\ told \in [Nodes -> (SUBSET Conn) \cup {NoRecord}]
      /\ tracker \in [asked : Seq(Conn), last : Conn \cup {NoConn}]
  BY RestTyped DEF TypeOK
<1>6. mPeers'[n] = Erase(mPeers[n], c) /\ mPeers'[o] = mPeers[o] /\ mPeers[n] \in Seq(Conn)
  BY <1>1, <1>4, <1>5
<1>7. ListOK(n) /\ ListOK(o)
  BY <1>1, ListsOK DEF IInv
<1>8. /\ mPeers'[n] \in Seq(Conn) /\ IsInjective(mPeers'[n])
      /\ Elems(mPeers'[n]) = Elems(mPeers[n]) \ {c}
  BY <1>6, <1>7, EraseFacts DEF ListOK
<1>9. mPeers' \in [Nodes -> Seq(Conn)]
  BY <1>1, <1>4, <1>5, <1>6, <1>8
<1>10. closed = [e EXCEPT ![c] = [e[c] EXCEPT ![n] = x]]
  BY <1>2 DEF Ends, Closed
<1>11. /\ x \in End /\ x.state = a.state /\ ~x.open /\ a.state # "none" /\ SameFlood(a, x)
       /\ ~x.posted /\ PairOK(n, d, x, b)
  <2>1. b.wire \in {b.wire, <<"EOF">>, Append(b.wire, "EOF")} /\ b = [b EXCEPT !.wire = b.wire]
    BY <1>2 DEF End
  <2> HIDE DEF a, b, d
  <2> QED
    BY <1>2, <1>3, <2>1, PairClose
<1> HIDE DEF x
<1>12. At(e, closed, c, n, x, b)
  BY <1>2, <1>10, <1>11, SetAt
<1>13. closed \in Ends /\ closed[c][n] = x /\ closed[c][o] = b /\ \A k \in Conn \ {c} : closed[k] = e[k]
  BY <1>12 DEF At
<1>14. CASE Gone(closed[c][n]) /\ Gone(closed[c][o])
  <2>1. /\ e' = [e EXCEPT ![c] = [m \in Nodes |-> NoEnd]]
        /\ dialer' = [dialer EXCEPT ![c] = "none"]
        /\ told' = [m \in Nodes |-> told[m] \ {c}]
        /\ tracker' = [asked |-> Erase(tracker.asked, c),
                       last |-> IF tracker.last = c THEN NoConn ELSE tracker.last]
    BY <1>14 DEF shutdown
  <2>2. PairOK(n, "none", NoEnd, NoEnd) /\ NoEnd \in End /\ NoEnd.state = "none"
        /\ NoEnd.sent = 0 /\ ~NoEnd.took
    BY PairNone
  <2>3. At(e, e', c, n, NoEnd, NoEnd)
    BY <1>1, <1>2, <2>1, <2>2 DEF At, Ends
  <2>4. e' \in Ends /\ e'[c][n] = NoEnd /\ e'[c][o] = NoEnd /\ \A k \in Conn \ {c} : e'[k] = e[k]
    BY <2>3 DEF At
  <2>5. dialer'[c] = "none" /\ (\A k \in Conn \ {c} : dialer'[k] = dialer[k])
        /\ dialer' \in [Conn -> Nodes \cup {"none"}]
    BY <1>5, <2>1
  <2>6. EndsOK'
    BY <2>2, <2>3, <2>5, EndsAt DEF IInv
  <2>7. told' \in [Nodes -> (SUBSET Conn) \cup {NoRecord}]
    <3>1. c \notin NoRecord
      BY ConnFacts DEF NoRecord
    <3>2. ASSUME NEW m \in Nodes PROVE told[m] \ {c} \in (SUBSET Conn) \cup {NoRecord}
      <4>1. CASE told[m] = NoRecord
        BY <3>1, <4>1
      <4>2. CASE told[m] \in SUBSET Conn
        BY <4>2
      <4> QED
        BY <1>5, <4>1, <4>2
    <3> QED
      BY <2>1, <3>2
  <2>8. tracker' \in [asked : Seq(Conn), last : Conn \cup {NoConn}]
    <3>1. tracker.asked \in Seq(Conn) /\ tracker.last \in Conn \cup {NoConn}
      BY <1>5
    <3>2. Erase(tracker.asked, c) \in Seq(Conn)
      BY <3>1, EraseFacts
    <3>3. (IF tracker.last = c THEN NoConn ELSE tracker.last) \in Conn \cup {NoConn}
      BY <3>1
    <3> QED
      BY <2>1, <3>2, <3>3
  <2>9. TypeOK'
    BY <1>4, <1>9, <2>4, <2>5, <2>7, <2>8, RestTyped DEF TypeOK, Ends
  <2>10. ToldInv'
    <3> SUFFICES ASSUME NEW k \in Conn, NEW m \in Nodes
                 PROVE  /\ e'[k][m].sent > 0 \/ e'[k][m].took => k \in told'[m] /\ m \in has'
                        /\ e'[k][m].sent + (IF e'[k][m].took THEN 1 ELSE 0) <= 1
      BY DEF ToldInv
    <3>1. CASE k = c
      BY <1>1, <2>2, <2>4, <3>1
    <3>2. CASE k # c
      BY <1>4, <2>1, <2>4, <3>2 DEF IInv, ToldInv
    <3> QED
      BY <3>1, <3>2
  <2>11. ListOK(n)'
    <3>1. OpenAt(n)' = OpenAt(n) \ {c}
      BY <2>2, <2>4 DEF OpenAt
    <3> QED
      BY <1>7, <1>8, <3>1 DEF ListOK
  <2>12. ListOK(o)'
    <3>1. b.state = "none" \/ ~b.open
      <4> HIDE DEF closed, b
      <4>1. Gone(b)
        BY <1>13, <1>14
      <4> QED
        BY <4>1 DEF Gone
    <3>2. OpenAt(o)' = OpenAt(o)
      BY <2>2, <2>4, <3>1 DEF OpenAt
    <3> QED
      BY <1>6, <1>7, <3>2 DEF ListOK
  <2>13. \A m \in Nodes : Accepted(m)' \subseteq Accepted(m)
    <3> TAKE m \in Nodes
    <3>1. Other(m) # "none"
      BY OtherFacts
    <3> QED
      BY <2>4, <2>5, <3>1 DEF Accepted
  <2>14. OpenIsListed' /\ AcceptBound'
    BY <1>1, <2>11, <2>12, <2>13, AcceptSame, ListsOK DEF IInv
  <2> QED
    BY <2>6, <2>9, <2>10, <2>14 DEF IInv
<1>15. CASE ~(Gone(closed[c][n]) /\ Gone(closed[c][o]))
  <2>1. UNCHANGED <<dialer, told, tracker>>
    BY <1>15 DEF shutdown
  <2>2. PICK lost \in BOOLEAN :
               e' = IF ~closed[c][o].open THEN closed
                    ELSE [closed EXCEPT ![c][o].wire = IF lost THEN <<"EOF">> ELSE Append(@, "EOF")]
    BY <1>15 DEF shutdown
  <2> HIDE DEF closed
  <2>3. PICK w \in {b.wire, <<"EOF">>, Append(b.wire, "EOF")} :
               /\ w \in Seq(Message)
               /\ e' = [closed EXCEPT ![c] = [closed[c] EXCEPT ![o] = [b EXCEPT !.wire = w]]]
    <3>1. b.wire \in Seq(Message) /\ "EOF" \in Message
      BY <1>2, EndFields DEF Message
    <3>2. CASE ~b.open
      <4>1. [b EXCEPT !.wire = b.wire] = b
        BY <1>2 DEF End
      <4>2. closed = [closed EXCEPT ![c] = [closed[c] EXCEPT ![o] = b]]
        BY <1>1, <1>13 DEF Ends
      <4>3. e' = closed
        BY <1>13, <2>2, <3>2
      <4> QED
        BY <3>1, <4>1, <4>2, <4>3
    <3>3. CASE b.open
      <4> DEFINE w == IF lost THEN <<"EOF">> ELSE Append(b.wire, "EOF")
      <4>1. w \in {b.wire, <<"EOF">>, Append(b.wire, "EOF")} /\ w \in Seq(Message)
        BY <3>1
      <4>2. e' = [closed EXCEPT ![c] = [closed[c] EXCEPT ![o] = [b EXCEPT !.wire = w]]]
        BY <1>1, <1>13, <2>2, <3>3 DEF Ends
      <4> HIDE DEF w
      <4> QED
        BY <4>1, <4>2
    <3> QED
      BY <3>2, <3>3
  <2> DEFINE y == [b EXCEPT !.wire = w]
  <2>4. y \in End
    BY <1>2, <2>3 DEF End
  <2>5. /\ PairOK(n, d, x, y) /\ Quiet(o, d, b, y) /\ SameFlood(b, y)
    <3>1. y = [b EXCEPT !.wire = w]
      OBVIOUS
    <3> HIDE DEF a, b, d, y
    <3> QED
      BY <1>2, <1>3, <2>3, <2>4, <3>1, PairClose DEF x
  <2>6. At(closed, e', c, n, x, y)
    <3> HIDE DEF y
    <3>1. At(closed, [closed EXCEPT ![c] = [closed[c] EXCEPT ![o] = y]], c, o, y, closed[c][Other(o)])
      BY <1>1, <1>13, <2>4, SetAt
    <3>2. At(closed, e', c, o, y, x)
      BY <1>1, <1>13, <2>3, <3>1 DEF y
    <3> QED
      BY <1>1, <3>2, AtOther
  <2>7. At(e, e', c, n, x, y)
    BY <1>12, <2>6, AtTwice
  <2>8. e' \in Ends /\ e'[c][n] = x /\ e'[c][o] = y /\ \A k \in Conn \ {c} : e'[k] = e[k]
    BY <2>7 DEF At
  <2> HIDE DEF y
  <2>9. EndsOK'
    <3>1. PairOK(n, dialer'[c], x, y) /\ \A k \in Conn \ {c} : dialer'[k] = dialer[k]
      BY <2>1, <2>5
    <3> QED
      BY <2>7, <3>1, EndsAt DEF IInv
  <2>10. ToldInv'
    <3>1. NoFlood(e')
      BY <1>2, <1>11, <2>5, <2>7, NoFloodAt
    <3> QED
      BY <1>4, <2>1, <3>1, ToldSame DEF IInv
  <2>11. TypeOK'
    BY <1>4, <1>9, <2>1, <2>8, RestTyped DEF TypeOK, Ends
  <2>12. ListOK(n)'
    <3>1. OpenAt(n)' = OpenAt(n) \ {c}
      BY <1>11, <2>8 DEF OpenAt
    <3> QED
      BY <1>7, <1>8, <3>1 DEF ListOK
  <2>13. ListOK(o)'
    <3>1. y.open = b.open /\ (y.state = "none" <=> b.state = "none")
      BY <2>5 DEF Quiet
    <3>2. OpenAt(o)' = OpenAt(o)
      BY <2>8, <3>1 DEF OpenAt
    <3> QED
      BY <1>6, <1>7, <3>2 DEF ListOK
  <2>14. Accepted(n)' \subseteq Accepted(n)
    BY <1>11, <2>1, <2>8 DEF Accepted
  <2>15. Accepted(o)' \subseteq Accepted(o)
    <3>1. d # o /\ y.state = "GOT_HELLO" => b.state = "GOT_HELLO"
      BY <2>5 DEF Quiet
    <3> QED
      BY <1>1, <2>1, <2>8, <3>1 DEF Accepted
  <2>16. OpenIsListed' /\ AcceptBound'
    BY <1>1, <2>12, <2>13, <2>14, <2>15, AcceptSame, ListsOK DEF IInv
  <2> QED
    BY <2>9, <2>10, <2>11, <2>16 DEF IInv
<1> QED
  BY <1>14, <1>15

-----------------------------------------------------------------------------
(* The theorems.                                                           *)

\* Nothing is connected in the beginning.
LEMMA InitIInv == Init => IInv
<1> SUFFICES ASSUME Init PROVE IInv
  OBVIOUS
<1>1. /\ dialer = [c \in Conn |-> "none"] /\ e = [c \in Conn |-> [n \in Nodes |-> NoEnd]]
      /\ mPeers = [n \in Nodes |-> <<>>] /\ has = {} /\ cached = {}
      /\ told = [n \in Nodes |-> NoRecord] /\ tracker = [asked |-> <<>>, last |-> NoConn] /\ faults = 0
      /\ record \in [Nodes -> {"unknown", "ready"}]
  BY DEF Init
<1>2. ASSUME NEW n \in Nodes
      PROVE  PairOK(n, "none", NoEnd, NoEnd) /\ NoEnd \in End /\ NoEnd.state = "none"
             /\ NoEnd.sent = 0 /\ ~NoEnd.took /\ Other(n) \in Nodes /\ Other(n) # "none"
  BY PairNone, OtherFacts
<1>3. e \in [Conn -> [Nodes -> End]]
  <2>1. [n \in Nodes |-> NoEnd] \in [Nodes -> End]
    BY <1>2
  <2> QED
    BY <1>1, <2>1
<1>4. TypeOK
  <2>1. <<>> \in Seq(Conn) /\ MaxFaults \in Nat
    BY OverlayAssumption
  <2>2. tracker \in [asked : Seq(Conn), last : Conn \cup {NoConn}] /\ mPeers \in [Nodes -> Seq(Conn)]
    BY <1>1, <2>1
  <2>3. record \in [Nodes -> {"unknown", "ready", "waiting"}] /\ faults \in 0 .. MaxFaults
    BY <1>1, <2>1
  <2> QED
    BY <1>1, <1>3, <2>2, <2>3 DEF TypeOK
<1>5. EndsOK
  <2> SUFFICES ASSUME NEW c \in Conn, NEW n \in Nodes
               PROVE  EndOK(n, dialer[c], e[c][n], e[c][Other(n)])
    BY DEF EndsOK
  <2> QED
    BY <1>1, <1>2 DEF PairOK
<1>6. ASSUME NEW n \in Nodes PROVE ListOK(n)
  <2>1. mPeers[n] = <<>> /\ DOMAIN <<>> = {}
    BY <1>1
  <2>2. OpenAt(n) = {}
    BY <1>1, <1>2 DEF OpenAt
  <2> QED
    BY <2>1, <2>2 DEF ListOK, Elems, IsInjective
<1>7. ASSUME NEW n \in Nodes PROVE Cardinality(Accepted(n)) < MaxPeers[n]
  <2>1. Accepted(n) = {}
    BY <1>1, <1>2 DEF Accepted
  <2>2. Cardinality({}) = 0 /\ MaxPeers[n] \in Nat \ {0}
    BY FS_EmptySet, OverlayAssumption
  <2> QED
    BY <2>1, <2>2
<1>8. ToldInv
  <2> SUFFICES ASSUME NEW c \in Conn, NEW n \in Nodes
               PROVE  /\ e[c][n].sent > 0 \/ e[c][n].took => c \in told[n] /\ n \in has
                      /\ e[c][n].sent + (IF e[c][n].took THEN 1 ELSE 0) <= 1
    BY DEF ToldInv
  <2>1. e[c][n] = NoEnd
    BY <1>1
  <2> QED
    BY <1>2, <2>1
<1> QED
  BY <1>4, <1>5, <1>6, <1>7, <1>8, ListsOK DEF IInv

\* Every step keeps the invariant.
LEMMA NextIInv == IInv /\ [Next]_vars => IInv'
<1> SUFFICES ASSUME IInv, [Next]_vars PROVE IInv'
  OBVIOUS
<1>1. ASSUME NEW n \in Nodes, tick(n) \/ backOffEnds(n) \/ broadcastMessage(n) PROVE IInv'
  BY <1>1, tickInv, cacheInv, broadcastMessageInv
<1>2. ASSUME NEW c \in Conn, connected(c) \/ connectFails(c) \/ handleKnock(c) PROVE IInv'
  BY <1>2, connectedInv, connectFailsInv, handleKnockInv
<1>3. ASSUME NEW c \in Conn, NEW n \in Nodes, Handler(c, n) \/ timeout(c, n) PROVE IInv'
  BY <1>3, recvBeforeHelloInv, recvHelloBackInv, recvHelloInv, recvPeersInv, recvGetTxSetInv,
     recvTxSetInv, recvDontHaveInv, recvTransactionInv, recvEOFInv, ioErrorInv, shutdownInv,
     timeoutInv DEF Handler
<1>4. ASSUME cache \/ fetchTimer PROVE IInv'
  BY <1>4, cacheInv, fetchTimerInv
<1>5. CASE UNCHANGED vars
  <2>1. UNCHANGED <<dialer, e, mPeers, record, has, told, cached, tracker, faults>>
    BY <1>5 DEF vars
  <2>2. StillOK(e') /\ NoFlood(e')
    BY <2>1, RestTyped, StillStart
  <2> QED
    BY <2>1, <2>2, RestTyped, QuietFinish
<1> QED
  BY <1>1, <1>2, <1>3, <1>4, <1>5 DEF Next

\* Overlay's inductive invariant.
THEOREM Invariance == Spec => []IInv
  BY InitIInv, NextIInv, PTL DEF Spec

\* However calls, drops, posted shutdowns and connect handlers race, a node's list
\* names the Peers with an open socket, each once, and fewer callers than
\* MAX_PEER_CONNECTIONS are kept.
THEOREM ListNamesOpenPeers == Spec => []PeersInOrder
<1>1. IInv => PeersInOrder
  BY DEF IInv, PeersInOrder
<1> QED
  BY <1>1, Invariance, PTL

\* Over one connection a transaction is sent once or taken once, never both, and
\* what is flooded is behind the HELLO of its sender.
THEOREM FloodsOncePerPeer == Spec => []FloodsOnce
<1>1. ASSUME IInv PROVE SentOnce
  BY <1>1 DEF IInv, ToldInv, SentOnce
<1>2. ASSUME IInv PROVE CleanHandshake
  <2> SUFFICES ASSUME NEW c \in Conn, NEW n \in Nodes, e[c][n].state = "CONNECTED",
                      e[c][n].wire # <<>>, Head(e[c][n].wire) \notin {"HELLO", "PEERS", "EOF"}
               PROVE  e[c][Other(n)].early
    BY DEF CleanHandshake
  <2>1. /\ e[c][n] \in End /\ e[c][Other(n)] \in End
        /\ PairOK(n, dialer[c], e[c][n], e[c][Other(n)])
    BY <1>2, PairAt DEF IInv
  <2>2. Unheard(e[c][n])
    BY DEF Unheard
  <2>3. HelloFirst(e[c][n].wire, e[c][Other(n)].early)
    BY <2>1, <2>2 DEF PairOK, EndOK
  <2>4. e[c][n].wire \in Seq(Message) /\ e[c][Other(n)].early \in BOOLEAN
    BY <2>1, EndFields
  <2>5. Late(Head(e[c][n].wire))
    BY DEF Late
  <2> QED
    BY <2>3, <2>4, <2>5, WireTail
<1>3. IInv => FloodsOnce
  BY <1>1, <1>2 DEF FloodsOnce
<1> QED
  BY <1>3, Invariance, PTL

=============================================================================

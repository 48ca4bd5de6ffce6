-------------------------- MODULE SendBufferProofs --------------------------
(***************************************************************************)
(* Theorems about SendBuffer, for any number of services and packets, any   *)
(* size of a packet, any kernel and any use of the slot.                    *)
(***************************************************************************)
EXTENDS SendBuffer, SequenceTheorems, FiniteSetTheorems, TLAPS

Packet == [from : Sender, n : Nat, low : BOOLEAN, id : Nat]
Part == [p : Packet, i : 1..Size]
Request == [cmd : {"send"}, p : Packet] \cup [cmd : {"K"}, id : Nat, shutdown : BOOLEAN]

\* Where a thread in socket_server_send may be, and where it holds the lock.
Place == {"idle", "lists", "state", "try", "lists2", "state2", "write", "inc", "request"}
Locked == {"lists2", "state2", "write"}

SlotTypes ==
    /\ id \in Nat /\ type \in {"connected", "halfclose", "invalid"}
    /\ wb_size \in Nat /\ sending \in Nat
    /\ lock \in Sender \cup {None} /\ write_event \in BOOLEAN
ListTypes ==
    /\ high \in Seq(Part) /\ low \in Seq(Part) /\ dw \in Seq(Part) /\ stream \in Seq(Part)
    /\ room \in Nat
PipeTypes == pipe \in Seq(Request) /\ at \in {"poll", "dec", "close", "force"}
ThreadTypes ==
    /\ pc \in [Sender -> Place] /\ pkt \in [Sender -> Packet \cup {None}]
    /\ count \in [Sender -> Nat]
HistoryTypes ==
    /\ peer \in {"up", "closed"} /\ since \in Nat /\ given \in {None} \cup Nat
    /\ how \in {"open", "close", "abort"} /\ cut \in BOOLEAN
TypeOK == SlotTypes /\ ListTypes /\ PipeTypes /\ ThreadTypes /\ HistoryTypes

In(q, x) == \E j \in DOMAIN q : q[j] = x

\* What has been written and what is to be written, in that order.
All == stream \o (dw \o (high \o low))

\* The requests the socket thread has not yet acted upon.
Pend == IF at = "dec" THEN Tail(pipe) ELSE pipe
IsSend(r) == r.cmd = "send"

\* The packet of a thread in socket_server_send is its last, for this use of the slot or an
\* earlier one.  The lock has one holder; while it is there, the socket thread writes nothing.
Thread(s) ==
    /\ pc[s] # "idle" => /\ pkt[s] \in Packet
                         /\ pkt[s].from = s /\ pkt[s].n = count[s] /\ pkt[s].id <= id
    /\ pc[s] \in Locked <=> lock = s
    /\ pc[s] \in {"state2", "write"} => pkt[s].id = id /\ dw = <<>> /\ ~Uncomplete(high)
    /\ pc[s] = "write" => type # "invalid"
Threads == (\A s \in Sender : Thread(s)) /\ since <= count[Owner]

\* The pipe, and the request the socket thread is in.
Pipe ==
    /\ \A r : In(pipe, r) => IF IsSend(r) THEN r.p.id <= id ELSE r.id <= id
    /\ at = "dec" => pipe # <<>> /\ IsSend(Head(pipe))
    /\ at = "close" => pipe # <<>> /\ Head(pipe).cmd = "K" /\ Head(pipe).id = id

\* A slot that is not in use is empty.
Slot ==
    /\ type = "invalid" => /\ high = <<>> /\ low = <<>> /\ dw = <<>> /\ ~write_event
                           /\ at # "close" /\ at # "force"
    /\ at = "force" => high = <<>> /\ low = <<>> /\ ~write_event
    /\ cut => type = "invalid" \/ at = "force"

\* wb_size is the number of parts in the lists, sending that of the requests under way.
SizeExact == type # "invalid" /\ at # "force" => wb_size = Len(high) + Len(low)
Queued == {i \in DOMAIN pipe : pipe[i].cmd = "send" /\ pipe[i].p.id = id}
Queueing == {s \in Sender : pc[s] = "request" /\ pkt[s].id = id}
SendingExact == sending = Cardinality(Queued) + Cardinality(Queueing)

\* A sequence of whole packets: a part stands behind the one before it, and the rest of
\* its packet follows.
After(q, j) == IF q[j].i = 1 THEN j = 1 \/ q[j - 1].i = Size
                             ELSE j > 1 /\ q[j - 1].p = q[j].p /\ q[j - 1].i = q[j].i - 1
Whole(q) ==
    \A j \in DOMAIN q :
        /\ After(q, j)
        /\ \A d \in 0..(Size - q[j].i) : j + d \in DOMAIN q /\ q[j + d].p = q[j].p
                                                            /\ q[j + d].i = q[j].i + d

Packets ==
    /\ ~Uncomplete(low)
    /\ \A x : In(All, x) => x.p.id = id
    /\ ~cut /\ type # "invalid" => Whole(All)
    /\ ~cut => \A j \in DOMAIN stream : After(stream, j)

\* What may stand before what.
Ok(x, y) ==
    x.p.from = y.p.from => \/ x.p.n < y.p.n
                           \/ x.p = y.p /\ x.i < y.i
                           \/ y.p.low /\ ~x.p.low
Ordered(q) == \A j, k \in DOMAIN q : j < k => Ok(q[j], q[k])

\* A packet that is no longer in the hands of the thread that sends it.
Past(p) == p.n <= count[p.from] /\ (pc[p.from] # "idle" => p.n < count[p.from])
Later(q) == \A j, k \in DOMAIN q : j < k /\ IsSend(q[j]) /\ IsSend(q[k]) /\ q[j].p.from = q[k].p.from
                => q[j].p.n < q[k].p.n

\* Only packets of low priority are in the low list.
LowList == \A x : In(low, x) => x.p.low
Handed == /\ \A x : In(All, x) => Past(x.p)
          /\ \A r : In(Pend, r) /\ IsSend(r) => Past(r.p)
\* What is in the pipe comes after what has left it.
Behind == \A x, r : In(All, x) /\ In(Pend, r) /\ IsSend(r) /\ r.p.from = x.p.from /\ r.p.id = id
             => x.p.n < r.p.n
\* A thread that tries to write directly has nothing in the pipe, and, once it has looked, in
\* the lists.
NoneAsked == \A s \in Sender : pc[s] \in {"try"} \cup Locked /\ pkt[s].id = id =>
                \A r : In(Pend, r) /\ IsSend(r) /\ r.p.from = s => r.p.id # id
NoneListed == \A s \in Sender : pc[s] \in {"state2", "write"} =>
                \A x : In(high, x) \/ In(low, x) => x.p.from # s
Order == Ordered(All) /\ LowList /\ Handed /\ Behind /\ Later(Pend) /\ NoneAsked /\ NoneListed

\* The packets the owner has given before it closed, or so far, and where they are.
Given == (since + 1)..(IF given = None THEN count[Owner] ELSE given)
Sends(r, n) == IsSend(r) /\ r.p.from = Owner /\ r.p.n = n
IsClose(r) == r.cmd = "K" /\ r.id = id
Stored(q, n) == \A i \in 1..Size : \E x : In(q, x) /\ x.p.from = Owner /\ x.p.n = n /\ x.i = i
Located(n) ==
    \/ given = None /\ pc[Owner] # "idle" /\ pkt[Owner].n = n
    \/ /\ \E r : In(Pend, r) /\ Sends(r, n)
       /\ given # None => \E r : In(Pend, r) /\ IsClose(r)
    \/ Stored(All, n)

\* There is one request to close, behind what was given before it.
Last(q) == \A j, k \in DOMAIN q : j < k /\ IsClose(q[j]) =>
              ~IsClose(q[k]) /\ \A n \in Given : ~Sends(q[k], n)

GivenPast == given # None => /\ given <= count[Owner]
                             /\ pc[Owner] # "idle" => given < count[Owner]
\* What the owner has sent since the slot was opened is for this use of it.
OwnIds == /\ pc[Owner] # "idle" /\ pkt[Owner].n > since => pkt[Owner].id = id
          /\ \A r : In(Pend, r) /\ IsSend(r) /\ r.p.from = Owner /\ r.p.n > since => r.p.id = id
Closes == /\ \A r : In(Pend, r) /\ IsClose(r) => given # None
          /\ given # None => Last(Pend)
          /\ type = "halfclose" => given # None /\ \A r : In(Pend, r) => ~IsClose(r)
HowExact == type = "invalid" \/ at = "force" <=> how # "open"
AllLocated == how = "open" => \A n \in Given : Located(n)
Sent == how = "close" => given # None /\ \A n \in Given : Stored(stream, n)
Closing == GivenPast /\ OwnIds /\ Closes /\ HowExact /\ AllLocated /\ Sent

Inv == TypeOK /\ Threads /\ Pipe /\ Slot /\ SizeExact /\ SendingExact /\ Packets /\ Order /\ Closing
-----------------------------------------------------------------------------
\* Sequences.
LEMMA Cat ==
    ASSUME NEW S, NEW q \in Seq(S), NEW r \in Seq(S)
    PROVE  /\ q \o r \in Seq(S) /\ Len(q \o r) = Len(q) + Len(r)
           /\ Len(q) \in Nat /\ Len(r) \in Nat
           /\ DOMAIN q = 1..Len(q) /\ DOMAIN r = 1..Len(r) /\ DOMAIN (q \o r) = 1..(Len(q) + Len(r))
           /\ \A j \in 1..Len(q) : j \in DOMAIN (q \o r) /\ (q \o r)[j] = q[j]
           /\ \A j \in 1..Len(r) : Len(q) + j \in DOMAIN (q \o r) /\ (q \o r)[Len(q) + j] = r[j]
           /\ \A j \in DOMAIN (q \o r) : \/ j \in 1..Len(q)
                                         \/ j > Len(q) /\ j - Len(q) \in 1..Len(r)
                                              /\ j = Len(q) + (j - Len(q))
OBVIOUS

LEMMA CatIn ==
    ASSUME NEW S, NEW q \in Seq(S), NEW r \in Seq(S)
    PROVE  \A x : In(q \o r, x) <=> In(q, x) \/ In(r, x)
<1> SUFFICES ASSUME NEW x PROVE In(q \o r, x) <=> In(q, x) \/ In(r, x)
  OBVIOUS
<1> DEFINE c == q \o r
<1>1. /\ DOMAIN q = 1..Len(q) /\ DOMAIN r = 1..Len(r)
      /\ \A j \in 1..Len(q) : j \in DOMAIN c /\ c[j] = q[j]
      /\ \A j \in 1..Len(r) : Len(q) + j \in DOMAIN c /\ c[Len(q) + j] = r[j]
      /\ \A j \in DOMAIN c : \/ j \in 1..Len(q)
                             \/ j - Len(q) \in 1..Len(r) /\ j = Len(q) + (j - Len(q))
  BY Cat
<1> HIDE DEF c
<1>2. In(q, x) => In(c, x)
  BY <1>1 DEF In
<1>3. In(r, x) => In(c, x)
  BY <1>1 DEF In
<1>4. ASSUME In(c, x) PROVE In(q, x) \/ In(r, x)
  <2>1. PICK j \in DOMAIN c : c[j] = x
    BY <1>4 DEF In
  <2>2. CASE j \in 1..Len(q)
    BY <1>1, <2>1, <2>2 DEF In
  <2>3. CASE j - Len(q) \in 1..Len(r) /\ j = Len(q) + (j - Len(q))
    <3>1. c[Len(q) + (j - Len(q))] = r[j - Len(q)]
      BY <1>1, <2>3
    <3> QED
      BY <1>1, <2>1, <2>3, <3>1 DEF In
  <2> QED
    BY <1>1, <2>2, <2>3
<1> QED
  BY <1>2, <1>3, <1>4 DEF c

LEMMA InType == ASSUME NEW S, NEW q \in Seq(S), NEW x, In(q, x) PROVE x \in S
BY DEF In

LEMMA InNone == \A x : ~In(<<>>, x)
BY DEF In

LEMMA Pop ==
    ASSUME NEW S, NEW q \in Seq(S), q # <<>>
    PROVE  /\ Head(q) \in S /\ Tail(q) \in Seq(S)
           /\ \A x : In(q, x) <=> x = Head(q) \/ In(Tail(q), x)
           /\ Len(q) \in Nat \ {0} /\ DOMAIN q = 1..Len(q) /\ Head(q) = q[1]
           /\ DOMAIN Tail(q) = 1..(Len(q) - 1)
           /\ \A j \in DOMAIN Tail(q) : j + 1 \in DOMAIN q /\ Tail(q)[j] = q[j + 1]
<1> DEFINE t == Tail(q)
<1>1. /\ Head(q) \in S /\ t \in Seq(S) /\ Len(q) \in Nat \ {0} /\ DOMAIN q = 1..Len(q) /\ Head(q) = q[1]
      /\ DOMAIN t = 1..(Len(q) - 1)
      /\ \A j \in DOMAIN t : j + 1 \in DOMAIN q /\ t[j] = q[j + 1]
  OBVIOUS
<1> HIDE DEF t
<1>2. \A j \in DOMAIN q : j = 1 \/ (j - 1 \in DOMAIN t /\ t[j - 1] = q[j])
  BY <1>1
<1>3. 1 \in DOMAIN q
  BY <1>1
<1>4. ASSUME NEW x PROVE In(q, x) <=> x = Head(q) \/ In(t, x)
  <2>1. In(q, x) => x = Head(q) \/ In(t, x)
    BY <1>1, <1>2 DEF In
  <2>2. In(t, x) => In(q, x)
    BY <1>1 DEF In
  <2>3. In(q, Head(q))
    BY <1>1, <1>3 DEF In
  <2> QED
    BY <2>1, <2>2, <2>3
<1> QED
  BY <1>1, <1>4 DEF t

LEMMA Push ==
    ASSUME NEW S, NEW q \in Seq(S), NEW e \in S
    PROVE  /\ Append(q, e) \in Seq(S) /\ Append(q, e) # <<>>
           /\ \A x : In(Append(q, e), x) <=> x = e \/ In(q, x)
           /\ Len(q) \in Nat /\ DOMAIN q = 1..Len(q)
           /\ DOMAIN Append(q, e) = 1..(Len(q) + 1)
           /\ Append(q, e)[Len(q) + 1] = e
           /\ \A j \in DOMAIN q : Append(q, e)[j] = q[j]
<1> DEFINE a == Append(q, e)
<1>1. /\ a \in Seq(S) /\ a # <<>> /\ Len(q) \in Nat /\ DOMAIN q = 1..Len(q)
      /\ DOMAIN a = 1..(Len(q) + 1) /\ a[Len(q) + 1] = e
      /\ \A j \in DOMAIN q : a[j] = q[j]
  OBVIOUS
<1> HIDE DEF a
<1>2. /\ \A j \in DOMAIN a : j \in DOMAIN q \/ j = Len(q) + 1
      /\ \A j \in DOMAIN q : j \in DOMAIN a
      /\ Len(q) + 1 \in DOMAIN a
  BY <1>1
<1>3. \A x : In(a, x) <=> x = e \/ In(q, x)
  BY <1>1, <1>2 DEF In
<1> QED
  BY <1>1, <1>3 DEF a

LEMMA Split ==
    ASSUME NEW S, NEW q \in Seq(S), NEW n \in 0..Len(q)
    PROVE  /\ First(n, q) \in Seq(S) /\ Rest(n, q) \in Seq(S)
           /\ Len(First(n, q)) = n /\ Len(Rest(n, q)) = Len(q) - n
           /\ First(n, q) \o Rest(n, q) = q
           /\ \A j \in 1..n : First(n, q)[j] = q[j]
           /\ \A j \in 1..(Len(q) - n) : Rest(n, q)[j] = q[n + j]
<1> DEFINE f == First(n, q)
           r == Rest(n, q)
<1>1. Len(q) \in Nat /\ n \in Nat /\ n <= Len(q) /\ DOMAIN q = 1..Len(q)
  OBVIOUS
<1>2. f \in Seq(S) /\ Len(f) = n /\ \A j \in 1..n : f[j] = q[j]
  BY <1>1 DEF First
<1>3. r \in Seq(S) /\ Len(r) = Len(q) - n /\ \A j \in 1..(Len(q) - n) : r[j] = q[n + j]
  <2>1. /\ \A i \in (n + 1)..Len(q) : q[i] \in S
        /\ n + 1 \in 1..(Len(q) + 1) /\ Len(q) \in n..Len(q)
    BY <1>1
  <2>2. /\ SubSeq(q, n + 1, Len(q)) \in Seq(S)
        /\ Len(SubSeq(q, n + 1, Len(q))) = IF n + 1 <= Len(q) THEN Len(q) - (n + 1) + 1 ELSE 0
        /\ \A i \in 1..(Len(q) - (n + 1) + 1) : SubSeq(q, n + 1, Len(q))[i] = q[n + 1 + i - 1]
    BY <2>1, <1>1, SubSeqProperties
  <2>3. \A j \in 1..(Len(q) - n) : j \in 1..(Len(q) - (n + 1) + 1) /\ n + 1 + j - 1 = n + j
    BY <1>1
  <2>4. Len(q) - n = IF n + 1 <= Len(q) THEN Len(q) - (n + 1) + 1 ELSE 0
    <3>1. CASE n + 1 <= Len(q)
      BY <1>1, <3>1
    <3>2. CASE n = Len(q)
      BY <1>1, <3>2
    <3>3. \A k \in Nat : n <= k => n + 1 <= k \/ n = k
      BY <1>1
    <3>4. n + 1 <= Len(q) \/ n = Len(q)
      BY <1>1, <3>3
    <3> QED
      BY <3>1, <3>2, <3>4
  <2>5. r = SubSeq(q, n + 1, Len(q))
    BY DEF Rest
  <2> HIDE DEF r
  <2>6. \A j \in 1..(Len(q) - n) : r[j] = q[n + j]
    BY <2>2, <2>3, <2>5
  <2> QED
    BY <2>2, <2>4, <2>5, <2>6
<1> HIDE DEF f, r
<1>4. f \o r = q
  <2> DEFINE c == f \o r
  <2>1. c \in Seq(S) /\ Len(c) = Len(q) /\ \A j \in 1..Len(q) : c[j] = q[j]
    <3>1. /\ c \in Seq(S) /\ Len(c) = n + (Len(q) - n)
          /\ \A j \in 1..n : c[j] = f[j]
          /\ \A j \in 1..(Len(q) - n) : c[n + j] = r[j]
      BY <1>2, <1>3, Cat
    <3> HIDE DEF c
    <3>2. ASSUME NEW j \in 1..Len(q) PROVE c[j] = q[j]
      <4>1. CASE j <= n
        BY <3>1, <4>1, <1>1, <1>2
      <4>2. CASE j > n
        <5>1. j - n \in 1..(Len(q) - n) /\ n + (j - n) = j
          BY <4>2, <1>1
        <5> QED
          BY <5>1, <3>1, <1>3
      <4> QED
        BY <4>1, <4>2, <1>1
    <3> QED
      BY <3>1, <3>2, <1>1
  <2> HIDE DEF c
  <2>2. c = q
    BY <2>1, SeqEqual
  <2> QED
    BY <2>2 DEF c
<1> QED
  BY <1>2, <1>3, <1>4 DEF f, r

LEMMA MinOf == ASSUME NEW a \in Nat, NEW b \in Nat
               PROVE  /\ Min({a, b}) \in Nat /\ Min({a, b}) <= a /\ Min({a, b}) <= b
                      /\ Min({a, b}) = a \/ Min({a, b}) = b
<1>1. CASE a <= b
  BY <1>1 DEF Min
<1>2. CASE b <= a
  BY <1>2 DEF Min
<1> QED
  BY <1>1, <1>2

LEMMA PartFields == ASSUME NEW x \in Part PROVE x.p \in Packet /\ x.i \in 1..Size
BY DEF Part

LEMMA PacketFields == ASSUME NEW p \in Packet PROVE p.from \in Sender /\ p.n \in Nat /\ p.low \in BOOLEAN /\ p.id \in Nat
BY DEF Packet

LEMMA PartsOf ==
    ASSUME NEW p \in Packet
    PROVE  /\ Parts(p) \in Seq(Part) /\ Len(Parts(p)) = Size /\ Size \in Nat \ {0}
           /\ \A j \in 1..Size : Parts(p)[j] = [p |-> p, i |-> j]
           /\ \A x : In(Parts(p), x) <=> x \in Part /\ x.p = p
<1>1. Size \in Nat \ {0}
  BY SendAssumption
<1>2. /\ Parts(p) \in Seq(Part) /\ Len(Parts(p)) = Size
      /\ \A j \in 1..Size : Parts(p)[j] = [p |-> p, i |-> j]
  BY <1>1 DEF Parts, Part
<1>3. DOMAIN Parts(p) = 1..Size
  BY <1>1 DEF Parts
<1>4. ASSUME NEW x PROVE In(Parts(p), x) <=> x \in Part /\ x.p = p
  BY <1>2, <1>3 DEF In, Part
<1> QED
  BY <1>1, <1>2, <1>4
-----------------------------------------------------------------------------
\* Whole packets.
LEMMA WholeCat ==
    ASSUME NEW q \in Seq(Part), NEW r \in Seq(Part), Whole(q), Whole(r)
    PROVE  Whole(q \o r)
<1> DEFINE c == q \o r
<1>1. Size \in Nat \ {0}
  BY SendAssumption
<1>2. /\ c \in Seq(Part) /\ Len(q) \in Nat /\ Len(r) \in Nat
      /\ DOMAIN q = 1..Len(q) /\ DOMAIN r = 1..Len(r) /\ DOMAIN c = 1..(Len(q) + Len(r))
      /\ \A j \in 1..Len(q) : c[j] = q[j]
      /\ \A j \in 1..Len(r) : c[Len(q) + j] = r[j]
      /\ \A j \in DOMAIN c : \/ j \in 1..Len(q)
                             \/ j > Len(q) /\ j - Len(q) \in 1..Len(r) /\ j = Len(q) + (j - Len(q))
  BY Cat
<1>3. /\ \A j \in DOMAIN q : q[j].i \in 1..Size
      /\ \A j \in DOMAIN r : r[j].i \in 1..Size
  BY PartFields
<1> HIDE DEF c
<1>4. ASSUME NEW j \in 1..Len(q)
      PROVE  /\ After(c, j)
             /\ \A d \in 0..(Size - c[j].i) : j + d \in DOMAIN c /\ c[j + d].p = c[j].p
                                                                 /\ c[j + d].i = c[j].i + d
  <2>1. /\ After(q, j)
        /\ \A d \in 0..(Size - q[j].i) : j + d \in DOMAIN q /\ q[j + d].p = q[j].p
                                                            /\ q[j + d].i = q[j].i + d
    BY <1>2 DEF Whole
  <2>2. c[j] = q[j] /\ (j > 1 => c[j - 1] = q[j - 1])
    <3>1. j > 1 => j - 1 \in 1..Len(q)
      BY <1>2
    <3> QED
      BY <3>1, <1>2
  <2>3. After(c, j)
    BY <2>1, <2>2 DEF After
  <2>4. ASSUME NEW d \in 0..(Size - c[j].i)
        PROVE  j + d \in DOMAIN c /\ c[j + d].p = c[j].p /\ c[j + d].i = c[j].i + d
    <3>1. j + d \in 1..Len(q) /\ q[j + d].p = q[j].p /\ q[j + d].i = q[j].i + d
      BY <2>1, <2>2, <1>2
    <3>2. j + d \in DOMAIN c /\ c[j + d] = q[j + d]
      BY <3>1, <1>2
    <3> QED
      BY <3>1, <3>2, <2>2
  <2> QED
    BY <2>3, <2>4
<1>5. ASSUME NEW k \in 1..Len(r)
      PROVE  /\ After(c, Len(q) + k)
             /\ \A d \in 0..(Size - c[Len(q) + k].i) :
                   /\ Len(q) + k + d \in DOMAIN c /\ c[Len(q) + k + d].p = c[Len(q) + k].p
                   /\ c[Len(q) + k + d].i = c[Len(q) + k].i + d
  <2>1. /\ After(r, k)
        /\ \A d \in 0..(Size - r[k].i) : k + d \in DOMAIN r /\ r[k + d].p = r[k].p
                                                            /\ r[k + d].i = r[k].i + d
    BY <1>2 DEF Whole
  <2>2. c[Len(q) + k] = r[k]
    BY <1>2
  <2>3. After(c, Len(q) + k)
    <3>1. CASE k > 1
      <4>1. Len(q) + k - 1 = Len(q) + (k - 1) /\ k - 1 \in 1..Len(r)
        BY <1>2, <3>1
      <4>2. c[Len(q) + k - 1] = r[k - 1]
        BY <4>1, <1>2
      <4>3. Len(q) + k > 1 /\ Len(q) + k # 1
        BY <3>1, <1>2
      <4> QED
        BY <4>2, <4>3, <2>1, <2>2, <3>1 DEF After
    <3>2. CASE k = 1
      <4>1. r[k].i = 1
        BY <2>1, <3>2 DEF After
      <4>2. CASE Len(q) = 0
        BY <4>1, <4>2, <3>2, <2>2 DEF After
      <4>3. CASE Len(q) > 0
        <5> DEFINE t == Len(q)
        <5>1. t \in DOMAIN q /\ c[t] = q[t] /\ Len(q) + k - 1 = t /\ t \in Nat
          BY <4>3, <1>2, <3>2
        <5>2. q[t].i \in 1..Size
          BY <5>1, <1>3
        <5>3. q[t].i = Size
          <6>1. \A d \in 0..(Size - q[t].i) : t + d \in DOMAIN q
            BY <5>1 DEF Whole
          <6>2. ASSUME q[t].i # Size PROVE FALSE
            <7>1. 1 \in 0..(Size - q[t].i)
              BY <5>2, <6>2, <1>1
            <7>2. t + 1 \in DOMAIN q
              BY <6>1, <7>1
            <7> QED
              BY <7>2, <1>2
          <6> QED
            BY <6>2
        <5> QED
          BY <4>1, <2>2, <5>1, <5>3 DEF After
      <4> QED
        BY <4>2, <4>3, <1>2
    <3> QED
      BY <3>1, <3>2
  <2>4. ASSUME NEW d \in 0..(Size - c[Len(q) + k].i)
        PROVE  /\ Len(q) + k + d \in DOMAIN c /\ c[Len(q) + k + d].p = c[Len(q) + k].p
               /\ c[Len(q) + k + d].i = c[Len(q) + k].i + d
    <3>1. k + d \in 1..Len(r) /\ r[k + d].p = r[k].p /\ r[k + d].i = r[k].i + d
      BY <2>1, <2>2, <1>2
    <3>2. Len(q) + k + d = Len(q) + (k + d) /\ Len(q) + (k + d) \in DOMAIN c
      BY <3>1, <1>2, <1>3
    <3>3. c[Len(q) + k + d] = r[k + d]
      BY <3>1, <3>2, <1>2
    <3> QED
      BY <3>1, <3>2, <3>3, <2>2
  <2> QED
    BY <2>3, <2>4
<1>6. ASSUME NEW j \in DOMAIN c
      PROVE  /\ After(c, j)
             /\ \A d \in 0..(Size - c[j].i) : j + d \in DOMAIN c /\ c[j + d].p = c[j].p
                                                                 /\ c[j + d].i = c[j].i + d
  <2>1. CASE j \in 1..Len(q)
    BY <2>1, <1>4
  <2>2. CASE j - Len(q) \in 1..Len(r) /\ j = Len(q) + (j - Len(q))
    <3> DEFINE k == j - Len(q)
    <3>1. k \in 1..Len(r) /\ j = Len(q) + k
      BY <2>2
    <3> HIDE DEF k
    <3> QED
      BY <3>1, <1>5
  <2> QED
    BY <2>1, <2>2, <1>2
<1>7. Whole(c)
  BY <1>6 DEF Whole
<1> QED
  BY <1>7 DEF c

LEMMA WholeCut ==
    ASSUME NEW q \in Seq(Part), NEW r \in Seq(Part), Whole(q \o r), ~Uncomplete(r)
    PROVE  Whole(q) /\ Whole(r)
<1> DEFINE c == q \o r
<1>1. Size \in Nat \ {0}
  BY SendAssumption
<1>2. /\ c \in Seq(Part) /\ Len(q) \in Nat /\ Len(r) \in Nat
      /\ DOMAIN q = 1..Len(q) /\ DOMAIN r = 1..Len(r) /\ DOMAIN c = 1..(Len(q) + Len(r))
      /\ \A j \in 1..Len(q) : c[j] = q[j]
      /\ \A j \in 1..Len(r) : c[Len(q) + j] = r[j]
  BY Cat
<1>3. /\ \A j \in DOMAIN q : q[j].i \in 1..Size
      /\ \A j \in DOMAIN r : r[j].i \in 1..Size
  BY PartFields
<1>4. Whole(c)
  OBVIOUS
<1>5. 1 \in DOMAIN r => r[1].i = 1
  BY <1>2 DEF Uncomplete
<1> HIDE DEF c
<1>6. ASSUME NEW j \in DOMAIN q
      PROVE  /\ After(q, j)
             /\ \A d \in 0..(Size - q[j].i) : j + d \in DOMAIN q /\ q[j + d].p = q[j].p
                                                                 /\ q[j + d].i = q[j].i + d
  <2>1. c[j] = q[j] /\ (j > 1 => c[j - 1] = q[j - 1]) /\ j \in DOMAIN c
    BY <1>2
  <2>2. /\ After(c, j)
        /\ \A d \in 0..(Size - q[j].i) : j + d \in DOMAIN c /\ c[j + d].p = q[j].p
                                                            /\ c[j + d].i = q[j].i + d
    BY <1>4, <2>1 DEF Whole
  <2>3. After(q, j)
    BY <2>1, <2>2 DEF After
  <2>4. ASSUME NEW d \in 0..(Size - q[j].i)
        PROVE  j + d \in DOMAIN q /\ q[j + d].p = q[j].p /\ q[j + d].i = q[j].i + d
    <3>1. j + d \in DOMAIN c /\ c[j + d].p = q[j].p /\ c[j + d].i = q[j].i + d
      BY <2>2
    <3>2. j + d \in DOMAIN q
      <4> SUFFICES ASSUME j + d > Len(q) PROVE FALSE
        BY <3>1, <1>2
      <4> DEFINE e == Len(q) + 1 - j
      <4>1. e \in 0..(Size - q[j].i) /\ j + e = Len(q) + 1 /\ e > 0 /\ 1 \in DOMAIN r
        <5>1. q[j].i \in 1..Size /\ j \in 1..Len(q) /\ d \in Nat /\ d <= Size - q[j].i
          BY <1>2, <1>3, <1>1
        <5>2. e \in Nat /\ e <= d /\ e > 0 /\ j + e = Len(q) + 1
          BY <5>1, <1>2
        <5>3. 1 \in DOMAIN r
          BY <3>1, <1>2, <5>1
        <5> HIDE DEF e
        <5> QED
          BY <5>1, <5>2, <5>3, <1>1
      <4>2. c[Len(q) + 1].i = q[j].i + e
        BY <4>1, <2>2
      <4>3. c[Len(q) + 1].i = 1
        BY <4>1, <1>2, <1>5
      <4> QED
        BY <4>1, <4>2, <4>3, <1>3
    <3>3. c[j + d] = q[j + d]
      BY <3>2, <1>2
    <3> QED
      BY <3>1, <3>2, <3>3
  <2> QED
    BY <2>3, <2>4
<1>7. ASSUME NEW k \in DOMAIN r
      PROVE  /\ After(r, k)
             /\ \A d \in 0..(Size - r[k].i) : k + d \in DOMAIN r /\ r[k + d].p = r[k].p
                                                                 /\ r[k + d].i = r[k].i + d
  <2> DEFINE j == Len(q) + k
  <2>1. c[j] = r[k] /\ j \in DOMAIN c /\ j \in Nat
    BY <1>2
  <2>2. /\ After(c, j)
        /\ \A d \in 0..(Size - r[k].i) : j + d \in DOMAIN c /\ c[j + d].p = r[k].p
                                                            /\ c[j + d].i = r[k].i + d
    BY <1>4, <2>1 DEF Whole
  <2>3. After(r, k)
    <3>1. CASE k = 1
      BY <3>1, <1>5 DEF After
    <3>2. CASE k > 1
      <4>1. k - 1 \in 1..Len(r) /\ j - 1 = Len(q) + (k - 1) /\ j # 1
        BY <3>2, <1>2
      <4>2. c[j - 1] = r[k - 1]
        BY <4>1, <1>2
      <4> QED
        BY <4>1, <4>2, <2>1, <2>2, <3>2 DEF After
    <3> QED
      BY <3>1, <3>2, <1>2
  <2>4. ASSUME NEW d \in 0..(Size - r[k].i)
        PROVE  k + d \in DOMAIN r /\ r[k + d].p = r[k].p /\ r[k + d].i = r[k].i + d
    <3>1. j + d \in DOMAIN c /\ c[j + d].p = r[k].p /\ c[j + d].i = r[k].i + d
      BY <2>2
    <3>2. k + d \in 1..Len(r) /\ j + d = Len(q) + (k + d)
      BY <3>1, <1>2, <1>3, <1>1
    <3>3. c[j + d] = r[k + d]
      BY <3>2, <1>2
    <3> QED
      BY <3>1, <3>2, <3>3, <1>2
  <2> QED
    BY <2>3, <2>4
<1> QED
  BY <1>6, <1>7 DEF Whole

LEMMA WholeParts == ASSUME NEW p \in Packet PROVE Whole(Parts(p)) /\ ~Uncomplete(Parts(p))
<1> DEFINE q == Parts(p)
<1>1. /\ q \in Seq(Part) /\ Len(q) = Size /\ Size \in Nat \ {0} /\ DOMAIN q = 1..Size
      /\ \A j \in 1..Size : q[j] = [p |-> p, i |-> j]
  BY PartsOf, LenProperties
<1> HIDE DEF q
<1>2. ASSUME NEW j \in DOMAIN q
      PROVE  /\ After(q, j)
             /\ \A d \in 0..(Size - q[j].i) : j + d \in DOMAIN q /\ q[j + d].p = q[j].p
                                                                 /\ q[j + d].i = q[j].i + d
  BY <1>1 DEF After
<1>3. Whole(q)
  BY <1>2 DEF Whole
<1>4. ~Uncomplete(q)
  BY <1>1 DEF Uncomplete
<1> QED
  BY <1>3, <1>4 DEF q

LEMMA Prefix ==
    ASSUME NEW q \in Seq(Part), NEW r \in Seq(Part), Whole(q \o r)
    PROVE  \A j \in DOMAIN q : After(q, j)
<1> DEFINE c == q \o r
<1>1. /\ Len(q) \in Nat /\ DOMAIN q = 1..Len(q)
      /\ \A j \in 1..Len(q) : j \in DOMAIN c /\ c[j] = q[j]
  BY Cat
<1>2. Whole(c)
  OBVIOUS
<1> HIDE DEF c
<1>3. ASSUME NEW j \in DOMAIN q PROVE After(q, j)
  <2>1. c[j] = q[j] /\ (j > 1 => c[j - 1] = q[j - 1]) /\ j \in DOMAIN c
    BY <1>1
  <2>2. After(c, j)
    BY <1>2, <2>1 DEF Whole
  <2> QED
    BY <2>1, <2>2 DEF After
<1> QED
  BY <1>3

\* What raise_uncomplete takes from the low list is the rest of its first packet.
LEMMA Raised ==
    ASSUME NEW q \in Seq(Part), NEW l \in Seq(Part), Whole(q \o l), l # <<>>,
           NEW r, r = Size + 1 - l[1].i
    PROVE  r \in 0..Len(l) /\ ~Uncomplete(Rest(r, l))
<1> DEFINE c == q \o l
           j == Len(q) + 1
<1>1. Size \in Nat \ {0}
  BY SendAssumption
<1>2. /\ Len(q) \in Nat /\ Len(l) \in Nat /\ Len(l) > 0 /\ DOMAIN c = 1..(Len(q) + Len(l))
      /\ \A k \in 1..Len(l) : c[Len(q) + k] = l[k]
  BY Cat
<1>3. /\ \A k \in 1..Len(l) : l[k].i \in 1..Size
  BY PartFields
<1>4. Whole(c)
  OBVIOUS
<1> HIDE DEF c
<1>5. c[j] = l[1] /\ j \in DOMAIN c /\ l[1].i \in 1..Size
  BY <1>2, <1>3
<1>6. \A d \in 0..(Size - l[1].i) : j + d \in DOMAIN c /\ c[j + d].i = l[1].i + d
  BY <1>4, <1>5 DEF Whole
<1>7. Size - l[1].i \in 0..(Size - l[1].i)
  BY <1>1, <1>5
<1>8. j + (Size - l[1].i) \in DOMAIN c /\ c[j + (Size - l[1].i)].i = l[1].i + (Size - l[1].i)
  BY <1>6, <1>7
<1>9. r \in 0..Len(l) /\ r \in Nat
  BY <1>8, <1>2, <1>5, <1>1
<1>10. ASSUME Rest(r, l) # <<>> PROVE Rest(r, l)[1].i = 1
  <2>1. /\ Rest(r, l) \in Seq(Part) /\ Len(Rest(r, l)) = Len(l) - r
        /\ \A k \in 1..(Len(l) - r) : Rest(r, l)[k] = l[r + k]
    BY <1>9, Split
  <2>2. Len(l) - r > 0
    BY <2>1, <1>10, <1>9, <1>2
  <2>3. Rest(r, l)[1] = l[r + 1] /\ r + 1 \in 1..Len(l)
    BY <2>1, <2>2, <1>9, <1>2
  <2>4. c[Len(q) + (r + 1)] = l[r + 1] /\ Len(q) + (r + 1) \in DOMAIN c
    BY <2>3, <1>2
  <2>5. After(c, Len(q) + (r + 1))
    BY <2>4, <1>4 DEF Whole
  <2>6. Len(q) + (r + 1) - 1 = j + (Size - l[1].i) /\ c[j + (Size - l[1].i)].i = Size
    <3> DEFINE v == l[1].i
    <3>1. v \in 1..Size /\ r = Size + 1 - v
      BY <1>5
    <3>2. c[j + (Size - v)].i = v + (Size - v)
      BY <1>8
    <3> HIDE DEF v
    <3>3. v + (Size - v) = Size /\ r + 1 - 1 = 1 + (Size - v) /\ r \in Nat /\ Size - v \in Nat
      BY <3>1, <1>1, <1>9
    <3>4. \A k \in Nat : k + (r + 1) - 1 = k + 1 + (Size - v)
      BY <3>3
    <3> QED
      BY <3>2, <3>3, <3>4, <1>2 DEF v
  <2>7. l[r + 1].i \in 1..Size
    BY <2>3, <1>3
  <2> DEFINE t == Len(q) + (r + 1)
             w == l[r + 1].i
  <2>8. c[t].i = w /\ c[t - 1].i = Size /\ After(c, t)
    BY <2>4, <2>5, <2>6
  <2>9. w = 1 \/ Size = w - 1
    BY <2>8 DEF After
  <2> HIDE DEF w
  <2>10. w = 1
    BY <2>9, <2>7, <1>1 DEF w
  <2> QED
    BY <2>3, <2>10 DEF w
<1> QED
  BY <1>9, <1>10 DEF Uncomplete
-----------------------------------------------------------------------------
\* The order of parts.
LEMMA OrderedCat ==
    ASSUME NEW q \in Seq(Part), NEW r \in Seq(Part), Ordered(q), Ordered(r),
           \A x, y : In(q, x) /\ In(r, y) => Ok(x, y)
    PROVE  Ordered(q \o r)
<1> DEFINE c == q \o r
<1>1. /\ Len(q) \in Nat /\ Len(r) \in Nat
      /\ DOMAIN q = 1..Len(q) /\ DOMAIN r = 1..Len(r) /\ DOMAIN c = 1..(Len(q) + Len(r))
      /\ \A j \in 1..Len(q) : c[j] = q[j]
      /\ \A j \in 1..Len(r) : c[Len(q) + j] = r[j]
      /\ \A j \in DOMAIN c : \/ j \in 1..Len(q)
                             \/ j > Len(q) /\ j - Len(q) \in 1..Len(r) /\ j = Len(q) + (j - Len(q))
  BY Cat
<1> HIDE DEF c
<1>2. \A j \in DOMAIN c : j > Len(q) => c[j] = r[j - Len(q)] /\ j - Len(q) \in DOMAIN r
  BY <1>1
<1>3. ASSUME NEW j \in DOMAIN c, NEW k \in DOMAIN c, j < k PROVE Ok(c[j], c[k])
  <2>1. CASE k \in 1..Len(q)
    <3>1. j \in 1..Len(q)
      BY <1>3, <1>1, <2>1
    <3> QED
      BY <3>1, <2>1, <1>1, <1>3 DEF Ordered
  <2>2. CASE j \in 1..Len(q) /\ k > Len(q)
    <3>1. In(q, c[j]) /\ In(r, c[k])
      BY <2>2, <1>1, <1>2 DEF In
    <3> QED
      BY <3>1
  <2>3. CASE j > Len(q) /\ k > Len(q)
    <3>1. j - Len(q) < k - Len(q)
      BY <1>3, <1>1
    <3> QED
      BY <3>1, <2>3, <1>2 DEF Ordered
  <2> QED
    BY <2>1, <2>2, <2>3, <1>1
<1>4. Ordered(c)
  BY <1>3 DEF Ordered
<1> QED
  BY <1>4 DEF c

LEMMA OrderedCut ==
    ASSUME NEW q \in Seq(Part), NEW r \in Seq(Part), Ordered(q \o r)
    PROVE  /\ Ordered(q) /\ Ordered(r)
           /\ \A x, y : In(q, x) /\ In(r, y) => Ok(x, y)
<1> DEFINE c == q \o r
<1>1. /\ Len(q) \in Nat /\ Len(r) \in Nat
      /\ DOMAIN q = 1..Len(q) /\ DOMAIN r = 1..Len(r) /\ DOMAIN c = 1..(Len(q) + Len(r))
      /\ \A j \in 1..Len(q) : j \in DOMAIN c /\ c[j] = q[j]
      /\ \A j \in 1..Len(r) : Len(q) + j \in DOMAIN c /\ c[Len(q) + j] = r[j]
  BY Cat
<1>2. \A j, k \in DOMAIN c : j < k => Ok(c[j], c[k])
  BY DEF Ordered
<1> HIDE DEF c
<1>3. Ordered(q)
  BY <1>1, <1>2 DEF Ordered
<1>4. ASSUME NEW j \in DOMAIN r, NEW k \in DOMAIN r, j < k PROVE Ok(r[j], r[k])
  <2>1. Len(q) + j < Len(q) + k
    BY <1>1, <1>4
  <2>2. /\ Len(q) + j \in DOMAIN c /\ c[Len(q) + j] = r[j]
        /\ Len(q) + k \in DOMAIN c /\ c[Len(q) + k] = r[k]
    BY <1>1
  <2>3. Ok(c[Len(q) + j], c[Len(q) + k])
    BY <2>1, <2>2, <1>2
  <2> QED
    BY <2>2, <2>3
<1>5. ASSUME NEW x, NEW y, In(q, x), In(r, y) PROVE Ok(x, y)
  <2>1. PICK j \in 1..Len(q) : q[j] = x
    BY <1>1, <1>5 DEF In
  <2>2. PICK k \in 1..Len(r) : r[k] = y
    BY <1>1, <1>5 DEF In
  <2>3. j < Len(q) + k
    BY <1>1
  <2>4. /\ j \in DOMAIN c /\ c[j] = x
        /\ Len(q) + k \in DOMAIN c /\ c[Len(q) + k] = y
    BY <1>1, <2>1, <2>2
  <2>5. Ok(c[j], c[Len(q) + k])
    BY <2>3, <2>4, <1>2
  <2> QED
    BY <2>4, <2>5
<1> QED
  BY <1>3, <1>4, <1>5 DEF Ordered

LEMMA OrderedParts == ASSUME NEW p \in Packet PROVE Ordered(Parts(p))
<1> DEFINE q == Parts(p)
<1>1. /\ DOMAIN q = 1..Size /\ Size \in Nat
      /\ \A j \in 1..Size : q[j] = [p |-> p, i |-> j]
  BY PartsOf, LenProperties
<1> HIDE DEF q
<1>2. Ordered(q)
  BY <1>1 DEF Ordered, Ok
<1> QED
  BY <1>2 DEF q

\* A packet that is put into a sequence.
LEMMA OrderedInsert ==
    ASSUME NEW q \in Seq(Part), NEW r \in Seq(Part), NEW p \in Packet, Ordered(q \o r),
           \A x : In(q, x) /\ x.p.from = p.from => x.p.n < p.n,
           \A x : In(r, x) /\ x.p.from = p.from => x.p.low /\ ~p.low
    PROVE  Ordered(q \o (Parts(p) \o r))
<1> DEFINE m == Parts(p)
<1>1. m \in Seq(Part) /\ Ordered(m) /\ \A x : In(m, x) <=> x \in Part /\ x.p = p
  BY PartsOf, OrderedParts
<1>2. Ordered(q) /\ Ordered(r) /\ \A x, y : In(q, x) /\ In(r, y) => Ok(x, y)
  BY OrderedCut
<1> HIDE DEF m
<1>3. \A x, y : In(m, x) /\ In(r, y) => Ok(x, y)
  BY <1>1 DEF Ok
<1>4. m \o r \in Seq(Part) /\ Ordered(m \o r)
  BY <1>1, <1>2, <1>3, OrderedCat, Cat
<1>5. \A x, y : In(q, x) /\ In(m, y) => Ok(x, y)
  BY <1>1 DEF Ok
<1>6. \A x, y : In(q, x) /\ In(m \o r, y) => Ok(x, y)
  BY <1>1, <1>2, <1>5, CatIn
<1>7. Ordered(q \o (m \o r))
  BY <1>2, <1>4, <1>6, OrderedCat
<1> QED
  BY <1>7 DEF m

LEMMA WholeInsert ==
    ASSUME NEW q \in Seq(Part), NEW r \in Seq(Part), NEW p \in Packet, Whole(q \o r), ~Uncomplete(r)
    PROVE  Whole(q \o (Parts(p) \o r))
<1> DEFINE m == Parts(p)
<1>1. m \in Seq(Part) /\ Whole(m)
  BY PartsOf, WholeParts
<1> HIDE DEF m
<1>2. Whole(q) /\ Whole(r)
  BY WholeCut
<1>3. m \o r \in Seq(Part) /\ Whole(m \o r)
  BY <1>1, <1>2, WholeCat, Cat
<1>4. Whole(q \o (m \o r))
  BY <1>2, <1>3, WholeCat
<1> QED
  BY <1>4 DEF m
-----------------------------------------------------------------------------
\* The pipe: what its requests say of each other, and how many there are of a kind.
LEMMA LaterPush ==
    ASSUME NEW q \in Seq(Request), NEW e \in Request, Later(q),
           IsSend(e) => \A r : In(q, r) /\ IsSend(r) /\ r.p.from = e.p.from => r.p.n < e.p.n
    PROVE  Later(Append(q, e))
<1> DEFINE a == Append(q, e)
<1>1. /\ Len(q) \in Nat /\ DOMAIN q = 1..Len(q) /\ DOMAIN a = 1..(Len(q) + 1)
      /\ a[Len(q) + 1] = e /\ \A j \in DOMAIN q : a[j] = q[j]
  BY Push
<1> HIDE DEF a
<1>2. ASSUME NEW j \in DOMAIN a, NEW k \in DOMAIN a, j < k,
             IsSend(a[j]), IsSend(a[k]), a[j].p.from = a[k].p.from
      PROVE  a[j].p.n < a[k].p.n
  <2>1. j \in DOMAIN q /\ a[j] = q[j]
    BY <1>1, <1>2
  <2>2. CASE k \in DOMAIN q
    BY <2>1, <2>2, <1>1, <1>2 DEF Later
  <2>3. CASE k = Len(q) + 1
    BY <2>1, <2>3, <1>1, <1>2 DEF In
  <2> QED
    BY <2>2, <2>3, <1>1
<1>3. Later(a)
  BY <1>2 DEF Later
<1> QED
  BY <1>3 DEF a

LEMMA LaterPop ==
    ASSUME NEW q \in Seq(Request), q # <<>>, Later(q)
    PROVE  /\ Later(Tail(q))
           /\ IsSend(Head(q)) => \A r : In(Tail(q), r) /\ IsSend(r) /\ r.p.from = Head(q).p.from
                                            => Head(q).p.n < r.p.n
<1> DEFINE t == Tail(q)
<1>1. /\ Len(q) \in Nat \ {0} /\ DOMAIN q = 1..Len(q) /\ Head(q) = q[1]
      /\ DOMAIN t = 1..(Len(q) - 1)
      /\ \A j \in DOMAIN t : j + 1 \in DOMAIN q /\ t[j] = q[j + 1]
  BY Pop
<1> HIDE DEF t
<1>2. 1 \in DOMAIN q /\ \A j \in DOMAIN t : 1 < j + 1
  BY <1>1
<1>3. \A j, k \in DOMAIN t : j < k => j + 1 < k + 1
  BY <1>1
<1>4. Later(t)
  BY <1>1, <1>3 DEF Later
<1>5. ASSUME IsSend(q[1]), NEW r, In(t, r), IsSend(r), r.p.from = q[1].p.from
      PROVE  q[1].p.n < r.p.n
  <2>1. PICK j \in DOMAIN t : t[j] = r
    BY <1>5 DEF In
  <2>2. j + 1 \in DOMAIN q /\ q[j + 1] = r /\ 1 < j + 1
    BY <1>1, <1>2, <2>1
  <2> QED
    BY <2>2, <1>2, <1>5 DEF Later
<1> QED
  BY <1>1, <1>4, <1>5 DEF t

LEMMA LastPush ==
    ASSUME NEW q \in Seq(Request), NEW e \in Request, Last(q),
           (\E r : In(q, r) /\ IsClose(r)) => ~IsClose(e) /\ \A n \in Given : ~Sends(e, n)
    PROVE  Last(Append(q, e))
<1> DEFINE a == Append(q, e)
<1>1. /\ Len(q) \in Nat /\ DOMAIN q = 1..Len(q) /\ DOMAIN a = 1..(Len(q) + 1)
      /\ a[Len(q) + 1] = e /\ \A j \in DOMAIN q : a[j] = q[j]
  BY Push
<1> HIDE DEF a
<1>2. ASSUME NEW j \in DOMAIN a, NEW k \in DOMAIN a, j < k, IsClose(a[j])
      PROVE  ~IsClose(a[k]) /\ \A n \in Given : ~Sends(a[k], n)
  <2>1. j \in DOMAIN q /\ a[j] = q[j]
    BY <1>1, <1>2
  <2>2. CASE k \in DOMAIN q
    BY <2>1, <2>2, <1>1, <1>2 DEF Last
  <2>3. CASE k = Len(q) + 1
    BY <2>1, <2>3, <1>1, <1>2 DEF In
  <2> QED
    BY <2>2, <2>3, <1>1
<1>3. Last(a)
  BY <1>2 DEF Last
<1> QED
  BY <1>3 DEF a

LEMMA LastPop ==
    ASSUME NEW q \in Seq(Request), q # <<>>, Last(q)
    PROVE  /\ Last(Tail(q))
           /\ IsClose(Head(q)) => \A r : In(Tail(q), r) => /\ ~IsClose(r)
                                                           /\ \A n \in Given : ~Sends(r, n)
<1> DEFINE t == Tail(q)
<1>1. /\ Len(q) \in Nat \ {0} /\ DOMAIN q = 1..Len(q) /\ Head(q) = q[1]
      /\ DOMAIN t = 1..(Len(q) - 1)
      /\ \A j \in DOMAIN t : j + 1 \in DOMAIN q /\ t[j] = q[j + 1]
  BY Pop
<1> HIDE DEF t
<1>2. 1 \in DOMAIN q /\ \A j \in DOMAIN t : 1 < j + 1
  BY <1>1
<1>3. \A j, k \in DOMAIN t : j < k => j + 1 < k + 1
  BY <1>1
<1>4. Last(t)
  BY <1>1, <1>3 DEF Last
<1>5. ASSUME IsClose(q[1]), NEW r, In(t, r)
      PROVE  ~IsClose(r) /\ \A n \in Given : ~Sends(r, n)
  <2>1. PICK j \in DOMAIN t : t[j] = r
    BY <1>5 DEF In
  <2>2. j + 1 \in DOMAIN q /\ q[j + 1] = r /\ 1 < j + 1
    BY <1>1, <1>2, <2>1
  <2> QED
    BY <2>2, <1>2, <1>5 DEF Last
<1> QED
  BY <1>1, <1>4, <1>5 DEF t

Count(q, M) == Cardinality({i \in DOMAIN q : q[i] \in M})

LEMMA Numbered ==
    ASSUME NEW S, NEW q \in Seq(S), NEW M
    PROVE  IsFiniteSet({i \in DOMAIN q : q[i] \in M}) /\ Count(q, M) \in Nat
<1>1. IsFiniteSet(1..Len(q)) /\ DOMAIN q = 1..Len(q)
  BY FS_Interval, LenProperties
<1>2. {i \in DOMAIN q : q[i] \in M} \in SUBSET (1..Len(q))
  BY <1>1
<1> QED
  BY <1>1, <1>2, FS_Subset, FS_CardinalityType DEF Count

LEMMA CountPush ==
    ASSUME NEW S, NEW q \in Seq(S), NEW e \in S, NEW M
    PROVE  Count(Append(q, e), M) = Count(q, M) + IF e \in M THEN 1 ELSE 0
<1> DEFINE a == Append(q, e)
           A == {i \in DOMAIN a : a[i] \in M}
           Q == {i \in DOMAIN q : q[i] \in M}
<1>1. /\ Len(q) \in Nat /\ DOMAIN q = 1..Len(q) /\ DOMAIN a = 1..(Len(q) + 1)
      /\ a[Len(q) + 1] = e /\ \A j \in DOMAIN q : a[j] = q[j]
  BY Push
<1>2. IsFiniteSet(Q) /\ Cardinality(Q) \in Nat
  BY Numbered DEF Count
<1> HIDE DEF a
<1>3. \A j : j \in DOMAIN a <=> j \in DOMAIN q \/ j = Len(q) + 1
  BY <1>1
<1>4. Len(q) + 1 \notin Q
  BY <1>1
<1>5. CASE e \in M
  <2>1. A = Q \cup {Len(q) + 1}
    BY <1>1, <1>3, <1>5
  <2> HIDE DEF A, Q
  <2>2. Cardinality(A) = Cardinality(Q) + 1
    BY <2>1, <1>2, <1>4, FS_AddElement
  <2> QED
    BY <2>2, <1>5 DEF A, Q, a, Count
<1>6. CASE e \notin M
  <2>1. A = Q
    BY <1>1, <1>3, <1>6
  <2> HIDE DEF A, Q
  <2>2. Cardinality(A) = Cardinality(Q) + 0
    BY <2>1, <1>2
  <2> QED
    BY <2>2, <1>6 DEF A, Q, a, Count
<1> QED
  BY <1>5, <1>6

LEMMA CountPop ==
    ASSUME NEW S, NEW q \in Seq(S), q # <<>>, NEW M
    PROVE  Count(q, M) = Count(Tail(q), M) + IF Head(q) \in M THEN 1 ELSE 0
<1> DEFINE t == Tail(q)
           Q == {i \in DOMAIN q : q[i] \in M}
           T == {i \in DOMAIN t : t[i] \in M}
           U == Q \ {1}
           F == [i \in T |-> i + 1]
<1>1. /\ Len(q) \in Nat \ {0} /\ DOMAIN q = 1..Len(q) /\ Head(q) = q[1]
      /\ DOMAIN t = 1..(Len(q) - 1) /\ t \in Seq(S)
      /\ \A j \in DOMAIN t : j + 1 \in DOMAIN q /\ t[j] = q[j + 1]
  BY Pop
<1>2. IsFiniteSet(Q) /\ Cardinality(Q) \in Nat
  BY Numbered DEF Count
<1>3. IsFiniteSet(T) /\ Cardinality(T) \in Nat
  BY <1>1, Numbered DEF Count
<1> HIDE DEF t
<1>4. \A j \in T : j + 1 \in U /\ j \in Nat
  BY <1>1
<1>5. \A k \in U : k - 1 \in T /\ k = (k - 1) + 1
  BY <1>1
<1>6. 1 \in Q <=> Head(q) \in M
  BY <1>1
<1> HIDE DEF T, U
<1>7. /\ F \in [T -> U]
      /\ \A a, b \in T : F[a] = F[b] => a = b
      /\ \A k \in U : \E a \in T : F[a] = k
  BY <1>4, <1>5
<1>8. ExistsBijection(T, U)
  <2> HIDE DEF F
  <2>1. F \in Injection(T, U)
    BY <1>7 DEF Injection, IsInjective
  <2>2. F \in Surjection(T, U)
    BY <1>7 DEF Surjection
  <2> QED
    BY <2>1, <2>2 DEF ExistsBijection, Bijection
<1>9. Cardinality(U) = Cardinality(T)
  BY <1>3, <1>8, FS_Bijection
<1> HIDE DEF Q
<1>10. Cardinality(Q) = Cardinality(U) + IF 1 \in Q THEN 1 ELSE 0
  <2>1. Cardinality(U) = IF 1 \in Q THEN Cardinality(Q) - 1 ELSE Cardinality(Q)
    BY <1>2, FS_RemoveElement DEF U
  <2> QED
    BY <2>1, <1>2
<1> QED
  BY <1>6, <1>9, <1>10 DEF Q, T, t, Count
-----------------------------------------------------------------------------
\* The sequence of everything, and what an action makes of it.
LEMMA Constants ==
    /\ Owner \in Sender /\ IsFiniteSet(Sender) /\ None \notin Sender /\ None \notin Nat
    /\ Size \in Nat \ {0} /\ Space \in Nat \ {0} /\ MaxSending \in Nat \ {0}
    /\ MaxSend \in [Sender -> Nat] /\ MaxId \in Nat
BY SendAssumption

LEMMA Empty == /\ <<>> \in Seq(Part) /\ Len(<<>>) = 0 /\ DOMAIN <<>> = {}
               /\ \A q \in Seq(Part) : q # <<>> => Len(q) > 0
               /\ \A q \in Seq(Part) : q \o <<>> = q /\ <<>> \o q = q
<1>1. \A q \in Seq(Part) : q \o <<>> = q /\ <<>> \o q = q
  BY ConcatEmptySeq
<1> QED
  BY <1>1, EmptySeq

LEMMA Assoc == \A q, r, t \in Seq(Part) : /\ (q \o r) \o t = q \o (r \o t)
                                          /\ q \o r \in Seq(Part) /\ r \o t \in Seq(Part)
<1> TAKE q, r, t \in Seq(Part)
<1>1. (q \o r) \o t = q \o (r \o t)
  BY ConcatAssociative
<1> QED
  BY <1>1, Cat

LEMMA AllFacts ==
    ASSUME ListTypes
    PROVE  /\ All \in Seq(Part) /\ high \o low \in Seq(Part) /\ dw \o (high \o low) \in Seq(Part)
           /\ \A x : In(All, x) <=> In(stream, x) \/ In(dw, x) \/ In(high, x) \/ In(low, x)
           /\ \A x : In(All, x) => x \in Part /\ x.p \in Packet /\ x.i \in 1..Size
<1>1. high \o low \in Seq(Part) /\ \A x : In(high \o low, x) <=> In(high, x) \/ In(low, x)
  BY Cat, CatIn DEF ListTypes
<1> DEFINE r == high \o low
<1> HIDE DEF r
<1>2. dw \o r \in Seq(Part) /\ \A x : In(dw \o r, x) <=> In(dw, x) \/ In(r, x)
  BY <1>1, Cat, CatIn DEF ListTypes, r
<1> DEFINE t == dw \o r
<1> HIDE DEF t
<1>3. stream \o t \in Seq(Part) /\ \A x : In(stream \o t, x) <=> In(stream, x) \/ In(t, x)
  BY <1>2, Cat, CatIn DEF ListTypes, t
<1>4. All = stream \o t
  BY DEF All, t, r
<1>5. \A x : In(All, x) => x \in Part
  BY <1>3, <1>4, InType
<1> QED
  BY <1>1, <1>2, <1>3, <1>4, <1>5, PartFields DEF t, r

LEMMA NextAllFacts ==
    ASSUME ListTypes'
    PROVE  /\ All' \in Seq(Part) /\ (high \o low)' \in Seq(Part) /\ (dw \o (high \o low))' \in Seq(Part)
           /\ \A x : In(All', x) <=> In(stream', x) \/ In(dw', x) \/ In(high', x) \/ In(low', x)
           /\ \A x : In(All', x) => x \in Part /\ x.p \in Packet /\ x.i \in 1..Size
<1>1. high' \o low' \in Seq(Part) /\ \A x : In(high' \o low', x) <=> In(high', x) \/ In(low', x)
  BY Cat, CatIn DEF ListTypes
<1> DEFINE r == high' \o low'
<1> HIDE DEF r
<1>2. dw' \o r \in Seq(Part) /\ \A x : In(dw' \o r, x) <=> In(dw', x) \/ In(r, x)
  BY <1>1, Cat, CatIn DEF ListTypes, r
<1> DEFINE t == dw' \o r
<1> HIDE DEF t
<1>3. stream' \o t \in Seq(Part) /\ \A x : In(stream' \o t, x) <=> In(stream', x) \/ In(t, x)
  BY <1>2, Cat, CatIn DEF ListTypes, t
<1>4. All' = stream' \o t
  BY DEF All, t, r
<1>5. \A x : In(All', x) => x \in Part
  BY <1>3, <1>4, InType
<1> QED
  BY <1>1, <1>2, <1>3, <1>4, <1>5, PartFields DEF t, r

\* send_buffer either fails, and closes the socket, or leaves what is written and to be
\* written as it was, and complete packets in the low list.
Aborted ==
    /\ stream' = stream /\ type' = "invalid" /\ high' = <<>> /\ low' = <<>> /\ dw' = <<>>
    /\ write_event' = FALSE /\ how' = "abort" /\ UNCHANGED <<wb_size, room>>
Written ==
    /\ All' = All /\ dw' = <<>> /\ ~Uncomplete(low') /\ \A x : In(low', x) => In(low, x)
    /\ ListTypes' /\ wb_size' \in Nat /\ write_event' \in BOOLEAN
    /\ \/ /\ type = "halfclose" /\ type' = "invalid" /\ how' = "close"
          /\ high' = <<>> /\ low' = <<>> /\ write_event' = FALSE
       \/ /\ UNCHANGED <<type, how>> /\ wb_size' = Len(high') + Len(low')

LEMMA Wrote ==
    ASSUME ListTypes, SlotTypes, wb_size = Len(high) + Len(low), ~Uncomplete(low), Whole(All),
           send_buffer
    PROVE  Aborted \/ Written
<1> DEFINE n == Min({room, Len(Queue)})
           h == Rest(n, Queue)
           m == IF h = <<>> THEN Min({room - n, Len(low)}) ELSE 0
           l == Rest(m, low)
           r == Raise(h, l)
           f == First(n, Queue)
           g == First(m, low)
<1>1. /\ high \in Seq(Part) /\ low \in Seq(Part) /\ dw \in Seq(Part) /\ stream \in Seq(Part)
      /\ room \in Nat /\ wb_size \in Nat /\ write_event \in BOOLEAN
  BY DEF ListTypes, SlotTypes
<1>2. CASE /\ peer = "closed" /\ Queue \o low # <<>>
           /\ Closed("abort")
           /\ UNCHANGED <<wb_size, room, stream>>
  BY <1>2 DEF Aborted, Closed
<1>3. CASE /\ stream' = stream \o f \o g
           /\ room' = room - n - m
           /\ wb_size' = wb_size + Len(dw) - n - m
           /\ IF h = <<>> /\ l = <<>> /\ type = "halfclose"
              THEN Closed("close")
              ELSE /\ high' = h \o First(r, l)
                   /\ low' = Rest(r, l)
                   /\ dw' = <<>>
                   /\ write_event' = (write_event /\ (h # <<>> \/ l # <<>>))
                   /\ UNCHANGED <<type, how>>
  <2>1. /\ Queue \in Seq(Part) /\ Len(Queue) = Len(dw) + Len(high)
        /\ Len(dw) \in Nat /\ Len(high) \in Nat /\ Len(low) \in Nat /\ Len(Queue) \in Nat
    BY <1>1, Cat DEF Queue
  <2>2. n \in Nat /\ n <= room /\ n <= Len(Queue) /\ n \in 0..Len(Queue)
    BY <1>1, <2>1, MinOf
  <2>3. f \in Seq(Part) /\ h \in Seq(Part) /\ Len(h) = Len(Queue) - n /\ f \o h = Queue
    BY <2>1, <2>2, Split
  <2>4. m \in Nat /\ m <= room - n /\ m <= Len(low) /\ m \in 0..Len(low)
    <3> HIDE DEF n, h
    <3>1. room - n \in Nat
      BY <1>1, <2>2
    <3> QED
      BY <2>1, <3>1, MinOf
  <2>5. g \in Seq(Part) /\ l \in Seq(Part) /\ Len(l) = Len(low) - m /\ g \o l = low
    BY <1>1, <2>4, Split
  <2>6. h = <<>> \/ g = <<>>
    <3>1. SUFFICES ASSUME h # <<>> PROVE Len(g) = 0
      BY <2>5, Empty
    <3>2. m = 0
      BY <3>1
    <3> HIDE DEF m
    <3> QED
      BY <3>2, <1>1, <2>4, Split
  <2> DEFINE X == (stream \o f) \o g
  <2>7. X \in Seq(Part) /\ stream \o f \in Seq(Part)
    BY <1>1, <2>3, <2>5, Cat
  <2> HIDE DEF n, m, h, l, f, g
  <2>8. X \o (h \o l) = All
    <3>1. X \o (h \o l) = (stream \o f) \o (g \o (h \o l))
      <4>1. h \o l \in Seq(Part)
        BY <2>3, <2>5, Cat
      <4> DEFINE u == h \o l
                 v == stream \o f
      <4> HIDE DEF u, v
      <4>3. u \in Seq(Part) /\ v \in Seq(Part) /\ g \in Seq(Part)
        BY <4>1, <2>5, <2>7 DEF u, v
      <4>2. (v \o g) \o u = v \o (g \o u)
        BY <4>3, Assoc, Zenon
      <4> QED
        BY <4>2 DEF u, v, X
    <3>2. g \o (h \o l) = h \o low
      <4>1. CASE h = <<>>
        BY <4>1, <2>5, <1>1, Empty
      <4>2. CASE g = <<>>
        <5>1. l = low
          BY <4>2, <2>5, Empty
        <5> QED
          BY <5>1, <4>2, <2>3, <1>1, Empty, Cat
      <4> QED
        BY <4>1, <4>2, <2>6
    <3>3. (stream \o f) \o (h \o low) = stream \o (f \o (h \o low))
      <4>1. h \o low \in Seq(Part)
        BY <1>1, <2>3, Cat
      <4> DEFINE u == h \o low
      <4> HIDE DEF u
      <4>3. u \in Seq(Part) /\ stream \in Seq(Part) /\ f \in Seq(Part)
        BY <4>1, <1>1, <2>3 DEF u
      <4>2. (stream \o f) \o u = stream \o (f \o u)
        BY <4>3, Assoc, Zenon
      <4> QED
        BY <4>2 DEF u
    <3>4. f \o (h \o low) = (f \o h) \o low
      <4>1. f \in Seq(Part) /\ h \in Seq(Part) /\ low \in Seq(Part)
        BY <1>1, <2>3
      <4>2. (f \o h) \o low = f \o (h \o low)
        BY <4>1, Assoc, Zenon
      <4> QED
        BY <4>2, Zenon
    <3>5. Queue \o low = dw \o (high \o low)
      BY <1>1, ConcatAssociative DEF Queue
    <3> QED
      BY <3>1, <3>2, <3>3, <3>4, <3>5, <2>3 DEF All
  <2>9. room' \in Nat /\ stream' = X
    BY <1>3, <1>1, <2>2, <2>4
  <2>10. wb_size' = Len(h) + Len(l) /\ wb_size' \in Nat
    <3>1. Len(h) \in Nat /\ Len(l) \in Nat
      BY <2>3, <2>5, LenProperties
    <3>2. wb_size' = wb_size + Len(dw) - n - m
      BY <1>3
    <3> QED
      BY <3>1, <3>2, <2>1, <2>2, <2>3, <2>4, <2>5
  <2> HIDE DEF X
  <2>11. CASE h = <<>> /\ l = <<>> /\ type = "halfclose"
    <3>1. Closed("close")
      BY <1>3, <2>11
    <3>2. high' = <<>> /\ low' = <<>> /\ dw' = <<>> /\ write_event' = FALSE /\ type' = "invalid"
          /\ how' = "close"
      BY <3>1 DEF Closed
    <3>3. All' = X
      BY <3>2, <2>7, <2>9, Empty DEF All
    <3>4. X = All
      BY <2>8, <2>7, <2>11, Empty
    <3>5. ListTypes'
      BY <3>2, <2>7, <2>9, Empty DEF ListTypes
    <3>6. ~Uncomplete(low') /\ \A x : In(low', x) => In(low, x)
      BY <3>2, InNone DEF Uncomplete
    <3> QED
      BY <3>2, <3>3, <3>4, <3>5, <3>6, <2>10, <2>11 DEF Written
  <2>12. CASE ~(h = <<>> /\ l = <<>> /\ type = "halfclose")
    <3>1. /\ high' = h \o First(r, l)
          /\ low' = Rest(r, l)
          /\ dw' = <<>>
          /\ write_event' = (write_event /\ (h # <<>> \/ l # <<>>))
          /\ UNCHANGED <<type, how>>
      BY <1>3, <2>12
    <3>2. r \in 0..Len(l) /\ ~Uncomplete(Rest(r, l))
      <4>1. CASE h = <<>> /\ Uncomplete(l)
        <5>1. X \o l = All
          BY <2>8, <4>1, <2>5, Empty
        <5>2. l # <<>> /\ r = Size + 1 - l[1].i
          BY <4>1 DEF Raise, Uncomplete
        <5> HIDE DEF r
        <5> QED
          BY <5>1, <5>2, <2>5, <2>7, Raised
      <4>2. CASE ~(h = <<>> /\ Uncomplete(l))
        <5>1. r = 0
          BY <4>2 DEF Raise
        <5> HIDE DEF r
        <5>2. 0 \in 0..Len(l)
          BY <2>5, LenProperties
        <5>3. First(0, l) \o Rest(0, l) = l /\ First(0, l) \in Seq(Part) /\ Rest(0, l) \in Seq(Part)
              /\ Len(First(0, l)) = 0
          BY <2>5, <5>2, Split
        <5>4. First(0, l) = <<>>
          BY <5>3, Empty
        <5>5. Rest(0, l) = l
          BY <5>3, <5>4, Empty
        <5>6. ~Uncomplete(l)
          <6>1. CASE h = <<>>
            BY <6>1, <4>2
          <6>2. CASE h # <<>>
            <7>1. l = low
              BY <6>2, <2>6, <2>5, Empty
            <7> QED
              BY <7>1
          <6> QED
            BY <6>1, <6>2
        <5> QED
          BY <5>1, <5>2, <5>5, <5>6
      <4> QED
        BY <4>1, <4>2
    <3> HIDE DEF r
    <3>3. /\ First(r, l) \in Seq(Part) /\ Rest(r, l) \in Seq(Part)
          /\ First(r, l) \o Rest(r, l) = l
      BY <3>2, <2>5, Split
    <3>4. /\ high' \in Seq(Part) /\ low' \in Seq(Part) /\ high' \o low' = h \o l
      <4> DEFINE u == First(r, l)
                 v == Rest(r, l)
      <4>1. u \in Seq(Part) /\ v \in Seq(Part) /\ u \o v = l /\ high' = h \o u /\ low' = v
        BY <3>1, <3>3
      <4> HIDE DEF u, v
      <4>2. (h \o u) \o v = h \o (u \o v) /\ h \o u \in Seq(Part)
        <5>1. h \in Seq(Part)
          BY <2>3
        <5> QED
          BY <4>1, <5>1, Assoc, Zenon
      <4> QED
        BY <4>1, <4>2
    <3>5. h \o l \in Seq(Part)
      BY <2>3, <2>5, Cat
    <3>6. All' = All
      <4>1. dw' \o (high' \o low') = h \o l
        BY <3>1, <3>4, <3>5, Empty
      <4> QED
        BY <4>1, <2>8, <2>9 DEF All
    <3>7. ListTypes'
      BY <3>1, <3>4, <2>7, <2>9, Empty DEF ListTypes
    <3>8. Len(high') + Len(low') = wb_size'
      <4>1. Len(high') + Len(low') = Len(h \o l)
        BY <3>4, Cat
      <4>2. Len(h \o l) = Len(h) + Len(l)
        BY <2>3, <2>5, Cat
      <4> QED
        BY <4>1, <4>2, <2>10
    <3>9. \A x : In(low', x) => In(low, x)
      <4>1. \A x : In(l, x) => In(low, x)
        BY <2>5, CatIn
      <4>2. \A x : In(low', x) => In(l, x)
        <5> DEFINE u == First(r, l)
                   v == Rest(r, l)
        <5>1. u \in Seq(Part) /\ v \in Seq(Part) /\ u \o v = l /\ low' = v
          BY <3>1, <3>3
        <5> HIDE DEF u, v
        <5>2. \A x : In(u \o v, x) <=> In(u, x) \/ In(v, x)
          BY <5>1, CatIn
        <5> QED
          BY <5>1, <5>2
      <4> QED
        BY <4>1, <4>2
    <3> QED
      BY <3>1, <3>2, <3>6, <3>7, <3>8, <3>9, <2>10, <1>1 DEF Written
  <2> QED
    BY <2>11, <2>12
<1> QED
  BY <1>2, <1>3 DEF send_buffer
-----------------------------------------------------------------------------
\* What send_buffer does in the two places it is called from.
Flush == (Aborted \/ Written) /\ type # "invalid" /\ lock = None /\ ~cut /\ at = "poll"
Kept == UNCHANGED <<type, high, low, dw, wb_size, write_event, room, stream, how>>

LEMMA MayWrite ==
    ASSUME Inv, at = "poll", type # "invalid", lock = None, send_buffer
    PROVE  Flush
<1>1. ListTypes /\ SlotTypes /\ wb_size = Len(high) + Len(low) /\ ~cut
  BY DEF Inv, TypeOK, SizeExact, Slot
<1>2. ~Uncomplete(low) /\ Whole(All)
  BY <1>1 DEF Inv, Packets
<1> QED
  BY <1>1, <1>2, Wrote DEF Flush

LEMMA EventCases == ASSUME Inv, WriteEvent PROVE Flush
<1>1. at = "poll" /\ write_event /\ lock = None /\ send_buffer
  BY DEF WriteEvent
<1>2. type # "invalid"
  BY <1>1 DEF Inv, Slot
<1> QED
  BY <1>1, <1>2, MayWrite

LEMMA CloseCases ==
    ASSUME Inv, CtrlClose
    PROVE  /\ (Flush /\ id = Head(pipe).id) \/ Kept
           /\ at = "poll" /\ pipe # <<>> /\ Head(pipe).cmd = "K"
           /\ \/ at' = "close" /\ pipe' = pipe /\ type' # "invalid" /\ id = Head(pipe).id
              \/ /\ at' = at /\ pipe' = Tail(pipe)
                 /\ type # "invalid" /\ id = Head(pipe).id => type' = "invalid"
           /\ UNCHANGED <<id, sending, lock, senderVars, peer, since, given, cut>>
<1>1. /\ at = "poll" /\ pipe # <<>> /\ Head(pipe).cmd = "K"
      /\ UNCHANGED <<id, sending, lock, senderVars, peer, since, given, cut>>
  BY DEF CtrlClose
<1> DEFINE open == type # "invalid" /\ id = Head(pipe).id
<1>2. /\ IF open /\ ~nomore_sending_data /\ lock = None
         THEN send_buffer
         ELSE UNCHANGED <<type, high, low, dw, wb_size, write_event, room, stream, how>>
      /\ IF open /\ type' # "invalid"
         THEN at' = "close" /\ UNCHANGED pipe
         ELSE pipe' = Tail(pipe) /\ UNCHANGED at
  BY DEF CtrlClose
<1>3. CASE open /\ ~nomore_sending_data /\ lock = None
  <2>1. send_buffer
    BY <1>2, <1>3
  <2>2. Flush
    BY <2>1, <1>1, <1>3, MayWrite
  <2> QED
    BY <2>2, <1>1, <1>2, <1>3
<1>4. CASE ~(open /\ ~nomore_sending_data /\ lock = None)
  <2>1. Kept
    BY <1>2, <1>4 DEF Kept
  <2>2. type' = type
    BY <2>1 DEF Kept
  <2> QED
    BY <2>1, <2>2, <1>1, <1>2, <1>4
<1> QED
  BY <1>3, <1>4
-----------------------------------------------------------------------------
\* Requests.
LEMMA RequestFields ==
    ASSUME NEW r \in Request
    PROVE  /\ r.cmd \in {"send", "K"}
           /\ r.cmd = "send" => r.p \in Packet
           /\ r.cmd = "K" => r.id \in Nat /\ r.shutdown \in BOOLEAN
BY DEF Request

LEMMA HeadSend ==
    ASSUME Inv, CtrlSend \/ DecSending
    PROVE  pipe # <<>> /\ Head(pipe) \in Request /\ IsSend(Head(pipe)) /\ Head(pipe).p \in Packet
<1>1. pipe # <<>> /\ IsSend(Head(pipe))
  BY DEF CtrlSend, DecSending, Inv, Pipe, IsSend
<1>2. Head(pipe) \in Request
  BY <1>1, Pop DEF Inv, TypeOK, PipeTypes
<1> QED
  BY <1>1, <1>2, RequestFields DEF IsSend

\* The requests to send for this use of the slot.
Match == {r \in Request : r.cmd = "send" /\ r.p.id = id}

LEMMA QueuedIs == ASSUME PipeTypes PROVE Cardinality(Queued) = Count(pipe, Match)
<1>1. Queued = {i \in DOMAIN pipe : pipe[i] \in Match}
  BY DEF PipeTypes, Queued, Match
<1> QED
  BY <1>1 DEF Count

LEMMA NextQueuedIs == ASSUME PipeTypes' PROVE Cardinality(Queued') = Count(pipe', Match')
<1>1. Queued' = {i \in DOMAIN pipe' : pipe'[i] \in Match'}
  BY DEF PipeTypes, Queued, Match
<1> QED
  BY <1>1 DEF Count

\* A request that is at the head has been counted.
LEMMA Underway ==
    ASSUME Inv, DecSending, id = Head(pipe).p.id
    PROVE  sending \in Nat \ {0}
<1>1. pipe # <<>> /\ Head(pipe) \in Match /\ pipe \in Seq(Request)
  BY HeadSend DEF IsSend, Match, Inv, TypeOK, PipeTypes
<1>2. Cardinality(Queued) = Count(pipe, Match)
  BY QueuedIs DEF Inv, TypeOK
<1>3. Cardinality(Queued) \in Nat \ {0}
  <2>1. Tail(pipe) \in Seq(Request)
    BY <1>1, Pop
  <2>2. Count(Tail(pipe), Match) \in Nat
    BY <2>1, Numbered
  <2>3. Count(pipe, Match) = Count(Tail(pipe), Match) + 1
    BY <1>1, CountPop
  <2> QED
    BY <2>2, <2>3, <1>2
<1>4. Cardinality(Queueing) \in Nat
  <2>1. Queueing \in SUBSET Sender
    BY DEF Queueing
  <2> QED
    BY <2>1, Constants, FS_Subset, FS_CardinalityType
<1> QED
  BY <1>3, <1>4 DEF Inv, SendingExact

-----------------------------------------------------------------------------
\* Types.
LEMMA ThreadTypesStep ==
    ASSUME Inv, [Next]_vars
    PROVE  ThreadTypes'
<1>1. CASE UNCHANGED <<pc, pkt, count>>
  BY <1>1 DEF Inv, TypeOK, ThreadTypes
<1>2. ASSUME NEW s \in Sender, NEW isLow \in BOOLEAN, Send(s, isLow) PROVE ThreadTypes'
  <2>1. pkt' = [pkt EXCEPT ![s] = [from |-> s, n |-> count[s] + 1, low |-> isLow, id |-> id]]
    BY <1>2 DEF Send
  <2>2. [from |-> s, n |-> count[s] + 1, low |-> isLow, id |-> id] \in Packet
    BY DEF Inv, TypeOK, SlotTypes, ThreadTypes, Packet
  <2>3. pc' \in [Sender -> Place] /\ count' \in [Sender -> Nat]
    BY <1>2 DEF Send, Inv, TypeOK, ThreadTypes, Place
  <2> QED
    BY <2>1, <2>2, <2>3 DEF Inv, TypeOK, ThreadTypes
<1>3. ASSUME NEW s \in Sender, ReadLists(s) PROVE ThreadTypes'
  BY <1>3 DEF ReadLists, Goto, Inv, TypeOK, ThreadTypes, Place
<1>4. ASSUME NEW s \in Sender, ReadState(s) PROVE ThreadTypes'
  BY <1>4 DEF ReadState, Goto, Inv, TypeOK, ThreadTypes, Place
<1>5. ASSUME NEW s \in Sender, TryLock(s) PROVE ThreadTypes'
  BY <1>5 DEF TryLock, Goto, Inv, TypeOK, ThreadTypes, Place
<1>6. ASSUME NEW s \in Sender, DirectWrite(s) PROVE ThreadTypes'
  BY <1>6 DEF DirectWrite, Done, Inv, TypeOK, ThreadTypes, Place
<1>7. ASSUME NEW s \in Sender, IncSending(s) PROVE ThreadTypes'
  BY <1>7 DEF IncSending, Goto, Inv, TypeOK, ThreadTypes, Place
<1>8. ASSUME NEW s \in Sender, SendRequest(s) PROVE ThreadTypes'
  BY <1>8 DEF SendRequest, Done, Inv, TypeOK, ThreadTypes, Place
<1> QED
  BY <1>1, <1>2, <1>3, <1>4, <1>5, <1>6, <1>7, <1>8
     DEF Next, Step, SocketThread, vars, slotVars, senderVars, kernel, history, Close,
         WriteEvent, ReadEnd, ForceClose, CtrlSend, DecSending, CtrlClose, CtrlClosed,
         Reopen, PeerReads, PeerCloses, FreeLists, AppendBuffer

LEMMA SlotTypesStep ==
    ASSUME Inv, [Next]_vars
    PROVE  SlotTypes'
<1>1. CASE UNCHANGED <<id, type, wb_size, sending, lock, write_event>>
  BY <1>1 DEF Inv, TypeOK, SlotTypes
<1>2. ASSUME NEW s \in Sender, ReadLists(s) PROVE SlotTypes'
  BY <1>2 DEF ReadLists, Inv, TypeOK, SlotTypes
<1>3. ASSUME NEW s \in Sender, ReadState(s) PROVE SlotTypes'
  BY <1>3 DEF ReadState, Inv, TypeOK, SlotTypes
<1>4. ASSUME NEW s \in Sender, TryLock(s) PROVE SlotTypes'
  BY <1>4 DEF TryLock, Inv, TypeOK, SlotTypes
<1>5. ASSUME NEW s \in Sender, DirectWrite(s) PROVE SlotTypes'
  BY <1>5 DEF DirectWrite, Inv, TypeOK, SlotTypes
<1>6. ASSUME NEW s \in Sender, IncSending(s) PROVE SlotTypes'
  BY <1>6 DEF IncSending, Inv, TypeOK, SlotTypes
<1>7. CASE WriteEvent
  <2>1. Flush
    BY <1>7, EventCases
  <2> QED
    BY <1>7, <2>1 DEF WriteEvent, Flush, Aborted, Written, Inv, TypeOK, SlotTypes
<1>8. CASE ReadEnd
  BY <1>8 DEF ReadEnd, FreeLists, Inv, TypeOK, SlotTypes
<1>9. CASE ForceClose
  BY <1>9 DEF ForceClose, Inv, TypeOK, SlotTypes
<1>10. CASE CtrlSend
  <2>1. Size \in Nat
    BY Constants
  <2>2. ASSUME NEW p, AppendBuffer(p) PROVE wb_size' \in Nat /\ write_event' \in BOOLEAN
    BY <2>1, <2>2 DEF AppendBuffer, Inv, TypeOK, SlotTypes
  <2> QED
    BY <1>10, <2>1, <2>2 DEF CtrlSend, Inv, TypeOK, SlotTypes
<1>11. CASE DecSending
  <2>1. CASE id # Head(pipe).p.id
    BY <1>11, <2>1 DEF DecSending, Inv, TypeOK, SlotTypes
  <2>2. CASE id = Head(pipe).p.id
    <3>1. sending \in Nat \ {0}
      BY <1>11, <2>2, Underway
    <3> QED
      BY <1>11, <2>2, <3>1 DEF DecSending, Inv, TypeOK, SlotTypes
  <2> QED
    BY <2>1, <2>2
<1>12. CASE CtrlClose
  <2>1. (Flush \/ Kept) /\ UNCHANGED <<id, sending, lock>>
    BY <1>12, CloseCases
  <2> QED
    BY <2>1 DEF Flush, Kept, Aborted, Written, Inv, TypeOK, SlotTypes
<1>13. CASE CtrlClosed
  BY <1>13 DEF CtrlClosed, FreeLists, Inv, TypeOK, SlotTypes
<1>14. CASE Reopen
  BY <1>14 DEF Reopen, Inv, TypeOK, SlotTypes
<1> QED
  BY <1>1, <1>2, <1>3, <1>4, <1>5, <1>6, <1>7, <1>8, <1>9, <1>10, <1>11, <1>12, <1>13, <1>14
     DEF Next, Step, SocketThread, vars, slotVars, senderVars, kernel, history, Send,
         SendRequest, Close, PeerReads, PeerCloses, Done

LEMMA ListTypesStep ==
    ASSUME Inv, [Next]_vars
    PROVE  ListTypes'
<1>1. CASE UNCHANGED <<high, low, dw, stream, room>>
  BY <1>1 DEF Inv, TypeOK, ListTypes
<1>2. ASSUME NEW s \in Sender, DirectWrite(s) PROVE ListTypes'
  <2>1. PICK n \in {Min({room, Size})} \cup (IF peer = "up" THEN {} ELSE {0}) :
          /\ stream' = stream \o First(n, Parts(pkt[s]))
          /\ room' = room - n
          /\ dw' = Rest(n, Parts(pkt[s]))
    BY <1>2 DEF DirectWrite
  <2>2. pkt[s] \in Packet /\ UNCHANGED <<high, low>>
    BY <1>2 DEF DirectWrite, Inv, Threads, Thread
  <2>3. Parts(pkt[s]) \in Seq(Part) /\ Len(Parts(pkt[s])) = Size /\ Size \in Nat
    BY <2>2, PartsOf
  <2>4. room \in Nat
    BY DEF Inv, TypeOK, ListTypes
  <2>5. n \in 0..Size /\ n <= room
    BY <2>3, <2>4, MinOf
  <2>6. First(n, Parts(pkt[s])) \in Seq(Part) /\ Rest(n, Parts(pkt[s])) \in Seq(Part)
    BY <2>3, <2>5, Split
  <2>7. stream' \in Seq(Part)
    BY <2>1, <2>6, Cat DEF Inv, TypeOK, ListTypes
  <2> QED
    BY <2>1, <2>2, <2>4, <2>5, <2>6, <2>7 DEF Inv, TypeOK, ListTypes
<1>3. CASE WriteEvent
  <2>1. Flush
    BY <1>3, EventCases
  <2> QED
    BY <2>1, Empty DEF Flush, Aborted, Written, Inv, TypeOK, ListTypes
<1>4. CASE ReadEnd
  BY <1>4, Empty DEF ReadEnd, FreeLists, kernel, Inv, TypeOK, ListTypes
<1>5. CASE ForceClose
  BY <1>5, Empty DEF ForceClose, kernel, Inv, TypeOK, ListTypes
<1>6. CASE CtrlSend
  <2>1. UNCHANGED <<dw, kernel>>
    BY <1>6 DEF CtrlSend
  <2>2. CASE UNCHANGED <<high, low>>
    BY <2>1, <2>2 DEF kernel, Inv, TypeOK, ListTypes
  <2>3. CASE AppendBuffer(Head(pipe).p)
    <3>1. Parts(Head(pipe).p) \in Seq(Part)
      BY <1>6, HeadSend, PartsOf
    <3>2. high \o Parts(Head(pipe).p) \in Seq(Part) /\ low \o Parts(Head(pipe).p) \in Seq(Part)
      BY <3>1, Cat DEF Inv, TypeOK, ListTypes
    <3> QED
      BY <2>1, <2>3, <3>2 DEF kernel, AppendBuffer, Inv, TypeOK, ListTypes
  <2> QED
    BY <1>6, <2>2, <2>3 DEF CtrlSend
<1>7. CASE CtrlClose
  <2>1. Flush \/ Kept
    BY <1>7, CloseCases
  <2> QED
    BY <2>1, Empty DEF Flush, Kept, Aborted, Written, Inv, TypeOK, ListTypes
<1>8. CASE CtrlClosed
  BY <1>8, Empty DEF CtrlClosed, FreeLists, kernel, Inv, TypeOK, ListTypes
<1>9. CASE Reopen
  BY <1>9, Empty, Constants DEF Reopen, Inv, TypeOK, ListTypes
<1>10. CASE PeerReads
  BY <1>10 DEF PeerReads, slotVars, Inv, TypeOK, ListTypes
<1> QED
  BY <1>1, <1>2, <1>3, <1>4, <1>5, <1>6, <1>7, <1>8, <1>9, <1>10
     DEF Next, Step, SocketThread, vars, slotVars, senderVars, kernel, history, Send,
         ReadLists, ReadState, TryLock, IncSending, SendRequest, Close, DecSending,
         PeerCloses, Goto, Done

LEMMA PipeTypesStep ==
    ASSUME Inv, [Next]_vars
    PROVE  PipeTypes'
<1>1. CASE UNCHANGED <<pipe, at>>
  BY <1>1 DEF Inv, TypeOK, PipeTypes
<1>2. ASSUME NEW s \in Sender, SendRequest(s) PROVE PipeTypes'
  <2>1. pkt[s] \in Packet
    BY <1>2 DEF SendRequest, Inv, Threads, Thread
  <2>2. [cmd |-> "send", p |-> pkt[s]] \in Request
    BY <2>1 DEF Request
  <2>3. pipe' = Append(pipe, [cmd |-> "send", p |-> pkt[s]]) /\ at' = at
    BY <1>2 DEF SendRequest
  <2> QED
    BY <2>2, <2>3, Push DEF Inv, TypeOK, PipeTypes
<1>3. ASSUME NEW shutdown \in BOOLEAN, Close(shutdown) PROVE PipeTypes'
  <2>1. [cmd |-> "K", id |-> id, shutdown |-> shutdown] \in Request
    BY DEF Request, Inv, TypeOK, SlotTypes
  <2>2. pipe' = Append(pipe, [cmd |-> "K", id |-> id, shutdown |-> shutdown]) /\ at' = at
    BY <1>3 DEF Close
  <2> QED
    BY <2>1, <2>2, Push DEF Inv, TypeOK, PipeTypes
<1>4. CASE ReadEnd
  BY <1>4 DEF ReadEnd, FreeLists, Inv, TypeOK, PipeTypes
<1>5. CASE ForceClose
  BY <1>5 DEF ForceClose, Inv, TypeOK, PipeTypes
<1>6. CASE CtrlSend
  BY <1>6 DEF CtrlSend, Inv, TypeOK, PipeTypes
<1>7. CASE DecSending
  <2>1. pipe # <<>> /\ pipe' = Tail(pipe) /\ at' = "poll"
    BY <1>7 DEF DecSending, Inv, Pipe
  <2> QED
    BY <2>1, Pop DEF Inv, TypeOK, PipeTypes
<1>8. CASE CtrlClose
  <2>1. pipe # <<>> /\ pipe' \in {pipe, Tail(pipe)} /\ at' \in {at, "close"}
    BY <1>8, CloseCases
  <2> QED
    BY <2>1, Pop DEF Inv, TypeOK, PipeTypes
<1>9. CASE CtrlClosed
  <2>1. pipe # <<>> /\ pipe' = Tail(pipe) /\ at' \in {"force", "poll"}
    BY <1>9 DEF CtrlClosed, FreeLists, Inv, Pipe
  <2> QED
    BY <2>1, Pop DEF Inv, TypeOK, PipeTypes
<1> QED
  BY <1>1, <1>2, <1>3, <1>4, <1>5, <1>6, <1>7, <1>8, <1>9
     DEF Next, Step, SocketThread, vars, slotVars, senderVars, kernel, history, Send,
         ReadLists, ReadState, TryLock, DirectWrite, IncSending, WriteEvent, Reopen,
         PeerReads, PeerCloses, Goto, Done

LEMMA HistoryTypesStep ==
    ASSUME Inv, [Next]_vars
    PROVE  HistoryTypes'
<1>1. CASE UNCHANGED <<peer, since, given, how, cut>>
  BY <1>1 DEF Inv, TypeOK, HistoryTypes
<1>2. ASSUME NEW shutdown \in BOOLEAN, Close(shutdown) PROVE HistoryTypes'
  <2>1. count[Owner] \in Nat /\ since \in Nat
    BY Constants DEF Inv, TypeOK, ThreadTypes, HistoryTypes
  <2>2. given' \in Nat
    BY <1>2, <2>1 DEF Close
  <2> QED
    BY <1>2, <2>2 DEF Close, kernel, Inv, TypeOK, HistoryTypes
<1>3. CASE WriteEvent
  <2>1. Flush
    BY <1>3, EventCases
  <2> QED
    BY <1>3, <2>1 DEF WriteEvent, Flush, Aborted, Written, Inv, TypeOK, HistoryTypes
<1>4. CASE ReadEnd
  BY <1>4 DEF ReadEnd, FreeLists, kernel, Inv, TypeOK, HistoryTypes
<1>5. CASE CtrlClose
  <2>1. (Flush \/ Kept) /\ UNCHANGED <<peer, since, given, cut>>
    BY <1>5, CloseCases
  <2> QED
    BY <2>1 DEF Flush, Kept, Aborted, Written, Inv, TypeOK, HistoryTypes
<1>6. CASE CtrlClosed
  BY <1>6 DEF CtrlClosed, FreeLists, kernel, Inv, TypeOK, HistoryTypes
<1>7. CASE Reopen
  BY <1>7, Constants DEF Reopen, Inv, TypeOK, ThreadTypes, HistoryTypes
<1>8. CASE PeerCloses
  BY <1>8 DEF PeerCloses, history, Inv, TypeOK, HistoryTypes
<1> QED
  BY <1>1, <1>2, <1>3, <1>4, <1>5, <1>6, <1>7, <1>8
     DEF Next, Step, SocketThread, vars, slotVars, senderVars, kernel, history, Send,
         ReadLists, ReadState, TryLock, DirectWrite, IncSending, SendRequest, ForceClose,
         CtrlSend, DecSending, PeerReads, Goto, Done, AppendBuffer
-----------------------------------------------------------------------------
\* A request that is appended leaves the head of a list, or is a new one.
LEMMA KeepsHead ==
    ASSUME Inv, CtrlSend
    PROVE  ~Uncomplete(high) => ~Uncomplete(high')
<1> SUFFICES ASSUME ~Uncomplete(high) PROVE ~Uncomplete(high')
  OBVIOUS
<1>1. CASE high' = high
  BY <1>1
<1>2. CASE high' = high \o Parts(Head(pipe).p)
  <2>1. /\ Parts(Head(pipe).p) \in Seq(Part) /\ Parts(Head(pipe).p)[1].i = 1
        /\ Len(Parts(Head(pipe).p)) > 0
    <3>1. Head(pipe).p \in Packet
      BY HeadSend
    <3>2. /\ Parts(Head(pipe).p)[1] = [p |-> Head(pipe).p, i |-> 1]
          /\ Parts(Head(pipe).p) \in Seq(Part) /\ Len(Parts(Head(pipe).p)) > 0
      BY <3>1, PartsOf, Constants
    <3> QED
      BY <3>2
  <2> DEFINE q == Parts(Head(pipe).p)
  <2> HIDE DEF q
  <2>2. high \in Seq(Part) /\ q \in Seq(Part) /\ q[1].i = 1 /\ Len(q) > 0
    BY <2>1 DEF q, Inv, TypeOK, ListTypes
  <2>3. CASE high = <<>>
    BY <2>2, <2>3, <1>2, Empty DEF Uncomplete, q
  <2>4. CASE high # <<>>
    <3>1. (high \o q)[1] = high[1]
      BY <2>2, <2>4, Cat, Empty
    <3> QED
      BY <3>1, <2>4, <1>2 DEF Uncomplete, q
  <2> QED
    BY <2>3, <2>4
<1> QED
  BY <1>1, <1>2 DEF CtrlSend, AppendBuffer

-----------------------------------------------------------------------------
\* Threads, the pipe and the slot.
LEMMA ThreadsStep ==
    ASSUME Inv, [Next]_vars
    PROVE  Threads'
<1>1. CASE UNCHANGED <<pc, pkt, count, id, lock, dw, high, type, since>>
  BY <1>1 DEF Inv, Threads, Thread
<1>2. ASSUME NEW s \in Sender, NEW isLow \in BOOLEAN, Send(s, isLow) PROVE Threads'
  <2>1. [from |-> s, n |-> count[s] + 1, low |-> isLow, id |-> id] \in Packet
    BY DEF Inv, TypeOK, SlotTypes, ThreadTypes, Packet
  <2>2. /\ pc[s] = "idle" /\ lock # s /\ UNCHANGED <<id, type, lock, dw, high, since>>
        /\ count' = [count EXCEPT ![s] = @ + 1]
        /\ pkt' = [pkt EXCEPT ![s] = [from |-> s, n |-> count[s] + 1, low |-> isLow, id |-> id]]
        /\ pc' = [pc EXCEPT ![s] = IF isLow THEN "inc" ELSE "lists"]
    BY <1>2 DEF Send, slotVars, history, Inv, Threads, Thread, Locked
  <2>3. ASSUME NEW t \in Sender PROVE Thread(t)'
    <3>1. CASE t = s
      <4>1. pc'[t] \in {"inc", "lists"} /\ count'[t] = count[t] + 1 /\ lock' # t
            /\ pkt'[t] = [from |-> s, n |-> count[s] + 1, low |-> isLow, id |-> id]
        BY <3>1, <2>2 DEF Inv, TypeOK, ThreadTypes
      <4>2. pkt'[t] \in Packet /\ pkt'[t].from = t /\ pkt'[t].n = count'[t] /\ pkt'[t].id <= id'
        BY <4>1, <2>1, <2>2, <3>1 DEF Inv, TypeOK, SlotTypes
      <4> QED
        BY <4>1, <4>2 DEF Thread, Locked
    <3>2. CASE t # s
      BY <3>2, <2>2 DEF Inv, TypeOK, ThreadTypes, Threads, Thread
    <3> QED
      BY <3>1, <3>2
  <2>4. since' <= count'[Owner]
    BY <2>2, Constants DEF Inv, TypeOK, ThreadTypes, HistoryTypes, Threads
  <2> QED
    BY <2>3, <2>4 DEF Threads
<1>3. ASSUME NEW s \in Sender, ReadLists(s) PROVE Threads'
  <2>1. /\ pc[s] \in {"lists", "lists2"} /\ UNCHANGED <<id, type, dw, high, since, count, pkt>>
        /\ \/ /\ id = pkt[s].id /\ high = <<>> /\ dw = <<>> /\ UNCHANGED lock
              /\ pc' = [pc EXCEPT ![s] = IF pc[s] = "lists" THEN "state" ELSE "state2"]
           \/ /\ pc' = [pc EXCEPT ![s] = "inc"] /\ lock' = IF lock = s THEN None ELSE lock
    BY <1>3 DEF ReadLists, Goto, history
  <2>2. ASSUME NEW t \in Sender PROVE Thread(t)'
    <3>1. CASE t = s
      BY <3>1, <2>1, Constants DEF Uncomplete, Inv, TypeOK, SlotTypes, ThreadTypes, Threads, Thread, Locked
    <3>2. CASE t # s
      BY <3>2, <2>1, Constants DEF Inv, TypeOK, SlotTypes, ThreadTypes, Threads, Thread, Locked
    <3> QED
      BY <3>1, <3>2
  <2> QED
    BY <2>1, <2>2 DEF Inv, Threads
<1>4. ASSUME NEW s \in Sender, ReadState(s) PROVE Threads'
  <2>1. /\ pc[s] \in {"state", "state2"} /\ UNCHANGED <<id, type, dw, high, since, count, pkt>>
        /\ \/ /\ type = "connected" /\ UNCHANGED lock
              /\ pc' = [pc EXCEPT ![s] = IF pc[s] = "state" THEN "try" ELSE "write"]
           \/ /\ pc' = [pc EXCEPT ![s] = "inc"] /\ lock' = IF lock = s THEN None ELSE lock
    BY <1>4 DEF ReadState, Goto, history
  <2>2. ASSUME NEW t \in Sender PROVE Thread(t)'
    <3>1. CASE t = s
      BY <3>1, <2>1, Constants DEF Inv, TypeOK, SlotTypes, ThreadTypes, Threads, Thread, Locked
    <3>2. CASE t # s
      BY <3>2, <2>1, Constants DEF Inv, TypeOK, SlotTypes, ThreadTypes, Threads, Thread, Locked
    <3> QED
      BY <3>1, <3>2
  <2> QED
    BY <2>1, <2>2 DEF Inv, Threads
<1>5. ASSUME NEW s \in Sender, TryLock(s) PROVE Threads'
  BY <1>5, Constants DEF TryLock, Goto, history, Inv, TypeOK, SlotTypes, ThreadTypes, Threads, Thread, Locked
<1>6. ASSUME NEW s \in Sender, DirectWrite(s) PROVE Threads'
  BY <1>6, Constants DEF DirectWrite, Done, history, Inv, TypeOK, SlotTypes, ThreadTypes, Threads, Thread, Locked
<1>7. ASSUME NEW s \in Sender, IncSending(s) PROVE Threads'
  BY <1>7 DEF IncSending, Goto, history, Inv, TypeOK, SlotTypes, ThreadTypes, Threads, Thread, Locked
<1>8. ASSUME NEW s \in Sender, SendRequest(s) PROVE Threads'
  BY <1>8 DEF SendRequest, Done, slotVars, history, Inv, TypeOK, SlotTypes, ThreadTypes, Threads, Thread, Locked
<1>9. CASE WriteEvent
  <2>1. Flush
    BY <1>9, EventCases
  <2>2. \A t \in Sender : pc[t] \notin Locked
    BY <2>1, Constants DEF Flush, Inv, Threads, Thread
  <2> QED
    BY <1>9, <2>2 DEF WriteEvent, senderVars, Inv, TypeOK, SlotTypes, ThreadTypes, Threads, Thread, Locked
<1>10. CASE ReadEnd
  BY <1>10 DEF ReadEnd, FreeLists, senderVars, Uncomplete, Inv, TypeOK, SlotTypes, ThreadTypes, Threads, Thread, Locked
<1>11. CASE ForceClose
  <2>1. \A t \in Sender : pc[t] \notin Locked
    BY <1>11, Constants DEF ForceClose, Inv, Threads, Thread
  <2> QED
    BY <1>11, <2>1 DEF ForceClose, senderVars, history, Inv, TypeOK, SlotTypes, ThreadTypes, Threads, Thread, Locked
<1>12. CASE CtrlSend
  <2>1. ~Uncomplete(high) => ~Uncomplete(high')
    BY <1>12, KeepsHead
  <2> QED
    BY <1>12, <2>1 DEF CtrlSend, senderVars, history, Inv, TypeOK, SlotTypes, ThreadTypes, Threads, Thread, Locked
<1>13. CASE CtrlClose
  <2>1. (Flush \/ Kept) /\ UNCHANGED <<id, lock, pc, pkt, count, since>>
    BY <1>13, CloseCases DEF senderVars
  <2>2. CASE Kept
    BY <2>1, <2>2 DEF Kept, Inv, TypeOK, SlotTypes, ThreadTypes, Threads, Thread, Locked
  <2>3. CASE Flush
    <3>1. \A t \in Sender : pc[t] \notin Locked
      BY <2>3, Constants DEF Flush, Inv, Threads, Thread
    <3> QED
      BY <2>1, <3>1 DEF Inv, TypeOK, SlotTypes, ThreadTypes, Threads, Thread, Locked
  <2> QED
    BY <2>1, <2>2, <2>3
<1>14. CASE CtrlClosed
  BY <1>14 DEF CtrlClosed, FreeLists, senderVars, Uncomplete, Inv, TypeOK, SlotTypes, ThreadTypes, Threads, Thread, Locked
<1>15. CASE Reopen
  <2>1. \A t \in Sender : pc[t] \notin {"state2", "write"}
    BY <1>15 DEF Reopen, Inv, Threads, Thread
  <2>2. id' = id + 1 /\ UNCHANGED <<lock, pc, pkt, count>> /\ since' = count[Owner]
    BY <1>15 DEF Reopen, senderVars
  <2>3. \A t \in Sender : pc[t] # "idle" => pkt[t].id \in Nat
    BY PacketFields DEF Inv, Threads, Thread
  <2> QED
    BY <2>1, <2>2, <2>3, Constants DEF Inv, TypeOK, SlotTypes, ThreadTypes, Threads, Thread, Locked
<1> QED
  BY <1>1, <1>2, <1>3, <1>4, <1>5, <1>6, <1>7, <1>8, <1>9, <1>10, <1>11, <1>12, <1>13, <1>14, <1>15
     DEF Next, Step, SocketThread, vars, slotVars, senderVars, kernel, history, Close,
         DecSending, PeerReads, PeerCloses

LEMMA PipeStep ==
    ASSUME Inv, [Next]_vars
    PROVE  Pipe'
<1>1. CASE UNCHANGED <<pipe, at, id>>
  BY <1>1 DEF Inv, Pipe
<1>2. ASSUME NEW s \in Sender, SendRequest(s) PROVE Pipe'
  <2> DEFINE e == [cmd |-> "send", p |-> pkt[s]]
  <2>1. pkt[s] \in Packet /\ pkt[s].id <= id /\ e \in Request /\ IsSend(e) /\ e.p = pkt[s]
    BY <1>2 DEF SendRequest, Inv, Threads, Thread, Request, IsSend
  <2>2. pipe' = Append(pipe, e) /\ UNCHANGED <<at, id>> /\ pipe \in Seq(Request)
    BY <1>2 DEF SendRequest, slotVars, Inv, TypeOK, PipeTypes
  <2> HIDE DEF e
  <2>3. /\ pipe' # <<>> /\ \A r : In(pipe', r) <=> r = e \/ In(pipe, r)
        /\ pipe # <<>> => Head(pipe') = Head(pipe)
    BY <2>1, <2>2, Push, HeadTailAppend
  <2> QED
    BY <2>1, <2>2, <2>3 DEF Inv, Pipe
<1>3. ASSUME NEW shutdown \in BOOLEAN, Close(shutdown) PROVE Pipe'
  <2> DEFINE e == [cmd |-> "K", id |-> id, shutdown |-> shutdown]
  <2>1. e \in Request /\ ~IsSend(e) /\ e.id = id
    BY DEF Request, IsSend, Inv, TypeOK, SlotTypes
  <2>2. pipe' = Append(pipe, e) /\ UNCHANGED <<at, id>> /\ pipe \in Seq(Request) /\ id \in Nat
    BY <1>3 DEF Close, slotVars, Inv, TypeOK, PipeTypes, SlotTypes
  <2> HIDE DEF e
  <2>3. /\ pipe' # <<>> /\ \A r : In(pipe', r) <=> r = e \/ In(pipe, r)
        /\ pipe # <<>> => Head(pipe') = Head(pipe)
    BY <2>1, <2>2, Push, HeadTailAppend
  <2> QED
    BY <2>1, <2>2, <2>3 DEF Inv, Pipe
<1>4. CASE ReadEnd
  BY <1>4 DEF ReadEnd, FreeLists, Inv, Pipe
<1>5. CASE ForceClose
  BY <1>5 DEF ForceClose, Inv, Pipe
<1>6. CASE CtrlSend
  BY <1>6 DEF CtrlSend, Inv, Pipe, IsSend
<1>7. CASE DecSending
  <2>1. pipe # <<>> /\ pipe' = Tail(pipe) /\ at' = "poll" /\ id' = id /\ pipe \in Seq(Request)
    BY <1>7 DEF DecSending, Inv, Pipe, TypeOK, PipeTypes
  <2>2. \A r : In(pipe', r) => In(pipe, r)
    BY <2>1, Pop
  <2> QED
    BY <2>1, <2>2 DEF Inv, Pipe
<1>8. CASE CtrlClose
  <2>1. /\ pipe # <<>> /\ id' = id /\ pipe \in Seq(Request) /\ at = "poll" /\ Head(pipe).cmd = "K"
        /\ \/ at' = "close" /\ pipe' = pipe /\ id = Head(pipe).id
           \/ at' = at /\ pipe' = Tail(pipe)
    BY <1>8, CloseCases DEF Inv, TypeOK, PipeTypes
  <2>2. \A r : In(pipe', r) => In(pipe, r)
    BY <2>1, Pop
  <2> QED
    BY <2>1, <2>2 DEF Inv, Pipe
<1>9. CASE CtrlClosed
  <2>1. /\ pipe # <<>> /\ pipe' = Tail(pipe) /\ at' \in {"force", "poll"} /\ id' = id
        /\ pipe \in Seq(Request)
    BY <1>9 DEF CtrlClosed, FreeLists, Inv, Pipe, TypeOK, PipeTypes
  <2>2. \A r : In(pipe', r) => In(pipe, r)
    BY <2>1, Pop
  <2> QED
    BY <2>1, <2>2 DEF Inv, Pipe
<1>10. CASE Reopen
  <2>1. id' = id + 1 /\ UNCHANGED <<pipe, at>> /\ at = "poll" /\ id \in Nat /\ pipe \in Seq(Request)
    BY <1>10 DEF Reopen, Inv, TypeOK, SlotTypes, PipeTypes
  <2>2. ASSUME NEW r, In(pipe, r) PROVE IF IsSend(r) THEN r.p.id <= id + 1 ELSE r.id <= id + 1
    <3>1. r \in Request
      BY <2>1, <2>2, InType
    <3>2. IF IsSend(r) THEN r.p.id \in Nat /\ r.p.id <= id ELSE r.id \in Nat /\ r.id <= id
      BY <3>1, <2>2, RequestFields, PacketFields DEF IsSend, Inv, Pipe
    <3> QED
      BY <3>2, <2>1
  <2> QED
    BY <2>1, <2>2 DEF Pipe
<1> QED
  BY <1>1, <1>2, <1>3, <1>4, <1>5, <1>6, <1>7, <1>8, <1>9, <1>10
     DEF Next, Step, SocketThread, vars, slotVars, senderVars, kernel, history, Send,
         ReadLists, ReadState, TryLock, DirectWrite, IncSending, WriteEvent, PeerReads,
         PeerCloses, Goto, Done

LEMMA SlotStep ==
    ASSUME Inv, [Next]_vars
    PROVE  Slot'
<1>1. CASE UNCHANGED <<type, high, low, dw, write_event, at, cut>>
  BY <1>1 DEF Inv, Slot
<1>2. ASSUME NEW s \in Sender, DirectWrite(s) PROVE Slot'
  <2>1. type # "invalid"
    BY <1>2 DEF DirectWrite, Inv, Threads, Thread
  <2> QED
    BY <1>2, <2>1 DEF DirectWrite, history, Inv, Slot
<1>3. CASE WriteEvent
  <2>1. Flush
    BY <1>3, EventCases
  <2> QED
    BY <1>3, <2>1 DEF WriteEvent, Flush, Aborted, Written, Inv, Slot
<1>4. CASE ReadEnd
  BY <1>4 DEF ReadEnd, FreeLists, Inv, Slot
<1>5. CASE ForceClose
  BY <1>5 DEF ForceClose, history, Inv, Slot
<1>6. CASE CtrlSend
  BY <1>6 DEF CtrlSend, history, Inv, Slot
<1>7. CASE DecSending
  BY <1>7 DEF DecSending, history, Inv, Slot
<1>8. CASE CtrlClose
  <2>1. /\ Flush \/ Kept
        /\ at = "poll" /\ at' \in {"poll", "close"} /\ (at' = "close" => type' # "invalid") /\ cut' = cut
    BY <1>8, CloseCases
  <2> QED
    BY <2>1 DEF Flush, Kept, Aborted, Written, Inv, Slot
<1>9. CASE CtrlClosed
  BY <1>9 DEF CtrlClosed, FreeLists, Inv, Slot
<1>10. CASE Reopen
  BY <1>10 DEF Reopen, Inv, Slot
<1> QED
  BY <1>1, <1>2, <1>3, <1>4, <1>5, <1>6, <1>7, <1>8, <1>9, <1>10
     DEF Next, Step, SocketThread, vars, slotVars, senderVars, kernel, history, Send,
         ReadLists, ReadState, TryLock, IncSending, SendRequest, Close, PeerReads,
         PeerCloses, Goto, Done
-----------------------------------------------------------------------------
\* The counts.
LEMMA SizeStep ==
    ASSUME Inv, [Next]_vars
    PROVE  SizeExact'
<1>1. CASE UNCHANGED <<type, at, wb_size, high, low>>
  BY <1>1 DEF Inv, SizeExact
<1>2. CASE WriteEvent
  <2>1. Flush
    BY <1>2, EventCases
  <2> QED
    BY <2>1 DEF Flush, Aborted, Written, SizeExact
<1>3. CASE ReadEnd
  BY <1>3 DEF ReadEnd, FreeLists, SizeExact
<1>4. CASE ForceClose
  BY <1>4 DEF ForceClose, SizeExact
<1>5. CASE CtrlSend
  <2>1. type' = type /\ at = "poll"
    BY <1>5 DEF CtrlSend
  <2>2. CASE UNCHANGED <<high, low, wb_size>>
    BY <2>1, <2>2 DEF Inv, SizeExact
  <2>3. CASE AppendBuffer(Head(pipe).p)
    <3> DEFINE q == Parts(Head(pipe).p)
    <3>1. q \in Seq(Part) /\ Len(q) = Size /\ Size \in Nat
      BY <1>5, HeadSend, PartsOf
    <3> HIDE DEF q
    <3>2. /\ Len(high \o q) = Len(high) + Size /\ Len(low \o q) = Len(low) + Size
          /\ Len(high) \in Nat /\ Len(low) \in Nat
      BY <3>1, Cat DEF Inv, TypeOK, ListTypes
    <3>3. /\ wb_size' = wb_size + Size
          /\ (low' = low \o q /\ high' = high) \/ (high' = high \o q /\ low' = low)
      BY <2>3 DEF AppendBuffer, q
    <3>4. Len(high') + Len(low') = Len(high) + Len(low) + Size
      <4>1. CASE low' = low \o q /\ high' = high
        <5>1. Len(high') = Len(high) /\ Len(low') = Len(low) + Size
          BY <3>2, <4>1
        <5> QED
          BY <5>1, <3>1, <3>2
      <4>2. CASE high' = high \o q /\ low' = low
        <5>1. Len(high') = Len(high) + Size /\ Len(low') = Len(low)
          BY <3>2, <4>2
        <5> QED
          BY <5>1, <3>1, <3>2
      <4> QED
        BY <3>3, <4>1, <4>2
    <3>5. type' # "invalid" => wb_size = Len(high) + Len(low)
      BY <2>1 DEF Inv, SizeExact
    <3> QED
      BY <3>3, <3>4, <3>5 DEF SizeExact
  <2> QED
    BY <1>5, <2>2, <2>3 DEF CtrlSend
<1>6. CASE DecSending
  BY <1>6 DEF DecSending, Inv, SizeExact
<1>7. CASE CtrlClose
  <2>1. (Flush \/ Kept) /\ at = "poll"
    BY <1>7, CloseCases
  <2> QED
    BY <2>1 DEF Flush, Kept, Aborted, Written, Inv, SizeExact
<1>8. CASE CtrlClosed
  BY <1>8 DEF CtrlClosed, FreeLists, Inv, SizeExact, Slot
<1>9. CASE Reopen
  <2>1. high' = <<>> /\ low' = <<>> /\ wb_size' = 0
    BY <1>9 DEF Reopen, Inv, Slot
  <2> QED
    BY <2>1, Empty DEF SizeExact
<1> QED
  BY <1>1, <1>2, <1>3, <1>4, <1>5, <1>6, <1>7, <1>8, <1>9
     DEF Next, Step, SocketThread, vars, slotVars, senderVars, kernel, history, Send,
         ReadLists, ReadState, TryLock, DirectWrite, IncSending, SendRequest, Close,
         PeerReads, PeerCloses, Goto, Done

\* The pipe after a request was put into it, or one was taken out.
LEMMA QueuedPush ==
    ASSUME Inv, NEW e \in Request, pipe' = Append(pipe, e), id' = id
    PROVE  Cardinality(Queued') = Cardinality(Queued) + IF e \in Match THEN 1 ELSE 0
<1>1. pipe \in Seq(Request) /\ Append(pipe, e) \in Seq(Request)
  BY Push DEF Inv, TypeOK, PipeTypes
<1>2. Cardinality(Queued) = Count(pipe, Match)
  BY QueuedIs DEF Inv, TypeOK
<1>3. Queued' = {i \in DOMAIN pipe' : pipe'[i] \in Match}
  BY <1>1 DEF Queued, Match
<1>4. Cardinality(Queued') = Count(Append(pipe, e), Match)
  BY <1>3 DEF Count
<1> QED
  BY <1>1, <1>2, <1>4, CountPush

LEMMA QueuedPop ==
    ASSUME Inv, pipe # <<>>, pipe' = Tail(pipe), id' = id
    PROVE  Cardinality(Queued) = Cardinality(Queued') + IF Head(pipe) \in Match THEN 1 ELSE 0
<1>1. pipe \in Seq(Request) /\ Tail(pipe) \in Seq(Request)
  BY Pop DEF Inv, TypeOK, PipeTypes
<1>2. Cardinality(Queued) = Count(pipe, Match)
  BY QueuedIs DEF Inv, TypeOK
<1>3. Queued' = {i \in DOMAIN pipe' : pipe'[i] \in Match}
  BY <1>1 DEF Queued, Match
<1>4. Cardinality(Queued') = Count(Tail(pipe), Match)
  BY <1>3 DEF Count
<1> QED
  BY <1>1, <1>2, <1>4, CountPop

LEMMA Numbers ==
    ASSUME Inv
    PROVE  /\ Cardinality(Queued) \in Nat /\ Cardinality(Queueing) \in Nat /\ IsFiniteSet(Queueing)
           /\ PipeTypes' => Cardinality(Queued') \in Nat
<1>1. Cardinality(Queued) = Count(pipe, Match) /\ pipe \in Seq(Request)
  BY QueuedIs DEF Inv, TypeOK, PipeTypes
<1>2. Queueing \in SUBSET Sender
  BY DEF Queueing
<1>3. ASSUME PipeTypes' PROVE Cardinality(Queued') \in Nat
  <2>1. pipe' \in Seq(Request) /\ Cardinality(Queued') = Count(pipe', Match')
    BY <1>3, NextQueuedIs DEF PipeTypes
  <2> QED
    BY <2>1, Numbered
<1>4. Cardinality(Queued) \in Nat
  BY <1>1, Numbered
<1>5. IsFiniteSet(Queueing) /\ Cardinality(Queueing) \in Nat
  BY <1>2, Constants, FS_Subset, FS_CardinalityType
<1> QED
  BY <1>3, <1>4, <1>5

LEMMA SendingStep ==
    ASSUME Inv, [Next]_vars
    PROVE  SendingExact'
<1>1. CASE UNCHANGED <<sending, pipe, id, pc, pkt>>
  BY <1>1 DEF Inv, SendingExact, Queued, Queueing
<1>2. ASSUME NEW s \in Sender, NEW isLow \in BOOLEAN, Send(s, isLow) PROVE SendingExact'
  <2>1. Queueing' = Queueing
    BY <1>2 DEF Send, slotVars, Queueing, Inv, TypeOK, ThreadTypes
  <2>2. Queued' = Queued /\ sending' = sending
    BY <1>2 DEF Send, slotVars, Queued
  <2> QED
    BY <2>1, <2>2 DEF Inv, SendingExact
<1>3. ASSUME NEW s \in Sender, ReadLists(s) PROVE SendingExact'
  <2>1. Queueing' = Queueing
    BY <1>3 DEF ReadLists, Goto, slotVars, Queueing, Inv, TypeOK, ThreadTypes
  <2>2. Queued' = Queued /\ sending' = sending
    BY <1>3 DEF ReadLists, slotVars, Queued
  <2> QED
    BY <2>1, <2>2 DEF Inv, SendingExact
<1>4. ASSUME NEW s \in Sender, ReadState(s) PROVE SendingExact'
  <2>1. Queueing' = Queueing
    BY <1>4 DEF ReadState, Goto, slotVars, Queueing, Inv, TypeOK, ThreadTypes
  <2>2. Queued' = Queued /\ sending' = sending
    BY <1>4 DEF ReadState, slotVars, Queued
  <2> QED
    BY <2>1, <2>2 DEF Inv, SendingExact
<1>5. ASSUME NEW s \in Sender, TryLock(s) PROVE SendingExact'
  <2>1. Queueing' = Queueing
    BY <1>5 DEF TryLock, Goto, slotVars, Queueing, Inv, TypeOK, ThreadTypes
  <2>2. Queued' = Queued /\ sending' = sending
    BY <1>5 DEF TryLock, slotVars, Queued
  <2> QED
    BY <2>1, <2>2 DEF Inv, SendingExact
<1>6. ASSUME NEW s \in Sender, DirectWrite(s) PROVE SendingExact'
  <2>1. Queueing' = Queueing
    BY <1>6 DEF DirectWrite, Done, slotVars, Queueing, Inv, TypeOK, ThreadTypes
  <2>2. Queued' = Queued /\ sending' = sending
    BY <1>6 DEF DirectWrite, slotVars, Queued
  <2> QED
    BY <2>1, <2>2 DEF Inv, SendingExact
<1>7. ASSUME NEW s \in Sender, IncSending(s) PROVE SendingExact'
  <2>1. /\ pc[s] = "inc" /\ pc' = [pc EXCEPT ![s] = "request"] /\ UNCHANGED <<pkt, id, pipe>>
        /\ IF id = pkt[s].id THEN sending' = sending + 1 ELSE sending' = sending
    BY <1>7 DEF IncSending, Goto
  <2>2. Queued' = Queued
    BY <2>1 DEF Queued
  <2>3. CASE id = pkt[s].id
    <3>1. Queueing' = Queueing \cup {s} /\ s \notin Queueing
      BY <2>1, <2>3 DEF Queueing, Inv, TypeOK, ThreadTypes
    <3>2. Cardinality(Queueing') = Cardinality(Queueing) + 1
      BY <3>1, Numbers, FS_AddElement
    <3> QED
      BY <2>1, <2>2, <2>3, <3>2, Numbers DEF Inv, SendingExact
  <2>4. CASE id # pkt[s].id
    <3>1. Queueing' = Queueing
      BY <2>1, <2>4 DEF Queueing, Inv, TypeOK, ThreadTypes
    <3> QED
      BY <2>1, <2>2, <2>4, <3>1 DEF Inv, SendingExact
  <2> QED
    BY <2>3, <2>4
<1>8. ASSUME NEW s \in Sender, SendRequest(s) PROVE SendingExact'
  <2> DEFINE e == [cmd |-> "send", p |-> pkt[s]]
  <2>1. /\ pc[s] = "request" /\ pc' = [pc EXCEPT ![s] = "idle"] /\ pkt' = [pkt EXCEPT ![s] = None]
        /\ UNCHANGED <<id, sending>> /\ pipe' = Append(pipe, e)
    BY <1>8 DEF SendRequest, Done, slotVars
  <2>2. e \in Request /\ (e \in Match <=> pkt[s].id = id)
    BY <2>1 DEF Inv, Threads, Thread, Request, Match
  <2>3. Queueing' = Queueing \ {s} /\ (s \in Queueing <=> pkt[s].id = id)
    BY <2>1 DEF Queueing, Inv, TypeOK, ThreadTypes
  <2> HIDE DEF e
  <2>4. Cardinality(Queued') = Cardinality(Queued) + IF e \in Match THEN 1 ELSE 0
    BY <2>1, <2>2, QueuedPush
  <2>5. Cardinality(Queueing') = IF s \in Queueing THEN Cardinality(Queueing) - 1 ELSE Cardinality(Queueing)
    BY <2>3, Numbers, FS_RemoveElement
  <2> QED
    BY <2>1, <2>2, <2>3, <2>4, <2>5, Numbers DEF Inv, SendingExact
<1>9. ASSUME NEW shutdown \in BOOLEAN, Close(shutdown) PROVE SendingExact'
  <2> DEFINE e == [cmd |-> "K", id |-> id, shutdown |-> shutdown]
  <2>1. pipe' = Append(pipe, e) /\ UNCHANGED <<id, sending, pc, pkt>>
    BY <1>9 DEF Close, slotVars, senderVars
  <2>2. e \in Request /\ e \notin Match
    BY DEF Inv, TypeOK, SlotTypes, Request, Match
  <2>3. Queueing' = Queueing
    BY <2>1 DEF Queueing
  <2> HIDE DEF e
  <2>4. Cardinality(Queued') = Cardinality(Queued) + 0
    BY <2>1, <2>2, QueuedPush
  <2> QED
    BY <2>1, <2>3, <2>4, Numbers DEF Inv, SendingExact
<1>10. CASE DecSending
  <2>1. /\ pipe # <<>> /\ pipe' = Tail(pipe) /\ UNCHANGED <<id, pc, pkt>>
        /\ sending' = IF id = Head(pipe).p.id THEN sending - 1 ELSE sending
    BY <1>10, HeadSend DEF DecSending, senderVars
  <2>2. Head(pipe) \in Match <=> id = Head(pipe).p.id
    BY <1>10, HeadSend DEF Match, IsSend
  <2>3. Cardinality(Queued) = Cardinality(Queued') + IF Head(pipe) \in Match THEN 1 ELSE 0
    BY <2>1, QueuedPop
  <2>4. Queueing' = Queueing
    BY <2>1 DEF Queueing
  <2>5. Cardinality(Queued') \in Nat
    BY Numbers, PipeTypesStep
  <2> QED
    BY <2>1, <2>2, <2>3, <2>4, <2>5, Numbers DEF Inv, SendingExact
<1>11. CASE CtrlClose
  <2>1. UNCHANGED <<id, sending, pc, pkt>> /\ (pipe' = pipe \/ pipe' = Tail(pipe)) /\ pipe # <<>> /\ Head(pipe).cmd = "K"
    BY <1>11, CloseCases DEF senderVars
  <2>2. Queueing' = Queueing
    BY <2>1 DEF Queueing
  <2>3. CASE pipe' = pipe
    BY <2>1, <2>2, <2>3 DEF Queued, Inv, SendingExact
  <2>4. CASE pipe' = Tail(pipe)
    <3>1. Cardinality(Queued) = Cardinality(Queued') + 0
      BY <2>1, <2>4, QueuedPop DEF Match
    <3>2. Cardinality(Queued) = Cardinality(Queued')
      BY <3>1, Numbers, PipeTypesStep
    <3> QED
      BY <2>1, <2>2, <3>2 DEF Inv, SendingExact
  <2> QED
    BY <2>1, <2>3, <2>4
<1>12. CASE CtrlClosed
  <2>1. pipe # <<>> /\ pipe' = Tail(pipe) /\ UNCHANGED <<id, sending, pc, pkt>> /\ Head(pipe).cmd = "K"
    BY <1>12 DEF CtrlClosed, senderVars, Inv, Pipe
  <2>2. Cardinality(Queued) = Cardinality(Queued') + 0
    BY <2>1, QueuedPop DEF Match
  <2>3. Queueing' = Queueing
    BY <2>1 DEF Queueing
  <2>4. Cardinality(Queued) = Cardinality(Queued')
    BY <2>2, Numbers, PipeTypesStep
  <2> QED
    BY <2>1, <2>3, <2>4 DEF Inv, SendingExact
<1>13. CASE Reopen
  <2>1. id' = id + 1 /\ sending' = 0 /\ UNCHANGED <<pc, pkt, pipe>> /\ id \in Nat
    BY <1>13 DEF Reopen, senderVars, Inv, TypeOK, SlotTypes
  <2>2. Queueing' = {}
    <3> SUFFICES ASSUME NEW t \in Sender, pc[t] = "request", pkt[t].id = id + 1 PROVE FALSE
      BY <2>1 DEF Queueing
    <3> QED
      BY <2>1 DEF Inv, Threads, Thread
  <2>3. Queued' = {}
    <3> SUFFICES ASSUME NEW i \in DOMAIN pipe, pipe[i].cmd = "send", pipe[i].p.id = id + 1 PROVE FALSE
      BY <2>1 DEF Queued
    <3>1. In(pipe, pipe[i]) /\ IsSend(pipe[i])
      BY DEF In, IsSend
    <3>2. pipe[i].p.id <= id
      BY <3>1 DEF Inv, Pipe
    <3> QED
      BY <3>2, <2>1
  <2> QED
    BY <2>1, <2>2, <2>3, FS_EmptySet DEF SendingExact
<1> QED
  BY <1>1, <1>2, <1>3, <1>4, <1>5, <1>6, <1>7, <1>8, <1>9, <1>10, <1>11, <1>12, <1>13
     DEF Next, Step, SocketThread, vars, slotVars, senderVars, kernel, history,
         WriteEvent, ReadEnd, ForceClose, CtrlSend, PeerReads, PeerCloses, FreeLists,
         AppendBuffer
-----------------------------------------------------------------------------
\* What an action does to the sequence of everything: a packet is put into it, between
\* complete packets, or its end is cut off.
Inserted(p, q, r) ==
    /\ q \in Seq(Part) /\ r \in Seq(Part) /\ p \in Packet
    /\ All = q \o r /\ All' = q \o (Parts(p) \o r) /\ ~Uncomplete(r)

LEMMA UncompleteCat ==
    ASSUME NEW q \in Seq(Part), NEW r \in Seq(Part), ~Uncomplete(q), ~Uncomplete(r)
    PROVE  ~Uncomplete(q \o r)
<1>1. CASE q = <<>>
  <2>1. q \o r = r
    BY <1>1, Empty
  <2> QED
    BY <2>1
<1>2. CASE q # <<>>
  <2>1. (q \o r)[1] = q[1]
    BY <1>2, Cat, Empty
  <2> QED
    BY <2>1, <1>2 DEF Uncomplete
<1> QED
  BY <1>1, <1>2

LEMMA InsertedIn ==
    ASSUME NEW p, NEW q, NEW r, Inserted(p, q, r)
    PROVE  \A x : In(All', x) <=> In(All, x) \/ (x \in Part /\ x.p = p)
<1> DEFINE m == Parts(p)
<1>1. /\ q \in Seq(Part) /\ r \in Seq(Part) /\ m \in Seq(Part)
      /\ \A x : In(m, x) <=> x \in Part /\ x.p = p
  BY PartsOf DEF Inserted
<1>2. All = q \o r /\ All' = q \o (m \o r)
  BY DEF Inserted
<1> HIDE DEF m
<1>3. m \o r \in Seq(Part) /\ \A x : In(m \o r, x) <=> In(m, x) \/ In(r, x)
  BY <1>1, Cat, CatIn
<1>4. \A x : In(q \o (m \o r), x) <=> In(q, x) \/ In(m \o r, x)
  BY <1>1, <1>3, CatIn
<1>5. \A x : In(q \o r, x) <=> In(q, x) \/ In(r, x)
  BY <1>1, CatIn
<1> QED
  BY <1>1, <1>2, <1>3, <1>4, <1>5

LEMMA InsertedWhole ==
    ASSUME NEW p, NEW q, NEW r, Inserted(p, q, r), Whole(All)
    PROVE  Whole(All')
BY WholeInsert DEF Inserted

LEMMA DirectInserts ==
    ASSUME Inv, NEW s \in Sender, DirectWrite(s)
    PROVE  /\ Inserted(pkt[s], stream, high \o low) /\ pkt[s].from = s /\ pkt[s].n = count[s]
           /\ pkt[s].id = id /\ type # "invalid" /\ UNCHANGED <<id, type, high, low, cut>>
<1>1. PICK n \in {Min({room, Size})} \cup (IF peer = "up" THEN {} ELSE {0}) :
        /\ stream' = stream \o First(n, Parts(pkt[s]))
        /\ dw' = Rest(n, Parts(pkt[s]))
  BY DEF DirectWrite
<1>2. /\ pkt[s] \in Packet /\ pkt[s].from = s /\ pkt[s].n = count[s] /\ pkt[s].id = id
      /\ type # "invalid" /\ dw = <<>> /\ ~Uncomplete(high)
      /\ UNCHANGED <<id, type, high, low, cut>>
  BY DEF DirectWrite, history, Inv, Threads, Thread
<1>3. Parts(pkt[s]) \in Seq(Part) /\ Len(Parts(pkt[s])) = Size /\ Size \in Nat
  BY <1>2, PartsOf
<1>4. room \in Nat /\ stream \in Seq(Part) /\ high \in Seq(Part) /\ low \in Seq(Part) /\ ~Uncomplete(low)
  BY DEF Inv, TypeOK, ListTypes, Packets
<1>5. n \in 0..Size
  BY <1>3, <1>4, MinOf
<1> DEFINE m == Parts(pkt[s])
           f == First(n, m)
           t == Rest(n, m)
           r == high \o low
<1>6. f \in Seq(Part) /\ t \in Seq(Part) /\ f \o t = m
  BY <1>3, <1>5, Split
<1>7. r \in Seq(Part) /\ ~Uncomplete(r)
  BY <1>2, <1>4, Cat, UncompleteCat
<1>8. All = stream \o r
  BY <1>2, <1>7, Empty DEF All
<1>9. All' = (stream \o f) \o (t \o r)
  BY <1>1, <1>2 DEF All
<1> HIDE DEF m, f, t, r
<1>10. t \o r \in Seq(Part)
  BY <1>6, <1>7, Cat
<1>11. (stream \o f) \o (t \o r) = stream \o (f \o (t \o r))
  <2>1. stream \in Seq(Part) /\ f \in Seq(Part) /\ (t \o r) \in Seq(Part)
    BY <1>4, <1>6, <1>10
  <2> QED
    BY <2>1, Assoc, Zenon
<1>12. (f \o t) \o r = f \o (t \o r)
  BY <1>6, <1>7, Assoc, Zenon
<1>13. All' = stream \o (m \o r)
  BY <1>6, <1>9, <1>11, <1>12, Zenon
<1> QED
  BY <1>2, <1>4, <1>7, <1>8, <1>13 DEF Inserted, m, r

LEMMA RequestInserts ==
    ASSUME Inv, CtrlSend
    PROVE  /\ UNCHANGED <<id, type, dw, stream, cut>>
           /\ \/ UNCHANGED <<high, low>>
              \/ /\ Head(pipe).p.id = id /\ type = "connected"
                 /\ \E q, r : /\ Inserted(Head(pipe).p, q, r)
                              /\ \A x : In(r, x) => In(low, x) /\ ~Head(pipe).p.low
                              /\ \A x : In(q, x) => In(All, x)
                 /\ ~Uncomplete(low')
                 /\ \A x : In(low', x) => In(low, x) \/ (x.p = Head(pipe).p /\ x.p.low)
                 /\ \A x : In(high', x) \/ In(low', x) => In(high, x) \/ In(low, x) \/ x.p = Head(pipe).p
<1>1. UNCHANGED <<id, type, dw, stream, cut>>
  BY DEF CtrlSend, kernel, history
<1> SUFFICES ASSUME ~UNCHANGED <<high, low>>
             PROVE  /\ Head(pipe).p.id = id /\ type = "connected"
                    /\ \E q, r : /\ Inserted(Head(pipe).p, q, r)
                                 /\ \A x : In(r, x) => In(low, x) /\ ~Head(pipe).p.low
                                 /\ \A x : In(q, x) => In(All, x)
                    /\ ~Uncomplete(low')
                    /\ \A x : In(low', x) => In(low, x) \/ (x.p = Head(pipe).p /\ x.p.low)
                    /\ \A x : In(high', x) \/ In(low', x) => In(high, x) \/ In(low, x) \/ x.p = Head(pipe).p
  BY <1>1
<1>2. PICK p : p = Head(pipe).p
  OBVIOUS
<1>3. p.id = id /\ type = "connected" /\ AppendBuffer(p)
  BY <1>2 DEF CtrlSend
<1>4. p \in Packet
  BY <1>2, HeadSend
<1>5. /\ stream \in Seq(Part) /\ dw \in Seq(Part) /\ high \in Seq(Part) /\ low \in Seq(Part)
      /\ ~Uncomplete(low)
  BY DEF Inv, TypeOK, ListTypes, Packets
<1> DEFINE m == Parts(p)
<1>6. /\ m \in Seq(Part) /\ ~Uncomplete(m) /\ \A x : In(m, x) <=> x \in Part /\ x.p = p
  BY <1>4, PartsOf, WholeParts
<1>7. \/ p.low /\ high \o low # <<>> /\ low' = low \o m /\ high' = high
      \/ (p.low => high \o low = <<>>) /\ high' = high \o m /\ low' = low
  BY <1>3 DEF AppendBuffer
<1>8. All' = stream \o (dw \o (high' \o low'))
  BY <1>1 DEF All
<1> DEFINE u == high \o low
           v == dw \o high
           w == dw \o u
<1>9. /\ u \in Seq(Part) /\ v \in Seq(Part) /\ w \in Seq(Part) /\ stream \o v \in Seq(Part)
      /\ stream \o w \in Seq(Part) /\ high \o m \in Seq(Part) /\ m \o low \in Seq(Part)
      /\ high \o (m \o low) \in Seq(Part)
  <2>1. u \in Seq(Part) /\ v \in Seq(Part) /\ high \o m \in Seq(Part) /\ m \o low \in Seq(Part)
    BY <1>5, <1>6, Cat
  <2> HIDE DEF u, v, m
  <2>2. w \in Seq(Part) /\ stream \o v \in Seq(Part) /\ high \o (m \o low) \in Seq(Part)
    BY <1>5, <2>1, Cat
  <2> HIDE DEF w
  <2>3. stream \o w \in Seq(Part)
    BY <1>5, <2>2, Cat
  <2> QED
    BY <2>1, <2>2, <2>3
<1>10. All = stream \o w
  BY DEF All
<1> HIDE DEF m
<1>11. CASE p.low /\ u # <<>> /\ low' = low \o m /\ high' = high
  <2>1. All' = stream \o (dw \o (high \o (low \o m)))
    BY <1>8, <1>11
  <2>2. (high \o low) \o m = high \o (low \o m)
    <3>1. high \in Seq(Part) /\ low \in Seq(Part) /\ m \in Seq(Part)
      BY <1>5, <1>6
    <3> QED
      BY <3>1, Assoc, Zenon
  <2>3. (dw \o u) \o m = dw \o (u \o m)
    <3> HIDE DEF u
    <3>1. dw \in Seq(Part) /\ u \in Seq(Part) /\ m \in Seq(Part)
      BY <1>5, <1>6, <1>9
    <3> QED
      BY <3>1, Assoc, Zenon
  <2>4. (stream \o w) \o m = stream \o (w \o m)
    <3> HIDE DEF u, w
    <3>1. stream \in Seq(Part) /\ w \in Seq(Part) /\ m \in Seq(Part)
      BY <1>5, <1>6, <1>9
    <3> QED
      BY <3>1, Assoc, Zenon
  <2>5. All' = All \o m
    BY <2>1, <2>2, <2>3, <2>4, <1>10, Zenon
  <2>6. m \o <<>> = m /\ All \o <<>> = All
    BY <1>6, <1>9, <1>10, Empty
  <2>7. Inserted(p, All, <<>>)
    <3> HIDE DEF w
    <3> QED
      BY <2>5, <2>6, <1>4, <1>9, <1>10, Empty DEF Inserted, Uncomplete, m
  <2>8. ~Uncomplete(low')
    BY <1>11, <1>5, <1>6, UncompleteCat
  <2>9. \A x : In(low', x) <=> In(low, x) \/ In(m, x)
    BY <1>11, <1>5, <1>6, CatIn
  <2>10. /\ \A x : In(low', x) => In(low, x) \/ (x.p = p /\ x.p.low)
         /\ \A x : In(high', x) \/ In(low', x) => In(high, x) \/ In(low, x) \/ x.p = p
    BY <2>9, <1>6, <1>11
  <2> HIDE DEF u, v, w
  <2>11. \E q, r : /\ Inserted(p, q, r) /\ \A x : In(r, x) => In(low, x) /\ ~p.low
                   /\ \A x : In(q, x) => In(All, x)
    BY <2>7, InNone
  <2> QED
    BY <1>2, <1>3, <2>8, <2>10, <2>11
<1>12. CASE (p.low => u = <<>>) /\ high' = high \o m /\ low' = low
  <2>1. All' = stream \o (dw \o ((high \o m) \o low))
    BY <1>8, <1>12
  <2>2. (high \o m) \o low = high \o (m \o low)
    <3>1. high \in Seq(Part) /\ m \in Seq(Part) /\ low \in Seq(Part)
      BY <1>5, <1>6
    <3> QED
      BY <3>1, Assoc, Zenon
  <2> DEFINE k == m \o low
  <2>3. k \in Seq(Part)
    BY <1>9
  <2> HIDE DEF k
  <2>4. (dw \o high) \o k = dw \o (high \o k)
    <3>1. dw \in Seq(Part) /\ high \in Seq(Part) /\ k \in Seq(Part)
      BY <1>5, <2>3
    <3> QED
      BY <3>1, Assoc, Zenon
  <2>5. (stream \o v) \o k = stream \o (v \o k)
    <3> HIDE DEF v
    <3>1. stream \in Seq(Part) /\ v \in Seq(Part) /\ k \in Seq(Part)
      BY <1>5, <1>9, <2>3
    <3> QED
      BY <3>1, Assoc, Zenon
  <2>6. All' = (stream \o v) \o k
    BY <2>1, <2>2, <2>4, <2>5, Zenon DEF k
  <2>7. (dw \o high) \o low = dw \o (high \o low)
    <3>1. dw \in Seq(Part) /\ high \in Seq(Part) /\ low \in Seq(Part)
      BY <1>5
    <3> QED
      BY <3>1, Assoc, Zenon
  <2>8. (stream \o v) \o low = stream \o (v \o low)
    <3> HIDE DEF v
    <3>1. stream \in Seq(Part) /\ v \in Seq(Part) /\ low \in Seq(Part)
      BY <1>5, <1>9
    <3> QED
      BY <3>1, Assoc, Zenon
  <2>9. All = (stream \o v) \o low
    BY <2>7, <2>8, <1>10, Zenon
  <2> HIDE DEF u, v, w
  <2>10. Inserted(p, stream \o v, low)
    BY <2>6, <2>9, <1>4, <1>5, <1>9 DEF Inserted, k, m
  <2>11. \A x : In(low, x) => ~p.low
    <3> SUFFICES ASSUME p.low PROVE low = <<>>
      BY InNone
    <3>1. high \o low = <<>>
      BY <1>12 DEF u
    <3>2. Len(low) = 0
      BY <3>1, <1>5, Cat, Empty
    <3> QED
      BY <3>2, <1>5, Empty
  <2>12. \A x : In(stream \o v, x) => In(All, x)
    <3> DEFINE y == stream \o v
    <3> HIDE DEF y
    <3>1. y \in Seq(Part) /\ All = y \o low
      BY <1>9, <2>9 DEF y
    <3> QED
      BY <3>1, <1>5, CatIn DEF y
  <2>13. \A x : In(high', x) <=> In(high, x) \/ In(m, x)
    BY <1>12, <1>5, <1>6, CatIn
  <2>14. \E q, r : /\ Inserted(p, q, r) /\ \A x : In(r, x) => In(low, x) /\ ~p.low
                   /\ \A x : In(q, x) => In(All, x)
    BY <2>10, <2>11, <2>12
  <2> QED
    BY <1>2, <1>3, <1>5, <1>6, <1>12, <2>13, <2>14
<1> QED
  BY <1>7, <1>11, <1>12

LEMMA Freed ==
    ASSUME Inv, NEW reason, FreeLists(reason), UNCHANGED <<id, dw, stream>>
    PROVE  /\ All' = stream \o dw /\ (\A x : In(All', x) => In(All, x)) /\ low' = <<>> /\ high' = <<>>
           /\ ~cut' /\ type # "invalid" => Whole(All')
<1>1. /\ stream \in Seq(Part) /\ dw \in Seq(Part) /\ high \in Seq(Part) /\ low \in Seq(Part)
      /\ ~Uncomplete(low) /\ ListTypes
  BY DEF Inv, TypeOK, ListTypes, Packets
<1>2. high' = <<>> /\ low' = <<>> /\ cut' = (cut \/ Uncomplete(high))
  BY DEF FreeLists
<1>3. All' = stream \o dw
  <2>1. <<>> \o <<>> = <<>> /\ dw \o <<>> = dw
    BY <1>1, Empty
  <2> QED
    BY <2>1, <1>2 DEF All
<1>4. \A x : In(All', x) => In(All, x)
  BY <1>1, <1>3, CatIn, AllFacts
<1>5. ASSUME ~cut', type # "invalid" PROVE Whole(All')
  <2> DEFINE r == high \o low
             q == stream \o dw
  <2>1. r \in Seq(Part) /\ ~Uncomplete(r) /\ q \in Seq(Part)
    BY <1>1, <1>2, <1>5, Cat, UncompleteCat
  <2>2. Whole(All)
    BY <1>2, <1>5 DEF Inv, Packets, TypeOK, HistoryTypes
  <2>3. All = stream \o (dw \o r)
    BY DEF All
  <2> HIDE DEF r
  <2>4. (stream \o dw) \o r = stream \o (dw \o r)
    <3>1. stream \in Seq(Part) /\ dw \in Seq(Part) /\ r \in Seq(Part)
      BY <1>1, <2>1
    <3> QED
      BY <3>1, Assoc, Zenon
  <2>5. Whole(q \o r)
    BY <2>2, <2>3, <2>4, Zenon
  <2> HIDE DEF q
  <2>6. Whole(q)
    BY <2>1, <2>5, WholeCut
  <2> QED
    BY <2>6, <1>3 DEF q
<1> QED
  BY <1>2, <1>3, <1>4, <1>5
-----------------------------------------------------------------------------
\* Packets.
LEMMA PacketsFrom ==
    ASSUME ListTypes', ~Uncomplete(low'), \A x : In(All', x) => x.p.id = id',
           ~cut' /\ type' # "invalid" => Whole(All'),
           ~cut' /\ type' = "invalid" => Whole(All') \/ \A j \in DOMAIN stream' : After(stream', j)
    PROVE  Packets'
<1>1. Whole(All') => \A j \in DOMAIN stream' : After(stream', j)
  <2>1. All' = stream' \o (dw' \o (high' \o low')) /\ stream' \in Seq(Part)
    BY DEF All, ListTypes
  <2>2. (dw \o (high \o low))' \in Seq(Part)
    BY NextAllFacts
  <2> DEFINE r == dw' \o (high' \o low')
  <2>3. r \in Seq(Part)
    BY <2>2
  <2> HIDE DEF r
  <2> QED
    BY <2>1, <2>3, Prefix DEF r
<1> QED
  BY <1>1 DEF Packets

LEMMA FlushPackets == ASSUME Inv, Flush, UNCHANGED <<id, cut>>, ListTypes' PROVE Packets'
<1>1. /\ \A x : In(All, x) => x.p.id = id
      /\ Whole(All) /\ ~cut /\ \A j \in DOMAIN stream : After(stream, j)
      /\ ListTypes
  BY DEF Inv, TypeOK, Flush, Packets
<1>2. CASE Aborted
  <2>1. stream' = stream /\ high' = <<>> /\ low' = <<>> /\ dw' = <<>> /\ type' = "invalid"
    BY <1>2 DEF Aborted
  <2>2. \A x : In(All', x) => In(All, x)
    BY <2>1, <1>1, AllFacts, NextAllFacts, InNone
  <2> QED
    BY <1>1, <2>1, <2>2, PacketsFrom DEF Uncomplete
<1>3. CASE Written
  BY <1>1, <1>3, PacketsFrom DEF Written
<1> QED
  BY <1>2, <1>3 DEF Flush

LEMMA PacketsStep ==
    ASSUME Inv, [Next]_vars
    PROVE  Packets'
<1>0. ListTypes'
  BY ListTypesStep
<1>1. CASE UNCHANGED <<id, type, cut, stream, dw, high, low>>
  BY <1>1 DEF Inv, Packets, All
<1>2. ASSUME NEW s \in Sender, DirectWrite(s) PROVE Packets'
  <2>1. /\ Inserted(pkt[s], stream, high \o low) /\ pkt[s].id = id /\ type # "invalid"
        /\ UNCHANGED <<id, type, low, cut>>
    BY <1>2, DirectInserts
  <2>2. \A x : In(All', x) => x.p.id = id
    BY <2>1, InsertedIn DEF Inv, Packets
  <2>3. ~cut => Whole(All')
    BY <2>1, InsertedWhole DEF Inv, Packets
  <2> QED
    BY <2>1, <2>2, <2>3, <1>0, PacketsFrom DEF Inv, Packets
<1>3. CASE WriteEvent
  <2>1. Flush /\ UNCHANGED <<id, cut>>
    BY <1>3, EventCases DEF WriteEvent
  <2> QED
    BY <2>1, <1>0, FlushPackets
<1>4. CASE ReadEnd
  <2>1. FreeLists("abort") /\ UNCHANGED <<id, type, dw, stream>> /\ type # "invalid"
    BY <1>4 DEF ReadEnd, kernel
  <2>2. (\A x : In(All', x) => In(All, x)) /\ low' = <<>> /\ (~cut' => Whole(All'))
    BY <2>1, Freed
  <2> QED
    BY <2>1, <2>2, <1>0, PacketsFrom DEF Inv, Packets, Uncomplete
<1>5. CASE ForceClose
  <2>1. dw' = <<>> /\ type' = "invalid" /\ UNCHANGED <<id, high, low, stream, cut>>
    BY <1>5 DEF ForceClose, kernel, history
  <2>2. \A x : In(All', x) => In(All, x)
    BY <2>1, <1>0, AllFacts, NextAllFacts, InNone DEF Inv, TypeOK
  <2> QED
    BY <2>1, <2>2, <1>0, PacketsFrom DEF Inv, Packets
<1>6. CASE CtrlSend
  <2>1. UNCHANGED <<id, type, dw, stream, cut>>
    BY <1>6, RequestInserts
  <2>2. CASE UNCHANGED <<high, low>>
    BY <2>1, <2>2 DEF Inv, Packets, All
  <2>3. CASE ~UNCHANGED <<high, low>>
    <3>1. PICK p : p = Head(pipe).p
      OBVIOUS
    <3>2. p.id = id /\ type = "connected" /\ ~Uncomplete(low') /\ \E q, r : Inserted(p, q, r)
      BY <1>6, <2>3, <3>1, RequestInserts
    <3>3. PICK q, r : Inserted(p, q, r)
      BY <3>2
    <3>4. \A x : In(All', x) => x.p.id = id
      BY <3>2, <3>3, InsertedIn DEF Inv, Packets
    <3>5. ~cut => Whole(All')
      BY <3>2, <3>3, InsertedWhole DEF Inv, Packets
    <3> QED
      BY <2>1, <3>2, <3>4, <3>5, <1>0, PacketsFrom
  <2> QED
    BY <2>2, <2>3
<1>7. CASE CtrlClose
  <2>1. (Flush \/ Kept) /\ UNCHANGED <<id, cut>>
    BY <1>7, CloseCases
  <2>2. CASE Flush
    BY <2>1, <2>2, <1>0, FlushPackets
  <2>3. CASE Kept
    BY <2>1, <2>3 DEF Kept, Inv, Packets, All
  <2> QED
    BY <2>1, <2>2, <2>3
<1>8. CASE CtrlClosed
  <2>1. type # "invalid" /\ UNCHANGED <<id, dw, stream>>
    BY <1>8 DEF CtrlClosed, kernel, Inv, Slot
  <2>2. ASSUME NEW reason, FreeLists(reason), type' = type PROVE Packets'
    <3>1. (\A x : In(All', x) => In(All, x)) /\ low' = <<>> /\ (~cut' => Whole(All'))
      BY <2>1, <2>2, Freed
    <3> QED
      BY <2>1, <2>2, <3>1, <1>0, PacketsFrom DEF Inv, Packets, Uncomplete
  <2>3. CASE type' = "halfclose" /\ UNCHANGED <<high, low, cut>>
    BY <2>1, <2>3 DEF Inv, Packets, All
  <2> QED
    BY <1>8, <2>2, <2>3 DEF CtrlClosed
<1>9. CASE Reopen
  <2>1. stream' = <<>> /\ dw' = <<>> /\ high' = <<>> /\ low' = <<>>
    BY <1>9 DEF Reopen, Inv, Slot
  <2>2. All' = <<>>
    <3>1. <<>> \o <<>> = <<>>
      BY Empty
    <3> QED
      BY <2>1, <3>1 DEF All
  <2>3. Whole(<<>>)
    BY Empty DEF Whole
  <2>4. ~Uncomplete(<<>>)
    BY DEF Uncomplete
  <2> QED
    BY <2>1, <2>2, <2>3, <2>4, <1>0, PacketsFrom, InNone
<1> QED
  BY <1>1, <1>2, <1>3, <1>4, <1>5, <1>6, <1>7, <1>8, <1>9
     DEF Next, Step, SocketThread, vars, slotVars, senderVars, kernel, history, Send,
         ReadLists, ReadState, TryLock, IncSending, SendRequest, Close, DecSending,
         PeerReads, PeerCloses, Goto, Done
-----------------------------------------------------------------------------
\* The requests that wait.
LEMMA PendTypes ==
    ASSUME Inv
    PROVE  /\ Pend \in Seq(Request)
           /\ \A r : In(Pend, r) => r \in Request /\ In(pipe, r) /\ (IsSend(r) => r.p \in Packet)
<1>1. pipe \in Seq(Request) /\ (at = "dec" => pipe # <<>>)
  BY DEF Inv, TypeOK, PipeTypes, Pipe
<1>2. Pend \in Seq(Request) /\ \A r : In(Pend, r) => In(pipe, r)
  <2>1. CASE at = "dec"
    BY <1>1, <2>1, Pop DEF Pend
  <2>2. CASE at # "dec"
    BY <1>1, <2>2 DEF Pend
  <2> QED
    BY <2>1, <2>2
<1>3. \A r : In(Pend, r) => r \in Request
  BY <1>2, InType
<1> QED
  BY <1>2, <1>3, RequestFields DEF IsSend

LEMMA PendPush ==
    ASSUME Inv, NEW e \in Request, pipe' = Append(pipe, e), at' = at
    PROVE  Pend' = Append(Pend, e) /\ \A r : In(Pend', r) <=> r = e \/ In(Pend, r)
<1>1. pipe \in Seq(Request) /\ (at = "dec" => pipe # <<>>)
  BY DEF Inv, TypeOK, PipeTypes, Pipe
<1>2. Pend' = Append(Pend, e)
  <2>1. CASE at = "dec"
    <3>1. Tail(Append(pipe, e)) = Append(Tail(pipe), e)
      BY <1>1, <2>1, HeadTailAppend
    <3> QED
      BY <2>1, <3>1 DEF Pend
  <2>2. CASE at # "dec"
    BY <2>2 DEF Pend
  <2> QED
    BY <2>1, <2>2
<1>3. Pend \in Seq(Request)
  BY PendTypes
<1>4. \A r : In(Append(Pend, e), r) <=> r = e \/ In(Pend, r)
  BY <1>3, Push
<1> QED
  BY <1>2, <1>4

\* What is taken out of the pipe.
Popped == /\ Pend # <<>> /\ Pend' = Tail(Pend) /\ Head(Pend) = Head(pipe) /\ Head(Pend) \in Request
          /\ \A r : In(Pend, r) <=> r = Head(Pend) \/ In(Pend', r)

LEMMA Pops ==
    ASSUME Inv, at # "dec", pipe # <<>>, (at' = "dec" /\ pipe' = pipe) \/ (at' # "dec" /\ pipe' = Tail(pipe))
    PROVE  Popped
<1>1. Pend = pipe /\ Pend' = Tail(pipe)
  BY DEF Pend
<1>2. pipe \in Seq(Request)
  BY DEF Inv, TypeOK, PipeTypes
<1>3. /\ \A r : In(pipe, r) <=> r = Head(pipe) \/ In(Tail(pipe), r)
      /\ Head(pipe) \in Request
  BY <1>2, Pop
<1> QED
  BY <1>1, <1>3 DEF Popped

\* The parts a step has left are in order, and the requests: nothing has come up.
LEMMA OrderShrinks ==
    ASSUME Inv, UNCHANGED <<id, pc, pkt, count>>,
           Ordered(All'), \A x : In(All', x) => In(All, x), \A x : In(low', x) => In(low, x),
           \/ \A s \in Sender : pc[s] \notin {"state2", "write"}
           \/ \A x : In(high', x) \/ In(low', x) => In(high, x) \/ In(low, x),
           Pend' = Pend \/ Popped
    PROVE  Order'
<1>1. (\A r : In(Pend', r) => In(Pend, r)) /\ Later(Pend')
  <2>1. CASE Pend' = Pend
    BY <2>1 DEF Inv, Order
  <2>2. CASE Popped
    <3>1. Pend \in Seq(Request) /\ Pend # <<>> /\ Later(Pend) /\ Pend' = Tail(Pend)
      BY <2>2, PendTypes DEF Popped, Inv, Order
    <3>2. Later(Tail(Pend))
      BY <3>1, LaterPop
    <3> QED
      BY <2>2, <3>1, <3>2 DEF Popped
  <2> QED
    BY <2>1, <2>2
<1>2. LowList'
  BY DEF Inv, Order, LowList
<1>3. Handed'
  BY <1>1 DEF Inv, Order, Handed, Past
<1>4. Behind'
  BY <1>1 DEF Inv, Order, Behind
<1>5. NoneAsked'
  BY <1>1 DEF Inv, Order, NoneAsked
<1>6. NoneListed'
  BY DEF Inv, Order, NoneListed
<1> QED
  BY <1>1, <1>2, <1>3, <1>4, <1>5, <1>6 DEF Order

\* A thread goes on.
LEMMA OrderMoves ==
    ASSUME Inv, NEW s \in Sender, NEW l, pc[s] # "idle", l # "idle", pc' = [pc EXCEPT ![s] = l],
           UNCHANGED <<id, pkt, count, stream, dw, high, low, pipe, at>>,
           l \in {"try"} \cup Locked /\ pc[s] \notin {"try"} \cup Locked =>
               \A r : In(pipe, r) /\ IsSend(r) => r.p.id # id,
           l \in {"state2", "write"} /\ pc[s] # "state2" => high = <<>> /\ low = <<>>
    PROVE  Order'
<1>1. All' = All /\ Pend' = Pend
  BY DEF All, Pend
<1>2. \A r : In(Pend, r) => In(pipe, r)
  BY PendTypes
<1>3. \A t \in Sender : pc'[t] = IF t = s THEN l ELSE pc[t]
  BY DEF Inv, TypeOK, ThreadTypes
<1>4. Handed'
  <2>1. \A p \in Packet : Past(p) => Past(p)'
    BY <1>3, PacketFields DEF Past
  <2>2. \A x : In(All, x) => x.p \in Packet
    BY AllFacts DEF Inv, TypeOK
  <2> QED
    BY <1>1, <2>1, <2>2, PendTypes DEF Inv, Order, Handed
<1>5. Behind'
  BY <1>1 DEF Inv, Order, Behind
<1>6. NoneAsked'
  BY <1>1, <1>2, <1>3 DEF Inv, Order, NoneAsked
<1>7. NoneListed'
  BY <1>3, InNone DEF Inv, Order, NoneListed
<1> QED
  BY <1>1, <1>4, <1>5, <1>6, <1>7 DEF Inv, Order, LowList

\* The sequence without its end.
LEMMA OrderedPrefix == ASSUME Inv PROVE Ordered(stream) /\ Ordered(stream \o dw)
<1> DEFINE r == high \o low
           t == dw \o r
<1>1. /\ stream \in Seq(Part) /\ dw \in Seq(Part) /\ r \in Seq(Part) /\ t \in Seq(Part)
  BY AllFacts DEF Inv, TypeOK, ListTypes
<1>2. All = stream \o t /\ Ordered(All)
  BY DEF All, Inv, Order
<1> HIDE DEF r
<1>3. (stream \o dw) \o r = stream \o (dw \o r)
  <2>1. stream \in Seq(Part) /\ dw \in Seq(Part) /\ r \in Seq(Part)
    BY <1>1
  <2> QED
    BY <2>1, Assoc, Zenon
<1>4. Ordered((stream \o dw) \o r)
  BY <1>2, <1>3, Zenon
<1> HIDE DEF t
<1>5. Ordered(stream)
  BY <1>1, <1>2, OrderedCut
<1>6. stream \o dw \in Seq(Part)
  BY <1>1, Cat
<1> DEFINE q == stream \o dw
<1> HIDE DEF q
<1>7. Ordered(q)
  BY <1>1, <1>4, <1>6, OrderedCut DEF q
<1> QED
  BY <1>5, <1>7 DEF q

LEMMA FlushOrder ==
    ASSUME Inv, Flush, ListTypes', UNCHANGED <<id, pc, pkt, count>>, Pend' = Pend \/ Popped
    PROVE  Order'
<1>1. \A s \in Sender : pc[s] \notin {"state2", "write"}
  BY Constants DEF Flush, Inv, Threads, Thread, Locked
<1>2. ListTypes
  BY DEF Inv, TypeOK
<1>3. CASE Aborted
  <2>1. stream' = stream /\ high' = <<>> /\ low' = <<>> /\ dw' = <<>>
    BY <1>3 DEF Aborted
  <2>2. All' = stream
    <3>1. <<>> \o <<>> = <<>> /\ stream \o <<>> = stream
      BY <1>2, Empty DEF ListTypes
    <3> QED
      BY <2>1, <3>1 DEF All
  <2>3. Ordered(All')
    BY <2>2, OrderedPrefix
  <2>4. (\A x : In(All', x) => In(All, x)) /\ \A x : In(low', x) => In(low, x)
    BY <2>1, <2>2, <1>2, AllFacts, InNone
  <2> QED
    BY <1>1, <2>3, <2>4, OrderShrinks
<1>4. CASE Written
  BY <1>1, <1>4, OrderShrinks DEF Written, Inv, Order
<1> QED
  BY <1>3, <1>4 DEF Flush
LEMMA OrderStep ==
    ASSUME Inv, [Next]_vars
    PROVE  Order'
<1>0. ListTypes'
  BY ListTypesStep
<1>1. CASE UNCHANGED <<id, pc, pkt, count, stream, dw, high, low, pipe, at>>
  <2>1. All' = All /\ Pend' = Pend /\ Ordered(All)
    BY <1>1 DEF All, Pend, Inv, Order
  <2> QED
    BY <1>1, <2>1, OrderShrinks
<1>2. ASSUME NEW s \in Sender, NEW isLow \in BOOLEAN, Send(s, isLow) PROVE Order'
  <2>1. /\ pc[s] = "idle" /\ UNCHANGED <<id, stream, dw, high, low, pipe, at>>
        /\ count' = [count EXCEPT ![s] = @ + 1]
        /\ pkt' = [pkt EXCEPT ![s] = [from |-> s, n |-> count[s] + 1, low |-> isLow, id |-> id]]
        /\ pc' = [pc EXCEPT ![s] = IF isLow THEN "inc" ELSE "lists"]
    BY <1>2 DEF Send, slotVars, kernel
  <2>2. All' = All /\ Pend' = Pend
    BY <2>1 DEF All, Pend
  <2>3. \A t \in Sender : /\ t # s => pc'[t] = pc[t] /\ pkt'[t] = pkt[t] /\ count'[t] = count[t]
                          /\ t = s => pc'[t] \in {"inc", "lists"} /\ count'[t] = count[t] + 1
                          /\ count[t] \in Nat
    BY <2>1 DEF Inv, TypeOK, ThreadTypes
  <2>4. \A p \in Packet : Past(p) => Past(p)'
    BY <2>1, <2>3, PacketFields DEF Past
  <2>5. \A x : In(All, x) => x.p \in Packet
    BY AllFacts DEF Inv, TypeOK
  <2>6. Handed'
    BY <2>2, <2>4, <2>5, PendTypes DEF Inv, Order, Handed
  <2>7. NoneAsked' /\ NoneListed'
    BY <2>1, <2>2, <2>3 DEF Inv, Order, NoneAsked, NoneListed, Locked
  <2>8. Behind'
    BY <2>1, <2>2 DEF Inv, Order, Behind
  <2> QED
    BY <2>1, <2>2, <2>6, <2>7, <2>8 DEF Inv, Order, LowList
<1>3. ASSUME NEW s \in Sender, ReadLists(s) PROVE Order'
  <2>1. PICK l : /\ pc' = [pc EXCEPT ![s] = l] /\ l \in {"state", "state2", "inc"}
                 /\ l = "state2" => high = <<>> /\ low = <<>> /\ pc[s] = "lists2"
    BY <1>3 DEF ReadLists, Goto
  <2>2. pc[s] # "idle" /\ UNCHANGED <<id, pkt, count, stream, dw, high, low, pipe, at>>
    BY <1>3 DEF ReadLists, Goto, kernel
  <2> QED
    BY <2>1, <2>2, OrderMoves DEF Locked
<1>4. ASSUME NEW s \in Sender, ReadState(s) PROVE Order'
  <2>1. PICK l : /\ pc' = [pc EXCEPT ![s] = l] /\ l \in {"try", "write", "inc"}
                 /\ l = "try" => sending = 0
                 /\ l = "write" => pc[s] = "state2"
    BY <1>4 DEF ReadState, Goto
  <2>2. pc[s] # "idle" /\ UNCHANGED <<id, pkt, count, stream, dw, high, low, pipe, at>>
    BY <1>4 DEF ReadState, Goto, kernel
  <2>3. ASSUME sending = 0, NEW r, In(pipe, r), IsSend(r) PROVE r.p.id # id
    <3>1. SUFFICES ASSUME r.p.id = id PROVE FALSE
      OBVIOUS
    <3>2. Queued # {}
      BY <2>3, <3>1 DEF In, Queued, IsSend
    <3>3. IsFiniteSet(Queued)
      <4>1. pipe \in Seq(Request)
        BY DEF Inv, TypeOK, PipeTypes
      <4>2. Queued = {i \in DOMAIN pipe : pipe[i] \in Match}
        BY <4>1 DEF Queued, Match
      <4> QED
        BY <4>1, <4>2, Numbered
    <3>4. Cardinality(Queued) # 0
      BY <3>2, <3>3, FS_EmptySet
    <3> QED
      BY <2>3, <3>4, Numbers DEF Inv, SendingExact
  <2> QED
    BY <2>1, <2>2, <2>3, OrderMoves DEF Locked
<1>5. ASSUME NEW s \in Sender, TryLock(s) PROVE Order'
  <2>1. PICK l : pc' = [pc EXCEPT ![s] = l] /\ l \in {"lists2", "inc"}
    BY <1>5 DEF TryLock, Goto
  <2>2. pc[s] = "try" /\ UNCHANGED <<id, pkt, count, stream, dw, high, low, pipe, at>>
    BY <1>5 DEF TryLock, Goto, kernel
  <2> QED
    BY <2>1, <2>2, OrderMoves
<1>6. ASSUME NEW s \in Sender, DirectWrite(s) PROVE Order'
  <2>1. /\ Inserted(pkt[s], stream, high \o low) /\ pkt[s].from = s /\ pkt[s].n = count[s]
        /\ pkt[s].id = id /\ UNCHANGED <<id, high, low>>
    BY <1>6, DirectInserts
  <2>2. /\ pc[s] = "write" /\ UNCHANGED <<count, pipe, at>> /\ pc' = [pc EXCEPT ![s] = "idle"]
        /\ pkt' = [pkt EXCEPT ![s] = None]
    BY <1>6 DEF DirectWrite, Done
  <2>3. PICK p : p = pkt[s]
    OBVIOUS
  <2>4. /\ p \in Packet /\ p.from = s /\ p.n = count[s] /\ p.id = id /\ Inserted(p, stream, high \o low)
        /\ \A x : In(All', x) <=> In(All, x) \/ (x \in Part /\ x.p = p)
    BY <2>1, <2>3, InsertedIn DEF Inserted
  <2>5. /\ \A t \in Sender : /\ t # s => pc'[t] = pc[t] /\ pkt'[t] = pkt[t]
                             /\ t = s => pc'[t] = "idle"
        /\ count[s] \in Nat
    BY <2>2 DEF Inv, TypeOK, ThreadTypes
  <2>6. Pend' = Pend
    BY <2>2 DEF Pend
  <2>7. /\ \A x : In(All, x) => x.p \in Packet
        /\ \A x : In(stream, x) => In(All, x)
        /\ \A x : In(high \o low, x) => In(high, x) \/ In(low, x)
    BY AllFacts, CatIn DEF Inv, TypeOK, ListTypes
  <2>8. Ordered(All')
    <3>1. ASSUME NEW x, In(stream, x), x.p.from = p.from PROVE x.p.n < p.n
      BY <3>1, <2>2, <2>4, <2>7 DEF Inv, Order, Handed, Past
    <3>2. ASSUME NEW x, In(high \o low, x) PROVE x.p.from # p.from
      BY <3>2, <2>2, <2>4, <2>7 DEF Inv, Order, NoneListed
    <3>3. /\ stream \in Seq(Part) /\ high \o low \in Seq(Part) /\ Ordered(stream \o (high \o low))
          /\ All' = stream \o (Parts(p) \o (high \o low))
      BY <2>4 DEF Inserted, Inv, Order
    <3> DEFINE r == high \o low
    <3> HIDE DEF r
    <3>4. Ordered(stream \o (Parts(p) \o r))
      BY <3>1, <3>2, <3>3, <2>4, OrderedInsert DEF r
    <3> QED
      BY <3>3, <3>4 DEF r
  <2>9. Handed'
    <3>1. \A t \in Packet : Past(t) => Past(t)'
      BY <2>2, <2>5, PacketFields DEF Past
    <3>2. Past(p)'
      BY <2>2, <2>4, <2>5 DEF Past
    <3> QED
      BY <3>1, <3>2, <2>4, <2>6, <2>7, PendTypes DEF Inv, Order, Handed
  <2>10. Behind'
    <3>1. ASSUME NEW r, In(Pend, r), IsSend(r), r.p.from = s, r.p.id = id PROVE FALSE
      BY <3>1, <2>1, <2>2 DEF Inv, Order, NoneAsked, Locked
    <3> QED
      BY <3>1, <2>1, <2>4, <2>6 DEF Inv, Order, Behind
  <2>11. NoneAsked' /\ NoneListed'
    BY <2>1, <2>5, <2>6 DEF Inv, Order, NoneAsked, NoneListed, Locked
  <2> QED
    BY <2>1, <2>6, <2>8, <2>9, <2>10, <2>11 DEF Inv, Order, LowList
<1>7. ASSUME NEW s \in Sender, IncSending(s) PROVE Order'
  <2>1. pc' = [pc EXCEPT ![s] = "request"]
    BY <1>7 DEF IncSending, Goto
  <2>2. pc[s] = "inc" /\ UNCHANGED <<id, pkt, count, stream, dw, high, low, pipe, at>>
    BY <1>7 DEF IncSending, Goto, kernel
  <2> QED
    BY <2>1, <2>2, OrderMoves DEF Locked
<1>8. ASSUME NEW s \in Sender, SendRequest(s) PROVE Order'
  <2>1. /\ pc[s] = "request" /\ pc' = [pc EXCEPT ![s] = "idle"] /\ pkt' = [pkt EXCEPT ![s] = None]
        /\ UNCHANGED <<id, count, at, stream, dw, high, low>>
    BY <1>8 DEF SendRequest, Done, slotVars, kernel
  <2>2. PICK e : e = [cmd |-> "send", p |-> pkt[s]]
    OBVIOUS
  <2>3. /\ e \in Request /\ IsSend(e) /\ pipe' = Append(pipe, e)
        /\ e.p \in Packet /\ e.p.from = s /\ e.p.n = count[s]
    BY <1>8, <2>1, <2>2 DEF SendRequest, Inv, Threads, Thread, Request, IsSend
  <2>4. Pend' = Append(Pend, e) /\ \A r : In(Pend', r) <=> r = e \/ In(Pend, r)
    BY <2>1, <2>3, PendPush
  <2>5. All' = All /\ \A x : In(All, x) => x.p \in Packet
    BY <2>1, AllFacts DEF All, Inv, TypeOK
  <2>6. /\ \A t \in Sender : /\ t # s => pc'[t] = pc[t] /\ pkt'[t] = pkt[t]
                             /\ t = s => pc'[t] = "idle"
        /\ count[s] \in Nat
    BY <2>1 DEF Inv, TypeOK, ThreadTypes
  <2>7. Handed'
    <3>1. \A t \in Packet : Past(t) => Past(t)'
      BY <2>1, <2>6, PacketFields DEF Past
    <3>2. Past(e.p)'
      BY <2>1, <2>3, <2>6 DEF Past
    <3> QED
      BY <3>1, <3>2, <2>4, <2>5, PendTypes DEF Inv, Order, Handed
  <2>8. Behind'
    <3>1. ASSUME NEW x, In(All, x), x.p.from = s PROVE x.p.n < e.p.n
      BY <3>1, <2>1, <2>3 DEF Inv, Order, Handed, Past
    <3> QED
      BY <3>1, <2>1, <2>3, <2>4, <2>5 DEF Inv, Order, Behind
  <2>9. Later(Pend')
    <3>1. ASSUME NEW r, In(Pend, r), IsSend(r), r.p.from = e.p.from PROVE r.p.n < e.p.n
      BY <3>1, <2>1, <2>3 DEF Inv, Order, Handed, Past
    <3>2. Pend \in Seq(Request) /\ Later(Pend)
      BY PendTypes DEF Inv, Order
    <3>3. Later(Append(Pend, e))
      BY <3>1, <3>2, <2>3, LaterPush
    <3> QED
      BY <3>3, <2>4
  <2>10. NoneAsked'
    BY <2>1, <2>3, <2>4, <2>6 DEF Inv, Order, NoneAsked, Locked
  <2>11. NoneListed'
    BY <2>1, <2>6 DEF Inv, Order, NoneListed
  <2> QED
    BY <2>1, <2>5, <2>7, <2>8, <2>9, <2>10, <2>11 DEF Inv, Order, LowList
<1>9. ASSUME NEW shutdown \in BOOLEAN, Close(shutdown) PROVE Order'
  <2>1. UNCHANGED <<id, pc, pkt, count, at, stream, dw, high, low>>
    BY <1>9 DEF Close, slotVars, senderVars, kernel
  <2>2. PICK e : e = [cmd |-> "K", id |-> id, shutdown |-> shutdown]
    OBVIOUS
  <2>3. e \in Request /\ ~IsSend(e) /\ pipe' = Append(pipe, e)
    BY <1>9, <2>2 DEF Close, Inv, TypeOK, SlotTypes, Request, IsSend
  <2>4. Pend' = Append(Pend, e) /\ \A r : In(Pend', r) <=> r = e \/ In(Pend, r)
    BY <2>1, <2>3, PendPush
  <2>5. All' = All
    BY <2>1 DEF All
  <2>6. Later(Pend')
    <3>1. Pend \in Seq(Request) /\ Later(Pend)
      BY PendTypes DEF Inv, Order
    <3>2. Later(Append(Pend, e))
      BY <3>1, <2>3, LaterPush
    <3> QED
      BY <3>2, <2>4
  <2>7. Handed'
    BY <2>1, <2>3, <2>4, <2>5 DEF Inv, Order, Handed, Past
  <2>8. Behind'
    BY <2>1, <2>3, <2>4, <2>5 DEF Inv, Order, Behind
  <2>9. NoneAsked'
    BY <2>1, <2>3, <2>4 DEF Inv, Order, NoneAsked
  <2> QED
    BY <2>1, <2>5, <2>6, <2>7, <2>8, <2>9 DEF Inv, Order, LowList, NoneListed
<1>10. CASE WriteEvent
  <2>1. Flush /\ UNCHANGED <<id, pc, pkt, count, pipe, at>>
    BY <1>10, EventCases DEF WriteEvent, senderVars
  <2>2. Pend' = Pend
    BY <2>1 DEF Pend
  <2> QED
    BY <2>1, <2>2, <1>0, FlushOrder
<1>11. CASE ReadEnd
  <2>1. FreeLists("abort") /\ UNCHANGED <<id, dw, stream, pc, pkt, count, pipe>> /\ at = "poll"
    BY <1>11 DEF ReadEnd, kernel, senderVars
  <2>2. /\ All' = stream \o dw /\ \A x : In(All', x) => In(All, x)
        /\ low' = <<>> /\ high' = <<>> /\ at' = "force"
    BY <2>1, Freed DEF FreeLists
  <2>3. Ordered(All')
    BY <2>2, OrderedPrefix
  <2>4. Pend' = Pend
    BY <2>1, <2>2 DEF Pend
  <2> QED
    BY <2>1, <2>2, <2>3, <2>4, InNone, OrderShrinks
<1>12. CASE ForceClose
  <2>1. /\ UNCHANGED <<id, stream, high, low, pc, pkt, count, pipe>> /\ at = "force" /\ at' = "poll"
        /\ dw' = <<>>
    BY <1>12 DEF ForceClose, kernel, senderVars
  <2>2. high' = <<>> /\ low' = <<>>
    BY <2>1 DEF Inv, Slot
  <2>3. All' = stream
    <3>1. <<>> \o <<>> = <<>> /\ stream \o <<>> = stream
      BY Empty DEF Inv, TypeOK, ListTypes
    <3> QED
      BY <2>1, <2>2, <3>1 DEF All
  <2>4. Ordered(All') /\ \A x : In(All', x) => In(All, x)
    BY <2>3, OrderedPrefix, AllFacts DEF Inv, TypeOK
  <2>5. Pend' = Pend
    BY <2>1 DEF Pend
  <2> QED
    BY <2>1, <2>4, <2>5, OrderShrinks
<1>13. CASE CtrlSend
  <2>1. /\ at = "poll" /\ at' = "dec" /\ UNCHANGED <<id, pc, pkt, count, pipe, stream, dw>>
    BY <1>13 DEF CtrlSend, senderVars, kernel
  <2>2. Popped /\ IsSend(Head(Pend)) /\ Head(pipe).p \in Packet
    BY <1>13, <2>1, HeadSend, Pops DEF Popped
  <2>3. CASE UNCHANGED <<high, low>>
    <3>1. All' = All
      BY <2>1, <2>3 DEF All
    <3>2. Ordered(All')
      BY <3>1 DEF Inv, Order
    <3> QED
      BY <2>1, <2>2, <2>3, <3>1, <3>2, OrderShrinks
  <2>4. CASE ~UNCHANGED <<high, low>>
    <3>1. PICK p : p = Head(pipe).p
      OBVIOUS
    <3>2. /\ p.id = id
          /\ \E q, r : /\ Inserted(p, q, r)
                       /\ \A x : In(r, x) => In(low, x) /\ ~p.low
                       /\ \A x : In(q, x) => In(All, x)
          /\ \A x : In(low', x) => In(low, x) \/ (x.p = p /\ x.p.low)
          /\ \A x : In(high', x) \/ In(low', x) => In(high, x) \/ In(low, x) \/ x.p = p
      BY <1>13, <2>4, <3>1, RequestInserts
    <3>3. PICK q, r : /\ Inserted(p, q, r)
                      /\ \A x : In(r, x) => In(low, x) /\ ~p.low
                      /\ \A x : In(q, x) => In(All, x)
      BY <3>2
    <3>4. PICK h : h = Head(Pend)
      OBVIOUS
    <3>5. /\ In(Pend, h) /\ IsSend(h) /\ h.p = p /\ p \in Packet
          /\ \A t : In(Pend', t) => In(Pend, t)
      BY <2>2, <3>1, <3>4 DEF Popped
    <3>6. \A x : In(All', x) <=> In(All, x) \/ (x \in Part /\ x.p = p)
      BY <3>3, InsertedIn
    <3>7. Ordered(All')
      <4>1. ASSUME NEW x, In(q, x), x.p.from = p.from PROVE x.p.n < p.n
        BY <4>1, <3>2, <3>3, <3>5 DEF Inv, Order, Behind
      <4>2. ASSUME NEW x, In(r, x) PROVE x.p.low /\ ~p.low
        BY <4>2, <3>3 DEF Inv, Order, LowList
      <4>3. /\ q \in Seq(Part) /\ r \in Seq(Part) /\ Ordered(q \o r)
            /\ All' = q \o (Parts(p) \o r)
        BY <3>3 DEF Inserted, Inv, Order
      <4>4. Ordered(q \o (Parts(p) \o r))
        BY <4>1, <4>2, <4>3, <3>5, OrderedInsert
      <4> QED
        BY <4>3, <4>4
    <3>8. LowList'
      BY <3>2 DEF Inv, Order, LowList
    <3>9. Handed'
      BY <2>1, <3>5, <3>6 DEF Inv, Order, Handed, Past
    <3>10. /\ Later(Pend')
           /\ \A t : In(Pend', t) /\ IsSend(t) /\ t.p.from = p.from => p.n < t.p.n
      <4>1. Pend \in Seq(Request) /\ Pend # <<>> /\ Later(Pend) /\ Pend' = Tail(Pend)
        BY <2>2, PendTypes DEF Popped, Inv, Order
      <4>2. /\ Later(Tail(Pend))
            /\ IsSend(Head(Pend)) => \A t : In(Tail(Pend), t) /\ IsSend(t) /\ t.p.from = Head(Pend).p.from
                                            => Head(Pend).p.n < t.p.n
        BY <4>1, LaterPop
      <4> QED
        BY <4>1, <4>2, <3>4, <3>5
    <3>11. Behind'
      BY <2>1, <3>5, <3>6, <3>10 DEF Inv, Order, Behind
    <3>12. NoneAsked'
      BY <2>1, <3>5 DEF Inv, Order, NoneAsked
    <3>13. NoneListed'
      <4>1. ASSUME NEW t \in Sender, pc[t] \in {"state2", "write"} PROVE p.from # t
        BY <4>1, <3>2, <3>5 DEF Inv, Threads, Thread, Order, NoneAsked, Locked
      <4> QED
        BY <4>1, <2>1, <3>2 DEF Inv, Order, NoneListed
    <3> QED
      BY <3>7, <3>8, <3>9, <3>10, <3>11, <3>12, <3>13 DEF Order
  <2> QED
    BY <2>3, <2>4
<1>14. CASE DecSending
  <2>1. UNCHANGED <<id, pc, pkt, count, stream, dw, high, low>> /\ Pend' = Pend
    BY <1>14 DEF DecSending, senderVars, kernel, Pend
  <2>2. All' = All
    BY <2>1 DEF All
  <2>3. Ordered(All')
    BY <2>2 DEF Inv, Order
  <2> QED
    BY <2>1, <2>2, <2>3, OrderShrinks
<1>15. CASE CtrlClose
  <2>1. (Flush \/ Kept) /\ UNCHANGED <<id, pc, pkt, count>>
    BY <1>15, CloseCases DEF senderVars
  <2>2. Pend' = Pend \/ Popped
    <3>1. CASE at' = "close" /\ pipe' = pipe
      BY <1>15, <3>1, CloseCases DEF Pend
    <3>2. CASE at' = at /\ pipe' = Tail(pipe)
      BY <1>15, <3>2, CloseCases, Pops
    <3> QED
      BY <1>15, <3>1, <3>2, CloseCases
  <2>3. CASE Flush
    BY <2>1, <2>2, <2>3, <1>0, FlushOrder
  <2>4. CASE Kept
    <3>1. UNCHANGED <<stream, dw, high, low>>
      BY <2>4 DEF Kept
    <3>2. All' = All
      BY <3>1 DEF All
    <3>3. Ordered(All')
      BY <3>2 DEF Inv, Order
    <3> QED
      BY <2>1, <2>2, <3>1, <3>2, <3>3, OrderShrinks
  <2> QED
    BY <2>1, <2>3, <2>4
<1>16. CASE CtrlClosed
  <2>1. /\ UNCHANGED <<id, dw, stream, pc, pkt, count>> /\ at = "close" /\ at' \in {"force", "poll"}
        /\ pipe' = Tail(pipe) /\ pipe # <<>>
    BY <1>16 DEF CtrlClosed, FreeLists, kernel, senderVars, Inv, Pipe
  <2>2. Popped
    BY <2>1, Pops
  <2>3. ASSUME NEW reason, FreeLists(reason) PROVE Order'
    <3>1. /\ All' = stream \o dw /\ \A x : In(All', x) => In(All, x)
          /\ low' = <<>> /\ high' = <<>>
      BY <2>1, <2>3, Freed
    <3>2. Ordered(All')
      BY <3>1, OrderedPrefix
    <3> QED
      BY <2>1, <2>2, <3>1, <3>2, InNone, OrderShrinks
  <2>4. CASE UNCHANGED <<high, low>>
    <3>1. All' = All
      BY <2>1, <2>4 DEF All
    <3>2. Ordered(All')
      BY <3>1 DEF Inv, Order
    <3> QED
      BY <2>1, <2>2, <2>4, <3>1, <3>2, OrderShrinks
  <2> QED
    BY <1>16, <2>3, <2>4 DEF CtrlClosed
<1>17. CASE Reopen
  <2>1. /\ stream' = <<>> /\ dw' = <<>> /\ high' = <<>> /\ low' = <<>> /\ id' = id + 1 /\ id \in Nat
        /\ UNCHANGED <<pc, pkt, count, pipe, at>>
    BY <1>17 DEF Reopen, senderVars, Inv, Slot, TypeOK, SlotTypes
  <2>2. All' = <<>>
    <3>1. <<>> \o <<>> = <<>>
      BY Empty
    <3> QED
      BY <2>1, <3>1 DEF All
  <2>3. Ordered(<<>>)
    BY Empty DEF Ordered
  <2>4. Pend' = Pend
    BY <2>1 DEF Pend
  <2>5. Handed'
    BY <2>1, <2>2, <2>4, InNone DEF Inv, Order, Handed, Past
  <2>6. Behind' /\ LowList' /\ NoneListed'
    BY <2>1, <2>2, InNone DEF Behind, LowList, NoneListed
  <2>7. NoneAsked'
    <3>1. \A t \in Sender : pc[t] # "idle" => pkt[t].id # id + 1
      BY <2>1 DEF Inv, Threads, Thread
    <3> QED
      BY <2>1, <3>1 DEF NoneAsked, Locked
  <2> QED
    BY <2>2, <2>3, <2>4, <2>5, <2>6, <2>7 DEF Inv, Order
<1>18. CASE PeerReads
  BY <1>18, <1>1 DEF PeerReads, slotVars, senderVars
<1>19. CASE PeerCloses
  BY <1>19, <1>1 DEF PeerCloses, slotVars, senderVars
<1> QED
  BY <1>1, <1>2, <1>3, <1>4, <1>5, <1>6, <1>7, <1>8, <1>9, <1>10, <1>11, <1>12, <1>13, <1>14, <1>15, <1>16, <1>17, <1>18, <1>19
     DEF Next, Step, SocketThread, vars, slotVars, senderVars, kernel, history
-----------------------------------------------------------------------------
\* Closing.
LEMMA StoredMore ==
    ASSUME NEW q, NEW r, NEW n, \A x : In(q, x) => In(r, x), Stored(q, n)
    PROVE  Stored(r, n)
BY DEF Stored

LEMMA StoredParts ==
    ASSUME NEW q, NEW p \in Packet, p.from = Owner, \A x \in Part : x.p = p => In(q, x)
    PROVE  Stored(q, p.n)
<1>1. ASSUME NEW i \in 1..Size PROVE \E x : In(q, x) /\ x.p.from = Owner /\ x.p.n = p.n /\ x.i = i
  <2>1. PICK x : x = [p |-> p, i |-> i]
    OBVIOUS
  <2>2. x \in Part /\ x.p = p /\ x.i = i
    BY <2>1 DEF Part
  <2> QED
    BY <2>2
<1> QED
  BY <1>1 DEF Stored

LEMMA GivenIs ==
    ASSUME Inv
    PROVE  /\ since \in Nat /\ count[Owner] \in Nat /\ (given # None => given \in Nat)
           /\ \A n \in Given : n \in Nat /\ n > since /\ n <= count[Owner]
           /\ given # None /\ pc[Owner] # "idle" => \A n \in Given : n < count[Owner]
<1>1. since \in Nat /\ count[Owner] \in Nat /\ (given # None => given \in Nat)
  BY Constants DEF Inv, TypeOK, HistoryTypes, ThreadTypes
<1>2. given # None => given <= count[Owner] /\ (pc[Owner] # "idle" => given < count[Owner])
  BY DEF Inv, Closing, GivenPast
<1> QED
  BY <1>1, <1>2 DEF Given

\* The requests are those there were, or fewer, and the owner's thread is where it was.
LEMMA ClosingShrinks ==
    ASSUME Inv, UNCHANGED <<id, since, given, pc, pkt, count>>, Pend' = Pend \/ Popped,
           type' = "halfclose" => type = "halfclose"
    PROVE  GivenPast' /\ OwnIds' /\ Closes' /\ Given' = Given
<1>1. Given' = Given
  BY DEF Given
<1>2. /\ \A r : In(Pend', r) => In(Pend, r)
      /\ given # None => Last(Pend')
  <2>1. CASE Pend' = Pend
    BY <2>1 DEF Inv, Closing, Closes
  <2>2. CASE Popped
    <3>1. Pend \in Seq(Request) /\ Pend # <<>> /\ Pend' = Tail(Pend) /\ (given # None => Last(Pend))
      BY <2>2, PendTypes DEF Popped, Inv, Closing, Closes
    <3>2. given # None => Last(Tail(Pend))
      BY <3>1, LastPop
    <3> QED
      BY <2>2, <3>1, <3>2 DEF Popped
  <2> QED
    BY <2>1, <2>2
<1>3. GivenPast'
  BY DEF Inv, Closing, GivenPast
<1>4. OwnIds'
  BY <1>2 DEF Inv, Closing, OwnIds
<1>5. Last(Pend') => Last(Pend)'
  BY <1>1 DEF Last, IsClose, Sends
<1>6. \A r : IsClose(r) <=> IsClose(r)'
  BY DEF IsClose
<1>7. Closes'
  BY <1>2, <1>5, <1>6 DEF Inv, Closing, Closes
<1> QED
  BY <1>1, <1>3, <1>4, <1>7

\* Nothing the requests and the owner's thread tell has changed, and parts only came up.
LEMMA ClosingKeeps ==
    ASSUME Inv, UNCHANGED <<id, since, given, how, pc, pkt, count>>, Pend' = Pend,
           type' = "halfclose" => type = "halfclose", HowExact',
           how = "open" => \A x : In(All, x) => In(All', x),
           how = "close" => \A x : In(stream, x) => In(stream', x)
    PROVE  Closing'
<1>1. GivenPast' /\ OwnIds' /\ Closes' /\ Given' = Given
  BY ClosingShrinks
<1>2. AllLocated'
  <2> SUFFICES ASSUME how = "open", NEW n \in Given PROVE Located(n)'
    BY <1>1 DEF AllLocated
  <2>1. Located(n)
    BY DEF Inv, Closing, AllLocated
  <2>2. Stored(All, n) => Stored(All', n)
    BY StoredMore
  <2> QED
    BY <2>1, <2>2 DEF Located, Sends, IsClose, Stored
<1>3. Sent'
  <2> SUFFICES ASSUME how = "close" PROVE given # None /\ \A n \in Given : Stored(stream', n)
    BY <1>1 DEF Sent, Stored
  <2> QED
    BY StoredMore DEF Inv, Closing, Sent
<1> QED
  BY <1>1, <1>2, <1>3 DEF Closing

\* A thread goes on.
LEMMA ClosingMoves ==
    ASSUME Inv, NEW s \in Sender, NEW l, pc[s] # "idle", l # "idle", pc' = [pc EXCEPT ![s] = l],
           UNCHANGED <<id, type, pkt, count, stream, dw, high, low, pipe, at, since, given, how>>
    PROVE  Closing'
<1>1. All' = All /\ Pend' = Pend /\ Given' = Given
  BY DEF All, Pend, Given
<1>2. pc'[Owner] # "idle" <=> pc[Owner] # "idle"
  BY Constants DEF Inv, TypeOK, ThreadTypes
<1>3. GivenPast' /\ OwnIds' /\ HowExact'
  BY <1>1, <1>2 DEF Inv, Closing, GivenPast, OwnIds, HowExact
<1>4. Closes'
  BY <1>1 DEF Inv, Closing, Closes, Last, IsClose, Sends
<1>5. AllLocated'
  BY <1>1, <1>2 DEF Inv, Closing, AllLocated, Located, Sends, IsClose, Stored
<1>6. Sent'
  BY <1>1 DEF Inv, Closing, Sent, Stored
<1> QED
  BY <1>3, <1>4, <1>5, <1>6 DEF Closing

LEMMA FlushCloses ==
    ASSUME Inv, Flush, ListTypes', UNCHANGED <<id, since, given, pc, pkt, count>>,
           \/ Pend' = Pend
           \/ Popped /\ type' = "invalid",
           at' # "force"
    PROVE  Closing'
<1>1. how = "open" /\ type # "invalid"
  BY DEF Flush, Inv, Closing, HowExact
<1>2. CASE Aborted
  <2>1. type' = "invalid" /\ how' = "abort"
    BY <1>2 DEF Aborted
  <2> QED
    BY <2>1, ClosingShrinks DEF Closing, HowExact, AllLocated, Sent
<1>3. CASE Written /\ type' = "invalid" /\ type = "halfclose"
  <2>1. how' = "close" /\ All' = All /\ dw' = <<>> /\ high' = <<>> /\ low' = <<>>
    BY <1>3 DEF Written
  <2>2. GivenPast' /\ OwnIds' /\ Closes' /\ Given' = Given
    BY <1>3, ClosingShrinks
  <2>3. given # None /\ \A r : In(Pend, r) => ~IsClose(r)
    BY <1>3 DEF Inv, Closing, Closes
  <2>4. \A x : In(All, x) => In(stream', x)
    BY <2>1, NextAllFacts, InNone
  <2>5. ASSUME NEW n \in Given PROVE Stored(stream', n)
    <3>1. Located(n)
      BY <1>1 DEF Inv, Closing, AllLocated
    <3>2. Stored(All, n)
      BY <3>1, <2>3 DEF Located
    <3> QED
      BY <3>2, <2>4, StoredMore
  <2>6. Sent'
    BY <2>2, <2>3, <2>5 DEF Sent, Stored
  <2> QED
    BY <1>3, <2>1, <2>2, <2>6 DEF Closing, HowExact, AllLocated
<1>4. CASE Written /\ UNCHANGED <<type, how>>
  <2>1. HowExact'
    BY <1>1, <1>4 DEF HowExact
  <2>2. Pend' = Pend /\ All' = All
    BY <1>1, <1>4 DEF Written
  <2> QED
    BY <1>1, <1>4, <2>1, <2>2, ClosingKeeps
<1> QED
  BY <1>2, <1>3, <1>4 DEF Flush, Written

\* A request for this connection, which is open, is appended.
LEMMA Appends ==
    ASSUME Inv, CtrlSend, type = "connected", id = Head(pipe).p.id
    PROVE  \A x : In(All', x) <=> In(All, x) \/ (x \in Part /\ x.p = Head(pipe).p)
<1>1. PICK p : p = Head(pipe).p
  OBVIOUS
<1>2. p \in Packet /\ AppendBuffer(p)
  BY <1>1, HeadSend DEF CtrlSend
<1> DEFINE m == Parts(p)
<1>3. m \in Seq(Part) /\ Len(m) \in Nat \ {0} /\ (high' = high \o m \/ low' = low \o m)
  BY <1>2, PartsOf DEF AppendBuffer
<1> HIDE DEF m
<1>4. /\ Len(high \o m) = Len(high) + Len(m) /\ Len(low \o m) = Len(low) + Len(m)
      /\ Len(high) \in Nat /\ Len(low) \in Nat
  BY <1>3, Cat DEF Inv, TypeOK, ListTypes
<1>5. high \o m # high /\ low \o m # low
  BY <1>3, <1>4
<1>6. ~UNCHANGED <<high, low>>
  BY <1>3, <1>5
<1>7. \E q, r : Inserted(p, q, r)
  BY <1>1, <1>6, RequestInserts
<1> QED
  BY <1>1, <1>7, InsertedIn

LEMMA ClosingStep ==
    ASSUME Inv, [Next]_vars
    PROVE  Closing'
<1>0. ListTypes'
  BY ListTypesStep
<1>1. CASE UNCHANGED <<id, type, pc, pkt, count, stream, dw, high, low, pipe, at, since, given, how>>
  <2>1. All' = All /\ Pend' = Pend /\ HowExact'
    BY <1>1 DEF All, Pend, Inv, Closing, HowExact
  <2> QED
    BY <1>1, <2>1, ClosingKeeps
<1>2. ASSUME NEW s \in Sender, NEW isLow \in BOOLEAN, Send(s, isLow) PROVE Closing'
  <2>1. /\ pc[s] = "idle" /\ UNCHANGED <<id, type, stream, dw, high, low, pipe, at, since, given, how>>
        /\ count' = [count EXCEPT ![s] = @ + 1]
        /\ pkt' = [pkt EXCEPT ![s] = [from |-> s, n |-> count[s] + 1, low |-> isLow, id |-> id]]
        /\ pc' = [pc EXCEPT ![s] = IF isLow THEN "inc" ELSE "lists"]
    BY <1>2 DEF Send, slotVars, kernel, history
  <2>2. All' = All /\ Pend' = Pend
    BY <2>1 DEF All, Pend
  <2>3. CASE s # Owner
    <3>1. pc'[Owner] = pc[Owner] /\ pkt'[Owner] = pkt[Owner] /\ count'[Owner] = count[Owner]
      BY <2>1, <2>3, Constants DEF Inv, TypeOK, ThreadTypes
    <3>2. Given' = Given
      BY <2>1, <3>1 DEF Given
    <3>3. GivenPast' /\ OwnIds' /\ HowExact'
      BY <2>1, <2>2, <3>1 DEF Inv, Closing, GivenPast, OwnIds, HowExact
    <3>4. Closes'
      BY <2>1, <2>2, <3>2 DEF Inv, Closing, Closes, Last, IsClose, Sends
    <3>5. AllLocated'
      BY <2>1, <2>2, <3>1, <3>2 DEF Inv, Closing, AllLocated, Located, Sends, IsClose, Stored
    <3>6. Sent'
      BY <2>1, <3>2 DEF Inv, Closing, Sent, Stored
    <3> QED
      BY <3>3, <3>4, <3>5, <3>6 DEF Closing
  <2>4. CASE s = Owner
    <3>1. /\ pc'[Owner] # "idle" /\ count'[Owner] = count[Owner] + 1 /\ count[Owner] \in Nat
          /\ pkt'[Owner].n = count[Owner] + 1 /\ pkt'[Owner].id = id /\ pc[Owner] = "idle"
      BY <2>1, <2>4, Constants DEF Inv, TypeOK, ThreadTypes
    <3>2. GivenPast'
      BY <2>1, <3>1, GivenIs DEF Inv, Closing, GivenPast
    <3>3. OwnIds' /\ HowExact'
      BY <2>1, <2>2, <3>1 DEF Inv, Closing, OwnIds, HowExact
    <3>4. given # None => Given' = Given
      BY <2>1 DEF Given
    <3>5. Closes'
      BY <2>1, <2>2, <3>4 DEF Inv, Closing, Closes, Last, IsClose, Sends
    <3>6. AllLocated'
      <4> SUFFICES ASSUME how = "open", NEW n \in Given' PROVE Located(n)'
        BY <2>1 DEF AllLocated
      <4>1. CASE n \in Given
        <5>1. Located(n)
          BY <4>1 DEF Inv, Closing, AllLocated
        <5> QED
          BY <5>1, <2>1, <2>2, <3>1 DEF Located, Sends, IsClose, Stored
      <4>2. CASE n \notin Given
        <5>1. given = None
          BY <3>4, <4>2
        <5>2. n = count[Owner] + 1
          BY <2>1, <3>1, <4>2, <5>1, GivenIs DEF Given
        <5> QED
          BY <2>1, <3>1, <5>1, <5>2 DEF Located
      <4> QED
        BY <4>1, <4>2
    <3>7. Sent'
      BY <2>1, <3>4 DEF Inv, Closing, Sent, Stored
    <3> QED
      BY <3>2, <3>3, <3>5, <3>6, <3>7 DEF Closing
  <2> QED
    BY <2>3, <2>4
<1>3. ASSUME NEW s \in Sender, ReadLists(s) PROVE Closing'
  <2>1. PICK l : pc' = [pc EXCEPT ![s] = l] /\ l # "idle" /\ pc[s] # "idle"
    BY <1>3 DEF ReadLists, Goto
  <2>2. UNCHANGED <<id, type, pkt, count, stream, dw, high, low, pipe, at, since, given, how>>
    BY <1>3 DEF ReadLists, Goto, kernel, history
  <2> QED
    BY <2>1, <2>2, ClosingMoves
<1>4. ASSUME NEW s \in Sender, ReadState(s) PROVE Closing'
  <2>1. PICK l : pc' = [pc EXCEPT ![s] = l] /\ l # "idle" /\ pc[s] # "idle"
    BY <1>4 DEF ReadState, Goto
  <2>2. UNCHANGED <<id, type, pkt, count, stream, dw, high, low, pipe, at, since, given, how>>
    BY <1>4 DEF ReadState, Goto, kernel, history
  <2> QED
    BY <2>1, <2>2, ClosingMoves
<1>5. ASSUME NEW s \in Sender, TryLock(s) PROVE Closing'
  <2>1. PICK l : pc' = [pc EXCEPT ![s] = l] /\ l # "idle" /\ pc[s] # "idle"
    BY <1>5 DEF TryLock, Goto
  <2>2. UNCHANGED <<id, type, pkt, count, stream, dw, high, low, pipe, at, since, given, how>>
    BY <1>5 DEF TryLock, Goto, kernel, history
  <2> QED
    BY <2>1, <2>2, ClosingMoves
<1>6. ASSUME NEW s \in Sender, DirectWrite(s) PROVE Closing'
  <2>1. /\ Inserted(pkt[s], stream, high \o low) /\ pkt[s].from = s /\ pkt[s].n = count[s]
    BY <1>6, DirectInserts
  <2>2. /\ pc[s] = "write" /\ UNCHANGED <<id, type, count, pipe, at, since, given, how>>
        /\ pc' = [pc EXCEPT ![s] = "idle"] /\ pkt' = [pkt EXCEPT ![s] = None]
    BY <1>6 DEF DirectWrite, Done, history
  <2>3. PICK p : p = pkt[s]
    OBVIOUS
  <2>4. /\ p \in Packet /\ p.from = s /\ p.n = count[s]
        /\ \A x : In(All', x) <=> In(All, x) \/ (x \in Part /\ x.p = p)
    BY <2>1, <2>3, InsertedIn DEF Inserted
  <2>5. Pend' = Pend /\ Given' = Given
    BY <2>2 DEF Pend, Given
  <2>6. \A x : In(stream, x) => In(stream', x)
    <3>1. PICK m : m \in Seq(Part) /\ stream' = stream \o m
      <4>1. PICK k \in {Min({room, Size})} \cup (IF peer = "up" THEN {} ELSE {0}) :
              stream' = stream \o First(k, Parts(pkt[s]))
        BY <1>6 DEF DirectWrite
      <4>2. Parts(pkt[s]) \in Seq(Part) /\ Len(Parts(pkt[s])) = Size /\ Size \in Nat /\ room \in Nat
        BY <2>3, <2>4, PartsOf DEF Inv, TypeOK, ListTypes
      <4>3. k \in 0..Size
        BY <4>2, MinOf
      <4>4. First(k, Parts(pkt[s])) \in Seq(Part)
        BY <4>2, <4>3, Split
      <4> QED
        BY <4>1, <4>4
    <3> QED
      BY <3>1, CatIn DEF Inv, TypeOK, ListTypes
  <2>7. /\ s # Owner => pc'[Owner] = pc[Owner] /\ pkt'[Owner] = pkt[Owner]
        /\ s = Owner => pc'[Owner] = "idle"
    BY <2>2, Constants DEF Inv, TypeOK, ThreadTypes
  <2>8. GivenPast' /\ OwnIds' /\ HowExact'
    BY <2>2, <2>5, <2>7 DEF Inv, Closing, GivenPast, OwnIds, HowExact
  <2>9. Closes'
    BY <2>2, <2>5 DEF Inv, Closing, Closes, Last, IsClose, Sends
  <2>10. AllLocated'
    <3> SUFFICES ASSUME how = "open", NEW n \in Given PROVE Located(n)'
      BY <2>2, <2>5 DEF AllLocated
    <3>1. Located(n)
      BY DEF Inv, Closing, AllLocated
    <3>2. CASE Stored(All, n)
      <4>1. Stored(All', n)
        BY <3>2, <2>4, StoredMore
      <4> QED
        BY <4>1 DEF Located, Stored
    <3>3. CASE (\E r : In(Pend, r) /\ Sends(r, n)) /\ (given # None => \E r : In(Pend, r) /\ IsClose(r))
      BY <3>3, <2>2, <2>5 DEF Located, Sends, IsClose
    <3>4. CASE given = None /\ pc[Owner] # "idle" /\ pkt[Owner].n = n
      <4>1. CASE s = Owner
        <5>1. Stored(All', p.n) /\ p.n = n
          BY <2>3, <2>4, <3>4, <4>1, StoredParts
        <5> QED
          BY <5>1 DEF Located, Stored
      <4>2. CASE s # Owner
        BY <2>2, <2>7, <3>4, <4>2 DEF Located
      <4> QED
        BY <4>1, <4>2
    <3> QED
      BY <3>1, <3>2, <3>3, <3>4 DEF Located
  <2>11. Sent'
    <3> SUFFICES ASSUME how = "close" PROVE given # None /\ \A n \in Given : Stored(stream', n)
      BY <2>2, <2>5 DEF Sent, Stored
    <3> QED
      BY <2>6, StoredMore DEF Inv, Closing, Sent
  <2> QED
    BY <2>8, <2>9, <2>10, <2>11 DEF Closing
<1>7. ASSUME NEW s \in Sender, IncSending(s) PROVE Closing'
  <2>1. PICK l : pc' = [pc EXCEPT ![s] = l] /\ l # "idle" /\ pc[s] # "idle"
    BY <1>7 DEF IncSending, Goto
  <2>2. UNCHANGED <<id, type, pkt, count, stream, dw, high, low, pipe, at, since, given, how>>
    BY <1>7 DEF IncSending, Goto, kernel, history
  <2> QED
    BY <2>1, <2>2, ClosingMoves
<1>8. ASSUME NEW s \in Sender, SendRequest(s) PROVE Closing'
  <2>1. /\ pc[s] = "request" /\ pc' = [pc EXCEPT ![s] = "idle"] /\ pkt' = [pkt EXCEPT ![s] = None]
        /\ UNCHANGED <<id, type, count, at, stream, dw, high, low, since, given, how>>
    BY <1>8 DEF SendRequest, Done, slotVars, kernel, history
  <2>2. PICK e : e = [cmd |-> "send", p |-> pkt[s]]
    OBVIOUS
  <2>3. /\ e \in Request /\ IsSend(e) /\ ~IsClose(e) /\ pipe' = Append(pipe, e)
        /\ e.p = pkt[s] /\ e.p.from = s /\ e.p.n = count[s]
    BY <1>8, <2>1, <2>2 DEF SendRequest, Inv, Threads, Thread, Request, IsSend, IsClose
  <2>4. Pend' = Append(Pend, e) /\ \A r : In(Pend', r) <=> r = e \/ In(Pend, r)
    BY <2>1, <2>3, PendPush
  <2>5. All' = All /\ Given' = Given
    BY <2>1 DEF All, Given
  <2>6. /\ s # Owner => pc'[Owner] = pc[Owner] /\ pkt'[Owner] = pkt[Owner]
        /\ s = Owner => pc'[Owner] = "idle"
    BY <2>1, Constants DEF Inv, TypeOK, ThreadTypes
  <2>7. GivenPast' /\ OwnIds' /\ HowExact'
    BY <2>1, <2>3, <2>4, <2>6 DEF Inv, Closing, GivenPast, OwnIds, HowExact
  <2>8. given # None => Last(Pend')
    <3> SUFFICES ASSUME given # None PROVE Last(Append(Pend, e))
      BY <2>4
    <3>1. \A n \in Given : ~Sends(e, n)
      BY <2>1, <2>3, GivenIs DEF Sends
    <3>2. Pend \in Seq(Request) /\ Last(Pend)
      BY PendTypes DEF Inv, Closing, Closes
    <3> QED
      BY <3>1, <3>2, <2>3, LastPush
  <2>9. Last(Pend') => Last(Pend)'
    BY <2>1, <2>5 DEF Last, IsClose, Sends
  <2>10. \A r : IsClose(r) <=> IsClose(r)'
    BY <2>1 DEF IsClose
  <2>11. Closes'
    BY <2>1, <2>3, <2>4, <2>8, <2>9, <2>10 DEF Inv, Closing, Closes
  <2>12. AllLocated'
    <3> SUFFICES ASSUME how = "open", NEW n \in Given PROVE Located(n)'
      BY <2>1, <2>5 DEF AllLocated
    <3>1. Located(n)
      BY DEF Inv, Closing, AllLocated
    <3>2. CASE Stored(All, n)
      BY <3>2, <2>5 DEF Located, Stored
    <3>3. CASE (\E r : In(Pend, r) /\ Sends(r, n)) /\ (given # None => \E r : In(Pend, r) /\ IsClose(r))
      BY <3>3, <2>1, <2>4 DEF Located, Sends, IsClose
    <3>4. CASE given = None /\ pc[Owner] # "idle" /\ pkt[Owner].n = n
      <4>1. CASE s = Owner
        <5>1. Sends(e, n)
          BY <2>3, <3>4, <4>1 DEF Sends
        <5> QED
          BY <5>1, <2>1, <2>4, <3>4 DEF Located, Sends
      <4>2. CASE s # Owner
        BY <2>1, <2>6, <3>4, <4>2 DEF Located
      <4> QED
        BY <4>1, <4>2
    <3> QED
      BY <3>1, <3>2, <3>3, <3>4 DEF Located
  <2>13. Sent'
    BY <2>1, <2>5 DEF Inv, Closing, Sent, Stored
  <2> QED
    BY <2>7, <2>11, <2>12, <2>13 DEF Closing
<1>9. ASSUME NEW shutdown \in BOOLEAN, Close(shutdown) PROVE Closing'
  <2>1. /\ UNCHANGED <<id, type, pc, pkt, count, at, stream, dw, high, low, since, how>>
        /\ pc[Owner] = "idle" /\ given = None /\ given' = count[Owner]
    BY <1>9 DEF Close, slotVars, senderVars, kernel
  <2>2. PICK e : e = [cmd |-> "K", id |-> id, shutdown |-> shutdown]
    OBVIOUS
  <2>3. e \in Request /\ ~IsSend(e) /\ IsClose(e) /\ pipe' = Append(pipe, e)
    BY <1>9, <2>2 DEF Close, Inv, TypeOK, SlotTypes, Request, IsSend, IsClose
  <2>4. Pend' = Append(Pend, e) /\ \A r : In(Pend', r) <=> r = e \/ In(Pend, r)
    BY <2>1, <2>3, PendPush
  <2>5. given' # None /\ All' = All /\ Given' = Given /\ count[Owner] \in Nat
    BY <2>1, GivenIs, Constants DEF All, Given
  <2>6. GivenPast'
    BY <2>1, <2>5 DEF GivenPast
  <2>7. OwnIds' /\ HowExact'
    BY <2>1, <2>3, <2>4 DEF Inv, Closing, OwnIds, HowExact
  <2>8. \A r : In(Pend, r) => ~IsClose(r)
    BY <2>1 DEF Inv, Closing, Closes
  <2>9. Last(Pend)'
    <3>1. PICK q : q = Pend
      OBVIOUS
    <3>2. q \in Seq(Request) /\ Pend' = Append(q, e)
      BY <3>1, <2>4, PendTypes
    <3>3. /\ Len(q) \in Nat /\ DOMAIN q = 1..Len(q) /\ DOMAIN Append(q, e) = 1..(Len(q) + 1)
          /\ \A j \in DOMAIN q : Append(q, e)[j] = q[j]
      BY <3>2, <2>3, Push
    <3>4. PICK a : a = Append(q, e)
      OBVIOUS
    <3>5. ASSUME NEW j \in DOMAIN a, NEW k \in DOMAIN a, j < k PROVE ~IsClose(a[j])
      <4>1. j \in DOMAIN q /\ a[j] = q[j]
        BY <3>3, <3>4, <3>5
      <4>2. In(Pend, a[j])
        BY <4>1, <3>1 DEF In
      <4> QED
        BY <4>2, <2>8
    <3>6. Pend' = a
      BY <3>2, <3>4
    <3> QED
      BY <3>5, <3>6, <2>1 DEF Last, IsClose
  <2>10. type # "halfclose"
    BY <2>1 DEF Inv, Closing, Closes
  <2>11. Closes'
    BY <2>1, <2>5, <2>9, <2>10 DEF Closes
  <2>12. AllLocated'
    <3> SUFFICES ASSUME how = "open", NEW n \in Given PROVE Located(n)'
      BY <2>1, <2>5 DEF AllLocated
    <3>1. Located(n)
      BY DEF Inv, Closing, AllLocated
    <3>2. CASE Stored(All, n)
      BY <3>2, <2>5 DEF Located, Stored
    <3>3. CASE \E r : In(Pend, r) /\ Sends(r, n)
      <4>1. \E r : In(Pend', r) /\ Sends(r, n)
        BY <3>3, <2>4
      <4>2. \E r : In(Pend', r) /\ IsClose(r)
        BY <2>3, <2>4
      <4> QED
        BY <4>1, <4>2, <2>1 DEF Located, Sends, IsClose
    <3> QED
      BY <3>1, <3>2, <3>3, <2>1 DEF Located
  <2>13. Sent'
    BY <2>1 DEF Inv, Closing, Sent
  <2> QED
    BY <2>6, <2>7, <2>11, <2>12, <2>13 DEF Closing
<1>10. CASE WriteEvent
  <2>1. Flush /\ UNCHANGED <<id, pc, pkt, count, pipe, at, since, given>>
    BY <1>10, EventCases DEF WriteEvent, senderVars
  <2>2. Pend' = Pend /\ at' # "force"
    BY <2>1 DEF Pend, Flush
  <2> QED
    BY <2>1, <2>2, <1>0, FlushCloses
<1>11. CASE ReadEnd
  <2>1. /\ UNCHANGED <<id, type, pc, pkt, count, pipe, since, given>> /\ at = "poll" /\ at' = "force"
        /\ how' = "abort"
    BY <1>11 DEF ReadEnd, FreeLists, senderVars
  <2>2. Pend' = Pend
    BY <2>1 DEF Pend
  <2>3. GivenPast' /\ OwnIds' /\ Closes'
    BY <2>1, <2>2, ClosingShrinks
  <2> QED
    BY <2>1, <2>3 DEF Closing, HowExact, AllLocated, Sent
<1>12. CASE ForceClose
  <2>1. /\ UNCHANGED <<id, stream, pc, pkt, count, pipe, since, given, how>> /\ at = "force"
        /\ at' = "poll" /\ type' = "invalid"
    BY <1>12 DEF ForceClose, kernel, senderVars, history
  <2>2. how # "open"
    BY <2>1 DEF Inv, Closing, HowExact
  <2>3. HowExact' /\ Pend' = Pend
    BY <2>1, <2>2 DEF HowExact, Pend
  <2> QED
    BY <2>1, <2>2, <2>3, ClosingKeeps
<1>13. CASE CtrlSend
  <2>1. /\ at = "poll" /\ at' = "dec"
        /\ UNCHANGED <<id, type, pc, pkt, count, pipe, stream, since, given, how>>
    BY <1>13 DEF CtrlSend, senderVars, kernel, history
  <2>2. Popped /\ IsSend(Head(Pend)) /\ Head(pipe).p \in Packet
    BY <1>13, <2>1, HeadSend, Pops DEF Popped
  <2>3. GivenPast' /\ OwnIds' /\ Closes' /\ Given' = Given
    BY <2>1, <2>2, ClosingShrinks
  <2>4. HowExact'
    BY <2>1 DEF Inv, Closing, HowExact
  <2>5. \A x : In(All, x) => In(All', x)
    <3>1. CASE UNCHANGED <<high, low>>
      <4>1. All' = All
        BY <1>13, <3>1, RequestInserts DEF All
      <4> QED
        BY <4>1
    <3>2. CASE ~UNCHANGED <<high, low>>
      <4>1. \E q, r : Inserted(Head(pipe).p, q, r)
        BY <1>13, <3>2, RequestInserts
      <4> QED
        BY <4>1, InsertedIn
    <3> QED
      BY <3>1, <3>2
  <2>6. AllLocated'
    <3> SUFFICES ASSUME how = "open", NEW n \in Given PROVE Located(n)'
      BY <2>1, <2>3 DEF AllLocated
    <3>1. Located(n)
      BY DEF Inv, Closing, AllLocated
    <3>2. CASE Stored(All, n)
      <4>1. Stored(All', n)
        BY <3>2, <2>5, StoredMore
      <4> QED
        BY <4>1 DEF Located, Stored
    <3>3. CASE given = None /\ pc[Owner] # "idle" /\ pkt[Owner].n = n
      BY <3>3, <2>1 DEF Located
    <3>4. CASE (\E r : In(Pend, r) /\ Sends(r, n)) /\ (given # None => \E r : In(Pend, r) /\ IsClose(r))
      <4>1. PICK h : h = Head(Pend)
        OBVIOUS
      <4>2. /\ IsSend(h) /\ ~IsClose(h) /\ h.p = Head(pipe).p /\ h.p \in Packet
            /\ \A r : In(Pend, r) <=> r = h \/ In(Pend', r)
        BY <2>2, <4>1 DEF Popped, IsSend, IsClose
      <4>3. given # None => \E r : In(Pend', r) /\ IsClose(r)
        BY <3>4, <4>2
      <4>4. CASE \E r : In(Pend', r) /\ Sends(r, n)
        BY <4>3, <4>4, <2>1 DEF Located, Sends, IsClose
      <4>5. CASE Sends(h, n)
        <5>1. h.p.id = id
          <6>1. h.p.from = Owner /\ h.p.n = n /\ n > since
            BY <4>5, GivenIs DEF Sends
          <6>2. In(Pend, h)
            BY <4>2
          <6> QED
            BY <6>1, <6>2, <4>2 DEF Inv, Closing, OwnIds
        <5>2. type = "connected"
          <6>1. type # "invalid"
            BY DEF Inv, Closing, HowExact
          <6>2. type # "halfclose"
            BY <3>4 DEF Inv, Closing, Closes
          <6> QED
            BY <6>1, <6>2 DEF Inv, TypeOK, SlotTypes
        <5>3. \A x : In(All', x) <=> In(All, x) \/ (x \in Part /\ x.p = h.p)
          BY <1>13, <4>2, <5>1, <5>2, Appends
        <5>4. Stored(All', n)
          BY <4>2, <4>5, <5>3, StoredParts DEF Sends
        <5> QED
          BY <5>4 DEF Located, Stored
      <4> QED
        BY <3>4, <4>2, <4>4, <4>5
    <3> QED
      BY <3>1, <3>2, <3>3, <3>4 DEF Located
  <2>7. Sent'
    BY <2>1, <2>3 DEF Inv, Closing, Sent, Stored
  <2> QED
    BY <2>3, <2>4, <2>6, <2>7 DEF Closing
<1>14. CASE DecSending
  <2>1. /\ UNCHANGED <<id, type, pc, pkt, count, stream, dw, high, low, since, given, how>> /\ Pend' = Pend
        /\ at = "dec" /\ at' = "poll"
    BY <1>14 DEF DecSending, senderVars, kernel, history, Pend
  <2>2. All' = All /\ HowExact'
    BY <2>1 DEF All, Inv, Closing, HowExact
  <2> QED
    BY <2>1, <2>2, ClosingKeeps
<1>15. CASE CtrlClose
  <2>1. (Flush \/ Kept) /\ UNCHANGED <<id, pc, pkt, count, since, given>> /\ at = "poll" /\ at' # "force"
    BY <1>15, CloseCases DEF senderVars
  <2>2. \/ Pend' = Pend /\ type' # "invalid"
        \/ /\ Popped /\ Head(Pend).cmd = "K"
           /\ type # "invalid" /\ id = Head(Pend).id => type' = "invalid"
    <3>1. CASE at' = "close" /\ pipe' = pipe /\ type' # "invalid"
      BY <1>15, <3>1, CloseCases DEF Pend
    <3>2. CASE /\ at' = at /\ pipe' = Tail(pipe)
               /\ type # "invalid" /\ id = Head(pipe).id => type' = "invalid"
      <4>1. Popped
        BY <1>15, <3>2, CloseCases, Pops
      <4> QED
        BY <1>15, <3>2, <4>1, CloseCases DEF Popped
    <3> QED
      BY <1>15, <3>1, <3>2, CloseCases
  <2>3. CASE Flush /\ id = Head(pipe).id
    <3>1. Pend' = Pend \/ (Popped /\ type' = "invalid")
      BY <2>2, <2>3 DEF Flush, Popped
    <3> QED
      BY <2>1, <2>3, <3>1, <1>0, FlushCloses
  <2>4. CASE Kept
    <3>1. UNCHANGED <<type, stream, dw, high, low, how>>
      BY <2>4 DEF Kept
    <3>2. All' = All /\ HowExact'
      BY <2>1, <3>1 DEF All, Inv, Closing, HowExact
    <3>3. CASE Pend' = Pend
      BY <2>1, <3>1, <3>2, <3>3, ClosingKeeps
    <3>4. CASE Popped /\ Head(Pend).cmd = "K" /\ (type # "invalid" => id # Head(Pend).id)
      <4>1. GivenPast' /\ OwnIds' /\ Closes' /\ Given' = Given
        BY <2>1, <3>1, <3>4, ClosingShrinks
      <4>2. Sent'
        BY <2>1, <3>1, <4>1 DEF Inv, Closing, Sent, Stored
      <4>3. AllLocated'
        <5> SUFFICES ASSUME how = "open", NEW n \in Given PROVE Located(n)'
          BY <3>1, <4>1 DEF AllLocated
        <5>1. type # "invalid"
          BY DEF Inv, Closing, HowExact
        <5>2. \A r : In(Pend, r) /\ (IsClose(r) \/ Sends(r, n)) => In(Pend', r)
          BY <3>4, <5>1 DEF Popped, IsClose, Sends, IsSend
        <5>3. Located(n)
          BY DEF Inv, Closing, AllLocated
        <5> QED
          BY <2>1, <3>2, <5>2, <5>3 DEF Located, Sends, IsClose, Stored
      <4> QED
        BY <3>2, <4>1, <4>2, <4>3 DEF Closing
    <3> QED
      BY <2>2, <3>1, <3>3, <3>4
  <2> QED
    BY <1>15, <2>3, <2>4, CloseCases
<1>16. CASE CtrlClosed
  <2>1. /\ UNCHANGED <<id, dw, stream, pc, pkt, count, since, given>> /\ at = "close"
        /\ at' \in {"force", "poll"} /\ pipe' = Tail(pipe) /\ pipe # <<>>
        /\ Head(pipe).cmd = "K" /\ Head(pipe).id = id
    BY <1>16 DEF CtrlClosed, FreeLists, kernel, senderVars, Inv, Pipe
  <2>2. Popped
    BY <2>1, Pops
  <2>3. how = "open" /\ type # "invalid"
    BY <2>1 DEF Inv, Closing, HowExact, Slot
  <2>4. IsClose(Head(Pend)) /\ In(Pend, Head(Pend)) /\ given # None
    BY <2>1, <2>2 DEF Popped, IsClose, Inv, Closing, Closes
  <2>5. \A r : In(Pend', r) => ~IsClose(r) /\ \A n \in Given : ~Sends(r, n)
    <3>1. Pend \in Seq(Request) /\ Pend # <<>> /\ Last(Pend) /\ Pend' = Tail(Pend)
      BY <2>2, <2>4, PendTypes DEF Popped, Inv, Closing, Closes
    <3>2. IsClose(Head(Pend)) => \A r : In(Tail(Pend), r) => /\ ~IsClose(r)
                                                            /\ \A n \in Given : ~Sends(r, n)
      BY <3>1, LastPop
    <3> QED
      BY <3>1, <3>2, <2>4
  <2>6. ASSUME NEW n \in Given PROVE Stored(All, n)
    <3>1. Located(n)
      BY <2>3 DEF Inv, Closing, AllLocated
    <3>2. ~Sends(Head(Pend), n)
      BY <2>4 DEF IsClose, Sends, IsSend
    <3>3. \A r : In(Pend, r) => ~Sends(r, n)
      BY <2>2, <2>5, <3>2 DEF Popped
    <3> QED
      BY <3>1, <3>3, <2>4 DEF Located
  <2>7. CASE FreeLists("abort") /\ UNCHANGED type
    <3>1. how' = "abort" /\ at' = "force"
      BY <2>7 DEF FreeLists
    <3>2. GivenPast' /\ OwnIds' /\ Closes'
      BY <2>1, <2>2, <2>7, ClosingShrinks
    <3> QED
      BY <3>1, <3>2 DEF Closing, HowExact, AllLocated, Sent
  <2>8. CASE FreeLists("close") /\ UNCHANGED type /\ nomore_sending_data
    <3>1. how' = "close" /\ at' = "force"
      BY <2>8 DEF FreeLists
    <3>2. GivenPast' /\ OwnIds' /\ Closes' /\ Given' = Given
      BY <2>1, <2>2, <2>8, ClosingShrinks
    <3>3. \A x : In(All, x) => In(stream', x)
      BY <2>1, <2>8, AllFacts, InNone DEF nomore_sending_data, Inv, TypeOK
    <3>4. Sent'
      <4>1. \A n \in Given : Stored(stream', n)
        BY <2>6, <3>3, StoredMore
      <4> QED
        BY <4>1, <2>1, <2>4, <3>2 DEF Sent, Stored
    <3> QED
      BY <3>1, <3>2, <3>4 DEF Closing, HowExact, AllLocated
  <2>9. CASE type' = "halfclose" /\ at' = "poll" /\ UNCHANGED <<high, low, how>>
    <3>1. All' = All /\ Given' = Given
      BY <2>1, <2>9 DEF All, Given
    <3>2. GivenPast' /\ OwnIds'
      BY <2>1, <2>2 DEF Popped, Inv, Closing, GivenPast, OwnIds
    <3>3. Closes'
      <4>1. \A r : IsClose(r) <=> IsClose(r)'
        BY <2>1 DEF IsClose
      <4>2. Last(Pend)'
        <5>1. PICK q : q = Pend'
          OBVIOUS
        <5>2. \A j \in DOMAIN q : ~IsClose(q[j])
          BY <5>1, <2>5 DEF In
        <5> QED
          BY <5>1, <5>2, <4>1 DEF Last
      <4> QED
        BY <4>1, <4>2, <2>1, <2>4, <2>5 DEF Closes
    <3>4. HowExact'
      BY <2>3, <2>9 DEF HowExact
    <3>5. AllLocated'
      BY <2>6, <3>1 DEF AllLocated, Located, Stored
    <3>6. Sent'
      BY <2>3, <2>9 DEF Sent
    <3> QED
      BY <3>2, <3>3, <3>4, <3>5, <3>6 DEF Closing
  <2> QED
    BY <1>16, <2>7, <2>8, <2>9 DEF CtrlClosed
<1>17. CASE Reopen
  <2>1. /\ id' = id + 1 /\ id \in Nat /\ type' = "connected" /\ since' = count[Owner] /\ given' = None
        /\ how' = "open" /\ at = "poll" /\ UNCHANGED <<pc, pkt, count, pipe, at>>
    BY <1>17 DEF Reopen, senderVars, Inv, TypeOK, SlotTypes
  <2>2. Pend' = Pend
    BY <2>1 DEF Pend
  <2>3. count[Owner] \in Nat /\ (pc[Owner] # "idle" => pkt[Owner].n = count[Owner])
    BY GivenIs, Constants DEF Inv, Threads, Thread
  <2>4. ASSUME NEW r, In(Pend, r), IsSend(r), r.p.from = Owner PROVE ~(r.p.n > count[Owner])
    <3>1. r.p \in Packet /\ Past(r.p)
      BY <2>4, PendTypes DEF Inv, Order, Handed
    <3> QED
      BY <3>1, <2>3, <2>4, PacketFields DEF Past
  <2>5. ASSUME NEW r, In(Pend, r), r.cmd = "K" PROVE r.id # id + 1
    <3>1. r.id <= id /\ r.id \in Nat
      BY <2>5, PendTypes, RequestFields DEF Inv, Pipe, IsSend
    <3> QED
      BY <3>1, <2>1
  <2>6. GivenPast' /\ OwnIds' /\ HowExact' /\ Sent'
    BY <2>1, <2>2, <2>3, <2>4 DEF GivenPast, OwnIds, HowExact, Sent
  <2>7. Closes'
    BY <2>1, <2>2, <2>5 DEF Closes, IsClose
  <2>8. AllLocated'
    <3>1. Given' = {}
      BY <2>1, <2>3 DEF Given
    <3> QED
      BY <3>1 DEF AllLocated
  <2> QED
    BY <2>6, <2>7, <2>8 DEF Closing
<1> QED
  BY <1>1, <1>2, <1>3, <1>4, <1>5, <1>6, <1>7, <1>8, <1>9, <1>10, <1>11, <1>12, <1>13, <1>14, <1>15, <1>16, <1>17
     DEF Next, Step, SocketThread, vars, slotVars, senderVars, kernel, history, PeerReads,
         PeerCloses
-----------------------------------------------------------------------------
LEMMA InitInv == ASSUME Init PROVE Inv
<1>1. /\ id = 1 /\ type = "connected" /\ high = <<>> /\ low = <<>> /\ dw = <<>> /\ wb_size = 0
      /\ sending = 0 /\ lock = None /\ write_event = FALSE /\ pipe = <<>> /\ at = "poll"
      /\ \A s \in Sender : pc[s] = "idle" /\ count[s] = 0
      /\ stream = <<>> /\ since = 0 /\ given = None /\ how = "open" /\ cut = FALSE
  BY DEF Init
<1>2. Len(<<>>) = 0 /\ Pend = <<>> /\ DOMAIN <<>> = {} /\ <<>> \in Seq(Request)
  BY <1>1, EmptySeq DEF Pend
<1>3. All = <<>>
  BY <1>1, Empty DEF All
<1>4. TypeOK
  <2>1. /\ pc \in [Sender -> Place] /\ pkt \in [Sender -> Packet \cup {None}]
        /\ count \in [Sender -> Nat] /\ room \in Nat /\ peer = "up"
    BY Constants DEF Init, Place
  <2> QED
    BY <1>1, <1>2, <2>1, Empty DEF TypeOK, SlotTypes, ListTypes, PipeTypes, ThreadTypes, HistoryTypes
<1>5. Threads
  BY <1>1, Constants DEF Threads, Thread, Locked
<1>6. Pipe /\ Slot /\ SizeExact
  BY <1>1, <1>2, InNone DEF Pipe, Slot, SizeExact
<1>7. SendingExact
  <2>1. Queued = {} /\ Queueing = {}
    BY <1>1, <1>2 DEF Queued, Queueing
  <2> QED
    BY <2>1, <1>1, FS_EmptySet DEF SendingExact
<1>8. Packets
  BY <1>1, <1>2, <1>3, InNone DEF Packets, Uncomplete, Whole
<1>9. Order
  BY <1>1, <1>2, <1>3, InNone DEF Order, Ordered, LowList, Handed, Behind, Later, NoneAsked, NoneListed, Locked
<1>10. Closing
  <2>1. Given = {}
    BY <1>1, Constants DEF Given
  <2> QED
    BY <1>1, <1>2, <2>1, InNone, Constants DEF Closing, GivenPast, OwnIds, Closes, HowExact, AllLocated, Sent
<1> QED
  BY <1>4, <1>5, <1>6, <1>7, <1>8, <1>9, <1>10 DEF Inv

\* The slot, its lists and the pipe, the threads in socket_server_send and the close agree,
\* in every state that socket_server.c can reach.
THEOREM Invariance == Spec => []Inv
<1>1. Init => Inv
  BY InitInv
<1>2. Inv /\ [Next]_vars => Inv'
  <2> SUFFICES ASSUME Inv, [Next]_vars PROVE Inv'
    OBVIOUS
  <2>1. TypeOK'
    BY ThreadTypesStep, SlotTypesStep, ListTypesStep, PipeTypesStep, HistoryTypesStep DEF TypeOK
  <2>2. Threads' /\ Pipe' /\ Slot' /\ SizeExact' /\ SendingExact'
    BY ThreadsStep, PipeStep, SlotStep, SizeStep, SendingStep
  <2>3. Packets' /\ Order' /\ Closing'
    BY PacketsStep, OrderStep, ClosingStep
  <2> QED
    BY <2>1, <2>2, <2>3 DEF Inv
<1> QED
  BY <1>1, <1>2, PTL DEF Spec

\* The assertions of send_buffer_, close_socket and dec_sending_ref hold: wb_size is what
\* the lists hold, and sending the requests under way for this use of the slot.
THEOREM CountsAreExact == Spec => []CountsExact
<1>1. Inv => CountsExact
  BY DEF Inv, Slot, SizeExact, SendingExact, Queued, Queueing, Packets, CountsExact
<1> QED
  BY <1>1, Invariance, PTL

\* What is written to the connection is whole packets of this use of the slot, by whichever
\* thread and in however many writes.
THEOREM PacketsArriveWhole == Spec => []WholePackets
<1>1. ASSUME Inv, ~cut, NEW j \in DOMAIN stream
      PROVE  /\ stream[j].p.id = id
             /\ IF stream[j].i = 1 THEN j = 1 \/ stream[j - 1].i = Size
                ELSE j > 1 /\ stream[j - 1] = [stream[j] EXCEPT !.i = @ - 1]
  <2>1. stream \in Seq(Part) /\ ListTypes
    BY <1>1 DEF Inv, TypeOK, ListTypes
  <2>2. stream[j].p.id = id
    <3>1. In(stream, stream[j])
      BY DEF In
    <3>2. In(All, stream[j])
      BY <3>1, <2>1, AllFacts
    <3> QED
      BY <3>2, <1>1 DEF Inv, Packets
  <2>3. After(stream, j)
    BY <1>1 DEF Inv, Packets
  <2>4. CASE stream[j].i = 1
    BY <2>2, <2>3, <2>4 DEF After
  <2>5. CASE stream[j].i # 1
    <3>1. j > 1 /\ stream[j - 1].p = stream[j].p /\ stream[j - 1].i = stream[j].i - 1
      BY <2>3, <2>5 DEF After
    <3>2. j - 1 \in DOMAIN stream
      BY <3>1, <2>1
    <3>3. stream[j] \in Part /\ stream[j - 1] \in Part
      BY <3>2, <2>1
    <3>4. \A x, y \in Part : x.p = y.p /\ x.i = y.i - 1 => x = [y EXCEPT !.i = @ - 1]
      BY DEF Part
    <3> QED
      BY <2>2, <2>5, <3>1, <3>3, <3>4
  <2> QED
    BY <2>4, <2>5
<1>2. Inv => WholePackets
  BY <1>1 DEF WholePackets
<1> QED
  BY <1>2, Invariance, PTL

\* Packets of a sender leave in the order of its calls of socket_server_send, but for those
\* of low priority that are overtaken, and each part leaves once.
THEOREM SendersInOrder == Spec => []SenderOrder
<1>1. ASSUME Inv, NEW j \in DOMAIN stream, NEW k \in DOMAIN stream, j < k
      PROVE  /\ stream[j] # stream[k]
             /\ stream[j].p.from = stream[k].p.from /\ stream[j].p.n > stream[k].p.n =>
                   stream[k].p.low /\ ~stream[j].p.low
  <2>1. Ok(stream[j], stream[k])
    BY <1>1, OrderedPrefix DEF Ordered
  <2>2. stream[j] \in Part /\ stream[k] \in Part
    BY <1>1 DEF Inv, TypeOK, ListTypes
  <2>3. /\ stream[j].i \in Nat /\ stream[k].i \in Nat
        /\ stream[j].p.n \in Nat /\ stream[k].p.n \in Nat
    BY <2>2, PartFields, PacketFields, Constants
  <2> QED
    BY <2>1, <2>3 DEF Ok
<1>2. Inv => SenderOrder
  BY <1>1 DEF SenderOrder
<1> QED
  BY <1>2, Invariance, PTL

\* close_socket ends a connection gracefully only when everything that its owner gave to
\* socket_server_send before it called socket_server_close has been written.
THEOREM CloseFlushes == Spec => []Flushed
<1>1. ASSUME Inv, how = "close", NEW n \in (since + 1)..given, NEW i \in 1..Size
      PROVE  \E j \in DOMAIN stream : /\ stream[j].p.from = Owner
                                      /\ stream[j].p.n = n /\ stream[j].i = i
  <2>1. Stored(stream, n)
    BY <1>1 DEF Inv, Closing, Sent, Given
  <2> QED
    BY <2>1 DEF Stored, In
<1>2. Inv => Flushed
  BY <1>1 DEF Flushed
<1> QED
  BY <1>2, Invariance, PTL
=============================================================================

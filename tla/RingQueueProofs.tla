-------------------------- MODULE RingQueueProofs --------------------------
(***************************************************************************)
(* The ring buffer implements the sequence for every capacity, every set   *)
(* of messages and every number of expansions.                             *)
(***************************************************************************)
EXTENDS RingQueue, SequenceTheorems, FiniteSetTheorems, FunctionTheorems, TLAPS

\* The type invariant of the buffer: both indices stay inside it.
Ring == /\ cap \in Nat /\ cap > 1
        /\ queue \in [0..(cap - 1) -> Message \cup {None}]
        /\ head \in 0..(cap - 1)
        /\ tail \in 0..(cap - 1)

\* What % computes for the indices of expand_queue.
LEMMA ModOnce == ASSUME NEW c \in Nat, c > 0, NEW x \in Nat, x < 2 * c
                 PROVE  x % c = IF x < c THEN x ELSE x - c
<1>1. CASE x < c
  BY <1>1
<1>2. CASE x >= c
  BY <1>2
<1> QED
  BY <1>1, <1>2

LEMMA RingInit == Init => Ring
BY RingQueueAssumption DEF Init, Ring

LEMMA RingStep == Ring /\ [Next]_vars => Ring'
<1> SUFFICES ASSUME Ring, [Next]_vars PROVE Ring'
  OBVIOUS
<1> USE DEF Ring
<1>1. ASSUME NEW m \in Message, MqPush(m) PROVE Ring'
  <2>1. CASE head = Wrap(tail + 1)
    <3>1. \A i \in 0..(cap - 1) : (head + i) % cap \in 0..(cap - 1)
      BY ModOnce
    <3>2. [queue EXCEPT ![tail] = m] \in [0..(cap - 1) -> Message \cup {None}]
      OBVIOUS
    <3>3. /\ cap' = 2 * cap
          /\ head' = 0
          /\ tail' = cap
          /\ queue' = [i \in 0..(2 * cap - 1) |->
                         IF i < cap THEN [queue EXCEPT ![tail] = m][(head + i) % cap]
                                    ELSE None]
      BY <1>1, <2>1 DEF MqPush, expand_queue
    <3>4. queue' \in [0..(2 * cap - 1) -> Message \cup {None}]
      <4> DEFINE cells == [queue EXCEPT ![tail] = m]
      <4>1. ASSUME NEW i \in 0..(2 * cap - 1), i < cap
            PROVE  cells[(head + i) % cap] \in Message \cup {None}
        <5> HIDE DEF cells
        <5>1. i \in 0..(cap - 1)
          BY <4>1
        <5> QED
          BY <5>1, <3>1, <3>2 DEF cells
      <4> QED
        BY <3>3, <4>1
    <3> QED
      BY <3>3, <3>4
  <2>2. CASE head # Wrap(tail + 1)
    BY <1>1, <2>2 DEF MqPush, Wrap
  <2> QED
    BY <2>1, <2>2
<1>2. CASE MqPop
  BY <1>2 DEF MqPop, Wrap
<1>3. CASE MqPopEmpty
  BY <1>3 DEF MqPopEmpty
<1>4. CASE UNCHANGED vars
  BY <1>4 DEF vars
<1> QED
  BY <1>1, <1>2, <1>3, <1>4 DEF Next

\* The contents are a sequence of that length.
LEMMA ContentsSeq == ASSUME Ring
                     PROVE  /\ Length \in Nat
                            /\ Contents \in Seq(Message \cup {None})
                            /\ Len(Contents) = Length
                            /\ Contents = <<>> <=> head = tail
<1>1. Length \in Nat
  BY DEF Ring, Length
<1>2. \A i \in 1..Length : Cell(i - 1) \in 0..(cap - 1)
  BY DEF Ring, Length, Cell
<1>3. Contents \in [1..Length -> Message \cup {None}]
  BY <1>2 DEF Contents, Ring
<1>4. Contents \in Seq(Message \cup {None}) /\ Len(Contents) = Length
  BY <1>1, <1>3
<1>5. Contents = <<>> <=> Length = 0
  BY <1>1, <1>4
<1>6. Length = 0 <=> head = tail
  BY DEF Ring, Length
<1> QED
  BY <1>1, <1>4, <1>5, <1>6

\* What Append and Tail are, cell by cell.
LEMMA AppendCells == ASSUME NEW S, NEW s \in Seq(S), NEW e \in S, NEW n \in Nat, Len(s) = n
                     PROVE  Append(s, e) = [i \in 1..(n + 1) |-> IF i = n + 1 THEN e ELSE s[i]]
<1> DEFINE t == [i \in 1..(n + 1) |-> IF i = n + 1 THEN e ELSE s[i]]
<1>1. s \in [1..n -> S]
  OBVIOUS
<1>2. t \in [1..(n + 1) -> S]
  BY <1>1
<1>3. t \in Seq(S) /\ Len(t) = n + 1
  BY <1>2
<1>4. Append(s, e) \in Seq(S) /\ Len(Append(s, e)) = n + 1
  OBVIOUS
<1>5. \A i \in 1..(n + 1) : Append(s, e)[i] = t[i]
  OBVIOUS
<1> HIDE DEF t
<1>6. Append(s, e) = t
  BY <1>3, <1>4, <1>5, SeqEqual
<1> QED
  BY <1>6 DEF t

LEMMA TailCells == ASSUME NEW S, NEW s \in Seq(S), NEW n \in Nat \ {0}, Len(s) = n
                   PROVE  Tail(s) = [i \in 1..(n - 1) |-> s[i + 1]]
<1> DEFINE t == [i \in 1..(n - 1) |-> s[i + 1]]
<1>1. s \in [1..n -> S] /\ s # <<>>
  OBVIOUS
<1>2. t \in [1..(n - 1) -> S]
  BY <1>1
<1>3. t \in Seq(S) /\ Len(t) = n - 1
  BY <1>2
<1>4. Tail(s) \in Seq(S) /\ Len(Tail(s)) = n - 1
  BY <1>1
<1>5. \A i \in 1..(n - 1) : Tail(s)[i] = t[i]
  BY <1>1
<1> HIDE DEF t
<1>6. Tail(s) = t
  BY <1>3, <1>4, <1>5, SeqEqual
<1> QED
  BY <1>6 DEF t

\* A message that needs no room is appended.
LEMMA PushRoom == ASSUME Ring, NEW m \in Message, MqPush(m), head # Wrap(tail + 1)
                  PROVE  Contents' = Append(Contents, m)
<1>1. /\ queue' = [queue EXCEPT ![tail] = m]
      /\ tail' = Wrap(tail + 1)
      /\ head' = head
      /\ cap' = cap
  BY DEF MqPush
<1>2. Length' = Length + 1
  BY <1>1 DEF Ring, Length, Wrap
<1>3. \A i \in 1..Length : Cell(i - 1) \in 0..(cap - 1) \ {tail}
  BY DEF Ring, Length, Cell
<1>4. Length \in Nat /\ Cell(Length) = tail
  BY DEF Ring, Length, Cell
<1>5. \A i \in 1..Length : queue'[Cell(i - 1)] = queue[Cell(i - 1)]
  BY <1>1, <1>3 DEF Ring
<1>6. queue'[tail] = m
  BY <1>1 DEF Ring
<1>7. \A i \in Int : Cell(i)' = Cell(i)
  BY <1>1 DEF Cell
<1>8. Contents' = [i \in 1..(Length + 1) |-> queue'[Cell(i - 1)]]
  BY <1>1, <1>2 DEF Contents, Cell
<1>9. Append(Contents, m) = [i \in 1..(Length + 1) |-> IF i = Length + 1 THEN m ELSE Contents[i]]
  BY ContentsSeq, AppendCells
<1>10. ASSUME NEW i \in 1..(Length + 1)
       PROVE  queue'[Cell(i - 1)] = IF i = Length + 1 THEN m ELSE Contents[i]
  <2>1. CASE i = Length + 1
    BY <2>1, <1>4, <1>6
  <2>2. CASE i # Length + 1
    BY <2>2, <1>4, <1>5 DEF Contents
  <2> QED
    BY <2>1, <2>2
<1> QED
  BY <1>8, <1>9, <1>10

\* A message that fills the buffer is appended too: the old cells are copied in
\* the order of the queue, the new message last.
LEMMA PushExpand == ASSUME Ring, NEW m \in Message, MqPush(m), head = Wrap(tail + 1)
                    PROVE  Contents' = Append(Contents, m)
<1> DEFINE cells == [queue EXCEPT ![tail] = m]
<1>1. /\ cap' = 2 * cap
      /\ head' = 0
      /\ tail' = cap
      /\ queue' = [i \in 0..(2 * cap - 1) |->
                     IF i < cap THEN cells[(head + i) % cap] ELSE None]
  BY DEF MqPush, expand_queue
<1>2. Length = cap - 1 /\ cap \in Nat /\ cap > 1
  BY DEF Ring, Length, Wrap
<1>3. Length' = cap
  BY <1>1, <1>2 DEF Length
<1>4. \A i \in 1..cap : Cell(i - 1)' = i - 1
  BY <1>1, <1>2 DEF Cell
<1>5. \A i \in 1..cap : (head + (i - 1)) % cap = Cell(i - 1)
  <2> SUFFICES ASSUME NEW i \in 1..cap PROVE (head + (i - 1)) % cap = Cell(i - 1)
    OBVIOUS
  <2>1. PICK x \in Nat : x = head + (i - 1) /\ x < 2 * cap
    BY <1>2 DEF Ring
  <2>2. x % cap = IF x < cap THEN x ELSE x - cap
    BY <2>1, <1>2, ModOnce
  <2> QED
    BY <2>1, <2>2, <1>2 DEF Ring, Cell
<1>6. \A i \in 1..cap : queue'[i - 1] = cells[Cell(i - 1)]
  <2> SUFFICES ASSUME NEW i \in 1..cap PROVE queue'[i - 1] = cells[Cell(i - 1)]
    OBVIOUS
  <2>1. i - 1 \in 0..(2 * cap - 1) /\ i - 1 < cap
    BY <1>2
  <2>2. queue'[i - 1] = cells[(head + (i - 1)) % cap]
    BY <1>1, <2>1
  <2> QED
    BY <1>5, <2>2
<1>7. Contents' = [i \in 1..cap |-> cells[Cell(i - 1)]]
  <2>1. Contents' = [i \in 1..cap |-> queue'[Cell(i - 1)']]
    BY <1>3 DEF Contents
  <2> QED
    BY <2>1, <1>4, <1>6
<1>8. Append(Contents, m) = [i \in 1..cap |-> IF i = cap THEN m ELSE Contents[i]]
  BY ContentsSeq, AppendCells, <1>2
<1>9. ASSUME NEW i \in 1..cap
      PROVE  cells[Cell(i - 1)] = IF i = cap THEN m ELSE Contents[i]
  <2>1. Cell(i - 1) \in 0..(cap - 1) /\ (Cell(i - 1) = tail <=> i = cap)
    BY DEF Ring, Cell, Wrap
  <2>2. CASE i = cap
    BY <2>1, <2>2 DEF Ring
  <2>3. CASE i # cap
    <3>1. i \in 1..Length
      BY <1>2, <2>3
    <3> QED
      BY <2>1, <2>3, <3>1 DEF Ring, Contents
  <2> QED
    BY <2>2, <2>3
<1> QED
  BY <1>7, <1>8, <1>9

\* skynet_mq_pop returns the oldest message and leaves the others.
LEMMA PopHead == ASSUME Ring, MqPop
                 PROVE  /\ Contents # <<>>
                        /\ got' = Head(Contents)
                        /\ Contents' = Tail(Contents)
<1>1. /\ head # tail
      /\ got' = queue[head]
      /\ head' = Wrap(head + 1)
      /\ queue' = queue
      /\ cap' = cap
      /\ tail' = tail
  BY DEF MqPop
<1>2. Length \in Nat /\ Length > 0 /\ Length' = Length - 1
  BY <1>1 DEF Ring, Length, Wrap
<1>3. \A i \in 1..(Length - 1) : Cell(i - 1)' = Cell(i)
  BY <1>1 DEF Ring, Length, Cell, Wrap
<1>4. Cell(0) = head
  BY DEF Ring, Cell
<1>5. Contents # <<>> /\ Len(Contents) = Length
  BY <1>1, ContentsSeq
<1>6. got' = Head(Contents)
  <2>1. Contents[1] = queue[Cell(1 - 1)]
    BY <1>2 DEF Contents
  <2> QED
    BY <2>1, <1>1, <1>4, <1>5, ContentsSeq
<1>7. Tail(Contents) = [i \in 1..(Length - 1) |-> Contents[i + 1]]
  BY <1>2, <1>5, ContentsSeq, TailCells
<1>8. Contents' = [i \in 1..(Length - 1) |-> queue[Cell(i - 1)']]
  BY <1>1, <1>2 DEF Contents
<1>9. ASSUME NEW i \in 1..(Length - 1)
      PROVE  queue[Cell(i - 1)'] = Contents[i + 1]
  <2>1. i + 1 \in 1..Length /\ (i + 1) - 1 = i
    BY <1>2
  <2> QED
    BY <2>1, <1>3 DEF Contents
<1> QED
  BY <1>5, <1>6, <1>7, <1>8, <1>9

\* The buffer implements the sequence (FifoSpec): skynet_mq_push and
\* skynet_mq_pop lose, repeat and reorder nothing, whatever the initial
\* capacity, and however often the buffer has grown and wrapped around.
THEOREM ImplementsFifo == Spec => FifoSpec
<1>1. Init => Seqn!Init
  <2> SUFFICES ASSUME Init PROVE Seqn!Init
    OBVIOUS
  <2>1. Ring /\ head = tail /\ got = None
    BY RingInit DEF Init
  <2> QED
    BY <2>1, ContentsSeq DEF Seqn!Init
<1>2. Ring /\ [Next]_vars => [Seqn!Next]_<<Contents, got>>
  <2> SUFFICES ASSUME Ring, [Next]_vars PROVE [Seqn!Next]_<<Contents, got>>
    OBVIOUS
  <2>1. ASSUME NEW m \in Message, MqPush(m) PROVE Seqn!Push(m)
    <3>1. Contents' = Append(Contents, m)
      BY <2>1, PushRoom, PushExpand
    <3> QED
      BY <2>1, <3>1 DEF MqPush, Seqn!Push
  <2>2. CASE MqPop
    BY <2>2, PopHead DEF Seqn!Pop, Seqn!Next
  <2>3. CASE MqPopEmpty
    <3>1. Contents = <<>> /\ Contents' = Contents /\ got' = None
      BY <2>3, ContentsSeq DEF MqPopEmpty, Contents, Length, Cell
    <3> QED
      BY <3>1 DEF Seqn!PopEmpty, Seqn!Next
  <2>4. CASE UNCHANGED vars
    BY <2>4 DEF vars, Contents, Length, Cell
  <2> QED
    BY <2>1, <2>2, <2>3, <2>4 DEF Next, Seqn!Next
<1> QED
  BY <1>1, <1>2, RingInit, RingStep, PTL DEF Spec, FifoSpec, Seqn!Spec

-----------------------------------------------------------------------------
\* A set of naturals has a least element: the induction of the proofs below.
LEMMA Least ==
    ASSUME NEW S, S \subseteq Nat, S # {}
    PROVE  \E x \in S : \A y \in S : x <= y
<1> DEFINE R == {ss \in Nat \X Nat : ss[1] < ss[2]}
<1>1. IsWellFoundedOn(R, Nat)
  BY NatLessThanWellFounded, Zenon DEF OpToRel
<1> HIDE DEF R
<1>2. PICK x \in S : \A y \in S : ~(<<y, x>> \in R)
  BY <1>1, WFMin
<1>3. ASSUME NEW y \in S PROVE x <= y
  <2>1. ~(<<y, x>> \in R)
    BY <1>2
  <2>2. <<y, x>> \in Nat \X Nat /\ <<y, x>>[1] = y /\ <<y, x>>[2] = x
    OBVIOUS
  <2>3. ~(y < x)
    BY <2>1, <2>2 DEF R
  <2> QED
    BY <2>3
<1> QED
  BY <1>2, <1>3

\* A power of two is positive and the next is twice as large: the subsets of 1..(k + 1) without
\* k + 1 are those of 1..k, and as many are with it.
LEMMA Pow == ASSUME NEW k \in Nat PROVE  2^k \in Nat \ {0} /\ 2^(k+1) = 2 * 2^k
<1> DEFINE A == SUBSET (1..k)
           B == SUBSET (1..(k+1))
           C == {x \in B : k + 1 \in x}
           f == [x \in A |-> x \cup {k+1}]
<1>1. IsFiniteSet(1..k) /\ Cardinality(1..k) = k /\ IsFiniteSet(1..(k+1)) /\ Cardinality(1..(k+1)) = k+1
  BY FS_Interval
<1>2. IsFiniteSet(A) /\ Cardinality(A) = 2^k /\ IsFiniteSet(B) /\ Cardinality(B) = 2^(k+1)
  BY <1>1, FS_SUBSET
<1>3. k + 1 \notin 1..k /\ 1..(k+1) = 1..k \cup {k+1}
  OBVIOUS
<1>4. f \in Bijection(A, C)
  <2>1. f \in [A -> C]
    BY <1>3
  <2>2. \A x, y \in A : f[x] = f[y] => x = y
    <3> SUFFICES ASSUME NEW x \in A, NEW y \in A, x \cup {k+1} = y \cup {k+1} PROVE x = y
      OBVIOUS
    <3>1. k+1 \notin x /\ k+1 \notin y
      BY <1>3
    <3> QED
      BY <3>1
  <2>3. \A z \in C : \E x \in A : f[x] = z
    <3> SUFFICES ASSUME NEW z \in C PROVE \E x \in A : f[x] = z
      OBVIOUS
    <3>1. z \ {k+1} \in A
      BY <1>3
    <3>2. (z \ {k+1}) \cup {k+1} = z
      OBVIOUS
    <3> QED
      BY <3>1, <3>2
  <2> HIDE DEF f, A, C
  <2> QED
    BY <2>1, <2>2, <2>3, Fun_IsBij
<1>5. IsFiniteSet(C) /\ Cardinality(C) = 2^k
  <2>1. ExistsBijection(A, C)
    BY <1>4 DEF ExistsBijection
  <2> HIDE DEF A, C
  <2> QED
    BY <2>1, <1>2, FS_Bijection
<1>6. B = A \cup C /\ A \cap C = {}
  BY <1>3
<1>7. {} \in A
  OBVIOUS
<1> HIDE DEF A, B, C
<1>8. Cardinality(B) = Cardinality(A) + Cardinality(C) - Cardinality({})
  BY <1>6, <1>2, <1>5, FS_Union
<1>9. Cardinality(A) \in Nat /\ Cardinality(A) # 0
  BY <1>2, <1>7, FS_EmptySet, FS_CardinalityType
<1>10. Cardinality({}) = 0
  BY FS_EmptySet
<1> DEFINE a == 2^k
           b == 2^(k+1)
<1>11. a \in Nat \ {0} /\ b = a + a - 0
  BY <1>2, <1>5, <1>8, <1>9, <1>10
<1> HIDE DEF a, b
<1>12. b = 2 * a
  BY <1>11
<1> QED
  BY <1>11, <1>12 DEF a, b

\* The loop that doubles the threshold ends before it has gone round length times.
LEMMA PowBeyond == ASSUME NEW n \in Nat PROVE n <= 2^n
<1> DEFINE Bad == {x \in Nat : ~(x <= 2^x)}
<1> SUFFICES ASSUME Bad # {} PROVE FALSE
  OBVIOUS
<1>1. PICK x \in Bad : \A y \in Bad : x <= y
  BY Least
<1>2. x # 0
  <2>1. 2^0 = 1
    OBVIOUS
  <2>2. 0 <= 2^0
    BY <2>1
  <2> QED
    BY <2>2
<1>3. PICK y \in Nat : x = y + 1
  <2>1. x - 1 \in Nat /\ x = (x - 1) + 1
    BY <1>2
  <2> QED
    BY <2>1
<1>4. y <= 2^y
  <2>1. ~(x <= y)
    BY <1>3
  <2> QED
    BY <1>1, <2>1
<1>5. PICK p \in Nat \ {0} : p = 2^y /\ 2^x = 2 * p
  BY <1>3, Pow
<1>6. x <= 2^x
  BY <1>3, <1>4, <1>5
<1> QED
  BY <1>6

LEMMA ThresholdCovers ==
    ASSUME overload_threshold \in Nat \ {0}, NEW length \in Nat
    PROVE  /\ Threshold(length) \in Nat \ {0}
           /\ length <= Threshold(length) /\ overload_threshold <= Threshold(length)
<1> DEFINE enough == {n \in 0..length : length <= overload_threshold * 2^n}
<1>1. PICK t \in Nat \ {0} : t = overload_threshold
  OBVIOUS
<1>2. length \in enough
  <2>1. PICK p \in Nat \ {0} : p = 2^length /\ length <= p
    BY Pow, PowBeyond
  <2>2. p <= t * p
    <3>1. PICK u \in Nat : t = u + 1
      <4>1. t - 1 \in Nat /\ t = (t - 1) + 1
        OBVIOUS
      <4> QED
        BY <4>1
    <3>2. (u + 1) * p = u * p + p /\ u * p \in Nat
      OBVIOUS
    <3>3. PICK v \in Nat : v = u * p
      BY <3>2
    <3> QED
      BY <3>1, <3>2, <3>3
  <2>3. t * p \in Nat
    OBVIOUS
  <2>4. length <= t * p
    BY <2>1, <2>2, <2>3
  <2> QED
    BY <2>1, <2>4, <1>1
<1>3. enough \subseteq Nat
  OBVIOUS
<1>4. PICK n \in enough : n = (CHOOSE m \in enough : \A k \in enough : m <= k)
  <2> HIDE DEF enough
  <2>1. \E m \in enough : \A k \in enough : m <= k
    BY <1>2, <1>3, Least
  <2> QED
    BY <2>1
<1>5. Threshold(length) = overload_threshold * 2^n
  BY <1>4 DEF Threshold
<1>6. n \in Nat /\ length <= overload_threshold * 2^n
  OBVIOUS
<1>7. PICK p \in Nat \ {0} : p = 2^n
  BY <1>6, Pow
<1>8. t * p \in Nat \ {0} /\ t <= t * p
  <2>1. PICK u \in Nat : p = u + 1
    <3>1. p - 1 \in Nat /\ p = (p - 1) + 1
      OBVIOUS
    <3> QED
      BY <3>1
  <2>2. t * (u + 1) = t * u + t /\ t * u \in Nat
    OBVIOUS
  <2>3. PICK v \in Nat : v = t * u
    BY <2>2
  <2> QED
    BY <2>1, <2>2, <2>3
<1> HIDE DEF enough
<1> QED
  BY <1>1, <1>5, <1>6, <1>7, <1>8

\* The last warning was for a length within the threshold.
Warned == /\ overload_threshold \in Nat \ {0}
          /\ reported \in Nat /\ reported <= overload_threshold

LEMMA PopThreshold ==
    ASSUME Ring, Warned, MqPop
    PROVE  /\ Warned' /\ Length' <= overload_threshold'
           /\ reported' # reported => reported' > reported
<1>1. PICK hd : hd = Wrap(head + 1)
  OBVIOUS
<1>2. PICK length : length = IF tail < hd THEN tail - hd + cap ELSE tail - hd
  OBVIOUS
<1>3. /\ head' = hd /\ overload_threshold' = Threshold(length)
      /\ reported' = (IF length > overload_threshold THEN length ELSE reported) /\ UNCHANGED <<queue, cap, tail>>
  BY <1>1, <1>2 DEF MqPop
<1>4. hd \in 0..(cap - 1) /\ cap \in Nat /\ tail \in 0..(cap - 1)
  BY <1>1 DEF Ring, Wrap
<1>5. length \in Nat
  BY <1>2, <1>4
<1>6. Length' = length
  BY <1>2, <1>3, <1>4 DEF Length
<1>7. PICK th \in Nat \ {0} : th = Threshold(length) /\ length <= th /\ overload_threshold <= th
  BY <1>5, ThresholdCovers DEF Warned
<1> QED
  BY <1>3, <1>5, <1>6, <1>7 DEF Warned

LEMMA WarnedStep ==
    ASSUME Ring, Warned, [Next]_vars
    PROVE  /\ Warned' /\ (MqPop => Length' <= overload_threshold')
           /\ reported' \notin {reported, 0} => reported' > reported
<1>1. ASSUME NEW m \in Message, MqPush(m) PROVE Warned' /\ ~MqPop /\ reported' = reported
  <2>1. UNCHANGED <<overload_threshold, got, reported>>
    BY <1>1 DEF MqPush
  <2>2. ~MqPop
    BY <1>1 DEF MqPop, MqPush, expand_queue, Ring, Wrap
  <2> QED
    BY <2>1, <2>2 DEF Warned
<1>2. CASE MqPop
  BY <1>2, PopThreshold
<1>3. CASE MqPopEmpty
  BY <1>3, RingQueueAssumption DEF MqPopEmpty, MqPop, Warned
<1>4. CASE UNCHANGED vars
  BY <1>4 DEF vars, Warned, MqPop, Ring, Wrap
<1> QED
  BY <1>1, <1>2, <1>3, <1>4 DEF Next

\* After each skynet_mq_pop the threshold is at least the length, and each warning is for a
\* longer queue than the last one, whatever the threshold starts from.
THEOREM OverloadWarnings == Spec => WarningsDouble
<1>1. Init => Ring /\ Warned
  BY RingInit, RingQueueAssumption DEF Init, Warned
<1>2. Ring /\ Warned /\ [Next]_vars => Ring' /\ Warned'
  BY RingStep, WarnedStep
<1>3. Ring /\ Warned /\ [Next]_vars =>
        [/\ MqPop => Length' <= overload_threshold'
         /\ reported' \notin {reported, 0} => reported' > reported]_vars
  BY WarnedStep
<1> QED
  BY <1>1, <1>2, <1>3, PTL DEF Spec, WarningsDouble
=============================================================================

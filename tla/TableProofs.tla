------------------------------ MODULE TableProofs ------------------------------
(***************************************************************************)
(* Theorems about the two tables of the runtime whose sizes are powers of  *)
(* two: the services and their names (HandleStorage), for any number of    *)
(* services, names and threads, any size of the table and any number of    *)
(* handles; and the timer wheel (Timer), for any number of timers and any  *)
(* shifts.                                                                 *)
(*                                                                         *)
(* An induction takes the least number at which a statement fails (lemma   *)
(* Least), and powers of two are counted as subsets (lemma Pow).           *)
(***************************************************************************)
EXTENDS HandleStorage, Timer, FiniteSetTheorems, FunctionTheorems, SequenceTheorems, TLAPS
-----------------------------------------------------------------------------
LEMMA DivMod ==
    ASSUME NEW a \in Nat, NEW n \in Nat \ {0}
    PROVE  a \div n \in Nat /\ a % n \in 0..(n - 1) /\ a = n * (a \div n) + (a % n)
OBVIOUS

LEMMA DivModIs ==
    ASSUME NEW a \in Nat, NEW n \in Nat \ {0}, NEW q \in Nat, NEW r \in 0..(n - 1), a = n * q + r
    PROVE  a \div n = q /\ a % n = r
OBVIOUS

LEMMA ModMod ==
    ASSUME NEW a \in Nat, NEW n \in Nat \ {0}, NEW m \in Nat \ {0}
    PROVE  n * m \in Nat \ {0} /\ (a % (n * m)) % n = a % n
<1> DEFINE N == n * m
           q == a \div N
           r == a % N
           s == r \div n
           t == r % n
<1>1. N \in Nat \ {0}
  OBVIOUS
<1>2. q \in Nat /\ r \in Nat /\ a = N * q + r
  <2> HIDE DEF N
  <2> QED
    BY <1>1, DivMod
<1> HIDE DEF q, r
<1>3. s \in Nat /\ t \in 0..(n - 1) /\ r = n * s + t
  BY <1>2, DivMod
<1> HIDE DEF s, t
<1>4. a = n * (m * q + s) + t /\ m * q + s \in Nat
  BY <1>2, <1>3
<1>5. a % n = t
  BY <1>3, <1>4, DivModIs
<1> QED
  BY <1>1, <1>5 DEF t, r, N

LEMMA Reaches ==
    ASSUME NEW a \in Nat, NEW n \in Nat \ {0}, NEW j \in 0..(n - 1)
    PROVE  \E i \in 0..(n - 1) : (i + a) % n = j
<1> DEFINE q == a \div n
           r == a % n
<1>1. q \in Nat /\ r \in 0..(n - 1) /\ a = n * q + r
  BY DivMod
<1> HIDE DEF q, r
<1>2. CASE j >= r
  <2>1. PICK i \in 0..(n - 1) : i + a = n * q + j
    <3>1. (j - r) + a = n * q + j /\ j - r \in 0..(n - 1)
      BY <1>1, <1>2
    <3> QED
      BY <3>1
  <2>2. i + a \in Nat /\ q \in Nat /\ q + 1 \in Nat
    BY <1>1
  <2>3. (i + a) % n = j
    BY <2>1, <2>2, DivModIs
  <2> QED
    BY <2>3
<1>3. CASE j < r
  <2>1. PICK i \in 0..(n - 1) : i + a = n * (q + 1) + j
    <3>1. ((n + j) - r) + a = n * (q + 1) + j /\ (n + j) - r \in 0..(n - 1)
      BY <1>1, <1>3
    <3> QED
      BY <3>1
  <2>2. i + a \in Nat /\ q \in Nat /\ q + 1 \in Nat
    BY <1>1
  <2>3. (i + a) % n = j
    BY <2>1, <2>2, DivModIs
  <2> QED
    BY <2>3
<1> QED
  BY <1>1, <1>2, <1>3

LEMMA Least == ASSUME NEW S, S \subseteq Nat, S # {} PROVE \E x \in S : \A y \in S : x <= y
<1> DEFINE R == {ss \in Nat \X Nat : ss[1] < ss[2]}
<1>1. IsWellFoundedOn(R, Nat)
  BY NatLessThanWellFounded, Zenon DEF OpToRel
<1> HIDE DEF R
<1>2. PICK x \in S : \A y \in S : ~(<<y, x>> \in R)
  BY <1>1, WFMin
<1>3. ASSUME NEW y \in S PROVE x <= y
  <2>1. ~(<<y, x>> \in R)
    BY <1>2
  <2>2. <<y, x>> \in Nat \X Nat /\ <<y, x>>[1] = y /\ <<y, x>>[2] = x
    OBVIOUS
  <2>3. ~(y < x)
    BY <2>1, <2>2 DEF R
  <2> QED
    BY <2>3
<1> QED
  BY <1>2, <1>3

LEMMA Pow == ASSUME NEW k \in Nat PROVE  2^k \in Nat \ {0} /\ 2^(k+1) = 2 * 2^k
<1> DEFINE A == SUBSET (1..k)
           B == SUBSET (1..(k+1))
           C == {x \in B : k + 1 \in x}
           f == [x \in A |-> x \cup {k+1}]
<1>1. IsFiniteSet(1..k) /\ Cardinality(1..k) = k /\ IsFiniteSet(1..(k+1)) /\ Cardinality(1..(k+1)) = k+1
  BY FS_Interval
<1>2. IsFiniteSet(A) /\ Cardinality(A) = 2^k /\ IsFiniteSet(B) /\ Cardinality(B) = 2^(k+1)
  BY <1>1, FS_SUBSET
<1>3. k + 1 \notin 1..k /\ 1..(k+1) = 1..k \cup {k+1}
  OBVIOUS
<1>4. f \in Bijection(A, C)
  <2>1. f \in [A -> C]
    BY <1>3
  <2>2. \A x, y \in A : f[x] = f[y] => x = y
    <3> SUFFICES ASSUME NEW x \in A, NEW y \in A, x \cup {k+1} = y \cup {k+1} PROVE x = y
      OBVIOUS
    <3>1. k+1 \notin x /\ k+1 \notin y
      BY <1>3
    <3> QED
      BY <3>1
  <2>3. \A z \in C : \E x \in A : f[x] = z
    <3> SUFFICES ASSUME NEW z \in C PROVE \E x \in A : f[x] = z
      OBVIOUS
    <3>1. z \ {k+1} \in A
      BY <1>3
    <3>2. (z \ {k+1}) \cup {k+1} = z
      OBVIOUS
    <3> QED
      BY <3>1, <3>2
  <2> HIDE DEF f, A, C
  <2> QED
    BY <2>1, <2>2, <2>3, Fun_IsBij
<1>5. IsFiniteSet(C) /\ Cardinality(C) = 2^k
  <2>1. ExistsBijection(A, C)
    BY <1>4 DEF ExistsBijection
  <2> HIDE DEF A, C
  <2> QED
    BY <2>1, <1>2, FS_Bijection
<1>6. B = A \cup C /\ A \cap C = {}
  BY <1>3
<1>7. {} \in A
  OBVIOUS
<1> HIDE DEF A, B, C
<1>8. Cardinality(B) = Cardinality(A) + Cardinality(C) - Cardinality({})
  BY <1>6, <1>2, <1>5, FS_Union
<1>9. Cardinality(A) \in Nat /\ Cardinality(A) # 0
  BY <1>2, <1>7, FS_EmptySet, FS_CardinalityType
<1>10. Cardinality({}) = 0
  BY FS_EmptySet
<1> DEFINE a == 2^k
           b == 2^(k+1)
<1>11. a \in Nat \ {0} /\ b = a + a - 0
  BY <1>2, <1>5, <1>8, <1>9, <1>10
<1> HIDE DEF a, b
<1>12. b = 2 * a
  BY <1>11
<1> QED
  BY <1>11, <1>12 DEF a, b
-----------------------------------------------------------------------------
Launch == [ctx : Ctx \cup {Null}, handle : Handle]
Scan == [at : {"idle", "scan", "retire", "returned"}, i : Nat, n : Nat, handle : Handle]

TableTypes == /\ slot_size \in Nat \ {0}
              /\ slot \in [0..(slot_size - 1) -> Ctx \cup {Null}]
              /\ handle_index \in Nat
ThreadTypes == launching \in [Launcher -> Launch] /\ ra \in Scan
ContextTypes == handle \in [Ctx -> Handle] /\ live \subseteq Ctx /\ due \subseteq live

\* The table has a size to which the handles fit.
Sized == \E k \in Nat : slot_size * 2^k = MASK + 1

Hash(h) == h % slot_size

\* Every context is where its handle says, and in no other slot.
Placed == \A i \in DOMAIN slot : slot[i] # Null =>
    \/ slot[i] \in live /\ Hash(handle[slot[i]]) = i
    \/ \E t \in Launcher : launching[t].ctx = slot[i] /\ Hash(launching[t].handle) = i
Living == \A c \in live : slot[Hash(handle[c])] = c

\* A context whose handle is not stored yet belongs to one thread.
LaunchedBy(t) ==
    launching[t].ctx # Null =>
        /\ launching[t].ctx \notin live /\ handle[launching[t].ctx] = 0
        /\ slot[Hash(launching[t].handle)] = launching[t].ctx
        /\ \A u \in Launcher : launching[u].ctx = launching[t].ctx => u = t
Launching == \A t \in Launcher : LaunchedBy(t)

\* What the scan can see: a service with handle 0 is a free slot to it.
Seen == {c \in due : handle[c] # 0}

\* What is to be retired lies ahead of the scan, also when the table has doubled.
Pass ==
    /\ ra.at \in {"idle", "returned"} => Seen = {}
    /\ ra.at \in {"scan", "retire"} => \A c \in Seen : Hash(handle[c]) >= ra.i
    /\ ra.at = "retire" => /\ ra.handle # 0 /\ ra.i < slot_size
                           /\ \A c \in Seen : Hash(handle[c]) = ra.i => handle[c] = ra.handle

TypeOK == TableTypes /\ ThreadTypes /\ ContextTypes
Inv == TypeOK /\ Sized /\ Placed /\ Living /\ Launching /\ Pass
-----------------------------------------------------------------------------
LEMMA Constants ==
    /\ Null \notin Ctx /\ Name \subseteq Nat /\ SLOT_SIZE \in Nat \ {0} /\ MASK \in Nat
    /\ \E k \in Nat : SLOT_SIZE * 2^k = MASK + 1
<1>1. PICK k \in 0..MASK : MASK + 1 = SLOT_SIZE * 2^k
  BY HandleAssumption
<1>2. k \in Nat
  BY HandleAssumption
<1> QED
  BY <1>1, <1>2, HandleAssumption

LEMMA Least1 == ASSUME NEW S, S \subseteq Nat, S # {} PROVE Min(S) \in S
<1>1. PICK x \in S : \A y \in S : x <= y
  BY Least
<1>2. \E z \in S : \A y \in S : z =< y
  BY <1>1
<1> QED
  BY <1>2 DEF Min

\* The search finds a free slot when there is one.
LEMMA FreeFound ==
    ASSUME handle_index \in Nat,
           NEW size \in Nat \ {0}, NEW m \in Nat \ {0}, size * m = MASK + 1,
           NEW tbl, NEW j \in 0..(size - 1), tbl[j] = Null
    PROVE  FreeHandle(tbl, size) \in Handle /\ tbl[FreeHandle(tbl, size) % size] = Null
<1> DEFINE free == {i \in 0..(size - 1) : tbl[Candidate(i) % size] = Null}
<1>1. PICK i \in 0..(size - 1) : (i + handle_index) % size = j
  <2>1. \A a \in Nat, n \in Nat \ {0} : \A k \in 0..(n - 1) : \E i \in 0..(n - 1) : (i + a) % n = k
    BY Reaches, Zenon
  <2> QED
    BY <2>1, Zenon
<1>2. Candidate(i) % size = j
  <2>1. i + handle_index \in Nat
    OBVIOUS
  <2>2. ((i + handle_index) % (size * m)) % size = (i + handle_index) % size
    BY <2>1, ModMod
  <2> QED
    BY <2>2, <1>1 DEF Candidate
<1>3. i \in free
  BY <1>2
<1>4. free \subseteq Nat /\ free # {}
  BY <1>3
<1> HIDE DEF free
<1>5. Min(free) \in free
  BY <1>4, Least1
<1>6. PICK x \in 0..(size - 1) : x = Min(free) /\ tbl[Candidate(x) % size] = Null
  BY <1>5 DEF free
<1>7. FreeHandle(tbl, size) = Candidate(x)
  BY <1>6 DEF FreeHandle, free
<1>8. Candidate(x) \in Handle
  <2>1. x + handle_index \in Nat /\ MASK + 1 \in Nat \ {0} /\ MASK \in Nat
    BY Constants
  <2>2. (x + handle_index) % (MASK + 1) \in 0..((MASK + 1) - 1)
    BY <2>1, DivMod
  <2>3. (MASK + 1) - 1 = MASK
    BY <2>1
  <2> QED
    BY <2>2, <2>3 DEF Candidate, Handle
<1> QED
  BY <1>6, <1>7, <1>8

LEMMA HandleNat == Handle \subseteq Nat /\ 0 \in Handle
BY Constants DEF Handle

LEMMA HashIn == ASSUME TableTypes, NEW h \in Nat PROVE Hash(h) \in 0..(slot_size - 1) /\ DOMAIN slot = 0..(slot_size - 1)
<1>1. slot_size \in Nat \ {0} /\ DOMAIN slot = 0..(slot_size - 1)
  BY DEF TableTypes
<1> QED
  BY <1>1, DivMod DEF Hash

\* Where the table of twice the size has a context.
LEMMA TwiceHash ==
    ASSUME NEW s \in Nat \ {0}, NEW h \in Nat
    PROVE  /\ 2 * s \in Nat \ {0} /\ h % (2 * s) \in 0..(2 * s - 1)
           /\ (h % (2 * s)) % s = h % s
           /\ \A x \in 0..(2 * s - 1) : x % s = IF x < s THEN x ELSE x - s
<1>1. 2 * s = s * 2 /\ 2 * s \in Nat \ {0}
  OBVIOUS
<1>2. (h % (2 * s)) % s = h % s
  <2>1. 2 \in Nat \ {0}
    OBVIOUS
  <2>2. (h % (s * 2)) % s = h % s
    BY <2>1, ModMod
  <2> QED
    BY <1>1, <2>2
<1>3. h % (2 * s) \in 0..(2 * s - 1)
  BY <1>1, DivMod
<1>4. ASSUME NEW x \in 0..(2 * s - 1) PROVE x % s = IF x < s THEN x ELSE x - s
  <2>1. CASE x < s
    BY <2>1
  <2>2. CASE x >= s
    BY <2>2
  <2> QED
    BY <2>1, <2>2
<1> QED
  BY <1>1, <1>2, <1>3, <1>4

\* While no context is without its handle, the table can be doubled.
LEMMA FullOfLive ==
    ASSUME TypeOK, Placed, Settled, Full
    PROVE  \A i \in 0..(slot_size - 1) : /\ slot[i] \in Ctx /\ slot[i] \in live
                                         /\ Hash(handle[slot[i]]) = i /\ handle[slot[i]] \in Nat
<1> TAKE i \in 0..(slot_size - 1)
<1>1. slot[i] \in Ctx \cup {Null} /\ i \in DOMAIN slot
  BY DEF TypeOK, TableTypes
<1>2. slot[i] # Null
  BY <1>1 DEF Full, Range
<1>3. slot[i] \in live /\ Hash(handle[slot[i]]) = i
  BY <1>1, <1>2 DEF Placed, Settled
<1> QED
  BY <1>1, <1>2, <1>3, HandleNat DEF TypeOK, ContextTypes

LEMMA RehashApart ==
    ASSUME TypeOK, Placed, Settled, Full
    PROVE  \A i, j \in DOMAIN slot : Rehash(i) = Rehash(j) => i = j
<1>1. DOMAIN slot = 0..(slot_size - 1) /\ slot_size \in Nat \ {0}
  BY DEF TypeOK, TableTypes
<1>2. ASSUME NEW i \in 0..(slot_size - 1) PROVE Rehash(i) % slot_size = i
  BY <1>1, FullOfLive, TwiceHash DEF Rehash, Hash
<1>3. ASSUME NEW i \in DOMAIN slot, NEW j \in DOMAIN slot, Rehash(i) = Rehash(j) PROVE i = j
  <2>1. Rehash(i) % slot_size = i /\ Rehash(j) % slot_size = j
    BY <1>1, <1>2
  <2> QED
    BY <1>3, <2>1
<1> QED
  BY <1>3

LEMMA OneMax == ASSUME NEW i \in Nat PROVE Max({i}) = i
BY DEF Max

LEMMA Doubled ==
    ASSUME TypeOK, Placed, Living, Settled, Full
    PROVE  /\ Expand \in [0..(2 * slot_size - 1) -> Ctx \cup {Null}]
           /\ \A k \in 0..(2 * slot_size - 1) : Expand[k] # Null =>
                 Expand[k] \in live /\ handle[Expand[k]] % (2 * slot_size) = k
           /\ \A c \in live : Expand[handle[c] % (2 * slot_size)] = c
           /\ \E k \in 0..(2 * slot_size - 1) : Expand[k] = Null
<1> DEFINE s == slot_size
           From(k) == {i \in DOMAIN slot : Rehash(i) = k}
<1>1. DOMAIN slot = 0..(s - 1) /\ s \in Nat \ {0}
  BY DEF TypeOK, TableTypes
<1> HIDE DEF s
<1>2. \A i \in 0..(s - 1) : /\ slot[i] \in Ctx /\ slot[i] \in live /\ handle[slot[i]] \in Nat
                            /\ handle[slot[i]] % s = i /\ Rehash(i) = handle[slot[i]] % (2 * s)
  BY FullOfLive DEF s, Hash, Rehash
<1>3. ASSUME NEW i \in 0..(s - 1) PROVE Rehash(i) \in 0..(2 * s - 1) /\ Rehash(i) % s = i
  <2>1. PICK h \in Nat : h = handle[slot[i]] /\ h % s = i /\ Rehash(i) = h % (2 * s)
    BY <1>2
  <2> QED
    BY <1>1, <2>1, TwiceHash
<1>5. Expand = [k \in 0..(2 * s - 1) |-> IF From(k) = {} THEN Null ELSE slot[Max(From(k))]]
  BY DEF Expand, s
<1>6. ASSUME NEW i \in 0..(s - 1) PROVE Expand[Rehash(i)] = slot[i]
  <2>1. From(Rehash(i)) = {i}
    BY <1>1, RehashApart
  <2>2. Max({i}) = i
    BY OneMax
  <2>3. From(Rehash(i)) # {} /\ Max(From(Rehash(i))) = i
    BY <2>1, <2>2
  <2> HIDE DEF From
  <2> QED
    BY <1>3, <1>5, <2>3
<1>7. ASSUME NEW k \in 0..(2 * s - 1)
      PROVE  Expand[k] = Null \/ \E i \in 0..(s - 1) : Rehash(i) = k /\ Expand[k] = slot[i]
  <2>1. CASE From(k) = {}
    BY <1>5, <2>1
  <2>2. CASE From(k) # {}
    <3>1. PICK i \in 0..(s - 1) : Rehash(i) = k
      BY <1>1, <2>2
    <3> QED
      BY <3>1, <1>6
  <2> QED
    BY <2>1, <2>2
<1>8. Expand \in [0..(2 * s - 1) -> Ctx \cup {Null}]
  <2>1. \A k \in 0..(2 * s - 1) : Expand[k] \in Ctx \cup {Null}
    BY <1>2, <1>7
  <2> HIDE DEF From
  <2> QED
    BY <1>5, <2>1
<1>9. ASSUME NEW k \in 0..(2 * s - 1), Expand[k] # Null
      PROVE  Expand[k] \in live /\ handle[Expand[k]] % (2 * s) = k
  BY <1>2, <1>7, <1>9
<1>10. ASSUME NEW c \in live PROVE Expand[handle[c] % (2 * s)] = c
  <2>1. slot[Hash(handle[c])] = c /\ handle[c] \in Nat
    BY HandleNat DEF Living, TypeOK, ContextTypes
  <2>2. PICK i \in 0..(s - 1) : slot[i] = c
    BY <2>1, HashIn DEF s, TypeOK
  <2> QED
    BY <2>2, <1>2, <1>6
<1>11. \E k \in 0..(2 * s - 1) : Expand[k] = Null
  <2>1. 0 \in 0..(s - 1)
    BY <1>1
  <2>2. PICK x : x = Rehash(0)
    OBVIOUS
  <2>3. x \in 0..(2 * s - 1) /\ x % s = 0
    BY <1>3, <2>1, <2>2
  <2>4. x = 0 \/ x = s
    <3>1. x % s = IF x < s THEN x ELSE x - s
      BY <2>3, <1>1, TwiceHash
    <3> QED
      BY <3>1, <2>3, <1>1
  <2>5. PICK k \in 0..(2 * s - 1) : k # x /\ k % s = 0
    <3>1. 0 \in 0..(2 * s - 1) /\ s \in 0..(2 * s - 1) /\ 0 # s /\ 0 % s = 0 /\ s % s = 0
      BY <1>1, TwiceHash
    <3> QED
      BY <2>4, <3>1
  <2>6. \A i \in 0..(s - 1) : Rehash(i) # k
    BY <2>2, <2>5, <1>3
  <2> QED
    BY <2>6, <1>7
<1> QED
  BY <1>8, <1>9, <1>10, <1>11 DEF s

\* What skynet_handle_register leaves: the contexts where they belong in a table of either
\* size, and the new one in a free slot.
Belongs(tbl, size, i) ==
    \/ tbl[i] \in live /\ handle[tbl[i]] % size = i
    \/ \E u \in Launcher : launching[u].ctx = tbl[i] /\ launching[u].handle % size = i
Holds(tbl, size) ==
    /\ \A i \in 0..(size - 1) : tbl[i] # Null => Belongs(tbl, size, i)
    /\ \A d \in live : tbl[handle[d] % size] = d
    /\ \A u \in Launcher : launching[u].ctx # Null => tbl[launching[u].handle % size] = launching[u].ctx
Fits(size) == size \in Nat \ {0} /\ \E k \in Nat : size * 2^k = MASK + 1

LEMMA Tables ==
    ASSUME Inv, Full => Settled /\ ExpandAsserts, NEW tbl, NEW size,
           tbl = (IF Full THEN Expand ELSE slot), size = (IF Full THEN 2 * slot_size ELSE slot_size)
    PROVE  /\ Fits(size) /\ tbl \in [0..(size - 1) -> Ctx \cup {Null}] /\ Holds(tbl, size)
           /\ \E j \in 0..(size - 1) : tbl[j] = Null
           /\ \A x \in Nat : x % size >= x % slot_size /\ (x % size < slot_size => x % size = x % slot_size)
           /\ size >= slot_size
<1>1. slot_size \in Nat \ {0} /\ slot \in [0..(slot_size - 1) -> Ctx \cup {Null}]
  BY DEF Inv, TypeOK, TableTypes
<1>2. CASE ~Full
  <2>1. tbl = slot /\ size = slot_size
    BY <1>2
  <2>2. Holds(slot, slot_size)
    BY <1>1 DEF Inv, Placed, Living, Launching, LaunchedBy, Hash, Holds, Belongs
  <2>3. \E j \in 0..(slot_size - 1) : slot[j] = Null
    BY <1>1, <1>2 DEF Full, Range
  <2>4. Fits(slot_size)
    BY <1>1 DEF Inv, Sized, Fits
  <2>5. \A x \in Nat : x % slot_size >= x % slot_size
    <3> TAKE x \in Nat
    <3>1. x % slot_size \in 0..(slot_size - 1)
      BY <1>1, DivMod
    <3> QED
      BY <3>1
  <2>6. slot_size >= slot_size
    BY <1>1
  <2> QED
    BY <1>1, <2>1, <2>2, <2>3, <2>4, <2>5, <2>6
<1>3. CASE Full
  <2>1. tbl = Expand /\ size = 2 * slot_size /\ Settled /\ ExpandAsserts
    BY <1>3
  <2>2. TypeOK /\ Placed /\ Living
    BY DEF Inv
  <2>3. /\ Expand \in [0..(2 * slot_size - 1) -> Ctx \cup {Null}]
        /\ \A k \in 0..(2 * slot_size - 1) : Expand[k] # Null =>
              Expand[k] \in live /\ handle[Expand[k]] % (2 * slot_size) = k
        /\ \A c \in live : Expand[handle[c] % (2 * slot_size)] = c
        /\ \E k \in 0..(2 * slot_size - 1) : Expand[k] = Null
    BY <1>3, <2>1, <2>2, Doubled
  <2>4. Holds(tbl, size)
    BY <2>1, <2>3 DEF Holds, Belongs, Settled
  <2>5. Fits(size)
    <3>1. PICK k \in Nat : slot_size * 2^k = MASK + 1
      BY DEF Inv, Sized
    <3>2. 2 * slot_size - 1 <= MASK
      BY <2>1 DEF ExpandAsserts
    <3>3. k # 0
      <4>1. 2^0 = 1
        OBVIOUS
      <4>2. slot_size * 1 = slot_size /\ MASK \in Nat
        BY <1>1, Constants
      <4>3. slot_size # MASK + 1
        BY <4>2, <3>2, <1>1
      <4> QED
        BY <3>1, <4>1, <4>2, <4>3
    <3>4. PICK j \in Nat : k = j + 1
      <4>1. k - 1 \in Nat /\ k = (k - 1) + 1
        BY <3>3
      <4> QED
        BY <4>1
    <3>5. 2^k = 2 * 2^j /\ 2^j \in Nat
      BY <3>4, Pow
    <3>6. PICK p \in Nat : p = 2^j
      BY <3>5
    <3>7. slot_size * (2 * p) = MASK + 1
      BY <3>1, <3>5, <3>6
    <3>8. (2 * slot_size) * p = MASK + 1
      BY <3>7, <1>1
    <3> QED
      BY <1>1, <2>1, <3>6, <3>8 DEF Fits
  <2>6. ASSUME NEW x \in Nat
        PROVE  x % (2 * slot_size) >= x % slot_size
               /\ (x % (2 * slot_size) < slot_size => x % (2 * slot_size) = x % slot_size)
    <3>1. PICK y : y = x % (2 * slot_size)
      OBVIOUS
    <3>2. y \in 0..(2 * slot_size - 1) /\ y % slot_size = x % slot_size
          /\ y % slot_size = IF y < slot_size THEN y ELSE y - slot_size
      BY <1>1, <3>1, TwiceHash
    <3> QED
      BY <3>1, <3>2, <1>1
  <2>7. 2 * slot_size >= slot_size
    BY <1>1
  <2> QED
    BY <2>1, <2>3, <2>4, <2>5, <2>6, <2>7
<1> QED
  BY <1>2, <1>3

LEMMA RegisterFacts ==
    ASSUME Inv, NEW t \in Launcher, NEW c \in Ctx, Register(t, c), Doubling
    PROVE  \E h \in Handle :
             /\ Fits(slot_size') /\ slot_size' >= slot_size
             /\ \A x \in Nat : /\ x % slot_size' >= x % slot_size
                               /\ x % slot_size' < slot_size => x % slot_size' = x % slot_size
             /\ handle_index' = h + 1
             /\ launching' = [launching EXCEPT ![t] = [ctx |-> c, handle |-> h]]
             /\ \E tbl \in [0..(slot_size' - 1) -> Ctx \cup {Null}] :
                   /\ Holds(tbl, slot_size') /\ tbl[h % slot_size'] = Null
                   /\ slot' = [tbl EXCEPT ![h % slot_size'] = c]
<1> DEFINE tbl == IF Full THEN Expand ELSE slot
           size == IF Full THEN 2 * slot_size ELSE slot_size
           h == FreeHandle(tbl, size)
<1>1. /\ Full => ExpandAsserts
      /\ slot' = [tbl EXCEPT ![h % size] = c] /\ slot_size' = size /\ handle_index' = h + 1
      /\ launching' = [launching EXCEPT ![t] = [ctx |-> c, handle |-> h]]
  BY DEF Register
<1>2. Full => Settled
  <2>1. slot_size \in Nat \ {0}
    BY DEF Inv, TypeOK, TableTypes
  <2>2. 2 * slot_size # slot_size
    BY <2>1
  <2> QED
    BY <1>1, <2>2 DEF Doubling
<1>3. PICK T, S : T = tbl /\ S = size
  OBVIOUS
<1>4. /\ Fits(S) /\ T \in [0..(S - 1) -> Ctx \cup {Null}] /\ Holds(T, S)
      /\ \E j \in 0..(S - 1) : T[j] = Null
      /\ \A x \in Nat : x % S >= x % slot_size /\ (x % S < slot_size => x % S = x % slot_size)
      /\ S >= slot_size
  BY <1>1, <1>2, <1>3, Tables
<1>5. PICK H : H = h
  OBVIOUS
<1>6. H \in Handle /\ T[H % S] = Null
  <2>1. PICK k \in Nat : S \in Nat \ {0} /\ S * 2^k = MASK + 1
    BY <1>4 DEF Fits
  <2>2. PICK m \in Nat \ {0} : m = 2^k
    BY Pow
  <2>3. handle_index \in Nat
    BY DEF Inv, TypeOK, TableTypes
  <2>4. PICK j \in 0..(S - 1) : T[j] = Null
    BY <1>4
  <2>5. FreeHandle(T, S) \in Handle /\ T[FreeHandle(T, S) % S] = Null
    BY <2>1, <2>2, <2>3, <2>4, FreeFound
  <2> QED
    BY <2>5, <1>3, <1>5
<1>7. /\ slot' = [T EXCEPT ![H % S] = c] /\ slot_size' = S /\ handle_index' = H + 1
      /\ launching' = [launching EXCEPT ![t] = [ctx |-> c, handle |-> H]]
  BY <1>1, <1>3, <1>5
<1> HIDE DEF tbl, size, h
<1> QED
  BY <1>4, <1>6, <1>7

LEMMA DueFacts == ASSUME Inv PROVE \A d \in due : d \in live /\ d \in Ctx /\ handle[d] \in Nat
BY HandleNat DEF Inv, TypeOK, ContextTypes

LEMMA RegisterStep ==
    ASSUME Inv, NEW t \in Launcher, NEW c \in Ctx, Register(t, c), Doubling
    PROVE  Inv'
<1>1. /\ launching[t].ctx = Null /\ c \notin Registered /\ \A u \in Launcher : launching[u].ctx # c
      /\ handle' = [handle EXCEPT ![c] = 0] /\ UNCHANGED <<name, ra, live, due>>
  BY DEF Register, MayRegister
<1>2. PICK h \in Handle :
             /\ Fits(slot_size') /\ slot_size' >= slot_size
             /\ \A x \in Nat : /\ x % slot_size' >= x % slot_size
                               /\ x % slot_size' < slot_size => x % slot_size' = x % slot_size
             /\ handle_index' = h + 1
             /\ launching' = [launching EXCEPT ![t] = [ctx |-> c, handle |-> h]]
             /\ \E tbl \in [0..(slot_size' - 1) -> Ctx \cup {Null}] :
                   /\ Holds(tbl, slot_size') /\ tbl[h % slot_size'] = Null
                   /\ slot' = [tbl EXCEPT ![h % slot_size'] = c]
  BY RegisterFacts
<1>3. PICK S : S = slot_size'
  OBVIOUS
<1>4. S \in Nat \ {0} /\ S >= slot_size /\ \E k \in Nat : S * 2^k = MASK + 1
  BY <1>2, <1>3 DEF Fits
<1>5. PICK T \in [0..(S - 1) -> Ctx \cup {Null}] :
             Holds(T, S) /\ T[h % S] = Null /\ slot' = [T EXCEPT ![h % S] = c]
  BY <1>2, <1>3
<1>6. PICK p : p = h % S
  OBVIOUS
<1>7. p \in 0..(S - 1) /\ h \in Nat
  BY <1>4, <1>6, HandleNat, DivMod
<1>8. /\ slot' \in [0..(S - 1) -> Ctx \cup {Null}] /\ slot'[p] = c /\ T[p] = Null
      /\ \A i \in 0..(S - 1) : i # p => slot'[i] = T[i]
  BY <1>5, <1>6, <1>7
<1>9. /\ launching \in [Launcher -> Launch] /\ launching' \in [Launcher -> Launch]
      /\ launching'[t].ctx = c /\ launching'[t].handle = h
      /\ \A u \in Launcher : u # t => launching'[u] = launching[u]
  <2>1. launching \in [Launcher -> Launch] /\ [ctx |-> c, handle |-> h] \in Launch
    BY DEF Inv, TypeOK, ThreadTypes, Launch
  <2> QED
    BY <1>2, <2>1
<1>10. /\ handle \in [Ctx -> Handle] /\ handle' \in [Ctx -> Handle] /\ handle'[c] = 0
       /\ \A d \in Ctx : d # c => handle'[d] = handle[d]
  BY <1>1, HandleNat DEF Inv, TypeOK, ContextTypes
<1>11. live \subseteq Ctx /\ c \notin live
  <2>1. live \subseteq Ctx
    BY DEF Inv, TypeOK, ContextTypes
  <2>2. ASSUME c \in live PROVE FALSE
    <3>1. slot[Hash(handle[c])] = c /\ handle[c] \in Nat
      BY <2>2, <1>10, HandleNat DEF Inv, Living
    <3>2. Hash(handle[c]) \in DOMAIN slot
      BY <3>1, HashIn DEF Inv, TypeOK
    <3> QED
      BY <3>1, <3>2, <1>1, Constants DEF Registered, Range
  <2> QED
    BY <2>1, <2>2
<1>12. /\ \A i \in 0..(S - 1) : T[i] # Null => Belongs(T, S, i)
       /\ \A d \in live : T[handle[d] % S] = d
       /\ \A u \in Launcher : launching[u].ctx # Null => T[launching[u].handle % S] = launching[u].ctx
  BY <1>5 DEF Holds
<1>13. \A x \in Nat : x % S \in 0..(S - 1)
  <2> TAKE x \in Nat
  <2> QED
    BY <1>4, DivMod
<1>14. TypeOK'
  <2>1. TableTypes'
    <3>1. h + 1 \in Nat /\ handle_index' = h + 1
      BY <1>2, <1>7
    <3> QED
      BY <1>3, <1>4, <1>8, <3>1 DEF TableTypes
  <2>2. ThreadTypes'
    BY <1>1, <1>9 DEF Inv, TypeOK, ThreadTypes
  <2>3. ContextTypes'
    BY <1>1, <1>10 DEF Inv, TypeOK, ContextTypes
  <2> QED
    BY <2>1, <2>2, <2>3 DEF TypeOK
<1>15. Sized'
  BY <1>3, <1>4 DEF Sized
<1>16. Placed'
  <2> SUFFICES ASSUME NEW i \in 0..(S - 1), slot'[i] # Null
               PROVE  \/ slot'[i] \in live /\ handle'[slot'[i]] % S = i
                      \/ \E u \in Launcher : launching'[u].ctx = slot'[i] /\ launching'[u].handle % S = i
    BY <1>1, <1>3, <1>8 DEF Placed, Hash
  <2>1. CASE i = p
    BY <2>1, <1>6, <1>8, <1>9
  <2>2. CASE i # p
    <3>1. slot'[i] = T[i] /\ Belongs(T, S, i)
      BY <2>2, <1>8, <1>12
    <3>2. CASE T[i] \in live /\ handle[T[i]] % S = i
      <4>1. handle'[T[i]] = handle[T[i]]
        BY <3>2, <1>10, <1>11
      <4> QED
        BY <3>1, <3>2, <4>1
    <3>3. CASE \E u \in Launcher : launching[u].ctx = T[i] /\ launching[u].handle % S = i
      <4>1. PICK u \in Launcher : launching[u].ctx = T[i] /\ launching[u].handle % S = i
        BY <3>3
      <4>2. u # t
        BY <4>1, <3>1, <1>1
      <4> QED
        BY <3>1, <4>1, <4>2, <1>9
    <3> QED
      BY <3>1, <3>2, <3>3 DEF Belongs
  <2> QED
    BY <2>1, <2>2
<1>17. Living'
  <2> SUFFICES ASSUME NEW d \in live PROVE slot'[handle'[d] % S] = d
    BY <1>1, <1>3 DEF Living, Hash
  <2>1. d \in Ctx /\ d # c /\ handle'[d] = handle[d] /\ handle[d] \in Nat
    BY <1>10, <1>11, HandleNat
  <2>2. T[handle[d] % S] = d /\ d # Null /\ handle[d] % S \in 0..(S - 1)
    BY <2>1, <1>12, <1>13, Constants
  <2>3. handle[d] % S # p
    BY <2>2, <1>8
  <2> QED
    BY <2>1, <2>2, <2>3, <1>8
<1>18. Launching'
  <2>1. LaunchedBy(t)'
    BY <1>1, <1>3, <1>6, <1>8, <1>9, <1>10, <1>11 DEF LaunchedBy, Hash
  <2>2. ASSUME NEW u \in Launcher, u # t, launching[u].ctx # Null PROVE LaunchedBy(u)'
    <3>1. PICK d : d = launching[u].ctx
      OBVIOUS
    <3>2. d \in Ctx /\ d # c /\ launching[u].handle \in Nat /\ launching'[u] = launching[u]
      BY <3>1, <2>2, <1>1, <1>9, HandleNat DEF Launch
    <3>3. d \notin live /\ handle[d] = 0 /\ \A v \in Launcher : launching[v].ctx = d => v = u
      BY <3>1, <2>2 DEF Inv, Launching, LaunchedBy
    <3>4. T[launching[u].handle % S] = d /\ launching[u].handle % S \in 0..(S - 1)
      BY <3>1, <3>2, <2>2, <1>12, <1>13
    <3>5. launching[u].handle % S # p
      BY <3>1, <3>4, <2>2, <1>8
    <3>6. slot'[launching[u].handle % S] = d
      BY <3>4, <3>5, <1>8
    <3>7. \A v \in Launcher : launching'[v].ctx = d => v = u
      BY <3>2, <3>3, <1>9
    <3>8. handle'[d] = 0
      BY <3>2, <3>3, <1>10
    <3> QED
      BY <3>1, <3>2, <3>3, <3>6, <3>7, <3>8, <1>1, <1>3 DEF LaunchedBy, Hash
  <2>3. ASSUME NEW u \in Launcher, u # t, launching[u].ctx = Null PROVE LaunchedBy(u)'
    BY <2>3, <1>9 DEF LaunchedBy
  <2> QED
    BY <2>1, <2>2, <2>3 DEF Launching
<1>19. Pass'
  <2>1. \A d \in due : /\ handle'[d] = handle[d] /\ handle[d] \in Nat
                       /\ handle[d] % S \in Nat /\ handle[d] % slot_size \in Nat
                       /\ handle[d] % S >= handle[d] % slot_size
                       /\ handle[d] % S < slot_size => handle[d] % S = handle[d] % slot_size
    <3> TAKE d \in due
    <3>1. d \in live /\ d \in Ctx /\ handle[d] \in Nat
      BY DueFacts
    <3>2. handle[d] % S \in Nat /\ handle[d] % slot_size \in Nat
      <4>1. slot_size \in Nat \ {0} /\ S \in Nat \ {0}
        BY <1>4 DEF Inv, TypeOK, TableTypes
      <4>2. PICK x \in Nat : x = handle[d]
        BY <3>1
      <4>3. x % S \in 0..(S - 1) /\ x % slot_size \in 0..(slot_size - 1)
        BY <4>1, DivMod
      <4> QED
        BY <4>1, <4>2, <4>3
    <3> QED
      BY <3>1, <3>2, <1>2, <1>3, <1>10, <1>11
  <2>2. ra.i \in Nat /\ slot_size \in Nat
    BY DEF Inv, TypeOK, TableTypes, ThreadTypes, Scan
  <2>3. Seen' = Seen /\ Seen \subseteq due
    BY <2>1, <1>1, <1>3 DEF Seen
  <2>4. ra.at \in {"scan", "retire"} => \A d \in Seen : handle'[d] % S >= ra.i
    BY <2>1, <2>2, <2>3 DEF Inv, Pass, Hash
  <2>5. ra.at = "retire" => /\ ra.handle # 0 /\ ra.i < S
                            /\ \A d \in Seen : handle'[d] % S = ra.i => handle'[d] = ra.handle
    BY <2>1, <2>2, <2>3, <1>4 DEF Inv, Pass, Hash
  <2>6. ra.at \in {"idle", "returned"} => Seen = {}
    BY DEF Inv, Pass
  <2> QED
    BY <2>3, <2>4, <2>5, <2>6, <1>1, <1>3 DEF Pass, Hash
<1> QED
  BY <1>14, <1>15, <1>16, <1>17, <1>18, <1>19 DEF Inv

\* The storing of the handle turns the context it was given for into a service.
LEMMA SetHandleStep ==
    ASSUME Inv, NEW t \in Launcher, SetHandle(t)
    PROVE  Inv'
<1>1. PICK d, h : d = launching[t].ctx /\ h = launching[t].handle
  OBVIOUS
<1>2. /\ d # Null /\ handle' = [handle EXCEPT ![d] = h]
      /\ launching' = [launching EXCEPT ![t] = [ctx |-> Null, handle |-> 0]]
      /\ live' = live \cup {d} /\ UNCHANGED <<slot, slot_size, handle_index, name, ra, due>>
  BY <1>1 DEF SetHandle
<1>3. launching \in [Launcher -> Launch] /\ d \in Ctx /\ h \in Handle
  BY <1>1, <1>2 DEF Inv, TypeOK, ThreadTypes, Launch
<1>4. /\ d \notin live /\ slot[Hash(h)] = d /\ \A u \in Launcher : launching[u].ctx = d => u = t
  BY <1>1, <1>2 DEF Inv, Launching, LaunchedBy
<1>5. /\ launching' \in [Launcher -> Launch] /\ launching'[t].ctx = Null
      /\ \A u \in Launcher : u # t => launching'[u] = launching[u]
  <2>1. [ctx |-> Null, handle |-> 0] \in Launch
    BY HandleNat DEF Launch
  <2> QED
    BY <1>2, <1>3, <2>1
<1>6. /\ handle \in [Ctx -> Handle] /\ handle' \in [Ctx -> Handle] /\ handle'[d] = h
      /\ \A c \in Ctx : c # d => handle'[c] = handle[c]
  BY <1>2, <1>3 DEF Inv, TypeOK, ContextTypes
<1>7. live \subseteq Ctx /\ due \subseteq live
  BY DEF Inv, TypeOK, ContextTypes
<1>8. TypeOK' /\ Sized'
  <2>1. TableTypes' /\ Sized'
    BY <1>2 DEF Inv, TypeOK, TableTypes, Sized
  <2>2. ThreadTypes'
    BY <1>2, <1>5 DEF Inv, TypeOK, ThreadTypes
  <2>3. ContextTypes'
    BY <1>2, <1>3, <1>6, <1>7 DEF ContextTypes
  <2> QED
    BY <2>1, <2>2, <2>3 DEF TypeOK
<1>9. Placed'
  <2> SUFFICES ASSUME NEW i \in DOMAIN slot, slot[i] # Null
               PROVE  \/ slot[i] \in live' /\ Hash(handle'[slot[i]]) = i
                      \/ \E u \in Launcher : launching'[u].ctx = slot[i] /\ Hash(launching'[u].handle) = i
    BY <1>2 DEF Placed, Hash
  <2>1. CASE slot[i] \in live /\ Hash(handle[slot[i]]) = i
    BY <2>1, <1>2, <1>4, <1>6, <1>7
  <2>2. CASE \E u \in Launcher : launching[u].ctx = slot[i] /\ Hash(launching[u].handle) = i
    <3>1. PICK u \in Launcher : launching[u].ctx = slot[i] /\ Hash(launching[u].handle) = i
      BY <2>2
    <3>2. CASE u = t
      BY <3>1, <3>2, <1>1, <1>2, <1>6
    <3>3. CASE u # t
      BY <3>1, <3>3, <1>5
    <3> QED
      BY <3>2, <3>3
  <2> QED
    BY <2>1, <2>2 DEF Inv, Placed
<1>10. Living'
  <2> SUFFICES ASSUME NEW c \in live \cup {d} PROVE slot[Hash(handle'[c])] = c
    BY <1>2 DEF Living, Hash
  <2>1. CASE c = d
    BY <2>1, <1>4, <1>6
  <2>2. CASE c # d
    BY <2>2, <1>6, <1>7 DEF Inv, Living
  <2> QED
    BY <2>1, <2>2
<1>11. Launching'
  <2> SUFFICES ASSUME NEW u \in Launcher PROVE LaunchedBy(u)'
    BY DEF Launching
  <2>1. CASE u = t \/ launching[u].ctx = Null
    BY <2>1, <1>5 DEF LaunchedBy
  <2>2. CASE u # t /\ launching[u].ctx # Null
    <3>1. PICK c : c = launching[u].ctx
      OBVIOUS
    <3>2. c \in Ctx /\ c # d /\ launching'[u] = launching[u]
      BY <3>1, <2>2, <1>3, <1>4, <1>5 DEF Launch
    <3>3. /\ c \notin live /\ handle[c] = 0 /\ slot[Hash(launching[u].handle)] = c
          /\ \A v \in Launcher : launching[v].ctx = c => v = u
      BY <3>1, <2>2 DEF Inv, Launching, LaunchedBy
    <3>4. handle'[c] = 0 /\ \A v \in Launcher : launching'[v].ctx = c => v = u
      BY <3>1, <3>2, <3>3, <2>2, <1>5, <1>6
    <3> QED
      BY <3>1, <3>2, <3>3, <3>4, <1>2 DEF LaunchedBy, Hash
  <2> QED
    BY <2>1, <2>2
<1>12. Pass'
  <2>1. \A c \in due : handle'[c] = handle[c]
    BY <1>4, <1>6, <1>7
  <2>2. Seen' = Seen /\ Seen \subseteq due
    BY <2>1, <1>2 DEF Seen
  <2> QED
    BY <2>1, <2>2, <1>2 DEF Inv, Pass, Hash
<1> QED
  BY <1>8, <1>9, <1>10, <1>11, <1>12 DEF Inv

\* The service found under a handle has its handle stored, unless the handle is 0.
LEMMA GrabLive ==
    ASSUME Inv, NEW h \in Handle, h # 0 \/ (\E d \in live : handle[d] = h), Grab(h) # Null
    PROVE  /\ Grab(h) \in live /\ handle[Grab(h)] = h /\ slot[Hash(h)] = Grab(h)
           /\ Hash(h) \in 0..(slot_size - 1) /\ h \in Nat
           /\ \A d \in live : d # Grab(h) => Hash(handle[d]) # Hash(h) /\ handle[d] # h
<1>1. PICK c : c = slot[Hash(h)]
  OBVIOUS
<1>2. c # Null /\ handle[c] = h /\ Grab(h) = c
  BY <1>1 DEF Grab, Hash
<1>3. h \in Nat /\ Hash(h) \in 0..(slot_size - 1) /\ DOMAIN slot = 0..(slot_size - 1)
  BY HandleNat, HashIn DEF Inv, TypeOK
<1>4. c \in live
  <2>1. CASE \E d \in live : handle[d] = h
    BY <2>1, <1>1 DEF Inv, Living
  <2>2. CASE h # 0
    <3>1. ASSUME NEW u \in Launcher, launching[u].ctx = c PROVE FALSE
      BY <3>1, <2>2, <1>2 DEF Inv, Launching, LaunchedBy
    <3> QED
      BY <3>1, <1>1, <1>2, <1>3 DEF Inv, Placed
  <2> QED
    BY <2>1, <2>2
<1>5. \A d \in live : Hash(handle[d]) = Hash(h) => d = c
  BY <1>1 DEF Inv, Living
<1> QED
  BY <1>1, <1>2, <1>3, <1>4, <1>5

\* skynet_handle_retire on a service leaves the others where they are.
LEMMA RetireTables ==
    ASSUME Inv, NEW h \in Handle, h # 0 \/ (\E d \in live : handle[d] = h), Grab(h) # Null, Retire(h),
           UNCHANGED <<slot_size, handle_index, handle, launching>>
    PROVE  /\ TableTypes' /\ ContextTypes' /\ Sized' /\ Placed' /\ Living' /\ Launching'
           /\ live' = live \ {Grab(h)} /\ due' = due \ {Grab(h)}
<1>1. PICK c, p : c = Grab(h) /\ p = Hash(h)
  OBVIOUS
<1>2. /\ c \in live /\ handle[c] = h /\ slot[p] = c /\ p \in 0..(slot_size - 1) /\ h \in Nat
      /\ \A d \in live : d # c => Hash(handle[d]) # p /\ handle[d] # h
  BY <1>1, GrabLive
<1>3. slot' = [slot EXCEPT ![p] = Null] /\ live' = live \ {c} /\ due' = due \ {c}
  BY <1>1 DEF Retire, Hash
<1>4. /\ slot_size \in Nat \ {0} /\ slot \in [0..(slot_size - 1) -> Ctx \cup {Null}]
      /\ live \subseteq Ctx /\ due \subseteq live
  BY DEF Inv, TypeOK, TableTypes, ContextTypes
<1>5. /\ slot' \in [0..(slot_size - 1) -> Ctx \cup {Null}] /\ slot'[p] = Null
      /\ \A i \in 0..(slot_size - 1) : i # p => slot'[i] = slot[i]
  BY <1>2, <1>3, <1>4
<1>6. TableTypes' /\ ContextTypes' /\ Sized'
  BY <1>3, <1>4, <1>5 DEF Inv, TypeOK, TableTypes, ContextTypes, Sized
<1>8. Placed'
  <2> SUFFICES ASSUME NEW i \in 0..(slot_size - 1), slot'[i] # Null
               PROVE  \/ slot'[i] \in live' /\ Hash(handle[slot'[i]]) = i
                      \/ \E u \in Launcher : launching[u].ctx = slot'[i] /\ Hash(launching[u].handle) = i
    BY <1>4, <1>5 DEF Placed, Hash
  <2>1. i # p /\ slot'[i] = slot[i] /\ i \in DOMAIN slot
    BY <1>4, <1>5
  <2>2. CASE slot[i] \in live /\ Hash(handle[slot[i]]) = i
    <3>1. slot[i] # c
      BY <2>1, <2>2, <1>1, <1>2
    <3> QED
      BY <2>1, <2>2, <3>1, <1>3
  <2>3. CASE \E u \in Launcher : launching[u].ctx = slot[i] /\ Hash(launching[u].handle) = i
    BY <2>1, <2>3
  <2> QED
    BY <2>1, <2>2, <2>3 DEF Inv, Placed
<1>9. Living'
  <2> SUFFICES ASSUME NEW d \in live, d # c PROVE slot'[Hash(handle[d])] = d
    BY <1>3 DEF Living, Hash
  <2>1. handle[d] \in Nat
    BY HandleNat DEF Inv, TypeOK, ContextTypes
  <2>2. Hash(handle[d]) \in 0..(slot_size - 1)
    BY <2>1, HashIn DEF Inv, TypeOK
  <2> QED
    BY <2>2, <1>2, <1>5 DEF Inv, Living
<1>10. Launching'
  <2> SUFFICES ASSUME NEW u \in Launcher, launching[u].ctx # Null PROVE LaunchedBy(u)'
    BY DEF Launching, LaunchedBy
  <2>1. LaunchedBy(u)
    BY DEF Inv, Launching
  <2>2. PICK q : q = Hash(launching[u].handle)
    OBVIOUS
  <2>3. launching[u].handle \in Nat
    BY HandleNat DEF Inv, TypeOK, ThreadTypes, Launch
  <2>4. q \in 0..(slot_size - 1)
    BY <2>2, <2>3, HashIn DEF Inv, TypeOK
  <2>5. q # p
    BY <2>1, <2>2, <1>2 DEF LaunchedBy
  <2>6. slot'[q] = launching[u].ctx
    BY <2>1, <2>2, <2>4, <2>5, <1>5 DEF LaunchedBy
  <2> QED
    BY <2>1, <2>2, <2>6, <1>3 DEF LaunchedBy, Hash
<1> QED
  BY <1>1, <1>3, <1>6, <1>8, <1>9, <1>10

\* Inv without what it says of retireall, for steps that leave the table alone.
Table == TableTypes /\ (handle \in [Ctx -> Handle] /\ live \subseteq Ctx)
         /\ launching \in [Launcher -> Launch] /\ Sized /\ Placed /\ Living /\ Launching

LEMMA TableSame ==
    ASSUME Inv, UNCHANGED <<slot, slot_size, handle_index, handle, launching, live>>
    PROVE  Table'
BY DEF Inv, TypeOK, TableTypes, ThreadTypes, ContextTypes, Sized, Placed, Living, Launching, LaunchedBy,
       Hash, Table

LEMMA Whole == ASSUME Table', ra' \in Scan, due' \subseteq live', Pass' PROVE Inv'
BY DEF Table, Inv, TypeOK, ThreadTypes, ContextTypes

\* Every service is found under its handle.
LEMMA AllFound == ASSUME Inv, NEW c \in live PROVE Grab(handle[c]) = c /\ c # Null
<1>1. c # Null
  BY Constants DEF Inv, TypeOK, ContextTypes
<1> QED
  BY <1>1 DEF Inv, Living, Grab, Hash

LEMMA HashNat == ASSUME Inv, NEW c \in live PROVE Hash(handle[c]) \in 0..(slot_size - 1) /\ handle[c] \in Nat
<1>1. handle[c] \in Nat
  BY HandleNat DEF Inv, TypeOK, ContextTypes
<1> QED
  BY <1>1, HashIn DEF Inv, TypeOK

LEMMA HandleRetireStep ==
    ASSUME Inv, NEW h \in Addressed, HandleRetire(h)
    PROVE  Inv'
<1>1. h \in Handle /\ (h # 0 \/ \E d \in live : handle[d] = h)
  BY DEF Addressed, Inv, TypeOK, ContextTypes
<1>2. Grab(h) # Null /\ Retire(h) /\ UNCHANGED <<slot_size, handle_index, handle, launching, ra>>
  BY DEF HandleRetire
<1>3. /\ TableTypes' /\ ContextTypes' /\ Sized' /\ Placed' /\ Living' /\ Launching'
      /\ live' = live \ {Grab(h)} /\ due' = due \ {Grab(h)}
  BY <1>1, <1>2, RetireTables
<1>4. ThreadTypes'
  BY <1>2 DEF Inv, TypeOK, ThreadTypes
<1>5. Pass'
  <2>1. Seen' \subseteq Seen
    BY <1>2, <1>3 DEF Seen
  <2> QED
    BY <1>2, <2>1 DEF Inv, Pass, Hash
<1> QED
  BY <1>3, <1>4, <1>5 DEF Inv, TypeOK

LEMMA RetireSlotStep ==
    ASSUME Inv, RetireSlot
    PROVE  Inv'
<1>1. /\ ra.at = "retire" /\ UNCHANGED <<slot_size, handle_index, handle, launching>>
      /\ ra' = [ra EXCEPT !.at = "scan", !.i = @ + 1,
                          !.n = IF Grab(ra.handle) # Null THEN @ + 1 ELSE @]
  BY DEF RetireSlot
<1>2. ra \in Scan /\ ra.handle \in Handle /\ ra.i \in Nat /\ ra.n \in Nat
  BY DEF Inv, TypeOK, ThreadTypes, Scan
<1>3. ra' \in Scan /\ ra'.at = "scan" /\ ra'.i = ra.i + 1
  <2>1. PICK m : m = IF Grab(ra.handle) # Null THEN ra.n + 1 ELSE ra.n
    OBVIOUS
  <2>2. m \in Nat /\ ra.i + 1 \in Nat
    BY <2>1, <1>2
  <2>3. ra' = [ra EXCEPT !.at = "scan", !.i = ra.i + 1, !.n = m]
    BY <1>1, <2>1
  <2> QED
    BY <2>2, <2>3, <1>2 DEF Scan
<1>4. /\ ra.handle # 0
      /\ \A d \in Seen : /\ Hash(handle[d]) >= ra.i
                         /\ Hash(handle[d]) = ra.i => handle[d] = ra.handle
  BY <1>1 DEF Inv, Pass
<1>5. due \subseteq live /\ Seen \subseteq live
  BY DEF Inv, TypeOK, ContextTypes, Seen
<1>6. ASSUME NEW d \in Seen, d # Grab(ra.handle) PROVE Hash(handle[d]) >= ra.i + 1
  <2>1. Hash(handle[d]) \in Nat /\ Grab(handle[d]) = d
    BY <1>5, HashNat, AllFound DEF Inv, TypeOK, TableTypes
  <2>2. handle[d] # ra.handle
    BY <2>1, <1>6
  <2> QED
    BY <2>1, <2>2, <1>2, <1>4
<1>7. CASE Grab(ra.handle) # Null
  <2>1. Retire(ra.handle)
    BY <1>7 DEF RetireSlot
  <2>2. /\ TableTypes' /\ ContextTypes' /\ Sized' /\ Placed' /\ Living' /\ Launching'
        /\ live' = live \ {Grab(ra.handle)} /\ due' = due \ {Grab(ra.handle)}
    BY <2>1, <1>1, <1>2, <1>4, <1>7, RetireTables
  <2>3. ThreadTypes'
    BY <1>1, <1>3 DEF Inv, TypeOK, ThreadTypes
  <2>5. Seen' = Seen \ {Grab(ra.handle)}
    BY <2>2, <1>1 DEF Seen
  <2>4. Pass'
    BY <2>5, <1>1, <1>3, <1>4, <1>6 DEF Pass, Hash
  <2> QED
    BY <2>2, <2>3, <2>4 DEF Inv, TypeOK
<1>8. CASE Grab(ra.handle) = Null
  <2>1. UNCHANGED <<slot, name, live, due>>
    BY <1>8 DEF RetireSlot
  <2>2. \A d \in Seen : d # Grab(ra.handle)
    BY <1>5, <1>8, AllFound
  <2>4. Seen' = Seen
    BY <2>1, <1>1 DEF Seen
  <2>3. Pass'
    BY <2>1, <2>2, <2>4, <1>1, <1>3, <1>4, <1>6 DEF Pass, Hash
  <2> QED
    BY <2>1, <2>3, <1>1, <1>3, <1>5, TableSame, Whole
<1> QED
  BY <1>7, <1>8

LEMMA BeginPassStep == ASSUME Inv, BeginPass PROVE Inv'
<1>1. /\ ra' = [at |-> "scan", i |-> 0, n |-> 0, handle |-> 0]
      /\ due' = live
      /\ UNCHANGED <<slot, slot_size, handle_index, handle, name, launching, live>>
  BY DEF BeginPass
<1>2. ra' \in Scan /\ ra'.at = "scan" /\ ra'.i = 0
  BY <1>1, HandleNat DEF Scan
<1>3. \A c \in live : Hash(handle[c]) >= 0
  BY HashNat
<1>4. Pass'
  <2>1. Seen' \subseteq live
    BY <1>1 DEF Seen
  <2> QED
    BY <1>1, <1>2, <1>3, <2>1 DEF Pass, Hash
<1> QED
  BY <1>1, <1>2, <1>4, TableSame, Whole

LEMMA ReturnStep == ASSUME Inv, Return PROVE Inv'
<1>1. /\ ra.at = "scan" /\ ra.i >= slot_size /\ ra' = [ra EXCEPT !.at = "returned"]
      /\ UNCHANGED <<slot, slot_size, handle_index, handle, name, launching, live, due>>
  BY DEF Return
<1>2. ra' \in Scan /\ ra'.at = "returned" /\ ra.i \in Nat /\ due \subseteq live /\ slot_size \in Nat
  BY <1>1 DEF Inv, TypeOK, ThreadTypes, ContextTypes, TableTypes, Scan
<1>3. ASSUME NEW c \in Seen PROVE FALSE
  <2>1. Hash(handle[c]) \in 0..(slot_size - 1)
    BY <1>2, HashNat DEF Seen
  <2>2. Hash(handle[c]) >= ra.i
    BY <1>1 DEF Inv, Pass
  <2> QED
    BY <2>1, <2>2, <1>1, <1>2
<1>4. Pass'
  <2>1. Seen' = {}
    BY <1>1, <1>3 DEF Seen
  <2> QED
    BY <1>2, <2>1 DEF Pass
<1> QED
  BY <1>1, <1>2, <1>3, <1>4, TableSame, Whole

LEMMA ReadSlotStep == ASSUME Inv, ReadSlot PROVE Inv'
<1>1. PICK c : c = slot[ra.i]
  OBVIOUS
<1>2. PICK h : h = IF c = Null THEN 0 ELSE handle[c]
  OBVIOUS
<1>3. /\ ra.at = "scan" /\ ra.i < slot_size
      /\ ra' = IF h = 0 THEN [ra EXCEPT !.i = @ + 1] ELSE [ra EXCEPT !.at = "retire", !.handle = h]
      /\ UNCHANGED <<slot, slot_size, handle_index, handle, name, launching, live, due>>
  BY <1>1, <1>2 DEF ReadSlot
<1>4. /\ ra \in Scan /\ ra.i \in Nat /\ slot_size \in Nat /\ due \subseteq live /\ Seen \subseteq live
      /\ slot \in [0..(slot_size - 1) -> Ctx \cup {Null}] /\ handle \in [Ctx -> Handle]
  BY DEF Inv, TypeOK, ThreadTypes, ContextTypes, TableTypes, Scan, Seen
<1>5. h \in Handle
  <2>1. c \in Ctx \cup {Null}
    BY <1>1, <1>3, <1>4
  <2> QED
    BY <2>1, <1>2, <1>4, HandleNat
<1>6. /\ \A d \in Seen : handle[d] # 0 /\ Hash(handle[d]) >= ra.i
      /\ Seen' = Seen
  BY <1>3 DEF Inv, Pass, Seen
<1>7. ASSUME NEW d \in Seen, Hash(handle[d]) = ra.i PROVE handle[d] = h
  <2>1. slot[ra.i] = d
    BY <1>4, <1>7 DEF Inv, Living
  <2>2. d # Null
    BY <1>4, AllFound
  <2> QED
    BY <2>1, <2>2, <1>1, <1>2
<1>8. \A d \in Seen : Hash(handle[d]) \in Nat
  BY <1>4, HashNat
<1>9. CASE h = 0
  <2>1. ra' \in Scan /\ ra'.at = "scan" /\ ra'.i = ra.i + 1
    BY <1>3, <1>4, <1>9 DEF Scan
  <2>2. \A d \in Seen : Hash(handle[d]) >= ra.i + 1
    BY <1>4, <1>6, <1>7, <1>8, <1>9
  <2>3. Pass'
    BY <2>1, <2>2, <1>3, <1>6 DEF Pass, Hash
  <2> QED
    BY <2>1, <2>3, <1>3, <1>4, TableSame, Whole
<1>10. CASE h # 0
  <2>1. ra' \in Scan /\ ra'.at = "retire" /\ ra'.i = ra.i /\ ra'.handle = h
    BY <1>3, <1>4, <1>5, <1>10 DEF Scan
  <2>2. Pass'
    BY <2>1, <1>3, <1>6, <1>7, <1>10 DEF Pass, Hash
  <2> QED
    BY <2>1, <2>2, <1>3, <1>4, TableSame, Whole
<1> QED
  BY <1>9, <1>10

LEMMA InitInv == Init => Inv
<1> SUFFICES ASSUME Init PROVE Inv
  OBVIOUS
<1>1. /\ slot = [i \in 0..(SLOT_SIZE - 1) |-> Null] /\ slot_size = SLOT_SIZE /\ SLOT_SIZE \in Nat \ {0}
      /\ handle_index = 1 /\ handle = [c \in Ctx |-> 0] /\ live = {} /\ due = {}
      /\ launching = [t \in Launcher |-> [ctx |-> Null, handle |-> 0]]
      /\ ra = [at |-> "idle", i |-> 0, n |-> 0, handle |-> 0]
  BY Constants DEF Init
<1>2. TableTypes
  BY <1>1 DEF TableTypes
<1>3. ThreadTypes /\ ContextTypes
  BY <1>1, HandleNat DEF ThreadTypes, ContextTypes, Launch, Scan
<1>4. Sized
  BY <1>1, Constants DEF Sized
<1>5. Placed /\ Living
  BY <1>1 DEF Placed, Living
<1>6. Launching
  BY <1>1 DEF Launching, LaunchedBy
<1>7. Pass
  BY <1>1 DEF Pass, Seen
<1> QED
  BY <1>2, <1>3, <1>4, <1>5, <1>6, <1>7 DEF Inv, TypeOK

LEMMA StepInv == ASSUME Inv, [Next /\ Doubling]_vars PROVE Inv'
<1>1. ASSUME NEW t \in Launcher, NEW c \in Ctx, Register(t, c), Doubling PROVE Inv'
  BY <1>1, RegisterStep
<1>2. ASSUME NEW t \in Launcher, SetHandle(t) PROVE Inv'
  BY <1>2, SetHandleStep
<1>3. ASSUME NEW h \in Addressed, HandleRetire(h) PROVE Inv'
  BY <1>3, HandleRetireStep
<1>4. ASSUME NEW h \in Addressed, NEW n \in Name, NameHandle(h, n) PROVE Inv'
  <2>1. UNCHANGED <<slot, slot_size, handle_index, handle, launching, ra, live, due>>
    BY <1>4 DEF NameHandle
  <2>2. ra' \in Scan /\ due' \subseteq live' /\ Pass'
    BY <2>1 DEF Inv, TypeOK, ThreadTypes, ContextTypes, Pass, Seen, Hash
  <2> QED
    BY <2>1, <2>2, TableSame, Whole
<1>5. CASE RetireAll \/ NextPass
  BY <1>5, BeginPassStep DEF RetireAll, NextPass
<1>6. CASE Return
  BY <1>6, ReturnStep
<1>7. CASE ReadSlot
  BY <1>7, ReadSlotStep
<1>8. CASE RetireSlot
  BY <1>8, RetireSlotStep
<1>9. CASE UNCHANGED vars
  <2>1. UNCHANGED <<slot, slot_size, handle_index, handle, launching, ra, live, due>>
    BY <1>9 DEF vars
  <2>2. ra' \in Scan /\ due' \subseteq live' /\ Pass'
    BY <2>1 DEF Inv, TypeOK, ThreadTypes, ContextTypes, Pass, Seen, Hash
  <2> QED
    BY <2>1, <2>2, TableSame, Whole
<1> QED
  BY <1>1, <1>2, <1>3, <1>4, <1>5, <1>6, <1>7, <1>8, <1>9 DEF Next
-----------------------------------------------------------------------------
\* The table is consistent, and retireall's scan behind nothing it has still to retire, as long
\* as no doubling meets a context whose handle is not stored.
THEOREM Consistent == Spec /\ [][Doubling]_vars => []Inv
<1>1. Init => Inv
  BY InitInv
<1>2. Inv /\ [Next]_vars /\ [Doubling]_vars => Inv'
  <2> SUFFICES ASSUME Inv, [Next]_vars, [Doubling]_vars PROVE Inv'
    OBVIOUS
  <2>1. [Next /\ Doubling]_vars
    OBVIOUS
  <2> QED
    BY <2>1, StepInv
<1> QED
  BY <1>1, <1>2, PTL DEF Spec

\* Every service launched and not retired is found under its handle (skynet_handle_grab),
\* across expansions and after the numbers have started again.
THEOREM ServicesFound == Spec /\ [][Doubling]_vars => []Findable
<1>1. Inv => Findable
  BY AllFound DEF Findable
<1> QED
  BY <1>1, Consistent, PTL

\* When skynet_handle_retireall returns, no service that was there when its last pass began
\* is left, but for one that was given handle 0, which the scan does not see.
THEOREM AllRetired == Spec /\ [][Doubling]_vars => []RetireAllComplete
<1>1. Inv => RetireAllComplete
  BY DEF Inv, Pass, Seen, RetireAllComplete
<1> QED
  BY <1>1, Consistent, PTL
-----------------------------------------------------------------------------
Entry == [name : Name, handle : Handle]

\* The names are in order, each once.
Sorted == name \in Seq(Entry) /\ \A i, j \in 1..Len(name) : i < j => name[i].name < name[j].name

\* What the loop of the search has found when it ends, from the window w.
Windows == (0..Len(name)) \X (-1..(Len(name) - 1))
NameAt(i) == name[i + 1].name
Right(n, w, r) ==
    \/ /\ r.found /\ r.at \in w[1]..w[2] /\ NameAt(r.at) = n
       /\ r = [found |-> TRUE, at |-> r.at]
    \/ /\ ~r.found /\ r.at \in w[1]..(w[2] + 1) /\ r = [found |-> FALSE, at |-> r.at]
       /\ \A i \in w[1]..w[2] : (i < r.at => NameAt(i) < n) /\ (i >= r.at => n < NameAt(i))

LEMMA NamesInt ==
    ASSUME Sorted
    PROVE  /\ Len(name) \in Nat
           /\ \A i \in 0..(Len(name) - 1) : NameAt(i) \in Nat /\ i + 1 \in 1..Len(name) /\ name[i + 1] \in Entry
           /\ \A i, j \in 0..(Len(name) - 1) : i < j => NameAt(i) < NameAt(j)
<1>1. Len(name) \in Nat
  BY DEF Sorted
<1>2. ASSUME NEW i \in 0..(Len(name) - 1) PROVE i + 1 \in 1..Len(name) /\ name[i + 1] \in Entry /\ NameAt(i) \in Nat
  <2>1. i + 1 \in 1..Len(name)
    BY <1>1
  <2>2. name[i + 1] \in Entry
    BY <2>1 DEF Sorted
  <2> QED
    BY <2>1, <2>2, Constants DEF Entry, NameAt
<1>3. ASSUME NEW i \in 0..(Len(name) - 1), NEW j \in 0..(Len(name) - 1), i < j PROVE NameAt(i) < NameAt(j)
  <2>1. i + 1 \in 1..Len(name) /\ j + 1 \in 1..Len(name) /\ i + 1 < j + 1
    BY <1>1, <1>3
  <2> QED
    BY <2>1 DEF Sorted, NameAt
<1> QED
  BY <1>1, <1>2, <1>3

\* One step of the loop of the search.
Halved(n, f, w) ==
    LET mid == (w[1] + w[2]) \div 2
    IN  IF w[1] > w[2] THEN [found |-> FALSE, at |-> w[1]]
        ELSE IF name[mid + 1].name = n THEN [found |-> TRUE, at |-> mid]
        ELSE IF name[mid + 1].name < n THEN f[<<mid + 1, w[2]>>]
        ELSE f[<<w[1], mid - 1>>]

LEMMA Unfold ==
    ASSUME NEW n, NEW g, g = [w \in Windows |-> Halved(n, g, w)]
    PROVE  \E f : f = [w \in Windows |-> Halved(n, f, w)] /\ BinarySearch(n) = f[<<0, Len(name) - 1>>]
<1> DEFINE f == CHOOSE f : f = [w \in Windows |-> Halved(n, f, w)]
<1>1. f = [w \in Windows |-> Halved(n, f, w)]
  OBVIOUS
<1>2. BinarySearch(n) = f[<<0, Len(name) - 1>>]
  BY DEF BinarySearch, Halved, Windows
<1> QED
  BY <1>1, <1>2

LEMMA Window ==
    ASSUME Sorted, NEW b \in 0..Len(name), NEW e \in -1..(Len(name) - 1)
    PROVE  /\ Len(name) \in Nat
           /\ \A i \in b..e : NameAt(i) \in Nat
           /\ \A i, j \in b..e : i < j => NameAt(i) < NameAt(j)
<1>1. Len(name) \in Nat
  BY NamesInt
<1>2. \A i \in b..e : i \in 0..(Len(name) - 1)
  BY <1>1
<1> QED
  BY <1>1, <1>2, NamesInt

LEMMA RightUnique ==
    ASSUME Sorted, NEW n \in Nat, NEW b \in 0..Len(name), NEW e \in -1..(Len(name) - 1),
           NEW r, NEW s, Right(n, <<b, e>>, r), Right(n, <<b, e>>, s)
    PROVE  r = s
<1>1. /\ Len(name) \in Nat
      /\ \A i \in b..e : NameAt(i) \in Nat
      /\ \A i, j \in b..e : i < j => NameAt(i) < NameAt(j)
  BY Window
<1>2. <<b, e>>[1] = b /\ <<b, e>>[2] = e
  OBVIOUS
<1>3. /\ r.at \in b..(e + 1) /\ (r.found => r.at \in b..e /\ NameAt(r.at) = n /\ r = [found |-> TRUE, at |-> r.at])
      /\ ~r.found => /\ r = [found |-> FALSE, at |-> r.at]
                     /\ \A i \in b..e : (i < r.at => NameAt(i) < n) /\ (i >= r.at => n < NameAt(i))
  BY <1>2 DEF Right
<1>4. /\ s.at \in b..(e + 1) /\ (s.found => s.at \in b..e /\ NameAt(s.at) = n /\ s = [found |-> TRUE, at |-> s.at])
      /\ ~s.found => /\ s = [found |-> FALSE, at |-> s.at]
                     /\ \A i \in b..e : (i < s.at => NameAt(i) < n) /\ (i >= s.at => n < NameAt(i))
  BY <1>2 DEF Right
<1>5. CASE r.found /\ s.found
  <2>1. r.at = s.at
    BY <1>1, <1>3, <1>4, <1>5
  <2> QED
    BY <2>1, <1>3, <1>4, <1>5
<1>6. CASE r.found /\ ~s.found
  BY <1>1, <1>3, <1>4, <1>6
<1>7. CASE ~r.found /\ s.found
  BY <1>1, <1>3, <1>4, <1>7
<1>8. CASE ~r.found /\ ~s.found
  <2>1. ~(r.at < s.at)
    <3> SUFFICES ASSUME r.at < s.at PROVE FALSE
      OBVIOUS
    <3>1. PICK i \in b..e : i = r.at
      BY <1>1, <1>3, <1>4
    <3>2. NameAt(i) < n /\ n < NameAt(i) /\ NameAt(i) \in Nat
      BY <3>1, <1>1, <1>3, <1>4, <1>8
    <3> QED
      BY <3>2
  <2>2. ~(s.at < r.at)
    <3> SUFFICES ASSUME s.at < r.at PROVE FALSE
      OBVIOUS
    <3>1. PICK i \in b..e : i = s.at
      BY <1>1, <1>3, <1>4
    <3>2. NameAt(i) < n /\ n < NameAt(i) /\ NameAt(i) \in Nat
      BY <3>1, <1>1, <1>3, <1>4, <1>8
    <3> QED
      BY <3>2
  <2>3. r.at = s.at
    BY <2>1, <2>2, <1>1, <1>3, <1>4
  <2> QED
    BY <2>3, <1>3, <1>4, <1>8
<1> QED
  BY <1>5, <1>6, <1>7, <1>8

LEMMA RightExists ==
    ASSUME Sorted, NEW n \in Nat, NEW b \in 0..Len(name), NEW e \in -1..(Len(name) - 1), b <= e + 1
    PROVE  \E r : Right(n, <<b, e>>, r)
<1>1. /\ Len(name) \in Nat
      /\ \A i \in b..e : NameAt(i) \in Nat
      /\ \A i, j \in b..e : i < j => NameAt(i) < NameAt(j)
  BY Window
<1>2. <<b, e>>[1] = b /\ <<b, e>>[2] = e
  OBVIOUS
<1>3. CASE \E i \in b..e : NameAt(i) = n
  <2>1. PICK i \in b..e : NameAt(i) = n
    BY <1>3
  <2>2. Right(n, <<b, e>>, [found |-> TRUE, at |-> i])
    BY <2>1, <1>2 DEF Right
  <2> QED
    BY <2>2
<1>4. CASE \A i \in b..e : NameAt(i) # n
  <2> DEFINE S == {j \in b..(e + 1) : \A i \in b..e : i >= j => n < NameAt(i)}
  <2>1. e + 1 \in S /\ S \subseteq Nat
    BY <1>1
  <2>2. PICK j \in S : \A k \in S : j <= k
    <3> HIDE DEF S
    <3> QED
      BY <2>1, Least
  <2>3. j \in b..(e + 1) /\ \A i \in b..e : i >= j => n < NameAt(i)
    OBVIOUS
  <2>4. ASSUME NEW i \in b..e, i < j PROVE NameAt(i) < n
    <3> SUFFICES ASSUME ~(NameAt(i) < n) PROVE FALSE
      OBVIOUS
    <3>1. n < NameAt(i)
      BY <1>1, <1>4
    <3>2. \A k \in b..e : k >= i => n < NameAt(k)
      <4> SUFFICES ASSUME NEW k \in b..e, k >= i PROVE n < NameAt(k)
        OBVIOUS
      <4>1. CASE k = i
        BY <4>1, <3>1
      <4>2. CASE i < k
        <5>1. NameAt(i) < NameAt(k) /\ NameAt(i) \in Nat /\ NameAt(k) \in Nat
          BY <4>2, <1>1
        <5> QED
          BY <5>1, <3>1
      <4> QED
        BY <4>1, <4>2, <1>1
    <3>3. i \in S
      BY <3>2
    <3>4. j <= i
      BY <3>3, <2>2
    <3> QED
      BY <3>4, <2>3, <2>4
  <2>5. Right(n, <<b, e>>, [found |-> FALSE, at |-> j])
    BY <2>3, <2>4, <1>2 DEF Right
  <2> QED
    BY <2>5
<1> QED
  BY <1>3, <1>4

\* Halving the window keeps the search right.
LEMMA HalvedRight ==
    ASSUME Sorted, NEW n \in Nat, NEW f, NEW b \in 0..Len(name), NEW e \in -1..(Len(name) - 1), b <= e + 1,
           \A c \in 0..Len(name), d \in -1..(Len(name) - 1) :
              c <= d + 1 /\ d - c < e - b => Right(n, <<c, d>>, f[<<c, d>>])
    PROVE  Right(n, <<b, e>>, Halved(n, f, <<b, e>>))
<1>1. /\ Len(name) \in Nat
      /\ \A i \in b..e : NameAt(i) \in Nat
      /\ \A i, j \in b..e : i < j => NameAt(i) < NameAt(j)
  BY Window
<1>2. \A x, y : <<x, y>>[1] = x /\ <<x, y>>[2] = y
  OBVIOUS
<1>3. CASE b > e
  <2>1. Halved(n, f, <<b, e>>) = [found |-> FALSE, at |-> b]
    BY <1>2, <1>3 DEF Halved
  <2>2. Right(n, <<b, e>>, [found |-> FALSE, at |-> b])
    BY <1>1, <1>2, <1>3 DEF Right
  <2> QED
    BY <2>1, <2>2
<1>4. CASE b <= e
  <2>1. PICK m \in b..e : m = (b + e) \div 2
    BY <1>1, <1>4
  <2>2. Halved(n, f, <<b, e>>) = IF NameAt(m) = n THEN [found |-> TRUE, at |-> m]
                                 ELSE IF NameAt(m) < n THEN f[<<m + 1, e>>] ELSE f[<<b, m - 1>>]
    <3>1. ~(b > e)
      BY <1>1, <1>4
    <3> QED
      BY <3>1, <2>1, <1>2 DEF Halved, NameAt
  <2>3. NameAt(m) \in Nat
    BY <1>1
  <2>4. CASE NameAt(m) = n
    <3>1. Right(n, <<b, e>>, [found |-> TRUE, at |-> m])
      BY <2>4, <1>2 DEF Right
    <3> QED
      BY <3>1, <2>2, <2>4
  <2>5. CASE NameAt(m) < n
    <3>1. PICK r : r = f[<<m + 1, e>>]
      OBVIOUS
    <3>2. m + 1 \in 0..Len(name) /\ m + 1 <= e + 1 /\ e - (m + 1) < e - b
      BY <1>1
    <3> SUFFICES Right(n, <<b, e>>, r)
      BY <3>1, <2>2, <2>3, <2>5
    <3>3. Right(n, <<m + 1, e>>, r)
      BY <3>1, <3>2
    <3>4. /\ r.at \in (m + 1)..(e + 1)
          /\ r.found => r.at \in (m + 1)..e /\ NameAt(r.at) = n /\ r = [found |-> TRUE, at |-> r.at]
          /\ ~r.found => /\ r = [found |-> FALSE, at |-> r.at]
                         /\ \A i \in (m + 1)..e : (i < r.at => NameAt(i) < n) /\ (i >= r.at => n < NameAt(i))
      BY <3>3, <1>2 DEF Right
    <3>5. \A i \in b..m : NameAt(i) < n
      <4> SUFFICES ASSUME NEW i \in b..m PROVE NameAt(i) < n
        OBVIOUS
      <4>1. i = m \/ (NameAt(i) < NameAt(m) /\ NameAt(i) \in Nat)
        BY <1>1
      <4> QED
        BY <4>1, <2>3, <2>5
    <3>6. CASE r.found
      <4>1. r.at \in b..e
        BY <3>4, <3>6, <1>1
      <4> QED
        BY <4>1, <3>4, <3>6, <1>2 DEF Right
    <3>7. CASE ~r.found
      <4>1. r.at \in b..(e + 1)
        BY <3>4, <1>1
      <4>2. \A i \in b..e : (i < r.at => NameAt(i) < n) /\ (i >= r.at => n < NameAt(i))
        <5> SUFFICES ASSUME NEW i \in b..e
                     PROVE  (i < r.at => NameAt(i) < n) /\ (i >= r.at => n < NameAt(i))
          OBVIOUS
        <5>1. CASE i \in b..m
          <6>1. NameAt(i) < n
            BY <5>1, <3>5
          <6>2. ~(i >= r.at)
            BY <5>1, <3>4
          <6> QED
            BY <6>1, <6>2
        <5>2. CASE i \in (m + 1)..e
          BY <5>2, <3>4, <3>7
        <5> QED
          BY <5>1, <5>2, <1>1
      <4> QED
        BY <4>1, <4>2, <3>4, <3>7, <1>2 DEF Right
    <3> QED
      BY <3>6, <3>7
  <2>6. CASE NameAt(m) > n
    <3>1. PICK r : r = f[<<b, m - 1>>]
      OBVIOUS
    <3>2. m - 1 \in -1..(Len(name) - 1) /\ b <= (m - 1) + 1 /\ (m - 1) - b < e - b
      BY <1>1
    <3> SUFFICES Right(n, <<b, e>>, r)
      BY <3>1, <2>2, <2>3, <2>6
    <3>3. Right(n, <<b, m - 1>>, r)
      BY <3>1, <3>2
    <3>4. /\ r.at \in b..m
          /\ r.found => r.at \in b..(m - 1) /\ NameAt(r.at) = n /\ r = [found |-> TRUE, at |-> r.at]
          /\ ~r.found => /\ r = [found |-> FALSE, at |-> r.at]
                         /\ \A i \in b..(m - 1) : (i < r.at => NameAt(i) < n) /\ (i >= r.at => n < NameAt(i))
      BY <3>3, <1>1, <1>2 DEF Right
    <3>5. \A i \in m..e : n < NameAt(i)
      <4> SUFFICES ASSUME NEW i \in m..e PROVE n < NameAt(i)
        OBVIOUS
      <4>1. i = m \/ (NameAt(m) < NameAt(i) /\ NameAt(i) \in Nat)
        BY <1>1
      <4> QED
        BY <4>1, <2>3, <2>6
    <3>6. CASE r.found
      <4>1. r.at \in b..e
        BY <3>4, <3>6, <1>1
      <4> QED
        BY <4>1, <3>4, <3>6, <1>2 DEF Right
    <3>7. CASE ~r.found
      <4>1. r.at \in b..(e + 1)
        BY <3>4, <1>1
      <4>2. \A i \in b..e : (i < r.at => NameAt(i) < n) /\ (i >= r.at => n < NameAt(i))
        <5> SUFFICES ASSUME NEW i \in b..e
                     PROVE  (i < r.at => NameAt(i) < n) /\ (i >= r.at => n < NameAt(i))
          OBVIOUS
        <5>1. CASE i \in m..e
          BY <5>1, <3>4, <3>5, <1>1
        <5>2. CASE i \in b..(m - 1)
          BY <5>2, <3>4, <3>7
        <5> QED
          BY <5>1, <5>2, <1>1
      <4> QED
        BY <4>1, <4>2, <3>4, <3>7, <1>2 DEF Right
    <3> QED
      BY <3>6, <3>7
  <2> QED
    BY <2>3, <2>4, <2>5, <2>6
<1> QED
  BY <1>1, <1>3, <1>4

\* The search has a meaning: some function is what its loop computes.
LEMMA SearchExists ==
    ASSUME Sorted, NEW n \in Nat
    PROVE  \E g : g = [w \in Windows |-> Halved(n, g, w)]
<1> DEFINE G(w) == IF w[1] > w[2] THEN [found |-> FALSE, at |-> w[1]] ELSE CHOOSE r : Right(n, w, r)
           g == [w \in Windows |-> G(w)]
<1>1. Len(name) \in Nat
  BY NamesInt
<1>2. \A x, y : <<x, y>>[1] = x /\ <<x, y>>[2] = y
  OBVIOUS
<1>3. ASSUME NEW c \in 0..Len(name), NEW d \in -1..(Len(name) - 1), c <= d + 1
      PROVE  Right(n, <<c, d>>, g[<<c, d>>])
  <2>1. <<c, d>> \in Windows /\ g[<<c, d>>] = G(<<c, d>>)
    BY DEF Windows
  <2>2. CASE c > d
    <3>1. g[<<c, d>>] = [found |-> FALSE, at |-> c]
      BY <2>1, <2>2, <1>2
    <3>2. Right(n, <<c, d>>, [found |-> FALSE, at |-> c])
      BY <1>1, <1>2, <1>3, <2>2 DEF Right
    <3> QED
      BY <3>1, <3>2
  <2>3. CASE ~(c > d)
    <3>1. g[<<c, d>>] = CHOOSE r : Right(n, <<c, d>>, r)
      BY <2>1, <2>3, <1>2
    <3>2. \E r : Right(n, <<c, d>>, r)
      BY <1>3, RightExists
    <3> QED
      BY <3>1, <3>2
  <2> QED
    BY <2>2, <2>3
<1>4. ASSUME NEW w \in Windows PROVE g[w] = Halved(n, g, w)
  <2>1. PICK b \in 0..Len(name), e \in -1..(Len(name) - 1) : w = <<b, e>>
    BY DEF Windows
  <2>2. g[w] = G(w)
    OBVIOUS
  <2>3. CASE b > e
    BY <2>1, <2>2, <2>3, <1>2 DEF Halved
  <2>4. CASE b <= e
    <3>1. b <= e + 1
      BY <2>4, <1>1
    <3>2. Right(n, <<b, e>>, g[<<b, e>>])
      BY <3>1, <1>3
    <3> HIDE DEF g
    <3>3. \A c \in 0..Len(name), d \in -1..(Len(name) - 1) :
            c <= d + 1 /\ d - c < e - b => Right(n, <<c, d>>, g[<<c, d>>])
      BY <1>3
    <3>4. Right(n, <<b, e>>, Halved(n, g, <<b, e>>))
      BY <3>1, <3>3, HalvedRight
    <3> QED
      BY <2>1, <3>2, <3>4, RightUnique
  <2> QED
    BY <2>3, <2>4, <1>1
<1>5. g = [w \in Windows |-> Halved(n, g, w)]
  <2>1. g = [w \in Windows |-> g[w]]
    OBVIOUS
  <2> HIDE DEF g
  <2> QED
    BY <2>1, <1>4
<1> QED
  BY <1>5

\* The binary search of findname and _insert_name finds the name, or where it belongs.
LEMMA SearchRight ==
    ASSUME Sorted, NEW n \in Nat
    PROVE  Right(n, <<0, Len(name) - 1>>, BinarySearch(n))
<1>1. PICK g : g = [w \in Windows |-> Halved(n, g, w)]
  BY SearchExists
<1>2. PICK f : f = [w \in Windows |-> Halved(n, f, w)] /\ BinarySearch(n) = f[<<0, Len(name) - 1>>]
  BY <1>1, Unfold
<1>3. Len(name) \in Nat
  BY NamesInt
<1>4. \A c \in 0..Len(name), d \in -1..(Len(name) - 1) : f[<<c, d>>] = Halved(n, f, <<c, d>>)
  <2> SUFFICES ASSUME NEW c \in 0..Len(name), NEW d \in -1..(Len(name) - 1)
               PROVE  f[<<c, d>>] = Halved(n, f, <<c, d>>)
    OBVIOUS
  <2>1. <<c, d>> \in Windows
    BY DEF Windows
  <2>2. PICK h : h = [w \in Windows |-> Halved(n, f, w)]
    OBVIOUS
  <2>3. h[<<c, d>>] = Halved(n, f, <<c, d>>)
    BY <2>1, <2>2
  <2> QED
    BY <2>2, <2>3, <1>2
<1> DEFINE Wrong(c, d) == c <= d + 1 /\ ~Right(n, <<c, d>>, f[<<c, d>>])
           Bad == {k \in Nat : \E c \in 0..Len(name), d \in -1..(Len(name) - 1) : k = d - c + 1 /\ Wrong(c, d)}
<1>5. Bad = {}
  <2> SUFFICES ASSUME Bad # {} PROVE FALSE
    OBVIOUS
  <2>1. PICK k \in Bad : \A j \in Bad : k <= j
    BY Least
  <2>2. PICK b \in 0..Len(name), e \in -1..(Len(name) - 1) : k = e - b + 1 /\ Wrong(b, e)
    OBVIOUS
  <2>3. ASSUME NEW c \in 0..Len(name), NEW d \in -1..(Len(name) - 1), c <= d + 1, d - c < e - b
        PROVE  Right(n, <<c, d>>, f[<<c, d>>])
    <3> SUFFICES ASSUME ~Right(n, <<c, d>>, f[<<c, d>>]) PROVE FALSE
      OBVIOUS
    <3>1. Wrong(c, d)
      BY <2>3
    <3>2. PICK j \in Nat : j = d - c + 1
      BY <2>3, <1>3
    <3>3. j \in Bad
      BY <3>1, <3>2
    <3>4. k <= j
      BY <3>3, <2>1
    <3> QED
      BY <3>2, <3>4, <2>2, <2>3, <1>3
  <2>4. b <= e + 1
    BY <2>2
  <2>5. Right(n, <<b, e>>, Halved(n, f, <<b, e>>))
    BY <2>3, <2>4, HalvedRight
  <2> QED
    BY <2>2, <2>5, <1>4
<1>6. 0 \in 0..Len(name) /\ Len(name) - 1 \in -1..(Len(name) - 1) /\ 0 <= (Len(name) - 1) + 1
      /\ (Len(name) - 1) - 0 + 1 \in Nat
  BY <1>3
<1>7. ~Wrong(0, Len(name) - 1)
  BY <1>5, <1>6
<1> QED
  BY <1>2, <1>6, <1>7

\* What the names say, and what skynet_handle_findname returns.
Lookup == \A n \in Name :
    /\ \A i \in 1..Len(name) : name[i].name = n => findname(n) = name[i].handle
    /\ findname(n) # 0 => \E i \in 1..Len(name) : name[i].name = n /\ name[i].handle = findname(n)

LEMMA LookupRight == Sorted => Lookup
<1> SUFFICES ASSUME Sorted, NEW n \in Name
             PROVE  /\ \A i \in 1..Len(name) : name[i].name = n => findname(n) = name[i].handle
                    /\ findname(n) # 0 => \E i \in 1..Len(name) : name[i].name = n /\ name[i].handle = findname(n)
  BY DEF Lookup
<1>1. PICK r : r = BinarySearch(n)
  OBVIOUS
<1>2. n \in Nat /\ Len(name) \in Nat
  BY NamesInt, Constants
<1>3. Right(n, <<0, Len(name) - 1>>, r)
  BY <1>1, <1>2, SearchRight
<1>4. findname(n) = IF r.found THEN name[r.at + 1].handle ELSE 0
  BY <1>1 DEF findname
<1>5. <<0, Len(name) - 1>>[1] = 0 /\ <<0, Len(name) - 1>>[2] = Len(name) - 1
  OBVIOUS
<1>6. CASE r.found
  <2>1. r.at \in 0..(Len(name) - 1) /\ NameAt(r.at) = n
    BY <1>3, <1>5, <1>6 DEF Right
  <2>2. PICK k \in 1..Len(name) : k = r.at + 1 /\ name[k].name = n
    BY <2>1, <1>2 DEF NameAt
  <2>3. ASSUME NEW i \in 1..Len(name), name[i].name = n PROVE i = k
    <3>1. ~(i < k) /\ ~(k < i)
      BY <2>2, <2>3, <1>2 DEF Sorted
    <3> QED
      BY <3>1, <1>2
  <2> QED
    BY <2>2, <2>3, <1>4, <1>6
<1>7. CASE ~r.found
  <2>1. \A i \in 0..(Len(name) - 1) : (i < r.at => NameAt(i) < n) /\ (i >= r.at => n < NameAt(i))
    BY <1>3, <1>5, <1>7 DEF Right
  <2>2. r.at \in 0..((Len(name) - 1) + 1)
    BY <1>3, <1>5, <1>7 DEF Right
  <2>3. \A i \in 1..Len(name) : name[i].name # n
    <3> SUFFICES ASSUME NEW i \in 1..Len(name), name[i].name = n PROVE FALSE
      OBVIOUS
    <3>1. PICK j \in 0..(Len(name) - 1) : i = j + 1
      <4>1. i - 1 \in 0..(Len(name) - 1) /\ i = (i - 1) + 1
        BY <1>2
      <4> QED
        BY <4>1
    <3>2. NameAt(j) = n
      BY <3>1 DEF NameAt
    <3>3. j < r.at \/ j >= r.at
      BY <2>2, <1>2
    <3> QED
      BY <3>2, <3>3, <2>1, <1>2
  <2> QED
    BY <2>3, <1>4, <1>7
<1> QED
  BY <1>6, <1>7

\* Step i of the loop of skynet_handle_retire over the names.
KeptStep(h, f, i) == IF i = 0 THEN <<>>
                     ELSE IF name[i].handle = h THEN f[i - 1] ELSE Append(f[i - 1], name[i])

LEMMA KeptExists ==
    ASSUME NEW h, NEW l \in Nat
    PROVE  \E f : f = [i \in 0..l |-> KeptStep(h, f, i)]
<1> DEFINE Bad == {k \in Nat : ~\E f : f = [i \in 0..k |-> KeptStep(h, f, i)]}
<1> SUFFICES ASSUME Bad # {} PROVE FALSE
  OBVIOUS
<1>1. PICK k \in Bad : \A j \in Bad : k <= j
  BY Least
<1>2. k \in Nat /\ ~\E f : f = [i \in 0..k |-> KeptStep(h, f, i)]
  OBVIOUS
<1>3. k # 0
  <2>1. PICK f : f = [i \in 0..0 |-> <<>>]
    OBVIOUS
  <2>2. \A i \in 0..0 : KeptStep(h, f, i) = <<>>
    BY DEF KeptStep
  <2>3. f = [i \in 0..0 |-> KeptStep(h, f, i)]
    BY <2>1, <2>2
  <2> QED
    BY <1>2, <2>3
<1>4. PICK j \in Nat : k = j + 1
  <2>1. k - 1 \in Nat /\ k = (k - 1) + 1
    BY <1>2, <1>3
  <2> QED
    BY <2>1
<1>5. PICK g : g = [i \in 0..j |-> KeptStep(h, g, i)]
  <2>1. ~(k <= j)
    BY <1>4
  <2> QED
    BY <1>1, <2>1
<1>6. PICK f : f = [i \in 0..k |-> IF i <= j THEN g[i] ELSE KeptStep(h, g, k)]
  OBVIOUS
<1>7. \A i \in 0..j : g[i] = KeptStep(h, g, i)
  <2>1. PICK u : u = [i \in 0..j |-> KeptStep(h, g, i)]
    OBVIOUS
  <2>2. \A i \in 0..j : u[i] = KeptStep(h, g, i)
    BY <2>1
  <2> QED
    BY <2>1, <2>2, <1>5
<1>8. \A i \in 0..j : f[i] = g[i]
  BY <1>4, <1>6
<1>9. ASSUME NEW i \in 0..k PROVE f[i] = KeptStep(h, f, i)
  <2>1. KeptStep(h, f, i) = KeptStep(h, g, i)
    <3>1. CASE i = 0
      BY <3>1 DEF KeptStep
    <3>2. CASE i # 0
      <4>1. i - 1 \in 0..j
        BY <3>2, <1>4
      <4>2. f[i - 1] = g[i - 1]
        BY <4>1, <1>8
      <4> QED
        BY <4>2 DEF KeptStep
    <3> QED
      BY <3>1, <3>2
  <2>2. CASE i <= j
    <3>1. i \in 0..j
      BY <2>2, <1>4
    <3> QED
      BY <2>1, <3>1, <1>7, <1>8
  <2>3. CASE i = k
    BY <2>1, <2>3, <1>4, <1>6
  <2> QED
    BY <2>2, <2>3, <1>4
<1>10. f = [i \in 0..k |-> KeptStep(h, f, i)]
  <2>1. f = [i \in 0..k |-> f[i]]
    BY <1>6
  <2> QED
    BY <2>1, <1>9
<1> QED
  BY <1>2, <1>10

\* s holds the first i names of other handles than h, in their order.
Compacted(h, i, s) ==
    /\ s \in Seq(Entry)
    /\ \A a, b \in 1..Len(s) : a < b => s[a].name < s[b].name
    /\ \A a \in 1..Len(s) : \E j \in 1..i : s[a] = name[j] /\ name[j].handle # h
    /\ \A j \in 1..i : name[j].handle # h => \E a \in 1..Len(s) : s[a] = name[j]

LEMMA CompactedNext ==
    ASSUME Sorted, NEW h, NEW i \in 1..Len(name), NEW s, Compacted(h, i - 1, s)
    PROVE  Compacted(h, i, IF name[i].handle = h THEN s ELSE Append(s, name[i]))
<1>1. Len(name) \in Nat /\ i \in Nat /\ name[i] \in Entry /\ \A j \in 1..(i - 1) : j \in 1..i /\ j \in 1..Len(name)
  BY DEF Sorted
<1>2. \A j \in 1..i : j = i \/ j \in 1..(i - 1)
  BY <1>1
<1>3. CASE name[i].handle = h
  BY <1>1, <1>2, <1>3 DEF Compacted
<1>4. CASE name[i].handle # h
  <2>1. PICK q : q = Append(s, name[i])
    OBVIOUS
  <2>2. s \in Seq(Entry) /\ Len(s) \in Nat
    BY DEF Compacted
  <2>3. /\ q \in Seq(Entry) /\ Len(q) = Len(s) + 1 /\ q[Len(s) + 1] = name[i]
        /\ \A a \in 1..Len(s) : q[a] = s[a]
    BY <2>1, <2>2, <1>1
  <2>4. \A a \in 1..Len(q) : a = Len(s) + 1 \/ a \in 1..Len(s)
    BY <2>2, <2>3
  <2>5. ASSUME NEW a \in 1..Len(s) PROVE \E j \in 1..(i - 1) : s[a] = name[j] /\ name[j].handle # h
    BY DEF Compacted
  <2>6. ASSUME NEW a \in 1..Len(q), NEW b \in 1..Len(q), a < b PROVE q[a].name < q[b].name
    <3>1. a \in 1..Len(s)
      BY <2>2, <2>3, <2>6
    <3>2. CASE b \in 1..Len(s)
      BY <3>1, <3>2, <2>3, <2>6 DEF Compacted
    <3>3. CASE b = Len(s) + 1
      <4>1. PICK j \in 1..(i - 1) : s[a] = name[j]
        BY <3>1, <2>5
      <4>2. name[j].name < name[i].name
        BY <1>1 DEF Sorted
      <4> QED
        BY <4>1, <4>2, <3>1, <3>3, <2>3
    <3> QED
      BY <3>2, <3>3, <2>4
  <2>7. \A a \in 1..Len(q) : \E j \in 1..i : q[a] = name[j] /\ name[j].handle # h
    <3> SUFFICES ASSUME NEW a \in 1..Len(q) PROVE \E j \in 1..i : q[a] = name[j] /\ name[j].handle # h
      OBVIOUS
    <3>1. CASE a = Len(s) + 1
      BY <3>1, <2>3, <1>4, <1>1
    <3>2. CASE a \in 1..Len(s)
      BY <3>2, <2>3, <2>5, <1>1
    <3> QED
      BY <3>1, <3>2, <2>4
  <2>8. \A j \in 1..i : name[j].handle # h => \E a \in 1..Len(q) : q[a] = name[j]
    <3> SUFFICES ASSUME NEW j \in 1..i, name[j].handle # h PROVE \E a \in 1..Len(q) : q[a] = name[j]
      OBVIOUS
    <3>1. CASE j = i
      <4>1. Len(s) + 1 \in 1..Len(q)
        BY <2>2, <2>3
      <4> QED
        BY <4>1, <3>1, <2>3
    <3>2. CASE j \in 1..(i - 1)
      <4>1. PICK a \in 1..Len(s) : s[a] = name[j]
        BY <3>2 DEF Compacted
      <4>2. a \in 1..Len(q)
        BY <2>2, <2>3
      <4> QED
        BY <4>1, <4>2, <2>3
    <3> QED
      BY <3>1, <3>2, <1>2
  <2>9. Compacted(h, i, q)
    BY <2>3, <2>6, <2>7, <2>8 DEF Compacted
  <2> QED
    BY <2>1, <2>9, <1>4
<1> QED
  BY <1>3, <1>4

LEMMA KeptIs ==
    ASSUME Sorted, NEW h
    PROVE  Compacted(h, Len(name), Kept(h))
<1>1. PICK l \in Nat : l = Len(name)
  BY DEF Sorted
<1>2. PICK f : f = [i \in 0..l |-> KeptStep(h, f, i)] /\ Kept(h) = f[l]
  <2> DEFINE f == CHOOSE f : f = [i \in 0..l |-> KeptStep(h, f, i)]
  <2>1. f = [i \in 0..l |-> KeptStep(h, f, i)]
    BY KeptExists
  <2>2. Kept(h) = f[l]
    BY <1>1 DEF Kept, KeptStep
  <2> QED
    BY <2>1, <2>2
<1>3. \A i \in 0..l : f[i] = KeptStep(h, f, i)
  <2>1. PICK u : u = [i \in 0..l |-> KeptStep(h, f, i)]
    OBVIOUS
  <2>2. \A i \in 0..l : u[i] = KeptStep(h, f, i)
    BY <2>1
  <2> QED
    BY <2>1, <2>2, <1>2
<1> DEFINE Bad == {i \in 0..l : ~Compacted(h, i, f[i])}
<1>4. Bad = {}
  <2> SUFFICES ASSUME Bad # {} PROVE FALSE
    OBVIOUS
  <2>1. Bad \subseteq Nat
    OBVIOUS
  <2>2. PICK i \in Bad : \A j \in Bad : i <= j
    <3> HIDE DEF Bad
    <3> QED
      BY <2>1, Least
  <2>3. i \in 0..l /\ ~Compacted(h, i, f[i])
    OBVIOUS
  <2>4. i # 0
    <3>1. f[0] = <<>>
      BY <1>3 DEF KeptStep
    <3>2. Compacted(h, 0, <<>>)
      BY DEF Compacted
    <3> QED
      BY <3>1, <3>2, <2>3
  <2>5. i - 1 \in 0..l /\ ~(i <= i - 1) /\ i \in 1..Len(name)
    BY <2>3, <2>4, <1>1
  <2>6. Compacted(h, i - 1, f[i - 1])
    BY <2>2, <2>5
  <2>7. f[i] = IF name[i].handle = h THEN f[i - 1] ELSE Append(f[i - 1], name[i])
    BY <2>3, <2>4, <1>3 DEF KeptStep
  <2>8. PICK s : s = f[i - 1]
    OBVIOUS
  <2>9. Compacted(h, i, IF name[i].handle = h THEN s ELSE Append(s, name[i]))
    BY <2>5, <2>6, <2>8, CompactedNext
  <2> QED
    BY <2>3, <2>7, <2>8, <2>9
<1> QED
  BY <1>1, <1>2, <1>4

LEMMA InsertIs ==
    ASSUME NEW S, NEW s \in Seq(S), NEW x \in S, NEW p \in 0..Len(s)
    PROVE  /\ InsertAt(s, p + 1, x) \in Seq(S) /\ Len(InsertAt(s, p + 1, x)) = Len(s) + 1
           /\ \A i \in 1..(Len(s) + 1) : InsertAt(s, p + 1, x)[i] =
                 IF i <= p THEN s[i] ELSE IF i = p + 1 THEN x ELSE s[i - 1]
<1>1. PICK u, v : u = SubSeq(s, 1, p) /\ v = SubSeq(s, p + 1, Len(s))
  OBVIOUS
<1>2. Len(s) \in Nat /\ p \in Nat /\ (p + 1) - 1 = p
  OBVIOUS
<1>3. u \in Seq(S) /\ Len(u) = p /\ \A i \in 1..p : u[i] = s[i]
  BY <1>1, <1>2
<1>4. v \in Seq(S) /\ Len(v) = Len(s) - p /\ \A i \in 1..(Len(s) - p) : v[i] = s[p + i]
  BY <1>1, <1>2
<1>5. InsertAt(s, p + 1, x) = (u \o <<x>>) \o v
  BY <1>1, <1>2 DEF InsertAt
<1>6. PICK q : q = u \o <<x>>
  OBVIOUS
<1>7. q \in Seq(S) /\ Len(q) = p + 1 /\ q[p + 1] = x /\ \A i \in 1..p : q[i] = s[i]
  <2>1. PICK y : y = <<x>>
    OBVIOUS
  <2>2. y \in Seq(S) /\ Len(y) = 1 /\ y[1] = x
    BY <2>1
  <2>3. q = u \o y
    BY <2>1, <1>6
  <2>4. u \o y \in Seq(S) /\ Len(u \o y) = Len(u) + Len(y)
    BY <2>2, <1>3, ConcatProperties
  <2>5. \A i \in 1..(Len(u) + Len(y)) : (u \o y)[i] = IF i <= Len(u) THEN u[i] ELSE y[i - Len(u)]
    BY <2>2, <1>3, ConcatProperties
  <2>6. \A i \in 1..(p + 1) : q[i] = IF i <= p THEN u[i] ELSE y[i - p]
    BY <2>2, <2>3, <2>5, <1>3
  <2>7. q[p + 1] = y[(p + 1) - p] /\ (p + 1) - p = 1
    BY <2>6, <1>2
  <2>8. \A i \in 1..p : q[i] = u[i]
    BY <2>6, <1>2
  <2> QED
    BY <2>2, <2>3, <2>4, <2>7, <2>8, <1>3
<1>8. PICK t : t = q \o v
  OBVIOUS
<1>9. t \in Seq(S) /\ Len(t) = Len(s) + 1
  <2>1. Len(q) + Len(v) = Len(s) + 1
    BY <1>2, <1>4, <1>7
  <2>2. q \in Seq(S) /\ v \in Seq(S)
    BY <1>4, <1>7
  <2>3. q \o v \in Seq(S) /\ Len(q \o v) = Len(q) + Len(v)
    BY <2>2, ConcatProperties
  <2> QED
    BY <2>1, <2>3, <1>8
<1>10. \A i \in 1..(Len(s) + 1) : t[i] = IF i <= p + 1 THEN q[i] ELSE v[i - (p + 1)]
  <2>1. Len(q) + Len(v) = Len(s) + 1
    BY <1>2, <1>4, <1>7
  <2>2. q \in Seq(S) /\ v \in Seq(S)
    BY <1>4, <1>7
  <2>3. \A i \in 1..(Len(q) + Len(v)) : (q \o v)[i] = IF i <= Len(q) THEN q[i] ELSE v[i - Len(q)]
    BY <2>2, ConcatProperties
  <2> QED
    BY <2>1, <2>3, <1>7, <1>8
<1>11. ASSUME NEW i \in 1..(Len(s) + 1) PROVE t[i] = IF i <= p THEN s[i] ELSE IF i = p + 1 THEN x ELSE s[i - 1]
  <2>1. CASE i <= p
    BY <2>1, <1>2, <1>7, <1>10
  <2>2. CASE i = p + 1
    BY <2>2, <1>2, <1>7, <1>10
  <2>3. CASE i > p + 1
    <3>1. t[i] = v[i - (p + 1)] /\ i - (p + 1) \in 1..(Len(s) - p)
      BY <2>3, <1>2, <1>10
    <3>2. p + (i - (p + 1)) = i - 1
      BY <1>2
    <3>3. v[i - (p + 1)] = s[p + (i - (p + 1))]
      BY <3>1, <1>4
    <3> QED
      BY <3>1, <3>2, <3>3, <2>3, <1>2
  <2> QED
    BY <2>1, <2>2, <2>3, <1>2
<1>12. InsertAt(s, p + 1, x) = t
  BY <1>5, <1>6, <1>8, Zenon
<1> QED
  BY <1>9, <1>11, <1>12

\* A service is retired: by EXIT, by KILL, or in retireall's pass.
Retired(h) ==
    /\ h \in Handle /\ (h # 0 \/ \E d \in live : handle[d] = h)
    /\ Grab(h) # Null /\ Retire(h) /\ UNCHANGED <<slot_size, handle_index, handle, launching>>

LEMMA NameSteps ==
    ASSUME Inv, [Next /\ Doubling]_vars
    PROVE  \/ name' = name /\ live \subseteq live' /\ \A d \in live : handle'[d] = handle[d]
           \/ \E h : Retired(h)
           \/ \E h \in Handle, n \in Name : NameHandle(h, n)
<1>1. ASSUME NEW t \in Launcher, NEW c \in Ctx, Register(t, c)
      PROVE  name' = name /\ live \subseteq live' /\ \A d \in live : handle'[d] = handle[d]
  <2>1. name' = name /\ live' = live /\ handle' = [handle EXCEPT ![c] = 0] /\ c \notin Registered
    BY <1>1 DEF Register, MayRegister
  <2>2. ASSUME NEW d \in live PROVE handle'[d] = handle[d]
    <3>1. slot[Hash(handle[d])] = d /\ d # Null /\ Hash(handle[d]) \in 0..(slot_size - 1)
      BY AllFound, HashNat DEF Inv, Living
    <3>2. Hash(handle[d]) \in DOMAIN slot
      BY <3>1 DEF Inv, TypeOK, TableTypes
    <3>3. d \in Registered
      BY <3>1, <3>2 DEF Registered, Range
    <3> QED
      BY <2>1, <3>3 DEF Inv, TypeOK, ContextTypes
  <2> QED
    BY <2>1, <2>2
<1>2. ASSUME NEW t \in Launcher, SetHandle(t)
      PROVE  name' = name /\ live \subseteq live' /\ \A d \in live : handle'[d] = handle[d]
  <2>1. PICK c : c = launching[t].ctx
    OBVIOUS
  <2>2. /\ name' = name /\ live' = live \cup {c} /\ handle' = [handle EXCEPT ![c] = launching[t].handle]
        /\ c # Null
    BY <1>2, <2>1 DEF SetHandle
  <2>3. c \notin live
    BY <2>1, <2>2 DEF Inv, Launching, LaunchedBy
  <2> QED
    BY <2>2, <2>3 DEF Inv, TypeOK, ContextTypes
<1>3. ASSUME NEW h \in Addressed, HandleRetire(h) PROVE Retired(h)
  <2>1. h \in Handle /\ (h # 0 \/ \E d \in live : handle[d] = h)
    BY DEF Addressed, Inv, TypeOK, ContextTypes
  <2> QED
    BY <2>1, <1>3 DEF HandleRetire, Retired
<1>4. ASSUME NEW h \in Addressed, NEW n \in Name, NameHandle(h, n) PROVE h \in Handle
  BY DEF Addressed, Inv, TypeOK, ContextTypes
<1>5. ASSUME RetireSlot, Grab(ra.handle) # Null PROVE Retired(ra.handle)
  <2>1. /\ ra.at = "retire" /\ UNCHANGED <<slot_size, handle_index, handle, launching>>
        /\ Retire(ra.handle)
    BY <1>5 DEF RetireSlot
  <2>2. ra.handle \in Handle /\ ra.handle # 0
    BY <2>1 DEF Inv, TypeOK, ThreadTypes, Scan, Pass
  <2> QED
    BY <2>1, <2>2, <1>5 DEF Retired
<1>6. ASSUME RetireSlot, Grab(ra.handle) = Null PROVE name' = name /\ live' = live /\ handle' = handle
  BY <1>6 DEF RetireSlot
<1>7. CASE RetireAll \/ NextPass \/ Return \/ ReadSlot \/ UNCHANGED vars
  <2>1. name' = name /\ live' = live /\ handle' = handle
    BY <1>7 DEF RetireAll, NextPass, Return, ReadSlot, BeginPass, vars
  <2> QED
    BY <2>1
<1> QED
  BY <1>1, <1>2, <1>3, <1>4, <1>5, <1>6, <1>7 DEF Next

\* Retiring takes the entries of its handle out and keeps the others, in order.
LEMMA RetireNames ==
    ASSUME Sorted, NEW h, Retire(h)
    PROVE  /\ Sorted'
           /\ \A a \in 1..Len(name') : \E j \in 1..Len(name) : name'[a] = name[j] /\ name[j].handle # h
           /\ \A j \in 1..Len(name) : name[j].handle # h => \E a \in 1..Len(name') : name'[a] = name[j]
<1>1. PICK s : s = Kept(h)
  OBVIOUS
<1>2. Compacted(h, Len(name), s)
  BY <1>1, KeptIs
<1>3. name' = s
  BY <1>1 DEF Retire
<1> QED
  BY <1>2, <1>3 DEF Compacted, Sorted, Entry, Handle

\* Naming a service puts one entry where the search ended, and keeps the others.
LEMMA InsertNames ==
    ASSUME Sorted, NEW h \in Handle, NEW n \in Name, NameHandle(h, n)
    PROVE  /\ Sorted'
           /\ \A j \in 1..Len(name) : \E a \in 1..Len(name') : name'[a] = name[j]
<1>1. PICK r : r = BinarySearch(n)
  OBVIOUS
<1>2. n \in Nat
  BY Constants
<1>3. PICK l \in Nat : l = Len(name)
  BY DEF Sorted
<1>4. PICK w : w = <<0, l - 1>>
  OBVIOUS
<1>5. w[1] = 0 /\ w[2] = l - 1 /\ (l - 1) + 1 = l
  BY <1>4
<1>6. Right(n, w, r)
  BY <1>1, <1>2, <1>3, <1>4, SearchRight
<1>7. ~r.found
  BY <1>1 DEF NameHandle
<1>8. PICK p : p = r.at
  OBVIOUS
<1>9. p \in 0..l /\ \A i \in 0..(l - 1) : (i < p => NameAt(i) < n) /\ (i >= p => n < NameAt(i))
  BY <1>5, <1>6, <1>7, <1>8 DEF Right
<1>10. PICK x : x = [name |-> n, handle |-> h]
  OBVIOUS
<1>11. x \in Entry /\ x.name = n
  BY <1>10 DEF Entry
<1>12. name' = InsertAt(name, p + 1, x)
  BY <1>1, <1>8, <1>10 DEF NameHandle
<1>13. PICK t : t = InsertAt(name, p + 1, x)
  OBVIOUS
<1>14. /\ t \in Seq(Entry) /\ Len(t) = l + 1
       /\ \A i \in 1..(l + 1) : t[i] = IF i <= p THEN name[i] ELSE IF i = p + 1 THEN x ELSE name[i - 1]
  <2>1. name \in Seq(Entry) /\ p \in 0..Len(name)
    BY <1>3, <1>9 DEF Sorted
  <2>2. /\ InsertAt(name, p + 1, x) \in Seq(Entry) /\ Len(InsertAt(name, p + 1, x)) = Len(name) + 1
        /\ \A i \in 1..(Len(name) + 1) : InsertAt(name, p + 1, x)[i] =
              IF i <= p THEN name[i] ELSE IF i = p + 1 THEN x ELSE name[i - 1]
    BY <2>1, <1>11, InsertIs
  <2> QED
    BY <2>2, <1>3, <1>13, Zenon
<1>15. \A i \in 1..l : name[i].name \in Nat /\ (i <= p => name[i].name < n) /\ (i > p => n < name[i].name)
  <2> SUFFICES ASSUME NEW i \in 1..l
               PROVE  name[i].name \in Nat /\ (i <= p => name[i].name < n) /\ (i > p => n < name[i].name)
    OBVIOUS
  <2>1. i - 1 \in 0..(l - 1) /\ (i - 1) + 1 = i
    OBVIOUS
  <2>2. PICK k \in 0..(l - 1) : k = i - 1
    BY <2>1
  <2>3. NameAt(k) = name[i].name /\ NameAt(k) \in Nat
    BY <2>1, <2>2, <1>3, NamesInt DEF NameAt
  <2>4. (k < p => NameAt(k) < n) /\ (k >= p => n < NameAt(k))
    BY <1>9
  <2> QED
    BY <2>2, <2>3, <2>4, <1>9
<1>16. ASSUME NEW i \in 1..(l + 1), NEW j \in 1..(l + 1), i < j PROVE t[i].name < t[j].name
  <2>1. p \in Nat
    BY <1>9
  <2>2. CASE j <= p
    <3>1. t[i] = name[i] /\ t[j] = name[j] /\ i \in 1..l /\ j \in 1..l
      BY <2>1, <2>2, <1>9, <1>14, <1>16
    <3> QED
      BY <3>1, <1>3, <1>16 DEF Sorted
  <2>3. CASE j = p + 1
    <3>1. t[i] = name[i] /\ t[j] = x /\ i \in 1..l /\ i <= p
      BY <2>1, <2>3, <1>9, <1>14, <1>16
    <3> QED
      BY <3>1, <1>11, <1>15
  <2>4. CASE j > p + 1
    <3>1. PICK b \in 1..l : b = j - 1
      BY <2>1, <2>4
    <3>2. t[j] = name[b] /\ b > p
      BY <3>1, <2>1, <2>4, <1>14
    <3>3. CASE i <= p
      <4>1. t[i] = name[i] /\ i \in 1..l /\ i < b
        BY <3>1, <3>2, <3>3, <2>1, <1>9, <1>14
      <4> QED
        BY <4>1, <3>1, <3>2, <1>3 DEF Sorted
    <3>4. CASE i = p + 1
      <4>1. t[i] = x
        BY <3>4, <2>1, <1>14
      <4> QED
        BY <4>1, <3>2, <1>11, <1>15
    <3>5. CASE i > p + 1
      <4>1. PICK a \in 1..l : a = i - 1
        BY <3>5, <2>1
      <4>2. t[i] = name[a] /\ a < b
        BY <4>1, <3>1, <3>5, <2>1, <1>14, <1>16
      <4> QED
        BY <4>2, <3>2, <1>3 DEF Sorted
    <3> QED
      BY <3>3, <3>4, <3>5, <2>1
  <2> QED
    BY <2>1, <2>2, <2>3, <2>4
<1>17. ASSUME NEW j \in 1..l PROVE \E a \in 1..(l + 1) : t[a] = name[j]
  <2>1. p \in Nat
    BY <1>9
  <2>2. CASE j <= p
    <3>1. j \in 1..(l + 1) /\ t[j] = name[j]
      BY <2>1, <2>2, <1>14
    <3> QED
      BY <3>1
  <2>3. CASE j > p
    <3>1. PICK a \in 1..(l + 1) : a = j + 1
      OBVIOUS
    <3>2. t[a] = name[a - 1] /\ a - 1 = j
      BY <3>1, <2>1, <2>3, <1>14
    <3> QED
      BY <3>2
  <2> QED
    BY <2>1, <2>2, <2>3
<1>18. name' = t
  BY <1>12, <1>13, Zenon
<1> QED
  BY <1>3, <1>14, <1>16, <1>17, <1>18 DEF Sorted, Entry, Handle

LEMMA StepSorted == ASSUME Inv, Sorted, [Next /\ Doubling]_vars PROVE Sorted'
<1>1. ASSUME NEW h, Retired(h) PROVE Sorted'
  BY <1>1, RetireNames DEF Retired
<1>2. ASSUME NEW h \in Handle, NEW n \in Name, NameHandle(h, n) PROVE Sorted'
  BY <1>2, InsertNames
<1>3. CASE name' = name
  BY <1>3 DEF Sorted, Entry, Handle
<1> QED
  BY <1>1, <1>2, <1>3, NameSteps

LEMMA InitSorted == Init => Sorted
<1>1. <<>> \in Seq(Entry) /\ Len(<<>>) = 0
  OBVIOUS
<1> QED
  BY <1>1 DEF Init, Sorted

\* A service that a step does not retire is still found under its handle.
LEMMA StaysFound ==
    ASSUME Inv, Inv', NEW g \in Handle \ {0}, Grab(g) # Null, Grab(g) \in live', handle'[Grab(g)] = handle[Grab(g)]
    PROVE  Grab(g)' # Null
<1>1. PICK d : d = Grab(g)
  OBVIOUS
<1>2. d \in live /\ handle[d] = g
  BY <1>1, GrabLive
<1>3. d \in live' /\ handle'[d] = g
  BY <1>1, <1>2
<1>4. slot'[Hash(g)'] = d
  BY <1>3 DEF Inv, Living, Hash
<1>5. d # Null
  BY <1>1
<1> QED
  BY <1>3, <1>4, <1>5 DEF Grab, Hash

\* What one step does to the answers of findname.
LEMMA StepNames ==
    ASSUME Inv, Inv', Sorted, Lookup, Lookup', [Next /\ Doubling]_vars,
           NEW n \in Name, NEW g \in Handle \ {0}, findname(n) = g
    PROVE  findname(n)' = IF Grab(g) # Null /\ Grab(g)' = Null THEN 0 ELSE g
<1>1. PICK j \in 1..Len(name) : name[j].name = n /\ name[j].handle = g
  BY DEF Lookup
<1>2. ASSUME NEW a \in 1..Len(name'), name'[a] = name[j] PROVE findname(n)' = g
  BY <1>1, <1>2 DEF Lookup
<1>3. CASE name' = name /\ live \subseteq live' /\ \A d \in live : handle'[d] = handle[d]
  <2>1. findname(n)' = g
    BY <1>1, <1>2, <1>3
  <2>2. Grab(g) # Null => Grab(g)' # Null
    BY <1>3, StaysFound, GrabLive
  <2> QED
    BY <2>1, <2>2
<1>4. ASSUME NEW h, Retired(h) PROVE findname(n)' = IF Grab(g) # Null /\ Grab(g)' = Null THEN 0 ELSE g
  <2>1. /\ h \in Handle /\ (h # 0 \/ \E d \in live : handle[d] = h)
        /\ Grab(h) # Null /\ Retire(h) /\ UNCHANGED <<slot_size, handle_index, handle, launching>>
    BY <1>4 DEF Retired
  <2>2. /\ \A a \in 1..Len(name') : \E k \in 1..Len(name) : name'[a] = name[k] /\ name[k].handle # h
        /\ \A k \in 1..Len(name) : name[k].handle # h => \E a \in 1..Len(name') : name'[a] = name[k]
    BY <2>1, RetireNames
  <2>3. Grab(h) \in live /\ handle[Grab(h)] = h /\ Hash(h) \in 0..(slot_size - 1)
    BY <2>1, GrabLive
  <2>4. CASE g = h
    <3>1. slot'[Hash(h)] = Null
      BY <2>1, <2>3 DEF Retire, Hash, Inv, TypeOK, TableTypes
    <3>2. Grab(h)' = Null
      BY <3>1, <2>1 DEF Grab, Hash
    <3>3. findname(n)' = 0
      <4> SUFFICES ASSUME findname(n)' # 0 PROVE FALSE
        OBVIOUS
      <4>1. PICK a \in 1..Len(name') : name'[a].name = n
        BY DEF Lookup
      <4>2. PICK k \in 1..Len(name) : name[k].name = n /\ name[k].handle # h
        BY <4>1, <2>2
      <4> QED
        BY <4>2, <2>4 DEF Lookup
    <3> QED
      BY <3>2, <3>3, <2>1, <2>4
  <2>5. CASE g # h
    <3>1. findname(n)' = g
      BY <1>1, <1>2, <2>2, <2>5
    <3>2. ASSUME Grab(g) # Null PROVE Grab(g)' # Null
      <4>1. Grab(g) \in live /\ handle[Grab(g)] = g
        BY <3>2, GrabLive
      <4>2. live' = live \ {Grab(h)}
        BY <2>1 DEF Retire
      <4>3. Grab(g) \in live' /\ handle'[Grab(g)] = handle[Grab(g)]
        BY <4>1, <4>2, <2>1, <2>3, <2>5
      <4> QED
        BY <4>3, <3>2, StaysFound
    <3> QED
      BY <3>1, <3>2
  <2> QED
    BY <2>4, <2>5
<1>5. ASSUME NEW h \in Handle, NEW m \in Name, NameHandle(h, m)
      PROVE  findname(n)' = IF Grab(g) # Null /\ Grab(g)' = Null THEN 0 ELSE g
  <2>1. findname(n)' = g
    BY <1>2, <1>5, InsertNames
  <2>2. UNCHANGED <<slot, slot_size, handle>>
    BY <1>5 DEF NameHandle
  <2>3. Grab(g)' = Grab(g)
    BY <2>2 DEF Grab
  <2> QED
    BY <2>1, <2>3
<1> QED
  BY <1>3, <1>4, <1>5, NameSteps

\* A name stays with its handle until that service is retired, and goes with it: the array of
\* names stays sorted through insertions and compactions, so the search finds what is there.
THEOREM NamesKept == Spec /\ [][Doubling]_vars => NamesFollowServices
<1>1. Init => Inv /\ Sorted
  BY InitInv, InitSorted
<1>2. (Inv /\ Sorted) /\ [Next]_vars /\ [Doubling]_vars => (Inv /\ Sorted)'
  <2> SUFFICES ASSUME Inv, Sorted, [Next]_vars, [Doubling]_vars PROVE Inv' /\ Sorted'
    OBVIOUS
  <2>1. [Next /\ Doubling]_vars
    OBVIOUS
  <2> QED
    BY <2>1, StepInv, StepSorted
<1>3. Inv /\ Sorted => Lookup
  BY LookupRight
<1>4. Inv /\ Inv' /\ Sorted /\ Lookup /\ Lookup' /\ [Next]_vars /\ [Doubling]_vars =>
        [\A n \in Name, h \in Handle \ {0} : findname(n) = h =>
             findname(n)' = IF Grab(h) # Null /\ Grab(h)' = Null THEN 0 ELSE h]_vars
  <2> SUFFICES ASSUME Inv, Inv', Sorted, Lookup, Lookup', [Next]_vars, [Doubling]_vars
               PROVE  \A n \in Name, h \in Handle \ {0} : findname(n) = h =>
                        findname(n)' = IF Grab(h) # Null /\ Grab(h)' = Null THEN 0 ELSE h
    OBVIOUS
  <2>1. [Next /\ Doubling]_vars
    OBVIOUS
  <2> QED
    BY <2>1, StepNames
<1> QED
  BY <1>1, <1>2, <1>3, <1>4, PTL DEF Spec, NamesFollowServices
-----------------------------------------------------------------------------
\* One thread launches services at a time.
OneLauncher == \A t, u \in Launcher : t = u

\* There are no more contexts than handles.
FewServices == IsFiniteSet(Ctx) /\ Cardinality(Ctx) <= MASK + 1

\* A thread that registers has stored the handle of its last context, so one thread alone
\* doubles the table only when every handle is stored.
LEMMA OneDoubles == ASSUME OneLauncher, Inv, [Next]_vars PROVE [Doubling]_vars
<1>1. ASSUME NEW t \in Launcher, NEW c \in Ctx, Register(t, c) PROVE Settled
  BY <1>1 DEF Register, MayRegister, OneLauncher, Settled
<1>2. ASSUME NEW h, HandleRetire(h) PROVE slot_size' = slot_size
  BY <1>2 DEF HandleRetire
<1>3. ASSUME NEW h, NEW n, NameHandle(h, n) PROVE slot_size' = slot_size
  BY <1>3 DEF NameHandle
<1>4. ASSUME NEW t \in Launcher, SetHandle(t) PROVE slot_size' = slot_size
  BY <1>4 DEF SetHandle
<1>5. CASE RetireAll \/ NextPass \/ Return \/ ReadSlot \/ RetireSlot
  BY <1>5 DEF RetireAll, NextPass, BeginPass, Return, ReadSlot, RetireSlot, Doubling
<1> QED
  BY <1>1, <1>2, <1>3, <1>4, <1>5 DEF Next, Doubling

\* A full table and one more context leave room for twice the size.
LEMMA RoomToDouble ==
    ASSUME FewServices, Inv, Full, NEW c \in Ctx, c \notin Registered, Settled
    PROVE  2 * slot_size - 1 <= MASK
<1>1. /\ slot_size \in Nat \ {0} /\ MASK \in Nat /\ slot \in [0..(slot_size - 1) -> Ctx \cup {Null}]
  BY Constants DEF Inv, TypeOK, TableTypes
<1>2. \A i \in 0..(slot_size - 1) : slot[i] \in Ctx \ {c}
  <2> TAKE i \in 0..(slot_size - 1)
  <2>1. slot[i] \in Ctx
    BY FullOfLive DEF Inv
  <2> QED
    BY <2>1, <1>1, Constants DEF Registered, Range
<1>3. \A i, j \in 0..(slot_size - 1) : slot[i] = slot[j] => i = j
  BY FullOfLive DEF Inv
<1>4. slot \in Injection(0..(slot_size - 1), Ctx \ {c})
  <2>1. slot \in [0..(slot_size - 1) -> Ctx \ {c}]
    BY <1>1, <1>2
  <2> QED
    BY <2>1, <1>3 DEF Injection, IsInjective
<1>5. IsFiniteSet(Ctx \ {c}) /\ Cardinality(Ctx \ {c}) = Cardinality(Ctx) - 1 /\ Cardinality(Ctx) \in Nat
  BY FS_RemoveElement, FS_CardinalityType DEF FewServices
<1>6. Cardinality(0..(slot_size - 1)) = slot_size /\ IsFiniteSet(0..(slot_size - 1))
  <2>1. 0 \in Int /\ slot_size - 1 \in Int /\ ~(0 > slot_size - 1) /\ (slot_size - 1) - 0 + 1 = slot_size
    BY <1>1
  <2> QED
    BY <2>1, FS_Interval
<1>7. slot_size <= Cardinality(Ctx \ {c})
  BY <1>4, <1>5, <1>6, FS_Injection DEF ExistsInjection
<1>8. slot_size <= MASK
  BY <1>1, <1>5, <1>7 DEF FewServices
<1>9. PICK k \in Nat : slot_size * 2^k = MASK + 1
  BY DEF Inv, Sized
<1>10. k # 0
  <2>1. 2^0 = 1
    OBVIOUS
  <2>2. slot_size * 1 = slot_size
    BY <1>1
  <2>3. slot_size # MASK + 1
    BY <1>1, <1>8
  <2> QED
    BY <2>1, <2>2, <2>3, <1>9
<1>11. PICK j \in Nat : k = j + 1
  <2>1. k - 1 \in Nat /\ k = (k - 1) + 1
    BY <1>10
  <2> QED
    BY <2>1
<1>12. PICK p \in Nat \ {0} : 2^k = 2 * p
  BY <1>11, Pow
<1>13. slot_size * (2 * p) = MASK + 1
  BY <1>9, <1>12
<1>14. PICK s \in Nat : s = slot_size /\ s * (2 * p) = MASK + 1
  BY <1>1, <1>13
<1>15. 2 * s <= MASK + 1
  <2>1. PICK q \in Nat : p = q + 1
    <3>1. p - 1 \in Nat /\ p = (p - 1) + 1
      OBVIOUS
    <3> QED
      BY <3>1
  <2>2. s * (2 * (q + 1)) = 2 * s + 2 * (s * q) /\ s * q \in Nat
    BY <1>14
  <2>3. PICK x \in Nat : x = s * q
    BY <2>2
  <2>4. MASK + 1 = 2 * s + 2 * x
    BY <2>1, <2>2, <2>3, <1>14
  <2> QED
    BY <2>4, <1>1
<1> QED
  BY <1>1, <1>14, <1>15

LEMMA AssertsFollow == ASSUME OneLauncher, FewServices, Inv PROVE AssertsHold
<1> SUFFICES ASSUME Full, NEW t \in Launcher, NEW c \in Ctx, MayRegister(t, c) PROVE ExpandAsserts
  BY DEF AssertsHold
<1>1. Settled
  BY DEF MayRegister, OneLauncher, Settled
<1>2. c \notin Registered
  BY DEF MayRegister
<1>3. 2 * slot_size - 1 <= MASK
  BY <1>1, <1>2, RoomToDouble
<1>4. \A i, j \in DOMAIN slot : Rehash(i) = Rehash(j) => i = j
  BY <1>1, RehashApart DEF Inv
<1> QED
  BY <1>3, <1>4 DEF ExpandAsserts

\* While one thread at a time launches services, no more than there are handles, the two
\* assertions of the expansion hold (skynet_handle.c:55 and :60), every service is found under
\* its handle, retireall leaves none of its last pass behind and names go with their services.
THEOREM OneAtATime ==
    ASSUME OneLauncher, FewServices
    PROVE  Spec => [](AssertsHold /\ Findable /\ RetireAllComplete) /\ NamesFollowServices
<1>1. Init => Inv
  BY InitInv
<1>2. Inv /\ [Next]_vars => [Doubling]_vars
  BY OneDoubles
<1>3. Inv /\ [Next]_vars /\ [Doubling]_vars => Inv'
  <2> SUFFICES ASSUME Inv, [Next]_vars, [Doubling]_vars PROVE Inv'
    OBVIOUS
  <2>1. [Next /\ Doubling]_vars
    OBVIOUS
  <2> QED
    BY <2>1, StepInv
<1>4. Inv => AssertsHold
  BY AssertsFollow
<1>5. Inv => Findable /\ RetireAllComplete
  BY AllFound DEF Findable, Inv, Pass, Seen, RetireAllComplete
<1>6. Spec => []Inv /\ [][Doubling]_vars
  BY <1>1, <1>2, <1>3, PTL DEF Spec
<1> QED
  BY <1>4, <1>5, <1>6, NamesKept, PTL
-----------------------------------------------------------------------------
LEMMA PowSum == ASSUME NEW a \in Nat, NEW b \in Nat PROVE 2^(a + b) = 2^a * 2^b
<1> DEFINE Bad == {x \in Nat : 2^(a + x) # 2^a * 2^x}
<1> SUFFICES ASSUME Bad # {} PROVE FALSE
  OBVIOUS
<1>1. PICK x \in Bad : \A y \in Bad : x <= y
  BY Least
<1>2. x # 0
  <2>1. 2^0 = 1 /\ a + 0 = a
    OBVIOUS
  <2>2. 2^a \in Nat
    BY Pow
  <2>3. 2^a * 1 = 2^a
    BY <2>2
  <2>4. 2^(a + 0) = 2^a * 2^0
    BY <2>1, <2>3
  <2> QED
    BY <2>4
<1>3. PICK y \in Nat : x = y + 1
  <2>1. x - 1 \in Nat /\ x = (x - 1) + 1
    BY <1>2
  <2> QED
    BY <2>1
<1>4. 2^(a + y) = 2^a * 2^y
  <2>1. ~(x <= y)
    BY <1>3
  <2> QED
    BY <1>1, <2>1
<1>5. PICK p \in Nat, q \in Nat : p = 2^a /\ q = 2^y
  BY Pow
<1>6. 2^x = 2 * q
  BY <1>3, <1>5, Pow
<1>7. 2^(a + x) = 2 * (p * q)
  <2>1. a + y \in Nat /\ a + x = (a + y) + 1
    BY <1>3
  <2>2. 2^((a + y) + 1) = 2 * 2^(a + y)
    BY <2>1, Pow
  <2> QED
    BY <2>1, <2>2, <1>4, <1>5
<1>8. 2 * (p * q) = p * (2 * q)
  OBVIOUS
<1>9. 2^(a + x) = 2^a * 2^x
  BY <1>5, <1>6, <1>7, <1>8
<1> QED
  BY <1>9

\* A division by a product, one factor after the other.
Product(b, n, m) == b = n * m
Quotient(q, a, n) == q = a \div n

LEMMA DivDiv ==
    ASSUME NEW a \in Nat, NEW n \in Nat \ {0}, NEW m \in Nat \ {0}, NEW b \in Nat \ {0}, Product(b, n, m),
           NEW c \in Nat, Quotient(c, a, n), NEW d \in Nat, Quotient(d, c, m)
    PROVE  Quotient(d, a, b)
<1>1. n * m \in Nat \ {0}
  OBVIOUS
<1>2. PICK r \in 0..(n - 1) : a = n * c + r
  <2>1. a % n \in 0..(n - 1) /\ a = n * (a \div n) + (a % n)
    BY DivMod
  <2> QED
    BY <2>1 DEF Quotient
<1>3. PICK v \in 0..(m - 1) : c = m * d + v
  <2>1. c % m \in 0..(m - 1) /\ c = m * (c \div m) + (c % m)
    BY DivMod
  <2> QED
    BY <2>1 DEF Quotient
<1>4. PICK N \in Nat \ {0} : N = n * m /\ N = b
  BY <1>1 DEF Product
<1>5. PICK w \in Nat : w = n * v + r
  OBVIOUS
<1>6. a = N * d + w
  BY <1>2, <1>3, <1>4, <1>5
<1>7. w <= N - 1
  <2>1. PICK z \in Nat : m = v + 1 + z
    <3>1. m - v - 1 \in Nat /\ m = v + 1 + (m - v - 1)
      OBVIOUS
    <3> QED
      BY <3>1
  <2>2. N = n * v + n + n * z /\ n * z \in Nat /\ n * v \in Nat
    BY <1>4, <2>1
  <2>3. PICK x \in Nat, y \in Nat : x = n * v /\ y = n * z
    BY <2>2
  <2> QED
    BY <2>2, <2>3, <1>5
<1>8. w \in 0..(N - 1)
  BY <1>7
<1>9. a \div N = d
  BY <1>6, <1>8, DivModIs
<1> QED
  BY <1>4, <1>9 DEF Quotient

\* A division keeps the order, and moves by at most one when its argument does.
LEMMA DivMono == ASSUME NEW x \in Nat, NEW y \in Nat, x <= y, NEW n \in Nat \ {0} PROVE x \div n <= y \div n
<1>1. PICK q \in Nat, r \in 0..(n - 1) : x \div n = q /\ x = n * q + r
  BY DivMod
<1>2. PICK u \in Nat, v \in 0..(n - 1) : y \div n = u /\ y = n * u + v
  BY DivMod
<1>3. ASSUME u < q PROVE FALSE
  <2>1. PICK z \in Nat : q = u + 1 + z
    <3>1. q - u - 1 \in Nat /\ q = u + 1 + (q - u - 1)
      BY <1>3
    <3> QED
      BY <3>1
  <2>2. n * q = n * u + n + n * z /\ n * z \in Nat /\ n * u \in Nat
    BY <2>1
  <2>3. PICK a \in Nat, b \in Nat : a = n * u /\ b = n * z
    BY <2>2
  <2> QED
    BY <2>2, <2>3, <1>1, <1>2
<1> QED
  BY <1>1, <1>2, <1>3

LEMMA DivStep ==
    ASSUME NEW x \in Nat, NEW n \in Nat \ {0}
    PROVE  \/ (x + 1) \div n = x \div n /\ (x + 1) % n # 0
           \/ (x + 1) \div n = x \div n + 1 /\ (x + 1) % n = 0
<1>1. PICK q \in Nat, r \in 0..(n - 1) : x \div n = q /\ x = n * q + r
  BY DivMod
<1>2. CASE r < n - 1
  <2>1. x + 1 = n * q + (r + 1) /\ r + 1 \in 0..(n - 1) /\ x + 1 \in Nat
    BY <1>1, <1>2
  <2>2. PICK s \in 0..(n - 1) : s = r + 1
    BY <2>1
  <2>3. (x + 1) \div n = q /\ (x + 1) % n = s
    BY <2>1, <2>2, DivModIs
  <2> QED
    BY <2>2, <2>3, <1>1
<1>3. CASE r = n - 1
  <2>1. x + 1 = n * (q + 1) + 0 /\ 0 \in 0..(n - 1) /\ x + 1 \in Nat /\ q + 1 \in Nat
    BY <1>1, <1>3
  <2>2. (x + 1) \div n = q + 1 /\ (x + 1) % n = 0
    BY <2>1, DivModIs
  <2> QED
    BY <2>2, <1>1
<1> QED
  BY <1>2, <1>3

-----------------------------------------------------------------------------
\* The ticks of the near list, the lists of a level, and the ticks of one list of level l.
NearTicks == 2^TIME_NEAR_SHIFT
Lists == 2^TIME_LEVEL_SHIFT
Unit(l) == 2^(TIME_NEAR_SHIFT + l * TIME_LEVEL_SHIFT)
Wrap == 2^Bits

\* What Timer assumes of its constants, as a hypothesis of the lemmas.
Sound == /\ TIME_NEAR_SHIFT \in Nat \ {0}
         /\ TIME_LEVEL_SHIFT \in Nat \ {0}
         /\ MaxTime \in 1..(2^(Bits - 1) - 1)

LEMMA Units ==
    ASSUME Sound, NEW l \in Nat
    PROVE  /\ Unit(l) \in Nat \ {0} /\ Lists \in Nat \ {0} /\ Unit(l + 1) = Unit(l) * Lists
           /\ \A t : Shifted(t, l) = t \div Unit(l)
<1>1. TIME_NEAR_SHIFT \in Nat /\ TIME_LEVEL_SHIFT \in Nat
  BY DEF Sound
<1>2. PICK e \in Nat : e = TIME_NEAR_SHIFT + l * TIME_LEVEL_SHIFT
  BY <1>1
<1>3. e + TIME_LEVEL_SHIFT = TIME_NEAR_SHIFT + (l + 1) * TIME_LEVEL_SHIFT
  <2>1. (l + 1) * TIME_LEVEL_SHIFT = l * TIME_LEVEL_SHIFT + TIME_LEVEL_SHIFT
    BY <1>1
  <2>2. PICK x \in Nat : x = l * TIME_LEVEL_SHIFT
    BY <1>1
  <2> QED
    BY <1>1, <1>2, <2>1, <2>2
<1>4. 2^(e + TIME_LEVEL_SHIFT) = 2^e * 2^TIME_LEVEL_SHIFT
  BY <1>1, PowSum
<1>5. 2^e \in Nat \ {0} /\ 2^TIME_LEVEL_SHIFT \in Nat \ {0}
  BY <1>1, Pow
<1> QED
  BY <1>2, <1>3, <1>4, <1>5 DEF Unit, Lists, Shifted

LEMMA Sizes ==
    ASSUME Sound
    PROVE  /\ NearTicks = Unit(0) /\ Wrap = Unit(4) /\ NearTicks \in Nat \ {0} /\ Wrap \in Nat \ {0}
           /\ Wrap = Unit(3) * Lists /\ Unit(3) \in Nat \ {0} /\ Lists \in Nat \ {0}
           /\ \E h \in Nat \ {0} : Lists = 2 * h /\ MaxTime < Unit(3) * h
           /\ MaxTime \in Nat
<1>1. TIME_NEAR_SHIFT \in Nat /\ TIME_LEVEL_SHIFT \in Nat \ {0} /\ MaxTime \in 1..(2^(Bits - 1) - 1)
  BY DEF Sound
<1>2. NearTicks = Unit(0)
  <2>1. TIME_NEAR_SHIFT + 0 * TIME_LEVEL_SHIFT = TIME_NEAR_SHIFT
    BY <1>1
  <2> QED
    BY <2>1 DEF NearTicks, Unit
<1>3. Wrap = Unit(4) /\ Bits = TIME_NEAR_SHIFT + 4 * TIME_LEVEL_SHIFT
  BY DEF Wrap, Unit, Bits, Levels
<1>4. Unit(0) \in Nat \ {0} /\ Unit(4) \in Nat \ {0} /\ Unit(3) \in Nat \ {0} /\ Lists \in Nat \ {0}
  BY Units
<1>5. Unit(4) = Unit(3) * Lists
  <2>1. 3 \in Nat /\ 3 + 1 = 4
    OBVIOUS
  <2>2. Unit(3 + 1) = Unit(3) * Lists
    BY <2>1, Units
  <2> QED
    BY <2>1, <2>2
<1>6. PICK j \in Nat : TIME_LEVEL_SHIFT = j + 1
  <2>1. TIME_LEVEL_SHIFT - 1 \in Nat /\ TIME_LEVEL_SHIFT = (TIME_LEVEL_SHIFT - 1) + 1
    BY <1>1
  <2> QED
    BY <2>1
<1>7. PICK h \in Nat \ {0} : h = 2^j
  BY Pow
<1>8. Lists = 2 * h
  BY <1>6, <1>7, Pow DEF Lists
<1>9. 2^(Bits - 1) = Unit(3) * h
  <2>1. PICK e \in Nat : e = TIME_NEAR_SHIFT + 3 * TIME_LEVEL_SHIFT
    BY <1>1
  <2>2. Bits - 1 = e + j
    BY <1>1, <1>3, <1>6, <2>1
  <2>3. 2^(e + j) = 2^e * 2^j
    BY PowSum
  <2> QED
    BY <2>1, <2>2, <2>3, <1>7 DEF Unit
<1>10. MaxTime < Unit(3) * h /\ MaxTime \in Nat
  <2>1. PICK b \in Nat : b = Unit(3) * h
    BY <1>4
  <2>2. MaxTime \in 1..(b - 1)
    BY <1>1, <1>9, <2>1
  <2> QED
    BY <2>1, <2>2
<1> QED
  BY <1>2, <1>3, <1>4, <1>5, <1>7, <1>8, <1>10

LEMMA ShiftedNat ==
    ASSUME Sound, NEW x \in Nat, NEW l \in Nat
    PROVE  Shifted(x, l) \in Nat /\ Shifted(x, l + 1) = Shifted(x, l) \div Lists
<1>1. PICK u \in Nat \ {0}, m \in Nat \ {0} : u = Unit(l) /\ m = Lists /\ Unit(l + 1) = u * m
  BY Units
<1>2. Shifted(x, l) = x \div u
  BY <1>1, Units
<1>3. Shifted(x, l + 1) = x \div (u * m)
  <2>1. l + 1 \in Nat
    OBVIOUS
  <2>2. Shifted(x, l + 1) = x \div Unit(l + 1)
    BY <2>1, Units
  <2> QED
    BY <2>2, <1>1
<1>4. x \div (u * m) = (x \div u) \div m /\ x \div u \in Nat
  <2>1. x \div (u * m) = (x \div u) \div m
    <3>1. PICK b \in Nat \ {0} : b = u * m
      OBVIOUS
    <3>2. PICK c \in Nat : c = x \div u
      BY DivMod
    <3>3. PICK d \in Nat : d = c \div m
      BY DivMod
    <3>4. Product(b, u, m) /\ Quotient(c, x, u) /\ Quotient(d, c, m)
      BY <3>1, <3>2, <3>3 DEF Product, Quotient
    <3>5. Quotient(d, x, b)
      BY <3>4, DivDiv
    <3> QED
      BY <3>1, <3>2, <3>3, <3>5 DEF Quotient
  <2>2. x \div u \in Nat
    BY DivMod
  <2> QED
    BY <2>1, <2>2
<1> QED
  BY <1>1, <1>2, <1>3, <1>4

LEMMA ShiftedMono ==
    ASSUME Sound, NEW x \in Nat, NEW y \in Nat, x <= y, NEW l \in Nat
    PROVE  Shifted(x, l) <= Shifted(y, l)
<1>1. PICK u \in Nat \ {0} : u = Unit(l)
  BY Units
<1>2. Shifted(x, l) = x \div u /\ Shifted(y, l) = y \div u
  BY <1>1, Units
<1> QED
  BY <1>2, DivMono

\* Two times in the same list of a level are in the same list of every higher one.
LEMMA SameAbove ==
    ASSUME Sound, NEW x \in Nat, NEW y \in Nat,
           NEW l \in 0..4, NEW m \in l..4, Shifted(x, l) = Shifted(y, l)
    PROVE  Shifted(x, m) = Shifted(y, m)
<1>1. ASSUME NEW k \in Nat, Shifted(x, k) = Shifted(y, k)
      PROVE  Shifted(x, k + 1) = Shifted(y, k + 1)
  BY <1>1, ShiftedNat
<1> DEFINE E(k) == Shifted(x, k) = Shifted(y, k)
<1>3. (E(0) => E(1)) /\ (E(1) => E(2)) /\ (E(2) => E(3)) /\ (E(3) => E(4))
  <2>1. 0 + 1 = 1 /\ 1 + 1 = 2 /\ 2 + 1 = 3 /\ 3 + 1 = 4
    OBVIOUS
  <2>2. (E(0) => E(0 + 1)) /\ (E(1) => E(1 + 1)) /\ (E(2) => E(2 + 1)) /\ (E(3) => E(3 + 1))
    BY <1>1
  <2> QED
    BY <2>1, <2>2
<1>4. E(l)
  OBVIOUS
<1> HIDE DEF E
<1>5. l \in {0, 1, 2, 3, 4} /\ m \in {0, 1, 2, 3, 4} /\ l <= m
  OBVIOUS
<1>6. E(m)
  BY <1>3, <1>4, <1>5
<1> QED
  BY <1>6 DEF E

\* All times are in the one list above the highest level.
LEMMA Above ==
    ASSUME Sound, NEW x \in 0..(Wrap - 1)
    PROVE  x \in Nat /\ Shifted(x, 4) = 0 /\ Shifted(x, 3) \in 0..(Lists - 1)
<1>1. PICK w \in Nat \ {0}, u \in Nat \ {0}, m \in Nat \ {0} :
        w = Wrap /\ w = Unit(4) /\ u = Unit(3) /\ m = Lists /\ w = u * m
  BY Sizes
<1>2. x \in 0..(w - 1) /\ x \in Nat
  BY <1>1
<1>3. x \div w = 0
  <2>1. x = w * 0 + x /\ 0 \in Nat
    BY <1>2
  <2> QED
    BY <2>1, <1>2, DivModIs
<1>4. Shifted(x, 4) = 0
  BY <1>1, <1>3, Units
<1>5. PICK s \in Nat : s = Shifted(x, 3)
  BY <1>2, ShiftedNat
<1>6. s \div m = 0
  <2>1. 3 \in Nat /\ 3 + 1 = 4
    OBVIOUS
  <2>2. Shifted(x, 3 + 1) = s \div m
    BY <2>1, <1>1, <1>2, <1>5, ShiftedNat
  <2> QED
    BY <2>1, <2>2, <1>4
<1>7. s = m * 0 + (s % m) /\ s % m \in 0..(m - 1)
  BY <1>6, DivMod
<1>8. s \in 0..(m - 1)
  <2>1. m * 0 = 0
    OBVIOUS
  <2>2. PICK r \in 0..(m - 1) : r = s % m
    BY <1>7
  <2> QED
    BY <2>1, <2>2, <1>7
<1> QED
  BY <1>1, <1>2, <1>4, <1>5, <1>8

LEMMA DivSame ==
    ASSUME NEW x \in Nat, NEW y \in Nat, NEW n \in Nat \ {0}, x \div n = y \div n
    PROVE  x < y + n
<1>1. PICK q \in Nat, r \in 0..(n - 1) : x \div n = q /\ x = n * q + r
  BY DivMod
<1>2. PICK u \in Nat, v \in 0..(n - 1) : y \div n = u /\ y = n * u + v
  BY DivMod
<1>3. PICK z \in Nat : z = n * q /\ z = n * u
  BY <1>1, <1>2
<1> QED
  BY <1>1, <1>2, <1>3

LEMMA MinIs ==
    ASSUME NEW S, S \subseteq Nat, S # {}
    PROVE  Min(S) \in S /\ \A y \in S : Min(S) <= y
<1>1. PICK x \in S : \A y \in S : x <= y
  BY Least
<1>2. \E z \in S : \A y \in S : z =< y
  BY <1>1
<1> QED
  BY <1>2 DEF Min

LEMMA MinFits == ASSUME NEW S, NEW x \in S, S \subseteq Nat, \A y \in S : x <= y PROVE Min(S) = x
<1>1. Min(S) \in S /\ \A y \in S : Min(S) <= y
  BY MinIs
<1>2. Min(S) <= x /\ x <= Min(S) /\ x \in Nat /\ Min(S) \in Nat
  BY <1>1
<1> QED
  BY <1>2

\* A time beyond the wrap.
LEMMA Beyond ==
    ASSUME Sound, NEW a \in Nat, a >= Wrap, a < 2 * Wrap
    PROVE  /\ a - Wrap \in 0..(Wrap - 1) /\ a % Wrap = a - Wrap
           /\ Shifted(a, 3) = Shifted(a - Wrap, 3) + Lists
           /\ LevelIdx(a, 3) = LevelIdx(a - Wrap, 3)
<1>1. PICK w \in Nat \ {0}, u \in Nat \ {0}, m \in Nat \ {0} : w = Wrap /\ u = Unit(3) /\ m = Lists /\ w = u * m
  BY Sizes
<1>2. PICK e \in 0..(w - 1) : e = a - w
  BY <1>1
<1>3. a % w = e
  <2>1. a = w * 1 + e /\ 1 \in Nat
    BY <1>2
  <2> QED
    BY <2>1, DivModIs
<1>4. PICK q \in Nat, r \in 0..(u - 1) : e \div u = q /\ e = u * q + r
  <2>1. e \in Nat
    OBVIOUS
  <2>2. e \div u \in Nat /\ e % u \in 0..(u - 1) /\ e = u * (e \div u) + (e % u)
    BY <2>1, DivMod
  <2> QED
    BY <2>2
<1>5. a \div u = q + m
  <2>1. u * (q + m) = u * q + u * m
    OBVIOUS
  <2>2. PICK x \in Nat : x = u * q
    OBVIOUS
  <2>3. u * (q + m) = x + w
    BY <2>1, <2>2, <1>1, Zenon
  <2>4. e = x + r
    BY <2>2, <1>4, Zenon
  <2>5. a = (x + w) + r /\ q + m \in Nat
    BY <2>2, <2>4, <1>2
  <2>6. a = u * (q + m) + r
    BY <2>3, <2>5, Zenon
  <2> QED
    BY <2>5, <2>6, DivModIs
<1>6. Shifted(a, 3) = q + m /\ Shifted(e, 3) = q
  <2>1. Shifted(a, 3) = a \div Unit(3) /\ Shifted(e, 3) = e \div Unit(3)
    BY Units
  <2> QED
    BY <2>1, <1>1, <1>4, <1>5
<1>7. (q + m) % m = q % m
  <2>1. PICK c \in Nat, d \in 0..(m - 1) : q % m = d /\ q = m * c + d
    <3>1. q \div m \in Nat /\ q % m \in 0..(m - 1) /\ q = m * (q \div m) + (q % m)
      BY DivMod
    <3> QED
      BY <3>1
  <2>2. PICK x \in Nat, y \in Nat : x = q + m /\ y = c + 1 /\ x = m * y + d
    BY <2>1
  <2>3. m \in Nat \ {0} /\ x \in Nat /\ y \in Nat /\ d \in 0..(m - 1) /\ x = m * y + d
    BY <2>1, <2>2
  <2>4. x \div m = y /\ x % m = d
    BY <2>3, DivModIs
  <2> QED
    BY <2>1, <2>2, <2>4
<1> QED
  BY <1>1, <1>2, <1>3, <1>6, <1>7 DEF LevelIdx, Lists

\* Where a timer due at a, counted without the wrap, is linked at time t: in the near list of
\* its tick, or in a list of a level ahead of the time, in the part of the wheel the time is in.
At(p, t, a) ==
    \/ p = Near(a % NearTicks) /\ Shifted(a, 0) = Shifted(t, 0)
    \/ \E l \in 0..3 :
         /\ p = Level(l, LevelIdx(a, l))
         /\ Shifted(t, l) < Shifted(a, l)
         /\ Shifted(a, l) < Shifted(t, l) + Lists
         /\ l < 3 => Shifted(a, l + 1) = Shifted(t, l + 1)

LEMMA AddNodeSoon ==
    ASSUME Sound, NEW t \in 0..(Wrap - 1), NEW a \in Nat, t <= a,
           Shifted(a, 3) < Shifted(t, 3) + Lists
    PROVE  At(add_node(a, t), t, a)
<1>1. t \in Nat /\ Lists \in Nat \ {0}
  BY Above, Sizes
<1>2. \A l \in Nat : /\ Shifted(a, l) \in Nat /\ Shifted(t, l) \in Nat
                     /\ Shifted(t, l) <= Shifted(a, l)
  BY <1>1, ShiftedNat, ShiftedMono
<1>3. CASE Shifted(a, 0) = Shifted(t, 0)
  BY <1>3 DEF At, add_node, NearTicks
<1>4. CASE Shifted(a, 0) # Shifted(t, 0)
  <2> DEFINE same == {k \in 0..2 : Shifted(a, k + 1) = Shifted(t, k + 1)} \cup {3}
  <2>1. PICK l : l = Min(same)
    OBVIOUS
  <2>2. l \in same /\ \A k \in same : l <= k
    <3>1. same \subseteq Nat /\ same # {}
      OBVIOUS
    <3> HIDE DEF same
    <3> QED
      BY <2>1, <3>1, MinIs
  <2>3. l \in 0..3 /\ l \in Nat
    BY <2>2
  <2>4. add_node(a, t) = Level(l, LevelIdx(a, l))
    BY <2>1, <1>4 DEF add_node
  <2>5. l < 3 => Shifted(a, l + 1) = Shifted(t, l + 1)
    BY <2>2
  <2>6. Shifted(a, l) # Shifted(t, l)
    <3>1. CASE l = 0
      BY <3>1, <1>4
    <3>2. CASE l # 0
      <4>1. PICK k \in 0..2 : l = k + 1
        <5>1. l - 1 \in 0..2 /\ l = (l - 1) + 1
          BY <2>3, <3>2
        <5> QED
          BY <5>1
      <4>2. ~(l <= k)
        BY <4>1
      <4>3. k \notin same
        BY <2>2, <4>2
      <4> QED
        BY <4>1, <4>3
    <3> QED
      BY <3>1, <3>2
  <2>7. Shifted(a, l) < Shifted(t, l) + Lists
    <3>1. CASE l = 3
      BY <3>1
    <3>2. CASE l < 3
      <4>1. PICK x \in Nat, y \in Nat : x = Shifted(a, l) /\ y = Shifted(t, l)
        BY <1>2, <2>3
      <4>2. x \div Lists = y \div Lists
        BY <4>1, <3>2, <2>3, <2>5, <1>1, ShiftedNat
      <4> QED
        BY <4>1, <4>2, <1>1, DivSame
    <3> QED
      BY <2>3, <3>1, <3>2
  <2>8. Shifted(t, l) < Shifted(a, l)
    <3>1. PICK x \in Nat, y \in Nat : x = Shifted(a, l) /\ y = Shifted(t, l) /\ y <= x
      BY <1>2, <2>3
    <3> QED
      BY <3>1, <2>6
  <2> HIDE DEF same
  <2> QED
    BY <2>3, <2>4, <2>5, <2>7, <2>8 DEF At
<1> QED
  BY <1>3, <1>4

\* add_node links a timer where it belongs, also one that is due after the time has wrapped.
LEMMA AddNode ==
    ASSUME Sound, NEW t \in 0..(Wrap - 1), NEW a \in Nat, t <= a, a < t + Wrap,
           Shifted(a, 3) < Shifted(t, 3) + Lists
    PROVE  At(add_node(a % Wrap, t), t, a)
<1>1. t \in Nat /\ Lists \in Nat \ {0} /\ Wrap \in Nat \ {0} /\ Shifted(t, 3) \in 0..(Lists - 1)
  BY Above, Sizes
<1>2. CASE a < Wrap
  <2>1. a % Wrap = a
    <3>1. a = Wrap * 0 + a /\ a \in 0..(Wrap - 1) /\ 0 \in Nat
      BY <1>1, <1>2
    <3> QED
      BY <3>1, <1>1, DivModIs
  <2> QED
    BY <2>1, AddNodeSoon
<1>3. CASE a >= Wrap
  <2>1. a < 2 * Wrap
    BY <1>1
  <2>2. PICK e \in 0..(Wrap - 1) : e = a - Wrap /\ a % Wrap = e
    BY <1>3, <2>1, Beyond
  <2>3. Shifted(a, 3) = Shifted(e, 3) + Lists /\ LevelIdx(a, 3) = LevelIdx(e, 3)
    BY <1>3, <2>1, <2>2, Beyond
  <2>4. e \in Nat /\ Shifted(e, 3) \in Nat /\ Shifted(t, 3) \in Nat
    BY <1>1, <2>2, Above, ShiftedNat
  <2>5. Shifted(e, 3) # Shifted(t, 3)
    BY <2>3, <2>4, <1>1
  <2>6. \A k \in 0..3 : Shifted(e, k) # Shifted(t, k)
    <3> SUFFICES ASSUME NEW k \in 0..3, Shifted(e, k) = Shifted(t, k) PROVE FALSE
      OBVIOUS
    <3>1. k \in 0..4 /\ 3 \in k..4
      OBVIOUS
    <3>2. Shifted(e, 3) = Shifted(t, 3)
      BY <3>1, <2>4, <1>1, SameAbove
    <3> QED
      BY <3>2, <2>5
  <2>7. add_node(e, t) = Level(3, LevelIdx(e, 3))
    <3>1. {k \in 0..2 : Shifted(e, k + 1) = Shifted(t, k + 1)} \cup {3} = {3}
      BY <2>6
    <3>2. Min({3}) = 3
      <4>1. 3 \in {3} /\ {3} \subseteq Nat /\ \A y \in {3} : 3 <= y
        OBVIOUS
      <4> QED
        BY <4>1, MinFits
    <3>3. Shifted(e, 0) # Shifted(t, 0)
      BY <2>6
    <3> QED
      BY <3>1, <3>2, <3>3 DEF add_node
  <2>8. Shifted(t, 3) < Shifted(a, 3)
    BY <2>3, <2>4, <1>1
  <2> QED
    BY <2>2, <2>3, <2>7, <2>8 DEF At
<1> QED
  BY <1>1, <1>2, <1>3

LEMMA ModSame ==
    ASSUME NEW x \in Nat, NEW y \in Nat, NEW n \in Nat \ {0}, y <= x, x < y + n, x % n = y % n
    PROVE  x = y
<1>1. PICK q \in Nat, r \in 0..(n - 1) : x % n = r /\ x = n * q + r
  <2>1. x \div n \in Nat /\ x % n \in 0..(n - 1) /\ x = n * (x \div n) + (x % n)
    BY DivMod
  <2> QED
    BY <2>1
<1>2. PICK u \in Nat : y = n * u + r
  <2>1. y \div n \in Nat /\ y = n * (y \div n) + (y % n)
    BY DivMod
  <2> QED
    BY <2>1, <1>1
<1>3. q >= u
  <2>1. ASSUME q < u PROVE FALSE
    <3>1. PICK z \in Nat : u = q + 1 + z
      <4>1. u - q - 1 \in Nat /\ u = q + 1 + (u - q - 1)
        BY <2>1
      <4> QED
        BY <4>1
    <3>2. n * u = n * q + n + n * z /\ n * z \in Nat /\ n * q \in Nat
      BY <3>1
    <3>3. PICK b \in Nat, c \in Nat : b = n * q /\ c = n * z
      BY <3>2
    <3> QED
      BY <3>2, <3>3, <1>1, <1>2
  <2> QED
    BY <2>1
<1>4. q <= u
  <2>1. ASSUME q > u PROVE FALSE
    <3>1. PICK z \in Nat : q = u + 1 + z
      <4>1. q - u - 1 \in Nat /\ q = u + 1 + (q - u - 1)
        BY <2>1
      <4> QED
        BY <4>1
    <3>2. n * q = n * u + n + n * z /\ n * z \in Nat /\ n * u \in Nat
      BY <3>1
    <3>3. PICK b \in Nat, c \in Nat : b = n * u /\ c = n * z
      BY <3>2
    <3> QED
      BY <3>2, <3>3, <1>1, <1>2
  <2> QED
    BY <2>1
<1>5. q = u
  BY <1>3, <1>4
<1> QED
  BY <1>1, <1>2, <1>5

\* A tick of the clock that does not wrap moves the time to the next list in the levels below
\* some m, and timer_shift finds the last of them.
LEMMA Tick ==
    ASSUME Sound, NEW t \in Nat, t + 1 < Wrap
    PROVE  \E m \in 0..4 :
             /\ \A k \in 0..4 : k < m => Shifted(t + 1, k) = Shifted(t, k) + 1
             /\ \A k \in 0..4 : k >= m => Shifted(t + 1, k) = Shifted(t, k)
             /\ m = 0 <=> (t + 1) % NearTicks # 0
             /\ m > 0 => Min({k \in 0..3 : LevelIdx(t + 1, k) # 0}) = m - 1
<1> DEFINE S(k) == Shifted(t, k)
           C(k) == Shifted(t + 1, k)
<1>1. PICK c \in Nat : c = t + 1
  OBVIOUS
<1>2. ASSUME NEW k \in Nat PROVE (C(k) = S(k) /\ c % Unit(k) # 0) \/ (C(k) = S(k) + 1 /\ c % Unit(k) = 0)
  <2>1. PICK u \in Nat \ {0} : u = Unit(k)
    BY Units
  <2>2. S(k) = t \div u /\ C(k) = (t + 1) \div u
    BY <2>1, Units
  <2>3. \/ (t + 1) \div u = t \div u /\ (t + 1) % u # 0
        \/ (t + 1) \div u = t \div u + 1 /\ (t + 1) % u = 0
    BY DivStep
  <2>4. CASE (t + 1) \div u = t \div u /\ (t + 1) % u # 0
    <3>1. C(k) = S(k)
      BY <2>2, <2>4
    <3>2. c % Unit(k) # 0
      BY <2>1, <2>4, <1>1
    <3> QED
      BY <3>1, <3>2
  <2>5. CASE (t + 1) \div u = t \div u + 1 /\ (t + 1) % u = 0
    BY <2>1, <2>2, <2>5, <1>1, Zenon
  <2> QED
    BY <2>3, <2>4, <2>5, Zenon
<1>3. \A k \in Nat : S(k) \in Nat /\ C(k) \in Nat /\ S(k + 1) = S(k) \div Lists /\ C(k + 1) = C(k) \div Lists
  BY ShiftedNat, <1>1
<1>4. S(4) = C(4)
  <2>1. Wrap \in Nat
    BY Sizes
  <2>2. t \in 0..(Wrap - 1) /\ t + 1 \in 0..(Wrap - 1)
    BY <2>1
  <2> QED
    BY <2>2, Above
<1> DEFINE same == {k \in 0..4 : S(k) = C(k)}
<1>5. PICK m \in same : \A k \in same : m <= k
  <2>1. 4 \in same /\ same \subseteq Nat
    BY <1>4
  <2> HIDE DEF same
  <2> QED
    BY <2>1, Least
<1>6. m \in 0..4
  OBVIOUS
<1>7. ASSUME NEW k \in 0..4, k >= m PROVE C(k) = S(k)
  <2>1. k \in m..4
    BY <1>6, <1>7
  <2>2. Shifted(c, m) = Shifted(t, m)
    BY <1>1
  <2>3. Shifted(c, k) = Shifted(t, k)
    BY <1>6, <2>1, <2>2, SameAbove
  <2> QED
    BY <1>1, <2>3
<1>8. ASSUME NEW k \in 0..4, k < m PROVE C(k) = S(k) + 1
  <2>1. k \notin same
    BY <1>5, <1>6, <1>8
  <2>2. S(k) # C(k)
    BY <2>1
  <2> HIDE DEF S, C
  <2> QED
    BY <2>2, <1>2
<1> HIDE DEF same
<1>9. m = 0 <=> (t + 1) % NearTicks # 0
  <2>1. NearTicks = Unit(0)
    BY Sizes
  <2>2. (C(0) = S(0) /\ c % Unit(0) # 0) \/ (C(0) = S(0) + 1 /\ c % Unit(0) = 0)
    BY <1>2
  <2>3. (m = 0 => C(0) = S(0)) /\ (m # 0 => C(0) = S(0) + 1) /\ S(0) \in Nat
    <3> HIDE DEF S, C
    <3> QED
      BY <1>3, <1>6, <1>7, <1>8
  <2>4. S(0) # S(0) + 1
    BY <2>3
  <2> HIDE DEF S, C
  <2> QED
    BY <2>1, <2>2, <2>3, <2>4, <1>1
<1>10. ASSUME NEW k \in 0..3, k < m PROVE LevelIdx(t + 1, k) = 0 <=> k + 1 < m
  <2>1. PICK s \in Nat, d \in Nat \ {0} : s = S(k) /\ d = Lists
    <3>1. k \in Nat /\ Lists \in Nat \ {0}
      BY Sizes
    <3>2. S(k) \in Nat
      BY <3>1, <1>3
    <3> HIDE DEF S
    <3> QED
      BY <3>1, <3>2
  <2>2. C(k) = s + 1
    BY <2>1, <1>8, <1>10
  <2>3. S(k + 1) = s \div d /\ C(k + 1) = (s + 1) \div d
    <3> HIDE DEF S, C
    <3>1. S(k + 1) = S(k) \div Lists /\ C(k + 1) = C(k) \div Lists
      BY <1>3
    <3> QED
      BY <3>1, <2>1, <2>2, Zenon
  <2>4. LevelIdx(t + 1, k) = (s + 1) % d
    BY <2>1, <2>2 DEF LevelIdx, Lists
  <2>5. (C(k + 1) = S(k + 1) /\ (s + 1) % d # 0) \/ (C(k + 1) = S(k + 1) + 1 /\ (s + 1) % d = 0)
    <3>1. \/ (s + 1) \div d = s \div d /\ (s + 1) % d # 0
          \/ (s + 1) \div d = s \div d + 1 /\ (s + 1) % d = 0
      BY DivStep
    <3>2. CASE (s + 1) \div d = s \div d /\ (s + 1) % d # 0
      <4>1. C(k + 1) = S(k + 1)
        BY <2>3, <3>2
      <4> QED
        BY <4>1, <3>2
    <3>3. CASE (s + 1) \div d = s \div d + 1 /\ (s + 1) % d = 0
      BY <2>3, <3>3, Zenon
    <3> QED
      BY <3>1, <3>2, <3>3, Zenon
  <2>6. S(k + 1) \in Nat /\ k + 1 \in 0..4
    BY <1>3
  <2>7. (k + 1 < m => C(k + 1) = S(k + 1) + 1) /\ (~(k + 1 < m) => C(k + 1) = S(k + 1))
    <3>1. ~(k + 1 < m) => k + 1 >= m
      BY <1>6
    <3> HIDE DEF S, C
    <3> QED
      BY <3>1, <2>6, <1>7, <1>8
  <2>8. S(k + 1) # S(k + 1) + 1
    BY <2>6
  <2> HIDE DEF S, C
  <2> QED
    BY <2>4, <2>5, <2>7, <2>8
<1>11. ASSUME m > 0 PROVE Min({k \in 0..3 : LevelIdx(t + 1, k) # 0}) = m - 1
  <2> DEFINE set == {k \in 0..3 : LevelIdx(t + 1, k) # 0}
  <2>1. PICK j \in 0..3 : m = j + 1 /\ j = m - 1
    <3>1. m - 1 \in 0..3 /\ m = (m - 1) + 1
      BY <1>6, <1>11
    <3> QED
      BY <3>1
  <2>2. j \in set
    <3>1. j < m /\ ~(j + 1 < m)
      BY <2>1
    <3> QED
      BY <3>1, <1>10
  <2>3. ASSUME NEW y \in set PROVE j <= y
    <3>1. y \in 0..3 /\ LevelIdx(t + 1, y) # 0
      OBVIOUS
    <3>2. ~(y < m /\ y + 1 < m)
      BY <3>1, <1>10
    <3> QED
      BY <3>1, <3>2, <2>1
  <2>4. set \subseteq Nat
    OBVIOUS
  <2> HIDE DEF set
  <2>5. Min(set) = j
    BY <2>2, <2>3, <2>4, MinFits
  <2> QED
    BY <2>1, <2>5 DEF set
<1> QED
  BY <1>6, <1>7, <1>8, <1>9, <1>11

LEMMA Lists4 ==
    /\ \A i, j : Near(i) = Near(j) => i = j
    /\ \A l, m, i, j : Level(l, i) = Level(m, j) => l = m /\ i = j
    /\ \A l, i, j : Level(l, i) # Near(j)
    /\ Free # Taken
    /\ \A i : Near(i) # Free /\ Near(i) # Taken
    /\ \A l, i : Level(l, i) # Free /\ Level(l, i) # Taken
<1>1. /\ Free.list = "none" /\ Taken.list = "taken"
      /\ \A i : Near(i).list = "near" /\ Near(i).idx = i
      /\ \A l, i : /\ Level(l, i).list = "level" /\ Level(l, i).level = l
                   /\ Level(l, i).idx = i
  BY DEF Free, Taken, Near, Level
<1>2. /\ \A i, j : Near(i) = Near(j) => i = j
      /\ \A l, m, i, j : Level(l, i) = Level(m, j) => l = m /\ i = j
  <2>1. ASSUME NEW i, NEW j, Near(i) = Near(j) PROVE i = j
    <3>1. Near(i).idx = i
      BY <1>1
    <3>2. Near(j).idx = j
      BY <1>1
    <3> QED
      BY <2>1, <3>1, <3>2
  <2>2. ASSUME NEW l, NEW m, NEW i, NEW j, Level(l, i) = Level(m, j) PROVE l = m /\ i = j
    <3>1. Level(l, i).level = l /\ Level(l, i).idx = i
      BY <1>1
    <3>2. Level(m, j).level = m /\ Level(m, j).idx = j
      BY <1>1
    <3> QED
      BY <2>2, <3>1, <3>2
  <2> QED
    BY <2>1, <2>2
<1>3. \A l, i, j : Level(l, i) # Near(j)
  <2> SUFFICES ASSUME NEW l, NEW i, NEW j, Level(l, i) = Near(j) PROVE FALSE
    OBVIOUS
  <2>1. Level(l, i).list = "level" /\ Near(j).list = "near"
    BY <1>1
  <2> QED
    BY <2>1
<1>4. /\ Free # Taken
      /\ \A i : Near(i) # Free /\ Near(i) # Taken
      /\ \A l, i : Level(l, i) # Free /\ Level(l, i) # Taken
  <2>1. Free # Taken
    BY <1>1
  <2>2. ASSUME NEW i PROVE Near(i) # Free /\ Near(i) # Taken
    <3>1. Near(i).list = "near"
      BY <1>1
    <3> QED
      BY <1>1, <3>1
  <2>3. ASSUME NEW l, NEW i PROVE Level(l, i) # Free /\ Level(l, i) # Taken
    <3>1. Level(l, i).list = "level"
      BY <1>1
    <3> QED
      BY <1>1, <3>1
  <2> QED
    BY <2>1, <2>2, <2>3
<1> QED
  BY <1>2, <1>3, <1>4

\* What timer_shift does with a timer linked at p that is not due before the new time c.
Advanced(p, e, c) ==
    IF \/ c = 0 /\ p = Level(3, 0)
       \/ /\ c # 0 /\ c % NearTicks = 0
          /\ p = LET l == Min({k \in 0..3 : LevelIdx(c, k) # 0})
                 IN  Level(l, LevelIdx(c, l))
    THEN add_node(e, c) ELSE p

LEMMA Advance ==
    ASSUME Sound, NEW t \in Nat, t + 1 < Wrap, NEW a \in Nat, t + 1 <= a, a < t + 1 + Wrap,
           NEW p, At(p, t, a)
    PROVE  At(Advanced(p, a % Wrap, t + 1), t + 1, a)
<1>1. PICK c \in Nat : c = t + 1
  OBVIOUS
<1>2. PICK m \in 0..4 :
             /\ \A k \in 0..4 : k < m => Shifted(c, k) = Shifted(t, k) + 1
             /\ \A k \in 0..4 : k >= m => Shifted(c, k) = Shifted(t, k)
             /\ m = 0 <=> c % NearTicks # 0
             /\ m > 0 => Min({k \in 0..3 : LevelIdx(c, k) # 0}) = m - 1
  BY <1>1, Tick
<1>3. /\ c \in 0..(Wrap - 1) /\ c # 0 /\ c <= a /\ a < c + Wrap /\ Lists \in Nat \ {0}
  BY <1>1, Sizes
<1>4. \A k \in Nat : /\ Shifted(a, k) \in Nat /\ Shifted(t, k) \in Nat
                     /\ Shifted(c, k) \in Nat /\ Shifted(c, k) <= Shifted(a, k)
  BY <1>3, ShiftedNat, ShiftedMono
<1>5. CASE m = 0
  <2>1. Advanced(p, a % Wrap, c) = p
    BY <1>2, <1>3, <1>5 DEF Advanced
  <2>2. \A k \in 0..4 : Shifted(c, k) = Shifted(t, k)
    BY <1>2, <1>5
  <2>3. At(p, c, a)
    <3>1. \A l \in 0..3 : l \in 0..4 /\ l + 1 \in 0..4
      OBVIOUS
    <3> QED
      BY <2>2, <3>1 DEF At
  <2> QED
    BY <2>1, <2>3, <1>1
<1>6. CASE m # 0
  <2>1. PICK j \in 0..3 : m = j + 1 /\ j = m - 1
    <3>1. m - 1 \in 0..3 /\ m = (m - 1) + 1
      BY <1>6
    <3> QED
      BY <3>1
  <2>2. Advanced(p, a % Wrap, c) = IF p = Level(j, LevelIdx(c, j))
                                   THEN add_node(a % Wrap, c) ELSE p
    <3>1. c % NearTicks = 0 /\ Min({k \in 0..3 : LevelIdx(c, k) # 0}) = j
      BY <1>2, <1>6, <2>1
    <3> QED
      BY <3>1, <1>3 DEF Advanced
  <2>3. CASE p = Near(a % NearTicks) /\ Shifted(a, 0) = Shifted(t, 0)
    <3>1. Shifted(c, 0) = Shifted(t, 0) + 1
      BY <1>2, <1>6
    <3>2. Shifted(c, 0) <= Shifted(a, 0) /\ Shifted(t, 0) \in Nat
      BY <1>4
    <3> QED
      BY <2>3, <3>1, <3>2
  <2>4. ASSUME NEW l \in 0..3, p = Level(l, LevelIdx(a, l)),
               Shifted(t, l) < Shifted(a, l),
               Shifted(a, l) < Shifted(t, l) + Lists,
               l < 3 => Shifted(a, l + 1) = Shifted(t, l + 1)
        PROVE  At(Advanced(p, a % Wrap, c), c, a)
    <3>1. CASE l < j
      <4>1. l + 1 \in 0..4 /\ l + 1 < m /\ l < 3 /\ l + 1 \in Nat
        BY <2>1, <3>1
      <4>2. PICK x \in Nat : x = Shifted(t, l + 1) /\ x = Shifted(a, l + 1)
        BY <4>1, <2>4, <1>4
      <4>3. x + 1 <= x
        BY <4>1, <4>2, <1>2, <1>4
      <4> QED
        BY <4>3
    <3>2. CASE l = j
      <4>1. PICK x \in Nat, y \in Nat, d \in Nat \ {0} :
              x = Shifted(a, j) /\ y = Shifted(c, j) /\ y <= x /\ d = Lists
        <5>1. j \in Nat
          OBVIOUS
        <5> QED
          BY <5>1, <1>3, <1>4
      <4>2. y = Shifted(t, j) + 1 /\ Shifted(t, j) \in Nat
        <5>1. j \in 0..4 /\ j < m /\ j \in Nat
          BY <2>1
        <5> QED
          BY <5>1, <4>1, <1>2, <1>4
      <4>3. x < y + d
        BY <4>1, <4>2, <3>2, <2>4
      <4>4. LevelIdx(a, j) = x % d /\ LevelIdx(c, j) = y % d
        BY <4>1 DEF LevelIdx, Lists
      <4>5. CASE x % d = y % d
        <5>1. x = y
          BY <4>1, <4>3, <4>5, ModSame
        <5>2. Shifted(a, 3) = Shifted(c, 3)
          <6>1. j \in 0..4 /\ 3 \in j..4
            OBVIOUS
          <6>2. Shifted(a, j) = Shifted(c, j)
            BY <5>1, <4>1
          <6> QED
            BY <6>1, <6>2, SameAbove
        <5>3. Shifted(a, 3) < Shifted(c, 3) + Lists
          BY <5>2, <1>3, <1>4
        <5>4. At(add_node(a % Wrap, c), c, a)
          BY <5>3, <1>3, AddNode
        <5>5. Advanced(p, a % Wrap, c) = add_node(a % Wrap, c)
          BY <2>2, <2>4, <3>2, <4>4, <4>5
        <5> QED
          BY <5>4, <5>5
      <4>6. CASE x % d # y % d
        <5>1. p # Level(j, LevelIdx(c, j))
          BY <2>4, <3>2, <4>4, <4>6, Lists4
        <5>2. Advanced(p, a % Wrap, c) = p
          BY <2>2, <5>1
        <5>3. y < x
          BY <4>1, <4>6
        <5>4. j < 3 => Shifted(a, j + 1) = Shifted(c, j + 1)
          <6>1. j + 1 \in 0..4 /\ j + 1 >= m
            BY <2>1
          <6> QED
            BY <6>1, <2>4, <3>2, <1>2
        <5>5. At(p, c, a)
          BY <5>3, <5>4, <4>1, <4>3, <3>2, <2>4 DEF At
        <5> QED
          BY <5>2, <5>5
      <4> QED
        BY <4>5, <4>6
    <3>3. CASE l > j
      <4>1. p # Level(j, LevelIdx(c, j))
        BY <3>3, <2>4, Lists4
      <4>2. l \in 0..4 /\ l >= m /\ l + 1 \in 0..4 /\ l + 1 >= m
        BY <2>1, <3>3
      <4>3. Shifted(c, l) = Shifted(t, l) /\ Shifted(c, l + 1) = Shifted(t, l + 1)
        BY <4>2, <1>2
      <4>4. At(p, c, a)
        BY <4>3, <2>4 DEF At
      <4> QED
        BY <4>1, <4>4, <2>2
    <3> QED
      BY <3>1, <3>2, <3>3
  <2> QED
    BY <2>3, <2>4, <1>1 DEF At
<1> QED
  BY <1>5, <1>6

\* When the time wraps, only lists of the highest level hold timers, and the first is moved.
LEMMA AdvanceWrap ==
    ASSUME Sound, NEW t \in Nat, t + 1 = Wrap, NEW a \in Nat, t + 1 <= a, a < t + 1 + Wrap,
           NEW p, At(p, t, a)
    PROVE  At(Advanced(p, a % Wrap, 0), 0, a - Wrap)
<1>1. /\ Wrap \in Nat \ {0} /\ Lists \in Nat \ {0} /\ t \in 0..(Wrap - 1) /\ a >= Wrap /\ a < 2 * Wrap
      /\ 0 \in 0..(Wrap - 1)
  BY Sizes
<1>2. PICK b \in 0..(Wrap - 1) : b = a - Wrap /\ a % Wrap = b
  BY <1>1, Beyond
<1>3. LevelIdx(a, 3) = LevelIdx(b, 3)
  BY <1>1, <1>2, Beyond
<1>4. b \in Nat /\ Shifted(b, 3) \in 0..(Lists - 1) /\ Shifted(t, 4) = 0
      /\ Shifted(0, 3) = 0
  <2>1. Unit(3) \in Nat \ {0} /\ Shifted(0, 3) = 0 \div Unit(3)
    BY Sizes, Units
  <2>2. 0 \div Unit(3) = 0
    <3>1. 0 = Unit(3) * 0 + 0 /\ 0 \in 0..(Unit(3) - 1) /\ 0 \in Nat
      BY <2>1
    <3> QED
      BY <3>1, <2>1, DivModIs
  <2> QED
    BY <1>1, <1>2, <2>1, <2>2, Above
<1>5. Shifted(a, 4) # Shifted(t, 4)
  <2>1. Shifted(a, 4) = a \div Wrap
    BY Sizes, Units
  <2>2. a \div Wrap = 1
    <3>1. a = Wrap * 1 + b /\ 1 \in Nat
      BY <1>1, <1>2
    <3> QED
      BY <3>1, <1>1, DivModIs
  <2> QED
    BY <2>1, <2>2, <1>4
<1>6. p = Level(3, LevelIdx(b, 3))
  <2>1. Shifted(a, 0) # Shifted(t, 0)
    <3>1. 0 \in 0..4 /\ 4 \in 0..4
      OBVIOUS
    <3> QED
      BY <3>1, <1>5, SameAbove
  <2>2. ASSUME NEW l \in 0..3, l < 3, Shifted(a, l + 1) = Shifted(t, l + 1) PROVE FALSE
    <3>1. PICK k \in 0..4 : k = l + 1
      BY <2>2
    <3>2. 4 \in k..4 /\ Shifted(a, k) = Shifted(t, k)
      BY <3>1, <2>2
    <3> QED
      BY <3>2, <1>5, SameAbove
  <2>3. PICK l \in 0..3 : /\ p = Level(l, LevelIdx(a, l))
                          /\ l < 3 => Shifted(a, l + 1) = Shifted(t, l + 1)
    BY <2>1 DEF At
  <2>4. l = 3
    BY <2>2, <2>3
  <2> QED
    BY <2>3, <2>4, <1>3
<1>7. PICK s \in 0..(Lists - 1) : s = Shifted(b, 3)
  BY <1>4
<1>8. LevelIdx(b, 3) = s
  <2>1. s = Lists * 0 + s /\ s \in Nat /\ 0 \in Nat
    BY <1>1
  <2>2. s % Lists = s
    BY <2>1, <1>1, DivModIs
  <2> QED
    BY <2>2, <1>7 DEF LevelIdx, Lists
<1>9. Advanced(p, b, 0) = IF s = 0 THEN add_node(b, 0) ELSE p
  BY <1>6, <1>8, Lists4 DEF Advanced
<1>10. CASE s = 0
  <2>1. 0 <= b /\ b < 0 + Wrap /\ Shifted(b, 3) < Shifted(0, 3) + Lists
    BY <1>1, <1>4, <1>7, <1>10
  <2>2. At(add_node(b, 0), 0, b)
    BY <2>1, <1>1, <1>4, AddNodeSoon
  <2> QED
    BY <2>2, <1>2, <1>9, <1>10
<1>11. CASE s # 0
  <2>1. At(p, 0, b)
    <3>1. Shifted(0, 3) < Shifted(b, 3) /\ Shifted(b, 3) < Shifted(0, 3) + Lists
      BY <1>1, <1>4, <1>7, <1>11
    <3>2. 3 \in 0..3 /\ ~(3 < 3)
      OBVIOUS
    <3> QED
      BY <3>1, <3>2, <1>6 DEF At
  <2> QED
    BY <2>1, <1>2, <1>9, <1>11
<1> QED
  BY <1>10, <1>11
-----------------------------------------------------------------------------
Linked(n) == node[n] # Free /\ node[n] # Taken

Places == {Free, Taken} \cup {Near(i) : i \in Nat}
          \cup {Level(l, i) : l \in 0..3, i \in Nat}
ClockTypes == /\ time \in 0..(Wrap - 1) /\ node \in [Node -> Places]
              /\ at \in {"sleep", "execute", "deliver", "shift"}
              /\ expire \in [Node -> Nat] /\ left \in [Node -> Nat]

\* A linked timer expires when its ticks are over, and is where its expiry and the time put it.
InWheel == \A n \in Node : Linked(n) =>
    /\ left[n] <= MaxTime
    /\ expire[n] = (time + left[n]) % Wrap
    /\ At(node[n], time, time + left[n])

\* What is cut off is due, and before the clock advances nothing due is left.
Prompt == \A n \in Node :
    /\ node[n] = Taken => left[n] = 0 /\ at = "deliver"
    /\ at \in {"sleep", "shift"} /\ Linked(n) => left[n] > 0

WheelInv == ClockTypes /\ InWheel /\ Prompt

LEMMA WheelInit == ASSUME Sound, TimerInit PROVE WheelInv
<1>1. Wrap \in Nat \ {0}
  BY Sizes
<1>2. /\ time = 0 /\ node = [n \in Node |-> Free] /\ expire = [n \in Node |-> 0] /\ at = "sleep"
      /\ left = [n \in Node |-> 0]
  BY DEF TimerInit
<1>3. ClockTypes
  BY <1>1, <1>2 DEF ClockTypes, Places
<1>4. \A n \in Node : node[n] = Free
  BY <1>2
<1> QED
  BY <1>3, <1>4, Lists4 DEF WheelInv, InWheel, Prompt, Linked

\* skynet_timeout links a timer ahead of the time.
LEMMA TimeoutAt ==
    ASSUME Sound, NEW t \in 0..(Wrap - 1), NEW d \in 1..MaxTime
    PROVE  At(add_node((t + d) % Wrap, t), t, t + d) /\ d \in Nat /\ d <= MaxTime /\ d > 0
<1>1. PICK u \in Nat \ {0}, h \in Nat \ {0} : /\ u = Unit(3) /\ Lists = 2 * h /\ MaxTime < u * h
                                              /\ Wrap = u * Lists /\ Wrap \in Nat /\ MaxTime \in Nat
  BY Sizes
<1>2. t \in Nat /\ d \in Nat /\ d <= MaxTime /\ d > 0
  BY <1>1
<1>3. PICK b \in Nat : b = u * h
  BY <1>1
<1>4. Wrap = 2 * b
  <2>1. u * (2 * h) = 2 * (u * h)
    OBVIOUS
  <2> QED
    BY <2>1, <1>1, <1>3
<1>5. PICK a \in Nat : a = t + d /\ t <= a /\ a < t + b /\ a < t + Wrap
  BY <1>1, <1>2, <1>3, <1>4
<1>6. PICK s \in Nat : s = Shifted(t, 3) /\ s = t \div u
  BY <1>1, <1>2, Units, ShiftedNat
<1>7. PICK x \in Nat : x = Shifted(a, 3) /\ x = a \div u
  BY <1>1, <1>2, Units, ShiftedNat
<1>8. x < s + 2 * h
  <2>1. PICK r \in 0..(u - 1) : t = u * s + r
    <3>1. t % u \in 0..(u - 1) /\ t = u * (t \div u) + (t % u)
      BY <1>2, DivMod
    <3> QED
      BY <3>1, <1>6
  <2>2. PICK v \in 0..(u - 1) : a = u * x + v
    <3>1. a % u \in 0..(u - 1) /\ a = u * (a \div u) + (a % u)
      BY DivMod
    <3> QED
      BY <3>1, <1>7
  <2>3. ASSUME x >= s + 2 * h PROVE FALSE
    <3>1. PICK z \in Nat : x = s + h + 1 + z
      <4>1. x - s - h - 1 \in Nat /\ x = s + h + 1 + (x - s - h - 1)
        BY <2>3
      <4> QED
        BY <4>1
    <3>2. u * x = u * s + u * h + u + u * z /\ u * z \in Nat /\ u * s \in Nat
      BY <3>1
    <3>3. PICK y \in Nat, w \in Nat : y = u * s /\ w = u * z
      BY <3>2
    <3>4. u * x = y + b + u + w
      BY <3>2, <3>3, <1>3
    <3> QED
      BY <3>3, <3>4, <2>1, <2>2, <1>5, <1>2
  <2> QED
    BY <2>3
<1>9. Shifted(a, 3) < Shifted(t, 3) + Lists
  BY <1>1, <1>6, <1>7, <1>8
<1>10. At(add_node(a % Wrap, t), t, a)
  BY <1>5, <1>9, AddNode
<1> QED
  BY <1>2, <1>5, <1>10

LEMMA AtPlaces == ASSUME Sound, NEW p, NEW t, NEW a \in Nat, At(p, t, a) PROVE p \in Places
<1>1. NearTicks \in Nat \ {0} /\ Lists \in Nat \ {0}
  BY Sizes
<1>2. a % NearTicks \in Nat
  <2>1. a % NearTicks \in 0..(NearTicks - 1)
    BY <1>1, DivMod
  <2> QED
    BY <2>1, <1>1
<1>3. ASSUME NEW l \in 0..3 PROVE LevelIdx(a, l) \in Nat
  <2>1. PICK x \in Nat : x = Shifted(a, l)
    <3>1. l \in Nat
      OBVIOUS
    <3> QED
      BY <3>1, ShiftedNat
  <2>2. x % Lists \in 0..(Lists - 1)
    BY <1>1, DivMod
  <2>3. LevelIdx(a, l) = x % Lists
    BY <2>1 DEF LevelIdx, Lists
  <2> QED
    BY <1>1, <2>2, <2>3
<1> QED
  BY <1>2, <1>3 DEF At, Places

LEMMA AtLinked == ASSUME NEW p, NEW t, NEW a, At(p, t, a) PROVE p # Free /\ p # Taken
BY Lists4 DEF At

LEMMA TimeoutStep ==
    ASSUME Sound, WheelInv, NEW n \in Node, NEW d \in 1..MaxTime, Timeout(n, d)
    PROVE  WheelInv'
<1>1. PICK e, p : e = (time + d) % Wrap /\ p = add_node(e, time)
  OBVIOUS
<1>2. /\ at \in {"sleep", "deliver"} /\ expire' = [expire EXCEPT ![n] = e]
      /\ node' = [node EXCEPT ![n] = p] /\ left' = [left EXCEPT ![n] = d] /\ UNCHANGED <<time, at, shifted>>
  BY <1>1 DEF Timeout, Wrap
<1>3. ClockTypes /\ time \in 0..(Wrap - 1) /\ time \in Nat /\ Wrap \in Nat \ {0}
  BY Sizes DEF WheelInv, ClockTypes
<1>4. At(p, time, time + d) /\ d \in Nat /\ d <= MaxTime /\ d > 0
  BY <1>1, <1>3, TimeoutAt
<1>5. p \in Places /\ p # Free /\ p # Taken
  <2>1. time + d \in Nat
    BY <1>3, <1>4
  <2> QED
    BY <2>1, <1>4, AtPlaces, AtLinked
<1>6. e \in Nat
  <2>1. PICK a \in Nat : a = time + d
    BY <1>3, <1>4
  <2>2. a % Wrap \in 0..(Wrap - 1)
    BY <1>3, DivMod
  <2> QED
    BY <1>1, <1>3, <2>1, <2>2
<1>7. ClockTypes'
  BY <1>2, <1>3, <1>4, <1>5, <1>6 DEF ClockTypes
<1>8. /\ node'[n] = p /\ left'[n] = d /\ expire'[n] = e
      /\ \A m \in Node : m # n => node'[m] = node[m] /\ left'[m] = left[m] /\ expire'[m] = expire[m]
  BY <1>2, <1>3 DEF ClockTypes
<1>9. InWheel'
  <2> SUFFICES ASSUME NEW m \in Node, Linked(m)'
               PROVE  /\ left'[m] <= MaxTime /\ expire'[m] = (time + left'[m]) % Wrap
                      /\ At(node'[m], time, time + left'[m])
    BY <1>2 DEF InWheel, At
  <2>1. CASE m = n
    BY <2>1, <1>1, <1>4, <1>8
  <2>2. CASE m # n
    BY <2>2, <1>8 DEF WheelInv, InWheel, Linked
  <2> QED
    BY <2>1, <2>2
<1>10. Prompt'
  <2> SUFFICES ASSUME NEW m \in Node
               PROVE  /\ node'[m] = Taken => left'[m] = 0 /\ at = "deliver"
                      /\ at \in {"sleep", "shift"} /\ Linked(m)' => left'[m] > 0
    BY <1>2 DEF Prompt
  <2>1. CASE m = n
    BY <2>1, <1>4, <1>5, <1>8
  <2>2. CASE m # n
    BY <2>2, <1>8 DEF WheelInv, Prompt, Linked
  <2> QED
    BY <2>1, <2>2
<1> QED
  BY <1>7, <1>9, <1>10 DEF WheelInv

\* The near list of this tick holds what is due, and all of it.
LEMMA DueNow ==
    ASSUME Sound, WheelInv, NEW n \in Node, Linked(n)
    PROVE  node[n] = Near(time % NearTicks) <=> left[n] = 0
<1>1. PICK t \in Nat, d \in Nat, w \in Nat \ {0} : t = time /\ d = left[n] /\ w = NearTicks
  <2>1. time \in Nat /\ left[n] \in Nat /\ NearTicks \in Nat \ {0}
    BY Sizes DEF WheelInv, ClockTypes
  <2> QED
    BY <2>1
<1>2. At(node[n], t, t + d)
  BY <1>1 DEF WheelInv, InWheel
<1>3. PICK a \in Nat : a = t + d
  OBVIOUS
<1>4. \A l \in 0..3 : Shifted(t, l) \in Nat
  <2>1. \A l \in Nat : Shifted(t, l) \in Nat
    BY ShiftedNat
  <2> QED
    BY <2>1
<1>5. CASE node[n] = Near(a % w) /\ Shifted(a, 0) = Shifted(t, 0)
  <2>1. Shifted(a, 0) = a \div w /\ Shifted(t, 0) = t \div w
    BY <1>1, Sizes, Units
  <2>2. node[n] = Near(t % w) <=> a % w = t % w
    BY <1>5, Lists4
  <2>3. a % w = t % w <=> a = t
    <3>1. PICK q \in Nat, r \in 0..(w - 1) : q = a \div w /\ r = a % w /\ a = w * q + r
      <4>1. a \div w \in Nat /\ a % w \in 0..(w - 1) /\ a = w * (a \div w) + (a % w)
        BY DivMod
      <4> QED
        BY <4>1
    <3>2. PICK s \in 0..(w - 1) : s = t % w /\ t = w * q + s
      <4>1. t % w \in 0..(w - 1) /\ t = w * (t \div w) + (t % w)
        BY DivMod
      <4> QED
        BY <4>1, <3>1, <2>1, <1>5
    <3> QED
      BY <3>1, <3>2
  <2>4. a = t <=> d = 0
    BY <1>3
  <2>5. node[n] = Near(t % w) <=> d = 0
    BY <2>2, <2>3, <2>4, Zenon
  <2> QED
    BY <2>5, <1>1, Zenon
<1>6. CASE \E l \in 0..3 : /\ node[n] = Level(l, LevelIdx(a, l))
                           /\ Shifted(t, l) < Shifted(a, l)
  <2>1. node[n] # Near(time % NearTicks)
    BY <1>6, Lists4
  <2>2. a # t
    BY <1>4, <1>6
  <2>3. d # 0
    BY <2>2, <1>3
  <2> QED
    BY <2>1, <2>3, <1>1, Zenon
<1> QED
  BY <1>1, <1>2, <1>3, <1>5, <1>6 DEF At

LEMMA ExecuteStep == ASSUME Sound, WheelInv, Execute PROVE WheelInv'
<1>1. /\ at = "execute" /\ UNCHANGED <<time, expire, shifted, left>>
      /\ at' = IF Now # {} THEN "deliver" ELSE IF shifted THEN "sleep" ELSE "shift"
      /\ node' = [n \in Node |-> IF n \in Now THEN Taken ELSE node[n]]
  BY DEF Execute
<1>2. Now = {n \in Node : node[n] = Near(time % NearTicks)}
  BY DEF Now, NearTicks
<1>3. \A n \in Node : n \in Now => Linked(n) /\ left[n] = 0
  <2> SUFFICES ASSUME NEW n \in Node, n \in Now PROVE Linked(n) /\ left[n] = 0
    OBVIOUS
  <2>1. node[n] = Near(time % NearTicks)
    BY <1>2
  <2>2. Linked(n)
    BY <2>1, Lists4 DEF Linked
  <2> QED
    BY <2>1, <2>2, DueNow
<1>4. \A n \in Node : node'[n] = IF n \in Now THEN Taken ELSE node[n]
  BY <1>1
<1>5. ClockTypes'
  <2>1. node' \in [Node -> Places]
    BY <1>1 DEF WheelInv, ClockTypes, Places
  <2>2. at' \in {"sleep", "execute", "deliver", "shift"}
    BY <1>1
  <2> QED
    BY <1>1, <2>1, <2>2 DEF WheelInv, ClockTypes
<1>6. InWheel'
  <2> SUFFICES ASSUME NEW m \in Node, Linked(m)'
               PROVE  /\ left[m] <= MaxTime /\ expire[m] = (time + left[m]) % Wrap
                      /\ At(node'[m], time, time + left[m])
    BY <1>1 DEF InWheel, At
  <2>1. m \notin Now /\ node'[m] = node[m] /\ Linked(m)
    BY <1>4 DEF Linked
  <2> QED
    BY <2>1 DEF WheelInv, InWheel
<1>7. Prompt'
  <2> SUFFICES ASSUME NEW m \in Node
               PROVE  /\ node'[m] = Taken => left[m] = 0 /\ at' = "deliver"
                      /\ at' \in {"sleep", "shift"} /\ Linked(m)' => left[m] > 0
    BY <1>1 DEF Prompt
  <2>1. node[m] # Taken
    BY <1>1 DEF WheelInv, Prompt
  <2>2. CASE m \in Now
    BY <2>2, <1>1, <1>3, <1>4 DEF Linked
  <2>3. CASE m \notin Now
    <3>1. node'[m] = node[m]
      BY <2>3, <1>4
    <3>2. Linked(m) => left[m] # 0
      BY <2>3, <1>2, DueNow
    <3>3. left[m] \in Nat
      BY DEF WheelInv, ClockTypes
    <3>4. Linked(m) => left[m] > 0
      BY <3>2, <3>3
    <3> QED
      BY <2>1, <3>1, <3>4 DEF Linked
  <2> QED
    BY <2>2, <2>3
<1> QED
  BY <1>5, <1>6, <1>7 DEF WheelInv

LEMMA DeliverStep == ASSUME Sound, WheelInv, NEW n \in Node, Deliver(n) PROVE WheelInv'
<1>1. /\ at = "deliver" /\ node[n] = Taken /\ UNCHANGED <<time, expire, shifted, left>>
      /\ node' = [node EXCEPT ![n] = Free]
      /\ at' = IF \E m \in Node \ {n} : node[m] = Taken THEN "deliver" ELSE "execute"
  BY DEF Deliver
<1>2. ClockTypes'
  <2>1. node' \in [Node -> Places]
    BY <1>1 DEF WheelInv, ClockTypes, Places
  <2> QED
    BY <1>1, <2>1 DEF WheelInv, ClockTypes
<1>3. node'[n] = Free /\ \A m \in Node : m # n => node'[m] = node[m]
  BY <1>1 DEF WheelInv, ClockTypes
<1>4. InWheel'
  <2> SUFFICES ASSUME NEW m \in Node, Linked(m)'
               PROVE  /\ left[m] <= MaxTime /\ expire[m] = (time + left[m]) % Wrap
                      /\ At(node'[m], time, time + left[m])
    BY <1>1 DEF InWheel, At
  <2>1. node'[m] = node[m] /\ Linked(m)
    BY <1>3 DEF Linked
  <2> QED
    BY <2>1 DEF WheelInv, InWheel
<1>5. Prompt'
  <2> SUFFICES ASSUME NEW m \in Node
               PROVE  /\ node'[m] = Taken => left[m] = 0 /\ at' = "deliver"
                      /\ at' \notin {"sleep", "shift"}
    BY <1>1 DEF Prompt
  <2>1. CASE m = n
    BY <2>1, <1>1, <1>3, Lists4
  <2>2. CASE m # n
    BY <2>2, <1>1, <1>3 DEF WheelInv, Prompt
  <2> QED
    BY <2>1, <2>2
<1> QED
  BY <1>2, <1>4, <1>5 DEF WheelInv

LEMMA ShiftStep == ASSUME Sound, WheelInv, Shift PROVE WheelInv'
<1>1. PICK c : c = (time + 1) % Wrap
  OBVIOUS
<1>2. /\ at = "shift" /\ at' = "execute" /\ time' = c /\ expire' = expire
      /\ node' = [n \in Node |-> IF n \in Moved(c) THEN add_node(expire[n], c) ELSE node[n]]
      /\ left' = [n \in Node |-> IF node[n] = Free \/ left[n] < 0 THEN left[n] ELSE left[n] - 1]
  BY <1>1 DEF Shift, Wrap
<1>3. /\ time \in Nat /\ time + 1 <= Wrap /\ Wrap \in Nat \ {0} /\ MaxTime \in Nat
      /\ \A n \in Node : left[n] \in Nat /\ expire[n] \in Nat /\ node[n] \in Places
      /\ expire \in [Node -> Nat]
  BY Sizes DEF WheelInv, ClockTypes
<1>4. /\ c \in 0..(Wrap - 1) /\ c \in Nat
      /\ time + 1 < Wrap => c = time + 1
      /\ time + 1 = Wrap => c = 0
  <2>1. PICK x \in Nat : x = time + 1
    BY <1>3
  <2>2. x % Wrap \in 0..(Wrap - 1)
    BY <1>3, DivMod
  <2>3. CASE x < Wrap
    <3>1. x = Wrap * 0 + x /\ x \in 0..(Wrap - 1) /\ 0 \in Nat
      BY <2>3, <1>3
    <3>2. x % Wrap = x
      BY <3>1, <1>3, DivModIs
    <3> QED
      BY <3>2, <2>1, <2>2, <2>3, <1>1, <1>3
  <2>4. CASE x = Wrap
    <3>1. x = Wrap * 1 + 0 /\ 0 \in 0..(Wrap - 1) /\ 1 \in Nat
      BY <2>4, <1>3
    <3>2. x % Wrap = 0
      BY <3>1, <1>3, DivModIs
    <3> QED
      BY <3>2, <2>1, <2>2, <2>4, <1>1, <1>3
  <2> QED
    BY <2>1, <2>3, <2>4, <1>3
<1>5. \A n \in Node : node'[n] = Advanced(node[n], expire[n], c)
  <2> SUFFICES ASSUME NEW n \in Node PROVE node'[n] = Advanced(node[n], expire[n], c)
    OBVIOUS
  <2>1. n \in Moved(c) <=>
          \/ c = 0 /\ node[n] = Level(3, 0)
          \/ /\ c # 0 /\ c % NearTicks = 0
             /\ node[n] = LET l == Min({k \in 0..3 : LevelIdx(c, k) # 0})
                          IN  Level(l, LevelIdx(c, l))
    BY DEF Moved, NearTicks
  <2>2. node'[n] = IF n \in Moved(c) THEN add_node(expire[n], c) ELSE node[n]
    BY <1>2
  <2> QED
    BY <2>1, <2>2 DEF Advanced
<1>6. \A n \in Node : node[n] # Taken
  BY <1>2 DEF WheelInv, Prompt
<1>7. \A n \in Node : node[n] = Free => node'[n] = Free /\ left'[n] = left[n]
  <2> SUFFICES ASSUME NEW n \in Node, node[n] = Free
               PROVE  node'[n] = Free /\ left'[n] = left[n]
    OBVIOUS
  <2>1. Advanced(node[n], expire[n], c) = node[n]
    BY Lists4 DEF Advanced
  <2> QED
    BY <2>1, <1>2, <1>5
<1>8. ASSUME NEW n \in Node, Linked(n)
      PROVE  /\ left'[n] \in Nat /\ left'[n] <= MaxTime /\ expire[n] = (c + left'[n]) % Wrap
             /\ At(node'[n], c, c + left'[n]) /\ c + left'[n] \in Nat
  <2>1. PICK t \in Nat, d \in Nat : t = time /\ d = left[n] /\ d > 0
    BY <1>2, <1>3, <1>8 DEF WheelInv, Prompt
  <2>2. d <= MaxTime /\ expire[n] = (t + d) % Wrap /\ At(node[n], t, t + d)
    BY <2>1, <1>8 DEF WheelInv, InWheel
  <2>3. PICK a \in Nat : a = t + d
    OBVIOUS
  <2>4. left'[n] = d - 1 /\ d - 1 \in Nat /\ d - 1 <= MaxTime
    BY <1>2, <1>3, <1>8, <2>1, <2>2 DEF Linked
  <2>5. t + 1 <= a /\ a < t + 1 + Wrap /\ t + 1 <= Wrap
    <3>1. MaxTime < Wrap
      <4>1. PICK u \in Nat \ {0}, h \in Nat \ {0} : Lists = 2 * h /\ MaxTime < u * h /\ Wrap = u * Lists
        BY Sizes
      <4>2. u * (2 * h) = u * h + u * h /\ u * h \in Nat
        OBVIOUS
      <4>3. PICK b \in Nat : b = u * h
        BY <4>2
      <4> QED
        BY <4>1, <4>2, <4>3, <1>3
    <3> QED
      BY <3>1, <2>1, <2>2, <2>3, <1>3
  <2>6. CASE t + 1 < Wrap
    <3>1. c = t + 1
      BY <2>1, <2>6, <1>4
    <3>2. c + left'[n] = a
      BY <3>1, <2>3, <2>4
    <3>3. At(Advanced(node[n], a % Wrap, t + 1), t + 1, a)
      BY <2>2, <2>3, <2>5, <2>6, Advance
    <3> QED
      BY <3>1, <3>2, <3>3, <2>2, <2>3, <2>4, <1>5
  <2>7. CASE t + 1 = Wrap
    <3>1. c = 0
      BY <2>1, <2>7, <1>4
    <3>2. c + left'[n] = a - Wrap /\ a - Wrap \in Nat
      BY <3>1, <2>1, <2>3, <2>4, <2>5, <2>7
    <3>3. At(Advanced(node[n], a % Wrap, 0), 0, a - Wrap)
      BY <2>2, <2>3, <2>5, <2>7, AdvanceWrap
    <3>4. a % Wrap = (a - Wrap) % Wrap
      <4>1. a >= Wrap /\ a < 2 * Wrap
        BY <2>5, <2>7, <1>3
      <4>2. PICK b \in 0..(Wrap - 1) : b = a - Wrap /\ a % Wrap = b
        BY <4>1, Beyond
      <4>3. b = Wrap * 0 + b /\ b \in Nat /\ 0 \in Nat
        BY <1>3
      <4>4. b % Wrap = b
        BY <4>3, <1>3, DivModIs
      <4> QED
        BY <4>2, <4>4
    <3>5. node'[n] = Advanced(node[n], a % Wrap, 0)
      BY <1>5, <2>2, <2>3, <3>1
    <3>6. expire[n] = (c + left'[n]) % Wrap
      BY <2>2, <2>3, <3>2, <3>4
    <3>7. At(node'[n], c, c + left'[n])
      BY <3>1, <3>2, <3>3, <3>5
    <3> QED
      BY <3>2, <3>6, <3>7, <2>4
  <2> QED
    BY <2>5, <2>6, <2>7, <1>3
<1>9. \A n \in Node : Linked(n)' => Linked(n)
  BY <1>6, <1>7 DEF Linked
<1>10. \A n \in Node : node'[n] # Taken
  <2> SUFFICES ASSUME NEW n \in Node PROVE node'[n] # Taken
    OBVIOUS
  <2>1. CASE node[n] = Free
    BY <2>1, <1>7, Lists4
  <2>2. CASE node[n] # Free
    <3>1. Linked(n)
      BY <2>2, <1>6 DEF Linked
    <3> QED
      BY <3>1, <1>8, AtLinked
  <2> QED
    BY <2>1, <2>2
<1>11. ClockTypes'
  <2>1. ASSUME NEW n \in Node PROVE left'[n] \in Nat /\ node'[n] \in Places
    <3>1. CASE node[n] = Free
      BY <3>1, <1>3, <1>7
    <3>2. CASE node[n] # Free
      <4>1. Linked(n)
        BY <3>2, <1>6 DEF Linked
      <4> QED
        BY <4>1, <1>8, AtPlaces
    <3> QED
      BY <3>1, <3>2
  <2>2. left' \in [Node -> Nat]
    BY <1>2, <2>1
  <2>3. node' \in [Node -> Places]
    BY <1>2, <2>1
  <2> QED
    BY <1>2, <1>3, <1>4, <2>2, <2>3 DEF ClockTypes
<1>12. InWheel'
  <2> SUFFICES ASSUME NEW m \in Node, Linked(m)'
               PROVE  /\ left'[m] <= MaxTime /\ expire[m] = (c + left'[m]) % Wrap
                      /\ At(node'[m], c, c + left'[m])
    BY <1>2 DEF InWheel, At
  <2> QED
    BY <1>8, <1>9
<1>13. Prompt'
  BY <1>2, <1>10 DEF Prompt
<1> QED
  BY <1>11, <1>12, <1>13 DEF WheelInv

LEMMA WheelStep == ASSUME Sound, WheelInv, [TimerNext]_wheel PROVE WheelInv'
<1>1. ASSUME NEW n \in Node, NEW d \in 1..MaxTime, Timeout(n, d) PROVE WheelInv'
  BY <1>1, TimeoutStep
<1>2. CASE Wake
  BY <1>2 DEF Wake, WheelInv, ClockTypes, InWheel, Prompt, Linked, At
<1>3. CASE Execute
  BY <1>3, ExecuteStep
<1>4. ASSUME NEW n \in Node, Deliver(n) PROVE WheelInv'
  BY <1>4, DeliverStep
<1>5. CASE Shift
  BY <1>5, ShiftStep
<1>6. CASE UNCHANGED wheel
  BY <1>6 DEF wheel, WheelInv, ClockTypes, InWheel, Prompt, Linked, At
<1> QED
  BY <1>1, <1>2, <1>3, <1>4, <1>5, <1>6 DEF TimerNext, TimerThread

\* A timer is delivered in the tick it was set for (timer_execute, timer_shift), whatever the
\* number of timers, the sizes of the lists and the times at which they are set.
THEOREM TimersOnTime == TimerSpec => []OnTime
<1>0. Sound
  BY TimerAssumption DEF Sound
<1>1. TimerInit => WheelInv
  BY <1>0, WheelInit
<1>2. WheelInv /\ [TimerNext]_wheel => WheelInv'
  BY <1>0, WheelStep
<1>3. WheelInv => OnTime
  <2> SUFFICES ASSUME WheelInv, NEW n \in Node
               PROVE  /\ node[n] = Taken => left[n] = 0
                      /\ at = "sleep" /\ node[n] # Free => left[n] > 0
    BY DEF OnTime
  <2> QED
    BY DEF WheelInv, Prompt, Linked
<1> QED
  BY <1>1, <1>2, <1>3, PTL DEF TimerSpec
=============================================================================

---------------------------- MODULE KernelLemmas ----------------------------
(***************************************************************************)
(* Lemmas several proofs rest on: about numbers and sequences, and about   *)
(* what the operators of fifo.c (module Fifo32) and of mtask.c (module     *)
(* Mtask) return, for every length of the buffer and every set of data,    *)
(* for every length of the array of a level and every set of tasks.        *)
(***************************************************************************)
EXTENDS Sequences, SequencesExt, Fifo32, Mtask,
        FiniteSetTheorems, SequenceTheorems, WellFoundedInduction, TLAPS

-----------------------------------------------------------------------------
(* Numbers. *)

\* A set of numbers has a smallest one.
LEMMA Smallest ==
  ASSUME NEW T \in SUBSET Nat, T # {}
  PROVE  \E n \in T : \A m \in T : n <= m
<1> DEFINE R == {ss \in Nat \X Nat : ss[1] < ss[2]}
<1>1. IsWellFoundedOn(R, Nat)
  BY NatLessThanWellFounded DEF OpToRel
<1>2. PICK n \in T : \A m \in T : ~(<<m, n>> \in R)
  <2> HIDE DEF R
  <2> QED BY <1>1, WFMin
<1>3. \A m \in T : ~(m < n)
  <2> SUFFICES ASSUME NEW m \in T PROVE ~(m < n)
    OBVIOUS
  <2>1. ~(<<m, n>> \in R)
    BY <1>2
  <2>2. <<m, n>> \in Nat \X Nat
    BY Zenon
  <2> QED BY <2>1, <2>2
<1> QED BY <1>3

\* Induction, with the set of the numbers that have the property.
LEMMA Induct ==
  ASSUME NEW T \in SUBSET Nat, 0 \in T, \A n \in T : n + 1 \in T
  PROVE  T = Nat
<1> SUFFICES ASSUME Nat \ T # {} PROVE FALSE
  OBVIOUS
<1>1. PICK n \in Nat \ T : \A m \in Nat \ T : n <= m
  BY Smallest
<1> QED BY <1>1

\* The first of some positions.
LEMMA MinFacts ==
  ASSUME NEW T \in SUBSET Nat, T # {}
  PROVE  Min(T) \in T /\ \A m \in T : Min(T) <= m
<1>1. \E n \in T : \A m \in T : n <= m
  BY Smallest
<1> QED BY <1>1 DEF Min

-----------------------------------------------------------------------------
(* Sequences. *)

\* Without the entry i, those behind it move up.
LEMMA RemoveAtFacts ==
  ASSUME NEW S, NEW s \in Seq(S), NEW i \in 1 .. Len(s)
  PROVE  /\ RemoveAt(s, i) \in Seq(S)
         /\ Len(RemoveAt(s, i)) = Len(s) - 1
         /\ \A j \in 1 .. Len(s) - 1 : RemoveAt(s, i)[j] = IF j < i THEN s[j] ELSE s[j + 1]
<1> DEFINE a == SubSeq(s, 1, i - 1)
           b == SubSeq(s, i + 1, Len(s))
           n == Len(s)
<1>1. n \in Nat /\ i \in 1 .. n /\ \A j \in 1 .. n : s[j] \in S
  BY ElementOfSeq
<1>2. /\ a \in Seq(S) /\ Len(a) = i - 1
      /\ \A j \in 1 .. i - 1 : a[j] = s[j]
  <2>1. \A j \in 1 .. i - 1 : s[j] \in S
    BY <1>1
  <2>2. /\ a \in Seq(S) /\ Len(a) = IF 1 <= i - 1 THEN i - 1 - 1 + 1 ELSE 0
        /\ \A j \in 1 .. i - 1 - 1 + 1 : a[j] = s[1 + j - 1]
    BY <1>1, <2>1, SubSeqProperties
  <2> HIDE DEF a
  <2> QED BY <1>1, <2>2
<1>3. /\ b \in Seq(S) /\ Len(b) = n - i
      /\ \A j \in 1 .. n - i : b[j] = s[i + j]
  <2>1. \A j \in i + 1 .. n : s[j] \in S
    BY <1>1
  <2>2. /\ b \in Seq(S) /\ Len(b) = IF i + 1 <= n THEN n - (i + 1) + 1 ELSE 0
        /\ \A j \in 1 .. n - (i + 1) + 1 : b[j] = s[i + 1 + j - 1]
    BY <1>1, <2>1, SubSeqProperties
  <2> HIDE DEF b, n
  <2> QED BY <1>1, <2>2
<1> DEFINE r == a \o b
<1>0. RemoveAt(s, i) = r
  BY DEF RemoveAt
<1> HIDE DEF a, b, n
<1>4. /\ r \in Seq(S) /\ Len(r) = Len(a) + Len(b)
      /\ \A j \in 1 .. Len(a) + Len(b) : r[j] = IF j <= Len(a) THEN a[j] ELSE b[j - Len(a)]
  BY <1>2, <1>3, ConcatProperties
<1> HIDE DEF r
<1>5. \A j \in 1 .. n - 1 : r[j] = IF j < i THEN s[j] ELSE s[j + 1]
  <2> SUFFICES ASSUME NEW j \in 1 .. n - 1
               PROVE  r[j] = IF j < i THEN s[j] ELSE s[j + 1]
    OBVIOUS
  <2>1. CASE j < i
    BY <2>1, <1>1, <1>2, <1>3, <1>4
  <2>2. CASE j >= i
    <3>1. j - (i - 1) \in 1 .. n - i /\ i + (j - (i - 1)) = j + 1
      BY <2>2, <1>1
    <3> QED BY <2>2, <3>1, <1>1, <1>2, <1>3, <1>4
  <2> QED BY <2>1, <2>2, <1>1
<1>6. Len(r) = n - 1
  BY <1>1, <1>2, <1>3, <1>4
<1> QED BY <1>0, <1>4, <1>5, <1>6 DEF n

\* An entry put in at i moves those from i on down.
LEMMA InsertAtFacts ==
  ASSUME NEW S, NEW s \in Seq(S), NEW i \in 1 .. Len(s) + 1, NEW e \in S
  PROVE  /\ InsertAt(s, i, e) \in Seq(S)
         /\ Len(InsertAt(s, i, e)) = Len(s) + 1
         /\ \A j \in 1 .. Len(s) + 1 :
              InsertAt(s, i, e)[j] = IF j < i THEN s[j] ELSE IF j = i THEN e ELSE s[j - 1]
<1> DEFINE a == SubSeq(s, 1, i - 1)
           b == SubSeq(s, i, Len(s))
           n == Len(s)
<1>1. n \in Nat /\ i \in 1 .. n + 1 /\ \A j \in 1 .. n : s[j] \in S
  BY ElementOfSeq
<1>2. /\ a \in Seq(S) /\ Len(a) = i - 1
      /\ \A j \in 1 .. i - 1 : a[j] = s[j]
  <2>1. \A j \in 1 .. i - 1 : s[j] \in S
    BY <1>1
  <2>2. /\ a \in Seq(S) /\ Len(a) = IF 1 <= i - 1 THEN i - 1 - 1 + 1 ELSE 0
        /\ \A j \in 1 .. i - 1 - 1 + 1 : a[j] = s[1 + j - 1]
    BY <1>1, <2>1, SubSeqProperties
  <2> HIDE DEF a
  <2> QED BY <1>1, <2>2
<1>3. /\ b \in Seq(S) /\ Len(b) = n + 1 - i
      /\ \A j \in 1 .. n + 1 - i : b[j] = s[i + j - 1]
  <2>1. \A j \in i .. n : s[j] \in S
    BY <1>1
  <2>2. /\ b \in Seq(S) /\ Len(b) = IF i <= n THEN n - i + 1 ELSE 0
        /\ \A j \in 1 .. n - i + 1 : b[j] = s[i + j - 1]
    BY <1>1, <2>1, SubSeqProperties
  <2> HIDE DEF b, n
  <2> QED BY <1>1, <2>2
<1>4. <<e>> \in Seq(S) /\ Len(<<e>>) = 1 /\ <<e>>[1] = e
  OBVIOUS
<1> DEFINE c == a \o <<e>>
<1> HIDE DEF a, b, n
<1>5. /\ c \in Seq(S) /\ Len(c) = i
      /\ \A j \in 1 .. i : c[j] = IF j < i THEN s[j] ELSE e
  <2>1. /\ c \in Seq(S) /\ Len(c) = Len(a) + 1
        /\ \A j \in 1 .. Len(a) + 1 : c[j] = IF j <= Len(a) THEN a[j] ELSE <<e>>[j - Len(a)]
    BY <1>2, <1>4, ConcatProperties
  <2> HIDE DEF c
  <2>2. \A j \in 1 .. i : c[j] = IF j < i THEN s[j] ELSE e
    <3> SUFFICES ASSUME NEW j \in 1 .. i
                 PROVE  c[j] = IF j < i THEN s[j] ELSE e
      OBVIOUS
    <3>1. CASE j < i
      BY <3>1, <2>1, <1>1, <1>2
    <3>2. CASE j = i
      <4>1. j - Len(a) = 1 /\ ~(j <= Len(a)) /\ j \in 1 .. Len(a) + 1
        BY <3>2, <1>1, <1>2
      <4>2. c[j] = <<e>>[1]
        BY <4>1, <2>1
      <4> QED BY <4>2, <3>2
    <3> QED BY <3>1, <3>2, <1>1
  <2> QED BY <2>1, <2>2, <1>1, <1>2
<1> HIDE DEF c
<1> DEFINE r == c \o b
<1>6. /\ r \in Seq(S) /\ Len(r) = Len(c) + Len(b)
      /\ \A j \in 1 .. Len(c) + Len(b) : r[j] = IF j <= Len(c) THEN c[j] ELSE b[j - Len(c)]
  BY <1>3, <1>5, ConcatProperties
<1>0. InsertAt(s, i, e) = r
  BY DEF InsertAt, a, b, c, n
<1> HIDE DEF r
<1>7. \A j \in 1 .. n + 1 : r[j] = IF j < i THEN s[j] ELSE IF j = i THEN e ELSE s[j - 1]
  <2> SUFFICES ASSUME NEW j \in 1 .. n + 1
               PROVE  r[j] = IF j < i THEN s[j] ELSE IF j = i THEN e ELSE s[j - 1]
    OBVIOUS
  <2>1. CASE j <= i
    BY <2>1, <1>1, <1>3, <1>5, <1>6
  <2>2. CASE j > i
    <3>1. j - i \in 1 .. n + 1 - i /\ i + (j - i) - 1 = j - 1
      BY <2>2, <1>1
    <3>2. r[j] = b[j - i]
      BY <2>2, <1>1, <1>3, <1>5, <1>6
    <3>3. b[j - i] = s[j - 1]
      BY <3>1, <1>3
    <3> QED BY <2>2, <3>2, <3>3, <1>1
  <2> QED BY <2>1, <2>2, <1>1
<1>8. Len(r) = n + 1
  BY <1>1, <1>3, <1>5, <1>6
<1> QED BY <1>0, <1>6, <1>7, <1>8 DEF n

-----------------------------------------------------------------------------
(* Arithmetic around the end of the buffer. *)

\* The position k after q in a ring of n slots.
Wrap(n, q, k) == IF q + k < n THEN q + k ELSE q + k - n

\* The slot after a.
After(n, a) == IF a + 1 = n THEN 0 ELSE a + 1

\* A position is a slot.
LEMMA WrapInRing ==
  ASSUME NEW n \in Nat \ {0}, NEW q \in 0 .. n - 1, NEW k \in 0 .. n
  PROVE  Wrap(n, q, k) \in 0 .. n - 1
  BY DEF Wrap

\* Stepping the far end.
LEMMA WrapFar ==
  ASSUME NEW n \in Nat \ {0}, NEW q \in 0 .. n - 1, NEW k \in 0 .. n - 1
  PROVE  Wrap(n, q, k + 1) = After(n, Wrap(n, q, k))
  BY DEF Wrap, After

\* Stepping the near end.
LEMMA WrapNear ==
  ASSUME NEW n \in Nat \ {0}, NEW q \in 0 .. n - 1, NEW k \in 1 .. n
  PROVE  Wrap(n, q, k) = Wrap(n, After(n, q), k - 1)
  BY DEF Wrap, After

\* Positions less than a turn apart are different slots.
LEMMA WrapDistinct ==
  ASSUME NEW n \in Nat \ {0}, NEW q \in 0 .. n - 1, NEW k \in 0 .. n - 1,
         NEW j \in 0 .. k - 1
  PROVE  Wrap(n, q, j) # Wrap(n, q, k)
  BY DEF Wrap

-----------------------------------------------------------------------------
(* The operations on a fifo32. *)

\* What the fields of a structure are, one by one.
LEMMA Fields ==
  ASSUME NEW n \in Nat \ {0}, NEW D, NEW t, NEW f \in Fifos(n, D, t)
  PROVE  /\ f.size = n /\ f.free \in 0 .. n /\ f.p \in 0 .. n - 1 /\ f.q \in 0 .. n - 1
         /\ f.buf \in [0 .. n - 1 -> D] /\ f.flags \in {0, 1}
         /\ FifoStatus(f) \in 0 .. n /\ FifoStatus(f) = n - f.free
         /\ \A k : FromHead(f, k) = Wrap(n, f.q, k)
  BY DEF Fifos, FifoStatus, FromHead, Wrap

\* The data held form a sequence as long as the status says.
LEMMA ItemsSeq ==
  ASSUME NEW n \in Nat \ {0}, NEW D, NEW t, NEW f \in Fifos(n, D, t)
  PROVE  /\ Items(f) \in Seq(D)
         /\ Len(Items(f)) = FifoStatus(f)
         /\ \A i \in 1 .. FifoStatus(f) : Items(f)[i] = f.buf[Wrap(n, f.q, i - 1)]
<1>1. \A i \in 1 .. FifoStatus(f) : f.buf[FromHead(f, i - 1)] \in D
  <2> SUFFICES ASSUME NEW i \in 1 .. FifoStatus(f)
               PROVE  f.buf[FromHead(f, i - 1)] \in D
    OBVIOUS
  <2>1. i - 1 \in 0 .. n /\ f.q \in 0 .. n - 1
    BY Fields
  <2>2. Wrap(n, f.q, i - 1) \in 0 .. n - 1
    BY <2>1, WrapInRing
  <2>3. FromHead(f, i - 1) = Wrap(n, f.q, i - 1)
    BY Fields
  <2> QED BY <2>2, <2>3, Fields
<1>2. FifoStatus(f) \in Nat
  BY Fields
<1>3. Items(f) \in Seq(D) /\ Len(Items(f)) = FifoStatus(f)
  BY <1>1, <1>2, IsASeq DEF Items
<1> QED BY <1>3, Fields DEF Items

\* fifo32_put into a queue with room keeps the structure sound and appends.
LEMMA PutAppends ==
  ASSUME NEW n \in Nat \ {0}, NEW D, NEW t, NEW f \in Fifos(n, D, t), NEW d \in D,
         Agree(f), f.free # 0
  PROVE  /\ FifoPut(f, d) \in Fifos(n, D, t)
         /\ FifoPut(f, d).task = f.task
         /\ FifoPut(f, d).flags = f.flags
         /\ Agree(FifoPut(f, d))
         /\ Items(FifoPut(f, d)) = Append(Items(f), d)
         /\ Len(Items(f)) < n
<1> DEFINE g == FifoPut(f, d)
           k == FifoStatus(f)
<1>1. g = [f EXCEPT !.buf = [@ EXCEPT ![f.p] = d], !.p = Succ(f, f.p), !.free = @ - 1]
  BY DEF FifoPut
<1>2. /\ f.free - 1 \in 0 .. n /\ Succ(f, f.p) \in 0 .. n - 1
      /\ [f.buf EXCEPT ![f.p] = d] \in [0 .. n - 1 -> D]
  BY Fields DEF Succ
<1>3. g \in Fifos(n, D, t)
  BY <1>1, <1>2 DEF Fifos
<1>4. /\ g.buf = [f.buf EXCEPT ![f.p] = d] /\ g.p = Succ(f, f.p)
      /\ g.free = f.free - 1 /\ g.q = f.q
      /\ g.task = f.task /\ g.flags = f.flags
  BY <1>1 DEF Fifos
<1>5. k \in 0 .. n - 1 /\ FifoStatus(g) = k + 1 /\ k + 1 \in 0 .. n
  <2> HIDE DEF g
  <2>1. k = n - f.free /\ f.free \in 1 .. n
    BY Fields
  <2>2. FifoStatus(g) = n - g.free
    BY <1>3, Fields
  <2> QED BY <2>1, <2>2, <1>4
<1> HIDE DEF g, k
<1>6. f.p = Wrap(n, f.q, k)
  BY Fields, <1>5 DEF Agree, k
<1>7. Agree(g)
  <2>1. g.p = Wrap(n, f.q, k + 1)
    <3>1. f.q \in 0 .. n - 1 /\ f.size = n
      BY Fields
    <3>2. Wrap(n, f.q, k + 1) = After(n, Wrap(n, f.q, k))
      BY <3>1, <1>5, WrapFar
    <3> QED BY <3>1, <3>2, <1>4, <1>6 DEF Succ, After
  <2> QED BY <2>1, <1>3, <1>4, <1>5, Fields DEF Agree
<1>8. Items(g) = Append(Items(f), d)
  <2>1. /\ Items(f) \in Seq(D) /\ Len(Items(f)) = k
        /\ \A i \in 1 .. k : Items(f)[i] = f.buf[Wrap(n, f.q, i - 1)]
    BY ItemsSeq DEF k
  <2>2. /\ Items(g) \in Seq(D) /\ Len(Items(g)) = k + 1
        /\ \A i \in 1 .. k + 1 : Items(g)[i] = g.buf[Wrap(n, f.q, i - 1)]
    <3>1. /\ Items(g) \in Seq(D) /\ Len(Items(g)) = FifoStatus(g)
          /\ \A i \in 1 .. FifoStatus(g) : Items(g)[i] = g.buf[Wrap(n, g.q, i - 1)]
      BY <1>3, ItemsSeq
    <3> QED BY <3>1, <1>4, <1>5
  <2>3. \A i \in 1 .. k + 1 : Items(g)[i] = Append(Items(f), d)[i]
    <3> SUFFICES ASSUME NEW i \in 1 .. k + 1
                 PROVE  Items(g)[i] = Append(Items(f), d)[i]
      OBVIOUS
    <3>1. CASE i = k + 1
      <4>1. Append(Items(f), d)[i] = d
        BY <3>1, <2>1, AppendProperties
      <4>2. Items(g)[i] = d
        BY <3>1, <2>2, <1>4, <1>5, <1>6, Fields
      <4> QED BY <4>1, <4>2
    <3>2. CASE i # k + 1
      <4>1. i \in 1 .. k /\ i - 1 \in 0 .. k - 1
        BY <3>2, <1>5
      <4>2. Append(Items(f), d)[i] = f.buf[Wrap(n, f.q, i - 1)]
        BY <4>1, <2>1, AppendProperties
      <4>3. Wrap(n, f.q, i - 1) # f.p
        <5>1. f.q \in 0 .. n - 1
          BY Fields
        <5> QED BY <4>1, <5>1, <1>5, <1>6, WrapDistinct
      <4>4. Items(g)[i] = f.buf[Wrap(n, f.q, i - 1)]
        BY <4>3, <2>2, <1>4, Fields
      <4> QED BY <4>2, <4>4
    <3> QED BY <3>1, <3>2
  <2>4. Append(Items(f), d) \in Seq(D) /\ Len(Append(Items(f), d)) = k + 1
    BY <2>1, AppendProperties
  <2> QED BY <2>2, <2>3, <2>4, SeqEqual
<1>9. Len(Items(f)) < n
  BY ItemsSeq, <1>5 DEF k
<1> QED BY <1>3, <1>4, <1>7, <1>8, <1>9 DEF g

\* fifo32_put into a full queue only raises the overrun flag.
LEMMA PutOverruns ==
  ASSUME NEW n \in Nat \ {0}, NEW D, NEW t, NEW f \in Fifos(n, D, t), NEW d \in D,
         Agree(f), f.free = 0
  PROVE  /\ FifoPut(f, d) \in Fifos(n, D, t)
         /\ FifoPut(f, d).task = f.task
         /\ FifoPut(f, d).flags = 1
         /\ Agree(FifoPut(f, d))
         /\ FifoStatus(FifoPut(f, d)) = FifoStatus(f)
         /\ Items(FifoPut(f, d)) = Items(f)
         /\ Len(Items(f)) = n
<1>1. FifoPut(f, d) = [f EXCEPT !.flags = 1]
  BY DEF FifoPut
<1>2. [f EXCEPT !.flags = 1] \in Fifos(n, D, t)
  BY DEF Fifos
<1>3. LET g == [f EXCEPT !.flags = 1]
      IN  /\ g.task = f.task /\ g.flags = 1 /\ g.p = f.p /\ g.q = f.q
          /\ g.free = f.free /\ g.size = f.size /\ g.buf = f.buf
  BY DEF Fifos
<1>4. FifoStatus(f) = n
  BY Fields
<1>5. Len(Items(f)) = n
  BY <1>4, ItemsSeq
<1> QED BY <1>1, <1>2, <1>3, <1>5 DEF Agree, Items, FromHead, FifoStatus

\* fifo32_get of a queue with data keeps the structure sound and removes the
\* oldest datum, which is the one it returns.
LEMMA GetTakesHead ==
  ASSUME NEW n \in Nat \ {0}, NEW D, NEW t, NEW f \in Fifos(n, D, t),
         Agree(f), FifoStatus(f) # 0
  PROVE  /\ FifoGet(f) \in Fifos(n, D, t)
         /\ FifoGet(f).task = f.task
         /\ FifoGet(f).flags = f.flags
         /\ Agree(FifoGet(f))
         /\ Items(f) # <<>>
         /\ GetResult(f) = Head(Items(f))
         /\ Items(FifoGet(f)) = Tail(Items(f))
<1> DEFINE g == FifoGet(f)
           k == FifoStatus(f)
<1>0. f.free # f.size /\ k \in 1 .. n /\ k \in 0 .. n
  BY Fields
<1>1. g = [f EXCEPT !.q = Succ(f, f.q), !.free = @ + 1]
  BY <1>0 DEF FifoGet
<1>2. f.free + 1 \in 0 .. n /\ Succ(f, f.q) \in 0 .. n - 1
  BY <1>0, Fields DEF Succ
<1>3. g \in Fifos(n, D, t)
  BY <1>1, <1>2 DEF Fifos
<1>4. /\ g.buf = f.buf /\ g.p = f.p /\ g.free = f.free + 1 /\ g.q = Succ(f, f.q)
      /\ g.task = f.task /\ g.flags = f.flags
  BY <1>1 DEF Fifos
<1>5. FifoStatus(g) = k - 1
  <2> HIDE DEF g
  <2> QED BY <1>3, <1>4, Fields
<1> HIDE DEF g, k
<1>6. \A j \in 1 .. n : Wrap(n, f.q, j) = Wrap(n, g.q, j - 1)
  <2> SUFFICES ASSUME NEW j \in 1 .. n
               PROVE  Wrap(n, f.q, j) = Wrap(n, g.q, j - 1)
    OBVIOUS
  <2>1. f.q \in 0 .. n - 1 /\ f.size = n
    BY Fields
  <2>2. Wrap(n, f.q, j) = Wrap(n, After(n, f.q), j - 1)
    BY <2>1, WrapNear
  <2> QED BY <2>1, <2>2, <1>4 DEF Succ, After
<1>7. Agree(g)
  <2>1. g.p = Wrap(n, f.q, k)
    BY <1>4, Fields DEF Agree, k
  <2>2. Wrap(n, f.q, k) = Wrap(n, g.q, k - 1)
    BY <1>0, <1>6
  <2>3. FromHead(g, k - 1) = Wrap(n, g.q, k - 1)
    BY <1>3, Fields
  <2> QED BY <2>1, <2>2, <2>3, <1>5 DEF Agree
<1>8. /\ Items(f) \in Seq(D) /\ Len(Items(f)) = k
      /\ \A i \in 1 .. k : Items(f)[i] = f.buf[Wrap(n, f.q, i - 1)]
  BY ItemsSeq DEF k
<1>9. Items(f) # <<>>
  BY <1>0, <1>8
<1>10. GetResult(f) = Head(Items(f))
  <2>1. Head(Items(f)) = Items(f)[1]
    BY <1>8, <1>9, HeadTailProperties
  <2>2. Items(f)[1] = f.buf[f.q]
    BY <1>0, <1>8, Fields DEF Wrap
  <2> QED BY <1>0, <2>1, <2>2 DEF GetResult
<1>11. Items(g) = Tail(Items(f))
  <2>1. /\ Items(g) \in Seq(D) /\ Len(Items(g)) = k - 1
        /\ \A i \in 1 .. k - 1 : Items(g)[i] = g.buf[Wrap(n, g.q, i - 1)]
    BY <1>3, <1>5, ItemsSeq
  <2>2. /\ Tail(Items(f)) \in Seq(D) /\ Len(Tail(Items(f))) = k - 1
        /\ \A i \in 1 .. k - 1 : Tail(Items(f))[i] = Items(f)[i + 1]
    BY <1>0, <1>8, <1>9, HeadTailProperties
  <2>3. \A i \in 1 .. k - 1 : Items(g)[i] = Tail(Items(f))[i]
    <3> SUFFICES ASSUME NEW i \in 1 .. k - 1
                 PROVE  Items(g)[i] = Tail(Items(f))[i]
      OBVIOUS
    <3>1. i + 1 \in 1 .. k /\ i \in 1 .. n /\ (i + 1) - 1 = i
      BY <1>0
    <3>2. Tail(Items(f))[i] = f.buf[Wrap(n, f.q, i)]
      BY <3>1, <2>2, <1>8
    <3> QED BY <3>1, <3>2, <2>1, <1>4, <1>6
  <2> QED BY <2>1, <2>2, <2>3, SeqEqual
<1> QED BY <1>3, <1>4, <1>7, <1>9, <1>10, <1>11 DEF g

-----------------------------------------------------------------------------
(* The run queue of one level. *)

\* A level holds at most as many tasks as there are to hold.
LEMMA WindowFits ==
  ASSUME NEW n \in Nat, NEW T, NEW tl \in LevelRecords(n, T), Distinct(tl),
         NEW S, IsFiniteSet(S), Window(tl) \subseteq S
  PROVE  tl.running <= Cardinality(S)
<1> DEFINE r == tl.running
           f == [i \in 0 .. r - 1 |-> tl.tasks[i]]
<1>1. r \in Nat
  BY DEF LevelRecords
<1>2. f \in [0 .. r - 1 -> S]
  BY DEF Window
<1>3. \A i, j \in 0 .. r - 1 : f[i] = f[j] => i = j
  BY DEF Distinct
<1>4. IsFiniteSet(0 .. r - 1) /\ Cardinality(0 .. r - 1) = r
  <2>1. 0 \in Int /\ r - 1 \in Int
    BY <1>1
  <2>2. IsFiniteSet(0 .. r - 1) /\ Cardinality(0 .. r - 1) = IF 0 > r - 1 THEN 0 ELSE r - 1 - 0 + 1
    BY <2>1, FS_Interval
  <2>3. CASE r = 0
    BY <2>2, <2>3
  <2>4. CASE r > 0
    BY <2>2, <2>4, <1>1
  <2> QED BY <2>3, <2>4, <1>1
<1>5. Cardinality(S) \in Nat
  BY FS_CardinalityType
<1> SUFFICES ASSUME Cardinality(S) < r PROVE FALSE
  BY <1>1, <1>5
<1>6. \E i, j \in 0 .. r - 1 : i # j /\ f[i] = f[j]
  <2> DEFINE D == 0 .. r - 1
  <2>1. IsFiniteSet(D) /\ Cardinality(S) < Cardinality(D) /\ f \in [D -> S]
    BY <1>2, <1>4
  <2> HIDE DEF D, f
  <2>2. \E x, y \in D : x # y /\ f[x] = f[y]
    BY <2>1, FS_PigeonHole
  <2> QED BY <2>2 DEF D
<1> QED BY <1>3, <1>6

\* task_add appends and keeps everything else.
LEMMA AddFacts ==
  ASSUME NEW n \in Nat, NEW T, NEW tl \in LevelRecords(n, T), Distinct(tl),
         NEW t \in T, t \notin Window(tl), tl.running < n
  PROVE  /\ LevelAdd(tl, t) \in LevelRecords(n, T)
         /\ LevelAdd(tl, t).running = tl.running + 1
         /\ LevelAdd(tl, t).now = tl.now
         /\ \A i \in 0 .. tl.running - 1 : LevelAdd(tl, t).tasks[i] = tl.tasks[i]
         /\ LevelAdd(tl, t).tasks[tl.running] = t
         /\ Window(LevelAdd(tl, t)) = Window(tl) \cup {t}
         /\ Distinct(LevelAdd(tl, t))
<1> DEFINE a == LevelAdd(tl, t)
           r == tl.running
<1>1. r \in 0 .. n - 1 /\ r + 1 \in 0 .. n
      /\ [tl.tasks EXCEPT ![r] = t] \in [0 .. n - 1 -> T]
  BY DEF LevelRecords
<1>2. a = [tl EXCEPT !.tasks = [tl.tasks EXCEPT ![r] = t], !.running = r + 1]
  BY DEF LevelAdd
<1>3. a \in LevelRecords(n, T)
  BY <1>1, <1>2 DEF LevelRecords
<1>4. a.running = r + 1 /\ a.now = tl.now /\ a.tasks = [tl.tasks EXCEPT ![r] = t]
      /\ tl.tasks \in [0 .. n - 1 -> T]
  BY <1>2 DEF LevelRecords
<1> HIDE DEF a
<1>5. a.tasks[r] = t /\ \A i \in 0 .. r - 1 : a.tasks[i] = tl.tasks[i]
  BY <1>1, <1>4
<1>6. Window(a) = Window(tl) \cup {t}
  <2>1. ASSUME NEW i \in 0 .. r
        PROVE  a.tasks[i] \in Window(tl) \cup {t}
    <3>1. CASE i = r
      BY <3>1, <1>5
    <3>2. CASE i # r
      BY <3>2, <1>1, <1>5 DEF Window
    <3> QED BY <3>1, <3>2
  <2>2. t \in Window(a)
    BY <1>1, <1>4, <1>5 DEF Window
  <2>3. ASSUME NEW i \in 0 .. r - 1
        PROVE  tl.tasks[i] \in Window(a)
    BY <1>1, <1>4, <1>5 DEF Window
  <2>4. Window(a) \subseteq Window(tl) \cup {t}
    BY <1>1, <1>4, <2>1 DEF Window
  <2>5. Window(tl) \subseteq Window(a)
    BY <2>3 DEF Window
  <2> QED BY <2>2, <2>4, <2>5
<1>7. Distinct(a)
  <2> SUFFICES ASSUME NEW i \in 0 .. r, NEW j \in 0 .. r, a.tasks[i] = a.tasks[j]
               PROVE  i = j
    BY <1>1, <1>4 DEF Distinct
  <2>1. \A k \in 0 .. r - 1 : a.tasks[k] # t
    BY <1>5 DEF Window
  <2>2. CASE i = r \/ j = r
    BY <2>1, <2>2, <1>1, <1>5
  <2>3. CASE i # r /\ j # r
    BY <2>3, <1>1, <1>5 DEF Distinct
  <2> QED BY <2>2, <2>3
<1> QED BY <1>3, <1>4, <1>5, <1>6, <1>7 DEF a

\* The search loop of task_remove finds the one entry.
LEMMA FindFacts ==
  ASSUME NEW n \in Nat, NEW T, NEW tl \in LevelRecords(n, T), Distinct(tl),
         NEW k \in 0 .. tl.running - 1
  PROVE  Find(tl, tl.tasks[k]) = k
<1> DEFINE P(i) == /\ i < tl.running => tl.tasks[i] = tl.tasks[k]
                   /\ \A j \in 0 .. i - 1 : tl.tasks[j] # tl.tasks[k]
<1>1. tl.running \in Nat
  BY DEF LevelRecords
<1>2. P(k) /\ k \in 0 .. tl.running
  BY <1>1 DEF Distinct
<1>3. ASSUME NEW i \in 0 .. tl.running, P(i)
      PROVE  i = k
  <2>1. i < tl.running
    BY <1>1, <1>3
  <2> QED BY <2>1, <1>1, <1>3 DEF Distinct
<1>4. Find(tl, tl.tasks[k]) = CHOOSE i \in 0 .. tl.running : P(i)
  BY DEF Find
<1> HIDE DEF P
<1> QED BY <1>2, <1>3, <1>4

\* task_remove takes out the entry and closes the gap; the entry that now
\* points at stays the same unless it is the one removed; the array of a level
\* that becomes empty is not touched.
LEMMA RemoveFacts ==
  ASSUME NEW n \in Nat, NEW T, NEW tl \in LevelRecords(n, T), Distinct(tl),
         tl.now < tl.running, NEW t \in Window(tl)
  PROVE  /\ LevelRemove(tl, t) \in LevelRecords(n, T)
         /\ LevelRemove(tl, t).running = tl.running - 1
         /\ Window(LevelRemove(tl, t)) = Window(tl) \ {t}
         /\ Distinct(LevelRemove(tl, t))
         /\ \/ LevelRemove(tl, t).running > LevelRemove(tl, t).now
            \/ LevelRemove(tl, t).running = 0 /\ LevelRemove(tl, t).now = 0
         /\ tl.tasks[tl.now] # t =>
              LevelRemove(tl, t).tasks[LevelRemove(tl, t).now] = tl.tasks[tl.now]
         /\ tl.running = 1 => LevelRemove(tl, t).tasks = tl.tasks
<1> DEFINE b == LevelRemove(tl, t)
           r == tl.running
<1>1. PICK k \in 0 .. r - 1 : t = tl.tasks[k]
  BY DEF Window
<1>2. Find(tl, t) = k
  BY <1>1, FindFacts
<1> DEFINE moved == IF k < tl.now THEN tl.now - 1 ELSE tl.now
           shifted == [j \in DOMAIN tl.tasks |->
                         IF k <= j /\ j < r - 1 THEN tl.tasks[j + 1] ELSE tl.tasks[j]]
<1>3. b = [running |-> r - 1, now |-> IF moved >= r - 1 THEN 0 ELSE moved, tasks |-> shifted]
  BY <1>2 DEF LevelRemove
<1>4. r \in 1 .. n /\ tl.now \in 0 .. r - 1 /\ tl.tasks \in [0 .. n - 1 -> T]
      /\ DOMAIN tl.tasks = 0 .. n - 1
  BY <1>1 DEF LevelRecords
<1>5. shifted \in [0 .. n - 1 -> T]
  BY <1>4
<1>6. b \in LevelRecords(n, T)
  BY <1>3, <1>4, <1>5 DEF LevelRecords
<1>7. b.running = r - 1 /\ b.tasks = shifted /\ b.now = (IF moved >= r - 1 THEN 0 ELSE moved)
  BY <1>3
<1>8. /\ \A j \in 0 .. k - 1 : b.tasks[j] = tl.tasks[j]
      /\ \A j \in k .. r - 2 : b.tasks[j] = tl.tasks[j + 1]
  BY <1>1, <1>4, <1>7
<1>9. r = 1 => b.tasks = tl.tasks
  BY <1>1, <1>4, <1>7
<1> HIDE DEF b, shifted
<1>10. Window(b) = Window(tl) \ {t}
  <2>1. ASSUME NEW j \in 0 .. r - 2
        PROVE  b.tasks[j] \in Window(tl) \ {t}
    <3>1. CASE j < k
      <4>1. j \in 0 .. r - 1 /\ j # k /\ b.tasks[j] = tl.tasks[j]
        BY <3>1, <1>1, <1>4, <1>8
      <4> QED BY <4>1, <1>1 DEF Window, Distinct
    <3>2. CASE j >= k
      <4>1. j + 1 \in 0 .. r - 1 /\ j + 1 # k /\ b.tasks[j] = tl.tasks[j + 1]
        BY <3>2, <1>1, <1>4, <1>8
      <4> QED BY <4>1, <1>1 DEF Window, Distinct
    <3> QED BY <3>1, <3>2, <1>1, <1>4
  <2>2. ASSUME NEW j \in 0 .. r - 1, tl.tasks[j] # t
        PROVE  tl.tasks[j] \in Window(b)
    <3>1. CASE j < k
      <4>1. j \in 0 .. b.running - 1 /\ b.tasks[j] = tl.tasks[j]
        BY <3>1, <1>1, <1>4, <1>7, <1>8
      <4> QED BY <4>1 DEF Window
    <3>2. CASE j > k
      <4>1. j - 1 \in 0 .. b.running - 1 /\ b.tasks[j - 1] = tl.tasks[j]
        BY <3>2, <1>1, <1>4, <1>7, <1>8
      <4> QED BY <4>1 DEF Window
    <3> QED BY <3>1, <3>2, <2>2, <1>1, <1>4
  <2>3. Window(b) \subseteq Window(tl) \ {t}
    <3> SUFFICES ASSUME NEW x \in Window(b)
                 PROVE  x \in Window(tl) \ {t}
      OBVIOUS
    <3>1. PICK j \in 0 .. b.running - 1 : x = b.tasks[j]
      BY DEF Window
    <3>2. j \in 0 .. r - 2
      BY <1>4, <1>7
    <3> QED BY <2>1, <3>1, <3>2
  <2>4. Window(tl) \ {t} \subseteq Window(b)
    BY <2>2, <1>4 DEF Window
  <2> QED BY <2>3, <2>4
<1>11. Distinct(b)
  <2> SUFFICES ASSUME NEW i \in 0 .. r - 2, NEW j \in 0 .. r - 2, b.tasks[i] = b.tasks[j]
               PROVE  i = j
    BY <1>4, <1>7 DEF Distinct
  <2> DEFINE old(m) == IF m < k THEN m ELSE m + 1
  <2>1. ASSUME NEW m \in 0 .. r - 2
        PROVE  old(m) \in 0 .. r - 1 /\ b.tasks[m] = tl.tasks[old(m)]
    <3>1. CASE m < k
      <4>1. old(m) = m /\ m \in 0 .. k - 1 /\ m \in 0 .. r - 1
        BY <3>1, <1>1, <1>4
      <4> HIDE DEF old
      <4> QED BY <4>1, <1>8
    <3>2. CASE ~(m < k)
      <4>1. old(m) = m + 1 /\ m \in k .. r - 2 /\ m + 1 \in 0 .. r - 1
        BY <3>2, <1>1, <1>4
      <4> HIDE DEF old
      <4> QED BY <4>1, <1>8
    <3> QED BY <3>1, <3>2
  <2>2. old(i) = old(j)
    <3> HIDE DEF old
    <3> QED BY <2>1 DEF Distinct
  <2> QED BY <2>2, <1>1, <1>4
<1>12. \/ b.running > b.now
       \/ b.running = 0 /\ b.now = 0
  <2>1. moved \in 0 .. r - 1
    BY <1>1, <1>4
  <2>2. CASE moved >= r - 1
    <3>1. b.now = 0
      BY <2>2, <1>7
    <3> QED BY <3>1, <1>4, <1>7
  <2>3. CASE moved < r - 1
    <3>1. b.now = moved
      BY <2>1, <2>3, <1>4, <1>7
    <3>2. b.now < b.running
      <4> HIDE DEF moved
      <4> QED BY <2>3, <3>1, <1>7
    <3> QED BY <3>2
  <2> QED BY <2>1, <2>2, <2>3, <1>4
<1>13. ASSUME tl.tasks[tl.now] # t
       PROVE  b.tasks[b.now] = tl.tasks[tl.now]
  <2>1. tl.now # k
    BY <1>1, <1>13
  <2>2. CASE tl.now < k
    <3>1. b.now = tl.now /\ tl.now \in 0 .. k - 1
      <4>1. moved = tl.now /\ ~(tl.now >= r - 1) /\ tl.now \in 0 .. k - 1
        BY <2>2, <1>1, <1>4
      <4> HIDE DEF moved
      <4> QED BY <4>1, <1>7
    <3> QED BY <3>1, <1>8
  <2>3. CASE tl.now > k
    <3>1. b.now = tl.now - 1 /\ tl.now - 1 \in k .. r - 2
      BY <2>3, <1>1, <1>4, <1>7
    <3>2. b.tasks[tl.now - 1] = tl.tasks[tl.now - 1 + 1]
      BY <3>1, <1>8
    <3>3. tl.now - 1 + 1 = tl.now
      BY <1>4
    <3> QED BY <3>1, <3>2, <3>3
  <2> QED BY <2>1, <2>2, <2>3, <1>1, <1>4
<1> QED BY <1>6, <1>7, <1>9, <1>10, <1>11, <1>12, <1>13 DEF b

\* Advancing changes only now, and keeps it in the window.
LEMMA AdvanceFacts ==
  ASSUME NEW n \in Nat, NEW T, NEW tl \in LevelRecords(n, T), tl.now < n
  PROVE  /\ LevelAdvance(tl) \in LevelRecords(n, T)
         /\ LevelAdvance(tl).running = tl.running
         /\ LevelAdvance(tl).tasks = tl.tasks
         /\ tl.now < tl.running => LevelAdvance(tl).now < tl.running
<1>1. /\ LevelAdvance(tl) = [tl EXCEPT !.now = IF tl.now + 1 = tl.running THEN 0 ELSE tl.now + 1]
      /\ (IF tl.now + 1 = tl.running THEN 0 ELSE tl.now + 1) \in 0 .. n
  BY DEF LevelRecords, LevelAdvance
<1> QED BY <1>1 DEF LevelRecords
=============================================================================

---------------------------- MODULE MemoryProofs ----------------------------
(***************************************************************************)
(* The memory manager, for every length of the table, every page size, any *)
(* two regions and all requests that are not empty: the table stays in     *)
(* order with gaps between its blocks, memory is never given out twice,    *)
(* what mem reports is right, and memory.c implements a heap that refuses  *)
(* a request or loses memory only when there is no other way.              *)
(***************************************************************************)
EXTENDS MemoryPool, KernelLemmas

-----------------------------------------------------------------------------
(* Tables of free blocks. *)

Blocks == [addr : Nat, size : Nat \ {0}]

\* The address behind a block.
End(b) == b.addr + b.size

\* A table in order, with a gap between any two blocks.
Table(F) == /\ F \in Seq(Blocks)
            /\ \A i, j \in 1 .. Len(F) : i < j => End(F[i]) < F[j].addr

\* The addresses of a table.
Covered(F) == UNION {Addresses(F[i]) : i \in DOMAIN F}

\* The addresses from a on, n of them.
Span(a, n) == a .. a + n - 1

\* The fields of a block, its end and its addresses.
LEMMA BlockFields ==
  ASSUME NEW a \in Nat, NEW n \in Nat \ {0}
  PROVE  /\ Block(a, n) \in Blocks /\ Block(a, n).addr = a /\ Block(a, n).size = n
         /\ End(Block(a, n)) = a + n /\ Addresses(Block(a, n)) = Span(a, n)
  BY DEF Block, Blocks, End, Addresses, Span

\* The entries of a table, one by one.
LEMMA TableFields ==
  ASSUME NEW F, Table(F)
  PROVE  /\ F \in Seq(Blocks) /\ Len(F) \in Nat /\ DOMAIN F = 1 .. Len(F)
         /\ \A i \in 1 .. Len(F) :
              /\ F[i] \in Blocks /\ F[i].addr \in Nat /\ F[i].size \in Nat \ {0}
              /\ End(F[i]) \in Nat /\ F[i].addr < End(F[i])
              /\ F[i].size = End(F[i]) - F[i].addr
         /\ \A i, j \in 1 .. Len(F) : i < j => End(F[i]) < F[j].addr
<1>1. F \in Seq(Blocks) /\ Len(F) \in Nat /\ DOMAIN F = 1 .. Len(F)
  BY DEF Table
<1>2. \A i \in 1 .. Len(F) : F[i] \in Blocks
  BY <1>1, ElementOfSeq
<1> QED BY <1>1, <1>2 DEF Table, Blocks, End

\* The addresses of a table are those inside one of its blocks.
LEMMA InTable ==
  ASSUME NEW F, Table(F), NEW x
  PROVE  x \in Covered(F) <=> \E i \in 1 .. Len(F) :
                                x \in Nat /\ F[i].addr <= x /\ x < End(F[i])
<1>1. \A i \in 1 .. Len(F) :
        x \in Addresses(F[i]) <=> x \in Nat /\ F[i].addr <= x /\ x < End(F[i])
  <2> SUFFICES ASSUME NEW i \in 1 .. Len(F)
               PROVE  x \in Addresses(F[i]) <=> x \in Nat /\ F[i].addr <= x /\ x < End(F[i])
    OBVIOUS
  <2>1. F[i].addr \in Nat /\ F[i].size \in Nat
    BY TableFields
  <2> QED BY <2>1 DEF Addresses, End
<1>2. DOMAIN F = 1 .. Len(F)
  BY TableFields
<1> QED BY <1>1, <1>2 DEF Covered

\* The first bytes of an entry are taken out.
LEMMA ShrinkFacts ==
  ASSUME NEW F, Table(F), NEW i \in 1 .. Len(F), NEW n \in Nat \ {0}, n < F[i].size
  PROVE  LET G == [F EXCEPT ![i] = Block(F[i].addr + n, F[i].size - n)]
         IN  /\ Table(G) /\ Len(G) = Len(F)
             /\ Covered(G) = Covered(F) \ Span(F[i].addr, n)
<1> DEFINE b == Block(F[i].addr + n, F[i].size - n)
           G == [F EXCEPT ![i] = b]
<1>1. F[i].addr \in Nat /\ F[i].size \in Nat /\ End(F[i]) = F[i].addr + F[i].size
  BY TableFields DEF End
<1>2. b \in Blocks /\ b.addr = F[i].addr + n /\ End(b) = End(F[i])
  <2>1. F[i].addr + n \in Nat /\ F[i].size - n \in Nat \ {0}
    BY <1>1
  <2>2. /\ b \in Blocks /\ b.addr = F[i].addr + n
        /\ End(b) = (F[i].addr + n) + (F[i].size - n)
    BY <2>1, BlockFields
  <2> HIDE DEF b
  <2> QED BY <2>2, <1>1
<1>3. F \in Seq(Blocks)
  BY DEF Table
<1> HIDE DEF b
<1>4. /\ G \in Seq(Blocks) /\ Len(G) = Len(F)
      /\ \A j \in 1 .. Len(F) : G[j] = IF j = i THEN b ELSE F[j]
  BY <1>2, <1>3, ExceptSeq
<1> HIDE DEF G
<1>5. \A j \in 1 .. Len(F) : /\ End(G[j]) = End(F[j])
                             /\ G[j].addr = IF j = i THEN F[i].addr + n ELSE F[j].addr
  BY <1>2, <1>4
<1>6. Table(G)
  <2> SUFFICES ASSUME NEW j \in 1 .. Len(F), NEW k \in 1 .. Len(F), j < k
               PROVE  End(G[j]) < G[k].addr
    BY <1>4 DEF Table
  <2>1. End(F[j]) < F[k].addr /\ End(F[j]) \in Nat /\ F[k].addr \in Nat
    BY TableFields
  <2>2. End(G[j]) = End(F[j]) /\ (G[k].addr = F[k].addr \/ G[k].addr = F[k].addr + n)
    BY <1>5
  <2> QED BY <2>1, <2>2
<1>7. \A x : x \in Covered(G) <=> x \in Covered(F) \ Span(F[i].addr, n)
  <2> SUFFICES ASSUME NEW x
               PROVE  x \in Covered(G) <=> x \in Covered(F) \ Span(F[i].addr, n)
    OBVIOUS
  <2>1. x \in Covered(G) <=> \E j \in 1 .. Len(F) : x \in Nat /\ G[j].addr <= x /\ x < End(G[j])
    BY <1>4, <1>6, InTable
  <2>2. x \in Covered(F) <=> \E j \in 1 .. Len(F) : x \in Nat /\ F[j].addr <= x /\ x < End(F[j])
    BY InTable
  <2>3. x \in Span(F[i].addr, n) <=> x \in Nat /\ F[i].addr <= x /\ x < F[i].addr + n
    BY <1>1 DEF Span
  <2>4. ASSUME x \in Covered(G) PROVE x \in Covered(F) \ Span(F[i].addr, n)
    <3>1. PICK j \in 1 .. Len(F) : x \in Nat /\ G[j].addr <= x /\ x < End(G[j])
      BY <2>1, <2>4
    <3>2. CASE j = i
      BY <3>1, <3>2, <1>1, <1>5, <2>2, <2>3
    <3>3. CASE j # i
      <4>1. F[j].addr <= x /\ x < End(F[j])
        BY <3>1, <3>3, <1>5
      <4>2. ~(F[i].addr <= x /\ x < End(F[i]))
        BY <3>1, <3>3, <4>1, TableFields
      <4> QED BY <3>1, <4>1, <4>2, <1>1, <2>2, <2>3
    <3> QED BY <3>2, <3>3
  <2>5. ASSUME x \in Covered(F) \ Span(F[i].addr, n) PROVE x \in Covered(G)
    <3>1. PICK j \in 1 .. Len(F) : x \in Nat /\ F[j].addr <= x /\ x < End(F[j])
      BY <2>2, <2>5
    <3> QED BY <3>1, <1>1, <1>5, <2>1, <2>3, <2>5
  <2> QED BY <2>4, <2>5
<1> QED BY <1>4, <1>6, <1>7 DEF G, b

\* An entry is taken out.
LEMMA DropFacts ==
  ASSUME NEW F, Table(F), NEW i \in 1 .. Len(F)
  PROVE  /\ Table(RemoveAt(F, i)) /\ Len(RemoveAt(F, i)) = Len(F) - 1
         /\ Covered(RemoveAt(F, i)) = Covered(F) \ Span(F[i].addr, F[i].size)
<1> DEFINE G == RemoveAt(F, i)
<1>1. F \in Seq(Blocks) /\ Len(F) \in Nat
  BY TableFields
<1>2. /\ G \in Seq(Blocks) /\ Len(G) = Len(F) - 1
      /\ \A j \in 1 .. Len(F) - 1 : G[j] = IF j < i THEN F[j] ELSE F[j + 1]
  BY <1>1, RemoveAtFacts
<1> HIDE DEF G
<1>3. Table(G)
  <2> SUFFICES ASSUME NEW j \in 1 .. Len(F) - 1, NEW k \in 1 .. Len(F) - 1, j < k
               PROVE  End(G[j]) < G[k].addr
    BY <1>2 DEF Table
  <2> DEFINE jj == IF j < i THEN j ELSE j + 1
             kk == IF k < i THEN k ELSE k + 1
  <2>1. jj \in 1 .. Len(F) /\ kk \in 1 .. Len(F) /\ jj < kk
    BY <1>1
  <2>2. G[j] = F[jj] /\ G[k] = F[kk]
    BY <1>2
  <2> HIDE DEF jj, kk
  <2> QED BY <2>1, <2>2, TableFields
<1>4. \A x : x \in Covered(G) <=> x \in Covered(F) \ Span(F[i].addr, F[i].size)
  <2> SUFFICES ASSUME NEW x
               PROVE  x \in Covered(G) <=> x \in Covered(F) \ Span(F[i].addr, F[i].size)
    OBVIOUS
  <2>1. x \in Covered(G) <=>
          \E j \in 1 .. Len(F) - 1 : x \in Nat /\ G[j].addr <= x /\ x < End(G[j])
    BY <1>2, <1>3, InTable
  <2>2. x \in Covered(F) <=> \E j \in 1 .. Len(F) : x \in Nat /\ F[j].addr <= x /\ x < End(F[j])
    BY InTable
  <2>3. x \in Span(F[i].addr, F[i].size) <=> x \in Nat /\ F[i].addr <= x /\ x < End(F[i])
    <3>1. F[i].addr \in Nat /\ F[i].size \in Nat
      BY TableFields
    <3> QED BY <3>1 DEF Span, End
  <2>4. ASSUME x \in Covered(G) PROVE x \in Covered(F) \ Span(F[i].addr, F[i].size)
    <3>1. PICK j \in 1 .. Len(F) - 1 : x \in Nat /\ G[j].addr <= x /\ x < End(G[j])
      BY <2>1, <2>4
    <3> DEFINE jj == IF j < i THEN j ELSE j + 1
    <3>2. jj \in 1 .. Len(F) /\ jj # i
      BY <1>1
    <3>3. F[jj].addr <= x /\ x < End(F[jj])
      BY <3>1, <1>2
    <3> HIDE DEF jj
    <3>4. ~(F[i].addr <= x /\ x < End(F[i]))
      BY <3>1, <3>2, <3>3, TableFields
    <3> QED BY <3>1, <3>2, <3>3, <3>4, <2>2, <2>3
  <2>5. ASSUME x \in Covered(F) \ Span(F[i].addr, F[i].size) PROVE x \in Covered(G)
    <3>1. PICK j \in 1 .. Len(F) : x \in Nat /\ F[j].addr <= x /\ x < End(F[j])
      BY <2>2, <2>5
    <3>2. j # i
      BY <3>1, <2>3, <2>5
    <3>3. CASE j < i
      <4>1. j \in 1 .. Len(F) - 1 /\ G[j] = F[j]
        BY <3>3, <1>1, <1>2
      <4> QED BY <4>1, <3>1, <2>1
    <3>4. CASE j > i
      <4>1. j - 1 \in 1 .. Len(F) - 1 /\ G[j - 1] = F[j - 1 + 1] /\ j - 1 + 1 = j
        BY <3>4, <1>1, <1>2
      <4> QED BY <4>1, <3>1, <2>1
    <3> QED BY <3>2, <3>3, <3>4
  <2> QED BY <2>4, <2>5
<1> QED BY <1>2, <1>3, <1>4 DEF G

-----------------------------------------------------------------------------
(* Putting a block back. *)

\* The place of n addresses from a on is in front of the entry p.
Between(F, p, a, n) ==
    /\ p \in 1 .. Len(F) + 1
    /\ \A j \in 1 .. Len(F) : j < p => End(F[j]) <= a
    /\ \A j \in 1 .. Len(F) : j >= p => a + n <= F[j].addr

\* It touches neither neighbour, or one of them.
TouchesPrev(F, p, a) == p > 1 /\ End(F[p - 1]) = a
TouchesNext(F, p, a, n) == p <= Len(F) /\ a + n = F[p].addr

\* The block becomes an entry of its own.
LEMMA InsertFacts ==
  ASSUME NEW F, Table(F), NEW a \in Nat, NEW n \in Nat \ {0}, NEW p, Between(F, p, a, n),
         ~TouchesPrev(F, p, a), ~TouchesNext(F, p, a, n)
  PROVE  LET G == InsertAt(F, p, Block(a, n))
         IN  /\ Table(G) /\ Len(G) = Len(F) + 1
             /\ Covered(G) = Covered(F) \cup Span(a, n)
<1> DEFINE b == Block(a, n)
           G == InsertAt(F, p, b)
<1>1. F \in Seq(Blocks) /\ Len(F) \in Nat /\ p \in 1 .. Len(F) + 1
  BY TableFields DEF Between
<1>2. b \in Blocks /\ b.addr = a /\ End(b) = a + n
  BY BlockFields
<1> HIDE DEF b
<1>3. /\ G \in Seq(Blocks) /\ Len(G) = Len(F) + 1
      /\ \A j \in 1 .. Len(F) + 1 : G[j] = IF j < p THEN F[j] ELSE IF j = p THEN b ELSE F[j - 1]
  BY <1>1, <1>2, InsertAtFacts
<1> HIDE DEF G
<1>4. \A j \in 1 .. Len(F) : j < p => End(F[j]) < a
  <2> SUFFICES ASSUME NEW j \in 1 .. Len(F), j < p PROVE End(F[j]) < a
    OBVIOUS
  <2>1. End(F[p - 1]) < a /\ p - 1 \in 1 .. Len(F) /\ End(F[p - 1]) \in Nat
    <3>1. p - 1 \in 1 .. Len(F) /\ p > 1
      BY <1>1
    <3>2. End(F[p - 1]) <= a
      BY <3>1, <1>1 DEF Between
    <3>3. End(F[p - 1]) # a /\ End(F[p - 1]) \in Nat
      BY <3>1, TableFields DEF TouchesPrev
    <3> QED BY <3>1, <3>2, <3>3
  <2>2. CASE j = p - 1
    BY <2>1, <2>2
  <2>3. CASE j < p - 1
    <3>1. End(F[j]) < F[p - 1].addr /\ F[p - 1].addr < End(F[p - 1])
      BY <2>1, <2>3, TableFields
    <3> QED BY <3>1, <2>1, TableFields
  <2> QED BY <2>2, <2>3, <1>1
<1>5. \A j \in 1 .. Len(F) : j >= p => a + n < F[j].addr
  <2> SUFFICES ASSUME NEW j \in 1 .. Len(F), j >= p PROVE a + n < F[j].addr
    OBVIOUS
  <2>1. a + n < F[p].addr /\ p \in 1 .. Len(F) /\ F[p].addr \in Nat
    <3>1. p \in 1 .. Len(F)
      BY <1>1
    <3>2. a + n <= F[p].addr
      BY <3>1 DEF Between
    <3>3. a + n # F[p].addr /\ F[p].addr \in Nat
      BY <3>1, TableFields DEF TouchesNext
    <3> QED BY <3>1, <3>2, <3>3
  <2>2. CASE j = p
    BY <2>1, <2>2
  <2>3. CASE j > p
    <3>1. End(F[p]) < F[j].addr /\ F[p].addr < End(F[p])
      BY <2>1, <2>3, TableFields
    <3> QED BY <3>1, <2>1, TableFields
  <2> QED BY <2>2, <2>3, <1>1
<1>6. Table(G)
  <2> SUFFICES ASSUME NEW j \in 1 .. Len(F) + 1, NEW k \in 1 .. Len(F) + 1, j < k
               PROVE  End(G[j]) < G[k].addr
    BY <1>3 DEF Table
  <2>1. CASE k < p
    <3>1. j \in 1 .. Len(F) /\ k \in 1 .. Len(F) /\ G[j] = F[j] /\ G[k] = F[k]
      BY <2>1, <1>1, <1>3
    <3> QED BY <3>1, TableFields
  <2>2. CASE k = p
    <3>1. j \in 1 .. Len(F) /\ G[j] = F[j] /\ G[k] = b
      BY <2>2, <1>1, <1>3
    <3> QED BY <3>1, <2>2, <1>2, <1>4
  <2>3. CASE k > p /\ j < p
    <3>1. /\ j \in 1 .. Len(F) /\ k - 1 \in 1 .. Len(F) /\ j < k - 1
          /\ G[j] = F[j] /\ G[k] = F[k - 1]
      BY <2>3, <1>1, <1>3
    <3> QED BY <3>1, TableFields
  <2>4. CASE k > p /\ j = p
    <3>1. k - 1 \in 1 .. Len(F) /\ k - 1 >= p /\ G[j] = b /\ G[k] = F[k - 1]
      BY <2>4, <1>1, <1>3
    <3> QED BY <3>1, <1>2, <1>5
  <2>5. CASE k > p /\ j > p
    <3>1. /\ j - 1 \in 1 .. Len(F) /\ k - 1 \in 1 .. Len(F) /\ j - 1 < k - 1
          /\ G[j] = F[j - 1] /\ G[k] = F[k - 1]
      BY <2>5, <1>1, <1>3
    <3> QED BY <3>1, TableFields
  <2> QED BY <2>1, <2>2, <2>3, <2>4, <2>5, <1>1
<1>7. \A x : x \in Covered(G) <=> x \in Covered(F) \cup Span(a, n)
  <2> SUFFICES ASSUME NEW x
               PROVE  x \in Covered(G) <=> x \in Covered(F) \cup Span(a, n)
    OBVIOUS
  <2>1. x \in Covered(G) <=>
          \E j \in 1 .. Len(F) + 1 : x \in Nat /\ G[j].addr <= x /\ x < End(G[j])
    BY <1>3, <1>6, InTable
  <2>2. x \in Covered(F) <=> \E j \in 1 .. Len(F) : x \in Nat /\ F[j].addr <= x /\ x < End(F[j])
    BY InTable
  <2>3. x \in Span(a, n) <=> x \in Nat /\ b.addr <= x /\ x < End(b)
    BY <1>2 DEF Span
  <2>4. ASSUME x \in Covered(G) PROVE x \in Covered(F) \cup Span(a, n)
    <3>1. PICK j \in 1 .. Len(F) + 1 : x \in Nat /\ G[j].addr <= x /\ x < End(G[j])
      BY <2>1, <2>4
    <3>2. CASE j = p
      BY <3>1, <3>2, <1>3, <2>3
    <3>3. CASE j < p
      <4>1. j \in 1 .. Len(F) /\ G[j] = F[j]
        BY <3>3, <1>1, <1>3
      <4> QED BY <4>1, <3>1, <2>2
    <3>4. CASE j > p
      <4>1. j - 1 \in 1 .. Len(F) /\ G[j] = F[j - 1]
        BY <3>4, <1>1, <1>3
      <4> QED BY <4>1, <3>1, <2>2
    <3> QED BY <3>2, <3>3, <3>4, <1>1
  <2>5. ASSUME x \in Span(a, n) PROVE x \in Covered(G)
    <3>1. p \in 1 .. Len(F) + 1 /\ G[p] = b
      BY <1>1, <1>3
    <3> QED BY <3>1, <2>1, <2>3, <2>5
  <2>6. ASSUME x \in Covered(F) PROVE x \in Covered(G)
    <3>1. PICK j \in 1 .. Len(F) : x \in Nat /\ F[j].addr <= x /\ x < End(F[j])
      BY <2>2, <2>6
    <3>2. CASE j < p
      <4>1. j \in 1 .. Len(F) + 1 /\ G[j] = F[j]
        BY <3>2, <1>1, <1>3
      <4> QED BY <4>1, <3>1, <2>1
    <3>3. CASE j >= p
      <4>1. j + 1 \in 1 .. Len(F) + 1 /\ G[j + 1] = F[j + 1 - 1] /\ j + 1 - 1 = j
        BY <3>3, <1>1, <1>3
      <4> QED BY <4>1, <3>1, <2>1
    <3> QED BY <3>2, <3>3, <1>1
  <2> QED BY <2>4, <2>5, <2>6
<1> QED BY <1>3, <1>6, <1>7 DEF G, b

\* An entry that grows into the free space around it.
LEMMA GrowFacts ==
  ASSUME NEW F, Table(F), NEW i \in 1 .. Len(F), NEW b \in Blocks,
         b.addr <= F[i].addr, End(F[i]) <= End(b),
         \A j \in 1 .. Len(F) : j < i => End(F[j]) < b.addr,
         \A j \in 1 .. Len(F) : j > i => End(b) < F[j].addr
  PROVE  LET G == [F EXCEPT ![i] = b]
         IN  /\ Table(G) /\ Len(G) = Len(F)
             /\ Covered(G) = Covered(F) \cup (b.addr .. End(b) - 1)
<1> DEFINE G == [F EXCEPT ![i] = b]
<1>1. F \in Seq(Blocks) /\ Len(F) \in Nat
  BY TableFields
<1>2. /\ G \in Seq(Blocks) /\ Len(G) = Len(F)
      /\ \A j \in 1 .. Len(F) : G[j] = IF j = i THEN b ELSE F[j]
  BY <1>1, ExceptSeq
<1> HIDE DEF G
<1>3. Table(G)
  <2> SUFFICES ASSUME NEW j \in 1 .. Len(F), NEW k \in 1 .. Len(F), j < k
               PROVE  End(G[j]) < G[k].addr
    BY <1>2 DEF Table
  <2>1. CASE j = i
    BY <2>1, <1>2
  <2>2. CASE k = i
    BY <2>2, <1>2
  <2>3. CASE j # i /\ k # i
    <3>1. G[j] = F[j] /\ G[k] = F[k]
      BY <2>3, <1>2
    <3> QED BY <3>1, TableFields
  <2> QED BY <2>1, <2>2, <2>3
<1>4. \A x : x \in Covered(G) <=> x \in Covered(F) \cup (b.addr .. End(b) - 1)
  <2> SUFFICES ASSUME NEW x
               PROVE  x \in Covered(G) <=> x \in Covered(F) \cup (b.addr .. End(b) - 1)
    OBVIOUS
  <2>1. x \in Covered(G) <=> \E j \in 1 .. Len(F) : x \in Nat /\ G[j].addr <= x /\ x < End(G[j])
    BY <1>2, <1>3, InTable
  <2>2. x \in Covered(F) <=> \E j \in 1 .. Len(F) : x \in Nat /\ F[j].addr <= x /\ x < End(F[j])
    BY InTable
  <2>3. x \in b.addr .. End(b) - 1 <=> x \in Nat /\ b.addr <= x /\ x < End(b)
    BY DEF Blocks, End
  <2>4. b.addr \in Nat /\ End(b) \in Nat /\ F[i].addr \in Nat /\ End(F[i]) \in Nat
    BY TableFields DEF Blocks, End
  <2>5. ASSUME x \in Covered(F) PROVE x \in Covered(G)
    <3>1. PICK j \in 1 .. Len(F) : x \in Nat /\ F[j].addr <= x /\ x < End(F[j])
      BY <2>2, <2>5
    <3>2. CASE j = i
      <4>1. b.addr <= x /\ x < End(b) /\ G[i] = b
        BY <3>1, <3>2, <2>4, <1>2
      <4> QED BY <4>1, <3>1, <2>1
    <3>3. CASE j # i
      BY <3>1, <3>3, <1>2, <2>1
    <3> QED BY <3>2, <3>3
  <2>6. ASSUME x \in b.addr .. End(b) - 1 PROVE x \in Covered(G)
    BY <2>1, <2>3, <2>6, <1>2
  <2>7. ASSUME x \in Covered(G) PROVE x \in Covered(F) \cup (b.addr .. End(b) - 1)
    <3>1. PICK j \in 1 .. Len(F) : x \in Nat /\ G[j].addr <= x /\ x < End(G[j])
      BY <2>1, <2>7
    <3> QED BY <3>1, <1>2, <2>2, <2>3
  <2> QED BY <2>5, <2>6, <2>7
<1> QED BY <1>2, <1>3, <1>4 DEF G

-----------------------------------------------------------------------------
(* memman_free. *)

\* A memman_t whose table is in order.
Managers == [free : Seq(Blocks), maxfrees : Nat, lostsize : Nat, losts : Nat]

\* The search loop finds the place of a block that is not free.
LEMMA PositionFacts ==
  ASSUME NEW m \in Managers, Table(m.free), NEW a \in Nat, NEW n \in Nat \ {0},
         Span(a, n) \cap Covered(m.free) = {}
  PROVE  Between(m.free, Position(m, a), a, n)
<1> DEFINE F == m.free
           A == Above(m, a)
           p == Position(m, a)
<1>1. Len(F) \in Nat /\ DOMAIN F = 1 .. Len(F)
  BY TableFields
<1>2. A = {i \in 1 .. Len(F) : F[i].addr > a}
  BY <1>1 DEF Above
<1>3. /\ p \in 1 .. Len(F) + 1
      /\ \A j \in 1 .. Len(F) : j < p => F[j].addr <= a
      /\ \A j \in 1 .. Len(F) : j >= p => F[j].addr > a
  <2>1. CASE A = {}
    <3>1. p = Len(F) + 1
      BY <2>1 DEF Position
    <3>2. \A j \in 1 .. Len(F) : F[j].addr <= a
      BY <2>1, <1>2, TableFields
    <3> HIDE DEF p, F
    <3> QED BY <3>1, <3>2, <1>1
  <2>2. CASE A # {}
    <3>1. A \in SUBSET Nat
      BY <1>1, <1>2
    <3>2. Min(A) \in A /\ \A j \in A : Min(A) <= j
      BY <3>1, <2>2, MinFacts
    <3>3. p = Min(A)
      BY <2>2 DEF Position
    <3>4. p \in 1 .. Len(F) /\ F[p].addr > a /\ \A j \in A : p <= j
      BY <3>2, <3>3, <1>2
    <3> HIDE DEF p, A
    <3>5. \A j \in 1 .. Len(F) : j < p => F[j].addr <= a
      BY <3>4, <1>2, TableFields
    <3>6. \A j \in 1 .. Len(F) : j >= p => F[j].addr > a
      <4> SUFFICES ASSUME NEW j \in 1 .. Len(F), j > p PROVE F[j].addr > a
        BY <3>4
      <4>1. End(F[p]) < F[j].addr /\ F[p].addr < End(F[p])
        BY <3>4, TableFields
      <4> QED BY <4>1, <3>4, TableFields
    <3> QED BY <3>4, <3>5, <3>6, <1>1
  <2> QED BY <2>1, <2>2
<1> HIDE DEF p, A
<1>4. \A x \in Nat : a <= x /\ x < a + n =>
        \A j \in 1 .. Len(F) : ~(F[j].addr <= x /\ x < End(F[j]))
  <2> SUFFICES ASSUME NEW x \in Nat, a <= x, x < a + n
               PROVE  \A j \in 1 .. Len(F) : ~(F[j].addr <= x /\ x < End(F[j]))
    OBVIOUS
  <2>1. x \in Span(a, n)
    BY DEF Span
  <2>2. x \notin Covered(F)
    BY <2>1
  <2> QED BY <2>2, InTable
<1>5. \A j \in 1 .. Len(F) : j < p => End(F[j]) <= a
  <2> SUFFICES ASSUME NEW j \in 1 .. Len(F), j < p PROVE End(F[j]) <= a
    OBVIOUS
  <2>1. ~(F[j].addr <= a /\ a < End(F[j]))
    BY <1>4
  <2> QED BY <2>1, <1>3, TableFields
<1>6. \A j \in 1 .. Len(F) : j >= p => a + n <= F[j].addr
  <2> SUFFICES ASSUME NEW j \in 1 .. Len(F), j >= p PROVE a + n <= F[j].addr
    OBVIOUS
  <2>1. F[j].addr \in Nat /\ F[j].addr > a /\ F[j].addr < End(F[j]) /\ F[j].addr <= F[j].addr
    BY <1>3, TableFields
  <2>2. ~(F[j].addr < a + n)
    BY <2>1, <1>4
  <2> QED BY <2>1, <2>2
<1> QED BY <1>3, <1>5, <1>6 DEF Between, p

\* The tests of memman_free, in terms of the neighbours.
LEMMA TouchFacts ==
  ASSUME NEW m \in Managers, Table(m.free), NEW a \in Nat, NEW n \in Nat \ {0},
         NEW p \in 1 .. Len(m.free) + 1
  PROVE  /\ StartsAfter(m, a, p - 1) <=> TouchesPrev(m.free, p, a)
         /\ EndsAt(m, a, n, p) <=> TouchesNext(m.free, p, a, n)
<1>1. DOMAIN m.free = 1 .. Len(m.free) /\ Len(m.free) \in Nat
  BY TableFields
<1>2. /\ p - 1 \in DOMAIN m.free <=> p > 1
      /\ p \in DOMAIN m.free <=> p <= Len(m.free)
  BY <1>1
<1> QED BY <1>2 DEF StartsAfter, EndsAt, TouchesPrev, TouchesNext, End

\* The block fills the gap between two entries.
Filler(F, p, n) == Block(F[p - 1].addr, F[p - 1].size + n + F[p].size)
Joined(F, p, n) == RemoveAt([F EXCEPT ![p - 1] = Filler(F, p, n)], p)

\* The entries in front of and behind the gap become one.
LEMMA JoinFacts ==
  ASSUME NEW F, Table(F), NEW a \in Nat, NEW n \in Nat \ {0}, NEW p, Between(F, p, a, n),
         TouchesPrev(F, p, a), TouchesNext(F, p, a, n)
  PROVE  /\ Table(Joined(F, p, n)) /\ Len(Joined(F, p, n)) = Len(F) - 1
         /\ Covered(Joined(F, p, n)) = Covered(F) \cup Span(a, n)
<1> DEFINE b == Filler(F, p, n)
           E == [F EXCEPT ![p - 1] = b]
           G == Joined(F, p, n)
           H == RemoveAt(F, p)
           K == [H EXCEPT ![p - 1] = b]
<1>0. G = RemoveAt(E, p)
  BY DEF Joined
<1> HIDE DEF G
<1>1. F \in Seq(Blocks) /\ Len(F) \in Nat /\ p - 1 \in 1 .. Len(F) /\ p \in 1 .. Len(F)
  BY TableFields DEF Between, TouchesPrev, TouchesNext
<1>2. /\ F[p - 1].addr \in Nat /\ F[p - 1].size \in Nat \ {0}
      /\ F[p].addr \in Nat /\ F[p].size \in Nat \ {0}
      /\ F[p - 1].addr + F[p - 1].size = a /\ a + n = F[p].addr
      /\ End(F[p]) = F[p].addr + F[p].size /\ End(F[p - 1]) = a
  BY <1>1, TableFields DEF TouchesPrev, TouchesNext, End
<1>3. b \in Blocks /\ b.addr = F[p - 1].addr /\ End(b) = End(F[p])
  <2> DEFINE s == F[p - 1].size + n + F[p].size
  <2>1. s \in Nat \ {0} /\ F[p - 1].addr + s = End(F[p])
    BY <1>2
  <2> HIDE DEF s
  <2>2. b = Block(F[p - 1].addr, s)
    BY DEF s, Filler
  <2> HIDE DEF b
  <2> QED BY <2>1, <2>2, <1>2, BlockFields
<1> HIDE DEF b
<1>4. Table(H) /\ Len(H) = Len(F) - 1 /\ Covered(H) = Covered(F) \ Span(F[p].addr, F[p].size)
  BY <1>1, DropFacts
<1>5. \A j \in 1 .. Len(F) - 1 : H[j] = IF j < p THEN F[j] ELSE F[j + 1]
  BY <1>1, RemoveAtFacts
<1>6. /\ E \in Seq(Blocks) /\ Len(E) = Len(F)
      /\ \A j \in 1 .. Len(F) : E[j] = IF j = p - 1 THEN b ELSE F[j]
  BY <1>1, <1>3, ExceptSeq
<1> HIDE DEF E
<1>7. /\ G \in Seq(Blocks) /\ Len(G) = Len(F) - 1
      /\ \A j \in 1 .. Len(F) - 1 : G[j] = IF j < p THEN E[j] ELSE E[j + 1]
  <2>1. /\ RemoveAt(E, p) \in Seq(Blocks) /\ Len(RemoveAt(E, p)) = Len(E) - 1
        /\ \A j \in 1 .. Len(E) - 1 : RemoveAt(E, p)[j] = IF j < p THEN E[j] ELSE E[j + 1]
    BY <1>1, <1>6, RemoveAtFacts
  <2> QED BY <2>1, <1>0, <1>6
<1> HIDE DEF H
<1>8. /\ K \in Seq(Blocks) /\ Len(K) = Len(F) - 1
      /\ \A j \in 1 .. Len(F) - 1 : K[j] = IF j = p - 1 THEN b ELSE H[j]
  <2>1. H \in Seq(Blocks) /\ p - 1 \in 1 .. Len(H)
    BY <1>1, <1>4 DEF Table
  <2> QED BY <2>1, <1>3, <1>4, ExceptSeq
<1> HIDE DEF K
<1>9. G = K
  <2>1. \A j \in 1 .. Len(F) - 1 : G[j] = K[j]
    <3> SUFFICES ASSUME NEW j \in 1 .. Len(F) - 1 PROVE G[j] = K[j]
      OBVIOUS
    <3>1. CASE j < p
      <4>1. j \in 1 .. Len(F) /\ G[j] = E[j] /\ H[j] = F[j]
        BY <3>1, <1>1, <1>5, <1>7
      <4> QED BY <4>1, <1>6, <1>8
    <3>2. CASE j >= p
      <4>1. j + 1 \in 1 .. Len(F) /\ j # p - 1 /\ j + 1 # p - 1 /\ ~(j < p)
        BY <3>2, <1>1
      <4> QED BY <4>1, <1>5, <1>6, <1>7, <1>8
    <3> QED BY <3>1, <3>2, <1>1
  <2> QED BY <2>1, <1>7, <1>8, SeqEqual
<1>10. /\ Table(K) /\ Len(K) = Len(H)
       /\ Covered(K) = Covered(H) \cup (b.addr .. End(b) - 1)
  <2>1. p - 1 \in 1 .. Len(H) /\ H[p - 1] = F[p - 1]
    BY <1>1, <1>4, <1>5
  <2>2. b.addr <= H[p - 1].addr /\ End(H[p - 1]) <= End(b)
    BY <2>1, <1>2, <1>3
  <2>3. \A j \in 1 .. Len(H) : j < p - 1 => End(H[j]) < b.addr
    <3> SUFFICES ASSUME NEW j \in 1 .. Len(F) - 1, j < p - 1 PROVE End(H[j]) < b.addr
      BY <1>1, <1>4
    <3>1. H[j] = F[j] /\ j \in 1 .. Len(F)
      BY <1>1, <1>5
    <3> QED BY <3>1, <1>1, <1>3, TableFields
  <2>4. \A j \in 1 .. Len(H) : j > p - 1 => End(b) < H[j].addr
    <3> SUFFICES ASSUME NEW j \in 1 .. Len(F) - 1, j >= p PROVE End(b) < H[j].addr
      BY <1>1, <1>4
    <3>1. H[j] = F[j + 1] /\ j + 1 \in 1 .. Len(F) /\ p < j + 1
      BY <1>1, <1>5
    <3> QED BY <3>1, <1>1, <1>3, TableFields
  <2> QED BY <2>1, <2>2, <2>3, <2>4, <1>3, <1>4, GrowFacts DEF K
<1>11. Covered(K) = Covered(F) \cup Span(a, n)
  <2>1. b.addr .. End(b) - 1 = Span(F[p - 1].addr, F[p - 1].size) \cup Span(a, n)
                                 \cup Span(F[p].addr, F[p].size)
    BY <1>2, <1>3 DEF Span
  <2>2. Span(F[p - 1].addr, F[p - 1].size) \subseteq Covered(F)
    BY <1>1, <1>2 DEF Span, Covered, Addresses
  <2>3. Span(F[p].addr, F[p].size) \subseteq Covered(F)
    BY <1>1, <1>2 DEF Span, Covered, Addresses
  <2> QED BY <2>1, <2>2, <2>3, <1>4, <1>10
<1> QED BY <1>4, <1>9, <1>10, <1>11 DEF G

\* memman_free returns the block to the table, joined with what it touches, or
\* loses it when the table is full and it touches nothing.
LEMMA ReleaseFacts ==
  ASSUME NEW m \in Managers, Table(m.free),
         Len(m.free) <= m.maxfrees, m.maxfrees <= MaxFrees,
         NEW a \in Nat, NEW n \in Nat \ {0},
         Span(a, n) \cap Covered(m.free) = {}
  PROVE  LET r == Release(m, a, n)
             p == Position(m, a)
         IN  /\ r \in Managers /\ Table(r.free)
             /\ Len(r.free) <= r.maxfrees /\ r.maxfrees <= MaxFrees
             /\ ~IsLost(m, a, n) => /\ Covered(r.free) = Covered(m.free) \cup Span(a, n)
                                    /\ r.lostsize = m.lostsize
             /\ IsLost(m, a, n) => /\ r.free = m.free /\ r.lostsize = m.lostsize + n
                                   /\ Len(m.free) = MaxFrees
                                   /\ Between(m.free, p, a, n)
                                   /\ ~TouchesPrev(m.free, p, a)
                                   /\ ~TouchesNext(m.free, p, a, n)
<1> DEFINE F == m.free
           r == Release(m, a, n)
           p == Position(m, a)
<1> USE MemmanAssumption
<1>1. Between(F, p, a, n)
  BY PositionFacts
<1> HIDE DEF p
<1>2. F \in Seq(Blocks) /\ Len(F) \in Nat /\ p \in 1 .. Len(F) + 1
  BY <1>1, TableFields DEF Between
<1>3. /\ StartsAfter(m, a, p - 1) <=> TouchesPrev(F, p, a)
      /\ EndsAt(m, a, n, p) <=> TouchesNext(F, p, a, n)
  BY <1>2, TouchFacts
<1>4. IsLost(m, a, n) <=> ~TouchesPrev(F, p, a) /\ ~TouchesNext(F, p, a, n) /\ Len(F) >= MaxFrees
  BY <1>3 DEF IsLost, p
<1>5. m.maxfrees \in Nat /\ m.lostsize \in Nat /\ m.losts \in Nat
  BY DEF Managers
<1>6. CASE TouchesPrev(F, p, a) /\ TouchesNext(F, p, a, n)
  <2> DEFINE G == Joined(F, p, n)
  <2>1. r = [m EXCEPT !.free = G]
    BY <1>3, <1>6 DEF Release, Joined, Filler, p
  <2>2. Table(G) /\ Len(G) = Len(F) - 1 /\ Covered(G) = Covered(F) \cup Span(a, n)
    BY <1>1, <1>6, JoinFacts
  <2> HIDE DEF G
  <2>3. r \in Managers /\ r.free = G /\ r.maxfrees = m.maxfrees /\ r.lostsize = m.lostsize
    BY <2>1, <2>2 DEF Managers, Table
  <2> QED BY <2>2, <2>3, <1>2, <1>4, <1>5, <1>6 DEF p
<1>7. CASE TouchesPrev(F, p, a) /\ ~TouchesNext(F, p, a, n)
  <2> DEFINE b == Block(F[p - 1].addr, F[p - 1].size + n)
             G == [F EXCEPT ![p - 1] = b]
  <2>1. /\ p - 1 \in 1 .. Len(F) /\ F[p - 1].addr \in Nat /\ F[p - 1].size \in Nat \ {0}
        /\ F[p - 1].addr + F[p - 1].size = a /\ End(F[p - 1]) = a
    <3>1. p - 1 \in 1 .. Len(F)
      BY <1>2, <1>7 DEF TouchesPrev
    <3>2. F[p - 1].addr \in Nat /\ F[p - 1].size \in Nat \ {0}
      BY <3>1, TableFields
    <3>3. End(F[p - 1]) = a
      BY <1>7 DEF TouchesPrev
    <3>4. F[p - 1].addr + F[p - 1].size = a
      BY <3>3 DEF End
    <3> QED BY <3>1, <3>2, <3>3, <3>4
  <2>2. b \in Blocks /\ b.addr = F[p - 1].addr /\ End(b) = a + n
    <3> DEFINE x == F[p - 1].addr
               y == F[p - 1].size
               s == F[p - 1].size + n
    <3>1. s \in Nat \ {0} /\ F[p - 1].addr + s = a + n
      <4>1. x \in Nat /\ y \in Nat \ {0} /\ x + y = a
        BY <2>1
      <4> HIDE DEF x, y
      <4>2. y + n \in Nat \ {0} /\ x + (y + n) = a + n
        BY <4>1
      <4> QED BY <4>2 DEF x, y
    <3>2. b = Block(F[p - 1].addr, s)
      OBVIOUS
    <3>3. F[p - 1].addr \in Nat
      BY <2>1
    <3> HIDE DEF s, b
    <3> QED BY <3>1, <3>2, <3>3, BlockFields
  <2> HIDE DEF b
  <2>3. /\ \A j \in 1 .. Len(F) : j < p - 1 => End(F[j]) < b.addr
        /\ \A j \in 1 .. Len(F) : j > p - 1 => End(b) < F[j].addr
    <3>1. ASSUME NEW j \in 1 .. Len(F), j < p - 1 PROVE End(F[j]) < b.addr
      BY <3>1, <2>1, <2>2, TableFields
    <3>2. ASSUME NEW j \in 1 .. Len(F), j > p - 1 PROVE End(b) < F[j].addr
      <4>1. p \in 1 .. Len(F) /\ j >= p
        BY <3>2, <1>2
      <4>2. a + n < F[p].addr /\ F[p].addr \in Nat
        <5>1. a + n <= F[p].addr /\ a + n # F[p].addr
          BY <4>1, <1>1, <1>7 DEF Between, TouchesNext
        <5>2. F[p].addr \in Nat
          BY <4>1, TableFields
        <5> QED BY <5>1, <5>2
      <4>3. CASE j = p
        BY <4>2, <4>3, <2>2
      <4>4. CASE j > p
        <5>1. F[p].addr < End(F[p]) /\ End(F[p]) < F[j].addr
              /\ End(F[p]) \in Nat /\ F[j].addr \in Nat
          BY <4>1, <4>4, TableFields
        <5> QED BY <5>1, <4>2, <2>2
      <4> QED BY <4>1, <4>3, <4>4, <1>2
    <3> QED BY <3>1, <3>2
  <2>4. /\ Table(G) /\ Len(G) = Len(F)
        /\ Covered(G) = Covered(F) \cup (b.addr .. End(b) - 1)
    <3>1. b.addr <= F[p - 1].addr /\ End(F[p - 1]) <= End(b)
      BY <2>1, <2>2
    <3> QED BY <3>1, <2>1, <2>2, <2>3, GrowFacts
  <2>5. Covered(F) \cup (b.addr .. End(b) - 1) = Covered(F) \cup Span(a, n)
    <3>1. Span(F[p - 1].addr, F[p - 1].size) \subseteq Covered(F)
      BY <2>1, <1>2 DEF Span, Covered, Addresses
    <3>2. b.addr .. End(b) - 1 = Span(F[p - 1].addr, F[p - 1].size) \cup Span(a, n)
      <4> DEFINE c == F[p - 1].addr
                 s == F[p - 1].size
                 k == s + n
      <4>1. /\ c \in Nat /\ s \in Nat /\ n \in Nat /\ k = s + n
            /\ c + s = a /\ b.addr = c /\ End(b) = a + n
        BY <2>1, <2>2
      <4> HIDE DEF c, s, k
      <4>2. Span(c, k) = Span(c, s) \cup Span(a, n)
        BY <4>1 DEF Span
      <4>3. b.addr .. End(b) - 1 = Span(c, k)
        <5>1. c + k - 1 = End(b) - 1
          BY <4>1
        <5> QED BY <4>1, <5>1 DEF Span
      <4> QED BY <4>2, <4>3 DEF c, s
    <3> QED BY <3>1, <3>2
  <2>6. r = [m EXCEPT !.free = G]
    <3>1. r = [m EXCEPT !.free[p - 1] = b]
      BY <1>3, <1>7 DEF Release, p, b
    <3> QED BY <3>1
  <2> HIDE DEF G
  <2>7. r \in Managers /\ r.free = G /\ r.maxfrees = m.maxfrees /\ r.lostsize = m.lostsize
    BY <2>4, <2>6 DEF Managers, Table
  <2> QED BY <2>4, <2>5, <2>7, <1>2, <1>4, <1>5, <1>7 DEF p
<1>8. CASE ~TouchesPrev(F, p, a) /\ TouchesNext(F, p, a, n)
  <2> DEFINE b == Block(a, n + F[p].size)
             G == [F EXCEPT ![p] = b]
  <2>1. /\ p \in 1 .. Len(F) /\ F[p].addr = a + n /\ F[p].size \in Nat \ {0}
        /\ End(F[p]) = a + n + F[p].size
    <3>1. p \in 1 .. Len(F)
      BY <1>2, <1>8 DEF TouchesNext
    <3> QED BY <3>1, <1>8, TableFields DEF TouchesNext, End
  <2>2. b \in Blocks /\ b.addr = a /\ End(b) = End(F[p])
    <3> DEFINE s == n + F[p].size
    <3>1. s \in Nat \ {0} /\ a + s = End(F[p])
      BY <2>1
    <3>2. b = Block(a, s)
      OBVIOUS
    <3> HIDE DEF s, b
    <3> QED BY <3>1, <3>2, BlockFields
  <2> HIDE DEF b
  <2>3. /\ \A j \in 1 .. Len(F) : j < p => End(F[j]) < b.addr
        /\ \A j \in 1 .. Len(F) : j > p => End(b) < F[j].addr
    <3>1. ASSUME NEW j \in 1 .. Len(F), j < p PROVE End(F[j]) < b.addr
      <4>1. p - 1 \in 1 .. Len(F) /\ p > 1 /\ j <= p - 1
        BY <3>1, <1>2
      <4>2. End(F[p - 1]) < a /\ End(F[p - 1]) \in Nat
        <5>1. End(F[p - 1]) <= a /\ End(F[p - 1]) # a
          BY <4>1, <1>1, <1>8, <1>2 DEF Between, TouchesPrev
        <5>2. End(F[p - 1]) \in Nat
          BY <4>1, TableFields
        <5> QED BY <5>1, <5>2
      <4>3. CASE j = p - 1
        BY <4>2, <4>3, <2>2
      <4>4. CASE j < p - 1
        <5>1. F[p - 1].addr < End(F[p - 1]) /\ End(F[j]) < F[p - 1].addr
              /\ End(F[j]) \in Nat /\ F[p - 1].addr \in Nat
          BY <4>1, <4>4, TableFields
        <5> QED BY <5>1, <4>2, <2>2
      <4> QED BY <4>1, <4>3, <4>4, <1>2
    <3>2. ASSUME NEW j \in 1 .. Len(F), j > p PROVE End(b) < F[j].addr
      BY <3>2, <2>1, <2>2, TableFields
    <3> QED BY <3>1, <3>2
  <2>4. /\ Table(G) /\ Len(G) = Len(F)
        /\ Covered(G) = Covered(F) \cup (b.addr .. End(b) - 1)
    <3>1. b.addr <= F[p].addr /\ End(F[p]) <= End(b)
      BY <2>1, <2>2
    <3> QED BY <3>1, <2>1, <2>2, <2>3, GrowFacts
  <2>5. Covered(F) \cup (b.addr .. End(b) - 1) = Covered(F) \cup Span(a, n)
    <3>1. Span(F[p].addr, F[p].size) \subseteq Covered(F)
      BY <2>1, <1>2 DEF Span, Covered, Addresses
    <3> DEFINE x == F[p].addr
               y == F[p].size
               z == x + y - 1
               e == End(b) - 1
    <3>2. b.addr .. End(b) - 1 = Span(F[p].addr, F[p].size) \cup Span(a, n)
      <4>1. b.addr = a /\ x = a + n /\ x \in Nat /\ y \in Nat \ {0} /\ e = z
        BY <2>1, <2>2
      <4> HIDE DEF x, y, e
      <4>2. a .. z = (x .. x + y - 1) \cup (a .. a + n - 1)
        BY <4>1
      <4> HIDE DEF z
      <4> QED BY <4>1, <4>2 DEF Span, x, y, e
    <3> QED BY <3>1, <3>2
  <2>6. r = [m EXCEPT !.free = G]
    <3>1. r = [m EXCEPT !.free[p] = b]
      BY <1>3, <1>8 DEF Release, p, b
    <3> QED BY <3>1
  <2> HIDE DEF G
  <2>7. r \in Managers /\ r.free = G /\ r.maxfrees = m.maxfrees /\ r.lostsize = m.lostsize
    BY <2>4, <2>6 DEF Managers, Table
  <2> QED BY <2>4, <2>5, <2>7, <1>2, <1>4, <1>5, <1>8 DEF p
<1>9. CASE IsLost(m, a, n)
  <2>1. ~TouchesPrev(F, p, a) /\ ~TouchesNext(F, p, a, n) /\ Len(F) >= MaxFrees
    BY <1>4, <1>9
  <2> DEFINE x == m.losts + 1
             y == m.lostsize + n
  <2>2. r = [m EXCEPT !.losts = x, !.lostsize = y] /\ x \in Nat /\ y \in Nat
    BY <1>3, <1>5, <1>9, <2>1 DEF Release, p
  <2> HIDE DEF r, x
  <2>3. /\ r \in Managers /\ r.free = m.free /\ r.maxfrees = m.maxfrees
        /\ r.lostsize = m.lostsize + n
    BY <2>2, <1>5 DEF Managers
  <2> QED BY <2>1, <2>3, <1>1, <1>2, <1>5, <1>9 DEF p, r
<1>10. CASE ~TouchesPrev(F, p, a) /\ ~TouchesNext(F, p, a, n) /\ ~IsLost(m, a, n)
  <2> DEFINE G == InsertAt(F, p, Block(a, n))
             x == IF m.maxfrees < Len(G) THEN Len(G) ELSE m.maxfrees
  <2>1. Table(G) /\ Len(G) = Len(F) + 1 /\ Covered(G) = Covered(F) \cup Span(a, n)
    BY <1>1, <1>10, InsertFacts
  <2>2. r = [m EXCEPT !.free = G, !.maxfrees = x]
    BY <1>3, <1>10 DEF Release, p
  <2> HIDE DEF G
  <2>3. x \in Nat /\ m.maxfrees <= x /\ Len(G) <= x /\ x \in {m.maxfrees, Len(G)}
    BY <2>1, <1>2, <1>5
  <2> HIDE DEF x
  <2>4. r \in Managers /\ r.free = G /\ r.maxfrees = x /\ r.lostsize = m.lostsize
    BY <2>1, <2>2, <2>3 DEF Managers, Table
  <2>5. Len(G) <= MaxFrees
    BY <2>1, <1>2, <1>4, <1>10
  <2> QED BY <2>1, <2>3, <2>4, <2>5, <1>10
<1> QED BY <1>4, <1>6, <1>7, <1>8, <1>9, <1>10

-----------------------------------------------------------------------------
(* memman_alloc. *)

\* An entry that is at least as long as the span holds it.
LEMMA SpanInEntry ==
  ASSUME NEW F, Table(F), NEW i \in 1 .. Len(F), NEW n \in Nat \ {0}, n <= F[i].size
  PROVE  Span(F[i].addr, n) \subseteq Covered(F) /\ F[i].addr \in Span(F[i].addr, n)
<1>1. /\ F[i].addr \in Nat /\ F[i].size \in Nat /\ i \in DOMAIN F
  BY TableFields
<1> QED BY <1>1 DEF Span, Covered, Addresses

\* memman_alloc takes what it returns out of the table.
LEMMA AllocFacts ==
  ASSUME NEW m \in Managers, Table(m.free), NEW n \in Nat \ {0}, Fits(m, n) # {}
  PROVE  LET r == Alloc(m, n)
             a == AllocResult(m, n)
         IN  /\ a \in Nat /\ a \in Covered(m.free) /\ Span(a, n) \subseteq Covered(m.free)
             /\ r \in Managers /\ Table(r.free) /\ Len(r.free) <= Len(m.free)
             /\ r.maxfrees = m.maxfrees /\ r.lostsize = m.lostsize
             /\ Covered(r.free) = Covered(m.free) \ Span(a, n)
<1> DEFINE F == m.free
           i == Min(Fits(m, n))
           r == Alloc(m, n)
<1>1. F \in Seq(Blocks) /\ Len(F) \in Nat /\ DOMAIN F = 1 .. Len(F)
  BY TableFields
<1>2. i \in Fits(m, n)
  <2>1. Fits(m, n) \in SUBSET Nat
    BY <1>1 DEF Fits
  <2> QED BY <2>1, MinFacts
<1>3. i \in 1 .. Len(F) /\ F[i].size >= n
  BY <1>1, <1>2 DEF Fits
<1>4. AllocResult(m, n) = F[i].addr
  BY DEF AllocResult
<1>5. r = IF F[i].size = n THEN [m EXCEPT !.free = RemoveAt(m.free, i)]
          ELSE [m EXCEPT !.free[i] = Block(F[i].addr + n, F[i].size - n)]
  BY DEF Alloc
<1> HIDE DEF i, r
<1>6. F[i].addr \in Nat /\ F[i].size \in Nat
  BY <1>3, TableFields
<1>7. Span(F[i].addr, n) \subseteq Covered(F) /\ F[i].addr \in Covered(F)
  BY <1>3, <1>6, SpanInEntry
<1>8. CASE F[i].size = n
  <2> DEFINE G == RemoveAt(F, i)
  <2>1. Table(G) /\ Len(G) = Len(F) - 1 /\ Covered(G) = Covered(F) \ Span(F[i].addr, n)
    BY <1>3, <1>8, DropFacts
  <2>2. r = [m EXCEPT !.free = G]
    BY <1>5, <1>8
  <2> HIDE DEF G
  <2>3. r \in Managers /\ r.free = G /\ r.maxfrees = m.maxfrees /\ r.lostsize = m.lostsize
    BY <2>1, <2>2 DEF Managers, Table
  <2> QED BY <2>1, <2>3, <1>1, <1>4, <1>6, <1>7 DEF r
<1>9. CASE F[i].size # n
  <2> DEFINE G == [F EXCEPT ![i] = Block(F[i].addr + n, F[i].size - n)]
  <2>1. Table(G) /\ Len(G) = Len(F) /\ Covered(G) = Covered(F) \ Span(F[i].addr, n)
    <3>1. n < F[i].size
      BY <1>3, <1>6, <1>9
    <3> QED BY <3>1, <1>3, ShrinkFacts
  <2>2. r = [m EXCEPT !.free = G]
    BY <1>5, <1>9
  <2> HIDE DEF G
  <2>3. r \in Managers /\ r.free = G /\ r.maxfrees = m.maxfrees /\ r.lostsize = m.lostsize
    BY <2>1, <2>2 DEF Managers, Table
  <2> QED BY <2>1, <2>3, <1>1, <1>4, <1>6, <1>7 DEF r
<1> QED BY <1>8, <1>9

\* A span of free addresses lies within one entry, since there are gaps between
\* the entries: a request is refused only when there is none.
LEMMA RefuseFacts ==
  ASSUME NEW m \in Managers, Table(m.free), NEW n \in Nat \ {0}, Fits(m, n) = {},
         NEW a \in Covered(m.free)
  PROVE  ~(Span(a, n) \subseteq Covered(m.free))
<1> DEFINE F == m.free
<1> SUFFICES ASSUME Span(a, n) \subseteq Covered(F) PROVE FALSE
  OBVIOUS
<1>1. PICK i \in 1 .. Len(F) : a \in Nat /\ F[i].addr <= a /\ a < End(F[i])
  BY InTable
<1>2. /\ F[i].addr \in Nat /\ F[i].size \in Nat /\ End(F[i]) \in Nat
      /\ F[i].size = End(F[i]) - F[i].addr /\ DOMAIN F = 1 .. Len(F)
  BY TableFields
<1>3. F[i].size < n
  BY <1>2 DEF Fits
<1>4. End(F[i]) \in Span(a, n)
  BY <1>1, <1>2, <1>3 DEF Span
<1>5. PICK j \in 1 .. Len(F) : F[j].addr <= End(F[i]) /\ End(F[i]) < End(F[j])
  <2>1. End(F[i]) \in Covered(F)
    BY <1>4
  <2> QED BY <2>1, InTable
<1>6. F[j].addr \in Nat /\ End(F[j]) \in Nat /\ F[i].addr < End(F[i]) /\ F[j].addr < End(F[j])
  BY TableFields
<1>7. CASE j = i
  BY <1>2, <1>5, <1>7
<1>8. CASE j < i
  <2>1. End(F[j]) < F[i].addr
    BY <1>8, TableFields
  <2> QED BY <2>1, <1>2, <1>5, <1>6
<1>9. CASE j > i
  <2>1. End(F[i]) < F[j].addr
    BY <1>9, TableFields
  <2> QED BY <2>1, <1>2, <1>5, <1>6
<1> QED BY <1>7, <1>8, <1>9, TableFields

-----------------------------------------------------------------------------
(* memman_total. *)

\* The addresses of the first k entries.
First(F, k) == UNION {Addresses(F[i]) : i \in 1 .. k}

\* The sum over the entries is the number of addresses.
LEMMA TotalFacts ==
  ASSUME NEW m \in Managers, Table(m.free)
  PROVE  /\ IsFiniteSet(Covered(m.free))
         /\ MemTotal(m) = Cardinality(Covered(m.free))
<1> DEFINE F == m.free
           n == Len(F)
           Sum(t) == [i \in 0 .. n |-> IF i = 0 THEN 0 ELSE t[i - 1] + F[i].size]
           g == [i \in 0 .. n |-> Cardinality(First(F, i))]
           s == CHOOSE t : t = Sum(t)
<1>1. n \in Nat /\ DOMAIN F = 1 .. n
  BY TableFields
<1>2. MemTotal(m) = s[n]
  BY DEF MemTotal
<1>3. First(F, 0) = {}
  BY DEF First
<1>4. ASSUME NEW k \in 0 .. n - 1
      PROVE  /\ First(F, k + 1) = First(F, k) \cup Addresses(F[k + 1])
             /\ First(F, k) \cap Addresses(F[k + 1]) = {}
             /\ IsFiniteSet(Addresses(F[k + 1]))
             /\ Cardinality(Addresses(F[k + 1])) = F[k + 1].size
  <2>1. k + 1 \in 1 .. n /\ 1 .. k + 1 = 1 .. k \cup {k + 1}
    BY <1>1
  <2>2. F[k + 1].addr \in Nat /\ F[k + 1].size \in Nat \ {0}
    BY <2>1, TableFields
  <2>3. First(F, k + 1) = First(F, k) \cup Addresses(F[k + 1])
    BY <2>1 DEF First
  <2>4. First(F, k) \cap Addresses(F[k + 1]) = {}
    <3> SUFFICES ASSUME NEW x \in Addresses(F[k + 1]), NEW i \in 1 .. k, x \in Addresses(F[i])
                 PROVE  FALSE
      BY DEF First
    <3>1. i \in 1 .. n /\ i < k + 1
      BY <1>1
    <3> DEFINE b == F[i].addr
               d == F[i].size
               f == F[k + 1].addr
    <3>2. b + d < f /\ b \in Nat /\ d \in Nat /\ f \in Nat
      <4>1. End(F[i]) < F[k + 1].addr
        BY <2>1, <3>1, TableFields
      <4>2. F[i].addr \in Nat /\ F[i].size \in Nat
        BY <3>1, TableFields
      <4> QED BY <4>1, <4>2, <2>2 DEF End
    <3>3. x \in b .. b + d - 1 /\ x \in f .. f + F[k + 1].size - 1
      BY DEF Addresses
    <3>4. x \in Int /\ f <= x /\ x <= b + d - 1
      BY <3>2, <3>3, <2>2
    <3> HIDE DEF b, d, f
    <3> QED BY <3>2, <3>4
  <2>5. /\ IsFiniteSet(Addresses(F[k + 1]))
        /\ Cardinality(Addresses(F[k + 1])) = F[k + 1].size
    <3> DEFINE c == F[k + 1].addr
               d == F[k + 1].addr + F[k + 1].size - 1
    <3>1. c \in Int /\ d \in Int /\ ~(c > d) /\ d - c + 1 = F[k + 1].size
      <4> DEFINE e == F[k + 1].size
      <4>1. c \in Nat /\ e \in Nat \ {0} /\ d = c + e - 1
        BY <2>2
      <4> HIDE DEF c, d, e
      <4>2. c \in Int /\ d \in Int /\ ~(c > d) /\ d - c + 1 = e
        BY <4>1
      <4> QED BY <4>2 DEF e
    <3>2. Addresses(F[k + 1]) = c .. d
      BY DEF Addresses
    <3> HIDE DEF c, d
    <3>3. IsFiniteSet(c .. d) /\ Cardinality(c .. d) = d - c + 1
      BY <3>1, FS_Interval
    <3> QED BY <3>1, <3>2, <3>3
  <2> QED BY <2>3, <2>4, <2>5
<1> HIDE DEF n, F
<1>5. \A k \in 0 .. n : IsFiniteSet(First(F, k))
  <2> DEFINE T == {k \in Nat : k <= n => IsFiniteSet(First(F, k))}
  <2>1. 0 \in T
    BY <1>3, FS_EmptySet
  <2>2. ASSUME NEW k \in T PROVE k + 1 \in T
    <3> SUFFICES ASSUME k + 1 <= n PROVE IsFiniteSet(First(F, k + 1))
      OBVIOUS
    <3>1. k \in 0 .. n - 1 /\ IsFiniteSet(First(F, k))
      BY <1>1
    <3>2. /\ First(F, k + 1) = First(F, k) \cup Addresses(F[k + 1])
          /\ IsFiniteSet(Addresses(F[k + 1]))
      BY <3>1, <1>4
    <3>3. IsFiniteSet(First(F, k) \cup Addresses(F[k + 1]))
      BY <3>1, <3>2, FS_Union
    <3> QED BY <3>2, <3>3
  <2>3. T = Nat
    <3> HIDE DEF T
    <3>1. T \in SUBSET Nat
      BY DEF T
    <3> QED BY <2>1, <2>2, <3>1, Induct
  <2> QED BY <2>3, <1>1
<1>6. g[0] = 0
  <2>1. 0 \in 0 .. n
    BY <1>1
  <2>2. g[0] = Cardinality(First(F, 0))
    BY <2>1
  <2> QED BY <2>2, <1>3, FS_EmptySet
<1>7. ASSUME NEW k \in 1 .. n PROVE g[k] = g[k - 1] + F[k].size
  <2>1. k - 1 \in 0 .. n - 1 /\ k - 1 + 1 = k /\ k - 1 \in 0 .. n /\ k \in 0 .. n
    BY <1>1
  <2>2. /\ First(F, k) = First(F, k - 1) \cup Addresses(F[k])
        /\ First(F, k - 1) \cap Addresses(F[k]) = {}
        /\ IsFiniteSet(Addresses(F[k])) /\ Cardinality(Addresses(F[k])) = F[k].size
    BY <2>1, <1>4
  <2>3. Cardinality(First(F, k)) = Cardinality(First(F, k - 1)) + F[k].size - Cardinality({})
    BY <2>1, <2>2, <1>5, FS_Union
  <2>4. Cardinality({}) = 0 /\ Cardinality(First(F, k - 1)) \in Nat /\ F[k].size \in Nat
    <3>1. F[k].size \in Nat
      BY TableFields DEF n, F
    <3> QED BY <3>1, <2>1, <1>5, FS_EmptySet, FS_CardinalityType
  <2> QED BY <2>1, <2>3, <2>4
<1>8. g = Sum(g)
  <2>1. ASSUME NEW i \in 0 .. n
        PROVE  g[i] = IF i = 0 THEN 0 ELSE g[i - 1] + F[i].size
    <3> HIDE DEF g
    <3> QED BY <1>1, <1>6, <1>7
  <2> QED BY <2>1
<1>9. s = Sum(s)
  <2> HIDE DEF g, Sum
  <2> QED BY <1>8
<1>10. s[n] = g[n]
  <2> DEFINE T == {k \in Nat : k <= n => s[k] = g[k]}
  <2>1. ASSUME NEW i \in 0 .. n
        PROVE  s[i] = IF i = 0 THEN 0 ELSE s[i - 1] + F[i].size
    <3> HIDE DEF s
    <3> QED BY <1>9
  <2> HIDE DEF s, g
  <2>2. 0 \in T
    BY <1>1, <1>6, <2>1
  <2>3. ASSUME NEW k \in T PROVE k + 1 \in T
    <3> SUFFICES ASSUME k + 1 <= n PROVE s[k + 1] = g[k + 1]
      OBVIOUS
    <3>1. k + 1 \in 1 .. n /\ k + 1 - 1 = k /\ s[k] = g[k]
      BY <1>1
    <3> QED BY <3>1, <1>7, <2>1
  <2>4. T = Nat
    <3> HIDE DEF T
    <3>1. T \in SUBSET Nat
      BY DEF T
    <3> QED BY <2>2, <2>3, <3>1, Induct
  <2> QED BY <2>4, <1>1
<1>11. g[n] = Cardinality(First(F, n)) /\ First(F, n) = Covered(m.free)
  BY <1>1 DEF First, Covered, F
<1> QED BY <1>1, <1>2, <1>5, <1>10, <1>11

-----------------------------------------------------------------------------
(* Runs of free addresses. *)

\* The addresses where a run begins, and whether a block touches a run.
StartsOf(A) == {a \in A : a - 1 \notin A}
TouchesRun(A, a, n) == a - 1 \in A \/ a + n \in A

\* The runs are the entries: their number is the length of the table.
LEMMA StartsFacts ==
  ASSUME NEW F, Table(F)
  PROVE  Cardinality(StartsOf(Covered(F))) = Len(F)
<1> DEFINE S == StartsOf(Covered(F))
           n == Len(F)
           f == [i \in 1 .. n |-> F[i].addr]
<1>1. n \in Nat
  BY TableFields
<1>2. ASSUME NEW i \in 1 .. n PROVE F[i].addr \in S
  <2>1. F[i].addr \in Nat /\ F[i].addr <= F[i].addr /\ F[i].addr < End(F[i])
    BY TableFields
  <2>2. F[i].addr \in Covered(F)
    BY <2>1, InTable
  <2>3. ASSUME F[i].addr - 1 \in Covered(F) PROVE FALSE
    <3>1. PICK j \in 1 .. n : /\ F[i].addr - 1 \in Nat /\ F[j].addr <= F[i].addr - 1
                              /\ F[i].addr - 1 < End(F[j])
      BY <2>3, InTable
    <3>2. F[j].addr \in Nat /\ End(F[j]) \in Nat
      BY TableFields
    <3>3. CASE j < i
      <4>1. End(F[j]) < F[i].addr
        BY <3>3, TableFields
      <4> QED BY <4>1, <3>1, <3>2, <2>1
    <3>4. CASE j > i
      <4>1. End(F[i]) < F[j].addr
        BY <3>4, TableFields
      <4>2. End(F[i]) \in Nat
        BY TableFields
      <4> QED BY <4>1, <4>2, <3>1, <3>2, <2>1
    <3>5. CASE j = i
      BY <3>1, <3>5, <2>1
    <3> QED BY <3>3, <3>4, <3>5, <1>1
  <2> QED BY <2>2, <2>3 DEF StartsOf
<1>3. ASSUME NEW a \in S PROVE \E i \in 1 .. n : F[i].addr = a
  <2>1. a \in Covered(F) /\ a - 1 \notin Covered(F)
    BY DEF StartsOf
  <2>2. PICK i \in 1 .. n : a \in Nat /\ F[i].addr <= a /\ a < End(F[i])
    BY <2>1, InTable
  <2>3. F[i].addr \in Nat /\ End(F[i]) \in Nat
    BY TableFields
  <2>4. ASSUME F[i].addr # a PROVE FALSE
    <3>1. a - 1 \in Nat /\ F[i].addr <= a - 1 /\ a - 1 < End(F[i])
      BY <2>2, <2>3, <2>4
    <3> QED BY <3>1, <2>1, InTable
  <2> QED BY <2>4
<1>4. ASSUME NEW i \in 1 .. n, NEW j \in 1 .. n, F[i].addr = F[j].addr PROVE i = j
  <2> SUFFICES ASSUME NEW k \in 1 .. n, NEW l \in 1 .. n, k < l PROVE F[k].addr # F[l].addr
    BY <1>4, <1>1
  <2>1. End(F[k]) < F[l].addr /\ F[k].addr < End(F[k]) /\ F[k].addr \in Nat
        /\ End(F[k]) \in Nat /\ F[l].addr \in Nat
    BY TableFields
  <2> QED BY <2>1
<1> HIDE DEF S, n
<1>5. f \in Bijection(1 .. n, S)
  BY <1>2, <1>3, <1>4 DEF Bijection, Injection, Surjection, IsInjective
<1>6. ExistsBijection(1 .. n, S)
  BY <1>5 DEF ExistsBijection
<1>7. Cardinality(S) = n
  BY <1>1, <1>6, FS_CountingElements
<1> QED BY <1>7 DEF S, n

\* A block between two entries that touches neither touches no run.
LEMMA TouchesNothing ==
  ASSUME NEW F, Table(F), NEW a \in Nat, NEW n \in Nat \ {0}, NEW p,
         Between(F, p, a, n), ~TouchesPrev(F, p, a), ~TouchesNext(F, p, a, n)
  PROVE  ~TouchesRun(Covered(F), a, n)
<1>1. p \in 1 .. Len(F) + 1 /\ Len(F) \in Nat
  BY TableFields DEF Between
<1>2. ASSUME a - 1 \in Covered(F) PROVE FALSE
  <2>1. PICK j \in 1 .. Len(F) : a - 1 \in Nat /\ F[j].addr <= a - 1 /\ a - 1 < End(F[j])
    BY <1>2, InTable
  <2>2. F[j].addr \in Nat /\ End(F[j]) \in Nat
    BY TableFields
  <2>3. CASE j >= p
    <3>1. a + n <= F[j].addr
      BY <2>3 DEF Between
    <3> QED BY <3>1, <2>1, <2>2
  <2>4. CASE j < p
    <3>1. End(F[j]) <= a
      BY <2>4 DEF Between
    <3>2. End(F[j]) = a
      BY <3>1, <2>1, <2>2
    <3>3. CASE j = p - 1
      BY <3>2, <3>3, <2>4, <1>1 DEF TouchesPrev
    <3>4. CASE j < p - 1
      <4>1. p - 1 \in 1 .. Len(F) /\ p - 1 < p
        BY <3>4, <1>1
      <4>2. End(F[p - 1]) <= a
        BY <4>1 DEF Between
      <4>3. End(F[j]) < F[p - 1].addr /\ F[p - 1].addr < End(F[p - 1])
            /\ F[p - 1].addr \in Nat /\ End(F[p - 1]) \in Nat
        BY <3>4, <4>1, TableFields
      <4> QED BY <4>2, <4>3, <3>2
    <3> QED BY <3>3, <3>4, <2>4, <1>1
  <2> QED BY <2>3, <2>4, <1>1
<1>3. ASSUME a + n \in Covered(F) PROVE FALSE
  <2>1. PICK j \in 1 .. Len(F) : a + n \in Nat /\ F[j].addr <= a + n /\ a + n < End(F[j])
    BY <1>3, InTable
  <2>2. F[j].addr \in Nat /\ End(F[j]) \in Nat
    BY TableFields
  <2>3. CASE j < p
    <3>1. End(F[j]) <= a
      BY <2>3 DEF Between
    <3> QED BY <3>1, <2>1, <2>2
  <2>4. CASE j >= p
    <3>1. a + n = F[j].addr
      <4>1. a + n <= F[j].addr
        BY <2>4 DEF Between
      <4> QED BY <4>1, <2>1, <2>2
    <3>2. CASE j = p
      BY <3>1, <3>2 DEF TouchesNext
    <3>3. CASE j > p
      <4>1. p \in 1 .. Len(F) /\ p >= p
        BY <3>3, <1>1
      <4>2. a + n <= F[p].addr
        BY <4>1 DEF Between
      <4>3. End(F[p]) < F[j].addr /\ F[p].addr < End(F[p])
            /\ F[p].addr \in Nat /\ End(F[p]) \in Nat
        BY <3>3, <4>1, TableFields
      <4> QED BY <4>2, <4>3, <3>1, <2>2
    <3> QED BY <3>2, <3>3, <2>4, <1>1
  <2> QED BY <2>3, <2>4, <1>1
<1> QED BY <1>2, <1>3 DEF TouchesRun

-----------------------------------------------------------------------------
(* Pages. *)

\* A request that is not empty takes at least a page.
LEMMA RoundUpPositive ==
  ASSUME NEW n \in Nat \ {0}
  PROVE  RoundUp(n) \in Nat \ {0}
<1> DEFINE q == (n + Page - 1) \div Page
<1>1. Page \in Nat \ {0}
  BY MemmanAssumption
<1>2. q \in Nat /\ q >= 1
  BY <1>1
<1>3. \A x, y \in Nat : x >= 1 /\ y >= 1 => x * y \in Nat /\ x * y >= 1
  OBVIOUS
<1> HIDE DEF q
<1>4. q * Page \in Nat /\ q * Page >= 1
  BY <1>1, <1>2, <1>3
<1> QED BY <1>4 DEF RoundUp, q

\* A span has as many addresses as it is long.
LEMMA SpanSize ==
  ASSUME NEW a \in Nat, NEW n \in Nat \ {0}
  PROVE  IsFiniteSet(Span(a, n)) /\ Cardinality(Span(a, n)) = n
<1> DEFINE d == a + n - 1
<1>1. d \in Int /\ ~(a > d) /\ d - a + 1 = n
  OBVIOUS
<1>2. Span(a, n) = a .. d
  BY DEF Span
<1> HIDE DEF d
<1> QED BY <1>1, <1>2, FS_Interval

-----------------------------------------------------------------------------
(* The inductive invariant. *)

\* What a user holds: whole pages.
Taken(b) == Addresses(Block(b.addr, RoundUp(b.size)))

IInv == /\ man \in Managers /\ Table(man.free)
        /\ Len(man.free) <= man.maxfrees /\ man.maxfrees <= MaxFrees
        /\ owned \subseteq [addr : Nat, size : Requests]
        /\ Partition
        /\ IsFiniteSet(Lost) /\ man.lostsize = Cardinality(Lost)
        /\ reply \in Memory \cup {0, -1}

\* What the properties call available is what the table covers.
LEMMA AvailableCovered == Available = Covered(man.free)
  BY DEF Available, Covered

\* In the next state too.
LEMMA AvailableCoveredNext == Available' = Covered(man'.free)
  BY DEF Available, Covered

\* What is in use is what the users hold.
LEMMA InUseTaken == InUse = UNION {Taken(b) : b \in owned}
  BY DEF InUse, Taken

\* In the next state too.
LEMMA InUseTakenNext == InUse' = UNION {Taken(b) : b \in owned'}
  BY DEF InUse, Taken

\* The pages of a user whose request was not empty.
LEMMA TakenFacts ==
  ASSUME NEW a \in Nat, NEW size \in Nat \ {0}
  PROVE  /\ RoundUp(size) \in Nat \ {0}
         /\ Taken(Block(a, size)) = Span(a, RoundUp(size))
         /\ Block(a, size).addr = a /\ Block(a, size).size = size
         /\ Addresses(Block(a, RoundUp(size))) = Span(a, RoundUp(size))
<1>1. RoundUp(size) \in Nat \ {0}
  BY RoundUpPositive
<1>2. Addresses(Block(a, RoundUp(size))) = Span(a, RoundUp(size))
  BY <1>1, BlockFields
<1>3. Block(a, size).addr = a /\ Block(a, size).size = size
  BY BlockFields
<1> QED BY <1>1, <1>2, <1>3 DEF Taken

\* No managed address is 0 or negative.
LEMMA MemoryPositive == Memory \subseteq Nat \ {0}
<1>1. /\ Low.addr \in Nat \ {0} /\ Low.size \in Nat
      /\ High.addr \in Nat \ {0} /\ High.size \in Nat
  BY RegionAssumption
<1> QED BY <1>1 DEF Memory, Addresses

\* HariMain hands over both regions; they do not touch.
LEMMA InitIInv ==
  ASSUME Init
  PROVE  IInv /\ Available = Memory /\ Lost = {}
<1> DEFINE r == Release(MemInit, Low.addr, Low.size)
           s == Release(r, High.addr, High.size)
<1>1. /\ Low.addr \in Nat \ {0} /\ Low.size \in Nat \ {0}
      /\ High.addr \in Nat \ {0} /\ High.size \in Nat \ {0}
      /\ Low.addr + Low.size < High.addr /\ MaxFrees \in Nat /\ MaxFrees >= 2
  BY RegionAssumption, MemmanAssumption
<1>2. /\ MemInit \in Managers /\ MemInit.free = <<>> /\ Len(MemInit.free) = 0
      /\ MemInit.maxfrees = 0 /\ MemInit.lostsize = 0 /\ Table(MemInit.free)
      /\ Covered(MemInit.free) = {}
  BY DEF MemInit, Managers, Table, Covered
<1>3. /\ r \in Managers /\ Table(r.free) /\ Len(r.free) <= r.maxfrees
      /\ r.maxfrees <= MaxFrees /\ Covered(r.free) = Span(Low.addr, Low.size)
      /\ r.lostsize = 0
  <2> DEFINE a == Low.addr
             n == Low.size
             m == MemInit
  <2>1. a \in Nat /\ n \in Nat \ {0} /\ m \in Managers /\ Table(m.free)
        /\ Len(m.free) <= m.maxfrees /\ m.maxfrees <= MaxFrees
        /\ Span(a, n) \cap Covered(m.free) = {}
    BY <1>1, <1>2
  <2>2. ~IsLost(m, a, n)
    BY <1>1, <1>2 DEF IsLost
  <2> HIDE DEF a, n, m
  <2>3. LET q == Release(m, a, n)
        IN  /\ q \in Managers /\ Table(q.free) /\ Len(q.free) <= q.maxfrees
            /\ q.maxfrees <= MaxFrees /\ q.lostsize = m.lostsize
            /\ Covered(q.free) = Covered(m.free) \cup Span(a, n)
    BY <2>1, <2>2, ReleaseFacts
  <2> QED BY <2>3, <1>2 DEF a, n, m
<1>4. Len(r.free) = 1
  <2>1. Above(MemInit, Low.addr) = {} /\ Position(MemInit, Low.addr) = 1
    BY <1>2 DEF Above, Position
  <2>2. ~StartsAfter(MemInit, Low.addr, 0) /\ ~EndsAt(MemInit, Low.addr, Low.size, 1)
        /\ ~IsLost(MemInit, Low.addr, Low.size)
    BY <1>1, <1>2 DEF StartsAfter, EndsAt, IsLost
  <2>3. r.free = InsertAt(MemInit.free, 1, Block(Low.addr, Low.size))
    BY <2>1, <2>2 DEF Release, MemInit
  <2>4. MemInit.free \in Seq(Blocks) /\ 1 \in 1 .. Len(MemInit.free) + 1
    BY <1>2
  <2>5. Block(Low.addr, Low.size) \in Blocks
    BY <1>1, BlockFields
  <2>6. Len(InsertAt(MemInit.free, 1, Block(Low.addr, Low.size))) = Len(MemInit.free) + 1
    BY <2>4, <2>5, InsertAtFacts
  <2> HIDE DEF r
  <2> QED BY <2>3, <2>6, <1>2
<1> HIDE DEF r
<1>5. /\ s \in Managers /\ Table(s.free) /\ Len(s.free) <= s.maxfrees
      /\ s.maxfrees <= MaxFrees /\ s.lostsize = 0
      /\ Covered(s.free) = Span(Low.addr, Low.size) \cup Span(High.addr, High.size)
  <2> DEFINE a == High.addr
             n == High.size
  <2>1. a \in Nat /\ n \in Nat \ {0} /\ Span(a, n) \cap Covered(r.free) = {}
    BY <1>1, <1>3 DEF Span
  <2>2. ~IsLost(r, a, n)
    BY <1>1, <1>4 DEF IsLost
  <2> HIDE DEF a, n
  <2>3. LET q == Release(r, a, n)
        IN  /\ q \in Managers /\ Table(q.free) /\ Len(q.free) <= q.maxfrees
            /\ q.maxfrees <= MaxFrees /\ q.lostsize = r.lostsize
            /\ Covered(q.free) = Covered(r.free) \cup Span(a, n)
    BY <1>3, <2>1, <2>2, ReleaseFacts
  <2> QED BY <2>3, <1>3 DEF a, n
<1>6. man = s /\ owned = {} /\ lost = {} /\ reply = 0
  BY DEF Init, r
<1> HIDE DEF s
<1>7. Available = Memory
  BY <1>5, <1>6, AvailableCovered DEF Memory, Addresses, Span
<1>8. InUse = {} /\ Lost = {}
  BY <1>6 DEF InUse, Lost
<1>9. Partition
  BY <1>6, <1>7, <1>8 DEF Partition
<1>10. IsFiniteSet(Lost) /\ man.lostsize = Cardinality(Lost)
  BY <1>5, <1>6, <1>8, FS_EmptySet
<1> QED BY <1>5, <1>6, <1>7, <1>8, <1>9, <1>10 DEF IInv

\* A request is granted out of the free addresses, or refused.
LEMMA AllocateIInv ==
  ASSUME IInv, 0 \notin Requests, NEW size \in Requests, Allocate(size)
  PROVE  /\ IInv'
         /\ \/ reply' \in Memory /\ Pool!Grant(reply', RoundUp(size))
            \/ Pool!Refuse(RoundUp(size))
<1> DEFINE n == RoundUp(size)
           a == AllocResult(man, n)
<1>1. size \in Nat \ {0}
  BY RequestAssumption
<1>2. n \in Nat \ {0}
  BY <1>1, RoundUpPositive
<1>3. /\ man \in Managers /\ Table(man.free) /\ Partition /\ Len(man.free) \in Nat
      /\ man.maxfrees \in Nat /\ man.lostsize \in Nat
  BY TableFields DEF IInv, Managers
<1>4. man' = Alloc(man, n) /\ reply' = a /\ lost' = lost /\ Lost' = Lost
      /\ owned' = IF a = 0 THEN owned ELSE owned \cup {Block(a, size)}
  BY DEF Allocate, Lost, NoSpace
<1> HIDE DEF n
<1>5. CASE Fits(man, n) = {}
  <2>1. a = 0 /\ man' = man
    BY <1>4, <1>5 DEF AllocResult, Alloc, NoSpace
  <2>2. owned' = owned /\ Available' = Available /\ InUse' = InUse
    BY <2>1, <1>4 DEF Available, InUse
  <2>3. Partition'
    BY <2>2, <1>3, <1>4 DEF Partition
  <2>4. IInv'
    BY <2>1, <2>2, <2>3, <1>4 DEF IInv
  <2>5. \A x \in Available : ~(Span(x, n) \subseteq Available)
    BY <1>2, <1>3, <1>5, AvailableCovered, RefuseFacts
  <2> QED BY <2>1, <2>2, <2>4, <2>5, <1>4 DEF Pool!Refuse, Pool!Run, Span, n
<1>6. CASE Fits(man, n) # {}
  <2>1. /\ a \in Nat /\ a \in Covered(man.free) /\ Span(a, n) \subseteq Covered(man.free)
        /\ man' \in Managers /\ Table(man'.free) /\ Len(man'.free) <= Len(man.free)
        /\ man'.maxfrees = man.maxfrees /\ man'.lostsize = man.lostsize
        /\ Covered(man'.free) = Covered(man.free) \ Span(a, n)
    BY <1>2, <1>3, <1>4, <1>6, AllocFacts
  <2> HIDE DEF a
  <2>2. a \in Memory /\ a # 0 /\ a \in Available /\ Span(a, n) \subseteq Available
    BY <2>1, <1>3, AvailableCovered, MemoryPositive DEF Partition
  <2>3. Available' = Available \ Span(a, n)
    BY <2>1, AvailableCovered, AvailableCoveredNext
  <2> DEFINE b == Block(a, size)
  <2>4. owned' = owned \cup {b}
    BY <1>4, <2>2
  <2>5. Taken(b) = Span(a, n) /\ b \in [addr : Nat, size : Requests]
    <3>1. Taken(b) = Span(a, n)
      BY <1>1, <2>1, TakenFacts DEF n
    <3> QED BY <3>1, <2>1 DEF Block
  <2> HIDE DEF b
  <2>6. InUse' = InUse \cup Span(a, n)
    BY <2>4, <2>5, InUseTaken, InUseTakenNext
  <2>7. \A c \in owned : Taken(c) \cap Taken(b) = {}
    <3>1. \A c \in owned : Taken(c) \subseteq InUse
      BY InUseTaken
    <3> QED BY <3>1, <2>2, <2>5, <1>3 DEF Partition
  <2>8. Partition'
    <3>1. /\ Available' \cup InUse' \cup Lost' = Memory
          /\ Available' \cap InUse' = {} /\ Lost' \cap (Available' \cup InUse') = {}
      BY <2>2, <2>3, <2>6, <1>3, <1>4 DEF Partition
    <3>2. \A c, d \in owned' : c # d => Taken(c) \cap Taken(d) = {}
      <4>1. \A c, d \in owned : c # d => Taken(c) \cap Taken(d) = {}
        BY <1>3 DEF Partition, Taken
      <4> QED BY <4>1, <2>4, <2>7
    <3> QED BY <3>1, <3>2 DEF Partition, Memory, Taken
  <2>9. IInv'
    <3>1. Len(man'.free) <= man'.maxfrees /\ man'.maxfrees <= MaxFrees
      <4>1. Len(man.free) <= man.maxfrees /\ man.maxfrees <= MaxFrees /\ Len(man'.free) \in Nat
        BY <2>1, TableFields DEF IInv
      <4> QED BY <4>1, <2>1, <1>3
    <3>2. owned' \subseteq [addr : Nat, size : Requests]
      BY <2>4, <2>5 DEF IInv
    <3>3. IsFiniteSet(Lost') /\ man'.lostsize = Cardinality(Lost')
      BY <2>1, <1>4 DEF IInv
    <3>4. reply' \in Memory \cup {0, -1}
      BY <1>4, <2>2
    <3> QED BY <3>1, <3>2, <3>3, <3>4, <2>1, <2>8 DEF IInv, Memory
  <2> QED BY <1>4, <2>2, <2>3, <2>9 DEF Pool!Grant, Pool!Run, Span, n
<1> QED BY <1>5, <1>6

\* A block given back is free again, joined with what it touches, or lost when
\* there is no other way.
LEMMA GiveBackIInv ==
  ASSUME IInv, 0 \notin Requests, NEW b \in owned, GiveBack(b)
  PROVE  /\ IInv'
         /\ b.addr \in Memory
         /\ \/ Pool!GiveBack(b.addr, RoundUp(b.size))
            \/ Pool!Lose(b.addr, RoundUp(b.size))
<1> DEFINE n == RoundUp(b.size)
           a == b.addr
           p == Position(man, a)
<1>1. a \in Nat /\ b.size \in Requests /\ b.size \in Nat \ {0} /\ b = Block(a, b.size)
  <2>1. b \in [addr : Nat, size : Requests]
    BY DEF IInv
  <2> QED BY <2>1, RequestAssumption DEF Block
<1>2. n \in Nat \ {0} /\ Taken(b) = Span(a, n) /\ Addresses(Block(a, n)) = Span(a, n)
  BY <1>1, TakenFacts
<1>3. /\ man \in Managers /\ Table(man.free) /\ Partition
      /\ Len(man.free) <= man.maxfrees /\ man.maxfrees <= MaxFrees /\ man.lostsize \in Nat
  BY DEF IInv, Managers
<1>4. /\ man' = Release(man, a, n) /\ owned' = owned \ {b}
      /\ reply' = IF IsLost(man, a, n) THEN -1 ELSE 0
      /\ lost' = IF IsLost(man, a, n) THEN lost \cup {Block(a, n)} ELSE lost
  BY DEF GiveBack, FreeResult
<1> HIDE DEF n
<1>5. Span(a, n) \subseteq InUse /\ a \in Span(a, n)
  BY <1>1, <1>2, InUseTaken DEF Span
<1>6. Span(a, n) \cap Covered(man.free) = {} /\ Span(a, n) \cap Lost = {} /\ a \in Memory
      /\ Span(a, n) \subseteq Memory \ (Available \cup Lost)
  BY <1>5, <1>3, AvailableCovered DEF Partition
<1>7. InUse' = InUse \ Span(a, n)
  <2>1. \A c \in owned : c # b => Taken(c) \cap Span(a, n) = {}
    BY <1>2, <1>3 DEF Partition, Taken
  <2> QED BY <2>1, <1>2, <1>4, InUseTaken, InUseTakenNext
<1>8. \A c, d \in owned' : c # d => Taken(c) \cap Taken(d) = {}
  <2>1. \A c, d \in owned : c # d => Taken(c) \cap Taken(d) = {}
    BY <1>3 DEF Partition, Taken
  <2> QED BY <2>1, <1>4
<1>9. /\ man' \in Managers /\ Table(man'.free)
      /\ Len(man'.free) <= man'.maxfrees /\ man'.maxfrees <= MaxFrees
      /\ ~IsLost(man, a, n) => /\ Covered(man'.free) = Covered(man.free) \cup Span(a, n)
                               /\ man'.lostsize = man.lostsize
      /\ IsLost(man, a, n) => /\ man'.free = man.free /\ man'.lostsize = man.lostsize + n
                              /\ Len(man.free) = MaxFrees
                              /\ Between(man.free, p, a, n)
                              /\ ~TouchesPrev(man.free, p, a)
                              /\ ~TouchesNext(man.free, p, a, n)
  BY <1>1, <1>2, <1>3, <1>4, <1>6, ReleaseFacts
<1> HIDE DEF p
<1>10. owned' \subseteq [addr : Nat, size : Requests]
  BY <1>4 DEF IInv
<1>11. CASE ~IsLost(man, a, n)
  <2>1. reply' = 0 /\ Lost' = Lost
    BY <1>4, <1>11 DEF Lost
  <2>2. Available' = Available \cup Span(a, n)
    BY <1>9, <1>11, AvailableCovered, AvailableCoveredNext
  <2>3. Partition'
    <3>1. /\ Available' \cup InUse' \cup Lost' = Memory
          /\ Available' \cap InUse' = {} /\ Lost' \cap (Available' \cup InUse') = {}
      BY <2>1, <2>2, <1>3, <1>5, <1>6, <1>7 DEF Partition
    <3> QED BY <3>1, <1>8 DEF Partition, Memory, Taken
  <2>4. IsFiniteSet(Lost') /\ man'.lostsize = Cardinality(Lost')
    BY <2>1, <1>9, <1>11 DEF IInv
  <2>5. IInv'
    BY <2>1, <2>3, <2>4, <1>9, <1>10 DEF IInv, Memory
  <2>6. Pool!GiveBack(a, n)
    BY <2>1, <2>2, <1>6 DEF Pool!GiveBack, Pool!Run, Span
  <2> QED BY <2>5, <2>6, <1>6 DEF n
<1>12. CASE IsLost(man, a, n)
  <2>1. reply' = -1 /\ Lost' = Lost \cup Span(a, n)
    BY <1>2, <1>4, <1>12 DEF Lost
  <2>2. Available' = Available
    BY <1>9, <1>12, AvailableCovered, AvailableCoveredNext
  <2>3. Partition'
    <3>1. /\ Available' \cup InUse' \cup Lost' = Memory
          /\ Available' \cap InUse' = {} /\ Lost' \cap (Available' \cup InUse') = {}
      BY <2>1, <2>2, <1>3, <1>5, <1>6, <1>7 DEF Partition
    <3> QED BY <3>1, <1>8 DEF Partition, Memory, Taken
  <2>4. IsFiniteSet(Lost') /\ man'.lostsize = Cardinality(Lost')
    <3>1. IsFiniteSet(Lost) /\ man.lostsize = Cardinality(Lost)
      BY DEF IInv
    <3>2. IsFiniteSet(Span(a, n)) /\ Cardinality(Span(a, n)) = n
      BY <1>1, <1>2, SpanSize
    <3>3. Lost \cap Span(a, n) = {} /\ Cardinality({}) = 0
      BY <1>6, FS_EmptySet
    <3>4. /\ IsFiniteSet(Lost \cup Span(a, n))
          /\ Cardinality(Lost \cup Span(a, n)) = Cardinality(Lost) + n - 0
      BY <3>1, <3>2, <3>3, FS_Union
    <3> QED BY <3>1, <3>4, <2>1, <1>2, <1>3, <1>9, <1>12
  <2>5. IInv'
    BY <2>1, <2>3, <2>4, <1>9, <1>10 DEF IInv, Memory
  <2>6. Pool!Cardinality(Pool!Starts) = MaxFrees
    <3>1. Pool!Starts = StartsOf(Covered(man.free))
      BY AvailableCovered DEF Pool!Starts, StartsOf
    <3>2. Cardinality(Pool!Starts) = MaxFrees
      BY <3>1, <1>3, <1>9, <1>12, StartsFacts
    <3>3. Pool!Cardinality(Pool!Starts) = Cardinality(Pool!Starts)
      BY DEF Pool!Cardinality, Cardinality
    <3> QED BY <3>2, <3>3
  <2>7. ~Pool!Touches(a, n)
    <3>1. ~TouchesRun(Covered(man.free), a, n)
      BY <1>1, <1>2, <1>3, <1>9, <1>12, TouchesNothing
    <3> QED BY <3>1, AvailableCovered DEF Pool!Touches, TouchesRun
  <2>8. Pool!Lose(a, n)
    BY <2>1, <2>2, <2>6, <2>7, <1>6 DEF Pool!Lose, Pool!Run, Span
  <2> QED BY <2>5, <2>8, <1>6 DEF n
<1> QED BY <1>11, <1>12

-----------------------------------------------------------------------------
(* The theorems.  The requests are not empty: an empty one leaves an empty *)
(* block in the table, which the run memory_empty_file shows.              *)

\* Every step keeps the invariant and is one of the heap, or changes nothing.
LEMMA NextIInv ==
  ASSUME IInv, 0 \notin Requests, [Next]_vars
  PROVE  IInv' /\ [Pool!Next]_(Pool!vars)
<1>1. ASSUME NEW size \in Requests, Allocate(size)
      PROVE  IInv' /\ Pool!Next
  <2>1. CASE reply' \in Memory /\ Pool!Grant(reply', RoundUp(size))
    BY <2>1, <1>1, AllocateIInv DEF Pool!Next
  <2>2. CASE Pool!Refuse(RoundUp(size))
    BY <2>2, <1>1, AllocateIInv DEF Pool!Next
  <2> QED BY <2>1, <2>2, <1>1, AllocateIInv
<1>2. ASSUME NEW b \in owned, GiveBack(b)
      PROVE  IInv' /\ Pool!Next
  <2>1. b.size \in Requests
    BY DEF IInv
  <2>2. /\ IInv' /\ b.addr \in Memory
        /\ Pool!GiveBack(b.addr, RoundUp(b.size)) \/ Pool!Lose(b.addr, RoundUp(b.size))
    BY <1>2, GiveBackIInv
  <2> QED BY <2>1, <2>2 DEF Pool!Next
<1>3. CASE UNCHANGED vars
  <2>1. Available' = Available /\ InUse' = InUse /\ Lost' = Lost
    BY <1>3 DEF vars, Available, InUse, Lost
  <2>2. Partition'
    BY <2>1, <1>3 DEF vars, IInv, Partition
  <2>3. IInv'
    BY <2>1, <2>2, <1>3 DEF vars, IInv
  <2> QED BY <2>1, <2>3, <1>3 DEF vars, Pool!vars
<1> QED BY <1>1, <1>2, <1>3 DEF Next

\* The inductive invariant holds.
THEOREM Invariance ==
  ASSUME 0 \notin Requests
  PROVE  Spec => []IInv
<1>1. Init => IInv
  BY InitIInv
<1>2. IInv /\ [Next]_vars => IInv'
  BY NextIInv
<1> QED BY <1>1, <1>2, PTL DEF Spec

\* The table never outgrows its array and holds blocks of the managed memory
\* (memory.c: memman_alloc, memman_free).
THEOREM TypeCorrect ==
  ASSUME 0 \notin Requests
  PROVE  Spec => []TypeOK
<1>1. IInv => TypeOK
  <2> SUFFICES ASSUME IInv PROVE TypeOK
    OBVIOUS
  <2>1. /\ man.free \in Seq(Blocks) /\ Table(man.free) /\ man.maxfrees \in Nat
        /\ man.losts \in Nat /\ man.lostsize \in Nat /\ Len(man.free) <= man.maxfrees
        /\ man.maxfrees <= MaxFrees /\ reply \in Memory \cup {0, -1}
    BY DEF IInv, Managers
  <2>2. man.free \in Seq([addr : Memory, size : Nat \ {0}])
    <3>1. \A i \in 1 .. Len(man.free) : man.free[i] \in [addr : Memory, size : Nat \ {0}]
      <4> SUFFICES ASSUME NEW i \in 1 .. Len(man.free)
                   PROVE  man.free[i] \in [addr : Memory, size : Nat \ {0}]
        OBVIOUS
      <4>1. /\ man.free[i] \in Blocks /\ man.free[i].addr \in Nat
            /\ man.free[i].addr < End(man.free[i]) /\ man.free[i].addr <= man.free[i].addr
        BY <2>1, TableFields
      <4>2. man.free[i].addr \in Covered(man.free)
        BY <4>1, <2>1, InTable
      <4>3. man.free[i].addr \in Memory
        BY <4>2, AvailableCovered DEF IInv, Partition
      <4> QED BY <4>1, <4>3 DEF Blocks
    <3> DEFINE S == [addr : Memory, size : Nat \ {0}]
               F == man.free
    <3>2. Len(F) \in Nat /\ DOMAIN F = 1 .. Len(F) /\ F = [i \in 1 .. Len(F) |-> F[i]]
      BY <2>1, LenProperties
    <3>3. \A i \in 1 .. Len(F) : F[i] \in S
      BY <3>1
    <3> HIDE DEF S, F
    <3>4. F \in Seq(S)
      BY <3>2, <3>3
    <3> QED BY <3>4 DEF S, F
  <2> QED BY <2>1, <2>2, MemmanAssumption DEF TypeOK
<1> QED BY <1>1, Invariance, PTL

\* Ascending addresses with a gap between neighbours: memman_free inserts a
\* block in its place and joins those that touch.
THEOREM Ordered ==
  ASSUME 0 \notin Requests
  PROVE  Spec => []TableOrdered
<1>1. IInv => TableOrdered
  <2> SUFFICES ASSUME IInv, NEW i \in 1 .. Len(man.free) - 1
               PROVE  man.free[i].addr + man.free[i].size < man.free[i + 1].addr
    BY DEF TableOrdered
  <2>1. Table(man.free) /\ Len(man.free) \in Nat
    BY TableFields DEF IInv
  <2>2. i \in 1 .. Len(man.free) /\ i + 1 \in 1 .. Len(man.free) /\ i < i + 1
    BY <2>1
  <2>3. End(man.free[i]) < man.free[i + 1].addr
    BY <2>1, <2>2, TableFields
  <2> QED BY <2>3 DEF End
<1> QED BY <1>1, Invariance, PTL

\* Memory is never given to two users, nor free twice, nor does it disappear
\* without being counted as lost (memory.c as a whole).
THEOREM Partitioned ==
  ASSUME 0 \notin Requests
  PROVE  Spec => []Partition
<1>1. IInv => Partition
  BY DEF IInv
<1> QED BY <1>1, Invariance, PTL

\* What the mem command prints is the number of free addresses, and lostsize
\* that of the lost ones (memman_total, memman_free).
THEOREM Accounted ==
  ASSUME 0 \notin Requests
  PROVE  Spec => []Accounts
<1>1. IInv => Accounts
  BY TotalFacts, AvailableCovered DEF IInv, Accounts
<1> QED BY <1>1, Invariance, PTL

\* memory.c implements Heap: it refuses a request only if there is no run of
\* free addresses of that length, and loses memory only if the table is full
\* and the block touches no free address.
THEOREM Refinement ==
  ASSUME 0 \notin Requests
  PROVE  Spec => ImplementsHeap
<1>1. Init => Pool!Init
  BY InitIInv DEF Init, Pool!Init
<1>2. IInv /\ [Next]_vars => [Pool!Next]_(Pool!vars)
  BY NextIInv
<1> QED BY <1>1, <1>2, Invariance, PTL DEF Spec, ImplementsHeap, Pool!Spec
=============================================================================

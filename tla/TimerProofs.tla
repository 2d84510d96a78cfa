---------------------------- MODULE TimerProofs ----------------------------
(***************************************************************************)
(* For all timers, consoles and times: the list of the armed timers is in  *)
(* order and complete, TaskTimer is always on it, no timer has two users,  *)
(* and each timer rings when it is due and not otherwise.                  *)
(***************************************************************************)
EXTENDS Timer, KernelLemmas

-----------------------------------------------------------------------------
(* The list as the sequence s of its timers. *)

Elements(s) == {s[i] : i \in 1 .. Len(s)}

\* The timers of s are linked in this order, which is that of their times.
Listed(ctl, s) ==
    /\ s \in Seq(All) /\ s # <<>>
    /\ s[1] = ctl.t0 /\ s[Len(s)] = Sentinel
    /\ \A i, j \in 1 .. Len(s) : i < j => s[i] # s[j] /\ Time(ctl, s[i]) <= Time(ctl, s[j])
    /\ \A i \in 1 .. Len(s) : ctl.timers0[s[i]].next = IF i = Len(s) THEN Nil ELSE s[i + 1]
    /\ ctl.next = Time(ctl, ctl.t0)
    /\ Time(ctl, Sentinel) = Never

\* The fields of the structure and of a timer.
LEMMA ControlFields ==
  ASSUME NEW ctl \in Controls
  PROVE  /\ ctl.t0 \in All /\ ctl.next \in 0 .. Never /\ ctl.count \in 0 .. MaxCount
         /\ ctl.timers0 \in [All -> TimerRecords]
         /\ \A t \in All :
              /\ ctl.timers0[t].next \in All \cup {Nil} /\ Time(ctl, t) \in 0 .. Never
              /\ ctl.timers0[t].flags \in {NotUsed, Alloc, Using} /\ ctl.timers0[t].flags2 \in {0, 1}
              /\ ctl.timers0[t].fifo \in Consoles \cup {Nil}
  BY DEF Controls, TimerRecords, Time

\* The assumptions on the times.
LEMMA Times ==
  /\ Never \in Nat /\ MaxCount \in Nat /\ MaxCount < Never
  /\ \A d \in Delays \cup Slices \cup {CursorDelay} : d \in Nat /\ MaxCount + d < Never
  /\ \A s \in Slices : s > 0
  BY TimerAssumption

\* The timers and the sequence.
LEMMA Names ==
  /\ IsFiniteSet(All) /\ Nil \notin All /\ Sentinel \in All /\ TaskTimer \in All
  /\ Others \subseteq All /\ Sentinel # TaskTimer
  /\ Sentinel \notin Others /\ TaskTimer \notin Others
<1>1. IsFiniteSet({Sentinel, TaskTimer})
  <2>1. IsFiniteSet({Sentinel} \cup {TaskTimer})
    BY FS_AddElement, FS_Singleton
  <2>2. {Sentinel} \cup {TaskTimer} = {Sentinel, TaskTimer}
    OBVIOUS
  <2> QED BY <2>1, <2>2
<1>2. IsFiniteSet(All)
  BY <1>1, FS_Union, TimerAssumption DEF All
<1> QED BY <1>2, TimerAssumption DEF All

LEMMA ListFields ==
  ASSUME NEW ctl, NEW s, Listed(ctl, s)
  PROVE  /\ Len(s) \in Nat \ {0} /\ DOMAIN s = 1 .. Len(s)
         /\ \A i \in 1 .. Len(s) : s[i] \in All /\ s[i] \in Elements(s)
         /\ Elements(s) \subseteq All
         /\ ctl.t0 \in Elements(s) /\ Sentinel \in Elements(s)
<1>1. s \in Seq(All) /\ s # <<>> /\ s[1] = ctl.t0 /\ s[Len(s)] = Sentinel
  BY DEF Listed
<1>2. Len(s) \in Nat \ {0} /\ DOMAIN s = 1 .. Len(s) /\ \A i \in 1 .. Len(s) : s[i] \in All
  BY <1>1, EmptySeq, ElementOfSeq
<1>3. 1 \in 1 .. Len(s) /\ Len(s) \in 1 .. Len(s)
  BY <1>2
<1> QED BY <1>1, <1>2, <1>3 DEF Elements

\* A list is not longer than the number of timers.
LEMMA ListShort ==
  ASSUME NEW ctl, NEW s, Listed(ctl, s)
  PROVE  Len(s) \in Nat /\ Cardinality(All) \in Nat /\ Len(s) <= Cardinality(All)
<1>1. Len(s) \in Nat /\ s \in [1 .. Len(s) -> All]
  <2>1. s \in Seq(All)
    BY DEF Listed
  <2> QED BY <2>1, LenProperties
<1>2. \A i, j \in 1 .. Len(s) : s[i] = s[j] => i = j
  <2>1. \A i, j \in 1 .. Len(s) : i < j => s[i] # s[j]
    BY DEF Listed
  <2> QED BY <1>1, <2>1
<1>3. s \in Injection(1 .. Len(s), All)
  BY <1>1, <1>2 DEF Injection, IsInjective
<1>4. IsFiniteSet(1 .. Len(s)) /\ Cardinality(1 .. Len(s)) = Len(s)
  BY <1>1, FS_Interval
<1>5. Cardinality(1 .. Len(s)) <= Cardinality(All)
  BY <1>3, Names, FS_Injection
<1> QED BY <1>1, <1>4, <1>5, Names, FS_CardinalityType

\* What the links lead to.
LEMMA ChainFacts ==
  ASSUME NEW ctl, NEW s, Listed(ctl, s)
  PROVE  /\ \A i \in Positions : Chain(ctl)[i] = IF i < Len(s) THEN s[i + 1] ELSE Nil
         /\ {Chain(ctl)[i] : i \in Positions} \ {Nil} = Elements(s)
<1> DEFINE n == Len(s)
           p == Cardinality(All)
           Step(f) == [i \in Positions |-> IF i = 0 THEN ctl.t0
                         ELSE IF f[i - 1] = Nil THEN Nil ELSE ctl.timers0[f[i - 1]].next]
           g == [i \in Positions |-> IF i < n THEN s[i + 1] ELSE Nil]
           c == CHOOSE f : f = Step(f)
<1>1. n \in Nat \ {0} /\ p \in Nat /\ n <= p
  BY ListFields, ListShort
<1>2. Chain(ctl) = c
  BY DEF Chain
<1>3. g = Step(g)
  <2>1. ASSUME NEW i \in Positions
        PROVE  g[i] = IF i = 0 THEN ctl.t0
                      ELSE IF g[i - 1] = Nil THEN Nil ELSE ctl.timers0[g[i - 1]].next
    <3>1. i \in 0 .. p
      BY DEF Positions
    <3>2. CASE i = 0
      BY <3>2, <1>1 DEF Listed
    <3>3. CASE i # 0 /\ i - 1 < n
      <4>1. i \in 1 .. n /\ i - 1 \in Positions /\ i - 1 + 1 = i
        BY <3>1, <3>3, <1>1 DEF Positions
      <4>2. g[i - 1] = s[i] /\ s[i] # Nil
        BY <3>3, <4>1, ListFields, Names
      <4>3. ctl.timers0[s[i]].next = IF i = n THEN Nil ELSE s[i + 1]
        BY <4>1 DEF Listed
      <4>4. g[i] = IF i < n THEN s[i + 1] ELSE Nil
        OBVIOUS
      <4> QED BY <3>3, <4>1, <4>2, <4>3, <4>4
    <3>4. CASE i # 0 /\ ~(i - 1 < n)
      <4>1. i - 1 \in Positions /\ ~(i < n)
        BY <3>1, <3>4, <1>1 DEF Positions
      <4> QED BY <3>4, <4>1
    <3> QED BY <3>2, <3>3, <3>4
  <2> HIDE DEF g
  <2>2. g = [i \in Positions |-> g[i]]
    BY DEF g
  <2> QED BY <2>1, <2>2
<1>4. c = Step(c)
  <2> HIDE DEF g, Step
  <2> QED BY <1>3
<1> HIDE DEF c
<1> DEFINE T == {i \in Nat : i \in Positions => c[i] = g[i]}
<1>5. 0 \in T
  BY <1>1, <1>3, <1>4 DEF Positions
<1>6. ASSUME NEW i \in T PROVE i + 1 \in T
  <2> SUFFICES ASSUME i + 1 \in Positions PROVE c[i + 1] = g[i + 1]
    OBVIOUS
  <2>1. i \in Positions /\ c[i] = g[i] /\ i + 1 # 0 /\ i + 1 - 1 = i
    BY <1>1 DEF Positions
  <2>2. c[i + 1] = IF c[i] = Nil THEN Nil ELSE ctl.timers0[c[i]].next
    <3>1. c[i + 1] = Step(c)[i + 1]
      BY <1>4
    <3> QED BY <2>1, <3>1
  <2>3. g[i + 1] = IF g[i] = Nil THEN Nil ELSE ctl.timers0[g[i]].next
    <3> HIDE DEF g
    <3> QED BY <2>1, <1>3
  <2> QED BY <2>1, <2>2, <2>3
<1>7. T = Nat
  <2> HIDE DEF T
  <2>1. T \in SUBSET Nat
    BY DEF T
  <2> QED BY <2>1, <1>5, <1>6, Induct
<1>8. \A i \in Positions : c[i] = g[i]
  <2>1. Positions \subseteq Nat
    BY <1>1 DEF Positions
  <2> HIDE DEF g
  <2> QED BY <2>1, <1>7
<1>9. {c[i] : i \in Positions} \ {Nil} = Elements(s)
  <2>1. ASSUME NEW i \in Positions, c[i] # Nil PROVE c[i] \in Elements(s)
    <3>1. i < n /\ i + 1 \in 1 .. n /\ c[i] = s[i + 1]
      BY <2>1, <1>1, <1>8 DEF Positions
    <3> QED BY <3>1 DEF Elements
  <2>2. ASSUME NEW i \in 1 .. n PROVE s[i] \in {c[j] : j \in Positions} \ {Nil}
    <3>1. i - 1 \in Positions /\ i - 1 < n /\ i - 1 + 1 = i
      BY <1>1 DEF Positions
    <3>2. c[i - 1] = s[i] /\ s[i] # Nil
      BY <3>1, <1>8, ListFields, Names
    <3> QED BY <3>1, <3>2
  <2> QED BY <2>1, <2>2 DEF Elements
<1> QED BY <1>2, <1>8, <1>9

-----------------------------------------------------------------------------
(* Arming. *)

\* What changing the list leaves as it was.
Keeps(ctl, new) ==
    /\ new \in Controls /\ new.count = ctl.count
    /\ \A t \in All :
         /\ Time(new, t) = Time(ctl, t) /\ new.timers0[t].flags2 = ctl.timers0[t].flags2
         /\ new.timers0[t].fifo = ctl.timers0[t].fifo

SameTimer(old, new) ==
    new.timeout = old.timeout /\ new.flags = old.flags /\ new.flags2 = old.flags2 /\ new.fifo = old.fifo

SameButFlags(old, new) ==
    new.timeout = old.timeout /\ new.next = old.next /\ new.flags2 = old.flags2 /\ new.fifo = old.fifo

\* Another link of one timer.
LEMMA LinkFacts ==
  ASSUME NEW T \in [All -> TimerRecords], NEW t \in All, NEW x \in All \cup {Nil}
  PROVE  LET N == [T EXCEPT ![t].next = x]
         IN  /\ N \in [All -> TimerRecords]
             /\ \A u \in All : /\ N[u].next = IF u = t THEN x ELSE T[u].next
                               /\ SameTimer(T[u], N[u])
<1> DEFINE N == [T EXCEPT ![t].next = x]
           r == [T[t] EXCEPT !.next = x]
<1>1. N = [T EXCEPT ![t] = r]
  OBVIOUS
<1>2. T[t] \in TimerRecords
  OBVIOUS
<1>3. r \in TimerRecords /\ r.next = x /\ SameTimer(T[t], r)
  BY <1>2 DEF TimerRecords, SameTimer
<1> HIDE DEF r
<1>4. N \in [All -> TimerRecords] /\ N[t] = r /\ \A u \in All : u # t => N[u] = T[u]
  BY <1>1, <1>3
<1> HIDE DEF N
<1>5. \A u \in All : SameTimer(T[u], N[u])
  BY <1>3, <1>4 DEF SameTimer
<1> QED BY <1>3, <1>4, <1>5 DEF N

\* The same timers in the same order: the list is the same.
LEMMA ListedFrame ==
  ASSUME NEW ctl, NEW s, Listed(ctl, s), NEW new,
         new.t0 = ctl.t0, new.next = ctl.next,
         \A t \in Elements(s) : /\ Time(new, t) = Time(ctl, t)
                                /\ new.timers0[t].next = ctl.timers0[t].next
  PROVE  Listed(new, s)
<1>1. /\ \A i \in 1 .. Len(s) : s[i] \in Elements(s)
      /\ ctl.t0 \in Elements(s) /\ Sentinel \in Elements(s)
  BY ListFields
<1> QED BY <1>1 DEF Listed

\* Both ways to put t into the list lead to these links and times.
LEMMA Spliced ==
  ASSUME NEW ctl \in Controls, NEW s, Listed(ctl, s), NEW t \in All \ Elements(s),
         NEW m \in 1 .. Len(s), Time(ctl, t) <= Time(ctl, s[m]),
         \A i \in 1 .. m - 1 : Time(ctl, s[i]) <= Time(ctl, t),
         NEW new, Keeps(ctl, new),
         new.t0 = IF m = 1 THEN t ELSE ctl.t0,
         new.next = Time(new, new.t0),
         \A u \in All : new.timers0[u].next =
            IF u = t THEN s[m]
            ELSE IF m > 1 /\ u = s[m - 1] THEN t
            ELSE ctl.timers0[u].next
  PROVE  \E r : Listed(new, r) /\ Elements(r) = Elements(s) \cup {t}
<1> DEFINE n == Len(s)
           r == InsertAt(s, m, t)
<1>1. /\ n \in Nat \ {0} /\ s \in Seq(All) /\ s[1] = ctl.t0 /\ s[n] = Sentinel
      /\ \A i \in 1 .. n : s[i] \in All /\ s[i] # t
  BY ListFields DEF Listed, Elements
<1>2. /\ r \in Seq(All) /\ Len(r) = n + 1
      /\ \A i \in 1 .. n + 1 :
           r[i] = IF i < m THEN s[i] ELSE IF i = m THEN t ELSE s[i - 1]
  <2>1. m \in 1 .. Len(s) + 1
    BY <1>1
  <2> QED BY <2>1, <1>1, InsertAtFacts
<1> HIDE DEF r, n
<1>3. n + 1 \in 1 .. Len(r) /\ r # <<>>
  BY <1>1, <1>2, EmptySeq
<1>4. m \in 1 .. n
  BY DEF n
<1>5. r[1] = new.t0 /\ r[Len(r)] = Sentinel
  BY <1>1, <1>2, <1>4
<1>6. \A i, j \in 1 .. n : i < j => s[i] # s[j] /\ Time(ctl, s[i]) <= Time(ctl, s[j])
  BY DEF Listed, n
<1>7. \A i \in 1 .. n : Time(ctl, s[i]) \in Nat /\ Time(new, s[i]) = Time(ctl, s[i])
  BY <1>1, ControlFields, Times DEF Keeps
<1>8. Time(ctl, t) \in Nat /\ Time(new, t) = Time(ctl, t)
  BY ControlFields, Times DEF Keeps
<1>9. \A i \in m .. n : Time(ctl, t) <= Time(ctl, s[i])
  <2> SUFFICES ASSUME NEW i \in m .. n PROVE Time(ctl, t) <= Time(ctl, s[i])
    OBVIOUS
  <2>1. i \in 1 .. n
    BY <1>1, <1>4
  <2> QED BY <2>1, <1>4, <1>6, <1>7, <1>8
<1>10. \A i, j \in 1 .. n + 1 : i < j => r[i] # r[j] /\ Time(new, r[i]) <= Time(new, r[j])
  <2> SUFFICES ASSUME NEW i \in 1 .. n + 1, NEW j \in 1 .. n + 1, i < j
               PROVE  r[i] # r[j] /\ Time(new, r[i]) <= Time(new, r[j])
    OBVIOUS
  <2>1. CASE j < m
    <3>1. i \in 1 .. n /\ j \in 1 .. n /\ r[i] = s[i] /\ r[j] = s[j]
      BY <2>1, <1>1, <1>2, <1>4
    <3> QED BY <3>1, <1>6, <1>7
  <2>2. CASE j = m
    <3>1. i \in 1 .. n /\ i \in 1 .. m - 1 /\ r[i] = s[i] /\ r[j] = t
      BY <2>2, <1>1, <1>2, <1>4
    <3> QED BY <3>1, <1>1, <1>7, <1>8
  <2>3. CASE i = m
    <3>1. j - 1 \in m .. n /\ j - 1 \in 1 .. n /\ r[i] = t /\ r[j] = s[j - 1]
      BY <2>3, <1>1, <1>2, <1>4
    <3> QED BY <3>1, <1>1, <1>7, <1>8, <1>9
  <2>4. CASE i < m /\ j > m
    <3>1. /\ i \in 1 .. n /\ j - 1 \in 1 .. n /\ i < j - 1
          /\ r[i] = s[i] /\ r[j] = s[j - 1]
      BY <2>4, <1>1, <1>2, <1>4
    <3> QED BY <3>1, <1>6, <1>7
  <2>5. CASE i > m
    <3>1. /\ i - 1 \in 1 .. n /\ j - 1 \in 1 .. n /\ i - 1 < j - 1
          /\ r[i] = s[i - 1] /\ r[j] = s[j - 1]
      BY <2>5, <1>1, <1>2, <1>4
    <3> QED BY <3>1, <1>6, <1>7
  <2> QED BY <2>1, <2>2, <2>3, <2>4, <2>5, <1>1, <1>4
<1>11. \A i \in 1 .. n : ctl.timers0[s[i]].next = IF i = n THEN Nil ELSE s[i + 1]
  BY DEF Listed, n
<1>12. \A i \in 1 .. n + 1 : new.timers0[r[i]].next = IF i = n + 1 THEN Nil ELSE r[i + 1]
  <2> SUFFICES ASSUME NEW i \in 1 .. n + 1
               PROVE  new.timers0[r[i]].next = IF i = n + 1 THEN Nil ELSE r[i + 1]
    OBVIOUS
  <2>1. CASE i < m - 1
    <3>1. /\ i \in 1 .. n /\ i + 1 \in 1 .. n + 1 /\ r[i] = s[i] /\ r[i + 1] = s[i + 1]
          /\ m - 1 \in 1 .. n /\ i # n /\ i # n + 1
      BY <2>1, <1>1, <1>2, <1>4
    <3>2. s[i] # s[m - 1]
      BY <2>1, <3>1, <1>6
    <3> QED BY <3>1, <3>2, <1>1, <1>11
  <2>2. CASE i = m - 1
    <3>1. i \in 1 .. n /\ i + 1 \in 1 .. n + 1 /\ r[i] = s[m - 1] /\ r[i + 1] = t /\ m > 1
          /\ i # n + 1
      BY <2>2, <1>1, <1>2, <1>4
    <3> QED BY <2>2, <3>1, <1>1
  <2>3. CASE i = m
    <3>1. i + 1 \in 1 .. n + 1 /\ r[i] = t /\ r[i + 1] = s[m] /\ i # n + 1
      BY <2>3, <1>1, <1>2, <1>4
    <3> QED BY <3>1
  <2>4. CASE i > m
    <3>1. PICK j \in 1 .. n : j = i - 1
      BY <2>4, <1>1, <1>4
    <3>2. j \in Nat /\ i = j + 1 /\ m - 1 < j /\ (j = n <=> i = n + 1)
      BY <3>1, <2>4, <1>1, <1>4
    <3>3. r[i] = s[j]
      BY <3>1, <2>4, <1>2, <1>4
    <3>4. i # n + 1 => r[i + 1] = s[i]
      <4>1. i # n + 1 => i + 1 \in 1 .. n + 1 /\ ~(i + 1 < m) /\ i + 1 # m
        BY <2>4, <1>1, <1>4
      <4>2. i + 1 - 1 = i
        OBVIOUS
      <4> QED BY <4>1, <4>2, <1>2
    <3>5. m > 1 => s[j] # s[m - 1]
      <4>1. m > 1 => m - 1 \in 1 .. n
        BY <1>1, <1>4
      <4> QED BY <4>1, <3>2, <1>6
    <3>6. new.timers0[s[j]].next = ctl.timers0[s[j]].next
      <4>1. s[j] \in All /\ s[j] # t
        BY <1>1
      <4> QED BY <4>1, <3>5
    <3>7. new.timers0[s[j]].next = IF j = n THEN Nil ELSE s[i]
      BY <3>2, <3>6, <1>11
    <3> QED BY <3>2, <3>3, <3>4, <3>7
  <2> QED BY <2>1, <2>2, <2>3, <2>4, <1>1, <1>4
<1>13. Time(new, Sentinel) = Never
  BY Names DEF Keeps, Listed
<1>14. Listed(new, r)
  BY <1>2, <1>3, <1>5, <1>10, <1>12, <1>13 DEF Listed
<1>15. Elements(r) = Elements(s) \cup {t}
  <2>1. ASSUME NEW i \in 1 .. n + 1 PROVE r[i] \in Elements(s) \cup {t}
    <3>1. CASE i < m
      BY <3>1, <1>1, <1>2, <1>4 DEF Elements, n
    <3>2. CASE i = m
      BY <3>2, <1>2
    <3>3. CASE i > m
      <4>1. i - 1 \in 1 .. n /\ r[i] = s[i - 1]
        BY <3>3, <1>1, <1>2, <1>4
      <4> QED BY <4>1 DEF Elements, n
    <3> QED BY <3>1, <3>2, <3>3, <1>4
  <2>2. ASSUME NEW i \in 1 .. n PROVE s[i] \in Elements(r)
    <3>1. CASE i < m
      <4>1. i \in 1 .. n + 1 /\ r[i] = s[i]
        BY <3>1, <1>1, <1>2
      <4> QED BY <4>1, <1>2 DEF Elements
    <3>2. CASE i >= m
      <4>1. i + 1 \in 1 .. n + 1 /\ i + 1 - 1 = i /\ i + 1 > m
        BY <3>2, <1>1, <1>4
      <4>2. r[i + 1] = s[i]
        BY <4>1, <1>2, <1>4
      <4> QED BY <4>1, <4>2, <1>2 DEF Elements
    <3> QED BY <3>1, <3>2, <1>1, <1>4
  <2>3. t \in Elements(r)
    <3>1. m \in 1 .. n + 1 /\ r[m] = t
      BY <1>1, <1>2, <1>4
    <3> QED BY <3>1, <1>2 DEF Elements
  <2> QED BY <2>1, <2>2, <2>3, <1>2 DEF Elements, n
<1> QED BY <1>14, <1>15

\* timer_settime's second half puts t into the list and does nothing else.
LEMMA InsertFacts ==
  ASSUME NEW ctl \in Controls, NEW s, Listed(ctl, s), NEW t \in All \ Elements(s)
  PROVE  /\ Keeps(ctl, Insert(ctl, t))
         /\ \A u \in All : Insert(ctl, t).timers0[u].flags = ctl.timers0[u].flags
         /\ \E r : Listed(Insert(ctl, t), r) /\ Elements(r) = Elements(s) \cup {t}
<1> DEFINE n == Len(s)
           c == Chain(ctl)
           T == {i \in Positions : c[i] # Nil /\ Time(ctl, t) <= Time(ctl, c[i])}
           k == Min(T)
           new == Insert(ctl, t)
<1>1. n \in Nat \ {0} /\ Positions = 0 .. Cardinality(All) /\ Cardinality(All) \in Nat
      /\ n <= Cardinality(All)
  BY ListFields, ListShort DEF Positions
<1>2. /\ \A i \in 1 .. n : s[i] \in All /\ s[i] # Nil /\ s[i] # t
      /\ s[1] = ctl.t0 /\ s[n] = Sentinel
  BY ListFields, Names DEF Listed, Elements
<1> HIDE DEF n
<1>3. \A i \in Positions : c[i] = IF i < n THEN s[i + 1] ELSE Nil
  BY ChainFacts DEF n
<1>4. \A i \in 1 .. n : Time(ctl, s[i]) \in Nat
  BY <1>2, ControlFields, Times
<1>5. Time(ctl, t) \in 0 .. Never /\ Time(ctl, Sentinel) = Never
  BY ControlFields DEF Listed
<1> HIDE DEF c
<1>6. k \in 0 .. n - 1 /\ c[k] = s[k + 1] /\ Time(ctl, t) <= Time(ctl, s[k + 1])
      /\ \A i \in 0 .. k - 1 : ~(Time(ctl, t) <= Time(ctl, s[i + 1]))
  <2>1. n - 1 \in Positions /\ n - 1 < n /\ n - 1 + 1 = n /\ n \in 1 .. n
    BY <1>1
  <2>2. c[n - 1] = Sentinel /\ Sentinel # Nil
    BY <2>1, <1>2, <1>3
  <2>3. n - 1 \in T /\ T \in SUBSET Nat
    BY <2>1, <2>2, <1>1, <1>5, Times
  <2>4. k \in T /\ \A i \in T : k <= i
    <3> HIDE DEF T
    <3> QED BY <2>3, MinFacts
  <2> HIDE DEF k
  <2>5. k \in Positions /\ c[k] # Nil /\ Time(ctl, t) <= Time(ctl, c[k])
    BY <2>4
  <2>6. k \in 0 .. n - 1 /\ c[k] = s[k + 1]
    BY <2>5, <1>1, <1>3
  <2>7. ASSUME NEW i \in 0 .. k - 1 PROVE ~(Time(ctl, t) <= Time(ctl, s[i + 1]))
    <3>1. i \in Positions /\ i < n /\ i + 1 \in 1 .. n /\ ~(k <= i)
      BY <2>6, <1>1
    <3>2. i \notin T
      BY <3>1, <2>4
    <3>3. c[i] = s[i + 1] /\ c[i] # Nil
      BY <3>1, <1>2, <1>3
    <3> QED BY <3>1, <3>2, <3>3
  <2> QED BY <2>5, <2>6, <2>7
<1>7. new = IF k = 0 THEN [ctl EXCEPT !.timers0[t].next = ctl.t0, !.t0 = t, !.next = Time(ctl, t)]
            ELSE [ctl EXCEPT !.timers0[t].next = c[k], !.timers0[c[k - 1]].next = t]
  BY DEF Insert, c
<1> HIDE DEF k, T, new
<1>8. k > 0 => k - 1 \in 0 .. n - 1 /\ c[k - 1] = s[k] /\ s[k] \in All /\ s[k] # t
  <2> SUFFICES ASSUME k > 0
               PROVE  k - 1 \in 0 .. n - 1 /\ c[k - 1] = s[k] /\ s[k] \in All /\ s[k] # t
    OBVIOUS
  <2>1. k - 1 \in Positions /\ k - 1 < n /\ k - 1 + 1 = k /\ k \in 1 .. n
    BY <1>1, <1>6
  <2> QED BY <2>1, <1>1, <1>2, <1>3
<1>9. /\ new.t0 = IF k = 0 THEN t ELSE ctl.t0
      /\ new.next = IF k = 0 THEN Time(ctl, t) ELSE ctl.next
      /\ new.count = ctl.count /\ new \in Controls
      /\ \A u \in All :
           /\ new.timers0[u].next = IF u = t THEN s[k + 1] ELSE IF k > 0 /\ u = s[k] THEN t
                                    ELSE ctl.timers0[u].next
           /\ SameTimer(ctl.timers0[u], new.timers0[u])
  <2> DEFINE linked == [ctl.timers0 EXCEPT ![t].next = s[k + 1]]
  <2>1. s[k + 1] \in All /\ (k = 0 => s[k + 1] = ctl.t0)
    BY <1>1, <1>2, <1>6
  <2>2. /\ linked \in [All -> TimerRecords]
        /\ \A u \in All : /\ linked[u].next = IF u = t THEN s[k + 1] ELSE ctl.timers0[u].next
                          /\ SameTimer(ctl.timers0[u], linked[u])
    BY <2>1, ControlFields, LinkFacts
  <2> HIDE DEF linked
  <2>3. CASE k = 0
    <3>1. new = [ctl EXCEPT !.timers0 = linked, !.t0 = t, !.next = Time(ctl, t)]
      BY <2>1, <2>3, <1>7 DEF linked
    <3>2. new.timers0 = linked /\ new.t0 = t /\ new.next = Time(ctl, t) /\ new.count = ctl.count
      BY <3>1 DEF Controls
    <3>3. new \in Controls
      BY <3>1, <2>2, <1>5 DEF Controls
    <3>4. ~(k > 0)
      BY <2>3
    <3>5. \A u \in All : /\ new.timers0[u].next = IF u = t THEN s[k + 1] ELSE ctl.timers0[u].next
                         /\ SameTimer(ctl.timers0[u], new.timers0[u])
      BY <2>2, <3>2
    <3> QED BY <2>3, <3>2, <3>3, <3>4, <3>5
  <2>4. CASE k # 0
    <3> DEFINE both == [linked EXCEPT ![s[k]].next = t]
    <3>1. k > 0 /\ s[k] \in All /\ s[k] # t
      BY <2>4, <1>6, <1>8
    <3>2. /\ both \in [All -> TimerRecords]
          /\ \A u \in All : /\ both[u].next = IF u = s[k] THEN t ELSE linked[u].next
                            /\ SameTimer(linked[u], both[u])
      BY <2>2, <3>1, LinkFacts
    <3>3. new = [ctl EXCEPT !.timers0 = both]
      BY <2>4, <3>1, <1>6, <1>7, <1>8 DEF Controls, linked
    <3> HIDE DEF both
    <3>4. new.timers0 = both /\ new.t0 = ctl.t0 /\ new.next = ctl.next /\ new.count = ctl.count
      BY <3>3 DEF Controls
    <3>5. new \in Controls
      BY <3>2, <3>3 DEF Controls
    <3>6. ASSUME NEW u \in All
          PROVE  /\ new.timers0[u].next = IF u = t THEN s[k + 1] ELSE IF k > 0 /\ u = s[k] THEN t
                                         ELSE ctl.timers0[u].next
                 /\ SameTimer(ctl.timers0[u], new.timers0[u])
      <4>1. new.timers0[u].next = IF u = s[k] THEN t ELSE linked[u].next
        BY <3>2, <3>4
      <4>2. linked[u].next = IF u = t THEN s[k + 1] ELSE ctl.timers0[u].next
        BY <2>2
      <4>3. SameTimer(ctl.timers0[u], linked[u]) /\ SameTimer(linked[u], new.timers0[u])
        BY <2>2, <3>2, <3>4
      <4> QED BY <3>1, <4>1, <4>2, <4>3 DEF SameTimer
    <3> QED BY <2>4, <3>4, <3>5, <3>6
  <2> QED BY <2>3, <2>4
<1>10. Keeps(ctl, new) /\ \A u \in All : new.timers0[u].flags = ctl.timers0[u].flags
  BY <1>9 DEF Keeps, Time, SameTimer
<1>11. \E r : Listed(new, r) /\ Elements(r) = Elements(s) \cup {t}
  <2> DEFINE m == k + 1
  <2>1. m \in 1 .. Len(s) /\ m - 1 = k /\ (m = 1 <=> k = 0) /\ (m > 1 <=> k > 0)
    BY <1>1, <1>6 DEF n
  <2>2. Time(ctl, t) <= Time(ctl, s[m])
    BY <1>6
  <2>3. \A i \in 1 .. m - 1 : Time(ctl, s[i]) <= Time(ctl, t)
    <3> SUFFICES ASSUME NEW i \in 1 .. k PROVE Time(ctl, s[i]) <= Time(ctl, t)
      BY <2>1
    <3>1. i - 1 \in 0 .. k - 1 /\ i - 1 + 1 = i /\ i \in 1 .. n
      BY <1>1, <1>6
    <3>2. ~(Time(ctl, t) <= Time(ctl, s[i]))
      BY <3>1, <1>6
    <3> QED BY <3>1, <3>2, <1>4, <1>5, Times
  <2>4. new.t0 = IF m = 1 THEN t ELSE ctl.t0
    BY <2>1, <1>9
  <2>5. new.next = Time(new, new.t0)
    <3>1. \A u \in All : Time(new, u) = Time(ctl, u)
      BY <1>10 DEF Keeps
    <3>2. ctl.t0 \in All /\ ctl.next = Time(ctl, ctl.t0)
      BY ControlFields DEF Listed
    <3> QED BY <3>1, <3>2, <1>9
  <2>6. \A u \in All : new.timers0[u].next =
            IF u = t THEN s[m] ELSE IF m > 1 /\ u = s[m - 1] THEN t ELSE ctl.timers0[u].next
    BY <2>1, <1>9
  <2> HIDE DEF m
  <2> QED BY <2>1, <2>2, <2>3, <2>4, <2>5, <2>6, <1>10, Spliced
<1> QED BY <1>10, <1>11 DEF new

-----------------------------------------------------------------------------
(* Cancelling. *)

\* Other flags of one timer.
LEMMA FlagFacts ==
  ASSUME NEW ctl \in Controls, NEW t \in All, NEW x \in {NotUsed, Alloc, Using}
  PROVE  LET new == [ctl EXCEPT !.timers0[t].flags = x]
         IN  /\ Keeps(ctl, new) /\ new.t0 = ctl.t0 /\ new.next = ctl.next
             /\ \A u \in All :
                  /\ new.timers0[u].next = ctl.timers0[u].next
                  /\ new.timers0[u].flags = IF u = t THEN x ELSE ctl.timers0[u].flags
<1> DEFINE new == [ctl EXCEPT !.timers0[t].flags = x]
           r == [ctl.timers0[t] EXCEPT !.flags = x]
           T == [ctl.timers0 EXCEPT ![t] = r]
<1>1. new = [ctl EXCEPT !.timers0 = T]
  BY DEF Controls
<1>2. ctl.timers0[t] \in TimerRecords /\ ctl.timers0 \in [All -> TimerRecords]
  BY DEF Controls
<1>3. /\ r \in TimerRecords /\ r.flags = x /\ r.next = ctl.timers0[t].next
      /\ r.timeout = ctl.timers0[t].timeout /\ r.flags2 = ctl.timers0[t].flags2
      /\ r.fifo = ctl.timers0[t].fifo
  BY <1>2 DEF TimerRecords
<1> HIDE DEF r
<1>4. /\ T \in [All -> TimerRecords] /\ T[t] = r
      /\ \A u \in All : u # t => T[u] = ctl.timers0[u]
  BY <1>2, <1>3
<1> HIDE DEF T
<1>5. /\ new \in Controls /\ new.timers0 = T /\ new.t0 = ctl.t0 /\ new.next = ctl.next
      /\ new.count = ctl.count
  BY <1>1, <1>4 DEF Controls
<1> HIDE DEF new
<1>6. \A u \in All : /\ new.timers0[u].next = ctl.timers0[u].next
                     /\ new.timers0[u].timeout = ctl.timers0[u].timeout
                     /\ new.timers0[u].flags2 = ctl.timers0[u].flags2
                     /\ new.timers0[u].fifo = ctl.timers0[u].fifo
                     /\ new.timers0[u].flags = IF u = t THEN x ELSE ctl.timers0[u].flags
  BY <1>3, <1>4, <1>5
<1>7. Keeps(ctl, new)
  BY <1>5, <1>6 DEF Keeps, Time
<1> QED BY <1>5, <1>6, <1>7 DEF new

\* Both ways to take s[p] out of the list lead to these links.
LEMMA Unlinked ==
  ASSUME NEW ctl \in Controls, NEW s, Listed(ctl, s), NEW p \in 1 .. Len(s) - 1,
         NEW new, Keeps(ctl, new),
         new.t0 = IF p = 1 THEN s[2] ELSE ctl.t0,
         new.next = Time(new, new.t0),
         \A u \in All \ {s[p]} : new.timers0[u].next =
            IF p > 1 /\ u = s[p - 1] THEN s[p + 1] ELSE ctl.timers0[u].next
  PROVE  \E r : Listed(new, r) /\ Elements(r) = Elements(s) \ {s[p]}
<1> DEFINE n == Len(s)
           r == RemoveAt(s, p)
<1>1. /\ n \in Nat \ {0} /\ s \in Seq(All) /\ s[1] = ctl.t0 /\ s[n] = Sentinel
      /\ \A i \in 1 .. n : s[i] \in All
  BY ListFields DEF Listed, Elements
<1>2. p \in 1 .. n - 1 /\ p \in 1 .. n /\ n - 1 \in Nat \ {0}
  BY <1>1
<1>3. /\ r \in Seq(All) /\ Len(r) = n - 1
      /\ \A i \in 1 .. n - 1 : r[i] = IF i < p THEN s[i] ELSE s[i + 1]
  BY <1>1, <1>2, RemoveAtFacts
<1> HIDE DEF r, n
<1>4. r # <<>> /\ 1 \in 1 .. n - 1 /\ n - 1 \in 1 .. n - 1
  BY <1>2, <1>3, EmptySeq
<1>5. r[1] = new.t0 /\ r[Len(r)] = Sentinel
  <2>1. r[1] = IF 1 < p THEN s[1] ELSE s[2]
    BY <1>3, <1>4
  <2>2. r[n - 1] = s[n]
    BY <1>1, <1>2, <1>3, <1>4
  <2> QED BY <2>1, <2>2, <1>1, <1>2, <1>3
<1>6. \A i, j \in 1 .. n : i < j => s[i] # s[j] /\ Time(ctl, s[i]) <= Time(ctl, s[j])
  BY DEF Listed, n
<1>7. \A i \in 1 .. n : Time(new, s[i]) = Time(ctl, s[i])
  BY <1>1 DEF Keeps
<1>8. \A i, j \in 1 .. n - 1 : i < j => r[i] # r[j] /\ Time(new, r[i]) <= Time(new, r[j])
  <2> SUFFICES ASSUME NEW i \in 1 .. n - 1, NEW j \in 1 .. n - 1, i < j
               PROVE  r[i] # r[j] /\ Time(new, r[i]) <= Time(new, r[j])
    OBVIOUS
  <2> DEFINE a == IF i < p THEN i ELSE i + 1
             b == IF j < p THEN j ELSE j + 1
  <2>1. a \in 1 .. n /\ b \in 1 .. n /\ a < b
    BY <1>1, <1>2
  <2>2. r[i] = s[a] /\ r[j] = s[b]
    BY <1>3
  <2> QED BY <2>1, <2>2, <1>6, <1>7
<1>9. \A i \in 1 .. n : ctl.timers0[s[i]].next = IF i = n THEN Nil ELSE s[i + 1]
  BY DEF Listed, n
<1>10. \A i \in 1 .. n - 1 : new.timers0[r[i]].next = IF i = n - 1 THEN Nil ELSE r[i + 1]
  <2> SUFFICES ASSUME NEW i \in 1 .. n - 1
               PROVE  new.timers0[r[i]].next = IF i = n - 1 THEN Nil ELSE r[i + 1]
    OBVIOUS
  <2>1. CASE i < p - 1
    <3>1. /\ i \in 1 .. n /\ i + 1 \in 1 .. n - 1 /\ i # n /\ i # n - 1
          /\ p - 1 \in 1 .. n /\ p > 1
      BY <2>1, <1>1, <1>2
    <3>2. r[i] = s[i] /\ r[i + 1] = s[i + 1]
      BY <2>1, <3>1, <1>2, <1>3
    <3>3. s[i] # s[p - 1] /\ s[i] # s[p] /\ s[i] \in All
      BY <2>1, <3>1, <1>1, <1>2, <1>6
    <3> QED BY <3>1, <3>2, <3>3, <1>9
  <2>2. CASE i = p - 1
    <3>1. i \in 1 .. n /\ i + 1 \in 1 .. n - 1 /\ i # n - 1 /\ p > 1 /\ i + 1 = p
      BY <2>2, <1>1, <1>2
    <3>2. r[i] = s[p - 1] /\ r[i + 1] = s[p + 1]
      BY <2>2, <3>1, <1>2, <1>3
    <3>3. s[p - 1] # s[p] /\ s[p - 1] \in All
      BY <2>2, <3>1, <1>1, <1>2, <1>6
    <3> QED BY <3>1, <3>2, <3>3
  <2>3. CASE i >= p
    <3>1. /\ i + 1 \in 1 .. n /\ (i = n - 1 <=> i + 1 = n)
          /\ (i # n - 1 => i + 1 \in 1 .. n - 1)
      BY <2>3, <1>1, <1>2
    <3>2. r[i] = s[i + 1] /\ (i # n - 1 => r[i + 1] = s[i + 1 + 1])
      BY <2>3, <3>1, <1>2, <1>3
    <3>3. s[i + 1] # s[p] /\ s[i + 1] \in All /\ (p > 1 => s[i + 1] # s[p - 1])
      <4>1. p > 1 => p - 1 \in 1 .. n /\ p - 1 < i + 1
        BY <2>3, <1>1, <1>2
      <4> QED BY <2>3, <3>1, <4>1, <1>1, <1>2, <1>6
    <3>4. new.timers0[s[i + 1]].next = ctl.timers0[s[i + 1]].next
      BY <3>3
    <3> QED BY <3>1, <3>2, <3>4, <1>9
  <2> QED BY <2>1, <2>2, <2>3, <1>1, <1>2
<1>11. Time(new, Sentinel) = Never
  BY Names DEF Keeps, Listed
<1>12. Listed(new, r)
  BY <1>3, <1>4, <1>5, <1>8, <1>10, <1>11 DEF Listed
<1>13. Elements(r) = Elements(s) \ {s[p]}
  <2>1. ASSUME NEW i \in 1 .. n - 1 PROVE r[i] \in Elements(s) \ {s[p]}
    <3> DEFINE a == IF i < p THEN i ELSE i + 1
    <3>1. a \in 1 .. n /\ (a < p \/ p < a) /\ r[i] = s[a]
      BY <1>1, <1>2, <1>3
    <3> HIDE DEF a
    <3>2. s[a] # s[p]
      BY <3>1, <1>2, <1>6
    <3> QED BY <3>1, <3>2 DEF Elements, n
  <2>2. ASSUME NEW i \in 1 .. n, s[i] # s[p] PROVE s[i] \in Elements(r)
    <3> DEFINE a == IF i < p THEN i ELSE i - 1
    <3>1. a \in 1 .. n - 1 /\ (a < p => a = i) /\ (~(a < p) => a + 1 = i)
      BY <2>2, <1>1, <1>2
    <3> HIDE DEF a
    <3>2. r[a] = s[i]
      BY <3>1, <1>3
    <3> QED BY <3>1, <3>2, <1>3 DEF Elements
  <2>3. Elements(r) = {r[i] : i \in 1 .. n - 1}
    BY <1>3 DEF Elements
  <2>4. Elements(s) = {s[i] : i \in 1 .. n}
    BY DEF Elements, n
  <2> QED BY <2>1, <2>2, <2>3, <2>4
<1> QED BY <1>12, <1>13

\* timer_cancel takes an armed timer out of the list and does nothing else.
LEMMA CancelFacts ==
  ASSUME NEW ctl \in Controls, NEW s, Listed(ctl, s), NEW t \in Elements(s) \ {Sentinel},
         ctl.timers0[t].flags = Using
  PROVE  /\ Keeps(ctl, Cancel(ctl, t))
         /\ \A u \in All :
              Cancel(ctl, t).timers0[u].flags = IF u = t THEN Alloc ELSE ctl.timers0[u].flags
         /\ \E r : Listed(Cancel(ctl, t), r) /\ Elements(r) = Elements(s) \ {t}
<1> DEFINE n == Len(s)
           new == Cancel(ctl, t)
           idle == [ctl EXCEPT !.timers0[t].flags = Alloc]
           rest == ctl.timers0[t].next
<1>1. /\ n \in Nat \ {0} /\ s[1] = ctl.t0 /\ s[n] = Sentinel /\ t \in All
      /\ \A i \in 1 .. n : s[i] \in All /\ s[i] # Nil
  BY ListFields, Names DEF Listed
<1>2. PICK p \in 1 .. n : s[p] = t
  BY DEF Elements
<1>3. \A i \in 1 .. n : ctl.timers0[s[i]].next = IF i = n THEN Nil ELSE s[i + 1]
  BY DEF Listed
<1>4. \A i, j \in 1 .. n : s[i] = s[j] => i = j
  <2>1. \A i, j \in 1 .. n : i < j => s[i] # s[j]
    BY DEF Listed
  <2> QED BY <2>1, <1>1
<1> HIDE DEF n
<1>5. p \in 1 .. n - 1 /\ p + 1 \in 1 .. n /\ rest = s[p + 1]
  BY <1>1, <1>2, <1>3
<1>6. /\ Keeps(ctl, idle) /\ idle.t0 = ctl.t0 /\ idle.next = ctl.next
      /\ \A u \in All : /\ idle.timers0[u].next = ctl.timers0[u].next
                        /\ idle.timers0[u].flags = IF u = t THEN Alloc ELSE ctl.timers0[u].flags
  BY <1>1, FlagFacts
<1>7. CASE p = 1
  <2>1. t = ctl.t0 /\ s[p + 1] = s[2]
    BY <1>1, <1>2, <1>7
  <2>2. new = [idle EXCEPT !.t0 = rest, !.next = Time(ctl, rest)]
    BY <2>1 DEF Cancel
  <2>3. rest \in All /\ Time(ctl, rest) \in 0 .. Never /\ idle \in Controls
    BY <1>1, <1>5, <1>6, ControlFields DEF Keeps
  <2> HIDE DEF idle, new, rest
  <2>4. /\ new.t0 = rest /\ new.next = Time(ctl, rest) /\ new.count = idle.count
        /\ new.timers0 = idle.timers0 /\ new \in Controls
    BY <2>2, <2>3 DEF Controls
  <2>5. Keeps(ctl, new)
    BY <2>4, <1>6 DEF Keeps, Time
  <2>6. \E r : Listed(new, r) /\ Elements(r) = Elements(s) \ {s[p]}
    <3>1. new.t0 = IF p = 1 THEN s[2] ELSE ctl.t0
      BY <2>1, <2>4, <1>5, <1>7
    <3>2. new.next = Time(new, new.t0)
      BY <2>3, <2>4, <2>5 DEF Keeps
    <3>3. \A u \in All \ {s[p]} : new.timers0[u].next =
             IF p > 1 /\ u = s[p - 1] THEN s[p + 1] ELSE ctl.timers0[u].next
      BY <2>4, <1>6, <1>7
    <3>4. p \in 1 .. Len(s) - 1
      BY <1>5 DEF n
    <3> QED BY <3>1, <3>2, <3>3, <3>4, <2>5, Unlinked
  <2> QED BY <2>4, <2>5, <2>6, <1>2, <1>6 DEF new
<1>8. CASE p # 1
  <2> DEFINE b == Before(ctl, t)
             T == {i \in Positions : Chain(ctl)[i] # Nil
                                     /\ ctl.timers0[Chain(ctl)[i]].next = t}
  <2>1. p - 1 \in 1 .. n - 1 /\ p - 1 \in 1 .. n /\ p - 1 + 1 = p /\ p > 1
    BY <1>1, <1>5, <1>8
  <2>2. b = s[p - 1]
    <3>1. T \in SUBSET Nat /\ Positions = 0 .. Cardinality(All) /\ n <= Cardinality(All)
          /\ Cardinality(All) \in Nat
      BY ListShort DEF Positions, n
    <3>2. \A i \in Positions : Chain(ctl)[i] = IF i < n THEN s[i + 1] ELSE Nil
      BY ChainFacts DEF n
    <3>3. p - 2 \in T
      <4>1. p - 2 \in Positions /\ p - 2 < n /\ p - 2 + 1 = p - 1
        BY <2>1, <3>1, <1>1
      <4>2. Chain(ctl)[p - 2] = s[p - 1]
        BY <4>1, <3>2
      <4>3. ctl.timers0[s[p - 1]].next = s[p]
        BY <2>1, <1>1, <1>3
      <4> QED BY <4>1, <4>2, <4>3, <2>1, <1>1, <1>2
    <3>4. \A i \in T : i = p - 2
      <4> SUFFICES ASSUME NEW i \in T PROVE i = p - 2
        OBVIOUS
      <4>1. i \in Positions /\ Chain(ctl)[i] # Nil /\ ctl.timers0[Chain(ctl)[i]].next = t
        OBVIOUS
      <4>2. i \in Nat /\ i < n /\ i + 1 \in 1 .. n /\ Chain(ctl)[i] = s[i + 1]
        BY <4>1, <3>1, <3>2, <1>1
      <4>3. i + 1 # n /\ s[i + 1 + 1] = t /\ i + 1 + 1 \in 1 .. n
        BY <4>1, <4>2, <1>1, <1>2, <1>3
      <4>4. i + 1 + 1 = p
        BY <4>3, <1>2, <1>4
      <4> QED BY <4>2, <4>4
    <3>5. Min(T) = p - 2
      <4>1. Min(T) \in T
        <5> HIDE DEF T
        <5> QED BY <3>1, <3>3, MinFacts
      <4> QED BY <4>1, <3>4
    <3>6. b = Chain(ctl)[Min(T)]
      BY DEF Before
    <3>7. p - 2 \in Positions /\ p - 2 < n /\ p - 2 + 1 = p - 1
      BY <2>1, <3>1, <1>1
    <3> HIDE DEF T, b
    <3> QED BY <3>2, <3>5, <3>6, <3>7
  <2>3. t # ctl.t0
    BY <2>1, <1>1, <1>2, <1>4, <1>8
  <2>4. new = [idle EXCEPT !.timers0[s[p - 1]].next = s[p + 1]]
    BY <2>2, <2>3, <1>5 DEF Cancel
  <2> HIDE DEF idle, new, rest, b, T
  <2> DEFINE N == [idle.timers0 EXCEPT ![s[p - 1]].next = s[p + 1]]
  <2>5. new = [idle EXCEPT !.timers0 = N] /\ idle \in Controls
    BY <2>4, <1>6 DEF Keeps, Controls
  <2>6. /\ N \in [All -> TimerRecords]
        /\ \A u \in All :
             /\ N[u].next = IF u = s[p - 1] THEN s[p + 1] ELSE idle.timers0[u].next
             /\ SameTimer(idle.timers0[u], N[u])
    <3>1. idle.timers0 \in [All -> TimerRecords]
      BY <2>5, ControlFields
    <3>2. s[p - 1] \in All /\ s[p + 1] \in All \cup {Nil}
      BY <2>1, <1>1, <1>5
    <3> QED BY <3>1, <3>2, LinkFacts
  <2> HIDE DEF N
  <2>7. /\ new.t0 = ctl.t0 /\ new.next = ctl.next /\ new.count = ctl.count
        /\ new.timers0 = N /\ new \in Controls
    BY <2>5, <2>6, <1>6 DEF Controls, Keeps
  <2>8. Keeps(ctl, new)
    BY <2>6, <2>7, <1>6 DEF Keeps, Time, SameTimer
  <2>9. \A u \in All : new.timers0[u].flags = IF u = t THEN Alloc ELSE ctl.timers0[u].flags
    BY <2>6, <2>7, <1>6 DEF SameTimer
  <2>10. \E r : Listed(new, r) /\ Elements(r) = Elements(s) \ {s[p]}
    <3>1. new.t0 = IF p = 1 THEN s[2] ELSE ctl.t0
      BY <2>7, <1>8
    <3>2. new.next = Time(new, new.t0)
      <4>1. ctl.t0 \in All /\ ctl.next = Time(ctl, ctl.t0)
        BY ControlFields DEF Listed
      <4> QED BY <4>1, <2>7, <2>8 DEF Keeps
    <3>3. \A u \in All \ {s[p]} : new.timers0[u].next =
             IF p > 1 /\ u = s[p - 1] THEN s[p + 1] ELSE ctl.timers0[u].next
      BY <2>1, <2>6, <2>7, <1>6
    <3>4. p \in 1 .. Len(s) - 1
      BY <1>5 DEF n
    <3> QED BY <3>1, <3>2, <3>3, <3>4, <2>8, Unlinked
  <2> QED BY <2>8, <2>9, <2>10, <1>2 DEF new
<1> QED BY <1>7, <1>8

-----------------------------------------------------------------------------
(* The interrupt. *)

\* inthandler20 cuts off the timers whose time has come, and no other.
LEMMA ExpireFacts ==
  ASSUME NEW ctl \in Controls, NEW s, Listed(ctl, s)
  PROVE  /\ Expired(ctl) = {t \in Elements(s) : Time(ctl, t) <= ctl.count}
         /\ Sentinel \notin Expired(ctl)
         /\ Keeps(ctl, Expire(ctl))
         /\ \A u \in All : Expire(ctl).timers0[u].flags =
                             IF u \in Expired(ctl) THEN Alloc ELSE ctl.timers0[u].flags
         /\ \E r : Listed(Expire(ctl), r) /\ Elements(r) = Elements(s) \ Expired(ctl)
<1> DEFINE n == Len(s)
           c == Chain(ctl)
           D == Expired(ctl)
           T == {i \in Positions : c[i] \notin D}
           k == Min(T)
           new == Expire(ctl)
<1>1. /\ n \in Nat \ {0} /\ s \in Seq(All) /\ s[1] = ctl.t0 /\ s[n] = Sentinel
      /\ \A i \in 1 .. n : s[i] \in All /\ s[i] # Nil /\ Time(ctl, s[i]) \in Nat
  BY ListFields, Names, ControlFields, Times DEF Listed
<1>2. Positions = 0 .. Cardinality(All) /\ n <= Cardinality(All) /\ Cardinality(All) \in Nat
  BY ListShort DEF Positions
<1>3. \A i \in Positions : c[i] = IF i < n THEN s[i + 1] ELSE Nil
  BY ChainFacts
<1>4. \A i, j \in 1 .. n : i < j => s[i] # s[j] /\ Time(ctl, s[i]) <= Time(ctl, s[j])
  BY DEF Listed
<1>5. ctl.count \in Nat /\ ctl.count < Never /\ Time(ctl, Sentinel) = Never
  BY ControlFields, Times DEF Listed
<1> HIDE DEF n, c
<1>6. D = {t \in Elements(s) : Time(ctl, t) <= ctl.count}
  <2>1. ASSUME NEW i \in Positions, \A j \in 0 .. i : c[j] # Nil /\ Time(ctl, c[j]) <= ctl.count
        PROVE  c[i] \in Elements(s) /\ Time(ctl, c[i]) <= ctl.count
    <3>1. i \in 0 .. i
      BY <1>2
    <3>2. c[i] # Nil /\ Time(ctl, c[i]) <= ctl.count
      BY <2>1, <3>1
    <3>3. i + 1 \in 1 .. n /\ c[i] = s[i + 1]
      BY <3>2, <1>1, <1>2, <1>3
    <3> QED BY <3>2, <3>3 DEF Elements, n
  <2>2. ASSUME NEW i \in 1 .. n, Time(ctl, s[i]) <= ctl.count
        PROVE  s[i] \in D
    <3>1. i - 1 \in Positions /\ i - 1 < n /\ i - 1 + 1 = i
      BY <1>1, <1>2
    <3>2. c[i - 1] = s[i]
      BY <3>1, <1>3
    <3>3. ASSUME NEW j \in 0 .. i - 1 PROVE c[j] # Nil /\ Time(ctl, c[j]) <= ctl.count
      <4>1. j \in Positions /\ j < n /\ j + 1 \in 1 .. n /\ j + 1 <= i
        BY <1>1, <1>2
      <4>2. c[j] = s[j + 1]
        BY <4>1, <1>3
      <4>3. Time(ctl, s[j + 1]) <= Time(ctl, s[i])
        BY <4>1, <1>1, <1>4
      <4> QED BY <4>1, <4>2, <4>3, <2>2, <1>1, <1>5
    <3> QED BY <3>1, <3>2, <3>3 DEF Expired, c
  <2>3. D \subseteq {t \in Elements(s) : Time(ctl, t) <= ctl.count}
    BY <2>1 DEF Expired, c
  <2>4. {t \in Elements(s) : Time(ctl, t) <= ctl.count} \subseteq D
    BY <2>2 DEF Elements, n
  <2> QED BY <2>3, <2>4
<1> HIDE DEF D
<1>7. Sentinel \notin D /\ Nil \notin D
  <2>1. ~(Time(ctl, Sentinel) <= ctl.count)
    BY <1>5, Times
  <2>2. Elements(s) \subseteq All
    BY ListFields
  <2> QED BY <2>1, <2>2, <1>6, Names
<1>8. k \in 0 .. n - 1 /\ s[k + 1] \notin D /\ \A i \in 1 .. k : s[i] \in D
  <2>1. n - 1 \in Positions /\ n - 1 < n /\ n - 1 + 1 = n
    BY <1>1, <1>2
  <2>2. n - 1 \in T /\ T \in SUBSET Nat
    BY <2>1, <1>1, <1>2, <1>3, <1>7
  <2>3. k \in T /\ \A i \in T : k <= i
    <3> HIDE DEF T
    <3> QED BY <2>2, MinFacts
  <2> HIDE DEF k
  <2>4. k \in 0 .. n - 1 /\ k \in Positions /\ c[k] \notin D
    BY <2>1, <2>2, <2>3, <1>2
  <2>5. c[k] = s[k + 1]
    BY <2>4, <1>1, <1>3
  <2>6. ASSUME NEW i \in 1 .. k PROVE s[i] \in D
    <3>1. i - 1 \in Positions /\ i - 1 < n /\ i - 1 + 1 = i /\ ~(k <= i - 1)
      BY <2>4, <1>1, <1>2
    <3>2. i - 1 \notin T
      BY <3>1, <2>3
    <3>3. c[i - 1] = s[i]
      BY <3>1, <1>3
    <3> QED BY <3>1, <3>2, <3>3
  <2> QED BY <2>4, <2>5, <2>6
<1>9. \A i \in k + 1 .. n : s[i] \notin D
  <2> SUFFICES ASSUME NEW i \in k + 1 .. n PROVE s[i] \notin D
    OBVIOUS
  <2> HIDE DEF k
  <2>1. i \in 1 .. n /\ k + 1 \in 1 .. n /\ k + 1 <= i
    BY <1>1, <1>8
  <2>2. s[k + 1] \in Elements(s)
    BY <2>1 DEF Elements, n
  <2>3. ~(Time(ctl, s[k + 1]) <= ctl.count)
    BY <2>2, <1>6, <1>8
  <2>4. Time(ctl, s[k + 1]) <= Time(ctl, s[i])
    BY <2>1, <1>1, <1>4
  <2> QED BY <2>1, <2>3, <2>4, <1>1, <1>5, <1>6
<1>10. k + 1 \in 1 .. n /\ c[k] = s[k + 1]
  <2> HIDE DEF k
  <2>1. k \in 0 .. n - 1
    BY <1>8
  <2>2. k \in Positions /\ k < n /\ k + 1 \in 1 .. n
    BY <2>1, <1>1, <1>2
  <2> QED BY <2>2, <1>3
<1> DEFINE first == s[k + 1]
           N == [t \in All |-> IF t \in D THEN [ctl.timers0[t] EXCEPT !.flags = Alloc]
                               ELSE ctl.timers0[t]]
<1>11. new = [ctl EXCEPT !.timers0 = N, !.t0 = first, !.next = Time(ctl, first)]
  BY <1>10 DEF Expire, c, D
<1> HIDE DEF k, T, new
<1>12. /\ N \in [All -> TimerRecords]
       /\ \A u \in All : /\ SameButFlags(ctl.timers0[u], N[u])
                         /\ N[u].flags = IF u \in D THEN Alloc ELSE ctl.timers0[u].flags
  <2>1. ASSUME NEW u \in All
        PROVE  /\ N[u] \in TimerRecords /\ SameButFlags(ctl.timers0[u], N[u])
               /\ N[u].flags = IF u \in D THEN Alloc ELSE ctl.timers0[u].flags
    <3> DEFINE old == ctl.timers0[u]
               expired == [old EXCEPT !.flags = Alloc]
    <3>1. old \in TimerRecords
      BY ControlFields
    <3> HIDE DEF old
    <3>2. expired \in TimerRecords /\ SameButFlags(old, expired) /\ expired.flags = Alloc
      BY <3>1 DEF TimerRecords, SameButFlags
    <3>3. N[u] = IF u \in D THEN expired ELSE old
      BY DEF old
    <3> HIDE DEF expired, N
    <3>4. CASE u \in D
      BY <3>2, <3>3, <3>4 DEF old
    <3>5. CASE u \notin D
      BY <3>1, <3>3, <3>5 DEF old, SameButFlags
    <3> QED BY <3>4, <3>5
  <2>2. N \in [All -> TimerRecords]
    BY <2>1
  <2> QED BY <2>1, <2>2
<1>13. first \in All /\ Time(ctl, first) \in 0 .. Never
  BY <1>1, <1>10, ControlFields
<1> HIDE DEF N, first
<1>14. /\ new.timers0 = N /\ new.t0 = first /\ new.next = Time(ctl, first)
       /\ new.count = ctl.count /\ new \in Controls
  BY <1>11, <1>12, <1>13 DEF Controls
<1>15. Keeps(ctl, new)
  BY <1>12, <1>14 DEF Keeps, Time, SameButFlags
<1>16. \A u \in All : new.timers0[u].flags = IF u \in D THEN Alloc ELSE ctl.timers0[u].flags
  BY <1>12, <1>14
<1>17. \A u \in All : new.timers0[u].next = ctl.timers0[u].next
  BY <1>12, <1>14 DEF SameButFlags
<1> DEFINE r == SubSeq(s, k + 1, n)
           l == n - k
<1>18. k \in Nat /\ l \in 1 .. n /\ l \in Nat \ {0} /\ k + l = n
  BY <1>1, <1>8
<1>19. r \in Seq(All) /\ Len(r) = l /\ \A i \in 1 .. l : r[i] = s[k + i]
  <2>1. \A i \in k + 1 .. n : s[i] \in All
    BY <1>1, <1>18
  <2>2. /\ r \in Seq(All) /\ Len(r) = IF k + 1 <= n THEN n - (k + 1) + 1 ELSE 0
        /\ \A i \in 1 .. n - (k + 1) + 1 : r[i] = s[k + 1 + i - 1]
    BY <2>1, <1>1, <1>18, SubSeqProperties
  <2>3. n - (k + 1) + 1 = l /\ k + 1 <= n
    BY <1>1, <1>18
  <2>4. \A i \in 1 .. l : k + 1 + i - 1 = k + i
    BY <1>18
  <2> HIDE DEF r, l
  <2> QED BY <2>2, <2>3, <2>4
<1> HIDE DEF r, l
<1>20. \A i \in 1 .. l : k + i \in 1 .. n
  BY <1>1, <1>18
<1>21. r # <<>> /\ r[1] = first /\ r[Len(r)] = Sentinel
  BY <1>1, <1>18, <1>19, EmptySeq DEF first
<1>22. ASSUME NEW i \in 1 .. l, NEW j \in 1 .. l, i < j
       PROVE  r[i] # r[j] /\ Time(new, r[i]) <= Time(new, r[j])
  <2>1. k + i \in 1 .. n /\ k + j \in 1 .. n /\ k + i < k + j
    BY <1>18, <1>20, <1>22
  <2>2. r[i] = s[k + i] /\ r[j] = s[k + j]
    BY <1>19
  <2>3. Time(new, r[i]) = Time(ctl, s[k + i]) /\ Time(new, r[j]) = Time(ctl, s[k + j])
    BY <2>1, <2>2, <1>1, <1>15 DEF Keeps
  <2> QED BY <2>1, <2>2, <2>3, <1>4
<1>23. ASSUME NEW i \in 1 .. l
       PROVE  new.timers0[r[i]].next = IF i = l THEN Nil ELSE r[i + 1]
  <2>1. k + i \in 1 .. n /\ r[i] = s[k + i] /\ (k + i = n <=> i = l)
    BY <1>18, <1>19, <1>20
  <2>2. new.timers0[r[i]].next = IF k + i = n THEN Nil ELSE s[k + i + 1]
    BY <2>1, <1>1, <1>17 DEF Listed, n
  <2>3. i # l => r[i + 1] = s[k + i + 1]
    <3>1. i # l => i + 1 \in 1 .. l /\ k + (i + 1) = k + i + 1
      BY <1>18
    <3> QED BY <3>1, <1>19
  <2> QED BY <2>1, <2>2, <2>3
<1>24. Time(new, Sentinel) = Never /\ new.next = Time(new, new.t0)
  BY <1>5, <1>13, <1>14, <1>15, Names DEF Keeps
<1>25. Listed(new, r)
  BY <1>14, <1>19, <1>21, <1>22, <1>23, <1>24 DEF Listed
<1>26. Elements(r) = Elements(s) \ D
  <2>1. Elements(r) = {r[i] : i \in 1 .. l} /\ Elements(s) = {s[i] : i \in 1 .. n}
    BY <1>19 DEF Elements, n
  <2>2. ASSUME NEW i \in 1 .. l PROVE r[i] \in {s[j] : j \in 1 .. n} \ D
    <3>1. k + i \in 1 .. n /\ k + i \in k + 1 .. n /\ r[i] = s[k + i]
      BY <1>18, <1>19, <1>20
    <3> QED BY <3>1, <1>9
  <2>3. ASSUME NEW i \in 1 .. n, s[i] \notin D PROVE s[i] \in {r[j] : j \in 1 .. l}
    <3>1. ~(i <= k)
      BY <2>3, <1>8
    <3>2. i - k \in 1 .. l /\ k + (i - k) = i
      BY <3>1, <1>18
    <3>3. r[i - k] = s[i]
      BY <3>2, <1>19
    <3> QED BY <3>2, <3>3
  <2> QED BY <2>1, <2>2, <2>3
<1> QED BY <1>6, <1>7, <1>15, <1>16, <1>25, <1>26 DEF D, new

-----------------------------------------------------------------------------
(* timer_cancelall. *)

\* timer_cancel of a timer that may be armed or not.
LEMMA StopFacts ==
  ASSUME NEW ctl \in Controls, NEW s, Listed(ctl, s), NEW t \in All \ {Sentinel},
         ctl.timers0[t].flags = Using <=> t \in Elements(s)
  PROVE  /\ Keeps(ctl, Cancel(ctl, t))
         /\ \A u \in All : Cancel(ctl, t).timers0[u].flags =
              IF u = t /\ ctl.timers0[t].flags = Using THEN Alloc ELSE ctl.timers0[u].flags
         /\ \E r : Listed(Cancel(ctl, t), r) /\ Elements(r) = Elements(s) \ {t}
<1>1. CASE ctl.timers0[t].flags = Using
  BY <1>1, CancelFacts
<1>2. CASE ctl.timers0[t].flags # Using
  <2>1. Cancel(ctl, t) = ctl
    BY <1>2 DEF Cancel
  <2>2. Elements(s) = Elements(s) \ {t}
    BY <1>2
  <2> QED BY <1>2, <2>1, <2>2 DEF Keeps
<1> QED BY <1>1, <1>2

\* timer_cancel and timer_free.
LEMMA DropFacts ==
  ASSUME NEW ctl \in Controls, NEW s, Listed(ctl, s), NEW t \in All \ {Sentinel},
         ctl.timers0[t].flags = Using <=> t \in Elements(s)
  PROVE  LET new == Release(Cancel(ctl, t), t)
         IN  /\ Keeps(ctl, new)
             /\ \A u \in All :
                  new.timers0[u].flags = IF u = t THEN NotUsed ELSE ctl.timers0[u].flags
             /\ \E r : Listed(new, r) /\ Elements(r) = Elements(s) \ {t}
<1> DEFINE mid == Cancel(ctl, t)
           new == [mid EXCEPT !.timers0[t].flags = NotUsed]
<1>1. /\ Keeps(ctl, mid)
      /\ \A u \in All : mid.timers0[u].flags =
           IF u = t /\ ctl.timers0[t].flags = Using THEN Alloc ELSE ctl.timers0[u].flags
  BY StopFacts
<1>2. PICK r : Listed(mid, r) /\ Elements(r) = Elements(s) \ {t}
  BY StopFacts
<1> HIDE DEF mid
<1>3. mid \in Controls
  BY <1>1 DEF Keeps
<1>4. /\ Keeps(mid, new) /\ new.t0 = mid.t0 /\ new.next = mid.next
      /\ \A u \in All : /\ new.timers0[u].next = mid.timers0[u].next
                        /\ new.timers0[u].flags = IF u = t THEN NotUsed ELSE mid.timers0[u].flags
  BY <1>3, FlagFacts
<1> HIDE DEF new
<1>5. Keeps(ctl, new)
  BY <1>1, <1>4 DEF Keeps
<1>6. Listed(new, r)
  <2>1. \A u \in Elements(r) : u \in All
    BY <1>2, ListFields
  <2> QED BY <2>1, <1>2, <1>4, ListedFrame DEF Keeps
<1>7. \A u \in All : new.timers0[u].flags = IF u = t THEN NotUsed ELSE ctl.timers0[u].flags
  BY <1>1, <1>4
<1>8. new = Release(Cancel(ctl, t), t)
  BY DEF new, mid, Release
<1> QED BY <1>2, <1>5, <1>6, <1>7, <1>8

\* timer_cancelall drops the timers it finds, one after the other, in any order.
LEMMA CancelAllFacts ==
  ASSUME NEW ctl \in Controls, NEW s, Listed(ctl, s), NEW f,
         Sentinel \notin Cancelable(ctl, f),
         \A t \in Cancelable(ctl, f) : ctl.timers0[t].flags = Using <=> t \in Elements(s)
  PROVE  /\ Keeps(ctl, CancelAll(ctl, f))
         /\ \A u \in All : CancelAll(ctl, f).timers0[u].flags =
              IF u \in Cancelable(ctl, f) THEN NotUsed ELSE ctl.timers0[u].flags
         /\ \E r : /\ Listed(CancelAll(ctl, f), r)
                   /\ Elements(r) = Elements(s) \ Cancelable(ctl, f)
<1> DEFINE S == Cancelable(ctl, f)
           OneOf(u) == CHOOSE x \in u : TRUE
           Body(h, u) == IF u = {} THEN ctl
                         ELSE Release(Cancel(h[u \ {OneOf(u)}], OneOf(u)), OneOf(u))
           Step(h) == [u \in SUBSET S |-> Body(h, u)]
           it == CHOOSE h : h = Step(h)
           Done(c, u) == /\ Keeps(ctl, c)
                         /\ \A t \in All : c.timers0[t].flags =
                              IF t \in u THEN NotUsed ELSE ctl.timers0[t].flags
                         /\ \E r : Listed(c, r) /\ Elements(r) = Elements(s) \ u
<1>1. CancelAll(ctl, f) = it[S]
  BY DEF CancelAll, FoldSet, MapThenFoldSet
<1>2. S \subseteq All \ {Sentinel} /\ IsFiniteSet(S)
  <2>1. S \subseteq All
    BY DEF Cancelable
  <2> QED BY <2>1, Names, FS_Subset
<1>3. \A t \in S : ctl.timers0[t].flags = Using <=> t \in Elements(s)
  OBVIOUS
<1> HIDE DEF S
<1>4. ASSUME NEW u \in SUBSET S
      PROVE  /\ IsFiniteSet(u) /\ Cardinality(u) \in Nat /\ Cardinality(u) <= Cardinality(S)
             /\ (Cardinality(u) = 0 <=> u = {})
             /\ u # {} => OneOf(u) \in u /\ u \ {OneOf(u)} \in SUBSET S
                          /\ Cardinality(u \ {OneOf(u)}) = Cardinality(u) - 1
  <2>1. IsFiniteSet(u) /\ Cardinality(u) <= Cardinality(S)
    BY <1>2, FS_Subset
  <2>2. Cardinality(u) \in Nat
    BY <2>1, FS_CardinalityType
  <2>3. Cardinality(u) = 0 <=> u = {}
    BY <2>1, FS_EmptySet
  <2>4. u # {} => OneOf(u) \in u
    OBVIOUS
  <2> HIDE DEF OneOf
  <2>5. u # {} => Cardinality(u \ {OneOf(u)}) = Cardinality(u) - 1
    BY <2>1, <2>4, FS_RemoveElement
  <2> QED BY <2>1, <2>2, <2>3, <2>4, <2>5
<1>0. ASSUME NEW u \in SUBSET S, Cardinality(u) <= 0 PROVE u = {}
  <2>1. Cardinality(u) \in Nat /\ (Cardinality(u) = 0 <=> u = {})
    BY <1>4
  <2> QED BY <2>1, <1>0
<1>5. ASSUME NEW g, NEW h, NEW u \in SUBSET S,
             u # {} => h[u \ {OneOf(u)}] = g[u \ {OneOf(u)}]
      PROVE  Body(h, u) = Body(g, u)
  BY <1>5
<1>6. Body(it, {}) = ctl /\ \A h, u : u # {} => Body(h, u) =
                              Release(Cancel(h[u \ {OneOf(u)}], OneOf(u)), OneOf(u))
  OBVIOUS
<1> HIDE DEF OneOf, Body
<1>7. it = Step(it)
  <2> DEFINE T == {n \in Nat : \E g : \A u \in SUBSET S :
                     Cardinality(u) <= n => g[u] = Body(g, u)}
  <2>1. 0 \in T
    <3> DEFINE g == [u \in SUBSET S |-> ctl]
    <3>1. \A h : Body(h, {}) = ctl
      BY DEF Body
    <3>2. ASSUME NEW u \in SUBSET S, Cardinality(u) <= 0 PROVE g[u] = Body(g, u)
      <4>1. u = {}
        BY <3>2, <1>0
      <4>2. g[u] = ctl
        OBVIOUS
      <4> HIDE DEF g
      <4> QED BY <4>1, <4>2, <3>1
    <3> HIDE DEF g
    <3> QED BY <3>2
  <2>2. ASSUME NEW n \in T PROVE n + 1 \in T
    <3>1. PICK g : \A u \in SUBSET S : Cardinality(u) <= n => g[u] = Body(g, u)
      OBVIOUS
    <3> DEFINE h == Step(g)
    <3>2. \A u \in SUBSET S : h[u] = Body(g, u)
      OBVIOUS
    <3> HIDE DEF h
    <3>3. ASSUME NEW u \in SUBSET S, Cardinality(u) <= n + 1 PROVE h[u] = Body(h, u)
      <4>1. u # {} => h[u \ {OneOf(u)}] = g[u \ {OneOf(u)}]
        <5> SUFFICES ASSUME u # {} PROVE h[u \ {OneOf(u)}] = g[u \ {OneOf(u)}]
          OBVIOUS
        <5> DEFINE v == u \ {OneOf(u)}
        <5>1. v \in SUBSET S /\ Cardinality(v) <= n
          BY <3>3, <1>4
        <5> HIDE DEF v
        <5>2. h[v] = g[v]
          BY <5>1, <3>1, <3>2
        <5> QED BY <5>2 DEF v
      <4> QED BY <4>1, <3>2, <1>5
    <3>4. n + 1 \in Nat
      OBVIOUS
    <3> QED BY <3>3, <3>4
  <2>3. T = Nat
    <3> HIDE DEF T
    <3>1. T \in SUBSET Nat
      BY DEF T
    <3> QED BY <3>1, <2>1, <2>2, Induct
  <2>4. Cardinality(S) \in T
    <3> HIDE DEF T
    <3> QED BY <2>3, <1>2, FS_CardinalityType
  <2>5. PICK g : \A u \in SUBSET S : Cardinality(u) <= Cardinality(S) => g[u] = Body(g, u)
    BY <2>4
  <2> DEFINE h == [u \in SUBSET S |-> g[u]]
  <2>6. \A u \in SUBSET S : h[u] = g[u]
    OBVIOUS
  <2>7. \A u \in SUBSET S : g[u] = Body(g, u)
    BY <2>5, <1>4
  <2>8. ASSUME NEW u \in SUBSET S PROVE h[u] = Body(h, u)
    <3> HIDE DEF h
    <3>1. u # {} => h[u \ {OneOf(u)}] = g[u \ {OneOf(u)}]
      BY <2>6, <1>4
    <3> QED BY <3>1, <2>6, <2>7, <1>5
  <2>9. h = Step(h)
    <3>1. h = [u \in SUBSET S |-> h[u]]
      BY <2>6
    <3> HIDE DEF h
    <3> QED BY <3>1, <2>8
  <2> HIDE DEF h, Step
  <2> QED BY <2>9
<1> HIDE DEF it
<1>8. \A u \in SUBSET S : it[u] = Body(it, u)
  <2>1. \A u \in SUBSET S : Step(it)[u] = Body(it, u)
    OBVIOUS
  <2> HIDE DEF Step
  <2> QED BY <2>1, <1>7
<1> HIDE DEF Step
<1> DEFINE T == {n \in Nat : \A u \in SUBSET S : Cardinality(u) <= n => Done(it[u], u)}
<1>9. 0 \in T
  <2>1. Done(ctl, {})
    <3>1. Keeps(ctl, ctl) /\ Elements(s) = Elements(s) \ {}
      BY DEF Keeps
    <3> QED BY <3>1
  <2> HIDE DEF Done
  <2>2. ASSUME NEW u \in SUBSET S, Cardinality(u) <= 0 PROVE Done(it[u], u)
    <3>1. u = {}
      BY <2>2, <1>0
    <3> QED BY <3>1, <2>1, <1>6, <1>8
  <2> QED BY <2>2
<1>10. ASSUME NEW n \in T PROVE n + 1 \in T
  <2>1. ASSUME NEW u \in SUBSET S, Cardinality(u) <= n + 1, u # {} PROVE Done(it[u], u)
    <3> DEFINE x == OneOf(u)
               v == u \ {OneOf(u)}
               c == it[v]
               d == Release(Cancel(c, x), x)
    <3>1. x \in u /\ x \in S /\ v \in SUBSET S /\ Cardinality(v) <= n /\ u = v \cup {x} /\ x \notin v
      BY <2>1, <1>4
    <3>2. it[u] = d
      BY <2>1, <1>6, <1>8
    <3>3. Done(c, v)
      <4> HIDE DEF Done, v
      <4> QED BY <3>1
    <3> HIDE DEF x, v, c
    <3>4. PICK r : Listed(c, r) /\ Elements(r) = Elements(s) \ v
      BY <3>3
    <3>5. /\ c \in Controls /\ Keeps(ctl, c)
          /\ \A t \in All : c.timers0[t].flags = IF t \in v THEN NotUsed ELSE ctl.timers0[t].flags
      BY <3>3 DEF Keeps
    <3>6. x \in All \ {Sentinel} /\ (c.timers0[x].flags = Using <=> x \in Elements(r))
      BY <3>1, <3>4, <3>5, <1>2, <1>3
    <3>7. /\ Keeps(c, d)
          /\ \A t \in All : d.timers0[t].flags = IF t = x THEN NotUsed ELSE c.timers0[t].flags
      BY <3>4, <3>5, <3>6, DropFacts
    <3>8. PICK q : Listed(d, q) /\ Elements(q) = Elements(r) \ {x}
      BY <3>4, <3>5, <3>6, DropFacts
    <3> HIDE DEF d
    <3>9. Keeps(ctl, d)
      BY <3>5, <3>7 DEF Keeps
    <3>10. \A t \in All : d.timers0[t].flags = IF t \in u THEN NotUsed ELSE ctl.timers0[t].flags
      BY <3>1, <3>5, <3>7
    <3>11. Elements(q) = Elements(s) \ u
      BY <3>1, <3>4, <3>8
    <3> QED BY <3>2, <3>8, <3>9, <3>10, <3>11
  <2> HIDE DEF Done
  <2>2. 0 \in T /\ n \in Nat /\ n + 1 \in Nat
    BY <1>9
  <2>3. ASSUME NEW u \in SUBSET S, Cardinality(u) <= n + 1 PROVE Done(it[u], u)
    <3>1. CASE u = {}
      <4>1. Cardinality({}) = 0 /\ Cardinality({}) <= 0
        BY FS_EmptySet
      <4>2. \A v \in SUBSET S : Cardinality(v) <= 0 => Done(it[v], v)
        BY <2>2
      <4> QED BY <3>1, <4>1, <4>2
    <3> QED BY <3>1, <2>1, <2>3
  <2> QED BY <2>2, <2>3
<1>11. T = Nat
  <2> HIDE DEF T
  <2>1. T \in SUBSET Nat
    BY DEF T
  <2> QED BY <2>1, <1>9, <1>10, Induct
<1>12. Done(it[S], S)
  <2> HIDE DEF Done
  <2>1. S \in SUBSET S /\ Cardinality(S) \in T
    <3> HIDE DEF T
    <3> QED BY <1>4, <1>11
  <2> QED BY <2>1, <1>4
<1> QED BY <1>1, <1>12 DEF S

-----------------------------------------------------------------------------
(* Allocating, and the first half of timer_settime. *)

\* A new record for one timer.
LEMMA RecordFacts ==
  ASSUME NEW ctl \in Controls, NEW t \in All, NEW r \in TimerRecords
  PROVE  LET new == [ctl EXCEPT !.timers0 = [ctl.timers0 EXCEPT ![t] = r]]
         IN  /\ new \in Controls
             /\ new.t0 = ctl.t0 /\ new.next = ctl.next /\ new.count = ctl.count
             /\ new.timers0[t] = r /\ \A u \in All : u # t => new.timers0[u] = ctl.timers0[u]
<1> DEFINE T == [ctl.timers0 EXCEPT ![t] = r]
           new == [ctl EXCEPT !.timers0 = T]
<1>1. /\ T \in [All -> TimerRecords] /\ T[t] = r
      /\ \A u \in All : u # t => T[u] = ctl.timers0[u]
  BY ControlFields
<1> HIDE DEF T
<1>2. /\ new \in Controls /\ new.timers0 = T /\ new.t0 = ctl.t0 /\ new.next = ctl.next
      /\ new.count = ctl.count
  BY <1>1 DEF Controls
<1> HIDE DEF new
<1>3. \A u \in All : u # t => new.timers0[u] = ctl.timers0[u]
  BY <1>1, <1>2
<1> QED BY <1>1, <1>2, <1>3 DEF new, T

\* A timer that is not on the list gets a time: the list does not change.
LEMMA ReadyFacts ==
  ASSUME NEW ctl \in Controls, NEW s, Listed(ctl, s), NEW t \in All \ Elements(s),
         NEW d \in Nat, MaxCount + d < Never
  PROVE  LET new == Ready(ctl, t, d)
         IN  /\ new \in Controls /\ Listed(new, s) /\ new.count = ctl.count
             /\ new.timers0[t].flags = Using /\ Time(new, t) = d + ctl.count
             /\ d + ctl.count < Never
             /\ new.timers0[t].flags2 = ctl.timers0[t].flags2
             /\ new.timers0[t].fifo = ctl.timers0[t].fifo
             /\ \A u \in All : u # t => new.timers0[u] = ctl.timers0[u]
<1> DEFINE new == Ready(ctl, t, d)
           old == ctl.timers0[t]
           r == [old EXCEPT !.timeout = d + ctl.count, !.flags = Using]
<1>1. d + ctl.count \in 0 .. Never /\ d + ctl.count < Never
  BY ControlFields, Times
<1>2. old \in TimerRecords
  BY ControlFields
<1>3. new = [ctl EXCEPT !.timers0 = [ctl.timers0 EXCEPT ![t] = r]]
  <2>1. ctl.timers0 \in [All -> TimerRecords]
    BY ControlFields
  <2> QED BY <2>1 DEF Ready, Controls
<1> HIDE DEF new, old
<1>4. /\ r \in TimerRecords /\ r.timeout = d + ctl.count /\ r.flags = Using
      /\ r.flags2 = old.flags2 /\ r.fifo = old.fifo
  BY <1>1, <1>2 DEF TimerRecords
<1> HIDE DEF r
<1>5. /\ new \in Controls /\ new.t0 = ctl.t0 /\ new.next = ctl.next /\ new.count = ctl.count
      /\ new.timers0[t] = r /\ \A u \in All : u # t => new.timers0[u] = ctl.timers0[u]
  <2>1. t \in All /\ r \in TimerRecords
    BY <1>4
  <2> QED BY <2>1, <1>3, <1>4, RecordFacts
<1>6. Listed(new, s)
  <2>1. \A u \in Elements(s) : u \in All /\ u # t
    BY ListFields
  <2> QED BY <2>1, <1>5, ListedFrame DEF Time
<1> QED BY <1>1, <1>4, <1>5, <1>6 DEF new, old, Time

\* A timer that is not on the list is handed out.
LEMMA AllocateFacts ==
  ASSUME NEW ctl \in Controls, NEW s, Listed(ctl, s), NEW t \in All \ Elements(s),
         NEW f \in Consoles, NEW flags2 \in {0, 1}
  PROVE  LET new == Allocate(ctl, t, f, flags2)
         IN  /\ new \in Controls /\ Listed(new, s) /\ new.count = ctl.count
             /\ new.timers0[t].flags = Alloc /\ new.timers0[t].flags2 = flags2
             /\ new.timers0[t].fifo = f
             /\ \A u \in All : u # t => new.timers0[u] = ctl.timers0[u]
<1> DEFINE new == Allocate(ctl, t, f, flags2)
           old == ctl.timers0[t]
           r == [old EXCEPT !.flags = Alloc, !.flags2 = flags2, !.fifo = f]
<1>1. old \in TimerRecords
  BY ControlFields
<1>2. new = [ctl EXCEPT !.timers0 = [ctl.timers0 EXCEPT ![t] = r]]
  <2>1. ctl.timers0 \in [All -> TimerRecords]
    BY ControlFields
  <2> QED BY <2>1 DEF Allocate, Controls
<1> HIDE DEF new, old
<1>3. r \in TimerRecords /\ r.flags = Alloc /\ r.flags2 = flags2 /\ r.fifo = f
  BY <1>1 DEF TimerRecords
<1> HIDE DEF r
<1>4. /\ new \in Controls /\ new.t0 = ctl.t0 /\ new.next = ctl.next /\ new.count = ctl.count
      /\ new.timers0[t] = r /\ \A u \in All : u # t => new.timers0[u] = ctl.timers0[u]
  <2>1. t \in All /\ r \in TimerRecords
    BY <1>3
  <2> QED BY <2>1, <1>2, <1>3, RecordFacts
<1>5. Listed(new, s)
  <2>1. \A u \in Elements(s) : u \in All /\ u # t
    BY ListFields
  <2> QED BY <2>1, <1>4, ListedFrame DEF Time
<1> QED BY <1>3, <1>4, <1>5 DEF new

\* timer_free of a timer that is not on the list.
LEMMA FreeFacts ==
  ASSUME NEW ctl \in Controls, NEW s, Listed(ctl, s), NEW t \in All \ Elements(s)
  PROVE  LET new == Release(ctl, t)
         IN  /\ Keeps(ctl, new) /\ Listed(new, s)
             /\ \A u \in All :
                  new.timers0[u].flags = IF u = t THEN NotUsed ELSE ctl.timers0[u].flags
<1> DEFINE new == [ctl EXCEPT !.timers0[t].flags = NotUsed]
<1>1. /\ Keeps(ctl, new) /\ new.t0 = ctl.t0 /\ new.next = ctl.next
      /\ \A u \in All : /\ new.timers0[u].next = ctl.timers0[u].next
                        /\ new.timers0[u].flags = IF u = t THEN NotUsed ELSE ctl.timers0[u].flags
  BY FlagFacts
<1> HIDE DEF new
<1>2. Listed(new, s)
  <2>1. \A u \in Elements(s) : u \in All
    BY ListFields
  <2> QED BY <2>1, <1>1, ListedFrame DEF Keeps
<1>3. new = Release(ctl, t)
  BY DEF new, Release
<1> QED BY <1>1, <1>2, <1>3

\* timer_settime of a timer that is not on the list.
LEMMA SettimeFacts ==
  ASSUME NEW ctl \in Controls, NEW s, Listed(ctl, s), NEW t \in All \ Elements(s),
         NEW d \in Nat, MaxCount + d < Never
  PROVE  LET new == Settime(ctl, t, d)
         IN  /\ new \in Controls /\ new.count = ctl.count
             /\ Time(new, t) = d + ctl.count /\ d + ctl.count < Never
             /\ new.timers0[t].flags = Using
             /\ \A u \in All : /\ new.timers0[u].flags2 = ctl.timers0[u].flags2
                               /\ new.timers0[u].fifo = ctl.timers0[u].fifo
             /\ \A u \in All \ {t} : /\ Time(new, u) = Time(ctl, u)
                                     /\ new.timers0[u].flags = ctl.timers0[u].flags
             /\ \E r : Listed(new, r) /\ Elements(r) = Elements(s) \cup {t}
<1> DEFINE mid == Ready(ctl, t, d)
           new == Insert(mid, t)
<1>1. /\ mid \in Controls /\ Listed(mid, s) /\ mid.count = ctl.count
      /\ mid.timers0[t].flags = Using /\ Time(mid, t) = d + ctl.count
      /\ d + ctl.count < Never
      /\ mid.timers0[t].flags2 = ctl.timers0[t].flags2
      /\ mid.timers0[t].fifo = ctl.timers0[t].fifo
      /\ \A u \in All : u # t => mid.timers0[u] = ctl.timers0[u]
  BY ReadyFacts
<1> HIDE DEF mid
<1>2. /\ Keeps(mid, new)
      /\ \A u \in All : new.timers0[u].flags = mid.timers0[u].flags
      /\ \E r : Listed(new, r) /\ Elements(r) = Elements(s) \cup {t}
  BY <1>1, InsertFacts
<1> HIDE DEF new
<1>3. new = Settime(ctl, t, d)
  BY DEF new, mid, Settime
<1>4. \A u \in All : /\ new.timers0[u].flags2 = ctl.timers0[u].flags2
                     /\ new.timers0[u].fifo = ctl.timers0[u].fifo
  BY <1>1, <1>2 DEF Keeps
<1>5. \A u \in All \ {t} : /\ Time(new, u) = Time(ctl, u)
                           /\ new.timers0[u].flags = ctl.timers0[u].flags
  BY <1>1, <1>2 DEF Keeps, Time
<1>6. new \in Controls /\ new.count = ctl.count /\ Time(new, t) = d + ctl.count
      /\ new.timers0[t].flags = Using
  BY <1>1, <1>2 DEF Keeps
<1> QED BY <1>1, <1>2, <1>3, <1>4, <1>5, <1>6

-----------------------------------------------------------------------------
(* The inductive invariant.                                                *)

\* s is the list, and it holds the armed timers but for those of open, which are
\* between the two halves of timer_settime.
Sound(ctl, s, open) ==
    /\ Listed(ctl, s)
    /\ \A t \in All : ctl.timers0[t].flags = Using <=> t \in Elements(s) \cup open
    /\ Elements(s) \cap open = {}
    /\ \A t \in (Elements(s) \cup open) \ {Sentinel} : Time(ctl, t) < Never

\* The cursor timer of a console is in use by it and is not taken back with the
\* timers of its application.
CursorUse == \A f \in Consoles : cursor[f] # Nil =>
    user[cursor[f]] = f /\ timerctl.timers0[cursor[f]].flags2 = 0

\* What else is in use is, and is found by timer_cancelall.
TimerUse == \A t \in Others : user[t] # Nil =>
    /\ timerctl.timers0[t].flags # NotUsed
    /\ cursor[user[t]] # t =>
         timerctl.timers0[t].flags2 = 1 /\ timerctl.timers0[t].fifo = user[t]

\* timer_cancelall finds no other.
CancelUse ==
    /\ \A t \in Others : timerctl.timers0[t].flags # NotUsed /\ timerctl.timers0[t].flags2 = 1 =>
         user[t] = timerctl.timers0[t].fifo /\ user[t] # Nil
    /\ timerctl.timers0[TaskTimer].flags2 = 0 /\ timerctl.timers0[Sentinel].flags2 = 0

\* Only consoles arm in two halves, and only what is not armed.
HalfUse ==
    /\ \A t \in pending \cup arming : user[t] # Nil /\ cursor[user[t]] = t
    /\ \A t \in pending : timerctl.timers0[t].flags = Alloc

IInv == /\ TypeOK /\ CursorUse /\ TimerUse /\ CancelUse /\ HalfUse
        /\ \E s : Sound(timerctl, s, arming) /\ TaskTimer \in Elements(s)

-----------------------------------------------------------------------------
(* The alarms the list stands for.                                         *)

Alarmed(ctl) ==
    [t \in ({Chain(ctl)[i] : i \in Positions} \ {Nil}) \ {Sentinel} |-> Time(ctl, t)]

LEMMA AlarmedFacts ==
  ASSUME NEW ctl, NEW s, Listed(ctl, s)
  PROVE  Alarmed(ctl) = [t \in Elements(s) \ {Sentinel} |-> Time(ctl, t)]
<1>1. {Chain(ctl)[i] : i \in Positions} \ {Nil} = Elements(s)
  BY ChainFacts
<1> QED BY <1>1 DEF Alarmed

\* The same timers with the same times: no alarm is another.
LEMMA AlarmedSame ==
  ASSUME NEW ctl, NEW s, Listed(ctl, s), NEW new, NEW r, Listed(new, r),
         Elements(r) = Elements(s),
         \A t \in Elements(s) : Time(new, t) = Time(ctl, t)
  PROVE  Alarmed(new) = Alarmed(ctl)
<1>1. Alarmed(ctl) = [t \in Elements(s) \ {Sentinel} |-> Time(ctl, t)]
  BY AlarmedFacts
<1>2. Alarmed(new) = [t \in Elements(s) \ {Sentinel} |-> Time(new, t)]
  BY AlarmedFacts
<1>3. \A t \in Elements(s) \ {Sentinel} : Time(new, t) = Time(ctl, t)
  OBVIOUS
<1> QED BY <1>1, <1>2, <1>3

\* One more timer: it is armed.
LEMMA AlarmedMore ==
  ASSUME NEW ctl, NEW s, Listed(ctl, s), NEW new, NEW r, Listed(new, r),
         NEW t, t # Sentinel, t \notin Elements(s), Elements(r) = Elements(s) \cup {t},
         \A u \in Elements(s) : Time(new, u) = Time(ctl, u)
  PROVE  /\ t \notin DOMAIN Alarmed(ctl)
         /\ Alarmed(new) = Promise!With(Alarmed(ctl), t, Time(new, t))
<1> DEFINE a == Alarmed(ctl)
<1>1. a = [u \in Elements(s) \ {Sentinel} |-> Time(ctl, u)]
  BY AlarmedFacts
<1>2. Alarmed(new) = [u \in (Elements(s) \cup {t}) \ {Sentinel} |-> Time(new, u)]
  BY AlarmedFacts
<1> HIDE DEF a
<1>3. DOMAIN a = Elements(s) \ {Sentinel} /\ \A u \in DOMAIN a : a[u] = Time(ctl, u)
  BY <1>1
<1>4. DOMAIN a \cup {t} = (Elements(s) \cup {t}) \ {Sentinel}
  BY <1>3
<1>5. \A u \in DOMAIN a \cup {t} : (IF u = t THEN Time(new, t) ELSE a[u]) = Time(new, u)
  BY <1>3
<1>6. Promise!With(a, t, Time(new, t)) =
        [u \in DOMAIN a \cup {t} |-> IF u = t THEN Time(new, t) ELSE a[u]]
  BY DEF Promise!With
<1> QED BY <1>2, <1>3, <1>4, <1>5, <1>6 DEF a

\* Fewer timers: the others are disarmed.
LEMMA AlarmedLess ==
  ASSUME NEW ctl, NEW s, Listed(ctl, s), NEW new, NEW r, Listed(new, r),
         NEW S, Elements(r) = Elements(s) \ S,
         \A u \in Elements(s) : Time(new, u) = Time(ctl, u)
  PROVE  Alarmed(new) = Promise!Without(Alarmed(ctl), S \cap DOMAIN Alarmed(ctl))
<1> DEFINE a == Alarmed(ctl)
           W == S \cap DOMAIN a
<1>1. a = [u \in Elements(s) \ {Sentinel} |-> Time(ctl, u)]
  BY AlarmedFacts
<1>2. Alarmed(new) = [u \in (Elements(s) \ S) \ {Sentinel} |-> Time(new, u)]
  BY AlarmedFacts
<1> HIDE DEF a
<1>3. DOMAIN a = Elements(s) \ {Sentinel} /\ \A u \in DOMAIN a : a[u] = Time(ctl, u)
  BY <1>1
<1>4. DOMAIN a \ W = (Elements(s) \ S) \ {Sentinel}
  BY <1>3
<1>5. \A u \in DOMAIN a \ W : a[u] = Time(new, u)
  BY <1>3
<1>6. Promise!Without(a, W) = [u \in DOMAIN a \ W |-> a[u]]
  BY DEF Promise!Without
<1> HIDE DEF W
<1> QED BY <1>2, <1>4, <1>5, <1>6 DEF a, W

-----------------------------------------------------------------------------
(* The initial states. *)

LEMMA InitIInv ==
  ASSUME Init
  PROVE  IInv /\ Promise!Init
<1> DEFINE sent == [Unused EXCEPT !.timeout = Never, !.flags = Using]
           T == [t \in All |-> IF t = Sentinel THEN sent ELSE Unused]
           ctl == [timers0 |-> T, t0 |-> Sentinel, next |-> Never, count |-> 0]
           s == <<Sentinel>>
<1>1. PICK d \in Slices : timerctl = Settime(ctl, TaskTimer, d)
  BY DEF Init
<1>2. /\ Unused \in TimerRecords /\ Unused.flags = NotUsed /\ Unused.flags2 = 0
      /\ Unused.timeout = 0 /\ Unused.next = Nil
  BY Times DEF Unused, TimerRecords
<1>3. /\ sent \in TimerRecords /\ sent.flags = Using /\ sent.flags2 = 0
      /\ sent.timeout = Never /\ sent.next = Nil
  <2>1. Never \in 0 .. Never
    BY Times
  <2>2. sent \in TimerRecords /\ sent.flags = Using /\ sent.timeout = Never
    BY <2>1, <1>2 DEF TimerRecords
  <2>3. sent.flags2 = 0 /\ sent.next = Nil
    BY <1>2 DEF Unused
  <2> QED BY <2>2, <2>3
<1> HIDE DEF sent
<1>4. /\ T \in [All -> TimerRecords] /\ T[Sentinel] = sent
      /\ \A t \in All : t # Sentinel => T[t] = Unused
  BY <1>2, <1>3, Names
<1> HIDE DEF T
<1>5. /\ ctl \in Controls /\ ctl.timers0 = T /\ ctl.t0 = Sentinel /\ ctl.next = Never
      /\ ctl.count = 0
  BY <1>4, Names, Times DEF Controls
<1> HIDE DEF ctl
<1>6. s \in Seq(All) /\ s # <<>> /\ Len(s) = 1 /\ s[1] = Sentinel
  BY Names
<1> HIDE DEF s
<1>7. Elements(s) = {Sentinel}
  BY <1>6 DEF Elements
<1>8. Listed(ctl, s)
  <2>1. \A i, j \in 1 .. 1 : ~(i < j) /\ i = 1
    OBVIOUS
  <2> QED BY <1>3, <1>4, <1>5, <1>6, <2>1 DEF Listed, Time
<1>9. TaskTimer \in All \ Elements(s) /\ d \in Nat /\ MaxCount + d < Never
  BY <1>7, Names, Times
<1>10. /\ timerctl \in Controls /\ timerctl.count = 0
       /\ Time(timerctl, TaskTimer) = d + 0 /\ d + 0 < Never
       /\ timerctl.timers0[TaskTimer].flags = Using
       /\ \A u \in All : timerctl.timers0[u].flags2 = 0
       /\ \A u \in All \ {TaskTimer} : /\ Time(timerctl, u) = Time(ctl, u)
                                       /\ timerctl.timers0[u].flags = ctl.timers0[u].flags
  <2>1. \A u \in All : ctl.timers0[u].flags2 = 0
    BY <1>2, <1>3, <1>4, <1>5
  <2> QED BY <1>1, <1>5, <1>8, <1>9, <2>1, SettimeFacts
<1>11. PICK r : Listed(timerctl, r) /\ Elements(r) = {Sentinel, TaskTimer}
  <2>1. \E r : Listed(timerctl, r) /\ Elements(r) = Elements(s) \cup {TaskTimer}
    BY <1>1, <1>5, <1>8, <1>9, SettimeFacts
  <2>2. Elements(s) \cup {TaskTimer} = {Sentinel, TaskTimer}
    BY <1>7
  <2> QED BY <2>1, <2>2
<1>12. /\ rang = {} /\ cursor = [f \in Consoles |-> Nil] /\ app = {}
       /\ user = [t \in Others |-> Nil] /\ pending = {} /\ arming = {}
  BY DEF Init
<1>13. Sound(timerctl, r, arming)
  <2>1. \A t \in All : timerctl.timers0[t].flags = Using <=> t \in {Sentinel, TaskTimer}
    <3>1. \A t \in All \ {TaskTimer} : t # Sentinel => timerctl.timers0[t].flags = NotUsed
      BY <1>2, <1>4, <1>5, <1>10
    <3>2. timerctl.timers0[Sentinel].flags = Using
      BY <1>3, <1>4, <1>5, <1>10, Names
    <3> QED BY <3>1, <3>2, <1>10 DEF NotUsed, Using
  <2> QED BY <1>10, <1>11, <1>12, <2>1 DEF Sound
<1>14. TypeOK
  BY <1>10, <1>12 DEF TypeOK
<1>15. CursorUse /\ TimerUse
  BY <1>12 DEF CursorUse, TimerUse
<1>16. CancelUse
  <2>1. \A t \in All : timerctl.timers0[t].flags2 = 0
    BY <1>10
  <2> QED BY <2>1, Names DEF CancelUse
<1>17. HalfUse
  BY <1>12 DEF HalfUse
<1>18. Promise!Init
  <2>1. Alarmed(timerctl) = [t \in {TaskTimer} |-> Time(timerctl, t)]
    <3>1. Alarmed(timerctl) = [t \in {Sentinel, TaskTimer} \ {Sentinel} |-> Time(timerctl, t)]
      BY <1>11, AlarmedFacts
    <3>2. {Sentinel, TaskTimer} \ {Sentinel} = {TaskTimer}
      BY Names
    <3> QED BY <3>1, <3>2
  <2>2. Time(timerctl, TaskTimer) \in 0 .. Never - 1
    BY <1>9, <1>10, Times
  <2> DEFINE a == Alarmed(timerctl)
  <2>3. DOMAIN a \subseteq All \ {Sentinel} /\ \A t \in DOMAIN a : a[t] \in 0 .. Never - 1
    BY <2>1, <2>2, Names
  <2> HIDE DEF a
  <2> QED BY <2>3, <1>10, <1>12 DEF Promise!Init, Promise!Armed, a, Alarmed, Linked
<1> QED BY <1>11, <1>13, <1>14, <1>15, <1>16, <1>17, <1>18 DEF IInv

-----------------------------------------------------------------------------
(* The steps of a console. *)

\* The list of a state, and what is not on it.
LEMMA StateFacts ==
  ASSUME IInv
  PROVE  /\ timerctl \in Controls /\ timerctl.count \in Nat
         /\ \A t \in Others : t \in All /\ t # TaskTimer /\ t # Sentinel
         /\ \A f \in Consoles : f # Nil /\ cursor[f] \in Others \cup {Nil}
         /\ \A t \in Others : user[t] \in Consoles \cup {Nil}
         /\ Nil \notin Others
<1>1. timerctl \in Controls /\ timerctl.count \in 0 .. MaxCount
  BY DEF IInv, TypeOK, Controls
<1>2. \A f \in Consoles : f # Nil
  BY TimerAssumption
<1> QED BY <1>1, <1>2, Names, Times DEF IInv, TypeOK

\* A timer that is free or idle is not on the list.
LEMMA IdleFacts ==
  ASSUME NEW ctl, NEW s, NEW open, Sound(ctl, s, open),
         NEW t \in All, ctl.timers0[t].flags \in {NotUsed, Alloc}
  PROVE  t \in All \ Elements(s) /\ t \notin open
  BY DEF Sound, NotUsed, Alloc, Using

\* Nothing happens to the list: no alarm is another.
LEMMA Stuttering ==
  ASSUME Alarmed(timerctl') = Alarmed(timerctl), timerctl'.count = timerctl.count, rang' = rang
  PROVE  UNCHANGED Promise!vars
  BY DEF Promise!vars, Alarmed, Linked

\* A console that opens takes a free timer.
LEMMA OpenCursorStep ==
  ASSUME IInv, NEW f \in Consoles, OpenCursor(f)
  PROVE  IInv' /\ UNCHANGED Promise!vars
<1>1. PICK t \in Others :
        /\ timerctl.timers0[t].flags = NotUsed
        /\ timerctl' = Ready(Allocate(timerctl, t, f, 0), t, CursorDelay)
        /\ cursor' = [cursor EXCEPT ![f] = t]
        /\ user' = [user EXCEPT ![t] = f]
        /\ arming' = arming \cup {t}
  BY DEF OpenCursor
<1>2. cursor[f] = Nil /\ UNCHANGED <<rang, app, pending>>
  BY DEF OpenCursor
<1>3. PICK s : Sound(timerctl, s, arming) /\ TaskTimer \in Elements(s)
  BY DEF IInv
<1>4. t \in All \ Elements(s) /\ t \notin arming /\ Listed(timerctl, s)
  BY <1>1, <1>3, StateFacts, IdleFacts DEF Sound
<1> DEFINE mid == Allocate(timerctl, t, f, 0)
<1>5. /\ mid \in Controls /\ Listed(mid, s) /\ mid.count = timerctl.count
      /\ mid.timers0[t].flags2 = 0 /\ mid.timers0[t].fifo = f
      /\ \A u \in All : u # t => mid.timers0[u] = timerctl.timers0[u]
  BY <1>4, StateFacts, AllocateFacts
<1> HIDE DEF mid
<1>6. CursorDelay \in Nat /\ MaxCount + CursorDelay < Never
  BY Times
<1>7. /\ timerctl' \in Controls /\ Listed(timerctl', s) /\ timerctl'.count = timerctl.count
      /\ timerctl'.timers0[t].flags = Using /\ Time(timerctl', t) < Never
      /\ timerctl'.timers0[t].flags2 = 0 /\ timerctl'.timers0[t].fifo = f
      /\ \A u \in All : u # t => timerctl'.timers0[u] = timerctl.timers0[u]
  <2> DEFINE new == Ready(mid, t, CursorDelay)
  <2>1. /\ new \in Controls /\ Listed(new, s) /\ new.count = mid.count
        /\ new.timers0[t].flags = Using /\ Time(new, t) < Never
        /\ new.timers0[t].flags2 = mid.timers0[t].flags2
        /\ new.timers0[t].fifo = mid.timers0[t].fifo
        /\ \A u \in All : u # t => new.timers0[u] = mid.timers0[u]
    BY <1>4, <1>5, <1>6, ReadyFacts
  <2>2. timerctl' = new
    BY <1>1 DEF mid
  <2> HIDE DEF new
  <2> QED BY <2>1, <2>2, <1>5
<1>8. Elements(s) \subseteq All
  BY <1>4, ListFields
<1>9. Sound(timerctl', s, arming')
  <2>1. \A u \in All : timerctl'.timers0[u].flags = Using <=> u \in Elements(s) \cup arming'
    BY <1>1, <1>3, <1>4, <1>7 DEF Sound
  <2>2. \A u \in (Elements(s) \cup arming') \ {Sentinel} : Time(timerctl', u) < Never
    <3>1. arming \subseteq All
      BY StateFacts DEF IInv, TypeOK
    <3> QED BY <3>1, <1>1, <1>3, <1>7, <1>8 DEF Sound, Time
  <2> QED BY <2>1, <2>2, <1>1, <1>3, <1>4, <1>7 DEF Sound
<1>10. user[t] = Nil /\ t \notin pending
  <2>1. user[t] = Nil
    BY <1>1 DEF IInv, TimerUse
  <2> QED BY <2>1 DEF IInv, HalfUse
<1>11. /\ cursor' \in [Consoles -> Others \cup {Nil}] /\ cursor'[f] = t
       /\ \A g \in Consoles : g # f => cursor'[g] = cursor[g]
       /\ user' \in [Others -> Consoles \cup {Nil}] /\ user'[t] = f
       /\ \A u \in Others : u # t => user'[u] = user[u]
  BY <1>1 DEF IInv, TypeOK
<1>12. TypeOK'
  BY <1>1, <1>2, <1>7, <1>11 DEF IInv, TypeOK
<1>13. CursorUse'
  BY <1>7, <1>10, <1>11, StateFacts DEF IInv, CursorUse
<1>14. TimerUse'
  <2> SUFFICES ASSUME NEW u \in Others, user'[u] # Nil
               PROVE  /\ timerctl'.timers0[u].flags # NotUsed
                      /\ cursor'[user'[u]] # u => /\ timerctl'.timers0[u].flags2 = 1
                                                  /\ timerctl'.timers0[u].fifo = user'[u]
    BY DEF TimerUse
  <2>1. CASE u = t
    BY <2>1, <1>7, <1>11 DEF Using, NotUsed
  <2>2. CASE u # t
    BY <2>2, <1>2, <1>7, <1>11, StateFacts DEF IInv, TimerUse
  <2> QED BY <2>1, <2>2
<1>15. CancelUse'
  BY <1>7, <1>11, StateFacts, Names DEF IInv, CancelUse
<1>16. HalfUse'
  BY <1>1, <1>2, <1>7, <1>10, <1>11, StateFacts DEF IInv, HalfUse, TypeOK
<1>17. Alarmed(timerctl') = Alarmed(timerctl)
  <2>1. \A u \in Elements(s) : Time(timerctl', u) = Time(timerctl, u)
    BY <1>4, <1>7, <1>8 DEF Time
  <2> QED BY <2>1, <1>4, <1>7, AlarmedSame
<1>18. UNCHANGED Promise!vars
  BY <1>2, <1>7, <1>17, Stuttering
<1> QED BY <1>3, <1>9, <1>12, <1>13, <1>14, <1>15, <1>16, <1>18 DEF IInv

\* A console begins to arm its idle cursor timer.
LEMMA CursorReadyStep ==
  ASSUME IInv, NEW t \in Others, CursorReady(t)
  PROVE  IInv' /\ UNCHANGED Promise!vars
<1>1. /\ t \in pending
      /\ timerctl' = Ready(timerctl, t, CursorDelay)
      /\ pending' = pending \ {t}
      /\ arming' = arming \cup {t}
      /\ UNCHANGED <<rang, cursor, app, user>>
  BY DEF CursorReady
<1>2. PICK s : Sound(timerctl, s, arming) /\ TaskTimer \in Elements(s)
  BY DEF IInv
<1>3. timerctl.timers0[t].flags = Alloc /\ user[t] # Nil /\ cursor[user[t]] = t
  BY <1>1 DEF IInv, HalfUse
<1>4. t \in All \ Elements(s) /\ t \notin arming /\ Listed(timerctl, s)
  BY <1>2, <1>3, StateFacts, IdleFacts DEF Sound
<1>5. CursorDelay \in Nat /\ MaxCount + CursorDelay < Never
  BY Times
<1>6. /\ timerctl' \in Controls /\ Listed(timerctl', s) /\ timerctl'.count = timerctl.count
      /\ timerctl'.timers0[t].flags = Using /\ Time(timerctl', t) < Never
      /\ timerctl'.timers0[t].flags2 = timerctl.timers0[t].flags2
      /\ timerctl'.timers0[t].fifo = timerctl.timers0[t].fifo
      /\ \A u \in All : u # t => timerctl'.timers0[u] = timerctl.timers0[u]
  <2> DEFINE new == Ready(timerctl, t, CursorDelay)
  <2>1. /\ new \in Controls /\ Listed(new, s) /\ new.count = timerctl.count
        /\ new.timers0[t].flags = Using /\ Time(new, t) < Never
        /\ new.timers0[t].flags2 = timerctl.timers0[t].flags2
        /\ new.timers0[t].fifo = timerctl.timers0[t].fifo
        /\ \A u \in All : u # t => new.timers0[u] = timerctl.timers0[u]
    BY <1>4, <1>5, StateFacts, ReadyFacts
  <2>2. timerctl' = new
    BY <1>1
  <2> HIDE DEF new
  <2> QED BY <2>1, <2>2
<1>7. Elements(s) \subseteq All
  BY <1>4, ListFields
<1>8. Sound(timerctl', s, arming')
  <2>1. \A u \in All : timerctl'.timers0[u].flags = Using <=> u \in Elements(s) \cup arming'
    BY <1>1, <1>2, <1>4, <1>6 DEF Sound
  <2>2. \A u \in (Elements(s) \cup arming') \ {Sentinel} : Time(timerctl', u) < Never
    <3>1. arming \subseteq All
      BY StateFacts DEF IInv, TypeOK
    <3> QED BY <3>1, <1>1, <1>2, <1>6, <1>7 DEF Sound, Time
  <2> QED BY <2>1, <2>2, <1>1, <1>2, <1>4, <1>6 DEF Sound
<1>9. TypeOK'
  BY <1>1, <1>6 DEF IInv, TypeOK
<1>10. \A u \in All : /\ timerctl'.timers0[u].flags2 = timerctl.timers0[u].flags2
                      /\ timerctl'.timers0[u].fifo = timerctl.timers0[u].fifo
                      /\ timerctl.timers0[u].flags # NotUsed
                         <=> timerctl'.timers0[u].flags # NotUsed
  BY <1>3, <1>6 DEF Alloc, Using, NotUsed
<1>11. CursorUse'
  BY <1>1, <1>10, StateFacts DEF IInv, CursorUse
<1>12. TimerUse'
  BY <1>1, <1>10, StateFacts DEF IInv, TimerUse
<1>13. CancelUse'
  BY <1>1, <1>10, StateFacts, Names DEF IInv, CancelUse
<1>14. HalfUse'
  BY <1>1, <1>3, <1>6, StateFacts DEF IInv, HalfUse, TypeOK
<1>15. Alarmed(timerctl') = Alarmed(timerctl)
  <2>1. \A u \in Elements(s) : Time(timerctl', u) = Time(timerctl, u)
    BY <1>4, <1>6, <1>7 DEF Time
  <2> QED BY <2>1, <1>4, <1>6, AlarmedSame
<1>16. UNCHANGED Promise!vars
  BY <1>1, <1>6, <1>15, Stuttering
<1> QED BY <1>2, <1>8, <1>9, <1>11, <1>12, <1>13, <1>14, <1>16 DEF IInv

\* It puts the timer into the list: that arms it.
LEMMA CursorInsertStep ==
  ASSUME IInv, NEW t \in Others, CursorInsert(t)
  PROVE  IInv' /\ Promise!Arm(t)
<1>1. /\ t \in arming
      /\ timerctl' = Insert(timerctl, t)
      /\ arming' = arming \ {t}
      /\ UNCHANGED <<rang, cursor, app, user, pending>>
  BY DEF CursorInsert
<1>2. PICK s : Sound(timerctl, s, arming) /\ TaskTimer \in Elements(s)
  BY DEF IInv
<1>3. t \in All \ Elements(s) /\ t # Sentinel /\ Listed(timerctl, s)
      /\ timerctl.timers0[t].flags = Using
  BY <1>1, <1>2, StateFacts DEF Sound
<1>4. /\ Keeps(timerctl, timerctl')
      /\ \A u \in All : timerctl'.timers0[u].flags = timerctl.timers0[u].flags
      /\ \E r : Listed(timerctl', r) /\ Elements(r) = Elements(s) \cup {t}
  BY <1>1, <1>3, StateFacts, InsertFacts
<1>5. PICK r : Listed(timerctl', r) /\ Elements(r) = Elements(s) \cup {t}
  BY <1>4
<1>6. /\ timerctl' \in Controls /\ timerctl'.count = timerctl.count
      /\ \A u \in All : /\ Time(timerctl', u) = Time(timerctl, u)
                        /\ timerctl'.timers0[u].flags2 = timerctl.timers0[u].flags2
                        /\ timerctl'.timers0[u].fifo = timerctl.timers0[u].fifo
  BY <1>4 DEF Keeps
<1>7. Elements(s) \subseteq All /\ arming \subseteq All
  BY <1>3, ListFields, StateFacts DEF IInv, TypeOK
<1>8. Sound(timerctl', r, arming')
  <2>1. Elements(r) \cup arming' = Elements(s) \cup arming
    BY <1>1, <1>5
  <2>2. Elements(r) \cap arming' = {}
    BY <1>1, <1>2, <1>5 DEF Sound
  <2>3. \A u \in (Elements(s) \cup arming) \ {Sentinel} : Time(timerctl', u) < Never
    BY <1>2, <1>6, <1>7 DEF Sound
  <2> QED BY <2>1, <2>2, <2>3, <1>2, <1>4, <1>5 DEF Sound
<1>9. TypeOK'
  BY <1>1, <1>6 DEF IInv, TypeOK
<1>10. CursorUse' /\ TimerUse'
  BY <1>1, <1>4, <1>6, StateFacts DEF IInv, CursorUse, TimerUse
<1>11. CancelUse' /\ HalfUse'
  BY <1>1, <1>4, <1>6, StateFacts, Names DEF IInv, CancelUse, HalfUse, TypeOK
<1>12. Promise!Arm(t)
  <2>1. \A u \in Elements(s) : Time(timerctl', u) = Time(timerctl, u)
    BY <1>6, <1>7
  <2>2. /\ t \notin DOMAIN Alarmed(timerctl)
        /\ Alarmed(timerctl') = Promise!With(Alarmed(timerctl), t, Time(timerctl', t))
    BY <2>1, <1>3, <1>5, AlarmedMore
  <2>3. Time(timerctl', t) \in 0 .. Never - 1
    <3>1. Time(timerctl', t) < Never /\ Time(timerctl', t) \in 0 .. Never
      BY <1>1, <1>2, <1>3, <1>6, StateFacts, ControlFields DEF Sound
    <3> QED BY <3>1, Times
  <2> QED BY <2>2, <2>3, <1>1, <1>6 DEF Promise!Arm, Promise!Armed, Alarmed, Linked
<1> QED BY <1>2, <1>5, <1>8, <1>9, <1>10, <1>11, <1>12 DEF IInv

\* timer_cancel of a cursor timer that its console is not arming.
LEMMA CursorCancelled ==
  ASSUME IInv, NEW f \in Consoles, cursor[f] # Nil, ~Busy(f),
         timerctl' = Cancel(timerctl, cursor[f]), UNCHANGED <<rang, arming>>
  PROVE  /\ Keeps(timerctl, timerctl')
         /\ \A u \in All : /\ u # cursor[f] =>
                                timerctl'.timers0[u].flags = timerctl.timers0[u].flags
                           /\ timerctl'.timers0[u].flags = NotUsed
                              <=> timerctl.timers0[u].flags = NotUsed
                           /\ timerctl.timers0[u].flags = Alloc =>
                                timerctl'.timers0[u].flags = Alloc
         /\ \E r : Sound(timerctl', r, arming') /\ TaskTimer \in Elements(r)
         /\ \E S \in SUBSET (All \ {Sentinel}) : Promise!Disarm(S)
<1> DEFINE t == cursor[f]
<1>1. PICK s : Sound(timerctl, s, arming) /\ TaskTimer \in Elements(s)
  BY DEF IInv
<1>2. t \in Others /\ t \in All \ {Sentinel} /\ t # TaskTimer /\ t \notin arming
  BY StateFacts, Names DEF Busy
<1> HIDE DEF t
<1>3. (timerctl.timers0[t].flags = Using <=> t \in Elements(s)) /\ Listed(timerctl, s)
  BY <1>1, <1>2 DEF Sound
<1>4. /\ Keeps(timerctl, timerctl')
      /\ \A u \in All : timerctl'.timers0[u].flags =
           IF u = t /\ timerctl.timers0[t].flags = Using THEN Alloc ELSE timerctl.timers0[u].flags
      /\ \E r : Listed(timerctl', r) /\ Elements(r) = Elements(s) \ {t}
  <2> DEFINE new == Cancel(timerctl, t)
  <2>1. /\ Keeps(timerctl, new)
        /\ \A u \in All : new.timers0[u].flags =
             IF u = t /\ timerctl.timers0[t].flags = Using THEN Alloc ELSE timerctl.timers0[u].flags
        /\ \E r : Listed(new, r) /\ Elements(r) = Elements(s) \ {t}
    BY <1>2, <1>3, StateFacts, StopFacts
  <2>2. timerctl' = new
    BY DEF t
  <2> HIDE DEF new
  <2> QED BY <2>1, <2>2
<1>5. PICK r : Listed(timerctl', r) /\ Elements(r) = Elements(s) \ {t}
  BY <1>4
<1>6. \A u \in All : /\ u # t => timerctl'.timers0[u].flags = timerctl.timers0[u].flags
                     /\ timerctl'.timers0[u].flags = NotUsed
                        <=> timerctl.timers0[u].flags = NotUsed
                     /\ timerctl.timers0[u].flags = Alloc =>
                          timerctl'.timers0[u].flags = Alloc
  BY <1>4 DEF NotUsed, Alloc, Using
<1>7. /\ timerctl'.count = timerctl.count
      /\ \A u \in All : Time(timerctl', u) = Time(timerctl, u)
  BY <1>4 DEF Keeps
<1>8. Elements(s) \subseteq All /\ arming \subseteq All
  BY <1>3, ListFields, StateFacts DEF IInv, TypeOK
<1>9. Sound(timerctl', r, arming')
  <2>1. \A u \in All : timerctl'.timers0[u].flags = Using <=> u \in Elements(r) \cup arming
    <3>1. \A u \in All : timerctl'.timers0[u].flags = Using
                         <=> timerctl.timers0[u].flags = Using /\ u # t
      BY <1>4 DEF Alloc, Using
    <3> QED BY <3>1, <1>1, <1>2, <1>5 DEF Sound
  <2>2. \A u \in (Elements(r) \cup arming) \ {Sentinel} : Time(timerctl', u) < Never
    BY <1>1, <1>5, <1>7, <1>8 DEF Sound
  <2> QED BY <2>1, <2>2, <1>1, <1>5 DEF Sound
<1>10. TaskTimer \in Elements(r)
  BY <1>1, <1>2, <1>5
<1>11. \E S \in SUBSET (All \ {Sentinel}) : Promise!Disarm(S)
  <2> DEFINE S == {t} \cap DOMAIN Alarmed(timerctl)
  <2>1. \A u \in Elements(s) : Time(timerctl', u) = Time(timerctl, u)
    BY <1>7, <1>8
  <2>2. Alarmed(timerctl') = Promise!Without(Alarmed(timerctl), S)
    <3> DEFINE X == {t}
    <3>1. Elements(r) = Elements(s) \ X
      BY <1>5
    <3> HIDE DEF X
    <3>2. Alarmed(timerctl') = Promise!Without(Alarmed(timerctl), X \cap DOMAIN Alarmed(timerctl))
      BY <2>1, <1>3, <1>5, <3>1, AlarmedLess
    <3> QED BY <3>2 DEF X
  <2>3. S \in SUBSET (All \ {Sentinel}) /\ S \subseteq DOMAIN Alarmed(timerctl)
    BY <1>2
  <2> HIDE DEF S
  <2>4. Promise!Disarm(S)
    BY <2>2, <2>3, <1>7 DEF Promise!Disarm, Promise!Armed, Alarmed, Linked
  <2> QED BY <2>3, <2>4
<1> QED BY <1>4, <1>6, <1>9, <1>10, <1>11 DEF t

LEMMA CloseWindowStep ==
  ASSUME IInv, NEW f \in Consoles, CloseWindow(f)
  PROVE  IInv' /\ \E S \in SUBSET (All \ {Sentinel}) : Promise!Disarm(S)
<1>1. /\ cursor[f] # Nil /\ ~Busy(f) /\ timerctl' = Cancel(timerctl, cursor[f])
      /\ UNCHANGED <<rang, cursor, app, user, pending, arming>>
  BY DEF CloseWindow
<1>2. /\ Keeps(timerctl, timerctl')
      /\ \A u \in All : /\ timerctl'.timers0[u].flags = NotUsed
                           <=> timerctl.timers0[u].flags = NotUsed
                        /\ timerctl.timers0[u].flags = Alloc =>
                             timerctl'.timers0[u].flags = Alloc
      /\ \E r : Sound(timerctl', r, arming') /\ TaskTimer \in Elements(r)
      /\ \E S \in SUBSET (All \ {Sentinel}) : Promise!Disarm(S)
  BY <1>1, CursorCancelled
<1>3. /\ timerctl' \in Controls
      /\ \A u \in All : /\ timerctl'.timers0[u].flags2 = timerctl.timers0[u].flags2
                        /\ timerctl'.timers0[u].fifo = timerctl.timers0[u].fifo
  BY <1>2 DEF Keeps
<1>4. TypeOK'
  BY <1>1, <1>3 DEF IInv, TypeOK
<1>5. CursorUse' /\ TimerUse'
  BY <1>1, <1>2, <1>3, StateFacts DEF IInv, CursorUse, TimerUse
<1>6. CancelUse' /\ HalfUse'
  BY <1>1, <1>2, <1>3, StateFacts, Names DEF IInv, CancelUse, HalfUse, TypeOK
<1> QED BY <1>2, <1>4, <1>5, <1>6 DEF IInv

LEMMA ExitStep ==
  ASSUME IInv, NEW f \in Consoles, Exit(f)
  PROVE  IInv' /\ \E S \in SUBSET (All \ {Sentinel}) : Promise!Disarm(S)
<1> DEFINE t == cursor[f]
<1>1. /\ t # Nil /\ ~Busy(f) /\ timerctl' = Cancel(timerctl, t)
      /\ cursor' = [cursor EXCEPT ![f] = Nil]
      /\ user' = [user EXCEPT ![t] = Nil]
      /\ pending' = pending \ {t}
      /\ UNCHANGED <<rang, app, arming>>
  BY DEF Exit
<1>2. /\ Keeps(timerctl, timerctl')
      /\ \A u \in All : /\ timerctl'.timers0[u].flags = NotUsed
                           <=> timerctl.timers0[u].flags = NotUsed
                        /\ timerctl.timers0[u].flags = Alloc =>
                             timerctl'.timers0[u].flags = Alloc
      /\ \E r : Sound(timerctl', r, arming') /\ TaskTimer \in Elements(r)
      /\ \E S \in SUBSET (All \ {Sentinel}) : Promise!Disarm(S)
  BY <1>1, CursorCancelled
<1>3. /\ timerctl' \in Controls
      /\ \A u \in All : /\ timerctl'.timers0[u].flags2 = timerctl.timers0[u].flags2
                        /\ timerctl'.timers0[u].fifo = timerctl.timers0[u].fifo
  BY <1>2 DEF Keeps
<1>4. t \in Others /\ t \notin arming /\ user[t] = f /\ timerctl.timers0[t].flags2 = 0
  BY <1>1, StateFacts DEF IInv, CursorUse, Busy
<1>5. \A g \in Consoles : cursor[g] = t => g = f
  BY <1>1, <1>4 DEF IInv, CursorUse
<1>6. /\ cursor' \in [Consoles -> Others \cup {Nil}] /\ cursor'[f] = Nil
      /\ \A g \in Consoles : g # f => cursor'[g] = cursor[g]
      /\ user' \in [Others -> Consoles \cup {Nil}] /\ user'[t] = Nil
      /\ \A u \in Others : u # t => user'[u] = user[u]
  BY <1>1, <1>4 DEF IInv, TypeOK
<1>7. \A u \in Others : u # t /\ user[u] # Nil => cursor'[user[u]] = u <=> cursor[user[u]] = u
  <2> SUFFICES ASSUME NEW u \in Others, u # t, user[u] # Nil
               PROVE  cursor'[user[u]] = u <=> cursor[user[u]] = u
    OBVIOUS
  <2>1. user[u] \in Consoles /\ u # Nil
    BY StateFacts
  <2> QED BY <2>1, <1>5, <1>6 DEF t
<1>8. \A g \in Consoles : cursor'[g] # Nil => g # f /\ cursor'[g] # t /\ cursor'[g] = cursor[g]
  BY <1>5, <1>6
<1> HIDE DEF t
<1>9. TypeOK'
  BY <1>1, <1>3, <1>6 DEF IInv, TypeOK
<1>10. CursorUse'
  BY <1>3, <1>6, <1>8, StateFacts DEF IInv, CursorUse
<1>11. TimerUse'
  BY <1>2, <1>3, <1>6, <1>7, StateFacts DEF IInv, TimerUse
<1>12. CancelUse'
  BY <1>2, <1>3, <1>4, <1>6, StateFacts, Names DEF IInv, CancelUse
<1>13. HalfUse'
  BY <1>1, <1>2, <1>4, <1>6, <1>7, StateFacts DEF IInv, HalfUse, TypeOK
<1> QED BY <1>2, <1>9, <1>10, <1>11, <1>12, <1>13 DEF IInv

-----------------------------------------------------------------------------
(* The steps of an application. *)

\* What timer_cancelall is to find has a user that is no console.
LEMMA AppTimerFacts ==
  ASSUME IInv, NEW f \in Consoles, NEW t \in Others, AppTimer(t, f)
  PROVE  /\ timerctl.timers0[t].flags # NotUsed /\ timerctl.timers0[t].flags2 = 1
         /\ timerctl.timers0[t].fifo = f /\ user[t] = f /\ user[t] # Nil
         /\ t \notin pending /\ t \notin arming
         /\ \A g \in Consoles : cursor[g] # t
<1>1. user[t] = f /\ cursor[f] # t /\ f # Nil
  BY StateFacts DEF AppTimer
<1>2. t \notin pending /\ t \notin arming
  BY <1>1 DEF IInv, HalfUse
<1>3. \A g \in Consoles : cursor[g] # t
  BY <1>1, StateFacts DEF IInv, CursorUse
<1> QED BY <1>1, <1>2, <1>3 DEF IInv, TimerUse

LEMMA AppStartStep ==
  ASSUME IInv, NEW f \in Consoles, AppStart(f)
  PROVE  IInv' /\ UNCHANGED Promise!vars
<1>1. app' = app \cup {f} /\ UNCHANGED <<timerctl, rang, cursor, user, pending, arming>>
  BY DEF AppStart
<1>2. TypeOK'
  BY <1>1 DEF IInv, TypeOK
<1>3. CursorUse' /\ TimerUse' /\ CancelUse' /\ HalfUse'
  BY <1>1 DEF IInv, CursorUse, TimerUse, CancelUse, HalfUse
<1>4. UNCHANGED Promise!vars
  BY <1>1 DEF Promise!vars, Linked
<1> QED BY <1>1, <1>2, <1>3, <1>4 DEF IInv

\* An application takes a free timer and gives it the queue of its console.
LEMMA AppAllocStep ==
  ASSUME IInv, Exposed = {}, NEW f \in Consoles, AppAlloc(f)
  PROVE  IInv' /\ UNCHANGED Promise!vars
<1>1. PICK t \in Others :
        /\ timerctl.timers0[t].flags = NotUsed
        /\ timerctl' = Allocate(timerctl, t, f, 1)
        /\ user' = [user EXCEPT ![t] = f]
  BY DEF AppAlloc
<1>2. UNCHANGED <<rang, cursor, app, pending, arming>>
  BY DEF AppAlloc
<1>3. PICK s : Sound(timerctl, s, arming) /\ TaskTimer \in Elements(s)
  BY DEF IInv
<1>4. t \in All \ Elements(s) /\ t \notin arming /\ Listed(timerctl, s)
  BY <1>1, <1>3, StateFacts, IdleFacts DEF Sound
<1>5. /\ timerctl' \in Controls /\ Listed(timerctl', s) /\ timerctl'.count = timerctl.count
      /\ timerctl'.timers0[t].flags = Alloc /\ timerctl'.timers0[t].flags2 = 1
      /\ timerctl'.timers0[t].fifo = f
      /\ \A u \in All : u # t => timerctl'.timers0[u] = timerctl.timers0[u]
  <2> DEFINE new == Allocate(timerctl, t, f, 1)
  <2>1. /\ new \in Controls /\ Listed(new, s) /\ new.count = timerctl.count
        /\ new.timers0[t].flags = Alloc /\ new.timers0[t].flags2 = 1
        /\ new.timers0[t].fifo = f
        /\ \A u \in All : u # t => new.timers0[u] = timerctl.timers0[u]
    BY <1>4, StateFacts, AllocateFacts
  <2>2. timerctl' = new
    BY <1>1
  <2> HIDE DEF new
  <2> QED BY <2>1, <2>2
<1>6. Elements(s) \subseteq All /\ arming \subseteq All
  BY <1>4, ListFields, StateFacts DEF IInv, TypeOK
<1>7. Sound(timerctl', s, arming')
  <2>1. \A u \in All : timerctl'.timers0[u].flags = Using <=> u \in Elements(s) \cup arming
    BY <1>3, <1>4, <1>5 DEF Sound, Alloc, Using
  <2>2. \A u \in (Elements(s) \cup arming) \ {Sentinel} : Time(timerctl', u) < Never
    BY <1>3, <1>4, <1>5, <1>6 DEF Sound, Time
  <2> QED BY <2>1, <2>2, <1>2, <1>3, <1>5 DEF Sound
<1>8. user[t] = Nil /\ t \notin pending /\ f # Nil /\ \A g \in Consoles : cursor[g] # t
  <2>1. user[t] = Nil /\ f # Nil /\ t # Nil
    BY <1>1, StateFacts DEF IInv, TimerUse
  <2> QED BY <2>1, StateFacts DEF IInv, HalfUse, CursorUse
<1>9. user' \in [Others -> Consoles \cup {Nil}] /\ user'[t] = f
      /\ \A u \in Others : u # t => user'[u] = user[u]
  BY <1>1 DEF IInv, TypeOK
<1>10. TypeOK'
  BY <1>2, <1>5, <1>9 DEF IInv, TypeOK
<1>11. CursorUse'
  BY <1>2, <1>5, <1>8, <1>9, StateFacts DEF IInv, CursorUse
<1>12. TimerUse'
  <2> SUFFICES ASSUME NEW u \in Others, user'[u] # Nil
               PROVE  /\ timerctl'.timers0[u].flags # NotUsed
                      /\ cursor'[user'[u]] # u => /\ timerctl'.timers0[u].flags2 = 1
                                                  /\ timerctl'.timers0[u].fifo = user'[u]
    BY DEF TimerUse
  <2>1. CASE u = t
    BY <2>1, <1>5, <1>9 DEF Alloc, NotUsed
  <2>2. CASE u # t
    BY <2>2, <1>2, <1>5, <1>9, StateFacts DEF IInv, TimerUse
  <2> QED BY <2>1, <2>2
<1>13. CancelUse'
  BY <1>5, <1>8, <1>9, StateFacts, Names DEF IInv, CancelUse
<1>14. HalfUse'
  BY <1>2, <1>4, <1>5, <1>8, <1>9, StateFacts DEF IInv, HalfUse, TypeOK
<1>15. Alarmed(timerctl') = Alarmed(timerctl)
  <2>1. \A u \in Elements(s) : Time(timerctl', u) = Time(timerctl, u)
    BY <1>4, <1>5, <1>6 DEF Time
  <2> QED BY <2>1, <1>4, <1>5, AlarmedSame
<1>16. UNCHANGED Promise!vars
  BY <1>2, <1>5, <1>15, Stuttering
<1> QED BY <1>3, <1>7, <1>10, <1>11, <1>12, <1>13, <1>14, <1>16 DEF IInv

\* The timer has the queue already.
LEMMA AppInitStep ==
  ASSUME IInv, NEW f \in Consoles, NEW t \in Others, AppInit(t, f)
  PROVE  UNCHANGED vars
<1>1. /\ AppTimer(t, f) /\ timerctl' = [timerctl EXCEPT !.timers0[t].fifo = f]
      /\ UNCHANGED <<rang, cursor, app, user, pending, arming>>
  BY DEF AppInit
<1>2. timerctl.timers0[t].fifo = f
  BY <1>1, AppTimerFacts
<1> DEFINE T == timerctl.timers0
           r == T[t]
<1>3. timerctl \in Controls /\ T \in [All -> TimerRecords] /\ t \in All
  BY StateFacts, ControlFields
<1>4. r \in TimerRecords
  BY <1>3
<1>5. [r EXCEPT !.fifo = f] = r
  BY <1>2, <1>4 DEF TimerRecords
<1>6. [T EXCEPT ![t] = r] = T
  BY <1>3
<1>7. [timerctl EXCEPT !.timers0 = T] = timerctl
  BY <1>3 DEF Controls
<1>8. [timerctl EXCEPT !.timers0[t].fifo = f] = [timerctl EXCEPT !.timers0 = [T EXCEPT ![t] = [r EXCEPT !.fifo = f]]]
  BY <1>3 DEF Controls
<1>9. timerctl' = timerctl
  BY <1>1, <1>5, <1>6, <1>7, <1>8
<1> QED BY <1>1, <1>9 DEF vars

\* An application arms an idle timer.
LEMMA AppSetStep ==
  ASSUME Exposed = {}, IInv, NEW f \in Consoles, NEW t \in Others, NEW d \in Delays, AppSet(t, f, d)
  PROVE  IInv' /\ Promise!Arm(t)
<1>1. /\ AppTimer(t, f) /\ timerctl.timers0[t].flags = Alloc
      /\ timerctl' = Settime(timerctl, t, d)
      /\ UNCHANGED <<rang, cursor, app, user, pending, arming>>
  BY DEF AppSet
<1>2. PICK s : Sound(timerctl, s, arming) /\ TaskTimer \in Elements(s)
  BY DEF IInv
<1>3. t \in All \ Elements(s) /\ t \notin arming /\ t # Sentinel /\ Listed(timerctl, s)
      /\ t \notin pending
  BY <1>1, <1>2, StateFacts, IdleFacts, AppTimerFacts DEF Sound
<1>4. d \in Nat /\ MaxCount + d < Never
  BY Times
<1>5. /\ timerctl' \in Controls /\ timerctl'.count = timerctl.count
      /\ Time(timerctl', t) < Never /\ timerctl'.timers0[t].flags = Using
      /\ \A u \in All : /\ timerctl'.timers0[u].flags2 = timerctl.timers0[u].flags2
                        /\ timerctl'.timers0[u].fifo = timerctl.timers0[u].fifo
      /\ \A u \in All \ {t} : /\ Time(timerctl', u) = Time(timerctl, u)
                              /\ timerctl'.timers0[u].flags = timerctl.timers0[u].flags
      /\ \E r : Listed(timerctl', r) /\ Elements(r) = Elements(s) \cup {t}
  <2> DEFINE new == Settime(timerctl, t, d)
  <2>1. /\ new \in Controls /\ new.count = timerctl.count
        /\ Time(new, t) = d + timerctl.count /\ d + timerctl.count < Never
        /\ new.timers0[t].flags = Using
        /\ \A u \in All : /\ new.timers0[u].flags2 = timerctl.timers0[u].flags2
                          /\ new.timers0[u].fifo = timerctl.timers0[u].fifo
        /\ \A u \in All \ {t} : /\ Time(new, u) = Time(timerctl, u)
                                /\ new.timers0[u].flags = timerctl.timers0[u].flags
        /\ \E r : Listed(new, r) /\ Elements(r) = Elements(s) \cup {t}
    BY <1>3, <1>4, StateFacts, SettimeFacts
  <2>2. timerctl' = new
    BY <1>1
  <2> HIDE DEF new
  <2> QED BY <2>1, <2>2
<1>6. PICK r : Listed(timerctl', r) /\ Elements(r) = Elements(s) \cup {t}
  BY <1>5
<1>7. Elements(s) \subseteq All /\ arming \subseteq All
  BY <1>3, ListFields, StateFacts DEF IInv, TypeOK
<1>8. Sound(timerctl', r, arming')
  <2>1. \A u \in All : timerctl'.timers0[u].flags = Using <=> u \in Elements(r) \cup arming
    BY <1>2, <1>3, <1>5, <1>6 DEF Sound
  <2>2. \A u \in (Elements(r) \cup arming) \ {Sentinel} : Time(timerctl', u) < Never
    BY <1>2, <1>5, <1>6, <1>7 DEF Sound
  <2> QED BY <2>1, <2>2, <1>1, <1>2, <1>3, <1>6 DEF Sound
<1>9. \A u \in All : timerctl'.timers0[u].flags = NotUsed
                     <=> timerctl.timers0[u].flags = NotUsed
  BY <1>1, <1>5 DEF Alloc, Using, NotUsed
<1>10. TypeOK'
  BY <1>1, <1>5 DEF IInv, TypeOK
<1>11. CursorUse' /\ TimerUse'
  BY <1>1, <1>5, <1>9, StateFacts DEF IInv, CursorUse, TimerUse
<1>12. CancelUse'
  BY <1>1, <1>5, <1>9, StateFacts, Names DEF IInv, CancelUse
<1>13. HalfUse'
  BY <1>1, <1>3, <1>5, StateFacts DEF IInv, HalfUse, TypeOK
<1>14. Promise!Arm(t)
  <2>1. \A u \in Elements(s) : Time(timerctl', u) = Time(timerctl, u)
    BY <1>3, <1>5, <1>7
  <2>2. /\ t \notin DOMAIN Alarmed(timerctl)
        /\ Alarmed(timerctl') = Promise!With(Alarmed(timerctl), t, Time(timerctl', t))
    BY <2>1, <1>3, <1>6, AlarmedMore
  <2>3. Time(timerctl', t) \in 0 .. Never - 1
    <3>1. Time(timerctl', t) \in 0 .. Never
      BY <1>3, <1>5, ControlFields
    <3> QED BY <3>1, <1>5, Times
  <2> QED BY <2>2, <2>3, <1>1, <1>5 DEF Promise!Arm, Promise!Armed, Alarmed, Linked
<1> QED BY <1>2, <1>6, <1>8, <1>10, <1>11, <1>12, <1>13, <1>14 DEF IInv

\* An application frees an idle timer.
LEMMA AppFreeStep ==
  ASSUME Exposed = {}, IInv, NEW f \in Consoles, NEW t \in Others, AppFree(t, f)
  PROVE  IInv' /\ UNCHANGED Promise!vars
<1>1. /\ AppTimer(t, f) /\ timerctl.timers0[t].flags = Alloc
      /\ timerctl' = Release(timerctl, t)
      /\ user' = [user EXCEPT ![t] = Nil]
      /\ UNCHANGED <<rang, cursor, app, pending, arming>>
  BY DEF AppFree
<1>2. PICK s : Sound(timerctl, s, arming) /\ TaskTimer \in Elements(s)
  BY DEF IInv
<1>3. t \in All \ Elements(s) /\ t \notin arming /\ Listed(timerctl, s)
  BY <1>1, <1>2, StateFacts, IdleFacts DEF Sound
<1>4. /\ Keeps(timerctl, timerctl') /\ Listed(timerctl', s)
      /\ \A u \in All :
           timerctl'.timers0[u].flags = IF u = t THEN NotUsed ELSE timerctl.timers0[u].flags
  <2> DEFINE new == Release(timerctl, t)
  <2>1. /\ Keeps(timerctl, new) /\ Listed(new, s)
        /\ \A u \in All :
             new.timers0[u].flags = IF u = t THEN NotUsed ELSE timerctl.timers0[u].flags
    BY <1>3, StateFacts, FreeFacts
  <2>2. timerctl' = new
    BY <1>1
  <2> HIDE DEF new
  <2> QED BY <2>1, <2>2
<1>5. /\ timerctl' \in Controls /\ timerctl'.count = timerctl.count
      /\ \A u \in All : /\ Time(timerctl', u) = Time(timerctl, u)
                        /\ timerctl'.timers0[u].flags2 = timerctl.timers0[u].flags2
                        /\ timerctl'.timers0[u].fifo = timerctl.timers0[u].fifo
  BY <1>4 DEF Keeps
<1>6. Elements(s) \subseteq All /\ arming \subseteq All
  BY <1>3, ListFields, StateFacts DEF IInv, TypeOK
<1>7. Sound(timerctl', s, arming')
  <2>1. \A u \in All : timerctl'.timers0[u].flags = Using <=> u \in Elements(s) \cup arming
    BY <1>2, <1>3, <1>4 DEF Sound, NotUsed, Using
  <2>2. \A u \in (Elements(s) \cup arming) \ {Sentinel} : Time(timerctl', u) < Never
    BY <1>2, <1>5, <1>6 DEF Sound
  <2> QED BY <2>1, <2>2, <1>1, <1>2, <1>4 DEF Sound
<1>8. t \notin pending /\ \A g \in Consoles : cursor[g] # t
  BY <1>1, AppTimerFacts
<1>9. user' \in [Others -> Consoles \cup {Nil}] /\ user'[t] = Nil
      /\ \A u \in Others : u # t => user'[u] = user[u]
  BY <1>1 DEF IInv, TypeOK
<1>10. TypeOK'
  BY <1>1, <1>5, <1>9 DEF IInv, TypeOK
<1>11. CursorUse'
  BY <1>1, <1>5, <1>8, <1>9, StateFacts DEF IInv, CursorUse
<1>12. TimerUse'
  BY <1>1, <1>4, <1>5, <1>9, StateFacts DEF IInv, TimerUse
<1>13. CancelUse'
  BY <1>4, <1>5, <1>9, StateFacts, Names DEF IInv, CancelUse
<1>14. HalfUse'
  BY <1>1, <1>3, <1>4, <1>8, <1>9, StateFacts DEF IInv, HalfUse, TypeOK
<1>15. Alarmed(timerctl') = Alarmed(timerctl)
  BY <1>3, <1>4, <1>5, <1>6, AlarmedSame
<1>16. UNCHANGED Promise!vars
  BY <1>1, <1>5, <1>15, Stuttering
<1> QED BY <1>2, <1>7, <1>10, <1>11, <1>12, <1>13, <1>14, <1>16 DEF IInv

\* The end of an application takes back its timers and no other.
LEMMA AppEndStep ==
  ASSUME IInv, Exposed = {}, NEW f \in Consoles, AppEnd(f)
  PROVE  IInv' /\ \E S \in SUBSET (All \ {Sentinel}) : Promise!Disarm(S)
<1> DEFINE S == Cancelable(timerctl, f)
<1>1. /\ ~Busy(f) /\ timerctl' = CancelAll(timerctl, f)
      /\ app' = app \ {f}
      /\ user' = [t \in Others |-> IF AppTimer(t, f) THEN Nil ELSE user[t]]
      /\ arming' = arming \ {cursor[f]}
      /\ UNCHANGED <<rang, cursor, pending>>
  BY DEF AppEnd
<1>2. arming' = arming
  BY <1>1 DEF Busy
<1>3. PICK s : Sound(timerctl, s, arming) /\ TaskTimer \in Elements(s)
  BY DEF IInv
<1>4. \A t \in All : t \in S <=> t \in Others /\ AppTimer(t, f)
  <2> SUFFICES ASSUME NEW t \in All PROVE t \in S <=> t \in Others /\ AppTimer(t, f)
    OBVIOUS
  <2>1. ASSUME t \in Others, AppTimer(t, f) PROVE t \in S
    BY <2>1, AppTimerFacts DEF Cancelable
  <2>2. ASSUME t \in S PROVE t \in Others /\ AppTimer(t, f)
    <3>1. /\ timerctl.timers0[t].flags # NotUsed /\ timerctl.timers0[t].flags2 # 0
          /\ timerctl.timers0[t].fifo = f
      BY <2>2 DEF Cancelable
    <3>2. t \in Others
      BY <3>1 DEF IInv, CancelUse, All
    <3>3. timerctl.timers0[t].flags2 = 1
      BY <3>1, StateFacts, ControlFields
    <3>4. user[t] = f
      BY <3>1, <3>2, <3>3 DEF IInv, CancelUse
    <3>5. cursor[f] # t
      BY <3>1, <3>2, StateFacts DEF IInv, CursorUse
    <3> QED BY <3>2, <3>4, <3>5 DEF AppTimer
  <2> QED BY <2>1, <2>2
<1>5. S \subseteq All
  BY DEF Cancelable
<1>6. /\ Sentinel \notin S /\ TaskTimer \notin S
      /\ \A t \in S : timerctl.timers0[t].flags = Using <=> t \in Elements(s)
  <2>1. \A t \in S : t \notin arming
    BY <1>4, <1>5, AppTimerFacts
  <2> QED BY <2>1, <1>3, <1>4, <1>5, Names DEF Sound
<1>7. Listed(timerctl, s)
  BY <1>3 DEF Sound
<1>8. /\ Keeps(timerctl, timerctl')
      /\ \A u \in All :
           timerctl'.timers0[u].flags = IF u \in S THEN NotUsed ELSE timerctl.timers0[u].flags
      /\ \E r : Listed(timerctl', r) /\ Elements(r) = Elements(s) \ S
  <2> DEFINE new == CancelAll(timerctl, f)
  <2>1. /\ Keeps(timerctl, new)
        /\ \A u \in All :
             new.timers0[u].flags = IF u \in S THEN NotUsed ELSE timerctl.timers0[u].flags
        /\ \E r : Listed(new, r) /\ Elements(r) = Elements(s) \ S
    BY <1>6, <1>7, StateFacts, CancelAllFacts
  <2>2. timerctl' = new
    BY <1>1
  <2> HIDE DEF new, S
  <2> QED BY <2>1, <2>2
<1> HIDE DEF S
<1>9. PICK r : Listed(timerctl', r) /\ Elements(r) = Elements(s) \ S
  BY <1>8
<1>10. /\ timerctl' \in Controls /\ timerctl'.count = timerctl.count
       /\ \A u \in All : /\ Time(timerctl', u) = Time(timerctl, u)
                         /\ timerctl'.timers0[u].flags2 = timerctl.timers0[u].flags2
                         /\ timerctl'.timers0[u].fifo = timerctl.timers0[u].fifo
  BY <1>8 DEF Keeps
<1>11. Elements(s) \subseteq All /\ arming \subseteq All
  BY <1>7, ListFields, StateFacts DEF IInv, TypeOK
<1>12. \A u \in S : /\ u \in Others /\ u \notin arming /\ u \notin pending
                    /\ \A g \in Consoles : cursor[g] # u
  BY <1>4, <1>5, AppTimerFacts
<1>13. Sound(timerctl', r, arming')
  <2>1. \A u \in All : timerctl'.timers0[u].flags = Using <=> u \in Elements(r) \cup arming
    BY <1>3, <1>8, <1>9, <1>12 DEF Sound, NotUsed, Using
  <2>2. \A u \in (Elements(r) \cup arming) \ {Sentinel} : Time(timerctl', u) < Never
    BY <1>3, <1>9, <1>10, <1>11 DEF Sound
  <2> QED BY <2>1, <2>2, <1>2, <1>3, <1>9 DEF Sound
<1>14. \A u \in Others : user'[u] = IF u \in S THEN Nil ELSE user[u]
  BY <1>1, <1>4, StateFacts
<1>15. TypeOK'
  <2>1. user' \in [Others -> Consoles \cup {Nil}]
    BY <1>1 DEF IInv, TypeOK
  <2> QED BY <2>1, <1>1, <1>2, <1>10 DEF IInv, TypeOK
<1>16. CursorUse'
  BY <1>1, <1>10, <1>12, <1>14, StateFacts DEF IInv, CursorUse
<1>17. TimerUse'
  BY <1>1, <1>8, <1>10, <1>14, StateFacts DEF IInv, TimerUse
<1>18. CancelUse'
  BY <1>8, <1>10, <1>14, StateFacts, Names DEF IInv, CancelUse
<1>19. HalfUse'
  BY <1>1, <1>2, <1>8, <1>12, <1>14, StateFacts DEF IInv, HalfUse, TypeOK
<1>20. \E W \in SUBSET (All \ {Sentinel}) : Promise!Disarm(W)
  <2> DEFINE W == S \cap DOMAIN Alarmed(timerctl)
  <2>1. \A u \in Elements(s) : Time(timerctl', u) = Time(timerctl, u)
    BY <1>10, <1>11
  <2>2. Alarmed(timerctl') = Promise!Without(Alarmed(timerctl), W)
    BY <2>1, <1>7, <1>9, AlarmedLess
  <2>3. W \in SUBSET (All \ {Sentinel}) /\ W \subseteq DOMAIN Alarmed(timerctl)
    BY <1>5, <1>6
  <2> HIDE DEF W
  <2>4. Promise!Disarm(W)
    BY <2>2, <2>3, <1>1, <1>10 DEF Promise!Disarm, Promise!Armed, Alarmed, Linked
  <2> QED BY <2>3, <2>4
<1>21. TaskTimer \in Elements(r)
  BY <1>3, <1>6, <1>9
<1> QED BY <1>9, <1>13, <1>15, <1>16, <1>17, <1>18, <1>19, <1>20, <1>21 DEF IInv

-----------------------------------------------------------------------------
(* The interrupt. *)

\* It gives no timer to another user.
LEMMA InterruptUse ==
  ASSUME IInv, UNCHANGED <<cursor, app, user, arming>>, timerctl' \in Controls,
         rang' \subseteq All,
         NEW kept \in SUBSET All, pending' = pending \cup kept,
         \A t \in kept : \E f \in Consoles : cursor[f] = t,
         \A t \in kept : timerctl'.timers0[t].flags = Alloc,
         \A t \in All : /\ timerctl'.timers0[t].flags2 = timerctl.timers0[t].flags2
                        /\ timerctl'.timers0[t].fifo = timerctl.timers0[t].fifo
                        /\ timerctl'.timers0[t].flags = NotUsed
                           <=> timerctl.timers0[t].flags = NotUsed,
         \A t \in Others :
           timerctl.timers0[t].flags = Alloc => timerctl'.timers0[t].flags = Alloc
  PROVE  TypeOK' /\ CursorUse' /\ TimerUse' /\ CancelUse' /\ HalfUse'
<1>1. \A t \in kept : t \in Others /\ user[t] # Nil /\ cursor[user[t]] = t
  <2> SUFFICES ASSUME NEW t \in kept PROVE t \in Others /\ user[t] # Nil /\ cursor[user[t]] = t
    OBVIOUS
  <2>1. PICK f \in Consoles : cursor[f] = t
    OBVIOUS
  <2>2. t # Nil
    BY Names
  <2> QED BY <2>1, <2>2, StateFacts DEF IInv, CursorUse
<1>2. TypeOK'
  BY <1>1 DEF IInv, TypeOK
<1>3. CursorUse' /\ TimerUse'
  BY StateFacts DEF IInv, CursorUse, TimerUse
<1>4. CancelUse'
  BY StateFacts, Names DEF IInv, CancelUse
<1>5. HalfUse'
  BY <1>1, StateFacts DEF IInv, HalfUse, TypeOK
<1> QED BY <1>2, <1>3, <1>4, <1>5

\* The time goes on by one.
LEMMA TickFacts ==
  ASSUME NEW ctl \in Controls, NEW s, Listed(ctl, s), ctl.count < MaxCount
  PROVE  LET now == [ctl EXCEPT !.count = ctl.count + 1]
         IN  /\ now \in Controls /\ Listed(now, s) /\ now.count = ctl.count + 1
             /\ now.timers0 = ctl.timers0 /\ now.next = ctl.next
<1> DEFINE now == [ctl EXCEPT !.count = ctl.count + 1]
<1>1. ctl.count + 1 \in 0 .. MaxCount
  BY ControlFields, Times
<1>2. /\ now \in Controls /\ now.count = ctl.count + 1 /\ now.t0 = ctl.t0
      /\ now.timers0 = ctl.timers0 /\ now.next = ctl.next
  BY <1>1 DEF Controls
<1> HIDE DEF now
<1>3. Listed(now, s)
  BY <1>2, ListedFrame DEF Time
<1> QED BY <1>2, <1>3 DEF now

LEMMA inthandler20Step ==
  ASSUME IInv, inthandler20
  PROVE  IInv' /\ Promise!Interrupt
<1> DEFINE now == [timerctl EXCEPT !.count = timerctl.count + 1]
           a == Alarmed(timerctl)
<1>1. timerctl.count < MaxCount /\ UNCHANGED <<cursor, user, app, arming>>
  BY DEF inthandler20
<1>2. PICK s : Sound(timerctl, s, arming) /\ TaskTimer \in Elements(s)
  BY DEF IInv
<1>3. /\ timerctl \in Controls /\ timerctl.count \in Nat /\ Listed(timerctl, s)
      /\ Elements(s) \subseteq All /\ arming \subseteq All
  BY <1>2, StateFacts, ListFields DEF Sound, IInv, TypeOK
<1>4. /\ now \in Controls /\ Listed(now, s) /\ now.count = timerctl.count + 1
      /\ now.timers0 = timerctl.timers0 /\ now.next = timerctl.next
  BY <1>1, <1>3, TickFacts
<1>5. DOMAIN a = Elements(s) \ {Sentinel} /\ \A t \in DOMAIN a : a[t] = Time(timerctl, t)
  BY <1>3, AlarmedFacts
<1>6. \/ /\ now.next > now.count
         /\ timerctl' = now
         /\ rang' = {}
         /\ UNCHANGED pending
      \/ /\ now.next <= now.count
         /\ rang' = Expired(now)
         /\ \E kept \in SUBSET {t \in Expired(now) : \E f \in Consoles : cursor[f] = t} :
              pending' = pending \cup kept
         /\ IF TaskTimer \in Expired(now)
            THEN \E d \in Slices : timerctl' = Settime(Expire(now), TaskTimer, d)
            ELSE timerctl' = Expire(now)
  BY DEF inthandler20
<1> HIDE DEF now, a
<1>7. CASE now.next > now.count
  <2>1. timerctl' = now /\ rang' = {} /\ pending' = pending
    BY <1>6, <1>7, <1>3, <1>4, ControlFields, Times
  <2>2. Sound(timerctl', s, arming')
    BY <2>1, <1>1, <1>2, <1>4 DEF Sound, Time
  <2>3. TypeOK' /\ CursorUse' /\ TimerUse' /\ CancelUse' /\ HalfUse'
    <3> DEFINE kept == {}
    <3>1. pending' = pending \cup kept /\ kept \subseteq All
      BY <2>1
    <3>2. \A t \in kept : FALSE
      OBVIOUS
    <3> HIDE DEF kept
    <3> QED BY <3>1, <3>2, <2>1, <1>1, <1>4, InterruptUse
  <2>4. \A t \in Elements(s) : ~(Time(timerctl, t) <= now.count)
    <3> SUFFICES ASSUME NEW i \in 1 .. Len(s) PROVE ~(Time(timerctl, s[i]) <= now.count)
      BY DEF Elements
    <3>1. Len(s) \in Nat \ {0} /\ s[1] \in All /\ s[i] \in All
      BY <1>3, ListFields
    <3>2. Time(timerctl, s[1]) = timerctl.next
      BY <1>3 DEF Listed
    <3>3. i = 1 \/ Time(timerctl, s[1]) <= Time(timerctl, s[i])
      BY <1>3, <3>1 DEF Listed
    <3>4. now.count \in Nat /\ Time(timerctl, s[1]) \in Nat /\ Time(timerctl, s[i]) \in Nat
      BY <3>1, <1>3, <1>4, ControlFields, Times
    <3> QED BY <3>2, <3>3, <3>4, <1>4, <1>7
  <2>5. Promise!Interrupt
    <3>1. timerctl'.count = timerctl.count + 1
      BY <2>1, <1>4
    <3>2. rang' = {t \in DOMAIN a : a[t] <= timerctl'.count}
      BY <2>1, <2>4, <1>5
    <3>3. Alarmed(timerctl') = Promise!Without(a, rang' \cap DOMAIN a)
      <4>1. \A t \in Elements(s) : Time(now, t) = Time(timerctl, t)
        BY <1>4 DEF Time
      <4> DEFINE S == {}
      <4>2. Elements(s) = Elements(s) \ S
        OBVIOUS
      <4> HIDE DEF S
      <4>3. Alarmed(now) = Promise!Without(a, S \cap DOMAIN a)
        BY <4>1, <4>2, <1>3, <1>4, AlarmedLess DEF a
      <4> QED BY <4>3, <2>1 DEF S
    <3>4. rang' \cap DOMAIN a = rang'
      BY <2>1
    <3> QED BY <3>1, <3>2, <3>3, <3>4 DEF Promise!Interrupt, Promise!Armed, Alarmed, Linked, a
  <2> QED BY <2>2, <2>3, <2>5, <1>2 DEF IInv
<1>8. CASE now.next <= now.count
  <2> DEFINE due == Expired(now)
             mid == Expire(now)
  <2>1. rang' = due
    BY <1>6, <1>8, <1>3, <1>4, ControlFields, Times
  <2>2. PICK kept \in SUBSET {t \in due : \E f \in Consoles : cursor[f] = t} :
          pending' = pending \cup kept
    BY <1>6, <1>8, <1>3, <1>4, ControlFields, Times
  <2>3. IF TaskTimer \in due
        THEN \E d \in Slices : timerctl' = Settime(mid, TaskTimer, d)
        ELSE timerctl' = mid
    BY <1>6, <1>8, <1>3, <1>4, ControlFields, Times
  <2>4. /\ due = {t \in Elements(s) : Time(now, t) <= now.count}
        /\ Sentinel \notin due
        /\ Keeps(now, mid)
        /\ \A u \in All : mid.timers0[u].flags = IF u \in due THEN Alloc ELSE now.timers0[u].flags
        /\ \E r : Listed(mid, r) /\ Elements(r) = Elements(s) \ due
    BY <1>4, ExpireFacts
  <2> HIDE DEF due, mid
  <2>5. PICK r : Listed(mid, r) /\ Elements(r) = Elements(s) \ due
    BY <2>4
  <2>6. /\ mid \in Controls /\ mid.count = timerctl.count + 1
        /\ \A u \in All : /\ Time(mid, u) = Time(timerctl, u)
                          /\ mid.timers0[u].flags2 = timerctl.timers0[u].flags2
                          /\ mid.timers0[u].fifo = timerctl.timers0[u].fifo
                          /\ mid.timers0[u].flags =
                               IF u \in due THEN Alloc ELSE timerctl.timers0[u].flags
    BY <2>4, <1>4 DEF Keeps, Time
  <2>7. due = {t \in DOMAIN a : a[t] <= timerctl.count + 1} /\ due \subseteq Elements(s)
    BY <2>4, <1>4, <1>5 DEF Time
  <2>8. \A u \in due : timerctl.timers0[u].flags = Using
    BY <2>7, <1>2, <1>3 DEF Sound
  <2>9. Sound(mid, r, arming)
    <3>1. \A u \in All : mid.timers0[u].flags = Using <=> u \in Elements(r) \cup arming
      BY <2>5, <2>6, <2>7, <1>2 DEF Sound, Alloc, Using
    <3>2. \A u \in (Elements(r) \cup arming) \ {Sentinel} : Time(mid, u) < Never
      BY <2>5, <2>6, <1>2, <1>3 DEF Sound
    <3> QED BY <3>1, <3>2, <2>5, <1>2 DEF Sound
  <2>10. Alarmed(mid) = Promise!Without(a, due)
    <3>1. \A t \in Elements(s) : Time(mid, t) = Time(timerctl, t)
      BY <2>6, <1>3
    <3>2. Alarmed(mid) = Promise!Without(a, due \cap DOMAIN a)
      BY <3>1, <2>5, <1>3, AlarmedLess DEF a
    <3>3. due \cap DOMAIN a = due
      BY <2>7
    <3> QED BY <3>2, <3>3
  <2>11. CASE TaskTimer \notin due
    <3>1. timerctl' = mid
      BY <2>3, <2>11
    <3>2. TypeOK' /\ CursorUse' /\ TimerUse' /\ CancelUse' /\ HalfUse'
      <4>1. \A t \in All : timerctl'.timers0[t].flags = NotUsed
                           <=> timerctl.timers0[t].flags = NotUsed
        BY <3>1, <2>6, <2>8 DEF NotUsed, Alloc, Using
      <4>2. \A t \in Others :
              timerctl.timers0[t].flags = Alloc => timerctl'.timers0[t].flags = Alloc
        BY <3>1, <2>6, StateFacts
      <4>3. kept \subseteq All /\ due \subseteq All
        BY <2>7, <1>3
      <4>4. \A t \in kept : timerctl'.timers0[t].flags = Alloc
        BY <3>1, <2>6, <4>3
      <4> QED BY <4>1, <4>2, <4>3, <4>4, <3>1, <2>1, <2>2, <2>6, <1>1, InterruptUse
    <3>3. Promise!Interrupt
      BY <3>1, <2>1, <2>6, <2>7, <2>10
         DEF Promise!Interrupt, Promise!Armed, Alarmed, Linked, a
    <3>4. TaskTimer \in Elements(r)
      BY <2>5, <2>11, <1>2
    <3> QED BY <3>1, <3>2, <3>3, <3>4, <2>9, <1>1 DEF IInv
  <2>12. CASE TaskTimer \in due
    <3>1. PICK d \in Slices : timerctl' = Settime(mid, TaskTimer, d)
      BY <2>3, <2>12
    <3>2. d \in Nat /\ MaxCount + d < Never /\ d > 0
      BY Times
    <3>3. TaskTimer \in All \ Elements(r) /\ TaskTimer # Sentinel
      BY <2>5, <2>12, Names
    <3>4. /\ timerctl' \in Controls /\ timerctl'.count = mid.count
          /\ Time(timerctl', TaskTimer) = d + mid.count /\ d + mid.count < Never
          /\ timerctl'.timers0[TaskTimer].flags = Using
          /\ \A u \in All : /\ timerctl'.timers0[u].flags2 = mid.timers0[u].flags2
                            /\ timerctl'.timers0[u].fifo = mid.timers0[u].fifo
          /\ \A u \in All \ {TaskTimer} : /\ Time(timerctl', u) = Time(mid, u)
                                          /\ timerctl'.timers0[u].flags = mid.timers0[u].flags
          /\ \E q : Listed(timerctl', q) /\ Elements(q) = Elements(r) \cup {TaskTimer}
      <4> DEFINE new == Settime(mid, TaskTimer, d)
      <4>1. /\ new \in Controls /\ new.count = mid.count
            /\ Time(new, TaskTimer) = d + mid.count /\ d + mid.count < Never
            /\ new.timers0[TaskTimer].flags = Using
            /\ \A u \in All : /\ new.timers0[u].flags2 = mid.timers0[u].flags2
                              /\ new.timers0[u].fifo = mid.timers0[u].fifo
            /\ \A u \in All \ {TaskTimer} : /\ Time(new, u) = Time(mid, u)
                                            /\ new.timers0[u].flags = mid.timers0[u].flags
            /\ \E q : Listed(new, q) /\ Elements(q) = Elements(r) \cup {TaskTimer}
        BY <3>2, <3>3, <2>5, <2>6, SettimeFacts
      <4>2. timerctl' = new
        BY <3>1
      <4> HIDE DEF new
      <4> QED BY <4>1, <4>2
    <3>5. PICK q : Listed(timerctl', q) /\ Elements(q) = Elements(r) \cup {TaskTimer}
      BY <3>4
    <3>6. Elements(r) \subseteq All
      BY <2>5, ListFields
    <3>7. Sound(timerctl', q, arming')
      <4>1. TaskTimer \notin arming
        BY StateFacts, Names DEF IInv, TypeOK
      <4>2. \A u \in All : timerctl'.timers0[u].flags = Using <=> u \in Elements(q) \cup arming
        BY <2>9, <3>4, <3>5 DEF Sound
      <4>3. \A u \in (Elements(q) \cup arming) \ {Sentinel} : Time(timerctl', u) < Never
        BY <2>9, <3>4, <3>5, <3>6, <1>3 DEF Sound
      <4> QED BY <4>1, <4>2, <4>3, <2>9, <3>5, <1>1 DEF Sound
    <3>8. TypeOK' /\ CursorUse' /\ TimerUse' /\ CancelUse' /\ HalfUse'
      <4>1. \A t \in All : timerctl'.timers0[t].flags = NotUsed
                           <=> timerctl.timers0[t].flags = NotUsed
        BY <3>4, <2>6, <2>8, <2>12 DEF NotUsed, Alloc, Using
      <4>2. \A t \in Others :
              timerctl.timers0[t].flags = Alloc => timerctl'.timers0[t].flags = Alloc
        BY <3>4, <2>6, StateFacts
      <4>3. kept \subseteq All /\ due \subseteq All
        BY <2>7, <1>3
      <4>4. \A t \in kept : t # TaskTimer
        BY <4>3, StateFacts, Names
      <4>5. \A t \in kept : timerctl'.timers0[t].flags = Alloc
        BY <3>4, <2>6, <4>3, <4>4
      <4>6. \A t \in All : /\ timerctl'.timers0[t].flags2 = timerctl.timers0[t].flags2
                           /\ timerctl'.timers0[t].fifo = timerctl.timers0[t].fifo
        BY <3>4, <2>6
      <4> QED BY <4>1, <4>2, <4>3, <4>5, <4>6, <3>4, <2>1, <2>2, <1>1, InterruptUse
    <3>9. Promise!Interrupt
      <4> DEFINE time == d + mid.count
      <4>1. \A u \in Elements(r) : Time(timerctl', u) = Time(mid, u)
        BY <3>3, <3>4, <3>6
      <4>2. Alarmed(timerctl') = Promise!With(Alarmed(mid), TaskTimer, time)
        BY <4>1, <3>3, <3>4, <3>5, <2>5, AlarmedMore
      <4>3. time \in timerctl'.count + 1 .. Never - 1
        BY <3>2, <3>4, <2>6, <1>3, Times
      <4> HIDE DEF time
      <4>4. \E t \in rang', x \in timerctl'.count + 1 .. Never - 1 :
              Alarmed(timerctl') = Promise!With(Promise!Without(a, rang'), t, x)
        BY <4>2, <4>3, <2>1, <2>10, <2>12
      <4>5. timerctl'.count = timerctl.count + 1
        BY <3>4, <2>6
      <4>6. rang' = {t \in DOMAIN a : a[t] <= timerctl'.count}
        BY <4>5, <2>1, <2>7
      <4> QED BY <4>4, <4>5, <4>6 DEF Promise!Interrupt, Promise!Armed, Alarmed, Linked, a
    <3>10. TaskTimer \in Elements(q)
      BY <3>5
    <3> QED BY <3>5, <3>7, <3>8, <3>9, <3>10 DEF IInv
  <2> QED BY <2>11, <2>12
<1>9. now.next > now.count \/ now.next <= now.count
  BY <1>6
<1> QED BY <1>7, <1>8, <1>9

-----------------------------------------------------------------------------
(* All steps. *)

LEMMA NextIInv ==
  ASSUME IInv, [Next]_vars, Exposed = {}
  PROVE  IInv' /\ [Promise!Next]_(Promise!vars)
<1> DEFINE Good == IInv' /\ [Promise!Next]_(Promise!vars)
<1>1. ASSUME NEW f \in Consoles,
             \/ OpenCursor(f) \/ CloseWindow(f) \/ Exit(f)
             \/ AppStart(f) \/ AppAlloc(f) \/ AppEnd(f)
      PROVE  Good
  <2>1. CASE OpenCursor(f)
    BY <2>1, OpenCursorStep
  <2>2. CASE CloseWindow(f)
    <3>1. IInv' /\ \E S \in SUBSET (All \ {Sentinel}) : Promise!Disarm(S)
      BY <2>2, CloseWindowStep
    <3> QED BY <3>1 DEF Promise!Next
  <2>3. CASE Exit(f)
    <3>1. IInv' /\ \E S \in SUBSET (All \ {Sentinel}) : Promise!Disarm(S)
      BY <2>3, ExitStep
    <3> QED BY <3>1 DEF Promise!Next
  <2>4. CASE AppStart(f)
    BY <2>4, AppStartStep
  <2>5. CASE AppAlloc(f)
    BY <2>5, AppAllocStep
  <2>6. CASE AppEnd(f)
    <3>1. IInv' /\ \E S \in SUBSET (All \ {Sentinel}) : Promise!Disarm(S)
      BY <2>6, AppEndStep
    <3> QED BY <3>1 DEF Promise!Next
  <2> QED BY <1>1, <2>1, <2>2, <2>3, <2>4, <2>5, <2>6
<1>2. ASSUME NEW t \in Others, CursorReady(t) \/ CursorInsert(t)
      PROVE  Good
  <2>1. CASE CursorReady(t)
    BY <2>1, CursorReadyStep
  <2>2. CASE CursorInsert(t)
    <3>1. IInv' /\ Promise!Arm(t) /\ t \in All \ {Sentinel}
      BY <2>2, CursorInsertStep, Names
    <3> QED BY <3>1 DEF Promise!Next
  <2> QED BY <1>2, <2>1, <2>2
<1>3. ASSUME NEW t \in Others, NEW f \in Consoles,
             \/ AppInit(t, f) \/ AppFree(t, f)
             \/ \E d \in Delays : AppSet(t, f, d)
      PROVE  Good
  <2>1. CASE AppInit(t, f)
    <3>1. UNCHANGED vars
      BY <2>1, AppInitStep
    <3>2. IInv'
      BY <3>1 DEF vars, IInv, TypeOK, CursorUse, TimerUse, CancelUse, HalfUse
    <3> QED BY <3>1, <3>2 DEF vars, Promise!vars, Linked
  <2>2. CASE AppFree(t, f)
    BY <2>2, AppFreeStep
  <2>3. CASE \E d \in Delays : AppSet(t, f, d)
    <3>1. IInv' /\ Promise!Arm(t) /\ t \in All \ {Sentinel}
      BY <2>3, AppSetStep, Names
    <3> QED BY <3>1 DEF Promise!Next
  <2> QED BY <1>3, <2>1, <2>2, <2>3
<1>4. ASSUME inthandler20 PROVE Good
  BY <1>4, inthandler20Step DEF Promise!Next
<1>5. ASSUME UNCHANGED vars PROVE Good
  <2>1. IInv'
    BY <1>5 DEF vars, IInv, TypeOK, CursorUse, TimerUse, CancelUse, HalfUse
  <2> QED BY <1>5, <2>1 DEF vars, Promise!vars, Linked
<1> HIDE DEF Good
<1>6. Good
  BY <1>1, <1>2, <1>3, <1>4, <1>5 DEF Next
<1> QED BY <1>6 DEF Good

LEMMA Invariance ==
  ASSUME Exposed = {}
  PROVE  Spec => []IInv
<1>1. Init => IInv
  BY InitIInv
<1>2. IInv /\ [Next]_vars => IInv'
  BY NextIInv
<1> QED BY <1>1, <1>2, PTL DEF Spec

-----------------------------------------------------------------------------
(* What follows in every state. *)

LEMMA LinkedFacts ==
  ASSUME IInv
  PROVE  \E s : /\ Sound(timerctl, s, arming) /\ TaskTimer \in Elements(s)
                /\ Linked = Elements(s)
<1>1. PICK s : Sound(timerctl, s, arming) /\ TaskTimer \in Elements(s)
  BY DEF IInv
<1>2. Linked = Elements(s)
  BY <1>1, ChainFacts DEF Sound, Linked
<1> QED BY <1>1, <1>2

LEMMA OrderFollows ==
  ASSUME IInv
  PROVE  ListInOrder
<1> DEFINE c == Chain(timerctl)
           Ends(n) == /\ c[n] = Sentinel
                      /\ \A i \in 0 .. n - 1 :
                           /\ c[i] \notin {c[j] : j \in i + 1 .. n}
                           /\ Time(timerctl, c[i]) <= Time(timerctl, c[i + 1])
<1>1. PICK s : Sound(timerctl, s, arming) /\ Linked = Elements(s)
  BY LinkedFacts
<1>2. Listed(timerctl, s)
  BY <1>1 DEF Sound
<1>3. /\ Len(s) \in Nat \ {0} /\ Cardinality(All) \in Nat /\ Len(s) <= Cardinality(All)
      /\ Positions = 0 .. Cardinality(All)
  BY <1>2, ListFields, ListShort DEF Positions
<1>4. \A i \in 0 .. Len(s) - 1 : c[i] = s[i + 1]
  <2>1. \A i \in Positions : c[i] = IF i < Len(s) THEN s[i + 1] ELSE Nil
    BY <1>2, ChainFacts
  <2> HIDE DEF c
  <2> QED BY <2>1, <1>3
<1>5. \A i, j \in 1 .. Len(s) : i < j =>
        s[i] # s[j] /\ Time(timerctl, s[i]) <= Time(timerctl, s[j])
  BY <1>2 DEF Listed
<1>6. s[Len(s)] = Sentinel
  BY <1>2 DEF Listed
<1> HIDE DEF c
<1> DEFINE n == Len(s) - 1
<1>7. n \in Positions /\ n \in 0 .. Len(s) - 1 /\ n + 1 = Len(s)
  BY <1>3
<1>8. c[n] = Sentinel
  BY <1>4, <1>6, <1>7
<1>9. ASSUME NEW i \in 0 .. n - 1
      PROVE  /\ c[i] \notin {c[j] : j \in i + 1 .. n}
             /\ Time(timerctl, c[i]) <= Time(timerctl, c[i + 1])
  <2>1. ASSUME NEW j \in i + 1 .. n
        PROVE  /\ i \in 0 .. Len(s) - 1 /\ j \in 0 .. Len(s) - 1
               /\ i + 1 \in 1 .. Len(s) /\ j + 1 \in 1 .. Len(s) /\ i + 1 < j + 1
    BY <1>3
  <2>2. ASSUME NEW j \in i + 1 .. n
        PROVE  c[i] # c[j] /\ Time(timerctl, c[i]) <= Time(timerctl, c[j])
    BY <2>1, <1>4, <1>5
  <2>3. i + 1 \in i + 1 .. n
    BY <1>3
  <2> HIDE DEF n
  <2> QED BY <2>2, <2>3
<1> HIDE DEF n
<1>10. \E m \in Positions : Ends(m)
  <2>1. Ends(n)
    BY <1>8, <1>9
  <2> HIDE DEF Ends
  <2> QED BY <2>1, <1>7
<1>11. \A t \in Linked : timerctl.timers0[t].flags = Using
  <2>1. Elements(s) \subseteq All
    BY <1>2, ListFields
  <2> QED BY <2>1, <1>1 DEF Sound
<1>12. timerctl.next = Time(timerctl, timerctl.t0)
  BY <1>2 DEF Listed
<1> QED BY <1>10, <1>11, <1>12 DEF ListInOrder, c

-----------------------------------------------------------------------------
(* The theorems.  The hypothesis is that the code did protect itself against *)
(* what the two runs timer_kill_arming and timer_init_late show.             *)

\* Every variable keeps its type.
THEOREM TypeCorrect ==
  ASSUME Exposed = {}
  PROVE  Spec => []TypeOK
<1>1. IInv => TypeOK
  BY DEF IInv
<1> QED BY <1>1, Invariance, PTL

\* The links of the armed timers have no cycle, are in the order of the times
\* and end with the sentinel: the loops of timer_settime, timer_cancel and
\* inthandler20 come to an end.
THEOREM OrderKept ==
  ASSUME Exposed = {}
  PROVE  Spec => []ListInOrder
<1> QED BY Invariance, OrderFollows, PTL

\* An armed timer is on the list, where timer_cancel looks for it, unless its
\* console is between the two halves of timer_settime.
THEOREM ArmedAreLinked ==
  ASSUME Exposed = {}
  PROVE  Spec => []ArmedIsLinked
<1>1. IInv => ArmedIsLinked
  <2> SUFFICES ASSUME IInv PROVE ArmedIsLinked
    OBVIOUS
  <2>1. PICK s : Sound(timerctl, s, arming) /\ Linked = Elements(s)
    BY LinkedFacts
  <2> QED BY <2>1 DEF Sound, ArmedIsLinked
<1> QED BY <1>1, Invariance, PTL

\* timer_alloc never hands out a timer that is in use.
THEOREM UsersKept ==
  ASSUME Exposed = {}
  PROVE  Spec => []OneUser
<1>1. IInv => OneUser
  BY DEF IInv, TimerUse, OneUser
<1> QED BY <1>1, Invariance, PTL

\* The timer of the task switch is armed in every state.
THEOREM SlicesRun ==
  ASSUME Exposed = {}
  PROVE  Spec => []SliceRuns
<1>1. IInv => SliceRuns
  BY LinkedFacts DEF SliceRuns
<1> QED BY <1>1, Invariance, PTL

\* The list implements the alarms: every timer rings at the first interrupt that
\* is not before its time, none is forgotten and none rings that was cancelled.
THEOREM Refinement ==
  ASSUME Exposed = {}
  PROVE  Spec => ImplementsAlarms
<1>1. Init => Promise!Init
  BY InitIInv
<1>2. IInv /\ [Next]_vars => [Promise!Next]_(Promise!vars)
  BY NextIInv
<1> QED BY <1>1, <1>2, Invariance, PTL DEF Spec, ImplementsAlarms, Promise!Spec
=============================================================================

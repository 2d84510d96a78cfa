--------------------------- MODULE SessionProofs ---------------------------
(***************************************************************************)
(* Who is there, for any number of tasks, windows and messages: HariMain   *)
(* and the consoles agree on what exists, the focus is on a live window    *)
(* or on one that cmd_start is opening, and the cursor is where the focus  *)
(* was given.  The last window may be closed and its sheet used again;     *)
(* what Exposed names does not happen here.                                *)
(***************************************************************************)
EXTENDS Session, KernelLemmas

-----------------------------------------------------------------------------
(* Queues of consoles. *)

Switches == {"on", "off"}
Data == Switches \cup {"close", "line"}

HasClose(q) == \E i \in DOMAIN q : q[i] = "close"
OneClose(q) == \A i, j \in DOMAIN q : q[i] = "close" /\ q[j] = "close" => i = j
OnlySwitches(q) == \A i \in DOMAIN q : q[i] \in Switches

\* What the cursor will be that is c now.
EndsOn(q, c) == \/ c /\ \A i \in DOMAIN q : q[i] # "off"
                \/ \E i \in DOMAIN q : q[i] = "on" /\ \A j \in DOMAIN q : i < j => q[j] # "off"

\* An empty queue.
LEMMA EmptyQueue ==
  ASSUME NEW c \in BOOLEAN
  PROVE  /\ <<>> \in Seq(Data) /\ ~HasClose(<<>>) /\ OneClose(<<>>) /\ OnlySwitches(<<>>)
         /\ EndsOn(<<>>, c) <=> c
  BY DEF HasClose, OneClose, OnlySwitches, EndsOn

\* A datum at the end of a queue.
LEMMA AppendQueue ==
  ASSUME NEW q \in Seq(Data), NEW d \in Data
  PROVE  /\ Append(q, d) \in Seq(Data) /\ Append(q, d) # <<>>
         /\ HasClose(Append(q, d)) <=> HasClose(q) \/ d = "close"
         /\ OneClose(q) /\ (d = "close" => ~HasClose(q)) => OneClose(Append(q, d))
         /\ OnlySwitches(Append(q, d)) <=> OnlySwitches(q) /\ d \in Switches
         /\ \A c \in BOOLEAN :
              /\ d = "on" => EndsOn(Append(q, d), c)
              /\ d = "off" => ~EndsOn(Append(q, d), c)
              /\ d \notin Switches => (EndsOn(Append(q, d), c) <=> EndsOn(q, c))
<1> DEFINE r == Append(q, d)
           n == Len(q)
<1>1. /\ n \in Nat /\ DOMAIN q = 1 .. n /\ DOMAIN r = 1 .. n + 1 /\ r \in Seq(Data)
      /\ r # <<>> /\ r[n + 1] = d /\ \A i \in 1 .. n : r[i] = q[i]
  OBVIOUS
<1>2. \A i : i \in 1 .. n + 1 <=> i \in 1 .. n \/ i = n + 1
  BY <1>1
<1>3. \A i \in 1 .. n : i < n + 1 /\ ~(n + 1 < i) /\ i # n + 1
  BY <1>1
<1> HIDE DEF r, n
<1>4. HasClose(r) <=> HasClose(q) \/ d = "close"
  BY <1>1, <1>2 DEF HasClose
<1>5. OneClose(q) /\ (d = "close" => ~HasClose(q)) => OneClose(r)
  BY <1>1, <1>2, <1>3 DEF HasClose, OneClose
<1>6. OnlySwitches(r) <=> OnlySwitches(q) /\ d \in Switches
  BY <1>1, <1>2 DEF OnlySwitches
<1>7. ASSUME NEW c \in BOOLEAN, d = "on" PROVE EndsOn(r, c)
  <2>1. n + 1 \in DOMAIN r /\ r[n + 1] = "on" /\ \A j \in DOMAIN r : ~(n + 1 < j)
    BY <1>1, <1>2, <1>3, <1>7
  <2> QED BY <2>1 DEF EndsOn
<1>8. ASSUME NEW c \in BOOLEAN, d = "off" PROVE ~EndsOn(r, c)
  <2>1. n + 1 \in DOMAIN r /\ r[n + 1] = "off" /\ \A i \in DOMAIN r : r[i] = "on" => i < n + 1
    BY <1>1, <1>2, <1>3, <1>8
  <2> QED BY <2>1 DEF EndsOn
<1>9. ASSUME NEW c \in BOOLEAN, d \notin Switches PROVE EndsOn(r, c) <=> EndsOn(q, c)
  <2>1. d # "on" /\ d # "off"
    BY <1>9 DEF Switches
  <2>2. \A i \in DOMAIN r : (i \in DOMAIN q /\ r[i] = q[i]) \/ (r[i] # "on" /\ r[i] # "off")
    BY <1>1, <1>2, <2>1
  <2>3. \A i \in DOMAIN q : i \in DOMAIN r /\ r[i] = q[i]
    BY <1>1, <1>2
  <2> QED BY <2>2, <2>3 DEF EndsOn
<1> QED BY <1>1, <1>4, <1>5, <1>6, <1>7, <1>8, <1>9 DEF r

\* A queue without its head.
LEMMA TailQueue ==
  ASSUME NEW q \in Seq(Data), q # <<>>
  PROVE  /\ Tail(q) \in Seq(Data) /\ Head(q) \in Data
         /\ HasClose(Tail(q)) => HasClose(q)
         /\ Head(q) = "close" => HasClose(q)
         /\ OneClose(q) => OneClose(Tail(q)) /\ (Head(q) = "close" => ~HasClose(Tail(q)))
         /\ OnlySwitches(q) => OnlySwitches(Tail(q)) /\ Head(q) \in Switches
         /\ \A c \in BOOLEAN :
              /\ Head(q) \in Switches => (EndsOn(Tail(q), Head(q) = "on") <=> EndsOn(q, c))
              /\ Head(q) \notin Switches => (EndsOn(Tail(q), c) <=> EndsOn(q, c))
<1> DEFINE r == Tail(q)
           h == Head(q)
           n == Len(q)
<1>1. /\ n \in Nat \ {0} /\ DOMAIN q = 1 .. n /\ DOMAIN r = 1 .. n - 1
      /\ r \in Seq(Data) /\ h \in Data /\ q[1] = h
      /\ \A i \in 1 .. n - 1 : r[i] = q[i + 1]
  BY EmptySeq, HeadTailProperties
<1>2. \A i \in 1 .. n - 1 : i + 1 \in 1 .. n /\ i + 1 # 1 /\ 1 < i + 1
  BY <1>1
<1>3. \A i \in 1 .. n : i # 1 => \E k \in 1 .. n - 1 : i = k + 1
  <2> SUFFICES ASSUME NEW i \in 1 .. n, i # 1 PROVE \E k \in 1 .. n - 1 : i = k + 1
    OBVIOUS
  <2>1. i - 1 \in 1 .. n - 1 /\ i = (i - 1) + 1
    BY <1>1
  <2> QED BY <2>1
<1>4. \A i, j \in 1 .. n - 1 : (i + 1 = j + 1 => i = j) /\ (i < j <=> i + 1 < j + 1)
  BY <1>1
<1>5. 1 \in 1 .. n /\ \A i \in 1 .. n : ~(i < 1)
  BY <1>1
<1> HIDE DEF r, h, n
<1>6. (HasClose(r) => HasClose(q)) /\ (h = "close" => HasClose(q))
  BY <1>1, <1>2, <1>5 DEF HasClose
<1>7. OneClose(q) => OneClose(r) /\ (h = "close" => ~HasClose(r))
  <2>1. OneClose(q) => OneClose(r)
    <3> SUFFICES ASSUME OneClose(q), NEW i \in 1 .. n - 1, NEW j \in 1 .. n - 1,
                        r[i] = "close", r[j] = "close"
                 PROVE  i = j
      BY <1>1 DEF OneClose
    <3>1. q[i + 1] = "close" /\ q[j + 1] = "close" /\ i + 1 \in DOMAIN q /\ j + 1 \in DOMAIN q
      BY <1>1, <1>2
    <3>2. i + 1 = j + 1
      BY <3>1 DEF OneClose
    <3> QED BY <3>2, <1>4
  <2>2. ASSUME OneClose(q), h = "close", NEW i \in 1 .. n - 1, r[i] = "close" PROVE FALSE
    <3>1. q[i + 1] = "close" /\ i + 1 \in DOMAIN q /\ i + 1 # 1 /\ q[1] = "close" /\ 1 \in DOMAIN q
      BY <2>2, <1>1, <1>2, <1>5
    <3> QED BY <3>1, <2>2 DEF OneClose
  <2> QED BY <2>1, <2>2, <1>1 DEF HasClose
<1>8. OnlySwitches(q) => OnlySwitches(r) /\ h \in Switches
  BY <1>1, <1>2, <1>5 DEF OnlySwitches
<1>9. ASSUME NEW b \in BOOLEAN, NEW c \in BOOLEAN, (h = "on" /\ b) \/ (h = "off" /\ ~b) \/ (h \notin Switches /\ (b <=> c))
      PROVE  EndsOn(r, b) <=> EndsOn(q, c)
  <2>1. ASSUME EndsOn(r, b) PROVE EndsOn(q, c)
    <3>1. CASE b /\ \A i \in DOMAIN r : r[i] # "off"
      <4>1. \A i \in DOMAIN q : i # 1 => q[i] # "off"
        <5> SUFFICES ASSUME NEW i \in DOMAIN q, i # 1 PROVE q[i] # "off"
          OBVIOUS
        <5>1. PICK k \in 1 .. n - 1 : i = k + 1
          BY <1>1, <1>3
        <5> QED BY <5>1, <1>1, <3>1
      <4>2. CASE h = "on"
        <5>1. 1 \in DOMAIN q /\ q[1] = "on" /\ \A j \in DOMAIN q : 1 < j => q[j] # "off"
          BY <1>1, <1>5, <4>1, <4>2
        <5> QED BY <5>1 DEF EndsOn
      <4>3. CASE h \notin Switches /\ c
        <5>1. \A i \in DOMAIN q : q[i] # "off"
          BY <1>1, <4>1, <4>3 DEF Switches
        <5> QED BY <5>1, <4>3 DEF EndsOn
      <4> QED BY <4>2, <4>3, <3>1, <1>9
    <3>2. CASE \E i \in DOMAIN r : r[i] = "on" /\ \A j \in DOMAIN r : i < j => r[j] # "off"
      <4>1. PICK i \in DOMAIN r : r[i] = "on" /\ \A j \in DOMAIN r : i < j => r[j] # "off"
        BY <3>2
      <4>2. i + 1 \in DOMAIN q /\ q[i + 1] = "on"
        BY <1>1, <1>2, <4>1
      <4>3. \A j \in DOMAIN q : i + 1 < j => q[j] # "off"
        <5> SUFFICES ASSUME NEW j \in DOMAIN q, i + 1 < j PROVE q[j] # "off"
          OBVIOUS
        <5>1. PICK k \in 1 .. n - 1 : j = k + 1
          BY <1>1, <1>3, <1>5, <4>2
        <5> QED BY <5>1, <4>1, <1>1, <1>4
      <4> QED BY <4>2, <4>3 DEF EndsOn
    <3> QED BY <2>1, <3>1, <3>2 DEF EndsOn
  <2>2. ASSUME EndsOn(q, c) PROVE EndsOn(r, b)
    <3>1. CASE c /\ \A i \in DOMAIN q : q[i] # "off"
      <4>1. \A i \in DOMAIN r : r[i] # "off"
        BY <1>1, <1>2, <3>1
      <4>2. h # "off"
        BY <1>1, <1>5, <3>1
      <4> QED BY <4>1, <4>2, <3>1, <1>9 DEF EndsOn, Switches
    <3>2. CASE \E i \in DOMAIN q : q[i] = "on" /\ \A j \in DOMAIN q : i < j => q[j] # "off"
      <4>1. PICK i \in DOMAIN q : q[i] = "on" /\ \A j \in DOMAIN q : i < j => q[j] # "off"
        BY <3>2
      <4>2. CASE i = 1
        <5>1. b
          BY <1>1, <1>9, <4>1, <4>2 DEF Switches
        <5>2. \A j \in DOMAIN r : r[j] # "off"
          BY <1>1, <1>2, <4>1, <4>2
        <5> QED BY <5>1, <5>2 DEF EndsOn
      <4>3. CASE i # 1
        <5>1. PICK k \in 1 .. n - 1 : i = k + 1
          BY <1>1, <1>3, <4>3
        <5>2. k \in DOMAIN r /\ r[k] = "on" /\ \A j \in DOMAIN r : k < j => r[j] # "off"
          BY <1>1, <1>2, <1>4, <4>1, <5>1
        <5> QED BY <5>2 DEF EndsOn
      <4> QED BY <4>2, <4>3
    <3> QED BY <2>2, <3>1, <3>2 DEF EndsOn
  <2> QED BY <2>1, <2>2
<1>10. ASSUME NEW c \in BOOLEAN, h \in Switches
       PROVE  EndsOn(r, h = "on") <=> EndsOn(q, c)
  BY <1>9, <1>10 DEF Switches
<1>11. ASSUME NEW c \in BOOLEAN, h \notin Switches
       PROVE  EndsOn(r, c) <=> EndsOn(q, c)
  BY <1>9, <1>11
<1>12. r \in Seq(Data) /\ h \in Data
  BY <1>1
<1> QED BY <1>6, <1>7, <1>8, <1>10, <1>11, <1>12 DEF r, h

-----------------------------------------------------------------------------
(* The stack of windows and HariMain's queue hold nothing twice. *)

\* One more at the end.
LEMMA AppendRange ==
  ASSUME NEW S, NEW s \in Seq(S), NEW x \in S
  PROVE  /\ Append(s, x) \in Seq(S)
         /\ Range(Append(s, x)) = Range(s) \cup {x}
         /\ IsInjective(s) /\ x \notin Range(s) => IsInjective(Append(s, x))
<1> DEFINE r == Append(s, x)
           n == Len(s)
<1>1. /\ n \in Nat /\ DOMAIN s = 1 .. n /\ DOMAIN r = 1 .. n + 1 /\ r \in Seq(S)
      /\ r[n + 1] = x /\ \A i \in 1 .. n : r[i] = s[i]
  OBVIOUS
<1>2. \A i : i \in 1 .. n + 1 <=> i \in 1 .. n \/ i = n + 1
  BY <1>1
<1> HIDE DEF r, n
<1>3. Range(r) = Range(s) \cup {x}
  BY <1>1, <1>2 DEF Range
<1>4. ASSUME IsInjective(s), x \notin Range(s) PROVE IsInjective(r)
  <2>1. \A i \in 1 .. n : r[i] # x
    BY <1>1, <1>4 DEF Range
  <2> QED BY <1>1, <1>2, <1>4, <2>1 DEF IsInjective
<1> QED BY <1>1, <1>3, <1>4 DEF r

\* One is taken out.
LEMMA RemoveRange ==
  ASSUME NEW S, NEW s \in Seq(S), IsInjective(s), NEW k \in 1 .. Len(s)
  PROVE  /\ RemoveAt(s, k) \in Seq(S) /\ IsInjective(RemoveAt(s, k))
         /\ Range(RemoveAt(s, k)) = Range(s) \ {s[k]}
<1> DEFINE r == RemoveAt(s, k)
           n == Len(s)
<1>1. /\ r \in Seq(S) /\ Len(r) = n - 1
      /\ \A j \in 1 .. n - 1 : r[j] = IF j < k THEN s[j] ELSE s[j + 1]
  BY RemoveAtFacts
<1>2. n \in Nat /\ DOMAIN s = 1 .. n /\ DOMAIN r = 1 .. n - 1 /\ k \in 1 .. n
  BY <1>1, LenProperties
<1> HIDE DEF r, n
<1>3. \A j \in 1 .. n - 1 : j \in 1 .. n /\ j + 1 \in 1 .. n
  BY <1>2
<1>4. \A j \in 1 .. n - 1 : \E i \in 1 .. n : i # k /\ r[j] = s[i]
  <2> SUFFICES ASSUME NEW j \in 1 .. n - 1 PROVE \E i \in 1 .. n : i # k /\ r[j] = s[i]
    OBVIOUS
  <2>1. CASE j < k
    <3>1. r[j] = s[j] /\ j # k /\ j \in 1 .. n
      BY <1>1, <1>2, <1>3, <2>1
    <3> QED BY <3>1
  <2>2. CASE ~(j < k)
    <3>1. r[j] = s[j + 1] /\ j + 1 # k /\ j + 1 \in 1 .. n
      BY <1>1, <1>2, <1>3, <2>2
    <3> QED BY <3>1
  <2> QED BY <2>1, <2>2
<1>5. \A i \in 1 .. n : i # k => \E j \in 1 .. n - 1 : r[j] = s[i]
  <2> SUFFICES ASSUME NEW i \in 1 .. n, i # k PROVE \E j \in 1 .. n - 1 : r[j] = s[i]
    OBVIOUS
  <2>1. CASE i < k
    <3>1. i \in 1 .. n - 1 /\ r[i] = s[i]
      BY <1>1, <1>2, <2>1
    <3> QED BY <3>1
  <2>2. CASE i > k
    <3>1. i - 1 \in 1 .. n - 1 /\ ~(i - 1 < k) /\ (i - 1) + 1 = i
      BY <1>2, <2>2
    <3>2. r[i - 1] = s[i]
      BY <1>1, <3>1
    <3> QED BY <3>1, <3>2
  <2> QED BY <2>1, <2>2, <1>2
<1>6. \A i \in 1 .. n : s[i] = s[k] => i = k
  BY <1>2 DEF IsInjective
<1>7. Range(r) = Range(s) \ {s[k]}
  <2>1. ASSUME NEW x \in Range(r) PROVE x \in Range(s) \ {s[k]}
    <3>1. PICK j \in 1 .. n - 1 : x = r[j]
      BY <2>1, <1>2 DEF Range
    <3>2. PICK i \in 1 .. n : i # k /\ x = s[i]
      BY <3>1, <1>4
    <3> QED BY <3>2, <1>2, <1>6 DEF Range
  <2>2. ASSUME NEW x \in Range(s), x # s[k] PROVE x \in Range(r)
    <3>1. PICK i \in 1 .. n : x = s[i]
      BY <2>2, <1>2 DEF Range
    <3>2. PICK j \in 1 .. n - 1 : x = r[j]
      BY <3>1, <2>2, <1>5
    <3> QED BY <3>2, <1>2 DEF Range
  <2> QED BY <2>1, <2>2
<1>8. IsInjective(r)
  <2> SUFFICES ASSUME NEW i \in 1 .. n - 1, NEW j \in 1 .. n - 1, r[i] = r[j] PROVE i = j
    BY <1>2 DEF IsInjective
  <2> DEFINE f(x) == IF x < k THEN x ELSE x + 1
  <2>1. r[i] = s[f(i)] /\ r[j] = s[f(j)]
    BY <1>1
  <2>2. f(i) \in 1 .. n /\ f(j) \in 1 .. n
    BY <1>3
  <2>3. f(i) = f(j)
    <3> HIDE DEF f
    <3> QED BY <2>1, <2>2, <1>2 DEF IsInjective
  <2> QED BY <2>3, <1>2
<1> QED BY <1>1, <1>7, <1>8 DEF r

\* The first is taken.
LEMMA TailRange ==
  ASSUME NEW S, NEW s \in Seq(S), s # <<>>, IsInjective(s)
  PROVE  /\ Head(s) \in S /\ Tail(s) \in Seq(S) /\ IsInjective(Tail(s))
         /\ Head(s) \in Range(s) /\ Range(Tail(s)) = Range(s) \ {Head(s)}
<1> DEFINE r == Tail(s)
           h == Head(s)
           n == Len(s)
<1>1. /\ n \in Nat \ {0} /\ DOMAIN s = 1 .. n /\ DOMAIN r = 1 .. n - 1
      /\ r \in Seq(S) /\ h \in S /\ s[1] = h
      /\ \A i \in 1 .. n - 1 : r[i] = s[i + 1]
  BY EmptySeq, HeadTailProperties
<1>2. \A i \in 1 .. n - 1 : i + 1 \in 1 .. n /\ i + 1 # 1
  BY <1>1
<1>3. \A i \in 1 .. n : i # 1 => \E k \in 1 .. n - 1 : i = k + 1
  <2> SUFFICES ASSUME NEW i \in 1 .. n, i # 1 PROVE \E k \in 1 .. n - 1 : i = k + 1
    OBVIOUS
  <2>1. i - 1 \in 1 .. n - 1 /\ i = (i - 1) + 1
    BY <1>1
  <2> QED BY <2>1
<1>4. \A i, j \in 1 .. n - 1 : i + 1 = j + 1 => i = j
  BY <1>1
<1>5. 1 \in 1 .. n
  BY <1>1
<1> HIDE DEF r, h, n
<1>6. IsInjective(r)
  BY <1>1, <1>2, <1>4 DEF IsInjective
<1>7. h \in Range(s)
  BY <1>1, <1>5 DEF Range
<1>8. \A i \in 1 .. n : s[i] = h => i = 1
  BY <1>1, <1>5 DEF IsInjective
<1>9. ASSUME NEW x \in Range(r) PROVE x \in Range(s) \ {h}
  <2>1. PICK i \in 1 .. n - 1 : x = r[i]
    BY <1>1, <1>9 DEF Range
  <2>2. x = s[i + 1] /\ i + 1 \in 1 .. n /\ i + 1 # 1
    BY <2>1, <1>1, <1>2
  <2>3. s[i + 1] # h
    BY <2>2, <1>8
  <2> QED BY <2>2, <2>3, <1>1 DEF Range
<1>10. ASSUME NEW x \in Range(s), x # h PROVE x \in Range(r)
  <2>1. PICK i \in 1 .. n : x = s[i]
    BY <1>1, <1>10 DEF Range
  <2>2. PICK k \in 1 .. n - 1 : i = k + 1
    BY <2>1, <1>1, <1>3, <1>10
  <2> QED BY <2>1, <2>2, <1>1 DEF Range
<1>11. Range(r) = Range(s) \ {h}
  BY <1>9, <1>10
<1> QED BY <1>1, <1>6, <1>7, <1>11 DEF r, h

-----------------------------------------------------------------------------
(* The inductive invariant, in parts. *)

Shown == Range(order)   \* the windows on the screen
Sent == Range(mail)     \* the messages HariMain has not read yet

\* The places of a task that opens a console with cmd_start.
Opening == {"start", "show", "type"}

\* A message names a task or a window, as its code says.
Messages == [code : {"task"}, of : Slots] \cup [code : {"console", "window"}, of : Windows]

Types == TypeOK /\ mail \in Seq(Messages)

\* The window of a console is its own.
Sheets == \A t \in Slots :
    sht[t] # None => pc[t] # "free" /\ kind[sht[t]] = "console" /\ owner[sht[t]] = t

\* A console is told once that its window was closed, and that window is not on
\* the screen any more; nobody writes to a task that is gone.
Boxes == \A t \in Slots :
    /\ pc[t] = "free" => inbox[t] = <<>>
    /\ OneClose(inbox[t])
    /\ pc[t] = "hiding" => ~HasClose(inbox[t])
    /\ HasClose(inbox[t]) \/ pc[t] = "hiding" => sht[t] # None /\ sht[t] \notin Shown

\* The window whose console is to have the cursor: that with the focus, unless
\* cmd_start was given its sheet before HariMain noticed that it was closed.
Lit == IF reused THEN None ELSE key_win

\* The cursor will be there.
Cursors == \A t \in Slots :
    sht[t] # None => (EndsOn(inbox[t], cursor[t]) <=> sht[t] = Lit)

\* What the messages to HariMain say is so, and each is sent once.
Letters == /\ IsInjective(mail)
           /\ \A t \in Slots :
                Message("task", t) \in Sent <=> pc[t] = "ended" /\ sht[t] = None
           /\ \A w \in Windows :
                /\ Message("console", w) \in Sent <=>
                     \E t \in Slots : pc[t] = "ended" /\ sht[t] = w
                /\ Message("window", w) \in Sent <=>
                     kind[w] = "console" /\ \A t \in Slots : sht[t] # w

\* The window that cmd_start is opening is its own until it is on the screen,
\* and its console waits for the line until it was typed.
Children ==
    /\ \A t \in Slots :
         /\ pc[t] \in Opening => child[t] \in Windows
         /\ pc[t] = "start" => kind[child[t]] = "raw" /\ owner[child[t]] = None
         /\ pc[t] \in {"show", "type"} =>
              /\ owner[child[t]] \in Slots
              /\ sht[owner[child[t]]] = child[t] /\ pc[owner[child[t]]] = "loop"
              /\ OnlySwitches(inbox[owner[child[t]]])
         /\ pc[t] = "show" => child[t] \notin Shown
    /\ \A t, u \in Slots : pc[t] \in Opening /\ pc[u] \in Opening /\ child[t] = child[u] => t = u
    /\ \A w \in Windows : kind[w] = "raw" => \E t \in Slots : pc[t] = "start" /\ child[t] = w

\* What is on the screen is in use.
Stack == /\ IsInjective(order)
         /\ \A w \in Shown :
              \/ kind[w] = "app"
              \/ kind[w] = "console" /\ owner[w] \in Slots /\ sht[owner[w]] = w

\* A window that cmd_start is opening and has not shown yet.
Being(w) == \E t \in Slots : pc[t] \in {"start", "show"} /\ child[t] = w

\* The window with the focus is on the screen, or was freed and nobody noticed yet,
\* or was taken by cmd_start since then.
Aimed == key_win \in Windows =>
    kind[key_win] = "free" \/ key_win \in Shown \/ (reused /\ Being(key_win))

\* The windows of an application have a task that will free them.
Apps == \A w \in Windows :
    kind[w] = "app" => owner[w] \in Slots /\ pc[owner[w]] \in InApp \cup {"cleanup"}

\* There is a task for each console that cmd_start is about to start.
Starters == {t \in Slots : pc[t] = "start"}
Room == Cardinality(Starters) <= Cardinality(FreeSlots)

IInv == /\ Types /\ Sheets /\ Boxes /\ Cursors /\ Letters
        /\ Children /\ Stack /\ Aimed /\ Apps /\ Room

-----------------------------------------------------------------------------
(* HariMain tells the consoles. *)

\* The types one by one, with what 0 and -1 are not.
LEMMA TypeFacts ==
  ASSUME Types
  PROVE  /\ kind \in [Windows -> {"free", "raw", "console", "app"}]
         /\ owner \in [Windows -> Slots \cup {None}]
         /\ order \in Seq(Windows) /\ Shown \subseteq Windows
         /\ key_win \in Windows \cup {None, Back} /\ reused \in BOOLEAN
         /\ mail \in Seq(Messages)
         /\ pc \in [Slots -> Places]
         /\ sht \in [Slots -> Windows \cup {None}]
         /\ inbox \in [Slots -> Seq(Data)]
         /\ cursor \in [Slots -> BOOLEAN]
         /\ child \in [Slots -> Windows \cup {None}]
         /\ None \notin Windows /\ Back \notin Windows /\ None # Back /\ None \notin Slots
<1>1. order \in Seq(Windows) => Range(order) \subseteq Windows
  BY LenProperties DEF Range
<1>2. None \notin Windows /\ Back \notin Windows /\ None # Back /\ None \notin Slots
  BY DEF None, Back, Windows, Slots
<1>3. {"on", "off", "close", "line"} = Data
  BY DEF Data, Switches
<1> QED BY <1>1, <1>2, <1>3 DEF Types, TypeOK, Shown

\* The new queue q of a console differs from r in switches at the end at most.
Alike(r, q) == /\ HasClose(q) <=> HasClose(r)
               /\ OneClose(r) => OneClose(q)
               /\ OnlySwitches(r) => OnlySwitches(q)

\* Only consoles with a window were told something, and that are switches.
Switched(Q) == /\ Q \in [Slots -> Seq(Data)]
               /\ \A t \in Slots : /\ Alike(inbox[t], Q[t])
                                   /\ sht[t] = None => Q[t] = inbox[t]

\* With the queues Q the cursor will be in the window w.
Follows(Q, w) == \A t \in Slots : sht[t] # None => (EndsOn(Q[t], cursor[t]) <=> sht[t] = w)

\* At most the console of the window w has its cursor on with the queues Q.
OnlyOn(Q, w) == \A t \in Slots : sht[t] # None /\ EndsOn(Q[t], cursor[t]) => sht[t] = w

\* If it is a console's window it is that of its task.
Known(w) == w \in Windows /\ kind[w] = "console" => owner[w] \in Slots /\ sht[owner[w]] = w

\* keywin_on and keywin_off tell the console the window belongs to, if any.
LEMMA NotifyFacts ==
  ASSUME Types, Sheets, NEW Q \in [Slots -> Seq(Data)], NEW w, Known(w),
         NEW d \in Switches
  PROVE  /\ Notify(Q, w, d) \in [Slots -> Seq(Data)]
         /\ \A t \in Slots : Notify(Q, w, d)[t] =
              IF w # None /\ sht[t] = w THEN Append(Q[t], d) ELSE Q[t]
<1> USE TypeFacts
<1>1. d \in Data
  BY DEF Data
<1>2. CASE w \in Windows /\ kind[w] = "console"
  <2>1. owner[w] \in Slots /\ sht[owner[w]] = w
    BY <1>2 DEF Known
  <2>2. \A t \in Slots : sht[t] = w <=> t = owner[w]
    BY <2>1, <1>2 DEF Sheets
  <2>3. Notify(Q, w, d) = [Q EXCEPT ![owner[w]] = Append(Q[owner[w]], d)]
    BY <1>2 DEF Notify, Put
  <2>4. Append(Q[owner[w]], d) \in Seq(Data)
    BY <2>1, <1>1
  <2> QED BY <2>1, <2>2, <2>3, <2>4, <1>2
<1>3. CASE ~(w \in Windows /\ kind[w] = "console")
  <2>1. Notify(Q, w, d) = Q
    BY <1>3 DEF Notify
  <2>2. \A t \in Slots : ~(w # None /\ sht[t] = w)
    BY <1>3 DEF Sheets
  <2> QED BY <2>1, <2>2
<1> QED BY <1>2, <1>3

\* Telling a console that its cursor goes on or off adds nothing else.
LEMMA NotifySwitches ==
  ASSUME Types, Sheets, NEW Q, Switched(Q), NEW w, Known(w), NEW d \in Switches
  PROVE  Switched(Notify(Q, w, d))
<1> DEFINE R == Notify(Q, w, d)
<1>1. Q \in [Slots -> Seq(Data)] /\ d \in Data /\ d # "close"
  BY DEF Switched, Data, Switches
<1>2. /\ R \in [Slots -> Seq(Data)]
      /\ \A t \in Slots : R[t] = IF w # None /\ sht[t] = w THEN Append(Q[t], d) ELSE Q[t]
  BY <1>1, NotifyFacts
<1> HIDE DEF R
<1>3. ASSUME NEW t \in Slots PROVE Alike(inbox[t], R[t]) /\ (sht[t] = None => R[t] = inbox[t])
  <2>1. Alike(inbox[t], Q[t]) /\ (sht[t] = None => Q[t] = inbox[t])
    BY DEF Switched
  <2>2. CASE ~(w # None /\ sht[t] = w)
    BY <1>2, <2>1, <2>2
  <2>3. CASE w # None /\ sht[t] = w
    <3>1. /\ HasClose(R[t]) <=> HasClose(Q[t])
          /\ OneClose(Q[t]) => OneClose(R[t])
          /\ OnlySwitches(Q[t]) => OnlySwitches(R[t])
      <4>1. Q[t] \in Seq(Data) /\ R[t] = Append(Q[t], d)
        BY <1>1, <1>2, <2>3
      <4> QED BY <4>1, <1>1, AppendQueue
    <3> QED BY <3>1, <2>1, <2>3 DEF Alike
  <2> QED BY <2>2, <2>3, <1>2
<1>4. Switched(R)
  BY <1>2, <1>3 DEF Switched
<1> QED BY <1>4 DEF R

\* keywin_off in the window that may have the cursor, keywin_on in another.
LEMMA OffOnFollows ==
  ASSUME Types, Sheets, NEW Q, Switched(Q),
         NEW v, Known(v), OnlyOn(Q, v), NEW w, Known(w)
  PROVE  /\ Switched(Off(Q, v)) /\ Follows(Off(Q, v), None)
         /\ Switched(On(Off(Q, v), w)) /\ Follows(On(Off(Q, v), w), w)
<1>1. "off" \in Switches /\ "on" \in Switches /\ "off" \in Data /\ "on" \in Data
  BY DEF Switches, Data
<1>2. Switched(Off(Q, v)) /\ Switched(On(Off(Q, v), w))
  <2>1. Switched(Off(Q, v))
    BY <1>1, NotifySwitches DEF Off
  <2> QED BY <2>1, <1>1, NotifySwitches DEF On
<1>3. Q \in [Slots -> Seq(Data)] /\ Off(Q, v) \in [Slots -> Seq(Data)]
  BY <1>2 DEF Switched
<1>4. /\ \A t \in Slots : Off(Q, v)[t] =
           IF v # None /\ sht[t] = v THEN Append(Q[t], "off") ELSE Q[t]
      /\ \A t \in Slots : On(Off(Q, v), w)[t] =
           IF w # None /\ sht[t] = w THEN Append(Off(Q, v)[t], "on") ELSE Off(Q, v)[t]
  <2>1. ASSUME NEW R \in [Slots -> Seq(Data)]
        PROVE  \A t \in Slots : Notify(R, v, "off")[t] =
                 IF v # None /\ sht[t] = v THEN Append(R[t], "off") ELSE R[t]
    BY <1>1, NotifyFacts
  <2>2. ASSUME NEW R \in [Slots -> Seq(Data)]
        PROVE  \A t \in Slots : Notify(R, w, "on")[t] =
                 IF w # None /\ sht[t] = w THEN Append(R[t], "on") ELSE R[t]
    BY <1>1, NotifyFacts
  <2> QED BY <2>1, <2>2, <1>3 DEF Off, On
<1> DEFINE R == Off(Q, v)
           U == On(R, w)
<1> HIDE DEF R, U
<1>5. ASSUME NEW t \in Slots, sht[t] # None PROVE ~EndsOn(R[t], cursor[t])
  <2>1. cursor[t] \in BOOLEAN /\ Q[t] \in Seq(Data)
    BY <1>3, TypeFacts
  <2>2. CASE sht[t] = v
    <3>1. R[t] = Append(Q[t], "off")
      BY <1>4, <1>5, <2>2 DEF R
    <3> QED BY <3>1, <2>1, <1>1, AppendQueue
  <2>3. CASE sht[t] # v
    BY <1>4, <1>5, <2>3 DEF OnlyOn, R
  <2> QED BY <2>2, <2>3
<1>6. ASSUME NEW t \in Slots, sht[t] # None
      PROVE  EndsOn(U[t], cursor[t]) <=> sht[t] = w
  <2>1. cursor[t] \in BOOLEAN /\ R[t] \in Seq(Data)
    BY <1>3, TypeFacts DEF R
  <2>2. CASE sht[t] = w
    <3>1. U[t] = Append(R[t], "on")
      BY <1>4, <1>6, <2>2 DEF R, U
    <3> QED BY <3>1, <2>1, <2>2, <1>1, AppendQueue
  <2>3. CASE sht[t] # w
    <3>1. U[t] = R[t]
      BY <1>4, <2>3 DEF R, U
    <3> QED BY <3>1, <1>5, <1>6, <2>3
  <2> QED BY <2>2, <2>3
<1>7. Follows(R, None)
  BY <1>5 DEF Follows
<1>8. Follows(U, w)
  BY <1>6 DEF Follows
<1> QED BY <1>2, <1>7, <1>8 DEF R, U

-----------------------------------------------------------------------------
(* The focus. *)

\* HariMain may tell a window on the screen, one that is being opened, or none.
LEMMA KnownFacts ==
  ASSUME IInv
  PROVE  /\ \A w \in Shown : Known(w)
         /\ \A w : Being(w) => Known(w)
         /\ Known(None) /\ Known(Back)
<1>1. Types /\ Stack /\ Children
  BY DEF IInv
<1>2. ASSUME NEW w \in Shown PROVE Known(w)
  BY <1>1 DEF Stack, Known
<1>3. ASSUME NEW w, Being(w) PROVE Known(w)
  <2>1. PICK t \in Slots : pc[t] \in {"start", "show"} /\ child[t] = w
    BY <1>3 DEF Being
  <2> QED BY <2>1, <1>1 DEF Children, Known
<1>4. Known(None) /\ Known(Back)
  BY <1>1, TypeFacts DEF Known
<1> QED BY <1>2, <1>3, <1>4

\* What HariMain takes for the window with the focus.
LEMMA FocusFacts ==
  ASSUME IInv
  PROVE  /\ Known(Focus) /\ Focus \in Windows \cup {None, Back}
         /\ Focus \in Windows => Focus \in Shown \/ (reused /\ Being(Focus))
         /\ ~Lost => Focus = key_win
         /\ Lost => /\ key_win \in Windows /\ kind[key_win] = "free" /\ Focus # key_win
                    /\ Focus \in Shown \cup {None}
<1> USE TypeFacts
<1>1. Types /\ Stack /\ Aimed
  BY DEF IInv
<1>2. CASE ~Lost
  <2>1. Focus = key_win
    BY <1>2 DEF Focus
  <2>2. Focus \in Windows => Focus \in Shown \/ (reused /\ Being(Focus))
    BY <1>1, <1>2, <2>1 DEF Lost, Aimed
  <2>3. Focus \in Windows \cup {None, Back}
    BY <1>1, <2>1
  <2>4. Known(Focus)
    BY <2>2, <2>3, KnownFacts
  <2> QED BY <1>2, <2>1, <2>2, <2>3, <2>4
<1>3. CASE Lost
  <2>1. Focus \in Shown \cup {None}
    <3>1. CASE order = <<>>
      BY <1>3, <3>1 DEF Focus
    <3>2. CASE order # <<>>
      <4>1. Len(order) \in DOMAIN order
        BY <1>1, <3>2, EmptySeq, LenProperties
      <4>2. Last(order) \in Shown
        BY <4>1 DEF Last, Shown, Range
      <4> QED BY <1>3, <3>2, <4>2 DEF Focus
    <3> QED BY <3>1, <3>2
  <2>2. key_win \in Windows /\ kind[key_win] = "free"
    BY <1>3 DEF Lost
  <2>3. Focus # key_win
    <3>1. \A w \in Shown : kind[w] # "free"
      <4> SUFFICES ASSUME NEW w \in Shown PROVE kind[w] # "free"
        OBVIOUS
      <4>1. kind[w] = "app" \/ kind[w] = "console"
        BY <1>1 DEF Stack
      <4> QED BY <4>1
    <3> QED BY <1>1, <2>1, <2>2, <3>1
  <2>4. Known(Focus)
    BY <2>1, KnownFacts
  <2> QED BY <1>1, <1>3, <2>1, <2>2, <2>3, <2>4
<1> QED BY <1>2, <1>3

\* keywin_on and keywin_off of no window do nothing.
LEMMA NotifyNobody ==
  ASSUME NEW Q, NEW d
  PROVE  Notify(Q, None, d) = Q
  BY DEF Notify, None, Windows

\* The window whose console has the cursor once HariMain has noticed.
Noticed == IF Lost \/ ~reused THEN Focus ELSE None

\* The queues after HariMain has noticed that the window with the focus is gone.
LEMMA QueuesFacts ==
  ASSUME IInv
  PROVE  Switched(Queues) /\ Follows(Queues, Noticed) /\ OnlyOn(Queues, Focus)
<1>1. Types /\ Sheets /\ Cursors
  BY DEF IInv
<1>2. Switched(inbox)
  BY <1>1, TypeFacts DEF Switched, Alike
<1>3. CASE ~Lost
  <2>1. Queues = inbox /\ Noticed = Lit
    BY <1>3, FocusFacts DEF Queues, Noticed, Lit
  <2> QED BY <1>1, <1>2, <2>1 DEF Follows, Cursors, OnlyOn, Noticed
<1>4. CASE Lost
  <2>1. OnlyOn(inbox, None)
    <3>1. key_win \in Windows /\ kind[key_win] = "free"
      BY <1>4 DEF Lost
    <3>2. \A t \in Slots : sht[t] # None => sht[t] # key_win
      BY <1>1, <3>1 DEF Sheets
    <3> QED BY <1>1, <3>2 DEF OnlyOn, Cursors, Lit
  <2>2. Known(None) /\ Known(Focus)
    BY FocusFacts, KnownFacts
  <2>3. Switched(On(Off(inbox, None), Focus)) /\ Follows(On(Off(inbox, None), Focus), Focus)
    BY <1>1, <1>2, <2>1, <2>2, OffOnFollows
  <2>4. Off(inbox, None) = inbox
    BY NotifyNobody DEF Off
  <2>5. Switched(Queues) /\ Follows(Queues, Focus) /\ Noticed = Focus
    BY <2>3, <2>4, <1>4 DEF Queues, Noticed
  <2> QED BY <2>5 DEF Follows, OnlyOn
<1> QED BY <1>3, <1>4

\* The queues after the focus went to another window.
LEMMA RefocusedFacts ==
  ASSUME IInv, NEW w, Known(w)
  PROVE  /\ Switched(Refocused(w)) /\ OnlyOn(Refocused(w), w)
         /\ Follows(Refocused(w), IF w = Focus THEN Noticed ELSE w)
         /\ Switched(On(Off(Queues, Focus), w)) /\ Follows(On(Off(Queues, Focus), w), w)
         /\ Switched(Off(Queues, Focus)) /\ Follows(Off(Queues, Focus), None)
<1>1. Types /\ Sheets /\ Known(Focus)
  BY FocusFacts DEF IInv
<1>2. Switched(Queues) /\ Follows(Queues, Noticed) /\ OnlyOn(Queues, Focus)
  BY QueuesFacts
<1>3. /\ Switched(On(Off(Queues, Focus), w)) /\ Follows(On(Off(Queues, Focus), w), w)
      /\ Switched(Off(Queues, Focus)) /\ Follows(Off(Queues, Focus), None)
  BY <1>1, <1>2, OffOnFollows
<1>4. OnlyOn(On(Off(Queues, Focus), w), w)
  BY <1>3 DEF Follows, OnlyOn
<1> QED BY <1>2, <1>3, <1>4 DEF Refocused

\* What may have the focus after a handler of HariMain.
Target(w, r) == /\ w \in Windows \cup {None, Back} /\ r \in BOOLEAN
                /\ w \in Windows => w \in Shown \/ (r /\ Being(w))

\* A handler leaves the focus where it is once HariMain has noticed, or gives it
\* to a window on the screen.
LEMMA StaysFacts ==
  ASSUME IInv, FocusStays
  PROVE  /\ key_win' = Focus => Target(key_win', reused') /\ Follows(Queues, Lit')
         /\ key_win' \in Shown =>
              Target(key_win', reused') /\ Follows(Refocused(key_win'), Lit')
<1>1. /\ reused' = (reused /\ key_win' = key_win) /\ reused \in BOOLEAN
      /\ Shown \subseteq Windows /\ None \notin Windows
  BY TypeFacts DEF FocusStays, IInv
<1>2. CASE key_win' = Focus
  <2>1. Focus \in Windows => Focus \in Shown \/ (reused' /\ Being(Focus))
    BY <1>1, <1>2, FocusFacts
  <2>2. Lit' = Noticed
    BY <1>1, <1>2, FocusFacts DEF Lit, Noticed
  <2>3. Target(key_win', reused')
    BY <1>1, <1>2, <2>1, FocusFacts DEF Target
  <2>4. Follows(Queues, Lit')
    BY <2>2, QueuesFacts
  <2> QED BY <2>3, <2>4, <1>2 DEF Refocused
<1>3. CASE key_win' \in Shown /\ key_win' # Focus
  <2>1. kind[key_win'] # "free"
    <3>1. kind[key_win'] = "app" \/ kind[key_win'] = "console"
      BY <1>3 DEF IInv, Stack
    <3> QED BY <3>1
  <2>2. ~reused'
    BY <1>1, <1>3, <2>1, FocusFacts
  <2>3. Lit' = key_win'
    BY <2>2 DEF Lit
  <2> DEFINE w == key_win'
  <2>4. Known(w) /\ w # Focus
    BY <1>3, KnownFacts
  <2>5. Follows(Refocused(w), w)
    <3> HIDE DEF w
    <3> QED BY <2>4, RefocusedFacts
  <2>6. Target(key_win', reused')
    BY <1>1, <1>3, <2>2 DEF Target
  <2> QED BY <2>3, <2>5, <2>6, <1>3
<1> QED BY <1>2, <1>3

\* The task of a window on the screen exists, and is not one that cmd_start
\* still types into, unless the window is the one it opens.
LEMMA ShownFacts ==
  ASSUME IInv, NEW w \in Shown
  PROVE  /\ w \in Windows /\ owner[w] \in Slots /\ pc[owner[w]] # "free"
         /\ kind[w] = "console" => sht[owner[w]] = w
         /\ \A t \in Slots : pc[t] \in {"show", "type"} /\ owner[child[t]] = owner[w] =>
                               pc[t] = "type" /\ child[t] = w
<1>1. Types /\ Stack /\ Apps /\ Sheets /\ Children
  BY DEF IInv
<1>2. w \in Windows /\ (kind[w] = "app" \/ (kind[w] = "console" /\ owner[w] \in Slots /\ sht[owner[w]] = w))
  BY <1>1, TypeFacts DEF Stack
<1>3. owner[w] \in Slots /\ pc[owner[w]] # "free" /\ (kind[w] = "app" => pc[owner[w]] # "loop")
  <2>1. CASE kind[w] = "app"
    BY <1>1, <1>2, <2>1 DEF Apps, InApp
  <2>2. CASE kind[w] # "app"
    <3>1. owner[w] \in Slots /\ sht[owner[w]] = w /\ w # None
      BY <1>1, <1>2, <2>2, TypeFacts
    <3> QED BY <3>1, <1>1, <2>2 DEF Sheets
  <2> QED BY <2>1, <2>2
<1>4. ASSUME NEW t \in Slots, pc[t] \in {"show", "type"}, owner[child[t]] = owner[w]
      PROVE  pc[t] = "type" /\ child[t] = w
  <2>1. sht[owner[w]] = child[t] /\ pc[owner[w]] = "loop"
    BY <1>1, <1>4 DEF Children
  <2>2. child[t] = w
    BY <2>1, <1>2, <1>3
  <2> QED BY <2>2, <1>1, <1>4 DEF Children
<1> QED BY <1>2, <1>3, <1>4

-----------------------------------------------------------------------------
(* The handlers of HariMain that create and free nothing. *)

\* A line for a task of which cmd_start does not expect that it waits.
Typed(Q, t) == /\ t \in Slots /\ pc[t] # "free" /\ inbox' = Put(Q, t, "line")
               /\ \A u \in Slots : pc[u] \in {"show", "type"} => owner[child[u]] # t

\* They move the focus and with it the cursor, change the order of the windows,
\* put lines into a queue and end applications.
LEMMA HandlerStep ==
  ASSUME IInv, UNCHANGED <<kind, owner, mail, sht, cursor, child>>,
         order' \in Seq(Windows), IsInjective(order'), Shown' = Shown,
         Target(key_win', reused'),
         pc' \in [Slots -> Places],
         \A t \in Slots : pc'[t] = pc[t] \/ (pc[t] = "app" /\ pc'[t] = "cleanup"),
         NEW Q, Switched(Q), Follows(Q, Lit'),
         inbox' = Q \/ \E t \in Slots : Typed(Q, t)
  PROVE  IInv'
<1>1. /\ Types /\ Sheets /\ Boxes /\ Cursors /\ Letters
      /\ Children /\ Stack /\ Aimed /\ Apps /\ Room
  BY DEF IInv
<1>2. /\ kind' = kind /\ owner' = owner /\ mail' = mail /\ sht' = sht /\ cursor' = cursor
      /\ child' = child /\ Sent' = Sent
  BY DEF Sent
<1>3. ASSUME NEW t \in Slots
      PROVE  /\ inbox'[t] \in Seq(Data)
             /\ HasClose(inbox'[t]) <=> HasClose(inbox[t])
             /\ OneClose(inbox[t]) => OneClose(inbox'[t])
             /\ pc[t] = "free" => inbox'[t] = inbox[t]
             /\ sht[t] # None => (EndsOn(inbox'[t], cursor[t]) <=> sht[t] = Lit')
             /\ \A u \in Slots : pc[u] \in {"show", "type"} /\ owner[child[u]] = t
                                   /\ OnlySwitches(inbox[t]) => OnlySwitches(inbox'[t])
  <2>1. /\ Q[t] \in Seq(Data) /\ Alike(inbox[t], Q[t])
        /\ sht[t] = None => Q[t] = inbox[t]
        /\ sht[t] # None => (EndsOn(Q[t], cursor[t]) <=> sht[t] = Lit')
        /\ pc[t] = "free" => sht[t] = None
    BY <1>1 DEF Switched, Follows, Sheets
  <2>2. CASE inbox'[t] = Q[t]
    BY <2>1, <2>2 DEF Alike
  <2>3. CASE /\ inbox'[t] = Append(Q[t], "line") /\ pc[t] # "free"
             /\ \A u \in Slots : pc[u] \in {"show", "type"} => owner[child[u]] # t
    <3>1. "line" \in Data /\ "line" # "close" /\ "line" \notin Switches /\ cursor[t] \in BOOLEAN
      BY <1>1, TypeFacts DEF Data, Switches
    <3>2. /\ inbox'[t] \in Seq(Data)
          /\ HasClose(inbox'[t]) <=> HasClose(Q[t])
          /\ OneClose(Q[t]) => OneClose(inbox'[t])
          /\ EndsOn(inbox'[t], cursor[t]) <=> EndsOn(Q[t], cursor[t])
      BY <3>1, <2>1, <2>3, AppendQueue
    <3> QED BY <3>2, <2>1, <2>3 DEF Alike
  <2>4. Q \in [Slots -> Seq(Data)]
    BY DEF Switched
  <2> QED BY <2>2, <2>3, <2>4 DEF Typed, Put
<1>4. inbox' \in [Slots -> Seq(Data)]
  <2>1. Q \in [Slots -> Seq(Data)]
    BY DEF Switched
  <2>2. DOMAIN inbox' = Slots /\ inbox' = [t \in Slots |-> inbox'[t]]
    BY <2>1 DEF Typed, Put
  <2> QED BY <2>2, <1>3
<1>5. key_win' \in Windows \cup {None, Back} /\ reused' \in BOOLEAN
  BY DEF Target
<1>6. \A t \in Slots : /\ pc'[t] = "free" <=> pc[t] = "free"
                       /\ pc'[t] = "hiding" <=> pc[t] = "hiding"
                       /\ pc'[t] = "ended" <=> pc[t] = "ended"
                       /\ pc'[t] = "start" <=> pc[t] = "start"
                       /\ pc'[t] = "show" <=> pc[t] = "show"
                       /\ pc'[t] = "type" <=> pc[t] = "type"
                       /\ pc[t] = "loop" => pc'[t] = "loop"
                       /\ pc[t] \in InApp \cup {"cleanup"} => pc'[t] \in InApp \cup {"cleanup"}
  BY DEF InApp
<1>7. Types'
  BY <1>1, <1>2, <1>4, <1>5 DEF Types, TypeOK, Data, Switches, Windows, Slots, Messages, Places, InApp
<1>8. Sheets'
  BY <1>1, <1>2, <1>6 DEF Sheets
<1>9. Boxes'
  BY <1>1, <1>2, <1>3, <1>6 DEF Boxes
<1>10. Cursors'
  BY <1>1, <1>2, <1>3 DEF Cursors
<1>11. Letters'
  BY <1>1, <1>2, <1>6 DEF Letters, Message
<1>12. Children'
  BY <1>1, <1>2, <1>3, <1>6 DEF Children, Opening
<1>13. Stack'
  BY <1>1, <1>2 DEF Stack
<1>14. Aimed'
  BY <1>2, <1>6 DEF Aimed, Target, Being
<1>15. Apps'
  BY <1>1, <1>2, <1>6 DEF Apps
<1>16. Room'
  <2>1. Starters' = Starters /\ FreeSlots' = FreeSlots
    BY <1>6 DEF Starters, FreeSlots
  <2> QED BY <1>1, <2>1 DEF Room
<1> QED BY <1>7, <1>8, <1>9, <1>10, <1>11, <1>12, <1>13, <1>14, <1>15, <1>16 DEF IInv

\* The window with the highest number of those that are left, or what remains of
\* the stack when the window w is taken out of it or put on the top.
LEMMA WithoutFacts ==
  ASSUME Types, Stack, NEW w \in Shown
  PROVE  /\ Height(w) \in 1 .. Len(order) /\ order[Height(w)] = w
         /\ Without(w) \in Seq(Windows) /\ IsInjective(Without(w))
         /\ Range(Without(w)) = Shown \ {w}
         /\ Raised(w) \in Seq(Windows) /\ IsInjective(Raised(w)) /\ Range(Raised(w)) = Shown
<1> USE TypeFacts
<1>1. DOMAIN order = 1 .. Len(order) /\ w \in Windows /\ IsInjective(order)
  BY LenProperties DEF Stack
<1>2. \E i \in DOMAIN order : order[i] = w
  BY DEF Shown, Range
<1>3. Height(w) \in 1 .. Len(order) /\ order[Height(w)] = w
  BY <1>1, <1>2 DEF Height
<1>4. Without(w) = RemoveAt(order, Height(w))
  BY <1>1, <1>2 DEF Without, Contains
<1>5. /\ Without(w) \in Seq(Windows) /\ IsInjective(Without(w))
      /\ Range(Without(w)) = Shown \ {w}
  BY <1>1, <1>3, <1>4, RemoveRange DEF Shown
<1>6. /\ Raised(w) \in Seq(Windows) /\ IsInjective(Raised(w))
      /\ Range(Raised(w)) = (Shown \ {w}) \cup {w}
  BY <1>1, <1>5, AppendRange DEF Raised
<1> QED BY <1>3, <1>5, <1>6

\* A window is on the screen if the stack contains it.
LEMMA ContainsShown ==
  ASSUME Types, NEW w
  PROVE  Contains(order, w) <=> w \in Shown
<1>1. ASSUME Contains(order, w) PROVE w \in Shown
  BY <1>1, TypeFacts DEF Contains, Shown, Range
<1>2. ASSUME w \in Shown PROVE Contains(order, w)
  BY <1>2, TypeFacts DEF Contains, Shown, Range
<1> QED BY <1>1, <1>2

\* A line for the window with the focus.
LEMMA TypeStep ==
  ASSUME IInv, Exposed = {}, Type
  PROVE  IInv'
<1>1. Types /\ Stack /\ Children
  BY DEF IInv
<1>2. Focus \in Shown
  <2> SUFFICES ASSUME Being(Focus) PROVE FALSE
    BY FocusFacts DEF Type
  <2>1. PICK t \in Slots : pc[t] \in {"start", "show"} /\ child[t] = Focus
    BY DEF Being
  <2>2. pc[t] = "show"
    BY <2>1, <1>1 DEF Children, Type
  <2>3. owner[Focus] \in TypedInto
    BY <2>1, <2>2 DEF TypedInto
  <2> QED BY <2>3 DEF Type, May
<1>3. owner[Focus] \in Slots /\ pc[owner[Focus]] # "free"
  BY <1>2, ShownFacts
<1>4. \A u \in Slots : pc[u] \in {"show", "type"} => owner[child[u]] # owner[Focus]
  BY DEF Type, May, TypedInto
<1>5. Switched(Queues) /\ Follows(Queues, Lit') /\ Target(key_win', reused')
  BY QueuesFacts, StaysFacts DEF Type
<1>6. Typed(Queues, owner[Focus])
  BY <1>3, <1>4 DEF Type, Typed
<1>7. UNCHANGED <<kind, owner, mail, sht, cursor, child, order, pc>> /\ Shown' = Shown
  BY DEF Type, windows, Shown
<1>8. order' \in Seq(Windows) /\ IsInjective(order') /\ pc' \in [Slots -> Places]
  BY <1>1, <1>7, TypeFacts DEF Stack
<1> QED BY <1>3, <1>5, <1>6, <1>7, <1>8, HandlerStep

\* The focus moves to a window on the screen; the windows may be reordered.
LEMMA FocusStep ==
  ASSUME IInv, UNCHANGED <<kind, owner, mail, sht, cursor, child>>,
         pc' \in [Slots -> Places],
         \A t \in Slots : pc'[t] = pc[t] \/ (pc[t] = "app" /\ pc'[t] = "cleanup"),
         order' = order \/ \E w \in Shown : order' = Raised(w),
         Target(key_win', reused'), Switched(inbox'), Follows(inbox', Lit')
  PROVE  IInv'
<1>1. Types /\ Stack
  BY DEF IInv
<1>2. order' \in Seq(Windows) /\ IsInjective(order') /\ Shown' = Shown
  <2>1. CASE order' = order
    BY <1>1, <2>1, TypeFacts DEF Stack, Shown
  <2>2. ASSUME NEW w \in Shown, order' = Raised(w)
        PROVE  order' \in Seq(Windows) /\ IsInjective(order') /\ Shown' = Shown
    BY <1>1, <2>2, WithoutFacts DEF Shown
  <2> QED BY <2>1, <2>2
<1> DEFINE Q == inbox'
<1>3. Switched(Q) /\ Follows(Q, Lit') /\ inbox' = Q
  OBVIOUS
<1> HIDE DEF Q
<1> QED BY <1>2, <1>3, HandlerStep

\* Tab, Ctrl+C, F11, a click, the button of an application, and noticing that
\* the window with the focus is gone.
LEMMA FocusSteps ==
  ASSUME IInv, Exposed = {},
         Tab \/ Interrupt \/ Cycle \/ Notice \/ \E w \in Windows : Click(w) \/ CloseApp(w)
  PROVE  IInv'
<1>1. Types /\ Stack /\ Switched(Queues)
  BY QueuesFacts DEF IInv
<1>2. pc \in [Slots -> Places] /\ order \in Seq(Windows) /\ ~May("hiding")
  BY <1>1, TypeFacts DEF May
<1>3. "cleanup" \in Places
  BY DEF Places
<1>4. CASE Tab
  <2>1. Focus \in Shown
    BY <1>1, <1>4, ContainsShown DEF Tab
  <2>2. Height(Focus) \in 1 .. Len(order) /\ DOMAIN order = 1 .. Len(order)
    BY <1>1, <2>1, WithoutFacts, TypeFacts
  <2>3. key_win' \in Shown
    <3>1. Len(order) \in DOMAIN order /\ (Height(Focus) # 1 => Height(Focus) - 1 \in DOMAIN order)
      BY <2>2, <1>2
    <3> QED BY <3>1, <1>4 DEF Tab, Shown, Range, Last
  <2>4. Known(key_win')
    BY <2>3, KnownFacts
  <2>5. Switched(inbox') /\ Follows(inbox', Lit') /\ Target(key_win', reused')
    <3>1. Lit' = key_win' /\ reused' = FALSE
      BY <1>4 DEF Tab, Lit
    <3>2. Switched(inbox') /\ Follows(inbox', key_win')
      BY <2>4, <1>4, RefocusedFacts DEF Tab
    <3> QED BY <3>1, <3>2, <2>3, <1>1, TypeFacts DEF Target
  <2>6. UNCHANGED <<kind, owner, mail, sht, cursor, child, order, pc>>
    BY <1>4 DEF Tab, windows
  <2> QED BY <2>5, <2>6, <1>2, FocusStep
<1>5. CASE Interrupt
  <2>1. /\ UNCHANGED <<kind, owner, mail, sht, cursor, child, order>> /\ inbox' = Queues
        /\ Target(key_win', reused') /\ Follows(Queues, Lit')
    BY <1>5, StaysFacts DEF Interrupt, windows
  <2>2. /\ pc' \in [Slots -> Places]
        /\ \A t \in Slots : pc'[t] = pc[t] \/ (pc[t] = "app" /\ pc'[t] = "cleanup")
    BY <1>2, <1>3, <1>5 DEF Interrupt, InApp
  <2> QED BY <2>1, <2>2, <1>1, FocusStep
<1>6. CASE Cycle
  <2>1. /\ UNCHANGED <<kind, owner, mail, sht, cursor, child, pc>> /\ inbox' = Queues
        /\ Target(key_win', reused') /\ Follows(Queues, Lit')
    BY <1>6, StaysFacts DEF Cycle
  <2>2. Head(order) \in Shown /\ order' = Raised(Head(order))
    <3>1. order # <<>> /\ IsInjective(order)
      BY <1>1, <1>6 DEF Cycle, Stack
    <3> QED BY <3>1, <1>2, <1>6, TailRange DEF Cycle, Shown
  <2> QED BY <2>1, <2>2, <1>1, <1>2, FocusStep
<1>7. CASE Notice
  <2>1. /\ UNCHANGED <<kind, owner, mail, sht, cursor, child, order, pc>> /\ inbox' = Queues
        /\ Target(key_win', reused') /\ Follows(Queues, Lit')
    BY <1>7, StaysFacts DEF Notice, windows
  <2> QED BY <2>1, <1>1, <1>2, FocusStep
<1>8. ASSUME NEW w \in Windows, Click(w) PROVE IInv'
  <2>1. UNCHANGED <<kind, owner, mail, sht, cursor, child, pc>> /\ key_win' = w /\ inbox' = Refocused(w)
        /\ order' = Raised(w)
    BY <1>8 DEF Click
  <2>2. w \in Shown /\ Known(w)
    BY <1>1, <1>8, ContainsShown, KnownFacts DEF Click
  <2>3. Switched(inbox') /\ Follows(inbox', Lit') /\ Target(key_win', reused')
    BY <1>8, <2>1, <2>2, RefocusedFacts, StaysFacts DEF Click
  <2> QED BY <2>1, <2>2, <2>3, <1>2, FocusStep
<1>9. ASSUME NEW w \in Windows, CloseApp(w) PROVE IInv'
  <2>1. UNCHANGED <<kind, owner, mail, sht, cursor, child>> /\ key_win' = w /\ inbox' = Refocused(w)
        /\ order' = Raised(w)
    BY <1>9 DEF CloseApp
  <2>2. w \in Shown /\ Known(w)
    BY <1>1, <1>9, ContainsShown, KnownFacts DEF CloseApp
  <2>3. Switched(inbox') /\ Follows(inbox', Lit') /\ Target(key_win', reused')
    BY <1>9, <2>1, <2>2, RefocusedFacts, StaysFacts DEF CloseApp
  <2>4. /\ pc' \in [Slots -> Places]
        /\ \A t \in Slots : pc'[t] = pc[t] \/ (pc[t] = "app" /\ pc'[t] = "cleanup")
    BY <1>2, <1>3, <1>9 DEF CloseApp, InApp, May
  <2> QED BY <2>1, <2>2, <2>3, <2>4, FocusStep
<1> QED BY <1>4, <1>5, <1>6, <1>7, <1>8, <1>9

-----------------------------------------------------------------------------
(* What a console does by itself, or its application. *)

\* cmd_start of no other console still types into the task t.
Unawaited(t) == \A u \in Slots : pc[u] \in {"show", "type"} => owner[child[u]] # t

\* A task that is busy, or has more than switches to read, is not being started.
LEMMA UnawaitedFacts ==
  ASSUME IInv, NEW t \in Slots,
         pc[t] # "loop" \/ (inbox[t] # <<>> /\ Head(inbox[t]) \notin Switches)
  PROVE  Unawaited(t)
<1>1. Types /\ Children
  BY DEF IInv
<1> SUFFICES ASSUME NEW u \in Slots, pc[u] \in {"show", "type"}, owner[child[u]] = t
             PROVE  FALSE
  BY DEF Unawaited
<1>2. pc[t] = "loop" /\ OnlySwitches(inbox[t])
  BY <1>1 DEF Children
<1>3. inbox[t] \in Seq(Data)
  BY <1>1, TypeFacts
<1> QED BY <1>2, <1>3, TailQueue

\* It reads its queue or not, and goes on at another place.
LEMMA ConsoleStep ==
  ASSUME IInv, NEW t \in Slots, NEW place \in {"loop", "exit", "app", "hiding", "cleanup"},
         UNCHANGED <<windows, focus, mail, sht, child>>,
         pc[t] \in {"loop", "app", "cleanup"}, pc' = [pc EXCEPT ![t] = place],
         place = pc[t] \/ Unawaited(t),
         pc[t] # "loop" /\ place \notin InApp \cup {"cleanup"} => OwnWindows(t) = {},
         place = "hiding" => At(t, "app", "close") /\ Take(t),
         \/ inbox' = inbox /\ cursor' = cursor
         \/ /\ inbox[t] # <<>> /\ Take(t)
            /\ cursor' = IF Head(inbox[t]) \in Switches
                         THEN [cursor EXCEPT ![t] = (Head(inbox[t]) = "on")] ELSE cursor
  PROVE  IInv'
<1>1. /\ Types /\ Sheets /\ Boxes /\ Cursors /\ Letters
      /\ Children /\ Stack /\ Aimed /\ Apps /\ Room
  BY DEF IInv
<1>2. /\ kind' = kind /\ owner' = owner /\ order' = order /\ key_win' = key_win /\ mail' = mail
      /\ sht' = sht /\ child' = child /\ Sent' = Sent /\ Shown' = Shown
      /\ reused' = reused /\ Lit' = Lit
  BY DEF windows, focus, Sent, Shown, Lit
<1>3. /\ pc \in [Slots -> Places] /\ inbox \in [Slots -> Seq(Data)]
      /\ cursor \in [Slots -> BOOLEAN] /\ place \in Places
  BY <1>1, TypeFacts DEF Places, InApp
<1>4. /\ pc'[t] = place /\ \A u \in Slots \ {t} : pc'[u] = pc[u]
      /\ pc' \in [Slots -> Places]
  BY <1>3
<1> DEFINE q == inbox[t]
<1>6. /\ inbox' \in [Slots -> Seq(Data)] /\ cursor' \in [Slots -> BOOLEAN]
      /\ \A u \in Slots \ {t} : inbox'[u] = inbox[u] /\ cursor'[u] = cursor[u]
      /\ HasClose(inbox'[t]) => HasClose(inbox[t])
      /\ OneClose(inbox[t]) => OneClose(inbox'[t])
      /\ OnlySwitches(inbox[t]) => OnlySwitches(inbox'[t])
      /\ EndsOn(inbox'[t], cursor'[t]) <=> EndsOn(inbox[t], cursor[t])
      /\ place = "hiding" => (OneClose(inbox[t]) => HasClose(inbox[t]) /\ ~HasClose(inbox'[t]))
  <2>1. CASE inbox' = inbox /\ cursor' = cursor /\ place # "hiding"
    BY <2>1, <1>3
  <2>2. CASE /\ q # <<>> /\ Take(t)
             /\ cursor' = IF Head(q) \in Switches
                          THEN [cursor EXCEPT ![t] = (Head(q) = "on")] ELSE cursor
    <3>1. q \in Seq(Data) /\ inbox' = [inbox EXCEPT ![t] = Tail(q)] /\ inbox'[t] = Tail(q)
      BY <2>2, <1>3 DEF Take
    <3>2. Tail(q) \in Seq(Data) /\ cursor[t] \in BOOLEAN
      BY <3>1, <2>2, <1>3, TailQueue
    <3>3. /\ inbox' \in [Slots -> Seq(Data)] /\ cursor' \in [Slots -> BOOLEAN]
          /\ \A u \in Slots \ {t} : inbox'[u] = inbox[u] /\ cursor'[u] = cursor[u]
          /\ Head(q) \in Switches => cursor'[t] = (Head(q) = "on")
          /\ Head(q) \notin Switches => cursor'[t] = cursor[t]
      BY <3>1, <3>2, <2>2, <1>3
    <3>4. /\ HasClose(Tail(q)) => HasClose(q)
          /\ OneClose(q) => OneClose(Tail(q))
          /\ OnlySwitches(q) => OnlySwitches(Tail(q))
      BY <3>1, <2>2, TailQueue
    <3>5. EndsOn(Tail(q), cursor'[t]) <=> EndsOn(q, cursor[t])
      BY <3>1, <3>2, <3>3, <2>2, TailQueue
    <3>6. place = "hiding" => (OneClose(q) => HasClose(q) /\ ~HasClose(Tail(q)))
      BY <3>1, <2>2, TailQueue DEF At
    <3> QED BY <3>1, <3>3, <3>4, <3>5, <3>6
  <2>3. CASE inbox' = inbox /\ cursor' = cursor /\ place = "hiding"
    <3>1. inbox' = [inbox EXCEPT ![t] = Tail(q)] /\ q # <<>> /\ Head(q) = "close"
      BY <2>3 DEF At, Take
    <3>2. Tail(q) = q /\ q \in Seq(Data)
      BY <3>1, <2>3, <1>3
    <3> DEFINE n == Len(q)
    <3>3. n = n - 1 /\ n \in Nat
      BY <3>1, <3>2, HeadTailProperties, LenProperties
    <3> HIDE DEF n
    <3> QED BY <3>3
  <2> QED BY <2>1, <2>2, <2>3
<1>7. \A u \in Slots : /\ pc'[u] = "free" <=> pc[u] = "free"
                       /\ pc'[u] = "ended" <=> pc[u] = "ended"
                       /\ pc'[u] \in Opening <=> pc[u] \in Opening
                       /\ pc'[u] \in Opening => pc'[u] = pc[u]
  BY <1>4 DEF Opening
<1>8. Types'
  BY <1>1, <1>2, <1>4, <1>6 DEF Types, TypeOK, Data, Switches, Windows, Slots, Messages, Places, InApp
<1>9. Sheets'
  BY <1>1, <1>2, <1>7 DEF Sheets
<1>10. Boxes'
  BY <1>1, <1>2, <1>4, <1>6, <1>7 DEF Boxes
<1>11. Cursors'
  BY <1>1, <1>2, <1>6 DEF Cursors
<1>12. Letters'
  BY <1>1, <1>2, <1>7 DEF Letters, Message
<1>13. Children'
  <2>1. ASSUME NEW u \in Slots, pc[u] \in {"show", "type"}
        PROVE  pc'[owner[child[u]]] = "loop" /\ OnlySwitches(inbox'[owner[child[u]]])
    <3> DEFINE o == owner[child[u]]
    <3>1. o \in Slots /\ pc[o] = "loop" /\ OnlySwitches(inbox[o])
      BY <2>1, <1>1 DEF Children
    <3>2. Unawaited(t) => o # t
      BY <2>1 DEF Unawaited
    <3> HIDE DEF o
    <3>3. pc'[o] = "loop"
      BY <3>1, <3>2, <1>4
    <3>4. OnlySwitches(inbox'[o])
      BY <3>1, <1>6
    <3> QED BY <3>3, <3>4 DEF o
  <2> QED BY <2>1, <1>1, <1>2, <1>7 DEF Children, Opening
<1>14. Stack'
  BY <1>1, <1>2 DEF Stack
<1>15. Aimed'
  BY <1>1, <1>2, <1>7 DEF Aimed, Being, Opening
<1>16. Apps'
  BY <1>1, <1>2, <1>4 DEF Apps, OwnWindows, InApp
<1>17. Room'
  <2>1. Starters' = Starters /\ FreeSlots' = FreeSlots
    BY <1>7 DEF Starters, FreeSlots, Opening
  <2> QED BY <1>1, <2>1 DEF Room
<1> QED BY <1>8, <1>9, <1>10, <1>11, <1>12, <1>13, <1>14, <1>15, <1>16, <1>17 DEF IInv

\* The cursor goes on or off; a command that creates and ends nothing; an
\* application starts, is given a key, learns that the console was closed, ends.
LEMMA ConsoleSteps ==
  ASSUME IInv, NEW t \in Slots,
         \/ SetCursor(t) \/ Leave(t) \/ Plain(t) \/ StartApp(t) \/ GetKey(t) \/ TakeClose(t)
         \/ EndApp(t) \/ (Cleanup(t) /\ OwnWindows(t) = {})
  PROVE  IInv'
<1>1. pc \in [Slots -> Places] /\ inbox \in [Slots -> Seq(Data)] /\ cursor \in [Slots -> BOOLEAN]
  BY TypeFacts DEF IInv
<1>2. pc = [pc EXCEPT ![t] = pc[t]]
  BY <1>1
<1>3. "close" \notin Switches /\ "line" \notin Switches /\ "on" \in Switches /\ "off" \in Switches
  BY DEF Switches
<1>4. Done(t) \in {"loop", "exit", "app", "hiding", "cleanup"} /\ Done(t) \in {"loop", "exit"}
  BY DEF Done
<1>5. CASE SetCursor(t)
  <2>1. PICK switch \in {"on", "off"} :
          /\ At(t, "loop", switch) \/ At(t, "app", switch)
          /\ cursor' = [cursor EXCEPT ![t] = (switch = "on")]
    BY <1>5 DEF SetCursor
  <2>2. /\ UNCHANGED <<windows, focus, mail, sht, child>> /\ Take(t) /\ pc' = pc
        /\ pc[t] \in {"loop", "app"} /\ inbox[t] # <<>> /\ Head(inbox[t]) = switch
    BY <1>5, <2>1 DEF SetCursor, At
  <2>3. cursor' = IF Head(inbox[t]) \in Switches
                  THEN [cursor EXCEPT ![t] = (Head(inbox[t]) = "on")] ELSE cursor
    BY <2>1, <2>2, <1>3
  <2>4. OwnWindows(t) = {} \/ ~(pc[t] # "loop" /\ pc[t] \notin InApp \cup {"cleanup"})
    BY <2>2 DEF InApp
  <2> DEFINE place == pc[t]
  <2>5. place \in {"loop", "exit", "app", "hiding", "cleanup"} /\ pc' = [pc EXCEPT ![t] = place]
        /\ place # "hiding"
    BY <2>2, <1>2
  <2> HIDE DEF place
  <2> QED BY <2>2, <2>3, <2>4, <2>5, ConsoleStep DEF place
<1>6. CASE Leave(t)
  <2>1. /\ UNCHANGED <<windows, focus, mail, sht, child, cursor>> /\ Take(t)
        /\ pc[t] = "loop" /\ pc' = [pc EXCEPT ![t] = "exit"]
        /\ inbox[t] # <<>> /\ Head(inbox[t]) \notin Switches
    BY <1>6, <1>3 DEF Leave, At
  <2>2. Unawaited(t)
    BY <2>1, UnawaitedFacts
  <2> QED BY <2>1, <2>2, ConsoleStep
<1>7. CASE Plain(t)
  <2>1. /\ UNCHANGED <<windows, focus, mail, sht, child, cursor>> /\ Take(t)
        /\ pc[t] = "loop" /\ pc' = [pc EXCEPT ![t] = Done(t)]
        /\ inbox[t] # <<>> /\ Head(inbox[t]) \notin Switches
    BY <1>7, <1>3 DEF Plain, At
  <2>2. Unawaited(t)
    BY <2>1, UnawaitedFacts
  <2> DEFINE place == Done(t)
  <2> HIDE DEF place
  <2>3. place \in {"loop", "exit", "app", "hiding", "cleanup"} /\ place # "hiding"
        /\ pc' = [pc EXCEPT ![t] = place]
    BY <2>1, <1>4 DEF place
  <2> QED BY <2>1, <2>2, <2>3, ConsoleStep
<1>8. CASE StartApp(t)
  <2>1. /\ UNCHANGED <<windows, focus, mail, sht, child, cursor>> /\ Take(t)
        /\ pc[t] = "loop" /\ pc' = [pc EXCEPT ![t] = "app"]
        /\ inbox[t] # <<>> /\ Head(inbox[t]) \notin Switches
    BY <1>8, <1>3 DEF StartApp, At
  <2>2. Unawaited(t)
    BY <2>1, UnawaitedFacts
  <2> QED BY <2>1, <2>2, ConsoleStep
<1>9. CASE GetKey(t)
  <2>1. /\ UNCHANGED <<windows, focus, mail, sht, child, cursor>> /\ Take(t)
        /\ pc[t] = "app" /\ pc' = [pc EXCEPT ![t] = "app"]
        /\ inbox[t] # <<>> /\ Head(inbox[t]) \notin Switches
    BY <1>2, <1>9, <1>3 DEF GetKey, At
  <2>2. "app" \in InApp
    BY DEF InApp
  <2> QED BY <2>1, <2>2, ConsoleStep
<1>10. CASE TakeClose(t)
  <2>1. /\ UNCHANGED <<windows, focus, mail, sht, child, cursor>> /\ Take(t)
        /\ pc[t] = "app" /\ pc' = [pc EXCEPT ![t] = "hiding"] /\ At(t, "app", "close")
        /\ inbox[t] # <<>> /\ Head(inbox[t]) \notin Switches
    BY <1>10, <1>3 DEF TakeClose, At
  <2>2. "hiding" \in InApp /\ Unawaited(t)
    BY <2>1, UnawaitedFacts DEF InApp
  <2> QED BY <2>1, <2>2, ConsoleStep
<1>11. CASE EndApp(t)
  <2>1. /\ UNCHANGED <<windows, focus, mail, sht, child, cursor, inbox>>
        /\ pc[t] = "app" /\ pc' = [pc EXCEPT ![t] = "cleanup"]
    BY <1>11 DEF EndApp
  <2>2. Unawaited(t)
    BY <2>1, UnawaitedFacts
  <2> QED BY <2>1, <2>2, ConsoleStep
<1>12. CASE Cleanup(t) /\ OwnWindows(t) = {}
  <2>1. /\ UNCHANGED <<windows, focus, mail, sht, child, cursor, inbox>>
        /\ pc[t] = "cleanup" /\ pc' = [pc EXCEPT ![t] = Done(t)]
    BY <1>12 DEF Cleanup
  <2>2. Unawaited(t)
    BY <2>1, UnawaitedFacts
  <2> DEFINE place == Done(t)
  <2> HIDE DEF place
  <2>3. place \in {"loop", "exit", "app", "hiding", "cleanup"} /\ place # "hiding"
        /\ pc' = [pc EXCEPT ![t] = place]
    BY <2>1, <1>4 DEF place
  <2> QED BY <1>12, <2>1, <2>2, <2>3, ConsoleStep
<1> QED BY <1>5, <1>6, <1>7, <1>8, <1>9, <1>10, <1>11, <1>12

-----------------------------------------------------------------------------
(* A window or a task is taken. *)

\* sheet_alloc and task_alloc find an entry if there is one.
LEMMA FirstFacts ==
  ASSUME NEW S \in SUBSET Nat, S # {}
  PROVE  First(S) \in S
<1>1. \E n \in S : \A m \in S : n <= m
  BY Smallest
<1> QED BY <1>1 DEF First

\* Nobody has, opens or speaks of a window that is free.
LEMMA FreshWindow ==
  ASSUME IInv, FreeWindows # {}
  PROVE  LET w == First(FreeWindows) IN
         /\ w \in Windows /\ kind[w] = "free" /\ w \notin Shown
         /\ \A t \in Slots : sht[t] # w /\ (pc[t] \in Opening => child[t] # w)
<1> DEFINE w == First(FreeWindows)
<1>1. w \in Windows /\ kind[w] = "free"
  <2>1. FreeWindows \in SUBSET Nat
    BY DEF FreeWindows, Windows
  <2>2. w \in FreeWindows
    BY <2>1, FirstFacts
  <2> QED BY <2>2 DEF FreeWindows
<1> HIDE DEF w
<1>2. w \notin Shown
  BY <1>1 DEF IInv, Stack
<1>3. \A t \in Slots : sht[t] # w
  BY <1>1, TypeFacts DEF IInv, Sheets
<1>4. ASSUME NEW t \in Slots, pc[t] \in Opening PROVE child[t] # w
  <2>1. child[t] = w => pc[t] \in {"show", "type"}
    BY <1>1, <1>4 DEF IInv, Children, Opening
  <2> QED BY <2>1, <1>3 DEF IInv, Children
<1> QED BY <1>1, <1>2, <1>3, <1>4 DEF w

\* Nobody has dealings with a task that is free.
LEMMA FreshSlot ==
  ASSUME IInv, FreeSlots # {}
  PROVE  LET t == First(FreeSlots) IN
         /\ t \in FreeSlots /\ t \in Slots /\ pc[t] = "free"
         /\ sht[t] = None /\ inbox[t] = <<>> /\ Unawaited(t)
<1> DEFINE t == First(FreeSlots)
<1>1. t \in FreeSlots /\ t \in Slots /\ pc[t] = "free"
  <2>1. FreeSlots \in SUBSET Nat
    BY DEF FreeSlots, Slots
  <2>2. t \in FreeSlots
    BY <2>1, FirstFacts
  <2> QED BY <2>2 DEF FreeSlots
<1> HIDE DEF t
<1>2. sht[t] = None /\ inbox[t] = <<>>
  BY <1>1 DEF IInv, Sheets, Boxes
<1>3. Unawaited(t)
  BY <1>1, UnawaitedFacts
<1> QED BY <1>1, <1>2, <1>3 DEF t

\* The tasks and those that will start another are finitely many.
LEMMA RoomFacts ==
  /\ IsFiniteSet(FreeSlots) /\ Cardinality(FreeSlots) \in Nat
  /\ IsFiniteSet(Starters) /\ Cardinality(Starters) \in Nat
<1>1. IsFiniteSet(Slots)
  BY FS_Interval, SessionAssumption DEF Slots
<1>2. FreeSlots \subseteq Slots /\ Starters \subseteq Slots
  BY DEF FreeSlots, Starters
<1> QED BY <1>1, <1>2, FS_Subset, FS_CardinalityType

\* If one is sure to be left there is one, and then the others have theirs.
LEMMA SlotLeftFacts ==
  ASSUME SlotLeft
  PROVE  /\ FreeSlots # {} /\ Cardinality(Starters) < Cardinality(FreeSlots)
         /\ \A t \in FreeSlots : Cardinality(Starters) <= Cardinality(FreeSlots \ {t})
<1> DEFINE f == Cardinality(FreeSlots)
           n == Cardinality(Starters)
<1>1. f \in Nat /\ n \in Nat /\ n < f
  BY RoomFacts DEF SlotLeft, Starters
<1>2. FreeSlots # {}
  <2>1. ASSUME FreeSlots = {} PROVE f = 0
    BY <2>1, FS_EmptySet
  <2> HIDE DEF f, n
  <2> QED BY <1>1, <2>1
<1>3. ASSUME NEW t \in FreeSlots PROVE n <= Cardinality(FreeSlots \ {t})
  <2>1. Cardinality(FreeSlots \ {t}) = f - 1
    BY RoomFacts, FS_RemoveElement
  <2> HIDE DEF f, n
  <2> QED BY <1>1, <2>1
<1> QED BY <1>1, <1>2, <1>3

\* Ctrl+T: the new console has the focus and its cursor on.
LEMMA NewConsoleStep ==
  ASSUME IInv, NewConsole
  PROVE  IInv'
<1> DEFINE w == First(FreeWindows)
           t == First(FreeSlots)
           Q == Off(Queues, Focus)
<1>1. /\ Types /\ Sheets /\ Boxes /\ Cursors /\ Letters
      /\ Children /\ Stack /\ Aimed /\ Apps /\ Room
  BY DEF IInv
<1>2. /\ kind' = [kind EXCEPT ![w] = "console"]
      /\ owner' = [owner EXCEPT ![w] = t]
      /\ order' = Append(order, w) /\ key_win' = w /\ reused' = FALSE /\ Lit' = w
      /\ pc' = [pc EXCEPT ![t] = "loop"]
      /\ sht' = [sht EXCEPT ![t] = w]
      /\ cursor' = [cursor EXCEPT ![t] = FALSE]
      /\ inbox' = [Q EXCEPT ![t] = <<"on">>]
      /\ UNCHANGED <<mail, child>>
  BY DEF NewConsole, StartConsole, Lit
<1>3. /\ w \in Windows /\ kind[w] = "free" /\ w \notin Shown
      /\ \A u \in Slots : sht[u] # w /\ (pc[u] \in Opening => child[u] # w)
  BY FreshWindow DEF NewConsole
<1>4. /\ t \in FreeSlots /\ t \in Slots /\ pc[t] = "free"
      /\ sht[t] = None /\ inbox[t] = <<>> /\ Unawaited(t)
      /\ Cardinality(Starters) <= Cardinality(FreeSlots \ {t})
  BY FreshSlot, SlotLeftFacts DEF NewConsole
<1>5. Switched(Q) /\ Follows(Q, None)
  BY KnownFacts, RefocusedFacts
<1> HIDE DEF w, t, Q
<1>6. /\ <<"on">> \in Seq(Data) /\ ~HasClose(<<"on">>) /\ OneClose(<<"on">>)
      /\ OnlySwitches(<<"on">>) /\ EndsOn(<<"on">>, FALSE)
  <2> DEFINE e == <<>>
  <2>1. Append(e, "on") = <<"on">> /\ "on" \in Data /\ "on" \in Switches /\ "on" # "close"
    BY DEF Data, Switches
  <2>2. e \in Seq(Data) /\ ~HasClose(e) /\ OneClose(e) /\ OnlySwitches(e)
    BY EmptyQueue
  <2> HIDE DEF e
  <2>3. /\ Append(e, "on") \in Seq(Data) /\ ~HasClose(Append(e, "on"))
        /\ OneClose(Append(e, "on")) /\ OnlySwitches(Append(e, "on"))
        /\ EndsOn(Append(e, "on"), FALSE)
    BY <2>1, <2>2, AppendQueue
  <2> QED BY <2>1, <2>3
<1>7. /\ kind'[w] = "console" /\ \A v \in Windows \ {w} : kind'[v] = kind[v]
      /\ owner'[w] = t /\ \A v \in Windows \ {w} : owner'[v] = owner[v]
      /\ pc'[t] = "loop" /\ \A u \in Slots \ {t} : pc'[u] = pc[u]
      /\ sht'[t] = w /\ \A u \in Slots \ {t} : sht'[u] = sht[u]
      /\ cursor'[t] = FALSE /\ \A u \in Slots \ {t} : cursor'[u] = cursor[u]
      /\ inbox'[t] = <<"on">> /\ \A u \in Slots \ {t} : inbox'[u] = Q[u]
      /\ child' = child /\ Sent' = Sent /\ mail' = mail
  BY <1>1, <1>2, <1>3, <1>4, <1>5, TypeFacts DEF Switched, Sent
<1>8. order' \in Seq(Windows) /\ IsInjective(order') /\ Shown' = Shown \cup {w}
  BY <1>1, <1>2, <1>3, AppendRange, TypeFacts DEF Stack, Shown
<1>0. None \notin Windows /\ w # None /\ w # Back
  BY <1>1, <1>3, <1>4, TypeFacts
<1>9. Types'
  <2>1. /\ kind' \in [Windows -> {"free", "raw", "console", "app"}]
        /\ owner' \in [Windows -> Slots \cup {None}]
        /\ pc' \in [Slots -> Places] /\ sht' \in [Slots -> Windows \cup {None}]
        /\ cursor' \in [Slots -> BOOLEAN]
    BY <1>1, <1>2, <1>3, <1>4, TypeFacts DEF Places
  <2>2. inbox' \in [Slots -> Seq(Data)]
    BY <1>2, <1>4, <1>5, <1>6 DEF Switched
  <2>3. key_win' \in Windows \cup {None, Back} /\ reused' \in BOOLEAN
    BY <1>2, <1>3
  <2> QED BY <1>1, <1>7, <1>8, <2>1, <2>2, <2>3 DEF Types, TypeOK, Data, Switches, Windows, Slots, Messages, Places, InApp
<1>10. Sheets'
  <2> SUFFICES ASSUME NEW u \in Slots, sht'[u] # None
               PROVE  pc'[u] # "free" /\ kind'[sht'[u]] = "console" /\ owner'[sht'[u]] = u
    BY DEF Sheets
  <2>1. CASE u = t
    BY <1>7, <2>1
  <2>2. CASE u # t
    <3>1. sht'[u] = sht[u] /\ sht[u] \in Windows \ {w} /\ pc'[u] = pc[u]
      BY <1>1, <1>3, <1>7, <2>2, TypeFacts
    <3> QED BY <3>1, <1>1, <1>7 DEF Sheets
  <2> QED BY <2>1, <2>2
<1>11. Boxes'
  <2> SUFFICES ASSUME NEW u \in Slots
               PROVE  /\ pc'[u] = "free" => inbox'[u] = <<>>
                      /\ OneClose(inbox'[u])
                      /\ pc'[u] = "hiding" => ~HasClose(inbox'[u])
                      /\ HasClose(inbox'[u]) \/ pc'[u] = "hiding" =>
                           sht'[u] # None /\ sht'[u] \notin Shown'
    BY DEF Boxes
  <2>1. CASE u = t
    BY <1>6, <1>7, <2>1
  <2>2. CASE u # t
    <3>1. inbox'[u] = Q[u] /\ Alike(inbox[u], Q[u]) /\ (sht[u] = None => Q[u] = inbox[u])
      BY <1>5, <1>7, <2>2 DEF Switched
    <3>2. pc'[u] = pc[u] /\ sht'[u] = sht[u] /\ sht[u] # w /\ (pc[u] = "free" => sht[u] = None)
      BY <1>1, <1>3, <1>7, <2>2 DEF Sheets
    <3> QED BY <3>1, <3>2, <1>1, <1>8 DEF Boxes, Alike
  <2> QED BY <2>1, <2>2
<1>12. Cursors'
  <2> SUFFICES ASSUME NEW u \in Slots, sht'[u] # None
               PROVE  EndsOn(inbox'[u], cursor'[u]) <=> sht'[u] = Lit'
    BY DEF Cursors
  <2>1. CASE u = t
    BY <1>2, <1>6, <1>7, <2>1
  <2>2. CASE u # t
    <3>1. /\ inbox'[u] = Q[u] /\ sht'[u] = sht[u] /\ cursor'[u] = cursor[u]
          /\ sht[u] # w /\ sht[u] # None
      BY <1>3, <1>7, <2>2
    <3> QED BY <3>1, <1>2, <1>5 DEF Follows
  <2> QED BY <2>1, <2>2
<1>13. Letters'
  <2>1. \A u \in Slots : pc'[u] = "ended" /\ sht'[u] = None <=> pc[u] = "ended" /\ sht[u] = None
    BY <1>4, <1>7
  <2>2. \A u \in Slots, v \in Windows : pc'[u] = "ended" /\ sht'[u] = v <=> pc[u] = "ended" /\ sht[u] = v
    BY <1>4, <1>7
  <2>3. ASSUME NEW v \in Windows
        PROVE  kind'[v] = "console" /\ (\A u \in Slots : sht'[u] # v) <=>
               kind[v] = "console" /\ (\A u \in Slots : sht[u] # v)
    <3>1. CASE v = w
      BY <1>3, <1>4, <1>7, <3>1
    <3>2. CASE v # w
      <4>1. \A u \in Slots : sht'[u] = v <=> sht[u] = v
        BY <1>0, <1>4, <1>7, <3>2
      <4> QED BY <4>1, <1>7, <3>2
    <3> QED BY <3>1, <3>2
  <2> QED BY <1>1, <1>7, <2>1, <2>2, <2>3 DEF Letters, Message
<1>14. Children'
  <2>1. \A u \in Slots : /\ pc'[u] \in Opening <=> pc[u] \in Opening
                         /\ pc'[u] \in Opening => u # t /\ pc'[u] = pc[u]
    BY <1>4, <1>7 DEF Opening
  <2>2. \A u \in Slots : pc[u] \in Opening => child[u] \in Windows \ {w}
    BY <1>1, <1>3 DEF Children
  <2>3. \A u \in Slots : pc[u] \in {"show", "type"} => u # t /\ owner[child[u]] \in Slots \ {t}
    BY <1>1, <1>4 DEF Children, Unawaited
  <2>4. ASSUME NEW u \in Slots
        PROVE  /\ pc'[u] \in Opening => child'[u] \in Windows
               /\ pc'[u] = "start" => kind'[child'[u]] = "raw" /\ owner'[child'[u]] = None
               /\ pc'[u] = "show" => child'[u] \notin Shown'
    BY <1>1, <1>7, <1>8, <2>1, <2>2 DEF Children, Opening
  <2>5. ASSUME NEW u \in Slots, pc'[u] \in {"show", "type"}
        PROVE  /\ owner'[child'[u]] \in Slots
               /\ sht'[owner'[child'[u]]] = child'[u] /\ pc'[owner'[child'[u]]] = "loop"
               /\ OnlySwitches(inbox'[owner'[child'[u]]])
    BY <1>1, <1>5, <1>7, <2>1, <2>2, <2>3, <2>5 DEF Children, Opening, Switched, Alike
  <2>6. \A v \in Windows : kind'[v] = "raw" => \E u \in Slots : pc'[u] = "start" /\ child'[u] = v
    <3> SUFFICES ASSUME NEW v \in Windows, kind'[v] = "raw"
                 PROVE  \E u \in Slots : pc'[u] = "start" /\ child'[u] = v
      OBVIOUS
    <3>1. kind[v] = "raw"
      BY <1>7
    <3>2. PICK u \in Slots : pc[u] = "start" /\ child[u] = v
      BY <3>1, <1>1 DEF Children
    <3>3. pc'[u] = "start" /\ child'[u] = v
      BY <3>2, <1>4, <1>7
    <3> QED BY <3>3
  <2> QED BY <1>1, <1>7, <2>1, <2>4, <2>5, <2>6 DEF Children
<1>15. Stack'
  <2>1. ASSUME NEW v \in Shown'
        PROVE  \/ kind'[v] = "app"
               \/ kind'[v] = "console" /\ owner'[v] \in Slots /\ sht'[owner'[v]] = v
    <3>1. CASE v = w
      BY <1>4, <1>7, <3>1
    <3>2. CASE v # w
      <4>1. v \in Shown /\ v \in Windows /\ v # None
        BY <1>0, <1>1, <1>8, <2>1, <3>2, TypeFacts
      <4>2. kind'[v] = kind[v] /\ owner'[v] = owner[v]
        BY <4>1, <1>7, <3>2
      <4>3. kind[v] = "app" \/ (kind[v] = "console" /\ owner[v] \in Slots /\ sht[owner[v]] = v)
        BY <4>1, <1>1 DEF Stack
      <4> QED BY <4>1, <4>2, <4>3, <1>4, <1>7
    <3> QED BY <3>1, <3>2
  <2> QED BY <2>1, <1>0, <1>2, <1>8 DEF Stack
<1>16. Aimed'
  BY <1>2, <1>8 DEF Aimed
<1>17. Apps'
  <2> SUFFICES ASSUME NEW v \in Windows, kind'[v] = "app"
               PROVE  owner'[v] \in Slots /\ pc'[owner'[v]] \in InApp \cup {"cleanup"}
    BY DEF Apps
  <2>1. kind[v] = "app" /\ owner'[v] = owner[v]
    BY <1>7
  <2>2. owner[v] \in Slots /\ pc[owner[v]] \in InApp \cup {"cleanup"} /\ owner[v] # t
    BY <2>1, <1>1, <1>4 DEF Apps, InApp
  <2> QED BY <2>1, <2>2, <1>7
<1>18. Room'
  <2>1. Starters' = Starters /\ FreeSlots' = FreeSlots \ {t}
    BY <1>4, <1>7 DEF Starters, FreeSlots
  <2> QED BY <1>4, <2>1 DEF Room
<1> QED BY <1>9, <1>10, <1>11, <1>12, <1>13, <1>14, <1>15, <1>16, <1>17, <1>18 DEF IInv

\* A line is read from the queue of a console, which is then busy.
LEMMA LineFacts ==
  ASSUME IInv, NEW t \in Slots, At(t, "loop", "line")
  PROVE  /\ Unawaited(t) /\ pc[t] = "loop"
         /\ Tail(inbox[t]) \in Seq(Data)
         /\ HasClose(Tail(inbox[t])) => HasClose(inbox[t])
         /\ OneClose(Tail(inbox[t]))
         /\ EndsOn(Tail(inbox[t]), cursor[t]) <=> EndsOn(inbox[t], cursor[t])
<1> DEFINE q == inbox[t]
<1>1. q \in Seq(Data) /\ q # <<>> /\ cursor[t] \in BOOLEAN /\ OneClose(q) /\ Head(q) \notin Switches
  BY TypeFacts DEF IInv, At, Boxes, Switches
<1>2. Unawaited(t)
  BY <1>1, UnawaitedFacts
<1> HIDE DEF q
<1>3. /\ Tail(q) \in Seq(Data)
      /\ HasClose(Tail(q)) => HasClose(q)
      /\ OneClose(Tail(q))
      /\ EndsOn(Tail(q), cursor[t]) <=> EndsOn(q, cursor[t])
  BY <1>1, TailQueue
<1> QED BY <1>2, <1>3 DEF q, At

\* cmd_open: a console without a window has the rest of the line.
LEMMA CmdOpenStep ==
  ASSUME IInv, NEW t \in Slots, CmdOpen(t)
  PROVE  IInv'
<1> DEFINE u == First(FreeSlots)
<1>1. /\ Types /\ Sheets /\ Boxes /\ Cursors /\ Letters
      /\ Children /\ Stack /\ Aimed /\ Apps /\ Room
  BY DEF IInv
<1>2. /\ inbox' = [inbox EXCEPT ![t] = Tail(inbox[t]), ![u] = <<"line">>]
      /\ pc' = [pc EXCEPT ![t] = Done(t), ![u] = "loop"]
      /\ sht' = [sht EXCEPT ![u] = None] /\ cursor' = [cursor EXCEPT ![u] = FALSE]
      /\ UNCHANGED <<windows, focus, mail, child>>
  BY DEF CmdOpen, StartConsole
<1>3. /\ u \in FreeSlots /\ u \in Slots /\ pc[u] = "free"
      /\ sht[u] = None /\ inbox[u] = <<>> /\ Unawaited(u)
      /\ Cardinality(Starters) <= Cardinality(FreeSlots \ {u})
  BY FreshSlot, SlotLeftFacts DEF CmdOpen
<1>4. /\ Unawaited(t) /\ pc[t] = "loop"
      /\ Tail(inbox[t]) \in Seq(Data)
      /\ HasClose(Tail(inbox[t])) => HasClose(inbox[t])
      /\ OneClose(Tail(inbox[t]))
      /\ EndsOn(Tail(inbox[t]), cursor[t]) <=> EndsOn(inbox[t], cursor[t])
  BY LineFacts DEF CmdOpen
<1>5. Done(t) \in {"loop", "exit"} /\ u # t
  BY <1>3, <1>4 DEF Done
<1> HIDE DEF u
<1>6. <<"line">> \in Seq(Data) /\ ~HasClose(<<"line">>) /\ OneClose(<<"line">>)
  <2> DEFINE e == <<>>
  <2>1. Append(e, "line") = <<"line">> /\ "line" \in Data /\ "line" # "close"
    BY DEF Data
  <2>2. e \in Seq(Data) /\ ~HasClose(e) /\ OneClose(e)
    BY EmptyQueue
  <2> HIDE DEF e
  <2>3. Append(e, "line") \in Seq(Data) /\ ~HasClose(Append(e, "line")) /\ OneClose(Append(e, "line"))
    BY <2>1, <2>2, AppendQueue
  <2> QED BY <2>1, <2>3
<1>7. /\ kind' = kind /\ owner' = owner /\ order' = order /\ key_win' = key_win /\ mail' = mail
      /\ child' = child /\ Sent' = Sent /\ Shown' = Shown /\ reused' = reused /\ Lit' = Lit
  BY <1>2 DEF windows, focus, Sent, Shown, Lit
<1>8. /\ pc'[u] = "loop" /\ pc'[t] \in {"loop", "exit"} /\ \A x \in Slots \ {t, u} : pc'[x] = pc[x]
      /\ inbox'[u] = <<"line">> /\ inbox'[t] = Tail(inbox[t])
      /\ \A x \in Slots \ {t, u} : inbox'[x] = inbox[x]
      /\ \A x \in Slots \ {u} : cursor'[x] = cursor[x]
      /\ sht' = sht
  BY <1>1, <1>2, <1>3, <1>5, TypeFacts
<1>9. Types'
  <2>1. /\ pc' \in [Slots -> Places] /\ cursor' \in [Slots -> BOOLEAN]
        /\ inbox' \in [Slots -> Seq(Data)]
    BY <1>1, <1>2, <1>4, <1>5, <1>6, TypeFacts DEF Places
  <2> QED BY <1>1, <1>7, <1>8, <2>1 DEF Types, TypeOK, Data, Switches, Windows, Slots, Messages, Places, InApp
<1>10. Sheets'
  BY <1>1, <1>3, <1>7, <1>8 DEF Sheets
<1>11. Boxes'
  BY <1>1, <1>3, <1>4, <1>6, <1>7, <1>8 DEF Boxes
<1>12. Cursors'
  BY <1>1, <1>3, <1>4, <1>7, <1>8 DEF Cursors
<1>13. Letters'
  <2>1. \A x \in Slots : pc'[x] = "ended" <=> pc[x] = "ended"
    BY <1>3, <1>4, <1>8
  <2> QED BY <1>1, <1>7, <1>8, <2>1 DEF Letters, Message
<1>14. Children'
  <2>1. \A x \in Slots : /\ pc'[x] \in Opening <=> pc[x] \in Opening
                         /\ pc'[x] \in Opening => pc'[x] = pc[x]
    BY <1>3, <1>4, <1>8 DEF Opening
  <2>2. \A x \in Slots : pc[x] \in {"show", "type"} => owner[child[x]] \in Slots \ {t, u}
    BY <1>1, <1>3, <1>4 DEF Children, Unawaited
  <2>3. \A x \in Slots : pc[x] \in {"show", "type"} =>
          pc'[owner[child[x]]] = "loop" /\ OnlySwitches(inbox'[owner[child[x]]])
    BY <1>1, <1>8, <2>2 DEF Children
  <2> QED BY <1>1, <1>7, <1>8, <2>1, <2>3 DEF Children, Opening
<1>15. Stack'
  BY <1>1, <1>7, <1>8 DEF Stack
<1>16. Aimed'
  <2>1. \A x \in Slots : pc[x] \in {"start", "show"} => pc'[x] = pc[x]
    BY <1>3, <1>4, <1>8
  <2> QED BY <1>1, <1>7, <2>1 DEF Aimed, Being
<1>17. Apps'
  <2>1. \A x \in Slots : pc[x] \in InApp \cup {"cleanup"} => pc'[x] = pc[x]
    BY <1>3, <1>4, <1>8 DEF InApp
  <2> QED BY <1>1, <1>7, <2>1 DEF Apps
<1>18. Room'
  <2>1. Starters' = Starters /\ FreeSlots' = FreeSlots \ {u}
    BY <1>3, <1>4, <1>8 DEF Starters, FreeSlots
  <2> QED BY <1>3, <2>1 DEF Room
<1> QED BY <1>9, <1>10, <1>11, <1>12, <1>13, <1>14, <1>15, <1>16, <1>17, <1>18 DEF IInv

\* cmd_start has the sheet for a console; it may be the one that had the focus.
LEMMA StartSheetStep ==
  ASSUME IInv, NEW t \in Slots, StartSheet(t)
  PROVE  IInv'
<1> DEFINE w == First(FreeWindows)
<1>1. /\ Types /\ Sheets /\ Boxes /\ Cursors /\ Letters
      /\ Children /\ Stack /\ Aimed /\ Apps /\ Room
  BY DEF IInv
<1>2. /\ inbox' = [inbox EXCEPT ![t] = Tail(inbox[t])]
      /\ kind' = [kind EXCEPT ![w] = "raw"] /\ owner' = [owner EXCEPT ![w] = None]
      /\ child' = [child EXCEPT ![t] = w] /\ pc' = [pc EXCEPT ![t] = "start"]
      /\ UNCHANGED <<order, key_win, mail, sht, cursor>> /\ reused' = (reused \/ w = key_win)
  BY DEF StartSheet, Take
<1>3. /\ w \in Windows /\ kind[w] = "free" /\ w \notin Shown
      /\ \A u \in Slots : sht[u] # w /\ (pc[u] \in Opening => child[u] # w)
  BY FreshWindow DEF StartSheet
<1>4. /\ Unawaited(t) /\ pc[t] = "loop"
      /\ Tail(inbox[t]) \in Seq(Data)
      /\ HasClose(Tail(inbox[t])) => HasClose(inbox[t])
      /\ OneClose(Tail(inbox[t]))
      /\ EndsOn(Tail(inbox[t]), cursor[t]) <=> EndsOn(inbox[t], cursor[t])
  BY LineFacts DEF StartSheet
<1>5. Cardinality(Starters) < Cardinality(FreeSlots)
  BY SlotLeftFacts DEF StartSheet
<1> HIDE DEF w
<1>6. /\ order' = order /\ key_win' = key_win /\ mail' = mail /\ sht' = sht /\ cursor' = cursor
      /\ Sent' = Sent /\ Shown' = Shown
  BY <1>2 DEF Sent, Shown
<1>7. /\ kind'[w] = "raw" /\ \A v \in Windows \ {w} : kind'[v] = kind[v]
      /\ owner'[w] = None /\ \A v \in Windows \ {w} : owner'[v] = owner[v]
      /\ pc'[t] = "start" /\ \A x \in Slots \ {t} : pc'[x] = pc[x]
      /\ child'[t] = w /\ \A x \in Slots \ {t} : child'[x] = child[x]
      /\ inbox'[t] = Tail(inbox[t]) /\ \A x \in Slots \ {t} : inbox'[x] = inbox[x]
  BY <1>1, <1>2, <1>3, TypeFacts
<1>8. Types'
  <2>1. /\ kind' \in [Windows -> {"free", "raw", "console", "app"}]
        /\ owner' \in [Windows -> Slots \cup {None}]
        /\ pc' \in [Slots -> Places] /\ child' \in [Slots -> Windows \cup {None}]
        /\ inbox' \in [Slots -> Seq(Data)]
    BY <1>1, <1>2, <1>3, <1>4, TypeFacts DEF Places
  <2>2. reused' \in BOOLEAN
    BY <1>1, <1>2, TypeFacts
  <2> QED BY <1>1, <1>6, <2>1, <2>2 DEF Types, TypeOK, Data, Switches, Windows, Slots, Messages, Places, InApp
<1>9. \A x \in Slots : sht[x] # None => sht[x] \in Windows \ {w}
  BY <1>1, <1>3, TypeFacts
<1>10. Sheets'
  BY <1>1, <1>6, <1>7, <1>9 DEF Sheets
<1>11. Boxes'
  BY <1>1, <1>4, <1>6, <1>7 DEF Boxes
<1>12. Cursors'
  <2>1. \A x \in Slots : sht[x] # None => (sht[x] = Lit' <=> sht[x] = Lit)
    BY <1>2, <1>3, <1>6 DEF Lit
  <2> QED BY <1>1, <1>4, <1>6, <1>7, <2>1 DEF Cursors
<1>13. Letters'
  <2>1. \A x \in Slots : pc'[x] = "ended" <=> pc[x] = "ended"
    BY <1>4, <1>7
  <2>2. \A v \in Windows : kind'[v] = "console" <=> kind[v] = "console"
    BY <1>3, <1>7
  <2> QED BY <1>1, <1>6, <2>1, <2>2 DEF Letters, Message
<1>14. Children'
  <2>1. \A x \in Slots \ {t} : pc[x] \in Opening => child[x] \in Windows \ {w}
    BY <1>1, <1>3 DEF Children
  <2>2. \A x \in Slots : pc[x] \in {"show", "type"} => x # t /\ owner[child[x]] \in Slots \ {t}
    BY <1>1, <1>4 DEF Children, Unawaited
  <2>3. ASSUME NEW x \in Slots
        PROVE  /\ pc'[x] \in Opening => child'[x] \in Windows
               /\ pc'[x] = "start" => kind'[child'[x]] = "raw" /\ owner'[child'[x]] = None
               /\ pc'[x] \in {"show", "type"} =>
                    /\ owner'[child'[x]] \in Slots
                    /\ sht'[owner'[child'[x]]] = child'[x] /\ pc'[owner'[child'[x]]] = "loop"
                    /\ OnlySwitches(inbox'[owner'[child'[x]]])
               /\ pc'[x] = "show" => child'[x] \notin Shown'
    <3>1. CASE x = t
      BY <1>3, <1>7, <3>1
    <3>2. CASE x # t
      <4>1. pc'[x] = pc[x] /\ child'[x] = child[x]
        BY <1>7, <3>2
      <4>2. pc[x] \in Opening => /\ child[x] \in Windows
                                 /\ kind'[child[x]] = kind[child[x]]
                                 /\ owner'[child[x]] = owner[child[x]]
        BY <1>7, <2>1, <3>2
      <4>3. pc[x] \in {"show", "type"} => inbox'[owner[child[x]]] = inbox[owner[child[x]]]
                                          /\ pc'[owner[child[x]]] = pc[owner[child[x]]]
        BY <1>7, <2>2
      <4> QED BY <4>1, <4>2, <4>3, <1>1, <1>6 DEF Children, Opening
    <3> QED BY <3>1, <3>2
  <2>4. ASSUME NEW x \in Slots, NEW y \in Slots, pc'[x] \in Opening, pc'[y] \in Opening, child'[x] = child'[y]
        PROVE  x = y
    BY <1>1, <1>7, <2>1, <2>4 DEF Children
  <2>5. ASSUME NEW v \in Windows, kind'[v] = "raw"
        PROVE  \E x \in Slots : pc'[x] = "start" /\ child'[x] = v
    <3>1. CASE v = w
      BY <1>7, <3>1
    <3>2. CASE v # w
      <4>1. PICK x \in Slots : pc[x] = "start" /\ child[x] = v
        BY <1>1, <1>7, <2>5, <3>2 DEF Children
      <4> QED BY <4>1, <1>4, <1>7
    <3> QED BY <3>1, <3>2
  <2> QED BY <2>3, <2>4, <2>5 DEF Children
<1>15. Stack'
  <2>1. \A v \in Shown : v \in Windows \ {w}
    BY <1>1, <1>3, TypeFacts
  <2> QED BY <1>1, <1>6, <1>7, <2>1 DEF Stack
<1>16. Aimed'
  <2>1. CASE key_win = w
    BY <1>2, <1>6, <1>7, <2>1 DEF Aimed, Being
  <2>2. CASE key_win # w
    <3>1. Being(key_win) => Being(key_win)'
      <4>1. \A x \in Slots : pc[x] \in {"start", "show"} => x # t
        BY <1>4
      <4> QED BY <4>1, <1>6, <1>7 DEF Being
    <3> QED BY <1>1, <1>2, <1>6, <1>7, <2>2, <3>1 DEF Aimed
  <2> QED BY <2>1, <2>2
<1>17. Apps'
  <2> SUFFICES ASSUME NEW v \in Windows, kind'[v] = "app"
               PROVE  owner'[v] \in Slots /\ pc'[owner'[v]] \in InApp \cup {"cleanup"}
    BY DEF Apps
  <2>1. kind[v] = "app" /\ owner'[v] = owner[v]
    BY <1>7
  <2>2. owner[v] \in Slots /\ pc[owner[v]] \in InApp \cup {"cleanup"} /\ owner[v] # t
    BY <2>1, <1>1, <1>4 DEF Apps, InApp
  <2> QED BY <2>1, <2>2, <1>7
<1>18. Room'
  <2>1. Starters' = Starters \cup {t} /\ FreeSlots' = FreeSlots
    BY <1>4, <1>7 DEF Starters, FreeSlots
  <2> DEFINE n == Cardinality(Starters)
             f == Cardinality(FreeSlots)
  <2>2. n \in Nat /\ f \in Nat /\ n < f
    BY <1>5, RoomFacts
  <2>3. Cardinality(Starters') = n + 1
    <3>1. t \notin Starters
      BY <1>4 DEF Starters
    <3> QED BY <3>1, <2>1, RoomFacts, FS_AddElement
  <2>4. Cardinality(FreeSlots') = f
    BY <2>1
  <2> HIDE DEF n, f
  <2>5. Cardinality(Starters') <= Cardinality(FreeSlots')
    BY <2>2, <2>3, <2>4
  <2> QED BY <2>5 DEF Room
<1> QED BY <1>8, <1>10, <1>11, <1>12, <1>13, <1>14, <1>15, <1>16, <1>17, <1>18 DEF IInv

\* The task cmd_start needs for the new console is there.
LEMMA StartTaskStep ==
  ASSUME IInv, NEW t \in Slots, StartTask(t)
  PROVE  IInv'
<1> DEFINE u == First(FreeSlots)
           w == child[t]
<1>1. /\ Types /\ Sheets /\ Boxes /\ Cursors /\ Letters
      /\ Children /\ Stack /\ Aimed /\ Apps /\ Room
  BY DEF IInv
<1>2. /\ kind' = [kind EXCEPT ![w] = "console"] /\ owner' = [owner EXCEPT ![w] = u]
      /\ pc' = [pc EXCEPT ![t] = "show", ![u] = "loop"]
      /\ sht' = [sht EXCEPT ![u] = w] /\ cursor' = [cursor EXCEPT ![u] = FALSE]
      /\ inbox' = [inbox EXCEPT ![u] = <<>>] /\ pc[t] = "start"
      /\ UNCHANGED <<order, focus, mail, child>>
  BY DEF StartTask, StartConsole
<1>3. FreeSlots # {} /\ Cardinality(Starters \ {t}) <= Cardinality(FreeSlots) - 1
  <2> DEFINE n == Cardinality(Starters)
             f == Cardinality(FreeSlots)
  <2>1. n \in Nat /\ f \in Nat /\ n <= f
    BY <1>1, RoomFacts DEF Room
  <2>2. t \in Starters
    BY <1>2 DEF Starters
  <2>3. Cardinality(Starters \ {t}) = n - 1 /\ n # 0
    BY <2>2, RoomFacts, FS_RemoveElement, FS_EmptySet
  <2>4. FreeSlots = {} => f = 0
    BY FS_EmptySet
  <2> HIDE DEF n, f
  <2>5. FreeSlots # {} /\ n - 1 <= f - 1
    BY <2>1, <2>3, <2>4
  <2> QED BY <2>3, <2>5 DEF f
<1>4. /\ u \in FreeSlots /\ u \in Slots /\ pc[u] = "free"
      /\ sht[u] = None /\ inbox[u] = <<>> /\ Unawaited(u)
  BY <1>3, FreshSlot
<1>5. w \in Windows /\ kind[w] = "raw" /\ w \notin Shown
  <2>1. w \in Windows /\ kind[w] = "raw"
    BY <1>1, <1>2 DEF Children, Opening
  <2> QED BY <2>1, <1>1 DEF Stack
<1> HIDE DEF u, w
<1>6. \A x \in Slots : /\ sht[x] # w
                       /\ x # t /\ pc[x] \in Opening => child[x] \in Windows \ {w}
  <2>1. \A x \in Slots : sht[x] # w
    BY <1>1, <1>5, TypeFacts DEF Sheets
  <2>2. \A x \in Slots : x # t /\ pc[x] \in Opening => child[x] \in Windows \ {w}
    BY <1>1, <1>2 DEF Children, Opening, w
  <2> QED BY <2>1, <2>2
<1>0. w # None /\ Lit # w /\ u # t /\ child[t] = w
  <2>1. w # None /\ u # t /\ child[t] = w
    BY <1>1, <1>2, <1>4, <1>5, TypeFacts DEF w
  <2>2. Lit # w
    BY <2>1, <1>1, <1>5 DEF Aimed, Lit
  <2> QED BY <2>1, <2>2
<1>7. /\ kind'[w] = "console" /\ \A v \in Windows \ {w} : kind'[v] = kind[v]
      /\ owner'[w] = u /\ \A v \in Windows \ {w} : owner'[v] = owner[v]
      /\ pc'[t] = "show" /\ pc'[u] = "loop" /\ \A x \in Slots \ {t, u} : pc'[x] = pc[x]
      /\ sht'[u] = w /\ \A x \in Slots \ {u} : sht'[x] = sht[x]
      /\ cursor'[u] = FALSE /\ \A x \in Slots \ {u} : cursor'[x] = cursor[x]
      /\ inbox' = inbox
      /\ order' = order /\ key_win' = key_win /\ mail' = mail /\ child' = child
      /\ Sent' = Sent /\ Shown' = Shown /\ reused' = reused /\ Lit' = Lit
  BY <1>0, <1>1, <1>2, <1>4, <1>5, TypeFacts DEF Sent, Shown, focus, Lit
<1>8. ~HasClose(<<>>) /\ OneClose(<<>>) /\ OnlySwitches(<<>>) /\ ~EndsOn(<<>>, FALSE)
  BY EmptyQueue
<1>9. Types'
  <2>1. /\ kind' \in [Windows -> {"free", "raw", "console", "app"}]
        /\ owner' \in [Windows -> Slots \cup {None}]
        /\ pc' \in [Slots -> Places] /\ sht' \in [Slots -> Windows \cup {None}]
        /\ cursor' \in [Slots -> BOOLEAN]
    BY <1>1, <1>2, <1>4, <1>5, TypeFacts DEF Places
  <2> QED BY <1>1, <1>7, <2>1 DEF Types, TypeOK, Data, Switches, Windows, Slots, Messages, Places, InApp
<1>10. Sheets'
  <2> SUFFICES ASSUME NEW x \in Slots, sht'[x] # None
               PROVE  pc'[x] # "free" /\ kind'[sht'[x]] = "console" /\ owner'[sht'[x]] = x
    BY DEF Sheets
  <2>1. CASE x = u
    BY <1>7, <2>1
  <2>2. CASE x # u
    <3>1. sht'[x] = sht[x] /\ sht[x] \in Windows \ {w}
      BY <1>1, <1>6, <1>7, <2>2, TypeFacts
    <3> QED BY <3>1, <2>2, <1>1, <1>7 DEF Sheets
  <2> QED BY <2>1, <2>2
<1>11. Boxes'
  <2> SUFFICES ASSUME NEW x \in Slots
               PROVE  /\ pc'[x] = "free" => inbox'[x] = <<>>
                      /\ OneClose(inbox'[x])
                      /\ pc'[x] = "hiding" => ~HasClose(inbox'[x])
                      /\ HasClose(inbox'[x]) \/ pc'[x] = "hiding" =>
                           sht'[x] # None /\ sht'[x] \notin Shown'
    BY DEF Boxes
  <2>1. CASE x = u
    BY <1>4, <1>7, <1>8, <2>1
  <2>2. CASE x # u
    BY <1>1, <1>7, <2>2 DEF Boxes
  <2> QED BY <2>1, <2>2
<1>12. Cursors'
  <2> SUFFICES ASSUME NEW x \in Slots, sht'[x] # None
               PROVE  EndsOn(inbox'[x], cursor'[x]) <=> sht'[x] = Lit'
    BY DEF Cursors
  <2>1. CASE x = u
    BY <1>0, <1>4, <1>7, <1>8, <2>1
  <2>2. CASE x # u
    BY <1>1, <1>7, <2>2 DEF Cursors
  <2> QED BY <2>1, <2>2
<1>13. Letters'
  <2>1. \A x \in Slots : pc'[x] = "ended" <=> pc[x] = "ended" /\ x # u
    BY <1>2, <1>4, <1>7
  <2>2. \A x \in Slots : pc'[x] = "ended" => sht'[x] = sht[x]
    BY <1>7, <2>1
  <2>3. \A x \in Slots : pc[x] = "ended" <=> pc'[x] = "ended"
    BY <1>4, <2>1
  <2>4. ASSUME NEW v \in Windows
        PROVE  kind'[v] = "console" /\ (\A x \in Slots : sht'[x] # v) <=>
               kind[v] = "console" /\ (\A x \in Slots : sht[x] # v)
    <3>1. CASE v = w
      BY <1>4, <1>5, <1>7, <3>1
    <3>2. CASE v # w
      <4>1. v # None
        BY <1>1, TypeFacts
      <4>2. \A x \in Slots : sht'[x] = v <=> sht[x] = v
        BY <4>1, <1>4, <1>7, <3>2
      <4> QED BY <4>2, <1>7, <3>2
    <3> QED BY <3>1, <3>2
  <2> QED BY <1>1, <1>7, <2>2, <2>3, <2>4 DEF Letters, Message
<1>14. Children'
  <2>1. \A x \in Slots : /\ pc'[x] \in Opening <=> pc[x] \in Opening
                         /\ x # t /\ pc'[x] \in Opening => pc'[x] = pc[x]
    BY <1>2, <1>4, <1>7 DEF Opening
  <2>2. \A x \in Slots : pc[x] \in {"show", "type"} => owner[child[x]] \in Slots \ {t, u}
    BY <1>1, <1>2, <1>4 DEF Children, Unawaited
  <2>3. ASSUME NEW x \in Slots
        PROVE  /\ pc'[x] \in Opening => child'[x] \in Windows
               /\ pc'[x] = "start" => kind'[child'[x]] = "raw" /\ owner'[child'[x]] = None
               /\ pc'[x] \in {"show", "type"} =>
                    /\ owner'[child'[x]] \in Slots
                    /\ sht'[owner'[child'[x]]] = child'[x] /\ pc'[owner'[child'[x]]] = "loop"
                    /\ OnlySwitches(inbox'[owner'[child'[x]]])
               /\ pc'[x] = "show" => child'[x] \notin Shown'
    <3>1. CASE x = t
      BY <1>0, <1>4, <1>5, <1>7, <1>8, <3>1
    <3>2. CASE x # t
      <4>1. pc'[x] \in Opening => /\ pc'[x] = pc[x] /\ child[x] \in Windows
                                  /\ kind'[child[x]] = kind[child[x]]
                                  /\ owner'[child[x]] = owner[child[x]]
        BY <1>6, <1>7, <2>1, <3>2
      <4>2. pc[x] \in {"show", "type"} => /\ sht'[owner[child[x]]] = sht[owner[child[x]]]
                                          /\ pc'[owner[child[x]]] = pc[owner[child[x]]]
        BY <1>7, <2>2
      <4> QED BY <4>1, <4>2, <1>1, <1>7 DEF Children, Opening
    <3> QED BY <3>1, <3>2
  <2>4. ASSUME NEW v \in Windows, kind'[v] = "raw"
        PROVE  \E x \in Slots : pc'[x] = "start" /\ child'[x] = v
    <3>1. kind[v] = "raw" /\ v # w
      BY <1>7, <2>4
    <3>2. PICK x \in Slots : pc[x] = "start" /\ child[x] = v
      BY <1>1, <3>1 DEF Children
    <3>3. x # t /\ x # u
      BY <1>0, <1>4, <3>1, <3>2
    <3> QED BY <3>2, <3>3, <1>7
  <2> QED BY <1>1, <1>7, <2>1, <2>3, <2>4 DEF Children
<1>15. Stack'
  <2>1. \A v \in Shown : v \in Windows \ {w} /\ v # None
    BY <1>1, <1>5, TypeFacts
  <2>2. \A v \in Shown : kind[v] = "console" => owner[v] \in Slots \ {u} /\ sht[owner[v]] = v
    BY <1>1, <1>4, <2>1 DEF Stack
  <2>3. \A v \in Shown : kind[v] = "console" => sht'[owner[v]] = v
    BY <1>7, <2>2
  <2> QED BY <1>1, <1>7, <2>1, <2>2, <2>3 DEF Stack
<1>16. Aimed'
  <2>1. CASE key_win = w
    <3>1. reused' /\ pc'[t] = "show" /\ child'[t] = w
      BY <1>0, <1>1, <1>5, <1>7, <2>1 DEF Aimed
    <3> QED BY <3>1, <1>7, <2>1 DEF Aimed, Being
  <2>2. CASE key_win # w
    <3>1. Being(key_win) => Being(key_win)'
      <4>1. \A x \in Slots : pc[x] \in {"start", "show"} => x = t \/ (x # u /\ pc'[x] = pc[x])
        BY <1>4, <1>7
      <4> QED BY <4>1, <1>0, <1>7, <2>2 DEF Being
    <3> QED BY <1>1, <1>7, <2>2, <3>1 DEF Aimed
  <2> QED BY <2>1, <2>2
<1>17. Apps'
  <2> SUFFICES ASSUME NEW v \in Windows, kind'[v] = "app"
               PROVE  owner'[v] \in Slots /\ pc'[owner'[v]] \in InApp \cup {"cleanup"}
    BY DEF Apps
  <2>1. kind[v] = "app" /\ owner'[v] = owner[v]
    BY <1>7
  <2>2. owner[v] \in Slots \ {t, u} /\ pc[owner[v]] \in InApp \cup {"cleanup"}
    BY <2>1, <1>1, <1>2, <1>4 DEF Apps, InApp
  <2> QED BY <2>1, <2>2, <1>7
<1>18. Room'
  <2>0. /\ \A x \in Slots : pc'[x] = "start" <=> pc[x] = "start" /\ x # t
        /\ \A x \in Slots : pc'[x] = "free" <=> pc[x] = "free" /\ x # u
    BY <1>2, <1>4, <1>7
  <2>1. Starters' = Starters \ {t} /\ FreeSlots' = FreeSlots \ {u}
    BY <2>0 DEF Starters, FreeSlots
  <2>2. Cardinality(FreeSlots \ {u}) = Cardinality(FreeSlots) - 1
    BY <1>4, RoomFacts, FS_RemoveElement
  <2> QED BY <2>1, <2>2, <1>3 DEF Room
<1> QED BY <1>9, <1>10, <1>11, <1>12, <1>13, <1>14, <1>15, <1>16, <1>17, <1>18 DEF IInv

\* The new console comes on the screen; it was not told to close.
LEMMA StartShowStep ==
  ASSUME IInv, NEW t \in Slots, StartShow(t)
  PROVE  IInv'
<1> DEFINE w == child[t]
           o == owner[w]
<1>1. /\ Types /\ Sheets /\ Boxes /\ Cursors /\ Letters
      /\ Children /\ Stack /\ Aimed /\ Apps /\ Room
  BY DEF IInv
<1>2. /\ order' = Append(order, w) /\ pc' = [pc EXCEPT ![t] = "type"] /\ pc[t] = "show"
      /\ UNCHANGED <<kind, owner, focus, mail, sht, inbox, cursor, child>>
  BY DEF StartShow
<1>3. /\ w \in Windows /\ w \notin Shown /\ o \in Slots /\ sht[o] = w /\ pc[o] = "loop"
      /\ OnlySwitches(inbox[o])
  BY <1>1, <1>2 DEF Children, Opening
<1>4. kind[w] = "console" /\ ~HasClose(inbox[o]) /\ \A x \in Slots : sht[x] = w => x = o
  <2>1. w # None
    BY <1>1, <1>3, TypeFacts
  <2> QED BY <2>1, <1>1, <1>3 DEF Sheets, HasClose, OnlySwitches, Switches
<1>5. \A x \in Slots : x # t /\ pc[x] \in Opening => child[x] # w
  BY <1>1, <1>2 DEF Children, Opening
<1> HIDE DEF w, o
<1>6. order' \in Seq(Windows) /\ IsInjective(order') /\ Shown' = Shown \cup {w}
  BY <1>1, <1>2, <1>3, AppendRange, TypeFacts DEF Stack, Shown
<1>7. /\ kind' = kind /\ owner' = owner /\ key_win' = key_win /\ mail' = mail /\ sht' = sht
      /\ inbox' = inbox /\ cursor' = cursor /\ child' = child /\ Sent' = Sent
      /\ pc'[t] = "type" /\ \A x \in Slots \ {t} : pc'[x] = pc[x]
      /\ reused' = reused /\ Lit' = Lit
  BY <1>1, <1>2, TypeFacts DEF Sent, focus, Lit
<1>8. Types'
  <2>1. pc' \in [Slots -> Places]
    BY <1>1, <1>2, TypeFacts DEF Places
  <2> QED BY <1>1, <1>6, <1>7, <2>1 DEF Types, TypeOK, Data, Switches, Windows, Slots, Messages, Places, InApp
<1>9. \A x \in Slots : /\ pc'[x] = "free" <=> pc[x] = "free"
                       /\ pc'[x] = "hiding" <=> pc[x] = "hiding"
                       /\ pc'[x] = "ended" <=> pc[x] = "ended"
                       /\ pc'[x] = "start" <=> pc[x] = "start"
                       /\ pc'[x] \in {"show", "type"} <=> pc[x] \in {"show", "type"}
                       /\ pc'[x] = "show" => pc[x] = "show" /\ x # t
                       /\ pc[x] = "loop" => pc'[x] = "loop"
                       /\ pc[x] \in InApp \cup {"cleanup"} => pc'[x] \in InApp \cup {"cleanup"}
  BY <1>2, <1>7 DEF InApp
<1>10. Sheets'
  BY <1>1, <1>7, <1>9 DEF Sheets
<1>11. Boxes'
  <2>1. \A x \in Slots : HasClose(inbox[x]) \/ pc[x] = "hiding" => sht[x] # w
    BY <1>3, <1>4
  <2> QED BY <2>1, <1>1, <1>6, <1>7, <1>9 DEF Boxes
<1>12. Cursors'
  BY <1>1, <1>7 DEF Cursors
<1>13. Letters'
  BY <1>1, <1>7, <1>9 DEF Letters, Message
<1>14. Children'
  <2>1. \A x \in Slots : pc'[x] = "show" => child[x] \notin Shown'
    BY <1>1, <1>5, <1>6, <1>9 DEF Children, Opening
  <2> QED BY <2>1, <1>1, <1>7, <1>9 DEF Children, Opening
<1>15. Stack'
  BY <1>1, <1>3, <1>4, <1>6, <1>7 DEF Stack, o
<1>16. Aimed'
  <2>1. Being(key_win) => key_win = w \/ Being(key_win)'
    <3>1. \A x \in Slots : pc[x] \in {"start", "show"} => child[x] = w \/ pc'[x] = pc[x]
      BY <1>7 DEF w
    <3> QED BY <3>1, <1>7 DEF Being
  <2> QED BY <1>1, <1>6, <1>7, <2>1 DEF Aimed
<1>17. Apps'
  BY <1>1, <1>7, <1>9 DEF Apps
<1>18. Room'
  <2>1. Starters' = Starters /\ FreeSlots' = FreeSlots
    BY <1>9 DEF Starters, FreeSlots
  <2> QED BY <1>1, <2>1 DEF Room
<1> QED BY <1>8, <1>10, <1>11, <1>12, <1>13, <1>14, <1>15, <1>16, <1>17, <1>18 DEF IInv

\* The new console has its line, and nobody types into it any more.
LEMMA StartTypeStep ==
  ASSUME IInv, NEW t \in Slots, StartType(t)
  PROVE  IInv'
<1> DEFINE w == child[t]
           o == owner[w]
<1>1. /\ Types /\ Sheets /\ Boxes /\ Cursors /\ Letters
      /\ Children /\ Stack /\ Aimed /\ Apps /\ Room
  BY DEF IInv
<1>2. /\ inbox' = [inbox EXCEPT ![o] = Append(inbox[o], "line")]
      /\ pc' = [pc EXCEPT ![t] = Done(t)] /\ pc[t] = "type" /\ child' = [child EXCEPT ![t] = None]
      /\ UNCHANGED <<windows, focus, mail, sht, cursor>>
  BY DEF StartType, Put
<1>3. /\ w \in Windows /\ o \in Slots /\ sht[o] = w /\ pc[o] = "loop" /\ OnlySwitches(inbox[o])
      /\ Done(t) \in {"loop", "exit"}
  BY <1>1, <1>2 DEF Children, Opening, Done
<1>4. \A x \in Slots : x # t /\ pc[x] \in {"show", "type"} => owner[child[x]] \in Slots \ {o, t}
  <2> SUFFICES ASSUME NEW x \in Slots, x # t, pc[x] \in {"show", "type"}
               PROVE  owner[child[x]] \in Slots \ {o, t}
    OBVIOUS
  <2>1. /\ owner[child[x]] \in Slots /\ sht[owner[child[x]]] = child[x]
        /\ pc[owner[child[x]]] = "loop" /\ child[x] # w
    BY <1>1, <1>2 DEF Children, Opening
  <2> QED BY <2>1, <1>2, <1>3
<1> HIDE DEF w, o
<1>5. /\ inbox'[o] = Append(inbox[o], "line") /\ inbox'[o] \in Seq(Data) /\ inbox'[o] # <<>>
      /\ HasClose(inbox'[o]) <=> HasClose(inbox[o])
      /\ OneClose(inbox[o]) => OneClose(inbox'[o])
      /\ EndsOn(inbox'[o], cursor[o]) <=> EndsOn(inbox[o], cursor[o])
  <2> DEFINE q == inbox[o]
  <2>1. q \in Seq(Data) /\ cursor[o] \in BOOLEAN /\ inbox'[o] = Append(q, "line")
    BY <1>1, <1>2, <1>3, TypeFacts
  <2>2. "line" \in Data /\ "line" # "close" /\ "line" \notin Switches
    BY DEF Data, Switches
  <2> HIDE DEF q
  <2>3. /\ Append(q, "line") \in Seq(Data) /\ Append(q, "line") # <<>>
        /\ HasClose(Append(q, "line")) <=> HasClose(q)
        /\ OneClose(q) => OneClose(Append(q, "line"))
        /\ EndsOn(Append(q, "line"), cursor[o]) <=> EndsOn(q, cursor[o])
    BY <2>1, <2>2, AppendQueue
  <2> QED BY <2>1, <2>3 DEF q
<1>6. /\ kind' = kind /\ owner' = owner /\ key_win' = key_win /\ mail' = mail /\ sht' = sht
      /\ cursor' = cursor /\ order' = order /\ Sent' = Sent /\ Shown' = Shown
      /\ \A x \in Slots \ {t} : pc'[x] = pc[x] /\ child'[x] = child[x]
      /\ pc'[t] \in {"loop", "exit"}
      /\ \A x \in Slots \ {o} : inbox'[x] = inbox[x]
      /\ reused' = reused /\ Lit' = Lit
  BY <1>1, <1>2, <1>3, TypeFacts DEF Sent, Shown, windows, focus, Lit
<1>7. Types'
  <2>1. /\ pc' \in [Slots -> Places] /\ inbox' \in [Slots -> Seq(Data)]
        /\ child' \in [Slots -> Windows \cup {None}]
    BY <1>1, <1>2, <1>3, <1>5, TypeFacts DEF Places
  <2> QED BY <1>1, <1>6, <2>1 DEF Types, TypeOK, Data, Switches, Windows, Slots, Messages, Places, InApp
<1>8. \A x \in Slots : /\ pc'[x] = "free" <=> pc[x] = "free"
                       /\ pc'[x] = "hiding" <=> pc[x] = "hiding"
                       /\ pc'[x] = "ended" <=> pc[x] = "ended"
                       /\ pc'[x] = "start" <=> pc[x] = "start"
                       /\ pc[x] \in InApp \cup {"cleanup"} => pc'[x] \in InApp \cup {"cleanup"}
                       /\ pc'[x] \in Opening => x # t /\ pc'[x] = pc[x] /\ child'[x] = child[x]
  BY <1>2, <1>6 DEF InApp, Opening
<1>9. Sheets'
  BY <1>1, <1>6, <1>8 DEF Sheets
<1>10. Boxes'
  BY <1>1, <1>3, <1>5, <1>6, <1>8 DEF Boxes
<1>11. Cursors'
  BY <1>1, <1>5, <1>6 DEF Cursors
<1>12. Letters'
  BY <1>1, <1>6, <1>8 DEF Letters, Message
<1>13. Children'
  <2>1. ASSUME NEW x \in Slots
        PROVE  /\ pc'[x] \in Opening => child'[x] \in Windows
               /\ pc'[x] = "start" => kind'[child'[x]] = "raw" /\ owner'[child'[x]] = None
               /\ pc'[x] \in {"show", "type"} =>
                    /\ owner'[child'[x]] \in Slots
                    /\ sht'[owner'[child'[x]]] = child'[x] /\ pc'[owner'[child'[x]]] = "loop"
                    /\ OnlySwitches(inbox'[owner'[child'[x]]])
               /\ pc'[x] = "show" => child'[x] \notin Shown'
    <3>1. pc[x] \in {"show", "type"} /\ x # t =>
            /\ pc'[owner[child[x]]] = pc[owner[child[x]]]
            /\ inbox'[owner[child[x]]] = inbox[owner[child[x]]]
      BY <1>4, <1>6
    <3> QED BY <3>1, <1>1, <1>6, <1>8 DEF Children, Opening
  <2>2. \A v \in Windows : kind'[v] = "raw" => \E x \in Slots : pc'[x] = "start" /\ child'[x] = v
    BY <1>1, <1>2, <1>6 DEF Children
  <2> QED BY <2>1, <2>2, <1>1, <1>8 DEF Children
<1>14. Stack'
  BY <1>1, <1>6 DEF Stack
<1>15. Aimed'
  <2>1. \A x \in Slots : pc[x] \in {"start", "show"} => x # t
    BY <1>2
  <2> QED BY <1>1, <1>6, <2>1 DEF Aimed, Being
<1>16. Apps'
  BY <1>1, <1>6, <1>8 DEF Apps
<1>17. Room'
  <2>1. Starters' = Starters /\ FreeSlots' = FreeSlots
    BY <1>8 DEF Starters, FreeSlots
  <2> QED BY <1>1, <2>1 DEF Room
<1> QED BY <1>7, <1>9, <1>10, <1>11, <1>12, <1>13, <1>14, <1>15, <1>16, <1>17 DEF IInv

-----------------------------------------------------------------------------
(* Windows of applications. *)

\* API 5: the window is in use and on the screen, its task runs.
LEMMA OpenWindowStep ==
  ASSUME IInv, NEW t \in Slots, OpenWindow(t)
  PROVE  IInv'
<1> DEFINE w == First(FreeWindows)
<1>1. /\ Types /\ Sheets /\ Boxes /\ Cursors /\ Letters
      /\ Children /\ Stack /\ Aimed /\ Apps /\ Room
  BY DEF IInv
<1>2. /\ kind' = [kind EXCEPT ![w] = "app"] /\ owner' = [owner EXCEPT ![w] = t]
      /\ order' = Append(order, w) /\ pc[t] = "app"
      /\ UNCHANGED <<focus, mail, pc, sht, inbox, cursor, child>>
  BY DEF OpenWindow, tasks
<1>3. /\ w \in Windows /\ kind[w] = "free" /\ w \notin Shown
      /\ \A u \in Slots : sht[u] # w /\ (pc[u] \in Opening => child[u] # w)
  BY FreshWindow DEF OpenWindow
<1> HIDE DEF w
<1>4. order' \in Seq(Windows) /\ IsInjective(order') /\ Shown' = Shown \cup {w}
  BY <1>1, <1>2, <1>3, AppendRange, TypeFacts DEF Stack, Shown
<1>5. /\ kind'[w] = "app" /\ \A v \in Windows \ {w} : kind'[v] = kind[v]
      /\ owner'[w] = t /\ \A v \in Windows \ {w} : owner'[v] = owner[v]
      /\ key_win' = key_win /\ mail' = mail /\ pc' = pc /\ sht' = sht /\ inbox' = inbox
      /\ cursor' = cursor /\ child' = child /\ Sent' = Sent /\ reused' = reused /\ Lit' = Lit
  BY <1>1, <1>2, <1>3, TypeFacts DEF Sent, focus, Lit
<1>6. Types'
  <2>1. /\ kind' \in [Windows -> {"free", "raw", "console", "app"}]
        /\ owner' \in [Windows -> Slots \cup {None}]
    BY <1>1, <1>2, <1>3, TypeFacts
  <2> QED BY <1>1, <1>4, <1>5, <2>1 DEF Types, TypeOK, Data, Switches, Windows, Slots, Messages, Places, InApp
<1>7. \A x \in Slots : sht[x] # None => sht[x] \in Windows \ {w}
  BY <1>1, <1>3, TypeFacts
<1>8. Sheets'
  BY <1>1, <1>5, <1>7 DEF Sheets
<1>9. Boxes'
  BY <1>1, <1>3, <1>4, <1>5 DEF Boxes
<1>10. Cursors'
  BY <1>1, <1>5 DEF Cursors
<1>11. Letters'
  <2>1. \A v \in Windows : kind'[v] = "console" <=> kind[v] = "console"
    BY <1>3, <1>5
  <2> QED BY <1>1, <1>5, <2>1 DEF Letters, Message
<1>12. Children'
  <2>1. \A x \in Slots : pc[x] \in Opening => child[x] \in Windows \ {w}
    BY <1>1, <1>3 DEF Children
  <2>2. \A x \in Slots : pc[x] \in Opening => /\ kind'[child[x]] = kind[child[x]]
                                              /\ owner'[child[x]] = owner[child[x]]
    BY <1>5, <2>1
  <2>3. \A v \in Windows : kind'[v] = "raw" => kind[v] = "raw"
    BY <1>5
  <2>4. \A x \in Slots : pc[x] = "show" => child[x] \notin Shown'
    BY <1>1, <1>4, <2>1 DEF Children, Opening
  <2> QED BY <1>1, <1>5, <2>1, <2>2, <2>3, <2>4 DEF Children, Opening
<1>13. Stack'
  <2>1. \A v \in Shown : v \in Windows \ {w}
    BY <1>1, <1>3, TypeFacts
  <2> QED BY <1>1, <1>4, <1>5, <2>1 DEF Stack
<1>14. Aimed'
  BY <1>1, <1>4, <1>5 DEF Aimed, Being
<1>15. Apps'
  BY <1>1, <1>2, <1>5 DEF Apps, InApp
<1>16. Room'
  <2>1. Starters' = Starters /\ FreeSlots' = FreeSlots
    BY <1>5 DEF Starters, FreeSlots
  <2> QED BY <1>1, <2>1 DEF Room
<1> QED BY <1>6, <1>8, <1>9, <1>10, <1>11, <1>12, <1>13, <1>14, <1>15, <1>16 DEF IInv

\* Whether it is on the screen or not, a window is not afterwards.
LEMMA HiddenFacts ==
  ASSUME Types, Stack, NEW w
  PROVE  /\ Without(w) \in Seq(Windows) /\ IsInjective(Without(w))
         /\ Range(Without(w)) = Shown \ {w}
<1>1. CASE w \in Shown
  BY <1>1, WithoutFacts
<1>2. CASE w \notin Shown
  <2>1. Without(w) = order
    BY <1>2, ContainsShown DEF Without
  <2> QED BY <1>2, <2>1, TypeFacts DEF Stack, Shown
<1> QED BY <1>1, <1>2

\* API 14, and the end of an application: nobody speaks of the window.
LEMMA FreeApp ==
  ASSUME IInv, NEW w \in Windows, kind[w] = "app", SheetFree(w),
         UNCHANGED <<focus, mail, tasks>>
  PROVE  IInv'
<1>1. /\ Types /\ Sheets /\ Boxes /\ Cursors /\ Letters
      /\ Children /\ Stack /\ Aimed /\ Apps /\ Room
  BY DEF IInv
<1>2. /\ kind' = [kind EXCEPT ![w] = "free"] /\ owner' = [owner EXCEPT ![w] = None]
      /\ order' = Without(w)
      /\ UNCHANGED <<focus, mail, pc, sht, inbox, cursor, child>>
  BY DEF SheetFree, tasks
<1>3. order' \in Seq(Windows) /\ IsInjective(order') /\ Shown' = Shown \ {w}
  BY <1>1, <1>2, HiddenFacts DEF Shown
<1>4. /\ kind'[w] = "free" /\ \A v \in Windows \ {w} : kind'[v] = kind[v]
      /\ \A v \in Windows \ {w} : owner'[v] = owner[v]
      /\ key_win' = key_win /\ mail' = mail /\ pc' = pc /\ sht' = sht /\ inbox' = inbox
      /\ cursor' = cursor /\ child' = child /\ Sent' = Sent /\ reused' = reused /\ Lit' = Lit
  BY <1>1, <1>2, TypeFacts DEF Sent, focus, Lit
<1>5. Types'
  <2>1. /\ kind' \in [Windows -> {"free", "raw", "console", "app"}]
        /\ owner' \in [Windows -> Slots \cup {None}]
    BY <1>1, <1>2, TypeFacts
  <2> QED BY <1>1, <1>3, <1>4, <2>1 DEF Types, TypeOK, Data, Switches, Windows, Slots, Messages, Places, InApp
<1>6. \A x \in Slots : sht[x] # None => sht[x] \in Windows \ {w}
  BY <1>1, TypeFacts DEF Sheets
<1>7. Sheets'
  BY <1>1, <1>4, <1>6 DEF Sheets
<1>8. Boxes'
  BY <1>1, <1>3, <1>4 DEF Boxes
<1>9. Cursors'
  BY <1>1, <1>4 DEF Cursors
<1>10. Letters'
  <2>1. \A v \in Windows : kind'[v] = "console" <=> kind[v] = "console"
    BY <1>4
  <2> QED BY <1>1, <1>4, <2>1 DEF Letters, Message
<1>11. Children'
  <2>1. ASSUME NEW x \in Slots, pc[x] \in Opening PROVE child[x] \in Windows \ {w}
    <3>1. child[x] \in Windows
      BY <1>1, <2>1 DEF Children
    <3>2. child[x] # w
      <4>1. CASE pc[x] = "start"
        BY <1>1, <4>1 DEF Children
      <4>2. CASE pc[x] \in {"show", "type"}
        <5>1. owner[child[x]] \in Slots /\ sht[owner[child[x]]] = child[x]
          BY <1>1, <4>2 DEF Children
        <5>2. child[x] # None
          BY <1>1, <3>1, TypeFacts
        <5> QED BY <5>1, <5>2, <1>6
      <4> QED BY <2>1, <4>1, <4>2 DEF Opening
    <3> QED BY <3>1, <3>2
  <2>2. \A x \in Slots : pc[x] \in Opening => /\ kind'[child[x]] = kind[child[x]]
                                              /\ owner'[child[x]] = owner[child[x]]
    BY <1>4, <2>1
  <2>3. \A v \in Windows : kind'[v] = "raw" => kind[v] = "raw"
    BY <1>4
  <2>4. \A x \in Slots : pc[x] = "show" => child[x] \notin Shown'
    BY <1>1, <1>3 DEF Children
  <2> QED BY <1>1, <1>4, <2>1, <2>2, <2>3, <2>4 DEF Children, Opening
<1>12. Stack'
  <2>1. \A v \in Shown' : v \in Shown /\ v \in Windows \ {w}
    BY <1>1, <1>3, TypeFacts
  <2> QED BY <1>1, <1>3, <1>4, <2>1 DEF Stack
<1>13. Aimed'
  BY <1>1, <1>3, <1>4 DEF Aimed, Being
<1>14. Apps'
  BY <1>1, <1>4 DEF Apps
<1>15. Room'
  <2>1. Starters' = Starters /\ FreeSlots' = FreeSlots
    BY <1>4 DEF Starters, FreeSlots
  <2> QED BY <1>1, <2>1 DEF Room
<1> QED BY <1>5, <1>7, <1>8, <1>9, <1>10, <1>11, <1>12, <1>13, <1>14, <1>15 DEF IInv

\* A window is freed by its application, or by cmd_app after it.
LEMMA FreeSteps ==
  ASSUME IInv, NEW t \in Slots, CloseWindow(t) \/ (Cleanup(t) /\ OwnWindows(t) # {})
  PROVE  IInv'
<1>1. CASE CloseWindow(t)
  <2>1. PICK w \in OwnWindows(t) : SheetFree(w)
    BY <1>1 DEF CloseWindow
  <2>2. w \in Windows /\ kind[w] = "app" /\ UNCHANGED <<focus, mail, tasks>>
    BY <1>1, <2>1 DEF CloseWindow, OwnWindows
  <2> QED BY <2>1, <2>2, FreeApp
<1>2. CASE Cleanup(t) /\ OwnWindows(t) # {}
  <2> DEFINE w == First(OwnWindows(t))
  <2>1. w \in OwnWindows(t)
    <3>1. OwnWindows(t) \in SUBSET Nat
      BY DEF OwnWindows, Windows
    <3> QED BY <3>1, <1>2, FirstFacts
  <2>2. SheetFree(w) /\ UNCHANGED <<focus, mail, tasks>>
    BY <1>2 DEF Cleanup, tasks
  <2> HIDE DEF w
  <2>3. w \in Windows /\ kind[w] = "app"
    BY <2>1 DEF OwnWindows
  <2> QED BY <2>2, <2>3, FreeApp
<1> QED BY <1>1, <1>2

-----------------------------------------------------------------------------
(* Messages to HariMain. *)

\* The messages are of the type that TypeOK asks for.
LEMMA MailType ==
  ASSUME NEW s \in Seq(Messages)
  PROVE  s \in Seq([code : {"console", "task", "window"}, of : Slots \cup Windows])
<1> DEFINE T == [code : {"console", "task", "window"}, of : Slots \cup Windows]
<1>1. Messages \subseteq T
  BY DEF Messages
<1> HIDE DEF T
<1>2. Len(s) \in Nat /\ \A i \in 1 .. Len(s) : s[i] \in T
  BY <1>1, ElementOfSeq
<1>3. s = [i \in 1 .. Len(s) |-> s[i]]
  OBVIOUS
<1>4. [i \in 1 .. Len(s) |-> s[i]] \in Seq(T)
  BY <1>2, IsASeq
<1> QED BY <1>3, <1>4 DEF T

\* API 15: the console gives up its window and tells HariMain to free it.
LEMMA GiveUpStep ==
  ASSUME IInv, NEW t \in Slots, GiveUpWindow(t)
  PROVE  IInv'
<1> DEFINE w == sht[t]
           m == Message("window", w)
<1>1. /\ Types /\ Sheets /\ Boxes /\ Cursors /\ Letters
      /\ Children /\ Stack /\ Aimed /\ Apps /\ Room
  BY DEF IInv
<1>2. /\ mail' = Append(mail, m) /\ sht' = [sht EXCEPT ![t] = None]
      /\ pc' = [pc EXCEPT ![t] = "app"] /\ pc[t] = "hiding"
      /\ UNCHANGED <<windows, focus, inbox, cursor, child>>
  BY DEF GiveUpWindow
<1>3. /\ w \in Windows /\ w \notin Shown /\ w # None /\ ~HasClose(inbox[t])
      /\ kind[w] = "console" /\ \A x \in Slots : sht[x] = w => x = t
  BY <1>1, <1>2, TypeFacts DEF Boxes, Sheets
<1> HIDE DEF w
<1>4. mail' \in Seq(Messages) /\ IsInjective(mail') /\ Sent' = Sent \cup {m}
  <2>1. m \in Messages
    BY <1>3 DEF Messages, Message
  <2>2. m \notin Sent
    BY <1>1, <1>3 DEF Letters, w
  <2> QED BY <2>1, <2>2, <1>1, <1>2, AppendRange, TypeFacts DEF Letters, Sent
<1>5. /\ kind' = kind /\ owner' = owner /\ order' = order /\ key_win' = key_win /\ Shown' = Shown
      /\ reused' = reused /\ Lit' = Lit
      /\ inbox' = inbox /\ cursor' = cursor /\ child' = child
      /\ pc'[t] = "app" /\ \A x \in Slots \ {t} : pc'[x] = pc[x]
      /\ sht'[t] = None /\ \A x \in Slots \ {t} : sht'[x] = sht[x]
  BY <1>1, <1>2, TypeFacts DEF windows, focus, Shown, Lit
<1>6. \A x \in Slots : /\ pc'[x] = "free" <=> pc[x] = "free"
                       /\ pc'[x] = "ended" => pc[x] = "ended" /\ x # t
                       /\ pc[x] = "ended" => pc'[x] = "ended" /\ x # t
                       /\ pc'[x] = "start" <=> pc[x] = "start"
                       /\ pc[x] \in InApp \cup {"cleanup"} => pc'[x] \in InApp \cup {"cleanup"}
                       /\ pc'[x] \in Opening => x # t /\ pc'[x] = pc[x]
                       /\ pc[x] \in Opening => x # t /\ pc'[x] = pc[x]
  BY <1>2, <1>5 DEF InApp, Opening
<1>7. Types'
  <2>1. pc' \in [Slots -> Places] /\ sht' \in [Slots -> Windows \cup {None}]
    BY <1>1, <1>2, TypeFacts DEF Places, InApp
  <2>2. mail' \in Seq([code : {"console", "task", "window"}, of : Slots \cup Windows])
    BY <1>4, MailType
  <2> QED BY <1>1, <1>4, <1>5, <2>1, <2>2 DEF Types, TypeOK, Windows, Slots, Messages, Places, InApp
<1>8. Sheets'
  BY <1>1, <1>5, <1>6 DEF Sheets
<1>9. Boxes'
  BY <1>1, <1>3, <1>5, <1>6 DEF Boxes
<1>10. Cursors'
  BY <1>1, <1>5 DEF Cursors
<1>11. Letters'
  <2>1. ASSUME NEW x \in Slots
        PROVE  Message("task", x) \in Sent' <=> pc'[x] = "ended" /\ sht'[x] = None
    BY <1>1, <1>4, <1>5, <1>6 DEF Letters, Message
  <2>2. ASSUME NEW v \in Windows
        PROVE  Message("console", v) \in Sent' <=> \E x \in Slots : pc'[x] = "ended" /\ sht'[x] = v
    <3>1. Message("console", v) \in Sent' <=> Message("console", v) \in Sent
      BY <1>4 DEF Message
    <3>2. \A x \in Slots : pc'[x] = "ended" /\ sht'[x] = v <=> pc[x] = "ended" /\ sht[x] = v
      BY <1>5, <1>6
    <3> QED BY <3>1, <3>2, <1>1 DEF Letters
  <2>3. ASSUME NEW v \in Windows
        PROVE  Message("window", v) \in Sent' <=>
                 kind'[v] = "console" /\ \A x \in Slots : sht'[x] # v
    <3>1. CASE v = w
      <4>1. \A x \in Slots : sht'[x] # w
        BY <1>3, <1>5
      <4> QED BY <4>1, <3>1, <1>3, <1>4, <1>5
    <3>2. CASE v # w
      <4>1. Message("window", v) \in Sent' <=> Message("window", v) \in Sent
        BY <3>2, <1>4 DEF Message
      <4>2. v # None
        BY <1>1, TypeFacts
      <4>3. \A x \in Slots : sht'[x] # v <=> sht[x] # v
        BY <4>2, <3>2, <1>5 DEF w
      <4> QED BY <4>1, <4>3, <1>1, <1>5 DEF Letters
    <3> QED BY <3>1, <3>2
  <2> QED BY <2>1, <2>2, <2>3, <1>4 DEF Letters, Message
<1>12. Children'
  <2>1. \A x \in Slots : pc[x] \in {"show", "type"} => owner[child[x]] \in Slots \ {t}
    BY <1>1, <1>2 DEF Children
  <2>2. \A x \in Slots : pc[x] \in {"show", "type"} =>
          /\ sht'[owner[child[x]]] = sht[owner[child[x]]]
          /\ pc'[owner[child[x]]] = pc[owner[child[x]]]
    BY <2>1, <1>5
  <2> QED BY <2>2, <1>1, <1>5, <1>6 DEF Children, Opening
<1>13. Stack'
  <2>1. \A v \in Shown : kind[v] = "console" => sht'[owner[v]] = v
    <3> SUFFICES ASSUME NEW v \in Shown, kind[v] = "console", kind[v] # "app" PROVE sht'[owner[v]] = v
      OBVIOUS
    <3>1. owner[v] \in Slots /\ sht[owner[v]] = v
      BY <1>1 DEF Stack
    <3>2. owner[v] # t
      BY <3>1, <1>3 DEF w
    <3> QED BY <3>1, <3>2, <1>5
  <2> QED BY <2>1, <1>1, <1>5 DEF Stack
<1>14. Aimed'
  BY <1>1, <1>5, <1>6 DEF Aimed, Being, Opening
<1>15. Apps'
  BY <1>1, <1>5, <1>6 DEF Apps
<1>16. Room'
  <2>1. Starters' = Starters /\ FreeSlots' = FreeSlots
    BY <1>6 DEF Starters, FreeSlots
  <2> QED BY <1>1, <2>1 DEF Room
<1> QED BY <1>7, <1>8, <1>9, <1>10, <1>11, <1>12, <1>13, <1>14, <1>15, <1>16 DEF IInv

\* cmd_exit: the console tells HariMain its window, or its task.
LEMMA CmdExitStep ==
  ASSUME IInv, NEW t \in Slots, CmdExit(t)
  PROVE  IInv'
<1> DEFINE w == sht[t]
           m == IF w # None THEN Message("console", w) ELSE Message("task", t)
<1>1. /\ Types /\ Sheets /\ Boxes /\ Cursors /\ Letters
      /\ Children /\ Stack /\ Aimed /\ Apps /\ Room
  BY DEF IInv
<1>2. /\ mail' = Append(mail, m) /\ pc' = [pc EXCEPT ![t] = "ended"] /\ pc[t] = "exit"
      /\ UNCHANGED <<windows, focus, sht, inbox, cursor, child>>
  BY DEF CmdExit
<1>3. w \in Windows \cup {None} /\ \A x \in Slots : w # None /\ sht[x] = w => x = t
  BY <1>1, TypeFacts DEF Sheets
<1> HIDE DEF w
<1>4. mail' \in Seq(Messages) /\ IsInjective(mail') /\ Sent' = Sent \cup {m}
  <2>1. m \in Messages
    BY <1>3 DEF Messages, Message
  <2>2. m \notin Sent
    <3>1. CASE w = None
      BY <1>1, <1>2, <3>1 DEF Letters
    <3>2. CASE w # None
      <4>1. w \in Windows /\ ~(\E x \in Slots : pc[x] = "ended" /\ sht[x] = w)
        BY <1>2, <1>3, <3>2
      <4> QED BY <4>1, <1>1, <3>2 DEF Letters
    <3> QED BY <3>1, <3>2
  <2> HIDE DEF m
  <2> QED BY <2>1, <2>2, <1>1, <1>2, AppendRange, TypeFacts DEF Letters, Sent
<1>5. /\ kind' = kind /\ owner' = owner /\ order' = order /\ key_win' = key_win /\ Shown' = Shown
      /\ reused' = reused /\ Lit' = Lit
      /\ inbox' = inbox /\ cursor' = cursor /\ child' = child /\ sht' = sht
      /\ pc'[t] = "ended" /\ \A x \in Slots \ {t} : pc'[x] = pc[x]
  BY <1>1, <1>2, TypeFacts DEF windows, focus, Shown, Lit
<1>6. \A x \in Slots : /\ pc'[x] = "free" <=> pc[x] = "free"
                       /\ pc'[x] = "hiding" <=> pc[x] = "hiding"
                       /\ pc'[x] = "ended" <=> pc[x] = "ended" \/ x = t
                       /\ pc'[x] = "start" <=> pc[x] = "start"
                       /\ pc[x] \in InApp \cup {"cleanup"} => pc'[x] \in InApp \cup {"cleanup"}
                       /\ pc'[x] \in Opening <=> pc[x] \in Opening
                       /\ pc[x] \in Opening => pc'[x] = pc[x]
  BY <1>2, <1>5 DEF InApp, Opening
<1>7. Types'
  <2>1. pc' \in [Slots -> Places]
    BY <1>1, <1>2, TypeFacts DEF Places
  <2>2. mail' \in Seq([code : {"console", "task", "window"}, of : Slots \cup Windows])
    BY <1>4, MailType
  <2> QED BY <1>1, <1>4, <1>5, <2>1, <2>2 DEF Types, TypeOK, Windows, Slots, Messages, Places, InApp
<1>8. Sheets'
  BY <1>1, <1>5, <1>6 DEF Sheets
<1>9. Boxes'
  BY <1>1, <1>5, <1>6 DEF Boxes
<1>10. Cursors'
  BY <1>1, <1>5 DEF Cursors
<1>11. Letters'
  <2>1. ASSUME NEW x \in Slots
        PROVE  Message("task", x) \in Sent' <=> pc'[x] = "ended" /\ sht'[x] = None
    <3>1. Message("task", x) \in Sent' <=> Message("task", x) \in Sent \/ (x = t /\ w = None)
      BY <1>4 DEF Message
    <3> QED BY <3>1, <1>1, <1>5, <1>6 DEF Letters, w
  <2>2. ASSUME NEW v \in Windows
        PROVE  Message("console", v) \in Sent' <=> \E x \in Slots : pc'[x] = "ended" /\ sht'[x] = v
    <3>1. v # None
      BY <1>1, TypeFacts
    <3>2. Message("console", v) \in Sent' <=> Message("console", v) \in Sent \/ v = w
      BY <3>1, <1>4 DEF Message
    <3>3. (\E x \in Slots : pc'[x] = "ended" /\ sht'[x] = v) <=>
            (\E x \in Slots : pc[x] = "ended" /\ sht[x] = v) \/ v = w
      BY <1>5, <1>6 DEF w
    <3> QED BY <3>2, <3>3, <1>1 DEF Letters
  <2>3. ASSUME NEW v \in Windows
        PROVE  Message("window", v) \in Sent' <=>
                 kind'[v] = "console" /\ \A x \in Slots : sht'[x] # v
    <3>1. Message("window", v) \in Sent' <=> Message("window", v) \in Sent
      BY <1>4 DEF Message
    <3> QED BY <3>1, <1>1, <1>5 DEF Letters
  <2> QED BY <2>1, <2>2, <2>3, <1>4 DEF Letters, Message
<1>12. Children'
  <2>1. \A x \in Slots : pc[x] \in {"show", "type"} => owner[child[x]] \in Slots \ {t}
    BY <1>1, <1>2 DEF Children
  <2>2. \A x \in Slots : pc[x] \in {"show", "type"} => pc'[owner[child[x]]] = pc[owner[child[x]]]
    BY <2>1, <1>5
  <2> QED BY <2>2, <1>1, <1>5, <1>6 DEF Children, Opening
<1>13. Stack'
  BY <1>1, <1>5 DEF Stack
<1>14. Aimed'
  BY <1>1, <1>5, <1>6 DEF Aimed, Being, Opening
<1>15. Apps'
  BY <1>1, <1>5, <1>6 DEF Apps
<1>16. Room'
  <2>1. Starters' = Starters /\ FreeSlots' = FreeSlots
    BY <1>6 DEF Starters, FreeSlots
  <2> QED BY <1>1, <2>1 DEF Room
<1> QED BY <1>7, <1>8, <1>9, <1>10, <1>11, <1>12, <1>13, <1>14, <1>15, <1>16 DEF IInv

\* The button of a console: its window is not on the screen when it is told so,
\* and another window has the focus.
LEMMA CloseConsoleStep ==
  ASSUME IInv, Exposed = {}, NEW w \in Windows, CloseConsole(w)
  PROVE  IInv'
<1> DEFINE o == owner[w]
           v == key_win'
           Q == On(Off(Refocused(w), w), v)
<1>1. /\ Types /\ Sheets /\ Boxes /\ Cursors /\ Letters
      /\ Children /\ Stack /\ Aimed /\ Apps /\ Room
  BY DEF IInv
<1>2. /\ order' = Without(w) /\ v = Top(order') /\ reused' = FALSE /\ Lit' = v
      /\ inbox' = [Q EXCEPT ![o] = Append(Q[o], "close")]
      /\ UNCHANGED <<kind, owner, mail, pc, sht, cursor, child>>
      /\ Contains(order, w) /\ kind[w] = "console" /\ o \notin TypedInto
  BY DEF CloseConsole, Put, May, Lit
<1>3. w \in Shown /\ Known(w)
  BY <1>1, <1>2, ContainsShown, KnownFacts
<1>4. o \in Slots /\ sht[o] = w /\ w # None /\ ~HasClose(inbox[o]) /\ pc[o] # "hiding"
  BY <1>1, <1>2, <1>3, ShownFacts, TypeFacts DEF Boxes
<1>5. order' \in Seq(Windows) /\ IsInjective(order') /\ Shown' = Shown \ {w}
  BY <1>1, <1>2, <1>3, WithoutFacts DEF Shown
<1>6. v \in Shown' \cup {Back} /\ v \in Windows \cup {None, Back} /\ Known(v)
  <2>1. v \in Shown' \cup {Back}
    <3>1. CASE order' = <<>>
      BY <1>2, <3>1 DEF Top
    <3>2. CASE order' # <<>>
      <4>1. Len(order') \in DOMAIN order'
        BY <3>2, <1>5, EmptySeq, LenProperties
      <4> QED BY <3>2, <4>1, <1>2 DEF Top, Last, Shown, Range
    <3> QED BY <3>1, <3>2
  <2> QED BY <2>1, <1>1, <1>5, TypeFacts, KnownFacts
<1>7. Switched(Q) /\ Follows(Q, v)
  <2> DEFINE R == Refocused(w)
  <2>1. Switched(R) /\ OnlyOn(R, w)
    BY <1>3, RefocusedFacts
  <2> HIDE DEF R
  <2>2. Switched(On(Off(R, w), v)) /\ Follows(On(Off(R, w), v), v)
    BY <2>1, <1>1, <1>3, <1>6, OffOnFollows
  <2> QED BY <2>2 DEF R
<1> HIDE DEF o, v, Q
<1>8. /\ inbox' \in [Slots -> Seq(Data)]
      /\ \A x \in Slots \ {o} : inbox'[x] = Q[x]
      /\ OneClose(inbox'[o]) /\ inbox'[o] # <<>>
      /\ EndsOn(inbox'[o], cursor[o]) <=> EndsOn(Q[o], cursor[o])
  <2> DEFINE q == Q[o]
  <2>1. /\ Q \in [Slots -> Seq(Data)] /\ q \in Seq(Data) /\ cursor[o] \in BOOLEAN
        /\ ~HasClose(q) /\ OneClose(q)
    BY <1>1, <1>4, <1>7, TypeFacts DEF Switched, Alike, Boxes
  <2>2. inbox' = [Q EXCEPT ![o] = Append(q, "close")] /\ "close" \in Data /\ "close" \notin Switches
    BY <1>2 DEF Data, Switches
  <2> HIDE DEF q
  <2>3. /\ Append(q, "close") \in Seq(Data) /\ Append(q, "close") # <<>> /\ OneClose(Append(q, "close"))
        /\ EndsOn(Append(q, "close"), cursor[o]) <=> EndsOn(q, cursor[o])
    BY <2>1, <2>2, AppendQueue
  <2> QED BY <2>1, <2>2, <2>3, <1>4 DEF q
<1>9. /\ kind' = kind /\ owner' = owner /\ mail' = mail /\ pc' = pc /\ sht' = sht
      /\ cursor' = cursor /\ child' = child /\ Sent' = Sent
  BY <1>2 DEF Sent
<1>10. Types'
  BY <1>1, <1>2, <1>5, <1>6, <1>8, <1>9 DEF Types, TypeOK, Data, Switches, Windows, Slots, Messages, Places, InApp, v
<1>11. Sheets'
  BY <1>1, <1>9 DEF Sheets
<1>12. Boxes'
  <2> SUFFICES ASSUME NEW x \in Slots
               PROVE  /\ pc[x] = "free" => inbox'[x] = <<>>
                      /\ OneClose(inbox'[x])
                      /\ pc[x] = "hiding" => ~HasClose(inbox'[x])
                      /\ HasClose(inbox'[x]) \/ pc[x] = "hiding" =>
                           sht[x] # None /\ sht[x] \notin Shown'
    BY <1>9 DEF Boxes
  <2>1. CASE x = o
    BY <1>1, <1>4, <1>5, <1>8, <2>1 DEF Sheets
  <2>2. CASE x # o
    <3>1. inbox'[x] = Q[x] /\ Alike(inbox[x], Q[x]) /\ (sht[x] = None => Q[x] = inbox[x])
      BY <1>7, <1>8, <2>2 DEF Switched
    <3>2. pc[x] = "free" => sht[x] = None
      BY <1>1 DEF Sheets
    <3> QED BY <3>1, <3>2, <1>1, <1>5 DEF Boxes, Alike
  <2> QED BY <2>1, <2>2
<1>13. Cursors'
  <2> SUFFICES ASSUME NEW x \in Slots, sht[x] # None
               PROVE  EndsOn(inbox'[x], cursor[x]) <=> sht[x] = v
    BY <1>2, <1>9 DEF Cursors
  <2>1. EndsOn(Q[x], cursor[x]) <=> sht[x] = v
    BY <1>7 DEF Follows
  <2> QED BY <2>1, <1>8
<1>14. Letters'
  BY <1>1, <1>9 DEF Letters, Message
<1>15. Children'
  <2>1. ASSUME NEW x \in Slots, pc[x] \in {"show", "type"}
        PROVE  owner[child[x]] \in Slots \ {o}
    <3>1. owner[child[x]] = o => pc[x] = "type"
      BY <1>3, <2>1, ShownFacts DEF o
    <3>2. pc[x] = "type" => owner[child[x]] \in TypedInto
      BY DEF TypedInto
    <3> QED BY <3>1, <3>2, <1>1, <1>2, <2>1 DEF Children
  <2>2. \A x \in Slots : pc[x] \in {"show", "type"} => OnlySwitches(inbox'[owner[child[x]]])
    BY <2>1, <1>1, <1>7, <1>8 DEF Children, Switched, Alike
  <2> QED BY <2>2, <1>1, <1>5, <1>9 DEF Children
<1>16. Stack'
  BY <1>1, <1>5, <1>9 DEF Stack
<1>17. Aimed'
  BY <1>1, <1>6, TypeFacts DEF Aimed, v
<1>18. Apps'
  BY <1>1, <1>9 DEF Apps
<1>19. Room'
  <2>1. Starters' = Starters /\ FreeSlots' = FreeSlots
    BY <1>9 DEF Starters, FreeSlots
  <2> QED BY <1>1, <2>1 DEF Room
<1> QED BY <1>10, <1>11, <1>12, <1>13, <1>14, <1>15, <1>16, <1>17, <1>18, <1>19 DEF IInv

\* What HariMain frees: the task that ended or nobody, and its console window,
\* that nobody has any more.
Left(m) == CASE m.code = "console" -> {owner[m.of]}
             [] m.code = "task" -> {m.of}
             [] m.code = "window" -> {}
Gone(m) == IF m.code = "task" THEN {} ELSE {m.of}

\* A message says of the tasks and windows that go that they can.
LEMMA LetterFacts ==
  ASSUME IInv, mail # <<>>
  PROVE  LET m == Head(mail) IN
         /\ m \in Messages /\ m \in Sent
         /\ Left(m) \subseteq Slots /\ Gone(m) \subseteq Windows
         /\ \A t \in Left(m) : pc[t] = "ended"
         /\ \A w \in Gone(m) : kind[w] = "console"
         /\ \A t \in Slots : sht[t] \in Gone(m) => t \in Left(m)
         /\ \A t \in Left(m) : sht[t] = None \/ sht[t] \in Gone(m)
         /\ \A t \in Slots : Message("task", t) = m <=> t \in Left(m) /\ sht[t] = None
         /\ \A w \in Windows :
              /\ Message("console", w) = m <=> \E t \in Left(m) : sht[t] = w
              /\ Message("window", w) = m <=> w \in Gone(m) /\ Left(m) = {}
<1> DEFINE m == Head(mail)
<1>1. /\ Types /\ Sheets /\ Letters
      /\ None \notin Windows /\ sht \in [Slots -> Windows \cup {None}]
  BY TypeFacts DEF IInv
<1>2. m \in Messages /\ m \in Sent
  BY <1>1, TailRange, TypeFacts DEF Letters, Sent
<1> HIDE DEF m
<1>3. CASE m.code = "task"
  <2>1. m.of \in Slots /\ m = Message("task", m.of)
    BY <1>2, <1>3 DEF Messages, Message
  <2>2. pc[m.of] = "ended" /\ sht[m.of] = None
    BY <2>1, <1>1, <1>2 DEF Letters
  <2>3. Left(m) = {m.of} /\ Gone(m) = {}
    BY <1>3 DEF Left, Gone
  <2>4. \A t \in Slots : Message("task", t) = m <=> t = m.of
    BY <2>1 DEF Message
  <2>5. \A w \in Windows : Message("console", w) # m /\ Message("window", w) # m
    BY <1>3 DEF Message
  <2> QED BY <1>1, <1>2, <2>1, <2>2, <2>3, <2>4, <2>5 DEF m
<1>4. CASE m.code = "console"
  <2> DEFINE w == m.of
  <2>1. w \in Windows /\ m = Message("console", w) /\ w # None
    BY <1>1, <1>2, <1>4 DEF Messages, Message
  <2>2. PICK t \in Slots : pc[t] = "ended" /\ sht[t] = w
    BY <2>1, <1>1, <1>2 DEF Letters
  <2>3. owner[w] = t /\ kind[w] = "console"
    BY <2>1, <2>2, <1>1 DEF Sheets
  <2>4. Left(m) = {t} /\ Gone(m) = {w}
    BY <1>4, <2>3 DEF Left, Gone
  <2>5. \A x \in Slots : Message("task", x) # m /\ (sht[x] = w => x = t)
    BY <1>1, <1>4, <2>1, <2>3 DEF Message, Sheets
  <2>6. \A v \in Windows : (Message("console", v) = m <=> v = w) /\ Message("window", v) # m
    BY <1>4, <2>1 DEF Message
  <2> HIDE DEF w
  <2> QED BY <1>1, <1>2, <2>1, <2>2, <2>3, <2>4, <2>5, <2>6 DEF m
<1>5. CASE m.code = "window"
  <2> DEFINE w == m.of
  <2>1. w \in Windows /\ m = Message("window", w)
    BY <1>1, <1>2, <1>5 DEF Messages, Message
  <2>2. kind[w] = "console" /\ \A t \in Slots : sht[t] # w
    BY <2>1, <1>1, <1>2 DEF Letters
  <2>3. Left(m) = {} /\ Gone(m) = {w}
    BY <1>5 DEF Left, Gone
  <2>4. \A x \in Slots : Message("task", x) # m
    BY <1>5 DEF Message
  <2>5. \A v \in Windows : (Message("window", v) = m <=> v = w) /\ Message("console", v) # m
    BY <1>5, <2>1 DEF Message
  <2> HIDE DEF w
  <2> QED BY <1>1, <1>2, <2>1, <2>2, <2>3, <2>4, <2>5 DEF m
<1> QED BY <1>2, <1>3, <1>4, <1>5 DEF Messages, m

\* HariMain frees what the first message names; what is left agrees with the
\* other messages.
LEMMA ReceiveStep ==
  ASSUME IInv, Receive
  PROVE  IInv'
<1> DEFINE m == Head(mail)
           L == Left(m)
           G == Gone(m)
<1>1. /\ Types /\ Sheets /\ Boxes /\ Cursors /\ Letters
      /\ Children /\ Stack /\ Aimed /\ Apps /\ Room
  BY DEF IInv
<1>2. /\ mail # <<>> /\ mail' = Tail(mail) /\ key_win' = Focus /\ child' = child
      /\ pc' = [t \in Slots |-> IF t \in L THEN "free" ELSE pc[t]]
      /\ sht' = [t \in Slots |-> IF t \in L THEN None ELSE sht[t]]
      /\ inbox' = [t \in Slots |-> IF t \in L THEN <<>> ELSE Queues[t]]
      /\ cursor' = [t \in Slots |-> IF t \in L THEN FALSE ELSE cursor[t]]
  BY DEF Receive, Left
<1>3. /\ m \in Messages /\ m \in Sent
      /\ L \subseteq Slots /\ G \subseteq Windows
      /\ \A t \in L : pc[t] = "ended"
      /\ \A w \in G : kind[w] = "console"
      /\ \A t \in Slots : sht[t] \in G => t \in L
      /\ \A t \in L : sht[t] = None \/ sht[t] \in G
      /\ \A t \in Slots : Message("task", t) = m <=> t \in L /\ sht[t] = None
      /\ \A w \in Windows :
           /\ Message("console", w) = m <=> \E t \in L : sht[t] = w
           /\ Message("window", w) = m <=> w \in G /\ L = {}
  BY <1>2, LetterFacts
<1>4. /\ order' \in Seq(Windows) /\ IsInjective(order') /\ Shown' = Shown \ G
      /\ kind' \in [Windows -> {"free", "raw", "console", "app"}]
      /\ owner' \in [Windows -> Slots \cup {None}]
      /\ \A v \in Windows \ G : kind'[v] = kind[v] /\ owner'[v] = owner[v]
      /\ \A v \in G : kind'[v] = "free"
  <2>1. CASE m.code = "task"
    <3>1. UNCHANGED <<kind, owner, order>> /\ G = {}
      BY <2>1 DEF Receive, windows, Gone
    <3> QED BY <3>1, <1>1, TypeFacts DEF Stack, Shown
  <2>2. CASE m.code # "task"
    <3>1. G = {m.of} /\ SheetFree(m.of) /\ m.of \in Windows
      BY <2>2, <1>3 DEF Receive, Gone
    <3> QED BY <3>1, <1>1, HiddenFacts, TypeFacts DEF SheetFree, Shown
  <2> QED BY <2>1, <2>2
<1>5. mail' \in Seq(Messages) /\ IsInjective(mail') /\ Sent' = Sent \ {m}
  BY <1>1, <1>2, TailRange, TypeFacts DEF Letters, Sent
<1>6. Switched(Queues) /\ Follows(Queues, Lit') /\ Target(key_win', reused')
  BY QueuesFacts, StaysFacts DEF Receive
<1> HIDE DEF m, L, G
<1>7. /\ \A t \in L : /\ t \in Slots /\ pc'[t] = "free" /\ sht'[t] = None
                      /\ inbox'[t] = <<>> /\ cursor'[t] = FALSE
      /\ \A t \in Slots \ L : /\ pc'[t] = pc[t] /\ sht'[t] = sht[t]
                              /\ inbox'[t] = Queues[t] /\ cursor'[t] = cursor[t]
  BY <1>2, <1>3
<1>8. /\ key_win' \in Windows \cup {None, Back} /\ reused' \in BOOLEAN
      /\ None \notin Windows /\ None # Back /\ Back \notin Windows
  BY <1>1, <1>6, TypeFacts DEF Target
<1>9. ~HasClose(<<>>) /\ OneClose(<<>>) /\ <<>> \in Seq(Data)
  BY EmptyQueue
<1>10. Types'
  <2>1. /\ pc' \in [Slots -> Places] /\ sht' \in [Slots -> Windows \cup {None}]
        /\ cursor' \in [Slots -> BOOLEAN]
    BY <1>1, <1>2, TypeFacts DEF Places
  <2>2. inbox' \in [Slots -> Seq(Data)]
    BY <1>2, <1>6, <1>9 DEF Switched
  <2>3. mail' \in Seq([code : {"console", "task", "window"}, of : Slots \cup Windows])
    BY <1>5, MailType
  <2>4. child' \in [Slots -> Windows \cup {None}]
    BY <1>1, <1>2, TypeFacts
  <2> QED BY <1>4, <1>5, <1>8, <2>1, <2>2, <2>3, <2>4 DEF Types, TypeOK, Data, Switches, Windows, Slots, Messages, Places, InApp
<1>11. \A t \in Slots \ L : sht[t] # None => sht[t] \in Windows \ G
  BY <1>1, <1>3, TypeFacts
<1>12. Sheets'
  <2> SUFFICES ASSUME NEW t \in Slots, sht'[t] # None
               PROVE  pc'[t] # "free" /\ kind'[sht'[t]] = "console" /\ owner'[sht'[t]] = t
    BY DEF Sheets
  <2>1. t \in Slots \ L /\ sht[t] # None
    BY <1>7
  <2> QED BY <2>1, <1>1, <1>4, <1>7, <1>11 DEF Sheets
<1>13. Boxes'
  <2> SUFFICES ASSUME NEW t \in Slots
               PROVE  /\ pc'[t] = "free" => inbox'[t] = <<>>
                      /\ OneClose(inbox'[t])
                      /\ pc'[t] = "hiding" => ~HasClose(inbox'[t])
                      /\ HasClose(inbox'[t]) \/ pc'[t] = "hiding" =>
                           sht'[t] # None /\ sht'[t] \notin Shown'
    BY DEF Boxes
  <2>1. CASE t \in L
    BY <1>7, <1>9, <2>1
  <2>2. CASE t \notin L
    <3>1. Alike(inbox[t], Queues[t]) /\ (sht[t] = None => Queues[t] = inbox[t])
      BY <1>6 DEF Switched
    <3>2. pc[t] = "free" => sht[t] = None
      BY <1>1 DEF Sheets
    <3> QED BY <2>2, <3>1, <3>2, <1>1, <1>4, <1>7 DEF Boxes, Alike
  <2> QED BY <2>1, <2>2
<1>14. Cursors'
  <2> SUFFICES ASSUME NEW t \in Slots, sht'[t] # None
               PROVE  EndsOn(inbox'[t], cursor'[t]) <=> sht'[t] = Lit'
    BY DEF Cursors
  <2>1. t \in Slots \ L /\ sht[t] # None
    BY <1>7
  <2>2. EndsOn(Queues[t], cursor[t]) <=> sht[t] = Lit'
    BY <2>1, <1>6 DEF Follows
  <2> QED BY <2>1, <2>2, <1>2, <1>7
<1>15. Letters'
  <2>1. ASSUME NEW t \in Slots
        PROVE  Message("task", t) \in Sent' <=> pc'[t] = "ended" /\ sht'[t] = None
    <3>1. Message("task", t) \in Sent' <=> pc[t] = "ended" /\ sht[t] = None /\ t \notin L
      BY <1>1, <1>3, <1>5 DEF Letters
    <3> QED BY <3>1, <1>7
  <2>2. ASSUME NEW w \in Windows
        PROVE  Message("console", w) \in Sent' <=> \E t \in Slots : pc'[t] = "ended" /\ sht'[t] = w
    <3>1. ASSUME NEW t \in Slots, sht[t] = w
          PROVE  \A u \in Slots : sht[u] = w => u = t
      BY <3>1, <1>1, <1>8 DEF Sheets
    <3>2. (\E t \in Slots : pc'[t] = "ended" /\ sht'[t] = w) <=>
            \E t \in Slots \ L : pc[t] = "ended" /\ sht[t] = w
      BY <1>7
    <3>3. (\E t \in Slots \ L : pc[t] = "ended" /\ sht[t] = w) <=>
            (\E t \in Slots : pc[t] = "ended" /\ sht[t] = w) /\ ~(\E t \in L : sht[t] = w)
      BY <3>1, <1>3
    <3>4. Message("console", w) \in Sent' <=>
            (\E t \in Slots : pc[t] = "ended" /\ sht[t] = w) /\ ~(\E t \in L : sht[t] = w)
      BY <1>1, <1>3, <1>5 DEF Letters
    <3> QED BY <3>2, <3>3, <3>4
  <2>3. ASSUME NEW w \in Windows
        PROVE  Message("window", w) \in Sent' <=>
                 kind'[w] = "console" /\ \A t \in Slots : sht'[t] # w
    <3>1. Message("window", w) \in Sent' <=>
            /\ kind[w] = "console" /\ \A t \in Slots : sht[t] # w
            /\ ~(w \in G /\ L = {})
      BY <1>1, <1>3, <1>5 DEF Letters
    <3>2. CASE w \in G
      <4>1. kind'[w] = "free" /\ (L # {} => \E t \in Slots : sht[t] = w)
        <5>1. ASSUME L # {} PROVE \E t \in Slots : sht[t] = w
          <6>1. PICK t \in L : TRUE
            BY <5>1
          <6>2. m.code = "console" /\ w = m.of
            <7>1. m.code # "window"
              BY <5>1 DEF L, Left
            <7> QED BY <7>1, <3>2, <1>3 DEF G, Gone, Messages
          <6>3. m = Message("console", w)
            BY <6>2, <1>3 DEF Messages, Message
          <6> QED BY <6>3, <1>3
        <5> QED BY <5>1, <1>4, <3>2
      <4> QED BY <3>1, <3>2, <4>1
    <3>3. CASE w \notin G
      <4>1. \A t \in Slots : sht'[t] = w <=> sht[t] = w
        <5>1. \A t \in L : sht[t] # w /\ sht'[t] # w
          BY <1>3, <1>7, <1>8, <3>3
        <5> QED BY <5>1, <1>7
      <4> QED BY <3>1, <3>3, <4>1, <1>4
    <3> QED BY <3>2, <3>3
  <2> QED BY <2>1, <2>2, <2>3, <1>5 DEF Letters, Message
<1>16. Children'
  <2>1. \A t \in Slots : /\ pc'[t] \in Opening <=> pc[t] \in Opening
                         /\ pc[t] \in Opening => t \notin L /\ pc'[t] = pc[t]
    BY <1>3, <1>7 DEF Opening
  <2>2. \A t \in Slots : pc[t] \in {"show", "type"} => owner[child[t]] \in Slots \ L
    BY <1>1, <1>3 DEF Children
  <2>3. ASSUME NEW t \in Slots, pc[t] \in Opening PROVE child[t] \in Windows \ G
    <3>1. child[t] \in Windows
      BY <1>1, <2>3 DEF Children
    <3>2. CASE pc[t] = "start"
      BY <1>1, <1>3, <3>1, <3>2 DEF Children
    <3>3. CASE pc[t] \in {"show", "type"}
      <4>1. sht[owner[child[t]]] = child[t]
        BY <1>1, <3>3 DEF Children
      <4> QED BY <4>1, <3>1, <3>3, <2>2, <1>3
    <3> QED BY <2>3, <3>2, <3>3 DEF Opening
  <2>4. ASSUME NEW t \in Slots
        PROVE  /\ pc'[t] \in Opening => child'[t] \in Windows
               /\ pc'[t] = "start" => kind'[child'[t]] = "raw" /\ owner'[child'[t]] = None
               /\ pc'[t] = "show" => child'[t] \notin Shown'
    BY <2>1, <2>3, <1>1, <1>2, <1>4 DEF Children, Opening
  <2>5. ASSUME NEW t \in Slots, pc'[t] \in {"show", "type"}
        PROVE  /\ owner'[child'[t]] \in Slots
               /\ sht'[owner'[child'[t]]] = child'[t] /\ pc'[owner'[child'[t]]] = "loop"
               /\ OnlySwitches(inbox'[owner'[child'[t]]])
    <3>1. pc[t] \in {"show", "type"} /\ child'[t] = child[t] /\ owner'[child[t]] = owner[child[t]]
      BY <2>1, <2>3, <2>5, <1>2, <1>4 DEF Opening
    <3>2. /\ owner[child[t]] \in Slots \ L /\ sht[owner[child[t]]] = child[t]
          /\ pc[owner[child[t]]] = "loop" /\ OnlySwitches(inbox[owner[child[t]]])
      BY <3>1, <2>2, <1>1 DEF Children
    <3>3. OnlySwitches(Queues[owner[child[t]]])
      BY <3>2, <1>6 DEF Switched, Alike
    <3> QED BY <3>1, <3>2, <3>3, <1>7
  <2>6. ASSUME NEW v \in Windows, kind'[v] = "raw"
        PROVE  \E t \in Slots : pc'[t] = "start" /\ child'[t] = v
    <3>1. kind[v] = "raw"
      BY <2>6, <1>4
    <3>2. PICK t \in Slots : pc[t] = "start" /\ child[t] = v
      BY <3>1, <1>1 DEF Children
    <3> QED BY <3>2, <2>1, <1>2 DEF Opening
  <2>7. \A t, u \in Slots : pc'[t] \in Opening /\ pc'[u] \in Opening /\ child'[t] = child'[u] => t = u
    BY <2>1, <1>1, <1>2 DEF Children
  <2> QED BY <2>4, <2>5, <2>6, <2>7 DEF Children
<1>17. Stack'
  <2>1. ASSUME NEW v \in Shown'
        PROVE  \/ kind'[v] = "app"
               \/ kind'[v] = "console" /\ owner'[v] \in Slots /\ sht'[owner'[v]] = v
    <3>1. v \in Shown /\ v \in Windows \ G /\ v # None
      BY <2>1, <1>1, <1>4, <1>8, TypeFacts
    <3>2. kind'[v] = kind[v] /\ owner'[v] = owner[v]
      BY <3>1, <1>4
    <3>3. kind[v] = "app" \/ (kind[v] = "console" /\ owner[v] \in Slots /\ sht[owner[v]] = v)
      BY <3>1, <1>1 DEF Stack
    <3>4. owner[v] \in Slots /\ sht[owner[v]] = v => owner[v] \notin L
      BY <3>1, <1>3
    <3> QED BY <3>2, <3>3, <3>4, <1>7
  <2> QED BY <2>1, <1>4 DEF Stack
<1>18. Aimed'
  <2>1. Being(key_win') => Being(key_win)'
    BY <1>2, <1>3, <1>7 DEF Being
  <2> QED BY <2>1, <1>4, <1>6 DEF Aimed, Target
<1>19. Apps'
  <2> SUFFICES ASSUME NEW v \in Windows, kind'[v] = "app"
               PROVE  owner'[v] \in Slots /\ pc'[owner'[v]] \in InApp \cup {"cleanup"}
    BY DEF Apps
  <2>1. kind[v] = "app" /\ owner'[v] = owner[v]
    BY <1>4
  <2>2. owner[v] \in Slots \ L /\ pc[owner[v]] \in InApp \cup {"cleanup"}
    BY <2>1, <1>1, <1>3 DEF Apps, InApp
  <2> QED BY <2>1, <2>2, <1>7
<1>20. Room'
  <2>1. Starters' = Starters /\ FreeSlots \subseteq FreeSlots' /\ FreeSlots' \subseteq Slots
    BY <1>3, <1>7 DEF Starters, FreeSlots
  <2>2. IsFiniteSet(FreeSlots')
    <3>1. IsFiniteSet(Slots)
      BY FS_Interval, SessionAssumption DEF Slots
    <3> QED BY <3>1, <2>1, FS_Subset
  <2>3. Cardinality(FreeSlots) <= Cardinality(FreeSlots') /\ Cardinality(FreeSlots') \in Nat
    BY <2>1, <2>2, FS_Subset, FS_CardinalityType
  <2> DEFINE n == Cardinality(Starters)
             f == Cardinality(FreeSlots)
             g == Cardinality(FreeSlots')
  <2>4. n \in Nat /\ f \in Nat /\ g \in Nat /\ n <= f /\ f <= g /\ Cardinality(Starters') = n
    BY <2>1, <2>3, <1>1, RoomFacts DEF Room
  <2> HIDE DEF n, f, g
  <2>5. Cardinality(Starters') <= g
    BY <2>4
  <2> QED BY <2>5 DEF Room, g
<1> QED BY <1>10, <1>12, <1>13, <1>14, <1>15, <1>16, <1>17, <1>18, <1>19, <1>20 DEF IInv

-----------------------------------------------------------------------------
(* The invariant. *)

\* One console, with the focus, and nothing else.
LEMMA InitIInv ==
  ASSUME Init
  PROVE  IInv
<1>1. 1 \in Slots /\ 1 \in Windows /\ None \notin Windows /\ None \notin Slots /\ 1 # None /\ 1 # Back
  BY SessionAssumption DEF Slots, Windows, None, Back
<1>2. /\ kind = [w \in Windows |-> IF w = 1 THEN "console" ELSE "free"]
      /\ owner = [w \in Windows |-> IF w = 1 THEN 1 ELSE None]
      /\ order = <<1>> /\ key_win = 1 /\ reused = FALSE /\ mail = <<>>
      /\ pc = [t \in Slots |-> IF t = 1 THEN "loop" ELSE "free"]
      /\ sht = [t \in Slots |-> IF t = 1 THEN 1 ELSE None]
      /\ inbox = [t \in Slots |-> IF t = 1 THEN <<"on">> ELSE <<>>]
      /\ cursor = [t \in Slots |-> FALSE] /\ child = [t \in Slots |-> None]
  BY DEF Init
<1>3. Shown = {1} /\ Sent = {} /\ IsInjective(order) /\ IsInjective(mail)
  <2>1. DOMAIN order = {1} /\ order[1] = 1 /\ DOMAIN mail = {}
    BY <1>2
  <2> QED BY <2>1 DEF Shown, Sent, Range, IsInjective
<1>4. \A t \in Slots : inbox[t] \in Seq(Data) /\ OnlySwitches(inbox[t])
  <2> SUFFICES ASSUME NEW t \in Slots PROVE inbox[t] \in Seq(Data) /\ OnlySwitches(inbox[t])
    OBVIOUS
  <2>1. CASE t = 1
    <3>1. inbox[t] = <<"on">> /\ "on" \in Data /\ "on" \in Switches
      BY <1>2, <2>1 DEF Data, Switches
    <3>2. inbox[t] \in Seq(Data) /\ DOMAIN inbox[t] = {1} /\ inbox[t][1] = "on"
      BY <3>1
    <3> QED BY <3>1, <3>2 DEF OnlySwitches
  <2>2. CASE t # 1
    BY <1>2, <2>2, EmptyQueue
  <2> QED BY <2>1, <2>2
<1>5. Types
  <2>1. order \in Seq(Windows) /\ mail \in Seq(Messages)
    BY <1>1, <1>2
  <2>2. mail \in Seq([code : {"console", "task", "window"}, of : Slots \cup Windows])
    BY <2>1, MailType
  <2>3. inbox \in [Slots -> Seq(Data)]
    BY <1>2, <1>4
  <2>4. /\ kind \in [Windows -> {"free", "raw", "console", "app"}]
        /\ owner \in [Windows -> Slots \cup {None}]
        /\ key_win \in Windows \cup {None, Back} /\ reused \in BOOLEAN
        /\ pc \in [Slots -> Places] /\ sht \in [Slots -> Windows \cup {None}]
        /\ cursor \in [Slots -> BOOLEAN] /\ child \in [Slots -> Windows \cup {None}]
    BY <1>1, <1>2 DEF Places
  <2> QED BY <2>1, <2>2, <2>3, <2>4 DEF Types, TypeOK, Data, Switches
<1>6. Sheets
  BY <1>1, <1>2 DEF Sheets
<1>7. Boxes
  <2>1. \A t \in Slots : ~HasClose(inbox[t])
    BY <1>4 DEF HasClose, OnlySwitches, Switches
  <2>2. \A t \in Slots : OneClose(inbox[t])
    BY <2>1 DEF HasClose, OneClose
  <2> QED BY <1>2, <2>1, <2>2 DEF Boxes
<1>8. Cursors
  <2>1. inbox[1] = <<"on">>
    BY <1>1, <1>2
  <2>2. DOMAIN inbox[1] = {1} /\ inbox[1][1] = "on"
    BY <2>1
  <2>3. EndsOn(inbox[1], cursor[1])
    BY <2>2 DEF EndsOn
  <2> QED BY <1>1, <1>2, <2>3 DEF Cursors, Lit
<1>9. Letters
  BY <1>1, <1>2, <1>3 DEF Letters
<1>10. Children
  BY <1>2 DEF Children, Opening
<1>11. Stack
  BY <1>1, <1>2, <1>3 DEF Stack
<1>12. Aimed
  BY <1>2, <1>3 DEF Aimed
<1>13. Apps
  BY <1>2 DEF Apps
<1>14. Room
  <2>1. Starters = {}
    BY <1>2 DEF Starters
  <2>2. Cardinality(Starters) = 0
    BY <2>1, FS_EmptySet
  <2> DEFINE f == Cardinality(FreeSlots)
  <2>3. f \in Nat
    BY RoomFacts
  <2> HIDE DEF f
  <2>4. 0 <= f
    BY <2>3
  <2> QED BY <2>2, <2>4 DEF Room, f
<1> QED BY <1>5, <1>6, <1>7, <1>8, <1>9, <1>10, <1>11, <1>12, <1>13, <1>14 DEF IInv

\* Every step keeps the invariant.
LEMMA NextIInv ==
  ASSUME IInv, Exposed = {}, Next \/ UNCHANGED vars
  PROVE  IInv'
<1>1. CASE User
  <2>1. CASE Type
    BY <2>1, TypeStep
  <2>2. CASE Tab \/ Interrupt \/ Cycle \/ Notice
    BY <2>2, FocusSteps
  <2>3. CASE NewConsole
    BY <2>3, NewConsoleStep
  <2>4. ASSUME NEW w \in Windows, Click(w) \/ CloseApp(w) PROVE IInv'
    BY <2>4, FocusSteps
  <2>5. ASSUME NEW w \in Windows, CloseConsole(w) PROVE IInv'
    BY <2>5, CloseConsoleStep
  <2> QED BY <1>1, <2>1, <2>2, <2>3, <2>4, <2>5 DEF User
<1>2. CASE Receive
  BY <1>2, ReceiveStep
<1>3. ASSUME NEW t \in Slots, Console(t) PROVE IInv'
  <2>1. CASE SetCursor(t) \/ Leave(t) \/ Plain(t) \/ StartApp(t)
    BY <2>1, ConsoleSteps
  <2>2. CASE CmdExit(t)
    BY <2>2, CmdExitStep
  <2>3. CASE StartSheet(t)
    BY <2>3, StartSheetStep
  <2>4. CASE StartTask(t)
    BY <2>4, StartTaskStep
  <2>5. CASE StartShow(t)
    BY <2>5, StartShowStep
  <2>6. CASE StartType(t)
    BY <2>6, StartTypeStep
  <2>7. CASE CmdOpen(t)
    BY <2>7, CmdOpenStep
  <2>8. CASE GiveUpWindow(t)
    BY <2>8, GiveUpStep
  <2>9. CASE Cleanup(t)
    BY <2>9, ConsoleSteps, FreeSteps
  <2> QED BY <1>3, <2>1, <2>2, <2>3, <2>4, <2>5, <2>6, <2>7, <2>8, <2>9 DEF Console
<1>4. ASSUME NEW t \in Slots, Application(t) PROVE IInv'
  <2>1. CASE GetKey(t) \/ TakeClose(t) \/ EndApp(t)
    BY <2>1, ConsoleSteps
  <2>2. CASE OpenWindow(t)
    BY <2>2, OpenWindowStep
  <2>3. CASE CloseWindow(t)
    BY <2>3, FreeSteps
  <2> QED BY <1>4, <2>1, <2>2, <2>3 DEF Application
<1>5. CASE UNCHANGED vars
  <2>1. /\ kind' = kind /\ owner' = owner /\ order' = order /\ key_win' = key_win /\ mail' = mail
        /\ pc' = pc /\ sht' = sht /\ inbox' = inbox /\ cursor' = cursor /\ child' = child
        /\ reused' = reused
    BY <1>5 DEF vars
  <2>2. /\ Shown' = Shown /\ Sent' = Sent /\ Starters' = Starters /\ FreeSlots' = FreeSlots
        /\ Lit' = Lit
    BY <2>1 DEF Shown, Sent, Starters, FreeSlots, Lit
  <2>3. Types' /\ Sheets' /\ Boxes' /\ Cursors'
    BY <2>1, <2>2 DEF IInv, Types, TypeOK, Sheets, Boxes, Cursors, Messages, Places, InApp, Slots, Windows
  <2>4. Letters' /\ Children' /\ Stack' /\ Aimed' /\ Apps' /\ Room'
    BY <2>1, <2>2 DEF IInv, Letters, Children, Stack, Aimed, Being, Apps, Room, Message
  <2> QED BY <2>3, <2>4 DEF IInv
<1> QED BY <1>1, <1>2, <1>3, <1>4, <1>5 DEF Next

-----------------------------------------------------------------------------
(* What follows from it. *)

\* A message waits once if at all.
LEMMA WaitingFacts ==
  ASSUME Types, IsInjective(mail), NEW code, NEW n
  PROVE  Waiting(code, n) = IF Message(code, n) \in Sent THEN 1 ELSE 0
<1> DEFINE m == Message(code, n)
           S == {i \in DOMAIN mail : mail[i] = m}
<1>1. CASE m \notin Sent
  <2>1. S = {}
    BY <1>1 DEF Sent, Range
  <2> HIDE DEF S
  <2>2. Cardinality(S) = 0
    BY <2>1, FS_EmptySet
  <2> QED BY <1>1, <2>2 DEF Waiting, S
<1>2. CASE m \in Sent
  <2>1. PICK i \in DOMAIN mail : mail[i] = m
    BY <1>2 DEF Sent, Range
  <2>2. S = {i}
    BY <2>1 DEF IsInjective
  <2> HIDE DEF S
  <2>3. Cardinality(S) = 1
    BY <2>2, FS_Singleton
  <2> QED BY <1>2, <2>3 DEF Waiting, S
<1> QED BY <1>1, <1>2

\* HariMain and the consoles agree.
LEMMA Agreement ==
  ASSUME IInv
  PROVE  MessagesAgree
<1>1. /\ Types /\ Sheets /\ Boxes /\ Letters /\ Children /\ Stack /\ Apps
  BY DEF IInv
<1>2. \A code, n : Waiting(code, n) = IF Message(code, n) \in Sent THEN 1 ELSE 0
  BY <1>1, WaitingFacts DEF Letters
<1>3. sht \in [Slots -> Windows \cup {None}] /\ None \notin Windows
      /\ kind \in [Windows -> {"free", "raw", "console", "app"}]
  BY <1>1, TypeFacts
<1>4. ASSUME NEW t \in Slots
      PROVE  Waiting("task", t) + (IF sht[t] = None THEN 0 ELSE Waiting("console", sht[t]))
               = IF pc[t] = "ended" THEN 1 ELSE 0
  <2>1. CASE sht[t] = None
    <3>1. Message("task", t) \in Sent <=> pc[t] = "ended"
      BY <2>1, <1>1 DEF Letters
    <3> QED BY <2>1, <3>1, <1>2
  <2>2. CASE sht[t] # None
    <3>1. Message("task", t) \notin Sent
      BY <2>2, <1>1 DEF Letters
    <3>2. Message("console", sht[t]) \in Sent <=> pc[t] = "ended"
      <4>1. sht[t] \in Windows /\ \A u \in Slots : sht[u] = sht[t] => u = t
        BY <2>2, <1>1, <1>3 DEF Sheets
      <4> QED BY <4>1, <1>1 DEF Letters
    <3> QED BY <2>2, <3>1, <3>2, <1>2
  <2> QED BY <2>1, <2>2
<1>5. \A t \in Alive : sht[t] # None => kind[sht[t]] = "console" /\ owner[sht[t]] = t
  BY <1>1 DEF Sheets, Alive
<1>6. ASSUME NEW w \in Windows
      PROVE  /\ Waiting("window", w) <= 1
             /\ CASE kind[w] = "console" ->
                       Waiting("window", w) = IF \E t \in Alive : sht[t] = w THEN 0 ELSE 1
                  [] kind[w] = "app" -> pc[owner[w]] \in InApp \cup {"cleanup"}
                  [] kind[w] = "raw" -> \E t \in Slots : pc[t] = "start" /\ child[t] = w
                  [] kind[w] = "free" -> Waiting("console", w) + Waiting("window", w) = 0
  <2>1. Waiting("window", w) <= 1
    BY <1>2
  <2>2. w # None
    BY <1>3
  <2>3. CASE kind[w] = "console"
    <3>1. (\E t \in Alive : sht[t] = w) <=> (\E t \in Slots : sht[t] = w)
      BY <2>2, <1>1 DEF Sheets, Alive
    <3>2. Message("window", w) \in Sent <=> ~(\E t \in Slots : sht[t] = w)
      BY <2>3, <1>1 DEF Letters
    <3> QED BY <2>1, <2>3, <3>1, <3>2, <1>2
  <2>4. CASE kind[w] = "app"
    BY <2>1, <2>4, <1>1 DEF Apps
  <2>5. CASE kind[w] = "raw"
    BY <2>1, <2>5, <1>1 DEF Children
  <2>6. CASE kind[w] = "free"
    <3>1. Message("window", w) \notin Sent
      BY <2>6, <1>1 DEF Letters
    <3>2. Message("console", w) \notin Sent
      BY <2>2, <2>6, <1>1 DEF Letters, Sheets
    <3> QED BY <2>1, <2>6, <3>1, <3>2, <1>2
  <2> QED BY <2>3, <2>4, <2>5, <2>6, <1>3
<1>7. \A t \in Slots \ Alive : inbox[t] = <<>>
  BY <1>1 DEF Boxes, Alive
<1>8. \A i, j \in DOMAIN order : order[i] = order[j] => i = j
  BY <1>1 DEF Stack, IsInjective
<1>9. \A i \in DOMAIN order : kind[order[i]] # "free"
  <2>1. \A i \in DOMAIN order : order[i] \in Shown
    BY DEF Shown, Range
  <2>2. \A w \in Shown : kind[w] # "free"
    <3> SUFFICES ASSUME NEW w \in Shown PROVE kind[w] # "free"
      OBVIOUS
    <3>1. kind[w] = "app" \/ kind[w] = "console"
      BY <1>1 DEF Stack
    <3> QED BY <3>1
  <2> QED BY <2>1, <2>2
<1> QED BY <1>4, <1>5, <1>6, <1>7, <1>8, <1>9 DEF MessagesAgree

\* The focus is on the screen and its task exists, or cmd_start has its sheet.
LEMMA LiveFocus ==
  ASSUME IInv
  PROVE  FocusIsLive
<1>1. Types
  BY DEF IInv
<1> SUFFICES ASSUME Focus \in Shown
             PROVE  Contains(order, Focus) /\ owner[Focus] \in Alive
  BY FocusFacts DEF FocusIsLive, Being
<1>2. Contains(order, Focus)
  BY <1>1, ContainsShown
<1>3. owner[Focus] \in Alive
  BY ShownFacts DEF Alive
<1> QED BY <1>2, <1>3

\* The cursor is on, or will be, where the focus was given.
LEMMA CursorWithFocus ==
  ASSUME IInv
  PROVE  CursorFollowsFocus
<1>1. \A t \in Slots : Ordered(t) <=> EndsOn(inbox[t], cursor[t])
  BY DEF Ordered, EndsOn
<1>2. Cursors
  BY DEF IInv
<1>3. \A t \in Slots : sht[t] # None => (sht[t] = Lit <=> key_win = sht[t] /\ ~reused)
  BY DEF Lit
<1> QED BY <1>1, <1>2, <1>3 DEF Cursors, CursorFollowsFocus, Alive

\* The invariant holds in every state, unless something happens that Exposed names.
THEOREM Invariance ==
  ASSUME Exposed = {}
  PROVE  Spec => []IInv
<1>1. Init => IInv
  BY InitIInv
<1>2. IInv /\ [Next]_vars => IInv'
  BY NextIInv
<1> QED BY <1>1, <1>2, PTL DEF Spec

\* Every part of the state keeps its range: the focus is a window or none, the
\* messages name tasks and windows.
THEOREM TypeCorrect ==
  ASSUME Exposed = {}
  PROVE  Spec => []TypeOK
<1>1. IInv => TypeOK
  BY DEF IInv, Types
<1> QED BY <1>1, Invariance, PTL

\* HariMain and the consoles agree on what exists: nothing is freed twice or
\* while it is in use, and nobody writes to a task that is gone.
THEOREM Agreed ==
  ASSUME Exposed = {}
  PROVE  Spec => []MessagesAgree
<1>1. IInv => MessagesAgree
  BY Agreement
<1> QED BY <1>1, Invariance, PTL

\* A key goes to a window that is on the screen and to a task that exists, or to
\* the window that a cmd_start is opening with the sheet that had the focus; the
\* close button of the last window, and the use of its sheet again, included.
THEOREM FocusLives ==
  ASSUME Exposed = {}
  PROVE  Spec => []FocusIsLive
<1>1. IInv => FocusIsLive
  BY LiveFocus
<1> QED BY <1>1, Invariance, PTL

\* Exactly the console with the focus has a cursor, or is being told so; none has
\* if the focus stayed on a sheet that cmd_start has used again.
THEOREM CursorFollows ==
  ASSUME Exposed = {}
  PROVE  Spec => []CursorFollowsFocus
<1>1. IInv => CursorFollowsFocus
  BY CursorWithFocus
<1> QED BY <1>1, Invariance, PTL
=============================================================================

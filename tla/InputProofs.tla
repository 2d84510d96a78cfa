---------------------------- MODULE InputProofs ----------------------------
(***************************************************************************)
(* What comes in, from the devices and from the disk.                      *)
(*                                                                         *)
(* For every buffer size and every set of data: the counters of fifo.c     *)
(* agree, no wakeup is lost, and the ring buffer implements the bounded    *)
(* queue.  The keyboard, the mouse and HariMain use the fifo32 in the way  *)
(* Fifo32Queue describes, so that all of it holds of HariMain's queue.     *)
(*                                                                         *)
(* For every size of the screen and all characters the cursor of a console *)
(* stays on the screen, and a key does to the line what the user expects;  *)
(* for every size of the table and every word the table of clusters is     *)
(* what FAT12 packs, and a position stays in its file.                     *)
(***************************************************************************)
EXTENDS Input, ConsoleText, Files, KernelLemmas

-----------------------------------------------------------------------------
(* The inductive invariant: typing bounds the indexes, which IndexesAgree  *)
(* needs to cross the end of the buffer.                                   *)

IInv == TypeOK /\ IndexesAgree /\ NoLostWakeup

\* fifo32_init makes an empty queue.
LEMMA InitIInv == Init => IInv
<1> SUFFICES ASSUME Init PROVE IInv
  OBVIOUS
<1> USE SizeAssumption
<1>1. PICK junk \in [Slots -> Data] : fifo = FifoInit(Size, junk, Owner)
  BY DEF Init
<1>2. fifo = [size |-> Size, buf |-> junk, free |-> Size, flags |-> 0,
              p |-> 0, q |-> 0, task |-> Owner]
  BY <1>1 DEF FifoInit
<1>3. Size \in 0 .. Size /\ 0 \in 0 .. Size - 1
  OBVIOUS
<1>4. fifo \in Fifos(Size, Data, Owner)
  BY <1>2, <1>3 DEF Fifos, Slots
<1>5. fifo.task = Owner /\ fifo.p = 0 /\ fifo.q = 0 /\ fifo.free = Size /\ fifo.size = Size
  BY <1>2
<1> QED BY <1>4, <1>5 DEF Init, IInv, TypeOK, IndexesAgree, NoLostWakeup, Agree, FromHead, FifoStatus

\* A put keeps the inductive invariant, whether the queue has room or not.
LEMMA PutIInv ==
  ASSUME IInv, NEW d \in Data, Put(d)
  PROVE  IInv'
<1> USE SizeAssumption DEF IInv, TypeOK, IndexesAgree
<1>1. awake' \in BOOLEAN
  BY DEF Put, WakesOwner
<1>2. CASE fifo.free = 0
  <2>1. awake' = awake
    BY <1>2 DEF Put, WakesOwner
  <2> QED BY <1>2, <2>1, PutOverruns DEF Put, NoLostWakeup
<1>3. CASE fifo.free # 0
  <2>1. fifo.task # NoTask
    BY DEF Fifos, Owner, NoTask
  <2>2. awake'
    BY <1>3, <2>1 DEF Put, WakesOwner
  <2> QED BY <1>1, <1>3, <2>2, PutAppends DEF Put, NoLostWakeup
<1> QED BY <1>2, <1>3

\* The inductive invariant is preserved by every step.
LEMMA NextIInv ==
  ASSUME IInv, [Next]_vars
  PROVE  IInv'
<1> USE SizeAssumption DEF IInv, TypeOK, IndexesAgree, NoLostWakeup
<1>1. ASSUME NEW d \in Data, Put(d)
      PROVE  IInv'
  BY <1>1, PutIInv
<1>2. CASE Sleep
  BY <1>2 DEF Sleep
<1>3. CASE Take
  BY <1>3, GetTakesHead DEF Take
<1>4. CASE UNCHANGED vars
  BY <1>4 DEF vars
<1> QED BY <1>1, <1>2, <1>3, <1>4 DEF Next

\* The producers and the owner of a queue keep the three conjuncts at all times.
THEOREM Invariance == Spec => []IInv
<1>1. Init => IInv
  BY InitIInv
<1>2. IInv /\ [Next]_vars => IInv'
  BY NextIInv
<1> QED BY <1>1, <1>2, PTL DEF Spec

\* The fields of a fifo32 keep their ranges.
THEOREM TypeCorrect == Spec => []TypeOK
<1>1. IInv => TypeOK
  BY DEF IInv
<1> QED BY <1>1, Invariance, PTL

\* The counters p, q and free of a fifo32 never disagree.
THEOREM IndexesAlwaysAgree == Spec => []IndexesAgree
<1>1. IInv => IndexesAgree
  BY DEF IInv
<1> QED BY <1>1, Invariance, PTL

\* A sleeping owner of a fifo32 has an empty queue.
THEOREM NoWakeupIsLost == Spec => []NoLostWakeup
<1>1. IInv => NoLostWakeup
  BY DEF IInv
<1> QED BY <1>1, Invariance, PTL

\* fifo.c implements the bounded queue, for every size and every data.
THEOREM Refinement == Spec => ImplementsQueue
<1> USE SizeAssumption
<1>1. Init => Queue!Init
  <2> SUFFICES ASSUME Init PROVE Queue!Init
    OBVIOUS
  <2>1. IInv /\ fifo.flags = 0 /\ FifoStatus(fifo) = 0
    BY InitIInv DEF Init, FifoInit, FifoStatus
  <2>2. Items(fifo) \in Seq(Data) /\ Len(Items(fifo)) = 0
    BY <2>1, ItemsSeq DEF IInv, TypeOK
  <2> QED BY <2>1, <2>2, EmptySeq DEF Queue!Init
<1>2. IInv /\ [Next]_vars => [Queue!Next]_Queue!vars
  <2> SUFFICES ASSUME IInv, [Next]_vars
               PROVE  [Queue!Next]_Queue!vars
    OBVIOUS
  <2> USE DEF IInv, TypeOK, IndexesAgree
  <2>1. ASSUME NEW d \in Data, Put(d), fifo.free # 0
        PROVE  Queue!Accept(d)
    BY <2>1, PutAppends DEF Put, Queue!Accept
  <2>2. ASSUME NEW d \in Data, Put(d), fifo.free = 0
        PROVE  Queue!Drop
    BY <2>2, PutOverruns DEF Put, Queue!Drop
  <2>3. ASSUME Take
        PROVE  Queue!Deliver
    <3>1. fifo' = FifoGet(fifo) /\ FifoStatus(fifo) # 0
      BY <2>3 DEF Take
    <3>2. /\ Items(fifo) # <<>>
          /\ Items(FifoGet(fifo)) = Tail(Items(fifo))
          /\ FifoGet(fifo).flags = fifo.flags
      BY <3>1, GetTakesHead
    <3> QED BY <3>1, <3>2 DEF Queue!Deliver
  <2>4. CASE UNCHANGED fifo
    BY <2>4 DEF Queue!vars
  <2> QED BY <2>1, <2>2, <2>3, <2>4 DEF Next, Sleep, vars, Queue!Next
<1> QED BY <1>1, <1>2, Invariance, PTL DEF Spec, ImplementsQueue, Queue!Spec
-----------------------------------------------------------------------------
(* HariMain's queue. *)

\* What each step does to the queue is a step of Fifo32Queue, or none.
LEMMA StepOfQueue == [InputNext]_inputVars => [Next]_vars
<1> SUFFICES ASSUME [InputNext]_inputVars PROVE [Next]_vars
  OBVIOUS
<1> USE DEF vars
<1>1. ASSUME NEW byte, KeyData + byte \in Data, KeyInterrupt(byte) PROVE Next
  BY <1>1 DEF KeyInterrupt, Next
<1>2. ASSUME NEW byte, MouseData + byte \in Data, MouseInterrupt(byte) PROVE Next
  BY <1>2 DEF MouseInterrupt, Next
<1>3. CASE PressLock
  BY <1>1, <1>3, InputAssumption DEF PressLock
<1>4. CASE Accept
  BY <1>1, <1>4, InputAssumption DEF Accept
<1>5. CASE Refuse
  BY <1>1, <1>5, InputAssumption DEF Refuse
<1>6. CASE MouseByte
  <2>1. PICK byte \in FirstBytes \cup MoreBytes \cup {Ack} : MouseInterrupt(byte)
    BY <1>6 DEF MouseByte, PacketByte
  <2> QED BY <1>2, <2>1, InputAssumption
<1>7. CASE HariMain
  <2>1. CASE Send
    BY <2>1 DEF Send
  <2>2. CASE Doze
    BY <2>2 DEF Doze, Next
  <2>3. ASSUME Take PROVE Next
    BY <2>3 DEF Next
  <2>4. CASE Acknowledged \/ SendAgain
    BY <2>3, <2>4 DEF Acknowledged, SendAgain, TakeKey
  <2>5. CASE \E key \in Locks : Lock(key)
    BY <2>3, <2>5 DEF Lock, TakeKey
  <2>6. CASE \E byte \in FirstBytes \cup MoreBytes \cup {Ack} : Decode(byte)
    BY <2>3, <2>6 DEF Decode, TakeMouse
  <2> QED BY <1>7, <2>1, <2>2, <2>4, <2>5, <2>6 DEF HariMain
<1>8. CASE UNCHANGED inputVars
  BY <1>8 DEF inputVars
<1> QED BY <1>3, <1>4, <1>5, <1>6, <1>7, <1>8 DEF InputNext

\* HariMain's queue is a fifo32 in use.
THEOREM QueueInUse == InputSpec => Spec
<1>1. InputInit => Init
  BY DEF InputInit
<1> QED BY <1>1, StepOfQueue, PTL DEF InputSpec, Spec

\* Keyboard, mouse and HariMain keep the counters of the queue in agreement.
THEOREM InputIndexesAgree == InputSpec => []IndexesAgree
  BY QueueInUse, IndexesAlwaysAgree, PTL

\* No interrupt of the keyboard or the mouse is slept over.
THEOREM InputWakes == InputSpec => []NoLostWakeup
  BY QueueInUse, NoWakeupIsLost, PTL

\* HariMain gets the bytes in the order in which they came.
THEOREM InputInOrder == InputSpec => ImplementsQueue
  BY QueueInUse, Refinement, PTL

-----------------------------------------------------------------------------
(* Types. *)

\* The light of a lock key.
LEMMA LightOfKey ==
  ASSUME NEW key \in Locks PROVE {Light[key]} \in Lights
<1>1. key \in {58, 69, 70}
  BY InputAssumption DEF Light
<1> QED BY <1>1 DEF Light, Lights

\* A lock key keeps the types: what does not fit into keycmd is dropped.
LEMMA LockTypes ==
  ASSUME OwnTypeOK, NEW key \in Locks, Lock(key)
  PROVE  OwnTypeOK'
<1> DEFINE leds == SymmetricDifference(key_leds, {Light[key]})
           room == CommandSize - Len(keycmd)
           pair == <<LedCommand, leds>>
           some == SubSeq(pair, 1, IF room < 2 THEN room ELSE 2)
<1>1. leds \in Lights
  BY LightOfKey DEF SymmetricDifference, Lights, OwnTypeOK
<1>2. room \in Nat /\ CommandSize \in Nat
  BY InputAssumption DEF OwnTypeOK
<1>3. pair \in Seq(Commands) /\ Len(pair) = 2
  BY <1>1 DEF Commands
<1>4. some \in Seq(Commands) /\ Len(some) = IF room < 2 THEN room ELSE 2
  <2> DEFINE n == IF room < 2 THEN room ELSE 2
  <2>1. n \in 0 .. 2
    BY <1>2
  <2>2. \A i \in 1 .. n : pair[i] \in Commands
    BY <1>3, <2>1
  <2> HIDE DEF n, pair
  <2>3. /\ SubSeq(pair, 1, n) \in Seq(Commands)
        /\ Len(SubSeq(pair, 1, n)) = IF 1 <= n THEN n - 1 + 1 ELSE 0
    BY <2>1, <2>2, SubSeqProperties
  <2>4. SubSeq(pair, 1, n) \in Seq(Commands) /\ Len(SubSeq(pair, 1, n)) = n
    BY <2>1, <2>3
  <2> QED BY <2>4 DEF n
<1>5. keycmd' = keycmd \o some /\ key_leds' = leds
  BY DEF Lock
<1>6. keycmd' \in Seq(Commands) /\ Len(keycmd') <= CommandSize
  <2> HIDE DEF some, room
  <2>1. Len(keycmd \o some) = Len(keycmd) + Len(some) /\ keycmd \o some \in Seq(Commands)
    <3>1. keycmd \in Seq(Commands) /\ some \in Seq(Commands)
      BY <1>4 DEF OwnTypeOK
    <3> QED BY <3>1, ConcatProperties
  <2>2. Len(some) <= CommandSize - Len(keycmd) /\ Len(keycmd) \in Nat
    BY <1>2, <1>4 DEF room, OwnTypeOK
  <2> QED BY <1>2, <1>4, <1>5, <2>1, <2>2
<1>7. keycmd_over' \in {0, 1}
  BY DEF Lock, OwnTypeOK
<1> QED BY <1>1, <1>5, <1>6, <1>7 DEF Lock, OwnTypeOK

\* The other steps.
LEMMA StepTypes == OwnTypeOK /\ [InputNext]_inputVars => OwnTypeOK'
<1> SUFFICES ASSUME OwnTypeOK, [InputNext]_inputVars PROVE OwnTypeOK'
  OBVIOUS
<1>1. CASE PressLock
  BY <1>1 DEF PressLock, commands, OwnTypeOK
<1>2. CASE Accept
  <2>1. keyboard'.leds \in Lights
    BY <1>2 DEF Accept, OwnTypeOK
  <2> QED BY <1>2, <2>1 DEF Accept, commands, OwnTypeOK
<1>3. CASE Refuse
  BY <1>3 DEF Refuse, commands, OwnTypeOK
<1>4. CASE MouseByte
  BY <1>4 DEF MouseByte, Following, commands, OwnTypeOK
<1>5. CASE Send
  <2>1. keycmd # <<>> /\ keycmd \in Seq(Commands)
    BY <1>5 DEF Send, Due, OwnTypeOK
  <2>2. Head(keycmd) \in Commands /\ Tail(keycmd) \in Seq(Commands)
        /\ Len(Tail(keycmd)) = Len(keycmd) - 1 /\ Len(keycmd) \in Nat
    BY <2>1
  <2>3. Len(keycmd') <= CommandSize
    BY <1>5, <2>2, InputAssumption DEF Send, OwnTypeOK
  <2> QED BY <1>5, <2>2, <2>3 DEF Send, OwnTypeOK
<1>6. CASE Doze
  BY <1>6 DEF Doze, commands, OwnTypeOK
<1>7. CASE Acknowledged
  BY <1>7 DEF Acknowledged, OwnTypeOK
<1>8. CASE SendAgain
  BY <1>8 DEF SendAgain, commands, OwnTypeOK
<1>9. CASE \E key \in Locks : Lock(key)
  BY <1>9, LockTypes
<1>10. CASE \E byte \in FirstBytes \cup MoreBytes \cup {Ack} : Decode(byte)
  BY <1>10 DEF Decode, NextPhase, commands, OwnTypeOK
<1>11. CASE UNCHANGED inputVars
  BY <1>11 DEF inputVars, commands, OwnTypeOK
<1> QED
  BY <1>1, <1>2, <1>3, <1>4, <1>5, <1>6, <1>7, <1>8, <1>9, <1>10, <1>11
  DEF InputNext, HariMain

\* The types of the handshake, the decoder and the queue.
THEOREM InputTypeCorrect == InputSpec => []InputTypeOK
<1>1. InputInit => OwnTypeOK
  <2> SUFFICES ASSUME InputInit PROVE OwnTypeOK
    OBVIOUS
  <2>1. key_leds \in Lights
    <3>1. \A l \in Locks : Light[l] \in {1, 2, 4}
      BY LightOfKey DEF Lights
    <3> QED BY <3>1 DEF InputInit, Lights
  <2>2. keycmd \in Seq(Commands) /\ Len(keycmd) <= CommandSize
    BY InputAssumption DEF InputInit
  <2> QED BY <2>1, <2>2 DEF InputInit, OwnTypeOK
<1>2. OwnTypeOK /\ TypeOK => InputTypeOK
  BY DEF InputTypeOK
<1>3. InputSpec => []TypeOK
  BY QueueInUse, TypeCorrect, PTL
<1>4. InputSpec => []OwnTypeOK
  BY <1>1, StepTypes, PTL DEF InputSpec
<1> QED BY <1>2, <1>3, <1>4, PTL

-----------------------------------------------------------------------------
(* The packets of the mouse: with the invariant of the queue, PacketsWhole *)
(* is inductive.                                                           *)

\* The bytes that may come in each phase.
LEMMA PacketBytes == PacketByte(0) = {Ack} /\ PacketByte(1) = FirstBytes
                     /\ PacketByte(2) = MoreBytes /\ PacketByte(3) = MoreBytes
  BY DEF PacketByte

\* The bytes of the mouse are numbers.
LEMMA MouseBytes == FirstBytes \cup MoreBytes \cup {Ack} \subseteq Nat
<1>1. FirstBytes \subseteq Nat
  BY InputAssumption
<1>2. MoreBytes \subseteq 0 .. 255
  BY InputAssumption
<1> QED BY <1>1, <1>2 DEF Ack

\* One more datum at the end: the byte that may come there, or none of the mouse.
LEMMA DecodesAppend ==
  ASSUME NEW S, NEW q \in Seq(S), NEW d \in S, NEW from, NEW to, NEW next \in 0 .. 3,
         Decodes(q, from, to),
         IF d >= MouseData
         THEN d - MouseData \in PacketByte(to) /\ next = Following(to)
         ELSE next = to
  PROVE  Decodes(Append(q, d), from, next)
<1> DEFINE r == Append(q, d)
           n == Len(q)
<1>1. n \in Nat /\ Len(r) = n + 1 /\ r[n + 1] = d /\ \A i \in 1 .. n : r[i] = q[i]
  BY AppendProperties
<1>2. PICK e \in [0 .. n -> 0 .. 3] :
        /\ e[0] = from /\ e[n] = to
        /\ \A i \in 1 .. n :
             IF q[i] >= MouseData
             THEN q[i] - MouseData \in PacketByte(e[i - 1]) /\ e[i] = Following(e[i - 1])
             ELSE e[i] = e[i - 1]
  BY DEF Decodes
<1> DEFINE f == [i \in 0 .. n + 1 |-> IF i = n + 1 THEN next ELSE e[i]]
<1> HIDE DEF r, n
<1>3. f \in [0 .. n + 1 -> 0 .. 3] /\ f[n + 1] = next /\ \A i \in 0 .. n : f[i] = e[i]
  BY <1>1
<1> HIDE DEF f
<1>4. \A i \in 1 .. n + 1 :
        IF r[i] >= MouseData
        THEN r[i] - MouseData \in PacketByte(f[i - 1]) /\ f[i] = Following(f[i - 1])
        ELSE f[i] = f[i - 1]
  <2> SUFFICES ASSUME NEW i \in 1 .. n + 1
               PROVE  IF r[i] >= MouseData
                      THEN r[i] - MouseData \in PacketByte(f[i - 1]) /\ f[i] = Following(f[i - 1])
                      ELSE f[i] = f[i - 1]
    OBVIOUS
  <2>1. CASE i = n + 1
    <3>1. i - 1 = n /\ n \in 0 .. n
      BY <2>1, <1>1
    <3>2. f[i - 1] = to /\ f[i] = next /\ r[i] = d
      BY <2>1, <3>1, <1>1, <1>2, <1>3
    <3> QED BY <3>2
  <2>2. CASE i # n + 1
    <3>1. i \in 1 .. n /\ i - 1 \in 0 .. n /\ i \in 0 .. n
      BY <2>2, <1>1
    <3>2. f[i - 1] = e[i - 1] /\ f[i] = e[i] /\ r[i] = q[i]
      BY <3>1, <1>1, <1>3
    <3> QED BY <3>1, <3>2, <1>2
  <2> QED BY <2>1, <2>2
<1>5. f[0] = from
  BY <1>1, <1>2, <1>3
<1>6. Decodes(r, from, next)
  BY <1>1, <1>3, <1>4, <1>5 DEF Decodes
<1> QED BY <1>6 DEF r

\* The first datum is one of those that may come in the first phase.
LEMMA DecodesTail ==
  ASSUME NEW S, NEW q \in Seq(S), q # <<>>, NEW from, NEW to, NEW next,
         Decodes(q, from, to),
         IF Head(q) >= MouseData
         THEN Head(q) - MouseData \in PacketByte(from) => next = Following(from)
         ELSE next = from
  PROVE  Decodes(Tail(q), next, to)
<1> DEFINE r == Tail(q)
           n == Len(q)
<1>1. /\ n \in Nat \ {0} /\ Len(r) = n - 1 /\ Head(q) = q[1]
      /\ \A i \in 1 .. n - 1 : r[i] = q[i + 1]
  <2>1. Len(r) = n - 1 /\ \A i \in 1 .. Len(r) : r[i] = q[i + 1]
    BY HeadTailProperties
  <2>2. n \in Nat \ {0} /\ Head(q) = q[1]
    BY EmptySeq
  <2> QED BY <2>1, <2>2
<1>2. PICK e \in [0 .. n -> 0 .. 3] :
        /\ e[0] = from /\ e[n] = to
        /\ \A i \in 1 .. n :
             IF q[i] >= MouseData
             THEN q[i] - MouseData \in PacketByte(e[i - 1]) /\ e[i] = Following(e[i - 1])
             ELSE e[i] = e[i - 1]
  BY DEF Decodes
<1> DEFINE f == [i \in 0 .. n - 1 |-> e[i + 1]]
<1> HIDE DEF r, n
<1>3. f \in [0 .. n - 1 -> 0 .. 3] /\ \A i \in 0 .. n - 1 : f[i] = e[i + 1]
  BY <1>1
<1> HIDE DEF f
<1>4. \A i \in 1 .. n - 1 :
        IF r[i] >= MouseData
        THEN r[i] - MouseData \in PacketByte(f[i - 1]) /\ f[i] = Following(f[i - 1])
        ELSE f[i] = f[i - 1]
  <2> SUFFICES ASSUME NEW i \in 1 .. n - 1
               PROVE  IF r[i] >= MouseData
                      THEN r[i] - MouseData \in PacketByte(f[i - 1]) /\ f[i] = Following(f[i - 1])
                      ELSE f[i] = f[i - 1]
    OBVIOUS
  <2>1. /\ i + 1 \in 1 .. n /\ i - 1 \in 0 .. n - 1 /\ i \in 0 .. n - 1
        /\ i + 1 - 1 = i /\ i - 1 + 1 = i
    BY <1>1
  <2>2. f[i - 1] = e[i] /\ f[i] = e[i + 1] /\ r[i] = q[i + 1]
    BY <2>1, <1>1, <1>3
  <2>3. IF q[i + 1] >= MouseData
        THEN q[i + 1] - MouseData \in PacketByte(e[i]) /\ e[i + 1] = Following(e[i])
        ELSE e[i + 1] = e[i]
    BY <2>1, <1>2
  <2> QED BY <2>2, <2>3
<1>5. f[0] = next
  <2>1. 1 \in 1 .. n /\ 0 \in 0 .. n - 1 /\ 1 - 1 = 0 /\ 0 + 1 = 1
    BY <1>1
  <2>2. IF q[1] >= MouseData
        THEN q[1] - MouseData \in PacketByte(e[0]) /\ e[1] = Following(e[0])
        ELSE e[1] = e[0]
    BY <2>1, <1>2
  <2>3. e[1] = next
    BY <2>2, <1>1, <1>2
  <2> QED BY <2>1, <2>3, <1>3
<1>6. f[Len(r)] = to
  <2>1. n - 1 \in 0 .. n - 1 /\ n - 1 + 1 = n
    BY <1>1
  <2>2. f[n - 1] = e[n]
    BY <2>1, <1>3
  <2> QED BY <2>2, <1>1, <1>2
<1>7. Decodes(r, next, to)
  BY <1>1, <1>3, <1>4, <1>5, <1>6 DEF Decodes
<1> QED BY <1>7 DEF r

\* A byte put into the queue, by the mouse in its turn or by the keyboard.
LEMMA PutInStep ==
  ASSUME IInv, PacketsWhole, NEW d \in Data, Put(d), phase' = phase, mouse' \in 0 .. 3,
         IF d >= MouseData
         THEN d - MouseData \in PacketByte(mouse) /\ mouse' = Following(mouse)
         ELSE mouse' = mouse
  PROVE  PacketsWhole'
<1> USE SizeAssumption DEF IInv, TypeOK, IndexesAgree
<1> SUFFICES ASSUME fifo'.flags = 0
             PROVE  Decodes(Items(fifo'), phase', mouse')
  BY DEF PacketsWhole
<1>1. fifo.free # 0
  BY PutOverruns DEF Put
<1>2. fifo.flags = 0 /\ Items(fifo') = Append(Items(fifo), d) /\ Items(fifo) \in Seq(Data)
  BY <1>1, PutAppends, ItemsSeq DEF Put
<1>3. Decodes(Items(fifo), phase, mouse)
  BY <1>2 DEF PacketsWhole
<1>4. Decodes(Append(Items(fifo), d), phase, mouse')
  BY <1>2, <1>3, DecodesAppend
<1> QED BY <1>2, <1>4

\* HariMain takes the byte its decoder is waiting for, or one of the keyboard.
LEMMA TakeInStep ==
  ASSUME IInv, PacketsWhole, Take, mouse' = mouse,
         IF GetResult(fifo) >= MouseData
         THEN GetResult(fifo) - MouseData \in PacketByte(phase) => phase' = Following(phase)
         ELSE phase' = phase
  PROVE  PacketsWhole'
<1> USE SizeAssumption DEF IInv, TypeOK, IndexesAgree
<1> SUFFICES ASSUME fifo'.flags = 0
             PROVE  Decodes(Items(fifo'), phase', mouse')
  BY DEF PacketsWhole
<1>1. /\ Items(fifo) \in Seq(Data) /\ Items(fifo) # <<>> /\ fifo'.flags = fifo.flags
      /\ GetResult(fifo) = Head(Items(fifo)) /\ Items(fifo') = Tail(Items(fifo))
  BY GetTakesHead, ItemsSeq DEF Take
<1>2. Decodes(Items(fifo), phase, mouse)
  BY <1>1 DEF PacketsWhole
<1>3. Decodes(Tail(Items(fifo)), phase', mouse)
  <2> HIDE DEF IInv, TypeOK, IndexesAgree
  <2> QED BY <1>1, <1>2, DecodesTail
<1> QED BY <1>1, <1>3

\* No step breaks a packet.
LEMMA StepWhole == IInv /\ OwnTypeOK /\ PacketsWhole /\ [InputNext]_inputVars => PacketsWhole'
<1> SUFFICES ASSUME IInv, OwnTypeOK, PacketsWhole, [InputNext]_inputVars PROVE PacketsWhole'
  OBVIOUS
<1>1. ASSUME NEW byte \in Locks \cup {Ack, Resend}, KeyInterrupt(byte), UNCHANGED <<phase, mouse>>
      PROVE  PacketsWhole'
  <2>1. KeyData + byte \in Data /\ ~(KeyData + byte >= MouseData)
    BY InputAssumption DEF KeyData, MouseData, Ack, Resend, Light
  <2> QED BY <1>1, <2>1, PutInStep DEF KeyInterrupt, OwnTypeOK
<1>2. ASSUME NEW byte \in Locks \cup {Ack, Resend}, TakeKey(byte), UNCHANGED <<phase, mouse>>
      PROVE  PacketsWhole'
  <2>1. ~(KeyData + byte >= MouseData)
    BY InputAssumption DEF KeyData, MouseData, Ack, Resend, Light
  <2> QED BY <1>2, <2>1, TakeInStep DEF TakeKey
<1>3. CASE UNCHANGED <<fifo, phase, mouse>>
  BY <1>3 DEF PacketsWhole
<1>4. CASE PressLock
  BY <1>1, <1>4 DEF PressLock
<1>5. CASE Accept \/ Refuse
  BY <1>1, <1>5 DEF Accept, Refuse
<1>6. CASE MouseByte
  <2>1. PICK byte \in PacketByte(mouse) : MouseInterrupt(byte)
    BY <1>6 DEF MouseByte
  <2>2. byte \in FirstBytes \cup MoreBytes \cup {Ack}
    BY <2>1 DEF PacketByte, OwnTypeOK
  <2>3. byte \in Nat
    BY <2>2, MouseBytes
  <2>4. mouse' = Following(mouse) /\ mouse' \in 0 .. 3 /\ phase' = phase
    BY <1>6 DEF MouseByte, Following, OwnTypeOK
  <2> DEFINE d == MouseData + byte
  <2>5. Put(d)
    BY <2>1 DEF MouseInterrupt
  <2>6. d \in Data
    BY <2>2, InputAssumption
  <2>7. d >= MouseData /\ d - MouseData = byte
    BY <2>3 DEF MouseData
  <2> HIDE DEF d
  <2> QED BY <2>1, <2>4, <2>5, <2>6, <2>7, PutInStep
<1>7. CASE Send \/ Doze
  BY <1>3, <1>7 DEF Send, Doze, Sleep
<1>8. CASE Acknowledged \/ SendAgain
  BY <1>2, <1>8 DEF Acknowledged, SendAgain
<1>9. CASE \E key \in Locks : Lock(key)
  BY <1>2, <1>9 DEF Lock
<1>10. ASSUME NEW byte \in FirstBytes \cup MoreBytes \cup {Ack}, Decode(byte)
       PROVE  PacketsWhole'
  <2>1. byte \in Nat
    BY MouseBytes
  <2>2. GetResult(fifo) >= MouseData /\ GetResult(fifo) - MouseData = byte
    BY <1>10, <2>1 DEF Decode, TakeMouse, MouseData
  <2>3. ASSUME byte \in PacketByte(phase) PROVE NextPhase(byte) = Following(phase)
    <3>1. phase \in 0 .. 3
      BY DEF OwnTypeOK
    <3>2. CASE phase = 0
      BY <2>3, <3>2, PacketBytes DEF NextPhase, Following
    <3>3. CASE phase = 1
      BY <2>3, <3>3, PacketBytes, InputAssumption DEF NextPhase, Following
    <3>4. CASE phase = 2 \/ phase = 3
      BY <3>4 DEF NextPhase, Following
    <3> QED BY <3>1, <3>2, <3>3, <3>4
  <2> QED BY <1>10, <2>2, <2>3, TakeInStep DEF Decode, TakeMouse
<1>11. CASE UNCHANGED inputVars
  BY <1>3, <1>11 DEF inputVars
<1> QED
  BY <1>4, <1>5, <1>6, <1>7, <1>8, <1>9, <1>10, <1>11 DEF InputNext, HariMain

\* Whatever the keyboard puts in between, and however far HariMain is behind,
\* mouse_decode reads the packets that the mouse has sent, unless the queue has
\* overrun.
THEOREM PacketsStayWhole == InputSpec => []PacketsWhole
<1>1. InputInit => PacketsWhole
  <2> SUFFICES ASSUME InputInit PROVE Decodes(Items(fifo), phase, mouse)
    BY DEF PacketsWhole
  <2>1. IInv /\ FifoStatus(fifo) = 0
    BY InitIInv, SizeAssumption DEF InputInit, Init, FifoInit, FifoStatus
  <2>2. Len(Items(fifo)) = 0
    BY <2>1, ItemsSeq, SizeAssumption DEF IInv, TypeOK
  <2>3. phase = 0 /\ mouse = 0
    BY DEF InputInit
  <2> DEFINE e == [i \in 0 .. 0 |-> 0]
  <2>4. e \in [0 .. 0 -> 0 .. 3] /\ e[0] = 0
    OBVIOUS
  <2> HIDE DEF e
  <2>5. \A i \in 1 .. 0 : FALSE
    OBVIOUS
  <2> QED BY <2>2, <2>3, <2>4, <2>5 DEF Decodes
<1>2. InputSpec => []IInv
  BY QueueInUse, Invariance, PTL
<1>3. InputSpec => []OwnTypeOK
  BY InputTypeCorrect, PTL DEF InputTypeOK
<1> QED BY <1>1, <1>2, <1>3, StepWhole, PTL DEF InputSpec

-----------------------------------------------------------------------------
(* The console and its files. *)

\* The numbers among the assumptions.
LEMMA Sizes == Columns \in Nat /\ Columns > 3 /\ Lines \in Nat \ {0}
  BY TextAssumption

-----------------------------------------------------------------------------
(* The console: output. *)

\* The fields of a console, one by one.
LEMMA ConsoleFields ==
  ASSUME NEW con \in Consoles
  PROVE  /\ con.x \in Cols /\ con.y \in Rows /\ con.window \in BOOLEAN
         /\ con.text \in [Rows -> [Cols -> Chars]]
  BY DEF Consoles

\* Other text on the same screen.
LEMMA NewText ==
  ASSUME NEW con \in Consoles, NEW text \in [Rows -> [Cols -> Chars]]
  PROVE  LET c == [con EXCEPT !.text = text]
         IN  c \in Consoles /\ c.x = con.x /\ c.y = con.y /\ c.window = con.window
  BY DEF Consoles

\* A character is drawn where the cursor is.
LEMMA DrawnOnScreen ==
  ASSUME NEW con \in Consoles, NEW ch \in Chars
  PROVE  /\ Drawn(con, ch) \in Consoles
         /\ Drawn(con, ch).x = con.x /\ Drawn(con, ch).y = con.y
<1>1. [con.text EXCEPT ![con.y][con.x] = ch] \in [Rows -> [Cols -> Chars]]
  BY ConsoleFields
<1> QED BY <1>1, NewText DEF Drawn

\* cons_newline leaves the cursor at the beginning of a line of the screen.
LEMMA NextLineOnScreen ==
  ASSUME NEW con \in Consoles
  PROVE  NextLine(con) \in Consoles /\ NextLine(con).x = 0
<1>1. 0 \in Cols /\ Lines \in Nat \ {0}
  BY TextAssumption DEF Cols
<1>2. CASE con.y < Lines - 1
  <2>1. con.y + 1 \in Rows
    BY <1>1, <1>2, ConsoleFields DEF Rows
  <2> QED BY <1>1, <1>2, <2>1 DEF NextLine, Consoles
<1>3. CASE ~(con.y < Lines - 1) /\ ~con.window
  BY <1>1, <1>3 DEF NextLine, Consoles
<1>4. CASE ~(con.y < Lines - 1) /\ con.window
  <2> DEFINE text == [r \in Rows |-> IF r < Lines - 1 THEN con.text[r + 1] ELSE BlankRow]
  <2>1. BlankRow \in [Cols -> Chars]
    BY TextAssumption DEF BlankRow
  <2>2. ASSUME NEW r \in Rows PROVE text[r] \in [Cols -> Chars]
    <3>1. CASE r < Lines - 1
      <4>1. r + 1 \in Rows
        BY <1>1, <3>1 DEF Rows
      <4> QED BY <3>1, <4>1, ConsoleFields
    <3> QED BY <2>1, <3>1
  <2>3. text \in [Rows -> [Cols -> Chars]]
    BY <2>2
  <2>4. NextLine(con) = [con EXCEPT !.x = 0, !.text = text]
    BY <1>4 DEF NextLine
  <2> HIDE DEF text
  <2> QED BY <1>1, <2>3, <2>4 DEF Consoles
<1> QED BY <1>2, <1>3, <1>4

\* The cursor goes on, at most to the edge.
LEMMA AdvancedOnScreen ==
  ASSUME NEW con \in Consoles, NEW n \in Nat, con.x + n <= Columns
  PROVE  Advanced(con, n) \in Consoles
<1>1. CASE con.x + n = Columns
  BY <1>1, NextLineOnScreen DEF Advanced
<1>2. CASE con.x + n # Columns
  <2>1. con.x + n \in Cols
    <3> DEFINE x == con.x
    <3>1. x \in 0 .. Columns - 1 /\ x + n <= Columns /\ x + n # Columns
      BY <1>2, ConsoleFields DEF Cols
    <3> HIDE DEF x
    <3>2. x + n \in 0 .. Columns - 1
      BY <3>1, Sizes
    <3> QED BY <3>2 DEF x, Cols
  <2> QED BY <1>2, <2>1 DEF Advanced, Consoles
<1> QED BY <1>1, <1>2

\* cons_putchar keeps the cursor on the screen, whatever is written.
THEOREM PutCharOnScreen ==
  ASSUME NEW con \in Consoles, NEW ch \in Chars, NEW move \in BOOLEAN
  PROVE  PutChar(con, ch, move) \in Consoles
<1>1. CASE ch = HTab
  <2> DEFINE n == TabWidth(con)
  <2>1. n \in Nat /\ con.x + n <= Columns
    <3> DEFINE x == con.x
               stop == 4 - (x % 4)
    <3>1. x \in 0 .. Columns - 1
      BY ConsoleFields DEF Cols
    <3>2. n = IF stop < Columns - x THEN stop ELSE Columns - x
      BY DEF TabWidth
    <3> HIDE DEF n, x
    <3>3. stop \in 1 .. 4
      BY <3>1, Sizes
    <3> HIDE DEF stop
    <3>4. n \in Nat /\ x + n <= Columns
      BY <3>1, <3>2, <3>3, Sizes
    <3> QED BY <3>4 DEF x
  <2> HIDE DEF n
  <2>2. Blanked(con, n) \in Consoles /\ Blanked(con, n).x = con.x
    <3> DEFINE row == [c \in Cols |-> IF c \in con.x .. con.x + n - 1 THEN Space
                                      ELSE con.text[con.y][c]]
               text == [con.text EXCEPT ![con.y] = row]
    <3>1. row \in [Cols -> Chars]
      BY ConsoleFields, TextAssumption
    <3> HIDE DEF row
    <3>2. text \in [Rows -> [Cols -> Chars]]
      BY <3>1, ConsoleFields
    <3>3. Blanked(con, n) = IF con.window THEN [con EXCEPT !.text = text] ELSE con
      BY DEF Blanked, row
    <3> HIDE DEF text
    <3> QED BY <3>2, <3>3, NewText
  <2>3. PutChar(con, ch, move) = Advanced(Blanked(con, n), n)
    BY <1>1, TextAssumption DEF PutChar, n
  <2> QED BY <2>1, <2>2, <2>3, AdvancedOnScreen
<1>2. CASE ch = Newline
  BY <1>2, NextLineOnScreen, TextAssumption DEF PutChar
<1>3. CASE ch = Return
  <2>1. 0 \in Cols
    BY TextAssumption DEF Cols
  <2> QED BY <1>3, <2>1, TextAssumption DEF PutChar, Consoles
<1>4. CASE ch \in Typeable
  <2>1. PutChar(con, ch, move) = IF move THEN Advanced(Drawn(con, ch), 1) ELSE Drawn(con, ch)
    BY <1>4 DEF PutChar, Typeable
  <2>2. con.x + 1 <= Columns
    BY ConsoleFields, TextAssumption DEF Cols
  <2> QED BY <2>1, <2>2, DrawnOnScreen, AdvancedOnScreen
<1> QED BY <1>1, <1>2, <1>3, <1>4 DEF Typeable

-----------------------------------------------------------------------------
(* The console: the line being typed. *)

\* Room for the line: the cursor behind it is still on the same line.
Limit == Columns - 1 - Prompt

\* A line with a character added, and without its last one.
Longer(line, ch) == [i \in 1 .. Len(line) + 1 |-> IF i <= Len(line) THEN line[i] ELSE ch]
Shorter(line) == [i \in 1 .. Len(line) - 1 |-> line[i]]

\* The fields of an editor, and how long its line is.
LEMMA EditorFields ==
  ASSUME NEW ed \in Editors
  PROVE  /\ ed.con \in Consoles /\ ed.cmdline \in [Cols -> Chars]
         /\ ed.con.x \in Prompt .. Columns - 1
         /\ ed.con.x - Prompt \in 0 .. Limit
         /\ Line(ed) \in Seq(Chars) /\ Len(Line(ed)) = ed.con.x - Prompt
         /\ \A i \in 1 .. ed.con.x - Prompt : Line(ed)[i] = ed.cmdline[i - 1]
<1>1. ed.con \in Consoles /\ ed.cmdline \in [Cols -> Chars] /\ ed.con.x >= Prompt
  BY DEF Editors
<1>2. ed.con.x \in Prompt .. Columns - 1 /\ ed.con.x - Prompt \in 0 .. Limit
  BY <1>1, ConsoleFields, TextAssumption DEF Cols, Prompt, Limit
<1>3. ASSUME NEW i \in 1 .. ed.con.x - Prompt PROVE ed.cmdline[i - 1] \in Chars
  <2>1. i - 1 \in Cols
    BY <1>2, TextAssumption DEF Cols, Prompt
  <2> QED BY <1>1, <2>1
<1>4. Line(ed) \in Seq(Chars) /\ Len(Line(ed)) = ed.con.x - Prompt
  <2> DEFINE n == ed.con.x - Prompt
  <2>1. n \in Nat
    BY <1>2
  <2>2. Line(ed) = [i \in 1 .. n |-> ed.cmdline[i - 1]]
    BY DEF Line
  <2> HIDE DEF n
  <2>3. \A i \in 1 .. n : ed.cmdline[i - 1] \in Chars
    BY <1>3 DEF n
  <2>4. Line(ed) \in Seq(Chars) /\ Len(Line(ed)) = n
    BY <2>1, <2>2, <2>3, IsASeq
  <2> QED BY <2>4 DEF n
<1> QED BY <1>1, <1>2, <1>4 DEF Line

\* The backspace key, where there is something to erase.
LEMMA ErasedOnLine ==
  ASSUME NEW ed \in Editors, ed.con.x > Prompt
  PROVE  /\ Erased(ed) \in Editors
         /\ Erased(ed).con.x = ed.con.x - 1 /\ Erased(ed).con.y = ed.con.y
         /\ Erased(ed).cmdline = ed.cmdline
<1> DEFINE wiped == Drawn(ed.con, Space)
           con == [wiped EXCEPT !.x = ed.con.x - 1]
<1>1. wiped \in Consoles /\ wiped.x = ed.con.x /\ wiped.y = ed.con.y
  BY EditorFields, DrawnOnScreen, TextAssumption
<1>2. PutChar(ed.con, Space, FALSE) = wiped
  BY TextAssumption DEF PutChar
<1>3. Erased(ed) = [con |-> con, cmdline |-> ed.cmdline]
  <2>1. ed = [con |-> ed.con, cmdline |-> ed.cmdline]
    BY DEF Editors
  <2> QED BY <1>1, <1>2, <2>1 DEF Erased
<1>4. ed.con.x - 1 \in Cols /\ ed.con.x - 1 >= Prompt
  BY EditorFields, Sizes DEF Cols, Prompt
<1> HIDE DEF wiped
<1>5. con \in Consoles /\ con.x = ed.con.x - 1 /\ con.y = ed.con.y
  BY <1>1, <1>4 DEF Consoles
<1> HIDE DEF con
<1> QED BY <1>3, <1>4, <1>5, EditorFields DEF Editors

\* The key of a character, where there is room.
LEMMA TypedOnLine ==
  ASSUME NEW ed \in Editors, NEW ch \in Typeable, ed.con.x < Columns - 1
  PROVE  /\ Typed(ed, ch) \in Editors
         /\ Typed(ed, ch).con.x = ed.con.x + 1 /\ Typed(ed, ch).con.y = ed.con.y
         /\ Typed(ed, ch).cmdline = [ed.cmdline EXCEPT ![ed.con.x - Prompt] = ch]
<1> DEFINE drawn == Drawn(ed.con, ch)
           con == [drawn EXCEPT !.x = ed.con.x + 1]
           cmdline == [ed.cmdline EXCEPT ![ed.con.x - Prompt] = ch]
<1>1. drawn \in Consoles /\ drawn.x = ed.con.x /\ drawn.y = ed.con.y
  BY EditorFields, DrawnOnScreen DEF Typeable
<1>2. ed.con.x + 1 \in Cols /\ ed.con.x + 1 >= Prompt /\ ed.con.x + 1 # Columns
  BY EditorFields, Sizes DEF Cols, Prompt
<1>3. PutChar(ed.con, ch, TRUE) = Advanced(drawn, 1)
  BY DEF PutChar, Typeable
<1> HIDE DEF drawn
<1>4. Advanced(drawn, 1) = con
  BY <1>1, <1>2 DEF Advanced
<1>5. Typed(ed, ch) = [con |-> con, cmdline |-> cmdline]
  BY <1>3, <1>4 DEF Typed
<1>6. con \in Consoles /\ con.x = ed.con.x + 1 /\ con.y = ed.con.y
  BY <1>1, <1>2 DEF Consoles
<1>7. cmdline \in [Cols -> Chars]
  BY EditorFields DEF Typeable
<1> HIDE DEF con, cmdline
<1>8. Typed(ed, ch) \in Editors
  BY <1>2, <1>5, <1>6, <1>7 DEF Editors
<1> QED BY <1>5, <1>6, <1>8 DEF cmdline

\* The backspace is no character.
LEMMA KeyIs ==
  ASSUME NEW ed, NEW ch
  PROVE  /\ ch = Backspace => Key(ed, ch) = Erased(ed)
         /\ ch \in Typeable => ch # Backspace /\ Key(ed, ch) = Typed(ed, ch)
  BY TextAssumption DEF Key, Typeable

\* A key leaves the cursor on its line, to the right of the prompt, and within
\* cmdline; so does any number of them.
THEOREM KeyOnLine ==
  ASSUME NEW ed \in Editors, NEW ch \in Typeable \cup {Backspace}
  PROVE  Key(ed, ch) \in Editors /\ Key(ed, ch).con.y = ed.con.y
<1>1. CASE ch = Backspace
  <2>0. Key(ed, ch) = Erased(ed)
    BY <1>1, KeyIs
  <2>1. CASE ed.con.x > Prompt
    <3>1. Erased(ed) \in Editors /\ Erased(ed).con.y = ed.con.y
      BY <2>1, ErasedOnLine
    <3> QED BY <2>0, <3>1
  <2>2. CASE ~(ed.con.x > Prompt)
    BY <2>0, <2>2 DEF Erased
  <2> QED BY <2>1, <2>2
<1>2. CASE ch \in Typeable
  <2>0. Key(ed, ch) = Typed(ed, ch)
    BY <1>2, KeyIs
  <2>1. CASE ed.con.x < Columns - 1
    <3>1. Typed(ed, ch) \in Editors /\ Typed(ed, ch).con.y = ed.con.y
      BY <1>2, <2>1, TypedOnLine
    <3> QED BY <2>0, <3>1
  <2>2. CASE ~(ed.con.x < Columns - 1)
    BY <2>0, <2>2 DEF Typed
  <2> QED BY <2>1, <2>2
<1> QED BY <1>1, <1>2

\* A character is added to the line while there is room, the backspace takes
\* the last one away; nothing else of the line changes.
THEOREM KeyEditsLine ==
  ASSUME NEW ed \in Editors, NEW ch \in Typeable \cup {Backspace}
  PROVE  Line(Key(ed, ch)) =
           IF ch = Backspace THEN IF Line(ed) = <<>> THEN Line(ed) ELSE Shorter(Line(ed))
           ELSE IF Len(Line(ed)) < Limit THEN Longer(Line(ed), ch) ELSE Line(ed)
<1> DEFINE n == ed.con.x - Prompt
<1>1. n \in 0 .. Limit /\ Len(Line(ed)) = n /\ (Line(ed) = <<>> <=> n = 0)
      /\ \A i \in 1 .. n : Line(ed)[i] = ed.cmdline[i - 1]
  BY EditorFields
<1>2. Limit \in Nat /\ (ed.con.x > Prompt <=> n # 0)
      /\ (ed.con.x < Columns - 1 <=> n < Limit)
  BY EditorFields, Sizes DEF Limit, Prompt
<1>3. CASE ch = Backspace /\ n # 0
  <2>1. Key(ed, ch).con.x = ed.con.x - 1 /\ Key(ed, ch).cmdline = ed.cmdline
    BY <1>2, <1>3, KeyIs, ErasedOnLine
  <2>2. Key(ed, ch).con.x - Prompt = n - 1
    BY <2>1, EditorFields DEF Prompt
  <2>3. Line(Key(ed, ch)) = [i \in 1 .. n - 1 |-> ed.cmdline[i - 1]]
    BY <2>1, <2>2 DEF Line
  <2> HIDE DEF n
  <2>4. Shorter(Line(ed)) = [i \in 1 .. n - 1 |-> ed.cmdline[i - 1]]
    BY <1>1 DEF Shorter
  <2> QED BY <1>1, <1>3, <2>3, <2>4
<1>4. CASE ch \in Typeable /\ n < Limit
  <2>1. Key(ed, ch).con.x = ed.con.x + 1
        /\ Key(ed, ch).cmdline = [ed.cmdline EXCEPT ![n] = ch]
    BY <1>2, <1>4, KeyIs, TypedOnLine
  <2>2. n \in Cols
    BY <1>1, <1>4, Sizes DEF Cols, Limit, Prompt
  <2>3. ed.cmdline \in [Cols -> Chars]
    BY EditorFields
  <2>4. Key(ed, ch).con.x - Prompt = n + 1
    BY <2>1, EditorFields DEF Prompt
  <2>5. Line(Key(ed, ch)) = [i \in 1 .. n + 1 |-> Key(ed, ch).cmdline[i - 1]]
    BY <2>4 DEF Line
  <2> HIDE DEF n
  <2>6. ASSUME NEW i \in 1 .. n + 1
        PROVE  Key(ed, ch).cmdline[i - 1] = IF i <= n THEN Line(ed)[i] ELSE ch
    <3>1. n \in Nat /\ i - 1 \in Cols /\ (i - 1 = n <=> ~(i <= n))
      BY <1>1, <1>2, <2>2, Sizes DEF Cols
    <3>2. Key(ed, ch).cmdline[i - 1] = IF i - 1 = n THEN ch ELSE ed.cmdline[i - 1]
      BY <2>1, <2>2, <2>3, <3>1
    <3>3. i <= n => Line(ed)[i] = ed.cmdline[i - 1]
      BY <1>1, <3>1
    <3> QED BY <3>1, <3>2, <3>3
  <2>7. Longer(Line(ed), ch) = [i \in 1 .. n + 1 |-> IF i <= n THEN Line(ed)[i] ELSE ch]
    BY <1>1 DEF Longer
  <2>8. Line(Key(ed, ch)) = Longer(Line(ed), ch)
    BY <2>5, <2>6, <2>7
  <2> QED BY <1>1, <1>4, <2>8, KeyIs
<1>5. CASE ch = Backspace /\ n = 0
  BY <1>1, <1>2, <1>5, KeyIs DEF Erased
<1>6. CASE ch \in Typeable /\ ~(n < Limit)
  BY <1>1, <1>2, <1>6, KeyIs DEF Typed
<1> QED BY <1>3, <1>4, <1>5, <1>6

-----------------------------------------------------------------------------
(* Files. *)

\* The low byte and the nibble above it, and the nibble and the high byte.
LEMMA Nibbles ==
  ASSUME NEW e \in Entries, NEW f \in Entries
  PROVE  /\ EvenEntry(LowByte(e), MiddleByte(e, f)) = e
         /\ OddEntry(MiddleByte(e, f), HighByte(f)) = f
<1> USE DEF Entries
<1>1. PICK h \in 0 .. 15, l \in 0 .. 255 : e = h * 256 + l
  <2>1. e \div 256 \in 0 .. 15
    BY SMTT(30)
  <2>2. e % 256 \in 0 .. 255
    BY SMTT(30)
  <2>3. e = (e \div 256) * 256 + (e % 256)
    BY SMTT(30)
  <2> QED BY <2>1, <2>2, <2>3
<1>2. PICK g \in 0 .. 255, k \in 0 .. 15 : f = g * 16 + k
  <2>1. f \div 16 \in 0 .. 255
    BY SMTT(30)
  <2>2. f % 16 \in 0 .. 15
    BY SMTT(30)
  <2>3. f = (f \div 16) * 16 + (f % 16)
    BY SMTT(30)
  <2> QED BY <2>1, <2>2, <2>3
<1>3. e \div 256 = h /\ e % 256 = l
  BY <1>1, SMTT(30)
<1>4. f \div 16 = g /\ f % 16 = k
  BY <1>2, SMTT(30)
<1>5. l + (h + k * 16) * 256 = e + k * 4096
  BY <1>1, SMTT(30)
<1>6. (e + k * 4096) % 4096 = e
  <2>1. (e + k * 4096) \div 4096 = k
    BY SMTT(30)
  <2> QED BY <2>1, SMTT(30)
<1>7. (h + k * 16) \div 16 = k
  BY <1>1, <1>2, SMTT(30)
<1>8. (k + g * 16) % 4096 = f
  BY <1>2, SMTT(30)
<1>9. LowByte(e) = l /\ MiddleByte(e, f) = h + k * 16 /\ HighByte(f) = g
  BY <1>3, <1>4 DEF LowByte, MiddleByte, HighByte
<1> HIDE DEF Entries
<1>10. EvenEntry(l, h + k * 16) = e
  BY <1>5, <1>6 DEF EvenEntry
<1>11. OddEntry(h + k * 16, g) = f
  BY <1>7, <1>8 DEF OddEntry
<1> QED BY <1>9, <1>10, <1>11

\* file_readfat gets out of the disk image what FAT12 packs into it.
THEOREM FatUnpacked ==
  ASSUME NEW fat \in [0 .. FatSize - 1 -> Entries]
  PROVE  ReadFat(PackedFat(fat)) = fat
<1> DEFINE img == PackedFat(fat)
           entry(i) == LET j == 3 * (i \div 2)
                       IN  IF i % 2 = 0 THEN EvenEntry(img[j], img[j + 1])
                           ELSE OddEntry(img[j + 1], img[j + 2])
           top == 3 * (FatSize \div 2) - 1
<1>1. FatSize \in Nat /\ FatSize % 2 = 0
  BY FilesAssumption
<1>2. ASSUME NEW k \in 0 .. top, NEW n, k \div 3 = n
      PROVE  /\ k % 3 = 0 => img[k] = LowByte(fat[2 * n])
             /\ k % 3 = 1 => img[k] = MiddleByte(fat[2 * n], fat[2 * n + 1])
             /\ k % 3 = 2 => img[k] = HighByte(fat[2 * n + 1])
  BY <1>2 DEF PackedFat
<1>3. ASSUME NEW i \in 0 .. FatSize - 1 PROVE entry(i) = fat[i]
  <2>1. PICK n \in Nat : /\ i \div 2 = n /\ n < FatSize \div 2
                         /\ i = 2 * n \/ i = 2 * n + 1
                         /\ i % 2 = 0 <=> i = 2 * n
    BY <1>1
  <2> DEFINE j == 3 * n
             e == fat[2 * n]
             f == fat[2 * n + 1]
  <2>2. j \in 0 .. top /\ j + 1 \in 0 .. top /\ j + 2 \in 0 .. top
    BY <1>1, <2>1
  <2>3. /\ j \div 3 = n /\ j % 3 = 0
        /\ (j + 1) \div 3 = n /\ (j + 1) % 3 = 1
        /\ (j + 2) \div 3 = n /\ (j + 2) % 3 = 2
    OBVIOUS
  <2>4. 2 * n \in 0 .. FatSize - 1 /\ 2 * n + 1 \in 0 .. FatSize - 1
    BY <1>1, <2>1
  <2>5. e \in Entries /\ f \in Entries
    BY <2>4
  <2>6. entry(i) = IF i = 2 * n THEN EvenEntry(img[j], img[j + 1])
                   ELSE OddEntry(img[j + 1], img[j + 2])
    BY <2>1
  <2> HIDE DEF img, top, entry, j
  <2>7. img[j] = LowByte(e) /\ img[j + 1] = MiddleByte(e, f) /\ img[j + 2] = HighByte(f)
    BY <1>2, <2>2, <2>3
  <2>8. EvenEntry(img[j], img[j + 1]) = e /\ OddEntry(img[j + 1], img[j + 2]) = f
    BY <2>5, <2>7, Nibbles
  <2>9. CASE i = 2 * n
    BY <2>6, <2>8, <2>9
  <2>10. CASE i = 2 * n + 1
    BY <2>6, <2>8, <2>10
  <2> QED BY <2>1, <2>9, <2>10
<1>4. ReadFat(img) = [i \in 0 .. FatSize - 1 |-> entry(i)]
  BY DEF ReadFat
<1> HIDE DEF entry, img
<1>5. [i \in 0 .. FatSize - 1 |-> entry(i)] = fat
  BY <1>3
<1> QED BY <1>4, <1>5 DEF img

-----------------------------------------------------------------------------
(* Positions. *)

\* What a handle in use holds.
Handle(file) ==
    /\ file = [buf |-> file.buf, size |-> file.size, pos |-> file.pos]
    /\ file.buf \in Seq(Int) /\ Len(file.buf) = file.size
    /\ file.size \in Nat /\ file.pos \in 0 .. file.size

\* API 23: whatever the origin and the offset, and even if the sum does not fit
\* into a word, the position is one in the file.
THEOREM SeekInFile ==
  ASSUME NEW file, Handle(file), NEW origin \in Int, NEW offset \in Int
  PROVE  Handle(Seek(file, origin, offset))
<1>1. \A n : n \in Int => InFile(file, n) \in 0 .. file.size
  BY DEF InFile, Handle
<1>2. \A n \in Int : Wrapped(n) \in Int
  <2>1. Half \in Nat \ {0}
    BY FilesAssumption
  <2> QED BY <2>1 DEF Wrapped
<1> DEFINE pos == CASE origin = 0 -> offset
                    [] origin = 1 -> Wrapped(file.pos + offset)
                    [] origin = 2 -> Wrapped(file.size + offset)
                    [] OTHER -> file.pos
<1>3. pos \in Int
  BY <1>2 DEF Handle
<1>4. Seek(file, origin, offset) = [file EXCEPT !.pos = InFile(file, pos)]
  BY DEF Seek
<1> HIDE DEF pos
<1> QED BY <1>1, <1>3, <1>4 DEF Handle

\* API 25: the loop stops at the end of the file, and has copied as many bytes
\* as the position has moved.
THEOREM ReadInFile ==
  ASSUME NEW file, Handle(file), NEW count \in Int
  PROVE  /\ Handle(AfterRead(file, count))
         /\ Len(Read(file, count)) = AfterRead(file, count).pos - file.pos
<1> DEFINE n == Count(file, count)
<1>1. n \in 0 .. file.size - file.pos /\ file.pos \in Nat /\ file.size \in Nat
  BY DEF Count, Handle
<1>2. AfterRead(file, count) = [file EXCEPT !.pos = file.pos + n]
  BY DEF AfterRead
<1>3. Read(file, count) = SubSeq(file.buf, file.pos + 1, file.pos + n)
  BY DEF Read
<1> DEFINE pos == file.pos + n
<1>4. pos \in 0 .. file.size
  BY <1>1
<1> HIDE DEF n, pos
<1>5. AfterRead(file, count) = [file EXCEPT !.pos = pos]
  BY <1>2 DEF pos
<1>6. Handle(AfterRead(file, count)) /\ AfterRead(file, count).pos = file.pos + n
  BY <1>4, <1>5 DEF Handle, pos
<1>7. \A i \in file.pos + 1 .. file.pos + n : file.buf[i] \in Int
  BY <1>1 DEF Handle
<1>8. Len(Read(file, count)) = IF file.pos + 1 <= file.pos + n
                               THEN (file.pos + n) - (file.pos + 1) + 1 ELSE 0
  BY <1>1, <1>3, <1>7, SubSeqProperties
<1> QED BY <1>1, <1>6, <1>8
=============================================================================

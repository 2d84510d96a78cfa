------------------------------- MODULE Input -------------------------------
(***************************************************************************)
(* The keyboard and the mouse on HariMain's queue: the interrupt handlers  *)
(* of keyboard.c and mouse.c put bytes into the fifo32 of module           *)
(* Fifo32Queue; HariMain (bootpack.c) takes them out, switches the lights  *)
(* of the keyboard and puts the bytes of the mouse together to packets.    *)
(*                                                                         *)
(* The lights are switched by two bytes, a command and its value, sent one *)
(* at a time: the next goes out when the keyboard has acknowledged the     *)
(* last.  The bytes wait in a second fifo32, keycmd, which is used by      *)
(* HariMain alone; it is taken for the BoundedQueue that fifo.c is.        *)
(*                                                                         *)
(* The keyboard and the mouse are hardware: what they do is their          *)
(* documented protocol.                                                    *)
(***************************************************************************)
EXTENDS Fifo32Queue

CONSTANTS Locks,        \* the lock keys pressed, by their scan codes
          FirstBytes,   \* first bytes of packets
          MoreBytes,    \* second and third bytes of packets
          CommandSize   \* the size of keycmd (32)

KeyData == 256    \* keydata0
MouseData == 512  \* mousedata0

Ack == 250        \* 0xfa
Resend == 254     \* 0xfe

\* The scan codes of CapsLock, NumLock and ScrollLock, and their lights.
Light == [key \in {58, 69, 70} |-> CASE key = 58 -> 4 [] key = 69 -> 2 [] key = 70 -> 1]
Lights == SUBSET {1, 2, 4}

\* The bytes that go to the keyboard: 0xed, and the lights that are on.
LedCommand == {237}
NoByte == {-1}
Commands == {LedCommand} \cup Lights

\* The first byte of a packet: (dat & 0xc8) == 0x08.
LooksFirst(byte) == byte < 64 /\ (byte \div 8) % 2 = 1

ASSUME InputAssumption ==
    /\ Locks \subseteq DOMAIN Light
    /\ \A b \in FirstBytes : b \in 0 .. 255 /\ LooksFirst(b)
    /\ MoreBytes \subseteq 0 .. 255
    /\ CommandSize \in Nat \ {0}
    /\ {KeyData + b : b \in Locks \cup {Ack, Resend}} \subseteq Data
    /\ {MouseData + b : b \in FirstBytes \cup MoreBytes \cup {Ack}} \subseteq Data

VARIABLES
    key_leds,     \* HariMain: the lights as they should be
    keycmd,       \* HariMain: the bytes waiting for the keyboard
    keycmd_over,  \* keycmd.flags: one of them was dropped
    keycmd_wait,  \* HariMain: the byte the keyboard has not acknowledged yet
    phase,        \* HariMain: mdec.phase
    keyboard,     \* the keyboard: its lights, whether it expects their value,
                  \* and the byte it has received and not answered
    mouse         \* the mouse: which byte of a packet comes next; 0 before its
                  \* acknowledgement

commands == <<key_leds, keycmd, keycmd_over, keycmd_wait>>
inputVars == <<fifo, awake, commands, phase, keyboard, mouse>>

InputInit ==
    /\ Init
    /\ key_leds \in {{}, {Light[l] : l \in Locks}}
    /\ keycmd = <<>> /\ keycmd_over = 0
    /\ keycmd_wait = NoByte
    /\ phase = 0
    /\ keyboard = [leds |-> key_leds, value |-> FALSE, received |-> NoByte]
    /\ mouse = 0

-----------------------------------------------------------------------------
(* The hardware, and the interrupts it causes. *)

\* inthandler21 and inthandler2c
KeyInterrupt(byte) == Put(KeyData + byte)
MouseInterrupt(byte) == Put(MouseData + byte)

PressLock ==
    /\ \E key \in Locks : KeyInterrupt(key)
    /\ UNCHANGED <<commands, phase, keyboard, mouse>>

\* The keyboard takes the byte it was sent.
Accept ==
    LET byte == keyboard.received
        isValue == keyboard.value /\ byte \in Lights
    IN  /\ byte # NoByte
        /\ keyboard' = [leds |-> IF isValue THEN byte ELSE keyboard.leds,
                        value |-> byte = LedCommand,
                        received |-> NoByte]
        /\ KeyInterrupt(Ack)
        /\ UNCHANGED <<commands, phase, mouse>>

\* The keyboard asks for the byte again.
Refuse ==
    /\ keyboard.received # NoByte
    /\ keyboard' = [keyboard EXCEPT !.received = NoByte]
    /\ KeyInterrupt(Resend)
    /\ UNCHANGED <<commands, phase, mouse>>

\* The mouse acknowledges that it was enabled, then sends packets of three bytes.
PacketByte(n) == CASE n = 0 -> {Ack}
                   [] n = 1 -> FirstBytes
                   [] OTHER -> MoreBytes

Following(n) == IF n = 3 THEN 1 ELSE n + 1

MouseByte ==
    /\ \E byte \in PacketByte(mouse) : MouseInterrupt(byte)
    /\ mouse' = Following(mouse)
    /\ UNCHANGED <<commands, phase, keyboard>>

-----------------------------------------------------------------------------
(* HariMain. *)

\* The top of the loop: there is a byte for the keyboard, and the last one has
\* been acknowledged.
Due == keycmd # <<>> /\ keycmd_wait = NoByte

Send ==
    /\ awake /\ Due
    /\ keycmd_wait' = Head(keycmd)
    /\ keycmd' = Tail(keycmd)
    /\ keyboard' = [keyboard EXCEPT !.received = Head(keycmd)]
    /\ UNCHANGED <<fifo, awake, key_leds, keycmd_over, phase, mouse>>

Doze == Sleep /\ ~Due /\ UNCHANGED <<commands, phase, keyboard, mouse>>

\* HariMain takes a datum that stands for this byte of the keyboard or mouse.
TakeKey(byte) == ~Due /\ Take /\ GetResult(fifo) = KeyData + byte
TakeMouse(byte) == ~Due /\ Take /\ GetResult(fifo) = MouseData + byte

SymmetricDifference(S, T) == (S \ T) \cup (T \ S)

\* A lock key: the lights change, a command and its value are put into keycmd.
Lock(key) ==
    LET leds == SymmetricDifference(key_leds, {Light[key]})
        room == CommandSize - Len(keycmd)
    IN  /\ TakeKey(key)
        /\ key_leds' = leds
        /\ keycmd' = keycmd \o SubSeq(<<LedCommand, leds>>, 1, IF room < 2 THEN room ELSE 2)
        /\ keycmd_over' = IF room < 2 THEN 1 ELSE keycmd_over
        /\ UNCHANGED <<keycmd_wait, phase, keyboard, mouse>>

Acknowledged ==
    /\ TakeKey(Ack)
    /\ keycmd_wait' = NoByte
    /\ UNCHANGED <<key_leds, keycmd, keycmd_over, phase, keyboard, mouse>>

\* Slip: the byte is taken for acknowledged.
SendNoMore ==
    /\ TakeKey(Resend)
    /\ keycmd_wait' = NoByte
    /\ UNCHANGED <<key_leds, keycmd, keycmd_over, phase, keyboard, mouse>>

SendAgain ==
    /\ TakeKey(Resend)
    /\ keyboard' = [keyboard EXCEPT !.received = keycmd_wait]
    /\ UNCHANGED <<commands, phase, mouse>>

\* Slip: every packet is taken to begin with an acknowledgement.
NextPhaseReset(byte) ==
    CASE phase = 0 -> IF byte = Ack THEN 1 ELSE 0
      [] phase = 1 -> IF LooksFirst(byte) THEN 2 ELSE 1
      [] phase = 2 -> 3
      [] phase = 3 -> 0

\* mouse_decode: the phase after a byte.
NextPhase(byte) ==
    CASE phase = 0 -> IF byte = Ack THEN 1 ELSE 0
      [] phase = 1 -> IF LooksFirst(byte) THEN 2 ELSE 1
      [] phase = 2 -> 3
      [] phase = 3 -> 1

Decode(byte) ==
    /\ TakeMouse(byte)
    /\ phase' = NextPhase(byte)
    /\ UNCHANGED <<commands, keyboard, mouse>>

HariMain ==
    \/ Send \/ Doze \/ Acknowledged \/ SendAgain
    \/ \E key \in Locks : Lock(key)
    \/ \E byte \in FirstBytes \cup MoreBytes \cup {Ack} : Decode(byte)

InputNext == PressLock \/ Accept \/ Refuse \/ MouseByte \/ HariMain

InputSpec == InputInit /\ [][InputNext]_inputVars

\* HariMain runs when it is awake, the keyboard answers, and does not ask for
\* the same byte for ever.
InputFairSpec ==
    /\ InputSpec
    /\ WF_inputVars(HariMain)
    /\ WF_inputVars(Accept \/ Refuse)
    /\ SF_inputVars(Accept)

-----------------------------------------------------------------------------
(* Properties. *)

\* Every variable has a value of its type; keycmd never outgrows its buffer.
OwnTypeOK ==
    /\ key_leds \in Lights
    /\ keycmd \in Seq(Commands) /\ Len(keycmd) <= CommandSize
    /\ keycmd_over \in {0, 1}
    /\ keycmd_wait \in Commands \cup {NoByte}
    /\ phase \in 0 .. 3
    /\ keyboard \in [leds : Lights, value : BOOLEAN, received : Commands \cup {NoByte}]
    /\ mouse \in 0 .. 3

InputTypeOK == TypeOK /\ OwnTypeOK

Dropped == fifo.flags = 1 \/ keycmd_over = 1

\* When the lock keys are left alone, the lights come to be what HariMain
\* wants them to be, whatever bytes had to be sent again, unless a queue has
\* dropped something.
LedsSettle ==
    <>[][~PressLock]_inputVars => <>[](keyboard.leds = key_leds \/ Dropped)

\* Decoding the bytes of the mouse in q leads from one phase to another, and
\* each of them is one of those that may come in its phase.
Decodes(q, from, to) ==
    \E expects \in [0 .. Len(q) -> 0 .. 3] :
      /\ expects[0] = from
      /\ expects[Len(q)] = to
      /\ \A i \in 1 .. Len(q) :
            IF q[i] >= MouseData
            THEN q[i] - MouseData \in PacketByte(expects[i - 1])
                 /\ expects[i] = Following(expects[i - 1])
            ELSE expects[i] = expects[i - 1]

\* As long as nothing is dropped, the packets that mouse_decode puts together
\* are those the mouse has sent: every byte of the mouse that waits in the queue
\* is one of those mouse_decode expects when it comes to read it, and when it
\* has read the last of them, it expects the byte that the mouse sends next.
PacketsWhole == fifo.flags = 0 => Decodes(Items(fifo), phase, mouse)
=============================================================================

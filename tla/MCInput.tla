------------------------------ MODULE MCInput ------------------------------
(***************************************************************************)
(* Model checking Input: CapsLock, a mouse with one first byte and one     *)
(* other, a queue and a keycmd of two slots each, so that both overrun.    *)
(***************************************************************************)
EXTENDS Input

MCData == {KeyData + 58, KeyData + Ack, KeyData + Resend,
           MouseData + Ack, MouseData + 8, MouseData + 0}
=============================================================================

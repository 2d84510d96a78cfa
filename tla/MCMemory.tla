------------------------------ MODULE MCMemory ------------------------------
(***************************************************************************)
(* Model checking MemoryPool with pages of two bytes and memory of two     *)
(* regions, of two and five pages: requests of one, two and three bytes    *)
(* fragment it into more blocks than the table has entries.                *)
(***************************************************************************)
EXTENDS MemoryPool

MCLow == Block(2, 4)
MCHigh == Block(8, 10)
=============================================================================

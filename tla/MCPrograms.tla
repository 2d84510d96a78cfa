----------------------------- MODULE MCPrograms -----------------------------
(***************************************************************************)
(* The repository's other programs that are modelled: pure operators, each *)
(* compared with what it is for by the assumptions of its module.  None of *)
(* them runs under the kernel.                                             *)
(***************************************************************************)
EXTENDS MCHuffman, MCPaging, MCPlacement, MCPriority, MCExam
=============================================================================

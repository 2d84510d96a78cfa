------------------------------ MODULE MCSession ------------------------------
(***************************************************************************)
(* Model checking Session: two consoles and three windows.  What consoles  *)
(* compute between two messages, the text and the files, is compared with  *)
(* its purpose before the run starts: see MCConsoleText and MCFiles.       *)
(***************************************************************************)
EXTENDS Session, MCConsoleText, MCFiles
=============================================================================

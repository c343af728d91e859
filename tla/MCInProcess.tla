----------------------------- MODULE MCInProcess -----------------------------
(***************************************************************************)
(* Small instances of InProcess for TLC.                                   *)
(***************************************************************************)
EXTENDS InProcess

CONSTANTS sync, async, async2, zero, one, c1
=============================================================================

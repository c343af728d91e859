--------------------------- MODULE MCPropertySync ---------------------------
(***************************************************************************)
(* Small instances of PropertySync for TLC.                                *)
(***************************************************************************)
EXTENDS PropertySync

CONSTANTS c1, c2, x, y, ready
=============================================================================

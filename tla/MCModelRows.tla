----------------------------- MODULE MCModelRows -----------------------------
(***************************************************************************)
(* Small instances of ModelRows for TLC.                                   *)
(***************************************************************************)
EXTENDS ModelRows

CONSTANTS a, b

MCTwoRows == {<<a, b>>}
MCThreeRows == {<<a, b, a>>}
=============================================================================

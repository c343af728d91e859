---------------------------- MODULE MCReferences ----------------------------
(***************************************************************************)
(* Small instances of References for TLC.                                  *)
(***************************************************************************)
EXTENDS References, TLC

CONSTANTS c1, a1, a2
=============================================================================

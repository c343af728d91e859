--------------------------- MODULE MCQmlStructures ---------------------------
(***************************************************************************)
(* Small instances of QmlStructures for TLC.                               *)
(***************************************************************************)
EXTENDS QmlStructures, TLC

CONSTANTS w1, w2

Gadgets == {<<1, 1>>}

WrapperSymmetry == Permutations({w1, w2})
=============================================================================

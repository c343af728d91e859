---------------------- MODULE MCObjectRegistryReentrant ---------------------
(* Model checking of ObjectRegistryReentrant: two processes, one service each. *)
EXTENDS ObjectRegistryReentrant, TLC

CONSTANTS p1, p2, x, y

OneEach == (p1 :> {x}) @@ (p2 :> {y})
=============================================================================

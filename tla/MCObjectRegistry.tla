-------------------------- MODULE MCObjectRegistry --------------------------
(***************************************************************************)
(* Small systems for model checking ObjectRegistry and its map to          *)
(* RegistryView.                                                           *)
(***************************************************************************)
EXTENDS ObjectRegistryView, TLC

CONSTANTS p1, p2, p3, x, y

\* One process that has only proxies, and two for the same path: a hand-over,
\* or p3 is p2 started again.
OnePath == (p1 :> {}) @@ (p2 :> {y}) @@ (p3 :> {y})

\* Two processes with a path in common.
Shared == (p1 :> {x}) @@ (p2 :> {x, y})
=============================================================================

----------------------------- MODULE MCBindings -----------------------------
(***************************************************************************)
(* Small instances of Bindings for TLC: b is bound to a, and c to both.    *)
(***************************************************************************)
EXTENDS Bindings, FiniteSetsExt, TLC

CONSTANTS a, b, c

MCInputs == (a :> {}) @@ (b :> {a}) @@ (c :> {a, b})

\* The getters add their inputs up.
MCResult ==
  [p \in {a, b, c} |-> [input \in [MCInputs[p] -> Value] |->
     MapThenSumSet(LAMBDA q : input[q], MCInputs[p]) % (MaxValue + 1)]]

MCReactions ==
  [on : {"changed"}, property : {a, b, c},
   operation : [kind : {"set"}, property : {a, b}, value : Value]
                 \union [kind : {"bind"}, property : {b, c}]]
    \union [on : {"ready"}, property : {b},
            operation : [kind : {"set"}, property : {a, b}, value : Value]]
=============================================================================

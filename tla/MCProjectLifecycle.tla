------------------------- MODULE MCProjectLifecycle -------------------------
(* TLC instances of ProjectLifecycle.                                       *)
EXTENDS ProjectLifecycle, TLC

CONSTANTS p1, c1, c2

TwoCommands == Permutations({c1, c2})
=============================================================================

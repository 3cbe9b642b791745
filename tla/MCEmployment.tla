---------------------------- MODULE MCEmployment ----------------------------
(* TLC instances of Employment. *)
EXTENDS Employment, TLC

CONSTANTS p1, p2, alice, bob, r1, h1

MCRequired == [p \in Positions |-> 40]

MCSymmetry == Permutations(Positions)
=============================================================================

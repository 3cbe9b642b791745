------------------------- MODULE MCProjectPositions -------------------------
(* TLC instances of ProjectPositions. *)
EXTENDS ProjectPositions, TLC

CONSTANTS p1, p2, alice, bob, r1, r2

\* 60 + 40 is exactly the cap, 60 + 60 exceeds it.
MCRequired == [p \in Positions |-> 40]

MCSymmetry == Permutations(Positions) \cup Permutations(Persons) \cup Permutations(Requests)

=============================================================================

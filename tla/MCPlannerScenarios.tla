------------------------- MODULE MCPlannerScenarios -------------------------
(* TLC instances of PlannerScenarios: one scenario that books p1. *)
EXTENDS PlannerScenarios, TLC

CONSTANTS p1, alice, bob, r1, s1, a1, a2

MCRequired == [p \in Positions |-> 40]

MCProposals == [s \in Scenarios |-> p1 :> [person |-> alice, alloc |-> 60]]

MCSymmetry == Permutations(Requests) \cup Permutations(Planners)
=============================================================================

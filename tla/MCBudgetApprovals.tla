------------------------- MODULE MCBudgetApprovals -------------------------
(* Two people, either of whom requests and decides, two commands in flight *)
(* and three approvals: two may be stacked, and a third come after one is  *)
(* decided.                                                                *)
EXTENDS BudgetApprovals, TLC

CONSTANTS p1, p2, i1, i2, i3, c1, c2

Symmetry == Permutations(People) \cup Permutations(Approvals) \cup Permutations(Commands)
=============================================================================

---------------------------- MODULE MCTimesheets ----------------------------
(* One week with two entries and two requests: the weeks of a person share *)
(* nothing but the fills, which take the dates one by one.                 *)
EXTENDS Timesheets, TLC

CONSTANTS w1, s1, s2, q1, q2

MCWeekOf == s1 :> w1 @@ s2 :> w1

Symmetry == Permutations(Requests)
=============================================================================

--------------------------- MODULE MCLeaveRequests ---------------------------
(* TLC instances of LeaveRequests: three leaves of one person that all share *)
(* day 3.  l1 and l3 are booked on one balance, l2 on another.               *)
EXTENDS LeaveRequests

CONSTANTS l1, l2, l3, ann, annual, sick, h1, h2

MCOwner == [l \in Leaves |-> ann]
MCAccount == [l \in Leaves |-> IF l = l2 THEN sick ELSE annual]
MCFirst == [l \in Leaves |-> CASE l = l1 -> 1 [] l = l2 -> 3 [] l = l3 -> 3]
MCLast  == [l \in Leaves |-> CASE l = l1 -> 3 [] l = l2 -> 3 [] l = l3 -> 4]
=============================================================================

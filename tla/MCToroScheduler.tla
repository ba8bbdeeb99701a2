--------------------------- MODULE MCToroScheduler ---------------------------
(* Instances of ToroScheduler for TLC: one or two registrations of a schedule. *)
EXTENDS ToroScheduler

CONSTANTS c1, c2, m1

Once  == <<2>>
Wider == <<2, 4>>
=============================================================================

----------------------------- MODULE MCToroResult -----------------------------
(* A small instance of ToroResult.                                          *)
EXTENDS ToroResult

CONSTANTS j1, w1, w2

OneJob == [w \in Waiters |-> j1]
==============================================================================

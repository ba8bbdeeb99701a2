---------------------------- MODULE MCToroEnqueue ----------------------------
(* A small instance of ToroEnqueue.                                         *)
EXTENDS ToroEnqueue

CONSTANTS d1, p1, p2, u1, x1

\* p1 has a custom id, and shares a deduplication id with p2.
CustomFirst == [c \in Calls |-> IF c = p1 THEN u1 ELSE None]
SharedDedup == [c \in Calls |-> IF c \in {p1, p2} THEN x1 ELSE None]

\* The direct call is a flow of two.
DirectFlow == [c \in Calls |-> IF c = d1 THEN 2 ELSE 1]
==============================================================================

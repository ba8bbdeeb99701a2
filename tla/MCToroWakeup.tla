---------------------------- MODULE MCToroWakeup ----------------------------
(* Small instances of ToroWakeup.                                          *)
EXTENDS ToroWakeup, TLC

CONSTANTS j1, j2, j3, w1, w2, s1, s2

OneSlotEach == (s1 :> w1) @@ (s2 :> w2)
OneWorker   == (s1 :> w1) @@ (s2 :> w1)

Urgent == [j \in Jobs |-> IF j = j1 THEN 1 ELSE 0]

NoKeys == [j \in Jobs |-> None]
Keyed  == [j \in Jobs |-> IF j = j3 THEN None ELSE "k"]
=============================================================================

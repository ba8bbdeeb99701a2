----------------------------- MODULE MCToroFlows -----------------------------
(* Instances of ToroFlows: a root whose one child is itself a parent, of two *)
(* leaves, and a job added alone whose bound trims the sets all jobs share.  *)
EXTENDS ToroFlows

CONSTANTS root, mid, a, b, lone

TreeParent == [j \in Nodes |-> CASE j \in {root, lone} -> None
                                 [] j = mid -> root
                                 [] OTHER -> mid]

\* One leaf is tolerated, the other fells its parent, and that one the root.
LeafTolerated == [j \in Nodes |-> IF j = b THEN "continue" ELSE "fail_parent"]

\* The nested parent is tolerated: it settles while its root goes on.
MidTolerated == [j \in Nodes |-> IF j = mid THEN "continue" ELSE "fail_parent"]

\* The leaf that fells its parent removes itself when it ends.
LeafGoes == [j \in Nodes |-> IF j = a THEN "none" ELSE "default"]

\* The lone job meets its bound, the flow's jobs only the trims of others.
LoneTrims == [j \in Nodes |-> IF j = lone THEN "bounded" ELSE "default"]
=============================================================================

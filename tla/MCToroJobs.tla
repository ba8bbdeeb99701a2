----------------------------- MODULE MCToroJobs -----------------------------
(* Instances of ToroJobs for TLC: two or three jobs, one or two workers. *)
EXTENDS ToroJobs, TLC

CONSTANTS j1, j2, j3, w1, w2, s1, s2, s3, k1

OneWorker  == [s \in Slots |-> w1]
TwoWorkers == [s \in Slots |-> IF s = s3 THEN w2 ELSE w1]

One  == [j \in Ids |-> 1]
Two  == [j \in Ids |-> 2]
Yes  == [j \in Ids |-> TRUE]
No   == [j \in Ids |-> FALSE]

NoKey == [j \in Ids |-> None]
Keyed == [j \in Ids |-> k1]

\* The first job comes with a delay, and its retries with a backoff.
FirstOnly == [j \in Ids |-> j = j1]

KeepAll == [j \in Ids |-> "all"]
\* One job of each retention: removed at once, bounded, kept.
KeepMixed == [j \in Ids |-> IF j = j1 THEN "none" ELSE IF j = j2 THEN "bounded" ELSE "all"]

SlotsOnly == Permutations(Slots)
=============================================================================

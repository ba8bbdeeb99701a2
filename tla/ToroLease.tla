------------------------------ MODULE ToroLease ------------------------------
(***************************************************************************)
(* What the queue promises about one job, without workers, scripts, keys or *)
(* retries of messages: a job is run under a lease, a lease has a number    *)
(* that is never given twice, and a run counts when the holder of the lease *)
(* commits it and at no other time.                                         *)
(*                                                                          *)
(* ToroJobs implements this: its jobs take these steps and no others, many  *)
(* of them at once when a script touches several jobs.                      *)
(***************************************************************************)
EXTENDS Naturals

CONSTANTS Jobs

VARIABLES
    stage,  \* none, pending, leased, lapsed (leased, the lease has run out) or done
    lease,  \* the number of each job's latest lease, 0 before the first
    made    \* the runs that count

vars == <<stage, lease, made>>

Init == /\ stage = [j \in Jobs |-> "none"]
        /\ lease = [j \in Jobs |-> 0]
        /\ made  = [j \in Jobs |-> 0]

Moves(j, from, to) == stage[j] \in from /\ stage'[j] \in to
Same(j)            == lease'[j] = lease[j] /\ made'[j] = made[j]

Submit(j) == Moves(j, {"none"}, {"pending"}) /\ Same(j)

\* Removed, by an operator or by a retention: nothing of the job is left.
Vanish(j) == stage'[j] = "none" /\ lease'[j] = 0 /\ made'[j] = 0

Grant(j) ==
    /\ Moves(j, {"pending"}, {"leased"})
    /\ lease'[j] > lease[j] /\ made'[j] = made[j]

\* The holder's run counts: the job is done, or pending again.
Commit(j) ==
    /\ Moves(j, {"leased"}, {"pending", "done"})
    /\ lease'[j] = lease[j] /\ made'[j] = made[j] + 1

\* The same, and the next lease in one step.
CommitAndGrant(j) ==
    /\ Moves(j, {"leased"}, {"leased"})
    /\ lease'[j] > lease[j] /\ made'[j] = made[j] + 1

\* The holder hands the job back, and its run does not count.
Return(j) == Moves(j, {"leased"}, {"pending"}) /\ Same(j)

Lapse(j) == Moves(j, {"leased"}, {"lapsed"}) /\ Same(j)

\* A job whose lease has run out is taken from its run, which no longer counts.
Recover(j) == Moves(j, {"lapsed"}, {"pending", "done"}) /\ Same(j)

\* A job that nobody runs is cancelled.
Withdraw(j) == Moves(j, {"pending"}, {"done"}) /\ Same(j)

Reopen(j) == Moves(j, {"done"}, {"pending"}) /\ Same(j)

Stays(j) == stage'[j] = stage[j] /\ Same(j)

Step(j) ==
    \/ Stays(j) \/ Submit(j) \/ Vanish(j) \/ Grant(j) \/ Commit(j) \/ CommitAndGrant(j)
    \/ Return(j) \/ Lapse(j) \/ Recover(j) \/ Withdraw(j) \/ Reopen(j)

Next == \A j \in Jobs : Step(j)

Spec == Init /\ [][Next]_vars
==============================================================================

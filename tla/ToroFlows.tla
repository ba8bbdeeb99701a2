------------------------------ MODULE ToroFlows ------------------------------
(***************************************************************************)
(* Flows: trees of jobs whose parents wait for their children, and the     *)
(* retention that keeps or removes a flow as one unit.  One database, one  *)
(* action per script of toro/scripts.py that touches a flow, and the       *)
(* operator calls of toro/queue.py that read a list of ids and then send   *)
(* one script per id, with anything else in between.                       *)
(*                                                                         *)
(* Abstracted here: `wait` stands for every state from which a job is      *)
(* claimed by itself (wait, delayed, held); a finish is sent by the run    *)
(* that holds the lock (module ToroJobs is about the others); a job's      *)
(* state names its collection (proved in ToroJobs_proofs); payloads and    *)
(* events are left out.  Only a job without a parent meets its retention    *)
(* bound: whoever carries it, it trims the sets all jobs share.            *)
(***************************************************************************)
EXTENDS Naturals, FiniteSets, Sequences

CONSTANTS
    Nodes,     \* the jobs: the nodes of the flows, and jobs added alone
    Parent,    \* parentId of each node, or None
    OnFail,    \* onFail of each node: "fail_parent" or "continue"
    Keep,      \* removeOnComplete/removeOnFail of each node, see KeepKinds
    None,      \* nil
    Ops,       \* the operator calls made: "cancel", "retry", "retryAll", ...
    MaxOps,    \* bound: operator calls in a behaviour
    MaxNow     \* bound: milliseconds that pass

\* Kept for good, removed at once, kept within a bound that its own finish
\* does not meet (the default of 1000), and within one that it may meet.
KeepKinds == {"all", "none", "default", "bounded"}

Finished == {"completed", "failed", "cancelled"}
Pending  == {"wait", "active", "waiting-children"}
States   == Finished \cup Pending \cup {None}

ASSUME FlowsAssumption ==
    /\ IsFiniteSet(Nodes) /\ None \notin Nodes \cup Finished \cup Pending
    /\ Parent \in [Nodes -> Nodes \cup {None}]
    /\ OnFail \in [Nodes -> {"fail_parent", "continue"}]
    /\ Keep \in [Nodes -> KeepKinds]
    /\ \A j \in Nodes : Keep[j] = "bounded" => Parent[j] = None
    /\ MaxOps \in Nat
    /\ MaxNow \in Nat

VARIABLES
    db,     \* the database
    added,  \* the roots whose ADD_FLOW or ADD_JOB ran: an id is never reused
    todo,   \* the scripts an operator call has still to send, in order
    ops,    \* how many operator calls were made
    now     \* the clock

vars == <<db, added, todo, ops, now>>

\* LIVE, the score above every bound: here, above every time.
LIVE == MaxNow + 10

Kids(p) == {c \in Nodes : Parent[c] = p}
Roots   == {j \in Nodes : Parent[j] = None}

\* The ancestors of a node: the least set with its parent and the parents of
\* what is in the set; and its descendants.
Upward(S) == \A k \in S : Parent[k] # None => Parent[k] \in S
Above == [j \in Nodes |->
    {a \in Nodes : \A S \in SUBSET Nodes :
        Upward(S) /\ (Parent[j] # None => Parent[j] \in S) => a \in S}]
Below(j) == {k \in Nodes : j \in Above[k]}

\* A flow is a tree of nested jobs: the way up from a node ends at a root.
ASSUME FlowsAreTrees ==
    \A j \in Nodes : \E r \in {j} \cup Above[j] : Parent[r] = None

\* rootId, stored on every node that has a parent.
RootOf(j) == CHOOSE r \in {j} \cup Above[j] : Parent[r] = None

-----------------------------------------------------------------------------
(* The database: `state` of each hash (None: no hash), `deps` the barrier  *)
(* <id>:deps, `fanin` the records <id>:results, :cfail and :ccancel as     *)
(* pairs of a child and how it is recorded, `live` the index <id>:live,    *)
(* `score` a finished job's place in its set, `cancel` the request field,  *)
(* `flows` the flows:completed and flows:failed counters.                  *)

Db == [state: [Nodes -> States],
       deps: [Nodes -> SUBSET Nodes],
       fanin: [Nodes -> SUBSET (Nodes \X Finished)],
       live: [Nodes -> SUBSET Nodes],
       score: [Nodes -> Nat],
       cancel: [Nodes -> BOOLEAN],
       flows: [{"completed", "failed"} -> Nat]]

EmptyDb == [state |-> [j \in Nodes |-> None],
            deps |-> [j \in Nodes |-> {}],
            fanin |-> [j \in Nodes |-> {}],
            live |-> [j \in Nodes |-> {}],
            score |-> [j \in Nodes |-> 0],
            cancel |-> [j \in Nodes |-> FALSE],
            flows |-> [o \in {"completed", "failed"} |-> 0]]

Exists(d, j)     == d.state[j] # None
IsFinished(d, j) == d.state[j] \in Finished
Parked(d, j)     == d.state[j] = "waiting-children"
SetState(d, J, s) == [d EXCEPT !.state = [j \in Nodes |-> IF j \in J THEN s ELSE d.state[j]]]

\* The flow node's root while its flow is still running.
RunningRoot(d, j) ==
    Parent[j] # None /\ Exists(d, RootOf(j)) /\ ~IsFinished(d, RootOf(j))

\* The nodes that the nodes between j and them lead to: a node is found
\* through the child lists of the hashes on the way, which must exist.
Reach(d, j) == {k \in Below(j) : \A m \in Above[k] \cap Below(j) : Exists(d, m)}

-----------------------------------------------------------------------------
(* Removing hashes, and retention. *)

DelKeys(d, J) ==
    [d EXCEPT !.state = [j \in Nodes |-> IF j \in J THEN None ELSE d.state[j]],
              !.deps = [j \in Nodes |-> IF j \in J THEN {} ELSE d.deps[j]],
              !.fanin = [j \in Nodes |-> IF j \in J THEN {} ELSE d.fanin[j]],
              !.live = [j \in Nodes |-> IF j \in J THEN {} ELSE d.live[j]],
              !.score = [j \in Nodes |-> IF j \in J THEN 0 ELSE d.score[j]],
              !.cancel = [j \in Nodes |-> IF j \in J THEN FALSE ELSE d.cancel[j]]]

\* What a job's live index lists that is settled goes with the job.
Indexed(d, j) == {c \in d.live[j] : IsFinished(d, c)}
DelJobs(d, J) == DelKeys(d, J \cup UNION {Indexed(d, j) : j \in J})

\* Mutant of SettleLive: the index is dropped and its jobs stay where they are.
SettleLiveDropped(d, J, t) ==
    [d EXCEPT !.live = [j \in Nodes |-> IF j \in J THEN {} ELSE d.live[j]]]

\* A root has settled: what its index lists becomes history, just above it.
SettleLive(d, J, t) ==
    LET drained == UNION {Indexed(d, j) : j \in J}
    IN [d EXCEPT
          !.score = [j \in Nodes |-> IF j \in drained THEN t + 1 ELSE d.score[j]],
          !.live = [j \in Nodes |-> IF j \in J THEN {} ELSE d.live[j]]]

\* Mutant of Score: a flow's finished job is placed like any other.
ScorePlain(d, j, t) == t

\* Where a job that finishes is placed in its set.
Score(d, j, t) ==
    IF RunningRoot(d, j) THEN LIVE + t
    ELSE IF Parent[j] # None THEN t + 1 ELSE t

\* recordFinished of the jobs J of one flow, none of them below another's
\* root in J: removed at once, or recorded and indexed under a running root.
RecordFinished(d, J, s, t) ==
    LET kept == {j \in J : Keep[j] # "none"}
        settled == SettleLive(d, {j \in J : Kids(j) # {} /\ (RunningRoot(d, j) => j \notin kept)}, t)
        recorded == [settled EXCEPT
            !.state = [j \in Nodes |-> IF j \in kept THEN s ELSE @[j]],
            !.score = [j \in Nodes |-> IF j \in kept THEN Score(d, j, t) ELSE @[j]],
            !.live = [r \in Nodes |->
                        @[r] \cup {j \in kept : RunningRoot(d, j) /\ RootOf(j) = r}],
            !.cancel = [j \in Nodes |-> IF j \in kept /\ s = "cancelled" THEN TRUE ELSE @[j]]]
    IN DelJobs(recorded, J \ kept)

\* removeFinished: a job goes with the finished subtree below it, but for
\* what is still running, what is kept for good, and what lies below those.
Subtree(d, j) ==
    {j} \cup {k \in Below(j) :
                \A m \in {k} \cup (Above[k] \cap Below(j)) :
                    IsFinished(d, m) /\ Keep[m] # "all"}
RemoveFinished(d, J) == DelJobs(d, UNION {Subtree(d, j) : j \in J})

Settled(d, s) == {j \in Nodes : d.state[j] = s /\ d.score[j] < LIVE}

\* What trimByAge and trimByCount take when j, finishing, carries a bound:
\* the oldest of what has settled, however many the bound and the budget say.
Trims(d, j, s) ==
    IF Keep[j] = "bounded"
    THEN {V \in SUBSET Settled(d, s) :
            \A v \in V, w \in Settled(d, s) : d.score[w] < d.score[v] => w \in V}
    ELSE {{}}

-----------------------------------------------------------------------------
(* Settling a child into its parent. *)

\* Mutant of ReleaseParent: the state is named after the set it goes to.
ReleaseParentMisnamed(d, p) == IF Parked(d, p) THEN SetState(d, {p}, "prioritized") ELSE d

\* releaseParent: nothing unless the parent is still parked.
ReleaseParent(d, p) == IF Parked(d, p) THEN SetState(d, {p}, "wait") ELSE d

\* A child leaves its parent's barrier; the last one releases the parent.
LeaveBarrier(d, p, c) ==
    LET left == [d EXCEPT !.deps[p] = @ \ {c}]
    IN IF left.deps[p] = {} THEN ReleaseParent(left, p) ELSE left

Recorded(d, p, c, s) == [d EXCEPT !.fanin[p] = @ \cup {<<c, s>>}]

SettleChildCompleted(d, j) ==
    LET p == Parent[j]
    IN IF p = None \/ ~Exists(d, p) THEN d
       ELSE LeaveBarrier(Recorded(d, p, j, "completed"), p, j)

\* The ancestors a child that will never deliver settles with it: as far up
\* as each one on the way is parked and has a child that fails its parent.
Felled(d, j) ==
    {a \in Above[j] :
        \A b \in {j} \cup Above[j] :
            a \in Above[b] => OnFail[b] # "continue" /\ Parked(d, Parent[b])}

\* Mutant of SettleChildGone: an ancestor settles and its own parent is not told.
SettleChildGoneOnce(d, j, s, t) ==
    LET p == Parent[j] IN
    IF p = None THEN d
    ELSE IF OnFail[j] = "continue"
         THEN IF Exists(d, p) THEN LeaveBarrier(Recorded(d, p, j, s), p, j) ELSE d
         ELSE IF Parked(d, p) THEN RecordFinished([d EXCEPT !.deps[p] = @ \ {j}], {p}, s, t)
              ELSE d

SettleChildGone(d, j, s, t) ==
    LET felled == Felled(d, j)
        unlinked == [d EXCEPT !.deps = [a \in Nodes |->
                        IF a \in felled THEN @[a] \ ({j} \cup Above[j]) ELSE @[a]]]
        below == RecordFinished(unlinked, felled \ Roots, s, t)
        upToRoot == RecordFinished(below, felled \cap Roots, s, t)
        counted == IF s = "failed" /\ felled \cap Roots # {}
                   THEN [upToRoot EXCEPT !.flows["failed"] = @ + 1] ELSE upToRoot
        top == CHOOSE b \in {j} \cup felled : Parent[b] \notin felled
        p == Parent[top]
    IN IF p # None /\ OnFail[top] = "continue" /\ Exists(counted, p)
       THEN LeaveBarrier(Recorded(counted, p, top, s), p, top)
       ELSE counted

\* Mutant of EndWithout: a nested parent that fails is counted as a flow too.
EndWithoutNested(d, j, s, t) ==
    LET settled == SettleChildGone(RecordFinished(d, {j}, s, t), j, s, t)
        ended == IF Parent[j] # None THEN settled ELSE RecordFinished(d, {j}, s, t)
    IN IF s = "failed" /\ Kids(j) # {}
       THEN [ended EXCEPT !.flows["failed"] = @ + 1] ELSE ended

\* A job ends in state s without delivering: its own record, the flow count
\* of a root, and its parent's barrier.
EndWithout(d, j, s, t) ==
    LET recorded == RecordFinished(d, {j}, s, t)
    IN IF Parent[j] # None THEN SettleChildGone(recorded, j, s, t)
       ELSE IF s = "failed" /\ Kids(j) # {}
            THEN [recorded EXCEPT !.flows["failed"] = @ + 1] ELSE recorded

-----------------------------------------------------------------------------
(* Adding, claiming and finishing. *)

AddFlow(r) ==
    /\ r \in Roots \ added
    /\ LET tree == {r} \cup Below(r) IN
       db' = [db EXCEPT
                !.state = [j \in Nodes |-> IF j \notin tree THEN @[j]
                            ELSE IF Kids(j) = {} THEN "wait" ELSE "waiting-children"],
                !.deps = [j \in Nodes |-> IF j \in tree THEN Kids(j) ELSE @[j]]]
    /\ added' = added \cup {r}
    /\ UNCHANGED <<todo, ops, now>>

Claim(j) ==
    /\ db.state[j] = "wait"
    /\ db' = SetState(db, {j}, "active")
    /\ UNCHANGED <<added, todo, ops, now>>

\* The run goes back to the queue: an attempt left, a shutdown, a recovery.
PutBack(j) ==
    /\ db.state[j] = "active"
    /\ db' = SetState(db, {j}, "wait")
    /\ UNCHANGED <<added, todo, ops, now>>

\* A script leaves database d and, j's root having ended in s, applies the
\* root's bound.
Trimmed(d, j, s) ==
    \E V \in IF db.state[RootOf(j)] \in Pending /\ d.state[RootOf(j)] = s
             THEN Trims(d, RootOf(j), s) ELSE {{}} :
        db' = RemoveFinished(d, V)

MoveToCompleted(j) ==
    /\ db.state[j] = "active"
    /\ LET recorded == RecordFinished(db, {j}, "completed", now)
           counted == IF Kids(j) # {} /\ Parent[j] = None
                      THEN [recorded EXCEPT !.flows["completed"] = @ + 1] ELSE recorded
       IN Trimmed(SettleChildCompleted(counted, j), j, "completed")
    /\ UNCHANGED <<added, todo, ops, now>>

\* MOVE_TO_FAILED with no attempt left.
MoveToFailed(j) ==
    /\ db.state[j] = "active"
    /\ Trimmed(EndWithout(db, j, "failed", now), j, "failed")
    /\ UNCHANGED <<added, todo, ops, now>>

\* The sweep gives a job up whose worker died once too often.
FailStalled(j) ==
    /\ db.state[j] = "active"
    /\ Trimmed(EndWithout(db, j, "failed", now), j, "failed")
    /\ UNCHANGED <<added, todo, ops, now>>

\* The worker stopped a run it was asked to stop.
MoveToCancelled(j) ==
    /\ db.state[j] = "active"
    /\ db.cancel[j]
    /\ Trimmed(EndWithout(db, j, "cancelled", now), j, "cancelled")
    /\ UNCHANGED <<added, todo, ops, now>>

-----------------------------------------------------------------------------
(* The operator's calls. *)

Operate(op) ==
    /\ op \in Ops
    /\ ops < MaxOps
    /\ ops' = ops + 1

\* cancelOne of the jobs J: a running one is asked, a finished one is left.
CancelEach(d, J, t) ==
    LET ask == {j \in J : d.state[j] = "active"}
        end == {j \in J : d.state[j] \in Pending \ {"active"}}
    IN RecordFinished([d EXCEPT !.cancel = [j \in Nodes |-> j \in ask \/ @[j]]],
                      end, "cancelled", t)

\* CANCEL_JOB: the subtree is cancelled as a unit, from the top; only the top
\* settles into its parent, and only if it was ended here.
CancelJob(j) ==
    /\ Operate("cancel")
    /\ Exists(db, j)
    /\ LET top == CancelEach(db, {j}, now) IN
       \E V \in IF top.state[j] = "cancelled" /\ db.state[j] \in Pending
                THEN Trims(top, j, "cancelled") ELSE {{}} :
         LET trimmed == RemoveFinished(top, V)
             all == CancelEach(trimmed, {k \in Reach(trimmed, j) : Exists(trimmed, k)}, now)
         IN IF Parent[j] # None /\ db.state[j] \in Pending \ {"active"}
            THEN Trimmed(SettleChildGone(all, j, "cancelled", now), j, "cancelled")
            ELSE db' = all
    /\ UNCHANGED <<added, todo, now>>

\* REMOVE_JOB.  A job's deletion takes what its live index lists that is
\* settled, so the walk finds no child list below those.
RemoveTree(d, j) ==
    LET gone == Indexed(d, j)
        tree == {k \in Below(j) :
                    \A m \in Above[k] \cap Below(j) : Exists(d, m) /\ m \notin gone}
        removed == DelJobs(d, {j} \cup tree)
        p == Parent[j]
    IN IF p # None /\ Exists(removed, p) THEN LeaveBarrier(removed, p, j) ELSE removed

RemoveJob(j) ==
    /\ Operate("remove")
    /\ Exists(db, j)
    /\ db' = RemoveTree(db, j)
    /\ UNCHANGED <<added, todo, now>>

\* A settled root runs again: its finished descendants are live once more.
ReviveSubtree(d, r, t) ==
    LET back == {k \in Reach(d, r) : IsFinished(d, k)}
    IN [d EXCEPT !.score = [k \in Nodes |-> IF k \in back THEN LIVE + t ELSE @[k]],
                 !.live[r] = @ \cup back]

\* Mutant of RetryTree: a retried child does not rejoin its parent's barrier.
RetryTreeAlone(d, j, t) ==
    IF d.state[j] # "failed" THEN d ELSE
    LET fresh == [d EXCEPT !.cancel[j] = FALSE, !.score[j] = 0]
        revived == IF Parent[j] = None THEN ReviveSubtree(fresh, j, t) ELSE fresh
    IN SetState(revived, {j}, IF revived.deps[j] # {} THEN "waiting-children" ELSE "wait")

\* RETRY_JOB: only a failed job; a root revives its subtree, a child rejoins
\* its parked parent's barrier, a parent waits again on its children.
RetryTree(d, j, t) ==
    IF d.state[j] # "failed" THEN d ELSE
    LET p == Parent[j]
        fresh == [d EXCEPT !.cancel[j] = FALSE, !.score[j] = 0]
        revived == IF p = None THEN ReviveSubtree(fresh, j, t) ELSE fresh
        rejoined == IF p = None THEN revived ELSE
            [revived EXCEPT !.fanin[p] = @ \ {<<j, "failed">>},
                            !.deps[p] = IF Parked(d, p) THEN @ \cup {j} ELSE @]
        waits == [rejoined EXCEPT !.deps[j] = @ \cup
                    {c \in Kids(j) : d.state[c] \notin {None, "completed", "cancelled"}}]
    IN SetState(waits, {j}, IF waits.deps[j] # {} THEN "waiting-children" ELSE "wait")

\* The orders of a set of jobs by `rank`, lowest first.
Orders(S, rank) ==
    {q \in [1..Cardinality(S) -> S] :
        \A m, n \in DOMAIN q : m < n => q[m] # q[n] /\ rank[q[m]] <= rank[q[n]]}

Plan(kind, q) == todo' = [i \in DOMAIN q |-> <<kind, q[i]>>]

\* retry_job, and retry_flow for a parent: the subtree, parents first.
RetryJob(j) ==
    LET depth == [k \in Nodes |-> Cardinality(Above[k])] IN
    /\ Operate("retry")
    /\ todo = <<>>
    /\ Exists(db, j)
    /\ \E k \in {j} \cup Reach(db, j) : db.state[k] = "failed"
    /\ \E q \in Orders({j} \cup Reach(db, j), depth) : Plan("retry", q)
    /\ UNCHANGED <<db, added, now>>

\* retry_all_failed: newest first, settled jobs before a running flow's.
RetryAllFailed ==
    LET age == [k \in Nodes |-> (IF db.score[k] < LIVE THEN LIVE ELSE 3 * LIVE) - db.score[k]]
        listed == {j \in Nodes : db.state[j] = "failed"}
    IN /\ Operate("retryAll")
       /\ todo = <<>>
       /\ listed # {}
       /\ \E q \in Orders(listed, age) : Plan("retry", q)
       /\ UNCHANGED <<db, added, now>>

\* clean: what is listed in a state (settled history only, of a finished
\* state), removed one by one whatever has become of it since.
Clean(s) ==
    LET listed == IF s \in Finished THEN Settled(db, s)
                  ELSE {j \in Nodes : db.state[j] = s}
    IN /\ Operate("clean")
       /\ todo = <<>>
       /\ listed # {}
       /\ \E q \in Orders(listed, db.score) : Plan("remove", q)
       /\ UNCHANGED <<db, added, now>>

\* The next script of the call's pipeline runs.
Send ==
    /\ todo # <<>>
    /\ LET kind == Head(todo)[1]
           j == Head(todo)[2]
       IN db' = IF kind = "retry" THEN RetryTree(db, j, now)
                ELSE IF Exists(db, j) THEN RemoveTree(db, j) ELSE db
    /\ todo' = Tail(todo)
    /\ UNCHANGED <<added, ops, now>>

\* The pipeline's connection dies, or the call's limit cut the list short.
Cut ==
    /\ "cut" \in Ops
    /\ todo # <<>>
    /\ todo' = <<>>
    /\ UNCHANGED <<db, added, ops, now>>

\* A millisecond passes (one in which nothing finished cannot be told apart).
Tick ==
    /\ now < MaxNow
    /\ \E j \in Nodes : IsFinished(db, j) /\ db.score[j] \in {now, now + 1, LIVE + now}
    /\ now' = now + 1
    /\ UNCHANGED <<db, added, todo, ops>>

Init ==
    /\ db = EmptyDb
    /\ added = {}
    /\ todo = <<>>
    /\ ops = 0
    /\ now = 0

Commit(j) == MoveToCompleted(j) \/ MoveToFailed(j) \/ MoveToCancelled(j)
Finish(j) == Commit(j) \/ FailStalled(j)

Next ==
    \/ \E j \in Nodes :
          \/ AddFlow(j) \/ Claim(j) \/ PutBack(j) \/ Finish(j)
          \/ CancelJob(j) \/ RemoveJob(j) \/ RetryJob(j)
    \/ RetryAllFailed
    \/ \E s \in (States \ {None}) : Clean(s)
    \/ Send \/ Cut \/ Tick

Spec == Init /\ [][Next]_vars

-----------------------------------------------------------------------------
(* Properties. *)

\* The variables stay in their ranges.
TypeOK ==
    /\ db \in Db
    /\ added \subseteq Roots
    /\ todo \in Seq({"retry", "remove"} \X Nodes)
    /\ ops \in 0..MaxOps
    /\ now \in 0..MaxNow

\* A flow parent "runs only once every child has settled": the step that
\* lets a parked parent run leaves no child of it waiting or running,
\* whatever was retried, cancelled, removed or given up in between.
BarrierHolds ==
    [][\A p \in Nodes :
         Parked(db, p) /\ db'.state[p] = "wait"
            => \A c \in Kids(p) : db'.state[c] \notin Pending]_vars

\* What a parent's fan-in says of a child is how the child ended: no result
\* of a child that runs again, no failure of one that has completed since,
\* and no child recorded as two things.
FanInHonest ==
    \A p \in Nodes : \A r \in db.fanin[p] :
        db.state[r[1]] \in {r[2], None}

\* A whole flow is counted once, when its root ends: each counter grows by
\* one exactly in the steps in which the root of a flow comes to that state,
\* whether its own run ended, a child felled it or the sweep gave it up.
\* (For roots whose record stays; one removed at once is counted too.)
FlowCountedOnce ==
    [][\A s \in {"completed", "failed"} :
         db'.flows[s] - db.flows[s] =
            Cardinality({r \in Roots : Kids(r) # {} /\ db.state[r] \in Pending
                                       /\ db'.state[r] = s})]_vars

\* A finished job placed above every bound is never out of reach: its root
\* is running and lists it, so that what ends the root brings it back down.
Reclaimable ==
    \A j \in Nodes : IsFinished(db, j) /\ db.score[j] >= LIVE =>
        RunningRoot(db, j) /\ j \in db.live[RootOf(j)]

Whole(j) == \A a \in Above[j] : Exists(db, a)

\* The finished jobs of whole flows that another job's finish removes.
TrimmedBy(k) ==
    {j \in Nodes : /\ Parent[j] # None /\ RootOf(k) # RootOf(j)
                   /\ IsFinished(db, j) /\ db'.state[j] = None /\ Whole(j)}

\* "While the flow runs, nothing of it is trimmed": another job's bound takes
\* a flow's finished job only once its root is settled, and then with the
\* root or with a job of the flow that lies in another set than the root.
TrimSparesFlows ==
    [][\A k \in Nodes : \A j \in TrimmedBy(k) : Finish(k) =>
         LET r == RootOf(j) IN
         /\ IsFinished(db, r)
         /\ \E m \in {j} \cup Above[j] :
              db'.state[m] = None /\ (m = r \/ db.state[m] # db.state[r])]_vars

\* A parked parent waits for something: a child that is to run, runs or can
\* be retried is in its barrier.
NeverParkedForGood ==
    \A p \in Nodes : Parked(db, p) =>
        \E c \in db.deps[p] : db.state[c] \in Pending \cup {"failed"}

-----------------------------------------------------------------------------
(* Liveness.  While jobs wait some job is claimed, and runs do not go back  *)
(* to the queue for ever without one that commits, since the attempts and   *)
(* the stalls that put them back are counted; a pipeline is sent to its end *)
(* unless it is cut.                                                        *)

FairSpec ==
    /\ Spec
    /\ WF_vars(\E j \in Nodes : Claim(j))
    /\ SF_vars(\E j \in Nodes : Commit(j))
    /\ WF_vars(Send)

\* "A flow always settles": a root that is waiting or running is some day
\* finished or removed.
FlowSettles ==
    \A r \in Roots : (db.state[r] \in Pending) ~> (db.state[r] \notin Pending)
=============================================================================

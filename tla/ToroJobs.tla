------------------------------- MODULE ToroJobs -------------------------------
(***************************************************************************)
(* A toro queue at work: producers and operators calling the scripts of    *)
(* ToroRedis, and workers whose slots claim jobs, run their processors,    *)
(* renew the locks and commit the outcome, over a network that loses       *)
(* requests, replies and cancel messages, with workers that are shut down, *)
(* run again or crash.                                                     *)
(*                                                                         *)
(* A worker (toro/worker.py) is its token; a slot is one of its process    *)
(* loops.  Clocks are the callers' own: a claim is stamped with any        *)
(* reading in Nows.  A lease may run out at any moment, because nothing in *)
(* the code bounds how long a worker's event loop or its network stalls.   *)
(***************************************************************************)
EXTENDS ToroRedis

CONSTANTS
    Slots,     \* process loops
    Owner,     \* the worker each belongs to
    Nows,      \* clock readings at which a claim may be stamped
    MaxClaim,  \* bound: no claim is stamped past this
    Lives,     \* bound: how often each id is added (1: an auto id, never reused)
    Ops        \* what operators and the environment do in this instance

AllOps == {"cancel", "remove", "retry", "promote", "pause", "shutdown", "crash",
           "expire", "forget", "lose", "miss", "deaf"}

ASSUME JobsAssumption ==
    /\ Owner \in [Slots -> Tokens]
    /\ Nows \subseteq Nat \ {0}
    /\ MaxClaim \in Nat
    /\ Lives \in [Ids -> Nat]
    /\ Ops \subseteq AllOps

VARIABLES
    db,       \* the Redis database
    slots,    \* what each process loop is doing
    workers,  \* whether each worker is up, draining or crashed
    mail,     \* cancel messages published and not yet delivered
    born      \* how often each id has been added: no state of the code, it
              \* tells the jobs that wear one id apart in the properties

vars == <<db, slots, workers, mail, born>>

\* `phase`: idle, run (the processor is going) or finish (a finish script is
\* being sent, with what the processor came back with in `kind`).  `stop`: the
\* run was asked to stop (_cancelling).  `renewing`: its _renew_loop is alive.
\* `registered`: it is the worker's entry for the job in _processors.
Runs == [phase: {"idle", "run", "finish"}, job: Ids \cup {None}, claim: Nat,
         life: Nat, kind: Finished \cup {None}, fetch: BOOLEAN, stop: BOOLEAN,
         renewing: BOOLEAN, registered: BOOLEAN]

Idle == [phase |-> "idle", job |-> None, claim |-> 0, life |-> 0, kind |-> None,
         fetch |-> FALSE, stop |-> FALSE, renewing |-> FALSE, registered |-> FALSE]

Messages == [to: Tokens, job: Ids, claim: Nat]

TypeOK ==
    /\ db \in Db
    /\ slots \in [Slots -> Runs]
    /\ workers \in [Tokens -> {"up", "draining", "crashed"}]
    /\ mail \subseteq Messages
    /\ born \in [Ids -> Nat]

Init ==
    /\ db = EmptyDb
    /\ slots = [s \in Slots |-> Idle]
    /\ workers = [w \in Tokens |-> "up"]
    /\ mail = {}
    /\ born = [j \in Ids |-> 0]

-----------------------------------------------------------------------------
(* What a worker keeps of its runs. *)

\* Mutant of NewRun: a pending cancellation is not looked at.
NewRunRegardless(d, n) ==
    [phase |-> "run", job |-> n, claim |-> d.processedOn[n], life |-> born[n],
     kind |-> None, fetch |-> FALSE, stop |-> FALSE,
     renewing |-> TRUE, registered |-> TRUE]

\* The run that _handle starts on the job n that a claim answered with: straight
\* to the finish when a cancellation is already pending, else a processor.
NewRun(d, n) ==
    [phase |-> IF d.cancel[n] THEN "finish" ELSE "run",
     job |-> n, claim |-> d.processedOn[n], life |-> born[n],
     kind |-> IF d.cancel[n] THEN "cancelled" ELSE None,
     fetch |-> FALSE, stop |-> FALSE,
     renewing |-> ~d.cancel[n], registered |-> ~d.cancel[n]]

\* A slot goes on with job n, or idles.  A started processor takes the worker's
\* entry for the job over from an earlier run of it in another slot.
Load(s, d, n) ==
    IF n = None THEN [slots EXCEPT ![s] = Idle]
    ELSE [t \in Slots |->
            IF t = s THEN NewRun(d, n)
            ELSE IF ~d.cancel[n] /\ Owner[t] = Owner[s] /\ slots[t].job = n
                 THEN [slots[t] EXCEPT !.registered = FALSE]
                 ELSE slots[t]]

\* _request_cancel: the registered run of the job, if its processor still runs
\* and the request names its claim (0: the caller named none).
RequestCancel(w, j, c) ==
    [t \in Slots |->
        IF /\ Owner[t] = w /\ slots[t].job = j /\ slots[t].registered
           /\ slots[t].phase = "run" /\ (c = 0 \/ c = slots[t].claim)
        THEN [slots[t] EXCEPT !.stop = TRUE] ELSE slots[t]]

\* Publish a cancel message to every worker that listens.
Publish(j, c) ==
    mail' = mail \cup {[to |-> w, job |-> j, claim |-> c] :
                            w \in {v \in Tokens : workers[v] = "up"}}

-----------------------------------------------------------------------------
(* Producers and operators. *)

Add(j) ==
    /\ ~Exists(db, j)
    /\ born[j] < Lives[j]
    /\ db' = AddJob(db, j)
    /\ born' = [born EXCEPT ![j] = @ + 1]
    /\ UNCHANGED <<slots, workers, mail>>

Cancel(j) ==
    /\ "cancel" \in Ops
    /\ Exists(db, j) /\ db.state[j] \notin Finished
    /\ \E x \in Choices(db, {j}, "cancelled") : db' = CancelJob(db, j, x)
    /\ IF db.state[j] = "active" THEN Publish(j, db.processedOn[j]) ELSE UNCHANGED mail
    /\ UNCHANGED <<slots, workers, born>>

Remove(j) ==
    /\ "remove" \in Ops
    /\ Exists(db, j)
    /\ \E x \in Choices(db, {j}, "failed") : db' = RemoveJob(db, j, x)
    /\ IF db.state[j] = "active" THEN Publish(j, db.processedOn[j]) ELSE UNCHANGED mail
    /\ UNCHANGED <<slots, workers, born>>

Retry(j) ==
    /\ "retry" \in Ops
    /\ j \in db.coll["failed"]
    /\ db' = RetryJob(db, j)
    /\ UNCHANGED <<slots, workers, mail, born>>

Promote(j) ==
    /\ "promote" \in Ops
    /\ j \in db.coll["delayed"]
    /\ db' = PromoteJob(db, j)
    /\ UNCHANGED <<slots, workers, mail, born>>

SetPaused(p) ==
    /\ "pause" \in Ops
    /\ db' = [db EXCEPT !.paused = p]
    /\ UNCHANGED <<slots, workers, mail, born>>

-----------------------------------------------------------------------------
(* A worker's slots. *)

\* The answers a claim may get in database d: what was due, and the job popped,
\* or None (nothing to pop, or not asked to: `fetch`).
Claims(d, fetch) ==
    {c \in [due: SUBSET d.coll["delayed"], next: Ids \cup {None}, now: Nows] :
        c.next # None => /\ fetch
                         /\ c.next \in Claimable(PromoteDue(d, c.due))
                         /\ Stamp(d.processedOn[c.next], c.now) <= MaxClaim}

\* _acquire: claim a job and run it; the reply may be lost, and then the job is
\* locked in active with nobody running it.
Acquire(s) ==
    /\ workers[Owner[s]] = "up" /\ slots[s].phase = "idle"
    /\ \E c \in Claims(db, TRUE) :
        /\ db' = AcquireNext(db, c.due, c.next, Owner[s], c.now)
        /\ \/ slots' = Load(s, db', c.next)
           \/ "lose" \in Ops /\ slots' = slots
    /\ UNCHANGED <<workers, mail, born>>

\* The processor ends; a run that was asked to stop ends cancelled however it
\* unwound, and a cancelled finish never asks for the next job.
EndProcessor(s) ==
    /\ slots[s].phase = "run"
    /\ \E kind \in IF slots[s].stop THEN {"cancelled"} ELSE {"completed", "failed"} :
        slots' = [slots EXCEPT ![s].phase = "finish", ![s].kind = kind,
                    ![s].fetch = (workers[Owner[s]] = "up" /\ kind # "cancelled")]
    /\ UNCHANGED <<db, workers, mail, born>>

\* The answer to a finish reaches the slot, which goes on with job n; or it is
\* lost, and the slot will send the finish again, without asking for a job.
Answer(s, d, n) ==
    \/ slots' = Load(s, d, n)
    \/ /\ "lose" \in Ops
       /\ slots' = [slots EXCEPT ![s].fetch = FALSE]

\* A finish script that finds its own earlier answer.
FinishRecalled(s) ==
    LET r == slots[s] IN
    /\ r.phase = "finish"
    /\ \E m \in Recalled(db, Owner[s], r.job, r.claim) :
        Answer(s, db, IF r.kind = "cancelled" THEN None ELSE RecalledNext(db, m))
    /\ UNCHANGED <<db, workers, mail, born>>

\* A finish script that passes the guards: commit, then fetch, then remember.
FinishCommits(s) ==
    LET r == slots[s]  w == Owner[s] IN
    /\ r.phase = "finish"
    /\ Recalled(db, w, r.job, r.claim) = {}
    /\ RunHeld(db, w, r.job, r.claim) /\ r.job \in db.coll["active"]
    /\ \E x \in Choices(db, {r.job}, r.kind) :
        LET p == Commit(db, r.kind, r.job, x) IN
        \E c \in Claims(p, r.fetch) :
            /\ db' = RememberFinish(AcquireNext(p, c.due, c.next, w, c.now),
                                    w, r.job, r.claim, c.next)
            /\ Answer(s, db', c.next)
    /\ UNCHANGED <<workers, mail, born>>

\* A finish script that the guards refuse: the run ends with nothing committed.
FinishRefused(s) ==
    LET r == slots[s]  w == Owner[s] IN
    /\ r.phase = "finish"
    /\ Recalled(db, w, r.job, r.claim) = {}
    /\ ~(RunHeld(db, w, r.job, r.claim) /\ r.job \in db.coll["active"])
    /\ db' = Refuse(db, w, r.job, r.claim)
    /\ Answer(s, db', None)
    /\ UNCHANGED <<workers, mail, born>>

\* The request never reached Redis: sent again within the lease, or given up,
\* and then the job waits for the stalled sweep.
FinishUnsent(s) ==
    /\ "lose" \in Ops
    /\ slots[s].phase = "finish"
    /\ \/ slots' = [slots EXCEPT ![s].fetch = FALSE]
       \/ slots' = [slots EXCEPT ![s] = Idle]
    /\ UNCHANGED <<db, workers, mail, born>>

-----------------------------------------------------------------------------
(* Locks, cancellation and recovery. *)

\* Mutant of Renew: the pending cancellation in the answer is dropped.
RenewDeaf(s) ==
    LET r == slots[s]  w == Owner[s] IN
    /\ r.renewing
    /\ db' = ExtendLock(db, w, r.job)
    /\ slots' = IF db.lock[r.job] = w THEN slots ELSE [slots EXCEPT ![s].renewing = FALSE]
    /\ UNCHANGED <<workers, mail, born>>

\* One round of _renew_loop, its answer heard.  The renewal is guarded by the
\* token alone, so it also extends the lock of a later run of the same worker.
Renew(s) ==
    LET r == slots[s]  w == Owner[s]  mine == db.lock[r.job] = w
        asked == RequestCancel(w, r.job, 0)
    IN
    /\ r.renewing
    /\ db' = ExtendLock(db, w, r.job)
    /\ slots' = IF mine THEN IF db.cancel[r.job] THEN asked ELSE slots
                ELSE LET t == IF Exists(db, r.job) THEN slots ELSE asked
                     IN [t EXCEPT ![s].renewing = FALSE]
    /\ UNCHANGED <<workers, mail, born>>

\* A renewal whose answer is lost, or the last one of a lease that was not heard.
RenewUnheard(s) ==
    /\ "miss" \in Ops
    /\ slots[s].renewing
    /\ \/ /\ db' = ExtendLock(db, Owner[s], slots[s].job) /\ slots' = slots
       \/ /\ slots' = [slots EXCEPT ![s].renewing = FALSE] /\ db' = db
    /\ UNCHANGED <<workers, mail, born>>

LockExpires(j) ==
    /\ "expire" \in Ops
    /\ db.lock[j] # None
    /\ db' = ExpireLock(db, j)
    /\ UNCHANGED <<slots, workers, mail, born>>

MemoExpires(m) ==
    /\ "forget" \in Ops
    /\ db' = [db EXCEPT !.fin = @ \ {m}]
    /\ UNCHANGED <<slots, workers, mail, born>>

Sweep ==
    /\ \E x \in Choices(db, Exhausted(db), "failed") : db' = MoveStalled(db, x)
    /\ UNCHANGED <<slots, workers, mail, born>>

HearCancel(m) ==
    /\ slots' = RequestCancel(m.to, m.job, m.claim)
    /\ mail' = mail \ {m}
    /\ UNCHANGED <<db, workers, born>>

LoseCancel(m) ==
    /\ "deaf" \in Ops
    /\ mail' = mail \ {m}
    /\ UNCHANGED <<db, slots, workers, born>>

-----------------------------------------------------------------------------
(* A worker's life. *)

\* stop(): no more claims; the cancel listener ends with the claim loops.
Stop(w) ==
    /\ "shutdown" \in Ops
    /\ workers[w] = "up"
    /\ workers' = [workers EXCEPT ![w] = "draining"]
    /\ mail' = {m \in mail : m.to # w}
    /\ UNCHANGED <<db, slots, born>>

\* The grace period is over, and a slot still busy is cut off.  A processor that
\* unwound hands its job back, if the release arrives and finds the run its own;
\* a thread, or a finish in flight, leaves the job to the sweep.
CutOff(s) ==
    LET r == slots[s]  w == Owner[s] IN
    /\ workers[w] = "draining" /\ r.phase # "idle"
    /\ \/ /\ r.phase = "run"
          /\ RunHeld(db, w, r.job, r.claim) /\ r.job \in db.coll["active"]
          /\ db' = ReleaseJob(db, r.job)
       \/ db' = db
    /\ slots' = [slots EXCEPT ![s] = Idle]
    /\ UNCHANGED <<workers, mail, born>>

\* A stopped worker may be run again, under the same token.
Restart(w) ==
    /\ workers[w] = "draining"
    /\ \A s \in Slots : Owner[s] = w => slots[s].phase = "idle"
    /\ workers' = [workers EXCEPT ![w] = "up"]
    /\ UNCHANGED <<db, slots, mail, born>>

\* The process dies: what its slots ran is gone, and its token never comes back.
Crash(w) ==
    /\ "crash" \in Ops
    /\ workers[w] # "crashed"
    /\ workers' = [workers EXCEPT ![w] = "crashed"]
    /\ slots' = [s \in Slots |-> IF Owner[s] = w THEN Idle ELSE slots[s]]
    /\ mail' = {m \in mail : m.to # w}
    /\ UNCHANGED <<db, born>>

-----------------------------------------------------------------------------
Next ==
    \/ \E j \in Ids : \/ Add(j) \/ Cancel(j) \/ Remove(j) \/ Retry(j) \/ Promote(j)
                      \/ LockExpires(j)
    \/ \E p \in BOOLEAN : SetPaused(p)
    \/ \E s \in Slots : \/ Acquire(s) \/ EndProcessor(s)
                        \/ FinishRecalled(s) \/ FinishCommits(s) \/ FinishRefused(s)
                        \/ FinishUnsent(s) \/ Renew(s) \/ RenewUnheard(s) \/ CutOff(s)
    \/ \E m \in db.fin : MemoExpires(m)
    \/ Sweep
    \/ \E m \in mail : HearCancel(m) \/ LoseCancel(m)
    \/ \E w \in Tokens : Stop(w) \/ Restart(w) \/ Crash(w)

Spec == Init /\ [][Next]_vars

-----------------------------------------------------------------------------
(* Fairness.  A worker that is up keeps asking for jobs and the sets are    *)
(* popped in score order, so a waiting job that can be claimed again and    *)
(* again is claimed (SF: which one is popped is a choice here).  A finish   *)
(* is sent until it is answered or given up; a lock nobody renews runs out; *)
(* the sweep runs every stalled_interval.  Nothing is assumed of operators, *)
(* of deliveries, of crashes or of leases that are being renewed.           *)

ClaimsJob(s, j) == Acquire(s) /\ slots'[s].job = j

LeavesFinish(s) ==
    /\ FinishRecalled(s) \/ FinishCommits(s) \/ FinishRefused(s) \/ FinishUnsent(s)
    /\ slots'[s].job # slots[s].job \/ slots'[s].claim # slots[s].claim

Renewed(j) == \E s \in Slots : slots[s].renewing /\ slots[s].job = j /\ Owner[s] = db.lock[j]

ServiceFairness ==
    /\ \A j \in Ids : /\ SF_vars(\E s \in Slots : ClaimsJob(s, j))
                      /\ WF_vars(~Renewed(j) /\ LockExpires(j))
    /\ \A s \in Slots : WF_vars(LeavesFinish(s))
    /\ WF_vars(Sweep)

\* Every processor ends.
FairSpec == Spec /\ ServiceFairness /\ \A s \in Slots : WF_vars(EndProcessor(s))

\* A processor ends only when it is asked to stop; the renewal asks, because a
\* cancel message may be lost.
StuckSpec ==
    /\ Spec /\ ServiceFairness
    /\ \A s \in Slots : WF_vars(slots[s].stop /\ EndProcessor(s)) /\ WF_vars(Renew(s))

-----------------------------------------------------------------------------
(* Properties. *)

\* A job that exists is in exactly the one collection its `state` field names,
\* and no collection lists an id without a hash: what REMOVE_JOB and CANCEL_JOB
\* rely on when they look only where `state` says (scripts.py, removeFromState).
SingleHome ==
    \A j \in Ids, c \in Colls : j \in db.coll[c] <=> db.state[j] = c

\* Jobs that share a concurrency key: exactly the holder is queued, delayed or
\* running, the rest wait in held:<key>, and a key is free only when none waits
\* (takeKey, releaseKey and unkey, whichever way the holder goes).
KeyHeldByOne ==
    \A k \in Keys :
        /\ \A j \in Ids : Ckey[j] = k /\ db.state[j] \in Live <=> db.ck[k] = j
        /\ db.held[k] = {j \in Ids : Ckey[j] = k /\ db.state[j] = "held"}
        /\ db.ck[k] = None => db.held[k] = {}

\* Only a job in active is locked, so a finish past the lock's guard always finds
\* its job there: the NOT_ACTIVE answer of releaseRun is never given.
LockMeansActive == \A j \in Ids : db.lock[j] # None => db.state[j] = "active"

\* No two slots run the same claim of the same job, through lost replies, re-sent
\* finishes, sweeps and re-claims: processedOn names a run (lockAndLoad).
OneRunPerClaim ==
    \A s, t \in Slots :
        /\ s # t /\ slots[s].job # None
        /\ slots[s].job = slots[t].job /\ slots[s].life = slots[t].life
        => slots[s].claim # slots[t].claim

MayCommit(s) ==
    slots[s].job # None /\ RunHeld(db, Owner[s], slots[s].job, slots[s].claim)

\* Of all the runs going on a job, or on jobs that share a concurrency key, at
\* most one can still commit: a stale run, even one of the same worker and so of
\* the same token, is refused by releaseRun.
OneCommitter ==
    \A s, t \in Slots :
        s # t /\ MayCommit(s) /\ MayCommit(t)
        => /\ slots[s].job # slots[t].job
           /\ Ckey[slots[s].job] # None => Ckey[slots[s].job] # Ckey[slots[t].job]

\* A job still to run has attempts left and has not stalled past the limit: no
\* order of failures, stalls, releases and re-sent finishes overspends them.
BudgetLeft ==
    \A j \in Ids : db.state[j] \in Live =>
        /\ db.stalledCounter[j] <= MaxStalled
        /\ "retry" \notin Ops => db.attemptsMade[j] < Attempts[j]

\* A finished job keeps its outcome until an operator retries it or it is
\* removed: no late finish, sweep or cancellation ends a job twice.
FinishedStays ==
    [][\A j \in Ids : db.state[j] \in Finished =>
            db'.state[j] \in {db.state[j], None} \/ Retry(j)]_vars

\* A cancellation asked of a running job outlives stalls, failures, shutdowns and
\* crashes until the job finishes, and no processor is started on the job again.
CancelSticks ==
    [][\A j \in Ids : db.cancel[j] /\ db.state[j] \notin Finished =>
            /\ db'.cancel[j] \/ ~Exists(db', j)
            /\ \A s \in Slots : slots'[s].phase = "run" /\ slots'[s].job = j
                                => slots[s].job = j /\ slots[s].claim = slots'[s].claim]_vars

\* Every job is finished or removed in the end, whatever leases run out, replies
\* are lost and workers crash, as long as a worker is left.
EventuallySettled ==
    \A j \in Ids :
        \/ Exists(db, j) ~> (db.state[j] \in Finished \cup {None})
        \/ <>(\A w \in Tokens : workers[w] = "crashed")

\* A cancellation takes effect though its message is lost and the processor
\* would run for ever: the lock renewal is the backstop (_renew_loop).  A job that
\* was put back with the cancellation pending is recorded at its next claim, so not
\* while the queue stays paused.
CancelTakesEffect ==
    \A j \in Ids :
        \/ db.cancel[j] ~> (db.state[j] \in Finished \cup {None})
        \/ <>[]db.paused

\* The stage of ToroLease that the database puts a job in.
Stage(j) ==
    IF ~Exists(db, j) THEN "none"
    ELSE IF db.state[j] \in Finished THEN "done"
    ELSE IF db.state[j] # "active" THEN "pending"
    ELSE IF db.lock[j] = None THEN "lapsed" ELSE "leased"

Lease == INSTANCE ToroLease WITH
    Jobs <- Ids,
    stage <- [j \in Ids |-> Stage(j)],
    lease <- db.processedOn,
    made <- db.attemptsMade

\* The scripts, slots, sweeps and operators together keep the promise of ToroLease:
\* a claim is numbered past every earlier one, a run counts once, when the holder of
\* the lock commits, and a stale, re-sent or cut-off run never counts.
ImplementsLease == Lease!Spec
=============================================================================

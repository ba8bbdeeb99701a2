------------------------------ MODULE ToroRedis ------------------------------
(***************************************************************************)
(* The Redis side of a toro queue: what its keys hold and what each Lua    *)
(* script of toro/scripts.py does to them.  A script runs atomically, so   *)
(* it is an operator from one database to the next; the shared Lua         *)
(* routines are operators the scripts are composed from, in the order the  *)
(* Lua calls them.                                                         *)
(*                                                                         *)
(* Abstracted here: scores (which member of a sorted set is popped first,  *)
(* which delayed job is due, which finished job is oldest) are choices     *)
(* handed in by the caller, payloads, metrics and events are left out, and *)
(* there are no flows: every job comes from Queue.add.                     *)
(***************************************************************************)
EXTENDS Naturals, FiniteSets

CONSTANTS
    Ids,         \* job ids
    Tokens,      \* worker tokens, the values a lock takes
    Keys,        \* concurrency keys
    None,        \* nil: no lock, no holder, no hash
    Attempts,    \* opts.attempts of each job
    Ckey,        \* opts.concurrencyKey of each job, or None
    Keep,        \* opts.removeOnComplete/removeOnFail of each job
    Delay,       \* whether opts.delay of each job is more than 0
    Backoff,     \* whether opts.backoff of each job delays a retry
    MaxStalled,  \* max_stalled_count of the sweep
    Cap          \* global concurrency, 0 for none

Live     == {"wait", "delayed", "active"}
Finished == {"completed", "failed", "cancelled"}
Colls    == Live \cup Finished \cup {"held"}
KeepKinds == {"all", "none", "bounded"}

ASSUME RedisAssumption ==
    /\ None \notin Ids \cup Tokens \cup Keys \cup Colls
    /\ Attempts \in [Ids -> Nat \ {0}]
    /\ Ckey \in [Ids -> Keys \cup {None}]
    /\ Keep \in [Ids -> KeepKinds]
    /\ Delay \in [Ids -> BOOLEAN]
    /\ Backoff \in [Ids -> BOOLEAN]
    /\ MaxStalled \in Nat
    /\ Cap \in Nat

-----------------------------------------------------------------------------
(* The database.  `coll` holds the collections, each under the name of the *)
(* state it stands for ("wait" is the `prioritized` set, "active" the      *)
(* list); `state`, `attemptsMade`, `stalledCounter`, `processedOn` and     *)
(* `cancel` are the fields of the job hashes, a hash that does not exist   *)
(* having state None; `lock` is <id>:lock; `ck` and `held` are ck:<key>    *)
(* and held:<key>; `fin` the finish memos fin:<token>:<job>:<claim>.       *)

Memos == [token: Tokens, job: Ids, claim: Nat, next: Ids \cup {None}]

Db == [coll: [Colls -> SUBSET Ids],
       state: [Ids -> Colls \cup {None}],
       attemptsMade: [Ids -> Nat],
       stalledCounter: [Ids -> Nat],
       processedOn: [Ids -> Nat],
       cancel: [Ids -> BOOLEAN],
       lock: [Ids -> Tokens \cup {None}],
       stalled: SUBSET Ids,
       ck: [Keys -> Ids \cup {None}],
       held: [Keys -> SUBSET Ids],
       fin: SUBSET Memos,
       paused: BOOLEAN]

EmptyDb == [coll |-> [c \in Colls |-> {}],
            state |-> [j \in Ids |-> None],
            attemptsMade |-> [j \in Ids |-> 0],
            stalledCounter |-> [j \in Ids |-> 0],
            processedOn |-> [j \in Ids |-> 0],
            cancel |-> [j \in Ids |-> FALSE],
            lock |-> [j \in Ids |-> None],
            stalled |-> {},
            ck |-> [k \in Keys |-> None],
            held |-> [k \in Keys |-> {}],
            fin |-> {},
            paused |-> FALSE]

Exists(d, j) == d.state[j] # None

\* ZREM/LREM of a set of jobs from one collection, and only that one.
Take(d, J, c) == [d EXCEPT !.coll[c] = @ \ J]

\* ZADD/LPUSH of a set of jobs to a collection, with the HSET of their state.
Put(d, J, c) ==
    [d EXCEPT !.coll[c] = @ \cup J,
              !.state = [j \in Ids |-> IF j \in J THEN c ELSE d.state[j]]]

\* The hash and every key beside it go; a collection is the caller's to clear.
DelJobs(d, J) ==
    [d EXCEPT !.state = [j \in Ids |-> IF j \in J THEN None ELSE d.state[j]],
              !.attemptsMade = [j \in Ids |-> IF j \in J THEN 0 ELSE d.attemptsMade[j]],
              !.stalledCounter = [j \in Ids |-> IF j \in J THEN 0 ELSE d.stalledCounter[j]],
              !.processedOn = [j \in Ids |-> IF j \in J THEN 0 ELSE d.processedOn[j]],
              !.cancel = [j \in Ids |-> IF j \in J THEN FALSE ELSE d.cancel[j]],
              !.lock = [j \in Ids |-> IF j \in J THEN None ELSE d.lock[j]]]

-----------------------------------------------------------------------------
(* Concurrency keys. *)

\* A job takes its key and goes to collection c, or queues behind the holder.
TakeKey(d, j, c) ==
    LET k == Ckey[j] IN
    IF k = None THEN Put(d, {j}, c)
    ELSE IF d.ck[k] = None
         THEN Put([d EXCEPT !.ck[k] = j], {j}, c)
         ELSE Put([d EXCEPT !.held[k] = @ \cup {j}], {j}, "held")

\* The keys that a set of jobs gives up: those they are the holders of.
Freed(d, J) == {k \in Keys : \E j \in J : Ckey[j] = k /\ Exists(d, j) /\ d.ck[k] = j}

\* The jobs a key may be handed to: an id whose hash is gone is skipped.
Heirs(d, k) == {h \in d.held[k] : Exists(d, h)}

\* Hand each freed key to its heir in heir[k], or give it up.  An heir whose
\* delay still runs (it is in `late`) goes back to delayed.
ReleaseKeys(d, J, heir, late) ==
    LET freed == Freed(d, J)
        H == {h \in Ids : \E k \in freed : heir[k] = h}
        handed == [d EXCEPT
            !.ck = [k \in Keys |-> IF k \in freed THEN heir[k] ELSE d.ck[k]],
            !.held = [k \in Keys |->
                        IF k \notin freed THEN d.held[k]
                        ELSE IF heir[k] = None THEN {} ELSE d.held[k] \ {heir[k]}]]
    IN Put(Put(Take(handed, H, "held"), H \ late, "wait"), H \cap late, "delayed")

\* Mutant of Unkey: the job goes and its key is never handed on.
UnkeyForgotten(d, j, heir, late) == d

\* Take a job out of the key machinery before its hash goes.
Unkey(d, j, heir, late) ==
    IF Ckey[j] = None THEN d
    ELSE IF d.state[j] = "held"
         THEN [d EXCEPT !.held[Ckey[j]] = @ \ {j}]
         ELSE ReleaseKeys(d, {j}, heir, late)

-----------------------------------------------------------------------------
(* What the scores decide is chosen by the caller from these sets. *)

\* For every key, the job it goes to if the jobs J give it up.
HandOvers(d, J) ==
    {h \in [Keys -> Ids \cup {None}] :
        \A k \in Keys : IF k \in Freed(d, J) /\ Heirs(d, k) # {}
                        THEN h[k] \in Heirs(d, k) ELSE h[k] = None}

\* The finished jobs a bounded retention may trim when J join collection c.
Trims(d, J, c) ==
    IF \E j \in J : Keep[j] = "bounded"
    THEN SUBSET (d.coll[c] \cup {j \in J : Keep[j] # "none"}) ELSE {{}}

\* The choices open to a script that finishes the jobs J into collection c.
Choices(d, J, c) ==
    [heir: HandOvers(d, J),
     late: SUBSET UNION {Heirs(d, k) : k \in Freed(d, J)},
     trim: Trims(d, J, c)]

-----------------------------------------------------------------------------
(* Finishing. *)

\* Every way jobs finish: the keys go on, then the jobs are recorded, or
\* removed at once, and the trim takes jobs of the same finished set.
RecordFinished(d, J, c, x) ==
    LET released == ReleaseKeys(d, J, x.heir, x.late)
        dropped  == {j \in J : Keep[j] = "none"}
        kept     == J \ dropped
        recorded == Put(DelJobs(released, dropped), kept, c)
        flagged  == [recorded EXCEPT !.cancel =
                       [j \in Ids |-> recorded.cancel[j] \/ (c = "cancelled" /\ j \in kept)]]
    IN DelJobs(Take(flagged, x.trim, c), x.trim)

\* What is due joins the queue; an id whose hash is gone only leaves delayed.
PromoteDue(d, due) == Put(Take(d, due, "delayed"), {j \in due : Exists(d, j)}, "wait")

\* Mutant of Stamp: the clock alone names a claim.
StampByClock(last, now) == now

\* The claim's name: the caller's clock, or one past the job's last claim.
Stamp(last, now) == IF last # 0 /\ now <= last THEN last + 1 ELSE now

\* Jobs a claim may pop: none while the queue is paused or at its cap.
Claimable(d) ==
    IF d.paused \/ (Cap > 0 /\ Cardinality(d.coll["active"]) >= Cap)
    THEN {} ELSE d.coll["wait"]

LockAndLoad(d, n, tok, now) ==
    [d EXCEPT !.lock[n] = tok,
              !.stalled = @ \ {n},
              !.processedOn[n] = Stamp(@, now),
              !.state[n] = "active"]

\* Promote what is due, then move n from wait to active (n = None: nothing to
\* claim, a paused or capped queue, or a rate limit that put the job back).
AcquireNext(d, due, n, tok, now) ==
    LET p == PromoteDue(d, due) IN
    IF n = None THEN p
    ELSE LockAndLoad(Put(Take(p, {n}, "wait"), {n}, "active"), n, tok, now)

\* Mutant of RunHeld: the token alone says whose run it is.
RunHeldByToken(d, tok, j, c) == d.lock[j] = tok

\* A commit's guards: the lock names this worker and the hash this claim.
RunHeld(d, tok, j, c) == d.lock[j] = tok /\ d.processedOn[j] = c

\* Mutant of ReleaseRun: the lock is left to expire.
ReleaseRunLocked(d, j) == Take(d, {j}, "active")

\* Past the guards the lock is gone and the job is out of active.
ReleaseRun(d, j) == Take([d EXCEPT !.lock[j] = None], {j}, "active")

\* Mutant of CountRun: counts what is left, from an initial 0.
CountRunDown(d, j) == [d EXCEPT !.attemptsMade[j] = @ - 1]

\* The run counts as made, whatever it ended with.
CountRun(d, j) == [d EXCEPT !.attemptsMade[j] = @ + 1]

\* The commits of MOVE_TO_COMPLETED, MOVE_TO_CANCELLED and MOVE_TO_FAILED.
CommitFinish(d, j, c, x) == RecordFinished(CountRun(ReleaseRun(d, j), j), {j}, c, x)

\* Mutant of CommitFailed: one attempt too many.
CommitFailedLate(d, j, x) ==
    LET r == CountRun(ReleaseRun(d, j), j) IN
    IF r.attemptsMade[j] <= Attempts[j]
    THEN Put(r, {j}, IF Backoff[j] THEN "delayed" ELSE "wait")
    ELSE RecordFinished(r, {j}, "failed", x)

CommitFailed(d, j, x) ==
    LET r == CountRun(ReleaseRun(d, j), j) IN
    IF r.attemptsMade[j] < Attempts[j]
    THEN Put(r, {j}, IF Backoff[j] THEN "delayed" ELSE "wait")
    ELSE RecordFinished(r, {j}, "failed", x)

Commit(d, kind, j, x) ==
    IF kind = "failed" THEN CommitFailed(d, j, x) ELSE CommitFinish(d, j, kind, x)

\* A finish answered twice answers the same thing: the memo is looked up first.
Recalled(d, tok, j, c) == {m \in d.fin : m.token = tok /\ m.job = j /\ m.claim = c}

RememberFinish(d, tok, j, c, n) ==
    [d EXCEPT !.fin = @ \cup {[token |-> tok, job |-> j, claim |-> c, next |-> n]}]

\* The job a recalled finish hands over: while the lock is still this worker's.
RecalledNext(d, m) ==
    IF m.next # None /\ d.lock[m.next] = m.token THEN m.next ELSE None

\* A refused finish changes nothing, unless only `active` refused it.
Refuse(d, tok, j, c) ==
    IF RunHeld(d, tok, j, c) THEN [d EXCEPT !.lock[j] = None] ELSE d

-----------------------------------------------------------------------------
(* The other scripts. *)

ExtendLock(d, tok, j) ==
    IF d.lock[j] = tok THEN [d EXCEPT !.stalled = @ \ {j}] ELSE d

\* Mutant of Stalling: the mark alone, without a look at active.
StallingByMark(d) == {j \in d.stalled : d.lock[j] = None}

\* The jobs one pass of the sweep finds stalled, and those it fails for good.
Stalling(d) == {j \in d.stalled : d.lock[j] = None /\ j \in d.coll["active"]}
Exhausted(d) == {j \in Stalling(d) : d.stalledCounter[j] + 1 > MaxStalled}

\* Mutant of MoveStalled: the pass does not mark what is active for the next.
MoveStalledOnce(d, x) ==
    LET S == Stalling(d)
        F == Exhausted(d)
        taken == [Take(d, S, "active") EXCEPT !.stalledCounter =
                    [j \in Ids |-> IF j \in S THEN d.stalledCounter[j] + 1
                                              ELSE d.stalledCounter[j]]]
    IN [Put(RecordFinished(taken, F, "failed", x), S \ F, "wait") EXCEPT !.stalled = {}]

MoveStalled(d, x) ==
    LET S == Stalling(d)
        F == Exhausted(d)
        taken == [Take(d, S, "active") EXCEPT !.stalledCounter =
                    [j \in Ids |-> IF j \in S THEN d.stalledCounter[j] + 1
                                              ELSE d.stalledCounter[j]]]
        swept == Put(RecordFinished(taken, F, "failed", x), S \ F, "wait")
    IN [swept EXCEPT !.stalled = swept.coll["active"]]

AddJob(d, j) == TakeKey(d, j, IF Delay[j] THEN "delayed" ELSE "wait")

PromoteJob(d, j) == Put(Take(d, {j}, "delayed"), {j}, "wait")

RetryJob(d, j) ==
    TakeKey([Take(d, {j}, "failed") EXCEPT !.cancel[j] = FALSE,
                                           !.stalledCounter[j] = 0],
            j, "wait")

RemoveJob(d, j, x) ==
    DelJobs(Unkey(Take(d, {j}, d.state[j]), j, x.heir, x.late), {j})

CancelJob(d, j, x) ==
    IF d.state[j] = "active"
    THEN [d EXCEPT !.cancel[j] = TRUE]
    ELSE RecordFinished(Unkey(Take(d, {j}, d.state[j]), j, x.heir, x.late),
                        {j}, "cancelled", x)

\* Mutant of ReleaseJob: handed back, and left in active.
ReleaseJobTwice(d, j) == Put([d EXCEPT !.lock[j] = None], {j}, "wait")

ReleaseJob(d, j) ==
    Put([Take(d, {j}, "active") EXCEPT !.lock[j] = None], {j}, "wait")

\* A lock runs out, and with it the memos that named its job as fetched: both
\* were set in one script for the same lease, and only the lock is ever renewed.
ExpireLock(d, j) ==
    [d EXCEPT !.lock[j] = None,
              !.fin = {m \in @ : ~(m.token = d.lock[j] /\ m.next = j)}]
=============================================================================

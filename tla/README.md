# toro in TLA+

toro is a job queue over Redis. Producers and operators use `Queue`, consumers
run a `Worker`; they share nothing but the queue's keys, and every change of a
job's state is one Lua script of `toro/scripts.py`, atomic in Redis. What can go
wrong is therefore not inside a script but between two of them: a lease that runs
out under a running processor, a reply that is lost after the script committed, a
cancel message nobody hears, a worker that is shut down or dies, an operator who
removes what a slot is running. This project models those scripts and the
processes that call them, model-checks the promises the code makes about them,
and proves most of the safety promises for every number of jobs, workers, slots,
keys, callers and waiters.

## The system

| part | state | operations | meets |
|---|---|---|---|
| job state (`scripts.py`) | job hashes, `prioritized`, `delayed`, `active`, `completed`, `failed`, `cancelled`, `held`, locks, finish memos | the scripts | everything |
| worker slots (`worker.py`) | the run each process loop is in, `_processors`, `_cancelling` | claim, run, finish, fetch-next, re-send | locks, sweep, cancel |
| leases and the stalled sweep | `<id>:lock` with a TTL, `stalled` | renew, expire, mark and sweep | slots |
| concurrency keys | `ck:<key>`, `held:<key>`, `held` | take, hand on, leave | every way a job ends |
| cancellation | `cancel` field, the cancel channel | `CANCEL_JOB`, `REMOVE_JOB`, listener, renewal, the flag at the claim | slots, sweep, retry |
| global concurrency, rate limit, pause | `LLEN active`, token bucket, `meta-paused` | checked at every claim | claims and finishes |
| retention | finished sets | trim inside `recordFinished` | keys, flows |
| claim order | scores, the `pc` sequence | enqueue, promote, hand-over, reset | held jobs |
| wake-ups | `marker` | enqueue, `wakeAt`, `BZPOPMIN`, hand-back | cap, rate limit, shutdown |
| flows | `waiting-children`, `:deps`, `:results`, `:cfail`, `:live` | add a tree, settle, fail eagerly, retry, remove | every finish |
| schedulers | `repeat`, templates | register, mint the next, repair, remove | workers, several round trips each |
| `result()` | waiters, one subscription | register, read, event, recheck | every finish |
| adds | replay tokens, dedup ids, `PendingJobs` | add, re-send, flush | the network |
| presence, metrics, listings | heartbeats, buckets | observe only | - |

What is hard here: two runs of one job alive at once (the lease is a guess about
the other side), and the same worker token on both of them; answers that arrive
after what they answer has changed; keys that have to be handed on on every path
out of the queue; a budget of attempts and stalls spent by whoever ends the run.
`PROJECT.json` lists the hazards line by line, with the properties aimed at each.

## Modules

**`ToroRedis`** is the Redis side: a database record `d` and one operator per Lua
routine and script, composed in the order the Lua composes them. `coll` holds the
collections under the name of the state they stand for, `state`, `attemptsMade`,
`stalledCounter`, `processedOn` and `cancel` the hash fields the transitions read,
`lock`, `stalled`, `ck`, `held`, `fin` and `paused` the keys beside them.
`recordFinished`, the routine every end of a job goes through, is
`RecordFinished`: the key handed on, the job recorded or removed, the trim.
What the scores decide - which waiting job is popped, which delayed one is due,
which held job is first, what a trim reaches - is an argument, and the caller may
pass any value the sets allow (`Choices`, `Claims`). So the model has every
behaviour of the code and more orders than the code; a safety property shown here
does not depend on scores. `active` is a set: a list that holds an id twice would
break `SingleHome` first.

**`ToroJobs`** runs it: `db`, what each slot is doing (`slots`), the workers, the
undelivered cancel messages, and `born`, a ghost that counts the adds of an id so
that properties can tell two jobs of one custom id apart. Its actions:

| action | code |
|---|---|
| `Add`, `Cancel`, `Remove`, `Retry`, `Promote`, `SetPaused` | the `Queue` methods, each one script call |
| `Acquire` | `_acquire`: MOVE_TO_ACTIVE; the reply may be lost, leaving a locked job nobody runs |
| `EndProcessor` | the processor returns, raises or times out, or unwinds after a cancel request; the fetch flag is read here |
| `FinishRecalled`, `FinishCommits`, `FinishRefused`, `FinishUnsent` | `_committed` and the finish scripts: answered from the memo; committed, fetching the next job in the same script and remembering the answer; refused by the lock or the claim; never arrived, so re-sent or given up |
| `Renew`, `RenewUnheard` | one round of `_renew_loop`, heard or not |
| `LockExpires`, `MemoExpires` | the TTLs; a lease may end at any moment, because nothing bounds how long an event loop or a network stalls |
| `Sweep` | MOVE_STALLED |
| `HearCancel`, `LoseCancel` | the listener and what it misses |
| `Stop`, `CutOff`, `Restart`, `Crash` | `stop()`, the end of the grace period with RELEASE_JOB, `run()` again with the same token, the death of the process |

Details a reader may look for. A job whose hash already carries `cancel` when it
is claimed goes straight to the cancelled finish, with no processor and no
renewer (`NewRun`). A slot that starts a processor takes over the worker's entry
for the job, so an older run of it in another slot can no longer be asked to stop
by name (`Load`). The memo of a finish lives as long as the lease of the job it
fetched, set in the same script and never renewed, so a lock that ran out has
outlived its memo (`ExpireLock`). A script that raises is a finish given up. A
cut-off thread leaves its job to the sweep. A rate limit is a claim that answers
nothing. A re-send by the Redis client keeps asking to fetch, one by the worker
does not: the memo is looked up first, so both find the same answer.

**`ToroScheduler`** models one repeatable schedule: its slot in `repeat`, its
template, and the occurrence of each slot, with the calls that register and remove
it and the workers that mint from it. Each of these is several round trips, and one
action is one round trip:

| action | code |
|---|---|
| `AddTemplate`, `AddRead`, `AddMove`, `AddEnqueue` | `add_scheduler`: HSET, ZSCORE, ZADD, ADD_SCHEDULED |
| `DropWatch`, `DropExec` | `_drop_pending_occurrence`: WATCH and HGET, MULTI/EXEC |
| `RemoveSchedule`, `RemoveOccurrence` | `remove_scheduler`: REMOVE_SCHEDULER, then REMOVE_JOB of the slot it answered with |
| `PickUp`, `PickUpCancelled` | `_handle` with an occurrence in hand, or one whose cancellation is pending |
| `CheckOverdue`, `CheckOccurrence` | `_resume_orphaned_schedules` |
| `ReadTemplate`, `ReadSlot`, `MoveSlot`, `Mint` | `_schedule_next`: HGETALL, ZSCORE, ZADD XX CH, ADD_SCHEDULED |
| `EndRun`, `Sweep`, `Promote`, `KeyFreed`, `DropOccurrence`, `RetryOccurrence` | what the rest of the queue does to an occurrence, reduced to the state it leaves it in |
| `CallerDies`, `MinterDies`, `Tick` | a process dies or a round trip raises half way; time passes |

There is one clock, and a reading taken between two round trips is any value it had
between them. A template is the number of the registration that wrote it, which is
what tells an old one from a new one. WATCH is kept as the set of callers whose
watched hash nobody has written since. The module stands beside `ToroJobs` rather
than on it: the two meet only in the states an occurrence goes through.

**`ToroLease`** is what the queue promises about one job, without workers,
scripts or messages: the job is pending, leased, lapsed (its lease has run out) or
done; a lease number is never given twice; a run counts when the holder of a live
lease commits it, and at no other time. `ToroJobs` instantiates it with `Stage`
(computed from the job's state and lock), `processedOn` and `attemptsMade`, and
`ImplementsLease` says that every step of the detailed system is such a step of
each job, several jobs at once where one script touches several.

**`ToroFlows`** models trees of jobs: the state of each node, its barrier
(`deps`), its fan-in (`:results`, `:cfail` and `:ccancel` as pairs of child and
outcome), the retention index `:live`, the scores of the finished sets, and the
two flow counters. A job that can be claimed by itself in the end (waiting, delayed
or held) is in the one state `wait`; only a lock holder finishes (the lease is
`ToroJobs`' subject); of the retention bounds only a lone root may carry a count.

| action | code |
|---|---|
| `AddFlow` | ADD_FLOW |
| `Claim`, `PutBack` | the claim; a retry, a release or a recovered stall |
| `MoveToCompleted`, `MoveToFailed`, `MoveToCancelled`, `FailStalled` | the finishes and the sweep's failure, each with `recordFinished`, the trim and `settleChildCompleted` or `settleChildGone` up the tree |
| `CancelJob`, `RemoveJob`, `RetryJob` | CANCEL_JOB with `cancelTree`, REMOVE_JOB with its subtree, RETRY_JOB with the subtree it revives |
| `RetryAllFailed`, `Clean`, `Send`, `Cut` | the bulk calls: ids listed first, then one script per id in a pipeline that may be cut |

**`ToroWakeup`** models who is woken when, and in which order jobs start: the
marker with its two members (a wake now, a wake at a due time), the queue of
clients blocked in BZPOPMIN, the token bucket, the cap, the priority scores with
the sequence `pc` at a small width (`SeqWrap`), the key queues, and for each slot the place
of its loop. Time is kept as what is left of each delay, and passes when nothing
but waiting is left to do: a round trip takes no time compared with a tick.

| action | code |
|---|---|
| `Claim`, `LimitedEnds`, `Block`, `Pop`, `Woken`, `Timeout` | `_acquire` and the loop around it: MOVE_TO_ACTIVE, the pause it answers with, `block_for` and BZPOPMIN, the hand-back of a wake by a stopped slot |
| `EndProcessor`, `Finish`, `FinishRetries`, `FinishCancelled`, `FinishLost` | the finishes with fetch-next or the wake |
| `PopLost`, `ArmingLost`, `StopWakeLost` | a connection that fails under a live worker: the pop's reply does not arrive, and the client sends it again or gives up (connection.py:89); a wake after a rate limit, after a lost finish, by a leaving slot or by `stop()` is not sent, and the error suppressed or caught (worker.py:400, 585, 602, 656) |
| `Add`, `RemoveJob`, `PromoteJob` | the scripts that enqueue or free a key |
| `Pause`, `Resume`, `SetLimits`, `Arm` | the key first, the wake in a second round trip |
| `SweepRecovers`, `SweepFails`, `SweepTakesOver` | MOVE_STALLED |
| `Stop`, `StopWakes`, `Drained`, `CutOff`, `Crash`, `Start`, `Tick` | the life of a worker; time |

**`ToroEnqueue`** models adds under an unreliable connection: `Queue.add` and
`add_flow`, and `PendingJobs` with several flushes in flight. A call is its token
and its arguments (custom id, dedup id, number of nodes). A connection given up
may still run what was written to it, later and in part (`RunLate`), while the
client or the next flush has sent the same calls again. `Run` is ADD_JOB or
ADD_FLOW: memo of the token, custom id, dedup id, then the counter.

| action | code |
|---|---|
| `Add`, `AddReturns`, `AddRaises`, `Resend` | `Queue.add`, and the client's retries |
| `Collect`, `Discard` | `PendingJobs.add`, `add_flow`, `discard` |
| `FlushTakes`, `FlushStops`, `FlushSends`, `FlushRaises`, `FlushReturns` | `flush`: the batch taken before the first await, and what each way out puts back |
| `Run`, `RunFails`, `RunLate`, `Lost`, `JobGoes`, `Tick` | the server, the network, the TTLs |

**`ToroResult`** models `result()`: the futures, the one listener and its
subscription, the lock around its start, the events in flight, the re-reads every
`RESULT_RECHECK_S`, the read-back of results too large for an event, and
`close()`. One action is what an asyncio task does between two awaits; the number
of the run stands for the result it returned.

| action | code |
|---|---|
| `Call`, `Locks`, `Starts`, `StartFails`, `Subscribed` | the start of the listener by the first caller |
| `Reads`, `ReadFails`, `Got`, `Resolved`, `Recheck`, `DeadlinePasses`, `Abandon` | register, read the hash, wait, re-read, time out, be cancelled |
| `Route`, `ReadBack`, `ReadBackFails`, `Resubscribes`, `ListenerDies` | `_route_event` and what breaks the listener |
| `CloseAsks`, `CloseLocks`, `CloseEnds` | `close()` |
| `Finish`, `RunAgain`, `Remove` | what the queue does to the job |

The modules stand side by side: each keeps of the others what it meets. A flow
node's run is `ToroJobs`' claim and commit; a wake-up's slot is its slot with the
marker; a waiter sees the finishes as events.

The **`MC*`** modules give the constants their values; the **`*_proofs`** modules
hold the theorems:

| module | rests on | about |
|---|---|---|
| `ToroRedis_proofs` | `ToroRedis` | what every Lua routine and script keeps true of the database, what it does to each single job and to the finish memos |
| `ToroJobs_proofs` | `ToroRedis_proofs` | homes, keys, locks |
| `ToroLease_proofs` | `ToroJobs_proofs` | one job through any step: the refinement of `ToroLease`, budgets, ends, cancellation; then claims, slots and memos: who runs what, who may commit |
| `ToroScheduler_proofs` | `ToroScheduler` | removal and update of a schedule |
| `ToroResult_proofs` | `ToroResult` | `result()`, its listener, `close()` |
| `ToroEnqueue_proofs` | `ToroEnqueue` | adds and `PendingJobs` |
| `ToroFlows_proofs` | `ToroFlows` | barriers, fan-ins, retention indexes, trims and flow counters, for every forest |
| `ToroWakeup_proofs` | `ToroWakeup` | wakes, claim order, cap and tokens |

## Runs

The instances of `ToroJobs` stamp claims at one clock reading (`Nows = {1}`): every
claim then falls into the millisecond of the one before it, the case `lockAndLoad`
corrects. `MaxClaim` bounds the claims of a job; it is past what the attempts and
stalls of the instance allow, or ends a behaviour after a re-claim. `Ops` selects
what the environment does in an instance, `MaxOps` and `MaxFaults` how often. A run
that stops is a queue with nothing left to do, so deadlock is not checked.

| run | instance | shows |
|---|---|---|
| `lease` | 1 job, 2 attempts with a backoff, 1 stall; 3 slots of 2 workers; expiry, lost replies, memos that run out, crashes | `TypeOK`; `OneCommitter`: of the runs of a job at most one can still commit; `OneRunPerClaim`: a finish that fetches, loses its answer and is sent again never starts one claim in two slots; `BudgetLeft`: no order of failures, stalls and re-sends overspends attempts or stalls; `FinishedStays`: no outcome is overwritten; `EventuallySettled`: the job ends as long as one worker is left |
| `cancel` | 2 jobs on one key, one delayed, one removed at once; 2 slots of one worker; expiry, cancel, remove, retry, promote, shutdown | `SingleHome`; `KeyHeldByOne`; `LockMeansActive`; `CancelSticks`: a cancellation survives stalls, failures, releases and re-claims, and no processor is started on the job again; `ImplementsLease`: the refinement |
| `stuck` | 1 job, 2 slots; processors that never end unless asked; lost messages and renewals, pause | `CancelTakesEffect` through the renewal, unless the queue stays paused |
| `sched` | a schedule registered with one cadence and again with another, removed and registered by two callers whose calls overlap; one worker; every operation, two faults | `TypeOK`; `RemovedStaysSilent`: a removed schedule is not revived by a worker half way through minting; `UpdateSparesRuns`: an update never takes away an occurrence that has started; `ScheduleGoesOn`: an overdue schedule that has its template moves on, whatever became of its occurrence |
| `sched_stranded` | one registration and a removal that overlap | expects a violation of `ListedGoesOn`, see below |
| `flows` | root with a parent and its two children, one of them tolerated, one removed at once; three operator calls of any kind | `TypeOK`; `BarrierHolds`: no parent is released over a child that is still to run; `FanInHonest`: what a parent reads of a child is how it ended; `Reclaimable`: nothing finished is left above every bound without a running root that lists it; `FlowCountedOnce` |
| `flow_kept` | the same tree with the nested parent tolerated, beside a lone job that carries a count bound; retries | `TrimSparesFlows`: another job's bound takes nothing of a flow before its root is settled; `FlowSettles`: every flow ends |
| `wakeup` | 3 jobs, one urgent, two on one key; 2 workers of one slot; cap 0 or 1, one start per two ticks; stops, cut-offs, crashes, pause, limits | `TypeOK`; `NoLostWake`: while a job waits and may start, the marker is armed or somebody who will look is awake; `ClaimInOrder`: no sequence restart, put-back or key hand-over lets a later job pass; `StartsWithinCap` |
| `wake_taken` | 2 jobs without keys, one act (a crash, a stop that may cut runs off, a stall, a promotion) and one failing connection of a live worker; re-sent adds; no cap | `EveryJobIsTaken`, also after a process died with the wake it had popped, or a reply or a wake was lost: the block times out and the slot claims |
| `enqueue` | a direct flow of two nodes, a call with custom and dedup id, one with the same dedup id; 2 flushes, 2 faults | `TypeOK`; `OncePerCall`: a call makes its jobs once however often it is sent; `SentIsTrue`: nothing is reported as sent that never ran; `InOneHand`: no call is lost or held twice between buffer and flushes |
| `result` | 1 job with a large result, 2 waiters, one with a timeout; retry, removal, one fault, `close()` | `TypeOK`; `AnswerIsReal`; `NothingMissed`: a finish after the first read is never missed; `ClosedIsQuiet`; `EveryWaitEnds` |
| `flow_stranded` | the tree of `flow_kept`, one cancel and one retry | expects a violation of `NeverParkedForGood`, see below |

In the schedule instance `MaxNow` stops the clock and `Horizon` is a slot past every
one that can be computed before that (promotions that would pass it are left out).
Cadences of 2 and 4 give slots that differ and one that both grids share. The clock
comes to the first slot and not to the one after it: what is minted there is not run
again, but every race of the calls with each other and with the minting falls before
it. Two faults are a death and a retry, or a stall and a death. The two safety
properties are proved for any number of callers and any clock.

`lease` needs one job only: a failed run with a backoff is put back, promoted and
fetched again by the same script. Two jobs meet in `cancel`, and `OneRunEach` proves
`OneRunPerClaim` for any number. In `flows` the tree is the smallest in which an end
walks up two levels and siblings of different policy race for one barrier; three calls
are enough for cancel, retry, retry and for retry, remove, clean. In `wakeup` three jobs are needed
for an order that a key can upset, two workers for a wake popped by the wrong one;
`BlockTimeout` is as long as the rate limit's window, so that a missed wake shows.
`SeqWrap` is past what the instance can count to: the restart of the sequence
happens when nothing waits. In `enqueue` the memo outlives the dedup id by one
tick, so calls meet each with and without the other; `MaxIds` bounds what the counter
hands out, four ids being room for the two-node flow to be made twice. In `result` two
runs are what a stale answer needs.

### Found

`flow_stranded`: docs/flows.md:109 says "There is deliberately no "wait forever"
option: a flow always settles." A parent fails through one child; another child is
cancelled afterwards. `settleChildGone` returns at scripts.py:717, since the parent
is no longer parked, before the SREM of line 721, so the cancelled child stays in the
parent's `:deps`. RETRY_JOB of the parent adds to `:deps` only children that are
neither completed nor cancelled, and keeps what is still in it: the parent parks on
a child that nothing will settle (a cancelled job cannot be retried), until an
operator removes that child, or cancels or removes the parent. `FlowSettles` holds where nobody cancels (`flow_kept`).

`sched_stranded`: docs/scheduling.md:57 says "Only `remove_scheduler` ends a schedule",
and that a passed slot is followed by the next one within a schedule check.
`add_scheduler` writes the template, reads the slot and lists the schedule in three
round trips, the last a plain ZADD (queue.py:839):

1. one caller writes the template and reads that there is no slot;
2. another caller's REMOVE_SCHEDULER deletes the template and the entry;
3. the first caller's ZADD lists the schedule, and its occurrence is enqueued;
4. the occurrence runs, `_schedule_next` finds no template (worker.py:1087) and mints
   nothing. So does every schedule check, every five seconds: the slot stays in the
   past and `schedulers()` lists a schedule that never runs again, until it is
   registered or removed once more.

The worker's ZADD has XX against this (worker.py:1096), the producer's has not.
`ListedGoesOn` is the documented promise. `ScheduleGoesOn` is what the code keeps, with
any overlap of calls: it asks that the template is there.

### Seen while modelling, not part of a run

* The memo of a finish names the job it fetched and not the claim (scripts.py:256):
  a custom id that is removed while it runs, added again and claimed by another slot
  of the same worker is handed to the re-sent finish as well. `OneRunPerClaim` is
  about ids that are not reused in this way (`Lives = 1`).
* EXTEND_LOCK looks at the token, not at the claim (scripts.py:940, worker.py:1142): a
  stale run keeps renewing the lock of a later run of the same worker that has given
  its finish up, until its processor ends by itself.
* `remove_scheduler` removes the job at the slot it was answered with, though a worker
  may have picked it up and not minted yet (queue.py:888; docs/scheduling.md:68 says that
  in-flight runs finish).
* `_schedule_next` moves the slot with XX but does not look again at the slot it read
  (worker.py:1099): a registration in between is overwritten and two occurrences are
  parked (docs/scheduling.md:78).
* REMOVE_JOB of a running root whose nested parent is settled leaves that parent's
  pending child behind (scripts.py:1282). Retention of a nested parent in the failed
  set takes its completed descendants while the root stays. `retry_all_failed` goes
  newest first and can park a parent on a child that has failed again.
* A call answered by a dedup or custom id leaves no memo, so re-sending it after that
  id's TTL adds a job; queue.py:398 says that a re-send adds nothing. Two flushes that
  both fail can put their batches back in the other order.
* A slot woken for a due job may take another one first, so a delayed job can start
  one block timeout late.
* `result()`: a read-back answers None when the hash went between event and read; a
  timeout may be raised though the future was resolved during the last re-read; a late
  "failed" event of an earlier run can answer a waiter of the retried job; without a
  timeout, a lost event together with a removed hash is waited for until `close()`.

### Fairness

`ToroJobs!ServiceFairness`: a worker that is up keeps claiming, and the sets are popped
in score order, so a job that is claimable again and again is claimed (strong, since
a claim may have others to choose from); a finish is sent until it is answered or
given up; a lock that no renewal touches runs out; the sweep runs every
`stalled_interval`. `FairSpec` adds that processors end. `StuckSpec` does not: a
processor ends only once it was asked to stop, and each renewal loop keeps going.
Nothing is assumed of operators, deliveries, crashes, or of a lease that is being
renewed.

`ToroScheduler!FairSpec`: the process loops and the schedule check (every
`SCHEDULE_CHECK_S`) go round, so what waits is picked up and what is overdue is
looked at (strong: a loop may be busy with another occurrence first); a call that
was begun and a processor that was started go on to their end unless their process
dies; a due occurrence is promoted, a key is given up in the end, a dead run is
swept; the clock moves. Stalls of live runs are left out there: the sweep bounds
them by `max_stalled`, which this module does not count.

`ToroFlows!FairSpec`: while jobs wait, some job is claimed; runs that are put back
again and again commit at last, since attempts and stalls are counted (`BudgetLeft`);
a pipeline that was begun is sent.

`ToroWakeup!Fairness`: every slot's loop goes on, a block ends by a wake or by its
timeout, processors end, what a dead slot left is swept, `stop()` sends its wake or
gives it up, and time passes. Nothing is assumed of adds, operators, stops or restarts.

`ToroResult!FairSpec`: the event loop runs every task that can go on, Redis answers a
read, the wait before a re-read and a caller's timeout end, and the lock is given to
whoever can go on. Nothing is assumed of events: they need not be read or delivered.

## Proofs

Every theorem holds for all constants that satisfy the module's assumptions, which
say what kind of value a constant is and, where it matters, what the code refuses
(an id of digits only is refused by `Queue.add`, so it never meets the counter).

### Job states, keys, locks

`ToroJobs_proofs` proves `TypeCorrect`, `OneHome` (`SingleHome`), `KeysHandedOn`
(`KeyHeldByOne`) and `LocksAreActive` (`LockMeansActive`).

All follow from `Invariant`, `Spec => []IInv`, with `IInv` the conjunction of
`TypeOK`, `Sound(db)` and `SlotShape` (a slot that is not idle has a job, and a
finishing one has an outcome). `Sound` is why the four are proved together: a job
leaves a collection because its state names it, its key is handed on because it is
live, and its lock may be dropped because it is active, so each property needs the
others. Between two steps of one script they do not hold: a job that ReleaseRun
took out of `active` is in no collection, and still holds its key. The lemmas of
`ToroRedis_proofs` are therefore about `Good(d, X, Y)`: everything holds except
that the jobs of X are in no collection and those of Y own no key. One lemma per
Lua routine says which exceptions it takes and which it leaves (`TakeGood`,
`PutLive`, `ReleaseKeysGood`, `RecordFinishedGood`, ...), one per script composes
them from `Sound` to `Sound` (`AddJobSound`, `CommitSound`, `MoveStalledSound`,
...), and the inductive step has one case per action.

### One job through any step

The second half of `ToroRedis_proofs` says what each script does to job i, be it the job the script
is called for or a `Bystander`: kept as it is, handed a key, promoted, or, if it has
finished, trimmed. `ToroLease_proofs` sums these up in `JobStep(i)`, the twelve ways a
step of the whole system may treat a job (submitted, claimed, run, run and claimed
again by the same script, lapsed, recovered, ...), and shows that every action is one
of them for every job. Four theorems follow from it:

* `QueueImplementsLease`: `Spec => ImplementsLease`. Under the mapping each `JobStep` is
  a step of `ToroLease` or a stutter. A commit needs `Leased`: the run that ends is one
  whose lock and claim are still the job's, which is what `releaseRun` checks.
* `BudgetKept`: `Spec => []BudgetLeft`, by the stronger `Solvent`: a job that is gone has
  clean counters (so a reused id starts afresh), and held jobs keep the budget too,
  since the hand-over of a key makes them live without a look at it.
* `NoSecondEnd`: `Spec => FinishedStays`.
* `CancellationSticks`: `Spec => CancelSticks`, with the lemmas on what each action may
  load into a slot (`NewRun` looks at the flag, and only a claim loads).

### Claims

The second half of `ToroLease_proofs` proves `OneRunEach` (`OneRunPerClaim`) and `OneCommits`
(`OneCommitter`) from `ClaimInv`. The danger is the memo: a finish that committed and
fetched the next job in one script may lose its answer, and its re-send is handed the
job from the memo, without a claim. So the invariant says of every memo that a slot
may still ask for: the job it names is locked for that worker, under a claim no slot
runs, and no second memo hands out the same one (`NextOK`, `Differ`). It is kept
because a memo lives no longer than the lock set with it, because a sweep or another
claim needs that lock to be gone, and because a new claim is always later than the
claims of every slot and memo (`SlotOK`, `MemoOK`).

Both theorems assume `NoReuse`: no id is added again after its removal (`Lives <= 1`).
This is true of the ids the queue makes up. For custom ids that come back it is needed,
see scripts.py:256 below "Seen while modelling". The other theorems do not assume it.

### Schedules

`ToroScheduler_proofs` proves `SchedulerTypes`, `RemovalIsFinal` (`RemovedStaysSilent`)
and `UpdatesSpareRuns` (`UpdateSparesRuns`). `SchedulerInv` says what a call holds at each
of its round trips, and `WatchOK`: as long as nothing has written the watched hash, the
occurrence has not started. Every step that starts one writes its hash (`StepsWrite`), which is
why EXEC cannot take it away. For `TypeOK` a slot that is computed must lie on the
time line: an occurrence that is due has its successors below `Horizon` (`Fits`), since
`next_run` is monotone in the time it is computed from (`SlotsGrow`).

### `result()`

`ToroResult_proofs` proves `ResultTypes`, `EveryAnswerIsReal` (`AnswerIsReal`),
`NoFinishMissed` (`NothingMissed`) and `CloseLeavesNothing` (`ClosedIsQuiet`) from
`ResultInv`: who holds the lock while a listener starts or `close()` is at work
(`LockOK`), that nobody waits without a listener as long as nothing failed
(`ListenerOK`), that a waiter is registered before it reads (`Registered`, `Unread`), and
that every copy of an outcome, in a hash, a read, an event or a future, is one the job
has had (`CopiesReal`).

### Adds

`ToroEnqueue_proofs` proves `EnqueueTypes`, `MadeOnce` (`OncePerCall`), `ReportsAreTrue`
(`SentIsTrue`) and `OneHand` (`InOneHand`) from `EnqueueInv`. A call that made its jobs
has a memo or has lapsed (`MemoOK`). What a flush has sent is answered, failed or
still on the connection (`AnswerOK`), so what is left when the replies are in is
right to report. And a call of the `PendingJobs` is in one place (`HandOK`), where
lists may not repeat it and what failed is no longer on the connection (`BatchOK`):
only then does putting back exactly what failed neither lose nor double a call. The
count of holders in `InOneHand` is derived from that (`CountHands`).

### Flows

`ToroFlows_proofs` proves `FlowTypes` (`TypeOK`), `FanInIsHonest` (`FanInHonest`),
`NothingOutOfReach` (`Reclaimable`), `ParentsWait` (`BarrierHolds`), `TrimsSpareFlows`
(`TrimSparesFlows`) and `FlowsAreCounted` (`FlowCountedOnce`), for every forest, every
retention and every tolerance of failures.

A finish walks up the tree, and the proofs need no induction over it: what a walk
reaches is a set, and `Above[j]` is the least set with the parent of j and the parents
of what it holds, so a fact closed under Parent holds of every ancestor (`AboveLeast`,
from which `OneRoot`, `NoCycle`, `AboveHasKids`). The one assumption about the forest
is `FlowsAreTrees`: the way up ends at a root.

All rest on `FlowInv`: `TypeOK` and `Good(db, added, {})`, which puts beside
`FanInHonest` and `Reclaimable` what they need to be kept: a parked parent has every
pending child in its barrier (`BarrierIn`), an index lists descendants of its root
only (`IndexIn`), and of a flow not added there is nothing (`FreshIn`). Between two
routines of a script the barrier may be wrong for the jobs that are being settled:
those are the X of `Good(d, A, X)`. `BarrierHolds` then says of a whole step what
`BarrierIn` says of a state.

What a trim may take rests on the places of the finished jobs, `PlacedIn`: in a whole
flow (none of the jobs above is gone) a finished job is above every bound while its
root runs and stands after its root once that has settled, and no root stands later
than now. The deletions are what could spoil it, and they cannot: a job without its
root is no longer whole. A trim takes the oldest of a set, so a job of another flow that
it takes is there without its root only if it lies in another set than the root
(`TrimGoesWith`); up to the trim a finish touches no flow but its own (`Inside`).

`FlowsAreCounted` assumes `RootsStay`: the roots of flows keep their record when they
end. One that is removed at once is counted as well, in a step that leaves no state
behind to compare the counter with.

### Wake-ups and claim order

`ToroWakeup_proofs` proves `WakeupTypes` (`TypeOK`), `NoWakeIsLost` (`NoLostWake`),
`StartsUnderTheCap` (`StartsWithinCap`) and `ClaimsAreInOrder` (`ClaimInOrder`) from
`IInv`. `Sound` is about the database: the jobs with a score stand in one line, a score
is that of a number the sequence has given out since it was last restarted, in the
order of the line (`Numbered`), and a key has one owner. `NoneForgotten` is
`NoLostWake` made inductive. Two things must be added to it. A slot that
read "up" before its worker was stopped may still claim (`Straggler`), and that claim
promotes due jobs and wakes nobody if it finds one to start: a due job counts as
waiting while there is such a slot. And who will look is narrowed to `Wakeful`, where a
slot about to claim counts only while its worker is up.

`Batch` (PROMOTE_BATCH, 1000 in scripts.py:45) is assumed to be at least 2, because at 1
`NoLostWake` is false: a claim that got its job leaves the jobs still due without a
marker, and the last claim of a stopping worker then promotes one of them, meets the
rate limit and wakes nobody. A batch of two or more leaves nothing due, or a job that
waits, for which the claim arms the marker again.

`ClaimsAreInOrder` assumes that the sequence `pc` stays below `SeqWrap` (2^32 in the
code). It restarts whenever the queue runs empty, and in the run's instance the
condition always holds. Beyond it a job can pass another of its priority.

The line of blocked clients and the line of scored jobs are relations ("has waited
longer than"), not sequences, so that a step that takes one out or puts several in is
stated for each pair.

The inductive invariants (`IInv` of `ToroRedis_proofs` and of `ToroWakeup_proofs`,
`Solvent`, `ClaimInv`, `SchedulerInv`, `ResultInv`, `EnqueueInv`, `FlowInv`) were
model-checked on the instances of the runs.

### Only model-checked

Liveness: `EventuallySettled`, `CancelTakesEffect`, `ScheduleGoesOn`, `FlowSettles`,
`EveryJobIsTaken`, `EveryWaitEnds`. Fairness and ENABLED are beyond the prover.

## Plan

The modules of the plan are written, and every safety property of a passing run is
proved for every value of the constants, four of them under a condition stated above
(`NoReuse` for `OneRunPerClaim` and `OneCommitter`, `RootsStay` for `FlowCountedOnce`,
a sequence below `SeqWrap` for `ClaimInOrder`). What is left is liveness, which stays
with TLC.

## Not modelled

Documentation site, benchmarks and examples; metrics (the two flow counters apart),
listings and other reads, which change nothing; progress and log lines, which no
transition reads; validation and encoding of options; construction of connections;
the presence heartbeat, which only listings read; cron cadences (croniter computes
their slots; a cron schedule differs from an `every` one only there);
`trigger_scheduler`, an ordinary add; a changed rate in `set_limits` (a changed cap is
modelled, with the same wake); the wake of `resume` or `set_limits` failing, which the
operator is told by an error; the number of records one trim may reach; which of a
timeout, a cancel request and a shutdown that fall into one turn of the event loop
`_outcome` reports.

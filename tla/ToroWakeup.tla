------------------------------ MODULE ToroWakeup ------------------------------
(***************************************************************************)
(* How a waiting job is ordered and how an idle worker comes to claim it:   *)
(* the score of `prioritized`, the marker that wakes one blocked slot, the  *)
(* due time a claim answers with, the pause, the global concurrency cap and *)
(* the rate limit, and the process loop around them, with workers that stop,*)
(* are cut off, crash and start again.                                      *)
(*                                                                          *)
(* Time is kept as what is left of every wait, so the clock has no bound.   *)
(* A round trip takes no time next to a tick: time passes only when every   *)
(* slot is asleep or runs a processor.                                      *)
(***************************************************************************)
EXTENDS Integers, FiniteSets

CONSTANTS
    Jobs, Slots, Workers,
    WorkerOf,        \* the worker of each slot
    None,            \* nil
    Prio,            \* the priority of each job
    Key,             \* the concurrency key of each job, or None
    Delays,          \* the delays and backoffs a job may be given
    Offset,          \* PRIORITY_OFFSET: no priority is above it
    SeqWrap,          \* SEQ_MOD: where the sequence wraps
    Batch,           \* PROMOTE_BATCH
    BlockTimeout,    \* block_timeout, in ticks
    RlMax,           \* job starts allowed in RlDuration ticks, 0 for no limit
    RlDuration,
    Caps,            \* the caps set_limits may set, 0 for none
    Ops,             \* what operators and the environment do in this instance
    MaxOps           \* bound: how often they do it

AllOps == {"retry", "resend", "cancel", "remove", "promote", "pause", "limits",
           "stop", "cut", "crash", "start", "stall", "lose"}

ASSUME WakeupAssumption ==
    /\ IsFiniteSet(Jobs)
    /\ WorkerOf \in [Slots -> Workers]
    /\ None \notin Jobs \cup Slots \cup Workers \cup Nat
    /\ Prio \in [Jobs -> 0..Offset]
    /\ DOMAIN Key = Jobs
    /\ Delays \subseteq Nat /\ Caps \subseteq Nat
    /\ Offset \in Nat /\ SeqWrap \in Nat \ {0} /\ Batch \in Nat \ {0, 1}
    /\ BlockTimeout \in Nat \ {0} /\ MaxOps \in Nat
    /\ RlMax \in Nat /\ RlDuration \in Nat \ {0}
    /\ Ops \subseteq AllOps

VARIABLES
    db,       \* the keys of the queue
    queued,   \* of any two slots blocked in BZPOPMIN, which has waited longer
    slots,    \* where each process loop is
    workers,  \* up, stopping (the flag is down), draining (its wake is sent), off
    dueMs,    \* _due_ms of each worker: what is left until then
    arming,   \* an operator's resume or set_limits still has its wake to send
    ops,      \* how often operators and the environment have acted
    faults    \* whether a process has died or been cut off, or a connection failed

vars == <<db, queued, slots, workers, dueMs, arming, ops, faults>>

Keys == {Key[j] : j \in Jobs} \ {None}

\* `line`, no state of the code: of any two jobs in `prioritized` or `held`, which
\* was given its score first.
Dbs == [job: [Jobs -> [state: {"new", "held", "delayed", "wait", "active", "gone"},
                       score: Nat, due: Nat, by: Slots \cup {None}]],
        pc: Nat, work: BOOLEAN, wakeAt: Nat \cup {None}, paused: BOOLEAN, cap: Nat,
        tokens: 0..(RlMax * RlDuration), holder: [Keys -> Jobs \cup {None}],
        line: SUBSET (Jobs \X Jobs)]

\* `left`: what is left of the block or of the wait for a token.
SlotStates == [at: {"claim", "limited", "ready", "block", "popped", "run", "finish", "gone"},
               job: Jobs \cup {None}, left: Nat, fetch: BOOLEAN]

Blocked == {s \in Slots : slots[s].at = "block"}

\* The variables stay in their ranges; whatever a claim spends, a token is never
\* overdrawn, and the blocked slots stand in one line.
TypeOK ==
    /\ db \in Dbs
    /\ slots \in [Slots -> SlotStates]
    /\ queued \subseteq Blocked \X Blocked
    /\ \A s, t \in Blocked : s # t => (<<s, t>> \in queued <=> <<t, s>> \notin queued)
    /\ workers \in [Workers -> {"up", "stopping", "draining", "off"}]
    /\ dueMs \in [Workers -> Nat \cup {None}]
    /\ arming \in BOOLEAN /\ ops \in 0..MaxOps /\ faults \in BOOLEAN

In(d, state) == {j \in Jobs : d.job[j].state = state}

At(where) == [at |-> where, job |-> None, left |-> 0, fetch |-> FALSE]

Init ==
    /\ \E c \in Caps :
         db = [job |-> [j \in Jobs |-> [state |-> "new", score |-> 0, due |-> 0, by |-> None]],
               pc |-> 0, work |-> FALSE, wakeAt |-> None, paused |-> FALSE, cap |-> c,
               tokens |-> RlMax * RlDuration, holder |-> [k \in Keys |-> None], line |-> {}]
    /\ queued = {}
    /\ slots = [s \in Slots |-> At("claim")]
    /\ workers = [w \in Workers |-> "up"]
    /\ dueMs = [w \in Workers |-> None]
    /\ arming = FALSE /\ ops = 0 /\ faults = FALSE
-------------------------------------------------------------------------------
(* The scripts.                                                             *)

Left(d, j, state) == [d EXCEPT !.job[j] = [state |-> state, score |-> 0, due |-> 0, by |-> None],
                               !.line = {p \in @ : j \notin {p[1], p[2]}}]

PriorityScore(j, n) == (Offset - Prio[j]) * SeqWrap + (n % SeqWrap)

\* The orders of a set of jobs: the place of each.
Orders(J) == {rank \in [J -> 1..Cardinality(J)] : \A i, j \in J : rank[i] = rank[j] => i = j}
Alone(j)  == [i \in {j} |-> 1]

\* The jobs that `rank` orders join those that wait for a worker or for their key.
Scored(d, rank, state, due) ==
    LET new  == DOMAIN rank
        here == In(d, "wait") \cup In(d, "held")
    IN  [d EXCEPT
          !.pc = @ + Cardinality(new),
          !.job = [j \in Jobs |->
                     IF j \in new
                     THEN [state |-> state, score |-> PriorityScore(j, d.pc + rank[j]),
                           due |-> due, by |-> None]
                     ELSE @[j]],
          !.line = {p \in Jobs \X Jobs :
                      \/ p \in @ /\ p[1] \notin new /\ p[2] \notin new
                      \/ p[1] \in here \ new /\ p[2] \in new
                      \/ p[1] \in new /\ p[2] \in new /\ rank[p[1]] < rank[p[2]]}]

EnqueueAll(d, rank) == [Scored(d, rank, "wait", 0) EXCEPT !.work = @ \/ DOMAIN rank # {}]

Enqueue(d, j) == EnqueueAll(d, Alone(j))

WakeAt(d, due) ==
    [d EXCEPT !.wakeAt = IF @ = None \/ due < @ THEN due ELSE @]

Delayed(d, j, due) == WakeAt([Left(d, j, "delayed") EXCEPT !.job[j].due = due], due)

Park(d, j, delay) == IF delay > 0 THEN Delayed(d, j, delay) ELSE Enqueue(d, j)

AddJob(d, j, delay) ==
    LET k == Key[j] IN
    IF k = None THEN Park(d, j, delay)
    ELSE IF d.holder[k] = None THEN Park([d EXCEPT !.holder[k] = j], j, delay)
    ELSE Scored(d, Alone(j), "held", delay)

First(d, J) == CHOOSE j \in J : \A i \in J : d.job[j].score <= d.job[i].score

\* The key goes to the held job with the lowest score, which keeps that score.
ReleaseKey(d, j) ==
    LET k     == Key[j]
        heirs == {i \in In(d, "held") : Key[i] = k}
        heir  == First(d, heirs)
    IN  IF k = None \/ d.holder[k] # j THEN d
        ELSE IF heirs = {} THEN [d EXCEPT !.holder[k] = None]
        ELSE IF d.job[heir].due > 0
             THEN Delayed([d EXCEPT !.holder[k] = heir], heir, d.job[heir].due)
        ELSE [d EXCEPT !.holder[k] = heir, !.job[heir].state = "wait", !.work = TRUE]

Settle(d, j) == ReleaseKey(Left(d, j, "gone"), j)

Due(d) == {j \in In(d, "delayed") : d.job[j].due = 0}

\* Which due jobs a promotion takes, and in which order: what is left of a due
\* time that has passed is 0, so every order of those is allowed.
Promotions(d) ==
    LET n == Cardinality(Due(d))
    IN  UNION {Orders(J) : J \in {K \in SUBSET Due(d) :
                                    Cardinality(K) = IF n < Batch THEN n ELSE Batch}}

\* Promoted jobs arm no marker: the claim at hand looks at them, or the caller wakes.
PromoteDue(d, due) == Scored(d, due, "wait", 0)

\* Mutant of Capped: one job too many.
CappedLate(d) == d.cap > 0 /\ Cardinality(In(d, "active")) > d.cap

Capped(d) == d.cap > 0 /\ Cardinality(In(d, "active")) >= d.cap

\* Mutant of Limited: most of a token is enough.
LimitedLate(d) == RlMax > 0 /\ d.tokens + 1 < RlDuration

Limited(d) == RlMax > 0 /\ d.tokens < RlDuration

\* tryRateLimit's answer: the ticks until a token is whole again.
RetryAfter(d) == (RlDuration - d.tokens + RlMax - 1) \div RlMax

\* Mutant of ResetSequence: the jobs held on a key are forgotten.
ResetSequenceAlways(d) == [d EXCEPT !.pc = 0]

ResetSequence(d) == IF In(d, "held") = {} THEN [d EXCEPT !.pc = 0] ELSE d

\* The job in hand; the marker is armed again while jobs wait and a slot is free.
Claimed(d, j, s) ==
    LET e == [Left(d, j, "active") EXCEPT
                !.job[j].by = s, !.tokens = IF RlMax > 0 THEN @ - RlDuration ELSE @]
    IN  [e EXCEPT !.work = @ \/ (In(e, "wait") # {} /\ ~Capped(e))]

Found(d, kind, j, ms) == [db |-> d, kind |-> kind, job |-> j, ms |-> ms]

\* acquireNext past promoteDue: what the claim of slot s answers.
Pick(d, s) ==
    LET waiting == In(d, "wait")
        parked  == In(d, "delayed")
        head    == CHOOSE t \in {d.job[j].due : j \in parked} :
                       \A j \in parked : t <= d.job[j].due
    IN  CASE d.paused \/ Capped(d) -> Found(d, "none", None, 0)
          [] OTHER ->
             IF waiting = {}
             THEN IF parked = {} THEN Found(ResetSequence(d), "none", None, 0)
                  ELSE Found(ResetSequence(d), "due", None, head)
             ELSE IF Limited(d) THEN Found(d, "limited", None, RetryAfter(d))
             ELSE LET j == First(d, waiting) IN Found(Claimed(d, j, s), "job", j, 0)

AcquireNext(d, due, s) == Pick(PromoteDue(d, due), s)

WakeIfWaiting(d) == [d EXCEPT !.work = @ \/ In(d, "wait") # {}]

\* finishAnswer for a finish that fetches: a rate limit wakes a worker instead.
Fetched(d, due, s) ==
    LET a == AcquireNext(d, due, s) IN
    IF a.kind = "limited" THEN Found([a.db EXCEPT !.work = TRUE], "none", None, 0) ELSE a

\* ... and for one that does not.
Unfetched(d, due) == Found(WakeIfWaiting(PromoteDue(d, due)), "none", None, 0)
-------------------------------------------------------------------------------
(* The process loop.                                                        *)

Running(s) == workers[WorkerOf[s]] = "up"

MinBlock == 1

\* block_for, with the waits in whole ticks.
BlockFor(due) ==
    LET cut == IF due < MinBlock THEN MinBlock ELSE due IN
    IF due = None \/ BlockTimeout < cut THEN BlockTimeout ELSE cut

\* What a claim's answer makes of the slot, and of its worker's due time.
After(a) ==
    CASE a.kind = "job"     -> [At("run") EXCEPT !.job = a.job]
      [] a.kind = "limited" -> [At("limited") EXCEPT !.left = IF a.ms < BlockTimeout THEN a.ms
                                                             ELSE BlockTimeout]
      [] OTHER              -> At("ready")

Loaded(s, a) ==
    /\ db' = a.db
    /\ slots' = [slots EXCEPT ![s] = After(a)]
    /\ dueMs' = IF a.kind = "limited" THEN dueMs
                ELSE [dueMs EXCEPT ![WorkerOf[s]] = IF a.kind = "due" THEN a.ms ELSE None]

Go(s, where) == slots' = [slots EXCEPT ![s] = At(where)]

\* _acquire.
Claim(s) ==
    /\ slots[s].at = "claim"
    /\ \E due \in Promotions(db) : Loaded(s, AcquireNext(db, due, s))
    /\ UNCHANGED <<queued, workers, arming, ops, faults>>

\* _on_rate_limited, once it has slept.
LimitedEnds(s) ==
    /\ slots[s].at = "limited" /\ slots[s].left = 0
    /\ db' = [db EXCEPT !.work = @ \/ Running(s)]
    /\ Go(s, "ready")
    /\ UNCHANGED <<queued, workers, dueMs, arming, ops, faults>>

\* Nothing in hand: block, unless the worker is stopping.
Block(s) ==
    /\ slots[s].at = "ready"
    /\ IF Running(s)
       THEN /\ slots' = [slots EXCEPT ![s] = [At("block") EXCEPT
                                                !.left = BlockFor(dueMs[WorkerOf[s]])]]
            /\ queued' = queued \cup (Blocked \X {s})
       ELSE Go(s, "gone") /\ UNCHANGED queued
    /\ UNCHANGED <<db, workers, dueMs, arming, ops, faults>>

Leave(S) == queued' = {p \in queued : p[1] \notin S /\ p[2] \notin S}

\* BZPOPMIN: the longest waiting client gets the member with the lowest score.
Turn(s) ==
    /\ slots[s].at = "block" /\ \A t \in Blocked : <<t, s>> \notin queued
    /\ db.work \/ db.wakeAt # None

Popped(d) == IF d.work THEN [d EXCEPT !.work = FALSE] ELSE [d EXCEPT !.wakeAt = None]

Pop(s) ==
    /\ Turn(s)
    /\ db' = Popped(db)
    /\ Leave({s})
    /\ Go(s, "popped")
    /\ UNCHANGED <<workers, dueMs, arming, ops, faults>>

\* Mutant of Woken: a stopping worker keeps the wake it popped.
WokenSwallows(s) ==
    /\ slots[s].at = "popped"
    /\ Go(s, IF Running(s) THEN "claim" ELSE "gone")
    /\ UNCHANGED <<db, queued, workers, dueMs, arming, ops, faults>>

\* The pop's reply: claim again, or hand the wake on and leave.
Woken(s) ==
    /\ slots[s].at = "popped"
    /\ Go(s, IF Running(s) THEN "claim" ELSE "gone")
    /\ db' = [db EXCEPT !.work = @ \/ ~Running(s)]
    /\ UNCHANGED <<queued, workers, dueMs, arming, ops, faults>>

\* Mutant of Timeout: without a wake there is nothing to claim, so block again.
TimeoutIdles(s) ==
    /\ slots[s].at = "block" /\ slots[s].left = 0
    /\ Leave({s})
    /\ Go(s, "ready")
    /\ UNCHANGED <<db, workers, dueMs, arming, ops, faults>>

\* The pop runs out.
Timeout(s) ==
    /\ slots[s].at = "block" /\ slots[s].left = 0
    /\ Leave({s})
    /\ Go(s, IF Running(s) THEN "claim" ELSE "gone")
    /\ UNCHANGED <<db, workers, dueMs, arming, ops, faults>>

\* The processor has ended: the finish is sent, and asks for a job unless the
\* worker is stopping or the finish is a re-send.
EndProcessor(s) ==
    /\ slots[s].at = "run"
    /\ \E f \in IF Running(s) /\ "resend" \in Ops THEN BOOLEAN ELSE {Running(s)} :
         slots' = [slots EXCEPT ![s].at = "finish", ![s].fetch = f]
    /\ UNCHANGED <<db, queued, workers, dueMs, arming, ops, faults>>

Holds(s) == slots[s].at = "finish" /\ db.job[slots[s].job].by = s

Commit(s, d) ==
    /\ \E due \in Promotions(d) :
         Loaded(s, IF slots[s].fetch THEN Fetched(d, due, s) ELSE Unfetched(d, due))
    /\ UNCHANGED <<queued, workers, arming, faults>>

\* MOVE_TO_COMPLETED, or MOVE_TO_FAILED with no attempt left.
Finish(s) ==
    /\ Holds(s)
    /\ Commit(s, Settle(db, slots[s].job))
    /\ UNCHANGED ops

Act(op) == op \in Ops /\ ops < MaxOps /\ ops' = ops + 1

\* MOVE_TO_FAILED with an attempt left: back in the queue, or delayed.
FinishRetries(s) ==
    /\ Act("retry") /\ Holds(s)
    /\ \E backoff \in Delays :
         LET j == slots[s].job IN Commit(s, Park(Left(db, j, "gone"), j, backoff))

\* MOVE_TO_CANCELLED fetches nothing, and leaves the due time as it was.
FinishCancelled(s) ==
    /\ Act("cancel") /\ Holds(s)
    /\ LET d == Settle(db, slots[s].job) IN
       \E due \in Promotions(d) : db' = Unfetched(d, due).db
    /\ Go(s, "ready")
    /\ UNCHANGED <<queued, workers, dueMs, arming, faults>>

\* _finish_lost: the job was removed, or recovered by the sweep.
FinishLost(s) ==
    /\ slots[s].at = "finish" /\ ~Holds(s)
    /\ db' = [db EXCEPT !.work = TRUE]
    /\ Go(s, "ready")
    /\ UNCHANGED <<queued, workers, dueMs, arming, ops, faults>>

\* What goes wrong on the connection of a process that lives, once.
Fails == "lose" \in Ops /\ ~faults /\ faults' = TRUE

\* The member is popped and the reply lost: the client sends the block again, with
\* its whole timeout, or gives up and the loop's guard catches the error.
PopLost(s) ==
    /\ Fails /\ Turn(s)
    /\ db' = Popped(db)
    /\ \/ /\ \E n \in MinBlock..BlockTimeout :
                slots' = [slots EXCEPT ![s] = [At("block") EXCEPT !.left = n]]
          /\ queued' = {p \in queued : p[1] # s} \cup ((Blocked \ {s}) \X {s})
       \/ Leave({s}) /\ Go(s, IF Running(s) THEN "claim" ELSE "gone")
    /\ UNCHANGED <<workers, dueMs, arming, ops>>

\* A slot fails to arm the marker: after a rate limit the error is suppressed, after
\* a lost finish and in a stopping worker the guards around the loop catch it.
ArmingLost(s) ==
    /\ Fails
    /\ \/ slots[s].at = "limited" /\ slots[s].left = 0 /\ Running(s) /\ Go(s, "ready")
       \/ slots[s].at = "finish" /\ ~Holds(s) /\ Go(s, "ready")
       \/ slots[s].at = "popped" /\ ~Running(s) /\ Go(s, "gone")
    /\ UNCHANGED <<db, queued, workers, dueMs, arming, ops>>

-------------------------------------------------------------------------------
(* Producers, operators, the sweep, shutdown and crashes.                   *)

Write(d) == db' = d /\ UNCHANGED <<queued, slots, workers, dueMs, faults>>

Add(j) ==
    /\ db.job[j].state = "new"
    /\ \E delay \in Delays : Write(AddJob(db, j, delay))
    /\ UNCHANGED <<arming, ops>>

\* A held job leaves its queue; a holder hands the key on.
RemoveJob(j) ==
    /\ Act("remove")
    /\ db.job[j].state \in {"held", "delayed", "wait", "active"}
    /\ Write(Settle(db, j))
    /\ UNCHANGED arming

PromoteJob(j) ==
    /\ Act("promote") /\ db.job[j].state = "delayed"
    /\ Write(Enqueue(db, j))
    /\ UNCHANGED arming

Pause ==
    /\ Act("pause") /\ ~db.paused
    /\ Write([db EXCEPT !.paused = TRUE])
    /\ UNCHANGED arming

\* resume and set_limits change the key first and wake in a second round trip.
Resume ==
    /\ db.paused /\ ~arming
    /\ Write([db EXCEPT !.paused = FALSE])
    /\ arming' = TRUE /\ UNCHANGED ops

SetLimits ==
    /\ Act("limits") /\ ~arming
    /\ \E c \in Caps \ {db.cap} : Write([db EXCEPT !.cap = c])
    /\ arming' = TRUE

Arm ==
    /\ arming /\ Write([db EXCEPT !.work = TRUE])
    /\ arming' = FALSE /\ UNCHANGED ops

\* A job whose slot is gone, or whose lease has run out under it.
Stalled(j) ==
    /\ db.job[j].state = "active"
    /\ slots[db.job[j].by].at = "gone" \/ slots[db.job[j].by].job # j
    /\ \E w \in Workers : workers[w] = "up"

SweepRecovers(j) ==
    /\ Stalled(j) /\ Write(Enqueue(db, j))
    /\ UNCHANGED <<arming, ops>>

\* Past max_stalled_count.
SweepFails(j) ==
    /\ Stalled(j) /\ Write(WakeIfWaiting(Settle(db, j)))
    /\ UNCHANGED <<arming, ops>>

\* The lease of a live run runs out and the sweep re-queues its job.
SweepTakesOver(j) ==
    /\ Act("stall") /\ db.job[j].state = "active"
    /\ Write(Enqueue(db, j))
    /\ UNCHANGED arming

SlotsOf(w) == {s \in Slots : WorkerOf[s] = w}

Stop(w) ==
    /\ Act("stop") /\ workers[w] = "up"
    /\ workers' = [workers EXCEPT ![w] = "stopping"]
    /\ UNCHANGED <<db, queued, slots, dueMs, arming, faults>>

StopWakes(w) ==
    /\ workers[w] = "stopping"
    /\ workers' = [workers EXCEPT ![w] = "draining"]
    /\ db' = [db EXCEPT !.work = TRUE]
    /\ UNCHANGED <<queued, slots, dueMs, arming, ops, faults>>

\* The wake of stop() is not sent, and the error suppressed.
StopWakeLost(w) ==
    /\ Fails
    /\ workers[w] = "stopping"
    /\ workers' = [workers EXCEPT ![w] = "draining"]
    /\ UNCHANGED <<db, queued, slots, dueMs, arming, ops>>

Ends(w) ==
    /\ workers' = [workers EXCEPT ![w] = "off"]
    /\ slots' = [s \in Slots |-> IF s \in SlotsOf(w) THEN At("gone") ELSE slots[s]]
    /\ Leave(SlotsOf(w))
    /\ UNCHANGED <<dueMs, arming>>

\* Every slot has left within the grace period.
Drained(w) ==
    /\ workers[w] = "draining" /\ \A s \in SlotsOf(w) : slots[s].at = "gone"
    /\ Ends(w)
    /\ UNCHANGED <<db, ops, faults>>

\* The grace period is over: runs are handed back, in any order, and the rest dropped.
CutOff(w) ==
    /\ "cut" \in Ops /\ workers[w] = "draining"
    /\ LET held == {slots[s].job : s \in {r \in SlotsOf(w) :
                        slots[r].at = "run" /\ db.job[slots[r].job].by = r}}
       IN  \E order \in Orders(held) : db' = EnqueueAll(db, order)
    /\ Ends(w)
    /\ faults' = TRUE /\ UNCHANGED ops

Crash(w) ==
    /\ Act("crash") /\ workers[w] # "off"
    /\ Ends(w)
    /\ faults' = TRUE /\ UNCHANGED db

Start(w) ==
    /\ "start" \in Ops /\ workers[w] = "off"
    /\ workers' = [workers EXCEPT ![w] = "up"]
    /\ slots' = [s \in Slots |-> IF s \in SlotsOf(w) THEN At("claim") ELSE slots[s]]
    /\ dueMs' = [dueMs EXCEPT ![w] = None]
    /\ UNCHANGED <<db, queued, arming, ops, faults>>

Less(t) == IF t = None \/ t = 0 THEN t ELSE t - 1

Asleep(s) ==
    \/ slots[s].at \in {"run", "gone"}
    \/ slots[s].at \in {"block", "limited"} /\ slots[s].left # 0

\* Nothing is left to do but wait.
Tick ==
    /\ \A s \in Slots : Asleep(s)
    /\ Blocked = {} \/ ~(db.work \/ db.wakeAt # None)
    /\ \A w \in Workers : workers[w] # "stopping"
    /\ slots' = [s \in Slots |-> [slots[s] EXCEPT !.left = Less(@)]]
    /\ dueMs' = [w \in Workers |-> Less(dueMs[w])]
    /\ db' = [db EXCEPT !.job = [j \in Jobs |-> [db.job[j] EXCEPT !.due = Less(@)]],
                        !.wakeAt = Less(@),
                        !.tokens = IF @ + RlMax < RlMax * RlDuration THEN @ + RlMax
                                   ELSE RlMax * RlDuration]
    /\ UNCHANGED <<queued, workers, arming, ops, faults>>

SlotStep(s) ==
    \/ Claim(s) \/ LimitedEnds(s) \/ Block(s) \/ Pop(s) \/ Woken(s) \/ Timeout(s)
    \/ EndProcessor(s) \/ Finish(s) \/ FinishRetries(s) \/ FinishCancelled(s) \/ FinishLost(s)
    \/ PopLost(s) \/ ArmingLost(s)

JobStep(j) ==
    \/ Add(j) \/ RemoveJob(j) \/ PromoteJob(j)
    \/ SweepRecovers(j) \/ SweepFails(j) \/ SweepTakesOver(j)

WorkerStep(w) ==
    \/ Stop(w) \/ StopWakes(w) \/ StopWakeLost(w) \/ Drained(w) \/ CutOff(w) \/ Crash(w)
    \/ Start(w)

Next ==
    \/ \E s \in Slots : SlotStep(s)
    \/ \E j \in Jobs : JobStep(j)
    \/ \E w \in Workers : WorkerStep(w)
    \/ Pause \/ Resume \/ SetLimits \/ Arm
    \/ Tick

Spec == Init /\ [][Next]_vars

\* Loops go on, processors end, the sweep comes round and time passes.
Fairness ==
    /\ \A s \in Slots :
         /\ WF_vars(Claim(s) \/ LimitedEnds(s) \/ Block(s) \/ Woken(s))
         /\ WF_vars(Pop(s) \/ Timeout(s))
         /\ WF_vars(EndProcessor(s)) /\ WF_vars(Finish(s)) /\ WF_vars(FinishLost(s))
    /\ \A j \in Jobs : WF_vars(SweepRecovers(j))
    /\ \A w \in Workers : WF_vars(StopWakes(w))
    /\ WF_vars(Tick)

FairSpec == Spec /\ Fairness
-------------------------------------------------------------------------------
Open(d) == ~d.paused /\ ~Capped(d)

\* A slot that will claim, arm the marker or hand the wake on without being woken.
Awake(s) ==
    \/ slots[s].at \in {"claim", "popped", "finish"}
    \/ slots[s].at = "limited" /\ Running(s)
    \/ slots[s].at = "run" /\ db.job[slots[s].job].by # s

\* While jobs wait and the queue lets one start, the marker is armed or somebody
\* who will look or arm it is awake: a slot mid-loop, a worker about to announce
\* its stop, an operator about to send the wake of resume or set_limits.  Only a
\* process that dies or is cut off, or a connection that fails, may take a wake with
\* it: EveryJobIsTaken says what becomes of the job then.
NoLostWake ==
    In(db, "wait") # {} /\ Open(db) /\ ~faults =>
        \/ db.work \/ arming
        \/ \E s \in Slots : Awake(s)
        \/ \E w \in Workers : workers[w] = "stopping"

Started(j) == db.job[j].state # "active" /\ db'.job[j].state = "active"

\* A claim starts the most urgent waiting job, and among equals the one that was
\* queued first, whether it waited for a worker or for its key: no restart of the
\* sequence, put-back or handed-over score lets a later job pass it.
ClaimInOrder == [][
    \A j, k \in Jobs :
        Started(j) /\ db'.job[k].state = "wait" =>
            /\ Prio[k] <= Prio[j]
            /\ Prio[k] = Prio[j] /\ db.job[k].state \in {"wait", "held"} =>
                 <<j, k>> \in db.line]_vars

\* No step raises the number of jobs in `active` above the cap in force, also
\* when set_limits has lowered it under the jobs that run.
StartsWithinCap == [][
    db'.cap > 0 /\ (\E j \in Jobs : Started(j)) =>
        Cardinality(In(db', "active")) <= db'.cap]_vars

Served == \E w \in Workers : workers[w] = "up"

\* Every job that waits, or is delayed, is taken in the end if the queue is not
\* paused and a worker is up, whatever wakes were lost with dead processes, replies
\* that did not arrive and wakes that were not sent.
EveryJobIsTaken ==
    \A j \in Jobs : db.job[j].state \in {"wait", "delayed"} ~>
        (db.job[j].state \notin {"wait", "delayed"} \/ db.paused \/ ~Served)
===============================================================================

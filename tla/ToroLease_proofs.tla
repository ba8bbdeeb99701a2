--------------------------- MODULE ToroLease_proofs ---------------------------
(***************************************************************************)
(* What a step of the queue does to one job, whatever the step was for,    *)
(* and what follows: the queue implements ToroLease, no job overspends its *)
(* attempts, a finished job stays finished and a cancellation sticks.      *)
(***************************************************************************)
EXTENDS ToroJobs_proofs

Waiting == {"wait", "delayed", "held"}

\* The ways a step may treat job i.
Submitted(i) == Add(i) /\ ~Exists(db, i) /\ db'.state[i] \in Waiting /\ Fields(db', db, i)

Claimed(i) ==
    /\ db.state[i] \in Waiting /\ db'.state[i] = "active" /\ db'.lock[i] \in Tokens
    /\ \E now \in Nows : db'.processedOn[i] = Stamp(db.processedOn[i], now)
    /\ db'.attemptsMade[i] = db.attemptsMade[i]
    /\ db'.stalledCounter[i] = db.stalledCounter[i] /\ db'.cancel[i] = db.cancel[i]

\* Active, under the lock of a run that is going on.
Leased(i) ==
    /\ db.state[i] = "active" /\ db.lock[i] # None
    /\ \E s \in Slots : slots[s].job = i /\ MayCommit(s)

Ran(i) == Leased(i) /\ \E kind \in Finished : Counted(db', db, i, kind)

RanAndClaimed(i) ==
    /\ Leased(i) /\ db'.state[i] = "active" /\ db'.lock[i] \in Tokens
    /\ \E now \in Nows : db'.processedOn[i] = Stamp(db.processedOn[i], now)
    /\ db'.attemptsMade[i] = db.attemptsMade[i] + 1 /\ db'.attemptsMade[i] < Attempts[i]
    /\ db'.stalledCounter[i] = db.stalledCounter[i]
    /\ db.cancel[i] => db'.cancel[i]

AskedToStop(i) == db.state[i] = "active" /\ Flagged(db', db, i)

Lapsed(i) ==
    /\ LockExpires(i) /\ db'.state[i] = db.state[i] /\ db'.lock[i] = None
    /\ db'.attemptsMade[i] = db.attemptsMade[i]
    /\ db'.stalledCounter[i] = db.stalledCounter[i]
    /\ db'.processedOn[i] = db.processedOn[i] /\ db'.cancel[i] = db.cancel[i]

Withdrawn(i) == db.state[i] \in Waiting /\ Ended(db', db, i, "cancelled")

Reopened(i) ==
    /\ Retry(i) /\ db.state[i] = "failed" /\ db'.state[i] \in Waiting
    /\ db'.stalledCounter[i] = 0 /\ db'.attemptsMade[i] = db.attemptsMade[i]
    /\ db'.processedOn[i] = db.processedOn[i] /\ db'.lock[i] = db.lock[i]

Returned(i) ==
    /\ Leased(i) /\ db'.state[i] = "wait" /\ db'.lock[i] = None
    /\ db'.attemptsMade[i] = db.attemptsMade[i]
    /\ db'.stalledCounter[i] = db.stalledCounter[i]
    /\ db'.processedOn[i] = db.processedOn[i] /\ db'.cancel[i] = db.cancel[i]

Recovered(i) == db.state[i] = "active" /\ db.lock[i] = None /\ Swept(db', db, i)

JobStep(i) ==
    \/ Bystander(db', db, i) \/ Gone(db', i) \/ Submitted(i) \/ Claimed(i) \/ Ran(i)
    \/ RanAndClaimed(i) \/ AskedToStop(i) \/ Lapsed(i) \/ Withdrawn(i) \/ Reopened(i)
    \/ Returned(i) \/ Recovered(i)

-----------------------------------------------------------------------------
(* Every action treats every job in one of these ways. *)

\* Producers and operators.
LEMMA OperatorSteps ==
  ASSUME IInv, NEW j \in Ids,
         Add(j) \/ Cancel(j) \/ Remove(j) \/ Retry(j) \/ Promote(j) \/ LockExpires(j),
         NEW i \in Ids
  PROVE  JobStep(i)
<1>0. Sound(db) /\ db \in Db
  BY DEF IInv, TypeOK
<1>h. \A q \in Ids, c \in Colls : q \in db.coll[c] <=> db.state[q] = c
  BY <1>0 DEF Sound, Good, HomeX
<1>1. CASE Add(j)
  <2>1. IF i = j THEN Submitted(i) ELSE Kept(db', db, i)
    BY <1>0, <1>1, AddJobEffect DEF Add, Submitted, Waiting
  <2> QED
    BY <2>1 DEF JobStep, Bystander
<1>2. CASE Cancel(j)
  <2>1. PICK x \in Choices(db, {j}, "cancelled") : db' = CancelJob(db, j, x)
    BY <1>2 DEF Cancel
  <2>2. CASE db.state[j] = "active"
    <3>1. IF i = j THEN Flagged(db', db, i) ELSE Kept(db', db, i)
      BY <1>0, <2>1, <2>2, CancelRunningEffect
    <3> QED
      BY <2>2, <3>1 DEF JobStep, AskedToStop, Bystander
  <2>3. CASE db.state[j] # "active"
    <3>1. IF i = j THEN Ended(db', db, i, "cancelled") ELSE Bystander(db', db, i)
      BY <1>0, <1>2, <2>1, <2>3, CancelWaitingEffect DEF Cancel
    <3>2. db.state[j] \in Waiting
      BY <1>0, <1>2, <2>3 DEF Cancel, Exists, Db, Colls, Live, Finished, Waiting
    <3> QED
      BY <3>1, <3>2 DEF JobStep, Withdrawn
  <2> QED
    BY <2>2, <2>3
<1>3. CASE Remove(j)
  <2>1. PICK x \in Choices(db, {j}, "failed") : db' = RemoveJob(db, j, x)
    BY <1>3 DEF Remove
  <2> QED
    BY <1>0, <1>3, <2>1, RemoveJobEffect DEF Remove, JobStep
<1>4. CASE Retry(j)
  <2>1. db.state[j] = "failed"
    BY <1>4, <1>h, Names DEF Retry, Finished
  <2>2. IF i = j THEN Reopened(i) ELSE Kept(db', db, i)
    BY <1>0, <1>4, <2>1, RetryJobEffect DEF Retry, Reopened, Waiting
  <2> QED
    BY <2>2 DEF JobStep, Bystander
<1>5. CASE Promote(j)
  <2>1. db.state[j] = "delayed"
    BY <1>5, <1>h, Names DEF Promote
  <2>2. Kept(db', db, i) \/ Advanced(db', db, i)
    BY <1>0, <1>5, <2>1, PromoteJobEffect DEF Promote, Advanced
  <2> QED
    BY <2>2 DEF JobStep, Bystander
<1>6. CASE LockExpires(j)
  <2>0. /\ i # j => Kept(db', db, i)
        /\ db'.state = db.state /\ db'.attemptsMade = db.attemptsMade
        /\ db'.stalledCounter = db.stalledCounter /\ db'.processedOn = db.processedOn
        /\ db'.cancel = db.cancel /\ db'.lock[j] = None
    BY <1>0, <1>6 DEF LockExpires, ExpireLock, Db, Kept, Fields
  <2>1. IF i = j THEN Lapsed(i) ELSE Kept(db', db, i)
    BY <1>6, <2>0 DEF Lapsed
  <2> QED
    BY <2>1 DEF JobStep, Bystander
<1> QED
  BY <1>1, <1>2, <1>3, <1>4, <1>5, <1>6

\* A claim claims what it answers with and advances what is due.
LEMMA ClaimStep ==
  ASSUME NEW d, Sound(d), NEW fetch, NEW c \in Claims(d, fetch), NEW w \in Tokens, NEW i \in Ids
  PROVE  LET r == AcquireNext(d, c.due, c.next, w, c.now)
         IN  IF i = c.next THEN Granted(r, d, i, w, c.now) ELSE Kept(r, d, i) \/ Advanced(r, d, i)
<1>1. /\ c.due \in SUBSET d.coll["delayed"] /\ c.next \in Ids \cup {None}
      /\ c.next # None => c.next \in Claimable(PromoteDue(d, c.due))
  BY DEF Claims
<1>2. c.next # None => c.next \in PromoteDue(d, c.due).coll["wait"]
  BY <1>1 DEF Claimable
<1> QED
  BY <1>1, <1>2, AcquireNextEffect

\* The claim a worker makes when it has nothing to do.
LEMMA AcquireSteps ==
  ASSUME IInv, NEW s \in Slots, Acquire(s), NEW i \in Ids
  PROVE  JobStep(i)
<1>0. Sound(db) /\ Owner[s] \in Tokens
  BY JobsAssumption DEF IInv
<1>1. PICK c \in Claims(db, TRUE) : db' = AcquireNext(db, c.due, c.next, Owner[s], c.now)
  BY DEF Acquire
<1>2. c.now \in Nows
  BY DEF Claims
<1>3. IF i = c.next THEN Granted(db', db, i, Owner[s], c.now)
      ELSE Kept(db', db, i) \/ Advanced(db', db, i)
  BY <1>0, <1>1, ClaimStep
<1> QED
  BY <1>0, <1>2, <1>3 DEF JobStep, Bystander, Granted, Claimed, Waiting

\* What a finish of slot s that commits and fetches job n does to job i: the run's
\* own job, which may be the one it fetches, that job, or a bystander of both.
FinishStep(s, n, i) ==
    /\ i = n => db'.lock[i] = Owner[s]
    /\ IF i = slots[s].job THEN IF i = n THEN RanAndClaimed(i) ELSE Gone(db', i) \/ Ran(i)
       ELSE IF i = n THEN Claimed(i) ELSE Bystander(db', db, i)

\* A finish that commits.
LEMMA FinishEffect ==
  ASSUME IInv, NEW s \in Slots, FinishCommits(s)
  PROVE  \E n \in Ids \cup {None} :
            /\ Answer(s, db', n)
            /\ db'.fin = db.fin \cup {[token |-> Owner[s], job |-> slots[s].job,
                                       claim |-> slots[s].claim, next |-> n]}
            /\ \A i \in Ids : FinishStep(s, n, i)
<1> DEFINE r == slots[s]  w == Owner[s]
<1>0. /\ Sound(db) /\ db \in Db /\ w \in Tokens /\ r.job \in Ids /\ r.kind \in Finished
      /\ r.job \in db.coll["active"] /\ RunHeld(db, w, r.job, r.claim)
  BY JobsAssumption DEF IInv, TypeOK, SlotShape, Busy, FinishCommits
<1>l. Leased(r.job)
  BY <1>0, Names, RedisAssumption DEF Leased, MayCommit, RunHeld, Sound, Good, HomeX
<1>1. PICK x \in Choices(db, {r.job}, r.kind) :
        \E c \in Claims(Commit(db, r.kind, r.job, x), r.fetch) :
          /\ db' = RememberFinish(AcquireNext(Commit(db, r.kind, r.job, x),
                                              c.due, c.next, w, c.now),
                                  w, r.job, r.claim, c.next)
          /\ Answer(s, db', c.next)
  BY DEF FinishCommits
<1> DEFINE p == Commit(db, r.kind, r.job, x)
<1>2. PICK c \in Claims(p, r.fetch) :
        /\ db' = RememberFinish(AcquireNext(p, c.due, c.next, w, c.now), w, r.job, r.claim, c.next)
        /\ Answer(s, db', c.next)
  BY <1>1
<1>3. Sound(p) /\ SameMemos(p, db)
  BY <1>0, CommitSound, CommitMemos
<1>4. ASSUME NEW i \in Ids
      PROVE  IF i = r.job THEN Gone(p, i) \/ Counted(p, db, i, r.kind) ELSE Bystander(p, db, i)
  BY <1>0, CommitEffect
<1> HIDE DEF p
<1> DEFINE q == AcquireNext(p, c.due, c.next, w, c.now)
<1>5. ASSUME NEW i \in Ids
      PROVE  IF i = c.next THEN Granted(q, p, i, w, c.now) ELSE Kept(q, p, i) \/ Advanced(q, p, i)
  BY <1>0, <1>3, ClaimStep
<1>6. q \in Db /\ c.now \in Nows /\ c.next \in Ids \cup {None} /\ q.fin = db.fin
  <2>0. p.coll["delayed"] \in SUBSET Ids
    BY <1>3, Names DEF SameMemos, Db
  <2>1. c.due \in SUBSET Ids /\ c.next \in Ids \cup {None} /\ c.now \in Nows /\ c.now \in Nat
    BY <2>0, JobsAssumption DEF Claims
  <2>2. SameMemos(q, p)
    BY <1>0, <1>3, <2>1, AcquireNextMemos DEF SameMemos
  <2> QED
    BY <1>3, <2>1, <2>2 DEF SameMemos
<1>7. db' = RememberFinish(q, w, r.job, r.claim, c.next)
  BY <1>2
<1> HIDE DEF q
<1>8. ASSUME NEW i \in Ids PROVE Kept(db', q, i)
  BY <1>6, <1>7 DEF RememberFinish, Db, Kept, Fields
<1>m. db'.fin = db.fin \cup {[token |-> w, job |-> r.job, claim |-> r.claim, next |-> c.next]}
  BY <1>6, <1>7 DEF RememberFinish, Db
<1>i. ASSUME NEW i \in Ids PROVE FinishStep(s, c.next, i)
  <2>1. i = c.next => db'.lock[i] = w
    BY <1>5, <1>8 DEF Granted, Kept, Fields
  <2>2. CASE i = r.job /\ i = c.next
    <3>1. Counted(p, db, i, r.kind) /\ p.state[i] \in {"wait", "delayed"}
      BY <1>4, <1>5, <2>2, Names DEF Gone, Granted
    <3>2. p.attemptsMade[i] < Attempts[i]
      BY <1>0, <3>1, Names DEF Counted, Finished
    <3>3. Granted(q, p, i, w, c.now) /\ Kept(db', q, i)
      BY <1>5, <1>8, <2>2
    <3>4. RanAndClaimed(i)
      BY <1>0, <1>6, <1>l, <2>2, <3>1, <3>2, <3>3
         DEF RanAndClaimed, Granted, Counted, Kept, Fields
    <3> QED
      BY <2>1, <2>2, <3>4 DEF FinishStep
  <2>3. CASE i = r.job /\ i # c.next
    <3>0. Kept(db', q, i) /\ (Kept(q, p, i) \/ Advanced(q, p, i))
      BY <1>5, <1>8, <2>3
    <3>1. CASE Gone(p, i)
      <4>1. Gone(db', i)
        BY <3>0, <3>1, Names DEF Gone, Kept, Fields, Advanced
      <4> QED
        BY <2>3, <4>1 DEF FinishStep
    <3>2. CASE Counted(p, db, i, r.kind)
      <4>1. Counted(db', db, i, r.kind)
        BY <1>0, <3>0, <3>2, Names DEF Counted, Kept, Fields, Advanced, Finished
      <4> QED
        BY <1>0, <1>l, <2>3, <4>1 DEF FinishStep, Ran
    <3> QED
      BY <1>4, <2>3, <3>1, <3>2
  <2>4. CASE i # r.job /\ i = c.next
    <3>1. Granted(q, p, i, w, c.now) /\ Kept(db', q, i) /\ Bystander(p, db, i)
      BY <1>4, <1>5, <1>8, <2>4
    <3>2. Kept(p, db, i) \/ Advanced(p, db, i)
      BY <3>1, Names DEF Bystander, Gone, Granted
    <3>3. Claimed(i)
      BY <1>0, <1>6, <3>1, <3>2 DEF Claimed, Granted, Kept, Fields, Advanced, Waiting
    <3> QED
      BY <2>1, <2>4, <3>3 DEF FinishStep
  <2>5. CASE i # r.job /\ i # c.next
    <3>1. Bystander(p, db, i) /\ Bystander(q, p, i) /\ Bystander(db', q, i)
      BY <1>4, <1>5, <1>8, <2>5 DEF Bystander
    <3>2. Bystander(db', db, i)
      BY <3>1, BystanderTrans
    <3> QED
      BY <2>5, <3>2 DEF FinishStep
  <2> QED
    BY <2>2, <2>3, <2>4, <2>5
<1> QED
  BY <1>2, <1>6, <1>m, <1>i

\* A finish that commits takes every job one of the steps.
LEMMA FinishSteps ==
  ASSUME IInv, NEW s \in Slots, FinishCommits(s), NEW i \in Ids
  PROVE  JobStep(i)
<1>1. PICK n \in Ids \cup {None} : FinishStep(s, n, i)
  BY FinishEffect
<1> QED
  BY <1>1 DEF FinishStep, JobStep

\* The other steps.
LEMMA ServiceSteps ==
  ASSUME IInv,
         \/ \E s \in Slots : \/ EndProcessor(s) \/ FinishRecalled(s) \/ FinishRefused(s)
                             \/ FinishUnsent(s) \/ Renew(s) \/ RenewUnheard(s) \/ CutOff(s)
         \/ \E p \in BOOLEAN : SetPaused(p)
         \/ \E m \in db.fin : MemoExpires(m)
         \/ Sweep
         \/ \E m \in mail : HearCancel(m) \/ LoseCancel(m)
         \/ \E w \in Tokens : Stop(w) \/ Restart(w) \/ Crash(w),
         NEW i \in Ids
  PROVE  JobStep(i)
<1>0. Sound(db) /\ db \in Db
  BY DEF IInv, TypeOK
<1>k. Kept(db', db, i) => JobStep(i)
  BY DEF JobStep, Bystander
<1>s. ASSUME db' = db PROVE JobStep(i)
  BY <1>k, <1>s DEF Kept, Fields
<1>1. ASSUME NEW s \in Slots, EndProcessor(s) \/ FinishRecalled(s) \/ FinishUnsent(s)
      PROVE  JobStep(i)
  BY <1>1, <1>s DEF EndProcessor, FinishRecalled, FinishUnsent
<1>2. ASSUME NEW s \in Slots, FinishRefused(s) PROVE JobStep(i)
  <2> DEFINE r == slots[s]  w == Owner[s]
  <2>1. r.job \in Ids /\ w \in Tokens /\ None \notin Tokens
    BY <1>2, JobsAssumption, RedisAssumption DEF FinishRefused, IInv, SlotShape, Busy
  <2>2. ~RunHeld(db, w, r.job, r.claim)
    <3>1. RunHeld(db, w, r.job, r.claim) => r.job \in db.coll["active"]
      BY <1>0, <2>1, Names DEF RunHeld, Sound, Good, LockOK, HomeX
    <3> QED
      BY <1>2, <3>1 DEF FinishRefused
  <2> QED
    BY <1>2, <1>s, <2>2 DEF FinishRefused, Refuse
<1>3. ASSUME NEW s \in Slots, Renew(s) \/ RenewUnheard(s) PROVE JobStep(i)
  <2>1. db' = ExtendLock(db, Owner[s], slots[s].job) \/ db' = db
    BY <1>3 DEF Renew, RenewUnheard
  <2>2. Kept(db', db, i)
    BY <1>0, <2>1 DEF ExtendLock, Kept, Fields, Db
  <2> QED
    BY <1>k, <2>2
<1>4. ASSUME NEW s \in Slots, CutOff(s) PROVE JobStep(i)
  <2>1. slots[s].job \in Ids /\ Owner[s] \in Tokens
    BY <1>4, JobsAssumption DEF CutOff, IInv, SlotShape, Busy
  <2>2. CASE db' = db
    BY <1>s, <2>2
  <2>3. CASE /\ RunHeld(db, Owner[s], slots[s].job, slots[s].claim)
             /\ slots[s].job \in db.coll["active"]
             /\ db' = ReleaseJob(db, slots[s].job)
    <3>1. Leased(slots[s].job)
      BY <1>0, <2>1, <2>3, Names, RedisAssumption DEF Leased, MayCommit, RunHeld, Sound, Good, HomeX
    <3>2. IF i = slots[s].job THEN Returned(i) ELSE Kept(db', db, i)
      BY <1>0, <2>1, <2>3, <3>1, ReleaseJobEffect DEF Returned
    <3> QED
      BY <1>k, <3>2 DEF JobStep
  <2> QED
    BY <1>4, <2>2, <2>3 DEF CutOff
<1>5. ASSUME NEW p \in BOOLEAN, SetPaused(p) PROVE JobStep(i)
  <2>1. Kept(db', db, i)
    BY <1>0, <1>5 DEF SetPaused, Kept, Fields, Db
  <2> QED
    BY <1>k, <2>1
<1>6. ASSUME NEW m \in db.fin, MemoExpires(m) PROVE JobStep(i)
  <2>1. Kept(db', db, i)
    BY <1>0, <1>6 DEF MemoExpires, Kept, Fields, Db
  <2> QED
    BY <1>k, <2>1
<1>7. CASE Sweep
  <2>1. PICK x \in Choices(db, Exhausted(db), "failed") : db' = MoveStalled(db, x)
    BY <1>7 DEF Sweep
  <2> QED
    BY <1>0, <2>1, MoveStalledEffect DEF JobStep, Recovered
<1>8. ASSUME NEW m \in mail, HearCancel(m) \/ LoseCancel(m) PROVE JobStep(i)
  BY <1>8, <1>s DEF HearCancel, LoseCancel
<1>9. ASSUME NEW w \in Tokens, Stop(w) \/ Restart(w) \/ Crash(w) PROVE JobStep(i)
  BY <1>9, <1>s DEF Stop, Restart, Crash
<1> QED
  BY <1>1, <1>2, <1>3, <1>4, <1>5, <1>6, <1>7, <1>8, <1>9

\* Every step.
LEMMA NextSteps ==
  ASSUME IInv, [Next]_vars, NEW i \in Ids
  PROVE  JobStep(i)
<1>1. CASE UNCHANGED vars
  BY <1>1 DEF vars, JobStep, Bystander, Kept, Fields
<1>2. CASE Next
  BY <1>2, OperatorSteps, AcquireSteps, FinishSteps, ServiceSteps DEF Next
<1> QED
  BY <1>1, <1>2

-----------------------------------------------------------------------------
(* The refinement. *)

\* A claim is numbered past the one before it: clocks read more than 0.
LEMMA StampGrows ==
  ASSUME NEW last \in Nat, NEW now \in Nows
  PROVE  Stamp(last, now) \in Nat /\ Stamp(last, now) > last
BY JobsAssumption DEF Stamp

\* Every step of a job is a step of ToroLease.
LEMMA LeaseStep ==
  ASSUME IInv, [Next]_vars, NEW i \in Ids
  PROVE  Lease!Step(i)
<1>0. /\ db \in Db /\ LockOK(db) /\ db.processedOn[i] \in Nat /\ db.attemptsMade[i] \in Nat
      /\ None \notin Tokens
  BY RedisAssumption DEF IInv, TypeOK, Sound, Good, Db
<1>1. Lease!Step(i) <=>
        LET from == Stage(i)  to == Stage(i)'
            last == db.processedOn[i]  next == db'.processedOn[i]
            runs == db.attemptsMade[i] counted == db'.attemptsMade[i]
            same == next = last /\ counted = runs
        IN  \/ to = from /\ same
            \/ from = "none" /\ to = "pending" /\ same
            \/ to = "none" /\ next = 0 /\ counted = 0
            \/ from = "pending" /\ to = "leased" /\ next > last /\ counted = runs
            \/ from = "leased" /\ to \in {"pending", "done"} /\ next = last /\ counted = runs + 1
            \/ from = "leased" /\ to = "leased" /\ next > last /\ counted = runs + 1
            \/ from = "leased" /\ to = "pending" /\ same
            \/ from = "leased" /\ to = "lapsed" /\ same
            \/ from = "lapsed" /\ to \in {"pending", "done"} /\ same
            \/ from = "pending" /\ to = "done" /\ same
            \/ from = "done" /\ to = "pending" /\ same
  BY DEF Lease!Step, Lease!Stays, Lease!Submit, Lease!Vanish, Lease!Grant, Lease!Commit,
         Lease!CommitAndGrant, Lease!Return, Lease!Lapse, Lease!Recover, Lease!Withdraw,
         Lease!Reopen, Lease!Moves, Lease!Same
<1>s. Stage(i)' = IF db'.state[i] = None THEN "none"
                  ELSE IF db'.state[i] \in Finished THEN "done"
                  ELSE IF db'.state[i] # "active" THEN "pending"
                  ELSE IF db'.lock[i] = None THEN "lapsed" ELSE "leased"
  BY DEF Stage, Exists
<1>n. /\ None \notin Waiting /\ None \notin Finished /\ None # "active"
      /\ \A c \in Waiting : c \notin Finished /\ c # "active"
      /\ "active" \notin Finished
  BY Names DEF Waiting, Colls, Live, Finished
<1>2. CASE Bystander(db', db, i)
  BY <1>1, <1>2, <1>s, <1>n DEF Bystander, Kept, Advanced, Gone, Fields, Stage, Exists, Waiting
<1>3. CASE Gone(db', i)
  BY <1>1, <1>3, <1>s DEF Gone
<1>4. CASE Submitted(i)
  BY <1>1, <1>4, <1>s, <1>n DEF Submitted, Fields, Stage, Exists
<1>5. CASE Claimed(i)
  BY <1>0, <1>1, <1>5, <1>s, <1>n, StampGrows DEF Claimed, Stage, Exists
<1>6. CASE Ran(i)
  BY <1>1, <1>6, <1>s, <1>n DEF Ran, Counted, Leased, Stage, Exists, Waiting
<1>7. CASE RanAndClaimed(i)
  BY <1>0, <1>1, <1>7, <1>s, <1>n, StampGrows DEF RanAndClaimed, Leased, Stage, Exists
<1>8. CASE AskedToStop(i)
  BY <1>1, <1>8, <1>s, <1>n DEF AskedToStop, Flagged, Stage, Exists
<1>13. CASE Lapsed(i)
  BY <1>0, <1>1, <1>13, <1>s, <1>n DEF Lapsed, LockExpires, LockOK, Stage, Exists
<1>9. CASE Withdrawn(i)
  BY <1>1, <1>9, <1>s, <1>n DEF Withdrawn, Ended, Gone, Stage, Exists, Finished
<1>10. CASE Reopened(i)
  BY <1>1, <1>10, <1>s, <1>n DEF Reopened, Stage, Exists, Finished
<1>11. CASE Returned(i)
  BY <1>1, <1>11, <1>s, <1>n DEF Returned, Leased, Stage, Exists, Waiting
<1>12. CASE Recovered(i)
  BY <1>1, <1>12, <1>s, <1>n DEF Recovered, Swept, Gone, Stage, Exists, Waiting, Finished
<1> QED
  BY <1>2, <1>3, <1>4, <1>5, <1>6, <1>7, <1>8, <1>9, <1>10, <1>11, <1>12, <1>13,
     NextSteps DEF JobStep

\* The scripts, slots, sweeps and operators implement ToroLease: whatever the
\* interleaving, a claim is numbered past every earlier one, a run counts when the
\* holder of the lock commits it and at no other time (lockAndLoad, releaseRun).
THEOREM QueueImplementsLease == Spec => ImplementsLease
<1>1. Init => Lease!Init
  BY DEF Init, EmptyDb, Lease!Init, Stage, Exists
<1>2. IInv /\ [Next]_vars => [Lease!Next]_(Lease!vars)
  BY LeaseStep DEF Lease!Next
<1> QED
  BY <1>1, <1>2, Invariant, PTL DEF Spec, ImplementsLease, Lease!Spec

-----------------------------------------------------------------------------
(* Attempts and stalls. *)

\* A job without a hash has spent nothing and is not cancelled.
Clean(i) ==
    ~Exists(db, i) =>
        db.attemptsMade[i] = 0 /\ db.stalledCounter[i] = 0 /\ db.cancel[i] = FALSE

\* BudgetLeft, of held jobs too: the next of a key is run with what it has left.
Budget(i) ==
    db.state[i] \in Live \cup {"held"} =>
        /\ db.stalledCounter[i] <= MaxStalled
        /\ "retry" \notin Ops => db.attemptsMade[i] < Attempts[i]

Solvent == \A i \in Ids : Clean(i) /\ Budget(i)

\* What the ways of a step leave of a job's budget.
LEMMA SolventStep ==
  ASSUME IInv, Solvent, [Next]_vars
  PROVE  Solvent'
<1> SUFFICES ASSUME NEW i \in Ids PROVE Clean(i)' /\ Budget(i)'
  BY DEF Solvent
<1>0. /\ db \in Db /\ MaxStalled \in Nat /\ Attempts[i] \in Nat \ {0}
      /\ Clean(i) /\ Budget(i)
  BY RedisAssumption DEF IInv, TypeOK, Solvent
<1>n. /\ None \notin Waiting /\ None \notin Finished /\ None # "active"
      /\ \A c \in Waiting : c \notin Finished /\ c # "active"
      /\ Live \cup {"held"} = Waiting \cup {"active"}
      /\ "active" \notin Finished
  BY Names DEF Waiting, Colls, Live, Finished
<1>p. /\ Clean(i)' <=> (db'.state[i] = None =>
              db'.attemptsMade[i] = 0 /\ db'.stalledCounter[i] = 0 /\ db'.cancel[i] = FALSE)
      /\ Budget(i)' <=> (db'.state[i] \in Live \cup {"held"} =>
              /\ db'.stalledCounter[i] <= MaxStalled
              /\ "retry" \notin Ops => db'.attemptsMade[i] < Attempts[i])
  BY DEF Clean, Budget, Exists
<1>2. CASE Bystander(db', db, i)
  BY <1>0, <1>2, <1>p, <1>n 
     DEF Bystander, Kept, Advanced, Gone, Fields, Clean, Budget, Exists, Waiting
<1>3. CASE Gone(db', i)
  BY <1>3, <1>p, <1>n DEF Gone
<1>4. CASE Submitted(i)
  BY <1>0, <1>4, <1>p, <1>n DEF Submitted, Fields, Clean, Exists
<1>5. CASE Claimed(i)
  BY <1>0, <1>5, <1>p, <1>n DEF Claimed, Budget
<1>6. CASE Ran(i)
  BY <1>0, <1>6, <1>p, <1>n DEF Ran, Counted, Leased, Budget, Waiting
<1>7. CASE RanAndClaimed(i)
  BY <1>0, <1>7, <1>p, <1>n DEF RanAndClaimed, Leased, Budget
<1>8. CASE AskedToStop(i)
  BY <1>0, <1>8, <1>p, <1>n DEF AskedToStop, Flagged, Budget, Clean, Exists
<1>13. CASE Lapsed(i)
  BY <1>0, <1>13, <1>p, <1>n DEF Lapsed, Budget, Clean, Exists
<1>9. CASE Withdrawn(i)
  BY <1>9, <1>p, <1>n DEF Withdrawn, Ended, Gone, Finished
<1>10. CASE Reopened(i)
  BY <1>0, <1>10, <1>p, <1>n DEF Reopened, Retry
<1>11. CASE Returned(i)
  BY <1>0, <1>11, <1>p, <1>n DEF Returned, Leased, Budget, Waiting
<1>12. CASE Recovered(i)
  BY <1>0, <1>12, <1>p, <1>n DEF Recovered, Swept, Gone, Budget, Waiting, Finished
<1> QED
  BY <1>2, <1>3, <1>4, <1>5, <1>6, <1>7, <1>8, <1>9, <1>10, <1>11, <1>12, <1>13,
     NextSteps DEF JobStep

\* The budgets hold throughout, with the invariant of the database.
LEMMA SolventAlways == Spec => [](IInv /\ Solvent)
<1>1. Init => Solvent
  <2> SUFFICES ASSUME Init, NEW i \in Ids PROVE Clean(i) /\ Budget(i)
    BY DEF Solvent
  <2>1. None \notin Live \cup {"held"}
    BY Names
  <2> QED
    BY <2>1 DEF Init, EmptyDb, Clean, Budget, Exists
<1>2. ASSUME Solvent, UNCHANGED vars PROVE Solvent'
  BY <1>2 DEF vars, Solvent, Clean, Budget, Exists
<1> QED
  BY <1>1, SolventStep, Invariant, PTL DEF Spec

\* No order of failures, stalls, releases, re-sent finishes and sweeps gives a job
\* more runs than its attempts or more stalls than max_stalled_count.
THEOREM BudgetKept == Spec => []BudgetLeft
<1>1. Solvent => BudgetLeft
  BY DEF Solvent, Budget, BudgetLeft
<1> QED
  BY <1>1, SolventAlways, PTL

-----------------------------------------------------------------------------
(* What a step never does. *)

\* A finished job stays as it ended until it is removed or retried by an operator:
\* no late finish, sweep or cancellation ends a job twice.
THEOREM NoSecondEnd == Spec => FinishedStays
<1>1. ASSUME IInv, [Next]_vars, NEW i \in Ids, db.state[i] \in Finished
      PROVE  db'.state[i] \in {db.state[i], None} \/ Retry(i)
  <2>n. /\ None \notin Finished /\ "active" \notin Finished
        /\ \A c \in Waiting : c \notin Finished
    BY Names DEF Waiting, Colls, Live, Finished
  <2>1. JobStep(i)
    BY <1>1, NextSteps
  <2> QED
    BY <1>1, <2>1, <2>n
       DEF JobStep, Bystander, Kept, Advanced, Gone, Submitted, Exists, Claimed, Ran, Leased,
           RanAndClaimed, AskedToStop, Flagged, Lapsed, Withdrawn, Reopened, Returned,
           Recovered, Waiting
<1>2. IInv /\ [Next]_vars =>
        [\A j \in Ids : db.state[j] \in Finished =>
            db'.state[j] \in {db.state[j], None} \/ Retry(j)]_vars
  BY <1>1
<1> QED
  BY <1>2, Invariant, PTL DEF Spec, FinishedStays

\* The ways a step may treat slot s: it goes on with its run, idles, or starts on a
\* job that is locked for its worker.
GoesOn(s) == slots'[s].job = slots[s].job /\ slots'[s].claim = slots[s].claim

Starts(s, n) == slots'[s] = NewRun(db', n) /\ db'.lock[n] = Owner[s]

Settles(s) == GoesOn(s) \/ slots'[s] = Idle

\* An answer that names job n, locked for the slot's worker, or none.
LEMMA AnswerSteps ==
  ASSUME IInv, NEW s \in Slots, NEW n \in Ids \cup {None}, Answer(s, db', n),
         n # None => db'.lock[n] = Owner[s], NEW t \in Slots
  PROVE  Settles(t) \/ (t = s /\ n # None /\ slots' = Load(s, db', n) /\ Starts(t, n))
<1>0. slots \in [Slots -> Runs]
  BY DEF IInv, TypeOK
<1>r. ASSUME NEW r \in Runs
      PROVE  /\ [r EXCEPT !.fetch = FALSE].job = r.job /\ [r EXCEPT !.fetch = FALSE].claim = r.claim
             /\ [r EXCEPT !.registered = FALSE].job = r.job
             /\ [r EXCEPT !.registered = FALSE].claim = r.claim
  BY DEF Runs
<1>1. CASE slots' = [slots EXCEPT ![s].fetch = FALSE]
  <2>1. GoesOn(t)
    BY <1>0, <1>1, <1>r DEF GoesOn
  <2> QED
    BY <2>1 DEF Settles
<1>2. CASE slots' = Load(s, db', n) /\ n = None
  <2>1. IF t = s THEN slots'[t] = Idle ELSE GoesOn(t)
    BY <1>0, <1>2 DEF Load, GoesOn
  <2> QED
    BY <2>1 DEF Settles
<1>3. CASE slots' = Load(s, db', n) /\ n # None
  <2>1. n \in Ids /\ db'.lock[n] = Owner[s]
    BY <1>3
  <2>2. slots'[t] = IF t = s THEN NewRun(db', n)
                    ELSE IF ~db'.cancel[n] /\ Owner[t] = Owner[s] /\ slots[t].job = n
                         THEN [slots[t] EXCEPT !.registered = FALSE] ELSE slots[t]
    BY <1>3 DEF Load
  <2>3. IF t = s THEN Starts(t, n) ELSE GoesOn(t)
    BY <1>0, <1>r, <2>1, <2>2 DEF Starts, GoesOn
  <2> QED
    BY <1>3, <2>1, <2>3 DEF Settles
<1> QED
  BY <1>1, <1>2, <1>3 DEF Answer

\* A cancel request leaves every run its job and its claim.
LEMMA RequestCancelKeeps ==
  ASSUME slots \in [Slots -> Runs], NEW w, NEW j, NEW c, NEW t \in Slots
  PROVE  /\ RequestCancel(w, j, c)[t].job = slots[t].job
         /\ RequestCancel(w, j, c)[t].claim = slots[t].claim
<1>1. slots[t] \in Runs
  OBVIOUS
<1>2. /\ [slots[t] EXCEPT !.stop = TRUE].job = slots[t].job
      /\ [slots[t] EXCEPT !.stop = TRUE].claim = slots[t].claim
  BY <1>1 DEF Runs
<1> QED
  BY <1>2 DEF RequestCancel

\* A claim starts at most the slot that asked, on the job it claimed.
LEMMA AcquireStarts ==
  ASSUME IInv, NEW s \in Slots, Acquire(s)
  PROVE  \E n \in Ids \cup {None} :
            /\ n # None => Claimed(n) /\ db'.lock[n] = Owner[s]
            /\ \A t \in Slots : Settles(t) \/ (t = s /\ n # None /\ Starts(t, n))
            /\ db'.fin = db.fin
<1>0. Sound(db) /\ db \in Db /\ Owner[s] \in Tokens /\ None \notin Tokens
  BY JobsAssumption, RedisAssumption DEF IInv, TypeOK
<1>1. PICK c \in Claims(db, TRUE) :
        /\ db' = AcquireNext(db, c.due, c.next, Owner[s], c.now)
        /\ slots' = Load(s, db', c.next) \/ slots' = slots
  BY DEF Acquire
<1>2. c.next \in Ids \cup {None} /\ c.now \in Nows /\ c.now \in Nat /\ c.due \in SUBSET Ids
  <2>1. db.coll["delayed"] \in SUBSET Ids
    BY <1>0, Names DEF Db
  <2> QED
    BY <2>1, JobsAssumption DEF Claims
<1>3. c.next # None => Granted(db', db, c.next, Owner[s], c.now)
  BY <1>0, <1>1, <1>2, ClaimStep
<1>4. c.next # None => Claimed(c.next) /\ db'.lock[c.next] = Owner[s]
  BY <1>0, <1>2, <1>3 DEF Granted, Claimed, Waiting
<1>5. ASSUME NEW t \in Slots
      PROVE  Settles(t) \/ (t = s /\ c.next # None /\ Starts(t, c.next))
  <2>1. CASE slots' = Load(s, db', c.next)
    BY <1>2, <1>4, <2>1, AnswerSteps DEF Answer
  <2> QED
    BY <1>1, <2>1 DEF Settles, GoesOn
<1>6. db'.fin = db.fin
  BY <1>0, <1>1, <1>2, AcquireNextMemos DEF SameMemos
<1> QED
  BY <1>2, <1>4, <1>5, <1>6

\* A finish starts at most its own slot, on the job it fetched.
LEMMA FinishStarts ==
  ASSUME IInv, NEW s \in Slots, FinishCommits(s)
  PROVE  \E n \in Ids \cup {None} :
            /\ \A i \in Ids : FinishStep(s, n, i)
            /\ \A t \in Slots : Settles(t) \/ (t = s /\ n # None /\ Starts(t, n))
            /\ n # None => Starts(s, n) \/ \A t \in Slots : GoesOn(t)
            /\ db'.fin = db.fin \cup {[token |-> Owner[s], job |-> slots[s].job,
                                       claim |-> slots[s].claim, next |-> n]}
<1>1. PICK n \in Ids \cup {None} :
        /\ Answer(s, db', n) /\ \A i \in Ids : FinishStep(s, n, i)
        /\ db'.fin = db.fin \cup {[token |-> Owner[s], job |-> slots[s].job,
                                   claim |-> slots[s].claim, next |-> n]}
  BY FinishEffect
<1>2. n # None => db'.lock[n] = Owner[s]
  BY <1>1 DEF FinishStep
<1>3. \A t \in Slots : Settles(t) \/ (t = s /\ n # None /\ Starts(t, n))
  BY <1>1, <1>2, AnswerSteps
<1>4. CASE slots' = Load(s, db', n)
  <2>1. n # None => Starts(s, n)
    BY <1>2, <1>4 DEF Load, Starts
  <2> QED
    BY <1>1, <1>3, <2>1
<1>5. CASE slots' = [slots EXCEPT ![s].fetch = FALSE]
  <2>1. \A t \in Slots : GoesOn(t)
    BY <1>5 DEF IInv, TypeOK, Runs, GoesOn
  <2> QED
    BY <1>1, <1>3, <2>1
<1> QED
  BY <1>1, <1>4, <1>5 DEF Answer

\* A recalled finish starts at most its own slot, on the job its memo names.
LEMMA RecallStarts ==
  ASSUME IInv, NEW s \in Slots, FinishRecalled(s)
  PROVE  /\ db' = db
         /\ \E m \in Recalled(db, Owner[s], slots[s].job, slots[s].claim) :
               \A t \in Slots : \/ Settles(t)
                                \/ /\ t = s /\ m.next # None /\ Starts(t, m.next)
                                   /\ db.lock[m.next] = Owner[s]
<1> DEFINE n(m) == IF slots[s].kind = "cancelled" THEN None ELSE RecalledNext(db, m)
<1>0. db \in Db
  BY DEF IInv, TypeOK
<1>1. PICK m \in Recalled(db, Owner[s], slots[s].job, slots[s].claim) : Answer(s, db, n(m))
  BY DEF FinishRecalled
<1>2. m.token = Owner[s] /\ m.next \in Ids \cup {None} /\ db' = db
  BY <1>0 DEF Recalled, Db, Memos, FinishRecalled
<1>3. /\ n(m) \in Ids \cup {None}
      /\ n(m) # None => n(m) = m.next /\ db'.lock[n(m)] = Owner[s]
  BY <1>2 DEF RecalledNext
<1> HIDE DEF n
<1>4. \A t \in Slots : Settles(t) \/ (t = s /\ n(m) # None /\ Starts(t, n(m)))
  BY <1>1, <1>2, <1>3, AnswerSteps
<1> QED
  BY <1>1, <1>2, <1>3, <1>4

\* No other step starts a run, or writes a memo.
LEMMA OthersSettle ==
  ASSUME IInv, [Next]_vars,
         \A s \in Slots : ~Acquire(s) /\ ~FinishCommits(s) /\ ~FinishRecalled(s)
  PROVE  (\A t \in Slots : Settles(t)) /\ db'.fin \subseteq db.fin
<1>0. Sound(db) /\ db \in Db /\ slots \in [Slots -> Runs]
  BY DEF IInv, TypeOK
<1>s. ASSUME slots' = slots PROVE \A t \in Slots : Settles(t)
  BY <1>s DEF Settles, GoesOn
<1>1. ASSUME NEW j \in Ids,
             Add(j) \/ Cancel(j) \/ Remove(j) \/ Retry(j) \/ Promote(j) \/ LockExpires(j)
      PROVE  slots' = slots /\ db'.fin \subseteq db.fin
  <2>1. CASE Add(j) \/ Retry(j) \/ Promote(j)
    BY <1>0, <2>1, OperatorMemos DEF Add, Retry, Promote, SameMemos
  <2>2. CASE Cancel(j)
    <3>1. PICK x \in Choices(db, {j}, "cancelled") : db' = CancelJob(db, j, x)
      BY <2>2 DEF Cancel
    <3>2. SameMemos(db', db)
      BY <1>0, <2>2, <3>1, RemoveMemos DEF Cancel, Finished
    <3> QED
      BY <2>2, <3>2 DEF Cancel, SameMemos
  <2>3. CASE Remove(j)
    <3>1. PICK x \in Choices(db, {j}, "failed") : db' = RemoveJob(db, j, x)
      BY <2>3 DEF Remove
    <3>2. SameMemos(db', db)
      BY <1>0, <2>3, <3>1, RemoveMemos DEF Remove, Finished
    <3> QED
      BY <2>3, <3>2 DEF Remove, SameMemos
  <2>4. CASE LockExpires(j)
    BY <1>0, <2>4 DEF LockExpires, ExpireLock, Db
  <2> QED
    BY <1>1, <2>1, <2>2, <2>3, <2>4
<1>2. ASSUME NEW s \in Slots, EndProcessor(s)
      PROVE  (\A t \in Slots : Settles(t)) /\ db'.fin \subseteq db.fin
  <2>1. PICK kind :
          slots' = [slots EXCEPT ![s].phase = "finish", ![s].kind = kind,
                    ![s].fetch = (workers[Owner[s]] = "up" /\ kind # "cancelled")]
    BY <1>2 DEF EndProcessor
  <2>2. \A t \in Slots : GoesOn(t)
    BY <1>0, <2>1 DEF GoesOn, Runs
  <2> QED
    BY <1>2, <2>2 DEF Settles, EndProcessor
<1>3. ASSUME NEW s \in Slots, FinishRefused(s)
      PROVE  (\A t \in Slots : Settles(t)) /\ db'.fin \subseteq db.fin
  <2>1. \A t \in Slots : Settles(t)
    BY <1>3, AnswerSteps DEF FinishRefused
  <2> QED
    BY <1>0, <1>3, <2>1 DEF FinishRefused, Refuse, Db
<1>4. ASSUME NEW s \in Slots, FinishUnsent(s) \/ CutOff(s)
      PROVE  (\A t \in Slots : Settles(t)) /\ db'.fin \subseteq db.fin
  <2>1. ASSUME NEW t \in Slots PROVE slots'[t] = Idle \/ GoesOn(t)
    BY <1>0, <1>4 DEF FinishUnsent, CutOff, GoesOn, Runs
  <2>2. slots[s].phase # "idle" => slots[s].job \in Ids
    BY DEF IInv, SlotShape, Busy
  <2>3. SameMemos(db', db)
    BY <1>0, <1>4, <2>2, ReleaseJobMemos DEF FinishUnsent, CutOff, SameMemos
  <2> QED
    BY <2>1, <2>3 DEF Settles, SameMemos
<1>5. ASSUME NEW s \in Slots, Renew(s) \/ RenewUnheard(s)
      PROVE  (\A t \in Slots : Settles(t)) /\ db'.fin \subseteq db.fin
  <2> DEFINE asked == RequestCancel(Owner[s], slots[s].job, 0)
  <2>1. \/ slots' = asked \/ slots' = slots
        \/ slots' = [slots EXCEPT ![s].renewing = FALSE]
        \/ slots' = [asked EXCEPT ![s].renewing = FALSE]
    <3> HIDE DEF asked
    <3> QED BY <1>5 DEF Renew, RenewUnheard, asked
  <2>2. asked \in [Slots -> Runs]
    BY <1>0, RequestCancelType DEF IInv
  <2>3. ASSUME NEW t \in Slots PROVE GoesOn(t)
    <3>1. asked[t].job = slots[t].job /\ asked[t].claim = slots[t].claim
      BY <1>0, RequestCancelKeeps
    <3> HIDE DEF asked
    <3>2. asked[t] \in Runs
      BY <2>2
    <3> QED
      BY <1>0, <2>1, <2>2, <3>1, <3>2 DEF GoesOn, Runs
  <2>4. db' = ExtendLock(db, Owner[s], slots[s].job) \/ db' = db
    BY <1>5 DEF Renew, RenewUnheard
  <2>5. db'.fin = db.fin
    BY <1>0, <2>4 DEF ExtendLock, Db
  <2> QED
    BY <2>3, <2>5 DEF Settles
<1>6. ASSUME NEW m, HearCancel(m)
      PROVE  (\A t \in Slots : Settles(t)) /\ db'.fin \subseteq db.fin
  BY <1>0, <1>6, RequestCancelKeeps DEF HearCancel, Settles, GoesOn
<1>7. ASSUME NEW w, Crash(w)
      PROVE  (\A t \in Slots : Settles(t)) /\ db'.fin \subseteq db.fin
  BY <1>7 DEF Crash, Settles, GoesOn
<1>8. CASE Sweep
  <2>1. SameMemos(db', db)
    BY <1>0, <1>8, MoveStalledMemos DEF Sweep
  <2> QED
    BY <1>8, <1>s, <2>1 DEF Sweep, SameMemos
<1>9. ASSUME NEW p, SetPaused(p)
      PROVE  slots' = slots /\ db'.fin \subseteq db.fin
  BY <1>0, <1>9 DEF SetPaused, Db
<1>10. ASSUME NEW m, MemoExpires(m)
      PROVE  slots' = slots /\ db'.fin \subseteq db.fin
  BY <1>0, <1>10 DEF MemoExpires, Db
<1>11. ASSUME UNCHANGED <<db, slots>>
      PROVE  (\A t \in Slots : Settles(t)) /\ db'.fin \subseteq db.fin
  BY <1>11, <1>s
<1>12. CASE UNCHANGED vars
  BY <1>11, <1>12 DEF vars
<1>13. CASE Next
  BY <1>s, <1>1, <1>2, <1>3, <1>4, <1>5, <1>6, <1>7, <1>8, <1>9, <1>10, <1>11, <1>13
     DEF Next, LoseCancel, Stop, Restart
<1> QED
  BY <1>12, <1>13

\* Every step treats every slot in one of these ways.
LEMMA SlotSteps ==
  ASSUME IInv, [Next]_vars, NEW t \in Slots
  PROVE  Settles(t) \/ \E n \in Ids : Starts(t, n)
<1>1. ASSUME NEW s \in Slots, Acquire(s) \/ FinishCommits(s)
      PROVE  Settles(t) \/ \E n \in Ids : Starts(t, n)
  BY <1>1, AcquireStarts, FinishStarts
<1>2. ASSUME NEW s \in Slots, FinishRecalled(s)
      PROVE  Settles(t) \/ \E n \in Ids : Starts(t, n)
  <2>1. PICK m \in db.fin : Settles(t) \/ (m.next # None /\ Starts(t, m.next))
    BY <1>2, RecallStarts DEF Recalled
  <2>2. m.next \in Ids \cup {None}
    BY DEF IInv, TypeOK, Db, Memos
  <2> QED
    BY <2>1, <2>2
<1> QED
  BY <1>1, <1>2, OthersSettle

\* A cancellation asked of a running job outlives stalls, failures, shutdowns and
\* crashes until the job finishes, and no processor is started on the job again:
\* RETRY_JOB alone clears the flag, and _handle looks at it before it starts one.
THEOREM CancellationSticks == Spec => CancelSticks
<1> DEFINE Flag(j) == db.cancel[j] /\ db.state[j] \notin Finished
           Stands(j) == db'.cancel[j] \/ ~Exists(db', j)
           Quiet(j) == \A s \in Slots : slots'[s].phase = "run" /\ slots'[s].job = j
                          => slots[s].job = j /\ slots[s].claim = slots'[s].claim
<1>1. ASSUME IInv, Solvent, [Next]_vars, NEW j \in Ids, Flag(j)
      PROVE  Stands(j)
  <2>1. Exists(db, j) /\ db.state[j] # "failed"
    BY <1>1 DEF Solvent, Clean, Finished
  <2>2. JobStep(j)
    BY <1>1, NextSteps
  <2> QED
    BY <1>1, <2>1, <2>2
       DEF JobStep, Bystander, Kept, Advanced, Fields, Gone, Submitted, Exists, Claimed, Ran,
           Counted, RanAndClaimed, AskedToStop, Flagged, Lapsed, Withdrawn, Ended,
           Reopened, Returned, Recovered, Swept
<1>2. ASSUME IInv, Solvent, [Next]_vars, NEW j \in Ids, Flag(j), NEW s \in Slots,
             slots'[s].phase = "run", slots'[s].job = j
      PROVE  slots[s].job = j /\ slots[s].claim = slots'[s].claim
  <2>1. Settles(s) \/ \E n \in Ids : Starts(s, n)
    BY <1>2, SlotSteps
  <2>2. slots'[s] # Idle
    BY <1>2 DEF Idle
  <2>3. ASSUME NEW n \in Ids, Starts(s, n) PROVE FALSE
    <3>1. n = j /\ ~db'.cancel[n]
      BY <1>2, <2>3 DEF Starts, NewRun
    <3>2. Stands(j)
      BY <1>1, <1>2
    <3>3. LockOK(db') /\ Owner[s] \in Tokens /\ None \notin Tokens
      <4>1. IInv'
        BY <1>2, NextIInv
      <4> QED
        BY <4>1, JobsAssumption, RedisAssumption DEF IInv, Sound, Good
    <3>4. db'.state[n] = "active"
      BY <2>3, <3>3 DEF LockOK, Starts
    <3> QED
      BY <3>1, <3>2, <3>4, Names DEF Exists
  <2> QED
    BY <1>2, <2>1, <2>2, <2>3 DEF Settles, GoesOn
<1>3. IInv /\ Solvent /\ [Next]_vars =>
        [\A j \in Ids : db.cancel[j] /\ db.state[j] \notin Finished =>
            /\ db'.cancel[j] \/ ~Exists(db', j)
            /\ \A s \in Slots : slots'[s].phase = "run" /\ slots'[s].job = j
                                => slots[s].job = j /\ slots[s].claim = slots'[s].claim]_vars
  BY <1>1, <1>2
<1> QED
  BY <1>3, SolventAlways, PTL DEF Spec, CancelSticks
-------------------------------------------------------------------------------
(***************************************************************************)
(* Every claim of a job has one run: two slots never run the same claim,   *)
(* whatever finishes are sent again and answered from their memo, so of    *)
(* all runs of a job at most one can commit.                               *)
(*                                                                         *)
(* The argument is about the memos.  A finish that fetched a job leaves    *)
(* the job's id in its memo, and a slot that asks again is handed that job *)
(* without a new claim.  So as long as a slot may still ask, the job must  *)
(* be locked for that worker under a claim that no slot runs.              *)
(***************************************************************************)

\* No id is used again once its job is removed: true of the ids Queue.add makes
\* up.  A custom id that is removed, added and claimed again by the same worker
\* within one lost answer breaks what is proved here.
NoReuse == \A j \in Ids : Lives[j] <= 1

Holds(s, j, c) == slots[s].job = j /\ slots[s].claim = c

Asked(m) == \E t \in Slots : Owner[t] = m.token /\ Holds(t, m.job, m.claim)

BornOK(j) == Exists(db, j) => born[j] # 0

SlotOK(s) ==
    slots[s].job \in Ids =>
        /\ born[slots[s].job] # 0
        /\ Exists(db, slots[s].job) => slots[s].claim <= db.processedOn[slots[s].job]

Apart(s, t) ==
    s # t /\ slots[s].job \in Ids /\ slots[s].job = slots[t].job
    => slots[s].claim # slots[t].claim

\* A memo is of a claim that is over.
MemoOK(m) ==
    /\ born[m.job] # 0 /\ (m.next # None => born[m.next] # 0)
    /\ Exists(db, m.job) => m.claim <= db.processedOn[m.job]
    /\ db.lock[m.job] # None => m.claim < db.processedOn[m.job]

\* What a slot that asks again is handed is locked for it, and nobody runs it.
NextOK(m) ==
    Asked(m) /\ m.next # None /\ Exists(db, m.next) =>
        /\ db.lock[m.next] = m.token
        /\ \A s \in Slots : ~Holds(s, m.next, db.processedOn[m.next])

\* Nor is it handed to two.
Differ(m, n) ==
    m # n /\ Asked(m) /\ Asked(n) /\ m.next = n.next /\ m.next # None => ~Exists(db, m.next)

ClaimInv ==
    /\ \A j \in Ids : BornOK(j)
    /\ \A s \in Slots : SlotOK(s)
    /\ \A s, t \in Slots : Apart(s, t)
    /\ \A m \in db.fin : MemoOK(m) /\ NextOK(m)
    /\ \A m, n \in db.fin : Differ(m, n)

-----------------------------------------------------------------------------
(* What a step does to a job's claim, and to what was added. *)

\* An id is added at most once, and stays added.
LEMMA BornGrows ==
  ASSUME NoReuse, IInv, [Next]_vars, NEW i \in Ids
  PROVE  (born[i] # 0 => born'[i] # 0) /\ (Add(i) => born[i] = 0 /\ born'[i] # 0)
<1>0. born \in [Ids -> Nat] /\ Lives[i] \in Nat /\ Lives[i] <= 1
  BY JobsAssumption DEF IInv, TypeOK, NoReuse
<1>1. Add(i) => born[i] = 0 /\ born'[i] # 0
  BY <1>0 DEF Add
<1>2. ASSUME NEW j \in Ids, Add(j) PROVE born[i] # 0 => born'[i] # 0
  BY <1>0, <1>2 DEF Add
<1>3. (\E j \in Ids : Add(j)) \/ born' = born
  BY DEF Next, Cancel, Remove, Retry, Promote, LockExpires, SetPaused, Acquire, EndProcessor,
         FinishRecalled, FinishCommits, FinishRefused, FinishUnsent, Renew, RenewUnheard, CutOff,
         MemoExpires, Sweep, HearCancel, LoseCancel, Stop, Restart, Crash, vars
<1> QED
  BY <1>1, <1>2, <1>3

\* A job that is there after a step was there before, or is added; its claim never
\* goes back, and it is locked anew only under a later claim.
LEMMA ClaimGrows ==
  ASSUME IInv, [Next]_vars, NEW i \in Ids, Exists(db', i)
  PROVE  \/ Add(i)
         \/ /\ Exists(db, i) /\ db'.processedOn[i] >= db.processedOn[i]
            /\ db'.lock[i] # None =>
                 db'.lock[i] = db.lock[i] \/ db'.processedOn[i] > db.processedOn[i]
<1>0. db.processedOn[i] \in Nat
  BY DEF IInv, TypeOK, Db
<1>n. /\ None \notin Waiting /\ None \notin Finished /\ None # "active"
  BY Names DEF Waiting, Colls, Live, Finished
<1>1. JobStep(i)
  BY NextSteps
<1>2. CASE Bystander(db', db, i)
  BY <1>0, <1>2, <1>n DEF Bystander, Kept, Advanced, Fields, Gone, Exists, Waiting
<1>3. CASE Claimed(i) \/ RanAndClaimed(i)
  BY <1>0, <1>3, <1>n, StampGrows DEF Claimed, RanAndClaimed, Leased, Exists
<1>4. CASE Ran(i)
  BY <1>0, <1>4, <1>n DEF Ran, Counted, Leased, Exists
<1>5. CASE AskedToStop(i) \/ Lapsed(i)
  BY <1>0, <1>5, <1>n DEF AskedToStop, Flagged, Lapsed, Exists
<1>6. CASE Withdrawn(i)
  BY <1>0, <1>6, <1>n DEF Withdrawn, Ended, Gone, Exists
<1>7. CASE Reopened(i) \/ Returned(i)
  BY <1>0, <1>7, <1>n DEF Reopened, Returned, Leased, Exists, Finished
<1>8. CASE Recovered(i)
  BY <1>0, <1>8, <1>n DEF Recovered, Swept, Gone, Exists
<1> QED
  BY <1>1, <1>2, <1>3, <1>4, <1>5, <1>6, <1>7, <1>8 DEF JobStep, Gone, Exists, Submitted

-----------------------------------------------------------------------------
(* A step that starts no run, or one on a new claim, keeps what is true of  *)
(* the slots and of the memos that were there.                              *)

StartsFresh(t, n) ==
    Starts(t, n) /\ Exists(db, n) /\ db'.processedOn[n] > db.processedOn[n]

\* At most one slot starts, and on a new claim.
Calm ==
    /\ \A t \in Slots : Settles(t) \/ \E n \in Ids : StartsFresh(t, n)
    /\ \A t, u \in Slots : t # u => Settles(t) \/ Settles(u)

\* A slot with a job after a calm step had it before, or its claim is new.
LEMMA CalmSlot ==
  ASSUME IInv, [Next]_vars, Calm, NEW t \in Slots, slots'[t].job \in Ids
  PROVE  \/ slots'[t].job = slots[t].job /\ slots'[t].claim = slots[t].claim
         \/ LET n == slots'[t].job
            IN  /\ slots'[t].claim = db'.processedOn[n] /\ Exists(db, n) /\ Exists(db', n)
                /\ db'.processedOn[n] > db.processedOn[n] /\ ~Settles(t)
<1>1. slots'[t] # Idle
  BY Names DEF Idle
<1>2. CASE GoesOn(t)
  BY <1>2 DEF GoesOn
<1>3. ASSUME NEW n \in Ids, StartsFresh(t, n), ~GoesOn(t)
      PROVE  /\ slots'[t].job = n /\ slots'[t].claim = db'.processedOn[n] /\ Exists(db, n)
             /\ Exists(db', n) /\ db'.processedOn[n] > db.processedOn[n] /\ ~Settles(t)
  <2>1. slots'[t].job = n /\ slots'[t].claim = db'.processedOn[n]
    BY <1>3 DEF StartsFresh, Starts, NewRun
  <2>2. LockOK(db') /\ Owner[t] # None
    <3>1. IInv'
      BY NextIInv
    <3> QED
      BY <3>1, JobsAssumption, RedisAssumption DEF IInv, Sound, Good
  <2>3. Exists(db', n)
    BY <1>3, <2>2, Names DEF StartsFresh, Starts, LockOK, Exists
  <2> QED
    BY <1>1, <1>3, <2>1, <2>3 DEF StartsFresh, Settles
<1> QED
  BY <1>1, <1>2, <1>3 DEF Calm, Settles

\* The slots after a calm step.
LEMMA CalmSlots ==
  ASSUME NoReuse, IInv, ClaimInv, [Next]_vars, Calm
  PROVE  /\ \A j \in Ids : BornOK(j)'
         /\ \A t \in Slots : SlotOK(t)'
         /\ \A t, u \in Slots : Apart(t, u)'
<1>0. IInv'
  BY NextIInv
<1>1. ASSUME NEW j \in Ids PROVE BornOK(j)'
  BY BornGrows, ClaimGrows DEF ClaimInv, BornOK
<1>n. \A i \in Ids : db.processedOn[i] \in Nat /\ db'.processedOn[i] \in Nat
  BY <1>0 DEF IInv, TypeOK, Db
<1>c. \A t \in Slots : slots[t].claim \in Nat /\ slots'[t].claim \in Nat
  BY <1>0 DEF IInv, TypeOK, Runs
<1>2. ASSUME NEW t \in Slots, slots'[t].job \in Ids
      PROVE  /\ born'[slots'[t].job] # 0
             /\ Exists(db', slots'[t].job) => slots'[t].claim <= db'.processedOn[slots'[t].job]
  <2> DEFINE n == slots'[t].job
  <2>1. CASE n = slots[t].job /\ slots'[t].claim = slots[t].claim
    <3>1. /\ born[n] # 0 /\ (Exists(db, n) => slots[t].claim <= db.processedOn[n])
      BY <1>2, <2>1 DEF ClaimInv, SlotOK
    <3>2. born'[n] # 0 /\ ~Add(n)
      BY <1>2, <3>1, BornGrows
    <3>3. Exists(db', n) => Exists(db, n) /\ db'.processedOn[n] >= db.processedOn[n]
      BY <1>2, <3>2, ClaimGrows
    <3> QED
      BY <1>2, <1>n, <1>c, <2>1, <3>1, <3>2, <3>3
  <2>2. CASE slots'[t].claim = db'.processedOn[n] /\ Exists(db', n)
    BY <1>1, <1>2, <1>n, <2>2 DEF BornOK
  <2> QED
    BY <1>2, <2>1, <2>2, CalmSlot
<1>3. ASSUME NEW t \in Slots, NEW u \in Slots, t # u, slots'[t].job \in Ids,
             slots'[t].job = slots'[u].job
      PROVE  slots'[t].claim # slots'[u].claim
  <2> DEFINE n == slots'[t].job
             New(v) == /\ slots'[v].claim = db'.processedOn[n] /\ Exists(db, n)
                       /\ db'.processedOn[n] > db.processedOn[n] /\ ~Settles(v)
             Old(v) == n = slots[v].job /\ slots'[v].claim = slots[v].claim
  <2>1. (Old(t) \/ New(t)) /\ (Old(u) \/ New(u))
    BY <1>3, CalmSlot
  <2>2. ~(New(t) /\ New(u))
    BY <1>3 DEF Calm
  <2>3. CASE Old(t) /\ Old(u)
    BY <1>3, <2>3 DEF ClaimInv, Apart
  <2>4. \A v \in Slots : Old(v) /\ Exists(db, n) => slots'[v].claim <= db.processedOn[n]
    BY <1>3 DEF ClaimInv, SlotOK
  <2> QED
    BY <1>3, <1>n, <1>c, <2>1, <2>2, <2>3, <2>4
<1> QED
  BY <1>1, <1>2, <1>3 DEF SlotOK, Apart

\* The memos that were there, after a calm step.
LEMMA CalmMemo ==
  ASSUME NoReuse, IInv, ClaimInv, [Next]_vars, Calm, NEW m \in db.fin, m \in db'.fin
  PROVE  (Asked(m)' => Asked(m)) /\ MemoOK(m)' /\ NextOK(m)'
<1>0. IInv'
  BY NextIInv
<1>1. /\ m.token \in Tokens /\ m.job \in Ids /\ m.claim \in Nat /\ m.next \in Ids \cup {None}
      /\ MemoOK(m) /\ NextOK(m)
  BY DEF IInv, TypeOK, Db, Memos, ClaimInv
<1>n. \A i \in Ids : db.processedOn[i] \in Nat /\ db'.processedOn[i] \in Nat
  BY <1>0 DEF IInv, TypeOK, Db
<1>l. LockOK(db) /\ LockOK(db') /\ None \notin Tokens
  BY <1>0, RedisAssumption DEF IInv, Sound, Good
<1>2. ASSUME Asked(m)' PROVE Asked(m)
  <2>1. PICK t \in Slots : Owner[t] = m.token /\ slots'[t].job = m.job /\ slots'[t].claim = m.claim
    BY <1>2 DEF Asked, Holds
  <2>2. slots'[t].job = slots[t].job /\ slots'[t].claim = slots[t].claim
    BY <1>1, <1>n, <2>1, CalmSlot DEF MemoOK
  <2> QED
    BY <2>1, <2>2 DEF Asked, Holds
<1>3. MemoOK(m)'
  <2>1. born'[m.job] # 0 /\ ~Add(m.job) /\ (m.next # None => born'[m.next] # 0)
    BY <1>1, BornGrows DEF MemoOK
  <2>2. Exists(db', m.job) =>
          /\ Exists(db, m.job) /\ db'.processedOn[m.job] >= db.processedOn[m.job]
          /\ db'.lock[m.job] # None =>
               \/ db'.lock[m.job] = db.lock[m.job]
               \/ db'.processedOn[m.job] > db.processedOn[m.job]
    BY <1>1, <2>1, ClaimGrows
  <2>3. db'.lock[m.job] # None => Exists(db', m.job)
    BY <1>1, <1>l, Names DEF LockOK, Exists
  <2> QED
    BY <1>1, <1>n, <2>1, <2>2, <2>3 DEF MemoOK
<1>4. ASSUME Asked(m)', m.next # None, Exists(db', m.next)
      PROVE  /\ db'.lock[m.next] = m.token
             /\ \A s \in Slots : ~Holds(s, m.next, db.processedOn[m.next])'
  <2> DEFINE n == m.next
  <2>0. n \in Ids /\ Asked(m)
    BY <1>1, <1>2, <1>4
  <2>1. Exists(db, n)
    <3>1. born[n] # 0
      BY <1>1, <1>4 DEF MemoOK
    <3> QED
      BY <1>4, <2>0, <3>1, BornGrows, ClaimGrows
  <2>2. db.lock[n] = m.token /\ \A s \in Slots : ~Holds(s, n, db.processedOn[n])
    BY <1>1, <1>4, <2>0, <2>1 DEF NextOK
  <2>3. db.state[n] = "active"
    BY <1>1, <1>l, <2>0, <2>2 DEF LockOK
  <2>4. ~Leased(n)
    BY <2>2 DEF Leased, MayCommit, RunHeld, Holds
  <2>5. ~Lapsed(n)
    <3>1. LockExpires(n) => m \notin db'.fin
      BY <2>2 DEF LockExpires, ExpireLock, IInv, TypeOK, Db
    <3> QED
      BY <3>1 DEF Lapsed
  <2>6. db'.lock[n] = db.lock[n] /\ db'.processedOn[n] = db.processedOn[n]
    <3>1. JobStep(n)
      BY <2>0, NextSteps
    <3>2. "active" \notin Waiting /\ "active" \notin Finished /\ None # m.token
      BY <1>1, <1>l DEF Waiting, Finished
    <3> QED
      BY <1>4, <2>1, <2>2, <2>3, <2>4, <2>5, <3>1, <3>2
         DEF JobStep, Bystander, Kept, Advanced, Fields, Gone, Submitted, Claimed, Ran,
             RanAndClaimed, AskedToStop, Flagged, Withdrawn, Reopened, Returned, Recovered,
             Exists, Waiting, Finished
  <2>7. ASSUME NEW s \in Slots, slots'[s].job = n, slots'[s].claim = db'.processedOn[n]
        PROVE  FALSE
    <3>1. slots'[s].job = slots[s].job /\ slots'[s].claim = slots[s].claim
      BY <1>n, <2>0, <2>6, <2>7, CalmSlot
    <3> QED
      BY <2>2, <2>6, <2>7, <3>1 DEF Holds
  <2> QED
    BY <2>2, <2>6, <2>7 DEF Holds
<1> QED
  BY <1>2, <1>3, <1>4 DEF NextOK

\* Two memos that were there, after a calm step.
LEMMA CalmMemos ==
  ASSUME NoReuse, IInv, ClaimInv, [Next]_vars, Calm,
         NEW m \in db.fin, m \in db'.fin, NEW o \in db.fin, o \in db'.fin
  PROVE  Differ(m, o)'
<1>1. /\ Asked(m)' => Asked(m)
      /\ Asked(o)' => Asked(o)
  BY CalmMemo
<1>2. ASSUME m # o, Asked(m)', Asked(o)', m.next = o.next, m.next # None PROVE ~Exists(db', m.next)
  <2>1. ~Exists(db, m.next)
    BY <1>1, <1>2 DEF ClaimInv, Differ
  <2>2. m.next \in Ids /\ born[m.next] # 0
    BY <1>2 DEF ClaimInv, MemoOK, IInv, TypeOK, Db, Memos
  <2> QED
    BY <2>1, <2>2, BornGrows, ClaimGrows
<1> QED
  BY <1>2 DEF Differ

-----------------------------------------------------------------------------
(* The steps. *)

\* A claim under a new number is a fresh start.
LEMMA FreshClaim ==
  ASSUME IInv, NEW n \in Ids, Claimed(n) \/ RanAndClaimed(n)
  PROVE  Exists(db, n) /\ db'.processedOn[n] > db.processedOn[n]
<1>1. db.processedOn[n] \in Nat /\ None \notin Waiting /\ None # "active"
  BY Names DEF IInv, TypeOK, Db, Waiting
<1> QED
  BY <1>1, StampGrows DEF Claimed, RanAndClaimed, Leased, Exists

\* Calm steps that write no memo.
LEMMA CalmKeeps ==
  ASSUME NoReuse, IInv, ClaimInv, [Next]_vars, Calm, db'.fin \subseteq db.fin
  PROVE  ClaimInv'
BY CalmSlots, CalmMemo, CalmMemos DEF ClaimInv

\* A finish that is answered from its memo: the slot takes over the job that was
\* locked for it and that nobody runs.
LEMMA RecallKeeps ==
  ASSUME NoReuse, IInv, ClaimInv, [Next]_vars, NEW s \in Slots, FinishRecalled(s)
  PROVE  ClaimInv'
<1>0. db' = db /\ db \in Db /\ Sound(db) /\ born' = born
  BY RecallStarts DEF IInv, TypeOK, FinishRecalled
<1>1. PICK m \in Recalled(db, Owner[s], slots[s].job, slots[s].claim) :
        \A t \in Slots : \/ Settles(t)
                         \/ /\ t = s /\ m.next # None /\ Starts(t, m.next)
                            /\ db.lock[m.next] = Owner[s]
  BY RecallStarts
<1>2. CASE \A t \in Slots : Settles(t)
  <2>1. Calm
    BY <1>2 DEF Calm
  <2> QED
    BY <1>0, <2>1, CalmKeeps
<1>3. CASE ~Settles(s)
  <2> DEFINE n == m.next
  <2>1. /\ m \in db.fin /\ m.token = Owner[s] /\ m.job = slots[s].job /\ m.claim = slots[s].claim
        /\ n \in Ids /\ m.job \in Ids
    BY <1>0, <1>1, <1>3 DEF Recalled, Db, Memos
  <2>2. /\ slots'[s].job = n /\ slots'[s].claim = db.processedOn[n] /\ db.lock[n] = Owner[s]
    BY <1>0, <1>1, <1>3 DEF Starts, NewRun
  <2>3. Exists(db, n) /\ db.lock[n] # None
    <3>1. Owner[s] \in Tokens /\ None \notin Tokens
      BY JobsAssumption, RedisAssumption
    <3> QED
      BY <1>0, <2>1, <2>2, <3>1, Names DEF Sound, Good, LockOK, Exists
  <2>4. Asked(m)
    BY <2>1 DEF Asked, Holds
  <2>5. \A t \in Slots : ~Holds(t, n, db.processedOn[n])
    BY <2>1, <2>3, <2>4, Names DEF ClaimInv, NextOK
  <2>6. ASSUME NEW t \in Slots, t # s, slots'[t].job \in Ids
        PROVE  slots'[t].job = slots[t].job /\ slots'[t].claim = slots[t].claim
    BY <1>1, <2>6, Names DEF Settles, GoesOn, Idle
  <2>n. db.processedOn[n] \in Nat
    BY <1>0, <2>1 DEF Db
  <2>7. ASSUME NEW t \in Slots PROVE SlotOK(t)'
    <3>1. CASE t = s
      BY <1>0, <2>1, <2>2, <2>3, <2>n, <3>1 DEF SlotOK, ClaimInv, BornOK
    <3>2. CASE t # s
      BY <1>0, <2>6, <3>2 DEF SlotOK, ClaimInv
    <3> QED
      BY <3>1, <3>2
  <2>8. ASSUME NEW t \in Slots, NEW u \in Slots, t # u, slots'[t].job \in Ids,
               slots'[t].job = slots'[u].job
        PROVE  slots'[t].claim # slots'[u].claim
    <3>1. CASE t # s /\ u # s
      BY <2>6, <2>8, <3>1 DEF ClaimInv, Apart
    <3>2. CASE t = s \/ u = s
      BY <2>1, <2>2, <2>5, <2>6, <2>8, <3>2 DEF Holds
    <3> QED
      BY <3>1, <3>2
  <2>9. ASSUME NEW o \in db.fin, Asked(o)' PROVE Asked(o) /\ o # m
    <3>0. o.job \in Ids /\ o.claim \in Nat /\ MemoOK(o)
      BY <1>0 DEF Db, Memos, ClaimInv
    <3>1. PICK t \in Slots : Owner[t] = o.token /\ slots'[t].job = o.job /\ slots'[t].claim = o.claim
      BY <2>9 DEF Asked, Holds
    <3>2. t # s
      BY <2>2, <2>3, <2>n, <3>0, <3>1 DEF MemoOK
    <3>3. slots[t].job = o.job /\ slots[t].claim = o.claim
      BY <2>6, <3>0, <3>1, <3>2
    <3>4. Asked(o)
      BY <3>1, <3>3 DEF Asked, Holds
    <3>5. o # m
      BY <2>1, <3>2, <3>3 DEF ClaimInv, Apart
    <3> QED
      BY <3>4, <3>5
  <2>10. ASSUME NEW o \in db.fin PROVE MemoOK(o)'
    BY <1>0 DEF MemoOK, ClaimInv
  <2>11. ASSUME NEW o \in db.fin, Asked(o)', o.next # None, Exists(db, o.next)
         PROVE  /\ db.lock[o.next] = o.token
                /\ \A t \in Slots : ~(slots'[t].job = o.next
                                       /\ slots'[t].claim = db.processedOn[o.next])
    <3>1. Asked(o) /\ o # m /\ o.next \in Ids
      BY <1>0, <2>9, <2>11 DEF Db, Memos
    <3>2. /\ db.lock[o.next] = o.token
          /\ \A t \in Slots : ~Holds(t, o.next, db.processedOn[o.next])
      BY <2>11, <3>1 DEF ClaimInv, NextOK
    <3>3. o.next # n
      BY <2>1, <2>3, <2>4, <2>11, <3>1 DEF ClaimInv, Differ
    <3> QED
      BY <2>2, <2>6, <3>1, <3>2, <3>3 DEF Holds
  <2>12. ASSUME NEW o \in db.fin PROVE NextOK(o)'
    BY <1>0, <2>11 DEF NextOK, Holds
  <2>13. ASSUME NEW o \in db.fin, NEW q \in db.fin PROVE Differ(o, q)'
    BY <1>0, <2>9 DEF Differ, ClaimInv
  <2>14. ASSUME NEW j \in Ids PROVE BornOK(j)'
    BY <1>0 DEF BornOK, ClaimInv
  <2>15. ASSUME NEW t \in Slots, NEW u \in Slots PROVE Apart(t, u)'
    BY <2>8 DEF Apart
  <2> QED
    BY <1>0, <2>7, <2>10, <2>12, <2>13, <2>14, <2>15 DEF ClaimInv
<1> QED
  BY <1>1, <1>2, <1>3

\* A finish that commits: the memo it writes is of a claim that is over, and what
\* it fetched is claimed anew, so no slot and no other memo has it.
LEMMA CommitKeeps ==
  ASSUME NoReuse, IInv, ClaimInv, [Next]_vars, NEW s \in Slots, FinishCommits(s)
  PROVE  ClaimInv'
<1> DEFINE r == slots[s]
           memo(n) == [token |-> Owner[s], job |-> r.job, claim |-> r.claim, next |-> n]
<1>0. /\ IInv' /\ Sound(db) /\ db \in Db /\ r.job \in Ids /\ r.claim \in Nat
      /\ Owner[s] \in Tokens /\ None \notin Tokens
      /\ db.processedOn[r.job] = r.claim
  BY NextIInv, JobsAssumption, RedisAssumption
     DEF IInv, TypeOK, Runs, SlotShape, Busy, FinishCommits, RunHeld
<1>1. PICK n \in Ids \cup {None} :
        /\ \A i \in Ids : FinishStep(s, n, i)
        /\ \A t \in Slots : Settles(t) \/ (t = s /\ n # None /\ Starts(t, n))
        /\ n # None => Starts(s, n) \/ \A t \in Slots : GoesOn(t)
        /\ db'.fin = db.fin \cup {memo(n)}
  BY FinishStarts
<1>p. PICK m0 : m0 = memo(n)
  OBVIOUS
<1>2. n # None => /\ Exists(db, n) /\ db'.processedOn[n] > db.processedOn[n]
                  /\ db'.lock[n] = Owner[s] /\ Exists(db', n)
                  /\ Claimed(n) \/ RanAndClaimed(n)
  <2>1. n # None => (Claimed(n) \/ RanAndClaimed(n)) /\ db'.lock[n] = Owner[s]
    BY <1>1 DEF FinishStep
  <2>2. Claimed(n) \/ RanAndClaimed(n) => Exists(db', n)
    BY Names DEF Claimed, RanAndClaimed, Exists
  <2> QED
    BY <2>1, <2>2, FreshClaim
<1>3. Calm
  BY <1>1, <1>2 DEF Calm, StartsFresh
<1>4. /\ \A j \in Ids : BornOK(j)'
      /\ \A t \in Slots : SlotOK(t)'
      /\ \A t, u \in Slots : Apart(t, u)'
  BY <1>3, CalmSlots
<1>5. \A m \in db.fin : (Asked(m)' => Asked(m)) /\ MemoOK(m)' /\ NextOK(m)'
  BY <1>1, <1>3, CalmMemo
<1>6. \A m, o \in db.fin : Differ(m, o)'
  BY <1>1, <1>3, CalmMemos
<1>m. m0.token = Owner[s] /\ m0.job = r.job /\ m0.claim = r.claim /\ m0.next = n
  BY <1>p
<1>f. db'.fin = db.fin \cup {m0}
  BY <1>1, <1>p
<1> HIDE DEF memo
<1>7. MemoOK(m0)'
  <2>1. born[r.job] # 0 /\ born'[r.job] # 0
    BY <1>0, BornGrows DEF ClaimInv, SlotOK
  <2>2. n # None => born'[n] # 0
    BY <1>2, <1>4 DEF BornOK
  <2>3. /\ Exists(db', r.job) => r.claim <= db'.processedOn[r.job]
        /\ db'.lock[r.job] # None => r.claim < db'.processedOn[r.job]
    <3>1. FinishStep(s, n, r.job)
      BY <1>0, <1>1
    <3>2. CASE r.job = n
      BY <1>0, <1>2, <3>2, Names DEF IInv, TypeOK, Db
    <3>3. CASE r.job # n
      <4>1. Gone(db', r.job) \/ Ran(r.job)
        BY <3>1, <3>3 DEF FinishStep
      <4> QED
        BY <1>0, <4>1 DEF Gone, Ran, Counted, Exists
    <3> QED
      BY <3>2, <3>3
  <2> QED
    BY <1>m, <2>1, <2>2, <2>3 DEF MemoOK
<1>8. ASSUME Asked(m0)', n # None
      PROVE  /\ db'.lock[n] = Owner[s]
             /\ \A t \in Slots : ~(slots'[t].job = n /\ slots'[t].claim = db'.processedOn[n])
  <2>1. CASE Starts(s, n)
    <3>1. PICK t \in Slots : slots'[t].job = r.job /\ slots'[t].claim = r.claim
      BY <1>8, <1>m DEF Asked, Holds
    <3>2. slots'[s].job = n /\ slots'[s].claim = db'.processedOn[n]
      BY <2>1 DEF Starts, NewRun
    <3>3. t # s
      BY <1>0, <1>2, <1>8, <3>1, <3>2 DEF IInv, TypeOK, Db
    <3>4. slots[t].job = r.job /\ slots[t].claim = r.claim
      BY <1>0, <1>1, <3>1, <3>3, Names DEF Settles, GoesOn, Idle
    <3> QED
      BY <1>0, <3>3, <3>4 DEF ClaimInv, Apart
  <2>2. CASE \A t \in Slots : GoesOn(t)
    <3>1. ASSUME NEW t \in Slots, slots'[t].job = n, slots'[t].claim = db'.processedOn[n]
          PROVE  FALSE
      <4>1. slots[t].job = n /\ slots[t].claim = db'.processedOn[n] /\ n \in Ids
        BY <1>8, <2>2, <3>1 DEF GoesOn
      <4>2. slots[t].claim <= db.processedOn[n]
        BY <1>2, <1>8, <4>1 DEF ClaimInv, SlotOK
      <4>3. db.processedOn[n] \in Nat /\ db'.processedOn[n] \in Nat
        BY <1>0, <4>1 DEF IInv, TypeOK, Db
      <4> QED
        BY <1>2, <1>8, <4>1, <4>2, <4>3
    <3> QED
      BY <1>2, <1>8, <3>1
  <2> QED
    BY <1>1, <1>8, <2>1, <2>2
<1>9. NextOK(m0)'
  BY <1>8, <1>m DEF NextOK, Holds
<1>10. ASSUME NEW m \in db.fin, Asked(m)', m.next = n, n # None PROVE FALSE
  <2>1. Asked(m) /\ n \in Ids /\ Exists(db, n) /\ m.token \in Tokens
    BY <1>0, <1>2, <1>5, <1>10 DEF Db, Memos
  <2>2. db.lock[n] = m.token /\ \A t \in Slots : ~Holds(t, n, db.processedOn[n])
    BY <1>10, <2>1 DEF ClaimInv, NextOK
  <2>3. ~Claimed(n)
    BY <1>0, <2>1, <2>2 DEF Claimed, Sound, Good, LockOK, Waiting
  <2>4. ~RanAndClaimed(n)
    BY <2>2 DEF RanAndClaimed, Leased, MayCommit, RunHeld, Holds
  <2> QED
    BY <1>2, <1>10, <2>3, <2>4
<1>11. ASSUME NEW m \in db.fin PROVE Differ(m, m0)' /\ Differ(m0, m)'
  BY <1>10, <1>m DEF Differ
<1>12. Differ(m0, m0)'
  BY DEF Differ
<1>13. \A m \in db'.fin : MemoOK(m)' /\ NextOK(m)'
  BY <1>5, <1>7, <1>9, <1>f
<1>14. \A m, o \in db'.fin : Differ(m, o)'
  BY <1>6, <1>11, <1>12, <1>f
<1> QED
  BY <1>4, <1>13, <1>14 DEF ClaimInv

\* Every step keeps the claims apart.
LEMMA ClaimStepKeeps ==
  ASSUME NoReuse, IInv, ClaimInv, [Next]_vars
  PROVE  ClaimInv'
<1>1. ASSUME NEW s \in Slots, Acquire(s) PROVE ClaimInv'
  <2>1. PICK n \in Ids \cup {None} :
          /\ n # None => Claimed(n) /\ db'.lock[n] = Owner[s]
          /\ \A t \in Slots : Settles(t) \/ (t = s /\ n # None /\ Starts(t, n))
          /\ db'.fin = db.fin
    BY <1>1, AcquireStarts
  <2>2. n # None => Exists(db, n) /\ db'.processedOn[n] > db.processedOn[n]
    BY <2>1, FreshClaim
  <2>3. Calm
    BY <2>1, <2>2 DEF Calm, StartsFresh
  <2> QED
    BY <2>1, <2>3, CalmKeeps
<1>2. ASSUME \A s \in Slots : ~Acquire(s) /\ ~FinishCommits(s) /\ ~FinishRecalled(s)
      PROVE  ClaimInv'
  BY <1>2, OthersSettle, CalmKeeps DEF Calm
<1> QED
  BY <1>1, <1>2, CommitKeeps, RecallKeeps

\* The claims are apart throughout.
LEMMA ClaimsAlways ==
  ASSUME NoReuse
  PROVE  Spec => [](IInv /\ ClaimInv)
<1>1. Init => ClaimInv
  BY Names DEF Init, EmptyDb, Idle, ClaimInv, BornOK, SlotOK, Apart, Exists
<1>2. IInv /\ ClaimInv /\ [Next]_vars => ClaimInv'
  BY ClaimStepKeeps
<1> QED
  BY <1>1, <1>2, Invariant, PTL DEF Spec

\* Ids not being reused, no two slots run the same claim of a job, through lost
\* replies, re-sent finishes, sweeps and re-claims (lockAndLoad, rememberFinish).
THEOREM OneRunEach ==
  ASSUME NoReuse
  PROVE  Spec => []OneRunPerClaim
<1>1. IInv /\ ClaimInv => OneRunPerClaim
  BY DEF IInv, TypeOK, Runs, ClaimInv, Apart, OneRunPerClaim
<1> QED
  BY <1>1, ClaimsAlways, PTL

\* Ids not being reused, of all the runs of a job, or of jobs that share a key, at
\* most one can commit: releaseRun refuses every stale one, of any worker.
THEOREM OneCommits ==
  ASSUME NoReuse
  PROVE  Spec => []OneCommitter
<1>1. ASSUME IInv, ClaimInv, NEW s \in Slots, NEW t \in Slots, s # t, MayCommit(s), MayCommit(t)
      PROVE  /\ slots[s].job # slots[t].job
             /\ Ckey[slots[s].job] # None => Ckey[slots[s].job] # Ckey[slots[t].job]
  <2>1. /\ slots[s].job \in Ids /\ slots[t].job \in Ids
        /\ slots[s].claim = db.processedOn[slots[s].job]
        /\ slots[t].claim = db.processedOn[slots[t].job]
    BY <1>1 DEF IInv, TypeOK, Runs, MayCommit, RunHeld
  <2>2. slots[s].job # slots[t].job
    BY <1>1, <2>1 DEF ClaimInv, Apart
  <2>3. db.state[slots[s].job] \in Live /\ db.state[slots[t].job] \in Live
    <3>1. Owner[s] # None /\ Owner[t] # None
      BY JobsAssumption, RedisAssumption
    <3> QED
      BY <1>1, <2>1, <3>1, Names DEF MayCommit, RunHeld, IInv, Sound, Good, LockOK
  <2>4. ASSUME Ckey[slots[s].job] # None, Ckey[slots[s].job] = Ckey[slots[t].job] PROVE FALSE
    <3>1. Ckey[slots[s].job] \in Keys
      BY <2>1, <2>4, RedisAssumption
    <3>2. db.ck[Ckey[slots[s].job]] = slots[s].job /\ db.ck[Ckey[slots[s].job]] = slots[t].job
      BY <1>1, <2>1, <2>3, <2>4, <3>1 DEF IInv, Sound, Good, KeyX
    <3> QED
      BY <2>2, <3>2
  <2> QED
    BY <2>2, <2>4
<1>2. IInv /\ ClaimInv => OneCommitter
  BY <1>1 DEF OneCommitter
<1> QED
  BY <1>2, ClaimsAlways, PTL
=============================================================================

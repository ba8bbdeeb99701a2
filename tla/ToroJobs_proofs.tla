---------------------------- MODULE ToroJobs_proofs ----------------------------
(***************************************************************************)
(* Theorems about ToroJobs, for any jobs, workers, slots, keys, retentions *)
(* and limits.                                                             *)
(***************************************************************************)
EXTENDS ToroJobs, ToroRedis_proofs

\* A slot that is not idle has a job, and one that finishes knows with what.
Busy(r) ==
    /\ r.phase # "idle" => r.job \in Ids
    /\ r.phase = "finish" => r.kind \in Finished
    /\ r.renewing => r.job \in Ids

SlotShape == \A s \in Slots : Busy(slots[s])

\* The inductive invariant: what every script keeps of the database, and what a
\* slot needs to hand a script the job it was written for.
IInv == TypeOK /\ Sound(db) /\ SlotShape

\* The empty database is sound.
LEMMA EmptySound == Sound(EmptyDb)
<1>1. EmptyDb \in Db
  BY DEF EmptyDb, Db
<1>2. HomeX(EmptyDb, {})
  BY Names DEF HomeX, EmptyDb
<1>3. KeyX(EmptyDb, {})
  BY Names DEF KeyX, EmptyDb
<1>4. LockOK(EmptyDb)
  BY DEF LockOK, EmptyDb
<1> QED
  BY <1>1, <1>2, <1>3, <1>4 DEF Sound, Good

\* The invariant holds at the start.
LEMMA InitIInv == Init => IInv
<1> SUFFICES ASSUME Init PROVE IInv
  OBVIOUS
<1>1. Idle \in Runs /\ Busy(Idle)
  BY DEF Idle, Runs, Busy
<1>2. TypeOK
  BY <1>1, EmptySound DEF Init, TypeOK, Sound, Good
<1>3. SlotShape
  BY <1>1 DEF Init, SlotShape
<1> QED
  BY <1>2, <1>3, EmptySound DEF IInv, Init

\* A slot going on with a job, or idling, is a slot.
LEMMA LoadType ==
  ASSUME slots \in [Slots -> Runs], SlotShape, born \in [Ids -> Nat],
         NEW s \in Slots, NEW d \in Db, NEW n \in Ids \cup {None}
  PROVE  Load(s, d, n) \in [Slots -> Runs] /\ \A t \in Slots : Busy(Load(s, d, n)[t])
<1>0. Idle \in Runs /\ Busy(Idle)
  BY DEF Idle, Runs, Busy
<1>1. CASE n = None
  BY <1>0, <1>1 DEF Load, SlotShape
<1>2. CASE n # None
  <2>1. n \in Ids
    BY <1>2
  <2>2. NewRun(d, n) \in Runs /\ Busy(NewRun(d, n))
    <3>1. d.cancel[n] \in BOOLEAN /\ d.processedOn[n] \in Nat /\ born[n] \in Nat
      BY <2>1 DEF Db
    <3> QED
      BY <2>1, <3>1 DEF NewRun, Runs, Busy, Finished
  <2>3. ASSUME NEW t \in Slots
        PROVE  /\ [slots[t] EXCEPT !.registered = FALSE] \in Runs
               /\ Busy([slots[t] EXCEPT !.registered = FALSE])
    <3>1. slots[t] \in Runs /\ Busy(slots[t])
      BY DEF SlotShape
    <3> QED
      BY <3>1 DEF Runs, Busy
  <2>4. Load(s, d, n) = [t \in Slots |->
            IF t = s THEN NewRun(d, n)
            ELSE IF ~d.cancel[n] /\ Owner[t] = Owner[s] /\ slots[t].job = n
                 THEN [slots[t] EXCEPT !.registered = FALSE]
                 ELSE slots[t]]
    BY <1>2 DEF Load
  <2> QED
    BY <2>2, <2>3, <2>4 DEF SlotShape
<1> QED
  BY <1>1, <1>2

\* A cancel request leaves the slots slots.
LEMMA RequestCancelType ==
  ASSUME slots \in [Slots -> Runs], SlotShape, NEW w, NEW j, NEW c
  PROVE  /\ RequestCancel(w, j, c) \in [Slots -> Runs]
         /\ \A t \in Slots : Busy(RequestCancel(w, j, c)[t])
<1>1. ASSUME NEW t \in Slots
      PROVE  /\ [slots[t] EXCEPT !.stop = TRUE] \in Runs
             /\ Busy([slots[t] EXCEPT !.stop = TRUE])
  <2>1. slots[t] \in Runs /\ Busy(slots[t])
    BY DEF SlotShape
  <2> QED
    BY <2>1 DEF Runs, Busy
<1> QED
  BY <1>1 DEF RequestCancel, SlotShape

-----------------------------------------------------------------------------
(* Every action keeps the invariant. *)

\* Producers and operators.
LEMMA OperatorsKeep ==
  ASSUME IInv, NEW j \in Ids,
         Add(j) \/ Cancel(j) \/ Remove(j) \/ Retry(j) \/ Promote(j) \/ LockExpires(j)
  PROVE  IInv'
<1>0. Sound(db) /\ db \in Db
  BY DEF IInv, TypeOK
<1>1. CASE Add(j)
  <2>1. Sound(db')
    BY <1>0, <1>1, AddJobSound DEF Add
  <2> QED
    BY <1>1, <2>1 DEF Add, IInv, TypeOK, SlotShape, Sound, Good
<1>m. ASSUME NEW c \in Nat, Publish(j, c) PROVE (mail \subseteq Messages)'
  BY <1>m DEF Publish, IInv, TypeOK, Messages
<1>2. CASE Cancel(j)
  <2>1. PICK x \in Choices(db, {j}, "cancelled") : db' = CancelJob(db, j, x)
    BY <1>2 DEF Cancel
  <2>2. Sound(db')
    BY <1>0, <1>2, <2>1, CancelJobSound DEF Cancel
  <2>3. mail' \subseteq Messages
    BY <1>0, <1>2, <1>m DEF Cancel, IInv, TypeOK, Db
  <2> QED
    BY <1>2, <2>2, <2>3 DEF Cancel, IInv, TypeOK, SlotShape, Sound, Good
<1>3. CASE Remove(j)
  <2>1. PICK x \in Choices(db, {j}, "failed") : db' = RemoveJob(db, j, x)
    BY <1>3 DEF Remove
  <2>2. Sound(db')
    BY <1>0, <1>3, <2>1, RemoveJobSound DEF Remove
  <2>3. mail' \subseteq Messages
    BY <1>0, <1>3, <1>m DEF Remove, IInv, TypeOK, Db
  <2> QED
    BY <1>3, <2>2, <2>3 DEF Remove, IInv, TypeOK, SlotShape, Sound, Good
<1>4. CASE Retry(j)
  <2>1. Sound(db')
    BY <1>0, <1>4, RetryJobSound DEF Retry
  <2> QED
    BY <1>4, <2>1 DEF Retry, IInv, TypeOK, SlotShape, Sound, Good
<1>5. CASE Promote(j)
  <2>1. Sound(db')
    BY <1>0, <1>5, PromoteJobSound DEF Promote
  <2> QED
    BY <1>5, <2>1 DEF Promote, IInv, TypeOK, SlotShape, Sound, Good
<1>6. CASE LockExpires(j)
  <2>1. /\ db' \in Db /\ db'.coll = db.coll /\ db'.state = db.state /\ db'.ck = db.ck
        /\ db'.held = db.held /\ \A i \in Ids : db'.lock[i] \in {db.lock[i], None}
    BY <1>0, <1>6 DEF LockExpires, ExpireLock, Db
  <2>2. Sound(db')
    BY <1>0, <2>1, MarksSound
  <2> QED
    BY <1>6, <2>1, <2>2 DEF LockExpires, IInv, TypeOK, SlotShape
<1> QED
  BY <1>1, <1>2, <1>3, <1>4, <1>5, <1>6

\* A claim's answers are what a claim may do.
LEMMA ClaimSound ==
  ASSUME NEW d, Sound(d), NEW fetch, NEW c \in Claims(d, fetch), NEW w \in Tokens
  PROVE  c.next \in Ids \cup {None} /\ Sound(AcquireNext(d, c.due, c.next, w, c.now))
<1>1. /\ c.due \in SUBSET d.coll["delayed"] /\ c.next \in Ids \cup {None} /\ c.now \in Nat
      /\ c.next # None => c.next \in Claimable(PromoteDue(d, c.due))
  BY JobsAssumption DEF Claims
<1>2. c.next # None => c.next \in PromoteDue(d, c.due).coll["wait"]
  BY <1>1 DEF Claimable
<1> QED
  BY <1>1, <1>2, AcquireNextSound

\* A slot changed by a finish that is answered, or not.
LEMMA AnswerType ==
  ASSUME IInv, NEW s \in Slots, NEW d \in Db, NEW n \in Ids \cup {None}, Answer(s, d, n)
  PROVE  slots' \in [Slots -> Runs] /\ \A t \in Slots : Busy(slots'[t])
<1>0. slots \in [Slots -> Runs] /\ SlotShape /\ born \in [Ids -> Nat]
  BY DEF IInv, TypeOK
<1>1. CASE slots' = Load(s, d, n)
  BY <1>0, <1>1, LoadType
<1>2. CASE slots' = [slots EXCEPT ![s].fetch = FALSE]
  <2>1. /\ [slots[s] EXCEPT !.fetch = FALSE] \in Runs
        /\ Busy([slots[s] EXCEPT !.fetch = FALSE])
    BY <1>0 DEF SlotShape, Runs, Busy
  <2> QED
    BY <1>0, <1>2, <2>1 DEF SlotShape
<1> QED
  BY <1>1, <1>2 DEF Answer

\* The slots' own steps.
LEMMA SlotsKeep ==
  ASSUME IInv, NEW s \in Slots,
         \/ Acquire(s) \/ EndProcessor(s) \/ FinishRecalled(s) \/ FinishCommits(s)
         \/ FinishRefused(s) \/ FinishUnsent(s)
  PROVE  IInv'
<1>0. /\ Sound(db) /\ db \in Db /\ slots \in [Slots -> Runs] /\ SlotShape
      /\ born \in [Ids -> Nat] /\ Owner[s] \in Tokens /\ slots[s] \in Runs /\ Busy(slots[s])
  BY JobsAssumption DEF IInv, TypeOK, SlotShape
<1>1. CASE Acquire(s)
  <2>1. PICK c \in Claims(db, TRUE) :
          /\ db' = AcquireNext(db, c.due, c.next, Owner[s], c.now)
          /\ slots' = Load(s, db', c.next) \/ slots' = slots
    BY <1>1 DEF Acquire
  <2>2. c.next \in Ids \cup {None} /\ Sound(db')
    BY <1>0, <2>1, ClaimSound
  <2>3. db' \in Db
    BY <2>2 DEF Sound, Good
  <2>4. slots' \in [Slots -> Runs] /\ \A t \in Slots : Busy(slots'[t])
    BY <1>0, <2>1, <2>2, <2>3, LoadType DEF SlotShape
  <2> QED
    BY <1>1, <2>2, <2>3, <2>4 DEF Acquire, IInv, TypeOK, SlotShape
<1>2. CASE EndProcessor(s)
  <2>1. PICK kind \in Finished :
          slots' = [slots EXCEPT ![s].phase = "finish", ![s].kind = kind,
                    ![s].fetch = (workers[Owner[s]] = "up" /\ kind # "cancelled")]
    BY <1>2 DEF EndProcessor, Finished
  <2> DEFINE r == [slots[s] EXCEPT !.phase = "finish", !.kind = kind,
                    !.fetch = (workers[Owner[s]] = "up" /\ kind # "cancelled")]
  <2>2. r \in Runs /\ Busy(r)
    BY <1>0, <1>2 DEF Runs, Busy, EndProcessor
  <2>3. slots' = [slots EXCEPT ![s] = r]
    BY <1>0, <2>1
  <2> HIDE DEF r
  <2>4. slots' \in [Slots -> Runs] /\ \A t \in Slots : Busy(slots'[t])
    BY <1>0, <2>2, <2>3 DEF SlotShape
  <2> QED
    BY <1>2, <2>4 DEF EndProcessor, IInv, TypeOK, SlotShape
<1>3. CASE FinishRecalled(s)
  <2>1. PICK m \in db.fin :
          Answer(s, db, IF slots[s].kind = "cancelled" THEN None ELSE RecalledNext(db, m))
    BY <1>3 DEF FinishRecalled, Recalled
  <2>2. m.next \in Ids \cup {None}
    BY <1>0, <2>1 DEF Db, Memos
  <2>3. (IF slots[s].kind = "cancelled" THEN None ELSE RecalledNext(db, m)) \in Ids \cup {None}
    BY <2>2 DEF RecalledNext
  <2>4. slots' \in [Slots -> Runs] /\ \A t \in Slots : Busy(slots'[t])
    BY <1>0, <2>1, <2>3, AnswerType
  <2> QED
    BY <1>3, <2>4 DEF FinishRecalled, IInv, TypeOK, SlotShape
<1>4. CASE FinishCommits(s)
  <2> DEFINE r == slots[s]  w == Owner[s]
  <2>0. r.job \in Ids /\ r.kind \in Finished /\ r.job \in db.coll["active"] /\ r.claim \in Nat
    BY <1>0, <1>4 DEF FinishCommits, Busy, Runs
  <2>1. PICK x \in Choices(db, {r.job}, r.kind) :
          \E c \in Claims(Commit(db, r.kind, r.job, x), r.fetch) :
            /\ db' = RememberFinish(AcquireNext(Commit(db, r.kind, r.job, x),
                                                c.due, c.next, w, c.now),
                                    w, r.job, r.claim, c.next)
            /\ Answer(s, db', c.next)
    BY <1>4 DEF FinishCommits
  <2> DEFINE p == Commit(db, r.kind, r.job, x)
  <2>2. Sound(p)
    BY <1>0, <2>0, CommitSound
  <2>3. PICK c \in Claims(p, r.fetch) :
            /\ db' = RememberFinish(AcquireNext(p, c.due, c.next, w, c.now),
                                    w, r.job, r.claim, c.next)
            /\ Answer(s, db', c.next)
    BY <2>1
  <2> HIDE DEF p
  <2> DEFINE q == AcquireNext(p, c.due, c.next, w, c.now)
  <2>4. c.next \in Ids \cup {None} /\ Sound(q)
    BY <1>0, <2>2, <2>3, ClaimSound
  <2>5. db' = RememberFinish(q, w, r.job, r.claim, c.next)
    BY <2>3
  <2> HIDE DEF q
  <2>6. /\ db' \in Db /\ db'.coll = q.coll /\ db'.state = q.state /\ db'.ck = q.ck
        /\ db'.held = q.held /\ db'.lock = q.lock
    <3>1. [token |-> w, job |-> r.job, claim |-> r.claim, next |-> c.next] \in Memos
      BY <1>0, <2>0, <2>4 DEF Memos
    <3> QED
      BY <2>4, <2>5, <3>1 DEF RememberFinish, Sound, Good, Db
  <2>7. Sound(db')
    BY <2>4, <2>6, MarksSound
  <2>8. slots' \in [Slots -> Runs] /\ \A t \in Slots : Busy(slots'[t])
    BY <2>3, <2>4, <2>6, AnswerType
  <2> QED
    BY <1>4, <2>6, <2>7, <2>8 DEF FinishCommits, IInv, TypeOK, SlotShape
<1>5. CASE FinishRefused(s)
  <2>0. slots[s].job \in Ids
    BY <1>0, <1>5 DEF FinishRefused, Busy
  <2>1. /\ db' \in Db /\ db'.coll = db.coll /\ db'.state = db.state /\ db'.ck = db.ck
        /\ db'.held = db.held /\ \A i \in Ids : db'.lock[i] \in {db.lock[i], None}
    BY <1>0, <1>5, <2>0 DEF FinishRefused, Refuse, Db
  <2>2. Sound(db')
    BY <1>0, <2>1, MarksSound
  <2>3. slots' \in [Slots -> Runs] /\ \A t \in Slots : Busy(slots'[t])
    BY <1>5, <2>1, AnswerType DEF FinishRefused
  <2> QED
    BY <1>5, <2>1, <2>2, <2>3 DEF FinishRefused, IInv, TypeOK, SlotShape
<1>6. CASE FinishUnsent(s)
  <2>1. /\ [slots[s] EXCEPT !.fetch = FALSE] \in Runs
        /\ Busy([slots[s] EXCEPT !.fetch = FALSE])
        /\ Idle \in Runs /\ Busy(Idle)
    BY <1>0 DEF Runs, Busy, Idle
  <2>2. slots' \in [Slots -> Runs] /\ \A t \in Slots : Busy(slots'[t])
    BY <1>0, <1>6, <2>1 DEF FinishUnsent, SlotShape
  <2> QED
    BY <1>6, <2>2 DEF FinishUnsent, IInv, TypeOK, SlotShape
<1> QED
  BY <1>1, <1>2, <1>3, <1>4, <1>5, <1>6

\* Renewals, sweeps, deliveries and the workers' comings and goings.
LEMMA ServiceKeeps ==
  ASSUME IInv,
         \/ \E s \in Slots : Renew(s) \/ RenewUnheard(s) \/ CutOff(s)
         \/ \E p \in BOOLEAN : SetPaused(p)
         \/ \E m \in db.fin : MemoExpires(m)
         \/ Sweep
         \/ \E m \in mail : HearCancel(m) \/ LoseCancel(m)
         \/ \E w \in Tokens : Stop(w) \/ Restart(w) \/ Crash(w)
  PROVE  IInv'
<1>0. /\ Sound(db) /\ db \in Db /\ slots \in [Slots -> Runs] /\ SlotShape
      /\ mail \subseteq Messages
      /\ Idle \in Runs /\ Busy(Idle)
  BY DEF IInv, TypeOK, Idle, Runs, Busy
<1>x. ASSUME NEW s \in Slots
      PROVE  /\ db' = ExtendLock(db, Owner[s], slots[s].job) /\ slots[s].renewing
                => db' \in Db /\ Sound(db')
             /\ \A t \in [Slots -> Runs] : (\A q \in Slots : Busy(t[q])) =>
                  LET u == [t EXCEPT ![s].renewing = FALSE]
                  IN u \in [Slots -> Runs] /\ \A q \in Slots : Busy(u[q])
  <2>1. slots[s].renewing => slots[s].job \in Ids
    BY <1>0 DEF SlotShape, Busy
  <2>2. ASSUME db' = ExtendLock(db, Owner[s], slots[s].job), slots[s].renewing
        PROVE  db' \in Db /\ Sound(db')
    <3>1. /\ db' \in Db /\ db'.coll = db.coll /\ db'.state = db.state /\ db'.ck = db.ck
          /\ db'.held = db.held /\ db'.lock = db.lock
      BY <1>0, <2>1, <2>2 DEF ExtendLock, Db
    <3> QED
      BY <1>0, <3>1, MarksSound
  <2>3. ASSUME NEW t \in [Slots -> Runs], \A q \in Slots : Busy(t[q])
        PROVE  /\ [t EXCEPT ![s].renewing = FALSE] \in [Slots -> Runs]
               /\ \A q \in Slots : Busy([t EXCEPT ![s].renewing = FALSE][q])
    <3>1. [t[s] EXCEPT !.renewing = FALSE] \in Runs /\ Busy([t[s] EXCEPT !.renewing = FALSE])
      BY <2>3 DEF Runs, Busy
    <3> QED
      BY <2>3, <3>1
  <2> QED
    BY <2>2, <2>3
<1>1. ASSUME NEW s \in Slots, Renew(s) PROVE IInv'
  <2> DEFINE r == slots[s]  w == Owner[s]  asked == RequestCancel(w, r.job, 0)
  <2>1. db' \in Db /\ Sound(db')
    BY <1>1, <1>x DEF Renew
  <2>2. asked \in [Slots -> Runs] /\ \A t \in Slots : Busy(asked[t])
    BY <1>0, RequestCancelType
  <2>3. \/ slots' = asked \/ slots' = slots
        \/ slots' = [slots EXCEPT ![s].renewing = FALSE]
        \/ slots' = [asked EXCEPT ![s].renewing = FALSE]
    <3> HIDE DEF asked
    <3> QED BY <1>1 DEF Renew, asked
  <2> HIDE DEF asked
  <2>4. slots' \in [Slots -> Runs] /\ \A t \in Slots : Busy(slots'[t])
    BY <1>0, <1>x, <2>2, <2>3 DEF SlotShape
  <2> QED
    BY <1>1, <2>1, <2>4 DEF Renew, IInv, TypeOK, SlotShape
<1>2. ASSUME NEW s \in Slots, RenewUnheard(s) PROVE IInv'
  <2>1. db' \in Db /\ Sound(db')
    BY <1>0, <1>2, <1>x DEF RenewUnheard
  <2>2. slots' \in [Slots -> Runs] /\ \A t \in Slots : Busy(slots'[t])
    BY <1>0, <1>2, <1>x DEF RenewUnheard, SlotShape
  <2> QED
    BY <1>2, <2>1, <2>2 DEF RenewUnheard, IInv, TypeOK, SlotShape
<1>3. ASSUME NEW s \in Slots, CutOff(s) PROVE IInv'
  <2>1. slots[s].job \in Ids
    BY <1>0, <1>3 DEF CutOff, SlotShape, Busy
  <2>2. Sound(db')
    BY <1>0, <1>3, <2>1, ReleaseJobSound DEF CutOff
  <2>3. slots' \in [Slots -> Runs] /\ \A t \in Slots : Busy(slots'[t])
    BY <1>0, <1>3 DEF CutOff, SlotShape
  <2> QED
    BY <1>3, <2>2, <2>3 DEF CutOff, IInv, TypeOK, SlotShape, Sound, Good
<1>4. ASSUME NEW p \in BOOLEAN, SetPaused(p) PROVE IInv'
  <2>1. /\ db' \in Db /\ db'.coll = db.coll /\ db'.state = db.state /\ db'.ck = db.ck
        /\ db'.held = db.held /\ db'.lock = db.lock
    BY <1>0, <1>4 DEF SetPaused, Db
  <2>2. Sound(db')
    BY <1>0, <2>1, MarksSound
  <2> QED
    BY <1>4, <2>1, <2>2 DEF SetPaused, IInv, TypeOK, SlotShape
<1>5. ASSUME NEW m \in db.fin, MemoExpires(m) PROVE IInv'
  <2>1. /\ db' \in Db /\ db'.coll = db.coll /\ db'.state = db.state /\ db'.ck = db.ck
        /\ db'.held = db.held /\ db'.lock = db.lock
    BY <1>0, <1>5 DEF MemoExpires, Db
  <2>2. Sound(db')
    BY <1>0, <2>1, MarksSound
  <2> QED
    BY <1>5, <2>1, <2>2 DEF MemoExpires, IInv, TypeOK, SlotShape
<1>6. CASE Sweep
  <2>1. Sound(db')
    BY <1>0, <1>6, MoveStalledSound DEF Sweep
  <2> QED
    BY <1>6, <2>1 DEF Sweep, IInv, TypeOK, SlotShape, Sound, Good
<1>7. ASSUME NEW m \in mail, HearCancel(m) \/ LoseCancel(m) PROVE IInv'
  <2>1. slots' \in [Slots -> Runs] /\ \A t \in Slots : Busy(slots'[t])
    BY <1>0, <1>7, RequestCancelType DEF HearCancel, LoseCancel, SlotShape
  <2>2. mail' \subseteq Messages
    BY <1>0, <1>7 DEF HearCancel, LoseCancel
  <2> QED
    BY <1>7, <2>1, <2>2 DEF HearCancel, LoseCancel, IInv, TypeOK, SlotShape
<1>8. ASSUME NEW w \in Tokens, Stop(w) \/ Restart(w) \/ Crash(w) PROVE IInv'
  <2>1. slots' \in [Slots -> Runs] /\ \A t \in Slots : Busy(slots'[t])
    BY <1>0, <1>8 DEF Stop, Restart, Crash, SlotShape
  <2>2. mail' \subseteq Messages /\ workers' \in [Tokens -> {"up", "draining", "crashed"}]
    BY <1>0, <1>8 DEF Stop, Restart, Crash, IInv, TypeOK
  <2> QED
    BY <1>8, <2>1, <2>2 DEF Stop, Restart, Crash, IInv, TypeOK, SlotShape
<1> QED
  BY <1>1, <1>2, <1>3, <1>4, <1>5, <1>6, <1>7, <1>8

\* Every step of the specification keeps the invariant.
LEMMA NextIInv == IInv /\ [Next]_vars => IInv'
<1> SUFFICES ASSUME IInv, [Next]_vars PROVE IInv'
  OBVIOUS
<1>1. CASE UNCHANGED vars
  BY <1>1 DEF vars, IInv, TypeOK, SlotShape
<1>2. CASE Next
  BY <1>2, OperatorsKeep, SlotsKeep, ServiceKeeps DEF Next
<1> QED
  BY <1>1, <1>2

\* The invariant holds throughout.
THEOREM Invariant == Spec => []IInv
BY InitIInv, NextIInv, PTL DEF Spec

-----------------------------------------------------------------------------
\* The database, the slots and the messages keep their types in every reachable
\* state, whatever the scripts are called with.
THEOREM TypeCorrect == Spec => []TypeOK
<1>1. IInv => TypeOK
  BY DEF IInv
<1> QED
  BY <1>1, Invariant, PTL

\* Every job is in exactly the collection its state field names, through every
\* interleaving of the scripts (scripts.py, removeFromState relies on it).
THEOREM OneHome == Spec => []SingleHome
<1>1. IInv => SingleHome
  BY DEF IInv, Sound, Good, HomeX, SingleHome
<1> QED
  BY <1>1, Invariant, PTL

\* Of the jobs that share a concurrency key exactly the holder is live, the rest
\* are queued behind it, and a free key has no queue (takeKey, releaseKey, unkey).
THEOREM KeysHandedOn == Spec => []KeyHeldByOne
<1>1. ASSUME IInv PROVE KeyHeldByOne
  <2> SUFFICES ASSUME NEW k \in Keys
               PROVE  /\ \A j \in Ids : Ckey[j] = k /\ db.state[j] \in Live <=> db.ck[k] = j
                      /\ db.held[k] = {j \in Ids : Ckey[j] = k /\ db.state[j] = "held"}
                      /\ db.ck[k] = None => db.held[k] = {}
    BY DEF KeyHeldByOne
  <2>1. db \in Db /\ KeyX(db, {})
    BY <1>1 DEF IInv, Sound, Good
  <2>2. db.held[k] \subseteq Ids
    BY <2>1 DEF Db
  <2>3. /\ \A j \in Ids : db.ck[k] = j <=> Ckey[j] = k /\ db.state[j] \in Live
        /\ \A j \in Ids : j \in db.held[k] <=> Ckey[j] = k /\ db.state[j] = "held"
        /\ db.ck[k] = None => \A j \in Ids : j \notin db.held[k]
    BY <2>1 DEF KeyX
  <2> QED
    BY <2>2, <2>3
<1> QED
  BY <1>1, Invariant, PTL

\* Only an active job is locked, so a finish that passes the lock's guard finds
\* its job in active: releaseRun never answers NOT_ACTIVE.
THEOREM LocksAreActive == Spec => []LockMeansActive
<1>1. IInv => LockMeansActive
  BY DEF IInv, Sound, Good, LockOK, LockMeansActive
<1> QED
  BY <1>1, Invariant, PTL
=============================================================================

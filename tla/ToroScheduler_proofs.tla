------------------------- MODULE ToroScheduler_proofs -------------------------
(***************************************************************************)
(* A schedule that is removed stays silent, and registering it again never *)
(* takes an occurrence away from its run: for any number of callers,       *)
(* workers and registrations, and any cadences.                            *)
(***************************************************************************)
EXTENDS ToroScheduler, TLAPS

\* The successor of slot w is on the time line, whatever the cadence.
Fits(w) == \A v \in Versions : NextRun(w, Every[v]) <= Horizon

\* What a call of add_scheduler or remove_scheduler has when it needs it.
CallerOK(c) ==
    /\ callers[c].pc \notin {"idle", "remove"} => callers[c].version \in Versions
    /\ callers[c].pc \in {"move", "watch", "drop", "enqueue"} => callers[c].when \in Times
    /\ callers[c].pc \in {"watch", "drop", "remove"} => callers[c].previous \in Times

\* What _schedule_next has: an occurrence whose time has come, a template, a slot.
MinterOK(m) ==
    /\ minters[m].pc # "idle" => minters[m].job \in Times /\ Fits(minters[m].job)
    /\ minters[m].pc \in {"move", "mint"} => minters[m].version \in Versions
    /\ minters[m].pc = "mint" => minters[m].when \in Times

OccurrenceOK(w) == occ[w].state \in {"wait", "active", "finished"} => Fits(w)

\* A WATCH that no write has broken is on an occurrence that has not started.
WatchOK(c) ==
    c \in watching => /\ callers[c].pc = "drop"
                      /\ occ[callers[c].previous].state \in {"delayed", "held"}

SchedulerInv ==
    /\ TypeOK
    /\ \A c \in Callers : CallerOK(c) /\ WatchOK(c)
    /\ \A m \in Minters : MinterOK(m)
    /\ \A w \in Times : OccurrenceOK(w)

-----------------------------------------------------------------------------
(* The grid of slots. *)

\* An earlier reading of the clock has no later slot.
LEMMA SlotsGrow ==
  ASSUME NEW s \in Nat, NEW t \in Nat, s <= t, NEW e \in Nat \ {0}
  PROVE  NextRun(s, e) \in Nat \ {0} /\ NextRun(s, e) <= NextRun(t, e)
<1> DEFINE p == s \div e
           q == t \div e
<1>1. p \in Nat /\ q \in Nat /\ e * p <= s /\ t < e * q + e
  OBVIOUS
<1>2. p <= q
  <2> HIDE DEF p, q
  <2>1. SUFFICES ASSUME q + 1 <= p PROVE FALSE
    BY <1>1
  <2>2. e * (q + 1) <= e * p
    BY <1>1, <2>1
  <2>3. e * (q + 1) = e * q + e
    BY <1>1
  <2> QED
    BY <1>1, <2>2, <2>3
<1>3. (p + 1) * e <= (q + 1) * e /\ (p + 1) * e \in Nat \ {0}
  BY <1>1, <1>2
<1> QED
  BY <1>3 DEF NextRun

\* A slot that is due has a successor.
LEMMA DueFits ==
  ASSUME NEW t \in Nat, t <= MaxNow
  PROVE  Fits(t) /\ \A v \in Versions : NextRun(t, Every[v]) \in Times
<1> SUFFICES ASSUME NEW v \in Versions
             PROVE  NextRun(t, Every[v]) \in Times /\ NextRun(t, Every[v]) <= Horizon
  BY DEF Fits
<1>1. Every[v] \in Nat \ {0} /\ NextRun(MaxNow, Every[v]) <= Horizon /\ MaxNow \in Nat
      /\ Horizon \in Nat
  BY SchedulerAssumption
<1>2. NextRun(t, Every[v]) \in Nat \ {0} /\ NextRun(t, Every[v]) <= NextRun(MaxNow, Every[v])
  BY <1>1, SlotsGrow
<1>3. NextRun(MaxNow, Every[v]) \in Nat \ {0}
  BY <1>1, SlotsGrow
<1> QED
  BY <1>1, <1>2, <1>3 DEF Times

-----------------------------------------------------------------------------
(* Writing occurrences. *)

\* What every step but the WATCH itself does to the occurrences and the WATCHes on them.
Written ==
    /\ occ' \in [Times -> Occurrences] /\ watching' \subseteq watching
    /\ \A w \in Times : OccurrenceOK(w)'
    /\ \A c \in watching' :
         callers[c].previous \in Times => occ'[callers[c].previous] = occ[callers[c].previous]

\* Leaving them alone is one way.
LEMMA LeftAlone ==
  ASSUME SchedulerInv, UNCHANGED <<occ, watching>>
  PROVE  Written
BY DEF SchedulerInv, TypeOK, Written, OccurrenceOK

\* Writing one of them, which breaks the WATCHes on it, is the other.
LEMMA WriteWrites ==
  ASSUME SchedulerInv, NEW w \in Times, NEW o \in Occurrences,
         o.state \in {"wait", "active", "finished"} => Fits(w), Write(w, o)
  PROVE  Written
<1>1. /\ occ \in [Times -> Occurrences] /\ occ' = [occ EXCEPT ![w] = o]
      /\ watching' = {c \in watching : callers[c].previous # w}
  BY DEF SchedulerInv, TypeOK, Write
<1>2. ASSUME NEW x \in Times PROVE OccurrenceOK(x)'
  BY <1>1 DEF SchedulerInv, OccurrenceOK
<1> QED
  BY <1>1, <1>2 DEF Written

\* ADD_SCHEDULED makes an occurrence that has not started, or nothing.
LEMMA AddScheduledWrites ==
  ASSUME SchedulerInv, NEW w \in Times, NEW v \in Versions, AddScheduled(w, v)
  PROVE  Written
<1>1. CASE slot = w /\ occ[w].state = None
  <2>1. PICK s \in {"delayed", "held"} : Write(w, [state |-> s, version |-> v, by |-> None])
    BY <1>1 DEF AddScheduled
  <2>2. [state |-> s, version |-> v, by |-> None] \in Occurrences
    BY DEF Occurrences, Pending
  <2> QED
    BY <2>1, <2>2, WriteWrites
<1>2. CASE ~(slot = w /\ occ[w].state = None)
  BY <1>2, LeftAlone DEF AddScheduled
<1> QED
  BY <1>1, <1>2

\* So do all the steps that change an occurrence.
LEMMA StepsWrite ==
  ASSUME SchedulerInv, [Next]_vars, ~\E c \in Callers : DropWatch(c)
  PROVE  Written
<1>0. \A w \in Times : occ[w] \in Occurrences
  BY DEF SchedulerInv, TypeOK
<1>1. Gone \in Occurrences /\ Gone.state = None
  BY DEF Gone, Occurrences
<1>2. ASSUME NEW w \in Times, Write(w, Gone) PROVE Written
  BY <1>1, <1>2, WriteWrites, SchedulerAssumption
<1>3. ASSUME NEW w \in Times, NEW st \in {"delayed", "held", "cancelled"},
             Write(w, [occ[w] EXCEPT !.state = st]) \/ Write(w, [occ[w] EXCEPT !.state = st, !.by = None])
      PROVE  Written
  <2>1. /\ [occ[w] EXCEPT !.state = st] \in Occurrences
        /\ [occ[w] EXCEPT !.state = st, !.by = None] \in Occurrences
        /\ [occ[w] EXCEPT !.state = st].state = st
        /\ [occ[w] EXCEPT !.state = st, !.by = None].state = st
    BY <1>0 DEF Occurrences, Pending, Ended
  <2> QED
    BY <1>3, <2>1, WriteWrites
<1>4. ASSUME NEW w \in Times, Fits(w), NEW st \in {"wait", "active", "finished"},
             NEW b \in Minters \cup {None},
             Write(w, [occ[w] EXCEPT !.state = st]) \/ Write(w, [occ[w] EXCEPT !.state = st, !.by = b])
      PROVE  Written
  <2>1. /\ [occ[w] EXCEPT !.state = st] \in Occurrences
        /\ [occ[w] EXCEPT !.state = st, !.by = b] \in Occurrences
    BY <1>0 DEF Occurrences, Pending, Ended
  <2> QED
    BY <1>4, <2>1, WriteWrites
<1>5. ASSUME NEW w \in Times, occ[w].state \in {"wait", "active", "finished"} PROVE Fits(w)
  BY <1>5 DEF SchedulerInv, OccurrenceOK
<1>6. ASSUME NEW c \in Callers, Calls(c) \/ CallerDies(c) PROVE Written
  <2>1. CASE AddTemplate(c) \/ AddRead(c) \/ AddMove(c) \/ RemoveSchedule(c)
    BY <2>1, LeftAlone DEF AddTemplate, AddRead, AddMove, RemoveSchedule
  <2>2. CASE DropExec(c)
    <3>1. CASE c \in watching
      BY <1>2, <2>2, <3>1 DEF DropExec, SchedulerInv, CallerOK
    <3>2. CASE c \notin watching
      BY <2>2, <3>2, LeftAlone DEF DropExec
    <3> QED
      BY <3>1, <3>2
  <2>3. CASE AddEnqueue(c)
    BY <2>3, AddScheduledWrites DEF AddEnqueue, SchedulerInv, CallerOK
  <2>4. CASE RemoveOccurrence(c)
    BY <1>2, <2>4 DEF RemoveOccurrence, SchedulerInv, CallerOK
  <2>5. CASE CallerDies(c)
    BY <2>5 DEF CallerDies, SchedulerInv, TypeOK, OccurrenceOK, Written
  <2> QED
    BY <1>6, <2>1, <2>2, <2>3, <2>4, <2>5 DEF Calls
<1>7. ASSUME NEW m \in Minters, Mints(m) \/ CheckOverdue(m) \/ MinterDies(m) PROVE Written
  <2>1. CASE \/ CheckOccurrence(m) \/ ReadTemplate(m) \/ ReadSlot(m) \/ MoveSlot(m)
             \/ CheckOverdue(m) \/ MinterDies(m)
    BY <2>1, LeftAlone DEF CheckOccurrence, ReadTemplate, ReadSlot, MoveSlot, CheckOverdue, MinterDies
  <2>2. CASE Mint(m)
    BY <2>2, AddScheduledWrites DEF Mint, SchedulerInv, MinterOK
  <2>3. CASE EndRun(m)
    <3> DEFINE w == minters[m].job
    <3>1. w \in Times /\ Fits(w)
      BY <2>3 DEF EndRun, SchedulerInv, MinterOK
    <3>2. CASE occ[w].state = "active" /\ occ[w].by = m
      BY <1>2, <1>3, <1>4, <2>3, <3>1, <3>2 DEF EndRun, Ended
    <3>3. CASE ~(occ[w].state = "active" /\ occ[w].by = m)
      BY <2>3, <3>3, LeftAlone DEF EndRun
    <3> QED
      BY <3>2, <3>3
  <2> QED
    BY <1>7, <2>1, <2>2, <2>3 DEF Mints
<1>8. ASSUME NEW m \in Minters, NEW w \in Times, PickUp(m, w) \/ PickUpCancelled(m, w)
      PROVE  Written
  BY <1>4, <1>5, <1>8 DEF PickUp, PickUpCancelled
<1>9. ASSUME NEW w \in Times,
             \/ Sweep(w) \/ Promote(w) \/ KeyFreed(w) \/ DropOccurrence(w) \/ RetryOccurrence(w)
      PROVE  Written
  <2>1. CASE Sweep(w)
    BY <1>2, <1>4, <1>5, <2>1 DEF Sweep
  <2>2. CASE Promote(w)
    <3>1. Fits(w)
      BY <2>2, DueFits, SchedulerAssumption DEF Promote, Fits, SchedulerInv, TypeOK, Times
    <3> QED
      BY <1>4, <2>2, <3>1 DEF Promote
  <2>3. CASE KeyFreed(w)
    <3>1. CASE w > now
      BY <1>3, <2>3, <3>1 DEF KeyFreed
    <3>2. CASE ~(w > now)
      <4>1. Fits(w)
        BY <3>2, DueFits, SchedulerAssumption DEF SchedulerInv, TypeOK, Times
      <4> QED
        BY <1>4, <2>3, <3>2, <4>1 DEF KeyFreed
    <3> QED
      BY <3>1, <3>2
  <2>4. CASE DropOccurrence(w)
    BY <1>2, <1>3, <2>4 DEF DropOccurrence
  <2>5. CASE RetryOccurrence(w)
    <3>1. Fits(w)
      BY <1>5, <2>5 DEF RetryOccurrence
    <3> QED
      BY <1>3, <1>4, <2>5, <3>1 DEF RetryOccurrence
  <2> QED
    BY <1>9, <2>1, <2>2, <2>3, <2>4, <2>5
<1>10. CASE Tick \/ UNCHANGED vars
  BY <1>10, LeftAlone DEF Tick, vars
<1> QED
  BY <1>6, <1>7, <1>8, <1>9, <1>10 DEF Next

-----------------------------------------------------------------------------
(* The calls, the minters and the WATCHes. *)

\* A caller's step leaves it what its next round trip needs.
LEMMA CallersStep ==
  ASSUME SchedulerInv, [Next]_vars
  PROVE  callers' \in [Callers -> CallerStates] /\ \A c \in Callers : CallerOK(c)'
<1> DEFINE Good == callers' \in [Callers -> CallerStates] /\ \A c \in Callers : CallerOK(c)'
<1>0. callers \in [Callers -> CallerStates] /\ slot \in Times \cup {None} /\ now \in Nat
      /\ now <= MaxNow /\ MaxNow \in Nat
  BY SchedulerAssumption DEF SchedulerInv, TypeOK
<1>1. ASSUME NEW c \in Callers, NEW a \in CallerStates, callers' = [callers EXCEPT ![c] = a],
             /\ a.pc \notin {"idle", "remove"} => a.version \in Versions
             /\ a.pc \in {"move", "watch", "drop", "enqueue"} => a.when \in Times
             /\ a.pc \in {"watch", "drop", "remove"} => a.previous \in Times
      PROVE  Good
  BY <1>0, <1>1 DEF SchedulerInv, CallerOK
<1>2. CASE callers' = callers
  BY <1>0, <1>2 DEF SchedulerInv, CallerOK
<1>3. ASSUME NEW c \in Callers, Calls(c) \/ CallerDies(c) PROVE Good
  <2>0. callers[c] \in CallerStates /\ CallerOK(c)
    BY <1>0 DEF SchedulerInv
  <2>1. CASE AddTemplate(c)
    <3> DEFINE a == [CallerIdle EXCEPT !.pc = "read", !.version = added + 1, !.at = now]
    <3>1. a \in CallerStates /\ a.pc = "read" /\ a.version \in Versions
      BY <1>0, <2>1 DEF AddTemplate, CallerStates, CallerIdle
    <3>2. callers' = [callers EXCEPT ![c] = a]
      BY <2>1 DEF AddTemplate
    <3> HIDE DEF a
    <3> QED
      BY <1>1, <3>1, <3>2
  <2>2. CASE AddRead(c)
    <3>1. PICK t \in callers[c].at..now :
            callers' = [callers EXCEPT ![c].pc = "move", ![c].previous = slot, ![c].at = 0,
                                       ![c].when = NextRun(t, Every[callers[c].version])]
      BY <2>2 DEF AddRead
    <3>2. t \in Nat /\ t <= MaxNow
      BY <1>0, <2>0 DEF CallerStates
    <3>3. callers[c].version \in Versions
      BY <2>0, <2>2 DEF AddRead, CallerOK
    <3> DEFINE when == NextRun(t, Every[callers[c].version])
               a == [callers[c] EXCEPT !.pc = "move", !.previous = slot, !.at = 0, !.when = when]
    <3>4. when \in Times
      BY <3>2, <3>3, DueFits
    <3>5. callers' = [callers EXCEPT ![c] = a]
      BY <1>0, <3>1
    <3> HIDE DEF when
    <3>6. a \in CallerStates /\ a.pc = "move" /\ a.version \in Versions /\ a.when \in Times
      BY <1>0, <2>0, <3>3, <3>4 DEF CallerStates
    <3> HIDE DEF a
    <3> QED
      BY <1>1, <3>5, <3>6
  <2>3. CASE AddMove(c)
    <3> DEFINE to == IF callers[c].previous = None THEN "enqueue" ELSE "watch"
               b == [callers[c] EXCEPT !.pc = to]
    <3>1. callers' = [callers EXCEPT ![c] = b]
      BY <1>0, <2>3 DEF AddMove
    <3>2. b \in CallerStates /\ b.pc = to /\ b.version = callers[c].version
          /\ b.when = callers[c].when /\ b.previous = callers[c].previous
      BY <2>0 DEF CallerStates
    <3>3. to \in {"enqueue", "watch"} /\ (to = "watch" => callers[c].previous \in Times)
      BY <2>0 DEF CallerStates
    <3>4. callers[c].version \in Versions /\ callers[c].when \in Times
      BY <2>0, <2>3 DEF AddMove, CallerOK
    <3> HIDE DEF b, to
    <3> QED
      BY <1>1, <3>1, <3>2, <3>3, <3>4
  <2>4. CASE DropWatch(c) \/ DropExec(c)
    <3>1. PICK to \in {"drop", "enqueue"} : callers' = [callers EXCEPT ![c].pc = to]
      BY <2>4 DEF DropWatch, DropExec
    <3> DEFINE b == [callers[c] EXCEPT !.pc = to]
    <3>2. callers' = [callers EXCEPT ![c] = b]
      BY <1>0, <3>1
    <3>3. b \in CallerStates /\ b.pc = to /\ b.version = callers[c].version
          /\ b.when = callers[c].when /\ b.previous = callers[c].previous
      BY <2>0 DEF CallerStates
    <3>4. callers[c].version \in Versions /\ callers[c].when \in Times /\ callers[c].previous \in Times
      BY <2>0, <2>4 DEF DropWatch, DropExec, CallerOK
    <3> HIDE DEF b
    <3> QED
      BY <1>1, <3>2, <3>3, <3>4
  <2>5. CASE AddEnqueue(c) \/ RemoveOccurrence(c) \/ CallerDies(c)
    <3>1. CallerIdle \in CallerStates /\ CallerIdle.pc = "idle"
      BY DEF CallerIdle, CallerStates
    <3>2. callers' = [callers EXCEPT ![c] = CallerIdle]
      BY <2>5 DEF AddEnqueue, RemoveOccurrence, CallerDies
    <3> QED
      BY <1>1, <3>1, <3>2
  <2>6. CASE RemoveSchedule(c)
    <3>1. CASE slot = None
      BY <1>2, <2>6, <3>1 DEF RemoveSchedule
    <3>2. CASE slot # None
      <4> DEFINE b == [callers[c] EXCEPT !.pc = "remove", !.previous = slot]
      <4>1. callers' = [callers EXCEPT ![c] = b]
        BY <1>0, <2>6, <3>2 DEF RemoveSchedule
      <4>2. b \in CallerStates /\ b.pc = "remove" /\ b.previous = slot
        BY <1>0, <2>0 DEF CallerStates
      <4>3. slot \in Times
        BY <1>0, <3>2
      <4> HIDE DEF b
      <4> QED
        BY <1>1, <4>1, <4>2, <4>3
    <3> QED
      BY <3>1, <3>2
  <2> QED
    BY <1>3, <2>1, <2>2, <2>3, <2>4, <2>5, <2>6 DEF Calls
<1>4. ASSUME ~\E c \in Callers : Calls(c) \/ CallerDies(c) PROVE callers' = callers
  BY <1>4 DEF Next, vars, Mints, CheckOccurrence, ReadTemplate, ReadSlot, MoveSlot, Mint, EndRun,
              CheckOverdue, MinterDies, PickUp, PickUpCancelled, Sweep, Promote, KeyFreed,
              DropOccurrence, RetryOccurrence, Tick
<1> QED
  BY <1>2, <1>3, <1>4

\* So does a minter's: its occurrence is due, and the slot it moves to is on the line.
LEMMA MintersStep ==
  ASSUME SchedulerInv, [Next]_vars
  PROVE  minters' \in [Minters -> MinterStates] /\ \A m \in Minters : MinterOK(m)'
<1> DEFINE Good == minters' \in [Minters -> MinterStates] /\ \A m \in Minters : MinterOK(m)'
<1>0. minters \in [Minters -> MinterStates] /\ slot \in Times \cup {None} /\ now \in Nat
      /\ now <= MaxNow /\ MaxNow \in Nat /\ template \in Versions \cup {None}
      /\ None \notin Nat
  BY SchedulerAssumption DEF SchedulerInv, TypeOK
<1>1. ASSUME NEW m \in Minters, NEW r \in MinterStates, minters' = [minters EXCEPT ![m] = r],
             /\ r.pc # "idle" => r.job \in Times /\ Fits(r.job)
             /\ r.pc \in {"move", "mint"} => r.version \in Versions
             /\ r.pc = "mint" => r.when \in Times
      PROVE  Good
  BY <1>0, <1>1 DEF SchedulerInv, MinterOK
<1>2. CASE minters' = minters
  BY <1>0, <1>2 DEF SchedulerInv, MinterOK
<1>3. MinterIdle \in MinterStates /\ MinterIdle.pc = "idle"
  BY DEF MinterIdle, MinterStates
<1>4. ASSUME NEW m \in Minters, NEW w \in Times, Fits(w), NEW pc \in {"check", "read", "run"},
             NEW b \in BOOLEAN,
             minters' = [minters EXCEPT ![m] =
                          [MinterIdle EXCEPT !.pc = pc, !.job = w, !.run = b]]
      PROVE  Good
  <2> DEFINE r == [MinterIdle EXCEPT !.pc = pc, !.job = w, !.run = b]
  <2>1. r \in MinterStates /\ r.pc = pc /\ r.job = w
    BY DEF MinterIdle, MinterStates
  <2> HIDE DEF r
  <2> QED
    BY <1>1, <1>4, <2>1 DEF r
<1>5. ASSUME NEW m \in Minters, minters' = [minters EXCEPT ![m] = After(m)],
             minters[m].pc # "idle"
      PROVE  Good
  <2>1. minters[m].job \in Times /\ Fits(minters[m].job)
    BY <1>5 DEF SchedulerInv, MinterOK
  <2>2. CASE minters[m].run
    BY <1>4, <1>5, <2>1, <2>2 DEF After
  <2>3. CASE ~minters[m].run
    BY <1>1, <1>3, <1>5, <2>3 DEF After
  <2> QED
    BY <2>2, <2>3
<1>6. ASSUME NEW m \in Minters, NEW w \in Times, PickUp(m, w) \/ PickUpCancelled(m, w)
      PROVE  Good
  <2>1. Fits(w)
    BY <1>6 DEF PickUp, PickUpCancelled, SchedulerInv, OccurrenceOK
  <2> QED
    BY <1>4, <1>6, <2>1 DEF PickUp, PickUpCancelled
<1>7. ASSUME NEW m \in Minters, CheckOverdue(m) PROVE Good
  <2>1. slot \in Times /\ Fits(slot)
    BY <1>0, <1>7, DueFits DEF CheckOverdue, Times
  <2> DEFINE r == [MinterIdle EXCEPT !.pc = "check", !.job = slot]
  <2>2. r \in MinterStates /\ r.pc = "check" /\ r.job = slot
    BY <2>1 DEF MinterIdle, MinterStates
  <2>3. minters' = [minters EXCEPT ![m] = r]
    BY <1>7 DEF CheckOverdue
  <2> HIDE DEF r
  <2> QED
    BY <1>1, <2>1, <2>2, <2>3
<1>8. ASSUME NEW m \in Minters, Mints(m) \/ MinterDies(m) PROVE Good
  <2>0. minters[m] \in MinterStates /\ MinterOK(m)
    BY <1>0 DEF SchedulerInv
  <2>1. CASE CheckOccurrence(m)
    <3>1. CASE Orphaned(occ[minters[m].job])
      <4> DEFINE r == [minters[m] EXCEPT !.pc = "read"]
      <4>1. r \in MinterStates /\ r.pc = "read" /\ r.job = minters[m].job
        BY <2>0 DEF MinterStates
      <4>2. minters' = [minters EXCEPT ![m] = r]
        BY <1>0, <2>1, <3>1 DEF CheckOccurrence
      <4>3. minters[m].job \in Times /\ Fits(minters[m].job)
        BY <2>0, <2>1 DEF CheckOccurrence, MinterOK
      <4> HIDE DEF r
      <4> QED
        BY <1>1, <4>1, <4>2, <4>3
    <3>2. CASE ~Orphaned(occ[minters[m].job])
      BY <1>1, <1>3, <2>1, <3>2 DEF CheckOccurrence
    <3> QED
      BY <3>1, <3>2
  <2>2. CASE ReadTemplate(m)
    <3> DEFINE r == [minters[m] EXCEPT !.pc = "score", !.version = template]
    <3>1. r \in MinterStates /\ r.pc = "score" /\ r.job = minters[m].job
      BY <1>0, <2>0 DEF MinterStates
    <3>2. minters' = [minters EXCEPT ![m] = r]
      BY <1>0, <2>2 DEF ReadTemplate
    <3>3. minters[m].job \in Times /\ Fits(minters[m].job)
      BY <2>0, <2>2 DEF ReadTemplate, MinterOK
    <3> HIDE DEF r
    <3> QED
      BY <1>1, <3>1, <3>2, <3>3
  <2>3. CASE ReadSlot(m)
    <3>1. CASE minters[m].version = None \/ slot # minters[m].job
      BY <1>5, <2>3, <3>1 DEF ReadSlot
    <3>2. CASE ~(minters[m].version = None \/ slot # minters[m].job)
      <4> DEFINE r == [minters[m] EXCEPT !.pc = "move", !.at = now]
      <4>1. r \in MinterStates /\ r.pc = "move" /\ r.job = minters[m].job
            /\ r.version = minters[m].version
        BY <1>0, <2>0 DEF MinterStates
      <4>2. minters' = [minters EXCEPT ![m] = r]
        BY <1>0, <2>3, <3>2 DEF ReadSlot
      <4>3. minters[m].job \in Times /\ Fits(minters[m].job)
        BY <2>0, <2>3 DEF ReadSlot, MinterOK
      <4>4. minters[m].version \in Versions
        BY <2>0, <3>2 DEF MinterStates
      <4> HIDE DEF r
      <4> QED
        BY <1>1, <4>1, <4>2, <4>3, <4>4
    <3> QED
      BY <3>1, <3>2
  <2>4. CASE MoveSlot(m)
    <3>1. PICK t \in minters[m].at..now :
            LET when == NextRun(Latest(t, minters[m].job), Every[minters[m].version]) IN
            minters' = [minters EXCEPT ![m] =
                         IF Moves(slot, when)
                         THEN [minters[m] EXCEPT !.pc = "mint", !.when = when, !.at = 0]
                         ELSE After(m)]
      BY <2>4 DEF MoveSlot
    <3> DEFINE when == NextRun(Latest(t, minters[m].job), Every[minters[m].version])
               r == [minters[m] EXCEPT !.pc = "mint", !.when = when, !.at = 0]
    <3>2. minters[m].job \in Times /\ Fits(minters[m].job) /\ minters[m].version \in Versions
      BY <2>0, <2>4 DEF MoveSlot, MinterOK
    <3>3. when \in Times
      <4>1. t \in Nat /\ t <= MaxNow
        BY <1>0, <2>0 DEF MinterStates
      <4>2. CASE Latest(t, minters[m].job) = t
        BY <3>2, <4>1, <4>2, DueFits
      <4>3. CASE Latest(t, minters[m].job) = minters[m].job
        <5>1. Every[minters[m].version] \in Nat \ {0} /\ minters[m].job \in Nat
              /\ Horizon \in Nat
          BY <3>2, SchedulerAssumption DEF Times
        <5>2. when \in Nat \ {0}
          BY <4>3, <5>1, SlotsGrow
        <5>3. when <= Horizon
          BY <3>2, <4>3 DEF Fits
        <5> HIDE DEF when
        <5> QED
          BY <5>1, <5>2, <5>3 DEF Times
      <4> QED
        BY <4>2, <4>3 DEF Latest
    <3>4. minters' = [minters EXCEPT ![m] = IF Moves(slot, when) THEN r ELSE After(m)]
      BY <3>1
    <3> HIDE DEF when
    <3>5. r \in MinterStates /\ r.pc = "mint" /\ r.job = minters[m].job
          /\ r.version = minters[m].version /\ r.when = when
      BY <2>0, <3>3 DEF MinterStates
    <3> HIDE DEF r
    <3>6. CASE Moves(slot, when)
      BY <1>1, <3>2, <3>3, <3>4, <3>5, <3>6
    <3>7. CASE ~Moves(slot, when)
      BY <1>5, <2>4, <3>4, <3>7 DEF MoveSlot
    <3> QED
      BY <3>6, <3>7
  <2>5. CASE Mint(m)
    BY <1>5, <2>5 DEF Mint
  <2>6. CASE EndRun(m) \/ MinterDies(m)
    BY <1>1, <1>3, <2>6 DEF EndRun, MinterDies
  <2> QED
    BY <1>8, <2>1, <2>2, <2>3, <2>4, <2>5, <2>6 DEF Mints
<1>9. ASSUME ~\E m \in Minters : \/ Mints(m) \/ CheckOverdue(m) \/ MinterDies(m)
                                 \/ \E w \in Times : PickUp(m, w) \/ PickUpCancelled(m, w)
      PROVE  minters' = minters
  BY <1>9 DEF Next, vars, Calls, AddTemplate, AddRead, AddMove, DropWatch, DropExec, AddEnqueue,
              RemoveSchedule, RemoveOccurrence, CallerDies, Sweep, Promote, KeyFreed,
              DropOccurrence, RetryOccurrence, Tick
<1> QED
  BY <1>2, <1>6, <1>7, <1>8, <1>9

\* The clock, the schedule's two keys and the counters keep their types.
LEMMA KeysStep ==
  ASSUME SchedulerInv, [Next]_vars
  PROVE  /\ now' \in 0..MaxNow /\ template' \in Versions \cup {None}
         /\ slot' \in Times \cup {None}
         /\ added' \in {0} \cup Versions /\ faults' \in 0..MaxFaults
<1>0. TypeOK /\ None \notin Nat
  BY SchedulerAssumption DEF SchedulerInv
<1>1. ASSUME NEW m \in Minters, MoveSlot(m) PROVE slot' \in Times \cup {None}
  <2>1. PICK t \in minters[m].at..now :
          LET when == NextRun(Latest(t, minters[m].job), Every[minters[m].version]) IN
          /\ slot' = IF Moves(slot, when) THEN when ELSE slot
          /\ minters' = [minters EXCEPT ![m] =
                          IF Moves(slot, when)
                          THEN [minters[m] EXCEPT !.pc = "mint", !.when = when, !.at = 0]
                          ELSE After(m)]
    BY <1>1 DEF MoveSlot
  <2> DEFINE when == NextRun(Latest(t, minters[m].job), Every[minters[m].version])
             r == [minters[m] EXCEPT !.pc = "mint", !.when = when, !.at = 0]
  <2>2. /\ slot' = IF Moves(slot, when) THEN when ELSE slot
        /\ minters' = [minters EXCEPT ![m] = IF Moves(slot, when) THEN r ELSE After(m)]
    BY <2>1
  <2>3. MinterOK(m)' /\ minters \in [Minters -> MinterStates]
    BY <1>0, MintersStep DEF TypeOK
  <2> HIDE DEF when
  <2>4. r.pc = "mint" /\ r.when = when
    BY <2>3 DEF MinterStates
  <2> HIDE DEF r
  <2> QED
    BY <1>0, <2>2, <2>3, <2>4 DEF MinterOK, TypeOK
<1>2. ASSUME NEW c \in Callers, AddMove(c) PROVE slot' \in Times \cup {None}
  BY <1>2 DEF AddMove, SchedulerInv, CallerOK
<1>3. ASSUME NEW c \in Callers, RemoveSchedule(c) PROVE slot' = None
  BY <1>3 DEF RemoveSchedule
<1>4. \/ \E m \in Minters : MoveSlot(m)
      \/ \E c \in Callers : AddMove(c) \/ RemoveSchedule(c)
      \/ slot' = slot
  BY DEF Next, vars, Calls, Mints, AddTemplate, AddRead, DropWatch, DropExec, AddEnqueue,
         RemoveOccurrence, CallerDies, CheckOccurrence, ReadTemplate, ReadSlot, Mint, EndRun,
         CheckOverdue, MinterDies, PickUp, PickUpCancelled, Sweep, Promote, KeyFreed,
         DropOccurrence, RetryOccurrence, Tick
<1>5. slot' \in Times \cup {None}
  BY <1>0, <1>1, <1>2, <1>3, <1>4 DEF TypeOK
<1>6. /\ now' = now \/ (now < MaxNow /\ now' = now + 1)
      /\ template' \in {template, None} \/ (template' = added + 1 /\ added + 1 \in Versions)
      /\ added' = added \/ (added' = added + 1 /\ added + 1 \in Versions)
      /\ faults' = faults \/ (faults < MaxFaults /\ faults' = faults + 1)
  BY DEF Next, vars, Calls, Mints, AddTemplate, AddRead, AddMove, DropWatch, DropExec, AddEnqueue,
         RemoveSchedule, RemoveOccurrence, CallerDies, CheckOccurrence, ReadTemplate, ReadSlot,
         MoveSlot, Mint, EndRun, CheckOverdue, MinterDies, PickUp, PickUpCancelled, Sweep, Promote,
         KeyFreed, DropOccurrence, RetryOccurrence, Tick, Fault
<1>7. now' \in 0..MaxNow /\ faults' \in 0..MaxFaults
  BY <1>0, <1>6, SchedulerAssumption DEF TypeOK
<1> QED
  BY <1>0, <1>5, <1>6, <1>7 DEF TypeOK

\* A WATCH stays on an occurrence that has not started until it is used or broken.
LEMMA WatchStep ==
  ASSUME SchedulerInv, [Next]_vars
  PROVE  watching' \subseteq Callers /\ \A c \in Callers : WatchOK(c)'
<1>0. watching \subseteq Callers /\ callers \in [Callers -> CallerStates]
  BY DEF SchedulerInv, TypeOK
<1>1. ASSUME NEW b \in Callers, DropWatch(b)
      PROVE  watching' \subseteq Callers /\ \A c \in Callers : WatchOK(c)'
  <2> DEFINE parked == occ[callers[b].previous].state \in {"delayed", "held"}
  <2>1. /\ callers[b].pc = "watch" /\ occ' = occ
        /\ callers' = [callers EXCEPT ![b].pc = IF parked THEN "drop" ELSE "enqueue"]
        /\ watching' = IF parked THEN watching \cup {b} ELSE watching
    BY <1>1 DEF DropWatch
  <2>2. b \notin watching
    BY <2>1 DEF SchedulerInv, WatchOK
  <2>3. /\ \A c \in Callers : c # b => callers'[c] = callers[c]
        /\ callers'[b].previous = callers[b].previous
        /\ parked => callers'[b].pc = "drop"
    BY <1>0, <2>1 DEF CallerStates
  <2> QED
    BY <1>0, <2>1, <2>2, <2>3 DEF SchedulerInv, WatchOK
<1>2. ASSUME ~\E b \in Callers : DropWatch(b), NEW c \in Callers
      PROVE  WatchOK(c)'
  <2>1. Written
    BY <1>2, StepsWrite
  <2>2. ASSUME c \in watching' PROVE callers'[c] = callers[c]
    <3>1. c \in watching /\ callers[c].pc = "drop" /\ callers[c].previous \in Times
      BY <2>1, <2>2 DEF Written, SchedulerInv, WatchOK, CallerOK
    <3>2. ~DropExec(c)
      BY <2>2, <3>1 DEF DropExec, Write
    <3>3. ~CallerDies(c)
      BY <2>2 DEF CallerDies
    <3>4. ~Calls(c)
      BY <1>2, <3>1, <3>2 DEF Calls, AddTemplate, AddRead, AddMove, AddEnqueue, RemoveSchedule,
                              RemoveOccurrence
    <3>5. ASSUME NEW b \in Callers \ {c}, Calls(b) \/ CallerDies(b) PROVE callers'[c] = callers[c]
      BY <1>0, <3>5 DEF Calls, AddTemplate, AddRead, AddMove, DropWatch, DropExec, AddEnqueue,
                        RemoveSchedule, RemoveOccurrence, CallerDies
    <3>6. ASSUME ~\E b \in Callers : Calls(b) \/ CallerDies(b) PROVE callers' = callers
      BY <3>6 DEF Next, vars, Mints, CheckOccurrence, ReadTemplate, ReadSlot, MoveSlot, Mint, EndRun,
                  CheckOverdue, MinterDies, PickUp, PickUpCancelled, Sweep, Promote, KeyFreed,
                  DropOccurrence, RetryOccurrence, Tick
    <3> QED
      BY <3>3, <3>4, <3>5, <3>6
  <2> QED
    BY <2>1, <2>2 DEF Written, SchedulerInv, WatchOK, CallerOK
<1>3. ASSUME ~\E b \in Callers : DropWatch(b) PROVE watching' \subseteq watching
  BY <1>3, StepsWrite DEF Written
<1> QED
  BY <1>0, <1>1, <1>2, <1>3

-----------------------------------------------------------------------------
\* The invariant holds throughout.
LEMMA SchedulerAlways == Spec => []SchedulerInv
<1>1. Init => SchedulerInv
  <2> SUFFICES ASSUME Init PROVE SchedulerInv
    OBVIOUS
  <2>1. Gone \in Occurrences /\ Gone.state = None
    BY DEF Gone, Occurrences
  <2>2. CallerIdle \in CallerStates /\ CallerIdle.pc = "idle"
    BY DEF CallerIdle, CallerStates
  <2>3. MinterIdle \in MinterStates /\ MinterIdle.pc = "idle"
    BY DEF MinterIdle, MinterStates
  <2>4. TypeOK
    BY <2>1, <2>2, <2>3, SchedulerAssumption DEF Init, TypeOK
  <2> QED
    BY <2>1, <2>2, <2>3, <2>4, SchedulerAssumption
    DEF Init, SchedulerInv, CallerOK, WatchOK, MinterOK, OccurrenceOK
<1>2. SchedulerInv /\ [Next]_vars => SchedulerInv'
  <2> SUFFICES ASSUME SchedulerInv, [Next]_vars PROVE SchedulerInv'
    OBVIOUS
  <2>1. occ' \in [Times -> Occurrences] /\ \A w \in Times : OccurrenceOK(w)'
    <3>1. CASE \E c \in Callers : DropWatch(c)
      BY <3>1 DEF DropWatch, SchedulerInv, TypeOK, OccurrenceOK
    <3>2. CASE ~\E c \in Callers : DropWatch(c)
      BY <3>2, StepsWrite DEF Written
    <3> QED
      BY <3>1, <3>2
  <2> QED
    BY <2>1, CallersStep, MintersStep, KeysStep, WatchStep DEF SchedulerInv, TypeOK
<1> QED
  BY <1>1, <1>2, PTL DEF Spec

\* The schedule's keys, its occurrences and every call and minter keep their types, and
\* no slot leaves the time line, for every cadence.
THEOREM SchedulerTypes == Spec => []TypeOK
<1>1. SchedulerInv => TypeOK
  BY DEF SchedulerInv
<1> QED
  BY <1>1, SchedulerAlways, PTL

\* A removed schedule is not listed again and no occurrence of it appears, while no
\* add_scheduler is under way: a minter that read the schedule before the removal moves no
\* slot (ZADD XX) and mints nothing (the slot guard of ADD_SCHEDULED).
THEOREM RemovalIsFinal == Spec => RemovedStaysSilent
<1>1. ASSUME SchedulerInv, [Next]_vars, slot = None, ~Adding
      PROVE  slot' = None /\ \A w \in Times : occ[w].state = None => occ'[w].state = None
  <2>0. /\ occ \in [Times -> Occurrences] /\ None \notin Times
        /\ None \notin {"delayed", "held", "wait", "active", "finished", "cancelled"}
        /\ \A c \in Callers : callers[c].pc \in {"idle", "remove"}
    BY <1>1, SchedulerAssumption DEF SchedulerInv, TypeOK, Times, Adding
  <2>1. ASSUME NEW w \in Times, NEW o, Write(w, o), occ[w].state # None \/ o = Gone
        PROVE  \A x \in Times : occ[x].state = None => occ'[x].state = None
    BY <2>0, <2>1 DEF Write, Gone
  <2>2. ASSUME NEW c \in Callers, Calls(c) \/ CallerDies(c)
        PROVE  slot' = None /\ \A w \in Times : occ[w].state = None => occ'[w].state = None
    <3>1. callers[c].pc \in {"idle", "remove"}
      BY <2>0
    <3>2. AddTemplate(c) \/ RemoveSchedule(c) \/ RemoveOccurrence(c) \/ CallerDies(c)
      BY <2>2, <3>1 DEF Calls, AddRead, AddMove, DropWatch, DropExec, AddEnqueue
    <3>3. CASE RemoveOccurrence(c)
      BY <1>1, <2>1, <3>3 DEF RemoveOccurrence, SchedulerInv, CallerOK
    <3> QED
      BY <1>1, <3>2, <3>3 DEF AddTemplate, RemoveSchedule, CallerDies
  <2>3. ASSUME NEW m \in Minters, Mints(m) \/ CheckOverdue(m) \/ MinterDies(m)
        PROVE  slot' = None /\ \A w \in Times : occ[w].state = None => occ'[w].state = None
    <3>1. CASE Mint(m)
      <4>1. minters[m].when \in Times
        BY <1>1, <3>1 DEF Mint, SchedulerInv, MinterOK
      <4> QED
        BY <1>1, <2>0, <3>1, <4>1 DEF Mint, AddScheduled
    <3>2. CASE EndRun(m)
      <4>1. minters[m].job \in Times
        BY <1>1, <3>2 DEF EndRun, SchedulerInv, MinterOK
      <4> QED
        BY <1>1, <2>0, <2>1, <3>2, <4>1 DEF EndRun
    <3>3. CASE MoveSlot(m)
      BY <1>1, <3>3 DEF MoveSlot, Moves
    <3> QED
      BY <1>1, <2>3, <3>1, <3>2, <3>3
      DEF Mints, CheckOccurrence, ReadTemplate, ReadSlot, CheckOverdue, MinterDies
  <2>4. ASSUME NEW m \in Minters, NEW w \in Times, PickUp(m, w) \/ PickUpCancelled(m, w)
        PROVE  slot' = None /\ \A x \in Times : occ[x].state = None => occ'[x].state = None
    BY <1>1, <2>0, <2>1, <2>4 DEF PickUp, PickUpCancelled
  <2>5. ASSUME NEW w \in Times,
               \/ Sweep(w) \/ Promote(w) \/ KeyFreed(w) \/ DropOccurrence(w) \/ RetryOccurrence(w)
        PROVE  slot' = None /\ \A x \in Times : occ[x].state = None => occ'[x].state = None
    BY <1>1, <2>0, <2>1, <2>5
    DEF Sweep, Promote, KeyFreed, DropOccurrence, RetryOccurrence, Pending
  <2>6. CASE Tick \/ UNCHANGED vars
    BY <1>1, <2>6 DEF Tick, vars
  <2> QED
    BY <1>1, <2>2, <2>3, <2>4, <2>5, <2>6 DEF Next
<1> QED
  BY <1>1, SchedulerAlways, PTL DEF Spec, RemovedStaysSilent

\* add_scheduler of a schedule that exists never removes an occurrence that runs: its
\* removal is of one that has not started, or is refused by the broken WATCH.
THEOREM UpdatesSpareRuns == Spec => UpdateSparesRuns
<1>1. ASSUME SchedulerInv, [Next]_vars, NEW w \in Times, NEW c \in Callers,
             occ[w].state = "active", occ'[w].state = None, callers[c].pc = "drop"
      PROVE  callers'[c] = callers[c]
  <2>0. /\ occ \in [Times -> Occurrences] /\ callers \in [Callers -> CallerStates]
        /\ None # "active"
    BY <1>1, SchedulerAssumption DEF SchedulerInv, TypeOK
  <2>1. ~CallerDies(c)
    BY <1>1, <2>0 DEF CallerDies
  <2>2. ~DropExec(c)
    <3> SUFFICES ASSUME DropExec(c) PROVE FALSE
      OBVIOUS
    <3>1. CASE c \in watching
      <4>1. callers[c].previous # w
        BY <1>1, <3>1 DEF SchedulerInv, WatchOK
      <4> QED
        BY <1>1, <2>0, <3>1, <4>1 DEF DropExec, Write
    <3>2. CASE c \notin watching
      BY <1>1, <2>0, <3>2 DEF DropExec
    <3> QED
      BY <3>1, <3>2
  <2>3. ~Calls(c)
    BY <1>1, <2>2 DEF Calls, AddTemplate, AddRead, AddMove, DropWatch, AddEnqueue, RemoveSchedule,
                      RemoveOccurrence
  <2>4. ASSUME NEW b \in Callers \ {c}, Calls(b) \/ CallerDies(b) PROVE callers'[c] = callers[c]
    BY <2>0, <2>4 DEF Calls, AddTemplate, AddRead, AddMove, DropWatch, DropExec, AddEnqueue,
                      RemoveSchedule, RemoveOccurrence, CallerDies
  <2>5. ASSUME ~\E b \in Callers : Calls(b) \/ CallerDies(b) PROVE callers' = callers
    BY <1>1, <2>5 DEF Next, vars, Mints, CheckOccurrence, ReadTemplate, ReadSlot, MoveSlot, Mint,
                      EndRun, CheckOverdue, MinterDies, PickUp, PickUpCancelled, Sweep, Promote,
                      KeyFreed, DropOccurrence, RetryOccurrence, Tick
  <2> QED
    BY <2>1, <2>3, <2>4, <2>5
<1>2. SchedulerInv /\ [Next]_vars =>
        [\A w \in Times : occ[w].state = "active" /\ occ'[w].state = None =>
            \A c \in Callers : callers[c].pc # "drop" \/ callers'[c] = callers[c]]_vars
  BY <1>1
<1> QED
  BY <1>2, SchedulerAlways, PTL DEF Spec, UpdateSparesRuns
===============================================================================

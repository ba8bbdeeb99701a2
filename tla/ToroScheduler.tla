---------------------------- MODULE ToroScheduler ----------------------------
(***************************************************************************)
(* One repeatable schedule of a toro queue.  `repeat` points at the slot    *)
(* of its next occurrence, the template says what an occurrence is made of, *)
(* and an occurrence is a delayed job whose id carries its slot.  Callers   *)
(* register the schedule (again) or remove it, workers mint the next        *)
(* occurrence when they pick one up, and their schedule check repairs a     *)
(* schedule whose occurrence was dropped: each of these is several round    *)
(* trips to Redis, and one action here is one round trip.                   *)
(*                                                                          *)
(* Time is a counter that all sides read; a reading taken between two round *)
(* trips is any time between them.  Cron cadences are left out (croniter    *)
(* decides their slots), as are the payloads: a template is the number of   *)
(* the registration that wrote it.                                          *)
(***************************************************************************)
EXTENDS Naturals

CONSTANTS
    Callers,    \* calls of add_scheduler and remove_scheduler in flight
    Minters,    \* process loops and schedule checks of the workers
    None,       \* nil: no slot, no template, no hash
    Every,      \* the cadence each registration asks for, as a sequence
    MaxNow,     \* bound: the clock stops here
    Horizon,    \* bound: no slot past this
    MaxFaults,  \* bound: how many processes die, leases run out and runs are tried again
    Ops         \* what operators and the environment do in this instance

Versions == DOMAIN Every
Times == 1..Horizon

\* Mutant of NextRun: the slot that has come, not the one after it.
NextRunHere(t, e) == (t \div e) * e

\* The first slot of the grid strictly after t.
NextRun(t, e) == (t \div e + 1) * e

ASSUME SchedulerAssumption ==
    /\ None \notin Callers \cup Minters \cup Nat
    /\ None \notin {"delayed", "held", "wait", "active", "finished", "cancelled"}
    /\ \A v \in Versions : Every[v] \in Nat \ {0} /\ NextRun(MaxNow, Every[v]) <= Horizon
    /\ MaxNow \in Nat /\ Horizon \in Nat /\ MaxFaults \in Nat
    /\ Ops \subseteq {"remove", "drop", "promote", "retain", "stall", "hold", "retry"}

VARIABLES
    now,       \* the clock
    template,  \* the hash repeat:<id>
    slot,      \* the score of the schedule in repeat
    occ,       \* the occurrence of each slot: its hash and where it is
    callers,   \* where each call of add_scheduler or remove_scheduler is
    minters,   \* where each _schedule_next is, and the run it belongs to
    watching,  \* the callers whose WATCH no write has broken
    added,     \* how many registrations have begun
    faults     \* how many processes died, leases ran out and runs were tried again

vars == <<now, template, slot, occ, callers, minters, watching, added, faults>>

Pending == {"delayed", "held", "wait"}
Ended   == {"finished", "cancelled"}

\* `by` is the run that holds the occurrence's lock.
Occurrences == [state: Pending \cup {"active"} \cup Ended \cup {None},
                version: Versions \cup {None}, by: Minters \cup {None}]

Gone == [state |-> None, version |-> None, by |-> None]

\* `at` is when the last reply arrived: the clock is read after it.
CallerStates == [pc: {"idle", "read", "move", "watch", "drop", "enqueue", "remove"},
                 version: Versions \cup {None}, when: Times \cup {None},
                 previous: Times \cup {None}, at: Nat]

CallerIdle == [pc |-> "idle", version |-> None, when |-> None, previous |-> None, at |-> 0]

\* `run`: a processor follows the mint; a schedule check has none.
MinterStates == [pc: {"idle", "check", "read", "score", "move", "mint", "run"},
                 job: Times \cup {None}, version: Versions \cup {None},
                 when: Times \cup {None}, at: Nat, run: BOOLEAN]

MinterIdle == [pc |-> "idle", job |-> None, version |-> None, when |-> None,
               at |-> 0, run |-> FALSE]

TypeOK ==
    /\ now \in 0..MaxNow
    /\ template \in Versions \cup {None}
    /\ slot \in Times \cup {None}
    /\ occ \in [Times -> Occurrences]
    /\ callers \in [Callers -> CallerStates]
    /\ minters \in [Minters -> MinterStates]
    /\ watching \subseteq Callers
    /\ added \in {0} \cup Versions
    /\ faults \in 0..MaxFaults

Init ==
    /\ now = 0
    /\ template = None
    /\ slot = None
    /\ occ = [w \in Times |-> Gone]
    /\ callers = [c \in Callers |-> CallerIdle]
    /\ minters = [m \in Minters |-> MinterIdle]
    /\ watching = {}
    /\ added = 0
    /\ faults = 0

-----------------------------------------------------------------------------
\* Every write of an occurrence's hash breaks the WATCHes on it.
Write(w, o) ==
    /\ occ' = [occ EXCEPT ![w] = o]
    /\ watching' = {c \in watching : callers[c].previous # w}

\* ADD_SCHEDULED: the occurrence of slot w, made from template v, if the schedule
\* still points at the slot and the id is free.  Its concurrency key may be taken.
AddScheduled(w, v) ==
    IF slot = w /\ occ[w].state = None
    THEN \E s \in {"delayed"} \cup (IF "hold" \in Ops THEN {"held"} ELSE {}) :
            Write(w, [state |-> s, version |-> v, by |-> None])
    ELSE UNCHANGED <<occ, watching>>

-----------------------------------------------------------------------------
(* add_scheduler, remove_scheduler. *)

AddTemplate(c) ==
    /\ callers[c].pc = "idle"
    /\ added + 1 \in Versions
    /\ added' = added + 1
    /\ template' = added + 1
    /\ callers' = [callers EXCEPT ![c] =
                    [CallerIdle EXCEPT !.pc = "read", !.version = added + 1, !.at = now]]
    /\ UNCHANGED <<now, slot, occ, minters, watching, faults>>

AddRead(c) ==
    LET a == callers[c] IN
    /\ a.pc = "read"
    /\ \E t \in a.at..now :
        callers' = [callers EXCEPT ![c].pc = "move", ![c].previous = slot, ![c].at = 0,
                                   ![c].when = NextRun(t, Every[a.version])]
    /\ UNCHANGED <<now, template, slot, occ, minters, watching, added, faults>>

AddMove(c) ==
    LET a == callers[c] IN
    /\ a.pc = "move"
    /\ slot' = a.when
    /\ callers' = [callers EXCEPT ![c].pc = IF a.previous = None THEN "enqueue" ELSE "watch"]
    /\ UNCHANGED <<now, template, occ, minters, watching, added, faults>>

\* _drop_pending_occurrence: WATCH the old occurrence and read its state.  (A write
\* between the two breaks the WATCH as one after them does.)
DropWatch(c) ==
    LET a == callers[c]  parked == occ[a.previous].state \in {"delayed", "held"} IN
    /\ a.pc = "watch"
    /\ callers' = [callers EXCEPT ![c].pc = IF parked THEN "drop" ELSE "enqueue"]
    /\ watching' = IF parked THEN watching \cup {c} ELSE watching
    /\ UNCHANGED <<now, template, slot, occ, minters, added, faults>>

\* Mutant of DropExec: the removal does not look at the WATCH.
DropExecBlind(c) ==
    /\ callers[c].pc = "drop"
    /\ Write(callers[c].previous, Gone)
    /\ callers' = [callers EXCEPT ![c].pc = "enqueue"]
    /\ UNCHANGED <<now, template, slot, minters, added, faults>>

\* EXEC: the removal, unless something wrote the hash since.
DropExec(c) ==
    LET a == callers[c] IN
    /\ a.pc = "drop"
    /\ IF c \in watching THEN Write(a.previous, Gone) ELSE UNCHANGED <<occ, watching>>
    /\ callers' = [callers EXCEPT ![c].pc = "enqueue"]
    /\ UNCHANGED <<now, template, slot, minters, added, faults>>

AddEnqueue(c) ==
    /\ callers[c].pc = "enqueue"
    /\ AddScheduled(callers[c].when, callers[c].version)
    /\ callers' = [callers EXCEPT ![c] = CallerIdle]
    /\ UNCHANGED <<now, template, slot, minters, added, faults>>

\* REMOVE_SCHEDULER, which answers with the slot the schedule pointed at.
RemoveSchedule(c) ==
    /\ "remove" \in Ops
    /\ callers[c].pc = "idle" /\ (slot # None \/ template # None)
    /\ slot' = None /\ template' = None
    /\ callers' = IF slot = None THEN callers
                  ELSE [callers EXCEPT ![c].pc = "remove", ![c].previous = slot]
    /\ UNCHANGED <<now, occ, minters, watching, added, faults>>

\* REMOVE_JOB of the occurrence at that slot, wherever it is.
RemoveOccurrence(c) ==
    /\ callers[c].pc = "remove"
    /\ Write(callers[c].previous, Gone)
    /\ callers' = [callers EXCEPT ![c] = CallerIdle]
    /\ UNCHANGED <<now, template, slot, minters, added, faults>>

\* What goes wrong, or is done again, is bounded.
Fault == faults < MaxFaults /\ faults' = faults + 1

\* The caller's process dies half way.
CallerDies(c) ==
    /\ callers[c].pc # "idle" /\ Fault
    /\ callers' = [callers EXCEPT ![c] = CallerIdle]
    /\ watching' = watching \ {c}
    /\ UNCHANGED <<now, template, slot, occ, minters, added>>

-----------------------------------------------------------------------------
(* _schedule_next, from a picked-up occurrence or from the schedule check. *)

\* A worker picks up an occurrence; its successor is minted before it runs.
PickUp(m, w) ==
    /\ minters[m].pc = "idle" /\ occ[w].state = "wait"
    /\ Write(w, [occ[w] EXCEPT !.state = "active", !.by = m])
    /\ minters' = [minters EXCEPT ![m] =
                    [MinterIdle EXCEPT !.pc = "read", !.job = w, !.run = TRUE]]
    /\ UNCHANGED <<now, template, slot, callers, added, faults>>

\* One claimed with a cancellation pending is finished: no processor, no successor.
PickUpCancelled(m, w) ==
    /\ "drop" \in Ops
    /\ minters[m].pc = "idle" /\ occ[w].state = "wait"
    /\ Write(w, [occ[w] EXCEPT !.state = "active", !.by = m])
    /\ minters' = [minters EXCEPT ![m] =
                    [MinterIdle EXCEPT !.pc = "run", !.job = w, !.run = TRUE]]
    /\ UNCHANGED <<now, template, slot, callers, added, faults>>

\* _resume_orphaned_schedules finds the schedule overdue ...
CheckOverdue(m) ==
    /\ minters[m].pc = "idle" /\ slot # None /\ slot <= now
    /\ minters' = [minters EXCEPT ![m] = [MinterIdle EXCEPT !.pc = "check", !.job = slot]]
    /\ UNCHANGED <<now, template, slot, occ, callers, watching, added, faults>>

\* Mutant of Orphaned: an occurrence that ended without a successor is left alone.
OrphanedGone(o) == o.state = None

Orphaned(o) == o.state = None \/ o.state \in Ended

\* ... and its occurrence gone, or ended without a successor.
CheckOccurrence(m) ==
    /\ minters[m].pc = "check"
    /\ minters' = [minters EXCEPT ![m] = IF Orphaned(occ[minters[m].job])
                                         THEN [@ EXCEPT !.pc = "read"] ELSE MinterIdle]
    /\ UNCHANGED <<now, template, slot, occ, callers, watching, added, faults>>

\* Where a minter goes when _schedule_next is over.
After(m) ==
    IF minters[m].run
    THEN [MinterIdle EXCEPT !.pc = "run", !.job = minters[m].job, !.run = TRUE]
    ELSE MinterIdle

ReadTemplate(m) ==
    /\ minters[m].pc = "read"
    /\ minters' = [minters EXCEPT ![m].pc = "score", ![m].version = template]
    /\ UNCHANGED <<now, template, slot, occ, callers, watching, added, faults>>

\* The chain goes on from the slot the schedule points at, and only from there.
ReadSlot(m) ==
    LET r == minters[m] IN
    /\ r.pc = "score"
    /\ minters' = [minters EXCEPT ![m] =
                    IF r.version = None \/ slot # r.job THEN After(m)
                    ELSE [r EXCEPT !.pc = "move", !.at = now]]
    /\ UNCHANGED <<now, template, slot, occ, callers, watching, added, faults>>

Latest(s, t) == IF s > t THEN s ELSE t

\* Mutant of Moves: ZADD without XX.
MovesAlways(s, when) == s # when

\* ZADD XX CH answers whether the entry was there and its score changed.
Moves(s, when) == s # None /\ s # when

MoveSlot(m) ==
    LET r == minters[m] IN
    /\ r.pc = "move"
    /\ \E t \in r.at..now :
        LET when == NextRun(Latest(t, r.job), Every[r.version]) IN
        /\ slot' = IF Moves(slot, when) THEN when ELSE slot
        /\ minters' = [minters EXCEPT ![m] =
                        IF Moves(slot, when)
                        THEN [r EXCEPT !.pc = "mint", !.when = when, !.at = 0] ELSE After(m)]
    /\ UNCHANGED <<now, template, occ, callers, watching, added, faults>>

Mint(m) ==
    LET r == minters[m] IN
    /\ r.pc = "mint"
    /\ AddScheduled(r.when, r.version)
    /\ minters' = [minters EXCEPT ![m] = After(m)]
    /\ UNCHANGED <<now, template, slot, callers, added, faults>>

\* The run ends: kept, removed by its retention, or to be tried again.  A run that
\* no longer holds the occurrence's lock commits nothing.
EndRun(m) ==
    LET w == minters[m].job  o == occ[w] IN
    /\ minters[m].pc = "run"
    /\ IF o.state = "active" /\ o.by = m
       THEN \/ \E s \in Ended : Write(w, [o EXCEPT !.state = s, !.by = None]) /\ UNCHANGED faults
            \/ "retain" \in Ops /\ Write(w, Gone) /\ UNCHANGED faults
            \/ /\ "stall" \in Ops /\ Fault
               /\ \E s \in {"delayed", "wait"} : Write(w, [o EXCEPT !.state = s, !.by = None])
       ELSE UNCHANGED <<occ, watching, faults>>
    /\ minters' = [minters EXCEPT ![m] = MinterIdle]
    /\ UNCHANGED <<now, template, slot, callers, added>>

\* A worker dies, or a round trip of its loop raises: the job is left to the sweep.
MinterDies(m) ==
    /\ minters[m].pc # "idle" /\ Fault
    /\ minters' = [minters EXCEPT ![m] = MinterIdle]
    /\ UNCHANGED <<now, template, slot, occ, callers, watching, added>>

-----------------------------------------------------------------------------
(* The rest of the queue, as far as it touches an occurrence. *)

Running(w) == \E m \in Minters : occ[w].by = m /\ minters[m].run /\ minters[m].job = w

\* MOVE_STALLED takes an occurrence whose lease ran out: queued again, or failed
\* once it has stalled too often, perhaps before any run of it minted.
Sweep(w) ==
    /\ occ[w].state = "active"
    /\ IF Running(w) THEN "stall" \in Ops /\ Fault ELSE UNCHANGED faults
    /\ \/ \E s \in {"wait", "finished"} : Write(w, [occ[w] EXCEPT !.state = s, !.by = None])
       \/ "retain" \in Ops /\ Write(w, Gone)
    /\ UNCHANGED <<now, template, slot, callers, minters, added>>

\* promoteDue at a claim, and promote_job at any time before.
Promote(w) ==
    /\ occ[w].state = "delayed"
    /\ w <= now \/ ("promote" \in Ops /\ \A v \in Versions : NextRun(w, Every[v]) <= Horizon)
    /\ Write(w, [occ[w] EXCEPT !.state = "wait"])
    /\ UNCHANGED <<now, template, slot, callers, minters, added, faults>>

\* releaseKey hands the key on: the rest of the delay first, if any is left.
KeyFreed(w) ==
    /\ occ[w].state = "held"
    /\ Write(w, [occ[w] EXCEPT !.state = IF w > now THEN "delayed" ELSE "wait"])
    /\ UNCHANGED <<now, template, slot, callers, minters, added, faults>>

\* cancel_job of an occurrence that has not started; remove_job, clean and the trim
\* of any.
DropOccurrence(w) ==
    /\ "drop" \in Ops
    /\ \/ occ[w].state \in Pending /\ Write(w, [occ[w] EXCEPT !.state = "cancelled"])
       \/ occ[w].state # None /\ Write(w, Gone)
    /\ UNCHANGED <<now, template, slot, callers, minters, added, faults>>

\* retry_job of an occurrence that failed (a cancelled one is refused).
RetryOccurrence(w) ==
    /\ "retry" \in Ops /\ Fault
    /\ occ[w].state = "finished"
    /\ \E s \in {"wait"} \cup (IF "hold" \in Ops THEN {"held"} ELSE {}) :
        Write(w, [occ[w] EXCEPT !.state = s])
    /\ UNCHANGED <<now, template, slot, callers, minters, added>>

Tick ==
    /\ now < MaxNow
    /\ now' = now + 1
    /\ UNCHANGED <<template, slot, occ, callers, minters, watching, added, faults>>

Calls(c) == \/ AddTemplate(c) \/ AddRead(c) \/ AddMove(c) \/ DropWatch(c) \/ DropExec(c)
            \/ AddEnqueue(c) \/ RemoveSchedule(c) \/ RemoveOccurrence(c)

Mints(m) == \/ CheckOccurrence(m) \/ ReadTemplate(m) \/ ReadSlot(m) \/ MoveSlot(m)
            \/ Mint(m) \/ EndRun(m)

Next ==
    \/ \E c \in Callers : Calls(c) \/ CallerDies(c)
    \/ \E m \in Minters : \/ Mints(m) \/ CheckOverdue(m) \/ MinterDies(m)
                          \/ \E w \in Times : PickUp(m, w) \/ PickUpCancelled(m, w)
    \/ \E w \in Times : \/ Sweep(w) \/ Promote(w) \/ KeyFreed(w)
                         \/ DropOccurrence(w) \/ RetryOccurrence(w)
    \/ Tick

Spec == Init /\ [][Next]_vars

\* The loops go round and processors end; what is due is claimed; a lock that
\* nobody renews runs out; the clock moves; a call that was begun goes on, unless
\* its process dies.  Operators need do nothing.
FairSpec ==
    /\ Spec /\ WF_vars(Tick)
    /\ \A c \in Callers : WF_vars(callers[c].pc # "idle" /\ Calls(c))
    /\ \A m \in Minters : WF_vars(Mints(m))
    /\ SF_vars(\E m \in Minters : CheckOverdue(m))
    /\ SF_vars(\E m \in Minters, w \in Times : PickUp(m, w))
    /\ WF_vars(\E w \in Times : w <= now /\ Promote(w))
    /\ WF_vars(\E w \in Times : KeyFreed(w))
    /\ WF_vars(\E w \in Times : ~Running(w) /\ Sweep(w))

-----------------------------------------------------------------------------
(* Properties. *)

Adding == \E c \in Callers : callers[c].pc \notin {"idle", "remove"}

\* Once a schedule is removed, and as long as no add_scheduler is under way, it is
\* not listed again and no occurrence of it is enqueued, however far a worker was in
\* minting one (the XX of _schedule_next and the slot guard of ADD_SCHEDULED).
RemovedStaysSilent ==
    [][slot = None /\ ~Adding =>
        /\ slot' = None
        /\ \A w \in Times : occ[w].state = None => occ'[w].state = None]_vars

\* Registering a schedule again never takes an occurrence that has started away
\* from its run: the WATCH of _drop_pending_occurrence.
UpdateSparesRuns ==
    [][\A w \in Times : occ[w].state = "active" /\ occ'[w].state = None =>
        \A c \in Callers : callers[c].pc # "drop" \/ callers'[c] = callers[c]]_vars

\* An overdue schedule moves on, whatever became of its occurrence, as long as the
\* template that its occurrences are minted from is there (_resume_orphaned_schedules
\* and _schedule_next).
ScheduleGoesOn ==
    slot # None /\ slot <= now /\ template # None ~> slot = None \/ slot > now

\* Every schedule that is listed moves on: "Only remove_scheduler ends a schedule", and
\* a slot that has passed is followed by the next one (docs/scheduling.md).  False: a
\* remove_scheduler between the read and the ZADD of an add_scheduler deletes the
\* template, and the ZADD lists the schedule again.
ListedGoesOn == slot # None /\ slot <= now ~> slot = None \/ slot > now
=============================================================================

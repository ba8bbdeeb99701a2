------------------------------ MODULE ToroResult ------------------------------
(***************************************************************************)
(* Queue.result(): callers that wait for a job's outcome, the one events    *)
(* listener they share (_ensure_dispatcher, _dispatch_events), and close(). *)
(*                                                                          *)
(* The event is the fast path and the hash is the truth: a waiter registers *)
(* its future, reads the hash, and reads it again whenever it has waited    *)
(* RESULT_RECHECK_S in vain.  Everything between two awaits is one step.  A *)
(* job is what its hash says and the number of its run, which stands for    *)
(* what that run returned or raised.                                        *)
(***************************************************************************)
EXTENDS Naturals, Sequences

CONSTANTS
    Jobs,
    Waiters,    \* calls of result()
    JobOf,      \* the job each waits for
    Limited,    \* the waiters with a timeout
    Big,        \* the jobs whose result is too large to travel with the event
    Ways,       \* bound: how the jobs' runs may end
    None,
    MaxRuns,    \* bound: how often a job is run
    MaxFaults   \* bound: how often a connection or a caller fails

ASSUME ResultAssumption ==
    /\ JobOf \in [Waiters -> Jobs] /\ Limited \subseteq Waiters /\ Big \subseteq Jobs
    /\ Ways \subseteq {"completed", "failed", "cancelled"}
    /\ None \notin Waiters \cup {"close"} /\ "close" \notin Waiters
    /\ MaxRuns \in Nat \ {0} /\ MaxFaults \in Nat

VARIABLES
    jobs,      \* the hash of each job: its state, or "gone", and its run
    sub,       \* the subscription of the listener, as the server sees it
    events,    \* what was published to it and not read yet
    task,      \* _events_task
    lock,      \* who holds _dispatcher_lock
    closing,   \* how far close() is
    at,        \* where each waiter is
    seen,      \* the hash it has read last
    futs,      \* its future: None, or what it was resolved with
    listed,    \* _result_waiters
    late,      \* the waiters whose deadline has passed
    readBacks, \* _read_backs: the waiters a read of the hash will resolve
    faults,
    past,      \* the rest is no state of the code: the outcomes each job has had,
    untrue     \* the waiters that were told an outcome their job never had

vars == <<jobs, sub, events, task, lock, closing, at, seen, futs, listed, late,
          readBacks, faults, past, untrue>>

Terminal  == {"completed", "failed", "cancelled"}
Raised    == {"timeout", "closed", "lost", "abandoned"}
Outcomes  == [how: Terminal, run: 0..MaxRuns]
Answers   == Outcomes \cup [how: Raised, run: {0}]
JobStates == [state: {"open", "gone"} \cup Terminal, run: 1..MaxRuns]
Events    == [job: Jobs, what: Outcomes, inline: BOOLEAN]

ASSUME NoneAssumption == None \notin JobStates \cup Answers

Raise(how) == [how |-> how, run |-> 0]

TypeOK ==
    /\ jobs \in [Jobs -> JobStates]
    /\ sub \in {"off", "asked", "on", "left"} /\ events \in Seq(Events)
    /\ task \in {"none", "live", "done"} /\ lock \in Waiters \cup {"close", None}
    /\ closing \in {"no", "asked", "locked", "done"}
    /\ at \in [Waiters -> {"idle", "lock", "start", "read", "got", "wait", "end"}]
    /\ seen \in [Waiters -> JobStates \cup {None}]
    /\ futs \in [Waiters -> Answers \cup {None}]
    /\ listed \cup late \cup readBacks \cup untrue \subseteq Waiters
    /\ faults \in 0..MaxFaults
    /\ past \in [Jobs -> SUBSET Outcomes]
    /\ lock \in Waiters => at[lock] = "start"

Init ==
    /\ jobs = [j \in Jobs |-> [state |-> "open", run |-> 1]]
    /\ sub = "off" /\ events = <<>> /\ task = "none" /\ lock = None /\ closing = "no"
    /\ at = [w \in Waiters |-> "idle"] /\ seen = [w \in Waiters |-> None]
    /\ futs = [w \in Waiters |-> None] /\ listed = {} /\ late = {} /\ readBacks = {}
    /\ faults = 0
    /\ past = [j \in Jobs |-> {}] /\ untrue = {}

server   == <<jobs, past>>
listener == <<sub, events, task, lock>>
call     == <<seen, futs, listed, late, untrue>>
waiting  == <<at, call>>
waits    == <<at, seen, listed, late, untrue>>

Fault == faults < MaxFaults /\ faults' = faults + 1

\* The calls that are past _ensure_dispatcher and have not ended.
Inside == {w \in Waiters : at[w] \in {"read", "got", "wait"}}
------------------------------------------------------------------------------
(* The jobs.                                                                *)

\* The job's run ends: the hash is written or, under remove_on_complete and the like,
\* removed; then the outcome is published, with the result unless it is large and kept.
Finish(j) ==
    /\ jobs[j].state = "open"
    /\ \E how \in Ways, kept \in BOOLEAN :
         LET outcome == [how |-> how, run |-> jobs[j].run]
             event   == [job |-> j, what |-> outcome, inline |-> j \notin Big \/ ~kept]
         IN  /\ jobs' = [jobs EXCEPT ![j].state = IF kept THEN how ELSE "gone"]
             /\ events' = IF sub = "on" THEN Append(events, event) ELSE events
             /\ past' = [past EXCEPT ![j] = @ \cup {outcome}]
    /\ UNCHANGED <<sub, task, lock, closing, at, seen, futs, listed, late, readBacks,
                   faults, untrue>>

\* The job is retried, or added again under its own id.
RunAgain(j) ==
    /\ jobs[j].state \in {"failed", "cancelled", "gone"} /\ jobs[j].run < MaxRuns
    /\ jobs' = [jobs EXCEPT ![j] = [state |-> "open", run |-> @.run + 1]]
    /\ UNCHANGED <<listener, closing, waiting, readBacks, faults, past>>

\* A finished job is trimmed or removed.
Remove(j) ==
    /\ jobs[j].state \in Terminal
    /\ jobs' = [jobs EXCEPT ![j].state = "gone"]
    /\ UNCHANGED <<listener, closing, waiting, readBacks, faults, past>>
------------------------------------------------------------------------------
(* result(): starting the listener.                                         *)

\* Answer a of call w is an error of its own, an outcome its job has had, or the empty
\* result of a read-back that found a large result removed.
Real(w, a) == \/ a.how \in Raised \/ a \in past[JobOf[w]]
              \/ a = [how |-> "completed", run |-> 0] /\ JobOf[w] \in Big

\* Call w ends with answer a; its future leaves the list, and nothing of it is kept.
Ends(w, a) ==
    /\ at' = [at EXCEPT ![w] = "end"] /\ listed' = listed \ {w}
    /\ futs' = [futs EXCEPT ![w] = None] /\ seen' = [seen EXCEPT ![w] = None]
    /\ late' = late \ {w}
    /\ untrue' = IF Real(w, a) THEN untrue ELSE untrue \cup {w}

\* w is past _ensure_dispatcher: it registers, unless the queue was closed meanwhile.
Registers(w) ==
    IF closing # "no" THEN Ends(w, Raise("closed"))
    ELSE /\ at' = [at EXCEPT ![w] = "read"]
         /\ listed' = listed \cup {w}
         /\ UNCHANGED <<futs, seen, late, untrue>>

Call(w) ==
    /\ at[w] = "idle"
    /\ IF task = "live" THEN Registers(w)
       ELSE at' = [at EXCEPT ![w] = "lock"] /\ UNCHANGED call
    /\ UNCHANGED <<server, listener, closing, readBacks, faults>>

\* Mutant of Closed: the queue is not looked at again under the lock.
ClosedUnseen == FALSE

Closed == closing # "no"

\* w has the lock: the queue is closed, someone else has started the listener, or w
\* starts one, after closing what a crashed one left.
Locks(w) ==
    /\ at[w] = "lock" /\ lock = None
    /\ IF Closed THEN Ends(w, Raise("closed")) /\ UNCHANGED listener
       ELSE IF task = "live" THEN Registers(w) /\ UNCHANGED listener
       ELSE /\ at' = [at EXCEPT ![w] = "start"]
            /\ lock' = w /\ sub' = "asked" /\ events' = <<>>
            /\ UNCHANGED <<task, call>>
    /\ UNCHANGED <<server, closing, readBacks, faults>>

\* The subscription takes effect.
Subscribed ==
    /\ sub = "asked" /\ sub' = "on"
    /\ UNCHANGED <<server, events, task, lock, closing, waiting, readBacks, faults>>

\* Mutant of Confirmed: subscribe() has written its command.
ConfirmedWritten == sub \in {"asked", "on"}

\* confirm_subscribed() has read the server's answer.
Confirmed == sub = "on"

Starts(w) ==
    /\ at[w] = "start" /\ Confirmed
    /\ task' = "live" /\ lock' = None
    /\ Registers(w)
    /\ UNCHANGED <<server, sub, events, closing, readBacks, faults>>

\* Mutant of StartFails: the lock is not released.
StartFailsHolding(w) ==
    /\ at[w] = "start" /\ Fault
    /\ sub' = "off" /\ events' = <<>>
    /\ Ends(w, Raise("lost"))
    /\ UNCHANGED <<server, task, lock, closing, readBacks>>

\* The server does not confirm in time, or the connection dies: the call raises.
StartFails(w) ==
    /\ at[w] = "start" /\ Fault
    /\ sub' = "off" /\ events' = <<>> /\ lock' = None
    /\ Ends(w, Raise("lost"))
    /\ UNCHANGED <<server, task, closing, readBacks>>
------------------------------------------------------------------------------
(* result(): waiting.                                                       *)

\* get_job() reads the hash; the answer is on its way.
Reads(w) ==
    /\ at[w] = "read"
    /\ at' = [at EXCEPT ![w] = "got"] /\ seen' = [seen EXCEPT ![w] = jobs[JobOf[w]]]
    /\ UNCHANGED <<server, listener, closing, futs, listed, late, readBacks,
                   faults, untrue>>

\* It raises, for a connection that fails or is closed.
ReadFails(w) ==
    /\ at[w] = "read"
    /\ \/ Fault
       \/ closing = "done" /\ UNCHANGED faults
    /\ Ends(w, Raise("lost"))
    /\ UNCHANGED <<server, listener, closing, readBacks>>

\* The hash is that of a finished job.
Settled(h) == h.state \in Terminal

\* Mutant of Outcome: a cancelled job is read as a failed one.
OutcomeCoarse(h) == [how |-> IF h.state = "cancelled" THEN "failed" ELSE h.state, run |-> h.run]

Outcome(h) == [how |-> h.state, run |-> h.run]

\* The read is back: the outcome, or the end of the time, or a wait of RESULT_RECHECK_S.
Got(w) ==
    /\ at[w] = "got"
    /\ IF Settled(seen[w]) THEN Ends(w, Outcome(seen[w]))
       ELSE IF w \in late THEN Ends(w, Raise("timeout"))
       ELSE /\ at' = [at EXCEPT ![w] = "wait"]
            /\ UNCHANGED <<seen, futs, listed, late, untrue>>
    /\ UNCHANGED <<server, listener, closing, readBacks, faults>>

Resolved(w) ==
    /\ at[w] = "wait" /\ futs[w] # None
    /\ Ends(w, futs[w])
    /\ UNCHANGED <<server, listener, closing, readBacks, faults>>

\* Mutant of Rechecks: the future is the only word of the outcome.
RechecksNever(w) == FALSE

\* The wait is over in vain: the hash is read again.
Rechecks(w) == at[w] = "wait" /\ futs[w] = None

Recheck(w) ==
    /\ Rechecks(w)
    /\ at' = [at EXCEPT ![w] = "read"] /\ seen' = [seen EXCEPT ![w] = None]
    /\ UNCHANGED <<server, listener, closing, futs, listed, late, readBacks,
                   faults, untrue>>

\* The deadline passes; with a timeout of zero at once.
DeadlinePasses(w) ==
    /\ w \in Limited \ late /\ w \in Inside
    /\ late' = late \cup {w}
    /\ UNCHANGED <<server, listener, closing, at, seen, futs, listed, readBacks,
                   faults, untrue>>

\* The caller is cancelled while it waits: for the lock, the server or its future.
Abandon(w) ==
    /\ at[w] \notin {"idle", "end"} /\ Fault
    /\ IF lock = w THEN sub' = "off" /\ events' = <<>> /\ lock' = None
       ELSE UNCHANGED <<sub, events, lock>>
    /\ Ends(w, Raise("abandoned"))
    /\ UNCHANGED <<server, task, closing, readBacks>>
------------------------------------------------------------------------------
(* The listener.                                                            *)

\* The futures of the waiters in `who` that are not done are resolved with a.
Resolve(who, a) == [w \in Waiters |-> IF w \in who /\ futs[w] = None THEN a ELSE futs[w]]

\* The waiters an event is for.
Addressed(e) == {w \in listed : JobOf[w] = e.job}

\* _route_event: a large result is read back from the hash, in a task of its own.
Route ==
    /\ task = "live" /\ events # <<>>
    /\ LET e == Head(events) IN
         IF e.what.how = "completed" /\ ~e.inline
         THEN /\ readBacks' = readBacks \cup {w \in Addressed(e) : futs[w] = None}
              /\ UNCHANGED futs
         ELSE futs' = Resolve(Addressed(e), e.what) /\ UNCHANGED readBacks
    /\ events' = Tail(events)
    /\ UNCHANGED <<server, sub, task, lock, closing, waits, faults>>

\* The hash is read for w: what the job returned, or None when it is not there any more.
ReadBack(w) ==
    /\ w \in readBacks /\ readBacks' = readBacks \ {w}
    /\ LET h == jobs[JobOf[w]]
       IN  futs' = Resolve({w} \cap listed, [how |-> "completed",
                                          run |-> IF h.state = "completed" THEN h.run ELSE 0])
    /\ UNCHANGED <<server, listener, closing, waits, faults>>

\* The read fails: the future stays as it is.
ReadBackFails(w) ==
    /\ w \in readBacks /\ Fault /\ readBacks' = readBacks \ {w}
    /\ UNCHANGED <<server, listener, closing, waiting>>

\* The listener's connection has broken and it has subscribed again: what was published
\* in the gap, and what was not read before it, is lost without a word.
Resubscribes ==
    /\ task = "live" /\ events # <<>> /\ Fault
    /\ events' = <<>>
    /\ UNCHANGED <<server, sub, task, lock, closing, waiting, readBacks>>

\* It does not come back: the listener ends and fails everyone who waits.
ListenerDies ==
    /\ task = "live" /\ Fault
    /\ task' = "done" /\ sub' = "left" /\ events' = <<>>
    /\ futs' = Resolve(listed, Raise("lost"))
    /\ UNCHANGED <<server, lock, closing, waits, readBacks>>
------------------------------------------------------------------------------
(* close().                                                                 *)

CloseAsks ==
    /\ closing = "no" /\ closing' = "asked"
    /\ UNCHANGED <<server, listener, waiting, readBacks, faults>>

\* close() has the lock, and cancels the listener.
CloseLocks ==
    /\ closing = "asked" /\ lock = None
    /\ closing' = "locked" /\ lock' = "close"
    /\ task' = IF task = "live" THEN "done" ELSE task
    /\ UNCHANGED <<server, sub, events, waiting, readBacks, faults>>

\* The listener and its subscription are gone; everyone who waits is failed, and the
\* reads in flight are cancelled.
CloseEnds ==
    /\ closing = "locked" /\ closing' = "done"
    /\ task' = "none" /\ sub' = "off" /\ events' = <<>> /\ lock' = None
    /\ futs' = Resolve(listed, Raise("closed")) /\ readBacks' = {}
    /\ UNCHANGED <<server, waits, faults>>

Steps(w) == Locks(w) \/ Starts(w) \/ Reads(w) \/ Got(w) \/ Resolved(w) \/ Recheck(w)

Next ==
    \/ \E j \in Jobs : Finish(j) \/ RunAgain(j) \/ Remove(j)
    \/ \E w \in Waiters :
          \/ Call(w) \/ Steps(w) \/ StartFails(w) \/ ReadFails(w)
          \/ DeadlinePasses(w) \/ Abandon(w) \/ ReadBack(w) \/ ReadBackFails(w)
    \/ Subscribed \/ Route \/ Resubscribes \/ ListenerDies
    \/ CloseAsks \/ CloseLocks \/ CloseEnds

Spec == Init /\ [][Next]_vars

\* The event loop runs every task that can go on, Redis answers, and time passes: a
\* wait of RESULT_RECHECK_S ends, and so does a timeout.  (Subscribed and the two steps of
\* close() exclude each other: the lock decides.)
FairSpec ==
    /\ Spec
    /\ \A w \in Waiters : WF_vars(Steps(w))
    /\ \A w \in Limited : WF_vars(DeadlinePasses(w))
    /\ WF_vars(Subscribed \/ CloseLocks \/ CloseEnds)
------------------------------------------------------------------------------
\* A call answers with an outcome its job really had, whoever delivered it: the event,
\* the hash or a read-back, across retries and reuses of the id.
AnswerIsReal == untrue = {}

\* A job that finishes after result() saw it unfinished is never missed, though the finish
\* removes its hash: as long as no connection failed, its event is still to be read, or
\* is being read back, or has resolved the future (result() registers before it reads,
\* and the listener is confirmed before anyone registers).
NothingMissed == \A w \in Inside :
    /\ seen[w] # None /\ seen[w].state = "open" /\ seen[w] # jobs[JobOf[w]]
    /\ futs[w] = None /\ faults = 0 /\ closing \in {"no", "asked"}
    => \/ \E i \in DOMAIN events : events[i].job = JobOf[w]
       \/ w \in readBacks

\* Once close() has returned, nothing of the queue is left running, also when it raced
\* the first result() that was starting the listener: no listener, no subscription, no
\* read in flight, and no future that nobody will resolve.
ClosedIsQuiet ==
    closing = "done" => /\ task # "live" /\ sub = "off" /\ lock = None /\ readBacks = {}
                        /\ \A w \in Inside : futs[w] # None

\* Call w is to end: it has a timeout, or the queue is closed, or its job has finished
\* and keeps its hash.
Due(w) ==
    /\ at[w] \notin {"idle", "end"}
    /\ w \in Limited \/ closing # "no" \/ (w \in Inside /\ Settled(jobs[JobOf[w]]))

\* A waiter whose job has finished and keeps its hash ends, whatever events were lost
\* and whatever read-back failed; one with a timeout ends in any case, and close() ends
\* everyone.
EveryWaitEnds == \A w \in Waiters : Due(w) ~> ~Due(w)
==============================================================================

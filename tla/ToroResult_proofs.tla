--------------------------- MODULE ToroResult_proofs ---------------------------
(***************************************************************************)
(* result(), its listener and close(), for any number of jobs and waiters: *)
(* every answer is real, no finish is missed, and close() leaves nothing.  *)
(***************************************************************************)
EXTENDS ToroResult, TLAPS

\* The lock and close(): a waiter that starts the listener holds the lock, and close()
\* holds it from its own cancellation of the listener to its end.
LockOK ==
    /\ \A w \in Waiters : at[w] = "start" => lock = w
    /\ closing = "locked" <=> lock = "close"
    /\ closing = "done" => lock = None

\* The listener: it runs only subscribed and while nobody starts one, and as long as
\* nothing has failed nobody waits without it.
ListenerOK ==
    /\ task = "live" => sub = "on" /\ lock \notin Waiters /\ closing \in {"no", "asked"}
    /\ Inside # {} /\ faults = 0 /\ closing \in {"no", "asked"} => task = "live"

\* Whoever waits can be reached.
Registered == Inside \subseteq listed

\* A call that has not read the hash has nothing of it.
Unread == \A w \in Waiters : at[w] \in {"idle", "lock", "start"} => seen[w] = None

\* Every copy of an outcome is one the job has had: in its hash, in a hash that was
\* read, in an event on its way, and in a resolved future.
HashesReal == \A j \in Jobs : Settled(jobs[j]) => Outcome(jobs[j]) \in past[j]

ReadsReal == \A w \in Waiters :
    /\ at[w] = "got" => seen[w] # None
    /\ seen[w] # None /\ Settled(seen[w]) => Outcome(seen[w]) \in past[JobOf[w]]

FuturesReal == \A w \in Waiters : futs[w] # None => Real(w, futs[w])

\* What is read back from the hash is a large result.
EventsReal ==
    /\ \A i \in DOMAIN events :
         /\ events[i].what \in past[events[i].job]
         /\ events[i].inline \/ events[i].job \in Big
    /\ \A w \in readBacks : JobOf[w] \in Big

CopiesReal == HashesReal /\ ReadsReal /\ FuturesReal /\ EventsReal

ResultInv ==
    /\ LockOK /\ ListenerOK /\ Registered /\ Unread /\ CopiesReal
    /\ AnswerIsReal /\ NothingMissed /\ ClosedIsQuiet

\* The types of what Ends and Registers write.
CallTyped ==
    /\ at \in [Waiters -> {"idle", "lock", "start", "read", "got", "wait", "end"}]
    /\ seen \in [Waiters -> JobStates \cup {None}]
    /\ futs \in [Waiters -> Answers \cup {None}]
    /\ listed \cup late \cup untrue \subseteq Waiters

\* A call that ends leaves its variables typed.
LEMMA EndsTyped ==
  ASSUME TypeOK, NEW w \in Waiters, NEW a, Ends(w, a)
  PROVE  CallTyped' /\ at' = [at EXCEPT ![w] = "end"]
BY DEF TypeOK, CallTyped, Ends

\* So does one that registers.
LEMMA RegistersTyped ==
  ASSUME TypeOK, NEW w \in Waiters, Registers(w)
  PROVE  CallTyped' /\ \E x \in {"read", "end"} : at' = [at EXCEPT ![w] = x]
<1>1. CASE closing # "no"
  BY <1>1, EndsTyped DEF Registers
<1>2. CASE closing = "no"
  BY <1>2 DEF TypeOK, CallTyped, Registers
<1> QED
  BY <1>1, <1>2

\* Every action keeps the types.
LEMMA TypeStep ==
  ASSUME TypeOK, [Next]_vars
  PROVE  TypeOK'
<1> USE ResultAssumption, NoneAssumption DEF Raise, server, listener, call, waiting, waits, Fault
<1>1. ASSUME NEW j \in Jobs, Finish(j) PROVE TypeOK'
  <2>1. PICK how \in Ways, kept \in BOOLEAN :
          LET outcome == [how |-> how, run |-> jobs[j].run]
              event   == [job |-> j, what |-> outcome, inline |-> j \notin Big \/ ~kept]
          IN  /\ jobs' = [jobs EXCEPT ![j].state = IF kept THEN how ELSE "gone"]
              /\ events' = IF sub = "on" THEN Append(events, event) ELSE events
              /\ past' = [past EXCEPT ![j] = @ \cup {outcome}]
    BY <1>1 DEF Finish
  <2> DEFINE outcome == [how |-> how, run |-> jobs[j].run]
             event   == [job |-> j, what |-> outcome, inline |-> j \notin Big \/ ~kept]
  <2>2. jobs[j] \in JobStates /\ how \in Terminal
    BY DEF TypeOK, Terminal
  <2>3. jobs' \in [Jobs -> JobStates]
    BY <2>1, <2>2 DEF TypeOK, JobStates
  <2>4. outcome \in Outcomes
    BY <2>2 DEF JobStates, Outcomes
  <2>5. event \in Events
    BY <2>4 DEF Events
  <2>6. past' = [past EXCEPT ![j] = @ \cup {outcome}]
    BY <2>1
  <2>7. events' = events \/ events' = Append(events, event)
    BY <2>1
  <2> HIDE DEF outcome, event
  <2>8. past' \in [Jobs -> SUBSET Outcomes]
    BY <2>4, <2>6 DEF TypeOK
  <2>9. events' \in Seq(Events)
    BY <2>5, <2>7 DEF TypeOK
  <2> QED
    BY <1>1, <2>3, <2>8, <2>9 DEF Finish, TypeOK
<1>2. ASSUME NEW j \in Jobs, RunAgain(j) PROVE TypeOK'
  BY <1>2 DEF RunAgain, TypeOK, JobStates
<1>3. ASSUME NEW j \in Jobs, Remove(j) PROVE TypeOK'
  <2>1. jobs' \in [Jobs -> JobStates]
    BY <1>3 DEF Remove, TypeOK, JobStates
  <2> QED
    BY <1>3, <2>1 DEF Remove, TypeOK
<1>4. ASSUME NEW w \in Waiters, Call(w) PROVE TypeOK'
  <2>1. CallTyped' /\ \E x \in {"read", "end", "lock"} : at' = [at EXCEPT ![w] = x]
    <3>1. CASE task = "live"
      BY <1>4, <3>1, RegistersTyped DEF Call
    <3>2. CASE task # "live"
      BY <1>4, <3>2 DEF Call, TypeOK, CallTyped
    <3> QED
      BY <3>1, <3>2
  <2> QED
    BY <1>4, <2>1 DEF Call, TypeOK, CallTyped
<1>5. ASSUME NEW w \in Waiters, Locks(w) PROVE TypeOK'
  <2>1. CASE closing # "no"
    BY <1>5, <2>1, EndsTyped DEF Locks, Closed, TypeOK, CallTyped
  <2>2. CASE closing = "no" /\ task = "live"
    BY <1>5, <2>2, RegistersTyped DEF Locks, Closed, TypeOK, CallTyped
  <2>3. CASE closing = "no" /\ task # "live"
    BY <1>5, <2>3 DEF Locks, Closed, TypeOK
  <2> QED
    BY <2>1, <2>2, <2>3
<1>6. ASSUME NEW w \in Waiters, Starts(w) PROVE TypeOK'
  BY <1>6, RegistersTyped DEF Starts, TypeOK, CallTyped
<1>7. ASSUME NEW w \in Waiters, Reads(w) PROVE TypeOK'
  BY <1>7 DEF Reads, TypeOK, Inside
<1>8. ASSUME NEW w \in Waiters, Got(w) PROVE TypeOK'
  <2>1. CallTyped' /\ \E x \in {"wait", "end"} : at' = [at EXCEPT ![w] = x]
    <3>1. CASE Settled(seen[w]) \/ w \in late
      BY <1>8, <3>1, EndsTyped DEF Got
    <3>2. CASE ~Settled(seen[w]) /\ w \notin late
      BY <1>8, <3>2 DEF Got, TypeOK, CallTyped
    <3> QED
      BY <3>1, <3>2
  <2> QED
    BY <1>8, <2>1 DEF Got, TypeOK, CallTyped
<1>9. ASSUME NEW w \in Waiters, Resolved(w) PROVE TypeOK'
  BY <1>9 DEF Resolved, TypeOK, Raised, Ends, Inside
<1>10. ASSUME NEW w \in Waiters, Recheck(w) PROVE TypeOK'
  BY <1>10 DEF Recheck, TypeOK, Rechecks, Inside
<1>11. ASSUME NEW w \in Waiters, StartFails(w) PROVE TypeOK'
  BY <1>11 DEF StartFails, TypeOK, Raised, Ends, Inside
<1>12. ASSUME NEW w \in Waiters, ReadFails(w) PROVE TypeOK'
  BY <1>12 DEF ReadFails, TypeOK, Raised, Ends, Inside
<1>13. ASSUME NEW w \in Waiters, DeadlinePasses(w) PROVE TypeOK'
  BY <1>13 DEF DeadlinePasses, TypeOK, Inside
<1>14. ASSUME NEW w \in Waiters, Abandon(w) PROVE TypeOK'
  <2>1. CallTyped' /\ at' = [at EXCEPT ![w] = "end"]
    BY <1>14, EndsTyped DEF Abandon
  <2>2. events' \in Seq(Events) /\ sub' \in {"off", "asked", "on", "left"}
    <3>1. CASE lock = w
      BY <1>14, <3>1 DEF Abandon
    <3>2. CASE lock # w
      BY <1>14, <3>2 DEF Abandon, TypeOK
    <3> QED
      BY <3>1, <3>2
  <2>3. /\ lock' \in Waiters \cup {"close", None}
        /\ lock' \in Waiters => at'[lock'] = "start"
    BY <1>14, <2>1 DEF Abandon, TypeOK
  <2> QED
    BY <1>14, <2>1, <2>2, <2>3 DEF Abandon, TypeOK, CallTyped
<1>15. ASSUME NEW w \in Waiters, ReadBack(w) PROVE TypeOK'
  BY <1>15 DEF ReadBack, TypeOK, JobStates, Outcomes, Answers, Terminal, Resolve
<1>16. ASSUME NEW w \in Waiters, ReadBackFails(w) PROVE TypeOK'
  BY <1>16 DEF ReadBackFails, TypeOK, Inside
<1>17. CASE Subscribed
  BY <1>17 DEF Subscribed, TypeOK, Inside
<1>18. CASE Route
  <2>1. Head(events) \in Events /\ events' \in Seq(Events)
    BY <1>18 DEF Route, TypeOK
  <2>2. Head(events).what \in Answers
    BY <2>1 DEF Events, Answers
  <2>3. futs' \in [Waiters -> Answers \cup {None}]
    BY <1>18, <2>2 DEF Route, TypeOK, Resolve
  <2> QED
    BY <1>18, <2>1, <2>3 DEF Route, TypeOK, Addressed
<1>19. CASE Resubscribes
  BY <1>19 DEF Resubscribes, TypeOK, Inside
<1>20. CASE ListenerDies
  BY <1>20 DEF ListenerDies, TypeOK, Answers, Raised, Resolve
<1>21. CASE CloseAsks
  BY <1>21 DEF CloseAsks, TypeOK, Inside
<1>22. CASE CloseLocks
  BY <1>22 DEF CloseLocks, TypeOK, Inside
<1>23. CASE CloseEnds
  BY <1>23 DEF CloseEnds, TypeOK, Answers, Raised, Resolve
<1>24. CASE UNCHANGED vars
  BY <1>24 DEF vars, TypeOK, Inside
<1> QED
  BY <1>1, <1>2, <1>3, <1>4, <1>5, <1>6, <1>7, <1>8, <1>9, <1>10, <1>11, <1>12,
     <1>13, <1>14, <1>15, <1>16, <1>17, <1>18, <1>19, <1>20, <1>21, <1>22, <1>23, <1>24
  DEF Next, Steps

\* The lock is held by whoever starts the listener, or by close().
LEMMA LockStep ==
  ASSUME TypeOK, LockOK, [Next]_vars
  PROVE  LockOK'
<1> USE ResultAssumption, NoneAssumption DEF Raise, server, listener, call, waiting, waits, Fault
<1>1. ASSUME NEW j \in Jobs, Finish(j) PROVE LockOK'
  BY <1>1 DEF Finish, TypeOK, LockOK
<1>2. ASSUME NEW j \in Jobs, RunAgain(j) PROVE LockOK'
  BY <1>2 DEF RunAgain, TypeOK, LockOK
<1>3. ASSUME NEW j \in Jobs, Remove(j) PROVE LockOK'
  BY <1>3 DEF Remove, TypeOK, LockOK
<1>4. ASSUME NEW w \in Waiters, Call(w) PROVE LockOK'
  BY <1>4 DEF Call, TypeOK, LockOK, Ends, Registers
<1>5. ASSUME NEW w \in Waiters, Locks(w) PROVE LockOK'
  BY <1>5 DEF Locks, TypeOK, LockOK, Ends, Registers, Closed
<1>6. ASSUME NEW w \in Waiters, Starts(w) PROVE LockOK'
  BY <1>6 DEF Starts, TypeOK, LockOK, Ends, Registers, Confirmed
<1>7. ASSUME NEW w \in Waiters, Reads(w) PROVE LockOK'
  BY <1>7 DEF Reads, TypeOK, LockOK
<1>8. ASSUME NEW w \in Waiters, Got(w) PROVE LockOK'
  BY <1>8 DEF Got, TypeOK, LockOK, Ends, Settled, Outcome
<1>9. ASSUME NEW w \in Waiters, Resolved(w) PROVE LockOK'
  BY <1>9 DEF Resolved, TypeOK, LockOK, Ends
<1>10. ASSUME NEW w \in Waiters, Recheck(w) PROVE LockOK'
  BY <1>10 DEF Recheck, TypeOK, LockOK
<1>11. ASSUME NEW w \in Waiters, StartFails(w) PROVE LockOK'
  BY <1>11 DEF StartFails, TypeOK, LockOK, Ends
<1>12. ASSUME NEW w \in Waiters, ReadFails(w) PROVE LockOK'
  BY <1>12 DEF ReadFails, TypeOK, LockOK, Ends
<1>13. ASSUME NEW w \in Waiters, DeadlinePasses(w) PROVE LockOK'
  BY <1>13 DEF DeadlinePasses, TypeOK, LockOK
<1>14. ASSUME NEW w \in Waiters, Abandon(w) PROVE LockOK'
  BY <1>14 DEF Abandon, TypeOK, LockOK, Ends
<1>15. ASSUME NEW w \in Waiters, ReadBack(w) PROVE LockOK'
  BY <1>15 DEF ReadBack, TypeOK, LockOK
<1>16. ASSUME NEW w \in Waiters, ReadBackFails(w) PROVE LockOK'
  BY <1>16 DEF ReadBackFails, TypeOK, LockOK
<1>17. CASE Subscribed
  BY <1>17 DEF Subscribed, TypeOK, LockOK
<1>18. CASE Route
  BY <1>18 DEF Route, TypeOK, LockOK
<1>19. CASE Resubscribes
  BY <1>19 DEF Resubscribes, TypeOK, LockOK
<1>20. CASE ListenerDies
  BY <1>20 DEF ListenerDies, TypeOK, LockOK
<1>21. CASE CloseAsks
  BY <1>21 DEF CloseAsks, TypeOK, LockOK
<1>22. CASE CloseLocks
  BY <1>22 DEF CloseLocks, TypeOK, LockOK
<1>23. CASE CloseEnds
  BY <1>23 DEF CloseEnds, TypeOK, LockOK
<1>24. CASE UNCHANGED vars
  BY <1>24 DEF vars, TypeOK, LockOK
<1> QED
  BY <1>1, <1>2, <1>3, <1>4, <1>5, <1>6, <1>7, <1>8, <1>9, <1>10, <1>11, <1>12,
     <1>13, <1>14, <1>15, <1>16, <1>17, <1>18, <1>19, <1>20, <1>21, <1>22, <1>23, <1>24
  DEF Next, Steps

\* A listener that runs is subscribed, and it runs as long as somebody waits and nothing failed.
LEMMA ListenerStep ==
  ASSUME TypeOK, LockOK, ListenerOK, [Next]_vars
  PROVE  ListenerOK'
<1> USE ResultAssumption, NoneAssumption DEF Raise, server, listener, call, waiting, waits, Fault
<1>1. ASSUME NEW j \in Jobs, Finish(j) PROVE ListenerOK'
  BY <1>1 DEF Finish, TypeOK, LockOK, ListenerOK, Inside
<1>2. ASSUME NEW j \in Jobs, RunAgain(j) PROVE ListenerOK'
  BY <1>2 DEF RunAgain, TypeOK, LockOK, ListenerOK, Inside
<1>3. ASSUME NEW j \in Jobs, Remove(j) PROVE ListenerOK'
  BY <1>3 DEF Remove, TypeOK, LockOK, ListenerOK, Inside
<1>4. ASSUME NEW w \in Waiters, Call(w) PROVE ListenerOK'
  BY <1>4 DEF Call, TypeOK, LockOK, ListenerOK, Inside
<1>5. ASSUME NEW w \in Waiters, Locks(w) PROVE ListenerOK'
  BY <1>5 DEF Locks, TypeOK, LockOK, ListenerOK, Inside, Ends, Registers, Closed
<1>6. ASSUME NEW w \in Waiters, Starts(w) PROVE ListenerOK'
  BY <1>6 DEF Starts, TypeOK, LockOK, ListenerOK, Inside, Ends, Registers, Confirmed
<1>7. ASSUME NEW w \in Waiters, Reads(w) PROVE ListenerOK'
  BY <1>7 DEF Reads, TypeOK, LockOK, ListenerOK, Inside
<1>8. ASSUME NEW w \in Waiters, Got(w) PROVE ListenerOK'
  BY <1>8 DEF Got, TypeOK, LockOK, ListenerOK, Inside
<1>9. ASSUME NEW w \in Waiters, Resolved(w) PROVE ListenerOK'
  BY <1>9 DEF Resolved, TypeOK, LockOK, ListenerOK, Inside
<1>10. ASSUME NEW w \in Waiters, Recheck(w) PROVE ListenerOK'
  BY <1>10 DEF Recheck, TypeOK, LockOK, ListenerOK, Inside, Rechecks
<1>11. ASSUME NEW w \in Waiters, StartFails(w) PROVE ListenerOK'
  BY <1>11 DEF StartFails, TypeOK, LockOK, ListenerOK, Inside
<1>12. ASSUME NEW w \in Waiters, ReadFails(w) PROVE ListenerOK'
  BY <1>12 DEF ReadFails, TypeOK, LockOK, ListenerOK, Inside
<1>13. ASSUME NEW w \in Waiters, DeadlinePasses(w) PROVE ListenerOK'
  BY <1>13 DEF DeadlinePasses, TypeOK, LockOK, ListenerOK, Inside
<1>14. ASSUME NEW w \in Waiters, Abandon(w) PROVE ListenerOK'
  BY <1>14 DEF Abandon, TypeOK, LockOK, ListenerOK, Inside
<1>15. ASSUME NEW w \in Waiters, ReadBack(w) PROVE ListenerOK'
  BY <1>15 DEF ReadBack, TypeOK, LockOK, ListenerOK, Inside
<1>16. ASSUME NEW w \in Waiters, ReadBackFails(w) PROVE ListenerOK'
  BY <1>16 DEF ReadBackFails, TypeOK, LockOK, ListenerOK, Inside
<1>17. CASE Subscribed
  BY <1>17 DEF Subscribed, TypeOK, LockOK, ListenerOK, Inside
<1>18. CASE Route
  BY <1>18 DEF Route, TypeOK, LockOK, ListenerOK, Inside
<1>19. CASE Resubscribes
  BY <1>19 DEF Resubscribes, TypeOK, LockOK, ListenerOK, Inside
<1>20. CASE ListenerDies
  BY <1>20 DEF ListenerDies, TypeOK, LockOK, ListenerOK, Inside
<1>21. CASE CloseAsks
  BY <1>21 DEF CloseAsks, TypeOK, LockOK, ListenerOK, Inside
<1>22. CASE CloseLocks
  BY <1>22 DEF CloseLocks, TypeOK, LockOK, ListenerOK, Inside
<1>23. CASE CloseEnds
  BY <1>23 DEF CloseEnds, TypeOK, LockOK, ListenerOK, Inside
<1>24. CASE UNCHANGED vars
  BY <1>24 DEF vars, TypeOK, LockOK, ListenerOK, Inside
<1> QED
  BY <1>1, <1>2, <1>3, <1>4, <1>5, <1>6, <1>7, <1>8, <1>9, <1>10, <1>11, <1>12,
     <1>13, <1>14, <1>15, <1>16, <1>17, <1>18, <1>19, <1>20, <1>21, <1>22, <1>23, <1>24
  DEF Next, Steps

\* A call that waits stays in the list of waiters to the end of its wait.
LEMMA RegisteredStep ==
  ASSUME TypeOK, Registered, [Next]_vars
  PROVE  Registered'
<1> USE ResultAssumption, NoneAssumption DEF Raise, server, listener, call, waiting, waits, Fault
<1>1. ASSUME NEW j \in Jobs, Finish(j) PROVE Registered'
  BY <1>1 DEF Finish, TypeOK, Registered, Inside
<1>2. ASSUME NEW j \in Jobs, RunAgain(j) PROVE Registered'
  BY <1>2 DEF RunAgain, TypeOK, Registered, Inside
<1>3. ASSUME NEW j \in Jobs, Remove(j) PROVE Registered'
  BY <1>3 DEF Remove, TypeOK, Registered, Inside
<1>4. ASSUME NEW w \in Waiters, Call(w) PROVE Registered'
  BY <1>4 DEF Call, TypeOK, Registered, Inside, Ends, Registers
<1>5. ASSUME NEW w \in Waiters, Locks(w) PROVE Registered'
  BY <1>5 DEF Locks, TypeOK, Registered, Inside, Ends, Registers, Closed
<1>6. ASSUME NEW w \in Waiters, Starts(w) PROVE Registered'
  BY <1>6 DEF Starts, TypeOK, Registered, Inside, Ends, Registers, Confirmed
<1>7. ASSUME NEW w \in Waiters, Reads(w) PROVE Registered'
  BY <1>7 DEF Reads, TypeOK, Registered, Inside
<1>8. ASSUME NEW w \in Waiters, Got(w) PROVE Registered'
  BY <1>8 DEF Got, TypeOK, Registered, Inside, Ends, Settled, Outcome
<1>9. ASSUME NEW w \in Waiters, Resolved(w) PROVE Registered'
  BY <1>9 DEF Resolved, TypeOK, Registered, Inside, Ends
<1>10. ASSUME NEW w \in Waiters, Recheck(w) PROVE Registered'
  BY <1>10 DEF Recheck, TypeOK, Registered, Inside, Rechecks
<1>11. ASSUME NEW w \in Waiters, StartFails(w) PROVE Registered'
  BY <1>11 DEF StartFails, TypeOK, Registered, Inside, Ends
<1>12. ASSUME NEW w \in Waiters, ReadFails(w) PROVE Registered'
  BY <1>12 DEF ReadFails, TypeOK, Registered, Inside, Ends
<1>13. ASSUME NEW w \in Waiters, DeadlinePasses(w) PROVE Registered'
  BY <1>13 DEF DeadlinePasses, TypeOK, Registered, Inside
<1>14. ASSUME NEW w \in Waiters, Abandon(w) PROVE Registered'
  BY <1>14 DEF Abandon, TypeOK, Registered, Inside, Ends
<1>15. ASSUME NEW w \in Waiters, ReadBack(w) PROVE Registered'
  BY <1>15 DEF ReadBack, TypeOK, Registered, Inside
<1>16. ASSUME NEW w \in Waiters, ReadBackFails(w) PROVE Registered'
  BY <1>16 DEF ReadBackFails, TypeOK, Registered, Inside
<1>17. CASE Subscribed
  BY <1>17 DEF Subscribed, TypeOK, Registered, Inside
<1>18. CASE Route
  BY <1>18 DEF Route, TypeOK, Registered, Inside
<1>19. CASE Resubscribes
  BY <1>19 DEF Resubscribes, TypeOK, Registered, Inside
<1>20. CASE ListenerDies
  BY <1>20 DEF ListenerDies, TypeOK, Registered, Inside
<1>21. CASE CloseAsks
  BY <1>21 DEF CloseAsks, TypeOK, Registered, Inside
<1>22. CASE CloseLocks
  BY <1>22 DEF CloseLocks, TypeOK, Registered, Inside
<1>23. CASE CloseEnds
  BY <1>23 DEF CloseEnds, TypeOK, Registered, Inside
<1>24. CASE UNCHANGED vars
  BY <1>24 DEF vars, TypeOK, Registered, Inside
<1> QED
  BY <1>1, <1>2, <1>3, <1>4, <1>5, <1>6, <1>7, <1>8, <1>9, <1>10, <1>11, <1>12,
     <1>13, <1>14, <1>15, <1>16, <1>17, <1>18, <1>19, <1>20, <1>21, <1>22, <1>23, <1>24
  DEF Next, Steps

\* close() leaves nothing running, and nothing starts after it.
LEMMA QuietStep ==
  ASSUME TypeOK, LockOK, ListenerOK, Registered, ClosedIsQuiet, [Next]_vars
  PROVE  ClosedIsQuiet'
<1> USE ResultAssumption, NoneAssumption DEF Raise, server, listener, call, waiting, waits, Fault
<1>1. ASSUME NEW j \in Jobs, Finish(j) PROVE ClosedIsQuiet'
  BY <1>1 DEF Finish, TypeOK, LockOK, ListenerOK, Registered, ClosedIsQuiet, Inside
<1>2. ASSUME NEW j \in Jobs, RunAgain(j) PROVE ClosedIsQuiet'
  BY <1>2 DEF RunAgain, TypeOK, LockOK, ListenerOK, Registered, ClosedIsQuiet, Inside
<1>3. ASSUME NEW j \in Jobs, Remove(j) PROVE ClosedIsQuiet'
  BY <1>3 DEF Remove, TypeOK, LockOK, ListenerOK, Registered, ClosedIsQuiet, Inside
<1>4. ASSUME NEW w \in Waiters, Call(w) PROVE ClosedIsQuiet'
  BY <1>4 DEF Call, TypeOK, LockOK, ListenerOK, Registered, ClosedIsQuiet, Inside
<1>5. ASSUME NEW w \in Waiters, Locks(w) PROVE ClosedIsQuiet'
  BY <1>5 DEF Locks, TypeOK, ClosedIsQuiet, Inside, Ends, Closed
<1>6. ASSUME NEW w \in Waiters, Starts(w) PROVE ClosedIsQuiet'
  BY <1>6 DEF Starts, TypeOK, LockOK, ListenerOK, Registered, ClosedIsQuiet, Inside
<1>7. ASSUME NEW w \in Waiters, Reads(w) PROVE ClosedIsQuiet'
  BY <1>7 DEF Reads, TypeOK, LockOK, ListenerOK, Registered, ClosedIsQuiet, Inside
<1>8. ASSUME NEW w \in Waiters, Got(w) PROVE ClosedIsQuiet'
  BY <1>8 DEF Got, TypeOK, ClosedIsQuiet, Inside, Ends
<1>9. ASSUME NEW w \in Waiters, Resolved(w) PROVE ClosedIsQuiet'
  BY <1>9 DEF Resolved, TypeOK, LockOK, ListenerOK, Registered, ClosedIsQuiet, Inside, Raised, Ends
<1>10. ASSUME NEW w \in Waiters, Recheck(w) PROVE ClosedIsQuiet'
  BY <1>10 DEF Recheck, TypeOK, LockOK, ListenerOK, Registered, ClosedIsQuiet, Inside, Rechecks
<1>11. ASSUME NEW w \in Waiters, StartFails(w) PROVE ClosedIsQuiet'
  BY <1>11 DEF StartFails, TypeOK, LockOK, ListenerOK, Registered, ClosedIsQuiet, Inside
<1>12. ASSUME NEW w \in Waiters, ReadFails(w) PROVE ClosedIsQuiet'
  BY <1>12 DEF ReadFails, TypeOK, ClosedIsQuiet, Inside, Ends
<1>13. ASSUME NEW w \in Waiters, DeadlinePasses(w) PROVE ClosedIsQuiet'
  BY <1>13 DEF DeadlinePasses, TypeOK, LockOK, ListenerOK, Registered, ClosedIsQuiet, Inside
<1>14. ASSUME NEW w \in Waiters, Abandon(w) PROVE ClosedIsQuiet'
  BY <1>14 DEF Abandon, TypeOK, LockOK, ListenerOK, Registered, ClosedIsQuiet, Inside, Raised, Ends
<1>15. ASSUME NEW w \in Waiters, ReadBack(w) PROVE ClosedIsQuiet'
  BY <1>15 DEF ReadBack, TypeOK, LockOK, ListenerOK, Registered, ClosedIsQuiet, Inside
<1>16. ASSUME NEW w \in Waiters, ReadBackFails(w) PROVE ClosedIsQuiet'
  BY <1>16 DEF ReadBackFails, TypeOK, LockOK, ListenerOK, Registered, ClosedIsQuiet, Inside
<1>17. CASE Subscribed
  BY <1>17 DEF Subscribed, TypeOK, LockOK, ListenerOK, Registered, ClosedIsQuiet, Inside
<1>18. CASE Route
  BY <1>18 DEF Route, TypeOK, LockOK, ListenerOK, Registered, ClosedIsQuiet, Inside
<1>19. CASE Resubscribes
  BY <1>19 DEF Resubscribes, TypeOK, LockOK, ListenerOK, Registered, ClosedIsQuiet, Inside
<1>20. CASE ListenerDies
  BY <1>20 DEF ListenerDies, TypeOK, LockOK, ListenerOK, Registered, ClosedIsQuiet, Inside
<1>21. CASE CloseAsks
  BY <1>21 DEF CloseAsks, TypeOK, LockOK, ListenerOK, Registered, ClosedIsQuiet, Inside
<1>22. CASE CloseLocks
  BY <1>22 DEF CloseLocks, TypeOK, LockOK, ListenerOK, Registered, ClosedIsQuiet, Inside
<1>23. CASE CloseEnds
  BY <1>23 DEF CloseEnds, Registered, ClosedIsQuiet, Inside, Answers, Raised, Resolve
<1>24. CASE UNCHANGED vars
  BY <1>24 DEF vars, TypeOK, LockOK, ListenerOK, Registered, ClosedIsQuiet, Inside
<1> QED
  BY <1>1, <1>2, <1>3, <1>4, <1>5, <1>6, <1>7, <1>8, <1>9, <1>10, <1>11, <1>12,
     <1>13, <1>14, <1>15, <1>16, <1>17, <1>18, <1>19, <1>20, <1>21, <1>22, <1>23, <1>24
  DEF Next, Steps

\* What a call has read and been told is real.
AnswersReal == ReadsReal /\ FuturesReal /\ AnswerIsReal

\* A call that ends with a real answer leaves nothing untrue behind.
LEMMA EndsReal ==
  ASSUME TypeOK, AnswersReal, past' = past, NEW w \in Waiters, NEW a, Real(w, a), Ends(w, a)
  PROVE  AnswersReal'
BY DEF TypeOK, AnswersReal, ReadsReal, FuturesReal, AnswerIsReal, Real, Ends

\* An error of the call itself is a real answer.
LEMMA RaisedIsReal ==
  ASSUME NEW w \in Waiters, NEW how \in Raised
  PROVE  Real(w, Raise(how))
BY DEF Real, Raise

\* Registering brings no answer.
LEMMA RegistersReal ==
  ASSUME TypeOK, AnswersReal, past' = past, NEW w \in Waiters, Registers(w)
  PROVE  AnswersReal'
<1>1. CASE closing # "no"
  BY <1>1, EndsReal, RaisedIsReal DEF Registers, Raised
<1>2. CASE closing = "no"
  BY <1>2 DEF TypeOK, AnswersReal, ReadsReal, FuturesReal, AnswerIsReal, Real, Registers
<1> QED
  BY <1>1, <1>2

\* No step makes up an outcome.
LEMMA RealStep ==
  ASSUME TypeOK, CopiesReal, AnswerIsReal, [Next]_vars
  PROVE  CopiesReal' /\ AnswerIsReal'
<1> USE ResultAssumption, NoneAssumption DEF Raise, server, listener, call, waiting, waits, Fault
<1>1. ASSUME NEW j \in Jobs, Finish(j) PROVE CopiesReal' /\ AnswerIsReal'
  <2>1. PICK how \in Ways, kept \in BOOLEAN :
          LET outcome == [how |-> how, run |-> jobs[j].run]
              event   == [job |-> j, what |-> outcome, inline |-> j \notin Big \/ ~kept]
          IN  /\ jobs' = [jobs EXCEPT ![j].state = IF kept THEN how ELSE "gone"]
              /\ events' = IF sub = "on" THEN Append(events, event) ELSE events
              /\ past' = [past EXCEPT ![j] = @ \cup {outcome}]
    BY <1>1 DEF Finish
  <2> DEFINE outcome == [how |-> how, run |-> jobs[j].run]
             event   == [job |-> j, what |-> outcome, inline |-> j \notin Big \/ ~kept]
  <2>2. /\ jobs' = [jobs EXCEPT ![j].state = IF kept THEN how ELSE "gone"]
        /\ past' = [past EXCEPT ![j] = @ \cup {outcome}]
        /\ events' = events \/ events' = Append(events, event)
    BY <2>1
  <2>3. event.job = j /\ event.what = outcome /\ (event.inline \/ j \in Big)
    OBVIOUS
  <2>4. HashesReal'
    BY <2>2 DEF TypeOK, CopiesReal, HashesReal, Settled, Outcome, JobStates, Terminal
  <2> HIDE DEF outcome, event
  <2>5. \A i \in Jobs : past[i] \subseteq past'[i]
    BY <2>2 DEF TypeOK
  <2>6. outcome \in past'[j]
    BY <2>2 DEF TypeOK
  <2>7. ReadsReal' /\ FuturesReal' /\ AnswerIsReal'
    BY <1>1, <2>5 DEF Finish, TypeOK, CopiesReal, ReadsReal, FuturesReal, AnswerIsReal, Real
  <2>8. EventsReal'
    <3>1. \A w \in readBacks' : JobOf[w] \in Big
      BY <1>1 DEF Finish, CopiesReal, EventsReal
    <3>2. \A i \in DOMAIN events :
            events[i].what \in past'[events[i].job] /\ (events[i].inline \/ events[i].job \in Big)
      <4>1. \A i \in DOMAIN events : events[i] \in Events
        BY DEF TypeOK
      <4>2. \A i \in DOMAIN events : events[i].job \in Jobs
        BY <4>1 DEF Events
      <4> QED
        BY <2>5, <4>2 DEF CopiesReal, EventsReal
    <3>3. CASE events' = events
      BY <3>1, <3>2, <3>3 DEF EventsReal
    <3>4. CASE events' = Append(events, event)
      <4>1. DOMAIN events' = 1..Len(events) + 1 /\ Len(events) \in Nat
        BY <3>4 DEF TypeOK
      <4>2. \A i \in 1..Len(events) : events'[i] = events[i]
        BY <3>4 DEF TypeOK
      <4>3. events'[Len(events) + 1] = event
        BY <3>4 DEF TypeOK
      <4>4. DOMAIN events = 1..Len(events)
        BY DEF TypeOK
      <4> QED
        <5>1. ASSUME NEW i \in DOMAIN events'
              PROVE  events'[i].what \in past'[events'[i].job]
                     /\ (events'[i].inline \/ events'[i].job \in Big)
          <6>1. i \in 1..Len(events) \/ i = Len(events) + 1
            BY <4>1
          <6> QED
            BY <2>3, <2>6, <3>2, <4>2, <4>3, <4>4, <6>1
        <5> QED
          BY <3>1, <5>1 DEF EventsReal
    <3> QED
      BY <2>2, <3>3, <3>4
  <2> QED
    BY <2>4, <2>7, <2>8 DEF CopiesReal
<1>2. ASSUME NEW j \in Jobs, RunAgain(j) PROVE CopiesReal' /\ AnswerIsReal'
  BY <1>2 DEF RunAgain, CopiesReal, HashesReal, ReadsReal, FuturesReal, EventsReal, AnswerIsReal,
              Real, Terminal, Settled
<1>3. ASSUME NEW j \in Jobs, Remove(j) PROVE CopiesReal' /\ AnswerIsReal'
  <2>1. jobs[j] \in JobStates /\ jobs' = [jobs EXCEPT ![j].state = "gone"]
    BY <1>3 DEF Remove, TypeOK
  <2>2. HashesReal'
    BY <1>3, <2>1 DEF Remove, TypeOK, CopiesReal, HashesReal, Settled, Terminal
  <2> QED
    BY <1>3, <2>2
    DEF Remove, CopiesReal, ReadsReal, FuturesReal, EventsReal, AnswerIsReal, Real
<1>4. ASSUME NEW w \in Waiters, Call(w) PROVE CopiesReal' /\ AnswerIsReal'
  <2>1. AnswersReal'
    <3>1. CASE task = "live"
      BY <1>4, <3>1, RegistersReal DEF Call, CopiesReal, AnswersReal
    <3>2. CASE task # "live"
      BY <1>4, <3>2
      DEF Call, TypeOK, CopiesReal, AnswersReal, ReadsReal, FuturesReal, AnswerIsReal, Real
    <3> QED
      BY <3>1, <3>2
  <2> QED
    BY <1>4, <2>1 DEF Call, AnswersReal, CopiesReal, HashesReal, EventsReal
<1>5. ASSUME NEW w \in Waiters, Locks(w) PROVE CopiesReal' /\ AnswerIsReal'
  <2>1. AnswersReal'
    <3>1. CASE closing # "no"
      BY <1>5, <3>1, EndsReal, RaisedIsReal DEF Locks, Closed, CopiesReal, AnswersReal, Raised
    <3>2. CASE closing = "no" /\ task = "live"
      BY <1>5, <3>2, RegistersReal DEF Locks, Closed, CopiesReal, AnswersReal
    <3>3. CASE closing = "no" /\ task # "live"
      BY <1>5, <3>3
      DEF Locks, Closed, TypeOK, CopiesReal, AnswersReal, ReadsReal, FuturesReal, AnswerIsReal, Real
    <3> QED
      BY <3>1, <3>2, <3>3
  <2>2. events' = events \/ events' = <<>>
    BY <1>5 DEF Locks
  <2> QED
    BY <1>5, <2>1, <2>2 DEF Locks, AnswersReal, CopiesReal, HashesReal, EventsReal
<1>6. ASSUME NEW w \in Waiters, Starts(w) PROVE CopiesReal' /\ AnswerIsReal'
  <2>1. AnswersReal'
    BY <1>6, RegistersReal DEF Starts, CopiesReal, AnswersReal
  <2> QED
    BY <1>6, <2>1 DEF Starts, AnswersReal, CopiesReal, HashesReal, EventsReal
<1>7. ASSUME NEW w \in Waiters, Reads(w) PROVE CopiesReal' /\ AnswerIsReal'
  <2>1. jobs[JobOf[w]] \in JobStates /\ jobs[JobOf[w]] # None
    BY DEF TypeOK
  <2>2. ReadsReal'
    BY <1>7, <2>1 DEF Reads, TypeOK, CopiesReal, HashesReal, ReadsReal
  <2> QED
    BY <1>7, <2>2 DEF Reads, CopiesReal, HashesReal, FuturesReal, EventsReal, AnswerIsReal, Real
<1>8. ASSUME NEW w \in Waiters, Got(w) PROVE CopiesReal' /\ AnswerIsReal'
  <2>1. AnswersReal'
    <3>1. CASE Settled(seen[w])
      <4>1. Real(w, Outcome(seen[w]))
        BY <1>8, <3>1 DEF Got, CopiesReal, ReadsReal, Real
      <4> QED
        BY <1>8, <3>1, <4>1, EndsReal DEF Got, CopiesReal, AnswersReal
    <3>2. CASE ~Settled(seen[w]) /\ w \in late
      BY <1>8, <3>2, EndsReal, RaisedIsReal DEF Got, CopiesReal, AnswersReal, Raised
    <3>3. CASE ~Settled(seen[w]) /\ w \notin late
      BY <1>8, <3>3
      DEF Got, TypeOK, CopiesReal, AnswersReal, ReadsReal, FuturesReal, AnswerIsReal, Real
    <3> QED
      BY <3>1, <3>2, <3>3
  <2> QED
    BY <1>8, <2>1 DEF Got, AnswersReal, CopiesReal, HashesReal, EventsReal
<1>9. ASSUME NEW w \in Waiters, Resolved(w) PROVE CopiesReal' /\ AnswerIsReal'
  <2>1. AnswersReal'
    BY <1>9, EndsReal DEF Resolved, CopiesReal, FuturesReal, AnswersReal
  <2> QED
    BY <1>9, <2>1 DEF Resolved, AnswersReal, CopiesReal, HashesReal, EventsReal
<1>10. ASSUME NEW w \in Waiters, Recheck(w) PROVE CopiesReal' /\ AnswerIsReal'
  BY <1>10 DEF Recheck, TypeOK, CopiesReal, HashesReal, ReadsReal, FuturesReal, EventsReal,
               AnswerIsReal, Real
<1>11. ASSUME NEW w \in Waiters, StartFails(w) PROVE CopiesReal' /\ AnswerIsReal'
  <2>1. AnswersReal'
    BY <1>11, EndsReal, RaisedIsReal DEF StartFails, CopiesReal, AnswersReal, Raised
  <2>2. events' = events \/ events' = <<>>
    BY <1>11 DEF StartFails
  <2> QED
    BY <1>11, <2>1, <2>2 DEF StartFails, AnswersReal, CopiesReal, HashesReal, EventsReal
<1>12. ASSUME NEW w \in Waiters, ReadFails(w) PROVE CopiesReal' /\ AnswerIsReal'
  <2>1. AnswersReal'
    BY <1>12, EndsReal, RaisedIsReal DEF ReadFails, CopiesReal, AnswersReal, Raised
  <2>2. events' = events \/ events' = <<>>
    BY <1>12 DEF ReadFails
  <2> QED
    BY <1>12, <2>1, <2>2 DEF ReadFails, AnswersReal, CopiesReal, HashesReal, EventsReal
<1>13. ASSUME NEW w \in Waiters, DeadlinePasses(w) PROVE CopiesReal' /\ AnswerIsReal'
  BY <1>13 DEF DeadlinePasses, CopiesReal, HashesReal, ReadsReal, FuturesReal, EventsReal,
               AnswerIsReal, Real
<1>14. ASSUME NEW w \in Waiters, Abandon(w) PROVE CopiesReal' /\ AnswerIsReal'
  <2>1. AnswersReal'
    BY <1>14, EndsReal, RaisedIsReal DEF Abandon, CopiesReal, AnswersReal, Raised
  <2>2. events' = events \/ events' = <<>>
    BY <1>14 DEF Abandon
  <2> QED
    BY <1>14, <2>1, <2>2 DEF Abandon, AnswersReal, CopiesReal, HashesReal, EventsReal
<1>15. ASSUME NEW w \in Waiters, ReadBack(w) PROVE CopiesReal' /\ AnswerIsReal'
  BY <1>15 DEF ReadBack, TypeOK, CopiesReal, HashesReal, ReadsReal, FuturesReal, EventsReal,
               AnswerIsReal, Real, JobStates, Settled, Outcome, Resolve
<1>16. ASSUME NEW w \in Waiters, ReadBackFails(w) PROVE CopiesReal' /\ AnswerIsReal'
  BY <1>16 DEF ReadBackFails, CopiesReal, HashesReal, ReadsReal, FuturesReal, EventsReal,
               AnswerIsReal, Real
<1>17. CASE Subscribed
  BY <1>17 DEF Subscribed, CopiesReal, HashesReal, ReadsReal, FuturesReal, EventsReal,
               AnswerIsReal, Real
<1>18. CASE Route
  <2> DEFINE e == Head(events)
  <2>1. /\ e \in Events /\ e.what \in past[e.job] /\ (e.inline \/ e.job \in Big)
        /\ events' = Tail(events)
    BY <1>18 DEF Route, TypeOK, CopiesReal, EventsReal
  <2>2. \A i \in DOMAIN events' : i + 1 \in DOMAIN events /\ events'[i] = events[i + 1]
    BY <1>18 DEF Route, TypeOK
  <2>3. \A w \in Addressed(e) : w \in Waiters /\ JobOf[w] = e.job
    BY DEF Addressed, TypeOK
  <2>4. CASE e.what.how = "completed" /\ ~e.inline
    <3>1. futs' = futs /\ readBacks' = readBacks \cup {w \in Addressed(e) : futs[w] = None}
      BY <1>18, <2>4 DEF Route
    <3> QED
      BY <1>18, <2>1, <2>2, <2>3, <2>4, <3>1
      DEF Route, CopiesReal, HashesReal, ReadsReal, FuturesReal, EventsReal, AnswerIsReal, Real
  <2>5. CASE ~(e.what.how = "completed" /\ ~e.inline)
    <3>1. futs' = Resolve(Addressed(e), e.what) /\ readBacks' = readBacks
      BY <1>18, <2>5 DEF Route
    <3> HIDE DEF e
    <3>2. FuturesReal'
      BY <1>18, <2>1, <2>3, <3>1 DEF Route, CopiesReal, FuturesReal, Real, Resolve
    <3> QED
      BY <1>18, <2>2, <3>1, <3>2
      DEF Route, CopiesReal, HashesReal, ReadsReal, EventsReal, AnswerIsReal, Real
  <2> QED
    BY <2>4, <2>5
<1>19. CASE Resubscribes
  BY <1>19 DEF Resubscribes, CopiesReal, HashesReal, ReadsReal, FuturesReal, EventsReal,
               AnswerIsReal, Real
<1>20. CASE ListenerDies
  BY <1>20 DEF ListenerDies, CopiesReal, HashesReal, ReadsReal, FuturesReal, EventsReal,
               AnswerIsReal, Real, Raised, Resolve
<1>21. CASE CloseAsks
  BY <1>21 DEF CloseAsks, CopiesReal, HashesReal, ReadsReal, FuturesReal, EventsReal,
               AnswerIsReal, Real
<1>22. CASE CloseLocks
  BY <1>22 DEF CloseLocks, CopiesReal, HashesReal, ReadsReal, FuturesReal, EventsReal,
               AnswerIsReal, Real
<1>23. CASE CloseEnds
  BY <1>23 DEF CloseEnds, CopiesReal, HashesReal, ReadsReal, FuturesReal, EventsReal,
               AnswerIsReal, Real, Raised, Resolve
<1>24. CASE UNCHANGED vars
  BY <1>24 DEF vars, CopiesReal, HashesReal, ReadsReal, FuturesReal, EventsReal, AnswerIsReal, Real
<1> QED
  BY <1>1, <1>2, <1>3, <1>4, <1>5, <1>6, <1>7, <1>8, <1>9, <1>10, <1>11, <1>12,
     <1>13, <1>14, <1>15, <1>16, <1>17, <1>18, <1>19, <1>20, <1>21, <1>22, <1>23, <1>24
  DEF Next, Steps

\* Nothing but a read of the hash fills in what a call has seen.
LEMMA UnreadStep ==
  ASSUME TypeOK, Unread, [Next]_vars
  PROVE  Unread'
<1> USE ResultAssumption, NoneAssumption DEF Raise, server, listener, call, waiting, waits, Fault
<1>1. ASSUME NEW j \in Jobs, Finish(j) PROVE Unread'
  BY <1>1 DEF Finish, TypeOK, Unread, Inside
<1>2. ASSUME NEW j \in Jobs, RunAgain(j) PROVE Unread'
  BY <1>2 DEF RunAgain, TypeOK, Unread, Inside
<1>3. ASSUME NEW j \in Jobs, Remove(j) PROVE Unread'
  BY <1>3 DEF Remove, TypeOK, Unread, Inside
<1>4. ASSUME NEW w \in Waiters, Call(w) PROVE Unread'
  BY <1>4 DEF Call, TypeOK, Unread, Inside, Ends, Registers
<1>5. ASSUME NEW w \in Waiters, Locks(w) PROVE Unread'
  BY <1>5 DEF Locks, TypeOK, Unread, Inside, Ends, Registers, Closed
<1>6. ASSUME NEW w \in Waiters, Starts(w) PROVE Unread'
  BY <1>6 DEF Starts, TypeOK, Unread, Inside, Ends, Registers, Confirmed
<1>7. ASSUME NEW w \in Waiters, Reads(w) PROVE Unread'
  BY <1>7 DEF Reads, TypeOK, Unread, Inside
<1>8. ASSUME NEW w \in Waiters, Got(w) PROVE Unread'
  BY <1>8 DEF Got, TypeOK, Unread, Inside, Ends, Settled, Outcome
<1>9. ASSUME NEW w \in Waiters, Resolved(w) PROVE Unread'
  BY <1>9 DEF Resolved, TypeOK, Unread, Inside, Ends
<1>10. ASSUME NEW w \in Waiters, Recheck(w) PROVE Unread'
  BY <1>10 DEF Recheck, TypeOK, Unread, Inside
<1>11. ASSUME NEW w \in Waiters, StartFails(w) PROVE Unread'
  BY <1>11 DEF StartFails, TypeOK, Unread, Inside, Ends
<1>12. ASSUME NEW w \in Waiters, ReadFails(w) PROVE Unread'
  BY <1>12 DEF ReadFails, TypeOK, Unread, Inside, Ends
<1>13. ASSUME NEW w \in Waiters, DeadlinePasses(w) PROVE Unread'
  BY <1>13 DEF DeadlinePasses, TypeOK, Unread, Inside
<1>14. ASSUME NEW w \in Waiters, Abandon(w) PROVE Unread'
  BY <1>14 DEF Abandon, TypeOK, Unread, Inside, Ends
<1>15. ASSUME NEW w \in Waiters, ReadBack(w) PROVE Unread'
  BY <1>15 DEF ReadBack, TypeOK, Unread, Inside
<1>16. ASSUME NEW w \in Waiters, ReadBackFails(w) PROVE Unread'
  BY <1>16 DEF ReadBackFails, TypeOK, Unread, Inside
<1>17. CASE Subscribed
  BY <1>17 DEF Subscribed, TypeOK, Unread, Inside
<1>18. CASE Route
  BY <1>18 DEF Route, TypeOK, Unread, Inside
<1>19. CASE Resubscribes
  BY <1>19 DEF Resubscribes, TypeOK, Unread, Inside
<1>20. CASE ListenerDies
  BY <1>20 DEF ListenerDies, TypeOK, Unread, Inside
<1>21. CASE CloseAsks
  BY <1>21 DEF CloseAsks, TypeOK, Unread, Inside
<1>22. CASE CloseLocks
  BY <1>22 DEF CloseLocks, TypeOK, Unread, Inside
<1>23. CASE CloseEnds
  BY <1>23 DEF CloseEnds, TypeOK, Unread, Inside
<1>24. CASE UNCHANGED vars
  BY <1>24 DEF vars, TypeOK, Unread, Inside
<1> QED
  BY <1>1, <1>2, <1>3, <1>4, <1>5, <1>6, <1>7, <1>8, <1>9, <1>10, <1>11, <1>12,
     <1>13, <1>14, <1>15, <1>16, <1>17, <1>18, <1>19, <1>20, <1>21, <1>22, <1>23, <1>24
  DEF Next, Steps

\* No step takes the news of a finish away before the waiter has it.
LEMMA MissedStep ==
  ASSUME TypeOK, LockOK, ListenerOK, Registered, Unread, NothingMissed, [Next]_vars
  PROVE  NothingMissed'
<1> USE ResultAssumption, NoneAssumption DEF Raise, server, listener, call, waiting, waits, Fault
<1>1. ASSUME NEW j \in Jobs, Finish(j) PROVE NothingMissed'
  <2>1. PICK how \in Ways, kept \in BOOLEAN :
          LET outcome == [how |-> how, run |-> jobs[j].run]
              event   == [job |-> j, what |-> outcome, inline |-> j \notin Big \/ ~kept]
          IN  /\ jobs' = [jobs EXCEPT ![j].state = IF kept THEN how ELSE "gone"]
              /\ events' = IF sub = "on" THEN Append(events, event) ELSE events
              /\ past' = [past EXCEPT ![j] = @ \cup {outcome}]
    BY <1>1 DEF Finish
  <2> DEFINE event == [job |-> j, what |-> [how |-> how, run |-> jobs[j].run],
                       inline |-> j \notin Big \/ ~kept]
  <2>2. \A i \in Jobs \ {j} : jobs'[i] = jobs[i]
    BY <2>1 DEF TypeOK
  <2>3. event.job = j /\ events' = IF sub = "on" THEN Append(events, event) ELSE events
    BY <2>1
  <2> HIDE DEF event
  <2>4. /\ DOMAIN events = 1..Len(events) /\ Len(events) \in Nat
        /\ sub = "on" => /\ DOMAIN events' = 1..Len(events) + 1
                         /\ events'[Len(events) + 1] = event
        /\ \A i \in DOMAIN events : i \in DOMAIN events' /\ events'[i] = events[i]
    BY <2>3 DEF TypeOK
  <2>5. \A w \in Inside : faults = 0 /\ closing \in {"no", "asked"} => sub = "on"
    BY DEF ListenerOK
  <2>6. Inside' = Inside
    BY <1>1 DEF Finish, Inside
  <2> SUFFICES ASSUME NEW w \in Inside,
                      /\ seen[w] # None /\ seen[w].state = "open" /\ seen[w] # jobs'[JobOf[w]]
                      /\ futs[w] = None /\ faults = 0 /\ closing \in {"no", "asked"}
               PROVE  (\E i \in DOMAIN events' : events'[i].job = JobOf[w]) \/ w \in readBacks
    BY <1>1, <2>6 DEF NothingMissed, Finish
  <2>7. CASE JobOf[w] = j
    BY <2>3, <2>4, <2>5, <2>7
  <2>8. CASE JobOf[w] # j
    BY <2>2, <2>4, <2>8 DEF NothingMissed, Inside
  <2> QED
    BY <2>7, <2>8
<1>2. ASSUME NEW j \in Jobs, RunAgain(j) PROVE NothingMissed'
  BY <1>2 DEF RunAgain, TypeOK, LockOK, ListenerOK, Registered, NothingMissed, Inside
<1>3. ASSUME NEW j \in Jobs, Remove(j) PROVE NothingMissed'
  BY <1>3 DEF Remove, TypeOK, LockOK, ListenerOK, Registered, NothingMissed, Inside, Terminal
<1>4. ASSUME NEW w \in Waiters, Call(w) PROVE NothingMissed'
  <2>1. seen'[w] = None
    BY <1>4 DEF Call, Registers, Ends, Unread, TypeOK
  <2>2. \A v \in Waiters \ {w} : at'[v] = at[v] /\ seen'[v] = seen[v] /\ futs'[v] = futs[v]
    BY <1>4 DEF Call, Registers, Ends, TypeOK
  <2> QED
    BY <1>4, <2>1, <2>2 DEF Call, NothingMissed, Inside
<1>5. ASSUME NEW w \in Waiters, Locks(w) PROVE NothingMissed'
  <2>1. seen'[w] = None
    BY <1>5 DEF Locks, Registers, Ends, Unread, TypeOK
  <2>2. \A v \in Waiters \ {w} : at'[v] = at[v] /\ seen'[v] = seen[v] /\ futs'[v] = futs[v]
    BY <1>5 DEF Locks, Registers, Ends, TypeOK
  <2>3. events' = events \/ (closing = "no" /\ task # "live")
    BY <1>5 DEF Locks, Closed
  <2> QED
    BY <1>5, <2>1, <2>2, <2>3 DEF Locks, NothingMissed, Inside, ListenerOK
<1>6. ASSUME NEW w \in Waiters, Starts(w) PROVE NothingMissed'
  <2>1. seen'[w] = None
    BY <1>6 DEF Starts, Registers, Ends, Unread, TypeOK
  <2>2. \A v \in Waiters \ {w} : at'[v] = at[v] /\ seen'[v] = seen[v] /\ futs'[v] = futs[v]
    BY <1>6 DEF Starts, Registers, Ends, TypeOK
  <2> QED
    BY <1>6, <2>1, <2>2 DEF Starts, NothingMissed, Inside
<1>7. ASSUME NEW w \in Waiters, Reads(w) PROVE NothingMissed'
  BY <1>7 DEF Reads, TypeOK, LockOK, ListenerOK, Registered, NothingMissed, Inside
<1>8. ASSUME NEW w \in Waiters, Got(w) PROVE NothingMissed'
  BY <1>8 DEF Got, TypeOK, NothingMissed, Inside, Ends
<1>9. ASSUME NEW w \in Waiters, Resolved(w) PROVE NothingMissed'
  BY <1>9 DEF Resolved, TypeOK, LockOK, ListenerOK, Registered, NothingMissed, Inside, Raised, Ends
<1>10. ASSUME NEW w \in Waiters, Recheck(w) PROVE NothingMissed'
  BY <1>10 DEF Recheck, TypeOK, LockOK, ListenerOK, Registered, NothingMissed, Inside
<1>11. ASSUME NEW w \in Waiters, StartFails(w) PROVE NothingMissed'
  BY <1>11 DEF StartFails, TypeOK, LockOK, ListenerOK, Registered, NothingMissed, Inside
<1>12. ASSUME NEW w \in Waiters, ReadFails(w) PROVE NothingMissed'
  BY <1>12 DEF ReadFails, TypeOK, LockOK, ListenerOK, Registered, NothingMissed, Inside
<1>13. ASSUME NEW w \in Waiters, DeadlinePasses(w) PROVE NothingMissed'
  BY <1>13 DEF DeadlinePasses, TypeOK, LockOK, ListenerOK, Registered, NothingMissed, Inside
<1>14. ASSUME NEW w \in Waiters, Abandon(w) PROVE NothingMissed'
  BY <1>14 DEF Abandon, TypeOK, LockOK, ListenerOK, Registered, NothingMissed, Inside
<1>15. ASSUME NEW w \in Waiters, ReadBack(w) PROVE NothingMissed'
  BY <1>15 DEF ReadBack, TypeOK, Registered, NothingMissed, Inside, JobStates, Outcomes, Answers,
               Terminal, Resolve
<1>16. ASSUME NEW w \in Waiters, ReadBackFails(w) PROVE NothingMissed'
  BY <1>16 DEF ReadBackFails, TypeOK, LockOK, ListenerOK, Registered, NothingMissed, Inside
<1>17. CASE Subscribed
  BY <1>17 DEF Subscribed, TypeOK, LockOK, ListenerOK, Registered, NothingMissed, Inside
<1>18. CASE Route
  <2> DEFINE e == Head(events)
  <2>1. e \in Events /\ e.what \in Answers /\ e.what # None
    <3>1. e \in Events
      BY <1>18 DEF Route, TypeOK
    <3>2. e.what \in Answers
      BY <3>1 DEF Events, Answers
    <3> QED
      BY <3>1, <3>2
  <2>2. \A i \in DOMAIN events : (i = 1 /\ events[i] = e)
                               \/ (i - 1 \in DOMAIN events' /\ events'[i - 1] = events[i])
    <3>1. events \in Seq(Events) /\ events # <<>> /\ events' = Tail(events)
      BY <1>18 DEF Route, TypeOK
    <3>2. DOMAIN events = 1..Len(events) /\ DOMAIN events' = 1..(Len(events) - 1)
      BY <3>1
    <3>3. \A i \in 1..(Len(events) - 1) : events'[i] = events[i + 1]
      BY <3>1
    <3> QED
      BY <3>1, <3>2, <3>3
  <2> SUFFICES ASSUME NEW w \in Inside,
                      /\ seen[w] # None /\ seen[w].state = "open" /\ seen[w] # jobs[JobOf[w]]
                      /\ futs'[w] = None /\ faults = 0 /\ closing \in {"no", "asked"}
               PROVE  (\E i \in DOMAIN events' : events'[i].job = JobOf[w]) \/ w \in readBacks'
    BY <1>18 DEF NothingMissed, Route, Inside
  <2>3. w \in Waiters /\ w \in listed
    BY DEF Inside, Registered
  <2>4. futs[w] = None /\ (w \in readBacks => w \in readBacks')
    BY <1>18, <2>3 DEF Route, Resolve
  <2>5. CASE JobOf[w] = e.job
    <3>1. w \in Addressed(e)
      BY <2>3, <2>5 DEF Addressed
    <3> QED
      BY <1>18, <2>1, <2>3, <2>4, <3>1 DEF Route, Resolve
  <2>6. CASE JobOf[w] # e.job
    BY <2>2, <2>4, <2>6 DEF NothingMissed
  <2> QED
    BY <2>5, <2>6
<1>19. CASE Resubscribes
  BY <1>19 DEF Resubscribes, TypeOK, LockOK, ListenerOK, Registered, NothingMissed, Inside
<1>20. CASE ListenerDies
  BY <1>20 DEF ListenerDies, TypeOK, LockOK, ListenerOK, Registered, NothingMissed, Inside
<1>21. CASE CloseAsks
  BY <1>21 DEF CloseAsks, TypeOK, LockOK, ListenerOK, Registered, NothingMissed, Inside
<1>22. CASE CloseLocks
  BY <1>22 DEF CloseLocks, TypeOK, LockOK, ListenerOK, Registered, NothingMissed, Inside
<1>23. CASE CloseEnds
  BY <1>23 DEF CloseEnds, TypeOK, LockOK, ListenerOK, Registered, NothingMissed, Inside
<1>24. CASE UNCHANGED vars
  BY <1>24 DEF vars, TypeOK, LockOK, ListenerOK, Registered, NothingMissed, Inside
<1> QED
  BY <1>1, <1>2, <1>3, <1>4, <1>5, <1>6, <1>7, <1>8, <1>9, <1>10, <1>11, <1>12,
     <1>13, <1>14, <1>15, <1>16, <1>17, <1>18, <1>19, <1>20, <1>21, <1>22, <1>23, <1>24
  DEF Next, Steps

-----------------------------------------------------------------------------
\* The start: nobody waits, nothing is running.
LEMMA ResultInit == Init => TypeOK /\ ResultInv
<1> SUFFICES ASSUME Init PROVE TypeOK /\ ResultInv
  OBVIOUS
<1> USE ResultAssumption, NoneAssumption
<1>1. [state |-> "open", run |-> 1] \in JobStates
  BY DEF JobStates
<1>2. TypeOK
  BY <1>1 DEF Init, TypeOK
<1>3. Inside = {}
  BY DEF Init, Inside
<1>4. LockOK /\ ListenerOK /\ Registered /\ Unread /\ AnswerIsReal /\ NothingMissed /\ ClosedIsQuiet
  BY <1>3 DEF Init, LockOK, ListenerOK, Registered, Unread, AnswerIsReal, NothingMissed,
              ClosedIsQuiet
<1>5. CopiesReal
  BY DEF Init, CopiesReal, HashesReal, ReadsReal, FuturesReal, EventsReal, Settled, Terminal
<1> QED
  BY <1>2, <1>4, <1>5 DEF ResultInv

\* Every step keeps the invariant.
LEMMA ResultStep == TypeOK /\ ResultInv /\ [Next]_vars => TypeOK' /\ ResultInv'
BY TypeStep, LockStep, ListenerStep, RegisteredStep, QuietStep, RealStep, UnreadStep, MissedStep
DEF ResultInv

\* All the variables of result(), its listener and close() keep their types, and the
\* lock of _ensure_dispatcher is held by the call that starts the listener.
THEOREM ResultTypes == Spec => []TypeOK
<1>1. Init => TypeOK
  BY ResultInit
<1>2. TypeOK /\ [Next]_vars => TypeOK'
  BY TypeStep
<1> QED
  BY <1>1, <1>2, PTL DEF Spec

\* The invariant, of which the three theorems below are conjuncts.
LEMMA ResultAlways == Spec => []ResultInv
<1>1. Init => TypeOK /\ ResultInv
  BY ResultInit
<1>2. TypeOK /\ ResultInv /\ [Next]_vars => (TypeOK /\ ResultInv)'
  BY ResultStep
<1> QED
  BY <1>1, <1>2, PTL DEF Spec

\* result() answers with an outcome its job has had, or raises, for any number of
\* retries, reuses of the id, lost events and failed reads.
THEOREM EveryAnswerIsReal == Spec => []AnswerIsReal
<1>1. ResultInv => AnswerIsReal
  BY DEF ResultInv
<1> QED
  BY <1>1, ResultAlways, PTL

\* A finish between the read of the hash and the wait is never missed while no
\* connection fails, though it removes the hash.
THEOREM NoFinishMissed == Spec => []NothingMissed
<1>1. ResultInv => NothingMissed
  BY DEF ResultInv
<1> QED
  BY <1>1, ResultAlways, PTL

\* After close() there is no listener, no subscription and no future left open,
\* however close() raced the calls that start the listener.
THEOREM CloseLeavesNothing == Spec => []ClosedIsQuiet
<1>1. ResultInv => ClosedIsQuiet
  BY DEF ResultInv
<1> QED
  BY <1>1, ResultAlways, PTL
================================================================================

----------------------------- MODULE ToroEnqueue -----------------------------
(***************************************************************************)
(* Adding jobs over a connection that dies: Queue.add and add_flow, whose   *)
(* command the client sends again when the reply is lost, and PendingJobs,  *)
(* which collects calls during a transaction and flushes them in one        *)
(* pipeline, from several tasks at once.  A call carries a replay token, and*)
(* perhaps a custom id or a deduplication id; the scripts remember for a    *)
(* while what each made.                                                    *)
(*                                                                          *)
(* A call stands for its arguments, its token included.  A pipeline's       *)
(* commands run one by one on the server, those of other clients between    *)
(* them.  When a connection dies, what it had sent may have run, may still  *)
(* run later, or may never arrive.                                          *)
(***************************************************************************)
EXTENDS Naturals, FiniteSets, Sequences, SequencesExt

CONSTANTS
    Direct,     \* calls of Queue.add and Queue.add_flow
    Pending,    \* calls collected in the PendingJobs
    Flushes,    \* tasks that may be inside flush()
    JobId,      \* the custom id of each call, or None
    DedupId,    \* the deduplication id of each call, or None
    Nodes,      \* how many jobs each call makes: one, or the nodes of its flow
    DedupTtl,   \* how long a deduplication id names its job, in ticks
    Window,     \* ADD_REPLAY_WINDOW_MS, in ticks
    None,
    MaxFaults,  \* bound: how many connections die and scripts fail
    MaxIds      \* bound: how many ids the counter hands out

Calls == Direct \cup Pending

ASSUME EnqueueAssumption ==
    /\ Direct \cap Pending = {} /\ Direct \cap Flushes = {} /\ None \notin Calls \cup Nat
    /\ DOMAIN JobId = Calls /\ DOMAIN DedupId = Calls
    /\ \A c \in Calls : JobId[c] \notin Nat
    /\ Nodes \in [Calls -> Nat \ {0}]
    /\ \A c \in Calls : Nodes[c] > 1 => JobId[c] = None /\ DedupId[c] = None
    /\ DedupTtl \in Nat \ {0} /\ Window \in Nat \ {0}
    /\ MaxFaults \in Nat /\ MaxIds \in Nat

Ids      == 1..MaxIds \cup ({JobId[c] : c \in Calls} \ {None})
DedupIds == {DedupId[c] : c \in Calls} \ {None}
Senders  == Flushes \cup Direct

VARIABLES
    hash,    \* the ids that have a job hash
    next,    \* the id counter
    memo,    \* add:<token>: the job a call made, while it is remembered
    dedup,   \* de:<id>: the job an id names, while it does
    buffer,  \* _calls of the PendingJobs
    tasks,   \* where each flush, and each direct call, is
    wires,   \* what each has sent on its connection and the server has not run yet
    dead,    \* the connections given up, with what may still arrive from them
    faults,
    made,    \* the rest is no state of the code: how often each call made its jobs,
    lapsed,  \* the calls whose memo has run out,
    ran,     \* the calls a script has answered,
    sent,    \* the calls their caller was told are enqueued,
    over     \* the calls given up: discarded, or raised by add()

vars == <<hash, next, memo, dedup, buffer, tasks, wires, dead, faults,
          made, lapsed, ran, sent, over>>

db     == <<hash, next, memo, dedup>>
ghosts == <<made, lapsed, ran>>
ended  == <<sent, over>>

Named == [id: Ids, left: Nat \ {0}]

ASSUME NoneAssumption == None \notin Named

\* `mine`: the batch a flush has taken; `bad`: those of it whose script failed, in order.
Tasks == [at: {"idle", "stage", "sent"}, mine: Seq(Calls), bad: Seq(Calls)]

Holding(a, calls) == [at |-> a, mine |-> calls, bad |-> <<>>]

Away == Holding("idle", <<>>)

Init ==
    /\ hash = {} /\ next = 0
    /\ memo = [c \in Calls |-> None] /\ dedup = [d \in DedupIds |-> None]
    /\ buffer = <<>>
    /\ tasks = [s \in Senders |-> Away] /\ wires = [s \in Senders |-> <<>>]
    /\ dead = {} /\ faults = 0
    /\ made = [c \in Calls |-> 0] /\ lapsed = {} /\ ran = {}
    /\ sent = {} /\ over = {}

Fault == faults < MaxFaults /\ faults' = faults + 1
------------------------------------------------------------------------------
(* ADD_JOB and ADD_FLOW.                                                    *)

\* Mutant of Remembered: the memo is looked at for custom ids only.
RememberedCustom(c) == IF JobId[c] = None THEN None ELSE memo[c]

\* The job the token of call c names.
Remembered(c) == memo[c]

\* The call finds one there already: by its token, its deduplication id, its id.
AlreadyThere(c) ==
    \/ Remembered(c) # None
    \/ DedupId[c] # None /\ dedup[DedupId[c]] # None
    \/ JobId[c] # None /\ JobId[c] \in hash

\* Mutant of Counter: a flow moves the counter by one.
CounterByOne(c) == IF JobId[c] = None THEN next + 1 ELSE next

\* The counter after call c has taken its ids.
Counter(c) == IF JobId[c] = None THEN next + Nodes[c] ELSE next

\* The id of the job, or of the root of the flow, that call c would make now.
NewId(c) == IF JobId[c] = None THEN next + 1 ELSE JobId[c]

NewIds(c) == IF JobId[c] = None THEN (next + 1)..(next + Nodes[c]) ELSE {JobId[c]}

RunScript(c) ==
    /\ ran' = ran \cup {c}
    /\ IF AlreadyThere(c) THEN UNCHANGED <<db, made, lapsed>>
       ELSE /\ NewIds(c) \subseteq Ids
            /\ next' = Counter(c)
            /\ hash' = hash \cup NewIds(c)
            /\ memo' = [memo EXCEPT ![c] = [id |-> NewId(c), left |-> Window]]
            /\ dedup' = IF DedupId[c] = None THEN dedup
                        ELSE [dedup EXCEPT ![DedupId[c]] = [id |-> NewId(c), left |-> DedupTtl]]
            /\ made' = [made EXCEPT ![c] = @ + 1]
            /\ UNCHANGED lapsed

\* The server runs the next command of a connection.
Run(s) ==
    /\ wires[s] # <<>>
    /\ RunScript(Head(wires[s]))
    /\ wires' = [wires EXCEPT ![s] = Tail(@)]
    /\ UNCHANGED <<buffer, tasks, dead, faults, ended>>

\* It refuses one: the script fails before its first write.
RunFails(s) ==
    /\ Fault /\ wires[s] # <<>>
    /\ wires' = [wires EXCEPT ![s] = Tail(@)]
    /\ tasks' = [tasks EXCEPT ![s].bad = Append(@, Head(wires[s]))]
    /\ UNCHANGED <<db, buffer, dead, ghosts, ended>>

\* The connection of s dies, named after its fault.
Dies(s) ==
    /\ tasks[s].at = "sent" /\ Fault
    /\ dead' = dead \cup ({[no |-> faults, todo |-> wires[s]]} \ [no: Nat, todo: {<<>>}])

\* A command of a dead connection runs after all.
RunLate(d) ==
    /\ RunScript(Head(d.todo))
    /\ dead' = (dead \ {d}) \cup {e \in {[d EXCEPT !.todo = Tail(@)]} : e.todo # <<>>}
    /\ UNCHANGED <<buffer, tasks, wires, faults, ended>>

\* The rest of it never arrives.
Lost(d) ==
    /\ dead' = dead \ {d}
    /\ UNCHANGED <<db, buffer, tasks, wires, faults, ghosts, ended>>

Less(t) == IF t = None \/ t.left = 1 THEN None ELSE [t EXCEPT !.left = @ - 1]

\* Time passes for the memos and the deduplication ids.
Tick ==
    /\ \/ \E c \in Calls : memo[c] # None
       \/ \E d \in DedupIds : dedup[d] # None
    /\ memo' = [c \in Calls |-> Less(memo[c])]
    /\ dedup' = [d \in DedupIds |-> Less(dedup[d])]
    /\ lapsed' = lapsed \cup {c \in Calls : memo[c] # None /\ Less(memo[c]) = None}
    /\ UNCHANGED <<hash, next, buffer, tasks, wires, dead, faults, made, ran, ended>>

\* A job goes, by its retention or by an operator: a custom id is free again.
JobGoes(i) ==
    /\ hash' = hash \ {i}
    /\ UNCHANGED <<next, memo, dedup, buffer, tasks, wires, dead, faults, ghosts, ended>>
------------------------------------------------------------------------------
(* Queue.add and Queue.add_flow.                                            *)

Add(c) ==
    /\ c \notin sent \cup over /\ tasks[c].at = "idle"
    /\ tasks' = [tasks EXCEPT ![c] = Holding("sent", <<c>>)]
    /\ wires' = [wires EXCEPT ![c] = <<c>>]
    /\ UNCHANGED <<db, buffer, dead, faults, ghosts, ended>>

\* The reply, or the script's error, which add() raises.
AddReturns(c) ==
    /\ tasks[c].at = "sent" /\ wires[c] = <<>>
    /\ tasks' = [tasks EXCEPT ![c] = Away]
    /\ sent' = sent \cup ({c} \ ToSet(tasks[c].bad))
    /\ over' = over \cup ({c} \cap ToSet(tasks[c].bad))
    /\ UNCHANGED <<db, buffer, wires, dead, faults, ghosts>>

\* The client's retry policy is at its end: add() raises the connection's error.
AddRaises(c) ==
    /\ Dies(c)
    /\ tasks' = [tasks EXCEPT ![c] = Away] /\ wires' = [wires EXCEPT ![c] = <<>>]
    /\ over' = over \cup {c}
    /\ UNCHANGED <<db, buffer, ghosts, sent>>

\* The client sends everything again on a new connection: one command, or a pipeline.
Resend(s) ==
    /\ Dies(s)
    /\ tasks' = [tasks EXCEPT ![s].bad = <<>>]
    /\ wires' = [wires EXCEPT ![s] = tasks[s].mine]
    /\ UNCHANGED <<db, buffer, ghosts, ended>>
------------------------------------------------------------------------------
(* PendingJobs.                                                             *)

Holders(c) ==
    Cardinality({i \in DOMAIN buffer : buffer[i] = c})
    + Cardinality({f \in Flushes : c \in ToSet(tasks[f].mine)})
    + Cardinality({c} \cap (sent \cup over))

\* PendingJobs.add and add_flow, whose token is minted here.
Collect(c) ==
    /\ Holders(c) = 0
    /\ buffer' = Append(buffer, c)
    /\ UNCHANGED <<db, tasks, wires, dead, faults, ghosts, ended>>

Discard ==
    /\ buffer # <<>>
    /\ buffer' = <<>> /\ over' = over \cup ToSet(buffer)
    /\ UNCHANGED <<db, tasks, wires, dead, faults, ghosts, sent>>

\* Mutant of Rest: the batch is sent from the buffer, which is emptied afterwards.
RestAll == buffer

\* What flush() leaves in the buffer when it takes its batch, before its first await.
Rest == <<>>

FlushTakes(f) ==
    /\ tasks[f].at = "idle" /\ buffer # <<>>
    /\ tasks' = [tasks EXCEPT ![f] = Holding("stage", buffer)]
    /\ buffer' = Rest
    /\ UNCHANGED <<db, wires, dead, faults, ghosts, ended>>

\* Mutant of Restored: what was collected meanwhile is lost.
RestoredAlone(calls) == calls

\* What did not send goes back in front of what was collected meanwhile.
Restored(calls) == calls \o buffer

\* A call that will not encode, or a data model that is refused: nothing was sent.
FlushStops(f) ==
    /\ tasks[f].at = "stage" /\ Fault
    /\ buffer' = Restored(tasks[f].mine)
    /\ tasks' = [tasks EXCEPT ![f] = Away]
    /\ UNCHANGED <<db, wires, dead, ghosts, ended>>

FlushSends(f) ==
    /\ tasks[f].at = "stage"
    /\ tasks' = [tasks EXCEPT ![f].at = "sent"]
    /\ wires' = [wires EXCEPT ![f] = tasks[f].mine]
    /\ UNCHANGED <<db, buffer, dead, faults, ghosts, ended>>

\* The connection is lost for good, or the task is cancelled: nothing can say how
\* much of the batch landed, and all of it is kept.
FlushRaises(f) ==
    /\ Dies(f)
    /\ buffer' = Restored(tasks[f].mine)
    /\ tasks' = [tasks EXCEPT ![f] = Away] /\ wires' = [wires EXCEPT ![f] = <<>>]
    /\ UNCHANGED <<db, ghosts, ended>>

\* Mutant of Unsent: every call that has a reply counts as sent.
UnsentNone(f) == <<>>

\* The calls of a finished pipeline whose reply is an error.
Unsent(f) == tasks[f].bad

\* Every reply is in: exactly what failed stays.
FlushReturns(f) ==
    /\ tasks[f].at = "sent" /\ wires[f] = <<>>
    /\ buffer' = Restored(Unsent(f))
    /\ sent' = sent \cup (ToSet(tasks[f].mine) \ ToSet(Unsent(f)))
    /\ tasks' = [tasks EXCEPT ![f] = Away]
    /\ UNCHANGED <<db, wires, dead, faults, ghosts, over>>

Next ==
    \/ \E s \in Senders : Run(s) \/ RunFails(s) \/ Resend(s)
    \/ \E d \in dead : RunLate(d) \/ Lost(d)
    \/ \E c \in Direct : Add(c) \/ AddReturns(c) \/ AddRaises(c)
    \/ \E c \in Pending : Collect(c)
    \/ \E f \in Flushes :
          \/ FlushTakes(f) \/ FlushStops(f) \/ FlushSends(f)
          \/ FlushRaises(f) \/ FlushReturns(f)
    \/ \E i \in hash : JobGoes(i)
    \/ Discard \/ Tick

Spec == Init /\ [][Next]_vars
------------------------------------------------------------------------------
\* Every variable has its type; the counter is at or past every id it handed out,
\* so an add never lands on the hash of another job.
TypeOK ==
    /\ hash \subseteq Ids /\ next \in 0..MaxIds
    /\ hash \cap Nat \subseteq 1..next
    /\ memo \in [Calls -> Named \cup {None}]
    /\ dedup \in [DedupIds -> Named \cup {None}]
    /\ buffer \in Seq(Pending)
    /\ tasks \in [Senders -> Tasks] /\ wires \in [Senders -> Seq(Calls)]
    /\ dead \subseteq [no: Nat, todo: Seq(Calls) \ {<<>>}] /\ faults \in 0..MaxFaults
    /\ made \in [Calls -> Nat] /\ lapsed \cup ran \cup sent \cup over \subseteq Calls

\* A call makes its jobs once however often it is sent, by the client or by a later
\* flush, and whenever a command of a connection given up for dead still runs, until
\* the scripts have forgotten it (ADD_REPLAY_WINDOW_MS).
OncePerCall == \A c \in Calls : made[c] <= 1 \/ c \in lapsed

\* Two flushes in flight, failing in any order while calls are collected and
\* discarded, never lose a call and never hold it twice: it is in the buffer, in one
\* flush, or at its end, and then for good.
InOneHand == [][
    \A c \in Pending :
        /\ Holders(c) <= 1 /\ Holders(c) <= Holders(c)'
        /\ c \in sent \cup over => c \notin ToSet(buffer')]_vars

\* flush() and add() say a call is enqueued only when a script has run for it, over
\* this connection or over one given up: a partial failure is never reported as sent.
SentIsTrue == sent \subseteq ran
==============================================================================

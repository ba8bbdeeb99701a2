-------------------------- MODULE ToroEnqueue_proofs --------------------------
(***************************************************************************)
(* A call makes its jobs once, is reported as sent only when a script ran  *)
(* for it, and is in one hand at any time: for any number of calls and     *)
(* flushes, and any number of connections that die.                        *)
(***************************************************************************)
EXTENDS ToroEnqueue, FiniteSetTheorems, TLAPS

\* Call c is in list q, and only once.
Has(q, c)  == c \in ToSet(q)
Lone(q, c) == \A i, j \in DOMAIN q : q[i] = c /\ q[j] = c => i = j

\* The scripts know what they made until the memo lapses.
MemoOK(c) == /\ made[c] # 0 => memo[c] # None \/ c \in lapsed
             /\ made[c] <= 1 \/ c \in lapsed

\* A flush holds calls of the PendingJobs only, and an idle one holds nothing.
FlushOK(f) ==
    /\ tasks[f].mine \in Seq(Pending) /\ tasks[f].bad \in Seq(Pending)
    /\ wires[f] \in Seq(Pending)
    /\ tasks[f].at # "sent" => tasks[f].bad = <<>> /\ wires[f] = <<>>
    /\ tasks[f].at = "idle" => tasks[f].mine = <<>>

\* Every call that is out has been answered, has failed, or is on the connection.
AnswerOK(s) ==
    tasks[s].at = "sent" =>
        \A c \in Calls : Has(tasks[s].mine, c) =>
            c \in ran \/ Has(tasks[s].bad, c) \/ Has(wires[s], c)

DirectOK(c) == tasks[c].at = "sent" => tasks[c].mine = <<c>>

\* Of a batch that is out, what failed is no longer on the connection.
BatchOK(f, c) ==
    /\ Lone(tasks[f].mine, c) /\ Lone(tasks[f].bad, c) /\ Lone(wires[f], c)
    /\ Has(tasks[f].bad, c) => Has(tasks[f].mine, c) /\ ~Has(wires[f], c)
    /\ Has(wires[f], c) => Has(tasks[f].mine, c)

\* At most one flush, or the buffer, or nobody any more.
HandOK(c) ==
    /\ Lone(buffer, c)
    /\ \A f, g \in Flushes : Has(tasks[f].mine, c) /\ Has(tasks[g].mine, c) => f = g
    /\ \A f \in Flushes : Has(tasks[f].mine, c) => ~Has(buffer, c) /\ c \notin sent \cup over
    /\ Has(buffer, c) => c \notin sent \cup over

EnqueueInv ==
    /\ TypeOK /\ SentIsTrue
    /\ \A c \in Calls : MemoOK(c)
    /\ \A f \in Flushes : FlushOK(f)
    /\ \A s \in Senders : AnswerOK(s)
    /\ \A c \in Direct : DirectOK(c)
    /\ \A c \in Pending : HandOK(c) /\ \A f \in Flushes : BatchOK(f, c)

-----------------------------------------------------------------------------
(* Lists. *)

\* Nothing is in the empty list.
LEMMA InNone ==
  ASSUME NEW c
  PROVE  ~Has(<<>>, c) /\ Lone(<<>>, c)
BY DEF Has, Lone, ToSet

\* What an appended call makes of a list.
LEMMA InAppend ==
  ASSUME NEW S, NEW q \in Seq(S), NEW x \in S, NEW c
  PROVE  /\ Has(Append(q, x), c) <=> Has(q, c) \/ x = c
         /\ Lone(q, c) /\ (x = c => ~Has(q, c)) => Lone(Append(q, x), c)
<1> DEFINE r == Append(q, x)
<1>1. /\ DOMAIN q = 1..Len(q) /\ Len(q) \in Nat
      /\ DOMAIN r = 1..(Len(q) + 1) /\ r[Len(q) + 1] = x
      /\ \A i \in 1..Len(q) : r[i] = q[i]
  OBVIOUS
<1> HIDE DEF r
<1>2. \A i \in DOMAIN r : (i \in DOMAIN q /\ r[i] = q[i]) \/ (i = Len(q) + 1 /\ r[i] = x)
  BY <1>1
<1>3. \A i \in DOMAIN q : i \in DOMAIN r /\ r[i] = q[i]
  BY <1>1
<1>4. Len(q) + 1 \in DOMAIN r
  BY <1>1
<1>5. Has(r, c) <=> Has(q, c) \/ x = c
  BY <1>1, <1>2, <1>3, <1>4 DEF Has, ToSet
<1>6. ASSUME Lone(q, c), x = c => ~Has(q, c) PROVE Lone(r, c)
  BY <1>2, <1>6 DEF Has, Lone, ToSet
<1> QED
  BY <1>5, <1>6 DEF r

\* What is left of a list when its head is taken.
LEMMA InTail ==
  ASSUME NEW S, NEW q \in Seq(S), q # <<>>, NEW c
  PROVE  /\ Has(q, c) <=> Head(q) = c \/ Has(Tail(q), c)
         /\ Lone(q, c) => Lone(Tail(q), c) /\ (Head(q) = c => ~Has(Tail(q), c))
<1> DEFINE r == Tail(q)
<1>1. /\ DOMAIN q = 1..Len(q) /\ Len(q) \in Nat \ {0}
      /\ DOMAIN r = 1..(Len(q) - 1) /\ Head(q) = q[1]
      /\ \A i \in 1..(Len(q) - 1) : r[i] = q[i + 1]
  OBVIOUS
<1> HIDE DEF r
<1>2. \A i \in DOMAIN r : i + 1 \in DOMAIN q /\ r[i] = q[i + 1] /\ i + 1 # 1 /\ i \in Nat
  BY <1>1
<1>3. \A i \in DOMAIN q : i = 1 \/ (i - 1 \in DOMAIN r /\ r[i - 1] = q[i])
  BY <1>1
<1>4. 1 \in DOMAIN q
  BY <1>1
<1>5. Has(q, c) <=> Head(q) = c \/ Has(r, c)
  BY <1>1, <1>2, <1>3, <1>4 DEF Has, ToSet
<1>6. ASSUME Lone(q, c) PROVE Lone(r, c)
  <2>1. \A i, j \in DOMAIN r : i + 1 = j + 1 => i = j
    BY <1>2
  <2> QED
    BY <1>2, <1>6, <2>1 DEF Lone
<1>7. ASSUME Lone(q, c), Head(q) = c PROVE ~Has(r, c)
  BY <1>1, <1>2, <1>4, <1>7 DEF Has, Lone, ToSet
<1> QED
  BY <1>5, <1>6, <1>7 DEF r

\* One list in front of another.
LEMMA InConcat ==
  ASSUME NEW S, NEW p \in Seq(S), NEW q \in Seq(S), NEW c
  PROVE  /\ Has(p \o q, c) <=> Has(p, c) \/ Has(q, c)
         /\ Lone(p, c) /\ Lone(q, c) /\ ~(Has(p, c) /\ Has(q, c)) => Lone(p \o q, c)
<1> DEFINE r == p \o q
           n == Len(p)
<1>1. /\ DOMAIN p = 1..n /\ n \in Nat /\ DOMAIN q = 1..Len(q) /\ Len(q) \in Nat
      /\ DOMAIN r = 1..(n + Len(q))
      /\ \A i \in 1..n : r[i] = p[i]
      /\ \A i \in 1..Len(q) : r[i + n] = q[i]
  OBVIOUS
<1> HIDE DEF r, n
<1>2. \A i \in DOMAIN r : \/ i \in DOMAIN p /\ r[i] = p[i]
                          \/ i - n \in DOMAIN q /\ r[i] = q[i - n]
  BY <1>1
<1>3. \A i \in DOMAIN p : i \in DOMAIN r /\ r[i] = p[i]
  BY <1>1
<1>4. \A i \in DOMAIN q : i + n \in DOMAIN r /\ r[i + n] = q[i]
  BY <1>1
<1>5. Has(r, c) <=> Has(p, c) \/ Has(q, c)
  BY <1>2, <1>3, <1>4 DEF Has, ToSet
<1>6. ASSUME Lone(p, c), Lone(q, c), ~(Has(p, c) /\ Has(q, c)) PROVE Lone(r, c)
  <2> SUFFICES ASSUME NEW i \in DOMAIN r, NEW j \in DOMAIN r, r[i] = c, r[j] = c PROVE i = j
    BY DEF Lone
  <2>1. i \in Nat /\ j \in Nat /\ n \in Nat
    BY <1>1
  <2>2. CASE i \in DOMAIN p /\ r[i] = p[i] /\ j \in DOMAIN p /\ r[j] = p[j]
    BY <1>6, <2>2 DEF Lone
  <2>3. CASE i - n \in DOMAIN q /\ r[i] = q[i - n] /\ j - n \in DOMAIN q /\ r[j] = q[j - n]
    <3>1. i - n = j - n
      BY <1>6, <2>3 DEF Lone
    <3> QED
      BY <2>1, <3>1
  <2> QED
    BY <1>2, <1>6, <2>2, <2>3 DEF Has, ToSet
<1> QED
  BY <1>5, <1>6 DEF r

-----------------------------------------------------------------------------
(* The scripts. *)

\* The types of what the scripts keep.
DbTyped ==
    /\ hash \subseteq Ids /\ next \in 0..MaxIds /\ hash \cap Nat \subseteq 1..next
    /\ memo \in [Calls -> Named \cup {None}]
    /\ dedup \in [DedupIds -> Named \cup {None}]
    /\ made \in [Calls -> Nat] /\ lapsed \subseteq Calls /\ ran \subseteq Calls

\* What every step does to them.
DbStep ==
    /\ DbTyped' /\ ran \subseteq ran'
    /\ \A c \in Calls : MemoOK(c)'

\* A step that leaves them alone.
LEMMA DbLeft ==
  ASSUME EnqueueInv, UNCHANGED <<db, ghosts>>
  PROVE  DbStep
BY DEF EnqueueInv, TypeOK, DbTyped, DbStep, MemoOK, db, ghosts

\* A script that runs for call c makes its jobs only when it does not know the call.
LEMMA ScriptRuns ==
  ASSUME EnqueueInv, NEW c \in Calls, RunScript(c)
  PROVE  DbStep /\ ran' = ran \cup {c}
<1>0. DbTyped /\ \A x \in Calls : MemoOK(x)
  BY DEF EnqueueInv, TypeOK, DbTyped
<1>1. ran' = ran \cup {c}
  BY DEF RunScript
<1>2. CASE AlreadyThere(c)
  BY <1>0, <1>1, <1>2 DEF RunScript, DbTyped, DbStep, MemoOK, db
<1>3. CASE ~AlreadyThere(c)
  <2>1. /\ NewIds(c) \subseteq Ids /\ next' = Counter(c) /\ hash' = hash \cup NewIds(c)
        /\ memo' = [memo EXCEPT ![c] = [id |-> NewId(c), left |-> Window]]
        /\ dedup' = IF DedupId[c] = None THEN dedup
                    ELSE [dedup EXCEPT ![DedupId[c]] = [id |-> NewId(c), left |-> DedupTtl]]
        /\ made' = [made EXCEPT ![c] = @ + 1] /\ lapsed' = lapsed
    BY <1>3 DEF RunScript
  <2>2. memo[c] = None
    BY <1>3 DEF AlreadyThere, Remembered
  <2>3. /\ Nodes[c] \in Nat \ {0} /\ next \in Nat /\ next <= MaxIds /\ MaxIds \in Nat
        /\ JobId[c] \notin Nat
    BY <1>0, EnqueueAssumption DEF DbTyped
  <2>4. Ids \cap Nat \subseteq 1..MaxIds
    BY EnqueueAssumption DEF Ids
  <2>5. /\ NewId(c) \in Ids /\ Counter(c) \in 0..MaxIds /\ next <= Counter(c)
        /\ NewIds(c) \cap Nat \subseteq 1..Counter(c)
    <3>1. CASE JobId[c] = None
      <4>1. next + 1 \in NewIds(c) /\ next + Nodes[c] \in NewIds(c)
        BY <2>3, <3>1 DEF NewIds
      <4>2. next + Nodes[c] \in 1..MaxIds
        BY <2>1, <2>3, <2>4, <4>1
      <4> QED
        BY <2>1, <2>3, <3>1, <4>1, <4>2 DEF NewIds, NewId, Counter
    <3>2. CASE JobId[c] # None
      BY <2>1, <2>3, <3>2 DEF NewIds, NewId, Counter
    <3> QED
      BY <3>1, <3>2
  <2> DEFINE a == [id |-> NewId(c), left |-> Window]
             b == [id |-> NewId(c), left |-> DedupTtl]
  <2>6. a \in Named /\ b \in Named /\ a # None
    BY <2>5, EnqueueAssumption, NoneAssumption DEF Named
  <2> HIDE DEF a, b
  <2>7. memo' \in [Calls -> Named \cup {None}]
    BY <1>0, <2>1, <2>6 DEF DbTyped, a
  <2>8. dedup' \in [DedupIds -> Named \cup {None}]
    BY <1>0, <2>1, <2>6 DEF DbTyped, b
  <2>9. hash' \subseteq Ids /\ next' \in 0..MaxIds /\ hash' \cap Nat \subseteq 1..next'
    <3>1. 1..next \subseteq 1..Counter(c)
      BY <2>3, <2>5
    <3> QED
      BY <1>0, <2>1, <2>5, <3>1 DEF DbTyped
  <2>10. made' \in [Calls -> Nat]
    BY <1>0, <2>1 DEF DbTyped
  <2>11. ASSUME NEW x \in Calls PROVE MemoOK(x)'
    <3>1. CASE x = c
      <4>1. made[c] = 0 \/ c \in lapsed
        BY <1>0, <2>2 DEF MemoOK
      <4>2. memo'[c] # None /\ made'[c] = made[c] + 1 /\ made[c] \in Nat
        BY <1>0, <2>1, <2>6 DEF DbTyped, a
      <4> QED
        BY <2>1, <3>1, <4>1, <4>2 DEF MemoOK
    <3>2. CASE x # c
      <4>1. memo'[x] = memo[x] /\ made'[x] = made[x]
        BY <1>0, <2>1, <3>2 DEF DbTyped
      <4> QED
        BY <1>0, <2>1, <4>1 DEF MemoOK
    <3> QED
      BY <3>1, <3>2
  <2>12. lapsed' \subseteq Calls /\ ran' \subseteq Calls
    BY <1>0, <1>1, <2>1 DEF DbTyped
  <2> QED
    BY <1>1, <2>7, <2>8, <2>9, <2>10, <2>11, <2>12 DEF DbStep, DbTyped
<1> QED
  BY <1>1, <1>2, <1>3

\* Time that passes shortens a memo, or ends it and says so.
LEMMA TimePasses ==
  ASSUME EnqueueInv, Tick
  PROVE  DbStep
<1>0. DbTyped /\ \A x \in Calls : MemoOK(x)
  BY DEF EnqueueInv, TypeOK, DbTyped
<1>1. ASSUME NEW t \in Named \cup {None} PROVE Less(t) \in Named \cup {None}
  <2>1. CASE t = None \/ t.left = 1
    BY <2>1 DEF Less
  <2>2. CASE t # None /\ t.left # 1
    BY <2>2 DEF Less, Named
  <2> QED
    BY <2>1, <2>2
<1>2. /\ memo' = [c \in Calls |-> Less(memo[c])] /\ dedup' = [d \in DedupIds |-> Less(dedup[d])]
      /\ lapsed' = lapsed \cup {c \in Calls : memo[c] # None /\ Less(memo[c]) = None}
      /\ UNCHANGED <<hash, next, made, ran>>
  BY DEF Tick
<1>3. memo' \in [Calls -> Named \cup {None}] /\ dedup' \in [DedupIds -> Named \cup {None}]
  BY <1>0, <1>1, <1>2 DEF DbTyped
<1>4. ASSUME NEW c \in Calls PROVE MemoOK(c)'
  BY <1>0, <1>2 DEF MemoOK
<1> QED
  BY <1>0, <1>2, <1>3, <1>4 DEF DbStep, DbTyped

\* A hash that goes leaves what the scripts remember.
LEMMA HashGoes ==
  ASSUME EnqueueInv, NEW i \in hash, JobGoes(i)
  PROVE  DbStep
BY DEF EnqueueInv, TypeOK, DbTyped, DbStep, MemoOK, JobGoes, ghosts

\* Every step is one of these for the scripts.
LEMMA ScriptsStep ==
  ASSUME EnqueueInv, [Next]_vars
  PROVE  DbStep
<1>0. wires \in [Senders -> Seq(Calls)] /\ dead \subseteq [no: Nat, todo: Seq(Calls) \ {<<>>}]
  BY DEF EnqueueInv, TypeOK
<1>1. ASSUME NEW s \in Senders, Run(s) PROVE DbStep
  <2>1. Head(wires[s]) \in Calls
    BY <1>0, <1>1 DEF Run
  <2> QED
    BY <1>1, <2>1, ScriptRuns DEF Run
<1>2. ASSUME NEW d \in dead, RunLate(d) PROVE DbStep
  <2>1. d.todo \in Seq(Calls) /\ d.todo # <<>>
    BY <1>0
  <2>2. Head(d.todo) \in Calls
    BY <2>1
  <2> QED
    BY <1>2, <2>2, ScriptRuns DEF RunLate
<1>3. ASSUME NEW i \in hash, JobGoes(i) PROVE DbStep
  BY <1>3, HashGoes
<1>4. CASE Tick
  BY <1>4, TimePasses
<1>5. ASSUME NEW s \in Senders, RunFails(s) \/ Resend(s) PROVE DbStep
  BY <1>5, DbLeft DEF RunFails, Resend
<1>6. ASSUME NEW d \in dead, Lost(d) PROVE DbStep
  BY <1>6, DbLeft DEF Lost
<1>7. ASSUME NEW c \in Direct, Add(c) \/ AddReturns(c) \/ AddRaises(c) PROVE DbStep
  BY <1>7, DbLeft DEF Add, AddReturns, AddRaises
<1>8. ASSUME NEW c \in Pending, Collect(c) PROVE DbStep
  BY <1>8, DbLeft DEF Collect
<1>9. ASSUME NEW f \in Flushes, \/ FlushTakes(f) \/ FlushStops(f) \/ FlushSends(f)
                                \/ FlushRaises(f) \/ FlushReturns(f)
      PROVE  DbStep
  BY <1>9, DbLeft DEF FlushTakes, FlushStops, FlushSends, FlushRaises, FlushReturns
<1>10. CASE Discard \/ UNCHANGED vars
  BY <1>10, DbLeft DEF Discard, vars, db, ghosts
<1> QED
  BY <1>1, <1>2, <1>3, <1>4, <1>5, <1>6, <1>7, <1>8, <1>9, <1>10 DEF Next

-----------------------------------------------------------------------------
(* The senders. *)

SendersOK ==
    /\ tasks \in [Senders -> Tasks] /\ wires \in [Senders -> Seq(Calls)]
    /\ \A f \in Flushes : FlushOK(f)
    /\ \A s \in Senders : AnswerOK(s)
    /\ \A c \in Direct : DirectOK(c)

\* A sender may be at `t` with `w` on its connection.
Sends(s, t, w) ==
    /\ t \in Tasks /\ w \in Seq(Calls)
    /\ s \in Flushes =>
         /\ t.mine \in Seq(Pending) /\ t.bad \in Seq(Pending) /\ w \in Seq(Pending)
         /\ t.at # "sent" => t.bad = <<>> /\ w = <<>>
         /\ t.at = "idle" => t.mine = <<>>
    /\ t.at = "sent" => \A c \in Calls : Has(t.mine, c) => c \in ran \/ Has(t.bad, c) \/ Has(w, c)
    /\ s \in Direct /\ t.at = "sent" => t.mine = <<s>>

\* Every sender is where it may be.
LEMMA SenderIs ==
  ASSUME EnqueueInv, NEW s \in Senders
  PROVE  Sends(s, tasks[s], wires[s])
BY DEF EnqueueInv, TypeOK, FlushOK, AnswerOK, DirectOK, Sends

\* One sender moves.
LEMMA SenderMoves ==
  ASSUME EnqueueInv, ran \subseteq ran', NEW s \in Senders, NEW t, NEW w,
         (t \in Tasks /\ w \in Seq(Calls)),
         s \in Flushes =>
             /\ t.mine \in Seq(Pending) /\ t.bad \in Seq(Pending) /\ w \in Seq(Pending)
             /\ t.at # "sent" => t.bad = <<>> /\ w = <<>>
             /\ t.at = "idle" => t.mine = <<>>,
         t.at = "sent" =>
             \A c \in Calls : Has(t.mine, c) => c \in ran' \/ Has(t.bad, c) \/ Has(w, c),
         s \in Direct /\ t.at = "sent" => t.mine = <<s>>,
         tasks' = [tasks EXCEPT ![s] = t], wires' = [wires EXCEPT ![s] = w]
  PROVE  SendersOK'
<1>1. tasks \in [Senders -> Tasks] /\ wires \in [Senders -> Seq(Calls)]
  BY DEF EnqueueInv, TypeOK
<1>2. tasks'[s] = t /\ wires'[s] = w
  BY <1>1
<1>3. \A r \in Senders \ {s} : tasks'[r] = tasks[r] /\ wires'[r] = wires[r]
  BY <1>1
<1>4. tasks' \in [Senders -> Tasks] /\ wires' \in [Senders -> Seq(Calls)]
  BY <1>1
<1>5. ASSUME NEW f \in Flushes PROVE FlushOK(f)'
  <2>1. f \in Senders /\ FlushOK(f)
    BY DEF EnqueueInv, Senders
  <2> QED
    BY <1>2, <1>3, <2>1 DEF FlushOK
<1>6. ASSUME NEW r \in Senders PROVE AnswerOK(r)'
  <2>1. AnswerOK(r)
    BY DEF EnqueueInv
  <2> QED
    BY <1>2, <1>3, <2>1 DEF AnswerOK
<1>7. ASSUME NEW c \in Direct PROVE DirectOK(c)'
  <2>1. c \in Senders /\ DirectOK(c)
    BY DEF EnqueueInv, Senders
  <2> QED
    BY <1>2, <1>3, <2>1 DEF DirectOK
<1> QED
  BY <1>4, <1>5, <1>6, <1>7 DEF SendersOK

\* A task whose list of failures changes.
LEMMA TaskFails ==
  ASSUME NEW t \in Tasks, NEW q \in Seq(Calls), NEW u, u = [t EXCEPT !.bad = q]
  PROVE  u \in Tasks /\ u.bad = q /\ u.mine = t.mine /\ u.at = t.at
<1> DEFINE S == Seq(Calls)
<1>1. q \in S /\ t \in [at: {"idle", "stage", "sent"}, mine: S, bad: S]
  BY DEF Tasks
<1> HIDE DEF S
<1>2. u \in [at: {"idle", "stage", "sent"}, mine: S, bad: S]
  BY <1>1
<1> QED
  BY <1>1, <1>2 DEF S, Tasks

\* A task with a new batch.
LEMMA TaskTakes ==
  ASSUME NEW q \in Seq(Calls), NEW a \in {"idle", "stage", "sent"},
         NEW u, u = Holding(a, q)
  PROVE  u \in Tasks /\ u.at = a /\ u.mine = q /\ u.bad = <<>>
<1> DEFINE S == Seq(Calls)
<1>1. q \in S /\ <<>> \in S
  OBVIOUS
<1>2. u.at = a /\ u.mine = q /\ u.bad = <<>>
  BY DEF Holding
<1> HIDE DEF S
<1>3. u \in [at: {"idle", "stage", "sent"}, mine: S, bad: S]
  BY <1>1 DEF Holding
<1> QED
  BY <1>2, <1>3 DEF S, Tasks

\* A task that is away.
LEMMA AwayTask == Away \in Tasks /\ Away.at = "idle" /\ Away.mine = <<>> /\ Away.bad = <<>>
BY DEF Away, Holding, Tasks

\* The server takes the next command of a connection, and it fails or is answered.
LEMMA RunsStep ==
  ASSUME EnqueueInv, NEW s \in Senders, ran \subseteq ran', Run(s) \/ RunFails(s)
  PROVE  SendersOK'
<1> DEFINE h == Head(wires[s])
           w == Tail(wires[s])
           b == tasks[s].bad
<1>1. Sends(s, tasks[s], wires[s]) /\ wires[s] # <<>> /\ wires' = [wires EXCEPT ![s] = w]
  BY SenderIs DEF Run, RunFails
<1>2. tasks \in [Senders -> Tasks] /\ wires[s] \in Seq(Calls) /\ b \in Seq(Calls)
  BY DEF EnqueueInv, TypeOK, Tasks
<1>3. /\ h \in Calls /\ w \in Seq(Calls)
      /\ wires[s] \in Seq(Pending) => h \in Pending /\ w \in Seq(Pending)
  BY <1>1, <1>2
<1>4. \A c \in Calls : Has(wires[s], c) => h = c \/ Has(w, c)
  BY <1>1, <1>2, InTail
<1>5. s \in Flushes => tasks[s].at = "sent"
  BY <1>1 DEF Sends
<1>6. CASE Run(s)
  <2>1. h \in ran' /\ tasks' = [tasks EXCEPT ![s] = tasks[s]]
    BY <1>2, <1>6 DEF Run, RunScript
  <2> HIDE DEF h, w, b
  <2>2. tasks[s] \in Tasks
    BY <1>2
  <2> QED
    BY <1>1, <1>3, <1>4, <1>5, <2>1, <2>2, SenderMoves DEF Sends
<1>7. CASE RunFails(s)
  <2> DEFINE e == Append(b, h)
             t == [tasks[s] EXCEPT !.bad = e]
  <2>1. tasks' = [tasks EXCEPT ![s] = t]
    BY <1>2, <1>7 DEF RunFails
  <2>2. t \in Tasks /\ t.mine = tasks[s].mine /\ t.at = tasks[s].at /\ t.bad = e
    <3>1. tasks[s] \in Tasks /\ e \in Seq(Calls)
      BY <1>2, <1>3
    <3> HIDE DEF e, h, b
    <3> QED
      BY <3>1, TaskFails
  <2>3. \A c \in Calls : Has(t.bad, c) <=> Has(b, c) \/ h = c
    BY <1>2, <1>3, <2>2, InAppend
  <2>4. s \in Flushes => t.bad \in Seq(Pending)
    BY <1>1, <1>3, <2>2 DEF Sends
  <2> HIDE DEF h, w, t
  <2> QED
    BY <1>1, <1>3, <1>4, <1>5, <2>1, <2>2, <2>3, <2>4, SenderMoves DEF Sends
<1> QED
  BY <1>6, <1>7

\* A call of Queue.add goes out, and comes back.
LEMMA AddsStep ==
  ASSUME EnqueueInv, NEW s \in Direct, ran \subseteq ran', Add(s) \/ AddReturns(s) \/ AddRaises(s)
  PROVE  SendersOK'
<1>1. tasks \in [Senders -> Tasks] /\ wires \in [Senders -> Seq(Calls)] /\ s \in Senders
  BY DEF EnqueueInv, TypeOK, Senders
<1>2. s \in Calls /\ s \notin Flushes
  BY EnqueueAssumption DEF Calls
<1>3. CASE Add(s)
  <2> DEFINE w == <<s>>
             t == Holding("sent", w)
  <2>1. tasks' = [tasks EXCEPT ![s] = t] /\ wires' = [wires EXCEPT ![s] = w]
    BY <1>3 DEF Add
  <2>2. w \in Seq(Calls)
    BY <1>2
  <2>3. t \in Tasks /\ t.mine = w
    <3>1. t = Holding("sent", w)
      OBVIOUS
    <3> HIDE DEF t, w
    <3> QED
      BY <2>2, <3>1, TaskTakes
  <2>4. w = <<s>>
    OBVIOUS
  <2> HIDE DEF t, w
  <2> QED
    BY <1>1, <1>2, <2>1, <2>2, <2>3, <2>4, SenderMoves
<1>4. CASE AddReturns(s) \/ AddRaises(s)
  <2>1. tasks' = [tasks EXCEPT ![s] = Away] /\ wires' = [wires EXCEPT ![s] = <<>>]
    BY <1>1, <1>4 DEF AddReturns, AddRaises
  <2>2. Away \in Tasks /\ Away.at = "idle" /\ <<>> \in Seq(Calls)
    BY DEF Away, Holding, Tasks
  <2> QED
    BY <1>1, <1>2, <2>1, <2>2, SenderMoves
<1> QED
  BY <1>3, <1>4

\* A pipeline, or one command, goes out again.
LEMMA ResendsStep ==
  ASSUME EnqueueInv, NEW s \in Senders, ran \subseteq ran', Resend(s)
  PROVE  SendersOK'
<1>1. tasks \in [Senders -> Tasks] /\ Sends(s, tasks[s], wires[s]) /\ tasks[s].at = "sent"
  BY SenderIs DEF EnqueueInv, TypeOK, Resend, Dies
<1> DEFINE t == [tasks[s] EXCEPT !.bad = <<>>]
           w == tasks[s].mine
<1>2. tasks' = [tasks EXCEPT ![s] = t] /\ wires' = [wires EXCEPT ![s] = w]
  BY <1>1 DEF Resend
<1>3. t \in Tasks /\ w \in Seq(Calls) /\ t.mine = w /\ t.bad = <<>> /\ t.at = "sent"
  <2>1. tasks[s] \in Tasks /\ <<>> \in Seq(Calls)
    BY <1>1
  <2> QED
    BY <1>1, <2>1, TaskFails DEF Tasks
<1>4. /\ s \in Flushes => t.bad \in Seq(Pending) /\ w \in Seq(Pending)
      /\ s \in Direct => t.mine = <<s>>
  BY <1>1, <1>3 DEF Sends
<1> HIDE DEF t, w
<1> QED
  BY <1>2, <1>3, <1>4, SenderMoves

\* A flush takes its batch, sends it, and ends.
LEMMA FlushesStep ==
  ASSUME EnqueueInv, NEW f \in Flushes, ran \subseteq ran',
         \/ FlushTakes(f) \/ FlushStops(f) \/ FlushSends(f)
         \/ FlushRaises(f) \/ FlushReturns(f)
  PROVE  SendersOK'
<1>1. /\ tasks \in [Senders -> Tasks] /\ wires \in [Senders -> Seq(Calls)]
      /\ f \in Senders /\ f \notin Direct /\ buffer \in Seq(Pending)
  BY EnqueueAssumption DEF EnqueueInv, TypeOK, Senders
<1>2. FlushOK(f)
  BY DEF EnqueueInv
<1>3. /\ Away \in Tasks /\ Away.at = "idle" /\ Away.mine = <<>> /\ Away.bad = <<>>
      /\ <<>> \in Seq(Calls) /\ <<>> \in Seq(Pending)
  BY DEF Away, Holding, Tasks
<1>4. CASE FlushTakes(f)
  <2> DEFINE t == Holding("stage", buffer)
  <2>1. wires[f] = <<>> /\ wires' = wires
    BY <1>2, <1>4 DEF FlushTakes, FlushOK
  <2>2. tasks' = [tasks EXCEPT ![f] = t] /\ wires' = [wires EXCEPT ![f] = <<>>]
    BY <1>1, <1>4, <2>1 DEF FlushTakes
  <2>3. buffer \in Seq(Calls)
    BY <1>1 DEF Calls
  <2>4. t \in Tasks /\ t.at = "stage" /\ t.mine \in Seq(Pending) /\ t.bad = <<>>
    <3>1. t = Holding("stage", buffer)
      OBVIOUS
    <3> HIDE DEF t
    <3>2. t \in Tasks /\ t.at = "stage" /\ t.mine = buffer /\ t.bad = <<>>
      BY <2>3, <3>1, TaskTakes
    <3> QED
      BY <1>1, <3>2
  <2> HIDE DEF t
  <2> QED
    BY <1>1, <1>3, <2>2, <2>4, SenderMoves
<1>5. CASE FlushSends(f)
  <2> DEFINE t == [tasks[f] EXCEPT !.at = "sent"]
             w == tasks[f].mine
  <2>1. tasks' = [tasks EXCEPT ![f] = t] /\ wires' = [wires EXCEPT ![f] = w]
    BY <1>1, <1>5 DEF FlushSends
  <2>2. /\ t \in Tasks /\ t.at = "sent" /\ t.mine = w /\ t.bad = tasks[f].bad
        /\ w \in Seq(Calls)
    BY <1>1 DEF Tasks
  <2>3. t.bad \in Seq(Pending) /\ w \in Seq(Pending)
    BY <1>2, <2>2 DEF FlushOK
  <2> HIDE DEF t, w
  <2> QED
    BY <1>1, <2>1, <2>2, <2>3, SenderMoves
<1>6. CASE FlushStops(f) \/ FlushRaises(f) \/ FlushReturns(f)
  <2>1. FlushStops(f) => wires[f] = <<>>
    BY <1>2 DEF FlushStops, FlushOK
  <2>2. tasks' = [tasks EXCEPT ![f] = Away] /\ wires' = [wires EXCEPT ![f] = <<>>]
    BY <1>1, <1>6, <2>1 DEF FlushStops, FlushRaises, FlushReturns
  <2> QED
    BY <1>1, <1>3, <2>2, SenderMoves
<1> QED
  BY <1>4, <1>5, <1>6

\* Every step leaves every sender where it may be.
LEMMA SendersStep ==
  ASSUME EnqueueInv, [Next]_vars
  PROVE  SendersOK'
<1>0. ran \subseteq ran'
  BY ScriptsStep DEF DbStep
<1>1. ASSUME UNCHANGED <<tasks, wires>> PROVE SendersOK'
  BY <1>0, <1>1 DEF EnqueueInv, TypeOK, SendersOK, FlushOK, AnswerOK, DirectOK
<1>2. ASSUME NEW s \in Senders, Run(s) \/ RunFails(s) \/ Resend(s) PROVE SendersOK'
  BY <1>0, <1>2, RunsStep, ResendsStep
<1>3. ASSUME NEW d \in dead, RunLate(d) \/ Lost(d) PROVE SendersOK'
  BY <1>1, <1>3 DEF RunLate, Lost
<1>4. ASSUME NEW c \in Direct, Add(c) \/ AddReturns(c) \/ AddRaises(c) PROVE SendersOK'
  BY <1>0, <1>4, AddsStep
<1>5. ASSUME NEW c \in Pending, Collect(c) PROVE SendersOK'
  BY <1>1, <1>5 DEF Collect
<1>6. ASSUME NEW f \in Flushes, \/ FlushTakes(f) \/ FlushStops(f) \/ FlushSends(f)
                                \/ FlushRaises(f) \/ FlushReturns(f)
      PROVE  SendersOK'
  BY <1>0, <1>6, FlushesStep
<1>7. ASSUME NEW i \in hash, JobGoes(i) PROVE SendersOK'
  BY <1>1, <1>7 DEF JobGoes
<1>8. CASE Discard \/ Tick \/ UNCHANGED vars
  BY <1>1, <1>8 DEF Discard, Tick, vars
<1> QED
  BY <1>2, <1>3, <1>4, <1>5, <1>6, <1>7, <1>8 DEF Next
-----------------------------------------------------------------------------
(* Connections given up, and what callers are told. *)

DeadOK == dead \subseteq [no: Nat, todo: Seq(Calls) \ {<<>>}] /\ faults \in 0..MaxFaults

\* What a dead connection leaves behind.
LEMMA DiesLeaves ==
  ASSUME EnqueueInv, NEW s \in Senders, Dies(s)
  PROVE  DeadOK'
<1> DEFINE w == wires[s]
           e == [no |-> faults, todo |-> w]
<1>1. /\ faults \in Nat /\ faults < MaxFaults /\ MaxFaults \in Nat /\ faults' = faults + 1
      /\ w \in Seq(Calls) /\ dead \subseteq [no: Nat, todo: Seq(Calls) \ {<<>>}]
  BY EnqueueAssumption DEF EnqueueInv, TypeOK, Dies, Fault
<1>2. dead' = dead \cup ({e} \ [no: Nat, todo: {<<>>}])
  BY DEF Dies
<1> HIDE DEF w
<1>3. e \in [no: Nat, todo: {<<>>}] \/ e \in [no: Nat, todo: Seq(Calls) \ {<<>>}]
  BY <1>1
<1> HIDE DEF e
<1> QED
  BY <1>1, <1>2, <1>3 DEF DeadOK

\* What is left of a dead connection still has something to say.
LEMMA LateLeaves ==
  ASSUME EnqueueInv, NEW d \in dead, RunLate(d)
  PROVE  DeadOK'
<1> DEFINE r == Tail(d.todo)
           e == [d EXCEPT !.todo = r]
<1>1. /\ d \in [no: Nat, todo: Seq(Calls) \ {<<>>}] /\ faults' = faults /\ faults \in 0..MaxFaults
      /\ dead \subseteq [no: Nat, todo: Seq(Calls) \ {<<>>}]
      /\ dead' = (dead \ {d}) \cup {x \in {e} : x.todo # <<>>}
  BY DEF EnqueueInv, TypeOK, RunLate
<1>2. d.todo \in Seq(Calls) /\ d.todo # <<>>
  BY <1>1
<1>3. r \in Seq(Calls)
  BY <1>2
<1> HIDE DEF r
<1>4. e.todo # <<>> => e \in [no: Nat, todo: Seq(Calls) \ {<<>>}]
  BY <1>1, <1>3
<1> HIDE DEF e
<1> QED
  BY <1>1, <1>4 DEF DeadOK

\* Every step leaves the dead connections as they may be.
LEMMA DeadStep ==
  ASSUME EnqueueInv, [Next]_vars
  PROVE  DeadOK'
<1>0. DeadOK
  BY DEF EnqueueInv, TypeOK, DeadOK
<1>1. ASSUME UNCHANGED <<dead, faults>> PROVE DeadOK'
  BY <1>0, <1>1 DEF DeadOK
<1>2. ASSUME dead' = dead, Fault PROVE DeadOK'
  BY <1>0, <1>2, EnqueueAssumption DEF DeadOK, Fault
<1>3. ASSUME NEW s \in Senders, Run(s) \/ RunFails(s) \/ Resend(s) PROVE DeadOK'
  BY <1>1, <1>2, <1>3, DiesLeaves DEF Run, RunFails, Resend
<1>4. ASSUME NEW d \in dead, RunLate(d) \/ Lost(d) PROVE DeadOK'
  BY <1>0, <1>4, LateLeaves DEF Lost, DeadOK
<1>5. ASSUME NEW c \in Direct, Add(c) \/ AddReturns(c) \/ AddRaises(c) PROVE DeadOK'
  <2>1. c \in Senders
    BY DEF Senders
  <2> QED
    BY <1>1, <1>5, <2>1, DiesLeaves DEF Add, AddReturns, AddRaises
<1>6. ASSUME NEW f \in Flushes, \/ FlushTakes(f) \/ FlushStops(f) \/ FlushSends(f)
                                \/ FlushRaises(f) \/ FlushReturns(f)
      PROVE  DeadOK'
  <2>1. f \in Senders
    BY DEF Senders
  <2> QED
    BY <1>1, <1>2, <1>6, <2>1, DiesLeaves
    DEF FlushTakes, FlushStops, FlushSends, FlushRaises, FlushReturns
<1>7. ASSUME NEW c \in Pending, Collect(c) PROVE DeadOK'
  BY <1>1, <1>7 DEF Collect
<1>8. ASSUME NEW i \in hash, JobGoes(i) PROVE DeadOK'
  BY <1>1, <1>8 DEF JobGoes
<1>9. CASE Discard \/ Tick \/ UNCHANGED vars
  BY <1>1, <1>9 DEF Discard, Tick, vars
<1> QED
  BY <1>3, <1>4, <1>5, <1>6, <1>7, <1>8, <1>9 DEF Next

\* The buffer holds calls of the PendingJobs, and a caller is told the truth.
ToldOK ==
    buffer \in Seq(Pending) /\ sent \subseteq Calls /\ over \subseteq Calls /\ SentIsTrue

\* Every step keeps it: a call reported as sent was answered or did not fail.
LEMMA ToldStep ==
  ASSUME EnqueueInv, [Next]_vars
  PROVE  ToldOK'
<1>0. ToldOK /\ Direct \subseteq Calls /\ Pending \subseteq Calls
  BY DEF EnqueueInv, TypeOK, ToldOK, Calls
<1>1. ran \subseteq ran'
  BY ScriptsStep DEF DbStep
<1>2. ASSUME UNCHANGED <<buffer, sent, over>> PROVE ToldOK'
  BY <1>0, <1>1, <1>2 DEF ToldOK, SentIsTrue
<1>3. ASSUME NEW s \in Senders, Run(s) \/ RunFails(s) \/ Resend(s) PROVE ToldOK'
  BY <1>2, <1>3 DEF Run, RunFails, Resend, ended
<1>4. ASSUME NEW d \in dead, RunLate(d) \/ Lost(d) PROVE ToldOK'
  BY <1>2, <1>4 DEF RunLate, Lost, ended
<1>5. ASSUME NEW c \in Direct, Add(c) \/ AddReturns(c) \/ AddRaises(c) PROVE ToldOK'
  <2>1. CASE Add(c)
    BY <1>2, <2>1 DEF Add, ended
  <2>2. CASE AddReturns(c)
    <3>1. c \in Senders /\ c \in Calls
      BY <1>0 DEF Senders
    <3>2. tasks[c].mine = <<c>> /\ AnswerOK(c) /\ tasks[c].at = "sent" /\ wires[c] = <<>>
      BY <2>2, <3>1 DEF EnqueueInv, DirectOK, AddReturns
    <3>3. Has(<<c>>, c)
      BY DEF Has, ToSet
    <3>4. c \in ran \/ c \in ToSet(tasks[c].bad)
      BY <3>1, <3>2, <3>3, InNone DEF AnswerOK, Has
    <3> QED
      BY <1>0, <1>1, <2>2, <3>1, <3>4 DEF AddReturns, ToldOK, SentIsTrue
  <2>3. CASE AddRaises(c)
    BY <1>0, <1>1, <2>3 DEF AddRaises, ToldOK, SentIsTrue
  <2> QED
    BY <1>5, <2>1, <2>2, <2>3
<1>6. ASSUME NEW f \in Flushes, \/ FlushTakes(f) \/ FlushStops(f) \/ FlushSends(f)
                                \/ FlushRaises(f) \/ FlushReturns(f)
      PROVE  ToldOK'
  <2>0. FlushOK(f) /\ f \in Senders
    BY DEF EnqueueInv, Senders
  <2>1. CASE FlushSends(f)
    BY <1>2, <2>1 DEF FlushSends, ended
  <2>2. CASE FlushTakes(f)
    BY <1>0, <1>1, <2>2 DEF FlushTakes, Rest, ToldOK, SentIsTrue, ended
  <2>3. CASE FlushStops(f) \/ FlushRaises(f)
    <3>1. tasks[f].mine \o buffer \in Seq(Pending)
      BY <1>0, <2>0 DEF ToldOK, FlushOK
    <3> QED
      BY <1>0, <1>1, <2>3, <3>1
      DEF FlushStops, FlushRaises, Restored, ToldOK, SentIsTrue, ended
  <2>4. CASE FlushReturns(f)
    <3>1. tasks[f].bad \o buffer \in Seq(Pending)
      BY <1>0, <2>0 DEF ToldOK, FlushOK
    <3>2. AnswerOK(f) /\ tasks[f].at = "sent" /\ wires[f] = <<>>
      BY <2>0, <2>4 DEF EnqueueInv, FlushReturns
    <3>3. \A c \in Calls : c \in ToSet(tasks[f].mine) => c \in ran \/ c \in ToSet(tasks[f].bad)
      BY <3>2, InNone DEF AnswerOK, Has
    <3>4. ToSet(tasks[f].mine) \subseteq Calls
      BY <1>0, <2>0 DEF FlushOK, ToSet
    <3> QED
      BY <1>0, <1>1, <2>4, <3>1, <3>3, <3>4
      DEF FlushReturns, Restored, Unsent, ToldOK, SentIsTrue
  <2> QED
    BY <1>6, <2>1, <2>2, <2>3, <2>4
<1>7. ASSUME NEW c \in Pending, Collect(c) PROVE ToldOK'
  BY <1>0, <1>1, <1>7 DEF Collect, ToldOK, SentIsTrue, ended
<1>8. ASSUME NEW i \in hash, JobGoes(i) PROVE ToldOK'
  BY <1>2, <1>8 DEF JobGoes, ended
<1>9. CASE Discard
  <2>1. ToSet(buffer) \subseteq Calls
    BY <1>0 DEF ToldOK, ToSet
  <2> QED
    BY <1>0, <1>1, <1>9, <2>1 DEF Discard, ToldOK, SentIsTrue
<1>10. CASE Tick \/ UNCHANGED vars
  BY <1>2, <1>10 DEF Tick, vars, ended
<1> QED
  BY <1>3, <1>4, <1>5, <1>6, <1>7, <1>8, <1>9, <1>10 DEF Next
-----------------------------------------------------------------------------
(* Hands. *)

Ended(c) == c \in sent \cup over
InFlush(c) == \E f \in Flushes : Has(tasks[f].mine, c)
Held(c) == Has(buffer, c) \/ InFlush(c) \/ Ended(c)

\* What a step may do to a call: it stays in one hand, and an end is for good.
HandStep(c) ==
    /\ HandOK(c)' /\ \A f \in Flushes : BatchOK(f, c)'
    /\ Held(c) => Held(c)'
    /\ Ended(c) => Ended(c)'

\* A set with at most one member.
LEMMA CountOne ==
  ASSUME NEW S, \A x, y \in S : x = y
  PROVE  Cardinality(S) = IF S = {} THEN 0 ELSE 1
<1>1. CASE S = {}
  BY <1>1, FS_EmptySet
<1>2. CASE S # {}
  <2>1. PICK x \in S : TRUE
    BY <1>2
  <2>2. S = {x}
    BY <2>1
  <2> QED
    BY <1>2, <2>2, FS_Singleton
<1> QED
  BY <1>1, <1>2

\* The three places of a call, counted.
LEMMA CountHands ==
  ASSUME NEW c, NEW b, NEW F, NEW E, Lone(b, c), \A f, g \in F : f = g,
         ~(Has(b, c) /\ F # {}), ~(Has(b, c) /\ c \in E), ~(F # {} /\ c \in E)
  PROVE  Cardinality({i \in DOMAIN b : b[i] = c}) + Cardinality(F) + Cardinality({c} \cap E)
           = IF Has(b, c) \/ F # {} \/ c \in E THEN 1 ELSE 0
<1> DEFINE A == {i \in DOMAIN b : b[i] = c}
           C == {c} \cap E
<1>1. Cardinality(A) = IF A = {} THEN 0 ELSE 1
  <2>1. \A x, y \in A : x = y
    BY DEF Lone
  <2> HIDE DEF A
  <2> QED
    BY <2>1, CountOne
<1>2. Cardinality(C) = IF C = {} THEN 0 ELSE 1
  <2>1. \A x, y \in C : x = y
    OBVIOUS
  <2> HIDE DEF C
  <2> QED
    BY <2>1, CountOne
<1>3. Cardinality(F) = IF F = {} THEN 0 ELSE 1
  BY CountOne
<1>4. (A = {} <=> ~Has(b, c)) /\ (C = {} <=> c \notin E)
  BY DEF Has, ToSet
<1> HIDE DEF A, C
<1>5. Cardinality(A) + Cardinality(F) + Cardinality(C)
        = IF Has(b, c) \/ F # {} \/ c \in E THEN 1 ELSE 0
  BY <1>1, <1>2, <1>3, <1>4
<1> QED
  BY <1>5 DEF A, C

\* A call in one hand has one holder, and one that nobody holds has none.
LEMMA HoldersNow ==
  ASSUME NEW c, HandOK(c)
  PROVE  Holders(c) = IF Held(c) THEN 1 ELSE 0
<1> DEFINE F == {f \in Flushes : c \in ToSet(tasks[f].mine)}
           E == sent \cup over
<1>1. /\ Lone(buffer, c) /\ (\A f, g \in F : f = g) /\ ~(Has(buffer, c) /\ F # {})
      /\ ~(Has(buffer, c) /\ c \in E) /\ ~(F # {} /\ c \in E)
  BY DEF HandOK, Has
<1>2. /\ Holders(c) = Cardinality({i \in DOMAIN buffer : buffer[i] = c}) + Cardinality(F)
                      + Cardinality({c} \cap E)
      /\ Held(c) <=> Has(buffer, c) \/ F # {} \/ c \in E
  BY DEF Holders, Held, InFlush, Ended, Has
<1> HIDE DEF F, E
<1> QED
  BY <1>1, <1>2, CountHands

\* The same after a step.
LEMMA HoldersThen ==
  ASSUME NEW c, HandOK(c)'
  PROVE  Holders(c)' = IF Held(c)' THEN 1 ELSE 0
<1> DEFINE F == {f \in Flushes : c \in ToSet(tasks'[f].mine)}
           E == sent' \cup over'
           b == buffer'
<1>1. /\ Lone(b, c) /\ (\A f, g \in F : f = g) /\ ~(Has(b, c) /\ F # {})
      /\ ~(Has(b, c) /\ c \in E) /\ ~(F # {} /\ c \in E)
  BY DEF HandOK, Has, Lone
<1>2. /\ Holders(c)' = Cardinality({i \in DOMAIN b : b[i] = c}) + Cardinality(F)
                       + Cardinality({c} \cap E)
      /\ Held(c)' <=> Has(b, c) \/ F # {} \/ c \in E
  BY DEF Holders, Held, InFlush, Ended, Has
<1> HIDE DEF F, E, b
<1> QED
  BY <1>1, <1>2, CountHands

\* A step that leaves the flushes and the buffer alone, and ends no call of the
\* PendingJobs.
LEMMA HandsLeft ==
  ASSUME EnqueueInv, NEW c \in Pending, buffer' = buffer, Ended(c)' <=> Ended(c),
         \A f \in Flushes : tasks'[f] = tasks[f] /\ wires'[f] = wires[f]
  PROVE  HandStep(c)
<1>1. HandOK(c) /\ \A f \in Flushes : BatchOK(f, c)
  BY DEF EnqueueInv
<1>2. \A f \in Flushes : BatchOK(f, c)'
  BY <1>1 DEF BatchOK
<1>3. HandOK(c)'
  BY <1>1 DEF HandOK, Ended
<1>4. Held(c) => Held(c)'
  BY DEF Held, InFlush
<1> QED
  BY <1>2, <1>3, <1>4 DEF HandStep

\* One flush moves: what it held is now with it, in the buffer or at its end.
LEMMA HandMoves ==
  ASSUME EnqueueInv, NEW c \in Pending, NEW f \in Flushes, NEW t, NEW w,
         tasks' = [tasks EXCEPT ![f] = t], wires' = [wires EXCEPT ![f] = w],
         Lone(t.mine, c) /\ Lone(t.bad, c) /\ Lone(w, c),
         Has(t.bad, c) => Has(t.mine, c) /\ ~Has(w, c),
         Has(w, c) => Has(t.mine, c),
         Lone(buffer', c), Ended(c) => Ended(c)',
         Has(t.mine, c) => ~Has(buffer', c) /\ ~Ended(c)',
         Has(buffer', c) => ~Ended(c)',
         (Has(t.mine, c) \/ Has(buffer', c) \/ Ended(c)')
            <=> (Has(tasks[f].mine, c) \/ Has(buffer, c) \/ Ended(c))
  PROVE  HandStep(c)
<1>1. HandOK(c) /\ \A g \in Flushes : BatchOK(g, c)
  BY DEF EnqueueInv
<1>2. /\ tasks'[f] = t /\ wires'[f] = w
      /\ \A g \in Flushes \ {f} : tasks'[g] = tasks[g] /\ wires'[g] = wires[g]
  BY DEF EnqueueInv, TypeOK, Senders
<1>3. ASSUME NEW g \in Flushes PROVE BatchOK(g, c)'
  BY <1>1, <1>2 DEF BatchOK
<1>4. \A g \in Flushes \ {f} : Has(tasks[g].mine, c) =>
          ~Has(tasks[f].mine, c) /\ ~Has(buffer, c) /\ ~Ended(c)
  BY <1>1 DEF HandOK, Ended
<1>5. \A g \in Flushes \ {f} : Has(tasks'[g].mine, c) =>
          ~Has(tasks'[f].mine, c) /\ ~Has(buffer', c) /\ ~Ended(c)'
  BY <1>2, <1>4
<1>6. \A g, h \in Flushes \ {f} : Has(tasks'[g].mine, c) /\ Has(tasks'[h].mine, c) => g = h
  BY <1>1, <1>2 DEF HandOK
<1>7. HandOK(c)'
  BY <1>2, <1>5, <1>6 DEF HandOK, Ended
<1>8. Held(c) => Held(c)'
  BY <1>2 DEF Held, InFlush
<1> QED
  BY <1>3, <1>7, <1>8 DEF HandStep
\* The server takes the next command of a connection.
LEMMA RunHands ==
  ASSUME EnqueueInv, NEW c \in Pending, NEW s \in Senders, Run(s) \/ RunFails(s)
  PROVE  HandStep(c)
<1>1. /\ tasks \in [Senders -> Tasks] /\ wires \in [Senders -> Seq(Calls)]
      /\ buffer' = buffer /\ sent' = sent /\ over' = over /\ wires[s] # <<>>
      /\ wires' = [wires EXCEPT ![s] = Tail(wires[s])]
  BY DEF EnqueueInv, TypeOK, Run, RunFails, ended
<1>2. Ended(c)' <=> Ended(c)
  BY <1>1 DEF Ended
<1>3. CASE s \notin Flushes
  <2>1. \A f \in Flushes : f \in Senders /\ f # s
    BY <1>3 DEF Senders
  <2>2. \A f \in Flushes : tasks'[f] = tasks[f] /\ wires'[f] = wires[f]
    BY <1>1, <2>1 DEF Run, RunFails
  <2> QED
    BY <1>1, <1>2, <2>2, HandsLeft
<1>4. CASE s \in Flushes
  <2> DEFINE h == Head(wires[s])
             w == Tail(wires[s])
             b == tasks[s].bad
  <2>1. wires[s] \in Seq(Calls) /\ b \in Seq(Calls)
    BY <1>1 DEF Tasks
  <2>2. h \in Calls
    BY <1>1, <2>1
  <2>3. /\ Has(wires[s], c) <=> h = c \/ Has(w, c)
        /\ Lone(wires[s], c) => Lone(w, c) /\ (h = c => ~Has(w, c))
    BY <1>1, <2>1, InTail
  <2>4. HandOK(c) /\ BatchOK(s, c) /\ wires' = [wires EXCEPT ![s] = w]
    BY <1>1, <1>4 DEF EnqueueInv
  <2>5. CASE Run(s)
    <3>1. tasks' = [tasks EXCEPT ![s] = tasks[s]]
      BY <1>1, <2>5 DEF Run
    <3> HIDE DEF h, w, b
    <3> QED
      BY <1>1, <1>2, <1>4, <2>3, <2>4, <3>1, HandMoves DEF HandOK, BatchOK, Ended
  <2>6. CASE RunFails(s)
    <3> DEFINE e == Append(b, h)
               t == [tasks[s] EXCEPT !.bad = e]
    <3>1. tasks' = [tasks EXCEPT ![s] = t]
      BY <1>1, <2>6 DEF RunFails
    <3>2. e \in Seq(Calls) /\ tasks[s] \in Tasks
      BY <1>1, <2>1, <2>2
    <3>3. /\ Has(e, c) <=> Has(b, c) \/ h = c
          /\ Lone(b, c) /\ (h = c => ~Has(b, c)) => Lone(e, c)
      BY <2>1, <2>2, InAppend
    <3> HIDE DEF e, h, w
    <3>4. t.bad = e /\ t.mine = tasks[s].mine
      BY <3>2, TaskFails
    <3> HIDE DEF t
    <3> QED
      BY <1>1, <1>2, <1>4, <2>3, <2>4, <3>1, <3>3, <3>4, HandMoves DEF HandOK, BatchOK, Ended
  <2> QED
    BY <2>5, <2>6
<1> QED
  BY <1>3, <1>4

\* Everything goes out again.
LEMMA ResendHands ==
  ASSUME EnqueueInv, NEW c \in Pending, NEW s \in Senders, Resend(s)
  PROVE  HandStep(c)
<1>1. /\ tasks \in [Senders -> Tasks] /\ wires \in [Senders -> Seq(Calls)]
      /\ buffer' = buffer /\ sent' = sent /\ over' = over
      /\ wires' = [wires EXCEPT ![s] = tasks[s].mine]
      /\ tasks' = [tasks EXCEPT ![s].bad = <<>>]
  BY DEF EnqueueInv, TypeOK, Resend, ended
<1>2. Ended(c)' <=> Ended(c)
  BY <1>1 DEF Ended
<1>3. CASE s \notin Flushes
  <2>1. \A f \in Flushes : f \in Senders /\ f # s
    BY <1>3 DEF Senders
  <2>2. \A f \in Flushes : tasks'[f] = tasks[f] /\ wires'[f] = wires[f]
    BY <1>1, <2>1
  <2> QED
    BY <1>1, <1>2, <2>2, HandsLeft
<1>4. CASE s \in Flushes
  <2> DEFINE t == [tasks[s] EXCEPT !.bad = <<>>]
             w == tasks[s].mine
  <2>1. tasks' = [tasks EXCEPT ![s] = t] /\ wires' = [wires EXCEPT ![s] = w]
    BY <1>1
  <2>2. tasks[s] \in Tasks /\ <<>> \in Seq(Calls)
    BY <1>1
  <2>3. t.bad = <<>> /\ t.mine = w
    BY <2>2, TaskFails
  <2>4. HandOK(c) /\ BatchOK(s, c)
    BY <1>4 DEF EnqueueInv
  <2>5. Lone(w, c) /\ (Has(w, c) <=> Has(tasks[s].mine, c))
    BY <2>4 DEF BatchOK
  <2>6. /\ Lone(buffer, c) /\ (Has(buffer, c) => ~Ended(c))
        /\ Has(tasks[s].mine, c) => ~Has(buffer, c) /\ ~Ended(c)
    BY <1>4, <2>4 DEF HandOK, Ended
  <2>7. ~Has(t.bad, c) /\ Lone(t.bad, c) /\ buffer' = buffer
    BY <1>1, <2>3, InNone
  <2> HIDE DEF t, w
  <2> QED
    BY <1>2, <1>4, <2>1, <2>3, <2>5, <2>6, <2>7, HandMoves
<1> QED
  BY <1>3, <1>4

\* Queue.add and add_flow have no call of the PendingJobs.
LEMMA AddHands ==
  ASSUME EnqueueInv, NEW c \in Pending, NEW x \in Direct, Add(x) \/ AddReturns(x) \/ AddRaises(x)
  PROVE  HandStep(c)
<1>1. /\ tasks \in [Senders -> Tasks] /\ wires \in [Senders -> Seq(Calls)]
      /\ x # c /\ \A f \in Flushes : f \in Senders /\ f # x
  BY EnqueueAssumption DEF EnqueueInv, TypeOK, Senders
<1>2. \A f \in Flushes : tasks'[f] = tasks[f] /\ wires'[f] = wires[f]
  BY <1>1 DEF Add, AddReturns, AddRaises
<1>3. buffer' = buffer /\ (Ended(c)' <=> Ended(c))
  BY <1>1 DEF Add, AddReturns, AddRaises, ended, Ended
<1> QED
  BY <1>2, <1>3, HandsLeft

\* A call nobody holds is collected.
LEMMA CollectHands ==
  ASSUME EnqueueInv, NEW c \in Pending, NEW x \in Pending, Collect(x)
  PROVE  HandStep(c)
<1>1. /\ HandOK(c) /\ HandOK(x) /\ buffer \in Seq(Pending)
      /\ \A f \in Flushes : BatchOK(f, c)
  BY DEF EnqueueInv, TypeOK
<1>2. ~Held(x)
  BY <1>1, HoldersNow DEF Collect
<1>3. /\ buffer' = Append(buffer, x) /\ tasks' = tasks /\ wires' = wires
      /\ sent' = sent /\ over' = over
  BY DEF Collect, ended
<1> DEFINE b == Append(buffer, x)
<1>4. /\ Has(b, c) <=> Has(buffer, c) \/ x = c
      /\ Lone(buffer, c) /\ (x = c => ~Has(buffer, c)) => Lone(b, c)
  BY <1>1, InAppend
<1>5. buffer' = b
  BY <1>3
<1> HIDE DEF b
<1>6. x = c => ~Has(buffer, c) /\ ~InFlush(c) /\ ~Ended(c)
  BY <1>2 DEF Held
<1>7. HandOK(c)'
  BY <1>1, <1>3, <1>4, <1>5, <1>6 DEF HandOK, InFlush, Ended
<1>8. \A f \in Flushes : BatchOK(f, c)'
  BY <1>1, <1>3 DEF BatchOK
<1>9. (Held(c) => Held(c)') /\ (Ended(c) => Ended(c)')
  BY <1>3, <1>4, <1>5 DEF Held, InFlush, Ended
<1> QED
  BY <1>7, <1>8, <1>9 DEF HandStep

\* Everything collected is given up.
LEMMA DiscardHands ==
  ASSUME EnqueueInv, NEW c \in Pending, Discard
  PROVE  HandStep(c)
<1>1. HandOK(c) /\ \A f \in Flushes : BatchOK(f, c)
  BY DEF EnqueueInv
<1>2. /\ buffer' = <<>> /\ tasks' = tasks /\ wires' = wires /\ ~Has(buffer', c) /\ Lone(buffer', c)
      /\ Ended(c)' <=> Ended(c) \/ Has(buffer, c)
  BY InNone DEF Discard, Ended, Has
<1>3. HandOK(c)'
  BY <1>1, <1>2 DEF HandOK, Ended
<1>4. \A f \in Flushes : BatchOK(f, c)'
  BY <1>1, <1>2 DEF BatchOK
<1>5. (Held(c) => Held(c)') /\ (Ended(c) => Ended(c)')
  BY <1>2 DEF Held, InFlush
<1> QED
  BY <1>3, <1>4, <1>5 DEF HandStep

\* A flush takes its batch, sends it, and puts back what did not send.
LEMMA FlushHands ==
  ASSUME EnqueueInv, NEW c \in Pending, NEW f \in Flushes,
         \/ FlushTakes(f) \/ FlushStops(f) \/ FlushSends(f)
         \/ FlushRaises(f) \/ FlushReturns(f)
  PROVE  HandStep(c)
<1>1. /\ tasks \in [Senders -> Tasks] /\ wires \in [Senders -> Seq(Calls)]
      /\ f \in Senders /\ buffer \in Seq(Pending)
  BY DEF EnqueueInv, TypeOK, Senders
<1>2. FlushOK(f) /\ HandOK(c) /\ BatchOK(f, c)
  BY DEF EnqueueInv
<1>3. /\ Lone(buffer, c) /\ Lone(tasks[f].mine, c) /\ Lone(tasks[f].bad, c)
      /\ Has(tasks[f].mine, c) => ~Has(buffer, c) /\ ~Ended(c)
      /\ Has(buffer, c) => ~Ended(c)
      /\ Has(tasks[f].bad, c) => Has(tasks[f].mine, c)
  BY <1>2 DEF HandOK, BatchOK, Ended
<1>4. Away.mine = <<>> /\ Away.bad = <<>> /\ Lone(<<>>, c) /\ ~Has(<<>>, c)
  BY AwayTask, InNone
<1>5. CASE FlushTakes(f)
  <2> DEFINE t == Holding("stage", buffer)
  <2>1. /\ tasks[f].mine = <<>> /\ wires[f] = <<>> /\ buffer' = <<>>
        /\ sent' = sent /\ over' = over
    BY <1>2, <1>5 DEF FlushTakes, FlushOK, Rest, ended
  <2>2. tasks' = [tasks EXCEPT ![f] = t] /\ wires' = [wires EXCEPT ![f] = <<>>]
    BY <1>1, <1>5, <2>1 DEF FlushTakes
  <2>3. t.mine = buffer /\ t.bad = <<>>
    BY DEF Holding
  <2>4. Ended(c)' <=> Ended(c)
    BY <2>1 DEF Ended
  <2> HIDE DEF t
  <2> QED
    BY <1>3, <1>4, <2>1, <2>2, <2>3, <2>4, HandMoves
<1>6. CASE FlushSends(f)
  <2> DEFINE t == [tasks[f] EXCEPT !.at = "sent"]
             w == tasks[f].mine
  <2>1. tasks' = [tasks EXCEPT ![f] = t] /\ wires' = [wires EXCEPT ![f] = w]
    BY <1>1, <1>6 DEF FlushSends
  <2>2. t.mine = w /\ t.bad = tasks[f].bad
    BY <1>1 DEF Tasks
  <2>3. tasks[f].bad = <<>>
    BY <1>2, <1>6 DEF FlushSends, FlushOK
  <2>4. buffer' = buffer /\ (Ended(c)' <=> Ended(c))
    BY <1>6 DEF FlushSends, Ended, ended
  <2>5. Lone(w, c) /\ (Has(w, c) <=> Has(tasks[f].mine, c))
    BY <1>3
  <2> HIDE DEF t, w
  <2> QED
    BY <1>3, <1>4, <2>1, <2>2, <2>3, <2>4, <2>5, HandMoves
<1>7. CASE FlushStops(f) \/ FlushRaises(f)
  <2> DEFINE b == tasks[f].mine \o buffer
  <2>1. FlushStops(f) => wires[f] = <<>>
    BY <1>2 DEF FlushStops, FlushOK
  <2>2. tasks' = [tasks EXCEPT ![f] = Away] /\ wires' = [wires EXCEPT ![f] = <<>>] /\ buffer' = b
    BY <1>1, <1>7, <2>1 DEF FlushStops, FlushRaises, Restored
  <2>3. tasks[f].mine \in Seq(Pending)
    BY <1>2 DEF FlushOK
  <2>4. (Has(b, c) <=> Has(tasks[f].mine, c) \/ Has(buffer, c)) /\ Lone(b, c)
    BY <1>1, <1>3, <2>3, InConcat
  <2>5. Ended(c)' <=> Ended(c)
    BY <1>7 DEF FlushStops, FlushRaises, Ended, ended
  <2> HIDE DEF b
  <2> QED
    BY <1>3, <1>4, <2>2, <2>4, <2>5, HandMoves
<1>8. CASE FlushReturns(f)
  <2> DEFINE b == tasks[f].bad \o buffer
  <2>1. tasks' = [tasks EXCEPT ![f] = Away] /\ wires' = [wires EXCEPT ![f] = <<>>] /\ buffer' = b
    BY <1>1, <1>8 DEF FlushReturns, Restored, Unsent
  <2>2. tasks[f].bad \in Seq(Pending)
    BY <1>2 DEF FlushOK
  <2>3. (Has(b, c) <=> Has(tasks[f].bad, c) \/ Has(buffer, c)) /\ Lone(b, c)
    BY <1>1, <1>3, <2>2, InConcat
  <2>4. Ended(c)' <=> Ended(c) \/ (Has(tasks[f].mine, c) /\ ~Has(tasks[f].bad, c))
    BY <1>8 DEF FlushReturns, Unsent, Ended, Has
  <2> HIDE DEF b
  <2> QED
    BY <1>3, <1>4, <2>1, <2>3, <2>4, HandMoves
<1> QED
  BY <1>5, <1>6, <1>7, <1>8

\* Every step leaves every call of the PendingJobs in one hand.
LEMMA HandsStep ==
  ASSUME EnqueueInv, [Next]_vars, NEW c \in Pending
  PROVE  HandStep(c)
<1>1. ASSUME UNCHANGED <<buffer, tasks, wires, sent, over>> PROVE HandStep(c)
  BY <1>1, HandsLeft DEF Ended
<1>2. ASSUME NEW s \in Senders, Run(s) \/ RunFails(s) \/ Resend(s) PROVE HandStep(c)
  BY <1>2, RunHands, ResendHands
<1>3. ASSUME NEW d \in dead, RunLate(d) \/ Lost(d) PROVE HandStep(c)
  BY <1>1, <1>3 DEF RunLate, Lost, ended
<1>4. ASSUME NEW x \in Direct, Add(x) \/ AddReturns(x) \/ AddRaises(x) PROVE HandStep(c)
  BY <1>4, AddHands
<1>5. ASSUME NEW x \in Pending, Collect(x) PROVE HandStep(c)
  BY <1>5, CollectHands
<1>6. ASSUME NEW f \in Flushes, \/ FlushTakes(f) \/ FlushStops(f) \/ FlushSends(f)
                                \/ FlushRaises(f) \/ FlushReturns(f)
      PROVE  HandStep(c)
  BY <1>6, FlushHands
<1>7. ASSUME NEW i \in hash, JobGoes(i) PROVE HandStep(c)
  BY <1>1, <1>7 DEF JobGoes, ended
<1>8. CASE Discard
  BY <1>8, DiscardHands
<1>9. CASE Tick \/ UNCHANGED vars
  BY <1>1, <1>9 DEF Tick, vars, ended
<1> QED
  BY <1>2, <1>3, <1>4, <1>5, <1>6, <1>7, <1>8, <1>9 DEF Next

-----------------------------------------------------------------------------
(* The theorems. *)

\* The invariant holds at the start.
LEMMA EnqueueInit == Init => EnqueueInv
<1> SUFFICES ASSUME Init PROVE EnqueueInv
  OBVIOUS
<1>1. TypeOK
  BY EnqueueAssumption, AwayTask DEF Init, TypeOK
<1>2. \A s \in Senders : tasks[s] = Away /\ wires[s] = <<>>
  BY DEF Init
<1>3. ASSUME NEW f \in Flushes PROVE FlushOK(f)
  <2>1. /\ tasks[f].mine = <<>> /\ tasks[f].bad = <<>> /\ wires[f] = <<>>
        /\ <<>> \in Seq(Pending)
    BY <1>2, AwayTask DEF Senders
  <2> QED
    BY <2>1 DEF FlushOK
<1>4. \A s \in Senders : AnswerOK(s)
  BY <1>2, AwayTask DEF AnswerOK
<1>5. \A c \in Direct : DirectOK(c)
  BY <1>2, AwayTask DEF DirectOK, Senders
<1>6. \A c \in Calls : MemoOK(c)
  BY DEF Init, MemoOK
<1>7. ASSUME NEW c \in Pending PROVE HandOK(c) /\ \A f \in Flushes : BatchOK(f, c)
  <2>1. \A f \in Flushes : tasks[f].mine = <<>> /\ tasks[f].bad = <<>> /\ wires[f] = <<>>
    BY <1>2, AwayTask DEF Senders
  <2>2. buffer = <<>>
    BY DEF Init
  <2> QED
    BY <2>1, <2>2, InNone DEF HandOK, BatchOK
<1>8. SentIsTrue
  BY DEF Init, SentIsTrue
<1> QED
  BY <1>1, <1>3, <1>4, <1>5, <1>6, <1>7, <1>8 DEF EnqueueInv

\* Every step keeps it.
LEMMA EnqueueStep == EnqueueInv /\ [Next]_vars => EnqueueInv'
<1> SUFFICES ASSUME EnqueueInv, [Next]_vars PROVE EnqueueInv'
  OBVIOUS
<1>1. DbTyped' /\ \A c \in Calls : MemoOK(c)'
  BY ScriptsStep DEF DbStep
<1>2. SendersOK' /\ DeadOK' /\ ToldOK'
  BY SendersStep, DeadStep, ToldStep
<1>3. \A c \in Pending : HandOK(c)' /\ \A f \in Flushes : BatchOK(f, c)'
  BY HandsStep DEF HandStep
<1>4. TypeOK'
  BY <1>1, <1>2 DEF TypeOK, DbTyped, SendersOK, DeadOK, ToldOK
<1> QED
  BY <1>1, <1>2, <1>3, <1>4 DEF EnqueueInv, SendersOK, ToldOK

\* The invariant of the adds, in every behaviour.
LEMMA EnqueueAlways == Spec => []EnqueueInv
BY EnqueueInit, EnqueueStep, PTL DEF Spec

\* Every variable keeps its type, and the id counter stays ahead of every numbered hash.
THEOREM EnqueueTypes == Spec => []TypeOK
<1>1. EnqueueInv => TypeOK
  BY DEF EnqueueInv
<1> QED
  BY <1>1, EnqueueAlways, PTL

\* However often a call is sent, and whenever a late command runs, it makes its jobs
\* once while the scripts remember it.
THEOREM MadeOnce == Spec => []OncePerCall
<1>1. EnqueueInv => OncePerCall
  BY DEF EnqueueInv, MemoOK, OncePerCall
<1> QED
  BY <1>1, EnqueueAlways, PTL

\* flush() and add() report a call as enqueued only when a script ran for it.
THEOREM ReportsAreTrue == Spec => []SentIsTrue
<1>1. EnqueueInv => SentIsTrue
  BY DEF EnqueueInv
<1> QED
  BY <1>1, EnqueueAlways, PTL

\* However many flushes are in flight and fail, a call of the PendingJobs is never lost
\* and never held twice, and its end is for good.
THEOREM OneHand == Spec => InOneHand
<1>1. EnqueueInv /\ [Next]_vars =>
        [\A c \in Pending :
            /\ Holders(c) <= 1 /\ Holders(c) <= Holders(c)'
            /\ c \in sent \cup over => c \notin ToSet(buffer')]_vars
  <2> SUFFICES ASSUME EnqueueInv, [Next]_vars, NEW c \in Pending
               PROVE  /\ Holders(c) <= 1 /\ Holders(c) <= Holders(c)'
                      /\ c \in sent \cup over => c \notin ToSet(buffer')
    OBVIOUS
  <2>1. HandOK(c) /\ HandStep(c)
    BY HandsStep DEF EnqueueInv
  <2>2. Holders(c) = IF Held(c) THEN 1 ELSE 0
    BY <2>1, HoldersNow
  <2>3. Holders(c)' = IF Held(c)' THEN 1 ELSE 0
    BY <2>1, HoldersThen DEF HandStep
  <2>4. Held(c) => Held(c)'
    BY <2>1 DEF HandStep
  <2>5. c \in sent \cup over => c \notin ToSet(buffer')
    BY <2>1 DEF HandStep, HandOK, Ended, Has
  <2> QED
    BY <2>2, <2>3, <2>4, <2>5
<1> QED
  BY <1>1, EnqueueAlways, PTL DEF Spec, InOneHand
===============================================================================

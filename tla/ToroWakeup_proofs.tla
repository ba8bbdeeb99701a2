-------------------------- MODULE ToroWakeup_proofs --------------------------
(***************************************************************************)
(* Proofs about ToroWakeup: whatever is added, claimed, retried, paused,   *)
(* limited, stopped, killed or waited for, the variables stay in their     *)
(* ranges, no wake is lost while every process lives, no start exceeds the *)
(* cap, and until the sequence wraps the claims are in order.              *)
(***************************************************************************)
EXTENDS ToroWakeup, FiniteSetTheorems, WellFoundedInduction, TLAPS

(* Numbers. *)

Full == RlMax * RlDuration

LEMMA FullIsNat == Full \in Nat
BY WakeupAssumption DEF Full

LEMMA ProductIsNat ==
    ASSUME NEW m \in Nat, NEW n \in Nat
    PROVE  m * n \in Nat
OBVIOUS

LEMMA ScoreIsNat ==
    ASSUME NEW j \in Jobs, NEW n \in Nat
    PROVE  PriorityScore(j, n) \in Nat
<1>1. Offset - Prio[j] \in Nat /\ SeqWrap \in Nat
  BY WakeupAssumption
<1>2. n % SeqWrap \in Nat
  BY WakeupAssumption
<1>3. (Offset - Prio[j]) * SeqWrap \in Nat
  BY <1>1, ProductIsNat
<1>. QED  BY <1>2, <1>3 DEF PriorityScore

\* A set of naturals that is not empty has a least member.
LEMMA LeastNat ==
    ASSUME NEW T \in SUBSET Nat, T # {}
    PROVE  \E m \in T : \A n \in T : m <= n
<1>1. PICK m \in T : \A n \in T : <<n, m>> \notin OpToRel(<, Nat)
  <2> DEFINE R == OpToRel(<, Nat)
  <2>1. IsWellFoundedOn(R, Nat)
    BY NatLessThanWellFounded
  <2>. HIDE DEF R
  <2>2. \E m \in T : \A n \in T : <<n, m>> \notin R
    BY <2>1, WFMin
  <2>. QED  BY <2>2, Zenon DEF R
<1>2. \A n \in T : ~(n < m)
  BY <1>1, Zenon DEF OpToRel
<1>. QED  BY <1>2

-----------------------------------------------------------------------------
(* What each step on the keys leaves behind. *)

Stages == {"new", "held", "delayed", "wait", "active", "gone"}

JobRecs == [state: Stages, score: Nat, due: Nat, by: Slots \cup {None}]

LEMMA NoneIsNew == None \notin Jobs /\ None \notin Slots /\ None \notin Nat
BY WakeupAssumption

LEMMA DbFields ==
    ASSUME NEW d, d \in Dbs
    PROVE  /\ d.job \in [Jobs -> JobRecs] /\ d.pc \in Nat /\ d.work \in BOOLEAN
           /\ d.wakeAt \in Nat \cup {None} /\ d.paused \in BOOLEAN /\ d.cap \in Nat
           /\ d.tokens \in 0..Full /\ d.holder \in [Keys -> Jobs \cup {None}]
           /\ d.line \in SUBSET (Jobs \X Jobs)
BY DEF Dbs, JobRecs, Stages, Full

\* Changing the jobs, their order, the sequence and a key keeps the keys typed.
LEMMA DbUpdated ==
    ASSUME NEW d, d \in Dbs, NEW e,
           NEW jb \in [Jobs -> JobRecs], NEW n \in Nat, NEW ln \in SUBSET (Jobs \X Jobs),
           NEW h \in [Keys -> Jobs \cup {None}], NEW wk \in BOOLEAN, NEW wa \in Nat \cup {None},
           NEW tk \in 0..Full,
           e = [d EXCEPT !.job = jb, !.pc = n, !.line = ln, !.holder = h, !.work = wk,
                         !.wakeAt = wa, !.tokens = tk]
    PROVE  /\ e \in Dbs /\ e.job = jb /\ e.pc = n /\ e.line = ln /\ e.holder = h /\ e.work = wk
           /\ e.wakeAt = wa /\ e.tokens = tk /\ e.paused = d.paused /\ e.cap = d.cap
BY DEF Dbs, JobRecs, Stages, Full


Blank(state) == [state |-> state, score |-> 0, due |-> 0, by |-> None]

Without(ln, j) == {p \in ln : j \notin {p[1], p[2]}}

\* Job j has left the line, with record r; no other job, no cap and no pause changed.
Moved(d, e, j, r) ==
    /\ e \in Dbs /\ e.job[j] = r /\ \A i \in Jobs \ {j} : e.job[i] = d.job[i]
    /\ e.pc = d.pc /\ e.work = d.work /\ e.paused = d.paused /\ e.cap = d.cap
    /\ e.tokens = d.tokens /\ e.holder = d.holder /\ e.line = Without(d.line, j)

LEMMA LeftDb ==
    ASSUME NEW d, d \in Dbs, NEW j \in Jobs, NEW state \in Stages, NEW e, e = Left(d, j, state)
    PROVE  Moved(d, e, j, Blank(state))
<1> DEFINE jb == [d.job EXCEPT ![j] = Blank(state)]
           ln == Without(d.line, j)
<1>1. e = [d EXCEPT !.job = jb, !.line = ln]
  BY DEF Left, Blank, Without
<1>2. jb \in [Jobs -> JobRecs] /\ jb[j] = Blank(state) /\ \A i \in Jobs \ {j} : jb[i] = d.job[i]
  BY DbFields DEF JobRecs, Blank
<1>3. ln \in SUBSET (Jobs \X Jobs)
  BY DbFields DEF Without
<1>. HIDE DEF jb, ln
<1>4. /\ e \in Dbs /\ e.job = jb /\ e.line = ln
      /\ e.pc = d.pc /\ e.work = d.work /\ e.paused = d.paused
      /\ e.cap = d.cap /\ e.tokens = d.tokens /\ e.holder = d.holder
  BY <1>1, <1>2, <1>3 DEF Dbs, JobRecs, Stages
<1>. QED  BY <1>2, <1>4 DEF ln, Moved

\* A job parked for a while.
Parked(due) == [state |-> "delayed", score |-> 0, due |-> due, by |-> None]

LEMMA DelayedDb ==
    ASSUME NEW d, d \in Dbs, NEW j \in Jobs, NEW due \in Nat, NEW e, e = Delayed(d, j, due)
    PROVE  Moved(d, e, j, Parked(due))
<1>0. PICK u : u = Left(d, j, "delayed")
  OBVIOUS
<1>1. Moved(d, u, j, Blank("delayed"))
  BY <1>0, LeftDb DEF Stages
<1> DEFINE jb == [u.job EXCEPT ![j].due = due]
           v == [u EXCEPT !.job[j].due = due]
           wa == IF v.wakeAt = None \/ due < v.wakeAt THEN due ELSE v.wakeAt
<1>2. e = WakeAt(v, due)
  BY <1>0 DEF Delayed
<1>3. e = [v EXCEPT !.wakeAt = wa]
  BY <1>2 DEF WakeAt
<1>4. v = [u EXCEPT !.job = jb]
  OBVIOUS
<1>. HIDE DEF v
<1>5. u \in Dbs /\ u.job[j] = Blank("delayed") /\ u.job \in [Jobs -> JobRecs]
  BY <1>1, DbFields DEF Moved
<1>6. jb \in [Jobs -> JobRecs] /\ jb[j] = Parked(due) /\ \A i \in Jobs \ {j} : jb[i] = u.job[i]
  BY <1>5 DEF JobRecs, Blank, Parked, Stages
<1>. HIDE DEF jb
<1>7. /\ v \in Dbs /\ v.job = jb /\ v.line = u.line
      /\ v.pc = u.pc /\ v.work = u.work /\ v.paused = u.paused
      /\ v.cap = u.cap /\ v.tokens = u.tokens /\ v.holder = u.holder
  BY <1>4, <1>5, <1>6 DEF Dbs, JobRecs, Stages
<1>8. wa \in Nat \cup {None}
  BY <1>7, DbFields
<1>. HIDE DEF wa
<1>9. /\ e \in Dbs /\ e.job = v.job /\ e.line = v.line
      /\ e.pc = v.pc /\ e.work = v.work /\ e.paused = v.paused
      /\ e.cap = v.cap /\ e.tokens = v.tokens /\ e.holder = v.holder
  BY <1>3, <1>7, <1>8 DEF Dbs, JobRecs, Stages
<1>. QED  BY <1>1, <1>6, <1>7, <1>9 DEF Moved

Lined(d) == In(d, "wait") \cup In(d, "held")

LEMMA RankTypes ==
    ASSUME NEW J \in SUBSET Jobs, NEW rank \in Orders(J)
    PROVE  /\ DOMAIN rank = J /\ IsFiniteSet(J) /\ Cardinality(J) \in Nat
           /\ \A j \in J : rank[j] \in 1..Cardinality(J)
           /\ \A i, j \in J : rank[i] = rank[j] => i = j
<1>1. IsFiniteSet(J)
  BY FS_Subset, WakeupAssumption
<1>2. Cardinality(J) \in Nat
  BY <1>1, FS_CardinalityType
<1>. QED  BY <1>1, <1>2 DEF Orders

LEMMA AloneIsAnOrder ==
    ASSUME NEW j \in Jobs
    PROVE  {j} \in SUBSET Jobs /\ Alone(j) \in Orders({j}) /\ Cardinality({j}) = 1
           /\ DOMAIN Alone(j) = {j} /\ Alone(j)[j] = 1
<1>1. Cardinality({j}) = 1
  BY FS_Singleton
<1>2. Alone(j) \in [{j} -> 1..Cardinality({j})]
  BY <1>1 DEF Alone
<1>. QED  BY <1>1, <1>2 DEF Alone, Orders

\* Who stands before whom once the jobs of `rank` have joined the line.
Joined(d, e, rank) ==
    \A i, k \in Jobs :
        <<i, k>> \in e.line <=>
            \/ <<i, k>> \in d.line /\ i \notin DOMAIN rank /\ k \notin DOMAIN rank
            \/ i \in Lined(d) \ DOMAIN rank /\ k \in DOMAIN rank
            \/ i \in DOMAIN rank /\ k \in DOMAIN rank /\ rank[i] < rank[k]

Entry(d, rank, j, state, due) ==
    [state |-> state, score |-> PriorityScore(j, d.pc + rank[j]), due |-> due, by |-> None]

ScoredAs(d, e, rank, state, due) ==
    /\ e \in Dbs
    /\ \A j \in DOMAIN rank : e.job[j] = Entry(d, rank, j, state, due)
    /\ \A j \in Jobs \ DOMAIN rank : e.job[j] = d.job[j]
    /\ e.pc = d.pc + Cardinality(DOMAIN rank) /\ Joined(d, e, rank)
    /\ e.work = d.work /\ e.paused = d.paused /\ e.cap = d.cap
    /\ e.tokens = d.tokens /\ e.holder = d.holder

LEMMA ScoredDb ==
    ASSUME NEW d, d \in Dbs, NEW J \in SUBSET Jobs, NEW rank \in Orders(J),
           NEW state \in {"wait", "held"}, NEW due \in Nat,
           NEW e, e = Scored(d, rank, state, due)
    PROVE  ScoredAs(d, e, rank, state, due)
<1> DEFINE jb == [j \in Jobs |-> IF j \in J THEN Entry(d, rank, j, state, due) ELSE d.job[j]]
           n == d.pc + Cardinality(J)
           ln == {p \in Jobs \X Jobs :
                    \/ p \in d.line /\ p[1] \notin J /\ p[2] \notin J
                    \/ p[1] \in Lined(d) \ J /\ p[2] \in J
                    \/ p[1] \in J /\ p[2] \in J /\ rank[p[1]] < rank[p[2]]}
<1>1. /\ DOMAIN rank = J /\ Cardinality(J) \in Nat /\ \A j \in J : rank[j] \in Nat
  BY RankTypes
<1>2. d.pc \in Nat /\ d.job \in [Jobs -> JobRecs]
  BY DbFields
<1>3. e = [d EXCEPT !.pc = n, !.job = jb, !.line = ln]
  BY <1>1 DEF Scored, Entry, Lined
<1>4. \A j \in J : PriorityScore(j, d.pc + rank[j]) \in Nat
  BY <1>1, <1>2, ScoreIsNat
<1>5. jb \in [Jobs -> JobRecs]
  BY <1>2, <1>4 DEF JobRecs, Entry, Stages
<1>6. n \in Nat /\ ln \in SUBSET (Jobs \X Jobs)
  BY <1>1, <1>2
<1>7. /\ \A j \in J : jb[j] = Entry(d, rank, j, state, due)
      /\ \A j \in Jobs \ J : jb[j] = d.job[j]
  OBVIOUS
<1>8. \A i, k \in Jobs :
         <<i, k>> \in ln <=>
             \/ <<i, k>> \in d.line /\ i \notin J /\ k \notin J
             \/ i \in Lined(d) \ J /\ k \in J
             \/ i \in J /\ k \in J /\ rank[i] < rank[k]
  OBVIOUS
<1>9. n = d.pc + Cardinality(J)
  OBVIOUS
<1>. HIDE DEF jb, n, ln
<1>10. /\ e \in Dbs /\ e.job = jb /\ e.pc = n /\ e.line = ln
       /\ e.work = d.work /\ e.paused = d.paused /\ e.cap = d.cap
       /\ e.tokens = d.tokens /\ e.holder = d.holder
  BY <1>3, <1>5, <1>6 DEF Dbs, JobRecs, Stages
<1>11. Joined(d, e, rank)
  BY <1>1, <1>8, <1>10 DEF Joined
<1>. QED  BY <1>1, <1>7, <1>9, <1>10, <1>11 DEF ScoredAs

-----------------------------------------------------------------------------
(* What holds of the keys between any two scripts. *)

Base(j) == (Offset - Prio[j]) * SeqWrap

\* The jobs with a score stand in one line ...
InLine(d) ==
    /\ \A i, k \in Jobs : <<i, k>> \in d.line =>
           i \in Lined(d) /\ k \in Lined(d) /\ <<k, i>> \notin d.line
    /\ \A i, k \in Lined(d) : i # k => <<i, k>> \in d.line \/ <<k, i>> \in d.line

\* ... and until the sequence wraps, the scores agree with it among equals.
Numbered(d) ==
    d.pc < SeqWrap =>
        /\ \A i \in Lined(d) : d.job[i].score - Base(i) \in 1..d.pc
        /\ \A i, k \in Jobs : <<i, k>> \in d.line /\ Prio[i] = Prio[k] =>
               d.job[i].score < d.job[k].score

\* A run in progress, and no other, is somebody's.
Owned(d) == \A j \in Jobs : d.job[j].by # None <=> d.job[j].state = "active"

Sound(d) == d \in Dbs /\ InLine(d) /\ Numbered(d) /\ Owned(d)

Ripe(d, j) == d.job[j].state = "delayed" /\ d.job[j].due = 0

\* No job has started, and if one has come to wait, or its time has come, the
\* marker is armed.
Quiet(d, e) ==
    /\ e.paused = d.paused /\ e.cap = d.cap /\ (d.work => e.work)
    /\ \A j \in Jobs :
         /\ \/ e.job[j].by = d.job[j].by /\ (e.job[j].state = "active" <=> d.job[j].state = "active")
            \/ e.job[j].by = None /\ e.job[j].state # "active"
         /\ \/ e.work
            \/ /\ e.job[j].state = "wait" => d.job[j].state = "wait"
               /\ Ripe(e, j) => Ripe(d, j)

LEMMA QuietIsTransitive ==
    ASSUME NEW d, NEW e, NEW f, Quiet(d, e), Quiet(e, f)
    PROVE  Quiet(d, f)
BY DEF Quiet, Ripe

\* Nobody has joined the line, and nobody's time has come.
Shrinks(d, e) == e.line \subseteq d.line /\ \A j \in Jobs : Ripe(e, j) => Ripe(d, j)

LEMMA ShrinksIsTransitive ==
    ASSUME NEW d, NEW e, NEW f, Shrinks(d, e), Shrinks(e, f)
    PROVE  Shrinks(d, f)
BY DEF Shrinks

LEMMA LinedMember ==
    ASSUME NEW d, NEW j
    PROVE  j \in Lined(d) <=> j \in Jobs /\ d.job[j].state \in {"wait", "held"}
BY DEF Lined, In

LEMMA BaseIsInt ==
    ASSUME NEW j \in Jobs
    PROVE  Base(j) \in Nat
<1>1. Offset - Prio[j] \in Nat /\ SeqWrap \in Nat
  BY WakeupAssumption
<1>. QED  BY <1>1, ProductIsNat DEF Base

\* A job that waits for nobody's turn any more.
LEMMA MovedSound ==
    ASSUME NEW d, Sound(d), NEW j \in Jobs, NEW e, NEW r, Moved(d, e, j, r),
           r.state \in {"gone", "delayed"}, r.by = None
    PROVE  /\ Sound(e)
           /\ (r.state = "delayed" => r.due > 0) => Quiet(d, e) /\ Shrinks(d, e)
<1>1. \A i \in Jobs : i \in Lined(e) <=> i \in Lined(d) /\ i # j
  BY LinedMember DEF Moved
<1>2. \A i, k \in Jobs : <<i, k>> \in e.line <=> <<i, k>> \in d.line /\ i # j /\ k # j
  BY DEF Moved, Without
<1>3. Lined(e) \subseteq Jobs
  BY LinedMember
<1>4. InLine(e)
  BY <1>1, <1>2, <1>3 DEF InLine, Sound
<1>5. Numbered(e)
  BY <1>1, <1>2, <1>3 DEF Numbered, Sound, Moved
<1>6. Owned(e)
  BY DEF Owned, Sound, Moved
<1>7. Sound(e)
  BY <1>4, <1>5, <1>6 DEF Sound, Moved
<1>8. ASSUME r.state = "delayed" => r.due > 0  PROVE Quiet(d, e) /\ Shrinks(d, e)
  <2>1. r.due = 0 => r.state # "delayed"
    BY <1>8
  <2>2. e.job[j] = r
    BY DEF Moved
  <2>3. ~Ripe(e, j) /\ e.job[j].by = None /\ e.job[j].state \notin {"wait", "active"}
    BY <2>1, <2>2 DEF Ripe
  <2>4. \A i \in Jobs \ {j} : e.job[i] = d.job[i]
    BY DEF Moved
  <2>5. Quiet(d, e)
    BY <2>3, <2>4 DEF Quiet, Moved, Ripe
  <2>6. Shrinks(d, e)
    BY <2>3, <2>4 DEF Shrinks, Moved, Ripe, Without
  <2>. QED  BY <2>5, <2>6
<1>. QED  BY <1>7, <1>8

LEMMA UnwrappedScore ==
    ASSUME NEW j \in Jobs, NEW n \in Nat, n < SeqWrap
    PROVE  PriorityScore(j, n) = Base(j) + n
<1>1. n % SeqWrap = n
  BY WakeupAssumption
<1>. QED  BY <1>1 DEF PriorityScore, Base

LEMMA SameBase ==
    ASSUME NEW i, NEW j, Prio[i] = Prio[j]
    PROVE  Base(i) = Base(j)
BY DEF Base

\* Jobs that join the line stand behind it, in their order.
LEMMA ScoredSound ==
    ASSUME NEW d, Sound(d), NEW J \in SUBSET Jobs, NEW rank \in Orders(J),
           NEW state \in {"wait", "held"}, NEW due, NEW e, ScoredAs(d, e, rank, state, due)
    PROVE  Sound(e)
<1>0. /\ DOMAIN rank = J /\ Cardinality(J) \in Nat
      /\ \A j \in J : rank[j] \in 1..Cardinality(J)
      /\ \A i, j \in J : rank[i] = rank[j] => i = j
  BY RankTypes
<1>1. /\ e \in Dbs /\ d.pc \in Nat /\ e.pc = d.pc + Cardinality(J)
      /\ d.job \in [Jobs -> JobRecs]
  BY <1>0, DbFields DEF Sound, ScoredAs
<1>2. /\ \A j \in J : /\ e.job[j].state = state /\ e.job[j].by = None
                      /\ e.job[j].score = PriorityScore(j, d.pc + rank[j])
      /\ \A j \in Jobs \ J : e.job[j] = d.job[j]
  <2>1. /\ \A j \in J : e.job[j] = Entry(d, rank, j, state, due)
        /\ \A j \in Jobs \ J : e.job[j] = d.job[j]
    BY <1>0 DEF ScoredAs
  <2>2. \A j \in J : /\ Entry(d, rank, j, state, due).state = state
                    /\ Entry(d, rank, j, state, due).by = None
                    /\ Entry(d, rank, j, state, due).score = PriorityScore(j, d.pc + rank[j])
    BY DEF Entry
  <2>. QED  BY <2>1, <2>2
<1>3. \A i \in Jobs : i \in Lined(e) <=> i \in J \/ i \in Lined(d)
  BY <1>2, LinedMember
<1>4. Lined(e) \subseteq Jobs /\ Lined(d) \subseteq Jobs
  BY LinedMember
<1>5. \A i, k \in Jobs :
         <<i, k>> \in e.line <=>
             \/ <<i, k>> \in d.line /\ i \notin J /\ k \notin J
             \/ i \in Lined(d) \ J /\ k \in J
             \/ i \in J /\ k \in J /\ rank[i] < rank[k]
  BY <1>0 DEF ScoredAs, Joined
<1>6. InLine(d) /\ Numbered(d)
  BY DEF Sound
<1>7. InLine(e)
  <2>1. ASSUME NEW i \in Jobs, NEW k \in Jobs, <<i, k>> \in e.line
        PROVE  i \in Lined(e) /\ k \in Lined(e) /\ <<k, i>> \notin e.line
    <3>1. i \in Lined(e) /\ k \in Lined(e)
      BY <1>3, <1>5, <1>6, <2>1 DEF InLine
    <3>2. ~(i \in J /\ k \in J /\ rank[i] < rank[k] /\ rank[k] < rank[i])
      BY <1>0
    <3>3. <<k, i>> \notin e.line
      BY <1>5, <1>6, <2>1, <3>2 DEF InLine
    <3>. QED  BY <3>1, <3>3
  <2>2. ASSUME NEW i \in Lined(e), NEW k \in Lined(e), i # k
        PROVE  <<i, k>> \in e.line \/ <<k, i>> \in e.line
    <3>1. i \in J /\ k \in J => rank[i] < rank[k] \/ rank[k] < rank[i]
      BY <1>0, <2>2
    <3>. QED  BY <1>3, <1>4, <1>5, <1>6, <2>2, <3>1 DEF InLine
  <2>. QED  BY <2>1, <2>2 DEF InLine
<1>8. ASSUME e.pc < SeqWrap
      PROVE  /\ \A i \in J : e.job[i].score = Base(i) + (d.pc + rank[i])
             /\ d.pc < SeqWrap
  <2>1. d.pc <= e.pc /\ \A i \in J : d.pc + rank[i] \in Nat /\ d.pc + rank[i] <= e.pc
    BY <1>0, <1>1
  <2>2. SeqWrap \in Nat
    BY WakeupAssumption
  <2>3. d.pc < SeqWrap /\ \A i \in J : d.pc + rank[i] < SeqWrap
    <3>1. e.pc \in Nat
      BY <1>0, <1>1
    <3>2. \A m \in Nat : m <= e.pc => m < SeqWrap
      BY <1>8, <2>2, <3>1
    <3>. QED  BY <1>1, <2>1, <3>2
  <2>. QED  BY <1>2, <2>1, <2>3, UnwrappedScore
<1>9. Numbered(e)
  <2>. SUFFICES ASSUME e.pc < SeqWrap
                PROVE  /\ \A i \in Lined(e) : e.job[i].score - Base(i) \in 1..e.pc
                       /\ \A i, k \in Jobs : <<i, k>> \in e.line /\ Prio[i] = Prio[k] =>
                              e.job[i].score < e.job[k].score
    BY DEF Numbered
  <2>1. \A i \in Lined(d) : d.job[i].score - Base(i) \in 1..d.pc
    BY <1>6, <1>8 DEF Numbered
  <2>2. \A i, k \in Jobs : <<i, k>> \in d.line /\ Prio[i] = Prio[k] => d.job[i].score < d.job[k].score
    BY <1>6, <1>8 DEF Numbered
  <2>3. \A i \in Jobs : Base(i) \in Nat /\ d.job[i].score \in Nat
    BY <1>1, BaseIsInt DEF JobRecs
  <2>4. ASSUME NEW i \in Lined(e)
        PROVE  e.job[i].score - Base(i) \in 1..e.pc
    <3>1. CASE i \in J
      BY <1>0, <1>1, <1>8, <2>3, <3>1
    <3>2. CASE i \notin J
      <4>1. i \in Lined(d) /\ e.job[i] = d.job[i]
        BY <1>2, <1>3, <1>4, <3>2
      <4>. QED  BY <1>0, <1>1, <2>1, <4>1
    <3>. QED  BY <3>1, <3>2
  <2>5. ASSUME NEW i \in Jobs, NEW k \in Jobs, <<i, k>> \in e.line, Prio[i] = Prio[k]
        PROVE  e.job[i].score < e.job[k].score
    <3>1. Base(i) = Base(k)
      BY <2>5, SameBase
    <3>2. CASE i \in J /\ k \in J
      <4>1. rank[i] < rank[k]
        BY <1>5, <2>5, <3>2
      <4>. QED  BY <1>0, <1>1, <1>8, <2>3, <3>1, <3>2, <4>1
    <3>3. CASE i \in Lined(d) \ J /\ k \in J
      <4>1. d.job[i].score - Base(i) \in 1..d.pc /\ e.job[i] = d.job[i]
        BY <1>2, <2>1, <3>3
      <4>2. e.job[k].score = Base(k) + (d.pc + rank[k]) /\ rank[k] >= 1 /\ rank[k] \in Nat
        BY <1>0, <1>8, <3>3
      <4>. QED  BY <1>1, <2>3, <3>1, <4>1, <4>2
    <3>4. CASE i \notin J /\ k \notin J
      BY <1>2, <1>5, <2>2, <2>5, <3>4
    <3>. QED  BY <1>5, <2>5, <3>2, <3>3, <3>4
  <2>. QED  BY <2>4, <2>5
<1>10. Owned(e)
  <2>1. \A j \in Jobs : d.job[j].by # None <=> d.job[j].state = "active"
    BY DEF Sound, Owned
  <2>. QED  BY <1>2, <2>1 DEF Owned
<1>. QED  BY <1>1, <1>7, <1>9, <1>10 DEF Sound

\* The jobs are untouched.
SameJobs(d, e) == e.job = d.job /\ e.line = d.line /\ e.pc = d.pc

SameGates(d, e) == e.paused = d.paused /\ e.cap = d.cap /\ (d.work => e.work)

LEMMA SameJobsSound ==
    ASSUME NEW d, Sound(d), NEW e, e \in Dbs, SameJobs(d, e)
    PROVE  Sound(e) /\ (SameGates(d, e) => Quiet(d, e))
<1>1. Lined(e) = Lined(d)
  BY DEF Lined, In, SameJobs
<1>2. InLine(e) /\ Numbered(e) /\ Owned(e)
  BY <1>1 DEF Sound, InLine, Numbered, Owned, SameJobs
<1>3. SameGates(d, e) => Quiet(d, e)
  BY DEF SameJobs, SameGates, Quiet, Ripe
<1>. QED  BY <1>2, <1>3 DEF Sound

\* Arming the marker, or not.
LEMMA ArmedDb ==
    ASSUME NEW d, d \in Dbs, NEW b \in BOOLEAN, NEW e, e = [d EXCEPT !.work = @ \/ b]
    PROVE  /\ e \in Dbs /\ SameJobs(d, e) /\ SameGates(d, e) /\ (b => e.work)
           /\ e.tokens = d.tokens /\ e.holder = d.holder
<1>1. e.work = (d.work \/ b) /\ (d.work \/ b) \in BOOLEAN
  BY DbFields DEF Dbs
<1>. QED  BY <1>1 DEF Dbs, SameJobs, SameGates

LEMMA ArmedSound ==
    ASSUME NEW d, Sound(d), NEW b \in BOOLEAN, NEW e, e = [d EXCEPT !.work = @ \/ b]
    PROVE  Sound(e) /\ Quiet(d, e) /\ e.job = d.job /\ (b => e.work)
<1>1. d \in Dbs
  BY DEF Sound
<1>2. e \in Dbs /\ SameJobs(d, e) /\ SameGates(d, e) /\ (b => e.work)
  BY <1>1, ArmedDb
<1>. QED  BY <1>2, SameJobsSound DEF SameJobs

LEMMA RaisedSound ==
    ASSUME NEW d, Sound(d), NEW e, e = [d EXCEPT !.work = TRUE]
    PROVE  Sound(e) /\ Quiet(d, e) /\ e.job = d.job /\ e.work
<1>1. d \in Dbs
  BY DEF Sound
<1>2. e \in Dbs /\ SameJobs(d, e) /\ SameGates(d, e) /\ e.work
  BY <1>1 DEF Dbs, SameJobs, SameGates
<1>. QED  BY <1>2, SameJobsSound DEF SameJobs

\* The jobs of `rank` wait, and nothing else is new.
Queued(d, e, J) ==
    /\ \A j \in J : e.job[j].state = "wait" /\ e.job[j].by = None
    /\ \A j \in Jobs \ J : e.job[j] = d.job[j]

LEMMA EnqueueAllSound ==
    ASSUME NEW d, Sound(d), NEW J \in SUBSET Jobs, NEW rank \in Orders(J),
           NEW e, e = EnqueueAll(d, rank)
    PROVE  Sound(e) /\ Quiet(d, e) /\ Queued(d, e, J) /\ (J # {} => e.work)
<1>1. PICK u : u = Scored(d, rank, "wait", 0)
  OBVIOUS
<1>2. ScoredAs(d, u, rank, "wait", 0) /\ DOMAIN rank = J
  BY <1>1, ScoredDb, RankTypes DEF Sound
<1>3. Sound(u)
  BY <1>2, ScoredSound
<1>4. e = [u EXCEPT !.work = @ \/ J # {}]
  BY <1>1, <1>2 DEF EnqueueAll
<1> DEFINE b == J # {}
<1>5. b \in BOOLEAN
  OBVIOUS
<1>6. e = [u EXCEPT !.work = @ \/ b]
  BY <1>4
<1>. HIDE DEF b
<1>7. Sound(e) /\ Quiet(u, e) /\ e.job = u.job /\ (b => e.work)
  BY <1>3, <1>5, <1>6, ArmedSound
<1>8. /\ \A j \in J : u.job[j] = Entry(d, rank, j, "wait", 0)
      /\ \A j \in Jobs \ J : u.job[j] = d.job[j]
      /\ u.paused = d.paused /\ u.cap = d.cap /\ u.work = d.work
  BY <1>2 DEF ScoredAs
<1>9. \A j \in J : /\ Entry(d, rank, j, "wait", 0).state = "wait"
                  /\ Entry(d, rank, j, "wait", 0).by = None
  BY DEF Entry
<1>10. Queued(d, e, J)
  BY <1>7, <1>8, <1>9 DEF Queued
<1>11. J # {} => e.work
  BY <1>7 DEF b
<1>12. e.paused = d.paused /\ e.cap = d.cap /\ (d.work => e.work)
  BY <1>7, <1>8 DEF Quiet
<1>13. Quiet(d, e)
  BY <1>10, <1>11, <1>12 DEF Queued, Quiet, Ripe
<1>. QED  BY <1>7, <1>10, <1>11, <1>13

LEMMA EnqueueSound ==
    ASSUME NEW d, Sound(d), NEW j \in Jobs, NEW e, e = Enqueue(d, j)
    PROVE  Sound(e) /\ Quiet(d, e) /\ e.job[j].state = "wait" /\ e.job[j].by = None
           /\ \A i \in Jobs \ {j} : e.job[i] = d.job[i]
<1>1. {j} \in SUBSET Jobs /\ Alone(j) \in Orders({j}) /\ e = EnqueueAll(d, Alone(j))
  BY AloneIsAnOrder DEF Enqueue
<1>2. Sound(e) /\ Quiet(d, e) /\ Queued(d, e, {j})
  BY <1>1, EnqueueAllSound
<1>. QED  BY <1>2 DEF Queued

\* Job j is somewhere else, with no worker; the other jobs are where they were.
Settled(d, e, j) ==
    /\ e.job[j].by = None /\ e.job[j].state # "active"
    /\ \A i \in Jobs \ {j} : e.job[i] = d.job[i]

LEMMA LeftGone ==
    ASSUME NEW d, Sound(d), NEW j \in Jobs, NEW e, e = Left(d, j, "gone")
    PROVE  Sound(e) /\ Quiet(d, e) /\ Settled(d, e, j) /\ Shrinks(d, e)
<1>1. Moved(d, e, j, Blank("gone"))
  BY LeftDb DEF Sound, Stages
<1>2. Blank("gone").state = "gone" /\ Blank("gone").by = None
  BY DEF Blank
<1>3. Sound(e) /\ Quiet(d, e) /\ Shrinks(d, e)
  BY <1>1, <1>2, MovedSound
<1>. QED  BY <1>1, <1>2, <1>3 DEF Moved, Settled

LEMMA DelayedSound ==
    ASSUME NEW d, Sound(d), NEW j \in Jobs, NEW due \in Nat, due > 0, NEW e, e = Delayed(d, j, due)
    PROVE  Sound(e) /\ Quiet(d, e) /\ Settled(d, e, j) /\ Shrinks(d, e)
<1>1. Moved(d, e, j, Parked(due))
  BY DelayedDb DEF Sound
<1>2. Parked(due).state = "delayed" /\ Parked(due).by = None /\ Parked(due).due = due
  BY DEF Parked
<1>3. Sound(e) /\ Quiet(d, e) /\ Shrinks(d, e)
  BY <1>1, <1>2, MovedSound
<1>. QED  BY <1>1, <1>2, <1>3 DEF Moved, Settled

LEMMA ParkSound ==
    ASSUME NEW d, Sound(d), NEW j \in Jobs, NEW delay \in Nat, NEW e, e = Park(d, j, delay)
    PROVE  Sound(e) /\ Quiet(d, e) /\ Settled(d, e, j)
<1>1. CASE delay > 0
  BY <1>1, DelayedSound DEF Park
<1>2. CASE ~(delay > 0)
  <2>1. e = Enqueue(d, j)
    BY <1>2 DEF Park
  <2>. QED  BY <2>1, EnqueueSound DEF Settled
<1>. QED  BY <1>1, <1>2

LEMMA HolderSound ==
    ASSUME NEW d, Sound(d), NEW k \in Keys, NEW h \in Jobs \cup {None},
           NEW e, e = [d EXCEPT !.holder[k] = h]
    PROVE  Sound(e) /\ Quiet(d, e) /\ e.job = d.job /\ Shrinks(d, e)
<1> DEFINE hs == [d.holder EXCEPT ![k] = h]
<1>1. d \in Dbs /\ d.holder \in [Keys -> Jobs \cup {None}]
  BY DbFields DEF Sound
<1>2. e = [d EXCEPT !.holder = hs]
  OBVIOUS
<1>3. hs \in [Keys -> Jobs \cup {None}]
  BY <1>1
<1>. HIDE DEF hs
<1>4. e \in Dbs /\ SameJobs(d, e) /\ SameGates(d, e)
  BY <1>1, <1>2, <1>3 DEF Dbs, SameJobs, SameGates
<1>5. Shrinks(d, e)
  BY <1>4 DEF SameJobs, Shrinks, Ripe
<1>. QED  BY <1>4, <1>5, SameJobsSound DEF SameJobs

LEMMA AddJobSound ==
    ASSUME NEW d, Sound(d), NEW j \in Jobs, NEW delay \in Nat, NEW e, e = AddJob(d, j, delay)
    PROVE  Sound(e) /\ Quiet(d, e) /\ Settled(d, e, j)
<1>1. CASE Key[j] = None
  BY <1>1, ParkSound DEF AddJob
<1>2. CASE Key[j] # None /\ d.holder[Key[j]] = None
  <2>1. Key[j] \in Keys
    BY <1>2 DEF Keys
  <2>2. PICK u : u = [d EXCEPT !.holder[Key[j]] = j]
    OBVIOUS
  <2>3. Sound(u) /\ Quiet(d, u) /\ u.job = d.job
    BY <2>1, <2>2, HolderSound
  <2>4. e = Park(u, j, delay)
    BY <1>2, <2>2 DEF AddJob
  <2>5. Sound(e) /\ Quiet(u, e) /\ Settled(u, e, j)
    BY <2>3, <2>4, ParkSound
  <2>. QED  BY <2>3, <2>5, QuietIsTransitive DEF Settled
<1>3. CASE Key[j] # None /\ d.holder[Key[j]] # None
  <2>1. e = Scored(d, Alone(j), "held", delay)
    BY <1>3 DEF AddJob
  <2>2. {j} \in SUBSET Jobs /\ Alone(j) \in Orders({j}) /\ DOMAIN Alone(j) = {j}
    BY AloneIsAnOrder
  <2>3. ScoredAs(d, e, Alone(j), "held", delay)
    BY <2>1, <2>2, ScoredDb DEF Sound
  <2>4. Sound(e)
    BY <2>2, <2>3, ScoredSound
  <2>5. /\ e.job[j] = Entry(d, Alone(j), j, "held", delay)
        /\ \A i \in Jobs \ {j} : e.job[i] = d.job[i]
        /\ e.paused = d.paused /\ e.cap = d.cap /\ e.work = d.work
    BY <2>2, <2>3 DEF ScoredAs
  <2>6. e.job[j].state = "held" /\ e.job[j].by = None
    BY <2>5 DEF Entry
  <2>. QED  BY <2>4, <2>5, <2>6 DEF Quiet, Ripe, Settled
<1>. QED  BY <1>1, <1>2, <1>3

\* Some job of a set that is not empty has the lowest score.
LEMMA FirstIsLowest ==
    ASSUME NEW d, d \in Dbs, NEW J \in SUBSET Jobs, J # {}
    PROVE  First(d, J) \in J /\ \A i \in J : d.job[First(d, J)].score <= d.job[i].score
<1> DEFINE T == {d.job[i].score : i \in J}
<1>1. T \in SUBSET Nat /\ T # {}
  BY DbFields DEF JobRecs
<1>2. PICK m \in T : \A n \in T : m <= n
  <2>. HIDE DEF T
  <2>. QED  BY <1>1, LeastNat
<1>3. PICK j \in J : m = d.job[j].score
  BY <1>2
<1>4. \A i \in J : d.job[j].score <= d.job[i].score
  BY <1>2, <1>3
<1>. QED  BY <1>4 DEF First

\* A held job that is handed its key keeps its score and its place in the line.
LEMMA HeirSound ==
    ASSUME NEW d, Sound(d), NEW k \in Keys, NEW heir \in Jobs, d.job[heir].state = "held",
           NEW e, e = [d EXCEPT !.holder[k] = heir, !.job[heir].state = "wait", !.work = TRUE]
    PROVE  Sound(e) /\ Quiet(d, e) /\ Shrinks(d, e)
<1> DEFINE hs == [d.holder EXCEPT ![k] = heir]
           jb == [d.job EXCEPT ![heir].state = "wait"]
<1>1. d \in Dbs /\ d.holder \in [Keys -> Jobs \cup {None}] /\ d.job \in [Jobs -> JobRecs]
  BY DbFields DEF Sound
<1>2. e = [d EXCEPT !.holder = hs, !.job = jb, !.work = TRUE]
  OBVIOUS
<1>3. hs \in [Keys -> Jobs \cup {None}] /\ jb \in [Jobs -> JobRecs]
  BY <1>1 DEF JobRecs, Stages
<1>4. /\ jb[heir].state = "wait" /\ jb[heir].score = d.job[heir].score
      /\ jb[heir].by = d.job[heir].by
      /\ \A i \in Jobs \ {heir} : jb[i] = d.job[i]
  BY <1>1 DEF JobRecs
<1>. HIDE DEF hs, jb
<1>5. /\ e \in Dbs /\ e.job = jb /\ e.line = d.line /\ e.pc = d.pc /\ e.work = TRUE
      /\ e.paused = d.paused /\ e.cap = d.cap
  BY <1>1, <1>2, <1>3 DEF Dbs, JobRecs, Stages
<1>6. Lined(e) = Lined(d) /\ Lined(d) \subseteq Jobs
  BY <1>4, <1>5 DEF Lined, In
<1>7. \A i \in Jobs : e.job[i].score = d.job[i].score
  BY <1>4, <1>5
<1>8. InLine(e) /\ Numbered(e)
  BY <1>5, <1>6, <1>7 DEF Sound, InLine, Numbered
<1>9. d.job[heir].by = None
  BY DEF Sound, Owned
<1>10. Owned(e)
  BY <1>4, <1>5, <1>9 DEF Sound, Owned
<1>11. Quiet(d, e)
  BY <1>4, <1>5, <1>9 DEF Quiet
<1>12. Shrinks(d, e)
  BY <1>4, <1>5 DEF Shrinks, Ripe
<1>. QED  BY <1>5, <1>8, <1>10, <1>11, <1>12 DEF Sound

LEMMA ReleaseKeySound ==
    ASSUME NEW d, Sound(d), NEW j \in Jobs, NEW e, e = ReleaseKey(d, j)
    PROVE  Sound(e) /\ Quiet(d, e) /\ Shrinks(d, e)
<1> DEFINE k == Key[j]
           heirs == {i \in In(d, "held") : Key[i] = k}
           heir == First(d, heirs)
<1>1. CASE k = None \/ d.holder[k] # j
  BY <1>1 DEF ReleaseKey, Quiet, Shrinks
<1>2. CASE ~(k = None \/ d.holder[k] # j) /\ heirs = {}
  <2>1. e = [d EXCEPT !.holder[k] = None] /\ k \in Keys
    BY <1>2 DEF ReleaseKey, Keys
  <2>. HIDE DEF k
  <2>. QED  BY <2>1, HolderSound
<1>3. CASE ~(k = None \/ d.holder[k] # j) /\ heirs # {}
  <2>1. heirs \in SUBSET Jobs /\ k \in Keys /\ d \in Dbs
    BY <1>3 DEF In, Keys, Sound
  <2>2. heir \in heirs
    <3>. HIDE DEF heirs
    <3>. QED  BY <1>3, <2>1, FirstIsLowest
  <2>3. heir \in Jobs /\ d.job[heir].state = "held" /\ d.job[heir].due \in Nat
    BY <2>1, <2>2, DbFields DEF In, JobRecs
  <2>4. e = IF d.job[heir].due > 0
            THEN Delayed([d EXCEPT !.holder[k] = heir], heir, d.job[heir].due)
            ELSE [d EXCEPT !.holder[k] = heir, !.job[heir].state = "wait", !.work = TRUE]
    BY <1>3 DEF ReleaseKey
  <2>. HIDE DEF heir, heirs, k
  <2>5. CASE d.job[heir].due > 0
    <3>1. PICK u : u = [d EXCEPT !.holder[k] = heir]
      OBVIOUS
    <3>2. Sound(u) /\ Quiet(d, u) /\ Shrinks(d, u)
      BY <2>1, <2>3, <3>1, HolderSound
    <3>3. e = Delayed(u, heir, d.job[heir].due)
      BY <2>4, <2>5, <3>1
    <3>4. Sound(e) /\ Quiet(u, e) /\ Shrinks(u, e)
      BY <2>3, <2>5, <3>2, <3>3, DelayedSound
    <3>. QED  BY <3>2, <3>4, QuietIsTransitive, ShrinksIsTransitive
  <2>6. CASE ~(d.job[heir].due > 0)
    BY <2>1, <2>3, <2>4, <2>6, HeirSound
  <2>. QED  BY <2>5, <2>6
<1>. QED  BY <1>1, <1>2, <1>3

LEMMA SettleSound ==
    ASSUME NEW d, Sound(d), NEW j \in Jobs, NEW e, e = Settle(d, j)
    PROVE  Sound(e) /\ Quiet(d, e) /\ Shrinks(d, e) /\ e.job[j].by = None
<1>1. PICK u : u = Left(d, j, "gone")
  OBVIOUS
<1>2. Sound(u) /\ Quiet(d, u) /\ Shrinks(d, u) /\ Settled(d, u, j)
  BY <1>1, LeftGone
<1>3. e = ReleaseKey(u, j)
  BY <1>1 DEF Settle
<1>4. Sound(e) /\ Quiet(u, e) /\ Shrinks(u, e)
  BY <1>2, <1>3, ReleaseKeySound
<1>5. e.job[j].by = None
  BY <1>2, <1>4 DEF Quiet, Settled
<1>. QED  BY <1>2, <1>4, <1>5, QuietIsTransitive, ShrinksIsTransitive

LEMMA WakeIfWaitingSound ==
    ASSUME NEW d, Sound(d), NEW e, e = WakeIfWaiting(d)
    PROVE  Sound(e) /\ Quiet(d, e) /\ e.job = d.job /\ (In(d, "wait") # {} => e.work)
<1> DEFINE b == In(d, "wait") # {}
<1>1. b \in BOOLEAN /\ e = [d EXCEPT !.work = @ \/ b]
  BY DEF WakeIfWaiting
<1>. HIDE DEF b
<1>2. Sound(e) /\ Quiet(d, e) /\ e.job = d.job /\ (b => e.work)
  BY <1>1, ArmedSound
<1>. QED  BY <1>2 DEF b

-----------------------------------------------------------------------------
(* Claims. *)

\* No due job is left, or two jobs at least wait for a worker.
Thorough(e) ==
    \/ \A j \in Jobs : ~Ripe(e, j)
    \/ \E i, k \in Jobs : i # k /\ e.job[i].state = "wait" /\ e.job[k].state = "wait"

\* Nobody has come to stand before a job that was in the line.
NonePasses(d, e) == \A j \in Jobs, k \in Lined(d) : <<j, k>> \in e.line => <<j, k>> \in d.line

OnlyRipeWait(d, e) ==
    \A j \in Jobs :
        \/ e.job[j] = d.job[j]
        \/ Ripe(d, j) /\ e.job[j].state = "wait" /\ e.job[j].by = None

\* Due jobs have joined the line.
Promoted(d, e) ==
    /\ Sound(e) /\ e.paused = d.paused /\ e.cap = d.cap /\ e.work = d.work /\ e.tokens = d.tokens
    /\ OnlyRipeWait(d, e) /\ Thorough(e) /\ d.pc <= e.pc /\ NonePasses(d, e)

LEMMA PromotionsAreThorough ==
    ASSUME NEW d, NEW due \in Promotions(d)
    PROVE  \E J \in SUBSET Due(d) : due \in Orders(J) /\ (J = Due(d) \/ Cardinality(J) >= 2)
<1> DEFINE n == Cardinality(Due(d))
<1>1. PICK J \in SUBSET Due(d) : due \in Orders(J) /\ Cardinality(J) = IF n < Batch THEN n ELSE Batch
  BY DEF Promotions
<1>2. IsFiniteSet(Due(d))
  BY FS_Subset, WakeupAssumption DEF Due, In
<1>3. n \in Nat
  BY <1>2, FS_CardinalityType
<1>4. CASE n < Batch
  <2>1. J = Due(d)
    BY <1>1, <1>2, <1>4, FS_Subset
  <2>. QED  BY <1>1, <2>1
<1>5. CASE ~(n < Batch)
  <2>1. Batch >= 2
    BY WakeupAssumption
  <2>. QED  BY <1>1, <1>5, <2>1
<1>. QED  BY <1>4, <1>5

LEMMA TwoMembers ==
    ASSUME NEW J, IsFiniteSet(J), Cardinality(J) >= 2
    PROVE  \E i, k \in J : i # k
<1>1. J # {}
  BY FS_EmptySet
<1>2. PICK i \in J : TRUE
  BY <1>1
<1>3. J # {i}
  BY FS_Singleton
<1>. QED  BY <1>2, <1>3

LEMMA PromoteDuePromotes ==
    ASSUME NEW d, Sound(d), NEW due \in Promotions(d), NEW e, e = PromoteDue(d, due)
    PROVE  Promoted(d, e)
<1>1. PICK J \in SUBSET Due(d) : due \in Orders(J) /\ (J = Due(d) \/ Cardinality(J) >= 2)
  BY PromotionsAreThorough
<1>2. J \in SUBSET Jobs /\ \A j \in J : Ripe(d, j)
  BY DEF Due, In, Ripe
<1>3. DOMAIN due = J /\ IsFiniteSet(J) /\ Cardinality(J) \in Nat
  BY <1>1, <1>2, RankTypes
<1>4. ScoredAs(d, e, due, "wait", 0)
  BY <1>1, <1>2, ScoredDb DEF PromoteDue, Sound
<1>5. Sound(e)
  BY <1>1, <1>2, <1>4, ScoredSound
<1>6. /\ \A j \in J : e.job[j] = Entry(d, due, j, "wait", 0)
      /\ \A j \in Jobs \ J : e.job[j] = d.job[j]
      /\ e.paused = d.paused /\ e.cap = d.cap /\ e.work = d.work /\ e.tokens = d.tokens
      /\ e.pc = d.pc + Cardinality(J) /\ Joined(d, e, due)
  BY <1>3, <1>4 DEF ScoredAs
<1>7. \A j \in J : e.job[j].state = "wait" /\ e.job[j].by = None
  <2>1. \A j \in J : /\ Entry(d, due, j, "wait", 0).state = "wait"
                    /\ Entry(d, due, j, "wait", 0).by = None
    BY DEF Entry
  <2>. QED  BY <1>6, <2>1
<1>8. Thorough(e)
  <2>1. CASE J = Due(d)
    BY <1>6, <1>7, <2>1 DEF Ripe, Due, In, Thorough
  <2>2. CASE Cardinality(J) >= 2
    BY <1>2, <1>3, <1>7, <2>2, TwoMembers DEF Thorough
  <2>. QED  BY <1>1, <2>1, <2>2
<1>9. d.pc <= e.pc
  BY <1>3, <1>6, DbFields DEF Sound
<1>10. NonePasses(d, e)
  <2>1. \A k \in Lined(d) : k \in Jobs /\ k \notin J
    BY <1>2, LinedMember DEF Ripe
  <2>. QED  BY <1>3, <1>6, <2>1 DEF Joined, NonePasses
<1>11. OnlyRipeWait(d, e)
  BY <1>2, <1>6, <1>7 DEF OnlyRipeWait
<1>. QED  BY <1>5, <1>6, <1>8, <1>9, <1>10, <1>11 DEF Promoted

\* The run of slot s.
RunOf(s) == [state |-> "active", score |-> 0, due |-> 0, by |-> s]

ClaimedAs(d, e, j, s) ==
    /\ Sound(e) /\ e.job[j] = RunOf(s) /\ \A i \in Jobs \ {j} : e.job[i] = d.job[i]
    /\ e.paused = d.paused /\ e.cap = d.cap /\ (d.work => e.work)
    /\ In(e, "wait") # {} /\ ~Capped(e) => e.work
    /\ e.pc = d.pc

LEMMA ClaimedSound ==
    ASSUME NEW d, Sound(d), NEW j \in Jobs, NEW s \in Slots, ~Limited(d), NEW e, e = Claimed(d, j, s)
    PROVE  ClaimedAs(d, e, j, s)
<1>1. PICK u : u = Left(d, j, "active")
  OBVIOUS
<1>2. Moved(d, u, j, Blank("active"))
  BY <1>1, LeftDb DEF Sound, Stages
<1>3. /\ u \in Dbs /\ u.job \in [Jobs -> JobRecs] /\ u.tokens = d.tokens /\ u.job[j] = Blank("active")
      /\ \A i \in Jobs \ {j} : u.job[i] = d.job[i]
  BY <1>2, DbFields DEF Moved
<1> DEFINE jb == [u.job EXCEPT ![j].by = s]
           tk == IF RlMax > 0 THEN u.tokens - RlDuration ELSE u.tokens
           v == [u EXCEPT !.job[j].by = s,
                          !.tokens = IF RlMax > 0 THEN @ - RlDuration ELSE @]
           b == In(v, "wait") # {} /\ ~Capped(v)
<1>4. e = [v EXCEPT !.work = @ \/ b] /\ b \in BOOLEAN
  BY <1>1 DEF Claimed
<1>5. v = [u EXCEPT !.job = jb, !.tokens = tk]
  OBVIOUS
<1>6. tk \in 0..Full
  <2>1. u.tokens \in 0..Full /\ Full \in Nat /\ RlDuration \in Nat /\ RlMax \in Nat
    BY <1>3, DbFields, FullIsNat, WakeupAssumption
  <2>2. RlMax > 0 => ~(u.tokens < RlDuration)
    BY <1>3 DEF Limited
  <2>. QED  BY <2>1, <2>2
<1>7. jb \in [Jobs -> JobRecs] /\ jb[j] = RunOf(s) /\ \A i \in Jobs \ {j} : jb[i] = d.job[i]
  BY <1>3 DEF JobRecs, Stages, Blank, RunOf
<1>. HIDE DEF jb, tk, v, b
<1>8. /\ v \in Dbs /\ v.job = jb /\ v.line = u.line /\ v.pc = u.pc /\ v.work = u.work
      /\ v.paused = u.paused /\ v.cap = u.cap
  BY <1>3, <1>5, <1>6, <1>7 DEF Dbs, JobRecs, Stages, Full
<1>9. e \in Dbs /\ SameJobs(v, e) /\ SameGates(v, e) /\ (b => e.work)
  BY <1>4, <1>8, ArmedDb
<1>10. /\ e.job[j] = RunOf(s) /\ \A i \in Jobs \ {j} : e.job[i] = d.job[i]
       /\ e.paused = d.paused /\ e.cap = d.cap /\ (d.work => e.work) /\ e.pc = d.pc
       /\ e.line = Without(d.line, j)
  BY <1>2, <1>7, <1>8, <1>9 DEF SameJobs, SameGates, Moved
<1>11. In(e, "wait") # {} /\ ~Capped(e) => e.work
  BY <1>9 DEF b, SameJobs, SameGates, In, Capped
<1>12. RunOf(s).state = "active" /\ RunOf(s).by = s /\ s # None
  BY NoneIsNew DEF RunOf
<1>13. \A i \in Jobs : i \in Lined(e) <=> i \in Lined(d) /\ i # j
  BY <1>10, <1>12, LinedMember
<1>14. \A i, k \in Jobs : <<i, k>> \in e.line <=> <<i, k>> \in d.line /\ i # j /\ k # j
  BY <1>10 DEF Without
<1>15. Lined(e) \subseteq Jobs
  BY LinedMember
<1>16. InLine(e)
  BY <1>13, <1>14, <1>15 DEF InLine, Sound
<1>17. Numbered(e)
  BY <1>10, <1>13, <1>14, <1>15 DEF Numbered, Sound
<1>18. Owned(e)
  BY <1>10, <1>12 DEF Owned, Sound
<1>. QED  BY <1>9, <1>10, <1>11, <1>16, <1>17, <1>18 DEF ClaimedAs, Sound

\* A quotient of naturals is one.
LEMMA QuotientIsNat ==
    ASSUME NEW m \in Nat, NEW n \in Nat, n > 0
    PROVE  m \div n \in Nat
OBVIOUS

LEMMA RetryAfterIsNat ==
    ASSUME NEW d, d \in Dbs, Limited(d)
    PROVE  RetryAfter(d) \in Nat
<1>1. d.tokens \in Nat /\ RlDuration \in Nat /\ RlMax \in Nat /\ RlMax > 0 /\ d.tokens < RlDuration
  BY DbFields, FullIsNat, WakeupAssumption DEF Limited
<1>2. RlDuration - d.tokens + RlMax - 1 \in Nat
  BY <1>1
<1>. QED  BY <1>1, <1>2, QuotientIsNat DEF RetryAfter

\* What a claim answers, and leaves behind.
NoneFound(d, a) ==
    /\ a.kind \in {"none", "due"} /\ a.job = None
    /\ Sound(a.db) /\ a.db.job = d.job /\ SameGates(d, a.db)
    /\ d.paused \/ Capped(d) \/ In(d, "wait") = {}

LimitFound(d, a) == a.kind = "limited" /\ a.job = None /\ a.db = d

JobFound(d, a, s) ==
    /\ a.kind = "job" /\ a.job \in In(d, "wait") /\ ~Capped(d)
    /\ \A i \in In(d, "wait") : d.job[a.job].score <= d.job[i].score
    /\ ClaimedAs(d, a.db, a.job, s)

Answers(d, a, s) == a.ms \in Nat /\ (NoneFound(d, a) \/ LimitFound(d, a) \/ JobFound(d, a, s))

LEMMA ResetSound ==
    ASSUME NEW d, Sound(d), In(d, "wait") = {}, NEW e, e = ResetSequence(d)
    PROVE  Sound(e) /\ e.job = d.job /\ SameGates(d, e)
<1>1. CASE In(d, "held") # {}
  BY <1>1 DEF ResetSequence, SameGates
<1>2. CASE In(d, "held") = {}
  <2>1. e = [d EXCEPT !.pc = 0] /\ d \in Dbs
    BY <1>2 DEF ResetSequence, Sound
  <2>2. e \in Dbs /\ e.job = d.job /\ e.line = d.line /\ SameGates(d, e)
    BY <2>1 DEF Dbs, SameGates
  <2>3. Lined(e) = {} /\ Lined(d) = {}
    BY <1>2, <2>2 DEF Lined, In
  <2>4. InLine(e) /\ Numbered(e) /\ Owned(e)
    BY <2>2, <2>3 DEF Sound, InLine, Numbered, Owned
  <2>. QED  BY <2>2, <2>4 DEF Sound
<1>. QED  BY <1>1, <1>2

LEMMA EarliestDue ==
    ASSUME NEW d, d \in Dbs, In(d, "delayed") # {}
    PROVE  (CHOOSE t \in {d.job[j].due : j \in In(d, "delayed")} :
                \A j \in In(d, "delayed") : t <= d.job[j].due) \in Nat
<1> DEFINE T == {d.job[j].due : j \in In(d, "delayed")}
<1>1. T \in SUBSET Nat /\ T # {}
  <2>1. \A j \in In(d, "delayed") : d.job[j].due \in Nat
    BY DbFields DEF JobRecs, In
  <2>. QED  BY <2>1
<1>2. PICK m \in T : \A n \in T : m <= n
  <2>. HIDE DEF T
  <2>. QED  BY <1>1, LeastNat
<1>3. \A j \in In(d, "delayed") : m <= d.job[j].due
  BY <1>2
<1>. QED  BY <1>1, <1>2, <1>3

LEMMA PickAnswers ==
    ASSUME NEW d, Sound(d), NEW s \in Slots, NEW a, a = Pick(d, s)
    PROVE  Answers(d, a, s)
<1> DEFINE waiting == In(d, "wait")
           parked  == In(d, "delayed")
           head    == CHOOSE t \in {d.job[j].due : j \in parked} :
                          \A j \in parked : t <= d.job[j].due
           j       == First(d, waiting)
<1>0. d \in Dbs
  BY DEF Sound
<1>1. CASE d.paused \/ Capped(d)
  <2>1. a = Found(d, "none", None, 0)
    BY <1>1 DEF Pick
  <2>2. a.kind = "none" /\ a.job = None /\ a.db = d /\ a.ms = 0
    BY <2>1 DEF Found
  <2>. QED  BY <1>1, <2>2 DEF Answers, NoneFound, SameGates
<1>2. CASE ~(d.paused \/ Capped(d)) /\ waiting = {}
  <2>1. PICK e : e = ResetSequence(d)
    OBVIOUS
  <2>2. Sound(e) /\ e.job = d.job /\ SameGates(d, e)
    BY <1>2, <2>1, ResetSound
  <2>3. parked # {} => head \in Nat
    BY <1>0, EarliestDue
  <2>4. a = IF parked = {} THEN Found(e, "none", None, 0) ELSE Found(e, "due", None, head)
    BY <1>2, <2>1 DEF Pick
  <2>. HIDE DEF head, parked
  <2>5. a.kind \in {"none", "due"} /\ a.job = None /\ a.db = e /\ a.ms \in Nat
    BY <2>3, <2>4 DEF Found
  <2>. QED  BY <1>2, <2>2, <2>5 DEF Answers, NoneFound
<1>3. CASE ~(d.paused \/ Capped(d)) /\ waiting # {} /\ Limited(d)
  <2>1. a = Found(d, "limited", None, RetryAfter(d))
    BY <1>3 DEF Pick
  <2>2. a.kind = "limited" /\ a.job = None /\ a.db = d /\ a.ms = RetryAfter(d)
    BY <2>1 DEF Found
  <2>. QED  BY <1>0, <1>3, <2>2, RetryAfterIsNat DEF Answers, LimitFound
<1>4. CASE ~(d.paused \/ Capped(d)) /\ waiting # {} /\ ~Limited(d)
  <2>1. waiting \in SUBSET Jobs
    BY DEF In
  <2>2. j \in waiting /\ \A i \in waiting : d.job[j].score <= d.job[i].score
    <3>. HIDE DEF waiting
    <3>. QED  BY <1>0, <1>4, <2>1, FirstIsLowest
  <2>3. PICK e : e = Claimed(d, j, s)
    OBVIOUS
  <2>4. a = Found(e, "job", j, 0)
    BY <1>4, <2>3 DEF Pick
  <2>. HIDE DEF waiting, j
  <2>5. ClaimedAs(d, e, j, s)
    BY <1>4, <2>1, <2>2, <2>3, ClaimedSound
  <2>6. a.kind = "job" /\ a.job = j /\ a.db = e /\ a.ms = 0
    BY <2>4 DEF Found
  <2>. QED  BY <1>4, <2>2, <2>5, <2>6 DEF Answers, JobFound, waiting
<1>. HIDE DEF waiting, parked, head, j
<1>. QED  BY <1>1, <1>2, <1>3, <1>4

-----------------------------------------------------------------------------
(* What holds between any two steps. *)

\* The slots that are blocked stand in one line.
QueueOK ==
    /\ queued \subseteq Blocked \X Blocked
    /\ \A s, t \in Blocked : s # t => (<<s, t>> \in queued <=> <<t, s>> \notin queued)

\* A processor, and its finish, has a job.
HasJob == \A s \in Slots : slots[s].at \in {"run", "finish"} => slots[s].job \in Jobs

\* While every process lives, a run in progress is the one its slot is at.
Manned ==
    \A j \in Jobs : db.job[j].state = "active" =>
        LET s == db.job[j].by IN slots[s].at \in {"run", "finish"} /\ slots[s].job = j

\* A slot that will claim and look, arm the marker, or hand a wake on.  One at
\* its claim counts only while its worker runs: a rate limit that a stopping
\* worker meets arms nothing.
Wakeful(s) ==
    \/ slots[s].at \in {"popped", "finish"}
    \/ slots[s].at \in {"claim", "limited"} /\ Running(s)
    \/ slots[s].at = "run" /\ db.job[slots[s].job].by # s

Witness ==
    \/ db.work \/ arming
    \/ \E s \in Slots : Wakeful(s)
    \/ \E w \in Workers : workers[w] = "stopping"

\* A stopping worker at its last claim, which may still promote.
Straggler == \E s \in Slots : slots[s].at = "claim" /\ ~Running(s)

Pending ==
    \/ \E j \in Jobs : db.job[j].state = "wait"
    \/ Straggler /\ \E j \in Jobs : Ripe(db, j)

NoneForgotten == ~faults /\ Open(db) /\ Pending => Witness

Core ==
    /\ Sound(db) /\ slots \in [Slots -> SlotStates] /\ QueueOK /\ HasJob
    /\ (~faults => Manned) /\ NoneForgotten

Rest ==
    /\ workers \in [Workers -> {"up", "stopping", "draining", "off"}]
    /\ dueMs \in [Workers -> Nat \cup {None}]
    /\ arming \in BOOLEAN /\ ops \in 0..MaxOps /\ faults \in BOOLEAN

LEMMA CoreTypes == Core /\ Rest => TypeOK
BY DEF Core, Rest, TypeOK, Sound, QueueOK

LEMMA SlotFields ==
    ASSUME NEW r, r \in SlotStates
    PROVE  /\ r.at \in {"claim", "limited", "ready", "block", "popped", "run", "finish", "gone"}
           /\ r.job \in Jobs \cup {None} /\ r.left \in Nat /\ r.fetch \in BOOLEAN
BY DEF SlotStates

LEMMA AtIsASlotState ==
    ASSUME NEW where \in {"claim", "limited", "ready", "block", "popped", "run", "finish", "gone"}
    PROVE  At(where) \in SlotStates /\ At(where).at = where
BY DEF At, SlotStates

\* The line of the blocked slots, when nobody joins or leaves it ...
LEMMA SameQueue ==
    ASSUME QueueOK, queued' = queued, \A t \in Slots : slots'[t].at = "block" <=> slots[t].at = "block"
    PROVE  QueueOK'
<1>1. Blocked' = Blocked
  BY DEF Blocked
<1>. QED  BY <1>1 DEF QueueOK

\* ... and when some leave.
LEMMA LeaveQueue ==
    ASSUME QueueOK, NEW S, Leave(S),
           \A t \in Slots : slots'[t].at = "block" <=> slots[t].at = "block" /\ t \notin S
    PROVE  QueueOK'
<1>1. \A t : t \in Blocked' <=> t \in Blocked /\ t \notin S
  BY DEF Blocked
<1>2. \A t, u : <<t, u>> \in queued' <=> <<t, u>> \in queued /\ t \notin S /\ u \notin S
  BY DEF Leave, QueueOK
<1>3. queued' \subseteq queued
  BY DEF Leave
<1>4. queued' \subseteq Blocked' \X Blocked'
  BY <1>1, <1>2, <1>3 DEF QueueOK
<1>5. \A t, u \in Blocked' : t # u => (<<t, u>> \in queued' <=> <<u, t>> \notin queued')
  BY <1>1, <1>2 DEF QueueOK
<1>. QED  BY <1>4, <1>5 DEF QueueOK

\* A queue that opens while its gates stay as they are has lost a run.
LEMMA OpensByLoss ==
    ASSUME NEW d, NEW e, Quiet(d, e), Owned(d), Owned(e), Open(e), ~Open(d)
    PROVE  \E j \in Jobs : d.job[j].state = "active" /\ e.job[j].by = None
<1>1. SUFFICES ASSUME \A j \in Jobs : d.job[j].state = "active" => e.job[j].by # None
               PROVE  FALSE
  OBVIOUS
<1>2. \A j \in Jobs : e.job[j].state = "active" <=> d.job[j].state = "active"
  BY <1>1 DEF Quiet, Owned
<1>3. In(e, "active") = In(d, "active")
  BY <1>2 DEF In
<1>. QED  BY <1>3 DEF Open, Capped, Quiet

\* The slot of a run that was taken away will find out.
LEMMA LossIsNoticed ==
    ASSUME Core, ~faults, NEW j \in Jobs, db.job[j].state = "active"
    PROVE  \E t \in Slots : slots[t].at \in {"run", "finish"} /\ slots[t].job = j
<1>1. db.job[j].by \in Slots \cup {None} /\ db.job[j].by # None
  BY DbFields DEF Core, Sound, Owned, JobRecs
<1>. QED  BY <1>1 DEF Core, Manned

\* One script call that no slot of the process loop makes.
LEMMA WriteKeeps ==
    ASSUME Core, NEW d, Sound(d), Quiet(db, d), db' = d,
           UNCHANGED <<queued, slots, workers, faults>>, arming => arming' \/ d.work
    PROVE  Core'
<1>1. QueueOK'
  BY SameQueue DEF Core
<1>2. HasJob'
  BY DEF Core, HasJob
<1>3. ~faults => Manned'
  <2>1. \A j \in Jobs : d.job[j].state = "active" =>
           db.job[j].state = "active" /\ d.job[j].by = db.job[j].by
    BY DEF Quiet
  <2>. QED  BY <2>1 DEF Core, Manned
<1>4. ASSUME ~faults, Open(d), Pending', ~d.work
      PROVE  Witness'
  <2>1. CASE Open(db)
    <3>1. Pending
      <4>1. \A j \in Jobs :
               /\ d.job[j].state = "wait" => db.job[j].state = "wait"
               /\ Ripe(d, j) => Ripe(db, j)
        BY <1>4 DEF Quiet
      <4>2. Straggler' => Straggler
        BY DEF Straggler, Running
      <4>. QED  BY <1>4, <4>1, <4>2 DEF Pending, Ripe
    <3>2. Witness
      BY <1>4, <2>1, <3>1 DEF Core, NoneForgotten
    <3>3. ASSUME NEW t \in Slots, Wakeful(t)
          PROVE  Wakeful(t)'
      <4>1. slots[t].at = "run" => slots[t].job \in Jobs
        BY DEF Core, HasJob
      <4>2. \A j \in Jobs : d.job[j].by = db.job[j].by \/ d.job[j].by = None
        BY DEF Quiet
      <4>. QED  BY <3>3, <4>1, <4>2, NoneIsNew DEF Wakeful, Running
    <3>4. ~db.work
      BY <1>4 DEF Quiet
    <3>. QED  BY <1>4, <3>2, <3>3, <3>4 DEF Witness
  <2>2. CASE ~Open(db)
    <3>1. PICK j \in Jobs : db.job[j].state = "active" /\ d.job[j].by = None
      BY <1>4, <2>2, OpensByLoss DEF Core, Sound
    <3>2. PICK t \in Slots : slots[t].at \in {"run", "finish"} /\ slots[t].job = j
      BY <1>4, <3>1, LossIsNoticed
    <3>3. Wakeful(t)'
      BY <3>1, <3>2, NoneIsNew DEF Wakeful
    <3>. QED  BY <3>3 DEF Witness
  <2>. QED  BY <2>1, <2>2
<1>5. NoneForgotten'
  <2>1. Open(db)' <=> Open(d)
    BY DEF Open, Capped, In
  <2>. QED  BY <1>4, <2>1 DEF NoneForgotten, Witness
<1>. QED  BY <1>1, <1>2, <1>3, <1>5 DEF Core

-----------------------------------------------------------------------------
(* A slot that has asked for a job. *)

\* Nothing to run: the marker is armed if a job waits that may start.
Idle(e, a) ==
    /\ a.kind \in {"none", "due"} /\ a.job = None
    /\ Sound(a.db) /\ a.db.job = e.job /\ SameGates(e, a.db)
    /\ a.db.work \/ e.paused \/ Capped(e) \/ In(e, "wait") = {}

\* What slot s, at its claim or with a finish settled in d, is told after the
\* promotion that leads to e.
Told(d, e, a, s) ==
    /\ a.ms \in Nat
    /\ \/ Idle(e, a)
       \/ LimitFound(e, a) /\ d = db /\ slots[s].at = "claim"
       \/ JobFound(e, a, s)

LEMMA OpenIsSame ==
    ASSUME NEW d, NEW e, e.paused = d.paused, e.cap = d.cap,
           \A j \in Jobs : e.job[j].state = "active" <=> d.job[j].state = "active"
    PROVE  (Open(e) <=> Open(d)) /\ (Capped(e) <=> Capped(d))
<1>1. In(e, "active") = In(d, "active")
  BY DEF In
<1>. QED  BY <1>1 DEF Open, Capped

LEMMA AfterTypes ==
    ASSUME NEW d, NEW e, NEW s, NEW a, Told(d, e, a, s)
    PROVE  /\ After(a) \in SlotStates
           /\ a.kind = "job" => After(a).at = "run" /\ After(a).job = a.job /\ a.job \in Jobs
           /\ a.kind = "limited" => After(a).at = "limited"
           /\ a.kind \in {"none", "due"} => After(a).at = "ready"
           /\ a.kind \in {"job", "limited", "none", "due"}
<1>1. a.kind \in {"job", "limited", "none", "due"} /\ (a.kind = "job" => a.job \in Jobs)
  BY DEF Told, Idle, LimitFound, JobFound, In
<1>2. CASE a.kind = "job"
  <2>1. After(a) = [At("run") EXCEPT !.job = a.job]
    BY <1>2 DEF After
  <2>2. At("run") \in SlotStates /\ At("run").at = "run"
    BY AtIsASlotState
  <2>3. After(a) \in SlotStates /\ After(a).at = "run" /\ After(a).job = a.job
    BY <1>1, <1>2, <2>1, <2>2 DEF SlotStates
  <2>. QED  BY <1>1, <1>2, <2>3
<1>3. CASE a.kind = "limited"
  <2> DEFINE n == IF a.ms < BlockTimeout THEN a.ms ELSE BlockTimeout
  <2>1. After(a) = [At("limited") EXCEPT !.left = n]
    BY <1>3 DEF After
  <2>2. n \in Nat
    BY WakeupAssumption DEF Told
  <2>. HIDE DEF n
  <2>. QED  BY <1>3, <2>1, <2>2 DEF At, SlotStates
<1>4. CASE a.kind \in {"none", "due"}
  <2>1. After(a) = At("ready")
    BY <1>4 DEF After
  <2>. QED  BY <1>4, <2>1 DEF At, SlotStates
<1>. QED  BY <1>1, <1>2, <1>3, <1>4

\* The runs of the other slots are as they were.
OthersRun(d, b, s) ==
    \A j \in Jobs : b.job[j].state = "active" /\ b.job[j].by # s =>
        d.job[j].state = "active" /\ d.job[j].by = b.job[j].by

LEMMA ToldRuns ==
    ASSUME NEW d, NEW e, Promoted(d, e), NEW s \in Slots, NEW a, Told(d, e, a, s)
    PROVE  /\ Sound(a.db) /\ OthersRun(d, a.db, s)
           /\ \A j \in Jobs : a.db.job[j].by = s => d.job[j].by = s \/ (a.kind = "job" /\ j = a.job)
<1>1. \A j \in Jobs : e.job[j].by # None => e.job[j] = d.job[j]
  BY DEF Promoted, OnlyRipeWait
<1>2. \A j \in Jobs : e.job[j].state = "active" => e.job[j] = d.job[j]
  BY DEF Promoted, OnlyRipeWait
<1>3. Sound(e)
  BY DEF Promoted
<1>4. CASE a.db.job = e.job
  BY <1>1, <1>2, <1>4, NoneIsNew, <1>3 DEF Told, Idle, LimitFound, JobFound, ClaimedAs, OthersRun
<1>5. CASE JobFound(e, a, s)
  <2>1. /\ Sound(a.db) /\ a.kind = "job" /\ a.db.job[a.job] = RunOf(s) /\ RunOf(s).by = s
        /\ \A i \in Jobs \ {a.job} : a.db.job[i] = e.job[i]
    BY <1>5 DEF JobFound, ClaimedAs, RunOf
  <2>. QED  BY <1>1, <1>2, <2>1, NoneIsNew DEF OthersRun
<1>. QED  BY <1>4, <1>5 DEF Told, Idle, LimitFound

LEMMA IdleIsHeard ==
    ASSUME NEW d, NEW e, Promoted(d, e), NEW a, Idle(e, a), Open(a.db), ~a.db.work
    PROVE  \A j \in Jobs : a.db.job[j].state # "wait" /\ ~Ripe(a.db, j)
<1>1. Open(e)
  BY OpenIsSame DEF Idle, SameGates
<1>2. In(e, "wait") = {}
  BY <1>1 DEF Idle, Open
<1>3. \A j \in Jobs : e.job[j].state # "wait"
  BY <1>2 DEF In
<1>4. \A j \in Jobs : ~Ripe(e, j)
  BY <1>3 DEF Promoted, Thorough
<1>. QED  BY <1>3, <1>4 DEF Idle, Ripe

LEMMA StartIsHeard ==
    ASSUME NEW d, NEW e, Promoted(d, e), NEW s, NEW a, JobFound(e, a, s), Open(a.db), ~a.db.work
    PROVE  \A j \in Jobs : a.db.job[j].state # "wait" /\ ~Ripe(a.db, j)
<1>1. ClaimedAs(e, a.db, a.job, s) /\ a.job \in Jobs
  BY DEF JobFound, In
<1>2. In(a.db, "wait") = {}
  BY <1>1 DEF ClaimedAs, Open
<1>3. \A j \in Jobs : a.db.job[j].state # "wait"
  BY <1>2 DEF In
<1>4. \A j \in Jobs \ {a.job} : a.db.job[j] = e.job[j] /\ e.job[j].state # "wait"
  BY <1>1, <1>3 DEF ClaimedAs
<1>5. \A j \in Jobs : ~Ripe(e, j)
  BY <1>4 DEF Promoted, Thorough
<1>6. a.db.job[a.job].state = "active"
  BY <1>1 DEF ClaimedAs, RunOf
<1>. QED  BY <1>3, <1>4, <1>5, <1>6 DEF Ripe

LEMMA TakeKeeps ==
    ASSUME Core, NEW s \in Slots, slots[s].at \in {"claim", "finish"},
           NEW d, Quiet(db, d), ~faults => \A j \in Jobs : d.job[j].by # s,
           NEW e, Promoted(d, e), NEW a, Told(d, e, a, s),
           db' = a.db, slots' = [slots EXCEPT ![s] = After(a)],
           UNCHANGED <<queued, workers, arming, faults>>
    PROVE  Core'
<1>1. /\ After(a) \in SlotStates /\ After(a).at # "block" /\ After(a).at # "finish"
      /\ After(a).at = "run" => a.kind = "job" /\ After(a).job = a.job /\ a.job \in Jobs
  BY AfterTypes
<1>2. slots \in [Slots -> SlotStates]
  BY DEF Core
<1>3. /\ slots' \in [Slots -> SlotStates] /\ slots'[s] = After(a)
      /\ \A t \in Slots \ {s} : slots'[t] = slots[t]
  BY <1>1, <1>2
<1>4. QueueOK'
  BY <1>1, <1>3, SameQueue DEF Core
<1>5. HasJob'
  BY <1>1, <1>3 DEF Core, HasJob
<1>6. /\ Sound(a.db) /\ OthersRun(d, a.db, s)
      /\ \A j \in Jobs : a.db.job[j].by = s => d.job[j].by = s \/ (a.kind = "job" /\ j = a.job)
  BY ToldRuns
<1>7. \A j \in Jobs : d.job[j].state = "active" =>
          db.job[j].state = "active" /\ db.job[j].by = d.job[j].by
  BY DEF Quiet
<1>8. ASSUME ~faults  PROVE Manned'
  <2> SUFFICES ASSUME NEW j \in Jobs, a.db.job[j].state = "active"
               PROVE  LET t == a.db.job[j].by IN slots'[t].at \in {"run", "finish"} /\ slots'[t].job = j
    BY DEF Manned
  <2>1. CASE a.db.job[j].by = s
    <3>1. a.kind = "job" /\ j = a.job
      BY <1>6, <1>8, <2>1
    <3>2. After(a).at = "run" /\ After(a).job = a.job
      BY <3>1, AfterTypes
    <3>. QED  BY <1>3, <2>1, <3>1, <3>2
  <2>2. CASE a.db.job[j].by # s
    <3>1. db.job[j].state = "active" /\ db.job[j].by = a.db.job[j].by
      BY <1>6, <1>7, <2>2 DEF OthersRun
    <3>2. db.job[j].by \in Slots
      BY <3>1, DbFields DEF Core, Sound, Owned, JobRecs
    <3>. QED  BY <1>3, <1>8, <2>2, <3>1, <3>2 DEF Core, Manned
  <2>. QED  BY <2>1, <2>2
<1>9. ASSUME ~faults, Open(a.db), Pending', ~a.db.work
      PROVE  Witness'
  <2>1. \E j \in Jobs : a.db.job[j].state = "wait" \/ Ripe(a.db, j)
    BY <1>9 DEF Pending, Ripe
  <2>2. a.kind = "limited" /\ a.db = e /\ d = db /\ slots[s].at = "claim"
    BY <1>9, <2>1, IdleIsHeard, StartIsHeard DEF Told, LimitFound
  <2>3. CASE Running(s)
    <3>1. slots'[s].at = "limited" /\ Running(s)'
      BY <1>3, <2>2, <2>3, AfterTypes DEF Running
    <3>. QED  BY <3>1 DEF Witness, Wakeful
  <2>4. CASE ~Running(s)
    <3>1. Straggler
      BY <2>2, <2>4 DEF Straggler
    <3>2. \A j \in Jobs : e.job[j] = db.job[j] \/ (Ripe(db, j) /\ e.job[j].state = "wait" /\ e.job[j].by = None)
      BY <2>2 DEF Promoted, OnlyRipeWait
    <3>3. Pending
      BY <2>1, <2>2, <3>1, <3>2 DEF Pending, Ripe
    <3>4. e.paused = db.paused /\ e.cap = db.cap /\ e.work = db.work
      BY <2>2 DEF Promoted
    <3>5. Open(db)
      <4>1. \A j \in Jobs : e.job[j].state = "active" <=> db.job[j].state = "active"
        BY <3>2 DEF Ripe
      <4>. QED  BY <1>9, <2>2, <3>4, <4>1, OpenIsSame
    <3>6. Witness
      BY <1>9, <3>3, <3>5 DEF Core, NoneForgotten
    <3>7. ASSUME NEW t \in Slots, Wakeful(t)
          PROVE  Wakeful(t)'
      <4>1. t # s
        BY <2>2, <2>4, <3>7 DEF Wakeful
      <4>2. slots'[t] = slots[t] /\ Running(t)' = Running(t)
        BY <1>3, <4>1 DEF Running
      <4>3. slots[t].at = "run" => slots[t].job \in Jobs
        BY DEF Core, HasJob
      <4>. QED  BY <2>2, <3>2, <3>7, <4>2, <4>3, NoneIsNew DEF Wakeful
    <3>. QED  BY <1>9, <2>2, <3>4, <3>6, <3>7 DEF Witness
  <2>. QED  BY <2>3, <2>4
<1>10. NoneForgotten'
  <2>1. Open(db)' <=> Open(a.db)
    BY DEF Open, Capped, In
  <2>. QED  BY <1>9, <2>1 DEF NoneForgotten, Witness
<1>. QED  BY <1>3, <1>4, <1>5, <1>6, <1>8, <1>10 DEF Core

LEMMA FoundFields ==
    ASSUME NEW d, NEW kind, NEW j, NEW ms
    PROVE  /\ Found(d, kind, j, ms).db = d /\ Found(d, kind, j, ms).kind = kind
           /\ Found(d, kind, j, ms).job = j /\ Found(d, kind, j, ms).ms = ms
BY DEF Found

LEMMA ClaimIsTold ==
    ASSUME Core, NEW s \in Slots, slots[s].at = "claim", NEW due \in Promotions(db),
           NEW a, a = AcquireNext(db, due, s)
    PROVE  \E e : Promoted(db, e) /\ Told(db, e, a, s)
<1>1. PICK e : e = PromoteDue(db, due)
  OBVIOUS
<1>2. Promoted(db, e)
  BY <1>1, PromoteDuePromotes DEF Core
<1>3. a = Pick(e, s)
  BY <1>1 DEF AcquireNext
<1>4. Answers(e, a, s)
  BY <1>2, <1>3, PickAnswers DEF Promoted
<1>5. NoneFound(e, a) => Idle(e, a)
  BY DEF NoneFound, Idle
<1>. QED  BY <1>2, <1>4, <1>5 DEF Answers, Told

LEMMA FetchIsTold ==
    ASSUME NEW d, Sound(d), NEW s \in Slots, NEW due \in Promotions(d),
           NEW a, a = Fetched(d, due, s)
    PROVE  \E e : Promoted(d, e) /\ Told(d, e, a, s)
<1>1. PICK e : e = PromoteDue(d, due)
  OBVIOUS
<1>2. Promoted(d, e)
  BY <1>1, PromoteDuePromotes
<1>3. PICK b : b = AcquireNext(d, due, s)
  OBVIOUS
<1>4. Answers(e, b, s)
  BY <1>1, <1>2, <1>3, PickAnswers DEF Promoted, AcquireNext
<1>5. CASE b.kind # "limited"
  <2>1. a = b
    BY <1>3, <1>5 DEF Fetched
  <2>2. NoneFound(e, b) => Idle(e, b)
    BY DEF NoneFound, Idle
  <2>. QED  BY <1>2, <1>4, <1>5, <2>1, <2>2 DEF Answers, Told, LimitFound
<1>6. CASE b.kind = "limited"
  <2>1. b.db = e
    BY <1>4, <1>6 DEF Answers, NoneFound, LimitFound, JobFound
  <2>2. PICK f : f = [e EXCEPT !.work = TRUE]
    OBVIOUS
  <2>3. a = Found(f, "none", None, 0)
    BY <1>3, <1>6, <2>1, <2>2 DEF Fetched
  <2>4. a.db = f /\ a.kind = "none" /\ a.job = None /\ a.ms = 0
    BY <2>3, FoundFields
  <2>6. Sound(f) /\ Quiet(e, f) /\ f.job = e.job /\ f.work
    BY <1>2, <2>2, RaisedSound DEF Promoted
  <2>7. Idle(e, a)
    BY <2>4, <2>6 DEF Idle, SameGates, Quiet
  <2>. QED  BY <1>2, <2>4, <2>7 DEF Told
<1>. QED  BY <1>5, <1>6

LEMMA UnfetchedIsTold ==
    ASSUME NEW d, Sound(d), NEW s \in Slots, NEW due \in Promotions(d), NEW a, a = Unfetched(d, due)
    PROVE  (\E e : Promoted(d, e) /\ Told(d, e, a, s)) /\ After(a) = At("ready")
<1>1. PICK e : e = PromoteDue(d, due)
  OBVIOUS
<1>2. Promoted(d, e)
  BY <1>1, PromoteDuePromotes
<1>3. PICK f : f = WakeIfWaiting(e)
  OBVIOUS
<1>4. Sound(f) /\ Quiet(e, f) /\ f.job = e.job /\ (In(e, "wait") # {} => f.work)
  BY <1>2, <1>3, WakeIfWaitingSound DEF Promoted
<1>5. a.db = f /\ a.kind = "none" /\ a.job = None /\ a.ms = 0
  BY <1>1, <1>3, FoundFields DEF Unfetched
<1>6. Idle(e, a)
  BY <1>4, <1>5 DEF Idle, SameGates, Quiet
<1>7. Told(d, e, a, s)
  BY <1>5, <1>6 DEF Told
<1>8. After(a) = At("ready")
  BY <1>5 DEF After
<1>. QED  BY <1>2, <1>7, <1>8

\* The run of a slot that finishes is nobody's once the script has settled it.
LEMMA FinishedRun ==
    ASSUME Core, NEW s \in Slots, slots[s].at = "finish", NEW d, Quiet(db, d),
           d.job[slots[s].job].by = None
    PROVE  ~faults => \A j \in Jobs : d.job[j].by # s
<1> SUFFICES ASSUME ~faults, NEW j \in Jobs, d.job[j].by = s
             PROVE  FALSE
  OBVIOUS
<1>1. s # None
  BY NoneIsNew
<1>2. db.job[j].by = s
  BY <1>1 DEF Quiet
<1>3. db.job[j].state = "active"
  BY <1>1, <1>2 DEF Core, Sound, Owned
<1>4. slots[s].job = j
  BY <1>2, <1>3 DEF Core, Manned
<1>. QED  BY <1>1, <1>4

LEMMA ClaimKeeps ==
    ASSUME Core, NEW s \in Slots, Claim(s)
    PROVE  Core'
<1>1. PICK due \in Promotions(db) : Loaded(s, AcquireNext(db, due, s))
  BY DEF Claim
<1>2. PICK a : a = AcquireNext(db, due, s)
  OBVIOUS
<1>3. PICK e : Promoted(db, e) /\ Told(db, e, a, s)
  BY <1>2, ClaimIsTold DEF Claim
<1>4. db' = a.db /\ slots' = [slots EXCEPT ![s] = After(a)]
  BY <1>1, <1>2 DEF Loaded
<1>5. Quiet(db, db)
  BY DEF Quiet
<1>6. ~faults => \A j \in Jobs : db.job[j].by # s
  <2>1. s # None
    BY NoneIsNew
  <2>2. \A j \in Jobs : db.job[j].by = s => db.job[j].state = "active"
    BY <2>1 DEF Core, Sound, Owned
  <2>. QED  BY <2>2 DEF Core, Manned, Claim
<1>. QED  BY <1>3, <1>4, <1>5, <1>6, TakeKeeps DEF Claim

LEMMA CommitKeeps ==
    ASSUME Core, NEW s \in Slots, slots[s].at = "finish", NEW d, Sound(d), Quiet(db, d),
           d.job[slots[s].job].by = None, Commit(s, d)
    PROVE  Core'
<1>1. PICK due \in Promotions(d) :
          Loaded(s, IF slots[s].fetch THEN Fetched(d, due, s) ELSE Unfetched(d, due))
  BY DEF Commit
<1>2. PICK a : a = IF slots[s].fetch THEN Fetched(d, due, s) ELSE Unfetched(d, due)
  OBVIOUS
<1>3. PICK e : Promoted(d, e) /\ Told(d, e, a, s)
  BY <1>2, FetchIsTold, UnfetchedIsTold
<1>4. db' = a.db /\ slots' = [slots EXCEPT ![s] = After(a)]
  BY <1>1, <1>2 DEF Loaded
<1>5. ~faults => \A j \in Jobs : d.job[j].by # s
  BY FinishedRun
<1>. QED  BY <1>3, <1>4, <1>5, TakeKeeps DEF Commit

\* MOVE_TO_COMPLETED, or MOVE_TO_FAILED with an attempt left or none.
SettledBy(s, d) == Sound(d) /\ Quiet(db, d) /\ d.job[slots[s].job].by = None

LEMMA FinishSettles ==
    ASSUME Core, NEW s \in Slots, slots[s].at = "finish"
    PROVE  /\ slots[s].job \in Jobs
           /\ \A d : d = Settle(db, slots[s].job) => SettledBy(s, d)
           /\ \A backoff \in Delays :
                \A d : d = Park(Left(db, slots[s].job, "gone"), slots[s].job, backoff) => SettledBy(s, d)
<1>1. slots[s].job \in Jobs
  BY DEF Core, HasJob
<1>2. PICK j \in Jobs : j = slots[s].job
  BY <1>1
<1>3. ASSUME NEW d, d = Settle(db, j)  PROVE SettledBy(s, d)
  BY <1>2, <1>3, SettleSound DEF Core, SettledBy
<1>4. ASSUME NEW backoff \in Delays, NEW d, d = Park(Left(db, j, "gone"), j, backoff)
      PROVE  SettledBy(s, d)
  <2>1. PICK u : u = Left(db, j, "gone")
    OBVIOUS
  <2>2. Sound(u) /\ Quiet(db, u)
    BY <2>1, LeftGone DEF Core
  <2>3. backoff \in Nat /\ d = Park(u, j, backoff)
    BY <1>4, <2>1, WakeupAssumption
  <2>4. Sound(d) /\ Quiet(u, d) /\ Settled(u, d, j)
    BY <2>2, <2>3, ParkSound
  <2>. QED  BY <1>2, <2>2, <2>4, QuietIsTransitive DEF SettledBy, Settled
<1>. QED  BY <1>1, <1>2, <1>3, <1>4

LEMMA FinishKeeps ==
    ASSUME Core, NEW s \in Slots, Finish(s) \/ FinishRetries(s)
    PROVE  Core'
<1>1. slots[s].at = "finish"
  BY DEF Finish, FinishRetries, Holds
<1>2. PICK d : SettledBy(s, d) /\ Commit(s, d)
  BY <1>1, FinishSettles DEF Finish, FinishRetries
<1>. QED  BY <1>1, <1>2, CommitKeeps DEF SettledBy

LEMMA FinishCancelledKeeps ==
    ASSUME Core, NEW s \in Slots, FinishCancelled(s)
    PROVE  Core'
<1>1. slots[s].at = "finish"
  BY DEF FinishCancelled, Holds
<1>2. PICK d : d = Settle(db, slots[s].job)
  OBVIOUS
<1>3. SettledBy(s, d)
  BY <1>1, <1>2, FinishSettles
<1>4. PICK due \in Promotions(d) : db' = Unfetched(d, due).db
  BY <1>2 DEF FinishCancelled
<1>5. PICK a : a = Unfetched(d, due)
  OBVIOUS
<1>6. (\E e : Promoted(d, e) /\ Told(d, e, a, s)) /\ After(a) = At("ready")
  BY <1>3, <1>5, UnfetchedIsTold DEF SettledBy
<1>7. PICK e : Promoted(d, e) /\ Told(d, e, a, s)
  BY <1>6
<1>8. db' = a.db /\ slots' = [slots EXCEPT ![s] = After(a)]
  BY <1>4, <1>5, <1>6 DEF FinishCancelled, Go
<1>9. ~faults => \A j \in Jobs : d.job[j].by # s
  BY <1>1, <1>3, FinishedRun DEF SettledBy
<1>. QED  BY <1>1, <1>3, <1>7, <1>8, <1>9, TakeKeeps DEF SettledBy, FinishCancelled

-----------------------------------------------------------------------------
(* A slot that goes on in its loop. *)

LEMMA NoRun ==
    ASSUME Core, ~faults, NEW s \in Slots,
           slots[s].at \notin {"run", "finish"} \/ db.job[slots[s].job].by # s
    PROVE  \A j \in Jobs : db.job[j].by # s
<1>1. s # None
  BY NoneIsNew
<1>2. \A j \in Jobs : db.job[j].by = s => db.job[j].state = "active"
  BY <1>1 DEF Core, Sound, Owned
<1>. QED  BY <1>2 DEF Core, Manned

\* Slot s takes no wake with it, unless it has one to give.
GoesOn(s, d) ==
    \/ d.work \/ Wakeful(s)'
    \/ ~Wakeful(s) /\ ~(slots'[s].at = "claim" /\ ~Running(s)) /\ (db.work => d.work)

LEMMA SlotKeeps ==
    ASSUME Core, NEW s \in Slots, NEW d, Sound(d), d.job = db.job, d.paused = db.paused,
           d.cap = db.cap, db' = d, NEW r \in SlotStates, slots' = [slots EXCEPT ![s] = r],
           r.at \in {"run", "finish"} => slots[s].at \in {"run", "finish"} /\ r.job = slots[s].job,
           ~faults => r.at \in {"run", "finish"} \/ \A j \in Jobs : db.job[j].by # s,
           QueueOK', GoesOn(s, d), UNCHANGED <<workers, arming, faults>>
    PROVE  Core'
<1>1. slots \in [Slots -> SlotStates]
  BY DEF Core
<1>2. /\ slots' \in [Slots -> SlotStates] /\ slots'[s] = r
      /\ \A t \in Slots \ {s} : slots'[t] = slots[t]
  BY <1>1
<1>3. HasJob'
  BY <1>2 DEF Core, HasJob
<1>4. ASSUME ~faults  PROVE Manned'
  <2>1. \A j \in Jobs : db.job[j].state = "active" => db.job[j].by \in Slots
    BY DbFields DEF Core, Sound, Owned, JobRecs
  <2>. QED  BY <1>2, <1>4, <2>1 DEF Core, Manned
<1>5. ASSUME ~faults, Open(d), Pending', ~d.work, ~Wakeful(s)'
      PROVE  Witness'
  <2>1. ~Wakeful(s) /\ ~(slots'[s].at = "claim" /\ ~Running(s)) /\ ~db.work
    BY <1>5 DEF GoesOn
  <2>2. \A t \in Slots : Running(t)' = Running(t)
    BY DEF Running
  <2>3. Straggler' => Straggler
    BY <1>2, <2>1, <2>2 DEF Straggler
  <2>4. Pending
    BY <1>5, <2>3 DEF Pending, Ripe
  <2>5. Open(db)
    BY <1>5, OpenIsSame
  <2>6. Witness
    BY <1>5, <2>4, <2>5 DEF Core, NoneForgotten
  <2>7. ASSUME NEW t \in Slots, Wakeful(t)
        PROVE  Wakeful(t)'
    BY <1>2, <2>1, <2>2, <2>7 DEF Wakeful
  <2>. QED  BY <1>5, <2>1, <2>6, <2>7 DEF Witness
<1>6. NoneForgotten'
  <2>1. Open(db)' <=> Open(d)
    BY DEF Open, Capped, In
  <2>. QED  BY <1>5, <2>1 DEF NoneForgotten, Witness
<1>. QED  BY <1>2, <1>3, <1>4, <1>6 DEF Core

LEMMA LimitedEndsKeeps ==
    ASSUME Core, NEW s \in Slots, LimitedEnds(s)
    PROVE  Core'
<1> DEFINE b == Running(s)
<1>1. PICK d : d = [db EXCEPT !.work = @ \/ b]
  OBVIOUS
<1>2. slots[s].at = "limited" /\ db' = d /\ slots' = [slots EXCEPT ![s] = At("ready")]
  BY <1>1 DEF LimitedEnds, Go
<1>3. b \in BOOLEAN /\ Sound(db)
  BY DEF Running, Core
<1>. HIDE DEF b
<1>4. Sound(d) /\ Quiet(db, d) /\ d.job = db.job /\ (b => d.work)
  BY <1>1, <1>3, ArmedSound
<1>5. At("ready") \in SlotStates /\ At("ready").at = "ready"
  BY AtIsASlotState
<1>6. slots \in [Slots -> SlotStates]
  BY DEF Core
<1>7. QueueOK'
  BY <1>2, <1>5, <1>6, SameQueue DEF Core, LimitedEnds
<1>8. GoesOn(s, d)
  BY <1>2, <1>4, <1>5, <1>6 DEF GoesOn, Wakeful, Quiet, b
<1>9. ~faults => \A j \in Jobs : db.job[j].by # s
  BY <1>2, NoRun
<1>. QED  BY <1>2, <1>4, <1>5, <1>7, <1>8, <1>9, SlotKeeps DEF Quiet, LimitedEnds

LEMMA BlockKeeps ==
    ASSUME Core, Rest, NEW s \in Slots, Block(s)
    PROVE  Core'
<1>0. slots \in [Slots -> SlotStates] /\ slots[s].at = "ready" /\ Sound(db)
  BY DEF Core, Block
<1>1. ~faults => \A j \in Jobs : db.job[j].by # s
  BY <1>0, NoRun
<1>2. CASE Running(s)
  <2> DEFINE n == BlockFor(dueMs[WorkerOf[s]])
             r == [At("block") EXCEPT !.left = n]
  <2>1. n \in Nat
    <3>1. dueMs[WorkerOf[s]] \in Nat \cup {None}
      BY WakeupAssumption DEF Rest
    <3>. QED  BY <3>1, WakeupAssumption DEF BlockFor, MinBlock
  <2>2. slots' = [slots EXCEPT ![s] = r] /\ queued' = queued \cup (Blocked \X {s})
    BY <1>2 DEF Block
  <2>. HIDE DEF n
  <2>3. At("block") \in SlotStates /\ At("block").at = "block"
    BY AtIsASlotState
  <2>4. r \in SlotStates /\ r.at = "block"
    BY <2>1, <2>3 DEF SlotStates
  <2>. HIDE DEF r
  <2>5. \A t : t \in Blocked' <=> t \in Blocked \/ t = s
    BY <1>0, <2>2, <2>4 DEF Blocked
  <2>6. s \notin Blocked
    BY <1>0 DEF Blocked
  <2>7. QueueOK'
    <3>1. queued' \subseteq Blocked' \X Blocked'
      BY <2>2, <2>5 DEF QueueOK, Core
    <3>2. \A t, u : <<t, u>> \in queued' <=> <<t, u>> \in queued \/ (t \in Blocked /\ u = s)
      BY <2>2
    <3>3. \A t, u : <<t, u>> \in queued => t \in Blocked /\ u \in Blocked
      BY DEF Core, QueueOK
    <3>4. \A t, u \in Blocked : t # u => (<<t, u>> \in queued <=> <<u, t>> \notin queued)
      BY DEF Core, QueueOK
    <3>5. ASSUME NEW t \in Blocked', NEW u \in Blocked', t # u
          PROVE  <<t, u>> \in queued' <=> <<u, t>> \notin queued'
      BY <2>5, <2>6, <3>2, <3>3, <3>4, <3>5
    <3>. QED  BY <3>1, <3>5 DEF QueueOK
  <2>8. GoesOn(s, db)
    BY <1>0, <2>2, <2>4 DEF GoesOn, Wakeful
  <2>. QED  BY <1>0, <1>1, <2>2, <2>4, <2>7, <2>8, SlotKeeps DEF Block
<1>3. CASE ~Running(s)
  <2>1. At("gone") \in SlotStates /\ At("gone").at = "gone"
    BY AtIsASlotState
  <2>2. slots' = [slots EXCEPT ![s] = At("gone")] /\ queued' = queued
    BY <1>3 DEF Block, Go
  <2>3. QueueOK'
    BY <1>0, <2>1, <2>2, SameQueue DEF Core
  <2>4. GoesOn(s, db)
    BY <1>0, <2>1, <2>2 DEF GoesOn, Wakeful
  <2>. QED  BY <1>0, <1>1, <2>1, <2>2, <2>3, <2>4, SlotKeeps DEF Block
<1>. QED  BY <1>2, <1>3

\* The marker's member has been taken.
LEMMA PoppedSound ==
    ASSUME NEW d, Sound(d),
           NEW e, e = Popped(d)
    PROVE  Sound(e) /\ e.job = d.job /\ e.paused = d.paused /\ e.cap = d.cap
<1>1. d \in Dbs
  BY DEF Sound
<1>2. e \in Dbs /\ SameJobs(d, e) /\ e.paused = d.paused /\ e.cap = d.cap
  BY <1>1 DEF Dbs, SameJobs, Popped
<1>. QED  BY <1>2, SameJobsSound DEF SameJobs

LEMMA PopKeeps ==
    ASSUME Core, NEW s \in Slots, Pop(s)
    PROVE  Core'
<1>0. slots \in [Slots -> SlotStates] /\ slots[s].at = "block" /\ Sound(db)
  BY DEF Core, Pop, Turn
<1>1. PICK d : d = Popped(db)
  OBVIOUS
<1>2. Sound(d) /\ d.job = db.job /\ d.paused = db.paused /\ d.cap = db.cap
  BY <1>0, <1>1, PoppedSound
<1>3. At("popped") \in SlotStates /\ At("popped").at = "popped"
  BY AtIsASlotState
<1>4. db' = d /\ slots' = [slots EXCEPT ![s] = At("popped")] /\ Leave({s})
  BY <1>1 DEF Pop, Go
<1>5. QueueOK'
  BY <1>0, <1>3, <1>4, LeaveQueue DEF Core
<1>6. GoesOn(s, d)
  BY <1>0, <1>3, <1>4 DEF GoesOn, Wakeful
<1>7. ~faults => \A j \in Jobs : db.job[j].by # s
  BY <1>0, NoRun
<1>. QED  BY <1>2, <1>3, <1>4, <1>5, <1>6, <1>7, SlotKeeps DEF Pop

LEMMA WokenKeeps ==
    ASSUME Core, NEW s \in Slots, Woken(s)
    PROVE  Core'
<1> DEFINE b == ~Running(s)
           where == IF Running(s) THEN "claim" ELSE "gone"
<1>0. slots \in [Slots -> SlotStates] /\ slots[s].at = "popped" /\ Sound(db)
  BY DEF Core, Woken
<1>1. PICK d : d = [db EXCEPT !.work = @ \/ b]
  OBVIOUS
<1>2. db' = d /\ slots' = [slots EXCEPT ![s] = At(where)]
  BY <1>1 DEF Woken, Go
<1>3. b \in BOOLEAN /\ Running(s)' = Running(s)
  BY DEF Running, Woken
<1>4. At(where) \in SlotStates /\ At(where).at = where
  BY AtIsASlotState
<1>. HIDE DEF b
<1>5. Sound(d) /\ Quiet(db, d) /\ d.job = db.job /\ (b => d.work)
  BY <1>0, <1>1, <1>3, ArmedSound
<1>6. QueueOK'
  BY <1>0, <1>2, <1>4, SameQueue DEF Core, Woken
<1>7. GoesOn(s, d)
  <2>1. slots'[s].at = where
    BY <1>0, <1>2, <1>4
  <2>. QED  BY <1>3, <1>5, <2>1 DEF GoesOn, Wakeful, b
<1>8. ~faults => \A j \in Jobs : db.job[j].by # s
  BY <1>0, NoRun
<1>9. where \notin {"run", "finish"}
  OBVIOUS
<1>. HIDE DEF where
<1>. QED  BY <1>2, <1>4, <1>5, <1>6, <1>7, <1>8, <1>9, SlotKeeps DEF Quiet, Woken

LEMMA TimeoutKeeps ==
    ASSUME Core, NEW s \in Slots, Timeout(s)
    PROVE  Core'
<1> DEFINE where == IF Running(s) THEN "claim" ELSE "gone"
<1>0. slots \in [Slots -> SlotStates] /\ slots[s].at = "block" /\ Sound(db)
  BY DEF Core, Timeout
<1>1. slots' = [slots EXCEPT ![s] = At(where)] /\ Leave({s})
  BY DEF Timeout, Go
<1>2. At(where) \in SlotStates /\ At(where).at = where
  BY AtIsASlotState
<1>3. QueueOK'
  BY <1>0, <1>1, <1>2, LeaveQueue DEF Core
<1>4. GoesOn(s, db)
  <2>1. slots'[s].at = where
    BY <1>0, <1>1, <1>2
  <2>. QED  BY <1>0, <2>1 DEF GoesOn, Wakeful, Running, Timeout
<1>5. ~faults => \A j \in Jobs : db.job[j].by # s
  BY <1>0, NoRun
<1>6. where \notin {"run", "finish"}
  OBVIOUS
<1>. HIDE DEF where
<1>. QED  BY <1>0, <1>1, <1>2, <1>3, <1>4, <1>5, <1>6, SlotKeeps DEF Timeout

LEMMA EndProcessorKeeps ==
    ASSUME Core, NEW s \in Slots, EndProcessor(s)
    PROVE  Core'
<1>0. slots \in [Slots -> SlotStates] /\ slots[s].at = "run" /\ Sound(db)
  BY DEF Core, EndProcessor
<1>1. PICK f \in BOOLEAN : slots' = [slots EXCEPT ![s].at = "finish", ![s].fetch = f]
  BY DEF EndProcessor, Running
<1>2. PICK r : r = [[slots[s] EXCEPT !.at = "finish"] EXCEPT !.fetch = f]
  OBVIOUS
<1>3. r \in SlotStates /\ r.at = "finish" /\ r.job = slots[s].job
  BY <1>0, <1>2 DEF SlotStates
<1>4. slots' = [slots EXCEPT ![s] = r]
  BY <1>0, <1>1, <1>2
<1>5. QueueOK'
  BY <1>0, <1>3, <1>4, SameQueue DEF Core, EndProcessor
<1>6. GoesOn(s, db)
  BY <1>0, <1>3, <1>4 DEF GoesOn, Wakeful
<1>. QED  BY <1>0, <1>3, <1>4, <1>5, <1>6, SlotKeeps DEF EndProcessor

LEMMA FinishLostKeeps ==
    ASSUME Core, NEW s \in Slots, FinishLost(s)
    PROVE  Core'
<1>0. slots \in [Slots -> SlotStates] /\ slots[s].at = "finish" /\ Sound(db)
  BY DEF Core, FinishLost
<1>1. PICK d : d = [db EXCEPT !.work = TRUE]
  OBVIOUS
<1>2. db' = d /\ slots' = [slots EXCEPT ![s] = At("ready")]
  BY <1>1 DEF FinishLost, Go
<1>3. Sound(d) /\ Quiet(db, d) /\ d.job = db.job /\ d.work
  BY <1>0, <1>1, RaisedSound
<1>4. At("ready") \in SlotStates /\ At("ready").at = "ready"
  BY AtIsASlotState
<1>5. QueueOK'
  BY <1>0, <1>2, <1>4, SameQueue DEF Core, FinishLost
<1>6. GoesOn(s, d)
  BY <1>3 DEF GoesOn
<1>7. ~faults => \A j \in Jobs : db.job[j].by # s
  BY <1>0, NoRun DEF FinishLost, Holds
<1>. QED  BY <1>2, <1>3, <1>4, <1>5, <1>6, <1>7, SlotKeeps DEF Quiet, FinishLost

\* The reply of a pop is lost: nothing is promised of the wake any more, but the
\* slot still stands in the line once, at its end, or has left it.
LEMMA PopLostKeeps ==
    ASSUME Core, NEW s \in Slots, PopLost(s)
    PROVE  Core'
<1>0. slots \in [Slots -> SlotStates] /\ slots[s].at = "block" /\ Sound(db) /\ faults' = TRUE
  BY DEF Core, PopLost, Turn, Fails
<1>1. PICK d : d = Popped(db)
  OBVIOUS
<1>2. db' = d /\ Sound(d)
  BY <1>0, <1>1, PoppedSound DEF PopLost
<1>3. CASE Leave({s}) /\ Go(s, IF Running(s) THEN "claim" ELSE "gone")
  <2> DEFINE where == IF Running(s) THEN "claim" ELSE "gone"
  <2>1. slots' = [slots EXCEPT ![s] = At(where)]
    BY <1>3 DEF Go
  <2>2. At(where) \in SlotStates /\ At(where).at = where
    BY AtIsASlotState
  <2>3. slots' \in [Slots -> SlotStates]
    BY <1>0, <2>1, <2>2
  <2>4. QueueOK'
    BY <1>0, <1>3, <2>1, <2>2, LeaveQueue DEF Core
  <2>5. HasJob'
    BY <1>0, <2>1, <2>2 DEF Core, HasJob
  <2>. QED  BY <1>0, <1>2, <2>3, <2>4, <2>5 DEF Core, NoneForgotten
<1>4. CASE /\ \E n \in MinBlock..BlockTimeout :
                slots' = [slots EXCEPT ![s] = [At("block") EXCEPT !.left = n]]
           /\ queued' = {p \in queued : p[1] # s} \cup ((Blocked \ {s}) \X {s})
  <2>1. PICK n \in MinBlock..BlockTimeout :
            slots' = [slots EXCEPT ![s] = [At("block") EXCEPT !.left = n]]
    BY <1>4
  <2>2. PICK r : r = [At("block") EXCEPT !.left = n]
    OBVIOUS
  <2>3. At("block") \in SlotStates /\ At("block").at = "block"
    BY AtIsASlotState
  <2>4. n \in Nat
    BY WakeupAssumption DEF MinBlock
  <2>5. r \in SlotStates /\ r.at = "block"
    BY <2>2, <2>3, <2>4 DEF SlotStates
  <2>6. slots' \in [Slots -> SlotStates] /\ \A t \in Slots : slots'[t].at = slots[t].at
    BY <1>0, <2>1, <2>2, <2>5
  <2>7. HasJob'
    BY <1>0, <2>1, <2>2, <2>5 DEF Core, HasJob
  <2>8. Blocked' = Blocked
    BY <2>6 DEF Blocked
  <2>9. s \in Blocked
    BY <1>0 DEF Blocked
  <2>10. QueueOK'
    <3>1. \A t, u : <<t, u>> \in queued => t \in Blocked /\ u \in Blocked
      BY DEF Core, QueueOK
    <3>2. \A t, u : <<t, u>> \in queued' <=>
             \/ <<t, u>> \in queued /\ t # s
             \/ t \in Blocked /\ t # s /\ u = s
      BY <1>4
    <3>3. queued' \subseteq Blocked \X Blocked
      BY <1>4, <2>9 DEF Core, QueueOK
    <3>4. \A t, u \in Blocked : t # u => (<<t, u>> \in queued <=> <<u, t>> \notin queued)
      BY DEF Core, QueueOK
    <3>5. ASSUME NEW t \in Blocked, NEW u \in Blocked, t # u
          PROVE  <<t, u>> \in queued' <=> <<u, t>> \notin queued'
      BY <3>2, <3>4, <3>5
    <3>. QED  BY <2>8, <3>3, <3>5 DEF QueueOK
  <2>. QED  BY <1>0, <1>2, <2>6, <2>7, <2>10 DEF Core, NoneForgotten
<1>. QED  BY <1>3, <1>4 DEF PopLost

LEMMA ArmingLostKeeps ==
    ASSUME Core, NEW s \in Slots, ArmingLost(s)
    PROVE  Core'
<1>1. /\ slots \in [Slots -> SlotStates] /\ slots[s].at # "block"
      /\ faults' = TRUE /\ UNCHANGED <<db, queued>>
  BY DEF Core, ArmingLost, Fails
<1>2. PICK where \in {"ready", "gone"} : slots' = [slots EXCEPT ![s] = At(where)]
  BY DEF ArmingLost, Go
<1>3. At(where) \in SlotStates /\ At(where).at = where
  BY AtIsASlotState
<1>4. slots' \in [Slots -> SlotStates]
  BY <1>1, <1>2, <1>3
<1>5. QueueOK'
  BY <1>1, <1>2, <1>3, SameQueue DEF Core
<1>6. HasJob'
  BY <1>1, <1>2, <1>3 DEF Core, HasJob
<1>. QED  BY <1>1, <1>4, <1>5, <1>6 DEF Core, NoneForgotten

-----------------------------------------------------------------------------
(* Producers, operators and the sweep. *)

LEMMA AddKeeps ==
    ASSUME Core, NEW j \in Jobs, Add(j)
    PROVE  Core'
<1>1. PICK delay \in Delays : Write(AddJob(db, j, delay))
  BY DEF Add
<1>2. PICK d : d = AddJob(db, j, delay)
  OBVIOUS
<1>3. delay \in Nat
  BY WakeupAssumption
<1>4. Sound(d) /\ Quiet(db, d)
  BY <1>2, <1>3, AddJobSound DEF Core
<1>. QED  BY <1>1, <1>2, <1>4, WriteKeeps DEF Write, Add

LEMMA RemoveJobKeeps ==
    ASSUME Core, NEW j \in Jobs, RemoveJob(j)
    PROVE  Core'
<1>1. PICK d : d = Settle(db, j)
  OBVIOUS
<1>2. Sound(d) /\ Quiet(db, d)
  BY <1>1, SettleSound DEF Core
<1>. QED  BY <1>1, <1>2, WriteKeeps DEF Write, RemoveJob

LEMMA RequeueKeeps ==
    ASSUME Core, NEW j \in Jobs, PromoteJob(j) \/ SweepRecovers(j) \/ SweepTakesOver(j)
    PROVE  Core'
<1>1. PICK d : d = Enqueue(db, j)
  OBVIOUS
<1>2. Sound(d) /\ Quiet(db, d)
  BY <1>1, EnqueueSound DEF Core
<1>. QED  BY <1>1, <1>2, WriteKeeps DEF Write, PromoteJob, SweepRecovers, SweepTakesOver

LEMMA SweepFailsKeeps ==
    ASSUME Core, NEW j \in Jobs, SweepFails(j)
    PROVE  Core'
<1>1. PICK u : u = Settle(db, j)
  OBVIOUS
<1>2. Sound(u) /\ Quiet(db, u)
  BY <1>1, SettleSound DEF Core
<1>3. PICK d : d = WakeIfWaiting(u)
  OBVIOUS
<1>4. Sound(d) /\ Quiet(db, d)
  BY <1>2, <1>3, WakeIfWaitingSound, QuietIsTransitive
<1>. QED  BY <1>1, <1>3, <1>4, WriteKeeps DEF Write, SweepFails

\* The slots go on as they were, and a wake is at hand or the queue is closed.
LEMMA GatesKeep ==
    ASSUME Core, NEW d, Sound(d), d.job = db.job, db' = d, UNCHANGED <<queued, slots, faults>>,
           ~faults /\ Open(d) => Witness'
    PROVE  Core'
<1>1. QueueOK'
  BY SameQueue DEF Core
<1>2. HasJob' /\ (~faults => Manned')
  BY DEF Core, HasJob, Manned
<1>3. Open(db)' <=> Open(d)
  BY DEF Open, Capped, In
<1>4. NoneForgotten'
  BY <1>3 DEF NoneForgotten, Witness
<1>. QED  BY <1>1, <1>2, <1>4 DEF Core

\* A gate is moved, and the jobs are untouched.
LEMMA GateSound ==
    ASSUME NEW d, Sound(d), NEW p \in BOOLEAN, NEW c \in Nat,
           NEW e, e \in {[d EXCEPT !.paused = p], [d EXCEPT !.cap = c]}
    PROVE  Sound(e) /\ e.job = d.job
<1>1. d \in Dbs
  BY DEF Sound
<1>2. e \in Dbs /\ SameJobs(d, e)
  BY <1>1 DEF Dbs, SameJobs
<1>. QED  BY <1>2, SameJobsSound DEF SameJobs

LEMMA PauseKeeps ==
    ASSUME Core, Pause
    PROVE  Core'
<1>0. Sound(db) /\ db \in Dbs /\ db.cap \in Nat
  BY DbFields DEF Core, Sound
<1>1. PICK d : d = [db EXCEPT !.paused = TRUE]
  OBVIOUS
<1>2. d \in {[db EXCEPT !.paused = TRUE], [db EXCEPT !.cap = db.cap]}
  BY <1>1
<1>3. Sound(d) /\ d.job = db.job /\ d.paused
  BY <1>0, <1>1, <1>2, GateSound DEF Dbs
<1>. QED  BY <1>1, <1>3, GatesKeep DEF Pause, Write, Open

LEMMA ResumeKeeps ==
    ASSUME Core, Resume
    PROVE  Core'
<1>0. Sound(db) /\ db \in Dbs /\ db.cap \in Nat
  BY DbFields DEF Core, Sound
<1>1. PICK d : d = [db EXCEPT !.paused = FALSE]
  OBVIOUS
<1>2. d \in {[db EXCEPT !.paused = FALSE], [db EXCEPT !.cap = db.cap]}
  BY <1>1
<1>3. Sound(d) /\ d.job = db.job
  BY <1>0, <1>2, GateSound
<1>. QED  BY <1>1, <1>3, GatesKeep DEF Resume, Write, Witness

LEMMA SetLimitsKeeps ==
    ASSUME Core, SetLimits
    PROVE  Core'
<1>0. Sound(db) /\ db \in Dbs /\ db.paused \in BOOLEAN
  BY DbFields DEF Core, Sound
<1>1. PICK c \in Caps : Write([db EXCEPT !.cap = c])
  BY DEF SetLimits
<1>2. PICK d : d = [db EXCEPT !.cap = c]
  OBVIOUS
<1>3. d \in {[db EXCEPT !.paused = db.paused], [db EXCEPT !.cap = c]} /\ c \in Nat
  BY <1>2, WakeupAssumption
<1>4. Sound(d) /\ d.job = db.job
  BY <1>0, <1>3, GateSound
<1>. QED  BY <1>1, <1>2, <1>4, GatesKeep DEF SetLimits, Write, Witness

LEMMA ArmKeeps ==
    ASSUME Core, Arm
    PROVE  Core'
<1>1. PICK d : d = [db EXCEPT !.work = TRUE]
  OBVIOUS
<1>2. Sound(d) /\ d.job = db.job /\ d.work
  BY <1>1, RaisedSound DEF Core
<1>. QED  BY <1>1, <1>2, GatesKeep DEF Arm, Write, Witness

-----------------------------------------------------------------------------
(* Workers come and go. *)

\* A worker that has gone has left no slot behind.
GoneAltogether == \A s \in Slots : workers[WorkerOf[s]] = "off" => slots[s].at = "gone"

LEMMA StopKeeps ==
    ASSUME Core, Rest, NEW w \in Workers, Stop(w)
    PROVE  Core'
<1>1. workers'[w] = "stopping"
  BY DEF Stop, Rest
<1>. QED  BY <1>1, GatesKeep DEF Stop, Witness, Core

LEMMA StopWakesKeeps ==
    ASSUME Core, NEW w \in Workers, StopWakes(w)
    PROVE  Core'
<1>1. PICK d : d = [db EXCEPT !.work = TRUE]
  OBVIOUS
<1>2. Sound(d) /\ d.job = db.job /\ d.work
  BY <1>1, RaisedSound DEF Core
<1>. QED  BY <1>1, <1>2, GatesKeep DEF StopWakes, Witness

\* The slots of a worker, wherever it put them; nobody else's moves.
LEMMA EndsTypes ==
    ASSUME Core, NEW w \in Workers, Ends(w)
    PROVE  /\ slots' \in [Slots -> SlotStates]
           /\ \A s \in Slots : IF WorkerOf[s] = w THEN slots'[s] = At("gone") ELSE slots'[s] = slots[s]
           /\ QueueOK' /\ HasJob'
<1>1. slots \in [Slots -> SlotStates] /\ At("gone") \in SlotStates /\ At("gone").at = "gone"
  BY AtIsASlotState DEF Core
<1>2. /\ slots' = [s \in Slots |-> IF s \in SlotsOf(w) THEN At("gone") ELSE slots[s]]
      /\ Leave(SlotsOf(w))
  BY DEF Ends
<1>3. \A s \in Slots : s \in SlotsOf(w) <=> WorkerOf[s] = w
  BY DEF SlotsOf
<1>4. /\ slots' \in [Slots -> SlotStates]
      /\ \A s \in Slots : IF WorkerOf[s] = w THEN slots'[s] = At("gone") ELSE slots'[s] = slots[s]
  BY <1>1, <1>2, <1>3
<1>5. QueueOK'
  BY <1>1, <1>2, <1>3, <1>4, LeaveQueue DEF Core
<1>6. HasJob'
  BY <1>1, <1>4 DEF Core, HasJob
<1>. QED  BY <1>4, <1>5, <1>6

LEMMA DrainedKeeps ==
    ASSUME Core, Rest, NEW w \in Workers, Drained(w)
    PROVE  Core'
<1>1. /\ slots' \in [Slots -> SlotStates] /\ QueueOK' /\ HasJob'
      /\ \A s \in Slots : IF WorkerOf[s] = w THEN slots'[s] = At("gone") ELSE slots'[s] = slots[s]
  BY EndsTypes DEF Drained
<1>2. \A s \in Slots : WorkerOf[s] = w => slots[s].at = "gone"
  BY DEF Drained, SlotsOf
<1>3. At("gone").at = "gone"
  BY AtIsASlotState
<1>4. \A s \in Slots : \/ slots[s].at = "gone" /\ slots'[s].at = "gone"
                      \/ slots'[s] = slots[s]
  BY <1>1, <1>2, <1>3
<1>5. workers' = [workers EXCEPT ![w] = "off"] /\ workers[w] = "draining"
  BY DEF Drained, Ends
<1>6. /\ \A v \in Workers : workers'[v] = "stopping" <=> workers[v] = "stopping"
      /\ \A s \in Slots : Running(s)' <=> Running(s)
  BY <1>5, WakeupAssumption DEF Rest, Running
<1>7. UNCHANGED <<db, arming, faults>>
  BY DEF Drained, Ends
<1>8. ~faults => Manned'
  <2>1. \A j \in Jobs : db.job[j].state = "active" => db.job[j].by \in Slots
    BY DbFields DEF Core, Sound, Owned, JobRecs
  <2>. QED  BY <1>4, <1>7, <2>1 DEF Core, Manned
<1>9. \A s \in Slots : Wakeful(s)' <=> Wakeful(s)
  BY <1>4, <1>6, <1>7 DEF Wakeful
<1>10. Straggler' <=> Straggler
  BY <1>4, <1>6 DEF Straggler
<1>11. (Witness' <=> Witness) /\ (Pending' <=> Pending)
  BY <1>6, <1>7, <1>9, <1>10 DEF Witness, Pending
<1>12. Open(db)' <=> Open(db)
  BY <1>7 DEF Open, Capped, In
<1>13. NoneForgotten'
  BY <1>7, <1>11, <1>12 DEF Core, NoneForgotten
<1>. QED  BY <1>1, <1>7, <1>8, <1>13 DEF Core

LEMMA CutOffKeeps ==
    ASSUME Core, NEW w \in Workers, CutOff(w)
    PROVE  Core'
<1> DEFINE held == {slots[s].job : s \in {r \in SlotsOf(w) :
                       slots[r].at = "run" /\ db.job[slots[r].job].by = r}}
<1>1. PICK order \in Orders(held) : db' = EnqueueAll(db, order)
  BY DEF CutOff
<1>2. held \in SUBSET Jobs
  BY DEF SlotsOf, Core, HasJob
<1>. HIDE DEF held
<1>3. PICK d : d = EnqueueAll(db, order)
  OBVIOUS
<1>4. Sound(d)
  BY <1>1, <1>2, <1>3, EnqueueAllSound DEF Core
<1>5. slots' \in [Slots -> SlotStates] /\ QueueOK' /\ HasJob'
  BY EndsTypes DEF CutOff
<1>6. faults' = TRUE
  BY DEF CutOff
<1>. QED  BY <1>1, <1>3, <1>4, <1>5, <1>6 DEF Core, NoneForgotten

LEMMA CrashKeeps ==
    ASSUME Core, NEW w \in Workers, Crash(w)
    PROVE  Core'
<1>1. slots' \in [Slots -> SlotStates] /\ QueueOK' /\ HasJob'
  BY EndsTypes DEF Crash
<1>2. faults' = TRUE /\ db' = db
  BY DEF Crash
<1>. QED  BY <1>1, <1>2 DEF Core, NoneForgotten

LEMMA StopWakeLostKeeps ==
    ASSUME Core, NEW w \in Workers, StopWakeLost(w)
    PROVE  Core'
<1>1. faults' = TRUE /\ UNCHANGED <<db, queued, slots>>
  BY DEF StopWakeLost, Fails
<1>2. QueueOK'
  BY <1>1, SameQueue DEF Core
<1>. QED  BY <1>1, <1>2 DEF Core, HasJob, NoneForgotten

LEMMA StartKeeps ==
    ASSUME Core, Rest, GoneAltogether, NEW w \in Workers, Start(w)
    PROVE  Core'
<1>1. slots \in [Slots -> SlotStates] /\ At("claim") \in SlotStates /\ At("claim").at = "claim"
  BY AtIsASlotState DEF Core
<1>2. /\ slots' \in [Slots -> SlotStates]
      /\ \A s \in Slots : IF WorkerOf[s] = w THEN slots'[s] = At("claim") ELSE slots'[s] = slots[s]
  BY <1>1 DEF Start, SlotsOf
<1>3. workers' = [workers EXCEPT ![w] = "up"] /\ workers[w] = "off"
  BY DEF Start
<1>4. \A s \in Slots : WorkerOf[s] = w => slots[s].at = "gone" /\ slots'[s].at = "claim" /\ Running(s)'
  BY <1>1, <1>2, <1>3 DEF GoneAltogether, Running, Rest
<1>5. \A s \in Slots : WorkerOf[s] # w => slots'[s] = slots[s] /\ (Running(s)' <=> Running(s))
  BY <1>2, <1>3, WakeupAssumption DEF Rest, Running
<1>6. \A v \in Workers : workers'[v] = "stopping" <=> workers[v] = "stopping"
  BY <1>3 DEF Rest
<1>7. UNCHANGED <<db, queued, arming, faults>>
  BY DEF Start
<1>8. QueueOK'
  BY <1>4, <1>5, <1>7, SameQueue DEF Core
<1>9. HasJob'
  BY <1>4, <1>5 DEF Core, HasJob
<1>10. ~faults => Manned'
  <2>1. \A j \in Jobs : db.job[j].state = "active" => db.job[j].by \in Slots
    BY DbFields DEF Core, Sound, Owned, JobRecs
  <2>. QED  BY <1>4, <1>5, <1>7, <2>1 DEF Core, Manned
<1>11. \A s \in Slots : Wakeful(s) => Wakeful(s)'
  BY <1>4, <1>5, <1>7 DEF Wakeful
<1>12. Straggler' => Straggler
  BY <1>4, <1>5 DEF Straggler
<1>13. (Witness => Witness') /\ (Pending' => Pending)
  BY <1>6, <1>7, <1>11, <1>12 DEF Witness, Pending
<1>14. Open(db)' <=> Open(db)
  BY <1>7 DEF Open, Capped, In
<1>15. NoneForgotten'
  BY <1>7, <1>13, <1>14 DEF Core, NoneForgotten
<1>. QED  BY <1>2, <1>7, <1>8, <1>9, <1>10, <1>15 DEF Core

-----------------------------------------------------------------------------
(* Time passes. *)

LEMMA LessIsNat ==
    ASSUME NEW t \in Nat \cup {None}
    PROVE  Less(t) \in Nat \cup {None} /\ (t \in Nat => Less(t) \in Nat)
BY NoneIsNew DEF Less

Ticked(d) ==
    [d EXCEPT !.job = [j \in Jobs |-> [d.job[j] EXCEPT !.due = Less(@)]],
              !.wakeAt = Less(@),
              !.tokens = IF @ + RlMax < Full THEN @ + RlMax ELSE Full]

LEMMA TickedSound ==
    ASSUME NEW d, Sound(d), NEW e, e = Ticked(d)
    PROVE  /\ Sound(e) /\ e.work = d.work /\ e.paused = d.paused /\ e.cap = d.cap
           /\ \A j \in Jobs : e.job[j].state = d.job[j].state /\ e.job[j].by = d.job[j].by
<1> DEFINE jb == [j \in Jobs |-> [d.job[j] EXCEPT !.due = Less(d.job[j].due)]]
           wa == Less(d.wakeAt)
           tk == IF d.tokens + RlMax < Full THEN d.tokens + RlMax ELSE Full
<1>1. d \in Dbs /\ d.job \in [Jobs -> JobRecs] /\ d.wakeAt \in Nat \cup {None} /\ d.tokens \in 0..Full
  BY DbFields DEF Sound
<1> DEFINE given == [j \in Jobs |-> [d.job[j] EXCEPT !.due = Less(@)]]
<1>0. given = jb
  OBVIOUS
<1>2. e = [d EXCEPT !.job = jb, !.wakeAt = wa, !.tokens = tk]
  <2>1. e = [d EXCEPT !.job = given, !.wakeAt = wa, !.tokens = tk]
    BY DEF Ticked
  <2>. HIDE DEF given, jb
  <2>. QED  BY <1>0, <2>1
<1>3. ASSUME NEW j \in Jobs
      PROVE  /\ jb[j] \in JobRecs /\ jb[j].state = d.job[j].state /\ jb[j].by = d.job[j].by
             /\ jb[j].score = d.job[j].score
  <2>1. d.job[j] \in JobRecs /\ d.job[j].due \in Nat
    BY <1>1 DEF JobRecs
  <2>2. Less(d.job[j].due) \in Nat
    BY <2>1, LessIsNat
  <2>. QED  BY <2>1, <2>2 DEF JobRecs
<1>4. jb \in [Jobs -> JobRecs]
  BY <1>3
<1>5. wa \in Nat \cup {None} /\ tk \in 0..Full
  <2>1. wa \in Nat \cup {None}
    BY <1>1, LessIsNat
  <2>2. Full \in Nat /\ RlMax \in Nat /\ d.tokens \in 0..Full
    BY <1>1, FullIsNat, WakeupAssumption
  <2>. QED  BY <2>1, <2>2
<1>. HIDE DEF jb, wa, tk
<1>6. /\ e \in Dbs /\ e.job = jb /\ e.line = d.line /\ e.pc = d.pc /\ e.work = d.work
      /\ e.paused = d.paused /\ e.cap = d.cap
  BY <1>1, <1>2, <1>4, <1>5 DEF Dbs, JobRecs, Stages, Full
<1>7. \A j \in Jobs : j \in Lined(e) <=> j \in Lined(d)
  BY <1>3, <1>6, LinedMember
<1>8. Lined(e) = Lined(d) /\ Lined(d) \subseteq Jobs
  BY <1>7, LinedMember
<1>9. InLine(e) /\ Numbered(e) /\ Owned(e)
  BY <1>3, <1>6, <1>8 DEF Sound, InLine, Numbered, Owned
<1>. QED  BY <1>3, <1>6, <1>9 DEF Sound

LEMMA TickKeeps ==
    ASSUME Core, Tick
    PROVE  Core'
<1>1. PICK d : d = Ticked(db)
  OBVIOUS
<1>2. /\ Sound(d) /\ d.work = db.work /\ d.paused = db.paused /\ d.cap = db.cap
      /\ \A j \in Jobs : d.job[j].state = db.job[j].state /\ d.job[j].by = db.job[j].by
  BY <1>1, TickedSound DEF Core
<1>3. db' = d
  BY <1>1 DEF Tick, Ticked, Full
<1>4. slots \in [Slots -> SlotStates] /\ slots' = [s \in Slots |-> [slots[s] EXCEPT !.left = Less(@)]]
  BY DEF Core, Tick
<1>5. ASSUME NEW s \in Slots
      PROVE  slots'[s] \in SlotStates /\ slots'[s].at = slots[s].at /\ slots'[s].job = slots[s].job
  <2>1. slots[s] \in SlotStates /\ slots[s].left \in Nat
    BY <1>4 DEF SlotStates
  <2>2. Less(slots[s].left) \in Nat
    BY <2>1, LessIsNat
  <2>3. slots'[s] = [slots[s] EXCEPT !.left = Less(slots[s].left)]
    BY <1>4
  <2>. QED  BY <2>1, <2>2, <2>3 DEF SlotStates
<1>6. slots' \in [Slots -> SlotStates]
  BY <1>4, <1>5
<1>7. QueueOK'
  BY <1>5, SameQueue DEF Core, Tick
<1>8. HasJob'
  BY <1>5 DEF Core, HasJob
<1>9. ~faults => Manned'
  <2>1. \A j \in Jobs : db.job[j].state = "active" => db.job[j].by \in Slots
    BY DbFields DEF Core, Sound, Owned, JobRecs
  <2>. QED  BY <1>2, <1>3, <1>5, <2>1 DEF Core, Manned
<1>10. ~Straggler'
  BY <1>5 DEF Straggler, Tick, Asleep
<1>11. Pending' => Pending
  BY <1>2, <1>3, <1>10 DEF Pending
<1>12. UNCHANGED <<workers, arming, faults>>
  BY DEF Tick
<1>13. \A s \in Slots : Wakeful(s) => Wakeful(s)'
  BY <1>2, <1>3, <1>5, <1>8, <1>12 DEF Wakeful, Running, HasJob
<1>14. Witness => Witness'
  BY <1>2, <1>3, <1>12, <1>13 DEF Witness
<1>15. Open(db)' <=> Open(db)
  <2>1. Open(d) <=> Open(db)
    BY <1>2, OpenIsSame
  <2>. QED  BY <1>3, <2>1 DEF Open, Capped, In
<1>16. NoneForgotten'
  BY <1>11, <1>12, <1>14, <1>15 DEF Core, NoneForgotten
<1>. QED  BY <1>2, <1>3, <1>6, <1>7, <1>8, <1>9, <1>12, <1>16 DEF Core

-----------------------------------------------------------------------------
(* Every step. *)

LEMMA SlotStepMoves ==
    ASSUME Core, NEW s \in Slots, SlotStep(s)
    PROVE  slots[s].at # "gone" /\ workers' = workers /\ \A t \in Slots \ {s} : slots'[t] = slots[t]
<1>1. slots \in [Slots -> SlotStates]
  BY DEF Core
<1>2. CASE Claim(s)
  BY <1>1, <1>2 DEF Claim, Loaded
<1>3. CASE LimitedEnds(s) \/ Woken(s) \/ FinishLost(s) \/ FinishCancelled(s)
  BY <1>1, <1>3 DEF LimitedEnds, Woken, FinishLost, FinishCancelled, Holds, Go
<1>4. CASE Pop(s) \/ Timeout(s)
  BY <1>1, <1>4 DEF Pop, Turn, Timeout, Go
<1>5. CASE Block(s)
  BY <1>1, <1>5 DEF Block, Go
<1>6. CASE EndProcessor(s)
  BY <1>1, <1>6 DEF EndProcessor
<1>7. CASE Finish(s) \/ FinishRetries(s)
  BY <1>1, <1>7 DEF Finish, FinishRetries, Commit, Loaded, Holds
<1>8. CASE PopLost(s) \/ ArmingLost(s)
  BY <1>1, <1>8 DEF PopLost, ArmingLost, Turn, Go
<1>. QED  BY <1>2, <1>3, <1>4, <1>5, <1>6, <1>7, <1>8 DEF SlotStep

LEMMA GoneAltogetherKeeps ==
    ASSUME Core, Rest, GoneAltogether, Next
    PROVE  GoneAltogether'
<1>0. slots \in [Slots -> SlotStates] /\ At("gone").at = "gone"
  BY AtIsASlotState DEF Core
<1>1. ASSUME NEW s \in Slots, SlotStep(s)  PROVE GoneAltogether'
  <2>1. slots[s].at # "gone" /\ workers' = workers /\ \A t \in Slots \ {s} : slots'[t] = slots[t]
    BY <1>1, SlotStepMoves
  <2>. QED  BY <2>1 DEF GoneAltogether
<1>2. ASSUME NEW j \in Jobs, JobStep(j)  PROVE GoneAltogether'
  <2>1. UNCHANGED <<slots, workers>>
    BY <1>2 DEF JobStep, Add, RemoveJob, PromoteJob, SweepRecovers, SweepFails, SweepTakesOver, Write
  <2>. QED  BY <2>1 DEF GoneAltogether
<1>3. ASSUME NEW w \in Workers, Stop(w) \/ StopWakes(w) \/ StopWakeLost(w)  PROVE GoneAltogether'
  <2>1. slots' = slots /\ \A v \in Workers : workers'[v] = "off" => workers[v] = "off"
    BY <1>3 DEF Stop, StopWakes, StopWakeLost, Rest
  <2>. QED  BY <2>1, WakeupAssumption DEF GoneAltogether
<1>4. ASSUME NEW w \in Workers, Ends(w)  PROVE GoneAltogether'
  <2>1. workers' = [workers EXCEPT ![w] = "off"]
    BY <1>4 DEF Ends
  <2>2. \A s \in Slots : IF WorkerOf[s] = w THEN slots'[s] = At("gone") ELSE slots'[s] = slots[s]
    BY <1>4, EndsTypes
  <2>3. \A s \in Slots : WorkerOf[s] # w => workers'[WorkerOf[s]] = workers[WorkerOf[s]]
    BY <2>1, WakeupAssumption DEF Rest
  <2>. QED  BY <1>0, <2>2, <2>3 DEF GoneAltogether
<1>5. ASSUME NEW w \in Workers, Start(w)  PROVE GoneAltogether'
  <2>1. workers' = [workers EXCEPT ![w] = "up"]
    BY <1>5 DEF Start
  <2>2. \A s \in Slots : WorkerOf[s] # w => slots'[s] = slots[s]
    BY <1>5 DEF Start, SlotsOf
  <2>3. \A s \in Slots : IF WorkerOf[s] = w THEN workers'[WorkerOf[s]] = "up"
                         ELSE workers'[WorkerOf[s]] = workers[WorkerOf[s]]
    BY <2>1, WakeupAssumption DEF Rest
  <2>. QED  BY <2>2, <2>3 DEF GoneAltogether
<1>6. ASSUME Pause \/ Resume \/ SetLimits \/ Arm  PROVE GoneAltogether'
  <2>1. UNCHANGED <<slots, workers>>
    BY <1>6 DEF Pause, Resume, SetLimits, Arm, Write
  <2>. QED  BY <2>1 DEF GoneAltogether
<1>7. ASSUME Tick  PROVE GoneAltogether'
  <2>1. workers' = workers /\ \A s \in Slots : slots'[s].at = slots[s].at
    BY <1>0, <1>7 DEF Tick, SlotStates
  <2>. QED  BY <2>1 DEF GoneAltogether
<1>. QED  BY <1>1, <1>2, <1>3, <1>4, <1>5, <1>6, <1>7 DEF Next, WorkerStep, Drained, CutOff, Crash

DueOK == dueMs \in [Workers -> Nat \cup {None}]

LEMMA LoadedDue ==
    ASSUME DueOK, NEW s \in Slots, NEW a, a.ms \in Nat, Loaded(s, a)
    PROVE  DueOK'
<1>1. WorkerOf[s] \in Workers
  BY WakeupAssumption
<1>. QED  BY <1>1 DEF DueOK, Loaded

LEMMA CommitDue ==
    ASSUME DueOK, NEW s \in Slots, NEW d, Sound(d), Commit(s, d)
    PROVE  DueOK'
<1>1. PICK due \in Promotions(d) :
          Loaded(s, IF slots[s].fetch THEN Fetched(d, due, s) ELSE Unfetched(d, due))
  BY DEF Commit
<1>2. PICK a : a = IF slots[s].fetch THEN Fetched(d, due, s) ELSE Unfetched(d, due)
  OBVIOUS
<1>3. a.ms \in Nat
  BY <1>2, FetchIsTold, UnfetchedIsTold DEF Told
<1>. QED  BY <1>1, <1>2, <1>3, LoadedDue

LEMMA DueKept ==
    ASSUME Core, DueOK, Next
    PROVE  DueOK'
<1>1. ASSUME NEW s \in Slots, Claim(s)  PROVE DueOK'
  <2>1. PICK due \in Promotions(db) : Loaded(s, AcquireNext(db, due, s))
    BY <1>1 DEF Claim
  <2>2. PICK a : a = AcquireNext(db, due, s)
    OBVIOUS
  <2>3. a.ms \in Nat
    BY <1>1, <2>2, ClaimIsTold DEF Told, Claim
  <2>. QED  BY <2>1, <2>2, <2>3, LoadedDue
<1>2. ASSUME NEW s \in Slots, Finish(s) \/ FinishRetries(s)  PROVE DueOK'
  <2>1. slots[s].at = "finish"
    BY <1>2 DEF Finish, FinishRetries, Holds
  <2>2. PICK d : SettledBy(s, d) /\ Commit(s, d)
    BY <1>2, <2>1, FinishSettles DEF Finish, FinishRetries
  <2>. QED  BY <2>2, CommitDue DEF SettledBy
<1>3. ASSUME NEW w \in Workers, Start(w)  PROVE DueOK'
  BY <1>3 DEF Start, DueOK
<1>4. ASSUME Tick  PROVE DueOK'
  <2>1. dueMs' = [w \in Workers |-> Less(dueMs[w])]
    BY <1>4 DEF Tick
  <2>2. \A w \in Workers : Less(dueMs[w]) \in Nat \cup {None}
    BY LessIsNat DEF DueOK
  <2>. QED  BY <2>1, <2>2 DEF DueOK
<1>5. ASSUME UNCHANGED dueMs  PROVE DueOK'
  BY <1>5 DEF DueOK
<1>6. ASSUME NEW s \in Slots, SlotStep(s), ~Claim(s), ~Finish(s), ~FinishRetries(s)
      PROVE  UNCHANGED dueMs
  BY <1>6 DEF SlotStep, LimitedEnds, Block, Pop, Woken, Timeout, EndProcessor, FinishCancelled,
              FinishLost, PopLost, ArmingLost
<1>7. ASSUME NEW j \in Jobs, JobStep(j)  PROVE UNCHANGED dueMs
  BY <1>7 DEF JobStep, Add, RemoveJob, PromoteJob, SweepRecovers, SweepFails, SweepTakesOver, Write
<1>8. ASSUME NEW w \in Workers, WorkerStep(w), ~Start(w)  PROVE UNCHANGED dueMs
  BY <1>8 DEF WorkerStep, Stop, StopWakes, StopWakeLost, Drained, CutOff, Crash, Ends
<1>9. ASSUME Pause \/ Resume \/ SetLimits \/ Arm  PROVE UNCHANGED dueMs
  BY <1>9 DEF Pause, Resume, SetLimits, Arm, Write
<1>. QED  BY <1>1, <1>2, <1>3, <1>4, <1>5, <1>6, <1>7, <1>8, <1>9 DEF Next

\* The operators' budget and the flags.
Flags ==
    /\ workers \in [Workers -> {"up", "stopping", "draining", "off"}]
    /\ arming \in BOOLEAN /\ ops \in 0..MaxOps /\ faults \in BOOLEAN

LEMMA FlagsKept ==
    ASSUME Flags, Next
    PROVE  Flags'
<1>0. ASSUME NEW op, Act(op)  PROVE ops' \in 0..MaxOps
  BY <1>0, WakeupAssumption DEF Flags, Act
<1>1. ASSUME NEW s \in Slots, SlotStep(s)  PROVE Flags'
  <2>1. UNCHANGED <<workers, arming>> /\ (faults' = faults \/ faults' = TRUE)
    BY <1>1 DEF SlotStep, Claim, LimitedEnds, Block, Pop, Woken, Timeout, EndProcessor, Finish,
                FinishRetries, FinishCancelled, FinishLost, Commit, PopLost, ArmingLost, Fails
  <2>2. UNCHANGED ops \/ \E op : Act(op)
    BY <1>1 DEF SlotStep, Claim, LimitedEnds, Block, Pop, Woken, Timeout, EndProcessor, Finish,
                FinishRetries, FinishCancelled, FinishLost, PopLost, ArmingLost
  <2>. QED  BY <1>0, <2>1, <2>2 DEF Flags
<1>2. ASSUME NEW j \in Jobs, JobStep(j)  PROVE Flags'
  <2>1. UNCHANGED <<workers, arming, faults>>
    BY <1>2 DEF JobStep, Add, RemoveJob, PromoteJob, SweepRecovers, SweepFails, SweepTakesOver, Write
  <2>2. UNCHANGED ops \/ \E op : Act(op)
    BY <1>2 DEF JobStep, Add, RemoveJob, PromoteJob, SweepRecovers, SweepFails, SweepTakesOver
  <2>. QED  BY <1>0, <2>1, <2>2 DEF Flags
<1>3. ASSUME NEW w \in Workers, WorkerStep(w)  PROVE Flags'
  <2>1. /\ arming' = arming /\ (faults' = faults \/ faults' = TRUE)
        /\ \E v \in {"up", "stopping", "draining", "off"} : workers' = [workers EXCEPT ![w] = v]
    BY <1>3 DEF WorkerStep, Stop, StopWakes, StopWakeLost, Fails, Drained, CutOff, Crash, Start,
                Ends
  <2>2. UNCHANGED ops \/ \E op : Act(op)
    BY <1>3 DEF WorkerStep, Stop, StopWakes, StopWakeLost, Drained, CutOff, Crash, Start
  <2>. QED  BY <1>0, <2>1, <2>2 DEF Flags
<1>4. ASSUME Pause \/ Resume \/ SetLimits \/ Arm  PROVE Flags'
  <2>1. UNCHANGED <<workers, faults>> /\ arming' \in BOOLEAN
    BY <1>4 DEF Pause, Resume, SetLimits, Arm, Write, Flags
  <2>2. UNCHANGED ops \/ \E op : Act(op)
    BY <1>4 DEF Pause, Resume, SetLimits, Arm
  <2>. QED  BY <1>0, <2>1, <2>2 DEF Flags
<1>5. ASSUME Tick  PROVE Flags'
  BY <1>5 DEF Tick, Flags
<1>. QED  BY <1>1, <1>2, <1>3, <1>4, <1>5 DEF Next

IInv == Core /\ Rest /\ GoneAltogether

LEMMA StepKeeps ==
    ASSUME IInv, [Next]_vars
    PROVE  IInv'
<1>0. Core /\ Rest /\ GoneAltogether
  BY DEF IInv
<1>1. CASE UNCHANGED vars
  <2>1. UNCHANGED <<db, queued, slots, workers, dueMs, arming, ops, faults>>
    BY <1>1 DEF vars
  <2>2. QueueOK'
    BY <1>0, <2>1, SameQueue DEF Core
  <2>3. \A s \in Slots : (Wakeful(s)' <=> Wakeful(s)) /\ (Running(s)' <=> Running(s))
    BY <2>1 DEF Wakeful, Running
  <2>4. (Witness' <=> Witness) /\ (Pending' <=> Pending)
    BY <2>1, <2>3 DEF Witness, Pending, Straggler
  <2>5. Open(db)' <=> Open(db)
    BY <2>1 DEF Open, Capped, In
  <2>6. Core'
    BY <1>0, <2>1, <2>2, <2>4, <2>5 DEF Core, HasJob, Manned, NoneForgotten
  <2>. QED  BY <1>0, <2>1, <2>6 DEF IInv, Rest, GoneAltogether
<1>2. CASE Next
  <2>1. ASSUME NEW s \in Slots, SlotStep(s)  PROVE Core'
    BY <1>0, <2>1, ClaimKeeps, LimitedEndsKeeps, BlockKeeps, PopKeeps, WokenKeeps, TimeoutKeeps,
       EndProcessorKeeps, FinishKeeps, FinishCancelledKeeps, FinishLostKeeps, PopLostKeeps,
       ArmingLostKeeps DEF SlotStep
  <2>2. ASSUME NEW j \in Jobs, JobStep(j)  PROVE Core'
    BY <1>0, <2>2, AddKeeps, RemoveJobKeeps, RequeueKeeps, SweepFailsKeeps DEF JobStep
  <2>3. ASSUME NEW w \in Workers, WorkerStep(w)  PROVE Core'
    BY <1>0, <2>3, StopKeeps, StopWakesKeeps, StopWakeLostKeeps, DrainedKeeps, CutOffKeeps,
       CrashKeeps, StartKeeps DEF WorkerStep
  <2>4. Core'
    BY <1>0, <1>2, <2>1, <2>2, <2>3, PauseKeeps, ResumeKeeps, SetLimitsKeeps, ArmKeeps, TickKeeps
       DEF Next
  <2>5. DueOK' /\ Flags'
    BY <1>0, <1>2, DueKept, FlagsKept DEF Rest, DueOK, Flags
  <2>6. GoneAltogether'
    BY <1>0, <1>2, GoneAltogetherKeeps
  <2>. QED  BY <2>4, <2>5, <2>6 DEF IInv, Rest, DueOK, Flags
<1>. QED  BY <1>1, <1>2

LEMMA InitHolds == Init => IInv
<1> SUFFICES ASSUME Init  PROVE IInv
  OBVIOUS
<1>1. PICK c \in Caps :
         db = [job |-> [j \in Jobs |-> [state |-> "new", score |-> 0, due |-> 0, by |-> None]],
               pc |-> 0, work |-> FALSE, wakeAt |-> None, paused |-> FALSE, cap |-> c,
               tokens |-> RlMax * RlDuration, holder |-> [k \in Keys |-> None], line |-> {}]
  BY DEF Init
<1> DEFINE jb == [j \in Jobs |-> Blank("new")]
<1>2. jb \in [Jobs -> JobRecs] /\ \A j \in Jobs : jb[j] = Blank("new")
  BY DEF JobRecs, Stages, Blank
<1>3. /\ db = [job |-> jb, pc |-> 0, work |-> FALSE, wakeAt |-> None, paused |-> FALSE, cap |-> c,
               tokens |-> Full, holder |-> [k \in Keys |-> None], line |-> {}]
  BY <1>1 DEF Full, Blank
<1>. HIDE DEF jb
<1>4. c \in Nat /\ Full \in 0..Full
  BY FullIsNat, WakeupAssumption
<1>5. db \in Dbs /\ db.job = jb /\ db.line = {} /\ ~db.work /\ db.pc = 0
  BY <1>2, <1>3, <1>4 DEF Dbs, JobRecs, Stages, Full
<1>6. \A j \in Jobs : db.job[j].state = "new" /\ db.job[j].by = None
  BY <1>2, <1>5 DEF Blank
<1>7. Lined(db) = {}
  BY <1>6 DEF Lined, In
<1>8. Sound(db)
  BY <1>5, <1>6, <1>7 DEF Sound, InLine, Numbered, Owned
<1>9. At("claim") \in SlotStates /\ At("claim").at = "claim"
  BY AtIsASlotState
<1>10. /\ slots \in [Slots -> SlotStates] /\ \A s \in Slots : slots[s].at = "claim"
       /\ queued = {} /\ workers = [w \in Workers |-> "up"] /\ dueMs = [w \in Workers |-> None]
       /\ arming = FALSE /\ ops = 0 /\ faults = FALSE
  BY <1>9 DEF Init
<1>11. QueueOK /\ HasJob
  BY <1>10 DEF QueueOK, HasJob, Blocked
<1>12. Manned
  BY <1>6 DEF Manned
<1>13. ~Pending
  <2>1. ~Straggler
    BY <1>10, WakeupAssumption DEF Straggler, Running
  <2>. QED  BY <1>6, <2>1 DEF Pending
<1>14. Core
  BY <1>8, <1>10, <1>11, <1>12, <1>13 DEF Core, NoneForgotten
<1>15. Rest
  <2>1. ops \in 0..MaxOps
    BY <1>10, WakeupAssumption
  <2>3. arming \in BOOLEAN /\ faults \in BOOLEAN
    BY <1>10
  <2>2. /\ workers \in [Workers -> {"up", "stopping", "draining", "off"}]
        /\ dueMs \in [Workers -> Nat \cup {None}]
    BY <1>10
  <2>. QED  BY <2>1, <2>2, <2>3 DEF Rest
<1>16. GoneAltogether
  BY <1>10, WakeupAssumption DEF GoneAltogether
<1>. QED  BY <1>14, <1>15, <1>16 DEF IInv

LEMMA AlwaysIInv == Spec => []IInv
BY InitHolds, StepKeeps, PTL DEF Spec

-----------------------------------------------------------------------------

\* Whatever is added, claimed, promoted, limited, stopped or killed, the
\* variables stay in their ranges, no claim overdraws the rate limit's tokens,
\* and the blocked slots stand in one line.
THEOREM WakeupTypes == Spec => []TypeOK
<1>1. IInv => TypeOK
  BY CoreTypes DEF IInv
<1>. QED  BY <1>1, AlwaysIInv, PTL

LEMMA CoreLosesNoWake == Core => NoLostWake
<1> SUFFICES ASSUME Core, In(db, "wait") # {}, Open(db), ~faults
             PROVE  \/ db.work \/ arming
                    \/ \E s \in Slots : Awake(s)
                    \/ \E w \in Workers : workers[w] = "stopping"
  BY DEF NoLostWake
<1>1. Pending
  BY DEF Pending, In
<1>2. Witness
  BY <1>1 DEF Core, NoneForgotten
<1>3. \A s \in Slots : Wakeful(s) => Awake(s)
  BY DEF Wakeful, Awake
<1>. QED  BY <1>2, <1>3 DEF Witness

\* While no process dies or is cut off, no wake is lost: whenever a job waits and
\* the queue lets one start, the marker is armed or somebody who will look, or
\* arm it, is awake.
THEOREM NoWakeIsLost == Spec => []NoLostWake
<1>1. IInv => NoLostWake
  BY CoreLosesNoWake DEF IInv
<1>. QED  BY <1>1, AlwaysIInv, PTL

-----------------------------------------------------------------------------
(* Which steps start a job. *)

NoStart == \A j \in Jobs : ~Started(j)

LEMMA QuietStartsNone ==
    ASSUME NEW d, Quiet(db, d), db' = d
    PROVE  NoStart
BY DEF Quiet, NoStart, Started

LEMMA SameJobsStartNone ==
    ASSUME \A j \in Jobs : db'.job[j].state = db.job[j].state
    PROVE  NoStart
BY DEF NoStart, Started

\* Nobody comes to stand before a job that was in the line.
InTurn(d, e) ==
    /\ \A j \in Jobs : Ripe(e, j) => Ripe(d, j)
    /\ NonePasses(d, e)

\* What a claim, or a finish that asks for a job, does to the keys.
Took(s) ==
    \E d, e, a : /\ Quiet(db, d) /\ InTurn(db, d) /\ Promoted(d, e)
                 /\ Told(d, e, a, s) /\ db' = a.db

LEMMA ClaimTakes ==
    ASSUME Core, NEW s \in Slots, Claim(s)
    PROVE  Took(s)
<1>1. PICK due \in Promotions(db) : Loaded(s, AcquireNext(db, due, s))
  BY DEF Claim
<1>2. PICK a : a = AcquireNext(db, due, s)
  OBVIOUS
<1>3. PICK e : Promoted(db, e) /\ Told(db, e, a, s)
  BY <1>2, ClaimIsTold DEF Claim
<1>4. db' = a.db
  BY <1>1, <1>2 DEF Loaded
<1>5. Quiet(db, db) /\ InTurn(db, db)
  BY DEF Quiet, InTurn, NonePasses
<1>. QED  BY <1>3, <1>4, <1>5 DEF Took

\* The job of a finish that goes back in the queue joins the end of the line.
LEMMA RetryInTurn ==
    ASSUME NEW d, Sound(d), NEW j \in Jobs, d.job[j].state = "active", NEW backoff \in Nat,
           NEW e, e = Park(Left(d, j, "gone"), j, backoff)
    PROVE  Sound(e) /\ Quiet(d, e) /\ InTurn(d, e)
<1>1. PICK u : u = Left(d, j, "gone")
  OBVIOUS
<1>2. Sound(u) /\ Quiet(d, u) /\ Shrinks(d, u)
  BY <1>1, LeftGone
<1>3. e = Park(u, j, backoff)
  BY <1>1
<1>4. Sound(e) /\ Quiet(u, e)
  BY <1>2, <1>3, ParkSound
<1>5. CASE backoff > 0
  <2>1. Shrinks(u, e)
    BY <1>2, <1>3, <1>5, DelayedSound DEF Park
  <2>. QED  BY <1>2, <1>4, <2>1, QuietIsTransitive, ShrinksIsTransitive DEF Shrinks, InTurn, NonePasses
<1>6. CASE ~(backoff > 0)
  <2>1. e = Enqueue(u, j)
    BY <1>3, <1>6 DEF Park
  <2>2. e.job[j].state = "wait" /\ \A i \in Jobs \ {j} : e.job[i] = u.job[i]
    BY <1>2, <2>1, EnqueueSound
  <2>3. \A i \in Jobs : Ripe(e, i) => Ripe(u, i)
    BY <2>2 DEF Ripe
  <2>4. j \notin Lined(d) /\ Lined(d) \subseteq Jobs
    BY LinedMember
  <2>5. NonePasses(d, e)
    <3>1. PICK v : v = Scored(u, Alone(j), "wait", 0)
      OBVIOUS
    <3>2. {j} \in SUBSET Jobs /\ Alone(j) \in Orders({j}) /\ DOMAIN Alone(j) = {j}
      BY AloneIsAnOrder
    <3>3. ScoredAs(u, v, Alone(j), "wait", 0)
      BY <1>2, <3>1, <3>2, ScoredDb DEF Sound
    <3>4. v \in Dbs /\ e.line = v.line
      BY <2>1, <3>1, <3>3 DEF Enqueue, EnqueueAll, ScoredAs, Dbs
    <3>5. \A i, k \in Jobs : <<i, k>> \in e.line /\ k # j => <<i, k>> \in u.line
      BY <3>2, <3>3, <3>4 DEF ScoredAs, Joined
    <3>. QED  BY <1>2, <2>4, <3>5 DEF Shrinks, NonePasses
  <2>. QED  BY <1>2, <1>4, <2>3, <2>5, QuietIsTransitive DEF InTurn, Shrinks
<1>. QED  BY <1>5, <1>6

LEMMA CommitTakes ==
    ASSUME NEW s \in Slots, NEW d, Sound(d), Quiet(db, d), InTurn(db, d), Commit(s, d)
    PROVE  Took(s)
<1>1. PICK due \in Promotions(d) :
          Loaded(s, IF slots[s].fetch THEN Fetched(d, due, s) ELSE Unfetched(d, due))
  BY DEF Commit
<1>2. PICK a : a = IF slots[s].fetch THEN Fetched(d, due, s) ELSE Unfetched(d, due)
  OBVIOUS
<1>3. PICK e : Promoted(d, e) /\ Told(d, e, a, s)
  BY <1>2, FetchIsTold, UnfetchedIsTold
<1>4. db' = a.db
  BY <1>1, <1>2 DEF Loaded
<1>. QED  BY <1>3, <1>4 DEF Took

LEMMA SettleInTurn ==
    ASSUME NEW d, Sound(d), NEW j \in Jobs, NEW e, e = Settle(d, j)
    PROVE  Sound(e) /\ Quiet(d, e) /\ InTurn(d, e)
BY SettleSound DEF Shrinks, InTurn, NonePasses

LEMMA FinishTakes ==
    ASSUME Core, NEW s \in Slots, Finish(s) \/ FinishRetries(s) \/ FinishCancelled(s)
    PROVE  Took(s)
<1>1. PICK j \in Jobs : j = slots[s].job /\ db.job[j].by = s
  BY DEF Finish, FinishRetries, FinishCancelled, Holds, Core, HasJob
<1>2. Sound(db) /\ db.job[j].state = "active"
  BY <1>1, NoneIsNew DEF Core, Sound, Owned
<1>3. CASE Finish(s)
  <2>1. PICK d : d = Settle(db, j)
    OBVIOUS
  <2>2. Commit(s, d)
    BY <1>1, <1>3, <2>1 DEF Finish
  <2>. QED  BY <1>2, <2>1, <2>2, SettleInTurn, CommitTakes
<1>4. CASE FinishRetries(s)
  <2>1. PICK backoff \in Delays : Commit(s, Park(Left(db, j, "gone"), j, backoff))
    BY <1>1, <1>4 DEF FinishRetries
  <2>2. PICK d : d = Park(Left(db, j, "gone"), j, backoff)
    OBVIOUS
  <2>3. backoff \in Nat
    BY WakeupAssumption
  <2>4. Sound(d) /\ Quiet(db, d) /\ InTurn(db, d)
    BY <1>2, <2>2, <2>3, RetryInTurn
  <2>. QED  BY <2>1, <2>2, <2>4, CommitTakes
<1>5. CASE FinishCancelled(s)
  <2>1. PICK d : d = Settle(db, j)
    OBVIOUS
  <2>2. Sound(d) /\ Quiet(db, d) /\ InTurn(db, d)
    BY <1>2, <2>1, SettleInTurn
  <2>3. PICK due \in Promotions(d) : db' = Unfetched(d, due).db
    BY <1>1, <1>5, <2>1 DEF FinishCancelled
  <2>4. PICK a : a = Unfetched(d, due)
    OBVIOUS
  <2>5. PICK e : Promoted(d, e) /\ Told(d, e, a, s)
    BY <2>2, <2>4, UnfetchedIsTold
  <2>. QED  BY <2>2, <2>3, <2>4, <2>5 DEF Took
<1>. QED  BY <1>3, <1>4, <1>5

LEMMA OtherSlotStepsStartNone ==
    ASSUME Core, NEW s \in Slots,
           \/ LimitedEnds(s) \/ Block(s) \/ Pop(s) \/ Woken(s) \/ Timeout(s)
           \/ EndProcessor(s) \/ FinishLost(s) \/ PopLost(s) \/ ArmingLost(s)
    PROVE  NoStart
<1>1. db \in Dbs
  BY DEF Core, Sound
<1>2. db'.job = db.job
  BY <1>1 DEF Dbs, LimitedEnds, Block, Pop, Popped, Woken, Timeout, EndProcessor, FinishLost,
              PopLost, ArmingLost
<1>. QED  BY <1>2, SameJobsStartNone

LEMMA JobStepStartsNone ==
    ASSUME Core, NEW j \in Jobs, JobStep(j)
    PROVE  NoStart
<1>0. Sound(db)
  BY DEF Core
<1>1. CASE Add(j)
  <2>1. PICK delay \in Delays : db' = AddJob(db, j, delay)
    BY <1>1 DEF Add, Write
  <2>2. delay \in Nat
    BY WakeupAssumption
  <2>3. PICK d : d = AddJob(db, j, delay)
    OBVIOUS
  <2>. QED  BY <1>0, <2>1, <2>2, <2>3, AddJobSound, QuietStartsNone
<1>2. CASE RemoveJob(j)
  <2>1. PICK d : d = Settle(db, j)
    OBVIOUS
  <2>. QED  BY <1>0, <1>2, <2>1, SettleSound, QuietStartsNone DEF RemoveJob, Write
<1>3. CASE PromoteJob(j) \/ SweepRecovers(j) \/ SweepTakesOver(j)
  <2>1. PICK d : d = Enqueue(db, j)
    OBVIOUS
  <2>2. db' = d
    BY <1>3, <2>1 DEF PromoteJob, SweepRecovers, SweepTakesOver, Write
  <2>. QED  BY <1>0, <2>1, <2>2, EnqueueSound, QuietStartsNone
<1>4. CASE SweepFails(j)
  <2>1. PICK u : u = Settle(db, j)
    OBVIOUS
  <2>2. Sound(u) /\ Quiet(db, u)
    BY <1>0, <2>1, SettleSound
  <2>3. PICK d : d = WakeIfWaiting(u)
    OBVIOUS
  <2>4. Quiet(db, d)
    BY <2>2, <2>3, WakeIfWaitingSound, QuietIsTransitive
  <2>. QED  BY <1>4, <2>1, <2>3, <2>4, QuietStartsNone DEF SweepFails, Write
<1>. QED  BY <1>1, <1>2, <1>3, <1>4 DEF JobStep

LEMMA WorkerStepStartsNone ==
    ASSUME Core, NEW w \in Workers, WorkerStep(w)
    PROVE  NoStart
<1>1. CASE CutOff(w)
  <2> DEFINE held == {slots[s].job : s \in {r \in SlotsOf(w) :
                         slots[r].at = "run" /\ db.job[slots[r].job].by = r}}
  <2>1. PICK order \in Orders(held) : db' = EnqueueAll(db, order)
    BY <1>1 DEF CutOff
  <2>2. held \in SUBSET Jobs
    BY DEF SlotsOf, Core, HasJob
  <2>. HIDE DEF held
  <2>3. PICK d : d = EnqueueAll(db, order)
    OBVIOUS
  <2>4. Quiet(db, d)
    BY <2>1, <2>2, <2>3, EnqueueAllSound DEF Core
  <2>. QED  BY <2>1, <2>3, <2>4, QuietStartsNone
<1>2. CASE ~CutOff(w)
  <2>1. db \in Dbs
    BY DEF Core, Sound
  <2>2. db'.job = db.job
    BY <1>2, <2>1 DEF Dbs, WorkerStep, Stop, StopWakes, StopWakeLost, Drained, Crash, Start
  <2>. QED  BY <2>2, SameJobsStartNone
<1>. QED  BY <1>1, <1>2

LEMMA TakenOrNoStart ==
    ASSUME Core, [Next]_vars
    PROVE  NoStart \/ \E s \in Slots : Took(s)
<1>1. CASE UNCHANGED vars
  BY <1>1, SameJobsStartNone DEF vars
<1>2. ASSUME NEW s \in Slots, SlotStep(s)  PROVE NoStart \/ Took(s)
  BY <1>2, ClaimTakes, FinishTakes, OtherSlotStepsStartNone DEF SlotStep
<1>3. CASE Pause \/ Resume \/ SetLimits \/ Arm
  <2>1. db \in Dbs
    BY DEF Core, Sound
  <2>2. db'.job = db.job
    BY <1>3, <2>1 DEF Dbs, Pause, Resume, SetLimits, Arm, Write
  <2>. QED  BY <2>2, SameJobsStartNone
<1>4. CASE Tick
  <2>1. PICK d : d = Ticked(db)
    OBVIOUS
  <2>2. db' = d
    BY <1>4, <2>1 DEF Tick, Ticked, Full
  <2>. QED  BY <2>1, <2>2, TickedSound, SameJobsStartNone DEF Core
<1>. QED  BY <1>1, <1>2, <1>3, <1>4, JobStepStartsNone, WorkerStepStartsNone DEF Next

LEMMA TookStarts ==
    ASSUME NEW s \in Slots, NEW d, NEW e, NEW a, Quiet(db, d), Promoted(d, e), Told(d, e, a, s),
           db' = a.db, NEW j \in Jobs, Started(j)
    PROVE  JobFound(e, a, s) /\ j = a.job
<1>1. \A i \in Jobs : e.job[i].state = "active" => db.job[i].state = "active"
  BY DEF Promoted, OnlyRipeWait, Quiet, Ripe
<1>2. e.job[j].state # "active" /\ a.db.job[j].state = "active"
  BY <1>1 DEF Started
<1>. QED  BY <1>2 DEF Told, Idle, LimitFound, JobFound, ClaimedAs

\* One more job than before.
LEMMA OneMore ==
    ASSUME NEW d, NEW e, NEW j \in Jobs, \A i \in Jobs \ {j} : e.job[i] = d.job[i]
    PROVE  /\ Cardinality(In(d, "active")) \in Nat /\ Cardinality(In(e, "active")) \in Nat
           /\ Cardinality(In(e, "active")) <= Cardinality(In(d, "active")) + 1
<1> DEFINE A == In(d, "active")
           B == In(e, "active")
<1>1. IsFiniteSet(A) /\ IsFiniteSet(B)
  BY FS_Subset, WakeupAssumption DEF In
<1>2. B \subseteq A \cup {j}
  BY DEF In
<1>. HIDE DEF A, B
<1>3. IsFiniteSet(A \cup {j})
  BY <1>1, FS_AddElement
<1>4. Cardinality(A \cup {j}) = Cardinality(A) \/ Cardinality(A \cup {j}) = Cardinality(A) + 1
  BY <1>1, FS_AddElement
<1>5. Cardinality(B) <= Cardinality(A \cup {j})
  BY <1>2, <1>3, FS_Subset
<1>6. Cardinality(A) \in Nat /\ Cardinality(B) \in Nat /\ Cardinality(A \cup {j}) \in Nat
  BY <1>1, <1>3, FS_CardinalityType
<1>7. Cardinality(B) <= Cardinality(A) + 1
  BY <1>4, <1>5, <1>6
<1>. QED  BY <1>6, <1>7 DEF A, B

WithinCap ==
    db'.cap > 0 /\ (\E j \in Jobs : Started(j)) => Cardinality(In(db', "active")) <= db'.cap

LEMMA StepWithinCap ==
    ASSUME Core, [Next]_vars
    PROVE  WithinCap
<1> SUFFICES ASSUME db'.cap > 0, NEW j \in Jobs, Started(j)
             PROVE  Cardinality(In(db', "active")) <= db'.cap
  BY DEF WithinCap
<1>1. PICK s \in Slots : Took(s)
  BY TakenOrNoStart DEF NoStart
<1>2. PICK d, e, a : Quiet(db, d) /\ Promoted(d, e) /\ Told(d, e, a, s) /\ db' = a.db
  BY <1>1 DEF Took
<1>3. JobFound(e, a, s)
  BY <1>2, TookStarts
<1>4. ~Capped(e) /\ a.job \in Jobs /\ ClaimedAs(e, a.db, a.job, s)
  BY <1>3 DEF JobFound, In
<1>5. a.db.cap = e.cap /\ \A i \in Jobs \ {a.job} : a.db.job[i] = e.job[i]
  BY <1>4 DEF ClaimedAs
<1>6. e.cap \in Nat
  BY <1>2, DbFields DEF Promoted, Sound
<1>7. /\ Cardinality(In(e, "active")) \in Nat /\ Cardinality(In(a.db, "active")) \in Nat
      /\ Cardinality(In(a.db, "active")) <= Cardinality(In(e, "active")) + 1
  BY <1>4, <1>5, OneMore
<1>8. ~(Cardinality(In(e, "active")) >= e.cap)
  BY <1>2, <1>4, <1>5 DEF Capped
<1>9. Cardinality(In(a.db, "active")) <= a.db.cap
  BY <1>5, <1>6, <1>7, <1>8
<1>. QED  BY <1>2, <1>9 DEF In

\* Only a claim, or a finish that fetches, starts a job, and it does so only
\* under the cap that is in force, however set_limits has moved it.
THEOREM StartsUnderTheCap == Spec => StartsWithinCap
<1>1. IInv /\ [Next]_vars => [WithinCap]_vars
  BY StepWithinCap DEF IInv
<1>2. Spec => [][WithinCap]_vars
  BY <1>1, AlwaysIInv, PTL DEF Spec
<1>. QED  BY <1>2, Zenon DEF StartsWithinCap, WithinCap

-----------------------------------------------------------------------------
(* Claims in order. *)

\* A priority apart is a whole turn of the sequence apart.
LEMMA TurnsApart ==
    ASSUME NEW m \in Nat, NEW n \in Nat, NEW w \in Nat, m < n
    PROVE  m * w + w <= n * w
<1>1. m + 1 <= n
  OBVIOUS
<1>2. n - (m + 1) \in Nat
  BY <1>1
<1>3. (n - (m + 1)) * w >= 0
  BY <1>2, ProductIsNat
<1>. QED  BY <1>3

LEMMA BaseApart ==
    ASSUME NEW j \in Jobs, NEW k \in Jobs, Prio[j] < Prio[k]
    PROVE  Base(k) + SeqWrap <= Base(j)
<1>1. /\ Offset - Prio[k] \in Nat /\ Offset - Prio[j] \in Nat /\ SeqWrap \in Nat
      /\ Offset - Prio[k] < Offset - Prio[j]
  BY WakeupAssumption
<1>. QED  BY <1>1, TurnsApart DEF Base

\* The job with the lowest score is the most urgent, and the first among equals.
LEMMA LowestIsNext ==
    ASSUME NEW e, Sound(e), e.pc < SeqWrap, NEW j \in Lined(e), NEW k \in Lined(e), j # k,
           e.job[j].score <= e.job[k].score
    PROVE  Prio[k] <= Prio[j] /\ (Prio[k] = Prio[j] => <<j, k>> \in e.line)
<1>0. j \in Jobs /\ k \in Jobs
  BY LinedMember
<1>1. /\ Prio[j] \in Nat /\ Prio[k] \in Nat /\ Base(j) \in Nat /\ Base(k) \in Nat /\ SeqWrap \in Nat
      /\ e.pc \in Nat /\ e.job[j].score \in Nat /\ e.job[k].score \in Nat
  BY <1>0, BaseIsInt, DbFields, WakeupAssumption DEF Sound, JobRecs
<1>2. e.job[j].score - Base(j) \in 1..e.pc /\ e.job[k].score - Base(k) \in 1..e.pc
  BY DEF Sound, Numbered
<1>3. ~(Prio[j] < Prio[k])
  <2> SUFFICES ASSUME Prio[j] < Prio[k]  PROVE FALSE
    OBVIOUS
  <2>1. Base(k) + SeqWrap <= Base(j)
    BY <1>0, BaseApart
  <2>. QED  BY <1>1, <1>2, <2>1
<1>4. ASSUME Prio[k] = Prio[j]  PROVE <<j, k>> \in e.line
  <2>1. <<k, j>> \in e.line => e.job[k].score < e.job[j].score
    BY <1>0, <1>4 DEF Sound, Numbered
  <2>2. <<k, j>> \notin e.line
    BY <1>1, <2>1
  <2>. QED  BY <2>2 DEF Sound, InLine
<1>. QED  BY <1>1, <1>3, <1>4

InOrder ==
    \A j, k \in Jobs :
        Started(j) /\ db'.job[k].state = "wait" =>
            /\ Prio[k] <= Prio[j]
            /\ Prio[k] = Prio[j] /\ db.job[k].state \in {"wait", "held"} => <<j, k>> \in db.line

LEMMA StepInOrder ==
    ASSUME Core, [Next]_vars, db'.pc < SeqWrap
    PROVE  InOrder
<1> SUFFICES ASSUME NEW j \in Jobs, NEW k \in Jobs, Started(j), db'.job[k].state = "wait"
             PROVE  /\ Prio[k] <= Prio[j]
                    /\ Prio[k] = Prio[j] /\ db.job[k].state \in {"wait", "held"} => <<j, k>> \in db.line
  BY DEF InOrder
<1>1. PICK s \in Slots : Took(s)
  BY TakenOrNoStart DEF NoStart
<1>2. PICK d, e, a : Quiet(db, d) /\ InTurn(db, d) /\ Promoted(d, e) /\ Told(d, e, a, s) /\ db' = a.db
  BY <1>1 DEF Took
<1>3. JobFound(e, a, s) /\ j = a.job
  BY <1>2, TookStarts
<1>4. /\ ClaimedAs(e, a.db, j, s) /\ j \in In(e, "wait")
      /\ \A i \in In(e, "wait") : e.job[j].score <= e.job[i].score
  BY <1>3 DEF JobFound
<1>5. e.pc < SeqWrap /\ k # j /\ e.job[k].state = "wait"
  BY <1>2, <1>4 DEF ClaimedAs, RunOf
<1>6. j \in Lined(e) /\ k \in Lined(e) /\ e.job[j].score <= e.job[k].score
  BY <1>4, <1>5 DEF Lined, In
<1>7. Prio[k] <= Prio[j] /\ (Prio[k] = Prio[j] => <<j, k>> \in e.line)
  BY <1>2, <1>5, <1>6, LowestIsNext DEF Promoted
<1>8. ASSUME <<j, k>> \in e.line, db.job[k].state \in {"wait", "held"}
      PROVE  <<j, k>> \in db.line
  <2>1. k \in Lined(db) /\ ~Ripe(db, k)
    BY <1>8, LinedMember DEF Ripe
  <2>2. ~Ripe(d, k)
    BY <1>2, <2>1 DEF InTurn
  <2>3. k \in Lined(d)
    BY <1>2, <1>5, <2>2, LinedMember DEF Promoted, OnlyRipeWait
  <2>4. <<j, k>> \in d.line
    BY <1>2, <1>8, <2>3 DEF Promoted, NonePasses
  <2>. QED  BY <1>2, <2>1, <2>4 DEF InTurn, NonePasses
<1>. QED  BY <1>7, <1>8

\* As long as the sequence has not come round, a claim starts the most urgent
\* waiting job, and among equals the one that was given its score first, whatever
\* was put back, handed its key, promoted or reset in between.
THEOREM ClaimsAreInOrder == Spec /\ [](db.pc < SeqWrap) => ClaimInOrder
<1>1. IInv /\ [Next]_vars /\ (db.pc < SeqWrap)' => [InOrder]_vars
  BY StepInOrder DEF IInv
<1>2. Spec /\ [](db.pc < SeqWrap) => [][InOrder]_vars
  BY <1>1, AlwaysIInv, PTL DEF Spec
<1>. QED  BY <1>2, Zenon DEF ClaimInOrder, InOrder

=============================================================================

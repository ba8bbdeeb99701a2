--------------------------- MODULE ToroFlows_proofs ---------------------------
(***************************************************************************)
(* Theorems about ToroFlows, for every forest of flows, every retention and *)
(* every tolerance of failures.                                             *)
(*                                                                          *)
(* No induction over the trees is needed: what a walk up or down a tree     *)
(* reaches is a set, and the ancestors of a node are the least set closed   *)
(* under Parent, so that a fact that holds of the parent and of the parent  *)
(* of whatever it holds of is a fact about all ancestors.                   *)
(***************************************************************************)
EXTENDS ToroFlows, FiniteSetTheorems, TLAPS

-----------------------------------------------------------------------------
(* The trees. *)

\* A set with the parent of j, and closed upward, has every ancestor of j.
LEMMA AboveLeast ==
    ASSUME NEW j \in Nodes, NEW S \in SUBSET Nodes, Upward(S),
           Parent[j] # None => Parent[j] \in S
    PROVE  Above[j] \subseteq S
BY DEF Above

\* The ancestors are nodes, and closed upward.
LEMMA AboveClosed ==
    ASSUME NEW j \in Nodes
    PROVE  /\ Above[j] \subseteq Nodes
           /\ Parent[j] # None => Parent[j] \in Above[j]
           /\ Upward(Above[j])
<1>1. Above[j] \subseteq Nodes
  BY DEF Above
<1>2. Parent[j] # None => Parent[j] \in Above[j]
  BY FlowsAssumption DEF Above
<1>3. ASSUME NEW k \in Above[j], Parent[k] # None
      PROVE  Parent[k] \in Above[j]
  BY <1>3, FlowsAssumption DEF Above, Upward
<1>. QED  BY <1>1, <1>2, <1>3 DEF Upward

\* An ancestor is the parent or an ancestor of the parent.
LEMMA AboveStep ==
    ASSUME NEW j \in Nodes, NEW a \in Above[j]
    PROVE  /\ Parent[j] \in Nodes
           /\ a = Parent[j] \/ a \in Above[Parent[j]]
<1>1. Parent[j] \in Nodes
  <2>1. CASE Parent[j] = None
    <3>1. Above[j] \subseteq {}
      BY <2>1, AboveLeast, {} \in SUBSET Nodes DEF Upward
    <3>. QED  BY <3>1
  <2>. QED  BY <2>1, FlowsAssumption
<1> DEFINE S == {Parent[j]} \cup Above[Parent[j]]
<1>2. S \in SUBSET Nodes
  BY <1>1, AboveClosed
<1>3. Upward(S)
  BY <1>1, AboveClosed DEF Upward
<1>4. Above[j] \subseteq S
  BY <1>2, <1>3, AboveLeast
<1>. QED  BY <1>1, <1>4

\* A root has no ancestor; everything below a node has a parent.
LEMMA RootsTop ==
    ASSUME NEW j \in Nodes, Parent[j] = None
    PROVE  Above[j] = {}
BY AboveStep, FlowsAssumption

\* Ancestors of ancestors are ancestors.
LEMMA AboveTransitive ==
    ASSUME NEW j \in Nodes, NEW k \in Above[j]
    PROVE  Above[k] \subseteq Above[j]
<1>1. k \in Nodes /\ Above[j] \in SUBSET Nodes /\ Upward(Above[j])
  BY AboveClosed
<1>2. Parent[k] # None => Parent[k] \in Above[j]
  BY <1>1 DEF Upward
<1>. QED  BY <1>1, <1>2, AboveLeast

\* An ancestor other than a given root has that root above it.
LEMMA RootAbove ==
    ASSUME NEW j \in Nodes, NEW r \in {j} \cup Above[j], Parent[r] = None,
           NEW x \in Above[j]
    PROVE  r \in {x} \cup Above[x]
<1> DEFINE S == {y \in Above[j] : r \in {y} \cup Above[y]}
<1>1. r \in Above[j]
  BY AboveStep, FlowsAssumption
<1>2. S \in SUBSET Nodes
  BY AboveClosed
<1>3. Parent[j] \in S
  BY <1>1, AboveStep, AboveClosed, FlowsAssumption
<1>4. ASSUME NEW y \in S, Parent[y] # None  PROVE Parent[y] \in S
  <2>1. y \in Nodes /\ Parent[y] \in Above[j]
    BY <1>4, AboveClosed DEF Upward
  <2>2. r \in Above[y]
    BY <1>4
  <2>. QED  BY <2>1, <2>2, AboveStep
<1>5. Upward(S)
  BY <1>4 DEF Upward
<1>. HIDE DEF S
<1>6. Above[j] \subseteq S
  BY <1>2, <1>3, <1>5, AboveLeast
<1>. QED  BY <1>6 DEF S

\* A node has one root.
LEMMA OneRoot ==
    ASSUME NEW j \in Nodes, NEW r \in {j} \cup Above[j], Parent[r] = None
    PROVE  r = RootOf(j)
<1>1. RootOf(j) \in {j} \cup Above[j] /\ Parent[RootOf(j)] = None
  BY DEF RootOf
<1> DEFINE q == RootOf(j)
<1>2. q \in Nodes /\ r \in Nodes
  BY <1>1, AboveClosed
<1>. HIDE DEF q
<1>3. CASE q = j
  BY <1>1, <1>3, RootsTop DEF q
<1>4. CASE q \in Above[j]
  <2>1. r \in {q} \cup Above[q]
    BY <1>4, RootAbove
  <2>2. Above[q] = {}
    BY <1>1, <1>2, RootsTop DEF q
  <2>. QED  BY <2>1, <2>2 DEF q
<1>. QED  BY <1>1, <1>3, <1>4 DEF q

LEMMA RootOfNode ==
    ASSUME NEW j \in Nodes
    PROVE  /\ RootOf(j) \in Roots
           /\ RootOf(j) \in {j} \cup Above[j]
           /\ Parent[j] = None => RootOf(j) = j
<1>1. RootOf(j) \in {j} \cup Above[j] /\ Parent[RootOf(j)] = None
  BY FlowsAreTrees DEF RootOf
<1>. QED  BY <1>1, AboveClosed, RootsTop DEF Roots

\* The ancestors of a node have its root.
LEMMA SameRoot ==
    ASSUME NEW j \in Nodes, NEW a \in Above[j]
    PROVE  a \in Nodes /\ RootOf(a) = RootOf(j)
<1>1. a \in Nodes
  BY AboveClosed
<1>2. RootOf(a) \in {a} \cup Above[a] /\ Parent[RootOf(a)] = None
  BY <1>1, RootOfNode DEF Roots
<1>3. RootOf(a) \in {j} \cup Above[j]
  BY <1>2, AboveTransitive
<1>4. RootOf(a) = RootOf(j)
  <2> DEFINE q == RootOf(a)
  <2>1. q \in {j} \cup Above[j] /\ Parent[q] = None
    BY <1>2, <1>3
  <2>. HIDE DEF q
  <2>2. q = RootOf(j)
    BY <2>1, OneRoot
  <2>. QED  BY <2>2 DEF q
<1>. QED  BY <1>1, <1>4

\* No node is its own ancestor.
LEMMA NoCycle ==
    ASSUME NEW j \in Nodes
    PROVE  j \notin Above[j]
<1>1. SUFFICES ASSUME j \in Above[j]  PROVE FALSE
  OBVIOUS
<1> DEFINE S == {x \in Above[j] : j \in Above[x]}
<1>2. S \in SUBSET Nodes
  BY AboveClosed
<1>3. Parent[j] \in S
  BY <1>1, AboveStep, AboveClosed, FlowsAssumption
<1>4. ASSUME NEW y \in S, Parent[y] # None  PROVE Parent[y] \in S
  BY <1>1, <1>4, AboveClosed, AboveStep DEF Upward
<1>5. Upward(S)
  BY <1>4 DEF Upward
<1>. HIDE DEF S
<1>6. Above[j] \subseteq S
  BY <1>2, <1>3, <1>5, AboveLeast
<1>7. RootOf(j) \in {j} \cup Above[j] /\ RootOf(j) \in Nodes /\ Parent[RootOf(j)] = None
  BY RootOfNode DEF Roots
<1>8. RootOf(j) \in Above[j]
  BY <1>1, <1>7
<1>9. j \in Above[RootOf(j)]
  BY <1>6, <1>8 DEF S
<1>. QED  BY <1>7, <1>9, RootsTop

\* Every ancestor is the parent of the node or of another ancestor.
LEMMA AboveIsParent ==
    ASSUME NEW j \in Nodes, NEW a \in Above[j]
    PROVE  \E b \in {j} \cup Above[j] : Parent[b] = a /\ b \in Nodes
<1> DEFINE S == {x \in Above[j] : \E b \in {j} \cup Above[j] : Parent[b] = x}
<1>1. S \in SUBSET Nodes
  BY AboveClosed
<1>2. Parent[j] # None => Parent[j] \in S
  BY AboveClosed
<1>3. Upward(S)
  BY AboveClosed DEF Upward
<1>4. Above[j] \subseteq S
  BY <1>1, <1>2, <1>3, AboveLeast
<1>. QED  BY <1>4, AboveClosed

\* A child's ancestors are its parent and the parent's ancestors.
LEMMA KidsBelow ==
    ASSUME NEW p \in Nodes, NEW c \in Kids(p)
    PROVE  c \in Nodes /\ Parent[c] = p /\ p \in Above[c] /\ RootOf(c) = RootOf(p) /\ c # p
<1>1. c \in Nodes /\ Parent[c] = p /\ p # None
  BY FlowsAssumption DEF Kids
<1>2. p \in Above[c]
  BY <1>1, AboveClosed
<1>. QED  BY <1>1, <1>2, SameRoot, NoCycle

\* An ancestor has children.
LEMMA AboveHasKids ==
    ASSUME NEW j \in Nodes, NEW a \in Above[j]
    PROVE  Kids(a) # {}
BY AboveIsParent DEF Kids
-----------------------------------------------------------------------------
(* What holds of the database between two steps of a script. *)

\* A fan-in names children of its node, as they ended or once they are gone.
HonestIn(d) ==
    \A p, c \in Nodes, s \in Finished : <<c, s>> \in d.fanin[p] =>
        Parent[c] = p /\ d.state[c] \in {s, None}

\* A finished job above every bound is indexed under its running root.
ReclaimableIn(d) ==
    \A j \in Nodes : IsFinished(d, j) /\ d.score[j] >= LIVE =>
        RunningRoot(d, j) /\ j \in d.live[RootOf(j)]

\* A parked job outside X has every child that is to run or runs in its barrier.
BarrierIn(d, X) ==
    \A p \in Nodes \ X, c \in Nodes :
        Parked(d, p) /\ Parent[c] = p /\ d.state[c] \in Pending => c \in d.deps[p]

\* An index lists descendants of its root.
IndexIn(d) == \A r, j \in Nodes : j \in d.live[r] => RootOf(j) = r /\ Parent[j] # None

\* Of a flow that was not added yet there is nothing.
FreshIn(d, A) ==
    \A j \in Nodes : RootOf(j) \notin A => d.state[j] = None /\ d.fanin[j] = {}

Firm(d, A, X) ==
    /\ d \in Db
    /\ HonestIn(d) /\ ReclaimableIn(d) /\ BarrierIn(d, X) /\ IndexIn(d) /\ FreshIn(d, A)

\* The jobs above j exist.
WholeIn(d, j) == \A a \in Above[j] : Exists(d, a)

\* The place of a finished job: above every bound while its root runs, and
\* later than its root once that has settled.
PlaceOf(d, j) ==
    LET r == RootOf(j)
    IN IF IsFinished(d, r) THEN d.score[r] < d.score[j] ELSE d.score[j] >= LIVE

\* The finished jobs of whole flows are in their places, but in the flows of R.
PlacedIn(d, R) ==
    /\ \A r \in Nodes : Parent[r] = None /\ IsFinished(d, r) => d.score[r] <= now
    /\ \A j \in Nodes :
           Parent[j] # None /\ IsFinished(d, j) /\ WholeIn(d, j) /\ RootOf(j) \notin R
               => PlaceOf(d, j)

Good(d, A, X) == Firm(d, A, X) /\ PlacedIn(d, {})

\* What a script may read as the time.
Clock == {now} \cap 0..MaxNow

\* Node i is as it was.
Same(d, e, i) ==
    /\ e.state[i] = d.state[i] /\ e.deps[i] = d.deps[i] /\ e.fanin[i] = d.fanin[i]
    /\ e.live[i] = d.live[i] /\ e.score[i] = d.score[i] /\ e.cancel[i] = d.cancel[i]

\* A job that is gone is neither finished nor pending.
LEMMA NoneIsNoState == None \notin Finished /\ None \notin Pending
BY FlowsAssumption

\* The keys of J are gone, all others as they were.
Deleted(d, e, J) ==
    /\ e \in Db /\ e.flows = d.flows
    /\ \A i \in Nodes : i \notin J => Same(d, e, i)
    /\ \A i \in J : e.state[i] = None /\ e.deps[i] = {} /\ e.fanin[i] = {} /\ e.live[i] = {}

LEMMA DelKeysDeletes ==
    ASSUME NEW d \in Db, NEW J \in SUBSET Nodes
    PROVE  Deleted(d, DelKeys(d, J), J)
BY DEF DelKeys, Deleted, Same, Db, States

LEMMA DelJobsDeletes ==
    ASSUME NEW d \in Db, NEW J \in SUBSET Nodes
    PROVE  /\ Deleted(d, DelJobs(d, J), J \cup UNION {Indexed(d, j) : j \in J})
           /\ J \cup UNION {Indexed(d, j) : j \in J} \in SUBSET Nodes
<1> DEFINE K == J \cup UNION {Indexed(d, j) : j \in J}
<1>1. \A j \in J : Indexed(d, j) \in SUBSET Nodes
  BY DEF Indexed, Db
<1>2. K \in SUBSET Nodes
  BY <1>1
<1>3. DelJobs(d, J) = DelKeys(d, K)
  BY DEF DelJobs
<1>. HIDE DEF K
<1>4. Deleted(d, DelJobs(d, J), K)
  BY <1>2, <1>3, DelKeysDeletes
<1>. QED  BY <1>2, <1>4 DEF K

\* What is finished may be deleted, and a root with what it lists.
LEMMA DeletedFirm ==
    ASSUME NEW d, NEW e, NEW A, NEW X, NEW J \in SUBSET Nodes, Firm(d, A, X), Deleted(d, e, J),
           \A r \in J : \A i \in d.live[r] : IsFinished(d, r) \/ i \in J \/ ~IsFinished(d, i)
    PROVE  Firm(e, A, X)
<1>1. HonestIn(e)
  BY DEF Firm, HonestIn, Deleted, Same, Db
<1>2. ReclaimableIn(e)
  <2> SUFFICES ASSUME NEW j \in Nodes, IsFinished(e, j), e.score[j] >= LIVE
               PROVE  RunningRoot(e, j) /\ j \in e.live[RootOf(j)]
    BY DEF ReclaimableIn
  <2>1. j \notin J /\ Same(d, e, j)
    BY NoneIsNoState DEF Deleted, IsFinished
  <2>2. RunningRoot(d, j) /\ j \in d.live[RootOf(j)]
    BY <2>1 DEF Firm, ReclaimableIn, IsFinished, Same
  <2>3. RootOf(j) \in Nodes /\ ~IsFinished(d, RootOf(j))
    BY <2>2, RootOfNode DEF Roots, RunningRoot
  <2>4. RootOf(j) \notin J
    BY <2>1, <2>2, <2>3 DEF IsFinished, Same
  <2>5. Same(d, e, RootOf(j))
    BY <2>3, <2>4 DEF Deleted
  <2>. QED  BY <2>2, <2>5 DEF Same, RunningRoot, Exists, IsFinished
<1>3. BarrierIn(e, X)
  BY NoneIsNoState DEF Firm, BarrierIn, Deleted, Same, Parked, Pending
<1>4. IndexIn(e)
  BY DEF Firm, IndexIn, Deleted, Same
<1>5. FreshIn(e, A)
  BY DEF Firm, FreshIn, Deleted, Same
<1>. QED  BY <1>1, <1>2, <1>3, <1>4, <1>5 DEF Firm, Deleted

\* No place is lost with the jobs of J: what is whole afterwards has kept its root.
LEMMA DeletedPlaced ==
    ASSUME NEW d \in Db, NEW e, NEW J \in SUBSET Nodes, NEW R, R \subseteq J, PlacedIn(d, R),
           Deleted(d, e, J)
    PROVE  PlacedIn(e, {})
<1>1. \A i \in Nodes : e.state[i] # None => i \notin J /\ Same(d, e, i)
  BY DEF Deleted
<1>2. ASSUME NEW r \in Nodes, Parent[r] = None, IsFinished(e, r)  PROVE e.score[r] <= now
  BY <1>1, <1>2, NoneIsNoState DEF PlacedIn, IsFinished, Same
<1>3. ASSUME NEW j \in Nodes, Parent[j] # None, IsFinished(e, j), WholeIn(e, j)
      PROVE  PlaceOf(e, j)
  <2>1. RootOf(j) \in Above[j] /\ RootOf(j) \in Nodes
    BY <1>3, RootOfNode DEF Roots
  <2>2. RootOf(j) \notin J /\ Same(d, e, RootOf(j))
    BY <1>1, <1>3, <2>1 DEF WholeIn, Exists
  <2>3. IsFinished(d, j) /\ Same(d, e, j)
    BY <1>1, <1>3, NoneIsNoState DEF IsFinished, Same
  <2>4. WholeIn(d, j)
    BY <1>1, <1>3, AboveClosed DEF WholeIn, Exists, Same
  <2>5. PlaceOf(d, j)
    BY <1>3, <2>2, <2>3, <2>4 DEF PlacedIn
  <2>. QED  BY <2>2, <2>3, <2>5 DEF PlaceOf, IsFinished, Same
<1>. QED  BY <1>2, <1>3 DEF PlacedIn

\* DelJobs takes what the index of a deleted job lists that is settled.
LEMMA DelJobsFirm ==
    ASSUME NEW d, NEW A, NEW X, NEW J \in SUBSET Nodes, Firm(d, A, X)
    PROVE  Firm(DelJobs(d, J), A, X)
<1> DEFINE K == J \cup UNION {Indexed(d, j) : j \in J}
<1>1. d \in Db
  BY DEF Firm
<1>2. Deleted(d, DelJobs(d, J), K) /\ K \in SUBSET Nodes
  BY <1>1, DelJobsDeletes
<1>3. \A r \in K : \A i \in d.live[r] : IsFinished(d, r) \/ i \in K \/ ~IsFinished(d, i)
  BY DEF Indexed
<1>. HIDE DEF K
<1>. QED  BY <1>2, <1>3, DeletedFirm

\* Deleting jobs of the flows of R mends the places there.
LEMMA DelJobsGood ==
    ASSUME NEW d, NEW A, NEW X, NEW J \in SUBSET Nodes, NEW R, R \subseteq J,
           Firm(d, A, X), PlacedIn(d, R)
    PROVE  Good(DelJobs(d, J), A, X)
<1> DEFINE K == J \cup UNION {Indexed(d, j) : j \in J}
           e == DelJobs(d, J)
<1>1. d \in Db
  BY DEF Firm
<1>2. Deleted(d, e, K) /\ K \in SUBSET Nodes /\ R \subseteq K
  BY <1>1, DelJobsDeletes
<1>3. Firm(e, A, X)
  BY DelJobsFirm
<1>. HIDE DEF K, e
<1>4. PlacedIn(e, {})
  BY <1>1, <1>2, DeletedPlaced
<1>. QED  BY <1>3, <1>4 DEF Good, e

\* A place depends on who is finished, on who exists, and on the scores.
SamePlaces(d, e) ==
    /\ e.score = d.score
    /\ \A i \in Nodes : (IsFinished(e, i) <=> IsFinished(d, i)) /\ (Exists(e, i) => Exists(d, i))

LEMMA PlacesKept ==
    ASSUME NEW d, NEW e, PlacedIn(d, {}), SamePlaces(d, e)
    PROVE  PlacedIn(e, {})
<1>1. ASSUME NEW j \in Nodes, Parent[j] # None, IsFinished(e, j), WholeIn(e, j)
      PROVE  PlaceOf(e, j)
  <2>1. RootOf(j) \in Nodes
    BY RootOfNode DEF Roots
  <2>2. WholeIn(d, j)
    BY <1>1, AboveClosed DEF WholeIn, SamePlaces
  <2>. QED  BY <1>1, <2>1, <2>2 DEF PlacedIn, PlaceOf, SamePlaces
<1>. QED  BY <1>1 DEF PlacedIn, SamePlaces

\* What DelJobs does to the states: J is gone, and at most what was finished
\* goes with it.
LEMMA DelJobsStates ==
    ASSUME NEW d \in Db, NEW J \in SUBSET Nodes, NEW e, e = DelJobs(d, J), NEW i \in Nodes
    PROVE  /\ e \in Db /\ e.flows = d.flows
           /\ i \in J => e.state[i] = None
           /\ i \notin J => e.state[i] = d.state[i] \/ (IsFinished(d, i) /\ e.state[i] = None)
           /\ e.state[i] # None => Same(d, e, i)
           /\ e.fanin[i] \in {d.fanin[i], {}}
<1> DEFINE K == J \cup UNION {Indexed(d, j) : j \in J}
<1>2. Deleted(d, e, K) /\ K \in SUBSET Nodes
  BY DelJobsDeletes
<1>3. i \in K => i \in J \/ IsFinished(d, i)
  BY DEF Indexed
<1>4. i \in J => i \in K
  OBVIOUS
<1>. HIDE DEF K
<1>. QED  BY <1>2, <1>3, <1>4 DEF Deleted, Same

\* Only scores and indexes change.
Rescored(d, e) ==
    /\ e \in Db
    /\ e.state = d.state /\ e.deps = d.deps /\ e.fanin = d.fanin
    /\ e.cancel = d.cancel /\ e.flows = d.flows

Emptied(d, e, J) == \A i \in Nodes : e.live[i] = IF i \in J THEN {} ELSE d.live[i]

\* What the indexes of J list that is finished is placed just above t.
Lowered(d, e, J, t) ==
    \A i \in Nodes : e.score[i] = IF \E r \in J : i \in Indexed(d, r) THEN t + 1 ELSE d.score[i]

\* SettleLive empties the indexes of J and brings down what they list.
LEMMA SettleLiveFirm ==
    ASSUME NEW d, NEW A, NEW X, NEW J \in SUBSET Nodes, NEW t \in Clock, Firm(d, A, X),
           NEW e, e = SettleLive(d, J, t)
    PROVE  Firm(e, A, X) /\ Rescored(d, e) /\ Emptied(d, e, J) /\ Lowered(d, e, J, t)
<1> DEFINE D == UNION {Indexed(d, j) : j \in J}
<1>1. /\ e = [d EXCEPT !.score = [j \in Nodes |-> IF j \in D THEN t + 1 ELSE d.score[j]],
                       !.live = [j \in Nodes |-> IF j \in J THEN {} ELSE d.live[j]]]
  BY DEF SettleLive
<1>2. t + 1 \in Nat /\ t + 1 < LIVE /\ LIVE \in Nat
  BY FlowsAssumption DEF LIVE, Clock
<1>. HIDE DEF D
<1>3. /\ Rescored(d, e)
      /\ \A i \in Nodes : e.live[i] = IF i \in J THEN {} ELSE d.live[i]
      /\ \A i \in Nodes : e.score[i] = IF i \in D THEN t + 1 ELSE d.score[i]
  <2> DEFINE sc == [j \in Nodes |-> IF j \in D THEN t + 1 ELSE d.score[j]]
             lv == [j \in Nodes |-> IF j \in J THEN {} ELSE d.live[j]]
  <2>1. sc \in [Nodes -> Nat] /\ lv \in [Nodes -> SUBSET Nodes] /\ d \in Db
    BY <1>2 DEF Firm, Db
  <2>2. e = [d EXCEPT !.score = sc, !.live = lv]
    BY <1>1
  <2>3. \A i \in Nodes : /\ lv[i] = IF i \in J THEN {} ELSE d.live[i]
                         /\ sc[i] = IF i \in D THEN t + 1 ELSE d.score[i]
    OBVIOUS
  <2>. HIDE DEF sc, lv
  <2>4. Rescored(d, e) /\ e.live = lv /\ e.score = sc
    BY <2>1, <2>2 DEF Db, Rescored
  <2>. QED  BY <2>3, <2>4
<1>4. ReclaimableIn(e)
  <2> SUFFICES ASSUME NEW j \in Nodes, IsFinished(e, j), e.score[j] >= LIVE
               PROVE  RunningRoot(e, j) /\ j \in e.live[RootOf(j)]
    BY DEF ReclaimableIn
  <2>1. j \notin D /\ e.score[j] = d.score[j]
    BY <1>2, <1>3
  <2>2. RunningRoot(d, j) /\ j \in d.live[RootOf(j)] /\ IsFinished(d, j)
    BY <1>3, <2>1 DEF Firm, ReclaimableIn, IsFinished, Rescored
  <2>3. RootOf(j) \in Nodes
    BY RootOfNode DEF Roots
  <2>4. RootOf(j) \notin J
    BY <2>1, <2>2 DEF D, Indexed
  <2>. QED  BY <1>3, <2>2, <2>3, <2>4 DEF RunningRoot, Exists, IsFinished, Rescored
<1>5. IndexIn(e)
  BY <1>3 DEF Firm, IndexIn
<1>6. HonestIn(e) /\ BarrierIn(e, X) /\ FreshIn(e, A)
  BY <1>3 DEF Firm, HonestIn, BarrierIn, FreshIn, Rescored, Parked
<1>. QED  BY <1>3, <1>4, <1>5, <1>6 DEF Firm, Rescored, Emptied, Lowered, D

\* The jobs of K come to state s; their places are sc and the indexes lv.
Entered(d, u, K, s, sc, lv) ==
    /\ u \in Db /\ u.deps = d.deps /\ u.fanin = d.fanin /\ u.flows = d.flows
    /\ \A i \in Nodes : u.state[i] = IF i \in K THEN s ELSE d.state[i]
    /\ u.score = sc /\ u.live = lv

\* Pending jobs are recorded in a finished state: a root with an empty index,
\* a job of a running flow above every bound and indexed under its root.
LEMMA EnteredFirm ==
    ASSUME NEW d, NEW A, NEW X, NEW K \in SUBSET Nodes, NEW s \in Finished, NEW u, NEW sc, NEW lv,
           Firm(d, A, X), Entered(d, u, K, s, sc, lv),
           \A i \in K : d.state[i] \in Pending,
           \A r \in K, i \in K : RootOf(i) = r => i = r,
           \A r \in K : Parent[r] = None => d.live[r] = {},
           \A i \in K : sc[i] >= LIVE => RunningRoot(d, i) /\ i \in lv[RootOf(i)],
           \A i \in Nodes \ K : sc[i] = d.score[i],
           \A r, i \in Nodes : i \in lv[r] /\ i \notin d.live[r] => RootOf(i) = r /\ Parent[i] # None,
           \A r, i \in Nodes : i \in d.live[r] => i \in lv[r]
    PROVE  Firm(u, A, X \ K)
<1>1. HonestIn(u)
  BY NoneIsNoState DEF Firm, HonestIn, Entered, Pending, Finished
<1>2. ReclaimableIn(u)
  <2> SUFFICES ASSUME NEW j \in Nodes, IsFinished(u, j), u.score[j] >= LIVE
               PROVE  RunningRoot(u, j) /\ j \in u.live[RootOf(j)]
    BY DEF ReclaimableIn
  <2>1. RootOf(j) \in Nodes /\ Parent[RootOf(j)] = None
    BY RootOfNode DEF Roots
  <2>2. RunningRoot(d, j) /\ j \in lv[RootOf(j)] /\ RootOf(j) \notin K
    <3>1. CASE j \in K
      <4>1. RunningRoot(d, j) /\ j \in lv[RootOf(j)]
        BY <3>1 DEF Entered
      <4>2. RootOf(j) # j
        BY <4>1, <2>1 DEF RunningRoot
      <4>. QED  BY <3>1, <4>1, <4>2
    <3>2. CASE j \notin K
      <4>1. IsFinished(d, j) /\ d.score[j] >= LIVE
        BY <3>2 DEF Entered, IsFinished
      <4>2. RunningRoot(d, j) /\ j \in d.live[RootOf(j)]
        BY <4>1 DEF Firm, ReclaimableIn
      <4>. QED  BY <2>1, <4>2
    <3>. QED  BY <3>1, <3>2
  <2>. QED  BY <2>1, <2>2 DEF Entered, RunningRoot, Exists, IsFinished
<1>3. BarrierIn(u, X \ K)
  BY DEF Firm, BarrierIn, Entered, Parked, Pending, Finished
<1>4. IndexIn(u)
  BY DEF Firm, IndexIn, Entered
<1>5. FreshIn(u, A)
  BY NoneIsNoState DEF Firm, FreshIn, Entered
<1>. QED  BY <1>1, <1>2, <1>3, <1>4, <1>5 DEF Firm, Entered

\* The jobs of J have ended in s or are gone; of the others at most what was
\* finished is gone, and nobody's barrier or fan-in has changed.
Ended(d, e, J, s) ==
    /\ e \in Db /\ e.flows = d.flows
    /\ \A i \in J : /\ e.state[i] \in {s, None}
                    /\ Parent[i] = None /\ Keep[i] # "none" => e.state[i] = s
    /\ \A i \in Nodes \ J :
           e.state[i] = d.state[i] \/ (IsFinished(d, i) /\ e.state[i] = None /\ RootOf(i) \in J)
    /\ \A i \in Nodes : /\ e.state[i] # None => e.deps[i] = d.deps[i] /\ e.fanin[i] = d.fanin[i]
                        /\ e.fanin[i] \in {d.fanin[i], {}}

AllPending(d, J) == \A i \in J : d.state[i] \in Pending

\* Jobs that end together in one script: no root with a job of its own flow.
Apart(J) == \A r, i \in J : Parent[r] = None /\ RootOf(i) = r => i = r

KeptOf(J) == {j \in J : Keep[j] # "none"}

RecordedAs(d, u, J, s) ==
    /\ u.flows = d.flows /\ u.deps = d.deps /\ u.fanin = d.fanin
    /\ \A i \in Nodes : u.state[i] = IF i \in KeptOf(J) THEN s ELSE d.state[i]

Halfway(d, u, A, X, J, s, e) ==
    /\ Firm(u, A, X \ KeptOf(J)) /\ PlacedIn(u, J \ KeptOf(J))
    /\ RecordedAs(d, u, J, s) /\ e = DelJobs(u, J \ KeptOf(J))

\* recordFinished, up to the deletion of what is not kept.
LEMMA RecordedGood ==
    ASSUME NEW d, NEW A, NEW X, NEW J \in SUBSET Nodes, NEW s \in Finished, NEW t \in Clock,
           Good(d, A, X), AllPending(d, J), Apart(J)
    PROVE  \E u : Halfway(d, u, A, X, J, s, RecordFinished(d, J, s, t))
<1> DEFINE kept == KeptOf(J)
           M == {j \in J : Kids(j) # {} /\ (RunningRoot(d, j) => j \notin kept)}
           v == SettleLive(d, M, t)
           st == [j \in Nodes |-> IF j \in kept THEN s ELSE v.state[j]]
           sc == [j \in Nodes |-> IF j \in kept THEN Score(d, j, t) ELSE v.score[j]]
           lv == [r \in Nodes |-> v.live[r] \cup {j \in kept : RunningRoot(d, j) /\ RootOf(j) = r}]
           cc == [j \in Nodes |-> IF j \in kept /\ s = "cancelled" THEN TRUE ELSE v.cancel[j]]
           u == [v EXCEPT !.state = st, !.score = sc, !.live = lv, !.cancel = cc]
<1>1. RecordFinished(d, J, s, t) = DelJobs(u, J \ kept)
  BY DEF RecordFinished, KeptOf
<1>2. M \in SUBSET Nodes /\ kept \in SUBSET Nodes /\ kept \subseteq J
  BY DEF KeptOf
<1>3. \A r \in kept : Parent[r] = None /\ Kids(r) # {} => r \in M
  BY DEF RunningRoot, KeptOf
<1>21. M \subseteq J
  OBVIOUS
<1>4. /\ \A i \in Nodes : sc[i] = IF i \in kept THEN Score(d, i, t) ELSE v.score[i]
      /\ \A r \in Nodes : lv[r] = v.live[r] \cup {j \in kept : RunningRoot(d, j) /\ RootOf(j) = r}
      /\ \A i \in Nodes : st[i] = IF i \in kept THEN s ELSE v.state[i]
  OBVIOUS
<1>18. v = SettleLive(d, M, t)
  OBVIOUS
<1>. HIDE DEF kept, M, v
<1>20. Firm(d, A, X) /\ PlacedIn(d, {}) /\ t = now /\ t \in Nat
  BY FlowsAssumption DEF Good, Clock
<1>5. Firm(v, A, X) /\ Rescored(d, v) /\ Emptied(d, v, M) /\ Lowered(d, v, M, t)
  BY <1>2, <1>18, <1>20, SettleLiveFirm
<1>6. /\ st \in [Nodes -> States] /\ sc \in [Nodes -> Nat] /\ cc \in [Nodes -> BOOLEAN]
      /\ lv \in [Nodes -> SUBSET Nodes]
  <2>1. v \in Db
    BY <1>5 DEF Firm
  <2>2. \A i \in Nodes : Score(d, i, t) \in Nat
    BY FlowsAssumption DEF Score, LIVE, Clock
  <2>. QED  BY <1>2, <2>1, <2>2 DEF Db, States
<1>. HIDE DEF st, sc, lv, cc
<1>7. u \in Db /\ u.state = st /\ u.score = sc /\ u.live = lv /\ u.deps = v.deps /\ u.fanin = v.fanin
      /\ u.flows = v.flows
  BY <1>5, <1>6 DEF Firm, Db
<1>. HIDE DEF u
<1>8. Entered(v, u, kept, s, sc, lv)
  BY <1>4, <1>7 DEF Entered
<1>9. \A i \in kept : v.state[i] \in Pending
  BY <1>2, <1>5 DEF Rescored, AllPending
<1>10. \A r \in kept, i \in kept : RootOf(i) = r => i = r
  BY <1>2, RootOfNode DEF Apart, Roots
<1>11. ASSUME NEW r \in kept, Parent[r] = None  PROVE v.live[r] = {}
  <2>1. CASE Kids(r) # {}
    BY <1>2, <1>3, <1>5, <1>11, <2>1 DEF Emptied
  <2>2. CASE Kids(r) = {}
    <3>1. ASSUME NEW i \in v.live[r]  PROVE FALSE
      <4>1. i \in Nodes /\ r \in Nodes /\ RootOf(i) = r /\ Parent[i] # None
        BY <1>2, <1>5, <3>1 DEF Firm, IndexIn, Db
      <4>2. r \in Above[i]
        BY <4>1, <1>11, RootOfNode
      <4>. QED  BY <2>2, <4>1, <4>2, AboveHasKids
    <3>. QED  BY <3>1
  <2>. QED  BY <2>1, <2>2
<1>12. \A i \in kept : sc[i] >= LIVE => RunningRoot(v, i) /\ i \in lv[RootOf(i)]
  <2> SUFFICES ASSUME NEW i \in kept, sc[i] >= LIVE
               PROVE  RunningRoot(v, i) /\ i \in lv[RootOf(i)]
    OBVIOUS
  <2>1. Score(d, i, t) >= LIVE
    BY <1>2, <1>4
  <2>2. RunningRoot(d, i)
    BY <2>1, FlowsAssumption DEF Score, LIVE, Clock
  <2>3. RootOf(i) \in Nodes
    BY <1>2, RootOfNode DEF Roots
  <2>. QED  BY <1>2, <1>4, <1>5, <2>2, <2>3 DEF RunningRoot, Rescored, Exists, IsFinished
<1>13. \A i \in Nodes \ kept : sc[i] = v.score[i]
  BY <1>4
<1>14. \A r, i \in Nodes : i \in lv[r] /\ i \notin v.live[r] => RootOf(i) = r /\ Parent[i] # None
  BY <1>4 DEF RunningRoot
<1>15. \A r, i \in Nodes : i \in v.live[r] => i \in lv[r]
  BY <1>4
<1>16. Firm(u, A, X \ kept)
  BY <1>2, <1>5, <1>8, <1>9, <1>10, <1>11, <1>12, <1>13, <1>14, <1>15, EnteredFirm
<1>17. /\ u.flows = d.flows /\ u.deps = d.deps /\ u.fanin = d.fanin
       /\ \A i \in Nodes : u.state[i] = IF i \in kept THEN s ELSE d.state[i]
  BY <1>4, <1>5, <1>7 DEF Rescored
<1>19. PlacedIn(u, J \ kept)
  <2>0. /\ \A i \in Nodes : i \in J => d.state[i] \in Pending
        /\ \A i \in Nodes : u.score[i] = IF i \in kept THEN Score(d, i, t) ELSE v.score[i]
        /\ d \in Db
    BY <1>4, <1>7, <1>20 DEF AllPending, Firm
  <2>1. \A i \in Nodes : Exists(u, i) => Exists(d, i)
    BY <1>2, <1>17, <2>0, NoneIsNoState DEF Exists
  <2>2. ASSUME NEW r \in Nodes, Parent[r] = None, IsFinished(u, r)  PROVE u.score[r] <= now
    <3>1. CASE r \in kept
      BY <1>20, <2>0, <2>2, <3>1 DEF Score, RunningRoot
    <3>2. CASE r \notin kept
      <4>1. IsFinished(d, r)
        BY <1>17, <2>2, <3>2 DEF IsFinished
      <4>2. \A m \in M : r \notin Indexed(d, m)
        BY <1>2, <1>20, <2>2 DEF Firm, IndexIn, Indexed
      <4>3. v.score[r] = d.score[r]
        BY <1>5, <4>2 DEF Lowered
      <4>. QED  BY <1>20, <2>0, <2>2, <3>2, <4>1, <4>3 DEF PlacedIn
    <3>. QED  BY <3>1, <3>2
  <2>3. ASSUME NEW i \in Nodes, Parent[i] # None, IsFinished(u, i), WholeIn(u, i),
               RootOf(i) \notin J \ kept
        PROVE  PlaceOf(u, i)
    <3> DEFINE r == RootOf(i)
    <3>1. r \in Above[i] /\ r \in Nodes /\ Parent[r] = None /\ RootOf(r) = r
      BY <2>3, RootOfNode DEF Roots
    <3>2. WholeIn(d, i) /\ Exists(d, r)
      BY <2>1, <2>3, <3>1, AboveClosed DEF WholeIn
    <3>3. r \notin kept => u.state[r] = d.state[r] /\ u.score[r] = d.score[r] /\ r \notin M
      <4>1. \A m \in M : r \notin Indexed(d, m)
        BY <1>2, <1>20, <3>1 DEF Firm, IndexIn, Indexed
      <4>2. v.score[r] = d.score[r]
        BY <1>5, <3>1, <4>1 DEF Lowered
      <4>. QED  BY <1>2, <1>17, <1>21, <2>0, <2>3, <3>1, <4>2
    <3>. HIDE DEF r
    <3>4. CASE i \in kept
      <4>1. r \notin J
        BY <1>2, <2>3, <3>1, <3>4 DEF Apart, r
      <4>2. u.score[i] = Score(d, i, t)
        BY <2>0, <3>4
      <4>3. CASE IsFinished(d, r)
        <5>1. u.score[i] = t + 1
          BY <2>3, <4>2, <4>3 DEF Score, RunningRoot, r
        <5>2. d.score[r] <= t /\ d.score[r] \in Nat
          BY <1>20, <2>0, <3>1, <4>3 DEF PlacedIn, Db
        <5>3. u.score[r] < u.score[i] /\ IsFinished(u, r)
          BY <1>2, <1>20, <3>3, <4>1, <4>3, <5>1, <5>2 DEF IsFinished
        <5>. QED  BY <5>3 DEF PlaceOf, r
      <4>4. CASE ~IsFinished(d, r)
        <5>1. u.score[i] = LIVE + t
          BY <2>3, <3>2, <4>2, <4>4 DEF Score, RunningRoot, r
        <5>2. u.score[i] >= LIVE /\ ~IsFinished(u, r)
          BY <1>2, <1>20, <3>3, <4>1, <4>4, <5>1, FlowsAssumption DEF LIVE, IsFinished
        <5>. QED  BY <5>2 DEF PlaceOf, r
      <4>. QED  BY <4>3, <4>4
    <3>5. CASE i \notin kept
      <4>1. IsFinished(d, i) /\ u.score[i] = v.score[i]
        BY <1>17, <2>0, <2>3, <3>5 DEF IsFinished
      <4>2. PlaceOf(d, i)
        BY <1>20, <2>3, <3>2, <4>1 DEF PlacedIn
      <4>3. CASE r \in kept
        <5>1. d.state[r] \in Pending
          BY <1>2, <2>0, <3>1, <4>3
        <5>2. d.score[i] >= LIVE
          BY <4>2, <5>1 DEF PlaceOf, IsFinished, Finished, Pending, r
        <5>3. i \in Indexed(d, r)
          BY <1>20, <4>1, <5>2 DEF Firm, ReclaimableIn, Indexed, r
        <5>4. r \in M
          BY <1>3, <3>1, <4>3, AboveHasKids
        <5>5. v.score[i] = t + 1
          BY <1>5, <5>3, <5>4 DEF Lowered
        <5>6. u.score[r] = t
          BY <2>0, <3>1, <4>3 DEF Score, RunningRoot
        <5>7. u.score[r] < u.score[i] /\ IsFinished(u, r)
          BY <1>17, <1>20, <3>1, <4>1, <4>3, <5>5, <5>6 DEF IsFinished
        <5>. QED  BY <5>7 DEF PlaceOf, r
      <4>4. CASE r \notin kept
        <5>1. \A m \in M : i \notin Indexed(d, m)
          BY <1>2, <1>20, <3>3, <4>4 DEF Firm, IndexIn, Indexed, r
        <5>2. v.score[i] = d.score[i]
          BY <1>5, <5>1 DEF Lowered
        <5>. QED  BY <3>3, <4>1, <4>2, <4>4, <5>2 DEF PlaceOf, IsFinished, r
      <4>. QED  BY <4>3, <4>4
    <3>. QED  BY <3>4, <3>5
  <2>. QED  BY <2>2, <2>3 DEF PlacedIn
<1>. QED  BY <1>1, <1>16, <1>17, <1>19 DEF kept, RecordedAs, Halfway

LEMMA RecordFinishedGood ==
    ASSUME NEW d, NEW A, NEW X, NEW J \in SUBSET Nodes, NEW s \in Finished, NEW t \in Clock,
           Good(d, A, X), AllPending(d, J), Apart(J),
           NEW e, e = RecordFinished(d, J, s, t)
    PROVE  Good(e, A, X \ J) /\ Ended(d, e, J, s)
<1> DEFINE kept == KeptOf(J)
           K == J \ kept
<1>14. PICK u : Halfway(d, u, A, X, J, s, RecordFinished(d, J, s, t))
  BY RecordedGood
<1>1. /\ Firm(u, A, X \ kept) /\ PlacedIn(u, K)
      /\ RecordedAs(d, u, J, s) /\ e = DelJobs(u, J \ kept)
  BY <1>14 DEF Halfway
<1>2. /\ K \in SUBSET Nodes /\ K \subseteq J /\ kept \subseteq J
      /\ \A i \in J : i \in K \/ i \in kept
  BY DEF KeptOf
<1>3. Good(e, A, X \ kept)
  BY <1>1, <1>2, DelJobsGood
<1>4. \A i \in Nodes : 
           /\ e \in Db /\ e.flows = u.flows
           /\ i \in K => e.state[i] = None
           /\ i \notin K => e.state[i] = u.state[i] \/ (IsFinished(u, i) /\ e.state[i] = None)
           /\ e.state[i] # None => Same(u, e, i)
           /\ e.fanin[i] \in {u.fanin[i], {}}
  BY <1>1, <1>2, DelJobsStates DEF Good, Firm
<1>5. ASSUME NEW i \in J, Parent[i] = None, Keep[i] # "none"  PROVE e.state[i] = s
  <2>1. Deleted(u, e, K \cup UNION {Indexed(u, j) : j \in K})
    BY <1>1, <1>2, DelJobsDeletes DEF Good, Firm
  <2>2. \A j \in K : i \notin Indexed(u, j)
    BY <1>1, <1>5 DEF Indexed, Good, Firm, IndexIn
  <2>3. i \notin K /\ i \in kept
    BY <1>5 DEF KeptOf
  <2>4. Same(u, e, i)
    BY <2>1, <2>2, <2>3 DEF Deleted
  <2>. QED  BY <1>1, <1>5, <2>3, <2>4 DEF Same, RecordedAs
<1>13. e.flows = u.flows
  BY <1>1, <1>2, DelJobsDeletes DEF Good, Firm, Deleted
<1>15. Deleted(u, e, K \cup UNION {Indexed(u, j) : j \in K})
  BY <1>1, <1>2, DelJobsDeletes DEF Firm
<1>. HIDE DEF kept, K
<1>6. e \in Db /\ e.flows = d.flows
  BY <1>1, <1>3, <1>13 DEF Good, Firm, RecordedAs
<1>12. \A i \in Nodes : u.state[i] = IF i \in kept THEN s ELSE d.state[i]
  BY <1>1 DEF RecordedAs, kept
<1>7. \A i \in J : e.state[i] \in {s, None}
  <2> SUFFICES ASSUME NEW i \in J  PROVE e.state[i] \in {s, None}
    OBVIOUS
  <2>1. CASE i \in K
    BY <1>4, <2>1
  <2>2. CASE i \in kept /\ i \notin K
    BY <1>4, <1>12, <2>2
  <2>. QED  BY <1>2, <2>1, <2>2
<1>8. ASSUME NEW i \in Nodes \ J
      PROVE  e.state[i] = d.state[i] \/ (IsFinished(d, i) /\ e.state[i] = None /\ RootOf(i) \in J)
  <2>1. u.state[i] = d.state[i] /\ i \notin K
    BY <1>2, <1>12
  <2>2. Deleted(u, e, K \cup UNION {Indexed(u, j) : j \in K})
    BY <1>15
  <2>3. CASE \E j \in K : i \in Indexed(u, j)
    BY <1>1, <1>2, <1>4, <2>1, <2>3 DEF Indexed, Firm, IndexIn, IsFinished
  <2>4. CASE ~\E j \in K : i \in Indexed(u, j)
    BY <2>1, <2>2, <2>4 DEF Deleted, Same
  <2>. QED  BY <2>3, <2>4
<1>9. \A i \in Nodes : /\ e.state[i] # None => e.deps[i] = d.deps[i] /\ e.fanin[i] = d.fanin[i]
                       /\ e.fanin[i] \in {d.fanin[i], {}}
  BY <1>1, <1>4 DEF Same, RecordedAs
<1>10. Ended(d, e, J, s)
  BY <1>5, <1>6, <1>7, <1>8, <1>9 DEF Ended
<1>11. BarrierIn(e, X \ J)
  BY <1>2, <1>3, <1>7, NoneIsNoState DEF Good, Firm, BarrierIn, Parked, Finished, Pending
<1>. QED  BY <1>3, <1>10, <1>11 DEF Good, Firm

\* Every job is as it was, or has ended, or is gone.
Lull(d, e) == \A i \in Nodes : e.state[i] = d.state[i] \/ e.state[i] \in Finished \cup {None}

\* ... or was parked, waits for a worker now, and has no child that may still run.
Calm(d, e) ==
    \A i \in Nodes :
        \/ e.state[i] = d.state[i] \/ e.state[i] \in Finished \cup {None}
        \/ /\ Parked(d, i) /\ e.state[i] = "wait"
           /\ \A c \in Nodes : Parent[c] = i => e.state[c] \notin Pending

LEMMA LullThenCalm ==
    ASSUME NEW d, NEW e, NEW f, Lull(d, e), Calm(e, f)
    PROVE  Calm(d, f)
BY NoneIsNoState DEF Lull, Calm, Parked, Finished, Pending

LEMMA CalmThenLull ==
    ASSUME NEW d, NEW e, NEW f, Calm(d, e), Lull(e, f)
    PROVE  Calm(d, f)
BY NoneIsNoState DEF Lull, Calm, Parked, Finished, Pending

\* Nothing but finished jobs may be missing.
Fewer(d, e) == e.flows = d.flows /\ \A i \in Nodes : e.state[i] \in {d.state[i], None}

LEMMA RemoveFinishedGood ==
    ASSUME NEW d, NEW A, NEW X, NEW V \in SUBSET Nodes, Good(d, A, X),
           NEW e, e = RemoveFinished(d, V)
    PROVE  Good(e, A, X) /\ Fewer(d, e)
<1> DEFINE J == UNION {Subtree(d, j) : j \in V}
<1>1. J \in SUBSET Nodes
  BY DEF Subtree, Below
<1>2. e = DelJobs(d, J)
  BY DEF RemoveFinished
<1>. HIDE DEF J
<1>3. d \in Db
  BY DEF Good, Firm
<1>4. Good(e, A, X)
  BY <1>1, <1>2, <1>3, DelJobsGood DEF Good
<1>5. e.flows = d.flows
  BY <1>1, <1>2, <1>3, DelJobsDeletes DEF Deleted
<1>6. \A i \in Nodes : e.state[i] \in {d.state[i], None}
  BY <1>1, <1>2, <1>3, DelJobsStates
<1>. QED  BY <1>4, <1>5, <1>6 DEF Fewer

\* Job p may have been released, nobody else is touched.
Released(d, e, p) ==
    /\ e.flows = d.flows
    /\ \A i \in Nodes \ {p} : e.state[i] = d.state[i]
    /\ \/ e.state[p] = d.state[p]
       \/ /\ Parked(d, p) /\ e.state[p] = "wait"
          /\ \A c \in Nodes : Parent[c] = p => e.state[c] \notin Pending

LEMMA ReleasedIsCalm ==
    ASSUME NEW d, NEW e, NEW p \in Nodes, Released(d, e, p)
    PROVE  Calm(d, e)
BY DEF Released, Calm

\* No job outside the flow of root r is touched.
Inside(d, e, r) == \A i \in Nodes : RootOf(i) # r => e.state[i] = d.state[i]

LEMMA EndedInside ==
    ASSUME NEW d, NEW e, NEW J \in SUBSET Nodes, NEW s, NEW r, Ended(d, e, J, s),
           \A i \in J : RootOf(i) = r
    PROVE  Inside(d, e, r)
<1> SUFFICES ASSUME NEW i \in Nodes, RootOf(i) # r  PROVE e.state[i] = d.state[i]
  BY DEF Inside
<1>1. RootOf(i) \in Nodes /\ RootOf(RootOf(i)) = RootOf(i)
  BY RootOfNode DEF Roots
<1>2. i \notin J /\ RootOf(i) \notin J
  BY <1>1
<1>. QED  BY <1>2 DEF Ended

LEMMA ReleasedInside ==
    ASSUME NEW d, NEW e, NEW p \in Nodes, Released(d, e, p)
    PROVE  Inside(d, e, RootOf(p))
BY DEF Inside, Released

\* A child that is not to run leaves the barrier of its parent.
LEMMA LeaveBarrierGood ==
    ASSUME NEW d, NEW A, NEW X, NEW p \in Nodes \ X, NEW c \in Nodes, Good(d, A, X),
           Parent[c] = p, d.state[c] \notin Pending,
           NEW e, e = LeaveBarrier(d, p, c)
    PROVE  Good(e, A, X) /\ Released(d, e, p)
<1> DEFINE dp == [d.deps EXCEPT ![p] = @ \ {c}]
           st == [d.state EXCEPT ![p] = "wait"]
           l == [d EXCEPT !.deps = dp]
<1>0. d \in Db
  BY DEF Good, Firm
<1>1. /\ dp \in [Nodes -> SUBSET Nodes] /\ st \in [Nodes -> States]
      /\ dp[p] = d.deps[p] \ {c} /\ \A i \in Nodes \ {p} : dp[i] = d.deps[i]
      /\ st[p] = "wait" /\ \A i \in Nodes \ {p} : st[i] = d.state[i]
  BY <1>0 DEF Db, States, Pending
<1>2. l = [d EXCEPT !.deps[p] = @ \ {c}]
  BY <1>0 DEF Db
<1>3. [j \in Nodes |-> IF j \in {p} THEN "wait" ELSE d.state[j]] = st
  BY <1>0 DEF Db
<1>. HIDE DEF dp, st
<1>4. /\ l \in Db /\ l.deps = dp /\ l.state = d.state /\ l.fanin = d.fanin /\ l.live = d.live
      /\ l.score = d.score /\ l.flows = d.flows
  BY <1>0, <1>1 DEF Db
<1>. HIDE DEF l
<1>5. Good(l, A, X)
  <2>1. Firm(l, A, X)
    BY <1>1, <1>4 DEF Good, Firm, HonestIn, ReclaimableIn, BarrierIn, IndexIn, FreshIn, Parked,
         RunningRoot, Exists, IsFinished
  <2>2. PlacedIn(l, {})
    BY <1>4, PlacesKept DEF Good, SamePlaces, IsFinished, Exists
  <2>. QED  BY <2>1, <2>2 DEF Good
<1>6. CASE dp[p] = {} /\ Parked(d, p)
  <2>1. e = [l EXCEPT !.state = st]
    <3>1. e = SetState(l, {p}, "wait")
      BY <1>2, <1>4, <1>6 DEF LeaveBarrier, ReleaseParent, Parked
    <3>2. [j \in Nodes |-> IF j \in {p} THEN "wait" ELSE l.state[j]] = st
      BY <1>3, <1>4
    <3>. QED  BY <3>1, <3>2 DEF SetState
  <2>2. /\ e \in Db /\ e.state = st /\ e.deps = dp /\ e.fanin = d.fanin /\ e.live = d.live
        /\ e.score = d.score /\ e.flows = d.flows
    BY <1>1, <1>4, <2>1 DEF Db
  <2>3. \A k \in Nodes : Parent[k] = p => d.state[k] \notin Pending
    BY <1>1, <1>6 DEF Good, Firm, BarrierIn
  <2>4. p # c
    BY NoCycle, AboveClosed, FlowsAssumption
  <2>5. Released(d, e, p)
    BY <1>1, <1>6, <2>2, <2>3, NoCycle, AboveClosed, FlowsAssumption DEF Released
  <2>6. HonestIn(e) /\ FreshIn(e, A) /\ IndexIn(e)
    BY <1>1, <1>6, <2>2, NoneIsNoState DEF Good, Firm, HonestIn, FreshIn, IndexIn, Parked, Finished, Pending
  <2>7. BarrierIn(e, X)
    <3> SUFFICES ASSUME NEW q \in Nodes \ X, NEW k \in Nodes,
                        Parked(e, q), Parent[k] = q, e.state[k] \in Pending
                 PROVE  k \in e.deps[q]
      BY DEF BarrierIn
    <3>1. q # p /\ Parked(d, q) /\ d.state[k] \in Pending
      BY <1>1, <1>6, <2>2 DEF Parked, Pending
    <3>. QED  BY <1>1, <2>2, <3>1 DEF Good, Firm, BarrierIn
  <2>8. ReclaimableIn(e)
    <3> SUFFICES ASSUME NEW j \in Nodes, IsFinished(e, j), e.score[j] >= LIVE
                 PROVE  RunningRoot(e, j) /\ j \in e.live[RootOf(j)]
      BY DEF ReclaimableIn
    <3>1. IsFinished(d, j) /\ d.score[j] >= LIVE
      BY <1>1, <2>2 DEF IsFinished, Finished
    <3>2. RunningRoot(d, j) /\ j \in d.live[RootOf(j)] /\ RootOf(j) \in Nodes
      BY <3>1, RootOfNode DEF Good, Firm, ReclaimableIn, Roots
    <3>. QED  BY <1>1, <2>2, <3>2, NoneIsNoState
              DEF RunningRoot, Exists, IsFinished, Finished, Pending
  <2>9. PlacedIn(e, {})
    <3>1. \A i \in Nodes : /\ ((e.state[i] \in Finished) <=> (d.state[i] \in Finished))
                          /\ (e.state[i] # None => d.state[i] # None)
      BY <1>1, <1>6, <2>2, NoneIsNoState DEF Parked, Finished, Pending
    <3>2. PlacedIn(d, {}) /\ SamePlaces(d, e)
      BY <2>2, <3>1 DEF Good, SamePlaces, IsFinished, Exists
    <3>. QED  BY <3>2, PlacesKept
  <2>. QED  BY <2>2, <2>5, <2>6, <2>7, <2>8, <2>9 DEF Good, Firm
<1>7. CASE ~(dp[p] = {} /\ Parked(d, p))
  <2>1. e = l
    BY <1>2, <1>4, <1>7 DEF LeaveBarrier, ReleaseParent, Parked
  <2>. QED  BY <1>4, <1>5, <2>1 DEF Released
<1>. QED  BY <1>6, <1>7

\* A child is recorded as it ended, in a parent that exists.
LEMMA RecordedChildGood ==
    ASSUME NEW d, NEW A, NEW X, NEW p \in Nodes, NEW c \in Nodes, NEW s \in Finished, Good(d, A, X),
           Parent[c] = p, d.state[c] \in {s, None}, Exists(d, p),
           NEW e, e = Recorded(d, p, c, s)
    PROVE  Good(e, A, X) /\ e.state = d.state /\ e.flows = d.flows
<1> DEFINE fi == [d.fanin EXCEPT ![p] = @ \cup {<<c, s>>}]
<1>0. d \in Db
  BY DEF Good, Firm
<1>1. /\ fi \in [Nodes -> SUBSET (Nodes \X Finished)]
      /\ fi[p] = d.fanin[p] \cup {<<c, s>>} /\ \A i \in Nodes \ {p} : fi[i] = d.fanin[i]
  BY <1>0 DEF Db
<1>2. e = [d EXCEPT !.fanin = fi]
  BY <1>0 DEF Db, Recorded
<1>. HIDE DEF fi
<1>3. /\ e \in Db /\ e.fanin = fi /\ e.state = d.state /\ e.deps = d.deps /\ e.live = d.live
      /\ e.score = d.score /\ e.flows = d.flows
  BY <1>0, <1>1, <1>2 DEF Db
<1>4. HonestIn(e)
  BY <1>1, <1>3 DEF Good, Firm, HonestIn
<1>5. FreshIn(e, A)
  BY <1>1, <1>3 DEF Good, Firm, FreshIn, Exists
<1>6. ReclaimableIn(e) /\ BarrierIn(e, X) /\ IndexIn(e)
  BY <1>3 DEF Good, Firm, ReclaimableIn, BarrierIn, IndexIn, Parked, RunningRoot, Exists, IsFinished
<1>7. PlacedIn(e, {})
  BY <1>3, PlacesKept DEF Good, SamePlaces, IsFinished, Exists
<1>. QED  BY <1>3, <1>4, <1>5, <1>6, <1>7 DEF Good, Firm

\* A child that ended in s is recorded in its parent and leaves the barrier.
LEMMA SettleIntoGood ==
    ASSUME NEW d, NEW A, NEW X, NEW p \in Nodes \ X, NEW c \in Nodes, NEW s \in Finished,
           Good(d, A, X), Parent[c] = p, d.state[c] \in {s, None}, Exists(d, p),
           NEW e, e = LeaveBarrier(Recorded(d, p, c, s), p, c)
    PROVE  Good(e, A, X) /\ Released(d, e, p)
<1> DEFINE r == Recorded(d, p, c, s)
<1>1. Good(r, A, X) /\ r.state = d.state /\ r.flows = d.flows
  BY RecordedChildGood
<1>. HIDE DEF r
<1>2. r.state[c] \notin Pending
  BY <1>1, NoneIsNoState DEF Finished, Pending
<1>3. e = LeaveBarrier(r, p, c)
  BY DEF r
<1>4. Good(e, A, X) /\ Released(r, e, p)
  BY <1>1, <1>2, <1>3, LeaveBarrierGood
<1>. QED  BY <1>1, <1>4 DEF Released, Parked

LEMMA SettleChildCompletedGood ==
    ASSUME NEW d, NEW A, NEW j \in Nodes, Good(d, A, {}), d.state[j] \in {"completed", None},
           NEW e, e = SettleChildCompleted(d, j)
    PROVE  /\ Good(e, A, {}) /\ Calm(d, e) /\ e.flows = d.flows
           /\ \A i \in Nodes : d.state[i] \in Pending <=> e.state[i] \in Pending
           /\ \A i \in Nodes : d.state[i] \notin Pending => e.state[i] = d.state[i]
           /\ Inside(d, e, RootOf(j))
<1>1. CASE Parent[j] = None \/ ~Exists(d, Parent[j])
  BY <1>1 DEF SettleChildCompleted, Calm, Inside
<1>2. CASE Parent[j] # None /\ Exists(d, Parent[j])
  <2> DEFINE p == Parent[j]
  <2>1. p \in Nodes \ {} /\ "completed" \in Finished
    BY <1>2, FlowsAssumption DEF Finished
  <2>2. e = LeaveBarrier(Recorded(d, p, j, "completed"), p, j)
    BY <1>2 DEF SettleChildCompleted
  <2>3. Good(e, A, {}) /\ Released(d, e, p)
    BY <1>2, <2>1, <2>2, SettleIntoGood
  <2>6. RootOf(p) = RootOf(j)
    BY <1>2, AboveClosed, SameRoot
  <2>. HIDE DEF p
  <2>4. Calm(d, e)
    BY <2>1, <2>3, ReleasedIsCalm
  <2>5. Inside(d, e, RootOf(j))
    BY <2>1, <2>3, <2>6, ReleasedInside
  <2>. QED  BY <2>1, <2>3, <2>4, <2>5 DEF Released, Pending, Parked
<1>. QED  BY <1>1, <1>2

\* The felled ancestors are parked.
LEMMA FelledParked ==
    ASSUME NEW d, NEW j \in Nodes
    PROVE  /\ Felled(d, j) \in SUBSET Nodes /\ Felled(d, j) \subseteq Above[j]
           /\ \A a \in Felled(d, j) : Parked(d, a)
<1>1. Felled(d, j) \subseteq Above[j]
  BY DEF Felled
<1>2. ASSUME NEW a \in Felled(d, j)  PROVE Parked(d, a)
  <2>1. PICK b \in {j} \cup Above[j] : Parent[b] = a /\ b \in Nodes
    BY <1>1, AboveIsParent
  <2>2. a \in Above[b]
    BY <1>1, <2>1, AboveClosed, FlowsAssumption
  <2>. QED  BY <2>1, <2>2 DEF Felled
<1>. QED  BY <1>1, <1>2, AboveClosed

\* One of them, or the job itself, has a parent that is not among them.
LEMMA TopExists ==
    ASSUME NEW j \in Nodes, NEW F, F \subseteq Above[j]
    PROVE  \E b \in {j} \cup F : Parent[b] \notin F
<1>1. SUFFICES ASSUME \A b \in {j} \cup F : Parent[b] \in F  PROVE FALSE
  OBVIOUS
<1>2. F \in SUBSET Nodes /\ Upward(F)
  BY <1>1, AboveClosed DEF Upward
<1>3. Above[j] \subseteq F
  BY <1>1, <1>2, AboveLeast
<1>4. RootOf(j) \in {j} \cup F /\ Parent[RootOf(j)] = None
  BY <1>3, RootOfNode DEF Roots
<1>5. None \in F
  BY <1>1, <1>4
<1>. QED  BY <1>2, <1>5, FlowsAssumption

\* The flow counters, when the roots in R have ended in s.
Counts(f, g, R, s) ==
    g = IF R # {} /\ s \in {"completed", "failed"} THEN [f EXCEPT ![s] = @ + 1] ELSE f

\* The jobs of J have ended in s, and no other job that was to run.
Ends(d, e, J, s) ==
    /\ Calm(d, e)
    /\ \A i \in Nodes \ J : /\ d.state[i] \in Pending <=> e.state[i] \in Pending
                            /\ d.state[i] \notin Pending =>
                                   e.state[i] = d.state[i] \/ e.state[i] = None
    /\ \A i \in J : /\ d.state[i] \in Pending /\ e.state[i] \in {s, None}
                    /\ Parent[i] = None /\ Keep[i] # "none" => e.state[i] = s

LEMMA EndedIsLull ==
    ASSUME NEW d, NEW e, NEW J, NEW s \in Finished, Ended(d, e, J, s)
    PROVE  Lull(d, e)
BY DEF Ended, Lull

Unlinked(d, F, T) ==
    [d EXCEPT !.deps = [a \in Nodes |-> IF a \in F THEN d.deps[a] \ T ELSE d.deps[a]]]

\* Barriers change only for the jobs of F.
LEMMA UnlinkedGood ==
    ASSUME NEW d, NEW A, NEW F \in SUBSET Nodes, NEW T, Good(d, A, {}),
           NEW u, u = Unlinked(d, F, T)
    PROVE  Good(u, A, F) /\ u.state = d.state /\ u.flows = d.flows
<1> DEFINE dp == [a \in Nodes |-> IF a \in F THEN d.deps[a] \ T ELSE d.deps[a]]
<1>0. d \in Db
  BY DEF Good, Firm
<1>1. dp \in [Nodes -> SUBSET Nodes] /\ \A i \in Nodes \ F : dp[i] = d.deps[i]
  BY <1>0 DEF Db
<1>2. u = [d EXCEPT !.deps = dp]
  BY DEF Unlinked
<1>. HIDE DEF dp
<1>3. /\ u \in Db /\ u.deps = dp /\ u.state = d.state /\ u.fanin = d.fanin /\ u.live = d.live
      /\ u.score = d.score /\ u.flows = d.flows
  BY <1>0, <1>1, <1>2 DEF Db
<1>4. BarrierIn(u, F)
  BY <1>1, <1>3 DEF Good, Firm, BarrierIn, Parked
<1>5. HonestIn(u) /\ ReclaimableIn(u) /\ IndexIn(u) /\ FreshIn(u, A)
  BY <1>3 DEF Good, Firm, HonestIn, ReclaimableIn, IndexIn, FreshIn, RunningRoot, Exists, IsFinished
<1>6. PlacedIn(u, {})
  BY <1>3, PlacesKept DEF Good, SamePlaces, IsFinished, Exists
<1>. QED  BY <1>3, <1>4, <1>5, <1>6 DEF Good, Firm

Bumped(d, o) == [d EXCEPT !.flows[o] = @ + 1]

\* Counting a flow changes nothing else.
LEMMA CountedGood ==
    ASSUME NEW d, NEW A, NEW X, Good(d, A, X), NEW o \in {"completed", "failed"},
           NEW e, e = Bumped(d, o)
    PROVE  /\ Good(e, A, X) /\ e.state = d.state
           /\ e.flows = [d.flows EXCEPT ![o] = @ + 1]
<1> DEFINE fl == [d.flows EXCEPT ![o] = @ + 1]
<1>0. d \in Db
  BY DEF Good, Firm
<1>1. fl \in [{"completed", "failed"} -> Nat]
  BY <1>0 DEF Db
<1>2. e = [d EXCEPT !.flows = fl]
  BY <1>0 DEF Db, Bumped
<1>4. fl = [d.flows EXCEPT ![o] = @ + 1]
  OBVIOUS
<1>. HIDE DEF fl
<1>3. /\ e \in Db /\ e.deps = d.deps /\ e.state = d.state /\ e.fanin = d.fanin /\ e.live = d.live
      /\ e.score = d.score /\ e.flows = fl
  BY <1>0, <1>1, <1>2 DEF Db
<1>5. HonestIn(e) /\ ReclaimableIn(e) /\ IndexIn(e) /\ FreshIn(e, A) /\ BarrierIn(e, X)
  BY <1>3 DEF Good, Firm, HonestIn, ReclaimableIn, IndexIn, FreshIn, RunningRoot, Exists, IsFinished,
       BarrierIn, Parked
<1>6. PlacedIn(e, {})
  BY <1>3, PlacesKept DEF Good, SamePlaces, IsFinished, Exists
<1>. QED  BY <1>3, <1>4, <1>5, <1>6 DEF Good, Firm

Undelivered == {"failed", "cancelled"}

\* What a job that delivers nothing does to its ancestors: those of F end with it.
Fells(d, e, j, F, s) ==
    /\ Ends(d, e, F, s) /\ Counts(d.flows, e.flows, F \cap Roots, s)
    /\ e.state[j] = d.state[j] \/ e.state[j] = None
    /\ Inside(d, e, RootOf(j))

LEMMA SettleChildGoneGood ==
    ASSUME NEW d, NEW A, NEW j \in Nodes, NEW s \in Undelivered, NEW t \in Clock,
           Good(d, A, {}), d.state[j] \in {s, None},
           NEW e, e = SettleChildGone(d, j, s, t)
    PROVE  Good(e, A, {}) /\ Fells(d, e, j, Felled(d, j), s)
<1> DEFINE F == Felled(d, j)
           T == {j} \cup Above[j]
           u == Unlinked(d, F, T)
           FN == F \ Roots
           FR == F \cap Roots
           below == RecordFinished(u, FN, s, t)
           up == RecordFinished(below, FR, s, t)
           counted == IF s = "failed" /\ FR # {} THEN [up EXCEPT !.flows["failed"] = @ + 1] ELSE up
           top == CHOOSE b \in {j} \cup F : Parent[b] \notin F
           p == Parent[top]
<1>1. e = IF p # None /\ OnFail[top] = "continue" /\ Exists(counted, p)
          THEN LeaveBarrier(Recorded(counted, p, top, s), p, top) ELSE counted
  BY DEF SettleChildGone, Unlinked
<1>0. s \in Finished /\ (s = "failed" <=> s \in {"completed", "failed"})
  BY DEF Finished, Undelivered
<1>2. /\ F \in SUBSET Nodes /\ F \subseteq Above[j]
      /\ \A a \in F : Parked(d, a)
  BY FelledParked
<1>3. top \in {j} \cup F /\ Parent[top] \notin F
  BY <1>2, TopExists
<1>4. FN \in SUBSET Nodes /\ FR \in SUBSET Nodes
  BY <1>2
<1>5. Apart(FN) /\ Apart(FR)
  BY <1>2, RootOfNode DEF Apart, Roots
<1>6. /\ \A i \in F : i \in FN \/ i \in FR
      /\ \A i \in FN : i \in F /\ Parent[i] # None
      /\ \A i \in FR : i \in F /\ i \notin FN
      /\ F = FN \cup FR
  BY <1>2 DEF Roots
<1>7. j \in Nodes \ F
  BY <1>2, NoCycle
<1>8. u = Unlinked(d, F, T)
  OBVIOUS
<1>. HIDE DEF F, T, u
<1>9. Good(u, A, F) /\ u.state = d.state /\ u.flows = d.flows
  BY <1>2, <1>8, UnlinkedGood
<1>10. AllPending(u, FN)
  BY <1>2, <1>6, <1>9 DEF AllPending, Parked, Pending
<1>11. below = RecordFinished(u, FN, s, t)
  OBVIOUS
<1>12. up = RecordFinished(below, FR, s, t)
  OBVIOUS
<1>. HIDE DEF FN, below, up
<1>13. Good(below, A, F \ FN) /\ Ended(u, below, FN, s)
  BY <1>4, <1>5, <1>9, <1>10, <1>0, <1>11, RecordFinishedGood
<1>14. AllPending(below, FR)
  <2> SUFFICES ASSUME NEW i \in FR  PROVE below.state[i] \in Pending
    BY DEF AllPending
  <2>1. i \in Nodes \ FN /\ u.state[i] = "waiting-children"
    BY <1>2, <1>6, <1>9 DEF Parked
  <2>. QED  BY <1>13, <2>1 DEF Ended, IsFinished, Finished, Pending
<1>. HIDE DEF FR
<1>15. Good(up, A, (F \ FN) \ FR) /\ Ended(below, up, FR, s)
  BY <1>4, <1>5, <1>12, <1>13, <1>0, <1>14, RecordFinishedGood
<1>16. Good(up, A, {})
  <2>1. (F \ FN) \ FR = {}
    BY <1>6
  <2>. QED  BY <1>15, <2>1
<1>17. up.flows = d.flows
  BY <1>9, <1>13, <1>15 DEF Ended
<1>18. Good(counted, A, {}) /\ counted.state = up.state /\ Counts(d.flows, counted.flows, FR, s)
  <2>1. CASE s = "failed" /\ FR # {}
    <3>1. counted = Bumped(up, "failed")
      BY <2>1 DEF Bumped
    <3>. HIDE DEF counted
    <3>2. /\ Good(counted, A, {}) /\ counted.state = up.state
          /\ counted.flows = [up.flows EXCEPT !["failed"] = @ + 1]
      BY <1>16, <3>1, CountedGood
    <3>. QED  BY <1>17, <2>1, <3>2 DEF Counts
  <2>2. CASE ~(s = "failed" /\ FR # {})
    BY <1>0, <1>16, <1>17, <2>2 DEF Counts
  <2>. QED  BY <2>1, <2>2
<1>. HIDE DEF counted
<1>19. \A i \in F : d.state[i] \in Pending /\ counted.state[i] \in {s, None}
  <2> SUFFICES ASSUME NEW i \in F  PROVE d.state[i] \in Pending /\ counted.state[i] \in {s, None}
    OBVIOUS
  <2>1. CASE i \in FR
    BY <1>2, <1>15, <1>18, <2>1 DEF Ended, Parked, Pending
  <2>2. CASE i \in FN /\ i \notin FR
    <3>1. below.state[i] \in {s, None} /\ i \in Nodes \ FR
      BY <1>2, <1>13, <2>2 DEF Ended
    <3>. QED  BY <1>2, <1>15, <1>18, <3>1 DEF Ended, Parked, Pending
  <2>. QED  BY <1>6, <2>1, <2>2
<1>20. \A i \in F : Parent[i] = None /\ Keep[i] # "none" => counted.state[i] = s
  BY <1>6, <1>15, <1>18 DEF Ended
<1>21. \A i \in Nodes \ F : \/ counted.state[i] = d.state[i]
                            \/ IsFinished(d, i) /\ counted.state[i] = None
  <2> SUFFICES ASSUME NEW i \in Nodes \ F
               PROVE  counted.state[i] = d.state[i] \/ (IsFinished(d, i) /\ counted.state[i] = None)
    OBVIOUS
  <2>1. i \in Nodes \ FN /\ i \in Nodes \ FR
    BY <1>6
  <2>2. below.state[i] = d.state[i] \/ (IsFinished(d, i) /\ below.state[i] = None)
    BY <1>9, <1>13, <2>1 DEF Ended, IsFinished
  <2>3. up.state[i] = below.state[i] \/ (IsFinished(below, i) /\ up.state[i] = None)
    BY <1>15, <2>1 DEF Ended
  <2>. QED  BY <1>18, <2>2, <2>3, NoneIsNoState DEF IsFinished
<1>22. Ends(d, counted, F, s)
  <2>1. Lull(d, counted)
    BY <1>0, <1>19, <1>21, <1>2 DEF Lull
  <2>2. Calm(d, counted)
    BY <2>1 DEF Lull, Calm
  <2>3. \A i \in Nodes \ F : /\ d.state[i] \in Pending <=> counted.state[i] \in Pending
                             /\ d.state[i] \notin Pending =>
                                    counted.state[i] = d.state[i] \/ counted.state[i] = None
    BY <1>21, NoneIsNoState DEF IsFinished, Finished, Pending
  <2>4. \A i \in F : /\ d.state[i] \in Pending /\ counted.state[i] \in {s, None}
                     /\ Parent[i] = None /\ Keep[i] # "none" => counted.state[i] = s
    BY <1>19, <1>20
  <2>. QED  BY <2>2, <2>3, <2>4 DEF Ends
<1>23. counted.state[j] = d.state[j] \/ counted.state[j] = None
  BY <1>7, <1>21
<1>26. Inside(d, counted, RootOf(j))
  <2>1. \A i \in F : RootOf(i) = RootOf(j)
    BY <1>2, SameRoot
  <2>2. Inside(u, below, RootOf(j)) /\ Inside(below, up, RootOf(j))
    BY <1>4, <1>6, <1>13, <1>15, <2>1, EndedInside
  <2>. QED  BY <1>9, <1>18, <2>2 DEF Inside
<1>27. RootOf(top) = RootOf(j)
  BY <1>2, <1>3, SameRoot
<1>. HIDE DEF top
<1>24. CASE p # None /\ OnFail[top] = "continue" /\ Exists(counted, p)
  <2>1. top \in Nodes /\ counted.state[top] \in {s, None}
    BY <1>2, <1>3, <1>19, <1>23
  <2>2. p \in Nodes \ {} /\ p \notin F
    BY <1>3, <1>24, <2>1, FlowsAssumption
  <2>10. RootOf(p) = RootOf(j)
    BY <1>24, <1>27, <2>1, AboveClosed, SameRoot
  <2>3. Good(e, A, {}) /\ Released(counted, e, p)
    <3>1. e = LeaveBarrier(Recorded(counted, p, top, s), p, top)
      BY <1>1, <1>24
    <3>2. Parent[top] = p
      OBVIOUS
    <3>. HIDE DEF p
    <3>. QED  BY <1>18, <1>24, <2>1, <2>2, <3>1, <1>0, <3>2, SettleIntoGood
  <2>. HIDE DEF p
  <2>4. Calm(d, e)
    <3>1. Calm(counted, e)
      BY <2>2, <2>3, ReleasedIsCalm
    <3>2. Lull(d, counted)
      BY <1>0, <1>19, <1>21, <1>2 DEF Lull
    <3>. QED  BY <3>1, <3>2, LullThenCalm
  <2>5. \A i \in Nodes \ {p} : e.state[i] = counted.state[i]
    BY <2>3 DEF Released
  <2>6. /\ counted.state[p] \in Pending <=> e.state[p] \in Pending
        /\ counted.state[p] \notin Pending => e.state[p] = counted.state[p]
    BY <2>3 DEF Released, Parked, Pending
  <2>7. Ends(d, e, F, s)
    BY <1>2, <1>22, <2>2, <2>4, <2>5, <2>6 DEF Ends
  <2>8. e.flows = counted.flows
    BY <2>3 DEF Released
  <2>9. e.state[j] = counted.state[j]
    <3>1. CASE j = p
      BY <1>0, <1>23, <2>3, <3>1, NoneIsNoState DEF Released, Parked, Finished, Pending
    <3>. QED  BY <2>5, <3>1
  <2>11. Inside(counted, e, RootOf(j))
    BY <2>2, <2>3, <2>10, ReleasedInside
  <2>12. Inside(d, e, RootOf(j))
    BY <1>26, <2>11 DEF Inside
  <2>. QED  BY <1>18, <1>23, <2>3, <2>7, <2>8, <2>9, <2>12 DEF F, FR, Fells
<1>25. CASE ~(p # None /\ OnFail[top] = "continue" /\ Exists(counted, p))
  <2>1. e = counted
    BY <1>1, <1>25
  <2>. QED  BY <1>18, <1>22, <1>23, <1>26, <2>1 DEF F, FR, Fells
<1>. QED  BY <1>24, <1>25

\* The flow counters count a root that has ended in s, if it has children.
FlowsIn(J) == {r \in J : Parent[r] = None /\ Kids(r) # {}}

\* The end of j, alone or with ancestors that it fells.
Finishes(d, e, j, s) ==
    /\ Inside(d, e, RootOf(j))
    /\ \E J \in SUBSET ({j} \cup Above[j]) :
           j \in J /\ Ends(d, e, J, s) /\ Counts(d.flows, e.flows, FlowsIn(J), s)

LEMMA EndedEnds ==
    ASSUME NEW d, NEW e, NEW J, NEW s \in Finished, AllPending(d, J), Ended(d, e, J, s)
    PROVE  Ends(d, e, J, s)
<1>1. Calm(d, e)
  BY DEF Ended, Calm
<1>. QED  BY <1>1, NoneIsNoState DEF Ended, Ends, AllPending, IsFinished, Finished, Pending

LEMMA EndWithoutGood ==
    ASSUME NEW d, NEW A, NEW j \in Nodes, NEW s \in Undelivered, NEW t \in Clock,
           Good(d, A, {}), d.state[j] \in Pending,
           NEW e, e = EndWithout(d, j, s, t)
    PROVE  Good(e, A, {}) /\ Finishes(d, e, j, s)
<1> DEFINE r == RecordFinished(d, {j}, s, t)
<1>0. /\ s \in Finished /\ {j} \in SUBSET Nodes
      /\ s = "failed" <=> s \in {"completed", "failed"}
  BY DEF Finished, Undelivered
<1>1. AllPending(d, {j}) /\ Apart({j})
  BY DEF AllPending, Apart
<1>2. r = RecordFinished(d, {j}, s, t)
  OBVIOUS
<1>3. e = IF Parent[j] # None THEN SettleChildGone(r, j, s, t)
          ELSE IF s = "failed" /\ Kids(j) # {} THEN Bumped(r, "failed") ELSE r
  BY DEF EndWithout, Bumped
<1>. HIDE DEF r
<1>4. Good(r, A, {} \ {j}) /\ Ended(d, r, {j}, s)
  BY <1>0, <1>1, <1>2, RecordFinishedGood
<1>5. Good(r, A, {})
  <2>1. {} \ {j} = {}
    OBVIOUS
  <2>. QED  BY <1>4, <2>1
<1>6. r.state[j] \in {s, None} /\ r.flows = d.flows
  BY <1>4 DEF Ended
<1>7. Ends(d, r, {j}, s)
  BY <1>0, <1>1, <1>4, EndedEnds
<1>10. Inside(d, r, RootOf(j))
  BY <1>0, <1>4, EndedInside
<1>8. CASE Parent[j] # None
  <2> DEFINE F == Felled(r, j)
             J == {j} \cup F
  <2>1. e = SettleChildGone(r, j, s, t)
    BY <1>3, <1>8
  <2>13. Good(e, A, {}) /\ Fells(r, e, j, F, s)
    BY <1>5, <1>6, <2>1, SettleChildGoneGood
  <2>2. /\ Good(e, A, {}) /\ Ends(r, e, F, s) /\ Counts(r.flows, e.flows, F \cap Roots, s)
        /\ e.state[j] = r.state[j] \/ e.state[j] = None
    BY <2>13 DEF Fells
  <2>15. Inside(d, e, RootOf(j))
    BY <1>10, <2>13 DEF Fells, Inside
  <2>3. F \in SUBSET Nodes /\ F \subseteq Above[j] /\ \A a \in F : Parked(r, a)
    BY FelledParked
  <2>. HIDE DEF F
  <2>4. j \notin F
    BY <2>3, NoCycle
  <2>5. FlowsIn(J) = F \cap Roots
    BY <1>8, <2>3, AboveHasKids DEF FlowsIn, Roots
  <2>6. Calm(d, e)
    BY <1>0, <1>4, <2>2, EndedIsLull, LullThenCalm DEF Ends
  <2>7. \A i \in Nodes \ J : /\ d.state[i] \in Pending <=> e.state[i] \in Pending
                             /\ d.state[i] \notin Pending =>
                                    e.state[i] = d.state[i] \/ e.state[i] = None
    BY <1>7, <2>2 DEF Ends
  <2>8. d.state[j] \in Pending /\ e.state[j] \in {s, None}
    BY <1>6, <2>2
  <2>9. \A i \in F : d.state[i] \in Pending
    BY <1>7, <2>2, <2>3, <2>4 DEF Ends
  <2>14. \A i \in J : /\ d.state[i] \in Pending /\ e.state[i] \in {s, None}
                      /\ Parent[i] = None /\ Keep[i] # "none" => e.state[i] = s
    BY <1>8, <2>2, <2>8, <2>9 DEF Ends
  <2>10. Ends(d, e, J, s)
    BY <2>6, <2>7, <2>14 DEF Ends
  <2>11. Counts(d.flows, e.flows, FlowsIn(J), s)
    BY <1>6, <2>2, <2>5
  <2>12. J \in SUBSET ({j} \cup Above[j]) /\ j \in J
    BY <2>3
  <2>. QED  BY <2>2, <2>10, <2>11, <2>12, <2>15 DEF Finishes
<1>9. CASE Parent[j] = None
  <2>1. FlowsIn({j}) = IF Kids(j) # {} THEN {j} ELSE {}
    BY <1>9 DEF FlowsIn
  <2>2. Good(e, A, {}) /\ e.state = r.state /\ Counts(d.flows, e.flows, FlowsIn({j}), s)
    <3>1. CASE s = "failed" /\ Kids(j) # {}
      <4>1. e = Bumped(r, "failed")
        BY <1>3, <1>9, <3>1
      <4>2. /\ Good(e, A, {}) /\ e.state = r.state
            /\ e.flows = [r.flows EXCEPT !["failed"] = @ + 1]
        BY <1>5, <4>1, CountedGood
      <4>. QED  BY <1>0, <1>6, <2>1, <3>1, <4>2 DEF Counts
    <3>2. CASE ~(s = "failed" /\ Kids(j) # {})
      <4>1. e = r
        BY <1>3, <1>9, <3>2
      <4>. QED  BY <1>0, <1>5, <1>6, <2>1, <3>2, <4>1 DEF Counts
    <3>. QED  BY <3>1, <3>2
  <2>3. Ends(d, e, {j}, s)
    BY <1>7, <2>2 DEF Ends, Calm
  <2>4. Inside(d, e, RootOf(j))
    BY <1>10, <2>2 DEF Inside
  <2>. QED  BY <2>2, <2>3, <2>4 DEF Finishes
<1>. QED  BY <1>8, <1>9
-----------------------------------------------------------------------------
(* The scripts. *)

\* At most finished jobs are gone.
Thins(d, e) ==
    /\ e.flows = d.flows
    /\ \A i \in Nodes : e.state[i] = d.state[i] \/ (IsFinished(d, i) /\ e.state[i] = None)

LEMMA ThinsIsLull ==
    ASSUME NEW d, NEW e, Thins(d, e)
    PROVE  Lull(d, e)
BY DEF Thins, Lull

\* A trim takes finished jobs only.
LEMMA TrimGood ==
    ASSUME NEW d, NEW A, NEW V \in SUBSET Nodes, Good(d, A, {}), \A v \in V : IsFinished(d, v),
           NEW e, e = RemoveFinished(d, V)
    PROVE  /\ Good(e, A, {}) /\ Thins(d, e)
           /\ V = {} => \A i \in Nodes : e.state[i] = d.state[i]
<1> DEFINE J == UNION {Subtree(d, j) : j \in V}
<1>1. J \in SUBSET Nodes /\ \A i \in J : IsFinished(d, i)
  BY DEF Subtree, Below
<1>2. e = DelJobs(d, J)
  BY DEF RemoveFinished
<1>3. V = {} => J = {}
  OBVIOUS
<1>. HIDE DEF J
<1>4. d \in Db
  BY DEF Good, Firm
<1>5. Good(e, A, {}) /\ e.flows = d.flows
  BY RemoveFinishedGood DEF Fewer
<1>6. \A i \in Nodes : e.state[i] = d.state[i] \/ (IsFinished(d, i) /\ e.state[i] = None)
  BY <1>1, <1>2, <1>4, DelJobsStates
<1>7. ASSUME V = {}, NEW i \in Nodes  PROVE e.state[i] = d.state[i]
  <2>1. e = DelKeys(d, {} \cup UNION {Indexed(d, j) : j \in {}})
    BY <1>2, <1>3, <1>7 DEF DelJobs
  <2>2. {} \cup UNION {Indexed(d, j) : j \in {}} = {}
    OBVIOUS
  <2>. QED  BY <1>4, <2>1, <2>2 DEF DelKeys, Db
<1>. QED  BY <1>5, <1>6, <1>7 DEF Thins

\* The sets a trim may take.
LEMMA TrimsSettled ==
    ASSUME NEW d, NEW j \in Nodes, NEW s \in Finished, NEW V \in Trims(d, j, s)
    PROVE  V \in SUBSET Nodes /\ \A v \in V : IsFinished(d, v)
BY DEF Trims, Settled, IsFinished

\* What a script that ends j may have to trim, once it has left d.
LEMMA TrimmedGood ==
    ASSUME NEW d, NEW A, NEW j \in Nodes, NEW s \in Finished, Good(d, A, {}), Trimmed(d, j, s)
    PROVE  /\ Good(db', A, {}) /\ Thins(d, db')
           /\ Keep[RootOf(j)] # "bounded" => \A i \in Nodes : db'.state[i] = d.state[i]
<1>1. RootOf(j) \in Nodes
  BY RootOfNode DEF Roots
<1>2. PICK V \in IF db.state[RootOf(j)] \in Pending /\ d.state[RootOf(j)] = s
                 THEN Trims(d, RootOf(j), s) ELSE {{}} : db' = RemoveFinished(d, V)
  BY DEF Trimmed
<1>3. V \in SUBSET Nodes /\ \A v \in V : IsFinished(d, v)
  BY <1>1, <1>2, TrimsSettled
<1>4. Keep[RootOf(j)] # "bounded" => V = {}
  BY <1>2 DEF Trims
<1> DEFINE e == db'
<1>5. e = RemoveFinished(d, V)
  BY <1>2
<1>. HIDE DEF e
<1>6. /\ Good(e, A, {}) /\ Thins(d, e)
      /\ V = {} => \A i \in Nodes : e.state[i] = d.state[i]
  BY <1>3, <1>5, TrimGood
<1>. QED  BY <1>4, <1>6 DEF e

\* A job that is to run, cancelled or gone does not complete or fail.
Unended == Pending \cup {"cancelled", None}
Uncounted(d, e) ==
    e.flows = d.flows /\ \A i \in Nodes : d.state[i] \in Unended => e.state[i] \in Unended

LEMMA UncountedTransitive ==
    ASSUME NEW d, NEW e, NEW f, Uncounted(d, e), Uncounted(e, f)
    PROVE  Uncounted(d, f)
BY DEF Uncounted

LEMMA ThinsUncounted ==
    ASSUME NEW d, NEW e, Thins(d, e)
    PROVE  Uncounted(d, e)
BY DEF Thins, Uncounted, Unended

\* cancelOne of jobs that may end together.
LEMMA CancelEachGood ==
    ASSUME NEW d, NEW A, NEW J \in SUBSET Nodes, NEW t \in Clock, Good(d, A, {}), Apart(J),
           NEW e, e = CancelEach(d, J, t)
    PROVE  /\ Good(e, A, {})
           /\ Ended(d, e, {j \in J : d.state[j] \in Pending \ {"active"}}, "cancelled")
<1> DEFINE ask == {j \in J : d.state[j] = "active"}
           end == {j \in J : d.state[j] \in Pending \ {"active"}}
           cc == [j \in Nodes |-> j \in ask \/ d.cancel[j]]
           m == [d EXCEPT !.cancel = cc]
<1>0. d \in Db
  BY DEF Good, Firm
<1>1. e = RecordFinished(m, end, "cancelled", t)
  BY DEF CancelEach
<1>2. cc \in [Nodes -> BOOLEAN]
  OBVIOUS
<1>3. end \in SUBSET Nodes /\ Apart(end) /\ "cancelled" \in Finished
  BY DEF Apart, Finished
<1>4. AllPending(d, end)
  BY DEF AllPending
<1>. HIDE DEF ask, end, cc
<1>5. /\ m \in Db /\ m.deps = d.deps /\ m.state = d.state /\ m.fanin = d.fanin /\ m.live = d.live
      /\ m.score = d.score /\ m.flows = d.flows
  BY <1>0, <1>2 DEF Db
<1>. HIDE DEF m
<1>6. Good(m, A, {})
  <2>1. Firm(m, A, {})
    BY <1>5 DEF Good, Firm, HonestIn, ReclaimableIn, IndexIn, FreshIn, RunningRoot, Exists, IsFinished,
         BarrierIn, Parked
  <2>2. PlacedIn(m, {})
    BY <1>5, PlacesKept DEF Good, SamePlaces, IsFinished, Exists
  <2>. QED  BY <2>1, <2>2 DEF Good
<1>7. AllPending(m, end)
  BY <1>4, <1>5 DEF AllPending
<1>8. Good(e, A, {} \ end) /\ Ended(m, e, end, "cancelled")
  BY <1>1, <1>3, <1>6, <1>7, RecordFinishedGood
<1>9. {} \ end = {}
  OBVIOUS
<1>10. Ended(d, e, end, "cancelled")
  BY <1>5, <1>8 DEF Ended, IsFinished
<1>. QED  BY <1>8, <1>9, <1>10 DEF end

LEMMA EndedUncounted ==
    ASSUME NEW d, NEW e, NEW J, Ended(d, e, J, "cancelled")
    PROVE  Uncounted(d, e)
BY DEF Ended, Uncounted, Unended

\* A parent that a step lets run has no child that may still run.
Bars(d, e) ==
    \A p, c \in Nodes : Parked(d, p) /\ e.state[p] = "wait" /\ Parent[c] = p => e.state[c] \notin Pending

LEMMA CalmBars ==
    ASSUME NEW d, NEW e, Calm(d, e)
    PROVE  Bars(d, e)
BY NoneIsNoState DEF Calm, Bars, Parked, Finished, Pending

\* REMOVE_JOB.
LEMMA RemoveTreeGood ==
    ASSUME NEW d, NEW A, NEW j \in Nodes, Good(d, A, {}), NEW e, e = RemoveTree(d, j)
    PROVE  Good(e, A, {}) /\ Calm(d, e) /\ Uncounted(d, e)
<1> DEFINE gone == Indexed(d, j)
           tree == {k \in Below(j) :
                      \A m \in Above[k] \cap Below(j) : Exists(d, m) /\ m \notin gone}
           J == {j} \cup tree
           r == DelJobs(d, J)
           p == Parent[j]
<1>1. e = IF p # None /\ Exists(r, p) THEN LeaveBarrier(r, p, j) ELSE r
  BY DEF RemoveTree
<1>2. J \in SUBSET Nodes /\ j \in J
  BY DEF Below
<1>3. r = DelJobs(d, J)
  OBVIOUS
<1>. HIDE DEF J, r
<1>4. d \in Db
  BY DEF Good, Firm
<1>5. Good(r, A, {})
  BY <1>2, <1>3, DelJobsGood DEF Good
<1>6. r.flows = d.flows
  BY <1>2, <1>3, <1>4, DelJobsDeletes DEF Deleted
<1>7. \A i \in Nodes : r.state[i] = d.state[i] \/ r.state[i] = None
  BY <1>2, <1>3, <1>4, DelJobsStates
<1>8. r.state[j] = None
  BY <1>2, <1>3, <1>4, DelJobsStates
<1>9. Lull(d, r) /\ Uncounted(d, r)
  BY <1>6, <1>7 DEF Lull, Uncounted, Unended
<1>10. CASE p # None /\ Exists(r, p)
  <2>1. p \in Nodes \ {} /\ Parent[j] = p /\ r.state[j] \notin Pending
    BY <1>8, <1>10, FlowsAssumption, NoneIsNoState
  <2>2. e = LeaveBarrier(r, p, j)
    BY <1>1, <1>10
  <2>. HIDE DEF p
  <2>3. Good(e, A, {}) /\ Released(r, e, p)
    BY <1>5, <2>1, <2>2, LeaveBarrierGood
  <2>4. Calm(d, e)
    BY <1>9, <2>1, <2>3, ReleasedIsCalm, LullThenCalm
  <2>5. Uncounted(r, e)
    BY <2>1, <2>3 DEF Released, Uncounted, Unended, Pending
  <2>. QED  BY <1>9, <2>3, <2>4, <2>5, UncountedTransitive
<1>11. CASE ~(p # None /\ Exists(r, p))
  <2>1. e = r
    BY <1>1, <1>11
  <2>2. Calm(d, e)
    BY <1>9, <2>1 DEF Lull, Calm
  <2>. QED  BY <1>5, <1>9, <2>1, <2>2
<1>. QED  BY <1>10, <1>11

\* A failed job j waits again, and nobody else's state changes.
Revived(d, e, j) ==
    /\ e.flows = d.flows
    /\ d.state[j] = "failed" /\ e.state[j] \in {"wait", "waiting-children"}
    /\ \A i \in Nodes \ {j} : e.state[i] = d.state[i]

\* The children of j that RETRY_JOB puts into its barrier.
Unsettled(d, j) == {c \in Kids(j) : d.state[c] \notin {None, "completed", "cancelled"}}

\* The fields after a retry of a root, with the jobs of B live again ...
RootRetried(d, e, j, B, t) ==
    /\ e \in Db /\ Revived(d, e, j) /\ e.fanin = d.fanin
    /\ e.deps[j] = d.deps[j] \cup Unsettled(d, j)
    /\ \A i \in Nodes \ {j} : e.deps[i] = d.deps[i] /\ e.live[i] = d.live[i]
    /\ e.live[j] = d.live[j] \cup B
    /\ \A i \in Nodes : e.score[i] = IF i \in B THEN LIVE + t ELSE IF i = j THEN 0 ELSE d.score[i]

LEMMA RootRetriedGood ==
    ASSUME NEW d, NEW A, NEW j \in Nodes, NEW B, NEW t \in Clock, NEW e,
           Good(d, A, {}), Parent[j] = None, RootRetried(d, e, j, B, t),
           \A i \in B : i \in Below(j) /\ IsFinished(d, i),
           \A i \in Below(j) : IsFinished(d, i) /\ WholeIn(d, i) => i \in B
    PROVE  Good(e, A, {})
<1>1. \A i \in B : i \in Nodes /\ RootOf(i) = j /\ Parent[i] # None /\ i # j
  <2> SUFFICES ASSUME NEW i \in B  PROVE i \in Nodes /\ RootOf(i) = j /\ Parent[i] # None /\ i # j
    OBVIOUS
  <2>1. i \in Nodes /\ j \in Above[i]
    BY DEF Below
  <2>2. Parent[i] # None /\ i # j
    BY <2>1, RootsTop
  <2>. QED  BY <2>1, <2>2, OneRoot
<1>2. HonestIn(e) /\ FreshIn(e, A)
  <2>1. HonestIn(e)
    BY FlowsAssumption DEF Good, Firm, HonestIn, RootRetried, Revived
  <2>2. FreshIn(e, A)
    BY NoneIsNoState DEF Good, Firm, FreshIn, RootRetried, Revived, Finished
  <2>. QED  BY <2>1, <2>2
<1>3. IndexIn(e)
  BY <1>1 DEF Good, Firm, IndexIn, RootRetried
<1>4. BarrierIn(e, {})
  <2> SUFFICES ASSUME NEW p \in Nodes, NEW c \in Nodes,
                      Parked(e, p), Parent[c] = p, e.state[c] \in Pending
               PROVE  c \in e.deps[p]
    BY DEF BarrierIn
  <2>1. c # j
    BY FlowsAssumption
  <2>2. d.state[c] \in Pending
    BY <2>1 DEF RootRetried, Revived
  <2>3. CASE p = j
    BY <2>2, <2>3, NoneIsNoState DEF RootRetried, Unsettled, Kids, Pending
  <2>4. CASE p # j
    BY <2>2, <2>4 DEF Good, Firm, BarrierIn, RootRetried, Revived, Parked
  <2>. QED  BY <2>3, <2>4
<1>5. ReclaimableIn(e)
  <2> SUFFICES ASSUME NEW i \in Nodes, IsFinished(e, i), e.score[i] >= LIVE
               PROVE  RunningRoot(e, i) /\ i \in e.live[RootOf(i)]
    BY DEF ReclaimableIn
  <2>1. i # j /\ IsFinished(d, i)
    BY DEF RootRetried, Revived, IsFinished, Finished
  <2>2. Exists(e, j) /\ ~IsFinished(e, j)
    BY NoneIsNoState DEF RootRetried, Revived, Exists, IsFinished, Finished, Pending
  <2>3. CASE i \in B
    BY <1>1, <2>2, <2>3 DEF RunningRoot, RootRetried
  <2>4. CASE i \notin B
    <3>1. RunningRoot(d, i) /\ i \in d.live[RootOf(i)]
      BY <2>1, <2>4 DEF Good, Firm, ReclaimableIn, RootRetried
    <3>2. RootOf(i) \in Nodes \ {j}
      BY <3>1, RootOfNode DEF RunningRoot, IsFinished, RootRetried, Revived, Finished, Roots
    <3>. QED  BY <3>1, <3>2 DEF RunningRoot, Exists, IsFinished, RootRetried, Revived
  <2>. QED  BY <2>3, <2>4
<1>6. \A i \in Nodes : Exists(e, i) => Exists(d, i)
  BY NoneIsNoState DEF RootRetried, Revived, Exists, Finished
<1>7. \A i \in Nodes : IsFinished(e, i) => i # j /\ IsFinished(d, i)
  BY DEF RootRetried, Revived, IsFinished, Finished
<1>8. ASSUME NEW r \in Nodes, Parent[r] = None, IsFinished(e, r)  PROVE e.score[r] <= now
  <2>1. r \notin B /\ r # j /\ IsFinished(d, r)
    BY <1>1, <1>7, <1>8
  <2>. QED  BY <1>8, <2>1 DEF RootRetried, Good, PlacedIn
<1>9. ASSUME NEW i \in Nodes, Parent[i] # None, IsFinished(e, i), WholeIn(e, i)  PROVE PlaceOf(e, i)
  <2>1. IsFinished(d, i) /\ WholeIn(d, i) /\ i # j /\ RootOf(i) \in Nodes /\ Parent[RootOf(i)] = None
    BY <1>6, <1>7, <1>9, AboveClosed, RootOfNode DEF WholeIn, Roots
  <2>2. CASE RootOf(i) = j
    <3>1. i \in Below(j)
      BY <2>1, <2>2, RootOfNode DEF Below
    <3>2. e.score[i] = LIVE + t
      BY <2>1, <3>1 DEF RootRetried
    <3>3. e.score[i] >= LIVE
      BY <3>2, FlowsAssumption DEF LIVE, Clock
    <3>. QED  BY <1>7, <2>1, <2>2, <3>3 DEF PlaceOf
  <2>3. CASE RootOf(i) # j
    <3>1. i \notin B /\ RootOf(i) \notin B
      BY <1>1, <2>1, <2>3
    <3>2. e.score[i] = d.score[i] /\ e.score[RootOf(i)] = d.score[RootOf(i)]
      BY <2>1, <2>3, <3>1 DEF RootRetried
    <3>3. e.state[RootOf(i)] = d.state[RootOf(i)]
      BY <2>1, <2>3 DEF RootRetried, Revived
    <3>4. PlaceOf(d, i)
      BY <1>9, <2>1 DEF Good, PlacedIn
    <3>. QED  BY <3>2, <3>3, <3>4 DEF PlaceOf, IsFinished
  <2>. QED  BY <2>2, <2>3
<1>10. PlacedIn(e, {})
  BY <1>8, <1>9 DEF PlacedIn
<1>. QED  BY <1>2, <1>3, <1>4, <1>5, <1>10 DEF Good, Firm, RootRetried

\* ... and of a child, which rejoins its parked parent.
ChildRetried(d, e, j, p) ==
    /\ e \in Db /\ Revived(d, e, j)
    /\ e.live = d.live
    /\ e.fanin[p] = d.fanin[p] \ {<<j, "failed">>}
    /\ \A i \in Nodes \ {p} : e.fanin[i] = d.fanin[i]
    /\ e.deps[j] = d.deps[j] \cup Unsettled(d, j)
    /\ e.deps[p] = IF Parked(d, p) THEN d.deps[p] \cup {j} ELSE d.deps[p]
    /\ \A i \in Nodes \ {j, p} : e.deps[i] = d.deps[i]
    /\ \A i \in Nodes \ {j} : e.score[i] = d.score[i]

LEMMA ChildRetriedGood ==
    ASSUME NEW d, NEW A, NEW j \in Nodes, NEW p \in Nodes, NEW e,
           Good(d, A, {}), Parent[j] = p, ChildRetried(d, e, j, p)
    PROVE  Good(e, A, {})
<1>0. p # j
  BY NoCycle, AboveClosed, FlowsAssumption
<1>1. HonestIn(e)
  <2> SUFFICES ASSUME NEW q \in Nodes, NEW c \in Nodes, NEW s \in Finished, <<c, s>> \in e.fanin[q]
               PROVE  Parent[c] = q /\ e.state[c] \in {s, None}
    BY DEF HonestIn
  <2>1. <<c, s>> \in d.fanin[q]
    BY DEF ChildRetried
  <2>2. Parent[c] = q /\ d.state[c] \in {s, None}
    BY <2>1 DEF Good, Firm, HonestIn
  <2>3. c # j
    <3>1. SUFFICES ASSUME c = j  PROVE FALSE
      OBVIOUS
    <3>2. q = p /\ s = "failed"
      BY <2>2, <3>1, NoneIsNoState DEF ChildRetried, Revived, Finished
    <3>. QED  BY <3>1, <3>2 DEF ChildRetried
  <2>. QED  BY <2>2, <2>3 DEF ChildRetried, Revived
<1>2. FreshIn(e, A)
  <2> SUFFICES ASSUME NEW i \in Nodes, RootOf(i) \notin A
               PROVE  e.state[i] = None /\ e.fanin[i] = {}
    BY DEF FreshIn
  <2>1. d.state[i] = None /\ d.fanin[i] = {}
    BY DEF Good, Firm, FreshIn
  <2>2. i # j
    BY <2>1, NoneIsNoState DEF ChildRetried, Revived, Finished
  <2>. QED  BY <2>1, <2>2 DEF ChildRetried, Revived
<1>3. IndexIn(e)
  BY DEF Good, Firm, IndexIn, ChildRetried
<1>4. BarrierIn(e, {})
  <2> SUFFICES ASSUME NEW q \in Nodes, NEW c \in Nodes,
                      Parked(e, q), Parent[c] = q, e.state[c] \in Pending
               PROVE  c \in e.deps[q]
    BY DEF BarrierIn
  <2>1. CASE q = j
    <3>1. c # j
      BY <2>1, NoCycle, AboveClosed, FlowsAssumption
    <3>2. d.state[c] \in Pending
      BY <3>1 DEF ChildRetried, Revived
    <3>. QED  BY <2>1, <3>2, NoneIsNoState DEF ChildRetried, Unsettled, Kids, Pending
  <2>2. CASE q # j /\ c = j
    BY <1>0, <2>2 DEF ChildRetried, Revived, Parked
  <2>3. CASE q # j /\ c # j
    <3>1. Parked(d, q) /\ d.state[c] \in Pending
      BY <2>3 DEF ChildRetried, Revived, Parked
    <3>2. c \in d.deps[q]
      BY <3>1 DEF Good, Firm, BarrierIn
    <3>. QED  BY <2>3, <3>1, <3>2 DEF ChildRetried
  <2>. QED  BY <2>1, <2>2, <2>3
<1>5. ReclaimableIn(e)
  <2> SUFFICES ASSUME NEW i \in Nodes, IsFinished(e, i), e.score[i] >= LIVE
               PROVE  RunningRoot(e, i) /\ i \in e.live[RootOf(i)]
    BY DEF ReclaimableIn
  <2>1. i # j
    BY DEF ChildRetried, Revived, IsFinished, Finished
  <2>2. RunningRoot(d, i) /\ i \in d.live[RootOf(i)]
    BY <2>1 DEF Good, Firm, ReclaimableIn, ChildRetried, Revived, IsFinished
  <2>3. RootOf(i) \in Nodes /\ Parent[RootOf(i)] = None
    BY RootOfNode DEF Roots
  <2>4. RootOf(i) # j
    BY <2>3, FlowsAssumption
  <2>. QED  BY <2>2, <2>3, <2>4 DEF RunningRoot, Exists, IsFinished, ChildRetried, Revived
<1>6. \A i \in Nodes : /\ (e.state[i] \in Finished => i # j /\ d.state[i] \in Finished)
                      /\ (e.state[i] # None => d.state[i] # None)
  BY NoneIsNoState DEF ChildRetried, Revived, IsFinished, Exists, Finished
<1>7. ASSUME NEW r \in Nodes, Parent[r] = None, IsFinished(e, r)  PROVE e.score[r] <= now
  <2>1. r # j /\ IsFinished(d, r)
    BY <1>6, <1>7 DEF IsFinished
  <2>2. e.score[r] = d.score[r]
    BY <2>1 DEF ChildRetried
  <2>3. d.score[r] <= now
    BY <1>7, <2>1 DEF Good, PlacedIn
  <2>. QED  BY <2>2, <2>3
<1>8. ASSUME NEW i \in Nodes, Parent[i] # None, IsFinished(e, i), WholeIn(e, i)  PROVE PlaceOf(e, i)
  <2>1. IsFinished(d, i) /\ i # j
    BY <1>6, <1>8 DEF IsFinished
  <2>4. WholeIn(d, i)
    BY <1>6, <1>8, AboveClosed DEF WholeIn, Exists
  <2>2. RootOf(i) \in Nodes \ {j}
    BY RootOfNode, FlowsAssumption DEF Roots
  <2>3. PlaceOf(d, i)
    BY <1>8, <2>1, <2>4 DEF Good, PlacedIn
  <2>. QED  BY <2>1, <2>2, <2>3 DEF PlaceOf, IsFinished, ChildRetried, Revived
<1>9. PlacedIn(e, {})
  BY <1>7, <1>8 DEF PlacedIn
<1>. QED  BY <1>1, <1>2, <1>3, <1>4, <1>5, <1>9 DEF Good, Firm, ChildRetried

\* A job goes back to wait for the jobs of U, or for a worker.
Requeue(v, j, U) ==
    LET w == [v EXCEPT !.deps[j] = @ \cup U]
    IN SetState(w, {j}, IF w.deps[j] # {} THEN "waiting-children" ELSE "wait")

Requeued(v, x, j, U) ==
    /\ x \in Db /\ x.fanin = v.fanin /\ x.live = v.live /\ x.score = v.score
    /\ x.flows = v.flows
    /\ x.deps[j] = v.deps[j] \cup U /\ \A i \in Nodes \ {j} : x.deps[i] = v.deps[i]
    /\ x.state[j] \in {"wait", "waiting-children"}
    /\ \A i \in Nodes \ {j} : x.state[i] = v.state[i]

LEMMA RequeueFields ==
    ASSUME NEW v \in Db, NEW j \in Nodes, NEW U \in SUBSET Nodes, NEW x, x = Requeue(v, j, U)
    PROVE  Requeued(v, x, j, U)
<1> DEFINE dp == [v.deps EXCEPT ![j] = @ \cup U]
           w == [v EXCEPT !.deps = dp]
           q == IF w.deps[j] # {} THEN "waiting-children" ELSE "wait"
           st == [i \in Nodes |-> IF i \in {j} THEN q ELSE w.state[i]]
<1>1. w = [v EXCEPT !.deps[j] = @ \cup U]
  BY DEF Db
<1>2. dp \in [Nodes -> SUBSET Nodes] /\ dp[j] = v.deps[j] \cup U
      /\ \A i \in Nodes \ {j} : dp[i] = v.deps[i]
  BY DEF Db
<1>5. x = [w EXCEPT !.state = st]
  BY <1>1 DEF SetState, Requeue
<1>. HIDE DEF dp
<1>3. /\ w \in Db /\ w.deps = dp /\ w.state = v.state /\ w.fanin = v.fanin /\ w.live = v.live
      /\ w.score = v.score /\ w.flows = v.flows
  BY <1>2 DEF Db
<1>4. q \in {"wait", "waiting-children"}
  OBVIOUS
<1>. HIDE DEF q, w
<1>6. /\ st \in [Nodes -> States] /\ st[j] = q
      /\ \A i \in Nodes \ {j} : st[i] = v.state[i]
  BY <1>3, <1>4 DEF Db, States, Pending
<1>. HIDE DEF st
<1>7. /\ x \in Db /\ x.fanin = v.fanin /\ x.live = v.live /\ x.score = v.score
      /\ x.flows = v.flows /\ x.deps = dp /\ x.state = st
  BY <1>3, <1>5, <1>6 DEF Db
<1>. QED  BY <1>2, <1>4, <1>6, <1>7 DEF Requeued

\* RETRY_JOB.
LEMMA RetryTreeGood ==
    ASSUME NEW d, NEW A, NEW j \in Nodes, NEW t \in Clock, Good(d, A, {}),
           NEW e, e = RetryTree(d, j, t)
    PROVE  Good(e, A, {}) /\ (e = d \/ Revived(d, e, j))
<1>1. CASE d.state[j] # "failed"
  BY <1>1 DEF RetryTree
<1>2. CASE d.state[j] = "failed"
  <2> DEFINE cc == [d.cancel EXCEPT ![j] = FALSE]
             s0 == [d.score EXCEPT ![j] = 0]
             f == [d EXCEPT !.cancel = cc, !.score = s0]
             U == Unsettled(d, j)
  <2>1. d \in Db
    BY DEF Good, Firm
  <2>2. /\ cc \in [Nodes -> BOOLEAN] /\ s0 \in [Nodes -> Nat]
        /\ \A i \in Nodes : s0[i] = IF i = j THEN 0 ELSE d.score[i]
    BY <2>1 DEF Db
  <2>3. [d EXCEPT !.cancel[j] = FALSE, !.score[j] = 0] = f
    BY <2>1 DEF Db
  <2>. HIDE DEF cc, s0
  <2>4. /\ f \in Db /\ f.state = d.state /\ f.deps = d.deps /\ f.fanin = d.fanin /\ f.live = d.live
        /\ f.score = s0 /\ f.flows = d.flows
    BY <2>1, <2>2 DEF Db
  <2>5. U \in SUBSET Nodes
    BY DEF Unsettled, Kids
  <2>. HIDE DEF f, U
  <2>7. CASE Parent[j] = None
    <3> DEFINE B == {k \in Reach(f, j) : IsFinished(f, k)}
               sc == [k \in Nodes |-> IF k \in B THEN LIVE + t ELSE s0[k]]
               lv == [d.live EXCEPT ![j] = @ \cup B]
               v == [f EXCEPT !.score = sc, !.live = lv]
    <3>1. B \in SUBSET Nodes /\ \A i \in B : i \in Below(j) /\ IsFinished(d, i)
      BY <2>4 DEF Reach, Below, IsFinished
    <3>11. \A i \in Below(j) : IsFinished(d, i) /\ WholeIn(d, i) => i \in B
      BY <2>4 DEF Reach, Below, IsFinished, Exists, WholeIn
    <3>. HIDE DEF B
    <3>2. LIVE + t \in Nat
      BY FlowsAssumption DEF LIVE, Clock
    <3>3. /\ sc \in [Nodes -> Nat] /\ lv \in [Nodes -> SUBSET Nodes]
          /\ \A i \in Nodes : sc[i] = IF i \in B THEN LIVE + t ELSE s0[i]
          /\ lv[j] = d.live[j] \cup B /\ \A i \in Nodes \ {j} : lv[i] = d.live[i]
      BY <2>1, <2>2, <3>1, <3>2 DEF Db
    <3>4. ReviveSubtree(f, j, t) = v
      <4>1. [k \in Nodes |-> IF k \in B THEN LIVE + t ELSE f.score[k]] = sc
        BY <2>4
      <4>2. [f.live EXCEPT ![j] = @ \cup B] = lv
        BY <2>4
      <4>3. [f EXCEPT !.score = [k \in Nodes |-> IF k \in B THEN LIVE + t ELSE f.score[k]],
                      !.live[j] = @ \cup B] = [f EXCEPT !.score = sc, !.live = lv]
        BY <2>4, <4>1, <4>2 DEF Db
      <4>. QED  BY <4>3 DEF ReviveSubtree, B
    <3>. HIDE DEF sc, lv
    <3>5. /\ v \in Db /\ v.state = d.state /\ v.deps = d.deps /\ v.fanin = d.fanin /\ v.live = lv
          /\ v.score = sc /\ v.flows = d.flows
      BY <2>4, <3>3 DEF Db
    <3>6. e = Requeue(v, j, U)
      BY <1>2, <2>3, <2>7, <3>4 DEF RetryTree, Requeue, U, Unsettled
    <3>. HIDE DEF v
    <3>8. Requeued(v, e, j, U)
      BY <2>5, <3>5, <3>6, RequeueFields
    <3>9. Revived(d, e, j)
      BY <1>2, <3>5, <3>8 DEF Revived, Requeued
    <3>10. RootRetried(d, e, j, B, t)
      BY <2>2, <3>3, <3>5, <3>8, <3>9 DEF RootRetried, Requeued, U
    <3>. QED  BY <2>7, <3>1, <3>9, <3>10, <3>11, RootRetriedGood
  <2>8. CASE Parent[j] # None
    <3> DEFINE p == Parent[j]
               fi == [d.fanin EXCEPT ![p] = @ \ {<<j, "failed">>}]
               dq == [d.deps EXCEPT ![p] = IF Parked(d, p) THEN @ \cup {j} ELSE @]
               v == [f EXCEPT !.fanin = fi, !.deps = dq]
    <3>1. p \in Nodes /\ p # j
      BY <2>8, FlowsAssumption, NoCycle, AboveClosed
    <3>2. /\ fi \in [Nodes -> SUBSET (Nodes \X Finished)] /\ dq \in [Nodes -> SUBSET Nodes]
          /\ fi[p] = d.fanin[p] \ {<<j, "failed">>} /\ \A i \in Nodes \ {p} : fi[i] = d.fanin[i]
          /\ dq[p] = IF Parked(d, p) THEN d.deps[p] \cup {j} ELSE d.deps[p]
          /\ \A i \in Nodes \ {p} : dq[i] = d.deps[i]
      BY <2>1, <3>1 DEF Db
    <3>3. [f EXCEPT !.fanin[p] = @ \ {<<j, "failed">>},
                    !.deps[p] = IF Parked(d, p) THEN @ \cup {j} ELSE @] = v
      BY <2>4 DEF Db
    <3>. HIDE DEF v
    <3>4. e = Requeue(v, j, U)
      BY <1>2, <2>3, <2>8, <3>3 DEF RetryTree, Requeue, U, Unsettled
    <3>. HIDE DEF fi, dq
    <3>5. /\ v \in Db /\ v.state = d.state /\ v.deps = dq /\ v.fanin = fi /\ v.live = d.live
          /\ v.score = s0 /\ v.flows = d.flows
      BY <2>4, <3>2 DEF Db, v
    <3>8. Requeued(v, e, j, U)
      BY <2>5, <3>4, <3>5, RequeueFields
    <3>9. Revived(d, e, j)
      BY <1>2, <3>5, <3>8 DEF Revived, Requeued
    <3>10. ChildRetried(d, e, j, p)
      BY <2>2, <3>1, <3>2, <3>5, <3>8, <3>9 DEF ChildRetried, Requeued, U
    <3>. QED  BY <3>1, <3>9, <3>10, ChildRetriedGood
  <2>. QED  BY <2>7, <2>8
<1>. QED  BY <1>1, <1>2

\* The nodes of one flow.
LEMMA TreeOf ==
    ASSUME NEW r \in Roots, NEW i \in Nodes
    PROVE  i \in {r} \cup Below(r) <=> RootOf(i) = r
<1>1. i = r => RootOf(i) = r
  BY RootOfNode DEF Roots
<1>2. r \in Above[i] => RootOf(i) = r
  BY OneRoot DEF Roots
<1>3. RootOf(i) \in {i} \cup Above[i]
  BY RootOfNode
<1>. QED  BY <1>1, <1>2, <1>3 DEF Below, Roots

-----------------------------------------------------------------------------
(* The actions. *)

\* What every step keeps: the database, and what BarrierHolds says of the step.
Kept(e, A) == Good(e, A, {}) /\ Bars(db, e)

\* What was to run is to run, and no flow is counted.
StillPending(d, e) ==
    e.flows = d.flows /\ \A i \in Nodes : d.state[i] \in Pending => e.state[i] \in Pending

LEMMA AddFlowKeeps ==
    ASSUME NEW r \in Nodes, Good(db, added, {}), AddFlow(r)
    PROVE  Kept(db', added') /\ StillPending(db, db')
<1> DEFINE tree == {r} \cup Below(r)
           st == [j \in Nodes |-> IF j \notin tree THEN db.state[j]
                                  ELSE IF Kids(j) = {} THEN "wait" ELSE "waiting-children"]
           dp == [j \in Nodes |-> IF j \in tree THEN Kids(j) ELSE db.deps[j]]
           e == db'
<1>0. db \in Db
  BY DEF Good, Firm
<1>1. r \in Roots /\ r \notin added /\ added' = added \cup {r}
  BY DEF AddFlow
<1>2. e = [db EXCEPT !.state = st, !.deps = dp]
  BY DEF AddFlow
<1>3. \A i \in Nodes : i \in tree <=> RootOf(i) = r
  BY <1>1, TreeOf
<1>4. /\ st \in [Nodes -> States] /\ dp \in [Nodes -> SUBSET Nodes]
      /\ \A i \in Nodes : i \notin tree => st[i] = db.state[i] /\ dp[i] = db.deps[i]
      /\ \A i \in Nodes : i \in tree => st[i] \in {"wait", "waiting-children"} /\ dp[i] = Kids(i)
  BY <1>0 DEF Db, States, Pending, Kids
<1>. HIDE DEF tree, st, dp, e
<1>5. /\ e \in Db /\ e.state = st /\ e.deps = dp /\ e.fanin = db.fanin /\ e.live = db.live
      /\ e.score = db.score /\ e.flows = db.flows
  BY <1>0, <1>2, <1>4 DEF Db
<1>6. \A i \in Nodes : i \in tree => db.state[i] = None /\ db.fanin[i] = {}
  BY <1>1, <1>3 DEF Good, Firm, FreshIn
<1>7. \A p, c \in Nodes : Parent[c] = p => (c \in tree <=> p \in tree)
  BY <1>3, KidsBelow DEF Kids
<1>8. HonestIn(e)
  BY <1>4, <1>5, <1>6, <1>7 DEF Good, Firm, HonestIn
<1>9. BarrierIn(e, {})
  BY <1>4, <1>5, <1>7 DEF Good, Firm, BarrierIn, Parked, Kids
<1>10. IndexIn(e)
  BY <1>5 DEF Good, Firm, IndexIn
<1>11. FreshIn(e, added \cup {r})
  BY <1>3, <1>4, <1>5 DEF Good, Firm, FreshIn
<1>12. ReclaimableIn(e)
  <2> SUFFICES ASSUME NEW i \in Nodes, IsFinished(e, i), e.score[i] >= LIVE
               PROVE  RunningRoot(e, i) /\ i \in e.live[RootOf(i)]
    BY DEF ReclaimableIn
  <2>1. i \notin tree
    BY <1>4, <1>5 DEF IsFinished, Finished
  <2>2. RunningRoot(db, i) /\ i \in db.live[RootOf(i)]
    BY <1>4, <1>5, <2>1 DEF Good, Firm, ReclaimableIn, IsFinished
  <2>3. RootOf(i) \in Nodes /\ RootOf(i) \notin tree
    BY <1>3, <2>1, RootOfNode DEF Roots
  <2>. QED  BY <1>4, <1>5, <2>2, <2>3 DEF RunningRoot, Exists, IsFinished
<1>17. PlacedIn(e, {})
  <2>1. \A i \in Nodes : IsFinished(e, i) => i \notin tree /\ IsFinished(db, i)
    BY <1>4, <1>5 DEF IsFinished, Finished
  <2>2. ASSUME NEW i \in Nodes, Parent[i] # None, IsFinished(e, i), WholeIn(e, i)
        PROVE  PlaceOf(e, i)
    <3>1. \A a \in Above[i] : a \in Nodes /\ a \notin tree
      BY <1>3, <2>1, <2>2, SameRoot
    <3>2. WholeIn(db, i)
      BY <1>4, <1>5, <2>2, <3>1 DEF WholeIn, Exists
    <3>3. RootOf(i) \in Nodes /\ RootOf(i) \notin tree
      BY <2>2, <3>1, RootOfNode DEF Roots
    <3>4. PlaceOf(db, i)
      BY <2>1, <2>2, <3>2 DEF Good, PlacedIn
    <3>. QED  BY <1>4, <1>5, <3>3, <3>4 DEF PlaceOf, IsFinished
  <2>. QED  BY <1>5, <2>1, <2>2 DEF Good, PlacedIn
<1>13. Good(e, added \cup {r}, {})
  BY <1>5, <1>8, <1>9, <1>10, <1>11, <1>12, <1>17 DEF Good, Firm
<1>14. Bars(db, e)
  BY <1>4, <1>5, <1>6, NoneIsNoState DEF Bars, Parked, Pending
<1>15. \A i \in Nodes : db.state[i] \in Pending => e.state[i] \in Pending
  BY <1>4, <1>5, <1>6, NoneIsNoState
<1>16. Good(e, added', {})
  BY <1>1, <1>13
<1>. QED  BY <1>5, <1>14, <1>15, <1>16 DEF Kept, StillPending, e

\* A claim and its undoing: from one pending state to another, not the parked one.
LEMMA MovedKeeps ==
    ASSUME NEW d, NEW A, NEW j \in Nodes, NEW s \in {"wait", "active"}, Good(d, A, {}),
           d.state[j] \in {"wait", "active"}, NEW e, e = SetState(d, {j}, s)
    PROVE  Good(e, A, {}) /\ Bars(d, e) /\ StillPending(d, e)
<1> DEFINE st == [i \in Nodes |-> IF i \in {j} THEN s ELSE d.state[i]]
<1>0. d \in Db
  BY DEF Good, Firm
<1>1. /\ st \in [Nodes -> States] /\ st[j] = s /\ s \in Pending /\ d.state[j] \in Pending
      /\ \A i \in Nodes \ {j} : st[i] = d.state[i]
  BY <1>0 DEF Db, States, Pending
<1>2. e = [d EXCEPT !.state = st]
  BY DEF SetState
<1>. HIDE DEF st
<1>3. /\ e \in Db /\ e.state = st /\ e.deps = d.deps /\ e.fanin = d.fanin /\ e.live = d.live
      /\ e.score = d.score /\ e.flows = d.flows
  BY <1>0, <1>1, <1>2 DEF Db
<1>4. HonestIn(e) /\ FreshIn(e, A)
  <2>1. HonestIn(e)
    <3> SUFFICES ASSUME NEW p \in Nodes, NEW c \in Nodes, NEW o \in Finished, <<c, o>> \in e.fanin[p]
                 PROVE  Parent[c] = p /\ e.state[c] \in {o, None}
      BY DEF HonestIn
    <3>1. Parent[c] = p /\ d.state[c] \in {o, None}
      BY <1>3 DEF Good, Firm, HonestIn
    <3>2. c # j
      BY <1>1, <3>1, NoneIsNoState DEF Finished, Pending
    <3>. QED  BY <1>1, <1>3, <3>1, <3>2
  <2>2. FreshIn(e, A)
    BY <1>1, <1>3, NoneIsNoState DEF Good, Firm, FreshIn
  <2>. QED  BY <2>1, <2>2
<1>5. IndexIn(e)
  BY <1>3 DEF Good, Firm, IndexIn
<1>6. BarrierIn(e, {})
  BY <1>1, <1>3 DEF Good, Firm, BarrierIn, Parked
<1>7. ReclaimableIn(e)
  <2> SUFFICES ASSUME NEW i \in Nodes, IsFinished(e, i), e.score[i] >= LIVE
               PROVE  RunningRoot(e, i) /\ i \in e.live[RootOf(i)]
    BY DEF ReclaimableIn
  <2>1. i # j /\ IsFinished(d, i)
    BY <1>1, <1>3 DEF IsFinished, Finished
  <2>2. RunningRoot(d, i) /\ i \in d.live[RootOf(i)] /\ RootOf(i) \in Nodes
    BY <1>3, <2>1, RootOfNode DEF Good, Firm, ReclaimableIn, Roots
  <2>. QED  BY <1>1, <1>3, <2>2, NoneIsNoState DEF RunningRoot, Exists, IsFinished, Finished, Pending
<1>8. Bars(d, e)
  BY <1>1, <1>3 DEF Bars, Parked
<1>9. \A i \in Nodes : d.state[i] \in Pending => e.state[i] \in Pending
  BY <1>1, <1>3
<1>10. PlacedIn(e, {})
  <2>1. \A i \in Nodes : /\ ((e.state[i] \in Finished) <=> (d.state[i] \in Finished))
                        /\ (e.state[i] # None => d.state[i] # None)
    BY <1>1, <1>3, NoneIsNoState DEF Finished, Pending
  <2>2. PlacedIn(d, {}) /\ SamePlaces(d, e)
    BY <1>3, <2>1 DEF Good, SamePlaces, IsFinished, Exists
  <2>. QED  BY <2>2, PlacesKept
<1>. QED  BY <1>3, <1>4, <1>5, <1>6, <1>7, <1>8, <1>9, <1>10 DEF Good, Firm, StillPending

\* The end of j in s, up to the trim.
Ending(d, j, s) == Good(d, added, {}) /\ Finishes(db, d, j, s) /\ Trimmed(d, j, s)

LEMMA MoveToCompletedEnds ==
    ASSUME NEW j \in Nodes, Good(db, added, {}), now \in Clock, MoveToCompleted(j)
    PROVE  \E d : Ending(d, j, "completed")
<1> DEFINE r == RecordFinished(db, {j}, "completed", now)
           c == IF Kids(j) # {} /\ Parent[j] = None THEN Bumped(r, "completed") ELSE r
           e == SettleChildCompleted(c, j)
<1>1. db.state[j] = "active" /\ Trimmed(e, j, "completed")
  BY DEF MoveToCompleted, Bumped
<1>2. "completed" \in Finished /\ {j} \in SUBSET Nodes /\ db.state[j] \in Pending
  BY <1>1 DEF Finished, Pending
<1>3. AllPending(db, {j}) /\ Apart({j})
  BY <1>2 DEF AllPending, Apart
<1>4. r = RecordFinished(db, {j}, "completed", now)
  OBVIOUS
<1>. HIDE DEF r
<1>5. Good(r, added, {} \ {j}) /\ Ended(db, r, {j}, "completed")
  BY <1>2, <1>3, <1>4, RecordFinishedGood
<1>6. Good(r, added, {})
  <2>1. {} \ {j} = {}
    OBVIOUS
  <2>. QED  BY <1>5, <2>1
<1>7. /\ Good(c, added, {}) /\ c.state = r.state
      /\ Counts(db.flows, c.flows, FlowsIn({j}), "completed")
  <2>1. CASE Kids(j) # {} /\ Parent[j] = None
    <3>1. c = Bumped(r, "completed")
      BY <2>1
    <3>2. /\ Good(c, added, {}) /\ c.state = r.state
          /\ c.flows = [r.flows EXCEPT !["completed"] = @ + 1]
      BY <1>6, <3>1, CountedGood
    <3>3. j \in FlowsIn({j}) /\ r.flows = db.flows
      BY <1>5, <2>1 DEF FlowsIn, Ended
    <3>. HIDE DEF c
    <3>. QED  BY <3>2, <3>3 DEF Counts
  <2>2. CASE ~(Kids(j) # {} /\ Parent[j] = None)
    <3>1. c = r /\ FlowsIn({j}) = {} /\ r.flows = db.flows
      BY <1>5, <2>2 DEF FlowsIn, Ended
    <3>. QED  BY <1>6, <3>1 DEF Counts
  <2>. QED  BY <2>1, <2>2
<1>. HIDE DEF c
<1>8. c.state[j] \in {"completed", None}
  BY <1>5, <1>7 DEF Ended
<1>9. e = SettleChildCompleted(c, j)
  OBVIOUS
<1>. HIDE DEF e
<1>10. /\ Good(e, added, {}) /\ Calm(c, e) /\ e.flows = c.flows
       /\ \A i \in Nodes : c.state[i] \in Pending <=> e.state[i] \in Pending
       /\ \A i \in Nodes : c.state[i] \notin Pending => e.state[i] = c.state[i]
       /\ Inside(c, e, RootOf(j))
  BY <1>7, <1>8, <1>9, SettleChildCompletedGood
<1>11. Ends(db, r, {j}, "completed")
  BY <1>2, <1>3, <1>5, EndedEnds
<1>12. Lull(db, c)
  BY <1>2, <1>5, <1>7, EndedIsLull DEF Lull
<1>13. Calm(db, e)
  BY <1>10, <1>12, LullThenCalm
<1>14. \A i \in Nodes \ {j} : /\ db.state[i] \in Pending <=> e.state[i] \in Pending
                              /\ db.state[i] \notin Pending =>
                                     e.state[i] = db.state[i] \/ e.state[i] = None
  BY <1>7, <1>10, <1>11, NoneIsNoState DEF Ends
<1>15. \A i \in {j} : /\ db.state[i] \in Pending /\ e.state[i] \in {"completed", None}
                      /\ Parent[i] = None /\ Keep[i] # "none" => e.state[i] = "completed"
  BY <1>7, <1>8, <1>10, <1>11, NoneIsNoState DEF Ends, Pending
<1>16. Ends(db, e, {j}, "completed")
  BY <1>13, <1>14, <1>15 DEF Ends
<1>18. Inside(db, e, RootOf(j))
  <2>1. Inside(db, r, RootOf(j))
    BY <1>2, <1>5, EndedInside
  <2>. QED  BY <1>7, <1>10, <2>1 DEF Inside
<1>17. Finishes(db, e, j, "completed")
  BY <1>7, <1>10, <1>16, <1>18 DEF Finishes
<1>. QED  BY <1>1, <1>10, <1>17 DEF Ending, e

LEMMA EndWithoutEnds ==
    ASSUME NEW j \in Nodes, NEW s \in Undelivered, Good(db, added, {}), now \in Clock,
           db.state[j] = "active", Trimmed(EndWithout(db, j, s, now), j, s)
    PROVE  \E d : Ending(d, j, s)
<1> DEFINE e == EndWithout(db, j, s, now)
<1>1. db.state[j] \in Pending
  BY DEF Pending
<1>2. Good(e, added, {}) /\ Finishes(db, e, j, s)
  BY <1>1, EndWithoutGood
<1>3. Trimmed(e, j, s)
  OBVIOUS
<1>. HIDE DEF e
<1>. QED  BY <1>2, <1>3 DEF Ending

\* Every finish ends its job in one of the three ways.
LEMMA FinishEnds ==
    ASSUME NEW j \in Nodes, Good(db, added, {}), now \in Clock, Finish(j)
    PROVE  \E s \in Finished : \E d : Ending(d, j, s)
<1>1. CASE MoveToCompleted(j)
  BY <1>1, MoveToCompletedEnds DEF Finished
<1>2. CASE MoveToFailed(j) \/ FailStalled(j)
  BY <1>2, EndWithoutEnds DEF MoveToFailed, FailStalled, Finished, Undelivered
<1>3. CASE MoveToCancelled(j)
  BY <1>3, EndWithoutEnds DEF MoveToCancelled, Finished, Undelivered
<1>. QED  BY <1>1, <1>2, <1>3 DEF Finish, Commit

LEMMA FinishKeeps ==
    ASSUME NEW j \in Nodes, Good(db, added, {}), now \in Clock, Finish(j)
    PROVE  Kept(db', added)
<1>1. PICK s \in Finished : \E d : Ending(d, j, s)
  BY FinishEnds
<1>2. PICK d : Ending(d, j, s)
  BY <1>1
<1>3. Good(d, added, {}) /\ Trimmed(d, j, s) /\ Calm(db, d)
  BY <1>2 DEF Ending, Finishes, Ends
<1>4. Good(db', added, {}) /\ Thins(d, db')
  BY <1>3, TrimmedGood
<1>5. Calm(db, db')
  BY <1>3, <1>4, ThinsIsLull, CalmThenLull
<1>. QED  BY <1>4, <1>5, CalmBars DEF Kept
LEMMA CancelJobKeeps ==
    ASSUME NEW j \in Nodes, Good(db, added, {}), now \in Clock, CancelJob(j)
    PROVE  Kept(db', added) /\ Uncounted(db, db')
<1> DEFINE top == CancelEach(db, {j}, now)
           E1 == {i \in {j} : db.state[i] \in Pending \ {"active"}}
<1>1. PICK V \in IF top.state[j] = "cancelled" /\ db.state[j] \in Pending
                 THEN Trims(top, j, "cancelled") ELSE {{}} :
        LET trimmed == RemoveFinished(top, V)
            all == CancelEach(trimmed, {k \in Reach(trimmed, j) : Exists(trimmed, k)}, now)
        IN IF Parent[j] # None /\ db.state[j] \in Pending \ {"active"}
           THEN Trimmed(SettleChildGone(all, j, "cancelled", now), j, "cancelled")
           ELSE db' = all
  BY DEF CancelJob
<1> DEFINE trimmed == RemoveFinished(top, V)
           J == {k \in Reach(trimmed, j) : Exists(trimmed, k)}
           E2 == {i \in J : trimmed.state[i] \in Pending \ {"active"}}
           all == CancelEach(trimmed, J, now)
           last == SettleChildGone(all, j, "cancelled", now)
<1>2. IF Parent[j] # None /\ db.state[j] \in Pending \ {"active"}
      THEN Trimmed(last, j, "cancelled") ELSE db' = all
  BY <1>1
<1>3. "cancelled" \in Finished /\ "cancelled" \in Undelivered /\ {j} \in SUBSET Nodes
  BY DEF Finished, Undelivered
<1>4. Apart({j})
  BY DEF Apart
<1>5. J \in SUBSET Nodes /\ \A k \in J : Parent[k] # None /\ k # j
  BY RootsTop, NoCycle DEF Reach, Below
<1>6. Apart(J)
  BY <1>5 DEF Apart
<1>7. j \notin E2
  BY <1>5
<1>8. top = CancelEach(db, {j}, now) /\ trimmed = RemoveFinished(top, V)
      /\ all = CancelEach(trimmed, J, now) /\ last = SettleChildGone(all, j, "cancelled", now)
  OBVIOUS
<1>. HIDE DEF top, trimmed, J, all, last
<1>9. Good(top, added, {}) /\ Ended(db, top, E1, "cancelled")
  BY <1>3, <1>4, <1>8, CancelEachGood
<1>10. V \in SUBSET Nodes /\ \A v \in V : IsFinished(top, v)
  BY <1>1, <1>3, TrimsSettled
<1>11. Good(trimmed, added, {}) /\ Thins(top, trimmed)
  BY <1>8, <1>9, <1>10, TrimGood
<1>12. Good(all, added, {}) /\ Ended(trimmed, all, E2, "cancelled")
  BY <1>5, <1>6, <1>8, <1>11, CancelEachGood
<1>13. Lull(db, all)
  <2>1. Lull(db, top) /\ Lull(top, trimmed) /\ Lull(trimmed, all)
    BY <1>3, <1>9, <1>11, <1>12, EndedIsLull, ThinsIsLull
  <2>. QED  BY <2>1 DEF Lull
<1>14. Uncounted(db, all)
  BY <1>9, <1>11, <1>12, EndedUncounted, ThinsUncounted, UncountedTransitive
<1>15. CASE Parent[j] # None /\ db.state[j] \in Pending \ {"active"}
  <2>1. top.state[j] \in {"cancelled", None}
    BY <1>9, <1>15 DEF Ended
  <2>2. trimmed.state[j] \in {"cancelled", None}
    BY <1>11, <2>1 DEF Thins
  <2>3. all.state[j] \in {"cancelled", None}
    BY <1>7, <1>12, <2>2 DEF Ended
  <2> DEFINE F == Felled(all, j)
  <2>4. Good(last, added, {}) /\ Fells(all, last, j, F, "cancelled")
    BY <1>3, <1>8, <1>12, <2>3, SettleChildGoneGood
  <2>. HIDE DEF F
  <2>5. Calm(db, last)
    BY <1>13, <2>4, LullThenCalm DEF Fells, Ends
  <2>6. Uncounted(all, last)
    BY <2>4 DEF Fells, Ends, Counts, Uncounted, Unended
  <2>7. Trimmed(last, j, "cancelled")
    BY <1>2, <1>15
  <2>8. Good(db', added, {}) /\ Thins(last, db')
    BY <1>3, <2>4, <2>7, TrimmedGood
  <2>9. Calm(db, db')
    BY <2>5, <2>8, ThinsIsLull, CalmThenLull
  <2>10. Uncounted(db, db')
    BY <1>14, <2>6, <2>8, ThinsUncounted, UncountedTransitive
  <2>. QED  BY <2>8, <2>9, <2>10, CalmBars DEF Kept
<1>16. CASE ~(Parent[j] # None /\ db.state[j] \in Pending \ {"active"})
  <2>1. db' = all
    BY <1>2, <1>16
  <2>2. Calm(db, all)
    BY <1>13 DEF Lull, Calm
  <2>. QED  BY <1>12, <1>14, <2>1, <2>2, CalmBars DEF Kept
<1>. QED  BY <1>15, <1>16

\* A retry makes a failed job wait again: no parked parent is let run by it.
LEMMA RetryKeeps ==
    ASSUME NEW A, NEW j \in Nodes, NEW e, Good(db, A, {}), now \in Clock, e = RetryTree(db, j, now)
    PROVE  Kept(e, A) /\ Uncounted(db, e)
<1>1. Good(e, A, {}) /\ (e = db \/ Revived(db, e, j))
  BY RetryTreeGood
<1>2. CASE e = db
  BY <1>1, <1>2 DEF Kept, Bars, Parked, Uncounted
<1>3. CASE Revived(db, e, j)
  <2>1. Bars(db, e)
    BY <1>3 DEF Revived, Bars, Parked
  <2>2. Uncounted(db, e)
    BY <1>3 DEF Revived, Uncounted, Unended, Pending
  <2>. QED  BY <1>1, <2>1, <2>2 DEF Kept
<1>. QED  BY <1>1, <1>2, <1>3

Steps == {"retry", "remove"} \X Nodes

LEMMA SendKeeps ==
    ASSUME Good(db, added, {}), now \in Clock, todo \in Seq(Steps), Send
    PROVE  Kept(db', added) /\ Uncounted(db, db') /\ todo' \in Seq(Steps)
<1> DEFINE h == Head(todo)
<1>1. h \in Steps /\ Tail(todo) \in Seq(Steps)
  BY DEF Send
<1>2. db' = IF h[1] = "retry" THEN RetryTree(db, h[2], now)
            ELSE IF Exists(db, h[2]) THEN RemoveTree(db, h[2]) ELSE db
  BY DEF Send
<1>. HIDE DEF h
<1>3. h[2] \in Nodes
  BY <1>1 DEF Steps
<1>7. Kept(db', added) /\ Uncounted(db, db')
  <2>1. CASE h[1] = "retry"
    BY <1>2, <1>3, <2>1, RetryKeeps
  <2>2. CASE h[1] # "retry" /\ Exists(db, h[2])
    BY <1>2, <1>3, <2>2, RemoveTreeGood, CalmBars DEF Kept
  <2>3. CASE h[1] # "retry" /\ ~Exists(db, h[2])
    BY <1>2, <2>3 DEF Kept, Bars, Parked, Uncounted
  <2>. QED  BY <2>1, <2>2, <2>3
<1>. QED  BY <1>1, <1>7 DEF Send

\* A listed set of jobs becomes a sequence of scripts.
LEMMA PlanTypes ==
    ASSUME NEW S \in SUBSET Nodes, NEW rank, NEW q \in Orders(S, rank),
           NEW kind \in {"retry", "remove"}, Plan(kind, q)
    PROVE  todo' \in Seq(Steps)
<1>1. IsFiniteSet(S)
  BY FlowsAssumption, FS_Subset
<1>2. Cardinality(S) \in Nat
  BY <1>1, FS_CardinalityType
<1> DEFINE n == Cardinality(S)
<1>3. q \in [1..n -> S]
  BY DEF Orders
<1>. HIDE DEF n
<1>4. n \in Nat
  BY <1>2 DEF n
<1>5. todo' = [i \in 1..n |-> <<kind, q[i]>>]
  BY <1>3 DEF Plan
<1>6. \A i \in 1..n : <<kind, q[i]>> \in Steps
  BY <1>3 DEF Steps
<1>7. todo' \in [1..n -> Steps]
  BY <1>5, <1>6
<1>. QED  BY <1>4, <1>7

-----------------------------------------------------------------------------
(* The theorems. *)

FlowInv == TypeOK /\ Good(db, added, {})

LEMMA InitFlowInv == Init => FlowInv
<1> SUFFICES ASSUME Init  PROVE FlowInv
  OBVIOUS
<1>1. db = EmptyDb /\ added = {} /\ todo = <<>> /\ ops = 0 /\ now = 0
  BY DEF Init
<1>2. EmptyDb \in Db
  BY DEF EmptyDb, Db, States
<1>3. \A i \in Nodes : EmptyDb.state[i] = None /\ EmptyDb.fanin[i] = {} /\ EmptyDb.live[i] = {}
  BY DEF EmptyDb
<1>4. Good(EmptyDb, {}, {})
  BY <1>2, <1>3, NoneIsNoState
     DEF Good, Firm, HonestIn, ReclaimableIn, BarrierIn, IndexIn, FreshIn, PlacedIn, IsFinished,
         Parked, Pending
<1>5. todo \in Seq({"retry", "remove"} \X Nodes) /\ ops \in 0..MaxOps /\ now \in 0..MaxNow
  BY <1>1, FlowsAssumption
<1>. QED  BY <1>1, <1>2, <1>4, <1>5 DEF FlowInv, TypeOK

LEMMA UnchangedKeeps ==
    ASSUME Good(db, added, {}), UNCHANGED <<db, added>>
    PROVE  Kept(db', added')
BY DEF Kept, Bars, Parked

\* Whatever the step, the database is kept good and no barrier is broken.
LEMMA StepKeeps ==
    ASSUME FlowInv, Next
    PROVE  TypeOK' /\ Kept(db', added') /\ now' \in now..MaxNow
<1>0. /\ Good(db, added, {}) /\ now \in Clock /\ todo \in Seq(Steps) /\ ops \in 0..MaxOps
      /\ added \subseteq Roots /\ now \in Nat /\ now \in now..MaxNow
  BY FlowsAssumption DEF FlowInv, TypeOK, Clock, Steps
<1>1. SUFFICES /\ Kept(db', added') /\ added' \subseteq Roots /\ todo' \in Seq(Steps)
               /\ ops' \in 0..MaxOps /\ now' \in now..MaxNow
  BY <1>0, FlowsAssumption DEF TypeOK, Kept, Good, Firm, Steps
<1>2. \A op : Operate(op) => ops' \in 0..MaxOps
  BY <1>0, FlowsAssumption DEF Operate
<1>3. ASSUME NEW j \in Nodes, AddFlow(j)
      PROVE  /\ Kept(db', added') /\ added' \subseteq Roots /\ todo' \in Seq(Steps)
             /\ ops' \in 0..MaxOps /\ now' \in now..MaxNow
  BY <1>0, <1>3, AddFlowKeeps DEF AddFlow
<1>4. ASSUME NEW j \in Nodes, Claim(j) \/ PutBack(j)
      PROVE  /\ Kept(db', added') /\ added' \subseteq Roots /\ todo' \in Seq(Steps)
             /\ ops' \in 0..MaxOps /\ now' \in now..MaxNow
  <2>1. UNCHANGED <<added, todo, ops, now>>
    BY <1>4 DEF Claim, PutBack
  <2>2. Kept(db', added)
    BY <1>0, <1>4, MovedKeeps DEF Claim, PutBack, Kept
  <2>. QED  BY <1>0, <2>1, <2>2
<1>5. ASSUME NEW j \in Nodes, Finish(j)
      PROVE  /\ Kept(db', added') /\ added' \subseteq Roots /\ todo' \in Seq(Steps)
             /\ ops' \in 0..MaxOps /\ now' \in now..MaxNow
  <2>1. UNCHANGED <<added, todo, ops, now>>
    BY <1>5 DEF Finish, Commit, MoveToCompleted, MoveToFailed, MoveToCancelled, FailStalled
  <2>2. Kept(db', added)
    BY <1>0, <1>5, FinishKeeps
  <2>. QED  BY <1>0, <2>1, <2>2
<1>6. ASSUME NEW j \in Nodes, CancelJob(j)
      PROVE  /\ Kept(db', added') /\ added' \subseteq Roots /\ todo' \in Seq(Steps)
             /\ ops' \in 0..MaxOps /\ now' \in now..MaxNow
  <2>1. UNCHANGED <<added, todo, now>> /\ ops' \in 0..MaxOps
    BY <1>2, <1>6 DEF CancelJob
  <2>2. Kept(db', added)
    BY <1>0, <1>6, CancelJobKeeps
  <2>. QED  BY <1>0, <2>1, <2>2
<1>7. ASSUME NEW j \in Nodes, RemoveJob(j)
      PROVE  /\ Kept(db', added') /\ added' \subseteq Roots /\ todo' \in Seq(Steps)
             /\ ops' \in 0..MaxOps /\ now' \in now..MaxNow
  <2>1. UNCHANGED <<added, todo, now>> /\ ops' \in 0..MaxOps /\ db' = RemoveTree(db, j)
    BY <1>2, <1>7 DEF RemoveJob
  <2>2. Kept(db', added)
    BY <1>0, <2>1, RemoveTreeGood, CalmBars DEF Kept
  <2>. QED  BY <1>0, <2>1, <2>2
<1>8. ASSUME NEW j \in Nodes, RetryJob(j)
      PROVE  /\ Kept(db', added') /\ added' \subseteq Roots /\ todo' \in Seq(Steps)
             /\ ops' \in 0..MaxOps /\ now' \in now..MaxNow
  <2>1. UNCHANGED <<db, added, now>> /\ ops' \in 0..MaxOps
    BY <1>2, <1>8 DEF RetryJob
  <2> DEFINE S == {j} \cup Reach(db, j)
  <2>5. PICK rank : \E q \in Orders(S, rank) : Plan("retry", q)
    BY <1>8 DEF RetryJob
  <2>2. PICK q \in Orders(S, rank) : Plan("retry", q)
    BY <2>5
  <2>3. S \in SUBSET Nodes
    BY DEF Reach, Below
  <2>. HIDE DEF S
  <2>4. todo' \in Seq(Steps)
    BY <2>2, <2>3, PlanTypes
  <2>. QED  BY <1>0, <2>1, <2>4, UnchangedKeeps
<1>9. ASSUME RetryAllFailed
      PROVE  /\ Kept(db', added') /\ added' \subseteq Roots /\ todo' \in Seq(Steps)
             /\ ops' \in 0..MaxOps /\ now' \in now..MaxNow
  <2>1. UNCHANGED <<db, added, now>> /\ ops' \in 0..MaxOps
    BY <1>2, <1>9 DEF RetryAllFailed
  <2> DEFINE S == {j \in Nodes : db.state[j] = "failed"}
  <2>5. PICK rank : \E q \in Orders(S, rank) : Plan("retry", q)
    BY <1>9 DEF RetryAllFailed
  <2>2. PICK q \in Orders(S, rank) : Plan("retry", q)
    BY <2>5
  <2>3. S \in SUBSET Nodes
    OBVIOUS
  <2>. HIDE DEF S
  <2>4. todo' \in Seq(Steps)
    BY <2>2, <2>3, PlanTypes
  <2>. QED  BY <1>0, <2>1, <2>4, UnchangedKeeps
<1>10. ASSUME NEW s \in States, Clean(s)
       PROVE  /\ Kept(db', added') /\ added' \subseteq Roots /\ todo' \in Seq(Steps)
              /\ ops' \in 0..MaxOps /\ now' \in now..MaxNow
  <2>1. UNCHANGED <<db, added, now>> /\ ops' \in 0..MaxOps
    BY <1>2, <1>10 DEF Clean
  <2> DEFINE S == IF s \in Finished THEN Settled(db, s) ELSE {j \in Nodes : db.state[j] = s}
  <2>5. PICK rank : \E q \in Orders(S, rank) : Plan("remove", q)
    BY <1>10 DEF Clean
  <2>2. PICK q \in Orders(S, rank) : Plan("remove", q)
    BY <2>5
  <2>3. S \in SUBSET Nodes
    BY DEF Settled
  <2>. HIDE DEF S
  <2>4. todo' \in Seq(Steps)
    BY <2>2, <2>3, PlanTypes
  <2>. QED  BY <1>0, <2>1, <2>4, UnchangedKeeps
<1>11. CASE Send
  <2>1. UNCHANGED <<added, ops, now>>
    BY <1>11 DEF Send
  <2>2. Kept(db', added) /\ todo' \in Seq(Steps)
    BY <1>0, <1>11, SendKeeps
  <2>. QED  BY <1>0, <2>1, <2>2
<1>12. CASE Cut
  <2>1. UNCHANGED <<db, added, ops, now>> /\ todo' = <<>>
    BY <1>12 DEF Cut
  <2>. QED  BY <1>0, <2>1, UnchangedKeeps
<1>13. CASE Tick
  <2>1. UNCHANGED <<db, added, todo, ops>> /\ now' \in now..MaxNow
    BY <1>0, <1>13, FlowsAssumption DEF Tick, Clock
  <2>. QED  BY <1>0, <2>1, UnchangedKeeps
<1>. QED  BY <1>3, <1>4, <1>5, <1>6, <1>7, <1>8, <1>9, <1>10, <1>11, <1>12, <1>13 DEF Next

\* Places outlast the clock, and what no step touches.
LEMMA PlacedLater ==
    ASSUME TypeOK', now \in Nat, Good(db', added', {}), now <= now'
    PROVE  Good(db, added, {})'
<1> DEFINE e == db'
           m == now'
<1>1. e \in Db /\ m \in Nat
  BY FlowsAssumption DEF TypeOK
<1>2. PlacedIn(e, {})
  BY DEF Good
<1>3. \A r \in Nodes : Parent[r] = None /\ IsFinished(e, r) => e.score[r] <= m
  <2>1. now <= m
    OBVIOUS
  <2>2. \A r \in Nodes : e.score[r] \in Nat
    BY <1>1 DEF Db
  <2>. HIDE DEF e, m
  <2>. QED  BY <1>1, <1>2, <2>1, <2>2 DEF PlacedIn
<1>4. Firm(e, added', {})
  BY DEF Good
<1>. QED  BY <1>2, <1>3, <1>4 DEF Good, PlacedIn

LEMMA FlowInvariant == Spec => []FlowInv
<1>1. FlowInv /\ [Next]_vars => FlowInv'
  <2> SUFFICES ASSUME FlowInv, [Next]_vars  PROVE FlowInv'
    OBVIOUS
  <2>1. CASE Next
    <3>1. TypeOK' /\ Kept(db', added') /\ now' \in now..MaxNow /\ now \in Nat
      BY <2>1, StepKeeps, FlowsAssumption DEF FlowInv, TypeOK
    <3>2. now <= now' /\ Good(db', added', {})
      BY <3>1, FlowsAssumption DEF Kept
    <3>. QED  BY <3>1, <3>2, PlacedLater DEF FlowInv
  <2>2. CASE UNCHANGED vars
    <3>1. TypeOK' /\ now \in Nat /\ now <= now' /\ Good(db', added', {})
      BY <2>2, FlowsAssumption DEF FlowInv, TypeOK, vars
    <3>. QED  BY <3>1, PlacedLater DEF FlowInv
  <2>. QED  BY <2>1, <2>2
<1>. QED  BY <1>1, InitFlowInv, PTL DEF Spec

\* Whatever is added, run, retried, cancelled, removed or trimmed, the variables
\* stay in their ranges.
THEOREM FlowTypes == Spec => []TypeOK
<1>1. FlowInv => TypeOK
  BY DEF FlowInv
<1>. QED  BY <1>1, FlowInvariant, PTL

\* In every flow, a parent's fan-in says of each child how it ended.
THEOREM FanInIsHonest == Spec => []FanInHonest
<1>1. FlowInv => FanInHonest
  BY DEF FlowInv, Good, Firm, HonestIn, FanInHonest, Db
<1>. QED  BY <1>1, FlowInvariant, PTL

\* In every flow, a finished job above every bound is listed by its running root.
THEOREM NothingOutOfReach == Spec => []Reclaimable
<1>1. FlowInv => Reclaimable
  BY DEF FlowInv, Good, Firm, ReclaimableIn, Reclaimable
<1>. QED  BY <1>1, FlowInvariant, PTL

\* In every flow, a parked parent is let run only when no child may still run.
THEOREM ParentsWait == Spec => BarrierHolds
<1> DEFINE B == \A p \in Nodes :
                  Parked(db, p) /\ db'.state[p] = "wait"
                     => \A c \in Kids(p) : db'.state[c] \notin Pending
<1>1. FlowInv /\ [Next]_vars => [B]_vars
  <2> SUFFICES ASSUME FlowInv, Next  PROVE B
    BY DEF vars
  <2>. QED  BY StepKeeps DEF Kept, Bars, Kids
<1>. QED  BY <1>1, FlowInvariant, PTL DEF Spec, BarrierHolds

-----------------------------------------------------------------------------
(* What a trim takes of the flows of others. *)

\* V has the oldest of what has settled in s.
OldestOf(d, V, s) ==
    /\ V \in SUBSET Settled(d, s)
    /\ \A v \in V, w \in Settled(d, s) : d.score[w] < d.score[v] => w \in V

\* Job i goes with its settled root, or with a job of another set than the root's.
GoesWith(d, e, i) ==
    /\ IsFinished(d, RootOf(i))
    /\ \E m \in {i} \cup Above[i] :
          e.state[m] = None /\ (m = RootOf(i) \/ d.state[m] # d.state[RootOf(i)])

\* What a trim takes goes with a job that has settled and, where it lies in the
\* set of its root, with the root, which is older.
LEMMA TrimGoesWith ==
    ASSUME NEW d, NEW A, Good(d, A, {}), NEW s \in Finished, NEW V, OldestOf(d, V, s),
           NEW e, e = RemoveFinished(d, V),
           NEW i \in Nodes, Parent[i] # None, IsFinished(d, i), WholeIn(d, i), e.state[i] = None
    PROVE  GoesWith(d, e, i)
<1> DEFINE J == UNION {Subtree(d, v) : v \in V}
           K == J \cup UNION {Indexed(d, x) : x \in J}
           r == RootOf(i)
<1>1. d \in Db /\ IndexIn(d) /\ PlacedIn(d, {})
  BY DEF Good, Firm
<1>2. J \in SUBSET Nodes /\ V \in SUBSET Nodes
  BY DEF Subtree, Below, OldestOf, Settled
<1>3. Deleted(d, e, K)
  BY <1>1, <1>2, DelJobsDeletes DEF RemoveFinished
<1>4. \A v \in V : v \in J /\ IsFinished(d, v) /\ d.state[v] = s /\ d.score[v] < LIVE
  BY DEF Subtree, OldestOf, Settled, IsFinished
<1>5. i \in K
  BY <1>3, NoneIsNoState DEF Deleted, Same, IsFinished
<1>6. \A v \in V : e.state[v] = None
  BY <1>3, <1>4 DEF Deleted
<1>7. r \in Nodes /\ r \in Above[i] /\ Parent[r] = None
  BY RootOfNode DEF Roots
<1>8. r \in V => GoesWith(d, e, i)
  BY <1>4, <1>6, <1>7 DEF GoesWith
<1>9. CASE \E v \in V : i \in Subtree(d, v)
  <2>1. PICK v \in V : i \in Subtree(d, v)
    BY <1>9
  <2>2. v \in {i} \cup Above[i] /\ v \in Nodes
    BY <1>2, <2>1 DEF Subtree, Below
  <2>3. CASE Parent[v] = None
    <3>1. v = r
      BY <2>2, <2>3, OneRoot
    <3>. QED  BY <1>8, <3>1
  <2>4. CASE Parent[v] # None
    <3>1. RootOf(v) = r /\ WholeIn(d, v)
      BY <2>2, SameRoot, AboveTransitive DEF WholeIn
    <3>2. PlaceOf(d, v)
      BY <1>1, <1>4, <2>2, <2>4, <3>1 DEF PlacedIn
    <3>3. /\ d.score[v] \in Nat /\ d.score[r] \in Nat /\ LIVE \in Nat
          /\ d.score[v] < LIVE
      BY <1>1, <1>4, <1>7, <2>2, FlowsAssumption DEF Db, LIVE
    <3>4. IsFinished(d, r) /\ d.score[r] < d.score[v]
      BY <3>1, <3>2, <3>3 DEF PlaceOf
    <3>5. CASE d.state[r] = s
      <4>1. r \in Settled(d, s)
        BY <1>7, <3>3, <3>4, <3>5 DEF Settled
      <4>. QED  BY <1>8, <3>4, <4>1 DEF OldestOf
    <3>6. CASE d.state[r] # s
      BY <1>4, <1>6, <2>2, <3>4, <3>6 DEF GoesWith
    <3>. QED  BY <3>5, <3>6
  <2>. QED  BY <2>3, <2>4
<1>10. CASE \E x \in J : i \in Indexed(d, x)
  <2>1. PICK x \in J : i \in Indexed(d, x)
    BY <1>10
  <2>2. x = r
    BY <1>1, <1>2, <2>1 DEF IndexIn, Indexed
  <2>3. PICK v \in V : x \in Subtree(d, v)
    BY <2>1
  <2>4. Above[x] = {}
    BY <1>7, <2>2, RootsTop
  <2>5. x = v
    BY <2>3, <2>4 DEF Subtree, Below
  <2>. QED  BY <1>8, <2>2, <2>5
<1>. QED  BY <1>5, <1>9, <1>10

\* A finish of job k takes no job of another flow than its own but in its trim.
LEMMA FinishSpares ==
    ASSUME NEW k \in Nodes, Good(db, added, {}), now \in Clock, Finish(k), NEW i \in TrimmedBy(k)
    PROVE  GoesWith(db, db', i)
<1>1. PICK s \in Finished : \E x : Ending(x, k, s)
  BY FinishEnds
<1>2. PICK d : Ending(d, k, s)
  BY <1>1
<1>3. Good(d, added, {}) /\ Trimmed(d, k, s) /\ Inside(db, d, RootOf(k))
  BY <1>2 DEF Ending, Finishes
<1>4. PICK V \in IF db.state[RootOf(k)] \in Pending /\ d.state[RootOf(k)] = s
                 THEN Trims(d, RootOf(k), s) ELSE {{}} : db' = RemoveFinished(d, V)
  BY <1>3 DEF Trimmed
<1>5. OldestOf(d, V, s)
  BY <1>4 DEF Trims, OldestOf
<1> DEFINE e == db'
<1>6. e = RemoveFinished(d, V)
  BY <1>4
<1>7. /\ i \in Nodes /\ Parent[i] # None /\ RootOf(k) # RootOf(i)
      /\ IsFinished(db, i) /\ e.state[i] = None /\ WholeIn(db, i)
  BY DEF TrimmedBy, Whole, WholeIn
<1>. HIDE DEF e
<1>8. \A m \in {i} \cup Above[i] : d.state[m] = db.state[m]
  BY <1>3, <1>7, SameRoot DEF Inside
<1>9. IsFinished(d, i) /\ WholeIn(d, i)
  BY <1>7, <1>8 DEF IsFinished, WholeIn, Exists
<1>10. GoesWith(d, e, i)
  BY <1>3, <1>5, <1>6, <1>7, <1>9, TrimGoesWith
<1>11. d.state[RootOf(i)] = db.state[RootOf(i)]
  BY <1>7, <1>8, RootOfNode
<1>. QED  BY <1>8, <1>10, <1>11 DEF GoesWith, IsFinished, e

\* In every flow, a finished job that another flow's finish trims goes with its
\* settled root, or with a job of the flow that lies in another set than the root.
THEOREM TrimsSpareFlows == Spec => TrimSparesFlows
<1> DEFINE B == \A k \in Nodes : \A j \in TrimmedBy(k) : Finish(k) =>
                  LET r == RootOf(j) IN
                  /\ IsFinished(db, r)
                  /\ \E m \in {j} \cup Above[j] :
                        db'.state[m] = None /\ (m = r \/ db.state[m] # db.state[r])
<1>1. FlowInv => B
  <2> SUFFICES ASSUME FlowInv, NEW k \in Nodes, NEW j \in TrimmedBy(k), Finish(k)
               PROVE  GoesWith(db, db', j)
    BY DEF GoesWith
  <2>1. Good(db, added, {}) /\ now \in Clock
    BY DEF FlowInv, TypeOK, Clock
  <2>. QED  BY <2>1, FinishSpares
<1>2. FlowInv /\ [Next]_vars => [B]_vars
  BY <1>1
<1>. QED  BY <1>2, FlowInvariant, PTL DEF Spec, TrimSparesFlows

-----------------------------------------------------------------------------
(* Counting whole flows. *)

\* A flow's root leaves its record behind: it is neither removed at once nor
\* trimmed by the bound that it carries itself.
RootsStay == \A r \in Roots : Kids(r) # {} => Keep[r] \notin {"none", "bounded"}

\* The flows whose root ends in s.
EndedFlows(d, e, s) == {r \in Roots : Kids(r) # {} /\ d.state[r] \in Pending /\ e.state[r] = s}

Counted(d, e) ==
    \A s \in {"completed", "failed"} :
        e.flows[s] - d.flows[s] = Cardinality(EndedFlows(d, e, s))

LEMMA UncountedCounts ==
    ASSUME NEW d, d \in Db, NEW e, e.flows = d.flows,
           \A i \in Nodes : d.state[i] \in Pending => e.state[i] \notin {"completed", "failed"}
    PROVE  Counted(d, e)
<1> SUFFICES ASSUME NEW s \in {"completed", "failed"}
             PROVE  e.flows[s] - d.flows[s] = Cardinality(EndedFlows(d, e, s))
  BY DEF Counted
<1>1. EndedFlows(d, e, s) = {}
  BY DEF EndedFlows, Roots
<1>2. d.flows[s] \in Nat
  BY DEF Db
<1>. QED  BY <1>1, <1>2, FS_EmptySet

\* The jobs that one end takes with it hold at most one root: the flow's.
LEMMA FinishCounts ==
    ASSUME NEW j \in Nodes, Good(db, added, {}), now \in Clock, RootsStay, Finish(j)
    PROVE  Counted(db, db')
<1>1. PICK s \in Finished : \E d : Ending(d, j, s)
  BY FinishEnds
<1>2. PICK d : Ending(d, j, s)
  BY <1>1
<1> DEFINE e == db'
           r == RootOf(j)
<1>3. Good(d, added, {}) /\ Trimmed(d, j, s) /\ Finishes(db, d, j, s)
  BY <1>2 DEF Ending
<1>4. Thins(d, e) /\ (Keep[r] # "bounded" => \A i \in Nodes : e.state[i] = d.state[i])
  BY <1>3, TrimmedGood
<1>5. PICK J \in SUBSET ({j} \cup Above[j]) :
             Ends(db, d, J, s) /\ Counts(db.flows, d.flows, FlowsIn(J), s)
  BY <1>3 DEF Finishes
<1>6. J \subseteq Nodes /\ r \in Roots
  BY <1>5, AboveClosed, RootOfNode
<1>7. \A q \in J : Parent[q] = None => q = r
  BY <1>5, OneRoot
<1>. HIDE DEF e, r
<1>8. FlowsIn(J) = {} \/ FlowsIn(J) = {r}
  BY <1>7 DEF FlowsIn
<1>9. \A q \in FlowsIn(J) : e.state[q] = s /\ db.state[q] \in Pending /\ q \in Roots /\ Kids(q) # {}
  <2> SUFFICES ASSUME NEW q \in FlowsIn(J)
               PROVE  e.state[q] = s /\ db.state[q] \in Pending /\ q \in Roots /\ Kids(q) # {}
    OBVIOUS
  <2>1. q = r /\ q \in J /\ q \in Nodes /\ Parent[q] = None /\ Kids(q) # {} /\ q \in Roots
    BY <1>6, <1>7 DEF FlowsIn, Roots
  <2>2. Keep[q] # "none" /\ Keep[q] # "bounded"
    BY <2>1 DEF RootsStay
  <2>. QED  BY <1>4, <1>5, <2>1, <2>2 DEF Ends
<1>10. ASSUME NEW o \in {"completed", "failed"}
       PROVE  EndedFlows(db, e, o) = IF o = s THEN FlowsIn(J) ELSE {}
  <2>1. ASSUME NEW q \in EndedFlows(db, e, o)
        PROVE  o = s /\ q \in FlowsIn(J)
    <3>1. q \in Nodes /\ Parent[q] = None /\ Kids(q) # {} /\ db.state[q] \in Pending /\ e.state[q] = o
      BY <2>1 DEF EndedFlows, Roots
    <3>2. o # None /\ o \notin Pending
      BY NoneIsNoState DEF Finished, Pending
    <3>3. d.state[q] = o
      BY <1>4, <3>1, <3>2 DEF Thins
    <3>4. q \in J
      BY <1>5, <3>1, <3>2, <3>3 DEF Ends
    <3>. QED  BY <1>5, <3>1, <3>2, <3>3, <3>4 DEF Ends, FlowsIn
  <2>2. ASSUME o = s, NEW q \in FlowsIn(J)
        PROVE  q \in EndedFlows(db, e, o)
    BY <1>9, <2>2 DEF EndedFlows
  <2>. QED  BY <2>1, <2>2
<1>11. e.flows = d.flows /\ db.flows \in [{"completed", "failed"} -> Nat]
  BY <1>4 DEF Thins, Good, Firm, Db
<1>12. ASSUME NEW o \in {"completed", "failed"}
       PROVE  e.flows[o] - db.flows[o] = Cardinality(EndedFlows(db, e, o))
  <2>1. CASE o = s /\ FlowsIn(J) # {}
    <3>1. EndedFlows(db, e, o) = {r}
      BY <1>8, <1>10, <2>1
    <3>2. e.flows[o] = db.flows[o] + 1
      BY <1>5, <1>11, <2>1 DEF Counts
    <3>3. Cardinality({r}) = 1
      BY FS_Singleton
    <3>4. db.flows[o] \in Nat
      BY <1>11
    <3>. QED  BY <3>1, <3>2, <3>3, <3>4
  <2>2. CASE ~(o = s /\ FlowsIn(J) # {})
    <3>1. EndedFlows(db, e, o) = {}
      BY <1>10, <2>2
    <3>2. e.flows[o] = db.flows[o]
      BY <1>5, <1>11, <2>2 DEF Counts
    <3>3. db.flows[o] \in Nat
      BY <1>11
    <3>. QED  BY <3>1, <3>2, <3>3, FS_EmptySet
  <2>. QED  BY <2>1, <2>2
<1>. QED  BY <1>12 DEF e, Counted

LEMMA StepCounts ==
    ASSUME FlowInv, RootsStay, Next
    PROVE  Counted(db, db')
<1> DEFINE e == db'
<1>0. /\ Good(db, added, {}) /\ now \in Clock /\ todo \in Seq(Steps) /\ db \in Db
  BY DEF FlowInv, TypeOK, Clock, Steps
<1>1. ASSUME StillPending(db, e)  PROVE Counted(db, e)
  <2>1. e.flows = db.flows /\ \A i \in Nodes : db.state[i] \in Pending => e.state[i] \notin {"completed", "failed"}
    BY <1>1 DEF Pending, StillPending
  <2>. HIDE DEF e
  <2>. QED  BY <1>0, <1>1, <2>1, UncountedCounts
<1>2. ASSUME Uncounted(db, e)  PROVE Counted(db, e)
  <2>1. \A i \in Nodes : db.state[i] \in Pending => e.state[i] \notin {"completed", "failed"}
    BY <1>2, NoneIsNoState DEF Uncounted, Unended, Pending, Finished
  <2>2. e.flows = db.flows
    BY <1>2 DEF Uncounted
  <2>. HIDE DEF e
  <2>. QED  BY <1>0, <2>1, <2>2, UncountedCounts
<1>3. ASSUME NEW j \in Nodes, AddFlow(j)  PROVE Counted(db, e)
  BY <1>0, <1>1, <1>3, AddFlowKeeps
<1>4. ASSUME NEW j \in Nodes, Claim(j) \/ PutBack(j)  PROVE Counted(db, e)
  <2>1. Good(e, added, {}) /\ Bars(db, e) /\ StillPending(db, e)
    BY <1>0, <1>4, MovedKeeps DEF Claim, PutBack
  <2>. QED  BY <1>1, <2>1
<1>5. ASSUME NEW j \in Nodes, Finish(j)  PROVE Counted(db, e)
  BY <1>0, <1>5, FinishCounts
<1>6. ASSUME NEW j \in Nodes, CancelJob(j)  PROVE Counted(db, e)
  BY <1>0, <1>2, <1>6, CancelJobKeeps
<1>7. ASSUME NEW j \in Nodes, RemoveJob(j)  PROVE Counted(db, e)
  <2>1. e = RemoveTree(db, j)
    BY <1>7 DEF RemoveJob
  <2>. HIDE DEF e
  <2>. QED  BY <1>0, <1>2, <2>1, RemoveTreeGood
<1>8. CASE Send
  BY <1>0, <1>2, <1>8, SendKeeps
<1>9. ASSUME UNCHANGED db  PROVE Counted(db, e)
  BY <1>1, <1>9 DEF StillPending
<1>10. CASE ~Send
  <2>1. CASE \E j \in Nodes : RetryJob(j)
    BY <1>9, <2>1 DEF RetryJob
  <2>2. CASE RetryAllFailed
    BY <1>9, <2>2 DEF RetryAllFailed
  <2>3. CASE \E s \in (States \ {None}) : Clean(s)
    BY <1>9, <2>3 DEF Clean
  <2>4. CASE Cut \/ Tick
    BY <1>9, <2>4 DEF Cut, Tick
  <2>. QED  BY <1>3, <1>4, <1>5, <1>6, <1>7, <1>10, <2>1, <2>2, <2>3, <2>4 DEF Next
<1>. QED  BY <1>8, <1>10

\* In every flow whose root leaves its record behind, the flow is counted once,
\* in the step in which its root ends, and never by anything else.
THEOREM FlowsAreCounted ==
    ASSUME RootsStay
    PROVE  Spec => FlowCountedOnce
<1> DEFINE C == \A s \in {"completed", "failed"} :
                  db'.flows[s] - db.flows[s] =
                     Cardinality({r \in Roots : Kids(r) # {} /\ db.state[r] \in Pending
                                                /\ db'.state[r] = s})
<1>1. FlowInv /\ [Next]_vars => [C]_vars
  <2> SUFFICES ASSUME FlowInv, Next  PROVE C
    BY DEF vars
  <2>. QED  BY StepCounts DEF Counted, EndedFlows
<1>. QED  BY <1>1, FlowInvariant, PTL DEF Spec, FlowCountedOnce
=============================================================================

--------------------------- MODULE ToroRedis_proofs ---------------------------
(***************************************************************************)
(* What every script preserves.  Inside a script a job may be out of every *)
(* collection, or no longer (or not yet) in the key machinery; Good says   *)
(* what holds of the database with those two sets of jobs left out, and    *)
(* each script starts and ends with both empty.                            *)
(***************************************************************************)
EXTENDS ToroRedis, TLAPS

\* Every job outside X is exactly in the collection its state names; those in X
\* are in none.
HomeX(d, X) ==
    \A j \in Ids, c \in Colls : j \in d.coll[c] <=> d.state[j] = c /\ j \notin X

\* The keys, the jobs in Y left out.
KeyX(d, Y) ==
    \A k \in Keys :
        /\ \A j \in Ids : d.ck[k] = j <=> Ckey[j] = k /\ d.state[j] \in Live /\ j \notin Y
        /\ \A j \in Ids : j \in d.held[k] <=> Ckey[j] = k /\ d.state[j] = "held" /\ j \notin Y
        /\ d.ck[k] = None => \A j \in Ids : j \notin d.held[k]

LockOK(d) == \A j \in Ids : d.lock[j] # None => d.state[j] = "active"

Good(d, X, Y) == d \in Db /\ HomeX(d, X) /\ KeyX(d, Y) /\ LockOK(d)

\* What heirs a release of the jobs J may name: those Choices offers.
HandOK(d, J, heir) ==
    /\ heir \in [Keys -> Ids \cup {None}]
    /\ \A k \in Freed(d, J) : \/ heir[k] \in Heirs(d, k)
                              \/ heir[k] = None /\ \A h \in Ids : h \notin Heirs(d, k)

\* From d to r only jobs that waited for a key moved, to wait or delayed.
KeysOnly(r, d) ==
    /\ r.lock = d.lock
    /\ \A i \in Ids, x \in Finished : i \in r.coll[x] <=> i \in d.coll[x]
    /\ \A i \in Ids : d.state[i] # "held" => r.state[i] = d.state[i]

\* The jobs J are as they were.
Untouched(r, d, J) ==
    \A i \in Ids : i \in J => r.state[i] = d.state[i] /\ r.lock[i] = d.lock[i]

-----------------------------------------------------------------------------
(* The parts scripts are composed from. *)

\* The names of the states are distinct, and None is none of them.
LEMMA Names ==
  /\ None \notin Colls /\ None \notin Ids
  /\ Live \subseteq Colls /\ Finished \subseteq Colls /\ "held" \in Colls
  /\ \A c \in Finished : c \notin Live /\ c # "held" /\ c # "active"
  /\ "held" \notin Live
  /\ "wait" \in Live /\ "delayed" \in Live /\ "active" \in Live
BY RedisAssumption DEF Colls, Live, Finished

\* Put keeps a database a database.
LEMMA PutType ==
  ASSUME NEW d \in Db, NEW J \in SUBSET Ids, NEW c \in Colls
  PROVE  Put(d, J, c) \in Db
BY DEF Put, Db

\* Taking jobs out of the collection their state names.
LEMMA TakeGood ==
  ASSUME NEW d, NEW X, NEW Y, Good(d, X, Y),
         NEW J \in SUBSET Ids, NEW c \in Colls, \A j \in J : d.state[j] = c
  PROVE  /\ Good(Take(d, J, c), X \cup J, Y)
         /\ Take(d, J, c).state = d.state
         /\ Take(d, J, c).lock = d.lock
         /\ Take(d, J, c).ck = d.ck
         /\ Take(d, J, c).held = d.held
<1> DEFINE r == Take(d, J, c)
<1>1. /\ r \in Db /\ r.state = d.state /\ r.lock = d.lock /\ r.ck = d.ck /\ r.held = d.held
  BY DEF Take, Db, Good
<1>2. \A i \in Ids, x \in Colls : i \in r.coll[x] <=> i \in d.coll[x] /\ ~(x = c /\ i \in J)
  BY DEF Take, Db, Good
<1> HIDE DEF r
<1>3. HomeX(r, X \cup J)
  BY <1>1, <1>2 DEF Good, HomeX
<1>4. KeyX(r, Y) /\ LockOK(r)
  BY <1>1 DEF Good, KeyX, LockOK
<1> QED
  BY <1>1, <1>3, <1>4 DEF Good, r

\* Putting jobs that hold their keys into wait, delayed or active.
LEMMA PutLive ==
  ASSUME NEW d, NEW X, NEW Y, Good(d, X, Y),
         NEW J \in SUBSET Ids, NEW c \in Live, J \subseteq X,
         \A j \in J : d.state[j] \in Live /\ j \notin Y,
         \A j \in J : d.lock[j] = None
  PROVE  Good(Put(d, J, c), X \ J, Y) /\ Put(d, J, c).lock = d.lock
<1> DEFINE r == Put(d, J, c)
<1>1. /\ r \in Db /\ r.lock = d.lock /\ r.ck = d.ck /\ r.held = d.held
  BY Names DEF Put, Db, Good
<1>2. \A i \in Ids, x \in Colls : i \in r.coll[x] <=> i \in d.coll[x] \/ (x = c /\ i \in J)
  BY Names DEF Put, Db, Good
<1>3. \A i \in Ids : /\ i \in J => r.state[i] = c
                     /\ i \notin J => r.state[i] = d.state[i]
  BY DEF Put, Db, Good
<1> HIDE DEF r
<1>4. HomeX(r, X \ J)
  BY <1>2, <1>3 DEF Good, HomeX
<1>5. KeyX(r, Y)
  BY <1>1, <1>3, Names DEF Good, KeyX
<1>6. LockOK(r)
  BY <1>1, <1>3 DEF Good, LockOK
<1> QED
  BY <1>1, <1>4, <1>5, <1>6 DEF Good, r

\* Putting jobs that are out of the key machinery into a finished set.
LEMMA PutFinished ==
  ASSUME NEW d, NEW X, NEW Y, Good(d, X, Y),
         NEW J \in SUBSET Ids, NEW c \in Finished, J \subseteq X, J \subseteq Y,
         \A j \in J : d.lock[j] = None
  PROVE  /\ Good(Put(d, J, c), X \ J, Y \ J)
<1> DEFINE r == Put(d, J, c)
<1>1. /\ r \in Db /\ r.lock = d.lock /\ r.ck = d.ck /\ r.held = d.held
  BY Names DEF Put, Db, Good
<1>2. \A i \in Ids, x \in Colls : i \in r.coll[x] <=> i \in d.coll[x] \/ (x = c /\ i \in J)
  BY Names DEF Put, Db, Good
<1>3. \A i \in Ids : /\ i \in J => r.state[i] = c
                     /\ i \notin J => r.state[i] = d.state[i]
  BY DEF Put, Db, Good
<1> HIDE DEF r
<1>4. HomeX(r, X \ J)
  BY <1>2, <1>3 DEF Good, HomeX
<1>5. KeyX(r, Y \ J)
  BY <1>1, <1>3, Names DEF Good, KeyX
<1>6. LockOK(r)
  BY <1>1, <1>3 DEF Good, LockOK
<1> QED
  BY <1>1, <1>2, <1>3, <1>4, <1>5, <1>6 DEF Good, r

\* Deleting jobs that are in no collection and hold no key.
LEMMA DelGood ==
  ASSUME NEW d, NEW X, NEW Y, Good(d, X, Y),
         NEW J \in SUBSET Ids, J \subseteq X,
         \A j \in J : j \in Y \/ d.state[j] \in Finished
  PROVE  /\ Good(DelJobs(d, J), X \ J, Y \ J)
         /\ \A i \in Ids : i \notin J => DelJobs(d, J).lock[i] = d.lock[i]
         /\ DelJobs(d, J).coll = d.coll
<1> DEFINE r == DelJobs(d, J)
<1>1. /\ r \in Db /\ r.coll = d.coll /\ r.ck = d.ck /\ r.held = d.held
  BY DEF DelJobs, Db, Good
<1>2. \A i \in Ids : /\ i \in J => r.state[i] = None /\ r.lock[i] = None
                     /\ i \notin J => r.state[i] = d.state[i] /\ r.lock[i] = d.lock[i]
  BY DEF DelJobs, Db, Good
<1> HIDE DEF r
<1>3. HomeX(r, X \ J)
  BY <1>1, <1>2, Names DEF Good, HomeX
<1>4. KeyX(r, Y \ J)
  BY <1>1, <1>2, Names DEF Good, KeyX
<1>5. LockOK(r)
  BY <1>2 DEF Good, LockOK
<1> QED
  BY <1>1, <1>2, <1>3, <1>4, <1>5 DEF Good, r

\* Giving up the keys of the jobs J hands each to an heir, which leaves held for
\* wait or delayed; J is then out of the key machinery.
LEMMA ReleaseKeysGood ==
  ASSUME NEW d, NEW X, NEW Y, Good(d, X, Y),
         NEW J \in SUBSET Ids, NEW heir, NEW late, HandOK(d, J, heir),
         \A j \in Ids : j \in X \cup J => d.state[j] # "held" \/ j \in Y
  PROVE  /\ Good(ReleaseKeys(d, J, heir, late), X, Y \cup J)
         /\ KeysOnly(ReleaseKeys(d, J, heir, late), d)
<1> DEFINE freed == Freed(d, J)
           H == {h \in Ids : \E k \in freed : heir[k] = h}
           handed == [d EXCEPT
             !.ck = [k \in Keys |-> IF k \in freed THEN heir[k] ELSE d.ck[k]],
             !.held = [k \in Keys |->
                        IF k \notin freed THEN d.held[k]
                        ELSE IF heir[k] = None THEN {} ELSE d.held[k] \ {heir[k]}]]
           r == Put(Put(Take(handed, H, "held"), H \ late, "wait"), H \cap late, "delayed")
<1>0. d \in Db /\ heir \in [Keys -> Ids \cup {None}] /\ H \in SUBSET Ids
  BY DEF Good, HandOK
<1>1. r = ReleaseKeys(d, J, heir, late)
  BY DEF ReleaseKeys
<1>2. /\ handed \in Db /\ handed.coll = d.coll /\ handed.state = d.state
      /\ handed.lock = d.lock
  BY <1>0 DEF Db
<1>3. \A k \in Keys :
        /\ k \in freed => handed.ck[k] = heir[k]
        /\ k \notin freed => handed.ck[k] = d.ck[k]
        /\ k \notin freed => handed.held[k] = d.held[k]
        /\ k \in freed /\ heir[k] = None => handed.held[k] = {}
        /\ k \in freed /\ heir[k] # None => handed.held[k] = d.held[k] \ {heir[k]}
  BY <1>0 DEF Db
<1> HIDE DEF handed
<1>4. /\ r \in Db /\ r.lock = d.lock /\ r.ck = handed.ck /\ r.held = handed.held
  <2> HIDE DEF H
  <2>1. Take(handed, H, "held") \in Db
    BY <1>0, <1>2 DEF Take, Db
  <2>2. Put(Take(handed, H, "held"), H \ late, "wait") \in Db
    BY <1>0, <2>1, PutType, Names
  <2>3. r \in Db
    BY <1>0, <2>2, PutType, Names
  <2> QED BY <1>2, <2>3 DEF Put, Take, Db
<1>5. \A i \in Ids, x \in Colls :
        i \in r.coll[x] <=> \/ i \in d.coll[x] /\ ~(x = "held" /\ i \in H)
                            \/ x = "wait" /\ i \in H \ late
                            \/ x = "delayed" /\ i \in H \cap late
  <2> HIDE DEF H
  <2> QED BY <1>0, <1>2 DEF Put, Take, Db, Colls, Live
<1>6. \A i \in Ids : /\ i \in H \cap late => r.state[i] = "delayed"
                     /\ i \in H \ late => r.state[i] = "wait"
                     /\ i \notin H => r.state[i] = d.state[i]
  <2> HIDE DEF H
  <2> QED BY <1>0, <1>2 DEF Put, Take, Db
<1>7. \A i \in H : \E k \in freed : /\ heir[k] = i /\ k \in Keys /\ Ckey[i] = k
                                    /\ i \in d.held[k]
                                    /\ d.state[i] = "held" /\ i \notin Y
  BY Names DEF HandOK, Heirs, Freed, Good, KeyX
<1>8. \A k \in Keys : k \in freed <=> \E j \in J : Ckey[j] = k /\ d.ck[k] = j
  BY Names DEF Freed, Exists, Good, KeyX
<1>9. ASSUME NEW k \in freed
      PROVE  heir[k] \in H \/ (heir[k] = None /\ \A h \in Ids : h \notin d.held[k])
  <2>1. k \in Keys
    BY DEF Freed
  <2>2. CASE heir[k] \in Heirs(d, k)
    BY <1>0, <2>1, <2>2 DEF Heirs, Db
  <2>3. CASE heir[k] = None /\ \A h \in Ids : h \notin Heirs(d, k)
    BY <2>1, <2>3, Names DEF Heirs, Exists, Good, KeyX
  <2> QED
    BY <2>2, <2>3 DEF HandOK
<1> HIDE DEF H, freed, r
<1>10. \A i \in H : i \notin X /\ i \notin J /\ d.lock[i] = None /\ d.state[i] = "held"
  BY <1>7, Names, <1>0 DEF Good, LockOK
<1>11. HomeX(r, X)
  BY <1>5, <1>6, <1>10, Names DEF Good, HomeX, Colls, Live
<1>12. LockOK(r)
  BY <1>4, <1>6, <1>10 DEF Good, LockOK
<1>13. ASSUME NEW k \in Keys
       PROVE  /\ \A j \in Ids : r.ck[k] = j <=>
                    Ckey[j] = k /\ r.state[j] \in Live /\ j \notin Y \cup J
              /\ \A j \in Ids : j \in r.held[k] <=>
                    Ckey[j] = k /\ r.state[j] = "held" /\ j \notin Y \cup J
              /\ r.ck[k] = None => \A j \in Ids : j \notin r.held[k]
  <2>0. /\ \A j \in Ids : d.ck[k] = j <=> Ckey[j] = k /\ d.state[j] \in Live /\ j \notin Y
        /\ \A j \in Ids : j \in d.held[k] <=> Ckey[j] = k /\ d.state[j] = "held" /\ j \notin Y
        /\ d.ck[k] = None => \A j \in Ids : j \notin d.held[k]
    BY DEF Good, KeyX
  <2>1. CASE k \notin freed
    <3>1. r.ck[k] = d.ck[k] /\ r.held[k] = d.held[k]
      BY <1>3, <1>4, <2>1
    <3>2. \A j \in Ids : Ckey[j] = k => j \notin H
      BY <1>7, <2>1
    <3>3. \A j \in J : d.ck[k] # j
      BY <1>8, <2>0, <2>1, Names
    <3>4. \A j \in J : Ckey[j] = k /\ d.state[j] = "held" => j \in Y
      OBVIOUS
    <3> QED
      BY <1>6, <2>0, <3>1, <3>2, <3>3, <3>4
  <2>2. CASE k \in freed /\ heir[k] = None
    <3>1. r.ck[k] = None /\ r.held[k] = {}
      BY <1>3, <1>4, <2>2
    <3>2. \A j \in Ids : j \notin d.held[k]
      BY <1>9, <2>2, <1>0, Names
    <3>3. \A j \in Ids : Ckey[j] = k => j \notin H
      BY <1>7, <2>2, <3>2, <1>0
    <3>4. PICK i \in J : Ckey[i] = k /\ d.ck[k] = i
      BY <1>8, <2>2
    <3> QED
      BY <1>6, <2>0, <3>1, <3>2, <3>3, <3>4, Names
  <2>3. CASE k \in freed /\ heir[k] # None
    <3> DEFINE h == heir[k]
    <3>0. h \in H /\ h \in Ids
      BY <1>9, <2>3, <1>0
    <3>1. Ckey[h] = k
      <4>1. h \in Heirs(d, k)
        BY <2>3 DEF HandOK, freed
      <4> QED
        BY <2>0, <3>0, <4>1 DEF Heirs
    <3>2. r.ck[k] = h /\ r.held[k] = d.held[k] \ {h}
      BY <1>3, <1>4, <2>3
    <3>3. PICK i \in J : Ckey[i] = k /\ d.ck[k] = i
      BY <1>8, <2>3
    <3>4. \A j \in H : Ckey[j] = k => j = h
      BY <1>7
    <3>5. r.state[h] \in Live /\ h \notin Y \cup J
      BY <1>6, <1>7, <1>10, <3>0, Names
    <3> HIDE DEF h
    <3>6. \A j \in Ids : Ckey[j] = k /\ j # h => r.state[j] = d.state[j]
      BY <1>6, <3>4
    <3>7. \A j \in J : Ckey[j] = k /\ d.state[j] = "held" => j \in Y
      OBVIOUS
    <3>8. r.state[h] # "held"
      BY <3>5, Names
    <3> QED
      BY <2>0, <3>0, <3>1, <3>2, <3>3, <3>5, <3>6, <3>7, <3>8, Names
  <2> QED
    BY <2>1, <2>2, <2>3
<1>14. KeyX(r, Y \cup J)
  BY <1>13 DEF KeyX
<1>15. \A i \in Ids, x \in Finished : i \in r.coll[x] <=> i \in d.coll[x]
  BY <1>5, Names
<1>16. \A i \in Ids : d.state[i] # "held" => r.state[i] = d.state[i]
  BY <1>6, <1>10
<1> QED
  BY <1>1, <1>4, <1>11, <1>12, <1>14, <1>15, <1>16 DEF Good, KeysOnly

\* Recording jobs as finished, from whichever script: their keys go on, and they
\* end in the finished set or nowhere, with what the trim takes.
LEMMA RecordFinishedGood ==
  ASSUME NEW d, NEW X, NEW Y, Good(d, X, Y),
         NEW J \in SUBSET Ids, J \subseteq X, Y \subseteq J,
         NEW c \in Finished, NEW x, HandOK(d, J, x.heir),
         \A j \in J : d.lock[j] = None,
         \A j \in Ids : j \in X => d.state[j] # "held" \/ j \in Y,
         \A i \in x.trim : i \in Ids /\ (i \in d.coll[c] \/ (i \in J /\ Keep[i] # "none"))
  PROVE  /\ Good(RecordFinished(d, J, c, x), X \ J, {})
         /\ Untouched(RecordFinished(d, J, c, x), d, X \ J)
<1> DEFINE released == ReleaseKeys(d, J, x.heir, x.late)
           dropped  == {j \in J : Keep[j] = "none"}
           kept     == J \ dropped
           cleared  == DelJobs(released, dropped)
           recorded == Put(cleared, kept, c)
           flagged  == [recorded EXCEPT !.cancel =
                          [j \in Ids |-> recorded.cancel[j] \/ (c = "cancelled" /\ j \in kept)]]
           taken    == Take(flagged, x.trim, c)
           r        == DelJobs(taken, x.trim)
<1>0. r = RecordFinished(d, J, c, x)
  BY DEF RecordFinished
<1>1. /\ Good(released, X, J)
      /\ released.lock = d.lock
      /\ \A i \in Ids : i \in released.coll[c] <=> i \in d.coll[c]
      /\ \A i \in Ids : d.state[i] # "held" => released.state[i] = d.state[i]
  <2>1. Y \cup J = J /\ X \cup J = X
    OBVIOUS
  <2>2. \A j \in Ids : j \in X \cup J => d.state[j] # "held" \/ j \in Y
    OBVIOUS
  <2>3. Good(released, X, Y \cup J) /\ KeysOnly(released, d)
    BY <2>2, ReleaseKeysGood
  <2> HIDE DEF released
  <2> QED
    BY <2>1, <2>3 DEF KeysOnly
<1> HIDE DEF released
<1>2. /\ Good(cleared, X \ dropped, J \ dropped)
      /\ \A i \in Ids : i \notin dropped => cleared.lock[i] = d.lock[i]
      /\ cleared.coll = released.coll
  <2>1. dropped \in SUBSET Ids /\ dropped \subseteq X /\ dropped \subseteq J
    OBVIOUS
  <2> HIDE DEF dropped
  <2> QED
    BY <1>1, <2>1, DelGood
<1>2a. \A i \in Ids : i \notin dropped => cleared.state[i] = released.state[i]
  BY <1>1 DEF DelJobs, Good, Db
<1> HIDE DEF cleared
<1>3. /\ Good(recorded, X \ J, {})
      /\ recorded.lock = cleared.lock
      /\ \A j \in kept : recorded.state[j] = c
      /\ \A i \in Ids : i \in recorded.coll[c] <=> i \in released.coll[c] \/ i \in kept
  <2>1. (X \ dropped) \ kept = X \ J /\ (J \ dropped) \ kept = {}
    OBVIOUS
  <2>2. \A j \in kept : cleared.lock[j] = None
    BY <1>2
  <2>3. kept \in SUBSET Ids /\ kept \subseteq X \ dropped /\ kept \subseteq J \ dropped
    OBVIOUS
  <2> HIDE DEF kept, dropped
  <2> DEFINE V == X \ dropped  W == J \ dropped
  <2>5. Good(cleared, V, W) /\ kept \subseteq V /\ kept \subseteq W
    BY <1>2, <2>3
  <2> HIDE DEF V, W
  <2>4. Good(recorded, V \ kept, W \ kept)
    BY <2>2, <2>3, <2>5, PutFinished
  <2>6. /\ recorded.lock = cleared.lock
        /\ \A j \in kept : recorded.state[j] = c
        /\ \A i \in Ids, y \in Colls :
              i \in recorded.coll[y] <=> i \in cleared.coll[y] \/ (y = c /\ i \in kept)
    BY <2>3, <2>5, Names DEF Put, Good, Db
  <2> HIDE DEF recorded
  <2> QED
    BY <1>2, <2>1, <2>4, <2>6, Names DEF V, W
<1>3a. \A i \in Ids : i \notin kept => recorded.state[i] = cleared.state[i]
  BY <1>2 DEF Put, Good, Db
<1> HIDE DEF recorded
<1>4. /\ Good(flagged, X \ J, {})
      /\ flagged.lock = recorded.lock /\ flagged.state = recorded.state
      /\ flagged.coll = recorded.coll
  <2>1. /\ flagged \in Db /\ flagged.lock = recorded.lock
        /\ flagged.state = recorded.state /\ flagged.coll = recorded.coll
        /\ flagged.ck = recorded.ck /\ flagged.held = recorded.held
    BY <1>3 DEF Good, Db
  <2> HIDE DEF flagged
  <2> QED
    BY <1>3, <2>1 DEF Good, HomeX, KeyX, LockOK
<1> HIDE DEF flagged
<1>5. x.trim \in SUBSET Ids /\ \A i \in x.trim : flagged.state[i] = c /\ i \notin X \ J
  <2> SUFFICES ASSUME NEW i \in x.trim
               PROVE  i \in Ids /\ flagged.state[i] = c /\ i \notin X \ J
    OBVIOUS
  <2>1. i \in Ids /\ i \in recorded.coll[c]
    BY <1>1, <1>3
  <2> QED
    BY <2>1, <1>4, Names DEF Good, HomeX
<1>6. /\ Good(taken, (X \ J) \cup x.trim, {})
      /\ taken.state = flagged.state /\ taken.lock = flagged.lock
  BY <1>4, <1>5, TakeGood, Names
<1> HIDE DEF taken
<1>7. /\ Good(r, X \ J, {})
      /\ \A i \in Ids : i \notin x.trim => r.lock[i] = taken.lock[i]
  <2>1. ((X \ J) \cup x.trim) \ x.trim = X \ J /\ {} \ x.trim = {}
    BY <1>5
  <2> QED
    BY <1>5, <1>6, <2>1, DelGood
<1>8. \A i \in Ids : i \notin x.trim => r.state[i] = taken.state[i]
  BY <1>6 DEF DelJobs, Good, Db
<1>9. ASSUME NEW i \in Ids, i \in X \ J
      PROVE  r.state[i] = d.state[i] /\ r.lock[i] = d.lock[i]
  <2>1. i \notin x.trim /\ i \notin dropped /\ i \notin kept /\ d.state[i] # "held"
    BY <1>5, <1>9
  <2> QED
    BY <2>1, <1>1, <1>2, <1>2a, <1>3, <1>3a, <1>4, <1>6, <1>7, <1>8
<1> QED
  BY <1>0, <1>7, <1>9 DEF Untouched

\* Taking one job out of the key machinery, whatever state it is in.
LEMMA UnkeyGood ==
  ASSUME NEW d, NEW j \in Ids, Good(d, {j}, {}),
         NEW heir, NEW late, HandOK(d, {j}, heir)
  PROVE  /\ Good(Unkey(d, j, heir, late), {j}, {j})
         /\ KeysOnly(Unkey(d, j, heir, late), d)
<1> DEFINE r == Unkey(d, j, heir, late)
<1>1. CASE Ckey[j] = None
  <2>1. \A k \in Keys : Ckey[j] # k
    BY <1>1, RedisAssumption
  <2>2. KeyX(d, {j})
    BY <2>1 DEF Good, KeyX
  <2> QED
    BY <1>1, <2>2 DEF Unkey, Good, KeysOnly
<1>2. CASE Ckey[j] # None /\ d.state[j] = "held"
  <2> DEFINE k == Ckey[j]
  <2>0. k \in Keys
    BY <1>2, RedisAssumption
  <2>1. r = [d EXCEPT !.held[k] = @ \ {j}]
    BY <1>2 DEF Unkey
  <2> HIDE DEF r, k
  <2>2. /\ r \in Db /\ r.coll = d.coll /\ r.state = d.state /\ r.lock = d.lock
        /\ r.ck = d.ck
        /\ \A q \in Keys, i \in Ids : i \in r.held[q] <=> i \in d.held[q] /\ ~(q = k /\ i = j)
    BY <2>0, <2>1 DEF Good, Db
  <2>3. KeyX(r, {j})
    BY <1>2, <2>2, Names DEF Good, KeyX, k
  <2>4. HomeX(r, {j}) /\ LockOK(r)
    BY <2>2 DEF Good, HomeX, LockOK
  <2> QED
    BY <2>2, <2>3, <2>4 DEF Good, r, KeysOnly
<1>3. CASE Ckey[j] # None /\ d.state[j] # "held"
  <2>1. r = ReleaseKeys(d, {j}, heir, late)
    BY <1>3 DEF Unkey
  <2>2. \A i \in Ids : i \in {j} \cup {j} => d.state[i] # "held" \/ i \in {}
    BY <1>3
  <2>3. {} \cup {j} = {j} /\ {j} \in SUBSET Ids
    OBVIOUS
  <2>4. Good(ReleaseKeys(d, {j}, heir, late), {j}, {} \cup {j})
        /\ KeysOnly(ReleaseKeys(d, {j}, heir, late), d)
    BY <2>2, <2>3, ReleaseKeysGood
  <2> QED
    BY <2>1, <2>3, <2>4
<1> QED
  BY <1>1, <1>2, <1>3

\* What touches no collection, state or key, and only drops locks or sets those
\* of active jobs, changes nothing here.
LEMMA OtherGood ==
  ASSUME NEW d, NEW X, NEW Y, Good(d, X, Y), NEW r \in Db,
         r.coll = d.coll, r.state = d.state, r.ck = d.ck, r.held = d.held,
         \A j \in Ids : r.lock[j] \in {d.lock[j], None} \/ d.state[j] = "active"
  PROVE  Good(r, X, Y)
<1>1. HomeX(r, X)
  BY DEF Good, HomeX
<1>2. KeyX(r, Y)
  BY DEF Good, KeyX
<1>3. LockOK(r)
  BY DEF Good, LockOK
<1> QED
  BY <1>1, <1>2, <1>3 DEF Good

\* The heirs on offer depend on states and keys alone.
LEMMA HandMoves ==
  ASSUME NEW d, NEW r, r.state = d.state, r.ck = d.ck, r.held = d.held,
         NEW J, NEW heir, HandOK(d, J, heir)
  PROVE  HandOK(r, J, heir)
BY DEF HandOK, Freed, Heirs, Exists

\* What Choices offers is what a release and a trim may be given.
LEMMA ChoicesOK ==
  ASSUME NEW d \in Db, NEW J \in SUBSET Ids, NEW c \in Colls, NEW x \in Choices(d, J, c)
  PROVE  /\ HandOK(d, J, x.heir)
         /\ \A i \in x.trim : i \in Ids /\ (i \in d.coll[c] \/ (i \in J /\ Keep[i] # "none"))
<1>1. x.heir \in HandOvers(d, J) /\ x.trim \in Trims(d, J, c)
  BY DEF Choices
<1>2. HandOK(d, J, x.heir)
  <2>1. x.heir \in [Keys -> Ids \cup {None}]
    BY <1>1 DEF HandOvers
  <2>2. ASSUME NEW k \in Freed(d, J)
        PROVE  \/ x.heir[k] \in Heirs(d, k)
               \/ x.heir[k] = None /\ \A h \in Ids : h \notin Heirs(d, k)
    <3>1. k \in Keys
      BY DEF Freed
    <3> QED
      BY <1>1, <3>1 DEF HandOvers
  <2> QED
    BY <2>1, <2>2 DEF HandOK
<1>3. x.trim \subseteq d.coll[c] \cup {j \in J : Keep[j] # "none"}
  BY <1>1 DEF Trims
<1>4. d.coll[c] \subseteq Ids
  BY DEF Db
<1> QED
  BY <1>2, <1>3, <1>4

-----------------------------------------------------------------------------
(* The scripts. *)

Sound(d) == Good(d, {}, {})

\* One job, out of its collection and unlocked, is recorded as finished.
LEMMA RecordOne ==
  ASSUME NEW d, NEW j \in Ids, NEW Y, Good(d, {j}, Y), Y \subseteq {j},
         d.lock[j] = None, d.state[j] # "held" \/ j \in Y,
         NEW c \in Finished, NEW x, HandOK(d, {j}, x.heir),
         \A i \in x.trim : i \in Ids /\ (i \in d.coll[c] \/ (i \in {j} /\ Keep[i] # "none"))
  PROVE  Sound(RecordFinished(d, {j}, c, x))
<1> DEFINE J == {j}
<1>1. /\ Good(d, J, Y) /\ HandOK(d, J, x.heir) /\ J \in SUBSET Ids /\ J \subseteq J
      /\ Y \subseteq J /\ J \ J = {}
      /\ \A i \in J : d.lock[i] = None
      /\ \A i \in Ids : i \in J => d.state[i] # "held" \/ i \in Y
      /\ \A i \in x.trim : i \in Ids /\ (i \in d.coll[c] \/ (i \in J /\ Keep[i] # "none"))
  OBVIOUS
<1> HIDE DEF J
<1>2. Good(RecordFinished(d, J, c, x), J \ J, {})
  BY <1>1, RecordFinishedGood
<1> QED
  BY <1>1, <1>2 DEF Sound, J

\* Past the guards of a finish the job is out of active and unlocked.
LEMMA ReleaseRunGood ==
  ASSUME NEW d, Sound(d), NEW j \in Ids, d.state[j] = "active"
  PROVE  LET r == CountRun(ReleaseRun(d, j), j) IN
         /\ Good(r, {j}, {})
         /\ r.state = d.state /\ r.ck = d.ck /\ r.held = d.held
         /\ r.lock[j] = None
         /\ \A i \in Ids, x \in Finished : i \in r.coll[x] <=> i \in d.coll[x]
<1> DEFINE u == [d EXCEPT !.lock[j] = None]
           t == Take(u, {j}, "active")
           r == [t EXCEPT !.attemptsMade[j] = @ + 1]
<1>0. r = CountRun(ReleaseRun(d, j), j)
  BY DEF CountRun, ReleaseRun
<1>1. /\ u \in Db /\ u.coll = d.coll /\ u.state = d.state /\ u.ck = d.ck /\ u.held = d.held
      /\ u.lock[j] = None /\ \A i \in Ids : u.lock[i] \in {d.lock[i], None}
  BY DEF Sound, Good, Db
<1> HIDE DEF u
<1>2. Good(u, {}, {})
  BY <1>1, OtherGood DEF Sound
<1>3. /\ Good(t, {} \cup {j}, {})
      /\ t.state = u.state /\ t.lock = u.lock /\ t.ck = u.ck /\ t.held = u.held
  BY <1>1, <1>2, TakeGood, Names
<1>4. \A i \in Ids, x \in Finished : i \in t.coll[x] <=> i \in u.coll[x]
  BY <1>1, Names DEF Take, Db
<1> HIDE DEF t
<1>5. /\ r \in Db /\ r.coll = t.coll /\ r.state = t.state /\ r.ck = t.ck /\ r.held = t.held
      /\ r.lock = t.lock
  BY <1>3 DEF Good, Db
<1> HIDE DEF r
<1>6. Good(r, {j}, {})
  <2>1. {} \cup {j} = {j}
    OBVIOUS
  <2> QED
    BY <1>3, <1>5, <2>1, OtherGood
<1> QED
  BY <1>0, <1>1, <1>3, <1>4, <1>5, <1>6

\* Every finish that commits.
LEMMA CommitSound ==
  ASSUME NEW d, Sound(d), NEW kind \in Finished, NEW j \in Ids, j \in d.coll["active"],
         NEW x \in Choices(d, {j}, kind)
  PROVE  Sound(Commit(d, kind, j, x))
<1> DEFINE r == CountRun(ReleaseRun(d, j), j)
<1>1. d.state[j] = "active" /\ d \in Db
  BY Names DEF Sound, Good, HomeX
<1>2. /\ Good(r, {j}, {})
      /\ r.state = d.state /\ r.ck = d.ck /\ r.held = d.held
      /\ r.lock[j] = None
      /\ \A i \in Ids, y \in Finished : i \in r.coll[y] <=> i \in d.coll[y]
  BY <1>1, ReleaseRunGood
<1> HIDE DEF r
<1>3. Sound(RecordFinished(r, {j}, kind, x))
  <2>1. /\ HandOK(d, {j}, x.heir)
        /\ \A i \in x.trim : i \in Ids /\ (i \in d.coll[kind] \/ (i \in {j} /\ Keep[i] # "none"))
    BY <1>1, ChoicesOK, Names
  <2>2. HandOK(r, {j}, x.heir)
    BY <1>2, <2>1, HandMoves
  <2>3. \A i \in x.trim : i \in Ids /\ (i \in r.coll[kind] \/ (i \in {j} /\ Keep[i] # "none"))
    BY <1>2, <2>1
  <2>4. Sound(RecordFinished(r, {j}, kind, x))
    BY <1>1, <1>2, <2>2, <2>3, RecordOne
  <2> QED
    BY <2>4
<1>4. ASSUME NEW c \in {"wait", "delayed"}
      PROVE  Sound(Put(r, {j}, c))
  <2>1. Good(Put(r, {j}, c), {j} \ {j}, {})
    BY <1>1, <1>2, PutLive, Names
  <2> QED
    BY <2>1 DEF Sound
<1>5. CASE kind = "failed"
  BY <1>3, <1>4, <1>5 DEF Commit, CommitFailed, r
<1>6. CASE kind # "failed"
  BY <1>3, <1>6 DEF Commit, CommitFinish, r
<1> QED
  BY <1>5, <1>6

\* One job put back among the live ones.
LEMMA PutOne ==
  ASSUME NEW d, NEW j \in Ids, Good(d, {j}, {}), NEW c \in Live,
         d.state[j] \in Live, d.lock[j] = None
  PROVE  Sound(Put(d, {j}, c))
<1> DEFINE J == {j}
<1>1. /\ Good(d, J, {}) /\ J \in SUBSET Ids /\ J \subseteq J /\ J \ J = {}
      /\ \A i \in J : d.state[i] \in Live /\ i \notin {}
      /\ \A i \in J : d.lock[i] = None
  OBVIOUS
<1> HIDE DEF J
<1>2. Good(Put(d, J, c), J \ J, {})
  BY <1>1, PutLive
<1> QED
  BY <1>1, <1>2 DEF Sound, J

\* One job taken out of where its state says it is.
LEMMA TakeOne ==
  ASSUME NEW d, Sound(d), NEW j \in Ids, d.state[j] \in Colls
  PROVE  /\ Good(Take(d, {j}, d.state[j]), {j}, {})
         /\ Take(d, {j}, d.state[j]).state = d.state
         /\ Take(d, {j}, d.state[j]).lock = d.lock
         /\ Take(d, {j}, d.state[j]).ck = d.ck
         /\ Take(d, {j}, d.state[j]).held = d.held
<1> DEFINE J == {j}  c == d.state[j]
<1>1. /\ J \in SUBSET Ids /\ {} \cup J = J /\ \A i \in J : d.state[i] = c
      /\ Good(d, {}, {}) /\ c \in Colls
  BY DEF Sound
<1> HIDE DEF J, c
<1>2. /\ Good(Take(d, J, c), {} \cup J, {})
      /\ Take(d, J, c).state = d.state /\ Take(d, J, c).lock = d.lock
      /\ Take(d, J, c).ck = d.ck /\ Take(d, J, c).held = d.held
  BY <1>1, TakeGood
<1> QED
  BY <1>1, <1>2 DEF J, c

\* promoteDelayed.
LEMMA PromoteDueSound ==
  ASSUME NEW d, Sound(d), NEW due \in SUBSET d.coll["delayed"]
  PROVE  Sound(PromoteDue(d, due))
<1> DEFINE J == {j \in due : Exists(d, j)}
           t == Take(d, due, "delayed")
<1>1. d \in Db /\ due \in SUBSET Ids /\ "delayed" \in Colls /\ \A j \in due : d.state[j] = "delayed"
  BY Names DEF Sound, Good, HomeX, Db
<1>2. J = due
  BY <1>1, Names DEF Exists
<1> HIDE DEF J
<1>3. Good(d, {}, {}) /\ {} \cup due = due /\ due \ due = {} /\ due \subseteq due
  BY DEF Sound
<1>4. /\ Good(t, {} \cup due, {}) /\ t.state = d.state /\ t.lock = d.lock
  BY <1>1, <1>3, TakeGood
<1> HIDE DEF t
<1>5. \A j \in due : t.state[j] \in Live /\ j \notin {} /\ t.lock[j] = None
  BY <1>1, <1>4, Names DEF Sound, Good, LockOK
<1>6. Good(Put(t, due, "wait"), due \ due, {})
  BY <1>1, <1>3, <1>4, <1>5, PutLive, Names
<1> QED
  BY <1>2, <1>3, <1>6 DEF Sound, PromoteDue, J, t

\* acquireNext: a claim.
LEMMA AcquireNextSound ==
  ASSUME NEW d, Sound(d), NEW due \in SUBSET d.coll["delayed"],
         NEW n \in Ids \cup {None}, n # None => n \in PromoteDue(d, due).coll["wait"],
         NEW tok \in Tokens, NEW now \in Nat
  PROVE  Sound(AcquireNext(d, due, n, tok, now))
<1> DEFINE p == PromoteDue(d, due)
<1>1. Sound(p)
  BY PromoteDueSound
<1> HIDE DEF p
<1>2. CASE n = None
  BY <1>1, <1>2 DEF AcquireNext, p
<1>3. CASE n # None
  <2> DEFINE t == Take(p, {n}, "wait")
             q == Put(t, {n}, "active")
             r == LockAndLoad(q, n, tok, now)
  <2>1. n \in Ids /\ p.state[n] = "wait" /\ p \in Db
    BY <1>1, <1>3, Names DEF Sound, Good, HomeX, p
  <2>2. p.lock[n] = None
    BY <1>1, <2>1 DEF Sound, Good, LockOK
  <2>3. Good(t, {n}, {}) /\ t.state = p.state /\ t.lock = p.lock
    BY <1>1, <2>1, TakeOne, Names
  <2> HIDE DEF t
  <2>4. Sound(q)
    BY <2>1, <2>2, <2>3, PutOne, Names
  <2>5. q.state[n] = "active"
    BY <2>1, <2>3 DEF Put, Good, Db
  <2> HIDE DEF q
  <2>6. /\ r \in Db /\ r.coll = q.coll /\ r.ck = q.ck /\ r.held = q.held
        /\ r.state = q.state
        /\ \A i \in Ids : i # n => r.lock[i] = q.lock[i]
    <3>1. q \in Db /\ Stamp(q.processedOn[n], now) \in Nat
      BY <2>1, <2>4 DEF Stamp, Sound, Good, Db
    <3> HIDE DEF Stamp
    <3>2. r \in Db
      BY <2>1, <3>1, Names DEF LockAndLoad, Db
    <3>3. r.coll = q.coll /\ r.ck = q.ck /\ r.held = q.held
      BY <3>1 DEF LockAndLoad, Db
    <3>4. r.state = q.state
      BY <3>1, <2>1, <2>5 DEF LockAndLoad, Db
    <3>5. \A i \in Ids : i # n => r.lock[i] = q.lock[i]
      BY <3>1, <2>1 DEF LockAndLoad, Db
    <3> QED
      BY <3>2, <3>3, <3>4, <3>5
  <2> HIDE DEF r
  <2>7. \A i \in Ids : r.lock[i] \in {q.lock[i], None} \/ q.state[i] = "active"
    BY <2>5, <2>6
  <2>8. Sound(r)
    BY <2>4, <2>6, <2>7, OtherGood DEF Sound
  <2> QED
    BY <1>3, <2>8 DEF AcquireNext, p, t, q, r
<1> QED
  BY <1>2, <1>3

\* What Put does with one job.
Placed(r, d, j, c) ==
    /\ r \in Db /\ r.lock = d.lock /\ r.ck = d.ck /\ r.held = d.held
    /\ \A i \in Ids, x \in Colls : i \in r.coll[x] <=> i \in d.coll[x] \/ (x = c /\ i = j)
    /\ r.state[j] = c
    /\ \A i \in Ids : i # j => r.state[i] = d.state[i]

\* Put places a job.
LEMMA PutPlaces ==
  ASSUME NEW d \in Db, NEW j \in Ids, NEW c \in Colls
  PROVE  Placed(Put(d, {j}, c), d, j, c)
<1> DEFINE r == Put(d, {j}, c)
<1>1. r \in Db
  BY PutType
<1>2. r.lock = d.lock /\ r.ck = d.ck /\ r.held = d.held
  BY DEF Put, Db
<1>3. \A i \in Ids, x \in Colls : i \in r.coll[x] <=> i \in d.coll[x] \/ (x = c /\ i = j)
  BY DEF Put, Db
<1>4. r.state[j] = c /\ \A i \in Ids : i # j => r.state[i] = d.state[i]
  BY DEF Put, Db
<1> QED
  BY <1>1, <1>2, <1>3, <1>4 DEF Placed

\* takeKey, for a job that is in no collection and holds nothing.
LEMMA TakeKeySound ==
  ASSUME NEW d, NEW j \in Ids, Good(d, {j}, {j}), d.lock[j] = None, NEW c \in Live
  PROVE  Sound(TakeKey(d, j, c))
<1> DEFINE k == Ckey[j]  r == TakeKey(d, j, c)
<1>0. d \in Db /\ c \in Colls /\ k \in Keys \cup {None}
  BY Names, RedisAssumption DEF Good
<1>1. CASE k = None
  <2>1. r = Put(d, {j}, c)
    BY <1>1 DEF TakeKey
  <2>2. /\ r \in Db /\ r.lock = d.lock /\ r.ck = d.ck /\ r.held = d.held
        /\ \A i \in Ids, x \in Colls : i \in r.coll[x] <=> i \in d.coll[x] \/ (x = c /\ i = j)
        /\ r.state[j] = c /\ \A i \in Ids : i # j => r.state[i] = d.state[i]
    <3>1. Placed(r, d, j, c)
      BY <1>0, <2>1, PutPlaces
    <3> HIDE DEF r
    <3> QED BY <3>1 DEF Placed
  <2> HIDE DEF r
  <2>3. HomeX(r, {}) /\ LockOK(r)
    BY <2>2 DEF Good, HomeX, LockOK
  <2>4. KeyX(r, {})
    BY <1>1, <2>2, RedisAssumption DEF Good, KeyX
  <2> QED
    BY <2>2, <2>3, <2>4 DEF Sound, Good, r
<1>2. CASE k # None /\ d.ck[k] = None
  <2> DEFINE e == [d EXCEPT !.ck[k] = j]
  <2>1. r = Put(e, {j}, c)
    BY <1>2 DEF TakeKey
  <2> HIDE DEF k
  <2>2. /\ e \in Db /\ e.lock = d.lock /\ e.held = d.held /\ e.coll = d.coll
        /\ e.state = d.state /\ e.ck[k] = j /\ \A q \in Keys : q # k => e.ck[q] = d.ck[q]
    BY <1>0, <1>2 DEF Db
  <2> HIDE DEF e
  <2>3. /\ r \in Db /\ r.lock = d.lock /\ r.ck = e.ck /\ r.held = d.held
        /\ \A i \in Ids, x \in Colls : i \in r.coll[x] <=> i \in d.coll[x] \/ (x = c /\ i = j)
        /\ r.state[j] = c /\ \A i \in Ids : i # j => r.state[i] = d.state[i]
    <3>1. Placed(r, e, j, c)
      BY <1>0, <2>1, <2>2, PutPlaces, Names
    <3> HIDE DEF r
    <3> QED BY <2>2, <3>1 DEF Placed
  <2> HIDE DEF r
  <2>4. HomeX(r, {}) /\ LockOK(r)
    BY <2>3 DEF Good, HomeX, LockOK
  <2>5. KeyX(r, {})
    BY <1>0, <1>2, <2>2, <2>3, Names DEF Good, KeyX, k
  <2> QED
    BY <2>3, <2>4, <2>5 DEF Sound, Good, r
<1>3. CASE k # None /\ d.ck[k] # None
  <2> DEFINE e == [d EXCEPT !.held[k] = @ \cup {j}]
  <2>1. r = Put(e, {j}, "held")
    BY <1>3 DEF TakeKey
  <2> HIDE DEF k
  <2>2. /\ e \in Db /\ e.lock = d.lock /\ e.ck = d.ck /\ e.coll = d.coll
        /\ e.state = d.state
        /\ \A q \in Keys, i \in Ids : i \in e.held[q] <=> i \in d.held[q] \/ (q = k /\ i = j)
    BY <1>0, <1>3 DEF Db
  <2> HIDE DEF e
  <2>3. /\ r \in Db /\ r.lock = d.lock /\ r.ck = d.ck /\ r.held = e.held
        /\ \A i \in Ids, x \in Colls : i \in r.coll[x] <=> i \in d.coll[x] \/ (x = "held" /\ i = j)
        /\ r.state[j] = "held" /\ \A i \in Ids : i # j => r.state[i] = d.state[i]
    <3>1. Placed(r, e, j, "held")
      BY <1>0, <2>1, <2>2, PutPlaces, Names
    <3> HIDE DEF r
    <3> QED BY <2>2, <3>1 DEF Placed
  <2> HIDE DEF r
  <2>4. HomeX(r, {}) /\ LockOK(r)
    BY <2>3, Names DEF Good, HomeX, LockOK
  <2>5. KeyX(r, {})
    BY <1>0, <1>3, <2>2, <2>3, Names DEF Good, KeyX, k
  <2> QED
    BY <2>3, <2>4, <2>5 DEF Sound, Good, r
<1> QED
  BY <1>1, <1>2, <1>3

\* ADD_JOB.
LEMMA AddJobSound ==
  ASSUME NEW d, Sound(d), NEW j \in Ids, ~Exists(d, j)
  PROVE  Sound(AddJob(d, j))
<1>1. d.state[j] = None /\ d.lock[j] = None
  BY Names DEF Exists, Sound, Good, LockOK
<1>2. Good(d, {j}, {j})
  BY <1>1, Names DEF Sound, Good, HomeX, KeyX
<1> QED
  BY <1>1, <1>2, TakeKeySound, Names DEF AddJob

\* PROMOTE_JOB.
LEMMA PromoteJobSound ==
  ASSUME NEW d, Sound(d), NEW j \in Ids, j \in d.coll["delayed"]
  PROVE  Sound(PromoteJob(d, j))
<1>1. d.state[j] = "delayed" /\ d.lock[j] = None
  BY Names DEF Sound, Good, HomeX, LockOK
<1> DEFINE t == Take(d, {j}, "delayed")
<1>2. Good(t, {j}, {}) /\ t.state = d.state /\ t.lock = d.lock
  BY <1>1, TakeOne, Names
<1> HIDE DEF t
<1>3. Sound(Put(t, {j}, "wait"))
  BY <1>1, <1>2, PutOne, Names
<1> QED
  BY <1>3 DEF PromoteJob, t

\* RETRY_JOB.
LEMMA RetryJobSound ==
  ASSUME NEW d, Sound(d), NEW j \in Ids, j \in d.coll["failed"]
  PROVE  Sound(RetryJob(d, j))
<1>0. "failed" \in Finished
  BY DEF Finished
<1>1. d.state[j] = "failed" /\ d.lock[j] = None
  BY <1>0, Names DEF Sound, Good, HomeX, LockOK
<1> DEFINE t == Take(d, {j}, "failed")
           u == [t EXCEPT !.cancel[j] = FALSE, !.stalledCounter[j] = 0]
<1>2. Good(t, {j}, {}) /\ t.state = d.state /\ t.lock = d.lock
  BY <1>0, <1>1, TakeOne, Names
<1> HIDE DEF t
<1>3. /\ u \in Db /\ u.coll = t.coll /\ u.state = t.state /\ u.ck = t.ck
      /\ u.held = t.held /\ u.lock = t.lock
  BY <1>2 DEF Good, Db
<1> HIDE DEF u
<1>4. Good(u, {j}, {})
  BY <1>2, <1>3, OtherGood
<1>5. Good(u, {j}, {j})
  BY <1>0, <1>1, <1>2, <1>3, <1>4, Names DEF Good, KeyX
<1> QED
  BY <1>1, <1>2, <1>3, <1>5, TakeKeySound, Names DEF RetryJob, t, u

\* REMOVE_JOB.
LEMMA RemoveJobSound ==
  ASSUME NEW d, Sound(d), NEW j \in Ids, Exists(d, j), NEW x \in Choices(d, {j}, "failed")
  PROVE  Sound(RemoveJob(d, j, x))
<1> DEFINE t == Take(d, {j}, d.state[j])
           u == Unkey(t, j, x.heir, x.late)
<1>1. d \in Db /\ d.state[j] \in Colls /\ "failed" \in Finished
  BY DEF Sound, Good, Db, Exists, Finished
<1>2. /\ Good(t, {j}, {}) /\ t.state = d.state /\ t.lock = d.lock /\ t.ck = d.ck
      /\ t.held = d.held
  BY <1>1, TakeOne
<1> HIDE DEF t
<1>3. HandOK(d, {j}, x.heir)
  BY <1>1, ChoicesOK, Names
<1>4. HandOK(t, {j}, x.heir)
  BY <1>2, <1>3, HandMoves
<1>5. Good(u, {j}, {j})
  BY <1>2, <1>4, UnkeyGood
<1> HIDE DEF u
<1>6. Sound(DelJobs(u, {j}))
  <2> DEFINE J == {j}
  <2>1. Good(u, J, J) /\ J \in SUBSET Ids /\ J \subseteq J /\ J \ J = {} /\ \A i \in J : i \in J
    BY <1>5
  <2> HIDE DEF J
  <2>2. Good(DelJobs(u, J), J \ J, J \ J)
    BY <2>1, DelGood
  <2> QED
    BY <2>1, <2>2 DEF Sound, J
<1> QED
  BY <1>6 DEF RemoveJob, t, u

\* CANCEL_JOB.
LEMMA CancelJobSound ==
  ASSUME NEW d, Sound(d), NEW j \in Ids, Exists(d, j), d.state[j] \notin Finished,
         NEW x \in Choices(d, {j}, "cancelled")
  PROVE  Sound(CancelJob(d, j, x))
<1>0. d \in Db /\ d.state[j] \in Colls /\ "cancelled" \in Finished
  BY DEF Sound, Good, Db, Exists, Finished
<1>1. CASE d.state[j] = "active"
  <2> DEFINE r == [d EXCEPT !.cancel[j] = TRUE]
  <2>1. /\ r \in Db /\ r.coll = d.coll /\ r.state = d.state /\ r.ck = d.ck
        /\ r.held = d.held /\ r.lock = d.lock
    BY <1>0 DEF Db
  <2> HIDE DEF r
  <2>2. Sound(r)
    BY <2>1, OtherGood DEF Sound
  <2> QED
    BY <1>1, <2>2 DEF CancelJob, r
<1>2. CASE d.state[j] # "active"
  <2> DEFINE t == Take(d, {j}, d.state[j])
             u == Unkey(t, j, x.heir, x.late)
  <2>1. /\ Good(t, {j}, {}) /\ t.state = d.state /\ t.lock = d.lock /\ t.ck = d.ck
        /\ t.held = d.held
    BY <1>0, TakeOne
  <2>2. \A i \in Ids : i \in t.coll["cancelled"] <=> i \in d.coll["cancelled"]
    BY <1>0, Names DEF Take, Db
  <2> HIDE DEF t
  <2>3. /\ HandOK(d, {j}, x.heir)
        /\ \A i \in x.trim : i \in Ids /\ (i \in d.coll["cancelled"] \/ (i \in {j} /\ Keep[i] # "none"))
    <3> DEFINE J == {j}
    <3>1. J \in SUBSET Ids /\ x \in Choices(d, J, "cancelled")
      OBVIOUS
    <3> HIDE DEF J
    <3>2. /\ HandOK(d, J, x.heir)
          /\ \A i \in x.trim : i \in Ids /\ (i \in d.coll["cancelled"] \/ (i \in J /\ Keep[i] # "none"))
      BY <1>0, <3>1, ChoicesOK, Names
    <3> QED
      BY <3>2 DEF J
  <2>4. HandOK(t, {j}, x.heir)
    BY <2>1, <2>3, HandMoves
  <2>5. Good(u, {j}, {j}) /\ KeysOnly(u, t)
    BY <2>1, <2>4, UnkeyGood
  <2> HIDE DEF u
  <2>6. u.lock[j] = None
    BY <1>2, <2>1, <2>5 DEF KeysOnly, Sound, Good, LockOK
  <2>7. \A i \in x.trim : i \in Ids /\ (i \in u.coll["cancelled"] \/ (i \in {j} /\ Keep[i] # "none"))
    BY <1>0, <2>2, <2>3, <2>5 DEF KeysOnly
  <2>8. HandOK(u, {j}, x.heir)
    <3>1. \A k \in Keys : u.ck[k] # j
      BY <2>5 DEF Good, KeyX
    <3>2. \A k \in Keys : k \notin Freed(u, {j})
      BY <3>1 DEF Freed
    <3> QED
      BY <2>3, <3>2 DEF HandOK, Freed
  <2>9. Sound(RecordFinished(u, {j}, "cancelled", x))
    BY <1>0, <2>5, <2>6, <2>7, <2>8, RecordOne
  <2> QED
    BY <1>2, <2>9 DEF CancelJob, t, u
<1> QED
  BY <1>1, <1>2

\* RELEASE_JOB.
LEMMA ReleaseJobSound ==
  ASSUME NEW d, Sound(d), NEW j \in Ids, j \in d.coll["active"]
  PROVE  Sound(ReleaseJob(d, j))
<1>1. d.state[j] = "active"
  BY Names DEF Sound, Good, HomeX
<1> DEFINE t == Take(d, {j}, "active")
           u == [t EXCEPT !.lock[j] = None]
<1>2. Good(t, {j}, {}) /\ t.state = d.state
  BY <1>1, TakeOne, Names
<1> HIDE DEF t
<1>3. /\ u \in Db /\ u.coll = t.coll /\ u.state = t.state /\ u.ck = t.ck /\ u.held = t.held
      /\ u.lock[j] = None /\ \A i \in Ids : u.lock[i] \in {t.lock[i], None}
  BY <1>2 DEF Good, Db
<1> HIDE DEF u
<1>4. Good(u, {j}, {})
  BY <1>2, <1>3, OtherGood
<1>5. Sound(Put(u, {j}, "wait"))
  BY <1>1, <1>2, <1>3, <1>4, PutOne, Names
<1> QED
  BY <1>5 DEF ReleaseJob, t, u

\* A lock that expires, a renewal, a refused finish, a memo, the pause flag.
LEMMA MarksSound ==
  ASSUME NEW d, Sound(d), NEW r \in Db,
         r.coll = d.coll, r.state = d.state, r.ck = d.ck, r.held = d.held,
         \A j \in Ids : r.lock[j] \in {d.lock[j], None}
  PROVE  Sound(r)
BY OtherGood DEF Sound

\* MOVE_STALLED.
LEMMA MoveStalledSound ==
  ASSUME NEW d, Sound(d), NEW x \in Choices(d, Exhausted(d), "failed")
  PROVE  Sound(MoveStalled(d, x))
<1> DEFINE S == Stalling(d)
           F == Exhausted(d)
           t == Take(d, S, "active")
           count == [j \in Ids |-> IF j \in S THEN d.stalledCounter[j] + 1
                                              ELSE d.stalledCounter[j]]
           taken == [t EXCEPT !.stalledCounter = count]
           rec == RecordFinished(taken, F, "failed", x)
           swept == Put(rec, S \ F, "wait")
           r == [swept EXCEPT !.stalled = swept.coll["active"]]
<1>0. d \in Db /\ S \in SUBSET Ids /\ F \in SUBSET Ids /\ F \subseteq S /\ "failed" \in Finished
  BY DEF Sound, Good, Db, Stalling, Exhausted, Finished
<1>1. \A j \in S : d.state[j] = "active" /\ d.lock[j] = None
  BY <1>0, Names DEF Sound, Good, HomeX, Stalling
<1>r. r = MoveStalled(d, x)
  BY DEF MoveStalled
<1>2. /\ HandOK(d, F, x.heir)
      /\ \A i \in x.trim : i \in Ids /\ (i \in d.coll["failed"] \/ (i \in F /\ Keep[i] # "none"))
  BY <1>0, ChoicesOK, Names
<1> HIDE DEF S, F
<1>3. /\ Good(t, S, {}) /\ t.state = d.state /\ t.lock = d.lock /\ t.ck = d.ck /\ t.held = d.held
  <2>1. Good(d, {}, {}) /\ {} \cup S = S
    BY DEF Sound
  <2>2. /\ Good(t, {} \cup S, {}) /\ t.state = d.state /\ t.lock = d.lock /\ t.ck = d.ck /\ t.held = d.held
    BY <1>0, <1>1, <2>1, TakeGood, Names
  <2> QED
    BY <2>1, <2>2
<1>4. \A i \in Ids : i \in t.coll["failed"] <=> i \in d.coll["failed"]
  BY <1>0, Names DEF Take, Db
<1>c. count \in [Ids -> Nat]
  BY <1>0 DEF Db
<1> HIDE DEF t, count
<1>5. /\ taken \in Db /\ taken.coll = t.coll /\ taken.state = t.state /\ taken.ck = t.ck
      /\ taken.held = t.held /\ taken.lock = t.lock
  BY <1>c, <1>3 DEF Good, Db
<1> HIDE DEF taken
<1>6. Good(taken, S, {})
  BY <1>3, <1>5, OtherGood
<1>7. /\ Good(rec, S \ F, {})
      /\ \A i \in Ids : i \in S \ F => rec.state[i] = taken.state[i] /\ rec.lock[i] = taken.lock[i]
  <2>1. HandOK(taken, F, x.heir)
    BY <1>2, <1>3, <1>5, HandMoves
  <2>2. \A i \in x.trim : i \in Ids /\ (i \in taken.coll["failed"] \/ (i \in F /\ Keep[i] # "none"))
    BY <1>2, <1>4, <1>5
  <2>3. /\ \A j \in F : taken.lock[j] = None
        /\ \A j \in Ids : j \in S => taken.state[j] # "held" \/ j \in {}
    BY <1>0, <1>1, <1>3, <1>5
  <2> DEFINE E == {}
  <2>4. /\ Good(taken, S, E) /\ E \subseteq F
        /\ \A j \in Ids : j \in S => taken.state[j] # "held" \/ j \in E
    BY <1>6, <2>3
  <2> HIDE DEF E
  <2>5. Good(rec, S \ F, {}) /\ Untouched(rec, taken, S \ F)
    BY <1>0, <2>1, <2>2, <2>3, <2>4, RecordFinishedGood
  <2> QED
    BY <2>5 DEF Untouched
<1> HIDE DEF rec
<1>8. Sound(swept)
  <2> DEFINE W == S \ F
  <2>1. /\ W \in SUBSET Ids /\ W \subseteq W /\ W \ W = {} /\ Good(rec, W, {})
        /\ \A j \in W : rec.state[j] \in Live /\ j \notin {} /\ rec.lock[j] = None
    BY <1>0, <1>1, <1>3, <1>5, <1>7, Names
  <2> HIDE DEF W
  <2>2. Good(Put(rec, W, "wait"), W \ W, {})
    BY <2>1, PutLive, Names
  <2> QED
    BY <2>1, <2>2 DEF Sound, W
<1> HIDE DEF swept
<1>9. /\ r \in Db /\ r.coll = swept.coll /\ r.state = swept.state /\ r.ck = swept.ck
      /\ r.held = swept.held /\ r.lock = swept.lock
  BY <1>8, Names DEF Sound, Good, Db
<1> HIDE DEF r
<1>10. Sound(r)
  BY <1>8, <1>9, MarksSound
<1> QED
  BY <1>10, <1>r
-------------------------------------------------------------------------------
(***************************************************************************)
(* What every script does to each single job: to the job it is called for, *)
(* and to the bystanders, the other jobs it reaches through keys, due      *)
(* times and trims.                                                        *)
(***************************************************************************)

\* The fields beside the state are as they were.
Fields(r, d, i) ==
    /\ r.attemptsMade[i] = d.attemptsMade[i] /\ r.stalledCounter[i] = d.stalledCounter[i]
    /\ r.processedOn[i] = d.processedOn[i] /\ r.cancel[i] = d.cancel[i]
    /\ r.lock[i] = d.lock[i]

Kept(r, d, i) == r.state[i] = d.state[i] /\ Fields(r, d, i)

\* Handed a key, or due.
Advanced(r, d, i) ==
    d.state[i] \in {"held", "delayed"} /\ r.state[i] \in {"wait", "delayed"} /\ Fields(r, d, i)

\* Nothing of the job is left.
Gone(r, i) ==
    /\ r.state[i] = None /\ r.attemptsMade[i] = 0 /\ r.stalledCounter[i] = 0
    /\ r.processedOn[i] = 0 /\ r.cancel[i] = FALSE /\ r.lock[i] = None

\* What a script does to a job it is not about: a trim takes only finished jobs.
Bystander(r, d, i) ==
    Kept(r, d, i) \/ Advanced(r, d, i) \/ (d.state[i] \in Finished /\ Gone(r, i))

\* The job is recorded in c, or gone, and its lock was no longer there.
Ended(r, d, i, c) ==
    \/ Gone(r, i)
    \/ /\ r.state[i] = c /\ r.cancel[i] = (d.cancel[i] \/ c = "cancelled")
       /\ r.attemptsMade[i] = d.attemptsMade[i] /\ r.stalledCounter[i] = d.stalledCounter[i]
       /\ r.processedOn[i] = d.processedOn[i] /\ r.lock[i] = d.lock[i]

-----------------------------------------------------------------------------
(* The parts. *)

\* A bystander of two steps is one of both.
LEMMA BystanderTrans ==
  ASSUME NEW d, NEW e, NEW r, NEW i, Bystander(e, d, i), Bystander(r, e, i)
  PROVE  Bystander(r, d, i)
BY Names DEF Bystander, Kept, Advanced, Gone, Fields, Finished, Colls

\* Put sets the state of the jobs J and no other field.
LEMMA PutEffect ==
  ASSUME NEW d \in Db, NEW J \in SUBSET Ids, NEW c \in Colls, NEW i \in Ids
  PROVE  /\ Fields(Put(d, J, c), d, i)
         /\ Put(d, J, c).state[i] = IF i \in J THEN c ELSE d.state[i]
BY DEF Put, Fields, Db

\* Taking jobs out of a collection changes no field.
LEMMA TakeEffect ==
  ASSUME NEW d \in Db, NEW J, NEW c, NEW i \in Ids
  PROVE  Kept(Take(d, J, c), d, i)
BY DEF Take, Fields, Kept, Db

\* Deleting the jobs J leaves nothing of them and every other job as it was.
LEMMA DelEffect ==
  ASSUME NEW d \in Db, NEW J \in SUBSET Ids, NEW i \in Ids
  PROVE  IF i \in J THEN Gone(DelJobs(d, J), i) ELSE Kept(DelJobs(d, J), d, i)
BY DEF DelJobs, Gone, Fields, Kept, Db

\* Giving up keys only advances jobs that waited for one.
LEMMA ReleaseKeysEffect ==
  ASSUME NEW d, NEW X, NEW Y, Good(d, X, Y), NEW J \in SUBSET Ids, NEW heir, NEW late,
         HandOK(d, J, heir), NEW i \in Ids
  PROVE  LET r == ReleaseKeys(d, J, heir, late)
         IN  r \in Db /\ IF d.state[i] = "held" THEN Kept(r, d, i) \/ Advanced(r, d, i)
                         ELSE Kept(r, d, i)
<1> DEFINE freed == Freed(d, J)
           H == {h \in Ids : \E k \in freed : heir[k] = h}
           handed == [d EXCEPT
             !.ck = [k \in Keys |-> IF k \in freed THEN heir[k] ELSE d.ck[k]],
             !.held = [k \in Keys |->
                        IF k \notin freed THEN d.held[k]
                        ELSE IF heir[k] = None THEN {} ELSE d.held[k] \ {heir[k]}]]
           t == Take(handed, H, "held")
           p == Put(t, H \ late, "wait")
           r == Put(p, H \cap late, "delayed")
<1>0. d \in Db /\ heir \in [Keys -> Ids \cup {None}] /\ H \in SUBSET Ids
  BY DEF Good, HandOK
<1>1. r = ReleaseKeys(d, J, heir, late)
  BY DEF ReleaseKeys
<1>2. handed \in Db /\ Kept(handed, d, i)
  BY <1>0 DEF Db, Kept, Fields
<1>3. i \in H => d.state[i] = "held"
  BY Names DEF HandOK, Heirs, Freed, Good, KeyX
<1> HIDE DEF handed, H
<1>4. t \in Db /\ Kept(t, handed, i)
  <2>1. t \in Db
    BY <1>0, <1>2 DEF Take, Db
  <2> QED
    BY <1>2, <2>1, TakeEffect
<1> HIDE DEF t
<1>5. p \in Db /\ Fields(p, t, i) /\ p.state[i] = IF i \in H \ late THEN "wait" ELSE t.state[i]
  <2>1. H \ late \in SUBSET Ids
    BY <1>0
  <2> QED
    BY <1>4, <2>1, PutType, PutEffect, Names
<1> HIDE DEF p
<1>6. /\ r \in Db /\ Fields(r, p, i)
      /\ r.state[i] = IF i \in H \cap late THEN "delayed" ELSE p.state[i]
  <2>1. H \cap late \in SUBSET Ids
    BY <1>0
  <2> QED
    BY <1>5, <2>1, PutType, PutEffect, Names
<1> HIDE DEF r
<1> QED
  BY <1>1, <1>2, <1>3, <1>4, <1>5, <1>6 DEF Kept, Advanced, Fields

\* recordFinished: the jobs J end in c, or are gone; the others stand by, and those
\* that are in no collection are as they were.
LEMMA RecordFinishedEffect ==
  ASSUME NEW d, NEW X, NEW Y, Good(d, X, Y), NEW J \in SUBSET Ids, NEW c \in Finished, NEW x,
         HandOK(d, J, x.heir), \A j \in Ids : j \in X \cup J => d.state[j] # "held" \/ j \in Y,
         J \subseteq X, Y \subseteq J,
         \A i \in x.trim : i \in Ids /\ (i \in d.coll[c] \/ (i \in J /\ Keep[i] # "none")),
         NEW i \in Ids
  PROVE  LET r == RecordFinished(d, J, c, x)
         IN  IF i \in J THEN Ended(r, d, i, c)
             ELSE Bystander(r, d, i) /\ (i \in X => Kept(r, d, i))
<1> DEFINE released == ReleaseKeys(d, J, x.heir, x.late)
           dropped  == {j \in J : Keep[j] = "none"}
           kept     == J \ dropped
           cleared  == DelJobs(released, dropped)
           recorded == Put(cleared, kept, c)
           flagged  == [recorded EXCEPT !.cancel =
                          [j \in Ids |-> recorded.cancel[j] \/ (c = "cancelled" /\ j \in kept)]]
           taken    == Take(flagged, x.trim, c)
           r        == DelJobs(taken, x.trim)
<1>0. r = RecordFinished(d, J, c, x)
  BY DEF RecordFinished
<1>1. /\ released \in Db
      /\ IF d.state[i] = "held" THEN Kept(released, d, i) \/ Advanced(released, d, i)
         ELSE Kept(released, d, i)
  BY ReleaseKeysEffect
<1> HIDE DEF released
<1>2. dropped \in SUBSET Ids /\ kept \in SUBSET Ids /\ (i \in J <=> i \in dropped \/ i \in kept)
      /\ ~(i \in dropped /\ i \in kept)
  OBVIOUS
<1>t. x.trim \in SUBSET Ids
      /\ (i \in x.trim => i \in kept \/ (i \notin J /\ d.state[i] = c /\ i \notin X))
  BY Names DEF Good, HomeX
<1> HIDE DEF dropped, kept
<1>3. cleared \in Db /\ IF i \in dropped THEN Gone(cleared, i) ELSE Kept(cleared, released, i)
  <2>1. cleared \in Db
    BY <1>1, <1>2 DEF DelJobs, Db
  <2> QED
    BY <1>1, <1>2, <2>1, DelEffect
<1> HIDE DEF cleared
<1>4. /\ recorded \in Db /\ Fields(recorded, cleared, i)
      /\ recorded.state[i] = IF i \in kept THEN c ELSE cleared.state[i]
  BY <1>2, <1>3, PutType, PutEffect, Names
<1> HIDE DEF recorded
<1>5. /\ flagged \in Db /\ flagged.state[i] = recorded.state[i]
      /\ flagged.attemptsMade[i] = recorded.attemptsMade[i]
      /\ flagged.stalledCounter[i] = recorded.stalledCounter[i]
      /\ flagged.processedOn[i] = recorded.processedOn[i]
      /\ flagged.lock[i] = recorded.lock[i]
      /\ flagged.cancel[i] = (recorded.cancel[i] \/ (c = "cancelled" /\ i \in kept))
  BY <1>4 DEF Db
<1> HIDE DEF flagged
<1>b. recorded.cancel[i] \in BOOLEAN /\ d.cancel[i] \in BOOLEAN
  BY <1>4 DEF Good, Db
<1>6. taken \in Db /\ Kept(taken, flagged, i)
  <2>1. taken \in Db
    BY <1>5, <1>t DEF Take, Db
  <2> QED
    BY <1>5, <2>1, TakeEffect
<1> HIDE DEF taken
<1>7. IF i \in x.trim THEN Gone(r, i) ELSE Kept(r, taken, i)
  BY <1>6, <1>t, DelEffect
<1> HIDE DEF r
<1>8. CASE i \in x.trim
  BY <1>0, <1>2, <1>7, <1>8, <1>t DEF Ended, Bystander
<1>9. CASE i \notin x.trim /\ i \in dropped
  <2>1. Gone(r, i)
    BY <1>2, <1>3, <1>4, <1>5, <1>6, <1>7, <1>9, <1>b DEF Gone, Kept, Fields
  <2> QED
    BY <1>0, <1>2, <1>9, <2>1 DEF Ended
<1>10. CASE i \notin x.trim /\ i \in kept
  <2>1. d.state[i] # "held" \/ i \in Y
    BY <1>2, <1>10
  <2>2. Fields(released, d, i)
    BY <1>1 DEF Kept, Advanced
  <2>3. Ended(r, d, i, c)
    BY <1>2, <1>3, <1>4, <1>5, <1>6, <1>7, <1>10, <1>b, <2>2 DEF Ended, Kept, Fields
  <2> QED
    BY <1>0, <1>2, <1>10, <2>3
<1>11. CASE i \notin x.trim /\ i \notin J
  <2>1. Kept(r, released, i)
    BY <1>2, <1>3, <1>4, <1>5, <1>6, <1>7, <1>11, <1>b DEF Kept, Fields
  <2>2. i \in X => Kept(released, d, i)
    BY <1>1, <1>11
  <2> QED
    BY <1>0, <1>1, <1>11, <2>1, <2>2 DEF Bystander, Kept, Advanced, Fields
<1> QED
  BY <1>2, <1>8, <1>9, <1>10, <1>11
\* Taking a job out of the key machinery leaves it as it is.
LEMMA UnkeyEffect ==
  ASSUME NEW d, NEW j \in Ids, Good(d, {j}, {}), NEW heir, NEW late, HandOK(d, {j}, heir),
         NEW i \in Ids
  PROVE  LET r == Unkey(d, j, heir, late)
         IN  IF i = j THEN Kept(r, d, i) ELSE Kept(r, d, i) \/ Advanced(r, d, i)
<1> DEFINE J == {j}  r == Unkey(d, j, heir, late)
<1>1. J \in SUBSET Ids /\ Good(d, J, {}) /\ HandOK(d, J, heir) /\ d \in Db
  BY DEF Good
<1>2. CASE Ckey[j] = None
  BY <1>2 DEF Unkey, Kept, Fields
<1>3. CASE Ckey[j] # None /\ d.state[j] = "held"
  <2>1. r = [d EXCEPT !.held[Ckey[j]] = @ \ {j}]
    BY <1>3 DEF Unkey
  <2> HIDE DEF r
  <2>2. Kept(r, d, i)
    BY <1>1, <2>1 DEF Kept, Fields, Db
  <2> QED
    BY <2>2 DEF r
<1>4. CASE Ckey[j] # None /\ d.state[j] # "held"
  <2>1. r = ReleaseKeys(d, J, heir, late)
    BY <1>4 DEF Unkey
  <2> HIDE DEF r, J
  <2>2. IF d.state[i] = "held" THEN Kept(r, d, i) \/ Advanced(r, d, i) ELSE Kept(r, d, i)
    BY <1>1, <2>1, ReleaseKeysEffect
  <2> QED
    BY <1>4, <2>2 DEF r
<1> QED
  BY <1>2, <1>3, <1>4

\* One job, out of its collection, is recorded as finished.
LEMMA RecordOneEffect ==
  ASSUME NEW d, NEW j \in Ids, NEW Y, Good(d, {j}, Y), Y \subseteq {j},
         d.state[j] # "held" \/ j \in Y,
         NEW c \in Finished, NEW x, HandOK(d, {j}, x.heir),
         \A i \in x.trim : i \in Ids /\ (i \in d.coll[c] \/ (i \in {j} /\ Keep[i] # "none")),
         NEW i \in Ids
  PROVE  LET r == RecordFinished(d, {j}, c, x)
         IN  IF i = j THEN Ended(r, d, i, c) ELSE Bystander(r, d, i)
<1> DEFINE J == {j}
<1>1. /\ Good(d, J, Y) /\ HandOK(d, J, x.heir) /\ J \in SUBSET Ids /\ J \subseteq J
      /\ Y \subseteq J /\ (i \in J <=> i = j)
      /\ \A q \in Ids : q \in J \cup J => d.state[q] # "held" \/ q \in Y
      /\ \A q \in x.trim : q \in Ids /\ (q \in d.coll[c] \/ (q \in J /\ Keep[q] # "none"))
  OBVIOUS
<1>d. J = {j}
  OBVIOUS
<1> HIDE DEF J
<1>2. IF i \in J THEN Ended(RecordFinished(d, J, c, x), d, i, c)
      ELSE Bystander(RecordFinished(d, J, c, x), d, i)
  BY <1>1, RecordFinishedEffect
<1> QED
  BY <1>1, <1>2, <1>d

-----------------------------------------------------------------------------
(* The scripts. *)

\* A run counted: the job is recorded, or waits with an attempt left.
Counted(r, d, j, kind) ==
    /\ r.lock[j] = None /\ r.attemptsMade[j] = d.attemptsMade[j] + 1
    /\ r.processedOn[j] = d.processedOn[j] /\ r.stalledCounter[j] = d.stalledCounter[j]
    /\ d.cancel[j] => r.cancel[j]
    /\ \/ r.state[j] = kind
       \/ r.state[j] \in {"wait", "delayed"} /\ r.attemptsMade[j] < Attempts[j]

\* A finish that commits.
LEMMA CommitEffect ==
  ASSUME NEW d, Sound(d), NEW kind \in Finished, NEW j \in Ids, j \in d.coll["active"],
         NEW x \in Choices(d, {j}, kind), NEW i \in Ids
  PROVE  LET r == Commit(d, kind, j, x)
         IN  IF i = j THEN Gone(r, i) \/ Counted(r, d, i, kind) ELSE Bystander(r, d, i)
<1> DEFINE e == CountRun(ReleaseRun(d, j), j)
           f == RecordFinished(e, {j}, kind, x)
<1>1. d.state[j] = "active" /\ d \in Db
  BY Names DEF Sound, Good, HomeX
<1>2. /\ Good(e, {j}, {})
      /\ e.state = d.state /\ e.ck = d.ck /\ e.held = d.held
      /\ e.lock[j] = None
      /\ \A q \in Ids, y \in Finished : q \in e.coll[y] <=> q \in d.coll[y]
  BY <1>1, ReleaseRunGood
<1>3. /\ i # j => Kept(e, d, i)
      /\ e.attemptsMade[j] = d.attemptsMade[j] + 1
      /\ e.stalledCounter[j] = d.stalledCounter[j] /\ e.processedOn[j] = d.processedOn[j]
      /\ e.cancel[j] = d.cancel[j]
  BY <1>1 DEF CountRun, ReleaseRun, Take, Db, Kept, Fields
<1> HIDE DEF e
<1>4. IF i = j THEN Ended(f, e, i, kind) ELSE Bystander(f, e, i)
  <2>1. /\ HandOK(d, {j}, x.heir)
        /\ \A q \in x.trim : q \in Ids /\ (q \in d.coll[kind] \/ (q \in {j} /\ Keep[q] # "none"))
    BY <1>1, ChoicesOK, Names
  <2>2. HandOK(e, {j}, x.heir)
    BY <1>2, <2>1, HandMoves
  <2>3. \A q \in x.trim : q \in Ids /\ (q \in e.coll[kind] \/ (q \in {j} /\ Keep[q] # "none"))
    BY <1>2, <2>1
  <2> DEFINE E == {}
  <2>4. Good(e, {j}, E) /\ E \subseteq {j} /\ (e.state[j] # "held" \/ j \in E)
    BY <1>1, <1>2
  <2> HIDE DEF E
  <2> QED
    BY <2>2, <2>3, <2>4, RecordOneEffect
<1>5. ASSUME NEW c \in {"wait", "delayed"}
      PROVE  /\ i # j => Kept(Put(e, {j}, c), e, i)
             /\ i = j => Fields(Put(e, {j}, c), e, i) /\ Put(e, {j}, c).state[i] = c
  <2>1. e \in Db /\ c \in Colls /\ {j} \in SUBSET Ids
    BY <1>2, Names DEF Good
  <2> QED
    BY <2>1, PutEffect DEF Kept
<1>6. CASE kind = "failed" /\ e.attemptsMade[j] < Attempts[j]
  <2> DEFINE c == IF Backoff[j] THEN "delayed" ELSE "wait"
             r == Put(e, {j}, c)
  <2>1. r = Commit(d, kind, j, x)
    BY <1>6 DEF Commit, CommitFailed, e
  <2>2. c \in {"wait", "delayed"}
    OBVIOUS
  <2> HIDE DEF c
  <2>3. /\ i # j => Kept(r, e, i)
        /\ i = j => Fields(r, e, i) /\ r.state[i] = c
    BY <1>5, <2>2
  <2> HIDE DEF r
  <2>4. i = j => Counted(r, d, i, kind)
    BY <1>2, <1>3, <1>6, <2>2, <2>3 DEF Counted, Fields
  <2>5. i # j => Bystander(r, d, i)
    BY <1>3, <2>3 DEF Bystander, Kept, Fields
  <2> QED
    BY <2>1, <2>4, <2>5
<1>7. CASE ~(kind = "failed" /\ e.attemptsMade[j] < Attempts[j])
  <2>1. f = Commit(d, kind, j, x)
    BY <1>7 DEF Commit, CommitFailed, CommitFinish, e, f
  <2> HIDE DEF f
  <2>2. i = j => Gone(f, i) \/ Counted(f, d, i, kind)
    BY <1>2, <1>3, <1>4 DEF Counted, Ended
  <2>3. i # j => Bystander(f, d, i)
    BY <1>3, <1>4 DEF Bystander, Kept, Fields, Advanced
  <2> QED
    BY <2>1, <2>2, <2>3
<1> QED
  BY <1>6, <1>7

\* Claimed: a waiting job is active under the caller's token and a later claim.
Granted(r, d, n, tok, now) ==
    /\ d.state[n] \in {"wait", "delayed"} /\ r.state[n] = "active" /\ r.lock[n] = tok
    /\ r.processedOn[n] = Stamp(d.processedOn[n], now)
    /\ r.attemptsMade[n] = d.attemptsMade[n] /\ r.stalledCounter[n] = d.stalledCounter[n]
    /\ r.cancel[n] = d.cancel[n]

\* promoteDelayed.
LEMMA PromoteDueEffect ==
  ASSUME NEW d, Sound(d), NEW due \in SUBSET d.coll["delayed"], NEW i \in Ids
  PROVE  \/ Kept(PromoteDue(d, due), d, i)
         \/ d.state[i] = "delayed" /\ Advanced(PromoteDue(d, due), d, i)
<1> DEFINE J == {j \in due : Exists(d, j)}
           t == Take(d, due, "delayed")
           r == Put(t, J, "wait")
<1>1. d \in Db /\ J \in SUBSET Ids /\ due \in SUBSET Ids
      /\ \A j \in due : d.state[j] = "delayed"
  BY Names DEF Sound, Good, HomeX, Db
<1>2. i \in J => d.state[i] = "delayed"
  BY <1>1
<1> HIDE DEF J
<1>3. t \in Db /\ Kept(t, d, i)
  <2>1. t \in Db
    BY <1>1 DEF Take, Db
  <2> QED
    BY <1>1, <2>1, TakeEffect
<1> HIDE DEF t
<1>4. Fields(r, t, i) /\ r.state[i] = IF i \in J THEN "wait" ELSE t.state[i]
  BY <1>1, <1>3, PutEffect, Names
<1> HIDE DEF r
<1>5. Kept(r, d, i) \/ (d.state[i] = "delayed" /\ Advanced(r, d, i))
  BY <1>2, <1>3, <1>4 DEF Kept, Advanced, Fields
<1> QED
  BY <1>5 DEF r, t, J, PromoteDue

\* acquireNext.
LEMMA AcquireNextEffect ==
  ASSUME NEW d, Sound(d), NEW due \in SUBSET d.coll["delayed"],
         NEW n \in Ids \cup {None}, n # None => n \in PromoteDue(d, due).coll["wait"],
         NEW tok, NEW now, NEW i \in Ids
  PROVE  LET r == AcquireNext(d, due, n, tok, now)
         IN  IF i = n THEN Granted(r, d, i, tok, now)
             ELSE Kept(r, d, i) \/ Advanced(r, d, i)
<1> DEFINE p == PromoteDue(d, due)
<1>1. Sound(p) /\ (Kept(p, d, i) \/ (d.state[i] = "delayed" /\ Advanced(p, d, i)))
  BY PromoteDueSound, PromoteDueEffect
<1> HIDE DEF p
<1>2. CASE n = None
  BY <1>1, <1>2, Names DEF AcquireNext, p
<1>3. CASE n # None
  <2> DEFINE t == Take(p, {n}, "wait")
             q == Put(t, {n}, "active")
             r == LockAndLoad(q, n, tok, now)
  <2>1. n \in Ids /\ p.state[n] = "wait" /\ p \in Db
    BY <1>1, <1>3, Names DEF Sound, Good, HomeX, p
  <2>2. t \in Db /\ Kept(t, p, i)
    <3>1. t \in Db
      BY <2>1 DEF Take, Db
    <3> QED
      BY <2>1, <3>1, TakeEffect
  <2> HIDE DEF t
  <2>3. q \in Db /\ Fields(q, t, i) /\ q.state[i] = IF i = n THEN "active" ELSE t.state[i]
    <3>1. {n} \in SUBSET Ids /\ (i \in {n} <=> i = n) /\ "active" \in Colls
      BY <2>1, Names
    <3> QED
      BY <2>2, <3>1, PutType, PutEffect
  <2> HIDE DEF q
  <2>4. i # n => Kept(r, q, i)
    BY <2>1, <2>3 DEF LockAndLoad, Db, Kept, Fields
  <2>5. i = n => /\ r.state[i] = "active" /\ r.lock[i] = tok
                 /\ r.processedOn[i] = Stamp(q.processedOn[i], now)
                 /\ r.attemptsMade[i] = q.attemptsMade[i]
                 /\ r.stalledCounter[i] = q.stalledCounter[i] /\ r.cancel[i] = q.cancel[i]
    BY <2>1, <2>3 DEF LockAndLoad, Db
  <2> HIDE DEF r
  <2>6. i # n => Kept(r, d, i) \/ Advanced(r, d, i)
    BY <1>1, <2>2, <2>3, <2>4 DEF Kept, Fields, Advanced
  <2>7. ASSUME i = n PROVE Granted(r, d, i, tok, now)
    <3>1. d.state[n] \in {"wait", "delayed"}
      BY <1>1, <2>1, <2>7 DEF Kept
    <3> QED
      BY <1>1, <2>2, <2>3, <2>5, <2>7, <3>1 DEF Granted, Kept, Fields, Advanced
  <2>8. r = AcquireNext(d, due, n, tok, now)
    BY <1>3 DEF AcquireNext, p, t, q, r
  <2> QED
    BY <2>6, <2>7, <2>8
<1> QED
  BY <1>2, <1>3
\* takeKey: the job goes where it was to go, or queues for its key.
LEMMA TakeKeyEffect ==
  ASSUME NEW d \in Db, NEW j \in Ids, NEW c \in Live, NEW i \in Ids
  PROVE  LET r == TakeKey(d, j, c)
         IN  IF i = j THEN Fields(r, d, i) /\ r.state[i] \in {c, "held"} ELSE Kept(r, d, i)
<1> DEFINE J == {j}  k == Ckey[j]
           e == [d EXCEPT !.ck[k] = j]
           h == [d EXCEPT !.held[k] = @ \cup {j}]
<1>0. J \in SUBSET Ids /\ (i \in J <=> i = j) /\ c \in Colls /\ "held" \in Colls
  BY Names
<1>1. k # None => e \in Db /\ h \in Db /\ Kept(e, d, i) /\ Kept(h, d, i)
  BY RedisAssumption DEF Db, Kept, Fields
<1> HIDE DEF e, h
<1>2. TakeKey(d, j, c) = IF k = None THEN Put(d, J, c)
                         ELSE IF d.ck[k] = None THEN Put(e, J, c) ELSE Put(h, J, "held")
  BY DEF TakeKey, e, h
<1> HIDE DEF J, k
<1>3. CASE k = None
  BY <1>0, <1>2, <1>3, PutEffect DEF Kept
<1>4. CASE k # None /\ d.ck[k] = None
  BY <1>0, <1>1, <1>2, <1>4, PutEffect DEF Kept, Fields
<1>5. CASE k # None /\ d.ck[k] # None
  BY <1>0, <1>1, <1>2, <1>5, PutEffect DEF Kept, Fields
<1> QED
  BY <1>3, <1>4, <1>5

\* ADD_JOB.
LEMMA AddJobEffect ==
  ASSUME NEW d \in Db, NEW j \in Ids, NEW i \in Ids
  PROVE  IF i = j THEN /\ Fields(AddJob(d, j), d, i)
                       /\ AddJob(d, j).state[i] \in {"wait", "delayed", "held"}
         ELSE Kept(AddJob(d, j), d, i)
BY TakeKeyEffect, Names DEF AddJob

\* PROMOTE_JOB.
LEMMA PromoteJobEffect ==
  ASSUME NEW d \in Db, NEW j \in Ids, NEW i \in Ids
  PROVE  IF i = j THEN Fields(PromoteJob(d, j), d, i) /\ PromoteJob(d, j).state[i] = "wait"
         ELSE Kept(PromoteJob(d, j), d, i)
<1> DEFINE t == Take(d, {j}, "delayed")
<1>1. t \in Db /\ Kept(t, d, i)
  <2>1. t \in Db
    BY DEF Take, Db
  <2> QED
    BY <2>1, TakeEffect
<1> HIDE DEF t
<1>2. {j} \in SUBSET Ids /\ (i \in {j} <=> i = j)
  OBVIOUS
<1> QED
  BY <1>1, <1>2, PutEffect, Names DEF PromoteJob, Kept, Fields, t

\* RETRY_JOB.
LEMMA RetryJobEffect ==
  ASSUME NEW d \in Db, NEW j \in Ids, NEW i \in Ids
  PROVE  LET r == RetryJob(d, j)
         IN  IF i = j
             THEN /\ r.state[i] \in {"wait", "held"} /\ r.stalledCounter[i] = 0
                  /\ r.attemptsMade[i] = d.attemptsMade[i]
                  /\ r.processedOn[i] = d.processedOn[i] /\ r.lock[i] = d.lock[i]
             ELSE Kept(r, d, i)
<1> DEFINE t == Take(d, {j}, "failed")
           u == [t EXCEPT !.cancel[j] = FALSE, !.stalledCounter[j] = 0]
<1>1. t \in Db /\ Kept(t, d, i)
  <2>1. t \in Db
    BY DEF Take, Db
  <2> QED
    BY <2>1, TakeEffect
<1> HIDE DEF t
<1>2. /\ u \in Db /\ (i # j => Kept(u, t, i))
      /\ u.stalledCounter[j] = 0 /\ u.attemptsMade = t.attemptsMade
      /\ u.processedOn = t.processedOn /\ u.lock = t.lock
  BY <1>1 DEF Db, Kept, Fields
<1> HIDE DEF u
<1>3. LET r == TakeKey(u, j, "wait")
      IN  IF i = j THEN Fields(r, u, i) /\ r.state[i] \in {"wait", "held"} ELSE Kept(r, u, i)
  BY <1>2, TakeKeyEffect, Names
<1>4. RetryJob(d, j) = TakeKey(u, j, "wait")
  BY DEF RetryJob, t, u
<1> QED
  BY <1>1, <1>2, <1>3, <1>4 DEF Kept, Fields

\* REMOVE_JOB.
LEMMA RemoveJobEffect ==
  ASSUME NEW d, Sound(d), NEW j \in Ids, Exists(d, j), NEW x \in Choices(d, {j}, "failed"),
         NEW i \in Ids
  PROVE  IF i = j THEN Gone(RemoveJob(d, j, x), i) ELSE Bystander(RemoveJob(d, j, x), d, i)
<1> DEFINE t == Take(d, {j}, d.state[j])
           u == Unkey(t, j, x.heir, x.late)
<1>1. d \in Db /\ d.state[j] \in Colls /\ "failed" \in Finished
  BY DEF Sound, Good, Db, Exists, Finished
<1>2. /\ Good(t, {j}, {}) /\ t.state = d.state /\ t.lock = d.lock /\ t.ck = d.ck
      /\ t.held = d.held
  BY <1>1, TakeOne
<1>3. Kept(t, d, i)
  BY <1>1, TakeEffect
<1> HIDE DEF t
<1>4. HandOK(d, {j}, x.heir)
  BY <1>1, ChoicesOK, Names
<1>5. HandOK(t, {j}, x.heir)
  BY <1>2, <1>4, HandMoves
<1>6. /\ Good(u, {j}, {j})
      /\ IF i = j THEN Kept(u, t, i) ELSE Kept(u, t, i) \/ Advanced(u, t, i)
  BY <1>2, <1>5, UnkeyGood, UnkeyEffect
<1> HIDE DEF u
<1>7. IF i = j THEN Gone(DelJobs(u, {j}), i) ELSE Kept(DelJobs(u, {j}), u, i)
  <2>1. u \in Db /\ {j} \in SUBSET Ids /\ (i \in {j} <=> i = j)
    BY <1>6 DEF Good
  <2> QED
    BY <2>1, DelEffect
<1>8. RemoveJob(d, j, x) = DelJobs(u, {j})
  BY DEF RemoveJob, t, u
<1> QED
  BY <1>3, <1>6, <1>7, <1>8 DEF Bystander, Kept, Advanced, Fields

\* Asked to stop, and nothing else.
Flagged(r, d, i) ==
    /\ r.state[i] = d.state[i] /\ r.attemptsMade[i] = d.attemptsMade[i]
    /\ r.stalledCounter[i] = d.stalledCounter[i]
    /\ r.processedOn[i] = d.processedOn[i] /\ r.lock[i] = d.lock[i] /\ r.cancel[i] = TRUE

\* CANCEL_JOB, of a running job: the flag.
LEMMA CancelRunningEffect ==
  ASSUME NEW d \in Db, NEW j \in Ids, d.state[j] = "active", NEW x, NEW i \in Ids
  PROVE  IF i = j THEN Flagged(CancelJob(d, j, x), d, i) ELSE Kept(CancelJob(d, j, x), d, i)
BY DEF CancelJob, Db, Flagged, Kept, Fields

\* CANCEL_JOB, of a job nobody runs.
LEMMA CancelWaitingEffect ==
  ASSUME NEW d, Sound(d), NEW j \in Ids, Exists(d, j), d.state[j] \notin Finished,
         d.state[j] # "active", NEW x \in Choices(d, {j}, "cancelled"), NEW i \in Ids
  PROVE  LET r == CancelJob(d, j, x)
         IN  IF i = j THEN Ended(r, d, i, "cancelled") ELSE Bystander(r, d, i)
<1> DEFINE t == Take(d, {j}, d.state[j])
           u == Unkey(t, j, x.heir, x.late)
           r == RecordFinished(u, {j}, "cancelled", x)
<1>0. d \in Db /\ d.state[j] \in Colls /\ "cancelled" \in Finished
  BY DEF Sound, Good, Db, Exists, Finished
<1>1. /\ Good(t, {j}, {}) /\ t.state = d.state /\ t.lock = d.lock /\ t.ck = d.ck
      /\ t.held = d.held /\ Kept(t, d, i)
  BY <1>0, TakeOne, TakeEffect
<1>2. \A q \in Ids : q \in t.coll["cancelled"] <=> q \in d.coll["cancelled"]
  BY <1>0, Names DEF Take, Db
<1> HIDE DEF t
<1>3. /\ HandOK(d, {j}, x.heir)
      /\ \A q \in x.trim : q \in Ids /\ (q \in d.coll["cancelled"] \/ (q \in {j} /\ Keep[q] # "none"))
  <2> DEFINE J == {j}
  <2>1. J \in SUBSET Ids /\ x \in Choices(d, J, "cancelled") /\ J = {j}
    OBVIOUS
  <2> HIDE DEF J
  <2>2. /\ HandOK(d, J, x.heir)
        /\ \A q \in x.trim : q \in Ids /\ (q \in d.coll["cancelled"] \/ (q \in J /\ Keep[q] # "none"))
    BY <1>0, <2>1, ChoicesOK, Names
  <2> QED
    BY <2>1, <2>2
<1>4. HandOK(t, {j}, x.heir)
  BY <1>1, <1>3, HandMoves
<1>5. /\ Good(u, {j}, {j}) /\ KeysOnly(u, t)
      /\ IF i = j THEN Kept(u, t, i) ELSE Kept(u, t, i) \/ Advanced(u, t, i)
  BY <1>1, <1>4, UnkeyGood, UnkeyEffect
<1> HIDE DEF u
<1>6. \A q \in x.trim : q \in Ids /\ (q \in u.coll["cancelled"] \/ (q \in {j} /\ Keep[q] # "none"))
  BY <1>0, <1>2, <1>3, <1>5 DEF KeysOnly
<1>7. HandOK(u, {j}, x.heir)
  <2>1. \A k \in Keys : u.ck[k] # j
    BY <1>5 DEF Good, KeyX
  <2>2. \A k \in Keys : k \notin Freed(u, {j})
    BY <2>1 DEF Freed
  <2> QED
    BY <1>3, <2>2 DEF HandOK, Freed
<1>8. IF i = j THEN Ended(r, u, i, "cancelled") ELSE Bystander(r, u, i)
  <2> DEFINE Y == {j}
  <2>1. Good(u, {j}, Y) /\ Y \subseteq {j} /\ j \in Y
    BY <1>5
  <2> HIDE DEF Y
  <2> QED
    BY <1>0, <1>6, <1>7, <2>1, RecordOneEffect
<1> HIDE DEF r
<1>9. r = CancelJob(d, j, x)
  BY DEF CancelJob, t, u, r
<1>10. i # j => Bystander(u, d, i)
  BY <1>1, <1>5 DEF Bystander, Kept, Advanced, Fields
<1>11. i # j => Bystander(r, d, i)
  BY <1>8, <1>10, BystanderTrans
<1>12. i = j => Ended(r, d, i, "cancelled")
  BY <1>1, <1>5, <1>8 DEF Ended, Kept, Fields
<1> QED
  BY <1>9, <1>11, <1>12

\* RELEASE_JOB.
LEMMA ReleaseJobEffect ==
  ASSUME NEW d \in Db, NEW j \in Ids, NEW i \in Ids
  PROVE  LET r == ReleaseJob(d, j)
         IN  IF i = j
             THEN /\ r.state[i] = "wait" /\ r.lock[i] = None /\ r.cancel[i] = d.cancel[i]
                  /\ r.attemptsMade[i] = d.attemptsMade[i]
                  /\ r.stalledCounter[i] = d.stalledCounter[i]
                  /\ r.processedOn[i] = d.processedOn[i]
             ELSE Kept(r, d, i)
<1> DEFINE t == Take(d, {j}, "active")
           u == [t EXCEPT !.lock[j] = None]
<1>1. t \in Db /\ Kept(t, d, i)
  <2>1. t \in Db
    BY DEF Take, Db
  <2> QED
    BY <2>1, TakeEffect
<1> HIDE DEF t
<1>2. /\ u \in Db /\ (i # j => Kept(u, t, i)) /\ u.lock[j] = None
      /\ u.stalledCounter = t.stalledCounter /\ u.attemptsMade = t.attemptsMade
      /\ u.processedOn = t.processedOn /\ u.cancel = t.cancel
  BY <1>1 DEF Db, Kept, Fields
<1> HIDE DEF u
<1>3. {j} \in SUBSET Ids /\ (i \in {j} <=> i = j)
  OBVIOUS
<1>4. /\ Fields(Put(u, {j}, "wait"), u, i)
      /\ Put(u, {j}, "wait").state[i] = IF i = j THEN "wait" ELSE u.state[i]
  BY <1>2, <1>3, PutEffect, Names
<1>5. ReleaseJob(d, j) = Put(u, {j}, "wait")
  BY DEF ReleaseJob, t, u
<1> QED
  BY <1>1, <1>2, <1>4, <1>5 DEF Kept, Fields

\* A stalled job is back in the queue with a stall more, or failed for good.
Swept(r, d, i) ==
    \/ Gone(r, i)
    \/ /\ r.lock[i] = None /\ r.cancel[i] = d.cancel[i]
       /\ r.attemptsMade[i] = d.attemptsMade[i] /\ r.processedOn[i] = d.processedOn[i]
       /\ \/ r.state[i] = "failed"
          \/ r.state[i] = "wait" /\ r.stalledCounter[i] <= MaxStalled

\* MOVE_STALLED.
LEMMA MoveStalledEffect ==
  ASSUME NEW d, Sound(d), NEW x \in Choices(d, Exhausted(d), "failed"), NEW i \in Ids
  PROVE  IF i \in Stalling(d)
         THEN d.state[i] = "active" /\ d.lock[i] = None /\ Swept(MoveStalled(d, x), d, i)
         ELSE Bystander(MoveStalled(d, x), d, i)
<1> DEFINE S == Stalling(d)
           F == Exhausted(d)
           t == Take(d, S, "active")
           count == [j \in Ids |-> IF j \in S THEN d.stalledCounter[j] + 1
                                              ELSE d.stalledCounter[j]]
           taken == [t EXCEPT !.stalledCounter = count]
           rec == RecordFinished(taken, F, "failed", x)
           swept == Put(rec, S \ F, "wait")
           r == [swept EXCEPT !.stalled = swept.coll["active"]]
<1>0. d \in Db /\ S \in SUBSET Ids /\ F \in SUBSET Ids /\ F \subseteq S /\ "failed" \in Finished
  BY DEF Sound, Good, Db, Stalling, Exhausted, Finished
<1>1. \A j \in S : d.state[j] = "active" /\ d.lock[j] = None
  BY <1>0, Names DEF Sound, Good, HomeX, Stalling
<1>r. r = MoveStalled(d, x)
  BY DEF MoveStalled
<1>e. i \in S /\ i \notin F => d.stalledCounter[i] + 1 <= MaxStalled
  BY <1>0, RedisAssumption DEF Exhausted, Db
<1>2. /\ HandOK(d, F, x.heir)
      /\ \A q \in x.trim : q \in Ids /\ (q \in d.coll["failed"] \/ (q \in F /\ Keep[q] # "none"))
  BY <1>0, ChoicesOK, Names
<1>s. S = Stalling(d)
  OBVIOUS
<1> HIDE DEF S, F
<1>3. /\ Good(t, S, {}) /\ t.state = d.state /\ t.lock = d.lock /\ t.ck = d.ck /\ t.held = d.held
      /\ Kept(t, d, i)
  <2> DEFINE E == {}
  <2>1. Good(d, E, {}) /\ E \cup S = S /\ "active" \in Colls
    BY Names DEF Sound
  <2> HIDE DEF E
  <2>2. /\ Good(t, E \cup S, {}) /\ t.state = d.state /\ t.lock = d.lock /\ t.ck = d.ck
        /\ t.held = d.held
    BY <1>0, <1>1, <2>1, TakeGood
  <2>3. Kept(t, d, i)
    BY <1>0, TakeEffect
  <2> QED
    BY <2>1, <2>2, <2>3
<1>4. \A q \in Ids : q \in t.coll["failed"] <=> q \in d.coll["failed"]
  BY <1>0, Names DEF Take, Db
<1>c. count \in [Ids -> Nat] /\ count[i] = IF i \in S THEN d.stalledCounter[i] + 1
                                           ELSE d.stalledCounter[i]
  BY <1>0 DEF Db
<1> HIDE DEF t, count
<1>5. /\ taken \in Db /\ taken.coll = t.coll /\ taken.state = t.state /\ taken.ck = t.ck
      /\ taken.held = t.held /\ taken.lock = t.lock /\ taken.stalledCounter = count
      /\ taken.attemptsMade = t.attemptsMade /\ taken.processedOn = t.processedOn
      /\ taken.cancel = t.cancel
  BY <1>c, <1>3 DEF Good, Db
<1> HIDE DEF taken
<1>6. Good(taken, S, {})
  BY <1>3, <1>5, OtherGood
<1>7. /\ Good(rec, S \ F, {})
      /\ IF i \in F THEN Ended(rec, taken, i, "failed")
         ELSE Bystander(rec, taken, i) /\ (i \in S => Kept(rec, taken, i))
  <2>1. HandOK(taken, F, x.heir)
    BY <1>2, <1>3, <1>5, HandMoves
  <2>2. \A q \in x.trim : q \in Ids /\ (q \in taken.coll["failed"] \/ (q \in F /\ Keep[q] # "none"))
    BY <1>2, <1>4, <1>5
  <2> DEFINE E == {}
  <2>3. /\ Good(taken, S, E) /\ E \subseteq F
        /\ \A j \in F : taken.lock[j] = None
        /\ \A j \in Ids : j \in S \cup F => taken.state[j] # "held" \/ j \in E
        /\ \A j \in Ids : j \in S => taken.state[j] # "held" \/ j \in E
    BY <1>0, <1>1, <1>3, <1>5, <1>6
  <2> HIDE DEF E
  <2>4. Good(rec, S \ F, {})
    BY <1>0, <2>1, <2>2, <2>3, RecordFinishedGood
  <2>5. IF i \in F THEN Ended(rec, taken, i, "failed")
        ELSE Bystander(rec, taken, i) /\ (i \in S => Kept(rec, taken, i))
    BY <1>0, <2>1, <2>2, <2>3, RecordFinishedEffect
  <2> QED
    BY <2>4, <2>5
<1> HIDE DEF rec
<1>8. /\ swept \in Db /\ Fields(swept, rec, i)
      /\ swept.state[i] = IF i \in S \ F THEN "wait" ELSE rec.state[i]
  <2>1. S \ F \in SUBSET Ids /\ rec \in Db
    BY <1>0, <1>7 DEF Good
  <2> QED
    BY <2>1, PutType, PutEffect, Names
<1> HIDE DEF swept
<1>9. Kept(r, swept, i)
  BY <1>8 DEF Db, Kept, Fields
<1> HIDE DEF r
<1>10. CASE i \in F
  <2>1. i \in S
    BY <1>0, <1>10
  <2>2. "failed" # "cancelled" /\ taken.cancel[i] \in BOOLEAN
    BY <1>5 DEF Db
  <2>3. Swept(r, d, i)
    BY <1>1, <1>3, <1>5, <1>7, <1>8, <1>9, <1>10, <2>1, <2>2 DEF Swept, Ended, Kept, Fields, Gone
  <2> QED
    BY <1>1, <1>s, <1>r, <2>1, <2>3
<1>11. CASE i \in S /\ i \notin F
  <2>1. Swept(r, d, i)
    BY <1>1, <1>e, <1>3, <1>c, <1>5, <1>7, <1>8, <1>9, <1>11 DEF Swept, Kept, Fields
  <2> QED
    BY <1>1, <1>s, <1>r, <1>11, <2>1
<1>12. CASE i \notin S
  <2>1. Kept(taken, d, i)
    BY <1>3, <1>5, <1>c, <1>12 DEF Kept, Fields
  <2>2. i \notin F
    BY <1>0, <1>12
  <2>3. Kept(r, rec, i)
    BY <1>8, <1>9, <1>12 DEF Kept, Fields
  <2>4. Bystander(taken, d, i) /\ Bystander(rec, taken, i) /\ Bystander(r, rec, i)
    BY <1>7, <2>1, <2>2, <2>3 DEF Bystander
  <2>5. Bystander(r, d, i)
    BY <2>4, BystanderTrans
  <2> QED
    BY <1>s, <1>r, <1>12, <2>5
<1> QED
  BY <1>10, <1>11, <1>12

-----------------------------------------------------------------------------
(* The finish memos.  Only a finish writes one: every other script leaves   *)
(* them alone, whatever it does to the jobs.                                *)

SameMemos(r, d) == r \in Db /\ r.fin = d.fin

\* What the primitives do.
LEMMA PartMemos ==
  ASSUME NEW d \in Db, NEW J \in SUBSET Ids
  PROVE  /\ \A c \in Colls : SameMemos(Put(d, J, c), d) /\ SameMemos(Take(d, J, c), d)
         /\ SameMemos(DelJobs(d, J), d)
BY DEF Put, Take, DelJobs, SameMemos, Db

\* releaseKey.
LEMMA ReleaseKeysMemos ==
  ASSUME NEW d \in Db, NEW J, NEW heir \in [Keys -> Ids \cup {None}], NEW late
  PROVE  SameMemos(ReleaseKeys(d, J, heir, late), d)
<1> DEFINE freed == Freed(d, J)
           H == {h \in Ids : \E k \in freed : heir[k] = h}
           handed == [d EXCEPT
             !.ck = [k \in Keys |-> IF k \in freed THEN heir[k] ELSE d.ck[k]],
             !.held = [k \in Keys |->
                        IF k \notin freed THEN d.held[k]
                        ELSE IF heir[k] = None THEN {} ELSE d.held[k] \ {heir[k]}]]
           t == Take(handed, H, "held")
           p == Put(t, H \ late, "wait")
           r == Put(p, H \cap late, "delayed")
<1>1. SameMemos(handed, d)
  <2> HIDE DEF freed
  <2> QED BY DEF SameMemos, Db
<1>2. r = ReleaseKeys(d, J, heir, late)
  BY DEF ReleaseKeys
<1>3. H \in SUBSET Ids /\ H \ late \in SUBSET Ids /\ H \cap late \in SUBSET Ids
  OBVIOUS
<1> HIDE DEF handed, H
<1>4. SameMemos(t, handed)
  BY <1>1, <1>3, PartMemos, Names DEF SameMemos
<1> HIDE DEF t
<1>5. SameMemos(p, t)
  BY <1>3, <1>4, PartMemos, Names DEF SameMemos
<1> HIDE DEF p
<1>6. SameMemos(r, p)
  BY <1>3, <1>5, PartMemos, Names DEF SameMemos
<1> HIDE DEF r
<1> QED
  BY <1>1, <1>2, <1>4, <1>5, <1>6 DEF SameMemos

\* recordFinished.
LEMMA RecordFinishedMemos ==
  ASSUME NEW d \in Db, NEW J \in SUBSET Ids, NEW c \in Finished, NEW x,
         x.heir \in [Keys -> Ids \cup {None}], x.trim \in SUBSET Ids
  PROVE  SameMemos(RecordFinished(d, J, c, x), d)
<1> DEFINE released == ReleaseKeys(d, J, x.heir, x.late)
           dropped  == {j \in J : Keep[j] = "none"}
           kept     == J \ dropped
           cleared  == DelJobs(released, dropped)
           recorded == Put(cleared, kept, c)
           flagged  == [recorded EXCEPT !.cancel =
                          [j \in Ids |-> recorded.cancel[j] \/ (c = "cancelled" /\ j \in kept)]]
           taken    == Take(flagged, x.trim, c)
           r        == DelJobs(taken, x.trim)
<1>1. r = RecordFinished(d, J, c, x)
  BY DEF RecordFinished
<1>2. SameMemos(released, d)
  BY ReleaseKeysMemos
<1>3. dropped \in SUBSET Ids /\ kept \in SUBSET Ids /\ c \in Colls
  BY Names
<1> HIDE DEF released, dropped, kept
<1>4. SameMemos(cleared, released)
  BY <1>2, <1>3, PartMemos DEF SameMemos
<1> HIDE DEF cleared
<1>5. SameMemos(recorded, cleared)
  BY <1>3, <1>4, PartMemos DEF SameMemos
<1> HIDE DEF recorded
<1>6. SameMemos(flagged, recorded)
  BY <1>5 DEF SameMemos, Db
<1> HIDE DEF flagged
<1>7. SameMemos(taken, flagged)
  BY <1>3, <1>6, PartMemos DEF SameMemos
<1> HIDE DEF taken
<1>8. SameMemos(r, taken)
  BY <1>7, PartMemos DEF SameMemos
<1> HIDE DEF r
<1> QED
  BY <1>1, <1>2, <1>4, <1>5, <1>6, <1>7, <1>8 DEF SameMemos

\* unkey.
LEMMA UnkeyMemos ==
  ASSUME NEW d \in Db, NEW j \in Ids, NEW heir \in [Keys -> Ids \cup {None}], NEW late
  PROVE  SameMemos(Unkey(d, j, heir, late), d)
<1>1. CASE Ckey[j] # None /\ d.state[j] = "held"
  <2>1. Ckey[j] \in Keys
    BY <1>1, RedisAssumption
  <2> QED
    BY <1>1, <2>1 DEF Unkey, SameMemos, Db
<1> QED
  BY <1>1, ReleaseKeysMemos DEF Unkey, SameMemos

\* What Choices offers a script has the types it needs.
LEMMA ChoiceTypes ==
  ASSUME NEW d \in Db, NEW J \in SUBSET Ids, NEW c \in Colls, NEW x \in Choices(d, J, c)
  PROVE  x.heir \in [Keys -> Ids \cup {None}] /\ x.trim \in SUBSET Ids
BY DEF Choices, HandOvers, Trims, Db

\* A finish that commits, before it remembers.
LEMMA CommitMemos ==
  ASSUME NEW d \in Db, NEW kind \in Finished, NEW j \in Ids, NEW x \in Choices(d, {j}, kind)
  PROVE  SameMemos(Commit(d, kind, j, x), d)
<1> DEFINE e == CountRun(ReleaseRun(d, j), j)
           J == {j}
<1>0. x \in Choices(d, J, kind) /\ J \in SUBSET Ids /\ kind \in Colls
  BY Names
<1>1. x.heir \in [Keys -> Ids \cup {None}] /\ x.trim \in SUBSET Ids
  <2> HIDE DEF J
  <2> QED BY <1>0, ChoiceTypes
<1>2. SameMemos(e, d)
  <2> DEFINE u == [d EXCEPT !.lock[j] = None]
             t == Take(u, J, "active")
  <2>1. e = [t EXCEPT !.attemptsMade[j] = @ + 1] /\ SameMemos(u, d)
    BY DEF CountRun, ReleaseRun, SameMemos, Db
  <2> HIDE DEF e, u, J
  <2>2. SameMemos(t, u)
    BY <1>0, <2>1, PartMemos, Names DEF SameMemos
  <2> HIDE DEF t
  <2>3. t \in Db /\ t.attemptsMade[j] + 1 \in Nat
    BY <2>2 DEF SameMemos, Db
  <2>4. e \in Db
    BY <2>1, <2>3 DEF Db
  <2>5. e.fin = t.fin
    BY <2>1, <2>3 DEF Db
  <2> QED
    BY <2>1, <2>2, <2>4, <2>5 DEF SameMemos
<1>3. \/ Commit(d, kind, j, x) = Put(e, J, "delayed")
      \/ Commit(d, kind, j, x) = Put(e, J, "wait")
      \/ Commit(d, kind, j, x) = RecordFinished(e, J, kind, x)
  <2> HIDE DEF e
  <2> QED BY DEF Commit, CommitFailed, CommitFinish, e
<1> HIDE DEF e, J
<1>4. /\ SameMemos(Put(e, J, "delayed"), e) /\ SameMemos(Put(e, J, "wait"), e)
  BY <1>0, <1>2, PartMemos, Names DEF SameMemos
<1>5. SameMemos(RecordFinished(e, J, kind, x), e)
  BY <1>0, <1>1, <1>2, RecordFinishedMemos DEF SameMemos
<1> QED
  BY <1>2, <1>3, <1>4, <1>5 DEF SameMemos

\* acquireNext.
LEMMA AcquireNextMemos ==
  ASSUME NEW d \in Db, NEW due \in SUBSET Ids, NEW n \in Ids \cup {None}, NEW tok \in Tokens,
         NEW now \in Nat
  PROVE  SameMemos(AcquireNext(d, due, n, tok, now), d)
<1> DEFINE t == Take(d, due, "delayed")
           p == Put(t, {j \in due : Exists(d, j)}, "wait")
           u == Take(p, {n}, "wait")
           q == Put(u, {n}, "active")
<1>1. SameMemos(t, d) /\ {j \in due : Exists(d, j)} \in SUBSET Ids
  BY PartMemos, Names
<1>2. AcquireNext(d, due, n, tok, now) = IF n = None THEN p ELSE LockAndLoad(q, n, tok, now)
  BY DEF AcquireNext, PromoteDue
<1> HIDE DEF t
<1>3. SameMemos(p, t)
  BY <1>1, PartMemos, Names DEF SameMemos
<1> HIDE DEF p
<1>4. CASE n \in Ids
  <2>1. {n} \in SUBSET Ids
    BY <1>4
  <2>2. SameMemos(u, p)
    BY <1>3, <2>1, PartMemos, Names DEF SameMemos
  <2> HIDE DEF u
  <2>3. SameMemos(q, u)
    BY <2>1, <2>2, PartMemos, Names DEF SameMemos
  <2> HIDE DEF q
  <2>4. Stamp(q.processedOn[n], now) \in Nat
    BY <1>4, <2>3 DEF SameMemos, Db, Stamp
  <2>5. SameMemos(LockAndLoad(q, n, tok, now), q)
    BY <1>4, <2>3, <2>4, Names DEF SameMemos, LockAndLoad, Db
  <2> QED
    BY <1>1, <1>2, <1>3, <1>4, <2>2, <2>3, <2>5, Names DEF SameMemos
<1> QED
  BY <1>1, <1>2, <1>3, <1>4 DEF SameMemos

\* takeKey.
LEMMA TakeKeyMemos ==
  ASSUME NEW d \in Db, NEW j \in Ids, NEW c \in Live
  PROVE  SameMemos(TakeKey(d, j, c), d)
<1> DEFINE k == Ckey[j]
           J == {j}
           e == [d EXCEPT !.ck[k] = j]
           h == [d EXCEPT !.held[k] = @ \cup {j}]
<1>1. k # None => SameMemos(e, d) /\ SameMemos(h, d)
  BY RedisAssumption DEF SameMemos, Db
<1>2. TakeKey(d, j, c) = IF k = None THEN Put(d, J, c)
                         ELSE IF d.ck[k] = None THEN Put(e, J, c) ELSE Put(h, J, "held")
  BY DEF TakeKey
<1>3. J \in SUBSET Ids /\ c \in Colls /\ "held" \in Colls
  BY Names
<1> HIDE DEF e, h, J, k
<1>4. CASE k = None
  BY <1>2, <1>3, <1>4, PartMemos
<1>5. CASE k # None
  <2>1. SameMemos(Put(e, J, c), e) /\ SameMemos(Put(h, J, "held"), h)
    BY <1>1, <1>3, <1>5, PartMemos DEF SameMemos
  <2> QED
    BY <1>1, <1>2, <1>5, <2>1 DEF SameMemos
<1> QED
  BY <1>4, <1>5

\* The scripts of producers and operators.
LEMMA OperatorMemos ==
  ASSUME NEW d \in Db, NEW j \in Ids
  PROVE  /\ SameMemos(AddJob(d, j), d) /\ SameMemos(PromoteJob(d, j), d)
         /\ SameMemos(RetryJob(d, j), d)
<1> DEFINE J == {j}
<1>0. J \in SUBSET Ids /\ "delayed" \in Colls /\ "wait" \in Colls /\ "failed" \in Colls
  BY Names DEF Finished
<1>1. SameMemos(AddJob(d, j), d)
  BY TakeKeyMemos, Names DEF AddJob
<1>2. SameMemos(PromoteJob(d, j), d)
  <2> DEFINE t == Take(d, J, "delayed")
  <2>1. PromoteJob(d, j) = Put(t, J, "wait")
    BY DEF PromoteJob
  <2> HIDE DEF J
  <2>2. SameMemos(t, d)
    BY <1>0, PartMemos
  <2> HIDE DEF t
  <2>3. SameMemos(Put(t, J, "wait"), t)
    BY <1>0, <2>2, PartMemos DEF SameMemos
  <2> QED
    BY <2>1, <2>2, <2>3 DEF SameMemos
<1>3. SameMemos(RetryJob(d, j), d)
  <2> DEFINE t == Take(d, J, "failed")
             u == [t EXCEPT !.cancel[j] = FALSE, !.stalledCounter[j] = 0]
  <2>1. RetryJob(d, j) = TakeKey(u, j, "wait")
    BY DEF RetryJob
  <2> HIDE DEF J
  <2>2. SameMemos(t, d)
    BY <1>0, PartMemos
  <2> HIDE DEF t
  <2>3. SameMemos(u, t)
    BY <2>2 DEF SameMemos, Db
  <2> HIDE DEF u
  <2> QED
    BY <2>1, <2>2, <2>3, TakeKeyMemos, Names DEF SameMemos
<1> QED
  BY <1>1, <1>2, <1>3

\* REMOVE_JOB and CANCEL_JOB.
LEMMA RemoveMemos ==
  ASSUME NEW d \in Db, NEW j \in Ids, Exists(d, j), NEW c \in Finished,
         NEW x \in Choices(d, {j}, c)
  PROVE  SameMemos(RemoveJob(d, j, x), d) /\ SameMemos(CancelJob(d, j, x), d)
<1> DEFINE J == {j}
           t == Take(d, J, d.state[j])
           u == Unkey(t, j, x.heir, x.late)
<1>c. x \in Choices(d, J, c) /\ J \in SUBSET Ids /\ c \in Colls
  BY Names
<1>0. /\ x.heir \in [Keys -> Ids \cup {None}] /\ x.trim \in SUBSET Ids /\ J \in SUBSET Ids
      /\ d.state[j] \in Colls /\ "cancelled" \in Finished
  <2> HIDE DEF J
  <2> QED BY <1>c, ChoiceTypes DEF Db, Exists, Finished
<1>1. /\ RemoveJob(d, j, x) = DelJobs(u, J)
      /\ CancelJob(d, j, x) = IF d.state[j] = "active" THEN [d EXCEPT !.cancel[j] = TRUE]
                              ELSE RecordFinished(u, J, "cancelled", x)
  BY DEF RemoveJob, CancelJob
<1>2. SameMemos([d EXCEPT !.cancel[j] = TRUE], d)
  BY DEF SameMemos, Db
<1> HIDE DEF J
<1>3. SameMemos(t, d)
  BY <1>0, PartMemos
<1> HIDE DEF t
<1>4. SameMemos(u, t)
  BY <1>0, <1>3, UnkeyMemos DEF SameMemos
<1> HIDE DEF u
<1>5. SameMemos(DelJobs(u, J), u) /\ SameMemos(RecordFinished(u, J, "cancelled", x), u)
  BY <1>0, <1>4, PartMemos, RecordFinishedMemos DEF SameMemos
<1> QED
  BY <1>1, <1>2, <1>3, <1>4, <1>5 DEF SameMemos

\* RELEASE_JOB.
LEMMA ReleaseJobMemos ==
  ASSUME NEW d \in Db, NEW j \in Ids
  PROVE  SameMemos(ReleaseJob(d, j), d)
<1> DEFINE J == {j}
           t == Take(d, J, "active")
           u == [t EXCEPT !.lock[j] = None]
<1>0. J \in SUBSET Ids /\ ReleaseJob(d, j) = Put(u, J, "wait")
  BY DEF ReleaseJob
<1> HIDE DEF J
<1>1. SameMemos(t, d)
  BY <1>0, PartMemos, Names
<1> HIDE DEF t
<1>2. SameMemos(u, t)
  BY <1>1 DEF SameMemos, Db
<1> HIDE DEF u
<1> QED
  BY <1>0, <1>1, <1>2, PartMemos, Names DEF SameMemos

\* MOVE_STALLED.
LEMMA MoveStalledMemos ==
  ASSUME NEW d \in Db, NEW x \in Choices(d, Exhausted(d), "failed")
  PROVE  SameMemos(MoveStalled(d, x), d)
<1> DEFINE S == Stalling(d)
           F == Exhausted(d)
           t == Take(d, S, "active")
           count == [j \in Ids |-> IF j \in S THEN d.stalledCounter[j] + 1
                                              ELSE d.stalledCounter[j]]
           taken == [t EXCEPT !.stalledCounter = count]
           rec == RecordFinished(taken, F, "failed", x)
           swept == Put(rec, S \ F, "wait")
           r == [swept EXCEPT !.stalled = swept.coll["active"]]
<1>0. S \in SUBSET Ids /\ F \in SUBSET Ids /\ S \ F \in SUBSET Ids /\ "failed" \in Finished
  BY DEF Stalling, Exhausted, Db, Finished
<1>1. x.heir \in [Keys -> Ids \cup {None}] /\ x.trim \in SUBSET Ids
  <2> HIDE DEF F
  <2>1. x \in Choices(d, F, "failed")
    BY DEF F
  <2> QED BY <1>0, <2>1, ChoiceTypes, Names
<1>r. r = MoveStalled(d, x)
  BY DEF MoveStalled
<1> HIDE DEF S, F
<1>2. SameMemos(t, d)
  BY <1>0, PartMemos, Names
<1>c. count \in [Ids -> Nat]
  BY DEF Db
<1> HIDE DEF t, count
<1>3. SameMemos(taken, t)
  BY <1>2, <1>c DEF SameMemos, Db
<1> HIDE DEF taken
<1>4. SameMemos(rec, taken)
  BY <1>0, <1>1, <1>3, RecordFinishedMemos DEF SameMemos
<1> HIDE DEF rec
<1>5. SameMemos(swept, rec)
  BY <1>0, <1>4, PartMemos, Names DEF SameMemos
<1> HIDE DEF swept
<1>6. SameMemos(r, swept)
  BY <1>5, Names DEF SameMemos, Db
<1> HIDE DEF r
<1> QED
  BY <1>r, <1>2, <1>3, <1>4, <1>5, <1>6 DEF SameMemos
=============================================================================

------------------------ MODULE OptimisticLockProofs ------------------------
(***************************************************************************)
(* No lost updates through the version column, for any number of clients,  *)
(* writes and versions.                                                    *)
(***************************************************************************)
EXTENDS OptimisticLock, TLAPS

IInv ==
    /\ TypeOK
    /\ GenNumbered
    /\ WorkFollowsRow
    /\ NotAhead
    /\ VersionMeansCurrent
    /\ NoLostUpdate

\* What a client sees is a record.
LEMMA SeenType == ASSUME TypeOK, NEW c \in Client PROVE Seen(c) \in Row
  BY DEF TypeOK, Seen

\* The initial state satisfies the inductive invariant.
LEMMA InitIInv == Init => IInv
  BY OptimisticLockAssumption
  DEF Init, IInv, TypeOK, GenNumbered, WorkFollowsRow, NotAhead, VersionMeansCurrent,
      NoLostUpdate, Synced, Seen, Absent, NoBean, Row, Bean, Kind, Entry

\* A write of the version column's protocol: c leaves the record as r, with a new
\* number, a larger version, and a bean that shows it.
LEMMA NewWrite ==
  ASSUME IInv, NEW c \in Client, NEW r \in Row, NEW k \in Kind, NEW v \in Nat,
         lastGen < MaxGen, lastGen' = lastGen + 1,
         r.st = "live", r.gen = lastGen + 1,
         Seen(c).st # "none" => Seen(c).ver < r.ver,
         k = "synced" => v = r.ver,
         Put(c, r), inTx' = inTx,
         bean' = [bean EXCEPT ![c] = [kind |-> k, ver |-> v, gen |-> lastGen + 1]],
         \/ log' = log
         \/ \E b \in Kind, g, p \in Nat :
               /\ log' = log \cup {[kind |-> b, base |-> g, prev |-> p]}
               /\ b = "synced" => g = p
  PROVE  IInv'
<1> USE OptimisticLockAssumption
<1>1. Seen(c) \in Row
  BY SeenType DEF IInv
<1>2. TypeOK'
  <2>1. row' \in Row /\ work' \in Row /\ lock' \in Client \cup {NoClient}
    BY DEF IInv, TypeOK, Put
  <2>2. inTx' \in [Client -> BOOLEAN]
    BY DEF IInv, TypeOK
  <2>3. bean' \in [Client -> Bean]
    BY DEF IInv, TypeOK, Bean
  <2>4. lastGen' \in 0..MaxGen
    BY DEF IInv, TypeOK
  <2>5. log' \subseteq Entry
    BY DEF IInv, TypeOK, Entry
  <2> QED
    BY <2>1, <2>2, <2>3, <2>4, <2>5 DEF TypeOK
<1>3. GenNumbered'
  BY <1>1 DEF IInv, TypeOK, GenNumbered, Put, Row
<1>4. WorkFollowsRow'
  BY <1>1 DEF IInv, TypeOK, GenNumbered, WorkFollowsRow, Put, Seen, Row
<1>5. ASSUME NEW d \in Client, Synced(d)'
      PROVE  /\ Seen(d)'.st # "none"
             /\ bean'[d].ver <= Seen(d)'.ver /\ bean'[d].gen <= Seen(d)'.gen
             /\ bean'[d].ver = Seen(d)'.ver <=> bean'[d].gen = Seen(d)'.gen
  <2>1. CASE d = c
    <3>1. bean'[c] = [kind |-> k, ver |-> v, gen |-> lastGen + 1]
      BY DEF IInv, TypeOK
    <3>2. Seen(c)' = r
      BY DEF Put, Seen, IInv, WorkFollowsRow, TypeOK
    <3> QED
      BY <1>5, <2>1, <3>1, <3>2 DEF Synced, Row, IInv, TypeOK
  <2>2. CASE d # c
    <3>1. bean'[d] = bean[d] /\ bean[d] \in Bean
      BY <2>2 DEF IInv, TypeOK
    <3>2. Synced(d) /\ Seen(d) = row
      BY <1>5, <2>2, <3>1 DEF Synced, Seen, Put
    <3>3. /\ row.st # "none" /\ bean[d].ver <= row.ver /\ bean[d].gen <= row.gen
          /\ bean[d].ver = row.ver <=> bean[d].gen = row.gen
      BY <3>2 DEF IInv, NotAhead, VersionMeansCurrent
    <3>4. CASE inTx[c]
      BY <2>2, <3>1, <3>3, <3>4 DEF Put, Seen
    <3>5. CASE ~inTx[c]
      <4>1. Seen(c) = row /\ Seen(d)' = r
        BY <2>2, <3>5 DEF Put, Seen, IInv, WorkFollowsRow, TypeOK
      <4> QED
        BY <1>1, <3>1, <3>3, <4>1 DEF IInv, TypeOK, GenNumbered, Row, Bean
    <3> QED
      BY <3>4, <3>5
  <2> QED
    BY <2>1, <2>2
<1>6. NotAhead' /\ VersionMeansCurrent'
  BY <1>5 DEF NotAhead, VersionMeansCurrent
<1>7. NoLostUpdate'
  BY DEF IInv, NoLostUpdate
<1> QED
  BY <1>2, <1>3, <1>4, <1>6, <1>7 DEF IInv

\* A write that leaves version and number alone, by NoVersionCheck or Delete.
LEMMA OtherWrite ==
  ASSUME IInv, NEW c \in Client, NEW st \in {"live", "gone"},
         Seen(c).st = "live",
         Put(c, [Seen(c) EXCEPT !.st = st]), UNCHANGED <<inTx, bean, lastGen, log>>
  PROVE  IInv'
<1> USE OptimisticLockAssumption
<1>1. Seen(c) \in Row
  BY SeenType DEF IInv
<1> DEFINE r == [Seen(c) EXCEPT !.st = st]
<1>2. r \in Row /\ r.st = st /\ r.ver = Seen(c).ver /\ r.gen = Seen(c).gen
  BY <1>1 DEF Row
<1>3. Put(c, r)
  OBVIOUS
<1> HIDE DEF r
<1>4. TypeOK'
  BY <1>2, <1>3 DEF IInv, TypeOK, Put
<1>5. Seen(c).gen <= lastGen /\ 0 < Seen(c).gen
  BY <1>1 DEF IInv, TypeOK, GenNumbered, WorkFollowsRow, Seen, Row
<1>6. GenNumbered'
  BY <1>1, <1>2, <1>3, <1>5 DEF IInv, TypeOK, GenNumbered, Put, Row
<1>7. WorkFollowsRow'
  BY <1>1, <1>2, <1>3, <1>5 DEF IInv, TypeOK, GenNumbered, WorkFollowsRow, Put, Seen, Row
<1>8. ASSUME NEW d \in Client
      PROVE  /\ Seen(d)'.ver = Seen(d).ver /\ Seen(d)'.gen = Seen(d).gen
             /\ Seen(d).st # "none" => Seen(d)'.st # "none"
  BY <1>2, <1>3 DEF Put, Seen, IInv, WorkFollowsRow, TypeOK
<1>9. NotAhead' /\ VersionMeansCurrent' /\ NoLostUpdate'
  BY <1>8 DEF IInv, NotAhead, VersionMeansCurrent, NoLostUpdate, Synced
<1> QED
  BY <1>4, <1>6, <1>7, <1>9 DEF IInv

\* The end of a transaction, committed or rolled back.
LEMMA EndTx ==
  ASSUME IInv, NEW c \in Client, Commit(c) \/ Rollback(c)
  PROVE  IInv'
<1> USE OptimisticLockAssumption
<1>1. Seen(c) \in Row
  BY SeenType DEF IInv
<1>2. TypeOK'
  <2>1. work' \in Row /\ lock' \in Client \cup {NoClient}
    BY DEF IInv, TypeOK, Commit, Rollback, Release, Absent, Row
  <2>2. row' \in Row /\ inTx' \in [Client -> BOOLEAN]
    BY <1>1 DEF IInv, TypeOK, Commit, Rollback
  <2>3. bean' \in [Client -> Bean]
    BY DEF IInv, TypeOK, Commit, Rollback, Bean, Kind
  <2> QED
    BY <2>1, <2>2, <2>3 DEF IInv, TypeOK, Commit, Rollback
<1>3. GenNumbered'
  BY DEF IInv, TypeOK, GenNumbered, WorkFollowsRow, Commit, Rollback, Release, Absent,
         Seen, Row
<1>4. WorkFollowsRow'
  BY DEF IInv, TypeOK, GenNumbered, WorkFollowsRow, Commit, Rollback, Release, Seen, Row
<1>5. ASSUME NEW d \in Client, Synced(d)'
      PROVE  /\ Seen(d)'.st # "none"
             /\ bean'[d].ver <= Seen(d)'.ver /\ bean'[d].gen <= Seen(d)'.gen
             /\ bean'[d].ver = Seen(d)'.ver <=> bean'[d].gen = Seen(d)'.gen
  <2>1. bean'[d] = bean[d] /\ bean[d] \in Bean /\ Synced(d)
    BY <1>5 DEF IInv, TypeOK, Commit, Rollback, Synced, NoBean, Bean, Kind
  <2>2. /\ Seen(d).st # "none"
        /\ bean[d].ver <= Seen(d).ver /\ bean[d].gen <= Seen(d).gen
        /\ bean[d].ver = Seen(d).ver <=> bean[d].gen = Seen(d).gen
    BY <2>1 DEF IInv, NotAhead, VersionMeansCurrent
  <2>3. CASE lock # c
    <3>1. Seen(d)' = Seen(d)
      BY <2>3 DEF Commit, Rollback, Release, Seen
    <3> QED
      BY <2>1, <2>2, <3>1
  <2>4. CASE lock = c /\ Commit(c)
    <3>1. row' = work /\ Seen(d)' = work
      BY <2>4 DEF Commit, Release, Seen
    <3>2. CASE d = c
      BY <2>1, <2>2, <2>4, <3>1, <3>2 DEF Seen
    <3>3. CASE d # c
      <4>1. Seen(d) = row
        BY <2>4, <3>3 DEF Seen
      <4> QED
        BY <2>1, <2>2, <2>4, <3>1, <4>1 DEF IInv, TypeOK, WorkFollowsRow, Row, Bean
    <3> QED
      BY <3>2, <3>3
  <2>5. CASE lock = c /\ Rollback(c)
    <3>1. d # c
      <4> SUFFICES ASSUME d = c PROVE FALSE
        OBVIOUS
      <4>1. bean[c].kind = "synced" /\ bean'[c].kind = "synced"
        BY <2>1 DEF Synced
      <4>2. bean[c] # NoBean
        BY <4>1 DEF NoBean
      <4>3. bean' = [bean EXCEPT ![c].kind = "undone"]
        BY <2>5, <4>2 DEF Rollback
      <4>4. bean'[c].kind = "undone"
        BY <2>1, <4>3 DEF IInv, TypeOK, Bean
      <4> QED
        BY <4>1, <4>4
    <3>2. Seen(d) = row /\ Seen(d)' = row
      BY <2>5, <3>1 DEF Rollback, Release, Seen
    <3> QED
      BY <2>1, <2>2, <3>2
  <2> QED
    BY <2>3, <2>4, <2>5
<1>6. NotAhead' /\ VersionMeansCurrent'
  BY <1>5 DEF NotAhead, VersionMeansCurrent
<1>7. NoLostUpdate'
  BY DEF IInv, NoLostUpdate, Commit, Rollback
<1> QED
  BY <1>2, <1>3, <1>4, <1>6, <1>7 DEF IInv

\* Get and a refused Update change the caller's bean only.
LEMMA BeanOnly ==
  ASSUME IInv, NEW c \in Client, Get(c) \/ UpdateRefused(c)
  PROVE  IInv'
<1>1. Seen(c) \in Row
  BY SeenType DEF IInv
<1>2. \A d \in Client : Seen(d)' = Seen(d)
  BY DEF Get, UpdateRefused, Seen
<1>3. TypeOK'
  BY <1>1 DEF IInv, TypeOK, Get, UpdateRefused, Bean, Row, Kind
<1>4. GenNumbered' /\ WorkFollowsRow' /\ NoLostUpdate'
  BY DEF IInv, GenNumbered, WorkFollowsRow, NoLostUpdate, Get, UpdateRefused
<1>5. ASSUME NEW d \in Client, Synced(d)'
      PROVE  \/ bean'[d] = bean[d]
             \/ /\ Seen(d).st = "live"
                /\ bean'[d].ver = Seen(d).ver /\ bean'[d].gen = Seen(d).gen
  BY <1>5 DEF IInv, TypeOK, Get, UpdateRefused, Synced, Bean
<1>6. NotAhead' /\ VersionMeansCurrent'
  <2> SUFFICES ASSUME NEW d \in Client, Synced(d)'
               PROVE  /\ Seen(d).st # "none"
                      /\ bean'[d].ver <= Seen(d).ver /\ bean'[d].gen <= Seen(d).gen
                      /\ bean'[d].ver = Seen(d).ver <=> bean'[d].gen = Seen(d).gen
    BY <1>2 DEF NotAhead, VersionMeansCurrent
  <2>1. CASE bean'[d] = bean[d]
    BY <2>1 DEF IInv, NotAhead, VersionMeansCurrent, Synced
  <2>2. CASE bean'[d] # bean[d]
    <3>1. Seen(d) \in Row
      BY SeenType DEF IInv
    <3> QED
      BY <1>5, <2>2, <3>1 DEF Row
  <2> QED
    BY <2>1, <2>2
<1> QED
  BY <1>3, <1>4, <1>6 DEF IInv

\* The inductive invariant is preserved.
LEMMA NextIInv == IInv /\ [Next]_vars => IInv'
<1> SUFFICES ASSUME IInv, [Next]_vars PROVE IInv'
  OBVIOUS
<1>1. ASSUME NEW c \in Client, Begin(c) PROVE IInv'
  <2>1. \A d \in Client : Seen(d)' = Seen(d)
    BY <1>1 DEF Begin, Seen
  <2> QED
    BY <1>1, <2>1 DEF Begin, IInv, TypeOK, GenNumbered, WorkFollowsRow, NotAhead,
                      VersionMeansCurrent, NoLostUpdate, Synced
<1>2. ASSUME NEW c \in Client, Commit(c) \/ Rollback(c) PROVE IInv'
  BY <1>2, EndTx
<1>3. ASSUME NEW c \in Client, Get(c) \/ UpdateRefused(c) PROVE IInv'
  BY <1>3, BeanOnly
<1>4. ASSUME NEW c \in Client, NEW v \in Preset, NEW check \in BOOLEAN,
             Insert(c, v, check) \/ InsertOne(c, v, check) \/ InsertMultiple(c, v, check)
      PROVE  IInv'
  <2> DEFINE ver == InsertedVer(v, check)
             r == [st |-> "live", ver |-> ver, gen |-> lastGen + 1]
  <2>1. v \in Nat /\ ver \in Nat /\ lastGen \in Nat
    BY OptimisticLockAssumption DEF InsertedVer, IInv, TypeOK
  <2>2. r \in Row /\ r.st = "live" /\ r.gen = lastGen + 1 /\ r.ver = ver
    BY <2>1 DEF Row
  <2>3. /\ Seen(c).st = "none" /\ lastGen < MaxGen /\ lastGen' = lastGen + 1
        /\ Put(c, r) /\ inTx' = inTx /\ log' = log
    BY <1>4 DEF Insert, InsertOne, InsertMultiple, NewRow
  <2>4. ASSUME NEW k \in Kind, NEW w \in Nat, NewBean(c, k, w), k = "synced" => w = ver
        PROVE  IInv'
    <3>1. bean' = [bean EXCEPT ![c] = [kind |-> k, ver |-> w, gen |-> lastGen + 1]]
      BY <2>4 DEF NewBean
    <3> HIDE DEF ver, r
    <3> QED
      BY <2>2, <2>3, <2>4, <3>1, NewWrite
  <2>5. CASE Insert(c, v, check)
    <3> DEFINE k == IF check /\ v # 0 THEN "preset" ELSE "synced"
               w == IF check THEN v + 1 ELSE v
    <3>1. k \in Kind /\ w \in Nat /\ NewBean(c, k, w)
      BY <2>1, <2>5 DEF Insert, Kind
    <3>2. k = "synced" => w = ver
      BY <2>1 DEF InsertedVer
    <3> HIDE DEF ver, k, w
    <3> QED
      BY <2>4, <3>1, <3>2
  <2>6. CASE InsertOne(c, v, check)
    <3> DEFINE k == IF ~check THEN "unchecked" ELSE IF v # 0 THEN "preset" ELSE "synced"
    <3>1. k \in Kind /\ v + 1 \in Nat /\ NewBean(c, k, v + 1)
      BY <2>1, <2>6 DEF InsertOne, Kind
    <3>2. k = "synced" => v + 1 = ver
      BY <2>1 DEF InsertedVer
    <3> HIDE DEF ver, k
    <3> QED
      BY <2>4, <3>1, <3>2
  <2>7. CASE InsertMultiple(c, v, check)
    <3>1. "synced" \in Kind /\ NewBean(c, "synced", ver)
      BY <2>7 DEF InsertMultiple, Kind
    <3> HIDE DEF ver
    <3> QED
      BY <2>1, <2>4, <3>1
  <2> QED
    BY <1>4, <2>5, <2>6, <2>7
<1>5. ASSUME NEW c \in Client, Update(c) PROVE IInv'
  <2> DEFINE r == [st |-> "live", ver |-> Seen(c).ver + 1, gen |-> lastGen + 1]
             v == bean[c].ver + 1
  <2>1. Seen(c) \in Row /\ bean[c] \in Bean /\ lastGen \in Nat
    BY SeenType DEF IInv, TypeOK
  <2>2. Seen(c).st = "live" /\ Seen(c).ver = bean[c].ver
    BY <1>5 DEF Update, UpdateMatches
  <2>3. r \in Row /\ r.st = "live" /\ r.gen = lastGen + 1 /\ r.ver = v
        /\ Seen(c).ver < r.ver /\ v \in Nat
    <3>1. Seen(c).ver \in Nat
      BY <2>1 DEF Row
    <3> QED
      BY <2>1, <2>2, <3>1 DEF Row
  <2>4. /\ lastGen < MaxGen /\ lastGen' = lastGen + 1
        /\ Put(c, r) /\ inTx' = inTx
        /\ bean' = [bean EXCEPT ![c] = [kind |-> "synced", ver |-> v, gen |-> lastGen + 1]]
        /\ log' = log \cup {[kind |-> bean[c].kind, base |-> bean[c].gen,
                             prev |-> Seen(c).gen]}
    BY <1>5, <2>1 DEF Update, IInv, TypeOK
  <2>5. bean[c].kind \in Kind /\ bean[c].gen \in Nat /\ Seen(c).gen \in Nat
    BY <2>1 DEF Row, Bean
  <2>6. bean[c].kind = "synced" => bean[c].gen = Seen(c).gen
    BY <2>2 DEF IInv, VersionMeansCurrent, Synced
  <2>7. "synced" \in Kind
    BY DEF Kind
  <2>8. \E b \in Kind, g, p \in Nat :
           /\ log' = log \cup {[kind |-> b, base |-> g, prev |-> p]}
           /\ b = "synced" => g = p
    BY <2>4, <2>5, <2>6
  <2> HIDE DEF r, v
  <2> QED
    BY <2>3, <2>4, <2>7, <2>8, NewWrite
<1>6. ASSUME NEW c \in Client, UpdateNoCheck(c) PROVE IInv'
  <2>1. Seen(c) \in Row /\ Seen(c).st = "live"
    BY <1>6, SeenType DEF IInv, UpdateNoCheck
  <2>2. [Seen(c) EXCEPT !.st = "live"] = Seen(c)
    BY <2>1 DEF Row
  <2> QED
    BY <1>6, <2>1, <2>2, OtherWrite DEF UpdateNoCheck
<1>7. ASSUME NEW c \in Client, NEW byBean \in BOOLEAN, Delete(c, byBean) PROVE IInv'
  BY <1>7, OtherWrite DEF Delete
<1>8. CASE UNCHANGED vars
  BY <1>8 DEF vars, IInv, TypeOK, GenNumbered, WorkFollowsRow, NotAhead,
              VersionMeansCurrent, NoLostUpdate, Synced, Seen
<1> QED
  BY <1>1, <1>2, <1>3, <1>4, <1>5, <1>6, <1>7, <1>8 DEF Next

\* No caller that fetches the record again when its Update changed nothing or was
\* rolled back overwrites an update it has not seen.
THEOREM UpdatesAreNotLost == Spec => []NoLostUpdate
<1>1. IInv => NoLostUpdate
  BY DEF IInv
<1> QED
  BY <1>1, InitIInv, NextIInv, PTL DEF Spec

\* The version a session counts up in such a caller's bean tells whether the bean is
\* current: an Update is refused exactly when it should be.
THEOREM VersionsMeanCurrent == Spec => []VersionMeansCurrent
<1>1. IInv => VersionMeansCurrent
  BY DEF IInv
<1> QED
  BY <1>1, InitIInv, NextIInv, PTL DEF Spec

=============================================================================

-------------------------- MODULE LRUCacherProofs --------------------------
(***************************************************************************)
(* For any tables, ids, queries, sizes and expiry, and whatever calls the  *)
(* store fails: what LRUCacher keeps of the store, none of which depends   *)
(* on the order of the lists, and then what it keeps in the lists and      *)
(* indexes.                                                                *)
(***************************************************************************)
EXTENDS LRUCacher, WellFoundedInduction, TLAPS

\* What the store holds of the keys whose last Put or Del did not fail.
Shown(keys, store, bad) == [k \in keys |-> IF k \in bad THEN None ELSE store[k]]
shownBeans == Shown(BeanKey, beans, badBeans)
shownIds == Shown(Sql, ids, badIds)

Total ==
    /\ beans = [k \in BeanKey |-> beans[k]]
    /\ ids = [s \in Sql |-> ids[s]]
    /\ restarted \in BOOLEAN
InReach ==
    ~restarted =>
        /\ \A k \in BeanKey : shownBeans[k] # None => k \in idIndex
        /\ \A s \in Sql : shownIds[s] # None => s \in sqlIndex
RInv == Total /\ InReach

LEMMA InitInv == Init => RInv
BY DEF Init, RInv, Total, InReach, shownBeans, shownIds, Shown

\* Whatever is dropped is dropped from the index and the store together, or is then bad.
LEMMA DropIdsReaches ==
    ASSUME NEW list, NEW index, NEW store, NEW bad, NEW S,
           DropIds(list, index, store, bad, S)
    PROVE  /\ ids' = [s \in Sql |-> ids'[s]] /\ sqlIndex' = index \ S
           /\ \A s \in Sql : shownIds'[s] = IF s \in S THEN None ELSE Shown(Sql, store, bad)[s]
<1>1. PICK kept \in Undeleted(store, S) :
          /\ ids' = [s \in Sql |-> IF s \in S \ kept THEN None ELSE store[s]]
          /\ badIds' = (bad \ S) \cup kept
    BY DEF DropIds
<1>2. kept \subseteq S
    BY DEF Undeleted
<1>3. shownIds' = [s \in Sql |-> IF s \in badIds' THEN None ELSE ids'[s]]
    BY DEF shownIds, Shown
<1>4. \A s \in Sql : Shown(Sql, store, bad)[s] = IF s \in bad THEN None ELSE store[s]
    BY DEF Shown
<1> QED
    BY <1>1, <1>2, <1>3, <1>4 DEF DropIds

LEMMA DropKeysReaches ==
    ASSUME NEW list, NEW index, NEW store, NEW bad, NEW K,
           DropKeys(list, index, store, bad, K)
    PROVE  /\ beans' = [k \in BeanKey |-> beans'[k]] /\ idIndex' = index \ K
           /\ \A k \in BeanKey :
                 shownBeans'[k] = IF k \in K THEN None ELSE Shown(BeanKey, store, bad)[k]
<1>1. PICK kept \in Undeleted(store, K) :
          /\ beans' = [k \in BeanKey |-> IF k \in K \ kept THEN None ELSE store[k]]
          /\ badBeans' = (bad \ K) \cup kept
    BY DEF DropKeys
<1>2. kept \subseteq K
    BY DEF Undeleted
<1>3. shownBeans' = [k \in BeanKey |-> IF k \in badBeans' THEN None ELSE beans'[k]]
    BY DEF shownBeans, Shown
<1>4. \A k \in BeanKey : Shown(BeanKey, store, bad)[k] = IF k \in bad THEN None ELSE store[k]
    BY DEF Shown
<1> QED
    BY <1>1, <1>2, <1>3, <1>4 DEF DropKeys

LEMMA DropBeansReaches ==
    ASSUME NEW list, NEW index, NEW store, NEW bad, NEW K,
           DropBeans(list, index, store, bad, K)
    PROVE  /\ beans' = [k \in BeanKey |-> beans'[k]] /\ idIndex' = index \ K
           /\ ids' = [s \in Sql |-> ids'[s]]
           /\ \A k \in BeanKey :
                 shownBeans'[k] = IF k \in K THEN None ELSE Shown(BeanKey, store, bad)[k]
           /\ \A s \in Sql : shownIds'[s] \in {shownIds[s], None}
           /\ \A s \in Sql : shownIds'[s] # None /\ s \in sqlIndex => s \in sqlIndex'
<1> DEFINE cleared == SqlsOf({k[1] : k \in K \cap index}) \cap sqlIndex
<1>1. DropIds(sqlList, sqlIndex, ids, badIds, cleared)
    BY DEF DropBeans
<1> HIDE DEF cleared
<1>2. /\ ids' = [s \in Sql |-> ids'[s]] /\ sqlIndex' = sqlIndex \ cleared
      /\ \A s \in Sql : shownIds'[s] = IF s \in cleared THEN None ELSE shownIds[s]
    BY <1>1, DropIdsReaches DEF shownIds
<1>3. DropKeys(list, index, store, bad, K)
    BY DEF DropBeans
<1>4. /\ beans' = [k \in BeanKey |-> beans'[k]] /\ idIndex' = index \ K
      /\ \A k \in BeanKey :
            shownBeans'[k] = IF k \in K THEN None ELSE Shown(BeanKey, store, bad)[k]
    BY <1>3, DropKeysReaches
<1> QED
    BY <1>2, <1>4

\* A Put that fails makes the key bad.
LEMMA PutShows ==
    ASSUME NEW keys, NEW store, store = [q \in keys |-> store[q]], NEW bad, NEW k \in keys,
           NEW v, NEW ok
    PROVE  \A q \in keys :
              Shown(keys, Put(store, k, v, ok), BadAfterPut(bad, k, ok))[q]
                  \in {[Shown(keys, store, bad) EXCEPT ![k] = v][q], None}
BY DEF Shown, Put, BadAfterPut

----------------------------------------------------------------------------
(* Each method keeps the store in reach, and is the method of Cacher *)

\* The maps of Cacher are what the store shows, until a restart.
LEMMA Maps ==
    ASSUME RInv, ~restarted
    PROVE  Promised(beans, badBeans) = shownBeans /\ Promised(ids, badIds) = shownIds
BY DEF RInv, Total, Promised, shownBeans, shownIds, Shown

LEMMA MapsNext ==
    ASSUME RInv', ~restarted'
    PROVE  Promised(beans, badBeans)' = shownBeans' /\ Promised(ids, badIds)' = shownIds'
BY DEF RInv, Total, Promised, shownBeans, shownIds, Shown

AbsBecomes(b, i) ==
    /\ \A k \in BeanKey : shownBeans'[k] \in {b[k], None}
    /\ \A s \in Sql : shownIds'[s] \in {i[s], None}

LEMMA ShownDomains == DOMAIN shownBeans = BeanKey /\ DOMAIN shownIds = Sql
BY DEF shownBeans, shownIds, Shown

LEMMA ShownDomainsNext == DOMAIN shownBeans' = BeanKey /\ DOMAIN shownIds' = Sql
BY DEF shownBeans, shownIds, Shown

LEMMA BecomesAtMost ==
    ASSUME RInv', ~restarted', NEW b, NEW i,
           DOMAIN b = BeanKey, DOMAIN i = Sql, AbsBecomes(b, i)
    PROVE  Abstract!BecomeAtMost(b, i)
BY MapsNext, ShownDomainsNext DEF AbsBecomes, Abstract!BecomeAtMost, Abstract!Forgets

\* What a caller is told is the call and its result, or nothing for a bad key.
LEMMA Answers ==
    ASSUME ~restarted', NEW name, NEW k, NEW r, call' = <<name, k, r>>
    PROVE  /\ trusted' = TRUE => Answered' = <<name, k, r>>
           /\ trusted' = FALSE => Answered' = <<name, k, None>>
BY DEF Answered

LEMMA GetIdsStep ==
    ASSUME RInv, NEW s \in Sql, GetIds(s)
    PROVE  RInv' /\ (~restarted => Abstract!CGetIds(s))
<1>1. /\ restarted' = restarted /\ beans' = beans /\ idIndex' = idIndex
      /\ shownBeans' = shownBeans
    BY DEF GetIds, KeepBeans, shownBeans
<1>2. /\ RInv' /\ AbsBecomes(shownBeans, shownIds)
      /\ ~restarted' => \E r \in {shownIds[s], None} : Answered' = <<"GetIds", s, r>>
  <2>1. CASE GetIdsMisses(s)
    <3>1. /\ ids' = [q \in Sql |-> ids'[q]] /\ sqlIndex' = sqlIndex \ {s}
          /\ \A q \in Sql : shownIds'[q] = IF q \in {s} THEN None ELSE shownIds[q]
        BY <2>1, DropIdsReaches DEF GetIdsMisses, shownIds
    <3>2. ~restarted' => Answered' = <<"GetIds", s, None>>
        BY <2>1, Answers DEF GetIdsMisses
    <3> QED
        BY <1>1, <3>1, <3>2 DEF RInv, Total, InReach, AbsBecomes
  <2>2. CASE GetIdsFinds(s)
    <3>1. /\ ids' = ids /\ shownIds' = shownIds /\ sqlIndex' = sqlIndex \cup {s}
          /\ call' = <<"GetIds", s, ids[s]>> /\ trusted' = (s \notin badIds)
        BY <2>2 DEF GetIdsFinds, shownIds
    <3>2. shownIds[s] = IF s \in badIds THEN None ELSE ids[s]
        BY DEF shownIds, Shown
    <3>3. ~restarted' => Answered' = <<"GetIds", s, shownIds[s]>>
        BY <3>1, <3>2, Answers
    <3> QED
        BY <1>1, <3>1, <3>3 DEF RInv, Total, InReach, AbsBecomes
  <2> QED
    BY <2>1, <2>2 DEF GetIds
<1>3. ~restarted => Abstract!BecomeAtMost(shownBeans, shownIds)
    BY <1>1, <1>2, ShownDomains, BecomesAtMost
<1> QED
    BY <1>1, <1>2, <1>3, Maps DEF Abstract!CGetIds

LEMMA GetBeanStep ==
    ASSUME RInv, NEW t \in Table, NEW i \in Id, <<t, i>> \in BeanKey, GetBean(t, i)
    PROVE  RInv' /\ (~restarted => Abstract!CGetBean(t, i))
<1> DEFINE k == <<t, i>>
<1>0. /\ restarted' = restarted /\ k \in BeanKey
      /\ GetBeanMisses(k) \/ GetBeanFinds(k)
    BY DEF GetBean
<1> HIDE DEF k
<1>2. /\ RInv' /\ AbsBecomes(shownBeans, shownIds)
      /\ ~restarted' => \E r \in {shownBeans[k], None} : Answered' = <<"GetBean", k, r>>
  <2>1. CASE GetBeanMisses(k)
    <3>1. /\ beans' = [q \in BeanKey |-> beans'[q]] /\ idIndex' = idIndex \ {k}
          /\ ids' = [s \in Sql |-> ids'[s]]
          /\ \A q \in BeanKey : shownBeans'[q] = IF q \in {k} THEN None ELSE shownBeans[q]
          /\ \A s \in Sql : shownIds'[s] \in {shownIds[s], None}
          /\ \A s \in Sql : shownIds'[s] # None /\ s \in sqlIndex => s \in sqlIndex'
        BY <2>1, DropBeansReaches DEF GetBeanMisses, shownBeans
    <3>2. ~restarted' => Answered' = <<"GetBean", k, None>>
        BY <2>1, Answers DEF GetBeanMisses
    <3> QED
        BY <1>0, <3>1, <3>2 DEF RInv, Total, InReach, AbsBecomes
  <2>2. CASE GetBeanFinds(k)
    <3>1. /\ beans' = beans /\ shownBeans' = shownBeans /\ idIndex' = idIndex \cup {k}
          /\ ids' = ids /\ shownIds' = shownIds /\ sqlIndex' = sqlIndex
          /\ call' = <<"GetBean", k, beans[k]>> /\ trusted' = (k \notin badBeans)
        BY <2>2 DEF GetBeanFinds, KeepIds, shownBeans, shownIds
    <3>2. shownBeans[k] = IF k \in badBeans THEN None ELSE beans[k]
        BY <1>0 DEF shownBeans, Shown
    <3>3. ~restarted' => Answered' = <<"GetBean", k, shownBeans[k]>>
        BY <3>1, <3>2, Answers
    <3> QED
        BY <1>0, <3>1, <3>3 DEF RInv, Total, InReach, AbsBecomes
  <2> QED
    BY <1>0, <2>1, <2>2
<1>3. ~restarted => Abstract!BecomeAtMost(shownBeans, shownIds)
    BY <1>0, <1>2, ShownDomains, BecomesAtMost
<1> QED
    BY <1>0, <1>2, <1>3, Maps DEF Abstract!CGetBean, k

LEMMA DelIdsStep ==
    ASSUME RInv, NEW s \in Sql, DelIds(s)
    PROVE  RInv' /\ (~restarted => Abstract!CDelIds(s))
<1>1. /\ restarted' = restarted /\ beans' = beans /\ idIndex' = idIndex
      /\ shownBeans' = shownBeans
      /\ DropIds(sqlList, sqlIndex, ids, badIds, {s})
      /\ call' = <<"DelIds", s, None>> /\ trusted' = TRUE
    BY DEF DelIds, KeepBeans, shownBeans
<1>2. /\ ids' = [q \in Sql |-> ids'[q]] /\ sqlIndex' = sqlIndex \ {s}
      /\ \A q \in Sql : shownIds'[q] = IF q \in {s} THEN None ELSE shownIds[q]
    BY <1>1, DropIdsReaches DEF shownIds
<1>3. RInv'
    BY <1>1, <1>2 DEF RInv, Total, InReach
<1>4. AbsBecomes(shownBeans, [shownIds EXCEPT ![s] = None])
    BY <1>1, <1>2, ShownDomains DEF AbsBecomes
<1>5. ~restarted => Abstract!BecomeAtMost(shownBeans, [shownIds EXCEPT ![s] = None])
    BY <1>1, <1>3, <1>4, ShownDomains, BecomesAtMost
<1>6. ~restarted => Answered' = <<"DelIds", s, None>>
    BY <1>1, Answers
<1> QED
    BY <1>3, <1>5, <1>6, Maps DEF Abstract!CDelIds

LEMMA DelBeanStep ==
    ASSUME RInv, NEW t \in Table, NEW i \in Id, <<t, i>> \in BeanKey, DelBean(t, i)
    PROVE  RInv' /\ (~restarted => Abstract!CDelBean(t, i))
<1> DEFINE k == <<t, i>>
<1>1. /\ restarted' = restarted /\ k \in BeanKey
      /\ DropBeans(idList, idIndex, beans, badBeans, {k})
      /\ call' = <<"DelBean", k, None>> /\ trusted' = TRUE
    BY DEF DelBean
<1> HIDE DEF k
<1>2. /\ beans' = [q \in BeanKey |-> beans'[q]] /\ idIndex' = idIndex \ {k}
      /\ ids' = [s \in Sql |-> ids'[s]]
      /\ \A q \in BeanKey : shownBeans'[q] = IF q \in {k} THEN None ELSE shownBeans[q]
      /\ \A s \in Sql : shownIds'[s] \in {shownIds[s], None}
      /\ \A s \in Sql : shownIds'[s] # None /\ s \in sqlIndex => s \in sqlIndex'
    BY <1>1, DropBeansReaches DEF shownBeans
<1>3. RInv'
    BY <1>1, <1>2 DEF RInv, Total, InReach
<1>4. AbsBecomes([shownBeans EXCEPT ![k] = None], shownIds)
    BY <1>1, <1>2, ShownDomains DEF AbsBecomes
<1>5. ~restarted => Abstract!BecomeAtMost([shownBeans EXCEPT ![k] = None], shownIds)
    BY <1>1, <1>3, <1>4, ShownDomains, BecomesAtMost
<1>6. ~restarted => Answered' = <<"DelBean", k, None>>
    BY <1>1, Answers
<1> QED
    BY <1>3, <1>5, <1>6, Maps DEF Abstract!CDelBean, k

\* clearIds and clearBeans go by the index, and nothing of the table is outside it but bad
\* keys.
LEMMA ClearIdsStep ==
    ASSUME RInv, NEW t \in Table, ClearIds(t)
    PROVE  RInv' /\ (~restarted => Abstract!CClearIds(t))
<1> DEFINE S == SqlsOf({t}) \cap sqlIndex
           without == [s \in Sql |-> IF SqlTable[s] = t THEN None ELSE shownIds[s]]
<1>1. /\ restarted' = restarted /\ beans' = beans /\ idIndex' = idIndex
      /\ shownBeans' = shownBeans
      /\ DropIds(sqlList, sqlIndex, ids, badIds, S)
      /\ call' = <<"ClearIds", t, None>> /\ trusted' = TRUE
    BY DEF ClearIds, KeepBeans, shownBeans
<1> HIDE DEF S
<1>2. /\ ids' = [q \in Sql |-> ids'[q]] /\ sqlIndex' = sqlIndex \ S
      /\ \A q \in Sql : shownIds'[q] = IF q \in S THEN None ELSE shownIds[q]
    BY <1>1, DropIdsReaches DEF shownIds
<1>3. RInv'
    BY <1>1, <1>2 DEF RInv, Total, InReach
<1>4. ~restarted => AbsBecomes(shownBeans, without)
  <2>1. ~restarted => \A s \in Sql : SqlTable[s] = t => s \in S \/ shownIds[s] = None
    BY DEF RInv, InReach, SqlsOf, S
  <2> QED
    BY <1>1, <1>2, <2>1 DEF AbsBecomes
<1>5. ~restarted => Abstract!BecomeAtMost(shownBeans, without)
    BY <1>1, <1>3, <1>4, ShownDomains, BecomesAtMost
<1>6. ~restarted => Abstract!WithoutIds(t) = without
    BY Maps DEF Abstract!WithoutIds
<1> HIDE DEF without
<1>7. ~restarted => Answered' = <<"ClearIds", t, None>>
    BY <1>1, Answers
<1> QED
    BY <1>3, <1>5, <1>6, <1>7, Maps DEF Abstract!CClearIds

LEMMA ClearBeansStep ==
    ASSUME RInv, NEW t \in Table, ClearBeans(t)
    PROVE  RInv' /\ (~restarted => Abstract!CClearBeans(t))
<1> DEFINE cleared == {k \in idIndex : k[1] = t}
           without == [k \in BeanKey |-> IF k[1] = t THEN None ELSE shownBeans[k]]
<1>1. /\ restarted' = restarted /\ ids' = ids /\ sqlIndex' = sqlIndex /\ shownIds' = shownIds
      /\ DropKeys(idList, idIndex, beans, badBeans, cleared)
      /\ call' = <<"ClearBeans", t, None>> /\ trusted' = TRUE
    BY DEF ClearBeans, KeepIds, shownIds
<1>2. /\ beans' = [q \in BeanKey |-> beans'[q]] /\ idIndex' = idIndex \ cleared
      /\ \A q \in BeanKey : shownBeans'[q] = IF q \in cleared THEN None ELSE shownBeans[q]
    BY <1>1, DropKeysReaches DEF shownBeans
<1>3. RInv'
    BY <1>1, <1>2 DEF RInv, Total, InReach
<1>4. ~restarted => AbsBecomes(without, shownIds)
  <2>1. ~restarted => \A k \in BeanKey : k[1] = t => k \in cleared \/ shownBeans[k] = None
    BY DEF RInv, InReach
  <2> QED
    BY <1>1, <1>2, <2>1 DEF AbsBecomes
<1>5. ~restarted => Abstract!BecomeAtMost(without, shownIds)
    BY <1>1, <1>3, <1>4, ShownDomains, BecomesAtMost
<1>6. ~restarted => Abstract!WithoutBeans(t) = without
    BY Maps DEF Abstract!WithoutBeans
<1> HIDE DEF without
<1>7. ~restarted => Answered' = <<"ClearBeans", t, None>>
    BY <1>1, Answers
<1> QED
    BY <1>3, <1>5, <1>6, <1>7, Maps DEF Abstract!CClearBeans

LEMMA PutIdsStep ==
    ASSUME RInv, NEW s \in Sql, NEW v \in Value, PutIds(s, v)
    PROVE  RInv' /\ (~restarted => Abstract!CPutIds(s, v))
<1> DEFINE put == [shownIds EXCEPT ![s] = v]
<1>1. PICK list, over, ok :
          DropIds(list, sqlIndex \cup {s}, Put(ids, s, v, ok), BadAfterPut(badIds, s, ok), over)
    BY DEF PutIds
<1> DEFINE shown == Shown(Sql, Put(ids, s, v, ok), BadAfterPut(badIds, s, ok))
<1>2. /\ restarted' = restarted /\ beans' = beans /\ idIndex' = idIndex
      /\ shownBeans' = shownBeans
      /\ call' = <<"PutIds", s, v>> /\ trusted' = TRUE
    BY DEF PutIds, KeepBeans, shownBeans
<1>3. \A q \in Sql : shown[q] \in {put[q], None}
    BY PutShows DEF RInv, Total, shownIds
<1>4. /\ ids' = [q \in Sql |-> ids'[q]] /\ sqlIndex' = (sqlIndex \cup {s}) \ over
      /\ \A q \in Sql : shownIds'[q] = IF q \in over THEN None ELSE shown[q]
    BY <1>1, DropIdsReaches
<1> HIDE DEF shown
<1>5. /\ DOMAIN put = Sql
      /\ \A q \in Sql : q # s => put[q] = shownIds[q]
    BY ShownDomains
<1> HIDE DEF put
<1>6. RInv'
    BY <1>2, <1>3, <1>4, <1>5 DEF RInv, Total, InReach
<1>7. AbsBecomes(shownBeans, put)
    BY <1>2, <1>3, <1>4 DEF AbsBecomes
<1>8. ~restarted => Abstract!BecomeAtMost(shownBeans, put)
    BY <1>2, <1>5, <1>6, <1>7, ShownDomains, BecomesAtMost
<1>9. ~restarted => Answered' = <<"PutIds", s, v>>
    BY <1>2, Answers
<1> QED
    BY <1>6, <1>8, <1>9, Maps DEF Abstract!CPutIds, put

LEMMA PutBeanStep ==
    ASSUME RInv, NEW t \in Table, NEW i \in Id, <<t, i>> \in BeanKey, NEW v \in Value, PutBean(t, i, v)
    PROVE  RInv' /\ (~restarted => Abstract!CPutBean(t, i, v))
<1> DEFINE k == <<t, i>>
           put == [shownBeans EXCEPT ![k] = v]
<1>1. PICK list, over, ok :
          DropBeans(list, idIndex \cup {k}, Put(beans, k, v, ok), BadAfterPut(badBeans, k, ok),
                    over)
    BY DEF PutBean
<1> DEFINE shown == Shown(BeanKey, Put(beans, k, v, ok), BadAfterPut(badBeans, k, ok))
<1>2. /\ restarted' = restarted /\ k \in BeanKey
      /\ call' = <<"PutBean", k, v>> /\ trusted' = TRUE
    BY DEF PutBean
<1> HIDE DEF k
<1>3. \A q \in BeanKey : shown[q] \in {put[q], None}
    BY <1>2, PutShows DEF RInv, Total, shownBeans
<1>4. /\ beans' = [q \in BeanKey |-> beans'[q]] /\ idIndex' = (idIndex \cup {k}) \ over
      /\ ids' = [s \in Sql |-> ids'[s]]
      /\ \A q \in BeanKey : shownBeans'[q] = IF q \in over THEN None ELSE shown[q]
      /\ \A s \in Sql : shownIds'[s] \in {shownIds[s], None}
      /\ \A s \in Sql : shownIds'[s] # None /\ s \in sqlIndex => s \in sqlIndex'
    BY <1>1, DropBeansReaches
<1> HIDE DEF shown
<1>5. /\ DOMAIN put = BeanKey
      /\ \A q \in BeanKey : q # k => put[q] = shownBeans[q]
    BY ShownDomains
<1> HIDE DEF put
<1>6. RInv'
    BY <1>2, <1>3, <1>4, <1>5 DEF RInv, Total, InReach
<1>7. AbsBecomes(put, shownIds)
    BY <1>2, <1>3, <1>4 DEF AbsBecomes
<1>8. ~restarted => Abstract!BecomeAtMost(put, shownIds)
    BY <1>2, <1>5, <1>6, <1>7, ShownDomains, BecomesAtMost
<1>9. ~restarted => Answered' = <<"PutBean", k, v>>
    BY <1>2, Answers
<1> QED
    BY <1>6, <1>8, <1>9, Maps DEF Abstract!CPutBean, put, k

LEMMA GCStep ==
    ASSUME RInv, GC
    PROVE  RInv' /\ (~restarted => Abstract!Forget)
<1>1. PICK K, S : /\ DropKeys(idList, idIndex, beans, badBeans, K)
                  /\ DropIds(sqlList, sqlIndex, ids, badIds, S)
    BY DEF GC
<1>2. restarted' = restarted /\ Answered' = Answered
    BY DEF GC, Answered
<1>3. /\ ids' = [q \in Sql |-> ids'[q]] /\ sqlIndex' = sqlIndex \ S
      /\ \A q \in Sql : shownIds'[q] = IF q \in S THEN None ELSE shownIds[q]
    BY <1>1, DropIdsReaches DEF shownIds
<1>4. /\ beans' = [q \in BeanKey |-> beans'[q]] /\ idIndex' = idIndex \ K
      /\ \A q \in BeanKey : shownBeans'[q] = IF q \in K THEN None ELSE shownBeans[q]
    BY <1>1, DropKeysReaches DEF shownBeans
<1>5. RInv'
    BY <1>2, <1>3, <1>4 DEF RInv, Total, InReach
<1>6. AbsBecomes(shownBeans, shownIds)
    BY <1>3, <1>4 DEF AbsBecomes
<1>7. ~restarted => Abstract!BecomeAtMost(shownBeans, shownIds)
    BY <1>2, <1>5, <1>6, ShownDomains, BecomesAtMost
<1> QED
    BY <1>2, <1>5, <1>7, Maps DEF Abstract!Forget

\* The steps that touch neither store nor index.
LEMMA QuietStep ==
    ASSUME RInv, UNCHANGED <<beans, ids, call, idIndex, sqlIndex, restarted, badBeans, badIds,
                             trusted>>
    PROVE  RInv' /\ UNCHANGED Abstract!cvars
BY DEF RInv, Total, InReach, shownBeans, shownIds, Abstract!cvars, Promised, Answered

LEMMA RestartStep ==
    ASSUME RInv, Restart
    PROVE  RInv' /\ Abstract!CStartsEmpty
<1>1. RInv'
    BY DEF Restart, RInv, Total, InReach
<1>2. DOMAIN beans = BeanKey /\ DOMAIN ids = Sql
    BY DEF RInv, Total
<1> QED
    BY <1>1, <1>2 DEF Restart, Abstract!CStartsEmpty,
       Abstract!NoCall, NoCall, Promised, Answered

\* After a restart the cache is, for Cacher, new and empty for good.
LEMMA RestartedStays ==
    ASSUME RInv, RInv', restarted, restarted'
    PROVE  UNCHANGED Abstract!cvars
<1>1. DOMAIN beans = BeanKey /\ DOMAIN ids = Sql /\ DOMAIN beans' = BeanKey /\ DOMAIN ids' = Sql
    BY DEF RInv, Total
<1> QED
    BY <1>1 DEF Abstract!cvars, Promised, Answered

LEMMA StepMaps ==
    ASSUME RInv, [Next]_vars
    PROVE  RInv' /\ [Abstract!CNext]_(Abstract!cvars)
<1> USE DEF Abstract!CNext
<1>0. CASE UNCHANGED vars
    BY <1>0, QuietStep DEF vars
<1>1. ASSUME NEW s \in Sql, GetIds(s) \/ DelIds(s) \/ \E v \in Value : PutIds(s, v)
      PROVE  RInv' /\ [Abstract!CNext]_(Abstract!cvars)
  <2>1. restarted' = restarted
    BY <1>1 DEF GetIds, DelIds, PutIds
  <2> QED
    BY <1>1, <2>1, GetIdsStep, DelIdsStep, PutIdsStep, RestartedStays DEF RInv, Total
<1>2. ASSUME NEW t \in Table, NEW i \in Id, <<t, i>> \in BeanKey,
             GetBean(t, i) \/ DelBean(t, i) \/ \E v \in Value : PutBean(t, i, v)
      PROVE  RInv' /\ [Abstract!CNext]_(Abstract!cvars)
  <2>1. restarted' = restarted
    BY <1>2 DEF GetBean, DelBean, PutBean
  <2> QED
    BY <1>2, <2>1, GetBeanStep, DelBeanStep, PutBeanStep, RestartedStays DEF RInv, Total
<1>3. ASSUME NEW t \in Table, ClearIds(t) \/ ClearBeans(t)
      PROVE  RInv' /\ [Abstract!CNext]_(Abstract!cvars)
  <2>1. restarted' = restarted
    BY <1>3 DEF ClearIds, ClearBeans
  <2> QED
    BY <1>3, <2>1, ClearIdsStep, ClearBeansStep, RestartedStays DEF RInv, Total
<1>4. ASSUME NEW t \in Table, NEW i \in Id, <<t, i>> \in BeanKey, PutBeanPanics(t, i)
      PROVE  RInv' /\ [Abstract!CNext]_(Abstract!cvars)
    BY <1>4, QuietStep DEF PutBeanPanics, KeepIds
<1>5. CASE Tick
    BY <1>5, QuietStep DEF Tick
<1>6. CASE Restart
    BY <1>6, RestartStep
<1>7. CASE GC
  <2>1. restarted' = restarted
    BY <1>7 DEF GC
  <2> QED
    BY <1>7, <2>1, GCStep, RestartedStays DEF RInv, Total
<1> QED
    BY <1>0, <1>1, <1>2, <1>3, <1>4, <1>5, <1>6, <1>7 DEF Next

----------------------------------------------------------------------------
(* The theorems *)

\* No stored value is out of reach of Clear, eviction and GC before a restart, whatever
\* the bounds of the cache and whatever calls the store fails, except one that it failed to
\* delete: every method of lru.go changes the store and the index together.
THEOREM StoreReachable == Spec => []Reachable
<1>1. RInv => Reachable
    BY DEF RInv, InReach, Reachable, shownBeans, shownIds, Shown
<1> QED
    BY <1>1, InitInv, StepMaps, PTL DEF Spec

\* LRUCacher implements Cacher: an entry may be forgotten by eviction, expiry or GC, and
\* no value is returned that was deleted, cleared or replaced, but for the keys whose last Put
\* or Del the store failed, whose errors lru.go ignores.  clearIds and clearBeans (lru.go) find
\* what they have to delete in the index, so this rests on Reachable.
THEOREM LRUImplementsCacher == Spec => ImplementsCacher
<1>1. Init => Abstract!CInit
    BY DEF Init, Abstract!CInit, Abstract!NoCall, NoCall, Promised,
           Answered
<1>2. RInv /\ [Next]_vars => RInv' /\ [Abstract!CNext]_(Abstract!cvars)
    BY StepMaps
<1> QED
    BY <1>1, <1>2, InitInv, PTL DEF Spec, ImplementsCacher, Abstract!CSpec

\* delBean clears the id lists of the table of every key it takes out of the index.
LEMMA DropBeansClears ==
    ASSUME NEW list, NEW index, NEW store, NEW bad, NEW K,
           DropBeans(list, index, store, bad, K),
           NEW k \in index \ idIndex', NEW s \in SqlsOf({k[1]}), s \in sqlIndex
    PROVE  ids'[s] = None \/ s \in badIds'
<1>1. k \in K \cap index /\ s \in Sql /\ SqlTable[s] = k[1]
    BY DEF DropBeans, DropKeys, SqlsOf
<1> DEFINE cleared == SqlsOf({q[1] : q \in K \cap index}) \cap sqlIndex
<1>2. s \in cleared
    BY <1>1 DEF SqlsOf
<1>3. DropIds(sqlList, sqlIndex, ids, badIds, cleared)
    BY DEF DropBeans
<1> HIDE DEF cleared
<1> QED
    BY <1>1, <1>2, <1>3 DEF DropIds

\* A bean leaves the index only together with the id lists of its table, but for ClearBeans
\* and a restart, for any tables, ids, queries and bounds (delBean and GC of lru.go), except
\* id lists that the store failed to delete.
THEOREM IdsLeaveWithBean == Spec => IdsGoWithBean
<1> DEFINE Goes(k) == \/ \A s \in SqlsOf({k[1]}) : ids'[s] = None \/ s \notin sqlIndex \/ s \in badIds'
                      \/ ClearBeans(k[1]) \/ Restart
<1>1. ASSUME [Next]_vars, NEW k \in idIndex \ idIndex' PROVE Goes(k)
  <2>0. CASE UNCHANGED vars
    BY <1>1, <2>0 DEF vars
  <2>1. ASSUME NEW s \in Sql, GetIds(s) \/ DelIds(s) \/ \E v \in Value : PutIds(s, v)
        PROVE  Goes(k)
    BY <1>1, <2>1 DEF GetIds, DelIds, PutIds, KeepBeans
  <2>2. ASSUME NEW t \in Table, NEW i \in Id, <<t, i>> \in BeanKey, GetBean(t, i) PROVE Goes(k)
    <3>1. DropBeans(idList, idIndex, beans, badBeans, {<<t, i>>})
        BY <1>1, <2>2 DEF GetBean, GetBeanMisses, GetBeanFinds
    <3> QED
        BY <3>1, DropBeansClears
  <2>3. ASSUME NEW t \in Table, NEW i \in Id, <<t, i>> \in BeanKey, DelBean(t, i) PROVE Goes(k)
    BY <2>3, DropBeansClears DEF DelBean
  <2>4. ASSUME NEW t \in Table, NEW i \in Id, <<t, i>> \in BeanKey, NEW v \in Value, PutBean(t, i, v)
        PROVE  Goes(k)
    <3>1. PICK list, store, bad, over :
              DropBeans(list, idIndex \cup {<<t, i>>}, store, bad, over)
        BY <2>4 DEF PutBean
    <3> QED
        BY <3>1, DropBeansClears
  <2>5. ASSUME NEW t \in Table, NEW i \in Id, <<t, i>> \in BeanKey, PutBeanPanics(t, i) PROVE Goes(k)
    BY <1>1, <2>5 DEF PutBeanPanics
  <2>6. ASSUME NEW t \in Table, ClearIds(t) PROVE Goes(k)
    BY <1>1, <2>6 DEF ClearIds, KeepBeans
  <2>7. ASSUME NEW t \in Table, ClearBeans(t) PROVE Goes(k)
    <3>1. k[1] = t
        BY <1>1, <2>7 DEF ClearBeans, DropKeys
    <3> QED
        BY <2>7, <3>1
  <2>8. CASE Tick
    BY <1>1, <2>8 DEF Tick
  <2>9. CASE GC
    <3> DEFINE keys == FrontKeys(idList)
               cleared == SqlsOf({q[1] : q \in keys \cap idIndex}) \cap sqlIndex
               sqls == FrontKeys(Remove(sqlList, cleared))
    <3>1. k \in keys \cap idIndex /\ DropIds(sqlList, sqlIndex, ids, badIds, cleared \cup sqls)
        BY <1>1, <2>9 DEF GC, DropKeys
    <3>2. \A s \in SqlsOf({k[1]}) : s \in sqlIndex => s \in Sql /\ s \in cleared
        BY <3>1 DEF SqlsOf
    <3> HIDE DEF keys, cleared, sqls
    <3> QED
        BY <3>1, <3>2 DEF DropIds
  <2> QED
    BY <1>1, <2>0, <2>1, <2>2, <2>3, <2>4, <2>5, <2>6, <2>7, <2>8, <2>9 DEF Next
<1>2. [Next]_vars => [\A k \in idIndex \ idIndex' : Goes(k)]_vars
    BY <1>1
<1> QED
    BY <1>2, PTL DEF Spec, IdsGoWithBean

----------------------------------------------------------------------------
(* What Remove leaves of a list *)

\* One step of Remove on the list, from what is left of the nodes before.
KeptNext(list, K, g, n) ==
    IF n = 0 THEN <<>>
    ELSE IF list[n].key \in K THEN g[n - 1] ELSE Append(g[n - 1], list[n])

\* The order of the naturals, as the relation that WellFoundedInduction speaks of.
LEMMA NatRel == \A x, y \in Nat : x < y <=> <<x, y>> \in OpToRel(<, Nat)
BY DEF OpToRel

\* Induction over the naturals, as a fact about a set: otherwise the least natural number
\* that is missing has a predecessor that is not.
LEMMA SetInduction ==
    ASSUME NEW S, 0 \in S, \A n \in Nat : n \in S => n + 1 \in S
    PROVE  Nat \subseteq S
<1> SUFFICES ASSUME Nat \ S # {} PROVE FALSE
    OBVIOUS
<1> DEFINE T == Nat \ S
           R == OpToRel(<, Nat)
<1>1. IsWellFoundedOn(R, Nat)
    BY NatLessThanWellFounded
<1>2. T \subseteq Nat /\ T # {}
    OBVIOUS
<1> HIDE DEF R, T
<1>3. PICK x \in T : \A y \in T : ~ (<<y, x>> \in R)
    BY <1>1, <1>2, WFMin
<1>4. x \in Nat /\ x \notin S /\ x # 0
    BY <1>3 DEF T
<1>5. x - 1 \in Nat /\ x - 1 < x
    BY <1>4
<1>6. x - 1 \in T
    BY <1>4, <1>5 DEF T
<1>7. <<x - 1, x>> \in R
    BY <1>4, <1>5, NatRel DEF R
<1> QED
    BY <1>3, <1>6, <1>7

\* The recursive function in Remove exists, by induction on how far it goes.
LEMMA KeptExists ==
    ASSUME NEW S, NEW list \in Seq(S), NEW K
    PROVE  \E g : g = [n \in 0..Len(list) |-> KeptNext(list, K, g, n)]
<1> DEFINE P == {m \in Nat : \E g : g = [n \in 0..m |-> KeptNext(list, K, g, n)]}
<1>1. 0 \in P
  <2> DEFINE g == [n \in 0..0 |-> <<>>]
  <2>1. g = [n \in 0..0 |-> KeptNext(list, K, g, n)]
    BY DEF KeptNext
  <2> QED
    BY <2>1
<1>2. ASSUME NEW m \in Nat, m \in P PROVE m + 1 \in P
  <2>1. PICK g : g = [n \in 0..m |-> KeptNext(list, K, g, n)]
    BY <1>2
  <2> DEFINE h == [n \in 0..(m + 1) |-> IF n <= m THEN g[n] ELSE KeptNext(list, K, g, m + 1)]
  <2>2. \A n \in 0..(m + 1) : h[n] = KeptNext(list, K, h, n)
    <3> SUFFICES ASSUME NEW n \in 0..(m + 1) PROVE h[n] = KeptNext(list, K, h, n)
        OBVIOUS
    <3>1. n # 0 => n - 1 \in 0..m /\ h[n - 1] = g[n - 1]
        OBVIOUS
    <3>2. CASE n <= m
      <4>1. h[n] = g[n] /\ g[n] = KeptNext(list, K, g, n)
        BY <2>1, <3>2
      <4> HIDE DEF h
      <4> QED
        BY <3>1, <4>1 DEF KeptNext
    <3>3. CASE n = m + 1
      <4>1. h[n] = KeptNext(list, K, g, n)
        BY <3>3
      <4> HIDE DEF h
      <4> QED
        BY <3>1, <4>1 DEF KeptNext
    <3> QED
        BY <3>2, <3>3
  <2>3. h = [n \in 0..(m + 1) |-> h[n]]
    OBVIOUS
  <2> HIDE DEF h
  <2>4. h = [n \in 0..(m + 1) |-> KeptNext(list, K, h, n)]
    BY <2>2, <2>3
  <2> QED
    BY <2>4
<1> HIDE DEF P
<1>3. Len(list) \in P
    BY <1>1, <1>2, SetInduction
<1> QED
    BY <1>3 DEF P

\* So Remove is what its definition says.
LEMMA RemoveKept ==
    ASSUME NEW S, NEW list \in Seq(S), NEW K
    PROVE  \E g : /\ Remove(list, K) = g[Len(list)] /\ g[0] = <<>>
                 /\ \A n \in 1..Len(list) :
                       g[n] = IF list[n].key \in K THEN g[n - 1] ELSE Append(g[n - 1], list[n])
<1> DEFINE g == CHOOSE f : f = [n \in 0..Len(list) |-> KeptNext(list, K, f, n)]
<1>1. g = [n \in 0..Len(list) |-> KeptNext(list, K, g, n)]
    BY KeptExists
<1>2. Remove(list, K) = g[Len(list)]
    BY DEF Remove, KeptNext
<1> HIDE DEF g
<1>3. \A n \in 0..Len(list) : g[n] = KeptNext(list, K, g, n)
    BY <1>1
<1>4. Len(list) \in Nat
    OBVIOUS
<1>5. g[0] = <<>>
    BY <1>3, <1>4 DEF KeptNext
<1>6. \A n \in 1..Len(list) : n \in 0..Len(list) /\ n # 0
    BY <1>4
<1> QED
    BY <1>2, <1>3, <1>5, <1>6 DEF KeptNext

\* What is left, s, of the first n nodes of list without those of the keys K.
LeftOf(s, S, list, K, n) ==
    /\ s \in Seq(S) /\ Len(s) <= n
    /\ \A i \in 1..Len(s) : \E j \in 1..n : s[i] = list[j] /\ list[j].key \notin K
    /\ \A j \in 1..n : list[j].key \notin K => \E i \in 1..Len(s) : s[i] = list[j]
    /\ \A j \in 1..n : list[j].key \in K => Len(s) < n
    /\ Distinct(list) => \A i, j \in 1..Len(s) : s[i].key = s[j].key => i = j

\* By induction on n.
LEMMA RemoveLeaves ==
    ASSUME NEW S, NEW list \in Seq(S), NEW K
    PROVE  LeftOf(Remove(list, K), S, list, K, Len(list))
<1>1. PICK g : /\ Remove(list, K) = g[Len(list)] /\ g[0] = <<>>
               /\ \A n \in 1..Len(list) :
                     g[n] = IF list[n].key \in K THEN g[n - 1] ELSE Append(g[n - 1], list[n])
    BY RemoveKept
<1> DEFINE P == {n \in Nat : n <= Len(list) => LeftOf(g[n], S, list, K, n)}
<1>2. 0 \in P
  <2>1. <<>> \in Seq(S) /\ Len(<<>>) = 0 /\ \A i \in 1..0 : FALSE
    OBVIOUS
  <2>2. LeftOf(<<>>, S, list, K, 0)
    BY <2>1 DEF LeftOf
  <2> QED
    BY <1>1, <2>2
<1>3. ASSUME NEW m \in Nat, m \in P PROVE m + 1 \in P
  <2> SUFFICES ASSUME m + 1 <= Len(list)
               PROVE  LeftOf(g[m + 1], S, list, K, m + 1)
    OBVIOUS
  <2> DEFINE s == g[m]
             x == list[m + 1]
  <2>0. LeftOf(s, S, list, K, m) /\ m + 1 \in 1..Len(list) /\ x \in S
    BY <1>3
  <2>1. g[m + 1] = IF x.key \in K THEN s ELSE Append(s, x)
    BY <1>1, <2>0
  <2> HIDE DEF s
  <2>2. CASE x.key \in K
    <3>1. \A j \in 1..(m + 1) : j \in 1..m \/ j = m + 1
        OBVIOUS
    <3>2. \A i \in 1..Len(s) : \E j \in 1..(m + 1) : s[i] = list[j] /\ list[j].key \notin K
      <4> SUFFICES ASSUME NEW i \in 1..Len(s)
                   PROVE  \E j \in 1..(m + 1) : s[i] = list[j] /\ list[j].key \notin K
        OBVIOUS
      <4>1. PICK j \in 1..m : s[i] = list[j] /\ list[j].key \notin K
        BY <2>0 DEF LeftOf
      <4> QED
        BY <4>1
    <3>3. \A j \in 1..(m + 1) : list[j].key \notin K => \E i \in 1..Len(s) : s[i] = list[j]
        BY <2>0, <2>2, <3>1 DEF LeftOf
    <3>4. s \in Seq(S) /\ Len(s) <= m /\ Len(s) < m + 1
        BY <2>0 DEF LeftOf
    <3>5. Distinct(list) => \A i, j \in 1..Len(s) : s[i].key = s[j].key => i = j
        BY <2>0 DEF LeftOf
    <3> QED
        BY <2>1, <2>2, <3>2, <3>3, <3>4, <3>5 DEF LeftOf
  <2>3. CASE x.key \notin K
    <3> DEFINE a == Append(s, x)
    <3>1. /\ s \in Seq(S) /\ a \in Seq(S) /\ Len(a) = Len(s) + 1 /\ Len(s) \in Nat
          /\ a[Len(s) + 1] = x
          /\ \A i \in 1..Len(s) : a[i] = s[i]
        BY <2>0 DEF LeftOf
    <3> HIDE DEF a
    <3>2. \A i \in 1..Len(a) : i \in 1..Len(s) \/ i = Len(s) + 1
        BY <3>1
    <3>3. \A i \in 1..Len(a) : \E j \in 1..(m + 1) : a[i] = list[j] /\ list[j].key \notin K
      <4> SUFFICES ASSUME NEW i \in 1..Len(a)
                   PROVE  \E j \in 1..(m + 1) : a[i] = list[j] /\ list[j].key \notin K
        OBVIOUS
      <4>1. CASE i = Len(s) + 1
        <5>1. m + 1 \in 1..(m + 1)
            OBVIOUS
        <5> QED
            BY <2>3, <3>1, <4>1, <5>1
      <4>2. CASE i \in 1..Len(s)
        <5>1. PICK j \in 1..m : s[i] = list[j] /\ list[j].key \notin K
            BY <2>0, <4>2 DEF LeftOf
        <5> QED
            BY <3>1, <4>2, <5>1
      <4> QED
        BY <3>2, <4>1, <4>2
    <3>4. \A j \in 1..(m + 1) : list[j].key \notin K => \E i \in 1..Len(a) : a[i] = list[j]
      <4> SUFFICES ASSUME NEW j \in 1..(m + 1), list[j].key \notin K
                   PROVE  \E i \in 1..Len(a) : a[i] = list[j]
        OBVIOUS
      <4>1. CASE j = m + 1
        <5>1. Len(s) + 1 \in 1..Len(a)
            BY <3>1
        <5> QED
            BY <3>1, <4>1, <5>1
      <4>2. CASE j \in 1..m
        <5>1. PICK i \in 1..Len(s) : s[i] = list[j]
            BY <2>0, <4>2 DEF LeftOf
        <5> QED
            BY <3>1, <5>1
      <4> QED
        BY <4>1, <4>2
    <3>5. \A j \in 1..(m + 1) : list[j].key \in K => Len(a) < m + 1
      <4> SUFFICES ASSUME NEW j \in 1..(m + 1), list[j].key \in K PROVE Len(a) < m + 1
        OBVIOUS
      <4>1. j \in 1..m
        BY <2>3
      <4>2. Len(s) < m
        BY <2>0, <4>1 DEF LeftOf
      <4> QED
        BY <3>1, <4>2
    <3>6. ASSUME Distinct(list), NEW i \in 1..Len(a), NEW j \in 1..Len(a), a[i].key = a[j].key
          PROVE  i = j
      <4>0. \A k \in 1..Len(s) : s[k].key # x.key
        <5> SUFFICES ASSUME NEW k \in 1..Len(s), s[k].key = x.key PROVE FALSE
            OBVIOUS
        <5>1. PICK o \in 1..m : s[k] = list[o]
            BY <2>0 DEF LeftOf
        <5>2. o \in DOMAIN list /\ m + 1 \in DOMAIN list /\ o # m + 1
            BY <2>0, <5>1
        <5> QED
            BY <3>6, <5>1, <5>2 DEF Distinct
      <4>1. CASE i \in 1..Len(s) /\ j \in 1..Len(s)
        BY <2>0, <3>1, <3>6, <4>1 DEF LeftOf
      <4>2. CASE i = Len(s) + 1 /\ j \in 1..Len(s)
        BY <3>1, <3>6, <4>0, <4>2
      <4>3. CASE i \in 1..Len(s) /\ j = Len(s) + 1
        BY <3>1, <3>6, <4>0, <4>3
      <4> QED
        BY <3>2, <4>1, <4>2, <4>3
    <3>7. Len(a) <= m + 1
        BY <2>0, <3>1 DEF LeftOf
    <3>8. LeftOf(a, S, list, K, m + 1)
        BY <3>1, <3>3, <3>4, <3>5, <3>6, <3>7 DEF LeftOf
    <3> QED
        BY <2>1, <2>3, <3>8 DEF a
  <2> QED
    BY <2>2, <2>3
<1> HIDE DEF P
<1>4. Len(list) \in P
    BY <1>2, <1>3, SetInduction
<1> QED
    BY <1>1, <1>4 DEF P

\* Remove takes the nodes of the keys K out of a list, and no others.
LEMMA RemoveProps ==
    ASSUME NEW S, NEW list \in Seq(S), NEW K
    PROVE  /\ Remove(list, K) \in Seq(S)
           /\ Keys(Remove(list, K)) = Keys(list) \ K
           /\ Len(Remove(list, K)) <= Len(list)
           /\ Keys(list) \cap K # {} => Len(Remove(list, K)) < Len(list)
           /\ Distinct(list) => Distinct(Remove(list, K))
<1> DEFINE s == Remove(list, K)
<1>1. LeftOf(s, S, list, K, Len(list))
    BY RemoveLeaves
<1> HIDE DEF s
<1>2. s \in Seq(S) /\ DOMAIN s = 1..Len(s) /\ DOMAIN list = 1..Len(list)
    BY <1>1 DEF LeftOf
<1>6. /\ \A i \in DOMAIN s : \E j \in DOMAIN list : s[i] = list[j] /\ list[j].key \notin K
      /\ \A j \in DOMAIN list : list[j].key \notin K => \E i \in DOMAIN s : s[i] = list[j]
      /\ \A j \in DOMAIN list : list[j].key \in K => Len(s) < Len(list)
    BY <1>1, <1>2 DEF LeftOf
<1>3. Keys(s) = Keys(list) \ K
  <2>1. ASSUME NEW k \in Keys(s) PROVE k \in Keys(list) \ K
    BY <1>6 DEF Keys
  <2>2. ASSUME NEW k \in Keys(list) \ K PROVE k \in Keys(s)
    BY <1>6 DEF Keys
  <2> QED
    BY <2>1, <2>2
<1>4. Keys(list) \cap K # {} => Len(s) < Len(list)
    BY <1>6 DEF Keys
<1>5. Distinct(list) => Distinct(s)
    BY <1>1, <1>2 DEF LeftOf, Distinct
<1> QED
    BY <1>1, <1>2, <1>3, <1>4, <1>5 DEF s, LeftOf

----------------------------------------------------------------------------
(* The other operations on lists *)

LEMMA PushBackProps ==
    ASSUME NEW KS, NEW list \in Seq(Node(KS)), NEW k \in KS
    PROVE  /\ PushBack(list, k) \in Seq(Node(KS))
           /\ Keys(PushBack(list, k)) = Keys(list) \cup {k}
           /\ Len(PushBack(list, k)) = Len(list) + 1
           /\ Distinct(list) /\ k \notin Keys(list) => Distinct(PushBack(list, k))
<1> DEFINE x == [key |-> k, age |-> 0]
           a == Append(list, x)
<1>1. x \in Node(KS) /\ x.key = k
    BY LRUAssumption DEF Node, Age
<1>2. /\ a \in Seq(Node(KS)) /\ DOMAIN a = 1..(Len(list) + 1) /\ Len(a) = Len(list) + 1
      /\ DOMAIN list = 1..Len(list) /\ Len(list) \in Nat
      /\ \A i \in 1..Len(list) : a[i] = list[i]
      /\ a[Len(list) + 1] = x
    BY <1>1
<1>3. PushBack(list, k) = a
    BY DEF PushBack
<1> HIDE DEF x, a
<1>4. \A i \in DOMAIN a : i \in DOMAIN list \/ i = Len(list) + 1
    BY <1>2
<1>5. \A i \in DOMAIN list : i \in DOMAIN a /\ a[i] = list[i]
    BY <1>2
<1>6. Len(list) + 1 \in DOMAIN a
    BY <1>2
<1>7. Keys(a) = Keys(list) \cup {k}
  <2>1. ASSUME NEW q \in Keys(a) PROVE q \in Keys(list) \cup {k}
    BY <1>1, <1>2, <1>4, <1>5 DEF Keys
  <2>2. ASSUME NEW q \in Keys(list) PROVE q \in Keys(a)
    BY <1>5 DEF Keys
  <2>3. k \in Keys(a)
    BY <1>1, <1>2, <1>6 DEF Keys
  <2> QED
    BY <2>1, <2>2, <2>3
<1>8. Distinct(list) /\ k \notin Keys(list) => Distinct(a)
    BY <1>1, <1>2, <1>4, <1>5 DEF Distinct, Keys
<1> QED
    BY <1>2, <1>3, <1>7, <1>8

\* A list with the same keys in the same places.
LEMMA SameKeys ==
    ASSUME NEW KS, NEW list \in Seq(Node(KS)), NEW new, DOMAIN new = DOMAIN list,
           \A i \in DOMAIN list : new[i].key = list[i].key /\ new[i] \in Node(KS),
           new = [i \in DOMAIN list |-> new[i]]
    PROVE  /\ new \in Seq(Node(KS)) /\ Keys(new) = Keys(list) /\ Len(new) = Len(list)
           /\ Distinct(list) => Distinct(new)
<1>1. new \in [1..Len(list) -> Node(KS)] /\ Len(list) \in Nat
    OBVIOUS
<1>2. new \in Seq(Node(KS)) /\ Len(new) = Len(list)
    BY <1>1
<1>3. Keys(new) = Keys(list)
    BY DEF Keys
<1>4. Distinct(list) => Distinct(new)
    BY DEF Distinct
<1> QED
    BY <1>2, <1>3, <1>4

LEMMA VisitProps ==
    ASSUME NEW KS, NEW list \in Seq(Node(KS)), NEW k
    PROVE  /\ Visit(list, k) \in Seq(Node(KS)) /\ Keys(Visit(list, k)) = Keys(list)
           /\ Len(Visit(list, k)) = Len(list)
           /\ Distinct(list) => Distinct(Visit(list, k))
<1> DEFINE new == Visit(list, k)
<1>1. /\ DOMAIN new = DOMAIN list /\ new = [i \in DOMAIN list |-> new[i]]
      /\ \A i \in DOMAIN list :
            new[i] = IF list[i].key = k THEN [list[i] EXCEPT !.age = 0] ELSE list[i]
    BY DEF Visit
<1> HIDE DEF new
<1>2. \A n \in Node(KS) : [n EXCEPT !.age = 0].key = n.key /\ [n EXCEPT !.age = 0] \in Node(KS)
    BY LRUAssumption DEF Node, Age
<1>3. \A i \in DOMAIN list : list[i] \in Node(KS)
    OBVIOUS
<1>4. \A i \in DOMAIN list : new[i].key = list[i].key /\ new[i] \in Node(KS)
    BY <1>1, <1>2, <1>3
<1>5. /\ new \in Seq(Node(KS)) /\ Keys(new) = Keys(list) /\ Len(new) = Len(list)
      /\ Distinct(list) => Distinct(new)
    BY <1>1, <1>4, SameKeys
<1> QED
    BY <1>5 DEF new

LEMMA OlderProps ==
    ASSUME NEW KS, NEW list \in Seq(Node(KS))
    PROVE  /\ Older(list) \in Seq(Node(KS)) /\ Keys(Older(list)) = Keys(list)
           /\ Len(Older(list)) = Len(list)
           /\ Distinct(list) => Distinct(Older(list))
<1> DEFINE new == Older(list)
           aged(n) == [n EXCEPT !.age = IF Stale(n) THEN @ ELSE @ + 1]
<1>1. /\ DOMAIN new = DOMAIN list /\ new = [i \in DOMAIN list |-> new[i]]
      /\ \A i \in DOMAIN list : new[i] = aged(list[i])
    BY DEF Older
<1> HIDE DEF new
<1>2. \A n \in Node(KS) : aged(n).key = n.key /\ aged(n) \in Node(KS)
    BY LRUAssumption DEF Node, Age, Stale
<1> HIDE DEF aged
<1>3. \A i \in DOMAIN list : list[i] \in Node(KS)
    OBVIOUS
<1>4. \A i \in DOMAIN list : new[i].key = list[i].key /\ new[i] \in Node(KS)
    BY <1>1, <1>2, <1>3
<1>5. /\ new \in Seq(Node(KS)) /\ Keys(new) = Keys(list) /\ Len(new) = Len(list)
      /\ Distinct(list) => Distinct(new)
    BY <1>1, <1>4, SameKeys
<1> QED
    BY <1>5 DEF new

LEMMA MoveToBackProps ==
    ASSUME NEW KS, NEW list \in Seq(Node(KS)), NEW k \in KS
    PROVE  /\ MoveToBack(list, k) \in Seq(Node(KS))
           /\ Keys(MoveToBack(list, k)) = Keys(list) \cup {k}
           /\ k \in Keys(list) => Len(MoveToBack(list, k)) <= Len(list)
           /\ Distinct(list) => Distinct(MoveToBack(list, k))
<1> DEFINE s == Remove(list, {k})
<1>1. /\ s \in Seq(Node(KS)) /\ Keys(s) = Keys(list) \ {k}
      /\ k \in Keys(list) => Len(s) < Len(list)
      /\ Distinct(list) => Distinct(s)
    BY RemoveProps
<1>2. MoveToBack(list, k) = PushBack(s, k)
    BY DEF MoveToBack
<1> HIDE DEF s
<1>3. /\ PushBack(s, k) \in Seq(Node(KS)) /\ Keys(PushBack(s, k)) = Keys(list) \cup {k}
      /\ Len(PushBack(s, k)) = Len(s) + 1
      /\ Distinct(list) => Distinct(PushBack(s, k))
    BY <1>1, PushBackProps
<1>4. Len(s) \in Nat /\ Len(list) \in Nat
    BY <1>1
<1> QED
    BY <1>1, <1>2, <1>3, <1>4

----------------------------------------------------------------------------
(* Lists, indexes and store *)

\* One list, its index and what is stored, between two calls.
BeansSound(list, index, store, bad) ==
    /\ list \in Seq(Node(BeanKey)) /\ index \subseteq BeanKey /\ bad \subseteq BeanKey
    /\ store \in [BeanKey -> Value \cup {None}]
    /\ Distinct(list) /\ Keys(list) = index /\ \A k \in index : store[k] # None \/ k \in bad

IdsSound(list, index, store, bad) ==
    /\ list \in Seq(Node(Sql)) /\ index \subseteq Sql /\ bad \subseteq Sql
    /\ store \in [Sql -> Value \cup {None}]
    /\ Distinct(list) /\ Keys(list) = index /\ \A s \in index : store[s] # None \/ s \in bad

\* The inductive invariant: the types let the lemmas on lists be used, strays bounds what a
\* Get may add, and Indexed what an eviction removes.
LInv == TypeOK /\ Indexed /\ SizeBounded /\ (Outside => strays)

LEMMA SoundUnlocked ==
    ASSUME LInv, Unlocked
    PROVE  BeansSound(idList, idIndex, beans, badBeans) /\ IdsSound(sqlList, sqlIndex, ids, badIds)
BY DEF LInv, TypeOK, Indexed, BeansSound, IdsSound

\* A call that keeps both lists sound, and neither longer than it may be.
LEMMA CallKeeps ==
    ASSUME LInv, Unlocked, UNCHANGED <<mutexHeld, restarted>>, call' \in Call,
           idTables' \subseteq Table, NoteStrays, trusted' \in BOOLEAN,
           BeansSound(idList', idIndex', beans', badBeans'), IdsSound(sqlList', sqlIndex', ids', badIds'),
           ~strays => Len(idList') <= MaxElementSize /\ Len(sqlList') <= MaxElementSize
    PROVE  LInv'
<1>0. strays \in BOOLEAN /\ strays' \in BOOLEAN /\ (Outside' => strays') /\ (strays => strays')
    BY DEF LInv, TypeOK, NoteStrays, Outside
<1>1. TypeOK'
    BY <1>0 DEF LInv, TypeOK, BeansSound, IdsSound
<1>2. Indexed'
    BY DEF Indexed, BeansSound, IdsSound
<1>3. SizeBounded'
    BY <1>0 DEF SizeBounded
<1> QED
    BY <1>0, <1>1, <1>2, <1>3 DEF LInv

LEMMA DropIdsKeeps ==
    ASSUME NEW list, NEW index, NEW store, NEW bad, NEW S, IdsSound(list, index, store, bad),
           DropIds(list, index, store, bad, S)
    PROVE  /\ IdsSound(sqlList', sqlIndex', ids', badIds')
           /\ Len(sqlList') \in Nat /\ Len(list) \in Nat /\ Len(sqlList') <= Len(list)
           /\ S \cap index # {} => Len(sqlList') < Len(list)
<1>1. sqlList' = Remove(list, S \cap index) /\ sqlIndex' = index \ S
    BY DEF DropIds
<1>2. /\ sqlList' \in Seq(Node(Sql)) /\ Keys(sqlList') = index \ S
      /\ Len(sqlList') <= Len(list) /\ Distinct(sqlList')
      /\ S \cap index # {} => Len(sqlList') < Len(list)
    BY <1>1, RemoveProps DEF IdsSound
<1>3. /\ ids' \in [Sql -> Value \cup {None}] /\ badIds' \subseteq Sql
      /\ \A s \in sqlIndex' : ids'[s] # None \/ s \in badIds'
  <2>1. PICK kept \in Undeleted(store, S) :
            /\ ids' = [s \in Sql |-> IF s \in S \ kept THEN None ELSE store[s]]
            /\ badIds' = (bad \ S) \cup kept
    BY DEF DropIds
  <2>2. kept \subseteq S /\ kept \subseteq Sql
    BY DEF IdsSound, Undeleted
  <2> QED
    BY <1>1, <2>1, <2>2 DEF IdsSound
<1>4. Len(sqlList') \in Nat /\ Len(list) \in Nat
    BY <1>2 DEF IdsSound
<1> QED
    BY <1>1, <1>2, <1>3, <1>4 DEF IdsSound

\* delBean, on the beans.
LEMMA DropKeysKeeps ==
    ASSUME NEW list, NEW index, NEW store, NEW bad, NEW K, BeansSound(list, index, store, bad),
           DropKeys(list, index, store, bad, K)
    PROVE  /\ BeansSound(idList', idIndex', beans', badBeans')
           /\ Len(idList') \in Nat /\ Len(list) \in Nat /\ Len(idList') <= Len(list)
           /\ K \cap index # {} => Len(idList') < Len(list)
<1>0. idList' = Remove(list, K \cap index) /\ idIndex' = index \ K
    BY DEF DropKeys
<1>1. /\ idList' \in Seq(Node(BeanKey)) /\ Keys(idList') = index \ K
      /\ Len(idList') <= Len(list) /\ Distinct(idList')
      /\ K \cap index # {} => Len(idList') < Len(list)
    BY <1>0, RemoveProps DEF BeansSound
<1>2. /\ beans' \in [BeanKey -> Value \cup {None}] /\ badBeans' \subseteq BeanKey
      /\ \A k \in idIndex' : beans'[k] # None \/ k \in badBeans'
  <2>1. PICK kept \in Undeleted(store, K) :
            /\ beans' = [k \in BeanKey |-> IF k \in K \ kept THEN None ELSE store[k]]
            /\ badBeans' = (bad \ K) \cup kept
    BY DEF DropKeys
  <2>2. kept \subseteq K /\ kept \subseteq BeanKey
    BY DEF BeansSound, Undeleted
  <2> QED
    BY <1>0, <2>1, <2>2 DEF BeansSound
<1>3. Len(idList') \in Nat /\ Len(list) \in Nat
    BY <1>1 DEF BeansSound
<1> QED
    BY <1>0, <1>1, <1>2, <1>3 DEF BeansSound

LEMMA DropBeansKeeps ==
    ASSUME NEW list, NEW index, NEW store, NEW bad, NEW K, BeansSound(list, index, store, bad),
           IdsSound(sqlList, sqlIndex, ids, badIds), DropBeans(list, index, store, bad, K)
    PROVE  /\ BeansSound(idList', idIndex', beans', badBeans') /\ IdsSound(sqlList', sqlIndex', ids', badIds')
           /\ Len(idList') \in Nat /\ Len(list) \in Nat /\ Len(idList') <= Len(list)
           /\ K \cap index # {} => Len(idList') < Len(list)
           /\ Len(sqlList') \in Nat /\ Len(sqlList) \in Nat /\ Len(sqlList') <= Len(sqlList)
<1>1. \E S : DropIds(sqlList, sqlIndex, ids, badIds, S)
    BY DEF DropBeans
<1>2. DropKeys(list, index, store, bad, K)
    BY DEF DropBeans
<1>3. /\ IdsSound(sqlList', sqlIndex', ids', badIds') /\ Len(sqlList') \in Nat /\ Len(sqlList) \in Nat
      /\ Len(sqlList') <= Len(sqlList)
    BY <1>1, DropIdsKeeps
<1>4. /\ BeansSound(idList', idIndex', beans', badBeans')
      /\ Len(idList') \in Nat /\ Len(list) \in Nat /\ Len(idList') <= Len(list)
      /\ K \cap index # {} => Len(idList') < Len(list)
    BY <1>2, DropKeysKeeps
<1> QED
    BY <1>3, <1>4

\* The front element of a list that is not empty is indexed.
LEMMA HeadKey ==
    ASSUME NEW KS, NEW list \in Seq(Node(KS)), Len(list) > MaxElementSize
    PROVE  Head(list).key \in Keys(list)
<1>1. 1 \in DOMAIN list /\ Head(list) = list[1]
    BY LRUAssumption
<1> QED
    BY <1>1 DEF Keys

\* What PutIds, PutBean make of a list before they evict.
LEMMA PutList ==
    ASSUME NEW KS, NEW list \in Seq(Node(KS)), NEW k \in KS, Distinct(list), NEW new,
           new = IF k \in Keys(list) THEN Visit(list, k) ELSE PushBack(list, k)
    PROVE  /\ new \in Seq(Node(KS)) /\ Distinct(new) /\ Keys(new) = Keys(list) \cup {k}
           /\ Len(new) \in Nat /\ Len(new) <= Len(list) + 1
<1>1. CASE k \in Keys(list)
    BY <1>1, VisitProps
<1>2. CASE k \notin Keys(list)
    BY <1>2, PushBackProps
<1> QED
    BY <1>1, <1>2

LEMMA GetIdsKeeps ==
    ASSUME LInv, NEW s \in Sql, GetIds(s)
    PROVE  LInv'
<1>0. /\ Unlocked /\ UNCHANGED <<mutexHeld, restarted, idTables, beans, idList, idIndex, badBeans>>
      /\ BeansSound(idList, idIndex, beans, badBeans) /\ IdsSound(sqlList, sqlIndex, ids, badIds)
      /\ idTables \subseteq Table /\ MaxElementSize \in Nat /\ NoteStrays
      /\ ~strays => Len(idList) <= MaxElementSize /\ Len(sqlList) <= MaxElementSize
    BY SoundUnlocked, LRUAssumption DEF GetIds, KeepBeans, LInv, TypeOK, SizeBounded
<1>1. CASE GetIdsMisses(s)
  <2>1. call' \in Call /\ trusted' \in BOOLEAN
    BY <1>1 DEF Call, GetIdsMisses
  <2>2. /\ IdsSound(sqlList', sqlIndex', ids', badIds') /\ Len(sqlList') <= Len(sqlList)
        /\ Len(sqlList') \in Nat /\ Len(sqlList) \in Nat
    BY <1>0, <1>1, DropIdsKeeps DEF GetIdsMisses
  <2> QED
    BY <1>0, <2>1, <2>2, CallKeeps
<1>2. CASE GetIdsFinds(s)
  <2>0. /\ ids[s] # None /\ call' = <<"GetIds", s, ids[s]>> /\ UNCHANGED <<ids, badIds>>
        /\ sqlList' = IF s \in sqlIndex THEN MoveToBack(sqlList, s) ELSE PushBack(sqlList, s)
        /\ sqlIndex' = sqlIndex \cup {s} /\ trusted' \in BOOLEAN
    BY <1>2 DEF GetIdsFinds
  <2>1. call' \in Call
    BY <1>0, <2>0 DEF Call, IdsSound
  <2>2. sqlList \in Seq(Node(Sql)) /\ Distinct(sqlList) /\ Keys(sqlList) = sqlIndex
    BY <1>0 DEF IdsSound
  <2>3. CASE s \in sqlIndex
    <3>0. /\ sqlList' \in Seq(Node(Sql)) /\ Distinct(sqlList') /\ Keys(sqlList') = sqlIndex \cup {s}
          /\ Len(sqlList') <= Len(sqlList)
        BY <2>0, <2>2, <2>3, MoveToBackProps
    <3>1. /\ sqlList' \in Seq(Node(Sql)) /\ Distinct(sqlList') /\ Keys(sqlList') = sqlIndex
          /\ Len(sqlList') <= Len(sqlList) /\ Len(sqlList') \in Nat /\ Len(sqlList) \in Nat
        BY <2>2, <2>3, <3>0
    <3>2. IdsSound(sqlList', sqlIndex', ids', badIds')
        BY <1>0, <2>0, <2>3, <3>1 DEF IdsSound
    <3> QED
        BY <1>0, <2>0, <2>1, <3>1, <3>2, CallKeeps
  <2>4. CASE s \notin sqlIndex
    <3>1. strays
        BY <2>0, <2>4 DEF LInv, Outside
    <3>2. /\ sqlList' \in Seq(Node(Sql)) /\ Distinct(sqlList')
          /\ Keys(sqlList') = sqlIndex \cup {s}
        BY <2>0, <2>2, <2>4, PushBackProps
    <3>3. IdsSound(sqlList', sqlIndex', ids', badIds')
        BY <1>0, <2>0, <3>2 DEF IdsSound
    <3> QED
        BY <1>0, <2>0, <2>1, <3>1, <3>3, CallKeeps
  <2> QED
    BY <2>3, <2>4
<1> QED
    BY <1>1, <1>2 DEF GetIds

LEMMA GetBeanKeeps ==
    ASSUME LInv, NEW t \in Table, NEW i \in Id, <<t, i>> \in BeanKey, GetBean(t, i)
    PROVE  LInv'
<1> DEFINE k == <<t, i>>
<1>0. /\ Unlocked /\ UNCHANGED <<mutexHeld, restarted>> /\ k \in BeanKey
      /\ BeansSound(idList, idIndex, beans, badBeans) /\ IdsSound(sqlList, sqlIndex, ids, badIds)
      /\ idTables' \subseteq Table /\ MaxElementSize \in Nat /\ NoteStrays
      /\ ~strays => Len(idList) <= MaxElementSize /\ Len(sqlList) <= MaxElementSize
    BY SoundUnlocked, LRUAssumption DEF GetBean, LInv, TypeOK, SizeBounded
<1>1. GetBeanMisses(k) \/ GetBeanFinds(k)
    BY DEF GetBean
<1> HIDE DEF k
<1>2. CASE GetBeanMisses(k)
  <2>1. call' \in Call /\ trusted' \in BOOLEAN
    BY <1>0, <1>2 DEF Call, GetBeanMisses
  <2>2. /\ BeansSound(idList', idIndex', beans', badBeans') /\ IdsSound(sqlList', sqlIndex', ids', badIds')
        /\ Len(idList') \in Nat /\ Len(idList) \in Nat /\ Len(idList') <= Len(idList)
        /\ Len(sqlList') \in Nat /\ Len(sqlList) \in Nat /\ Len(sqlList') <= Len(sqlList)
    BY <1>0, <1>2, DropBeansKeeps DEF GetBeanMisses
  <2> QED
    BY <1>0, <2>1, <2>2, CallKeeps
<1>3. CASE GetBeanFinds(k)
  <2>0. /\ beans[k] # None /\ call' = <<"GetBean", k, beans[k]>> /\ trusted' \in BOOLEAN
        /\ idList' = IF k \in idIndex THEN MoveToBack(idList, k) ELSE PushBack(idList, k)
        /\ idIndex' = idIndex \cup {k}
        /\ UNCHANGED <<beans, badBeans, ids, badIds, sqlList, sqlIndex>>
    BY <1>3 DEF GetBeanFinds, KeepIds
  <2>1. call' \in Call
    BY <1>0, <2>0 DEF Call, BeansSound
  <2>2. idList \in Seq(Node(BeanKey)) /\ Distinct(idList) /\ Keys(idList) = idIndex
    BY <1>0 DEF BeansSound
  <2>3. CASE k \in idIndex
    <3>0. /\ idList' \in Seq(Node(BeanKey)) /\ Distinct(idList') /\ Keys(idList') = idIndex \cup {k}
          /\ Len(idList') <= Len(idList)
      <4>1. k \in BeanKey /\ idList' = MoveToBack(idList, k) /\ k \in Keys(idList)
        BY <1>0, <2>0, <2>2, <2>3
      <4>2. /\ MoveToBack(idList, k) \in Seq(Node(BeanKey))
            /\ Keys(MoveToBack(idList, k)) = Keys(idList) \cup {k}
            /\ k \in Keys(idList) => Len(MoveToBack(idList, k)) <= Len(idList)
            /\ Distinct(idList) => Distinct(MoveToBack(idList, k))
        BY <2>2, <4>1, MoveToBackProps, Zenon
      <4> QED
        BY <2>2, <4>1, <4>2, Zenon
    <3>1. /\ idList' \in Seq(Node(BeanKey)) /\ Distinct(idList') /\ Keys(idList') = idIndex
          /\ Len(idList') <= Len(idList) /\ Len(idList') \in Nat /\ Len(idList) \in Nat
        BY <2>2, <2>3, <3>0
    <3>2. BeansSound(idList', idIndex', beans', badBeans')
        BY <1>0, <2>0, <2>3, <3>1 DEF BeansSound
    <3> QED
        BY <1>0, <2>0, <2>1, <3>1, <3>2, CallKeeps
  <2>4. CASE k \notin idIndex
    <3>1. strays
        BY <1>0, <2>0, <2>4 DEF LInv, Outside
    <3>2. /\ idList' \in Seq(Node(BeanKey)) /\ Distinct(idList')
          /\ Keys(idList') = idIndex \cup {k}
        BY <1>0, <2>0, <2>2, <2>4, PushBackProps
    <3>3. BeansSound(idList', idIndex', beans', badBeans')
        BY <1>0, <2>0, <3>2 DEF BeansSound
    <3> QED
        BY <1>0, <2>0, <2>1, <3>1, <3>3, CallKeeps
  <2> QED
    BY <2>3, <2>4
<1> QED
    BY <1>1, <1>2, <1>3

LEMMA PutIdsKeeps ==
    ASSUME LInv, NEW s \in Sql, NEW v \in Value, PutIds(s, v)
    PROVE  LInv'
<1> DEFINE list == IF s \in sqlIndex THEN Visit(sqlList, s) ELSE PushBack(sqlList, s)
           over == Overflow(list)
           index == sqlIndex \cup {s}
<1>0. /\ Unlocked /\ UNCHANGED <<mutexHeld, restarted, idTables, beans, idList, idIndex, badBeans>>
      /\ BeansSound(idList, idIndex, beans, badBeans) /\ IdsSound(sqlList, sqlIndex, ids, badIds)
      /\ idTables \subseteq Table /\ MaxElementSize \in Nat /\ NoteStrays
      /\ ~strays => Len(idList) <= MaxElementSize /\ Len(sqlList) <= MaxElementSize
    BY SoundUnlocked, LRUAssumption DEF PutIds, KeepBeans, LInv, TypeOK, SizeBounded
<1>1. call' \in Call /\ trusted' \in BOOLEAN
    BY DEF PutIds, Call
<1>a. PICK ok \in BOOLEAN :
          DropIds(list, index, Put(ids, s, v, ok), BadAfterPut(badIds, s, ok), over)
    BY DEF PutIds
<1> DEFINE store == Put(ids, s, v, ok)
           bad == BadAfterPut(badIds, s, ok)
<1>2. /\ list \in Seq(Node(Sql)) /\ Distinct(list) /\ Keys(list) = index
      /\ Len(list) \in Nat /\ Len(list) <= Len(sqlList) + 1
    BY <1>0, PutList DEF IdsSound
<1>3. over = IF Len(list) > MaxElementSize THEN {Head(list).key} ELSE {}
    BY DEF Overflow
<1>4. /\ store \in [Sql -> Value \cup {None}] /\ bad \subseteq Sql
      /\ \A q \in index : store[q] # None \/ q \in bad
    BY <1>0, LRUAssumption DEF IdsSound, Put, BadAfterPut
<1> HIDE DEF list, over, store, bad
<1>5. IdsSound(list, index, store, bad)
    BY <1>0, <1>2, <1>4 DEF IdsSound
<1>6. /\ IdsSound(sqlList', sqlIndex', ids', badIds') /\ Len(sqlList') \in Nat
      /\ Len(sqlList') <= Len(list)
      /\ over \cap index # {} => Len(sqlList') < Len(list)
    BY <1>a, <1>5, DropIdsKeeps DEF store, bad
<1>7. Len(list) > MaxElementSize => over \cap index # {}
    BY <1>2, <1>3, HeadKey
<1>8. ~strays => Len(sqlList') <= MaxElementSize
  <2>1. Len(sqlList) \in Nat
    BY <1>0 DEF IdsSound
  <2> QED
    BY <1>0, <1>2, <1>6, <1>7, <2>1
<1> QED
    BY <1>0, <1>1, <1>6, <1>8, CallKeeps

LEMMA PutBeanKeeps ==
    ASSUME LInv, NEW t \in Table, NEW i \in Id, <<t, i>> \in BeanKey, NEW v \in Value, PutBean(t, i, v)
    PROVE  LInv'
<1> DEFINE k == <<t, i>>
           list == IF k \in idIndex THEN Visit(idList, k) ELSE PushBack(idList, k)
           over == Overflow(list)
           index == idIndex \cup {k}
<1>0. /\ Unlocked /\ UNCHANGED <<mutexHeld, restarted, idTables>> /\ k \in BeanKey
      /\ BeansSound(idList, idIndex, beans, badBeans) /\ IdsSound(sqlList, sqlIndex, ids, badIds)
      /\ idTables \subseteq Table /\ MaxElementSize \in Nat /\ NoteStrays
      /\ ~strays => Len(idList) <= MaxElementSize /\ Len(sqlList) <= MaxElementSize
    BY SoundUnlocked, LRUAssumption DEF PutBean, LInv, TypeOK, SizeBounded
<1>1. call' = <<"PutBean", k, v>> /\ trusted' \in BOOLEAN
    BY DEF PutBean
<1>a. PICK ok \in BOOLEAN :
          DropBeans(list, index, Put(beans, k, v, ok), BadAfterPut(badBeans, k, ok), over)
    BY DEF PutBean
<1> DEFINE store == Put(beans, k, v, ok)
           bad == BadAfterPut(badBeans, k, ok)
<1> HIDE DEF k
<1>2. /\ list \in Seq(Node(BeanKey)) /\ Distinct(list) /\ Keys(list) = index
      /\ Len(list) \in Nat /\ Len(list) <= Len(idList) + 1
  <2>1. k \in BeanKey /\ idList \in Seq(Node(BeanKey)) /\ Distinct(idList)
        /\ Keys(idList) = idIndex
    BY <1>0 DEF BeansSound
  <2>2. list = IF k \in Keys(idList) THEN Visit(idList, k) ELSE PushBack(idList, k)
    BY <2>1
  <2> HIDE DEF list
  <2>3. /\ list \in Seq(Node(BeanKey)) /\ Distinct(list) /\ Keys(list) = Keys(idList) \cup {k}
        /\ Len(list) \in Nat /\ Len(list) <= Len(idList) + 1
    <3>1. Visit(idList, k) \in Seq(Node(BeanKey)) /\ Keys(Visit(idList, k)) = Keys(idList)
          /\ Len(Visit(idList, k)) = Len(idList) /\ Distinct(Visit(idList, k))
      BY <2>1, VisitProps
    <3>2. /\ PushBack(idList, k) \in Seq(Node(BeanKey))
          /\ Keys(PushBack(idList, k)) = Keys(idList) \cup {k}
          /\ Len(PushBack(idList, k)) = Len(idList) + 1
          /\ k \notin Keys(idList) => Distinct(PushBack(idList, k))
      BY <2>1, PushBackProps
    <3>3. Len(idList) \in Nat
      BY <2>1
    <3>4. CASE k \in Keys(idList)
      BY <2>2, <3>1, <3>3, <3>4
    <3>5. CASE k \notin Keys(idList)
      BY <2>2, <3>2, <3>3, <3>5
    <3> QED
      BY <3>4, <3>5
  <2> QED
    BY <2>1, <2>3
<1>3. over = IF Len(list) > MaxElementSize THEN {Head(list).key} ELSE {}
    BY DEF Overflow
<1>4. /\ store \in [BeanKey -> Value \cup {None}] /\ bad \subseteq BeanKey
      /\ \A q \in index : store[q] # None \/ q \in bad
    BY <1>0, LRUAssumption DEF BeansSound, Put, BadAfterPut
<1> HIDE DEF list, over, store, bad
<1>5. BeansSound(list, index, store, bad)
    BY <1>0, <1>2, <1>4 DEF BeansSound
<1>6. /\ BeansSound(idList', idIndex', beans', badBeans') /\ IdsSound(sqlList', sqlIndex', ids', badIds')
      /\ Len(idList') \in Nat /\ Len(idList') <= Len(list)
      /\ over \cap index # {} => Len(idList') < Len(list)
      /\ Len(sqlList') \in Nat /\ Len(sqlList) \in Nat /\ Len(sqlList') <= Len(sqlList)
    BY <1>0, <1>a, <1>5, DropBeansKeeps DEF store, bad
<1>7. Len(list) > MaxElementSize => over \cap index # {}
    BY <1>2, <1>3, HeadKey
<1>8. ~strays => Len(idList') <= MaxElementSize /\ Len(sqlList') <= MaxElementSize
  <2>1. Len(idList) \in Nat
    BY <1>0 DEF BeansSound
  <2> QED
    BY <1>0, <1>2, <1>6, <1>7, <2>1
<1>9. call' \in Call
    BY <1>0, <1>1 DEF Call
<1> QED
    BY <1>0, <1>1, <1>6, <1>8, <1>9, CallKeeps

LEMMA DelKeeps ==
    ASSUME LInv,
           \/ \E s \in Sql : DelIds(s)
           \/ \E t \in Table : ClearIds(t) \/ \E i \in Id : <<t, i>> \in BeanKey /\ DelBean(t, i)
    PROVE  LInv'
<1>0. /\ Unlocked /\ UNCHANGED <<mutexHeld, restarted, idTables>> /\ trusted' \in BOOLEAN
      /\ BeansSound(idList, idIndex, beans, badBeans) /\ IdsSound(sqlList, sqlIndex, ids, badIds)
      /\ idTables \subseteq Table /\ MaxElementSize \in Nat /\ NoteStrays
      /\ ~strays => Len(idList) <= MaxElementSize /\ Len(sqlList) <= MaxElementSize
    BY SoundUnlocked, LRUAssumption DEF DelIds, ClearIds, DelBean, LInv, TypeOK, SizeBounded
<1>1. call' \in Call
  <2>1. ASSUME NEW s \in Sql, DelIds(s) PROVE call' \in Call
    BY <2>1 DEF DelIds, Call
  <2>2. ASSUME NEW t \in Table, ClearIds(t) PROVE call' \in Call
    BY <2>2 DEF ClearIds, Call
  <2>3. ASSUME NEW t \in Table, NEW i \in Id, <<t, i>> \in BeanKey, DelBean(t, i) PROVE call' \in Call
    BY <2>3 DEF DelBean, Call
  <2> QED
    BY <2>1, <2>2, <2>3
<1>2. CASE /\ \E S : DropIds(sqlList, sqlIndex, ids, badIds, S)
           /\ UNCHANGED <<beans, idList, idIndex, badBeans>>
  <2>1. /\ IdsSound(sqlList', sqlIndex', ids', badIds') /\ Len(sqlList') \in Nat
        /\ Len(sqlList) \in Nat /\ Len(sqlList') <= Len(sqlList)
    BY <1>0, <1>2, DropIdsKeeps
  <2> QED
    BY <1>0, <1>1, <1>2, <2>1, CallKeeps
<1>3. CASE \E K : DropBeans(idList, idIndex, beans, badBeans, K)
  <2>1. /\ BeansSound(idList', idIndex', beans', badBeans') /\ IdsSound(sqlList', sqlIndex', ids', badIds')
        /\ Len(idList') \in Nat /\ Len(idList) \in Nat /\ Len(idList') <= Len(idList)
        /\ Len(sqlList') \in Nat /\ Len(sqlList) \in Nat /\ Len(sqlList') <= Len(sqlList)
    BY <1>0, <1>3, DropBeansKeeps
  <2> QED
    BY <1>0, <1>1, <2>1, CallKeeps
<1> QED
    BY <1>2, <1>3 DEF DelIds, ClearIds, DelBean, KeepBeans

LEMMA ClearBeansKeeps ==
    ASSUME LInv, NEW t \in Table, ClearBeans(t)
    PROVE  LInv'
<1> DEFINE cleared == {k \in idIndex : k[1] = t}
<1>0. /\ Unlocked /\ UNCHANGED <<mutexHeld, restarted, ids, sqlList, sqlIndex, badIds>>
      /\ trusted' \in BOOLEAN
      /\ BeansSound(idList, idIndex, beans, badBeans) /\ IdsSound(sqlList, sqlIndex, ids, badIds)
      /\ idTables' \subseteq Table /\ MaxElementSize \in Nat /\ NoteStrays
      /\ ~strays => Len(idList) <= MaxElementSize /\ Len(sqlList) <= MaxElementSize
    BY SoundUnlocked, LRUAssumption DEF ClearBeans, KeepIds, LInv, TypeOK, SizeBounded
<1>1. call' \in Call
    BY DEF Call, ClearBeans
<1>2. DropKeys(idList, idIndex, beans, badBeans, cleared)
    BY DEF ClearBeans
<1> HIDE DEF cleared
<1>3. /\ BeansSound(idList', idIndex', beans', badBeans')
      /\ Len(idList') \in Nat /\ Len(idList) \in Nat /\ Len(idList') <= Len(idList)
    BY <1>0, <1>2, DropKeysKeeps
<1> QED
    BY <1>0, <1>1, <1>3, CallKeeps

LEMMA GCKeeps ==
    ASSUME LInv, GC
    PROVE  LInv'
<1>0. /\ Unlocked /\ UNCHANGED <<mutexHeld, restarted, idTables, call, trusted>>
      /\ BeansSound(idList, idIndex, beans, badBeans) /\ IdsSound(sqlList, sqlIndex, ids, badIds)
      /\ idTables \subseteq Table /\ MaxElementSize \in Nat /\ call \in Call
      /\ trusted \in BOOLEAN /\ NoteStrays
      /\ ~strays => Len(idList) <= MaxElementSize /\ Len(sqlList) <= MaxElementSize
    BY SoundUnlocked, LRUAssumption DEF GC, LInv, TypeOK, SizeBounded
<1>1. PICK K, S : /\ DropKeys(idList, idIndex, beans, badBeans, K)
                  /\ DropIds(sqlList, sqlIndex, ids, badIds, S)
    BY DEF GC
<1>2. /\ IdsSound(sqlList', sqlIndex', ids', badIds') /\ Len(sqlList') \in Nat
      /\ Len(sqlList) \in Nat /\ Len(sqlList') <= Len(sqlList)
    BY <1>0, <1>1, DropIdsKeeps
<1>3. /\ BeansSound(idList', idIndex', beans', badBeans')
      /\ Len(idList') \in Nat /\ Len(idList) \in Nat /\ Len(idList') <= Len(idList)
    BY <1>0, <1>1, DropKeysKeeps
<1> QED
    BY <1>0, <1>2, <1>3, CallKeeps

\* A panic leaves a node that is not indexed, behind a mutex that stays locked.
LEMMA PutBeanPanicsKeeps ==
    ASSUME LInv, NEW t \in Table, NEW i \in Id, <<t, i>> \in BeanKey, PutBeanPanics(t, i)
    PROVE  LInv'
<1>1. mutexHeld' = TRUE /\ idList' = PushBack(idList, <<t, i>>)
      /\ UNCHANGED <<beans, ids, call, sqlList, sqlIndex, idIndex, idTables, restarted, badBeans,
                     badIds, strays, trusted>>
    BY DEF PutBeanPanics, KeepIds
<1>2. idList' \in Seq(Node(BeanKey))
    BY <1>1, PushBackProps DEF LInv, TypeOK
<1>3. TypeOK'
    BY <1>1, <1>2 DEF LInv, TypeOK
<1> QED
    BY <1>1, <1>3 DEF LInv, Indexed, SizeBounded, Unlocked, Outside

LEMMA TickKeeps ==
    ASSUME LInv, Tick
    PROVE  LInv'
<1>1. /\ idList' = Older(idList) /\ sqlList' = Older(sqlList)
      /\ UNCHANGED <<beans, ids, call, idIndex, sqlIndex, idTables, mutexHeld, restarted, badBeans,
                     badIds, strays, trusted>>
    BY DEF Tick
<1>2. /\ idList' \in Seq(Node(BeanKey)) /\ Keys(idList') = Keys(idList)
      /\ Len(idList') = Len(idList) /\ (Distinct(idList) => Distinct(idList'))
    BY <1>1, OlderProps DEF LInv, TypeOK
<1>3. /\ sqlList' \in Seq(Node(Sql)) /\ Keys(sqlList') = Keys(sqlList)
      /\ Len(sqlList') = Len(sqlList) /\ (Distinct(sqlList) => Distinct(sqlList'))
    BY <1>1, OlderProps DEF LInv, TypeOK
<1>4. TypeOK'
    BY <1>1, <1>2, <1>3 DEF LInv, TypeOK
<1>5. Indexed'
    BY <1>1, <1>2, <1>3 DEF LInv, Indexed, Unlocked
<1>6. SizeBounded'
    BY <1>1, <1>2, <1>3 DEF LInv, SizeBounded, Unlocked
<1> QED
    BY <1>1, <1>4, <1>5, <1>6 DEF LInv, Outside

LEMMA EmptyLists ==
    /\ \A KS : <<>> \in Seq(Node(KS))
    /\ Keys(<<>>) = {} /\ Distinct(<<>>) /\ Len(<<>>) = 0
BY DEF Keys, Distinct

LEMMA RestartKeeps ==
    ASSUME LInv, Restart
    PROVE  LInv'
<1>0. strays' \in BOOLEAN /\ (Outside' => strays')
    BY DEF LInv, TypeOK, Restart, NoteStrays, Outside
<1>1. TypeOK'
    BY <1>0, EmptyLists DEF LInv, TypeOK, Restart, Call
<1>2. Indexed'
    BY EmptyLists DEF Indexed, Restart
<1>3. SizeBounded'
    BY EmptyLists, LRUAssumption DEF SizeBounded, Restart
<1> QED
    BY <1>0, <1>1, <1>2, <1>3 DEF LInv

LEMMA InitLists == Init => LInv
<1> SUFFICES ASSUME Init PROVE LInv
    OBVIOUS
<1>1. TypeOK
    BY EmptyLists DEF TypeOK, Init, Call
<1>2. Indexed
    BY EmptyLists DEF Indexed, Init
<1>3. SizeBounded
    BY EmptyLists, LRUAssumption DEF SizeBounded, Init
<1>4. ~Outside
    BY DEF Outside, Init
<1> QED
    BY <1>1, <1>2, <1>3, <1>4 DEF LInv

LEMMA NextLists == LInv /\ [Next]_vars => LInv'
<1> SUFFICES ASSUME LInv, [Next]_vars PROVE LInv'
    OBVIOUS
<1>1. CASE UNCHANGED vars
    BY <1>1 DEF vars, LInv, TypeOK, Indexed, SizeBounded, Unlocked, Outside
<1>2. CASE Next
  <2>1. CASE \E s \in Sql : GetIds(s) \/ DelIds(s) \/ \E v \in Value : PutIds(s, v)
    BY <2>1, GetIdsKeeps, PutIdsKeeps, DelKeeps
  <2>2. CASE \E t \in Table, i \in Id :
                /\ <<t, i>> \in BeanKey
                /\ \/ GetBean(t, i) \/ DelBean(t, i) \/ PutBeanPanics(t, i)
                   \/ \E v \in Value : PutBean(t, i, v)
    BY <2>2, GetBeanKeeps, PutBeanKeeps, DelKeeps, PutBeanPanicsKeeps
  <2>3. CASE \E t \in Table : ClearIds(t) \/ ClearBeans(t)
    BY <2>3, DelKeeps, ClearBeansKeeps
  <2>4. CASE GC \/ Tick \/ Restart
    BY <2>4, GCKeeps, TickKeeps, RestartKeeps
  <2> QED
    BY <1>2, <2>1, <2>2, <2>3, <2>4 DEF Next
<1> QED
    BY <1>1, <1>2

\* The type invariant, through restarts and after a panic: the lists are sequences of nodes of
\* known keys with an age that stops at the first that is expired.
THEOREM LRUTyped == Spec => []TypeOK
<1>1. LInv => TypeOK
    BY DEF LInv
<1> QED
    BY <1>1, InitLists, NextLists, PTL DEF Spec

\* A node per indexed key, an index entry per node and a stored value for each, or a key whose
\* last Put the store failed, for any number of tables, ids and queries and any bounds: the
\* helpers of lru.go change list, index and store together, GetBean and GetIds re-index what a
\* restart or a failed Del left in the store, and only the panic of PutBean, which keeps the
\* mutex, breaks it.
THEOREM ListsIndexed == Spec => []Indexed
<1>1. LInv => Indexed
    BY DEF LInv
<1> QED
    BY <1>1, InitLists, NextLists, PTL DEF Spec

\* As long as no stored value has been outside the index no list is longer than
\* MaxElementSize between two calls, for any bound of at least one element: only the Puts of
\* lru.go lengthen a list, and each evicts.
THEOREM ListsBounded == Spec => []SizeBounded
<1>1. LInv => SizeBounded
    BY DEF LInv
<1> QED
    BY <1>1, InitLists, NextLists, PTL DEF Spec
=============================================================================

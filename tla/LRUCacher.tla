----------------------------- MODULE LRUCacher -----------------------------
(***************************************************************************)
(* caches.LRUCacher over a CacheStore.  Every exported method holds the    *)
(* mutex from start to end, so each is one step; goroutines interleave     *)
(* between steps.  The two lists are sequences of nodes, the front first.  *)
(* A node carries its age, the time since lastVisit, which Tick advances   *)
(* up to the first age that counts as expired.                             *)
(*                                                                         *)
(* beans and ids are the contents of the store, a MemoryStore or a         *)
(* LevelDBStore.  The cacher ignores the errors of Put and Del and takes   *)
(* any error of Get for a missing value; every call of the store may fail  *)
(* here, as those of a LevelDBStore may and those of a MemoryStore never   *)
(* do.  A LevelDBStore outlives the process while lists and indexes do     *)
(* not: restarted says that the store holds what an earlier process has    *)
(* put there.                                                              *)
(***************************************************************************)
EXTENDS Naturals, Sequences

CONSTANTS Table, Id, BeanKey, Sql, SqlTable, Value, None,   \* as in Cacher
          MaxElementSize,     \* as in the code
          Expired,            \* in ticks
          CacheGcMaxRemoved   \* as in the code

ASSUME LRUAssumption ==
    /\ BeanKey \subseteq Table \X Id /\ SqlTable \in [Sql -> Table] /\ None \notin Value
    /\ MaxElementSize \in Nat \ {0} /\ Expired \in Nat /\ CacheGcMaxRemoved \in Nat

VARIABLES
    beans, ids, call,    \* as in Cacher
    idList, sqlList,     \* sequences of nodes
    idIndex,             \* the <<table, id>> pairs indexed
    sqlIndex,            \* the SQL texts indexed
    idTables,            \* the tables whose map in idIndex has been made
    mutexHeld,           \* a panic left the mutex locked
    restarted,           \* the store was filled by an earlier process
    badBeans, badIds,    \* history: the keys whose last Put or Del the store failed
    strays,              \* history: the store has held a value that was not indexed
    trusted              \* history: the last Get was not of such a key

vars == <<beans, ids, call, idList, sqlList, idIndex, sqlIndex, idTables, mutexHeld,
          restarted, badBeans, badIds, strays, trusted>>

Age == 0..(Expired + 1)
NoCall == <<"none", None, None>>
Call ==
    ({"GetBean", "PutBean", "DelBean"} \X BeanKey \X (Value \cup {None}))
    \cup ({"GetIds", "PutIds", "DelIds"} \X Sql \X (Value \cup {None}))
    \cup ({"ClearBeans", "ClearIds"} \X Table \X {None})
    \cup {NoCall}
Node(K) == [key : K, age : Age]
Stale(n) == n.age > Expired

TypeOK ==
    /\ beans \in [BeanKey -> Value \cup {None}]
    /\ ids \in [Sql -> Value \cup {None}]
    /\ call \in Call
    /\ idList \in Seq(Node(BeanKey)) /\ sqlList \in Seq(Node(Sql))
    /\ idIndex \subseteq BeanKey /\ sqlIndex \subseteq Sql
    /\ idTables \subseteq Table
    /\ mutexHeld \in BOOLEAN /\ restarted \in BOOLEAN
    /\ badBeans \subseteq BeanKey /\ badIds \subseteq Sql
    /\ strays \in BOOLEAN /\ trusted \in BOOLEAN

Init ==
    /\ beans = [k \in BeanKey |-> None]
    /\ ids = [s \in Sql |-> None]
    /\ call = NoCall
    /\ idList = <<>> /\ sqlList = <<>>
    /\ idIndex = {} /\ sqlIndex = {}
    /\ idTables = {}
    /\ mutexHeld = FALSE /\ restarted = FALSE
    /\ badBeans = {} /\ badIds = {} /\ strays = FALSE /\ trusted = TRUE

----------------------------------------------------------------------------
(* Lists *)

PushBack(list, k) == Append(list, [key |-> k, age |-> 0])

\* The list without the nodes of the keys K; kept[n] is what is left of its first n.
Remove(list, K) ==
    LET kept[n \in 0..Len(list)] ==
            IF n = 0 THEN <<>>
            ELSE IF list[n].key \in K THEN kept[n - 1]
            ELSE Append(kept[n - 1], list[n])
    IN  kept[Len(list)]

Visit(list, k) == [i \in DOMAIN list |->
                      IF list[i].key = k THEN [list[i] EXCEPT !.age = 0] ELSE list[i]]
MoveToBackTwice(list, k) == PushBack(list, k)
MoveToBack(list, k) == PushBack(Remove(list, {k}), k)
IsStale(list, k) == \E j \in DOMAIN list : list[j].key = k /\ Stale(list[j])

----------------------------------------------------------------------------
(* The store: Put, and Del of several keys, may each fail *)

PutOnce(store, k, v, ok) ==
    IF ok /\ store[k] = None THEN [store EXCEPT ![k] = v] ELSE store

\* What a map of the store holds after Put, and which keys are then bad.
Put(store, k, v, ok) == IF ok THEN [store EXCEPT ![k] = v] ELSE store
BadAfterPut(bad, k, ok) == IF ok THEN bad \ {k} ELSE bad \cup {k}

\* The keys of K that a Del may fail to delete.
Undeleted(store, K) == SUBSET {k \in DOMAIN store : k \in K /\ store[k] # None}

----------------------------------------------------------------------------
(* The unexported helpers, on the keys they delete *)

SqlsOf(T) == {s \in Sql : SqlTable[s] \in T}

DropIdsKeepsStored(list, index, store, bad, S) ==
    /\ sqlList' = Remove(list, S \cap index)
    /\ sqlIndex' = index \ S
    /\ ids' = store
    /\ badIds' = bad

\* Del of the SQL texts S in the list, the index and the store: delIds, and
\* clearIds when S is what is indexed for a table.
DropIds(list, index, store, bad, S) ==
    /\ sqlList' = Remove(list, S \cap index)
    /\ sqlIndex' = index \ S
    /\ \E kept \in Undeleted(store, S) :
          /\ ids' = [s \in Sql |-> IF s \in S \ kept THEN None ELSE store[s]]
          /\ badIds' = (bad \ S) \cup kept

\* The same for beans, without what delBean does to the id lists.
DropKeys(list, index, store, bad, K) ==
    /\ idList' = Remove(list, K \cap index)
    /\ idIndex' = index \ K
    /\ \E kept \in Undeleted(store, K) :
          /\ beans' = [k \in BeanKey |-> IF k \in K \ kept THEN None ELSE store[k]]
          /\ badBeans' = (bad \ K) \cup kept

DropBeansKeepsIds(list, index, store, bad, K) ==
    /\ DropKeys(list, index, store, bad, K)
    /\ UNCHANGED <<ids, sqlList, sqlIndex, badIds>>

\* delBean of the keys K: for a key that is indexed, all id lists of its table go.
DropBeans(list, index, store, bad, K) ==
    LET cleared == SqlsOf({k[1] : k \in K \cap index}) \cap sqlIndex IN
    /\ DropKeys(list, index, store, bad, K)
    /\ DropIds(sqlList, sqlIndex, ids, badIds, cleared)

OverflowLate(list) == IF Len(list) > MaxElementSize + 1 THEN {Head(list).key} ELSE {}

\* The element PutIds and PutBean evict.
Overflow(list) == IF Len(list) > MaxElementSize THEN {Head(list).key} ELSE {}

Unlocked == ~mutexHeld
KeepBeans == UNCHANGED <<beans, idList, idIndex, badBeans>>
KeepIds == UNCHANGED <<ids, sqlList, sqlIndex, badIds>>

\* Some stored value is not indexed.
Outside == \/ \E k \in BeanKey : beans[k] # None /\ k \notin idIndex
           \/ \E s \in Sql : ids[s] # None /\ s \notin sqlIndex
NoteStrays == strays' = (strays \/ Outside')

----------------------------------------------------------------------------
(* The methods of Cacher *)

\* store.Get fails or finds nothing, or the element has expired.
GetIdsMisses(s) ==
    /\ DropIds(sqlList, sqlIndex, ids, badIds, {s})
    /\ call' = <<"GetIds", s, None>> /\ trusted' = TRUE

GetIdsFinds(s) ==
    /\ ids[s] # None /\ ~(s \in sqlIndex /\ IsStale(sqlList, s))
    /\ sqlList' = IF s \in sqlIndex THEN MoveToBack(sqlList, s) ELSE PushBack(sqlList, s)
    /\ sqlIndex' = sqlIndex \cup {s}
    /\ call' = <<"GetIds", s, ids[s]>> /\ trusted' = (s \notin badIds)
    /\ UNCHANGED <<ids, badIds>>

GetIds(s) ==
    /\ Unlocked
    /\ GetIdsMisses(s) \/ GetIdsFinds(s)
    /\ KeepBeans /\ NoteStrays /\ UNCHANGED <<idTables, mutexHeld, restarted>>

GetBeanMisses(k) ==
    /\ DropBeans(idList, idIndex, beans, badBeans, {k})
    /\ call' = <<"GetBean", k, None>> /\ trusted' = TRUE

GetBeanFinds(k) ==
    /\ beans[k] # None /\ ~(k \in idIndex /\ IsStale(idList, k))
    /\ idList' = IF k \in idIndex THEN MoveToBack(idList, k) ELSE PushBack(idList, k)
    /\ idIndex' = idIndex \cup {k}
    /\ call' = <<"GetBean", k, beans[k]>> /\ trusted' = (k \notin badBeans)
    /\ KeepIds /\ UNCHANGED <<beans, badBeans>>

GetBean(t, i) ==
    /\ Unlocked
    /\ GetBeanMisses(<<t, i>>) \/ GetBeanFinds(<<t, i>>)
    /\ idTables' = idTables \cup {t}
    /\ NoteStrays /\ UNCHANGED <<mutexHeld, restarted>>

ClearIds(t) ==
    /\ Unlocked
    /\ DropIds(sqlList, sqlIndex, ids, badIds, SqlsOf({t}) \cap sqlIndex)
    /\ call' = <<"ClearIds", t, None>> /\ trusted' = TRUE
    /\ KeepBeans /\ NoteStrays /\ UNCHANGED <<idTables, mutexHeld, restarted>>

\* clearBeans leaves the id lists alone.
ClearBeans(t) ==
    /\ Unlocked
    /\ DropKeys(idList, idIndex, beans, badBeans, {k \in idIndex : k[1] = t})
    /\ idTables' = idTables \cup {t}
    /\ call' = <<"ClearBeans", t, None>> /\ trusted' = TRUE
    /\ KeepIds /\ NoteStrays /\ UNCHANGED <<mutexHeld, restarted>>

\* PutIds and PutBean refresh an element that is there without moving it, and remove
\* the front element when the list has become too long.
PutIds(s, v) ==
    LET list == IF s \in sqlIndex THEN Visit(sqlList, s) ELSE PushBack(sqlList, s) IN
    /\ Unlocked
    /\ \E ok \in BOOLEAN :
          DropIds(list, sqlIndex \cup {s}, Put(ids, s, v, ok), BadAfterPut(badIds, s, ok),
                  Overflow(list))
    /\ call' = <<"PutIds", s, v>> /\ trusted' = TRUE
    /\ KeepBeans /\ NoteStrays /\ UNCHANGED <<idTables, mutexHeld, restarted>>

PutBean(t, i, v) ==
    LET k == <<t, i>>
        list == IF k \in idIndex THEN Visit(idList, k) ELSE PushBack(idList, k)
    IN
    /\ Unlocked
    /\ t \in idTables
    /\ \E ok \in BOOLEAN :
          DropBeans(list, idIndex \cup {k}, Put(beans, k, v, ok),
                    BadAfterPut(badBeans, k, ok), Overflow(list))
    /\ call' = <<"PutBean", k, v>> /\ trusted' = TRUE
    /\ NoteStrays /\ UNCHANGED <<idTables, mutexHeld, restarted>>

\* m.idIndex[tableName][id] = el on a table whose map was never made: the node is in
\* the list, the assignment panics, and the mutex is not unlocked.
PutBeanPanics(t, i) ==
    /\ Unlocked
    /\ t \notin idTables
    /\ idList' = PushBack(idList, <<t, i>>)
    /\ mutexHeld' = TRUE
    /\ KeepIds
    /\ UNCHANGED <<beans, badBeans, call, idIndex, idTables, restarted, strays, trusted>>

DelIds(s) ==
    /\ Unlocked
    /\ DropIds(sqlList, sqlIndex, ids, badIds, {s})
    /\ call' = <<"DelIds", s, None>> /\ trusted' = TRUE
    /\ KeepBeans /\ NoteStrays /\ UNCHANGED <<idTables, mutexHeld, restarted>>

DelBean(t, i) ==
    /\ Unlocked
    /\ DropBeans(idList, idIndex, beans, badBeans, {<<t, i>>})
    /\ call' = <<"DelBean", <<t, i>>, None>> /\ trusted' = TRUE
    /\ NoteStrays /\ UNCHANGED <<idTables, mutexHeld, restarted>>

----------------------------------------------------------------------------
(* Time, garbage collection, restart *)

\* How many elements one GC removes from the front of a list.
Removable(list) ==
    CHOOSE n \in 0..Len(list) :
        /\ n <= CacheGcMaxRemoved + 1
        /\ \A j \in 1..n : Stale(list[j])
        /\ \/ n = Len(list) \/ n = CacheGcMaxRemoved + 1
           \/ ~Stale(list[n + 1])

FrontKeys(list) == {list[j].key : j \in 1..Removable(list)}

\* The beans first, with the id lists of their tables; then what is left of sqlList.
GC ==
    LET beanKeys == FrontKeys(idList)
        cleared  == SqlsOf({k[1] : k \in beanKeys \cap idIndex}) \cap sqlIndex
        sqls     == FrontKeys(Remove(sqlList, cleared))
    IN
    /\ Unlocked
    /\ DropKeys(idList, idIndex, beans, badBeans, beanKeys)
    /\ DropIds(sqlList, sqlIndex, ids, badIds, cleared \cup sqls)
    /\ NoteStrays /\ UNCHANGED <<call, trusted, idTables, mutexHeld, restarted>>

Older(list) == [j \in DOMAIN list |->
                   [list[j] EXCEPT !.age = IF Stale(list[j]) THEN @ ELSE @ + 1]]

Tick ==
    /\ idList' = Older(idList) /\ sqlList' = Older(sqlList)
    /\ UNCHANGED <<beans, ids, call, idIndex, sqlIndex, idTables, mutexHeld,
                   restarted, badBeans, badIds, strays, trusted>>

\* The process ends, at any point, and another opens the LevelDBStore.
Restart ==
    /\ idList' = <<>> /\ sqlList' = <<>>
    /\ idIndex' = {} /\ sqlIndex' = {}
    /\ idTables' = {}
    /\ mutexHeld' = FALSE /\ restarted' = TRUE
    /\ call' = NoCall /\ trusted' = TRUE
    /\ UNCHANGED <<beans, ids, badBeans, badIds>> /\ NoteStrays

Next ==
    \/ \E s \in Sql : GetIds(s) \/ DelIds(s) \/ \E v \in Value : PutIds(s, v)
    \/ \E t \in Table, i \in Id :
          /\ <<t, i>> \in BeanKey
          /\ \/ GetBean(t, i) \/ DelBean(t, i) \/ PutBeanPanics(t, i)
             \/ \E v \in Value : PutBean(t, i, v)
    \/ \E t \in Table : ClearIds(t) \/ ClearBeans(t)
    \/ GC \/ Tick \/ Restart

Spec == Init /\ [][Next]_vars

----------------------------------------------------------------------------
(* Properties *)

\* What the first process over a store sees, of the keys whose last Put or Del did not
\* fail; a later process starts, for Cacher, empty.
Promised(store, bad) ==
    [k \in DOMAIN store |-> IF restarted \/ k \in bad THEN None ELSE store[k]]
Answered == IF restarted THEN NoCall
            ELSE IF trusted THEN call ELSE <<call[1], call[2], None>>
Abstract == INSTANCE Cacher WITH beans <- Promised(beans, badBeans),
                                 ids   <- Promised(ids, badIds),
                                 call  <- Answered

\* LRUCacher keeps the promise of Cacher as long as the store holds only what this
\* process has put there: a Get returns the value of the last Put that no Del, Clear
\* or replacement has followed, or nothing.  Where the store fails a Put or a Del, this
\* is lost for that key alone and until the store accepts the next Put or Del of it.
\* clearBeans and clearIds delete from the store only what is indexed, which is why
\* nothing is promised after a restart.
ImplementsCacher == Abstract!CSpec

Keys(list) == {list[j].key : j \in DOMAIN list}
Distinct(list) == \A i, j \in DOMAIN list : list[i].key = list[j].key => i = j

\* A node per indexed key, an index entry per node, and a stored value for each,
\* through restarts and whatever the store fails: an index entry leads to nothing only
\* where the last Put failed, and a node is never in a list twice.
Indexed ==
    Unlocked =>
        /\ Distinct(idList) /\ Distinct(sqlList)
        /\ Keys(idList) = idIndex /\ Keys(sqlList) = sqlIndex
        /\ \A k \in idIndex : beans[k] # None \/ k \in badBeans
        /\ \A s \in sqlIndex : ids[s] # None \/ s \in badIds

\* Before a restart the converse holds too: no stored value is out of reach of Clear,
\* of eviction and of GC, except one that the store failed to delete.
Reachable ==
    ~restarted =>
        /\ \A k \in BeanKey : beans[k] # None => k \in idIndex \/ k \in badBeans
        /\ \A s \in Sql : ids[s] # None => s \in sqlIndex \/ s \in badIds

\* As long as no stored value has been outside the index neither list outgrows
\* MaxElementSize between two calls: only the Puts add elements, and each evicts.
\* (A value that a failed Del or an earlier process left in the store is indexed again
\* by a Get, which does not evict.)
SizeBounded ==
    ~strays /\ Unlocked => /\ Len(idList) <= MaxElementSize
                           /\ Len(sqlList) <= MaxElementSize

\* An id list of a table goes with the first bean of the table that is removed other
\* than by ClearBeans or a restart, so that no query is answered from a list made
\* before; the store may fail to delete it.
IdsGoWithBean ==
    [][\A k \in idIndex \ idIndex' :
          \/ \A s \in SqlsOf({k[1]}) : ids'[s] = None \/ s \notin sqlIndex \/ s \in badIds'
          \/ ClearBeans(k[1]) \/ Restart]_vars
=============================================================================

------------------------ MODULE CachedSessionProofs ------------------------
(***************************************************************************)
(* For any sessions, records, queries and faults: no dirty reads through   *)
(* the cache, no record twice in what Find returns, and the types.  For a  *)
(* session that is alone: the cache is fresh between its calls, and Get    *)
(* returns what it was asked for.                                          *)
(***************************************************************************)
EXTENDS CachedSession, TLAPS

Fields == {"op", "at", "q", "set", "ids", "miss", "fill", "rows"}

\* The steps of a read that uses the cache.
CacheSteps == {"getIds", "queryIds", "putIds", "getBean", "fetch", "putBean"}

\* The calls that have the steps whose next one depends on the call.
OpOK(j) ==
    /\ j.at \in {"getIds", "queryIds"} => j.op \in {"get", "find", "delete"}
    /\ j.at = "query" => j.op \in {"get", "find"}
    /\ j.at = "delBean" => j.op = "delete"
    /\ j.at = "clearIds" => j.op \in {"insert", "update", "delete"}
    /\ j.at = "exec" => j.op \in {"delete", "insertMap"}

\* A call of a session whose transaction is x, when C are the committed records: it uses
\* the cache only without a transaction, and has read committed records unless it is in
\* one.
JobOK(j, x, C) ==
    /\ DOMAIN j = Fields /\ OpOK(j)
    /\ j.ids \subseteq Id
    /\ j.at = "getIds" => j.q \in Query
    /\ j.at \in CacheSteps => x = "nil"
    /\ x # "open" => j.rows \subseteq C
    /\ j.at = "putBean" => j.fill \subseteq C

BeansOK == \A i \in Id : beans[i] # None => beans[i] \in committed

\* A cached list is of ids.
IdsOK == DOMAIN ids = Key /\ \A k \in Key : ids[k] = NoIds \/ ids[k] \subseteq Id

CInv ==
    /\ DOMAIN beans = Id /\ DOMAIN tx = Session
    /\ DOMAIN writes = Session /\ DOMAIN job = Session
    /\ Rows(db) \subseteq committed
    /\ BeansOK /\ IdsOK
    /\ \A s \in Session : /\ tx[s] # "open" => writes[s] = NoWrites
                          /\ JobOK(job[s], tx[s], committed)

LEMMA NoJobOK == ASSUME NEW x, NEW C PROVE JobOK(NoJob, x, C)
BY DEF JobOK, OpOK, NoJob, Fields, CacheSteps

LEMMA InitInv == Init => CInv
BY NoJobOK DEF Init, CInv, BeansOK, IdsOK

\* Outside a transaction a session sees the committed table.
LEMMA ViewCommitted ==
    ASSUME CInv, NEW s \in Session, tx[s] # "open"
    PROVE  Rows(View(s)) \subseteq committed
<1>1. View(s) = [i \in Id |-> db[i]]
    BY DEF CInv, View, Overlay, NoWrites
<1>2. Rows(View(s)) = Rows(db)
    BY <1>1 DEF Rows
<1> QED
    BY <1>2 DEF CInv

LEMMA ResultCommitted ==
    ASSUME CInv, NEW s \in Session, tx[s] # "open", NEW q
    PROVE  /\ Result(s, q) \subseteq committed
           /\ Result(s, q) # {} => LimitOne(Result(s, q)) \subseteq committed
BY ViewCommitted DEF Result, LimitOne

\* A step of a call that writes nothing.
LEMMA JobStep ==
    ASSUME CInv, NEW s \in Session, NEW j, JobOK(j, tx[s], committed), Step(s, j), NoDb,
           UNCHANGED tx, IdsOK', DOMAIN beans' = Id,
           \A i \in Id : beans'[i] # None => beans'[i] \in committed
    PROVE  CInv'
BY DEF CInv, BeansOK, Step, NoDb

\* A step that executes a statement.
LEMMA ExecStep ==
    ASSUME CInv, NEW s \in Session, NEW w, Exec(s, w), NEW j, JobOK(j, tx[s], {}), Step(s, j),
           NoCacher, UNCHANGED tx
    PROVE  CInv'
<1>1. /\ committed \subseteq committed' /\ Rows(db') \subseteq committed'
      /\ DOMAIN writes' = Session
      /\ \A x \in Session : tx[x] # "open" => writes'[x] = writes[x]
    BY DEF CInv, Exec, Become
<1>2. \A x \in Session : JobOK(job'[x], tx[x], committed')
    BY <1>1 DEF CInv, Step, JobOK
<1> QED
    BY <1>1, <1>2 DEF CInv, BeansOK, IdsOK, NoCacher, Step

\* A transaction begins or ends.
LEMMA TxStep ==
    ASSUME CInv, NEW s \in Session, Begin(s) \/ Commit(s) \/ Rollback(s) \/ Close(s)
    PROVE  CInv'
<1>1. /\ committed \subseteq committed' /\ Rows(db') \subseteq committed'
      /\ DOMAIN writes' = Session /\ DOMAIN tx' = Session
      /\ tx'[s] # "open" => writes'[s] = NoWrites
      /\ \A x \in Session \ {s} : tx'[x] = tx[x] /\ writes'[x] = writes[x]
      /\ Step(s, NoJob) /\ NoCacher
    BY DEF CInv, Begin, Commit, Rollback, Close, Become, NoDb
<1>2. \A x \in Session : JobOK(job'[x], tx'[x], committed')
    BY <1>1, NoJobOK DEF CInv, Step, JobOK
<1> QED
    BY <1>1, <1>2 DEF CInv, BeansOK, IdsOK, NoCacher, Step

----------------------------------------------------------------------------
(* The steps of the calls *)

\* What a step may change of the job of a session, in terms of the fields that matter.
LEMMA JobKept ==
    ASSUME CInv, NEW s \in Session, NEW j, DOMAIN j = Fields, OpOK(j), j.rows = job[s].rows,
           j.ids \subseteq Id, j.at # "getIds",
           j.at = "putBean" => j.fill \subseteq committed,
           j.at \in CacheSteps => tx[s] = "nil"
    PROVE  JobOK(j, tx[s], committed)
BY DEF CInv, JobOK

LEMMA DoneOK ==
    ASSUME CInv, NEW s \in Session, NEW R, tx[s] # "open" => R \subseteq committed,
           Done(s, R), NoDb, UNCHANGED tx, IdsOK', DOMAIN beans' = Id,
           \A i \in Id : beans'[i] # None => beans'[i] \in committed
    PROVE  CInv'
<1> DEFINE j == [NoJob EXCEPT !.op = job[s].op, !.q = job[s].q, !.at = "done", !.rows = R]
<1>1. DOMAIN j = Fields /\ j.at = "done" /\ j.rows = R /\ j.ids = {}
    BY DEF NoJob, Fields
<1>2. Step(s, j)
    BY DEF Done
<1> HIDE DEF j
<1>3. JobOK(j, tx[s], committed)
    BY <1>1 DEF JobOK, OpOK, CacheSteps
<1> QED
    BY <1>2, <1>3, JobStep

LEMMA StartReadInv ==
    ASSUME CInv, NEW s \in Session, NEW op \in {"get", "find"}, NEW q \in Query, NEW useCache,
           StartRead(s, op, q, useCache)
    PROVE  CInv'
<1>1. PICK at \in {"getIds", "query"} :
          /\ Step(s, [NoJob EXCEPT !.op = op, !.q = q, !.at = at])
          /\ at = "getIds" => tx[s] = "nil"
    BY DEF StartRead, CanCache
<1> DEFINE j == [NoJob EXCEPT !.op = op, !.q = q, !.at = at]
<1>2. DOMAIN j = Fields /\ j.at = at /\ j.rows = {} /\ j.op = op /\ j.q = q /\ j.ids = {}
    BY DEF NoJob, Fields
<1>3. Step(s, j)
    BY <1>1
<1> HIDE DEF j
<1>4. JobOK(j, tx[s], committed)
    BY <1>1, <1>2 DEF JobOK, OpOK, CacheSteps
<1>5. UNCHANGED <<db, tx, writes, committed, beans, ids>>
    BY DEF StartRead, NoCacher
<1>6. \A x \in Session : JobOK(job'[x], tx[x], committed)
    BY <1>3, <1>4 DEF CInv, Step
<1> QED
    BY <1>3, <1>5, <1>6 DEF CInv, BeansOK, IdsOK, Step

\* A step that only moves the call on, within the cache without a transaction.
LEMMA CallMoves ==
    ASSUME CInv, NEW s \in Session, NEW j, DOMAIN j = Fields, OpOK(j), j.rows = job[s].rows,
           j.ids \subseteq Id, j.at # "getIds",
           j.at # "putBean", j.at \in CacheSteps => job[s].at \in CacheSteps,
           Step(s, j), NoDb, UNCHANGED tx, IdsOK', DOMAIN beans' = Id,
           \A i \in Id : beans'[i] # None => beans'[i] \in committed
    PROVE  CInv'
<1>1. j.at \in CacheSteps => tx[s] = "nil"
    BY DEF CInv, JobOK
<1>2. JobOK(j, tx[s], committed)
    BY <1>1, JobKept
<1> QED
    BY <1>2, JobStep

\* Every id that a query finds is one.
LEMMA FoundIds ==
    ASSUME NEW s, NEW q
    PROVE  /\ IdsOf(Result(s, q)) \subseteq Id
           /\ \A r \in LimitOne(Result(s, q)) : Result(s, q) # {} => r[1] \in Id
BY DEF IdsOf, Result, Rows, LimitOne

LEMMA GetIdsInv ==
    ASSUME CInv, NEW s \in Session, GetIds(s) \/ QueryIds(s) \/ PutIds(s)
    PROVE  CInv'
<1>0. /\ DOMAIN job[s] = Fields /\ job[s].at \in CacheSteps /\ job[s].ids \subseteq Id
      /\ NoDb /\ UNCHANGED <<tx, beans>>
      /\ GetIds(s) \/ QueryIds(s) => job[s].op \in {"get", "find", "delete"}
    BY DEF CInv, JobOK, OpOK, GetIds, QueryIds, PutIds, NoCacher, CacheSteps
<1>1. \/ \E at \in {"queryIds", "query", "getBean"} :
            /\ at = "queryIds" => job[s].op \in {"get", "find", "delete"}
            /\ at = "query" => job[s].op \in {"get", "find"}
            /\ Step(s, [job[s] EXCEPT !.at = at])
      \/ \E at \in {"delBean", "getBean", "putIds"}, I \in SUBSET Id :
            /\ at = "delBean" => job[s].op = "delete"
            /\ Step(s, [job[s] EXCEPT !.at = at, !.ids = I])
  <2>1. CASE GetIds(s)
    <3>1. CASE ids[KeyOf(job[s])] = NoIds
        BY <1>0, <2>1, <3>1 DEF GetIds
    <3>2. CASE ids[KeyOf(job[s])] # NoIds
        <4>1. KeyOf(job[s]) \in Key
            BY <2>1 DEF GetIds, CInv, JobOK, KeyOf, Key
        <4>2. ids[KeyOf(job[s])] \in SUBSET Id
            BY <4>1, <3>2 DEF CInv, IdsOK
        <4> QED
            BY <2>1, <3>2, <4>2 DEF GetIds
    <3> QED
        BY <3>1, <3>2
  <2>2. CASE QueryIds(s)
    <3> DEFINE R == Result(s, job[s].q)
    <3>0. IdsOf(R) \in SUBSET Id /\ \A r \in LimitOne(R) : R # {} => {r[1]} \in SUBSET Id
        BY FoundIds
    <3>1. CASE job[s].op = "get"
        BY <2>2, <3>0, <3>1 DEF QueryIds
    <3>2. CASE job[s].op = "find"
        BY <2>2, <3>0, <3>2 DEF QueryIds
    <3>3. CASE job[s].op = "delete"
        BY <2>2, <3>0, <3>3 DEF QueryIds
    <3> QED
        BY <1>0, <2>2, <3>1, <3>2, <3>3
  <2>3. CASE PutIds(s)
    BY <2>3 DEF PutIds
  <2> QED
    BY <2>1, <2>2, <2>3
<1>2. IdsOK'
    BY <1>0 DEF GetIds, QueryIds, PutIds, NoCacher, CInv, IdsOK
<1>3. ASSUME NEW at \in {"queryIds", "query", "getBean"},
             at = "queryIds" => job[s].op \in {"get", "find", "delete"},
             at = "query" => job[s].op \in {"get", "find"},
             Step(s, [job[s] EXCEPT !.at = at])
      PROVE  CInv'
  <2> DEFINE j == [job[s] EXCEPT !.at = at]
  <2>1. /\ DOMAIN j = Fields /\ j.at = at /\ j.rows = job[s].rows
        /\ j.op = job[s].op /\ j.ids = job[s].ids
    BY <1>0 DEF Fields
  <2>2. Step(s, j)
    BY <1>3
  <2> HIDE DEF j
  <2>3. OpOK(j)
    BY <1>3, <2>1 DEF OpOK
  <2> QED
    BY <1>0, <1>2, <2>1, <2>2, <2>3, CallMoves DEF CInv, BeansOK
<1>4. ASSUME NEW at \in {"delBean", "getBean", "putIds"}, NEW I \in SUBSET Id,
             at = "delBean" => job[s].op = "delete",
             Step(s, [job[s] EXCEPT !.at = at, !.ids = I])
      PROVE  CInv'
  <2> DEFINE j == [job[s] EXCEPT !.at = at, !.ids = I]
  <2>1. /\ DOMAIN j = Fields /\ j.at = at /\ j.rows = job[s].rows
        /\ j.op = job[s].op /\ j.ids = I
    BY <1>0 DEF Fields
  <2>2. Step(s, j)
    BY <1>4
  <2> HIDE DEF j
  <2>3. OpOK(j)
    BY <1>4, <2>1 DEF OpOK
  <2> QED
    BY <1>0, <1>2, <2>1, <2>2, <2>3, CallMoves DEF CInv, BeansOK
<1> QED
    BY <1>1, <1>3, <1>4

\* Beans come from the cache, where they are committed.
LEMMA GetBeanInv ==
    ASSUME CInv, NEW s \in Session, GetBean(s)
    PROVE  CInv'
<1>0. /\ DOMAIN job[s] = Fields /\ job[s].at \in CacheSteps /\ job[s].ids \subseteq Id
      /\ NoDb /\ UNCHANGED <<tx, beans>> /\ IdsOK'
    BY DEF CInv, JobOK, GetBean, NoCacher, CacheSteps, IdsOK
<1>1. CASE Step(s, [job[s] EXCEPT !.at = "fetch"])
  <2> DEFINE j == [job[s] EXCEPT !.at = "fetch"]
  <2>1. DOMAIN j = Fields /\ j.at = "fetch" /\ j.rows = job[s].rows /\ j.ids = job[s].ids
    BY <1>0 DEF Fields
  <2>2. Step(s, j)
    BY <1>1
  <2> HIDE DEF j
  <2> QED
    BY <1>0, <2>1, <2>2, CallMoves DEF CInv, BeansOK, OpOK
<1>2. CASE \E i \in Id : beans[i] # None /\ Done(s, {beans[i]})
    BY <1>0, <1>2, DoneOK DEF CInv, BeansOK
<1> QED
    BY <1>0, <1>1, <1>2 DEF GetBean

LEMMA FindBeanInv ==
    ASSUME CInv, NEW s \in Session, FindBean(s)
    PROVE  CInv'
<1>0. /\ DOMAIN job[s] = Fields /\ job[s].at = "getBean" /\ job[s].ids \subseteq Id
      /\ NoDb /\ UNCHANGED <<tx, beans>> /\ IdsOK'
    BY DEF CInv, JobOK, FindBean, NoCacher, IdsOK
<1>1. tx[s] = "nil" /\ job[s].rows \subseteq committed
    BY <1>0 DEF CInv, JobOK, CacheSteps
<1>2. PICK i \in job[s].ids :
          \/ Step(s, [job[s] EXCEPT !.ids = @ \ {i}, !.miss = @ \cup {i}])
          \/ Step(s, [NoJob EXCEPT !.op = "find", !.q = job[s].q, !.at = "query"])
          \/ /\ beans[i] # None
             /\ Step(s, [job[s] EXCEPT !.ids = @ \ {i}, !.rows = @ \cup {beans[i]}])
    BY DEF FindBean
<1>3. CASE Step(s, [job[s] EXCEPT !.ids = @ \ {i}, !.miss = @ \cup {i}])
  <2> DEFINE j == [job[s] EXCEPT !.ids = @ \ {i}, !.miss = @ \cup {i}]
  <2>1. DOMAIN j = Fields /\ j.at = "getBean" /\ j.rows = job[s].rows /\ j.ids \subseteq Id
    BY <1>0 DEF Fields
  <2>2. Step(s, j)
    BY <1>3
  <2> HIDE DEF j
  <2> QED
    BY <1>0, <2>1, <2>2, CallMoves DEF CInv, BeansOK, OpOK
<1>4. CASE Step(s, [NoJob EXCEPT !.op = "find", !.q = job[s].q, !.at = "query"])
  <2> DEFINE j == [NoJob EXCEPT !.op = "find", !.q = job[s].q, !.at = "query"]
  <2>1. DOMAIN j = Fields /\ j.at = "query" /\ j.rows = {} /\ j.ids = {} /\ j.op = "find"
    BY DEF Fields, NoJob
  <2>2. Step(s, j)
    BY <1>4
  <2> HIDE DEF j
  <2>3. JobOK(j, tx[s], committed)
    BY <2>1 DEF JobOK, OpOK, CacheSteps
  <2> QED
    BY <1>0, <2>2, <2>3, JobStep DEF CInv, BeansOK
<1>5. CASE /\ beans[i] # None
           /\ Step(s, [job[s] EXCEPT !.ids = @ \ {i}, !.rows = @ \cup {beans[i]}])
  <2> DEFINE j == [job[s] EXCEPT !.ids = @ \ {i}, !.rows = @ \cup {beans[i]}]
  <2>1. /\ DOMAIN j = Fields /\ j.at = "getBean" /\ j.ids \subseteq Id
        /\ j.rows = job[s].rows \cup {beans[i]}
    BY <1>0 DEF Fields
  <2>2. Step(s, j)
    BY <1>5
  <2> HIDE DEF j
  <2>3. beans[i] \in committed
    BY <1>0, <1>5 DEF CInv, BeansOK
  <2>4. JobOK(j, tx[s], committed)
    BY <1>1, <2>1, <2>3 DEF JobOK, OpOK
  <2> QED
    BY <1>0, <2>2, <2>4, JobStep DEF CInv, BeansOK
<1> QED
    BY <1>2, <1>3, <1>4, <1>5

\* What is read from the database to be cached is committed: there is no transaction.
LEMMA FillsInv ==
    ASSUME CInv, NEW s \in Session, Fetch(s) \/ FindMissing(s)
    PROVE  CInv'
<1>0. /\ DOMAIN job[s] = Fields /\ job[s].at \in CacheSteps /\ job[s].ids \subseteq Id
      /\ NoDb /\ UNCHANGED <<tx, beans>> /\ IdsOK'
    BY DEF CInv, JobOK, Fetch, FindMissing, NoCacher, CacheSteps, IdsOK
<1>1. tx[s] = "nil" /\ job[s].rows \subseteq committed
    BY <1>0 DEF CInv, JobOK
<1>2. \/ Done(s, {}) \/ Done(s, job[s].rows)
      \/ \E F \in SUBSET committed : Step(s, [job[s] EXCEPT !.at = "putBean", !.fill = F])
  <2>1. CASE Fetch(s)
    <3> DEFINE R == Result(s, job[s].q)
    <3>1. R # {} => \A r \in LimitOne(R) : {r} \in SUBSET committed
        BY <1>1, ResultCommitted
    <3>2. CASE R = {}
        BY <2>1, <3>2 DEF Fetch
    <3>3. CASE R # {}
        BY <2>1, <3>1, <3>3 DEF Fetch
    <3> QED
        BY <3>2, <3>3
  <2>2. CASE FindMissing(s)
    <3> DEFINE found == {r \in Rows(View(s)) : r[1] \in job[s].miss}
    <3>1. found \in SUBSET committed
        BY <1>1, ViewCommitted
    <3>2. CASE found = {}
        BY <2>2, <3>2 DEF FindMissing
    <3>3. CASE found # {}
        BY <2>2, <3>1, <3>3 DEF FindMissing
    <3> QED
        BY <3>2, <3>3
  <2> QED
    BY <2>1, <2>2
<1>3. CASE Done(s, {}) \/ Done(s, job[s].rows)
    BY <1>0, <1>1, <1>3, DoneOK DEF CInv, BeansOK
<1>4. ASSUME NEW F \in SUBSET committed, Step(s, [job[s] EXCEPT !.at = "putBean", !.fill = F])
      PROVE  CInv'
  <2> DEFINE j == [job[s] EXCEPT !.at = "putBean", !.fill = F]
  <2>1. /\ DOMAIN j = Fields /\ j.at = "putBean" /\ j.fill = F
        /\ j.rows = job[s].rows /\ j.ids = job[s].ids
    BY <1>0 DEF Fields
  <2>2. Step(s, j)
    BY <1>4
  <2> HIDE DEF j
  <2>3. JobOK(j, tx[s], committed)
    BY <1>0, <1>1, <2>1 DEF JobOK, OpOK
  <2> QED
    BY <1>0, <2>2, <2>3, JobStep DEF CInv, BeansOK
<1> QED
    BY <1>2, <1>3, <1>4

LEMMA PutBeanInv ==
    ASSUME CInv, NEW s \in Session, PutBean(s)
    PROVE  CInv'
<1>0. /\ DOMAIN job[s] = Fields /\ job[s].at = "putBean" /\ job[s].ids \subseteq Id
      /\ NoDb /\ UNCHANGED <<tx, ids>> /\ IdsOK'
    BY DEF CInv, JobOK, PutBean, IdsOK
<1>1. tx[s] = "nil" /\ job[s].rows \subseteq committed /\ job[s].fill \subseteq committed
    BY <1>0 DEF CInv, JobOK, CacheSteps
<1>2. PICK r \in job[s].fill :
          /\ \E i : beans' = [beans EXCEPT ![i] = r]
          /\ \/ Done(s, job[s].rows \cup {r})
             \/ Step(s, [job[s] EXCEPT !.fill = @ \ {r}, !.rows = @ \cup {r}])
    BY DEF PutBean
<1>3. DOMAIN beans' = Id /\ \A i \in Id : beans'[i] # None => beans'[i] \in committed
    BY <1>1, <1>2 DEF CInv, BeansOK
<1>4. CASE Done(s, job[s].rows \cup {r})
    BY <1>0, <1>1, <1>3, <1>4, DoneOK
<1>5. CASE Step(s, [job[s] EXCEPT !.fill = @ \ {r}, !.rows = @ \cup {r}])
  <2> DEFINE j == [job[s] EXCEPT !.fill = @ \ {r}, !.rows = @ \cup {r}]
  <2>1. /\ DOMAIN j = Fields /\ j.at = "putBean" /\ j.fill = job[s].fill \ {r}
        /\ j.rows = job[s].rows \cup {r} /\ j.ids = job[s].ids
    BY <1>0 DEF Fields
  <2>2. Step(s, j)
    BY <1>5
  <2> HIDE DEF j
  <2>3. JobOK(j, tx[s], committed)
    BY <1>0, <1>1, <2>1 DEF JobOK, OpOK
  <2> QED
    BY <1>0, <1>3, <2>2, <2>3, JobStep
<1> QED
    BY <1>2, <1>4, <1>5

LEMMA QueryRowsInv ==
    ASSUME CInv, NEW s \in Session, QueryRows(s)
    PROVE  CInv'
<1>0. NoDb /\ UNCHANGED <<tx, beans>> /\ IdsOK'
    BY DEF QueryRows, NoCacher, CInv, IdsOK
<1> DEFINE R == Result(s, job[s].q)
<1>1. job[s].op \in {"get", "find"}
    BY DEF QueryRows, CInv, JobOK, OpOK
<1>2. \/ Done(s, R) \/ Done(s, {})
      \/ R # {} /\ \E r \in LimitOne(R) : Done(s, {r})
    BY <1>1 DEF QueryRows
<1>3. tx[s] # "open" => /\ R \subseteq committed
                        /\ R # {} => \A r \in LimitOne(R) : {r} \subseteq committed
    BY ResultCommitted
<1> HIDE DEF R
<1> QED
    BY <1>0, <1>2, <1>3, DoneOK DEF CInv, BeansOK

\* A call that returns, or a write that starts with the cache.
LEMMA EndsInv ==
    ASSUME CInv, NEW s \in Session, ReadFails(s) \/ ExecFails(s) \/ ClearBeans(s)
    PROVE  CInv'
<1>1. NoDb /\ UNCHANGED <<tx, ids>> /\ IdsOK' /\ Step(s, NoJob)
    BY DEF ReadFails, ExecFails, ClearBeans, NoCacher, CInv, IdsOK
<1>2. DOMAIN beans' = Id /\ \A i \in Id : beans'[i] # None => beans'[i] \in committed
    BY DEF ReadFails, ExecFails, ClearBeans, NoCacher, CInv, BeansOK
<1> QED
    BY <1>1, <1>2, NoJobOK, JobStep

LEMMA DeleteInv ==
    ASSUME CInv, NEW s \in Session, NEW q \in Query, Delete(s, q)
    PROVE  CInv'
<1>1. NoDb /\ UNCHANGED <<tx, ids, beans>> /\ IdsOK'
    BY DEF Delete, NoCacher, CInv, IdsOK
<1>2. PICK at \in {"getIds", "exec"} :
          /\ Step(s, [NoJob EXCEPT !.op = "delete", !.q = q, !.at = at])
          /\ at = "getIds" => tx[s] = "nil"
    BY DEF Delete
<1> DEFINE j == [NoJob EXCEPT !.op = "delete", !.q = q, !.at = at]
<1>3. /\ DOMAIN j = Fields /\ j.at = at /\ j.rows = {} /\ j.ids = {}
      /\ j.op = "delete" /\ j.q = q
    BY DEF Fields, NoJob
<1>4. Step(s, j)
    BY <1>2
<1> HIDE DEF j
<1>5. JobOK(j, tx[s], committed)
    BY <1>2, <1>3 DEF JobOK, OpOK, CacheSteps
<1> QED
    BY <1>1, <1>4, <1>5, JobStep DEF CInv, BeansOK

LEMMA InsertMapInv ==
    ASSUME CInv, NEW s \in Session, NEW i, NEW v, InsertMap(s, i, v)
    PROVE  CInv'
<1>1. NoDb /\ UNCHANGED <<tx, beans>> /\ IdsOK'
    BY DEF InsertMap, IdsOK
<1> DEFINE j == [NoJob EXCEPT !.op = "insertMap", !.at = "exec", !.set = <<i, v>>]
<1>2. DOMAIN j = Fields /\ j.at = "exec" /\ j.rows = {} /\ j.ids = {} /\ j.op = "insertMap"
    BY DEF Fields, NoJob
<1>3. Step(s, j)
    BY DEF InsertMap
<1> HIDE DEF j
<1>4. JobOK(j, tx[s], committed)
    BY <1>2 DEF JobOK, OpOK, CacheSteps
<1> QED
    BY <1>1, <1>3, <1>4, JobStep DEF CInv, BeansOK

\* The rest of cacheDelete, and the invalidations after a write.
LEMMA ClearsInv ==
    ASSUME CInv, NEW s \in Session, CacheDeleteFails(s) \/ DelBean(s) \/ ClearIds(s)
    PROVE  CInv'
<1>0. /\ DOMAIN job[s] = Fields /\ job[s].ids \subseteq Id /\ OpOK(job[s])
      /\ NoDb /\ UNCHANGED tx
    BY DEF CInv, JobOK, CacheDeleteFails, DelBean, ClearIds
<1>1. IdsOK'
    BY DEF CacheDeleteFails, DelBean, ClearIds, NoCacher, CInv, IdsOK
<1>2. DOMAIN beans' = Id /\ \A i \in Id : beans'[i] # None => beans'[i] \in committed
    BY DEF CacheDeleteFails, DelBean, ClearIds, NoCacher, CInv, BeansOK
<1>3. \/ Step(s, NoJob)
      \/ \E at \in {"exec", "clearIds", "clearBeans"} :
            /\ at \in {"exec", "clearIds"} => job[s].op = "delete"
            /\ Step(s, [job[s] EXCEPT !.at = at])
      \/ \E I : /\ job[s].at = "delBean" /\ I \subseteq Id
                /\ Step(s, [job[s] EXCEPT !.ids = I])
  <2>1. CASE CacheDeleteFails(s)
    BY <2>1 DEF CacheDeleteFails
  <2>2. CASE DelBean(s)
    <3>1. CASE job[s].ids = {}
        BY <1>0, <2>2, <3>1 DEF DelBean, OpOK
    <3>2. CASE job[s].ids # {}
        <4>1. PICK i : Step(s, [job[s] EXCEPT !.ids = @ \ {i}])
            BY <2>2, <3>2 DEF DelBean
        <4> QED
            BY <1>0, <2>2, <4>1 DEF DelBean
    <3> QED
        BY <3>1, <3>2
  <2>3. CASE ClearIds(s)
    <3>1. job[s].op \in {"insert", "update", "delete"}
        BY <1>0, <2>3 DEF ClearIds, OpOK
    <3> QED
        BY <2>3, <3>1 DEF ClearIds
  <2> QED
    BY <2>1, <2>2, <2>3
<1>4. CASE Step(s, NoJob)
    BY <1>0, <1>1, <1>2, <1>4, NoJobOK, JobStep
<1>5. ASSUME NEW at \in {"exec", "clearIds", "clearBeans"},
             at \in {"exec", "clearIds"} => job[s].op = "delete",
             Step(s, [job[s] EXCEPT !.at = at])
      PROVE  CInv'
  <2> DEFINE j == [job[s] EXCEPT !.at = at]
  <2>1. /\ DOMAIN j = Fields /\ j.at = at /\ j.rows = job[s].rows
        /\ j.op = job[s].op /\ j.ids = job[s].ids
    BY <1>0 DEF Fields
  <2>2. Step(s, j)
    BY <1>5
  <2> HIDE DEF j
  <2> QED
    BY <1>0, <1>1, <1>2, <1>5, <2>1, <2>2, CallMoves DEF OpOK, CacheSteps
<1>6. ASSUME NEW I, job[s].at = "delBean", I \subseteq Id, Step(s, [job[s] EXCEPT !.ids = I])
      PROVE  CInv'
  <2> DEFINE j == [job[s] EXCEPT !.ids = I]
  <2>1. /\ DOMAIN j = Fields /\ j.at = "delBean" /\ j.rows = job[s].rows
        /\ j.op = job[s].op /\ j.ids = I
    BY <1>0, <1>6 DEF Fields
  <2>2. Step(s, j)
    BY <1>6
  <2> HIDE DEF j
  <2> QED
    BY <1>0, <1>1, <1>2, <1>6, <2>1, <2>2, CallMoves DEF OpOK, CacheSteps
<1> QED
    BY <1>3, <1>4, <1>5, <1>6

LEMMA WritesInv ==
    ASSUME CInv, NEW s \in Session,
           \/ \E i \in Id, v \in Value : Insert(s, i, v)
           \/ \E q \in Query, v \in Value : Update(s, q, v)
           \/ ExecLast(s)
    PROVE  CInv'
<1>1. ASSUME NEW i, NEW v, Insert(s, i, v) PROVE CInv'
  <2> DEFINE j == [NoJob EXCEPT !.op = "insert", !.at = "clearIds"]
  <2>1. DOMAIN j = Fields /\ j.at = "clearIds" /\ j.rows = {} /\ j.ids = {} /\ j.op = "insert"
    BY DEF Fields, NoJob
  <2>2. Exec(s, Setting({i}, v)) /\ Step(s, j) /\ NoCacher /\ UNCHANGED tx
    BY <1>1 DEF Insert
  <2> HIDE DEF j
  <2>3. JobOK(j, tx[s], {})
    BY <2>1 DEF JobOK, OpOK, CacheSteps
  <2> QED
    BY <2>2, <2>3, ExecStep
<1>2. ASSUME NEW q, NEW v, Update(s, q, v) PROVE CInv'
  <2> DEFINE j == [NoJob EXCEPT !.op = "update", !.at = "clearIds"]
  <2>1. DOMAIN j = Fields /\ j.at = "clearIds" /\ j.rows = {} /\ j.ids = {} /\ j.op = "update"
    BY DEF Fields, NoJob
  <2>2. Exec(s, Setting(IdsOf(Result(s, q)), v)) /\ Step(s, j) /\ NoCacher /\ UNCHANGED tx
    BY <1>2 DEF Update
  <2> HIDE DEF j
  <2>3. JobOK(j, tx[s], {})
    BY <2>1 DEF JobOK, OpOK, CacheSteps
  <2> QED
    BY <2>2, <2>3, ExecStep
<1>3. CASE ExecLast(s)
  <2>1. job[s].op \in {"delete", "insertMap"}
    BY <1>3 DEF ExecLast, CInv, JobOK, OpOK
  <2>2. \E w : Exec(s, w) /\ Step(s, NoJob) /\ NoCacher /\ UNCHANGED tx
    BY <1>3, <2>1 DEF ExecLast
  <2> QED
    BY <2>2, NoJobOK, ExecStep
<1> QED
    BY <1>1, <1>2, <1>3

LEMMA ForgetInv ==
    ASSUME CInv, Forget
    PROVE  CInv'
<1>1. NoDb /\ UNCHANGED <<tx, job>>
    BY DEF Forget
<1>2. DOMAIN beans' = Id /\ \A i \in Id : beans'[i] # None => beans'[i] \in committed
    BY DEF Forget, CInv, BeansOK
<1>3. IdsOK'
    BY DEF Forget, CInv, IdsOK
<1> QED
    BY <1>1, <1>2, <1>3 DEF CInv, BeansOK, NoDb

----------------------------------------------------------------------------

LEMMA NextInv == CInv /\ [Next]_vars => CInv'
<1> SUFFICES ASSUME CInv, [Next]_vars PROVE CInv'
    OBVIOUS
<1>1. CASE UNCHANGED vars
    BY <1>1 DEF vars, CInv, BeansOK, IdsOK
<1>2. CASE Forget
    BY <1>2, ForgetInv
<1>3. CASE Next /\ ~Forget
    BY <1>3, StartReadInv, GetIdsInv, GetBeanInv, FindBeanInv, FillsInv, PutBeanInv,
       QueryRowsInv, EndsInv, DeleteInv, InsertMapInv, ClearsInv, WritesInv, TxStep DEF Next
<1> QED
    BY <1>1, <1>2, <1>3

\* The query cache never shows what was not committed, and a call outside a transaction
\* returns committed records only, for any number of sessions, records and queries and
\* whatever fails (canCache and the fills of cacheGet and cacheFind).
THEOREM CacheOnlyCommitted == Spec => []OnlyCommitted
<1>1. CInv => OnlyCommitted
    BY DEF CInv, BeansOK, JobOK, OnlyCommitted
<1> QED
    BY <1>1, InitInv, NextInv, PTL DEF Spec

----------------------------------------------------------------------------
(* Find returns no record twice *)

\* A set of records has at most one of every id.
OnePerId(R) == \A r1, r2 \in R : r1[1] = r2[1] => r1 = r2

\* A Find in progress: what it has found, what it still looks up and what it missed are
\* different records, and it has at most one bean of each.
FindOK(j) ==
    j.op = "find" =>
        /\ j.at \in {"getIds", "queryIds", "putIds", "query", "getBean", "putBean", "done"}
        /\ j.at \in {"getIds", "queryIds", "putIds", "query"} =>
              j.rows = {} /\ j.miss = {} /\ j.fill = {}
        /\ j.at = "getBean" =>
              j.fill = {} /\ j.ids \cap j.miss = {} /\ IdsOf(j.rows) \cap (j.ids \cup j.miss) = {}
        /\ j.at = "done" => j.ids = {} /\ j.miss = {} /\ j.fill = {}
        /\ OnePerId(j.rows \cup j.fill)

FInv == CInv /\ \A s \in Session : FindOK(job[s])

LEMMA RowsOnePerId == ASSUME NEW t PROVE OnePerId(Rows(t))
BY DEF OnePerId, Rows

LEMMA FindStep ==
    ASSUME FInv, CInv', NEW s \in Session, NEW j, Step(s, j), FindOK(j)
    PROVE  FInv'
BY DEF FInv, CInv, Step

\* A step of another call than Find, of one that returns, or of none.
LEMMA OtherStep ==
    ASSUME FInv, CInv', NEW s \in Session, NEW j, Step(s, j), j.op # "find"
    PROVE  FInv'
BY FindStep DEF FindOK

LEMMA DoneFind ==
    ASSUME FInv, CInv', NEW s \in Session, NEW R, Done(s, R),
           job[s].op = "find" => OnePerId(R)
    PROVE  FInv'
<1> DEFINE j == [NoJob EXCEPT !.op = job[s].op, !.q = job[s].q, !.at = "done", !.rows = R]
<1>1. /\ j.op = job[s].op /\ j.at = "done" /\ j.rows = R
      /\ j.ids = {} /\ j.miss = {} /\ j.fill = {}
    BY DEF NoJob
<1>2. Step(s, j)
    BY DEF Done
<1> HIDE DEF j
<1>3. FindOK(j)
    BY <1>1 DEF FindOK
<1> QED
    BY <1>2, <1>3, FindStep

LEMMA StartReadFind ==
    ASSUME FInv, CInv', NEW s \in Session, NEW op, NEW q, NEW useCache,
           StartRead(s, op, q, useCache)
    PROVE  FInv'
<1>1. PICK at \in {"getIds", "query"} : Step(s, [NoJob EXCEPT !.op = op, !.q = q, !.at = at])
    BY DEF StartRead
<1> DEFINE j == [NoJob EXCEPT !.op = op, !.q = q, !.at = at]
<1>2. j.at = at /\ j.rows = {} /\ j.miss = {} /\ j.fill = {}
    BY DEF NoJob
<1>3. Step(s, j)
    BY <1>1
<1> HIDE DEF j
<1>4. FindOK(j)
    BY <1>1, <1>2 DEF FindOK, OnePerId
<1> QED
    BY <1>3, <1>4, FindStep

\* GetCacheSql, the query of the ids and PutCacheSql put the ids there to look up.
LEMMA IdsFind ==
    ASSUME FInv, CInv', NEW s \in Session, GetIds(s) \/ QueryIds(s) \/ PutIds(s)
    PROVE  FInv'
<1>0. DOMAIN job[s] = Fields /\ job[s].at \in {"getIds", "queryIds", "putIds"}
    BY DEF FInv, CInv, JobOK, GetIds, QueryIds, PutIds
<1>1. PICK at, I : /\ Step(s, [job[s] EXCEPT !.at = at, !.ids = I])
                   /\ job[s].op = "find" => at \in {"queryIds", "query", "putIds", "getBean"}
  <2>1. CASE GetIds(s)
    <3>1. CASE ids[KeyOf(job[s])] = NoIds
      <4>1. [job[s] EXCEPT !.at = "queryIds"]
            = [job[s] EXCEPT !.at = "queryIds", !.ids = job[s].ids]
        BY <1>0 DEF Fields
      <4> QED
        BY <2>1, <3>1, <4>1 DEF GetIds
    <3>2. CASE ids[KeyOf(job[s])] # NoIds
        BY <2>1, <3>2 DEF GetIds
    <3> QED
        BY <3>1, <3>2
  <2>2. CASE QueryIds(s)
    <3>0. \A at : [job[s] EXCEPT !.at = at] = [job[s] EXCEPT !.at = at, !.ids = job[s].ids]
        BY <1>0 DEF Fields
    <3>1. job[s].op \in {"get", "find", "delete"}
        BY <2>2 DEF QueryIds, FInv, CInv, JobOK, OpOK
    <3>2. CASE job[s].op = "get"
      <4>1. CASE Result(s, job[s].q) = {}
        BY <2>2, <3>0, <3>2, <4>1 DEF QueryIds
      <4>2. CASE Result(s, job[s].q) # {}
        BY <2>2, <3>2, <4>2 DEF QueryIds
      <4> QED
        BY <4>1, <4>2
    <3>3. CASE job[s].op = "find"
      <4>1. CASE Cardinality(IdsOf(Result(s, job[s].q))) > MaxCachedIds
        BY <2>2, <3>0, <3>3, <4>1 DEF QueryIds
      <4>2. CASE ~(Cardinality(IdsOf(Result(s, job[s].q))) > MaxCachedIds)
        BY <2>2, <3>3, <4>2 DEF QueryIds
      <4> QED
        BY <4>1, <4>2
    <3>4. CASE job[s].op = "delete"
        BY <2>2, <3>4 DEF QueryIds
    <3> QED
        BY <3>1, <3>2, <3>3, <3>4
  <2>3. CASE PutIds(s)
    <3>1. [job[s] EXCEPT !.at = "getBean"]
          = [job[s] EXCEPT !.at = "getBean", !.ids = job[s].ids]
        BY <1>0 DEF Fields
    <3> QED
        BY <2>3, <3>1 DEF PutIds
  <2> QED
    BY <2>1, <2>2, <2>3
<1> DEFINE j == [job[s] EXCEPT !.at = at, !.ids = I]
<1>2. /\ j.op = job[s].op /\ j.at = at /\ j.rows = job[s].rows /\ j.miss = job[s].miss
      /\ j.fill = job[s].fill /\ j.ids = I
    BY <1>0 DEF Fields
<1>3. Step(s, j)
    BY <1>1
<1> HIDE DEF j
<1>4. FindOK(j)
    BY <1>0, <1>1, <1>2 DEF FInv, FindOK, IdsOf
<1> QED
    BY <1>3, <1>4, FindStep

\* A bean is taken only under its own id, which is then no longer looked up.
LEMMA FindBeanFind ==
    ASSUME FInv, CInv', NEW s \in Session, FindBean(s)
    PROVE  FInv'
<1>0. /\ DOMAIN job[s] = Fields /\ job[s].at = "getBean" /\ job[s].op = "find"
      /\ FindOK(job[s])
    BY DEF FInv, CInv, JobOK, FindBean
<1>1. PICK i \in job[s].ids :
          \/ Step(s, [job[s] EXCEPT !.ids = @ \ {i}, !.miss = @ \cup {i}])
          \/ Step(s, [NoJob EXCEPT !.op = "find", !.q = job[s].q, !.at = "query"])
          \/ /\ beans[i][1] = i
             /\ Step(s, [job[s] EXCEPT !.ids = @ \ {i}, !.rows = @ \cup {beans[i]}])
    BY DEF FindBean
<1>2. CASE Step(s, [job[s] EXCEPT !.ids = @ \ {i}, !.miss = @ \cup {i}])
  <2> DEFINE j == [job[s] EXCEPT !.ids = @ \ {i}, !.miss = @ \cup {i}]
  <2>1. /\ j.op = "find" /\ j.at = "getBean" /\ j.rows = job[s].rows
        /\ j.miss = job[s].miss \cup {i} /\ j.ids = job[s].ids \ {i} /\ j.fill = job[s].fill
    BY <1>0 DEF Fields
  <2>2. Step(s, j)
    BY <1>2
  <2> HIDE DEF j
  <2>3. FindOK(j)
    BY <1>0, <1>1, <2>1 DEF FindOK
  <2> QED
    BY <2>2, <2>3, FindStep
<1>3. CASE Step(s, [NoJob EXCEPT !.op = "find", !.q = job[s].q, !.at = "query"])
  <2> DEFINE j == [NoJob EXCEPT !.op = "find", !.q = job[s].q, !.at = "query"]
  <2>1. j.at = "query" /\ j.rows = {} /\ j.miss = {} /\ j.fill = {}
    BY DEF NoJob
  <2>2. Step(s, j)
    BY <1>3
  <2> HIDE DEF j
  <2>3. FindOK(j)
    BY <2>1 DEF FindOK, OnePerId
  <2> QED
    BY <2>2, <2>3, FindStep
<1>4. CASE /\ beans[i][1] = i
           /\ Step(s, [job[s] EXCEPT !.ids = @ \ {i}, !.rows = @ \cup {beans[i]}])
  <2> DEFINE j == [job[s] EXCEPT !.ids = @ \ {i}, !.rows = @ \cup {beans[i]}]
  <2>1. /\ j.op = "find" /\ j.at = "getBean" /\ j.rows = job[s].rows \cup {beans[i]}
        /\ j.miss = job[s].miss /\ j.ids = job[s].ids \ {i} /\ j.fill = job[s].fill
    BY <1>0 DEF Fields
  <2>2. Step(s, j)
    BY <1>4
  <2> HIDE DEF j
  <2>3. i \notin job[s].miss /\ \A r \in job[s].rows : r[1] # i
    BY <1>0, <1>1 DEF FindOK, IdsOf
  <2>4. OnePerId(j.rows \cup j.fill)
    BY <1>0, <1>4, <2>1, <2>3 DEF FindOK, OnePerId
  <2>5. IdsOf(j.rows) \cap (j.ids \cup j.miss) = {}
    BY <1>0, <1>4, <2>1, <2>3 DEF FindOK, IdsOf
  <2>6. FindOK(j)
    BY <1>0, <2>1, <2>3, <2>4, <2>5 DEF FindOK
  <2> QED
    BY <2>2, <2>6, FindStep
<1> QED
    BY <1>1, <1>2, <1>3, <1>4

\* What is read for the ids that were missed is none of what was found.
LEMMA FillsFind ==
    ASSUME FInv, CInv', NEW s \in Session, FindMissing(s) \/ PutBean(s)
    PROVE  FInv'
<1>0. DOMAIN job[s] = Fields /\ FindOK(job[s]) /\ job[s].at \in {"getBean", "putBean"}
    BY DEF FInv, CInv, JobOK, FindMissing, PutBean
<1>1. CASE FindMissing(s)
  <2> DEFINE found == {r \in Rows(View(s)) : r[1] \in job[s].miss}
  <2>1. CASE found = {}
    <3>1. Done(s, job[s].rows)
        BY <1>1, <2>1 DEF FindMissing
    <3> QED
        BY <1>0, <3>1, DoneFind DEF FindOK, OnePerId
  <2>2. CASE found # {}
    <3> DEFINE j == [job[s] EXCEPT !.at = "putBean", !.fill = found]
    <3>1. /\ j.op = "find" /\ j.at = "putBean" /\ j.rows = job[s].rows /\ j.fill = found
        BY <1>0, <1>1 DEF Fields, FindMissing
    <3>2. Step(s, j)
        BY <1>1, <2>2 DEF FindMissing
    <3> HIDE DEF j
    <3>3. OnePerId(job[s].rows) /\ OnePerId(found)
          /\ \A r1 \in job[s].rows, r2 \in found : r1[1] # r2[1]
        BY <1>0, <1>1, RowsOnePerId DEF FindMissing, FindOK, OnePerId, IdsOf
    <3>4. OnePerId(j.rows \cup j.fill)
        BY <3>1, <3>3 DEF OnePerId
    <3>5. FindOK(j)
        BY <3>1, <3>4 DEF FindOK
    <3> QED
        BY <3>2, <3>5, FindStep
  <2> QED
    BY <2>1, <2>2
<1>2. CASE PutBean(s)
  <2>0. job[s].at = "putBean"
    BY <1>2 DEF PutBean
  <2>1. PICK r \in job[s].fill :
            \/ Done(s, job[s].rows \cup {r})
            \/ Step(s, [job[s] EXCEPT !.fill = @ \ {r}, !.rows = @ \cup {r}])
    BY <1>2 DEF PutBean
  <2>2. CASE Done(s, job[s].rows \cup {r})
    BY <1>0, <2>1, <2>2, DoneFind DEF FindOK, OnePerId
  <2>3. CASE Step(s, [job[s] EXCEPT !.fill = @ \ {r}, !.rows = @ \cup {r}])
    <3> DEFINE j == [job[s] EXCEPT !.fill = @ \ {r}, !.rows = @ \cup {r}]
    <3>1. /\ j.op = job[s].op /\ j.at = "putBean"
          /\ j.rows = job[s].rows \cup {r} /\ j.fill = job[s].fill \ {r}
        BY <1>0, <2>0 DEF Fields
    <3>2. Step(s, j)
        BY <2>3
    <3> HIDE DEF j
    <3>3. j.rows \cup j.fill = job[s].rows \cup job[s].fill
        BY <2>1, <3>1
    <3>4. FindOK(j)
        BY <1>0, <3>1, <3>3 DEF FindOK
    <3> QED
        BY <3>2, <3>4, FindStep
  <2> QED
    BY <2>1, <2>2, <2>3
<1> QED
    BY <1>1, <1>2

LEMMA QueryRowsFind ==
    ASSUME FInv, CInv', NEW s \in Session, QueryRows(s)
    PROVE  FInv'
<1>1. job[s].op \in {"get", "find"}
    BY DEF QueryRows, FInv, CInv, JobOK, OpOK
<1>2. OnePerId(Result(s, job[s].q)) /\ OnePerId({}) /\ \A r : OnePerId({r})
    BY RowsOnePerId DEF OnePerId, Result
<1>3. \E R : Done(s, R) /\ OnePerId(R)
    BY <1>1, <1>2 DEF QueryRows
<1> QED
    BY <1>3, DoneFind

\* Get, and the calls that write.
LEMMA OthersFind ==
    ASSUME FInv, CInv', NEW s \in Session,
           \/ GetBean(s) \/ Fetch(s) \/ ReadFails(s)
           \/ \E i \in Id, v \in Value : Insert(s, i, v) \/ InsertMap(s, i, v)
           \/ \E q \in Query : Delete(s, q) \/ \E v \in Value : Update(s, q, v)
           \/ CacheDeleteFails(s) \/ DelBean(s) \/ ClearIds(s) \/ ClearBeans(s)
           \/ ExecLast(s) \/ ExecFails(s)
           \/ Begin(s) \/ Commit(s) \/ Rollback(s) \/ Close(s)
    PROVE  FInv'
<1>0. DOMAIN job[s] = Fields /\ OpOK(job[s]) /\ FindOK(job[s]) /\ NoJob.op # "find"
    BY DEF FInv, CInv, JobOK, NoJob
<1>1. \A at, I, F : /\ [job[s] EXCEPT !.at = at].op = job[s].op
                    /\ [job[s] EXCEPT !.ids = I].op = job[s].op
                    /\ [job[s] EXCEPT !.at = at, !.fill = F].op = job[s].op
    BY <1>0 DEF Fields
<1>2. CASE Step(s, NoJob)
    BY <1>0, <1>2, OtherStep
<1>3. CASE GetBean(s)
  <2>1. job[s].op # "find" /\ ((\E R : Done(s, R)) \/ Step(s, [job[s] EXCEPT !.at = "fetch"]))
    BY <1>3 DEF GetBean
  <2>2. CASE Step(s, [job[s] EXCEPT !.at = "fetch"])
    BY <1>1, <2>1, <2>2, OtherStep
  <2>3. CASE \E R : Done(s, R)
    BY <2>1, <2>3, DoneFind
  <2> QED
    BY <2>1, <2>2, <2>3
<1>4. CASE Fetch(s)
  <2>1. job[s].op # "find"
    BY <1>0, <1>4 DEF Fetch, FindOK
  <2>2. (\E R : Done(s, R)) \/ \E F : Step(s, [job[s] EXCEPT !.at = "putBean", !.fill = F])
    BY <1>4 DEF Fetch
  <2>3. CASE \E R : Done(s, R)
    BY <2>1, <2>3, DoneFind
  <2>4. ASSUME NEW F, Step(s, [job[s] EXCEPT !.at = "putBean", !.fill = F])
        PROVE  FInv'
    BY <1>1, <2>1, <2>4, OtherStep
  <2> QED
    BY <2>2, <2>3, <2>4
<1>5. ASSUME NEW i, NEW v, Insert(s, i, v) PROVE FInv'
  <2>1. [NoJob EXCEPT !.op = "insert", !.at = "clearIds"].op # "find"
    BY DEF NoJob
  <2> QED
    BY <1>5, <2>1, OtherStep DEF Insert
<1>6. ASSUME NEW i, NEW v, InsertMap(s, i, v) PROVE FInv'
  <2>1. [NoJob EXCEPT !.op = "insertMap", !.at = "exec", !.set = <<i, v>>].op # "find"
    BY DEF NoJob
  <2> QED
    BY <1>6, <2>1, OtherStep DEF InsertMap
<1>7. ASSUME NEW q, NEW v, Update(s, q, v) PROVE FInv'
  <2>1. [NoJob EXCEPT !.op = "update", !.at = "clearIds"].op # "find"
    BY DEF NoJob
  <2> QED
    BY <1>7, <2>1, OtherStep DEF Update
<1>8. ASSUME NEW q, Delete(s, q) PROVE FInv'
  <2>1. \A at : [NoJob EXCEPT !.op = "delete", !.q = q, !.at = at].op # "find"
    BY DEF NoJob
  <2>2. PICK at : Step(s, [NoJob EXCEPT !.op = "delete", !.q = q, !.at = at])
    BY <1>8 DEF Delete
  <2> QED
    BY <2>1, <2>2, OtherStep
<1>9. CASE CacheDeleteFails(s) \/ DelBean(s) \/ ClearIds(s)
  <2>1. job[s].op # "find"
    BY <1>0, <1>9 DEF CacheDeleteFails, DelBean, ClearIds, FindOK
  <2>2. \/ Step(s, NoJob)
        \/ \E at : Step(s, [job[s] EXCEPT !.at = at])
        \/ \E I : Step(s, [job[s] EXCEPT !.ids = I])
    BY <1>0, <1>9 DEF CacheDeleteFails, DelBean, ClearIds, OpOK
  <2>3. ASSUME NEW at, Step(s, [job[s] EXCEPT !.at = at]) PROVE FInv'
    BY <1>1, <2>1, <2>3, OtherStep
  <2>4. ASSUME NEW I, Step(s, [job[s] EXCEPT !.ids = I]) PROVE FInv'
    BY <1>1, <2>1, <2>4, OtherStep
  <2> QED
    BY <1>2, <2>2, <2>3, <2>4
<1>10. CASE \/ ReadFails(s) \/ ClearBeans(s) \/ ExecLast(s) \/ ExecFails(s)
            \/ Begin(s) \/ Commit(s) \/ Rollback(s) \/ Close(s)
    BY <1>2, <1>10 DEF ReadFails, ClearBeans, ExecLast, ExecFails, Begin, Commit, Rollback, Close
<1> QED
    BY <1>3, <1>4, <1>5, <1>6, <1>7, <1>8, <1>9, <1>10

LEMMA NextFind == FInv /\ [Next]_vars => FInv'
<1> SUFFICES ASSUME FInv, [Next]_vars PROVE FInv'
    OBVIOUS
<1>0. CInv'
    BY NextInv DEF FInv
<1>1. CASE UNCHANGED job
    BY <1>0, <1>1 DEF FInv
<1>2. CASE Next /\ ~UNCHANGED job
  <2>1. ~Forget
    BY <1>2 DEF Forget
  <2> QED
    BY <1>0, <1>2, <2>1, StartReadFind, IdsFind, FindBeanFind, FillsFind, QueryRowsFind,
       OthersFind DEF Next
<1> QED
    BY <1>1, <1>2 DEF vars

\* Find returns no record twice, for any number of sessions, records and queries, and
\* however their steps interleave (cacheFind, which drops every id it has looked up and
\* distrusts a bean with another id).
THEOREM FindHasOneRowPerId == Spec => []FindOneRowPerId
<1>1. Init => FInv
    BY InitInv DEF Init, FInv, FindOK, NoJob
<1>2. FInv => FindOneRowPerId
  <2> SUFFICES ASSUME FInv, NEW s \in Session, job[s].op = "find"
               PROVE  /\ \/ IdsOf(job[s].rows) \cap (job[s].ids \cup job[s].miss) = {}
                         \/ job[s].at = "putBean"
                      /\ OnePerId(job[s].rows \cup job[s].fill)
    BY DEF FindOneRowPerId, OnePerId
  <2>1. FindOK(job[s])
    BY DEF FInv
  <2> QED
    BY <2>1 DEF FindOK, IdsOf
<1> QED
    BY <1>1, <1>2, NextFind, PTL DEF Spec

----------------------------------------------------------------------------
(* Types *)

\* What insertMap writes is a record.
TypedJob == {j \in Job : j.at = "exec" /\ j.op = "insertMap" => j.set \in Row}

Typed == TypeOK /\ job \in [Session -> TypedJob]

TInv == CInv /\ Typed

LEMMA RowsType ==
    ASSUME NEW t \in Table
    PROVE  Rows(t) \subseteq Row
BY DEF Table, Rows, Row

LEMMA OverlayType ==
    ASSUME NEW w \in [Id -> Value \cup {None, Unwritten}]
    PROVE  /\ \A t \in Table : Overlay(t, w) \in Table
           /\ \A t \in [Id -> Value \cup {None, Unwritten}] :
                 Overlay(t, w) \in [Id -> Value \cup {None, Unwritten}]
BY DEF Table, Overlay

LEMMA ViewType ==
    ASSUME Typed, NEW s \in Session
    PROVE  View(s) \in Table /\ Rows(View(s)) \subseteq Row
<1>1. View(s) \in Table
    BY OverlayType DEF Typed, TypeOK, View
<1> QED
    BY <1>1, RowsType

LEMMA ResultType ==
    ASSUME Typed, NEW s \in Session, NEW q
    PROVE  /\ Result(s, q) \subseteq Row /\ IdsOf(Result(s, q)) \subseteq Id
           /\ Result(s, q) # {} => LimitOne(Result(s, q)) \subseteq Row
<1>1. Result(s, q) \subseteq Row
    BY ViewType DEF Result
<1> QED
    BY <1>1 DEF IdsOf, LimitOne, Row

LEMMA NoJobType == NoJob \in TypedJob
BY DEF NoJob, TypedJob, Job

LEMMA JobTyped ==
    ASSUME Typed, NEW s \in Session, NEW j \in TypedJob, Step(s, j)
    PROVE  job' \in [Session -> TypedJob] /\ job' \in [Session -> Job]
<1>1. job' \in [Session -> TypedJob]
    BY DEF Typed, Step
<1>2. TypedJob \subseteq Job
    BY DEF TypedJob
<1> HIDE DEF TypedJob
<1> QED
    BY <1>1, <1>2

\* What a write puts into the database, or into its transaction, is typed.
LEMMA ExecType ==
    ASSUME Typed, NEW s \in Session, NEW w \in [Id -> Value \cup {None, Unwritten}], Exec(s, w),
           NEW j \in TypedJob, Step(s, j), NoCacher, UNCHANGED tx
    PROVE  Typed'
<1>0. job' \in [Session -> TypedJob] /\ job' \in [Session -> Job]
    BY JobTyped
<1>1. execs' \in 0..MaxWrites
    BY CachedSessionAssumption DEF Typed, TypeOK, Exec
<1>2. CASE tx[s] = "open"
  <2>1. writes' \in [Session -> [Id -> Value \cup {None, Unwritten}]]
    BY <1>2, OverlayType DEF Typed, TypeOK, Exec
  <2> QED
    BY <1>0, <1>1, <1>2, <2>1 DEF Typed, TypeOK, Exec, NoCacher
<1>3. CASE tx[s] # "open"
  <2>1. db' \in Table /\ Rows(db') \subseteq Row
    BY <1>3, OverlayType, RowsType DEF Typed, TypeOK, Exec, Become
  <2>2. seen' \in [Session -> SUBSET Row] /\ committed' \subseteq Row
    BY <1>3, <2>1 DEF Typed, TypeOK, Exec, Become
  <2> QED
    BY <1>0, <1>1, <1>3, <2>1, <2>2 DEF Typed, TypeOK, Exec, Become, NoCacher
<1> QED
    BY <1>2, <1>3

\* A step of a call that writes nothing to the database.
LEMMA StepType ==
    ASSUME Typed, NEW s \in Session, NEW j \in TypedJob, Step(s, j), NoDb, UNCHANGED tx,
           beans' \in [Id -> Row \cup {None}], ids' \in [Key -> (SUBSET Id) \cup {{None}}]
    PROVE  Typed'
BY JobTyped DEF Typed, TypeOK, NoDb

LEMMA DoneType ==
    ASSUME Typed, NEW s \in Session, NEW R, R \subseteq Row
    PROVE  [NoJob EXCEPT !.op = job[s].op, !.q = job[s].q, !.at = "done", !.rows = R] \in TypedJob
<1>1. job[s].op \in {"none", "get", "find", "insert", "insertMap", "update", "delete"}
      /\ job[s].q \in Query \cup {None}
    BY DEF Typed, TypeOK, TypedJob, Job
<1> QED
    BY <1>1, NoJobType DEF TypedJob, Job

LEMMA SettingType ==
    ASSUME NEW I, NEW v \in Value \cup {None}
    PROVE  Setting(I, v) \in [Id -> Value \cup {None, Unwritten}]
BY DEF Setting

LEMMA ReadsType ==
    ASSUME TInv, NEW s \in Session,
           \/ GetIds(s) \/ QueryIds(s) \/ PutIds(s) \/ GetBean(s) \/ FindBean(s)
           \/ Fetch(s) \/ FindMissing(s) \/ PutBean(s) \/ QueryRows(s) \/ ReadFails(s)
    PROVE  Typed'
<1>0. /\ Typed /\ OpOK(job[s]) /\ job[s] \in TypedJob /\ NoDb /\ UNCHANGED tx
      /\ ids \in [Key -> (SUBSET Id) \cup {{None}}] /\ beans \in [Id -> Row \cup {None}]
      /\ ids' \in [Key -> (SUBSET Id) \cup {{None}}] \/ PutIds(s)
      /\ beans' \in [Id -> Row \cup {None}] \/ PutBean(s)
    BY DEF TInv, Typed, TypeOK, CInv, JobOK, GetIds, QueryIds, PutIds, GetBean, FindBean, Fetch,
           FindMissing, PutBean, QueryRows, ReadFails, NoCacher
<1>1. CASE GetIds(s)
  <2>1. CASE ids[KeyOf(job[s])] = NoIds
    <3>1. [job[s] EXCEPT !.at = "queryIds"] \in TypedJob
        BY <1>0 DEF TypedJob, Job
    <3> QED
        BY <1>0, <1>1, <2>1, <3>1, StepType DEF GetIds, PutIds, PutBean
  <2>2. CASE ids[KeyOf(job[s])] # NoIds
    <3>1. KeyOf(job[s]) \in Key
        BY <1>1 DEF GetIds, TInv, CInv, JobOK, KeyOf, Key
    <3>2. ids[KeyOf(job[s])] \in SUBSET Id
        BY <3>1, <2>2 DEF TInv, CInv, IdsOK
    <3>3. \A at \in {"delBean", "getBean"}, I \in SUBSET Id :
              [job[s] EXCEPT !.at = at, !.ids = I] \in TypedJob
        BY <1>0 DEF TypedJob, Job
    <3>4. PICK at \in {"delBean", "getBean"} :
              Step(s, [job[s] EXCEPT !.at = at, !.ids = ids[KeyOf(job[s])]])
        BY <1>1, <2>2 DEF GetIds
    <3> QED
        BY <1>0, <1>1, <3>2, <3>3, <3>4, StepType DEF GetIds, PutIds, PutBean
  <2> QED
    BY <2>1, <2>2
<1>2. CASE QueryIds(s)
  <2> DEFINE R == Result(s, job[s].q)
  <2>0. IdsOf(R) \in SUBSET Id /\ \A r \in LimitOne(R) : R # {} => {r[1]} \in SUBSET Id
    BY FoundIds
  <2>1. \/ \E at \in {"query"} : Step(s, [job[s] EXCEPT !.at = at])
        \/ \E at \in {"putIds", "delBean"}, I \in SUBSET Id :
              Step(s, [job[s] EXCEPT !.at = at, !.ids = I])
    <3>1. job[s].op \in {"get", "find", "delete"}
        BY <1>0, <1>2 DEF QueryIds, OpOK
    <3>2. CASE job[s].op = "get"
        BY <1>2, <2>0, <3>2 DEF QueryIds
    <3>3. CASE job[s].op = "find"
        BY <1>2, <2>0, <3>3 DEF QueryIds
    <3>4. CASE job[s].op = "delete"
        BY <1>2, <2>0, <3>4 DEF QueryIds
    <3> QED
        BY <3>1, <3>2, <3>3, <3>4
  <2>2. /\ [job[s] EXCEPT !.at = "query"] \in TypedJob
        /\ \A at \in {"putIds", "delBean"}, I \in SUBSET Id :
              [job[s] EXCEPT !.at = at, !.ids = I] \in TypedJob
    BY <1>0 DEF TypedJob, Job
  <2> QED
    BY <1>0, <1>2, <2>1, <2>2, StepType DEF QueryIds, PutIds, PutBean
<1>3. CASE PutIds(s)
  <2>1. [job[s] EXCEPT !.at = "getBean"] \in TypedJob
    BY <1>0 DEF TypedJob, Job
  <2>2. ids' \in [Key -> (SUBSET Id) \cup {{None}}]
    BY <1>0, <1>3 DEF PutIds, TypedJob, Job
  <2> QED
    BY <1>0, <1>3, <2>1, <2>2, StepType DEF PutIds, PutBean
<1>4. CASE GetBean(s)
  <2>1. [job[s] EXCEPT !.at = "fetch"] \in TypedJob
    BY <1>0 DEF TypedJob, Job
  <2>2. PICK i \in job[s].ids : IF beans[i] = None THEN Step(s, [job[s] EXCEPT !.at = "fetch"])
                                                  ELSE Done(s, {beans[i]})
    BY <1>4 DEF GetBean
  <2>3. i \in Id /\ (beans[i] # None => beans[i] \in Row)
    BY <1>0, <2>2 DEF TypedJob, Job
  <2>4. CASE beans[i] # None
    BY <1>0, <1>4, <2>2, <2>3, <2>4, DoneType, StepType DEF GetBean, PutIds, PutBean, Done
  <2>5. CASE beans[i] = None
    BY <1>0, <1>4, <2>1, <2>2, <2>5, StepType DEF GetBean, PutIds, PutBean
  <2> QED
    BY <2>4, <2>5
<1>5. CASE FindBean(s)
  <2>0. PICK i \in job[s].ids :
          \/ Step(s, [job[s] EXCEPT !.ids = @ \ {i}, !.miss = @ \cup {i}])
          \/ Step(s, [NoJob EXCEPT !.op = "find", !.q = job[s].q, !.at = "query"])
          \/ /\ beans[i] # None
             /\ Step(s, [job[s] EXCEPT !.ids = @ \ {i}, !.rows = @ \cup {beans[i]}])
    BY <1>5 DEF FindBean
  <2>1. i \in Id /\ (beans[i] # None => beans[i] \in Row)
    BY <1>0, <2>0 DEF TypedJob, Job
  <2>2. [job[s] EXCEPT !.ids = @ \ {i}, !.miss = @ \cup {i}] \in TypedJob
    BY <1>0, <2>1 DEF TypedJob, Job
  <2>3. [NoJob EXCEPT !.op = "find", !.q = job[s].q, !.at = "query"] \in TypedJob
    BY <1>0, NoJobType DEF TypedJob, Job
  <2>4. beans[i] \in Row =>
          [job[s] EXCEPT !.ids = @ \ {i}, !.rows = @ \cup {beans[i]}] \in TypedJob
    BY <1>0, <2>1 DEF TypedJob, Job
  <2> QED
    BY <1>0, <1>5, <2>0, <2>1, <2>2, <2>3, <2>4, StepType DEF FindBean, PutIds, PutBean
<1>6. CASE Fetch(s) \/ FindMissing(s)
  <2> DEFINE R == Result(s, job[s].q)
             found == {r \in Rows(View(s)) : r[1] \in job[s].miss}
  <2>1. /\ {} \subseteq Row /\ job[s].rows \subseteq Row /\ found \subseteq Row
        /\ R # {} => \A r \in LimitOne(R) : {r} \subseteq Row
    BY <1>0, ResultType, ViewType DEF TypedJob, Job
  <2>2. \A F \in SUBSET Row : [job[s] EXCEPT !.at = "putBean", !.fill = F] \in TypedJob
    BY <1>0 DEF TypedJob, Job
  <2>3. \/ \E Q \in SUBSET Row : Done(s, Q)
        \/ \E F \in SUBSET Row : Step(s, [job[s] EXCEPT !.at = "putBean", !.fill = F])
    <3>1. CASE Fetch(s)
        BY <2>1, <3>1 DEF Fetch
    <3>2. CASE FindMissing(s)
        BY <2>1, <3>2 DEF FindMissing
    <3> QED
        BY <1>6, <3>1, <3>2
  <2>4. ASSUME NEW Q \in SUBSET Row, Done(s, Q) PROVE Typed'
    BY <1>0, <1>6, <2>4, DoneType, StepType DEF Fetch, FindMissing, PutIds, PutBean, Done
  <2> QED
    BY <1>0, <1>6, <2>2, <2>3, <2>4, StepType DEF Fetch, FindMissing, PutIds, PutBean
<1>7. CASE PutBean(s)
  <2>1. PICK r \in job[s].fill :
            /\ \E i : beans' = [beans EXCEPT ![i] = r]
            /\ \/ Done(s, job[s].rows \cup {r})
               \/ Step(s, [job[s] EXCEPT !.fill = @ \ {r}, !.rows = @ \cup {r}])
    BY <1>7 DEF PutBean
  <2>2. r \in Row /\ job[s].rows \cup {r} \subseteq Row
    BY <1>0, <2>1 DEF TypedJob, Job
  <2>3. [job[s] EXCEPT !.fill = @ \ {r}, !.rows = @ \cup {r}] \in TypedJob
    BY <1>0, <2>2 DEF TypedJob, Job
  <2>4. beans' \in [Id -> Row \cup {None}] /\ ids' = ids
    BY <1>0, <1>7, <2>1, <2>2 DEF PutBean
  <2>5. CASE Done(s, job[s].rows \cup {r})
    BY <1>0, <2>2, <2>4, <2>5, DoneType, StepType DEF Done
  <2> QED
    BY <1>0, <2>1, <2>3, <2>4, <2>5, StepType
<1>8. CASE QueryRows(s)
  <2> DEFINE R == Result(s, job[s].q)
  <2>1. {} \in SUBSET Row /\ R \in SUBSET Row /\ (R # {} => \A r \in LimitOne(R) : {r} \in SUBSET Row)
    BY <1>0, ResultType
  <2>2. job[s].op \in {"get", "find"}
    BY <1>0, <1>8 DEF QueryRows, OpOK
  <2>3. \E Q \in SUBSET Row : Done(s, Q)
    BY <1>8, <2>1, <2>2 DEF QueryRows
  <2> QED
    BY <1>0, <1>8, <2>3, DoneType, StepType DEF QueryRows, PutIds, PutBean, Done
<1>9. CASE ReadFails(s)
    BY <1>0, <1>9, NoJobType, StepType DEF ReadFails, PutIds, PutBean
<1> QED
    BY <1>1, <1>2, <1>3, <1>4, <1>5, <1>6, <1>7, <1>8, <1>9

LEMMA StartReadType ==
    ASSUME TInv, NEW s \in Session, NEW op \in {"get", "find"}, NEW q \in Query, NEW useCache,
           StartRead(s, op, q, useCache)
    PROVE  Typed'
<1>1. PICK at \in {"getIds", "query"} : Step(s, [NoJob EXCEPT !.op = op, !.q = q, !.at = at])
    BY DEF StartRead
<1>2. [NoJob EXCEPT !.op = op, !.q = q, !.at = at] \in TypedJob
    BY NoJobType DEF TypedJob, Job
<1>3. seen' \in [Session -> SUBSET Row]
    BY ViewType DEF StartRead, TInv, Typed, TypeOK
<1>4. job' \in [Session -> TypedJob] /\ job' \in [Session -> Job]
    BY <1>1, <1>2, JobTyped DEF TInv
<1> QED
    BY <1>3, <1>4 DEF StartRead, TInv, Typed, TypeOK, NoCacher

LEMMA WritesType ==
    ASSUME TInv, NEW s \in Session,
           \/ \E i \in Id, v \in Value : Insert(s, i, v) \/ InsertMap(s, i, v)
           \/ \E q \in Query : Delete(s, q) \/ \E v \in Value : Update(s, q, v)
           \/ CacheDeleteFails(s) \/ DelBean(s) \/ ClearIds(s) \/ ClearBeans(s)
           \/ ExecLast(s) \/ ExecFails(s)
    PROVE  Typed'
<1>0. /\ Typed /\ OpOK(job[s]) /\ job[s] \in TypedJob
      /\ ids \in [Key -> (SUBSET Id) \cup {{None}}] /\ beans \in [Id -> Row \cup {None}]
    BY DEF TInv, Typed, TypeOK, CInv, JobOK
<1>1. ASSUME NEW i \in Id, NEW v \in Value, Insert(s, i, v) PROVE Typed'
  <2>1. [NoJob EXCEPT !.op = "insert", !.at = "clearIds"] \in TypedJob
    BY NoJobType DEF TypedJob, Job
  <2>2. Setting({i}, v) \in [Id -> Value \cup {None, Unwritten}]
    BY SettingType
  <2> QED
    BY <1>0, <1>1, <2>1, <2>2, ExecType DEF Insert
<1>2. ASSUME NEW i \in Id, NEW v \in Value, InsertMap(s, i, v) PROVE Typed'
  <2>1. [NoJob EXCEPT !.op = "insertMap", !.at = "exec", !.set = <<i, v>>] \in TypedJob
    BY NoJobType DEF TypedJob, Job, Row
  <2>2. ids' \in [Key -> (SUBSET Id) \cup {{None}}]
    BY <1>2 DEF InsertMap, NoIds
  <2> QED
    BY <1>0, <1>2, <2>1, <2>2, StepType DEF InsertMap
<1>3. ASSUME NEW q \in Query, NEW v \in Value, Update(s, q, v) PROVE Typed'
  <2>1. [NoJob EXCEPT !.op = "update", !.at = "clearIds"] \in TypedJob
    BY NoJobType DEF TypedJob, Job
  <2>2. Setting(IdsOf(Result(s, q)), v) \in [Id -> Value \cup {None, Unwritten}]
    BY SettingType
  <2> QED
    BY <1>0, <1>3, <2>1, <2>2, ExecType DEF Update
<1>4. ASSUME NEW q \in Query, Delete(s, q) PROVE Typed'
  <2>1. PICK at \in {"getIds", "exec"} :
            Step(s, [NoJob EXCEPT !.op = "delete", !.q = q, !.at = at])
    BY <1>4 DEF Delete
  <2>2. [NoJob EXCEPT !.op = "delete", !.q = q, !.at = at] \in TypedJob
    BY DEF NoJob, TypedJob, Job
  <2> QED
    BY <1>0, <1>4, <2>1, <2>2, StepType DEF Delete, NoCacher
<1>5. CASE CacheDeleteFails(s)
  <2>1. [job[s] EXCEPT !.at = "exec"] \in TypedJob
    BY <1>0, <1>5 DEF TypedJob, Job, CacheDeleteFails
  <2> QED
    BY <1>0, <1>5, <2>1, StepType DEF CacheDeleteFails, NoCacher
<1>6. CASE DelBean(s)
  <2>1. /\ [job[s] EXCEPT !.at = "clearIds"] \in TypedJob
        /\ \A i : [job[s] EXCEPT !.ids = @ \ {i}] \in TypedJob
    BY <1>0 DEF TypedJob, Job
  <2>2. beans' \in [Id -> Row \cup {None}] /\ ids' = ids /\ NoDb /\ UNCHANGED tx
    BY <1>0, <1>6 DEF DelBean
  <2> QED
    BY <1>0, <1>6, <2>1, <2>2, StepType DEF DelBean
<1>7. CASE ClearIds(s)
  <2>1. /\ [job[s] EXCEPT !.at = "clearBeans"] \in TypedJob
        /\ job[s].op = "delete" => [job[s] EXCEPT !.at = "exec"] \in TypedJob
    BY <1>0 DEF TypedJob, Job
  <2>2. ids' \in [Key -> (SUBSET Id) \cup {{None}}]
    BY <1>7 DEF ClearIds, NoIds
  <2>3. job[s].op \in {"insert", "update", "delete"}
    BY <1>0, <1>7 DEF ClearIds, OpOK
  <2> QED
    BY <1>0, <1>7, <2>1, <2>2, <2>3, NoJobType, StepType DEF ClearIds
<1>8. CASE ClearBeans(s) \/ ExecFails(s)
    BY <1>0, <1>8, NoJobType, StepType DEF ClearBeans, ExecFails, NoCacher
<1>9. CASE ExecLast(s)
  <2>1. CASE job[s].op = "delete"
    BY <1>0, <1>9, <2>1, SettingType, NoJobType, ExecType DEF ExecLast
  <2>2. CASE job[s].op = "insertMap"
    <3>1. job[s].set[2] \in Value
        BY <1>0, <1>9, <2>2 DEF ExecLast, TypedJob, Row
    <3>2. Setting({job[s].set[1]}, job[s].set[2]) \in [Id -> Value \cup {None, Unwritten}]
        BY <3>1, SettingType
    <3> QED
        BY <1>0, <1>9, <2>2, <3>2, NoJobType, ExecType DEF ExecLast
  <2> QED
    BY <1>0, <1>9, <2>1, <2>2 DEF ExecLast, OpOK
<1> QED
    BY <1>1, <1>2, <1>3, <1>4, <1>5, <1>6, <1>7, <1>8, <1>9

LEMMA TxType ==
    ASSUME TInv, NEW s \in Session, Begin(s) \/ Commit(s) \/ Rollback(s) \/ Close(s)
    PROVE  Typed'
<1>0. NoWrites \in [Id -> Value \cup {None, Unwritten}]
    BY DEF NoWrites
<1>1. /\ tx' \in [Session -> {"nil", "open", "ended"}]
      /\ writes' \in [Session -> [Id -> Value \cup {None, Unwritten}]]
      /\ Step(s, NoJob) /\ NoCacher /\ execs' = execs
    BY <1>0 DEF TInv, Typed, TypeOK, Begin, Commit, Rollback, Close, NoDb
<1>a. job' \in [Session -> TypedJob] /\ job' \in [Session -> Job]
    BY <1>1, NoJobType, JobTyped DEF TInv
<1>2. CASE Commit(s)
  <2>1. db' \in Table /\ Rows(db') \subseteq Row
    BY <1>2, OverlayType, RowsType DEF TInv, Typed, TypeOK, Commit, Become
  <2>2. seen' \in [Session -> SUBSET Row] /\ committed' \subseteq Row
    BY <1>2, <2>1 DEF TInv, Typed, TypeOK, Commit, Become
  <2> QED
    BY <1>1, <2>1, <2>2, <1>a DEF TInv, Typed, TypeOK, NoCacher
<1>3. CASE Begin(s) \/ Rollback(s) \/ Close(s)
  <2>1. UNCHANGED <<db, committed, seen>>
    BY <1>3 DEF Begin, Rollback, Close, NoDb
  <2> QED
    BY <1>1, <2>1, <1>a DEF TInv, Typed, TypeOK, NoCacher
<1> QED
    BY <1>2, <1>3

LEMMA ForgetType ==
    ASSUME TInv, Forget
    PROVE  Typed'
<1>1. beans' \in [Id -> Row \cup {None}] /\ ids' \in [Key -> (SUBSET Id) \cup {{None}}]
    BY DEF TInv, Typed, TypeOK, Forget, NoIds
<1> QED
    BY <1>1 DEF TInv, Typed, TypeOK, Forget, NoDb

LEMMA NextType == TInv /\ [Next]_vars => TInv'
<1> SUFFICES ASSUME TInv, [Next]_vars PROVE Typed'
    BY NextInv DEF TInv
<1>1. CASE UNCHANGED vars
    BY <1>1 DEF vars, TInv, Typed, TypeOK
<1>2. CASE Forget
    BY <1>2, ForgetType
<1>3. CASE Next /\ ~Forget
    BY <1>3, StartReadType, ReadsType, WritesType, TxType DEF Next
<1> QED
    BY <1>1, <1>2, <1>3

LEMMA InitTyped == Init => TInv
BY InitInv, NoJobType, RowsType, CachedSessionAssumption
DEF Init, TInv, Typed, TypeOK, NoWrites, NoIds, TypedJob

\* The type invariant: what a call keeps of a read or of a write between two steps is made of
\* records and ids, whatever the calls of other sessions put into the cache.
THEOREM CachedSessionTyped == Spec => []TypeOK
<1>1. TInv => TypeOK
    BY DEF TInv, Typed
<1> QED
    BY <1>1, InitTyped, NextType, PTL DEF Spec

----------------------------------------------------------------------------
(* A session that is alone: the cache is never stale between its calls *)

\* One session, without transactions, whose cacheDelete reads the ids when it has to; LIMIT 1
\* takes the same of several records every time.
Alone ==
    /\ \E s : Session = {s}
    /\ ~UseTx /\ StableOrder /\ "cacheDelete" \notin Faults

\* The records of table D that q asks for, and the one that LIMIT 1 takes.
Asked(D, q) == {r \in Rows(D) : Matches(r, q)}
First(D, q) == CHOOSE r \in Asked(D, q) : TRUE

\* Every cached bean is what the table has under its id.
BeansFresh(D, B) == \A i \in Id : B[i] # None => B[i] \in Rows(D) /\ B[i][1] = i

\* Every cached list is what the query would find.
IdsFresh(D, L) ==
    \A q \in Query :
        /\ L[<<"get", q>>] = NoIds \/ (Asked(D, q) # {} /\ L[<<"get", q>>] = {First(D, q)[1]})
        /\ L[<<"find", q>>] = NoIds \/ L[<<"find", q>>] = IdsOf(Asked(D, q))

NoLists(L) == \A k \in Key : L[k] = NoIds

\* What a read j in progress has found is what the table has.
ReadFresh(j, D) ==
    /\ j.at \in {"putIds", "getBean", "putBean"} => j.op \in {"get", "find"}
    /\ j.at = "fetch" => j.op = "get"
    /\ j.op = "get" =>
          /\ j.at # "done" => j.rows = {}
          /\ j.at = "done" => \A r \in j.rows : Matches(r, j.q)
          /\ j.at \in {"putIds", "getBean", "fetch", "putBean"} =>
                Asked(D, j.q) # {} /\ j.ids = {First(D, j.q)[1]}
          /\ j.at = "putBean" => j.fill = {First(D, j.q)}
    /\ j.op = "find" /\ j.at = "putIds" => j.ids = IdsOf(Asked(D, j.q))
    /\ j.at = "putBean" => j.fill \subseteq Rows(D)

\* What a write j in progress has still to drop: cacheDelete drops the beans the statement
\* will delete, and every list, before it; so does insertMap with the lists.
WriteFresh(j, D, B, L) ==
    /\ j.at = "delBean" => \A i \in IdsOf(Asked(D, j.q)) : B[i] # None => i \in j.ids
    /\ j.op = "delete" /\ j.at \in {"clearIds", "exec"} =>
          \A i \in IdsOf(Asked(D, j.q)) : B[i] = None
    /\ j.at \in {"exec", "clearBeans"} => NoLists(L)

\* The cache is stale only between the statement of an insert or update and what drops the
\* lists, or the beans, after it.
Fresh(j, D, B, L) ==
    /\ ReadFresh(j, D) /\ WriteFresh(j, D, B, L)
    /\ ~(j.op = "update" /\ j.at \in {"clearIds", "clearBeans"}) => BeansFresh(D, B)
    /\ ~(j.op \in {"insert", "update"} /\ j.at = "clearIds") => IdsFresh(D, L)

AInv ==
    /\ TInv
    /\ \A s \in Session : tx[s] = "nil" /\ writes[s] = NoWrites /\ Fresh(job[s], db, beans, ids)

LEMMA FirstAsked ==
    ASSUME NEW D, NEW q, Asked(D, q) # {}
    PROVE  First(D, q) \in Asked(D, q)
BY DEF First

\* A table has one record of every id.
LEMMA OneRecord ==
    ASSUME NEW D, NEW r1 \in Rows(D), NEW r2 \in Rows(D), r1[1] = r2[1]
    PROVE  r1 = r2
BY DEF Rows

LEMMA AskedOfId ==
    ASSUME NEW D, NEW q
    PROVE  /\ IdsOf(Asked(D, q)) \subseteq Id
           /\ \A r \in Asked(D, q) : r \in Rows(D) /\ Matches(r, q) /\ r[1] \in Id
BY DEF Asked, Rows, IdsOf

\* Without transactions every statement sees the table.
LEMMA SeesTable ==
    ASSUME AInv, NEW s \in Session
    PROVE  View(s) = db /\ \A q : Result(s, q) = Asked(db, q)
<1>1. View(s) = db
    BY DEF AInv, TInv, Typed, TypeOK, Table, View, Overlay, NoWrites
<1> QED
    BY <1>1 DEF Result, Asked

LEMMA TakesFirst ==
    ASSUME Alone, NEW D, NEW q
    PROVE  LimitOne(Asked(D, q)) = {First(D, q)}
BY DEF Alone, LimitOne, First

\* A step of the only session.
LEMMA AloneStep ==
    ASSUME Alone, AInv, TInv', NEW s \in Session, NEW j, Step(s, j), UNCHANGED <<tx, writes>>,
           Fresh(j, db', beans', ids')
    PROVE  AInv'
<1>1. Session = {s}
    BY DEF Alone
<1>2. job'[s] = j
    BY DEF AInv, TInv, CInv, Step
<1> QED
    BY <1>1, <1>2 DEF AInv

LEMMA NoJobFresh ==
    ASSUME NEW D, NEW B, NEW L, BeansFresh(D, B), IdsFresh(D, L)
    PROVE  Fresh(NoJob, D, B, L)
BY DEF NoJob, Fresh, ReadFresh, WriteFresh

\* A read that returns R.
LEMMA DoneFresh ==
    ASSUME Alone, AInv, TInv', NEW s \in Session, NEW R, Done(s, R), NoDb, UNCHANGED <<tx, ids>>,
           job[s].at \notin {"clearIds", "clearBeans"},
           BeansFresh(db, beans'),
           job[s].op = "get" => \A r \in R : Matches(r, job[s].q)
    PROVE  AInv'
<1> DEFINE j == [NoJob EXCEPT !.op = job[s].op, !.q = job[s].q, !.at = "done", !.rows = R]
<1>1. j.op = job[s].op /\ j.q = job[s].q /\ j.at = "done" /\ j.rows = R
    BY DEF NoJob
<1>2. Step(s, j) /\ UNCHANGED <<db, writes>>
    BY DEF Done, NoDb
<1>3. IdsFresh(db, ids)
    BY DEF AInv, Fresh
<1> HIDE DEF j
<1>4. Fresh(j, db, beans', ids)
    BY <1>1, <1>3 DEF Fresh, ReadFresh, WriteFresh
<1> QED
    BY <1>2, <1>4, AloneStep

\* What the invariant says of the call of the only session.
LEMMA CallFresh ==
    ASSUME AInv, NEW s \in Session
    PROVE  /\ DOMAIN job[s] = Fields /\ OpOK(job[s]) /\ job[s] \in Job
           /\ ReadFresh(job[s], db) /\ WriteFresh(job[s], db, beans, ids)
           /\ job[s].at \notin {"clearIds", "clearBeans"} =>
                 BeansFresh(db, beans) /\ IdsFresh(db, ids)
           /\ job[s].at = "getIds" => job[s].q \in Query
           /\ tx[s] = "nil"
BY DEF AInv, TInv, CInv, Typed, TypeOK, JobOK, Fresh

LEMMA StartReadFresh ==
    ASSUME Alone, AInv, TInv', NEW s \in Session, NEW op \in {"get", "find"}, NEW q \in Query,
           NEW useCache, StartRead(s, op, q, useCache)
    PROVE  AInv'
<1>1. PICK at \in {"getIds", "query"} : Step(s, [NoJob EXCEPT !.op = op, !.q = q, !.at = at])
    BY DEF StartRead
<1> DEFINE j == [NoJob EXCEPT !.op = op, !.q = q, !.at = at]
<1>2. j.op = op /\ j.at = at /\ j.rows = {}
    BY DEF NoJob
<1>3. Step(s, j) /\ UNCHANGED <<db, writes, tx, beans, ids>>
    BY <1>1 DEF StartRead, NoCacher
<1>4. BeansFresh(db, beans) /\ IdsFresh(db, ids)
    BY CallFresh DEF StartRead, Free
<1> HIDE DEF j
<1>5. Fresh(j, db, beans, ids)
    BY <1>1, <1>2, <1>4 DEF Fresh, ReadFresh, WriteFresh
<1> QED
    BY <1>3, <1>5, AloneStep

LEMMA GetIdsFresh ==
    ASSUME Alone, AInv, TInv', NEW s \in Session, GetIds(s)
    PROVE  AInv'
<1>0. /\ job[s].at = "getIds" /\ NoDb /\ UNCHANGED <<tx, beans, ids, db, writes>>
      /\ BeansFresh(db, beans) /\ IdsFresh(db, ids) /\ job[s].q \in Query
      /\ DOMAIN job[s] = Fields /\ job[s].op \in {"get", "find", "delete"}
      /\ ReadFresh(job[s], db)
    BY CallFresh DEF GetIds, NoCacher, NoDb, OpOK
<1>1. CASE ids[KeyOf(job[s])] = NoIds
  <2> DEFINE j == [job[s] EXCEPT !.at = "queryIds"]
  <2>1. j.op = job[s].op /\ j.at = "queryIds" /\ j.rows = job[s].rows
    BY <1>0 DEF Fields
  <2>2. Step(s, j)
    BY <1>1 DEF GetIds
  <2> HIDE DEF j
  <2>3. Fresh(j, db, beans, ids)
    BY <1>0, <2>1 DEF Fresh, ReadFresh, WriteFresh
  <2> QED
    BY <1>0, <2>2, <2>3, AloneStep
<1>2. CASE ids[KeyOf(job[s])] # NoIds
  <2> DEFINE I == ids[KeyOf(job[s])]
             j == [job[s] EXCEPT !.at = IF job[s].op = "delete" THEN "delBean" ELSE "getBean",
                                 !.ids = I]
  <2>1. /\ j.op = job[s].op /\ j.at = (IF job[s].op = "delete" THEN "delBean" ELSE "getBean")
        /\ j.rows = job[s].rows /\ j.q = job[s].q /\ j.ids = I
    BY <1>0 DEF Fields
  <2>2. Step(s, j)
    BY <1>2 DEF GetIds
  <2>3. /\ job[s].op = "get" => Asked(db, job[s].q) # {} /\ I = {First(db, job[s].q)[1]}
        /\ job[s].op \in {"find", "delete"} => I = IdsOf(Asked(db, job[s].q))
    BY <1>0, <1>2 DEF IdsFresh, KeyOf
  <2> HIDE DEF j, I
  <2>4. ReadFresh(j, db)
    BY <1>0, <2>1, <2>3 DEF ReadFresh
  <2>5. WriteFresh(j, db, beans, ids)
    BY <1>0, <2>1, <2>3 DEF WriteFresh
  <2>6. Fresh(j, db, beans, ids)
    BY <1>0, <2>1, <2>4, <2>5 DEF Fresh
  <2> QED
    BY <1>0, <2>2, <2>6, AloneStep
<1> QED
    BY <1>1, <1>2

LEMMA QueryIdsFresh ==
    ASSUME Alone, AInv, TInv', NEW s \in Session, QueryIds(s)
    PROVE  AInv'
<1>0. /\ job[s].at = "queryIds" /\ NoDb /\ UNCHANGED <<tx, beans, ids, db, writes>>
      /\ BeansFresh(db, beans) /\ IdsFresh(db, ids)
      /\ DOMAIN job[s] = Fields /\ job[s].op \in {"get", "find", "delete"}
      /\ ReadFresh(job[s], db)
    BY CallFresh DEF QueryIds, NoCacher, NoDb, OpOK
<1> DEFINE A == Asked(db, job[s].q)
<1>1. CASE Step(s, [job[s] EXCEPT !.at = "query"])
  <2> DEFINE j == [job[s] EXCEPT !.at = "query"]
  <2>1. j.op = job[s].op /\ j.at = "query" /\ j.rows = job[s].rows
    BY <1>0 DEF Fields
  <2>2. Step(s, j)
    BY <1>1
  <2> HIDE DEF j
  <2>3. Fresh(j, db, beans, ids)
    BY <1>0, <2>1 DEF Fresh, ReadFresh, WriteFresh
  <2> QED
    BY <1>0, <2>2, <2>3, AloneStep
<1>2. ASSUME NEW at \in {"putIds", "delBean"}, NEW I,
             Step(s, [job[s] EXCEPT !.at = at, !.ids = I]),
             at = "delBean" <=> job[s].op = "delete",
             job[s].op = "get" => A # {} /\ I = {First(db, job[s].q)[1]},
             job[s].op # "get" => I = IdsOf(A)
      PROVE  AInv'
  <2> DEFINE j == [job[s] EXCEPT !.at = at, !.ids = I]
  <2>1. /\ j.op = job[s].op /\ j.at = at /\ j.rows = job[s].rows /\ j.q = job[s].q
        /\ j.ids = I
    BY <1>0 DEF Fields
  <2>2. Step(s, j)
    BY <1>2
  <2> HIDE DEF j
  <2>3. ReadFresh(j, db)
    BY <1>0, <1>2, <2>1 DEF ReadFresh
  <2>4. WriteFresh(j, db, beans, ids)
    BY <1>0, <1>2, <2>1 DEF WriteFresh
  <2>5. Fresh(j, db, beans, ids)
    BY <1>0, <1>2, <2>1, <2>3, <2>4 DEF Fresh
  <2> QED
    BY <1>0, <2>2, <2>5, AloneStep
<1>3. Result(s, job[s].q) = A /\ LimitOne(A) = {First(db, job[s].q)}
    BY SeesTable, TakesFirst
<1>4. CASE job[s].op = "get"
  <2>1. CASE A = {}
    BY <1>1, <1>3, <1>4, <2>1 DEF QueryIds
  <2>2. CASE A # {}
    <3>1. Step(s, [job[s] EXCEPT !.at = "putIds", !.ids = {First(db, job[s].q)[1]}])
        BY <1>3, <1>4, <2>2 DEF QueryIds
    <3> QED
        BY <1>2, <1>4, <2>2, <3>1
  <2> QED
    BY <2>1, <2>2
<1>5. CASE job[s].op = "find"
    BY <1>1, <1>2, <1>3, <1>5 DEF QueryIds
<1>6. CASE job[s].op = "delete"
    BY <1>2, <1>3, <1>6 DEF QueryIds
<1> QED
    BY <1>0, <1>4, <1>5, <1>6

LEMMA PutIdsFresh ==
    ASSUME Alone, AInv, TInv', NEW s \in Session, PutIds(s)
    PROVE  AInv'
<1>0. /\ job[s].at = "putIds" /\ UNCHANGED <<tx, beans, db, writes>>
      /\ BeansFresh(db, beans) /\ IdsFresh(db, ids)
      /\ DOMAIN job[s] = Fields /\ DOMAIN ids = Key
      /\ ReadFresh(job[s], db) /\ job[s].op \in {"get", "find"}
    BY CallFresh DEF PutIds, NoCacher, NoDb, ReadFresh, AInv, TInv, CInv, IdsOK
<1> DEFINE j == [job[s] EXCEPT !.at = "getBean"]
<1>1. /\ j.op = job[s].op /\ j.at = "getBean" /\ j.rows = job[s].rows /\ j.q = job[s].q
      /\ j.ids = job[s].ids
    BY <1>0 DEF Fields
<1>2. Step(s, j)
    BY DEF PutIds
<1> HIDE DEF j
<1>3. ReadFresh(j, db)
    BY <1>0, <1>1 DEF ReadFresh
<1>4. IdsFresh(db, ids')
  <2>1. ids' = [ids EXCEPT ![KeyOf(job[s])] = job[s].ids]
    BY DEF PutIds
  <2>2. SUFFICES ASSUME NEW q \in Query
                 PROVE  /\ \/ ids'[<<"get", q>>] = NoIds
                           \/ Asked(db, q) # {} /\ ids'[<<"get", q>>] = {First(db, q)[1]}
                        /\ ids'[<<"find", q>>] = NoIds \/ ids'[<<"find", q>>] = IdsOf(Asked(db, q))
    BY DEF IdsFresh
  <2>3. \A k \in Key : ids'[k] = IF k = KeyOf(job[s]) THEN job[s].ids ELSE ids[k]
    BY <1>0, <2>1
  <2>4. <<"get", q>> \in Key /\ <<"find", q>> \in Key
    BY DEF Key
  <2>5. /\ <<"get", q>> = KeyOf(job[s]) => job[s].op = "get" /\ q = job[s].q
        /\ <<"find", q>> = KeyOf(job[s]) => job[s].op = "find" /\ q = job[s].q
    BY <1>0 DEF KeyOf
  <2>6. \/ ids'[<<"get", q>>] = NoIds
        \/ Asked(db, q) # {} /\ ids'[<<"get", q>>] = {First(db, q)[1]}
    BY <1>0, <2>3, <2>4, <2>5 DEF IdsFresh, ReadFresh
  <2>7. ids'[<<"find", q>>] = NoIds \/ ids'[<<"find", q>>] = IdsOf(Asked(db, q))
    BY <1>0, <2>3, <2>4, <2>5 DEF IdsFresh, ReadFresh
  <2> QED
    BY <2>6, <2>7
<1>5. Fresh(j, db, beans, ids')
    BY <1>0, <1>1, <1>3, <1>4 DEF Fresh, WriteFresh
<1> QED
    BY <1>0, <1>2, <1>5, AloneStep

LEMMA GetBeanFresh ==
    ASSUME Alone, AInv, TInv', NEW s \in Session, GetBean(s)
    PROVE  AInv'
<1>0. /\ job[s].at = "getBean" /\ job[s].op = "get" /\ UNCHANGED <<tx, beans, db, writes, ids>>
      /\ BeansFresh(db, beans) /\ IdsFresh(db, ids)
      /\ DOMAIN job[s] = Fields /\ ReadFresh(job[s], db) /\ NoDb
    BY CallFresh DEF GetBean, NoCacher, NoDb
<1> DEFINE q == job[s].q
           f == First(db, q)
<1>1. f \in Rows(db) /\ Matches(f, q) /\ f[1] \in Id /\ job[s].ids = {f[1]}
    BY <1>0, FirstAsked, AskedOfId DEF ReadFresh
<1>2. IF beans[f[1]] = None THEN Step(s, [job[s] EXCEPT !.at = "fetch"])
                            ELSE Done(s, {beans[f[1]]})
    BY <1>1 DEF GetBean
<1>3. CASE beans[f[1]] = None
  <2> DEFINE j == [job[s] EXCEPT !.at = "fetch"]
  <2>1. /\ j.op = job[s].op /\ j.at = "fetch" /\ j.rows = job[s].rows /\ j.q = job[s].q
        /\ j.ids = job[s].ids
    BY <1>0 DEF Fields
  <2>2. Step(s, j)
    BY <1>2, <1>3
  <2> HIDE DEF j
  <2>3. Fresh(j, db, beans, ids)
    BY <1>0, <2>1 DEF Fresh, ReadFresh, WriteFresh
  <2> QED
    BY <1>0, <2>2, <2>3, AloneStep
<1>4. CASE beans[f[1]] # None
  <2>1. beans[f[1]] = f
    BY <1>0, <1>1, <1>4, OneRecord DEF BeansFresh
  <2> QED
    BY <1>0, <1>1, <1>2, <1>4, <2>1, DoneFresh
<1> QED
    BY <1>3, <1>4

LEMMA FindBeanFresh ==
    ASSUME Alone, AInv, TInv', NEW s \in Session, FindBean(s)
    PROVE  AInv'
<1>0. /\ job[s].at = "getBean" /\ job[s].op = "find" /\ UNCHANGED <<tx, beans, db, writes, ids>>
      /\ BeansFresh(db, beans) /\ IdsFresh(db, ids) /\ DOMAIN job[s] = Fields
    BY CallFresh DEF FindBean, NoCacher, NoDb
<1>1. PICK i \in job[s].ids :
          \/ Step(s, [job[s] EXCEPT !.ids = @ \ {i}, !.miss = @ \cup {i}])
          \/ Step(s, [NoJob EXCEPT !.op = "find", !.q = job[s].q, !.at = "query"])
          \/ Step(s, [job[s] EXCEPT !.ids = @ \ {i}, !.rows = @ \cup {beans[i]}])
    BY DEF FindBean
<1>2. ASSUME NEW j, j.op = "find", j.at \in {"getBean", "query"}, Step(s, j)
      PROVE  AInv'
  <2>1. Fresh(j, db, beans, ids)
    BY <1>0, <1>2 DEF Fresh, ReadFresh, WriteFresh
  <2> QED
    BY <1>0, <1>2, <2>1, AloneStep
<1>3. /\ [job[s] EXCEPT !.ids = @ \ {i}, !.miss = @ \cup {i}].op = "find"
      /\ [job[s] EXCEPT !.ids = @ \ {i}, !.miss = @ \cup {i}].at = "getBean"
    BY <1>0 DEF Fields
<1>4. /\ [NoJob EXCEPT !.op = "find", !.q = job[s].q, !.at = "query"].op = "find"
      /\ [NoJob EXCEPT !.op = "find", !.q = job[s].q, !.at = "query"].at = "query"
    BY DEF NoJob
<1>5. /\ [job[s] EXCEPT !.ids = @ \ {i}, !.rows = @ \cup {beans[i]}].op = "find"
      /\ [job[s] EXCEPT !.ids = @ \ {i}, !.rows = @ \cup {beans[i]}].at = "getBean"
    BY <1>0 DEF Fields
<1> QED
    BY <1>1, <1>2, <1>3, <1>4, <1>5

LEMMA FetchFresh ==
    ASSUME Alone, AInv, TInv', NEW s \in Session, Fetch(s)
    PROVE  AInv'
<1>0. /\ job[s].at = "fetch" /\ job[s].op = "get" /\ UNCHANGED <<tx, beans, db, writes, ids>>
      /\ BeansFresh(db, beans) /\ IdsFresh(db, ids)
      /\ DOMAIN job[s] = Fields /\ ReadFresh(job[s], db)
    BY CallFresh DEF Fetch, NoCacher, NoDb, ReadFresh
<1> DEFINE f == First(db, job[s].q)
<1>1. Asked(db, job[s].q) # {} /\ f \in Rows(db)
    BY <1>0, FirstAsked, AskedOfId DEF ReadFresh
<1>2. Result(s, job[s].q) = Asked(db, job[s].q) /\ LimitOne(Asked(db, job[s].q)) = {f}
    BY SeesTable, TakesFirst
<1> DEFINE j == [job[s] EXCEPT !.at = "putBean", !.fill = {f}]
<1>3. /\ j.op = job[s].op /\ j.at = "putBean" /\ j.rows = job[s].rows /\ j.q = job[s].q
      /\ j.ids = job[s].ids /\ j.fill = {f}
    BY <1>0 DEF Fields
<1>4. Step(s, j)
    BY <1>1, <1>2 DEF Fetch
<1> HIDE DEF j
<1>5. Fresh(j, db, beans, ids)
    BY <1>0, <1>1, <1>3 DEF Fresh, ReadFresh, WriteFresh
<1> QED
    BY <1>0, <1>4, <1>5, AloneStep

LEMMA FindMissingFresh ==
    ASSUME Alone, AInv, TInv', NEW s \in Session, FindMissing(s)
    PROVE  AInv'
<1>0. /\ job[s].at = "getBean" /\ job[s].op = "find" /\ UNCHANGED <<tx, beans, db, writes, ids>>
      /\ BeansFresh(db, beans) /\ IdsFresh(db, ids) /\ NoDb
      /\ DOMAIN job[s] = Fields
    BY CallFresh DEF FindMissing, NoCacher, NoDb
<1> DEFINE found == {r \in Rows(View(s)) : r[1] \in job[s].miss}
<1>1. found \subseteq Rows(db)
    BY SeesTable
<1>2. CASE found = {}
  <2>1. Done(s, job[s].rows)
    BY <1>2 DEF FindMissing
  <2> QED
    BY <1>0, <2>1, DoneFresh
<1>3. CASE found # {}
  <2> DEFINE j == [job[s] EXCEPT !.at = "putBean", !.fill = found]
  <2>1. j.op = "find" /\ j.at = "putBean" /\ j.fill = found
    BY <1>0 DEF Fields
  <2>2. Step(s, j)
    BY <1>3 DEF FindMissing
  <2> HIDE DEF j, found
  <2>3. Fresh(j, db, beans, ids)
    BY <1>0, <1>1, <2>1 DEF Fresh, ReadFresh, WriteFresh
  <2> QED
    BY <1>0, <2>2, <2>3, AloneStep
<1> QED
    BY <1>2, <1>3

LEMMA PutBeanFresh ==
    ASSUME Alone, AInv, TInv', NEW s \in Session, PutBean(s)
    PROVE  AInv'
<1>0. /\ job[s].at = "putBean" /\ job[s].op \in {"get", "find"} /\ UNCHANGED <<tx, db, writes, ids>>
      /\ BeansFresh(db, beans) /\ IdsFresh(db, ids) /\ NoDb
      /\ DOMAIN job[s] = Fields /\ ReadFresh(job[s], db) /\ DOMAIN beans = Id
    BY CallFresh DEF PutBean, NoDb, ReadFresh, AInv, TInv, CInv
<1>1. PICK r \in job[s].fill :
          /\ \E i \in IF job[s].op = "get" THEN job[s].ids ELSE {r[1]} :
                beans' = [beans EXCEPT ![i] = r]
          /\ IF job[s].fill = {r} THEN Done(s, job[s].rows \cup {r})
             ELSE Step(s, [job[s] EXCEPT !.fill = @ \ {r}, !.rows = @ \cup {r}])
    BY DEF PutBean
<1>2. r \in Rows(db) /\ beans' = [beans EXCEPT ![r[1]] = r]
    BY <1>0, <1>1 DEF ReadFresh
<1>3. BeansFresh(db, beans')
    BY <1>0, <1>2 DEF BeansFresh
<1>4. CASE job[s].fill = {r}
  <2>1. job[s].op = "get" => \A x \in job[s].rows \cup {r} : Matches(x, job[s].q)
    BY <1>0, <1>1, FirstAsked, AskedOfId DEF ReadFresh
  <2> QED
    BY <1>0, <1>1, <1>3, <1>4, <2>1, DoneFresh
<1>5. CASE job[s].fill # {r}
  <2>0. job[s].op = "find"
    BY <1>0, <1>1, <1>5 DEF ReadFresh
  <2> DEFINE j == [job[s] EXCEPT !.fill = @ \ {r}, !.rows = @ \cup {r}]
  <2>1. j.op = "find" /\ j.at = "putBean" /\ j.fill = job[s].fill \ {r}
    BY <1>0, <2>0 DEF Fields
  <2>2. Step(s, j)
    BY <1>1, <1>5
  <2> HIDE DEF j
  <2>3. Fresh(j, db, beans', ids)
    BY <1>0, <1>3, <2>1 DEF Fresh, ReadFresh, WriteFresh
  <2> QED
    BY <1>0, <2>2, <2>3, AloneStep
<1> QED
    BY <1>4, <1>5

LEMMA QueryRowsFresh ==
    ASSUME Alone, AInv, TInv', NEW s \in Session, QueryRows(s)
    PROVE  AInv'
<1>0. /\ job[s].at = "query" /\ job[s].op \in {"get", "find"} /\ UNCHANGED <<tx, beans, ids>>
      /\ BeansFresh(db, beans) /\ NoDb
    BY CallFresh DEF QueryRows, NoCacher, OpOK
<1> DEFINE A == Asked(db, job[s].q)
           f == First(db, job[s].q)
<1>1. Result(s, job[s].q) = A /\ LimitOne(A) = {f}
    BY SeesTable, TakesFirst
<1>2. A # {} => Matches(f, job[s].q)
    BY FirstAsked, AskedOfId
<1>3. \/ job[s].op = "find" /\ Done(s, A)
      \/ Done(s, {})
      \/ A # {} /\ Done(s, {f})
    BY <1>0, <1>1 DEF QueryRows
<1> HIDE DEF A, f
<1> QED
    BY <1>0, <1>2, <1>3, DoneFresh

\* A call that returns with nothing in the cache to be invalidated.
LEMMA EndsFresh ==
    ASSUME Alone, AInv, TInv', NEW s \in Session, ReadFails(s) \/ ExecFails(s) \/ ClearBeans(s)
    PROVE  AInv'
<1>1. Step(s, NoJob) /\ UNCHANGED <<tx, db, writes, ids>>
    BY DEF ReadFails, ExecFails, ClearBeans, NoCacher, NoDb
<1>2. BeansFresh(db, beans')
  <2>1. CASE ClearBeans(s)
    BY <2>1 DEF ClearBeans, BeansFresh
  <2>2. CASE ReadFails(s) \/ ExecFails(s)
    BY <2>2, CallFresh DEF ReadFails, ExecFails, NoCacher
  <2> QED
    BY <2>1, <2>2
<1>3. IdsFresh(db, ids)
    BY DEF AInv, Fresh, ReadFails, ExecFails, ClearBeans
<1> QED
    BY <1>1, <1>2, <1>3, NoJobFresh, AloneStep

\* Without a transaction a statement writes the table at once.
LEMMA ExecWrites ==
    ASSUME AInv, NEW s \in Session, NEW w, Exec(s, w)
    PROVE  db' = Overlay(db, w) /\ UNCHANGED writes
BY DEF AInv, Exec, Become

\* What a statement does not write stays in the table.
LEMMA KeepsRows ==
    ASSUME NEW D, NEW w, NEW r \in Rows(D), w[r[1]] = Unwritten
    PROVE  r \in Rows(Overlay(D, w))
BY DEF Rows, Overlay

\* An insert leaves every cached bean right.
LEMMA InsertKeeps ==
    ASSUME NEW D, NEW B, BeansFresh(D, B), NEW i, NEW v, D[i] = None
    PROVE  BeansFresh(Overlay(D, Setting({i}, v)), B)
<1> SUFFICES ASSUME NEW k \in Id, B[k] # None
             PROVE  B[k] \in Rows(Overlay(D, Setting({i}, v))) /\ B[k][1] = k
    BY DEF BeansFresh
<1>1. B[k] \in Rows(D) /\ B[k][1] = k
    BY DEF BeansFresh
<1>2. D[k] # None
    BY <1>1 DEF Rows
<1>3. Setting({i}, v)[k] = Unwritten
    BY <1>2 DEF Setting
<1> QED
    BY <1>1, <1>3, KeepsRows

LEMMA NoListsFresh ==
    ASSUME NEW L, NoLists(L)
    PROVE  \A D : IdsFresh(D, L)
BY DEF NoLists, IdsFresh, Key

LEMMA InsertFresh ==
    ASSUME Alone, AInv, TInv', NEW s \in Session, NEW i, NEW v, Insert(s, i, v)
    PROVE  AInv'
<1> DEFINE j == [NoJob EXCEPT !.op = "insert", !.at = "clearIds"]
<1>1. j.op = "insert" /\ j.at = "clearIds"
    BY DEF NoJob
<1>2. Step(s, j) /\ Exec(s, Setting({i}, v)) /\ UNCHANGED <<tx, beans, ids>> /\ db[i] = None
    BY SeesTable DEF Insert, NoCacher
<1> HIDE DEF j
<1>3. BeansFresh(db, beans)
    BY CallFresh DEF Insert, Free
<1>4. BeansFresh(db', beans)
    BY <1>2, <1>3, ExecWrites, InsertKeeps
<1>5. Fresh(j, db', beans, ids)
    BY <1>1, <1>4 DEF Fresh, ReadFresh, WriteFresh
<1> QED
    BY <1>2, <1>5, ExecWrites, AloneStep

LEMMA UpdateFresh ==
    ASSUME Alone, AInv, TInv', NEW s \in Session, NEW q, NEW v, Update(s, q, v)
    PROVE  AInv'
<1> DEFINE j == [NoJob EXCEPT !.op = "update", !.at = "clearIds"]
<1>1. j.op = "update" /\ j.at = "clearIds"
    BY DEF NoJob
<1>2. /\ Step(s, j) /\ UNCHANGED <<tx, beans, ids>>
      /\ Exec(s, Setting(IdsOf(Result(s, q)), v))
    BY DEF Update, NoCacher
<1> HIDE DEF j
<1>3. Fresh(j, db', beans, ids)
    BY <1>1 DEF Fresh, ReadFresh, WriteFresh
<1> QED
    BY <1>2, <1>3, ExecWrites, AloneStep

LEMMA InsertMapFresh ==
    ASSUME Alone, AInv, TInv', NEW s \in Session, NEW i, NEW v, InsertMap(s, i, v)
    PROVE  AInv'
<1> DEFINE j == [NoJob EXCEPT !.op = "insertMap", !.at = "exec", !.set = <<i, v>>]
<1>1. j.op = "insertMap" /\ j.at = "exec"
    BY DEF NoJob
<1>2. Step(s, j) /\ UNCHANGED <<tx, beans, db, writes>> /\ NoLists(ids')
    BY DEF InsertMap, NoDb, NoLists
<1> HIDE DEF j
<1>3. BeansFresh(db, beans)
    BY CallFresh DEF InsertMap, Free
<1>4. Fresh(j, db, beans, ids')
    BY <1>1, <1>2, <1>3, NoListsFresh DEF Fresh, ReadFresh, WriteFresh
<1> QED
    BY <1>2, <1>4, AloneStep

LEMMA DeleteFresh ==
    ASSUME Alone, AInv, TInv', NEW s \in Session, NEW q, Delete(s, q)
    PROVE  AInv'
<1> DEFINE j == [NoJob EXCEPT !.op = "delete", !.q = q, !.at = "getIds"]
<1>1. j.op = "delete" /\ j.at = "getIds"
    BY DEF NoJob
<1>2. Step(s, j) /\ UNCHANGED <<tx, beans, ids, db, writes>>
    BY CallFresh DEF Delete, NoDb, NoCacher
<1> HIDE DEF j
<1>3. BeansFresh(db, beans) /\ IdsFresh(db, ids)
    BY CallFresh DEF Delete, Free
<1>4. Fresh(j, db, beans, ids)
    BY <1>1, <1>3 DEF Fresh, ReadFresh, WriteFresh
<1> QED
    BY <1>2, <1>4, AloneStep

\* cacheDelete drops every bean that the statement will delete.
LEMMA DelBeanFresh ==
    ASSUME Alone, AInv, TInv', NEW s \in Session, DelBean(s)
    PROVE  AInv'
<1>0. /\ job[s].at = "delBean" /\ job[s].op = "delete" /\ UNCHANGED <<tx, db, writes, ids>>
      /\ BeansFresh(db, beans) /\ IdsFresh(db, ids)
      /\ DOMAIN job[s] = Fields /\ WriteFresh(job[s], db, beans, ids) /\ DOMAIN beans = Id
    BY CallFresh DEF DelBean, NoDb, OpOK, AInv, TInv, CInv
<1>1. CASE job[s].ids = {}
  <2> DEFINE j == [job[s] EXCEPT !.at = "clearIds"]
  <2>1. j.op = "delete" /\ j.at = "clearIds" /\ j.q = job[s].q
    BY <1>0 DEF Fields
  <2>2. Step(s, j) /\ UNCHANGED beans
    BY <1>1 DEF DelBean
  <2> HIDE DEF j
  <2>3. Fresh(j, db, beans, ids)
    BY <1>0, <1>1, <2>1 DEF Fresh, ReadFresh, WriteFresh
  <2> QED
    BY <1>0, <2>2, <2>3, AloneStep
<1>2. CASE job[s].ids # {}
  <2>0. PICK i \in job[s].ids : /\ beans' = [beans EXCEPT ![i] = None]
                                /\ Step(s, [job[s] EXCEPT !.ids = @ \ {i}])
    BY <1>2 DEF DelBean
  <2> DEFINE j == [job[s] EXCEPT !.ids = @ \ {i}]
  <2>1. j.op = "delete" /\ j.at = "delBean" /\ j.q = job[s].q /\ j.ids = job[s].ids \ {i}
    BY <1>0 DEF Fields
  <2>2. Step(s, j)
    BY <2>0
  <2> HIDE DEF j
  <2>3. BeansFresh(db, beans')
    BY <1>0, <2>0 DEF BeansFresh
  <2>4. \A k \in IdsOf(Asked(db, j.q)) : beans'[k] # None => k \in j.ids
    BY <1>0, <2>0, <2>1, AskedOfId DEF WriteFresh
  <2>5. Fresh(j, db, beans', ids)
    BY <1>0, <2>1, <2>3, <2>4 DEF Fresh, ReadFresh, WriteFresh
  <2> QED
    BY <1>0, <2>2, <2>5, AloneStep
<1> QED
    BY <1>1, <1>2

LEMMA ClearIdsFresh ==
    ASSUME Alone, AInv, TInv', NEW s \in Session, ClearIds(s)
    PROVE  AInv'
<1>0. /\ job[s].at = "clearIds" /\ job[s].op \in {"insert", "update", "delete"}
      /\ UNCHANGED <<tx, db, writes, beans>> /\ NoLists(ids')
      /\ DOMAIN job[s] = Fields /\ WriteFresh(job[s], db, beans, ids)
      /\ job[s].op # "update" => BeansFresh(db, beans)
    BY CallFresh DEF ClearIds, NoDb, NoLists, OpOK, AInv, Fresh
<1>1. IdsFresh(db, ids')
    BY <1>0, NoListsFresh
<1>2. CASE job[s].op = "insert"
    BY <1>0, <1>1, <1>2, NoJobFresh, AloneStep DEF ClearIds
<1>3. CASE job[s].op = "update"
  <2> DEFINE j == [job[s] EXCEPT !.at = "clearBeans"]
  <2>1. j.op = "update" /\ j.at = "clearBeans"
    BY <1>0, <1>3 DEF Fields
  <2>2. Step(s, j)
    BY <1>3 DEF ClearIds
  <2> HIDE DEF j
  <2>3. Fresh(j, db, beans, ids')
    BY <1>0, <1>1, <2>1 DEF Fresh, ReadFresh, WriteFresh
  <2> QED
    BY <1>0, <2>2, <2>3, AloneStep
<1>4. CASE job[s].op = "delete"
  <2> DEFINE j == [job[s] EXCEPT !.at = "exec"]
  <2>1. j.op = "delete" /\ j.at = "exec" /\ j.q = job[s].q
    BY <1>0, <1>4 DEF Fields
  <2>2. Step(s, j)
    BY <1>4 DEF ClearIds
  <2> HIDE DEF j
  <2>3. Fresh(j, db, beans, ids')
    BY <1>0, <1>1, <1>4, <2>1 DEF Fresh, ReadFresh, WriteFresh
  <2> QED
    BY <1>0, <2>2, <2>3, AloneStep
<1> QED
    BY <1>0, <1>2, <1>3, <1>4

\* By the time the statement of Delete or insertMap is executed the cache has nothing that
\* it makes wrong.
LEMMA ExecLastFresh ==
    ASSUME Alone, AInv, TInv', NEW s \in Session, ExecLast(s)
    PROVE  AInv'
<1>0. /\ job[s].at = "exec" /\ job[s].op \in {"delete", "insertMap"}
      /\ UNCHANGED <<tx, ids, beans>> /\ Step(s, NoJob)
      /\ WriteFresh(job[s], db, beans, ids) /\ NoLists(ids) /\ BeansFresh(db, beans)
    BY CallFresh DEF ExecLast, NoCacher, OpOK, WriteFresh
<1>1. BeansFresh(db', beans) /\ UNCHANGED writes
  <2>1. CASE job[s].op = "delete"
    <3> DEFINE I == IdsOf(Asked(db, job[s].q))
    <3>1. Exec(s, Setting(I, None))
        BY <2>1, SeesTable DEF ExecLast
    <3>2. db' = Overlay(db, Setting(I, None)) /\ UNCHANGED writes
        BY <3>1, ExecWrites
    <3>3. \A i \in I : beans[i] = None
        BY <1>0, <2>1 DEF WriteFresh
    <3> HIDE DEF I
    <3>4. \A i \in Id : beans[i] # None => Setting(I, None)[i] = Unwritten
        BY <3>3 DEF Setting
    <3>5. \A i \in Id : beans[i] # None => beans[i] \in Rows(db) /\ beans[i][1] = i
        BY <1>0 DEF BeansFresh
    <3> QED
        BY <3>2, <3>4, <3>5, KeepsRows DEF BeansFresh
  <2>2. CASE job[s].op = "insertMap"
    <3>1. db[job[s].set[1]] = None /\ Exec(s, Setting({job[s].set[1]}, job[s].set[2]))
        BY <2>2, SeesTable DEF ExecLast
    <3> QED
        BY <1>0, <3>1, ExecWrites, InsertKeeps
  <2> QED
    BY <1>0, <2>1, <2>2
<1>2. Fresh(NoJob, db', beans, ids)
    BY <1>0, <1>1, NoListsFresh, NoJobFresh
<1> QED
    BY <1>0, <1>1, <1>2, AloneStep

LEMMA ForgetFresh ==
    ASSUME AInv, TInv', Forget
    PROVE  AInv'
<1>0. UNCHANGED <<db, writes, tx, job>>
    BY DEF Forget, NoDb
<1> SUFFICES ASSUME NEW s \in Session PROVE Fresh(job[s], db, beans', ids')
    BY <1>0 DEF AInv
<1>1. /\ \A i \in Id : beans'[i] \in {beans[i], None}
      /\ \A k \in Key : ids'[k] \in {ids[k], NoIds}
    BY DEF Forget, AInv, TInv, CInv, IdsOK
<1>2. Fresh(job[s], db, beans, ids)
    BY DEF AInv
<1>3. BeansFresh(db, beans) => BeansFresh(db, beans')
    BY <1>1 DEF BeansFresh
<1>4. IdsFresh(db, ids) => IdsFresh(db, ids')
    BY <1>1 DEF IdsFresh, Key
<1>5. NoLists(ids) => NoLists(ids')
    BY <1>1 DEF NoLists
<1>6. WriteFresh(job[s], db, beans', ids')
    BY <1>1, <1>2, <1>5, AskedOfId DEF WriteFresh, Fresh
<1> QED
    BY <1>2, <1>3, <1>4, <1>6 DEF Fresh

\* CacheDeleteFails needs the fault, and Begin, Commit, Rollback and Close a transaction.
LEMMA NextFresh == ASSUME Alone PROVE AInv /\ [Next]_vars => AInv'
<1> SUFFICES ASSUME AInv, [Next]_vars PROVE AInv'
    OBVIOUS
<1>0. TInv'
    BY NextType DEF AInv
<1>1. CASE UNCHANGED vars
    BY <1>0, <1>1 DEF vars, AInv
<1>2. CASE Forget
    BY <1>0, <1>2, ForgetFresh
<1>3. ASSUME NEW s \in Session
      PROVE  ~(CacheDeleteFails(s) \/ Begin(s) \/ Commit(s) \/ Rollback(s) \/ Close(s))
    BY DEF Alone, AInv, CacheDeleteFails, Begin, Commit, Rollback, Close
<1>4. CASE Next /\ ~Forget
    BY <1>0, <1>3, <1>4, StartReadFresh, GetIdsFresh, QueryIdsFresh, PutIdsFresh, GetBeanFresh,
       FindBeanFresh, FetchFresh, FindMissingFresh, PutBeanFresh, QueryRowsFresh, EndsFresh,
       InsertFresh, InsertMapFresh, UpdateFresh, DeleteFresh, DelBeanFresh, ClearIdsFresh,
       ExecLastFresh
    DEF Next
<1> QED
    BY <1>1, <1>2, <1>4

LEMMA InitFresh == Init => AInv
<1> SUFFICES ASSUME Init PROVE AInv
    OBVIOUS
<1>1. TInv
    BY InitTyped
<1>2. BeansFresh(db, beans) /\ IdsFresh(db, ids)
    BY DEF Init, BeansFresh, IdsFresh, Key
<1> QED
    BY <1>1, <1>2, NoJobFresh DEF Init, AInv

\* Between the calls of a session that is alone, without transactions, the cache agrees with
\* the database, for any records and queries and any failing reads: the invalidations of
\* Insert, Update and Delete, early or late, reach far enough.
THEOREM CacheFreshAlone == ASSUME Alone PROVE Spec => []CacheFresh
<1>1. AInv => CacheFresh
  <2> SUFFICES ASSUME AInv, \A s \in Session : Free(s)
               PROVE  CacheFresh
    BY DEF CacheFresh
  <2>1. PICK s : s \in Session
    BY DEF Alone
  <2>2. BeansFresh(db, beans) /\ IdsFresh(db, ids)
    BY <2>1, CallFresh DEF Free
  <2>3. ASSUME NEW q \in Query
        PROVE  /\ ids[<<"get", q>>] = NoIds \/ ids[<<"get", q>>] \subseteq IdsOf(Asked(db, q))
               /\ ids[<<"find", q>>] \in {NoIds, IdsOf(Asked(db, q))}
    BY <2>2, FirstAsked DEF IdsFresh, IdsOf
  <2> QED
    BY <2>2, <2>3 DEF CacheFresh, BeansFresh, IdsOf, Asked
<1> QED
    BY <1>1, InitFresh, NextFresh, PTL DEF Spec

\* A record that Get returns to a session that is alone satisfies the condition of the call,
\* although cacheGet returns whatever bean is under the id it has, and reads a bean it
\* misses by the caller's SQL and not by that id.
THEOREM GetMatchesAlone == ASSUME Alone PROVE Spec => []GetMatches
<1>1. AInv => GetMatches
    BY CallFresh DEF GetMatches, ReadFresh
<1> QED
    BY <1>1, InitFresh, NextFresh, PTL DEF Spec
=============================================================================

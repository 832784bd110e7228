--------------------------- MODULE CachedSession ---------------------------
(***************************************************************************)
(* Sessions that read and write one table through the query cache: cacheGet*)
(* and cacheFind fill it, Insert, Update and Delete invalidate it.  A step *)
(* is one call of the Cacher, which locks, or one statement sent to the    *)
(* database; the sessions, each used by one goroutine, interleave between  *)
(* them.                                                                   *)
(*                                                                         *)
(* The cache is what Cacher promises, and Forget stands for whatever it    *)
(* drops by itself.  The database is external: read committed, with row    *)
(* locks.  A record is a pair of its id and one value; a query asks for    *)
(* the record with an id or for the records with a value.                  *)
(***************************************************************************)
EXTENDS Naturals, FiniteSets

CONSTANTS
    Session, Id, Value, None,
    Query,          \* the conditions callers use, members of Id and Value
    MaxCachedIds,   \* cacheFind caches no more ids than this (500 in the code)
    MaxWrites,      \* bound: how many statements that write are executed
    StableOrder,    \* LIMIT 1 picks the same of several records every time
    UseTx,          \* callers use transactions
    Faults          \* "read": a query may fail; "cacheDelete": also that of cacheDelete

ASSUME CachedSessionAssumption ==
    /\ Query \subseteq Id \cup Value /\ Id \cap Value = {}
    /\ None \notin Id \cup Value
    /\ MaxCachedIds \in Nat /\ MaxWrites \in Nat /\ StableOrder \in BOOLEAN
    /\ UseTx \in BOOLEAN
    /\ Faults \subseteq {"read", "cacheDelete"}

VARIABLES
    db,         \* the committed value of every record, None when there is none
    tx,         \* Session.tx: "nil", "open", or "ended" (still not nil)
    writes,     \* what each open transaction wrote
    beans,      \* the cached beans
    ids,        \* the cached id lists
    execs,      \* how many statements that write were executed
    job,        \* the call each session is executing
    committed,  \* history: the records that were ever committed
    seen        \* history: the records that were in the database during a session's
                \* call, or before a write that was not finished when it began

vars == <<db, tx, writes, beans, ids, execs, job, committed, seen>>

Row == Id \X Value
Table == [Id -> Value \cup {None}]
Unwritten == "unwritten"

\* Get ends its SQL in LIMIT 1, Find and cacheDelete make the same text.
Key == {"get", "find"} \X Query
KeyOf(j) == <<IF j.op = "get" THEN "get" ELSE "find", j.q>>

Job == [op   : {"none", "get", "find", "insert", "insertMap", "update", "delete"},
        at   : {"idle", "done", "getIds", "queryIds", "putIds", "getBean", "fetch",
                "putBean", "query", "delBean", "clearIds", "clearBeans", "exec"},
        q    : Query \cup {None},
        set  : Row \cup {None},    \* what insertMap writes
        ids  : SUBSET Id,          \* the ids still to look up or to delete
        miss : SUBSET Id,          \* ides
        fill : SUBSET Row,         \* the records read, still to be cached
        rows : SUBSET Row]         \* the result

NoJob == [op |-> "none", at |-> "idle", q |-> None, set |-> None,
          ids |-> {}, miss |-> {}, fill |-> {}, rows |-> {}]

TypeOK ==
    /\ db \in Table
    /\ tx \in [Session -> {"nil", "open", "ended"}]
    /\ writes \in [Session -> [Id -> Value \cup {None, Unwritten}]]
    /\ beans \in [Id -> Row \cup {None}]
    /\ ids \in [Key -> (SUBSET Id) \cup {{None}}]
    /\ execs \in 0..MaxWrites
    /\ job \in [Session -> Job]
    /\ committed \subseteq Row
    /\ seen \in [Session -> SUBSET Row]

NoIds == {None}     \* nothing cached, unlike the empty list
NoWrites == [i \in Id |-> Unwritten]
Rows(t) == {<<i, t[i]>> : i \in {j \in Id : t[j] # None}}

Init ==
    /\ db \in Table
    /\ tx = [s \in Session |-> "nil"]
    /\ writes = [s \in Session |-> NoWrites]
    /\ beans = [i \in Id |-> None]
    /\ ids = [k \in Key |-> NoIds]
    /\ job = [s \in Session |-> NoJob]
    /\ committed = Rows(db)
    /\ execs = 0
    /\ seen = [s \in Session |-> {}]

----------------------------------------------------------------------------
(* The database *)

Overlay(t, w) == [i \in Id |-> IF w[i] = Unwritten THEN t[i] ELSE w[i]]

\* What a session's statements see.
View(s) == Overlay(db, writes[s])
Matches(r, q) == q \in {r[1], r[2]}
ResultWithoutConds(s, q) == Rows(View(s))
Result(s, q) == {r \in Rows(View(s)) : Matches(r, q)}
IdsOf(R) == {r[1] : r \in R}

\* The records LIMIT 1 may return; no xorm query of Get orders them.
LimitOne(R) == IF StableOrder THEN {CHOOSE r \in R : TRUE} ELSE R

Free(s) == job[s].at \in {"idle", "done"}

\* The committed table becomes t.
Become(t) ==
    /\ db' = t
    /\ committed' = committed \cup Rows(t)
    /\ seen' = [s \in Session |-> IF Free(s) THEN seen[s] ELSE seen[s] \cup Rows(t)]

\* A statement of s writes w; it waits for the rows other transactions wrote.
Exec(s, w) ==
    /\ \A x \in Session \ {s}, i \in Id : w[i] # Unwritten => writes[x][i] = Unwritten
    /\ execs < MaxWrites /\ execs' = execs + 1
    /\ IF tx[s] = "open"
       THEN /\ writes' = [writes EXCEPT ![s] = Overlay(writes[s], w)]
            /\ UNCHANGED <<db, committed, seen>>
       ELSE Become(Overlay(db, w)) /\ UNCHANGED writes

Setting(I, v) == [i \in Id |-> IF i \in I THEN v ELSE Unwritten]

----------------------------------------------------------------------------
(* Session.Get and Session.Find *)

Step(s, j) == job' = [job EXCEPT ![s] = j]
Done(s, R) == Step(s, [NoJob EXCEPT !.op = job[s].op, !.q = job[s].q,
                                    !.at = "done", !.rows = R])
NoDb == UNCHANGED <<db, writes, execs, committed, seen>>
NoCacher == UNCHANGED <<beans, ids>>

CanCacheInTx(s) == TRUE

\* canCache: the session has no transaction, nor one that it ended.
CanCache(s) == tx[s] = "nil"

WriteInProgress ==
    \E x \in Session : job[x].op \in {"insert", "insertMap", "update", "delete"}

StartRead(s, op, q, useCache) ==
    /\ Free(s)
    /\ Step(s, [NoJob EXCEPT !.op = op, !.q = q,
                   !.at = IF useCache /\ CanCache(s) THEN "getIds" ELSE "query"])
    /\ seen' = [seen EXCEPT ![s] =
                    Rows(View(s)) \cup (IF WriteInProgress THEN committed ELSE {})]
    /\ NoCacher /\ UNCHANGED <<db, tx, writes, execs, committed>>

\* GetCacheSql of cacheGet, cacheFind and cacheDelete.
GetIds(s) ==
    LET j == job[s]
        cached == ids[KeyOf(j)]
    IN
    /\ j.at = "getIds"
    /\ IF cached = NoIds
       THEN Step(s, [j EXCEPT !.at = "queryIds"])
       ELSE Step(s, [j EXCEPT !.at = IF j.op = "delete" THEN "delBean" ELSE "getBean",
                              !.ids = cached])
    /\ NoCacher /\ NoDb /\ UNCHANGED tx

\* The ids are read from the database.  Without a record, and with too many, the
\* cache is not used (ErrCacheFailed).
QueryIds(s) ==
    LET j == job[s]
        result == Result(s, j.q)
        found == IdsOf(result)
    IN
    /\ j.at = "queryIds"
    /\ CASE j.op = "get" ->
              IF result = {} THEN Step(s, [j EXCEPT !.at = "query"])
              ELSE \E r \in LimitOne(result) :
                      Step(s, [j EXCEPT !.at = "putIds", !.ids = {r[1]}])
         [] j.op = "find" ->
              IF Cardinality(found) > MaxCachedIds THEN Step(s, [j EXCEPT !.at = "query"])
              ELSE Step(s, [j EXCEPT !.at = "putIds", !.ids = found])
         [] j.op = "delete" -> Step(s, [j EXCEPT !.at = "delBean", !.ids = found])
    /\ NoCacher /\ NoDb /\ UNCHANGED tx

\* PutCacheSql.
PutIds(s) ==
    /\ job[s].at = "putIds"
    /\ ids' = [ids EXCEPT ![KeyOf(job[s])] = job[s].ids]
    /\ Step(s, [job[s] EXCEPT !.at = "getBean"])
    /\ NoDb /\ UNCHANGED <<beans, tx>>

\* cacheGet looks up its one id and returns whatever bean it finds.
GetBean(s) ==
    LET j == job[s] IN
    /\ j.at = "getBean" /\ j.op = "get"
    /\ \E i \in j.ids :
          IF beans[i] = None THEN Step(s, [j EXCEPT !.at = "fetch"])
                             ELSE Done(s, {beans[i]})
    /\ NoCacher /\ NoDb /\ UNCHANGED tx

FindBeanTrustsKey(s) ==
    LET j == job[s] IN
    /\ j.at = "getBean" /\ j.op = "find"
    /\ \E i \in j.ids :
          IF beans[i] = None
          THEN Step(s, [j EXCEPT !.ids = @ \ {i}, !.miss = @ \cup {i}])
          ELSE Step(s, [j EXCEPT !.ids = @ \ {i}, !.rows = @ \cup {beans[i]}])
    /\ NoCacher /\ NoDb /\ UNCHANGED tx

\* cacheFind looks up every id, and gives up on a bean with another id.
FindBean(s) ==
    LET j == job[s] IN
    /\ j.at = "getBean" /\ j.op = "find"
    /\ \E i \in j.ids :
          CASE beans[i] = None ->
                  Step(s, [j EXCEPT !.ids = @ \ {i}, !.miss = @ \cup {i}])
            [] beans[i] # None /\ beans[i][1] # i ->
                  Step(s, [NoJob EXCEPT !.op = "find", !.q = j.q, !.at = "query"])
            [] OTHER ->
                  Step(s, [j EXCEPT !.ids = @ \ {i}, !.rows = @ \cup {beans[i]}])
    /\ NoCacher /\ NoDb /\ UNCHANGED tx

\* nocacheGet of cacheGet sends the caller's own SQL again, not the id.
Fetch(s) ==
    LET j == job[s] IN
    /\ j.at = "fetch"
    /\ IF Result(s, j.q) = {} THEN Done(s, {})
       ELSE \E r \in LimitOne(Result(s, j.q)) :
               Step(s, [j EXCEPT !.at = "putBean", !.fill = {r}])
    /\ NoCacher /\ NoDb /\ UNCHANGED tx

\* cacheFind reads the records it missed by their ids; one that is gone is left out.
FindMissing(s) ==
    LET j == job[s]
        found == {r \in Rows(View(s)) : r[1] \in j.miss}
    IN
    /\ j.at = "getBean" /\ j.op = "find" /\ j.ids = {}
    /\ IF found = {} THEN Done(s, j.rows)
       ELSE Step(s, [j EXCEPT !.at = "putBean", !.fill = found])
    /\ NoCacher /\ NoDb /\ UNCHANGED tx

\* cacheGet stores the record under the id it looked up, cacheFind under its own.
PutBean(s) ==
    LET j == job[s] IN
    /\ j.at = "putBean"
    /\ \E r \in j.fill :
          /\ \E i \in IF j.op = "get" THEN j.ids ELSE {r[1]} :
                beans' = [beans EXCEPT ![i] = r]
          /\ IF j.fill = {r} THEN Done(s, j.rows \cup {r})
             ELSE Step(s, [j EXCEPT !.fill = @ \ {r}, !.rows = @ \cup {r}])
    /\ NoDb /\ UNCHANGED <<ids, tx>>

\* nocacheGet and noCacheFind, without the cache.
QueryRows(s) ==
    LET j == job[s] IN
    /\ j.at = "query"
    /\ CASE j.op = "find" -> Done(s, Result(s, j.q))
         [] j.op = "get" /\ Result(s, j.q) = {} -> Done(s, {})
         [] OTHER -> \E r \in LimitOne(Result(s, j.q)) : Done(s, {r})
    /\ NoCacher /\ NoDb /\ UNCHANGED tx

\* A query fails and Get or Find returns the error.
ReadFails(s) ==
    /\ "read" \in Faults
    /\ job[s].op \in {"get", "find"}
    /\ \/ job[s].at \in {"queryIds", "fetch", "query"}
       \/ job[s].at = "getBean" /\ job[s].ids = {}
    /\ Step(s, NoJob)
    /\ NoCacher /\ NoDb /\ UNCHANGED tx

----------------------------------------------------------------------------
(* Insert, Update and Delete.  One whose statement fails before the cache is *)
(* touched changes nothing and is not shown.                                 *)

\* insertStruct and insertMultipleStruct: exec, then ClearIds.
Insert(s, i, v) ==
    /\ Free(s) /\ View(s)[i] = None
    /\ Exec(s, Setting({i}, v))
    /\ Step(s, [NoJob EXCEPT !.op = "insert", !.at = "clearIds"])
    /\ NoCacher /\ UNCHANGED tx

\* insertMap and insertMultipleMap: ClearIds, then exec.
InsertMap(s, i, v) ==
    /\ Free(s)
    /\ ids' = [k \in Key |-> NoIds]
    /\ Step(s, [NoJob EXCEPT !.op = "insertMap", !.at = "exec", !.set = <<i, v>>])
    /\ NoDb /\ UNCHANGED <<beans, tx>>

\* Update: exec, then ClearIds, then ClearBeans.
Update(s, q, v) ==
    /\ Free(s)
    /\ Exec(s, Setting(IdsOf(Result(s, q)), v))
    /\ Step(s, [NoJob EXCEPT !.op = "update", !.at = "clearIds"])
    /\ NoCacher /\ UNCHANGED tx

\* Delete: cacheDelete, unless the session has a transaction; then exec.
Delete(s, q) ==
    /\ Free(s)
    /\ Step(s, [NoJob EXCEPT !.op = "delete", !.q = q,
                             !.at = IF tx[s] = "nil" THEN "getIds" ELSE "exec"])
    /\ NoCacher /\ NoDb /\ UNCHANGED tx

\* The error of cacheDelete is ignored.
CacheDeleteFails(s) ==
    /\ "cacheDelete" \in Faults
    /\ job[s].op = "delete" /\ job[s].at = "queryIds"
    /\ Step(s, [job[s] EXCEPT !.at = "exec"])
    /\ NoCacher /\ NoDb /\ UNCHANGED tx

DelBean(s) ==
    /\ job[s].at = "delBean"
    /\ IF job[s].ids = {}
       THEN Step(s, [job[s] EXCEPT !.at = "clearIds"]) /\ UNCHANGED beans
       ELSE \E i \in job[s].ids :
               /\ beans' = [beans EXCEPT ![i] = None]
               /\ Step(s, [job[s] EXCEPT !.ids = @ \ {i}])
    /\ NoDb /\ UNCHANGED <<ids, tx>>

ClearIds(s) ==
    LET j == job[s] IN
    /\ j.at = "clearIds"
    /\ ids' = [k \in Key |-> NoIds]
    /\ CASE j.op = "insert" -> Step(s, NoJob)
         [] j.op = "update" -> Step(s, [j EXCEPT !.at = "clearBeans"])
         [] j.op = "delete" -> Step(s, [j EXCEPT !.at = "exec"])
    /\ NoDb /\ UNCHANGED <<beans, tx>>

ClearBeansForgotten(s) ==
    /\ job[s].at = "clearBeans"
    /\ Step(s, NoJob)
    /\ NoDb /\ UNCHANGED <<beans, ids, tx>>

ClearBeans(s) ==
    /\ job[s].at = "clearBeans"
    /\ beans' = [i \in Id |-> None]
    /\ Step(s, NoJob)
    /\ NoDb /\ UNCHANGED <<ids, tx>>

\* exec of insertMap and of Delete; ExecFails when the database refuses it.
ExecLast(s) ==
    LET j == job[s] IN
    /\ j.at = "exec"
    /\ CASE j.op = "delete" -> Exec(s, Setting(IdsOf(Result(s, j.q)), None))
         [] j.op = "insertMap" -> /\ View(s)[j.set[1]] = None
                                  /\ Exec(s, Setting({j.set[1]}, j.set[2]))
    /\ Step(s, NoJob)
    /\ NoCacher /\ UNCHANGED tx

ExecFails(s) ==
    /\ job[s].at = "exec"
    /\ Step(s, NoJob)
    /\ NoCacher /\ NoDb /\ UNCHANGED tx

----------------------------------------------------------------------------
(* Transactions *)

Begin(s) ==
    /\ UseTx /\ Free(s) /\ tx[s] # "open"
    /\ tx' = [tx EXCEPT ![s] = "open"]
    /\ Step(s, NoJob)
    /\ NoCacher /\ NoDb

Commit(s) ==
    /\ Free(s) /\ tx[s] = "open"
    /\ Become(Overlay(db, writes[s]))
    /\ writes' = [writes EXCEPT ![s] = NoWrites]
    /\ tx' = [tx EXCEPT ![s] = "ended"]
    /\ Step(s, NoJob)
    /\ NoCacher /\ UNCHANGED execs

\* Rollback, or a Commit that fails.
Rollback(s) ==
    /\ Free(s) /\ tx[s] = "open"
    /\ writes' = [writes EXCEPT ![s] = NoWrites]
    /\ tx' = [tx EXCEPT ![s] = "ended"]
    /\ Step(s, NoJob)
    /\ NoCacher /\ UNCHANGED <<db, execs, committed, seen>>

\* Close, after which s stands for a new session.
Close(s) ==
    /\ Free(s) /\ tx[s] # "nil"
    /\ writes' = [writes EXCEPT ![s] = NoWrites]
    /\ tx' = [tx EXCEPT ![s] = "nil"]
    /\ Step(s, NoJob)
    /\ NoCacher /\ UNCHANGED <<db, execs, committed, seen>>

----------------------------------------------------------------------------
(* The Cacher by itself *)

\* Expiry, garbage collection, eviction, and the id lists that go with a bean.
Forget ==
    /\ \/ \E i \in Id : beans' = [beans EXCEPT ![i] = None] /\ UNCHANGED ids
       \/ \E k \in Key : ids' = [ids EXCEPT ![k] = NoIds] /\ UNCHANGED beans
    /\ NoDb /\ UNCHANGED <<tx, job>>

Next ==
    \/ \E s \in Session :
          \/ \E op \in {"get", "find"}, q \in Query, useCache \in BOOLEAN :
                StartRead(s, op, q, useCache)
          \/ GetIds(s) \/ QueryIds(s) \/ PutIds(s) \/ GetBean(s) \/ FindBean(s)
          \/ Fetch(s) \/ FindMissing(s) \/ PutBean(s) \/ QueryRows(s) \/ ReadFails(s)
          \/ \E i \in Id, v \in Value : Insert(s, i, v) \/ InsertMap(s, i, v)
          \/ \E q \in Query : Delete(s, q) \/ \E v \in Value : Update(s, q, v)
          \/ CacheDeleteFails(s) \/ DelBean(s) \/ ClearIds(s) \/ ClearBeans(s)
          \/ ExecLast(s) \/ ExecFails(s)
          \/ Begin(s) \/ Commit(s) \/ Rollback(s) \/ Close(s)
    \/ Forget

Spec == Init /\ [][Next]_vars

----------------------------------------------------------------------------
(* Properties *)

\* No dirty reads through the cache: whatever transactions write and roll back, the
\* cache and the answers given outside a transaction hold committed records only.
OnlyCommitted ==
    /\ \A i \in Id : beans[i] # None => beans[i] \in committed
    /\ \A s \in Session : tx[s] # "open" => job[s].rows \subseteq committed

\* Find never returns a record twice, even when a race has put a bean under another
\* record's id: what it has found it neither looks up nor reads again.
FindOneRowPerId ==
    \A s \in Session : job[s].op = "find" =>
        /\ IdsOf(job[s].rows) \cap (job[s].ids \cup job[s].miss) = {} \/ job[s].at = "putBean"
        /\ \A r1, r2 \in job[s].rows \cup job[s].fill : r1[1] = r2[1] => r1 = r2

\* Between the calls of a session that is alone, the cache agrees with the database:
\* every invalidation in Insert, Update and Delete reaches far enough.
CacheFresh ==
    (\A s \in Session : Free(s)) =>
        /\ \A i \in Id : beans[i] # None => beans[i] \in Rows(db) /\ beans[i][1] = i
        /\ \A q \in Query :
              LET now == {r[1] : r \in {x \in Rows(db) : Matches(x, q)}} IN
              /\ ids[<<"get", q>>] = NoIds \/ ids[<<"get", q>>] \subseteq now
              /\ ids[<<"find", q>>] \in {NoIds, now}

\* A record Get or Find returns was in the database at some moment of the call, or
\* before a write that had not returned when the call began.
ReadsFromDatabase ==
    \A s \in Session : job[s].at = "done" => job[s].rows \subseteq seen[s]

\* A record Get returns satisfies the condition of the call.
GetMatches ==
    \A s \in Session : job[s].at = "done" /\ job[s].op = "get" =>
        \A r \in job[s].rows : Matches(r, job[s].q)
=============================================================================

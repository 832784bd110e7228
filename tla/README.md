# A TLA+ model of xorm

xorm is an ORM: an `Engine` hands out `Session`s, a `Session` collects conditions in a
`Statement`, turns them into SQL for a dialect, sends it to `database/sql` and moves rows
into structs ("beans"). Around that path it keeps state that has to be right: the
statement itself and its reset, the transaction a session is in, the hooks a write leaves
behind, a query cache shared by all sessions, a version column. Two parts change the
database's schema while other instances of the application may do the same: Sync and the
migrations. This directory models that state and those protocols, checks them with TLC
and proves part of them with TLAPS.

## Inventory

| Component | State | Operations | Hard behaviour | Correct when |
|---|---|---|---|---|
| Session transactions (`session_tx.go`, `session.go`, `core/tx.go`) | `isAutoCommit`, `isCommitedOrRollbacked`, `tx`, `isClosed`, `txStmtCache` | Begin, Commit, Rollback, Close, Prepare | the driver, the database or a `contexts.Hook` fails in the middle; the session is used for another transaction | no transaction is left open; statements run in the current one |
| Hooks (`processors.go`, `session_*.go`) | `afterClosures`, `after{Insert,Update,Delete}Beans` | After, the writes, the reads, Commit | deferred to Commit, kept over failures, rollbacks and reads | writes run them once, after their transaction; reads run none a write has taken |
| LRU cacher (`caches/`) | two lists, two indexes, a store | the eight methods of `Cacher`, GC | eviction, expiry, GC, a store whose calls fail and that outlives the process | lists, indexes and store agree; it is a map that may forget |
| Query cache in the session (`session_get.go`, `session_find.go`, `session_delete.go`, ...) | the cacher, shared | cacheGet, cacheFind, cacheDelete, cacheInsert, Update | several cacher calls and queries per method, other sessions in between | no dirty reads; reads return what the database held |
| Optimistic locking (`session_update.go`, `session_insert.go`) | the version column, the bean's version field | Insert, Update, NoVersionCheck | two clients, refused updates, rollbacks | no update is lost |
| Statement and SQL builder (`internal/statements/`) | conditions, columns, limits | the chainable methods, the generators of SQL, Reset | combinations of methods on one of several dialects; error paths that skip the reset | the SQL selects and writes what was asked; nothing leaks into the next call |
| Iteration (`session_iterate.go`, `rows.go`) | offset, buffer, the open rows | Iterate, Rows | limit, offset and buffer together; failures while opening | each row once; the session is given back |
| Schema sync (`sync.go`, `session_schema.go`, `dialects/`) | the database's schema | Sync | several instances without a lock, failure between two DDL statements, types that come back under another name | repeating it converges; options are kept; nothing is lost |
| Migrations (`migrate/`) | the migration table | Migrate, RollbackLast, RollbackMigration | several instances without a lock, a crash between a migration and its record | the list agrees with the schema; every Migrate ends |
| EngineGroup (`engine_group*.go`) | the policy's position | Slave, Master | concurrent callers | every slave gets its share |
| Tag parser (`tags/`), names (`names/`) | caches | Parse, the mappers | concurrent use, cleared caches | the cache agrees with the parser |
| Conversion, engine facade, logging | little or none | text and reflection | | |

A session belongs to one goroutine and calls the cacher and the database; the cacher is
shared by all sessions and locks a mutex in every method; the database is shared and
external. Hooks and processors are callbacks into the program. `PROJECT.json` lists every
component with its status, and the hazards with the lines where they bite.

## Modules

| Module | Models | Extends / uses |
|---|---|---|
| `SessionTx` | one session's transactions, prepared statements and hooks | |
| `Statement` | the statement's fields and the SQL generated from them, for one dialect | |
| `SessionCalls` | chained calls, database calls, and what they leave behind | `Statement` |
| `Cacher` | what the `Cacher` interface promises | |
| `LRUCacher` | `caches.LRUCacher` over a memory or LevelDB store | implements `Cacher` |
| `CachedSession` | several sessions over one cacher and one database | the cacher is what `Cacher` promises |
| `OptimisticLock` | clients of one record with a version column | |
| `DialectTypes` | column types of seven dialects: DDL, catalog, comparison | |
| `SchemaSync` | instances calling Sync on one table | `DialectTypes` |
| `Migrate` | instances calling Migrate and the rollbacks | |
| `SessionTxProofs`, `LRUCacherProofs`, `CachedSessionProofs`, `OptimisticLockProofs`, `SchemaSyncProofs`, `MigrateProofs` | the proofs | the module they are named after |
| `StatementProofs` | lemmas: induction over natural numbers as sets, recursive functions, sequences; the types of statements and texts, and which records a text lets through | `Statement` |
| `SessionCallsProofs` | the proofs | `SessionCalls`, `StatementProofs` |
| `MC*` | model values and definitions for the runs | |

### SessionTx

The variables are the fields of `Session` with their names, plus `txState`, the database's
side of each transaction, and history variables (`owner`, `fired`, `writer`, `processed`)
that no action reads except to record. A method call is one step, because a session is used
by one goroutine. What may happen around it: the database aborts the transaction
(`DbAbort`), the driver's Commit or Rollback reports an error, a `contexts.Hook` fails
before or after the call; the constant `Faults` says which. A failed Commit ends in either
outcome. Begin, Commit, Rollback and Close set the flags in the order of the code: before
the driver is called. `Write` is insertStruct, insertMultipleStruct, Update and delete as
far as they concern the transaction: exec through `RunsIn`, the statement cache, and the
hooks, which run at once in autocommit mode and are deferred otherwise (`DeferHooks`,
including the nil that a write without closures stores over earlier ones). The reads run
closures too: for every bean that Get, Find or Rows loads, buildAfterProcessors queues all
of them in `afterProcessors`, executeProcessors runs the queue at the end, and the closures
stay with the session (`Load`); a read that fails halfway leaves its queue for the next one
(`LoadFails`), and one that has no bean to load touches neither (`Read`). `loaded` records
what reads ran, `fired` what writes and commits ran. `hookFailed` records that the error of
a hook has left a transaction open, which the session then forgets. `SeqInsert*` is Insert
on Oracle and Dameng, which begins and commits a transaction of its own.

Abstracted: what a statement reads or writes; Before hooks; the order of closures. A
prepared statement that was cached in a transaction that has ended fails with
`sql.ErrTxDone` and is therefore a `WriteFails`.

### Statement and SessionCalls

`Statement` is the record of the fields the SQL depends on, with the names of the code. A
`builder.BytesWriter` is a sequence of clauses; a clause says which records it lets
through (`rows`), how it pages (`skip`, `take`), which columns it lists and which clauses
its subquery has. There is one operator per writer of the code, composed in the code's
order, and `RowsOf` is the database: it applies the clauses to the table. So a property
can ask what an SQL text *does* although no text is put together. A condition is the set of
its records with the validity flag of `builder.Cond`, and `lead`, the records of all its
alternatives but the last. The builder puts no parentheses around a condition as a whole, so
where a writer goes on with ` AND ` after it, the rest binds to the last alternative of an Or
only, and `lead` is let through; And of the builder does parenthesise its parts.
IncrColumns, DecrColumns and ExprColumns are sequences that grow with every call, whatever
they hold already; `ExprItems` is the list of values with the comma written before the
expressions, also when nothing stands before it. Errors of a writer are a clause
`ERROR` that makes the whole text unused. The legacy variants of SQL Server and Oracle
(no OFFSET) are dialects of their own.

`SessionCalls` is the session around it. Chained methods change the statement; a database
call generates its text, leaves a statement behind, and resets it or returns early
without doing so, exactly on the paths of the code, including `autoResetStatement`, which
FindAndCount switches off and does not switch on when find fails. `asked` records what
the caller chained, independently of the fields, and `last` the call that has returned.
Iterate with a buffer is a recursive function over its pages, each of which adds its
condition to the statement again; with SQL(...) every page sends the raw text as it is, so
that such an iteration may never end: the model lets the caller's function stop it after
`RowCount + 2` pages. `OpenRows`, `RowsScan` and `RowsClose` are an iteration the caller
holds in his hands, and `RowsClose` returns like every other call.

Where the code departs from a property in a known case, the case is a definition of its
own and the property holds in all the others; they are listed under "Known behaviour".

### Cacher and LRUCacher

`Cacher` is two maps that may forget anything at any time but never return a value that was
not put, or was deleted, cleared or replaced. `LRUCacher` keeps the two lists as sequences
of nodes with an age, the two indexes as sets, and the store as two maps over `BeanKey`, the
pairs of a table and an id, and over the queries; every exported method is one step, since
it holds the mutex. `DropIds` and `DropBeans` are delIds/clearIds and delBean (which clears
the id lists of the table). GC stops at the first element that has not expired and removes
at most `CacheGcMaxRemoved + 1` of each list, as the loops in the code do.

The cacher ignores the errors of its store, so any Put and any Del may fail: list and index
change as if it had not. `Put` and `Undeleted` are the outcomes. `badBeans` and `badIds` are
the keys whose last Put or Del failed: an index entry without a value, a value without an
index entry, or an old value in place of the new one. A Put that succeeds makes the key good
again. `strays` remembers that the store has ever held a value outside the index, `trusted`
that the last Get was not of a bad key. `Restart` is the end of a process over a LevelDB
store: lists and indexes are empty, the store is not, and `restarted` remembers it.
`PutBeanPanics` is the assignment to a nil map when PutBean is the first call for a table:
it leaves the mutex locked. The refinement mapping hides the bad keys and is otherwise the
identity until a restart; so of a key whose last Put or Del failed nothing is promised, and
of all others everything, whatever else has failed. It is an empty cache afterwards:
clearIds and clearBeans go by the index and do not reach what an earlier process has stored,
so nothing is promised then.

### CachedSession

A step is one call of the cacher or one statement. `job[s]` is the method a session is
executing: its program counter `at` and its local variables. The record is an id and one
value; a query asks for an id or a value. `Exec`, `View` and `Overlay` are the database:
read committed, a write waits for the rows another transaction has written. The cacher is
two maps, and `Forget` is everything it may drop by itself. The model keeps the order of
the code: insertStruct and Update execute, then invalidate; insertMap clears first;
delete runs cacheDelete first and skips it when `session.tx` is not nil; cacheGet's second
query is the caller's own, and its result is stored under the id of the first.

### OptimisticLock

`row` is the committed record, `work` the record in the transaction of the client holding
its lock, `bean[c]` the version field of the client's bean. `gen` numbers the inserts and
checked updates, `kind` says how the caller came by the bean; both are history. A call is
one step because it sends one statement. Update matches on the version and increments the
column; the bean's field is incremented afterwards whether a record matched or not.
insertStruct writes 1 and adds 1 to the field; with NoVersionCheck only InsertOne does,
because exec has reset `CheckVersion` by then. insertMultipleStruct sets the field to 1.
The id of a deleted record is not used again: with caller-chosen ids, a record inserted
again starts at version 1 and a stale bean of the first one matches it.

### DialectTypes and SchemaSync

`DialectTypes` takes a type the way Sync does: `SQLType` of each dialect gives the text of
the DDL (a name, numbers in parentheses, a suffix), `Catalog` (external) is what the
database's catalog reports for a column of that text, `GetColumn` of each dialect reads it
back, and `columnTypesMatch` compares the two: by the flags `isJSON` and `isJSONB`, which
are separate from the type (a column of a text type may hold JSON), by alias, and by
`SQLTypeName`, which cuts a text at its parenthesis and so keeps an UNSIGNED without one.
For times and for UNSIGNED FLOAT the catalog reports a length other than the declared one on
dameng and mysql. `Indexable` (external) says which columns a database makes no index on.

In `SchemaSync` a step is one statement of `SyncWithOptions`: GetTables, CREATE SEQUENCE,
CREATE TABLE, one CREATE INDEX, the two loads, one column at a time, the comparison of the
indexes, one DROP INDEX, one CREATE INDEX. What each instance has loaded (`loc[p]`) is
stale as soon as another one runs a statement. A statement that the database refuses makes
Sync return, and the instance starts again; `Fault` is a crash or any other failure. Go's
maps have no order: `Matches` is every outcome of the loop that looks for equal indexes,
`DropIndex` and `AddIndex` take any index. An index is named after its type and its name in
the database and after its name alone in the map GetIndexes returns; `Grouped` and
`Replaced` are what the dialects make of two of one name. `setup` fixes dialect, options
and a struct per instance; `alone` is history.

Sync's comment says that it "will not delete or change anything"; `ChangesNothing` states
that, and the run `sync_changes` shows that it does not hold. What Sync does change in a
column is `OnlyAdds`, which is proved.

### Migrate

A step is one statement or one call of a function of the application (`InitSchema`,
`RunMigration`, `Rollback`). `ids` is the migration table, `applied` what the schema has.
There is neither a transaction nor a lock in the code, so every instance may stop, or meet
another, between any two steps. `setup` says whether there is an initSchema, whether
migrations may run twice, and whether CREATE TABLE passes over a table that is there.
`cut` records the migrations whose change of schema and of list came apart, `disturbed`
that a rollback met another call or was not of the last migration.

## Runs

| Run | Shows | Bounds |
|---|---|---|
| `session_tx` | with all faults, of hooks too, and the Oracle path: `CloseRollsBack`, `HooksRunOnce`, `ReadsRunPending`; until a hook has left a transaction open, `NoOrphanTx`, `ClosedReleasesTx`, `HooksAfterTxEnds`, `StmtRunsInCurrentTx`, `EveryTxEnds` | 2 transactions, 2 closures, 1 bean with a processor, 1 SQL text, two kinds of write |
| `tx_rolled_back_hooks` (violation) | Write, Rollback, Begin, Commit: the second commit calls the processor of the bean that was rolled back | no faults |
| `session_calls` | clauses in order, the right page, conditions that restrict, soft deletion, exact limits, SET and INSERT lists, FindAndCount, buffered iteration, the reset, also after the closing of a Rows | 5 records, conditions that overlap, all pairs of 25 chained methods before every database call, and a Limit behind every pair on legacy SQL Server and PostgreSQL, or one chained method and a call that failed and left it, 7 dialects |
| `update_all_rows` (violation) | Where, OrderBy, Update on SQL Server: no WHERE clause | 3 chained calls |
| `lru` | `Indexed` through restarts, panics and failures of the store; `Reachable`, `SizeBounded`, `IdsGoWithBean`, and that `LRUCacher` implements `Cacher` | a table with 2 beans and a query, one with 1 bean, 2 values, size 2; every call of the store may fail |
| `cached_sessions` | `OnlyCommitted`, `FindOneRowPerId` for two sessions with transactions, a failing cacheDelete and a forgetful cacher | 2 ids, 2 values, 1 write |
| `cached_alone` | `CacheFresh`, `GetMatches` for one session | 3 ids, 3 writes, at most 2 cached ids |
| `cached_tx_delete` (violation) | a Delete of a session that has or had a transaction leaves the record in the cache | 1 session |
| `optimistic_lock` | `NoLostUpdate`, `VersionMeansCurrent` among refused, preset and unchecked beans | 2 clients, 4 writes, version 4 |
| `sync` | `ColumnsSettle`, `IndexesSettle`, `TypesRoundTrip`, `OptionsKept`, `EverySyncEnds` | 2 instances, every pair of 4 struct versions in 11 combinations of dialect and options, pairs that turn VARCHAR into TEXT or hold JSON, one column of every type on 7 dialects, 1 fault |
| `sync_changes` (violation) | one Sync of a struct with another comment and a shorter length narrows a VARCHAR that is there | mysql, 2 struct versions, no fault |
| `migrate` | `ListInStep`, `EveryMigrateEnds` | 2 instances, 3 migrations, the first without Rollback, 2 faults, 2 rollbacks |

Why the bounds are enough: a hook or a statement can outlive one transaction and meet the
next, so two are needed, and a third meets nothing new. The generators of SQL look at a
field or at two together (limit and order, columns and expressions, condition and limit); a
triple matters where Update reads condition, order and limit, which is what
`update_all_rows` has, and where a condition with an Or meets a page or a limit that is a
subquery, which is what the Limit behind every pair is for. Five records let every pair of
conditions overlap, and leave a page in the middle. The cacher's interesting cases are
eviction (three keys for size two), a second element behind an expired one, a failure in the
middle of an eviction, and a bean of one table that is evicted for one of another, with the
id list of its table; all are in `lru`. The list of queries, which `PutIds` treats in the
same way, never holds more than one there; the theorems have no such bound. Two sessions are
the least that race, three ids the least for which Find exceeds its limit of cached ids (500
in the code, 2 here). A lost update takes an insert and two updates; the fourth write lets a
third party's update come between. The struct versions differ in every way Sync reacts to: a
column more, another type, another length, a comment, an index of other columns, of another
type with the same name, an index on a large text. Two instances and one fault already reach
two CREATEs, a stale snapshot and a sequence without its table. Three migrations have a
first, a last and one between; two faults let a Migrate stop, be repeated and stop again.

Deadlock: the runs with `CHECK_DEADLOCK FALSE` end when the session is closed, when every
instance is done, or when the bounds on writes and transactions are used up. The others
must never stop, and do not. `cached_sessions` uses symmetry of the two sessions, and a
view without `seen`, which no action reads and the invariants of that run do not mention.
`lru` uses symmetry of values and of the two ids of its first table, and a view without
`call` and `trusted`, which no action reads; TLC compares their new values with `Cacher` on
every step.

Fairness: `FairSpec` of `SessionTx` assumes that the caller calls Close in the end, which
the README's examples do with `defer session.Close()`; nothing is assumed of the database or
of hooks. `FairSpec` of `SchemaSync` and of `Migrate` is weak fairness of the steps of each
instance: a call that was made goes on, and an application whose start failed because Sync
or Migrate returned an error is started again, as service managers do. Faults are not fair:
there are at most `MaxFaults`. `EverySyncEnds` allows an instance that never gets there only
if it is stuck from some state on for ever: passing through such a state, as every first
Sync on Oracle does between CREATE SEQUENCE and CREATE TABLE, is no excuse. Only
`EveryTxEnds`, `EverySyncEnds` and `EveryMigrateEnds` need fairness.

## Proofs

For every value of the constants, from the assumptions named in the modules:

| Theorem | From |
|---|---|
| `TypeCorrect`, `CloseAlwaysRollsBack`, `ClosuresRunOnce`, `ReadsRunOnlyPending` | any faults |
| `NoOrphans`, `ClosedReleases`, `HooksRunAfterTxEnds`, `StatementsStayInTx` | any faults, until the error of a `contexts.Hook` has left a transaction open (`hookFailed`: one that fails after BEGIN, or before COMMIT or ROLLBACK, loses the transaction) |
| `UpdatesAreNotLost`, `VersionsMeanCurrent` | ids not reused |
| `StoreReachable`, `LRUImplementsCacher`, `IdsLeaveWithBean` | whichever calls the store fails, for all keys but the ones that failed last; the first two speak of the time before a restart |
| `LRUTyped`, `ListsIndexed`, `ListsBounded` | any tables, ids, queries, sizes, failures of the store; the last until the store has held a value outside the index |
| `CacheOnlyCommitted`, `FindHasOneRowPerId`, `CachedSessionTyped` | any sessions, queries, faults; any order of LIMIT 1 |
| `CacheFreshAlone`, `GetMatchesAlone` | `Alone`: one session without transactions, a stable LIMIT 1, no failing cacheDelete |
| `CallsTyped`, `ConditionsRestrict`, `SoftDeletedHidden`, `CallsLeaveClean`, `PagesRight`, `LimitsExact`, `TotalsRight`, `BufferedRight`, `ClausesOrdered`, `ColumnsSetOnce`, `InsertListsMatch` | any number of records, any conditions, any dialects, any number of chained calls; the exceptions named in the properties |
| `SyncKeepsOptions` | any structs, dialect, instances, faults |
| `SyncOnlyAdds`, `SyncSettlesColumns` | any instances and faults; `KnownColumns`: one of the seven dialects, and structs that name no column twice and give each a type of `ColumnTypes` |
| `TypesComeBack` | the same, and `SameAutoIncrement`: the structs agree on which columns are auto-incremented, and those are integers of two bytes or more |
| `ListStaysInStep` | any instances, faults and rollbacks, as long as `disturbed` is false |

*CloseRollsBack* is inductive with the types: Commit and Rollback set
`isCommitedOrRollbacked` and `isAutoCommit` together, EnterTx clears both. *NoOrphanTx*
needs it, because Close rolls back only if its test agrees with Rollback's; ClosedReleasesTx
follows from it. *HooksRunOnce* needs `OnePlace` (a closure is with After, or in one entry
per bean, or has run) and `ClosuresNumbered` (a closure not yet made is nowhere); the
difficult action is Write, which moves closures into the maps, and the argument is
`TakenFresh`. *ReadsRunPending* is its consequence: what a read adds to the queue is with
After, so it is in no entry and has not run for a write. *HooksAfterTxEnds* needs
`RefsNumbered` and `TxNumbered`: a transaction that has ended stays ended (`NoRevival`) as
long as nothing refers to one that has not begun. *StmtRunsInCurrentTx* is a consequence of
NoOrphanTx and CloseRollsBack: a cached statement's transaction is either the current one or
not open.

*NoLostUpdate* needs `VersionMeansCurrent`, and that is not inductive by itself: a commit
makes another client's work the record. `NotAhead` (a synced bean has neither a larger
version nor a later write than the record its client sees) and `WorkFollowsRow` (the
uncommitted record is the committed one or later in both) carry it over a commit, and
`GenNumbered` over a new write. `NewWrite`, `OtherWrite`, `EndTx` and `BeanOnly` are the
four ways a step changes the state.

*The refinement of Cacher* rests on `Reachable`, which a failed Del would break: it speaks
of the keys that are not bad, and the mapping shows `Cacher` only these. Of the methods only
ClearIds and ClearBeans could break the promise, because they delete what is indexed while
Cacher asks that the table be empty; as long as every stored value that the mapping shows is
indexed the two are the same. Everything a method drops besides is covered by Cacher's
freedom to forget. The order of the lists plays no part, so neither these theorems nor
`IdsLeaveWithBean` need facts about the sequences. *Indexed* and *SizeBounded* do. `LInv` is
the types, `Indexed` also while the mutex is locked, the bound, and that a value outside the
index is remembered in `strays` (moving such a value to the back of its list makes the list
longer, which is why the bound ends there); what carries it is a handful of lemmas on what a
list is after PushBack, moving a node to the back, or `Remove`: no key twice, the keys that
are left, not longer than before. `Remove` is a recursive function, and its lemma an
induction over the length of the list.

*OnlyCommitted* needs to know more of a call in progress (`JobOK`): it takes a step of the
cache only when its session never had a transaction, so that what it reads is the committed
table (`ViewCommitted`), and a bean it is about to put was committed when it was read. A
record that was committed stays in `committed`, so other sessions cannot disturb it.
*FindOneRowPerId* is proved with `FInv`, which says of each stage of a Find how what it has
found, what it has still to look up, and what it has missed relate; records of a table have
one row per id, whatever the cache has under that id. *CacheFresh* and *GetMatches* are
false for two sessions (see "Known behaviour") and are proved under `Alone`, the conditions
of the run `cached_alone`. `AInv` is freshness in the middle of a call: the lists may be
stale only between the statement of an insert or update and the call that clears them, the
beans only between that of an update and ClearBeans; cacheDelete has dropped every bean the
statement will delete before it is sent; and a fill puts only what the database still has,
because nobody else writes. TLC checked `AInv` on the instance of `cached_alone` before it
was proved.

*The properties of SessionCalls* follow from `CallsInv`, checked by TLC on the instance of
`session_calls` first. Its first half (`Base`) says that the statement is well formed and
that, as long as no earlier call has left anything in it, its condition is the one the
caller has chained (`asked`): every chained method changes the two together, and every
database call ends with both empty or the statement marked stale. Its second half
(`Returns`) is about the call that has returned, and is established from scratch by each
one: there is a lemma per database call and a lemma per generator. A text is a
concatenation, and `WhereRows` of a concatenation is the meet of its parts; so a text
restricts to a condition as soon as one of its writers does. For subqueries, which take
records from `RowsOf` of a text, `KeepsRows` shows that sorting, paging and filtering
return records they were given. The part that was not obvious is FindAndCount: the second
text is generated from the statement the first has left, and it is unconditioned if that
fails; the proof shows that after a find that succeeded the count cannot be refused.
bufferIterate adds its condition once per page, so the statement of page n satisfies the
condition by induction over n.

`PagesRight`, `LimitsExact`, `TotalsRight` and `BufferedRight` say which records come, in
which order and how many. Their invariant `PagesInv` adds to `CallsInv` that a statement
nothing was left in asks for an offset only together with a limit (`Asks`): without that
the writers that look at the limit alone would drop the offset. The rest is what `RowsOf`
does with a text. A text is cut into runs of clauses, each of which does one thing to the
records before it (`Runs`): filter, sort, take a page, or nothing; so what the whole does is
read off its parts. `SelectRows` then states for every dialect that the text of a statement
returns `Selected`, the page of the sorted records that satisfy the condition. Three
dialects make this hard. SQL Server with TOP pages after all the other clauses. Its legacy
pagination excludes with NOT IN the records of a subquery that takes the first ones: the
rest is the page because the records are distinct and both texts sort alike
(`ExcludeFirst`, from the fact that a strictly sorted sequence is determined by its
elements). After an Or it excludes nothing from the first alternatives (`OrPages`), and
legacy Oracle pages before it sorts: these are the exceptions the property names.
For Update and Delete the subquery on the key returns as many records as the limit allows
(`Enough`), and filtering the table by them returns no fewer. FindAndCount infers the total
from a page that is not full, or counts with the condition the find has left (`TotalRight`).
For bufferIterate the induction over the pages (`Reached`) says that what has been visited
is a prefix of the records, that a page that is not full or has the size 0 is the last, and
that otherwise every page moved on; as there are at most `RowCount` records the last page is
among the first `RowCount + 2`. A raw text has no position: its one page is all of it, and
the theorem is about the cases in which it is sent once (not `RawAgain`).

`ClausesOrdered`, `ColumnsSetOnce` and `InsertListsMatch` are about the clauses of a text and
not about its records. Their invariant is `TextInv`: the three properties, and the columns
that Cols and Omit can have named (`Named`). Incr, Decr and SetExpr may name any column
any number of times; `NamedOnce` is what not `SetsTwice` says of the lists they leave. The
writers are taken one by one. Each writes clauses whose ranks rise within a range, and a
concatenation of rising texts of rising ranges rises; a subquery is a clause of its own,
whose kinds are in order by the same argument. For SET, each writer assigns the columns of
a set, none twice (`Assigns`), and the sets of the writers of one UPDATE are disjoint but in
the cases of `SetsTwice`: the automatic version and updated columns are where it is close.
For INSERT, `Agrees` says which columns a text gives values for and which it names, and that
they are the same for every writer of a list that has at least one item before its
expressions (not `EmptyItem`); the expressions are in it unless the text is one of
`LosesExprs`.

*OptionsKept* is an action property; its invariant `OInv` says that the indexes an
instance has still to add or to drop are none its options exclude. The decision is made in
CompareIndexes on what was loaded earlier, and the options do not change, so however stale
the snapshot is, the statements that follow are allowed.

*TypesRoundTrip* is a fact about three functions for each dialect: SQLType writes a type,
the catalog reports it, GetColumns reads the report and SQLType writes that again. A pair of
lemmas per dialect says which names can be written (`...Base`) and that the second writing
has the name of the first, or its `Alias`, for all lengths and all types but those of
`Drifts` (`...Back`). That every column of the table was written by SQLType for some struct
is an invariant (`Made`, in `TableMade`). Trying to prove it corrected the list of
exceptions: of gbase8s no type drifts as such, but the fraction of a time does
(`LengthDrifts`, which also has a time zone without a length on dameng and an unsigned FLOAT
of one length on mysql). On mysql the suffix UNSIGNED is part of the name that is compared
when there is no length before it, and `FloatBack`, `MysqlMatch` and `TypesMatch` follow it
there and back. *OnlyAdds* and *ColumnsSettle* are about an instance whose table nobody
else has changed since it loaded the columns (`alone`). `Ready` says of it that there is no table
before it creates one, that what it has loaded of the columns still to do is what the table
has (`Fresh`), that the columns still to do are each there once, and that the columns behind it are
`Settled`: the next Sync would not modify them. `ModifiesOnly` is the central lemma:
MustModifyColumn of a column that was made by SQLType and is loaded fresh asks for no
change of type but VARCHAR to TEXT, unless the comment differs; `Unmodified` is its
counterpart for the column just written. Without `Fresh` neither holds: another instance's
MODIFY COLUMN can come between. TLC evaluates the two hypotheses on the setups of the run
(`SetupsKnown`). In the names of types blanks are written `_`: the SMT backend takes no
strings with blanks.

*ListInStep* needs, while no rollback was disturbed: an instance in the middle of Migrate
has all the migrations before its own on the list (`Before`); one that rolls back is alone
and nothing after its migration is listed (`AloneBack`); and between the two changes the
schema has what the list does not, or the reverse (`Halfway`). Without `Before` an insert
could leave a gap; without `AloneBack` a DELETE could.

*Induction.* The library's induction theorems take an operator as a parameter, which the
installed provers do not instantiate. `SetInduction` in `StatementProofs`, and again in
`LRUCacherProofs`, states induction
for a set of numbers instead, and `RecursionExists` and `RecursionUnique`, proved from it,
give the recursive functions in `Statement`, `SessionCalls` and `LRUCacher` (`Filter`,
`RowsOf`, `Pages`, `Remove`) their equations. The lemmas on sequences that are about no
session (an order determines a sequence, what Reverse and FlattenSeq return) are in that
module too.

The types of `SessionTx`, `SessionCalls`, `LRUCacher` and `CachedSession` are only proved
(`TypeCorrect`, `CallsTyped`, `LRUTyped`, `CachedSessionTyped`), and not in a run.

Only model-checked: the liveness properties `EveryTxEnds`, `EverySyncEnds` and
`EveryMigrateEnds`, which are out of this prover's reach, and `IndexesSettle` of
`SchemaSync`. The latter is no property of all structs: with two equal indexes in a struct
(same type, same columns), or two in the table of which `IgnoreDropIndices` keeps one, which of
them Index.Equal finds depends on the order in which Go ranges over a map, and a third
instance can leave two indexes of one name that GetIndexes merges. It is checked for the
structs of the run, whose indexes differ. In `SessionCalls` the number of records, the
conditions and the number of calls are arbitrary in the theorems; the columns of the struct
and the arguments of Limit are those of the module.

## Known behaviour

Findings, each with a run that shows it: After processors of rolled-back beans run at the
next commit (`tx_rolled_back_hooks`); a Delete in or after a transaction leaves the record
in the cache (`cached_tx_delete`); an Update with OrderBy and without Limit on SQL Server
has no WHERE clause (`update_all_rows`); Sync, which "will not delete or change anything",
narrows a VARCHAR whose comment differs, and drops indexes (`sync_changes`).

Sessions and hooks:

- A bean written twice in a transaction, the second time without closures, loses the
  closures of the first write (`DeferHooks`).
- Get, Find and Rows run the closures of After on what they load and keep them: with
  After(f), Get and then Insert, f runs for both. What a read that failed halfway has queued
  runs in the next read.
- On Oracle and Dameng an Insert whose exec fails leaves the session in the transaction it
  began (`SeqInsertFails`).
- A `contexts.Hook` that fails around BEGIN, COMMIT or ROLLBACK leaves a transaction open
  after Close (`BeginHookFails`, `RollbackHookFails`, `FailedOutcomes`).

Cases that `SessionCalls` excepts by name:

- `LegacySorts`, `LegacyPages`: the legacy pagination of SQL Server sorts its subquery
  before it groups it; that of Oracle pages before it sorts.
- `IgnoresID`, `NoBean`: Find, FindAndCount, Rows and Iterate do not look at ID; Count and
  Delete without a bean look at the chained conditions only, and Exist too without a table.
- `SeesDeleted`: Query, calls without a bean, and Update with a condition bean and
  NoAutoCondition do not exclude soft-deleted records.
- `OrPages`: the legacy pagination of SQL Server writes ` AND ` after the condition without
  parentheses, so after an Or the records before the offset come back.
- `DeletesFewer`: Delete with a limit and a condition on PostgreSQL and SQLite limits a
  subquery over the whole table, and deletes fewer records than asked; after an Or the limit
  restricts the last alternative only, and it deletes more.
- `SetsTwice`: a column is assigned twice that Cols or SetExpr names and the version check
  increments, that a map holds next to Incr, Decr or SetExpr, that two calls of these name
  (`Incr("a").Incr("a")`), or that SetExpr and the automatic update time both give.
- `EmptyItem`, `LosesExprs`: a map of whose keys SetExpr names all is inserted with an empty
  item in VALUES; a struct none of whose columns is left is inserted with DEFAULT VALUES,
  without the expressions, and several structs always are inserted without them.
- `MixedIds`: the first element of a slice decides on the column list.
- `OffsetCounts`: bufferIterate compares a position that includes the offset with the
  limit.
- `RawAgain`: a buffered Iterate over SQL(...) sends the same text for every page, and so
  visits the records again, for ever if they fill a page; with a limit of 0 it sends nothing.
- FindAndCount counts what is in the destination slice, which the model takes to be empty
  before the call.
- `KeepsStatement`: calls that return an error early keep the conditions; a
  FindAndCount that fails leaves `autoResetStatement` off, until an Insert or Iterate or a
  successful FindAndCount switches it on. Index hints are never reset.
- A Rows that is refused before its query leaves an auto-closing session open.

Cache and versions:

- GC removes `CacheGcMaxRemoved + 1` elements and stops at the first fresh one, although
  PutBean and PutIds refresh elements without moving them.
- After a restart over LevelDB the lists may outgrow `MaxElementSize`, and ClearIds and
  ClearBeans do not reach what the earlier process stored.
- A Put or Del that fails in the store goes unnoticed: a key may stay readable after it was
  deleted, or hold the earlier value, and values outside the index are in no list, so that
  nothing evicts them (`badBeans`, `badIds`, `strays`).
- A fill that overlaps a write puts the old record back into the cache, until it expires; a
  write between cacheGet's two queries puts a record under another one's id.
- The cache holds the pointer the caller got: changing the bean changes the cache. Writes
  with NoCache do not invalidate the cache. Neither is modelled.
- Get is LIMIT 1 without an order; `StableOrder` says whether it picks the same record
  every time.
- Inserting a bean whose version field is not zero, or InsertOne with NoVersionCheck,
  leaves bean and record with different versions. An Update that was refused counts the
  bean's version up, so that trying it again may overwrite the other client's update. Writes
  that name the version column themselves (Cols, a map) are not in `OptimisticLock`.

Schema:

- Sync repeats DDL at every start on gbase8s for some comments and for indexes on
  primary-key columns, and on Oracle fails to drop the index of the primary key
  (`GbaseComments`, `GbaseIndexes`, `OraclePrimaryKey`); two instances can leave two
  indexes of one name (`TwoOfOneName`).
- `Drifts` and `LengthDrifts` list what does not come back as it went; a type that is
  not accepted (`NoSuchType`), a sequence without its table (`SequenceLeft`), a serial column whose
  comment changed (`SerialComment`), an index on a large text (`LargeIndex`) and, on MySQL, a
  VARCHAR of an index that is to become TEXT (`IndexedText`) make every Sync fail.
- The last clause of columnTypesMatch compares names only, so a VARCHAR never counts as
  having another type and the branch that widens it is reached only for a type text
  without a length.
- Of two indexes of the same type on the same columns Sync may find one twice and drop the
  other (the loops over `Indexes`, in map order).
- A comment that differs makes MODIFY COLUMN state the struct's type, be it a narrower one.
- A Migrate that stopped between a migration and its record fails for ever when the
  migration cannot run twice (`Stuck`). Rolling back while another call runs, or out of
  order, leaves gaps or a list that disagrees with the schema (`disturbed`).

## Not modelled

- Names, aliases, quoting, reserved words, SeqFilter, argument values, data source names:
  text without state. What joins and GROUP BY do to the records.
- Tag parser, name mappers, conversion and scanning: reflection over Go types. The hazards
  of the parser's cache and of the engine group's policies are Go data races, whose
  outcomes the code does not bound.
- Composite keys in the cache, `Engine.ClearCache`, encoding of cached values.
- Before hooks; callbacks of Iterate that fail; `Sync` of several beans in one call,
  DropTable, DropIndexes, Import and the dump; warnings about defaults and nullability.
- Logging, JSON, the context cache.

What would come next: a composition of `SessionCalls` with `CachedSession`, so that the
statement cacheFind swaps is part of the same session; Sync of several beans;
`IndexesSettle` for all structs without equal indexes.

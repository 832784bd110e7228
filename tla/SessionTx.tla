----------------------------- MODULE SessionTx -----------------------------
(***************************************************************************)
(* The transaction life of one Session: Begin, Commit, Rollback, Close,    *)
(* the writes and reads between them, the prepared statements cached per   *)
(* transaction, and the After closures and After*Processor calls that a    *)
(* write inside a transaction defers to Commit.                            *)
(*                                                                         *)
(* A Session is used by one goroutine, so a method call is one step.  What *)
(* surrounds it is not under its control: the database may abort the       *)
(* transaction at any time (a cancelled context, a lost connection), and   *)
(* the external calls named in Faults may fail.  A closed session is not   *)
(* used again, except that Close may be called again.                      *)
(***************************************************************************)
EXTENDS Integers, FiniteSets

CONSTANTS
    Kind,         \* the kinds of write: "insert", "update", "delete"
    Bean,         \* the beans the caller writes
    Processor,    \* the beans that implement the After*Processor interfaces
    Query,        \* the SQL texts, the keys of the statement cache
    MaxTx,        \* bound: how many transactions the session begins
    MaxClosures,  \* bound: how many After closures the caller registers
    Faults,       \* which external calls may fail
    SeqDialect    \* TRUE for ORACLE and DAMENG, see SeqInsertFails

FaultNames == {"abort", "commit", "rollback", "hook"}

ASSUME BoundsAssumption == MaxTx \in Nat /\ MaxClosures \in Nat
ASSUME ProcessorAssumption == Processor \subseteq Bean
ASSUME FaultsAssumption == Faults \subseteq FaultNames /\ SeqDialect \in BOOLEAN

Tx == 1..MaxTx
NoTx == 0           \* a nil *core.Tx; also "written in autocommit mode"
Closure == 1..MaxClosures

VARIABLES
    isAutoCommit, isCommitedOrRollbacked, isClosed,
    tx,             \* the Tx pointer, NoTx when nil
    txStmtCache,    \* SQL text -> the transaction it was prepared in
    afterClosures,  \* closures given to After and not yet consumed by a write
    afterBeans,     \* keys of afterInsertBeans, afterUpdateBeans, afterDeleteBeans
    afterFuncs,     \* the closures those maps hold for each bean
    afterProcessors,\* the closures a read queued for the beans it loads
    txState,        \* the database's side of every transaction
    lastTx, lastClosure,
    owner,          \* history: the transaction of the write that took a closure
    fired,          \* history: how often a closure ran for a kind and a bean
    writer,         \* history: the transaction that last wrote a bean whose
                    \* processor is deferred
    processed,      \* history: the writers of the beans whose processors the commit
                    \* of a transaction called
    loaded,         \* history: the closures that reads ran
    hookFailed      \* history: the error of a contexts.Hook has left a transaction open

flags == <<isAutoCommit, isCommitedOrRollbacked, isClosed, tx>>
pending == <<afterClosures, afterBeans, afterFuncs>>
history == <<owner, fired, writer, processed>>
loads == <<afterProcessors, loaded>>
vars == <<flags, txStmtCache, pending, txState, lastTx, lastClosure, history, loads,
          hookFailed>>

TypeOK ==
    /\ isAutoCommit \in BOOLEAN /\ isCommitedOrRollbacked \in BOOLEAN
    /\ isClosed \in BOOLEAN
    /\ tx \in Tx \cup {NoTx}
    /\ txStmtCache \in [Query -> Tx \cup {NoTx}]
    /\ afterClosures \subseteq Closure
    /\ afterBeans \in [Kind -> SUBSET Bean]
    /\ afterFuncs \in [Kind -> [Bean -> SUBSET Closure]]
    /\ txState \in [Tx -> {"none", "active", "committed", "rolledback"}]
    /\ lastTx \in 0..MaxTx /\ lastClosure \in 0..MaxClosures
    /\ owner \in [Closure -> Tx \cup {NoTx}]
    /\ fired \in [Kind -> [Bean -> [Closure -> Nat]]]
    /\ writer \in [Kind -> [Bean -> Tx \cup {NoTx}]]
    /\ processed \in [Tx -> SUBSET (Tx \cup {NoTx})]
    /\ afterProcessors \subseteq Closure /\ loaded \subseteq Closure
    /\ hookFailed \in BOOLEAN

EmptyBeans == [k \in Kind |-> {}]
EmptyFuncs == [k \in Kind |-> [b \in Bean |-> {}]]
NoWriter == [k \in Kind |-> [b \in Bean |-> NoTx]]

Init ==
    /\ isAutoCommit = TRUE
    /\ isCommitedOrRollbacked = FALSE
    /\ isClosed = FALSE
    /\ tx = NoTx
    /\ txStmtCache = [q \in Query |-> NoTx]
    /\ afterClosures = {}
    /\ afterBeans = EmptyBeans /\ afterFuncs = EmptyFuncs
    /\ txState = [t \in Tx |-> "none"]
    /\ lastTx = 0 /\ lastClosure = 0
    /\ owner = [c \in Closure |-> NoTx]
    /\ fired = [k \in Kind |-> [b \in Bean |-> [c \in Closure |-> 0]]]
    /\ writer = NoWriter
    /\ processed = [t \in Tx |-> {}]
    /\ afterProcessors = {} /\ loaded = {} /\ hookFailed = FALSE

Active(t) == t \in Tx /\ txState[t] = "active"
InTx == ~isAutoCommit

----------------------------------------------------------------------------
(* Begin, Commit, Rollback, Close *)

EnterTxKeepsEndedFlag ==
    /\ ~isClosed /\ isAutoCommit /\ lastTx < MaxTx
    /\ lastTx' = lastTx + 1
    /\ txState' = [txState EXCEPT ![lastTx + 1] = "active"]
    /\ isAutoCommit' = FALSE
    /\ tx' = lastTx + 1
    /\ UNCHANGED <<isClosed, isCommitedOrRollbacked, lastClosure, history, loads, hookFailed>>

\* What Begin and BeginTx assign when the database begins transaction lastTx + 1.
EnterTx ==
    /\ ~isClosed /\ isAutoCommit /\ lastTx < MaxTx
    /\ lastTx' = lastTx + 1
    /\ txState' = [txState EXCEPT ![lastTx + 1] = "active"]
    /\ isAutoCommit' = FALSE
    /\ isCommitedOrRollbacked' = FALSE
    /\ tx' = lastTx + 1
    /\ UNCHANGED <<isClosed, lastClosure, history, loads, hookFailed>>

\* Begin and BeginTx; inside a transaction they do nothing.
Begin ==
    /\ EnterTx
    /\ UNCHANGED <<txStmtCache, pending>>

\* core.DB.BeginTx: the database began the transaction and then AfterProcess of
\* a hook reports an error; the *sql.Tx is dropped.
BeginHookFails ==
    /\ "hook" \in Faults
    /\ ~isClosed /\ isAutoCommit /\ lastTx < MaxTx
    /\ lastTx' = lastTx + 1
    /\ txState' = [txState EXCEPT ![lastTx + 1] = "active"]
    /\ hookFailed' = TRUE
    /\ UNCHANGED <<flags, txStmtCache, pending, lastClosure, history, loads>>

\* The flags Commit and Rollback set before they call the driver.
LeaveTx ==
    /\ InTx /\ ~isCommitedOrRollbacked
    /\ isCommitedOrRollbacked' = TRUE
    /\ isAutoCommit' = TRUE

DeferredWriters ==
    {t \in Tx \cup {NoTx} : \E k \in Kind : \E b \in afterBeans[k] \cap Processor :
                                writer[k][b] = t}

\* The calls made by the loops over the after*Beans maps.
RunDeferred(t) ==
    /\ fired' = [k \in Kind |-> [b \in Bean |-> [c \in Closure |->
                    fired[k][b][c] + (IF c \in afterFuncs[k][b] THEN 1 ELSE 0)]]]
    /\ processed' = [processed EXCEPT ![t] = DeferredWriters]

ClearDeferredKeepsFuncs ==
    /\ afterBeans' = EmptyBeans
    /\ writer' = NoWriter
    /\ UNCHANGED afterFuncs

ClearDeferred ==
    /\ afterBeans' = EmptyBeans
    /\ afterFuncs' = EmptyFuncs
    /\ writer' = NoWriter

Commit ==
    /\ ~isClosed /\ LeaveTx /\ Active(tx)
    /\ txState' = [txState EXCEPT ![tx] = "committed"]
    /\ RunDeferred(tx)
    /\ ClearDeferred
    /\ UNCHANGED <<isClosed, tx, txStmtCache, afterClosures, lastTx, lastClosure,
                   owner, loads, hookFailed>>

\* The states an open transaction may be in when Commit returns an error: committed
\* or rolled back, when the driver fails; still open, when BeforeProcess of a hook
\* fails; committed, when AfterProcess does.
FailedOutcomes ==
    (IF "commit" \in Faults THEN {"committed", "rolledback"} ELSE {})
    \cup (IF "hook" \in Faults THEN {"active", "committed"} ELSE {})

\* Commit returns an error and transaction t is left as o.
FailsWith(t, o) ==
    /\ o \in FailedOutcomes
    /\ txState' = [txState EXCEPT ![t] = o]
    /\ hookFailed' = (hookFailed \/ o = "active")

CommitFails ==
    /\ ~isClosed /\ LeaveTx
    /\ IF Active(tx)
       THEN \E o \in FailedOutcomes : FailsWith(tx, o)
       ELSE UNCHANGED <<txState, hookFailed>>
    /\ UNCHANGED <<isClosed, tx, txStmtCache, pending, lastTx, lastClosure, history, loads>>

DbRollbackForgotten == UNCHANGED txState

DbRollback == txState' = IF Active(tx) THEN [txState EXCEPT ![tx] = "rolledback"]
                                       ELSE txState

\* Rollback, whatever it returns: database/sql ends the transaction even when the
\* driver or AfterProcess of a hook reports an error.  The deferred hooks stay.
Rollback ==
    /\ ~isClosed /\ LeaveTx
    /\ DbRollback
    /\ UNCHANGED <<isClosed, tx, txStmtCache, pending, lastTx, lastClosure, history, loads,
                   hookFailed>>

\* core.Tx.Rollback: BeforeProcess of a hook fails, the database is not called.
RollbackHookFails ==
    /\ "hook" \in Faults
    /\ ~isClosed /\ LeaveTx
    /\ hookFailed' = TRUE
    /\ UNCHANGED <<isClosed, tx, txStmtCache, pending, txState, lastTx, lastClosure,
                   history, loads>>

CloseMustRollbackEnded == tx # NoTx /\ isCommitedOrRollbacked
CloseMustRollback == tx # NoTx /\ ~isCommitedOrRollbacked

\* Rollback called by Close: it does nothing when its own test fails.
RollbackCall ==
    IF InTx /\ ~isCommitedOrRollbacked
    THEN LeaveTx /\ DbRollback
    ELSE UNCHANGED <<isCommitedOrRollbacked, isAutoCommit, txState>>

CloseRefusesOpenTx ==
    /\ ~isClosed /\ ~CloseMustRollback
    /\ tx' = NoTx
    /\ txStmtCache' = [q \in Query |-> NoTx]
    /\ isClosed' = TRUE
    /\ UNCHANGED <<isCommitedOrRollbacked, isAutoCommit, txState, pending, lastTx,
                   lastClosure, history, loads, hookFailed>>

\* Close returning nil.  Calling it again changes nothing.
Close ==
    /\ ~isClosed
    /\ IF CloseMustRollback
       THEN RollbackCall
       ELSE UNCHANGED <<isCommitedOrRollbacked, isAutoCommit, txState>>
    /\ tx' = NoTx
    /\ txStmtCache' = [q \in Query |-> NoTx]
    /\ isClosed' = TRUE
    /\ UNCHANGED <<pending, lastTx, lastClosure, history, loads, hookFailed>>

\* Close returning the error of its Rollback: the session is not closed.  (The
\* error of a prepared statement's Close returns earlier and changes nothing.)
CloseFails ==
    /\ ~isClosed /\ CloseMustRollback /\ LeaveTx
    /\ \/ {"rollback", "hook"} \cap Faults # {} /\ DbRollback /\ UNCHANGED hookFailed
       \/ "hook" \in Faults /\ UNCHANGED txState /\ hookFailed' = TRUE
    /\ UNCHANGED <<isClosed, tx, txStmtCache, pending, lastTx, lastClosure, history, loads>>

\* External: the database ends a transaction by itself.
DbAbort ==
    /\ "abort" \in Faults
    /\ \E t \in Tx : Active(t) /\ txState' = [txState EXCEPT ![t] = "rolledback"]
    /\ UNCHANGED <<flags, txStmtCache, pending, lastTx, lastClosure, history, loads, hookFailed>>

----------------------------------------------------------------------------
(* Reads and writes *)

RunsInDb(q, prepare) == IF isAutoCommit \/ prepare THEN NoTx ELSE tx

\* The transaction a statement runs in: doPrepareTx returns a cached statement,
\* which stays bound to the transaction it was prepared in.
RunsIn(q, prepare) ==
    IF isAutoCommit THEN NoTx
    ELSE IF prepare /\ txStmtCache[q] # NoTx THEN txStmtCache[q]
    ELSE tx

\* Otherwise the statement returns sql.ErrTxDone.
CanRun(q, prepare) == RunsIn(q, prepare) = NoTx \/ Active(RunsIn(q, prepare))

\* doPrepareTx keeps what it prepared; preparing in a finished transaction fails.
Prepared(q, prepare) ==
    txStmtCache' = IF InTx /\ prepare /\ txStmtCache[q] = NoTx /\ Active(tx)
                   THEN [txStmtCache EXCEPT ![q] = tx]
                   ELSE txStmtCache

After ==
    /\ ~isClosed /\ lastClosure < MaxClosures
    /\ lastClosure' = lastClosure + 1
    /\ afterClosures' = afterClosures \cup {lastClosure + 1}
    /\ UNCHANGED <<flags, txStmtCache, afterBeans, afterFuncs, txState, lastTx,
                   history, loads, hookFailed>>

\* In autocommit mode the closures and processors of a write run at once.
RunHooksNow(k, B, C) ==
    /\ fired' = [j \in Kind |-> [b \in Bean |-> [c \in Closure |->
                    fired[j][b][c] + (IF j = k /\ b \in B /\ c \in C THEN 1 ELSE 0)]]]
    /\ UNCHANGED <<afterBeans, afterFuncs, writer, processed>>

\* In a transaction they go into after*Beans: closures are appended, and a write
\* without closures of a bean with a processor stores nil over what was there.
DeferHooks(k, B, C, t) ==
    LET added == IF C # {} THEN B ELSE B \cap Processor IN
    /\ afterBeans' = [afterBeans EXCEPT ![k] = @ \cup added]
    /\ afterFuncs' = [afterFuncs EXCEPT ![k] =
            [b \in Bean |-> IF b \notin added THEN @[b]
                            ELSE IF C # {} THEN @[b] \cup C ELSE {}]]
    /\ writer' = [writer EXCEPT ![k] = [b \in Bean |-> IF b \in added THEN t ELSE @[b]]]
    /\ UNCHANGED <<fired, processed>>

HandleAfterAtOnce(k, B, C, t) == RunHooksNow(k, B, C)
HandleAfter(k, B, C, t) ==
    IF isAutoCommit THEN RunHooksNow(k, B, C) ELSE DeferHooks(k, B, C, t)

\* The closures a write takes: soft deletion adds one of its own, which sets the
\* bean's deleted time.
Taken(soft) == afterClosures \cup (IF soft THEN {lastClosure + 1} ELSE {})

WriteKeepsClosures(k, B, q, prepare, soft) ==
    /\ ~isClosed /\ CanRun(q, prepare)
    /\ B # {} /\ (k # "insert" => Cardinality(B) = 1)
    /\ soft => k = "delete" /\ lastClosure < MaxClosures
    /\ Prepared(q, prepare)
    /\ HandleAfter(k, B, Taken(soft), RunsIn(q, prepare))
    /\ lastClosure' = IF soft THEN lastClosure + 1 ELSE lastClosure
    /\ owner' = [c \in Closure |->
                    IF c \in Taken(soft) THEN RunsIn(q, prepare) ELSE owner[c]]
    /\ UNCHANGED <<flags, afterClosures, txState, lastTx, loads, hookFailed>>

\* Insert of one bean or of a slice, Update and Delete of one bean, when exec
\* succeeds.
Write(k, B, q, prepare, soft) ==
    /\ ~isClosed /\ CanRun(q, prepare)
    /\ B # {} /\ (k # "insert" => Cardinality(B) = 1)
    /\ soft => k = "delete" /\ lastClosure < MaxClosures
    /\ Prepared(q, prepare)
    /\ HandleAfter(k, B, Taken(soft), RunsIn(q, prepare))
    /\ afterClosures' = {}
    /\ lastClosure' = IF soft THEN lastClosure + 1 ELSE lastClosure
    /\ owner' = [c \in Closure |->
                    IF c \in Taken(soft) THEN RunsIn(q, prepare) ELSE owner[c]]
    /\ UNCHANGED <<flags, txState, lastTx, loads, hookFailed>>

\* exec reports an error, of the database or ErrTxDone: the closures are dropped.
WriteFails(q, prepare) ==
    /\ ~isClosed
    /\ Prepared(q, prepare) \/ UNCHANGED txStmtCache
    /\ afterClosures' = {}
    /\ UNCHANGED <<flags, afterBeans, afterFuncs, txState, lastTx, lastClosure,
                   history, loads, hookFailed>>

\* queryRows: a read inside a transaction may cache a statement.  This one loads no
\* bean: it finds nothing, counts, or fails before the first row.
Read(q, prepare) ==
    /\ ~isClosed /\ Prepared(q, prepare)
    /\ UNCHANGED <<flags, pending, txState, lastTx, lastClosure, history, loads, hookFailed>>

\* The queue after buildAfterProcessors has queued every closure for a loaded bean.
Queued == afterProcessors \cup afterClosures

\* A read that loads beans (found) or a Find of none: executeProcessors runs what
\* slice2Bean queued, the closures given to After once for each bean, behind what a
\* failed read left in the queue.  The closures stay with After.
Load(q, prepare, found) ==
    /\ ~isClosed /\ CanRun(q, prepare) /\ Prepared(q, prepare)
    /\ loaded' = loaded \cup (IF found THEN Queued ELSE afterProcessors)
    /\ afterProcessors' = {}
    /\ UNCHANGED <<flags, pending, txState, lastTx, lastClosure, history,
                   hookFailed>>

\* A row that cannot be scanned ends the read after slice2Bean has queued closures:
\* nothing runs and the queue stays.
LoadFails(q, prepare) ==
    /\ ~isClosed /\ CanRun(q, prepare) /\ Prepared(q, prepare)
    /\ afterProcessors' = Queued
    /\ UNCHANGED <<flags, pending, txState, lastTx, lastClosure, history, loaded,
                   hookFailed>>

----------------------------------------------------------------------------
(* insertStruct with an auto-increment key on ORACLE and DAMENG wraps exec and *)
(* the read of the sequence in a transaction of its own when there is none.    *)

\* The statement of the new transaction; one cached earlier is bound to a finished
\* transaction and fails.
SeqPrepared(q, prepare) ==
    /\ prepare => txStmtCache[q] = NoTx
    /\ txStmtCache' = IF prepare THEN [txStmtCache EXCEPT ![q] = lastTx + 1]
                                 ELSE txStmtCache

\* Begin, exec and Commit all succeed: the hooks deferred earlier run in Commit,
\* then the bean's own run as in autocommit mode.
SeqInsert(b, q, prepare) ==
    /\ SeqDialect
    /\ ~isClosed /\ isAutoCommit /\ lastTx < MaxTx
    /\ SeqPrepared(q, prepare)
    /\ lastTx' = lastTx + 1
    /\ txState' = [txState EXCEPT ![lastTx + 1] = "committed"]
    /\ isCommitedOrRollbacked' = TRUE
    /\ tx' = lastTx + 1
    /\ fired' = [k \in Kind |-> [a \in Bean |-> [c \in Closure |->
                    fired[k][a][c]
                    + (IF c \in afterFuncs[k][a] THEN 1 ELSE 0)
                    + (IF k = "insert" /\ a = b /\ c \in afterClosures
                       THEN 1 ELSE 0)]]]
    /\ processed' = [processed EXCEPT ![lastTx + 1] = DeferredWriters]
    /\ ClearDeferred
    /\ afterClosures' = {}
    /\ owner' = [c \in Closure |-> IF c \in afterClosures THEN lastTx + 1 ELSE owner[c]]
    /\ UNCHANGED <<isAutoCommit, isClosed, lastClosure, loads, hookFailed>>

\* Begin and exec succeed and Commit fails: the session is out of the transaction,
\* the deferred hooks stay and the closures are dropped.
SeqInsertCommitFails(q, prepare) ==
    /\ SeqDialect
    /\ ~isClosed /\ isAutoCommit /\ lastTx < MaxTx
    /\ SeqPrepared(q, prepare)
    /\ lastTx' = lastTx + 1
    /\ \E o \in FailedOutcomes : FailsWith(lastTx + 1, o)
    /\ isCommitedOrRollbacked' = TRUE
    /\ tx' = lastTx + 1
    /\ afterClosures' = {}
    /\ UNCHANGED <<isAutoCommit, isClosed, afterBeans, afterFuncs, lastClosure, history, loads>>

\* exec or the read of the sequence fails: insertStruct returns the error and
\* leaves the session inside the transaction it began.
SeqInsertFails(q, prepare) ==
    /\ SeqDialect
    /\ EnterTx
    /\ \/ SeqPrepared(q, prepare)
       \/ UNCHANGED txStmtCache
    /\ afterClosures' = {}
    /\ UNCHANGED <<afterBeans, afterFuncs>>

----------------------------------------------------------------------------
Next ==
    \/ Begin \/ BeginHookFails
    \/ Commit \/ CommitFails
    \/ Rollback \/ RollbackHookFails
    \/ Close \/ CloseFails
    \/ DbAbort
    \/ After
    \/ \E k \in Kind, B \in SUBSET Bean, q \in Query, prepare, soft \in BOOLEAN :
            Write(k, B, q, prepare, soft)
    \/ \E q \in Query, prepare \in BOOLEAN :
            \/ WriteFails(q, prepare) \/ Read(q, prepare) \/ LoadFails(q, prepare)
            \/ \E found \in BOOLEAN : Load(q, prepare, found)
    \/ \E q \in Query, prepare \in BOOLEAN :
            \/ \E b \in Bean : SeqInsert(b, q, prepare)
            \/ SeqInsertCommitFails(q, prepare)
            \/ SeqInsertFails(q, prepare)

Spec == Init /\ [][Next]_vars

\* The caller defers Close, as the README's transaction example does.
FairSpec == Spec /\ WF_vars(Close)

----------------------------------------------------------------------------
(* Properties *)

\* The test of Close (tx # nil) and the test of Rollback (isAutoCommit) agree on
\* whether a transaction is open, so Close never skips the rollback it announces.
CloseRollsBack == CloseMustRollback <=> InTx

\* No transaction is left open behind the session's back: one the database holds
\* open is the session's current one, and the session knows that it is in it.
\* Commit and Rollback clear the flags before they know whether the call succeeds.
\* (An error of a contexts.Hook after BEGIN or before COMMIT or ROLLBACK is the
\* exception here and in what follows from this.)
NoOrphanTx == ~hookFailed => \A t \in Tx : Active(t) => t = tx /\ InTx

\* Close gives the connection back: a closed session holds no open transaction.
ClosedReleasesTx == isClosed /\ ~hookFailed => \A t \in Tx : ~Active(t)

\* After closures and processors never run for a write whose transaction is still
\* open, whatever sequence of commits, failed commits and rollbacks came before.
HooksAfterTxEnds ==
    ~hookFailed =>
        /\ \A k \in Kind, b \in Bean, c \in Closure : fired[k][b][c] > 0 => ~Active(owner[c])
        /\ \A t \in Tx : \A w \in processed[t] : ~Active(w)

\* The writes and commits run a closure given to After at most once for a bean, and
\* for one kind of write: what Commit ran is not kept for the next transaction of the
\* session.  (Reads made before the write run it too, see ReadsRunPending.)
HooksRunOnce ==
    \A k \in Kind, b \in Bean, c \in Closure :
        /\ fired[k][b][c] <= 1
        /\ fired[k][b][c] = 1 => \A j \in Kind \ {k} : fired[j][b][c] = 0

\* A read runs a closure on the beans it loads only as long as no write has taken the
\* closure: none that has run for a write, or waits for a Commit, runs for a bean
\* loaded later.  What a read that failed halfway left in afterProcessors is the
\* exception: it runs at the end of the next read that gets that far.
ReadsRunPending ==
    [][\A c \in (loaded' \ loaded) \ afterProcessors, k \in Kind, b \in Bean :
            fired[k][b][c] = 0 /\ c \notin afterFuncs[k][b]]_vars

\* A statement that runs inside a transaction runs in the current one.  txStmtCache
\* outlives the transaction, so a Prepare of the next one may return a statement of
\* a transaction that has ended; such a statement never takes effect.
StmtRunsInCurrentTx ==
    InTx /\ ~hookFailed =>
        \A q \in Query, prepare \in BOOLEAN :
            CanRun(q, prepare) => RunsIn(q, prepare) = tx

\* Every transaction ends, when the caller eventually closes the session.
EveryTxEnds == \A t \in Tx : Active(t) ~> ~Active(t) \/ hookFailed

\* What makes the properties above inductive.  Transactions and closures are
\* numbered as they are made, and nothing refers to one that is not made yet.
TxNumbered ==
    /\ \A t \in Tx : t > lastTx => txState[t] = "none"
    /\ tx <= lastTx

RefsNumbered ==
    /\ \A q \in Query : txStmtCache[q] <= lastTx
    /\ \A c \in Closure : owner[c] <= lastTx
    /\ \A k \in Kind, b \in Bean : writer[k][b] <= lastTx
    /\ \A t \in Tx : \A w \in processed[t] : w <= lastTx

ClosuresNumbered ==
    \A c \in Closure : c > lastClosure =>
        /\ c \notin afterClosures
        /\ \A k \in Kind, b \in Bean : c \notin afterFuncs[k][b] /\ fired[k][b][c] = 0

\* A closure is with After, in one map entry per bean, or has run: no two of these.
OnePlace ==
    \A c \in Closure, k \in Kind, b \in Bean :
        /\ c \in afterClosures => c \notin afterFuncs[k][b] /\ fired[k][b][c] = 0
        /\ c \in afterFuncs[k][b] => \A j \in Kind :
              /\ fired[j][b][c] = 0
              /\ j # k => c \notin afterFuncs[j][b]

(* A statement of the repository's comments that the code contradicts *)

\* An After*Processor runs after its bean was persisted: the commit that calls it is
\* that of the transaction that wrote the bean.
ProcessorMeansPersisted == \A t \in Tx : processed[t] \subseteq {t}

============================================================================

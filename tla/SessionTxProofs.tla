-------------------------- MODULE SessionTxProofs --------------------------
(***************************************************************************)
(* Proofs about SessionTx for every set of beans, kinds and SQL texts,     *)
(* every number of transactions and closures, and every set of faults.     *)
(***************************************************************************)
EXTENDS SessionTx, TLAPS

USE BoundsAssumption

\* The types of the variables that only writes and commits change.
HookTypes ==
    /\ afterClosures \subseteq Closure
    /\ afterBeans \in [Kind -> SUBSET Bean]
    /\ afterFuncs \in [Kind -> [Bean -> SUBSET Closure]]
    /\ owner \in [Closure -> Tx \cup {NoTx}]
    /\ fired \in [Kind -> [Bean -> [Closure -> Nat]]]
    /\ writer \in [Kind -> [Bean -> Tx \cup {NoTx}]]
    /\ processed \in [Tx -> SUBSET (Tx \cup {NoTx})]

\* The types of the variables that only reads change.
LoadTypes == afterProcessors \subseteq Closure /\ loaded \subseteq Closure

\* The types of the others.
TxTypes ==
    /\ isAutoCommit \in BOOLEAN /\ isCommitedOrRollbacked \in BOOLEAN
    /\ isClosed \in BOOLEAN
    /\ tx \in Tx \cup {NoTx}
    /\ txStmtCache \in [Query -> Tx \cup {NoTx}]
    /\ txState \in [Tx -> {"none", "active", "committed", "rolledback"}]
    /\ lastTx \in 0..MaxTx /\ lastClosure \in 0..MaxClosures
    /\ hookFailed \in BOOLEAN

\* TypeOK in its three parts.
LEMMA TypeParts == TypeOK <=> TxTypes /\ HookTypes /\ LoadTypes
  BY DEF TypeOK, TxTypes, HookTypes, LoadTypes

\* A new session has its types.
LEMMA InitType == Init => TypeOK
<1> SUFFICES ASSUME Init PROVE TypeOK
  OBVIOUS
<1>1. HookTypes
  BY DEF Init, HookTypes, Tx, NoTx, Closure, EmptyBeans, EmptyFuncs, NoWriter
<1>2. /\ isAutoCommit \in BOOLEAN /\ isCommitedOrRollbacked \in BOOLEAN
      /\ isClosed \in BOOLEAN /\ hookFailed \in BOOLEAN
  BY DEF Init
<1>3. /\ tx \in Tx \cup {NoTx}
      /\ txStmtCache \in [Query -> Tx \cup {NoTx}]
      /\ txState \in [Tx -> {"none", "active", "committed", "rolledback"}]
      /\ lastTx \in 0..MaxTx /\ lastClosure \in 0..MaxClosures
  BY DEF Init, Tx, NoTx
<1>4. LoadTypes
  BY DEF Init, LoadTypes
<1> QED
  BY <1>1, <1>2, <1>3, <1>4, TypeParts DEF TxTypes

\* Deferring hooks keeps the types of the maps.
LEMMA DeferTypes ==
  ASSUME HookTypes, NEW k \in Kind, NEW B \in SUBSET Bean, NEW C \in SUBSET Closure,
         NEW t \in Tx \cup {NoTx}, DeferHooks(k, B, C, t)
  PROVE  /\ afterBeans' \in [Kind -> SUBSET Bean]
         /\ afterFuncs' \in [Kind -> [Bean -> SUBSET Closure]]
         /\ writer' \in [Kind -> [Bean -> Tx \cup {NoTx}]]
<1> DEFINE added == IF C # {} THEN B ELSE B \cap Processor
           funcs == [b \in Bean |-> IF b \notin added THEN afterFuncs[k][b]
                                    ELSE IF C # {} THEN afterFuncs[k][b] \cup C ELSE {}]
           wr == [b \in Bean |-> IF b \in added THEN t ELSE writer[k][b]]
<1>1. added \subseteq Bean
  OBVIOUS
<1>2. afterBeans' = [afterBeans EXCEPT ![k] = @ \cup added]
  BY DEF DeferHooks
<1>3. afterFuncs' = [afterFuncs EXCEPT ![k] = funcs]
  BY DEF DeferHooks
<1>4. writer' = [writer EXCEPT ![k] = wr]
  BY DEF DeferHooks
<1>5. funcs \in [Bean -> SUBSET Closure]
  BY DEF HookTypes
<1>6. wr \in [Bean -> Tx \cup {NoTx}]
  BY DEF HookTypes
<1> HIDE DEF added, funcs, wr
<1> QED
  BY <1>1, <1>2, <1>3, <1>4, <1>5, <1>6 DEF HookTypes

\* The three outcomes of a read.
AnyRead(q, prepare) ==
    \/ Read(q, prepare) \/ LoadFails(q, prepare)
    \/ \E found \in BOOLEAN : Load(q, prepare, found)

\* Every call and failure keeps the types of flags and transactions.
LEMMA StepTxTypes ==
  ASSUME TypeOK, [Next]_vars
  PROVE  TxTypes'
<1> USE TypeParts DEF TxTypes, Tx, NoTx, InTx
<1>1. CASE Begin
  <2>1. /\ isAutoCommit' \in BOOLEAN /\ isCommitedOrRollbacked' \in BOOLEAN
        /\ isClosed' \in BOOLEAN
    BY <1>1 DEF Begin, EnterTx
  <2> QED
    BY <1>1, <2>1 DEF Begin, EnterTx
<1>2. CASE BeginHookFails
  BY <1>2 DEF BeginHookFails, flags
<1>3. CASE Commit
  BY <1>3 DEF Commit, LeaveTx
<1>4. CASE CommitFails
  BY <1>4 DEF CommitFails, FailsWith, LeaveTx, FailedOutcomes, Active
<1>5. CASE Rollback
  BY <1>5 DEF Rollback, LeaveTx, DbRollback, Active
<1>6. CASE RollbackHookFails
  BY <1>6 DEF RollbackHookFails, LeaveTx
<1>7. CASE Close
  BY <1>7 DEF Close, CloseMustRollback, RollbackCall, LeaveTx, DbRollback, Active
<1>8. CASE CloseFails
  BY <1>8 DEF CloseFails, LeaveTx, DbRollback, Active
<1>9. CASE DbAbort
  BY <1>9 DEF DbAbort, flags
<1>10. CASE After
  BY <1>10 DEF After, flags
<1>11. ASSUME NEW k \in Kind, NEW B \in SUBSET Bean, NEW q \in Query,
              NEW prepare \in BOOLEAN, NEW soft \in BOOLEAN,
              Write(k, B, q, prepare, soft)
       PROVE  TxTypes'
  BY <1>11 DEF Write, Prepared, flags
<1>12. ASSUME NEW q \in Query, NEW prepare \in BOOLEAN,
              WriteFails(q, prepare) \/ AnyRead(q, prepare)
       PROVE  TxTypes'
  BY <1>12 DEF WriteFails, AnyRead, Read, LoadFails, Load, Prepared, flags
<1>13. ASSUME NEW q \in Query, NEW prepare \in BOOLEAN, NEW b \in Bean,
              SeqInsert(b, q, prepare)
       PROVE  TxTypes'
  BY <1>13 DEF SeqInsert, SeqPrepared
<1>14. ASSUME NEW q \in Query, NEW prepare \in BOOLEAN,
              SeqInsertCommitFails(q, prepare)
       PROVE  TxTypes'
  BY <1>14 DEF SeqInsertCommitFails, FailsWith, SeqPrepared, FailedOutcomes
<1>15. ASSUME NEW q \in Query, NEW prepare \in BOOLEAN, SeqInsertFails(q, prepare)
       PROVE  TxTypes'
  <2>1. /\ isAutoCommit' \in BOOLEAN /\ isCommitedOrRollbacked' \in BOOLEAN
        /\ isClosed' \in BOOLEAN
    BY <1>15 DEF SeqInsertFails, EnterTx
  <2>2. txStmtCache' \in [Query -> Tx \cup {NoTx}]
    BY <1>15 DEF SeqInsertFails, EnterTx, SeqPrepared
  <2> QED
    BY <1>15, <2>1, <2>2 DEF SeqInsertFails, EnterTx
<1>16. CASE UNCHANGED vars
  BY <1>16 DEF vars, flags
<1> HIDE DEF TxTypes
<1> QED
  BY <1>1, <1>2, <1>3, <1>4, <1>5, <1>6, <1>7, <1>8, <1>9, <1>10, <1>11, <1>12, <1>13,
     <1>14, <1>15, <1>16 DEF Next, AnyRead

\* Every call and failure keeps the types of the hooks and the history.
LEMMA StepHookTypes ==
  ASSUME TypeOK, [Next]_vars
  PROVE  HookTypes'
<1> USE TypeParts
<1>0. HookTypes /\ TxTypes
  OBVIOUS
<1>1. CASE UNCHANGED <<afterClosures, afterBeans, afterFuncs, history>>
  BY <1>0, <1>1 DEF HookTypes, history
<1>2. CASE Commit
  BY <1>0, <1>2 DEF Commit, RunDeferred, DeferredWriters, ClearDeferred, EmptyBeans,
     EmptyFuncs, NoWriter, HookTypes, TxTypes, Tx, NoTx, Active
<1>3. CASE After
  BY <1>0, <1>3 DEF After, HookTypes, TxTypes, history, Closure
<1>4. ASSUME NEW k \in Kind, NEW B \in SUBSET Bean, NEW q \in Query,
             NEW prepare \in BOOLEAN, NEW soft \in BOOLEAN,
             Write(k, B, q, prepare, soft)
      PROVE  HookTypes'
  <2>1. RunsIn(q, prepare) \in Tx \cup {NoTx}
    BY <1>0 DEF RunsIn, TxTypes
  <2>2. Taken(soft) \in SUBSET Closure
    BY <1>0, <1>4 DEF Taken, Write, HookTypes, TxTypes, Closure
  <2>3. owner' \in [Closure -> Tx \cup {NoTx}]
    BY <1>0, <1>4, <2>1 DEF Write, HookTypes
  <2>4. CASE isAutoCommit
    <3>1. RunHooksNow(k, B, Taken(soft))
      BY <1>4, <2>4 DEF Write, HandleAfter
    <3>2. fired' \in [Kind -> [Bean -> [Closure -> Nat]]]
      BY <1>0, <3>1 DEF RunHooksNow, HookTypes
    <3> QED
      BY <1>0, <1>4, <2>3, <3>1, <3>2 DEF Write, RunHooksNow, HookTypes
  <2>5. CASE ~isAutoCommit
    <3>1. DeferHooks(k, B, Taken(soft), RunsIn(q, prepare))
      BY <1>4, <2>5 DEF Write, HandleAfter
    <3>2. fired' = fired /\ processed' = processed
      BY <3>1 DEF DeferHooks
    <3>3. /\ afterBeans' \in [Kind -> SUBSET Bean]
          /\ afterFuncs' \in [Kind -> [Bean -> SUBSET Closure]]
          /\ writer' \in [Kind -> [Bean -> Tx \cup {NoTx}]]
      BY <1>0, <2>1, <2>2, <3>1, DeferTypes
    <3> QED
      BY <1>0, <1>4, <2>3, <3>2, <3>3 DEF Write, HookTypes
  <2> QED
    BY <2>4, <2>5
<1>5. ASSUME NEW q \in Query, NEW prepare \in BOOLEAN, NEW b \in Bean,
             SeqInsert(b, q, prepare)
      PROVE  HookTypes'
  <2>1. lastTx + 1 \in Tx
    BY <1>0, <1>5 DEF SeqInsert, TxTypes, Tx
  <2>2. fired' \in [Kind -> [Bean -> [Closure -> Nat]]]
    BY <1>0, <1>5 DEF SeqInsert, HookTypes
  <2>3. owner' \in [Closure -> Tx \cup {NoTx}]
    BY <1>0, <1>5, <2>1 DEF SeqInsert, HookTypes
  <2>4. processed' \in [Tx -> SUBSET (Tx \cup {NoTx})]
    BY <1>0, <1>5, <2>1 DEF SeqInsert, HookTypes, DeferredWriters
  <2> QED
    BY <1>5, <2>2, <2>3, <2>4 DEF SeqInsert, ClearDeferred, EmptyBeans, EmptyFuncs,
       NoWriter, HookTypes
<1>6. ASSUME NEW q \in Query, NEW prepare \in BOOLEAN,
             \/ WriteFails(q, prepare) \/ AnyRead(q, prepare)
             \/ SeqInsertCommitFails(q, prepare) \/ SeqInsertFails(q, prepare)
      PROVE  HookTypes'
  BY <1>0, <1>6 DEF WriteFails, AnyRead, Read, Load, LoadFails, SeqInsertCommitFails, SeqInsertFails, EnterTx,
     HookTypes, pending, history
<1>7. CASE Begin \/ BeginHookFails \/ CommitFails \/ Rollback \/ RollbackHookFails
           \/ Close \/ CloseFails \/ DbAbort \/ UNCHANGED vars
  BY <1>1, <1>7 DEF Begin, EnterTx, BeginHookFails, CommitFails, Rollback,
     RollbackHookFails, Close, CloseFails, DbAbort, vars, pending
<1> QED
  BY <1>2, <1>3, <1>4, <1>5, <1>6, <1>7 DEF Next, AnyRead

\* Only reads touch what reads queue and run.
LEMMA StepLoads ==
  ASSUME [Next]_vars
  PROVE  UNCHANGED loads \/ \E q \in Query, prepare \in BOOLEAN : AnyRead(q, prepare)
  BY DEF Next, AnyRead, Begin, EnterTx, BeginHookFails, Commit, CommitFails, Rollback,
     RollbackHookFails, Close, CloseFails, DbAbort, After, Write, WriteFails, SeqInsert,
     SeqInsertCommitFails, SeqInsertFails, vars

\* Every call and failure keeps the types of what reads queue and run.
LEMMA StepLoadTypes ==
  ASSUME TypeOK, [Next]_vars
  PROVE  LoadTypes'
<1>1. CASE UNCHANGED loads
  BY <1>1 DEF TypeOK, LoadTypes, loads
<1>2. ASSUME NEW q \in Query, NEW prepare \in BOOLEAN, AnyRead(q, prepare)
      PROVE  LoadTypes'
  BY <1>1, <1>2 DEF TypeOK, LoadTypes, AnyRead, Read, Load, LoadFails, Queued
<1> QED
  BY <1>1, <1>2, StepLoads

\* Every variable of the session, of the database and of the history keeps its type:
\* in particular no call names a transaction that was never begun.
THEOREM TypeCorrect == Spec => []TypeOK
<1>1. TypeOK /\ [Next]_vars => TypeOK'
  BY StepTxTypes, StepHookTypes, StepLoadTypes DEF TypeOK, TxTypes, HookTypes, LoadTypes
<1> QED
  BY InitType, <1>1, PTL DEF Spec

----------------------------------------------------------------------------
(* Close and Rollback agree, and nothing is left open behind the session *)

\* Every call and failure keeps the tests of Close and Rollback in agreement.
LEMMA StepCloseRollsBack ==
  ASSUME TypeOK, CloseRollsBack, [Next]_vars
  PROVE  CloseRollsBack'
<1> USE DEF CloseRollsBack, CloseMustRollback, InTx, NoTx
<1>0. TxTypes
  BY TypeParts
<1>1. CASE Begin
  BY <1>0, <1>1 DEF Begin, EnterTx, TxTypes
<1>2. CASE Commit \/ CommitFails \/ Rollback \/ RollbackHookFails \/ CloseFails
  BY <1>2 DEF Commit, CommitFails, Rollback, RollbackHookFails, CloseFails, LeaveTx
<1>3. CASE Close
  BY <1>0, <1>3 DEF Close, RollbackCall, LeaveTx, TxTypes
<1>4. ASSUME NEW q \in Query, NEW prepare \in BOOLEAN, NEW b \in Bean,
             SeqInsert(b, q, prepare)
      PROVE  CloseRollsBack'
  BY <1>4 DEF SeqInsert
<1>5. ASSUME NEW q \in Query, NEW prepare \in BOOLEAN,
             SeqInsertCommitFails(q, prepare)
      PROVE  CloseRollsBack'
  BY <1>5 DEF SeqInsertCommitFails
<1>6. ASSUME NEW q \in Query, NEW prepare \in BOOLEAN, SeqInsertFails(q, prepare)
      PROVE  CloseRollsBack'
  BY <1>0, <1>6 DEF SeqInsertFails, EnterTx, TxTypes
<1>7. CASE UNCHANGED flags
  BY <1>7 DEF flags
<1>8. ASSUME \/ BeginHookFails \/ DbAbort \/ After \/ UNCHANGED vars
             \/ \E k \in Kind, B \in SUBSET Bean, q \in Query, prepare, soft \in BOOLEAN :
                   Write(k, B, q, prepare, soft)
             \/ \E q \in Query, prepare \in BOOLEAN :
                   WriteFails(q, prepare) \/ AnyRead(q, prepare)
      PROVE  UNCHANGED flags
  BY <1>8 DEF BeginHookFails, DbAbort, After, Write, WriteFails, AnyRead, Read, Load, LoadFails, vars
<1> QED
  BY <1>1, <1>2, <1>3, <1>4, <1>5, <1>6, <1>7, <1>8 DEF Next, AnyRead

\* Transactions stay numbered in the order in which they begin.
LEMMA StepTxNumbered ==
  ASSUME TypeOK, TxNumbered, [Next]_vars
  PROVE  TxNumbered'
<1> USE DEF TxNumbered, Tx, NoTx, Active
<1>0. TxTypes
  BY TypeParts
<1>1. CASE Begin
  BY <1>0, <1>1 DEF Begin, EnterTx, TxTypes
<1>2. CASE BeginHookFails
  BY <1>0, <1>2 DEF BeginHookFails, flags, TxTypes
<1>3. CASE Commit
  BY <1>0, <1>3 DEF Commit, TxTypes
<1>4. CASE CommitFails
  BY <1>0, <1>4 DEF CommitFails, FailsWith, TxTypes
<1>5. CASE Rollback \/ RollbackHookFails
  BY <1>0, <1>5 DEF Rollback, RollbackHookFails, DbRollback, TxTypes
<1>6. CASE Close \/ CloseFails
  BY <1>0, <1>6 DEF Close, CloseFails, RollbackCall, DbRollback, TxTypes
<1>7. CASE DbAbort
  BY <1>0, <1>7 DEF DbAbort, flags, TxTypes
<1>8. ASSUME NEW q \in Query, NEW prepare \in BOOLEAN,
             \/ \E b \in Bean : SeqInsert(b, q, prepare)
             \/ SeqInsertCommitFails(q, prepare)
             \/ SeqInsertFails(q, prepare)
      PROVE  TxNumbered'
  BY <1>0, <1>8 DEF SeqInsert, SeqInsertCommitFails, FailsWith, SeqInsertFails, EnterTx,
     TxTypes
<1>9. ASSUME \/ After \/ UNCHANGED vars
             \/ \E k \in Kind, B \in SUBSET Bean, q \in Query, prepare, soft \in BOOLEAN :
                   Write(k, B, q, prepare, soft)
             \/ \E q \in Query, prepare \in BOOLEAN :
                   WriteFails(q, prepare) \/ AnyRead(q, prepare)
      PROVE  UNCHANGED <<flags, txState, lastTx>>
  BY <1>9 DEF After, Write, WriteFails, AnyRead, Read, Load, LoadFails, vars
<1>10. CASE UNCHANGED <<flags, txState, lastTx>>
  BY <1>10 DEF flags
<1> QED
  BY <1>1, <1>2, <1>3, <1>4, <1>5, <1>6, <1>7, <1>8, <1>9, <1>10 DEF Next, AnyRead

\* That a hook has left a transaction open is not forgotten.
LEMMA HookFailedStays ==
  ASSUME TypeOK, hookFailed, [Next]_vars
  PROVE  hookFailed'
<1>1. CASE Begin \/ Commit \/ Rollback \/ Close \/ DbAbort \/ After \/ UNCHANGED vars
  BY <1>1 DEF Begin, EnterTx, Commit, Rollback, Close, DbAbort, After, vars
<1>2. CASE BeginHookFails \/ CommitFails \/ RollbackHookFails \/ CloseFails
  BY <1>2 DEF BeginHookFails, CommitFails, FailsWith, RollbackHookFails, CloseFails
<1>3. CASE \E k \in Kind, B \in SUBSET Bean, q \in Query, prepare, soft \in BOOLEAN :
              Write(k, B, q, prepare, soft)
  BY <1>3 DEF Write
<1>4. CASE \E q \in Query, prepare \in BOOLEAN :
              WriteFails(q, prepare) \/ AnyRead(q, prepare)
  BY <1>4 DEF WriteFails, AnyRead, Read, Load, LoadFails
<1>5. CASE \E q \in Query, prepare \in BOOLEAN :
              \/ \E b \in Bean : SeqInsert(b, q, prepare)
              \/ SeqInsertCommitFails(q, prepare)
              \/ SeqInsertFails(q, prepare)
  BY <1>5 DEF SeqInsert, SeqInsertCommitFails, FailsWith, SeqInsertFails, EnterTx
<1> QED
  BY <1>1, <1>2, <1>3, <1>4, <1>5 DEF Next, AnyRead

\* Unless a hook fails no call leaves a transaction open behind the session:
\* the one that leaves a transaction ends it, whatever the driver reports.
LEMMA StepNoOrphanTx ==
  ASSUME TypeOK, CloseRollsBack, NoOrphanTx, [Next]_vars
  PROVE  NoOrphanTx'
<1> SUFFICES ASSUME ~hookFailed', ~hookFailed PROVE NoOrphanTx'
  BY HookFailedStays DEF NoOrphanTx
<1> USE DEF NoOrphanTx, InTx, Active, NoTx, Tx
<1>0. TxTypes
  BY TypeParts
<1>1. CASE Begin
  BY <1>0, <1>1 DEF Begin, EnterTx, TxTypes
<1>2. CASE Commit
  BY <1>0, <1>2 DEF Commit, LeaveTx, TxTypes
<1>3. CASE CommitFails
  BY <1>0, <1>3 DEF CommitFails, FailsWith, LeaveTx, FailedOutcomes, TxTypes
<1>4. CASE Rollback
  BY <1>0, <1>4 DEF Rollback, LeaveTx, DbRollback, TxTypes
<1>5. CASE Close
  BY <1>0, <1>5 DEF Close, CloseRollsBack, CloseMustRollback, RollbackCall, LeaveTx,
     DbRollback, TxTypes
<1>6. CASE CloseFails
  BY <1>0, <1>6 DEF CloseFails, LeaveTx, DbRollback, TxTypes
<1>7. CASE DbAbort
  BY <1>0, <1>7 DEF DbAbort, flags, TxTypes
<1>8. ASSUME NEW q \in Query, NEW prepare \in BOOLEAN,
             \/ \E b \in Bean : SeqInsert(b, q, prepare)
             \/ SeqInsertCommitFails(q, prepare)
             \/ SeqInsertFails(q, prepare)
      PROVE  NoOrphanTx'
  BY <1>0, <1>8 DEF SeqInsert, SeqInsertCommitFails, FailsWith, SeqInsertFails, EnterTx,
     FailedOutcomes, TxTypes
<1>9. ASSUME \/ After \/ UNCHANGED vars
             \/ \E k \in Kind, B \in SUBSET Bean, q \in Query, prepare, soft \in BOOLEAN :
                   Write(k, B, q, prepare, soft)
             \/ \E q \in Query, prepare \in BOOLEAN :
                   WriteFails(q, prepare) \/ AnyRead(q, prepare)
      PROVE  UNCHANGED <<flags, txState>>
  BY <1>9 DEF After, Write, WriteFails, AnyRead, Read, Load, LoadFails, vars
<1>10. CASE UNCHANGED <<flags, txState>>
  BY <1>10 DEF flags
<1> QED
  BY <1>1, <1>2, <1>3, <1>4, <1>5, <1>6, <1>7, <1>8, <1>9, <1>10
     DEF Next, AnyRead, BeginHookFails, RollbackHookFails

\* The test Close makes before it calls Rollback and the test Rollback makes before it
\* calls the database agree in every reachable state, whatever fails.
THEOREM CloseAlwaysRollsBack == Spec => []CloseRollsBack
<1>1. Init => CloseRollsBack
  BY DEF Init, CloseRollsBack, CloseMustRollback, InTx
<1>2. TypeOK /\ CloseRollsBack /\ [Next]_vars => CloseRollsBack'
  BY StepCloseRollsBack
<1> QED
  BY <1>1, <1>2, TypeCorrect, PTL DEF Spec

\* As long as no hook of the engine leaves one open, every open transaction is the
\* session's current one: failed commits, failed rollbacks and aborts leave none behind.
THEOREM NoOrphans == Spec => []NoOrphanTx
<1>1. Init => NoOrphanTx
  BY DEF Init, NoOrphanTx, Active
<1>2. TypeOK /\ CloseRollsBack /\ NoOrphanTx /\ [Next]_vars => NoOrphanTx'
  BY StepNoOrphanTx
<1> QED
  BY <1>1, <1>2, TypeCorrect, CloseAlwaysRollsBack, PTL DEF Spec

\* So a closed session holds no open transaction.
THEOREM ClosedReleases == Spec => []ClosedReleasesTx
<1> DEFINE ClosedNil == isClosed => tx = NoTx
<1>1. Init => ClosedNil
  BY DEF Init
<1>2. ClosedNil /\ [Next]_vars => ClosedNil'
  BY DEF Next, Begin, EnterTx, BeginHookFails, Commit, CommitFails, Rollback,
     RollbackHookFails, Close, CloseFails, DbAbort, After, Write, WriteFails, AnyRead, Read, Load, LoadFails,
     SeqInsert, SeqInsertCommitFails, SeqInsertFails, vars, flags
<1>3. ClosedNil /\ NoOrphanTx => ClosedReleasesTx
  BY DEF NoOrphanTx, ClosedReleasesTx, NoTx, Tx
<1> QED
  BY <1>1, <1>2, <1>3, NoOrphans, PTL DEF Spec

----------------------------------------------------------------------------
(* A closure runs at most once *)

\* The closures a write takes have not run and are in no map.
LEMMA TakenFresh ==
  ASSUME TypeOK, OnePlace, ClosuresNumbered, NEW soft \in BOOLEAN,
         soft => lastClosure < MaxClosures,
         NEW c \in Taken(soft), NEW k \in Kind, NEW b \in Bean
  PROVE  /\ c \in Closure
         /\ c <= lastClosure + 1
         /\ ~soft => c <= lastClosure
         /\ c \notin afterFuncs[k][b]
         /\ fired[k][b][c] = 0
<1>1. CASE c \in afterClosures
  BY <1>1 DEF TypeOK, OnePlace, ClosuresNumbered, Closure
<1>2. CASE soft /\ c = lastClosure + 1
  BY <1>2 DEF TypeOK, ClosuresNumbered, Closure
<1> QED
  BY <1>1, <1>2 DEF Taken

\* What deferring puts into the maps: at most the closures taken, under the write's
\* kind and beans.
LEMMA DeferFuncs ==
  ASSUME TypeOK, NEW k \in Kind, NEW B \in SUBSET Bean,
         NEW C \in SUBSET Closure, NEW t \in Tx \cup {NoTx},
         DeferHooks(k, B, C, t)
  PROVE  \A j \in Kind, b \in Bean :
            /\ \A c \in afterFuncs'[j][b] :
                  c \in afterFuncs[j][b] \/ (j = k /\ b \in B /\ c \in C)
            /\ writer'[j][b] \in {writer[j][b], t}
<1> DEFINE added == IF C # {} THEN B ELSE B \cap Processor
           funcs == [a \in Bean |-> IF a \notin added THEN afterFuncs[k][a]
                                    ELSE IF C # {} THEN afterFuncs[k][a] \cup C ELSE {}]
           wr == [a \in Bean |-> IF a \in added THEN t ELSE writer[k][a]]
<1>1. afterFuncs' = [afterFuncs EXCEPT ![k] = funcs]
  BY DEF DeferHooks
<1>2. writer' = [writer EXCEPT ![k] = wr]
  BY DEF DeferHooks
<1>3. \A b \in Bean : \A c \in funcs[b] : c \in afterFuncs[k][b] \/ (b \in B /\ c \in C)
  OBVIOUS
<1>4. \A b \in Bean : wr[b] \in {writer[k][b], t}
  OBVIOUS
<1> HIDE DEF funcs, wr
<1> QED
  BY <1>1, <1>2, <1>3, <1>4 DEF TypeOK

OnceInv == OnePlace /\ ClosuresNumbered /\ HooksRunOnce

\* Every call and failure keeps a closure in one place and its count at most 1.
LEMMA StepOnce ==
  ASSUME TypeOK, OnceInv, [Next]_vars
  PROVE  OnceInv'
<1> USE DEF OnceInv
<1>1. CASE UNCHANGED <<afterFuncs, fired, lastClosure>> /\ afterClosures' \subseteq afterClosures
  BY <1>1 DEF OnePlace, ClosuresNumbered, HooksRunOnce
<1>2. CASE After
  <2>1. OnePlace'
    BY <1>2 DEF After, history, TypeOK, Closure, OnePlace, ClosuresNumbered
  <2> QED
    BY <1>2, <2>1 DEF After, history, TypeOK, Closure, ClosuresNumbered, HooksRunOnce
<1>3. CASE Commit
  <2>1. /\ afterFuncs' = EmptyFuncs /\ UNCHANGED <<afterClosures, lastClosure>>
        /\ fired' = [k \in Kind |-> [b \in Bean |-> [c \in Closure |->
                       fired[k][b][c] + (IF c \in afterFuncs[k][b] THEN 1 ELSE 0)]]]
    BY <1>3 DEF Commit, RunDeferred, ClearDeferred
  <2>2. OnePlace' /\ ClosuresNumbered'
    BY <2>1 DEF OnePlace, ClosuresNumbered, EmptyFuncs, TypeOK
  <2>3. HooksRunOnce'
    BY <2>1 DEF HooksRunOnce, OnePlace, TypeOK
  <2> QED
    BY <2>2, <2>3
<1>4. ASSUME NEW k \in Kind, NEW B \in SUBSET Bean, NEW q \in Query,
             NEW prepare \in BOOLEAN, NEW soft \in BOOLEAN,
             Write(k, B, q, prepare, soft)
      PROVE  OnceInv'
  <2>0. /\ soft => lastClosure < MaxClosures
        /\ afterClosures' = {}
        /\ lastClosure' = IF soft THEN lastClosure + 1 ELSE lastClosure
        /\ lastClosure \in Nat
    BY <1>4 DEF Write, TypeOK
  <2>1. \A c \in Taken(soft), j \in Kind, b \in Bean :
            /\ c \in Closure /\ c <= lastClosure + 1 /\ (~soft => c <= lastClosure)
            /\ c \notin afterFuncs[j][b] /\ fired[j][b][c] = 0
    BY <2>0, TakenFresh
  <2>2. CASE isAutoCommit
    <3>1. /\ UNCHANGED afterFuncs
          /\ fired' = [j \in Kind |-> [b \in Bean |-> [c \in Closure |-> fired[j][b][c]
                         + (IF j = k /\ b \in B /\ c \in Taken(soft) THEN 1 ELSE 0)]]]
      BY <1>4, <2>2 DEF Write, HandleAfter, RunHooksNow
    <3>2. OnePlace'
      BY <2>0, <2>1, <3>1 DEF OnePlace, TypeOK
    <3>3. HooksRunOnce'
      BY <2>1, <3>1 DEF HooksRunOnce, TypeOK
    <3>4. ASSUME NEW c \in Closure, c > lastClosure', NEW j \in Kind, NEW b \in Bean
          PROVE  c \notin afterFuncs'[j][b] /\ fired'[j][b][c] = 0
      <4>1. c > lastClosure /\ c \notin Taken(soft)
        BY <2>0, <2>1, <3>4 DEF Closure
      <4>2. c \notin afterFuncs[j][b] /\ fired[j][b][c] = 0
        BY <3>4, <4>1 DEF ClosuresNumbered
      <4> QED
        BY <3>1, <4>1, <4>2
    <3> QED
      BY <2>0, <3>2, <3>3, <3>4 DEF ClosuresNumbered
  <2>3. CASE ~isAutoCommit
    <3>1. DeferHooks(k, B, Taken(soft), RunsIn(q, prepare))
      BY <1>4, <2>3 DEF Write, HandleAfter
    <3>2. \A j \in Kind, b \in Bean : \A c \in afterFuncs'[j][b] :
             c \in afterFuncs[j][b] \/ (j = k /\ b \in B /\ c \in Taken(soft))
      <4>1. Taken(soft) \in SUBSET Closure
        BY <2>0 DEF Taken, TypeOK, Closure
      <4>2. RunsIn(q, prepare) \in Tx \cup {NoTx}
        BY DEF RunsIn, TypeOK
      <4> QED
        BY <3>1, <4>1, <4>2, DeferFuncs
    <3>3. UNCHANGED fired
      BY <3>1 DEF DeferHooks
    <3>4. OnePlace'
      BY <2>0, <2>1, <3>2, <3>3 DEF OnePlace
    <3>5. ClosuresNumbered'
      BY <2>0, <2>1, <3>2, <3>3 DEF ClosuresNumbered, Closure
    <3> QED
      BY <3>3, <3>4, <3>5 DEF HooksRunOnce
  <2> QED
    BY <2>2, <2>3
<1>5. ASSUME NEW q \in Query, NEW prepare \in BOOLEAN, NEW b \in Bean,
             SeqInsert(b, q, prepare)
      PROVE  OnceInv'
  <2>1. /\ afterFuncs' = EmptyFuncs /\ afterClosures' = {} /\ UNCHANGED lastClosure
        /\ fired' = [k \in Kind |-> [a \in Bean |-> [c \in Closure |->
                       fired[k][a][c]
                       + (IF c \in afterFuncs[k][a] THEN 1 ELSE 0)
                       + (IF k = "insert" /\ a = b /\ c \in afterClosures
                          THEN 1 ELSE 0)]]]
    BY <1>5 DEF SeqInsert, ClearDeferred
  <2>2. OnePlace' /\ ClosuresNumbered'
    BY <2>1 DEF OnePlace, ClosuresNumbered, EmptyFuncs, TypeOK
  <2>3. HooksRunOnce'
    BY <2>1 DEF HooksRunOnce, OnePlace, TypeOK
  <2> QED
    BY <2>2, <2>3
<1>6. ASSUME \/ \E q \in Query, prepare \in BOOLEAN :
                   \/ WriteFails(q, prepare) \/ AnyRead(q, prepare)
                   \/ SeqInsertCommitFails(q, prepare) \/ SeqInsertFails(q, prepare)
             \/ Begin \/ BeginHookFails \/ CommitFails \/ Rollback \/ RollbackHookFails
             \/ Close \/ CloseFails \/ DbAbort \/ UNCHANGED vars
      PROVE  UNCHANGED <<afterFuncs, fired, lastClosure>> /\ afterClosures' \subseteq afterClosures
  BY <1>6 DEF WriteFails, AnyRead, Read, Load, LoadFails, SeqInsertCommitFails, SeqInsertFails, EnterTx, Begin,
     BeginHookFails, CommitFails, Rollback, RollbackHookFails, Close, CloseFails, DbAbort,
     vars, pending, history
<1> HIDE DEF OnceInv
<1> QED
  BY <1>1, <1>2, <1>3, <1>4, <1>5, <1>6 DEF Next, AnyRead

\* Writes and commits run a closure given to After at most once for a bean, in any
\* number of transactions of the session, whatever commit, rollback or hook fails, and
\* whatever reads run it before.
THEOREM ClosuresRunOnce == Spec => []HooksRunOnce
<1>1. Init => OnceInv
  BY DEF Init, OnceInv, OnePlace, ClosuresNumbered, HooksRunOnce, EmptyFuncs
<1>2. TypeOK /\ OnceInv /\ [Next]_vars => OnceInv'
  BY StepOnce
<1>3. OnceInv => HooksRunOnce
  BY DEF OnceInv
<1> QED
  BY <1>1, <1>2, <1>3, TypeCorrect, PTL DEF Spec

\* A closure a write has taken runs for no bean loaded later, except from the queue
\* that a failed read left: what a read runs besides that queue is still with After.
THEOREM ReadsRunOnlyPending == Spec => ReadsRunPending
<1>1. Init => OnceInv
  BY DEF Init, OnceInv, OnePlace, ClosuresNumbered, HooksRunOnce, EmptyFuncs
<1>2. TypeOK /\ OnceInv /\ [Next]_vars => OnceInv'
  BY StepOnce
<1>3. ASSUME TypeOK, OnceInv, [Next]_vars,
             NEW c \in (loaded' \ loaded) \ afterProcessors, NEW k \in Kind, NEW b \in Bean
      PROVE  fired[k][b][c] = 0 /\ c \notin afterFuncs[k][b]
  <2>1. UNCHANGED loads \/ \E q \in Query, prepare \in BOOLEAN : AnyRead(q, prepare)
    BY <1>3, StepLoads
  <2>2. c \in afterClosures
    BY <1>3, <2>1 DEF AnyRead, Read, Load, LoadFails, Queued, loads
  <2> QED
    BY <1>3, <2>2 DEF TypeOK, OnceInv, OnePlace
<1>4. TypeOK /\ OnceInv /\ [Next]_vars =>
          [\A c \in (loaded' \ loaded) \ afterProcessors, k \in Kind, b \in Bean :
              fired[k][b][c] = 0 /\ c \notin afterFuncs[k][b]]_vars
  BY <1>3
<1> QED
  BY <1>1, <1>2, <1>4, TypeCorrect, PTL DEF Spec, ReadsRunPending

----------------------------------------------------------------------------
(* Hooks never run while the transaction of their write is open *)

\* What refers to a transaction is a number.
LEMMA RefsNat ==
  ASSUME TypeOK
  PROVE  /\ \A q \in Query : txStmtCache[q] \in Nat
         /\ \A c \in Closure : owner[c] \in Nat
         /\ \A k \in Kind, b \in Bean : writer[k][b] \in Nat
         /\ \A t \in Tx : \A w \in processed[t] : w \in Nat
<1> USE DEF TypeOK, Tx, NoTx
<1>1. \A w \in Tx \cup {NoTx} : w \in Nat
  OBVIOUS
<1>2. \A k \in Kind, b \in Bean : writer[k][b] \in Tx \cup {NoTx}
  OBVIOUS
<1>3. \A t \in Tx : \A w \in processed[t] : w \in Tx \cup {NoTx}
  OBVIOUS
<1> QED
  BY <1>1, <1>2, <1>3

\* Nothing comes to refer to a transaction that has not begun.
LEMMA StepRefsNumbered ==
  ASSUME TypeOK, TxNumbered, RefsNumbered, [Next]_vars
  PROVE  RefsNumbered'
<1> USE DEF TypeOK, Tx, NoTx
<1>0. lastTx \in Nat /\ tx <= lastTx
  BY DEF TxNumbered
<1>1. CASE UNCHANGED <<txStmtCache, history>> /\ lastTx' >= lastTx /\ lastTx' \in Nat
  BY <1>0, <1>1, RefsNat DEF RefsNumbered, history
<1>2. CASE Close
  BY <1>2 DEF Close, RefsNumbered, history
<1>3. CASE Commit
  BY <1>3 DEF Commit, RunDeferred, ClearDeferred, DeferredWriters, NoWriter, RefsNumbered
<1>4. ASSUME NEW k \in Kind, NEW B \in SUBSET Bean, NEW q \in Query,
             NEW prepare \in BOOLEAN, NEW soft \in BOOLEAN,
             Write(k, B, q, prepare, soft)
      PROVE  RefsNumbered'
  <2>1. /\ lastTx' = lastTx
        /\ owner' = [c \in Closure |->
                       IF c \in Taken(soft) THEN RunsIn(q, prepare) ELSE owner[c]]
        /\ soft => lastClosure < MaxClosures
    BY <1>4 DEF Write
  <2>2. RunsIn(q, prepare) \in Tx \cup {NoTx} /\ RunsIn(q, prepare) <= lastTx
    BY <1>0 DEF RunsIn, RefsNumbered
  <2>3. \A p \in Query : txStmtCache'[p] <= lastTx
    BY <1>0, <1>4 DEF Write, Prepared, RefsNumbered
  <2>4. \A c \in Closure : owner'[c] <= lastTx
    BY <2>1, <2>2 DEF RefsNumbered
  <2>5. /\ processed' = processed
        /\ \A j \in Kind, b \in Bean : writer'[j][b] <= lastTx
    <3>1. CASE isAutoCommit
      BY <1>4, <3>1 DEF Write, HandleAfter, RunHooksNow, RefsNumbered
    <3>2. CASE ~isAutoCommit
      <4>1. DeferHooks(k, B, Taken(soft), RunsIn(q, prepare))
        BY <1>4, <3>2 DEF Write, HandleAfter
      <4>2. Taken(soft) \in SUBSET Closure
        BY <2>1 DEF Taken, Closure
      <4>3. \A j \in Kind, b \in Bean : writer'[j][b] \in {writer[j][b], RunsIn(q, prepare)}
        BY <4>1, <4>2, <2>2, DeferFuncs
      <4> QED
        BY <4>1, <4>3, <2>2 DEF DeferHooks, RefsNumbered
    <3> QED
      BY <3>1, <3>2
  <2> QED
    BY <2>1, <2>3, <2>4, <2>5 DEF RefsNumbered
<1>5. ASSUME NEW q \in Query, NEW prepare \in BOOLEAN, NEW b \in Bean,
             SeqInsert(b, q, prepare)
      PROVE  RefsNumbered'
  <2>1. \A p \in Query : txStmtCache'[p] <= lastTx'
    <3>1. /\ lastTx' = lastTx + 1
          /\ \A p \in Query : txStmtCache'[p] = txStmtCache[p] \/ txStmtCache'[p] = lastTx + 1
      BY <1>5 DEF SeqInsert, SeqPrepared
    <3> HIDE DEF TypeOK, Tx, NoTx
    <3> QED
      BY <1>0, <3>1, RefsNat DEF RefsNumbered
  <2>2. \A c \in Closure : owner'[c] <= lastTx'
    <3>1. /\ lastTx' = lastTx + 1
          /\ \A c \in Closure : owner'[c] = owner[c] \/ owner'[c] = lastTx + 1
      BY <1>5 DEF SeqInsert
    <3> HIDE DEF TypeOK, Tx, NoTx
    <3> QED
      BY <1>0, <3>1, RefsNat DEF RefsNumbered
  <2>3. \A t \in Tx : \A w \in processed'[t] : w <= lastTx'
    BY <1>0, <1>5 DEF SeqInsert, DeferredWriters, RefsNumbered
  <2>4. \A k \in Kind, a \in Bean : writer'[k][a] <= lastTx'
    BY <1>0, <1>5 DEF SeqInsert, ClearDeferred, NoWriter
  <2> QED
    BY <2>1, <2>2, <2>3, <2>4 DEF RefsNumbered
<1>6. ASSUME NEW q \in Query, NEW prepare \in BOOLEAN,
             \/ WriteFails(q, prepare) \/ AnyRead(q, prepare)
             \/ SeqInsertCommitFails(q, prepare) \/ SeqInsertFails(q, prepare)
      PROVE  RefsNumbered'
  <2>1. UNCHANGED history /\ lastTx' >= lastTx /\ lastTx' \in Nat
    BY <1>0, <1>6 DEF WriteFails, AnyRead, Read, Load, LoadFails, SeqInsertCommitFails, SeqInsertFails, EnterTx
  <2>2. \A p \in Query : txStmtCache'[p] <= lastTx'
    <3>1. \/ txStmtCache' = txStmtCache
          \/ lastTx' = lastTx + 1 /\ txStmtCache' = [txStmtCache EXCEPT ![q] = lastTx + 1]
          \/ txStmtCache' = [txStmtCache EXCEPT ![q] = tx]
      BY <1>6 DEF WriteFails, AnyRead, Read, Load, LoadFails, SeqInsertCommitFails, SeqInsertFails, EnterTx,
         SeqPrepared, Prepared
    <3>2. \A p \in Query :
             \/ txStmtCache'[p] = txStmtCache[p]
             \/ lastTx' = lastTx + 1 /\ txStmtCache'[p] = lastTx + 1
             \/ txStmtCache'[p] = tx
      BY <3>1
    <3>3. tx \in Nat
      OBVIOUS
    <3> HIDE DEF TypeOK, Tx, NoTx
    <3> QED
      BY <1>0, <2>1, <3>2, <3>3, RefsNat DEF RefsNumbered
  <2> QED
    BY <1>0, <2>1, <2>2, RefsNat DEF RefsNumbered, history
<1>7. ASSUME \/ Begin \/ BeginHookFails \/ CommitFails \/ Rollback \/ RollbackHookFails
             \/ CloseFails \/ DbAbort \/ After \/ UNCHANGED vars
      PROVE  UNCHANGED <<txStmtCache, history>> /\ lastTx' >= lastTx /\ lastTx' \in Nat
  BY <1>0, <1>7 DEF Begin, EnterTx, BeginHookFails, CommitFails, Rollback,
     RollbackHookFails, CloseFails, DbAbort, After, vars
<1> HIDE DEF TypeOK
<1> QED
  BY <1>1, <1>2, <1>3, <1>4, <1>5, <1>6, <1>7 DEF Next, AnyRead

\* No step reopens a transaction that was begun earlier.
LEMMA NoRevival ==
  ASSUME TypeOK, TxNumbered, [Next]_vars, NEW t \in Tx, t <= lastTx, Active(t)'
  PROVE  Active(t)
<1> USE DEF TypeOK, Tx, NoTx, Active
<1>1. CASE Begin \/ BeginHookFails
  BY <1>1 DEF Begin, EnterTx, BeginHookFails
<1>2. CASE Commit \/ CommitFails \/ DbAbort
  BY <1>2 DEF Commit, CommitFails, FailsWith, DbAbort
<1>3. CASE Rollback \/ RollbackHookFails \/ Close \/ CloseFails
  BY <1>3 DEF Rollback, RollbackHookFails, Close, CloseFails, RollbackCall, DbRollback
<1>4. ASSUME NEW q \in Query, NEW prepare \in BOOLEAN,
             \/ \E b \in Bean : SeqInsert(b, q, prepare)
             \/ SeqInsertCommitFails(q, prepare)
             \/ SeqInsertFails(q, prepare)
      PROVE  Active(t)
  BY <1>4 DEF SeqInsert, SeqInsertCommitFails, FailsWith, SeqInsertFails, EnterTx
<1>5. ASSUME \/ After \/ UNCHANGED vars
             \/ \E k \in Kind, B \in SUBSET Bean, q \in Query, prepare, soft \in BOOLEAN :
                   Write(k, B, q, prepare, soft)
             \/ \E q \in Query, prepare \in BOOLEAN :
                   WriteFails(q, prepare) \/ AnyRead(q, prepare)
      PROVE  UNCHANGED txState
  BY <1>5 DEF After, Write, WriteFails, AnyRead, Read, Load, LoadFails, vars
<1> QED
  BY <1>1, <1>2, <1>3, <1>4, <1>5 DEF Next, AnyRead

\* A step that runs hooks runs those of transactions that have ended.
LEMMA StepHooksAfterTxEnds ==
  ASSUME TypeOK, TxNumbered, RefsNumbered, NoOrphanTx, OnceInv, HooksAfterTxEnds,
         [Next]_vars
  PROVE  HooksAfterTxEnds'
<1> SUFFICES ASSUME ~hookFailed', ~hookFailed PROVE HooksAfterTxEnds'
  BY HookFailedStays DEF HooksAfterTxEnds
<1>0. \A w \in Tx \cup {NoTx} : w <= lastTx /\ Active(w)' => Active(w)
  BY NoRevival DEF Active
<1>1. CASE UNCHANGED <<owner, fired, processed>>
  <2>1. ASSUME NEW k \in Kind, NEW b \in Bean, NEW c \in Closure, fired'[k][b][c] > 0
        PROVE  ~Active(owner[c])'
    BY <1>0, <1>1, <2>1 DEF HooksAfterTxEnds, RefsNumbered, TypeOK
  <2>2. ASSUME NEW t \in Tx, NEW w \in processed'[t]
        PROVE  ~Active(w)'
    BY <1>0, <1>1, <2>2 DEF HooksAfterTxEnds, RefsNumbered, TypeOK
  <2> QED
    BY <2>1, <2>2 DEF HooksAfterTxEnds, Active
<1>2. CASE Commit
  <2>1. \A w \in Tx \cup {NoTx} : ~Active(w)'
    BY <1>2 DEF Commit, NoOrphanTx, Active, TypeOK
  <2>2. owner' \in [Closure -> Tx \cup {NoTx}] /\ processed' \in [Tx -> SUBSET (Tx \cup {NoTx})]
    BY StepHookTypes DEF HookTypes
  <2> QED
    BY <2>1, <2>2 DEF HooksAfterTxEnds, Active
<1>3. ASSUME NEW k \in Kind, NEW B \in SUBSET Bean, NEW q \in Query,
             NEW prepare \in BOOLEAN, NEW soft \in BOOLEAN,
             Write(k, B, q, prepare, soft)
      PROVE  HooksAfterTxEnds'
  <2>1. /\ soft => lastClosure < MaxClosures
        /\ owner' = [c \in Closure |->
                       IF c \in Taken(soft) THEN RunsIn(q, prepare) ELSE owner[c]]
        /\ UNCHANGED <<txState, processed>>
    BY <1>3 DEF Write, HandleAfter, RunHooksNow, DeferHooks
  <2>2. \A c \in Taken(soft), j \in Kind, b \in Bean : fired[j][b][c] = 0
    BY <2>1, TakenFresh DEF OnceInv
  <2>3. ASSUME NEW j \in Kind, NEW b \in Bean, NEW c \in Closure, fired'[j][b][c] > 0
        PROVE  ~Active(owner[c])'
    <3>1. CASE isAutoCommit
      <4>1. RunsIn(q, prepare) = NoTx
        BY <3>1 DEF RunsIn
      <4>2. c \notin Taken(soft) => fired'[j][b][c] = fired[j][b][c]
        BY <1>3, <3>1 DEF Write, HandleAfter, RunHooksNow, TypeOK
      <4> QED
        BY <2>1, <2>3, <4>1, <4>2 DEF HooksAfterTxEnds, Active, NoTx, Tx
    <3>2. CASE ~isAutoCommit
      <4>1. UNCHANGED fired
        BY <1>3, <3>2 DEF Write, HandleAfter, DeferHooks
      <4>2. c \notin Taken(soft)
        BY <2>2, <2>3, <4>1
      <4> QED
        BY <2>1, <2>3, <4>1, <4>2 DEF HooksAfterTxEnds, Active
    <3> QED
      BY <3>1, <3>2
  <2> QED
    BY <2>1, <2>3 DEF HooksAfterTxEnds, Active
<1>4. ASSUME NEW q \in Query, NEW prepare \in BOOLEAN, NEW b \in Bean,
             SeqInsert(b, q, prepare)
      PROVE  HooksAfterTxEnds'
  <2>1. \A w \in Tx \cup {NoTx} : ~Active(w)'
    BY <1>4 DEF SeqInsert, NoOrphanTx, InTx, Active, TypeOK
  <2>2. owner' \in [Closure -> Tx \cup {NoTx}] /\ processed' \in [Tx -> SUBSET (Tx \cup {NoTx})]
    BY StepHookTypes DEF HookTypes
  <2> QED
    BY <2>1, <2>2 DEF HooksAfterTxEnds, Active
<1>5. ASSUME \/ \E q \in Query, prepare \in BOOLEAN :
                   \/ WriteFails(q, prepare) \/ AnyRead(q, prepare)
                   \/ SeqInsertCommitFails(q, prepare) \/ SeqInsertFails(q, prepare)
             \/ Begin \/ BeginHookFails \/ CommitFails \/ Rollback \/ RollbackHookFails
             \/ Close \/ CloseFails \/ DbAbort \/ After \/ UNCHANGED vars
      PROVE  UNCHANGED <<owner, fired, processed>>
  BY <1>5 DEF WriteFails, AnyRead, Read, Load, LoadFails, SeqInsertCommitFails, SeqInsertFails, EnterTx, Begin,
     BeginHookFails, CommitFails, Rollback, RollbackHookFails, Close, CloseFails, DbAbort,
     After, vars, history
<1> QED
  BY <1>1, <1>2, <1>3, <1>4, <1>5 DEF Next, AnyRead

\* As long as no hook of the engine leaves a transaction open, neither a closure nor a processor runs for
\* a write whose transaction is still open: a Commit that runs what an earlier,
\* failed transaction left in the maps runs it after that transaction has ended.
THEOREM HooksRunAfterTxEnds == Spec => []HooksAfterTxEnds
<1> DEFINE Inv == OnceInv /\ TxNumbered /\ RefsNumbered /\ HooksAfterTxEnds
<1>1. Init => Inv
  BY DEF Init, OnceInv, OnePlace, ClosuresNumbered, HooksRunOnce, EmptyFuncs, TxNumbered,
     RefsNumbered, NoWriter, HooksAfterTxEnds, NoTx, Tx
<1>2. TypeOK /\ NoOrphanTx /\ Inv /\ [Next]_vars => Inv'
  BY StepOnce, StepTxNumbered, StepRefsNumbered, StepHooksAfterTxEnds
<1>3. Inv => HooksAfterTxEnds
  OBVIOUS
<1> QED
  BY <1>1, <1>2, <1>3, TypeCorrect, NoOrphans, PTL DEF Spec

\* Unless a hook has left a transaction open, a prepared statement that txStmtCache kept from an earlier
\* transaction never takes effect in a later one: that transaction has ended, since
\* the only one that can be open is the session's current one.
THEOREM StatementsStayInTx == Spec => []StmtRunsInCurrentTx
<1>1. TypeOK /\ NoOrphanTx => StmtRunsInCurrentTx
  BY DEF TypeOK, NoOrphanTx, StmtRunsInCurrentTx, CanRun, RunsIn, InTx, Active
<1> QED
  BY <1>1, TypeCorrect, NoOrphans, PTL

============================================================================

------------------------------ MODULE Migrate ------------------------------
(***************************************************************************)
(* Package migrate: a Migrate runs the migrations 1..N that the migration  *)
(* table does not list, in their order, and lists each one after it ran;   *)
(* on an empty migration table it runs initSchema instead and lists them   *)
(* all.  RollbackLast and RollbackMigration undo a migration and take it   *)
(* off the list.  There is no transaction and no lock: instances that      *)
(* start together do this at the same time, and any of them may stop       *)
(* between the change of the schema and the change of the list.  One whose *)
(* Migrate returned an error starts again.                                 *)
(***************************************************************************)
EXTENDS Integers, FiniteSets

CONSTANTS Proc,          \* the instances
          N,             \* the number of migrations
          Reversible,    \* the migrations that have a Rollback
          MaxFaults,     \* bound: crashes and failed statements
          MaxRollbacks   \* bound: calls of RollbackLast and RollbackMigration

ASSUME MigrationsAssumption ==
    N \in Nat \ {0} /\ Reversible \subseteq 1..N /\ MaxFaults \in Nat /\ MaxRollbacks \in Nat

Mig == 1..N

VARIABLES
    setup,      \* initSchema # nil, the migrations may run twice, CREATE ... IF NOT EXISTS
    exists,     \* the migration table is there
    ids,        \* the migrations in it
    applied,    \* the migrations the schema has
    loc,        \* where each instance is: [pc, k], k the migration it is at
    faults, rollbacks,
    cut,        \* history: migrations whose change of schema and list came apart
    disturbed   \* history: a rollback met another call, or was not of the last migration

vars == <<setup, exists, ids, applied, loc, faults, rollbacks, cut, disturbed>>

At(p, l) == loc[p].pc = l
K(p) == loc[p].k
Goto(p, l, n) == loc' = [loc EXCEPT ![p] = [pc |-> l, k |-> n]]
Resting == {"idle", "done"}
RollingBack == {"last", "rollback", "delete"}

Init ==
    /\ setup \in [hasInit : BOOLEAN, twice : BOOLEAN, ifNotExists : BOOLEAN]
    /\ exists = FALSE /\ ids = {} /\ applied = {}
    /\ loc = [p \in Proc |-> [pc |-> "idle", k |-> 0]]
    /\ faults = 0 /\ rollbacks = 0
    /\ cut = {} /\ disturbed = FALSE

\* The migrations p has changed in the schema and not yet in the list.
Between(p) == CASE At(p, "insertInit") -> K(p)..N
                [] At(p, "insert") \/ At(p, "delete") -> {K(p)}
                [] OTHER -> {}

\* The call returns an error.
Fails(p) ==
    /\ Goto(p, "idle", 0)
    /\ cut' = cut \cup Between(p)

----------------------------------------------------------------------------
(* Migrate *)

StartMigrate(p) ==
    /\ At(p, "idle")
    /\ Goto(p, "exists", 0)
    /\ disturbed' = (disturbed \/ \E q \in Proc : loc[q].pc \in RollingBack)
    /\ UNCHANGED <<setup, exists, ids, applied, faults, rollbacks, cut>>

\* A mutant: the table is always created.
TableExistsIgnored(p) ==
    /\ At(p, "exists")
    /\ Goto(p, "create", 0)
    /\ UNCHANGED <<setup, exists, ids, applied, faults, rollbacks, cut, disturbed>>

\* createMigrationTableIfNotExists: IsTableExist, then CREATE TABLE.
TableExists(p) ==
    /\ At(p, "exists")
    /\ Goto(p, IF exists THEN "firstRun" ELSE "create", 0)
    /\ UNCHANGED <<setup, exists, ids, applied, faults, rollbacks, cut, disturbed>>

CreateTable(p) ==
    /\ At(p, "create")
    /\ IF exists /\ ~setup.ifNotExists
       THEN Fails(p) /\ UNCHANGED exists
       ELSE Goto(p, "firstRun", 0) /\ exists' = TRUE /\ UNCHANGED cut
    /\ UNCHANGED <<setup, ids, applied, faults, rollbacks, disturbed>>

\* isFirstRun.
IsFirstRun(p) ==
    /\ At(p, "firstRun")
    /\ IF setup.hasInit /\ ids = {} THEN Goto(p, "init", 0) ELSE Goto(p, "didRun", 1)
    /\ UNCHANGED <<setup, exists, ids, applied, faults, rollbacks, cut, disturbed>>

\* initSchema, a function of the application, fails where the schema has something of it.
InitSchema(p) ==
    /\ At(p, "init")
    /\ IF applied # {} /\ ~setup.twice
       THEN Fails(p) /\ UNCHANGED applied
       ELSE Goto(p, "insertInit", 1) /\ applied' = Mig /\ UNCHANGED cut
    /\ UNCHANGED <<setup, exists, ids, faults, rollbacks, disturbed>>

\* migrationDidRun.
DidRun(p) ==
    /\ At(p, "didRun")
    /\ IF K(p) > N THEN Goto(p, "done", 0)
       ELSE IF K(p) \in ids THEN Goto(p, "didRun", K(p) + 1)
       ELSE Goto(p, "run", K(p))
    /\ UNCHANGED <<setup, exists, ids, applied, faults, rollbacks, cut, disturbed>>

\* The Migrate function of the migration.
RunMigration(p) ==
    /\ At(p, "run")
    /\ IF K(p) \in applied /\ ~setup.twice
       THEN Fails(p) /\ UNCHANGED applied
       ELSE Goto(p, "insert", K(p)) /\ applied' = applied \cup {K(p)} /\ UNCHANGED cut
    /\ UNCHANGED <<setup, exists, ids, faults, rollbacks, disturbed>>

\* insertMigration, from runInitSchema and from runMigration: the id is the primary key.
InsertMigration(p) ==
    /\ At(p, "insertInit") \/ At(p, "insert")
    /\ IF K(p) \in ids
       THEN Fails(p) /\ UNCHANGED ids
       ELSE /\ ids' = ids \cup {K(p)}
            /\ cut' = cut \ {K(p)}
            /\ IF At(p, "insert") THEN Goto(p, "didRun", K(p) + 1)
               ELSE IF K(p) = N THEN Goto(p, "done", 0)
               ELSE Goto(p, "insertInit", K(p) + 1)
    /\ UNCHANGED <<setup, exists, applied, faults, rollbacks, disturbed>>

----------------------------------------------------------------------------
(* RollbackLast and RollbackMigration *)

StartRollback(p, l, k) ==
    /\ loc[p].pc \in Resting /\ exists
    /\ rollbacks < MaxRollbacks /\ rollbacks' = rollbacks + 1
    /\ Goto(p, l, k)
    /\ disturbed' = \/ disturbed
                    \/ \E q \in Proc \ {p} : loc[q].pc \notin Resting
                    \/ l = "rollback" /\ (k \notin ids \/ \E j \in ids : j > k)
    /\ UNCHANGED <<setup, exists, ids, applied, faults, cut>>

RollbackLast(p) == StartRollback(p, "last", N)
RollbackMigration(p, k) == StartRollback(p, "rollback", k)

\* getLastRunnedMigration.
LastRun(p) ==
    /\ At(p, "last")
    /\ IF K(p) = 0 THEN Goto(p, "idle", 0)
       ELSE IF K(p) \in ids THEN Goto(p, "rollback", K(p))
       ELSE Goto(p, "last", K(p) - 1)
    /\ UNCHANGED <<setup, exists, ids, applied, faults, rollbacks, cut, disturbed>>

\* A mutant: a migration without a Rollback is taken off the list.
RollbackNil(p) ==
    /\ At(p, "rollback")
    /\ IF K(p) \in Reversible /\ K(p) \notin applied /\ ~setup.twice
       THEN Fails(p) /\ UNCHANGED applied
       ELSE Goto(p, "delete", K(p)) /\ applied' = applied \ ({K(p)} \cap Reversible)
            /\ UNCHANGED cut
    /\ UNCHANGED <<setup, exists, ids, faults, rollbacks, disturbed>>

\* The Rollback function of the migration; it is not asked whether the migration ran.
Rollback(p) ==
    /\ At(p, "rollback")
    /\ IF K(p) \notin Reversible \/ (K(p) \notin applied /\ ~setup.twice)
       THEN Fails(p) /\ UNCHANGED applied
       ELSE Goto(p, "delete", K(p)) /\ applied' = applied \ {K(p)} /\ UNCHANGED cut
    /\ UNCHANGED <<setup, exists, ids, faults, rollbacks, disturbed>>

DeleteMigration(p) ==
    /\ At(p, "delete")
    /\ ids' = ids \ {K(p)}
    /\ cut' = cut \ {K(p)}
    /\ Goto(p, "idle", 0)
    /\ UNCHANGED <<setup, exists, applied, faults, rollbacks, disturbed>>

----------------------------------------------------------------------------

\* The instance crashes, or a statement fails for a reason of its own.
Fault(p) ==
    /\ loc[p].pc \notin Resting
    /\ faults < MaxFaults /\ faults' = faults + 1
    /\ Fails(p)
    /\ UNCHANGED <<setup, exists, ids, applied, rollbacks, disturbed>>

Step(p) ==
    \/ StartMigrate(p) \/ TableExists(p) \/ CreateTable(p) \/ IsFirstRun(p)
    \/ InitSchema(p) \/ DidRun(p) \/ RunMigration(p) \/ InsertMigration(p)
    \/ LastRun(p) \/ Rollback(p) \/ DeleteMigration(p)
Call(p) == RollbackLast(p) \/ \E k \in Mig : RollbackMigration(p, k)

Next == \E p \in Proc : Step(p) \/ Call(p) \/ Fault(p)

Spec == Init /\ [][Next]_vars

\* A call that was made goes on, and an instance whose Migrate failed is started again.
FairSpec == Spec /\ \A p \in Proc : WF_vars(Step(p))

----------------------------------------------------------------------------
(* Properties *)

\* Unless a rollback met another call or was not of the last migration, the list is the
\* first migrations without a gap, and it agrees with the schema but for the migrations
\* that some instance is just doing, or whose call stopped between the schema and the list
\* (runMigration, runInitSchema and RollbackMigration of several instances at once).
ListInStep ==
    ~disturbed =>
        /\ \A i \in ids : \A j \in 1..i : j \in ids
        /\ \A m \in Mig : \/ m \in applied <=> m \in ids
                          \/ m \in cut
                          \/ \E p \in Proc : m \in Between(p)

\* Where Migrate can fail for ever: the schema has what the list does not, and what made
\* it does not run twice.
Stuck == ~setup.twice /\ \E m \in applied \ ids : \A p \in Proc : m \notin Between(p)

\* Every Migrate succeeds in the end, when it is called again after an error: what is
\* there already (the table, the ids of a faster instance, the changes of one that
\* stopped) is not in its way unless it is stuck.
EveryMigrateEnds == \A p \in Proc : <>(At(p, "done") \/ Stuck)
=============================================================================

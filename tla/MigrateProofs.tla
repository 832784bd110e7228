--------------------------- MODULE MigrateProofs ---------------------------
(***************************************************************************)
(* ListInStep for every number of instances, migrations, faults and        *)
(* rollbacks.                                                              *)
(***************************************************************************)
EXTENDS Migrate, TLAPS

Places == {"idle", "exists", "create", "firstRun", "init", "insertInit", "didRun", "run",
           "insert", "last", "rollback", "delete", "done"}

\* The types, and the migration each place is about.
Typed ==
    /\ ids \subseteq Mig /\ applied \subseteq Mig
    /\ disturbed \in BOOLEAN
    /\ loc \in [Proc -> [pc : Places, k : 0..N + 1]]
    /\ \A p \in Proc :
          /\ loc[p].pc \in {"insertInit", "run", "insert", "rollback", "delete"} =>
                K(p) \in Mig
          /\ loc[p].pc = "didRun" => K(p) \in 1..N + 1
          /\ loc[p].pc = "last" => K(p) \in 0..N

\* The list has no gap.
NoGap == \A i \in ids : \A j \in 1..i : j \in ids

\* An instance in the middle of Migrate has all the migrations before its own on the list.
Before ==
    \A p \in Proc : loc[p].pc \in {"insertInit", "didRun", "run", "insert"} =>
        1..K(p) - 1 \subseteq ids

\* One that rolls back is alone, and nothing after its migration is on the list.
AloneBack ==
    \A p \in Proc : loc[p].pc \in RollingBack =>
        /\ \A q \in Proc \ {p} : loc[q].pc \in Resting
        /\ \A j \in ids : j <= K(p)

\* What the schema has between the change of the schema and the change of the list.
Halfway ==
    \A p \in Proc :
        /\ loc[p].pc = "insertInit" => K(p)..N \subseteq applied
        /\ loc[p].pc = "insert" => K(p) \in applied
        /\ loc[p].pc = "delete" => K(p) \notin applied

Agree ==
    \A m \in Mig : \/ m \in applied <=> m \in ids
                   \/ m \in cut
                   \/ \E p \in Proc : m \in Between(p)

Undisturbed == NoGap /\ Before /\ AloneBack /\ Halfway /\ Agree
IInv == Typed /\ (~disturbed => Undisturbed)

USE DEF Mig

LEMMA NPositive == N \in Nat /\ N >= 1
BY MigrationsAssumption

LEMMA InitInv == Init => IInv
<1> SUFFICES ASSUME Init PROVE IInv
    OBVIOUS
<1>1. Typed
  <2>1. loc \in [Proc -> [pc : Places, k : 0..N + 1]]
    BY NPositive DEF Init, Places
  <2>2. \A p \in Proc : loc[p].pc = "idle"
    BY DEF Init
  <2>3. ids \subseteq Mig /\ applied \subseteq Mig /\ disturbed \in BOOLEAN
    BY DEF Init
  <2> QED
    BY <2>1, <2>2, <2>3 DEF Typed
<1>2. Undisturbed
    BY DEF Init, Undisturbed, NoGap, Before, AloneBack, RollingBack, Halfway, Agree
<1> QED
    BY <1>1, <1>2 DEF IInv

\* Between changes for the instance that moves only.
LEMMA BetweenOthers ==
    ASSUME Typed, NEW p \in Proc, NEW l, NEW n, Goto(p, l, n), NEW q \in Proc, q # p
    PROVE  Between(q)' = Between(q)
BY DEF Typed, Goto, Between, At, K

LEMMA BetweenMover ==
    ASSUME Typed, NEW p \in Proc, NEW l, NEW n, Goto(p, l, n)
    PROVE  /\ loc'[p] = [pc |-> l, k |-> n]
           /\ \A q \in Proc \ {p} : loc'[q] = loc[q]
           /\ l = "insertInit" => Between(p)' = n..N
           /\ l \in {"insert", "delete"} => Between(p)' = {n}
BY DEF Typed, Goto, Between, At, K

----------------------------------------------------------------------------
(* One lemma per action *)

\* The steps that only move an instance, within Migrate or to a place that says nothing.
Moves(p) == StartMigrate(p) \/ TableExists(p) \/ CreateTable(p) \/ IsFirstRun(p)

LEMMA MovesInv ==
    ASSUME IInv, NEW p \in Proc, Moves(p)
    PROVE  IInv'
<1>1. PICK l \in {"exists", "firstRun", "create", "idle", "init", "didRun"} :
          /\ Goto(p, l, IF l = "didRun" THEN 1 ELSE 0)
          /\ loc[p].pc \in {"idle", "exists", "create", "firstRun"}
          /\ UNCHANGED <<ids, applied>>
    BY DEF Moves, StartMigrate, TableExists, CreateTable, IsFirstRun, At, Fails
<1>2. cut' = cut
    BY <1>1 DEF Moves, StartMigrate, TableExists, CreateTable, IsFirstRun, Fails, Between, At
<1>3. /\ disturbed' \in BOOLEAN
      /\ ~disturbed' => ~disturbed
      /\ ~disturbed' /\ StartMigrate(p) => \A q \in Proc : loc[q].pc \notin RollingBack
    BY DEF Moves, StartMigrate, TableExists, CreateTable, IsFirstRun, IInv, Typed
<1>4. Typed'
  <2>1. loc' \in [Proc -> [pc : Places, k : 0..N + 1]]
    BY <1>1, NPositive DEF IInv, Typed, Goto, Places
  <2> QED
    BY <1>1, <1>3, <2>1, NPositive DEF IInv, Typed, Goto, K
<1>5. ASSUME ~disturbed' PROVE Undisturbed'
  <2>0. Undisturbed
    BY <1>5, <1>3 DEF IInv
  <2>1. NoGap'
    BY <2>0, <1>1 DEF Undisturbed, NoGap
  <2>2. Before'
    BY <2>0, <1>1 DEF Undisturbed, Before, Goto, K, IInv, Typed
  <2>3. AloneBack'
    <3>1. StartMigrate(p) \/ loc[p].pc \notin Resting
        BY <1>1 DEF Moves, TableExists, CreateTable, IsFirstRun, At, Resting
    <3>2. \A q \in Proc : loc[q].pc \notin RollingBack
        BY <3>1, <1>1, <1>3, <1>5, <2>0 DEF Undisturbed, AloneBack, RollingBack
    <3> QED
        BY <3>2, <1>1 DEF AloneBack, Goto, IInv, Typed, RollingBack
  <2>4. Halfway'
    BY <2>0, <1>1 DEF Undisturbed, Halfway, Goto, K, IInv, Typed
  <2>5. Agree'
    <3>1. \A q \in Proc : Between(q) \subseteq Between(q)'
        BY <1>1 DEF Goto, Between, At, K, IInv, Typed
    <3> QED
        BY <2>0, <1>1, <1>2, <3>1 DEF Undisturbed, Agree
  <2> QED
    BY <2>1, <2>2, <2>3, <2>4, <2>5 DEF Undisturbed
<1> QED
    BY <1>4, <1>5 DEF IInv

\* A call that ends with an error: what it had begun is cut.
LEMMA FailsInv ==
    ASSUME IInv, NEW p \in Proc, Fails(p), UNCHANGED <<ids, applied, disturbed>>
    PROVE  IInv'
<1>1. Goto(p, "idle", 0) /\ cut' = cut \cup Between(p)
    BY DEF Fails
<1>2. Typed'
  <2>1. loc' \in [Proc -> [pc : Places, k : 0..N + 1]]
    BY <1>1, NPositive DEF IInv, Typed, Goto, Places
  <2> QED
    BY <1>1, <2>1, NPositive DEF IInv, Typed, Goto, K
<1>3. ASSUME ~disturbed' PROVE Undisturbed'
  <2>0. Undisturbed
    BY <1>3 DEF IInv
  <2>1. NoGap'
    BY <2>0 DEF Undisturbed, NoGap
  <2>2. Before'
    BY <2>0, <1>1 DEF Undisturbed, Before, Goto, K, IInv, Typed
  <2>3. AloneBack'
    BY <2>0, <1>1 DEF Undisturbed, AloneBack, Goto, K, IInv, Typed, RollingBack, Resting
  <2>4. Halfway'
    BY <2>0, <1>1 DEF Undisturbed, Halfway, Goto, K, IInv, Typed
  <2>5. Agree'
    <3>1. \A q \in Proc \ {p} : Between(q)' = Between(q)
        BY <1>1, BetweenOthers DEF IInv
    <3> QED
        BY <2>0, <1>1, <3>1 DEF Undisturbed, Agree
  <2> QED
    BY <2>1, <2>2, <2>3, <2>4, <2>5 DEF Undisturbed
<1> QED
    BY <1>2, <1>3 DEF IInv

\* While an instance is in the middle of Migrate, none rolls back.
LEMMA NoneRollsBack ==
    ASSUME AloneBack, NEW p \in Proc, loc[p].pc \notin Resting \cup RollingBack
    PROVE  \A q \in Proc : loc[q].pc \notin RollingBack
BY DEF AloneBack

\* initSchema and the Migrate function of a migration change the schema.
LEMMA ChangesSchemaInv ==
    ASSUME IInv, NEW p \in Proc, InitSchema(p) \/ RunMigration(p)
    PROVE  IInv'
<1>0. CASE Fails(p) /\ UNCHANGED applied
    BY <1>0, FailsInv DEF InitSchema, RunMigration
<1>1. CASE ~(Fails(p) /\ UNCHANGED applied)
  <2>1. PICK l \in {"insertInit", "insert"}, k \in Mig :
            /\ Goto(p, l, k)
            /\ l = "insertInit" => k = 1 /\ applied' = Mig /\ loc[p].pc = "init"
            /\ l = "insert" => /\ loc[p] = [pc |-> "run", k |-> k]
                               /\ applied' = applied \cup {k}
            /\ UNCHANGED <<ids, cut, disturbed>>
    <3>1. CASE InitSchema(p)
        <4>1. Goto(p, "insertInit", 1) /\ applied' = Mig /\ UNCHANGED <<ids, cut, disturbed>>
              /\ loc[p].pc = "init"
            BY <3>1, <1>1 DEF InitSchema, At
        <4> QED
            BY <4>1, NPositive
    <3>2. CASE RunMigration(p)
        <4>1. /\ Goto(p, "insert", K(p)) /\ applied' = applied \cup {K(p)}
              /\ loc[p].pc = "run" /\ UNCHANGED <<ids, cut, disturbed>>
            BY <3>2, <1>1 DEF RunMigration, At
        <4>2. K(p) \in Mig /\ loc[p] = [pc |-> "run", k |-> K(p)]
            BY <4>1 DEF IInv, Typed, K
        <4> QED
            BY <4>1, <4>2
    <3> QED
        BY <3>1, <3>2
  <2>2. /\ loc'[p] = [pc |-> l, k |-> k]
        /\ \A q \in Proc \ {p} : loc'[q] = loc[q] /\ Between(q)' = Between(q)
        /\ l = "insertInit" => Between(p)' = Mig
        /\ l = "insert" => Between(p)' = {k}
    BY <2>1, BetweenMover, BetweenOthers DEF IInv
  <2>3. Between(p) = {} /\ loc[p].pc \notin Resting \cup RollingBack
    BY <2>1 DEF Between, At, Resting, RollingBack
  <2>4. Typed'
    <3>1. loc' \in [Proc -> [pc : Places, k : 0..N + 1]]
        BY <2>1, NPositive DEF IInv, Typed, Goto, Places
    <3>2. ids' \subseteq Mig /\ applied' \subseteq Mig /\ disturbed' \in BOOLEAN
        BY <2>1 DEF IInv, Typed
    <3> QED
        BY <2>1, <2>2, <3>1, <3>2, NPositive DEF IInv, Typed, K
  <2>5. ASSUME ~disturbed' PROVE Undisturbed'
    <3>0. Undisturbed /\ \A q \in Proc : loc[q].pc \notin RollingBack
        BY <2>5, <2>1, <2>3, NoneRollsBack DEF IInv, Undisturbed
    <3>1. NoGap'
        BY <3>0, <2>1 DEF Undisturbed, NoGap
    <3>2. Before'
        BY <3>0, <2>1, <2>2 DEF Undisturbed, Before, K
    <3>3. AloneBack'
        BY <3>0, <2>1, <2>2 DEF AloneBack, RollingBack
    <3>4. Halfway'
        <4>1. applied \subseteq applied'
            BY <2>1 DEF IInv, Typed
        <4>2. /\ l = "insertInit" => k..N \subseteq applied'
              /\ l = "insert" => k \in applied'
            BY <2>1
        <4>3. ASSUME NEW q \in Proc \ {p}
              PROVE  /\ loc'[q] = loc[q] /\ loc[q].pc # "delete"
                     /\ loc[q].pc = "insertInit" => K(q)..N \subseteq applied
                     /\ loc[q].pc = "insert" => K(q) \in applied
            BY <3>0, <2>2 DEF Undisturbed, Halfway, RollingBack
        <4> QED
            BY <4>1, <4>2, <4>3, <2>1, <2>2 DEF Halfway, K
    <3>5. Agree'
        BY <3>0, <2>1, <2>2, <2>3 DEF Undisturbed, Agree
    <3> QED
        BY <3>1, <3>2, <3>3, <3>4, <3>5 DEF Undisturbed
  <2> QED
    BY <2>4, <2>5 DEF IInv
<1> QED
    BY <1>0, <1>1

LEMMA DidRunInv ==
    ASSUME IInv, NEW p \in Proc, DidRun(p)
    PROVE  IInv'
<1>1. PICK l \in {"done", "didRun", "run"}, k \in 0..N + 1 :
          /\ Goto(p, l, k)
          /\ l = "didRun" => k \in 1..N + 1 /\ 1..k - 1 \subseteq 1..K(p) - 1 \cup ids
          /\ l = "run" => k \in Mig /\ k = K(p)
  <2>1. K(p) \in 1..N + 1
    BY DEF DidRun, At, IInv, Typed
  <2>2. CASE K(p) > N
    BY <2>2, NPositive DEF DidRun
  <2>3. CASE ~(K(p) > N) /\ K(p) \in ids
    BY <2>1, <2>3, NPositive DEF DidRun
  <2>4. CASE ~(K(p) > N) /\ K(p) \notin ids
    BY <2>1, <2>4, NPositive DEF DidRun
  <2> QED
    BY <2>2, <2>3, <2>4
<1>2. loc[p].pc = "didRun" /\ UNCHANGED <<ids, applied, cut, disturbed>>
    BY DEF DidRun, At
<1>3. loc'[p] = [pc |-> l, k |-> k] /\ \A q \in Proc \ {p} : loc'[q] = loc[q]
    BY <1>1, BetweenMover DEF IInv
<1>4. Typed'
  <2>1. loc' \in [Proc -> [pc : Places, k : 0..N + 1]]
    BY <1>1, NPositive DEF IInv, Typed, Goto, Places
  <2> QED
    BY <1>1, <1>2, <1>3, <2>1, NPositive DEF IInv, Typed, K
<1>5. ASSUME ~disturbed' PROVE Undisturbed'
  <2>0. Undisturbed /\ \A q \in Proc : loc[q].pc \notin RollingBack
    BY <1>5, <1>2, NoneRollsBack DEF IInv, Undisturbed, Resting, RollingBack
  <2>1. NoGap'
    BY <2>0, <1>2 DEF Undisturbed, NoGap
  <2>2. Before'
    <3>1. 1..K(p) - 1 \subseteq ids
        BY <2>0, <1>2 DEF Undisturbed, Before
    <3>2. l \in {"didRun", "run"} => 1..k - 1 \subseteq ids
        BY <3>1, <1>1
    <3>3. \A q \in Proc \ {p} : loc[q].pc \in {"insertInit", "didRun", "run", "insert"} =>
              1..loc[q].k - 1 \subseteq ids
        BY <2>0 DEF Undisturbed, Before, K
    <3> QED
        BY <3>2, <3>3, <1>1, <1>2, <1>3 DEF Before, K
  <2>3. AloneBack'
    BY <2>0, <1>3 DEF AloneBack, RollingBack
  <2>4. Halfway'
    BY <2>0, <1>2, <1>3 DEF Undisturbed, Halfway, K
  <2>5. Agree'
    <3>1. \A q \in Proc : Between(q) \subseteq Between(q)'
        BY <1>2, <1>3 DEF Between, At, K
    <3> QED
        BY <2>0, <1>2, <3>1 DEF Undisturbed, Agree
  <2> QED
    BY <2>1, <2>2, <2>3, <2>4, <2>5 DEF Undisturbed
<1> QED
    BY <1>4, <1>5 DEF IInv

LEMMA InsertMigrationInv ==
    ASSUME IInv, NEW p \in Proc, InsertMigration(p)
    PROVE  IInv'
<1>0. CASE K(p) \in ids
    BY <1>0, FailsInv DEF InsertMigration
<1>1. CASE K(p) \notin ids
  <2>1. /\ loc[p].pc \in {"insertInit", "insert"} /\ K(p) \in Mig
        /\ ids' = ids \cup {K(p)} /\ cut' = cut \ {K(p)}
        /\ UNCHANGED <<applied, disturbed>>
    BY <1>1 DEF InsertMigration, At, IInv, Typed
  <2>2. PICK l \in {"didRun", "done", "insertInit"}, k \in 0..N + 1 :
            /\ Goto(p, l, k)
            /\ l # "done" => k = K(p) + 1
            /\ l = "insertInit" => loc[p].pc = "insertInit" /\ k <= N
            /\ loc[p].pc = "insertInit" => l = "insertInit" \/ K(p) = N
    BY <1>1, <2>1, NPositive DEF InsertMigration, At
  <2>3. /\ loc'[p] = [pc |-> l, k |-> k]
        /\ \A q \in Proc \ {p} : loc'[q] = loc[q] /\ Between(q)' = Between(q)
        /\ l = "insertInit" => Between(p)' = k..N
    BY <2>2, BetweenMover, BetweenOthers DEF IInv
  <2>4. Typed'
    <3>1. loc' \in [Proc -> [pc : Places, k : 0..N + 1]]
        BY <2>2, NPositive DEF IInv, Typed, Goto, Places
    <3>2. ids' \subseteq Mig /\ applied' \subseteq Mig /\ disturbed' \in BOOLEAN
        BY <2>1 DEF IInv, Typed
    <3> QED
        BY <2>1, <2>2, <2>3, <3>1, <3>2, NPositive DEF IInv, Typed, K
  <2>5. ASSUME ~disturbed' PROVE Undisturbed'
    <3>0. Undisturbed /\ \A q \in Proc : loc[q].pc \notin RollingBack
        BY <2>5, <2>1, NoneRollsBack DEF IInv, Undisturbed, Resting, RollingBack
    <3>1. 1..K(p) - 1 \subseteq ids
        BY <3>0, <2>1 DEF Undisturbed, Before
    <3>2. NoGap'
        <4>1. \A j \in 1..K(p) : j \in ids'
            BY <3>1, <2>1
        <4>2. \A i \in ids : \A j \in 1..i : j \in ids'
            BY <3>0, <2>1 DEF Undisturbed, NoGap
        <4> QED
            BY <4>1, <4>2, <2>1 DEF NoGap
    <3>3. Before'
        <4>1. l # "done" => 1..k - 1 \subseteq ids'
            BY <3>1, <2>1, <2>2
        <4>2. \A q \in Proc \ {p} :
                 loc[q].pc \in {"insertInit", "didRun", "run", "insert"} =>
                    1..loc[q].k - 1 \subseteq ids'
            BY <3>0, <2>1 DEF Undisturbed, Before, K
        <4> QED
            BY <4>1, <4>2, <2>2, <2>3 DEF Before, K
    <3>4. AloneBack'
        BY <3>0, <2>2, <2>3 DEF AloneBack, RollingBack
    <3>5. Halfway'
        <4>1. l = "insertInit" => k..N \subseteq applied'
            <5>1. loc[p].pc = "insertInit" => K(p)..N \subseteq applied
                BY <3>0 DEF Undisturbed, Halfway
            <5> QED
                BY <5>1, <2>1, <2>2
        <4>2. \A q \in Proc \ {p} : /\ loc[q].pc = "insertInit" => loc[q].k..N \subseteq applied'
                                    /\ loc[q].pc = "insert" => loc[q].k \in applied'
                                    /\ loc[q].pc # "delete"
            BY <3>0, <2>1 DEF Undisturbed, Halfway, K, RollingBack
        <4> QED
            BY <4>1, <4>2, <2>2, <2>3 DEF Halfway, K
    <3>6. Agree'
        <4>1. K(p) \in applied'
            BY <3>0, <2>1, NPositive DEF Undisturbed, Halfway
        <4>2. \A m \in Between(p) \ {K(p)} : m \in Between(p)'
            <5>1. CASE loc[p].pc = "insert"
                BY <5>1 DEF Between, At
            <5>2. CASE loc[p].pc = "insertInit"
                <6>1. Between(p) = K(p)..N
                    BY <5>2 DEF Between, At
                <6> QED
                    BY <6>1, <5>2, <2>1, <2>2, <2>3, NPositive
            <5> QED
                BY <5>1, <5>2, <2>1
        <4>3. ASSUME NEW m \in Mig, m # K(p)
              PROVE  \/ m \in applied' <=> m \in ids'
                     \/ m \in cut'
                     \/ \E q \in Proc : m \in Between(q)'
            BY <4>2, <4>3, <3>0, <2>1, <2>3 DEF Undisturbed, Agree
        <4>4. K(p) \in ids'
            BY <2>1
        <4> QED
            BY <4>1, <4>3, <4>4 DEF Agree
    <3> QED
        BY <3>2, <3>3, <3>4, <3>5, <3>6 DEF Undisturbed
  <2> QED
    BY <2>4, <2>5 DEF IInv
<1> QED
    BY <1>0, <1>1

\* A rollback begins, and RollbackLast looks for the last migration on the list.
Looks(p) == Call(p) \/ LastRun(p)

LEMMA LooksInv ==
    ASSUME IInv, NEW p \in Proc, Looks(p)
    PROVE  IInv'
<1>1. PICK l \in {"last", "rollback", "idle"}, k \in 0..N :
          /\ Goto(p, l, k) /\ loc[p].pc \in Resting \cup {"last"}
          /\ l = "rollback" => k \in Mig
          /\ ~disturbed' =>
                /\ ~disturbed
                /\ \A q \in Proc \ {p} : loc[q].pc \in Resting
                /\ l # "idle" => \A j \in ids : j <= k
          /\ disturbed' \in BOOLEAN
          /\ UNCHANGED <<ids, applied, cut>>
  <2>0. ids \subseteq Mig
    BY DEF IInv, Typed
  <2>1. CASE RollbackLast(p)
    BY <2>0, <2>1, NPositive DEF RollbackLast, StartRollback
  <2>2. CASE \E k \in Mig : RollbackMigration(p, k)
    BY <2>0, <2>2, NPositive DEF RollbackMigration, StartRollback
  <2>3. CASE LastRun(p)
    <3>1. /\ loc[p].pc = "last" /\ K(p) \in 0..N /\ disturbed \in BOOLEAN
          /\ UNCHANGED <<ids, applied, cut, disturbed>>
        BY <2>3 DEF LastRun, At, IInv, Typed
    <3>2. ~disturbed => /\ \A q \in Proc \ {p} : loc[q].pc \in Resting
                        /\ \A j \in ids : j <= K(p)
        BY <3>1 DEF IInv, Undisturbed, AloneBack, RollingBack
    <3>3. CASE K(p) = 0
        BY <2>3, <3>1, <3>2, <3>3 DEF LastRun
    <3>4. CASE K(p) # 0 /\ K(p) \in ids
        BY <2>0, <2>3, <3>1, <3>2, <3>4 DEF LastRun
    <3>5. CASE K(p) # 0 /\ K(p) \notin ids
        <4>1. K(p) - 1 \in 0..N /\ Goto(p, "last", K(p) - 1)
            BY <2>3, <3>1, <3>5, NPositive DEF LastRun
        <4>2. \A j \in ids : j <= K(p) => j <= K(p) - 1
            BY <2>0, <3>1, <3>5
        <4> QED
            BY <3>1, <3>2, <4>1, <4>2
    <3> QED
        BY <3>3, <3>4, <3>5
  <2> QED
    BY <2>1, <2>2, <2>3 DEF Looks, Call
<1>2. loc'[p] = [pc |-> l, k |-> k] /\ \A q \in Proc \ {p} : loc'[q] = loc[q]
    BY <1>1, BetweenMover DEF IInv
<1>3. Typed'
  <2>1. loc' \in [Proc -> [pc : Places, k : 0..N + 1]]
    BY <1>1, NPositive DEF IInv, Typed, Goto, Places
  <2> QED
    BY <1>1, <1>2, <2>1, NPositive DEF IInv, Typed, K
<1>4. ASSUME ~disturbed' PROVE Undisturbed'
  <2>0. Undisturbed
    BY <1>4, <1>1 DEF IInv
  <2>1. NoGap'
    BY <2>0, <1>1 DEF Undisturbed, NoGap
  <2>2. Before'
    BY <1>1, <1>2, <1>4 DEF Before, Resting
  <2>3. AloneBack'
    BY <1>1, <1>2, <1>4 DEF AloneBack, Resting, RollingBack, K
  <2>4. Halfway'
    BY <1>1, <1>2, <1>4 DEF Halfway, Resting
  <2>5. Agree'
    <3>1. \A q \in Proc : Between(q) \subseteq Between(q)'
        BY <1>1, <1>2, <1>4 DEF Between, At, K, Resting
    <3> QED
        BY <2>0, <1>1, <3>1 DEF Undisturbed, Agree
  <2> QED
    BY <2>1, <2>2, <2>3, <2>4, <2>5 DEF Undisturbed
<1> QED
    BY <1>3, <1>4 DEF IInv

\* The Rollback function undoes the migration in the schema.
LEMMA RollbackInv ==
    ASSUME IInv, NEW p \in Proc, Rollback(p)
    PROVE  IInv'
<1>0. CASE Fails(p) /\ UNCHANGED applied
    BY <1>0, FailsInv DEF Rollback
<1>1. CASE ~(Fails(p) /\ UNCHANGED applied)
  <2>1. /\ loc[p].pc = "rollback" /\ K(p) \in Mig
        /\ Goto(p, "delete", K(p)) /\ applied' = applied \ {K(p)}
        /\ UNCHANGED <<ids, cut, disturbed>>
    BY <1>1 DEF Rollback, At, IInv, Typed
  <2>2. /\ loc'[p] = [pc |-> "delete", k |-> K(p)]
        /\ \A q \in Proc \ {p} : loc'[q] = loc[q] /\ Between(q)' = Between(q)
        /\ Between(p)' = {K(p)}
        /\ Between(p) = {}
    <3>1. Between(p) = {}
        BY <2>1 DEF Between, At
    <3>2. Typed
        BY DEF IInv
    <3> QED
        BY <3>1, <3>2, <2>1, BetweenMover, BetweenOthers
  <2>3. Typed'
    <3>1. loc' \in [Proc -> [pc : Places, k : 0..N + 1]]
        BY <2>1, NPositive DEF IInv, Typed, Goto, Places
    <3>2. ids' \subseteq Mig /\ applied' \subseteq Mig /\ disturbed' \in BOOLEAN
        BY <2>1 DEF IInv, Typed
    <3> QED
        BY <2>1, <2>2, <3>1, <3>2 DEF IInv, Typed, K
  <2>4. ASSUME ~disturbed' PROVE Undisturbed'
    <3>0. /\ Undisturbed
          /\ \A q \in Proc \ {p} : loc[q].pc \in Resting
          /\ \A j \in ids : j <= K(p)
        BY <2>4, <2>1 DEF IInv, Undisturbed, AloneBack, RollingBack
    <3>1. NoGap'
        BY <3>0, <2>1 DEF Undisturbed, NoGap
    <3>2. Before' /\ AloneBack' /\ Halfway'
        BY <3>0, <2>1, <2>2 DEF Before, AloneBack, Halfway, Resting, RollingBack, K
    <3>3. Agree'
        BY <3>0, <2>1, <2>2 DEF Undisturbed, Agree
    <3> QED
        BY <3>1, <3>2, <3>3 DEF Undisturbed
  <2> QED
    BY <2>3, <2>4 DEF IInv
<1> QED
    BY <1>0, <1>1

LEMMA DeleteMigrationInv ==
    ASSUME IInv, NEW p \in Proc, DeleteMigration(p)
    PROVE  IInv'
<1>1. /\ loc[p].pc = "delete" /\ K(p) \in Mig
      /\ Goto(p, "idle", 0) /\ ids' = ids \ {K(p)} /\ cut' = cut \ {K(p)}
      /\ UNCHANGED <<applied, disturbed>>
    BY DEF DeleteMigration, At, IInv, Typed
<1>2. /\ loc'[p] = [pc |-> "idle", k |-> 0]
      /\ \A q \in Proc \ {p} : loc'[q] = loc[q] /\ Between(q)' = Between(q)
      /\ Between(p) = {K(p)}
  <2>1. Between(p) = {K(p)}
    BY <1>1 DEF Between, At
  <2>2. Typed
    BY DEF IInv
  <2> QED
    BY <2>1, <2>2, <1>1, BetweenMover, BetweenOthers
<1>3. Typed'
  <2>1. loc' \in [Proc -> [pc : Places, k : 0..N + 1]]
    BY <1>1, NPositive DEF IInv, Typed, Goto, Places
  <2>2. ids' \subseteq Mig /\ applied' \subseteq Mig /\ disturbed' \in BOOLEAN
    BY <1>1 DEF IInv, Typed
  <2> QED
    BY <1>1, <1>2, <2>1, <2>2 DEF IInv, Typed, K
<1>4. ASSUME ~disturbed' PROVE Undisturbed'
  <2>0. /\ Undisturbed
        /\ \A q \in Proc \ {p} : loc[q].pc \in Resting
        /\ \A j \in ids : j <= K(p)
    BY <1>4, <1>1 DEF IInv, Undisturbed, AloneBack, RollingBack
  <2>1. NoGap'
    <3>1. ASSUME NEW i \in ids', NEW j \in 1..i PROVE j \in ids'
        <4>1. i \in Nat /\ i <= K(p) /\ i # K(p) /\ j \in ids
            BY <2>0, <1>1 DEF Undisturbed, NoGap, IInv, Typed
        <4> QED
            BY <4>1, <1>1
    <3> QED
        BY <3>1 DEF NoGap
  <2>2. Before' /\ AloneBack' /\ Halfway'
    BY <2>0, <1>2 DEF Before, AloneBack, Halfway, Resting, RollingBack
  <2>3. Agree'
    <3>1. K(p) \notin applied' /\ K(p) \notin ids'
        BY <2>0, <1>1 DEF Undisturbed, Halfway
    <3>2. ASSUME NEW m \in Mig, m # K(p)
          PROVE  \/ m \in applied' <=> m \in ids'
                 \/ m \in cut'
                 \/ \E q \in Proc : m \in Between(q)'
        BY <3>2, <2>0, <1>1, <1>2 DEF Undisturbed, Agree
    <3> QED
        BY <3>1, <3>2 DEF Agree
  <2> QED
    BY <2>1, <2>2, <2>3 DEF Undisturbed
<1> QED
    BY <1>3, <1>4 DEF IInv

----------------------------------------------------------------------------

LEMMA NextInv == IInv /\ [Next]_vars => IInv'
<1> SUFFICES ASSUME IInv, [Next]_vars PROVE IInv'
    OBVIOUS
<1>1. CASE UNCHANGED vars
    BY <1>1 DEF vars, IInv, Typed, Undisturbed, NoGap, Before, AloneBack, Halfway, Agree,
                Between, At, K
<1>2. ASSUME NEW p \in Proc, Step(p) \/ Call(p) \/ Fault(p) PROVE IInv'
  <2>1. CASE Fault(p)
    BY <2>1, FailsInv DEF Fault
  <2> QED
    BY <1>2, <2>1, MovesInv, ChangesSchemaInv, DidRunInv, InsertMigrationInv, LooksInv,
       RollbackInv, DeleteMigrationInv DEF Step, Moves, Looks
<1> QED
    BY <1>1, <1>2 DEF Next

\* For any number of instances and migrations, with crashes, failed statements and
\* rollbacks at any time: as long as no rollback met another call, the migration table is
\* a prefix of the migrations and in step with the schema (migrate.go takes no lock and no
\* transaction).
THEOREM ListStaysInStep == Spec => []ListInStep
<1>1. IInv => ListInStep
    BY DEF IInv, Undisturbed, NoGap, Agree, ListInStep
<1> QED
    BY <1>1, InitInv, NextInv, PTL DEF Spec
=============================================================================

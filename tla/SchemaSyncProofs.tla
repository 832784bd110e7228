-------------------------- MODULE SchemaSyncProofs --------------------------
(***************************************************************************)
(* For any dialect, structs, number of instances and faults: the options   *)
(* of Sync are kept (OptionsKept); the types that SQLType wrote come back  *)
(* from the catalog (TypesRoundTrip); Sync adds columns, and changes the   *)
(* type of one only from VARCHAR to TEXT or for its comment (OnlyAdds);    *)
(* and it leaves nothing to do for the columns                             *)
(* (ColumnsSettle).  The last three rest on what the dialects' SQLType,    *)
(* Catalog and GetColumn return for every type of ColumnTypes, and on the  *)
(* invariant CInv: what an instance that is alone has loaded is what the   *)
(* table has.                                                              *)
(***************************************************************************)
EXTENDS SchemaSync, TLAPS

----------------------------------------------------------------------------
(* The options *)

\* The table and what each instance knows are records with these fields.
IsTable(t) == DOMAIN t = {"exists", "seq", "cols", "idx"}
IsLocal(l) == DOMAIN l = {"pc", "cols", "idx", "todo", "adds", "alone"}

\* The indexes an instance is about to add or to drop are none that its options exclude.
Allowed(l) ==
    /\ l.pc \in {"uniques", "indexes"} => \A i \in l.adds : ~AddIgnored(i)
    /\ l.pc = "indexes" => \A i \in l.idx : ~DropIgnored(i)

OInv ==
    /\ IsTable(db)
    /\ loc = [p \in Proc |-> loc[p]]
    /\ \A p \in Proc : IsLocal(loc[p]) /\ Allowed(loc[p])

LEMMA IdleAllowed == IsLocal(Idle) /\ Allowed(Idle)
BY DEF Idle, IsLocal, Allowed

LEMMA InitInv == Init => OInv
BY IdleAllowed DEF Init, OInv, IsTable, NoTable

\* Local variables of the instance that moves, or of one that is no longer alone.
LEMMA BecomesInv ==
    ASSUME OInv, UNCHANGED <<setup, db>>, NEW p \in Proc, NEW l, IsLocal(l), Allowed(l),
           Becomes(p, l)
    PROVE  OInv' /\ KeepsOptions
<1>1. \A m : Allowed(m)' <=> Allowed(m)
    BY DEF Allowed, AddIgnored, DropIgnored, Opts
<1>2. OInv'
    BY <1>1 DEF OInv, Becomes, IsTable
<1> QED
    BY <1>2 DEF KeepsOptions, IndexesOf

LEMMA RunsInv ==
    ASSUME OInv, UNCHANGED setup, NEW p \in Proc, NEW can \in BOOLEAN, NEW after, NEW l,
           can => IsTable(after) /\ IsLocal(l) /\ Allowed(l),
           Runs(p, can, after, l)
    PROVE  OInv' /\ (db' = db \/ (can /\ db' = after))
<1>1. \A m : Allowed(m)' <=> Allowed(m)
    BY DEF Allowed, AddIgnored, DropIgnored, Opts
<1>2. CASE can
  <2>1. /\ db' = after
        /\ loc' = [q \in Proc |-> IF q = p THEN l
                                  ELSE [loc[q] EXCEPT !.alone = @ /\ after = db]]
    BY <1>2 DEF Runs
  <2>2. ASSUME NEW q \in Proc PROVE IsLocal(loc'[q]) /\ Allowed(loc'[q])
    <3>1. CASE q = p
        BY <1>2, <2>1, <3>1
    <3>2. CASE q # p
        <4>1. IsLocal(loc[q]) /\ Allowed(loc[q])
            BY DEF OInv
        <4>2. loc'[q] = [loc[q] EXCEPT !.alone = @ /\ after = db]
            BY <2>1, <3>2
        <4>3. /\ loc'[q].pc = loc[q].pc /\ loc'[q].adds = loc[q].adds
              /\ loc'[q].idx = loc[q].idx /\ IsLocal(loc'[q])
            BY <4>1, <4>2 DEF IsLocal
        <4> QED
            BY <4>1, <4>3 DEF Allowed
    <3> QED
        BY <3>1, <3>2
  <2> QED
    BY <1>1, <1>2, <2>1, <2>2 DEF OInv
<1>3. CASE ~can
    BY <1>3, IdleAllowed, BecomesInv DEF Runs
<1> QED
    BY <1>2, <1>3

\* A statement that is not about indexes.
LEMMA SameIndexes ==
    ASSUME UNCHANGED setup, db'.idx = db.idx
    PROVE  KeepsOptions
BY DEF KeepsOptions, IndexesOf

LEMMA AddsAllowed ==
    ASSUME IsTable(db), NEW i, ~AddIgnored(i), db' = CreateIndexSQL(i)
    PROVE  KeepsOptions
<1>1. db'.idx = db.idx \cup {[type |-> i.type, name |-> i.name, cols |-> i.cols]}
    BY DEF CreateIndexSQL, IsTable
<1> QED
    BY <1>1 DEF KeepsOptions, IndexesOf, AddIgnored

LEMMA DropsAllowed ==
    ASSUME IsTable(db), NEW i, ~DropIgnored(i), db' = DropIndexSQL(i)
    PROVE  KeepsOptions
<1>1. db'.idx = {j \in db.idx : Key(j) # Key(i)}
    BY DEF DropIndexSQL, IsTable
<1>2. \A j \in db.idx \ db'.idx : j.type = i.type
    BY <1>1 DEF Key
<1>3. db'.idx \subseteq db.idx
    BY <1>1
<1> QED
    BY <1>2, <1>3 DEF KeepsOptions, IndexesOf, DropIgnored

LEMMA TablesAre ==
    ASSUME IsTable(db)
    PROVE  /\ \A s : IsTable(TableCreated(s)) /\ TableCreated(s).idx = db.idx
           /\ \A n, c : IsTable(AddColumnSQL(n, c)) /\ AddColumnSQL(n, c).idx = db.idx
           /\ \A n, c : IsTable(ModifyColumnSQL(n, c)) /\ ModifyColumnSQL(n, c).idx = db.idx
           /\ \A i : IsTable(CreateIndexSQL(i)) /\ IsTable(DropIndexSQL(i))
<1>1. ASSUME NEW s PROVE IsTable(TableCreated(s)) /\ TableCreated(s).idx = db.idx
    BY DEF IsTable, TableCreated
<1>2. ASSUME NEW n, NEW c PROVE IsTable(AddColumnSQL(n, c)) /\ AddColumnSQL(n, c).idx = db.idx
    BY DEF IsTable, AddColumnSQL
<1>3. ASSUME NEW n, NEW c
      PROVE  IsTable(ModifyColumnSQL(n, c)) /\ ModifyColumnSQL(n, c).idx = db.idx
    BY DEF IsTable, ModifyColumnSQL
<1>4. ASSUME NEW i PROVE IsTable(CreateIndexSQL(i)) /\ IsTable(DropIndexSQL(i))
    BY DEF IsTable, CreateIndexSQL, DropIndexSQL
<1> QED
    BY <1>1, <1>2, <1>3, <1>4

----------------------------------------------------------------------------
(* One lemma per group of actions *)

\* A statement of p after which its indexes to add and to drop are the same or fewer.
LEMMA TableStepInv ==
    ASSUME OInv, UNCHANGED setup, NEW p \in Proc, NEW can \in BOOLEAN, NEW after, NEW l,
           IsTable(after), after.idx = db.idx, IsLocal(l), Allowed(l),
           Runs(p, can, after, l)
    PROVE  OInv' /\ KeepsOptions
<1>1. OInv' /\ (db' = db \/ db' = after)
    BY RunsInv
<1> QED
    BY <1>1, SameIndexes

LEMMA CreatesInv ==
    ASSUME OInv, NEW p \in Proc, CreateSequence(p) \/ CreateTable(p)
    PROVE  OInv' /\ KeepsOptions
<1>0. UNCHANGED setup /\ IsTable(db) /\ IsLocal(loc[p])
    BY DEF CreateSequence, CreateTable, OInv
<1>1. CASE CreateSequence(p)
  <2> DEFINE l == [loc[p] EXCEPT !.pc = "create"]
             after == [db EXCEPT !.seq = TRUE]
  <2>1. l.pc = "create" /\ IsLocal(l)
    BY <1>0 DEF IsLocal
  <2>2. IsTable(after) /\ after.idx = db.idx
    BY <1>0 DEF IsTable
  <2>3. PICK can \in BOOLEAN : Runs(p, can, after, l)
    BY <1>1 DEF CreateSequence, Runs
  <2>4. Allowed(l)
    BY <2>1 DEF Allowed
  <2> HIDE DEF l, after
  <2> QED
    BY <1>0, <2>1, <2>2, <2>3, <2>4, TableStepInv
<1>2. CASE CreateTable(p)
  <2> DEFINE s == StructOf(p)
             l == [loc[p] EXCEPT !.pc = "uniques", !.adds = {i \in s.idx : ~AddIgnored(i)}]
  <2>1. IsLocal(l) /\ l.pc = "uniques" /\ l.adds = {i \in s.idx : ~AddIgnored(i)}
    BY <1>0 DEF IsLocal
  <2>2. Allowed(l)
    BY <2>1 DEF Allowed
  <2>3. IsTable(TableCreated(s)) /\ TableCreated(s).idx = db.idx
    BY <1>0, TablesAre
  <2>4. PICK can \in BOOLEAN : Runs(p, can, TableCreated(s), l)
    BY <1>2 DEF CreateTable, CanCreateTable, Runs
  <2> HIDE DEF l, s
  <2> QED
    BY <1>0, <2>1, <2>2, <2>3, <2>4, TableStepInv
<1> QED
    BY <1>1, <1>2

\* An index of adds is created: in createUniques and createIndexes, or at the end of Sync.
LEMMA AddsInv ==
    ASSUME OInv, NEW p \in Proc, CreateIndexes(p) \/ AddIndex(p)
    PROVE  OInv' /\ KeepsOptions
<1>0. UNCHANGED setup /\ IsTable(db) /\ IsLocal(loc[p]) /\ Allowed(loc[p])
    BY DEF CreateIndexes, AddIndex, OInv
<1>1. PICK i \in loc[p].adds : Runs(p, CanCreateIndex(i), CreateIndexSQL(i),
                                    [loc[p] EXCEPT !.adds = @ \ {i}])
    BY DEF CreateIndexes, AddIndex
<1> DEFINE l == [loc[p] EXCEPT !.adds = @ \ {i}]
<1>2. loc[p].pc \in {"uniques", "indexes"} /\ ~AddIgnored(i)
    BY <1>0 DEF CreateIndexes, AddIndex, At, Allowed
<1>3. IsLocal(l) /\ l.adds = loc[p].adds \ {i} /\ l.pc = loc[p].pc /\ l.idx = loc[p].idx
    BY <1>0 DEF IsLocal
<1>4. Allowed(l)
    BY <1>0, <1>3 DEF Allowed
<1>5. CanCreateIndex(i) \in BOOLEAN
    BY DEF CanCreateIndex
<1>6. IsTable(CreateIndexSQL(i))
    BY <1>0, TablesAre
<1> HIDE DEF l
<1>7. OInv' /\ (db' = db \/ db' = CreateIndexSQL(i))
    BY <1>0, <1>1, <1>3, <1>4, <1>5, <1>6, RunsInv DEF l
<1> QED
    BY <1>0, <1>2, <1>7, AddsAllowed, SameIndexes

LEMMA DropIndexInv ==
    ASSUME OInv, NEW p \in Proc, DropIndex(p)
    PROVE  OInv' /\ KeepsOptions
<1>0. UNCHANGED setup /\ IsTable(db) /\ IsLocal(loc[p]) /\ Allowed(loc[p])
    BY DEF DropIndex, OInv
<1>1. PICK i \in loc[p].idx : Runs(p, CanDropIndex(i), DropIndexSQL(i),
                                   [loc[p] EXCEPT !.idx = @ \ {i}])
    BY DEF DropIndex
<1> DEFINE l == [loc[p] EXCEPT !.idx = @ \ {i}]
<1>2. loc[p].pc = "indexes" /\ ~DropIgnored(i)
    BY <1>0 DEF DropIndex, At, Allowed
<1>3. IsLocal(l) /\ l.idx = loc[p].idx \ {i} /\ l.pc = loc[p].pc /\ l.adds = loc[p].adds
    BY <1>0 DEF IsLocal
<1>4. Allowed(l)
    BY <1>0, <1>3 DEF Allowed
<1>5. PICK can \in BOOLEAN : Runs(p, can, DropIndexSQL(i), l)
    BY <1>1 DEF Runs
<1>6. IsTable(DropIndexSQL(i))
    BY <1>0, TablesAre
<1> HIDE DEF l
<1>7. OInv' /\ (db' = db \/ db' = DropIndexSQL(i))
    BY <1>0, <1>3, <1>4, <1>5, <1>6, RunsInv
<1> QED
    BY <1>0, <1>2, <1>7, DropsAllowed, SameIndexes

LEMMA SyncColumnInv ==
    ASSUME OInv, NEW p \in Proc, SyncColumn(p)
    PROVE  OInv' /\ KeepsOptions
<1>0. /\ UNCHANGED setup /\ IsTable(db) /\ IsLocal(loc[p]) /\ Allowed(loc[p])
      /\ loc[p].pc = "columns"
    BY DEF SyncColumn, At, OInv
<1> DEFINE n == Head(loc[p].todo).name
           c == Head(loc[p].todo).def
           l == [loc[p] EXCEPT !.todo = Tail(@)]
<1>1. IsLocal(l) /\ l.pc = "columns"
    BY <1>0 DEF IsLocal
<1>2. Allowed(l)
    BY <1>1 DEF Allowed
<1>3. \/ \E can \in BOOLEAN : Runs(p, can, AddColumnSQL(n, c), l)
      \/ \E can \in BOOLEAN : Runs(p, can, ModifyColumnSQL(n, c), l)
      \/ Becomes(p, l) /\ UNCHANGED db
    BY DEF SyncColumn, Runs
<1>4. /\ IsTable(AddColumnSQL(n, c)) /\ AddColumnSQL(n, c).idx = db.idx
      /\ IsTable(ModifyColumnSQL(n, c)) /\ ModifyColumnSQL(n, c).idx = db.idx
    BY <1>0, TablesAre
<1> HIDE DEF n, c, l
<1>5. CASE \E can \in BOOLEAN : Runs(p, can, AddColumnSQL(n, c), l)
    BY <1>0, <1>1, <1>2, <1>4, <1>5, TableStepInv
<1>6. CASE \E can \in BOOLEAN : Runs(p, can, ModifyColumnSQL(n, c), l)
    BY <1>0, <1>1, <1>2, <1>4, <1>6, TableStepInv
<1>7. CASE Becomes(p, l) /\ UNCHANGED db
    BY <1>0, <1>1, <1>2, <1>7, BecomesInv
<1> QED
    BY <1>3, <1>5, <1>6, <1>7

\* The steps that read, decide or end.
LEMMA LocalStepsInv ==
    ASSUME OInv, NEW p \in Proc,
           \/ Start(p) \/ LoadColumns(p) \/ LoadIndexes(p) \/ CompareIndexes(p)
           \/ Finish(p) \/ Fault(p)
    PROVE  OInv' /\ KeepsOptions
<1>0. /\ UNCHANGED <<setup, db>> /\ IsLocal(loc[p]) /\ Allowed(loc[p])
    BY DEF Start, LoadColumns, LoadIndexes, CompareIndexes, Finish, Fault, OInv
<1>1. CASE Start(p)
  <2>1. PICK pc \in {"loadColumns", "sequence", "create"} :
            Becomes(p, [Idle EXCEPT !.alone = TRUE, !.pc = pc])
    BY <1>1 DEF Start
  <2> DEFINE l == [Idle EXCEPT !.alone = TRUE, !.pc = pc]
  <2>2. IsLocal(l) /\ l.pc = pc
    BY IdleAllowed DEF IsLocal
  <2>3. Allowed(l)
    BY <2>2 DEF Allowed
  <2> HIDE DEF l
  <2> QED
    BY <1>0, <2>1, <2>2, <2>3, BecomesInv DEF l
<1>2. CASE LoadColumns(p)
  <2> DEFINE l == [loc[p] EXCEPT !.pc = "loadIndexes", !.cols = GetColumns(Dialect)]
  <2>1. IsLocal(l) /\ l.pc = "loadIndexes"
    BY <1>0 DEF IsLocal
  <2>2. Allowed(l)
    BY <2>1 DEF Allowed
  <2>3. Becomes(p, l)
    BY <1>2 DEF LoadColumns
  <2> HIDE DEF l
  <2> QED
    BY <1>0, <2>1, <2>2, <2>3, BecomesInv
<1>3. CASE LoadIndexes(p)
  <2>1. PICK loaded :
            \/ Becomes(p, [loc[p] EXCEPT !.pc = "columns", !.idx = loaded,
                                         !.todo = StructOf(p).cols])
            \/ Becomes(p, Idle)
    BY <1>3 DEF LoadIndexes
  <2> DEFINE l == [loc[p] EXCEPT !.pc = "columns", !.idx = loaded, !.todo = StructOf(p).cols]
  <2>2. IsLocal(l) /\ l.pc = "columns"
    BY <1>0 DEF IsLocal
  <2>3. Allowed(l)
    BY <2>2 DEF Allowed
  <2>4. Becomes(p, l) \/ Becomes(p, Idle)
    BY <2>1
  <2> HIDE DEF l
  <2> QED
    BY <1>0, <2>2, <2>3, <2>4, IdleAllowed, BecomesInv
<1>4. CASE CompareIndexes(p)
  <2>1. PICK m : Becomes(p, [loc[p] EXCEPT !.pc = "indexes", !.cols = <<>>,
                                           !.idx = Drops(m, @), !.adds = Adds(m, loc[p].idx)])
    BY <1>4 DEF CompareIndexes
  <2> DEFINE l == [loc[p] EXCEPT !.pc = "indexes", !.cols = <<>>, !.idx = Drops(m, @),
                                 !.adds = Adds(m, loc[p].idx)]
  <2>2. /\ IsLocal(l) /\ l.pc = "indexes"
        /\ l.idx = Drops(m, loc[p].idx) /\ l.adds = Adds(m, loc[p].idx)
    BY <1>0 DEF IsLocal
  <2>3. Becomes(p, l)
    BY <2>1
  <2> HIDE DEF l
  <2>4. Allowed(l)
    BY <2>2 DEF Allowed, Drops, Adds
  <2> QED
    BY <1>0, <2>2, <2>3, <2>4, BecomesInv
<1>5. CASE Finish(p)
  <2> DEFINE l == [loc[p] EXCEPT !.pc = "done"]
  <2>1. IsLocal(l) /\ l.pc = "done"
    BY <1>0 DEF IsLocal
  <2>2. Allowed(l)
    BY <2>1 DEF Allowed
  <2>3. Becomes(p, l)
    BY <1>5 DEF Finish
  <2> HIDE DEF l
  <2> QED
    BY <1>0, <2>1, <2>2, <2>3, BecomesInv
<1>6. CASE Fault(p)
    BY <1>0, <1>6, IdleAllowed, BecomesInv DEF Fault
<1> QED
    BY <1>1, <1>2, <1>3, <1>4, <1>5, <1>6

LEMMA NextInv ==
    ASSUME OInv, [Next]_vars
    PROVE  OInv' /\ [KeepsOptions]_vars
<1>1. CASE UNCHANGED vars
    BY <1>1 DEF vars, OInv, IsTable, IsLocal, Allowed, AddIgnored, DropIgnored, Opts
<1>2. ASSUME NEW p \in Proc, Step(p) \/ Fault(p) PROVE OInv' /\ KeepsOptions
    BY <1>2, CreatesInv, AddsInv, DropIndexInv, SyncColumnInv, LocalStepsInv DEF Step
<1> QED
    BY <1>1, <1>2 DEF Next

----------------------------------------------------------------------------

\* SyncOptions hold for any dialect, any structs, any number of instances that run Sync at
\* the same time on what they loaded at different moments, and any faults: an index that an
\* instance has decided to drop or to add stays one its options allow, and a DROP removes
\* no index of another type (SyncWithOptions, the loops over indexes).
THEOREM SyncKeepsOptions == Spec => OptionsKept
<1>1. OInv /\ [Next]_vars => OInv' /\ [KeepsOptions]_vars
    BY NextInv
<1> QED
    BY <1>1, InitInv, PTL DEF Spec, OptionsKept

----------------------------------------------------------------------------
(* The types of the dialects, there and back *)

IsColumn(c) ==
    DOMAIN c = {"type", "length", "length2", "isAutoIncrement", "isPrimaryKey", "isJSON",
                "isJSONB", "comment"}

LEMMA EmptyIs == Empty # "_UNSIGNED" /\ Empty # "_WITH_TIME_ZONE"
BY Zenon DEF Empty

LEMMA ColumnIs ==
    ASSUME NEW t, NEW l, NEW k
    PROVE  /\ IsColumn(Column(t, l, k)) /\ Column(t, l, k).type = t /\ Column(t, l, k).length = l
           /\ Column(t, l, k).length2 = k
BY DEF Column, IsColumn

LEMMA LoadIs ==
    ASSUME NEW d, NEW t, IsColumn(GetColumn(d, Catalog(d, t.type)))
    PROVE  /\ IsColumn(LoadColumn(d, t))
           /\ LoadColumn(d, t).type = GetColumn(d, Catalog(d, t.type)).type
           /\ LoadColumn(d, t).length = GetColumn(d, Catalog(d, t.type)).length
           /\ LoadColumn(d, t).length2 = GetColumn(d, Catalog(d, t.type)).length2
           /\ LoadColumn(d, t).isAutoIncrement =
                 LoadedAuto(d, t, GetColumn(d, Catalog(d, t.type)))
           /\ d \in {"mysql", "postgres", "gbase8s"} => LoadColumn(d, t).comment = t.comment
<1> DEFINE col == GetColumn(d, Catalog(d, t.type))
           comment == IF d \in {"mysql", "postgres", "gbase8s"} THEN t.comment ELSE Empty
<1>1. LoadColumn(d, t) =
        [col EXCEPT !.comment = comment, !.isPrimaryKey = t.pk,
                    !.isAutoIncrement = LoadedAuto(d, t, col)]
    BY DEF LoadColumn
<1>2. d \in {"mysql", "postgres", "gbase8s"} => comment = t.comment
    OBVIOUS
<1> HIDE DEF col, comment
<1>3. /\ IsColumn(LoadColumn(d, t)) /\ LoadColumn(d, t).type = col.type
      /\ LoadColumn(d, t).length = col.length /\ LoadColumn(d, t).comment = comment
      /\ LoadColumn(d, t).length2 = col.length2
      /\ LoadColumn(d, t).isAutoIncrement = LoadedAuto(d, t, col)
    BY <1>1 DEF IsColumn, col
<1> QED
    BY <1>2, <1>3 DEF col

LEMMA MysqlBase ==
    ASSUME NEW c
    PROVE  /\ c.type = "BOOL" => mysqlSQLType(c).base = "TINYINT"
           /\ c.type = "BYTEA" => mysqlSQLType(c).base = "BLOB"
           /\ c.type = "TIMESTAMPZ" => mysqlSQLType(c).base = "CHAR"
           /\ c.type \in {"NVARCHAR", "UUID"} => mysqlSQLType(c).base = "VARCHAR"
           /\ c.type = "JSON" => mysqlSQLType(c).base = "TEXT"
           /\ c.type \in DOMAIN Signed =>
                mysqlSQLType(c).base = Signed[c.type] /\ mysqlSQLType(c).suffix = "_UNSIGNED"
           /\ c.type \notin DOMAIN Signed => mysqlSQLType(c).suffix = Empty
           /\ c.type \in ColumnTypes \ ({"BOOL", "BYTEA", "TIMESTAMPZ", "NVARCHAR", "UUID", "JSON"} \cup DOMAIN Signed) =>
                mysqlSQLType(c).base = c.type
BY DEF mysqlSQLType, Signed, Text, ColumnTypes, Ints, Blobs, LongTexts

LEMMA MysqlName ==
    ASSUME NEW t
    PROVE  LET name == Rename(t.type.base, CatalogNames["mysql"])
               col == GetColumn("mysql", Catalog("mysql", t.type)) IN
           /\ IsColumn(col)
           /\ t.type.suffix # "_UNSIGNED" => col.type = name
           /\ t.type.suffix = "_UNSIGNED" /\ (\E u \in DOMAIN Signed : Signed[u] = name) =>
                 col.type \in DOMAIN Signed /\ Signed[col.type] = name
<1> DEFINE r == Catalog("mysql", t.type)
           name == Rename(t.type.base, CatalogNames["mysql"])
           u == CHOOSE v \in DOMAIN Signed : Signed[v] = r.type.base
           type == IF r.type.suffix = "_UNSIGNED" THEN u ELSE r.type.base
           col == GetColumn("mysql", r)
<1>1. r.type.base = name /\ r.type.suffix = t.type.suffix
    BY DEF Catalog, Text
<1>2. col = mysqlGetColumn(r)
    BY DEF GetColumn
<1> HIDE DEF r, name, col
<1>3. col = IF r.type.lens = <<>> /\ type \in LongTexts THEN Column(type, r.size, 0)
            ELSE Column(type, Len1(r.type), Len2(r.type))
    BY <1>2 DEF mysqlGetColumn, Loaded
<1>4. (\E v \in DOMAIN Signed : Signed[v] = name) => u \in DOMAIN Signed /\ Signed[u] = name
    BY <1>1
<1> HIDE DEF r, name, u, col
<1> HIDE DEF type
<1>5. IsColumn(col) /\ col.type = type
    BY <1>3, ColumnIs
<1>6. /\ t.type.suffix # "_UNSIGNED" => col.type = name
      /\ t.type.suffix = "_UNSIGNED" /\ (\E v \in DOMAIN Signed : Signed[v] = name) =>
                 col.type \in DOMAIN Signed /\ Signed[col.type] = name
    BY <1>1, <1>4, <1>5 DEF type
<1> QED
    BY <1>5, <1>6 DEF r, name, col

LEMMA MysqlBack ==
    ASSUME NEW c, c.type \in ColumnTypes, NEW t, t.type = mysqlSQLType(c)
    PROVE  LET l == LoadColumn("mysql", t) IN
           /\ IsColumn(l)
           /\ c.type \notin {"BOOLEAN", "INTEGER", "REAL"} =>
                 mysqlSQLType(l).base = Alias("mysql", t.type.base)
           /\ mysqlSQLType(l).base = "VARCHAR" => t.type.base = "VARCHAR"
           /\ c.type \notin DOMAIN Signed => l.type \notin DOMAIN Signed
           /\ c.type \in DOMAIN Signed =>
                 l.type \in DOMAIN Signed /\ Signed[l.type] = Signed[c.type]
<1> DEFINE l == LoadColumn("mysql", t)
           b == t.type.base
           name == Rename(b, CatalogNames["mysql"])
           col == GetColumn("mysql", Catalog("mysql", t.type))
<1>1. /\ IsColumn(col)
      /\ t.type.suffix # "_UNSIGNED" => col.type = name
      /\ t.type.suffix = "_UNSIGNED" /\ (\E u \in DOMAIN Signed : Signed[u] = name) =>
            col.type \in DOMAIN Signed /\ Signed[col.type] = name
    BY MysqlName
<1>2. IsColumn(l) /\ l.type = col.type
    BY <1>1, LoadIs
<1> HIDE DEF col
<1>3. name = CASE b = "INTEGER" -> "INT" [] b = "NUMERIC" -> "DECIMAL" [] b = "REAL" -> "DOUBLE"
               [] b = "BOOLEAN" -> "TINYINT" [] OTHER -> b
    BY DEF Rename, CatalogNames
<1> HIDE DEF l, name
<1>4. CASE c.type \in DOMAIN Signed
  <2>1. b = Signed[c.type] /\ t.type.suffix = "_UNSIGNED"
    BY <1>4, MysqlBase
  <2>2. b \in {"INT", "BIGINT", "MEDIUMINT", "SMALLINT", "TINYINT", "FLOAT"}
    BY <1>4, <2>1 DEF Signed
  <2>3. name = b
    BY <1>3, <2>2
  <2>4. l.type \in DOMAIN Signed /\ Signed[l.type] = b
    BY <1>1, <1>2, <1>4, <2>1, <2>3
  <2>5. mysqlSQLType(l).base = b
    BY <2>4, MysqlBase
  <2> QED
    BY <1>2, <1>4, <2>1, <2>2, <2>4, <2>5 DEF Alias, l
<1>5. CASE c.type \notin DOMAIN Signed
  <2>1. t.type.suffix = Empty
    BY <1>5, MysqlBase
  <2>2. l.type = name
    BY <1>1, <1>2, <2>1, EmptyIs
  <2>3. b \in ColumnTypes \ {"BOOL", "BYTEA", "TIMESTAMPZ", "NVARCHAR", "UUID", "JSON"}
    BY <1>5, MysqlBase DEF ColumnTypes, Blobs, LongTexts, Ints
  <2>4. b \notin DOMAIN Signed
    BY <1>5, MysqlBase DEF Signed
  <2>5. l.type \in ColumnTypes \ {"BOOL", "BYTEA", "TIMESTAMPZ", "NVARCHAR", "UUID", "JSON"}
        /\ l.type \notin DOMAIN Signed
    BY <1>3, <2>2, <2>3, <2>4 DEF ColumnTypes, Blobs, LongTexts, Ints, Signed
  <2>6. mysqlSQLType(l).base = name
    BY <2>2, <2>5, MysqlBase
  <2>7. b \in {"BOOLEAN", "INTEGER", "REAL"} => c.type = b
    BY <1>5, MysqlBase DEF ColumnTypes
  <2> QED
    BY <1>2, <1>3, <1>5, <2>5, <2>6, <2>7 DEF Alias, l
<1> QED
    BY <1>4, <1>5

LEMMA PostgresBase ==
    ASSUME NEW c
    PROVE  LET b == postgresSQLType(c).base
               t == c.type
               serial(s, i) == IF c.isAutoIncrement THEN s ELSE i
           IN
           /\ t \in {"TINYINT", "UNSIGNED_TINYINT"} => b = "SMALLINT"
           /\ t = "BIT" => b = "BOOLEAN"
           /\ t \in {"MEDIUMINT", "INT", "INTEGER", "UNSIGNED_MEDIUMINT", "UNSIGNED_SMALLINT"} =>
                b = serial("SERIAL", "INTEGER")
           /\ t \in {"BIGINT", "UNSIGNED_BIGINT", "UNSIGNED_INT"} => b = serial("BIGSERIAL", "BIGINT")
           /\ t \in Blobs \cup {"BINARY", "VARBINARY"} => b = "BYTEA"
           /\ t = "TIMESTAMPZ" => b = "timestamp_with_time_zone"
           /\ t = "UUID" => b = "UUID"
           /\ t \in {"DOUBLE", "UNSIGNED_FLOAT"} => b = "DOUBLE_PRECISION"
           /\ t = "BOOL" => b = serial("SERIAL", "BOOL")
           /\ t = "DATETIME" => b = "TIMESTAMP"
           /\ t = "FLOAT" => b = "REAL"
           /\ t \in {"TINYTEXT", "MEDIUMTEXT", "LONGTEXT"} => b = "TEXT"
           /\ t = "NVARCHAR" => b = "VARCHAR"
           /\ t \in {"SMALLINT", "TEXT", "BOOLEAN", "REAL", "NUMERIC", "DECIMAL", "DATE", "TIME",
                     "TIMESTAMP", "CHAR", "VARCHAR", "BYTEA", "JSON"} => b = serial("SERIAL", t)
BY DEF postgresSQLType, Plain, Sized, Text, Blobs, Serials

LEMMA PostgresLoads ==
    ASSUME NEW x
    PROVE  LET col == GetColumn("postgres", Catalog("postgres", x))
               b == x.base
           IN
           /\ IsColumn(col)
           /\ b \in {"INTEGER", "SERIAL"} => col.type = "INTEGER"
           /\ b = "BIGSERIAL" => col.type = "BIGINT"
           /\ b \in {"BOOL", "BOOLEAN"} => col.type = "BOOL"
           /\ b = "TIMESTAMP" => col.type = "DATETIME"
           /\ b = "timestamp_with_time_zone" => col.type = "TIMESTAMPZ"
           /\ b = "DOUBLE_PRECISION" => col.type = "DOUBLE"
           /\ b \in {"NUMERIC", "DECIMAL"} => col.type = "NUMERIC"
           /\ b \in {"SMALLINT", "BIGINT", "BYTEA", "UUID", "REAL", "TEXT", "VARCHAR", "CHAR", "DATE",
                     "TIME", "JSON"} => col.type = b
           /\ col.length = Catalog("postgres", x).size
<1> DEFINE r == Catalog("postgres", x)
           b == x.base
           col == GetColumn("postgres", r)
           name == Rename(b, CatalogNames["postgres"])
<1>0. /\ name = "timestamp_with_time_zone" => r.type = Text("TIMESTAMP_WITH_TIME_ZONE", <<>>, Empty)
      /\ name # "timestamp_with_time_zone" => r.type = Text(name, <<>>, Empty)
    BY DEF Catalog
<1> HIDE DEF r, name
<1>1. /\ name = "timestamp_with_time_zone" => r.type.base = "TIMESTAMP_WITH_TIME_ZONE"
      /\ name # "timestamp_with_time_zone" => r.type.base = name
    BY <1>0 DEF Text
<1> USE DEF r
<1>2. col = Column(postgresName(r.type.base), r.size, 0)
    BY DEF GetColumn, postgresGetColumn, Loaded
<1>3. /\ b \in {"INTEGER", "SERIAL"} => name = "INTEGER"
      /\ b = "BIGSERIAL" => name = "BIGINT"
      /\ b = "VARCHAR" => name = "CHARACTER_VARYING"
      /\ b = "CHAR" => name = "CHARACTER"
      /\ b = "TIMESTAMP" => name = "TIMESTAMP_WITHOUT_TIME_ZONE"
      /\ b = "BOOL" => name = "BOOLEAN"
      /\ b = "TIME" => name = "TIME_WITHOUT_TIME_ZONE"
      /\ b = "DECIMAL" => name = "NUMERIC"
      /\ b \in {"timestamp_with_time_zone", "DOUBLE_PRECISION", "BOOLEAN", "NUMERIC", "SMALLINT",
                "BIGINT", "BYTEA", "UUID", "REAL", "TEXT", "DATE", "JSON"} => name = b
  <2> DEFINE names == CatalogNames["postgres"]
  <2>1. names = [INTEGER |-> "INTEGER", SERIAL |-> "INTEGER", BIGSERIAL |-> "BIGINT",
                 VARCHAR |-> "CHARACTER_VARYING", CHAR |-> "CHARACTER",
                 TIMESTAMP |-> "TIMESTAMP_WITHOUT_TIME_ZONE", BOOL |-> "BOOLEAN",
                 TIME |-> "TIME_WITHOUT_TIME_ZONE", DECIMAL |-> "NUMERIC"]
    BY DEF CatalogNames
  <2>2. name = IF b \in DOMAIN names THEN names[b] ELSE b
    BY DEF Rename, name
  <2> HIDE DEF names, name, b
  <2>3. DOMAIN names = {"INTEGER", "SERIAL", "BIGSERIAL", "VARCHAR", "CHAR", "TIMESTAMP", "BOOL",
                        "TIME", "DECIMAL"}
    BY <2>1
  <2>4. /\ names["INTEGER"] = "INTEGER" /\ names["SERIAL"] = "INTEGER"
        /\ names["BIGSERIAL"] = "BIGINT" /\ names["VARCHAR"] = "CHARACTER_VARYING"
        /\ names["CHAR"] = "CHARACTER" /\ names["TIMESTAMP"] = "TIMESTAMP_WITHOUT_TIME_ZONE"
        /\ names["BOOL"] = "BOOLEAN" /\ names["TIME"] = "TIME_WITHOUT_TIME_ZONE"
        /\ names["DECIMAL"] = "NUMERIC"
    BY <2>1
  <2> QED
    BY <2>2, <2>3, <2>4
<1>4. \A y : /\ y = "CHARACTER_VARYING" => postgresName(y) = "VARCHAR"
             /\ y = "CHARACTER" => postgresName(y) = "CHAR"
             /\ y = "TIMESTAMP_WITHOUT_TIME_ZONE" => postgresName(y) = "DATETIME"
             /\ y = "TIMESTAMP_WITH_TIME_ZONE" => postgresName(y) = "TIMESTAMPZ"
             /\ y = "DOUBLE_PRECISION" => postgresName(y) = "DOUBLE"
             /\ y = "BOOLEAN" => postgresName(y) = "BOOL"
             /\ y = "TIME_WITHOUT_TIME_ZONE" => postgresName(y) = "TIME"
             /\ y \in {"INTEGER", "BIGINT", "NUMERIC", "SMALLINT", "BYTEA", "UUID", "REAL", "TEXT",
                       "DATE", "JSON"} => postgresName(y) = y
    BY DEF postgresName
<1> HIDE DEF r, col
<1>5. IsColumn(col) /\ col.type = postgresName(r.type.base) /\ col.length = r.size
    BY <1>2, ColumnIs
<1> QED
    BY <1>1, <1>3, <1>4, <1>5 DEF r, col

LEMMA PostgresBack ==
    ASSUME NEW c, c.type \in ColumnTypes, NEW t, t.type = postgresSQLType(c)
    PROVE  LET l == LoadColumn("postgres", t) IN
           /\ IsColumn(l)
           /\ /\ c.type \notin {"BOOLEAN", "BIT", "NUMERIC", "DECIMAL"}
              /\ t.auto = c.isAutoIncrement /\ (c.isAutoIncrement => c.type \in AutoTypes)
              => postgresSQLType(l).base = Alias("postgres", t.type.base)
           /\ postgresSQLType(l).base = "VARCHAR" => t.type.base = "VARCHAR"
<1> DEFINE l == LoadColumn("postgres", t)
           b == t.type.base
           col == GetColumn("postgres", Catalog("postgres", t.type))
<1>1. IsColumn(col)
    BY PostgresLoads
<1>2. /\ IsColumn(l) /\ l.type = col.type
      /\ l.isAutoIncrement = LoadedAuto("postgres", t, col)
    BY <1>1, LoadIs
<1>3. l.isAutoIncrement = t.auto
    BY <1>2 DEF LoadedAuto
<1>4. /\ b \in {"INTEGER", "SERIAL"} => l.type = "INTEGER"
      /\ b = "BIGSERIAL" => l.type = "BIGINT"
      /\ b \in {"BOOL", "BOOLEAN"} => l.type = "BOOL"
      /\ b = "TIMESTAMP" => l.type = "DATETIME"
      /\ b = "timestamp_with_time_zone" => l.type = "TIMESTAMPZ"
      /\ b = "DOUBLE_PRECISION" => l.type = "DOUBLE"
      /\ b \in {"NUMERIC", "DECIMAL"} => l.type = "NUMERIC"
      /\ b \in {"SMALLINT", "BIGINT", "BYTEA", "UUID", "REAL", "TEXT", "VARCHAR", "CHAR", "DATE",
                "TIME", "JSON"} => l.type = b
    BY <1>2, PostgresLoads
<1>5. b \in {"SMALLINT", "BOOLEAN", "SERIAL", "INTEGER", "BIGSERIAL", "BIGINT", "BYTEA",
             "timestamp_with_time_zone", "UUID", "DOUBLE_PRECISION", "BOOL", "TIMESTAMP", "REAL",
             "TEXT", "VARCHAR", "NUMERIC", "DECIMAL", "DATE", "TIME", "CHAR", "JSON"}
    BY PostgresBase DEF ColumnTypes, Ints, Blobs, LongTexts, Signed
<1> HIDE DEF col, l
<1>6. postgresSQLType(l).base = "VARCHAR" => b = "VARCHAR"
    BY <1>4, <1>5, PostgresBase DEF Blobs
<1>7. ASSUME c.type \notin {"BOOLEAN", "BIT", "NUMERIC", "DECIMAL"},
             t.auto = c.isAutoIncrement, c.isAutoIncrement => c.type \in AutoTypes
      PROVE  postgresSQLType(l).base = b /\ b # "NUMERIC"
  <2>1. CASE c.isAutoIncrement
    BY <1>3, <1>4, <1>7, <2>1, PostgresBase DEF AutoTypes
  <2>2. CASE ~c.isAutoIncrement
    <3>1. b \notin {"BOOLEAN", "SERIAL", "BIGSERIAL", "NUMERIC", "DECIMAL"}
        BY <1>7, <2>2, PostgresBase DEF ColumnTypes, Ints, Blobs, LongTexts, Signed
    <3> QED
        BY <1>3, <1>4, <1>5, <1>7, <2>2, <3>1, PostgresBase DEF Blobs
  <2> QED
    BY <2>1, <2>2
<1> QED
    BY <1>2, <1>6, <1>7 DEF Alias, l

----------------------------------------------------------------------------

LEMMA SqliteBase ==
    ASSUME NEW c
    PROVE  LET b == sqlite3SQLType(c).base
               t == c.type
           IN
           /\ t = "BOOL" => b = "INTEGER"
           /\ t \in {"DATE", "DATETIME", "TIMESTAMP", "TIME"} => b = "DATETIME"
           /\ t \in LongTexts \cup {"TIMESTAMPZ", "CHAR", "VARCHAR", "NVARCHAR", "TINYTEXT", "JSON"} =>
                b = "TEXT"
           /\ t \in Ints \cup {"UNSIGNED_TINYINT", "UNSIGNED_SMALLINT", "UNSIGNED_INT",
                              "UNSIGNED_BIGINT"} => b = "INTEGER"
           /\ t \in {"FLOAT", "DOUBLE", "REAL"} => b = "REAL"
           /\ t \in {"DECIMAL", "NUMERIC"} => b = "NUMERIC"
           /\ t \in Blobs \cup {"BYTEA", "BINARY", "VARBINARY"} => b = "BLOB"
           /\ t \in {"BOOLEAN", "UUID"} => b = t
BY DEF sqlite3SQLType, Plain, Text, Ints, Blobs, LongTexts, Serials

LEMMA SqliteBack ==
    ASSUME NEW c, c.type \in ColumnTypes, NEW t, t.type = sqlite3SQLType(c),
           c.type \notin {"UNSIGNED_MEDIUMINT", "UNSIGNED_FLOAT"}
    PROVE  LET l == LoadColumn("sqlite3", t) IN
           sqlite3SQLType(l).base = t.type.base
<1> DEFINE l == LoadColumn("sqlite3", t)
           b == t.type.base
           r == Catalog("sqlite3", t.type)
           col == GetColumn("sqlite3", r)
           name == Rename(b, CatalogNames["sqlite3"])
<1>1. b \in {"INTEGER", "DATETIME", "TEXT", "REAL", "NUMERIC", "BLOB", "BOOLEAN", "UUID"}
    BY SqliteBase DEF ColumnTypes, Ints, Blobs, LongTexts, Signed
<1>2. name = b
    BY DEF Rename, CatalogNames
<1>3. r.type.base = name
    BY DEF Catalog, Text
<1>4. col = Column(IF r.type.base \in DOMAIN Signed THEN "UNSIGNED" ELSE r.type.base, 0, 0)
    BY DEF GetColumn, sqlite3GetColumn, Loaded
<1> HIDE DEF r, name, col, b
<1>5. col = Column(b, 0, 0)
    BY <1>1, <1>2, <1>3, <1>4 DEF Signed
<1>6. IsColumn(col) /\ col.type = b
    BY <1>5, ColumnIs
<1>7. l.type = b
    BY <1>6, LoadIs DEF r, col
<1> HIDE DEF l
<1> QED
    BY <1>1, <1>7, SqliteBase DEF l, b, LongTexts, Ints, Blobs

LEMMA MssqlBase ==
    ASSUME NEW c
    PROVE  LET b == mssqlSQLType(c).base
               t == c.type
           IN
           /\ t \in {"BOOL", "BOOLEAN", "BIT"} => b = "BIT"
           /\ t \in {"INT", "MEDIUMINT", "SMALLINT", "UNSIGNED_MEDIUMINT", "UNSIGNED_TINYINT",
                     "UNSIGNED_SMALLINT"} => b = "INT"
           /\ t \in Blobs \cup {"BYTEA", "BINARY", "VARBINARY"} => b = "VARBINARY"
           /\ t \in {"TIMESTAMP", "DATETIME"} => b = "DATETIME2"
           /\ t = "TIMESTAMPZ" => b = "DATETIMEOFFSET"
           /\ t \in LongTexts \cup {"TINYTEXT", "JSON", "UUID", "VARCHAR"} => b = "VARCHAR"
           /\ t \in {"DOUBLE", "UNSIGNED_FLOAT", "REAL"} => b = "REAL"
           /\ t \in {"BIGINT", "UNSIGNED_BIGINT", "UNSIGNED_INT"} => b = "BIGINT"
           /\ t \in {"TINYINT", "NVARCHAR", "CHAR", "INTEGER", "FLOAT", "NUMERIC", "DECIMAL", "DATE",
                     "TIME"} => b = t
BY DEF mssqlSQLType, Plain, Sized, Text, Blobs, LongTexts

LEMMA MssqlBack ==
    ASSUME NEW c, c.type \in ColumnTypes, NEW t, t.type = mssqlSQLType(c), c.type # "INTEGER"
    PROVE  mssqlSQLType(LoadColumn("mssql", t)).base = t.type.base
<1> DEFINE l == LoadColumn("mssql", t)
           b == t.type.base
           r == Catalog("mssql", t.type)
           col == GetColumn("mssql", r)
           name == Rename(b, CatalogNames["mssql"])
<1>1. b \in {"BIT", "INT", "VARBINARY", "DATETIME2", "DATETIMEOFFSET", "VARCHAR", "REAL", "BIGINT",
             "TINYINT", "NVARCHAR", "CHAR", "FLOAT", "NUMERIC", "DECIMAL", "DATE", "TIME"}
    BY MssqlBase DEF ColumnTypes, Ints, Blobs, LongTexts, Signed
<1>2. name = b
    BY <1>1 DEF Rename, CatalogNames
<1>3. r.type.base = name
    BY DEF Catalog, Text
<1> HIDE DEF r, name, b
<1>4. /\ IsColumn(col)
      /\ b = "DATETIMEOFFSET" => col.type = "TIMESTAMPZ"
      /\ b = "DATETIME2" => col.type = "DATETIME"
      /\ b \notin {"DATETIMEOFFSET", "DATETIME2"} => col.type = b
    BY <1>1, <1>2, <1>3, ColumnIs DEF GetColumn, mssqlGetColumn, Loaded
<1> HIDE DEF col
<1>5. l.type = col.type
    BY <1>4, LoadIs DEF r, col
<1> HIDE DEF l
<1> QED
    BY <1>1, <1>4, <1>5, MssqlBase DEF l, b, LongTexts, Blobs

----------------------------------------------------------------------------

LEMMA OracleBase ==
    ASSUME NEW c
    PROVE  LET b == oracleSQLType(c).base
               t == c.type
           IN
           /\ t \in Blobs \cup {"BINARY", "VARBINARY", "BYTEA"} => b = "BLOB"
           /\ t \in Ints \cup {"BOOL", "FLOAT", "DOUBLE", "NUMERIC", "DECIMAL"} => b = "NUMBER"
           /\ t \in {"TIME", "DATETIME", "TIMESTAMP"} => b = "TIMESTAMP"
           /\ t \in LongTexts \cup {"JSON"} => b = "CLOB"
           /\ t \in {"CHAR", "VARCHAR", "TINYTEXT"} => b = "VARCHAR2"
           /\ t \in DOMAIN Signed \cup {"BOOLEAN", "DATE", "NVARCHAR", "UUID", "BLOB", "CLOB"} =>
                b = t
BY DEF oracleSQLType, Sized, Plain, Text, Blobs, LongTexts, Ints, Serials, Signed

LEMMA OracleBack ==
    ASSUME NEW c, c.type \in ColumnTypes, NEW t, t.type = oracleSQLType(c),
           c.type \notin {"TIMESTAMPZ", "REAL"}
    PROVE  oracleSQLType(LoadColumn("oracle", t)).base = t.type.base
<1> DEFINE l == LoadColumn("oracle", t)
           b == t.type.base
           r == Catalog("oracle", t.type)
           col == GetColumn("oracle", r)
           name == Rename(b, CatalogNames["oracle"])
<1>1. b \in {"BLOB", "NUMBER", "TIMESTAMP", "CLOB", "VARCHAR2", "BOOLEAN", "DATE", "NVARCHAR", "UUID"}
            \cup DOMAIN Signed
    BY OracleBase DEF ColumnTypes, Ints, Blobs, LongTexts
<1>2. name = b
    BY <1>1 DEF Rename, CatalogNames, Signed
<1>3. name # "TIMESTAMP_WITH_TIME_ZONE"
    BY <1>1, <1>2 DEF Signed
<1>4. r.type.base = name
    BY <1>3 DEF Catalog, Text
<1>5. col = Column(oracleName(r.type.base), r.size, 0)
    BY DEF GetColumn, oracleGetColumn, Loaded
<1> HIDE DEF r, name, b, col
<1>6. IsColumn(col) /\ col.type = oracleName(b)
    BY <1>2, <1>4, <1>5, ColumnIs
<1>7. l.type = oracleName(b)
    BY <1>6, LoadIs DEF r, col
<1>8. /\ b = "VARCHAR2" => oracleName(b) = "VARCHAR"
      /\ b = "NUMBER" => oracleName(b) = "DOUBLE"
      /\ b \notin {"VARCHAR2", "NUMBER"} => oracleName(b) = b
    BY <1>1 DEF oracleName, Signed
<1> HIDE DEF l
<1> QED
    BY <1>1, <1>7, <1>8, OracleBase DEF l, b, LongTexts, Blobs, Ints

LEMMA DamengBase ==
    ASSUME NEW c
    PROVE  LET b == damengSQLType(c).base
               t == c.type
           IN
           /\ t \in {"SMALLINT", "MEDIUMINT", "INT", "INTEGER", "UNSIGNED_TINYINT"} => b = "INTEGER"
           /\ t \in {"BIGINT", "UNSIGNED_BIGINT", "UNSIGNED_INT"} => b = "BIGINT"
           /\ t \in {"BIT", "BOOL", "BOOLEAN"} => b = "BIT"
           /\ t \in Blobs \cup {"VARBINARY", "BYTEA"} => b = "VARBINARY"
           /\ t \in {"DATETIME", "TIMESTAMP"} => b = "TIMESTAMP"
           /\ t = "TIMESTAMPZ" /\ c.length > 0 =>
                b = "TIMESTAMP" /\ damengSQLType(c).suffix = "_WITH_TIME_ZONE"
           /\ t # "TIMESTAMPZ" => damengSQLType(c).suffix = Empty
           /\ t \in {"REAL", "DOUBLE"} => b = "REAL"
           /\ t \in {"NUMERIC", "DECIMAL"} => b = "NUMERIC"
           /\ t \in {"TEXT", "JSON"} => b = "TEXT"
           /\ t \in {"CHAR", "VARCHAR", "TINYTEXT"} => b = "VARCHAR2"
           /\ t \in {"TINYINT", "DATE", "TIME", "FLOAT", "NVARCHAR", "UNSIGNED_SMALLINT",
                     "UNSIGNED_MEDIUMINT", "UNSIGNED_FLOAT", "VARCHAR2"} => b = t
BY DEF damengSQLType, Plain, Sized, Text, Blobs, LongTexts, Serials

LEMMA DamengBack ==
    ASSUME NEW c, c.type \in ColumnTypes, NEW t, t.type = damengSQLType(c),
           c.type \notin {"MEDIUMTEXT", "LONGTEXT", "UUID", "BINARY"},
           c.type = "TIMESTAMPZ" => c.length > 0
    PROVE  damengSQLType(LoadColumn("dameng", t)).base = t.type.base
<1> DEFINE l == LoadColumn("dameng", t)
           b == t.type.base
           r == Catalog("dameng", t.type)
           col == GetColumn("dameng", r)
           name == Rename(b, CatalogNames["dameng"])
           zoned == "TIMESTAMP_WITH_TIME_ZONE"
<1>1. b \in {"INTEGER", "BIGINT", "BIT", "VARBINARY", "TIMESTAMP", "REAL", "NUMERIC", "TEXT",
             "VARCHAR2", "TINYINT", "DATE", "TIME", "FLOAT", "NVARCHAR", "UNSIGNED_SMALLINT",
             "UNSIGNED_MEDIUMINT", "UNSIGNED_FLOAT"}
    BY DamengBase DEF ColumnTypes, Ints, Blobs, LongTexts, Signed
<1>2. /\ c.type = "TIMESTAMPZ" => b = "TIMESTAMP" /\ t.type.suffix = "_WITH_TIME_ZONE"
      /\ c.type # "TIMESTAMPZ" => t.type.suffix # "_WITH_TIME_ZONE"
    BY DamengBase, EmptyIs
<1>3. name = b
    BY DEF Rename, CatalogNames
<1>4. /\ c.type = "TIMESTAMPZ" => r.type.base = zoned /\ r.size = 10
      /\ c.type # "TIMESTAMPZ" => r.type.base = b
  <2> DEFINE base == IF t.type.suffix = "_WITH_TIME_ZONE" THEN zoned ELSE name
             size == IF base \in DOMAIN DamengSize THEN DamengSize[base] ELSE Len1(t.type)
  <2>1. r.type = Text(base, <<>>, Empty) /\ r.size = size
    BY DEF Catalog
  <2>2. c.type = "TIMESTAMPZ" => base = zoned
    BY <1>2
  <2>3. c.type # "TIMESTAMPZ" => base = b
    BY <1>2, <1>3
  <2>4. base = zoned => size = 10
    BY DEF DamengSize
  <2> HIDE DEF base, size, r
  <2> QED
    BY <2>1, <2>2, <2>3, <2>4 DEF Text
<1>5. /\ col = Column(damengName(r.type.base),
                     IF damengName(r.type.base) = "TIMESTAMP" THEN r.scale ELSE r.size, 0)
    BY DEF GetColumn, damengGetColumn, Loaded
<1>6. damengName(zoned) = "TIMESTAMPZ" /\ damengName(b) = b
    BY <1>1 DEF damengName
<1> HIDE DEF r, name, b, col
<1>7. /\ IsColumn(col) /\ col.type = damengName(r.type.base)
      /\ damengName(r.type.base) # "TIMESTAMP" => col.length = r.size
    BY <1>5, ColumnIs
<1>8. l.type = col.type /\ l.length = col.length
    BY <1>7, LoadIs DEF r, col
<1> HIDE DEF l
<1>9. CASE c.type = "TIMESTAMPZ"
  <2>1. l.type = "TIMESTAMPZ" /\ l.length = 10
    BY <1>4, <1>6, <1>7, <1>8, <1>9
  <2> QED
    BY <1>2, <1>9, <2>1, DamengBase DEF l, b
<1>10. CASE c.type # "TIMESTAMPZ"
  <2>1. l.type = b
    BY <1>4, <1>6, <1>7, <1>8, <1>10
  <2> QED
    BY <1>1, <2>1, DamengBase DEF l, b, Blobs
<1> QED
    BY <1>9, <1>10

----------------------------------------------------------------------------

LEMMA GbaseBase ==
    ASSUME NEW c
    PROVE  LET b == gbase8sSQLType(c).base
               t == c.type
               serial(s, i) == IF c.isAutoIncrement THEN s ELSE i
           IN
           /\ t \in {"TINYINT", "UNSIGNED_TINYINT", "SMALLINT", "BIT"} => b = "SMALLINT"
           /\ t \in {"UNSIGNED_SMALLINT", "MEDIUMINT", "UNSIGNED_MEDIUMINT", "INT", "INTEGER"} =>
                b = serial("SERIAL", "INT")
           /\ t \in {"UNSIGNED_INT", "BIGINT", "UNSIGNED_BIGINT"} => b = serial("BIGSERIAL", "BIGINT")
           /\ t = "REAL" => b = "_SMALLFLOAT"
           /\ t \in {"UNSIGNED_FLOAT", "DOUBLE", "FLOAT"} => b = "FLOAT"
           /\ t \in {"DECIMAL", "NUMERIC", "BOOL", "BOOLEAN"} => b = "NUMERIC"
           /\ t \in {"CHAR", "UUID"} => b = "CHAR"
           /\ t \in {"VARCHAR", "NVARCHAR"} => b = "VARCHAR"
           /\ t \in LongTexts \cup {"TINYTEXT"} => b = "TEXT"
           /\ t \in Blobs \cup {"VARBINARY", "BYTEA"} => b = "BLOB"
           /\ t = "BINARY" => b = "BYTE"
           /\ t \in {"DATETIME", "TIMESTAMP", "TIMESTAMPZ", "TIME"} =>
                b = IF c.length \in 1 .. 5 THEN "DATETIME_YEAR_TO_FRACTION"
                    ELSE "DATETIME_YEAR_TO__FRACTION"
           /\ t \in {"JSON", "DATE", "SERIAL", "BIGSERIAL"} => b = t
BY DEF gbase8sSQLType, Plain, Sized, Text, Blobs, LongTexts, Serials

LEMMA GbaseBack ==
    ASSUME NEW c, c.type \in ColumnTypes, NEW t, t.type = gbase8sSQLType(c),
           c.length \in 1 .. 5 => c.type \notin {"DATETIME", "TIMESTAMP", "TIMESTAMPZ", "TIME"}
    PROVE  gbase8sSQLType(LoadColumn("gbase8s", t)).base = t.type.base
<1> DEFINE l == LoadColumn("gbase8s", t)
           b == t.type.base
           r == Catalog("gbase8s", t.type)
           col == GetColumn("gbase8s", r)
           name == Rename(b, CatalogNames["gbase8s"])
           time == "DATETIME_YEAR_TO__FRACTION"
<1>1. b \in {"SMALLINT", "SERIAL", "INT", "BIGSERIAL", "BIGINT", "_SMALLFLOAT", "FLOAT", "NUMERIC",
             "CHAR", "VARCHAR", "TEXT", "BLOB", "BYTE", time, "JSON", "DATE"}
    BY GbaseBase DEF ColumnTypes, Ints, Blobs, LongTexts, Signed
<1>2. /\ b = "INT" => name = "INTEGER"
      /\ b = "NUMERIC" => name = "DECIMAL"
      /\ b = "_SMALLFLOAT" => name = "SMALLFLOAT"
      /\ b \notin {"INT", "NUMERIC", "_SMALLFLOAT"} => name = b
    BY DEF Rename, CatalogNames
<1>3. /\ b # time => r.type.base = name
      /\ b = time => r.type.base = "DATETIME_YEAR_TO_FRACTION" /\ r.precision = 17 /\ r.scale = 15
    BY <1>1, <1>2 DEF Catalog, Text
<1>4. PICK k : col = [Column(gbase8sName(r.type.base),
                             IF r.scale # 0 /\ r.precision # 0 THEN r.precision ELSE r.scale, k)
                      EXCEPT !.isAutoIncrement = r.type.base \in Serials]
    BY DEF GetColumn, gbase8sGetColumn, Loaded
<1> HIDE DEF r, name, b, col
<1>5. /\ IsColumn(col) /\ col.type = gbase8sName(r.type.base)
      /\ col.isAutoIncrement = (r.type.base \in Serials)
      /\ r.scale # 0 /\ r.precision # 0 => col.length = r.precision
  <2> DEFINE len == IF r.scale # 0 /\ r.precision # 0 THEN r.precision ELSE r.scale
             c0 == Column(gbase8sName(r.type.base), len, k)
             auto == r.type.base \in Serials
  <2>1. IsColumn(c0) /\ c0.type = gbase8sName(r.type.base) /\ c0.length = len
    BY ColumnIs
  <2>2. col = [c0 EXCEPT !.isAutoIncrement = auto]
    BY <1>4
  <2>3. r.scale # 0 /\ r.precision # 0 => len = r.precision
    OBVIOUS
  <2> HIDE DEF len, c0, auto
  <2>4. /\ IsColumn(col) /\ col.type = c0.type /\ col.length = c0.length
        /\ col.isAutoIncrement = auto
    BY <2>1, <2>2 DEF IsColumn
  <2> QED
    BY <2>1, <2>3, <2>4 DEF auto
<1>6. /\ b = "INT" => col.type = "INTEGER"
      /\ b = "NUMERIC" => col.type = "DECIMAL"
      /\ b = "_SMALLFLOAT" => col.type = "REAL"
      /\ b = "BYTE" => col.type = "BINARY"
      /\ b = time => col.type = "TIMESTAMP" /\ col.length = 17
      /\ b \notin {"INT", "NUMERIC", "_SMALLFLOAT", "BYTE", time} => col.type = b
    BY <1>1, <1>2, <1>3, <1>5 DEF gbase8sName
<1>7. b \in {"INT", "BIGINT"} => ~col.isAutoIncrement
    BY <1>2, <1>3, <1>5 DEF Serials
<1>8. /\ l.type = col.type /\ l.length = col.length
      /\ l.isAutoIncrement = LoadedAuto("gbase8s", t, col)
    BY <1>5, LoadIs DEF r, col
<1>9. b \in {"INT", "BIGINT"} => ~l.isAutoIncrement
    BY <1>7, <1>8 DEF LoadedAuto, Serials, b
<1> HIDE DEF l
<1> QED
    BY <1>1, <1>6, <1>8, <1>9, GbaseBase DEF l, b, Blobs, LongTexts

----------------------------------------------------------------------------
(* Back from the catalog, for every dialect *)

LEMMA TypesBack ==
    ASSUME NEW d \in Dialects, NEW c, c.type \in ColumnTypes, NEW t, t.type = SQLType(d, c),
           t.auto = c.isAutoIncrement, c.isAutoIncrement => c.type \in AutoTypes,
           c.type \notin Drifts[d],
           d = "gbase8s" /\ c.length \in 1 .. 5 =>
                c.type \notin {"DATETIME", "TIMESTAMP", "TIMESTAMPZ", "TIME"},
           d = "dameng" /\ c.type = "TIMESTAMPZ" => c.length > 0
    PROVE  SQLType(d, LoadColumn(d, t)).base = Alias(d, t.type.base)
<1> USE DEF SQLType
<1>1. CASE d = "mysql"
    BY <1>1, MysqlBack DEF Drifts
<1>2. CASE d = "postgres"
    BY <1>2, PostgresBack DEF Drifts
<1>3. CASE d = "sqlite3"
    BY <1>3, SqliteBack DEF Drifts, Alias
<1>4. CASE d = "mssql"
    BY <1>4, MssqlBack DEF Drifts, Alias
<1>5. CASE d = "oracle"
    BY <1>5, OracleBack DEF Drifts, Alias
<1>6. CASE d = "dameng"
    BY <1>6, DamengBack DEF Drifts, Alias
<1>7. CASE d = "gbase8s"
    BY <1>7, GbaseBack DEF Drifts, Alias
<1> QED
    BY <1>1, <1>2, <1>3, <1>4, <1>5, <1>6, <1>7 DEF Dialects

LEMMA VarcharBack ==
    ASSUME NEW d \in {"mysql", "postgres"}, NEW c, c.type \in ColumnTypes, NEW t,
           t.type = SQLType(d, c), SQLType(d, LoadColumn(d, t)).base = "VARCHAR"
    PROVE  t.type.base = "VARCHAR"
<1>1. CASE d = "mysql"
    BY <1>1, MysqlBack DEF SQLType
<1>2. CASE d = "postgres"
    BY <1>2, PostgresBack DEF SQLType
<1> QED
    BY <1>1, <1>2

\* The comment and the length as they are loaded.
LEMMA CommentBack ==
    ASSUME NEW d \in {"mysql", "postgres", "gbase8s"}, NEW t
    PROVE  LoadColumn(d, t).comment = t.comment
<1>1. CASE d = "mysql"
    BY <1>1, MysqlName, LoadIs
<1>2. CASE d = "postgres"
    BY <1>2, PostgresLoads, LoadIs
<1>3. CASE d = "gbase8s"
  <2> DEFINE r == Catalog("gbase8s", t.type)
             col == GetColumn("gbase8s", r)
  <2>1. PICK n, k, m : col = [Column(n, k, m) EXCEPT !.isAutoIncrement = r.type.base \in Serials]
    BY DEF GetColumn, gbase8sGetColumn, Loaded
  <2>2. IsColumn(Column(n, k, m))
    BY ColumnIs
  <2> HIDE DEF col
  <2>3. IsColumn(col)
    BY <2>1, <2>2 DEF IsColumn
  <2> QED
    BY <1>3, <2>3, LoadIs DEF col, r
<1> QED
    BY <1>1, <1>2, <1>3

LEMMA LensAre ==
    ASSUME NEW c, c.length \in Nat
    PROVE  Lens(c) = <<>> \/ Lens(c)[1] \in Nat
<1>1. Lens(c) = <<>> \/ Lens(c) = <<c.length>> \/ Lens(c) = <<c.length, c.length2>>
    BY DEF Lens
<1>2. CASE Lens(c) = <<c.length>>
    BY <1>2
<1>3. CASE Lens(c) = <<c.length, c.length2>>
    BY <1>3
<1> QED
    BY <1>1, <1>2, <1>3

LEMMA SizedIs ==
    ASSUME NEW x, x.lens = <<>> \/ x.lens[1] \in Nat
    PROVE  Len1(x) \in Nat
BY DEF Len1

\* The length that mysqlSQLType settles on.
WithLength(c, n) == [c EXCEPT !.length = n]

LEMMA MysqlLens ==
    ASSUME NEW c \in ColumnDef
    PROVE  \E n \in Nat : /\ mysqlSQLType(c).lens = Lens(WithLength(c, n))
                          /\ c.type = "UUID" => n = 40
                          /\ c.type \in {"VARCHAR", "NVARCHAR"} => n = c.length
<1> DEFINE
    t == c.type
    res == CASE t = "BOOL" -> "TINYINT" [] t = "SERIAL" -> "INT"
             [] t = "BIGSERIAL" -> "BIGINT" [] t = "BYTEA" -> "BLOB"
             [] t = "TIMESTAMPZ" -> "CHAR" [] t = "NVARCHAR" -> "VARCHAR"
             [] t = "UUID" -> "VARCHAR" [] t = "JSON" -> "TEXT"
             [] t \in DOMAIN Signed -> Signed[t]
             [] OTHER -> t
    length == CASE t = "BOOL" -> 1 [] t = "TIMESTAMPZ" -> 64 [] t = "UUID" -> 40
                [] res = "BIGINT" /\ c.length <= 0 /\ c.length2 <= 0 -> 20
                [] OTHER -> c.length
    suffix == IF t \in DOMAIN Signed THEN "_UNSIGNED" ELSE Empty
    lens(n) == Lens(WithLength(c, n))
<1>1. mysqlSQLType(c) = Text(res, lens(length), suffix)
    BY Zenon DEF mysqlSQLType, WithLength
<1>2. c.length \in Nat
    BY DEF ColumnDef
<1>3. t \in {"VARCHAR", "NVARCHAR", "UUID"} => res = "VARCHAR"
    BY DEF Signed
<1> HIDE DEF res, suffix
<1>4. length \in Nat
    BY <1>2
<1>a. t = "UUID" => length = 40
    BY <1>3
<1>b. t \in {"VARCHAR", "NVARCHAR"} => length = c.length
    BY <1>3
<1> HIDE DEF length, lens
<1>5. mysqlSQLType(c).lens = lens(length)
    BY <1>1 DEF Text
<1>6. \E n \in Nat : /\ mysqlSQLType(c).lens = lens(n)
                     /\ c.type = "UUID" => n = 40
                     /\ c.type \in {"VARCHAR", "NVARCHAR"} => n = c.length
    BY <1>4, <1>5, <1>a, <1>b
<1> QED
    BY <1>6 DEF lens

LEMMA MysqlSized == ASSUME NEW c \in ColumnDef PROVE Len1(mysqlSQLType(c)) \in Nat
<1>1. PICK n \in Nat : mysqlSQLType(c).lens = Lens(WithLength(c, n))
    BY MysqlLens
<1> DEFINE c2 == WithLength(c, n)
<1>2. c2.length \in Nat
    BY DEF ColumnDef, WithLength
<1> HIDE DEF c2
<1>3. mysqlSQLType(c).lens = Lens(c2)
    BY <1>1 DEF c2
<1>4. Lens(c2) = <<>> \/ Lens(c2)[1] \in Nat
    BY <1>2, LensAre
<1> QED
    BY <1>3, <1>4, SizedIs

LEMMA LensEmpty ==
    ASSUME NEW c, c.length \in Nat, c.length2 \in Nat, Lens(c) = <<>>
    PROVE  c.length = 0
<1>1. c.length > 0 => Lens(c) = <<c.length>> \/ Lens(c) = <<c.length, c.length2>>
    BY DEF Lens
<1>2. <<c.length>> # <<>> /\ <<c.length, c.length2>> # <<>>
    OBVIOUS
<1> QED
    BY <1>1, <1>2

LEMMA PostgresSized == ASSUME NEW c \in ColumnDef PROVE Len1(postgresSQLType(c)) \in Nat
<1>1. postgresSQLType(c).lens = <<>> \/ postgresSQLType(c).lens = Lens(c)
  <2>1. \A b : Plain(b).lens = <<>> /\ Sized(b, c).lens = Lens(c)
    BY DEF Plain, Sized, Text
  <2> QED
    BY DEF postgresSQLType, Plain, Sized, Text, Blobs, Serials
<1>2. c.length \in Nat
    BY DEF ColumnDef
<1> QED
    BY <1>1, <1>2, LensAre, SizedIs

LEMMA LengthBack ==
    ASSUME NEW d \in {"mysql", "postgres"}, NEW c \in ColumnDef, NEW t, t.type = SQLType(d, c)
    PROVE  LoadColumn(d, t).length \in Nat
<1>1. CASE d = "mysql"
  <2> DEFINE r == Catalog("mysql", t.type)
             col == GetColumn("mysql", r)
  <2>1. Len1(t.type) \in Nat
    BY <1>1, MysqlSized DEF SQLType
  <2>2. r.size \in Nat /\ (r.type.lens = t.type.lens \/ r.type.lens = <<1>> \/ r.type.lens = <<>>)
    BY DEF Catalog, Text
  <2>3. \E n : col = Column(n, r.size, 0) \/ col = Column(n, Len1(r.type), Len2(r.type))
    BY DEF GetColumn, mysqlGetColumn, Loaded
  <2> HIDE DEF r, col
  <2>4. Len1(r.type) \in Nat
    BY <2>1, <2>2 DEF Len1
  <2>5. IsColumn(col) /\ col.length \in Nat
    BY <2>2, <2>3, <2>4, ColumnIs
  <2> QED
    BY <1>1, <2>5, LoadIs DEF r, col
<1>2. CASE d = "postgres"
  <2> DEFINE r == Catalog("postgres", t.type)
             col == GetColumn("postgres", r)
  <2>1. Len1(t.type) \in Nat
    BY <1>2, PostgresSized DEF SQLType
  <2>2. r.size \in Nat
    BY <2>1 DEF Catalog
  <2>3. IsColumn(col) /\ col.length = r.size
    BY PostgresLoads
  <2> HIDE DEF r, col
  <2> QED
    BY <1>2, <2>2, <2>3, LoadIs DEF r, col
<1> QED
    BY <1>1, <1>2

\* A column with a text of the given length has no VARCHAR that is not stated.
LEMMA PlainVarchar ==
    ASSUME NEW d \in {"mysql", "postgres"}, NEW c \in ColumnDef, SQLType(d, c) = Plain("VARCHAR")
    PROVE  c.length = 0
<1>0. c.length \in Nat /\ c.length2 \in Nat /\ c.type \in ColumnTypes
    BY DEF ColumnDef
<1>1. CASE d = "mysql"
  <2>1. mysqlSQLType(c) = Text("VARCHAR", <<>>, Empty)
    BY <1>1 DEF SQLType, Plain
  <2>2. mysqlSQLType(c).base = "VARCHAR" /\ mysqlSQLType(c).lens = <<>>
    BY <2>1 DEF Text
  <2>3. c.type \in {"VARCHAR", "NVARCHAR", "UUID"}
    BY <1>0, <2>2, MysqlBase DEF Signed, ColumnTypes, Ints, Blobs, LongTexts
  <2>4. PICK n \in Nat : /\ mysqlSQLType(c).lens = Lens(WithLength(c, n))
                         /\ c.type = "UUID" => n = 40
                         /\ c.type \in {"VARCHAR", "NVARCHAR"} => n = c.length
    BY MysqlLens
  <2> DEFINE c2 == WithLength(c, n)
  <2>5. c2.length = n /\ c2.length2 \in Nat
    BY DEF ColumnDef, WithLength
  <2>6. Lens(c2) = <<>>
    BY <2>2, <2>4
  <2> HIDE DEF c2
  <2>7. n = 0
    BY <2>5, <2>6, LensEmpty
  <2> QED
    BY <2>3, <2>4, <2>7
<1>2. CASE d = "postgres"
  <2>1. postgresSQLType(c) = Text("VARCHAR", <<>>, Empty)
    BY <1>2 DEF SQLType, Plain
  <2>2. postgresSQLType(c).base = "VARCHAR" /\ postgresSQLType(c).lens = <<>>
    BY <2>1 DEF Text
  <2>3. c.type \in {"VARCHAR", "NVARCHAR"} /\ (c.type = "VARCHAR" => ~c.isAutoIncrement)
    BY <1>0, <2>2, PostgresBase DEF Signed, ColumnTypes, Ints, Blobs, LongTexts
  <2>4. postgresSQLType(c).lens = Lens(c)
    BY <2>3 DEF postgresSQLType, Sized, Text, Blobs, Serials
  <2> QED
    BY <1>0, <2>2, <2>4, LensEmpty
<1> QED
    BY <1>1, <1>2

\* The name of a type has a suffix only where mysql writes UNSIGNED without a length.
LEMMA NoSuffix ==
    ASSUME NEW d \in Dialects, d # "mysql", NEW c
    PROVE  SQLTypeName(SQLType(d, c)).suffix = Empty
<1> DEFINE x == SQLType(d, c)
<1>1. x.suffix = Empty \/ x.lens # <<>>
  <2>1. CASE d = "postgres"
    BY <2>1 DEF SQLType, postgresSQLType, Plain, Sized, Text
  <2>2. CASE d = "sqlite3"
    BY <2>2 DEF SQLType, sqlite3SQLType, Plain, Text
  <2>3. CASE d = "mssql"
    BY <2>3 DEF SQLType, mssqlSQLType, Plain, Sized, Text
  <2>4. CASE d = "oracle"
    BY <2>4 DEF SQLType, oracleSQLType, Plain, Sized, Text
  <2>5. CASE d = "dameng"
    <3>1. CASE c.type = "TIMESTAMPZ" /\ c.length > 0
        <4>1. x = Text("TIMESTAMP", <<c.length>>, "_WITH_TIME_ZONE")
            BY <2>5, <3>1 DEF SQLType, damengSQLType, Blobs, Serials
        <4>2. x.lens = <<c.length>>
            BY <4>1 DEF Text
        <4> QED
            BY <4>2
    <3>2. CASE ~(c.type = "TIMESTAMPZ" /\ c.length > 0)
        BY <2>5, <3>2 DEF SQLType, damengSQLType, Plain, Sized, Text
    <3> QED
        BY <3>1, <3>2
  <2>6. CASE d = "gbase8s"
    BY <2>6 DEF SQLType, gbase8sSQLType, Plain, Sized, Text
  <2> QED
    BY <2>1, <2>2, <2>3, <2>4, <2>5, <2>6 DEF Dialects
<1> HIDE DEF x
<1>2. SQLTypeName(x).suffix = IF x.lens = <<>> THEN x.suffix ELSE Empty
    BY DEF SQLTypeName
<1> QED
    BY <1>1, <1>2 DEF x

LEMMA NameIs ==
    ASSUME NEW x
    PROVE  /\ SQLTypeName(x).base = x.base
           /\ x.suffix = Empty => SQLTypeName(x).suffix = Empty
           /\ x.lens # <<>> => SQLTypeName(x).suffix = Empty
           /\ x.lens = <<>> => SQLTypeName(x).suffix = x.suffix
BY DEF SQLTypeName

\* The lengths of FLOAT UNSIGNED.
LEMMA FloatLens ==
    ASSUME NEW x, IsColumn(x), x.type = "UNSIGNED_FLOAT"
    PROVE  /\ x.length2 > 0 => mysqlSQLType(x).lens = <<x.length, x.length2>>
           /\ ~(x.length2 > 0) /\ ~(x.length > 0) => mysqlSQLType(x).lens = <<>>
<1> DEFINE y == [x EXCEPT !.length = x.length]
<1>1. Signed["UNSIGNED_FLOAT"] = "FLOAT" /\ "UNSIGNED_FLOAT" \in DOMAIN Signed
    BY DEF Signed
<1>2. mysqlSQLType(x) = Text("FLOAT", Lens(y), "_UNSIGNED")
    BY <1>1 DEF mysqlSQLType
<1>3. y.length = x.length /\ y.length2 = x.length2
    BY DEF IsColumn
<1> HIDE DEF y
<1>4. mysqlSQLType(x).lens = Lens(y)
    BY <1>2 DEF Text
<1> QED
    BY <1>3, <1>4 DEF Lens

\* They come back, but for a single one.
LEMMA FloatBack ==
    ASSUME NEW c \in ColumnDef, NEW t, t.type = mysqlSQLType(c), c.type = "UNSIGNED_FLOAT",
           c.length > 0 => c.length2 > 0, LoadColumn("mysql", t).type = "UNSIGNED_FLOAT"
    PROVE  mysqlSQLType(LoadColumn("mysql", t)).lens = t.type.lens
<1> DEFINE l == LoadColumn("mysql", t)
           r == Catalog("mysql", t.type)
           col == GetColumn("mysql", r)
<1>1. t.type.base = "FLOAT"
  <2>1. "UNSIGNED_FLOAT" \in DOMAIN Signed /\ Signed["UNSIGNED_FLOAT"] = "FLOAT"
    BY DEF Signed
  <2> QED
    BY <2>1, MysqlBase
<1>2. /\ IsColumn(c) /\ c.length \in Nat /\ c.length2 \in Nat
    BY DEF ColumnDef, IsColumn
<1>3. \/ c.length2 > 0 /\ t.type.lens = <<c.length, c.length2>>
      \/ c.length2 = 0 /\ t.type.lens = <<>>
    BY <1>2, FloatLens
<1>4. Len(t.type.lens) # 1
  <2>1. Len(<<c.length, c.length2>>) # 1 /\ Len(<<>>) # 1
    OBVIOUS
  <2> QED
    BY <1>3, <2>1, Zenon
<1>5. r.type.lens = t.type.lens /\ r.type.base = "FLOAT"
  <2>1. Rename("FLOAT", CatalogNames["mysql"]) = "FLOAT"
    BY DEF Rename, CatalogNames
  <2> QED
    BY <1>1, <1>4, <2>1 DEF Catalog, Text
<1>6. \E n : col = Column(n, Len1(r.type), Len2(r.type)) \/ (col = Column(n, r.size, 0) /\ n \in LongTexts)
    BY DEF GetColumn, mysqlGetColumn, Loaded
<1> HIDE DEF r, col
<1>7. IsColumn(col)
    BY <1>6, ColumnIs
<1>8. l.type = col.type /\ l.length = col.length /\ l.length2 = col.length2 /\ IsColumn(l)
    BY <1>7, LoadIs DEF r, col
<1>9. l.length = Len1(t.type) /\ l.length2 = Len2(t.type)
  <2>1. col.type \notin LongTexts
    BY <1>8 DEF LongTexts
  <2>2. Len1(r.type) = Len1(t.type) /\ Len2(r.type) = Len2(t.type)
    BY <1>5 DEF Len1, Len2
  <2> QED
    BY <1>6, <1>8, <2>1, <2>2, ColumnIs
<1> HIDE DEF l
<1>10. CASE c.length2 > 0 /\ t.type.lens = <<c.length, c.length2>>
  <2> DEFINE pair == <<c.length, c.length2>>
  <2>1. pair # <<>> /\ Len(pair) = 2 /\ pair[1] = c.length /\ pair[2] = c.length2
    OBVIOUS
  <2> HIDE DEF pair
  <2>2. Len1(t.type) = c.length /\ Len2(t.type) = c.length2
    BY <1>10, <2>1 DEF Len1, Len2, pair
  <2> QED
    BY <1>8, <1>9, <1>10, <2>2, FloatLens DEF l
<1>11. CASE c.length2 = 0 /\ t.type.lens = <<>>
  <2>1. Len1(t.type) = 0 /\ Len2(t.type) = 0
    BY <1>11 DEF Len1, Len2
  <2> QED
    BY <1>8, <1>9, <1>11, <2>1, FloatLens DEF l
<1> QED
    BY <1>3, <1>10, <1>11

LEMMA MysqlText ==
    ASSUME NEW c
    PROVE  mysqlSQLType(c) =
             Text(mysqlSQLType(c).base, mysqlSQLType(c).lens, mysqlSQLType(c).suffix)
BY DEF mysqlSQLType, Text

LEMMA MysqlMatch ==
    ASSUME NEW c \in ColumnDef, NEW t, t.type = mysqlSQLType(c),
           c.type \notin {"BOOLEAN", "INTEGER", "REAL"},
           c.type = "UNSIGNED_FLOAT" /\ c.length > 0 => c.length2 > 0
    PROVE  LET l == LoadColumn("mysql", t)
               e == mysqlSQLType(c)
               u == mysqlSQLType(l)
           IN  \/ normalizeColumnType("mysql", e) = normalizeColumnType("mysql", u)
               \/ /\ SQLTypeName(u).base = Alias("mysql", SQLTypeName(e).base)
                  /\ SQLTypeName(u).suffix = SQLTypeName(e).suffix
<1> DEFINE l == LoadColumn("mysql", t)
           e == mysqlSQLType(c)
           u == mysqlSQLType(l)
<1>0. c.type \in ColumnTypes
    BY DEF ColumnDef
<1>1. /\ u.base = Alias("mysql", e.base)
      /\ c.type \notin DOMAIN Signed => l.type \notin DOMAIN Signed
      /\ c.type \in DOMAIN Signed => l.type \in DOMAIN Signed /\ Signed[l.type] = Signed[c.type]
    BY <1>0, MysqlBack
<1>2. CASE c.type \notin DOMAIN Signed
  <2>1. e.suffix = Empty /\ u.suffix = Empty
    BY <1>1, <1>2, MysqlBase
  <2> HIDE DEF e, u
  <2> QED
    BY <1>1, <2>1, NameIs DEF e, u, l
<1>3. CASE c.type \in DOMAIN Signed
  <2>1. /\ e.base = Signed[c.type] /\ u.base = Signed[c.type]
        /\ e.suffix = "_UNSIGNED" /\ u.suffix = "_UNSIGNED"
    BY <1>1, <1>3, MysqlBase
  <2>2. CASE c.type = "UNSIGNED_FLOAT"
    <3>1. l.type = "UNSIGNED_FLOAT"
        BY <1>1, <1>3, <2>2 DEF Signed
    <3>2. u.lens = e.lens
        BY <2>2, <3>1, FloatBack
    <3> HIDE DEF e, u
    <3>3. SQLTypeName(u).suffix = SQLTypeName(e).suffix
        BY <2>1, <3>2, NameIs
    <3> QED
        BY <1>1, <3>3, NameIs DEF e, u, l
  <2>3. CASE c.type # "UNSIGNED_FLOAT"
    <3> DEFINE b == Signed[c.type]
    <3>1. b \in displayWidthNumericTypes
        BY <1>3, <2>3 DEF Signed, displayWidthNumericTypes, Ints
    <3>2. e = Text(b, e.lens, "_UNSIGNED") /\ u = Text(b, u.lens, "_UNSIGNED")
        BY <2>1, MysqlText
    <3> HIDE DEF b, e, u
    <3>3. \A k : normalizeColumnType("mysql", Text(b, k, "_UNSIGNED"))
                   = Text(Alias("mysql", b), <<>>, "_UNSIGNED")
      <4> TAKE k
      <4> DEFINE x == Text(b, k, "_UNSIGNED")
      <4>1. x = [base |-> b, lens |-> k, suffix |-> "_UNSIGNED"]
        BY DEF Text
      <4>2. x.base = b
        BY <4>1
      <4> HIDE DEF x
      <4>3. normalizeColumnType("mysql", x) = [x EXCEPT !.base = Alias("mysql", b), !.lens = <<>>]
        BY <3>1, <4>2 DEF normalizeColumnType
      <4> QED
        BY <4>1, <4>3 DEF Text, x
    <3>4. normalizeColumnType("mysql", e) = normalizeColumnType("mysql", u)
        BY <3>2, <3>3
    <3> QED
        BY <3>4 DEF e, u, l
  <2> QED
    BY <2>2, <2>3
<1> QED
    BY <1>2, <1>3

LEMMA TypesMatch ==
    ASSUME NEW d \in Dialects, NEW c \in ColumnDef, NEW t, t.type = SQLType(d, c),
           t.auto = c.isAutoIncrement, c.isAutoIncrement => c.type \in AutoTypes,
           c.type \notin Drifts[d],
           d = "gbase8s" /\ c.length \in 1 .. 5 =>
                c.type \notin {"DATETIME", "TIMESTAMP", "TIMESTAMPZ", "TIME"},
           d = "dameng" /\ c.type = "TIMESTAMPZ" => c.length > 0,
           d = "mysql" /\ c.type = "UNSIGNED_FLOAT" /\ c.length > 0 => c.length2 > 0
    PROVE  columnTypesMatch(d, c, LoadColumn(d, t), SQLType(d, c), SQLType(d, LoadColumn(d, t)))
<1> DEFINE l == LoadColumn(d, t)
<1>0. c.type \in ColumnTypes
    BY DEF ColumnDef
<1>1. CASE d = "mysql"
  <2>1. c.type \notin {"BOOLEAN", "INTEGER", "REAL"} /\ t.type = mysqlSQLType(c)
    BY <1>1 DEF Drifts, SQLType
  <2>2. \A x : SQLType(d, x) = mysqlSQLType(x)
    BY <1>1 DEF SQLType
  <2> QED
    BY <1>1, <2>1, <2>2, MysqlMatch DEF columnTypesMatch
<1>2. CASE d # "mysql"
  <2>1. SQLType(d, l).base = Alias(d, SQLType(d, c).base)
    BY <1>0, TypesBack
  <2>2. SQLTypeName(SQLType(d, l)).suffix = Empty /\ SQLTypeName(SQLType(d, c)).suffix = Empty
    BY <1>2, NoSuffix
  <2> HIDE DEF l
  <2>3. /\ SQLTypeName(SQLType(d, l)).base = SQLType(d, l).base
        /\ SQLTypeName(SQLType(d, c)).base = SQLType(d, c).base
    BY NameIs
  <2> QED
    BY <2>1, <2>2, <2>3 DEF columnTypesMatch, l
<1> QED
    BY <1>1, <1>2

\* The name of a VARCHAR is that.
LEMMA VarcharName ==
    ASSUME NEW d \in {"mysql", "postgres"}, NEW c, SQLType(d, c).base = "VARCHAR"
    PROVE  SQLTypeName(SQLType(d, c)).base = "VARCHAR" /\ SQLTypeName(SQLType(d, c)).suffix = Empty
<1>1. CASE d = "postgres"
    BY <1>1, NoSuffix, NameIs DEF Dialects
<1>2. CASE d = "mysql"
  <2>1. SQLType(d, c) = mysqlSQLType(c)
    BY <1>2 DEF SQLType
  <2>2. \A s \in DOMAIN Signed : Signed[s] # "VARCHAR"
    BY DEF Signed
  <2>3. mysqlSQLType(c).suffix = Empty
    BY <2>1, <2>2, MysqlBase
  <2> QED
    BY <2>1, <2>3, NameIs
<1> QED
    BY <1>1, <1>2

\* What makes Sync modify a column that some struct's SQLType made.
LEMMA ModifiesOnly ==
    ASSUME NEW d \in Dialects, NEW c \in ColumnDef, NEW c0 \in ColumnDef,
           NEW t, t.type = SQLType(d, c0), MustModifyColumn(d, c, LoadColumn(d, t))
    PROVE  \/ /\ d \in {"mysql", "postgres"} /\ t.type.base = "VARCHAR"
              /\ SQLType(d, c) = Plain("TEXT")
           \/ d \in {"mysql", "postgres", "gbase8s"} /\ c.comment # t.comment
<1> DEFINE o == LoadColumn(d, t)
           expected == SQLType(d, c)
           current == SQLType(d, o)
<1>0. c.length \in Nat /\ c0.type \in ColumnTypes
    BY DEF ColumnDef
<1>1. d \in {"mysql", "postgres"} => o.length \in Nat
    BY LengthBack
<1>2. d \in {"mysql", "postgres"} /\ current.base = "VARCHAR" => t.type.base = "VARCHAR"
    BY <1>0, VarcharBack
<1>3. d \in {"mysql", "postgres", "gbase8s"} => o.comment = t.comment
    BY CommentBack
<1>4. d \in {"mysql", "postgres"} /\ expected = Plain("VARCHAR") => c.length = 0
    BY PlainVarchar
<1> HIDE DEF o
<1>5. CASE ~columnTypesMatch(d, c, o, expected, current)
  <2>1. /\ d \in {"mysql", "postgres"} /\ current.base = "VARCHAR"
        /\ expected = Plain("TEXT") \/ expected.base = "VARCHAR"
    BY <1>5 DEF MustModifyColumn, o
  <2>2. expected.base # "VARCHAR"
    <3>1. SUFFICES ASSUME expected.base = "VARCHAR" PROVE FALSE
        OBVIOUS
    <3>2. /\ SQLTypeName(current).base = "VARCHAR" /\ SQLTypeName(current).suffix = Empty
          /\ SQLTypeName(expected).base = "VARCHAR" /\ SQLTypeName(expected).suffix = Empty
        BY <2>1, <3>1, VarcharName
    <3> QED
        BY <1>5, <3>2 DEF columnTypesMatch, Alias
  <2> QED
    BY <1>2, <2>1, <2>2
<1>6. CASE columnTypesMatch(d, c, o, expected, current)
  <2>1. \/ expected = Plain("VARCHAR") /\ d \in {"mysql", "postgres"} /\ o.length < c.length
        \/ d \in {"postgres", "gbase8s", "mysql"} /\ c.comment # o.comment
    BY <1>6 DEF MustModifyColumn, VarcharWidened, o
  <2> QED
    BY <1>0, <1>1, <1>3, <1>4, <2>1
<1> QED
    BY <1>5, <1>6

\* A column as its own definition made it is modified for its comment alone.
LEMMA Unmodified ==
    ASSUME NEW d \in Dialects, NEW c \in ColumnDef, NEW t, t.type = SQLType(d, c),
           MustModifyColumn(d, c, LoadColumn(d, t))
    PROVE  d \in {"mysql", "postgres", "gbase8s"} /\ c.comment # t.comment
<1>1. \/ t.type.base = "VARCHAR" /\ SQLType(d, c) = Plain("TEXT")
      \/ d \in {"mysql", "postgres", "gbase8s"} /\ c.comment # t.comment
    BY ModifiesOnly
<1>2. Plain("TEXT").base = "TEXT"
    BY DEF Plain, Text
<1> QED
    BY <1>1, <1>2

----------------------------------------------------------------------------
(* The invariant of the columns *)

\* Column c is the definition that the struct of p has for name n.
HasColumn(p, n, c) ==
    \E i \in DOMAIN StructOf(p).cols :
        StructOf(p).cols[i].name = n /\ StructOf(p).cols[i].def = c

\* A column of the table has the type of some struct's definition and is auto-incremented
\* as some struct's is.
Made(n, t) ==
    /\ DOMAIN t = {"type", "auto", "pk", "comment"}
    /\ \E p \in Proc, c \in ColumnDef : HasColumn(p, n, c) /\ t.type = SQLType(Dialect, c)
    /\ \E p \in Proc, c \in ColumnDef : HasColumn(p, n, c) /\ t.auto = c.isAutoIncrement

\* A second Sync of p would leave column n as it is.
Settled(p, n) ==
    /\ n \in DOMAIN db.cols
    /\ MustModifyColumn(Dialect, Def(StructOf(p), n), LoadColumn(Dialect, db.cols[n]))
       => Dialect = "gbase8s" /\ Def(StructOf(p), n).comment # db.cols[n].comment

\* The columns that are still to be seen to are columns of the struct, each once.
TodoOf(p, todo) ==
    /\ todo \in Seq([name : STRING, def : ColumnDef])
    /\ \A i \in DOMAIN todo : HasColumn(p, todo[i].name, todo[i].def)
    /\ \A i, j \in DOMAIN todo : todo[i].name = todo[j].name => i = j

\* As long as an instance is alone, what it has loaded of these is what the table has.
Fresh(l) ==
    \A i \in DOMAIN l.todo :
        LET n == l.todo[i].name IN
        /\ n \in DOMAIN l.cols <=> n \in DOMAIN db.cols
        /\ n \in DOMAIN db.cols => l.cols[n] = LoadColumn(Dialect, db.cols[n])

\* And the others are settled.
Behind(p, todo) ==
    \A n \in Names(StructOf(p)) : (\E i \in DOMAIN todo : todo[i].name = n) \/ Settled(p, n)

Ready(p, l) ==
    /\ l.pc \notin {"idle", "sequence", "create"} => db.exists
    /\ l.pc \in {"sequence", "create"} /\ l.alone => ~db.exists
    /\ l.pc = "loadIndexes" /\ l.alone => l.cols = GetColumns(Dialect)
    /\ l.pc = "columns" => TodoOf(p, l.todo)
    /\ l.pc = "columns" /\ l.alone => Fresh(l) /\ Behind(p, l.todo)
    /\ l.pc \in {"uniques", "indexes", "done"} /\ l.alone =>
          \A n \in Names(StructOf(p)) : Settled(p, n)

TableMade ==
    /\ db.exists \/ DOMAIN db.cols = {}
    /\ \A n \in DOMAIN db.cols : Made(n, db.cols[n])

CInv ==
    /\ OInv
    /\ setup \in Setups
    /\ TableMade
    /\ \A p \in Proc : Ready(p, loc[p])

----------------------------------------------------------------------------

\* What a step that leaves the table, or its sequence, leaves.
LEMMA LoadSame ==
    ASSUME db'.seq = db.seq
    PROVE  \A d, t : LoadColumn(d, t)' = LoadColumn(d, t)
BY DEF LoadColumn, LoadedAuto

LEMMA SetupSame ==
    ASSUME UNCHANGED setup
    PROVE  /\ Dialect' = Dialect
           /\ \A p : StructOf(p)' = StructOf(p)
           /\ \A p, n, c : HasColumn(p, n, c)' <=> HasColumn(p, n, c)
           /\ \A n, t : Made(n, t)' <=> Made(n, t)
           /\ \A p, todo : TodoOf(p, todo)' <=> TodoOf(p, todo)
<1>1. Dialect' = Dialect /\ \A p : StructOf(p)' = StructOf(p)
    BY DEF Dialect, StructOf
<1>2. \A p, n, c : HasColumn(p, n, c)' <=> HasColumn(p, n, c)
    BY <1>1 DEF HasColumn
<1> QED
    BY <1>1, <1>2 DEF Made, TodoOf

LEMMA SettledSame ==
    ASSUME UNCHANGED setup, db'.seq = db.seq, NEW p, NEW n,
           n \in DOMAIN db.cols, n \in DOMAIN db'.cols, db'.cols[n] = db.cols[n]
    PROVE  Settled(p, n)' <=> Settled(p, n)
<1>1. \A d, t : LoadColumn(d, t)' = LoadColumn(d, t)
    BY LoadSame
<1>2. Dialect' = Dialect /\ StructOf(p)' = StructOf(p)
    BY SetupSame
<1> QED
    BY <1>1, <1>2 DEF Settled

\* Nothing changes for an instance that is alone if the table does not.
LEMMA ReadySame ==
    ASSUME UNCHANGED <<setup, db>>, NEW p, NEW l
    PROVE  Ready(p, l)' <=> Ready(p, l)
<1>1. \A d, t : LoadColumn(d, t)' = LoadColumn(d, t)
    BY LoadSame
<1>2. /\ Dialect' = Dialect /\ StructOf(p)' = StructOf(p)
      /\ \A todo : TodoOf(p, todo)' <=> TodoOf(p, todo)
    BY SetupSame
<1>3. \A n : Settled(p, n)' <=> Settled(p, n)
    BY <1>1, <1>2 DEF Settled
<1>4. GetColumns(Dialect)' = GetColumns(Dialect)
    BY <1>1, <1>2 DEF GetColumns
<1>5. Fresh(l)' <=> Fresh(l)
    BY <1>1, <1>2 DEF Fresh
<1>6. \A todo : Behind(p, todo)' <=> Behind(p, todo)
    BY <1>2, <1>3 DEF Behind
<1> QED
    BY <1>2, <1>3, <1>4, <1>5, <1>6 DEF Ready

LEMMA IdleReady == \A p : Ready(p, Idle) /\ Ready(p, Idle)'
BY DEF Ready, Idle

LEMMA NotAlone ==
    ASSUME UNCHANGED setup, db.exists => db'.exists, NEW p, NEW l, Ready(p, l), NEW m,
           m.pc = l.pc, m.todo = l.todo, ~m.alone
    PROVE  Ready(p, m)'
<1>1. \A todo : TodoOf(p, todo)' <=> TodoOf(p, todo)
    BY SetupSame
<1> QED
    BY <1>1 DEF Ready

LEMMA LessAlone ==
    ASSUME NEW p, NEW l, Ready(p, l), NEW m, m.pc = l.pc, m.todo = l.todo, m.cols = l.cols,
           m.alone => l.alone
    PROVE  Ready(p, m)
<1>1. Fresh(l) => Fresh(m)
    BY DEF Fresh
<1> QED
    BY <1>1 DEF Ready

\* A statement of p leaves every other instance ready.
LEMMA RunsReady ==
    ASSUME CInv, UNCHANGED setup, NEW p \in Proc, NEW can \in BOOLEAN, NEW after, NEW l,
           db.exists => after.exists, Runs(p, can, after, l)
    PROVE  /\ \A q \in Proc \ {p} : Ready(q, loc[q])'
           /\ \/ can /\ db' = after /\ loc'[p] = l
              \/ db' = db /\ loc'[p] = Idle
<1>0. loc = [q \in Proc |-> loc[q]] /\ \A q \in Proc : IsLocal(loc[q]) /\ Ready(q, loc[q])
    BY DEF CInv, OInv
<1>1. CASE can
  <2>1. /\ db' = after
        /\ loc' = [q \in Proc |-> IF q = p THEN l
                                  ELSE [loc[q] EXCEPT !.alone = @ /\ after = db]]
    BY <1>1 DEF Runs
  <2>2. loc'[p] = l
    BY <2>1
  <2>3. ASSUME NEW q \in Proc \ {p} PROVE Ready(q, loc[q])'
    <3>0. PICK m : m = loc'[q]
        OBVIOUS
    <3>1. m = [loc[q] EXCEPT !.alone = @ /\ after = db]
        BY <2>1, <3>0
    <3>2. /\ m.pc = loc[q].pc /\ m.todo = loc[q].todo /\ m.cols = loc[q].cols
          /\ m.alone = (loc[q].alone /\ after = db)
        BY <1>0, <3>1 DEF IsLocal
    <3>3. CASE db' = db
        <4>1. Ready(q, m)
            BY <1>0, <3>2, LessAlone
        <4>2. Ready(q, m)'
            BY <3>3, <4>1, ReadySame
        <4> QED
            BY <3>0, <4>2
    <3>4. CASE db' # db
        <4>1. ~m.alone
            BY <2>1, <3>2, <3>4
        <4>2. Ready(q, m)'
            BY <1>0, <2>1, <3>2, <4>1, NotAlone
        <4> QED
            BY <3>0, <4>2
    <3> QED
        BY <3>3, <3>4
  <2> QED
    BY <1>1, <2>1, <2>2, <2>3
<1>2. CASE ~can
  <2>1. loc' = [loc EXCEPT ![p] = Idle] /\ db' = db
    BY <1>2 DEF Runs, Becomes
  <2>2. ASSUME NEW q \in Proc \ {p} PROVE Ready(q, loc[q])'
    <3>1. loc'[q] = loc[q]
        BY <1>0, <2>1
    <3>2. PICK m : m = loc[q]
        OBVIOUS
    <3>3. Ready(q, m)'
        BY <1>0, <2>1, <3>2, ReadySame
    <3> QED
        BY <3>1, <3>2, <3>3
  <2> QED
    BY <1>0, <2>1, <2>2
<1> QED
    BY <1>1, <1>2

\* The columns of a struct.
LEMMA StructIs ==
    ASSUME KnownColumns, setup \in Setups, NEW p \in Proc
    PROVE  /\ Dialect \in Dialects
           /\ TodoOf(p, StructOf(p).cols)
           /\ \A n, c : HasColumn(p, n, c) =>
                n \in Names(StructOf(p)) /\ Def(StructOf(p), n) = c /\ c \in ColumnDef
           /\ \A n \in Names(StructOf(p)) : HasColumn(p, n, Def(StructOf(p), n))
<1> DEFINE cols == StructOf(p).cols
<1>1. /\ Dialect \in Dialects
      /\ cols \in Seq([name : STRING, def : ColumnDef])
      /\ \A i, j \in DOMAIN cols : cols[i].name = cols[j].name => i = j
    BY DEF KnownColumns, Dialect, StructOf
<1> HIDE DEF cols
<1>2. \A i \in DOMAIN cols : cols[i].name \in STRING /\ cols[i].def \in ColumnDef
  <2> DEFINE R == [name : STRING, def : ColumnDef]
  <2>0. cols \in Seq(R)
    BY <1>1
  <2> HIDE DEF R
  <2>1. \A i \in DOMAIN cols : cols[i] \in R
    BY <2>0
  <2> USE DEF R
  <2> QED
    BY <2>1
<1>3. TodoOf(p, cols)
    BY <1>1 DEF TodoOf, HasColumn, cols
<1>4. ASSUME NEW n, NEW i \in DOMAIN cols, cols[i].name = n
      PROVE  Def(StructOf(p), n) = cols[i].def
  <2> DEFINE k == CHOOSE j \in DOMAIN cols : cols[j].name = n
  <2>1. k \in DOMAIN cols /\ cols[k].name = n
    BY <1>4
  <2>2. k = i
    BY <1>1, <1>4, <2>1
  <2>3. Def(StructOf(p), n) = cols[k].def
    BY DEF Def, cols
  <2> QED
    BY <2>2, <2>3
<1>5. ASSUME NEW n, NEW c, HasColumn(p, n, c)
      PROVE  n \in Names(StructOf(p)) /\ Def(StructOf(p), n) = c /\ c \in ColumnDef
    BY <1>2, <1>4, <1>5 DEF HasColumn, Names, cols
<1>6. ASSUME NEW n \in Names(StructOf(p)) PROVE HasColumn(p, n, Def(StructOf(p), n))
    BY <1>4 DEF HasColumn, Names, cols
<1> QED
    BY <1>1, <1>3, <1>5, <1>6 DEF cols

\* Steps that leave the table alone.
LEMMA LocalReady ==
    ASSUME CInv, OInv', UNCHANGED <<setup, db>>, NEW p \in Proc, NEW l, Becomes(p, l), Ready(p, l)
    PROVE  CInv'
<1>1. ASSUME NEW q \in Proc PROVE Ready(q, loc[q])'
  <2>1. PICK m : m = loc'[q]
    OBVIOUS
  <2>2. m = IF q = p THEN l ELSE loc[q]
    BY <2>1 DEF Becomes, CInv, OInv
  <2>3. Ready(q, m)
    BY <2>2 DEF CInv
  <2>4. Ready(q, m)'
    BY <2>3, ReadySame
  <2> QED
    BY <2>1, <2>4
<1>2. TableMade'
    BY SetupSame DEF CInv, TableMade
<1> QED
    BY <1>1, <1>2 DEF CInv

ColumnsKept == \A n \in DOMAIN db.cols : ChangesColumn(n)

LEMMA SameKept == ASSUME db'.cols = db.cols PROVE ColumnsKept
BY DEF ColumnsKept, ChangesColumn

\* Steps that change neither the columns nor whether the table is there.
LEMMA SameColumns ==
    ASSUME CInv, UNCHANGED setup, db'.cols = db.cols, db'.exists = db.exists
    PROVE  TableMade'
BY SetupSame DEF CInv, TableMade

LEMMA SettledStays ==
    ASSUME UNCHANGED setup, db'.cols = db.cols, db'.seq = db.seq, NEW p
    PROVE  \A n : Settled(p, n) => Settled(p, n)'
<1> SUFFICES ASSUME NEW n, Settled(p, n) PROVE Settled(p, n)'
    OBVIOUS
<1>1. n \in DOMAIN db.cols /\ n \in DOMAIN db'.cols /\ db'.cols[n] = db.cols[n]
    BY DEF Settled
<1> QED
    BY <1>1, SettledSame

LEMMA IndexReady ==
    ASSUME CInv, OInv', NEW p \in Proc, CreateIndexes(p) \/ AddIndex(p) \/ DropIndex(p)
    PROVE  CInv' /\ ColumnsKept
<1>0. UNCHANGED setup /\ IsTable(db) /\ IsLocal(loc[p]) /\ Ready(p, loc[p])
    BY DEF CreateIndexes, AddIndex, DropIndex, CInv, OInv
<1>1. PICK can, after, l :
        /\ can \in BOOLEAN /\ Runs(p, can, after, l)
        /\ after.cols = db.cols /\ after.seq = db.seq /\ after.exists = db.exists
        /\ l.pc \in {"uniques", "indexes"} /\ loc[p].pc \in {"uniques", "indexes"}
        /\ l.alone = loc[p].alone
  <2>1. CASE CreateIndexes(p) \/ AddIndex(p)
    <3>1. PICK i : Runs(p, CanCreateIndex(i), CreateIndexSQL(i), [loc[p] EXCEPT !.adds = @ \ {i}])
        BY <2>1 DEF CreateIndexes, AddIndex
    <3> DEFINE after == CreateIndexSQL(i)
               l == [loc[p] EXCEPT !.adds = @ \ {i}]
    <3>2. after.cols = db.cols /\ after.seq = db.seq /\ after.exists = db.exists
        BY <1>0 DEF CreateIndexSQL, IsTable
    <3>3. l.pc = loc[p].pc /\ l.alone = loc[p].alone
        BY <1>0 DEF IsLocal
    <3>4. loc[p].pc \in {"uniques", "indexes"}
        BY <2>1 DEF CreateIndexes, AddIndex, At
    <3>5. CanCreateIndex(i) \in BOOLEAN
        BY DEF CanCreateIndex
    <3> HIDE DEF after, l
    <3> QED
        BY <3>1, <3>2, <3>3, <3>4, <3>5 DEF after, l
  <2>2. CASE DropIndex(p)
    <3>1. PICK i : Runs(p, CanDropIndex(i), DropIndexSQL(i), [loc[p] EXCEPT !.idx = @ \ {i}])
        BY <2>2 DEF DropIndex
    <3> DEFINE after == DropIndexSQL(i)
               l == [loc[p] EXCEPT !.idx = @ \ {i}]
    <3>2. after.cols = db.cols /\ after.seq = db.seq /\ after.exists = db.exists
        BY <1>0 DEF DropIndexSQL, IsTable
    <3>3. l.pc = loc[p].pc /\ l.alone = loc[p].alone
        BY <1>0 DEF IsLocal
    <3>4. loc[p].pc \in {"uniques", "indexes"}
        BY <2>2 DEF DropIndex, At
    <3>5. PICK can \in BOOLEAN : Runs(p, can, after, l)
        BY <3>1 DEF Runs
    <3> HIDE DEF after, l
    <3> QED
        BY <3>2, <3>3, <3>4, <3>5
  <2> QED
    BY <2>1, <2>2
<1>2. /\ \A q \in Proc \ {p} : Ready(q, loc[q])'
      /\ \/ db' = after /\ loc'[p] = l
         \/ db' = db /\ loc'[p] = Idle
    BY <1>0, <1>1, RunsReady
<1>3. db'.cols = db.cols /\ db'.seq = db.seq /\ db'.exists = db.exists
    BY <1>1, <1>2
<1>4. TableMade'
    BY <1>0, <1>3, SameColumns
<1>5. Ready(p, loc[p])'
  <2>1. Ready(p, Idle)'
    BY IdleReady
  <2>2. l.alone => \A n \in Names(StructOf(p)) : Settled(p, n)
    BY <1>0, <1>1 DEF Ready
  <2>3. StructOf(p)' = StructOf(p) /\ \A n : Settled(p, n) => Settled(p, n)'
    BY <1>0, <1>3, SetupSame, SettledStays
  <2>4. Ready(p, l)'
    BY <1>0, <1>1, <1>3, <2>2, <2>3 DEF Ready
  <2> QED
    BY <1>2, <2>1, <2>4
<1> QED
    BY <1>0, <1>2, <1>3, <1>4, <1>5, SameKept DEF CInv

\* The steps that read, decide or end.
LEMMA LocalStepsReady ==
    ASSUME KnownColumns, CInv, OInv', NEW p \in Proc,
           \/ Start(p) \/ LoadColumns(p) \/ LoadIndexes(p) \/ CompareIndexes(p)
           \/ Finish(p) \/ Fault(p)
    PROVE  CInv' /\ ColumnsKept
<1>0. UNCHANGED <<setup, db>> /\ IsLocal(loc[p]) /\ Ready(p, loc[p])
    BY DEF Start, LoadColumns, LoadIndexes, CompareIndexes, Finish, Fault, CInv, OInv
<1>k. ColumnsKept
    BY <1>0, SameKept
<1>1. CASE Start(p)
  <2>1. PICK pc \in {"loadColumns", "sequence", "create"} :
            /\ Becomes(p, [Idle EXCEPT !.alone = TRUE, !.pc = pc])
            /\ db.exists <=> pc = "loadColumns"
    BY <1>1 DEF Start
  <2> DEFINE l == [Idle EXCEPT !.alone = TRUE, !.pc = pc]
  <2>2. l.pc = pc
    BY IdleAllowed DEF IsLocal
  <2> HIDE DEF l
  <2>3. Ready(p, l)
    BY <2>1, <2>2 DEF Ready
  <2> QED
    BY <1>0, <2>1, <2>3, LocalReady, <1>k DEF l
<1>2. CASE LoadColumns(p)
  <2> DEFINE l == [loc[p] EXCEPT !.pc = "loadIndexes", !.cols = GetColumns(Dialect)]
  <2>1. l.pc = "loadIndexes" /\ l.cols = GetColumns(Dialect)
    BY <1>0 DEF IsLocal
  <2>2. Becomes(p, l)
    BY <1>2 DEF LoadColumns
  <2> HIDE DEF l
  <2>3. Ready(p, l)
    BY <1>0, <1>2, <2>1 DEF Ready, LoadColumns, At
  <2> QED
    BY <1>0, <2>2, <2>3, LocalReady, <1>k
<1>3. CASE LoadIndexes(p)
  <2>1. PICK loaded :
            \/ Becomes(p, [loc[p] EXCEPT !.pc = "columns", !.idx = loaded,
                                         !.todo = StructOf(p).cols])
            \/ Becomes(p, Idle)
    BY <1>3 DEF LoadIndexes
  <2> DEFINE l == [loc[p] EXCEPT !.pc = "columns", !.idx = loaded, !.todo = StructOf(p).cols]
  <2>2. /\ l.pc = "columns" /\ l.todo = StructOf(p).cols /\ l.cols = loc[p].cols
        /\ l.alone = loc[p].alone
    BY <1>0 DEF IsLocal
  <2>3. Becomes(p, l) \/ Becomes(p, Idle)
    BY <2>1
  <2> HIDE DEF l
  <2>4. TodoOf(p, l.todo)
    BY <2>2, StructIs DEF CInv
  <2>5. l.alone => l.cols = GetColumns(Dialect)
    BY <1>0, <1>3, <2>2 DEF Ready, LoadIndexes, At
  <2>6. l.alone => Fresh(l)
    BY <2>5 DEF Fresh, GetColumns
  <2>7. Behind(p, l.todo)
    BY <2>2 DEF Behind, Names
  <2>8. Ready(p, l)
    BY <1>0, <1>3, <2>2, <2>4, <2>6, <2>7 DEF Ready, LoadIndexes, At
  <2> QED
    BY <1>0, <2>3, <2>8, IdleReady, LocalReady, <1>k
<1>4. CASE CompareIndexes(p)
  <2>1. PICK m : Becomes(p, [loc[p] EXCEPT !.pc = "indexes", !.cols = <<>>,
                                           !.idx = Drops(m, @), !.adds = Adds(m, loc[p].idx)])
    BY <1>4 DEF CompareIndexes
  <2> DEFINE l == [loc[p] EXCEPT !.pc = "indexes", !.cols = <<>>, !.idx = Drops(m, @),
                                 !.adds = Adds(m, loc[p].idx)]
  <2>2. l.pc = "indexes" /\ l.alone = loc[p].alone
    BY <1>0 DEF IsLocal
  <2>3. Becomes(p, l)
    BY <2>1
  <2> HIDE DEF l
  <2>4. loc[p].pc = "columns" /\ loc[p].todo = <<>>
    BY <1>4 DEF CompareIndexes, At
  <2>5. l.alone => \A n \in Names(StructOf(p)) : Settled(p, n)
    BY <1>0, <2>2, <2>4 DEF Ready, Behind
  <2>6. Ready(p, l)
    BY <1>0, <2>2, <2>4, <2>5 DEF Ready
  <2> QED
    BY <1>0, <2>3, <2>6, LocalReady, <1>k
<1>5. CASE Finish(p)
  <2> DEFINE l == [loc[p] EXCEPT !.pc = "done"]
  <2>1. l.pc = "done" /\ l.alone = loc[p].alone
    BY <1>0 DEF IsLocal
  <2>2. Becomes(p, l) /\ loc[p].pc \in {"uniques", "indexes"}
    BY <1>5 DEF Finish
  <2> HIDE DEF l
  <2>3. Ready(p, l)
    BY <1>0, <2>1, <2>2 DEF Ready
  <2> QED
    BY <1>0, <2>2, <2>3, LocalReady, <1>k
<1>6. CASE Fault(p)
    BY <1>0, <1>6, IdleReady, LocalReady, <1>k DEF Fault
<1> QED
    BY <1>k, <1>1, <1>2, <1>3, <1>4, <1>5, <1>6

LEMMA SequenceReady ==
    ASSUME CInv, OInv', NEW p \in Proc, CreateSequence(p)
    PROVE  CInv' /\ ColumnsKept
<1>0. UNCHANGED setup /\ IsTable(db) /\ IsLocal(loc[p]) /\ Ready(p, loc[p])
    BY DEF CreateSequence, CInv, OInv
<1> DEFINE l == [loc[p] EXCEPT !.pc = "create"]
           after == [db EXCEPT !.seq = TRUE]
<1>1. l.pc = "create" /\ l.alone = loc[p].alone /\ loc[p].pc = "sequence"
    BY <1>0 DEF IsLocal, CreateSequence, At
<1>2. after.cols = db.cols /\ after.exists = db.exists
    BY <1>0 DEF IsTable
<1>3. PICK can \in BOOLEAN : Runs(p, can, after, l)
    BY DEF CreateSequence, Runs
<1>4. PICK m : m = l
    OBVIOUS
<1> HIDE DEF l, after
<1>5. /\ \A q \in Proc \ {p} : Ready(q, loc[q])'
      /\ \/ db' = after /\ loc'[p] = m
         \/ db' = db /\ loc'[p] = Idle
    BY <1>0, <1>2, <1>3, <1>4, RunsReady
<1>6. TableMade'
    BY <1>0, <1>2, <1>5, SameColumns
<1>7. Ready(p, m) /\ ~db'.exists = ~db.exists
    BY <1>0, <1>1, <1>2, <1>4, <1>5 DEF Ready
<1>8. Ready(p, m)'
    BY <1>1, <1>4, <1>7 DEF Ready
<1>9. Ready(p, loc[p])'
    BY <1>5, <1>8, IdleReady
<1>10. ColumnsKept
    BY <1>2, <1>5, SameKept
<1> QED
    BY <1>0, <1>5, <1>6, <1>9, <1>10 DEF CInv

\* A column with the type and comment of the definition c, and one that it makes.
Typed(t, c) ==
    /\ DOMAIN t = {"type", "auto", "pk", "comment"}
    /\ t.type = SQLType(Dialect, c)
    /\ Dialect \in {"mysql", "postgres"} => t.comment = c.comment
MadeBy(t, c) == Typed(t, c) /\ t.auto = c.isAutoIncrement

LEMMA CreateTableIs ==
    ASSUME Dialect \in Dialects, NEW s
    PROVE  LET sql == CreateTableSQL(s) IN
           /\ \E b \in BOOLEAN : sql.cols = NewColumns(s, b)
           /\ Dialect = "mysql" => sql.cols = NewColumns(s, TRUE) /\ sql.comments = {}
           /\ Dialect = "postgres" =>
                /\ sql.cols = NewColumns(s, FALSE)
                /\ sql.comments = {n \in Names(s) : Def(s, n).comment # Empty}
<1> DEFINE sql == CreateTableSQL(s)
           notes == {n \in Names(s) : Def(s, n).comment # Empty}
           New(b) == NewColumns(s, b)
<1>1. Dialect = "postgres" =>
        sql = [[cols |-> New(FALSE), ifNotExists |-> TRUE, comments |-> {}]
               EXCEPT !.comments = notes]
    BY DEF CreateTableSQL, postgresCreateTableSQL, baseCreateTableSQL
<1>2. Dialect = "mysql" => sql = [cols |-> New(TRUE), ifNotExists |-> TRUE, comments |-> {}]
    BY DEF CreateTableSQL, mysqlCreateTableSQL
<1>3. Dialect \notin {"mysql", "postgres"} =>
        \E b, i \in BOOLEAN : sql = [cols |-> New(b), ifNotExists |-> i, comments |-> {}]
    BY DEF Dialects, CreateTableSQL, baseCreateTableSQL, mssqlCreateTableSQL,
           oracleCreateTableSQL, damengCreateTableSQL, gbase8sCreateTableSQL
<1> HIDE DEF sql, notes, New
<1>4. Dialect = "postgres" => sql.cols = New(FALSE) /\ sql.comments = notes
    BY <1>1
<1>5. Dialect = "mysql" => sql.cols = New(TRUE) /\ sql.comments = {}
  <2> DEFINE new == New(TRUE)
  <2> HIDE DEF new
  <2>1. Dialect = "mysql" => sql = [cols |-> new, ifNotExists |-> TRUE, comments |-> {}]
    BY <1>2 DEF new
  <2>2. Dialect = "mysql" => sql.cols = new /\ sql.comments = {}
    BY <2>1
  <2> QED
    BY <2>2 DEF new
<1>6. ASSUME Dialect \notin {"mysql", "postgres"} PROVE \E b \in BOOLEAN : sql.cols = New(b)
  <2>1. PICK b \in BOOLEAN, i \in BOOLEAN :
            sql = [cols |-> New(b), ifNotExists |-> i, comments |-> {}]
    BY <1>3, <1>6
  <2>2. sql.cols = New(b)
    BY <2>1
  <2> QED
    BY <2>2
<1>7. \E b \in BOOLEAN : sql.cols = New(b)
    BY <1>4, <1>5, <1>6
<1> QED
    BY <1>4, <1>5, <1>7 DEF sql, notes, New

LEMMA DbColumnIs ==
    ASSUME NEW d, NEW c, NEW b \in BOOLEAN
    PROVE  LET t == DbColumn(d, c, b) IN
           /\ DOMAIN t = {"type", "auto", "pk", "comment"}
           /\ t.type = SQLType(d, c) /\ t.auto = c.isAutoIncrement
           /\ b => t.comment = c.comment
           /\ ~b => t.comment = Empty
<1> DEFINE comment == IF b THEN c.comment ELSE Empty
           t == DbColumn(d, c, b)
<1>1. t = [type |-> SQLType(d, c), auto |-> c.isAutoIncrement, pk |-> c.isPrimaryKey,
           comment |-> comment]
    BY DEF DbColumn
<1>2. (b => comment = c.comment) /\ (~b => comment = Empty)
    OBVIOUS
<1> HIDE DEF comment, t
<1> QED
    BY <1>1, <1>2 DEF t

LEMMA TableCreatedIs ==
    ASSUME Dialect \in Dialects, IsTable(db), NEW s
    PROVE  LET after == TableCreated(s) IN
           /\ after.exists /\ after.seq = db.seq
           /\ db.exists =>
                /\ DOMAIN after.cols = DOMAIN db.cols
                /\ \A n \in DOMAIN db.cols : \E comment :
                      \/ after.cols[n] = db.cols[n]
                      \/ after.cols[n] = [db.cols[n] EXCEPT !.comment = comment]
           /\ ~db.exists =>
                /\ DOMAIN after.cols = Names(s)
                /\ \A n \in Names(s) : MadeBy(after.cols[n], Def(s, n))
<1> DEFINE sql == CreateTableSQL(s)
           cols == ColsAfter(sql)
           after == TableCreated(s)
           noted == [n \in DOMAIN cols |->
                        IF n \in sql.comments
                        THEN [cols[n] EXCEPT !.comment = Def(s, n).comment]
                        ELSE cols[n]]
<1>1. after = [db EXCEPT !.exists = TRUE, !.cols = noted]
    BY DEF TableCreated
<1> HIDE DEF sql, cols, after, noted
<1>2. after.exists /\ after.seq = db.seq /\ after.cols = noted
    BY <1>1 DEF IsTable
<1>3. DOMAIN noted = DOMAIN cols
    BY DEF noted
<1>4. \A n \in DOMAIN cols :
        /\ n \in sql.comments => noted[n] = [cols[n] EXCEPT !.comment = Def(s, n).comment]
        /\ n \notin sql.comments => noted[n] = cols[n]
    BY DEF noted
<1>5. ASSUME db.exists
      PROVE  /\ DOMAIN noted = DOMAIN db.cols
             /\ \A n \in DOMAIN db.cols : \E comment :
                    \/ noted[n] = db.cols[n]
                    \/ noted[n] = [db.cols[n] EXCEPT !.comment = comment]
  <2>1. cols = db.cols
    BY <1>5 DEF cols, ColsAfter
  <2> QED
    BY <1>3, <1>4, <2>1
<1>6. ASSUME ~db.exists
      PROVE  /\ DOMAIN noted = Names(s)
             /\ \A n \in Names(s) : MadeBy(noted[n], Def(s, n))
  <2>1. cols = sql.cols
    BY <1>6 DEF cols, ColsAfter
  <2>2. PICK b \in BOOLEAN :
            /\ sql.cols = NewColumns(s, b)
            /\ Dialect = "mysql" => b /\ sql.comments = {}
            /\ Dialect = "postgres" =>
                  ~b /\ sql.comments = {n \in Names(s) : Def(s, n).comment # Empty}
    BY CreateTableIs DEF sql
  <2>3. /\ DOMAIN cols = Names(s)
        /\ \A n \in Names(s) : cols[n] = DbColumn(Dialect, Def(s, n), b)
    BY <2>1, <2>2 DEF NewColumns
  <2>4. ASSUME NEW n \in Names(s) PROVE MadeBy(noted[n], Def(s, n))
    <3> DEFINE c == Def(s, n)
               t == cols[n]
    <3>1. /\ DOMAIN t = {"type", "auto", "pk", "comment"}
          /\ t.type = SQLType(Dialect, c) /\ t.auto = c.isAutoIncrement
          /\ b => t.comment = c.comment
          /\ ~b => t.comment = Empty
        BY <2>3, DbColumnIs
    <3> HIDE DEF t, c
    <3>2. /\ n \in sql.comments => noted[n] = [t EXCEPT !.comment = c.comment]
          /\ n \notin sql.comments => noted[n] = t
        BY <1>4, <2>3 DEF t, c
    <3>3. Dialect = "postgres" => ~b /\ (n \notin sql.comments => c.comment = Empty)
        BY <2>2 DEF c
    <3>4. CASE n \in sql.comments
        <4>1. Dialect # "mysql"
            BY <2>2, <3>4
        <4>2. /\ DOMAIN noted[n] = {"type", "auto", "pk", "comment"}
              /\ noted[n].type = t.type /\ noted[n].auto = t.auto
              /\ noted[n].comment = c.comment
            BY <3>1, <3>2, <3>4
        <4> QED
            BY <3>1, <4>1, <4>2 DEF MadeBy, Typed, c
    <3>5. CASE n \notin sql.comments
        BY <2>2, <3>1, <3>2, <3>3, <3>5 DEF MadeBy, Typed, c
    <3> QED
        BY <3>4, <3>5
  <2> QED
    BY <1>3, <2>3, <2>4
<1> QED
    BY <1>2, <1>5, <1>6 DEF after

\* A column that was just made with its definition is settled.
LEMMA MadeSettled ==
    ASSUME KnownColumns, setup \in Setups, UNCHANGED setup, db'.seq = db.seq, NEW p \in Proc,
           NEW n, n \in Names(StructOf(p)), n \in DOMAIN db'.cols,
           Typed(db'.cols[n], Def(StructOf(p), n))
    PROVE  Settled(p, n)'
<1>1. PICK t : t = db'.cols[n]
    OBVIOUS
<1> DEFINE c == Def(StructOf(p), n)
<1>2. Dialect \in Dialects /\ c \in ColumnDef
    BY StructIs
<1>3. t.type = SQLType(Dialect, c) /\ (Dialect \in {"mysql", "postgres"} => t.comment = c.comment)
    BY <1>1 DEF Typed
<1> HIDE DEF c
<1>4. MustModifyColumn(Dialect, c, LoadColumn(Dialect, t))
      => Dialect \in {"mysql", "postgres", "gbase8s"} /\ c.comment # t.comment
    BY <1>2, <1>3, Unmodified
<1>5. /\ Dialect' = Dialect /\ StructOf(p)' = StructOf(p)
      /\ \A d, u : LoadColumn(d, u)' = LoadColumn(d, u)
    BY SetupSame, LoadSame
<1>6. LoadColumn(Dialect, db.cols[n])' = LoadColumn(Dialect, t)
    BY <1>1, <1>5
<1> QED
    BY <1>1, <1>3, <1>4, <1>5, <1>6 DEF Settled, c

LEMMA MadeByMade ==
    ASSUME KnownColumns, setup \in Setups, NEW p \in Proc, NEW n, n \in Names(StructOf(p)), NEW t,
           MadeBy(t, Def(StructOf(p), n))
    PROVE  Made(n, t)
<1>1. /\ HasColumn(p, n, Def(StructOf(p), n))
      /\ Def(StructOf(p), n) \in ColumnDef
    BY StructIs
<1> QED
    BY <1>1 DEF Made, MadeBy, Typed

LEMMA CreateTableReady ==
    ASSUME KnownColumns, CInv, OInv', NEW p \in Proc, CreateTable(p)
    PROVE  CInv' /\ ColumnsKept
<1>0. /\ UNCHANGED setup /\ IsTable(db) /\ IsLocal(loc[p]) /\ Ready(p, loc[p])
      /\ setup \in Setups /\ Dialect \in Dialects /\ TableMade
    BY StructIs DEF CreateTable, CInv, OInv
<1> DEFINE s == StructOf(p)
           after == TableCreated(s)
           l == [loc[p] EXCEPT !.pc = "uniques", !.adds = {i \in s.idx : ~AddIgnored(i)}]
<1>1. /\ l.pc = "uniques" /\ l.alone = loc[p].alone /\ loc[p].pc = "create"
    BY <1>0 DEF IsLocal, CreateTable, At
<1>2. /\ after.exists /\ after.seq = db.seq
      /\ db.exists =>
           /\ DOMAIN after.cols = DOMAIN db.cols
           /\ \A n \in DOMAIN db.cols : \E comment :
                 \/ after.cols[n] = db.cols[n]
                 \/ after.cols[n] = [db.cols[n] EXCEPT !.comment = comment]
      /\ ~db.exists =>
           /\ DOMAIN after.cols = Names(s)
           /\ \A n \in Names(s) : MadeBy(after.cols[n], Def(s, n))
    BY <1>0, TableCreatedIs
<1>3. PICK can \in BOOLEAN : Runs(p, can, after, l)
    BY DEF CreateTable, CanCreateTable, Runs
<1>4. PICK m : m = l
    OBVIOUS
<1> HIDE DEF l, after
<1>5. /\ \A q \in Proc \ {p} : Ready(q, loc[q])'
      /\ \/ db' = after /\ loc'[p] = m
         \/ db' = db /\ loc'[p] = Idle
    BY <1>0, <1>2, <1>3, <1>4, RunsReady
<1>6. CASE db' = db /\ loc'[p] = Idle
  <2>1. TableMade'
    BY <1>0, <1>6, SameColumns
  <2> QED
    BY <1>0, <1>5, <1>6, <2>1, IdleReady, SameKept DEF CInv
<1>7. CASE db' = after /\ loc'[p] = m
  <2>1. ASSUME NEW n \in DOMAIN after.cols PROVE Made(n, after.cols[n])
    <3>1. CASE db.exists
        <4>1. PICK comment : \/ after.cols[n] = db.cols[n]
                             \/ after.cols[n] = [db.cols[n] EXCEPT !.comment = comment]
            BY <1>2, <2>1, <3>1
        <4>2. Made(n, db.cols[n])
            BY <1>0, <1>2, <2>1, <3>1 DEF TableMade
        <4>3. /\ DOMAIN after.cols[n] = DOMAIN db.cols[n]
              /\ after.cols[n].type = db.cols[n].type
              /\ after.cols[n].auto = db.cols[n].auto
            BY <4>1, <4>2 DEF Made
        <4> QED
            BY <4>2, <4>3 DEF Made
    <3>2. CASE ~db.exists
        BY <1>0, <1>2, <2>1, <3>2, MadeByMade
    <3> QED
        BY <3>1, <3>2
  <2>2. TableMade'
    BY <1>0, <1>2, <1>7, <2>1, SetupSame DEF TableMade
  <2>3. ASSUME m.alone, NEW n \in Names(StructOf(p)) PROVE Settled(p, n)'
    <3>1. ~db.exists
        BY <1>0, <1>1, <1>4, <2>3 DEF Ready
    <3> QED
        BY <1>0, <1>2, <1>7, <2>3, <3>1, MadeSettled DEF MadeBy
  <2>4. StructOf(p)' = StructOf(p)
    BY <1>0, SetupSame
  <2>5. Ready(p, m)'
    BY <1>1, <1>2, <1>4, <1>7, <2>3, <2>4 DEF Ready
  <2>6. ASSUME NEW n \in DOMAIN db.cols PROVE ChangesColumn(n)
    <3>1. db.exists /\ DOMAIN db.cols[n] = {"type", "auto", "pk", "comment"}
        BY <1>0, <2>6 DEF TableMade, Made
    <3>2. PICK comment : \/ after.cols[n] = db.cols[n]
                         \/ after.cols[n] = [db.cols[n] EXCEPT !.comment = comment]
        BY <1>2, <2>6, <3>1
    <3>3. n \in DOMAIN db'.cols /\ db'.cols[n].type = db.cols[n].type
        BY <1>2, <1>7, <2>6, <3>1, <3>2
    <3> QED
        BY <3>3 DEF ChangesColumn
  <2> QED
    BY <1>0, <1>5, <1>7, <2>2, <2>5, <2>6 DEF CInv, ColumnsKept
<1> QED
    BY <1>5, <1>6, <1>7

\* The columns after the one that is seen to.
LEMMA TailIs ==
    ASSUME NEW p, NEW todo, TodoOf(p, todo), todo # <<>>
    PROVE  /\ Tail(todo) # todo /\ TodoOf(p, Tail(todo))
           /\ HasColumn(p, Head(todo).name, Head(todo).def)
           /\ 1 \in DOMAIN todo /\ Head(todo) = todo[1]
           /\ \A i \in DOMAIN Tail(todo) : /\ i + 1 \in DOMAIN todo
                                           /\ Tail(todo)[i] = todo[i + 1]
                                           /\ Tail(todo)[i].name # Head(todo).name
           /\ \A i \in DOMAIN todo : i = 1 \/ (i - 1 \in DOMAIN Tail(todo)
                                               /\ Tail(todo)[i - 1] = todo[i])
<1> DEFINE R == [name : STRING, def : ColumnDef]
<1>1. todo \in Seq(R)
    BY DEF TodoOf
<1> HIDE DEF R
<1>2. /\ Len(todo) \in Nat \ {0} /\ DOMAIN todo = 1 .. Len(todo) /\ Head(todo) = todo[1]
      /\ Tail(todo) \in Seq(R) /\ Len(Tail(todo)) = Len(todo) - 1
      /\ DOMAIN Tail(todo) = 1 .. Len(todo) - 1
      /\ \A i \in 1 .. Len(todo) - 1 : Tail(todo)[i] = todo[i + 1]
    BY <1>1
<1>3. /\ \A i \in DOMAIN Tail(todo) : i + 1 \in DOMAIN todo /\ Tail(todo)[i] = todo[i + 1]
      /\ \A i \in DOMAIN todo : i = 1 \/ (i - 1 \in DOMAIN Tail(todo)
                                          /\ Tail(todo)[i - 1] = todo[i])
    BY <1>2
<1>4. 1 \in DOMAIN todo /\ \A i \in DOMAIN Tail(todo) : i + 1 # 1
    BY <1>2
<1>5. \A i \in DOMAIN Tail(todo) : Tail(todo)[i].name # Head(todo).name
    BY <1>2, <1>3, <1>4 DEF TodoOf
<1>6. HasColumn(p, Head(todo).name, Head(todo).def)
    BY <1>2, <1>4 DEF TodoOf
<1>7. \A i, j \in DOMAIN Tail(todo) : i + 1 = j + 1 => i = j
    BY <1>2
<1>8. TodoOf(p, Tail(todo))
  <2>1. \A i \in DOMAIN Tail(todo) : HasColumn(p, Tail(todo)[i].name, Tail(todo)[i].def)
    BY <1>3 DEF TodoOf
  <2>2. \A i, j \in DOMAIN Tail(todo) : Tail(todo)[i].name = Tail(todo)[j].name => i = j
    BY <1>3, <1>7 DEF TodoOf
  <2> QED
    BY <1>2, <2>1, <2>2 DEF TodoOf, R
<1>9. Tail(todo) # todo
  <2>0. \A k, j \in Int : j = k - 1 => j # k
    OBVIOUS
  <2>a. Len(todo) \in Int /\ Len(Tail(todo)) \in Int /\ Len(Tail(todo)) = Len(todo) - 1
    BY <1>2
  <2>1. Len(Tail(todo)) # Len(todo)
    BY <2>0, <2>a, Zenon
  <2> QED
    BY <2>1, Zenon
<1>10. \A i \in DOMAIN Tail(todo) : /\ i + 1 \in DOMAIN todo
                                   /\ Tail(todo)[i] = todo[i + 1]
                                   /\ Tail(todo)[i].name # Head(todo).name
    BY <1>3, <1>5
<1> QED
    BY <1>2, <1>3, <1>4, <1>6, <1>8, <1>9, <1>10

\* What p does with column n of its struct: only that column changes, and it is as its
\* definition makes it.
LEMMA AlterReady ==
    ASSUME KnownColumns, CInv, OInv', UNCHANGED setup, NEW p \in Proc, NEW can \in BOOLEAN, NEW after,
           NEW l, Runs(p, can, after, l),
           loc[p].pc = "columns", loc[p].todo # <<>>,
           l.pc = "columns", l.todo = Tail(loc[p].todo), l.cols = loc[p].cols,
           l.alone = loc[p].alone,
           after.exists = db.exists, after.seq = db.seq,
           NEW n, n = Head(loc[p].todo).name,
           can => /\ DOMAIN after.cols \in {DOMAIN db.cols, DOMAIN db.cols \cup {n}}
                  /\ \A m \in DOMAIN db.cols : m # n => after.cols[m] = db.cols[m]
                  /\ n \in DOMAIN after.cols => Made(n, after.cols[n])
                  /\ loc[p].alone => n \in DOMAIN after.cols
                                     /\ Typed(after.cols[n], Def(StructOf(p), n))
    PROVE  CInv'
<1>0. /\ IsTable(db) /\ IsLocal(loc[p]) /\ Ready(p, loc[p])
      /\ setup \in Setups /\ Dialect \in Dialects /\ TableMade /\ db.exists
    BY StructIs DEF CInv, OInv, Ready
<1> DEFINE todo == loc[p].todo
<1>1. TodoOf(p, todo)
    BY <1>0 DEF Ready
<1>t. /\ TodoOf(p, Tail(todo))
      /\ Head(todo) = todo[1]
      /\ \A i \in DOMAIN Tail(todo) : /\ i + 1 \in DOMAIN todo
                                      /\ Tail(todo)[i] = todo[i + 1]
                                      /\ Tail(todo)[i].name # Head(todo).name
      /\ \A i \in DOMAIN todo : i = 1 \/ (i - 1 \in DOMAIN Tail(todo)
                                          /\ Tail(todo)[i - 1] = todo[i])
    BY <1>1, TailIs
<1>2. /\ \A q \in Proc \ {p} : Ready(q, loc[q])'
      /\ \/ can /\ db' = after /\ loc'[p] = l
         \/ db' = db /\ loc'[p] = Idle
    BY <1>0, RunsReady
<1>3. CASE db' = db /\ loc'[p] = Idle
  <2>1. TableMade'
    BY <1>0, <1>3, SameColumns
  <2> QED
    BY <1>0, <1>2, <1>3, <2>1, IdleReady DEF CInv
<1>4. CASE can /\ db' = after /\ loc'[p] = l
  <2>1. \A m \in DOMAIN after.cols : Made(m, after.cols[m])
    BY <1>0, <1>4 DEF TableMade
  <2>2. TableMade'
    BY <1>0, <1>4, <2>1, SetupSame DEF TableMade
  <2>3. ASSUME NEW m, m # n
        PROVE  /\ m \in DOMAIN after.cols <=> m \in DOMAIN db.cols
               /\ m \in DOMAIN db.cols => after.cols[m] = db.cols[m]
    BY <1>4, <2>3
  <2>4. /\ Dialect' = Dialect /\ StructOf(p)' = StructOf(p)
        /\ \A d, t : LoadColumn(d, t)' = LoadColumn(d, t)
        /\ TodoOf(p, l.todo)'
    BY <1>0, <1>1, <1>4, <1>t, SetupSame, LoadSame
  <2>5. ASSUME l.alone PROVE Fresh(l)'
    <3>1. ASSUME NEW i \in DOMAIN l.todo, NEW m, m = l.todo[i].name
          PROVE  /\ m \in DOMAIN l.cols <=> m \in DOMAIN db'.cols
                 /\ m \in DOMAIN db'.cols => l.cols[m] = LoadColumn(Dialect, db'.cols[m])
        <4>1. i + 1 \in DOMAIN todo /\ todo[i + 1].name = m /\ m # n
            BY <1>t, <3>1
        <4>2. /\ m \in DOMAIN loc[p].cols <=> m \in DOMAIN db.cols
              /\ m \in DOMAIN db.cols => loc[p].cols[m] = LoadColumn(Dialect, db.cols[m])
            BY <1>0, <2>5, <4>1 DEF Ready, Fresh
        <4> QED
            BY <1>4, <2>3, <4>1, <4>2
    <3> QED
        BY <2>4, <3>1 DEF Fresh
  <2>6. ASSUME l.alone, NEW m \in Names(StructOf(p)), \A i \in DOMAIN l.todo : l.todo[i].name # m
        PROVE  Settled(p, m)'
    <3>1. CASE m = n
        BY <1>0, <1>4, <2>6, <3>1, MadeSettled
    <3>2. CASE m # n
        <4>1. ASSUME NEW i \in DOMAIN todo PROVE todo[i].name # m
            <5>1. CASE i = 1
                BY <1>t, <3>2, <5>1
            <5>2. CASE i - 1 \in DOMAIN l.todo /\ l.todo[i - 1] = todo[i]
                BY <2>6, <5>2
            <5> QED
                BY <1>t, <4>1, <5>1, <5>2
        <4>2. Settled(p, m)
            BY <1>0, <2>6, <4>1 DEF Ready, Behind
        <4>3. m \in DOMAIN db.cols
            BY <4>2 DEF Settled
        <4> QED
            BY <1>4, <2>3, <3>2, <4>2, <4>3, SettledSame
    <3> QED
        BY <3>1, <3>2
  <2>7. l.alone => Behind(p, l.todo)'
    BY <2>4, <2>6 DEF Behind
  <2>8. Ready(p, l)'
    BY <1>0, <1>4, <2>4, <2>5, <2>7 DEF Ready
  <2> QED
    BY <1>0, <1>2, <1>4, <2>2, <2>8 DEF CInv
<1> QED
    BY <1>2, <1>3, <1>4

LEMMA AddColumnIs ==
    ASSUME Dialect \in Dialects, IsTable(db), NEW n, NEW c
    PROVE  LET after == AddColumnSQL(n, c) IN
           /\ after.exists = db.exists /\ after.seq = db.seq
           /\ DOMAIN after.cols = DOMAIN db.cols \cup {n}
           /\ \A m \in DOMAIN db.cols : m # n => after.cols[m] = db.cols[m]
           /\ MadeBy(after.cols[n], c)
<1> DEFINE after == AddColumnSQL(n, c)
           b == Dialect \in {"mysql", "postgres"}
           t == DbColumn(Dialect, c, b)
<1>1. after = [db EXCEPT !.cols = Extended(@, n, t)]
    BY DEF AddColumnSQL
<1>a. b \in BOOLEAN /\ (Dialect \in {"mysql", "postgres"} => b)
    OBVIOUS
<1> HIDE DEF b
<1>2. MadeBy(t, c)
    BY <1>a, DbColumnIs DEF MadeBy, Typed
<1> HIDE DEF after, t
<1>3. /\ after.exists = db.exists /\ after.seq = db.seq
      /\ after.cols = Extended(db.cols, n, t)
    BY <1>1 DEF IsTable
<1>4. /\ DOMAIN after.cols = DOMAIN db.cols \cup {n}
      /\ after.cols[n] = t
      /\ \A m \in DOMAIN db.cols : m # n => after.cols[m] = db.cols[m]
    BY <1>3 DEF Extended
<1> QED
    BY <1>2, <1>3, <1>4 DEF after

LEMMA ModifyColumnIs ==
    ASSUME IsTable(db), NEW n, NEW c
    PROVE  LET after == ModifyColumnSQL(n, c)
               t == db.cols[n]
           IN
           /\ after.exists = db.exists /\ after.seq = db.seq
           /\ DOMAIN after.cols = DOMAIN db.cols
           /\ \A m \in DOMAIN db.cols : m # n => after.cols[m] = db.cols[m]
           /\ n \in DOMAIN db.cols /\ DOMAIN t = {"type", "auto", "pk", "comment"} =>
                /\ DOMAIN after.cols[n] = DOMAIN t
                /\ after.cols[n].type = SQLType(Dialect, c)
                /\ after.cols[n].auto = t.auto
                /\ Dialect # "gbase8s" => after.cols[n].comment = c.comment
<1> DEFINE after == ModifyColumnSQL(n, c)
           t == db.cols[n]
           comment == IF Dialect = "gbase8s" /\ c.comment = Empty THEN t.comment ELSE c.comment
           new == [t EXCEPT !.type = SQLType(Dialect, c), !.comment = comment]
<1>1. after = [db EXCEPT !.cols[n] = new]
    BY DEF ModifyColumnSQL
<1>2. Dialect # "gbase8s" => comment = c.comment
    OBVIOUS
<1> HIDE DEF after, comment, t
<1>3. DOMAIN t = {"type", "auto", "pk", "comment"} =>
        /\ DOMAIN new = DOMAIN t /\ new.type = SQLType(Dialect, c) /\ new.auto = t.auto
        /\ new.comment = comment
    OBVIOUS
<1> HIDE DEF new
<1>4. /\ after.exists = db.exists /\ after.seq = db.seq
      /\ after.cols = [db.cols EXCEPT ![n] = new]
    BY <1>1 DEF IsTable
<1>5. /\ DOMAIN after.cols = DOMAIN db.cols
      /\ n \in DOMAIN db.cols => after.cols[n] = new
      /\ \A m \in DOMAIN db.cols : m # n => after.cols[m] = db.cols[m]
    BY <1>4
<1> QED
    BY <1>2, <1>3, <1>4, <1>5 DEF after, t

LEMMA SyncColumnReady ==
    ASSUME KnownColumns, CInv, OInv', NEW p \in Proc, SyncColumn(p)
    PROVE  CInv' /\ ColumnsKept
<1>0. /\ IsTable(db) /\ IsLocal(loc[p]) /\ Ready(p, loc[p]) /\ UNCHANGED setup
      /\ setup \in Setups /\ Dialect \in Dialects /\ TableMade
      /\ loc[p].pc = "columns" /\ loc[p].todo # <<>> /\ loc = [q \in Proc |-> loc[q]]
    BY StructIs DEF CInv, OInv, SyncColumn, At
<1> DEFINE todo == loc[p].todo
           n == Head(todo).name
           c == Head(todo).def
           o == loc[p].cols[n]
           l == [loc[p] EXCEPT !.todo = Tail(@)]
           add == AddColumnSQL(n, c)
           mod == ModifyColumnSQL(n, c)
<1>1. /\ l.pc = "columns" /\ l.todo = Tail(todo) /\ l.cols = loc[p].cols
      /\ l.alone = loc[p].alone
    BY <1>0 DEF IsLocal
<1>2. \/ \E can \in BOOLEAN : /\ n \notin DOMAIN loc[p].cols /\ Runs(p, can, add, l)
                              /\ can => n \notin DOMAIN db.cols
      \/ \E can \in BOOLEAN : /\ n \in DOMAIN loc[p].cols /\ Runs(p, can, mod, l)
                              /\ MustModifyColumn(Dialect, c, o)
      \/ /\ Becomes(p, l) /\ UNCHANGED db /\ n \in DOMAIN loc[p].cols
         /\ ~MustModifyColumn(Dialect, c, o)
    BY DEF SyncColumn, Runs, CanAddColumn
<1>3. /\ TodoOf(p, todo) /\ Tail(todo) # todo /\ 1 \in DOMAIN todo /\ Head(todo) = todo[1]
      /\ HasColumn(p, n, c)
  <2>1. TodoOf(p, todo)
    BY <1>0 DEF Ready
  <2> QED
    BY <1>0, <2>1, TailIs
<1>4. n \in Names(StructOf(p)) /\ Def(StructOf(p), n) = c /\ c \in ColumnDef
    BY <1>0, <1>3, StructIs
<1>5. loc[p].alone =>
        /\ n \in DOMAIN loc[p].cols <=> n \in DOMAIN db.cols
        /\ n \in DOMAIN db.cols => o = LoadColumn(Dialect, db.cols[n])
    BY <1>0, <1>3 DEF Ready, Fresh
<1>6. \A m \in DOMAIN db.cols : Made(m, db.cols[m])
    BY <1>0 DEF TableMade
<1>7. /\ add.exists = db.exists /\ add.seq = db.seq
      /\ DOMAIN add.cols = DOMAIN db.cols \cup {n}
      /\ \A m \in DOMAIN db.cols : m # n => add.cols[m] = db.cols[m]
      /\ MadeBy(add.cols[n], c)
    BY <1>0, AddColumnIs
<1>8. /\ mod.exists = db.exists /\ mod.seq = db.seq
      /\ DOMAIN mod.cols = DOMAIN db.cols
      /\ \A m \in DOMAIN db.cols : m # n => mod.cols[m] = db.cols[m]
      /\ n \in DOMAIN db.cols =>
           /\ DOMAIN mod.cols[n] = DOMAIN db.cols[n]
           /\ mod.cols[n].type = SQLType(Dialect, c)
           /\ mod.cols[n].auto = db.cols[n].auto
           /\ Dialect # "gbase8s" => mod.cols[n].comment = c.comment
  <2>1. n \in DOMAIN db.cols => DOMAIN db.cols[n] = {"type", "auto", "pk", "comment"}
    BY <1>6 DEF Made
  <2> HIDE DEF n, c
  <2> QED
    BY <1>0, <2>1, ModifyColumnIs
<1> HIDE DEF l, add, mod, n, c, o
<1>9. CASE \E can \in BOOLEAN : /\ n \notin DOMAIN loc[p].cols /\ Runs(p, can, add, l)
                                /\ can => n \notin DOMAIN db.cols
  <2>1. PICK can \in BOOLEAN : Runs(p, can, add, l) /\ (can => n \notin DOMAIN db.cols)
    BY <1>9
  <2>2. Made(n, add.cols[n])
    BY <1>0, <1>4, <1>7, MadeByMade
  <2>3. CInv'
    BY <1>0, <1>1, <1>4, <1>7, <2>1, <2>2, AlterReady DEF n, MadeBy
  <2>4. db' = db \/ (can /\ db' = add)
    BY <1>0, <1>7, <2>1, RunsReady
  <2>5. ColumnsKept
    BY <1>7, <2>1, <2>4 DEF ColumnsKept, ChangesColumn
  <2> QED
    BY <2>3, <2>5
<1>10. CASE \E can \in BOOLEAN : /\ n \in DOMAIN loc[p].cols /\ Runs(p, can, mod, l)
                                 /\ MustModifyColumn(Dialect, c, o)
  <2>1. PICK can \in BOOLEAN : /\ n \in DOMAIN loc[p].cols /\ Runs(p, can, mod, l)
                               /\ MustModifyColumn(Dialect, c, o)
    BY <1>10
  <2>2. n \in DOMAIN db.cols => Made(n, mod.cols[n])
    <3>1. n \in DOMAIN db.cols => Made(n, db.cols[n])
        BY <1>6
    <3> QED
        BY <1>3, <1>4, <1>8, <3>1 DEF Made, n, c
  <2>3. n \in DOMAIN db.cols /\ loc[p].alone => Typed(mod.cols[n], Def(StructOf(p), n))
    BY <1>4, <1>6, <1>8 DEF Made, Typed
  <2>4. CInv'
    <3>1. /\ DOMAIN mod.cols \in {DOMAIN db.cols, DOMAIN db.cols \cup {n}}
          /\ n \in DOMAIN mod.cols => Made(n, mod.cols[n])
          /\ loc[p].alone => n \in DOMAIN mod.cols /\ Typed(mod.cols[n], Def(StructOf(p), n))
        BY <1>5, <1>8, <2>1, <2>2, <2>3
    <3> QED
        BY <1>0, <1>1, <1>8, <2>1, <3>1, AlterReady DEF n
  <2>5. (db' = db) \/ (db' = mod /\ loc'[p] = l)
    BY <1>0, <1>8, <2>1, RunsReady
  <2>6. ASSUME db' = mod, loc'[p] = l, loc[p].alone, n \in DOMAIN db.cols
        PROVE  \/ db'.cols[n].type = db.cols[n].type
               \/ db.cols[n].type.base = "VARCHAR" /\ db'.cols[n].type = Plain("TEXT")
               \/ Def(StructOf(p), n).comment # db.cols[n].comment
    <3>1. PICK c0 \in ColumnDef : db.cols[n].type = SQLType(Dialect, c0)
        BY <1>6, <2>6 DEF Made
    <3>2. MustModifyColumn(Dialect, c, LoadColumn(Dialect, db.cols[n]))
        BY <1>5, <2>1, <2>6
    <3>3. \/ db.cols[n].type.base = "VARCHAR" /\ SQLType(Dialect, c) = Plain("TEXT")
          \/ c.comment # db.cols[n].comment
        BY <1>0, <1>4, <3>1, <3>2, ModifiesOnly
    <3> QED
        BY <1>4, <1>8, <2>6, <3>3
  <2>7. ASSUME NEW m \in DOMAIN db.cols PROVE ChangesColumn(m)
    <3>1. CASE db' = db \/ m # n
        BY <1>8, <2>5, <2>7, <3>1 DEF ChangesColumn
    <3>2. CASE db' = mod /\ loc'[p] = l /\ m = n
        <4>1. loc'[p].todo # loc[p].todo
            BY <1>1, <1>3, <3>2
        <4>2. \/ db'.cols[n].type = db.cols[n].type
              \/ db.cols[n].type.base = "VARCHAR" /\ db'.cols[n].type = Plain("TEXT")
              \/ ~loc[p].alone \/ Def(StructOf(p), n).comment # db.cols[n].comment
            BY <2>6, <2>7, <3>2
        <4>3. n \in DOMAIN db'.cols
            BY <1>8, <2>7, <3>2
        <4> QED
            BY <3>2, <4>1, <4>2, <4>3 DEF ChangesColumn
    <3> QED
        BY <2>5, <3>1, <3>2
  <2> QED
    BY <2>4, <2>7 DEF ColumnsKept
<1>11. CASE /\ Becomes(p, l) /\ UNCHANGED db /\ n \in DOMAIN loc[p].cols
            /\ ~MustModifyColumn(Dialect, c, o)
  <2>1. ColumnsKept
    BY <1>11, SameKept
  <2>2. TodoOf(p, l.todo)
    BY <1>0, <1>1, <1>3, TailIs
  <2>a. /\ \A i \in DOMAIN l.todo : i + 1 \in DOMAIN todo /\ l.todo[i] = todo[i + 1]
        /\ \A i \in DOMAIN todo : i = 1 \/ (i - 1 \in DOMAIN l.todo /\ l.todo[i - 1] = todo[i])
    <3>1. /\ \A i \in DOMAIN Tail(todo) : i + 1 \in DOMAIN todo /\ Tail(todo)[i] = todo[i + 1]
          /\ \A i \in DOMAIN todo : i = 1 \/ (i - 1 \in DOMAIN Tail(todo)
                                              /\ Tail(todo)[i - 1] = todo[i])
        <4> HIDE DEF todo
        <4>1. todo # <<>>
            BY <1>0 DEF todo
        <4> QED
            BY <1>3, <4>1, TailIs
    <3> QED
        BY <1>1, <3>1
  <2>3. l.alone => Fresh(l)
    <3>1. l.alone => Fresh(loc[p])
        BY <1>0, <1>1 DEF Ready
    <3> QED
        BY <1>1, <2>a, <3>1 DEF Fresh
  <2>4. ASSUME l.alone, NEW m \in Names(StructOf(p)), \A i \in DOMAIN l.todo : l.todo[i].name # m
        PROVE  Settled(p, m)
    <3>1. CASE m = n
        BY <1>1, <1>4, <1>5, <1>11, <2>4, <3>1 DEF Settled
    <3>2. CASE m # n
        <4>1. ASSUME NEW i \in DOMAIN todo PROVE todo[i].name # m
            <5>1. CASE i = 1
                BY <1>3, <3>2, <5>1 DEF n
            <5>2. CASE i - 1 \in DOMAIN l.todo /\ l.todo[i - 1] = todo[i]
                BY <2>4, <5>2
            <5> QED
                BY <2>a, <4>1, <5>1, <5>2
        <4> QED
            BY <1>0, <1>1, <2>4, <4>1 DEF Ready, Behind
    <3> QED
        BY <3>1, <3>2
  <2>b. l.alone => Behind(p, l.todo)
    BY <2>4 DEF Behind
  <2>5. Ready(p, l)
    BY <1>0, <1>1, <2>2, <2>3, <2>b DEF Ready
  <2> QED
    BY <1>0, <1>11, <2>1, <2>5, LocalReady
<1> QED
    BY <1>2, <1>9, <1>10, <1>11

LEMMA InitReady == Init => CInv
BY InitInv, IdleReady DEF Init, CInv, TableMade, NoTable

LEMMA NextReady ==
    ASSUME KnownColumns, CInv, [Next]_vars
    PROVE  CInv' /\ [ColumnsKept]_vars
<1>0. OInv'
    BY NextInv DEF CInv
<1>1. CASE UNCHANGED vars
  <2>1. UNCHANGED <<setup, db>> /\ loc' = loc
    BY <1>1 DEF vars
  <2>2. TableMade'
    BY <2>1, SameColumns
  <2>3. ASSUME NEW q \in Proc PROVE Ready(q, loc[q])'
    <3>1. PICK m : m = loc[q]
        OBVIOUS
    <3>2. Ready(q, m)'
        BY <2>1, <3>1, ReadySame DEF CInv
    <3> QED
        BY <2>1, <3>1, <3>2
  <2> QED
    BY <1>0, <1>1, <2>1, <2>2, <2>3 DEF CInv
<1>2. ASSUME NEW p \in Proc, Step(p) \/ Fault(p) PROVE CInv' /\ ColumnsKept
    BY <1>0, <1>2, SequenceReady, CreateTableReady, IndexReady, SyncColumnReady, LocalStepsReady
       DEF Step
<1> QED
    BY <1>1, <1>2 DEF Next

----------------------------------------------------------------------------

LEMMA TypesOfTable ==
    ASSUME KnownColumns, SameAutoIncrement, CInv
    PROVE  TypesRoundTrip
<1> SUFFICES ASSUME NEW p \in Proc, NEW n \in DOMAIN db.cols \cap Names(StructOf(p)),
                    db.cols[n].type = SQLType(Dialect, Def(StructOf(p), n)),
                    Def(StructOf(p), n).type \notin Drifts[Dialect],
                    ~LengthDrifts(Def(StructOf(p), n))
             PROVE  columnTypesMatch(Dialect, Def(StructOf(p), n),
                        LoadColumn(Dialect, db.cols[n]), SQLType(Dialect, Def(StructOf(p), n)),
                        SQLType(Dialect, LoadColumn(Dialect, db.cols[n])))
    BY DEF TypesRoundTrip
<1> DEFINE c == Def(StructOf(p), n)
           t == db.cols[n]
<1>1. /\ Dialect \in Dialects /\ HasColumn(p, n, c) /\ c \in ColumnDef
    BY StructIs DEF CInv
<1>2. PICK q \in Proc, b \in ColumnDef : HasColumn(q, n, b) /\ t.auto = b.isAutoIncrement
    BY DEF CInv, TableMade, Made
<1> HIDE DEF c
<1>3. c.isAutoIncrement = b.isAutoIncrement /\ (c.isAutoIncrement => c.type \in AutoTypes)
  <2>1. PICK i \in DOMAIN setup.struct[p].cols :
            setup.struct[p].cols[i].name = n /\ setup.struct[p].cols[i].def = c
    BY <1>1 DEF HasColumn, StructOf
  <2>2. PICK j \in DOMAIN setup.struct[q].cols :
            setup.struct[q].cols[j].name = n /\ setup.struct[q].cols[j].def = b
    BY <1>2 DEF HasColumn, StructOf
  <2>3. setup \in Setups
    BY DEF CInv
  <2> QED
    BY <2>1, <2>2, <2>3 DEF SameAutoIncrement
<1>4. c.length \in Nat /\ c.length2 \in Nat
    BY <1>1 DEF ColumnDef
<1>5. /\ Dialect = "gbase8s" /\ c.length \in 1 .. 5 =>
            c.type \notin {"DATETIME", "TIMESTAMP", "TIMESTAMPZ", "TIME"}
      /\ Dialect = "dameng" /\ c.type = "TIMESTAMPZ" => c.length > 0
      /\ Dialect = "mysql" /\ c.type = "UNSIGNED_FLOAT" /\ c.length > 0 => c.length2 > 0
    BY <1>4 DEF LengthDrifts, c
<1>6. t.type = SQLType(Dialect, c) /\ c.type \notin Drifts[Dialect]
    BY DEF c
<1> HIDE DEF t
<1>7. columnTypesMatch(Dialect, c, LoadColumn(Dialect, t), SQLType(Dialect, c),
                       SQLType(Dialect, LoadColumn(Dialect, t)))
    BY <1>1, <1>2, <1>3, <1>5, <1>6, TypesMatch
<1> QED
    BY <1>7 DEF c, t

LEMMA SettledTable == CInv => ColumnsSettle
<1> SUFFICES ASSUME CInv, NEW p \in Proc, loc[p].pc = "done", loc[p].alone,
                    NEW n \in WouldModify(StructOf(p))
             PROVE  GbaseComments(StructOf(p))
    BY DEF ColumnsSettle, At
<1>1. n \in Names(StructOf(p)) /\ Settled(p, n)
    BY DEF CInv, Ready, WouldModify
<1> QED
    BY <1>1 DEF WouldModify, Settled, GbaseComments

\* A type survives the way to the database and back, whatever structs the instances have
\* and in whatever order they created, added and modified its column: SQLType of the column
\* that GetColumns loads is a type that columnTypesMatch takes for the struct's, on all
\* seven dialects and for every type but the ones of Drifts and LengthDrifts, as far as the
\* catalogs report what Catalog says (SQLType, GetColumns and columnTypesMatch; a struct
\* gives no column twice, and the instances agree on which columns are auto-incremented).
THEOREM TypesComeBack ==
    ASSUME KnownColumns, SameAutoIncrement
    PROVE  Spec => []TypesRoundTrip
<1>1. CInv /\ [Next]_vars => CInv'
    BY NextReady
<1>2. CInv => TypesRoundTrip
    BY TypesOfTable
<1> QED
    BY <1>1, <1>2, InitReady, PTL DEF Spec

\* No Sync takes a column away, and one that has the table to itself changes no type but
\* from VARCHAR to TEXT or where the comment differs: what it loaded of the columns it has
\* still to see to is what the table has, and MustModifyColumn asks for no other change of
\* a column that some SQLType made (the loop over columns of SyncWithOptions).
THEOREM SyncOnlyAdds ==
    ASSUME KnownColumns
    PROVE  Spec => OnlyAdds
<1>1. CInv /\ [Next]_vars => CInv' /\ [ColumnsKept]_vars
    BY NextReady
<1> QED
    BY <1>1, InitReady, PTL DEF Spec, OnlyAdds, ColumnsKept

\* A Sync that ended without another instance's changes has nothing left to do for the
\* columns, but for the comments of gbase8s: CreateTableSQL, AddColumnSQL and
\* ModifyColumnSQL make columns that the next Sync does not modify.
THEOREM SyncSettlesColumns ==
    ASSUME KnownColumns
    PROVE  Spec => []ColumnsSettle
<1>1. CInv /\ [Next]_vars => CInv'
    BY NextReady
<1> QED
    BY <1>1, InitReady, SettledTable, PTL DEF Spec
=============================================================================

----------------------------- MODULE SchemaSync -----------------------------
(***************************************************************************)
(* Session.Sync: instances of an application bring the table of a struct   *)
(* up to date when they start.  Several start at the same time, perhaps    *)
(* with different versions of the struct, and none of them holds a lock:   *)
(* each reads the tables, the columns and the indexes once and then sends  *)
(* one DDL statement after the other, any of which may fail.  An instance  *)
(* whose Sync failed, or that crashed, starts again.                       *)
(*                                                                         *)
(* A struct has a sequence of columns, each a name and a definition, and a *)
(* set of indexes with type, name and a sequence of columns.  The database *)
(* names an index after its type and its name, so the two are its key.     *)
(***************************************************************************)
EXTENDS DialectTypes, FiniteSets

CONSTANTS Proc,       \* the instances
          Setups,     \* what may run: a dialect, options, and a struct per instance
          MaxFaults   \* bound: crashes and failed statements

ASSUME SetupsAssumption == Setups # {} /\ MaxFaults \in Nat

VARIABLES
    setup,   \* [dialect, opts, struct]
    db,      \* the table, its columns, indexes and sequence
    loc,     \* the local variables of SyncWithOptions in each instance
    faults

vars == <<setup, db, loc, faults>>

\* pc: where it is; cols and idx: oriTable; todo: the columns it has still to see to;
\* adds: the indexes it has still to add, addedNames; alone (history): no other instance
\* has changed the table since this one started.
Idle == [pc |-> "idle", cols |-> <<>>, idx |-> {}, todo |-> <<>>, adds |-> {},
         alone |-> FALSE]

Dialect == setup.dialect
Opts == setup.opts
StructOf(p) == setup.struct[p]
Names(s) == {s.cols[i].name : i \in DOMAIN s.cols}
Def(s, n) == s.cols[CHOOSE i \in DOMAIN s.cols : s.cols[i].name = n].def
SeqRange(s) == {s[i] : i \in DOMAIN s}

NoTable == [exists |-> FALSE, seq |-> FALSE, cols |-> <<>>, idx |-> {}]

\* The setups of the theorems about columns: a struct names no column twice and gives each a
\* type of ColumnTypes.
Dialects == {"mysql", "postgres", "sqlite3", "mssql", "oracle", "dameng", "gbase8s"}
ColumnDef == [type : ColumnTypes, length : Nat, length2 : Nat, isAutoIncrement : BOOLEAN,
              isPrimaryKey : BOOLEAN, isJSON : BOOLEAN, isJSONB : BOOLEAN, comment : STRING]
KnownColumns ==
    \A u \in Setups :
        /\ u.dialect \in Dialects
        /\ \A p \in Proc :
              LET cols == u.struct[p].cols IN
              /\ cols \in Seq([name : STRING, def : ColumnDef])
              /\ \A i, j \in DOMAIN cols : cols[i].name = cols[j].name => i = j

\* The structs of the instances agree on which columns are auto-incremented, and those are
\* integers of at least two bytes (of a TINYINT postgres makes a SMALLINT that is no serial).
SameAutoIncrement ==
    \A u \in Setups : \A p, q \in Proc :
        \A i \in DOMAIN u.struct[p].cols, j \in DOMAIN u.struct[q].cols :
            LET a == u.struct[p].cols[i]
                b == u.struct[q].cols[j]
            IN  /\ a.name = b.name => a.def.isAutoIncrement = b.def.isAutoIncrement
                /\ a.def.isAutoIncrement => a.def.type \in AutoTypes

Init ==
    /\ setup \in Setups
    /\ db = NoTable
    /\ loc = [p \in Proc |-> Idle]
    /\ faults = 0

----------------------------------------------------------------------------
(* What the statements do *)

SequenceMode(d) == d \in {"oracle", "dameng"}
HasAutoIncrement(s) == \E n \in Names(s) : Def(s, n).isAutoIncrement

\* The column that the definition of a column makes, with or without its comment.
DbColumn(d, c, commented) ==
    [type |-> SQLType(d, c), auto |-> c.isAutoIncrement, pk |-> c.isPrimaryKey,
     comment |-> IF commented THEN c.comment ELSE Empty]
NewColumns(s, commented) ==
    [n \in Names(s) |-> DbColumn(Dialect, Def(s, n), commented)]

\* CreateTableSQL: the columns it makes, whether it passes over a table that is there
\* already, and the columns whose comment it sets in statements of their own, which it
\* does in either case.
baseCreateTableSQL(s) ==
    [cols |-> NewColumns(s, FALSE), ifNotExists |-> TRUE, comments |-> {}]
mysqlCreateTableSQL(s) ==
    [cols |-> NewColumns(s, TRUE), ifNotExists |-> TRUE, comments |-> {}]
postgresCreateTableSQL(s) ==
    [baseCreateTableSQL(s) EXCEPT
        !.comments = {n \in Names(s) : Def(s, n).comment # Empty}]
mssqlCreateTableSQL(s) ==
    [cols |-> NewColumns(s, FALSE), ifNotExists |-> TRUE, comments |-> {}]
oracleCreateTableSQL(s) ==
    [cols |-> NewColumns(s, FALSE), ifNotExists |-> FALSE, comments |-> {}]
damengCreateTableSQL(s) ==
    [cols |-> NewColumns(s, FALSE), ifNotExists |-> FALSE, comments |-> {}]
gbase8sCreateTableSQL(s) ==
    [cols |-> NewColumns(s, TRUE), ifNotExists |-> FALSE, comments |-> {}]

CreateTableSQL(s) ==
    CASE Dialect = "mysql" -> mysqlCreateTableSQL(s)
      [] Dialect = "postgres" -> postgresCreateTableSQL(s)
      [] Dialect = "sqlite3" -> baseCreateTableSQL(s)
      [] Dialect = "mssql" -> mssqlCreateTableSQL(s)
      [] Dialect = "oracle" -> oracleCreateTableSQL(s)
      [] Dialect = "dameng" -> damengCreateTableSQL(s)
      [] Dialect = "gbase8s" -> gbase8sCreateTableSQL(s)

\* What the database does with it.
ColsAfter(sql) == IF db.exists THEN db.cols ELSE sql.cols
CanCreateTable(s) ==
    LET sql == CreateTableSQL(s) IN
    /\ \A n \in Names(s) : Accepts(Dialect, sql.cols[n].type)
    /\ db.exists => sql.ifNotExists
    /\ sql.comments \subseteq DOMAIN ColsAfter(sql)
TableCreated(s) ==
    LET sql == CreateTableSQL(s)
        cols == ColsAfter(sql)
    IN  [db EXCEPT !.exists = TRUE,
                   !.cols = [n \in DOMAIN cols |->
                                IF n \in sql.comments
                                THEN [cols[n] EXCEPT !.comment = Def(s, n).comment]
                                ELSE cols[n]]]

Extended(cols, n, col) == [m \in DOMAIN cols \cup {n} |-> IF m = n THEN col ELSE cols[m]]

\* mysql and postgres state the comment of an added column.
CanAddColumn(n, c) == n \notin DOMAIN db.cols /\ Accepts(Dialect, SQLType(Dialect, c))
\* A mutant: the comment is forgotten.
AddColumnSQLNoComment(n, c) ==
    [db EXCEPT !.cols = Extended(@, n, DbColumn(Dialect, c, FALSE))]
AddColumnSQL(n, c) ==
    [db EXCEPT !.cols =
        Extended(@, n, DbColumn(Dialect, c, Dialect \in {"mysql", "postgres"}))]

\* ALTER COLUMN TYPE takes no serial type, and no column of an index becomes a large object.
Indexed(n) == \E i \in db.idx : n \in SeqRange(i.cols)
CanModifyColumn(n, c) ==
    /\ Dialect = "postgres" => SQLType(Dialect, c).base \notin Serials
    /\ Indexed(n) => Indexable(Dialect, SQLType(Dialect, c))

\* MODIFY COLUMN states the whole definition again, ALTER COLUMN TYPE the type; gbase8s
\* leaves a comment that the struct does not have.
ModifyColumnSQL(n, c) ==
    LET t == db.cols[n] IN
    [db EXCEPT !.cols[n] = [t EXCEPT
        !.type = SQLType(Dialect, c),
        !.comment = IF Dialect = "gbase8s" /\ c.comment = Empty THEN t.comment ELSE c.comment]]

Key(i) == <<i.type, i.name>>
CanCreateIndex(i) ==
    /\ \A j \in db.idx : Key(j) # Key(i)
    /\ SeqRange(i.cols) \subseteq DOMAIN db.cols
    /\ \A n \in SeqRange(i.cols) : Indexable(Dialect, db.cols[n].type)
CreateIndexSQL(i) == [db EXCEPT !.idx = @ \cup {[type |-> i.type, name |-> i.name,
                                                cols |-> i.cols]}]
CanDropIndex(i) == i.regular /\ \E j \in db.idx : Key(j) = Key(i)
DropIndexSQL(i) == [db EXCEPT !.idx = {j \in @ : Key(j) # Key(i)}]

----------------------------------------------------------------------------
(* loadTableInfo *)

\* Whether a column is auto-incremented: dameng looks for the sequence of the table,
\* oracle does not ask.
LoadedAuto(d, c, col) ==
    CASE d = "oracle" -> FALSE
      [] d = "dameng" -> c.pk /\ db.seq
      [] d = "gbase8s" -> col.isAutoIncrement \/ c.type.base \in Serials
      [] OTHER -> c.auto

\* postgres, mysql and gbase8s read the comment; dameng drops what it has read.
LoadColumn(d, c) ==
    LET col == GetColumn(d, Catalog(d, c.type)) IN
    [col EXCEPT !.comment = IF d \in {"mysql", "postgres", "gbase8s"} THEN c.comment ELSE Empty,
                !.isPrimaryKey = c.pk, !.isAutoIncrement = LoadedAuto(d, c, col)]
GetColumns(d) == [n \in DOMAIN db.cols |-> LoadColumn(d, db.cols[n])]

\* The indexes as the catalog lists them.
PrimaryKey == {n \in DOMAIN db.cols : db.cols[n].pk}
Regular(i) == [type |-> i.type, name |-> i.name, regular |-> TRUE, cols |-> i.cols]
CatalogIndexes == {Regular(i) : i \in db.idx}

\* Two indexes of one name and different types share an entry of the map that GetIndexes
\* returns.  first is the type of the one that the catalog lists first: the other's
\* columns are added to its entry, or the other replaces it.
Named(all, n) == {i \in all : i.name = n}
Grouped(all, first) ==
    {LET rest == Named(all, i.name) \ {i} IN
     IF rest = {} THEN i ELSE [i EXCEPT !.cols = @ \o (CHOOSE j \in rest : TRUE).cols] :
        i \in {j \in all : j.type = first \/ Named(all, j.name) = {j}}}
Replaced(all, first) ==
    {i \in all : i.type # first \/ Named(all, i.name) = {i}}

mysqlGetIndexes(first) == Grouped(CatalogIndexes, first)
postgresGetIndexes(first) == Replaced(CatalogIndexes, first)
sqlite3GetIndexes(first) == Replaced(CatalogIndexes, first)
mssqlGetIndexes(first) == Grouped(CatalogIndexes, first)
damengGetIndexes(first) == Grouped(CatalogIndexes, first)

\* It does not leave out the index of the primary key, whose name is the database's.
oracleGetIndexes(first) ==
    Grouped(CatalogIndexes, first)
    \cup {[type |-> "unique", name |-> "SYS_C", regular |-> FALSE, cols |-> <<n>>] :
            n \in PrimaryKey}

\* It skips the rows of the primary key's columns.
gbase8sGetIndexes(first) ==
    LET cut(i) == [i EXCEPT !.cols = SelectSeq(@, LAMBDA c : c \notin PrimaryKey)]
    IN  Grouped({i \in {cut(j) : j \in CatalogIndexes} : i.cols # <<>>}, first)

GetIndexes(first) ==
    CASE Dialect = "mysql" -> mysqlGetIndexes(first)
      [] Dialect = "postgres" -> postgresGetIndexes(first)
      [] Dialect = "sqlite3" -> sqlite3GetIndexes(first)
      [] Dialect = "mssql" -> mssqlGetIndexes(first)
      [] Dialect = "oracle" -> oracleGetIndexes(first)
      [] Dialect = "dameng" -> damengGetIndexes(first)
      [] Dialect = "gbase8s" -> gbase8sGetIndexes(first)

----------------------------------------------------------------------------
(* The decisions *)

VarcharWidened(ori_, c) == ori_.length < c.length

\* The switch on the types and the comment of a column that is there.  Where the types
\* do not match, and no branch modifies the column, Sync logs a warning.
MustModifyColumn(d, c, o) ==
    LET expected == SQLType(d, c)
        current == SQLType(d, o)
    IN  IF ~columnTypesMatch(d, c, o, expected, current)
        THEN /\ d \in {"mysql", "postgres"} /\ current.base = "VARCHAR"
             /\ \/ expected = Plain("TEXT")
                \/ expected.base = "VARCHAR" /\ VarcharWidened(o, c)
        ELSE IF expected = Plain("VARCHAR")
        THEN d \in {"mysql", "postgres"} /\ VarcharWidened(o, c)
        ELSE d \in {"postgres", "gbase8s", "mysql"} /\ c.comment # o.comment

IndexEqual(i, j) ==
    /\ i.type = j.type /\ Len(i.cols) = Len(j.cols)
    /\ SeqRange(i.cols) \subseteq SeqRange(j.cols)

\* The loop over the struct's indexes takes the first loaded one that is equal, and a map
\* has no order: what it may find for each index, nothing or one.
Matches(s, loaded) ==
    {m \in [s.idx -> {{}} \cup {{j} : j \in loaded}] :
        \A i \in s.idx :
            LET equal == {j \in loaded : IndexEqual(i, j)}
            IN  m[i] \subseteq equal /\ (m[i] = {} => equal = {})}

\* A mutant: IgnoreDropIndices has no effect.
DropIgnoredNoDrop(i) ==
    \/ i.type = "index" /\ Opts.ignoreIndices
    \/ i.type = "unique" /\ Opts.ignoreConstrains
DropIgnored(i) ==
    \/ i.type = "index" /\ (Opts.ignoreIndices \/ Opts.ignoreDropIndices)
    \/ i.type = "unique" /\ Opts.ignoreConstrains
AddIgnored(i) ==
    \/ i.type = "index" /\ Opts.ignoreIndices
    \/ i.type = "unique" /\ Opts.ignoreConstrains

Unmatched(m, loaded) == {j \in loaded : \A i \in DOMAIN m : j \notin m[i]}
Drops(m, loaded) == {j \in Unmatched(m, loaded) : ~DropIgnored(j)}

\* A mutant: an index that is loaded under its name, be it about to be dropped, is not added.
AddsNewNames(m, loaded) ==
    {i \in DOMAIN m :
        m[i] = {} /\ ~AddIgnored(i) /\ \A j \in loaded : j.name # i.name}

\* A mutant: the name of an index that is kept is added.
AddsKeptNames(m, loaded) == {i \in DOMAIN m : m[i] = {} /\ ~AddIgnored(i)}

\* An index that is kept keeps its name from being added.
Adds(m, loaded) ==
    {i \in DOMAIN m :
        /\ m[i] = {} /\ ~AddIgnored(i)
        /\ \A j \in Unmatched(m, loaded) : j.name = i.name => ~DropIgnored(j)}

----------------------------------------------------------------------------
(* SyncWithOptions, a statement at a time *)

At(p, l) == loc[p].pc = l
Becomes(p, l) == loc' = [loc EXCEPT ![p] = l]

\* A DDL statement of p: it succeeds, p goes on as l, and the others are no longer alone,
\* or it fails and Sync returns the error.
Runs(p, can, after, l) ==
    IF can
    THEN /\ db' = after
         /\ loc' = [q \in Proc |->
                       IF q = p THEN l
                       ELSE [loc[q] EXCEPT !.alone = @ /\ after = db]]
    ELSE Becomes(p, Idle) /\ UNCHANGED db

\* GetTables.
Start(p) ==
    /\ At(p, "idle")
    /\ Becomes(p, [Idle EXCEPT
           !.alone = TRUE,
           !.pc = IF db.exists THEN "loadColumns"
                  ELSE IF SequenceMode(Dialect) /\ HasAutoIncrement(StructOf(p))
                  THEN "sequence" ELSE "create"])
    /\ UNCHANGED <<setup, db, faults>>

CreateSequence(p) ==
    /\ At(p, "sequence")
    /\ Runs(p, ~db.seq, [db EXCEPT !.seq = TRUE], [loc[p] EXCEPT !.pc = "create"])
    /\ UNCHANGED <<setup, faults>>

CreateTable(p) ==
    /\ At(p, "create")
    /\ Runs(p, CanCreateTable(StructOf(p)), TableCreated(StructOf(p)),
            [loc[p] EXCEPT !.pc = "uniques",
                           !.adds = {i \in StructOf(p).idx : ~AddIgnored(i)}])
    /\ UNCHANGED <<setup, faults>>

\* createUniques, then createIndexes.
CreateIndexes(p) ==
    /\ At(p, "uniques")
    /\ \E i \in loc[p].adds :
          /\ i.type = "index" => \A j \in loc[p].adds : j.type = "index"
          /\ Runs(p, CanCreateIndex(i), CreateIndexSQL(i), [loc[p] EXCEPT !.adds = @ \ {i}])
    /\ UNCHANGED <<setup, faults>>

LoadColumns(p) ==
    /\ At(p, "loadColumns")
    /\ Becomes(p, [loc[p] EXCEPT !.pc = "loadIndexes", !.cols = GetColumns(Dialect)])
    /\ UNCHANGED <<setup, db, faults>>

\* An index on a column added since is an error.
LoadIndexes(p) ==
    /\ At(p, "loadIndexes")
    /\ \E first \in {"index", "unique"} :
          LET loaded == GetIndexes(first) IN
          Becomes(p, IF \A i \in loaded : SeqRange(i.cols) \subseteq DOMAIN loc[p].cols
                     THEN [loc[p] EXCEPT !.pc = "columns", !.idx = loaded,
                                         !.todo = StructOf(p).cols]
                     ELSE Idle)
    /\ UNCHANGED <<setup, db, faults>>

SyncColumn(p) ==
    /\ At(p, "columns") /\ loc[p].todo # <<>>
    /\ LET n == Head(loc[p].todo).name
           c == Head(loc[p].todo).def
           next == [loc[p] EXCEPT !.todo = Tail(@)]
       IN  IF n \notin DOMAIN loc[p].cols
           THEN Runs(p, CanAddColumn(n, c), AddColumnSQL(n, c), next)
           ELSE IF MustModifyColumn(Dialect, c, loc[p].cols[n])
           THEN Runs(p, CanModifyColumn(n, c), ModifyColumnSQL(n, c), next)
           ELSE Becomes(p, next) /\ UNCHANGED db
    /\ UNCHANGED <<setup, faults>>

CompareIndexes(p) ==
    /\ At(p, "columns") /\ loc[p].todo = <<>>
    /\ \E m \in Matches(StructOf(p), loc[p].idx) :
          Becomes(p, [loc[p] EXCEPT !.pc = "indexes", !.cols = <<>>, !.idx = Drops(m, @),
                                    !.adds = Adds(m, loc[p].idx)])
    /\ UNCHANGED <<setup, db, faults>>

DropIndex(p) ==
    /\ At(p, "indexes")
    /\ \E i \in loc[p].idx :
          Runs(p, CanDropIndex(i), DropIndexSQL(i), [loc[p] EXCEPT !.idx = @ \ {i}])
    /\ UNCHANGED <<setup, faults>>

AddIndex(p) ==
    /\ At(p, "indexes") /\ loc[p].idx = {}
    /\ \E i \in loc[p].adds :
          Runs(p, CanCreateIndex(i), CreateIndexSQL(i), [loc[p] EXCEPT !.adds = @ \ {i}])
    /\ UNCHANGED <<setup, faults>>

Finish(p) ==
    /\ loc[p].pc \in {"uniques", "indexes"} /\ loc[p].adds = {} /\ loc[p].idx = {}
    /\ Becomes(p, [loc[p] EXCEPT !.pc = "done"])
    /\ UNCHANGED <<setup, db, faults>>

\* The instance crashes, or a statement fails for a reason of its own.
Fault(p) ==
    /\ faults < MaxFaults /\ ~At(p, "idle") /\ ~At(p, "done")
    /\ faults' = faults + 1
    /\ Becomes(p, Idle)
    /\ UNCHANGED <<setup, db>>

Step(p) ==
    \/ Start(p) \/ CreateSequence(p) \/ CreateTable(p) \/ CreateIndexes(p)
    \/ LoadColumns(p) \/ LoadIndexes(p) \/ SyncColumn(p) \/ CompareIndexes(p)
    \/ DropIndex(p) \/ AddIndex(p) \/ Finish(p)

Next == \E p \in Proc : Step(p) \/ Fault(p)

Spec == Init /\ [][Next]_vars

\* An instance that was started runs, and one whose Sync failed is started again.
FairSpec == Spec /\ \A p \in Proc : WF_vars(Step(p))

----------------------------------------------------------------------------
(* Properties *)

\* Where a second Sync is known to issue DDL again: gbase8s neither clears the comment of
\* a column nor writes the comment of an added one, and loses the primary key's columns of
\* an index; oracle drops the index of the primary key; and two instances can leave two
\* indexes of one name and different types, which GetIndexes takes for one.
GbaseComments(s) ==
    Dialect = "gbase8s" /\ \E n \in Names(s) \cap DOMAIN db.cols :
                              db.cols[n].comment # Def(s, n).comment
GbaseIndexes == Dialect = "gbase8s" /\ \E i \in db.idx : SeqRange(i.cols) \cap PrimaryKey # {}
TwoOfOneName == \E i, j \in db.idx : i # j /\ i.name = j.name
OraclePrimaryKey == Dialect = "oracle" /\ ~Opts.ignoreConstrains /\ PrimaryKey # {}

WouldModify(s) ==
    {n \in Names(s) : n \notin DOMAIN db.cols
                      \/ MustModifyColumn(Dialect, Def(s, n), LoadColumn(Dialect, db.cols[n]))}
WouldReindex(s) ==
    \E first \in {"index", "unique"} :
        \E m \in Matches(s, GetIndexes(first)) :
            Drops(m, GetIndexes(first)) # {} \/ Adds(m, GetIndexes(first)) # {}

\* When a Sync has ended and no other instance changed the table meanwhile, the table has
\* every column of the struct, and a second Sync would modify none (the loop over columns of
\* SyncWithOptions, on what CreateTableSQL, AddColumnSQL and ModifyColumnSQL made and
\* GetColumns reads back).
ColumnsSettle ==
    \A p \in Proc : At(p, "done") /\ loc[p].alone =>
        (WouldModify(StructOf(p)) # {} => GbaseComments(StructOf(p)))

\* And it would neither drop nor add an index (the three loops over indexes, on what
\* GetIndexes reads back).
IndexesSettle ==
    \A p \in Proc : At(p, "done") /\ loc[p].alone =>
        (WouldReindex(StructOf(p)) => GbaseIndexes \/ OraclePrimaryKey \/ TwoOfOneName)

\* The types that do not survive the way to the database and back.
Drifts ==
    [mysql |-> {"BOOLEAN", "INTEGER", "REAL"},
     postgres |-> {"BOOLEAN", "BIT", "NUMERIC", "DECIMAL"},
     sqlite3 |-> {"UNSIGNED_MEDIUMINT", "UNSIGNED_FLOAT"},
     mssql |-> {"INTEGER"},
     oracle |-> {"TIMESTAMPZ", "REAL"},
     dameng |-> {"MEDIUMTEXT", "LONGTEXT", "UUID", "BINARY"},
     gbase8s |-> {}]

\* And the ones that do not with some lengths: gbase8s writes a fraction of 1 to 5 digits in
\* another way than all the others, and the catalog does not report it; dameng reports a
\* length for a time zone that was declared without one; and mysql reports none for
\* FLOAT(n) UNSIGNED, whose name is then another.
LengthDrifts(c) ==
    \/ /\ Dialect = "gbase8s" /\ c.length \in 1..5
       /\ c.type \in {"DATETIME", "TIMESTAMP", "TIMESTAMPZ", "TIME"}
    \/ Dialect = "dameng" /\ c.type = "TIMESTAMPZ" /\ c.length = 0
    \/ Dialect = "mysql" /\ c.type = "UNSIGNED_FLOAT" /\ c.length > 0 /\ c.length2 = 0

\* A column that Sync created with SQLType of its type, and GetColumns reads back from what
\* Catalog says the database reports, has a type that columnTypesMatch takes for the
\* struct's: the next Sync neither modifies the column nor warns of it.
TypesRoundTrip ==
    \A p \in Proc : \A n \in DOMAIN db.cols \cap Names(StructOf(p)) :
        LET c == Def(StructOf(p), n)
            expected == SQLType(Dialect, c)
        IN  /\ At(p, "done")
            /\ db.cols[n].type = expected
            /\ c.type \notin Drifts[Dialect] /\ ~LengthDrifts(c)
            => LET o == LoadColumn(Dialect, db.cols[n])
               IN  columnTypesMatch(Dialect, c, o, expected, SQLType(Dialect, o))

IndexesOf(t, type) == {i \in t.idx : i.type = type}

\* "IgnoreConstrains will not add, delete or update unique constrains", "IgnoreIndices
\* will not add or delete indices", "IgnoreDropIndices will not delete indices": whatever
\* the instances have loaded, and when.
KeepsOptions ==
    /\ Opts.ignoreConstrains => IndexesOf(db', "unique") = IndexesOf(db, "unique")
    /\ Opts.ignoreIndices => IndexesOf(db', "index") = IndexesOf(db, "index")
    /\ Opts.ignoreDropIndices => IndexesOf(db, "index") \subseteq IndexesOf(db', "index")
OptionsKept == [][KeepsOptions]_vars

\* "this method will automatically add table, column, index, unique. but will not delete or
\* change anything" (Engine.Sync): a column that is there keeps its type, and an index stays.
DeletesNothing ==
    /\ \A n \in DOMAIN db.cols : n \in DOMAIN db'.cols /\ db'.cols[n].type = db.cols[n].type
    /\ db.idx \subseteq db'.idx
ChangesNothing == [][DeletesNothing]_vars

\* What it does change: no Sync takes a column away, and none that has the table to itself
\* changes the type of a column but from VARCHAR to TEXT, or where the struct has another
\* comment (MODIFY COLUMN states the type of the struct again, be it a shorter one).
ChangesColumn(n) ==
    /\ n \in DOMAIN db'.cols
    /\ \/ db'.cols[n].type = db.cols[n].type
       \/ db.cols[n].type.base = "VARCHAR" /\ db'.cols[n].type = Plain("TEXT")
       \/ \E p \in Proc :
             /\ loc'[p].todo # loc[p].todo
             /\ ~loc[p].alone \/ Def(StructOf(p), n).comment # db.cols[n].comment
OnlyAdds == [][\A n \in DOMAIN db.cols : ChangesColumn(n)]_vars

\* Where a Sync can fail for ever: a sequence that was created before a crash, or by
\* another instance, and no table; a type that the database does not know; the index of
\* the primary key in oracle; a serial column in postgres whose comment has changed; an index
\* on a large object; in mysql a VARCHAR of an index that is to become TEXT, which is tried
\* before any index is dropped.
SequenceLeft == Dialect \in {"oracle", "dameng"} /\ db.seq /\ ~db.exists
NoSuchType(s) == \E n \in Names(s) : ~Accepts(Dialect, SQLType(Dialect, Def(s, n)))
SerialComment(s) ==
    Dialect = "postgres" /\ \E n \in Names(s) \cap DOMAIN db.cols :
        /\ SQLType(Dialect, Def(s, n)).base \in Serials
        /\ db.cols[n].comment # Def(s, n).comment
LargeIndex(s) ==
    \E i \in s.idx : /\ ~AddIgnored(i)
                     /\ \E n \in SeqRange(i.cols) \cap DOMAIN db.cols :
                            ~Indexable(Dialect, db.cols[n].type)
IndexedText(s) ==
    Dialect = "mysql" /\ \E n \in Names(s) : Indexed(n) /\ SQLType(Dialect, Def(s, n)) = Plain("TEXT")
Stuck(s) == \/ SequenceLeft \/ NoSuchType(s) \/ OraclePrimaryKey \/ SerialComment(s)
            \/ LargeIndex(s) \/ IndexedText(s)

\* An instance whose Sync failed, because another one was faster or a statement failed,
\* gets there when it is started again, unless it is stuck for ever in one of these ways.
EverySyncEnds == \A p \in Proc : <>At(p, "done") \/ <>[]Stuck(StructOf(p))
=============================================================================

----------------------------- MODULE Statement -----------------------------
(***************************************************************************)
(* statements.Statement: the record a Session's chained calls fill in, and *)
(* the SQL that is generated from it for one dialect.                      *)
(*                                                                         *)
(* What a builder.BytesWriter holds is a sequence of clauses.  A clause    *)
(* says which records it lets through and which columns it lists.  Names,  *)
(* quoting, aliases, and the arguments that every writer appends where it  *)
(* writes their question marks are left out, and so is what GROUP BY and   *)
(* joins do to the records.                                                *)
(***************************************************************************)
EXTENDS Integers, Sequences, SequencesExt, FiniteSets

CONSTANTS RowCount,   \* the number of records in the table
          Match       \* for each condition, the records that satisfy it

Rows == 1 .. RowCount
Scan == [i \in Rows |-> i]

ASSUME RowsAssumption == RowCount \in Nat
ASSUME MatchAssumption ==
    \A c \in {"where", "or", "id", "bean", "deleted", "ver"} : Match[c] \subseteq Rows

NoLimit == -1

\* The columns of the struct in their order.  The bean holds a value in a, zero
\* values in the others; id is auto increment.
Columns == <<"id", "a", "b", "e", "created", "updated", "deleted", "ver">>
NonZero == {"a"}

\* The elements of s that are in S, in their order.
Filter(s, S) ==
    LET kept[n \in 0 .. Len(s)] ==
            IF n = 0 THEN <<>>
            ELSE IF s[n] \in S THEN Append(kept[n - 1], s[n]) ELSE kept[n - 1]
    IN  kept[Len(s)]

DBType(d) == CASE d = "mssql_legacy" -> "mssql" [] d = "oracle_legacy" -> "oracle" [] OTHER -> d

-----------------------------------------------------------------------------
(* Conditions: builder.Cond as the statement uses it.                       *)

\* The text of a condition has no parentheses around it.  lead are the records of all
\* alternatives but the last, which is the one that an " AND " after the text binds to.
NewCond == [valid |-> FALSE, rows |-> Rows, lead |-> {}]
Eq(c) == [valid |-> TRUE, rows |-> Match[c], lead |-> {}]

\* And puts its parts in parentheses, even when one of them is empty.
CondAnd(c, d) == [valid |-> c.valid \/ d.valid, rows |-> c.rows \cap d.rows, lead |-> {}]

CondOr(c, d) ==
    IF ~c.valid THEN d ELSE IF ~d.valid THEN c
    ELSE [valid |-> TRUE, rows |-> c.rows \cup d.rows, lead |-> c.rows]

-----------------------------------------------------------------------------
(* The statement.                                                           *)

Fresh ==
    [RefTable |-> FALSE, TableName |-> FALSE, Start |-> 0, LimitN |-> NoLimit,
     idParam |-> 0, orderBy |-> <<>>, joins |-> FALSE, GroupByStr |-> FALSE,
     HavingStr |-> FALSE, SelectStr |-> FALSE, useAllCols |-> FALSE, RawSQL |-> FALSE,
     UseAutoTime |-> TRUE, NoAutoCondition |-> FALSE, IsDistinct |-> FALSE,
     IsForUpdate |-> FALSE, CheckVersion |-> TRUE, unscoped |-> FALSE, ColumnMap |-> {},
     OmitColumnMap |-> {}, IncrColumns |-> <<>>, DecrColumns |-> <<>>,
     ExprColumns |-> <<>>, cond |-> NewCond, BufferSize |-> 0, LastError |-> FALSE,
     indexHints |-> <<>>]

\* Reset assigns every field above except indexHints.
Reset(st) == [Fresh EXCEPT !.indexHints = st.indexHints]

\* SetRefBean fails for a bean the tag parser does not accept.
SetRefBean(st) == [st EXCEPT !.RefTable = TRUE, !.TableName = TRUE]

CondDeleted(st) == IF st.unscoped THEN NewCond ELSE Eq("deleted")

\* The conditions of a bean with non-empty fields; the deleted column has its own.
BuildConds(st) == CondAnd(Eq("bean"), CondDeleted(st))

\* The table has one primary key: a composite id (2) is refused.
IdFails(st) == st.idParam # 0 /\ (~st.RefTable \/ st.idParam # 1)

ProcessIDParam(st) ==
    IF st.idParam = 0 \/ IdFails(st) THEN st
    ELSE [st EXCEPT !.cond = CondAnd(@, Eq("id"))]

\* Mutant: the conditions of the bean are alternatives.
MergeCondsOr(st) ==
    LET auto == IF st.NoAutoCondition THEN CondDeleted(st) ELSE BuildConds(st)
    IN  ProcessIDParam(IF ~st.RefTable THEN st ELSE [st EXCEPT !.cond = CondOr(@, auto)])

\* With nothing to add And is not called.
MergeConds(st) ==
    LET auto == IF st.NoAutoCondition THEN CondDeleted(st) ELSE BuildConds(st)
    IN  ProcessIDParam(IF ~st.RefTable \/ ~auto.valid THEN st
                       ELSE [st EXCEPT !.cond = CondAnd(@, auto)])

-----------------------------------------------------------------------------
(* Writers.                                                                 *)

Clause(k) == [k |-> k, rows |-> Rows, skip |-> 0, take |-> NoLimit,
              desc |-> FALSE, cols |-> <<>>, sub |-> <<>>]

Nothing == <<>>
Text(k) == <<Clause(k)>>
Fail == Text("ERROR")

\* Writing stops at the first error and the text is not used.
Failed(w) == \E i \in DOMAIN w : w[i].k = "ERROR"

When(b, w) == IF b THEN w ELSE Nothing
Kinds(w) == [i \in DOMAIN w |-> w[i].k]

Slice(s, skip, take) ==
    SubSeq(s, skip + 1, IF take = NoLimit \/ skip + take > Len(s) THEN Len(s) ELSE skip + take)

\* What the database does with a clause, and with TOP after all the others.
Step(s, c) ==
    CASE c.k = "ORDER BY" -> IF c.desc THEN Reverse(s) ELSE s
      [] c.k \in {"LIMIT", "ROWNUM"} -> Slice(s, c.skip, c.take)
      [] OTHER -> Filter(s, c.rows)
Top(s, c) == IF c.k = "TOP" THEN Slice(s, 0, c.take) ELSE s

\* The records a text selects, in the order the database returns them.
RowsOf(w) ==
    LET step[i \in 0 .. Len(w)] == IF i = 0 THEN Scan ELSE Step(step[i - 1], w[i])
        top[i \in 0 .. Len(w)] == IF i = 0 THEN step[Len(w)] ELSE Top(top[i - 1], w[i])
    IN  top[Len(w)]

\* The records the conditions of a text let through.
WhereRows(w) == {r \in Rows : \A i \in DOMAIN w : r \in w[i].rows}

writeWhereCond(c) ==
    When(c.valid, <<[Clause("WHERE") EXCEPT !.rows = c.rows]>>)

writeWhere(st) == writeWhereCond(st.cond)

writeJoins(st) == When(st.joins, Text("JOIN"))

writeIndexHints(d, st) ==
    When(st.indexHints # <<>>,
         IF DBType(d) = "mysql" /\ "bad" \notin Range(st.indexHints)
         THEN Text("INDEX") ELSE Fail)

writeFrom(d, st) == Text("FROM") \o writeIndexHints(d, st) \o writeJoins(st)
writeGroupBy(st) == When(st.GroupByStr, Text("GROUP BY"))
writeHaving(st) == When(st.HavingStr, Text("HAVING"))

\* All terms of one ORDER BY; the first decides.
writeOrderBys(st) ==
    When(st.orderBy # <<>>,
         <<[Clause("ORDER BY") EXCEPT !.desc = Head(st.orderBy) = "desc"]>>)

writeForUpdate(d, st) ==
    When(st.IsForUpdate /\ DBType(d) \in {"mysql", "postgres"}, Text("FOR UPDATE"))

Page(k, skip, take) == <<[Clause(k) EXCEPT !.skip = skip, !.take = take]>>

writeLimitOffset(st) ==
    When(st.Start > 0 \/ st.LimitN # NoLimit,
         Page("LIMIT", IF st.Start > 0 THEN st.Start ELSE 0, st.LimitN))

writeOffsetFetch(st) ==
    When(st.Start > 0 \/ st.LimitN # NoLimit, Page("LIMIT", st.Start, st.LimitN))

writePagination(d, st) ==
    IF DBType(d) \in {"mssql", "oracle"} THEN writeOffsetFetch(st) ELSE writeLimitOffset(st)

writeTop(st) == When(st.LimitN # NoLimit, Page("TOP", 0, st.LimitN))

\* A condition with a subquery, after WHERE or the AND that writeWhereOrAnd appends to
\* the text of cond; sub keeps the subquery's clauses.
SubQuery(cond, rows, w) ==
    <<[Clause(IF cond.valid THEN "AND" ELSE "WHERE") EXCEPT
         !.rows = rows \cup cond.lead, !.sub = Kinds(w)]>>

\* Mutant: the excluded records are taken from the whole table.
MssqlPaginationNoWhere(d, st) ==
    LET sub == Page("TOP", 0, st.Start) \o writeFrom(d, st) \o writeOrderBys(st)
                 \o writeGroupBy(st)
    IN  When(st.Start > 0,
             IF ~st.RefTable \/ Failed(sub) THEN Fail
             ELSE SubQuery(st.cond, Rows \ Range(RowsOf(sub)), sub))

\* Legacy SQL Server: the records before the offset are excluded by a subquery.
writeMssqlPaginationCond(d, st) ==
    LET sub == Page("TOP", 0, st.Start) \o writeFrom(d, st) \o writeWhere(st)
                 \o writeOrderBys(st) \o writeGroupBy(st)
    IN  When(st.Start > 0,
             IF ~st.RefTable \/ Failed(sub) THEN Fail
             ELSE SubQuery(st.cond, Rows \ Range(RowsOf(sub)), sub))

\* Mutant: ORDER BY before GROUP BY.
MssqlLegacySelectSortsFirst(d, st) ==
    Text("SELECT") \o writeTop(st) \o writeFrom(d, st) \o writeWhere(st)
      \o writeMssqlPaginationCond(d, st) \o writeOrderBys(st) \o writeGroupBy(st)
      \o writeHaving(st) \o writeForUpdate(d, st)

writeMssqlLegacySelect(d, st) ==
    Text("SELECT") \o writeTop(st) \o writeFrom(d, st) \o writeWhere(st)
      \o writeMssqlPaginationCond(d, st) \o writeGroupBy(st) \o writeHaving(st)
      \o writeOrderBys(st) \o writeForUpdate(d, st)

\* Legacy Oracle: ROWNUM limits the query written so far; what follows is outside.
writeOracleLimit(st) == When(st.LimitN # NoLimit, Page("ROWNUM", st.Start, st.LimitN))

writeOracleLegacySelect(d, st) ==
    Text("SELECT") \o writeFrom(d, st) \o writeWhere(st) \o writeOracleLimit(st)
      \o writeGroupBy(st) \o writeHaving(st) \o writeOrderBys(st) \o writeForUpdate(d, st)

\* OFFSET and FETCH need an ORDER BY on SQL Server: by the primary key, which is put
\* into the statement, or by the first column.
MssqlNeedsOrder(d, st) ==
    /\ d = "mssql" /\ st.orderBy = <<>> /\ (st.LimitN # NoLimit \/ st.Start # 0)

MssqlByFirstColumn(st, counting) ==
    st.IsDistinct \/ st.GroupByStr \/ counting \/ ~st.RefTable

\* The statement after writeSelect.
AfterSelect(d, st, counting) ==
    IF MssqlNeedsOrder(d, st) /\ ~MssqlByFirstColumn(st, counting)
    THEN [st EXCEPT !.orderBy = <<"asc">>]
    ELSE st

writeSelect(d, st, counting) ==
    CASE d = "mssql_legacy" -> writeMssqlLegacySelect(d, st)
      [] d = "oracle_legacy" -> writeOracleLegacySelect(d, st)
      [] OTHER ->
            Text("SELECT") \o writeFrom(d, st) \o writeWhere(st) \o writeGroupBy(st)
              \o writeHaving(st)
              \o (IF MssqlNeedsOrder(d, st) /\ MssqlByFirstColumn(st, counting)
                  THEN Text("ORDER BY") ELSE writeOrderBys(AfterSelect(d, st, counting)))
              \o writePagination(d, st) \o writeForUpdate(d, st)

-----------------------------------------------------------------------------
(* Queries.  A result is the writer and the statement it leaves behind.     *)

Select(d, st, counting) ==
    [w |-> writeSelect(d, st, counting), st |-> AfterSelect(d, st, counting)]

Raw(st) == [w |-> Text("RAW"), st |-> st]
Refused(st) == [w |-> Fail, st |-> st]

\* SELECT of a statement whose id has been processed.
SelectById(d, st, s, counting) == IF IdFails(st) THEN Refused(s) ELSE Select(d, s, counting)

GenQuerySQL(d, st) ==
    IF st.RawSQL THEN Raw(st)
    ELSE IF ~st.TableName THEN Refused(st)
    ELSE SelectById(d, st, ProcessIDParam(st), FALSE)

GenSumSQL(d, st) ==
    IF st.RawSQL THEN Raw(st)
    ELSE LET s == SetRefBean(st) IN SelectById(d, s, MergeConds(s), TRUE)

\* bean is a struct or something else, such as a variable for one column.
GenGetSQL(d, st, bean) ==
    IF bean = "struct"
    THEN LET s == SetRefBean(st) IN SelectById(d, s, MergeConds(s), FALSE)
    ELSE LET s == IF st.RefTable /\ ~st.unscoped
                  THEN [st EXCEPT !.cond = CondAnd(@, CondDeleted(st))] ELSE st
         IN  SelectById(d, st, ProcessIDParam(s), FALSE)

\* Without a bean the conditions are taken as they are.
GenCountSQL(d, st, bean) ==
    IF st.RawSQL THEN Raw(st)
    ELSE IF bean = "struct"
    THEN LET s == SetRefBean(st) IN SelectById(d, s, MergeConds(s), TRUE)
    ELSE Select(d, st, TRUE)

GenExistSQL(d, st, bean) ==
    LET s == IF bean = "struct" THEN SetRefBean(st) ELSE st
        w == Text("SELECT") \o When(DBType(d) = "mssql", Page("TOP", 0, 1))
               \o writeFrom(d, s) \o writeWhere(s)
    IN  CASE st.RawSQL -> Raw(st)
          [] ~st.RawSQL /\ ~s.TableName -> Refused(s)
          [] ~st.RawSQL /\ s.RefTable -> GenGetSQL(d, [s EXCEPT !.LimitN = 1], bean)
          [] OTHER ->
                [w |-> CASE DBType(d) = "mssql" -> w
                         [] DBType(d) = "oracle" -> w \o Page("ROWNUM", 0, 1)
                         [] OTHER -> w \o Page("LIMIT", 0, 1),
                 st |-> s]

GenFindSQL(d, st, autoCond) ==
    IF st.RawSQL THEN Raw(st)
    ELSE IF ~st.TableName THEN Refused(st)
    ELSE Select(d, [st EXCEPT !.cond = CondAnd(@, autoCond)], FALSE)

-----------------------------------------------------------------------------
(* Updates.                                                                 *)

InExprs(st, c) == c \in Range(st.IncrColumns \o st.DecrColumns \o st.ExprColumns)

\* Mutant: the columns of Incr, Decr and SetExpr are written as fields too.
AddColUpdateTwice(st, c) ==
    /\ c \notin {"ver", "updated", "id"}
    /\ c = "created" => c \in st.ColumnMap
    /\ c = "deleted" => st.unscoped
    /\ c \notin st.OmitColumnMap
    /\ st.ColumnMap # {} => c \in st.ColumnMap

ifAddColUpdate(st, c) ==
    /\ c \notin {"ver", "updated", "id"}
    /\ c = "created" => c \in st.ColumnMap
    /\ c = "deleted" => st.unscoped
    /\ c \notin st.OmitColumnMap
    /\ st.ColumnMap # {} => c \in st.ColumnMap
    /\ ~InExprs(st, c)

\* Non-empty fields, or all fields with AllCols.
BuildUpdates(st) ==
    Filter(Columns, {c \in Range(Columns) :
                        ifAddColUpdate(st, c) /\ (st.useAllCols \/ c \in NonZero)})

\* With Cols: what it names, empty or not.
genUpdateColumns(st) ==
    Filter(Columns, {c \in st.ColumnMap :
        /\ c \in {"ver", "created", "updated"} \/ c \notin st.OmitColumnMap
        /\ c # "id"
        /\ c = "deleted" => st.unscoped
        /\ ~InExprs(st, c)})

AutoUpdated(st) ==
    IF st.UseAutoTime /\ st.RefTable /\ "updated" \notin st.ColumnMap \cup st.OmitColumnMap
    THEN <<"updated">> ELSE <<>>

UpdateColumns(st, bean) ==
    (IF bean = "map" THEN <<"a">>
     ELSE IF st.ColumnMap = {} THEN BuildUpdates(st) ELSE genUpdateColumns(st))
    \o AutoUpdated(st)

SetClause(cols) == <<[Clause("SET") EXCEPT !.cols = cols]>>
writeSetColumns(cols) == When(cols # <<>>, SetClause(cols))
writeIncrSets(st) == writeSetColumns(st.IncrColumns)
writeDecrSets(st) == writeSetColumns(st.DecrColumns)
writeExprSets(st) == writeSetColumns(st.ExprColumns)
writeVersionIncrSet(st, bean) ==
    When(bean = "struct" /\ st.RefTable /\ st.CheckVersion, SetClause(<<"ver">>))

writeUpdateSets(st, bean) ==
    LET w == writeSetColumns(UpdateColumns(st, bean)) \o writeIncrSets(st)
               \o writeDecrSets(st) \o writeExprSets(st)
               \o writeVersionIncrSet(st, bean)
    IN  IF w = Nothing THEN Fail ELSE w

\* Joined tables after FROM; their conditions join the others.
writeUpdateFrom(d, st) == When(d = "mssql" \/ st.joins, Text("FROM"))

joinConds(st) == [NewCond EXCEPT !.valid = st.joins]

\* SQL Server orders by a subquery on the primary key.
OrderByKey(st) == st.orderBy # <<>> /\ st.RefTable

writeUpdateTop(d, st) ==
    When(DBType(d) = "mssql" /\ st.LimitN # NoLimit /\ ~OrderByKey(st), writeTop(st))

\* Mutant: the subquery has no condition.
UpdateLimitNoWhere(d, st, cond) ==
    LET limited == writeOrderBys(st) \o Page("LIMIT", 0, st.LimitN)
    IN  When(st.LimitN # NoLimit,
             CASE DBType(d) = "mysql" -> Page("LIMIT", 0, st.LimitN)
               [] DBType(d) \in {"sqlite3", "postgres"} ->
                     SubQuery(cond, Range(RowsOf(limited)), limited)
               [] OTHER -> Nothing)

writeUpdateLimit(d, st, cond) ==
    LET limited == writeWhereCond(cond) \o writeOrderBys(st) \o Page("LIMIT", 0, st.LimitN)
        top == Page("TOP", 0, st.LimitN) \o writeWhereCond(cond) \o writeOrderBys(st)
    IN  When(st.LimitN # NoLimit,
             CASE DBType(d) = "mysql" -> Page("LIMIT", 0, st.LimitN)
               [] DBType(d) \in {"sqlite3", "postgres"} ->
                     SubQuery(cond, Range(RowsOf(limited)), limited)
               [] DBType(d) = "mssql" ->
                     When(OrderByKey(st), SubQuery(NewCond, Range(RowsOf(top)), top))
               [] OTHER -> Fail)

writeUpdateMySQL(d, st, cond, bean) ==
    Text("UPDATE") \o writeJoins(st) \o writeUpdateSets(st, bean) \o writeWhereCond(cond)
      \o writeOrderBys(st) \o writeUpdateLimit(d, st, cond)

writeUpdateMSSQL(d, st, cond, bean) ==
    LET all == CondAnd(cond, joinConds(st))
    IN  Text("UPDATE") \o writeUpdateTop(d, st) \o writeUpdateSets(st, bean)
          \o writeUpdateFrom("mssql", st) \o When(~OrderByKey(st), writeWhereCond(all))
          \o writeUpdateLimit(d, st, all)

writeUpdateCommon(d, st, cond, bean) ==
    LET all == CondAnd(cond, joinConds(st))
    IN  Text("UPDATE") \o writeUpdateSets(st, bean) \o writeUpdateFrom(d, st)
          \o writeWhereCond(all) \o writeUpdateLimit(d, st, all)

WriteUpdate(d, st, cond, bean) ==
    CASE DBType(d) = "mysql" -> writeUpdateMySQL(d, st, cond, bean)
      [] DBType(d) = "mssql" -> writeUpdateMSSQL(d, st, cond, bean)
      [] OTHER -> writeUpdateCommon(d, st, cond, bean)

-----------------------------------------------------------------------------
(* Deletes.                                                                 *)

writeDeleteOrder(st) ==
    writeOrderBys(st)
      \o When(st.LimitN > 0, IF st.Start > 0 THEN Fail ELSE Page("LIMIT", 0, st.LimitN))

writeOrderCond(d, st) ==
    LET order == writeDeleteOrder(st)
    IN  CASE Failed(order) -> Fail
          [] ~Failed(order) /\ order = Nothing -> Nothing
          [] ~Failed(order) /\ order # Nothing ->
                CASE DBType(d) \in {"postgres", "sqlite3"} ->
                        SubQuery(st.cond, Range(RowsOf(order)), order)
                  [] DBType(d) = "mssql" -> Fail
                  [] OTHER -> order

\* A soft delete is an update of the deleted column.
WriteDelete(d, st) ==
    (IF st.unscoped \/ ~st.RefTable THEN Text("DELETE")
     ELSE Text("UPDATE") \o SetClause(<<"deleted">>))
      \o writeWhere(st) \o writeOrderCond(d, st)

-----------------------------------------------------------------------------
(* Inserts.                                                                 *)

genInsertColumns(st, idZero) ==
    Filter(Columns, {c \in Range(Columns) :
        /\ c \notin st.OmitColumnMap
        /\ st.ColumnMap # {} => c \in st.ColumnMap
        /\ ~InExprs(st, c)
        /\ c = "id" => ~idZero})

List(k, cols) == <<[Clause(k) EXCEPT !.cols = cols]>>

\* The items of exprs.WriteArgs, after a comma: with nothing before it an empty item.
ExprItems(before, es) ==
    IF es = <<>> THEN before ELSE (IF before = <<>> THEN <<"">> ELSE before) \o es

\* Mutant: the expressions come first.
InsertValuesExprsFirst(st, cols) ==
    IF st.cond.valid
    THEN List("SELECT", st.ExprColumns \o cols) \o Text("FROM") \o writeWhere(st)
    ELSE List("VALUES", st.ExprColumns \o cols)

\* SELECT ... FROM the table WHERE, or VALUES.
InsertValues(st, cols) ==
    LET items == ExprItems(cols, st.ExprColumns)
    IN  IF st.cond.valid THEN List("SELECT", items) \o Text("FROM") \o writeWhere(st)
        ELSE List("VALUES", items)

GenInsertSQL(d, st, cols) ==
    LET seqDb == DBType(d) \in {"oracle", "dameng"}
        seq == IF seqDb /\ "id" \notin Range(cols) THEN <<"id">> ELSE <<>>
    IN  Text("INSERT")
          \o (IF cols = <<>> /\ ~seqDb THEN Text("DEFAULT VALUES")
              ELSE List("COLUMNS", cols \o seq \o st.ExprColumns)
                     \o InsertValues(st, cols \o seq))
          \o When(DBType(d) = "postgres", Text("RETURNING"))

\* The columns of a map are its keys without those of SetExpr.
MapColumns(st, keys) == Filter(keys, Range(keys) \ Range(st.ExprColumns))

GenInsertMapSQL(st, cols) ==
    Text("INSERT") \o List("COLUMNS", cols \o st.ExprColumns) \o InsertValues(st, cols)

GenInsertMultipleMapSQL(st, cols) ==
    LET row == List("VALUES", ExprItems(cols, st.ExprColumns))
    IN  Text("INSERT") \o List("COLUMNS", cols \o st.ExprColumns)
          \o When(st.cond.valid, Fail) \o row \o row

\* One element of a slice of structs, with an id of its own or not.
MultiColumns(d, st, idZero) ==
    Filter(Columns, {c \in Range(Columns) :
        IF c = "id" /\ idZero THEN DBType(d) \in {"oracle", "dameng"}
        ELSE /\ c # "deleted"
             /\ c \notin st.OmitColumnMap
             /\ st.ColumnMap # {} => c \in st.ColumnMap})

\* The first element decides on the column list.  On Oracle the places of an element
\* are the format of Fprintf and ")" its superfluous operand.
WriteInsertMultiple(d, st, idZeros) ==
    LET rows[i \in 0 .. Len(idZeros)] ==
            IF i = 0 THEN Nothing
            ELSE rows[i - 1] \o List("VALUES", MultiColumns(d, st, idZeros[i]))
                   \o When(DBType(d) = "oracle", Text("%!(EXTRA)"))
    IN  Text("INSERT") \o List("COLUMNS", MultiColumns(d, st, idZeros[1]))
          \o rows[Len(idZeros)]
=============================================================================

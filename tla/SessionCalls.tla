---------------------------- MODULE SessionCalls ----------------------------
(***************************************************************************)
(* A Session between two databases calls: chained methods fill in its      *)
(* statement, a method such as Find or Update generates SQL from it, sends *)
(* it and resets the statement, on most of its paths.                      *)
(*                                                                         *)
(* A step is one method call.  Only what the SQL depends on is modelled;   *)
(* transactions are in SessionTx, the cache is in CachedSession.           *)
(***************************************************************************)
EXTENDS Statement

CONSTANTS Dialects,   \* the databases
          Calls(_, _),\* bound: the methods the caller chains to a statement after n calls
          MaxChain    \* bound on the calls before a database call, chained ones and
                      \* such as left something in the statement, one less with these

ASSUME BoundsAssumption == MaxChain \in Nat

VARIABLES
    dialect,
    st,                   \* Session.statement
    autoResetStatement,
    isAutoClose,          \* the session was made by a method of Engine
    isClosed,
    rowsOpen,             \* a Rows the caller has not closed
    asked,                \* history: what the chained calls stand for, and whether an
                          \* earlier database call had left something in the statement
    chained,              \* history: the calls since the statement was empty
    last                  \* history: the database call that has just returned

vars == <<dialect, st, autoResetStatement, isAutoClose, isClosed, rowsOpen, asked, chained,
          last>>

NoCall == [op |-> "none"]
NothingAsked(stale) == [cond |-> NewCond, id |-> FALSE, stale |-> stale]

\* NewSession, for the caller or within a method of Engine.
Init ==
    /\ dialect \in Dialects
    /\ st = Fresh
    /\ autoResetStatement = TRUE
    /\ isAutoClose \in BOOLEAN
    /\ isClosed = FALSE
    /\ rowsOpen = FALSE
    /\ asked = NothingAsked(FALSE)
    /\ chained = 0
    /\ last = NoCall

-----------------------------------------------------------------------------
(* Chained methods.                                                         *)

\* The session is open and the caller has taken the result of the call before.
Ready == ~isClosed /\ ~rowsOpen /\ last = NoCall /\ (asked.stale => chained < MaxChain)

Chain(call, s, a) ==
    /\ chained < MaxChain /\ call \in Calls(st, chained) /\ Ready
    /\ st' = s
    /\ asked' = a
    /\ chained' = chained + 1
    /\ UNCHANGED <<dialect, autoResetStatement, isAutoClose, isClosed, rowsOpen, last>>

Option(call, s) == Chain(call, s, asked)

Where == Chain("Where", [st EXCEPT !.cond = CondAnd(@, Eq("where"))],
                        [asked EXCEPT !.cond = CondAnd(@, Eq("where"))])
Or == Chain("Or", [st EXCEPT !.cond = CondOr(@, Eq("or"))],
                  [asked EXCEPT !.cond = CondOr(@, Eq("or"))])
\* A condition that is neither a string, a map nor a Cond.
BadWhere == Option("BadWhere", [st EXCEPT !.LastError = TRUE])
ID == \E n \in 1 .. 2 : Chain("ID", [st EXCEPT !.idParam = n], [asked EXCEPT !.id = TRUE])
Table == \E struct \in BOOLEAN :
            Option("Table", [st EXCEPT !.TableName = TRUE, !.RefTable = @ \/ struct])
Limit == \E n, start \in {0, 2} :
            Option("Limit", [st EXCEPT !.LimitN = n, !.Start = start])
OrderBy == \E order \in {"asc", "desc"} :
              Option("OrderBy", [st EXCEPT !.orderBy = Append(@, order)])
Join == Option("Join", [st EXCEPT !.joins = TRUE])
GroupBy == Option("GroupBy", [st EXCEPT !.GroupByStr = TRUE])
Having == Option("Having", [st EXCEPT !.HavingStr = TRUE])
SQL == Option("SQL", [st EXCEPT !.RawSQL = TRUE])
Cols == \E c \in {"e", "updated", "ver"} : Option("Cols", [st EXCEPT !.ColumnMap = @ \cup {c}])
Distinct == Option("Distinct", [st EXCEPT !.IsDistinct = TRUE, !.ColumnMap = @ \cup {"a"}])
Omit == \E c \in {"a", "ver"} : Option("Omit", [st EXCEPT !.OmitColumnMap = @ \cup {c}])
AllCols == Option("AllCols", [st EXCEPT !.useAllCols = TRUE])
Incr == \E c \in {"a", "b"} : Option("Incr", [st EXCEPT !.IncrColumns = Append(@, c)])
Decr == \E c \in {"a", "b"} : Option("Decr", [st EXCEPT !.DecrColumns = Append(@, c)])
SetExpr == \E c \in {"a", "e", "updated", "ver"} :
              Option("SetExpr", [st EXCEPT !.ExprColumns = Append(@, c)])
ForUpdate == Option("ForUpdate", [st EXCEPT !.IsForUpdate = TRUE])
Unscoped == Option("Unscoped", [st EXCEPT !.unscoped = TRUE])
NoAutoCondition == Option("NoAutoCondition", [st EXCEPT !.NoAutoCondition = TRUE])
NoVersionCheck == Option("NoVersionCheck", [st EXCEPT !.CheckVersion = FALSE])
NoAutoTime == Option("NoAutoTime", [st EXCEPT !.UseAutoTime = FALSE])
BufferSize == \E n \in {1, 2, RowCount + 1} :
                 Option("BufferSize", [st EXCEPT !.BufferSize = n])
IndexHint == \E h \in {"use", "bad"} :
                Option("IndexHint", [st EXCEPT !.indexHints = Append(@, h)])

ChainedCall ==
    \/ Where \/ Or \/ BadWhere \/ ID \/ Table \/ Limit \/ OrderBy \/ Join \/ GroupBy
    \/ Having \/ SQL \/ Cols \/ Distinct \/ Omit \/ AllCols \/ Incr \/ Decr \/ SetExpr
    \/ ForUpdate \/ Unscoped \/ NoAutoCondition \/ NoVersionCheck \/ NoAutoTime
    \/ BufferSize \/ IndexHint

-----------------------------------------------------------------------------
(* Database calls.                                                          *)

\* A call returns: out is the text it generated and the statement it left, resets
\* whether its path runs resetStatement, res what it computed.
Return(op, bean, out, resets, auto, res) ==
    /\ Ready /\ chained <= MaxChain
    /\ autoResetStatement' = auto
    /\ st' = IF resets /\ auto THEN Reset(out.st) ELSE out.st
    /\ isClosed' = isAutoClose
    /\ asked' = NothingAsked(st' # Fresh)
    /\ chained' = IF st' = Fresh THEN 0 ELSE chained + 1
    /\ last' = [op |-> op, bean |-> bean, before |-> st, asked |-> asked, w |-> out.w,
                st |-> out.st, err |-> Failed(out.w), res |-> res]
    /\ UNCHANGED <<dialect, isAutoClose, rowsOpen>>

Call(op, bean, out, resets) == Return(op, bean, out, resets, autoResetStatement, 0)

\* A bean the tag parser refuses, or the result of gen for the others.
Parsed(bean, out) == IF bean = "bad" THEN Refused(st) ELSE out

Get ==
    \E bean \in {"struct", "other", "bad"} :
        LET s == IF bean = "struct" THEN SetRefBean(st) ELSE st
        IN  Call("Get", bean,
                 IF st.LastError THEN Refused(st)
                 ELSE Parsed(bean, IF s.RawSQL THEN Raw(s)
                                   ELSE IF ~s.TableName THEN Refused(s)
                                   ELSE GenGetSQL(dialect, [s EXCEPT !.LimitN = 1], bean)),
                 TRUE)

\* find sets the table from the element type of the slice, and takes the conditions
\* of a bean or hides what is deleted.
FindStatement(dest) == IF st.RefTable \/ dest # "struct" THEN st ELSE SetRefBean(st)

\* Mutant: NoAutoCondition switches off the condition on the deleted column too.
FindCondForgets(s, bean) ==
    IF ~s.RefTable \/ s.NoAutoCondition THEN NewCond
    ELSE IF bean = "struct" THEN BuildConds(s) ELSE CondDeleted(s)

FindCond(s, bean) ==
    IF ~s.RefTable THEN NewCond
    ELSE IF bean = "struct" /\ ~s.NoAutoCondition THEN BuildConds(s) ELSE CondDeleted(s)

find(s, bean) ==
    IF s.LastError THEN Refused(s) ELSE GenFindSQL(dialect, s, FindCond(s, bean))

Find ==
    \E bean \in {"struct", "none"}, dest \in {"struct", "other"} :
        Call("Find", bean, find(FindStatement(dest), bean), TRUE)

\* Count does not look at LastError: queryRows does, and resets.
CountQuery(s, bean) ==
    LET out == GenCountSQL(dialect, s, bean)
    IN  IF s.LastError /\ ~Failed(out.w) THEN [w |-> Fail, st |-> out.st, sent |-> TRUE]
        ELSE [w |-> out.w, st |-> out.st, sent |-> ~Failed(out.w)]

Count ==
    \E bean \in {"struct", "none", "bad"} :
        LET out == IF bean = "bad" /\ ~st.RawSQL
                   THEN [w |-> Fail, st |-> st, sent |-> FALSE] ELSE CountQuery(st, bean)
        IN  Call("Count", bean, out, out.sent)

Sum ==
    \E bean \in {"struct", "bad"} :
        LET gen == IF bean = "bad" /\ ~st.RawSQL THEN Refused(st) ELSE GenSumSQL(dialect, st)
            out == IF st.LastError THEN Refused(gen.st) ELSE gen
        IN  Call("Sum", bean, out, ~Failed(gen.w))

Exist ==
    \E bean \in {"struct", "none"} :
        LET out == IF st.LastError THEN Refused(st) ELSE GenExistSQL(dialect, st, bean)
        IN  Call("Exist", bean, out, ~Failed(out.w))

\* Query, QueryString, QuerySliceString and QueryInterface without an SQL text.
Query ==
    LET gen == GenQuerySQL(dialect, st)
        out == IF st.LastError THEN Refused(gen.st) ELSE gen
    IN  Call("Query", "none", out, ~Failed(gen.w))

\* Exec with a text, or with something that cannot be converted to one.
Exec ==
    \E ok \in BOOLEAN : Call("Exec", "none", IF ok THEN Raw(st) ELSE Refused(st), ok)

\* Mutant: an empty page past the end tells the total.
TotalKnownAlways(s, rows) ==
    \/ s.LimitN = NoLimit /\ s.Start = 0
    \/ s.LimitN > 0 /\ rows < s.LimitN

\* A page that is not full tells the number of all records.
TotalKnown(s, rows) ==
    \/ s.LimitN = NoLimit /\ s.Start = 0
    \/ s.LimitN > 0 /\ rows < s.LimitN /\ (s.Start = 0 \/ rows > 0)

\* The error of the database, if it reports one, is dbErr.
FindAndCount ==
    \E bean \in {"struct", "none"}, dbErr \in BOOLEAN :
        LET out == find(FindStatement("struct"), bean)
            s == out.st
            rows == Len(RowsOf(out.w))
            all == [s EXCEPT !.SelectStr = FALSE, !.orderBy = <<>>, !.LimitN = NoLimit,
                             !.ColumnMap = IF s.IsDistinct THEN @ ELSE {}, !.Start = 0]
            count == CountQuery(all, "none")
        IN  IF Failed(out.w) \/ dbErr
            THEN Return("FindAndCount", bean, [w |-> Fail, st |-> s], TRUE, FALSE, 0)
            ELSE IF TotalKnown(s, rows)
            THEN Return("FindAndCount", bean, out, TRUE, TRUE, rows + s.Start)
            ELSE Return("FindAndCount", bean, [w |-> count.w, st |-> count.st],
                        count.sent, TRUE, Cardinality(WhereRows(count.w)))

\* Mutant: the last page is not cut.
NextSizeUncut(limit, next, size) == size

\* The size of the page from next on.
NextSize(limit, next, size) ==
    IF limit # NoLimit /\ next + size > limit THEN limit - next ELSE size

\* bufferIterate: pages of at most size records from start on, while they are full.
\* Every find adds its condition to the statement again.  A raw text, here one for all
\* records, is sent for every page as it is, whatever the page's size and start.
NextPage(limit, bean, p) ==
    LET out == find([p.st EXCEPT !.LimitN = p.size, !.Start = p.start], bean)
        got == RowsOf(out.w)
        next == p.start + Len(got)
    IN  IF p.done \/ p.size <= 0 THEN [p EXCEPT !.done = TRUE]
        ELSE IF Failed(out.w) THEN [p EXCEPT !.done = TRUE, !.w = Fail, !.st = out.st]
        ELSE [st |-> out.st, w |-> out.w, start |-> next, rows |-> p.rows \o got,
              done |-> p.size > Len(got), size |-> NextSize(limit, next, p.size)]

FirstPage(s) ==
    [st |-> s, w |-> Nothing, start |-> s.Start, rows |-> <<>>, done |-> FALSE,
     size |-> IF s.LimitN # NoLimit /\ s.BufferSize > s.LimitN THEN s.LimitN ELSE s.BufferSize]

\* RowCount + 2 pages of at least one record are more than there are.  The pages of a raw
\* text may have no end: then the caller's function ends the call after these.
Pages(s, bean) ==
    LET page[i \in 0 .. RowCount + 2] ==
            IF i = 0 THEN FirstPage(s) ELSE NextPage(s.LimitN, bean, page[i - 1])
    IN  page[RowCount + 2]

\* newRows: the statement, the text and whether queryRows was reached.
newRows(bean) ==
    LET s == SetRefBean(st)
        cond == IF s.NoAutoCondition THEN CondDeleted(s) ELSE BuildConds(s)
        gen == GenFindSQL(dialect, s, cond)
    IN  IF bean = "bad" THEN [w |-> Fail, st |-> st, sent |-> FALSE]
        ELSE [w |-> IF s.LastError THEN Fail ELSE gen.w, st |-> gen.st, sent |-> ~Failed(gen.w)]

Iterate ==
    \E bean \in {"struct", "bad"} :
        LET pages == Pages(SetRefBean(st), bean)
            out == CASE st.LastError -> Refused(st)
                     [] ~st.LastError /\ st.BufferSize > 0 ->
                           IF bean = "bad" THEN Refused(st)
                           ELSE [w |-> pages.w, st |-> pages.st]
                     [] OTHER -> newRows(bean)
        IN  Return("Iterate", bean, [w |-> out.w, st |-> out.st], TRUE, TRUE,
                   IF st.BufferSize > 0 THEN pages.rows ELSE 0)

\* The caller gets a Rows, and closes it; a failed query closes it at once.
OpenRows ==
    \E bean \in {"struct", "bad"} :
        LET out == newRows(bean)
            open == out.sent /\ ~Failed(out.w)
        IN  /\ Ready /\ chained <= MaxChain
            /\ rowsOpen' = open
            /\ isClosed' = (isAutoClose /\ out.sent /\ ~open)
            /\ st' = IF out.sent /\ autoResetStatement THEN Reset(out.st) ELSE out.st
            /\ asked' = NothingAsked(st' # Fresh)
            /\ chained' = IF st' = Fresh THEN 0 ELSE chained + 1
            /\ last' = [op |-> "Rows", bean |-> bean, before |-> st, asked |-> asked,
                        w |-> out.w, st |-> out.st, err |-> Failed(out.w), res |-> 0]
            /\ UNCHANGED <<dialect, autoResetStatement, isAutoClose>>

\* Scan refers the statement, which the query has reset, to the table again.
RowsScan ==
    /\ rowsOpen
    /\ st' = SetRefBean(st)
    /\ last' = NoCall
    /\ UNCHANGED <<dialect, autoResetStatement, isAutoClose, isClosed, rowsOpen, asked, chained>>

\* Mutant: closing leaves what Scan has put into the statement.
RowsCloseKeeps ==
    /\ rowsOpen
    /\ rowsOpen' = FALSE
    /\ isClosed' = isAutoClose
    /\ asked' = NothingAsked(st # Fresh)
    /\ chained' = IF st = Fresh THEN 0 ELSE chained
    /\ last' = [op |-> "RowsClose", bean |-> "none", before |-> st, asked |-> asked,
                w |-> Nothing, st |-> st, err |-> FALSE, res |-> 0]
    /\ UNCHANGED <<dialect, st, autoResetStatement, isAutoClose>>

RowsClose ==
    /\ rowsOpen
    /\ rowsOpen' = FALSE
    /\ isClosed' = isAutoClose
    /\ st' = IF autoResetStatement THEN Reset(st) ELSE st
    /\ asked' = NothingAsked(st' # Fresh)
    /\ chained' = IF st' = Fresh THEN 0 ELSE chained
    /\ last' = [op |-> "RowsClose", bean |-> "none", before |-> st, asked |-> asked,
                w |-> Nothing, st |-> st, err |-> FALSE, res |-> 0]
    /\ UNCHANGED <<dialect, autoResetStatement, isAutoClose>>

\* Update(bean, condiBean): the condition of the version comes last.
UpdateCond(s, bean, condiBean) ==
    LET auto == IF condiBean = "struct"
                THEN IF s.NoAutoCondition THEN NewCond ELSE BuildConds(s)
                ELSE IF s.RefTable THEN CondDeleted(s) ELSE NewCond
        ver == IF bean = "struct" /\ s.CheckVersion THEN Eq("ver") ELSE NewCond
    IN  CondAnd(CondAnd(s.cond, auto), ver)

Update ==
    \E bean \in {"struct", "map", "bad"}, condiBean \in {"struct", "none"} :
        LET s == IF bean = "struct" THEN SetRefBean(st) ELSE st
            s2 == ProcessIDParam(s)
            out == IF st.LastError \/ bean = "bad" THEN Refused(st)
                   ELSE IF IdFails(s) THEN Refused(s)
                   ELSE [w |-> WriteUpdate(dialect, s2, UpdateCond(s2, bean, condiBean), bean),
                         st |-> s2]
        IN  Call("Update", <<bean, condiBean>>, out, TRUE)

\* Delete must have a condition or a limit, Truncate need not.
Delete ==
    \E bean \in {"struct", "none", "bad"}, mustHaveConditions \in BOOLEAN :
        LET s == IF bean = "struct" THEN SetRefBean(st) ELSE st
            s2 == IF bean = "struct" THEN MergeConds(s) ELSE s
            needs == mustHaveConditions /\ ~s2.cond.valid /\ s2.LimitN <= 0
            out == IF st.LastError \/ bean = "bad" THEN Refused(st)
                   ELSE IF (bean = "struct" /\ IdFails(s)) \/ needs THEN Refused(s2)
                   ELSE [w |-> WriteDelete(dialect, s2), st |-> s2]
        IN  Call("Delete", bean, out, ~Failed(out.w))

\* A struct or two, each with a zero id or not; a map or two, and the keys.
Shapes(kind) == CASE kind = "struct" -> [1 .. 1 -> BOOLEAN]
                  [] kind = "structs" -> [1 .. 2 -> BOOLEAN]
                  [] kind \in {"map", "maps"} -> {<<"a">>, <<"a", "b">>}
                  [] OTHER -> {<<>>}

InsertText(kind, shape) ==
    LET s == IF kind \in {"struct", "structs"} THEN SetRefBean(st) ELSE st
    IN  CASE ~s.TableName -> Refused(s)
          [] s.TableName /\ kind = "struct" ->
                [w |-> GenInsertSQL(dialect, s, genInsertColumns(s, shape[1])), st |-> s]
          [] s.TableName /\ kind = "map" ->
                [w |-> GenInsertMapSQL(s, MapColumns(s, shape)), st |-> s]
          [] s.TableName /\ kind = "maps" ->
                [w |-> GenInsertMultipleMapSQL(s, MapColumns(s, shape)), st |-> s]
          [] OTHER -> [w |-> WriteInsertMultiple(dialect, s, shape), st |-> s]

Insert ==
    \E kind \in {"struct", "map", "maps", "structs", "bad"} : \E shape \in Shapes(kind) :
        Return("Insert", <<kind, shape>>, Parsed(kind, InsertText(kind, shape)),
               TRUE, TRUE, 0)

\* InsertOne and InsertMulti leave the reset to exec.
InsertOne ==
    \E kind \in {"struct", "structs", "bad"} : \E shape \in Shapes(kind) :
        LET out == Parsed(kind, InsertText(kind, shape))
        IN  Call("Insert", <<kind, shape>>, out, ~Failed(out.w))

\* The caller takes the result.
Returned ==
    /\ last # NoCall /\ ~rowsOpen
    /\ last' = NoCall
    /\ UNCHANGED <<dialect, st, autoResetStatement, isAutoClose, isClosed, rowsOpen, asked,
                   chained>>

DatabaseCall ==
    \/ Get \/ Find \/ Count \/ Sum \/ Exist \/ Query \/ Exec \/ FindAndCount \/ Iterate
    \/ OpenRows \/ RowsScan \/ RowsClose \/ Update \/ Delete \/ Insert \/ InsertOne

Next == ChainedCall \/ DatabaseCall \/ Returned
Spec == Init /\ [][Next]_vars

-----------------------------------------------------------------------------
(* Properties.  Where the code departs from a property in a case, the case   *)
(* is a definition of its own, and the property holds in all the others.     *)

\* The types of the variables.
TypeOK ==
    /\ dialect \in Dialects
    /\ DOMAIN st = DOMAIN Fresh
    /\ st.LimitN \in Nat \cup {NoLimit} /\ st.Start \in Nat
    /\ {autoResetStatement, isAutoClose, isClosed, rowsOpen} \subseteq BOOLEAN
    /\ chained \in 0 .. MaxChain + 1

\* The call sent a text of its own, from a statement that held nothing before.
Sent == last # NoCall /\ ~last.err /\ ~last.asked.stale /\ last.w # Text("RAW")

\* The calls that read or change records by condition.
Reads == {"Get", "Find", "Count", "Sum", "Exist", "Query", "FindAndCount", "Iterate", "Rows"}
Selects == Sent /\ last.op \in Reads \cup {"Update", "Delete"} /\ last.w # Nothing

ClauseOrder ==
    <<"WHERE", "AND", "ROWNUM", "GROUP BY", "HAVING", "ORDER BY", "LIMIT", "FOR UPDATE">>

\* The place of a clause in this order, 0 for those that have none.
Rank(k) == IF \E i \in DOMAIN ClauseOrder : ClauseOrder[i] = k
           THEN CHOOSE i \in DOMAIN ClauseOrder : ClauseOrder[i] = k ELSE 0

InOrder(kinds) ==
    /\ \A i, j \in DOMAIN kinds :
          i < j /\ Rank(kinds[i]) > 0 /\ Rank(kinds[j]) > 0 => Rank(kinds[i]) < Rank(kinds[j])
    /\ "AND" \in Range(kinds) => "WHERE" \in Range(kinds)

\* The subquery of the legacy pagination of SQL Server sorts before it groups.
LegacySorts == dialect = "mssql_legacy" /\ last.st.GroupByStr /\ last.st.orderBy # <<>>
                 /\ last.st.Start > 0

\* The clauses of every text, and of its subqueries, are in the order SQL prescribes
\* and none is written twice: whatever the dialect and whatever was chained.
ClausesInOrder ==
    Selects => \/ LegacySorts
               \/ /\ InOrder(Kinds(last.w))
                  /\ \A i \in DOMAIN last.w : InOrder(last.w[i].sub)

\* Legacy Oracle pages before it sorts.
LegacyPages == dialect = "oracle_legacy" /\ last.st.orderBy # <<>>

\* Legacy SQL Server excludes the records before the offset after an AND that binds to
\* the last alternative of an Or only.
OrPages == dialect = "mssql_legacy" /\ last.st.Start > 0 /\ last.st.cond.lead # {}

\* Get and Find return, of the records that satisfy the condition, sorted as asked,
\* those of the page Limit asks for: OFFSET, TOP, FETCH, ROWNUM and subqueries agree.
PageIsRight ==
    Sent /\ last.op \in {"Get", "Find"} /\ ~LegacyPages /\ ~OrPages =>
        LET s == last.st
            all == Filter(Scan, s.cond.rows)
            sorted == IF s.orderBy # <<>> /\ Head(s.orderBy) = "desc" THEN Reverse(all) ELSE all
        IN  RowsOf(last.w) = Slice(sorted, s.Start, s.LimitN)

\* Without a bean Count and Delete look at nothing but the chained conditions, and
\* Exist without a table to refer to neither.
NoBean == \/ last.op \in {"Count", "Delete"} /\ last.bean = "none"
          \/ last.op = "Exist" /\ ~last.st.RefTable

\* Find, FindAndCount, Rows and Iterate do not look at ID.
IgnoresID == last.op \in {"Find", "FindAndCount", "Rows", "Iterate"} \/ NoBean

\* UPDATE on SQL Server with an ORDER BY leaves the WHERE clause to the subquery of a
\* limit, and has none without a limit.
UpdatesAll == last.op = "Update" /\ DBType(dialect) = "mssql" /\ last.st.orderBy # <<>>
                /\ last.st.RefTable /\ last.st.LimitN = NoLimit

\* No call reads or changes a record that the chained conditions exclude.
CondsRestrict ==
    Selects /\ ~UpdatesAll =>
        /\ WhereRows(last.w) \subseteq last.asked.cond.rows
        /\ last.asked.id /\ ~IgnoresID => WhereRows(last.w) \subseteq Match["id"]

\* The same with no exception.
AllCondsRestrict == Selects => WhereRows(last.w) \subseteq last.asked.cond.rows

\* Query takes the conditions as they are; NoAutoCondition and a condition bean make
\* Update forget the deleted column.
SeesDeleted ==
    \/ UpdatesAll \/ NoBean \/ last.op = "Query"
    \/ last.op = "Update" /\ last.bean[2] = "struct" /\ last.st.NoAutoCondition

\* A soft-deleted record is neither read nor changed by a call that knows the table,
\* unless the caller chained Unscoped.
DeletedHidden ==
    Selects /\ last.st.RefTable /\ ~last.st.unscoped /\ ~SeesDeleted =>
        WhereRows(last.w) \subseteq Match["deleted"]

\* The subquery of DELETE on PostgreSQL and SQLite takes its records from the whole
\* table, not from those that satisfy the condition, and after an Or restricts only the
\* last alternative.
DeletesFewer == last.op = "Delete" /\ DBType(dialect) \in {"postgres", "sqlite3"}
                  /\ last.st.cond.valid

\* Update and Delete with a limit change that many of the records that satisfy the
\* condition, or all when there are fewer.
LimitExact ==
    Sent /\ last.op \in {"Update", "Delete"} /\ last.st.LimitN > 0 /\ ~DeletesFewer =>
        LET s == last.st
            cond == IF last.op = "Delete" THEN s.cond
                    ELSE UpdateCond(s, last.bean[1], last.bean[2])
            n == Cardinality(cond.rows)
        IN  Len(RowsOf(last.w)) = (IF s.LimitN < n THEN s.LimitN ELSE n)

Sets(w) == FlattenSeq([i \in DOMAIN w |-> IF w[i].k = "SET" THEN w[i].cols ELSE <<>>])

\* The SET list assigns a column twice that Cols or SetExpr names and the version check
\* increments, that a map holds next to Incr, Decr or SetExpr, that two calls of these
\* name, or that SetExpr gives a value and the automatic time as well.
SetsTwice ==
    LET s == last.st
    IN  \/ s.CheckVersion /\ ("ver" \in s.ColumnMap \/ InExprs(s, "ver"))
        \/ last.bean[1] = "map" /\ InExprs(s, "a")
        \/ ~IsInjective(s.IncrColumns \o s.DecrColumns \o s.ExprColumns)
        \/ InExprs(s, "updated") /\ AutoUpdated(s) # <<>>

\* No column is assigned twice by an UPDATE, in whichever way it was named: by the bean,
\* Cols, AllCols, Incr, Decr, SetExpr or the automatic columns.
SetOnce == Sent /\ last.op = "Update" /\ ~SetsTwice => IsInjective(Sets(last.w))

Lists(w, kinds) == {w[i].cols : i \in {j \in DOMAIN w : w[j].k \in kinds}}

\* In a slice of structs only the first element is looked at for the column list, so
\* that elements with and without an id differ; where a sequence stands for the id only
\* if Cols leaves the id out.
MixedIds == /\ last.bean[1] = "structs" /\ last.bean[2][1] # last.bean[2][2]
            /\ DBType(dialect) \in {"oracle", "dameng"} => last.st.ColumnMap # {}

\* The comma before the expressions has nothing before it when SetExpr names all the
\* keys of a map.
EmptyItem == last.bean[1] \in {"map", "maps"} /\ MapColumns(last.st, last.bean[2]) = <<>>

\* A struct none of whose columns is left is inserted with DEFAULT VALUES, without what
\* SetExpr gives.  Insert of several structs does not look at SetExpr.
LosesExprs ==
    \/ /\ last.bean[1] = "struct" /\ DBType(dialect) \notin {"oracle", "dameng"}
       /\ genInsertColumns(last.st, last.bean[2][1]) = <<>>
    \/ last.bean[1] = "structs"

\* What an INSERT selects or lists as values are the columns it names, in their order,
\* in every row, and every column that SetExpr gives a value is one of them.
InsertListsAgree ==
    Sent /\ last.op = "Insert" =>
        /\ \/ MixedIds \/ EmptyItem
           \/ Lists(last.w, {"SELECT", "VALUES"}) = Lists(last.w, {"COLUMNS"})
        /\ \/ LosesExprs
           \/ \A c \in Range(last.st.ExprColumns) :
                 \E cols \in Lists(last.w, {"COLUMNS"}) : c \in Range(cols)

\* FindAndCount returns the number of all records that satisfy the condition, whether
\* it infers it from the page it has read or counts them.
FindAndCountTotal ==
    Sent /\ last.op = "FindAndCount" => last.res = Cardinality(last.st.cond.rows)

\* bufferIterate compares a position that includes the offset with the limit.
OffsetCounts == last.before.LimitN # NoLimit /\ last.before.Start > 0

\* A raw text is sent again as long as its records fill a page, unless they reach the
\* limit, and with the limit 0 it is not sent at all.
RawAgain ==
    LET s == last.before
    IN  /\ s.RawSQL /\ FirstPage(s).size <= RowCount
        /\ s.LimitN \notin 1 .. RowCount

\* Iterate visits the same records in the same order with a buffer as without one.
BufferedAsUnbuffered ==
    /\ last.op = "Iterate" /\ ~last.err /\ ~last.asked.stale
    /\ last.before.BufferSize > 0 /\ ~OffsetCounts /\ ~RawAgain
    => LET s == SetRefBean(last.before)
       IN  LegacyPages \/ last.res = RowsOf(GenFindSQL(dialect, s, FindCond(s, "struct")).w)

\* The calls that return early without resetStatement when they fail.
KeepsStatement == {"Count", "Sum", "Exist", "Query", "Exec", "Delete", "Insert", "Rows"}

\* A database call leaves nothing in the statement for the next one, but index hints.
\* Failures of the calls above are excepted, and what follows a FindAndCount that failed
\* and so left autoResetStatement off, until Insert, Iterate or another FindAndCount
\* switches it on again.
CleanAfterCall ==
    last # NoCall /\ ~(last.err /\ last.op \in KeepsStatement) /\ autoResetStatement =>
        [st EXCEPT !.indexHints = <<>>] = Fresh
=============================================================================

------------------------- MODULE SessionCallsProofs -------------------------
(***************************************************************************)
(* For any records, conditions, dialects and chained calls: what a session *)
(* leaves behind a database call, and which records, in which order and    *)
(* how many of them, the text it sends reads or changes.                   *)
(***************************************************************************)
EXTENDS SessionCalls, StatementProofs

LEMMA FindStmt ==
    ASSUME NEW dest, Stmt(st)
    PROVE  Stmt(FindStatement(dest)) /\ From(FindStatement(dest), st)
BY RefBeanStmt, RefBeanFrom DEF FindStatement

LEMMA FindCondType ==
    ASSUME NEW s, NEW bean
    PROVE  /\ FindCond(s, bean) \in Conds
           /\ s.RefTable /\ ~s.unscoped => FindCond(s, bean).rows \subseteq Match["deleted"]
BY CondTypes, AutoConds DEF FindCond

LEMMA findResult ==
    ASSUME NEW s, Stmt(s), NEW bean
    PROVE  LET o == find(s, bean)
           IN  /\ Result(o, s) /\ Hides(o) /\ Found(o, dialect)
               /\ ~Failed(o.w) /\ ~o.st.RawSQL /\ o.st.RefTable /\ ~o.st.unscoped =>
                     o.st.cond.rows \subseteq Match["deleted"]
<1> DEFINE c == FindCond(s, bean)
           o == GenFindSQL(dialect, s, c)
<1>1. c \in Conds /\ (s.RefTable /\ ~s.unscoped => c.rows \subseteq Match["deleted"])
    BY FindCondType
<1>2. find(s, bean) = IF s.LastError THEN Refused(s) ELSE o
    BY DEF find
<1> HIDE DEF c
<1>3. /\ Result(o, s)
      /\ Generated(o) \/ (~Failed(o.w) /\ ~o.st.RawSQL) =>
            o.st.cond.rows = s.cond.rows \cap c.rows
      /\ o.st.RefTable = s.RefTable /\ o.st.unscoped = s.unscoped
      /\ Found(o, dialect)
    BY <1>1, FindResult
<1> HIDE DEF o
<1>4. /\ Hides(o)
      /\ ~Failed(o.w) /\ ~o.st.RawSQL /\ o.st.RefTable /\ ~o.st.unscoped =>
            o.st.cond.rows \subseteq Match["deleted"]
    BY <1>1, <1>3 DEF Hides
<1>5. Result(Refused(s), s) /\ Hides(Refused(s)) /\ Failed(Refused(s).w)
    BY RefBeanFrom, RefusedResult DEF Hides
<1> QED
    BY <1>2, <1>3, <1>4, <1>5 DEF Found

LEMMA newRowsResult ==
    ASSUME Stmt(st), NEW bean
    PROVE  LET o == newRows(bean)
           IN  Result(o, st) /\ Hides(o) /\ (~o.sent => Failed(o.w))
<1> DEFINE s == SetRefBean(st)
           c == IF s.NoAutoCondition THEN CondDeleted(s) ELSE BuildConds(s)
           gen == GenFindSQL(dialect, s, c)
           o == newRows(bean)
<1>1. Stmt(s) /\ From(s, st)
    BY RefBeanStmt, RefBeanFrom
<1>2. c \in Conds /\ (~s.unscoped => c.rows \subseteq Match["deleted"])
    BY AutoConds
<1>3. o = IF bean = "bad" THEN [w |-> Fail, st |-> st, sent |-> FALSE]
          ELSE [w |-> IF s.LastError THEN Fail ELSE gen.w, st |-> gen.st,
                sent |-> ~Failed(gen.w)]
    BY DEF newRows
<1> HIDE DEF s, c
<1>4. /\ Result(gen, s)
      /\ Generated(gen) \/ (~Failed(gen.w) /\ ~gen.st.RawSQL) =>
            gen.st.cond.rows = s.cond.rows \cap c.rows
      /\ gen.st.RefTable = s.RefTable /\ gen.st.unscoped = s.unscoped
    BY <1>1, <1>2, FindResult
<1>5. Result(gen, st)
    BY <1>1, <1>4, ResultFrom
<1> HIDE DEF gen, o
<1>6. CASE bean = "bad"
  <2>1. o.w = Fail /\ o.st = st
    BY <1>3, <1>6
  <2> QED
    BY <2>1, FailText, RefBeanFrom DEF Result, Generated, Hides, o
<1>7. CASE bean # "bad"
  <2>1. /\ o.st = gen.st /\ o.sent = ~Failed(gen.w)
        /\ o.w = IF s.LastError THEN Fail ELSE gen.w
    BY <1>3, <1>7
  <2>2. Result(o, st)
    BY <1>5, <2>1, FailText DEF Result, Generated
  <2>3. Hides(o)
    BY <1>2, <1>4, <2>1, FailText DEF Hides, Generated
  <2>4. ~o.sent => Failed(o.w)
    BY <2>1, FailText
  <2> QED
    BY <2>2, <2>3, <2>4 DEF o
<1> QED
    BY <1>6, <1>7

-----------------------------------------------------------------------------
(* bufferIterate: what every page keeps.                                    *)

PageOK(p, s) ==
    /\ DOMAIN p = {"st", "w", "start", "rows", "done", "size"}
    /\ From(p.st, s)
    /\ p.start \in Nat /\ p.size \in Int /\ p.rows \in Seq(Rows)
    /\ p.w \in Texts
    /\ p.w # Nothing => Hides(p) /\ (Generated(p) => WhereRows(p.w) \subseteq p.st.cond.rows)

LEMMA FirstPageOK == ASSUME NEW s, Stmt(s) PROVE PageOK(FirstPage(s), s)
<1> DEFINE p == FirstPage(s)
<1>1. /\ DOMAIN p = {"st", "w", "start", "rows", "done", "size"}
      /\ p.st = s /\ p.w = Nothing /\ p.start = s.Start /\ p.rows = <<>>
      /\ p.size = IF s.LimitN # NoLimit /\ s.BufferSize > s.LimitN THEN s.LimitN
                  ELSE s.BufferSize
    BY DEF FirstPage
<1>2. s.Start \in Nat /\ s.LimitN \in Int /\ s.BufferSize \in Nat
    BY DEF Stmt, NoLimit
<1> HIDE DEF p
<1>3. p.size \in Int /\ p.start \in Nat /\ p.rows \in Seq(Rows)
    BY <1>1, <1>2
<1>4. From(p.st, s) /\ p.w \in Texts
    BY <1>1, RefBeanFrom, EmptyText
<1> QED
    BY <1>1, <1>3, <1>4 DEF PageOK, p

LEMMA NextPageOK ==
    ASSUME NEW s, NEW limit \in Int, NEW bean, NEW p, PageOK(p, s)
    PROVE  PageOK(NextPage(limit, bean, p), s)
<1> DEFINE t == [p.st EXCEPT !.LimitN = p.size, !.Start = p.start]
           out == find(t, bean)
           got == RowsOf(out.w)
           next == p.start + Len(got)
           q == NextPage(limit, bean, p)
           stay == [p EXCEPT !.done = TRUE]
           fail == [p EXCEPT !.done = TRUE, !.w = Fail, !.st = out.st]
           go == [st |-> out.st, w |-> out.w, start |-> next, rows |-> p.rows \o got,
                  done |-> p.size > Len(got), size |-> NextSize(limit, next, p.size)]
<1>1. q = IF p.done \/ p.size <= 0 THEN stay ELSE IF Failed(out.w) THEN fail ELSE go
    BY DEF NextPage
<1>2. CASE p.done \/ p.size <= 0
  <2>1. q = stay
    BY <1>1, <1>2
  <2>2. /\ DOMAIN stay = {"st", "w", "start", "rows", "done", "size"}
        /\ stay.st = p.st /\ stay.w = p.w /\ stay.start = p.start /\ stay.rows = p.rows
        /\ stay.size = p.size
    BY DEF PageOK
  <2> HIDE DEF stay, q
  <2>3. PageOK(stay, s)
    BY <2>2 DEF PageOK, Hides, Generated
  <2> QED
    BY <2>1, <2>3 DEF q
<1>3. CASE ~(p.done \/ p.size <= 0)
  <2>1. Stmt(p.st) /\ p.size \in Nat /\ p.start \in Nat /\ From(p.st, s)
    BY <1>3 DEF PageOK, From
  <2>2. Stmt(t) /\ From(t, p.st)
    BY <2>1 DEF Stmt, From, Fields
  <2> HIDE DEF t
  <2>3. Result(out, t) /\ Hides(out)
    BY <2>2, findResult
  <2>4. From(out.st, s) /\ out.w \in Texts
    BY <2>1, <2>2, <2>3, FromTrans DEF Result
  <2> HIDE DEF out
  <2>5. CASE Failed(out.w)
    <3>1. q = fail
      BY <1>1, <1>3, <2>5
    <3>2. /\ DOMAIN fail = {"st", "w", "start", "rows", "done", "size"}
          /\ fail.st = out.st /\ fail.w = Fail /\ fail.start = p.start /\ fail.rows = p.rows
          /\ fail.size = p.size
      BY DEF PageOK
    <3> HIDE DEF fail, q
    <3>3. ~Generated(fail)
      BY <3>2, FailText DEF Generated
    <3>4. PageOK(fail, s)
      BY <2>4, <3>2, <3>3, FailText DEF PageOK, Hides
    <3> QED
      BY <3>1, <3>4 DEF q
  <2>6. CASE ~Failed(out.w)
    <3>1. q = go
      BY <1>1, <1>3, <2>6
    <3>2. /\ DOMAIN go = {"st", "w", "start", "rows", "done", "size"}
          /\ go.st = out.st /\ go.w = out.w /\ go.start = next /\ go.rows = p.rows \o got
          /\ go.size = NextSize(limit, next, p.size)
      OBVIOUS
    <3>3. got \in Seq(Rows)
      BY <2>4, RowsOfProps
    <3> HIDE DEF go, got, q
    <3>4. next \in Nat /\ p.rows \o got \in Seq(Rows)
      BY <2>1, <3>3 DEF PageOK
    <3>5. NextSize(limit, next, p.size) \in Int
      BY <2>1, <3>4 DEF NextSize
    <3>6. Hides(go) /\ (Generated(go) => WhereRows(go.w) \subseteq go.st.cond.rows)
      BY <2>3, <3>2 DEF Hides, Generated, Result
    <3> HIDE DEF next
    <3>7. PageOK(go, s)
      BY <2>4, <3>2, <3>4, <3>5, <3>6 DEF PageOK
    <3> QED
      BY <3>1, <3>7 DEF q
  <2> QED
    BY <2>5, <2>6
<1> QED
    BY <1>2, <1>3

\* One step of the pages, and that the recursive function in Pages exists.
PageNext(s, bean, g, n) == IF n = 0 THEN FirstPage(s) ELSE NextPage(s.LimitN, bean, g[n - 1])

LEMMA PagesExist ==
    ASSUME NEW s, NEW bean, NEW N \in Nat
    PROVE  \E g : g = [n \in 0 .. N |-> PageNext(s, bean, g, n)]
<1> DEFINE P == {m \in Nat : \E g : g = [n \in 0 .. m |-> PageNext(s, bean, g, n)]}
<1>1. 0 \in P
  <2> DEFINE g == [n \in 0 .. 0 |-> FirstPage(s)]
  <2>1. g = [n \in 0 .. 0 |-> PageNext(s, bean, g, n)]
    BY DEF PageNext
  <2> QED
    BY <2>1
<1>2. ASSUME NEW m \in Nat, m \in P PROVE m + 1 \in P
  <2>1. PICK g : g = [n \in 0 .. m |-> PageNext(s, bean, g, n)]
    BY <1>2
  <2> DEFINE h == [n \in 0 .. m + 1 |-> IF n <= m THEN g[n] ELSE PageNext(s, bean, g, m + 1)]
  <2>2. ASSUME NEW n \in 0 .. m + 1 PROVE h[n] = PageNext(s, bean, h, n)
    <3>1. n # 0 => n - 1 \in 0 .. m /\ h[n - 1] = g[n - 1]
      OBVIOUS
    <3>2. CASE n <= m
      <4>1. h[n] = g[n] /\ g[n] = PageNext(s, bean, g, n)
        BY <2>1, <3>2
      <4> HIDE DEF h
      <4> QED
        BY <3>1, <4>1 DEF PageNext
    <3>3. CASE n = m + 1
      <4>1. h[n] = PageNext(s, bean, g, n)
        BY <3>3
      <4> HIDE DEF h
      <4> QED
        BY <3>1, <4>1 DEF PageNext
    <3> QED
      BY <3>2, <3>3
  <2>3. h = [n \in 0 .. m + 1 |-> h[n]]
    OBVIOUS
  <2> HIDE DEF h
  <2>4. h = [n \in 0 .. m + 1 |-> PageNext(s, bean, h, n)]
    BY <2>2, <2>3
  <2> QED
    BY <2>4
<1> HIDE DEF P
<1>3. N \in P
    BY <1>1, <1>2, SetInduction
<1> QED
    BY <1>3 DEF P

LEMMA PagesOK == ASSUME NEW s, Stmt(s), NEW bean PROVE PageOK(Pages(s, bean), s)
<1> DEFINE N == RowCount + 2
           g == CHOOSE f : f = [n \in 0 .. N |-> PageNext(s, bean, f, n)]
<1>1. N \in Nat
    BY RowsAssumption
<1>2. Pages(s, bean) = g[N]
    BY DEF Pages, PageNext
<1> HIDE DEF N
<1>3. g = [n \in 0 .. N |-> PageNext(s, bean, g, n)]
    BY <1>1, PagesExist
<1> HIDE DEF g
<1>4. \A n \in 0 .. N : g[n] = PageNext(s, bean, g, n)
    BY <1>3
<1> DEFINE P == {n \in Nat : n <= N => PageOK(g[n], s)}
<1>5. 0 \in P
    BY <1>1, <1>4, FirstPageOK DEF PageNext
<1>6. ASSUME NEW n \in Nat, n \in P PROVE n + 1 \in P
  <2> SUFFICES ASSUME n + 1 <= N PROVE PageOK(g[n + 1], s)
    OBVIOUS
  <2>1. n + 1 \in 0 .. N /\ n + 1 # 0 /\ (n + 1) - 1 = n /\ PageOK(g[n], s)
    BY <1>1, <1>6
  <2>2. g[n + 1] = NextPage(s.LimitN, bean, g[n])
    BY <1>4, <2>1 DEF PageNext
  <2>3. s.LimitN \in Int
    BY DEF Stmt, NoLimit
  <2> QED
    BY <2>1, <2>2, <2>3, NextPageOK
<1> HIDE DEF P
<1>7. Nat \subseteq P
    BY <1>5, <1>6, SetInduction
<1> QED
    BY <1>1, <1>2, <1>7 DEF P

-----------------------------------------------------------------------------
(* The writers of UPDATE and DELETE.                                        *)

LEMMA ColumnsType == Columns \in Seq(ColumnNames) /\ IsInjective(Columns)
<1>1. Columns \in Seq(ColumnNames)
    BY DEF Columns, ColumnNames
<1>2. DOMAIN Columns = 1 .. 8
    BY DEF Columns
<1>3. IsInjective(Columns)
    BY <1>2 DEF Columns, IsInjective
<1> QED
    BY <1>1, <1>3

LEMMA UpdateColumnsType ==
    ASSUME NEW s, NEW bean PROVE UpdateColumns(s, bean) \in Seq(ColumnNames)
<1>1. \A S : Filter(Columns, S) \in Seq(ColumnNames)
    BY ColumnsType, FilterProps
<1>2. BuildUpdates(s) \in Seq(ColumnNames) /\ genUpdateColumns(s) \in Seq(ColumnNames)
    BY <1>1 DEF BuildUpdates, genUpdateColumns
<1>3. <<"a">> \in Seq(ColumnNames) /\ <<"updated">> \in Seq(ColumnNames)
    BY DEF ColumnNames
<1>4. <<>> \in Seq(ColumnNames)
    OBVIOUS
<1>5. AutoUpdated(s) \in Seq(ColumnNames)
    BY <1>3, <1>4, Zenon DEF AutoUpdated
<1> DEFINE cols == IF bean = "map" THEN <<"a">>
                   ELSE IF s.ColumnMap = {} THEN BuildUpdates(s) ELSE genUpdateColumns(s)
<1>6. cols \in Seq(ColumnNames)
    BY <1>2, <1>3, Zenon
<1>7. UpdateColumns(s, bean) = cols \o AutoUpdated(s)
    BY DEF UpdateColumns
<1> HIDE DEF cols
<1> QED
    BY <1>5, <1>6, <1>7

LEMMA UpdateSetsType ==
    ASSUME NEW s, Stmt(s), NEW bean PROVE writeUpdateSets(s, bean) \in Texts
<1> DEFINE a == writeSetColumns(UpdateColumns(s, bean))
           b == writeIncrSets(s)
           c == writeDecrSets(s)
           e == writeExprSets(s)
           v == writeVersionIncrSet(s, bean)
           w == a \o b \o c \o e \o v
<1>1. \A cols \in Seq(ColumnNames) : SetClause(cols) \in Texts /\ writeSetColumns(cols) \in Texts
  <2>1. \A cols \in Seq(ColumnNames) : SetClause(cols) = List("SET", cols)
    BY DEF SetClause, List
  <2>2. "SET" \in ClauseNames \ {"ERROR"}
    BY DEF ClauseNames
  <2>3. \A cols \in Seq(ColumnNames) : SetClause(cols) \in Texts
    BY <2>1, <2>2, ListText
  <2> QED
    BY <2>3, EmptyText DEF writeSetColumns, When
<1>2. a \in Texts
    BY <1>1, UpdateColumnsType
<1>3. b \in Texts /\ c \in Texts /\ e \in Texts
    BY <1>1 DEF Stmt, writeIncrSets, writeDecrSets, writeExprSets
<1>4. v \in Texts
  <2>1. <<"ver">> \in Seq(ColumnNames)
    BY DEF ColumnNames
  <2> QED
    BY <1>1, <2>1, EmptyText DEF writeVersionIncrSet, When
<1>5. writeUpdateSets(s, bean) = IF w = Nothing THEN Fail ELSE w
    BY DEF writeUpdateSets
<1> HIDE DEF a, b, c, e, v
<1>6. w \in Texts
    BY <1>2, <1>3, <1>4, Concat
<1> HIDE DEF w
<1> QED
    BY <1>5, <1>6, FailText

\* A clause of w filters the records by R, and so does the whole text.
Keeps(w, R) == \E i \in DOMAIN w : Filters(w[i]) /\ w[i].rows = R

LEMMA KeepsRows == ASSUME NEW w \in Texts, NEW R, Keeps(w, R) PROVE Range(RowsOf(w)) \subseteq R
BY RowsOfProps DEF Keeps

LEMMA KeepsConcat ==
    ASSUME NEW a \in Texts, NEW b \in Texts, NEW R, Keeps(a, R) \/ Keeps(b, R)
    PROVE  Keeps(a \o b, R)
<1> USE DEF Texts
<1>1. /\ Len(a) \in Nat /\ Len(b) \in Nat
      /\ DOMAIN (a \o b) = 1 .. Len(a) + Len(b)
      /\ DOMAIN a = 1 .. Len(a) /\ DOMAIN b = 1 .. Len(b)
    OBVIOUS
<1>2. \A i \in DOMAIN a : i \in DOMAIN (a \o b) /\ (a \o b)[i] = a[i]
    BY <1>1
<1>3. \A i \in DOMAIN b : Len(a) + i \in DOMAIN (a \o b) /\ (a \o b)[Len(a) + i] = b[i]
    BY <1>1
<1>4. CASE Keeps(a, R)
    BY <1>2, <1>4 DEF Keeps
<1>5. CASE Keeps(b, R)
    BY <1>3, <1>5 DEF Keeps
<1> QED
    BY <1>4, <1>5

LEMMA WhereKeeps == ASSUME NEW c \in Conds, c.valid PROVE Keeps(writeWhereCond(c), c.rows)
<1> DEFINE k == [Clause("WHERE") EXCEPT !.rows = c.rows]
<1>1. k.rows = c.rows /\ k.k = "WHERE"
  <2>1. Clause("WHERE") \in Clauses /\ Clause("WHERE").k = "WHERE" /\ c.rows \subseteq Rows
    BY ClauseType DEF ClauseNames, Conds
  <2> QED
    BY <2>1, RowsClause, Zenon
<1>2. writeWhereCond(c) = <<k>>
    BY DEF writeWhereCond, When
<1> HIDE DEF k
<1>3. DOMAIN <<k>> = {1} /\ <<k>>[1] = k
    OBVIOUS
<1> QED
    BY <1>1, <1>2, <1>3 DEF Keeps, Filters

\* The subqueries of a limit, before and after which the condition stands.
LEMMA LimitedRows ==
    ASSUME NEW a \in Texts, NEW b \in Texts, NEW c \in Conds
    PROVE  LET w == a \o writeWhereCond(c) \o b
           IN  w \in Texts /\ Range(RowsOf(w)) \subseteq c.rows
<1> DEFINE where == writeWhereCond(c)
           aw == a \o where
           w == aw \o b
<1>1. where \in Texts
    BY WhereText
<1>2. c.rows \subseteq Rows /\ (~c.valid => c.rows = Rows)
    BY DEF Conds
<1>3. c.valid => Keeps(where, c.rows)
    BY WhereKeeps
<1> HIDE DEF where
<1>4. aw \in Texts
    BY <1>1, Concat
<1>5. c.valid => Keeps(aw, c.rows)
    BY <1>1, <1>3, KeepsConcat
<1> HIDE DEF aw
<1>6. w \in Texts
    BY <1>4, Concat
<1>7. c.valid => Keeps(w, c.rows)
    BY <1>4, <1>5, KeepsConcat
<1> HIDE DEF w
<1>8. RowsOf(w) \in Seq(Rows)
    BY <1>6, RowsOfProps
<1>9. Range(RowsOf(w)) \subseteq Rows
    BY <1>8 DEF Range
<1>10. Range(RowsOf(w)) \subseteq c.rows
    BY <1>2, <1>6, <1>7, <1>9, KeepsRows
<1> QED
    BY <1>6, <1>10 DEF w, aw, where

LEMMA UpdateLimitText ==
    ASSUME NEW d, NEW s, Stmt(s), NEW c \in Conds
    PROVE  LET w == writeUpdateLimit(d, s, c)
           IN  /\ w \in Texts
               /\ DBType(d) = "mssql" /\ OrderByKey(s) /\ s.LimitN # NoLimit =>
                     WhereRows(w) \subseteq c.rows
<1> DEFINE where == writeWhereCond(c)
           order == writeOrderBys(s)
           cut == Page("LIMIT", 0, s.LimitN)
           page == Page("TOP", 0, s.LimitN)
           limited == where \o order \o cut
           top == page \o where \o order
           R == Range(RowsOf(limited))
           T == Range(RowsOf(top))
           w == writeUpdateLimit(d, s, c)
           sub == SubQuery(c, R, limited)
           tops == SubQuery(NewCond, T, top)
<1>1. where \in Texts /\ order \in Texts
    BY WhereText, OrderText
<1>2. cut \in Texts
    BY PageText DEF Stmt, ClauseNames
<1>3. page \in Texts
    BY PageText DEF Stmt, ClauseNames
<1>4. top \in Texts /\ T \subseteq c.rows
    BY <1>1, <1>3, LimitedRows
<1>5. w = When(s.LimitN # NoLimit,
               CASE DBType(d) = "mysql" -> cut
                 [] DBType(d) \in {"sqlite3", "postgres"} -> sub
                 [] DBType(d) = "mssql" -> When(OrderByKey(s), tops)
                 [] OTHER -> Fail)
    BY DEF writeUpdateLimit
<1> HIDE DEF where, order, cut, top, page, T
<1>6. limited \in Texts
    BY <1>1, <1>2, Concat
<1> HIDE DEF limited
<1>7. R \subseteq Rows
  <2>1. RowsOf(limited) \in Seq(Rows)
    BY <1>6, RowsOfProps
  <2> QED
    BY <2>1 DEF Range
<1> HIDE DEF R, w
<1>8. sub \in Texts
    BY <1>6, <1>7, SubText
<1>9. T \subseteq Rows
    BY <1>4 DEF Conds
<1> HIDE DEF sub
<1>10. tops \in Texts /\ WhereRows(tops) = T
  <2>1. NewCond \in Conds /\ NewCond.lead = {}
    BY CondTypes DEF NewCond
  <2> QED
    BY <1>4, <1>9, <2>1, SubText
<1> HIDE DEF tops
<1>11. Nothing \in Texts /\ Fail \in Texts
    BY EmptyText, FailText
<1>12. \/ w = Nothing \/ w = cut \/ w = sub \/ w = tops \/ w = Fail
    BY <1>5, Zenon DEF When
<1>13. w \in Texts
    BY <1>2, <1>8, <1>10, <1>11, <1>12, Zenon
<1>14. ASSUME DBType(d) = "mssql", OrderByKey(s), s.LimitN # NoLimit PROVE w = tops
  <2>1. (CASE DBType(d) = "mysql" -> cut
           [] DBType(d) \in {"sqlite3", "postgres"} -> sub
           [] DBType(d) = "mssql" -> When(OrderByKey(s), tops)
           [] OTHER -> Fail) = When(OrderByKey(s), tops)
    BY <1>14
  <2> QED
    BY <1>5, <1>14, <2>1 DEF When
<1>15. DBType(d) = "mssql" /\ OrderByKey(s) /\ s.LimitN # NoLimit => WhereRows(w) \subseteq c.rows
    BY <1>4, <1>10, <1>14
<1> QED
    BY <1>13, <1>15 DEF w

LEMMA JoinedCond ==
    ASSUME NEW s, NEW c \in Conds
    PROVE  /\ CondAnd(c, joinConds(s)) \in Conds
           /\ CondAnd(c, joinConds(s)).rows \subseteq c.rows
           /\ CondAnd(c, joinConds(s)).lead = {}
<1> DEFINE v == c.valid \/ s.joins
           r == c.rows
<1>1. /\ v \in BOOLEAN /\ r \in SUBSET Rows /\ (~v => r = Rows)
    BY DEF Conds
<1>2. CondAnd(c, joinConds(s)) = [valid |-> v, rows |-> r \cap Rows, lead |-> {}]
    BY DEF CondAnd, joinConds, NewCond
<1> HIDE DEF v, r
<1>3. /\ [valid |-> v, rows |-> r \cap Rows, lead |-> {}] \in Conds
      /\ r \cap Rows \subseteq r
    BY <1>1 DEF Conds
<1> QED
    BY <1>2, <1>3 DEF r

\* The WHERE clause of an UPDATE has the whole condition, but for SQL Server with an
\* ORDER BY and no limit.
LEMMA UpdateText ==
    ASSUME NEW d, NEW s, Stmt(s), NEW c \in Conds, NEW bean
    PROVE  LET w == WriteUpdate(d, s, c, bean)
           IN  /\ w \in Texts
               /\ \/ DBType(d) = "mssql" /\ OrderByKey(s) /\ s.LimitN = NoLimit
                  \/ WhereRows(w) \subseteq c.rows
<1> DEFINE w == WriteUpdate(d, s, c, bean)
           all == CondAnd(c, joinConds(s))
           All == DBType(d) = "mssql" /\ OrderByKey(s) /\ s.LimitN = NoLimit
           sets == writeUpdateSets(s, bean)
           up == Text("UPDATE")
<1>1. all \in Conds /\ all.rows \subseteq c.rows
    BY JoinedCond
<1>2. sets \in Texts
    BY UpdateSetsType
<1>3. up \in Texts
    BY PlainText DEF ClauseNames
<1>4. Text("FROM") \in Texts
    BY PlainText DEF ClauseNames
<1>5. \A e : writeUpdateFrom(e, s) \in Texts
    BY <1>4, WhenText DEF writeUpdateFrom
<1> HIDE DEF sets, up
<1>6. \/ DBType(d) = "mysql" /\ w = writeUpdateMySQL(d, s, c, bean)
      \/ DBType(d) = "mssql" /\ w = writeUpdateMSSQL(d, s, c, bean)
      \/ DBType(d) \notin {"mysql", "mssql"} /\ w = writeUpdateCommon(d, s, c, bean)
    BY Zenon DEF WriteUpdate
<1> HIDE DEF w
<1>7. CASE DBType(d) = "mysql" /\ w = writeUpdateMySQL(d, s, c, bean)
  <2> DEFINE where == writeWhereCond(c)
             order == writeOrderBys(s)
             limit == writeUpdateLimit(d, s, c)
             x == up \o writeJoins(s) \o sets
             y == x \o where \o order
  <2>1. where \in Texts /\ WhereRows(where) = c.rows /\ order \in Texts
    BY WhereText, OrderText
  <2>2. limit \in Texts
    BY UpdateLimitText
  <2>3. writeJoins(s) \in Texts
    BY SmallWriters DEF Plain
  <2>4. w = y \o limit
    BY <1>7 DEF writeUpdateMySQL, up, sets
  <2>5. x \in Texts
    BY <1>2, <1>3, <2>3, Concat
  <2> HIDE DEF where, order, limit, x
  <2>6. y \in Texts /\ WhereRows(y) \subseteq c.rows
    BY <2>1, <2>5, Concat
  <2> HIDE DEF y
  <2>7. y \o limit \in Texts /\ WhereRows(y \o limit) \subseteq c.rows
    BY <2>2, <2>6, Concat
  <2> QED
    BY <2>4, <2>7 DEF w
<1>8. CASE DBType(d) = "mssql" /\ w = writeUpdateMSSQL(d, s, c, bean)
  <2> HIDE DEF all
  <2> DEFINE where == When(~OrderByKey(s), writeWhereCond(all))
             limit == writeUpdateLimit(d, s, all)
             x == up \o writeUpdateTop(d, s) \o sets
             y == x \o writeUpdateFrom("mssql", s) \o where
  <2>1. /\ where \in Texts
        /\ ~OrderByKey(s) => WhereRows(where) = all.rows
    BY <1>1, WhereText, EmptyText DEF When
  <2>2. /\ limit \in Texts
        /\ OrderByKey(s) /\ s.LimitN # NoLimit => WhereRows(limit) \subseteq all.rows
    BY <1>1, <1>8, UpdateLimitText
  <2>3. writeUpdateTop(d, s) \in Texts
    BY SmallWriters, WhenText DEF Plain, writeUpdateTop
  <2>4. w = y \o limit
    BY <1>8 DEF writeUpdateMSSQL, up, sets, all
  <2>5. x \in Texts
    BY <1>2, <1>3, <2>3, Concat
  <2>6. writeUpdateFrom("mssql", s) \in Texts
    BY <1>5
  <2> HIDE DEF where, limit, x
  <2>7. y \in Texts /\ WhereRows(y) \subseteq WhereRows(where)
    BY <2>1, <2>5, <2>6, Concat
  <2> HIDE DEF y
  <2>8. /\ y \o limit \in Texts
        /\ WhereRows(y \o limit) \subseteq WhereRows(where)
        /\ WhereRows(y \o limit) \subseteq WhereRows(limit)
    BY <2>2, <2>7, Concat
  <2>9. All \/ WhereRows(where) = all.rows \/ WhereRows(limit) \subseteq all.rows
    BY <1>8, <2>1, <2>2
  <2> QED
    BY <1>1, <2>4, <2>8, <2>9 DEF w
<1>9. CASE DBType(d) \notin {"mysql", "mssql"} /\ w = writeUpdateCommon(d, s, c, bean)
  <2> HIDE DEF all
  <2> DEFINE where == writeWhereCond(all)
             limit == writeUpdateLimit(d, s, all)
             x == up \o sets \o writeUpdateFrom(d, s)
             y == x \o where
  <2>1. where \in Texts /\ WhereRows(where) = all.rows
    BY <1>1, WhereText
  <2>2. limit \in Texts
    BY <1>1, UpdateLimitText
  <2>3. writeUpdateFrom(d, s) \in Texts
    BY <1>5
  <2>4. w = y \o limit
    BY <1>9 DEF writeUpdateCommon, up, sets, all
  <2>5. x \in Texts
    BY <1>2, <1>3, <2>3, Concat
  <2> HIDE DEF where, limit, x
  <2>6. y \in Texts /\ WhereRows(y) \subseteq all.rows
    BY <2>1, <2>5, Concat
  <2> HIDE DEF y
  <2>7. y \o limit \in Texts /\ WhereRows(y \o limit) \subseteq all.rows
    BY <2>2, <2>6, Concat
  <2> QED
    BY <1>1, <2>4, <2>7 DEF w
<1> QED
    BY <1>6, <1>7, <1>8, <1>9

LEMMA DeleteText ==
    ASSUME NEW d, NEW s, Stmt(s)
    PROVE  LET w == WriteDelete(d, s) IN w \in Texts /\ WhereRows(w) \subseteq s.cond.rows
<1> DEFINE cut == When(s.LimitN > 0, IF s.Start > 0 THEN Fail ELSE Page("LIMIT", 0, s.LimitN))
           order == writeOrderBys(s) \o cut
           R == Range(RowsOf(order))
           sub == SubQuery(s.cond, R, order)
           tail == writeOrderCond(d, s)
           head == IF s.unscoped \/ ~s.RefTable THEN Text("DELETE")
                   ELSE Text("UPDATE") \o SetClause(<<"deleted">>)
           where == writeWhere(s)
           hw == head \o where
<1>1. Nothing \in Texts /\ Fail \in Texts
    BY EmptyText, FailText
<1>2. Page("LIMIT", 0, s.LimitN) \in Texts
    BY PageText DEF Stmt, ClauseNames
<1>3. cut \in Texts
    BY <1>1, <1>2, Zenon DEF When
<1>4. writeOrderBys(s) \in Texts
    BY OrderText
<1> HIDE DEF cut
<1>5. order \in Texts
    BY <1>3, <1>4, Concat
<1>6. writeDeleteOrder(s) = order
    BY DEF writeDeleteOrder, cut
<1> HIDE DEF order
<1>7. R \subseteq Rows
  <2>1. RowsOf(order) \in Seq(Rows)
    BY <1>5, RowsOfProps
  <2> QED
    BY <2>1 DEF Range
<1> HIDE DEF R
<1>8. sub \in Texts
    BY <1>5, <1>7, SubText DEF Stmt
<1>9. tail = Fail \/ tail = Nothing \/ tail = sub \/ tail = order
    BY <1>6, Zenon DEF writeOrderCond, sub, R
<1> HIDE DEF tail, sub
<1>10. tail \in Texts
    BY <1>1, <1>5, <1>8, <1>9, Zenon
<1>11. head \in Texts
  <2>1. Text("DELETE") \in Texts
    BY PlainText DEF ClauseNames
  <2>2. Text("UPDATE") \in Texts
    BY PlainText DEF ClauseNames
  <2>3. SetClause(<<"deleted">>) \in Texts
    <3>1. SetClause(<<"deleted">>) = List("SET", <<"deleted">>)
      BY DEF SetClause, List
    <3>2. "SET" \in ClauseNames \ {"ERROR"} /\ <<"deleted">> \in Seq(ColumnNames)
      BY DEF ClauseNames, ColumnNames
    <3> QED
      BY <3>1, <3>2, ListText
  <2>4. Text("UPDATE") \o SetClause(<<"deleted">>) \in Texts
    BY <2>2, <2>3, Concat
  <2> QED
    BY <2>1, <2>4, Zenon
<1>12. where \in Texts /\ WhereRows(where) = s.cond.rows
    BY SmallWriters DEF Plain
<1>13. WriteDelete(d, s) = hw \o tail
    BY DEF WriteDelete, tail
<1> HIDE DEF head, where
<1>14. hw \in Texts /\ WhereRows(hw) \subseteq s.cond.rows
    BY <1>11, <1>12, Concat
<1> HIDE DEF hw
<1>15. hw \o tail \in Texts /\ WhereRows(hw \o tail) \subseteq s.cond.rows
    BY <1>10, <1>14, Concat
<1> QED
    BY <1>13, <1>15

\* The condition of an UPDATE: those of the statement, and those of the condition bean.
LEMMA UpdateCondType ==
    ASSUME NEW s, Stmt(s), NEW bean, NEW condiBean
    PROVE  LET c == UpdateCond(s, bean, condiBean)
           IN  /\ c \in Conds /\ c.rows \subseteq s.cond.rows /\ c.lead = {}
               /\ s.RefTable /\ ~s.unscoped /\ ~(condiBean = "struct" /\ s.NoAutoCondition)
                     => c.rows \subseteq Match["deleted"]
<1> DEFINE auto == IF condiBean = "struct"
                   THEN IF s.NoAutoCondition THEN NewCond ELSE BuildConds(s)
                   ELSE IF s.RefTable THEN CondDeleted(s) ELSE NewCond
           ver == IF bean = "struct" /\ s.CheckVersion THEN Eq("ver") ELSE NewCond
           both == CondAnd(s.cond, auto)
<1>1. /\ auto \in Conds
      /\ s.RefTable /\ ~s.unscoped /\ ~(condiBean = "struct" /\ s.NoAutoCondition)
           => auto.rows \subseteq Match["deleted"]
    BY AutoConds, CondTypes
<1>2. ver \in Conds
    BY CondTypes
<1>3. UpdateCond(s, bean, condiBean) = CondAnd(both, ver)
    BY DEF UpdateCond
<1> HIDE DEF auto, ver
<1>4. both \in Conds /\ both.rows = s.cond.rows \cap auto.rows
    BY <1>1, CondAndMeets DEF Stmt
<1> HIDE DEF both
<1>5. /\ CondAnd(both, ver) \in Conds /\ CondAnd(both, ver).rows = both.rows \cap ver.rows
      /\ CondAnd(both, ver).lead = {}
    BY <1>2, <1>4, CondAndMeets
<1> QED
    BY <1>1, <1>3, <1>4, <1>5

-----------------------------------------------------------------------------
(* The invariant: the statement is well formed, and while nothing old is in *)
(* it, it holds exactly the conditions that were asked for.                 *)

Base ==
    /\ dialect \in Dialects
    /\ Stmt(st)
    /\ {autoResetStatement, isAutoClose, isClosed, rowsOpen} \subseteq BOOLEAN
    /\ chained \in 0 .. MaxChain + 1
    /\ asked \in [cond : Conds, id : BOOLEAN, stale : BOOLEAN]
    /\ ~asked.stale => st.cond = asked.cond /\ (asked.id => st.idParam # 0)

\* What holds of the call that has just returned.
Returns == CondsRestrict /\ DeletedHidden /\ CleanAfterCall

CallsInv == Base /\ Returns

\* Nothing has just returned.
LEMMA NoCallReturns == last' = NoCall => Returns'
BY DEF Returns, CondsRestrict, DeletedHidden, CleanAfterCall, Selects, Sent

LEMMA ChainInv ==
    ASSUME Base, NEW call, NEW s, NEW a, Chain(call, s, a), Stmt(s),
           a \in [cond : Conds, id : BOOLEAN, stale : BOOLEAN],
           ~a.stale => s.cond = a.cond /\ (a.id => s.idParam # 0)
    PROVE  CallsInv'
<1>1. /\ st' = s /\ asked' = a /\ last' = NoCall /\ dialect' = dialect
      /\ autoResetStatement' = autoResetStatement /\ isAutoClose' = isAutoClose
      /\ isClosed' = isClosed /\ rowsOpen' = rowsOpen /\ ~rowsOpen
      /\ chained' = chained + 1 /\ chained < MaxChain
    BY DEF Chain, Ready
<1>2. chained' \in 0 .. MaxChain + 1
    BY <1>1, BoundsAssumption DEF Base
<1>3. Base'
    BY <1>1, <1>2 DEF Base
<1> QED
    BY <1>1, <1>3, NoCallReturns DEF CallsInv

\* A call that adds no condition.
LEMMA OptionInv ==
    ASSUME Base, NEW call, NEW s, Option(call, s), Stmt(s), s.cond = st.cond,
           s.idParam = st.idParam
    PROVE  CallsInv'
<1>1. /\ asked \in [cond : Conds, id : BOOLEAN, stale : BOOLEAN]
      /\ ~asked.stale => s.cond = asked.cond /\ (asked.id => s.idParam # 0)
    BY DEF Base
<1> QED
    BY <1>1, ChainInv DEF Option

LEMMA FlagStmt ==
    ASSUME NEW s, Stmt(s),
           NEW f \in {"RefTable", "TableName", "joins", "GroupByStr", "HavingStr", "RawSQL",
                      "UseAutoTime", "NoAutoCondition", "IsDistinct", "IsForUpdate",
                      "CheckVersion", "unscoped", "useAllCols", "LastError"}, NEW b
    PROVE  LET t == [s EXCEPT ![f] = b] IN Stmt(t) /\ t.cond = s.cond /\ t.idParam = s.idParam
BY DEF Stmt, Fields

LEMMA AskInv == ASSUME Base, Where \/ Or \/ ID PROVE CallsInv'
<1>0. Stmt(st) /\ asked \in [cond : Conds, id : BOOLEAN, stale : BOOLEAN] /\ st.cond \in Conds
    BY DEF Base, Stmt
<1>1. Eq("where") \in Conds /\ Eq("or") \in Conds
    BY CondTypes
<1>2. ASSUME NEW c \in Conds, NEW e \in Conds,
             Chain("Where", [st EXCEPT !.cond = c], [asked EXCEPT !.cond = e])
               \/ Chain("Or", [st EXCEPT !.cond = c], [asked EXCEPT !.cond = e]),
             ~asked.stale => c = e
      PROVE  CallsInv'
  <2> DEFINE s == [st EXCEPT !.cond = c]
             a == [asked EXCEPT !.cond = e]
  <2>1. Stmt(s) /\ s.cond = c /\ s.idParam = st.idParam
    BY <1>0 DEF Stmt, Fields
  <2>2. /\ a \in [cond : Conds, id : BOOLEAN, stale : BOOLEAN]
        /\ a.cond = e /\ a.id = asked.id /\ a.stale = asked.stale
    BY <1>0
  <2>3. ~asked.stale /\ asked.id => st.idParam # 0
    BY DEF Base
  <2>4. ~a.stale => s.cond = a.cond /\ (a.id => s.idParam # 0)
    BY <1>2, <2>1, <2>2, <2>3
  <2>5. Chain("Where", s, a) \/ Chain("Or", s, a)
    BY <1>2
  <2> HIDE DEF s, a
  <2> QED
    BY <2>1, <2>2, <2>4, <2>5, ChainInv
<1>3. ASSUME Where PROVE CallsInv'
  <2> DEFINE c == CondAnd(st.cond, Eq("where"))
             e == CondAnd(asked.cond, Eq("where"))
  <2>1. c \in Conds /\ e \in Conds
    BY <1>0, <1>1, CondAndMeets
  <2>2. ~asked.stale => c = e
    BY DEF Base
  <2>3. Chain("Where", [st EXCEPT !.cond = c], [asked EXCEPT !.cond = e])
    BY <1>3 DEF Where
  <2> HIDE DEF c, e
  <2> QED
    BY <1>2, <2>1, <2>2, <2>3
<1>4. ASSUME Or PROVE CallsInv'
  <2> DEFINE c == CondOr(st.cond, Eq("or"))
             e == CondOr(asked.cond, Eq("or"))
  <2>1. c \in Conds /\ e \in Conds
    BY <1>0, <1>1, CondOrType
  <2>2. ~asked.stale => c = e
    BY DEF Base
  <2>3. Chain("Or", [st EXCEPT !.cond = c], [asked EXCEPT !.cond = e])
    BY <1>4 DEF Or
  <2> HIDE DEF c, e
  <2> QED
    BY <1>2, <2>1, <2>2, <2>3
<1>5. ASSUME ID PROVE CallsInv'
  <2>1. PICK n \in 1 .. 2 : Chain("ID", [st EXCEPT !.idParam = n], [asked EXCEPT !.id = TRUE])
    BY <1>5 DEF ID
  <2> DEFINE s == [st EXCEPT !.idParam = n]
             a == [asked EXCEPT !.id = TRUE]
  <2>2. Stmt(s) /\ s.cond = st.cond /\ s.idParam = n
    BY <1>0 DEF Stmt, Fields
  <2>3. /\ a \in [cond : Conds, id : BOOLEAN, stale : BOOLEAN]
        /\ a.cond = asked.cond /\ a.stale = asked.stale
    BY <1>0
  <2>4. ~a.stale => s.cond = a.cond /\ (a.id => s.idParam # 0)
    BY <2>2, <2>3 DEF Base
  <2> HIDE DEF s, a
  <2> QED
    BY <2>1, <2>2, <2>3, <2>4, ChainInv DEF s, a
<1> QED
    BY <1>3, <1>4, <1>5

\* The fields that are no flags.
LEMMA FieldStmt ==
    ASSUME NEW s, Stmt(s)
    PROVE  /\ \A n, start \in Nat : Stmt([s EXCEPT !.LimitN = n, !.Start = start])
           /\ \A n \in Nat : Stmt([s EXCEPT !.BufferSize = n])
           /\ \A o \in {"asc", "desc"} : Stmt([s EXCEPT !.orderBy = Append(@, o)])
           /\ \A h \in {"use", "bad"} : Stmt([s EXCEPT !.indexHints = Append(@, h)])
           /\ \A c \in ColumnNames : /\ Stmt([s EXCEPT !.ColumnMap = @ \cup {c}])
                                     /\ Stmt([s EXCEPT !.OmitColumnMap = @ \cup {c}])
           /\ \A cs \in Seq(ColumnNames) : /\ Stmt([s EXCEPT !.IncrColumns = cs])
                                           /\ Stmt([s EXCEPT !.DecrColumns = cs])
                                           /\ Stmt([s EXCEPT !.ExprColumns = cs])
<1>1. ASSUME NEW n \in Nat, NEW start \in Nat PROVE Stmt([s EXCEPT !.LimitN = n, !.Start = start])
    BY DEF Stmt, Fields
<1>2. ASSUME NEW n \in Nat PROVE Stmt([s EXCEPT !.BufferSize = n])
    BY DEF Stmt, Fields
<1>3. ASSUME NEW o \in {"asc", "desc"} PROVE Stmt([s EXCEPT !.orderBy = Append(@, o)])
  <2> DEFINE t == Append(s.orderBy, o)
  <2>1. t \in Seq({"asc", "desc"})
    BY DEF Stmt
  <2> HIDE DEF t
  <2>2. Stmt([s EXCEPT !.orderBy = t])
    BY <2>1 DEF Stmt, Fields
  <2> QED
    BY <2>2 DEF t
<1>4. ASSUME NEW h \in {"use", "bad"} PROVE Stmt([s EXCEPT !.indexHints = Append(@, h)])
  <2> DEFINE t == Append(s.indexHints, h)
  <2>1. t \in Seq({"use", "bad"})
    BY DEF Stmt
  <2> HIDE DEF t
  <2>2. Stmt([s EXCEPT !.indexHints = t])
    BY <2>1 DEF Stmt, Fields
  <2> QED
    BY <2>2 DEF t
<1>5. ASSUME NEW c \in ColumnNames
      PROVE  Stmt([s EXCEPT !.ColumnMap = @ \cup {c}]) /\ Stmt([s EXCEPT !.OmitColumnMap = @ \cup {c}])
    BY DEF Stmt, Fields
<1>6. ASSUME NEW cs \in Seq(ColumnNames)
      PROVE  /\ Stmt([s EXCEPT !.IncrColumns = cs]) /\ Stmt([s EXCEPT !.DecrColumns = cs])
             /\ Stmt([s EXCEPT !.ExprColumns = cs])
    BY DEF Stmt, Fields
<1> QED
    BY <1>1, <1>2, <1>3, <1>4, <1>5, <1>6

\* None of them touches the conditions.
LEMMA FieldKeeps ==
    ASSUME NEW s, DOMAIN s = Fields, NEW f \in Fields \ {"cond", "idParam"}, NEW v
    PROVE  [s EXCEPT ![f] = v].cond = s.cond /\ [s EXCEPT ![f] = v].idParam = s.idParam
BY DEF Fields

LEMMA FlagInv ==
    ASSUME Base,
           BadWhere \/ Join \/ GroupBy \/ Having \/ SQL \/ AllCols \/ ForUpdate \/ Unscoped
             \/ NoAutoCondition \/ NoVersionCheck \/ NoAutoTime
    PROVE  CallsInv'
<1>0. Stmt(st)
    BY DEF Base
<1>1. ASSUME NEW call, NEW f \in {"joins", "GroupByStr", "HavingStr", "RawSQL", "UseAutoTime",
                                  "NoAutoCondition", "IsForUpdate", "CheckVersion", "unscoped",
                                  "useAllCols", "LastError"},
             NEW b, Option(call, [st EXCEPT ![f] = b])
      PROVE  CallsInv'
  <2> DEFINE t == [st EXCEPT ![f] = b]
  <2>1. Stmt(t) /\ t.cond = st.cond /\ t.idParam = st.idParam
    BY <1>0, FlagStmt
  <2> HIDE DEF t
  <2> QED
    BY <1>1, <2>1, OptionInv DEF t
<1>2. ASSUME BadWhere PROVE CallsInv'
    BY <1>1, <1>2 DEF BadWhere
<1>3. ASSUME Join PROVE CallsInv'
    BY <1>1, <1>3 DEF Join
<1>4. ASSUME GroupBy PROVE CallsInv'
    BY <1>1, <1>4 DEF GroupBy
<1>5. ASSUME Having PROVE CallsInv'
    BY <1>1, <1>5 DEF Having
<1>6. ASSUME SQL PROVE CallsInv'
    BY <1>1, <1>6 DEF SQL
<1>7. ASSUME AllCols PROVE CallsInv'
    BY <1>1, <1>7 DEF AllCols
<1>8. ASSUME ForUpdate PROVE CallsInv'
    BY <1>1, <1>8 DEF ForUpdate
<1>9. ASSUME Unscoped PROVE CallsInv'
    BY <1>1, <1>9 DEF Unscoped
<1>10. ASSUME NoAutoCondition PROVE CallsInv'
    BY <1>1, <1>10 DEF NoAutoCondition
<1>11. ASSUME NoVersionCheck PROVE CallsInv'
    BY <1>1, <1>11 DEF NoVersionCheck
<1>12. ASSUME NoAutoTime PROVE CallsInv'
    BY <1>1, <1>12 DEF NoAutoTime
<1> QED
    BY <1>2, <1>3, <1>4, <1>5, <1>6, <1>7, <1>8, <1>9, <1>10, <1>11, <1>12

LEMMA FieldInv ==
    ASSUME Base,
           Table \/ Limit \/ OrderBy \/ Cols \/ Distinct \/ Omit \/ Incr \/ Decr \/ SetExpr
             \/ BufferSize \/ IndexHint
    PROVE  CallsInv'
<1>0. Stmt(st) /\ DOMAIN st = Fields
    BY DEF Base, Stmt
<1>1. ASSUME Table PROVE CallsInv'
  <2>1. PICK struct \in BOOLEAN :
            Option("Table", [st EXCEPT !.TableName = TRUE, !.RefTable = @ \/ struct])
    BY <1>1 DEF Table
  <2> DEFINE t == [st EXCEPT !.TableName = TRUE, !.RefTable = @ \/ struct]
  <2>2. Stmt(t) /\ t.cond = st.cond /\ t.idParam = st.idParam
    BY <1>0 DEF Stmt, Fields
  <2> HIDE DEF t
  <2> QED
    BY <2>1, <2>2, OptionInv DEF t
<1>2. ASSUME Limit PROVE CallsInv'
  <2>1. PICK n \in {0, 2}, start \in {0, 2} :
            Option("Limit", [st EXCEPT !.LimitN = n, !.Start = start])
    BY <1>2 DEF Limit
  <2> DEFINE t == [st EXCEPT !.LimitN = n, !.Start = start]
  <2>2. Stmt(t)
    BY <1>0, FieldStmt
  <2>3. t.cond = st.cond /\ t.idParam = st.idParam
    BY <1>0 DEF Fields
  <2> HIDE DEF t
  <2> QED
    BY <2>1, <2>2, <2>3, OptionInv DEF t
<1>3. ASSUME OrderBy PROVE CallsInv'
  <2>1. PICK order \in {"asc", "desc"} :
            Option("OrderBy", [st EXCEPT !.orderBy = Append(@, order)])
    BY <1>3 DEF OrderBy
  <2> DEFINE t == [st EXCEPT !.orderBy = Append(@, order)]
  <2>2. Stmt(t) /\ t.cond = st.cond /\ t.idParam = st.idParam
    BY <1>0, FieldStmt, FieldKeeps DEF Fields
  <2> HIDE DEF t
  <2> QED
    BY <2>1, <2>2, OptionInv DEF t
<1>4. ASSUME Cols PROVE CallsInv'
  <2>1. PICK c \in {"e", "updated", "ver"} :
            Option("Cols", [st EXCEPT !.ColumnMap = @ \cup {c}])
    BY <1>4 DEF Cols
  <2> DEFINE t == [st EXCEPT !.ColumnMap = @ \cup {c}]
  <2>2. c \in ColumnNames
    BY DEF ColumnNames
  <2>3. Stmt(t) /\ t.cond = st.cond /\ t.idParam = st.idParam
    BY <1>0, <2>2, FieldStmt, FieldKeeps DEF Fields
  <2> HIDE DEF t
  <2> QED
    BY <2>1, <2>3, OptionInv DEF t
<1>5. ASSUME Distinct PROVE CallsInv'
  <2> DEFINE t == [st EXCEPT !.IsDistinct = TRUE, !.ColumnMap = @ \cup {"a"}]
  <2>1. Stmt(t) /\ t.cond = st.cond /\ t.idParam = st.idParam
    BY <1>0 DEF Stmt, Fields, ColumnNames
  <2>2. Option("Distinct", t)
    BY <1>5 DEF Distinct
  <2> HIDE DEF t
  <2> QED
    BY <2>1, <2>2, OptionInv
<1>6. ASSUME Omit PROVE CallsInv'
  <2>1. PICK c \in {"a", "ver"} :
            Option("Omit", [st EXCEPT !.OmitColumnMap = @ \cup {c}])
    BY <1>6 DEF Omit
  <2> DEFINE t == [st EXCEPT !.OmitColumnMap = @ \cup {c}]
  <2>2. c \in ColumnNames
    BY DEF ColumnNames
  <2>3. Stmt(t) /\ t.cond = st.cond /\ t.idParam = st.idParam
    BY <1>0, <2>2, FieldStmt, FieldKeeps DEF Fields
  <2> HIDE DEF t
  <2> QED
    BY <2>1, <2>3, OptionInv DEF t
<1>7. ASSUME NEW call, NEW f \in {"IncrColumns", "DecrColumns", "ExprColumns"},
             NEW c \in ColumnNames, Option(call, [st EXCEPT ![f] = Append(@, c)])
      PROVE  CallsInv'
  <2> DEFINE cs == Append(st[f], c)
             t == [st EXCEPT ![f] = cs]
  <2>1. cs \in Seq(ColumnNames)
    BY <1>0 DEF Stmt
  <2>2. Option(call, t)
    BY <1>7
  <2> HIDE DEF cs
  <2>3. Stmt(t)
    BY <1>0, <2>1, FieldStmt
  <2>4. t.cond = st.cond /\ t.idParam = st.idParam
    BY <1>0, FieldKeeps DEF Fields
  <2> HIDE DEF t
  <2> QED
    BY <2>2, <2>3, <2>4, OptionInv
<1>8. ASSUME Incr PROVE CallsInv'
  <2>1. PICK c \in {"a", "b"} :
            Option("Incr", [st EXCEPT !.IncrColumns = Append(@, c)])
    BY <1>8 DEF Incr
  <2>2. c \in ColumnNames
    BY DEF ColumnNames
  <2> QED
    BY <1>7, <2>1, <2>2
<1>9. ASSUME Decr PROVE CallsInv'
  <2>1. PICK c \in {"a", "b"} :
            Option("Decr", [st EXCEPT !.DecrColumns = Append(@, c)])
    BY <1>9 DEF Decr
  <2>2. c \in ColumnNames
    BY DEF ColumnNames
  <2> QED
    BY <1>7, <2>1, <2>2
<1>10. ASSUME SetExpr PROVE CallsInv'
  <2>1. PICK c \in {"a", "e", "updated", "ver"} :
            Option("SetExpr", [st EXCEPT !.ExprColumns = Append(@, c)])
    BY <1>10 DEF SetExpr
  <2>2. c \in ColumnNames
    BY DEF ColumnNames
  <2> QED
    BY <1>7, <2>1, <2>2
<1>11. ASSUME BufferSize PROVE CallsInv'
  <2>1. PICK n \in {1, 2, RowCount + 1} : Option("BufferSize", [st EXCEPT !.BufferSize = n])
    BY <1>11 DEF BufferSize
  <2> DEFINE t == [st EXCEPT !.BufferSize = n]
  <2>3. n \in Nat
    BY RowsAssumption
  <2>2. Stmt(t) /\ t.cond = st.cond /\ t.idParam = st.idParam
    BY <1>0, <2>3 DEF Stmt, Fields
  <2> HIDE DEF t
  <2> QED
    BY <2>1, <2>2, OptionInv DEF t
<1>12. ASSUME IndexHint PROVE CallsInv'
  <2>1. PICK h \in {"use", "bad"} :
            Option("IndexHint", [st EXCEPT !.indexHints = Append(@, h)])
    BY <1>12 DEF IndexHint
  <2> DEFINE t == [st EXCEPT !.indexHints = Append(@, h)]
  <2>2. Stmt(t) /\ t.cond = st.cond /\ t.idParam = st.idParam
    BY <1>0, FieldStmt, FieldKeeps DEF Fields
  <2> HIDE DEF t
  <2> QED
    BY <2>1, <2>2, OptionInv DEF t
<1> QED
    BY <1>1, <1>2, <1>3, <1>4, <1>5, <1>6, <1>8, <1>9, <1>10, <1>11, <1>12

LEMMA ChainedInv == ASSUME Base, ChainedCall PROVE CallsInv'
BY AskInv, FlagInv, FieldInv DEF ChainedCall

-----------------------------------------------------------------------------
(* Database calls.                                                          *)

Unlooked(op, bean, o) ==
    \/ op \in {"Count", "Delete"} /\ bean = "none"
    \/ op = "Exist" /\ ~o.st.RefTable

\* What the text of a call may touch: no more than the statement before the call allows.
Safe(op, bean, o) ==
    /\ From(o.st, st)
    /\ op \in Reads \cup {"Update", "Delete"} /\ Generated(o) /\ o.w # Nothing =>
          \/ /\ op = "Update" /\ DBType(dialect) = "mssql" /\ o.st.orderBy # <<>>
             /\ o.st.RefTable /\ o.st.LimitN = NoLimit
          \/ /\ WhereRows(o.w) \subseteq st.cond.rows
             /\ st.idParam # 0 => \/ op \in {"Find", "FindAndCount", "Rows", "Iterate"}
                                  \/ Unlooked(op, bean, o)
                                  \/ WhereRows(o.w) \subseteq Match["id"]
             /\ o.st.RefTable /\ ~o.st.unscoped =>
                   \/ op = "Query" \/ Unlooked(op, bean, o)
                   \/ op = "Update" /\ bean[2] = "struct" /\ o.st.NoAutoCondition
                   \/ WhereRows(o.w) \subseteq Match["deleted"]

\* A query with the conditions of its statement.
LEMMA ResultSafe ==
    ASSUME NEW op, NEW bean, NEW o, Result(o, st),
           ByID(o) \/ Unlooked(op, bean, o) \/ op \in {"Find", "FindAndCount", "Rows", "Iterate"},
           Hides(o) \/ Unlooked(op, bean, o) \/ op = "Query"
    PROVE  Safe(op, bean, o)
<1>1. From(o.st, st) /\ o.st.cond.rows \subseteq st.cond.rows /\ o.st.idParam = st.idParam
    BY DEF Result, From
<1>2. Generated(o) => WhereRows(o.w) \subseteq o.st.cond.rows
    BY DEF Result
<1> QED
    BY <1>1, <1>2 DEF Safe, ByID, Hides

LEMMA RefusedSafe ==
    ASSUME NEW op, NEW bean, NEW s, From(s, st)
    PROVE  Safe(op, bean, Refused(s)) /\ Safe(op, bean, [w |-> Fail, st |-> s])
<1>1. Result(Refused(s), st) /\ ~Generated(Refused(s)) /\ Refused(s) = [w |-> Fail, st |-> s]
    BY RefusedResult DEF Refused
<1> QED
    BY <1>1, ResultSafe DEF Hides, ByID

\* last records the call.
Recorded(op, bean, o, res) ==
    last' = [op |-> op, bean |-> bean, before |-> st, asked |-> asked, w |-> o.w,
             st |-> o.st, err |-> Failed(o.w), res |-> res]

LEMMA RecordedSafe ==
    ASSUME Base, NEW op, NEW bean, NEW o, NEW res, Safe(op, bean, o),
           Recorded(op, bean, o, res), dialect' = dialect
    PROVE  CondsRestrict' /\ DeletedHidden'
<1>1. /\ last'.op = op /\ last'.bean = bean /\ last'.asked = asked /\ last'.w = o.w
      /\ last'.st = o.st /\ last'.err = Failed(o.w)
    BY DEF Recorded
<1>2. Selects' => /\ op \in Reads \cup {"Update", "Delete"} /\ Generated(o) /\ o.w # Nothing
                  /\ ~asked.stale
    BY <1>1 DEF Selects, Sent, Generated
<1>3. ~asked.stale => st.cond = asked.cond /\ (asked.id => st.idParam # 0)
    BY DEF Base
<1>4. NoBean' <=> Unlooked(op, bean, o)
    BY <1>1 DEF NoBean, Unlooked
<1>5. UpdatesAll' <=> /\ op = "Update" /\ DBType(dialect) = "mssql" /\ o.st.orderBy # <<>>
                      /\ o.st.RefTable /\ o.st.LimitN = NoLimit
    BY <1>1 DEF UpdatesAll, DBType
<1>6. CondsRestrict'
  <2>1. IgnoresID' <=> op \in {"Find", "FindAndCount", "Rows", "Iterate"} \/ Unlooked(op, bean, o)
    BY <1>1, <1>4 DEF IgnoresID
  <2>2. WhereRows(last.w)' = WhereRows(o.w)
    BY <1>1 DEF WhereRows
  <2>3. ASSUME Selects', ~UpdatesAll'
        PROVE  /\ WhereRows(o.w) \subseteq asked.cond.rows
               /\ asked.id /\ ~IgnoresID' => WhereRows(o.w) \subseteq Match["id"]
    BY <1>2, <1>3, <1>5, <2>1, <2>3 DEF Safe
  <2> QED
    BY <1>1, <2>2, <2>3 DEF CondsRestrict
<1>7. DeletedHidden'
  <2>1. SeesDeleted' <=> \/ UpdatesAll' \/ Unlooked(op, bean, o) \/ op = "Query"
                         \/ op = "Update" /\ bean[2] = "struct" /\ o.st.NoAutoCondition
    BY <1>1, <1>4 DEF SeesDeleted
  <2>2. WhereRows(last.w)' = WhereRows(o.w)
    BY <1>1 DEF WhereRows
  <2>3. ASSUME Selects', o.st.RefTable, ~o.st.unscoped, ~SeesDeleted'
        PROVE  WhereRows(o.w) \subseteq Match["deleted"]
    BY <1>2, <1>5, <2>1, <2>3 DEF Safe
  <2> QED
    BY <1>1, <2>2, <2>3 DEF DeletedHidden
<1> QED
    BY <1>6, <1>7

\* The statement after a call, and what is known of it.
LEMMA AfterCall ==
    ASSUME NEW s, Stmt(s), NEW b,
           st' = IF b THEN Reset(s) ELSE s,
           asked' = NothingAsked(st' # Fresh),
           chained \in 0 .. MaxChain + 1, chained <= MaxChain,
           chained' = IF st' = Fresh THEN 0 ELSE chained + 1
    PROVE  /\ Stmt(st)' /\ asked' \in [cond : Conds, id : BOOLEAN, stale : BOOLEAN]
           /\ ~asked'.stale => st'.cond = asked'.cond /\ (asked'.id => st'.idParam # 0)
           /\ asked'.cond = NewCond /\ asked'.id = FALSE
           /\ chained' \in 0 .. MaxChain + 1
           /\ b => [st' EXCEPT !.indexHints = <<>>] = Fresh
<1>1. s.indexHints \in Seq({"use", "bad"})
    BY DEF Stmt
<1>2. /\ Stmt(Reset(s)) /\ [Reset(s) EXCEPT !.indexHints = <<>>] = Fresh
    BY <1>1, ResetStmt
<1>3. Stmt(st')
    BY <1>2
<1>4. Stmt(st)'
    BY <1>3 DEF Stmt
<1>5. /\ asked'.cond = NewCond /\ asked'.id = FALSE /\ asked'.stale = (st' # Fresh)
      /\ asked' \in [cond : Conds, id : BOOLEAN, stale : BOOLEAN]
    BY CondTypes DEF NothingAsked
<1>6. Fresh.cond = NewCond
    BY DEF Fresh
<1>7. chained' \in 0 .. MaxChain + 1
    BY BoundsAssumption
<1> QED
    BY <1>2, <1>4, <1>5, <1>6, <1>7

\* A call that returns keeps the invariant, if its text is safe and it resets the
\* statement or is one of those that do not when they fail.
LEMMA ReturnInv ==
    ASSUME Base, NEW op, NEW bean, NEW o, NEW resets, NEW auto \in BOOLEAN, NEW res,
           Return(op, bean, o, resets, auto, res), Safe(op, bean, o),
           resets \/ (Failed(o.w) /\ op \in KeepsStatement)
    PROVE  CallsInv'
<1>1. /\ ~rowsOpen /\ chained <= MaxChain
      /\ autoResetStatement' = auto /\ isClosed' = isAutoClose
      /\ dialect' = dialect /\ isAutoClose' = isAutoClose /\ rowsOpen' = rowsOpen
      /\ st' = IF resets /\ auto THEN Reset(o.st) ELSE o.st
      /\ asked' = NothingAsked(st' # Fresh)
      /\ chained' = IF st' = Fresh THEN 0 ELSE chained + 1
      /\ Recorded(op, bean, o, res)
    BY DEF Return, Ready, Recorded
<1>2. Stmt(o.st) /\ chained \in 0 .. MaxChain + 1
    BY DEF Safe, From, Base
<1>3. /\ Stmt(st)' /\ asked' \in [cond : Conds, id : BOOLEAN, stale : BOOLEAN]
      /\ ~asked'.stale => st'.cond = asked'.cond /\ (asked'.id => st'.idParam # 0)
      /\ chained' \in 0 .. MaxChain + 1
      /\ resets /\ auto => [st' EXCEPT !.indexHints = <<>>] = Fresh
  <2> DEFINE b == resets /\ auto
  <2>1. st' = IF b THEN Reset(o.st) ELSE o.st
    BY <1>1
  <2> HIDE DEF b
  <2>2. /\ Stmt(st)' /\ asked' \in [cond : Conds, id : BOOLEAN, stale : BOOLEAN]
        /\ ~asked'.stale => st'.cond = asked'.cond /\ (asked'.id => st'.idParam # 0)
        /\ chained' \in 0 .. MaxChain + 1
        /\ b => [st' EXCEPT !.indexHints = <<>>] = Fresh
    BY <1>1, <1>2, <2>1, AfterCall
  <2> QED
    BY <2>2 DEF b
<1>4. Base'
    BY <1>1, <1>3 DEF Base
<1>5. CondsRestrict' /\ DeletedHidden'
    BY <1>1, RecordedSafe
<1>6. last'.op = op /\ last'.err = Failed(o.w)
    BY <1>1 DEF Recorded
<1>7. CleanAfterCall'
    BY <1>1, <1>3, <1>6 DEF CleanAfterCall
<1> QED
    BY <1>4, <1>5, <1>7 DEF CallsInv, Returns

LEMMA CallInv ==
    ASSUME Base, NEW op, NEW bean, NEW o, NEW resets, Call(op, bean, o, resets),
           Safe(op, bean, o), resets \/ (Failed(o.w) /\ op \in KeepsStatement)
    PROVE  CallsInv'
<1>1. autoResetStatement \in BOOLEAN
    BY DEF Base
<1> DEFINE auto == autoResetStatement
           res == 0
<1>2. auto \in BOOLEAN /\ Return(op, bean, o, resets, auto, res)
    BY <1>1 DEF Call
<1> HIDE DEF auto, res
<1> QED
    BY <1>2, ReturnInv

LEMMA GetInv == ASSUME Base, Get PROVE CallsInv'
<1>0. Stmt(st) /\ From(st, st)
    BY RefBeanFrom DEF Base
<1>1. PICK bean \in {"struct", "other", "bad"} :
        LET s == IF bean = "struct" THEN SetRefBean(st) ELSE st
        IN  Call("Get", bean,
                 IF st.LastError THEN Refused(st)
                 ELSE Parsed(bean, IF s.RawSQL THEN Raw(s)
                                   ELSE IF ~s.TableName THEN Refused(s)
                                   ELSE GenGetSQL(dialect, [s EXCEPT !.LimitN = 1], bean)),
                 TRUE)
    BY DEF Get
<1> DEFINE s == IF bean = "struct" THEN SetRefBean(st) ELSE st
           l == [s EXCEPT !.LimitN = 1]
           g == GenGetSQL(dialect, l, bean)
           o == IF st.LastError THEN Refused(st)
                ELSE Parsed(bean, IF s.RawSQL THEN Raw(s) ELSE IF ~s.TableName THEN Refused(s)
                                  ELSE g)
           resets == TRUE
<1>2. Stmt(s) /\ From(s, st)
    BY <1>0, RefBeanStmt, RefBeanFrom
<1>3. o = Refused(st) \/ o = Raw(s) \/ o = Refused(s) \/ o = g
    BY DEF Parsed
<1>4. Call("Get", bean, o, resets)
    BY <1>1
<1> HIDE DEF s
<1>5. Stmt(l) /\ From(l, s)
    BY <1>2, LimitStmt
<1> HIDE DEF l
<1>6. Result(g, l) /\ Hides(g) /\ ByID(g)
    BY <1>5, GetResult
<1> HIDE DEF g, o
<1>7. Result(g, st)
    BY <1>2, <1>5, <1>6, FromTrans, ResultFrom
<1>8. Safe("Get", bean, g) /\ Safe("Get", bean, Refused(st)) /\ Safe("Get", bean, Refused(s))
    BY <1>0, <1>2, <1>6, <1>7, ResultSafe, RefusedSafe
<1>9. Safe("Get", bean, Raw(s))
    BY <1>2, RawResult, ResultSafe DEF Hides, ByID
<1>10. Safe("Get", bean, o)
    BY <1>3, <1>8, <1>9
<1>11. resets
    OBVIOUS
<1> HIDE DEF resets
<1> QED
    BY <1>4, <1>10, <1>11, CallInv

LEMMA FindInv == ASSUME Base, Find PROVE CallsInv'
<1>0. Stmt(st)
    BY DEF Base
<1>1. PICK bean \in {"struct", "none"}, dest \in {"struct", "other"} :
        Call("Find", bean, find(FindStatement(dest), bean), TRUE)
    BY DEF Find
<1> DEFINE s == FindStatement(dest)
           o == find(s, bean)
           resets == TRUE
<1>2. Stmt(s) /\ From(s, st)
    BY <1>0, FindStmt
<1> HIDE DEF s
<1>3. Result(o, s) /\ Hides(o)
    BY <1>2, findResult
<1>4. Result(o, st)
    BY <1>2, <1>3, ResultFrom
<1>5. Call("Find", bean, o, resets) /\ resets
    BY <1>1 DEF s
<1> HIDE DEF o, resets
<1>6. Safe("Find", bean, o)
    BY <1>3, <1>4, ResultSafe
<1> QED
    BY <1>5, <1>6, CallInv

\* Of the count, too: an error of a chained call comes after the text.
LEMMA CountQueryResult ==
    ASSUME NEW s, Stmt(s), NEW bean
    PROVE  LET o == CountQuery(s, bean)
           IN  /\ Result(o, s)
               /\ bean = "struct" => Hides(o) /\ ByID(o)
               /\ o.sent \/ Failed(o.w)
               /\ o.st = GenCountSQL(dialect, s, bean).st
               /\ Failed(o.w) \/ o.w = GenCountSQL(dialect, s, bean).w
               /\ ~Failed(GenCountSQL(dialect, s, bean).w) => o.sent
<1> DEFINE g == GenCountSQL(dialect, s, bean)
           o == CountQuery(s, bean)
<1>1. Result(g, s) /\ (bean = "struct" => Hides(g) /\ ByID(g))
    BY CountResult
<1>2. o = IF s.LastError /\ ~Failed(g.w) THEN [w |-> Fail, st |-> g.st, sent |-> TRUE]
          ELSE [w |-> g.w, st |-> g.st, sent |-> ~Failed(g.w)]
    BY DEF CountQuery
<1> HIDE DEF g, o
<1>3. /\ o.st = g.st /\ (o.w = Fail \/ o.w = g.w)
      /\ o.sent \/ (Failed(g.w) /\ o.w = g.w)
      /\ ~Failed(g.w) => o.sent
  <2>1. CASE s.LastError /\ ~Failed(g.w)
    BY <1>2, <2>1
  <2>2. CASE ~(s.LastError /\ ~Failed(g.w))
    BY <1>2, <2>2
  <2> QED
    BY <2>1, <2>2
<1>4. Failed(Fail) /\ Fail \in Texts
    BY FailText
<1>5. Generated(o) => Generated(g) /\ o.w = g.w
    BY <1>3, <1>4 DEF Generated
<1>6. Result(o, s)
    BY <1>1, <1>3, <1>4, <1>5 DEF Result
<1>7. bean = "struct" => Hides(o) /\ ByID(o)
    BY <1>1, <1>3, <1>5 DEF Hides, ByID
<1> QED
    BY <1>3, <1>4, <1>6, <1>7 DEF o, g

LEMMA CountInv == ASSUME Base, Count PROVE CallsInv'
<1>0. Stmt(st) /\ From(st, st)
    BY RefBeanFrom DEF Base
<1>1. PICK bean \in {"struct", "none", "bad"} :
        LET out == IF bean = "bad" /\ ~st.RawSQL
                   THEN [w |-> Fail, st |-> st, sent |-> FALSE] ELSE CountQuery(st, bean)
        IN  Call("Count", bean, out, out.sent)
    BY DEF Count
<1> DEFINE bad == [w |-> Fail, st |-> st, sent |-> FALSE]
           q == CountQuery(st, bean)
           o == IF bean = "bad" /\ ~st.RawSQL THEN bad ELSE q
<1>2. Call("Count", bean, o, o.sent)
    BY <1>1
<1>3. /\ Result(q, st)
      /\ bean = "struct" => Hides(q) /\ ByID(q)
      /\ q.sent \/ Failed(q.w)
      /\ Failed(q.w) \/ q.w = GenCountSQL(dialect, st, bean).w
    BY <1>0, CountQueryResult
<1>4. st.RawSQL /\ bean = "bad" => ~Generated(q)
  <2>1. st.RawSQL => GenCountSQL(dialect, st, bean).w = Text("RAW")
    BY DEF GenCountSQL, Raw
  <2> QED
    BY <1>3, <2>1 DEF Generated
<1>5. bad.w = Fail /\ bad.st = st
    OBVIOUS
<1>6. o = bad \/ (o = q /\ (bean = "bad" => st.RawSQL))
    OBVIOUS
<1> HIDE DEF q, bad, o
<1>7. Result(bad, st) /\ ~Generated(bad) /\ Failed(bad.w)
    BY <1>0, <1>5, FailText DEF Result, Generated
<1>8. Safe("Count", bean, bad)
    BY <1>7, ResultSafe DEF Hides, ByID
<1>9. CASE bean = "none"
  <2>1. Unlooked("Count", bean, q)
    BY <1>9 DEF Unlooked
  <2>2. Safe("Count", bean, q)
    BY <1>3, <2>1, ResultSafe
  <2> QED
    BY <1>2, <1>3, <1>6, <1>7, <1>8, <2>2, CallInv DEF KeepsStatement
<1>10. CASE bean # "none"
  <2>1. o = q => Hides(q) /\ ByID(q)
    BY <1>3, <1>4, <1>6, <1>7, <1>10 DEF Hides, ByID
  <2>2. o = q => Safe("Count", bean, q)
    BY <1>3, <2>1, ResultSafe
  <2> QED
    BY <1>2, <1>3, <1>6, <1>7, <1>8, <2>2, CallInv DEF KeepsStatement
<1> QED
    BY <1>9, <1>10

\* An error of a chained call that queryRows looks at after the text was generated.
LEMMA LateError ==
    ASSUME NEW g, Result(g, st)
    PROVE  LET o == IF st.LastError THEN Refused(g.st) ELSE g
           IN  /\ Result(o, st) /\ (Hides(g) => Hides(o)) /\ (ByID(g) => ByID(o))
               /\ ~Failed(g.w) \/ Failed(o.w)
<1>1. From(g.st, st)
    BY DEF Result
<1>2. /\ Result(Refused(g.st), st) /\ ~Generated(Refused(g.st)) /\ Failed(Refused(g.st).w)
    BY <1>1, RefusedResult
<1>3. CASE st.LastError
    BY <1>2, <1>3 DEF Hides, ByID
<1>4. CASE ~st.LastError
    BY <1>4
<1> QED
    BY <1>3, <1>4

LEMMA SumInv == ASSUME Base, Sum PROVE CallsInv'
<1>0. Stmt(st) /\ From(st, st)
    BY RefBeanFrom DEF Base
<1>1. PICK bean \in {"struct", "bad"} :
        LET gen == IF bean = "bad" /\ ~st.RawSQL THEN Refused(st) ELSE GenSumSQL(dialect, st)
            out == IF st.LastError THEN Refused(gen.st) ELSE gen
        IN  Call("Sum", bean, out, ~Failed(gen.w))
    BY DEF Sum
<1> DEFINE g == IF bean = "bad" /\ ~st.RawSQL THEN Refused(st) ELSE GenSumSQL(dialect, st)
           o == IF st.LastError THEN Refused(g.st) ELSE g
           resets == ~Failed(g.w)
<1>2. Call("Sum", bean, o, resets)
    BY <1>1
<1>3. Result(g, st) /\ Hides(g) /\ ByID(g)
  <2>1. Result(GenSumSQL(dialect, st), st) /\ Hides(GenSumSQL(dialect, st))
          /\ ByID(GenSumSQL(dialect, st))
    BY <1>0, SumResult
  <2>2. Result(Refused(st), st) /\ Hides(Refused(st)) /\ ByID(Refused(st))
    BY <1>0, RefusedResult DEF Hides, ByID
  <2> QED
    BY <2>1, <2>2
<1> HIDE DEF g
<1>4. Result(o, st) /\ Hides(o) /\ ByID(o) /\ (resets \/ Failed(o.w))
    BY <1>3, LateError
<1> HIDE DEF o, resets
<1>5. Safe("Sum", bean, o)
    BY <1>4, ResultSafe
<1> QED
    BY <1>2, <1>4, <1>5, CallInv DEF KeepsStatement

LEMMA QueryInv == ASSUME Base, Query PROVE CallsInv'
<1>0. Stmt(st)
    BY DEF Base
<1> DEFINE g == GenQuerySQL(dialect, st)
           o == IF st.LastError THEN Refused(g.st) ELSE g
           resets == ~Failed(g.w)
<1>1. Call("Query", "none", o, resets)
    BY DEF Query
<1>2. Result(g, st) /\ ByID(g)
    BY <1>0, QueryResult
<1> HIDE DEF g
<1>3. Result(o, st) /\ ByID(o) /\ (resets \/ Failed(o.w))
    BY <1>2, LateError
<1> HIDE DEF o, resets
<1>4. Safe("Query", "none", o)
    BY <1>3, ResultSafe
<1> QED
    BY <1>1, <1>3, <1>4, CallInv DEF KeepsStatement

LEMMA ExistInv == ASSUME Base, Exist PROVE CallsInv'
<1>0. Stmt(st) /\ From(st, st)
    BY RefBeanFrom DEF Base
<1>1. PICK bean \in {"struct", "none"} :
        LET out == IF st.LastError THEN Refused(st) ELSE GenExistSQL(dialect, st, bean)
        IN  Call("Exist", bean, out, ~Failed(out.w))
    BY DEF Exist
<1> DEFINE g == GenExistSQL(dialect, st, bean)
           o == IF st.LastError THEN Refused(st) ELSE g
           resets == ~Failed(o.w)
<1>2. Call("Exist", bean, o, resets)
    BY <1>1
<1>3. Result(g, st) /\ (g.st.RefTable => Hides(g) /\ ByID(g))
    BY <1>0, ExistResult
<1>4. o = Refused(st) \/ o = g
    OBVIOUS
<1> HIDE DEF g
<1>5. Safe("Exist", bean, g)
  <2>1. g.st.RefTable \/ Unlooked("Exist", bean, g)
    BY DEF Unlooked
  <2> QED
    BY <1>3, <2>1, ResultSafe
<1>6. Safe("Exist", bean, Refused(st))
    BY <1>0, RefusedSafe
<1> HIDE DEF o
<1>7. Safe("Exist", bean, o)
    BY <1>4, <1>5, <1>6
<1>8. resets \/ Failed(o.w)
    OBVIOUS
<1> HIDE DEF resets
<1> QED
    BY <1>2, <1>7, <1>8, CallInv DEF KeepsStatement

LEMMA ExecInv == ASSUME Base, Exec PROVE CallsInv'
<1>0. Stmt(st) /\ From(st, st)
    BY RefBeanFrom DEF Base
<1>1. PICK ok \in BOOLEAN : Call("Exec", "none", IF ok THEN Raw(st) ELSE Refused(st), ok)
    BY DEF Exec
<1> DEFINE o == IF ok THEN Raw(st) ELSE Refused(st)
<1>2. Call("Exec", "none", o, ok)
    BY <1>1
<1>3. Safe("Exec", "none", Raw(st))
    BY <1>0, RawResult, ResultSafe DEF Hides, ByID
<1>4. Safe("Exec", "none", Refused(st)) /\ Failed(Refused(st).w)
    BY <1>0, RefusedSafe, RefusedResult
<1>5. Safe("Exec", "none", o) /\ (ok \/ Failed(o.w))
    BY <1>3, <1>4
<1> HIDE DEF o
<1> QED
    BY <1>2, <1>5, CallInv DEF KeepsStatement

\* The statement of the count in FindAndCount.
LEMMA CountAllStmt ==
    ASSUME NEW s, Stmt(s), NEW cols, cols \subseteq ColumnNames
    PROVE  LET t == [s EXCEPT !.SelectStr = FALSE, !.orderBy = <<>>, !.LimitN = NoLimit,
                              !.ColumnMap = cols, !.Start = 0]
           IN  /\ Stmt(t) /\ From(t, s) /\ t.cond = s.cond /\ t.RefTable = s.RefTable
               /\ t.unscoped = s.unscoped /\ t.RawSQL = s.RawSQL /\ t.Start = 0
               /\ t.indexHints = s.indexHints
<1> DEFINE t == [s EXCEPT !.SelectStr = FALSE, !.orderBy = <<>>, !.LimitN = NoLimit,
                          !.ColumnMap = cols, !.Start = 0]
<1>1. /\ t.orderBy = <<>> /\ t.LimitN = NoLimit /\ t.ColumnMap = cols /\ t.Start = 0
      /\ \A f \in Fields \ {"SelectStr", "orderBy", "LimitN", "ColumnMap", "Start"} : t[f] = s[f]
      /\ DOMAIN t = Fields
    BY DEF Stmt, Fields
<1> HIDE DEF t
<1>2. t.orderBy \in Seq({"asc", "desc"})
    BY <1>1
<1>3. Stmt(t)
    BY <1>1, <1>2 DEF Stmt, Fields
<1>4. /\ From(t, s) /\ t.cond = s.cond /\ t.RefTable = s.RefTable
      /\ t.unscoped = s.unscoped /\ t.RawSQL = s.RawSQL /\ t.Start = 0
      /\ t.indexHints = s.indexHints
    BY <1>1, <1>3 DEF From, Fields
<1> QED
    BY <1>3, <1>4 DEF t

LEMMA FindAndCountInv == ASSUME Base, FindAndCount PROVE CallsInv'
<1>0. Stmt(st)
    BY DEF Base
<1>1. PICK bean \in {"struct", "none"}, dbErr \in BOOLEAN :
        LET out == find(FindStatement("struct"), bean)
            s == out.st
            rows == Len(RowsOf(out.w))
            all == [s EXCEPT !.SelectStr = FALSE, !.orderBy = <<>>, !.LimitN = NoLimit,
                             !.ColumnMap = IF s.IsDistinct THEN @ ELSE {}, !.Start = 0]
            count == CountQuery(all, "none")
        IN  IF Failed(out.w) \/ dbErr
            THEN Return("FindAndCount", bean, [w |-> Fail, st |-> s], TRUE, FALSE, 0)
            ELSE IF TotalKnown(s, rows)
            THEN Return("FindAndCount", bean, out, TRUE, TRUE, rows + s.Start)
            ELSE Return("FindAndCount", bean, [w |-> count.w, st |-> count.st],
                        count.sent, TRUE, Cardinality(WhereRows(count.w)))
    BY DEF FindAndCount
<1> DEFINE f == FindStatement("struct")
           out == find(f, bean)
           s == out.st
           rows == Len(RowsOf(out.w))
           cols == IF s.IsDistinct THEN s.ColumnMap ELSE {}
           all == [s EXCEPT !.SelectStr = FALSE, !.orderBy = <<>>, !.LimitN = NoLimit,
                            !.ColumnMap = cols, !.Start = 0]
           count == CountQuery(all, "none")
           fail == [w |-> Fail, st |-> s]
           counted == [w |-> count.w, st |-> count.st]
           no == FALSE
           yes == TRUE
           r1 == rows + s.Start
           r2 == Cardinality(WhereRows(count.w))
           r0 == 0
<1>2. IF Failed(out.w) \/ dbErr
      THEN Return("FindAndCount", bean, fail, yes, no, r0)
      ELSE IF TotalKnown(s, rows)
      THEN Return("FindAndCount", bean, out, yes, yes, r1)
      ELSE Return("FindAndCount", bean, counted, count.sent, yes, r2)
    BY <1>1
<1>3. yes \in BOOLEAN /\ no \in BOOLEAN /\ yes
    OBVIOUS
<1>4. Stmt(f) /\ From(f, st)
  <2> DEFINE dest == "struct"
  <2> HIDE DEF dest
  <2>1. Stmt(FindStatement(dest)) /\ From(FindStatement(dest), st)
    BY <1>0, FindStmt
  <2> QED
    BY <2>1 DEF dest
<1> HIDE DEF f, yes, no, r0, r1, r2, rows
<1>5. /\ Result(out, f) /\ Hides(out) /\ Found(out, dialect)
      /\ ~Failed(out.w) /\ ~s.RawSQL /\ s.RefTable /\ ~s.unscoped =>
            s.cond.rows \subseteq Match["deleted"]
    BY <1>4, findResult
<1>6. Result(out, st) /\ From(s, st) /\ Stmt(s)
    BY <1>4, <1>5, ResultFrom DEF Result, From
<1>7. cols \subseteq ColumnNames
    BY <1>6 DEF Stmt
<1> HIDE DEF cols, out
<1>8. CASE Failed(out.w) \/ dbErr
  <2>1. Safe("FindAndCount", bean, fail)
    BY <1>6, RefusedSafe
  <2> HIDE DEF fail
  <2> QED
    BY <1>2, <1>3, <1>8, <2>1, ReturnInv
<1>9. CASE ~(Failed(out.w) \/ dbErr) /\ TotalKnown(s, rows)
  <2>1. Safe("FindAndCount", bean, out)
    BY <1>5, <1>6, ResultSafe
  <2> QED
    BY <1>2, <1>3, <1>9, <2>1, ReturnInv
<1>10. CASE ~(Failed(out.w) \/ dbErr) /\ ~TotalKnown(s, rows)
  <2>1. /\ Stmt(all) /\ From(all, s) /\ all.cond = s.cond /\ all.RefTable = s.RefTable
        /\ all.unscoped = s.unscoped /\ all.RawSQL = s.RawSQL /\ all.Start = 0
        /\ all.indexHints = s.indexHints
    BY <1>6, <1>7, CountAllStmt
  <2> HIDE DEF all
  <2> DEFINE g == GenCountSQL(dialect, all, "none")
  <2>2. /\ Result(count, all) /\ (count.sent \/ Failed(count.w)) /\ count.st = g.st
        /\ Failed(count.w) \/ count.w = g.w
        /\ ~Failed(g.w) => count.sent
    BY <2>1, CountQueryResult
  <2>3. all.RawSQL => g.w = Text("RAW") /\ ~Failed(g.w)
    BY PlainText DEF GenCountSQL, Raw, ClauseNames
  <2>4. ~all.RawSQL => /\ ~Failed(g.w) /\ g.st.RefTable = s.RefTable
                       /\ g.st.unscoped = s.unscoped /\ g.st.cond = s.cond
    <3> DEFINE counting == TRUE
               sel == Select(dialect, all, counting)
    <3>1. ~all.RawSQL => g = sel
      BY DEF GenCountSQL
    <3> HIDE DEF counting
    <3>2. /\ sel.st.cond = all.cond /\ sel.st.RefTable = all.RefTable
          /\ sel.st.unscoped = all.unscoped
          /\ Failed(sel.w) => Failed(writeIndexHints(dialect, all))
      BY <2>1, SelectResult
    <3>3. writeIndexHints(dialect, all) = writeIndexHints(dialect, s)
      BY <2>1, HintsSame
    <3>4. ~s.RawSQL => ~Failed(writeIndexHints(dialect, s))
      BY <1>5, <1>10 DEF Found
    <3> HIDE DEF sel, g
    <3> QED
      BY <2>1, <3>1, <3>2, <3>3, <3>4
  <2> HIDE DEF count, g
  <2>5. count.sent
    BY <2>2, <2>3, <2>4
  <2>6. counted.w = count.w /\ counted.st = count.st
    OBVIOUS
  <2> HIDE DEF counted
  <2>7. Result(counted, st)
    <3>1. From(all, st)
      BY <1>6, <2>1, FromTrans
    <3>2. Result(count, st)
      BY <2>2, <3>1, ResultFrom
    <3> QED
      BY <2>6, <3>2 DEF Result, Generated
  <2>8. Hides(counted)
    BY <1>5, <1>10, <2>1, <2>2, <2>3, <2>4, <2>6 DEF Hides, Generated
  <2>9. Safe("FindAndCount", bean, counted)
    BY <2>7, <2>8, ResultSafe
  <2> QED
    BY <1>2, <1>3, <1>10, <2>5, <2>9, ReturnInv
<1> QED
    BY <1>8, <1>9, <1>10

LEMMA SameSafe ==
    ASSUME NEW op, NEW bean, NEW o, NEW p, o.w = p.w, o.st = p.st, Safe(op, bean, p)
    PROVE  Safe(op, bean, o)
BY DEF Safe, Generated, Unlooked

LEMMA IterateInv == ASSUME Base, Iterate PROVE CallsInv'
<1>0. Stmt(st) /\ From(st, st)
    BY RefBeanFrom DEF Base
<1>1. PICK bean \in {"struct", "bad"} :
        LET pages == Pages(SetRefBean(st), bean)
            out == CASE st.LastError -> Refused(st)
                     [] ~st.LastError /\ st.BufferSize > 0 ->
                           IF bean = "bad" THEN Refused(st)
                           ELSE [w |-> pages.w, st |-> pages.st]
                     [] OTHER -> newRows(bean)
        IN  Return("Iterate", bean, [w |-> out.w, st |-> out.st], TRUE, TRUE,
                   IF st.BufferSize > 0 THEN pages.rows ELSE 0)
    BY DEF Iterate
<1> DEFINE t == SetRefBean(st)
           pages == Pages(t, bean)
           paged == [w |-> pages.w, st |-> pages.st]
           out == CASE st.LastError -> Refused(st)
                    [] ~st.LastError /\ st.BufferSize > 0 ->
                          IF bean = "bad" THEN Refused(st) ELSE paged
                    [] OTHER -> newRows(bean)
           o == [w |-> out.w, st |-> out.st]
           yes == TRUE
           res == IF st.BufferSize > 0 THEN pages.rows ELSE 0
<1>2. Return("Iterate", bean, o, yes, yes, res)
    BY <1>1
<1>3. yes \in BOOLEAN /\ yes
    OBVIOUS
<1> HIDE DEF yes, res
<1>4. out = Refused(st) \/ out = paged \/ out = newRows(bean)
    BY Zenon
<1>5. o.w = out.w /\ o.st = out.st
    OBVIOUS
<1> HIDE DEF o, out
<1>6. Stmt(t) /\ From(t, st)
    BY <1>0, RefBeanStmt, RefBeanFrom
<1> HIDE DEF t
<1>7. PageOK(pages, t)
    BY <1>6, PagesOK
<1> HIDE DEF pages
<1>8. Safe("Iterate", bean, paged)
  <2>1. paged.w = pages.w /\ paged.st = pages.st
    OBVIOUS
  <2> HIDE DEF paged
  <2>2. From(paged.st, st) /\ paged.w \in Texts
    BY <1>6, <1>7, <2>1, FromTrans DEF PageOK
  <2>3. CASE pages.w = Nothing
    BY <2>1, <2>2, <2>3 DEF Safe
  <2>4. CASE pages.w # Nothing
    <3>1. /\ Hides(paged)
          /\ Generated(paged) => WhereRows(paged.w) \subseteq paged.st.cond.rows
      BY <1>7, <2>1, <2>4 DEF PageOK, Hides, Generated
    <3>2. Result(paged, st)
      BY <2>2, <3>1 DEF Result
    <3> QED
      BY <3>1, <3>2, ResultSafe
  <2> QED
    BY <2>3, <2>4
<1>9. Safe("Iterate", bean, newRows(bean))
    BY <1>0, newRowsResult, ResultSafe
<1>10. Safe("Iterate", bean, Refused(st))
    BY <1>0, RefusedSafe
<1>12. Safe("Iterate", bean, out)
    BY <1>4, <1>8, <1>9, <1>10, Zenon
<1>13. Safe("Iterate", bean, o)
    BY <1>5, <1>12, SameSafe
<1> QED
    BY <1>2, <1>3, <1>13, ReturnInv

LEMMA OpenRowsInv == ASSUME Base, OpenRows PROVE CallsInv'
<1>0. Stmt(st) /\ chained \in 0 .. MaxChain + 1
    BY DEF Base
<1>1. PICK bean \in {"struct", "bad"} :
        LET out == newRows(bean)
            open == out.sent /\ ~Failed(out.w)
        IN  /\ Ready /\ chained <= MaxChain
            /\ rowsOpen' = open
            /\ isClosed' = (isAutoClose /\ out.sent /\ ~open)
            /\ st' = IF out.sent /\ autoResetStatement THEN Reset(out.st) ELSE out.st
            /\ asked' = NothingAsked(st' # Fresh)
            /\ chained' = IF st' = Fresh THEN 0 ELSE chained + 1
            /\ last' = [op |-> "Rows", bean |-> bean, before |-> st, asked |-> asked,
                        w |-> out.w, st |-> out.st, err |-> Failed(out.w), res |-> 0]
            /\ UNCHANGED <<dialect, autoResetStatement, isAutoClose>>
    BY DEF OpenRows
<1> DEFINE o == newRows(bean)
           open == o.sent /\ ~Failed(o.w)
           b == o.sent /\ autoResetStatement
           res == 0
<1>2. /\ chained <= MaxChain
      /\ rowsOpen' = open
      /\ isClosed' = (isAutoClose /\ o.sent /\ ~open)
      /\ st' = IF b THEN Reset(o.st) ELSE o.st
      /\ asked' = NothingAsked(st' # Fresh)
      /\ chained' = IF st' = Fresh THEN 0 ELSE chained + 1
      /\ Recorded("Rows", bean, o, res)
      /\ dialect' = dialect /\ autoResetStatement' = autoResetStatement
      /\ isAutoClose' = isAutoClose
    BY <1>1 DEF Recorded
<1>3. Result(o, st) /\ Hides(o) /\ (o.sent \/ Failed(o.w))
    BY <1>0, newRowsResult
<1> HIDE DEF o, res
<1>4. Safe("Rows", bean, o)
    BY <1>3, ResultSafe
<1>5. Stmt(o.st)
    BY <1>4 DEF Safe, From
<1>6. /\ Stmt(st)' /\ asked' \in [cond : Conds, id : BOOLEAN, stale : BOOLEAN]
      /\ ~asked'.stale => st'.cond = asked'.cond /\ (asked'.id => st'.idParam # 0)
      /\ asked'.cond = NewCond /\ asked'.id = FALSE
      /\ chained' \in 0 .. MaxChain + 1
      /\ b => [st' EXCEPT !.indexHints = <<>>] = Fresh
  <2> HIDE DEF b
  <2> QED
    BY <1>0, <1>2, <1>5, AfterCall
<1>7. rowsOpen' \in BOOLEAN /\ isClosed' \in BOOLEAN
    BY <1>2
<1>8. Base'
    BY <1>2, <1>6, <1>7 DEF Base
<1>9. CondsRestrict' /\ DeletedHidden'
    BY <1>2, <1>4, RecordedSafe
<1>10. last'.op = "Rows" /\ last'.err = Failed(o.w)
    BY <1>2 DEF Recorded
<1>11. CleanAfterCall'
    BY <1>2, <1>3, <1>6, <1>10 DEF CleanAfterCall, KeepsStatement
<1> QED
    BY <1>8, <1>9, <1>11 DEF CallsInv, Returns

LEMMA RowsScanInv == ASSUME Base, RowsScan PROVE CallsInv'
<1>1. /\ st' = SetRefBean(st) /\ last' = NoCall /\ dialect' = dialect
      /\ autoResetStatement' = autoResetStatement /\ isAutoClose' = isAutoClose
      /\ isClosed' = isClosed /\ rowsOpen' = rowsOpen /\ asked' = asked
      /\ chained' = chained
    BY DEF RowsScan
<1>2. Stmt(st)
    BY DEF Base
<1>3. Stmt(st') /\ st'.cond = st.cond /\ st'.idParam = st.idParam
    BY <1>1, <1>2, RefBeanStmt DEF Fields
<1>4. Stmt(st)'
    BY <1>3 DEF Stmt
<1>5. Base'
    BY <1>1, <1>3, <1>4 DEF Base
<1> QED
    BY <1>1, <1>5, NoCallReturns DEF CallsInv

LEMMA RowsCloseInv == ASSUME Base, RowsClose PROVE CallsInv'
<1>1. /\ rowsOpen' = FALSE /\ isClosed' = isAutoClose
      /\ st' = IF autoResetStatement THEN Reset(st) ELSE st
      /\ dialect' = dialect /\ autoResetStatement' = autoResetStatement
      /\ isAutoClose' = isAutoClose /\ asked' = NothingAsked(st' # Fresh)
      /\ chained' = IF st' = Fresh THEN 0 ELSE chained
      /\ last'.op = "RowsClose"
    BY DEF RowsClose
<1>2. Stmt(Reset(st)) /\ [Reset(st) EXCEPT !.indexHints = <<>>] = Fresh
    BY ResetStmt DEF Base, Stmt
<1>3. Stmt(st')
    BY <1>1, <1>2 DEF Base
<1>4. Stmt(st)'
    BY <1>3 DEF Stmt
<1>5. /\ asked'.cond = NewCond /\ asked'.id = FALSE /\ asked'.stale = (st' # Fresh)
      /\ asked' \in [cond : Conds, id : BOOLEAN, stale : BOOLEAN]
    BY <1>1, CondTypes DEF NothingAsked
<1>6. Fresh.cond = NewCond
    BY DEF Fresh
<1>7. chained' \in 0 .. MaxChain + 1
    BY <1>1, BoundsAssumption DEF Base
<1>8. Base'
    BY <1>1, <1>4, <1>5, <1>6, <1>7 DEF Base
<1>9. autoResetStatement' => [st' EXCEPT !.indexHints = <<>>] = Fresh
    BY <1>1, <1>2
<1>10. ~Selects'
    BY <1>1 DEF Selects, Reads
<1> QED
    BY <1>8, <1>9, <1>10 DEF CallsInv, Returns, CondsRestrict, DeletedHidden, CleanAfterCall

LEMMA ReturnedInv == ASSUME Base, Returned PROVE CallsInv'
<1>1. Base' /\ last' = NoCall
    BY DEF Returned, Base, Stmt
<1> QED
    BY <1>1, NoCallReturns DEF CallsInv

LEMMA UpdateInv == ASSUME Base, Update PROVE CallsInv'
<1>0. Stmt(st) /\ From(st, st)
    BY RefBeanFrom DEF Base
<1>1. PICK bean \in {"struct", "map", "bad"}, condiBean \in {"struct", "none"} :
        LET s == IF bean = "struct" THEN SetRefBean(st) ELSE st
            s2 == ProcessIDParam(s)
            out == IF st.LastError \/ bean = "bad" THEN Refused(st)
                   ELSE IF IdFails(s) THEN Refused(s)
                   ELSE [w |-> WriteUpdate(dialect, s2, UpdateCond(s2, bean, condiBean), bean),
                         st |-> s2]
        IN  Call("Update", <<bean, condiBean>>, out, TRUE)
    BY DEF Update
<1> DEFINE s == IF bean = "struct" THEN SetRefBean(st) ELSE st
           s2 == ProcessIDParam(s)
           c == UpdateCond(s2, bean, condiBean)
           w == WriteUpdate(dialect, s2, c, bean)
           new == [w |-> w, st |-> s2]
           o == IF st.LastError \/ bean = "bad" THEN Refused(st)
                ELSE IF IdFails(s) THEN Refused(s) ELSE new
           arg == <<bean, condiBean>>
           resets == TRUE
<1>2. Call("Update", arg, o, resets) /\ resets /\ arg[2] = condiBean
    BY <1>1
<1> HIDE DEF resets, arg
<1> HIDE DEF new
<1>3. o = Refused(st) \/ o = Refused(s) \/ (o = new /\ ~IdFails(s))
  <2> HIDE DEF s
  <2> QED
    OBVIOUS
<1> HIDE DEF o
<1>4. Stmt(s) /\ From(s, st)
    BY <1>0, RefBeanStmt, RefBeanFrom
<1> HIDE DEF s
<1>5. Narrows(s2, s) /\ (s.idParam # 0 /\ ~IdFails(s) => s2.cond.rows \subseteq Match["id"])
    BY <1>4, IdNarrows
<1>6. Stmt(s2) /\ From(s2, st)
    BY <1>4, <1>5, NarrowsFrom, FromTrans DEF Narrows
<1> HIDE DEF s2
<1>7. /\ c \in Conds /\ c.rows \subseteq s2.cond.rows
      /\ s2.RefTable /\ ~s2.unscoped /\ ~(condiBean = "struct" /\ s2.NoAutoCondition)
           => c.rows \subseteq Match["deleted"]
    BY <1>6, UpdateCondType
<1> HIDE DEF c
<1>8. \/ DBType(dialect) = "mssql" /\ OrderByKey(s2) /\ s2.LimitN = NoLimit
      \/ WhereRows(w) \subseteq c.rows
    BY <1>6, <1>7, UpdateText
<1>9. new.w = w /\ new.st = s2
    BY DEF new
<1> HIDE DEF w
<1>10. ~IdFails(s) => Safe("Update", arg, new)
  <2>1. s2.cond.rows \subseteq st.cond.rows /\ s.idParam = st.idParam
    BY <1>4, <1>6 DEF From
  <2>2. CASE DBType(dialect) = "mssql" /\ OrderByKey(s2) /\ s2.LimitN = NoLimit
    BY <1>6, <1>9, <2>2 DEF Safe, OrderByKey
  <2>3. CASE WhereRows(w) \subseteq c.rows
    BY <1>2, <1>5, <1>6, <1>7, <1>9, <2>1, <2>3 DEF Safe
  <2> QED
    BY <1>8, <2>2, <2>3
<1>11. Safe("Update", arg, Refused(st)) /\ Safe("Update", arg, Refused(s))
    BY <1>0, <1>4, RefusedSafe
<1>12. Safe("Update", arg, o)
    BY <1>3, <1>10, <1>11
<1> QED
    BY <1>2, <1>12, CallInv

LEMMA DeleteInv == ASSUME Base, Delete PROVE CallsInv'
<1>0. Stmt(st) /\ From(st, st)
    BY RefBeanFrom DEF Base
<1>1. PICK bean \in {"struct", "none", "bad"}, mustHaveConditions \in BOOLEAN :
        LET s == IF bean = "struct" THEN SetRefBean(st) ELSE st
            s2 == IF bean = "struct" THEN MergeConds(s) ELSE s
            needs == mustHaveConditions /\ ~s2.cond.valid /\ s2.LimitN <= 0
            out == IF st.LastError \/ bean = "bad" THEN Refused(st)
                   ELSE IF (bean = "struct" /\ IdFails(s)) \/ needs THEN Refused(s2)
                   ELSE [w |-> WriteDelete(dialect, s2), st |-> s2]
        IN  Call("Delete", bean, out, ~Failed(out.w))
    BY DEF Delete
<1> DEFINE s == IF bean = "struct" THEN SetRefBean(st) ELSE st
           s2 == IF bean = "struct" THEN MergeConds(s) ELSE s
           needs == mustHaveConditions /\ ~s2.cond.valid /\ s2.LimitN <= 0
           w == WriteDelete(dialect, s2)
           new == [w |-> w, st |-> s2]
           o == IF st.LastError \/ bean = "bad" THEN Refused(st)
                ELSE IF (bean = "struct" /\ IdFails(s)) \/ needs THEN Refused(s2) ELSE new
           resets == ~Failed(o.w)
<1>2. Call("Delete", bean, o, resets)
    BY <1>1
<1>3. resets \/ Failed(o.w)
    OBVIOUS
<1> HIDE DEF resets
<1> HIDE DEF new
<1>4. \/ o = Refused(st) \/ o = Refused(s2)
      \/ o = new /\ bean # "bad" /\ ~(bean = "struct" /\ IdFails(s))
  <2> HIDE DEF s, s2, needs
  <2> QED
    OBVIOUS
<1> HIDE DEF o
<1>5. Stmt(s) /\ From(s, st) /\ (bean = "struct" => s.RefTable = TRUE)
    BY <1>0, RefBeanStmt, RefBeanFrom
<1> HIDE DEF s
<1>6. /\ Narrows(s2, s)
      /\ bean = "struct" =>
            /\ s.RefTable /\ ~s.unscoped => s2.cond.rows \subseteq Match["deleted"]
            /\ s.idParam # 0 /\ ~IdFails(s) => s2.cond.rows \subseteq Match["id"]
    BY <1>5, MergeNarrows, NarrowsRefl
<1>7. /\ Stmt(s2) /\ From(s2, st) /\ s2.RefTable = s.RefTable /\ s2.unscoped = s.unscoped
      /\ s2.idParam = s.idParam
    BY <1>5, <1>6, NarrowsFrom, FromTrans DEF Narrows, Fields
<1> HIDE DEF s2
<1>8. w \in Texts /\ WhereRows(w) \subseteq s2.cond.rows
    BY <1>7, DeleteText
<1>9. new.w = w /\ new.st = s2
    BY DEF new
<1> HIDE DEF w
<1>10. Result(new, st)
    BY <1>7, <1>8, <1>9 DEF Result
<1>11. bean # "bad" /\ ~(bean = "struct" /\ IdFails(s)) => Safe("Delete", bean, new)
  <2>1. CASE bean = "none"
    <3>1. Unlooked("Delete", bean, new)
      BY <2>1 DEF Unlooked
    <3> QED
      BY <1>10, <3>1, ResultSafe
  <2>2. CASE bean = "struct" /\ ~IdFails(s)
    <3>1. Hides(new) /\ ByID(new)
      BY <1>5, <1>6, <1>7, <1>9, <2>2 DEF Hides, ByID
    <3> QED
      BY <1>10, <3>1, ResultSafe
  <2> QED
    BY <2>1, <2>2
<1>12. Safe("Delete", bean, Refused(st)) /\ Safe("Delete", bean, Refused(s2))
    BY <1>0, <1>7, RefusedSafe
<1>13. Safe("Delete", bean, o)
    BY <1>4, <1>11, <1>12
<1> QED
    BY <1>2, <1>3, <1>13, CallInv DEF KeepsStatement

\* An insert leaves the statement as it was, but for the table.
LEMMA InsertSafe ==
    ASSUME Base, NEW kind, NEW shape, NEW bean
    PROVE  Safe("Insert", bean, Parsed(kind, InsertText(kind, shape)))
<1>0. Stmt(st) /\ From(st, st)
    BY RefBeanFrom DEF Base
<1> DEFINE s == IF kind \in {"struct", "structs"} THEN SetRefBean(st) ELSE st
           o == InsertText(kind, shape)
           p == Parsed(kind, o)
<1>1. From(s, st)
    BY <1>0, RefBeanFrom
<1>2. \/ o = Refused(s)
      \/ o = [w |-> GenInsertSQL(dialect, s, genInsertColumns(s, shape[1])), st |-> s]
      \/ o = [w |-> GenInsertMapSQL(s, MapColumns(s, shape)), st |-> s]
      \/ o = [w |-> GenInsertMultipleMapSQL(s, MapColumns(s, shape)), st |-> s]
      \/ o = [w |-> WriteInsertMultiple(dialect, s, shape), st |-> s]
    BY Zenon DEF InsertText
<1> HIDE DEF s, o
<1>3. o.st = s
    BY <1>2 DEF Refused
<1>4. p = Refused(st) \/ p = o
    BY DEF Parsed
<1>5. Refused(st).st = st
    BY DEF Refused
<1> HIDE DEF p
<1>6. From(p.st, st)
    BY <1>0, <1>1, <1>3, <1>4, <1>5
<1>7. Safe("Insert", bean, p)
    BY <1>6 DEF Safe, Reads
<1> QED
    BY <1>7 DEF p, o

LEMMA InsertInv == ASSUME Base, Insert \/ InsertOne PROVE CallsInv'
<1>1. ASSUME Insert PROVE CallsInv'
  <2>1. PICK kind \in {"struct", "map", "maps", "structs", "bad"} : \E shape \in Shapes(kind) :
            Return("Insert", <<kind, shape>>, Parsed(kind, InsertText(kind, shape)),
                   TRUE, TRUE, 0)
    BY <1>1 DEF Insert
  <2>2. PICK shape \in Shapes(kind) :
            Return("Insert", <<kind, shape>>, Parsed(kind, InsertText(kind, shape)),
                   TRUE, TRUE, 0)
    BY <2>1
  <2> DEFINE bean == <<kind, shape>>
             o == Parsed(kind, InsertText(kind, shape))
             yes == TRUE
             res == 0
  <2>3. Return("Insert", bean, o, yes, yes, res) /\ yes /\ yes \in BOOLEAN
    BY <2>2
  <2> HIDE DEF bean, yes, res
  <2>4. Safe("Insert", bean, o)
    BY InsertSafe
  <2> HIDE DEF o
  <2> QED
    BY <2>3, <2>4, ReturnInv
<1>2. ASSUME InsertOne PROVE CallsInv'
  <2>1. PICK kind \in {"struct", "structs", "bad"} : \E shape \in Shapes(kind) :
            LET out == Parsed(kind, InsertText(kind, shape))
            IN  Call("Insert", <<kind, shape>>, out, ~Failed(out.w))
    BY <1>2 DEF InsertOne
  <2>2. PICK shape \in Shapes(kind) :
            LET out == Parsed(kind, InsertText(kind, shape))
            IN  Call("Insert", <<kind, shape>>, out, ~Failed(out.w))
    BY <2>1
  <2> DEFINE bean == <<kind, shape>>
             o == Parsed(kind, InsertText(kind, shape))
             resets == ~Failed(o.w)
  <2>3. Call("Insert", bean, o, resets) /\ (resets \/ Failed(o.w))
    BY <2>2
  <2> HIDE DEF bean, resets
  <2>4. Safe("Insert", bean, o)
    BY InsertSafe
  <2> HIDE DEF o
  <2> QED
    BY <2>3, <2>4, CallInv DEF KeepsStatement
<1> QED
    BY <1>1, <1>2

-----------------------------------------------------------------------------
(* Which records, in which order, and how many.                             *)

\* Filter keeps the order, and everything if everything is in S.
LEMMA FilterOrder ==
    ASSUME NEW T, NEW s \in Seq(T), NEW S
    PROVE  /\ Up(s) => Up(Filter(s, S))
           /\ Range(s) \subseteq S => Filter(s, S) = s
<1>1. PICK g : /\ Filter(s, S) = g[Len(s)] /\ g[0] = <<>>
               /\ \A n \in 0 .. Len(s) : g[n] \in Seq(T)
               /\ \A n \in 1 .. Len(s) :
                     g[n] = IF s[n] \in S THEN Append(g[n - 1], s[n]) ELSE g[n - 1]
    BY FilterKept
<1>2. /\ Len(s) \in Nat /\ DOMAIN s = 1 .. Len(s) /\ \A i \in 1 .. Len(s) : s[i] \in T
    OBVIOUS
<1> DEFINE Below(n) == \A i \in DOMAIN g[n] : \E j \in 1 .. n : g[n][i] = s[j]
           Good(n) == /\ Up(s) => Up(g[n]) /\ Below(n)
                      /\ Range(s) \subseteq S => g[n] = SubSeq(s, 1, n)
           P == {n \in Nat : n <= Len(s) => Good(n)}
<1>3. 0 \in P
  <2>1. SubSeq(s, 1, 0) = <<>> /\ Up(<<>>)
    BY DEF Up
  <2> QED
    BY <1>1, <2>1
<1>4. ASSUME NEW n \in Nat, n \in P PROVE n + 1 \in P
  <2> SUFFICES ASSUME n + 1 <= Len(s) PROVE Good(n + 1)
    OBVIOUS
  <2> DEFINE x == s[n + 1]
             h == g[n]
             a == Append(h, x)
  <2>1. n + 1 \in 1 .. Len(s) /\ (n + 1) - 1 = n /\ n <= Len(s) /\ n \in 0 .. Len(s)
    BY <1>2
  <2>5. Good(n)
    <3> HIDE DEF Good
    <3> QED
      BY <1>4, <2>1
  <2>6. h \in Seq(T) /\ x \in T
    BY <1>1, <1>2, <2>1
  <2>2. g[n + 1] = IF x \in S THEN a ELSE h
    BY <1>1, <2>1, <2>5, <2>6
  <2>3. ASSUME Range(s) \subseteq S PROVE g[n + 1] = SubSeq(s, 1, n + 1)
    <3>1. x \in S
      BY <1>2, <2>1, <2>5, <2>6, <2>3 DEF Range
    <3>2. h = SubSeq(s, 1, n)
      BY <2>1, <2>5, <2>6, <2>3
    <3>3. Append(SubSeq(s, 1, n), s[n + 1]) = SubSeq(s, 1, n + 1)
      BY <1>2, <2>1, <2>5, <2>6
    <3> QED
      BY <2>2, <3>1, <3>2, <3>3
  <2>4. ASSUME Up(s) PROVE Up(g[n + 1]) /\ Below(n + 1)
    <3>1. CASE x \notin S
      BY <2>1, <2>5, <2>6, <2>2, <2>4, <3>1
    <3>2. CASE x \in S
      <4>1. /\ Len(h) \in Nat /\ DOMAIN h = 1 .. Len(h) /\ DOMAIN a = 1 .. Len(h) + 1
            /\ a[Len(h) + 1] = x /\ \A i \in 1 .. Len(h) : a[i] = h[i]
        BY <1>2, <2>1, <2>5, <2>6
      <4>2. Up(h) /\ \A i \in DOMAIN h : \E j \in 1 .. n : h[i] = s[j]
        BY <2>1, <2>5, <2>6, <2>4
      <4>3. g[n + 1] = a
        BY <2>2, <3>2
      <4>7. \A j \in 1 .. n : s[j] < x
        BY <1>2, <2>1, <2>4 DEF Up
      <4> HIDE DEF a, h, x
      <4>4. \A i \in DOMAIN h : h[i] < x
        BY <4>2, <4>7
      <4>5. Up(a)
        <5> SUFFICES ASSUME NEW i \in DOMAIN a, NEW j \in DOMAIN a, i < j
                     PROVE  a[i] < a[j]
          BY DEF Up
        <5>1. i \in DOMAIN h /\ a[i] = h[i]
          BY <4>1
        <5>2. CASE j \in DOMAIN h
          BY <4>1, <4>2, <5>1, <5>2 DEF Up
        <5>3. CASE j = Len(h) + 1
          BY <4>1, <4>4, <5>1, <5>3
        <5> QED
          BY <4>1, <5>2, <5>3
      <4>6. \A i \in DOMAIN a : \E j \in 1 .. n + 1 : a[i] = s[j]
        <5> SUFFICES ASSUME NEW i \in DOMAIN a PROVE \E j \in 1 .. n + 1 : a[i] = s[j]
          OBVIOUS
        <5>1. CASE i \in DOMAIN h
          <6>1. PICK j \in 1 .. n : h[i] = s[j]
            BY <4>2, <5>1
          <6>2. j \in 1 .. n + 1 /\ a[i] = s[j]
            BY <4>1, <5>1, <6>1
          <6> QED
            BY <6>2
        <5>2. CASE i = Len(h) + 1
          BY <4>1, <5>2 DEF x
        <5> QED
          BY <4>1, <5>1, <5>2
      <4> QED
        BY <4>3, <4>5, <4>6
    <3> QED
      BY <3>1, <3>2
  <2> QED
    BY <2>3, <2>4
<1> HIDE DEF P
<1>5. Nat \subseteq P
    BY <1>3, <1>4, SetInduction
<1>6. Good(Len(s))
  <2> HIDE DEF Good
  <2> QED
    BY <1>2, <1>5 DEF P
<1>7. SubSeq(s, 1, Len(s)) = s
    BY <1>2
<1> QED
    BY <1>1, <1>6, <1>7

\* Where a slice of a sequence of n elements ends.
Stop(n, skip, take) == IF take = NoLimit \/ skip + take > n THEN n ELSE skip + take

LEMMA SliceElements ==
    ASSUME NEW T, NEW s \in Seq(T), NEW skip \in Nat, NEW take \in Nat \cup {NoLimit}
    PROVE  LET u == Slice(s, skip, take)
               m == Stop(Len(s), skip, take)
           IN  /\ m \in Nat /\ m <= Len(s) /\ u \in Seq(T)
               /\ Len(u) = (IF m > skip THEN m - skip ELSE 0)
               /\ \A i \in 1 .. Len(u) : u[i] = s[skip + i] /\ skip + i \in 1 .. Len(s)
<1> DEFINE m == Stop(Len(s), skip, take)
           u == SubSeq(s, skip + 1, m)
<1>1. Len(s) \in Nat /\ DOMAIN s = 1 .. Len(s)
    OBVIOUS
<1>2. m \in Nat /\ m <= Len(s)
    BY <1>1 DEF NoLimit, Stop
<1>3. Slice(s, skip, take) = u
    BY DEF Slice, Stop
<1> HIDE DEF m
<1>4. u \in Seq(T)
    BY <1>1, <1>2
<1>5. Len(u) = (IF m > skip THEN m - skip ELSE 0)
    BY <1>1, <1>2
<1>6. \A i \in 1 .. Len(u) : u[i] = s[skip + i] /\ skip + i \in 1 .. Len(s)
    BY <1>1, <1>2
<1> HIDE DEF u
<1> QED
    BY <1>2, <1>3, <1>4, <1>5, <1>6 DEF m

LEMMA SliceOrder ==
    ASSUME NEW s \in Seq(Int), NEW skip \in Nat, NEW take \in Nat \cup {NoLimit}
    PROVE  /\ Up(s) => Up(Slice(s, skip, take))
           /\ Down(s) => Down(Slice(s, skip, take))
           /\ Slice(s, 0, NoLimit) = s
<1> DEFINE u == Slice(s, skip, take)
<1>1. /\ u \in Seq(Int) /\ \A i \in 1 .. Len(u) : u[i] = s[skip + i] /\ skip + i \in 1 .. Len(s)
    BY SliceElements
<1>2. Slice(s, 0, NoLimit) = SubSeq(s, 1, Len(s))
    BY DEF Slice
<1>3. SubSeq(s, 1, Len(s)) = s
    OBVIOUS
<1> HIDE DEF u
<1>4. DOMAIN u = 1 .. Len(u) /\ Len(u) \in Nat /\ DOMAIN s = 1 .. Len(s)
    BY <1>1
<1>5. \A i, j \in DOMAIN u : i < j => skip + i < skip + j
    BY <1>4
<1>6. (Up(s) => Up(u)) /\ (Down(s) => Down(u))
    BY <1>1, <1>4, <1>5 DEF Up, Down
<1> QED
    BY <1>2, <1>3, <1>6 DEF u

\* What the database does with a clause: in order, and then TOP.
Does(top, s, c) == IF top THEN Top(s, c) ELSE Step(s, c)

\* From the records s the text w leads to t.
Runs(top, w, s, t) ==
    \E g : /\ g[0] = s /\ g[Len(w)] = t
           /\ \A n \in 0 .. Len(w) : g[n] \in Seq(Rows)
           /\ \A n \in 1 .. Len(w) : g[n] = Does(top, g[n - 1], w[n])

LEMMA RunsTyped ==
    ASSUME NEW top, NEW w \in Texts, NEW s, NEW t, Runs(top, w, s, t)
    PROVE  s \in Seq(Rows) /\ t \in Seq(Rows)
<1>1. Len(w) \in Nat
    BY DEF Texts
<1>2. 0 \in 0 .. Len(w) /\ Len(w) \in 0 .. Len(w)
    BY <1>1
<1> QED
    BY <1>2 DEF Runs

LEMMA RunsNothing == \A top : \A s \in Seq(Rows) : Runs(top, Nothing, s, s)
<1> SUFFICES ASSUME NEW top, NEW s \in Seq(Rows) PROVE Runs(top, Nothing, s, s)
    OBVIOUS
<1> DEFINE g == [n \in {0} |-> s]
<1>1. g[0] = s /\ Len(Nothing) = 0 /\ 0 .. 0 = {0} /\ 1 .. 0 = {}
    BY DEF Nothing
<1> HIDE DEF g
<1> QED
    BY <1>1 DEF Runs

LEMMA RunsOne ==
    ASSUME NEW top \in BOOLEAN, NEW c \in Clauses, NEW s \in Seq(Rows)
    PROVE  Runs(top, <<c>>, s, Does(top, s, c))
<1> DEFINE d == Does(top, s, c)
           w == <<c>>
           g == [n \in {0, 1} |-> IF n = 0 THEN s ELSE d]
<1>1. d \in Seq(Rows)
    BY StepProps DEF Does
<1>2. Len(w) = 1 /\ w[1] = c /\ 0 .. 1 = {0, 1} /\ 1 .. 1 = {1}
    OBVIOUS
<1>3. g[0] = s /\ g[1] = d
    OBVIOUS
<1> HIDE DEF g, d, w
<1>4. /\ g[0] = s /\ g[Len(w)] = d
      /\ \A n \in 0 .. Len(w) : g[n] \in Seq(Rows)
    BY <1>1, <1>2, <1>3
<1>5. \A n \in 1 .. Len(w) : g[n] = Does(top, g[n - 1], w[n])
    BY <1>2, <1>3 DEF d
<1>6. Runs(top, w, s, d)
    BY <1>4, <1>5 DEF Runs
<1> QED
    BY <1>6 DEF w, d

LEMMA RunsConcat ==
    \A top : \A a, b \in Texts : \A s, t, u :
        Runs(top, a, s, t) /\ Runs(top, b, t, u) => Runs(top, a \o b, s, u)
<1> SUFFICES ASSUME NEW top, NEW a \in Texts, NEW b \in Texts, NEW s, NEW t, NEW u,
                    Runs(top, a, s, t), Runs(top, b, t, u)
             PROVE  Runs(top, a \o b, s, u)
    OBVIOUS
<1> DEFINE A == Len(a)
           B == Len(b)
           w == a \o b
<1>1. PICK f : /\ f[0] = s /\ f[A] = t
               /\ \A n \in 0 .. A : f[n] \in Seq(Rows)
               /\ \A n \in 1 .. A : f[n] = Does(top, f[n - 1], a[n])
    BY DEF Runs
<1>2. PICK g : /\ g[0] = t /\ g[B] = u
               /\ \A n \in 0 .. B : g[n] \in Seq(Rows)
               /\ \A n \in 1 .. B : g[n] = Does(top, g[n - 1], b[n])
    BY DEF Runs
<1>3. /\ A \in Nat /\ B \in Nat /\ Len(w) = A + B
      /\ \A n \in 1 .. A : w[n] = a[n]
      /\ \A n \in 1 .. B : w[A + n] = b[n]
    BY DEF Texts
<1> DEFINE h == [n \in 0 .. A + B |-> IF n <= A THEN f[n] ELSE g[n - A]]
<1> HIDE DEF A, B, w
<1>4. \A n \in 0 .. A : h[n] = f[n]
    BY <1>3
<1>5. \A n \in 0 .. B : h[A + n] = g[n]
  <2> SUFFICES ASSUME NEW n \in 0 .. B PROVE h[A + n] = g[n]
    OBVIOUS
  <2>1. CASE n = 0
    <3>1. A + n = A /\ A \in 0 .. A
      BY <1>3, <2>1
    <3> QED
      BY <1>1, <1>2, <1>4, <2>1, <3>1
  <2>2. CASE n # 0
    <3>1. A + n \in 0 .. A + B /\ ~(A + n <= A) /\ (A + n) - A = n
      BY <1>3, <2>2
    <3> QED
      BY <3>1
  <2> QED
    BY <2>1, <2>2
<1> HIDE DEF h
<1>6. h[0] = s /\ h[A + B] = u
    BY <1>1, <1>2, <1>3, <1>4, <1>5
<1>7. \A n \in 0 .. A + B : h[n] \in Seq(Rows)
  <2> SUFFICES ASSUME NEW n \in 0 .. A + B PROVE h[n] \in Seq(Rows)
    OBVIOUS
  <2>1. CASE n \in 0 .. A
    BY <1>1, <1>4, <2>1
  <2>2. CASE n \notin 0 .. A
    <3>1. n - A \in 0 .. B /\ A + (n - A) = n
      BY <1>3, <2>2
    <3>2. h[n] = g[n - A]
      BY <1>5, <3>1
    <3> QED
      BY <1>2, <3>1, <3>2
  <2> QED
    BY <2>1, <2>2
<1>8. \A n \in 1 .. A + B : h[n] = Does(top, h[n - 1], w[n])
  <2> SUFFICES ASSUME NEW n \in 1 .. A + B PROVE h[n] = Does(top, h[n - 1], w[n])
    OBVIOUS
  <2>1. CASE n \in 1 .. A
    <3>1. n \in 0 .. A /\ n - 1 \in 0 .. A
      BY <1>3, <2>1
    <3> QED
      BY <1>1, <1>3, <1>4, <2>1, <3>1
  <2>2. CASE n \notin 1 .. A
    <3> DEFINE m == n - A
    <3>1. m \in 1 .. B /\ m \in 0 .. B /\ m - 1 \in 0 .. B /\ A + m = n /\ A + (m - 1) = n - 1
      BY <1>3, <2>2
    <3> HIDE DEF m
    <3>2. h[n] = g[m] /\ h[n - 1] = g[m - 1] /\ w[n] = b[m]
      BY <1>3, <1>5, <3>1
    <3> QED
      BY <1>2, <3>1, <3>2
  <2> QED
    BY <2>1, <2>2
<1> QED
    BY <1>3, <1>6, <1>7, <1>8 DEF Runs, w

LEMMA RowsOfRuns ==
    ASSUME NEW w \in Texts, NEW t, NEW u, Runs(FALSE, w, Scan, t), Runs(TRUE, w, t, u)
    PROVE  RowsOf(w) = u
<1> DEFINE N == Len(w)
           Rec(g, n) == IF n = 0 THEN Scan ELSE Step(g[n - 1], w[n])
           f == CHOOSE h : h = [n \in 0 .. N |-> Rec(h, n)]
           Rec2(g, n) == IF n = 0 THEN f[N] ELSE Top(g[n - 1], w[n])
           f2 == CHOOSE h : h = [n \in 0 .. N |-> Rec2(h, n)]
<1>0. RowsOf(w) = f2[N]
    BY DEF RowsOf
<1>1. N \in Nat
    BY DEF Texts
<1> HIDE DEF N, f, f2
<1>2. PICK g : /\ g[0] = Scan /\ g[N] = t
               /\ \A n \in 1 .. N : g[n] = Step(g[n - 1], w[n])
    BY DEF Runs, Does, N
<1>3. PICK e : /\ e[0] = t /\ e[N] = u
               /\ \A n \in 1 .. N : e[n] = Top(e[n - 1], w[n])
    BY DEF Runs, Does, N
<1>4. \A n \in 0 .. N : n = 0 \/ (n \in 1 .. N /\ n # 0 /\ n - 1 \in 0 .. N)
    BY <1>1
<1> DEFINE h == [n \in 0 .. N |-> g[n]]
<1>5. \A n \in 0 .. N : h[n] = Rec(g, n) /\ Rec(g, n) = Rec(h, n)
    BY <1>2, <1>4
<1>6. h = [n \in 0 .. N |-> h[n]]
    OBVIOUS
<1> HIDE DEF h
<1>7. h = [n \in 0 .. N |-> Rec(h, n)]
    BY <1>5, <1>6
<1>8. f = [n \in 0 .. N |-> Rec(f, n)]
    BY <1>7 DEF f
<1>9. \A n \in 0 .. N : f[n] = g[n]
  <2>1. \A n \in 0 .. N : f[n] = Rec(f, n)
    BY <1>8
  <2>2. f[0] = g[0]
    BY <1>1, <1>2, <2>1
  <2>3. \A n \in 1 .. N : f[n - 1] = g[n - 1] => f[n] = g[n]
    BY <1>1, <1>2, <2>1
  <2> QED
    BY <1>1, <2>2, <2>3, RecursionUnique
<1>10. f[N] = t
    BY <1>1, <1>2, <1>9
<1> DEFINE k == [n \in 0 .. N |-> e[n]]
<1>11. \A n \in 0 .. N : k[n] = Rec2(e, n) /\ Rec2(e, n) = Rec2(k, n)
    BY <1>3, <1>4, <1>10
<1>12. k = [n \in 0 .. N |-> k[n]]
    OBVIOUS
<1> HIDE DEF k
<1>13. k = [n \in 0 .. N |-> Rec2(k, n)]
    BY <1>11, <1>12
<1>14. f2 = [n \in 0 .. N |-> Rec2(f2, n)]
    BY <1>13 DEF f2
<1>15. \A n \in 0 .. N : f2[n] = e[n]
  <2>1. \A n \in 0 .. N : f2[n] = Rec2(f2, n)
    BY <1>14
  <2>2. f2[0] = e[0]
    BY <1>1, <1>3, <1>10, <2>1
  <2>3. \A n \in 1 .. N : f2[n - 1] = e[n - 1] => f2[n] = e[n]
    BY <1>1, <1>3, <2>1
  <2> QED
    BY <1>1, <2>2, <2>3, RecursionUnique
<1> QED
    BY <1>0, <1>1, <1>3, <1>15

\* Texts that change nothing, and texts without TOP.
Inert(w) == w \in Texts /\ \A top \in BOOLEAN : \A s \in Seq(Rows) : Runs(top, w, s, s)
NoTop(w) == w \in Texts /\ \A s \in Seq(Rows) : Runs(TRUE, w, s, s)
Ordinary == ClauseNames \ {"TOP", "ORDER BY", "LIMIT", "ROWNUM"}

LEMMA InertConcat ==
    /\ \A a, b : Inert(a) /\ Inert(b) => Inert(a \o b)
    /\ \A a, b : NoTop(a) /\ NoTop(b) => NoTop(a \o b)
    /\ \A a : Inert(a) => NoTop(a) /\ a \in Texts
BY RunsConcat, Concat DEF Inert, NoTop

LEMMA InertNothing == Inert(Nothing)
BY RunsNothing, EmptyText DEF Inert

LEMMA InertWhen == \A b : \A w : Inert(w) => Inert(When(b, w))
BY InertNothing DEF When

LEMMA RowsInt == \A s \in Seq(Rows) : s \in Seq(Int) /\ Range(s) \subseteq Rows
<1> SUFFICES ASSUME NEW s \in Seq(Rows) PROVE s \in Seq(Int) /\ Range(s) \subseteq Rows
    OBVIOUS
<1>1. \A i \in 1 .. Len(s) : s[i] \in Rows /\ s[i] \in Int
    BY RowsAssumption DEF Rows
<1> QED
    BY <1>1 DEF Range

\* A clause with a condition filters.
LEMMA FilterClause ==
    ASSUME NEW c \in Clauses, c.k \in Ordinary
    PROVE  /\ \A s \in Seq(Rows) : Runs(FALSE, <<c>>, s, Filter(s, c.rows))
           /\ NoTop(<<c>>)
           /\ c.rows = Rows => Inert(<<c>>)
<1>1. ASSUME NEW s \in Seq(Rows)
      PROVE  Runs(FALSE, <<c>>, s, Filter(s, c.rows)) /\ Runs(TRUE, <<c>>, s, s)
  <2>1. Runs(FALSE, <<c>>, s, Does(FALSE, s, c)) /\ Runs(TRUE, <<c>>, s, Does(TRUE, s, c))
    BY RunsOne
  <2>2. Does(FALSE, s, c) = Filter(s, c.rows)
    BY DEF Does, Step, Ordinary
  <2>3. Does(TRUE, s, c) = s
    BY DEF Does, Top, Ordinary
  <2> QED
    BY <2>1, <2>2, <2>3
<1>2. <<c>> \in Texts
    BY OneClause
<1>3. ASSUME c.rows = Rows, NEW top \in BOOLEAN, NEW s \in Seq(Rows) PROVE Runs(top, <<c>>, s, s)
  <2>1. Filter(s, Rows) = s
    BY RowsInt, FilterOrder
  <2> QED
    BY <1>1, <1>3, <2>1
<1> QED
    BY <1>1, <1>2, <1>3 DEF NoTop, Inert

LEMMA InertText ==
    /\ \A k \in Ordinary : Inert(Text(k))
    /\ Inert(Text("ORDER BY"))
<1>1. \A k \in Ordinary : Inert(Text(k))
    BY ClauseType, FilterClause DEF Text, Ordinary
<1> DEFINE c == Clause("ORDER BY")
<1>2. c \in Clauses /\ c.k = "ORDER BY" /\ c.desc = FALSE
    BY ClauseType DEF Clause, ClauseNames
<1>3. <<c>> \in Texts /\ Text("ORDER BY") = <<c>>
    BY <1>2, OneClause DEF Text
<1> HIDE DEF c
<1>4. ASSUME NEW top \in BOOLEAN, NEW s \in Seq(Rows) PROVE Runs(top, <<c>>, s, s)
  <2>1. Does(top, s, c) = s
    BY <1>2 DEF Does, Step, Top
  <2> QED
    BY <1>2, <2>1, RunsOne
<1> QED
    BY <1>1, <1>3, <1>4 DEF Inert

LEMMA PageRuns ==
    ASSUME NEW k \in {"LIMIT", "ROWNUM", "TOP"}, NEW skip \in Nat,
           NEW take \in Nat \cup {NoLimit}
    PROVE  LET p == Page(k, skip, take)
           IN  /\ p \in Texts /\ WhereRows(p) = Rows /\ ~Failed(p)
               /\ k # "TOP" => NoTop(p)
               /\ k # "TOP" => \A s \in Seq(Rows) : Runs(FALSE, p, s, Slice(s, skip, take))
               /\ k = "TOP" => \A s \in Seq(Rows) : /\ Runs(FALSE, p, s, s)
                                                    /\ Runs(TRUE, p, s, Slice(s, 0, take))
<1> DEFINE p == Page(k, skip, take)
           c == [Clause(k) EXCEPT !.skip = skip, !.take = take]
<1>1. p \in Texts /\ WhereRows(p) = Rows /\ ~Failed(p)
    BY PageText DEF ClauseNames
<1>2. c \in Clauses /\ c.rows = Rows /\ c.k = k /\ c.skip = skip /\ c.take = take
  <2>1. Clause(k) \in Clauses /\ Clause(k).rows = Rows /\ Clause(k).k = k
    BY ClauseType DEF ClauseNames
  <2>2. c \in Clauses /\ c.rows = Rows /\ c.k = k
    BY <2>1, PageClause, Zenon
  <2>3. c.skip = skip /\ c.take = take
    BY DEF Clause
  <2> QED
    BY <2>2, <2>3
<1>3. p = <<c>>
    BY DEF Page
<1> HIDE DEF c, p
<1>4. \A s \in Seq(Rows) : Runs(FALSE, p, s, Does(FALSE, s, c)) /\ Runs(TRUE, p, s, Does(TRUE, s, c))
    BY <1>2, <1>3, RunsOne
<1>5. CASE k # "TOP"
  <2>1. \A s : Does(FALSE, s, c) = Slice(s, skip, take) /\ Does(TRUE, s, c) = s
    BY <1>2, <1>5 DEF Does, Step, Top
  <2> QED
    BY <1>1, <1>4, <1>5, <2>1 DEF NoTop, p
<1>6. CASE k = "TOP"
  <2>1. \A s : Does(FALSE, s, c) = Filter(s, Rows) /\ Does(TRUE, s, c) = Slice(s, 0, take)
    BY <1>2, <1>6 DEF Does, Step, Top
  <2>2. \A s \in Seq(Rows) : Filter(s, Rows) = s
    BY RowsInt, FilterOrder
  <2>3. \A s \in Seq(Rows) : Runs(FALSE, p, s, s)
    BY <1>4, <2>1, <2>2
  <2>4. \A s \in Seq(Rows) : Runs(TRUE, p, s, Slice(s, 0, take))
    BY <1>4, <2>1
  <2> QED
    BY <1>1, <1>6, <2>3, <2>4, Zenon DEF p
<1> QED
    BY <1>5, <1>6

\* The records that satisfy a condition, and their order.
Matching(R) == Filter(Scan, R)
Arranged(order, s) == IF order # <<>> /\ Head(order) = "desc" THEN Reverse(s) ELSE s

LEMMA WhereRuns ==
    ASSUME NEW c \in Conds
    PROVE  /\ \A s \in Seq(Rows) : Runs(FALSE, writeWhereCond(c), s, Filter(s, c.rows))
           /\ NoTop(writeWhereCond(c))
<1>1. CASE ~c.valid
  <2>1. c.rows = Rows /\ writeWhereCond(c) = Nothing
    BY <1>1 DEF Conds, writeWhereCond, When
  <2>2. \A s \in Seq(Rows) : Filter(s, Rows) = s
    BY RowsInt, FilterOrder
  <2> QED
    BY <2>1, <2>2, InertNothing, InertConcat DEF Inert
<1>2. CASE c.valid
  <2> DEFINE e == [Clause("WHERE") EXCEPT !.rows = c.rows]
  <2>1. e \in Clauses /\ e.rows = c.rows /\ e.k = "WHERE"
    <3>1. Clause("WHERE") \in Clauses /\ Clause("WHERE").k = "WHERE" /\ c.rows \in SUBSET Rows
      BY ClauseType DEF ClauseNames, Conds
    <3> QED
      BY <3>1, RowsClause, Zenon
  <2>2. writeWhereCond(c) = <<e>>
    BY <1>2 DEF writeWhereCond, When
  <2> HIDE DEF e
  <2>3. e.k \in Ordinary
    BY <2>1 DEF Ordinary, ClauseNames
  <2> QED
    BY <2>1, <2>2, <2>3, FilterClause
<1> QED
    BY <1>1, <1>2

LEMMA DescFields ==
    \A c \in Clauses, desc \in BOOLEAN :
        LET e == [c EXCEPT !.desc = desc] IN e \in Clauses /\ e.desc = desc /\ e.k = c.k
BY DEF Clauses

LEMMA OrderRuns ==
    ASSUME NEW s, Stmt(s)
    PROVE  /\ \A r \in Seq(Rows) : Runs(FALSE, writeOrderBys(s), r, Arranged(s.orderBy, r))
           /\ NoTop(writeOrderBys(s))
<1>1. CASE s.orderBy = <<>>
  <2>1. writeOrderBys(s) = Nothing /\ \A r : Arranged(s.orderBy, r) = r
    BY <1>1 DEF writeOrderBys, When, Arranged
  <2> QED
    BY <2>1, InertNothing, InertConcat DEF Inert
<1>2. CASE s.orderBy # <<>>
  <2> DEFINE desc == Head(s.orderBy) = "desc"
             e == [Clause("ORDER BY") EXCEPT !.desc = desc]
  <2>1. e \in Clauses /\ e.desc = desc /\ e.k = "ORDER BY"
    <3>1. Clause("ORDER BY") \in Clauses /\ Clause("ORDER BY").k = "ORDER BY"
      BY ClauseType DEF ClauseNames
    <3>2. desc \in BOOLEAN
      OBVIOUS
    <3> HIDE DEF desc
    <3> QED
      BY <3>1, <3>2, DescFields, Zenon
  <2>2. writeOrderBys(s) = <<e>>
    BY <1>2 DEF writeOrderBys, When
  <2>3. \A r : Arranged(s.orderBy, r) = IF desc THEN Reverse(r) ELSE r
    BY <1>2 DEF Arranged
  <2> HIDE DEF e, desc
  <2>4. \A r : Does(FALSE, r, e) = Arranged(s.orderBy, r) /\ Does(TRUE, r, e) = r
    BY <2>1, <2>3 DEF Does, Step, Top
  <2>5. \A r \in Seq(Rows) : /\ Runs(FALSE, <<e>>, r, Does(FALSE, r, e))
                             /\ Runs(TRUE, <<e>>, r, Does(TRUE, r, e))
    BY <2>1, RunsOne
  <2>6. <<e>> \in Texts
    BY <2>1, OneClause
  <2> QED
    BY <2>2, <2>4, <2>5, <2>6 DEF NoTop
<1> QED
    BY <1>1, <1>2

LEMMA MatchingProps ==
    ASSUME NEW R, R \subseteq Rows
    PROVE  /\ Matching(R) \in Seq(Rows) /\ Up(Matching(R)) /\ Range(Matching(R)) = R
           /\ Len(Matching(R)) = Cardinality(R) /\ Scan \in Seq(Rows) /\ Up(Scan)
           /\ Range(Scan) = Rows
<1>1. Scan \in Seq(Rows)
    BY RowsAssumption DEF Scan, Rows
<1>2. DOMAIN Scan = Rows /\ \A i \in Rows : Scan[i] = i
    BY DEF Scan
<1>3. Up(Scan) /\ Range(Scan) = Rows
    BY <1>2 DEF Up, Range
<1>4. Matching(R) \in Seq(Rows) /\ Range(Matching(R)) = Range(Scan) \cap R /\ Up(Matching(R))
    BY <1>1, <1>3, FilterProps, FilterOrder DEF Matching
<1>5. Range(Matching(R)) = R
    BY <1>3, <1>4
<1>6. Cardinality(Range(Matching(R))) = Len(Matching(R))
    BY <1>4, RowsInt, OrderInjective, InjectiveLen
<1> QED
    BY <1>1, <1>3, <1>4, <1>5, <1>6

LEMMA ReverseRows == \A s \in Seq(Rows) : Reverse(s) \in Seq(Rows)
BY ReverseProps

LEMMA ArrangedProps ==
    ASSUME NEW o, NEW s \in Seq(Rows), Up(s)
    PROVE  LET t == Arranged(o, s)
           IN  /\ t \in Seq(Rows) /\ Len(t) = Len(s) /\ Range(t) = Range(s)
               /\ Up(t) \/ Down(t)
               /\ IF o # <<>> /\ Head(o) = "desc" THEN Down(t) ELSE Up(t)
<1>1. s \in Seq(Int)
    BY RowsInt
<1>2. CASE o # <<>> /\ Head(o) = "desc"
  <2>1. Arranged(o, s) = Reverse(s)
    BY <1>2 DEF Arranged
  <2> QED
    BY <1>1, <1>2, <2>1, ReverseOrder, ReverseRows
<1>3. CASE ~(o # <<>> /\ Head(o) = "desc")
  <2>1. Arranged(o, s) = s
    BY <1>3 DEF Arranged
  <2> QED
    BY <1>3, <2>1
<1> QED
    BY <1>2, <1>3

LEMMA SliceRange ==
    ASSUME NEW T, NEW s \in Seq(T), NEW skip \in Nat, NEW take \in Nat \cup {NoLimit}
    PROVE  Range(Slice(s, skip, take)) = {s[i] : i \in skip + 1 .. Stop(Len(s), skip, take)}
<1> DEFINE u == Slice(s, skip, take)
           m == Stop(Len(s), skip, take)
<1>1. /\ m \in Nat /\ m <= Len(s) /\ u \in Seq(T)
      /\ Len(u) = (IF m > skip THEN m - skip ELSE 0)
      /\ \A i \in 1 .. Len(u) : u[i] = s[skip + i]
    BY SliceElements
<1> HIDE DEF u, m
<1>2. DOMAIN u = 1 .. Len(u)
    BY <1>1
<1>3. \A i \in 1 .. Len(u) : skip + i \in skip + 1 .. m
    BY <1>1
<1>4. \A i \in skip + 1 .. m : i - skip \in 1 .. Len(u) /\ skip + (i - skip) = i
    BY <1>1
<1>5. \A i \in skip + 1 .. m : i - skip \in 1 .. Len(u) /\ s[i] = u[i - skip]
    BY <1>1, <1>4
<1>6. Range(u) = {s[i] : i \in skip + 1 .. m}
  <2>1. \A x \in Range(u) : \E i \in skip + 1 .. m : x = s[i]
    BY <1>1, <1>2, <1>3 DEF Range
  <2>2. \A i \in skip + 1 .. m : s[i] \in Range(u)
    BY <1>2, <1>5 DEF Range
  <2> QED
    BY <2>1, <2>2
<1> QED
    BY <1>6 DEF u, m

\* What comes after the first n records is what the first n do not have.
LEMMA RestOf ==
    ASSUME NEW s \in Seq(Rows), IsInjective(s), NEW n \in Nat
    PROVE  Range(Slice(s, n, NoLimit)) = Range(s) \ Range(Slice(s, 0, n))
<1>1. Len(s) \in Nat /\ DOMAIN s = 1 .. Len(s)
    OBVIOUS
<1>2. Stop(Len(s), n, NoLimit) = Len(s)
    BY DEF Stop
<1>3. 0 + n = n /\ 0 + 1 = 1 /\ n # NoLimit /\ 0 \in Nat
    BY DEF NoLimit
<1>4. Stop(Len(s), 0, n) = IF n > Len(s) THEN Len(s) ELSE n
    BY <1>3 DEF Stop
<1> DEFINE m == IF n > Len(s) THEN Len(s) ELSE n
<1>5. Range(Slice(s, n, NoLimit)) = {s[i] : i \in n + 1 .. Len(s)}
    BY <1>2, SliceRange
<1>6. Range(Slice(s, 0, n)) = {s[i] : i \in 1 .. m}
    BY <1>3, <1>4, SliceRange
<1>7. m \in Nat /\ m <= n /\ m <= Len(s)
    BY <1>1
<1>8. \A i \in 1 .. Len(s) : i \in 1 .. m \/ i \in n + 1 .. Len(s)
    BY <1>1
<1>9. \A i \in n + 1 .. Len(s) : i \in 1 .. Len(s) /\ \A j \in 1 .. m : i # j /\ j \in 1 .. Len(s)
    BY <1>1, <1>7
<1> HIDE DEF m
<1>10. Range(s) = {s[i] : i \in 1 .. Len(s)}
    BY <1>1 DEF Range
<1>11. \A i \in n + 1 .. Len(s) : s[i] \in Range(s) /\ s[i] \notin {s[j] : j \in 1 .. m}
    BY <1>1, <1>9, <1>10 DEF IsInjective
<1>12. \A i \in 1 .. Len(s) : s[i] \in {s[j] : j \in 1 .. m} \/ s[i] \in {s[j] : j \in n + 1 .. Len(s)}
    BY <1>8
<1> QED
    BY <1>5, <1>6, <1>10, <1>11, <1>12

\* The legacy pagination of SQL Server: to exclude the first n of the records in their
\* order and then to arrange the others is to skip n.
LEMMA ExcludeFirst ==
    ASSUME NEW o, NEW s \in Seq(Rows), Up(s), NEW n \in Nat
    PROVE  Arranged(o, Filter(s, Rows \ Range(Slice(Arranged(o, s), 0, n))))
             = Slice(Arranged(o, s), n, NoLimit)
<1> DEFINE t == Arranged(o, s)
           X == Range(Slice(t, 0, n))
           f == Filter(s, Rows \ X)
           l == Arranged(o, f)
           r == Slice(t, n, NoLimit)
           desc == o # <<>> /\ Head(o) = "desc"
<1>1. t \in Seq(Rows) /\ Range(t) = Range(s) /\ (IF desc THEN Down(t) ELSE Up(t))
    BY ArrangedProps
<1>2. f \in Seq(Rows) /\ Range(f) = Range(s) \cap (Rows \ X) /\ Up(f)
    BY FilterProps, FilterOrder
<1> HIDE DEF t, X, f
<1>3. l \in Seq(Rows) /\ Range(l) = Range(f) /\ (IF desc THEN Down(l) ELSE Up(l))
    BY <1>2, ArrangedProps
<1>4. NoLimit \in Nat \cup {NoLimit}
    OBVIOUS
<1>5. r \in Seq(Rows) /\ (Up(t) => Up(r)) /\ (Down(t) => Down(r))
    BY <1>1, <1>4, RowsInt, SliceOrder, SliceProps
<1>6. IsInjective(t)
    BY <1>1, RowsInt, OrderInjective
<1>7. Range(r) = Range(t) \ X
    BY <1>1, <1>6, RestOf DEF X
<1>8. Range(s) \subseteq Rows
    BY RowsInt
<1> HIDE DEF l, r, desc
<1>9. Range(l) = Range(r)
    BY <1>1, <1>2, <1>3, <1>7, <1>8
<1>10. (Up(l) /\ Up(r)) \/ (Down(l) /\ Down(r))
    BY <1>1, <1>3, <1>5
<1>11. l = r
    BY <1>3, <1>5, <1>9, <1>10, RowsInt, OrderDetermines
<1> QED
    BY <1>11 DEF l, r, f, X, t

\* Slices of slices.
LEMMA SliceSlice ==
    ASSUME NEW T, NEW s \in Seq(T), NEW skip \in Nat, NEW take \in Nat \cup {NoLimit}
    PROVE  Slice(Slice(s, skip, NoLimit), 0, take) = Slice(s, skip, take)
<1> DEFINE u == Slice(s, skip, NoLimit)
           l == Slice(u, 0, take)
           r == Slice(s, skip, take)
<1>1. /\ u \in Seq(T) /\ Len(u) = (IF Len(s) > skip THEN Len(s) - skip ELSE 0)
      /\ \A i \in 1 .. Len(u) : u[i] = s[skip + i]
    BY SliceElements DEF Stop
<1>2. /\ r \in Seq(T)
      /\ Len(r) = (IF Stop(Len(s), skip, take) > skip THEN Stop(Len(s), skip, take) - skip ELSE 0)
      /\ \A i \in 1 .. Len(r) : r[i] = s[skip + i]
    BY SliceElements
<1> HIDE DEF u, r
<1>3. /\ l \in Seq(T)
      /\ Len(l) = (IF Stop(Len(u), 0, take) > 0 THEN Stop(Len(u), 0, take) - 0 ELSE 0)
      /\ \A i \in 1 .. Len(l) : l[i] = u[0 + i] /\ 0 + i \in 1 .. Len(u)
    BY <1>1, SliceElements
<1> HIDE DEF l
<1>4. Len(s) \in Nat /\ Len(u) \in Nat
    BY <1>1
<1>5. Len(l) = Len(r)
    BY <1>1, <1>2, <1>3, <1>4 DEF Stop, NoLimit
<1>6. \A i \in 1 .. Len(l) : l[i] = r[i]
  <2> SUFFICES ASSUME NEW i \in 1 .. Len(l) PROVE l[i] = r[i]
    OBVIOUS
  <2>1. 0 + i = i
    BY <1>3
  <2> QED
    BY <1>1, <1>2, <1>3, <1>5, <2>1
<1>7. l = r
    BY <1>2, <1>3, <1>5, <1>6
<1> QED
    BY <1>7 DEF l, r, u

LEMMA InertWriters ==
    ASSUME NEW s, Stmt(s), NEW d
    PROVE  /\ Inert(writeFrom(d, s)) /\ Inert(writeJoins(s)) /\ Inert(writeGroupBy(s))
           /\ Inert(writeHaving(s)) /\ Inert(writeForUpdate(d, s)) /\ Inert(Text("SELECT"))
<1>1. \A k \in {"SELECT", "FROM", "JOIN", "INDEX", "ERROR", "GROUP BY", "HAVING", "FOR UPDATE"} :
         Inert(Text(k)) /\ \A b : Inert(When(b, Text(k)))
    BY InertText, InertWhen DEF Ordinary, ClauseNames
<1>2. /\ Inert(writeJoins(s)) /\ Inert(writeGroupBy(s))
      /\ Inert(writeHaving(s)) /\ Inert(writeForUpdate(d, s)) /\ Inert(Text("SELECT"))
    BY <1>1 DEF writeJoins, writeGroupBy, writeHaving, writeForUpdate
<1>3. Inert(writeIndexHints(d, s))
    BY <1>1, InertWhen DEF writeIndexHints, Fail
<1> QED
    BY <1>1, <1>2, <1>3, InertConcat DEF writeFrom

\* OFFSET and LIMIT, or nothing where all records are asked for.
LEMMA PaginationRuns ==
    ASSUME NEW s, Stmt(s), NEW d
    PROVE  /\ NoTop(writePagination(d, s))
           /\ \A r \in Seq(Rows) :
                 Runs(FALSE, writePagination(d, s), r, Slice(r, s.Start, s.LimitN))
<1> DEFINE p == Page("LIMIT", s.Start, s.LimitN)
<1>1. s.Start \in Nat /\ s.LimitN \in Nat \cup {NoLimit}
    BY DEF Stmt
<1>2. NoTop(p) /\ \A r \in Seq(Rows) : Runs(FALSE, p, r, Slice(r, s.Start, s.LimitN))
    BY <1>1, PageRuns
<1>3. writePagination(d, s) = When(s.Start > 0 \/ s.LimitN # NoLimit, p)
  <2>1. (IF s.Start > 0 THEN s.Start ELSE 0) = s.Start
    BY <1>1
  <2> QED
    BY <2>1 DEF writePagination, writeOffsetFetch, writeLimitOffset
<1> HIDE DEF p
<1>4. CASE s.Start > 0 \/ s.LimitN # NoLimit
    BY <1>2, <1>3, <1>4 DEF When
<1>5. CASE ~(s.Start > 0 \/ s.LimitN # NoLimit)
  <2>1. writePagination(d, s) = Nothing
    BY <1>3, <1>5 DEF When
  <2>2. s.Start = 0 /\ s.LimitN = NoLimit
    BY <1>1, <1>5
  <2>3. \A r \in Seq(Rows) : Slice(r, 0, NoLimit) = r
    BY RowsInt, SliceOrder
  <2> QED
    BY <2>1, <2>2, <2>3, InertNothing, InertConcat DEF Inert
<1> QED
    BY <1>4, <1>5

\* TOP takes the first records of what the other clauses have left.
LEMMA TopRuns ==
    ASSUME NEW s, Stmt(s)
    PROVE  \A r \in Seq(Rows) : /\ Runs(FALSE, writeTop(s), r, r)
                                /\ Runs(TRUE, writeTop(s), r, Slice(r, 0, s.LimitN))
<1> DEFINE p == Page("TOP", 0, s.LimitN)
<1>1. s.LimitN \in Nat \cup {NoLimit}
    BY DEF Stmt
<1>2. \A r \in Seq(Rows) : /\ Runs(FALSE, p, r, r)
                           /\ Runs(TRUE, p, r, Slice(r, 0, s.LimitN))
    BY <1>1, PageRuns
<1>3. writeTop(s) = When(s.LimitN # NoLimit, p)
    BY DEF writeTop
<1> HIDE DEF p
<1>4. CASE s.LimitN # NoLimit
    BY <1>2, <1>3, <1>4 DEF When
<1>5. CASE s.LimitN = NoLimit
  <2>1. writeTop(s) = Nothing
    BY <1>3, <1>5 DEF When
  <2>2. \A r \in Seq(Rows) : Slice(r, 0, NoLimit) = r
    BY RowsInt, SliceOrder
  <2> QED
    BY <1>5, <2>1, <2>2, InertNothing DEF Inert
<1> QED
    BY <1>4, <1>5

\* A condition on a subquery filters by the records the subquery has given it.
LEMMA SubQueryRuns ==
    ASSUME NEW cond \in Conds, NEW R \in SUBSET Rows, NEW w \in Texts
    PROVE  /\ NoTop(SubQuery(cond, R, w))
           /\ \A s \in Seq(Rows) :
                 Runs(FALSE, SubQuery(cond, R, w), s, Filter(s, R \cup cond.lead))
<1> DEFINE k == IF cond.valid THEN "AND" ELSE "WHERE"
           S == R \cup cond.lead
           c == [Clause(k) EXCEPT !.rows = S, !.sub = Kinds(w)]
<1>1. k \in ClauseNames /\ k \in Ordinary
    BY DEF ClauseNames, Ordinary
<1>2. Kinds(w) \in Seq(ClauseNames)
    BY KindsType
<1>5. S \in SUBSET Rows
    BY DEF Conds
<1>4. SubQuery(cond, R, w) = <<c>>
    BY DEF SubQuery
<1> HIDE DEF k, S
<1>3. c \in Clauses /\ c.rows = S /\ c.k = k
  <2>1. Clause(k) \in Clauses /\ Clause(k).k = k
    BY <1>1, ClauseType
  <2>2. ASSUME NEW e \in Clauses, NEW sub \in Seq(ClauseNames)
        PROVE  LET x == [e EXCEPT !.rows = S, !.sub = sub]
               IN  x \in Clauses /\ x.rows = S /\ x.k = e.k
    BY <1>5 DEF Clauses
  <2> QED
    BY <1>2, <2>1, <2>2, Zenon
<1> HIDE DEF c
<1>6. NoTop(<<c>>) /\ \A s \in Seq(Rows) : Runs(FALSE, <<c>>, s, Filter(s, S))
    BY <1>1, <1>3, <1>5, FilterClause
<1> QED
    BY <1>4, <1>6 DEF S

LEMMA LegacyRuns ==
    ASSUME NEW s, Stmt(s), NEW d,
           ~Failed(writeMssqlPaginationCond(d, s)) \/ s.Start = 0,
           s.Start = 0 \/ s.cond.lead = {}
    PROVE  LET R == s.cond.rows
               w == writeMssqlPaginationCond(d, s)
           IN  /\ NoTop(w)
               /\ \E f \in Seq(Rows) :
                     /\ Runs(FALSE, w, Matching(R), f)
                     /\ Arranged(s.orderBy, f) = Slice(Arranged(s.orderBy, Matching(R)), s.Start, NoLimit)
<1> DEFINE R == s.cond.rows
           F == Matching(R)
           o == s.orderBy
           w == writeMssqlPaginationCond(d, s)
           top == Page("TOP", 0, s.Start)
           sub == top \o writeFrom(d, s) \o writeWhere(s) \o writeOrderBys(s) \o writeGroupBy(s)
           X == Range(RowsOf(sub))
           A == Arranged(o, F)
<1>1. s.Start \in Nat /\ R \subseteq Rows /\ s.cond \in Conds
    BY DEF Stmt, Conds
<1>2. F \in Seq(Rows) /\ Up(F) /\ Scan \in Seq(Rows)
    BY <1>1, MatchingProps
<1>3. A \in Seq(Rows)
    BY <1>2, ArrangedProps
<1>4. w = When(s.Start > 0, IF ~s.RefTable \/ Failed(sub) THEN Fail
                            ELSE SubQuery(s.cond, Rows \ X, sub))
    BY DEF writeMssqlPaginationCond
<1> HIDE DEF w
<1>5. CASE s.Start = 0
  <2>1. w = Nothing
    BY <1>4, <1>5 DEF When
  <2>2. NoTop(w) /\ Runs(FALSE, w, F, F)
    BY <1>2, <2>1, InertNothing, InertConcat DEF Inert
  <2>3. A = Slice(A, s.Start, NoLimit)
    BY <1>3, <1>5, RowsInt, SliceOrder
  <2> HIDE DEF A, F
  <2> QED
    BY <1>2, <2>2, <2>3 DEF A, F, w
<1>6. CASE s.Start # 0
  <2>1. s.Start > 0 /\ s.Start \in Nat \cup {NoLimit}
    BY <1>1, <1>6
  <2>2. w = SubQuery(s.cond, Rows \ X, sub)
    BY <1>4, <1>6, <2>1, FailText DEF When, w
  <2>3. /\ top \in Texts /\ \A r \in Seq(Rows) : Runs(FALSE, top, r, r)
        /\ \A r \in Seq(Rows) : Runs(TRUE, top, r, Slice(r, 0, s.Start))
    BY <2>1, PageRuns
  <2>4. Inert(writeFrom(d, s)) /\ Inert(writeGroupBy(s))
    BY InertWriters
  <2>5. NoTop(writeWhere(s)) /\ Runs(FALSE, writeWhere(s), Scan, F)
    BY <1>1, <1>2, WhereRuns DEF writeWhere, Matching
  <2>6. NoTop(writeOrderBys(s)) /\ Runs(FALSE, writeOrderBys(s), F, A)
    BY <1>2, OrderRuns
  <2> HIDE DEF top, F, A, X
  <2> DEFINE x == writeFrom(d, s) \o writeWhere(s)
             y == writeOrderBys(s) \o writeGroupBy(s)
  <2>7. /\ top \o writeFrom(d, s) \in Texts /\ Runs(FALSE, top \o writeFrom(d, s), Scan, Scan)
        /\ \A r \in Seq(Rows) : Runs(TRUE, top \o writeFrom(d, s), r, Slice(r, 0, s.Start))
    <3>1. \A r \in Seq(Rows) : Slice(r, 0, s.Start) \in Seq(Rows)
      BY <2>1, SliceProps
    <3> QED
      BY <1>2, <2>3, <2>4, <3>1, Concat, RunsConcat DEF Inert
  <2> DEFINE y1 == top \o writeFrom(d, s)
             y2 == y1 \o writeWhere(s)
             y3 == y2 \o writeOrderBys(s)
  <2> HIDE DEF y1
  <2>8. /\ y2 \in Texts /\ Runs(FALSE, y2, Scan, F)
        /\ \A r \in Seq(Rows) : Runs(TRUE, y2, r, Slice(r, 0, s.Start))
    <3>1. \A r \in Seq(Rows) : Slice(r, 0, s.Start) \in Seq(Rows)
      BY <2>1, SliceProps
    <3> QED
      BY <1>2, <2>5, <2>7, <3>1, Concat, RunsConcat DEF NoTop, y1
  <2> HIDE DEF y2
  <2>9. /\ y3 \in Texts /\ Runs(FALSE, y3, Scan, A)
        /\ \A r \in Seq(Rows) : Runs(TRUE, y3, r, Slice(r, 0, s.Start))
    <3>1. \A r \in Seq(Rows) : Slice(r, 0, s.Start) \in Seq(Rows)
      BY <2>1, SliceProps
    <3> QED
      BY <1>2, <2>6, <2>8, <3>1, Concat, RunsConcat DEF NoTop
  <2> HIDE DEF y3
  <2>10. sub = y3 \o writeGroupBy(s)
    BY DEF y1, y2, y3
  <2>11. /\ sub \in Texts /\ Runs(FALSE, sub, Scan, A)
         /\ \A r \in Seq(Rows) : Runs(TRUE, sub, r, Slice(r, 0, s.Start))
    <3>1. \A r \in Seq(Rows) : Slice(r, 0, s.Start) \in Seq(Rows)
      BY <2>1, SliceProps
    <3> HIDE DEF sub
    <3> QED
      BY <1>2, <1>3, <2>4, <2>9, <2>10, <3>1, Concat, RunsConcat DEF Inert
  <2> HIDE DEF sub
  <2>12. RowsOf(sub) = Slice(A, 0, s.Start)
    BY <1>3, <2>11, RowsOfRuns
  <2>13. X = Range(Slice(A, 0, s.Start))
    BY <2>12 DEF X
  <2> DEFINE f == Filter(F, Rows \ X)
  <2> DEFINE Y == Rows \ X
  <2>17. Y \in SUBSET Rows /\ Y \cup s.cond.lead = Y
    BY <1>6
  <2> HIDE DEF Y
  <2>14. NoTop(w) /\ Runs(FALSE, w, F, f)
    <3>1. w = SubQuery(s.cond, Y, sub) /\ f = Filter(F, Y)
      BY <2>2 DEF Y
    <3> QED
      BY <1>1, <1>2, <2>11, <2>17, <3>1, SubQueryRuns
  <2>15. f \in Seq(Rows)
    BY <1>2, FilterProps
  <2>16. Arranged(o, f) = Slice(A, s.Start, NoLimit)
    BY <1>1, <1>2, <2>13, ExcludeFirst DEF A
  <2> HIDE DEF f
  <2> QED
    BY <2>14, <2>15, <2>16 DEF A, F, w
<1> QED
    BY <1>5, <1>6

\* The order that writeSelect writes is the one of the statement it leaves behind.
LEMMA SelectOrder ==
    ASSUME NEW s, Stmt(s), NEW d, NEW counting
    PROVE  LET t == AfterSelect(d, s, counting)
               order == IF MssqlNeedsOrder(d, s) /\ MssqlByFirstColumn(s, counting)
                        THEN Text("ORDER BY") ELSE writeOrderBys(t)
           IN  /\ NoTop(order)
               /\ \A r \in Seq(Rows) : Runs(FALSE, order, r, Arranged(s.orderBy, r))
               /\ \A r : Arranged(t.orderBy, r) = Arranged(s.orderBy, r)
<1> DEFINE t == AfterSelect(d, s, counting)
           order == IF MssqlNeedsOrder(d, s) /\ MssqlByFirstColumn(s, counting)
                    THEN Text("ORDER BY") ELSE writeOrderBys(t)
<1>1. Stmt(t)
    BY SelectNarrows DEF Narrows
<1>2. ASSUME NEW r PROVE Arranged(t.orderBy, r) = Arranged(s.orderBy, r)
  <2>1. CASE MssqlNeedsOrder(d, s) /\ ~MssqlByFirstColumn(s, counting)
    <3>1. s.orderBy = <<>>
      BY <2>1 DEF MssqlNeedsOrder
    <3>2. t.orderBy = <<"asc">>
      BY <2>1 DEF AfterSelect, Stmt, Fields
    <3>3. Head(<<"asc">>) # "desc"
      OBVIOUS
    <3> QED
      BY <3>1, <3>2, <3>3 DEF Arranged
  <2>2. CASE ~(MssqlNeedsOrder(d, s) /\ ~MssqlByFirstColumn(s, counting))
    BY <2>2 DEF AfterSelect
  <2> QED
    BY <2>1, <2>2
<1>3. CASE MssqlNeedsOrder(d, s) /\ MssqlByFirstColumn(s, counting)
  <2>1. order = Text("ORDER BY")
    BY <1>3
  <2>2. s.orderBy = <<>>
    BY <1>3 DEF MssqlNeedsOrder
  <2>3. \A r : Arranged(s.orderBy, r) = r
    BY <2>2 DEF Arranged
  <2> QED
    BY <1>2, <2>1, <2>3, InertText, InertConcat DEF Inert
<1>4. CASE ~(MssqlNeedsOrder(d, s) /\ MssqlByFirstColumn(s, counting))
  <2>1. order = writeOrderBys(t)
    BY <1>4
  <2>2. /\ NoTop(writeOrderBys(t))
        /\ \A r \in Seq(Rows) : Runs(FALSE, writeOrderBys(t), r, Arranged(t.orderBy, r))
    BY <1>1, OrderRuns
  <2> HIDE DEF order, t
  <2> QED
    BY <1>2, <2>1, <2>2 DEF order, t
<1> QED
    BY <1>3, <1>4

\* Records asked for with an offset have a limit.
Paged(s) == s.LimitN = NoLimit => s.Start = 0

\* The page excludes records after an AND that binds to the last alternative only.
OrPaged(d, s) == d = "mssql_legacy" /\ s.Start > 0 /\ s.cond.lead # {}

\* What a SELECT returns: OFFSET, TOP, FETCH, ROWNUM and subqueries come to the same,
\* but that legacy Oracle pages first.
Selected(d, s) ==
    IF d = "oracle_legacy"
    THEN Arranged(s.orderBy, Slice(Matching(s.cond.rows), s.Start, s.LimitN))
    ELSE Slice(Arranged(s.orderBy, Matching(s.cond.rows)), s.Start, s.LimitN)

LEMMA SelectRows ==
    ASSUME NEW s, Stmt(s), Paged(s), NEW d, NEW counting, ~OrPaged(d, s),
           ~Failed(writeSelect(d, s, counting)) \/ s.Start = 0
    PROVE  RowsOf(writeSelect(d, s, counting)) = Selected(d, s)
<1> DEFINE w == writeSelect(d, s, counting)
           R == s.cond.rows
           F == Matching(R)
           o == s.orderBy
           A == Arranged(o, F)
           order == IF MssqlNeedsOrder(d, s) /\ MssqlByFirstColumn(s, counting)
                    THEN Text("ORDER BY") ELSE writeOrderBys(AfterSelect(d, s, counting))
<1>1. s.Start \in Nat /\ s.LimitN \in Nat \cup {NoLimit} /\ R \subseteq Rows /\ s.cond \in Conds
    BY DEF Stmt, Conds
<1>2. F \in Seq(Rows) /\ Up(F) /\ Scan \in Seq(Rows)
    BY <1>1, MatchingProps
<1>3. A \in Seq(Rows)
    BY <1>2, ArrangedProps
<1>4. Inert(Text("SELECT")) /\ Inert(writeFrom(d, s))
    BY InertWriters
<1>5. Inert(writeGroupBy(s)) /\ Inert(writeHaving(s)) /\ Inert(writeForUpdate(d, s))
    BY InertWriters
<1>6. NoTop(writeWhere(s)) /\ Runs(FALSE, writeWhere(s), Scan, F)
    BY <1>1, <1>2, WhereRuns DEF writeWhere, Matching
<1>7. /\ NoTop(writeOrderBys(s))
      /\ \A r \in Seq(Rows) : Runs(FALSE, writeOrderBys(s), r, Arranged(o, r))
    BY OrderRuns
<1>8. NoTop(order) /\ Runs(FALSE, order, F, A)
    BY <1>2, SelectOrder
<1>9. w \in Texts
    BY SelectText
<1> HIDE DEF order, F, A
<1>10. CASE d \notin {"mssql_legacy", "oracle_legacy"}
  <2> DEFINE x == Text("SELECT") \o writeFrom(d, s) \o writeWhere(s)
             y == x \o writeGroupBy(s) \o writeHaving(s)
             z == y \o order \o writePagination(d, s)
             S == Slice(A, s.Start, s.LimitN)
  <2>1. w = z \o writeForUpdate(d, s)
    BY <1>10 DEF writeSelect, order
  <2>2. NoTop(writePagination(d, s)) /\ Runs(FALSE, writePagination(d, s), A, S)
    BY <1>3, PaginationRuns
  <2>3. S \in Seq(Rows)
    BY <1>1, <1>3, SliceProps
  <2> HIDE DEF w, S
  <2>4. NoTop(x) /\ Runs(FALSE, x, Scan, F)
    <3>1. Inert(Text("SELECT") \o writeFrom(d, s))
      BY <1>4, InertConcat
    <3> QED
      BY <1>2, <1>6, <3>1, RunsConcat, InertConcat DEF Inert, NoTop
  <2> HIDE DEF x
  <2>5. NoTop(y) /\ Runs(FALSE, y, Scan, F)
    <3>1. Runs(FALSE, x \o writeGroupBy(s), Scan, F)
      BY <1>2, <1>5, <2>4, RunsConcat DEF Inert, NoTop
    <3>2. NoTop(x \o writeGroupBy(s))
      BY <1>5, <2>4, InertConcat
    <3> QED
      BY <1>2, <1>5, <3>1, <3>2, RunsConcat, InertConcat DEF Inert, NoTop
  <2> HIDE DEF y
  <2>6. NoTop(z) /\ Runs(FALSE, z, Scan, S)
    <3>1. NoTop(y \o order) /\ Runs(FALSE, y \o order, Scan, A)
      BY <1>8, <2>5, RunsConcat, InertConcat DEF NoTop
    <3> QED
      BY <2>2, <3>1, RunsConcat, InertConcat DEF NoTop
  <2> HIDE DEF z
  <2>7. NoTop(w) /\ Runs(FALSE, w, Scan, S)
    BY <1>5, <2>1, <2>3, <2>6, RunsConcat, InertConcat DEF Inert, NoTop
  <2>8. RowsOf(w) = S
    BY <2>3, <2>7, RowsOfRuns DEF NoTop
  <2> QED
    BY <1>10, <2>8 DEF Selected, S, A, F, w
<1>11. CASE d = "oracle_legacy"
  <2> DEFINE x == Text("SELECT") \o writeFrom(d, s) \o writeWhere(s)
             x2 == x \o writeOracleLimit(s)
             y == x2 \o writeGroupBy(s) \o writeHaving(s)
             z == y \o writeOrderBys(s)
             S == Slice(F, s.Start, s.LimitN)
             V == Arranged(o, S)
  <2>1. w = z \o writeForUpdate(d, s)
    BY <1>11 DEF writeSelect, writeOracleLegacySelect
  <2>2. S \in Seq(Rows)
    BY <1>1, <1>2, SliceProps
  <2>3. NoTop(writeOracleLimit(s)) /\ Runs(FALSE, writeOracleLimit(s), F, S)
    <3>1. CASE s.LimitN # NoLimit
      <4>1. writeOracleLimit(s) = Page("ROWNUM", s.Start, s.LimitN)
        BY <3>1 DEF writeOracleLimit, When
      <4> QED
        BY <1>1, <1>2, <4>1, PageRuns
    <3>2. CASE s.LimitN = NoLimit
      <4>1. writeOracleLimit(s) = Nothing
        BY <3>2 DEF writeOracleLimit, When
      <4>2. S = F
        BY <1>2, <3>2, RowsInt, SliceOrder DEF Paged
      <4> QED
        BY <1>2, <4>1, <4>2, InertNothing, InertConcat DEF Inert
    <3> QED
      BY <3>1, <3>2
  <2>4. V \in Seq(Rows) /\ Runs(FALSE, writeOrderBys(s), S, V)
    <3>1. Up(S)
      BY <1>1, <1>2, RowsInt, SliceOrder
    <3> QED
      BY <1>7, <2>2, <3>1, ArrangedProps
  <2> HIDE DEF w, S, V
  <2>5. NoTop(x) /\ Runs(FALSE, x, Scan, F)
    <3>1. Inert(Text("SELECT") \o writeFrom(d, s))
      BY <1>4, InertConcat
    <3> QED
      BY <1>2, <1>6, <3>1, RunsConcat, InertConcat DEF Inert, NoTop
  <2> HIDE DEF x
  <2>6. NoTop(x2) /\ Runs(FALSE, x2, Scan, S)
    BY <2>3, <2>5, RunsConcat, InertConcat DEF NoTop
  <2> HIDE DEF x2
  <2>7. NoTop(y) /\ Runs(FALSE, y, Scan, S)
    <3>1. Runs(FALSE, x2 \o writeGroupBy(s), Scan, S)
      BY <1>5, <2>2, <2>6, RunsConcat DEF Inert, NoTop
    <3>2. NoTop(x2 \o writeGroupBy(s))
      BY <1>5, <2>6, InertConcat
    <3> QED
      BY <1>5, <2>2, <3>1, <3>2, RunsConcat, InertConcat DEF Inert, NoTop
  <2> HIDE DEF y
  <2>8. NoTop(z) /\ Runs(FALSE, z, Scan, V)
    BY <1>7, <2>4, <2>7, RunsConcat, InertConcat DEF NoTop
  <2> HIDE DEF z
  <2>9. NoTop(w) /\ Runs(FALSE, w, Scan, V)
    BY <1>5, <2>1, <2>4, <2>8, RunsConcat, InertConcat DEF Inert, NoTop
  <2>10. RowsOf(w) = V
    BY <2>4, <2>9, RowsOfRuns DEF NoTop
  <2> QED
    BY <1>11, <2>10 DEF Selected, S, F, V, w
<1>12. CASE d = "mssql_legacy"
  <2> DEFINE top == Text("SELECT") \o writeTop(s)
             x == top \o writeFrom(d, s) \o writeWhere(s)
             cond == writeMssqlPaginationCond(d, s)
             x2 == x \o cond
             y == x2 \o writeGroupBy(s) \o writeHaving(s)
             z == y \o writeOrderBys(s)
             S == Slice(A, s.Start, NoLimit)
             L(r) == Slice(r, 0, s.LimitN)
  <2>1. w = z \o writeForUpdate(d, s)
    BY <1>12 DEF writeSelect, writeMssqlLegacySelect
  <2>2. \A r \in Seq(Rows) : Runs(FALSE, writeTop(s), r, r) /\ Runs(TRUE, writeTop(s), r, L(r))
    BY TopRuns
  <2>3. \A r \in Seq(Rows) : L(r) \in Seq(Rows)
    BY <1>1, SliceProps
  <2>4. cond \in Texts /\ top \in Texts /\ writeTop(s) \in Texts
    BY <1>4, LegacyCond, SmallWriters, Concat DEF Plain, Inert
  <2>5. x \in Texts /\ writeGroupBy(s) \in Texts /\ writeHaving(s) \in Texts
    BY <1>4, <1>5, <1>6, <2>4, Concat DEF Inert, NoTop
  <2>6. ~Failed(cond) \/ s.Start = 0
    <3> SUFFICES ASSUME Failed(cond) PROVE Failed(w) \/ s.Start = 0
      BY DEF w
    <3> HIDE DEF x, cond
    <3>1. x2 \in Texts /\ Failed(x2)
      BY <2>4, <2>5, Concat
    <3> HIDE DEF x2
    <3>2. y \in Texts /\ Failed(y)
      BY <2>5, <3>1, Concat
    <3> HIDE DEF y
    <3>3. z \in Texts /\ Failed(z)
      BY <1>7, <3>2, Concat DEF NoTop
    <3> HIDE DEF z
    <3>4. Failed(w)
      BY <1>5, <2>1, <3>3, Concat DEF Inert
    <3> QED
      BY <3>4
  <2>7. PICK f \in Seq(Rows) : NoTop(cond) /\ Runs(FALSE, cond, F, f) /\ Arranged(o, f) = S
    <3>1. s.Start = 0 \/ s.cond.lead = {}
      BY <1>1, <1>12 DEF OrPaged
    <3> QED
      BY <2>6, <3>1, LegacyRuns DEF F, A
  <2>8. S \in Seq(Rows)
    BY <1>1, <1>3, SliceProps
  <2>9. Runs(FALSE, writeOrderBys(s), f, S)
    BY <1>7, <2>7
  <2> HIDE DEF L, S, w, cond
  <2>10. /\ \A r \in Seq(Rows) : Runs(FALSE, top, r, r) /\ Runs(TRUE, top, r, L(r))
    BY <1>4, <2>2, <2>3, <2>4, RunsConcat DEF Inert
  <2> HIDE DEF top
  <2>11. /\ Runs(FALSE, x, Scan, F) /\ \A r \in Seq(Rows) : Runs(TRUE, x, r, L(r))
    <3>1. /\ top \o writeFrom(d, s) \in Texts
          /\ \A r \in Seq(Rows) : /\ Runs(FALSE, top \o writeFrom(d, s), r, r)
                                  /\ Runs(TRUE, top \o writeFrom(d, s), r, L(r))
      BY <1>4, <2>3, <2>4, <2>10, Concat, RunsConcat DEF Inert
    <3> QED
      BY <1>2, <1>6, <2>3, <3>1, RunsConcat DEF NoTop
  <2> HIDE DEF x
  <2>12. /\ x2 \in Texts /\ Runs(FALSE, x2, Scan, f)
         /\ \A r \in Seq(Rows) : Runs(TRUE, x2, r, L(r))
    BY <2>3, <2>4, <2>5, <2>7, <2>11, Concat, RunsConcat DEF NoTop
  <2> HIDE DEF x2
  <2>13. /\ y \in Texts /\ Runs(FALSE, y, Scan, f)
         /\ \A r \in Seq(Rows) : Runs(TRUE, y, r, L(r))
    <3>1. /\ x2 \o writeGroupBy(s) \in Texts /\ Runs(FALSE, x2 \o writeGroupBy(s), Scan, f)
          /\ \A r \in Seq(Rows) : Runs(TRUE, x2 \o writeGroupBy(s), r, L(r))
      BY <1>5, <2>3, <2>7, <2>12, Concat, RunsConcat DEF Inert
    <3> QED
      BY <1>5, <2>3, <2>7, <3>1, Concat, RunsConcat DEF Inert
  <2> HIDE DEF y
  <2>14. /\ z \in Texts /\ Runs(FALSE, z, Scan, S)
         /\ \A r \in Seq(Rows) : Runs(TRUE, z, r, L(r))
    BY <1>7, <2>3, <2>9, <2>13, Concat, RunsConcat DEF NoTop
  <2> HIDE DEF z
  <2>15. /\ Runs(FALSE, w, Scan, S) /\ Runs(TRUE, w, S, L(S))
    BY <1>5, <2>1, <2>3, <2>8, <2>14, RunsConcat DEF Inert
  <2>16. RowsOf(w) = L(S)
    BY <1>9, <2>15, RowsOfRuns DEF w
  <2>17. L(S) = Slice(A, s.Start, s.LimitN)
    BY <1>1, <1>3, SliceSlice DEF L, S
  <2> QED
    BY <1>12, <2>16, <2>17 DEF Selected, A, F, w
<1> QED
    BY <1>10, <1>11, <1>12

-----------------------------------------------------------------------------
(* The records that Get and Find return.                                    *)

\* The text, if it is one of its own, returns the page its statement asks for.
Shows(o, d) == Generated(o) /\ ~OrPaged(d, o.st) => RowsOf(o.w) = Selected(d, o.st)

LEMMA NarrowsPaged == ASSUME NEW s, NEW t, Narrows(t, s), Paged(s) PROVE Paged(t)
BY DEF Narrows, Paged, Fields

LEMMA SelectShows ==
    ASSUME NEW s, Stmt(s), Paged(s), NEW d, NEW counting
    PROVE  Shows(Select(d, s, counting), d)
<1> DEFINE o == Select(d, s, counting)
           t == AfterSelect(d, s, counting)
<1>1. o.w = writeSelect(d, s, counting) /\ o.st = t
    BY DEF Select
<1>2. Generated(o) /\ ~OrPaged(d, s) => RowsOf(o.w) = Selected(d, s)
    BY <1>1, SelectRows DEF Generated
<1>3. Narrows(t, s)
    BY SelectNarrows
<1>4. o.st.cond = s.cond
    BY SelectResult
<1>5. \A r : Arranged(t.orderBy, r) = Arranged(s.orderBy, r)
    BY SelectOrder
<1> HIDE DEF o, t
<1>6. t.cond = s.cond /\ t.LimitN = s.LimitN /\ t.Start = s.Start
    BY <1>1, <1>3, <1>4 DEF Narrows, Fields
<1>7. Selected(d, t) = Selected(d, s) /\ OrPaged(d, t) = OrPaged(d, s)
    BY <1>5, <1>6 DEF Selected, OrPaged
<1>8. Shows(o, d)
    BY <1>1, <1>2, <1>7 DEF Shows
<1> QED
    BY <1>8 DEF o

LEMMA RefusedShows == ASSUME NEW s, NEW d PROVE Shows(Refused(s), d) /\ Shows(Raw(s), d)
<1>1. Refused(s).w = Fail /\ Raw(s).w = Text("RAW")
    BY DEF Refused, Raw
<1> QED
    BY <1>1, FailText DEF Shows, Generated

LEMMA GetShows ==
    ASSUME NEW s, Stmt(s), Paged(s), NEW d, NEW bean
    PROVE  Shows(GenGetSQL(d, s, bean), d)
<1> DEFINE no == FALSE
<1>1. CASE bean = "struct"
  <2> DEFINE t == SetRefBean(s)
             m == MergeConds(t)
  <2>1. Stmt(t) /\ Paged(t)
    BY RefBeanStmt DEF Paged, Fields
  <2>2. GenGetSQL(d, s, bean) = IF IdFails(t) THEN Refused(m) ELSE Select(d, m, no)
    BY <1>1 DEF GenGetSQL, SelectById
  <2> HIDE DEF t
  <2>3. Narrows(m, t)
    BY <2>1, MergeNarrows
  <2> HIDE DEF m, no
  <2>4. Stmt(m) /\ Paged(m)
    BY <2>1, <2>3, NarrowsPaged DEF Narrows
  <2> QED
    BY <2>2, <2>4, SelectShows, RefusedShows
<1>2. CASE bean # "struct"
  <2> DEFINE auto == CondDeleted(s)
             more == [s EXCEPT !.cond = CondAnd(@, auto)]
             u == IF s.RefTable /\ ~s.unscoped THEN more ELSE s
             m == ProcessIDParam(u)
  <2>1. auto \in Conds
    BY AutoConds
  <2>2. GenGetSQL(d, s, bean) = IF IdFails(s) THEN Refused(m) ELSE Select(d, m, no)
    BY <1>2 DEF GenGetSQL, SelectById
  <2> HIDE DEF auto
  <2>7. Narrows(more, s)
    BY <2>1, AndNarrows
  <2> HIDE DEF more
  <2>3. Narrows(u, s)
    BY <2>7, NarrowsRefl
  <2> HIDE DEF u
  <2>4. Stmt(u) /\ Paged(u)
    BY <2>3, NarrowsPaged DEF Narrows
  <2>5. Narrows(m, u)
    BY <2>4, IdNarrows
  <2> HIDE DEF m, no
  <2>6. Stmt(m) /\ Paged(m)
    BY <2>4, <2>5, NarrowsPaged DEF Narrows
  <2> QED
    BY <2>2, <2>6, SelectShows, RefusedShows
<1> QED
    BY <1>1, <1>2

LEMMA FindShows ==
    ASSUME NEW s, Stmt(s), Paged(s), NEW d, NEW c \in Conds
    PROVE  LET o == GenFindSQL(d, s, c)
           IN  Shows(o, d) /\ Paged(o.st) /\ (Generated(o) => o.st.cond.lead = {})
<1> DEFINE u == [s EXCEPT !.cond = CondAnd(@, c)]
           no == FALSE
<1>1. GenFindSQL(d, s, c) = IF s.RawSQL THEN Raw(s) ELSE IF ~s.TableName THEN Refused(s)
                            ELSE Select(d, u, no)
    BY DEF GenFindSQL
<1>2. Narrows(u, s) /\ u.cond.lead = {}
    BY AndNarrows
<1> HIDE DEF u, no
<1>3. Stmt(u) /\ Paged(u)
    BY <1>2, NarrowsPaged DEF Narrows
<1>4. Shows(Select(d, u, no), d) /\ Select(d, u, no).st.cond.lead = {}
    BY <1>2, <1>3, SelectShows, SelectResult
<1>5. Select(d, u, no).st = AfterSelect(d, u, no)
    BY DEF Select
<1>6. Paged(Select(d, u, no).st)
    BY <1>3, <1>5, SelectNarrows, NarrowsPaged
<1>7. /\ Raw(s).st = s /\ Refused(s).st = s
      /\ ~Generated(Raw(s)) /\ ~Generated(Refused(s))
    BY FailText DEF Raw, Refused, Generated
<1> QED
    BY <1>1, <1>4, <1>6, <1>7, RefusedShows

LEMMA findShows ==
    ASSUME Stmt(st), Paged(st), NEW bean, NEW dest
    PROVE  LET o == find(FindStatement(dest), bean)
           IN  Shows(o, dialect) /\ Paged(o.st) /\ (Generated(o) => o.st.cond.lead = {})
<1> DEFINE s == FindStatement(dest)
           c == FindCond(s, bean)
<1>1. Stmt(s)
    BY FindStmt
<1>2. Paged(s)
    BY RefBeanStmt DEF FindStatement, Paged, Fields
<1>3. c \in Conds
    BY FindCondType
<1>4. find(s, bean) = IF s.LastError THEN Refused(s) ELSE GenFindSQL(dialect, s, c)
    BY DEF find
<1> HIDE DEF s, c
<1>5. Refused(s).st = s /\ ~Generated(Refused(s))
    BY FailText DEF Refused, Generated
<1>6. /\ Shows(find(s, bean), dialect) /\ Paged(find(s, bean).st)
      /\ Generated(find(s, bean)) => find(s, bean).st.cond.lead = {}
    BY <1>1, <1>2, <1>3, <1>4, <1>5, FindShows, RefusedShows
<1> QED
    BY <1>6 DEF s

-----------------------------------------------------------------------------
(* The calls again, for what they return.                                   *)

\* Unless a call has left something behind, an offset comes with a limit.
Asks == ~asked.stale => Paged(st)

LEMMA ChainAsks ==
    ASSUME Asks, NEW call, NEW s, NEW a, Chain(call, s, a), a.stale = asked.stale,
           Paged(st) => Paged(s)
    PROVE  Asks' /\ last' = NoCall
BY DEF Chain, Asks, Paged, Ready

\* A chained call that fills in another field.
LEMMA SetAsks ==
    ASSUME Asks, DOMAIN st = Fields, NEW call, NEW f \in Fields \ {"LimitN", "Start"}, NEW v,
           Option(call, [st EXCEPT ![f] = v])
    PROVE  Asks' /\ last' = NoCall
<1> DEFINE s == [st EXCEPT ![f] = v]
<1>1. s.LimitN = st.LimitN /\ s.Start = st.Start
    BY DEF Fields
<1>2. Chain(call, s, asked)
    BY DEF Option
<1> HIDE DEF s
<1> QED
    BY <1>1, <1>2, ChainAsks DEF Paged

LEMMA ChainedAsks ==
    ASSUME Base, Asks, ChainedCall PROVE Asks' /\ last' = NoCall
<1>0. DOMAIN st = Fields /\ asked \in [cond : Conds, id : BOOLEAN, stale : BOOLEAN]
    BY DEF Base, Stmt
<1> USE DEF Fields
<1>1. CASE Where \/ Or
  <2> DEFINE c == CondAnd(st.cond, Eq("where"))
             e == CondOr(st.cond, Eq("or"))
             c2 == CondAnd(asked.cond, Eq("where"))
             e2 == CondOr(asked.cond, Eq("or"))
  <2>1. \/ Chain("Where", [st EXCEPT !.cond = c], [asked EXCEPT !.cond = c2])
        \/ Chain("Or", [st EXCEPT !.cond = e], [asked EXCEPT !.cond = e2])
    BY <1>1 DEF Where, Or
  <2> HIDE DEF c, e, c2, e2
  <2>2. \A x, y : /\ [st EXCEPT !.cond = x].LimitN = st.LimitN
                  /\ [st EXCEPT !.cond = x].Start = st.Start
                  /\ [asked EXCEPT !.cond = y].stale = asked.stale
    BY <1>0
  <2> QED
    BY <2>1, <2>2, ChainAsks DEF Paged
<1>2. CASE ID
  <2>1. PICK n \in 1 .. 2 : Chain("ID", [st EXCEPT !.idParam = n], [asked EXCEPT !.id = TRUE])
    BY <1>2 DEF ID
  <2>2. /\ [st EXCEPT !.idParam = n].LimitN = st.LimitN
        /\ [st EXCEPT !.idParam = n].Start = st.Start
        /\ [asked EXCEPT !.id = TRUE].stale = asked.stale
    BY <1>0
  <2> QED
    BY <2>1, <2>2, ChainAsks DEF Paged
<1>3. CASE Table
  <2>1. PICK struct \in BOOLEAN :
           Chain("Table", [st EXCEPT !.TableName = TRUE, !.RefTable = @ \/ struct], asked)
    BY <1>3 DEF Table, Option
  <2> DEFINE b == st.RefTable \/ struct
             s == [st EXCEPT !.TableName = TRUE, !.RefTable = b]
  <2> HIDE DEF b
  <2>2. s.LimitN = st.LimitN /\ s.Start = st.Start
    BY <1>0
  <2>3. Chain("Table", s, asked)
    BY <2>1 DEF b
  <2> HIDE DEF s
  <2> QED
    BY <2>2, <2>3, ChainAsks DEF Paged
<1>4. CASE Limit
  <2>1. PICK n, start \in {0, 2} : Chain("Limit", [st EXCEPT !.LimitN = n, !.Start = start], asked)
    BY <1>4 DEF Limit, Option
  <2> DEFINE s == [st EXCEPT !.LimitN = n, !.Start = start]
  <2>2. s.LimitN = n /\ n # NoLimit
    BY <1>0 DEF NoLimit
  <2> HIDE DEF s
  <2> QED
    BY <2>1, <2>2, ChainAsks DEF Paged, s
<1>5. CASE Distinct
  <2> DEFINE cols == st.ColumnMap \cup {"a"}
             s == [st EXCEPT !.IsDistinct = TRUE, !.ColumnMap = cols]
  <2>1. Chain("Distinct", s, asked)
    BY <1>5 DEF Distinct, Option
  <2> HIDE DEF cols
  <2>2. s.LimitN = st.LimitN /\ s.Start = st.Start
    BY <1>0
  <2> HIDE DEF s
  <2> QED
    BY <2>1, <2>2, ChainAsks DEF Paged
<1>6. CASE BadWhere \/ Join \/ GroupBy \/ Having \/ SQL \/ AllCols
    BY <1>0, <1>6, SetAsks DEF BadWhere, Join, GroupBy, Having, SQL, AllCols
<1>7. CASE ForUpdate \/ Unscoped \/ NoAutoCondition \/ NoVersionCheck \/ NoAutoTime
    BY <1>0, <1>7, SetAsks DEF ForUpdate, Unscoped, NoAutoCondition, NoVersionCheck, NoAutoTime
<1>8. CASE Incr \/ Decr \/ SetExpr \/ BufferSize
    BY <1>0, <1>8, SetAsks DEF Incr, Decr, SetExpr, BufferSize
<1>9. CASE OrderBy
  <2>1. PICK order \in {"asc", "desc"} : Option("OrderBy", [st EXCEPT !.orderBy = Append(@, order)])
    BY <1>9 DEF OrderBy
  <2> QED
    BY <1>0, <2>1, SetAsks
<1>10. CASE IndexHint
  <2>1. PICK h \in {"use", "bad"} : Option("IndexHint", [st EXCEPT !.indexHints = Append(@, h)])
    BY <1>10 DEF IndexHint
  <2> QED
    BY <1>0, <2>1, SetAsks
<1>11. CASE Cols
  <2>1. PICK c \in {"e", "updated", "ver"} : Option("Cols", [st EXCEPT !.ColumnMap = @ \cup {c}])
    BY <1>11 DEF Cols
  <2> QED
    BY <1>0, <2>1, SetAsks
<1>12. CASE Omit
  <2>1. PICK c \in {"a", "ver"} : Option("Omit", [st EXCEPT !.OmitColumnMap = @ \cup {c}])
    BY <1>12 DEF Omit
  <2> QED
    BY <1>0, <2>1, SetAsks
<1> QED
    BY <1>1, <1>2, <1>3, <1>4, <1>5, <1>6, <1>7, <1>8, <1>9, <1>10, <1>11, <1>12 DEF ChainedCall

LEMMA FreshAsks ==
    ASSUME asked' = NothingAsked(st' # Fresh) PROVE Asks'
<1>1. asked'.stale = (st' # Fresh)
    BY DEF NothingAsked
<1>2. Fresh.Start = 0
    BY DEF Fresh
<1> QED
    BY <1>1, <1>2 DEF Asks, Paged

LEMMA ReturnAsks ==
    ASSUME NEW op, NEW bean, NEW o, NEW resets, NEW auto, NEW res,
           Return(op, bean, o, resets, auto, res)
    PROVE  /\ Asks' /\ Recorded(op, bean, o, res) /\ dialect' = dialect
           /\ last'.op = op
<1>1. asked' = NothingAsked(st' # Fresh) /\ dialect' = dialect
    BY DEF Return
<1>2. Recorded(op, bean, o, res)
    BY DEF Return, Recorded
<1>3. last'.op = op
    BY <1>2 DEF Recorded
<1> QED
    BY <1>1, <1>2, <1>3, FreshAsks

LEMMA CallAsks ==
    ASSUME NEW op, NEW bean, NEW o, NEW resets, Call(op, bean, o, resets)
    PROVE  Asks' /\ last'.op = op /\ dialect' = dialect
<1> DEFINE auto == autoResetStatement
           res == 0
<1>1. Return(op, bean, o, resets, auto, res)
    BY DEF Call
<1> HIDE DEF auto, res
<1> QED
    BY <1>1, ReturnAsks

\* The calls the properties below say nothing about.
Others == {"Count", "Sum", "Exist", "Query", "Exec", "Rows", "RowsClose", "Insert"}

LEMMA CallsAsk ==
    ASSUME Base, Asks, DatabaseCall
    PROVE  /\ Asks' /\ dialect' = dialect
           /\ \/ last' = NoCall \/ last'.op \in Others
              \/ Get \/ Find \/ FindAndCount \/ Iterate \/ Update \/ Delete
<1>1. CASE Get
    BY <1>1, CallAsks DEF Get
<1>2. CASE Find
    BY <1>2, CallAsks DEF Find
<1>3. CASE Count
    BY <1>3, CallAsks DEF Count, Others
<1>4. CASE Sum
    BY <1>4, CallAsks DEF Sum, Others
<1>5. CASE Exist
    BY <1>5, CallAsks DEF Exist, Others
<1>6. CASE Query
    BY <1>6, CallAsks DEF Query, Others
<1>7. CASE Exec
    BY <1>7, CallAsks DEF Exec, Others
<1>8. CASE FindAndCount
    BY <1>8, ReturnAsks DEF FindAndCount
<1>9. CASE Iterate
    BY <1>9, ReturnAsks DEF Iterate
<1>10. CASE Update
    BY <1>10, CallAsks DEF Update
<1>11. CASE Delete
    BY <1>11, CallAsks DEF Delete
<1>12. CASE Insert
    BY <1>12, ReturnAsks DEF Insert, Others
<1>13. CASE InsertOne
    BY <1>13, CallAsks DEF InsertOne, Others
<1>14. CASE OpenRows
  <2>1. asked' = NothingAsked(st' # Fresh) /\ dialect' = dialect
    BY <1>14 DEF OpenRows
  <2>2. last'.op = "Rows"
    BY <1>14 DEF OpenRows
  <2> QED
    BY <2>1, <2>2, FreshAsks DEF Others
<1>15. CASE RowsClose
  <2>1. asked' = NothingAsked(st' # Fresh) /\ dialect' = dialect
    BY <1>15 DEF RowsClose
  <2>2. last'.op = "RowsClose"
    BY <1>15 DEF RowsClose
  <2> QED
    BY <2>1, <2>2, FreshAsks DEF Others
<1>16. CASE RowsScan
  <2>1. Paged(st) => Paged(SetRefBean(st))
    BY RefBeanStmt DEF Base, Paged, Fields
  <2> QED
    BY <1>16, <2>1 DEF RowsScan, Asks, Paged
<1> QED
    BY <1>1, <1>2, <1>3, <1>4, <1>5, <1>6, <1>7, <1>8, <1>9, <1>10, <1>11, <1>12, <1>13, <1>14,
       <1>15, <1>16 DEF DatabaseCall

\* The page is right when the text of the call returns it.
LEMMA ShownPage ==
    ASSUME NEW op, NEW bean, NEW o, NEW res, Recorded(op, bean, o, res), dialect' = dialect,
           ~asked.stale => Shows(o, dialect)
    PROVE  PageIsRight'
<1>1. /\ last'.w = o.w /\ last'.st = o.st /\ last'.asked = asked /\ last'.err = Failed(o.w)
    BY DEF Recorded
<1> SUFFICES ASSUME Sent', ~LegacyPages', ~OrPages'
             PROVE  (LET s == last.st
                         all == Filter(Scan, s.cond.rows)
                         sorted == IF s.orderBy # <<>> /\ Head(s.orderBy) = "desc"
                                   THEN Reverse(all) ELSE all
                     IN  RowsOf(last.w) = Slice(sorted, s.Start, s.LimitN))'
    BY DEF PageIsRight
<1>2. Generated(o) /\ ~asked.stale
    BY <1>1 DEF Sent, Generated
<1>3. RowsOf(o.w) = Selected(dialect, o.st)
    BY <1>1, <1>2 DEF Shows, OrPaged, OrPages
<1>4. dialect # "oracle_legacy" \/ o.st.orderBy = <<>>
    BY <1>1 DEF LegacyPages
<1>5. Selected(dialect, o.st)
        = Slice(Arranged(o.st.orderBy, Matching(o.st.cond.rows)), o.st.Start, o.st.LimitN)
    BY <1>4 DEF Selected, Arranged
<1>6. RowsOf(o.w) = Slice(IF o.st.orderBy # <<>> /\ Head(o.st.orderBy) = "desc"
                          THEN Reverse(Filter(Scan, o.st.cond.rows))
                          ELSE Filter(Scan, o.st.cond.rows), o.st.Start, o.st.LimitN)
    BY <1>3, <1>5 DEF Arranged, Matching
<1> QED
    BY <1>1, <1>6

LEMMA GetPage == ASSUME Base, Asks, Get PROVE PageIsRight'
<1>1. PICK bean \in {"struct", "other", "bad"} :
        LET s == IF bean = "struct" THEN SetRefBean(st) ELSE st
        IN  Call("Get", bean,
                 IF st.LastError THEN Refused(st)
                 ELSE Parsed(bean, IF s.RawSQL THEN Raw(s)
                                   ELSE IF ~s.TableName THEN Refused(s)
                                   ELSE GenGetSQL(dialect, [s EXCEPT !.LimitN = 1], bean)),
                 TRUE)
    BY DEF Get
<1> DEFINE s == IF bean = "struct" THEN SetRefBean(st) ELSE st
           l == [s EXCEPT !.LimitN = 1]
           g == GenGetSQL(dialect, l, bean)
           o == IF st.LastError THEN Refused(st)
                ELSE Parsed(bean, IF s.RawSQL THEN Raw(s) ELSE IF ~s.TableName THEN Refused(s)
                                  ELSE g)
           yes == TRUE
           auto == autoResetStatement
           res == 0
<1>2. Stmt(s)
    BY RefBeanStmt DEF Base
<1>3. o = Refused(st) \/ o = Raw(s) \/ o = Refused(s) \/ o = g
    BY DEF Parsed
<1>4. Return("Get", bean, o, yes, auto, res)
    BY <1>1 DEF Call
<1> HIDE DEF s
<1>5. Stmt(l)
    BY <1>2, LimitStmt
<1>6. Paged(l)
    BY <1>2 DEF Paged, Stmt, Fields, NoLimit
<1> HIDE DEF l
<1>7. Shows(g, dialect)
    BY <1>5, <1>6, GetShows
<1> HIDE DEF g, o, yes, auto, res
<1>8. Shows(o, dialect)
    BY <1>3, <1>7, RefusedShows
<1>9. Recorded("Get", bean, o, res) /\ dialect' = dialect
    BY <1>4, ReturnAsks
<1> QED
    BY <1>8, <1>9, ShownPage

LEMMA FindPage == ASSUME Base, Asks, Find PROVE PageIsRight'
<1>1. PICK bean \in {"struct", "none"}, dest \in {"struct", "other"} :
        Call("Find", bean, find(FindStatement(dest), bean), TRUE)
    BY DEF Find
<1> DEFINE o == find(FindStatement(dest), bean)
           yes == TRUE
           auto == autoResetStatement
           res == 0
<1>2. Return("Find", bean, o, yes, auto, res)
    BY <1>1 DEF Call
<1>3. ~asked.stale => Shows(o, dialect)
    BY findShows DEF Base, Asks
<1> HIDE DEF o, yes, auto, res
<1>4. Recorded("Find", bean, o, res) /\ dialect' = dialect
    BY <1>2, ReturnAsks
<1> QED
    BY <1>3, <1>4, ShownPage

-----------------------------------------------------------------------------
(* The total of FindAndCount.                                               *)

\* A text without a condition.
Open(w) == w \in Texts /\ WhereRows(w) = Rows

LEMMA OpenConcat == \A a, b : Open(a) /\ Open(b) => Open(a \o b)
<1> SUFFICES ASSUME NEW a, NEW b, Open(a), Open(b) PROVE Open(a \o b)
    OBVIOUS
<1>1. a \in Texts /\ b \in Texts /\ WhereRows(a) = Rows /\ WhereRows(b) = Rows
    BY DEF Open
<1>2. a \o b \in Texts /\ WhereRows(a \o b) = WhereRows(a) \cap WhereRows(b)
    BY <1>1, Concat
<1> HIDE DEF Rows
<1> QED
    BY <1>1, <1>2 DEF Open

LEMMA OpenWriters ==
    ASSUME NEW s, Stmt(s), NEW d, NEW counting
    PROVE  /\ Open(Text("SELECT")) /\ Open(writeFrom(d, s)) /\ Open(writeTop(s))
           /\ Open(writeGroupBy(s)) /\ Open(writeHaving(s)) /\ Open(writeForUpdate(d, s))
           /\ Open(writeOracleLimit(s)) /\ Open(writePagination(d, s))
           /\ Open(writeOrderBys(s)) /\ Open(writeOrderBys(AfterSelect(d, s, counting)))
           /\ Open(Text("ORDER BY"))
<1>1. \A k \in ClauseNames : Open(Text(k))
    BY ClauseType, OneClause DEF Text, Open
<1>2. \A w : Open(w) => \A b : Open(When(b, w))
    BY EmptyText DEF Open, When
<1>3. /\ Open(Text("SELECT")) /\ Open(Text("ORDER BY")) /\ Open(writeGroupBy(s))
      /\ Open(writeHaving(s)) /\ Open(writeForUpdate(d, s)) /\ Open(writeJoins(s))
      /\ Open(Text("FROM"))
    BY <1>1, <1>2 DEF writeGroupBy, writeHaving, writeForUpdate, writeJoins, ClauseNames
<1>4. Open(writeIndexHints(d, s))
    BY <1>1, <1>2 DEF writeIndexHints, Fail, ClauseNames
<1>5. Open(writeFrom(d, s))
    BY <1>3, <1>4, OpenConcat DEF writeFrom
<1>6. /\ s.Start \in Nat /\ s.LimitN \in Nat \cup {NoLimit} /\ 0 \in Nat
      /\ (IF s.Start > 0 THEN s.Start ELSE 0) \in Nat
    BY DEF Stmt
<1>7. {"TOP", "ROWNUM", "LIMIT"} \subseteq ClauseNames \ {"ERROR"}
    BY DEF ClauseNames
<1>8. \A k \in {"TOP", "ROWNUM", "LIMIT"}, skip \in Nat, take \in Nat \cup {NoLimit} :
         \A b : Open(When(b, Page(k, skip, take)))
    BY <1>2, <1>7, PageText DEF Open
<1>9. Open(writeTop(s)) /\ Open(writeOracleLimit(s)) /\ Open(writePagination(d, s))
    BY <1>6, <1>8 DEF writeTop, writeOracleLimit, writePagination, writeOffsetFetch,
                      writeLimitOffset
<1>10. Open(writeOrderBys(s)) /\ Open(writeOrderBys(AfterSelect(d, s, counting)))
    BY OrderText DEF Open
<1> QED
    BY <1>3, <1>5, <1>9, <1>10

\* Without an offset a SELECT has the condition of the statement and no other.
LEMMA SelectWhere ==
    ASSUME NEW s, Stmt(s), s.Start = 0, NEW d, NEW counting
    PROVE  WhereRows(writeSelect(d, s, counting)) = s.cond.rows
<1> DEFINE w == writeSelect(d, s, counting)
           order == IF MssqlNeedsOrder(d, s) /\ MssqlByFirstColumn(s, counting)
                    THEN Text("ORDER BY") ELSE writeOrderBys(AfterSelect(d, s, counting))
           Same(v) == v \in Texts /\ WhereRows(v) = s.cond.rows
<1>1. Same(writeWhere(s))
    BY SmallWriters DEF Plain
<1>2. Open(Text("SELECT")) /\ Open(writeFrom(d, s)) /\ Open(writeTop(s))
    BY OpenWriters
<1>3. Open(writeGroupBy(s)) /\ Open(writeHaving(s)) /\ Open(writeForUpdate(d, s))
    BY OpenWriters
<1>4. Open(writeOracleLimit(s)) /\ Open(writePagination(d, s)) /\ Open(writeOrderBys(s))
    BY OpenWriters
<1>5. Open(order)
    BY OpenWriters
<1>6. s.cond.rows \subseteq Rows
    BY DEF Stmt, Conds
<1>7. ASSUME NEW a, NEW b, Open(a), Same(b) PROVE Same(a \o b)
  <2>1. /\ a \o b \in Texts /\ WhereRows(a \o b) = WhereRows(a) \cap WhereRows(b)
        /\ WhereRows(a) = Rows /\ WhereRows(b) = s.cond.rows
    BY <1>7, Concat DEF Open
  <2> QED
    BY <1>6, <2>1, Zenon
<1>8. ASSUME NEW a, NEW b, Same(a), Open(b) PROVE Same(a \o b)
  <2>1. /\ a \o b \in Texts /\ WhereRows(a \o b) = WhereRows(a) \cap WhereRows(b)
        /\ WhereRows(b) = Rows /\ WhereRows(a) = s.cond.rows
    BY <1>8, Concat DEF Open
  <2> QED
    BY <1>6, <2>1, Zenon
<1> HIDE DEF Same, order
<1>9. CASE d = "mssql_legacy"
  <2> DEFINE x == Text("SELECT") \o writeTop(s) \o writeFrom(d, s)
             y == x \o writeWhere(s) \o writeMssqlPaginationCond(d, s)
             z == y \o writeGroupBy(s) \o writeHaving(s) \o writeOrderBys(s)
  <2>1. w = z \o writeForUpdate(d, s)
    BY <1>9 DEF writeSelect, writeMssqlLegacySelect
  <2>2. ~(s.Start > 0)
    OBVIOUS
  <2>3. Open(writeMssqlPaginationCond(d, s))
    BY <2>2, EmptyText DEF writeMssqlPaginationCond, When, Open
  <2>4. Open(x)
    BY <1>2, OpenConcat
  <2> HIDE DEF w, x
  <2>5. Same(y)
    BY <1>1, <1>7, <1>8, <2>3, <2>4
  <2> HIDE DEF y
  <2>6. Same(z)
    BY <1>3, <1>4, <1>8, <2>5
  <2> HIDE DEF z
  <2>7. Same(w)
    BY <1>3, <1>8, <2>1, <2>6
  <2> QED
    BY <2>7 DEF Same, w
<1>10. CASE d = "oracle_legacy"
  <2> DEFINE x == Text("SELECT") \o writeFrom(d, s) \o writeWhere(s) \o writeOracleLimit(s)
             y == x \o writeGroupBy(s) \o writeHaving(s) \o writeOrderBys(s)
  <2>1. w = y \o writeForUpdate(d, s)
    BY <1>10 DEF writeSelect, writeOracleLegacySelect
  <2>2. Open(Text("SELECT") \o writeFrom(d, s))
    BY <1>2, OpenConcat
  <2> HIDE DEF w
  <2>3. Same(x)
    BY <1>1, <1>4, <1>7, <1>8, <2>2
  <2> HIDE DEF x
  <2>4. Same(y)
    BY <1>3, <1>4, <1>8, <2>3
  <2> HIDE DEF y
  <2>5. Same(w)
    BY <1>3, <1>8, <2>1, <2>4
  <2> QED
    BY <2>5 DEF Same, w
<1>11. CASE d \notin {"mssql_legacy", "oracle_legacy"}
  <2> DEFINE x == Text("SELECT") \o writeFrom(d, s) \o writeWhere(s)
             y == x \o writeGroupBy(s) \o writeHaving(s)
             z == y \o order \o writePagination(d, s)
  <2>1. w = z \o writeForUpdate(d, s)
    BY <1>11 DEF writeSelect, order
  <2>2. Open(Text("SELECT") \o writeFrom(d, s))
    BY <1>2, OpenConcat
  <2> HIDE DEF w
  <2>3. Same(x)
    BY <1>1, <1>7, <2>2
  <2> HIDE DEF x
  <2>4. Same(y)
    BY <1>3, <1>8, <2>3
  <2> HIDE DEF y
  <2>5. Same(z)
    BY <1>4, <1>5, <1>8, <2>4
  <2> HIDE DEF z
  <2>6. Same(w)
    BY <1>3, <1>8, <2>1, <2>5
  <2> QED
    BY <2>6 DEF Same, w
<1> QED
    BY <1>9, <1>10, <1>11

\* The length of a page, whichever way it was cut.
LEMMA SelectedLen ==
    ASSUME NEW s, Stmt(s), NEW d
    PROVE  LET n == Cardinality(s.cond.rows)
               m == Stop(n, s.Start, s.LimitN)
           IN  /\ n \in Nat
               /\ Len(Selected(d, s)) = (IF m > s.Start THEN m - s.Start ELSE 0)
<1> DEFINE F == Matching(s.cond.rows)
           A == Arranged(s.orderBy, F)
           S == Slice(F, s.Start, s.LimitN)
           n == Cardinality(s.cond.rows)
           m == Stop(n, s.Start, s.LimitN)
<1>1. s.Start \in Nat /\ s.LimitN \in Nat \cup {NoLimit} /\ s.cond.rows \subseteq Rows
    BY DEF Stmt, Conds
<1>2. F \in Seq(Rows) /\ Up(F) /\ Len(F) = n
    BY <1>1, MatchingProps
<1>3. n \in Nat
    BY <1>2
<1> HIDE DEF F, n
<1>4. A \in Seq(Rows) /\ Len(A) = n
    BY <1>2, ArrangedProps
<1> HIDE DEF A
<1>5. Len(Slice(A, s.Start, s.LimitN)) = (IF m > s.Start THEN m - s.Start ELSE 0)
    BY <1>1, <1>4, SliceElements
<1>6. /\ Len(S) = (IF m > s.Start THEN m - s.Start ELSE 0)
      /\ S \in Seq(Rows)
    BY <1>1, <1>2, SliceElements
<1>7. Up(S)
    BY <1>1, <1>2, RowsInt, SliceOrder
<1> HIDE DEF S, m
<1>8. Len(Arranged(s.orderBy, S)) = Len(S)
    BY <1>6, <1>7, ArrangedProps
<1>9. Len(Selected(d, s)) = (IF m > s.Start THEN m - s.Start ELSE 0)
    BY <1>5, <1>6, <1>8 DEF Selected, S, A, F
<1> QED
    BY <1>3, <1>9 DEF m, n

\* A page that is not full tells the total.
LEMMA TotalRight ==
    ASSUME NEW s, Stmt(s), NEW d, TotalKnown(s, Len(Selected(d, s)))
    PROVE  Len(Selected(d, s)) + s.Start = Cardinality(s.cond.rows)
<1> DEFINE n == Cardinality(s.cond.rows)
           m == Stop(n, s.Start, s.LimitN)
           rows == Len(Selected(d, s))
<1>1. n \in Nat /\ rows = (IF m > s.Start THEN m - s.Start ELSE 0)
    BY SelectedLen
<1>2. s.Start \in Nat /\ s.LimitN \in Nat \cup {NoLimit}
    BY DEF Stmt
<1>3. \/ s.LimitN = NoLimit /\ s.Start = 0
      \/ s.LimitN > 0 /\ rows < s.LimitN /\ (s.Start = 0 \/ rows > 0)
    BY DEF TotalKnown
<1> HIDE DEF n, rows
<1>4. m = IF s.LimitN = NoLimit \/ s.Start + s.LimitN > n THEN n ELSE s.Start + s.LimitN
    BY DEF Stop
<1> HIDE DEF m
<1>5. rows + s.Start = n
    BY <1>1, <1>2, <1>3, <1>4 DEF NoLimit
<1> QED
    BY <1>5 DEF n, rows

LEMMA FindAndCountRight == ASSUME Base, Asks, FindAndCount PROVE FindAndCountTotal'
<1>0. Stmt(st)
    BY DEF Base
<1>1. PICK bean \in {"struct", "none"}, dbErr \in BOOLEAN :
        LET out == find(FindStatement("struct"), bean)
            s == out.st
            rows == Len(RowsOf(out.w))
            all == [s EXCEPT !.SelectStr = FALSE, !.orderBy = <<>>, !.LimitN = NoLimit,
                             !.ColumnMap = IF s.IsDistinct THEN @ ELSE {}, !.Start = 0]
            count == CountQuery(all, "none")
        IN  IF Failed(out.w) \/ dbErr
            THEN Return("FindAndCount", bean, [w |-> Fail, st |-> s], TRUE, FALSE, 0)
            ELSE IF TotalKnown(s, rows)
            THEN Return("FindAndCount", bean, out, TRUE, TRUE, rows + s.Start)
            ELSE Return("FindAndCount", bean, [w |-> count.w, st |-> count.st],
                        count.sent, TRUE, Cardinality(WhereRows(count.w)))
    BY DEF FindAndCount
<1> DEFINE f == FindStatement("struct")
           out == find(f, bean)
           s == out.st
           rows == Len(RowsOf(out.w))
           cols == IF s.IsDistinct THEN s.ColumnMap ELSE {}
           all == [s EXCEPT !.SelectStr = FALSE, !.orderBy = <<>>, !.LimitN = NoLimit,
                            !.ColumnMap = cols, !.Start = 0]
           count == CountQuery(all, "none")
           fail == [w |-> Fail, st |-> s]
           counted == [w |-> count.w, st |-> count.st]
           no == FALSE
           yes == TRUE
           r1 == rows + s.Start
           r2 == Cardinality(WhereRows(count.w))
           r0 == 0
<1>2. IF Failed(out.w) \/ dbErr
      THEN Return("FindAndCount", bean, fail, yes, no, r0)
      ELSE IF TotalKnown(s, rows)
      THEN Return("FindAndCount", bean, out, yes, yes, r1)
      ELSE Return("FindAndCount", bean, counted, count.sent, yes, r2)
    BY <1>1
<1>3. Stmt(s)
  <2> DEFINE dest == "struct"
  <2> HIDE DEF dest
  <2>1. Stmt(FindStatement(dest))
    BY <1>0, FindStmt
  <2>2. Result(find(FindStatement(dest), bean), FindStatement(dest))
    BY <2>1, findResult
  <2> QED
    BY <2>2 DEF dest, Result, From
<1>4. ~asked.stale => Shows(out, dialect) /\ (Generated(out) => s.cond.lead = {})
  <2> DEFINE dest == "struct"
             e == find(FindStatement(dest), bean)
  <2> HIDE DEF dest
  <2>1. ~asked.stale => Shows(e, dialect) /\ (Generated(e) => e.st.cond.lead = {})
    BY <1>0, findShows DEF Asks
  <2> QED
    BY <2>1 DEF dest
<1>5. cols \subseteq ColumnNames
    BY <1>3 DEF Stmt
<1> HIDE DEF f, cols, out, yes, no, r0, r1, r2, rows
<1>6. ASSUME NEW o, NEW res, Recorded("FindAndCount", bean, o, res),
             ~asked.stale /\ Generated(o) => res = Cardinality(o.st.cond.rows)
      PROVE  FindAndCountTotal'
  <2>1. /\ last'.w = o.w /\ last'.st = o.st /\ last'.asked = asked /\ last'.err = Failed(o.w)
        /\ last'.res = res
    BY <1>6 DEF Recorded
  <2>2. Sent' => ~asked.stale /\ Generated(o)
    BY <2>1 DEF Sent, Generated
  <2> QED
    BY <1>6, <2>1, <2>2 DEF FindAndCountTotal
<1>7. CASE Failed(out.w) \/ dbErr
  <2>1. ~Generated(fail)
    BY FailText DEF Generated
  <2> HIDE DEF fail
  <2>2. Recorded("FindAndCount", bean, fail, r0)
    BY <1>2, <1>7, ReturnAsks
  <2> QED
    BY <1>6, <2>1, <2>2
<1>8. CASE ~(Failed(out.w) \/ dbErr) /\ TotalKnown(s, rows)
  <2>1. Recorded("FindAndCount", bean, out, r1)
    BY <1>2, <1>8, ReturnAsks
  <2>2. ASSUME ~asked.stale, Generated(out) PROVE r1 = Cardinality(s.cond.rows)
    <3>1. rows = Len(Selected(dialect, s))
      BY <1>4, <2>2 DEF Shows, OrPaged, rows
    <3> QED
      BY <1>3, <1>8, <3>1, TotalRight DEF r1
  <2> QED
    BY <1>6, <2>1, <2>2
<1>9. CASE ~(Failed(out.w) \/ dbErr) /\ ~TotalKnown(s, rows)
  <2>1. Stmt(all) /\ all.Start = 0
    BY <1>3, <1>5, CountAllStmt
  <2> HIDE DEF all
  <2> DEFINE g == GenCountSQL(dialect, all, "none")
  <2>2. count.st = g.st /\ (Failed(count.w) \/ count.w = g.w)
    BY <2>1, CountQueryResult
  <2>3. counted.w = count.w /\ counted.st = count.st
    OBVIOUS
  <2>4. ASSUME Generated(counted) PROVE r2 = Cardinality(counted.st.cond.rows)
    <3> DEFINE counting == TRUE
               sel == Select(dialect, all, counting)
    <3>1. g = IF all.RawSQL THEN Raw(all) ELSE sel
      BY DEF GenCountSQL
    <3>2. sel.w = writeSelect(dialect, all, counting)
      BY DEF Select
    <3> HIDE DEF counting
    <3>3. sel.st.cond = all.cond /\ WhereRows(writeSelect(dialect, all, counting)) = all.cond.rows
      BY <2>1, SelectResult, SelectWhere
    <3>4. Raw(all).w = Text("RAW")
      BY DEF Raw
    <3> HIDE DEF sel, g, count, counted
    <3>5. count.w = g.w /\ g.w # Text("RAW")
      BY <2>2, <2>3, <2>4 DEF Generated
    <3>6. g = sel
      BY <3>1, <3>4, <3>5
    <3>7. WhereRows(count.w) = counted.st.cond.rows
      BY <2>2, <2>3, <3>2, <3>3, <3>5, <3>6
    <3> QED
      BY <3>7 DEF r2
  <2> DEFINE sent == count.sent
  <2>5. Return("FindAndCount", bean, counted, sent, yes, r2)
    BY <1>2, <1>9
  <2> HIDE DEF counted, sent
  <2>6. Recorded("FindAndCount", bean, counted, r2)
    BY <2>5, ReturnAsks
  <2> QED
    BY <1>6, <2>4, <2>6
<1> QED
    BY <1>7, <1>8, <1>9

-----------------------------------------------------------------------------
(* The limits of Update and Delete.                                         *)

\* t has n records, or as many as there are in R.
Enough(t, n, R) == Len(t) = IF n < Cardinality(R) THEN n ELSE Cardinality(R)

\* The first n of the records in R, and those of R that are among them.
LEMMA FirstRows ==
    ASSUME NEW R \in SUBSET Rows, NEW order, NEW n \in Nat
    PROVE  LET F == Matching(R)
               t == Slice(Arranged(order, F), 0, n)
           IN  /\ t \in Seq(Rows) /\ Enough(t, n, R) /\ Range(t) \in SUBSET R
               /\ Enough(Filter(F, Range(t)), n, R) /\ Enough(Matching(Range(t)), n, R)
<1> DEFINE F == Matching(R)
           A == Arranged(order, F)
           t == Slice(A, 0, n)
           u == Filter(F, Range(t))
           m == Stop(Len(A), 0, n)
<1>1. F \in Seq(Rows) /\ Up(F) /\ Range(F) = R /\ Len(F) = Cardinality(R)
    BY MatchingProps
<1> HIDE DEF F
<1>2. A \in Seq(Rows) /\ Len(A) = Cardinality(R) /\ Range(A) = R /\ (Up(A) \/ Down(A))
    BY <1>1, ArrangedProps
<1> HIDE DEF A
<1>3. /\ m \in Nat /\ m <= Len(A) /\ t \in Seq(Rows)
      /\ Len(t) = (IF m > 0 THEN m - 0 ELSE 0)
      /\ \A i \in 1 .. Len(t) : t[i] = A[0 + i] /\ 0 + i \in 1 .. Len(A)
    BY <1>2, SliceElements
<1>4. Cardinality(R) \in Nat
    BY <1>2
<1>5. Enough(t, n, R)
    BY <1>2, <1>3, <1>4 DEF Enough, Stop, NoLimit
<1>6. Up(t) \/ Down(t)
    BY <1>2, RowsInt, SliceOrder
<1> HIDE DEF t, m
<1>7. Cardinality(Range(t)) = Len(t)
    BY <1>3, <1>6, RowsInt, OrderInjective, InjectiveLen
<1>8. Range(t) \in SUBSET R
  <2>1. \A i \in 1 .. Len(t) : t[i] = A[i] /\ i \in 1 .. Len(A)
    BY <1>3
  <2>2. DOMAIN t = 1 .. Len(t) /\ DOMAIN A = 1 .. Len(A)
    BY <1>2, <1>3
  <2> QED
    BY <1>2, <2>1, <2>2 DEF Range
<1>9. u \in Seq(Rows) /\ Range(u) = Range(F) \cap Range(t) /\ Up(u)
    BY <1>1, FilterProps, FilterOrder
<1> HIDE DEF u
<1>10. Range(u) = Range(t)
    BY <1>1, <1>8, <1>9
<1>11. Cardinality(Range(u)) = Len(u)
    BY <1>9, RowsInt, OrderInjective, InjectiveLen
<1>12. Enough(u, n, R)
    BY <1>5, <1>7, <1>10, <1>11 DEF Enough
<1>13. Len(Matching(Range(t))) = Cardinality(Range(t))
    BY <1>8, MatchingProps
<1>14. Enough(Matching(Range(t)), n, R)
    BY <1>5, <1>7, <1>13 DEF Enough
<1> QED
    BY <1>3, <1>5, <1>8, <1>12, <1>14 DEF u, t, A, F

LEMMA SetsInert == ASSUME NEW s, Stmt(s), NEW bean PROVE Inert(writeUpdateSets(s, bean))
<1> DEFINE a == writeSetColumns(UpdateColumns(s, bean))
           b == writeIncrSets(s)
           c == writeDecrSets(s)
           e == writeExprSets(s)
           v == writeVersionIncrSet(s, bean)
           w == a \o b \o c \o e \o v
<1>1. ASSUME NEW cols \in Seq(ColumnNames) PROVE Inert(SetClause(cols))
  <2> DEFINE k == [Clause("SET") EXCEPT !.cols = cols]
  <2>1. k \in Clauses /\ k.rows = Rows /\ k.k = "SET"
    <3>1. Clause("SET") \in Clauses /\ Clause("SET").rows = Rows /\ Clause("SET").k = "SET"
      BY ClauseType DEF ClauseNames
    <3> QED
      BY <3>1, ColsClause, Zenon
  <2>2. SetClause(cols) = <<k>>
    BY DEF SetClause
  <2> HIDE DEF k
  <2> QED
    BY <2>1, <2>2, FilterClause DEF Ordinary, ClauseNames
<1>2. \A cols \in Seq(ColumnNames) : Inert(writeSetColumns(cols))
    BY <1>1, InertWhen DEF writeSetColumns
<1>3. Inert(a)
    BY <1>2, UpdateColumnsType
<1>4. Inert(b) /\ Inert(c) /\ Inert(e)
    BY <1>2 DEF Stmt, writeIncrSets, writeDecrSets, writeExprSets
<1>5. Inert(v)
  <2>1. <<"ver">> \in Seq(ColumnNames)
    BY DEF ColumnNames
  <2> QED
    BY <1>1, <2>1, InertWhen DEF writeVersionIncrSet
<1>6. writeUpdateSets(s, bean) = IF w = Nothing THEN Fail ELSE w
    BY DEF writeUpdateSets
<1> HIDE DEF a, b, c, e, v
<1>7. Inert(w)
    BY <1>3, <1>4, <1>5, InertConcat
<1> HIDE DEF w
<1>8. Inert(Fail)
    BY InertText DEF Fail, Ordinary, ClauseNames
<1> QED
    BY <1>6, <1>7, <1>8

\* A text that only names the table, followed by conditions.
LEMMA HeadRuns ==
    ASSUME NEW h, Inert(h), NEW c \in Conds
    PROVE  LET w == h \o writeWhereCond(c)
           IN  NoTop(w) /\ Runs(FALSE, w, Scan, Matching(c.rows))
<1>1. Scan \in Seq(Rows) /\ c.rows \subseteq Rows
    BY MatchingProps DEF Conds
<1>2. NoTop(writeWhereCond(c)) /\ Runs(FALSE, writeWhereCond(c), Scan, Matching(c.rows))
    BY <1>1, WhereRuns DEF Matching
<1>3. NoTop(h) /\ h \in Texts /\ Runs(FALSE, h, Scan, Scan)
    BY <1>1, InertConcat DEF Inert
<1> QED
    BY <1>2, <1>3, RunsConcat, InertConcat DEF NoTop

\* WHERE, ORDER BY and LIMIT.
LEMMA LimitedRuns ==
    ASSUME NEW s, Stmt(s), NEW n \in Nat, NEW h, NoTop(h), NEW F, Runs(FALSE, h, Scan, F)
    PROVE  LET w == h \o writeOrderBys(s) \o Page("LIMIT", 0, n)
           IN  w \in Texts /\ RowsOf(w) = Slice(Arranged(s.orderBy, F), 0, n)
<1> DEFINE w == h \o writeOrderBys(s) \o Page("LIMIT", 0, n)
           A == Arranged(s.orderBy, F)
           v == h \o writeOrderBys(s)
           p == Page("LIMIT", 0, n)
<1>1. h \in Texts
    BY DEF NoTop
<1>2. F \in Seq(Rows)
    BY <1>1, RunsTyped
<1>3. NoTop(writeOrderBys(s)) /\ Runs(FALSE, writeOrderBys(s), F, A)
    BY <1>2, OrderRuns
<1>4. A \in Seq(Rows)
    BY <1>3, RunsTyped DEF NoTop
<1>5. NoTop(v) /\ Runs(FALSE, v, Scan, A)
    BY <1>1, <1>3, RunsConcat, InertConcat DEF NoTop
<1>6. NoTop(p) /\ Runs(FALSE, p, A, Slice(A, 0, n))
    BY <1>4, PageRuns
<1> HIDE DEF v, A, p
<1>7. NoTop(v \o p) /\ Runs(FALSE, v \o p, Scan, Slice(A, 0, n))
    BY <1>5, <1>6, RunsConcat, InertConcat DEF NoTop
<1>8. Slice(A, 0, n) \in Seq(Rows)
    BY <1>6, RunsTyped DEF NoTop
<1>9. RowsOf(v \o p) = Slice(A, 0, n)
    BY <1>7, <1>8, RowsOfRuns DEF NoTop
<1> QED
    BY <1>7, <1>9 DEF v, p, A, NoTop

\* A condition on a subquery after it.
LEMMA AmongRuns ==
    ASSUME NEW h, NoTop(h), NEW F, Runs(FALSE, h, Scan, F), NEW b \in Conds, b.lead = {},
           NEW R \in SUBSET Rows, NEW x \in Texts
    PROVE  LET w == h \o SubQuery(b, R, x) IN w \in Texts /\ RowsOf(w) = Filter(F, R)
<1> DEFINE q == SubQuery(b, R, x)
<1>6. R \cup b.lead = R
    OBVIOUS
<1>1. h \in Texts /\ F \in Seq(Rows)
    BY RunsTyped DEF NoTop
<1>2. NoTop(q) /\ Runs(FALSE, q, F, Filter(F, R))
    BY <1>1, <1>6, SubQueryRuns
<1> HIDE DEF q
<1>3. NoTop(h \o q) /\ Runs(FALSE, h \o q, Scan, Filter(F, R))
    BY <1>1, <1>2, RunsConcat, InertConcat DEF NoTop
<1>4. Filter(F, R) \in Seq(Rows)
    BY <1>2, RunsTyped DEF NoTop
<1>5. h \o q \in Texts /\ RowsOf(h \o q) = Filter(F, R)
    BY <1>3, <1>4, RowsOfRuns DEF NoTop
<1> QED
    BY <1>5 DEF q

\* A text whose only TOP takes n records.
Topped(w, n) == w \in Texts /\ \A r \in Seq(Rows) : Runs(TRUE, w, r, Slice(r, 0, n))

LEMMA ToppedConcat ==
    ASSUME NEW n \in Nat
    PROVE  /\ \A a, b : Topped(a, n) /\ NoTop(b) => Topped(a \o b, n)
           /\ \A a, b : NoTop(a) /\ Topped(b, n) => Topped(a \o b, n)
           /\ Topped(Page("TOP", 0, n), n)
           /\ \A r \in Seq(Rows) : Runs(FALSE, Page("TOP", 0, n), r, r)
<1>1. \A r \in Seq(Rows) : Slice(r, 0, n) \in Seq(Rows)
    BY SliceProps
<1>2. ASSUME NEW a, NEW b, Topped(a, n), NoTop(b) PROVE Topped(a \o b, n)
    BY <1>1, <1>2, RunsConcat, Concat DEF Topped, NoTop
<1>3. ASSUME NEW a, NEW b, NoTop(a), Topped(b, n) PROVE Topped(a \o b, n)
    BY <1>1, <1>3, RunsConcat, Concat DEF Topped, NoTop
<1> DEFINE k == "TOP"
           p == Page(k, 0, n)
<1>4. k \in {"LIMIT", "ROWNUM", "TOP"} /\ k = "TOP"
    OBVIOUS
<1> HIDE DEF k
<1>5. p \in Texts /\ \A r \in Seq(Rows) : Runs(FALSE, p, r, r) /\ Runs(TRUE, p, r, Slice(r, 0, n))
    BY <1>4, PageRuns
<1> QED
    BY <1>2, <1>3, <1>5 DEF Topped, k

LEMMA ToppedRows ==
    ASSUME NEW n \in Nat, NEW w, Topped(w, n), NEW F, Runs(FALSE, w, Scan, F)
    PROVE  RowsOf(w) = Slice(F, 0, n)
<1>1. w \in Texts
    BY DEF Topped
<1>2. F \in Seq(Rows)
    BY <1>1, RunsTyped
<1>3. Runs(TRUE, w, F, Slice(F, 0, n))
    BY <1>2 DEF Topped
<1> QED
    BY <1>1, <1>3, RowsOfRuns

\* The subqueries of a limited UPDATE, with LIMIT and with TOP.
LEMMA UpdateSubqueries ==
    ASSUME NEW s, Stmt(s), s.LimitN > 0, NEW c \in Conds
    PROVE  LET n == s.LimitN
               limited == writeWhereCond(c) \o writeOrderBys(s) \o Page("LIMIT", 0, n)
               top == Page("TOP", 0, n) \o writeWhereCond(c) \o writeOrderBys(s)
               t == Slice(Arranged(s.orderBy, Matching(c.rows)), 0, n)
           IN  /\ limited \in Texts /\ RowsOf(limited) = t
               /\ top \in Texts /\ RowsOf(top) = t
<1> DEFINE n == s.LimitN
           F == Matching(c.rows)
           A == Arranged(s.orderBy, F)
           where == writeWhereCond(c)
           order == writeOrderBys(s)
           p == Page("TOP", 0, n)
<1>1. n \in Nat
    BY DEF Stmt, NoLimit
<1>2. Scan \in Seq(Rows) /\ c.rows \subseteq Rows
    BY MatchingProps DEF Conds
<1>3. NoTop(where) /\ Runs(FALSE, where, Scan, F)
    BY <1>2, WhereRuns DEF Matching
<1> HIDE DEF n, where, F
<1>4. /\ where \o order \o Page("LIMIT", 0, n) \in Texts
      /\ RowsOf(where \o order \o Page("LIMIT", 0, n)) = Slice(A, 0, n)
    BY <1>1, <1>3, LimitedRuns
<1>5. F \in Seq(Rows)
    BY <1>3, RunsTyped DEF NoTop
<1>6. NoTop(order) /\ Runs(FALSE, order, F, A)
    BY <1>5, OrderRuns
<1> HIDE DEF order, A
<1>7. Topped(p, n) /\ Runs(FALSE, p, Scan, Scan)
    BY <1>1, <1>2, ToppedConcat
<1> HIDE DEF p
<1>8. Topped(p \o where, n) /\ Runs(FALSE, p \o where, Scan, F)
    BY <1>1, <1>3, <1>7, ToppedConcat, RunsConcat DEF Topped, NoTop
<1> DEFINE pw == p \o where
<1> HIDE DEF pw
<1>9. Topped(pw \o order, n) /\ Runs(FALSE, pw \o order, Scan, A)
    BY <1>1, <1>6, <1>8, ToppedConcat, RunsConcat DEF Topped, NoTop, pw
<1>10. pw \o order \in Texts /\ RowsOf(pw \o order) = Slice(A, 0, n)
    BY <1>1, <1>9, ToppedRows DEF Topped
<1> QED
    BY <1>4, <1>10 DEF n, F, A, where, order, p, pw

\* An UPDATE with a limit, wherever the dialect puts the limit.
LEMMA UpdateLimited ==
    ASSUME NEW d, NEW s, Stmt(s), s.LimitN > 0, NEW c \in Conds, NEW bean,
           ~Failed(WriteUpdate(d, s, c, bean))
    PROVE  Enough(RowsOf(WriteUpdate(d, s, c, bean)), s.LimitN, c.rows)
<1> DEFINE w == WriteUpdate(d, s, c, bean)
           n == s.LimitN
           all == CondAnd(c, joinConds(s))
           sets == writeUpdateSets(s, bean)
           F == Matching(c.rows)
           t == Slice(Arranged(s.orderBy, F), 0, n)
           limited == writeWhereCond(all) \o writeOrderBys(s) \o Page("LIMIT", 0, n)
           top == Page("TOP", 0, n) \o writeWhereCond(all) \o writeOrderBys(s)
<1>1. n \in Nat /\ n # NoLimit
    BY DEF Stmt, NoLimit
<1>2. all \in Conds /\ all.rows = c.rows /\ c.rows \in SUBSET Rows /\ all.lead = {}
  <2>1. all.rows = c.rows \cap Rows
    BY DEF CondAnd, joinConds, NewCond
  <2>2. all \in Conds /\ all.lead = {}
    BY JoinedCond
  <2>3. c.rows \in SUBSET Rows
    BY DEF Conds
  <2> HIDE DEF all
  <2> QED
    BY <2>1, <2>2, <2>3, Zenon
<1> HIDE DEF all
<1>3. /\ t \in Seq(Rows) /\ Enough(t, n, c.rows) /\ Range(t) \in SUBSET c.rows
      /\ Enough(Filter(F, Range(t)), n, c.rows) /\ Enough(Matching(Range(t)), n, c.rows)
    BY <1>1, <1>2, FirstRows
<1>4. Range(t) \in SUBSET Rows
    BY <1>2, <1>3, Zenon
<1>5. /\ limited \in Texts /\ RowsOf(limited) = t
      /\ top \in Texts /\ RowsOf(top) = t
    BY <1>2, UpdateSubqueries
<1>6. Inert(sets) /\ Inert(writeJoins(s)) /\ Inert(Text("UPDATE")) /\ Inert(Text("FROM"))
    BY SetsInert, InertWriters, InertText DEF Ordinary, ClauseNames
<1> HIDE DEF sets, limited, top, t, F, n
<1>7. CASE DBType(d) = "mysql"
  <2> DEFINE h == Text("UPDATE") \o writeJoins(s) \o sets
             hw == h \o writeWhereCond(c)
  <2>1. w = hw \o writeOrderBys(s) \o Page("LIMIT", 0, n)
    BY <1>1, <1>7 DEF WriteUpdate, writeUpdateMySQL, writeUpdateLimit, When, sets, n
  <2>2. Inert(h)
    BY <1>6, InertConcat
  <2> HIDE DEF h
  <2>3. NoTop(hw) /\ Runs(FALSE, hw, Scan, F)
    BY <2>2, HeadRuns DEF F
  <2> HIDE DEF hw, w
  <2>4. RowsOf(w) = t
    BY <1>1, <2>1, <2>3, LimitedRuns DEF t
  <2> QED
    BY <1>3, <2>4 DEF w, n
<1>8. CASE DBType(d) = "mssql"
  <2>1. w = writeUpdateMSSQL(d, s, c, bean)
    BY <1>8 DEF WriteUpdate
  <2> DEFINE h == Text("UPDATE") \o writeUpdateTop(d, s)
             hs == h \o sets \o writeUpdateFrom("mssql", s)
             where == When(~OrderByKey(s), writeWhereCond(all))
             limit == writeUpdateLimit(d, s, all)
  <2>2. w = hs \o where \o limit
    BY <2>1 DEF writeUpdateMSSQL, all, sets
  <2>3. Inert(writeUpdateFrom("mssql", s))
    BY <1>6, InertWhen DEF writeUpdateFrom
  <2> HIDE DEF w
  <2>4. CASE OrderByKey(s)
    <3>1. where = Nothing /\ h = Text("UPDATE") \o Nothing
      BY <2>4 DEF When, writeUpdateTop
    <3>2. limit = SubQuery(NewCond, Range(t), top)
      BY <1>1, <1>5, <1>8, <2>4 DEF writeUpdateLimit, When, top, n
    <3> HIDE DEF h, where, limit
    <3>3. Inert(h) /\ Inert(where)
      BY <1>6, <3>1, InertConcat, InertNothing
    <3>4. Inert(hs)
      BY <1>6, <2>3, <3>3, InertConcat
    <3> HIDE DEF hs
    <3>5. Inert(hs \o where)
      BY <3>3, <3>4, InertConcat
    <3> DEFINE hw == hs \o where
               b == NewCond
    <3>10. b \in Conds /\ b.lead = {}
      BY CondTypes DEF NewCond
    <3>6. Scan \in Seq(Rows)
      BY <1>2, MatchingProps
    <3>7. NoTop(hw) /\ Runs(FALSE, hw, Scan, Scan)
      BY <3>5, <3>6, InertConcat DEF Inert
    <3>8. w = hw \o SubQuery(b, Range(t), top)
      BY <2>2, <3>2
    <3> HIDE DEF hw, b
    <3>9. RowsOf(w) = Filter(Scan, Range(t))
      BY <1>4, <1>5, <3>7, <3>8, <3>10, AmongRuns
    <3> QED
      BY <1>3, <3>9 DEF Matching, w, n
  <2>5. CASE ~OrderByKey(s)
    <3> DEFINE p == Page("TOP", 0, n)
               wh == writeWhereCond(all)
    <3>1. h = Text("UPDATE") \o p
      BY <1>1, <1>8, <2>5 DEF When, writeUpdateTop, writeTop, n
    <3>2. where = wh /\ limit = Nothing
      BY <1>1, <1>8, <2>5 DEF When, writeUpdateLimit, n
    <3>3. Scan \in Seq(Rows)
      BY <1>2, MatchingProps
    <3>4. NoTop(wh) /\ Runs(FALSE, wh, Scan, F)
      BY <1>2, <3>3, WhereRuns DEF F, Matching
    <3>5. Topped(p, n) /\ Runs(FALSE, p, Scan, Scan)
      BY <1>1, <3>3, ToppedConcat
    <3> HIDE DEF h, where, limit, p, wh
    <3>6. Topped(h, n) /\ Runs(FALSE, h, Scan, Scan)
      BY <1>1, <1>6, <3>1, <3>3, <3>5, ToppedConcat, InertConcat, RunsConcat DEF Topped, Inert
    <3>7. Topped(hs, n) /\ Runs(FALSE, hs, Scan, Scan)
      <4>1. Topped(h \o sets, n) /\ Runs(FALSE, h \o sets, Scan, Scan)
        BY <1>1, <1>6, <3>3, <3>6, ToppedConcat, InertConcat, RunsConcat DEF Topped, Inert
      <4> QED
        BY <1>1, <2>3, <3>3, <4>1, ToppedConcat, InertConcat, RunsConcat DEF Topped, Inert
    <3> HIDE DEF hs
    <3>8. Topped(hs \o where, n) /\ Runs(FALSE, hs \o where, Scan, F)
      BY <1>1, <3>2, <3>4, <3>7, ToppedConcat, RunsConcat DEF Topped, NoTop
    <3> DEFINE hw == hs \o where
    <3>9. w = hw
      <4>1. hw \in Texts
        BY <3>8 DEF Topped
      <4> HIDE DEF hw
      <4> QED
        BY <2>2, <3>2, <4>1 DEF Nothing, Texts, hw
    <3>10. RowsOf(w) = Slice(F, 0, n)
      BY <1>1, <3>8, <3>9, ToppedRows
    <3>11. Enough(Slice(F, 0, n), n, c.rows)
      <4> DEFINE order == <<>>
      <4>1. Arranged(order, F) = F
        BY DEF Arranged
      <4> HIDE DEF order
      <4>2. Enough(Slice(Arranged(order, F), 0, n), n, c.rows)
        BY <1>1, <1>2, FirstRows DEF F
      <4> QED
        BY <4>1, <4>2
    <3> QED
      BY <3>10, <3>11 DEF w, n
  <2> QED
    BY <2>4, <2>5
<1>9. CASE DBType(d) \notin {"mysql", "mssql"}
  <2> DEFINE h == Text("UPDATE") \o sets \o writeUpdateFrom(d, s)
             hw == h \o writeWhereCond(all)
             limit == writeUpdateLimit(d, s, all)
  <2>1. w = hw \o limit
    BY <1>9 DEF WriteUpdate, writeUpdateCommon, sets, all
  <2>2. Inert(writeUpdateFrom(d, s))
    BY <1>6, InertWhen DEF writeUpdateFrom
  <2>3. Inert(h)
    BY <1>6, <2>2, InertConcat
  <2> HIDE DEF h
  <2>4. NoTop(hw) /\ Runs(FALSE, hw, Scan, F)
    BY <1>2, <2>3, HeadRuns DEF F
  <2>5. CASE DBType(d) \in {"sqlite3", "postgres"}
    <3>1. limit = SubQuery(all, Range(t), limited)
      BY <1>1, <1>5, <2>5 DEF writeUpdateLimit, When, limited, n
    <3> HIDE DEF hw, limit, w
    <3>2. w = hw \o SubQuery(all, Range(t), limited)
      BY <2>1, <3>1
    <3>3. RowsOf(w) = Filter(F, Range(t))
      BY <1>2, <1>4, <1>5, <2>4, <3>2, AmongRuns
    <3> QED
      BY <1>3, <3>3 DEF w, n
  <2>6. CASE DBType(d) \notin {"sqlite3", "postgres"}
    <3>1. limit = Fail
      BY <1>1, <1>9, <2>6 DEF writeUpdateLimit, When, n
    <3>2. hw \in Texts
      BY <2>4 DEF NoTop
    <3> HIDE DEF hw, limit
    <3>3. Failed(hw \o limit)
      BY <3>1, <3>2, FailText, Concat
    <3> QED
      BY <2>1, <3>3
  <2> QED
    BY <2>5, <2>6
<1> QED
    BY <1>7, <1>8, <1>9

\* A DELETE with a limit, but for the subquery that forgets the condition.
LEMMA DeleteLimited ==
    ASSUME NEW d, NEW s, Stmt(s), s.LimitN > 0, ~Failed(WriteDelete(d, s)),
           DBType(d) \notin {"postgres", "sqlite3"} \/ ~s.cond.valid
    PROVE  Enough(RowsOf(WriteDelete(d, s)), s.LimitN, s.cond.rows)
<1> DEFINE w == WriteDelete(d, s)
           n == s.LimitN
           c == s.cond
           F == Matching(c.rows)
           t == Slice(Arranged(s.orderBy, F), 0, n)
           h == IF s.unscoped \/ ~s.RefTable THEN Text("DELETE")
                ELSE Text("UPDATE") \o SetClause(<<"deleted">>)
           hw == h \o writeWhere(s)
           p == Page("LIMIT", 0, n)
           order == writeOrderBys(s) \o p
           limit == writeOrderCond(d, s)
<1>1. n \in Nat /\ n > 0
    BY DEF Stmt, NoLimit
<1>2. c \in Conds /\ c.rows \in SUBSET Rows /\ Scan \in Seq(Rows)
    BY MatchingProps DEF Stmt, Conds
<1>3. /\ t \in Seq(Rows) /\ Enough(t, n, c.rows) /\ Range(t) \in SUBSET c.rows
      /\ Enough(Matching(Range(t)), n, c.rows)
    BY <1>1, <1>2, FirstRows
<1>4. w = hw \o limit
    BY DEF WriteDelete
<1>5. Inert(h)
  <2>1. Inert(Text("DELETE")) /\ Inert(Text("UPDATE"))
    BY InertText DEF Ordinary, ClauseNames
  <2> DEFINE k == [Clause("SET") EXCEPT !.cols = <<"deleted">>]
  <2>2. k \in Clauses /\ k.rows = Rows /\ k.k = "SET"
    <3>1. Clause("SET") \in Clauses /\ Clause("SET").rows = Rows /\ Clause("SET").k = "SET"
      BY ClauseType DEF ClauseNames
    <3>2. <<"deleted">> \in Seq(ColumnNames)
      BY DEF ColumnNames
    <3> QED
      BY <3>1, <3>2, ColsClause, Zenon
  <2>3. SetClause(<<"deleted">>) = <<k>>
    BY DEF SetClause
  <2> HIDE DEF k
  <2>4. Inert(SetClause(<<"deleted">>))
    BY <2>2, <2>3, FilterClause DEF Ordinary, ClauseNames
  <2> QED
    BY <2>1, <2>4, InertConcat
<1> HIDE DEF h
<1>6. NoTop(hw) /\ Runs(FALSE, hw, Scan, F)
    BY <1>2, <1>5, HeadRuns DEF writeWhere
<1>7. NoTop(writeOrderBys(s)) /\ ~Failed(writeOrderBys(s))
    BY OrderRuns, OrderText
<1>8. p \in Texts /\ ~Failed(p)
  <2> DEFINE k == "LIMIT"
  <2>1. k \in {"LIMIT", "ROWNUM", "TOP"}
    OBVIOUS
  <2> HIDE DEF k
  <2>2. Page(k, 0, n) \in Texts /\ ~Failed(Page(k, 0, n))
    BY <1>1, <2>1, PageRuns
  <2> QED
    BY <2>2 DEF k
<1>9. writeDeleteOrder(s) = IF s.Start > 0 THEN writeOrderBys(s) \o Fail ELSE order
    BY <1>1 DEF writeDeleteOrder, When
<1>10. hw \in Texts
    BY <1>6 DEF NoTop
<1>11. order \in Texts /\ ~Failed(order) /\ order # Nothing
  <2>1. order \in Texts /\ ~Failed(order)
    BY <1>7, <1>8, Concat DEF NoTop
  <2>2. Len(p) = 1 /\ Len(order) = Len(writeOrderBys(s)) + Len(p) /\ Len(writeOrderBys(s)) \in Nat
    BY <1>7, <1>8 DEF NoTop, Texts, Page
  <2>3. Len(Nothing) = 0
    BY DEF Nothing
  <2> HIDE DEF order
  <2> QED
    BY <2>1, <2>2, <2>3
<1> HIDE DEF hw, p, w, order, t, F, n, limit
<1>12. ~Failed(limit) \/ limit \notin Texts
    BY <1>4, <1>10, Concat DEF w
<1>13. Fail \in Texts /\ Failed(Fail)
    BY FailText
<1>14. Failed(writeOrderBys(s) \o Fail)
    BY <1>7, <1>13, Concat DEF NoTop
<1>15. writeDeleteOrder(s) = order
  <2>1. CASE s.Start > 0
    <3>1. limit = Fail
      BY <1>9, <1>14, <2>1 DEF writeOrderCond, limit
    <3> QED
      BY <1>12, <1>13, <3>1
  <2>2. CASE ~(s.Start > 0)
    BY <1>9, <2>2
  <2> QED
    BY <2>1, <2>2
<1>16. limit = CASE DBType(d) \in {"postgres", "sqlite3"} ->
                       SubQuery(s.cond, Range(RowsOf(order)), order)
                 [] DBType(d) = "mssql" -> Fail
                 [] OTHER -> order
    BY <1>11, <1>15 DEF writeOrderCond, limit
<1>17. CASE DBType(d) \in {"postgres", "sqlite3"}
  <2>1. ~c.valid /\ c.rows = Rows /\ c.lead = {}
    BY <1>2, <1>17 DEF Conds
  <2>2. F = Scan
    BY <1>2, <2>1, MatchingProps, FilterOrder DEF F, Matching
  <2>3. NoTop(Nothing) /\ Runs(FALSE, Nothing, Scan, Scan)
    BY <1>2, InertNothing, InertConcat DEF Inert
  <2>4. RowsOf(order) = t
    <3> DEFINE o == writeOrderBys(s)
    <3>1. /\ Nothing \o o \o Page("LIMIT", 0, n) \in Texts
          /\ RowsOf(Nothing \o o \o Page("LIMIT", 0, n)) = t
      BY <1>1, <2>2, <2>3, LimitedRuns DEF t
    <3>2. Nothing \o o = o
      BY <1>7 DEF Nothing, NoTop, Texts
    <3> QED
      BY <3>1, <3>2 DEF order, p
  <2>5. limit = SubQuery(c, Range(t), order)
    BY <1>16, <1>17, <2>4
  <2>6. Range(t) \in SUBSET Rows
    BY <1>2, <1>3, Zenon
  <2> HIDE DEF c
  <2>7. RowsOf(hw \o SubQuery(c, Range(t), order)) = Filter(F, Range(t))
    BY <1>2, <1>6, <1>11, <2>1, <2>6, AmongRuns
  <2>8. RowsOf(w) = Matching(Range(t))
    BY <1>4, <2>2, <2>5, <2>7 DEF Matching
  <2> QED
    BY <1>3, <2>8 DEF w, n, c
<1>18. CASE DBType(d) = "mssql"
    BY <1>12, <1>13, <1>16, <1>18
<1>19. CASE DBType(d) \notin {"postgres", "sqlite3", "mssql"}
  <2>1. limit = writeOrderBys(s) \o p
    BY <1>16, <1>19 DEF order
  <2> DEFINE o == writeOrderBys(s)
  <2>2. w = hw \o o \o p
    <3>1. o \in Texts
      BY <1>7 DEF NoTop
    <3> HIDE DEF o
    <3> QED
      BY <1>4, <1>8, <1>10, <2>1, <3>1 DEF Texts, o
  <2>3. RowsOf(hw \o o \o Page("LIMIT", 0, n)) = t
    BY <1>1, <1>6, LimitedRuns DEF t
  <2>4. RowsOf(w) = t
    BY <2>2, <2>3 DEF p
  <2> QED
    BY <1>3, <2>4 DEF w, n
<1> QED
    BY <1>17, <1>18, <1>19

LEMMA UpdateExact == ASSUME Base, Update PROVE LimitExact'
<1>0. Stmt(st)
    BY DEF Base
<1>1. PICK bean \in {"struct", "map", "bad"}, condiBean \in {"struct", "none"} :
        LET s == IF bean = "struct" THEN SetRefBean(st) ELSE st
            s2 == ProcessIDParam(s)
            out == IF st.LastError \/ bean = "bad" THEN Refused(st)
                   ELSE IF IdFails(s) THEN Refused(s)
                   ELSE [w |-> WriteUpdate(dialect, s2, UpdateCond(s2, bean, condiBean), bean),
                         st |-> s2]
        IN  Call("Update", <<bean, condiBean>>, out, TRUE)
    BY DEF Update
<1> DEFINE s == IF bean = "struct" THEN SetRefBean(st) ELSE st
           s2 == ProcessIDParam(s)
           c == UpdateCond(s2, bean, condiBean)
           w == WriteUpdate(dialect, s2, c, bean)
           new == [w |-> w, st |-> s2]
           o == IF st.LastError \/ bean = "bad" THEN Refused(st)
                ELSE IF IdFails(s) THEN Refused(s) ELSE new
           arg == <<bean, condiBean>>
           yes == TRUE
           auto == autoResetStatement
           res == 0
<1>2. Return("Update", arg, o, yes, auto, res) /\ arg[1] = bean /\ arg[2] = condiBean
    BY <1>1 DEF Call
<1> HIDE DEF arg, yes, auto, res, new
<1>3. o = Refused(st) \/ o = Refused(s) \/ o = new
  <2> HIDE DEF s
  <2> QED
    OBVIOUS
<1> HIDE DEF o
<1>4. Stmt(s)
    BY <1>0, RefBeanStmt
<1> HIDE DEF s
<1>5. Stmt(s2)
    BY <1>4, IdNarrows DEF Narrows
<1> HIDE DEF s2
<1>6. c \in Conds
    BY <1>5, UpdateCondType
<1> HIDE DEF c
<1>7. ~Failed(w) /\ s2.LimitN > 0 => Enough(RowsOf(w), s2.LimitN, c.rows)
    BY <1>5, <1>6, UpdateLimited
<1>8. new.w = w /\ new.st = s2
    BY DEF new
<1> HIDE DEF w
<1>9. Recorded("Update", arg, o, res)
    BY <1>2, ReturnAsks
<1>10. /\ last'.w = o.w /\ last'.st = o.st /\ last'.err = Failed(o.w) /\ last'.op = "Update"
       /\ last'.bean = arg
    BY <1>9 DEF Recorded
<1>11. CASE o = Refused(st) \/ o = Refused(s)
  <2>1. Failed(o.w)
    BY <1>11, FailText DEF Refused
  <2> QED
    BY <1>10, <2>1 DEF LimitExact, Sent
<1>12. CASE o = new
  <2>1. /\ last'.w = w /\ last'.st = s2 /\ last'.err = Failed(w) /\ last'.op = "Update"
        /\ last'.bean[1] = bean /\ last'.bean[2] = condiBean
    BY <1>2, <1>8, <1>10, <1>12
  <2>2. Sent' => ~Failed(w)
    BY <2>1 DEF Sent
  <2>3. UpdateCond(s2, bean, condiBean) = c
    BY DEF c
  <2>4. ASSUME Sent', s2.LimitN > 0
        PROVE  LET n == Cardinality(c.rows)
               IN  Len(RowsOf(w)) = IF s2.LimitN < n THEN s2.LimitN ELSE n
    BY <1>7, <2>2, <2>4 DEF Enough
  <2> QED
    BY <2>1, <2>3, <2>4 DEF LimitExact
<1> QED
    BY <1>3, <1>11, <1>12

LEMMA DeleteExact == ASSUME Base, Delete PROVE LimitExact'
<1>0. Stmt(st)
    BY DEF Base
<1>1. PICK bean \in {"struct", "none", "bad"}, mustHaveConditions \in BOOLEAN :
        LET s == IF bean = "struct" THEN SetRefBean(st) ELSE st
            s2 == IF bean = "struct" THEN MergeConds(s) ELSE s
            needs == mustHaveConditions /\ ~s2.cond.valid /\ s2.LimitN <= 0
            out == IF st.LastError \/ bean = "bad" THEN Refused(st)
                   ELSE IF (bean = "struct" /\ IdFails(s)) \/ needs THEN Refused(s2)
                   ELSE [w |-> WriteDelete(dialect, s2), st |-> s2]
        IN  Call("Delete", bean, out, ~Failed(out.w))
    BY DEF Delete
<1> DEFINE s == IF bean = "struct" THEN SetRefBean(st) ELSE st
           s2 == IF bean = "struct" THEN MergeConds(s) ELSE s
           needs == mustHaveConditions /\ ~s2.cond.valid /\ s2.LimitN <= 0
           w == WriteDelete(dialect, s2)
           new == [w |-> w, st |-> s2]
           o == IF st.LastError \/ bean = "bad" THEN Refused(st)
                ELSE IF (bean = "struct" /\ IdFails(s)) \/ needs THEN Refused(s2) ELSE new
           resets == ~Failed(o.w)
           auto == autoResetStatement
           res == 0
<1>2. Return("Delete", bean, o, resets, auto, res)
    BY <1>1 DEF Call
<1> HIDE DEF resets, auto, res, new
<1>3. o = Refused(st) \/ o = Refused(s2) \/ o = new
  <2> HIDE DEF s, s2, needs
  <2> QED
    OBVIOUS
<1> HIDE DEF o
<1>4. Stmt(s)
    BY <1>0, RefBeanStmt
<1> HIDE DEF s
<1>5. Stmt(s2)
    BY <1>4, MergeNarrows DEF Narrows
<1> HIDE DEF s2
<1>6. ~Failed(w) /\ s2.LimitN > 0
        /\ (DBType(dialect) \notin {"postgres", "sqlite3"} \/ ~s2.cond.valid) =>
           Enough(RowsOf(w), s2.LimitN, s2.cond.rows)
    BY <1>5, DeleteLimited
<1>7. new.w = w /\ new.st = s2
    BY DEF new
<1> HIDE DEF w
<1>8. Recorded("Delete", bean, o, res) /\ dialect' = dialect
    BY <1>2, ReturnAsks
<1>9. last'.w = o.w /\ last'.st = o.st /\ last'.err = Failed(o.w) /\ last'.op = "Delete"
    BY <1>8 DEF Recorded
<1>10. CASE o = Refused(st) \/ o = Refused(s2)
  <2>1. Failed(o.w)
    BY <1>10, FailText DEF Refused
  <2> QED
    BY <1>9, <2>1 DEF LimitExact, Sent
<1>11. CASE o = new
  <2>1. last'.w = w /\ last'.st = s2 /\ last'.err = Failed(w) /\ last'.op = "Delete"
    BY <1>7, <1>9, <1>11
  <2>2. Sent' => ~Failed(w)
    BY <2>1 DEF Sent
  <2>3. DeletesFewer' <=> DBType(dialect) \in {"postgres", "sqlite3"} /\ s2.cond.valid
    BY <1>8, <2>1 DEF DeletesFewer, DBType
  <2>4. ASSUME Sent', s2.LimitN > 0, ~DeletesFewer'
        PROVE  LET n == Cardinality(s2.cond.rows)
               IN  Len(RowsOf(w)) = IF s2.LimitN < n THEN s2.LimitN ELSE n
    BY <1>6, <2>2, <2>3, <2>4 DEF Enough
  <2> QED
    BY <2>1, <2>4 DEF LimitExact
<1> QED
    BY <1>3, <1>10, <1>11

-----------------------------------------------------------------------------
(* The pages of a buffered iteration.                                       *)

LEMMA SliceConcat ==
    ASSUME NEW T, NEW s \in Seq(T), NEW a \in Nat, a <= Len(s), NEW b \in Nat
    PROVE  LET g == Slice(s, a, b)
           IN  /\ Len(g) \in Nat /\ Len(g) <= b /\ a + Len(g) <= Len(s)
               /\ Len(g) < b => a + Len(g) = Len(s)
               /\ Slice(s, 0, a) \o g = Slice(s, 0, a + Len(g))
<1> DEFINE g == Slice(s, a, b)
           f == Slice(s, 0, a)
           m == Stop(Len(s), a, b)
           n == a + Len(g)
           h == Slice(s, 0, n)
<1>0. Len(s) \in Nat
    OBVIOUS
<1>1. /\ m \in Nat /\ m <= Len(s) /\ g \in Seq(T)
      /\ Len(g) = (IF m > a THEN m - a ELSE 0)
      /\ \A i \in 1 .. Len(g) : g[i] = s[a + i] /\ a + i \in 1 .. Len(s)
    BY SliceElements
<1>2. m = IF a + b > Len(s) THEN Len(s) ELSE a + b
    BY DEF Stop, NoLimit
<1> HIDE DEF m, g
<1>3. Len(g) \in Nat /\ Len(g) <= b /\ n <= Len(s) /\ (Len(g) < b => n = Len(s)) /\ n \in Nat
    BY <1>0, <1>1, <1>2
<1>4. /\ f \in Seq(T) /\ Len(f) = a
      /\ \A i \in 1 .. a : f[i] = s[i]
  <2>1. /\ f \in Seq(T)
        /\ Len(f) = (IF Stop(Len(s), 0, a) > 0 THEN Stop(Len(s), 0, a) - 0 ELSE 0)
        /\ \A i \in 1 .. Len(f) : f[i] = s[0 + i]
    BY SliceElements
  <2>2. Stop(Len(s), 0, a) = a
    BY <1>0 DEF Stop, NoLimit
  <2> QED
    BY <2>1, <2>2
<1>5. /\ h \in Seq(T) /\ Len(h) = n
      /\ \A i \in 1 .. n : h[i] = s[i]
  <2> HIDE DEF n
  <2>1. /\ h \in Seq(T)
        /\ Len(h) = (IF Stop(Len(s), 0, n) > 0 THEN Stop(Len(s), 0, n) - 0 ELSE 0)
        /\ \A i \in 1 .. Len(h) : h[i] = s[0 + i]
    BY <1>3, SliceElements
  <2>2. Stop(Len(s), 0, n) = n
    BY <1>0, <1>3 DEF Stop, NoLimit
  <2> QED
    BY <1>3, <2>1, <2>2
<1> HIDE DEF f, h
<1>6. /\ f \o g \in Seq(T) /\ Len(f \o g) = n
      /\ \A i \in 1 .. n : (f \o g)[i] = IF i <= a THEN f[i] ELSE g[i - a]
    BY <1>1, <1>4
<1>7. \A i \in 1 .. n : i > a => i - a \in 1 .. Len(g) /\ a + (i - a) = i
    BY <1>1
<1>8. ASSUME NEW i \in 1 .. n PROVE (f \o g)[i] = h[i]
  <2>1. CASE i <= a
    <3>1. i \in 1 .. a
      BY <1>3, <2>1
    <3> QED
      BY <1>4, <1>5, <1>6, <2>1, <3>1
  <2>2. CASE i > a
    <3>1. (f \o g)[i] = g[i - a]
      BY <1>3, <1>6, <2>2
    <3>2. g[i - a] = s[a + (i - a)] /\ a + (i - a) = i
      BY <1>1, <1>7, <2>2
    <3>3. g[i - a] = s[i]
      BY <3>2
    <3> QED
      BY <1>5, <3>1, <3>3
  <2>3. i <= a \/ i > a
    BY <1>3
  <2> QED
    BY <2>1, <2>2, <2>3, Zenon
<1>9. f \o g = h
    BY <1>5, <1>6, <1>8
<1> QED
    BY <1>3, <1>9 DEF f, g, h

\* u is a statement that a page leaves behind: but for the page it asks for it selects
\* what t does, in the same order, once the condition c is there.
Leaves(u, t, c) ==
    /\ Stmt(u)
    /\ u.cond.rows \cap c.rows = t.cond.rows \cap c.rows
    /\ \A f \in Fields \ {"cond", "orderBy", "LimitN", "Start"} : u[f] = t[f]
    /\ \A r : Arranged(u.orderBy, r) = Arranged(t.orderBy, r)
    /\ dialect = "oracle_legacy" => u.orderBy = t.orderBy

\* All that t selects under c, sorted.
Whole(t, c) == Arranged(t.orderBy, Matching(t.cond.rows \cap c.rows))

Legacy(t) == dialect = "oracle_legacy" /\ t.orderBy # <<>>

\* SELECT with the condition added: its records, and the statement after it.
LEMMA AddedSelect ==
    ASSUME NEW t, NEW c \in Conds, NEW v, Leaves(v, t, c), Paged(v)
    PROVE  LET x == [v EXCEPT !.cond = CondAnd(@, c)]
               o == Select(dialect, x, FALSE)
           IN  /\ Leaves(o.st, t, c)
               /\ ~Failed(o.w) \/ v.Start = 0 =>
                     Legacy(t) \/ RowsOf(o.w) = Slice(Whole(t, c), v.Start, v.LimitN)
<1> DEFINE x == [v EXCEPT !.cond = CondAnd(@, c)]
           no == FALSE
           o == Select(dialect, x, no)
           y == AfterSelect(dialect, x, no)
           R == t.cond.rows \cap c.rows
<1>1. Stmt(v)
    BY DEF Leaves
<1>2. Narrows(x, v) /\ x.cond.rows = v.cond.rows \cap c.rows /\ x.cond.lead = {}
    BY <1>1, AndNarrows
<1>3. x.orderBy = v.orderBy
    BY <1>1 DEF Stmt, Fields
<1> HIDE DEF x, no
<1>4. x.cond.rows = R
    BY <1>2 DEF Leaves
<1>5. Stmt(x) /\ Paged(x)
    BY <1>2, NarrowsPaged DEF Narrows
<1>6. o.w = writeSelect(dialect, x, no) /\ o.st = y
    BY DEF Select
<1>7. Narrows(y, x)
    BY <1>5, SelectNarrows
<1>8. y.cond = x.cond
    BY <1>5, <1>6, SelectResult
<1>9. \A r : Arranged(y.orderBy, r) = Arranged(x.orderBy, r)
    BY <1>5, SelectOrder
<1>10. dialect = "oracle_legacy" => y.orderBy = x.orderBy
    BY DEF AfterSelect, MssqlNeedsOrder
<1>11. ~Failed(o.w) \/ x.Start = 0 => RowsOf(o.w) = Selected(dialect, x)
    BY <1>2, <1>5, <1>6, SelectRows DEF OrPaged
<1> HIDE DEF o, y
<1>12. /\ Stmt(y)
       /\ \A f \in Fields \ {"cond", "orderBy", "LimitN", "Start"} : y[f] = t[f]
       /\ x.Start = v.Start /\ x.LimitN = v.LimitN
    BY <1>2, <1>7 DEF Narrows, Leaves, Fields
<1>13. y.cond.rows \cap c.rows = R
    BY <1>4, <1>8
<1>14. Leaves(y, t, c)
    BY <1>3, <1>9, <1>10, <1>12, <1>13 DEF Leaves
<1>15. \A r : Arranged(x.orderBy, r) = Arranged(t.orderBy, r)
    BY <1>3 DEF Leaves
<1>16. Legacy(t) \/ Selected(dialect, x) = Slice(Whole(t, c), v.Start, v.LimitN)
  <2>1. CASE dialect # "oracle_legacy"
    BY <1>4, <1>12, <1>15, <2>1 DEF Selected, Whole
  <2>2. CASE dialect = "oracle_legacy" /\ t.orderBy = <<>>
    <3>1. \A r : Arranged(t.orderBy, r) = r
      BY <2>2 DEF Arranged
    <3> QED
      BY <1>4, <1>12, <1>15, <2>2, <3>1 DEF Selected, Whole
  <2> QED
    BY <2>1, <2>2 DEF Legacy
<1> QED
    BY <1>6, <1>11, <1>12, <1>14, <1>16 DEF o, x, no

\* How far the pages have come after i steps, of the records w and the limit n.
Reached(p, i, w, n) ==
    /\ p.start \in Nat /\ p.start <= Stop(Len(w), 0, n)
    /\ p.rows = Slice(w, 0, p.start)
    /\ p.size \in Nat /\ (n # NoLimit => p.start + p.size <= n)
    /\ p.done \/ p.size = 0 => p.start = Stop(Len(w), 0, n)
    /\ p.done \/ p.size = 0 \/ i <= p.start

\* A page that is full goes on, another one is the last.
LEMMA NextReached ==
    ASSUME NEW w \in Seq(Rows), NEW n \in Nat \cup {NoLimit}, NEW i \in Nat,
           NEW p, Reached(p, i, w, n), ~p.done, p.size > 0,
           NEW got, got = Slice(w, p.start, p.size),
           NEW q, q.start = p.start + Len(got), q.rows = p.rows \o got,
           q.done = (p.size > Len(got)), q.size = NextSize(n, p.start + Len(got), p.size)
    PROVE  Reached(q, i + 1, w, n)
<1> DEFINE N == Len(w)
           S == Stop(N, 0, n)
           a == p.start
           b == p.size
           l == Len(got)
           next == a + l
<1>0. N \in Nat /\ n \in Int
    BY DEF NoLimit
<1>1. S = IF n = NoLimit \/ n > N THEN N ELSE n
    BY <1>0 DEF Stop, NoLimit
<1>2. a \in Nat /\ a <= S /\ b \in Nat /\ (n # NoLimit => a + b <= n) /\ i <= a /\ b > 0
    BY DEF Reached
<1>3. p.rows = Slice(w, 0, a)
    BY DEF Reached
<1>4. a <= N
    BY <1>0, <1>1, <1>2 DEF NoLimit
<1>5. /\ l \in Nat /\ l <= b /\ next <= N
      /\ l < b => next = N
      /\ Slice(w, 0, a) \o got = Slice(w, 0, next)
    BY <1>2, <1>4, SliceConcat
<1> HIDE DEF S, a, b, l, N
<1>6. next \in Nat /\ next <= S
    BY <1>0, <1>1, <1>2, <1>5 DEF NoLimit
<1>7. q.rows = Slice(w, 0, next)
    BY <1>3, <1>5 DEF a, l
<1>8. q.size = IF n # NoLimit /\ next + b > n THEN n - next ELSE b
    BY DEF NextSize, a, b, l
<1>9. q.size \in Nat /\ (n # NoLimit => next + q.size <= n)
    BY <1>0, <1>1, <1>2, <1>5, <1>6, <1>8 DEF NoLimit
<1>10. (b > l) \/ q.size = 0 => next = S
    BY <1>0, <1>1, <1>2, <1>5, <1>6, <1>8 DEF NoLimit
<1>11. (b > l) \/ i + 1 <= next
    BY <1>2, <1>5
<1>12. q.start = next /\ q.done = (b > l)
    BY DEF a, b, l
<1> HIDE DEF next
<1> QED
    BY <1>6, <1>7, <1>9, <1>10, <1>11, <1>12 DEF Reached, S, N

\* What holds after i pages, but for an error.
GoodPage(p, i, t, c) ==
    \/ p.done /\ Failed(p.w)
    \/ Leaves(p.st, t, c) /\ (Legacy(t) \/ Reached(p, i, Whole(t, c), t.LimitN))

LEMMA FirstGood ==
    ASSUME NEW t, Stmt(t), t.Start = 0, t.BufferSize > 0, NEW c \in Conds
    PROVE  GoodPage(FirstPage(t), 0, t, c)
<1> DEFINE p == FirstPage(t)
           w == Whole(t, c)
           n == t.LimitN
           R == t.cond.rows \cap c.rows
<1>1. /\ p.st = t /\ p.start = 0 /\ p.rows = <<>> /\ p.done = FALSE
      /\ p.size = IF n # NoLimit /\ t.BufferSize > n THEN n ELSE t.BufferSize
    BY DEF FirstPage
<1>2. n \in Nat \cup {NoLimit} /\ t.BufferSize \in Nat /\ R \subseteq Rows
    BY DEF Stmt, Conds
<1>3. w \in Seq(Rows)
    BY <1>2, MatchingProps, ArrangedProps DEF Whole
<1> HIDE DEF p, w, n
<1>4. Leaves(p.st, t, c)
    BY <1>1 DEF Leaves
<1>5. Stop(Len(w), 0, n) \in Nat /\ (n = 0 => Stop(Len(w), 0, n) = 0)
    BY <1>2, <1>3 DEF Stop, NoLimit
<1>6. Slice(w, 0, 0) = <<>>
  <2>1. /\ Slice(w, 0, 0) \in Seq(Rows)
        /\ Len(Slice(w, 0, 0)) = (IF Stop(Len(w), 0, 0) > 0 THEN Stop(Len(w), 0, 0) - 0 ELSE 0)
    BY <1>3, SliceElements
  <2>2. Stop(Len(w), 0, 0) = 0
    BY <1>3 DEF Stop, NoLimit
  <2> QED
    BY <2>1, <2>2
<1>7. p.size \in Nat /\ (n # NoLimit => p.size <= n) /\ (p.size = 0 => n = 0)
    BY <1>1, <1>2 DEF NoLimit, n
<1>8. Reached(p, 0, w, n)
    BY <1>1, <1>2, <1>5, <1>6, <1>7 DEF Reached, NoLimit
<1> QED
    BY <1>4, <1>8 DEF GoodPage, p, w, n

\* A statement that bufferIterate starts from.
Iterable(t) ==
    Stmt(t) /\ t.RefTable = TRUE /\ t.TableName = TRUE /\ ~t.RawSQL /\ ~t.LastError

\* The statement of a page finds what t finds.
LEMMA PageFinds ==
    ASSUME NEW t, Iterable(t), NEW bean, NEW v, Leaves(v, t, FindCond(t, bean)),
           v.LimitN \in Nat
    PROVE  LET c == FindCond(t, bean)
               o == find(v, bean)
           IN  /\ Leaves(o.st, t, c)
               /\ ~Failed(o.w) =>
                    Legacy(t) \/ RowsOf(o.w) = Slice(Whole(t, c), v.Start, v.LimitN)
<1> DEFINE c == FindCond(t, bean)
           x == [v EXCEPT !.cond = CondAnd(@, c)]
           o == find(v, bean)
<1>1. c \in Conds
    BY FindCondType
<1> HIDE DEF c
<1>2. \A f \in Fields \ {"cond", "orderBy", "LimitN", "Start"} : v[f] = t[f]
    BY DEF Leaves
<1>3. Leaves(v, t, c)
    BY DEF c
<1>4. Paged(v)
    BY DEF Paged, NoLimit
<1>5. /\ v.RefTable = TRUE /\ v.TableName = TRUE /\ ~v.RawSQL /\ ~v.LastError
      /\ v.NoAutoCondition = t.NoAutoCondition /\ v.unscoped = t.unscoped
  <2>1. t.RefTable = TRUE /\ t.TableName = TRUE /\ ~t.RawSQL /\ ~t.LastError
    BY DEF Iterable
  <2> QED
    BY <1>2, <2>1 DEF Fields
<1>6. FindCond(v, bean) = c
  <2>1. CondDeleted(v) = CondDeleted(t) /\ BuildConds(v) = BuildConds(t)
    BY <1>5 DEF BuildConds, CondDeleted
  <2>2. t.RefTable
    BY DEF Iterable
  <2> QED
    BY <1>5, <2>1, <2>2 DEF FindCond, c
<1>7. o = Select(dialect, x, FALSE)
    BY <1>5, <1>6 DEF find, GenFindSQL
<1>8. /\ Leaves(o.st, t, c)
      /\ ~Failed(o.w) \/ v.Start = 0 =>
            Legacy(t) \/ RowsOf(o.w) = Slice(Whole(t, c), v.Start, v.LimitN)
    BY <1>1, <1>3, <1>4, <1>7, AddedSelect
<1> QED
    BY <1>8 DEF c

LEMMA NextGood ==
    ASSUME NEW t, Iterable(t),
           NEW bean, NEW i \in Nat, NEW p, PageOK(p, t), GoodPage(p, i, t, FindCond(t, bean))
    PROVE  GoodPage(NextPage(t.LimitN, bean, p), i + 1, t, FindCond(t, bean))
<1> DEFINE c == FindCond(t, bean)
           w == Whole(t, c)
           v == [p.st EXCEPT !.LimitN = p.size, !.Start = p.start]
           out == find(v, bean)
           got == RowsOf(out.w)
           q == NextPage(t.LimitN, bean, p)
           stay == [p EXCEPT !.done = TRUE]
           fail == [p EXCEPT !.done = TRUE, !.w = Fail, !.st = out.st]
           next == p.start + Len(got)
           go == [st |-> out.st, w |-> out.w, start |-> next, rows |-> p.rows \o got,
                  done |-> p.size > Len(got), size |-> NextSize(t.LimitN, next, p.size)]
<1>1. q = IF p.done \/ p.size <= 0 THEN stay ELSE IF Failed(out.w) THEN fail ELSE go
    BY DEF NextPage
<1>2. c \in Conds /\ t.LimitN \in Nat \cup {NoLimit} /\ t.cond.rows \cap c.rows \subseteq Rows
    BY FindCondType DEF Iterable, Stmt, Conds
<1>3. w \in Seq(Rows)
    BY <1>2, MatchingProps, ArrangedProps DEF Whole
<1>4. GoodPage(p, i, t, c) /\ p.size \in Int /\ p.start \in Nat
    BY DEF PageOK
<1> HIDE DEF c, w
<1>5. CASE p.done \/ p.size <= 0
  <2>1. q = stay
    BY <1>1, <1>5
  <2>2. /\ stay.st = p.st /\ stay.w = p.w /\ stay.start = p.start /\ stay.rows = p.rows
        /\ stay.size = p.size /\ stay.done = TRUE
    BY DEF PageOK
  <2> HIDE DEF stay, q
  <2>3. Reached(p, i, w, t.LimitN) => Reached(stay, i + 1, w, t.LimitN)
    BY <1>5, <2>2 DEF Reached
  <2>4. GoodPage(stay, i + 1, t, c)
    BY <1>4, <2>2, <2>3 DEF GoodPage, w
  <2> QED
    BY <2>1, <2>4 DEF q, c
<1>6. CASE ~(p.done \/ p.size <= 0)
  <2>1. p.size \in Nat /\ p.size > 0 /\ ~p.done
    BY <1>4, <1>6
  <2>2. Leaves(p.st, t, c) /\ (Legacy(t) \/ Reached(p, i, w, t.LimitN))
    BY <1>4, <2>1 DEF GoodPage, w
  <2>3. /\ Leaves(out.st, t, c)
        /\ ~Failed(out.w) => Legacy(t) \/ got = Slice(w, p.start, p.size)
    <3>1. Stmt(p.st)
      BY <2>2 DEF Leaves
    <3>2. /\ Stmt(v) /\ v.LimitN = p.size /\ v.Start = p.start
          /\ \A f \in Fields \ {"LimitN", "Start"} : v[f] = p.st[f]
      BY <1>4, <2>1, <3>1 DEF Stmt, Fields
    <3> HIDE DEF v
    <3>3. v.cond = p.st.cond /\ v.orderBy = p.st.orderBy
      BY <3>2 DEF Fields
    <3>4. Leaves(v, t, c)
      BY <2>2, <3>2, <3>3 DEF Leaves
    <3>5. /\ Leaves(out.st, t, c)
          /\ ~Failed(out.w) =>
                Legacy(t) \/ got = Slice(w, v.Start, v.LimitN)
      BY <2>1, <3>2, <3>4, PageFinds DEF c, w
    <3> QED
      BY <3>2, <3>5
  <2> HIDE DEF out, got
  <2>4. CASE Failed(out.w)
    <3>1. q = fail
      BY <1>1, <1>6, <2>4
    <3>2. fail.w = Fail /\ fail.done = TRUE
      BY DEF PageOK
    <3> HIDE DEF fail, q
    <3>3. GoodPage(fail, i + 1, t, c)
      BY <3>2, FailText DEF GoodPage
    <3> QED
      BY <3>1, <3>3 DEF q, c
  <2>5. CASE ~Failed(out.w)
    <3>1. q = go
      BY <1>1, <1>6, <2>5
    <3>2. /\ go.st = out.st /\ go.start = p.start + Len(got) /\ go.rows = p.rows \o got
          /\ go.done = (p.size > Len(got))
          /\ go.size = NextSize(t.LimitN, p.start + Len(got), p.size)
      OBVIOUS
    <3> HIDE DEF go, q
    <3>3. Legacy(t) \/ Reached(go, i + 1, w, t.LimitN)
      BY <1>2, <1>3, <2>1, <2>2, <2>3, <2>5, <3>2, NextReached
    <3>4. GoodPage(go, i + 1, t, c)
      BY <2>3, <3>2, <3>3 DEF GoodPage, w
    <3> QED
      BY <3>1, <3>4 DEF q, c
  <2> QED
    BY <2>4, <2>5
<1> QED
    BY <1>5, <1>6

\* All the pages together are the records the limit allows.
LEMMA PagesTogether ==
    ASSUME NEW t, Iterable(t),
           t.Start = 0, t.BufferSize > 0, NEW bean, ~Failed(Pages(t, bean).w)
    PROVE  LET c == FindCond(t, bean)
               pages == Pages(t, bean)
           IN  /\ Leaves(pages.st, t, c)
               /\ Legacy(t) \/ pages.rows = Slice(Whole(t, c), 0, t.LimitN)
<1> DEFINE c == FindCond(t, bean)
           w == Whole(t, c)
           n == t.LimitN
           N == RowCount + 2
           g == CHOOSE f : f = [j \in 0 .. N |-> PageNext(t, bean, f, j)]
<1>1. N \in Nat /\ RowCount \in Nat
    BY RowsAssumption
<1>2. Pages(t, bean) = g[N]
    BY DEF Pages, PageNext
<1> HIDE DEF N
<1>3. g = [j \in 0 .. N |-> PageNext(t, bean, g, j)]
    BY <1>1, PagesExist
<1> HIDE DEF g
<1>4. \A j \in 0 .. N : g[j] = PageNext(t, bean, g, j)
    BY <1>3
<1>5. c \in Conds /\ n \in Nat \cup {NoLimit} /\ n \in Int /\ t.cond.rows \cap c.rows \subseteq Rows
    BY FindCondType DEF Iterable, Stmt, Conds, NoLimit
<1>6. w \in Seq(Rows) /\ Len(w) = Cardinality(t.cond.rows \cap c.rows)
    BY <1>5, MatchingProps, ArrangedProps DEF Whole
<1>7. Len(w) <= RowCount
  <2>1. IsFiniteSet(Rows) /\ Cardinality(Rows) = RowCount
    <3>1. IsFiniteSet(1 .. RowCount)
          /\ Cardinality(1 .. RowCount) = IF 1 > RowCount THEN 0 ELSE RowCount - 1 + 1
      BY <1>1, FS_Interval
    <3>2. Rows = 1 .. RowCount
      BY DEF Rows
    <3> QED
      BY <1>1, <3>1, <3>2
  <2> QED
    BY <1>5, <1>6, <2>1, FS_Subset
<1> HIDE DEF c
<1> DEFINE Good(j) == PageOK(g[j], t) /\ GoodPage(g[j], j, t, c)
           P == {j \in Nat : j <= N => Good(j)}
<1>8. 0 \in P
  <2>1. g[0] = FirstPage(t)
    BY <1>1, <1>4 DEF PageNext
  <2> QED
    BY <1>5, <2>1, FirstPageOK, FirstGood DEF Iterable
<1>9. ASSUME NEW j \in Nat, j \in P PROVE j + 1 \in P
  <2> SUFFICES ASSUME j + 1 <= N PROVE Good(j + 1)
    OBVIOUS
  <2>1. j + 1 \in 0 .. N /\ j + 1 # 0 /\ (j + 1) - 1 = j /\ Good(j)
    BY <1>1, <1>9
  <2>2. g[j + 1] = NextPage(n, bean, g[j])
    BY <1>4, <2>1 DEF PageNext
  <2>3. PageOK(g[j + 1], t)
    BY <1>5, <2>1, <2>2, NextPageOK
  <2>4. GoodPage(g[j + 1], j + 1, t, c)
    BY <2>1, <2>2, NextGood DEF c
  <2> QED
    BY <2>3, <2>4
<1> HIDE DEF P, w, n
<1>10. Nat \subseteq P
    BY <1>8, <1>9, SetInduction
<1> DEFINE p == g[N]
<1>11. Good(N)
    BY <1>1, <1>10 DEF P
<1>12. p = Pages(t, bean)
    BY <1>2
<1>13. PageOK(p, t) /\ GoodPage(p, N, t, c)
    BY <1>11
<1> HIDE DEF p
<1>14. Leaves(p.st, t, c) /\ (Legacy(t) \/ Reached(p, N, w, n))
    BY <1>12, <1>13 DEF GoodPage, w, n
<1>15. CASE Reached(p, N, w, n)
  <2> DEFINE S == Stop(Len(w), 0, n)
  <2>1. S \in Nat /\ S <= Len(w)
    BY <1>5, <1>6 DEF Stop, NoLimit
  <2>2. ~(N <= S)
    BY <1>1, <1>7, <1>6, <2>1 DEF N
  <2>3. p.start = S /\ p.rows = Slice(w, 0, p.start)
    BY <1>1, <1>15, <2>1, <2>2 DEF Reached
  <2>4. Stop(Len(w), 0, S) = S
    BY <1>6, <2>1 DEF Stop, NoLimit
  <2> HIDE DEF S
  <2>5. Slice(w, 0, S) = Slice(w, 0, n)
    <3>1. \A k : Slice(w, 0, k) = SubSeq(w, 0 + 1, Stop(Len(w), 0, k))
      BY DEF Slice, Stop
    <3> QED
      BY <2>4, <3>1 DEF S
  <2> QED
    BY <1>12, <1>14, <2>3, <2>5 DEF c, w, n
<1>16. CASE Legacy(t)
    BY <1>12, <1>14, <1>16 DEF c
<1> QED
    BY <1>14, <1>15, <1>16

\* A raw text that does not fill a page, or reaches the limit, is sent once.
LEMMA RawPages ==
    ASSUME NEW t, Stmt(t), t.RawSQL, ~t.LastError, t.Start = 0, t.BufferSize > 0, NEW bean,
           FirstPage(t).size > RowCount \/ t.LimitN \in 1 .. RowCount
    PROVE  Pages(t, bean).rows = Scan
<1> DEFINE n == t.LimitN
           N == RowCount + 2
           g == CHOOSE f : f = [j \in 0 .. N |-> PageNext(t, bean, f, j)]
<1>1. N \in Nat /\ RowCount \in Nat /\ N >= 1
    BY RowsAssumption
<1>2. Pages(t, bean) = g[N]
    BY DEF Pages, PageNext
<1> HIDE DEF N
<1>3. g = [j \in 0 .. N |-> PageNext(t, bean, g, j)]
    BY <1>1, PagesExist
<1> HIDE DEF g
<1>4. \A j \in 0 .. N : g[j] = PageNext(t, bean, g, j)
    BY <1>3
<1>5. n \in Nat \cup {NoLimit} /\ n \in Int
    BY DEF Stmt, NoLimit
<1> DEFINE raw == Text("RAW")
<1>6. ~Failed(raw) /\ RowsOf(raw) = Scan /\ Len(Scan) = RowCount /\ <<>> \o Scan = Scan
  <2>1. Inert(raw) /\ ~Failed(raw)
    BY InertText, PlainText DEF Ordinary, ClauseNames
  <2>2. Scan \in Seq(Rows) /\ Len(Scan) = RowCount
    BY <1>1 DEF Scan, Rows
  <2> HIDE DEF raw
  <2>3. RowsOf(raw) = Scan
    BY <2>1, <2>2, RowsOfRuns DEF Inert
  <2> QED
    BY <2>1, <2>2, <2>3
<1> HIDE DEF raw
<1> DEFINE Over(q) == q.rows = Scan /\ (q.done \/ q.size <= 0)
           P == {j \in Nat : j + 1 <= N => PageOK(g[j + 1], t) /\ Over(g[j + 1])}
<1>7. PageOK(g[0], t) /\ g[0] = FirstPage(t)
  <2>1. g[0] = FirstPage(t)
    BY <1>1, <1>4 DEF PageNext
  <2> QED
    BY <2>1, FirstPageOK
<1>8. 0 \in P
  <2> DEFINE p == FirstPage(t)
             v == [p.st EXCEPT !.LimitN = p.size, !.Start = p.start]
             out == find(v, bean)
             got == RowsOf(out.w)
             next == p.start + Len(got)
             size == NextSize(n, next, p.size)
             go == [st |-> out.st, w |-> out.w, start |-> next, rows |-> p.rows \o got,
                    done |-> p.size > Len(got), size |-> size]
             q == NextPage(n, bean, p)
  <2>1. 1 \in 0 .. N /\ 1 # 0 /\ 1 - 1 = 0 /\ 0 + 1 = 1
    BY <1>1
  <2>2. g[1] = q
    BY <1>4, <1>7, <2>1 DEF PageNext
  <2>3. /\ p.st = t /\ p.start = 0 /\ p.rows = <<>> /\ p.done = FALSE
        /\ p.size = IF n # NoLimit /\ t.BufferSize > n THEN n ELSE t.BufferSize
    BY DEF FirstPage
  <2>4. p.size \in Nat /\ p.size > 0 /\ (p.size > RowCount \/ n \in 1 .. RowCount)
    BY <1>1, <1>5, <2>3 DEF Stmt, NoLimit
  <2>5. q = IF p.done \/ p.size <= 0 THEN [p EXCEPT !.done = TRUE]
            ELSE IF Failed(out.w) THEN [p EXCEPT !.done = TRUE, !.w = Fail, !.st = out.st]
            ELSE go
    BY DEF NextPage
  <2>6. out.w = raw
    <3>1. v.RawSQL /\ ~v.LastError
      BY <2>3 DEF Stmt, Fields
    <3> QED
      BY <3>1 DEF find, GenFindSQL, Raw, raw
  <2> HIDE DEF out, v
  <2>7. got = Scan /\ next = RowCount
    BY <1>1, <1>6, <2>3, <2>6
  <2> HIDE DEF p, q
  <2>8. q = go
    BY <1>6, <2>3, <2>4, <2>5, <2>6
  <2>9. go.rows = Scan /\ go.done = (p.size > RowCount) /\ go.size = NextSize(n, RowCount, p.size)
    BY <1>6, <2>3, <2>7
  <2> HIDE DEF go
  <2>10. go.done \/ go.size <= 0
    <3>1. CASE p.size > RowCount
      BY <2>9, <3>1
    <3>2. CASE n \in 1 .. RowCount
      <4>1. n # NoLimit /\ RowCount + p.size > n /\ n - RowCount <= 0
        BY <1>1, <2>4, <3>2 DEF NoLimit
      <4> QED
        BY <2>9, <4>1 DEF NextSize
    <3> QED
      BY <2>4, <3>1, <3>2
  <2>11. PageOK(g[1], t)
    BY <1>5, <1>7, <2>2, NextPageOK DEF p, q
  <2> QED
    BY <2>1, <2>2, <2>8, <2>9, <2>10, <2>11
<1>9. ASSUME NEW j \in Nat, j \in P PROVE j + 1 \in P
  <2> DEFINE m == j + 1
             p == g[m]
             stay == [p EXCEPT !.done = TRUE]
  <2> SUFFICES ASSUME m + 1 <= N PROVE PageOK(g[m + 1], t) /\ Over(g[m + 1])
    OBVIOUS
  <2>1. m + 1 \in 0 .. N /\ m + 1 # 0 /\ (m + 1) - 1 = m /\ PageOK(p, t) /\ Over(p)
    BY <1>1, <1>9
  <2> HIDE DEF m
  <2>2. g[m + 1] = NextPage(n, bean, p)
    BY <1>4, <2>1 DEF PageNext
  <2> HIDE DEF p
  <2>3. NextPage(n, bean, p) = stay
    BY <2>1 DEF NextPage
  <2>4. stay.rows = p.rows /\ stay.done = TRUE
    BY <2>1 DEF PageOK
  <2>5. PageOK(g[m + 1], t)
    BY <1>5, <2>1, <2>2, NextPageOK
  <2> HIDE DEF stay
  <2> QED
    BY <2>1, <2>2, <2>3, <2>4, <2>5
<1> HIDE DEF P
<1>10. Nat \subseteq P
    BY <1>8, <1>9, SetInduction
<1>11. N - 1 \in Nat /\ (N - 1) + 1 = N
    BY <1>1
<1>12. Over(g[N])
    BY <1>1, <1>10, <1>11 DEF P
<1> QED
    BY <1>2, <1>12

LEMMA IterateRight == ASSUME Base, Asks, Iterate PROVE BufferedAsUnbuffered'
<1>1. PICK bean \in {"struct", "bad"} :
        LET pages == Pages(SetRefBean(st), bean)
            out == CASE st.LastError -> Refused(st)
                     [] ~st.LastError /\ st.BufferSize > 0 ->
                           IF bean = "bad" THEN Refused(st)
                           ELSE [w |-> pages.w, st |-> pages.st]
                     [] OTHER -> newRows(bean)
        IN  Return("Iterate", bean, [w |-> out.w, st |-> out.st], TRUE, TRUE,
                   IF st.BufferSize > 0 THEN pages.rows ELSE 0)
    BY DEF Iterate
<1> DEFINE t == SetRefBean(st)
           pages == Pages(t, bean)
           paged == [w |-> pages.w, st |-> pages.st]
           out == CASE st.LastError -> Refused(st)
                    [] ~st.LastError /\ st.BufferSize > 0 ->
                          IF bean = "bad" THEN Refused(st) ELSE paged
                    [] OTHER -> newRows(bean)
           o == [w |-> out.w, st |-> out.st]
           yes == TRUE
           res == IF st.BufferSize > 0 THEN pages.rows ELSE 0
           c == FindCond(t, "struct")
           gen == GenFindSQL(dialect, t, c)
<1>2. Return("Iterate", bean, o, yes, yes, res)
    BY <1>1
<1>3. /\ st.LastError => out = Refused(st)
      /\ ~st.LastError /\ st.BufferSize > 0 =>
            out = IF bean = "bad" THEN Refused(st) ELSE paged
    BY Zenon
<1>4. o.w = out.w /\ o.st = out.st
    OBVIOUS
<1>5. paged.w = pages.w /\ paged.st = pages.st
    OBVIOUS
<1> HIDE DEF yes, o, out, paged
<1>6. Recorded("Iterate", bean, o, res) /\ dialect' = dialect
    BY <1>2, ReturnAsks
<1>7. /\ last'.w = o.w /\ last'.st = o.st /\ last'.asked = asked /\ last'.err = Failed(o.w)
      /\ last'.before = st /\ last'.res = res
    BY <1>6 DEF Recorded
<1> DEFINE again == /\ st.RawSQL /\ FirstPage(st).size <= RowCount
                    /\ st.LimitN \notin 1 .. RowCount
<1> SUFFICES ASSUME ~Failed(o.w), ~asked.stale, st.BufferSize > 0,
                    ~(st.LimitN # NoLimit /\ st.Start > 0), ~again
             PROVE  LegacyPages' \/ res = RowsOf(gen.w)
  <2> HIDE DEF res, again
  <2>1. BufferedAsUnbuffered' =
          ((/\ last'.op = "Iterate" /\ ~last'.err /\ ~last'.asked.stale
            /\ last'.before.BufferSize > 0 /\ ~OffsetCounts' /\ ~RawAgain') =>
             LegacyPages' \/ last'.res = RowsOf(GenFindSQL(dialect', SetRefBean(last'.before),
                               FindCond(SetRefBean(last'.before), "struct")).w))
    BY DEF BufferedAsUnbuffered
  <2>2. OffsetCounts' = (st.LimitN # NoLimit /\ st.Start > 0) /\ RawAgain' = again
    BY <1>7 DEF OffsetCounts, RawAgain, again
  <2> QED
    BY <1>6, <1>7, <2>1, <2>2
<1>8. Refused(st).w = Fail
    BY DEF Refused
<1>10. ~st.LastError
    BY <1>3, <1>4, <1>8, FailText
<1>11. bean # "bad" /\ out = paged
    BY <1>3, <1>4, <1>8, <1>10, FailText
<1>12. bean = "struct"
    BY <1>1, <1>11
<1>13. Stmt(st) /\ st.Start = 0
  <2>1. Stmt(st)
    BY DEF Base
  <2>2. Paged(st)
    BY DEF Asks
  <2> QED
    BY <2>1, <2>2 DEF Paged, Stmt
<1>14. /\ Stmt(t) /\ t.RefTable = TRUE /\ t.TableName = TRUE
       /\ \A f \in Fields \ {"RefTable", "TableName"} : t[f] = st[f]
    BY <1>13, RefBeanStmt
<1>15. res = pages.rows
    BY <1>11
<1> HIDE DEF t, res
<1>25. CASE st.RawSQL
  <2>1. /\ t.RawSQL /\ ~t.LastError /\ t.Start = 0 /\ t.BufferSize > 0
        /\ t.LimitN = st.LimitN /\ t.BufferSize = st.BufferSize
    BY <1>10, <1>13, <1>14, <1>25 DEF Fields
  <2>2. FirstPage(t).size = FirstPage(st).size /\ FirstPage(st).size \in Int
    BY <1>13, <2>1 DEF FirstPage, Stmt, NoLimit
  <2>3. FirstPage(t).size > RowCount \/ t.LimitN \in 1 .. RowCount
    BY <1>25, <2>1, <2>2, RowsAssumption
  <2>4. pages.rows = Scan
    BY <1>14, <2>1, <2>3, RawPages
  <2>5. gen.w = Text("RAW")
    BY <2>1 DEF GenFindSQL, Raw
  <2>6. RowsOf(Text("RAW")) = Scan
    <3> DEFINE raw == Text("RAW")
    <3>1. Inert(raw)
      BY InertText DEF Ordinary, ClauseNames
    <3>2. Scan \in Seq(Rows)
      BY RowsAssumption DEF Scan, Rows
    <3> HIDE DEF raw
    <3>3. RowsOf(raw) = Scan
      BY <3>1, <3>2, RowsOfRuns DEF Inert
    <3> QED
      BY <3>3 DEF raw
  <2> QED
    BY <1>15, <2>4, <2>5, <2>6
<1> SUFFICES ASSUME ~st.RawSQL PROVE LegacyPages' \/ res = RowsOf(gen.w)
    BY <1>25
<1>16. Iterable(t) /\ t.Start = 0 /\ t.BufferSize > 0
    BY <1>10, <1>13, <1>14 DEF Iterable, Fields
<1>17. c \in Conds
    BY FindCondType
<1>18. ~Failed(pages.w) /\ o.st = pages.st
    BY <1>4, <1>5, <1>11
<1> DEFINE x == [t EXCEPT !.cond = CondAnd(@, c)]
           sel == Select(dialect, x, FALSE)
<1>19. gen = sel
    BY <1>14, <1>16 DEF GenFindSQL, Iterable
<1>20. pages = Pages(t, "struct")
    BY <1>12
<1>21. /\ Leaves(pages.st, t, c)
       /\ Legacy(t) \/ pages.rows = Slice(Whole(t, c), 0, t.LimitN)
    BY <1>16, <1>18, <1>20, PagesTogether
<1> HIDE DEF c, pages
<1>22. Leaves(t, t, c)
    BY <1>14 DEF Leaves
<1>23. Legacy(t) \/ RowsOf(sel.w) = Slice(Whole(t, c), 0, t.LimitN)
  <2>1. Paged(t)
    BY <1>16 DEF Paged
  <2> QED
    BY <1>16, <1>17, <1>22, <2>1, AddedSelect
<1>24. Legacy(t) => LegacyPages'
    BY <1>6, <1>7, <1>18, <1>21 DEF Legacy, LegacyPages, Leaves
<1> QED
    BY <1>15, <1>19, <1>21, <1>23, <1>24

-----------------------------------------------------------------------------
(* The invariant that says which records, in which order, and how many.     *)

RightRecords == PageIsRight /\ LimitExact /\ FindAndCountTotal /\ BufferedAsUnbuffered
PagesInv == Asks /\ RightRecords

\* No property speaks of a call that was not made, or of the other calls.
LEMMA OthersSilent ==
    /\ ~(Sent /\ last.op \in {"Get", "Find"}) => PageIsRight
    /\ ~(Sent /\ last.op \in {"Update", "Delete"}) => LimitExact
    /\ ~(Sent /\ last.op = "FindAndCount") => FindAndCountTotal
    /\ last.op # "Iterate" => BufferedAsUnbuffered
BY DEF PageIsRight, LimitExact, FindAndCountTotal, BufferedAsUnbuffered

LEMMA OthersSilentNext ==
    /\ ~(Sent' /\ last'.op \in {"Get", "Find"}) => PageIsRight'
    /\ ~(Sent' /\ last'.op \in {"Update", "Delete"}) => LimitExact'
    /\ ~(Sent' /\ last'.op = "FindAndCount") => FindAndCountTotal'
    /\ last'.op # "Iterate" => BufferedAsUnbuffered'
BY DEF PageIsRight, LimitExact, FindAndCountTotal, BufferedAsUnbuffered

\* The call each action records.
LEMMA CallNames ==
    /\ Get => last'.op = "Get"
    /\ Find => last'.op = "Find"
    /\ FindAndCount => last'.op = "FindAndCount"
    /\ Iterate => last'.op = "Iterate"
    /\ Update => last'.op = "Update"
    /\ Delete => last'.op = "Delete"
<1>1. ASSUME Get PROVE last'.op = "Get"
    BY <1>1, CallAsks DEF Get
<1>2. ASSUME Find PROVE last'.op = "Find"
    BY <1>2, CallAsks DEF Find
<1>3. ASSUME FindAndCount PROVE last'.op = "FindAndCount"
    BY <1>3, ReturnAsks DEF FindAndCount
<1>4. ASSUME Iterate PROVE last'.op = "Iterate"
    BY <1>4, ReturnAsks DEF Iterate
<1>5. ASSUME Update PROVE last'.op = "Update"
  <2>1. \E arg, o : Call("Update", arg, o, TRUE)
    BY <1>5, Zenon DEF Update
  <2> QED
    BY <2>1, CallAsks
<1>6. ASSUME Delete PROVE last'.op = "Delete"
    BY <1>6, CallAsks DEF Delete
<1> QED
    BY <1>1, <1>2, <1>3, <1>4, <1>5, <1>6

LEMMA InitPages == Init => PagesInv
<1> SUFFICES ASSUME Init PROVE PagesInv
    OBVIOUS
<1>1. ~Sent /\ last.op # "Iterate"
    BY DEF Init, Sent, NoCall
<1>2. Asks
    BY DEF Init, Asks, Paged, Fresh
<1> QED
    BY <1>1, <1>2, OthersSilent DEF PagesInv, RightRecords

LEMMA NextPages == CallsInv /\ PagesInv /\ [Next]_vars => PagesInv'
<1> SUFFICES ASSUME CallsInv, PagesInv, [Next]_vars PROVE PagesInv'
    OBVIOUS
<1>0. Base /\ Asks /\ RightRecords
    BY DEF CallsInv, PagesInv
<1>1. CASE UNCHANGED vars
  <2>1. last' = last /\ dialect' = dialect /\ st' = st /\ asked' = asked
    BY <1>1 DEF vars
  <2>2. Asks'
    BY <1>0, <2>1 DEF Asks, Paged
  <2>3. RightRecords'
    BY <1>0, <2>1 DEF RightRecords, PageIsRight, LimitExact, FindAndCountTotal, BufferedAsUnbuffered,
                      Sent, LegacyPages, OrPages, OffsetCounts, RawAgain, DeletesFewer
  <2> QED
    BY <2>2, <2>3 DEF PagesInv
<1>2. CASE ChainedCall \/ Returned
  <2>1. Asks' /\ last' = NoCall
    <3>1. CASE ChainedCall
      BY <1>0, <3>1, ChainedAsks
    <3>2. CASE Returned
      BY <1>0, <3>2 DEF Returned, Asks, Paged
    <3> QED
      BY <1>2, <3>1, <3>2
  <2>2. ~Sent' /\ last'.op # "Iterate"
    BY <2>1 DEF Sent, NoCall
  <2> QED
    BY <2>1, <2>2, OthersSilentNext DEF PagesInv, RightRecords
<1>3. CASE DatabaseCall
  <2>1. /\ Asks'
        /\ \/ last' = NoCall \/ last'.op \in Others
           \/ Get \/ Find \/ FindAndCount \/ Iterate \/ Update \/ Delete
    BY <1>0, <1>3, CallsAsk
  <2>2. PageIsRight'
    BY <1>0, <2>1, GetPage, FindPage, CallNames, OthersSilentNext DEF Others, Sent
  <2>3. LimitExact'
    BY <1>0, <2>1, UpdateExact, DeleteExact, CallNames, OthersSilentNext DEF Others, Sent
  <2>4. FindAndCountTotal'
    BY <1>0, <2>1, FindAndCountRight, CallNames, OthersSilentNext DEF Others, Sent
  <2>5. BufferedAsUnbuffered'
    BY <1>0, <2>1, IterateRight, CallNames, OthersSilentNext DEF Others, NoCall
  <2> QED
    BY <2>1, <2>2, <2>3, <2>4, <2>5 DEF PagesInv, RightRecords
<1> QED
    BY <1>1, <1>2, <1>3 DEF Next

-----------------------------------------------------------------------------
(* The order of the clauses.                                                *)

LEMMA OrderNames ==
    /\ DOMAIN ClauseOrder = 1 .. 8
    /\ ClauseOrder[1] = "WHERE" /\ ClauseOrder[2] = "AND" /\ ClauseOrder[3] = "ROWNUM"
    /\ ClauseOrder[4] = "GROUP BY" /\ ClauseOrder[5] = "HAVING"
    /\ ClauseOrder[6] = "ORDER BY" /\ ClauseOrder[7] = "LIMIT"
    /\ ClauseOrder[8] = "FOR UPDATE"
    /\ \A i \in 1 .. 8 : i = 1 \/ i = 2 \/ i = 3 \/ i = 4 \/ i = 5 \/ i = 6 \/ i = 7 \/ i = 8
BY DEF ClauseOrder

LEMMA Ranks ==
    /\ Rank("WHERE") = 1 /\ Rank("AND") = 2 /\ Rank("ROWNUM") = 3 /\ Rank("GROUP BY") = 4
    /\ Rank("HAVING") = 5 /\ Rank("ORDER BY") = 6 /\ Rank("LIMIT") = 7 /\ Rank("FOR UPDATE") = 8
<1>1. ASSUME NEW i \in 1 .. 8, NEW k, \A j \in 1 .. 8 : ClauseOrder[j] = k <=> j = i
      PROVE  Rank(k) = i
    BY <1>1, OrderNames DEF Rank
<1>2. /\ 1 \in 1 .. 8 /\ 2 \in 1 .. 8 /\ 3 \in 1 .. 8 /\ 4 \in 1 .. 8
      /\ 5 \in 1 .. 8 /\ 6 \in 1 .. 8 /\ 7 \in 1 .. 8 /\ 8 \in 1 .. 8
    OBVIOUS
<1>3. Rank("WHERE") = 1
  <2>1. \A j \in 1 .. 8 : ClauseOrder[j] = "WHERE" <=> j = 1
    BY OrderNames
  <2> QED
    BY <1>1, <1>2, <2>1, Zenon
<1>4. Rank("AND") = 2
  <2>1. \A j \in 1 .. 8 : ClauseOrder[j] = "AND" <=> j = 2
    BY OrderNames
  <2> QED
    BY <1>1, <1>2, <2>1, Zenon
<1>5. Rank("ROWNUM") = 3
  <2>1. \A j \in 1 .. 8 : ClauseOrder[j] = "ROWNUM" <=> j = 3
    BY OrderNames
  <2> QED
    BY <1>1, <1>2, <2>1, Zenon
<1>6. Rank("GROUP BY") = 4
  <2>1. \A j \in 1 .. 8 : ClauseOrder[j] = "GROUP BY" <=> j = 4
    BY OrderNames
  <2> QED
    BY <1>1, <1>2, <2>1, Zenon
<1>7. Rank("HAVING") = 5
  <2>1. \A j \in 1 .. 8 : ClauseOrder[j] = "HAVING" <=> j = 5
    BY OrderNames
  <2> QED
    BY <1>1, <1>2, <2>1, Zenon
<1>8. Rank("ORDER BY") = 6
  <2>1. \A j \in 1 .. 8 : ClauseOrder[j] = "ORDER BY" <=> j = 6
    BY OrderNames
  <2> QED
    BY <1>1, <1>2, <2>1, Zenon
<1>9. Rank("LIMIT") = 7
  <2>1. \A j \in 1 .. 8 : ClauseOrder[j] = "LIMIT" <=> j = 7
    BY OrderNames
  <2> QED
    BY <1>1, <1>2, <2>1, Zenon
<1>10. Rank("FOR UPDATE") = 8
  <2>1. \A j \in 1 .. 8 : ClauseOrder[j] = "FOR UPDATE" <=> j = 8
    BY OrderNames
  <2> QED
    BY <1>1, <1>2, <2>1, Zenon
<1> QED
    BY <1>3, <1>4, <1>5, <1>6, <1>7, <1>8, <1>9, <1>10

\* The clauses that have no place in the order.
Unranked == ClauseNames \ {"WHERE", "AND", "ROWNUM", "GROUP BY", "HAVING", "ORDER BY", "LIMIT",
                           "FOR UPDATE"}

LEMMA UnrankedZero ==
    /\ \A k \in Unranked : Rank(k) = 0
    /\ \A k \in ClauseNames : Rank(k) \in 0 .. 8
<1>1. ASSUME NEW k \in Unranked, NEW i \in 1 .. 8 PROVE ClauseOrder[i] # k
    BY OrderNames DEF Unranked
<1>2. \A k \in Unranked : Rank(k) = 0
    BY <1>1, OrderNames DEF Rank
<1>3. ASSUME NEW k \in ClauseNames PROVE Rank(k) \in 0 .. 8
  <2>1. \/ k \in Unranked
        \/ k \in {"WHERE", "AND", "ROWNUM", "GROUP BY", "HAVING", "ORDER BY", "LIMIT", "FOR UPDATE"}
    BY Zenon DEF Unranked
  <2>2. Rank(k) \in {0, 1, 2, 3, 4, 5, 6, 7, 8}
    BY <1>2, <2>1, Ranks, Zenon
  <2> QED
    BY <2>2
<1> QED
    BY <1>2, <1>3

\* The clauses of w that have a place in the order come in it, from l to h, and so do
\* those of its subqueries.
Tidy(w, l, h) ==
    /\ w \in Texts
    /\ \A i \in DOMAIN w : Rank(w[i].k) = 0 \/ Rank(w[i].k) \in l .. h
    /\ \A i, j \in DOMAIN w :
          i < j /\ Rank(w[i].k) > 0 /\ Rank(w[j].k) > 0 => Rank(w[i].k) < Rank(w[j].k)
    /\ \A i \in DOMAIN w : InOrder(w[i].sub)
    /\ \A i \in DOMAIN w : w[i].k = "AND" => \E j \in DOMAIN w : w[j].k = "WHERE"

LEMMA TidyInOrder ==
    ASSUME NEW w, NEW l, NEW h, Tidy(w, l, h)
    PROVE  InOrder(Kinds(w)) /\ \A i \in DOMAIN w : InOrder(w[i].sub)
<1>1. DOMAIN Kinds(w) = DOMAIN w /\ \A i \in DOMAIN w : Kinds(w)[i] = w[i].k
    BY DEF Kinds
<1>2. "AND" \in Range(Kinds(w)) => "WHERE" \in Range(Kinds(w))
    BY <1>1 DEF Tidy, Range
<1>3. \A i, j \in DOMAIN Kinds(w) :
         i < j /\ Rank(Kinds(w)[i]) > 0 /\ Rank(Kinds(w)[j]) > 0
           => Rank(Kinds(w)[i]) < Rank(Kinds(w)[j])
    BY <1>1 DEF Tidy
<1> QED
    BY <1>2, <1>3 DEF InOrder, Tidy

LEMMA TidyConcat ==
    ASSUME NEW a, NEW b, NEW l \in Int, NEW h \in Int, NEW m \in Int, NEW n \in Int,
           Tidy(a, l, h), Tidy(b, m, n), l <= m, h < m, h <= n
    PROVE  Tidy(a \o b, l, n)
<1>1. /\ a \o b \in Texts /\ a \in Texts /\ b \in Texts
    BY Concat DEF Tidy
<1>2. /\ Len(a) \in Nat /\ Len(b) \in Nat
      /\ DOMAIN (a \o b) = 1 .. Len(a) + Len(b)
      /\ DOMAIN a = 1 .. Len(a) /\ DOMAIN b = 1 .. Len(b)
    BY <1>1 DEF Texts
<1>3. \A i \in DOMAIN a : i \in DOMAIN (a \o b) /\ (a \o b)[i] = a[i]
    BY <1>1, <1>2 DEF Texts
<1>4. \A i \in DOMAIN b : Len(a) + i \in DOMAIN (a \o b) /\ (a \o b)[Len(a) + i] = b[i]
    BY <1>1, <1>2 DEF Texts
<1> DEFINE c == a \o b
<1>5. \A i \in DOMAIN c : \/ i \in DOMAIN a /\ c[i] = a[i]
                          \/ i - Len(a) \in DOMAIN b /\ c[i] = b[i - Len(a)] /\ i > Len(a)
  <2> SUFFICES ASSUME NEW i \in DOMAIN c, ~(i \in DOMAIN a)
               PROVE  i - Len(a) \in DOMAIN b /\ c[i] = b[i - Len(a)] /\ i > Len(a)
    BY <1>3
  <2>1. i - Len(a) \in DOMAIN b /\ i > Len(a) /\ i = Len(a) + (i - Len(a))
    BY <1>2
  <2> QED
    BY <1>4, <2>1
<1>6. \A i \in DOMAIN a : i <= Len(a)
    BY <1>2
<1>7. \A i \in DOMAIN a : Rank(a[i].k) \in Int
  <2>1. \A i \in DOMAIN a : a[i] \in Clauses
    BY <1>1, <1>2 DEF Texts
  <2>2. \A i \in DOMAIN a : a[i].k \in ClauseNames
    BY <2>1 DEF Clauses
  <2> QED
    BY <2>2, UnrankedZero
<1>13. \A i \in DOMAIN b : Rank(b[i].k) \in Int
  <2>1. \A i \in DOMAIN b : b[i] \in Clauses
    BY <1>1, <1>2 DEF Texts
  <2>2. \A i \in DOMAIN b : b[i].k \in ClauseNames
    BY <2>1 DEF Clauses
  <2> QED
    BY <2>2, UnrankedZero
<1> HIDE DEF c
<1>8. \A i \in DOMAIN c : Rank(c[i].k) = 0 \/ Rank(c[i].k) \in l .. n
  <2> SUFFICES ASSUME NEW i \in DOMAIN c PROVE Rank(c[i].k) = 0 \/ Rank(c[i].k) \in l .. n
    OBVIOUS
  <2>1. CASE i \in DOMAIN a /\ c[i] = a[i]
    <3>1. Rank(a[i].k) = 0 \/ Rank(a[i].k) \in l .. h
      BY <2>1 DEF Tidy
    <3> QED
      BY <1>7, <2>1, <3>1
  <2>2. CASE i - Len(a) \in DOMAIN b /\ c[i] = b[i - Len(a)]
    <3>1. Rank(b[i - Len(a)].k) = 0 \/ Rank(b[i - Len(a)].k) \in m .. n
      BY <2>2 DEF Tidy
    <3> QED
      BY <1>13, <2>2, <3>1
  <2> QED
    BY <1>5, <2>1, <2>2
<1>9. ASSUME NEW i \in DOMAIN c, NEW j \in DOMAIN c, i < j, Rank(c[i].k) > 0, Rank(c[j].k) > 0
      PROVE  Rank(c[i].k) < Rank(c[j].k)
  <2>0. i \in Int /\ j \in Int /\ Len(a) \in Int
    BY <1>2 DEF c
  <2>1. CASE i \in DOMAIN a /\ c[i] = a[i] /\ j \in DOMAIN a /\ c[j] = a[j]
    BY <1>9, <2>1 DEF Tidy
  <2>2. CASE i \in DOMAIN a /\ c[i] = a[i] /\ j - Len(a) \in DOMAIN b /\ c[j] = b[j - Len(a)]
    <3>1. Rank(a[i].k) = 0 \/ Rank(a[i].k) \in l .. h
      BY <2>2 DEF Tidy
    <3>2. Rank(b[j - Len(a)].k) = 0 \/ Rank(b[j - Len(a)].k) \in m .. n
      BY <2>2 DEF Tidy
    <3> QED
      BY <1>7, <1>9, <1>13, <2>2, <3>1, <3>2
  <2>3. CASE i - Len(a) \in DOMAIN b /\ c[i] = b[i - Len(a)]
             /\ j - Len(a) \in DOMAIN b /\ c[j] = b[j - Len(a)]
    <3>1. i - Len(a) < j - Len(a)
      BY <1>9, <2>0
    <3> QED
      BY <1>9, <2>3, <3>1 DEF Tidy
  <2>4. ~(i > Len(a) /\ j \in DOMAIN a)
    BY <1>6, <1>9, <2>0
  <2> QED
    BY <1>5, <2>1, <2>2, <2>3, <2>4
<1>10. \A i \in DOMAIN c : InOrder(c[i].sub)
    BY <1>5 DEF Tidy
<1>11. ASSUME NEW i \in DOMAIN c, c[i].k = "AND" PROVE \E j \in DOMAIN c : c[j].k = "WHERE"
  <2>1. CASE i \in DOMAIN a /\ c[i] = a[i]
    <3>1. PICK j \in DOMAIN a : a[j].k = "WHERE"
      BY <1>11, <2>1 DEF Tidy
    <3> QED
      BY <1>3, <3>1 DEF c
  <2>2. CASE i - Len(a) \in DOMAIN b /\ c[i] = b[i - Len(a)]
    <3>1. PICK j \in DOMAIN b : b[j].k = "WHERE"
      BY <1>11, <2>2 DEF Tidy
    <3> QED
      BY <1>4, <3>1 DEF c
  <2> QED
    BY <1>5, <2>1, <2>2
<1>12. Tidy(c, l, n)
    BY <1>1, <1>8, <1>9, <1>10, <1>11 DEF Tidy, c
<1> QED
    BY <1>12 DEF c

LEMMA TidyWider ==
    ASSUME NEW w, NEW l \in Int, NEW h \in Int, NEW m \in Int, NEW n \in Int,
           Tidy(w, l, h), m <= l, h <= n
    PROVE  Tidy(w, m, n)
<1>1. \A i \in DOMAIN w : Rank(w[i].k) = 0 \/ Rank(w[i].k) \in m .. n
  <2> SUFFICES ASSUME NEW i \in DOMAIN w, Rank(w[i].k) \in l .. h PROVE Rank(w[i].k) \in m .. n
    BY DEF Tidy
  <2> QED
    OBVIOUS
<1> QED
    BY <1>1 DEF Tidy

\* A text without ordered clauses fits anywhere.
Loose(w) == \A n \in Int : Tidy(w, n + 1, n)

LEMMA TidyLoose ==
    ASSUME NEW a, NEW b, NEW l \in Int, NEW h \in Int, Tidy(a, l, h), Loose(b), l <= h + 1
    PROVE  Tidy(a \o b, l, h)
<1>1. Tidy(b, h + 1, h) /\ h + 1 \in Int /\ h < h + 1
    BY DEF Loose
<1> QED
    BY <1>1, TidyConcat

LEMMA LooseTidy ==
    ASSUME NEW a, NEW b, NEW l \in Int, NEW h \in Int, Loose(a), Tidy(b, l, h), l <= h + 1
    PROVE  Tidy(a \o b, l, h)
<1>1. Tidy(a, (l - 1) + 1, l - 1) /\ (l - 1) + 1 = l /\ l - 1 \in Int /\ l - 1 < l /\ l - 1 <= h
    BY DEF Loose
<1>2. Tidy(a, l, l - 1)
    BY <1>1
<1> QED
    BY <1>1, <1>2, TidyConcat

LEMMA LooseConcat == ASSUME NEW a, NEW b, Loose(a), Loose(b) PROVE Loose(a \o b)
<1>1. ASSUME NEW n \in Int PROVE Tidy(a \o b, n + 1, n)
  <2>1. Tidy(a, n + 1, n) /\ n + 1 \in Int /\ n + 1 <= n + 1
    BY DEF Loose
  <2> QED
    BY <2>1, TidyLoose
<1> QED
    BY <1>1 DEF Loose

LEMMA NoSub == InOrder(<<>>)
BY DEF InOrder, Range

LEMMA TidyOne ==
    ASSUME NEW c \in Clauses, c.k # "AND", InOrder(c.sub), NEW l, NEW h,
           Rank(c.k) = 0 \/ Rank(c.k) \in l .. h
    PROVE  Tidy(<<c>>, l, h)
<1>1. <<c>> \in Texts /\ DOMAIN <<c>> = {1} /\ <<c>>[1] = c
    BY DEF Texts
<1> QED
    BY <1>1 DEF Tidy

LEMMA TidyNothing == \A l, h : Tidy(Nothing, l, h)
BY EmptyText DEF Tidy, Nothing

LEMMA TidyWhen == ASSUME NEW b, NEW w, NEW l, NEW h, Tidy(w, l, h) PROVE Tidy(When(b, w), l, h)
BY TidyNothing DEF When

LEMMA LooseWhen == ASSUME NEW b, NEW w, Loose(w) PROVE Loose(When(b, w)) /\ Loose(Nothing)
BY TidyNothing DEF When, Loose

\* A clause that a writer changes keeps its kind, and has no subquery.
Simple(c, k) == c \in Clauses /\ c.k = k /\ InOrder(c.sub)

LEMMA SimpleClauses ==
    ASSUME NEW k \in ClauseNames
    PROVE  /\ Simple(Clause(k), k)
           /\ \A skip \in Nat, take \in Nat \cup {NoLimit} :
                 Simple([Clause(k) EXCEPT !.skip = skip, !.take = take], k)
           /\ \A R \in SUBSET Rows : Simple([Clause(k) EXCEPT !.rows = R], k)
           /\ \A desc \in BOOLEAN : Simple([Clause(k) EXCEPT !.desc = desc], k)
           /\ \A cols \in Seq(ColumnNames) : Simple([Clause(k) EXCEPT !.cols = cols], k)
<1>1. Clause(k) \in Clauses /\ Clause(k).k = k /\ Clause(k).sub = <<>>
    BY ClauseType DEF Clause
<1> DEFINE c == Clause(k)
<1> HIDE DEF c
<1>2. \A skip, take : [c EXCEPT !.skip = skip, !.take = take].sub = c.sub
    BY <1>1 DEF Clauses, c
<1>3. \A R : [c EXCEPT !.rows = R].sub = c.sub
    BY <1>1 DEF Clauses, c
<1>4. \A desc : [c EXCEPT !.desc = desc].sub = c.sub
    BY <1>1 DEF Clauses, c
<1>5. \A cols : [c EXCEPT !.cols = cols].sub = c.sub
    BY <1>1 DEF Clauses, c
<1>6. c \in Clauses /\ c.k = k /\ c.sub = <<>>
    BY <1>1 DEF c
<1>7. Simple(c, k)
    BY <1>6, NoSub DEF Simple
<1>8. ASSUME NEW skip \in Nat, NEW take \in Nat \cup {NoLimit}
      PROVE  Simple([c EXCEPT !.skip = skip, !.take = take], k)
    BY <1>2, <1>6, NoSub, PageClause, Zenon DEF Simple
<1>9. ASSUME NEW R \in SUBSET Rows PROVE Simple([c EXCEPT !.rows = R], k)
    BY <1>3, <1>6, NoSub, RowsClause, Zenon DEF Simple
<1>10. ASSUME NEW desc \in BOOLEAN PROVE Simple([c EXCEPT !.desc = desc], k)
    BY <1>4, <1>6, NoSub, DescClause, Zenon DEF Simple
<1>11. ASSUME NEW cols \in Seq(ColumnNames) PROVE Simple([c EXCEPT !.cols = cols], k)
    BY <1>5, <1>6, NoSub, ColsClause, Zenon DEF Simple
<1> QED
    BY <1>7, <1>8, <1>9, <1>10, <1>11, Zenon DEF c

\* Where a simple clause stands.
LEMMA SimpleTidy ==
    ASSUME NEW c, NEW k \in ClauseNames \ {"AND"}, Simple(c, k)
    PROVE  Tidy(<<c>>, Rank(k), Rank(k)) /\ (k \in Unranked => Loose(<<c>>))
<1>1. Rank(k) \in Int
    BY UnrankedZero
<1>2. Tidy(<<c>>, Rank(k), Rank(k))
    BY <1>1, TidyOne DEF Simple
<1>3. ASSUME k \in Unranked, NEW n \in Int PROVE Tidy(<<c>>, n + 1, n)
    BY <1>3, UnrankedZero, TidyOne DEF Simple
<1> QED
    BY <1>2, <1>3 DEF Loose

LEMMA TidyTexts ==
    /\ \A k \in ClauseNames \ {"AND"} : Tidy(Text(k), Rank(k), Rank(k))
    /\ \A k \in Unranked : Loose(Text(k))
    /\ Loose(Fail)
    /\ \A k \in ClauseNames \ {"AND"}, skip \in Nat, take \in Nat \cup {NoLimit} :
          Tidy(Page(k, skip, take), Rank(k), Rank(k))
    /\ \A skip \in Nat, take \in Nat \cup {NoLimit} : Loose(Page("TOP", skip, take))
    /\ \A k \in Unranked, cols \in Seq(ColumnNames) : Loose(List(k, cols))
<1>1. ASSUME NEW k \in ClauseNames \ {"AND"}
      PROVE  Tidy(Text(k), Rank(k), Rank(k)) /\ (k \in Unranked => Loose(Text(k)))
    BY SimpleClauses, SimpleTidy DEF Text
<1>2. Unranked \subseteq ClauseNames \ {"AND"} /\ "ERROR" \in Unranked /\ "TOP" \in Unranked
    BY DEF Unranked, ClauseNames
<1>3. ASSUME NEW k \in ClauseNames \ {"AND"}, NEW skip \in Nat, NEW take \in Nat \cup {NoLimit}
      PROVE  /\ Tidy(Page(k, skip, take), Rank(k), Rank(k))
             /\ k \in Unranked => Loose(Page(k, skip, take))
  <2> DEFINE c == [Clause(k) EXCEPT !.skip = skip, !.take = take]
  <2>1. Simple(c, k)
    BY SimpleClauses
  <2>2. Page(k, skip, take) = <<c>>
    BY DEF Page
  <2> HIDE DEF c
  <2> QED
    BY <2>1, <2>2, SimpleTidy
<1>4. ASSUME NEW k \in Unranked, NEW cols \in Seq(ColumnNames) PROVE Loose(List(k, cols))
  <2> DEFINE c == [Clause(k) EXCEPT !.cols = cols]
  <2>1. Simple(c, k)
    BY <1>2, SimpleClauses
  <2>2. List(k, cols) = <<c>>
    BY DEF List
  <2> HIDE DEF c
  <2> QED
    BY <1>2, <2>1, <2>2, SimpleTidy
<1> QED
    BY <1>1, <1>2, <1>3, <1>4 DEF Fail

LEMMA TidyWhere ==
    ASSUME NEW c \in Conds
    PROVE  Tidy(writeWhereCond(c), 1, 1)
<1> DEFINE k == [Clause("WHERE") EXCEPT !.rows = c.rows]
<1>1. "WHERE" \in ClauseNames \ {"AND"} /\ c.rows \in SUBSET Rows
    BY DEF ClauseNames, Conds
<1>2. Simple(k, "WHERE")
    BY <1>1, SimpleClauses
<1>3. writeWhereCond(c) = When(c.valid, <<k>>)
    BY DEF writeWhereCond
<1> HIDE DEF k
<1>4. Tidy(<<k>>, 1, 1)
    BY <1>1, <1>2, SimpleTidy, Ranks
<1> QED
    BY <1>3, <1>4, TidyWhen

LEMMA TidyOrder == ASSUME NEW s PROVE Tidy(writeOrderBys(s), 6, 6)
<1> DEFINE c == [Clause("ORDER BY") EXCEPT !.desc = Head(s.orderBy) = "desc"]
<1>1. "ORDER BY" \in ClauseNames \ {"AND"} /\ (Head(s.orderBy) = "desc") \in BOOLEAN
    BY DEF ClauseNames
<1>2. Simple(c, "ORDER BY")
    BY <1>1, SimpleClauses
<1>3. writeOrderBys(s) = When(s.orderBy # <<>>, <<c>>)
    BY DEF writeOrderBys
<1> HIDE DEF c
<1>4. Tidy(<<c>>, 6, 6)
    BY <1>1, <1>2, SimpleTidy, Ranks
<1> QED
    BY <1>3, <1>4, TidyWhen

LEMMA TidyWriters ==
    ASSUME NEW s, Stmt(s), NEW d
    PROVE  /\ Loose(writeFrom(d, s)) /\ Loose(writeTop(s)) /\ Loose(writeJoins(s))
           /\ Tidy(writeWhere(s), 1, 1) /\ Tidy(writeOracleLimit(s), 3, 3)
           /\ Tidy(writeGroupBy(s), 4, 4) /\ Tidy(writeHaving(s), 5, 5)
           /\ Tidy(writeOrderBys(s), 6, 6) /\ Tidy(writePagination(d, s), 7, 7)
           /\ Tidy(writeForUpdate(d, s), 8, 8)
<1>1. {"FROM", "INDEX", "JOIN"} \subseteq Unranked
    BY DEF Unranked, ClauseNames
<1>2. Loose(writeIndexHints(d, s)) /\ Loose(writeJoins(s)) /\ Loose(Text("FROM"))
  <2>1. Loose(Text("FROM")) /\ Loose(Text("INDEX")) /\ Loose(Text("JOIN")) /\ Loose(Fail)
    BY <1>1, TidyTexts
  <2> QED
    BY <2>1, LooseWhen DEF writeIndexHints, writeJoins
<1>3. Loose(writeFrom(d, s))
    BY <1>2, LooseConcat DEF writeFrom
<1>4. /\ s.Start \in Nat /\ s.LimitN \in Nat \cup {NoLimit} /\ 0 \in Nat
      /\ (IF s.Start > 0 THEN s.Start ELSE 0) \in Nat /\ s.cond \in Conds
    BY DEF Stmt
<1>5. Loose(writeTop(s))
    BY <1>4, TidyTexts, LooseWhen DEF writeTop
<1>6. {"ROWNUM", "GROUP BY", "HAVING", "LIMIT", "FOR UPDATE"} \subseteq ClauseNames \ {"AND"}
    BY DEF ClauseNames
<1>7. /\ Tidy(Text("GROUP BY"), 4, 4) /\ Tidy(Text("HAVING"), 5, 5)
      /\ Tidy(Text("FOR UPDATE"), 8, 8)
    BY <1>6, TidyTexts, Ranks
<1>8. \A skip \in Nat, take \in Nat \cup {NoLimit} :
         Tidy(Page("ROWNUM", skip, take), 3, 3) /\ Tidy(Page("LIMIT", skip, take), 7, 7)
    BY <1>6, TidyTexts, Ranks
<1>9. Tidy(writeGroupBy(s), 4, 4) /\ Tidy(writeHaving(s), 5, 5) /\ Tidy(writeForUpdate(d, s), 8, 8)
    BY <1>7, TidyWhen DEF writeGroupBy, writeHaving, writeForUpdate
<1>10. Tidy(writeOracleLimit(s), 3, 3)
    BY <1>4, <1>8, TidyWhen DEF writeOracleLimit
<1>11. Tidy(writePagination(d, s), 7, 7)
    BY <1>4, <1>8, TidyWhen DEF writePagination, writeOffsetFetch, writeLimitOffset
<1>12. Tidy(writeWhere(s), 1, 1)
    BY <1>4, TidyWhere DEF writeWhere
<1> QED
    BY <1>2, <1>3, <1>5, <1>9, <1>10, <1>11, <1>12, TidyOrder

\* A condition and the subquery that is added to it: WHERE and AND, or WHERE alone.
LEMMA TidySub ==
    ASSUME NEW c \in Conds, NEW R \in SUBSET Rows, NEW w \in Texts, InOrder(Kinds(w))
    PROVE  /\ Tidy(writeWhereCond(c) \o SubQuery(c, R, w), 1, 2)
           /\ Tidy(SubQuery(NewCond, R, w), 1, 1)
<1> DEFINE S == R \cup c.lead
           T == R \cup NewCond.lead
           and == [Clause("AND") EXCEPT !.rows = S, !.sub = Kinds(w)]
           where == [Clause("WHERE") EXCEPT !.rows = S, !.sub = Kinds(w)]
           alone == [Clause("WHERE") EXCEPT !.rows = T, !.sub = Kinds(w)]
           first == [Clause("WHERE") EXCEPT !.rows = c.rows]
<1>0. {"WHERE", "AND"} \subseteq ClauseNames /\ c.rows \in SUBSET Rows /\ c.valid \in BOOLEAN
    BY DEF ClauseNames, Conds
<1>1. Kinds(w) \in Seq(ClauseNames)
    BY KindsType
<1>13. S \in SUBSET Rows /\ T \in SUBSET Rows
    BY DEF Conds, NewCond
<1>7. /\ SubQuery(NewCond, R, w) = <<alone>>
      /\ SubQuery(c, R, w) = <<IF c.valid THEN and ELSE where>>
    BY DEF SubQuery, NewCond
<1> HIDE DEF S, T
<1>2. ASSUME NEW b \in Clauses, NEW U \in SUBSET Rows
      PROVE  LET e == [b EXCEPT !.rows = U, !.sub = Kinds(w)]
             IN  e \in Clauses /\ e.k = b.k /\ e.sub = Kinds(w)
  <2> DEFINE k == Kinds(w)
  <2>1. k \in Seq(ClauseNames)
    BY <1>1
  <2> HIDE DEF k
  <2>2. LET e == [b EXCEPT !.rows = U, !.sub = k] IN e \in Clauses /\ e.k = b.k /\ e.sub = k
    BY <2>1 DEF Clauses
  <2> QED
    BY <2>2 DEF k
<1>3. Clause("WHERE") \in Clauses /\ Clause("AND") \in Clauses /\ Clause("WHERE").k = "WHERE"
        /\ Clause("AND").k = "AND"
    BY <1>0, ClauseType
<1>4. and \in Clauses /\ and.k = "AND" /\ and.sub = Kinds(w)
    BY <1>2, <1>3, <1>13, Zenon
<1>5. where \in Clauses /\ where.k = "WHERE" /\ where.sub = Kinds(w)
    BY <1>2, <1>3, <1>13, Zenon
<1>14. alone \in Clauses /\ alone.k = "WHERE" /\ alone.sub = Kinds(w)
    BY <1>2, <1>3, <1>13, Zenon
<1>6. Simple(first, "WHERE")
    BY <1>0, SimpleClauses
<1>8. writeWhereCond(c) = IF c.valid THEN <<first>> ELSE Nothing
    BY DEF writeWhereCond, When
<1> HIDE DEF and, where, alone, first
<1>9. Tidy(<<where>>, 1, 1) /\ Tidy(<<alone>>, 1, 1)
  <2>1. Simple(where, "WHERE") /\ Simple(alone, "WHERE")
    BY <1>5, <1>14 DEF Simple
  <2>2. "WHERE" \in ClauseNames \ {"AND"}
    BY <1>0
  <2> QED
    BY <2>1, <2>2, SimpleTidy, Ranks
<1>10. CASE c.valid
  <2> DEFINE t == <<first>> \o <<and>>
  <2>1. first \in Clauses /\ first.k = "WHERE" /\ InOrder(first.sub)
    BY <1>6 DEF Simple
  <2>2. t \in Texts /\ DOMAIN t = {1, 2} /\ t[1] = first /\ t[2] = and
    <3>1. <<first>> \in Texts /\ <<and>> \in Texts
      BY <1>4, <2>1 DEF Texts
    <3>2. t \in Texts
      BY <3>1, Concat
    <3>3. Len(<<first>>) = 1 /\ Len(<<and>>) = 1
      OBVIOUS
    <3>4. Len(t) = 2 /\ t[1] = first /\ t[2] = and
      BY <3>1, <3>3 DEF Texts
    <3> QED
      BY <3>2, <3>4 DEF Texts
  <2> HIDE DEF t
  <2>3. Tidy(t, 1, 2)
    <3>1. Rank(t[1].k) = 1 /\ Rank(t[2].k) = 2 /\ t[1].k = "WHERE"
      BY <1>4, <2>1, <2>2, Ranks
    <3>2. \A i \in DOMAIN t : InOrder(t[i].sub)
      BY <1>4, <2>1, <2>2
    <3>3. \A i \in DOMAIN t : Rank(t[i].k) = 0 \/ Rank(t[i].k) \in 1 .. 2
      BY <2>2, <3>1
    <3>4. \A i, j \in DOMAIN t :
             i < j /\ Rank(t[i].k) > 0 /\ Rank(t[j].k) > 0 => Rank(t[i].k) < Rank(t[j].k)
      BY <2>2, <3>1
    <3> QED
      BY <2>2, <3>1, <3>2, <3>3, <3>4 DEF Tidy
  <2>4. c.valid = TRUE
    BY <1>0, <1>10
  <2> QED
    BY <1>7, <1>8, <1>9, <2>3, <2>4 DEF t
<1>11. CASE ~c.valid
  <2>1. c.valid = FALSE
    BY <1>0, <1>11
  <2>2. Nothing \o <<where>> = <<where>>
    BY DEF Nothing
  <2>3. Tidy(<<where>>, 1, 2)
    BY <1>9, TidyWider
  <2> QED
    BY <1>7, <1>8, <1>9, <2>1, <2>2, <2>3
<1> QED
    BY <1>10, <1>11

LEMMA Associates == \A a, b, c \in Texts : (a \o b) \o c = a \o (b \o c)
BY DEF Texts

\* Where the legacy pagination of SQL Server sorts before it groups.
Sorts(s, d) == d = "mssql_legacy" /\ s.GroupByStr /\ s.orderBy # <<>> /\ s.Start > 0

LEMMA TidyLegacy ==
    ASSUME NEW s, Stmt(s), NEW d, ~(s.GroupByStr /\ s.orderBy # <<>> /\ s.Start > 0)
    PROVE  Tidy(writeWhere(s) \o writeMssqlPaginationCond(d, s), 1, 2)
<1> DEFINE x == Page("TOP", 0, s.Start) \o writeFrom(d, s)
           sub == x \o writeWhere(s) \o writeOrderBys(s) \o writeGroupBy(s)
           R == Rows \ Range(RowsOf(sub))
<1>1. writeMssqlPaginationCond(d, s) =
         When(s.Start > 0, IF ~s.RefTable \/ Failed(sub) THEN Fail
                           ELSE SubQuery(s.cond, R, sub))
    BY DEF writeMssqlPaginationCond
<1>2. Loose(x)
  <2>1. Loose(Page("TOP", 0, s.Start))
    BY TidyTexts DEF Stmt
  <2> QED
    BY <2>1, TidyWriters, LooseConcat
<1> HIDE DEF x
<1>3. Tidy(x \o writeWhere(s), 1, 1)
    BY <1>2, TidyWriters, LooseTidy
<1>4. s.Start > 0 => Tidy(sub, 1, 6)
  <2>1. CASE ~s.GroupByStr
    <3>1. Tidy(x \o writeWhere(s) \o writeOrderBys(s), 1, 6)
      BY <1>3, TidyWriters, TidyConcat
    <3>2. Loose(writeGroupBy(s))
      BY <2>1, TidyNothing DEF writeGroupBy, When, Loose
    <3> QED
      BY <3>1, <3>2, TidyLoose
  <2>2. CASE s.orderBy = <<>>
    <3>1. Loose(writeOrderBys(s))
      BY <2>2, TidyNothing DEF writeOrderBys, When, Loose
    <3>2. Tidy(x \o writeWhere(s) \o writeOrderBys(s), 1, 1)
      BY <1>3, <3>1, TidyLoose
    <3>3. Tidy(sub, 1, 4)
      BY <3>2, TidyWriters, TidyConcat
    <3> HIDE DEF sub
    <3> QED
      BY <3>3, TidyWider
  <2> QED
    BY <2>1, <2>2
<1> HIDE DEF sub
<1>5. s.cond \in Conds /\ R \in SUBSET Rows
    BY DEF Stmt
<1> HIDE DEF R
<1>6. writeWhere(s) = writeWhereCond(s.cond)
    BY DEF writeWhere
<1>7. CASE writeMssqlPaginationCond(d, s) = SubQuery(s.cond, R, sub) /\ s.Start > 0
  <2>1. sub \in Texts /\ InOrder(Kinds(sub))
    BY <1>4, <1>7, TidyInOrder DEF Tidy
  <2>2. Tidy(writeWhereCond(s.cond) \o SubQuery(s.cond, R, sub), 1, 2)
    BY <1>5, <2>1, TidySub
  <2> QED
    BY <1>6, <1>7, <2>2
<1>8. CASE writeMssqlPaginationCond(d, s) \in {Fail, Nothing}
  <2>1. Loose(Fail) /\ Loose(Nothing)
    BY TidyTexts, LooseWhen
  <2>2. Loose(writeMssqlPaginationCond(d, s))
    BY <1>8, <2>1
  <2>3. Tidy(writeWhere(s), 1, 2)
    BY TidyWriters, TidyWider
  <2> QED
    BY <2>2, <2>3, TidyLoose
<1> QED
    BY <1>1, <1>7, <1>8 DEF When

\* Every SELECT.
LEMMA TidySelect ==
    ASSUME NEW s, Stmt(s), NEW d, ~Sorts(s, d), NEW counting
    PROVE  Tidy(writeSelect(d, s, counting), 1, 8)
<1> DEFINE w == writeSelect(d, s, counting)
           t == AfterSelect(d, s, counting)
           order == IF MssqlNeedsOrder(d, s) /\ MssqlByFirstColumn(s, counting)
                    THEN Text("ORDER BY") ELSE writeOrderBys(t)
<1>1. Loose(Text("SELECT"))
    BY TidyTexts DEF Unranked, ClauseNames
<1>2. Tidy(order, 6, 6)
  <2>1. "ORDER BY" \in ClauseNames \ {"AND"}
    BY DEF ClauseNames
  <2>2. Tidy(Text("ORDER BY"), 6, 6)
    BY <2>1, TidyTexts, Ranks
  <2> QED
    BY <2>2, TidyOrder
<1> HIDE DEF order
<1>3. /\ Loose(writeFrom(d, s)) /\ Loose(writeTop(s))
      /\ Tidy(writeWhere(s), 1, 1) /\ Tidy(writeOracleLimit(s), 3, 3)
      /\ Tidy(writeGroupBy(s), 4, 4) /\ Tidy(writeHaving(s), 5, 5)
      /\ Tidy(writeOrderBys(s), 6, 6) /\ Tidy(writePagination(d, s), 7, 7)
      /\ Tidy(writeForUpdate(d, s), 8, 8)
    BY TidyWriters
<1>4. CASE d = "mssql_legacy"
  <2> DEFINE x == Text("SELECT") \o writeTop(s) \o writeFrom(d, s)
             p == writeMssqlPaginationCond(d, s)
             y == x \o writeWhere(s) \o p
  <2>1. w = y \o writeGroupBy(s) \o writeHaving(s) \o writeOrderBys(s) \o writeForUpdate(d, s)
    BY <1>4 DEF writeSelect, writeMssqlLegacySelect
  <2>2. Loose(x)
    BY <1>1, <1>3, LooseConcat
  <2> HIDE DEF x
  <2>3. Tidy(writeWhere(s) \o p, 1, 2)
    BY <1>4, TidyLegacy DEF Sorts
  <2>4. x \in Texts /\ writeWhere(s) \in Texts /\ p \in Texts
    BY <1>3, <2>2, LegacyCond DEF Tidy, Loose
  <2>5. y = x \o (writeWhere(s) \o p)
    BY <2>4, Associates
  <2> HIDE DEF p, y
  <2>6. Tidy(y, 1, 2)
    BY <2>2, <2>3, <2>5, LooseTidy
  <2>7. Tidy(y \o writeGroupBy(s), 1, 4)
    BY <1>3, <2>6, TidyConcat
  <2>8. Tidy(y \o writeGroupBy(s) \o writeHaving(s), 1, 5)
    BY <1>3, <2>7, TidyConcat
  <2>9. Tidy(y \o writeGroupBy(s) \o writeHaving(s) \o writeOrderBys(s), 1, 6)
    BY <1>3, <2>8, TidyConcat
  <2> QED
    BY <1>3, <2>1, <2>9, TidyConcat
<1>5. CASE d = "oracle_legacy"
  <2> DEFINE x == Text("SELECT") \o writeFrom(d, s)
             y == x \o writeWhere(s)
             z == y \o writeOracleLimit(s)
  <2>1. w = z \o writeGroupBy(s) \o writeHaving(s) \o writeOrderBys(s) \o writeForUpdate(d, s)
    BY <1>5 DEF writeSelect, writeOracleLegacySelect
  <2>2. Loose(x)
    BY <1>1, <1>3, LooseConcat
  <2> HIDE DEF x
  <2>3. Tidy(y, 1, 1)
    BY <1>3, <2>2, LooseTidy
  <2> HIDE DEF y
  <2>4. Tidy(z, 1, 3)
    BY <1>3, <2>3, TidyConcat
  <2> HIDE DEF z
  <2>5. Tidy(z \o writeGroupBy(s), 1, 4)
    BY <1>3, <2>4, TidyConcat
  <2>6. Tidy(z \o writeGroupBy(s) \o writeHaving(s), 1, 5)
    BY <1>3, <2>5, TidyConcat
  <2>7. Tidy(z \o writeGroupBy(s) \o writeHaving(s) \o writeOrderBys(s), 1, 6)
    BY <1>3, <2>6, TidyConcat
  <2> QED
    BY <1>3, <2>1, <2>7, TidyConcat
<1>6. CASE d \notin {"mssql_legacy", "oracle_legacy"}
  <2> DEFINE x == Text("SELECT") \o writeFrom(d, s)
             y == x \o writeWhere(s)
  <2>1. w = y \o writeGroupBy(s) \o writeHaving(s) \o order \o writePagination(d, s)
              \o writeForUpdate(d, s)
    BY <1>6 DEF writeSelect, order
  <2>2. Loose(x)
    BY <1>1, <1>3, LooseConcat
  <2> HIDE DEF x
  <2>3. Tidy(y, 1, 1)
    BY <1>3, <2>2, LooseTidy
  <2> HIDE DEF y
  <2>4. Tidy(y \o writeGroupBy(s), 1, 4)
    BY <1>3, <2>3, TidyConcat
  <2>5. Tidy(y \o writeGroupBy(s) \o writeHaving(s), 1, 5)
    BY <1>3, <2>4, TidyConcat
  <2>6. Tidy(y \o writeGroupBy(s) \o writeHaving(s) \o order, 1, 6)
    BY <1>2, <2>5, TidyConcat
  <2>7. Tidy(y \o writeGroupBy(s) \o writeHaving(s) \o order \o writePagination(d, s), 1, 7)
    BY <1>3, <2>6, TidyConcat
  <2> QED
    BY <1>3, <2>1, <2>7, TidyConcat
<1> QED
    BY <1>4, <1>5, <1>6

\* Every UPDATE.
LEMMA LooseSets == ASSUME NEW s, Stmt(s), NEW bean PROVE Loose(writeUpdateSets(s, bean))
<1> DEFINE a == writeSetColumns(UpdateColumns(s, bean))
           b == writeIncrSets(s)
           c == writeDecrSets(s)
           e == writeExprSets(s)
           v == writeVersionIncrSet(s, bean)
           w == a \o b \o c \o e \o v
<1>1. \A cols \in Seq(ColumnNames) : Loose(SetClause(cols)) /\ Loose(writeSetColumns(cols))
  <2>1. \A cols \in Seq(ColumnNames) : SetClause(cols) = List("SET", cols)
    BY DEF SetClause, List
  <2>2. "SET" \in Unranked
    BY DEF Unranked, ClauseNames
  <2>3. \A cols \in Seq(ColumnNames) : Loose(SetClause(cols))
    BY <2>1, <2>2, TidyTexts
  <2> QED
    BY <2>3, LooseWhen DEF writeSetColumns
<1>2. Loose(a)
    BY <1>1, UpdateColumnsType
<1>3. Loose(b) /\ Loose(c) /\ Loose(e)
    BY <1>1 DEF Stmt, writeIncrSets, writeDecrSets, writeExprSets
<1>4. Loose(v)
  <2>1. <<"ver">> \in Seq(ColumnNames)
    BY DEF ColumnNames
  <2> QED
    BY <1>1, <2>1, LooseWhen DEF writeVersionIncrSet
<1>5. writeUpdateSets(s, bean) = IF w = Nothing THEN Fail ELSE w
    BY DEF writeUpdateSets
<1> HIDE DEF a, b, c, e, v
<1>6. Loose(w)
    BY <1>2, <1>3, <1>4, LooseConcat
<1> HIDE DEF w
<1> QED
    BY <1>5, <1>6, TidyTexts

LEMMA TidyUpdateLimit ==
    ASSUME NEW d, NEW s, Stmt(s), NEW c \in Conds
    PROVE  LET w == writeUpdateLimit(d, s, c)
           IN  /\ DBType(d) = "mysql" => Tidy(w, 7, 7)
               /\ DBType(d) \notin {"mysql", "mssql"} => Tidy(writeWhereCond(c) \o w, 1, 2)
               /\ DBType(d) = "mssql" => Tidy(w, 1, 1) /\ (~OrderByKey(s) => Loose(w))
<1> DEFINE where == writeWhereCond(c)
           order == writeOrderBys(s)
           cut == Page("LIMIT", 0, s.LimitN)
           page == Page("TOP", 0, s.LimitN)
           limited == where \o order \o cut
           top == page \o where \o order
           R == Range(RowsOf(limited))
           T == Range(RowsOf(top))
           w == writeUpdateLimit(d, s, c)
           sub == SubQuery(c, R, limited)
           tops == SubQuery(NewCond, T, top)
<1>1. Tidy(where, 1, 1) /\ Tidy(order, 6, 6)
    BY TidyWhere, TidyOrder
<1>2. Tidy(cut, 7, 7)
  <2>1. "LIMIT" \in ClauseNames \ {"AND"} /\ s.LimitN \in Nat \cup {NoLimit}
    BY DEF ClauseNames, Stmt
  <2> QED
    BY <2>1, TidyTexts, Ranks
<1>3. Loose(page)
    BY TidyTexts DEF Stmt
<1>4. w = When(s.LimitN # NoLimit,
               CASE DBType(d) = "mysql" -> cut
                 [] DBType(d) \in {"sqlite3", "postgres"} -> sub
                 [] DBType(d) = "mssql" -> When(OrderByKey(s), tops)
                 [] OTHER -> Fail)
    BY DEF writeUpdateLimit
<1>5. \/ w = Nothing
      \/ DBType(d) = "mysql" /\ w = cut
      \/ DBType(d) \in {"sqlite3", "postgres"} /\ w = sub
      \/ DBType(d) = "mssql" /\ w = When(OrderByKey(s), tops)
      \/ DBType(d) \notin {"mysql", "mssql"} /\ w = Fail
    BY <1>4, Zenon DEF When
<1> HIDE DEF where, order, cut, page, w
<1>6. Tidy(limited, 1, 7)
  <2>1. Tidy(where \o order, 1, 6)
    BY <1>1, TidyConcat
  <2> QED
    BY <1>2, <2>1, TidyConcat
<1>7. Tidy(top, 1, 6)
  <2>1. Tidy(page \o where, 1, 1)
    BY <1>1, <1>3, LooseTidy
  <2> QED
    BY <1>1, <2>1, TidyConcat
<1> HIDE DEF limited, top
<1>8. limited \in Texts /\ InOrder(Kinds(limited)) /\ R \subseteq Rows
  <2>1. limited \in Texts /\ InOrder(Kinds(limited))
    BY <1>6, TidyInOrder DEF Tidy
  <2>2. RowsOf(limited) \in Seq(Rows)
    BY <2>1, RowsOfProps
  <2> QED
    BY <2>1, <2>2 DEF Range
<1>9. top \in Texts /\ InOrder(Kinds(top)) /\ T \subseteq Rows
  <2>1. top \in Texts /\ InOrder(Kinds(top))
    BY <1>7, TidyInOrder DEF Tidy
  <2>2. RowsOf(top) \in Seq(Rows)
    BY <2>1, RowsOfProps
  <2> QED
    BY <2>1, <2>2 DEF Range
<1> HIDE DEF R, T
<1>10. Tidy(where \o sub, 1, 2)
    BY <1>8, TidySub DEF where
<1>11. Tidy(tops, 1, 1)
    BY <1>9, TidySub
<1> HIDE DEF sub, tops
<1>12. Loose(Nothing) /\ Loose(Fail) /\ Tidy(where, 1, 2)
    BY <1>1, TidyTexts, LooseWhen, TidyWider
<1>13. DBType(d) = "mysql" => Tidy(w, 7, 7)
    BY <1>2, <1>5, TidyNothing
<1>14. DBType(d) \notin {"mysql", "mssql"} => Tidy(where \o w, 1, 2)
  <2>1. Tidy(where \o Nothing, 1, 2) /\ Tidy(where \o Fail, 1, 2)
    BY <1>12, TidyLoose
  <2> QED
    BY <1>5, <1>10, <2>1
<1>15. DBType(d) = "mssql" => Tidy(w, 1, 1) /\ (~OrderByKey(s) => Loose(w))
    BY <1>5, <1>11, <1>12, TidyNothing DEF When
<1> QED
    BY <1>13, <1>14, <1>15 DEF w, where

LEMMA TidyUpdate ==
    ASSUME NEW d, NEW s, Stmt(s), NEW c \in Conds, NEW bean
    PROVE  Tidy(WriteUpdate(d, s, c, bean), 1, 8)
<1> DEFINE w == WriteUpdate(d, s, c, bean)
           all == CondAnd(c, joinConds(s))
           sets == writeUpdateSets(s, bean)
           up == Text("UPDATE")
<1>1. all \in Conds
    BY JoinedCond
<1>2. Loose(sets)
    BY LooseSets
<1>3. Loose(up)
    BY TidyTexts DEF Unranked, ClauseNames
<1>4. Loose(Text("FROM"))
    BY TidyTexts DEF Unranked, ClauseNames
<1>5. \A e : Loose(writeUpdateFrom(e, s))
    BY <1>4, LooseWhen DEF writeUpdateFrom
<1> HIDE DEF sets, up
<1>6. \/ DBType(d) = "mysql" /\ w = writeUpdateMySQL(d, s, c, bean)
      \/ DBType(d) = "mssql" /\ w = writeUpdateMSSQL(d, s, c, bean)
      \/ DBType(d) \notin {"mysql", "mssql"} /\ w = writeUpdateCommon(d, s, c, bean)
    BY Zenon DEF WriteUpdate
<1> HIDE DEF w
<1>7. CASE DBType(d) = "mysql" /\ w = writeUpdateMySQL(d, s, c, bean)
  <2> DEFINE where == writeWhereCond(c)
             order == writeOrderBys(s)
             limit == writeUpdateLimit(d, s, c)
             x == up \o writeJoins(s) \o sets
  <2>1. w = x \o where \o order \o limit
    BY <1>7 DEF writeUpdateMySQL, up, sets
  <2>2. Tidy(where, 1, 1) /\ Tidy(order, 6, 6) /\ Tidy(limit, 7, 7)
    BY <1>7, TidyWhere, TidyOrder, TidyUpdateLimit
  <2>3. Loose(x)
    BY <1>2, <1>3, TidyWriters, LooseConcat
  <2> HIDE DEF where, order, limit, x
  <2>4. Tidy(x \o where, 1, 1)
    BY <2>2, <2>3, LooseTidy
  <2>5. Tidy(x \o where \o order, 1, 6)
    BY <2>2, <2>4, TidyConcat
  <2>6. Tidy(w, 1, 7)
    BY <2>1, <2>2, <2>5, TidyConcat
  <2> QED
    BY <2>6, TidyWider DEF w
<1>8. CASE DBType(d) = "mssql" /\ w = writeUpdateMSSQL(d, s, c, bean)
  <2> HIDE DEF all
  <2> DEFINE where == When(~OrderByKey(s), writeWhereCond(all))
             limit == writeUpdateLimit(d, s, all)
             x == up \o writeUpdateTop(d, s) \o sets \o writeUpdateFrom("mssql", s)
  <2>1. w = x \o where \o limit
    BY <1>8 DEF writeUpdateMSSQL, up, sets, all
  <2>2. /\ Tidy(where, 1, 1) /\ (OrderByKey(s) => Loose(where))
        /\ Tidy(limit, 1, 1) /\ (~OrderByKey(s) => Loose(limit))
    BY <1>1, <1>8, TidyWhere, TidyWhen, TidyUpdateLimit, LooseWhen, TidyNothing DEF When, Loose
  <2>3. Loose(x)
    <3>1. Loose(writeUpdateTop(d, s))
      BY TidyWriters, LooseWhen DEF writeUpdateTop
    <3> QED
      BY <1>2, <1>3, <1>5, <3>1, LooseConcat
  <2> HIDE DEF where, limit, x
  <2>4. CASE OrderByKey(s)
    <3>1. Loose(x \o where)
      BY <2>2, <2>3, <2>4, LooseConcat
    <3>2. Tidy(w, 1, 1)
      BY <2>1, <2>2, <3>1, LooseTidy
    <3> QED
      BY <3>2, TidyWider DEF w
  <2>5. CASE ~OrderByKey(s)
    <3>1. Tidy(x \o where, 1, 1)
      BY <2>2, <2>3, LooseTidy
    <3>2. Tidy(w, 1, 1)
      BY <2>1, <2>2, <2>5, <3>1, TidyLoose
    <3> QED
      BY <3>2, TidyWider DEF w
  <2> QED
    BY <2>4, <2>5
<1>9. CASE DBType(d) \notin {"mysql", "mssql"} /\ w = writeUpdateCommon(d, s, c, bean)
  <2> HIDE DEF all
  <2> DEFINE where == writeWhereCond(all)
             limit == writeUpdateLimit(d, s, all)
             x == up \o sets \o writeUpdateFrom(d, s)
  <2>1. w = (x \o where) \o limit
    BY <1>9 DEF writeUpdateCommon, up, sets, all
  <2>2. Tidy(where \o limit, 1, 2)
    BY <1>1, <1>9, TidyUpdateLimit
  <2>3. Loose(x)
    BY <1>2, <1>3, <1>5, LooseConcat
  <2>4. x \in Texts /\ where \in Texts /\ limit \in Texts
    <3>1. Tidy(x, 0 + 1, 0)
      BY <2>3 DEF Loose
    <3> QED
      BY <1>1, <3>1, WhereText, UpdateLimitText DEF Tidy
  <2> HIDE DEF where, limit, x
  <2>5. w = x \o (where \o limit)
    BY <2>1, <2>4, Associates
  <2>6. Tidy(w, 1, 2)
    BY <2>2, <2>3, <2>5, LooseTidy
  <2> QED
    BY <2>6, TidyWider DEF w
<1> QED
    BY <1>6, <1>7, <1>8, <1>9

\* Every DELETE.
LEMMA TidyDelete ==
    ASSUME NEW d, NEW s, Stmt(s) PROVE Tidy(WriteDelete(d, s), 1, 8)
<1> DEFINE page == Page("LIMIT", 0, s.LimitN)
           cut == When(s.LimitN > 0, IF s.Start > 0 THEN Fail ELSE page)
           order == writeOrderBys(s) \o cut
           R == Range(RowsOf(order))
           sub == SubQuery(s.cond, R, order)
           tail == writeOrderCond(d, s)
           head == IF s.unscoped \/ ~s.RefTable THEN Text("DELETE")
                   ELSE Text("UPDATE") \o SetClause(<<"deleted">>)
           where == writeWhereCond(s.cond)
<1>1. Loose(Nothing) /\ Loose(Fail) /\ s.cond \in Conds
    BY LooseWhen, TidyTexts DEF Stmt
<1>2. Tidy(page, 7, 7)
  <2>1. "LIMIT" \in ClauseNames \ {"AND"} /\ s.LimitN \in Nat \cup {NoLimit}
    BY DEF ClauseNames, Stmt
  <2> QED
    BY <2>1, TidyTexts, Ranks
<1> HIDE DEF page
<1>3. Tidy(cut, 7, 7)
  <2>1. Tidy(Fail, 7, 7)
    <3>1. Tidy(Fail, 6 + 1, 6)
      BY <1>1 DEF Loose
    <3> QED
      BY <3>1, TidyWider
  <2> QED
    BY <1>2, <2>1, TidyNothing DEF When
<1> HIDE DEF cut
<1>4. Tidy(order, 6, 7)
    BY <1>3, TidyOrder, TidyConcat
<1>5. writeDeleteOrder(s) = order
    BY DEF writeDeleteOrder, cut, page
<1> HIDE DEF order
<1>6. order \in Texts /\ InOrder(Kinds(order)) /\ R \subseteq Rows
  <2>1. order \in Texts /\ InOrder(Kinds(order))
    BY <1>4, TidyInOrder DEF Tidy
  <2>2. RowsOf(order) \in Seq(Rows)
    BY <2>1, RowsOfProps
  <2> QED
    BY <2>1, <2>2 DEF Range
<1>7. tail = Fail \/ tail = Nothing \/ tail = sub \/ tail = order
    BY <1>5, Zenon DEF writeOrderCond
<1> HIDE DEF R, tail
<1>8. Tidy(where, 1, 1)
    BY <1>1, TidyWhere
<1>9. Tidy(where \o sub, 1, 2)
    BY <1>1, <1>6, TidySub
<1>10. sub \in Texts
    BY <1>1, <1>6, SubText
<1> HIDE DEF where, sub
<1>11. Tidy(where \o tail, 1, 8)
  <2>1. Tidy(where \o sub, 1, 8)
    BY <1>9, TidyWider
  <2>2. Tidy(where \o order, 1, 7)
    BY <1>4, <1>8, TidyConcat
  <2>3. Tidy(where \o order, 1, 8)
    BY <2>2, TidyWider
  <2>4. Tidy(where, 1, 8)
    BY <1>8, TidyWider
  <2>5. Tidy(where \o Fail, 1, 8) /\ Tidy(where \o Nothing, 1, 8)
    BY <1>1, <2>4, TidyLoose
  <2> QED
    BY <1>7, <2>1, <2>3, <2>5
<1>12. Loose(head)
  <2>1. Loose(Text("DELETE"))
    BY TidyTexts DEF Unranked, ClauseNames
  <2>2. Loose(Text("UPDATE"))
    BY TidyTexts DEF Unranked, ClauseNames
  <2>3. Loose(SetClause(<<"deleted">>))
    <3>1. SetClause(<<"deleted">>) = List("SET", <<"deleted">>)
      BY DEF SetClause, List
    <3>2. "SET" \in Unranked /\ <<"deleted">> \in Seq(ColumnNames)
      BY DEF Unranked, ClauseNames, ColumnNames
    <3> QED
      BY <3>1, <3>2, TidyTexts
  <2>4. Loose(Text("UPDATE") \o SetClause(<<"deleted">>))
    BY <2>2, <2>3, LooseConcat
  <2> QED
    BY <2>1, <2>4, Zenon
<1>13. WriteDelete(d, s) = (head \o where) \o tail
    BY DEF WriteDelete, tail, where, writeWhere
<1> HIDE DEF head
<1>14. head \in Texts /\ where \in Texts /\ tail \in Texts
    BY <1>1, <1>6, <1>7, <1>8, <1>10, <1>12 DEF Loose, Tidy
<1>15. WriteDelete(d, s) = head \o (where \o tail)
    BY <1>13, <1>14, Associates
<1> QED
    BY <1>11, <1>12, <1>15, LooseTidy

-----------------------------------------------------------------------------
(* What every call sends, and the columns the chained calls name.           *)

\* The columns of Cols, Distinct and Omit.
Named(s) ==
    /\ s.ColumnMap \subseteq {"a", "e", "updated", "ver"}
    /\ s.OmitColumnMap \subseteq {"a", "ver"}

Good(s) == Stmt(s) /\ Named(s)

\* What a generator returns.
Neat(o, d) == Good(o.st) /\ (Sorts(o.st, d) \/ Tidy(o.w, 1, 8))

LEMMA NamedSame ==
    ASSUME NEW s, NEW t, Named(s), t.ColumnMap = s.ColumnMap, t.OmitColumnMap = s.OmitColumnMap
    PROVE  Named(t)
BY DEF Named

LEMMA GoodNarrows == ASSUME NEW s, NEW t, Good(s), Narrows(t, s) PROVE Good(t)
<1>1. /\ Stmt(t) /\ t.IncrColumns = s.IncrColumns /\ t.DecrColumns = s.DecrColumns
      /\ t.ExprColumns = s.ExprColumns /\ t.ColumnMap = s.ColumnMap
      /\ t.OmitColumnMap = s.OmitColumnMap
    BY DEF Narrows, Fields
<1> QED
    BY <1>1, NamedSame DEF Good

LEMMA GoodRefBean == ASSUME NEW s, Good(s) PROVE Good(SetRefBean(s))
<1> DEFINE t == SetRefBean(s)
<1>1. Stmt(t) /\ \A f \in Fields \ {"RefTable", "TableName"} : t[f] = s[f]
    BY RefBeanStmt DEF Good
<1> HIDE DEF t
<1>2. /\ t.IncrColumns = s.IncrColumns /\ t.DecrColumns = s.DecrColumns
      /\ t.ExprColumns = s.ExprColumns /\ t.ColumnMap = s.ColumnMap
      /\ t.OmitColumnMap = s.OmitColumnMap
    BY <1>1 DEF Fields
<1>3. Good(t)
    BY <1>1, <1>2, NamedSame DEF Good
<1> QED
    BY <1>3 DEF t

LEMMA GoodReset == ASSUME NEW s, Good(s) PROVE Good(Reset(s))
<1>1. Stmt(Reset(s))
    BY ResetStmt DEF Good, Stmt
<1>2. Named(Reset(s))
    BY DEF Reset, Fresh, Named
<1> QED
    BY <1>1, <1>2 DEF Good

LEMMA GoodLimit ==
    ASSUME NEW s, Good(s), NEW n \in Nat
    PROVE  Good([s EXCEPT !.LimitN = n])
           /\ \A start \in Nat : Good([s EXCEPT !.LimitN = n, !.Start = start])
<1>1. ASSUME NEW start \in Nat PROVE Good([s EXCEPT !.LimitN = n, !.Start = start])
  <2> DEFINE t == [s EXCEPT !.LimitN = n, !.Start = start]
  <2>1. /\ t.LimitN = n /\ t.Start = start /\ DOMAIN t = Fields
        /\ \A f \in Fields \ {"LimitN", "Start"} : t[f] = s[f]
    BY DEF Good, Stmt, Fields
  <2> HIDE DEF t
  <2>2. Stmt(t)
    BY <2>1 DEF Good, Stmt, Fields
  <2>3. /\ t.IncrColumns = s.IncrColumns /\ t.DecrColumns = s.DecrColumns
        /\ t.ExprColumns = s.ExprColumns /\ t.ColumnMap = s.ColumnMap
        /\ t.OmitColumnMap = s.OmitColumnMap
    BY <2>1 DEF Fields
  <2>4. Good(t)
    BY <2>2, <2>3, NamedSame DEF Good
  <2> QED
    BY <2>4 DEF t
<1>2. Good([s EXCEPT !.LimitN = n])
  <2> DEFINE t == [s EXCEPT !.LimitN = n]
  <2>1. Stmt(t) /\ \A f \in Fields \ {"LimitN"} : t[f] = s[f]
    BY LimitStmt DEF Good, Stmt, Fields
  <2> HIDE DEF t
  <2>3. /\ t.IncrColumns = s.IncrColumns /\ t.DecrColumns = s.DecrColumns
        /\ t.ExprColumns = s.ExprColumns /\ t.ColumnMap = s.ColumnMap
        /\ t.OmitColumnMap = s.OmitColumnMap
    BY <2>1 DEF Fields
  <2>4. Good(t)
    BY <2>1, <2>3, NamedSame DEF Good
  <2> QED
    BY <2>4 DEF t
<1> QED
    BY <1>1, <1>2

LEMMA NeatFail ==
    ASSUME NEW s, Good(s), NEW d PROVE Neat(Refused(s), d) /\ Neat(Raw(s), d) /\ Tidy(Fail, 1, 8)
<1>1. "RAW" \in Unranked
    BY DEF Unranked, ClauseNames
<1>2. Tidy(Fail, 0 + 1, 0) /\ Tidy(Text("RAW"), 0 + 1, 0)
    BY <1>1, TidyTexts DEF Loose
<1>3. Tidy(Fail, 1, 8) /\ Tidy(Text("RAW"), 1, 8)
    BY <1>2, TidyWider
<1> QED
    BY <1>3 DEF Neat, Refused, Raw

LEMMA NeatSelect ==
    ASSUME NEW s, Good(s), NEW d, NEW counting PROVE Neat(Select(d, s, counting), d)
<1> DEFINE t == AfterSelect(d, s, counting)
<1>1. Stmt(s)
    BY DEF Good
<1>2. Good(t)
    BY <1>1, SelectNarrows, GoodNarrows
<1>3. Sorts(s, d) => t = s
    BY DEF Sorts, AfterSelect, MssqlNeedsOrder
<1>4. ~Sorts(s, d) => Tidy(writeSelect(d, s, counting), 1, 8)
    BY <1>1, TidySelect
<1> QED
    BY <1>2, <1>3, <1>4 DEF Neat, Select

LEMMA NeatById ==
    ASSUME NEW t, NEW s, Good(s), NEW d, NEW counting PROVE Neat(SelectById(d, t, s, counting), d)
BY NeatFail, NeatSelect DEF SelectById

LEMMA NeatBean ==
    ASSUME NEW s, Good(s), NEW d, NEW counting
    PROVE  LET t == SetRefBean(s) IN Neat(SelectById(d, t, MergeConds(t), counting), d)
<1> DEFINE t == SetRefBean(s)
<1>1. Good(t)
    BY GoodRefBean
<1> HIDE DEF t
<1>2. Good(MergeConds(t))
    BY <1>1, MergeNarrows, GoodNarrows DEF Good
<1>3. Neat(SelectById(d, t, MergeConds(t), counting), d)
    BY <1>2, NeatById
<1> QED
    BY <1>3 DEF t

LEMMA NeatGet ==
    ASSUME NEW s, Good(s), NEW d, NEW bean PROVE Neat(GenGetSQL(d, s, bean), d)
<1>1. CASE bean = "struct"
    BY <1>1, NeatBean DEF GenGetSQL
<1>2. CASE bean # "struct"
  <2> DEFINE a == [s EXCEPT !.cond = CondAnd(@, CondDeleted(s))]
             u == IF s.RefTable /\ ~s.unscoped THEN a ELSE s
             o == SelectById(d, s, ProcessIDParam(u), FALSE)
  <2>1. CondDeleted(s) \in Conds
    BY AutoConds, CondTypes
  <2>2. GenGetSQL(d, s, bean) = o
    BY <1>2 DEF GenGetSQL
  <2>a. Good(a)
    BY <2>1, AndNarrows, GoodNarrows DEF Good
  <2> HIDE DEF a
  <2>3. Good(u)
    BY <2>a
  <2> HIDE DEF u
  <2>4. Good(ProcessIDParam(u))
    BY <2>3, IdNarrows, GoodNarrows DEF Good
  <2> QED
    BY <2>2, <2>4, NeatById
<1> QED
    BY <1>1, <1>2

LEMMA NeatCount ==
    ASSUME NEW s, Good(s), NEW d, NEW bean PROVE Neat(GenCountSQL(d, s, bean), d)
BY NeatFail, NeatBean, NeatSelect DEF GenCountSQL

LEMMA NeatSum == ASSUME NEW s, Good(s), NEW d PROVE Neat(GenSumSQL(d, s), d)
BY NeatFail, NeatBean DEF GenSumSQL

LEMMA NeatQuery == ASSUME NEW s, Good(s), NEW d PROVE Neat(GenQuerySQL(d, s), d)
<1>1. Good(ProcessIDParam(s))
    BY IdNarrows, GoodNarrows DEF Good
<1> QED
    BY <1>1, NeatFail, NeatById DEF GenQuerySQL

LEMMA NeatGenFind ==
    ASSUME NEW s, Good(s), NEW d, NEW c \in Conds PROVE Neat(GenFindSQL(d, s, c), d)
<1> DEFINE u == [s EXCEPT !.cond = CondAnd(@, c)]
<1>1. Good(u)
    BY AndNarrows, GoodNarrows DEF Good
<1>2. GenFindSQL(d, s, c) = IF s.RawSQL THEN Raw(s) ELSE IF ~s.TableName THEN Refused(s)
                            ELSE Select(d, u, FALSE)
    BY DEF GenFindSQL
<1> HIDE DEF u
<1> QED
    BY <1>1, <1>2, NeatFail, NeatSelect

LEMMA NeatExist ==
    ASSUME NEW st0, Good(st0), NEW d, NEW bean PROVE Neat(GenExistSQL(d, st0, bean), d)
<1> DEFINE s == IF bean = "struct" THEN SetRefBean(st0) ELSE st0
           w == Text("SELECT") \o When(DBType(d) = "mssql", Page("TOP", 0, 1))
                  \o writeFrom(d, s) \o writeWhere(s)
           v == CASE DBType(d) = "mssql" -> w
                  [] DBType(d) = "oracle" -> w \o Page("ROWNUM", 0, 1)
                  [] OTHER -> w \o Page("LIMIT", 0, 1)
           l == [s EXCEPT !.LimitN = 1]
           o == GenExistSQL(d, st0, bean)
<1>1. Good(s) /\ Stmt(s)
    BY GoodRefBean DEF Good
<1>2. o = CASE st0.RawSQL -> Raw(st0)
            [] ~st0.RawSQL /\ ~s.TableName -> Refused(s)
            [] ~st0.RawSQL /\ s.RefTable -> GenGetSQL(d, l, bean)
            [] OTHER -> [w |-> v, st |-> s]
    BY DEF GenExistSQL
<1>3. o = Raw(st0) \/ o = Refused(s) \/ o = GenGetSQL(d, l, bean) \/ o = [w |-> v, st |-> s]
    BY <1>2, Zenon
<1> HIDE DEF s
<1>4. v = w \/ v = w \o Page("ROWNUM", 0, 1) \/ v = w \o Page("LIMIT", 0, 1)
    BY Zenon
<1>5. Tidy(w, 1, 1)
  <2> DEFINE x == Text("SELECT") \o When(DBType(d) = "mssql", Page("TOP", 0, 1)) \o writeFrom(d, s)
  <2>1. Loose(Text("SELECT"))
    BY TidyTexts DEF Unranked, ClauseNames
  <2>2. Loose(When(DBType(d) = "mssql", Page("TOP", 0, 1)))
    BY TidyTexts, LooseWhen
  <2>3. Loose(x)
    BY <1>1, <2>1, <2>2, TidyWriters, LooseConcat
  <2> HIDE DEF x
  <2>4. Tidy(x \o writeWhere(s), 1, 1)
    BY <1>1, <2>3, TidyWriters, LooseTidy
  <2> QED
    BY <2>4 DEF x
<1> HIDE DEF w, v, o
<1>6. Tidy(v, 1, 8)
  <2>0. {"ROWNUM", "LIMIT"} \subseteq ClauseNames \ {"AND"} /\ 0 \in Nat /\ 1 \in Nat \cup {NoLimit}
    BY DEF ClauseNames
  <2>1. Tidy(Page("ROWNUM", 0, 1), 3, 3) /\ Tidy(Page("LIMIT", 0, 1), 7, 7)
    BY <2>0, TidyTexts, Ranks
  <2>2. Tidy(w \o Page("ROWNUM", 0, 1), 1, 3)
    BY <1>5, <2>1, TidyConcat
  <2>3. Tidy(w \o Page("LIMIT", 0, 1), 1, 7)
    BY <1>5, <2>1, TidyConcat
  <2>4. Tidy(v, 1, 1) \/ Tidy(v, 1, 3) \/ Tidy(v, 1, 7)
    BY <1>4, <1>5, <2>2, <2>3
  <2> QED
    BY <2>4, TidyWider
<1>7. Good(l)
    BY <1>1, GoodLimit
<1> HIDE DEF l
<1>8. Neat(GenGetSQL(d, l, bean), d)
    BY <1>7, NeatGet
<1>9. Neat(Raw(st0), d) /\ Neat(Refused(s), d)
    BY <1>1, NeatFail
<1>10. Neat([w |-> v, st |-> s], d)
    BY <1>1, <1>6 DEF Neat
<1>11. Neat(o, d)
    BY <1>3, <1>8, <1>9, <1>10
<1> QED
    BY <1>11 DEF o

LEMMA NeatFind == ASSUME NEW s, Good(s), NEW bean PROVE Neat(find(s, bean), dialect)
<1>1. FindCond(s, bean) \in Conds
    BY FindCondType
<1> QED
    BY <1>1, NeatFail, NeatGenFind DEF find

LEMMA NeatRows == ASSUME Good(st), NEW bean PROVE Neat(newRows(bean), dialect)
<1> DEFINE s == SetRefBean(st)
           c == IF s.NoAutoCondition THEN CondDeleted(s) ELSE BuildConds(s)
           gen == GenFindSQL(dialect, s, c)
           o == newRows(bean)
<1>1. Good(s)
    BY GoodRefBean
<1>2. c \in Conds
    BY AutoConds
<1>3. o = IF bean = "bad" THEN [w |-> Fail, st |-> st, sent |-> FALSE]
          ELSE [w |-> IF s.LastError THEN Fail ELSE gen.w, st |-> gen.st,
                sent |-> ~Failed(gen.w)]
    BY DEF newRows
<1> HIDE DEF s, c
<1>4. Neat(gen, dialect)
    BY <1>1, <1>2, NeatGenFind
<1> HIDE DEF gen, o
<1>5. \/ o.st = st /\ o.w = Fail
      \/ o.st = gen.st /\ (o.w = Fail \/ o.w = gen.w)
    BY <1>3
<1>6. Tidy(Fail, 1, 8)
    BY NeatFail
<1>7. Neat(o, dialect)
    BY <1>4, <1>5, <1>6 DEF Neat
<1> QED
    BY <1>7 DEF o

NamedFields == {"ColumnMap", "OmitColumnMap"}

LEMMA ChainNamed ==
    ASSUME NEW call, NEW s, NEW a, Chain(call, s, a), Named(s) PROVE Named(st)'
<1>1. st' = s
    BY DEF Chain
<1> QED
    BY <1>1 DEF Named

\* A chained call that fills in another field.
LEMMA SetNamed ==
    ASSUME Named(st), DOMAIN st = Fields, NEW call, NEW f \in Fields \ NamedFields, NEW v,
           Option(call, [st EXCEPT ![f] = v])
    PROVE  Named(st)'
<1> DEFINE s == [st EXCEPT ![f] = v]
<1>1. \A g \in NamedFields : s[g] = st[g]
    BY DEF Fields, NamedFields
<1>2. Chain(call, s, asked)
    BY DEF Option
<1> HIDE DEF s
<1>3. Named(s)
    BY <1>1, NamedSame DEF NamedFields
<1> QED
    BY <1>2, <1>3, ChainNamed

LEMMA ChainedNamed ==
    ASSUME Base, Named(st), ChainedCall PROVE Named(st)'
<1>0. DOMAIN st = Fields
    BY DEF Base, Stmt
<1>1. CASE Where \/ Or
  <2> DEFINE c == CondAnd(st.cond, Eq("where"))
             e == CondOr(st.cond, Eq("or"))
  <2>1. \/ st' = [st EXCEPT !.cond = c]
        \/ st' = [st EXCEPT !.cond = e]
    BY <1>1 DEF Where, Or, Chain
  <2> HIDE DEF c, e
  <2>2. \A x : \A g \in NamedFields : [st EXCEPT !.cond = x][g] = st[g]
    BY <1>0 DEF Fields, NamedFields
  <2>3. \A g \in NamedFields : st'[g] = st[g]
    BY <2>1, <2>2
  <2> QED
    BY <2>3 DEF Named, NamedFields
<1>2. CASE ID
  <2>1. PICK n \in 1 .. 2 : st' = [st EXCEPT !.idParam = n]
    BY <1>2 DEF ID, Chain
  <2>2. \A g \in NamedFields : st'[g] = st[g]
    BY <1>0, <2>1 DEF Fields, NamedFields
  <2> QED
    BY <2>2 DEF Named, NamedFields
<1>3. CASE Table
  <2>1. PICK struct \in BOOLEAN :
           st' = [st EXCEPT !.TableName = TRUE, !.RefTable = @ \/ struct]
    BY <1>3 DEF Table, Option, Chain
  <2>2. \A g \in NamedFields : st'[g] = st[g]
    BY <1>0, <2>1 DEF Fields, NamedFields
  <2> QED
    BY <2>2 DEF Named, NamedFields
<1>4. CASE Limit
  <2>1. PICK n, start \in {0, 2} : st' = [st EXCEPT !.LimitN = n, !.Start = start]
    BY <1>4 DEF Limit, Option, Chain
  <2>2. \A g \in NamedFields : st'[g] = st[g]
    BY <1>0, <2>1 DEF Fields, NamedFields
  <2> QED
    BY <2>2 DEF Named, NamedFields
<1>5. CASE Distinct
  <2> DEFINE cols == st.ColumnMap \cup {"a"}
  <2>1. st' = [st EXCEPT !.IsDistinct = TRUE, !.ColumnMap = cols]
    BY <1>5 DEF Distinct, Option, Chain
  <2> HIDE DEF cols
  <2>2. st'.ColumnMap = cols /\ \A g \in NamedFields \ {"ColumnMap"} : st'[g] = st[g]
    BY <1>0, <2>1 DEF Fields, NamedFields
  <2>3. cols \subseteq {"a", "e", "updated", "ver"}
    BY DEF Named, cols
  <2> QED
    BY <2>2, <2>3 DEF Named, NamedFields
<1>15. CASE Cols
  <2>1. PICK c \in {"e", "updated", "ver"} : st' = [st EXCEPT !.ColumnMap = @ \cup {c}]
    BY <1>15 DEF Cols, Option, Chain
  <2> DEFINE cols == st.ColumnMap \cup {c}
  <2>2. st' = [st EXCEPT !.ColumnMap = cols]
    BY <2>1
  <2> HIDE DEF cols
  <2>3. st'.ColumnMap = cols /\ \A g \in NamedFields \ {"ColumnMap"} : st'[g] = st[g]
    BY <1>0, <2>2 DEF Fields, NamedFields
  <2>4. cols \subseteq {"a", "e", "updated", "ver"}
    BY DEF Named, cols
  <2> QED
    BY <2>3, <2>4 DEF Named, NamedFields
<1>6. CASE BadWhere \/ Join \/ GroupBy \/ Having \/ SQL \/ AllCols
    BY <1>0, <1>6, SetNamed DEF BadWhere, Join, GroupBy, Having, SQL, AllCols, Fields, NamedFields
<1>7. CASE ForUpdate \/ Unscoped \/ NoAutoCondition \/ NoVersionCheck \/ NoAutoTime
    BY <1>0, <1>7, SetNamed DEF ForUpdate, Unscoped, NoAutoCondition, NoVersionCheck, NoAutoTime,
                                Fields, NamedFields
<1>8. CASE Incr
  <2>1. PICK c \in {"a", "b"} : Option("Incr", [st EXCEPT !.IncrColumns = Append(@, c)])
    BY <1>8 DEF Incr
  <2> QED
    BY <1>0, <2>1, SetNamed DEF Fields, NamedFields
<1>9. CASE Decr
  <2>1. PICK c \in {"a", "b"} : Option("Decr", [st EXCEPT !.DecrColumns = Append(@, c)])
    BY <1>9 DEF Decr
  <2> QED
    BY <1>0, <2>1, SetNamed DEF Fields, NamedFields
<1>10. CASE SetExpr
  <2>1. PICK c \in {"a", "e", "updated", "ver"} : Option("SetExpr", [st EXCEPT !.ExprColumns = Append(@, c)])
    BY <1>10 DEF SetExpr
  <2> QED
    BY <1>0, <2>1, SetNamed DEF Fields, NamedFields
<1>11. CASE Omit
  <2>1. PICK c \in {"a", "ver"} : st' = [st EXCEPT !.OmitColumnMap = @ \cup {c}]
    BY <1>11 DEF Omit, Option, Chain
  <2>2. \A g \in NamedFields \ {"OmitColumnMap"} : st'[g] = st[g]
    BY <1>0, <2>1 DEF Fields, NamedFields
  <2>3. st'.OmitColumnMap \subseteq st.OmitColumnMap \cup {"a", "ver"}
    BY <1>0, <2>1 DEF Fields
  <2> QED
    BY <2>2, <2>3 DEF Named, NamedFields
<1>12. CASE OrderBy
  <2>1. PICK order \in {"asc", "desc"} : Option("OrderBy", [st EXCEPT !.orderBy = Append(@, order)])
    BY <1>12 DEF OrderBy
  <2> QED
    BY <1>0, <2>1, SetNamed DEF Fields, NamedFields
<1>13. CASE IndexHint
  <2>1. PICK h \in {"use", "bad"} : Option("IndexHint", [st EXCEPT !.indexHints = Append(@, h)])
    BY <1>13 DEF IndexHint
  <2> QED
    BY <1>0, <2>1, SetNamed DEF Fields, NamedFields
<1>14. CASE BufferSize
    BY <1>0, <1>14, SetNamed DEF BufferSize, Fields, NamedFields
<1> QED
    BY <1>1, <1>2, <1>3, <1>4, <1>5, <1>6, <1>7, <1>8, <1>9, <1>10, <1>11, <1>12, <1>13, <1>14,
       <1>15 DEF ChainedCall

\* What a call needs of its text and the statement it leaves.
Fit(op, o) ==
    Good(o.st) /\ (op = "Insert" \/ Sorts(o.st, dialect) \/ Tidy(o.w, 1, 8))

LEMMA NeatFit == ASSUME NEW op, NEW o, Neat(o, dialect) PROVE Fit(op, o)
BY DEF Neat, Fit

LEMMA RecordedFit ==
    ASSUME NEW op, NEW bean, NEW o, NEW res, Fit(op, o), Recorded(op, bean, o, res),
           dialect' = dialect
    PROVE  ClausesInOrder'
<1>1. last'.op = op /\ last'.w = o.w /\ last'.st = o.st
    BY DEF Recorded
<1>2. CASE op = "Insert"
    BY <1>1, <1>2 DEF ClausesInOrder, Selects, Reads
<1>3. CASE Sorts(o.st, dialect)
    BY <1>1, <1>3 DEF ClausesInOrder, LegacySorts, Sorts
<1>4. CASE Tidy(o.w, 1, 8)
  <2>1. InOrder(Kinds(o.w)) /\ \A i \in DOMAIN o.w : InOrder(o.w[i].sub)
    BY <1>4, TidyInOrder
  <2>2. InOrder(Kinds(last'.w)) /\ \A i \in DOMAIN last'.w : InOrder(last'.w[i].sub)
    BY <1>1, <2>1
  <2> QED
    BY <2>2 DEF ClausesInOrder
<1> QED
    BY <1>2, <1>3, <1>4 DEF Fit

LEMMA ReturnFit ==
    ASSUME NEW op, NEW bean, NEW o, NEW resets, NEW auto, NEW res,
           Return(op, bean, o, resets, auto, res), Fit(op, o)
    PROVE  ClausesInOrder' /\ Named(st)' /\ Recorded(op, bean, o, res)
<1>1. Recorded(op, bean, o, res) /\ dialect' = dialect
    BY ReturnAsks
<1>2. st' = Reset(o.st) \/ st' = o.st
    BY DEF Return
<1>3. Named(Reset(o.st)) /\ Named(o.st)
    BY GoodReset DEF Fit, Good
<1>4. Named(st)'
    BY <1>2, <1>3 DEF Named
<1> QED
    BY <1>1, <1>4, RecordedFit

LEMMA CallFit ==
    ASSUME NEW op, NEW bean, NEW o, NEW resets, Call(op, bean, o, resets), Fit(op, o)
    PROVE  ClausesInOrder' /\ Named(st)'
<1> DEFINE auto == autoResetStatement
           res == 0
<1>1. Return(op, bean, o, resets, auto, res)
    BY DEF Call
<1> HIDE DEF auto, res
<1> QED
    BY <1>1, ReturnFit

Orderly == ClausesInOrder' /\ Named(st)'

LEMMA GetOrderly == ASSUME Good(st), Get PROVE Orderly
<1>1. PICK bean \in {"struct", "other", "bad"} :
        LET s == IF bean = "struct" THEN SetRefBean(st) ELSE st
        IN  Call("Get", bean,
                 IF st.LastError THEN Refused(st)
                 ELSE Parsed(bean, IF s.RawSQL THEN Raw(s)
                                   ELSE IF ~s.TableName THEN Refused(s)
                                   ELSE GenGetSQL(dialect, [s EXCEPT !.LimitN = 1], bean)),
                 TRUE)
    BY DEF Get
<1> DEFINE s == IF bean = "struct" THEN SetRefBean(st) ELSE st
           l == [s EXCEPT !.LimitN = 1]
           g == GenGetSQL(dialect, l, bean)
           o == IF st.LastError THEN Refused(st)
                ELSE Parsed(bean, IF s.RawSQL THEN Raw(s) ELSE IF ~s.TableName THEN Refused(s)
                                  ELSE g)
           resets == TRUE
<1>2. Good(s)
    BY GoodRefBean
<1>3. o = Refused(st) \/ o = Raw(s) \/ o = Refused(s) \/ o = g
    BY DEF Parsed
<1>4. Call("Get", bean, o, resets)
    BY <1>1
<1> HIDE DEF s
<1>5. Good(l)
    BY <1>2, GoodLimit
<1> HIDE DEF l, o, resets
<1>6. Neat(g, dialect) /\ Neat(Refused(st), dialect) /\ Neat(Refused(s), dialect)
        /\ Neat(Raw(s), dialect)
    BY <1>2, <1>5, NeatGet, NeatFail
<1> HIDE DEF g
<1>7. Neat(o, dialect)
    BY <1>3, <1>6
<1> QED
    BY <1>4, <1>7, NeatFit, CallFit DEF Orderly

LEMMA GoodFind == ASSUME Good(st), NEW dest PROVE Good(FindStatement(dest))
BY GoodRefBean DEF FindStatement

LEMMA FindOrderly == ASSUME Good(st), Find PROVE Orderly
<1>1. PICK bean \in {"struct", "none"}, dest \in {"struct", "other"} :
        Call("Find", bean, find(FindStatement(dest), bean), TRUE)
    BY DEF Find
<1> DEFINE s == FindStatement(dest)
           o == find(s, bean)
           resets == TRUE
<1>2. Call("Find", bean, o, resets)
    BY <1>1
<1>3. Good(s)
    BY GoodFind
<1> HIDE DEF s, resets
<1>4. Neat(o, dialect)
    BY <1>3, NeatFind
<1> HIDE DEF o
<1> QED
    BY <1>2, <1>4, NeatFit, CallFit DEF Orderly

LEMMA NeatCountQuery ==
    ASSUME NEW s, Good(s), NEW bean PROVE Neat(CountQuery(s, bean), dialect)
<1> DEFINE g == GenCountSQL(dialect, s, bean)
           o == CountQuery(s, bean)
<1>1. Neat(g, dialect)
    BY NeatCount
<1>2. o = IF s.LastError /\ ~Failed(g.w) THEN [w |-> Fail, st |-> g.st, sent |-> TRUE]
          ELSE [w |-> g.w, st |-> g.st, sent |-> ~Failed(g.w)]
    BY DEF CountQuery
<1> HIDE DEF g, o
<1>3. o.st = g.st /\ (o.w = Fail \/ o.w = g.w)
    BY <1>2
<1>4. Tidy(Fail, 1, 8)
    BY NeatFail
<1>5. Neat(o, dialect)
    BY <1>1, <1>3, <1>4 DEF Neat
<1> QED
    BY <1>5 DEF o

LEMMA CountOrderly == ASSUME Good(st), Count PROVE Orderly
<1>1. PICK bean \in {"struct", "none", "bad"} :
        LET out == IF bean = "bad" /\ ~st.RawSQL
                   THEN [w |-> Fail, st |-> st, sent |-> FALSE] ELSE CountQuery(st, bean)
        IN  Call("Count", bean, out, out.sent)
    BY DEF Count
<1> DEFINE bad == [w |-> Fail, st |-> st, sent |-> FALSE]
           q == CountQuery(st, bean)
           o == IF bean = "bad" /\ ~st.RawSQL THEN bad ELSE q
<1>2. Call("Count", bean, o, o.sent)
    BY <1>1
<1>3. Neat(q, dialect)
    BY NeatCountQuery
<1>4. Neat(bad, dialect)
    BY NeatFail DEF Neat
<1> HIDE DEF q, bad
<1>5. Neat(o, dialect)
    BY <1>3, <1>4
<1> HIDE DEF o
<1> QED
    BY <1>2, <1>5, NeatFit, CallFit DEF Orderly

LEMMA SumOrderly == ASSUME Good(st), Sum PROVE Orderly
<1>1. PICK bean \in {"struct", "bad"} :
        LET gen == IF bean = "bad" /\ ~st.RawSQL THEN Refused(st) ELSE GenSumSQL(dialect, st)
            out == IF st.LastError THEN Refused(gen.st) ELSE gen
        IN  Call("Sum", bean, out, ~Failed(gen.w))
    BY DEF Sum
<1> DEFINE g == IF bean = "bad" /\ ~st.RawSQL THEN Refused(st) ELSE GenSumSQL(dialect, st)
           o == IF st.LastError THEN Refused(g.st) ELSE g
           resets == ~Failed(g.w)
<1>2. Call("Sum", bean, o, resets)
    BY <1>1
<1>3. Neat(g, dialect)
    BY NeatFail, NeatSum
<1> HIDE DEF g, resets
<1>4. Neat(o, dialect)
    BY <1>3, NeatFail DEF Neat
<1> HIDE DEF o
<1> QED
    BY <1>2, <1>4, NeatFit, CallFit DEF Orderly

LEMMA QueryOrderly == ASSUME Good(st), Query PROVE Orderly
<1> DEFINE g == GenQuerySQL(dialect, st)
           o == IF st.LastError THEN Refused(g.st) ELSE g
           resets == ~Failed(g.w)
<1>2. Call("Query", "none", o, resets)
    BY DEF Query
<1>3. Neat(g, dialect)
    BY NeatQuery
<1> HIDE DEF g, resets
<1>4. Neat(o, dialect)
    BY <1>3, NeatFail DEF Neat
<1> HIDE DEF o
<1> QED
    BY <1>2, <1>4, NeatFit, CallFit DEF Orderly

LEMMA ExistOrderly == ASSUME Good(st), Exist PROVE Orderly
<1>1. PICK bean \in {"struct", "none"} :
        LET out == IF st.LastError THEN Refused(st) ELSE GenExistSQL(dialect, st, bean)
        IN  Call("Exist", bean, out, ~Failed(out.w))
    BY DEF Exist
<1> DEFINE o == IF st.LastError THEN Refused(st) ELSE GenExistSQL(dialect, st, bean)
           resets == ~Failed(o.w)
<1>2. Call("Exist", bean, o, resets)
    BY <1>1
<1>3. Neat(o, dialect)
    BY NeatFail, NeatExist
<1> HIDE DEF o, resets
<1> QED
    BY <1>2, <1>3, NeatFit, CallFit DEF Orderly

LEMMA ExecOrderly == ASSUME Good(st), Exec PROVE Orderly
<1>1. PICK ok \in BOOLEAN : Call("Exec", "none", IF ok THEN Raw(st) ELSE Refused(st), ok)
    BY DEF Exec
<1> DEFINE o == IF ok THEN Raw(st) ELSE Refused(st)
<1>2. Neat(o, dialect) /\ Call("Exec", "none", o, ok)
    BY <1>1, NeatFail
<1> HIDE DEF o
<1> QED
    BY <1>2, NeatFit, CallFit DEF Orderly

LEMMA FindAndCountOrderly == ASSUME Good(st), FindAndCount PROVE Orderly
<1>1. PICK bean \in {"struct", "none"}, dbErr \in BOOLEAN :
        LET out == find(FindStatement("struct"), bean)
            s == out.st
            rows == Len(RowsOf(out.w))
            all == [s EXCEPT !.SelectStr = FALSE, !.orderBy = <<>>, !.LimitN = NoLimit,
                             !.ColumnMap = IF s.IsDistinct THEN @ ELSE {}, !.Start = 0]
            count == CountQuery(all, "none")
        IN  IF Failed(out.w) \/ dbErr
            THEN Return("FindAndCount", bean, [w |-> Fail, st |-> s], TRUE, FALSE, 0)
            ELSE IF TotalKnown(s, rows)
            THEN Return("FindAndCount", bean, out, TRUE, TRUE, rows + s.Start)
            ELSE Return("FindAndCount", bean, [w |-> count.w, st |-> count.st],
                        count.sent, TRUE, Cardinality(WhereRows(count.w)))
    BY DEF FindAndCount
<1> DEFINE f == FindStatement("struct")
           out == find(f, bean)
           s == out.st
           rows == Len(RowsOf(out.w))
           cols == IF s.IsDistinct THEN s.ColumnMap ELSE {}
           all == [s EXCEPT !.SelectStr = FALSE, !.orderBy = <<>>, !.LimitN = NoLimit,
                            !.ColumnMap = cols, !.Start = 0]
           count == CountQuery(all, "none")
           fail == [w |-> Fail, st |-> s]
           counted == [w |-> count.w, st |-> count.st]
           no == FALSE
           yes == TRUE
           r1 == rows + s.Start
           r2 == Cardinality(WhereRows(count.w))
           r0 == 0
<1>2. \/ Return("FindAndCount", bean, fail, yes, no, r0)
      \/ Return("FindAndCount", bean, out, yes, yes, r1)
      \/ Return("FindAndCount", bean, counted, count.sent, yes, r2)
  <2>1. IF Failed(out.w) \/ dbErr
        THEN Return("FindAndCount", bean, fail, yes, no, r0)
        ELSE IF TotalKnown(s, rows)
        THEN Return("FindAndCount", bean, out, yes, yes, r1)
        ELSE Return("FindAndCount", bean, counted, count.sent, yes, r2)
    BY <1>1
  <2> QED
    BY <2>1, Zenon
<1> HIDE DEF yes, no, r0, r1, r2
<1>3. Good(f)
    BY GoodFind
<1> HIDE DEF f
<1>4. Neat(out, dialect)
    BY <1>3, NeatFind
<1> HIDE DEF out
<1>5. Good(s) /\ Stmt(s)
    BY <1>4 DEF Neat, Good
<1>6. Neat(fail, dialect)
    BY <1>5, NeatFail DEF Neat
<1>7. Neat(counted, dialect)
  <2>1. cols \subseteq ColumnNames /\ cols \subseteq s.ColumnMap
    BY <1>5 DEF Stmt
  <2> HIDE DEF cols
  <2>2. Stmt(all)
    BY <1>5, <2>1, CountAllStmt
  <2>3. /\ all.ColumnMap = cols /\ all.OmitColumnMap = s.OmitColumnMap
        /\ all.IncrColumns = s.IncrColumns /\ all.DecrColumns = s.DecrColumns
        /\ all.ExprColumns = s.ExprColumns
    BY <1>5 DEF Stmt, Fields
  <2> HIDE DEF all
  <2>4. Good(all)
    BY <1>5, <2>1, <2>2, <2>3 DEF Good, Named
  <2>5. Neat(count, dialect)
    BY <2>4, NeatCountQuery
  <2> HIDE DEF count
  <2> QED
    BY <2>5 DEF Neat
<1> HIDE DEF fail, counted, count
<1>8. Fit("FindAndCount", fail) /\ Fit("FindAndCount", out) /\ Fit("FindAndCount", counted)
    BY <1>4, <1>6, <1>7, NeatFit
<1> QED
    BY <1>2, <1>8, ReturnFit DEF Orderly

\* Every page of bufferIterate.
LEMMA FirstNeat == ASSUME NEW s, Good(s) PROVE Neat(FirstPage(s), dialect)
<1>1. FirstPage(s).st = s /\ FirstPage(s).w = Nothing
    BY DEF FirstPage
<1> QED
    BY <1>1, TidyNothing DEF Neat

LEMMA NextNeat ==
    ASSUME NEW s, NEW limit \in Int, NEW bean, NEW p, PageOK(p, s), Neat(p, dialect)
    PROVE  Neat(NextPage(limit, bean, p), dialect)
<1> DEFINE t == [p.st EXCEPT !.LimitN = p.size, !.Start = p.start]
           out == find(t, bean)
           got == RowsOf(out.w)
           next == p.start + Len(got)
           q == NextPage(limit, bean, p)
           stay == [p EXCEPT !.done = TRUE]
           fail == [p EXCEPT !.done = TRUE, !.w = Fail, !.st = out.st]
           go == [st |-> out.st, w |-> out.w, start |-> next, rows |-> p.rows \o got,
                  done |-> p.size > Len(got), size |-> NextSize(limit, next, p.size)]
<1>1. q = IF p.done \/ p.size <= 0 THEN stay ELSE IF Failed(out.w) THEN fail ELSE go
    BY DEF NextPage
<1>2. CASE p.done \/ p.size <= 0
  <2>1. q = stay
    BY <1>1, <1>2
  <2>2. stay.st = p.st /\ stay.w = p.w
    BY DEF PageOK
  <2> HIDE DEF stay, q
  <2>3. Neat(q, dialect)
    BY <2>1, <2>2 DEF Neat
  <2> QED
    BY <2>3 DEF q
<1>3. CASE ~(p.done \/ p.size <= 0)
  <2>1. Good(p.st) /\ p.size \in Nat /\ p.start \in Nat
    BY <1>3 DEF PageOK, Neat
  <2>2. Good(t)
    BY <2>1, GoodLimit
  <2> HIDE DEF t
  <2>3. Neat(out, dialect)
    BY <2>2, NeatFind
  <2>4. q = fail \/ q = go
    BY <1>1, <1>3, Zenon
  <2>5. fail.st = out.st /\ fail.w = Fail /\ go.st = out.st /\ go.w = out.w
    BY DEF PageOK
  <2> HIDE DEF out, fail, go, q
  <2>6. q.st = out.st /\ (q.w = Fail \/ q.w = out.w)
    BY <2>4, <2>5
  <2>7. Tidy(Fail, 1, 8)
    BY <2>2, NeatFail
  <2>8. Neat(q, dialect)
    BY <2>3, <2>6, <2>7 DEF Neat
  <2> QED
    BY <2>8 DEF q
<1> QED
    BY <1>2, <1>3

LEMMA PagesNeat == ASSUME NEW s, Good(s), NEW bean PROVE Neat(Pages(s, bean), dialect)
<1> DEFINE N == RowCount + 2
           g == CHOOSE f : f = [n \in 0 .. N |-> PageNext(s, bean, f, n)]
<1>0. Stmt(s)
    BY DEF Good
<1>1. N \in Nat
    BY RowsAssumption
<1>2. Pages(s, bean) = g[N]
    BY DEF Pages, PageNext
<1> HIDE DEF N
<1>3. g = [n \in 0 .. N |-> PageNext(s, bean, g, n)]
    BY <1>1, PagesExist
<1> HIDE DEF g
<1>4. \A n \in 0 .. N : g[n] = PageNext(s, bean, g, n)
    BY <1>3
<1> DEFINE P == {n \in Nat : n <= N => PageOK(g[n], s) /\ Neat(g[n], dialect)}
<1>5. 0 \in P
    BY <1>0, <1>1, <1>4, FirstPageOK, FirstNeat DEF PageNext
<1>6. ASSUME NEW n \in Nat, n \in P PROVE n + 1 \in P
  <2> SUFFICES ASSUME n + 1 <= N PROVE PageOK(g[n + 1], s) /\ Neat(g[n + 1], dialect)
    OBVIOUS
  <2>1. n + 1 \in 0 .. N /\ n + 1 # 0 /\ (n + 1) - 1 = n /\ PageOK(g[n], s) /\ Neat(g[n], dialect)
    BY <1>1, <1>6
  <2>2. g[n + 1] = NextPage(s.LimitN, bean, g[n])
    BY <1>4, <2>1 DEF PageNext
  <2>3. s.LimitN \in Int
    BY <1>0 DEF Stmt, NoLimit
  <2> QED
    BY <2>1, <2>2, <2>3, NextPageOK, NextNeat
<1> HIDE DEF P
<1>7. Nat \subseteq P
    BY <1>5, <1>6, SetInduction
<1> QED
    BY <1>1, <1>2, <1>7 DEF P

LEMMA IterateOrderly == ASSUME Good(st), Iterate PROVE Orderly
<1>1. PICK bean \in {"struct", "bad"} :
        LET pages == Pages(SetRefBean(st), bean)
            out == CASE st.LastError -> Refused(st)
                     [] ~st.LastError /\ st.BufferSize > 0 ->
                           IF bean = "bad" THEN Refused(st)
                           ELSE [w |-> pages.w, st |-> pages.st]
                     [] OTHER -> newRows(bean)
        IN  Return("Iterate", bean, [w |-> out.w, st |-> out.st], TRUE, TRUE,
                   IF st.BufferSize > 0 THEN pages.rows ELSE 0)
    BY DEF Iterate
<1> DEFINE t == SetRefBean(st)
           pages == Pages(t, bean)
           paged == [w |-> pages.w, st |-> pages.st]
           out == CASE st.LastError -> Refused(st)
                    [] ~st.LastError /\ st.BufferSize > 0 ->
                          IF bean = "bad" THEN Refused(st) ELSE paged
                    [] OTHER -> newRows(bean)
           o == [w |-> out.w, st |-> out.st]
           yes == TRUE
           res == IF st.BufferSize > 0 THEN pages.rows ELSE 0
<1>2. Return("Iterate", bean, o, yes, yes, res)
    BY <1>1
<1> HIDE DEF yes, res
<1>3. out = Refused(st) \/ out = Raw(st) \/ out = paged \/ out = newRows(bean)
    BY Zenon
<1>4. o.w = out.w /\ o.st = out.st
    OBVIOUS
<1> HIDE DEF o, out
<1>5. Good(t)
    BY GoodRefBean
<1> HIDE DEF t
<1>6. Neat(pages, dialect)
    BY <1>5, PagesNeat
<1> HIDE DEF pages
<1>7. Neat(paged, dialect)
    BY <1>6 DEF Neat
<1> HIDE DEF paged
<1>8. Neat(out, dialect)
    BY <1>3, <1>7, NeatFail, NeatRows
<1>9. Neat(o, dialect)
    BY <1>4, <1>8 DEF Neat
<1> QED
    BY <1>2, <1>9, NeatFit, ReturnFit DEF Orderly

LEMMA RowsOrderly == ASSUME Good(st), OpenRows PROVE Orderly
<1>1. PICK bean \in {"struct", "bad"} :
        LET out == newRows(bean)
            open == out.sent /\ ~Failed(out.w)
        IN  /\ Ready /\ chained <= MaxChain
            /\ rowsOpen' = open
            /\ isClosed' = (isAutoClose /\ out.sent /\ ~open)
            /\ st' = IF out.sent /\ autoResetStatement THEN Reset(out.st) ELSE out.st
            /\ asked' = NothingAsked(st' # Fresh)
            /\ chained' = IF st' = Fresh THEN 0 ELSE chained + 1
            /\ last' = [op |-> "Rows", bean |-> bean, before |-> st, asked |-> asked,
                        w |-> out.w, st |-> out.st, err |-> Failed(out.w), res |-> 0]
            /\ UNCHANGED <<dialect, autoResetStatement, isAutoClose>>
    BY DEF OpenRows
<1> DEFINE o == newRows(bean)
           res == 0
<1>2. Recorded("Rows", bean, o, res) /\ dialect' = dialect
    BY <1>1 DEF Recorded
<1>3. st' = Reset(o.st) \/ st' = o.st
    BY <1>1
<1>4. Neat(o, dialect)
    BY NeatRows
<1> HIDE DEF o, res
<1>5. ClausesInOrder'
    BY <1>2, <1>4, NeatFit, RecordedFit
<1>6. Named(Reset(o.st)) /\ Named(o.st)
    BY <1>4, GoodReset DEF Neat, Good
<1>7. Named(st)'
    BY <1>3, <1>6 DEF Named
<1> QED
    BY <1>5, <1>7 DEF Orderly

LEMMA UpdateOrderly == ASSUME Good(st), Update PROVE Orderly
<1>1. PICK bean \in {"struct", "map", "bad"}, condiBean \in {"struct", "none"} :
        LET s == IF bean = "struct" THEN SetRefBean(st) ELSE st
            s2 == ProcessIDParam(s)
            out == IF st.LastError \/ bean = "bad" THEN Refused(st)
                   ELSE IF IdFails(s) THEN Refused(s)
                   ELSE [w |-> WriteUpdate(dialect, s2, UpdateCond(s2, bean, condiBean), bean),
                         st |-> s2]
        IN  Call("Update", <<bean, condiBean>>, out, TRUE)
    BY DEF Update
<1> DEFINE s == IF bean = "struct" THEN SetRefBean(st) ELSE st
           s2 == ProcessIDParam(s)
           c == UpdateCond(s2, bean, condiBean)
           w == WriteUpdate(dialect, s2, c, bean)
           new == [w |-> w, st |-> s2]
           o == IF st.LastError \/ bean = "bad" THEN Refused(st)
                ELSE IF IdFails(s) THEN Refused(s) ELSE new
           arg == <<bean, condiBean>>
           resets == TRUE
<1>2. Call("Update", arg, o, resets)
    BY <1>1
<1> HIDE DEF resets, arg
<1> HIDE DEF new
<1>3. o = Refused(st) \/ o = Refused(s) \/ o = new
  <2> HIDE DEF s
  <2> QED
    OBVIOUS
<1> HIDE DEF o
<1>4. Good(s)
    BY GoodRefBean
<1> HIDE DEF s
<1>5. Good(s2) /\ Stmt(s2)
    BY <1>4, IdNarrows, GoodNarrows DEF Good
<1> HIDE DEF s2
<1>6. c \in Conds
    BY <1>5, UpdateCondType
<1> HIDE DEF c
<1>7. Tidy(w, 1, 8)
    BY <1>5, <1>6, TidyUpdate
<1> HIDE DEF w
<1>8. Neat(new, dialect)
    BY <1>5, <1>7 DEF Neat, new
<1>9. Neat(o, dialect)
    BY <1>3, <1>4, <1>8, NeatFail
<1> QED
    BY <1>2, <1>9, NeatFit, CallFit DEF Orderly

LEMMA DeleteOrderly == ASSUME Good(st), Delete PROVE Orderly
<1>1. PICK bean \in {"struct", "none", "bad"}, mustHaveConditions \in BOOLEAN :
        LET s == IF bean = "struct" THEN SetRefBean(st) ELSE st
            s2 == IF bean = "struct" THEN MergeConds(s) ELSE s
            needs == mustHaveConditions /\ ~s2.cond.valid /\ s2.LimitN <= 0
            out == IF st.LastError \/ bean = "bad" THEN Refused(st)
                   ELSE IF (bean = "struct" /\ IdFails(s)) \/ needs THEN Refused(s2)
                   ELSE [w |-> WriteDelete(dialect, s2), st |-> s2]
        IN  Call("Delete", bean, out, ~Failed(out.w))
    BY DEF Delete
<1> DEFINE s == IF bean = "struct" THEN SetRefBean(st) ELSE st
           s2 == IF bean = "struct" THEN MergeConds(s) ELSE s
           needs == mustHaveConditions /\ ~s2.cond.valid /\ s2.LimitN <= 0
           w == WriteDelete(dialect, s2)
           new == [w |-> w, st |-> s2]
           o == IF st.LastError \/ bean = "bad" THEN Refused(st)
                ELSE IF (bean = "struct" /\ IdFails(s)) \/ needs THEN Refused(s2) ELSE new
           resets == ~Failed(o.w)
<1>2. Call("Delete", bean, o, resets)
    BY <1>1
<1> HIDE DEF resets
<1> HIDE DEF new
<1>3. o = Refused(st) \/ o = Refused(s2) \/ o = new
  <2> HIDE DEF s, s2, needs
  <2> QED
    OBVIOUS
<1> HIDE DEF o
<1>4. Good(s)
    BY GoodRefBean
<1> HIDE DEF s
<1>5. Good(s2) /\ Stmt(s2)
    BY <1>4, MergeNarrows, GoodNarrows DEF Good
<1> HIDE DEF s2
<1>6. Tidy(w, 1, 8)
    BY <1>5, TidyDelete
<1> HIDE DEF w
<1>7. Neat(new, dialect)
    BY <1>5, <1>6 DEF Neat, new
<1>8. Neat(o, dialect)
    BY <1>3, <1>5, <1>7, NeatFail
<1> QED
    BY <1>2, <1>8, NeatFit, CallFit DEF Orderly

LEMMA GoodInsert ==
    ASSUME Good(st), NEW kind, NEW shape
    PROVE  Good(Parsed(kind, InsertText(kind, shape)).st)
<1> DEFINE s == IF kind \in {"struct", "structs"} THEN SetRefBean(st) ELSE st
           o == InsertText(kind, shape)
           p == Parsed(kind, o)
<1>1. Good(s)
    BY GoodRefBean
<1>2. \/ o = Refused(s)
      \/ o = [w |-> GenInsertSQL(dialect, s, genInsertColumns(s, shape[1])), st |-> s]
      \/ o = [w |-> GenInsertMapSQL(s, MapColumns(s, shape)), st |-> s]
      \/ o = [w |-> GenInsertMultipleMapSQL(s, MapColumns(s, shape)), st |-> s]
      \/ o = [w |-> WriteInsertMultiple(dialect, s, shape), st |-> s]
    BY Zenon DEF InsertText
<1> HIDE DEF s, o
<1>3. o.st = s
    BY <1>2 DEF Refused
<1>4. p = Refused(st) \/ p = o
    BY DEF Parsed
<1>5. Refused(st).st = st
    BY DEF Refused
<1> HIDE DEF p
<1>6. Good(p.st)
    BY <1>1, <1>3, <1>4, <1>5
<1> QED
    BY <1>6 DEF p, o

\* The call an insert returns.
LEMMA InsertCall ==
    ASSUME Insert \/ InsertOne
    PROVE  \E kind \in {"struct", "map", "maps", "structs", "bad"} :
              \E shape \in Shapes(kind) : \E resets, auto, res :
                 Return("Insert", <<kind, shape>>, Parsed(kind, InsertText(kind, shape)),
                        resets, auto, res)
<1>1. CASE Insert
    BY <1>1, Zenon DEF Insert
<1>2. CASE InsertOne
  <2>1. PICK kind \in {"struct", "structs", "bad"} : \E shape \in Shapes(kind) :
            LET out == Parsed(kind, InsertText(kind, shape))
            IN  Call("Insert", <<kind, shape>>, out, ~Failed(out.w))
    BY <1>2 DEF InsertOne
  <2>2. PICK shape \in Shapes(kind) :
            LET out == Parsed(kind, InsertText(kind, shape))
            IN  Call("Insert", <<kind, shape>>, out, ~Failed(out.w))
    BY <2>1
  <2> DEFINE o == Parsed(kind, InsertText(kind, shape))
             bean == <<kind, shape>>
             resets == ~Failed(o.w)
             auto == autoResetStatement
             res == 0
  <2>3. Return("Insert", bean, o, resets, auto, res)
    BY <2>2 DEF Call
  <2>4. kind \in {"struct", "map", "maps", "structs", "bad"}
    BY <2>1
  <2> HIDE DEF resets, auto, res
  <2>5. Return("Insert", <<kind, shape>>, Parsed(kind, InsertText(kind, shape)),
               resets, auto, res)
    BY <2>3
  <2> QED
    BY <2>2, <2>4, <2>5, Zenon
<1> QED
    BY <1>1, <1>2

LEMMA InsertOrderly == ASSUME Good(st), Insert \/ InsertOne PROVE Orderly
<1>1. PICK kind \in {"struct", "map", "maps", "structs", "bad"} :
         \E shape \in Shapes(kind) : \E resets, auto, res :
            Return("Insert", <<kind, shape>>, Parsed(kind, InsertText(kind, shape)),
                   resets, auto, res)
    BY InsertCall
<1> PICK shape \in Shapes(kind) : \E resets, auto, res :
            Return("Insert", <<kind, shape>>, Parsed(kind, InsertText(kind, shape)),
                   resets, auto, res)
    BY <1>1, Zenon
<1>2. PICK resets, auto, res :
            Return("Insert", <<kind, shape>>, Parsed(kind, InsertText(kind, shape)),
                   resets, auto, res)
    OBVIOUS
<1> DEFINE bean == <<kind, shape>>
           o == Parsed(kind, InsertText(kind, shape))
<1>3. Return("Insert", bean, o, resets, auto, res)
    BY <1>2
<1>4. Good(o.st)
    BY GoodInsert
<1> HIDE DEF bean, o
<1>5. Fit("Insert", o)
    BY <1>4 DEF Fit
<1> QED
    BY <1>3, <1>5, ReturnFit DEF Orderly

-----------------------------------------------------------------------------
(* The columns that UPDATE assigns.                                         *)

\* No clause of the text is one of K.
Lacks(w, K) == w \in Texts /\ \A i \in DOMAIN w : w[i].k \notin K

LEMMA LacksConcat ==
    ASSUME NEW K, NEW a, NEW b, Lacks(a, K), Lacks(b, K) PROVE Lacks(a \o b, K)
<1>1. a \in Seq(Clauses) /\ b \in Seq(Clauses)
    BY DEF Lacks, Texts
<1>2. /\ Len(a) \in Nat /\ Len(b) \in Nat /\ DOMAIN (a \o b) = 1 .. Len(a) + Len(b)
      /\ DOMAIN a = 1 .. Len(a) /\ DOMAIN b = 1 .. Len(b) /\ a \o b \in Seq(Clauses)
    BY <1>1
<1>3. ASSUME NEW i \in DOMAIN (a \o b)
      PROVE  \/ i \in DOMAIN a /\ (a \o b)[i] = a[i]
             \/ i - Len(a) \in DOMAIN b /\ (a \o b)[i] = b[i - Len(a)]
    BY <1>1, <1>2
<1>4. \A i \in DOMAIN (a \o b) : (a \o b)[i].k \notin K
    BY <1>3 DEF Lacks
<1> QED
    BY <1>2, <1>4 DEF Lacks, Texts

LEMMA LacksOne == ASSUME NEW K, NEW c \in Clauses, c.k \notin K PROVE Lacks(<<c>>, K)
<1>1. <<c>> \in Texts /\ DOMAIN <<c>> = {1} /\ <<c>>[1] = c
    BY OneClause
<1> QED
    BY <1>1 DEF Lacks

LEMMA LacksWhen == ASSUME NEW K, NEW b, NEW w, b => Lacks(w, K) PROVE Lacks(When(b, w), K)
<1>1. Lacks(Nothing, K)
    BY EmptyText DEF Nothing, Lacks
<1> QED
    BY <1>1 DEF When

\* The clauses that list columns.
Listing == {"SET", "SELECT", "COLUMNS", "VALUES"}

LEMMA LacksText == \A k \in ClauseNames \ Listing : Lacks(Text(k), Listing)
BY ClauseType, LacksOne DEF Text

LEMMA LacksWriters ==
    ASSUME NEW s, Stmt(s), NEW c \in Conds, NEW d
    PROVE  /\ Lacks(Nothing, Listing) /\ Lacks(Fail, Listing)
           /\ \A n \in Nat \cup {NoLimit} : /\ Lacks(Page("LIMIT", 0, n), Listing)
                                            /\ Lacks(Page("TOP", 0, n), Listing)
           /\ \A b \in Conds, w \in Texts : \A R \in SUBSET Rows : Lacks(SubQuery(b, R, w), Listing)
           /\ Lacks(writeWhereCond(c), Listing) /\ Lacks(writeOrderBys(s), Listing)
           /\ Lacks(writeJoins(s), Listing) /\ Lacks(writeTop(s), Listing)
<1>1. Lacks(Nothing, Listing)
    BY EmptyText DEF Nothing, Lacks
<1>2. ASSUME NEW k \in ClauseNames \ Listing, NEW x, Simple(x, k) PROVE Lacks(<<x>>, Listing)
    BY <1>2, LacksOne DEF Simple
<1>3. {"ERROR", "LIMIT", "TOP", "AND", "WHERE", "ORDER BY", "JOIN"} \subseteq ClauseNames \ Listing
    BY DEF ClauseNames, Listing
<1>5. Lacks(Fail, Listing)
    BY <1>3, LacksText DEF Fail
<1>6. \A n \in Nat \cup {NoLimit} : /\ Lacks(Page("LIMIT", 0, n), Listing)
                                    /\ Lacks(Page("TOP", 0, n), Listing)
  <2>1. \A k \in ClauseNames \ Listing, n \in Nat \cup {NoLimit} :
           Simple([Clause(k) EXCEPT !.skip = 0, !.take = n], k)
    BY SimpleClauses
  <2>2. \A k \in ClauseNames \ Listing, n \in Nat \cup {NoLimit} : Lacks(Page(k, 0, n), Listing)
    BY <1>2, <2>1 DEF Page
  <2> QED
    BY <1>3, <2>2
<1>7. ASSUME NEW b \in Conds, NEW w \in Texts, NEW R \in SUBSET Rows
      PROVE  Lacks(SubQuery(b, R, w), Listing)
  <2> DEFINE k == IF b.valid THEN "AND" ELSE "WHERE"
             x == Clause(k)
             S == R \cup b.lead
             e == [x EXCEPT !.rows = S, !.sub = Kinds(w)]
  <2>1. k \in ClauseNames \ Listing
    BY <1>3
  <2>6. S \in SUBSET Rows
    BY DEF Conds
  <2> HIDE DEF k, S
  <2>2. x \in Clauses /\ x.k = k
    BY <2>1, ClauseType
  <2>3. Kinds(w) \in Seq(ClauseNames)
    BY KindsType
  <2> HIDE DEF x
  <2>4. e \in Clauses /\ e.k = k
    BY <2>2, <2>3, <2>6 DEF Clauses
  <2>5. SubQuery(b, R, w) = <<e>>
    BY DEF SubQuery, x, k, S
  <2> HIDE DEF e
  <2> QED
    BY <2>1, <2>4, <2>5, LacksOne
<1>8. Lacks(writeWhereCond(c), Listing)
  <2> DEFINE x == [Clause("WHERE") EXCEPT !.rows = c.rows]
  <2>1. c.rows \in SUBSET Rows
    BY DEF Conds
  <2>2. Simple(x, "WHERE")
    <3>1. "WHERE" \in ClauseNames
      BY <1>3
    <3> QED
      BY <2>1, <3>1, SimpleClauses
  <2>3. writeWhereCond(c) = When(c.valid, <<x>>)
    BY DEF writeWhereCond
  <2> HIDE DEF x
  <2>4. "WHERE" \in ClauseNames \ Listing
    BY <1>3
  <2>5. Lacks(<<x>>, Listing)
    BY <1>2, <2>2, <2>4
  <2> QED
    BY <2>3, <2>5, LacksWhen
<1>9. Lacks(writeOrderBys(s), Listing)
  <2> DEFINE x == [Clause("ORDER BY") EXCEPT !.desc = Head(s.orderBy) = "desc"]
  <2>1. "ORDER BY" \in ClauseNames /\ (Head(s.orderBy) = "desc") \in BOOLEAN
    BY <1>3
  <2>3. Simple(x, "ORDER BY")
    BY <2>1, SimpleClauses
  <2>2. writeOrderBys(s) = When(s.orderBy # <<>>, <<x>>)
    BY DEF writeOrderBys
  <2> HIDE DEF x
  <2>4. "ORDER BY" \in ClauseNames \ Listing
    BY <1>3
  <2>5. Lacks(<<x>>, Listing)
    BY <1>2, <2>3, <2>4
  <2> QED
    BY <2>2, <2>5, LacksWhen
<1>10. Lacks(writeJoins(s), Listing)
    BY <1>3, LacksText, LacksWhen DEF writeJoins
<1>11. Lacks(writeTop(s), Listing)
    BY <1>6, LacksWhen DEF writeTop, Stmt
<1> QED
    BY <1>1, <1>5, <1>6, <1>7, <1>8, <1>9, <1>10, <1>11

\* The SET clauses assign columns of S, and none twice.
Assigns(w, S) ==
    /\ w \in Texts
    /\ \A i \in DOMAIN w : w[i].k = "SET" =>
          /\ IsInjective(w[i].cols) /\ Range(w[i].cols) \subseteq S
          /\ \A j \in DOMAIN w : w[j].k = "SET" /\ j # i =>
                \A x \in Range(w[i].cols) : x \notin Range(w[j].cols)

LEMMA AssignsOnce == ASSUME NEW w, NEW S, Assigns(w, S) PROVE IsInjective(Sets(w))
<1> DEFINE q == [i \in DOMAIN w |-> IF w[i].k = "SET" THEN w[i].cols ELSE <<>>]
           T == ColumnNames
<1>1. /\ w \in Seq(Clauses) /\ Len(w) \in Nat /\ DOMAIN w = 1 .. Len(w)
      /\ \A i \in DOMAIN w : w[i] \in Clauses
    BY DEF Assigns, Texts
<1>2. \A i \in DOMAIN w : w[i].cols \in Seq(T)
    BY <1>1 DEF Clauses
<1>3. \A i \in DOMAIN w : q[i] \in Seq(T)
    BY <1>2
<1>4. q \in Seq(Seq(T)) /\ DOMAIN q = DOMAIN w
    BY <1>1, <1>3
<1>5. \A i \in DOMAIN q : q[i] = IF w[i].k = "SET" THEN w[i].cols ELSE <<>>
    OBVIOUS
<1>6. IsInjective(<<>>) /\ Range(<<>>) = {}
    BY DEF IsInjective, Range
<1> HIDE DEF q, T
<1>7. \A i \in DOMAIN q : IsInjective(q[i])
    BY <1>4, <1>5, <1>6 DEF Assigns
<1>8. \A i, j \in DOMAIN q : i # j => \A x \in Range(q[i]) : x \notin Range(q[j])
    BY <1>4, <1>5, <1>6 DEF Assigns
<1>9. IsInjective(FlattenSeq(q))
    BY <1>4, <1>7, <1>8, FlattenedOnce
<1> QED
    BY <1>9 DEF Sets, q

LEMMA AssignsNone == ASSUME NEW w, Lacks(w, Listing) PROVE Assigns(w, {})
BY DEF Lacks, Assigns, Listing

LEMMA AssignsConcat ==
    ASSUME NEW a, NEW b, NEW S, NEW T, Assigns(a, S), Assigns(b, T), \A x \in S : x \notin T
    PROVE  Assigns(a \o b, S \cup T)
<1> DEFINE w == a \o b
<1>1. a \in Seq(Clauses) /\ b \in Seq(Clauses)
    BY DEF Assigns, Texts
<1>2. /\ Len(a) \in Nat /\ Len(b) \in Nat /\ DOMAIN w = 1 .. Len(a) + Len(b)
      /\ DOMAIN a = 1 .. Len(a) /\ DOMAIN b = 1 .. Len(b) /\ w \in Seq(Clauses)
    BY <1>1
<1>3. ASSUME NEW i \in DOMAIN w
      PROVE  \/ i \in DOMAIN a /\ w[i] = a[i]
             \/ i - Len(a) \in DOMAIN b /\ w[i] = b[i - Len(a)]
    BY <1>1, <1>2
<1> HIDE DEF w
<1>4. ASSUME NEW i \in DOMAIN w, w[i].k = "SET"
      PROVE  IsInjective(w[i].cols) /\ Range(w[i].cols) \subseteq S \cup T
  <2>1. CASE i \in DOMAIN a /\ w[i] = a[i]
    BY <1>4, <2>1 DEF Assigns
  <2>2. CASE i - Len(a) \in DOMAIN b /\ w[i] = b[i - Len(a)]
    BY <1>4, <2>2 DEF Assigns
  <2> QED
    BY <1>3, <2>1, <2>2
<1>5. ASSUME NEW i \in DOMAIN w, NEW j \in DOMAIN w, w[i].k = "SET", w[j].k = "SET", j # i,
             NEW x \in Range(w[i].cols)
      PROVE  x \notin Range(w[j].cols)
  <2>1. CASE i \in DOMAIN a /\ w[i] = a[i] /\ j \in DOMAIN a /\ w[j] = a[j]
    BY <1>5, <2>1 DEF Assigns
  <2>2. CASE /\ i - Len(a) \in DOMAIN b /\ w[i] = b[i - Len(a)]
             /\ j - Len(a) \in DOMAIN b /\ w[j] = b[j - Len(a)]
    <3>1. i - Len(a) # j - Len(a)
      BY <1>2, <1>5
    <3> QED
      BY <1>5, <2>2, <3>1 DEF Assigns
  <2>3. CASE /\ i \in DOMAIN a /\ w[i] = a[i]
             /\ j - Len(a) \in DOMAIN b /\ w[j] = b[j - Len(a)]
    <3>1. Range(w[i].cols) \subseteq S /\ Range(w[j].cols) \subseteq T
      BY <1>5, <2>3 DEF Assigns
    <3> QED
      BY <1>5, <3>1
  <2>4. CASE /\ j \in DOMAIN a /\ w[j] = a[j]
             /\ i - Len(a) \in DOMAIN b /\ w[i] = b[i - Len(a)]
    <3>1. Range(w[j].cols) \subseteq S /\ Range(w[i].cols) \subseteq T
      BY <1>5, <2>4 DEF Assigns
    <3> QED
      BY <1>5, <3>1
  <2> QED
    BY <1>3, <2>1, <2>2, <2>3, <2>4
<1>6. w \in Texts
    BY <1>2 DEF Texts
<1>7. Assigns(w, S \cup T)
    BY <1>4, <1>5, <1>6 DEF Assigns
<1> QED
    BY <1>7 DEF w

\* What lists no columns may stand before and after.
LEMMA AssignsAround ==
    ASSUME NEW a, NEW b, NEW S, Assigns(b, S), Lacks(a, Listing)
    PROVE  Assigns(a \o b, S) /\ Assigns(b \o a, S)
<1>1. Assigns(a, {})
    BY AssignsNone
<1>2. Assigns(a \o b, {} \cup S) /\ Assigns(b \o a, S \cup {})
    BY <1>1, AssignsConcat
<1>3. {} \cup S = S /\ S \cup {} = S
    OBVIOUS
<1> QED
    BY <1>2, <1>3

LEMMA AssignsList ==
    ASSUME NEW cols \in Seq(ColumnNames), IsInjective(cols)
    PROVE  Assigns(SetClause(cols), Range(cols)) /\ Assigns(writeSetColumns(cols), Range(cols))
<1> DEFINE c == [Clause("SET") EXCEPT !.cols = cols]
<1>1. c \in Clauses /\ c.cols = cols
  <2>1. "SET" \in ClauseNames
    BY DEF ClauseNames
  <2>2. Clause("SET") \in Clauses
    BY <2>1, ClauseType
  <2> QED
    BY <2>2 DEF Clauses
<1>2. SetClause(cols) = <<c>>
    BY DEF SetClause
<1> HIDE DEF c
<1>3. <<c>> \in Texts /\ DOMAIN <<c>> = {1} /\ <<c>>[1] = c
    BY <1>1, OneClause
<1>4. Assigns(<<c>>, Range(cols))
    BY <1>1, <1>3 DEF Assigns
<1>5. cols = <<>> => Assigns(Nothing, Range(cols))
  <2>1. Lacks(Nothing, Listing)
    BY EmptyText DEF Nothing, Lacks
  <2>2. Range(<<>>) = {}
    BY DEF Range
  <2> QED
    BY <2>1, <2>2, AssignsNone
<1> QED
    BY <1>2, <1>4, <1>5 DEF writeSetColumns, When

\* The parts of a sequence that names nothing twice.
LEMMA PartsOnce ==
    ASSUME NEW T, NEW a \in Seq(T), NEW b \in Seq(T), IsInjective(a \o b)
    PROVE  /\ IsInjective(a) /\ IsInjective(b)
           /\ \A x \in Range(a) : x \notin Range(b)
           /\ Range(a \o b) = Range(a) \cup Range(b)
<1> DEFINE w == a \o b
<1>1. /\ Len(a) \in Nat /\ Len(b) \in Nat /\ DOMAIN w = 1 .. Len(a) + Len(b)
      /\ DOMAIN a = 1 .. Len(a) /\ DOMAIN b = 1 .. Len(b)
    OBVIOUS
<1>2. ASSUME NEW i \in DOMAIN w
      PROVE  \/ i \in DOMAIN a /\ w[i] = a[i]
             \/ i - Len(a) \in DOMAIN b /\ w[i] = b[i - Len(a)]
    BY <1>1
<1>3. \A i \in DOMAIN a : i \in DOMAIN w /\ w[i] = a[i]
    BY <1>1
<1>4. \A i \in DOMAIN b : Len(a) + i \in DOMAIN w /\ w[Len(a) + i] = b[i]
    BY <1>1
<1>5. IsInjective(w)
    OBVIOUS
<1> HIDE DEF w
<1>6. Range(w) = Range(a) \cup Range(b)
    BY <1>2, <1>3, <1>4 DEF Range
<1>7. IsInjective(a)
    BY <1>3, <1>5 DEF IsInjective
<1>8. ASSUME NEW i \in DOMAIN b, NEW j \in DOMAIN b, b[i] = b[j] PROVE i = j
  <2>1. Len(a) + i = Len(a) + j
    BY <1>4, <1>5, <1>8 DEF IsInjective
  <2> QED
    BY <1>1, <2>1
<1>9. ASSUME NEW i \in DOMAIN a, NEW j \in DOMAIN b, a[i] = b[j] PROVE FALSE
  <2>1. i = Len(a) + j
    BY <1>3, <1>4, <1>5, <1>9 DEF IsInjective
  <2> QED
    BY <1>1, <2>1
<1>10. \A x \in Range(a) : x \notin Range(b)
    BY <1>9 DEF Range
<1> QED
    BY <1>6, <1>7, <1>8, <1>10 DEF w, IsInjective

\* No column is named in two ways.
NamedOnce(s, bean) ==
    /\ s.CheckVersion => "ver" \notin s.ColumnMap /\ ~InExprs(s, "ver")
    /\ bean = "map" => ~InExprs(s, "a")
    /\ IsInjective(s.IncrColumns \o s.DecrColumns \o s.ExprColumns)
    /\ InExprs(s, "updated") => AutoUpdated(s) = <<>>

\* The fields that UPDATE writes, next to those of Incr, Decr and SetExpr and the version.
LEMMA UpdateFields ==
    ASSUME NEW s, NEW bean, bean = "map" => ~InExprs(s, "a"),
           InExprs(s, "updated") => AutoUpdated(s) = <<>>
    PROVE  /\ UpdateColumns(s, bean) \in Seq(ColumnNames)
           /\ IsInjective(UpdateColumns(s, bean))
           /\ \A x \in Range(UpdateColumns(s, bean)) :
                 /\ ~InExprs(s, x)
                 /\ x = "ver" => "ver" \in s.ColumnMap
<1> DEFINE B == {c \in Range(Columns) :
                        ifAddColUpdate(s, c) /\ (s.useAllCols \/ c \in NonZero)}
           G == {c \in s.ColumnMap :
                    /\ c \in {"ver", "created", "updated"} \/ c \notin s.OmitColumnMap
                    /\ c # "id"
                    /\ c = "deleted" => s.unscoped
                    /\ ~InExprs(s, c)}
           auto == AutoUpdated(s)
           cols == IF bean = "map" THEN <<"a">>
                   ELSE IF s.ColumnMap = {} THEN Filter(Columns, B) ELSE Filter(Columns, G)
<1>1. UpdateColumns(s, bean) = cols \o auto
    BY DEF UpdateColumns, BuildUpdates, genUpdateColumns
<1>4. \A x \in B : ~InExprs(s, x) /\ x # "updated" /\ x # "ver"
    BY DEF ifAddColUpdate
<1>5. \A x \in G : ~InExprs(s, x) /\ x \in s.ColumnMap
    OBVIOUS
<1> HIDE DEF B, G
<1>6. ASSUME NEW S
      PROVE  /\ Filter(Columns, S) \in Seq(ColumnNames) /\ IsInjective(Filter(Columns, S))
             /\ Range(Filter(Columns, S)) \subseteq S
    BY ColumnsType, FilterProps
<1>7. <<"a">> \in Seq(ColumnNames) /\ IsInjective(<<"a">>) /\ Range(<<"a">>) = {"a"}
    BY DEF ColumnNames, IsInjective, Range
<1>8. /\ cols \in Seq(ColumnNames) /\ IsInjective(cols)
      /\ \A x \in Range(cols) : /\ ~InExprs(s, x)
                                /\ x = "ver" => "ver" \in s.ColumnMap
                                /\ x = "updated" => "updated" \in s.ColumnMap
  <2>1. CASE bean = "map"
    <3>1. cols = <<"a">>
      BY <2>1
    <3> HIDE DEF cols
    <3> QED
      BY <1>7, <2>1, <3>1
  <2>2. CASE bean # "map" /\ s.ColumnMap = {}
    <3>1. cols = Filter(Columns, B)
      BY <2>2
    <3> HIDE DEF cols
    <3> QED
      BY <1>4, <1>6, <3>1
  <2>3. CASE bean # "map" /\ s.ColumnMap # {}
    <3>1. cols = Filter(Columns, G)
      BY <2>3
    <3> HIDE DEF cols
    <3> QED
      BY <1>5, <1>6, <3>1
  <2> QED
    BY <2>1, <2>2, <2>3
<1>9. /\ auto \in Seq(ColumnNames) /\ IsInjective(auto)
      /\ \A x \in Range(auto) : x = "updated" /\ x \notin s.ColumnMap /\ ~InExprs(s, "updated")
  <2>0. <<"updated">> # <<>>
    <3>1. Len(<<"updated">>) = 1 /\ Len(<<>>) = 0
      OBVIOUS
    <3> QED
      BY <3>1
  <2>1. auto = <<>> \/ (auto = <<"updated">> /\ "updated" \notin s.ColumnMap /\ ~InExprs(s, "updated"))
    BY <2>0 DEF AutoUpdated
  <2>2. /\ <<"updated">> \in Seq(ColumnNames) /\ IsInjective(<<"updated">>)
        /\ Range(<<"updated">>) = {"updated"}
    BY DEF ColumnNames, IsInjective, Range
  <2>3. <<>> \in Seq(ColumnNames) /\ IsInjective(<<>>) /\ Range(<<>>) = {}
    BY DEF IsInjective, Range
  <2> HIDE DEF auto
  <2> QED
    BY <2>1, <2>2, <2>3
<1> HIDE DEF cols, auto
<1>10. /\ cols \o auto \in Seq(ColumnNames) /\ IsInjective(cols \o auto)
       /\ Range(cols \o auto) = Range(cols) \cup Range(auto)
    BY <1>8, <1>9, JoinedOnce
<1>11. \A x \in Range(cols \o auto) : ~InExprs(s, x) /\ (x = "ver" => "ver" \in s.ColumnMap)
    BY <1>8, <1>9, <1>10
<1> QED
    BY <1>1, <1>10, <1>11

LEMMA AssignsSets ==
    ASSUME NEW s, Stmt(s), NEW bean, NamedOnce(s, bean)
    PROVE  \E S : Assigns(writeUpdateSets(s, bean), S)
<1> DEFINE cols == UpdateColumns(s, bean)
           i == s.IncrColumns
           d == s.DecrColumns
           e == s.ExprColumns
           a == writeSetColumns(cols)
           v == writeVersionIncrSet(s, bean)
           V == IF s.CheckVersion THEN {"ver"} ELSE {}
           T == ColumnNames
           w == a \o writeSetColumns(i) \o writeSetColumns(d) \o writeSetColumns(e) \o v
<1>1. writeUpdateSets(s, bean) = IF w = Nothing THEN Fail ELSE w
    BY DEF writeUpdateSets, writeIncrSets, writeDecrSets, writeExprSets
<1>2. /\ cols \in Seq(T) /\ IsInjective(cols)
      /\ \A x \in Range(cols) : ~InExprs(s, x) /\ (x = "ver" => "ver" \in s.ColumnMap)
    BY UpdateFields DEF NamedOnce
<1> HIDE DEF cols
<1>3. /\ i \in Seq(T) /\ IsInjective(i) /\ d \in Seq(T) /\ IsInjective(d)
      /\ e \in Seq(T) /\ IsInjective(e)
      /\ \A x \in Range(i) : x \notin Range(d)
      /\ \A x \in Range(i) \cup Range(d) : x \notin Range(e)
      /\ Range(i \o d \o e) = Range(i) \cup Range(d) \cup Range(e)
  <2>1. i \in Seq(T) /\ d \in Seq(T) /\ e \in Seq(T) /\ IsInjective(i \o d \o e)
    BY DEF Stmt, NamedOnce
  <2> HIDE DEF i, d, e, T
  <2> DEFINE y == i \o d
  <2>2. y \in Seq(T) /\ IsInjective(y \o e)
    BY <2>1
  <2> HIDE DEF y
  <2>3. /\ IsInjective(y) /\ IsInjective(e) /\ \A x \in Range(y) : x \notin Range(e)
        /\ Range(y \o e) = Range(y) \cup Range(e)
    BY <2>1, <2>2, PartsOnce
  <2>4. IsInjective(i \o d)
    BY <2>3 DEF y
  <2>5. /\ IsInjective(i) /\ IsInjective(d) /\ \A x \in Range(i) : x \notin Range(d)
        /\ Range(i \o d) = Range(i) \cup Range(d)
    BY <2>1, <2>4, PartsOnce
  <2>6. Range(y) = Range(i) \cup Range(d) /\ y = i \o d
    BY <2>5 DEF y
  <2> QED
    BY <2>1, <2>3, <2>5, <2>6
<1>4. /\ \A x \in Range(cols) : x \notin Range(i) /\ x \notin Range(d) /\ x \notin Range(e)
      /\ s.CheckVersion => "ver" \notin Range(i) \cup Range(d) \cup Range(e)
  <2>1. \A x : InExprs(s, x) <=> x \in Range(i \o d \o e)
    BY DEF InExprs
  <2>2. s.CheckVersion => ~InExprs(s, "ver")
    BY DEF NamedOnce
  <2> HIDE DEF i, d, e, T
  <2> QED
    BY <1>2, <1>3, <2>1, <2>2
<1> HIDE DEF i, d, e
<1>5. Assigns(a, Range(cols)) /\ Assigns(writeSetColumns(i), Range(i))
      /\ Assigns(writeSetColumns(d), Range(d)) /\ Assigns(writeSetColumns(e), Range(e))
    BY <1>2, <1>3, AssignsList
<1>6. Assigns(v, V)
  <2>1. <<"ver">> \in Seq(T) /\ IsInjective(<<"ver">>) /\ Range(<<"ver">>) = {"ver"}
    BY DEF ColumnNames, IsInjective, Range
  <2>2. Assigns(SetClause(<<"ver">>), {"ver"})
    BY <2>1, AssignsList
  <2>3. Lacks(Nothing, Listing)
    BY EmptyText DEF Nothing, Lacks
  <2>4. Assigns(Nothing, {})
    BY <2>3, AssignsNone
  <2>5. Assigns(Nothing, {"ver"})
    BY EmptyText DEF Assigns, Nothing
  <2>6. \/ v = Nothing
        \/ v = SetClause(<<"ver">>) /\ s.CheckVersion
    BY DEF writeVersionIncrSet, When
  <2> HIDE DEF v
  <2> QED
    BY <2>2, <2>4, <2>5, <2>6
<1>7. \A x \in Range(cols) : x \notin V
    BY <1>2 DEF NamedOnce
<1>8. \A x \in V : x = "ver" /\ s.CheckVersion
    OBVIOUS
<1> HIDE DEF a, v, V
<1>9. Assigns(a \o writeSetColumns(i), Range(cols) \cup Range(i))
    BY <1>4, <1>5, AssignsConcat
<1>10. Assigns(a \o writeSetColumns(i) \o writeSetColumns(d), Range(cols) \cup Range(i) \cup Range(d))
  <2>1. \A x \in Range(cols) \cup Range(i) : x \notin Range(d)
    BY <1>3, <1>4
  <2> QED
    BY <1>5, <1>9, <2>1, AssignsConcat
<1>11. Assigns(a \o writeSetColumns(i) \o writeSetColumns(d) \o writeSetColumns(e),
               Range(cols) \cup Range(i) \cup Range(d) \cup Range(e))
  <2>1. \A x \in Range(cols) \cup Range(i) \cup Range(d) : x \notin Range(e)
    BY <1>3, <1>4
  <2> QED
    BY <1>5, <1>10, <2>1, AssignsConcat
<1>12. Assigns(w, Range(cols) \cup Range(i) \cup Range(d) \cup Range(e) \cup V)
  <2>1. \A x \in Range(cols) \cup Range(i) \cup Range(d) \cup Range(e) : x \notin V
    BY <1>4, <1>7, <1>8
  <2> QED
    BY <1>6, <1>11, <2>1, AssignsConcat
<1>13. Assigns(Fail, {})
  <2>1. "ERROR" \in ClauseNames \ Listing
    BY DEF ClauseNames, Listing
  <2>2. Lacks(Fail, Listing)
    BY <2>1, LacksText DEF Fail
  <2> QED
    BY <2>2, AssignsNone
<1> HIDE DEF w
<1> QED
    BY <1>1, <1>12, <1>13

LEMMA LacksUpdateLimit ==
    ASSUME NEW d, NEW s, Stmt(s), NEW c \in Conds
    PROVE  Lacks(writeUpdateLimit(d, s, c), Listing)
<1> DEFINE where == writeWhereCond(c)
           order == writeOrderBys(s)
           cut == Page("LIMIT", 0, s.LimitN)
           page == Page("TOP", 0, s.LimitN)
           limited == where \o order \o cut
           top == page \o where \o order
           R == Range(RowsOf(limited))
           T == Range(RowsOf(top))
           w == writeUpdateLimit(d, s, c)
           sub == SubQuery(c, R, limited)
           tops == SubQuery(NewCond, T, top)
<1>1. /\ Lacks(where, Listing) /\ Lacks(order, Listing) /\ Lacks(cut, Listing)
      /\ Lacks(page, Listing)
    BY LacksWriters DEF Stmt
<1>2. w = When(s.LimitN # NoLimit,
               CASE DBType(d) = "mysql" -> cut
                 [] DBType(d) \in {"sqlite3", "postgres"} -> sub
                 [] DBType(d) = "mssql" -> When(OrderByKey(s), tops)
                 [] OTHER -> Fail)
    BY DEF writeUpdateLimit
<1>3. w = Nothing \/ w = cut \/ w = sub \/ w = When(OrderByKey(s), tops) \/ w = Fail
    BY <1>2, Zenon DEF When
<1> HIDE DEF where, order, cut, page, w
<1>4. limited \in Texts /\ top \in Texts
    BY <1>1, LacksConcat DEF Lacks
<1> HIDE DEF limited, top
<1>5. R \in SUBSET Rows /\ T \in SUBSET Rows
  <2>1. RowsOf(limited) \in Seq(Rows) /\ RowsOf(top) \in Seq(Rows)
    BY <1>4, RowsOfProps
  <2> QED
    BY <2>1 DEF Range
<1> HIDE DEF R, T
<1>6. Lacks(sub, Listing) /\ Lacks(tops, Listing) /\ Lacks(Nothing, Listing) /\ Lacks(Fail, Listing)
    BY <1>4, <1>5, CondTypes, LacksWriters
<1> HIDE DEF sub, tops
<1> QED
    BY <1>1, <1>3, <1>6, LacksWhen DEF w

LEMMA UpdateAssigns ==
    ASSUME NEW d, NEW s, Stmt(s), NEW c \in Conds, NEW bean, NamedOnce(s, bean)
    PROVE  IsInjective(Sets(WriteUpdate(d, s, c, bean)))
<1> DEFINE w == WriteUpdate(d, s, c, bean)
           all == CondAnd(c, joinConds(s))
           sets == writeUpdateSets(s, bean)
           up == Text("UPDATE")
<1>0. Stmt(s)
    OBVIOUS
<1>1. all \in Conds
    BY <1>0, JoinedCond
<1>2. PICK S : Assigns(sets, S)
    BY AssignsSets
<1>3. Lacks(up, Listing) /\ Lacks(Text("FROM"), Listing) /\ Lacks(Nothing, Listing)
  <2>1. "UPDATE" \in ClauseNames \ Listing /\ "FROM" \in ClauseNames \ Listing
    BY DEF ClauseNames, Listing
  <2> QED
    BY <2>1, EmptyText, LacksText DEF Lacks, Nothing
<1>4. \A e : Lacks(writeUpdateFrom(e, s), Listing)
    BY <1>3, LacksWhen DEF writeUpdateFrom
<1>5. Lacks(writeUpdateTop(d, s), Listing)
    BY <1>0, LacksWriters, LacksWhen DEF writeUpdateTop
<1>6. /\ Lacks(writeUpdateLimit(d, s, c), Listing) /\ Lacks(writeUpdateLimit(d, s, all), Listing)
      /\ Lacks(writeWhereCond(c), Listing) /\ Lacks(writeWhereCond(all), Listing)
      /\ Lacks(writeOrderBys(s), Listing) /\ Lacks(writeJoins(s), Listing)
  <2> HIDE DEF all
  <2> QED
    BY <1>0, <1>1, LacksUpdateLimit, LacksWriters
<1>7. \/ w = writeUpdateMySQL(d, s, c, bean)
      \/ w = writeUpdateMSSQL(d, s, c, bean)
      \/ w = writeUpdateCommon(d, s, c, bean)
    BY Zenon DEF WriteUpdate
<1> HIDE DEF sets, up, w, all
<1>8. CASE w = writeUpdateMySQL(d, s, c, bean)
  <2> DEFINE x == up \o writeJoins(s)
             y == writeWhereCond(c)
             z == writeOrderBys(s)
             l == writeUpdateLimit(d, s, c)
  <2>1. w = x \o sets \o y \o z \o l
    BY <1>8 DEF writeUpdateMySQL, up, sets
  <2>2. Lacks(x, Listing) /\ Lacks(y, Listing) /\ Lacks(z, Listing) /\ Lacks(l, Listing)
    BY <1>3, <1>6, LacksConcat
  <2> HIDE DEF x, y, z, l
  <2>3. Assigns(x \o sets, S)
    BY <1>2, <2>2, AssignsAround
  <2>4. Assigns(x \o sets \o y, S)
    BY <2>2, <2>3, AssignsAround
  <2>5. Assigns(x \o sets \o y \o z, S)
    BY <2>2, <2>4, AssignsAround
  <2> QED
    BY <2>1, <2>2, <2>5, AssignsAround, AssignsOnce DEF w
<1>9. CASE w = writeUpdateMSSQL(d, s, c, bean)
  <2> DEFINE x == up \o writeUpdateTop(d, s)
             y == writeUpdateFrom("mssql", s)
             z == When(~OrderByKey(s), writeWhereCond(all))
             l == writeUpdateLimit(d, s, all)
  <2>1. w = x \o sets \o y \o z \o l
    BY <1>9 DEF writeUpdateMSSQL, up, sets, all
  <2>2. Lacks(x, Listing) /\ Lacks(y, Listing) /\ Lacks(z, Listing) /\ Lacks(l, Listing)
    BY <1>3, <1>4, <1>5, <1>6, LacksConcat, LacksWhen
  <2> HIDE DEF x, y, z, l
  <2>3. Assigns(x \o sets, S)
    BY <1>2, <2>2, AssignsAround
  <2>4. Assigns(x \o sets \o y, S)
    BY <2>2, <2>3, AssignsAround
  <2>5. Assigns(x \o sets \o y \o z, S)
    BY <2>2, <2>4, AssignsAround
  <2> QED
    BY <2>1, <2>2, <2>5, AssignsAround, AssignsOnce DEF w
<1>10. CASE w = writeUpdateCommon(d, s, c, bean)
  <2> DEFINE x == up
             y == writeUpdateFrom(d, s)
             z == writeWhereCond(all)
             l == writeUpdateLimit(d, s, all)
  <2>1. w = x \o sets \o y \o z \o l
    BY <1>10 DEF writeUpdateCommon, up, sets, all
  <2>2. Lacks(x, Listing) /\ Lacks(y, Listing) /\ Lacks(z, Listing) /\ Lacks(l, Listing)
    BY <1>3, <1>4, <1>6
  <2> HIDE DEF x, y, z, l
  <2>3. Assigns(x \o sets, S)
    BY <1>2, <2>2, AssignsAround
  <2>4. Assigns(x \o sets \o y, S)
    BY <2>2, <2>3, AssignsAround
  <2>5. Assigns(x \o sets \o y \o z, S)
    BY <2>2, <2>4, AssignsAround
  <2> QED
    BY <2>1, <2>2, <2>5, AssignsAround, AssignsOnce DEF w
<1> QED
    BY <1>7, <1>8, <1>9, <1>10

LEMMA UpdateSetsOnce == ASSUME Good(st), Update PROVE SetOnce'
<1>1. PICK bean \in {"struct", "map", "bad"}, condiBean \in {"struct", "none"} :
        LET s == IF bean = "struct" THEN SetRefBean(st) ELSE st
            s2 == ProcessIDParam(s)
            out == IF st.LastError \/ bean = "bad" THEN Refused(st)
                   ELSE IF IdFails(s) THEN Refused(s)
                   ELSE [w |-> WriteUpdate(dialect, s2, UpdateCond(s2, bean, condiBean), bean),
                         st |-> s2]
        IN  Call("Update", <<bean, condiBean>>, out, TRUE)
    BY DEF Update
<1> DEFINE s == IF bean = "struct" THEN SetRefBean(st) ELSE st
           s2 == ProcessIDParam(s)
           c == UpdateCond(s2, bean, condiBean)
           w == WriteUpdate(dialect, s2, c, bean)
           new == [w |-> w, st |-> s2]
           o == IF st.LastError \/ bean = "bad" THEN Refused(st)
                ELSE IF IdFails(s) THEN Refused(s) ELSE new
           arg == <<bean, condiBean>>
           resets == TRUE
           auto == autoResetStatement
           res == 0
<1>2. Return("Update", arg, o, resets, auto, res) /\ arg[1] = bean
    BY <1>1 DEF Call
<1> HIDE DEF resets, arg, auto, res
<1> HIDE DEF new
<1>3. o = Refused(st) \/ o = Refused(s) \/ o = new
  <2> HIDE DEF s
  <2> QED
    OBVIOUS
<1> HIDE DEF o
<1>4. Good(s)
    BY GoodRefBean
<1> HIDE DEF s
<1>5. Good(s2) /\ Stmt(s2)
    BY <1>4, IdNarrows, GoodNarrows DEF Good
<1> HIDE DEF s2
<1>6. c \in Conds
    BY <1>5, UpdateCondType
<1> HIDE DEF c
<1>7. /\ new.w = w /\ new.st = s2
    BY DEF new
<1>8. NamedOnce(s2, bean) => IsInjective(Sets(w))
    BY <1>5, <1>6, UpdateAssigns
<1> HIDE DEF w
<1>9. \A x : Refused(x).w = Fail /\ Failed(Fail)
    BY FailText DEF Refused
<1>10. Recorded("Update", arg, o, res)
    BY <1>2, ReturnAsks
<1>11. last'.w = o.w /\ last'.st = o.st /\ last'.bean = arg /\ last'.err = Failed(o.w)
    BY <1>10 DEF Recorded
<1>12. SUFFICES ASSUME Sent', ~SetsTwice' PROVE IsInjective(Sets(last'.w))
    BY DEF SetOnce
<1>13. ~Failed(o.w)
    BY <1>11, <1>12 DEF Sent
<1>14. o = new
    BY <1>3, <1>9, <1>13
<1>15. last'.w = w /\ last'.st = s2 /\ last'.bean[1] = bean
    BY <1>2, <1>7, <1>11, <1>14
<1>16. NamedOnce(s2, bean)
  <2>1. ~(LET t == last'.st
          IN  \/ t.CheckVersion /\ ("ver" \in t.ColumnMap \/ InExprs(t, "ver"))
              \/ last'.bean[1] = "map" /\ InExprs(t, "a")
              \/ ~IsInjective(t.IncrColumns \o t.DecrColumns \o t.ExprColumns)
              \/ InExprs(t, "updated") /\ AutoUpdated(t) # <<>>)
    BY <1>12 DEF SetsTwice
  <2>2. ~(\/ s2.CheckVersion /\ ("ver" \in s2.ColumnMap \/ InExprs(s2, "ver"))
          \/ bean = "map" /\ InExprs(s2, "a")
          \/ ~IsInjective(s2.IncrColumns \o s2.DecrColumns \o s2.ExprColumns)
          \/ InExprs(s2, "updated") /\ AutoUpdated(s2) # <<>>)
    BY <1>15, <2>1
  <2> QED
    BY <2>2 DEF NamedOnce
<1> QED
    BY <1>8, <1>15, <1>16

-----------------------------------------------------------------------------
(* The columns that INSERT names, and what it gives for them.               *)

Given == {"SELECT", "VALUES"}

LEMMA ListsConcat ==
    ASSUME NEW K, NEW a \in Texts, NEW b \in Texts
    PROVE  Lists(a \o b, K) = Lists(a, K) \cup Lists(b, K)
<1> DEFINE w == a \o b
<1>1. a \in Seq(Clauses) /\ b \in Seq(Clauses)
    BY DEF Texts
<1>2. /\ Len(a) \in Nat /\ Len(b) \in Nat /\ DOMAIN w = 1 .. Len(a) + Len(b)
      /\ DOMAIN a = 1 .. Len(a) /\ DOMAIN b = 1 .. Len(b)
    BY <1>1
<1>3. ASSUME NEW i \in DOMAIN w
      PROVE  \/ i \in DOMAIN a /\ w[i] = a[i]
             \/ i - Len(a) \in DOMAIN b /\ w[i] = b[i - Len(a)]
    BY <1>1, <1>2
<1>4. \A i \in DOMAIN a : i \in DOMAIN w /\ w[i] = a[i]
    BY <1>1, <1>2
<1>5. \A i \in DOMAIN b : Len(a) + i \in DOMAIN w /\ w[Len(a) + i] = b[i]
    BY <1>1, <1>2
<1> HIDE DEF w
<1>6. Lists(w, K) = Lists(a, K) \cup Lists(b, K)
    BY <1>3, <1>4, <1>5 DEF Lists
<1> QED
    BY <1>6 DEF w

\* The text names the columns C and gives L for them: one list, or none.
Gives(w, L, C) == w \in Texts /\ Lists(w, Given) = L /\ Lists(w, {"COLUMNS"}) = C

LEMMA ListsNone == ASSUME NEW w, Lacks(w, Listing) PROVE Gives(w, {}, {})
BY DEF Lacks, Listing, Gives, Lists, Given

LEMMA ListsOne ==
    ASSUME NEW k \in {"COLUMNS", "SELECT", "VALUES"}, NEW cols \in Seq(ColumnNames)
    PROVE  /\ List(k, cols) \in Texts
           /\ Lists(List(k, cols), Given) = IF k = "COLUMNS" THEN {} ELSE {cols}
           /\ Lists(List(k, cols), {"COLUMNS"}) = IF k = "COLUMNS" THEN {cols} ELSE {}
<1> DEFINE c == [Clause(k) EXCEPT !.cols = cols]
<1>1. k \in ClauseNames /\ k \in ClauseNames \ {"ERROR"}
    BY DEF ClauseNames
<1>2. c.k = k /\ c.cols = cols /\ c \in Clauses
  <2>1. Clause(k) \in Clauses /\ Clause(k).k = k
    BY <1>1, ClauseType
  <2> QED
    BY <2>1 DEF Clauses
<1>3. List(k, cols) = <<c>>
    BY DEF List
<1> HIDE DEF c
<1>4. <<c>> \in Texts /\ DOMAIN <<c>> = {1} /\ <<c>>[1] = c
    BY <1>2, OneClause
<1>5. \A K : Lists(<<c>>, K) = IF k \in K THEN {cols} ELSE {}
    BY <1>2, <1>4 DEF Lists
<1> QED
    BY <1>3, <1>4, <1>5 DEF Given

\* What lists no columns may stand between.
LEMMA GivesAround ==
    ASSUME NEW a, NEW b, NEW L, NEW C, Gives(b, L, C), Lacks(a, Listing)
    PROVE  Gives(a \o b, L, C) /\ Gives(b \o a, L, C)
<1>1. Gives(a, {}, {})
    BY ListsNone
<1>2. /\ a \o b \in Texts /\ b \o a \in Texts
      /\ \A K : Lists(a \o b, K) = Lists(a, K) \cup Lists(b, K)
      /\ \A K : Lists(b \o a, K) = Lists(b, K) \cup Lists(a, K)
    BY <1>1, ListsConcat, Concat DEF Gives
<1> QED
    BY <1>1, <1>2 DEF Gives

LEMMA GivesLists ==
    ASSUME NEW k \in Given, NEW cols \in Seq(ColumnNames), NEW items \in Seq(ColumnNames)
    PROVE  Gives(List("COLUMNS", cols) \o List(k, items), {items}, {cols})
<1> DEFINE a == List("COLUMNS", cols)
           b == List(k, items)
           one == "COLUMNS"
<1>1. /\ a \in Texts /\ Lists(a, Given) = {} /\ Lists(a, {"COLUMNS"}) = {cols}
  <2>1. one \in {"COLUMNS", "SELECT", "VALUES"} /\ one = "COLUMNS"
    OBVIOUS
  <2> HIDE DEF one
  <2>2. List(one, cols) \in Texts /\ Lists(List(one, cols), Given) = {}
        /\ Lists(List(one, cols), {"COLUMNS"}) = {cols}
    BY <2>1, ListsOne
  <2> QED
    BY <2>1, <2>2
<1>2. /\ b \in Texts /\ Lists(b, Given) = {items} /\ Lists(b, {"COLUMNS"}) = {}
  <2>1. k \in {"COLUMNS", "SELECT", "VALUES"} /\ k # "COLUMNS"
    BY DEF Given
  <2> QED
    BY <2>1, ListsOne
<1> HIDE DEF a, b
<1>3. a \o b \in Texts /\ \A K : Lists(a \o b, K) = Lists(a, K) \cup Lists(b, K)
    BY <1>1, <1>2, ListsConcat, Concat
<1>4. Gives(a \o b, {items}, {cols})
    BY <1>1, <1>2, <1>3 DEF Gives
<1> QED
    BY <1>4 DEF a, b

\* The items are the columns and the expressions, after an empty one if there is no column.
LEMMA ItemsType ==
    ASSUME NEW cols \in Seq(ColumnNames), NEW e \in Seq(ColumnNames)
    PROVE  /\ ExprItems(cols, e) \in Seq(ColumnNames)
           /\ cols # <<>> => ExprItems(cols, e) = cols \o e
<1> DEFINE empty == ""
<1>1. empty \in ColumnNames
    BY Zenon DEF ColumnNames
<1>2. ExprItems(cols, e) = IF e = <<>> THEN cols
                           ELSE (IF cols = <<>> THEN <<empty>> ELSE cols) \o e
    BY Zenon DEF ExprItems
<1> HIDE DEF empty
<1>3. <<empty>> \in Seq(ColumnNames)
    BY <1>1
<1>4. e = <<>> => cols \o e = cols
    OBVIOUS
<1>5. cols \o e \in Seq(ColumnNames) /\ <<empty>> \o e \in Seq(ColumnNames)
    BY <1>3
<1> QED
    BY <1>2, <1>4, <1>5

\* A list of columns ends with what is appended to it.
LEMMA RangeTail ==
    ASSUME NEW cols \in Seq(ColumnNames), NEW e \in Seq(ColumnNames)
    PROVE  Range(e) \subseteq Range(cols \o e)
<1>1. \A i \in DOMAIN e : Len(cols) + i \in DOMAIN (cols \o e) /\ (cols \o e)[Len(cols) + i] = e[i]
    OBVIOUS
<1> QED
    BY <1>1 DEF Range

\* What InsertValues gives for a list of columns after it is named.
LEMMA GivesValues ==
    ASSUME NEW s, Stmt(s), NEW cols \in Seq(ColumnNames)
    PROVE  LET all == cols \o s.ExprColumns
               items == ExprItems(cols, s.ExprColumns)
           IN  /\ InsertValues(s, cols) \in Texts
               /\ Gives(List("COLUMNS", all) \o InsertValues(s, cols), {items}, {all})
<1> DEFINE all == cols \o s.ExprColumns
           items == ExprItems(cols, s.ExprColumns)
           a == List("COLUMNS", all)
           v == InsertValues(s, cols)
           from == Text("FROM")
           where == writeWhere(s)
           x == List("SELECT", items)
           y == List("VALUES", items)
<1>1. s.ExprColumns \in Seq(ColumnNames) /\ s.cond \in Conds
    BY DEF Stmt
<1>2. all \in Seq(ColumnNames) /\ items \in Seq(ColumnNames)
  <2>1. all \in Seq(ColumnNames)
    BY <1>1
  <2>2. items \in Seq(ColumnNames)
    BY <1>1, ItemsType, Zenon
  <2> QED
    BY <2>1, <2>2
<1>3. Lacks(from, Listing) /\ Lacks(where, Listing)
  <2>1. "FROM" \in ClauseNames \ Listing
    BY DEF ClauseNames, Listing
  <2> QED
    BY <1>1, <2>1, LacksText, LacksWriters DEF writeWhere
<1>4. v = x \o from \o where \/ v = y
    BY Zenon DEF InsertValues
<1> HIDE DEF all, items
<1>5. "SELECT" \in Given /\ "VALUES" \in Given
    BY DEF Given
<1>6. Gives(a \o x, {items}, {all}) /\ Gives(a \o y, {items}, {all})
    BY <1>2, <1>5, GivesLists
<1>7. a \in Texts /\ x \in Texts /\ y \in Texts /\ from \in Texts /\ where \in Texts
  <2>1. "COLUMNS" \in ClauseNames \ {"ERROR"} /\ "SELECT" \in ClauseNames \ {"ERROR"}
        /\ "VALUES" \in ClauseNames \ {"ERROR"}
    BY DEF ClauseNames
  <2> QED
    BY <1>2, <1>3, <2>1, ListText DEF Lacks
<1> HIDE DEF a, from, where, x, y, v
<1>8. from \o where \in Texts /\ x \o from \in Texts /\ x \o from \o where \in Texts
    BY <1>7, Concat
<1>9. Gives(a \o v, {items}, {all}) /\ v \in Texts
  <2>1. CASE v = x \o from \o where
    <3> DEFINE z == from \o where
    <3>1. Lacks(z, Listing)
      BY <1>3, LacksConcat
    <3>2. (x \o from) \o where = x \o (from \o where)
      BY <1>7, Associates
    <3>3. a \o (x \o z) = (a \o x) \o z
      <4>1. z \in Texts
        BY <1>8
      <4> HIDE DEF z
      <4> QED
        BY <1>7, <4>1, Associates
    <3>4. a \o v = (a \o x) \o z
      BY <2>1, <3>2, <3>3
    <3> HIDE DEF z
    <3>5. Gives((a \o x) \o z, {items}, {all})
      BY <1>6, <3>1, GivesAround
    <3> QED
      BY <1>8, <2>1, <3>4, <3>5
  <2>2. CASE v = y
    BY <1>6, <1>7, <2>2
  <2> QED
    BY <1>4, <2>1, <2>2
<1> QED
    BY <1>9 DEF all, items, a, v

\* The fields of one struct.
LEMMA GivesInsert ==
    ASSUME NEW s, Stmt(s), NEW d, NEW cols \in Seq(ColumnNames)
    PROVE  \E C : /\ Gives(GenInsertSQL(d, s, cols), C, C)
                  /\ \/ cols = <<>> /\ DBType(d) \notin {"oracle", "dameng"}
                     \/ \E l \in C : Range(s.ExprColumns) \subseteq Range(l)
<1> DEFINE seqDb == DBType(d) \in {"oracle", "dameng"}
           seq == IF seqDb /\ "id" \notin Range(cols) THEN <<"id">> ELSE <<>>
           in == Text("INSERT")
           full == cols \o seq
           all == full \o s.ExprColumns
           body == List("COLUMNS", all) \o InsertValues(s, full)
           default == Text("DEFAULT VALUES")
           mid == IF cols = <<>> /\ ~seqDb THEN default ELSE body
           end == When(DBType(d) = "postgres", Text("RETURNING"))
           lost == cols = <<>> /\ ~seqDb
<1>1. GenInsertSQL(d, s, cols) = in \o mid \o end
    BY DEF GenInsertSQL
<1>2. Lacks(in, Listing) /\ Lacks(default, Listing) /\ Lacks(end, Listing)
  <2>1. {"INSERT", "DEFAULT VALUES", "RETURNING"} \subseteq ClauseNames \ Listing
    BY DEF ClauseNames, Listing
  <2> QED
    BY <2>1, LacksText, LacksWhen
<1>3. <<"id">> \in Seq(ColumnNames) /\ <<>> \in Seq(ColumnNames) /\ <<"id">> # <<>>
  <2>1. "id" \in ColumnNames
    BY DEF ColumnNames
  <2>2. Len(<<"id">>) = 1 /\ Len(<<>>) = 0
    OBVIOUS
  <2> QED
    BY <2>1, <2>2
<1>4. seq \in Seq(ColumnNames)
    BY <1>3
<1>5. cols = <<>> /\ seqDb => seq = <<"id">>
    BY DEF Range
<1> HIDE DEF seq
<1>6. full \in Seq(ColumnNames) /\ (full = <<>> => cols = <<>> /\ seq = <<>>)
    BY <1>4
<1>7. s.ExprColumns \in Seq(ColumnNames)
    BY DEF Stmt
<1> HIDE DEF full, in, default, end
<1>8. \E C : Gives(mid, C, C) /\ (lost \/ \E l \in C : Range(s.ExprColumns) \subseteq Range(l))
  <2>1. CASE lost
    <3>1. Gives(mid, {}, {})
      BY <1>2, <2>1, ListsNone
    <3> QED
      BY <2>1, <3>1
  <2>2. CASE ~lost
    <3>1. full # <<>>
      BY <1>3, <1>5, <1>6, <2>2
    <3>2. ExprItems(full, s.ExprColumns) = all
      BY <1>6, <1>7, <3>1, ItemsType
    <3>3. Gives(body, {ExprItems(full, s.ExprColumns)}, {all})
      BY <1>6, GivesValues
    <3>4. Range(s.ExprColumns) \subseteq Range(all)
      BY <1>6, <1>7, RangeTail
    <3>5. mid = body
      BY <2>2
    <3> HIDE DEF mid, body, all
    <3>6. Gives(mid, {all}, {all}) /\ \E l \in {all} : Range(s.ExprColumns) \subseteq Range(l)
      BY <3>2, <3>3, <3>4, <3>5
    <3> QED
      BY <3>6
  <2> QED
    BY <2>1, <2>2
<1> HIDE DEF mid
<1>9. PICK C : Gives(mid, C, C) /\ (lost \/ \E l \in C : Range(s.ExprColumns) \subseteq Range(l))
    BY <1>8
<1>10. Gives(in \o mid, C, C)
    BY <1>2, <1>9, GivesAround
<1>11. Gives(in \o mid \o end, C, C)
    BY <1>2, <1>10, GivesAround
<1> QED
    BY <1>1, <1>9, <1>11

\* The keys of a map: the lists agree unless SetExpr names all of them.
LEMMA GivesMap ==
    ASSUME NEW s, Stmt(s), NEW keys \in Seq(ColumnNames)
    PROVE  LET cols == MapColumns(s, keys)
               all == cols \o s.ExprColumns
               items == ExprItems(cols, s.ExprColumns)
           IN  /\ Range(s.ExprColumns) \subseteq Range(all)
               /\ cols # <<>> => items = all
               /\ Gives(GenInsertMapSQL(s, cols), {items}, {all})
               /\ \/ Failed(GenInsertMultipleMapSQL(s, cols))
                  \/ Gives(GenInsertMultipleMapSQL(s, cols), {items}, {all})
<1> DEFINE cols == MapColumns(s, keys)
           e == s.ExprColumns
           all == cols \o e
           items == ExprItems(cols, e)
           in == Text("INSERT")
           head == List("COLUMNS", all)
           row == List("VALUES", items)
           v == InsertValues(s, cols)
           body == head \o v
           none == When(s.cond.valid, Fail)
           multi == GenInsertMultipleMapSQL(s, cols)
           single == GenInsertMapSQL(s, cols)
<1>1. e \in Seq(ColumnNames)
    BY DEF Stmt
<1>2. cols \in Seq(ColumnNames)
    BY FilterProps DEF MapColumns
<1> HIDE DEF cols
<1>3. /\ all \in Seq(ColumnNames) /\ items \in Seq(ColumnNames)
      /\ cols # <<>> => items = all
      /\ Range(e) \subseteq Range(all)
  <2> HIDE DEF e
  <2>1. all \in Seq(ColumnNames)
    BY <1>1, <1>2
  <2>2. items \in Seq(ColumnNames) /\ (cols # <<>> => items = all)
    BY <1>1, <1>2, ItemsType, Zenon
  <2>3. Range(e) \subseteq Range(all)
    BY <1>1, <1>2, RangeTail, Zenon
  <2> QED
    BY <2>1, <2>2, <2>3
<1>4. v \in Texts /\ Gives(body, {items}, {all})
    BY <1>2, GivesValues
<1>5. Lacks(in, Listing)
  <2>1. "INSERT" \in ClauseNames \ Listing
    BY DEF ClauseNames, Listing
  <2> QED
    BY <2>1, LacksText
<1>6. multi = in \o head \o none \o row \o row
    BY Zenon DEF GenInsertMultipleMapSQL
<1>7. single = in \o head \o v
    BY DEF GenInsertMapSQL
<1> HIDE DEF all, items, e
<1>8. in \in Texts /\ head \in Texts /\ row \in Texts /\ none \in Texts
  <2>1. "COLUMNS" \in ClauseNames \ {"ERROR"} /\ "VALUES" \in ClauseNames \ {"ERROR"}
    BY DEF ClauseNames
  <2>2. head \in Texts /\ row \in Texts
    BY <1>3, <2>1, ListText
  <2>3. none \in Texts
    BY FailText, WhenText
  <2> QED
    BY <1>5, <2>2, <2>3 DEF Lacks
<1>9. Gives(single, {items}, {all})
  <2> HIDE DEF in, head, v, single
  <2>1. (in \o head) \o v = in \o (head \o v)
    BY <1>4, <1>8, Associates
  <2>2. single = in \o body
    BY <1>7, <2>1
  <2> HIDE DEF body
  <2> QED
    BY <1>4, <1>5, <2>2, GivesAround
<1>10. s.cond.valid => Failed(multi)
  <2>1. s.cond.valid => none = Fail
    BY DEF When
  <2> HIDE DEF none, in, head, row, multi
  <2>2. in \o head \in Texts /\ in \o head \o none \in Texts /\ in \o head \o none \o row \in Texts
    BY <1>8, Concat
  <2>3. Failed(none) => Failed(in \o head \o none)
    BY <1>8, <2>2, Concat
  <2>4. Failed(in \o head \o none) => Failed(in \o head \o none \o row)
    BY <1>8, <2>2, Concat
  <2>5. Failed(in \o head \o none \o row) => Failed(in \o head \o none \o row \o row)
    BY <1>8, <2>2, Concat
  <2> QED
    BY <1>6, <2>1, <2>3, <2>4, <2>5, FailText
<1>11. ~s.cond.valid => Gives(multi, {items}, {all})
  <2> SUFFICES ASSUME ~s.cond.valid PROVE Gives(multi, {items}, {all})
    OBVIOUS
  <2>1. none = Nothing
    BY DEF When
  <2>2. Gives(head \o row, {items}, {all})
    BY <1>3, GivesLists DEF Given
  <2>3. Lists(row, Given) = {items} /\ Lists(row, {"COLUMNS"}) = {}
    <3> DEFINE k == "VALUES"
    <3>1. k \in {"COLUMNS", "SELECT", "VALUES"} /\ k # "COLUMNS" /\ row = List(k, items)
      OBVIOUS
    <3> HIDE DEF k, row
    <3> QED
      BY <1>3, <3>1, ListsOne
  <2> HIDE DEF none, in, head, row, multi
  <2>4. in \o head \in Texts /\ head \o row \in Texts /\ in \o head \o row \in Texts
    BY <1>8, Concat
  <2>5. (in \o head) \o Nothing = in \o head
    BY <2>4 DEF Texts, Nothing
  <2>6. in \o head \o row = in \o (head \o row)
    BY <1>8, Associates
  <2>7. Gives(in \o head \o row, {items}, {all})
    BY <1>5, <2>2, <2>6, GivesAround
  <2>8. multi = (in \o head \o row) \o row
    BY <1>6, <2>1, <2>5
  <2> DEFINE x == in \o head \o row
  <2>9. x \in Texts /\ Gives(x, {items}, {all}) /\ multi = x \o row
    BY <2>4, <2>7, <2>8
  <2> HIDE DEF x
  <2>10. multi \in Texts /\ \A T : Lists(multi, T) = Lists(x, T) \cup Lists(row, T)
    BY <1>8, <2>9, ListsConcat, Concat
  <2> QED
    BY <2>3, <2>9, <2>10 DEF Gives
<1> QED
    BY <1>3, <1>9, <1>10, <1>11 DEF cols, all, items, e, single, multi

\* What ends an element of a slice on Oracle.
Extra(d) == When(DBType(d) = "oracle", Text("%!(EXTRA)"))

\* The rows of a slice of two structs.
LEMMA MultipleRows ==
    ASSUME NEW s, Good(s), NEW d, NEW B, NEW idZeros \in [1 .. 2 -> B]
    PROVE  WriteInsertMultiple(d, s, idZeros) =
              Text("INSERT") \o List("COLUMNS", MultiColumns(d, s, idZeros[1]))
                \o (Nothing \o List("VALUES", MultiColumns(d, s, idZeros[1]))
                      \o Extra(d) \o List("VALUES", MultiColumns(d, s, idZeros[2]))
                      \o Extra(d))
<1> DEFINE extra == Extra(d)
           row(i) == List("VALUES", MultiColumns(d, s, idZeros[i]))
           G == [p \in Texts \X (1 .. 2) |-> p[1] \o row(p[2]) \o extra]
           rows == CHOOSE g : g = [i \in 0 .. Len(idZeros) |->
                      IF i = 0 THEN Nothing
                      ELSE g[i - 1] \o List("VALUES", MultiColumns(d, s, idZeros[i])) \o extra]
<1>1. Len(idZeros) = 2
  <2>1. idZeros = [i \in 1 .. 2 |-> idZeros[i]]
    OBVIOUS
  <2>2. Len([i \in 1 .. 2 |-> idZeros[i]]) = 2
    OBVIOUS
  <2> QED
    BY <2>1, <2>2
<1>2. WriteInsertMultiple(d, s, idZeros) =
          Text("INSERT") \o List("COLUMNS", MultiColumns(d, s, idZeros[1])) \o rows[Len(idZeros)]
    BY DEF WriteInsertMultiple, Extra
<1>3. extra \in Texts /\ \A i \in 1 .. 2 : row(i) \in Texts
  <2>1. "%!(EXTRA)" \in ClauseNames \ {"ERROR"} /\ "VALUES" \in ClauseNames \ {"ERROR"}
    BY DEF ClauseNames
  <2>2. extra \in Texts
    BY <2>1, PlainText, WhenText DEF Extra
  <2>3. \A i : MultiColumns(d, s, idZeros[i]) \in Seq(ColumnNames)
    BY ColumnsType, FilterProps DEF MultiColumns
  <2> QED
    BY <2>1, <2>2, <2>3, ListText
<1> HIDE DEF extra, row
<1>4. ASSUME NEW v \in Texts, NEW n \in 1 .. 2
      PROVE  G[<<v, n>>] = v \o row(n) \o extra /\ v \o row(n) \o extra \in Texts
  <2> DEFINE p == <<v, n>>
  <2>1. p \in Texts \X (1 .. 2) /\ p[1] = v /\ p[2] = n
    OBVIOUS
  <2> HIDE DEF p
  <2>2. G[p] = p[1] \o row(p[2]) \o extra
    BY <2>1
  <2>3. v \o row(n) \in Texts /\ v \o row(n) \o extra \in Texts
    BY <1>3, Concat
  <2> QED
    BY <2>1, <2>2, <2>3 DEF p
<1> HIDE DEF G
<1>5. PICK g : Recursive(g, Nothing, 2, G) /\ \A n \in 0 .. 2 : g[n] \in Texts
  <2> DEFINE N == 2
             V == Texts
  <2>1. N \in Nat /\ Nothing \in V /\ \A v \in V, n \in 1 .. N : G[<<v, n>>] \in V
    BY <1>4, EmptyText
  <2> HIDE DEF N, V
  <2>2. \E g : Recursive(g, Nothing, N, G) /\ \A n \in 0 .. N : g[n] \in V
    BY <2>1, RecursionExists
  <2> QED
    BY <2>2 DEF N, V
<1>6. g = [i \in 0 .. 2 |-> IF i = 0 THEN Nothing ELSE g[i - 1] \o row(i) \o extra]
  <2>1. g = [n \in 0 .. 2 |-> IF n = 0 THEN Nothing ELSE G[<<g[n - 1], n>>]]
    BY <1>5 DEF Recursive
  <2>2. ASSUME NEW n \in 0 .. 2, n # 0
        PROVE  G[<<g[n - 1], n>>] = g[n - 1] \o row(n) \o extra
    <3>1. n - 1 \in 0 .. 2 /\ n \in 1 .. 2
      BY <2>2
    <3> QED
      BY <1>4, <1>5, <3>1
  <2>3. ASSUME NEW n \in 0 .. 2
        PROVE  (IF n = 0 THEN Nothing ELSE G[<<g[n - 1], n>>])
                 = (IF n = 0 THEN Nothing ELSE g[n - 1] \o row(n) \o extra)
    BY <2>2
  <2> QED
    BY <2>1, <2>3, Zenon
<1>7. rows = [i \in 0 .. 2 |-> IF i = 0 THEN Nothing ELSE rows[i - 1] \o row(i) \o extra]
  <2>1. rows = CHOOSE f : f = [i \in 0 .. 2 |-> IF i = 0 THEN Nothing
                                                ELSE f[i - 1] \o row(i) \o extra]
    BY <1>1, Zenon DEF row
  <2> HIDE DEF rows
  <2> QED
    BY <1>6, <2>1
<1> HIDE DEF rows
<1>8. rows[0] = Nothing /\ rows[1] = rows[0] \o row(1) \o extra
      /\ rows[2] = rows[1] \o row(2) \o extra
  <2>1. \A i \in 0 .. 2 : rows[i] = IF i = 0 THEN Nothing ELSE rows[i - 1] \o row(i) \o extra
    BY <1>7, Zenon
  <2>2. rows[0] = Nothing
    BY <2>1
  <2>3. ASSUME NEW i \in 1 .. 2 PROVE rows[i] = rows[i - 1] \o row(i) \o extra
    <3>1. i \in 0 .. 2 /\ i # 0
      OBVIOUS
    <3> QED
      BY <2>1, <3>1, Zenon
  <2>4. 1 \in 1 .. 2 /\ 2 \in 1 .. 2 /\ 1 - 1 = 0 /\ 2 - 1 = 1
    OBVIOUS
  <2>5. rows[1] = rows[1 - 1] \o row(1) \o extra /\ rows[2] = rows[2 - 1] \o row(2) \o extra
    BY <2>3, <2>4
  <2> QED
    BY <2>2, <2>4, <2>5
<1> QED
  <2> DEFINE w == WriteInsertMultiple(d, s, idZeros)
             in == Text("INSERT")
             head == List("COLUMNS", MultiColumns(d, s, idZeros[1]))
  <2>1. w = in \o head \o rows[Len(idZeros)]
    BY <1>2
  <2> HIDE DEF w, in, head
  <2>2. w = in \o head \o (Nothing \o row(1) \o extra \o row(2) \o extra)
    BY <1>1, <1>8, <2>1
  <2> QED
    BY <2>2, Zenon DEF row, extra, w, in, head

\* Every element of a slice gives what the first one names, unless only one of the two
\* has an id, and no sequence stands for it.
LEMMA GivesMultiple ==
    ASSUME NEW s, Good(s), NEW d, NEW B, NEW idZeros \in [1 .. 2 -> B]
    PROVE  \E L, C : /\ Gives(WriteInsertMultiple(d, s, idZeros), L, C)
                     /\ \/ L = C
                        \/ idZeros[1] # idZeros[2]
                             /\ (DBType(d) \in {"oracle", "dameng"} => s.ColumnMap # {})
<1> DEFINE cols == MultiColumns(d, s, idZeros[1])
           second == MultiColumns(d, s, idZeros[2])
           extra == Extra(d)
           in == Text("INSERT")
           head == List("COLUMNS", cols)
           row == List("VALUES", cols)
           row2 == List("VALUES", second)
           rows == Nothing \o row \o extra \o row2 \o extra
           w == WriteInsertMultiple(d, s, idZeros)
           mixed == idZeros[1] # idZeros[2]
                      /\ (DBType(d) \in {"oracle", "dameng"} => s.ColumnMap # {})
<1>1. second = cols \/ mixed
  <2>1. CASE idZeros[1] = idZeros[2]
    BY <2>1
  <2>2. CASE DBType(d) \in {"oracle", "dameng"} /\ s.ColumnMap = {}
    <3> DEFINE K(z) == {c \in Range(Columns) :
                          IF c = "id" /\ z THEN DBType(d) \in {"oracle", "dameng"}
                          ELSE /\ c # "deleted"
                               /\ c \notin s.OmitColumnMap
                               /\ s.ColumnMap # {} => c \in s.ColumnMap}
               K0 == {c \in Range(Columns) : c # "deleted" /\ c \notin s.OmitColumnMap}
    <3>1. "id" \notin s.OmitColumnMap
      BY DEF Good, Named
    <3>2. \A z : K(z) = K0
      BY <2>2, <3>1
    <3>3. \A z : MultiColumns(d, s, z) = Filter(Columns, K(z))
      BY DEF MultiColumns
    <3> HIDE DEF K, K0
    <3> QED
      BY <3>2, <3>3
  <2> QED
    BY <2>1, <2>2
<1>3. cols \in Seq(ColumnNames) /\ second \in Seq(ColumnNames)
    BY ColumnsType, FilterProps DEF MultiColumns
<1>4. w = in \o head \o rows
    BY MultipleRows
<1> HIDE DEF cols, second, w, mixed
<1>5. Lacks(in, Listing) /\ Lacks(extra, Listing) /\ Lacks(Nothing, Listing)
  <2>1. "INSERT" \in ClauseNames \ Listing /\ "%!(EXTRA)" \in ClauseNames \ Listing
    BY DEF ClauseNames, Listing
  <2>2. Lacks(in, Listing) /\ Lacks(Text("%!(EXTRA)"), Listing)
    BY <2>1, LacksText
  <2> QED
    BY <2>2, EmptyText, LacksWhen DEF Lacks, Nothing, Extra
<1>6. /\ row \in Texts /\ Lists(row, Given) = {cols} /\ Lists(row, {"COLUMNS"}) = {}
      /\ row2 \in Texts /\ Lists(row2, Given) = {second} /\ Lists(row2, {"COLUMNS"}) = {}
  <2> DEFINE k == "VALUES"
  <2>1. k \in {"COLUMNS", "SELECT", "VALUES"} /\ k # "COLUMNS" /\ row = List(k, cols)
        /\ row2 = List(k, second)
    OBVIOUS
  <2> HIDE DEF k, row, row2
  <2> QED
    BY <1>3, <2>1, ListsOne
<1>7. head \in Texts /\ Lists(head, Given) = {} /\ Lists(head, {"COLUMNS"}) = {cols}
  <2> DEFINE k == "COLUMNS"
  <2>1. k \in {"COLUMNS", "SELECT", "VALUES"} /\ k = "COLUMNS" /\ head = List(k, cols)
    OBVIOUS
  <2> HIDE DEF k, head
  <2>2. Lists(head, Given) = {} /\ Lists(head, {"COLUMNS"}) = {cols} /\ head \in Texts
    BY <1>3, <2>1, ListsOne
  <2> QED
    BY <2>2
<1> HIDE DEF in, head, row, row2, extra
<1>8. /\ in \in Texts /\ extra \in Texts /\ Nothing \in Texts
      /\ Lists(in, Given) = {} /\ Lists(in, {"COLUMNS"}) = {}
      /\ Lists(extra, Given) = {} /\ Lists(extra, {"COLUMNS"}) = {}
      /\ Lists(Nothing, Given) = {} /\ Lists(Nothing, {"COLUMNS"}) = {}
    BY <1>5, ListsNone DEF Gives
<1>9. /\ Nothing \o row \in Texts /\ Nothing \o row \o extra \in Texts
      /\ Nothing \o row \o extra \o row2 \in Texts /\ rows \in Texts
      /\ in \o head \in Texts /\ in \o head \o rows \in Texts
    BY <1>6, <1>7, <1>8, Concat
<1>10. \A K : Lists(rows, K) = Lists(Nothing, K) \cup Lists(row, K) \cup Lists(extra, K)
                                 \cup Lists(row2, K) \cup Lists(extra, K)
    BY <1>6, <1>8, <1>9, ListsConcat
<1> HIDE DEF rows
<1>11. \A K : Lists(in \o head \o rows, K) = Lists(in, K) \cup Lists(head, K) \cup Lists(rows, K)
    BY <1>7, <1>8, <1>9, ListsConcat
<1>12. Lists(w, Given) = {cols, second} /\ Lists(w, {"COLUMNS"}) = {cols}
    BY <1>4, <1>6, <1>7, <1>8, <1>10, <1>11
<1>13. Gives(w, {cols, second}, {cols})
    BY <1>4, <1>9, <1>12 DEF Gives
<1>14. {cols, second} = {cols} \/ mixed
    BY <1>1
<1> QED
    BY <1>13, <1>14 DEF w, mixed

\* Each text an insert may send.
LEMMA InsertTexts ==
    ASSUME Good(st), NEW kind \in {"struct", "map", "maps", "structs", "bad"},
           NEW shape \in Shapes(kind)
    PROVE  LET o == Parsed(kind, InsertText(kind, shape))
           IN  \/ Failed(o.w)
               \/ \E L, C :
                    /\ Gives(o.w, L, C)
                    /\ \/ L = C
                       \/ kind = "structs" /\ shape[1] # shape[2]
                            /\ (DBType(dialect) \in {"oracle", "dameng"} => o.st.ColumnMap # {})
                       \/ kind \in {"map", "maps"} /\ MapColumns(o.st, shape) = <<>>
                    /\ \/ kind = "structs"
                       \/ kind = "struct" /\ DBType(dialect) \notin {"oracle", "dameng"}
                            /\ genInsertColumns(o.st, shape[1]) = <<>>
                       \/ \E l \in C : Range(o.st.ExprColumns) \subseteq Range(l)
<1> DEFINE s == IF kind \in {"struct", "structs"} THEN SetRefBean(st) ELSE st
           o == InsertText(kind, shape)
           p == Parsed(kind, o)
           first == genInsertColumns(s, shape[1])
           one == GenInsertSQL(dialect, s, first)
           map == GenInsertMapSQL(s, MapColumns(s, shape))
           maps == GenInsertMultipleMapSQL(s, MapColumns(s, shape))
           slice == WriteInsertMultiple(dialect, s, shape)
<1>1. Good(s) /\ Stmt(s)
    BY GoodRefBean DEF Good
<1>2. \/ kind = "bad"
      \/ o = Refused(s)
      \/ kind = "struct" /\ o = [w |-> one, st |-> s]
      \/ kind = "map" /\ o = [w |-> map, st |-> s]
      \/ kind = "maps" /\ o = [w |-> maps, st |-> s]
      \/ kind = "structs" /\ o = [w |-> slice, st |-> s]
    BY Zenon DEF InsertText
<1> HIDE DEF s, o
<1>3. \/ p = Refused(st) /\ kind = "bad"
      \/ p = o /\ kind # "bad"
    BY DEF Parsed
<1> HIDE DEF p
<1>4. \A x : Refused(x).w = Fail /\ Failed(Fail)
    BY FailText DEF Refused
<1>5. CASE p = Refused(st) \/ p = Refused(s)
  <2>1. Failed(p.w)
    BY <1>4, <1>5
  <2> QED
    BY <2>1 DEF p, o
<1>6. CASE kind = "struct" /\ p = [w |-> one, st |-> s]
  <2>1. first \in Seq(ColumnNames)
    BY ColumnsType, FilterProps DEF genInsertColumns
  <2>2. PICK C : /\ Gives(one, C, C)
                 /\ \/ first = <<>> /\ DBType(dialect) \notin {"oracle", "dameng"}
                    \/ \E l \in C : Range(s.ExprColumns) \subseteq Range(l)
    <3> HIDE DEF first
    <3> QED
      BY <1>1, <2>1, GivesInsert
  <2>3. p.w = one /\ p.st = s
    <3> HIDE DEF one
    <3> QED
      BY <1>6
  <2>4. /\ Gives(p.w, C, C)
        /\ \/ genInsertColumns(p.st, shape[1]) = <<>>
                /\ DBType(dialect) \notin {"oracle", "dameng"}
           \/ \E l \in C : Range(p.st.ExprColumns) \subseteq Range(l)
    <3> HIDE DEF one
    <3> QED
      BY <2>2, <2>3
  <2> QED
    BY <1>6, <2>4, Zenon DEF p, o
<1>7. CASE kind \in {"map", "maps"} /\ (p = [w |-> map, st |-> s] \/ p = [w |-> maps, st |-> s])
  <2> DEFINE cols == MapColumns(s, shape)
             all == cols \o s.ExprColumns
             items == ExprItems(cols, s.ExprColumns)
  <2>1. shape \in Seq(ColumnNames)
    <3>1. shape \in {<<"a">>, <<"a", "b">>}
      BY <1>7 DEF Shapes
    <3>2. "a" \in ColumnNames /\ "b" \in ColumnNames
      BY DEF ColumnNames
    <3>3. <<"a">> \in Seq(ColumnNames) /\ <<"a", "b">> \in Seq(ColumnNames)
      BY <3>2
    <3> QED
      BY <3>1, <3>3
  <2>2. /\ Range(s.ExprColumns) \subseteq Range(all)
        /\ cols # <<>> => items = all
        /\ Gives(map, {items}, {all})
        /\ Failed(maps) \/ Gives(maps, {items}, {all})
    BY <1>1, <2>1, GivesMap
  <2>3. p.st = s /\ (p.w = map \/ p.w = maps)
    <3> HIDE DEF map, maps
    <3> QED
      BY <1>7
  <2>4. MapColumns(p.st, shape) = cols
    BY <2>3
  <2> HIDE DEF map, maps, all, items, cols
  <2>5. Failed(p.w) \/ Gives(p.w, {items}, {all})
    BY <2>2, <2>3
  <2>6. {items} = {all} \/ cols = <<>>
    BY <2>2
  <2>7. \E l \in {all} : Range(p.st.ExprColumns) \subseteq Range(l)
    BY <2>2, <2>3
  <2> QED
    BY <1>7, <2>4, <2>5, <2>6, <2>7, Zenon DEF p, o
<1>8. CASE kind = "structs" /\ p = [w |-> slice, st |-> s]
  <2> DEFINE B == BOOLEAN
  <2>1. shape \in [1 .. 2 -> B]
    BY <1>8 DEF Shapes
  <2> HIDE DEF B
  <2>2. PICK L, C : /\ Gives(slice, L, C)
                    /\ \/ L = C
                       \/ shape[1] # shape[2]
                            /\ (DBType(dialect) \in {"oracle", "dameng"} => s.ColumnMap # {})
    BY <1>1, <2>1, GivesMultiple
  <2> HIDE DEF slice
  <2>3. p.w = slice /\ p.st = s
    BY <1>8
  <2> QED
    BY <1>8, <2>2, <2>3, Zenon DEF p, o
<1> QED
    BY <1>2, <1>3, <1>5, <1>6, <1>7, <1>8, Zenon

LEMMA InsertAgrees == ASSUME Good(st), Insert \/ InsertOne PROVE InsertListsAgree'
<1>1. PICK kind \in {"struct", "map", "maps", "structs", "bad"} :
         \E shape \in Shapes(kind) : \E resets, auto, res :
            Return("Insert", <<kind, shape>>, Parsed(kind, InsertText(kind, shape)),
                   resets, auto, res)
    BY InsertCall
<1> PICK shape \in Shapes(kind) : \E resets, auto, res :
            Return("Insert", <<kind, shape>>, Parsed(kind, InsertText(kind, shape)),
                   resets, auto, res)
    BY <1>1, Zenon
<1>2. PICK resets, auto, res :
            Return("Insert", <<kind, shape>>, Parsed(kind, InsertText(kind, shape)),
                   resets, auto, res)
    OBVIOUS
<1> DEFINE bean == <<kind, shape>>
           o == Parsed(kind, InsertText(kind, shape))
           mixed == kind = "structs" /\ shape[1] # shape[2]
                      /\ (DBType(dialect) \in {"oracle", "dameng"} => o.st.ColumnMap # {})
           empty == kind \in {"map", "maps"} /\ MapColumns(o.st, shape) = <<>>
           loses == \/ kind = "structs"
                    \/ kind = "struct" /\ DBType(dialect) \notin {"oracle", "dameng"}
                         /\ genInsertColumns(o.st, shape[1]) = <<>>
<1>3. \/ Failed(o.w)
      \/ \E L, C : /\ Gives(o.w, L, C)
                   /\ L = C \/ mixed \/ empty
                   /\ loses \/ \E l \in C : Range(o.st.ExprColumns) \subseteq Range(l)
  <2>1. \/ Failed(o.w)
        \/ \E L, C :
              /\ Gives(o.w, L, C)
              /\ \/ L = C
                 \/ kind = "structs" /\ shape[1] # shape[2]
                      /\ (DBType(dialect) \in {"oracle", "dameng"} => o.st.ColumnMap # {})
                 \/ kind \in {"map", "maps"} /\ MapColumns(o.st, shape) = <<>>
              /\ \/ kind = "structs"
                 \/ kind = "struct" /\ DBType(dialect) \notin {"oracle", "dameng"}
                      /\ genInsertColumns(o.st, shape[1]) = <<>>
                 \/ \E l \in C : Range(o.st.ExprColumns) \subseteq Range(l)
    BY InsertTexts
  <2> HIDE DEF o
  <2> QED
    BY <2>1, Zenon
<1>4. Return("Insert", bean, o, resets, auto, res) /\ bean[1] = kind /\ bean[2] = shape
    BY <1>2
<1> HIDE DEF bean, o
<1>5. Recorded("Insert", bean, o, res) /\ dialect' = dialect
    BY <1>4, ReturnAsks
<1>6. last'.w = o.w /\ last'.st = o.st /\ last'.bean = bean /\ last'.err = Failed(o.w)
    BY <1>5 DEF Recorded
<1>7. MixedIds' <=> mixed
  <2>1. MixedIds' <=> (/\ last'.bean[1] = "structs" /\ last'.bean[2][1] # last'.bean[2][2]
                       /\ DBType(dialect') \in {"oracle", "dameng"} => last'.st.ColumnMap # {})
    BY DEF MixedIds
  <2> QED
    BY <1>4, <1>5, <1>6, <2>1
<1>8. EmptyItem' <=> empty
  <2>1. EmptyItem' <=> last'.bean[1] \in {"map", "maps"}
                         /\ MapColumns(last'.st, last'.bean[2]) = <<>>
    BY DEF EmptyItem
  <2> QED
    BY <1>4, <1>6, <2>1
<1>9. LosesExprs' <=> loses
  <2>1. LosesExprs' <=>
          (\/ /\ last'.bean[1] = "struct" /\ DBType(dialect') \notin {"oracle", "dameng"}
              /\ genInsertColumns(last'.st, last'.bean[2][1]) = <<>>
           \/ last'.bean[1] = "structs")
    BY DEF LosesExprs
  <2> QED
    BY <1>4, <1>5, <1>6, <2>1
<1> HIDE DEF mixed, empty, loses
<1> SUFFICES ASSUME Sent'
             PROVE  /\ \/ MixedIds' \/ EmptyItem'
                       \/ Lists(last'.w, {"SELECT", "VALUES"}) = Lists(last'.w, {"COLUMNS"})
                    /\ \/ LosesExprs'
                       \/ \A c \in Range(last'.st.ExprColumns) :
                             \E cols \in Lists(last'.w, {"COLUMNS"}) : c \in Range(cols)
    BY DEF InsertListsAgree
<1>10. ~Failed(o.w)
    BY <1>6 DEF Sent
<1>11. PICK L, C : /\ Gives(o.w, L, C)
                   /\ L = C \/ mixed \/ empty
                   /\ loses \/ \E l \in C : Range(o.st.ExprColumns) \subseteq Range(l)
    BY <1>3, <1>10, Zenon
<1>12. Lists(o.w, {"SELECT", "VALUES"}) = L /\ Lists(o.w, {"COLUMNS"}) = C
    BY <1>11 DEF Gives, Given
<1>13. mixed \/ empty \/ Lists(last'.w, {"SELECT", "VALUES"}) = Lists(last'.w, {"COLUMNS"})
    BY <1>6, <1>11, <1>12
<1>14. loses \/ \A c \in Range(last'.st.ExprColumns) :
                   \E cols \in Lists(last'.w, {"COLUMNS"}) : c \in Range(cols)
  <2>1. CASE \E l \in C : Range(o.st.ExprColumns) \subseteq Range(l)
    BY <1>6, <1>12, <2>1
  <2> QED
    BY <1>11, <2>1
<1> QED
    BY <1>7, <1>8, <1>9, <1>13, <1>14, Zenon

-----------------------------------------------------------------------------
(* The invariant that says how the text is put together.                    *)

RightText == ClausesInOrder /\ SetOnce /\ InsertListsAgree
TextInv == Named(st) /\ RightText

\* Only an UPDATE assigns columns, and only an INSERT names them.
LEMMA TextSilent ==
    /\ ~Selects => ClausesInOrder
    /\ ~(Sent /\ last.op = "Update") => SetOnce
    /\ ~(Sent /\ last.op = "Insert") => InsertListsAgree
BY DEF ClausesInOrder, SetOnce, InsertListsAgree

LEMMA TextSilentNext ==
    /\ ~Selects' => ClausesInOrder'
    /\ ~(Sent' /\ last'.op = "Update") => SetOnce'
    /\ ~(Sent' /\ last'.op = "Insert") => InsertListsAgree'
BY DEF ClausesInOrder, SetOnce, InsertListsAgree

\* Where the other calls leave the two properties to the operation they record.
LEMMA UpdateOrInsert ==
    ASSUME DatabaseCall
    PROVE  \/ Update \/ Insert \/ InsertOne
           \/ ~Sent' \/ last'.op \notin {"Update", "Insert"}
<1>1. CASE Get \/ Find \/ FindAndCount \/ Iterate \/ Delete
    BY <1>1, CallNames
<1>2. CASE Count
  <2>1. last'.op = "Count"
    BY <1>2, CallAsks DEF Count
  <2> QED
    BY <2>1
<1>3. CASE Sum
    BY <1>3, CallAsks DEF Sum
<1>4. CASE Exist
    BY <1>4, CallAsks DEF Exist
<1>5. CASE Query
    BY <1>5, CallAsks DEF Query
<1>6. CASE Exec
    BY <1>6, CallAsks DEF Exec
<1>7. CASE OpenRows
  <2>1. last'.op = "Rows"
    BY <1>7 DEF OpenRows
  <2> QED
    BY <2>1
<1>8. CASE RowsClose
  <2>1. last'.op = "RowsClose"
    BY <1>8 DEF RowsClose
  <2> QED
    BY <2>1
<1>9. CASE RowsScan
    BY <1>9 DEF RowsScan, Sent
<1> QED
    BY <1>1, <1>2, <1>3, <1>4, <1>5, <1>6, <1>7, <1>8, <1>9 DEF DatabaseCall

LEMMA InitText == Init => TextInv
<1> SUFFICES ASSUME Init PROVE TextInv
    OBVIOUS
<1>1. ~Sent
    BY DEF Init, Sent
<1>2. Named(st)
    BY DEF Init, Fresh, Named
<1> QED
    BY <1>1, <1>2, TextSilent DEF TextInv, RightText, Selects

LEMMA NextText == CallsInv /\ PagesInv /\ TextInv /\ [Next]_vars => TextInv'
<1> SUFFICES ASSUME CallsInv, PagesInv, TextInv, [Next]_vars PROVE TextInv'
    OBVIOUS
<1>0. Base /\ Asks /\ Good(st) /\ Named(st) /\ RightText
    BY DEF CallsInv, Base, PagesInv, TextInv, Good
<1>1. CASE UNCHANGED vars
  <2>1. last' = last /\ dialect' = dialect /\ st' = st
    BY <1>1 DEF vars
  <2>2. RightText'
    BY <1>0, <2>1 DEF RightText, ClausesInOrder, Selects, LegacySorts, SetOnce, SetsTwice,
                      InsertListsAgree, MixedIds, EmptyItem, LosesExprs, Sent
  <2>3. Named(st)'
    BY <1>0, <2>1 DEF Named
  <2> QED
    BY <2>2, <2>3 DEF TextInv
<1>2. CASE ChainedCall \/ Returned \/ RowsScan \/ RowsClose
  <2>1. last' = NoCall \/ last'.op = "RowsClose"
    <3>1. CASE ChainedCall
      BY <1>0, <3>1, ChainedAsks
    <3> QED
      BY <1>2, <3>1 DEF Returned, RowsScan, RowsClose
  <2>2. Named(st)'
    <3>1. CASE ChainedCall
      BY <1>0, <3>1, ChainedNamed
    <3>2. CASE Returned
      BY <1>0, <3>2 DEF Returned, Named
    <3>3. CASE RowsClose
      <4>1. st' = Reset(st) \/ st' = st
        BY <3>3 DEF RowsClose
      <4>2. Named(Reset(st))
        BY <1>0, GoodReset DEF Good
      <4> QED
        BY <1>0, <4>1, <4>2 DEF Named
    <3>4. CASE RowsScan
      <4>1. st' = SetRefBean(st)
        BY <3>4 DEF RowsScan
      <4>2. Named(SetRefBean(st))
        BY <1>0, GoodRefBean DEF Good
      <4> QED
        BY <4>1, <4>2 DEF Named
    <3> QED
      BY <1>2, <3>1, <3>2, <3>3, <3>4
  <2>3. ~Selects' /\ ~(Sent' /\ last'.op = "Update") /\ ~(Sent' /\ last'.op = "Insert")
    BY <2>1 DEF Selects, Sent, Reads
  <2> QED
    BY <2>2, <2>3, TextSilentNext DEF TextInv, RightText
<1>3. CASE DatabaseCall /\ ~RowsClose /\ ~RowsScan
  <2>1. Orderly
    BY <1>0, <1>3, GetOrderly, FindOrderly, CountOrderly, SumOrderly, ExistOrderly, QueryOrderly,
       ExecOrderly, FindAndCountOrderly, IterateOrderly, RowsOrderly, UpdateOrderly,
       DeleteOrderly, InsertOrderly
       DEF DatabaseCall
  <2>2. SetOnce' /\ InsertListsAgree'
    <3>1. CASE Update
      <4>1. last'.op = "Update"
        BY <3>1, CallNames
      <4> QED
        BY <1>0, <3>1, <4>1, UpdateSetsOnce, TextSilentNext
    <3>2. CASE Insert \/ InsertOne
      <4>1. last'.op = "Insert"
        BY <3>2, CallAsks, ReturnAsks DEF Insert, InsertOne
      <4> QED
        BY <1>0, <3>2, <4>1, InsertAgrees, TextSilentNext
    <3> QED
      BY <1>3, <3>1, <3>2, UpdateOrInsert, TextSilentNext
  <2> QED
    BY <2>1, <2>2 DEF Orderly, TextInv, RightText
<1> QED
  <2>1. ChainedCall \/ DatabaseCall \/ Returned \/ UNCHANGED vars
    BY DEF Next
  <2> QED
    BY <1>1, <1>2, <1>3, <2>1

-----------------------------------------------------------------------------
(* The theorems.                                                            *)

LEMMA InitInv == Init => CallsInv
<1> SUFFICES ASSUME Init PROVE CallsInv
    OBVIOUS
<1>1. Stmt(st) /\ last = NoCall
    BY FreshStmt DEF Init
<1>2. /\ asked \in [cond : Conds, id : BOOLEAN, stale : BOOLEAN] /\ asked.id = FALSE
      /\ asked.cond = NewCond /\ st.cond = NewCond
    BY CondTypes DEF Init, NothingAsked, Fresh
<1>3. {autoResetStatement, isAutoClose, isClosed, rowsOpen} \subseteq BOOLEAN
    BY Zenon DEF Init
<1>6. dialect \in Dialects
    BY DEF Init
<1>7. chained \in 0 .. MaxChain + 1
    BY BoundsAssumption DEF Init
<1>8. /\ ~asked.stale => st.cond = asked.cond /\ (asked.id => st.idParam # 0)
      /\ rowsOpen => asked.cond = NewCond /\ asked.id = FALSE
    BY <1>2
<1>5. Base
    BY <1>1, <1>2, <1>3, <1>6, <1>7, <1>8, Zenon DEF Base
<1>4. Returns
    BY <1>1 DEF Returns, CondsRestrict, DeletedHidden, CleanAfterCall, Selects, Sent
<1> QED
    BY <1>4, <1>5 DEF CallsInv

LEMMA NextInv == CallsInv /\ [Next]_vars => CallsInv'
<1> SUFFICES ASSUME CallsInv, [Next]_vars PROVE CallsInv'
    OBVIOUS
<1>0. Base
    BY DEF CallsInv
<1>1. CASE UNCHANGED vars
    BY <1>1 DEF vars, CallsInv, Base, Stmt, Returns, CondsRestrict, DeletedHidden, CleanAfterCall,
                Selects, Sent, UpdatesAll, IgnoresID, NoBean, SeesDeleted, DBType,
                WhereRows
<1>2. CASE ChainedCall
    BY <1>0, <1>2, ChainedInv
<1>3. CASE Returned
    BY <1>0, <1>3, ReturnedInv
<1>4. CASE DatabaseCall
    BY <1>0, <1>4, GetInv, FindInv, CountInv, SumInv, ExistInv, QueryInv, ExecInv,
       FindAndCountInv, IterateInv, OpenRowsInv, RowsScanInv, RowsCloseInv, UpdateInv, DeleteInv,
       InsertInv
       DEF DatabaseCall
<1> QED
    BY <1>1, <1>2, <1>3, <1>4 DEF Next

LEMMA AlwaysCallsInv == Spec => []CallsInv
BY InitInv, NextInv, PTL DEF Spec

\* The statement keeps all its fields through every chained call, every database call and
\* every reset; the page it asks for stays a page, and the flags stay flags.
THEOREM CallsTyped == Spec => []TypeOK
<1>1. CallsInv => TypeOK
    BY FreshStmt DEF CallsInv, Base, TypeOK, Stmt
<1> QED
    BY <1>1, AlwaysCallsInv, PTL

\* No call reads or changes a record that the chained conditions or ID exclude: for every
\* table, every meaning of the conditions, every dialect and every sequence of calls, but
\* for UPDATE on SQL Server with an ORDER BY and no limit.
THEOREM ConditionsRestrict == Spec => []CondsRestrict
<1>1. CallsInv => CondsRestrict
    BY DEF CallsInv, Returns
<1> QED
    BY <1>1, AlwaysCallsInv, PTL

\* No call that knows the table reads or changes a soft-deleted record, unless Unscoped
\* was chained, or it is one of the calls that leave the deleted column alone.
THEOREM SoftDeletedHidden == Spec => []DeletedHidden
<1>1. CallsInv => DeletedHidden
    BY DEF CallsInv, Returns
<1> QED
    BY <1>1, AlwaysCallsInv, PTL

\* After a database call the statement is fresh but for its index hints: resetStatement
\* is on every path but those of the failures KeepsStatement names.
THEOREM CallsLeaveClean == Spec => []CleanAfterCall
<1>1. CallsInv => CleanAfterCall
    BY DEF CallsInv, Returns
<1> QED
    BY <1>1, AlwaysCallsInv, PTL

LEMMA AlwaysPages == Spec => []PagesInv
BY InitPages, NextPages, AlwaysCallsInv, PTL DEF Spec

\* Get and Find return the page that was asked for, of the records that satisfy the
\* condition, in the order asked for: for every table, whether the dialect writes the page
\* as LIMIT, OFFSET and FETCH, TOP, ROWNUM or a subquery, but for legacy Oracle with ORDER BY.
THEOREM PagesRight == Spec => []PageIsRight
<1>1. PagesInv => PageIsRight
    BY DEF PagesInv, RightRecords
<1> QED
    BY <1>1, AlwaysPages, PTL

\* Update and Delete with a limit change as many of the records that satisfy the condition
\* as the limit allows, by LIMIT, TOP, ROWNUM or a subquery on the key, but for Delete with
\* a condition on PostgreSQL and SQLite.
THEOREM LimitsExact == Spec => []LimitExact
<1>1. PagesInv => LimitExact
    BY DEF PagesInv, RightRecords
<1> QED
    BY <1>1, AlwaysPages, PTL

\* FindAndCount returns the number of all records that satisfy the condition, also where
\* it infers it from a page that is not full instead of counting.
THEOREM TotalsRight == Spec => []FindAndCountTotal
<1>1. PagesInv => FindAndCountTotal
    BY DEF PagesInv, RightRecords
<1> QED
    BY <1>1, AlwaysPages, PTL

\* Iterate with a buffer visits what it visits without one, whatever the size of the
\* buffer, the limit and the table: no record is left out or visited twice between pages,
\* but for a limit with an offset, and legacy Oracle with ORDER BY.
THEOREM BufferedRight == Spec => []BufferedAsUnbuffered
<1>1. PagesInv => BufferedAsUnbuffered
    BY DEF PagesInv, RightRecords
<1> QED
    BY <1>1, AlwaysPages, PTL

LEMMA AlwaysText == Spec => []TextInv
BY InitText, NextText, AlwaysCallsInv, AlwaysPages, PTL DEF Spec

\* The clauses of every statement sent to select, update or delete records, and of the
\* subqueries in it, are in the order the databases accept: for every dialect, every page
\* and every combination of chained calls, but for ORDER BY with GROUP BY in the page of a
\* legacy SQL Server.
THEOREM ClausesOrdered == Spec => []ClausesInOrder
<1>1. TextInv => ClausesInOrder
    BY DEF TextInv, RightText
<1> QED
    BY <1>1, AlwaysText, PTL

\* No column is assigned twice by an UPDATE, however the bean, Cols, Omit, AllCols, Incr,
\* Decr, SetExpr, the automatic time and the version come together, but for the version
\* column named in Cols, and a map next to Decr of one of its keys.
THEOREM ColumnsSetOnce == Spec => []SetOnce
<1>1. TextInv => SetOnce
    BY DEF TextInv, RightText
<1> QED
    BY <1>1, AlwaysText, PTL

\* Every row of an INSERT gives a value for the columns it names, in their order, the
\* sequence for the id and the expressions of SetExpr included, but for a slice of structs
\* of which only some have an id.
THEOREM InsertListsMatch == Spec => []InsertListsAgree
<1>1. TextInv => InsertListsAgree
    BY DEF TextInv, RightText
<1> QED
    BY <1>1, AlwaysText, PTL
=============================================================================

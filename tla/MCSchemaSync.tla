---------------------------- MODULE MCSchemaSync ----------------------------
(* Two instances with seven versions of a struct, and one with a column of each type. *)
EXTENDS SchemaSync

CONSTANTS p1, p2

Field(name, def) == [name |-> name, def |-> def]
Index(type, name, cols) == [type |-> type, name |-> name, cols |-> cols]
Struct(cols, idx) == [cols |-> cols, idx |-> idx]
Noted(def) == [def EXCEPT !.comment = "c"]
Json(def) == [def EXCEPT !.isJSON = TRUE]

Id == [Column("BIGINT", 0, 0) EXCEPT !.isAutoIncrement = TRUE, !.isPrimaryKey = TRUE]
Varchar(n) == Column("VARCHAR", n, 0)

Versions ==
    <<Struct(<<Field("id", Id), Field("name", Varchar(10))>>,
            {Index("index", "name", <<"name">>)}),
     Struct(<<Field("id", Id), Field("name", Varchar(10)), Field("note", Column("TEXT", 0, 0))>>,
            {Index("unique", "name", <<"name">>)}),
     Struct(<<Field("id", Id), Field("name", Noted(Varchar(10))),
              Field("age", Noted(Column("INT", 0, 0)))>>,
            {Index("index", "na", <<"name">>)}),
     Struct(<<Field("id", Noted(Id)), Field("name", Noted(Varchar(5)))>>,
            {Index("index", "na", <<"name", "id">>), Index("unique", "u", <<"name">>)}),
     Struct(<<Field("id", Id), Field("note", Varchar(10))>>, {}),
     Struct(<<Field("id", Id), Field("note", Column("TEXT", 0, 0))>>,
            {Index("index", "note", <<"note">>)}),
     Struct(<<Field("id", Id), Field("note", Varchar(10))>>,
            {Index("index", "note", <<"note">>)})>>

\* The first four with each other; a VARCHAR that becomes TEXT, that becomes TEXT with an
\* index, and that has an index before it becomes TEXT.
Pairs == {w \in (1..4) \X (1..4) : w[1] <= w[2]}
TextPairs == {<<2, 5>>, <<5, 6>>, <<6, 7>>}

Options(c, i, d) == [ignoreConstrains |-> c, ignoreIndices |-> i, ignoreDropIndices |-> d]

Types == ColumnTypes \ {"VARCHAR", "CHAR", "NUMERIC", "DECIMAL", "DATETIME", "VARBINARY",
                        "NVARCHAR", "JSON"}
Sizes == {Column("VARCHAR", 10, 0), Column("CHAR", 10, 0), Column("NUMERIC", 10, 2),
          Column("DECIMAL", 10, 2), Column("DATETIME", 0, 0), Column("DATETIME", 3, 0),
          Column("TIMESTAMP", 5, 0), Column("TIME", 6, 0), Column("VARBINARY", 10, 0),
          Column("BINARY", 10, 0), Column("NVARCHAR", 10, 0), Column("TIMESTAMPZ", 3, 0),
          Column("UNSIGNED_FLOAT", 10, 0), Column("UNSIGNED_FLOAT", 10, 2)}
Jsons == {Json(Column("JSON", 0, 0)), Json(Column("LONGTEXT", 0, 0))}
OneColumn == {Struct(<<Field("c", c)>>, {}) :
                 c \in {Column(t, 0, 0) : t \in Types} \cup Sizes \cup Jsons}
JsonNoted == Struct(<<Field("c", Noted(Json(Column("LONGTEXT", 0, 0))))>>, {})
JsonPlain == Struct(<<Field("c", Json(Column("JSON", 0, 0)))>>, {})

Default == Options(FALSE, FALSE, FALSE)
Combinations ==
    {<<d, Default>> : d \in Dialects}
    \cup {<<"mysql", Options(FALSE, FALSE, TRUE)>>, <<"mysql", Options(TRUE, TRUE, FALSE)>>,
          <<"postgres", Options(FALSE, FALSE, TRUE)>>, <<"oracle", Options(TRUE, FALSE, FALSE)>>}

\* The instances are alike, so a pair of versions in one order stands for both.
Setup(c, s, t) == [dialect |-> c[1], opts |-> c[2], struct |-> (p1 :> s) @@ (p2 :> t)]
MCSetups ==
    {Setup(c, Versions[v[1]], Versions[v[2]]) : c \in Combinations, v \in Pairs}
    \cup {Setup(<<d, Default>>, Versions[v[1]], Versions[v[2]]) : d \in Dialects, v \in TextPairs}
    \cup {Setup(<<d, Default>>, s, s) : d \in Dialects, s \in OneColumn}
    \cup {Setup(<<d, Default>>, JsonPlain, JsonNoted) : d \in Dialects}

\* A struct that gained comments and has a shorter VARCHAR.
MCShorter == {Setup(<<"mysql", Default>>, Versions[1], Versions[4])}

\* What the theorems about columns take for granted.
ASSUME SetupsKnown == KnownColumns /\ SameAutoIncrement
=============================================================================

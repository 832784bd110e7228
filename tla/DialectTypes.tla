--------------------------- MODULE DialectTypes ---------------------------
(***************************************************************************)
(* The column types of the seven dialects: SQLType, which turns the type   *)
(* of a column into the text of the DDL, GetColumns, which turns what the  *)
(* catalog of the database reports back into a column, and the comparison  *)
(* Sync makes of the two.                                                  *)
(*                                                                         *)
(* A type text "VARCHAR(10) UNSIGNED" is the record of its name, the       *)
(* numbers in its parentheses and what follows them, with _ for a blank.   *)
(* (MAX) is the number Max.  SQLType also writes the length it settled on  *)
(* into the column; a second call returns the same text, so this is left   *)
(* out.                                                                    *)
(***************************************************************************)
EXTENDS Integers, Sequences, TLC

Max == -1
Empty == ""
Text(base, lens, suffix) == [base |-> base, lens |-> lens, suffix |-> suffix]
Plain(base) == Text(base, <<>>, Empty)

\* The part of schemas.Column that types depend on.  The tags json and jsonb set a flag,
\* beside the type that the tag may name (LONGTEXT JSON).
Column(type, length, length2) ==
    [type |-> type, length |-> length, length2 |-> length2, isAutoIncrement |-> FALSE,
     isPrimaryKey |-> FALSE, isJSON |-> FALSE, isJSONB |-> FALSE, comment |-> Empty]

Lens(c) == IF c.length2 > 0 THEN <<c.length, c.length2>>
           ELSE IF c.length > 0 THEN <<c.length>> ELSE <<>>
Sized(base, c) == Text(base, Lens(c), Empty)

Ints == {"BIT", "TINYINT", "SMALLINT", "MEDIUMINT", "INT", "INTEGER", "BIGINT"}
Blobs == {"TINYBLOB", "BLOB", "MEDIUMBLOB", "LONGBLOB"}
LongTexts == {"TEXT", "MEDIUMTEXT", "LONGTEXT"}
Serials == {"SERIAL", "BIGSERIAL"}

----------------------------------------------------------------------------
(* SQLType *)

\* The signed type of an unsigned one.
Signed == [t \in {"UNSIGNED_INT", "UNSIGNED_BIGINT", "UNSIGNED_MEDIUMINT",
                  "UNSIGNED_SMALLINT", "UNSIGNED_TINYINT", "UNSIGNED_FLOAT"} |->
              CASE t = "UNSIGNED_INT" -> "INT" [] t = "UNSIGNED_BIGINT" -> "BIGINT"
                [] t = "UNSIGNED_MEDIUMINT" -> "MEDIUMINT"
                [] t = "UNSIGNED_SMALLINT" -> "SMALLINT"
                [] t = "UNSIGNED_TINYINT" -> "TINYINT" [] OTHER -> "FLOAT"]

mysqlSQLType(c) ==
    LET t == c.type
        res == CASE t = "BOOL" -> "TINYINT" [] t = "SERIAL" -> "INT"
                 [] t = "BIGSERIAL" -> "BIGINT" [] t = "BYTEA" -> "BLOB"
                 [] t = "TIMESTAMPZ" -> "CHAR" [] t = "NVARCHAR" -> "VARCHAR"
                 [] t = "UUID" -> "VARCHAR" [] t = "JSON" -> "TEXT"
                 [] t \in DOMAIN Signed -> Signed[t]
                 [] OTHER -> t
        length == CASE t = "BOOL" -> 1 [] t = "TIMESTAMPZ" -> 64 [] t = "UUID" -> 40
                    [] res = "BIGINT" /\ c.length <= 0 /\ c.length2 <= 0 -> 20
                    [] OTHER -> c.length
    IN  Text(res, Lens([c EXCEPT !.length = length]),
             IF t \in DOMAIN Signed THEN "_UNSIGNED" ELSE Empty)

postgresSQLType(c) ==
    LET t == c.type
        serial(s, i) == Plain(IF c.isAutoIncrement THEN s ELSE i)
    IN  CASE t \in {"TINYINT", "UNSIGNED_TINYINT"} -> Plain("SMALLINT")
          [] t = "BIT" -> Plain("BOOLEAN")
          [] t \in {"MEDIUMINT", "INT", "INTEGER", "UNSIGNED_MEDIUMINT",
                    "UNSIGNED_SMALLINT"} -> serial("SERIAL", "INTEGER")
          [] t \in {"BIGINT", "UNSIGNED_BIGINT", "UNSIGNED_INT"} ->
                serial("BIGSERIAL", "BIGINT")
          [] t \in Blobs \cup {"BINARY", "VARBINARY"} -> Plain("BYTEA")
          [] t = "TIMESTAMPZ" -> Plain("timestamp_with_time_zone")
          [] t = "UUID" -> Plain("UUID")
          [] t \in {"DOUBLE", "UNSIGNED_FLOAT"} -> Plain("DOUBLE_PRECISION")
          [] t = "BOOL" -> IF c.isAutoIncrement THEN Plain("SERIAL") ELSE Plain("BOOL")
          [] t \in Serials -> Sized(t, c)
          [] t = "DATETIME" -> Sized("TIMESTAMP", c)
          [] t = "FLOAT" -> Sized("REAL", c)
          [] t \in {"TINYTEXT", "MEDIUMTEXT", "LONGTEXT"} -> Sized("TEXT", c)
          [] t = "NCHAR" -> Sized("CHAR", c)
          [] t = "NVARCHAR" -> Sized("VARCHAR", c)
          [] OTHER -> IF c.isAutoIncrement THEN Plain("SERIAL") ELSE Sized(t, c)

sqlite3SQLType(c) ==
    LET t == c.type IN
    Plain(CASE t = "BOOL" -> "INTEGER"
            [] t \in {"DATE", "DATETIME", "TIMESTAMP", "TIME"} -> "DATETIME"
            [] t \in LongTexts \cup {"TIMESTAMPZ", "CHAR", "VARCHAR", "NVARCHAR",
                                     "TINYTEXT", "JSON"} -> "TEXT"
            [] t \in Ints \cup Serials
                     \cup {"UNSIGNED_TINYINT", "UNSIGNED_SMALLINT", "UNSIGNED_INT",
                           "UNSIGNED_BIGINT"} -> "INTEGER"
            [] t \in {"FLOAT", "DOUBLE", "REAL"} -> "REAL"
            [] t \in {"DECIMAL", "NUMERIC"} -> "NUMERIC"
            [] t \in Blobs \cup {"BYTEA", "BINARY", "VARBINARY"} -> "BLOB"
            [] OTHER -> t)

\* With the default of DEFAULT_VARCHAR and DEFAULT_CHAR.
mssqlSQLType(c) ==
    LET t == c.type
        orMax(base) == IF c.length = Max THEN Text(base, <<Max>>, Empty) ELSE Sized(base, c)
    IN  CASE t \in {"BOOL", "BOOLEAN", "BIT"} -> Plain("BIT")
          [] t \in {"SERIAL", "INT", "MEDIUMINT", "SMALLINT", "UNSIGNED_MEDIUMINT",
                    "UNSIGNED_TINYINT", "UNSIGNED_SMALLINT"} -> Plain("INT")
          [] t = "BIGSERIAL" -> Sized("BIGINT", c)
          [] t \in {"BYTEA", "BINARY"} ->
                Sized("VARBINARY", [c EXCEPT !.length = IF @ = 0 THEN 50 ELSE @])
          [] t \in Blobs -> IF c.length = 0 THEN Text("VARBINARY", <<Max>>, Empty)
                                            ELSE Sized("VARBINARY", c)
          [] t \in {"TIMESTAMP", "DATETIME"} -> Plain("DATETIME2")
          [] t = "TIMESTAMPZ" -> Sized("DATETIMEOFFSET", [c EXCEPT !.length = 7])
          [] t \in LongTexts \cup {"TINYTEXT", "JSON"} ->
                Text("VARCHAR", <<Max>> \o Lens(c), Empty)
          [] t \in {"DOUBLE", "UNSIGNED_FLOAT"} -> Sized("REAL", c)
          [] t = "UUID" -> Sized("VARCHAR", [c EXCEPT !.length = 40])
          [] t = "TINYINT" -> Sized("TINYINT", [c EXCEPT !.length = 0])
          [] t \in {"BIGINT", "UNSIGNED_BIGINT", "UNSIGNED_INT"} ->
                Sized("BIGINT", [c EXCEPT !.length = 0])
          [] t \in {"NVARCHAR", "VARCHAR", "CHAR", "NCHAR"} -> orMax(t)
          [] OTHER -> Sized(t, c)

oracleSQLType(c) ==
    LET t == c.type IN
    CASE t = "BOOL" -> Text("NUMBER", <<1, 0>> \o Lens(c), Empty)
      [] t \in Blobs \cup {"BINARY", "VARBINARY", "BYTEA"} -> Plain("BLOB")
      [] t \in Ints \cup Serials \cup {"FLOAT", "DOUBLE", "NUMERIC", "DECIMAL"} ->
            Sized("NUMBER", c)
      [] t \in {"TIME", "DATETIME", "TIMESTAMP"} -> Sized("TIMESTAMP", c)
      [] t = "TIMESTAMPZ" -> Sized("TIMESTAMP_WITH_TIME_ZONE", c)
      [] t \in LongTexts \cup {"JSON"} -> Sized("CLOB", c)
      [] t \in {"CHAR", "VARCHAR", "TINYTEXT"} -> Sized("VARCHAR2", c)
      [] OTHER -> Sized(t, c)

damengSQLType(c) ==
    LET t == c.type IN
    CASE t \in {"TINYINT", "BYTE"} -> Plain("TINYINT")
      [] t \in {"SMALLINT", "MEDIUMINT", "INT", "INTEGER", "UNSIGNED_TINYINT"} ->
            Plain("INTEGER")
      [] t \in Serials \cup {"BIGINT", "UNSIGNED_BIGINT", "UNSIGNED_BIT",
                             "UNSIGNED_INT"} -> Plain("BIGINT")
      [] t \in {"BIT", "BOOL", "BOOLEAN"} -> Plain("BIT")
      [] t = "UUID" -> Sized("VARCHAR", [c EXCEPT !.length = 40])
      [] t = "BINARY" -> IF c.length = 0 THEN Text("BINARY", <<Max>>, Empty)
                                         ELSE Sized(Empty, c)
      [] t \in Blobs \cup {"VARBINARY", "BYTEA"} -> Plain("VARBINARY")
      [] t = "DATE" -> Plain("DATE")
      [] t = "TIME" -> Text("TIME", IF c.length > 0 THEN <<c.length>> ELSE <<>>, Empty)
      [] t \in {"DATETIME", "TIMESTAMP"} -> Sized("TIMESTAMP", c)
      [] t = "TIMESTAMPZ" ->
            IF c.length > 0 THEN Text("TIMESTAMP", <<c.length>>, "_WITH_TIME_ZONE")
                            ELSE Plain("TIMESTAMP_WITH_TIME_ZONE")
      [] t \in {"REAL", "DOUBLE"} -> Sized("REAL", c)
      [] t \in {"NUMERIC", "DECIMAL", "NUMBER"} -> Sized("NUMERIC", c)
      [] t \in {"TEXT", "JSON"} -> Plain("TEXT")
      [] t \in {"MEDIUMTEXT", "LONGTEXT"} -> Sized("CLOB", c)
      [] t \in {"CHAR", "VARCHAR", "TINYTEXT"} -> Sized("VARCHAR2", c)
      [] OTHER -> Sized(t, c)

\* "DATETIME YEAR TO FRACTION" with two blanks before FRACTION is another text.
gbase8sSQLType(c) ==
    LET t == c.type
        serial(s, i) == Plain(IF c.isAutoIncrement THEN s ELSE i)
    IN  CASE t \in Serials -> Sized(t, c)
          [] t \in {"TINYINT", "UNSIGNED_TINYINT", "SMALLINT", "BIT", "UNSIGNED_BIT"} ->
                Plain("SMALLINT")
          [] t \in {"UNSIGNED_SMALLINT", "MEDIUMINT", "UNSIGNED_MEDIUMINT", "INT",
                    "INTEGER"} -> serial("SERIAL", "INT")
          [] t \in {"UNSIGNED_INT", "BIGINT", "UNSIGNED_BIGINT"} ->
                serial("BIGSERIAL", "BIGINT")
          [] t = "REAL" -> Sized("_SMALLFLOAT", c)
          [] t \in {"UNSIGNED_FLOAT", "DOUBLE", "FLOAT"} -> Sized("FLOAT", c)
          [] t \in {"DECIMAL", "NUMERIC", "NUMBER"} -> Sized("NUMERIC", c)
          [] t \in {"MONEY", "SMALLMONEY"} -> Sized("Money", c)
          [] t \in {"BOOL", "BOOLEAN"} -> Text("NUMERIC", <<1, 0>> \o Lens(c), Empty)
          [] t \in {"CHAR", "NCHAR", "UUID"} -> Sized("CHAR", c)
          [] t \in {"VARCHAR", "NVARCHAR", "VARCHAR2"} -> Sized("VARCHAR", c)
          [] t \in {"ENUM", "SET"} -> Text("VARCHAR", <<255>> \o Lens(c), Empty)
          [] t \in LongTexts \cup {"TINYTEXT", "XML", "ARRAY"} -> Sized("TEXT", c)
          [] t \in Blobs \cup {"VARBINARY", "BYTEA"} -> Sized("BLOB", c)
          [] t = "BINARY" -> Sized("BYTE", c)
          [] t \in {"JSON", "JSONB"} -> Sized("JSON", c)
          [] t \in {"DATE", "YEAR"} -> Sized("DATE", c)
          [] t \in {"DATETIME", "SMALLDATETIME", "TIMESTAMP", "TIMESTAMPZ", "TIME"} ->
                IF c.length \in 1..5
                THEN Text("DATETIME_YEAR_TO_FRACTION", <<c.length>>, Empty)
                ELSE Text("DATETIME_YEAR_TO__FRACTION", <<5>>, Empty)
          [] OTHER -> Sized(t, c)

SQLType(d, c) ==
    CASE d = "mysql" -> mysqlSQLType(c) [] d = "postgres" -> postgresSQLType(c)
      [] d = "sqlite3" -> sqlite3SQLType(c) [] d = "mssql" -> mssqlSQLType(c)
      [] d = "oracle" -> oracleSQLType(c) [] d = "dameng" -> damengSQLType(c)
      [] d = "gbase8s" -> gbase8sSQLType(c)

\* The types of schemas.SqlTypes that a column of a struct is given here.
ColumnTypes ==
    Ints \cup Blobs \cup LongTexts \cup DOMAIN Signed
    \cup {"BOOL", "BOOLEAN", "FLOAT", "DOUBLE", "REAL", "NUMERIC", "DECIMAL", "DATE", "TIME",
          "DATETIME", "TIMESTAMP", "TIMESTAMPZ", "CHAR", "VARCHAR", "NVARCHAR", "TINYTEXT",
          "UUID", "BYTEA", "BINARY", "VARBINARY", "JSON"}

AutoTypes == {"SMALLINT", "MEDIUMINT", "INT", "INTEGER", "BIGINT", "UNSIGNED_SMALLINT",
              "UNSIGNED_MEDIUMINT", "UNSIGNED_INT", "UNSIGNED_BIGINT"}

----------------------------------------------------------------------------
(* The catalogs: what the database reports of a column made with a type text. *)

Len1(text) == IF text.lens = <<>> THEN 0 ELSE text.lens[1]
Len2(text) == IF Len(text.lens) < 2 THEN 0 ELSE text.lens[2]

Rename(base, names) == IF base \in DOMAIN names THEN names[base] ELSE base

\* The names under which a database keeps a type.
CatalogNames ==
    [mysql |-> [INTEGER |-> "INT", NUMERIC |-> "DECIMAL", REAL |-> "DOUBLE",
                BOOLEAN |-> "TINYINT"],
     postgres |-> [INTEGER |-> "INTEGER", SERIAL |-> "INTEGER", BIGSERIAL |-> "BIGINT",
                   VARCHAR |-> "CHARACTER_VARYING", CHAR |-> "CHARACTER",
                   TIMESTAMP |-> "TIMESTAMP_WITHOUT_TIME_ZONE", BOOL |-> "BOOLEAN",
                   TIME |-> "TIME_WITHOUT_TIME_ZONE", DECIMAL |-> "NUMERIC"],
     sqlite3 |-> [INTEGER |-> "INTEGER"],
     mssql |-> [INTEGER |-> "INT"],
     oracle |-> [REAL |-> "FLOAT"],
     dameng |-> [INTEGER |-> "INTEGER"],
     gbase8s |-> [b \in {"INT", "NUMERIC", "_SMALLFLOAT"} |->
                     CASE b = "INT" -> "INTEGER" [] b = "NUMERIC" -> "DECIMAL"
                       [] OTHER -> "SMALLFLOAT"]]

\* The sizes sys.columns has for the types of a fixed size.
MssqlSize == [INT |-> 4, BIGINT |-> 8, TINYINT |-> 1, BIT |-> 1, REAL |-> 4, FLOAT |-> 8,
              DATETIME2 |-> 8, DATETIMEOFFSET |-> 10, TIME |-> 5, DATE |-> 3,
              DECIMAL |-> 9, NUMERIC |-> 9]
OracleSize == [NUMBER |-> 22, TIMESTAMP |-> 11, DATE |-> 7, CLOB |-> 4000, BLOB |-> 4000]
\* DATA_LENGTH of dameng is what a value takes, the declared length only for strings.
DamengSize == [TINYINT |-> 1, BIT |-> 1, INTEGER |-> 4, BIGINT |-> 8, REAL |-> 4, FLOAT |-> 8,
               DATE |-> 3, TIME |-> 5, TIMESTAMP |-> 8, TIMESTAMP_WITH_TIME_ZONE |-> 10]

\* data_type (COLUMN_TYPE of MySQL in parts), the length column and, for exact
\* numbers, precision and scale.
Catalog(d, text) ==
    LET name == Rename(text.base, CatalogNames[d])
        is(base, lens, suffix, size) ==
            [type |-> Text(base, lens, suffix), size |-> size,
             precision |-> Len1(text), scale |-> Len2(text)]
        charSize == IF name = "CHARACTER" /\ text.lens = <<>> THEN 1 ELSE Len1(text)
    IN
    CASE d = "mysql" ->
            is(name, IF text.base = "BOOLEAN" THEN <<1>>
                     ELSE IF name = "BINARY" /\ text.lens = <<>> THEN <<1>>
                     ELSE IF name = "FLOAT" /\ Len(text.lens) = 1 THEN <<>>
                     ELSE text.lens,
               text.suffix, IF name \in LongTexts THEN 65535 ELSE 0)
      [] d = "postgres" ->
            is(IF name = "timestamp_with_time_zone" THEN "TIMESTAMP_WITH_TIME_ZONE"
                                                    ELSE name,
               <<>>, Empty, IF name \in {"CHARACTER_VARYING", "CHARACTER"} THEN charSize
                                                                       ELSE 0)
      [] d = "mssql" ->
            is(name, <<>>, Empty, IF name \in DOMAIN MssqlSize THEN MssqlSize[name]
                               ELSE IF name \in {"NVARCHAR", "NCHAR"} /\ Len1(text) > 0
                               THEN 2 * Len1(text) ELSE Len1(text))
      [] d = "oracle" ->
            IF name \in {"TIMESTAMP", "TIMESTAMP_WITH_TIME_ZONE"}
            THEN is("TIMESTAMP", <<6>>, IF name = "TIMESTAMP" THEN Empty ELSE "_WITH_TIME_ZONE",
                    OracleSize["TIMESTAMP"])
            ELSE is(name, <<>>, Empty, IF name \in DOMAIN OracleSize THEN OracleSize[name]
                                                                  ELSE Len1(text))
      [] d = "dameng" ->
            LET base == IF text.suffix = "_WITH_TIME_ZONE" THEN "TIMESTAMP_WITH_TIME_ZONE"
                                                           ELSE name
                size == IF base \in DOMAIN DamengSize THEN DamengSize[base] ELSE Len1(text)
            IN  [is(base, <<>>, Empty, size) EXCEPT
                    !.scale = IF base # "TIMESTAMP" THEN @
                              ELSE IF text.lens = <<>> THEN 6 ELSE Len1(text)]
      [] d = "gbase8s" ->
            IF name \in {"DATETIME_YEAR_TO_FRACTION", "DATETIME_YEAR_TO__FRACTION"}
            THEN [is("DATETIME_YEAR_TO_FRACTION", text.lens, Empty, 0) EXCEPT !.precision = 17,
                                                                           !.scale = 15]
            ELSE IF name \in {"CHAR", "VARCHAR"}
            THEN [is(name, <<>>, Empty, 0) EXCEPT !.precision = 0, !.scale = Len1(text)]
            ELSE is(name, text.lens, Empty, 0)
      [] OTHER -> is(name, text.lens, text.suffix, Len1(text))

\* Large objects, on which the database makes no index (mysql would want the length of a
\* prefix, which CreateIndexSQL does not state).
LargeTypes == [mysql |-> LongTexts \cup Blobs \cup {"TINYTEXT", "JSON"}, postgres |-> {"JSON"},
               sqlite3 |-> {}, mssql |-> {}, oracle |-> {"CLOB", "BLOB"},
               dameng |-> {"TEXT", "CLOB", "BLOB"},
               gbase8s |-> {"TEXT", "BLOB", "BYTE", "JSON"}]
Indexable(d, text) == text.base \notin LargeTypes[d] /\ (d = "mssql" => Len1(text) # Max)

\* The texts the database takes for no type at all: names that SQLType passes on as they
\* are, an empty name, and a VARCHAR2 of no length.
NotAType == [oracle |-> DOMAIN Signed \cup {"NVARCHAR", "BOOLEAN", "UUID"},
             dameng |-> {Empty, "UNSIGNED_SMALLINT", "UNSIGNED_MEDIUMINT", "UNSIGNED_FLOAT"},
             mysql |-> {}, postgres |-> {}, sqlite3 |-> {}, mssql |-> {}, gbase8s |-> {}]
Accepts(d, text) ==
    /\ text.base \notin NotAType[d]
    /\ d = "oracle" /\ text.base = "VARCHAR2" => text.lens # <<>>

----------------------------------------------------------------------------
(* GetColumns.  A name that is not in schemas.SqlTypes is an error there; the     *)
(* tables that CreateTableSQL makes have none.                                    *)

Loaded(name, length, length2) == Column(name, length, length2)

\* The sizes in COLUMN_TYPE, or the maximal length of a text.
mysqlGetColumn(r) ==
    LET name == IF r.type.suffix = "_UNSIGNED"
                THEN CHOOSE t \in DOMAIN Signed : Signed[t] = r.type.base
                ELSE r.type.base
    IN  IF r.type.lens = <<>> /\ name \in LongTexts THEN Loaded(name, r.size, 0)
        ELSE Loaded(name, Len1(r.type), Len2(r.type))

postgresName(base) ==
    CASE base = "CHARACTER_VARYING" -> "VARCHAR" [] base = "CHARACTER" -> "CHAR"
      [] base = "TIMESTAMP_WITHOUT_TIME_ZONE" -> "DATETIME"
      [] base = "TIMESTAMP_WITH_TIME_ZONE" -> "TIMESTAMPZ"
      [] base = "DOUBLE_PRECISION" -> "DOUBLE" [] base = "BOOLEAN" -> "BOOL"
      [] base = "TIME_WITHOUT_TIME_ZONE" -> "TIME" [] OTHER -> base
postgresGetColumn(r) == Loaded(postgresName(r.type.base), r.size, 0)

\* splitColStr and parseString take the second word of the column in the CREATE text.
sqlite3GetColumn(r) ==
    Loaded(IF r.type.base \in DOMAIN Signed THEN "UNSIGNED" ELSE r.type.base, 0, 0)

mssqlGetColumn(r) ==
    LET t == r.type.base
        len == IF t = "DECIMAL" THEN r.precision ELSE r.size
    IN  CASE t = "DATETIMEOFFSET" -> Loaded("TIMESTAMPZ", len, 0)
          [] t \in {"NVARCHAR", "NCHAR"} -> Loaded(t, IF len > 0 THEN len \div 2 ELSE len, 0)
          [] t \in {"DATETIME2", "DATETIME"} -> Loaded("DATETIME", r.scale, 0)
          [] t = "IMAGE" -> Loaded("VARBINARY", len, 0)
          [] OTHER -> Loaded(t, len, IF t = "DECIMAL" THEN r.scale ELSE 0)

oracleName(base) ==
    CASE base \in {"VARCHAR2", "ROWID"} -> "VARCHAR" [] base = "NVARCHAR2" -> "NVARCHAR"
      [] base = "TIMESTAMP_WITH_TIME_ZONE" -> "TIMESTAMPZ" [] base = "NUMBER" -> "DOUBLE"
      [] base \in {"LONG", "LONG_RAW"} -> "TEXT" [] base = "RAW" -> "BINARY"
      [] OTHER -> base
\* The data type is cut at its first parenthesis: a time zone after it is lost.
oracleGetColumn(r) == Loaded(oracleName(r.type.base), r.size, 0)

damengName(base) ==
    CASE base = "TIMESTAMP_WITH_TIME_ZONE" -> "TIMESTAMPZ"
      [] base \in {"LONG", "LONG_RAW", "NCLOB", "CLOB"} -> "TEXT"
      [] base = "RAW" -> "BINARY" [] base = "ROWID" -> "VARCHAR" [] OTHER -> base
damengGetColumn(r) ==
    LET name == damengName(r.type.base)
    IN  Loaded(name, IF name = "TIMESTAMP" THEN r.scale ELSE r.size, 0)

gbase8sName(base) ==
    CASE base = "SERIAL8" -> "BIGSERIAL" [] base \in {"VARCHAR2", "ROWID"} -> "VARCHAR"
      [] base = "NVARCHAR2" -> "NVARCHAR"
      [] base = "TIMESTAMP_WITH_TIME_ZONE" -> "TIMESTAMPZ"
      [] base \in {"DATETIME_YEAR_TO_SECOND", "DATETIME_YEAR_TO_FRACTION"} -> "TIMESTAMP"
      [] base \in {"LONG", "LONG_RAW"} -> "TEXT" [] base \in {"RAW", "BYTE"} -> "BINARY"
      [] base = "SMALLFLOAT" -> "REAL" [] OTHER -> base
gbase8sGetColumn(r) ==
    LET both == r.scale # 0 /\ r.precision # 0
        col == Loaded(gbase8sName(r.type.base),
                      IF both THEN r.precision ELSE r.scale, IF both THEN r.scale ELSE 0)
    IN  [col EXCEPT !.isAutoIncrement = r.type.base \in Serials]

GetColumn(d, r) ==
    CASE d = "mysql" -> mysqlGetColumn(r) [] d = "postgres" -> postgresGetColumn(r)
      [] d = "sqlite3" -> sqlite3GetColumn(r) [] d = "mssql" -> mssqlGetColumn(r)
      [] d = "oracle" -> oracleGetColumn(r) [] d = "dameng" -> damengGetColumn(r)
      [] d = "gbase8s" -> gbase8sGetColumn(r)

----------------------------------------------------------------------------
(* The comparison *)

Alias(d, base) == IF d \in {"mysql", "postgres"} /\ base = "NUMERIC" THEN "DECIMAL" ELSE base

displayWidthNumericTypes == Ints \ {"BIT"}

normalizeColumnType(d, text) ==
    [text EXCEPT !.base = Alias(d, @),
                 !.lens = IF text.base \in displayWidthNumericTypes THEN <<>> ELSE @]

\* The name is the text up to its first parenthesis: without one UNSIGNED is a part of it.
SQLTypeName(text) ==
    [base |-> text.base, suffix |-> IF text.lens = <<>> THEN text.suffix ELSE Empty]

columnUsesCompatibleJSONType(col, text) ==
    IF col.isJSONB THEN text.base = "JSONB" ELSE col.isJSON /\ text.base = "JSON"

\* A mutant: the names alone are not compared.
columnTypesMatchExact(d, col, ori_, expected, current) ==
    \/ expected = current
    \/ columnUsesCompatibleJSONType(col, current)
    \/ columnUsesCompatibleJSONType(ori_, expected)
    \/ normalizeColumnType(d, expected) = normalizeColumnType(d, current)

\* col is the struct's column and ori_ the one that GetColumns loaded.
columnTypesMatch(d, col, ori_, expected, current) ==
    \/ expected = current
    \/ columnUsesCompatibleJSONType(col, current)
    \/ columnUsesCompatibleJSONType(ori_, expected)
    \/ normalizeColumnType(d, expected) = normalizeColumnType(d, current)
    \/ /\ SQLTypeName(current).base = Alias(d, SQLTypeName(expected).base)
       /\ SQLTypeName(current).suffix = SQLTypeName(expected).suffix
=============================================================================

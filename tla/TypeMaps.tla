------------------------------ MODULE TypeMaps ------------------------------
(***************************************************************************)
(* How the five connectors map Arrow types to database types and back, and *)
(* which Arrow types each one can write and read: the match arms and       *)
(* impl lists of the connectors, as tables.                                *)
(*                                                                         *)
(* A table is a record: under each key, the set of names the code maps to  *)
(* that key.  Arrow types have the names of types.rs without `Type', a     *)
(* time unit being part of the name; database types are written with _ for *)
(* a space.  Precision and scale of a decimal, and the size of a           *)
(* FixedSizeBinary (in `p'), are fields of the type.                       *)
(***************************************************************************)
EXTENDS Integers

Ty(name) == [name |-> name, p |-> 0, s |-> 0]
Decimal(name, p, s) == [name |-> name, p |-> p, s |-> s]
FixedSizeBinary(size) == [name |-> "FixedSizeBinary", p |-> size, s |-> 0]

Timestamps == {"TimestampSecond", "TimestampMillisecond",
               "TimestampMicrosecond", "TimestampNanosecond"}
Time32s    == {"Time32Second", "Time32Millisecond"}
Time64s    == {"Time64Microsecond", "Time64Nanosecond"}
Durations  == {"DurationSecond", "DurationMillisecond",
               "DurationMicrosecond", "DurationNanosecond"}
Intervals  == {"IntervalYearMonth", "IntervalDayTime", "IntervalMonthDayNano"}
Texts      == {"Utf8", "LargeUtf8"}
Binaries   == {"Binary", "LargeBinary", "FixedSizeBinary"}
Decimals   == {"Decimal128", "Decimal256"}

None == "none"

Lookup(table, name) ==
  IF \E key \in DOMAIN table : name \in table[key]
  THEN CHOOSE key \in DOMAIN table : name \in table[key]
  ELSE None

Listed(table) == UNION { table[key] : key \in DOMAIN table }

(* The types transport() has a match arm for: all others are todo!().      *)
Transported ==
  {"Boolean", "Int8", "Int16", "Int32", "Int64", "UInt8", "UInt16", "UInt32",
   "UInt64", "Float16", "Float32", "Float64", "Date32", "Date64"}
    \cup Timestamps \cup Time32s \cup Time64s \cup Durations \cup Intervals
    \cup Binaries \cup Texts \cup Decimals

-----------------------------------------------------------------------------
(* PostgreSQL.                                                             *)
PgArrowIntoDb ==
  [ smallint |-> {"Null", "Int8", "Int16", "UInt8"},
    bool     |-> {"Boolean"},
    integer  |-> {"Int32", "UInt16", "Date32"} \cup Time32s,
    bigint   |-> {"Int64", "UInt32", "Date64"}
                   \cup Timestamps \cup Time64s \cup Durations,
    decimal  |-> {"UInt64"} \cup Decimals,
    real     |-> {"Float16", "Float32"},
    double_precision |-> {"Float64"},
    text     |-> Texts,
    bytea    |-> Binaries ]

PgDbIntoArrow ==
  [ Boolean |-> {"boolean", "bool"},
    Int16   |-> {"smallint", "int2"},
    Int32   |-> {"integer", "int4"},
    Int64   |-> {"bigint", "int8"},
    Float32 |-> {"real", "float4"},
    Float64 |-> {"double_precision", "float8"},
    TimestampMicrosecond |-> {"timestamp", "timestamptz"},
    Date32  |-> {"date"},
    Time64Microsecond    |-> {"time"},
    IntervalMonthDayNano |-> {"interval"},
    Binary  |-> {"bytea", "bit", "varbit"},
    Utf8    |-> {"numeric", "decimal", "text", "varchar", "char", "bpchar"} ]

(* The binary format in which a value is sent.                             *)
PgConsumes ==
  [ int2    |-> {"Int8", "Int16", "UInt8"},
    bool    |-> {"Boolean"},
    int4    |-> {"Int32", "UInt16", "Date32"} \cup Time32s,
    int8    |-> {"Int64", "UInt32", "Date64"}
                  \cup Timestamps \cup Time64s \cup Durations,
    numeric |-> {"UInt64"} \cup Decimals,
    float4  |-> {"Float16", "Float32"},
    float8  |-> {"Float64"},
    text    |-> Texts,
    bytea   |-> Binaries ]

PgProduces ==
  {"Boolean", "Int8", "Int16", "Int32", "Int64", "Float32", "Float64", "Binary",
   "LargeBinary", "Utf8", "LargeUtf8", "TimestampMicrosecond",
   "Time64Microsecond", "Date32", "IntervalMonthDayNano"}

-----------------------------------------------------------------------------
(* MySQL.                                                                  *)
MySQLArrowIntoDb_Float64AsFloat ==
  [ tinyint  |-> {"Null", "Boolean", "Int8"},
    smallint |-> {"Int16"},
    integer  |-> {"Int32"},
    bigint   |-> {"Int64"} \cup Timestamps,
    tinyint_unsigned  |-> {"UInt8"},
    smallint_unsigned |-> {"UInt16"},
    integer_unsigned  |-> {"UInt32"},
    bigint_unsigned   |-> {"UInt64"},
    float    |-> {"Float16", "Float32", "Float64"},
    longblob |-> {"Binary"},
    longtext |-> {"Utf8"} ]

MySQLArrowIntoDb ==
  [ tinyint  |-> {"Null", "Boolean", "Int8"},
    smallint |-> {"Int16"},
    integer  |-> {"Int32"},
    bigint   |-> {"Int64"} \cup Timestamps,
    tinyint_unsigned  |-> {"UInt8"},
    smallint_unsigned |-> {"UInt16"},
    integer_unsigned  |-> {"UInt32"},
    bigint_unsigned   |-> {"UInt64"},
    float    |-> {"Float16", "Float32"},
    double   |-> {"Float64"},
    longblob |-> {"Binary"},
    longtext |-> {"Utf8"} ]

(* FixedSizeBinary has a column type for the sizes 1 to 4 only.            *)
MySQLFixedSizeBinary == <<"binary", "blob", "mediumblob", "longblob">>

MySQLDbIntoArrow_NoNewDecimal ==
  [ Null    |-> {"null"},
    Int8    |-> {"tinyint"},
    Int16   |-> {"smallint"},
    Int32   |-> {"integer", "int", "mediumint"},
    Int64   |-> {"bigint"},
    UInt8   |-> {"tinyint_unsigned"},
    UInt16  |-> {"smallint_unsigned"},
    UInt32  |-> {"integer_unsigned", "int_unsigned", "mediumint_unsigned"},
    UInt64  |-> {"bigint_unsigned"},
    Float32 |-> {"real", "float"},
    Float64 |-> {"double"},
    Binary  |-> {"bit", "tinyblob", "mediumblob", "longblob", "blob", "binary",
                 "varbinary"},
    Utf8    |-> {"tinytext", "mediumtext", "longtext", "text", "varchar", "char",
                 "decimal", "json", "date", "datetime", "timestamp"} ]

MySQLDbIntoArrow ==
  [ Null    |-> {"null"},
    Int8    |-> {"tinyint"},
    Int16   |-> {"smallint"},
    Int32   |-> {"integer", "int", "mediumint"},
    Int64   |-> {"bigint"},
    UInt8   |-> {"tinyint_unsigned"},
    UInt16  |-> {"smallint_unsigned"},
    UInt32  |-> {"integer_unsigned", "int_unsigned", "mediumint_unsigned"},
    UInt64  |-> {"bigint_unsigned"},
    Float32 |-> {"real", "float"},
    Float64 |-> {"double"},
    Binary  |-> {"bit", "tinyblob", "mediumblob", "longblob", "blob", "binary",
                 "varbinary"},
    Utf8    |-> {"tinytext", "mediumtext", "longtext", "text", "varchar", "char",
                 "decimal", "newdecimal", "json", "date", "datetime", "timestamp"} ]

MySQLConsumes ==
  [ Int    |-> {"Boolean", "Int8", "Int16", "Int32", "Int64"} \cup Timestamps,
    UInt   |-> {"UInt8", "UInt16", "UInt32", "UInt64"},
    Float  |-> {"Float16", "Float32"},
    Double |-> {"Float64"},
    Bytes  |-> {"Utf8"} \cup Binaries \cup Decimals ]

MySQLProduces ==
  {"Boolean", "Int8", "Int16", "Int32", "Int64", "UInt8", "UInt16", "UInt32",
   "UInt64", "Float32", "Float64", "Binary", "Utf8"}

(* Texts whose collation is binary, as that of MariaDB's alias for JSON:   *)
(* the catalog does not tell them from other texts.                        *)
MySQLBinText ==
  [ char_bin |-> "char", varchar_bin |-> "varchar", tinytext_bin |-> "tinytext",
    text_bin |-> "text", mediumtext_bin |-> "mediumtext", longtext_bin |-> "longtext" ]

(* get_name_of_column_type, by the type of the column the server reports:  *)
(* it tells texts and blobs of one wire type apart by the BINARY flag,     *)
(* which the server sets for a binary collation too.  ENUM and SET are     *)
(* strings on the wire.                                                    *)
MySQLResultName_NoBinaryFlag(type) ==
  CASE type \in {"integer", "int"} -> "int"
    [] type = "integer_unsigned"   -> "int_unsigned"
    [] type = "decimal"            -> "newdecimal"
    [] type \in {"enum", "set", "char_bin", "binary"} -> "char"
    [] type \in {"varchar_bin", "varbinary"}          -> "varchar"
    [] type \in {"tinytext", "mediumtext", "longtext", "text", "tinytext_bin",
                 "text_bin", "mediumtext_bin", "longtext_bin",
                 "tinyblob", "mediumblob", "longblob", "blob"} -> "text"
    [] OTHER -> type

MySQLResultName(type) ==
  CASE type \in {"integer", "int"} -> "int"
    [] type = "integer_unsigned"   -> "int_unsigned"
    [] type = "decimal"            -> "newdecimal"
    [] type \in {"enum", "set"}    -> "char"
    [] type = "char_bin"           -> "binary"
    [] type = "varchar_bin"        -> "varbinary"
    [] type \in {"tinytext", "mediumtext", "longtext", "text"} -> "text"
    [] type \in {"tinyblob", "mediumblob", "longblob", "blob", "tinytext_bin",
                 "text_bin", "mediumtext_bin", "longtext_bin"} -> "blob"
    [] OTHER -> type

-----------------------------------------------------------------------------
(* Microsoft SQL Server.                                                   *)
MssqlArrowIntoDb ==
  [ tinyint  |-> {"Null", "UInt8"},
    bit      |-> {"Boolean"},
    smallint |-> {"Int8", "Int16"},
    int      |-> {"Int32", "UInt16"},
    bigint   |-> {"Int64", "UInt32"} \cup Timestamps,
    decimal  |-> {"UInt64"},
    float24  |-> {"Float16", "Float32"},
    float53  |-> {"Float64"},
    nvarchar |-> Texts ]

CanDecimalFitInNumeric_IgnoresScale(p, s) == p < 38

CanDecimalFitInNumeric(p, s) == p < 38 /\ s >= 0 /\ p >= s

MssqlDbIntoArrow ==
  [ Null    |-> {"null", "intn"},
    Boolean |-> {"bit"},
    UInt8   |-> {"tinyint"},
    Int16   |-> {"smallint"},
    Int32   |-> {"int"},
    Int64   |-> {"bigint"},
    Float32 |-> {"real", "float24"},
    Float64 |-> {"float", "float53"},
    Utf8    |-> {"char", "nchar", "varchar", "nvarchar", "text", "ntext",
                 "decimal", "numeric"} ]

MssqlConsumes ==
  [ U8      |-> {"Null", "UInt8"},
    Bit     |-> {"Boolean"},
    I16     |-> {"Int8", "Int16"},
    I32     |-> {"Int32", "UInt16"},
    I64     |-> {"Int64", "UInt32"} \cup Timestamps,
    Numeric |-> {"UInt64"},
    F32     |-> {"Float16", "Float32"},
    F64     |-> {"Float64"},
    String  |-> Texts ]

MssqlProduces ==
  {"Boolean", "Int16", "Int32", "Int64", "UInt8", "Float32", "Float64"} \cup Texts

(* get_name_of_column_type.  Of the types that are left some have another  *)
(* name here than in the catalog, but type_db_into_arrow has no arm for    *)
(* either name.                                                            *)
MssqlResultName_Floatn(type) ==
  CASE type = "numeric"               -> "decimal"
    [] type \in {"float24", "real"}   -> "float53"
    [] type = "varchar"               -> "bigvarchar"
    [] type = "char"                  -> "bigchar"
    [] OTHER -> type

MssqlResultName(type) ==
  CASE type = "numeric" -> "decimal"
    [] type = "real"    -> "float24"
    [] type = "float"   -> "float53"
    [] type = "varchar" -> "bigvarchar"
    [] type = "char"    -> "bigchar"
    [] OTHER -> type

-----------------------------------------------------------------------------
(* SQLite.                                                                 *)
SQLiteArrowIntoDb ==
  [ NULL    |-> {"Null"},
    INTEGER |-> {"Boolean", "Int8", "Int16", "Int32", "Int64", "UInt8", "UInt16",
                 "UInt32", "Date32", "Date64"}
                  \cup Timestamps \cup Time32s \cup Time64s \cup Durations,
    REAL    |-> {"Float16", "Float32", "Float64"},
    TEXT    |-> {"UInt64"} \cup Texts \cup Decimals,
    BLOB    |-> Binaries ]

SQLiteDbIntoArrow ==
  [ Null |-> {"NULL"}, Int64 |-> {"INTEGER"}, Float64 |-> {"REAL"},
    Utf8 |-> {"TEXT"}, Binary |-> {"BLOB"} ]

(* The storage class of a value.                                           *)
SQLiteConsumes ==
  [ NULL    |-> {"Null"},
    INTEGER |-> {"Boolean", "Int8", "Int16", "Int32", "Int64", "UInt8", "UInt16",
                 "UInt32", "Date32", "Date64"}
                  \cup Timestamps \cup Time32s \cup Time64s \cup Durations,
    REAL    |-> {"Float16", "Float32", "Float64"},
    TEXT    |-> {"UInt64"} \cup Texts \cup Decimals,
    BLOB    |-> Binaries ]

SQLiteProduces == {"Int64", "Float64", "Utf8", "Binary"}

(* decl_ty_to_arrow: the affinity of the declared type.                    *)
SQLiteDeclIntoArrow ==
  [ Int64 |-> {"INTEGER"}, LargeUtf8 |-> {"TEXT"}, LargeBinary |-> {"BLOB"},
    Float64 |-> {"REAL"} ]

-----------------------------------------------------------------------------
(* DuckDB.  type_arrow_into_db has no arm for decimals but todo!().        *)
DuckDBArrowIntoDb ==
  [ BOOLEAN |-> {"Boolean"},
    TINYINT |-> {"Int8"},   SMALLINT  |-> {"Int16"},
    INTEGER |-> {"Int32"},
    BIGINT  |-> {"Null", "Int64"} \cup (Timestamps \ {"TimestampMicrosecond"}),
    UTINYINT |-> {"UInt8"}, USMALLINT |-> {"UInt16"},
    UINTEGER |-> {"UInt32"}, UBIGINT  |-> {"UInt64"},
    REAL    |-> {"Float16", "Float32"},
    DOUBLE  |-> {"Float64"},
    TIMESTAMP |-> {"TimestampMicrosecond"},
    DATE    |-> {"Date32", "Date64"},
    TIME    |-> Time32s \cup Time64s,
    INTERVAL |-> Intervals,
    BLOB    |-> Binaries,
    VARCHAR |-> Texts ]

(* ty_from_arrow in schema.rs: what table_create uses.                     *)
DuckDBTyFromArrow ==
  [ BOOLEAN |-> {"Boolean"},
    TINYINT |-> {"Int8"},   SMALLINT  |-> {"Int16"},
    INTEGER |-> {"Int32"},
    BIGINT  |-> {"Null", "Int64"} \cup (Timestamps \ {"TimestampMicrosecond"}),
    UTINYINT |-> {"UInt8"}, USMALLINT |-> {"UInt16"},
    UINTEGER |-> {"UInt32"}, UBIGINT  |-> {"UInt64"},
    REAL    |-> {"Float16", "Float32"},
    DOUBLE  |-> {"Float64"},
    TIMESTAMP |-> {"TimestampMicrosecond"},
    BLOB    |-> Binaries,
    VARCHAR |-> Texts ]

DuckDBDbIntoArrow ==
  [ Boolean |-> {"BOOLEAN"},
    Int8    |-> {"TINYINT"},  Int16  |-> {"SMALLINT"},
    Int32   |-> {"INTEGER"},  Int64  |-> {"BIGINT"},
    UInt8   |-> {"UTINYINT"}, UInt16 |-> {"USMALLINT"},
    UInt32  |-> {"UINTEGER"}, UInt64 |-> {"UBIGINT"},
    Float32 |-> {"REAL"},     Float64 |-> {"DOUBLE"},
    TimestampMicrosecond |-> {"TIMESTAMP"},
    Date64  |-> {"DATE"},
    Binary  |-> {"BLOB"},     Utf8 |-> {"VARCHAR"} ]

DuckDBConsumes ==
  {"Null", "Boolean", "Int8", "Int16", "Int32", "Int64", "UInt8", "UInt16",
   "UInt32", "UInt64", "Float16", "Float32", "Float64"}
    \cup Timestamps \cup Binaries \cup Texts

(* The Arrow type DuckDB itself gives a result column.                     *)
DuckDBResultType(type) ==
  CASE type = "DATE" -> "Date32"
    [] type = "TIME" -> "Time64Microsecond"
    [] OTHER -> Lookup(DuckDBDbIntoArrow, type)

-----------------------------------------------------------------------------
(* The form in which transport() hands a cell to the client, or None: the  *)
(* consumer is unimplemented!().                                           *)
Wire(conn, type) ==
  LET names == [pg |-> PgConsumes, mysql |-> MySQLConsumes, mssql |-> MssqlConsumes,
                sqlite |-> SQLiteConsumes, duckdb |-> [Value |-> DuckDBConsumes]][conn]
  IN  CASE type.name = "Null" -> "Null"
        [] conn = "mssql" /\ type.name \in Decimals ->
             IF CanDecimalFitInNumeric(type.p, type.s) THEN "Numeric" ELSE "String"
        [] OTHER -> IF type.name \in Transported THEN Lookup(names, type.name) ELSE None
=============================================================================

--------------------------- MODULE TypeRoundtrip ---------------------------
(***************************************************************************)
(* The life of one column of one table: table_create picks a column type   *)
(* for an Arrow field, append sends cells, a query picks an Arrow type for *)
(* the result and reads the cells back, table_get describes the column.    *)
(* Each step consults another of the tables in TypeMaps, written by hand   *)
(* in another file of the connector; they have to agree.                   *)
(*                                                                         *)
(* Alternatively the table exists already, with column types the crate     *)
(* would not choose (Foreign).                                             *)
(*                                                                         *)
(* A cell is null, "small" (every type holds it), "extreme" (only types as *)
(* wide as the field's hold it), or "altered" (another value than sent).   *)
(***************************************************************************)
EXTENDS TypeMaps, Sequences

CONSTANTS
  Cases,      (* [connector, type, nullable, batch]: tables made by         *)
              (* table_create, and the field of the batches appended        *)
  Foreign,    (* [connector, type, nullable]: tables made by somebody else  *)
  MaxRows     (* bound on the rows of a table                               *)

Connector == {"pg", "mysql", "mssql", "sqlite", "duckdb"}

VARIABLES
  client,     \* of which connector
  field,      \* the Arrow field given to table_create, NoField for a foreign table
  batchField, \* the Arrow field of the batches appended
  column,     \* the column's database type and nullability
  sent,       \* the cells appended
  held,       \* the cells the table holds
  result,     \* the field of the query's result, NoField before the query
  read,       \* the cells of the result read so far
  described,  \* the field from table_get, NoField before, Rejected on Err
  progress    \* new, created, queried, refused (Err) or panicked

table == <<client, field, batchField>>
roundtripVars == <<table, column, sent, held, result, read, described, progress>>

NoField  == [type |-> Ty(None), nullable |-> FALSE, metadata |-> FALSE]
Rejected == [type |-> Ty(None), nullable |-> TRUE, metadata |-> FALSE]
Field(type, nullable) == [type |-> type, nullable |-> nullable, metadata |-> FALSE]

(* The types of the crate.  Arrow's decimals have at most as many digits   *)
(* after the point as they have at all.                                    *)
CrateType ==
  { t \in [name : Transported \cup {"Null", "List"}, p : Nat, s : Int] :
      /\ t.name \notin Decimals => t.s = 0
      /\ t.s <= t.p }

(* Batches of another type than the table's: numbers the server refuses if *)
(* the column does not hold them.  (MySQL and DuckDB round floats; SQLite  *)
(* converts whatever its columns' affinities say.)                         *)
Floats == {"Float16", "Float32", "Float64"}
Whole  == Transported \ (Floats \cup Texts \cup Binaries \cup Decimals \cup Intervals)
MayDiffer(conn, type, other) ==
  \/ conn \in {"pg", "mssql"} /\ {type.name, other.name} \subseteq Whole \cup Floats
  \/ conn = "mysql" /\ {type.name, other.name} \subseteq Whole

(* PostgreSQL's small fractions are the subject of NumericCodec.           *)
LegalCase(c) ==
  /\ c.connector \in Connector /\ c.type \in CrateType /\ c.nullable \in BOOLEAN
  /\ c.batch = Field(c.batch.type, c.batch.nullable)
  /\ c.batch.type \in CrateType /\ c.batch.nullable \in BOOLEAN
  /\ c.batch.type = c.type \/ MayDiffer(c.connector, c.type, c.batch.type)
  /\ c.connector = "pg" => c.type.s <= 4

(* Types the servers report of a column.  Of DuckDB's the ones its table   *)
(* of types has, without DATE, which comes back as Date32 and is announced *)
(* as Date64; of SQLite's the storage classes.                             *)
LegalForeign(t) ==
  /\ t.connector \in Connector /\ t.nullable \in BOOLEAN
  /\ t.type.name # None
  /\ t.connector = "mysql"  => t.type.name # "null"
  /\ t.connector = "mssql"  => t.type.name \notin {"null", "intn"}
  /\ t.connector = "sqlite" => t.type.name \in {"INTEGER", "REAL", "TEXT", "BLOB"}
  /\ t.connector = "duckdb" => t.type.name \in Listed(DuckDBDbIntoArrow) \ {"DATE"}

ASSUME RoundtripAssumption ==
  /\ MaxRows \in Nat
  /\ \A c \in Cases : LegalCase(c)
  /\ \A t \in Foreign : LegalForeign(t)

-----------------------------------------------------------------------------
(* What a type can represent.                                              *)
Kind(name) ==
  CASE name \in {"Boolean", "UInt8", "UInt16", "UInt32", "UInt64"} -> "unsigned"
    [] name \in {"Float16", "Float32", "Float64"} -> "float"
    [] name \in Texts    -> "text"
    [] name \in Binaries -> "bytes"
    [] name \in Decimals \cup {"decimal", "numeric"} -> "decimal"
    [] name = "Null"     -> "null"
    [] name \in Intervals -> "interval"
    [] OTHER -> "signed"

Bits(name) ==
  CASE name = "Boolean" -> 1  [] name = "Int8" -> 7   [] name = "UInt8" -> 8
    [] name = "Float16" -> 11 [] name = "Int16" -> 15 [] name = "UInt16" -> 16
    [] name = "Float32" -> 24 [] name = "UInt32" -> 32
    [] name \in {"Int32", "Date32"} \cup Time32s -> 31
    [] name = "Float64" -> 53 [] name = "UInt64" -> 64
    [] OTHER -> 63

(* Every value of from, as far as its digits go, is a value of to.         *)
Holds(to, from) ==
  LET k == Kind(to.name)  f == Kind(from.name)
  IN  \/ f = "null"
      \/ k = f /\ k \in {"signed", "unsigned", "float"} /\ Bits(from.name) <= Bits(to.name)
      \/ k = "signed" /\ f = "unsigned" /\ Bits(from.name) <= Bits(to.name)
      \/ k = f /\ k \in {"text", "bytes", "interval"}
      \/ k = "text" /\ f \in {"decimal", "signed", "unsigned"}
      \/ k = "decimal" /\ f = "decimal" /\ to.s >= from.s /\ to.p - to.s >= from.p - from.s
      \/ k = "decimal" /\ f = "unsigned" /\ to.p - to.s >= 20

-----------------------------------------------------------------------------
(* The connectors' functions, over the tables.                             *)

ArrowIntoDbOf == [pg |-> PgArrowIntoDb, mysql |-> MySQLArrowIntoDb,
                  mssql |-> MssqlArrowIntoDb, sqlite |-> SQLiteArrowIntoDb,
                  duckdb |-> DuckDBArrowIntoDb]

(* type_arrow_into_db.                                                     *)
ArrowIntoDb(conn, type) ==
  CASE conn = "mysql" /\ type.name \in Decimals ->
         IF type.p <= 65 THEN Decimal("decimal", type.p, type.s) ELSE Ty("text")
    [] conn = "mssql" /\ type.name \in Decimals ->
         IF CanDecimalFitInNumeric(type.p, type.s)
         THEN Decimal("numeric", type.p, type.s) ELSE Ty("nvarchar")
    [] conn = "pg" /\ type.name \in Decimals -> Decimal("decimal", type.p, type.s)
    [] conn \in {"pg", "mssql"} /\ type.name = "UInt64" -> Decimal("decimal", 20, 0)
    [] conn = "mysql" /\ type.name = "FixedSizeBinary" ->
         IF type.p \in DOMAIN MySQLFixedSizeBinary
         THEN Ty(MySQLFixedSizeBinary[type.p]) ELSE Ty(None)
    [] OTHER -> Ty(Lookup(ArrowIntoDbOf[conn], type.name))

(* type_db_into_arrow.                                                     *)
DbIntoArrow(conn, db) ==
  LET names == [pg |-> PgDbIntoArrow, mysql |-> MySQLDbIntoArrow,
                mssql |-> MssqlDbIntoArrow, sqlite |-> SQLiteDbIntoArrow,
                duckdb |-> DuckDBDbIntoArrow][conn]
  IN  Lookup(names, db)

(* PostgreSQL's binary COPY takes a cell if its length is that of a value  *)
(* of the column, and reads it in the column's own format; the bulk load   *)
(* of SQL Server takes a cell in the column's own format only.             *)
NativeFormat ==
  [ smallint |-> "int2", integer |-> "int4", bigint |-> "int8", bool |-> "bool",
    real |-> "float4", double_precision |-> "float8", decimal |-> "numeric",
    text |-> "text", bytea |-> "bytea" ]
BulkFormat ==
  [ tinyint |-> "U8", bit |-> "Bit", smallint |-> "I16", int |-> "I32",
    bigint |-> "I64", decimal |-> "Numeric", numeric |-> "Numeric",
    float24 |-> "F32", float53 |-> "F64", nvarchar |-> "String" ]
SameLength(f, g) ==
  \/ f = g
  \/ {f, g} = {"int4", "float4"}
  \/ {f, g} \subseteq {"int8", "float8", "numeric"}

FormatFits(conn, db, wire) ==
  /\ conn = "pg"    => SameLength(wire, NativeFormat[db])
  /\ conn = "mssql" => wire = BulkFormat[db]
Misread(conn, db, wire) == conn = "pg" /\ wire # NativeFormat[db]

(* A numeric has eight bytes only if it is 0, and eight bytes are only     *)
(* sometimes a numeric: the server takes some of these cells.              *)
MayFit(conn, db, wire) ==
  Misread(conn, db, wire) /\ "numeric" \in {wire, NativeFormat[db]}

(* What the server takes as the type of a column.  The scale has a limit   *)
(* of 38 in MariaDB, 30 in MySQL.                                          *)
ServerAccepts(conn, db) ==
  db.name \in {"decimal", "numeric"} =>
    /\ conn = "mysql" => 0 <= db.s /\ db.s <= db.p /\ db.s <= 38
    /\ conn = "mssql" => 0 <= db.s /\ db.s <= db.p /\ db.p <= 38

(* What a column of the server holds; SQLite's hold anything.              *)
ColumnHolds(conn, db, type) ==
  \/ conn = "sqlite"
  \/ LET asArrow == DbIntoArrow(conn, db.name)
     IN  Holds(IF db.name \in {"decimal", "numeric"} THEN db ELSE Ty(asArrow), type)

-----------------------------------------------------------------------------
TypeOf(conn, db) ==
  LET arrow == DbIntoArrow(conn, db) IN Ty(IF arrow = None THEN "Binary" ELSE arrow)

(* SQLite stores the class of each value; without a value there is none.   *)
InferredType ==
  LET class == IF field = NoField THEN column.type.name ELSE Wire(client, batchField.type)
  IN  IF \E i \in DOMAIN held : held[i] # "null"
      THEN Ty(DbIntoArrow("sqlite", class)) ELSE Ty("Null")

(* pg_field_to_arrow and the two create_field: a type without a mapping is *)
(* Binary with its name in the metadata, Binary, or todo!() (NoField).     *)
PgField(db, nullable) ==
  [Field(TypeOf("pg", db), nullable) EXCEPT !.metadata = DbIntoArrow("pg", db) = None]
MssqlField(db, nullable) == Field(TypeOf("mssql", db), nullable)
MySQLField(db, nullable) ==
  LET arrow == DbIntoArrow("mysql", db)
  IN  IF arrow = None THEN NoField ELSE Field(Ty(arrow), nullable)

(* The field of a query's result.                                          *)
ResultField ==
  LET db == column.type.name
  IN  CASE client = "pg"     -> PgField(db, TRUE)
        [] client = "mysql"  -> MySQLField(MySQLResultName(db), column.nullable)
        [] client = "mssql"  -> MssqlField(MssqlResultName(db), TRUE)
        [] client = "sqlite" -> Field(InferredType, TRUE)
        [] OTHER -> Field(Ty(DuckDBResultType(db)), TRUE)

(* The field table_get makes of the catalog's entry.                       *)
CatalogName(conn, name) ==
  CASE conn = "mssql" /\ name = "float24" -> "real"
    [] conn = "mssql" /\ name = "float53" -> "float"
    [] conn = "mysql" /\ name \in DOMAIN MySQLBinText -> MySQLBinText[name]
    [] OTHER -> name

DescribedField ==
  LET db   == CatalogName(client, column.type.name)
      decl == Lookup(SQLiteDeclIntoArrow, db)
  IN  CASE client = "pg"     -> PgField(db, column.nullable)
        [] client = "mysql"  -> MySQLField(db, column.nullable)
        [] client = "mssql"  -> MssqlField(db, column.nullable)
        [] client = "sqlite" ->
             IF decl = None THEN Rejected ELSE Field(Ty(decl), column.nullable)
        [] OTHER -> ResultField

Produced ==
  [pg |-> PgProduces, mysql |-> MySQLProduces, mssql |-> MssqlProduces,
   sqlite |-> SQLiteProduces, duckdb |-> Transported][client]

-----------------------------------------------------------------------------
RoundtripInit ==
  /\ sent = <<>> /\ read = <<>> /\ result = NoField /\ described = NoField
  /\ \/ /\ progress = "new" /\ held = <<>>
        /\ \E c \in Cases : /\ client = c.connector
                            /\ field = Field(c.type, c.nullable)
                            /\ batchField = c.batch
        /\ column = [type |-> Ty(None), nullable |-> TRUE]
     \/ /\ progress = "created" /\ field = NoField /\ batchField = NoField
        /\ \E t \in Foreign : /\ client = t.connector
                              /\ column = [type |-> t.type, nullable |-> t.nullable]
                              /\ held \in { <<"small">> } \cup
                                          IF t.nullable THEN { <<"null">> } ELSE {}

(* table_create: a type without a column type is unimplemented!(), except  *)
(* for SQLite, where the column then has no type.  A Null field gets a     *)
(* nullable column whatever the field says, except in SQLite.              *)
ColumnFor(conn, f) ==
  [ type     |-> IF conn = "duckdb" THEN Ty(Lookup(DuckDBTyFromArrow, f.type.name))
                                    ELSE ArrowIntoDb(conn, f.type),
    nullable |-> f.nullable \/ (f.type.name = "Null" /\ conn # "sqlite") ]

CreateTable ==
  /\ progress = "new"
  /\ column' = ColumnFor(client, field)
  /\ progress' = IF column'.type.name = None /\ client # "sqlite" THEN "panicked"
                 ELSE IF ServerAccepts(client, column'.type) THEN "created" ELSE "refused"
  /\ UNCHANGED <<table, sent, held, result, read, described>>

(* The cells an Arrow array of the field's type can hold.                  *)
CellsOf(f) ==
  IF f.type.name = "Null" THEN {"null"}
  ELSE {"small", "extreme"} \cup (IF f.nullable THEN {"null"} ELSE {})

(* PostgreSQL's ToSql handles nulls before transport().                    *)
Encodes(cell) ==
  Wire(client, batchField.type) # None \/ (client = "pg" /\ cell = "null")

(* A float is rounded to the column's width; anything else has to fit.     *)
(* PostgreSQL takes no numeric with a negative scale (NumericCodec).       *)
TakenByServer(cell) ==
  IF cell = "null" THEN column.nullable
  ELSE /\ client = "pg" => batchField.type.s >= 0
       /\ FormatFits(client, column.type.name, Wire(client, batchField.type))
       /\ cell = "extreme" =>
            \/ ColumnHolds(client, column.type, batchField.type)
            \/ Misread(client, column.type.name, Wire(client, batchField.type))
            \/ Kind(batchField.type.name) = "float"

(* insert_dot has no zeros for a negative scale: 12 * 10^2 becomes "12".   *)
DropsZeros(conn, type) == conn = "sqlite" /\ type.s < 0

Stored(cell) ==
  IF /\ cell # "null"
     /\ \/ DropsZeros(client, batchField.type)
        \/ Misread(client, column.type.name, Wire(client, batchField.type))
        \/ cell = "extreme" /\ ~ ColumnHolds(client, column.type, batchField.type)
  THEN "altered" ELSE cell

CanAppend == progress = "created" /\ field # NoField /\ Len(sent) < MaxRows

AppendCell_Twice ==
  /\ CanAppend
  /\ \E cell \in CellsOf(batchField) :
       /\ Encodes(cell) /\ TakenByServer(cell)
       /\ sent' = Append(sent, cell)
       /\ held' = held \o <<Stored(cell), Stored(cell)>>
  /\ UNCHANGED <<table, column, result, read, described, progress>>

AppendCell ==
  /\ CanAppend
  /\ \E cell \in CellsOf(batchField) :
       /\ Encodes(cell) /\ TakenByServer(cell)
       /\ sent' = Append(sent, cell)
       /\ held' = Append(held, Stored(cell))
  /\ UNCHANGED <<table, column, result, read, described, progress>>

(* The server refuses the cell: NULL in a NOT NULL column, another format  *)
(* than the column's, an integer or decimal out of range.                  *)
AppendRefused ==
  /\ CanAppend
  /\ \E cell \in CellsOf(batchField) :
       /\ Encodes(cell)
       /\ \/ ~ TakenByServer(cell)
          \/ /\ cell # "null"
             /\ MayFit(client, column.type.name, Wire(client, batchField.type))
  /\ progress' = "refused"
  /\ UNCHANGED <<table, column, sent, held, result, read, described>>

(* transport() has no arm, or the consumer is unimplemented!().            *)
AppendPanics ==
  /\ CanAppend
  /\ \E cell \in CellsOf(batchField) : ~ Encodes(cell)
  /\ progress' = "panicked"
  /\ UNCHANGED <<table, column, sent, held, result, read, described>>

Query ==
  /\ progress = "created"
  /\ result' = ResultField
  /\ progress' = IF ResultField = NoField THEN "panicked" ELSE "queried"
  /\ UNCHANGED <<table, column, sent, held, read, described>>

(* A value survives if the result's type holds what the field's type does. *)
ReadCell ==
  /\ progress = "queried" /\ Len(read) < Len(held)
  /\ result.type.name \in Produced \cup {"Null"}
  /\ LET cell == held[Len(read) + 1]
     IN  /\ cell = "null" => result.nullable
         /\ read' = Append(read,
              IF cell = "extreme" /\ ~ Holds(result.type, batchField.type)
              THEN "altered" ELSE cell)
  /\ UNCHANGED <<table, column, sent, held, result, described, progress>>

(* The producer is unimplemented!(), or unwraps a null.                    *)
ReadPanics ==
  /\ progress = "queried" /\ Len(read) < Len(held)
  /\ \/ result.type.name \notin Produced \cup {"Null"}
     \/ held[Len(read) + 1] = "null" /\ ~ result.nullable
  /\ progress' = "panicked"
  /\ UNCHANGED <<table, column, sent, held, result, read, described>>

TableGet ==
  /\ progress \in {"created", "queried"} /\ described = NoField
  /\ described' = DescribedField
  /\ progress' = IF DescribedField = NoField THEN "panicked" ELSE progress
  /\ UNCHANGED <<table, column, sent, held, result, read>>

RoundtripNext ==
  \/ CreateTable
  \/ AppendCell \/ AppendRefused \/ AppendPanics
  \/ Query \/ ReadCell \/ ReadPanics
  \/ TableGet

RoundtripSpec == RoundtripInit /\ [][RoundtripNext]_roundtripVars

-----------------------------------------------------------------------------
Cells == {"null", "small", "extreme", "altered"}
Progress == {"new", "created", "queried", "refused", "panicked"}

(* The type invariant: cells, progress, and no more read than held.        *)
RoundtripTypeOK ==
  /\ client \in Connector
  /\ progress \in Progress
  /\ sent \in Seq(Cells) /\ held \in Seq(Cells) /\ read \in Seq(Cells)
  /\ Len(sent) <= MaxRows /\ Len(read) <= Len(held)
  /\ field # NoField => Len(sent) = Len(held)
  /\ progress = "queried" => result # NoField
  /\ progress \in {"new", "created", "refused"} => result = NoField /\ read = <<>>

Announced == field # NoField /\ ArrowIntoDb(client, field.type).name # None

(* Fields type_arrow_into_db has a column type for, which then fail: every *)
(* connector's limits on the scale of a decimal that it does not check,    *)
(* DuckDB's second table of column types, SQLite's column for nulls only   *)
(* that is NOT NULL.                                                       *)
AnnouncedOnly(conn, f) ==
  \/ conn = "duckdb" /\ Lookup(DuckDBTyFromArrow, f.type.name) = None
  \/ conn = "mysql" /\ f.type.name \in Decimals /\ f.type.s \notin 0 .. 38
  \/ conn = "pg" /\ f.type.s < 0
  \/ conn = "sqlite" /\ f.type.name = "Null" /\ ~ f.nullable

(* A type type_arrow_into_db has a column type for can be created, written *)
(* and read, unless AnnouncedOnly says otherwise: no step panics, and the  *)
(* server refuses neither the column nor a cell.  A type it has None for   *)
(* never gets into a table, not even in part.  Five tables of a connector  *)
(* have to agree.                                                          *)
SupportedRoundtrips ==
  /\ Announced /\ batchField = field /\ ~ AnnouncedOnly(client, field) =>
       progress \notin {"refused", "panicked"}
  /\ field # NoField /\ held # <<>> => Announced

(* Columns whose name in a query's result stands for another type than     *)
(* their name in the catalog.  table_create makes none.  A query finds     *)
(* SQL Server's Binary, though test_tiberius.rs:334,336 expects Utf8.      *)
Misnamed(conn, name) ==
  \/ conn = "mssql" /\ name \in {"varchar", "char"}
  \/ conn = "mysql" /\ name \in DOMAIN MySQLBinText \cup {"enum", "set"}

(* The Arrow type of a query's result is the one type_db_into_arrow        *)
(* announces for the column type type_arrow_into_db announces, or for the  *)
(* name a table of somebody else's has in the catalog, but for the         *)
(* Misnamed.  The test suite's coerce_type predicts results this way.      *)
ReadTypeIsAnnounced ==
  progress = "queried" /\ (field # NoField => Announced)
    /\ ~ Misnamed(client, column.type.name) =>
    LET db == IF field = NoField THEN CatalogName(client, column.type.name)
              ELSE ArrowIntoDb(client, field.type).name
    IN  \/ result.type = TypeOf(client, db)
        \/ client = "sqlite" /\ result.type.name = "Null"
             /\ \A i \in DOMAIN held : held[i] = "null"

(* What is read is what was appended: across the choice of column, the     *)
(* form sent, what the server stores and the type of the result, also for  *)
(* batches of another type than the table's.  Whatever does not survive is *)
(* refused or panics.  Two exceptions: SQLite's decimals with a negative   *)
(* scale, and PostgreSQL's columns given cells of another format but of    *)
(* the same length.                                                        *)
ReadIsLossless ==
  field # NoField /\ read # <<>> =>
    \/ DropsZeros(client, batchField.type)
    \/ Misread(client, column.type.name, Wire(client, batchField.type))
    \/ \A i \in DOMAIN read : read[i] = sent[i]

(* table_get and the result of a query describe a column alike: each type  *)
(* holds the values of the other, and a column described as NOT NULL gives *)
(* no null.  Only SQLite refuses to describe a column, one of type Null,   *)
(* and only SQLite, whose columns have no types, finds Null in a result.   *)
(* The Misnamed columns of tables the crate did not make are described as  *)
(* texts and come as bytes.                                                *)
IntrospectionAgrees ==
  /\ described = Rejected => client = "sqlite" /\ column.type.name \in {"NULL", None}
  /\ result # NoField /\ described \notin {NoField, Rejected}
       /\ ~ Misnamed(client, column.type.name) =>
       /\ result.type.name # "Null" => /\ Holds(described.type, result.type)
                                       /\ Holds(result.type, described.type)
       /\ result.type.name = "Null" => client = "sqlite"
       /\ ~ described.nullable => "null" \notin { held[i] : i \in DOMAIN held }

(* A query of a table somebody else made, and table_get, panic only for a  *)
(* type that type_db_into_arrow has no arm for, MySQL's in todo!(), SQL    *)
(* Server's in a producer of Binary that is not there; SQL Server's        *)
(* Misnamed columns fail like the latter.  Names that only the server's    *)
(* results use have an arm too, and what is announced can be produced.     *)
OnlyUnmappedPanics ==
  field = NoField /\ progress = "panicked" =>
    /\ client \in {"mysql", "mssql"}
    /\ \/ DbIntoArrow(client, CatalogName(client, column.type.name)) = None
       \/ client = "mssql" /\ Misnamed(client, column.type.name)
=============================================================================

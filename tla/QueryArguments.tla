--------------------------- MODULE QueryArguments ---------------------------
(***************************************************************************)
(* Statement::start and start_batch: the arguments of a prepared query, on *)
(* their way from Rust values, or from one row of a record batch, to the   *)
(* placeholders of the statement.                                          *)
(*                                                                         *)
(*   start --vec_to_record_batch--> batch of one row --start_batch-->      *)
(*   cells of the row --transport--> the client's values --> the server    *)
(*                                                                         *)
(* A statement is started several times, with other arguments.  A datum is *)
(* <<start, row, column>>, unique in a behaviour, or Null.                 *)
(***************************************************************************)
EXTENDS TypeMaps, Sequences

CONSTANTS Connectors,   (* subset of {"pg", "mysql", "mssql", "sqlite",     *)
                        (* "duckdb"}                                        *)
          Placeholders, (* sequences of the types of a query's placeholders *)
          ValueLists,   (* sequences of values [native, type, size], the    *)
                        (* arguments of start                               *)
          Batches,      (* [types, nulls]: types of columns, and in each    *)
                        (* row the set of columns that are null             *)
          MaxStarts     (* bound: starts of one statement                   *)

VARIABLES connector, placeholders, (* of the statement                      *)
          starts,   (* how often it has been started                        *)
          stage,    (* "ready", "values", "binding", "started", "panicked"  *)
          values,   (* arguments of start                                   *)
          types,    (* the columns of the batch                             *)
          rows,     (* its rows of data                                     *)
          row,      (* the row of it that start_batch is given              *)
          args,     (* the client's values, of the cells transported so far *)
          seen      (* what each placeholder took from it, or Altered       *)

statement == <<connector, placeholders>>
batch == <<types, rows, row>>
vars == <<statement, starts, stage, values, batch, args, seen>>

Null == <<>>
Altered == <<"altered">>
Refused == <<"refused">>
Datum(column, r) == <<starts', r, column>>

-----------------------------------------------------------------------------
(* types.rs: the representation of a value of each type.                   *)
Native ==
  [ bool |-> {"Boolean"}, i8 |-> {"Int8"}, i16 |-> {"Int16"},
    i32  |-> {"Int32", "Date32", "IntervalYearMonth"} \cup Time32s,
    i64  |-> {"Int64", "Date64"} \cup Timestamps \cup Time64s \cup Durations,
    u8   |-> {"UInt8"}, u16 |-> {"UInt16"}, u32 |-> {"UInt32"}, u64 |-> {"UInt64"},
    f16  |-> {"Float16"}, f32 |-> {"Float32"}, f64 |-> {"Float64"},
    IntervalDayTime |-> {"IntervalDayTime"},
    IntervalMonthDayNano |-> {"IntervalMonthDayNano"},
    i128 |-> {"Decimal128"}, i256 |-> {"Decimal256"},
    Vec  |-> Binaries, String |-> Texts ]

ValueNative_Time64AsI32 ==
  [ bool |-> {"Boolean"}, i8 |-> {"Int8"}, i16 |-> {"Int16"},
    i32  |-> {"Int32", "Date32", "IntervalYearMonth"} \cup Time32s \cup Time64s,
    i64  |-> {"Int64", "Date64"} \cup Timestamps \cup Durations,
    u8   |-> {"UInt8"}, u16 |-> {"UInt16"}, u32 |-> {"UInt32"}, u64 |-> {"UInt64"},
    f32  |-> {"Float32"}, f64 |-> {"Float64"},
    IntervalDayTime |-> {"IntervalDayTime"},
    IntervalMonthDayNano |-> {"IntervalMonthDayNano"},
    i128 |-> {"Decimal128"}, i256 |-> {"Decimal256"},
    Vec  |-> Binaries, String |-> Texts ]

(* params.rs: what a value is downcast to, to produce it as each type.     *)
ValueNative ==
  [ bool |-> {"Boolean"}, i8 |-> {"Int8"}, i16 |-> {"Int16"},
    i32  |-> {"Int32", "Date32", "IntervalYearMonth"} \cup Time32s,
    i64  |-> {"Int64", "Date64"} \cup Timestamps \cup Time64s \cup Durations,
    u8   |-> {"UInt8"}, u16 |-> {"UInt16"}, u32 |-> {"UInt32"}, u64 |-> {"UInt64"},
    f32  |-> {"Float32"}, f64 |-> {"Float64"},
    IntervalDayTime |-> {"IntervalDayTime"},
    IntervalMonthDayNano |-> {"IntervalMonthDayNano"},
    i128 |-> {"Decimal128"}, i256 |-> {"Decimal256"},
    Vec  |-> {"Binary", "LargeBinary", "FixedSizeBinary"},
    String |-> {"Utf8", "LargeUtf8"} ]

(* A value declared as Null is never produced; a FixedSizeBinaryBuilder    *)
(* takes one length only.                                                  *)
Converts(value) ==
  \/ value.type.name = "Null"
  \/ /\ value.type.name \in Transported
     /\ Lookup(ValueNative, value.type.name) = value.native
     /\ value.type.name = "FixedSizeBinary" => value.size = value.type.p

ArrowType == [name : STRING, p : Int, s : Int]
Argument == [native : DOMAIN Native, type : ArrowType, size : Int]

ASSUME ArgumentsAssumption ==
  /\ Placeholders \subseteq Seq(STRING)
  /\ ValueLists \subseteq Seq(Argument)
  /\ \A given \in Batches :
       given.types \in Seq(ArrowType) /\ given.nulls \in Seq(SUBSET Nat)
  /\ MaxStarts \in Nat

-----------------------------------------------------------------------------
Init ==
  /\ connector \in Connectors
  /\ placeholders \in Placeholders
  /\ starts = 0
  /\ stage = "ready"
  /\ values = <<>>
  /\ types = <<>> /\ rows = <<>> /\ row = 0
  /\ args = <<>>
  /\ seen = <<>>

CanStart_KeepsArgs ==
  /\ stage = "ready"
  /\ starts < MaxStarts
  /\ starts' = starts + 1
  /\ seen' = <<>> /\ UNCHANGED args

CanStart ==
  /\ stage = "ready"
  /\ starts < MaxStarts
  /\ starts' = starts + 1
  /\ args' = <<>> /\ seen' = <<>>

(* Statement::start collects the arguments.                                *)
Start(list) ==
  /\ CanStart
  /\ stage' = "values"
  /\ values' = list
  /\ types' = <<>> /\ rows' = <<>> /\ row' = 0
  /\ UNCHANGED statement

(* vec_to_record_batch: a row without columns, or one row through the row  *)
(* writer, a column for each value; start_batch is given row 0 of it.      *)
VecToRecordBatch ==
  /\ stage = "values"
  /\ \A i \in DOMAIN values : Converts(values[i])
  /\ stage' = "binding"
  /\ types' = [i \in DOMAIN values |-> values[i].type]
  /\ rows' = << [i \in DOMAIN values |->
                   IF values[i].type.name = "Null" THEN Null ELSE <<starts, 1, i>>] >>
  /\ row' = 1
  /\ UNCHANGED <<statement, starts, values, args, seen>>

(* downcast_ref().unwrap(), unimplemented!() or todo!(), or append_value   *)
(* of a FixedSizeBinaryBuilder.                                            *)
VecPanics ==
  /\ stage = "values"
  /\ \E i \in DOMAIN values : ~Converts(values[i])
  /\ stage' = "panicked"
  /\ UNCHANGED <<statement, starts, values, batch, args, seen>>

(* start_batch with a batch of the caller's.                               *)
StartBatch(given, r) ==
  /\ CanStart
  /\ stage' = "binding"
  /\ types' = given.types
  /\ rows' = [i \in DOMAIN given.nulls |->
                [c \in DOMAIN given.types |->
                   IF c \in given.nulls[i] \/ given.types[c].name = "Null"
                   THEN Null ELSE Datum(c, i)]]
  /\ row' = r
  /\ values' = <<>>
  /\ UNCHANGED statement

-----------------------------------------------------------------------------
(* start_batch.  MySQL's has no use for the cells; rust-postgres counts    *)
(* them before it has any converted.                                       *)
VecFromBatch_FirstRow ==
  [c \in DOMAIN types |-> IF row \in DOMAIN rows THEN rows[1][c] ELSE Null]

(* ArrayCellRef::vec_from_batch: the columns of one row.  A column of type *)
(* Null is not read, so that it has this row whatever its number is.       *)
VecFromBatch ==
  [c \in DOMAIN types |-> IF row \in DOMAIN rows THEN rows[row][c] ELSE Null]
HasRow(c) == row \in DOMAIN rows \/ types[c].name = "Null"

Binds == stage = "binding" /\ connector # "mysql"
Miscounted == connector = "pg" /\ Len(types) # Len(placeholders)
NextColumn == Len(args) + 1
More == ~Miscounted /\ NextColumn <= Len(types)

(* PostgreSQL's ToSql asks whether the cell is null, all others have the   *)
(* field's type first.                                                     *)
Encodable(cell) ==
  \/ Wire(connector, types[NextColumn]) # None
  \/ connector = "pg" /\ cell = Null

TransportCell ==
  /\ Binds /\ More
  /\ HasRow(NextColumn)
  /\ LET cell == VecFromBatch[NextColumn]
     IN /\ Encodable(cell)
        /\ args' = Append(args, [wire |-> Wire(connector, types[NextColumn]), datum |-> cell])
  /\ UNCHANGED <<statement, starts, stage, values, batch, seen>>

(* The consumer is unimplemented!(), or the row is out of bounds.          *)
TransportPanics ==
  /\ Binds /\ More
  /\ ~HasRow(NextColumn) \/ ~Encodable(VecFromBatch[NextColumn])
  /\ stage' = "panicked"
  /\ UNCHANGED <<statement, starts, values, batch, args, seen>>

-----------------------------------------------------------------------------
(* PostgreSQL reads the bytes of an argument in the binary format of the   *)
(* placeholder's type; an error if there are too many or too few.  Dates   *)
(* and timestamps count from 2000, times are microseconds.                 *)
Bytes == [ bool |-> 1, int2 |-> 2, int4 |-> 4, float4 |-> 4, date |-> 4,
           int8 |-> 8, float8 |-> 8, timestamp |-> 8, time |-> 8 ]
LengthsMayAgree(f, g) == f \in DOMAIN Bytes /\ g \in DOMAIN Bytes => Bytes[f] = Bytes[g]

SameFormat(i) ==
  \/ connector # "pg"
  \/ args[i].datum = Null
  \/ args[i].wire = placeholders[i]
  \/ {args[i].wire, placeholders[i]} = {"text", "bytea"}
  \/ placeholders[i] = "time" /\ types[i] = Ty("Time64Microsecond")

Taken(i) ==
  IF SameFormat(i) THEN args[i].datum
  ELSE IF LengthsMayAgree(args[i].wire, placeholders[i]) THEN Altered ELSE Refused

(* rusqlite, duckdb-rs and rust-postgres compare the counts; SQL Server    *)
(* ignores what the query does not mention; MySQL is given no arguments.   *)
CountFits ==
  CASE connector = "mysql" -> placeholders = <<>>
    [] connector = "mssql" -> Len(args) >= Len(placeholders)
    [] OTHER               -> Len(args) = Len(placeholders)

AllTransported == stage = "binding" /\ (connector = "mysql" \/ Len(args) = Len(types))

Execute ==
  /\ AllTransported /\ ~Miscounted
  /\ CountFits
  /\ \A i \in DOMAIN placeholders : Taken(i) # Refused
  /\ stage' = "started"
  /\ seen' = [i \in DOMAIN placeholders |-> Taken(i)]
  /\ UNCHANGED <<statement, starts, values, batch, args>>

(* start returns Err: a wrong count, bytes that are no value of the        *)
(* placeholder's type, or an error of the query.                           *)
Refuse ==
  /\ AllTransported \/ (Binds /\ Miscounted)
  /\ stage' = "ready"
  /\ UNCHANGED <<statement, starts, values, batch, args, seen>>

(* The reader is dropped, and the statement can be started again.          *)
DropReader ==
  /\ stage = "started"
  /\ stage' = "ready"
  /\ UNCHANGED <<statement, starts, values, batch, args, seen>>

Next ==
  \/ \E list \in ValueLists : Start(list)
  \/ VecToRecordBatch
  \/ VecPanics
  \/ \E given \in Batches : \E r \in 1 .. Len(given.nulls) + 1 : StartBatch(given, r)
  \/ TransportCell
  \/ TransportPanics
  \/ Execute
  \/ Refuse
  \/ DropReader

Spec == Init /\ [][Next]_vars

-----------------------------------------------------------------------------
Stages == {"ready", "values", "binding", "started", "panicked"}

(* The type invariant: one cell per column, and no more values bound than  *)
(* there are columns, whatever was bound at an earlier start.              *)
TypeOK ==
  /\ connector \in Connectors /\ placeholders \in Placeholders
  /\ starts \in 0 .. MaxStarts
  /\ stage \in Stages
  /\ stage \in {"binding", "started"} =>
       /\ \A r \in DOMAIN rows : DOMAIN rows[r] = DOMAIN types
       /\ Len(args) <= Len(types)
  /\ stage = "started" => DOMAIN seen = DOMAIN placeholders

(* A query that has started was given, at each placeholder, the datum of   *)
(* this start at its position of the chosen row: none of another row or an *)
(* earlier start, none shifted by a null or a missing column, and none too *)
(* few or too many; of a row that is not there it was given nothing but    *)
(* NULLs for columns of type Null.  Exceptions are PostgreSQL's reading of *)
(* bytes in the placeholder's format, SQL Server, which takes more         *)
(* arguments than it uses, and MySQL, which is given none.                 *)
ArgumentsArrive ==
  stage = "started" =>
    /\ connector \notin {"mysql", "mssql"} => Len(types) = Len(placeholders)
    /\ \A i \in DOMAIN placeholders :
         /\ i \in DOMAIN types
         /\ \/ row \in DOMAIN rows /\ seen[i] = rows[row][i]
            \/ row \notin DOMAIN rows /\ types[i].name = "Null" /\ seen[i] = Null
            \/ connector = "pg" /\ ~SameFormat(i)

OfItsType(value) ==
  /\ Lookup(Native, value.type.name) = value.native
  /\ value.type.name = "FixedSizeBinary" => value.size = value.type.p

(* The conversion of start's values panics only for one that is not of the *)
(* type it is declared as, or of a type that has no values here (half      *)
(* floats and lists): the two hand-written tables of how a type is         *)
(* represented agree.                                                      *)
OnlyMistypedPanic ==
  stage = "panicked" /\ row = 0 =>
    \E i \in DOMAIN values :
      ~OfItsType(values[i]) \/ values[i].type.name \in {"Float16", "List"}

(* api.rs:60: "Query arguments are read from record batch, from the        *)
(* specified row."                                                         *)
ArgumentsAreRead ==
  stage = "started" /\ row \in DOMAIN rows =>
    \A i \in DOMAIN placeholders : seen[i] = rows[row][i]
=============================================================================

-------------------------- MODULE ConversionProofs --------------------------
(***************************************************************************)
(* Proofs about what happens to values on their way to and from a server:  *)
(* QueryArguments, for every statement, every sequence of its starts,      *)
(* every list of values and every batch; TypeRoundtrip, for every table    *)
(* and every type; and NumericCodec, for every integer and every scale.    *)
(***************************************************************************)
EXTENDS QueryArguments, TypeRoundtrip, NumericCodec, FiniteSetTheorems, SequenceTheorems,
        WellFoundedInduction, TLAPS

(* What the client can be given: the cells of the batch in their wire form.*)
Bound == [ wire  : { Wire(connector, types[c]) : c \in DOMAIN types },
           datum : {Null} \cup UNION { { rows[r][c] : c \in DOMAIN types }
                                      : r \in DOMAIN rows } ]

StatementInv ==
  /\ connector \in Connectors
  /\ placeholders \in Placeholders /\ placeholders \in Seq(STRING)
  /\ starts \in 0 .. MaxStarts
  /\ stage \in Stages
  /\ values \in Seq(Argument)

(* From start_batch on, the values handed to the client are the first      *)
(* cells of the chosen row, whatever earlier starts have bound.            *)
BindingInv ==
  stage \in {"binding", "started"} =>
    /\ types \in Seq(ArrowType)
    /\ \A r \in DOMAIN rows : DOMAIN rows[r] = DOMAIN types
    /\ row \in Nat \ {0}
    /\ args \in Seq(Bound)
    /\ Len(args) <= Len(types)
    /\ \A i \in 1 .. Len(args) : HasRow(i) /\ args[i].datum = VecFromBatch[i]

IInv ==
  /\ StatementInv
  /\ BindingInv
  /\ stage = "values" => args = <<>>
  /\ stage = "started" => DOMAIN seen = DOMAIN placeholders
  /\ ArgumentsArrive
  /\ OnlyMistypedPanic

-----------------------------------------------------------------------------
(* The cells of the row are those of the batch.                            *)
LEMMA SameBatch ==
  ASSUME UNCHANGED <<connector, types, rows, row>>
  PROVE  /\ Bound' = Bound /\ VecFromBatch' = VecFromBatch
         /\ \A i : HasRow(i)' <=> HasRow(i)
  BY DEF Bound, VecFromBatch, HasRow

(* A table in which a name is under one key only gives that key.           *)
LEMMA LookupFinds ==
  ASSUME NEW tab, NEW name, NEW key \in DOMAIN tab, name \in tab[key],
         \A other \in DOMAIN tab : name \in tab[other] => other = key
  PROVE  Lookup(tab, name) = key
  BY DEF Lookup

LEMMA LookupListed ==
  ASSUME NEW tab, NEW name, Lookup(tab, name) # None
  PROVE  /\ Lookup(tab, name) \in DOMAIN tab
         /\ name \in tab[Lookup(tab, name)]
  BY DEF Lookup

(* params.rs knows every representation of types.rs but that of half       *)
(* floats, and none of them twice.                                         *)
LEMMA TablesAgree ==
  ASSUME NEW key \in DOMAIN Native \ {"f16"}, NEW name \in Native[key]
  PROVE  key \in DOMAIN ValueNative /\ name \in ValueNative[key]
<1>1. key \in DOMAIN ValueNative
  BY DEF ValueNative, Native
<1>2. name \in ValueNative[key]
  BY DEF ValueNative, Native, Binaries, Texts
<1>3. QED
  BY <1>1, <1>2

LEMMA OneRepresentation ==
  ASSUME NEW one \in DOMAIN ValueNative, NEW other \in DOMAIN ValueNative,
         NEW name \in ValueNative[one], name \in ValueNative[other]
  PROVE  one = other
  BY DEF ValueNative, Time32s, Time64s, Timestamps, Durations

LEMMA RepresentedAreTransported ==
  ASSUME NEW key \in DOMAIN ValueNative, NEW name \in ValueNative[key]
  PROVE  name \in Transported
  BY DEF ValueNative, Transported, Time32s, Time64s, Timestamps, Durations, Intervals,
         Binaries, Texts, Decimals

LEMMA MistypedDoesNotConvert ==
  ASSUME NEW value \in Argument, ~Converts(value)
  PROVE  ~OfItsType(value) \/ value.type.name \in {"Float16", "List"}
<1> SUFFICES ASSUME OfItsType(value), value.type.name \notin {"Float16", "List"}
             PROVE  Converts(value)
  OBVIOUS
<1> DEFINE name == value.type.name
           key == value.native
<1>1. key \in DOMAIN Native /\ Lookup(Native, name) = key
  BY DEF Argument, OfItsType
<1>2. key # None
  BY <1>1 DEF Native, None
<1>3. name \in Native[key]
  BY <1>1, <1>2, LookupListed
<1>4. key # "f16"
  <2>1. ASSUME key = "f16" PROVE name = "Float16"
    BY <1>3, <2>1 DEF Native
  <2>2. QED
    BY <2>1
<1>5. key \in DOMAIN ValueNative /\ name \in ValueNative[key]
  BY <1>1, <1>3, <1>4, TablesAgree
<1>6. Lookup(ValueNative, name) = key
  <2> HIDE DEF name, key
  <2>1. \A other \in DOMAIN ValueNative : name \in ValueNative[other] => other = key
    BY <1>5, OneRepresentation
  <2>2. QED
    BY <1>5, <2>1, LookupFinds
<1>7. name \in Transported
  BY <1>5, RepresentedAreTransported
<1>8. QED
  BY <1>6, <1>7 DEF Converts, OfItsType

-----------------------------------------------------------------------------
LEMMA InitInv == Init => IInv
<1> SUFFICES ASSUME Init PROVE IInv
  OBVIOUS
<1>1. StatementInv
  BY ArgumentsAssumption DEF Init, StatementInv, Stages
<1>2. stage = "ready"
  BY DEF Init
<1>3. QED
  BY <1>1, <1>2 DEF IInv, BindingInv, ArgumentsArrive, OnlyMistypedPanic

(* A start leaves nothing of an earlier one.                               *)
LEMMA StartInv ==
  ASSUME IInv, NEW list \in ValueLists, Start(list)
  PROVE  IInv'
<1>1. StatementInv'
  <2>1. starts' \in 0 .. MaxStarts
    BY ArgumentsAssumption DEF IInv, StatementInv, Start, CanStart
  <2>2. values' \in Seq(Argument)
    BY ArgumentsAssumption DEF Start
  <2>3. QED
    BY <2>1, <2>2 DEF IInv, StatementInv, Start, statement, Stages
<1>2. stage' = "values" /\ args' = <<>>
  BY DEF Start, CanStart
<1>3. QED
  BY <1>1, <1>2 DEF IInv, BindingInv, ArgumentsArrive, OnlyMistypedPanic

LEMMA StartBatchInv ==
  ASSUME IInv, NEW given \in Batches, NEW r \in 1 .. Len(given.nulls) + 1,
         StartBatch(given, r)
  PROVE  IInv'
<1>1. /\ stage' = "binding" /\ types' = given.types /\ row' = r /\ args' = <<>>
      /\ UNCHANGED statement /\ values' = <<>>
      /\ rows' = [i \in DOMAIN given.nulls |->
                    [c \in DOMAIN given.types |->
                       IF c \in given.nulls[i] \/ given.types[c].name = "Null"
                       THEN Null ELSE Datum(c, i)]]
  BY DEF StartBatch, CanStart
<1>2. StatementInv'
  <2>1. starts' \in 0 .. MaxStarts
    BY ArgumentsAssumption DEF IInv, StatementInv, StartBatch, CanStart
  <2>2. QED
    BY <1>1, <2>1 DEF IInv, StatementInv, statement, Stages
<1>3. BindingInv'
  <2>1. types' \in Seq(ArrowType) /\ row' \in Nat \ {0}
    BY <1>1, ArgumentsAssumption
  <2>2. \A i \in DOMAIN rows' : DOMAIN rows'[i] = DOMAIN types'
    BY <1>1
  <2>3. args' \in Seq(Bound') /\ Len(args') = 0 /\ Len(types') \in Nat
    BY <1>1, <2>1
  <2>4. QED
    BY <2>1, <2>2, <2>3 DEF BindingInv
<1>4. QED
  BY <1>1, <1>2, <1>3 DEF IInv, ArgumentsArrive, OnlyMistypedPanic

LEMMA VecToRecordBatchInv ==
  ASSUME IInv, VecToRecordBatch
  PROVE  IInv'
<1>1. /\ stage = "values" /\ args = <<>> /\ values \in Seq(Argument)
      /\ stage' = "binding" /\ row' = 1
      /\ UNCHANGED <<statement, starts, values, args>>
      /\ types' = [i \in DOMAIN values |-> values[i].type]
  BY DEF IInv, StatementInv, VecToRecordBatch
<1>2. StatementInv'
  BY <1>1 DEF IInv, StatementInv, statement, Stages
<1>3. BindingInv'
  <2>1. types' \in Seq(ArrowType)
    <3>1. ASSUME NEW i \in 1 .. Len(values) PROVE values[i].type \in ArrowType
      <4>1. values[i] \in Argument
        BY <1>1
      <4>2. QED
        BY <4>1 DEF Argument
    <3>2. DOMAIN values = 1 .. Len(values) /\ Len(values) \in Nat
      BY <1>1
    <3>3. QED
      BY <1>1, <3>1, <3>2
  <2>2. \A i \in DOMAIN rows' : DOMAIN rows'[i] = DOMAIN types'
    <3>1. PICK cells : rows' = <<cells>> /\ DOMAIN cells = DOMAIN values
      BY DEF VecToRecordBatch
    <3>2. QED
      BY <1>1, <3>1
  <2>3. args' \in Seq(Bound') /\ Len(args') = 0 /\ Len(types') \in Nat
    BY <1>1, <2>1
  <2>4. QED
    BY <1>1, <2>1, <2>2, <2>3 DEF BindingInv
<1>4. QED
  BY <1>1, <1>2, <1>3 DEF IInv, ArgumentsArrive, OnlyMistypedPanic

LEMMA VecPanicsInv ==
  ASSUME IInv, VecPanics
  PROVE  IInv'
<1>1. /\ stage' = "panicked" /\ values \in Seq(Argument)
      /\ UNCHANGED <<statement, starts, values, batch, args, seen>>
  BY DEF IInv, StatementInv, VecPanics
<1>2. StatementInv'
  BY <1>1 DEF IInv, StatementInv, statement, Stages
<1>3. OnlyMistypedPanic'
  <2>1. PICK i \in DOMAIN values : ~Converts(values[i])
    BY DEF VecPanics
  <2>2. values[i] \in Argument
    BY <1>1, <2>1
  <2>3. ~OfItsType(values[i]) \/ values[i].type.name \in {"Float16", "List"}
    BY <2>1, <2>2, MistypedDoesNotConvert
  <2>4. QED
    BY <1>1, <2>1, <2>3 DEF OnlyMistypedPanic
<1>4. QED
  BY <1>1, <1>2, <1>3 DEF IInv, BindingInv, ArgumentsArrive

(* A cell handed over is the next one of the chosen row.                   *)
LEMMA TransportCellInv ==
  ASSUME IInv, TransportCell
  PROVE  IInv'
<1> PICK n \in Nat : n = Len(args) + 1
  BY DEF IInv, BindingInv, TransportCell, Binds
<1> DEFINE cell == VecFromBatch[n]
           bound == [wire |-> Wire(connector, types[n]), datum |-> cell]
<1>1. /\ stage = "binding" /\ HasRow(n) /\ n <= Len(types)
      /\ args' = Append(args, bound)
      /\ UNCHANGED <<statement, starts, stage, values, batch, seen>>
  BY DEF TransportCell, Binds, More, NextColumn
<1>2. /\ types \in Seq(ArrowType) /\ args \in Seq(Bound)
      /\ \A r \in DOMAIN rows : DOMAIN rows[r] = DOMAIN types
      /\ row \in Nat \ {0}
      /\ \A i \in 1 .. Len(args) : HasRow(i) /\ args[i].datum = VecFromBatch[i]
  BY <1>1 DEF IInv, BindingInv
<1>3. n \in DOMAIN types
  BY <1>1, <1>2
<1>4. bound \in Bound
  <2>1. Wire(connector, types[n]) \in { Wire(connector, types[c]) : c \in DOMAIN types }
    BY <1>3
  <2>2. cell \in {Null} \cup UNION { { rows[r][c] : c \in DOMAIN types } : r \in DOMAIN rows }
    BY <1>3 DEF VecFromBatch
  <2>3. QED
    BY <2>1, <2>2 DEF Bound
<1>5. /\ UNCHANGED <<Bound, types, rows, row>>
      /\ VecFromBatch' = VecFromBatch /\ \A i : HasRow(i)' <=> HasRow(i)
  BY <1>1, SameBatch DEF statement, batch
<1>6. /\ args' \in Seq(Bound) /\ Len(args') = n
      /\ \A i \in 1 .. n : args'[i] = IF i = n THEN bound ELSE args[i]
  <2> HIDE DEF bound
  <2>1. QED
    BY <1>1, <1>2, <1>4, AppendProperties
<1>7. \A i \in 1 .. n : HasRow(i) /\ args'[i].datum = VecFromBatch[i]
  <2> SUFFICES ASSUME NEW i \in 1 .. n
               PROVE  HasRow(i) /\ args'[i].datum = VecFromBatch[i]
    OBVIOUS
  <2>1. CASE i = n
    BY <1>1, <1>6, <2>1
  <2>2. CASE i # n
    <3>1. i \in 1 .. Len(args) /\ args'[i] = args[i]
      BY <1>2, <1>6, <2>2
    <3>2. QED
      BY <1>2, <3>1
  <2>3. QED
    BY <2>1, <2>2
<1>8. BindingInv'
  BY <1>1, <1>2, <1>5, <1>6, <1>7 DEF BindingInv
<1>9. StatementInv'
  BY <1>1 DEF IInv, StatementInv, statement
<1>10. QED
  BY <1>1, <1>8, <1>9 DEF IInv, ArgumentsArrive, OnlyMistypedPanic

LEMMA TransportPanicsInv ==
  ASSUME IInv, TransportPanics
  PROVE  IInv'
<1>1. /\ stage = "binding" /\ stage' = "panicked"
      /\ UNCHANGED <<statement, starts, values, batch, args, seen>>
  BY DEF TransportPanics, Binds
<1>2. StatementInv'
  BY <1>1 DEF IInv, StatementInv, statement, Stages
<1>3. row' # 0
  BY <1>1 DEF IInv, BindingInv, batch
<1>4. QED
  BY <1>1, <1>2, <1>3 DEF IInv, BindingInv, ArgumentsArrive, OnlyMistypedPanic

(* What a placeholder takes is the datum at its position, but for          *)
(* PostgreSQL's reading of bytes in another format.                        *)
LEMMA ExecuteInv ==
  ASSUME IInv, Execute
  PROVE  IInv'
<1>1. /\ stage = "binding" /\ stage' = "started"
      /\ UNCHANGED <<statement, starts, values, batch, args>>
      /\ seen' = [i \in DOMAIN placeholders |-> Taken(i)]
  BY DEF Execute, AllTransported
<1>2. UNCHANGED <<connector, placeholders, types, rows, row>>
  BY <1>1 DEF statement, batch
<1>3. StatementInv' /\ placeholders \in Seq(STRING)
  BY <1>1, <1>2 DEF IInv, StatementInv, Stages
<1>4. /\ types \in Seq(ArrowType) /\ args \in Seq(Bound)
      /\ \A i \in 1 .. Len(args) : HasRow(i) /\ args[i].datum = VecFromBatch[i]
  BY <1>1 DEF IInv, BindingInv
<1>5. BindingInv'
  BY <1>1, <1>2, SameBatch DEF IInv, BindingInv
<1>6. connector \notin {"mysql", "mssql"} => Len(types) = Len(placeholders)
  BY DEF Execute, AllTransported, CountFits
<1>7. connector # "mysql" => Len(args) = Len(types) /\ Len(placeholders) <= Len(args)
  BY <1>3, <1>4, <1>6 DEF Execute, AllTransported, CountFits
<1>8. connector = "mysql" => DOMAIN placeholders = {}
  BY DEF Execute, CountFits
<1>9. ASSUME NEW i \in DOMAIN placeholders
      PROVE  /\ i \in DOMAIN types
             /\ \/ row \in DOMAIN rows /\ seen'[i] = rows[row][i]
                \/ row \notin DOMAIN rows /\ types[i].name = "Null" /\ seen'[i] = Null
                \/ connector = "pg" /\ ~SameFormat(i)
  <2>1. i \in 1 .. Len(args) /\ i \in DOMAIN types
    BY <1>3, <1>4, <1>7, <1>8
  <2>2. HasRow(i) /\ args[i].datum = VecFromBatch[i]
    BY <1>4, <2>1
  <2>3. SameFormat(i) => seen'[i] = VecFromBatch[i]
    BY <1>1, <2>2 DEF Taken
  <2>4. ~SameFormat(i) => connector = "pg"
    BY DEF SameFormat
  <2>5. VecFromBatch[i] = IF row \in DOMAIN rows THEN rows[row][i] ELSE Null
    BY <2>1 DEF VecFromBatch
  <2>6. QED
    BY <2>1, <2>2, <2>3, <2>4, <2>5 DEF HasRow
<1>10. \A i : SameFormat(i)' <=> SameFormat(i)
  BY <1>1, <1>2 DEF SameFormat
<1>11. ArgumentsArrive'
  BY <1>2, <1>6, <1>9, <1>10 DEF ArgumentsArrive
<1>12. DOMAIN seen' = DOMAIN placeholders'
  BY <1>1, <1>2
<1>13. QED
  BY <1>1, <1>3, <1>5, <1>11, <1>12 DEF IInv, OnlyMistypedPanic

LEMMA ReadyInv ==
  ASSUME IInv, Refuse \/ DropReader
  PROVE  IInv'
<1>1. stage' = "ready" /\ UNCHANGED <<statement, starts, values, batch, args, seen>>
  BY DEF Refuse, DropReader
<1>2. StatementInv'
  BY <1>1 DEF IInv, StatementInv, statement, Stages
<1>3. QED
  BY <1>1, <1>2 DEF IInv, BindingInv, ArgumentsArrive, OnlyMistypedPanic

-----------------------------------------------------------------------------
LEMMA NextInv == IInv /\ [Next]_vars => IInv'
<1> SUFFICES ASSUME IInv, [Next]_vars PROVE IInv'
  OBVIOUS
<1>1. ASSUME NEW list \in ValueLists, Start(list) PROVE IInv'
  BY <1>1, StartInv
<1>2. CASE VecToRecordBatch \/ VecPanics
  BY <1>2, VecToRecordBatchInv, VecPanicsInv
<1>3. ASSUME NEW given \in Batches, NEW r \in 1 .. Len(given.nulls) + 1, StartBatch(given, r)
      PROVE  IInv'
  BY <1>3, StartBatchInv
<1>4. CASE TransportCell \/ TransportPanics
  BY <1>4, TransportCellInv, TransportPanicsInv
<1>5. CASE Execute
  BY <1>5, ExecuteInv
<1>6. CASE Refuse \/ DropReader
  BY <1>6, ReadyInv
<1>7. CASE UNCHANGED vars
  <2>1. UNCHANGED <<connector, placeholders, starts, stage, values, types, rows, row,
                    args, seen>>
    BY <1>7 DEF vars, statement, batch
  <2>2. StatementInv' /\ BindingInv'
    BY <2>1, SameBatch DEF IInv, StatementInv, BindingInv
  <2>3. ArgumentsArrive' /\ OnlyMistypedPanic'
    BY <2>1 DEF IInv, ArgumentsArrive, SameFormat, OnlyMistypedPanic
  <2>4. QED
    BY <2>1, <2>2, <2>3 DEF IInv
<1>8. QED
  BY <1>1, <1>2, <1>3, <1>4, <1>5, <1>6, <1>7 DEF Next

(* Whatever statements are started with, and however often.                *)
THEOREM Invariance == Spec => []IInv
<1>1. QED
  BY InitInv, NextInv, PTL DEF Spec

(* One cell per column, and no more values bound than there are columns.   *)
THEOREM TypeCorrect == Spec => []TypeOK
<1>1. IInv => TypeOK
  BY DEF IInv, StatementInv, BindingInv, TypeOK
<1>2. QED
  BY <1>1, Invariance, PTL

(* Each placeholder of a started query has the datum of this start at its  *)
(* position of the chosen row, with the stated exceptions.                 *)
THEOREM ArgumentsDoArrive == Spec => []ArgumentsArrive
<1>1. IInv => ArgumentsArrive
  BY DEF IInv
<1>2. QED
  BY <1>1, Invariance, PTL

(* start's conversion of its values panics only for a value that is not of *)
(* the type it is declared as, and for half floats and lists.              *)
THEOREM OnlyMistypedValuesPanic == Spec => []OnlyMistypedPanic
<1>1. IInv => OnlyMistypedPanic
  BY DEF IInv
<1>2. QED
  BY <1>1, Invariance, PTL

-----------------------------------------------------------------------------
(* The tables of TypeMaps: no name is under two keys.                      *)
Functional(tab) ==
  \A a, b \in DOMAIN tab : \A name \in tab[a] : name \in tab[b] => a = b

(* In such a table a name is found under the key it stands under.          *)
LEMMA LookupIs ==
  ASSUME NEW tab, Functional(tab), NEW key \in DOMAIN tab, NEW name \in tab[key]
  PROVE  Lookup(tab, name) = key
  BY LookupFinds DEF Functional

(* No type is consumed in two forms; no name of a column stands for two    *)
(* types; DuckDB has one column type for each Arrow type.                  *)
LEMMA ConsumedOnce ==
  /\ Functional(PgConsumes) /\ Functional(MssqlConsumes) /\ Functional(MySQLConsumes)
  /\ Functional(SQLiteConsumes)
  BY DEF Functional, PgConsumes, MssqlConsumes, MySQLConsumes, SQLiteConsumes, Time32s,
     Time64s,
         Timestamps, Durations, Texts, Binaries, Decimals

LEMMA NamedOnce ==
  /\ Functional(PgDbIntoArrow) /\ Functional(MssqlDbIntoArrow) /\ Functional(MySQLDbIntoArrow)
  /\ Functional(SQLiteDbIntoArrow) /\ Functional(DuckDBDbIntoArrow)
  /\ Functional(SQLiteDeclIntoArrow)
  BY DEF Functional, PgDbIntoArrow, MssqlDbIntoArrow, MySQLDbIntoArrow, SQLiteDbIntoArrow,
         DuckDBDbIntoArrow, SQLiteDeclIntoArrow

LEMMA DuckDBOnce == Functional(DuckDBArrowIntoDb)
  BY DEF Functional, DuckDBArrowIntoDb, Time32s, Time64s,
         Timestamps, Durations, Texts, Binaries, Intervals

(* What the types are.                                                     *)
LEMMA Kinds ==
  /\ \A name \in Whole : Kind(name) \in {"signed", "unsigned"}
  /\ \A name \in Floats : Kind(name) = "float"
  /\ \A name \in Texts : Kind(name) = "text"
  /\ \A name \in Binaries : Kind(name) = "bytes"
  /\ \A name \in Decimals \cup {"decimal", "numeric"} : Kind(name) = "decimal"
  /\ Kind("Null") = "null"
  /\ \A name \in Intervals : Kind(name) = "interval"
  BY DEF Kind, Whole, Transported, Floats, Time32s, Time64s, Timestamps, Durations, Texts,
     Binaries, Intervals, Decimals

(* transport() has no arm for nulls, which are not decimals either.        *)
LEMMA NullIsNotTransported == "Null" \notin Transported /\ "Null" \notin Decimals
  BY DEF Transported, Timestamps, Time32s, Time64s, Durations, Intervals, Binaries, Texts,
     Decimals

LEMMA BitsAreNumbers == \A name : Bits(name) \in Int
  BY DEF Bits

AllKinds == {"unsigned", "float", "text", "bytes", "decimal", "null", "interval", "signed"}

LEMMA KindIs == \A name : Kind(name) \in AllKinds
  BY DEF Kind, AllKinds

(* A type without a scale holds its own values.                            *)
LEMMA HoldsItself == \A name : Holds(Ty(name), Ty(name))
  BY KindIs, BitsAreNumbers DEF AllKinds, Holds, Ty

(* A result of MySQL names its columns otherwise than the catalog does;    *)
(* type_db_into_arrow maps both names to one Arrow type.                   *)
LEMMA MySQLNames ==
  ASSUME NEW name, ~ Misnamed("mysql", name)
  PROVE  /\ DbIntoArrow("mysql", MySQLResultName(name)) = DbIntoArrow("mysql", name)
         /\ CatalogName("mysql", name) = name
<1> DEFINE tab == MySQLDbIntoArrow
<1>1. \A db : DbIntoArrow("mysql", db) = Lookup(tab, db)
  BY DEF DbIntoArrow
<1>0. /\ name \notin {"enum", "set", "char_bin", "varchar_bin", "tinytext_bin", "text_bin",
                      "mediumtext_bin", "longtext_bin"}
      /\ CatalogName("mysql", name) = name
  BY DEF Misnamed, MySQLBinText, CatalogName
<1>2. CASE name \in {"integer", "int"}
  <2>1. Lookup(tab, "int") = "Int32" /\ Lookup(tab, name) = "Int32"
    BY <1>2, LookupIs, NamedOnce DEF MySQLDbIntoArrow
  <2>2. QED
    BY <1>0, <1>1, <1>2, <2>1 DEF MySQLResultName
<1>3. CASE name = "integer_unsigned"
  <2>1. Lookup(tab, "int_unsigned") = "UInt32" /\ Lookup(tab, name) = "UInt32"
    BY <1>3, LookupIs, NamedOnce DEF MySQLDbIntoArrow
  <2>2. QED
    BY <1>0, <1>1, <1>3, <2>1 DEF MySQLResultName
<1>4. CASE name = "decimal"
  <2>1. Lookup(tab, "newdecimal") = "Utf8" /\ Lookup(tab, name) = "Utf8"
    BY <1>4, LookupIs, NamedOnce DEF MySQLDbIntoArrow
  <2>2. QED
    BY <1>0, <1>1, <1>4, <2>1 DEF MySQLResultName
<1>5. CASE name \in {"tinytext", "mediumtext", "longtext", "text"}
  <2>1. Lookup(tab, "text") = "Utf8" /\ Lookup(tab, name) = "Utf8"
    BY <1>5, LookupIs, NamedOnce DEF MySQLDbIntoArrow
  <2>2. QED
    BY <1>0, <1>1, <1>5, <2>1 DEF MySQLResultName
<1>6. CASE name \in {"tinyblob", "mediumblob", "longblob", "blob"}
  <2>1. Lookup(tab, "blob") = "Binary" /\ Lookup(tab, name) = "Binary"
    BY <1>6, LookupIs, NamedOnce DEF MySQLDbIntoArrow
  <2>2. QED
    BY <1>0, <1>1, <1>6, <2>1 DEF MySQLResultName
<1>7. QED
  BY <1>0, <1>2, <1>3, <1>4, <1>5, <1>6 DEF MySQLResultName

(* So it does with the names of SQL Server, three for some types.          *)
LEMMA MssqlNames ==
  ASSUME NEW name, ~ Misnamed("mssql", name)
  PROVE  /\ DbIntoArrow("mssql", MssqlResultName(name)) = DbIntoArrow("mssql", name)
         /\ DbIntoArrow("mssql", CatalogName("mssql", name)) = DbIntoArrow("mssql", name)
<1> DEFINE tab == MssqlDbIntoArrow
<1>1. \A db : DbIntoArrow("mssql", db) = Lookup(tab, db)
  BY DEF DbIntoArrow
<1>2. /\ Lookup(tab, "numeric") = "Utf8" /\ Lookup(tab, "decimal") = "Utf8"
      /\ Lookup(tab, "real") = "Float32" /\ Lookup(tab, "float24") = "Float32"
      /\ Lookup(tab, "float") = "Float64" /\ Lookup(tab, "float53") = "Float64"
  BY LookupIs, NamedOnce DEF MssqlDbIntoArrow
<1>3. QED
  BY <1>1, <1>2 DEF MssqlResultName, CatalogName, Misnamed

(* The name in the catalog stands for the same type, too.                  *)
LEMMA CatalogNames ==
  ASSUME NEW conn \in Connector, NEW name, ~ Misnamed(conn, name)
  PROVE  DbIntoArrow(conn, CatalogName(conn, name)) = DbIntoArrow(conn, name)
<1>1. CASE conn = "mysql"
  BY <1>1, MySQLNames
<1>2. CASE conn = "mssql"
  BY <1>2, MssqlNames
<1>3. CASE conn \notin {"mysql", "mssql"}
  BY <1>3 DEF CatalogName
<1>4. QED
  BY <1>1, <1>2, <1>3

(* DuckDB gives its results the types type_db_into_arrow has, but for      *)
(* DATE and TIME.                                                          *)
LEMMA DuckDBNames ==
  ASSUME NEW name \in Listed(DuckDBDbIntoArrow) \ {"DATE"}
  PROVE  /\ DuckDBResultType(name) = DbIntoArrow("duckdb", name)
         /\ DbIntoArrow("duckdb", name) # None
<1>1. name # "DATE" /\ name # "TIME"
  BY DEF Listed, DuckDBDbIntoArrow
<1>2. PICK key \in DOMAIN DuckDBDbIntoArrow : name \in DuckDBDbIntoArrow[key]
  BY DEF Listed
<1>3. Lookup(DuckDBDbIntoArrow, name) = key
  BY <1>2, LookupIs, NamedOnce
<1>4. key # None
  BY DEF DuckDBDbIntoArrow, None
<1>5. QED
  BY <1>1, <1>3, <1>4 DEF DuckDBResultType, DbIntoArrow

(* The columns of PostgreSQL that table_create makes.                      *)
LEMMA PgColumns ==
  ASSUME NEW t \in CrateType, NEW n, NEW db, db = ColumnFor("pg", Field(t, n)).type, db.name # None
  PROVE  /\ db.name \in DOMAIN PgArrowIntoDb /\ t.name \in PgArrowIntoDb[db.name]
         /\ db.name # "decimal" => db = Ty(db.name)
         /\ db.name = "decimal" => db = IF t.name = "UInt64" THEN Decimal("decimal", 20, 0)
                                                       ELSE Decimal("decimal", t.p, t.s)
<1>1. db = ArrowIntoDb("pg", t)
  BY DEF ColumnFor, Field
<1>2. CASE t.name \in Decimals \cup {"UInt64"}
  <2>1. db = IF t.name = "UInt64" THEN Decimal("decimal", 20, 0) ELSE Decimal("decimal", t.p, t.s)
    BY <1>1, <1>2 DEF ArrowIntoDb, Decimals
  <2>2. db.name = "decimal"
    BY <2>1 DEF Decimal
  <2>3. QED
    BY <1>2, <2>1, <2>2 DEF PgArrowIntoDb
<1>3. CASE t.name \notin Decimals \cup {"UInt64"}
  <2>1. db = Ty(Lookup(PgArrowIntoDb, t.name))
    BY <1>1, <1>3 DEF ArrowIntoDb, ArrowIntoDbOf
  <2>2. db.name = Lookup(PgArrowIntoDb, t.name) /\ db = Ty(db.name)
    BY <2>1 DEF Ty
  <2>3. db.name \in DOMAIN PgArrowIntoDb /\ t.name \in PgArrowIntoDb[db.name]
    BY <2>2, LookupListed
  <2>4. db.name # "decimal"
    BY <2>3, <1>3 DEF PgArrowIntoDb
  <2>5. QED
    BY <2>2, <2>3, <2>4
<1>4. QED
  BY <1>2, <1>3

(* What a query reads them as.                                             *)
LEMMA PgArrow ==
  /\ DbIntoArrow("pg", "smallint") = "Int16" /\ DbIntoArrow("pg", "bool") = "Boolean"
  /\ DbIntoArrow("pg", "integer") = "Int32"  /\ DbIntoArrow("pg", "bigint") = "Int64"
  /\ DbIntoArrow("pg", "decimal") = "Utf8"   /\ DbIntoArrow("pg", "real") = "Float32"
  /\ DbIntoArrow("pg", "double_precision") = "Float64"
  /\ DbIntoArrow("pg", "text") = "Utf8" /\ DbIntoArrow("pg", "bytea") = "Binary"
<1>1. \A db : DbIntoArrow("pg", db) = Lookup(PgDbIntoArrow, db)
  BY DEF DbIntoArrow
<1>2. QED
  BY <1>1, LookupIs, NamedOnce DEF PgDbIntoArrow

(* Cells are sent in the format of the column that was made for them,      *)
LEMMA PgSent ==
  ASSUME NEW t, NEW key \in DOMAIN PgArrowIntoDb, t.name \in PgArrowIntoDb[key], t.name # "Null"
  PROVE  Wire("pg", t) = NativeFormat[key]
<1>1. NativeFormat[key] \in DOMAIN PgConsumes /\ t.name \in PgConsumes[NativeFormat[key]]
  BY DEF PgArrowIntoDb, NativeFormat, PgConsumes
<1>2. t.name \in Transported
  BY DEF PgArrowIntoDb, Transported
<1>3. Lookup(PgConsumes, t.name) = NativeFormat[key]
  BY <1>1, LookupIs, ConsumedOnce
<1>4. QED
  BY <1>2, <1>3 DEF Wire

(* which is as wide as they are.                                           *)
LEMMA PgHolds ==
  ASSUME NEW t \in CrateType, NEW n, NEW db, db = ColumnFor("pg", Field(t, n)).type, db.name # None
  PROVE  ColumnHolds("pg", db, t)
<1>1. CASE db.name = "decimal"
  <2>1. t.name \in Decimals \cup {"UInt64"}
    BY <1>1, PgColumns DEF PgArrowIntoDb
  <2>2. t.s \in Int /\ t.p \in Int
    BY DEF CrateType
  <2>3. Kind("decimal") = "decimal" /\ Kind("UInt64") = "unsigned"
    BY DEF Kind, Texts, Binaries, Decimals, Intervals
  <2>4. Holds(db, t)
    BY <1>1, <2>1, <2>2, <2>3, PgColumns, Kinds DEF Holds, Decimal, Decimals
  <2>5. QED
    BY <1>1, <2>4 DEF ColumnHolds
<1>2. CASE db.name # "decimal"
  <2>1. db.name \in DOMAIN PgArrowIntoDb /\ t.name \in PgArrowIntoDb[db.name] /\ db.name # "numeric"
    BY PgColumns DEF PgArrowIntoDb
  <2>2. Holds(Ty(DbIntoArrow("pg", db.name)), t)
    BY <1>2, <2>1, PgArrow, SMTT(30) DEF PgArrowIntoDb, Holds, Kind, Bits, Ty, Time32s,
       Time64s, Timestamps, Durations, Texts, Binaries, Intervals, Decimals
  <2>3. QED
    BY <1>2, <2>1, <2>2 DEF ColumnHolds
<1>3. QED
  BY <1>1, <1>2

(* The same of MySQL,                                                      *)
LEMMA MySQLColumns ==
  ASSUME NEW t \in CrateType, NEW n, NEW db, db = ColumnFor("mysql", Field(t, n)).type, db.name # None
  PROVE  \/ /\ t.name \notin Decimals \cup {"FixedSizeBinary"}
            /\ db.name \in DOMAIN MySQLArrowIntoDb /\ t.name \in MySQLArrowIntoDb[db.name]
            /\ db = Ty(db.name)
         \/ t.name = "FixedSizeBinary" /\ db.name \in {"binary", "blob", "mediumblob", "longblob"}
         \/ t.name \in Decimals /\ (db = Decimal("decimal", t.p, t.s) \/ db = Ty("text"))
<1>1. db = ArrowIntoDb("mysql", t)
  BY DEF ColumnFor, Field
<1>2. CASE t.name \in Decimals
  BY <1>1, <1>2 DEF ArrowIntoDb, Decimals
<1>3. CASE t.name = "FixedSizeBinary"
  <2>1. db = IF t.p \in DOMAIN MySQLFixedSizeBinary
             THEN Ty(MySQLFixedSizeBinary[t.p]) ELSE Ty(None)
    BY <1>1, <1>3 DEF ArrowIntoDb, Decimals
  <2>2. t.p \in DOMAIN MySQLFixedSizeBinary /\ db.name = MySQLFixedSizeBinary[t.p]
    BY <2>1 DEF Ty
  <2>3. db.name \in {"binary", "blob", "mediumblob", "longblob"}
    BY <2>2 DEF MySQLFixedSizeBinary
  <2>4. QED
    BY <1>3, <2>3
<1>4. CASE t.name \notin Decimals \cup {"FixedSizeBinary"}
  <2>1. db = Ty(Lookup(MySQLArrowIntoDb, t.name))
    BY <1>1, <1>4 DEF ArrowIntoDb, ArrowIntoDbOf
  <2>2. db.name = Lookup(MySQLArrowIntoDb, t.name) /\ db = Ty(db.name)
    BY <2>1 DEF Ty
  <2>3. QED
    BY <1>4, <2>2, LookupListed
<1>5. QED
  BY <1>2, <1>3, <1>4

LEMMA MySQLArrow ==
  /\ DbIntoArrow("mysql", "tinyint") = "Int8" /\ DbIntoArrow("mysql", "smallint") = "Int16"
  /\ DbIntoArrow("mysql", "integer") = "Int32" /\ DbIntoArrow("mysql", "bigint") = "Int64"
  /\ DbIntoArrow("mysql", "tinyint_unsigned") = "UInt8"
  /\ DbIntoArrow("mysql", "smallint_unsigned") = "UInt16"
  /\ DbIntoArrow("mysql", "integer_unsigned") = "UInt32"
  /\ DbIntoArrow("mysql", "bigint_unsigned") = "UInt64"
  /\ DbIntoArrow("mysql", "float") = "Float32" /\ DbIntoArrow("mysql", "double") = "Float64"
  /\ DbIntoArrow("mysql", "longtext") = "Utf8" /\ DbIntoArrow("mysql", "text") = "Utf8"
  /\ DbIntoArrow("mysql", "decimal") = "Utf8"
  /\ \A db \in {"binary", "blob", "mediumblob", "longblob"} : DbIntoArrow("mysql", db) = "Binary"
<1>1. \A db : DbIntoArrow("mysql", db) = Lookup(MySQLDbIntoArrow, db)
  BY DEF DbIntoArrow
<1>2. QED
  BY <1>1, LookupIs, NamedOnce DEF MySQLDbIntoArrow

LEMMA MySQLSent ==
  ASSUME NEW t \in CrateType, NEW n, ColumnFor("mysql", Field(t, n)).type.name # None
  PROVE  Wire("mysql", t) # None
<1>1. CASE t.name = "Null"
  BY <1>1, NullIsNotTransported DEF Wire, None
<1>2. CASE t.name # "Null"
  <2>1. \/ t.name \in Decimals \cup {"FixedSizeBinary"}
        \/ \E key \in DOMAIN MySQLArrowIntoDb : t.name \in MySQLArrowIntoDb[key]
    BY MySQLColumns
  <2>2. PICK key \in DOMAIN MySQLConsumes : t.name \in MySQLConsumes[key]
    <3>1. CASE t.name \in Decimals \cup {"FixedSizeBinary"}
      <4>1. t.name \in MySQLConsumes.Bytes
        BY <3>1 DEF MySQLConsumes, Binaries
      <4>2. QED
        BY <4>1 DEF MySQLConsumes
    <3>2. CASE \E key \in DOMAIN MySQLArrowIntoDb : t.name \in MySQLArrowIntoDb[key]
      BY <1>2, <3>2 DEF MySQLArrowIntoDb, MySQLConsumes, Binaries
    <3>3. QED
      BY <2>1, <3>1, <3>2
  <2>3. Lookup(MySQLConsumes, t.name) = key
    BY <2>2, LookupIs, ConsumedOnce
  <2>4. t.name \in Transported
    BY <2>2 DEF MySQLConsumes, Transported, Binaries, Decimals, Texts
  <2>5. key # None
    BY DEF MySQLConsumes, None
  <2>6. QED
    BY <1>2, <2>3, <2>4, <2>5 DEF Wire
<1>3. QED
  BY <1>1, <1>2

LEMMA MySQLHolds ==
  ASSUME NEW t \in CrateType, NEW n, NEW db, db = ColumnFor("mysql", Field(t, n)).type, db.name # None
  PROVE  ColumnHolds("mysql", db, t)
<1>1. CASE t.name \in Decimals
  <2>1. t.s \in Int /\ t.p \in Int
    BY DEF CrateType
  <2>2. Kind("decimal") = "decimal" /\ Kind(t.name) = "decimal" /\ Kind("Utf8") = "text"
    BY <1>1 DEF Kind, Texts, Binaries, Decimals, Intervals
  <2>3. CASE db = Decimal("decimal", t.p, t.s)
    <3>1. Holds(db, t)
      BY <2>1, <2>2, <2>3 DEF Holds, Decimal
    <3>2. QED
      BY <2>3, <3>1 DEF ColumnHolds, Decimal
  <2>4. CASE db = Ty("text")
    <3>1. Holds(Ty("Utf8"), t)
      BY <2>2 DEF Holds, Ty
    <3>2. QED
      BY <2>4, <3>1, MySQLArrow DEF ColumnHolds, Ty
  <2>5. QED
    BY <1>1, <2>3, <2>4, MySQLColumns DEF Decimals
<1>2. CASE t.name = "FixedSizeBinary"
  <2>1. db.name \in {"binary", "blob", "mediumblob", "longblob"}
    BY <1>2, MySQLColumns DEF Decimals
  <2>2. Holds(Ty("Binary"), t)
    BY <1>2 DEF Holds, Kind, Ty, Texts, Binaries, Decimals, Intervals
  <2>3. QED
    BY <2>1, <2>2, MySQLArrow DEF ColumnHolds
<1>3. CASE t.name \notin Decimals \cup {"FixedSizeBinary"}
  <2>1. db.name \in DOMAIN MySQLArrowIntoDb /\ t.name \in MySQLArrowIntoDb[db.name]
    BY <1>3, MySQLColumns
  <2>2. db.name \notin {"decimal", "numeric"}
    BY <2>1 DEF MySQLArrowIntoDb
  <2>3. Holds(Ty(DbIntoArrow("mysql", db.name)), t)
    BY <2>1, MySQLArrow, SMTT(30) DEF MySQLArrowIntoDb, Holds, Kind, Bits, Ty, Time32s,
       Timestamps, Texts, Binaries, Intervals, Decimals
  <2>4. QED
    BY <2>2, <2>3 DEF ColumnHolds
<1>4. QED
  BY <1>1, <1>2, <1>3

(* of SQL Server,                                                          *)
LEMMA MssqlColumns ==
  ASSUME NEW t \in CrateType, NEW n, NEW db, db = ColumnFor("mssql", Field(t, n)).type, db.name # None
  PROVE  IF t.name \in Decimals
         THEN IF CanDecimalFitInNumeric(t.p, t.s)
              THEN db = Decimal("numeric", t.p, t.s) ELSE db = Ty("nvarchar")
         ELSE /\ db.name \in DOMAIN MssqlArrowIntoDb /\ t.name \in MssqlArrowIntoDb[db.name]
              /\ IF t.name = "UInt64" THEN db = Decimal("decimal", 20, 0)
                 ELSE db = Ty(db.name) /\ db.name # "decimal"
<1>1. db = ArrowIntoDb("mssql", t)
  BY DEF ColumnFor, Field
<1>2. CASE t.name \in Decimals
  BY <1>1, <1>2 DEF ArrowIntoDb, Decimals
<1>3. CASE t.name = "UInt64"
  <2>1. db = Decimal("decimal", 20, 0)
    BY <1>1, <1>3 DEF ArrowIntoDb, Decimals
  <2>2. QED
    BY <1>3, <2>1 DEF Decimal, Decimals, MssqlArrowIntoDb
<1>4. CASE t.name \notin Decimals \cup {"UInt64"}
  <2>1. db = Ty(Lookup(MssqlArrowIntoDb, t.name))
    BY <1>1, <1>4 DEF ArrowIntoDb, ArrowIntoDbOf
  <2>2. db.name = Lookup(MssqlArrowIntoDb, t.name) /\ db = Ty(db.name)
    BY <2>1 DEF Ty
  <2>3. db.name \in DOMAIN MssqlArrowIntoDb /\ t.name \in MssqlArrowIntoDb[db.name]
    BY <2>2, LookupListed
  <2>4. db.name # "decimal"
    BY <2>3, <1>4 DEF MssqlArrowIntoDb
  <2>5. QED
    BY <1>4, <2>2, <2>3, <2>4
<1>5. QED
  BY <1>2, <1>3, <1>4

LEMMA MssqlArrow ==
  /\ DbIntoArrow("mssql", "tinyint") = "UInt8" /\ DbIntoArrow("mssql", "bit") = "Boolean"
  /\ DbIntoArrow("mssql", "smallint") = "Int16" /\ DbIntoArrow("mssql", "int") = "Int32"
  /\ DbIntoArrow("mssql", "bigint") = "Int64" /\ DbIntoArrow("mssql", "decimal") = "Utf8"
  /\ DbIntoArrow("mssql", "numeric") = "Utf8" /\ DbIntoArrow("mssql", "float24") = "Float32"
  /\ DbIntoArrow("mssql", "float53") = "Float64" /\ DbIntoArrow("mssql", "nvarchar") = "Utf8"
<1>1. \A db : DbIntoArrow("mssql", db) = Lookup(MssqlDbIntoArrow, db)
  BY DEF DbIntoArrow
<1>2. QED
  BY <1>1, LookupIs, NamedOnce DEF MssqlDbIntoArrow

LEMMA MssqlSent ==
  ASSUME NEW t \in CrateType, NEW n, NEW db, db = ColumnFor("mssql", Field(t, n)).type, db.name # None,
         t.name # "Null"
  PROVE  Wire("mssql", t) = BulkFormat[db.name]
<1>1. CASE t.name \in Decimals
  BY <1>1, MssqlColumns, NullIsNotTransported DEF Wire, BulkFormat, Decimal, Ty, Transported
<1>2. CASE t.name \notin Decimals
  <2>1. db.name \in DOMAIN MssqlArrowIntoDb /\ t.name \in MssqlArrowIntoDb[db.name]
    BY <1>2, MssqlColumns
  <2>2. BulkFormat[db.name] \in DOMAIN MssqlConsumes /\ t.name \in MssqlConsumes[BulkFormat[db.name]]
    BY <2>1 DEF MssqlArrowIntoDb, BulkFormat, MssqlConsumes
  <2>3. t.name \in Transported
    BY <2>1, <1>2 DEF MssqlArrowIntoDb, Transported, CrateType
  <2>4. Lookup(MssqlConsumes, t.name) = BulkFormat[db.name]
    BY <2>2, LookupIs, ConsumedOnce
  <2>5. QED
    BY <1>2, <2>3, <2>4 DEF Wire
<1>3. QED
  BY <1>1, <1>2

LEMMA MssqlHolds ==
  ASSUME NEW t \in CrateType, NEW n, NEW db, db = ColumnFor("mssql", Field(t, n)).type, db.name # None
  PROVE  ColumnHolds("mssql", db, t)
<1>1. CASE t.name \in Decimals
  <2>1. t.s \in Int /\ t.p \in Int
    BY DEF CrateType
  <2>2. Kind("numeric") = "decimal" /\ Kind(t.name) = "decimal" /\ Kind("Utf8") = "text"
    BY <1>1 DEF Kind, Texts, Binaries, Decimals, Intervals
  <2>3. CASE db = Decimal("numeric", t.p, t.s)
    <3>1. Holds(db, t)
      BY <2>1, <2>2, <2>3 DEF Holds, Decimal
    <3>2. QED
      BY <2>3, <3>1 DEF ColumnHolds, Decimal
  <2>4. CASE db = Ty("nvarchar")
    <3>1. Holds(Ty("Utf8"), t)
      BY <2>2 DEF Holds, Ty
    <3>2. QED
      BY <2>4, <3>1, MssqlArrow DEF ColumnHolds, Ty
  <2>5. QED
    BY <1>1, <2>3, <2>4, MssqlColumns
<1>2. CASE t.name = "UInt64"
  <2>1. db = Decimal("decimal", 20, 0)
    BY <1>2, MssqlColumns DEF Decimals
  <2>2. Kind("decimal") = "decimal" /\ Kind(t.name) = "unsigned"
    BY <1>2 DEF Kind, Texts, Binaries, Decimals, Intervals
  <2>3. Holds(db, t)
    BY <2>1, <2>2 DEF Holds, Decimal
  <2>4. QED
    BY <2>1, <2>3 DEF ColumnHolds, Decimal
<1>3. CASE t.name \notin Decimals \cup {"UInt64"}
  <2>1. db.name \in DOMAIN MssqlArrowIntoDb \ {"decimal"} /\ t.name \in MssqlArrowIntoDb[db.name]
    BY <1>3, MssqlColumns
  <2>2. db.name \notin {"decimal", "numeric"}
    BY <2>1 DEF MssqlArrowIntoDb
  <2>3. Holds(Ty(DbIntoArrow("mssql", db.name)), t)
    BY <2>1, MssqlArrow, SMTT(30) DEF MssqlArrowIntoDb, Holds, Kind, Bits, Ty, Time32s,
       Timestamps, Texts, Binaries, Intervals, Decimals
  <2>4. QED
    BY <2>2, <2>3 DEF ColumnHolds
<1>4. QED
  BY <1>1, <1>2, <1>3

(* of SQLite, whose values have a class each: it is the declared one,      *)
LEMMA SQLiteColumns ==
  ASSUME NEW t \in CrateType, NEW n, NEW db, db = ColumnFor("sqlite", Field(t, n)).type
  PROVE  /\ db.name \in {None, "NULL", "INTEGER", "REAL", "TEXT", "BLOB"}
         /\ db.name = "NULL" <=> t.name = "Null"
         /\ t.name # "Null" => Wire("sqlite", t) = db.name
         /\ db.name # None => Wire("sqlite", t) # None
<1>1. db = Ty(Lookup(SQLiteArrowIntoDb, t.name))
  BY DEF ColumnFor, Field, ArrowIntoDb, ArrowIntoDbOf
<1>2. SQLiteArrowIntoDb = SQLiteConsumes
  BY DEF SQLiteArrowIntoDb, SQLiteConsumes
<1>3. db.name = Lookup(SQLiteConsumes, t.name)
  BY <1>1, <1>2 DEF Ty
<1>4. db.name # None => db.name \in {"NULL", "INTEGER", "REAL", "TEXT", "BLOB"} /\ t.name \in SQLiteConsumes[db.name]
  BY <1>3, LookupListed DEF SQLiteConsumes
<1>5. t.name = "Null" => db.name = "NULL"
  BY <1>3, LookupIs, ConsumedOnce DEF SQLiteConsumes
<1>6. db.name = "NULL" => t.name = "Null"
  BY <1>4 DEF SQLiteConsumes, None
<1>7. t.name = "Null" => Wire("sqlite", t) # None
  BY NullIsNotTransported DEF Wire, None
<1>8. t.name # "Null" /\ t.name \in Transported => Wire("sqlite", t) = db.name
  BY <1>3 DEF Wire
<1>9. t.name # "Null" /\ t.name \notin Transported => Wire("sqlite", t) = None /\ t.name = "List"
  BY DEF Wire, CrateType
<1>10. t.name = "List" => db.name = None
  BY <1>4 DEF SQLiteConsumes, Timestamps, Time32s, Time64s, Durations, Texts, Decimals,
     Binaries
<1>11. QED
  BY <1>4, <1>5, <1>6, <1>7, <1>8, <1>9, <1>10

LEMMA SQLiteArrow ==
  /\ DbIntoArrow("sqlite", "INTEGER") = "Int64" /\ DbIntoArrow("sqlite", "REAL") = "Float64"
  /\ DbIntoArrow("sqlite", "TEXT") = "Utf8" /\ DbIntoArrow("sqlite", "BLOB") = "Binary"
  /\ DbIntoArrow("sqlite", "NULL") = "Null"
<1>1. \A db : DbIntoArrow("sqlite", db) = Lookup(SQLiteDbIntoArrow, db)
  BY DEF DbIntoArrow
<1>2. QED
  BY <1>1, LookupIs, NamedOnce DEF SQLiteDbIntoArrow

LEMMA SQLiteHolds ==
  ASSUME NEW t \in CrateType, NEW n, NEW db, db = ColumnFor("sqlite", Field(t, n)).type,
         db.name \in {"INTEGER", "REAL", "TEXT", "BLOB"}
  PROVE  Holds(Ty(DbIntoArrow("sqlite", db.name)), t)
<1>1. db = Ty(Lookup(SQLiteArrowIntoDb, t.name))
  BY DEF ColumnFor, Field, ArrowIntoDb, ArrowIntoDbOf
<1>2. t.name \in SQLiteArrowIntoDb[db.name]
  BY <1>1, LookupListed DEF Ty, None
<1>3. QED
  BY <1>2, SQLiteArrow, SMTT(30) DEF SQLiteArrowIntoDb, Holds, Kind, Bits, Ty, Time32s,
     Time64s, Timestamps, Durations, Texts, Binaries, Intervals, Decimals

(* The affinity table_get reads of a declared type                         *)
LEMMA SQLiteDecl ==
  /\ Lookup(SQLiteDeclIntoArrow, "INTEGER") = "Int64" /\ Lookup(SQLiteDeclIntoArrow, "REAL") = "Float64"
  /\ Lookup(SQLiteDeclIntoArrow, "TEXT") = "LargeUtf8" /\ Lookup(SQLiteDeclIntoArrow, "BLOB") = "LargeBinary"
  BY LookupIs, NamedOnce DEF SQLiteDeclIntoArrow

(* stands for the values of its class.                                     *)
LEMMA SQLiteAgree ==
  ASSUME NEW name \in {"INTEGER", "REAL", "TEXT", "BLOB"}
  PROVE  /\ Holds(Ty(DbIntoArrow("sqlite", name)), Ty(Lookup(SQLiteDeclIntoArrow, name)))
         /\ Holds(Ty(Lookup(SQLiteDeclIntoArrow, name)), Ty(DbIntoArrow("sqlite", name)))
<1>1. /\ Holds(Ty("Utf8"), Ty("LargeUtf8")) /\ Holds(Ty("LargeUtf8"), Ty("Utf8"))
      /\ Holds(Ty("Binary"), Ty("LargeBinary")) /\ Holds(Ty("LargeBinary"), Ty("Binary"))
  BY DEF Holds, Kind, Ty, Texts, Binaries, Decimals, Intervals
<1>2. QED
  BY <1>1, HoldsItself, SQLiteDecl, SQLiteArrow

(* and of DuckDB, where table_create has its own table of types: it has    *)
(* no type that type_arrow_into_db does not have, and agrees with it.      *)
LEMMA DuckDBColumns ==
  ASSUME NEW t \in CrateType, NEW n, NEW db, db = ColumnFor("duckdb", Field(t, n)).type, db.name # None
  PROVE  /\ db.name \in DOMAIN DuckDBTyFromArrow /\ t.name \in DuckDBTyFromArrow[db.name]
         /\ db = Ty(db.name)
         /\ db.name \in Listed(DuckDBDbIntoArrow) \ {"DATE"}
         /\ ArrowIntoDb("duckdb", t).name = db.name
<1>1. db = Ty(Lookup(DuckDBTyFromArrow, t.name))
  BY DEF ColumnFor, Field
<1>2. /\ db.name \in DOMAIN DuckDBTyFromArrow /\ t.name \in DuckDBTyFromArrow[db.name]
      /\ db = Ty(db.name)
  BY <1>1, LookupListed DEF Ty
<1>3. db.name \in Listed(DuckDBDbIntoArrow) \ {"DATE"}
  BY <1>2 DEF Listed, DuckDBDbIntoArrow, DuckDBTyFromArrow
<1>4. db.name \in DOMAIN DuckDBArrowIntoDb /\ t.name \in DuckDBArrowIntoDb[db.name]
  BY <1>2 DEF DuckDBTyFromArrow, DuckDBArrowIntoDb
<1>5. ArrowIntoDb("duckdb", t) = Ty(Lookup(DuckDBArrowIntoDb, t.name))
  BY DEF ArrowIntoDb, ArrowIntoDbOf
<1>6. QED
  BY <1>2, <1>3, <1>4, <1>5, LookupIs, DuckDBOnce DEF Ty

LEMMA DuckDBArrow ==
  /\ DbIntoArrow("duckdb", "BOOLEAN") = "Boolean" /\ DbIntoArrow("duckdb", "TINYINT") = "Int8"
  /\ DbIntoArrow("duckdb", "SMALLINT") = "Int16" /\ DbIntoArrow("duckdb", "INTEGER") = "Int32"
  /\ DbIntoArrow("duckdb", "BIGINT") = "Int64" /\ DbIntoArrow("duckdb", "UTINYINT") = "UInt8"
  /\ DbIntoArrow("duckdb", "USMALLINT") = "UInt16" /\ DbIntoArrow("duckdb", "UINTEGER") = "UInt32"
  /\ DbIntoArrow("duckdb", "UBIGINT") = "UInt64" /\ DbIntoArrow("duckdb", "REAL") = "Float32"
  /\ DbIntoArrow("duckdb", "DOUBLE") = "Float64" /\ DbIntoArrow("duckdb", "TIMESTAMP") = "TimestampMicrosecond"
  /\ DbIntoArrow("duckdb", "BLOB") = "Binary" /\ DbIntoArrow("duckdb", "VARCHAR") = "Utf8"
<1>1. \A db : DbIntoArrow("duckdb", db) = Lookup(DuckDBDbIntoArrow, db)
  BY DEF DbIntoArrow
<1>2. QED
  BY <1>1, LookupIs, NamedOnce DEF DuckDBDbIntoArrow

LEMMA DuckDBHolds ==
  ASSUME NEW t \in CrateType, NEW n, NEW db, db = ColumnFor("duckdb", Field(t, n)).type, db.name # None
  PROVE  ColumnHolds("duckdb", db, t) /\ Wire("duckdb", t) # None
<1>1. db.name \in DOMAIN DuckDBTyFromArrow /\ t.name \in DuckDBTyFromArrow[db.name]
  BY DuckDBColumns
<1>2. db.name \notin {"decimal", "numeric"}
  BY <1>1 DEF DuckDBTyFromArrow
<1>3. Holds(Ty(DbIntoArrow("duckdb", db.name)), t)
  BY <1>1, DuckDBArrow, SMTT(30) DEF DuckDBTyFromArrow, Holds, Kind, Bits, Ty, Time32s,
     Timestamps, Texts, Binaries, Intervals, Decimals
<1>4. t.name \in DuckDBConsumes
  BY <1>1 DEF DuckDBTyFromArrow, DuckDBConsumes, Timestamps, Binaries, Texts
<1>5. Lookup([Value |-> DuckDBConsumes], t.name) = "Value"
  BY <1>4 DEF Lookup
<1>6. t.name \in Transported \cup {"Null"}
  BY <1>4 DEF DuckDBConsumes, Transported
<1>7. Wire("duckdb", t) # None
  BY <1>5, <1>6, NullIsNotTransported DEF Wire, None
<1>8. QED
  BY <1>2, <1>3, <1>7 DEF ColumnHolds

(* Names of column types a server can report: see LegalForeign.            *)
LegalName(conn, name) ==
  /\ conn = "mysql"  => name # "null"
  /\ conn = "mssql"  => name \notin {"null", "intn"}
  /\ conn = "duckdb" => name \in Listed(DuckDBDbIntoArrow) \ {"DATE"}

(* All connectors: a column made for a type holds its values, takes them   *)
(* in the form they are sent in, and has an Arrow type to be read as.      *)
LEMMA OwnColumns ==
  ASSUME NEW conn \in Connector, NEW t \in CrateType, NEW n, NEW db,
         db = ColumnFor(conn, Field(t, n)).type, db.name # None
  PROVE  /\ ColumnHolds(conn, db, t)
         /\ Wire(conn, t) # None
         /\ t.name # "Null" => /\ FormatFits(conn, db.name, Wire(conn, t))
                               /\ ~ Misread(conn, db.name, Wire(conn, t))
         /\ DbIntoArrow(conn, db.name) # None
         /\ LegalName(conn, db.name) /\ ~ Misnamed(conn, db.name)
         /\ ArrowIntoDb(conn, t).name = db.name
<1>1. conn # "duckdb" => ArrowIntoDb(conn, t).name = db.name
  BY DEF ColumnFor, Field
<1>2. CASE conn = "pg"
  <2>1. ColumnHolds(conn, db, t)
    BY <1>2, PgHolds
  <2>2. t.name # "Null" => Wire(conn, t) = NativeFormat[db.name] /\ Wire(conn, t) # None
    <3>1. db.name \in DOMAIN PgArrowIntoDb /\ t.name \in PgArrowIntoDb[db.name]
      BY <1>2, PgColumns
    <3>2. NativeFormat[db.name] # None
      BY <3>1 DEF PgArrowIntoDb, NativeFormat, None
    <3>3. QED
      BY <1>2, <3>1, <3>2, PgSent
  <2>3. t.name = "Null" => Wire(conn, t) # None
    BY NullIsNotTransported DEF Wire, None
  <2>4. DbIntoArrow(conn, db.name) # None
    BY <1>2, PgColumns, PgArrow DEF PgArrowIntoDb, None
  <2>5. QED
    BY <1>1, <1>2, <2>1, <2>2, <2>3, <2>4 DEF FormatFits, Misread, SameLength, LegalName,
       Misnamed
<1>3. CASE conn = "mysql"
  <2>1. ColumnHolds(conn, db, t)
    BY <1>3, MySQLHolds
  <2>2. Wire(conn, t) # None
    BY <1>3, MySQLSent
  <2>3. DbIntoArrow(conn, db.name) # None
    BY <1>3, MySQLColumns, MySQLArrow DEF MySQLArrowIntoDb, None, Decimal, Ty
  <2>4. db.name # "null" /\ ~ Misnamed(conn, db.name)
    BY <1>3, MySQLColumns DEF MySQLArrowIntoDb, Decimal, Ty, Misnamed, MySQLBinText
  <2>5. QED
    BY <1>1, <1>3, <2>1, <2>2, <2>3, <2>4 DEF FormatFits, Misread, LegalName
<1>4. CASE conn = "mssql"
  <2>1. ColumnHolds(conn, db, t)
    BY <1>4, MssqlHolds
  <2>2. db.name \in DOMAIN BulkFormat
    BY <1>4, MssqlColumns DEF MssqlArrowIntoDb, BulkFormat, Decimal, Ty
  <2>3. t.name # "Null" => Wire(conn, t) = BulkFormat[db.name] /\ Wire(conn, t) # None
    <3>1. BulkFormat[db.name] # None
      BY <2>2 DEF BulkFormat, None
    <3>2. QED
      BY <1>4, <3>1, MssqlSent
  <2>4. t.name = "Null" => Wire(conn, t) # None
    BY NullIsNotTransported DEF Wire, None
  <2>5. DbIntoArrow(conn, db.name) # None
    BY <1>4, <2>2, MssqlArrow DEF BulkFormat, None
  <2>6. db.name \notin {"null", "intn"} /\ ~ Misnamed(conn, db.name)
    BY <1>4, <2>2 DEF BulkFormat, Misnamed
  <2>7. QED
    BY <1>1, <1>4, <2>1, <2>3, <2>4, <2>5, <2>6 DEF FormatFits, Misread, LegalName
<1>5. CASE conn = "sqlite"
  <2>1. DbIntoArrow(conn, db.name) # None
    BY <1>5, SQLiteColumns, SQLiteArrow DEF None
  <2>2. QED
    BY <1>1, <1>5, <2>1, SQLiteColumns DEF FormatFits, Misread, LegalName, ColumnHolds,
       Misnamed
<1>6. CASE conn = "duckdb"
  BY <1>6, DuckDBHolds, DuckDBColumns, DuckDBNames DEF FormatFits, Misread, LegalName,
     Misnamed
<1>7. QED
  BY <1>2, <1>3, <1>4, <1>5, <1>6 DEF Connector

(* Every Arrow type that type_db_into_arrow names can be produced.         *)
LEMMA ArrowIsProduced ==
  ASSUME NEW name, client \in Connector, DbIntoArrow(client, name) # None
  PROVE  DbIntoArrow(client, name) \in Produced \cup {"Null"}
<1>1. CASE client = "pg"
  BY <1>1, LookupListed DEF DbIntoArrow, Produced, PgDbIntoArrow, PgProduces
<1>2. CASE client = "mysql"
  BY <1>2, LookupListed DEF DbIntoArrow, Produced, MySQLDbIntoArrow, MySQLProduces
<1>3. CASE client = "mssql"
  BY <1>3, LookupListed DEF DbIntoArrow, Produced, MssqlDbIntoArrow, MssqlProduces, Texts
<1>4. CASE client = "sqlite"
  BY <1>4, LookupListed DEF DbIntoArrow, Produced, SQLiteDbIntoArrow, SQLiteProduces
<1>5. CASE client = "duckdb"
  BY <1>5, LookupListed DEF DbIntoArrow, Produced, DuckDBDbIntoArrow, Transported,
     Timestamps, Texts, Binaries
<1>6. QED
  BY <1>1, <1>2, <1>3, <1>4, <1>5 DEF Connector

(* The result of a query has a type, and but for SQLite it is not Null.    *)
LEMMA NeverNull ==
  ASSUME NEW conn \in Connector \ {"sqlite"}, NEW name, LegalName(conn, name)
  PROVE  TypeOf(conn, name).name \notin {"Null", None}
<1>1. DbIntoArrow(conn, name) # "Null"
  <2>1. CASE conn = "pg"
    BY <2>1, LookupListed DEF DbIntoArrow, PgDbIntoArrow, None
  <2>2. CASE conn = "mysql"
    BY <2>2, LookupListed DEF DbIntoArrow, MySQLDbIntoArrow, None, LegalName
  <2>3. CASE conn = "mssql"
    BY <2>3, LookupListed DEF DbIntoArrow, MssqlDbIntoArrow, None, LegalName
  <2>4. CASE conn = "duckdb"
    BY <2>4, LookupListed DEF DbIntoArrow, DuckDBDbIntoArrow, None
  <2>5. QED
    BY <2>1, <2>2, <2>3, <2>4 DEF Connector
<1>2. QED
  BY <1>1 DEF TypeOf, Ty, None

(* The Arrow type a column is read as holds what the column does: a        *)
(* decimal becomes a text.                                                 *)
LEMMA ColumnsWiden ==
  ASSUME NEW conn \in Connector \ {"sqlite"}, NEW t \in CrateType, NEW n, NEW db,
         db = ColumnFor(conn, Field(t, n)).type, db.name # None,
         NEW from, ColumnHolds(conn, db, from)
  PROVE  Holds(TypeOf(conn, db.name), from)
<1>1. TypeOf(conn, db.name) = Ty(DbIntoArrow(conn, db.name))
  BY OwnColumns DEF TypeOf
<1>2. CASE db.name \in {"decimal", "numeric"}
  <2>1. DbIntoArrow(conn, db.name) = "Utf8"
    <3>1. CASE conn = "pg"
      BY <1>2, <3>1, PgColumns, PgArrow DEF PgArrowIntoDb
    <3>2. CASE conn = "mysql"
      BY <1>2, <3>2, MySQLColumns, MySQLArrow DEF MySQLArrowIntoDb, Ty, Decimal
    <3>3. CASE conn = "mssql"
      BY <1>2, <3>3, MssqlArrow
    <3>4. CASE conn = "duckdb"
      BY <1>2, <3>4, DuckDBColumns DEF DuckDBTyFromArrow
    <3>5. QED
      BY <3>1, <3>2, <3>3, <3>4 DEF Connector
  <2>2. Kind(db.name) = "decimal"
    BY <1>2, Kinds
  <2>3. Kind("Utf8") = "text"
    BY Kinds DEF Texts
  <2>4. Holds(db, from)
    BY <1>2 DEF ColumnHolds
  <2>5. Kind(from.name) \in {"null", "decimal", "unsigned"}
    BY <2>2, <2>4 DEF Holds
  <2>6. QED
    BY <1>1, <2>1, <2>3, <2>5 DEF Holds, Ty
<1>3. CASE db.name \notin {"decimal", "numeric"}
  BY <1>1, <1>3 DEF ColumnHolds
<1>4. QED
  BY <1>2, <1>3

(* A float that has the format of the column is not rounded by it.         *)
LEMMA FloatsFit ==
  ASSUME NEW conn \in {"pg", "mssql"}, NEW t \in CrateType, NEW n, NEW db,
         db = ColumnFor(conn, Field(t, n)).type, db.name # None,
         NEW from, from.name \in Floats,
         FormatFits(conn, db.name, Wire(conn, from)), ~ Misread(conn, db.name, Wire(conn, from))
  PROVE  ColumnHolds(conn, db, from)
<1>1. from.name \in Transported /\ from.name # "Null" /\ from.name \notin Decimals
  BY DEF Floats, Transported, Decimals
<1>2. CASE conn = "pg"
  <2>1. Wire("pg", from) = IF from.name = "Float64" THEN "float8" ELSE "float4"
    BY <1>1, LookupIs, ConsumedOnce DEF Wire, Floats, PgConsumes
  <2>2. db.name \in DOMAIN PgArrowIntoDb
    BY <1>2, PgColumns
  <2>3. Wire("pg", from) = NativeFormat[db.name]
    BY <1>2 DEF Misread
  <2>4. db.name = IF from.name = "Float64" THEN "double_precision" ELSE "real"
    BY <2>1, <2>2, <2>3 DEF PgArrowIntoDb, NativeFormat
  <2>5. Holds(Ty(DbIntoArrow("pg", db.name)), from)
    BY <2>4, PgArrow DEF Floats, Holds, Kind, Bits, Ty, Texts, Binaries, Decimals,
       Intervals, Time32s
  <2>6. QED
    BY <1>2, <2>4, <2>5 DEF ColumnHolds
<1>3. CASE conn = "mssql"
  <2>1. Wire("mssql", from) = IF from.name = "Float64" THEN "F64" ELSE "F32"
    BY <1>1, LookupIs, ConsumedOnce DEF Wire, Floats, MssqlConsumes
  <2>2. db.name \in DOMAIN BulkFormat
    BY <1>3, MssqlColumns DEF MssqlArrowIntoDb, BulkFormat, Decimal, Ty
  <2>3. Wire("mssql", from) = BulkFormat[db.name]
    BY <1>3 DEF FormatFits
  <2>4. db.name = IF from.name = "Float64" THEN "float53" ELSE "float24"
    BY <2>1, <2>2, <2>3 DEF BulkFormat
  <2>5. Holds(Ty(DbIntoArrow("mssql", db.name)), from)
    BY <2>4, MssqlArrow DEF Floats, Holds, Kind, Bits, Ty, Texts, Binaries, Decimals,
       Intervals, Time32s
  <2>6. QED
    BY <1>3, <2>4, <2>5 DEF ColumnHolds
<1>4. QED
  BY <1>2, <1>3
-----------------------------------------------------------------------------
(* A table of the crate's is one of the Cases; nothing happens to it       *)
(* until it is created, and nothing afterwards unless there is a type for  *)
(* its column.                                                             *)
OwnInv ==
  /\ \E c \in Cases : /\ client = c.connector
                      /\ field = Field(c.type, c.nullable)
                      /\ batchField = c.batch
  /\ progress = "new" => sent = <<>> /\ result = NoField /\ described = NoField
  /\ progress # "new" => column = ColumnFor(client, field)
  /\ client # "sqlite" /\ column.type.name = None =>
       progress \in {"new", "panicked"} /\ sent = <<>> /\ result = NoField /\ described = NoField

(* Any other table has one row, and nothing is appended to it.             *)
ForeignInv ==
  /\ batchField = NoField /\ sent = <<>> /\ progress # "new"
  /\ held \in { <<"small">>, <<"null">> }
  /\ \E t \in Foreign : /\ client = t.connector
                        /\ column = [type |-> t.type, nullable |-> t.nullable]
                        /\ held = <<"null">> => t.nullable

(* Each cell the table holds is what the server makes of one it has taken. *)
HeldInv ==
  field # NoField =>
    /\ Len(sent) = Len(held)
    /\ \A i \in 1 .. Len(sent) :
         /\ sent[i] \in CellsOf(batchField) /\ Encodes(sent[i]) /\ TakenByServer(sent[i])
         /\ held[i] = Stored(sent[i])

(* Result and description are those of the column, and of the rows that    *)
(* were there at the time: none is added behind a query.                   *)
ResultInv ==
  /\ progress = "queried" => result # NoField
  /\ result # NoField => result = ResultField /\ progress \in {"queried", "panicked"}
  /\ described # NoField => described = DescribedField

(* What the result's type makes of a cell held.                            *)
Converted(cell) ==
  IF cell = "extreme" /\ ~ Holds(result.type, batchField.type) THEN "altered" ELSE cell

(* The cells read are the first ones held, converted.                      *)
ReadBackInv ==
  /\ Len(read) <= Len(held)
  /\ read # <<>> => result # NoField
  /\ \A i \in 1 .. Len(read) : read[i] = Converted(held[i])

(* The inductive invariant.                                                *)
RoundtripInv ==
  /\ client \in Connector /\ progress \in Progress
  /\ sent \in Seq(Cells) /\ held \in Seq(Cells) /\ read \in Seq(Cells)
  /\ Len(sent) <= MaxRows
  /\ field # NoField => OwnInv
  /\ field = NoField => ForeignInv
  /\ HeldInv /\ ResultInv /\ ReadBackInv
  /\ SupportedRoundtrips
  /\ OnlyUnmappedPanics

-----------------------------------------------------------------------------
(* A field of the crate is not NoField.                                    *)
LEMMA NoFieldHasNoType ==
  /\ NoField.type.name = None
  /\ \A t \in CrateType : \A n : Field(t, n) # NoField
<1>1. \A t \in CrateType : t.name # None
  BY DEF CrateType, None, Transported, Timestamps, Time32s, Time64s, Durations, Intervals,
     Binaries, Texts, Decimals
<1>2. QED
  BY <1>1 DEF NoField, Field, Ty

(* The field, the column and the batches of a table of the crate's.        *)
LEMMA OwnTable ==
  ASSUME OwnInv, progress # "new"
  PROVE  \E t \in CrateType, n \in BOOLEAN :
           /\ client \in Connector /\ field = Field(t, n) /\ column = ColumnFor(client, Field(t, n))
           /\ batchField.type \in CrateType
           /\ batchField.type = t \/ MayDiffer(client, t, batchField.type)
<1>1. PICK c \in Cases : client = c.connector /\ field = Field(c.type, c.nullable) /\ batchField = c.batch
  BY DEF OwnInv
<1>2. LegalCase(c)
  BY RoundtripAssumption
<1>3. QED
  BY <1>1, <1>2 DEF LegalCase, OwnInv

(* A new table has no rows; a foreign one has its first.                   *)
LEMMA RoundtripStart == RoundtripInit => RoundtripInv
<1> SUFFICES ASSUME RoundtripInit PROVE RoundtripInv
  OBVIOUS
<1>0. sent = <<>> /\ read = <<>> /\ result = NoField /\ described = NoField
  BY DEF RoundtripInit
<1>1. CASE progress = "new"
  <2>1. PICK c \in Cases : client = c.connector /\ field = Field(c.type, c.nullable) /\ batchField = c.batch
    BY <1>1 DEF RoundtripInit
  <2>2. LegalCase(c)
    BY RoundtripAssumption
  <2>3. field # NoField /\ client \in Connector
    BY <2>1, <2>2, NoFieldHasNoType DEF LegalCase
  <2>4. held = <<>>
    BY <1>1 DEF RoundtripInit
  <2>5. OwnInv
    BY <1>0, <1>1, <2>1 DEF OwnInv
  <2>6. HeldInv /\ ResultInv /\ ReadBackInv
    BY <1>0, <1>1, <2>4 DEF HeldInv, ResultInv, ReadBackInv
  <2>7. SupportedRoundtrips
    BY <1>1, <2>4 DEF SupportedRoundtrips
  <2>8. QED
    BY <1>0, <1>1, <2>3, <2>4, <2>5, <2>6, <2>7, RoundtripAssumption DEF RoundtripInv,
       Progress, OnlyUnmappedPanics
<1>2. CASE progress # "new"
  <2>1. progress = "created" /\ field = NoField /\ batchField = NoField
    BY <1>2 DEF RoundtripInit
  <2>2. PICK t \in Foreign : /\ client = t.connector
                             /\ column = [type |-> t.type, nullable |-> t.nullable]
                             /\ held \in { <<"small">> } \cup
                                         IF t.nullable THEN { <<"null">> } ELSE {}
    BY <1>2 DEF RoundtripInit
  <2>3. LegalForeign(t)
    BY RoundtripAssumption
  <2>4. ForeignInv
    BY <1>0, <2>1, <2>2 DEF ForeignInv
  <2>5. held \in Seq(Cells) /\ Len(held) = 1
    <3>1. PICK cell \in Cells : held = <<cell>>
      BY <2>4 DEF ForeignInv, Cells
    <3>2. QED
      BY <3>1
  <2>6. HeldInv /\ ResultInv /\ ReadBackInv
    BY <1>0, <2>1, <2>5 DEF HeldInv, ResultInv, ReadBackInv
  <2>7. SupportedRoundtrips
    BY <2>1 DEF SupportedRoundtrips, Announced
  <2>8. client \in Connector
    BY <2>2, <2>3 DEF LegalForeign
  <2>9. QED
    BY <1>0, <2>1, <2>4, <2>5, <2>6, <2>7, <2>8, RoundtripAssumption DEF RoundtripInv,
       Progress, OnlyUnmappedPanics
<1>3. QED
  BY <1>1, <1>2

(* What is announced, but for AnnouncedOnly, is a column the server        *)
(* takes,                                                                  *)
LEMMA SupportedColumn ==
  ASSUME NEW conn \in Connector, NEW t \in CrateType, NEW n, NEW db,
         db = ColumnFor(conn, Field(t, n)).type,
         ArrowIntoDb(conn, t).name # None, ~ AnnouncedOnly(conn, Field(t, n))
  PROVE  db.name # None /\ ServerAccepts(conn, db)
<1>1. db.name # None
  <2>1. CASE conn = "duckdb"
    BY <2>1 DEF AnnouncedOnly, ColumnFor, Field, Ty
  <2>2. CASE conn # "duckdb"
    BY <2>2 DEF ColumnFor, Field
  <2>3. QED
    BY <2>1, <2>2
<1>2. CASE conn = "mysql"
  <2>1. CASE t.name \in Decimals
    <3>1. t.s \in 0 .. 38 /\ t.s <= t.p /\ t.p \in Int /\ t.s \in Int
      BY <1>2, <2>1 DEF AnnouncedOnly, Field, CrateType
    <3>2. db = Decimal("decimal", t.p, t.s) \/ db = Ty("text")
      BY <1>1, <1>2, <2>1, MySQLColumns DEF Decimals
    <3>3. QED
      BY <1>1, <1>2, <3>1, <3>2 DEF ServerAccepts, Decimal, Ty
  <2>2. CASE t.name \notin Decimals
    <3>1. db.name \notin {"decimal", "numeric"}
      BY <1>1, <1>2, <2>2, MySQLColumns DEF MySQLArrowIntoDb
    <3>2. QED
      BY <1>1, <3>1 DEF ServerAccepts
  <2>3. QED
    BY <2>1, <2>2
<1>3. CASE conn = "mssql"
  <2>1. CASE t.name \in Decimals
    <3>1. t.p \in Int /\ t.s \in Int
      BY DEF CrateType
    <3>2. QED
      BY <1>1, <1>3, <2>1, <3>1, MssqlColumns DEF CanDecimalFitInNumeric, ServerAccepts,
         Decimal, Ty
  <2>2. CASE t.name \notin Decimals
    <3>1. db.name # "numeric" /\ (db.name = "decimal" => db = Decimal("decimal", 20, 0))
      BY <1>1, <1>3, <2>2, MssqlColumns DEF MssqlArrowIntoDb
    <3>2. QED
      BY <1>1, <1>3, <3>1 DEF ServerAccepts, Decimal
  <2>3. QED
    BY <2>1, <2>2
<1>4. CASE conn \notin {"mysql", "mssql"}
  BY <1>1, <1>4 DEF ServerAccepts
<1>5. QED
  BY <1>1, <1>2, <1>3, <1>4

(* and then it takes the cells: nothing is refused, nothing panics.        *)
LEMMA SupportedCells ==
  ASSUME OwnInv, progress # "new", Announced, batchField = field, ~ AnnouncedOnly(client, field),
         NEW cell \in CellsOf(batchField)
  PROVE  /\ Encodes(cell) /\ TakenByServer(cell)
         /\ cell = "null" \/ ~ MayFit(client, column.type.name, Wire(client, batchField.type))
<1>1. PICK t \in CrateType, n \in BOOLEAN :
        client \in Connector /\ field = Field(t, n) /\ column = ColumnFor(client, Field(t, n))
  BY OwnTable
<1> DEFINE db == column.type
<1>2. ArrowIntoDb(client, t).name # None
  BY <1>1 DEF Announced, Field
<1>3. db.name # None
  BY <1>1, <1>2, SupportedColumn
<1>4. /\ ColumnHolds(client, db, t) /\ Wire(client, t) # None
      /\ t.name # "Null" => /\ FormatFits(client, db.name, Wire(client, t))
                            /\ ~ Misread(client, db.name, Wire(client, t))
  BY <1>1, <1>3, OwnColumns
<1>5. batchField.type = t /\ batchField.nullable = n
  BY <1>1 DEF Field
<1>6. Encodes(cell)
  BY <1>4, <1>5 DEF Encodes
<1>7. CASE cell = "null"
  <2>1. n \/ t.name = "Null"
    BY <1>5, <1>7 DEF CellsOf
  <2>2. t.name = "Null" /\ client = "sqlite" => n
    BY <1>1 DEF AnnouncedOnly, Field
  <2>3. column.nullable
    BY <1>1, <2>1, <2>2 DEF ColumnFor, Field
  <2>4. QED
    BY <1>6, <1>7, <2>3 DEF TakenByServer
<1>8. CASE cell # "null"
  <2>1. t.name # "Null"
    BY <1>5, <1>8 DEF CellsOf
  <2>2. client = "pg" => t.s >= 0
    <3>1. t.s \in Int
      BY DEF CrateType
    <3>2. QED
      BY <1>1, <3>1 DEF AnnouncedOnly, Field
  <2>3. QED
    BY <1>4, <1>5, <1>6, <1>8, <2>1, <2>2 DEF TakenByServer, MayFit
<1>9. QED
  BY <1>7, <1>8

(* table_create makes the column, or panics where there is no type for     *)
(* it.                                                                     *)
LEMMA CreateTableInv ==
  ASSUME RoundtripInv, CreateTable
  PROVE  RoundtripInv'
<1>1. /\ progress = "new" /\ column' = ColumnFor(client, field)
      /\ UNCHANGED <<client, field, batchField, sent, held, result, read, described>>
      /\ progress' = IF column'.type.name = None /\ client # "sqlite" THEN "panicked"
                     ELSE IF ServerAccepts(client, column'.type) THEN "created" ELSE "refused"
  BY DEF CreateTable, table
<1>2. OwnInv /\ field # NoField /\ sent = <<>> /\ held = <<>> /\ result = NoField /\ described = NoField
  <2>1. OwnInv /\ field # NoField
    BY <1>1 DEF RoundtripInv, ForeignInv
  <2>2. sent = <<>> /\ result = NoField /\ described = NoField
    BY <1>1, <2>1 DEF OwnInv
  <2>3. Len(held) = 0
    BY <2>1, <2>2 DEF RoundtripInv, HeldInv
  <2>4. QED
    BY <2>1, <2>2, <2>3 DEF RoundtripInv
<1>3. progress' \in Progress /\ progress' \notin {"new", "queried"}
  BY <1>1 DEF Progress
<1>4. OwnInv'
  BY <1>1, <1>2, <1>3 DEF OwnInv
<1>5. HeldInv' /\ ResultInv' /\ ReadBackInv'
  <2>1. HeldInv'
    BY <1>1, <1>2 DEF HeldInv
  <2>2. ResultInv'
    BY <1>1, <1>2, <1>3 DEF ResultInv
  <2>3. read = <<>>
    BY <1>2 DEF RoundtripInv, ReadBackInv
  <2>4. ReadBackInv'
    BY <1>1, <1>2, <2>3 DEF ReadBackInv
  <2>5. QED
    BY <2>1, <2>2, <2>4
<1>6. SupportedRoundtrips'
  <2>1. PICK c \in Cases : client = c.connector /\ field = Field(c.type, c.nullable)
    BY <1>2 DEF OwnInv
  <2>2. c.type \in CrateType /\ client \in Connector
    BY <2>1, RoundtripAssumption DEF LegalCase
  <2>3. ASSUME Announced, ~ AnnouncedOnly(client, field)
        PROVE  progress' = "created"
    <3>1. ArrowIntoDb(client, c.type).name # None
      BY <2>1, <2>3 DEF Announced, Field
    <3>2. column'.type.name # None /\ ServerAccepts(client, column'.type)
      BY <1>1, <2>1, <2>2, <2>3, <3>1, SupportedColumn
    <3>3. QED
      BY <1>1, <3>2
  <2>4. QED
    BY <1>1, <1>2, <2>3 DEF SupportedRoundtrips, Announced
<1>7. QED
  BY <1>1, <1>2, <1>3, <1>4, <1>5, <1>6 DEF RoundtripInv, OnlyUnmappedPanics

(* Of these fields SupportedRoundtrips says that nothing fails,            *)
Promised == Announced /\ batchField = field /\ ~ AnnouncedOnly(client, field)

(* and of these columns OnlyUnmappedPanics that nothing panics.            *)
Mapped ==
  /\ field = NoField
  /\ \/ client \notin {"mysql", "mssql"}
     \/ /\ DbIntoArrow(client, CatalogName(client, column.type.name)) # None
        /\ ~ (client = "mssql" /\ Misnamed(client, column.type.name))

(* The steps of an existing table, but for AppendCell, leave it as it is.  *)
LEMMA TableKept ==
  ASSUME RoundtripInv, progress \in {"created", "queried"}, progress' \in Progress \ {"new"},
         UNCHANGED <<client, field, batchField, column, sent, held>>
  PROVE  /\ field' # NoField => OwnInv'
         /\ field' = NoField => ForeignInv'
         /\ HeldInv'
         /\ ResultField' = ResultField /\ DescribedField' = DescribedField
         /\ (Promised => progress' \notin {"refused", "panicked"}) => SupportedRoundtrips'
         /\ (Mapped => progress' # "panicked") => OnlyUnmappedPanics'
<1>1. field' # NoField => OwnInv'
  BY DEF RoundtripInv, OwnInv, Progress
<1>2. field' = NoField => ForeignInv'
  BY DEF RoundtripInv, ForeignInv
<1>3. HeldInv'
  BY DEF RoundtripInv, HeldInv, Encodes, TakenByServer, Stored
<1>4. ResultField' = ResultField /\ DescribedField' = DescribedField
  <2>1. InferredType' = InferredType
    BY DEF InferredType
  <2>2. ResultField' = ResultField
    BY <2>1 DEF ResultField
  <2>3. QED
    BY <2>2 DEF DescribedField
<1>5. Promised' = Promised /\ Announced' = Announced
  BY DEF Promised, Announced
<1>6. SupportedRoundtrips <=> /\ Promised => progress \notin {"refused", "panicked"}
                              /\ field # NoField /\ held # <<>> => Announced
  BY DEF SupportedRoundtrips, Promised
<1>7. SupportedRoundtrips' <=> /\ Promised' => progress' \notin {"refused", "panicked"}
                               /\ field' # NoField /\ held' # <<>> => Announced'
  BY DEF SupportedRoundtrips, Promised
<1>8. SupportedRoundtrips
  BY DEF RoundtripInv
<1>9. (Mapped => progress' # "panicked") => OnlyUnmappedPanics'
  BY DEF Mapped, OnlyUnmappedPanics
<1>10. QED
  BY <1>1, <1>2, <1>3, <1>4, <1>5, <1>6, <1>7, <1>8, <1>9

(* Results have the type that type_db_into_arrow gives the column: the     *)
(* names of result columns make no difference.                             *)
LEMMA ResultIs ==
  ASSUME client \in Connector \ {"sqlite"}, LegalName(client, column.type.name),
         ~ Misnamed(client, column.type.name)
  PROVE  /\ ResultField # NoField => ResultField.type = TypeOf(client, column.type.name)
         /\ DbIntoArrow(client, column.type.name) # None => ResultField # NoField
<1> DEFINE db == column.type.name
<1>0. TypeOf(client, db).name # None
  BY NeverNull
<1>1. CASE client = "pg"
  <2>1. ResultField = PgField(db, TRUE)
    BY <1>1 DEF ResultField
  <2>2. ResultField.type = TypeOf(client, db)
    BY <1>1, <2>1 DEF PgField, Field
  <2>3. QED
    BY <1>0, <1>1, <2>2 DEF NoField, Ty
<1>2. CASE client = "mysql"
  <2>1. ResultField = MySQLField(MySQLResultName(db), column.nullable)
    BY <1>2 DEF ResultField
  <2>2. DbIntoArrow("mysql", MySQLResultName(db)) = DbIntoArrow(client, db)
    BY <1>2, MySQLNames
  <2>3. CASE DbIntoArrow(client, db) = None
    BY <1>2, <2>1, <2>2, <2>3 DEF MySQLField
  <2>4. CASE DbIntoArrow(client, db) # None
    <3>1. ResultField = Field(Ty(DbIntoArrow(client, db)), column.nullable)
      BY <2>1, <2>2, <2>4 DEF MySQLField
    <3>2. QED
      BY <1>2, <2>4, <3>1 DEF Field, NoField, Ty, TypeOf
  <2>5. QED
    BY <2>3, <2>4
<1>3. CASE client = "mssql"
  <2>1. ResultField = MssqlField(MssqlResultName(db), TRUE)
    BY <1>3 DEF ResultField
  <2>2. TypeOf("mssql", MssqlResultName(db)) = TypeOf(client, db)
    BY <1>3, MssqlNames DEF TypeOf
  <2>3. ResultField = Field(TypeOf(client, db), TRUE)
    BY <2>1, <2>2 DEF MssqlField
  <2>4. QED
    BY <1>0, <1>3, <2>3 DEF Field, NoField, Ty
<1>4. CASE client = "duckdb"
  <2>1. ResultField = Field(Ty(DuckDBResultType(db)), TRUE)
    BY <1>4 DEF ResultField
  <2>2. DuckDBResultType(db) = DbIntoArrow(client, db) /\ DbIntoArrow(client, db) # None
    BY <1>4, DuckDBNames DEF LegalName
  <2>3. ResultField = Field(TypeOf(client, db), TRUE)
    BY <2>1, <2>2 DEF TypeOf
  <2>4. QED
    BY <1>0, <1>4, <2>3 DEF Field, NoField, Ty
<1>5. QED
  BY <1>1, <1>2, <1>3, <1>4 DEF Connector

(* A result is nullable, but for MySQL's, which are if the column is.      *)
LEMMA ResultNullable ==
  ASSUME client \in Connector, ResultField # NoField
  PROVE  ResultField.nullable = IF client = "mysql" THEN column.nullable ELSE TRUE
<1>1. CASE client = "mysql"
  <2>1. ResultField = MySQLField(MySQLResultName(column.type.name), column.nullable)
    BY <1>1 DEF ResultField
  <2>2. QED
    BY <1>1, <2>1 DEF MySQLField, Field
<1>2. CASE client = "pg"
  BY <1>2 DEF ResultField, PgField, Field
<1>3. CASE client \notin {"mysql", "pg"}
  BY <1>3 DEF ResultField, MssqlField, Field, Connector
<1>4. QED
  BY <1>1, <1>2, <1>3

(* So do the descriptions table_get gives.                                 *)
LEMMA DescribedIs ==
  ASSUME client \in Connector \ {"sqlite"}, LegalName(client, column.type.name),
         ~ Misnamed(client, column.type.name)
  PROVE  /\ DescribedField # NoField => DescribedField.type = TypeOf(client, column.type.name)
         /\ DbIntoArrow(client, column.type.name) # None => DescribedField # NoField
         /\ client # "duckdb" => DescribedField = NoField \/ DescribedField.nullable = column.nullable
         /\ client = "duckdb" => DescribedField.nullable
<1> DEFINE db == CatalogName(client, column.type.name)
<1>0. /\ DbIntoArrow(client, db) = DbIntoArrow(client, column.type.name)
      /\ TypeOf(client, db) = TypeOf(client, column.type.name)
      /\ TypeOf(client, db).name # None
  BY CatalogNames, NeverNull DEF TypeOf
<1>1. CASE client = "pg"
  <2>1. DescribedField = PgField(db, column.nullable)
    BY <1>1 DEF DescribedField
  <2>2. DescribedField.type = TypeOf(client, db) /\ DescribedField.nullable = column.nullable
    BY <1>1, <2>1 DEF PgField, Field
  <2>3. QED
    BY <1>0, <1>1, <2>2 DEF NoField, Ty
<1>2. CASE client = "mysql"
  <2>1. DescribedField = MySQLField(db, column.nullable)
    BY <1>2 DEF DescribedField
  <2>3. CASE DbIntoArrow(client, db) = None
    BY <1>0, <1>2, <2>1, <2>3 DEF MySQLField
  <2>4. CASE DbIntoArrow(client, db) # None
    <3>1. DescribedField = Field(Ty(DbIntoArrow(client, db)), column.nullable)
      BY <1>2, <2>1, <2>4 DEF MySQLField
    <3>2. QED
      BY <1>0, <1>2, <2>4, <3>1 DEF Field, NoField, Ty, TypeOf
  <2>5. QED
    BY <2>3, <2>4
<1>3. CASE client = "mssql"
  <2>1. DescribedField = MssqlField(db, column.nullable)
    BY <1>3 DEF DescribedField
  <2>3. DescribedField = Field(TypeOf(client, db), column.nullable)
    BY <1>3, <2>1 DEF MssqlField
  <2>4. QED
    BY <1>0, <1>3, <2>3 DEF Field, NoField, Ty
<1>4. CASE client = "duckdb"
  <2>1. DescribedField = ResultField
    BY <1>4 DEF DescribedField
  <2>2. ResultField # NoField /\ ResultField.type = TypeOf(client, column.type.name)
    BY <1>4, ResultIs, DuckDBNames DEF LegalName, DbIntoArrow
  <2>3. QED
    BY <1>4, <2>1, <2>2, ResultNullable
<1>5. QED
  BY <1>1, <1>2, <1>3, <1>4 DEF Connector

(* No connector but SQLite's refuses to describe a column.                 *)
LEMMA NotRejected ==
  ASSUME client \in Connector \ {"sqlite"}, LegalName(client, column.type.name)
  PROVE  DescribedField # Rejected
<1> DEFINE db == CatalogName(client, column.type.name)
<1>1. Rejected.type.name = None /\ NoField # Rejected
  BY DEF Rejected, NoField, Ty
<1>2. TypeOf(client, db).name # None
  BY DEF TypeOf, Ty, None
<1>3. CASE client = "pg"
  BY <1>1, <1>2, <1>3 DEF DescribedField, PgField, Field
<1>4. CASE client = "mysql"
  BY <1>1, <1>4 DEF DescribedField, MySQLField, Field, Ty
<1>5. CASE client = "mssql"
  BY <1>1, <1>2, <1>5 DEF DescribedField, MssqlField, Field
<1>6. CASE client = "duckdb"
  <2>1. DescribedField = Field(Ty(DuckDBResultType(column.type.name)), TRUE)
    BY <1>6 DEF DescribedField, ResultField
  <2>2. DuckDBResultType(column.type.name) # None
    BY <1>6, DuckDBNames DEF LegalName
  <2>3. QED
    BY <1>1, <2>1, <2>2 DEF Field, Ty
<1>7. QED
  BY <1>3, <1>4, <1>5, <1>6 DEF Connector

(* There is a null in nullable columns only.                               *)
LEMMA NullsFit ==
  ASSUME RoundtripInv, NEW i \in DOMAIN held, held[i] = "null"
  PROVE  column.nullable
<1>1. CASE field # NoField
  <2>1. i \in 1 .. Len(sent) /\ TakenByServer(sent[i]) /\ held[i] = Stored(sent[i])
    BY <1>1 DEF RoundtripInv, HeldInv
  <2>2. sent[i] = "null"
    BY <2>1 DEF Stored
  <2>3. QED
    BY <2>1, <2>2 DEF TakenByServer
<1>2. CASE field = NoField
  <2>1. ForeignInv
    BY <1>2 DEF RoundtripInv
  <2>2. held # <<"small">>
    OBVIOUS
  <2>3. QED
    BY <2>1, <2>2 DEF ForeignInv
<1>3. QED
  BY <1>1, <1>2

(* The classes of the values of SQLite that are not null.                  *)
Classes == {"INTEGER", "REAL", "TEXT", "BLOB"}

(* A result of SQLite has the type of the column, or there are only        *)
(* nulls.                                                                  *)
LEMMA SQLiteResult ==
  ASSUME RoundtripInv, client = "sqlite", progress # "new"
  PROVE  \/ ResultField = Field(Ty("Null"), TRUE) /\ \A i \in DOMAIN held : held[i] = "null"
         \/ /\ column.type.name \in Classes
            /\ ResultField = Field(Ty(DbIntoArrow("sqlite", column.type.name)), TRUE)
<1>1. ResultField = Field(InferredType, TRUE)
  BY DEF ResultField
<1>2. CASE \A i \in DOMAIN held : held[i] = "null"
  BY <1>1, <1>2 DEF InferredType
<1>3. ASSUME NEW i \in DOMAIN held, held[i] # "null"
      PROVE  /\ column.type.name \in Classes
             /\ ResultField = Field(Ty(DbIntoArrow("sqlite", column.type.name)), TRUE)
  <2>1. CASE field # NoField
    <3>1. PICK t \in CrateType, n \in BOOLEAN :
            column = ColumnFor("sqlite", Field(t, n)) /\ batchField.type = t
      BY <2>1, OwnTable DEF RoundtripInv, MayDiffer
    <3>2. i \in 1 .. Len(sent) /\ sent[i] \in CellsOf(batchField) /\ Encodes(sent[i]) /\ held[i] = Stored(sent[i])
      BY <1>3, <2>1 DEF RoundtripInv, HeldInv
    <3>3. sent[i] # "null"
      BY <1>3, <3>2 DEF Stored
    <3>4. t.name # "Null" /\ Wire("sqlite", t) # None
      BY <3>1, <3>2, <3>3 DEF CellsOf, Encodes
    <3>5. Wire("sqlite", t) = column.type.name /\ column.type.name \in Classes
      BY <3>1, <3>4, SQLiteColumns DEF Classes
    <3>6. QED
      BY <1>1, <1>3, <2>1, <3>1, <3>5 DEF InferredType
  <2>2. CASE field = NoField
    <3>1. PICK t \in Foreign : t.connector = "sqlite" /\ column.type = t.type
      BY <2>2 DEF RoundtripInv, ForeignInv
    <3>2. column.type.name \in Classes
      BY <3>1, RoundtripAssumption DEF LegalForeign, Classes
    <3>3. QED
      BY <1>1, <1>3, <2>2, <3>2 DEF InferredType
  <2>3. QED
    BY <2>1, <2>2
<1>4. QED
  BY <1>2, <1>3

(* A column that can be appended to or queried has a type.                 *)
LEMMA OwnColumn ==
  ASSUME RoundtripInv, field # NoField,
         progress \in {"created", "queried"} \/ result # NoField \/ described # NoField
  PROVE  /\ client # "sqlite" => column.type.name # None
         /\ \E t \in CrateType, n \in BOOLEAN :
              /\ field = Field(t, n) /\ column = ColumnFor(client, Field(t, n))
              /\ batchField.type \in CrateType
              /\ batchField.type = t \/ MayDiffer(client, t, batchField.type)
<1>1. OwnInv /\ progress # "new"
  BY DEF RoundtripInv, OwnInv, ResultInv
<1>2. PICK t \in CrateType, n \in BOOLEAN :
           /\ field = Field(t, n) /\ column = ColumnFor(client, Field(t, n))
           /\ batchField.type \in CrateType
           /\ batchField.type = t \/ MayDiffer(client, t, batchField.type)
  BY <1>1, OwnTable
<1>3. client # "sqlite" => column.type.name # None
  BY <1>1 DEF OwnInv
<1>4. QED
  BY <1>2, <1>3

(* And its type has a legal name.                                          *)
LEMMA LegalColumn ==
  ASSUME RoundtripInv, progress \in {"created", "queried"} \/ result # NoField \/ described # NoField
  PROVE  /\ client \in Connector
         /\ LegalName(client, column.type.name)
         /\ client # "sqlite" /\ field # NoField =>
              /\ DbIntoArrow(client, column.type.name) # None
              /\ ~ Misnamed(client, column.type.name)
<1>1. client \in Connector
  BY DEF RoundtripInv
<1>2. CASE client = "sqlite"
  BY <1>1, <1>2 DEF LegalName
<1>3. CASE client # "sqlite" /\ field # NoField
  <2>1. PICK t \in CrateType, n \in BOOLEAN :
          column = ColumnFor(client, Field(t, n)) /\ column.type.name # None
    BY <1>3, OwnColumn
  <2>2. QED
    BY <1>1, <2>1, OwnColumns
<1>4. CASE client # "sqlite" /\ field = NoField
  <2>1. PICK t \in Foreign : client = t.connector /\ column.type = t.type
    BY <1>4 DEF RoundtripInv, ForeignInv
  <2>2. LegalForeign(t)
    BY RoundtripAssumption
  <2>3. QED
    BY <1>1, <1>4, <2>1, <2>2 DEF LegalName, LegalForeign
<1>5. QED
  BY <1>2, <1>3, <1>4

(* A cell that goes into a table is of a type that is announced.           *)
LEMMA EncodedIsAnnounced ==
  ASSUME RoundtripInv, field # NoField, progress = "created",
         NEW cell \in CellsOf(batchField), Encodes(cell)
  PROVE  Announced
<1>1. PICK t \in CrateType, n \in BOOLEAN :
           /\ field = Field(t, n) /\ column = ColumnFor(client, Field(t, n))
           /\ batchField.type = t \/ MayDiffer(client, t, batchField.type)
  BY OwnColumn
<1>2. client \in Connector
  BY DEF RoundtripInv
<1>3. CASE client = "sqlite"
  <2>1. batchField.type = t
    BY <1>1, <1>3 DEF MayDiffer
  <2>2. Wire("sqlite", t) # None
    BY <1>3, <2>1 DEF Encodes
  <2>3. column.type.name # None
    BY <1>1, <1>3, <2>2, SQLiteColumns DEF None
  <2>4. ArrowIntoDb(client, t).name # None
    BY <1>1, <1>2, <2>3, OwnColumns
  <2>5. QED
    BY <1>1, <2>4 DEF Announced, Field
<1>4. CASE client # "sqlite"
  <2>1. ArrowIntoDb(client, t).name # None
    BY <1>1, <1>2, <1>4, OwnColumn, OwnColumns
  <2>2. QED
    BY <1>1, <2>1 DEF Announced, Field
<1>5. QED
  BY <1>3, <1>4

(* append adds the cell and what the server makes of it.                   *)
LEMMA AppendCellInv ==
  ASSUME RoundtripInv, AppendCell
  PROVE  RoundtripInv'
<1>1. PICK cell \in CellsOf(batchField) :
        /\ Encodes(cell) /\ TakenByServer(cell)
        /\ sent' = Append(sent, cell) /\ held' = Append(held, Stored(cell))
  BY DEF AppendCell
<1>2. /\ progress = "created" /\ field # NoField /\ Len(sent) < MaxRows
      /\ UNCHANGED <<client, field, batchField, column, result, read, described, progress>>
  BY DEF AppendCell, CanAppend, table
<1>3. cell \in Cells /\ Stored(cell) \in Cells
  BY <1>1 DEF CellsOf, Cells, Stored
<1>4. sent \in Seq(Cells) /\ held \in Seq(Cells) /\ Len(sent) \in Nat /\ Len(sent) = Len(held)
  BY <1>2 DEF RoundtripInv, HeldInv
<1>5. sent' \in Seq(Cells) /\ held' \in Seq(Cells) /\ Len(sent') = Len(sent) + 1 /\ Len(held') = Len(held) + 1
  BY <1>1, <1>3, <1>4
<1>6. OwnInv'
  BY <1>2 DEF RoundtripInv, OwnInv
<1>7. HeldInv'
  <2>1. ASSUME NEW i \in 1 .. Len(sent')
        PROVE  /\ sent'[i] \in CellsOf(batchField) /\ Encodes(sent'[i]) /\ TakenByServer(sent'[i])
               /\ held'[i] = Stored(sent'[i])
    <3>1. CASE i = Len(sent) + 1
      BY <1>1, <1>4, <3>1
    <3>2. CASE i # Len(sent) + 1
      <4>1. i \in 1 .. Len(sent) /\ sent'[i] = sent[i] /\ held'[i] = held[i]
        BY <1>1, <1>4, <1>5, <3>2
      <4>2. QED
        BY <1>2, <4>1 DEF RoundtripInv, HeldInv
    <3>3. QED
      BY <3>1, <3>2
  <2>2. QED
    BY <1>2, <1>4, <1>5, <2>1 DEF HeldInv, Encodes, TakenByServer, Stored
<1>8. result = NoField /\ read = <<>>
  BY <1>2 DEF RoundtripInv, ResultInv, ReadBackInv
<1>9. ResultInv'
  <2>1. DescribedField' = DescribedField
    BY <1>2 DEF DescribedField, ResultField
  <2>2. QED
    BY <1>2, <1>8, <2>1 DEF RoundtripInv, ResultInv
<1>10. ReadBackInv'
  BY <1>2, <1>5, <1>8 DEF ReadBackInv
<1>11. SupportedRoundtrips'
  <2>1. Announced
    BY <1>1, <1>2, EncodedIsAnnounced
  <2>2. QED
    BY <1>2, <2>1 DEF RoundtripInv, SupportedRoundtrips, Announced
<1>12. QED
  BY <1>2, <1>4, <1>5, <1>6, <1>7, <1>9, <1>10, <1>11, RoundtripAssumption DEF RoundtripInv,
     OnlyUnmappedPanics

(* Cells are refused, or panic, for fields that nothing was promised of.   *)
LEMMA AppendFailsInv ==
  ASSUME RoundtripInv, AppendRefused \/ AppendPanics
  PROVE  RoundtripInv'
<1>1. /\ progress = "created" /\ field # NoField
      /\ UNCHANGED <<client, field, batchField, column, sent, held, result, read, described>>
      /\ progress' \in {"refused", "panicked"}
      /\ \E cell \in CellsOf(batchField) :
           \/ ~ (Encodes(cell) /\ TakenByServer(cell))
           \/ cell # "null" /\ MayFit(client, column.type.name, Wire(client, batchField.type))
  BY DEF AppendRefused, AppendPanics, CanAppend, table
<1>2. progress' \in Progress \ {"new"}
  BY <1>1 DEF Progress
<1>3. /\ field' # NoField => OwnInv'
      /\ field' = NoField => ForeignInv'
      /\ HeldInv'
      /\ ResultField' = ResultField /\ DescribedField' = DescribedField
      /\ (Promised => progress' \notin {"refused", "panicked"}) => SupportedRoundtrips'
      /\ (Mapped => progress' # "panicked") => OnlyUnmappedPanics'
  BY <1>1, <1>2, TableKept
<1>4. ~ Promised
  BY <1>1, SupportedCells DEF Promised, RoundtripInv
<1>5. ResultInv'
  BY <1>1, <1>3 DEF RoundtripInv, ResultInv
<1>6. ReadBackInv'
  BY <1>1 DEF RoundtripInv, ReadBackInv, Converted
<1>7. QED
  BY <1>1, <1>2, <1>3, <1>4, <1>5, <1>6 DEF RoundtripInv, Mapped

(* Where something was promised, results and descriptions exist and can    *)
(* be produced.                                                            *)
LEMMA PromisedResult ==
  ASSUME RoundtripInv, Promised, progress \in {"created", "queried"}
  PROVE  /\ ResultField # NoField /\ DescribedField # NoField
         /\ ResultField.type.name \in Produced \cup {"Null"}
<1>1. field # NoField /\ progress # "new"
  BY DEF Promised, Announced
<1>2. CASE client = "sqlite"
  <2>1. DescribedField # NoField
    <3>1. DescribedField \in {Rejected, Field(Ty(Lookup(SQLiteDeclIntoArrow, column.type.name)), column.nullable)}
      BY <1>2 DEF DescribedField, CatalogName
    <3>2. Lookup(SQLiteDeclIntoArrow, column.type.name) = None => DescribedField = Rejected
      BY <1>2 DEF DescribedField, CatalogName
    <3>3. QED
      BY <3>1, <3>2 DEF NoField, Rejected, Field, Ty
  <2>2. PICK name \in {"Null", "Int64", "Float64", "Utf8", "Binary"} : ResultField = Field(Ty(name), TRUE)
    BY <1>1, <1>2, SQLiteResult, SQLiteArrow DEF Classes
  <2>3. name \in Produced \cup {"Null"}
    BY <1>2 DEF Produced, SQLiteProduces
  <2>4. QED
    BY <2>1, <2>2, <2>3 DEF Field, NoField, Ty
<1>3. CASE client # "sqlite"
  <2>1. /\ client \in Connector \ {"sqlite"} /\ LegalName(client, column.type.name)
        /\ DbIntoArrow(client, column.type.name) # None /\ ~ Misnamed(client, column.type.name)
    BY <1>1, <1>3, LegalColumn
  <2>2. ResultField.type = Ty(DbIntoArrow(client, column.type.name)) /\ ResultField # NoField
    BY <2>1, ResultIs DEF TypeOf
  <2>3. QED
    BY <2>1, <2>2, DescribedIs, ArrowIsProduced DEF Ty
<1>4. QED
  BY <1>2, <1>3

(* So they do for the columns of other tables whose types have an arm.     *)
LEMMA MappedResult ==
  ASSUME RoundtripInv, Mapped, progress \in {"created", "queried"}
  PROVE  /\ ResultField # NoField /\ DescribedField # NoField
         /\ ResultField.type.name \in Produced \cup {"Null"}
<1> DEFINE db == column.type.name
<1>1. field = NoField /\ progress # "new" /\ client \in Connector /\ LegalName(client, db)
  BY LegalColumn DEF Mapped
<1>2. CASE client = "sqlite"
  <2>1. DescribedField # NoField
    <3>1. DescribedField \in {Rejected, Field(Ty(Lookup(SQLiteDeclIntoArrow, db)), column.nullable)}
      BY <1>2 DEF DescribedField, CatalogName
    <3>2. Lookup(SQLiteDeclIntoArrow, db) = None => DescribedField = Rejected
      BY <1>2 DEF DescribedField, CatalogName
    <3>3. QED
      BY <3>1, <3>2 DEF NoField, Rejected, Field, Ty
  <2>2. PICK name \in {"Null", "Int64", "Float64", "Utf8", "Binary"} : ResultField = Field(Ty(name), TRUE)
    BY <1>1, <1>2, SQLiteResult, SQLiteArrow DEF Classes
  <2>3. name \in Produced \cup {"Null"}
    BY <1>2 DEF Produced, SQLiteProduces
  <2>4. QED
    BY <2>1, <2>2, <2>3 DEF Field, NoField, Ty
<1>3. CASE client = "pg"
  <2>2. ResultField = PgField(db, TRUE)
    BY <1>3 DEF ResultField
  <2>3. DescribedField = PgField(db, column.nullable)
    BY <1>3 DEF DescribedField, CatalogName
  <2>4. ResultField.type = TypeOf("pg", db) /\ DescribedField.type = TypeOf("pg", db)
    BY <2>2, <2>3 DEF PgField, Field
  <2>5. TypeOf("pg", db).name # None
    BY DEF TypeOf, Ty, None
  <2>6. ResultField # NoField /\ DescribedField # NoField
    BY <2>4, <2>5 DEF NoField, Ty
  <2>7. CASE DbIntoArrow("pg", db) = None
    BY <1>3, <2>4, <2>6, <2>7 DEF TypeOf, Ty, Produced, PgProduces
  <2>8. CASE DbIntoArrow("pg", db) # None
    BY <1>1, <1>3, <2>4, <2>6, <2>8, ArrowIsProduced DEF TypeOf, Ty
  <2>9. QED
    BY <2>7, <2>8
<1>4. CASE client \in {"mysql", "mssql", "duckdb"} /\ ~ Misnamed(client, db)
  <2>1. DbIntoArrow(client, db) # None
    <3>1. CASE client = "duckdb"
      BY <1>1, <3>1, DuckDBNames DEF LegalName
    <3>2. CASE client # "duckdb"
      BY <1>1, <1>4, <3>2, CatalogNames DEF Mapped
    <3>3. QED
      BY <3>1, <3>2
  <2>2. ResultField.type = Ty(DbIntoArrow(client, db)) /\ ResultField # NoField
    BY <1>1, <1>4, <2>1, ResultIs DEF TypeOf
  <2>3. QED
    BY <1>1, <1>4, <2>1, <2>2, DescribedIs, ArrowIsProduced DEF Ty
<1>5. CASE client = "mysql" /\ Misnamed(client, db)
  <2>1. db \in DOMAIN MySQLBinText
    <3>1. \A key \in DOMAIN MySQLDbIntoArrow : {"enum", "set"} \cap MySQLDbIntoArrow[key] = {}
      BY DEF MySQLDbIntoArrow
    <3>2. db \in {"enum", "set"} => DbIntoArrow("mysql", db) = None
      BY <3>1 DEF DbIntoArrow, Lookup
    <3>3. db \in {"enum", "set"} => CatalogName("mysql", db) = db
      BY DEF CatalogName, MySQLBinText
    <3>4. QED
      BY <1>5, <3>2, <3>3 DEF Mapped, Misnamed
  <2>2. MySQLResultName(db) \in {"binary", "varbinary", "blob"}
    BY <2>1 DEF MySQLBinText, MySQLResultName
  <2>3. DbIntoArrow("mysql", MySQLResultName(db)) = "Binary"
    BY <2>2, LookupIs, NamedOnce DEF DbIntoArrow, MySQLDbIntoArrow
  <2>4. ResultField = Field(Ty("Binary"), column.nullable)
    BY <1>5, <2>3 DEF ResultField, MySQLField, None
  <2>5. DescribedField = Field(Ty(DbIntoArrow("mysql", CatalogName("mysql", db))), column.nullable)
    BY <1>5 DEF DescribedField, MySQLField, Mapped
  <2>6. QED
    BY <1>5, <2>4, <2>5 DEF Mapped, Field, NoField, Ty, Produced, MySQLProduces, None
<1>6. QED
  BY <1>1, <1>2, <1>3, <1>4, <1>5 DEF Connector, Mapped, Misnamed

(* A query fixes the type of the result.                                   *)
LEMMA QueryInv ==
  ASSUME RoundtripInv, Query
  PROVE  RoundtripInv'
<1>1. /\ progress = "created" /\ result' = ResultField
      /\ progress' = IF ResultField = NoField THEN "panicked" ELSE "queried"
      /\ UNCHANGED <<client, field, batchField, column, sent, held, read, described>>
  BY DEF Query, table
<1>2. progress' \in Progress \ {"new"}
  BY <1>1 DEF Progress
<1>3. /\ field' # NoField => OwnInv'
      /\ field' = NoField => ForeignInv'
      /\ HeldInv'
      /\ ResultField' = ResultField /\ DescribedField' = DescribedField
      /\ (Promised => progress' \notin {"refused", "panicked"}) => SupportedRoundtrips'
      /\ (Mapped => progress' # "panicked") => OnlyUnmappedPanics'
  BY <1>1, <1>2, TableKept
<1>4. SupportedRoundtrips' /\ OnlyUnmappedPanics'
  BY <1>1, <1>3, PromisedResult, MappedResult
<1>5. ResultInv'
  BY <1>1, <1>3 DEF RoundtripInv, ResultInv
<1>6. read = <<>>
  BY <1>1 DEF RoundtripInv, ResultInv, ReadBackInv
<1>7. ReadBackInv'
  BY <1>1, <1>6 DEF RoundtripInv, ReadBackInv
<1>8. QED
  BY <1>1, <1>2, <1>3, <1>4, <1>5, <1>7 DEF RoundtripInv

(* A cell is converted to it.                                              *)
LEMMA ReadCellInv ==
  ASSUME RoundtripInv, ReadCell
  PROVE  RoundtripInv'
<1>1. /\ progress = "queried" /\ Len(read) < Len(held)
      /\ read' = Append(read, Converted(held[Len(read) + 1]))
      /\ UNCHANGED <<client, field, batchField, column, sent, held, result, described, progress>>
  BY DEF ReadCell, table, Converted
<1>2. progress' \in Progress \ {"new"}
  BY <1>1 DEF Progress
<1>3. /\ field' # NoField => OwnInv'
      /\ field' = NoField => ForeignInv'
      /\ HeldInv'
      /\ ResultField' = ResultField /\ DescribedField' = DescribedField
      /\ (Promised => progress' \notin {"refused", "panicked"}) => SupportedRoundtrips'
      /\ (Mapped => progress' # "panicked") => OnlyUnmappedPanics'
  BY <1>1, <1>2, TableKept
<1>4. ResultInv'
  BY <1>1, <1>3 DEF RoundtripInv, ResultInv
<1>5. /\ read \in Seq(Cells) /\ held \in Seq(Cells) /\ Len(read) \in Nat /\ Len(held) \in Nat
      /\ Converted(held[Len(read) + 1]) \in Cells
  BY <1>1 DEF RoundtripInv, Converted, Cells
<1>6. read' \in Seq(Cells) /\ Len(read') = Len(read) + 1
  BY <1>1, <1>5
<1>7. ReadBackInv'
  <2>1. ASSUME NEW i \in 1 .. Len(read')
        PROVE  read'[i] = Converted(held[i])
    BY <1>1, <1>5, <1>6 DEF RoundtripInv, ReadBackInv
  <2>2. QED
    BY <1>1, <1>5, <1>6, <2>1 DEF RoundtripInv, ResultInv, ReadBackInv, Converted
<1>8. QED
  BY <1>1, <1>3, <1>4, <1>6, <1>7 DEF RoundtripInv

(* The producer panics for fields that nothing was promised of: it has     *)
(* the type, and a null is in a nullable column.                           *)
LEMMA ReadPanicsInv ==
  ASSUME RoundtripInv, ReadPanics
  PROVE  RoundtripInv'
<1>1. /\ progress = "queried" /\ progress' = "panicked" /\ Len(read) < Len(held)
      /\ UNCHANGED <<client, field, batchField, column, sent, held, result, read, described>>
      /\ \/ result.type.name \notin Produced \cup {"Null"}
         \/ held[Len(read) + 1] = "null" /\ ~ result.nullable
  BY DEF ReadPanics, table
<1>2. progress' \in Progress \ {"new"}
  BY <1>1 DEF Progress
<1>3. /\ field' # NoField => OwnInv'
      /\ field' = NoField => ForeignInv'
      /\ HeldInv'
      /\ ResultField' = ResultField /\ DescribedField' = DescribedField
      /\ (Promised => progress' \notin {"refused", "panicked"}) => SupportedRoundtrips'
      /\ (Mapped => progress' # "panicked") => OnlyUnmappedPanics'
  BY <1>1, <1>2, TableKept
<1>4. result = ResultField /\ result # NoField
  BY <1>1 DEF RoundtripInv, ResultInv
<1>5. ASSUME held[Len(read) + 1] = "null" PROVE result.nullable
  <2>1. Len(read) + 1 \in DOMAIN held
    BY <1>1 DEF RoundtripInv
  <2>2. column.nullable
    BY <1>5, <2>1, NullsFit
  <2>3. QED
    BY <1>4, <2>2, ResultNullable DEF RoundtripInv
<1>6. ~ Promised /\ ~ Mapped
  BY <1>1, <1>4, <1>5, PromisedResult, MappedResult
<1>7. ResultInv'
  BY <1>1, <1>3 DEF RoundtripInv, ResultInv
<1>8. ReadBackInv'
  BY <1>1 DEF RoundtripInv, ReadBackInv, Converted
<1>9. QED
  BY <1>1, <1>2, <1>3, <1>6, <1>7, <1>8 DEF RoundtripInv

(* table_get describes the column, or panics where nothing was promised.   *)
LEMMA TableGetInv ==
  ASSUME RoundtripInv, TableGet
  PROVE  RoundtripInv'
<1>1. /\ progress \in {"created", "queried"} /\ described' = DescribedField
      /\ progress' = IF DescribedField = NoField THEN "panicked" ELSE progress
      /\ UNCHANGED <<client, field, batchField, column, sent, held, result, read>>
  BY DEF TableGet, table
<1>2. progress' \in Progress \ {"new"}
  BY <1>1 DEF Progress
<1>3. /\ field' # NoField => OwnInv'
      /\ field' = NoField => ForeignInv'
      /\ HeldInv'
      /\ ResultField' = ResultField /\ DescribedField' = DescribedField
      /\ (Promised => progress' \notin {"refused", "panicked"}) => SupportedRoundtrips'
      /\ (Mapped => progress' # "panicked") => OnlyUnmappedPanics'
  BY <1>1, <1>2, TableKept
<1>4. SupportedRoundtrips' /\ OnlyUnmappedPanics'
  BY <1>1, <1>3, PromisedResult, MappedResult
<1>5. ResultInv'
  BY <1>1, <1>3 DEF RoundtripInv, ResultInv
<1>6. ReadBackInv'
  BY <1>1 DEF RoundtripInv, ReadBackInv, Converted
<1>7. QED
  BY <1>1, <1>2, <1>3, <1>4, <1>5, <1>6 DEF RoundtripInv

(* Every step, and a stutter, preserves the invariant.                     *)
LEMMA RoundtripNextInv == RoundtripInv /\ [RoundtripNext]_roundtripVars => RoundtripInv'
<1> SUFFICES ASSUME RoundtripInv, [RoundtripNext]_roundtripVars PROVE RoundtripInv'
  OBVIOUS
<1>1. CASE UNCHANGED roundtripVars
  <2>1. UNCHANGED <<client, field, batchField, column, sent, held, result, read, described, progress>>
    BY <1>1 DEF roundtripVars, table
  <2>2. HeldInv'
    BY <2>1 DEF RoundtripInv, HeldInv, Encodes, TakenByServer, Stored
  <2>3. ResultInv'
    BY <2>1 DEF RoundtripInv, ResultInv, DescribedField, ResultField, InferredType
  <2>4. ReadBackInv'
    BY <2>1 DEF RoundtripInv, ReadBackInv, Converted
  <2>5. SupportedRoundtrips' /\ OnlyUnmappedPanics'
    BY <2>1 DEF RoundtripInv, SupportedRoundtrips, Announced, OnlyUnmappedPanics
  <2>6. QED
    BY <2>1, <2>2, <2>3, <2>4, <2>5 DEF RoundtripInv, OwnInv, ForeignInv
<1>2. QED
  BY <1>1, CreateTableInv, AppendCellInv, AppendFailsInv, QueryInv, ReadCellInv,
     ReadPanicsInv,
     TableGetInv DEF RoundtripNext

(* Any decimals, any table and any batches the assumption allows, any      *)
(* number of rows.                                                         *)
THEOREM RoundtripInvariance == RoundtripSpec => []RoundtripInv
  BY RoundtripStart, RoundtripNextInv, PTL DEF RoundtripSpec

(* A result has the announced type: SQLite has to have found a value for   *)
(* it.                                                                     *)
LEMMA AnnouncedType ==
  ASSUME RoundtripInv
  PROVE  ReadTypeIsAnnounced
<1> SUFFICES ASSUME progress = "queried", field # NoField => Announced,
                    ~ Misnamed(client, column.type.name)
             PROVE  LET db == IF field = NoField THEN CatalogName(client, column.type.name)
                              ELSE ArrowIntoDb(client, field.type).name
                    IN  \/ result.type = TypeOf(client, db)
                        \/ client = "sqlite" /\ result.type.name = "Null"
                             /\ \A i \in DOMAIN held : held[i] = "null"
  BY DEF ReadTypeIsAnnounced
<1>1. result = ResultField /\ result # NoField /\ client \in Connector
  BY DEF RoundtripInv, ResultInv
<1>2. field # NoField => ArrowIntoDb(client, field.type).name = column.type.name
  <2>1. SUFFICES ASSUME field # NoField
                 PROVE  ArrowIntoDb(client, field.type).name = column.type.name
    OBVIOUS
  <2>2. PICK t \in CrateType, n \in BOOLEAN :
          field = Field(t, n) /\ column = ColumnFor(client, Field(t, n))
    BY <2>1, OwnColumn
  <2>3. CASE column.type.name # None
    BY <1>1, <2>2, <2>3, OwnColumns DEF Field
  <2>4. CASE column.type.name = None
    <3>1. client = "sqlite"
      BY <2>1, <2>4, OwnColumn
    <3>2. QED
      BY <2>2, <3>1 DEF ColumnFor, Field
  <2>5. QED
    BY <2>3, <2>4
<1>6. TypeOf(client, CatalogName(client, column.type.name)) = TypeOf(client, column.type.name)
  BY <1>1, CatalogNames DEF TypeOf
<1>3. CASE client # "sqlite"
  <2>1. result.type = TypeOf(client, column.type.name)
    BY <1>1, <1>3, LegalColumn, ResultIs
  <2>2. QED
    BY <1>2, <1>6, <2>1
<1>4. CASE client = "sqlite"
  <2>1. CASE ResultField = Field(Ty("Null"), TRUE) /\ \A i \in DOMAIN held : held[i] = "null"
    BY <1>1, <1>4, <2>1 DEF Field, Ty
  <2>2. CASE /\ column.type.name \in Classes
             /\ ResultField = Field(Ty(DbIntoArrow("sqlite", column.type.name)), TRUE)
    <3>1. TypeOf("sqlite", column.type.name) = Ty(DbIntoArrow("sqlite", column.type.name))
      BY <2>2, SQLiteArrow DEF Classes, TypeOf, None
    <3>2. result.type = TypeOf(client, column.type.name)
      BY <1>1, <1>4, <2>2, <3>1 DEF Field
    <3>3. QED
      BY <1>2, <1>6, <3>2
  <2>3. QED
    BY <1>4, <2>1, <2>2, SQLiteResult
<1>5. QED
  BY <1>3, <1>4

(* A cell is what it was when it was sent: a column that takes an extreme  *)
(* cell holds it, and so does the type it is read as.                      *)
LEMMA LosslessCell ==
  ASSUME RoundtripInv, field # NoField, result # NoField, NEW i \in 1 .. Len(sent),
         ~ DropsZeros(client, batchField.type),
         ~ Misread(client, column.type.name, Wire(client, batchField.type))
  PROVE  Converted(held[i]) = sent[i]
<1>1. /\ sent[i] \in CellsOf(batchField) /\ Encodes(sent[i]) /\ TakenByServer(sent[i])
      /\ held[i] = Stored(sent[i])
  BY DEF RoundtripInv, HeldInv
<1>2. sent[i] \in {"null", "small", "extreme"}
  BY <1>1 DEF CellsOf
<1>3. CASE sent[i] # "extreme"
  BY <1>1, <1>2, <1>3 DEF Stored, Converted
<1>4. CASE sent[i] = "extreme"
  <2>1. PICK t \in CrateType, n \in BOOLEAN :
          /\ column = ColumnFor(client, Field(t, n)) /\ batchField.type \in CrateType
          /\ batchField.type = t \/ MayDiffer(client, t, batchField.type)
    BY OwnColumn
  <2>2. client \in Connector /\ result = ResultField
    BY DEF RoundtripInv, ResultInv
  <2> DEFINE db == column.type
             from == batchField.type
  <2>3. CASE client = "sqlite"
    <3>1. from = t
      BY <2>1, <2>3 DEF MayDiffer
    <3>2. held[i] = "extreme"
      BY <1>1, <1>4, <2>3 DEF Stored, ColumnHolds
    <3>3. i \in DOMAIN held
      BY DEF RoundtripInv, HeldInv
    <3>4. db.name \in Classes /\ result.type = Ty(DbIntoArrow("sqlite", db.name))
      BY <2>2, <2>3, <3>2, <3>3, SQLiteResult DEF RoundtripInv, OwnInv, Field
    <3>5. Holds(result.type, from)
      BY <2>1, <2>3, <3>1, <3>4, SQLiteHolds DEF Classes
    <3>6. QED
      BY <1>4, <3>2, <3>5 DEF Converted
  <2>4. CASE client # "sqlite"
    <3>1. db.name # None /\ LegalName(client, db.name) /\ ~ Misnamed(client, db.name)
      BY <2>4, OwnColumn, LegalColumn
    <3>2. ColumnHolds(client, db, from)
      <4>1. CASE from = t
        BY <2>1, <2>2, <3>1, <4>1, OwnColumns
      <4>2. CASE from # t /\ Kind(from.name) # "float"
        BY <1>1, <1>4, <4>2 DEF TakenByServer
      <4>3. CASE from # t /\ Kind(from.name) = "float"
        <5>1. from.name \in Whole => FALSE
          BY <4>3, Kinds
        <5>2. client \in {"pg", "mssql"} /\ from.name \in Floats
          BY <2>1, <4>3, <5>1 DEF MayDiffer
        <5>3. FormatFits(client, db.name, Wire(client, from))
          BY <1>1, <1>4 DEF TakenByServer
        <5>4. QED
          BY <2>1, <3>1, <5>2, <5>3, FloatsFit
      <4>4. QED
        BY <4>1, <4>2, <4>3
    <3>3. held[i] = "extreme"
      BY <1>1, <1>4, <3>2 DEF Stored
    <3>4. Holds(TypeOf(client, db.name), from)
      BY <2>1, <2>2, <2>4, <3>1, <3>2, ColumnsWiden
    <3>5. result.type = TypeOf(client, db.name)
      BY <2>2, <2>4, <3>1, ResultIs
    <3>6. QED
      BY <1>4, <3>3, <3>4, <3>5 DEF Converted
  <2>5. QED
    BY <2>3, <2>4
<1>5. QED
  BY <1>3, <1>4

(* So are all of them.                                                     *)
LEMMA Lossless ==
  ASSUME RoundtripInv
  PROVE  ReadIsLossless
<1> SUFFICES ASSUME field # NoField, read # <<>>, ~ DropsZeros(client, batchField.type),
                    ~ Misread(client, column.type.name, Wire(client, batchField.type)),
                    NEW i \in DOMAIN read
             PROVE  read[i] = sent[i]
  BY DEF ReadIsLossless
<1>1. result # NoField /\ i \in 1 .. Len(sent) /\ read[i] = Converted(held[i])
  BY DEF RoundtripInv, ReadBackInv, HeldInv
<1>2. QED
  BY <1>1, LosslessCell

(* table_get and a query describe the column with one Arrow type, SQLite   *)
(* with two of one kind.                                                   *)
LEMMA Introspection ==
  ASSUME RoundtripInv
  PROVE  IntrospectionAgrees
<1>1. CASE client # "sqlite"
  <2>1. ASSUME described # NoField, ~ Misnamed(client, column.type.name)
        PROVE  /\ client \in Connector \ {"sqlite"} /\ LegalName(client, column.type.name)
               /\ described.type = TypeOf(client, column.type.name)
               /\ client # "duckdb" => described.nullable = column.nullable
               /\ client = "duckdb" => described.nullable
    <3>1. described = DescribedField /\ DescribedField # NoField
      BY <2>1 DEF RoundtripInv, ResultInv
    <3>2. client \in Connector \ {"sqlite"} /\ LegalName(client, column.type.name)
      BY <1>1, <2>1, LegalColumn
    <3>3. QED
      BY <2>1, <3>1, <3>2, DescribedIs
  <2>2. described # Rejected
    <3>1. Rejected # NoField
      BY DEF Rejected, NoField
    <3>2. QED
      BY <1>1, <3>1, LegalColumn, NotRejected DEF RoundtripInv, ResultInv
  <2>3. ASSUME result # NoField, described # NoField, ~ Misnamed(client, column.type.name)
        PROVE  /\ result.type.name # "Null"
               /\ Holds(described.type, result.type) /\ Holds(result.type, described.type)
               /\ ~ described.nullable => "null" \notin { held[i] : i \in DOMAIN held }
    <3>1. result = ResultField
      BY <2>3 DEF RoundtripInv, ResultInv
    <3>2. result.type = TypeOf(client, column.type.name)
      BY <2>1, <2>3, <3>1, ResultIs
    <3>3. result.type.name # "Null"
      BY <2>1, <2>3, <3>2, NeverNull
    <3>4. Holds(described.type, result.type) /\ Holds(result.type, described.type)
      BY <2>1, <2>3, <3>2, HoldsItself DEF TypeOf
    <3>5. ~ described.nullable => "null" \notin { held[i] : i \in DOMAIN held }
      BY <2>1, <2>3, NullsFit
    <3>6. QED
      BY <3>3, <3>4, <3>5
  <2>4. QED
    BY <2>2, <2>3 DEF IntrospectionAgrees
<1>2. CASE client = "sqlite"
  <2> DEFINE decl == Lookup(SQLiteDeclIntoArrow, column.type.name)
  <2>1. described # NoField => described = DescribedField
    BY DEF RoundtripInv, ResultInv
  <2>2. DescribedField = IF decl = None THEN Rejected ELSE Field(Ty(decl), column.nullable)
    BY <1>2 DEF DescribedField, CatalogName
  <2>3. Rejected # NoField
    BY DEF Rejected, NoField
  <2>4. described = Rejected => column.type.name \in {"NULL", None}
    <3>1. SUFFICES ASSUME described = Rejected, column.type.name \in Classes
                   PROVE  FALSE
      <4>1. column.type.name \in Classes \cup {"NULL", None} \/ described = NoField
        <5>1. SUFFICES ASSUME described # NoField PROVE column.type.name \in Classes \cup {"NULL", None}
          OBVIOUS
        <5>2. CASE field # NoField
          <6>1. PICK t \in CrateType, n \in BOOLEAN : column = ColumnFor(client, Field(t, n))
            BY <5>1, <5>2, OwnColumn
          <6>2. QED
            BY <1>2, <6>1, SQLiteColumns DEF Classes
        <5>3. CASE field = NoField
          <6>1. PICK t \in Foreign : t.connector = "sqlite" /\ column.type = t.type
            BY <1>2, <5>3 DEF RoundtripInv, ForeignInv
          <6>2. QED
            BY <6>1, RoundtripAssumption DEF LegalForeign, Classes
        <5>4. QED
          BY <5>2, <5>3
      <4>2. QED
        BY <2>3, <4>1
    <3>2. decl # None /\ DescribedField = Rejected
      BY <2>1, <2>3, <3>1, SQLiteDecl DEF Classes, None
    <3>3. QED
      BY <2>2, <3>2 DEF Rejected, Field, Ty
  <2>5. ASSUME result # NoField, described \notin {NoField, Rejected}
        PROVE  /\ result.type.name # "Null" => /\ Holds(described.type, result.type)
                                               /\ Holds(result.type, described.type)
               /\ ~ described.nullable => "null" \notin { held[i] : i \in DOMAIN held }
    <3>1. result = ResultField /\ progress # "new"
      BY <2>5 DEF RoundtripInv, ResultInv
    <3>2. described.type = Ty(decl) /\ described.nullable = column.nullable
      BY <2>1, <2>2, <2>5 DEF Field
    <3>3. ASSUME result.type.name # "Null"
          PROVE  Holds(described.type, result.type) /\ Holds(result.type, described.type)
      <4>1. column.type.name \in Classes /\ result.type = Ty(DbIntoArrow("sqlite", column.type.name))
        BY <1>2, <3>1, <3>3, SQLiteResult DEF Field, Ty
      <4>2. QED
        BY <3>2, <4>1, SQLiteAgree DEF Classes
    <3>4. ~ described.nullable => "null" \notin { held[i] : i \in DOMAIN held }
      BY <3>2, NullsFit
    <3>5. QED
      BY <3>3, <3>4
  <2>6. QED
    BY <1>2, <2>4, <2>5 DEF IntrospectionAgrees
<1>3. QED
  BY <1>1, <1>2

(* No more cells are read than held, and as many held as sent.             *)
THEOREM RoundtripTypeCorrect == RoundtripSpec => []RoundtripTypeOK
<1>1. RoundtripInv => RoundtripTypeOK
  BY DEF RoundtripInv, RoundtripTypeOK, HeldInv, ResultInv, ReadBackInv
<1>2. QED
  BY <1>1, RoundtripInvariance, PTL

(* What type_arrow_into_db has a column type for can be created, written   *)
(* and read (with the exceptions AnnouncedOnly lists), what it has none    *)
(* for never gets into a table.                                            *)
THEOREM WhatIsAnnouncedWorks == RoundtripSpec => []SupportedRoundtrips
<1>1. RoundtripInv => SupportedRoundtrips
  BY DEF RoundtripInv
<1>2. QED
  BY <1>1, RoundtripInvariance, PTL

(* The type of a result is the one announced for the column announced.     *)
THEOREM ReadTypesAreAnnounced == RoundtripSpec => []ReadTypeIsAnnounced
<1>1. RoundtripInv => ReadTypeIsAnnounced
  BY AnnouncedType
<1>2. QED
  BY <1>1, RoundtripInvariance, PTL

(* What is read is what was appended, for every type, decimal and mismatch. *)
THEOREM ReadingIsLossless == RoundtripSpec => []ReadIsLossless
<1>1. RoundtripInv => ReadIsLossless
  BY Lossless
<1>2. QED
  BY <1>1, RoundtripInvariance, PTL

(* Tables somebody else made panic only for types without an arm, and for  *)
(* SQL Server's columns of characters that are not national.               *)
THEOREM UnmappedTypesPanic == RoundtripSpec => []OnlyUnmappedPanics
<1>1. RoundtripInv => OnlyUnmappedPanics
  BY DEF RoundtripInv
<1>2. QED
  BY <1>1, RoundtripInvariance, PTL

(* table_get and queries describe a column alike.                          *)
THEOREM IntrospectionsAgree == RoundtripSpec => []IntrospectionAgrees
<1>1. RoundtripInv => IntrospectionAgrees
  BY Introspection
<1>2. QED
  BY <1>1, RoundtripInvariance, PTL

-----------------------------------------------------------------------------
(* Positions, in digits of the integer sent: the first one not cut off yet, *)
(* and, at or below its end, that of the last digit of the last group.     *)
UncutFrom == 4 * (weight + 1) + scale
SentFrom  == 4 * (weight + 1 - Len(groups)) + scale

(* The places of a group.                                                  *)
Place == 0 .. 3

(* The decimal is one of those sent, and every group and digit in range.   *)
FieldsInv ==
  /\ unscaled \in Unscaled /\ unscaled \in Nat
  /\ scale \in Scales /\ scale \in Int /\ neg \in BOOLEAN
  /\ rest \in Nat /\ weight \in Int /\ at \in 0 .. Len(groups)
  /\ groups \in Seq(Group)
  /\ buf \in Seq(Digit) /\ remainder \in Digit
  /\ phase \in {"first", "cut", "sent", "refused", "read", "done", "panicked"}

(* Nothing is cut before the first group, nothing read before the server.  *)
FirstInv ==
  phase = "first" => groups = <<>> /\ weight = 0 /\ rest = unscaled

EncoderInv ==
  phase \in {"first", "cut", "sent"} => at = 0 /\ buf = <<>> /\ remainder = 0

(* The groups cut so far, the least first, have the decimal's digits at their *)
(* places, the last of them ends where the integer does, and what is left to *)
(* cut is the integer without them.  The most significant group is not zero, *)
(* unless the integer is.                                                  *)
CutInv ==
  phase = "cut" /\ scale >= 0 =>
    /\ -4 < SentFrom /\ SentFrom <= 0 /\ UncutFrom >= 0
    /\ rest = Shorn[UncutFrom]
    /\ \A i \in 1 .. Len(groups), d \in Place :
         GroupDigit(groups[i], d) = DecimalDigit(4 * (weight - (Len(groups) - i)) + d)
    /\ groups # <<>> /\ rest = 0 /\ groups[Len(groups)] = 0 => unscaled = 0

(* Numeric and decimal have the same digits.                               *)
Exact == \A k \in Int : NumericDigit(k) = DecimalDigit(k)

(* The numeric sent is exact, and its weight is that of the decimal's first *)
(* digit: no digit of the integer is above its groups.                     *)
SentInv ==
  phase = "sent" /\ scale >= 0 =>
    /\ -4 < SentFrom /\ SentFrom <= 0 /\ UncutFrom >= 0 /\ Shorn[UncutFrom] = 0
    /\ groups # <<>> /\ groups[1] = 0 => unscaled = 0
    /\ Exact

(* The numbers below 0.0001, zero excepted.                                *)
Tiny == scale > 4 /\ unscaled # 0 /\ Shorn[scale - 4] = 0

(* The normal form is exact, and the point is left of it for tiny ones only. *)
StoredInv ==
  phase \in {"read", "done", "panicked"} =>
    /\ scale >= 0
    /\ Exact
    /\ Dot < 1 => Tiny

(* The decoder has written the digits of the groups it has consumed, from the *)
(* point to the left, but for the last one, which it carries.              *)
ReadInv ==
  phase = "read" =>
    /\ Len(buf) = 4 * at
    /\ \A x \in 1 .. Len(buf) : buf[x] = NumericDigit(Dot - x)
    /\ remainder = NumericDigit(Dot - (Len(buf) + 1))

(* The inductive invariant.                                                *)
CodecInv ==
  /\ FieldsInv /\ FirstInv /\ EncoderInv
  /\ CutInv /\ SentInv /\ StoredInv /\ ReadInv
  /\ DecodedIsExact
  /\ phase = "panicked" => Tiny

-----------------------------------------------------------------------------
(* A set of numbers has a least one: the intervals that end in them are    *)
(* ordered by inclusion.                                                   *)
LEMMA LeastNumber ==
  ASSUME NEW T \in SUBSET Nat, T # {}
  PROVE  \E m \in T : \A n \in T : m <= n
<1> DEFINE U == { 1 .. m : m \in T }
<1>1. IsWellFoundedOn(StrictSubsetOrdering(Nat), FiniteSubsetsOf(Nat))
  BY FS_StrictSubsetOrderingWellFounded
<1>2. U \subseteq FiniteSubsetsOf(Nat) /\ U # {}
  <2>1. ASSUME NEW m \in T PROVE 1 .. m \subseteq Nat /\ IsFiniteSet(1 .. m)
    BY FS_Interval
  <2>2. QED
    BY <2>1 DEF FiniteSubsetsOf
<1> HIDE DEF U
<1>3. PICK u \in U : \A v \in U : ~(<<v, u>> \in StrictSubsetOrdering(Nat))
  BY <1>1, <1>2, WFMin
<1>4. PICK m \in T : u = 1 .. m
  BY DEF U
<1>5. ASSUME NEW n \in T, n < m PROVE FALSE
  <2>1. 1 .. n \in U
    BY DEF U
  <2>2. m \in 1 .. m /\ m \notin 1 .. n
    BY <1>5
  <2>3. 1 .. n \subseteq 1 .. m /\ 1 .. n # 1 .. m
    BY <1>5, <2>2
  <2>4. <<1 .. n, 1 .. m>> \in StrictSubsetOrdering(Nat)
    BY <2>3 DEF StrictSubsetOrdering
  <2>5. QED
    BY <1>3, <1>4, <2>1, <2>4
<1>6. QED
  BY <1>5

(* Shorn is well defined: for each k there is a function that is right up to *)
(* k, it agrees with all the others, and Shorn is put together from them.  *)
LEMMA ShornIs ==
  ASSUME unscaled \in Nat
  PROVE  /\ Shorn[0] = unscaled
         /\ \A k \in Nat : Shorn[k] \in Nat /\ Shorn[k + 1] = Shorn[k] \div 10
<1> DEFINE Loop(f, n) == f = [k \in 0 .. n |-> IF k = 0 THEN unscaled ELSE f[k - 1] \div 10]
           Cuts(n) == CHOOSE f : Loop(f, n)
           Infinite(f) == f = [k \in Nat |-> IF k = 0 THEN unscaled ELSE f[k - 1] \div 10]
           T == { n \in Nat : ~\E f : Loop(f, n) }
<1> HIDE DEF Loop
<1>1. T = {}
  <2> SUFFICES ASSUME T # {} PROVE FALSE
    OBVIOUS
  <2>1. PICK n \in T : \A m \in T : n <= m
    BY LeastNumber
  <2>2. CASE n = 0
    <3>1. Loop([k \in 0 .. n |-> unscaled], n)
      BY <2>2 DEF Loop
    <3>2. QED
      BY <3>1
  <2>3. CASE n # 0
    <3>1. n \in Nat /\ n - 1 \in Nat /\ n - 1 \notin T
      BY <2>1, <2>3
    <3>2. PICK before : Loop(before, n - 1)
      BY <3>1
    <3> DEFINE f == [k \in 0 .. n |-> IF k = n THEN before[n - 1] \div 10 ELSE before[k]]
    <3>3. ASSUME NEW k \in 0 .. n
          PROVE  f[k] = IF k = 0 THEN unscaled ELSE f[k - 1] \div 10
      <4>1. CASE k = n
        <5>1. f[k] = before[n - 1] \div 10 /\ f[k - 1] = before[n - 1]
          BY <2>3, <3>1, <4>1
        <5>2. QED
          BY <2>3, <4>1, <5>1
      <4>2. CASE k # n
        <5>1. k \in 0 .. n - 1 /\ (k # 0 => k - 1 \in 0 .. n - 1)
          BY <3>1, <4>2
        <5>2. f[k] = before[k] /\ (k # 0 => f[k - 1] = before[k - 1])
          BY <3>1, <4>2, <5>1
        <5> HIDE DEF f
        <5>3. QED
          BY <3>2, <5>1, <5>2 DEF Loop
      <4>3. QED
        BY <4>1, <4>2
    <3>4. Loop(f, n)
      BY <3>3 DEF Loop
    <3>5. QED
      BY <3>4
  <2>4. QED
    BY <2>2, <2>3
<1>2. \A n \in Nat : Loop(Cuts(n), n)
  <2>1. \A n \in Nat : \E f : Loop(f, n)
    BY <1>1
  <2>2. QED
    BY <2>1
<1> HIDE DEF Cuts, T
<1>3. ASSUME NEW n \in Nat, NEW k \in 0 .. n
      PROVE  Cuts(n)[k] = IF k = 0 THEN unscaled ELSE Cuts(n)[k - 1] \div 10
  <2>1. Loop(Cuts(n), n)
    BY <1>2
  <2>2. QED
    BY <2>1, Zenon DEF Loop

(* A longer run of the loop agrees with a shorter one.                     *)
<1>4. ASSUME NEW n \in Nat, NEW m \in Nat, n <= m
      PROVE  Cuts(m)[n] = Cuts(n)[n]
  <2> DEFINE U == { k \in 0 .. n : Cuts(m)[k] # Cuts(n)[k] }
  <2> SUFFICES ASSUME U # {} PROVE FALSE
    OBVIOUS
  <2>0. U \in SUBSET Nat
    OBVIOUS
  <2>1. PICK k \in U : \A j \in U : k <= j
    BY <2>0, LeastNumber
  <2>2. /\ Cuts(m)[k] = IF k = 0 THEN unscaled ELSE Cuts(m)[k - 1] \div 10
        /\ Cuts(n)[k] = IF k = 0 THEN unscaled ELSE Cuts(n)[k - 1] \div 10
    BY <1>3, <1>4
  <2>3. k = 0 \/ k - 1 \notin U
    BY <2>1
  <2>4. QED
    BY <2>1, <2>2, <2>3
<1> DEFINE f == [k \in Nat |-> Cuts(k)[k]]
<1>5. Infinite(f)
  <2>1. ASSUME NEW k \in Nat PROVE f[k] = IF k = 0 THEN unscaled ELSE f[k - 1] \div 10
    <3>1. CASE k = 0
      <4>1. f[k] = Cuts(k)[k] /\ k \in 0 .. k
        OBVIOUS
      <4>2. QED
        BY <1>3, <3>1, <4>1
    <3>2. CASE k # 0
      <4>1. k - 1 \in Nat /\ k \in 0 .. k /\ k - 1 <= k
        BY <3>2
      <4>2. f[k] = Cuts(k)[k] /\ f[k - 1] = Cuts(k - 1)[k - 1]
        BY <4>1
      <4>3. Cuts(k)[k] = Cuts(k)[k - 1] \div 10 /\ Cuts(k)[k - 1] = Cuts(k - 1)[k - 1]
        BY <1>3, <1>4, <3>2, <4>1
      <4>4. QED
        BY <3>2, <4>2, <4>3
    <3>3. QED
      BY <3>1, <3>2
  <2>2. QED
    BY <2>1
<1> HIDE DEF f
<1>6. Infinite(Shorn)
  BY <1>5, Zenon DEF Shorn
<1>7. \A k \in Nat : Shorn[k] = IF k = 0 THEN unscaled ELSE Shorn[k - 1] \div 10
  BY <1>6, Zenon
<1>8. \A k \in Nat : Shorn[k + 1] = Shorn[k] \div 10
  <2>1. \A k \in Nat : k + 1 \in Nat /\ k + 1 # 0 /\ (k + 1) - 1 = k
    OBVIOUS
  <2>2. QED
    BY <1>7, <2>1, Zenon
<1>9. \A k \in Nat : Shorn[k] \in Nat
  <2> DEFINE U == { k \in Nat : Shorn[k] \notin Nat }
  <2> SUFFICES ASSUME U # {} PROVE FALSE
    OBVIOUS
  <2>1. PICK k \in U : \A j \in U : k <= j
    BY LeastNumber
  <2>2. k # 0 /\ k - 1 \in Nat /\ k - 1 \notin U
    BY <1>7, <2>1
  <2>3. QED
    BY <1>7, <2>1, <2>2
<1>10. QED
  BY <1>7, <1>8, <1>9

(* Where no digit is left, none is further on.                             *)
LEMMA ShornZero ==
  ASSUME unscaled \in Nat, NEW k \in Nat, Shorn[k] = 0, NEW m \in Nat, k <= m
  PROVE  Shorn[m] = 0
<1> DEFINE U == { j \in Nat : k <= j /\ Shorn[j] # 0 }
<1> SUFFICES ASSUME U # {} PROVE FALSE
  OBVIOUS
<1>1. PICK j \in U : \A i \in U : j <= i
  BY LeastNumber
<1>2. j - 1 \in Nat /\ k <= j - 1 /\ j - 1 \notin U
  BY <1>1
<1>3. Shorn[j - 1] = 0 /\ Shorn[(j - 1) + 1] = 0
  BY <1>2, ShornIs
<1>4. QED
  BY <1>1, <1>3

(* The four digits of a group.                                             *)
LEMMA Places == \A d \in Place : d = 0 \/ d = 1 \/ d = 2 \/ d = 3
  BY DEF Place

LEMMA GroupRange == \A g \in Nat : g <= 9999 <=> g \in Group
  BY DEF Group

LEMMA OnesDigit == \A g \in Nat : GroupDigit(g, 0) = g % 10
  BY DEF GroupDigit

LEMMA TensDigit == \A g \in Nat : GroupDigit(g, 1) = (g \div 10) % 10
  BY DEF GroupDigit

LEMMA HundredsDigit == \A g \in Nat : GroupDigit(g, 2) = (g \div 100) % 10
  BY DEF GroupDigit

LEMMA ThousandsDigit == \A g \in Nat : GroupDigit(g, 3) = (g \div 1000) % 10
  BY DEF GroupDigit

(* Digits of a group are digits, and those of zero are zero.               *)
LEMMA GroupDigitType ==
  ASSUME NEW g \in Nat, NEW d \in Place
  PROVE  GroupDigit(g, d) \in Digit
<1>1. \A n \in Nat : n % 10 \in Digit
  BY DEF Digit
<1>2. GroupDigit(g, 0) \in Digit
  BY <1>1, OnesDigit
<1>3. GroupDigit(g, 1) \in Digit
  <2>1. g \div 10 \in Nat
    OBVIOUS
  <2>2. QED
    BY <1>1, <2>1, TensDigit
<1>4. GroupDigit(g, 2) \in Digit
  <2>1. g \div 100 \in Nat
    OBVIOUS
  <2>2. QED
    BY <1>1, <2>1, HundredsDigit
<1>5. GroupDigit(g, 3) \in Digit
  <2>1. g \div 1000 \in Nat
    OBVIOUS
  <2>2. QED
    BY <1>1, <2>1, ThousandsDigit
<1>6. QED
  BY <1>2, <1>3, <1>4, <1>5, Places

LEMMA ZeroGroup ==
  ASSUME NEW d \in Place
  PROVE  GroupDigit(0, d) = 0
<1>1. 0 % 10 = 0 /\ (0 \div 10) % 10 = 0 /\ (0 \div 100) % 10 = 0 /\ (0 \div 1000) % 10 = 0
  OBVIOUS
<1>2. QED
  BY <1>1, OnesDigit, TensDigit, HundredsDigit, ThousandsDigit, Places

(* A group with no digit is zero.                                          *)
LEMMA NoDigits ==
  ASSUME NEW g \in Group, \A d \in Place : GroupDigit(g, d) = 0
  PROVE  g = 0
<1>1. g \in Nat /\ g <= 9999 /\ 0 \in Place /\ 1 \in Place /\ 2 \in Place /\ 3 \in Place
  BY DEF Group, Place
<1>2. g % 10 = 0 /\ (g \div 10) % 10 = 0 /\ (g \div 100) % 10 = 0 /\ (g \div 1000) % 10 = 0
  <2>1. g % 10 = 0
    BY <1>1, OnesDigit
  <2>2. (g \div 10) % 10 = 0
    BY <1>1, TensDigit
  <2>3. (g \div 100) % 10 = 0
    BY <1>1, HundredsDigit
  <2>4. (g \div 1000) % 10 = 0
    BY <1>1, ThousandsDigit
  <2>5. QED
    BY <2>1, <2>2, <2>3, <2>4
<1>3. g \div 10 = 10 * (g \div 100) /\ g \div 100 = 10 * (g \div 1000) /\ g = 10 * (g \div 10)
  BY <1>1, <1>2
<1>4. g \div 1000 = 0
  <2>1. g \div 1000 <= 9 /\ g \div 1000 \in Nat
    BY <1>1
  <2>2. QED
    BY <1>2, <2>1
<1>5. QED
  BY <1>3, <1>4

(* The last four digits of a number are the digits of a group.             *)
LEMMA LowGroup ==
  ASSUME NEW n \in Nat
  PROVE  /\ GroupDigit(n % 10000, 0) = n % 10
         /\ GroupDigit(n % 10000, 1) = (n \div 10) % 10
         /\ GroupDigit(n % 10000, 2) = (n \div 100) % 10
         /\ GroupDigit(n % 10000, 3) = (n \div 1000) % 10
<1>1. ASSUME NEW g \in Nat, g = n % 10000
      PROVE  /\ GroupDigit(g, 0) = n % 10 /\ GroupDigit(g, 1) = (n \div 10) % 10
             /\ GroupDigit(g, 2) = (n \div 100) % 10
             /\ GroupDigit(g, 3) = (n \div 1000) % 10
  <2>1. /\ g % 10 = n % 10 /\ (g \div 10) % 10 = (n \div 10) % 10
        /\ (g \div 100) % 10 = (n \div 100) % 10 /\ (g \div 1000) % 10 = (n \div 1000) % 10
    BY <1>1
  <2>2. GroupDigit(g, 0) = n % 10
    BY <2>1, OnesDigit
  <2>3. GroupDigit(g, 1) = (n \div 10) % 10
    BY <2>1, TensDigit
  <2>4. GroupDigit(g, 2) = (n \div 100) % 10
    BY <2>1, HundredsDigit
  <2>5. GroupDigit(g, 3) = (n \div 1000) % 10
    BY <2>1, ThousandsDigit
  <2>6. QED
    BY <2>2, <2>3, <2>4, <2>5
<1>2. n % 10000 \in Nat
  OBVIOUS
<1>3. QED
  BY <1>1, <1>2

(* A group of the integer has four of its digits.                          *)
LEMMA ShornFour ==
  ASSUME unscaled \in Nat, NEW k \in Nat
  PROVE  /\ Shorn[k + 4] = Shorn[k] \div 10000
         /\ \A d \in Place : GroupDigit(Shorn[k] % 10000, d) = Shorn[k + d] % 10
<1> DEFINE s == Shorn[k]
<1>1. s \in Nat /\ Shorn[k + 0] = s
  BY ShornIs
<1>2. Shorn[k + 1] = s \div 10
  BY ShornIs
<1>3. Shorn[(k + 1) + 1] = (s \div 10) \div 10
  <2>1. k + 1 \in Nat
    OBVIOUS
  <2>2. QED
    BY <1>2, <2>1, ShornIs
<1>4. Shorn[(k + 2) + 1] = ((s \div 10) \div 10) \div 10
  <2>1. k + 2 \in Nat /\ (k + 1) + 1 = k + 2
    OBVIOUS
  <2>2. QED
    BY <1>3, <2>1, ShornIs
<1>5. Shorn[(k + 3) + 1] = (((s \div 10) \div 10) \div 10) \div 10
  <2>1. k + 3 \in Nat /\ (k + 2) + 1 = k + 3
    OBVIOUS
  <2>2. QED
    BY <1>4, <2>1, ShornIs
<1>6. Shorn[k + 2] = s \div 100
  <2>1. (k + 1) + 1 = k + 2
    OBVIOUS
  <2> HIDE DEF s
  <2>2. (s \div 10) \div 10 = s \div 100
    BY <1>1
  <2>3. QED
    BY <1>3, <2>1, <2>2
<1>7. Shorn[k + 3] = s \div 1000
  <2>1. (k + 2) + 1 = k + 3
    OBVIOUS
  <2> HIDE DEF s
  <2>2. ((s \div 10) \div 10) \div 10 = s \div 1000
    BY <1>1
  <2>3. QED
    BY <1>4, <2>1, <2>2
<1>8. Shorn[k + 4] = s \div 10000
  <2>1. (k + 3) + 1 = k + 4
    OBVIOUS
  <2> HIDE DEF s
  <2>2. (((s \div 10) \div 10) \div 10) \div 10 = s \div 10000
    BY <1>1
  <2>3. QED
    BY <1>5, <2>1, <2>2
<1>9. /\ GroupDigit(s % 10000, 0) = s % 10
      /\ GroupDigit(s % 10000, 1) = (s \div 10) % 10
      /\ GroupDigit(s % 10000, 2) = (s \div 100) % 10
      /\ GroupDigit(s % 10000, 3) = (s \div 1000) % 10
  BY <1>1, LowGroup
<1>10. ASSUME NEW d \in Place PROVE GroupDigit(s % 10000, d) = Shorn[k + d] % 10
  <2> HIDE DEF s
  <2>1. d = 0 \/ d = 1 \/ d = 2 \/ d = 3
    BY Places
  <2>2. CASE d = 0
    BY <1>1, <1>9, <2>2
  <2>3. CASE d = 1
    BY <1>2, <1>9, <2>3
  <2>4. CASE d = 2
    BY <1>6, <1>9, <2>4
  <2>5. CASE d = 3
    BY <1>7, <1>9, <2>5
  <2>6. QED
    BY <2>1, <2>2, <2>3, <2>4, <2>5
<1>11. QED
  BY <1>8, <1>10

(* The digits the first group takes.                                       *)
LEMMA ShornThree ==
  ASSUME unscaled \in Nat
  PROVE  /\ Shorn[0] = unscaled /\ Shorn[1] = unscaled \div 10
         /\ Shorn[2] = unscaled \div 100 /\ Shorn[3] = unscaled \div 1000
<1>1. Shorn[0] = unscaled /\ Shorn[0 + 1] = Shorn[0] \div 10
      /\ Shorn[1 + 1] = Shorn[1] \div 10 /\ Shorn[2 + 1] = Shorn[2] \div 10
  BY ShornIs
<1>2. \A u \in Nat : (u \div 10) \div 10 = u \div 100 /\ (u \div 100) \div 10 = u \div 1000
  OBVIOUS
<1>3. QED
  BY <1>1, <1>2

(* The first group, of the o digits that do not fill a group: it is padded to *)
(* the places of a group, and what is left is the integer without them.    *)
FirstOf(o) == (unscaled % 10 ^ o) * 10 ^ (4 - o)
AfterFirst(o) == unscaled \div 10 ^ o

LEMMA FirstOne ==
  ASSUME unscaled \in Nat
  PROVE  /\ FirstOf(1) \in Group
         /\ AfterFirst(1) = Shorn[1]
         /\ \A d \in Place : GroupDigit(FirstOf(1), d) = IF d >= 3 THEN Shorn[d - 3] % 10 ELSE 0
         /\ FirstOf(1) = 0 /\ AfterFirst(1) = 0 => unscaled = 0
<1>1. FirstOf(1) = (unscaled % 10) * 1000 /\ AfterFirst(1) = unscaled \div 10
  BY DEF FirstOf, AfterFirst
<1>2. /\ Shorn[0] = unscaled /\ Shorn[1] = unscaled \div 10
      /\ Shorn[2] = unscaled \div 100 /\ Shorn[3] = unscaled \div 1000
  BY ShornThree
<1>3. PICK u \in Nat : u = unscaled
  OBVIOUS
<1>4. PICK g \in Nat : g = FirstOf(1)
  BY <1>1
<1>5. g = (u % 10) * 1000
  BY <1>1, <1>3, <1>4
<1>6. g <= 9999 /\ (g = 0 /\ u \div 10 = 0 => u = 0)
  BY <1>5
<1>7. g % 10 = 0 /\ (g \div 10) % 10 = 0
  BY <1>5
<1>8. (g \div 100) % 10 = 0 /\ (g \div 1000) % 10 = u % 10
  BY <1>5
<1>9. ASSUME NEW d \in Place
      PROVE  GroupDigit(g, d) = IF d >= 3 THEN Shorn[d - 3] % 10 ELSE 0
  <2>1. CASE d = 0
    BY <1>7, <2>1, OnesDigit
  <2>2. CASE d = 1
    BY <1>2, <1>3, <1>7, <2>2, TensDigit
  <2>3. CASE d = 2
    BY <1>2, <1>3, <1>8, <2>3, HundredsDigit
  <2>4. CASE d = 3
    BY <1>2, <1>3, <1>8, <2>4, ThousandsDigit
  <2>5. QED
    BY <2>1, <2>2, <2>3, <2>4, Places
<1>10. g \in Group
  BY <1>6, GroupRange
<1>11. AfterFirst(1) = Shorn[1] /\ (g = 0 /\ AfterFirst(1) = 0 => unscaled = 0)
  BY <1>1, <1>2, <1>3, <1>6
<1>12. QED
  BY <1>4, <1>9, <1>10, <1>11

LEMMA FirstTwo ==
  ASSUME unscaled \in Nat
  PROVE  /\ FirstOf(2) \in Group
         /\ AfterFirst(2) = Shorn[2]
         /\ \A d \in Place : GroupDigit(FirstOf(2), d) = IF d >= 2 THEN Shorn[d - 2] % 10 ELSE 0
         /\ FirstOf(2) = 0 /\ AfterFirst(2) = 0 => unscaled = 0
<1>1. FirstOf(2) = (unscaled % 100) * 100 /\ AfterFirst(2) = unscaled \div 100
  BY DEF FirstOf, AfterFirst
<1>2. /\ Shorn[0] = unscaled /\ Shorn[1] = unscaled \div 10
      /\ Shorn[2] = unscaled \div 100 /\ Shorn[3] = unscaled \div 1000
  BY ShornThree
<1>3. PICK u \in Nat : u = unscaled
  OBVIOUS
<1>4. PICK g \in Nat : g = FirstOf(2)
  BY <1>1
<1>5. g = (u % 100) * 100
  BY <1>1, <1>3, <1>4
<1>6. g <= 9999 /\ (g = 0 /\ u \div 100 = 0 => u = 0)
  BY <1>5
<1>7. g % 10 = 0 /\ (g \div 10) % 10 = 0
  BY <1>5
<1>8. (g \div 100) % 10 = u % 10 /\ (g \div 1000) % 10 = (u \div 10) % 10
  BY <1>5
<1>9. ASSUME NEW d \in Place
      PROVE  GroupDigit(g, d) = IF d >= 2 THEN Shorn[d - 2] % 10 ELSE 0
  <2>1. CASE d = 0
    BY <1>7, <2>1, OnesDigit
  <2>2. CASE d = 1
    BY <1>2, <1>3, <1>7, <2>2, TensDigit
  <2>3. CASE d = 2
    BY <1>2, <1>3, <1>8, <2>3, HundredsDigit
  <2>4. CASE d = 3
    BY <1>2, <1>3, <1>8, <2>4, ThousandsDigit
  <2>5. QED
    BY <2>1, <2>2, <2>3, <2>4, Places
<1>10. g \in Group
  BY <1>6, GroupRange
<1>11. AfterFirst(2) = Shorn[2] /\ (g = 0 /\ AfterFirst(2) = 0 => unscaled = 0)
  BY <1>1, <1>2, <1>3, <1>6
<1>12. QED
  BY <1>4, <1>9, <1>10, <1>11

LEMMA FirstThree ==
  ASSUME unscaled \in Nat
  PROVE  /\ FirstOf(3) \in Group
         /\ AfterFirst(3) = Shorn[3]
         /\ \A d \in Place : GroupDigit(FirstOf(3), d) = IF d >= 1 THEN Shorn[d - 1] % 10 ELSE 0
         /\ FirstOf(3) = 0 /\ AfterFirst(3) = 0 => unscaled = 0
<1>1. FirstOf(3) = (unscaled % 1000) * 10 /\ AfterFirst(3) = unscaled \div 1000
  BY DEF FirstOf, AfterFirst
<1>2. /\ Shorn[0] = unscaled /\ Shorn[1] = unscaled \div 10
      /\ Shorn[2] = unscaled \div 100 /\ Shorn[3] = unscaled \div 1000
  BY ShornThree
<1>3. PICK u \in Nat : u = unscaled
  OBVIOUS
<1>4. PICK g \in Nat : g = FirstOf(3)
  BY <1>1
<1>5. g = (u % 1000) * 10
  BY <1>1, <1>3, <1>4
<1>6. g <= 9999 /\ (g = 0 /\ u \div 1000 = 0 => u = 0)
  BY <1>5
<1>7. g % 10 = 0 /\ (g \div 10) % 10 = u % 10
  BY <1>5
<1>8. (g \div 100) % 10 = (u \div 10) % 10 /\ (g \div 1000) % 10 = (u \div 100) % 10
  BY <1>5
<1>9. ASSUME NEW d \in Place
      PROVE  GroupDigit(g, d) = IF d >= 1 THEN Shorn[d - 1] % 10 ELSE 0
  <2>1. CASE d = 0
    BY <1>7, <2>1, OnesDigit
  <2>2. CASE d = 1
    BY <1>2, <1>3, <1>7, <2>2, TensDigit
  <2>3. CASE d = 2
    BY <1>2, <1>3, <1>8, <2>3, HundredsDigit
  <2>4. CASE d = 3
    BY <1>2, <1>3, <1>8, <2>4, ThousandsDigit
  <2>5. QED
    BY <2>1, <2>2, <2>3, <2>4, Places
<1>10. g \in Group
  BY <1>6, GroupRange
<1>11. AfterFirst(3) = Shorn[3] /\ (g = 0 /\ AfterFirst(3) = 0 => unscaled = 0)
  BY <1>1, <1>2, <1>3, <1>6
<1>12. QED
  BY <1>4, <1>9, <1>10, <1>11

LEMMA FirstDigits ==
  ASSUME unscaled \in Nat, NEW o \in Nat, o = 1 \/ o = 2 \/ o = 3
  PROVE  /\ FirstOf(o) \in Group
         /\ AfterFirst(o) = Shorn[o]
         /\ \A d \in Place :
              GroupDigit(FirstOf(o), d) = IF d >= 4 - o THEN Shorn[d - (4 - o)] % 10 ELSE 0
         /\ FirstOf(o) = 0 /\ AfterFirst(o) = 0 => unscaled = 0
<1>1. CASE o = 1
  BY <1>1, FirstOne
<1>2. CASE o = 2
  BY <1>2, FirstTwo
<1>3. CASE o = 3
  BY <1>3, FirstThree
<1>4. QED
  BY <1>1, <1>2, <1>3

(* The truncating operations on the scale.                                 *)
LEMMA ScaleOffset ==
  ASSUME scale \in Int
  PROVE  /\ Quotient(- scale, 4) \in Int /\ Rem(scale, 4) \in Int
         /\ Rem(scale, 4) < 4
         /\ scale < 0 => Rem(scale, 4) <= 0
         /\ scale >= 0 => /\ Rem(scale, 4) >= 0
                          /\ 4 * Quotient(- scale, 4) + scale = Rem(scale, 4)
<1>1. CASE scale >= 0
  <2>1. Quotient(- scale, 4) = - (scale \div 4)
    BY <1>1 DEF Quotient
  <2>2. Rem(scale, 4) = scale - (scale \div 4) * 4
    BY <1>1 DEF Rem, Quotient
  <2>3. PICK q \in Int : q = scale \div 4
    BY <1>1
  <2>4. 0 <= scale - 4 * q /\ scale - 4 * q < 4
    BY <1>1, <2>3
  <2>5. Quotient(- scale, 4) = - q /\ Rem(scale, 4) = scale - 4 * q
    BY <2>1, <2>2, <2>3
  <2>6. QED
    BY <1>1, <2>4, <2>5
<1>2. CASE scale < 0
  <2>1. Quotient(- scale, 4) = (- scale) \div 4
    BY <1>2 DEF Quotient
  <2>2. Rem(scale, 4) = scale + ((- scale) \div 4) * 4
    BY <1>2 DEF Rem, Quotient
  <2>3. QED
    BY <1>2, <2>1, <2>2
<1>3. QED
  BY <1>1, <1>2

-----------------------------------------------------------------------------
(* A decimal that a step leaves alone keeps its digits.                    *)
LEMMA SameDecimal ==
  ASSUME UNCHANGED decimal
  PROVE  /\ Shorn' = Shorn
         /\ \A k : DecimalDigit(k)' = DecimalDigit(k)
<1>1. unscaled' = unscaled /\ scale' = scale
  BY DEF decimal
<1>2. Shorn' = Shorn
  BY <1>1 DEF Shorn
<1>3. QED
  BY <1>1, <1>2 DEF DecimalDigit

(* So does a numeric the step leaves alone.                                *)
LEMMA SameNumeric ==
  ASSUME UNCHANGED <<groups, weight>>
  PROVE  /\ Dot' = Dot
         /\ \A k : NumericDigit(k)' = NumericDigit(k)
  BY DEF Dot, NumericDigit

-----------------------------------------------------------------------------
LEMMA CodecInit == NumericInit => CodecInv
<1> SUFFICES ASSUME NumericInit PROVE CodecInv
  OBVIOUS
<1>1. phase = "first"
  BY DEF NumericInit
<1>2. FieldsInv
  <2>1. unscaled \in Unscaled /\ unscaled \in Nat /\ scale \in Scales /\ scale \in Int
    BY NumericAssumption DEF NumericInit
  <2>2. 0 \in Digit
    BY DEF Digit
  <2>3. /\ groups = <<>> /\ buf = <<>> /\ at = 0 /\ remainder = 0 /\ weight = 0
        /\ rest = unscaled /\ neg \in BOOLEAN
    BY DEF NumericInit
  <2>4. QED
    BY <1>1, <2>1, <2>2, <2>3 DEF FieldsInv
<1>3. FirstInv /\ EncoderInv
  BY DEF NumericInit, FirstInv, EncoderInv
<1>4. QED
  BY <1>1, <1>2, <1>3 DEF CodecInv, CutInv, SentInv, StoredInv, ReadInv, DecodedIsExact

(* For a negative scale there is no first group, and the numeric, which the *)
(* server refuses, says nothing.                                           *)
LEMMA FirstGroupInv ==
  ASSUME CodecInv, FirstGroup
  PROVE  CodecInv'
<1> DEFINE o == Rem(scale, 4)
<1>1. /\ phase' = "cut" /\ UNCHANGED decimal /\ UNCHANGED decoder
      /\ weight' = Quotient(- scale, 4) - 1
      /\ unscaled \in Nat /\ scale \in Int
      /\ groups = <<>> /\ rest = unscaled
      /\ at = 0 /\ buf = <<>> /\ remainder = 0
  BY DEF FirstGroup, CodecInv, FieldsInv, FirstInv, EncoderInv
<1>2. /\ unscaled' = unscaled /\ scale' = scale /\ neg' = neg
      /\ at' = 0 /\ buf' = <<>> /\ remainder' = 0 /\ text' = text
  BY <1>1 DEF decimal, decoder
<1>3. Shorn' = Shorn /\ \A k : DecimalDigit(k)' = DecimalDigit(k)
  BY <1>1, SameDecimal
<1>4. /\ Quotient(- scale, 4) \in Int /\ o \in Int /\ o < 4 /\ (scale < 0 => o <= 0)
      /\ scale >= 0 => o >= 0 /\ 4 * Quotient(- scale, 4) + scale = o
  BY <1>1, ScaleOffset
<1>5. weight' \in Int /\ (scale >= 0 => UncutFrom' = o)
  BY <1>1, <1>2, <1>4 DEF UncutFrom
<1> HIDE DEF o
<1>6. CASE o > 0
  <2>1. groups' = <<FirstOf(o)>> /\ rest' = AfterFirst(o)
    BY <1>6, Zenon DEF FirstGroup, FirstOf, AfterFirst, o
  <2>2. scale >= 0 /\ o \in Nat /\ (o = 1 \/ o = 2 \/ o = 3)
    BY <1>1, <1>4, <1>6
  <2>3. /\ FirstOf(o) \in Group /\ rest' = Shorn[o]
        /\ \A d \in Place :
             GroupDigit(FirstOf(o), d) = IF d >= 4 - o THEN Shorn[d - (4 - o)] % 10 ELSE 0
        /\ FirstOf(o) = 0 /\ rest' = 0 => unscaled = 0
    BY <1>1, <2>1, <2>2, FirstDigits
  <2>4. rest' \in Nat
    BY <1>1, <2>2, <2>3, ShornIs
  <2>5. groups' \in Seq(Group) /\ Len(groups') = 1 /\ groups'[1] = FirstOf(o)
    BY <2>1, <2>3
  <2>6. /\ UncutFrom' = o /\ SentFrom' = o - 4
        /\ 4 * (weight' + 1) + scale = o
    <3>1. UncutFrom' = o /\ 4 * (weight' + 1) + scale = o
      BY <1>2, <1>5, <2>2 DEF UncutFrom
    <3>2. SentFrom' = 4 * weight' + scale
      BY <1>1, <1>2, <1>5, <2>5 DEF SentFrom
    <3>3. QED
      BY <1>1, <1>5, <2>2, <3>1, <3>2
  <2>7. ASSUME NEW d \in Place
        PROVE  GroupDigit(FirstOf(o), d) = DecimalDigit(4 * weight + d)'
    <3>1. d \in Int
      BY DEF Place
    <3>2. 4 * weight' + d + scale = d - (4 - o)
      BY <1>1, <1>5, <2>2, <2>6, <3>1
    <3>3. DecimalDigit(4 * weight + d)' = DecimalDigit(4 * weight' + d)
      BY <1>2, <1>3 DEF DecimalDigit
    <3>4. QED
      BY <2>2, <2>3, <3>1, <3>2, <3>3 DEF DecimalDigit
  <2>8. CutInv'
    <3>1. ASSUME NEW i \in 1 .. Len(groups'), NEW d \in Place
          PROVE  GroupDigit(groups'[i], d) = DecimalDigit(4 * (weight - (Len(groups) - i)) + d)'
      <4>1. i = 1 /\ 4 * (weight' - (Len(groups') - i)) + d = 4 * weight' + d
        BY <1>5, <2>5 DEF Place
      <4>2. QED
        BY <2>5, <2>7, <4>1
    <3>2. -4 < SentFrom' /\ SentFrom' <= 0 /\ UncutFrom' >= 0
      BY <2>2, <2>6
    <3>3. rest' = Shorn'[UncutFrom']
      BY <1>3, <2>3, <2>6
    <3>4. groups'[Len(groups')] = FirstOf(o)
      BY <2>5
    <3>5. rest' = 0 /\ groups'[Len(groups')] = 0 => unscaled' = 0
      BY <1>2, <2>3, <3>4
    <3>6. QED
      BY <3>1, <3>2, <3>3, <3>5 DEF CutInv
  <2>9. FieldsInv'
    BY <1>1, <1>2, <1>5, <2>4, <2>5 DEF CodecInv, FieldsInv
  <2>10. QED
    BY <1>1, <1>2, <2>8, <2>9
       DEF CodecInv, FirstInv, EncoderInv, SentInv, StoredInv, ReadInv, DecodedIsExact
<1>7. CASE o <= 0
  <2>1. groups' = <<>> /\ rest' = unscaled
    BY <1>1, <1>4, <1>7 DEF FirstGroup, o
  <2>2. FieldsInv'
    BY <1>1, <1>2, <1>5, <2>1 DEF CodecInv, FieldsInv
  <2>3. scale >= 0 => UncutFrom' = 0 /\ SentFrom' = 0 /\ rest' = Shorn[0]
    <3>1. Shorn[0] = unscaled
      BY <1>1, ShornIs
    <3>2. QED
      BY <1>1, <1>2, <1>4, <1>5, <1>7, <2>1, <3>1 DEF UncutFrom, SentFrom
  <2>4. CutInv'
    BY <1>2, <1>3, <2>1, <2>3 DEF CutInv
  <2>5. QED
    BY <1>1, <1>2, <2>2, <2>4
       DEF CodecInv, FirstInv, EncoderInv, SentInv, StoredInv, ReadInv, DecodedIsExact
<1>8. QED
  BY <1>4, <1>6, <1>7

(* Which group, and which of its places.                                   *)
LEMMA SplitPlace ==
  ASSUME NEW k \in Int
  PROVE  k \div 4 \in Int /\ k % 4 \in Place /\ k = 4 * (k \div 4) + (k % 4)
<1>1. \A r \in Int : 0 <= r /\ r < 4 => r \in Place
  BY DEF Place
<1>2. k % 4 \in Int /\ 0 <= k % 4 /\ k % 4 < 4
  OBVIOUS
<1>3. k \div 4 \in Int /\ k = 4 * (k \div 4) + (k % 4)
  OBVIOUS
<1>4. QED
  BY <1>1, <1>2, <1>3

(* The next group is the next four digits.  It is not zero if nothing is left *)
(* after it, since something was left before.                              *)
LEMMA CutGroupInv ==
  ASSUME CodecInv, CutGroup
  PROVE  CodecInv'
<1>1. /\ phase = "cut" /\ phase' = "cut" /\ UNCHANGED decimal /\ UNCHANGED decoder
      /\ rest # 0 /\ groups' = Append(groups, rest % 10000)
      /\ rest' = rest \div 10000 /\ weight' = weight + 1
      /\ unscaled \in Nat /\ scale \in Int /\ weight \in Int /\ rest \in Nat
      /\ groups \in Seq(Group) /\ FieldsInv /\ EncoderInv /\ CutInv
      /\ at = 0 /\ buf = <<>> /\ remainder = 0
  BY DEF CutGroup, CodecInv, FieldsInv, EncoderInv
<1>2. /\ unscaled' = unscaled /\ scale' = scale /\ neg' = neg
      /\ at' = 0 /\ buf' = <<>> /\ remainder' = 0 /\ text' = text
  BY <1>1 DEF decimal, decoder
<1>3. Shorn' = Shorn /\ \A k : DecimalDigit(k)' = DecimalDigit(k)
  BY <1>1, SameDecimal
<1>4. PICK g \in Nat : g = rest % 10000
  BY <1>1
<1>5. g <= 9999 /\ rest' \in Nat /\ rest = 10000 * rest' + g
  BY <1>1, <1>4
<1>6. g \in Group
  BY <1>5, GroupRange
<1> DEFINE n == Len(groups)
<1>7. /\ n \in Nat /\ groups' \in Seq(Group) /\ Len(groups') = n + 1
      /\ groups'[n + 1] = g /\ \A i \in 1 .. n : groups'[i] = groups[i]
  BY <1>1, <1>4, <1>6
<1>8. FieldsInv'
  BY <1>1, <1>2, <1>5, <1>7 DEF FieldsInv
<1> HIDE DEF n
<1>9. CutInv'
  <2> SUFFICES ASSUME scale >= 0 PROVE CutInv'
    BY <1>2 DEF CutInv
  <2>1. /\ -4 < SentFrom /\ SentFrom <= 0 /\ UncutFrom >= 0 /\ rest = Shorn[UncutFrom]
        /\ \A i \in 1 .. n, d \in Place :
             GroupDigit(groups[i], d) = DecimalDigit(4 * (weight - (n - i)) + d)
    BY <1>1 DEF CutInv, n
  <2>2. UncutFrom \in Nat /\ UncutFrom = 4 * (weight + 1) + scale
    BY <1>1, <2>1 DEF UncutFrom
  <2>3. UncutFrom' = UncutFrom + 4
    BY <1>1, <1>2 DEF UncutFrom
  <2>4. SentFrom' = SentFrom
    <3>1. SentFrom = 4 * (weight + 1 - n) + scale /\ SentFrom' = 4 * (weight' + 1 - (n + 1)) + scale
      BY <1>2, <1>7 DEF SentFrom, n
    <3>2. QED
      BY <1>1, <1>7, <3>1
  <2>5. /\ Shorn[UncutFrom + 4] = Shorn[UncutFrom] \div 10000
        /\ \A d \in Place : GroupDigit(Shorn[UncutFrom] % 10000, d) = Shorn[UncutFrom + d] % 10
    <3>1. PICK k \in Nat : k = UncutFrom
      BY <2>2
    <3>2. unscaled \in Nat
      BY <1>1
    <3>3. Shorn[k + 4] = Shorn[k] \div 10000
      BY <3>2, ShornFour
    <3>4. ASSUME NEW d \in Place
          PROVE  GroupDigit(Shorn[k] % 10000, d) = Shorn[k + d] % 10
      BY <3>2, ShornFour
    <3>5. QED
      BY <3>1, <3>3, <3>4
  <2>6. rest' = Shorn'[UncutFrom']
    BY <1>1, <1>3, <2>1, <2>3, <2>5
  <2>7. ASSUME NEW i \in 1 .. Len(groups'), NEW d \in Place
        PROVE  GroupDigit(groups'[i], d) = DecimalDigit(4 * (weight - (Len(groups) - i)) + d)'
    <3>1. d \in Nat
      BY DEF Place
    <3>2. CASE i = n + 1
      <4>1. GroupDigit(groups'[i], d) = Shorn[UncutFrom + d] % 10
        BY <1>4, <1>7, <2>1, <2>5, <3>2
      <4>2. 4 * (weight' - (Len(groups') - i)) + d = 4 * (weight + 1) + d
        BY <1>1, <1>7, <3>1, <3>2
      <4>3. DecimalDigit(4 * (weight + 1) + d) = Shorn[UncutFrom + d] % 10
        <5>1. 4 * (weight + 1) + d + scale = UncutFrom + d /\ UncutFrom + d >= 0
          BY <1>1, <2>2, <3>1
        <5>2. QED
          BY <5>1 DEF DecimalDigit
      <4>4. QED
        BY <1>3, <4>1, <4>2, <4>3
    <3>3. CASE i # n + 1
      <4>1. i \in 1 .. n /\ groups'[i] = groups[i]
        BY <1>7, <3>3
      <4>2. 4 * (weight' - (Len(groups') - i)) + d = 4 * (weight - (n - i)) + d
        BY <1>1, <1>7, <3>1, <4>1
      <4>3. QED
        BY <1>3, <2>1, <4>1, <4>2
    <3>4. QED
      BY <3>2, <3>3
  <2>8. ~(rest' = 0 /\ groups'[Len(groups')] = 0)
    BY <1>1, <1>5, <1>7
  <2>9. -4 < SentFrom' /\ SentFrom' <= 0 /\ UncutFrom' >= 0
    BY <2>1, <2>2, <2>3, <2>4
  <2>10. QED
    BY <2>6, <2>7, <2>8, <2>9 DEF CutInv
<1>10. QED
  BY <1>1, <1>2, <1>8, <1>9
     DEF CodecInv, FirstInv, EncoderInv, SentInv, StoredInv, ReadInv, DecodedIsExact

(* Beyond the groups sent the decimal has no digits: above them the integer *)
(* has none left, below them it has ended.                                 *)
LEMMA SendInv ==
  ASSUME CodecInv, Send
  PROVE  CodecInv'
<1>1. /\ phase = "cut" /\ phase' = "sent" /\ UNCHANGED decimal /\ UNCHANGED decoder
      /\ rest = 0 /\ rest' = 0 /\ groups' = Reverse(groups) /\ weight' = weight
      /\ unscaled \in Nat /\ scale \in Int /\ weight \in Int
      /\ groups \in Seq(Group) /\ FieldsInv /\ EncoderInv /\ CutInv
      /\ at = 0 /\ buf = <<>> /\ remainder = 0
  BY DEF Send, CodecInv, FieldsInv, EncoderInv
<1>2. /\ unscaled' = unscaled /\ scale' = scale /\ neg' = neg
      /\ at' = 0 /\ buf' = <<>> /\ remainder' = 0 /\ text' = text
  BY <1>1 DEF decimal, decoder
<1>3. Shorn' = Shorn /\ \A k : DecimalDigit(k)' = DecimalDigit(k)
  BY <1>1, SameDecimal
<1> DEFINE n == Len(groups)
<1>4. /\ n \in Nat /\ groups' \in Seq(Group) /\ Len(groups') = n
      /\ \A i \in 1 .. n : groups'[i] = groups[n - i + 1]
  BY <1>1 DEF Reverse
<1>5. FieldsInv'
  BY <1>1, <1>2, <1>4 DEF FieldsInv
<1> HIDE DEF n
<1>6. SentInv'
  <2> SUFFICES ASSUME scale >= 0 PROVE SentInv'
    BY <1>2 DEF SentInv
  <2>1. /\ -4 < SentFrom /\ SentFrom <= 0 /\ UncutFrom >= 0 /\ Shorn[UncutFrom] = 0
        /\ \A i \in 1 .. n, d \in Place :
             GroupDigit(groups[i], d) = DecimalDigit(4 * (weight - (n - i)) + d)
    BY <1>1 DEF CutInv, n
  <2>2. groups # <<>> /\ groups[n] = 0 => unscaled = 0
    BY <1>1 DEF CutInv, n
  <2>3. UncutFrom \in Nat /\ UncutFrom = 4 * (weight + 1) + scale
    BY <1>1, <2>1 DEF UncutFrom
  <2>4. UncutFrom' = UncutFrom /\ SentFrom' = SentFrom
    BY <1>1, <1>2, <1>4 DEF UncutFrom, SentFrom, n
  <2>5. SentFrom = 4 * (weight + 1 - n) + scale
    BY DEF SentFrom, n
  <2>6. groups' # <<>> /\ groups'[1] = 0 => unscaled' = 0
    <3>1. groups' # <<>> => n >= 1 /\ groups # <<>>
      BY <1>1, <1>4 DEF n
    <3>2. groups' # <<>> => groups'[1] = groups[n]
      BY <1>4, <3>1
    <3>3. QED
      BY <1>2, <2>2, <3>1, <3>2
  <2>7. ASSUME NEW k \in Int PROVE NumericDigit(k)' = DecimalDigit(k)
    <3>1. PICK q \in Int : q = k \div 4
      BY SplitPlace
    <3>2. PICK d \in Place : d = k % 4
      BY SplitPlace
    <3>3. k = 4 * q + d /\ d \in Nat /\ d < 4
      BY <3>1, <3>2, SplitPlace DEF Place
    <3> DEFINE i == weight - q + 1
    <3>4. NumericDigit(k)' = IF i \in 1 .. n THEN GroupDigit(groups'[i], d) ELSE 0
      BY <1>1, <1>4, <3>1, <3>2 DEF NumericDigit
    <3>5. CASE i \in 1 .. n
      <4> DEFINE j == n - i + 1
      <4>1. j \in 1 .. n /\ groups'[i] = groups[j] /\ 4 * (weight - (n - j)) + d = k
        BY <1>1, <1>4, <3>3, <3>5
      <4>2. QED
        BY <2>1, <3>4, <3>5, <4>1
    <3>6. CASE i < 1
      <4>1. k + scale >= UncutFrom /\ k + scale \in Nat
        BY <1>1, <2>3, <3>3, <3>6
      <4>2. Shorn[k + scale] = 0
        BY <1>1, <2>1, <2>3, <4>1, ShornZero
      <4>3. DecimalDigit(k) = 0
        BY <4>1, <4>2 DEF DecimalDigit
      <4>4. QED
        BY <3>4, <3>6, <4>3
    <3>7. CASE i > n
      <4>1. k + scale < 0
        BY <1>1, <1>4, <2>1, <2>5, <3>3, <3>7
      <4>2. DecimalDigit(k) = 0
        BY <1>1, <4>1 DEF DecimalDigit
      <4>3. QED
        BY <1>4, <3>4, <3>7, <4>2
    <3>8. QED
      BY <1>1, <1>4, <3>5, <3>6, <3>7
  <2>8. Exact'
    BY <1>3, <2>7 DEF Exact
  <2>9. QED
    BY <1>3, <2>1, <2>4, <2>6, <2>8 DEF SentInv
<1>7. QED
  BY <1>1, <1>2, <1>5, <1>6
     DEF CodecInv, FirstInv, EncoderInv, CutInv, StoredInv, ReadInv, DecodedIsExact

LEMMA ServerRefusesInv ==
  ASSUME CodecInv, ServerRefuses
  PROVE  CodecInv'
<1>1. /\ phase' = "refused" /\ UNCHANGED <<decimal, rest, groups, weight, decoder>>
      /\ FieldsInv
  BY DEF ServerRefuses, CodecInv
<1>2. FieldsInv'
  BY <1>1 DEF FieldsInv, decimal, decoder
<1>3. QED
  BY <1>1, <1>2
     DEF CodecInv, FirstInv, EncoderInv, CutInv, SentInv, StoredInv, ReadInv, DecodedIsExact

(* A numeric's digits, group by group.                                     *)
LEMMA DigitOfGroup ==
  ASSUME groups \in Seq(Group), weight \in Int, NEW i \in 1 .. Len(groups), NEW d \in Place
  PROVE  NumericDigit(4 * (weight - i + 1) + d) = GroupDigit(groups[i], d)
<1>1. PICK k \in Int : k = 4 * (weight - i + 1) + d
  BY DEF Place
<1>2. k = 4 * (k \div 4) + (k % 4) /\ k \div 4 \in Int /\ k % 4 \in Place
  BY SplitPlace
<1>3. k \div 4 = weight - i + 1 /\ k % 4 = d
  BY <1>1, <1>2 DEF Place
<1>4. weight - k \div 4 + 1 = i /\ i \in DOMAIN groups
  BY <1>3
<1>5. NumericDigit(k) = GroupDigit(groups[i], d)
  BY <1>3, <1>4 DEF NumericDigit
<1>6. QED
  BY <1>1, <1>5

(* Beyond its groups a numeric has no digits.                              *)
LEMMA DigitBeyond ==
  groups \in Seq(Group) /\ weight \in Int =>
    \A k \in Int : k >= 4 * (weight + 1) \/ k < 4 * (weight - Len(groups) + 1)
                     => NumericDigit(k) = 0
<1> SUFFICES ASSUME groups \in Seq(Group), weight \in Int, NEW k \in Int,
                    k >= 4 * (weight + 1) \/ k < 4 * (weight - Len(groups) + 1)
             PROVE  NumericDigit(k) = 0
  OBVIOUS
<1>1. PICK q \in Int, d \in Place : q = k \div 4 /\ k = 4 * q + d /\ 0 <= d /\ d < 4
  BY SplitPlace DEF Place
<1>2. Len(groups) \in Nat /\ DOMAIN groups = 1 .. Len(groups) /\ d \in Int
  BY DEF Place
<1>3. weight - q + 1 \notin 1 .. Len(groups)
  BY <1>1, <1>2
<1>4. QED
  BY <1>1, <1>2, <1>3 DEF NumericDigit

(* Zero has no digits.                                                     *)
LEMMA ZeroDecimal ==
  ASSUME unscaled = 0, scale \in Int, NEW k \in Int
  PROVE  DecimalDigit(k) = 0
<1>1. Shorn[0] = 0
  BY ShornIs
<1>2. ASSUME k + scale >= 0 PROVE Shorn[k + scale] = 0
  <2>1. k + scale \in Nat /\ 0 \in Nat /\ 0 <= k + scale /\ unscaled \in Nat
    BY <1>2
  <2>2. QED
    BY <1>1, <2>1, ShornZero
<1>3. QED
  BY <1>2 DEF DecimalDigit

(* What the server drops is zero.  If the point is left of the normal form, *)
(* its first group is the first one sent, at a weight of -2 or less: the   *)
(* integer has ended at least four digits below the point.                 *)
LEMMA ServerStoresInv ==
  ASSUME CodecInv, ServerStores
  PROVE  CodecInv'
<1> DEFINE n == Len(groups)
           used == { i \in DOMAIN groups : groups[i] # 0 }
           first == CHOOSE i \in used : \A j \in used : i <= j
           last == CHOOSE i \in used : \A j \in used : j <= i
<1>1. /\ phase = "sent" /\ phase' = "read" /\ UNCHANGED decimal /\ UNCHANGED decoder
      /\ rest' = rest /\ scale >= 0
      /\ unscaled \in Nat /\ scale \in Int /\ weight \in Int
      /\ groups \in Seq(Group) /\ FieldsInv /\ EncoderInv /\ SentInv
      /\ at = 0 /\ buf = <<>> /\ remainder = 0
  BY DEF ServerStores, CodecInv, FieldsInv, EncoderInv
<1>2. /\ unscaled' = unscaled /\ scale' = scale /\ neg' = neg
      /\ at' = 0 /\ buf' = <<>> /\ remainder' = 0 /\ text' = text
  BY <1>1 DEF decimal, decoder
<1>3. Shorn' = Shorn /\ \A k : DecimalDigit(k)' = DecimalDigit(k)
  BY <1>1, SameDecimal
<1>4. IF used = {}
      THEN groups' = <<>> /\ weight' = 0
      ELSE groups' = SubSeq(groups, first, last) /\ weight' = weight - (first - 1)
  BY Zenon DEF ServerStores
<1>5. n \in Nat /\ DOMAIN groups = 1 .. n /\ \A i \in 1 .. n : groups[i] \in Group
  BY <1>1
<1>6. /\ -4 < SentFrom /\ SentFrom <= 0 /\ UncutFrom >= 0 /\ Shorn[UncutFrom] = 0
      /\ groups # <<>> /\ groups[1] = 0 => unscaled = 0
      /\ \A k \in Int : NumericDigit(k) = DecimalDigit(k)
  BY <1>1 DEF SentInv, Exact
<1>7. \A i \in 1 .. n, d \in Place : i \notin used => GroupDigit(groups[i], d) = 0
  BY <1>5, ZeroGroup
<1>8. ASSUME NEW k \in Int, weight - k \div 4 + 1 \notin used
      PROVE  DecimalDigit(k) = 0
  <2>1. k % 4 \in Place
    BY SplitPlace
  <2>2. NumericDigit(k) = 0
    BY <1>5, <1>7, <1>8, <2>1 DEF NumericDigit
  <2>3. QED
    BY <1>6, <2>2
<1> HIDE DEF n, used, first, last
<1>9. CASE used = {}
  <2>1. groups' = <<>> /\ weight' = 0
    BY <1>4, <1>9
  <2>2. groups' \in Seq(Group) /\ Len(groups') = 0 /\ DOMAIN groups' = {}
    BY <2>1
  <2>3. FieldsInv'
    BY <1>1, <1>2, <2>1, <2>2 DEF FieldsInv
  <2>4. Exact'
    <3>1. \A k \in Int : DecimalDigit(k) = 0
      BY <1>8, <1>9
    <3>2. \A k \in Int : NumericDigit(k)' = 0
      BY <2>2 DEF NumericDigit
    <3>3. QED
      BY <1>3, <3>1, <3>2 DEF Exact
  <2>5. Dot' = 5
    BY <2>1 DEF Dot
  <2>6. ReadInv'
    <3>1. NumericDigit(Dot - (Len(buf) + 1))' = 0
      BY <2>2 DEF NumericDigit
    <3>2. QED
      BY <1>2, <3>1 DEF ReadInv
  <2>7. StoredInv'
    BY <1>1, <1>2, <2>4, <2>5 DEF StoredInv
  <2>8. QED
    BY <1>1, <2>3, <2>6, <2>7
       DEF CodecInv, FirstInv, EncoderInv, CutInv, SentInv, DecodedIsExact
<1>10. CASE used # {}
  <2>1. used \subseteq 1 .. n /\ used \in SUBSET Nat
    BY <1>5 DEF used
  <2>2. first \in used /\ \A j \in used : first <= j
    <3>1. \E i \in used : \A j \in used : i <= j
      BY <1>10, <2>1, LeastNumber
    <3>2. QED
      BY <3>1, Zenon DEF first
  <2>3. last \in used /\ \A j \in used : j <= last
    <3> DEFINE T == { n - i : i \in used }
    <3>1. T \in SUBSET Nat /\ T # {}
      <4>1. \A i \in used : n - i \in Nat
        BY <1>5, <2>1
      <4>2. QED
        BY <1>10, <4>1
    <3>2. PICK m \in T : \A t \in T : m <= t
      BY <3>1, LeastNumber
    <3>3. PICK i \in used : m = n - i
      BY <3>2
    <3>4. \A j \in used : j <= i
      <4>1. ASSUME NEW j \in used PROVE j <= i
        <5>1. m <= n - j
          BY <3>2
        <5>2. QED
          BY <1>5, <2>1, <3>3, <5>1
      <4>2. QED
        BY <4>1
    <3>5. QED
      BY <3>4, Zenon DEF last
  <2>4. first \in 1 .. n /\ last \in 1 .. n /\ first <= last
    BY <2>1, <2>2, <2>3
  <2>5. groups' = SubSeq(groups, first, last) /\ weight' = weight - (first - 1)
    BY <1>4, <1>10
  <2>6. /\ groups' \in Seq(Group) /\ Len(groups') = last - first + 1 /\ weight' \in Int
        /\ DOMAIN groups' = 1 .. last - first + 1
        /\ \A i \in 1 .. last - first + 1 : groups'[i] = groups[i + first - 1]
    <3>1. PICK f \in 1 .. n, l \in 1 .. n : f = first /\ l = last /\ f <= l
      BY <2>4
    <3>2. groups' = SubSeq(groups, f, l) /\ weight' = weight - (f - 1)
      BY <2>5, <3>1
    <3>3. groups' \in Seq(Group) /\ Len(groups') = l - f + 1
      BY <1>1, <1>5, <3>1, <3>2 DEF n
    <3>4. \A i \in 1 .. l - f + 1 : groups'[i] = groups[i + f - 1]
      BY <1>1, <1>5, <3>1, <3>2 DEF n
    <3>5. weight' \in Int
      BY <1>1, <1>5, <3>1, <3>2
    <3>6. QED
      BY <3>1, <3>3, <3>4, <3>5
  <2>7. FieldsInv'
    BY <1>1, <1>2, <2>6 DEF FieldsInv
  <2>8. ASSUME NEW k \in Int PROVE NumericDigit(k)' = DecimalDigit(k)
    <3>1. PICK q \in Int : q = k \div 4
      BY SplitPlace
    <3>2. PICK i \in Int : i = weight - q + 1
      BY <1>1, <3>1
    <3>3. weight' - q + 1 = i - first + 1
      BY <1>1, <2>4, <2>5, <3>2
    <3>4. NumericDigit(k)' = IF i - first + 1 \in DOMAIN groups'
                             THEN GroupDigit(groups'[i - first + 1], k % 4) ELSE 0
      BY <3>1, <3>3 DEF NumericDigit
    <3>5. CASE i \in first .. last
      <4>1. i - first + 1 \in DOMAIN groups' /\ groups'[i - first + 1] = groups[i]
        <5>1. i - first + 1 \in 1 .. last - first + 1 /\ (i - first + 1) + first - 1 = i
          BY <2>4, <3>5
        <5>2. QED
          BY <2>6, <5>1
      <4>2. NumericDigit(k) = GroupDigit(groups[i], k % 4)
        <5>1. i \in DOMAIN groups
          BY <1>5, <2>4, <3>5
        <5>2. QED
          BY <3>1, <3>2, <5>1 DEF NumericDigit
      <4>3. QED
        BY <1>6, <3>4, <4>1, <4>2
    <3>6. CASE i \notin first .. last
      <4>1. i - first + 1 \notin DOMAIN groups'
        BY <2>4, <2>6, <3>6
      <4>2. i \notin used
        BY <2>1, <2>2, <2>3, <3>6
      <4>3. QED
        BY <1>8, <3>1, <3>2, <3>4, <4>1, <4>2
    <3>7. QED
      BY <3>5, <3>6
  <2>9. Exact'
    BY <1>3, <2>8 DEF Exact
  <2>10. unscaled # 0
    <3> SUFFICES ASSUME unscaled = 0 PROVE FALSE
      OBVIOUS
    <3>1. ASSUME NEW d \in Place PROVE GroupDigit(groups[first], d) = 0
      <4>1. PICK k \in Int : k = 4 * (weight - first + 1) + d
        BY <1>1, <2>4 DEF Place
      <4>2. NumericDigit(k) = GroupDigit(groups[first], d)
        BY <1>1, <2>4, <4>1, DigitOfGroup DEF n
      <4>3. QED
        BY <1>1, <1>6, <4>2, ZeroDecimal
    <3>2. groups[first] = 0
      BY <1>5, <2>4, <3>1, NoDigits
    <3>3. QED
      BY <2>2, <3>2 DEF used
  <2>11. Dot' < 1 => Tiny'
    <3> SUFFICES ASSUME Dot' < 1 PROVE Tiny'
      OBVIOUS
    <3>1. first = 1
      <4>1. groups # <<>> /\ groups[1] # 0 /\ 1 \in 1 .. n
        BY <1>5, <1>6, <2>4, <2>10 DEF n
      <4>2. 1 \in used
        BY <1>5, <4>1 DEF used
      <4>3. QED
        BY <2>2, <2>4, <4>2
    <3>2. weight <= -2
      BY <1>1, <2>5, <3>1 DEF Dot
    <3>3. UncutFrom = 4 * (weight + 1) + scale /\ SentFrom = 4 * (weight + 1 - n) + scale
      BY DEF UncutFrom, SentFrom, n
    <3>4. UncutFrom \in Nat /\ scale - 4 \in Nat /\ UncutFrom <= scale - 4 /\ scale > 4
      BY <1>1, <1>5, <1>6, <2>4, <3>2, <3>3
    <3>5. Shorn[scale - 4] = 0
      BY <1>1, <1>6, <3>4, ShornZero
    <3>6. QED
      BY <1>2, <1>3, <2>10, <3>4, <3>5 DEF Tiny
  <2>12. ReadInv'
    <3>0. PICK w \in Int : w = weight'
      BY <2>6
    <3> DEFINE k == 4 * w + 4
    <3>1. k \in Int /\ k = Dot' - (0 + 1)
      BY <3>0 DEF Dot
    <3>2. k \div 4 = w + 1 /\ w - (w + 1) + 1 = 0
      OBVIOUS
    <3> HIDE DEF k
    <3>3. weight' - k \div 4 + 1 = 0
      BY <3>0, <3>2
    <3>4. 0 \notin DOMAIN groups'
      BY <2>4, <2>6
    <3>5. NumericDigit(k)' = 0
      BY <3>3, <3>4 DEF NumericDigit
    <3>6. Len(buf') = 0
      BY <1>2
    <3>7. NumericDigit(Dot - (Len(buf) + 1))' = 0
      BY <3>1, <3>5, <3>6 DEF NumericDigit
    <3>8. QED
      BY <1>2, <3>6, <3>7 DEF ReadInv
  <2>13. StoredInv'
    BY <1>1, <1>2, <2>9, <2>11 DEF StoredInv
  <2>14. QED
    BY <1>1, <2>7, <2>12, <2>13
       DEF CodecInv, FirstInv, EncoderInv, CutInv, SentInv, DecodedIsExact
<1>11. QED
  BY <1>9, <1>10

(* {:0>4} writes the four digits of a group.                               *)
LEMMA FourDigits ==
  ASSUME NEW n \in Nat
  PROVE  /\ Digits(n, 4) \in Seq(Digit) /\ Len(Digits(n, 4)) = 4
         /\ Digits(n, 4)[1] = GroupDigit(n, 3) /\ Digits(n, 4)[2] = GroupDigit(n, 2)
         /\ Digits(n, 4)[3] = GroupDigit(n, 1) /\ Digits(n, 4)[4] = GroupDigit(n, 0)
<1> DEFINE ds == [i \in 1 .. 4 |-> GroupDigit(n, 4 - i)]
<1>1. Digits(n, 4) = ds
  BY DEF Digits, GroupDigit
<1>2. \A i \in 1 .. 4 : 4 - i \in Place
  BY DEF Place
<1>3. \A i \in 1 .. 4 : ds[i] \in Digit
  BY <1>2, GroupDigitType
<1>4. ds[1] = GroupDigit(n, 4 - 1) /\ ds[2] = GroupDigit(n, 4 - 2)
      /\ ds[3] = GroupDigit(n, 4 - 3) /\ ds[4] = GroupDigit(n, 4 - 4)
  OBVIOUS
<1>5. 4 - 1 = 3 /\ 4 - 2 = 2 /\ 4 - 3 = 1 /\ 4 - 4 = 0
  OBVIOUS
<1>6. DOMAIN ds = 1 .. 4 /\ ds = [i \in 1 .. 4 |-> ds[i]]
  OBVIOUS
<1> HIDE DEF ds
<1>7. ds \in Seq(Digit) /\ Len(ds) = 4
  BY <1>3, <1>6
<1>8. QED
  BY <1>1, <1>4, <1>5, <1>7

(* The digit carried into a group and the first three of its own are the   *)
(* next four to write, its last one is carried on.                         *)
(* The digits of m are the digit r and the first three of g.               *)
CarriedInto(m, r, g) ==
  /\ GroupDigit(m, 3) = r /\ GroupDigit(m, 2) = GroupDigit(g, 3)
  /\ GroupDigit(m, 1) = GroupDigit(g, 2) /\ GroupDigit(m, 0) = GroupDigit(g, 1)

LEMMA CarriedDigits ==
  \A g, r, n, m \in Nat :
    g <= 9999 /\ r <= 9 /\ n = g + r * 10000 /\ m = n \div 10 =>
      n % 10 = GroupDigit(g, 0) /\ CarriedInto(m, r, g)
<1> SUFFICES ASSUME NEW g \in Nat, NEW r \in Nat, NEW n \in Nat, NEW m \in Nat
             PROVE  g <= 9999 /\ r <= 9 /\ n = g + r * 10000 /\ m = n \div 10 =>
                      n % 10 = GroupDigit(g, 0) /\ CarriedInto(m, r, g)
  BY SMTT(30)
<1>1. g <= 9999 /\ r <= 9 /\ n = g + r * 10000 /\ m = n \div 10 => (m \div 1000) % 10 = r
  OBVIOUS
<1>2. g <= 9999 /\ r <= 9 /\ n = g + r * 10000 /\ m = n \div 10
      => (m \div 100) % 10 = (g \div 1000) % 10
  OBVIOUS
<1>3. g <= 9999 /\ r <= 9 /\ n = g + r * 10000 /\ m = n \div 10
      => (m \div 10) % 10 = (g \div 100) % 10
  OBVIOUS
<1>4. g <= 9999 /\ r <= 9 /\ n = g + r * 10000 /\ m = n \div 10 => m % 10 = (g \div 10) % 10
  OBVIOUS
<1>5. g <= 9999 /\ r <= 9 /\ n = g + r * 10000 /\ m = n \div 10 => n % 10 = g % 10
  OBVIOUS
<1>6. GroupDigit(g, 0) = g % 10
  BY OnesDigit
<1>7. GroupDigit(g, 1) = (g \div 10) % 10
  BY TensDigit
<1>8. GroupDigit(g, 2) = (g \div 100) % 10
  BY HundredsDigit
<1>9. GroupDigit(g, 3) = (g \div 1000) % 10
  BY ThousandsDigit
<1>10. GroupDigit(m, 0) = m % 10
  BY OnesDigit
<1>11. GroupDigit(m, 1) = (m \div 10) % 10
  BY TensDigit
<1>12. GroupDigit(m, 2) = (m \div 100) % 10
  BY HundredsDigit
<1>13. GroupDigit(m, 3) = (m \div 1000) % 10
  BY ThousandsDigit
<1>14. QED
  BY <1>1, <1>2, <1>3, <1>4, <1>5, <1>6, <1>7, <1>8, <1>9,
     <1>10, <1>11, <1>12, <1>13 DEF CarriedInto

(* The four digits written are the next four to the right.                 *)
LEMMA ReadGroupInv ==
  ASSUME CodecInv, ReadGroup
  PROVE  CodecInv'
<1> DEFINE b == Len(buf)
<1>1. /\ phase = "read" /\ phase' = "read" /\ at < Len(groups) /\ at' = at + 1
      /\ UNCHANGED decimal /\ UNCHANGED <<groups, weight>> /\ rest' = rest /\ text' = text
      /\ FieldsInv /\ StoredInv /\ ReadInv
  BY DEF ReadGroup, CodecInv
<1>2. /\ unscaled' = unscaled /\ scale' = scale /\ neg' = neg
      /\ weight \in Int /\ at \in Nat /\ at + 1 \in 1 .. Len(groups)
      /\ groups \in Seq(Group) /\ buf \in Seq(Digit) /\ remainder \in Digit
  BY <1>1 DEF FieldsInv, decimal
<1>3. Shorn' = Shorn /\ \A k : DecimalDigit(k)' = DecimalDigit(k)
  BY <1>1, SameDecimal
<1>4. Dot' = Dot /\ \A k : NumericDigit(k)' = NumericDigit(k)
  BY <1>1, SameNumeric
<1>5. PICK g \in Nat, r \in Nat : g = groups[at + 1] /\ g <= 9999 /\ r = remainder /\ r <= 9
  <2>1. groups[at + 1] \in Group
    BY <1>2
  <2>2. groups[at + 1] \in Nat /\ groups[at + 1] <= 9999
    <3>1. \A h \in Group : h \in Nat /\ h <= 9999
      BY DEF Group
    <3>2. QED
      BY <2>1, <3>1
  <2>3. remainder \in Nat /\ remainder <= 9
    BY <1>2 DEF Digit
  <2>4. QED
    BY <2>2, <2>3
<1>6. PICK n \in Nat, m \in Nat : n = g + r * 10000 /\ m = n \div 10
  <2>1. g + r * 10000 \in Nat /\ (g + r * 10000) \div 10 \in Nat
    OBVIOUS
  <2>2. QED
    BY <2>1
<1> DEFINE ds == Digits(m, 4)
<1>7. buf' = buf \o ds /\ remainder' = n % 10
  BY <1>5, <1>6 DEF ReadGroup
<1>8. /\ ds \in Seq(Digit) /\ Len(ds) = 4 /\ ds[1] = r
      /\ ds[2] = GroupDigit(g, 3) /\ ds[3] = GroupDigit(g, 2) /\ ds[4] = GroupDigit(g, 1)
      /\ n % 10 = GroupDigit(g, 0)
  <2>1. /\ ds \in Seq(Digit) /\ Len(ds) = 4
        /\ ds[1] = GroupDigit(m, 3) /\ ds[2] = GroupDigit(m, 2)
        /\ ds[3] = GroupDigit(m, 1) /\ ds[4] = GroupDigit(m, 0)
    BY FourDigits
  <2>2. n % 10 = GroupDigit(g, 0) /\ CarriedInto(m, r, g)
    <3>1. g <= 9999 /\ r <= 9 /\ n = g + r * 10000 /\ m = n \div 10
      BY <1>5, <1>6
    <3>2. QED
      BY <3>1, CarriedDigits
  <2> HIDE DEF ds
  <2>3. QED
    BY <2>1, <2>2 DEF CarriedInto
<1> HIDE DEF ds
<1>9. /\ buf' \in Seq(Digit) /\ Len(buf') = b + 4 /\ b \in Nat
      /\ \A x \in 1 .. b : buf'[x] = buf[x]
      /\ buf'[b + 1] = ds[1] /\ buf'[b + 2] = ds[2]
      /\ buf'[b + 3] = ds[3] /\ buf'[b + 4] = ds[4]
  <2>1. /\ b \in Nat /\ buf' \in Seq(Digit) /\ Len(buf') = b + 4
        /\ \A x \in 1 .. b + 4 : buf'[x] = IF x <= b THEN buf[x] ELSE ds[x - b]
    <3>1. buf \in Seq(Digit) /\ ds \in Seq(Digit) /\ Len(ds) = 4
      BY <1>2, <1>8
    <3>2. b \in Nat
      BY <3>1
    <3>3. /\ buf \o ds \in Seq(Digit) /\ Len(buf \o ds) = b + 4
          /\ \A x \in 1 .. b + 4 : (buf \o ds)[x] = IF x <= b THEN buf[x] ELSE ds[x - b]
      <4>1. /\ buf \o ds \in Seq(Digit) /\ Len(buf \o ds) = Len(buf) + Len(ds)
            /\ \A x \in 1 .. Len(buf) + Len(ds) :
                 (buf \o ds)[x] = IF x <= Len(buf) THEN buf[x] ELSE ds[x - Len(buf)]
        BY <3>1, ConcatProperties, Zenon
      <4>2. QED
        BY <3>1, <4>1
    <3>4. QED
      BY <1>7, <3>2, <3>3
  <2> HIDE DEF b
  <2>2. ASSUME NEW i \in 1 .. 4 PROVE buf'[b + i] = ds[i]
    <3>1. b + i \in 1 .. b + 4 /\ ~(b + i <= b) /\ (b + i) - b = i
      BY <2>1
    <3>2. QED
      BY <2>1, <3>1
  <2>3. \A x \in 1 .. b : buf'[x] = buf[x]
    BY <2>1
  <2>4. QED
    BY <2>1, <2>2, <2>3
<1>10. /\ b = 4 * at /\ r = NumericDigit(Dot - (b + 1))
       /\ \A x \in 1 .. b : buf[x] = NumericDigit(Dot - x)
  BY <1>1, <1>5 DEF ReadInv
<1> HIDE DEF b
<1>11. ASSUME NEW d \in Place PROVE GroupDigit(g, d) = NumericDigit(Dot - (b + 5 - d))
  <2>1. NumericDigit(4 * (weight - (at + 1) + 1) + d) = GroupDigit(g, d)
    BY <1>2, <1>5, DigitOfGroup
  <2>2. 4 * (weight - (at + 1) + 1) + d = Dot - (b + 5 - d)
    BY <1>2, <1>10 DEF Dot, Place
  <2>3. QED
    BY <2>1, <2>2, Zenon
<1>12. /\ GroupDigit(g, 0) = NumericDigit(Dot - (b + 5))
       /\ GroupDigit(g, 1) = NumericDigit(Dot - (b + 4))
       /\ GroupDigit(g, 2) = NumericDigit(Dot - (b + 3))
       /\ GroupDigit(g, 3) = NumericDigit(Dot - (b + 2))
  <2>1. 0 \in Place /\ 1 \in Place /\ 2 \in Place /\ 3 \in Place
    BY DEF Place
  <2>2. b + 5 - 0 = b + 5 /\ b + 5 - 1 = b + 4 /\ b + 5 - 2 = b + 3 /\ b + 5 - 3 = b + 2
    BY <1>9
  <2>3. QED
    BY <1>11, <2>1, <2>2
<1>13. ASSUME NEW x \in 1 .. Len(buf') PROVE buf'[x] = NumericDigit(Dot - x)
  <2>1. x \in 1 .. b \/ x = b + 1 \/ x = b + 2 \/ x = b + 3 \/ x = b + 4
    BY <1>9
  <2>2. QED
    BY <1>8, <1>9, <1>10, <1>12, <2>1
<1>14. remainder' = NumericDigit(Dot - (Len(buf') + 1))
  <2>1. Len(buf') + 1 = b + 5
    BY <1>9
  <2>2. QED
    BY <1>7, <1>8, <1>12, <2>1
<1>15. ReadInv'
  <2>1. Len(buf') = 4 * at'
    BY <1>1, <1>2, <1>9, <1>10
  <2>2. ASSUME NEW x \in 1 .. Len(buf') PROVE buf'[x] = NumericDigit(Dot - x)'
    BY <1>13, <1>4 DEF NumericDigit
  <2>3. QED
    BY <1>1, <1>4, <1>14, <2>1, <2>2 DEF ReadInv
<1>16. FieldsInv'
  <2>1. remainder' \in Digit
    BY <1>2, <1>5, <1>7, <1>8, GroupDigitType DEF Place
  <2>2. QED
    BY <1>1, <1>2, <1>9, <2>1 DEF FieldsInv
<1>17. StoredInv'
  BY <1>1, <1>2, <1>3, <1>4 DEF StoredInv, Exact, Tiny
<1>18. QED
  BY <1>1, <1>15, <1>16, <1>17
     DEF CodecInv, FirstInv, EncoderInv, CutInv, SentInv, DecodedIsExact

(* The point is left of the normal form of a tiny number.                  *)
LEMMA DotOutOfRangeInv ==
  ASSUME CodecInv, DotOutOfRange
  PROVE  CodecInv'
<1>1. /\ phase = "read" /\ phase' = "panicked" /\ Dot < 1
      /\ UNCHANGED <<decimal, rest, groups, weight, decoder>>
      /\ FieldsInv /\ StoredInv
  BY DEF DotOutOfRange, CodecInv
<1>2. FieldsInv' /\ unscaled' = unscaled /\ scale' = scale
  BY <1>1 DEF FieldsInv, decimal, decoder
<1>3. Shorn' = Shorn /\ \A k : DecimalDigit(k)' = DecimalDigit(k)
  BY <1>1, SameDecimal
<1>4. Dot' = Dot /\ \A k : NumericDigit(k)' = NumericDigit(k)
  BY <1>1, SameNumeric
<1>5. Tiny /\ Tiny' /\ StoredInv'
  BY <1>1, <1>2, <1>3, <1>4 DEF StoredInv, Exact, Tiny
<1>6. QED
  BY <1>1, <1>2, <1>5
     DEF CodecInv, FirstInv, EncoderInv, CutInv, SentInv, ReadInv, DecodedIsExact

(* The carried digit is the last one; where digits are missing up to the   *)
(* scale, the numeric has none; and before the buffer there are none.      *)
LEMMA ComposeInv ==
  ASSUME CodecInv, Compose
  PROVE  CodecInv'
<1> DEFINE all    == Append(buf, remainder)
           end    == Dot + scale
           padded == IF end > Len(all) THEN all \o Zeros(end - Len(all)) ELSE all
           intStart == CHOOSE i \in 1 .. Dot :
                         /\ i = Dot \/ padded[i] # 0
                         /\ \A j \in 1 .. i - 1 : padded[j] = 0
           n == Len(all)
<1>1. /\ phase = "read" /\ phase' = "done" /\ at = Len(groups) /\ Dot >= 1
      /\ UNCHANGED decimal /\ UNCHANGED <<groups, weight>> /\ rest' = rest
      /\ at' = at /\ remainder' = remainder
      /\ FieldsInv /\ StoredInv /\ ReadInv
  BY DEF Compose, CodecInv
<1>2. /\ buf' = padded
      /\ text' = [ int  |-> SubSeq(padded, intStart, Dot),
                   frac |-> SubSeq(padded, Dot + 1, end) ]
  BY Zenon DEF Compose
<1>3. /\ unscaled' = unscaled /\ scale' = scale /\ neg' = neg
      /\ weight \in Int /\ at \in Nat /\ scale \in Int
      /\ groups \in Seq(Group) /\ buf \in Seq(Digit) /\ remainder \in Digit
  BY <1>1 DEF FieldsInv, decimal
<1>4. Shorn' = Shorn /\ \A k : DecimalDigit(k)' = DecimalDigit(k)
  BY <1>1, SameDecimal
<1>5. Dot' = Dot /\ \A k : NumericDigit(k)' = NumericDigit(k)
  BY <1>1, SameNumeric
<1>6. /\ scale >= 0 /\ Dot \in Nat /\ Dot >= 1
      /\ \A k \in Int : NumericDigit(k) = DecimalDigit(k)
  BY <1>1, <1>3 DEF StoredInv, Exact, Dot
<1>7. end \in Nat /\ end = Dot + scale /\ Dot <= end
  BY <1>3, <1>6
<1>8. /\ all \in Seq(Digit) /\ n = 4 * Len(groups) + 1 /\ n \in Nat
      /\ \A x \in 1 .. n : all[x] = NumericDigit(Dot - x)
  <2>1. /\ Len(buf) = 4 * Len(groups) /\ remainder = NumericDigit(Dot - (Len(buf) + 1))
        /\ \A x \in 1 .. Len(buf) : buf[x] = NumericDigit(Dot - x)
    BY <1>1 DEF ReadInv
  <2>2. /\ all \in Seq(Digit) /\ n = Len(buf) + 1 /\ Len(buf) \in Nat
        /\ all[Len(buf) + 1] = remainder
        /\ \A x \in 1 .. Len(buf) : all[x] = buf[x]
    BY <1>3
  <2> HIDE DEF all
  <2>3. ASSUME NEW x \in 1 .. n PROVE all[x] = NumericDigit(Dot - x)
    <3>1. CASE x = Len(buf) + 1
      BY <2>1, <2>2, <3>1
    <3>2. CASE x # Len(buf) + 1
      <4>1. x \in 1 .. Len(buf)
        BY <2>2, <3>2
      <4>2. QED
        BY <2>1, <2>2, <4>1
    <3>3. QED
      BY <3>1, <3>2
  <2>4. QED
    BY <2>1, <2>2, <2>3
<1> HIDE DEF all, end
<1> DEFINE p == Len(padded)
<1>9. /\ padded \in Seq(Digit) /\ p \in Nat /\ p >= end
      /\ \A x \in 1 .. p : padded[x] = IF x <= n THEN all[x] ELSE 0
  <2>1. CASE end > n
    <3> DEFINE z == Zeros(end - n)
    <3>1. end - n \in Nat /\ 0 \in Digit
      BY <1>7, <1>8, <2>1 DEF Digit
    <3>2. z \in Seq(Digit) /\ Len(z) = end - n /\ \A i \in 1 .. end - n : z[i] = 0
      BY <3>1 DEF Zeros
    <3>3. padded = all \o z
      BY <2>1, Zenon
    <3> HIDE DEF z
    <3>4. /\ all \o z \in Seq(Digit) /\ Len(all \o z) = n + Len(z)
          /\ \A x \in 1 .. n + Len(z) : (all \o z)[x] = IF x <= n THEN all[x] ELSE z[x - n]
      BY <1>8, <3>2, ConcatProperties, Zenon
    <3> HIDE DEF n, padded
    <3>5. ASSUME NEW x \in 1 .. p PROVE padded[x] = IF x <= n THEN all[x] ELSE 0
      <4>1. x \in 1 .. n + Len(z) /\ (x <= n \/ x - n \in 1 .. end - n)
        <5>1. p = n + Len(z) /\ Len(z) = end - n
          BY <3>2, <3>3, <3>4
        <5>2. n \in Nat /\ end \in Nat /\ end - n \in Nat
          BY <1>7, <1>8, <3>1
        <5>3. QED
          BY <5>1, <5>2
      <4>2. QED
        BY <3>2, <3>3, <3>4, <4>1
    <3>6. padded \in Seq(Digit) /\ p \in Nat /\ p >= end
      BY <1>7, <1>8, <3>2, <3>3, <3>4, SMTT(30)
    <3>7. QED
      BY <3>5, <3>6
  <2>2. CASE ~(end > n)
    <3>1. padded = all
      BY <2>2, Zenon
    <3> HIDE DEF padded
    <3>2. QED
      BY <1>7, <1>8, <2>2, <3>1
  <2>3. QED
    BY <2>1, <2>2
<1> HIDE DEF padded, p, n

(* The digits written, the zeros padded on and those before the buffer.    *)
<1>10. ASSUME NEW x \in 1 .. p PROVE padded[x] = DecimalDigit(Dot - x)
  <2>1. CASE x <= n
    BY <1>6, <1>8, <1>9, <2>1
  <2>2. CASE ~(x <= n)
    <3>1. Dot - x \in Int /\ Dot - x < 4 * (weight - Len(groups) + 1)
      BY <1>3, <1>8, <1>9, <2>2 DEF Dot
    <3>2. NumericDigit(Dot - x) = 0
      BY <1>3, <3>1, DigitBeyond
    <3>3. QED
      BY <1>6, <1>9, <2>2, <3>1, <3>2
  <2>3. QED
    BY <2>1, <2>2
<1>11. ASSUME NEW k \in Int, k >= Dot PROVE DecimalDigit(k) = 0
  <2>1. k >= 4 * (weight + 1)
    BY <1>3, <1>11 DEF Dot
  <2>2. QED
    BY <1>3, <1>6, <2>1, DigitBeyond
<1>12. /\ intStart \in 1 .. Dot /\ (intStart = Dot \/ padded[intStart] # 0)
       /\ \A j \in 1 .. intStart - 1 : padded[j] = 0
  <2> DEFINE T == { i \in 1 .. Dot : i = Dot \/ padded[i] # 0 }
  <2>1. T \in SUBSET Nat /\ Dot \in T
    BY <1>6
  <2>2. PICK i \in T : \A j \in T : i <= j
    BY <2>1, LeastNumber
  <2>3. ASSUME NEW j \in 1 .. i - 1 PROVE padded[j] = 0
    <3>1. j \notin T /\ j \in 1 .. Dot
      BY <1>6, <2>1, <2>2
    <3>2. QED
      BY <3>1
  <2>4. \E s \in 1 .. Dot : /\ s = Dot \/ padded[s] # 0
                            /\ \A j \in 1 .. s - 1 : padded[j] = 0
    BY <2>2, <2>3
  <2>5. QED
    BY <2>4, Zenon
<1> HIDE DEF intStart
<1>13. PICK s \in 1 .. Dot : s = intStart
  BY <1>12
<1>14. /\ text'.frac = SubSeq(padded, Dot + 1, end) /\ text'.int = SubSeq(padded, s, Dot)
  BY <1>2, <1>13
<1>15. /\ Len(text'.frac) = scale /\ DOMAIN text'.frac = 1 .. scale
       /\ \A i \in 1 .. scale : text'.frac[i] = padded[Dot + i]
  <2>1. PICK d \in Nat, e \in Nat : d = Dot + 1 /\ e = end
    BY <1>6, <1>7
  <2>2. text'.frac = SubSeq(padded, d, e) /\ 1 <= d /\ e <= p /\ e - d + 1 = scale
    BY <1>3, <1>6, <1>7, <1>9, <1>14, <2>1
  <2>3. \A i \in d .. e : padded[i] \in Digit
    BY <1>9, <2>2 DEF p
  <2>4. /\ SubSeq(padded, d, e) \in Seq(Digit)
        /\ Len(SubSeq(padded, d, e)) = IF d <= e THEN e - d + 1 ELSE 0
        /\ \A i \in 1 .. e - d + 1 : SubSeq(padded, d, e)[i] = padded[d + i - 1]
    BY <2>3, SubSeqProperties
  <2>5. Len(text'.frac) = scale /\ DOMAIN text'.frac = 1 .. scale
    BY <1>3, <1>6, <2>2, <2>4
  <2>6. ASSUME NEW i \in 1 .. scale PROVE text'.frac[i] = padded[Dot + i]
    <3>1. i \in 1 .. e - d + 1 /\ d + i - 1 = Dot + i
      BY <1>3, <1>6, <2>1, <2>2
    <3>2. QED
      BY <2>2, <2>4, <3>1
  <2>7. QED
    BY <2>5, <2>6
<1>16. /\ Len(text'.int) = Dot - s + 1 /\ DOMAIN text'.int = 1 .. Dot - s + 1
       /\ \A i \in 1 .. Dot - s + 1 : text'.int[i] = padded[s + i - 1]
  <2>1. PICK d \in Nat : d = Dot
    BY <1>6
  <2>2. text'.int = SubSeq(padded, s, d) /\ s \in 1 .. d /\ d <= p
    BY <1>6, <1>7, <1>9, <1>14, <2>1
  <2>3. \A i \in s .. d : padded[i] \in Digit
    BY <1>9, <2>2 DEF p
  <2>4. /\ SubSeq(padded, s, d) \in Seq(Digit)
        /\ Len(SubSeq(padded, s, d)) = IF s <= d THEN d - s + 1 ELSE 0
        /\ \A i \in 1 .. d - s + 1 : SubSeq(padded, s, d)[i] = padded[s + i - 1]
    BY <2>2, <2>3, SubSeqProperties
  <2>5. QED
    BY <2>1, <2>2, <2>4
<1>17. ASSUME NEW i \in 1 .. scale PROVE text'.frac[i] = DecimalDigit(- i)
  <2>1. Dot + i \in 1 .. p /\ Dot - (Dot + i) = - i
    BY <1>3, <1>6, <1>7, <1>9
  <2>2. QED
    BY <1>10, <1>15, <2>1
<1>18. ASSUME NEW i \in 1 .. Dot - s + 1
       PROVE  text'.int[i] = DecimalDigit((Dot - s + 1) - i)
  <2>1. s + i - 1 \in 1 .. p /\ Dot - (s + i - 1) = (Dot - s + 1) - i
    BY <1>6, <1>7, <1>9
  <2>2. QED
    BY <1>10, <1>16, <2>1
<1>19. ASSUME NEW k \in Int, k >= Dot - s + 1 PROVE DecimalDigit(k) = 0
  <2>1. CASE k >= Dot
    BY <1>11, <2>1
  <2>2. CASE k < Dot
    <3>1. PICK x \in Int : x = Dot - k
      BY <1>6
    <3>2. x \in 1 .. s - 1 /\ x \in 1 .. p /\ Dot - x = k
      BY <1>6, <1>7, <1>9, <1>19, <2>2, <3>1
    <3>3. padded[x] = 0 /\ padded[x] = DecimalDigit(Dot - x)
      BY <1>10, <1>12, <1>13, <3>2
    <3>4. QED
      BY <3>2, <3>3
  <2>3. QED
    BY <1>6, <2>1, <2>2
<1>20. Dot - s + 1 > 1 => text'.int[1] # 0
  <2> SUFFICES ASSUME Dot - s + 1 > 1 PROVE text'.int[1] # 0
    OBVIOUS
  <2>1. s # Dot /\ 1 \in 1 .. Dot - s + 1 /\ s + 1 - 1 = s
    BY <1>6
  <2>2. text'.int[1] = padded[s]
    BY <1>16, <2>1
  <2>3. QED
    BY <1>12, <1>13, <2>1, <2>2
<1>21. DecodedIsExact'
  <2>1. Len(text'.frac) = scale'
    BY <1>3, <1>15
  <2>2. \A i \in DOMAIN text'.frac : text'.frac[i] = DecimalDigit(- i)'
    BY <1>4, <1>15, <1>17
  <2>3. \A i \in DOMAIN text'.int : text'.int[i] = DecimalDigit(Len(text.int) - i)'
    <3>1. ASSUME NEW i \in 1 .. Dot - s + 1
          PROVE  text'.int[i] = DecimalDigit(Len(text.int) - i)'
      <4>1. DecimalDigit(Len(text.int) - i)' = DecimalDigit(Len(text'.int) - i)
        BY <1>3, <1>4 DEF DecimalDigit
      <4>2. QED
        BY <1>16, <1>18, <4>1
    <3>2. QED
      BY <1>16, <3>1
  <2>4. \A k \in Len(text'.int) .. 12 : DecimalDigit(k)' = 0
    <3>1. ASSUME NEW k \in Len(text'.int) .. 12 PROVE DecimalDigit(k)' = 0
      <4>1. k \in Int /\ k >= Dot - s + 1
        BY <1>6, <1>16
      <4>2. QED
        BY <1>4, <1>19, <4>1
    <3>2. QED
      BY <3>1
  <2>5. Len(text'.int) > 1 => text'.int[1] # 0
    BY <1>16, <1>20
  <2>6. QED
    BY <2>1, <2>2, <2>3, <2>4, <2>5 DEF DecodedIsExact
<1>22. FieldsInv'
  BY <1>1, <1>2, <1>3, <1>9 DEF FieldsInv
<1>23. StoredInv'
  BY <1>1, <1>3, <1>4, <1>5 DEF StoredInv, Exact, Tiny
<1>24. QED
  BY <1>1, <1>21, <1>22, <1>23
     DEF CodecInv, FirstInv, EncoderInv, CutInv, SentInv, ReadInv

-----------------------------------------------------------------------------
LEMMA NumericNextInv ==
  ASSUME CodecInv, [NumericNext]_numericVars
  PROVE  CodecInv'
<1>1. CASE UNCHANGED numericVars
  <2>1. /\ UNCHANGED decimal /\ UNCHANGED <<groups, weight>> /\ UNCHANGED decoder
        /\ rest' = rest /\ phase' = phase
    BY <1>1 DEF numericVars
  <2>2. /\ unscaled' = unscaled /\ scale' = scale /\ neg' = neg
        /\ groups' = groups /\ weight' = weight
        /\ at' = at /\ buf' = buf /\ remainder' = remainder /\ text' = text
    BY <2>1 DEF decimal, decoder
  <2>3. Shorn' = Shorn /\ \A k : DecimalDigit(k)' = DecimalDigit(k)
    BY <2>1, SameDecimal
  <2>4. Dot' = Dot /\ \A k : NumericDigit(k)' = NumericDigit(k)
    BY <2>1, SameNumeric
  <2>5. FieldsInv' /\ FirstInv' /\ EncoderInv'
    BY <2>1, <2>2 DEF CodecInv, FieldsInv, FirstInv, EncoderInv
  <2>6. CutInv'
    <3>1. UncutFrom' = UncutFrom /\ SentFrom' = SentFrom
      BY <2>2 DEF UncutFrom, SentFrom
    <3>2. CutInv
      BY DEF CodecInv
    <3>3. QED
      BY <2>1, <2>2, <2>3, <3>1, <3>2 DEF CutInv, DecimalDigit
  <2>7. SentInv' /\ StoredInv'
    <3>1. UncutFrom' = UncutFrom /\ SentFrom' = SentFrom
      BY <2>2 DEF UncutFrom, SentFrom
    <3>2. SentInv /\ StoredInv
      BY DEF CodecInv
    <3>3. (Exact' <=> Exact) /\ (Tiny' <=> Tiny)
      BY <2>2, <2>3, <2>4 DEF Exact, Tiny
    <3>4. QED
      BY <2>1, <2>2, <2>3, <2>4, <3>1, <3>2, <3>3 DEF SentInv, StoredInv
  <2>8. ReadInv'
    <3>1. ReadInv
      BY DEF CodecInv
    <3>2. QED
      BY <2>1, <2>2, <2>4, <3>1 DEF ReadInv, NumericDigit
  <2>9. DecodedIsExact'
    <3>1. DecodedIsExact
      BY DEF CodecInv
    <3>2. QED
      BY <2>1, <2>2, <2>3, <3>1 DEF DecodedIsExact, DecimalDigit
  <2>10. phase' = "panicked" => Tiny'
    BY <2>1, <2>2, <2>3 DEF CodecInv, Tiny
  <2>11. QED
    BY <2>5, <2>6, <2>7, <2>8, <2>9, <2>10 DEF CodecInv
<1>2. CASE FirstGroup
  BY <1>2, FirstGroupInv
<1>3. CASE CutGroup
  BY <1>3, CutGroupInv
<1>4. CASE Send
  BY <1>4, SendInv
<1>5. CASE ServerStores
  BY <1>5, ServerStoresInv
<1>6. CASE ServerRefuses
  BY <1>6, ServerRefusesInv
<1>7. CASE ReadGroup
  BY <1>7, ReadGroupInv
<1>8. CASE Compose
  BY <1>8, ComposeInv
<1>9. CASE DotOutOfRange
  BY <1>9, DotOutOfRangeInv
<1>10. QED
  BY <1>1, <1>2, <1>3, <1>4, <1>5, <1>6, <1>7, <1>8, <1>9 DEF NumericNext

(* Whatever decimals are sent, of any size and any scale.                  *)
THEOREM NumericInvariance == NumericSpec => []CodecInv
  BY CodecInit, NumericNextInv, PTL DEF NumericSpec

(* A group has four digits, the carry one, the buffer four for each group. *)
THEOREM NumericTypeCorrect == NumericSpec => []NumericTypeOK
<1>1. CodecInv => NumericTypeOK
  BY DEF CodecInv, FieldsInv, ReadInv, NumericTypeOK
<1>2. QED
  BY <1>1, NumericInvariance, PTL

(* i128_to_sql and i256_to_sql send every digit of every decimal, however far *)
(* from the point, and the server's normal form keeps them all.            *)
THEOREM EveryDigitIsSent ==
  NumericSpec => [](phase = "read" \/ (phase = "sent" /\ scale >= 0) =>
                      \A k \in Int : NumericDigit(k) = DecimalDigit(k))
<1>1. CodecInv => (phase = "read" \/ (phase = "sent" /\ scale >= 0) =>
                     \A k \in Int : NumericDigit(k) = DecimalDigit(k))
  BY DEF CodecInv, SentInv, StoredInv, Exact
<1>2. QED
  BY <1>1, NumericInvariance, PTL

(* In particular those near the point.                                     *)
THEOREM EncodingIsExact == NumericSpec => []EncodedIsExact
<1>1. CodecInv => EncodedIsExact
  BY DEF CodecInv, SentInv, StoredInv, Exact, EncodedIsExact
<1>2. QED
  BY <1>1, NumericInvariance, PTL

(* from_sql returns every decimal digit for digit, with as many digits after *)
(* the point as the scale says and no leading zeros.                       *)
THEOREM DecodingIsExact == NumericSpec => []DecodedIsExact
<1>1. CodecInv => DecodedIsExact
  BY DEF CodecInv
<1>2. QED
  BY <1>1, NumericInvariance, PTL

(* from_sql panics for no number but those below 0.0001.                   *)
THEOREM OnlyTinyValuesPanic == NumericSpec => []OnlyTinyPanics
<1>1. CodecInv => OnlyTinyPanics
  BY DEF CodecInv, Tiny, OnlyTinyPanics
<1>2. QED
  BY <1>1, NumericInvariance, PTL
=============================================================================

--------------------------- MODULE MCQueryArguments ---------------------------
(* Instances of QueryArguments.                                               *)
EXTENDS QueryArguments

MCConnectors == {"pg", "mysql", "mssql", "sqlite", "duckdb"}
MCPostgres == {"pg"}

MCPlaceholders ==
  { <<type>> : type \in DOMAIN Bytes \cup {"numeric", "text", "bytea"} }
    \cup { <<>>, <<"int4", "text">> }

Value(native, type) == [native |-> native, type |-> type, size |-> type.p]

(* A value of each type with one, values of the wrong native type or size,   *)
(* and lists of none, two and three.                                         *)
Typed ==
  UNION { { Value(native, Ty(name)) : name \in Native[native] \ {"FixedSizeBinary"} }
          : native \in DOMAIN Native \ {"f16", "i128", "i256"} }
    \cup { Value("i128", Decimal("Decimal128", 10, 2)),
           Value("i256", Decimal("Decimal256", 60, 2)),
           Value("Vec", FixedSizeBinary(2)) }

Mistyped ==
  { Value("i64", Ty("Int32")), Value("i32", Ty("Time64Nanosecond")),
    Value("i32", Ty("Float16")), Value("i64", Ty("List")), Value("i32", Ty("Null")),
    [native |-> "Vec", type |-> FixedSizeBinary(2), size |-> 3] }

Number == Value("i32", Ty("Int32"))
Text == Value("String", Ty("Utf8"))

MCValueLists ==
  { <<value>> : value \in Typed \cup Mistyped }
    \cup { <<>>, <<Number, Text>>, <<Text, Number>>, <<Number, Value("i32", Ty("Null"))>>,
           <<Number, Text, Number>> }

(* Two rows, with a null in one of them or none.                             *)
MCBatches ==
  { [types |-> columns, nulls |-> nulls] :
      columns \in { <<>>, <<Ty("Int32")>>, <<Ty("IntervalDayTime")>>,
                  <<Ty("Null")>>, <<Ty("Null"), Ty("Utf8")>>, <<Ty("Int32"), Ty("Utf8")>> },
      nulls \in { << {}, {} >>, << {}, {1} >>, << {1}, {} >> } }
=============================================================================

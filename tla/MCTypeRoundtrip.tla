-------------------------- MODULE MCTypeRoundtrip --------------------------
(* Every Arrow type of the crate, with decimals on both sides of each      *)
(* limit, for each connector; batches of every other type they may have;   *)
(* and tables the crate did not make.                                      *)
EXTENDS TypeRoundtrip

Scaled == { <<15, 4>>, <<37, 4>>, <<38, 0>>, <<38, 38>>, <<45, 12>>, <<65, 0>>,
            <<66, 50>>, <<76, 76>>, <<5, -2>> }
ArrowTypes ==
  { Ty(name) : name \in (Transported \ (Decimals \cup {"FixedSizeBinary"}))
                          \cup {"Null", "List"} }
    \cup { Decimal(name, d[1], d[2]) : name \in Decimals, d \in Scaled }
    \cup { FixedSizeBinary(size) : size \in 1 .. 5 }

Batches == { Field(type, nullable) : type \in ArrowTypes, nullable \in BOOLEAN }

MCCases ==
  { c \in [connector : Connector, type : ArrowTypes, nullable : BOOLEAN, batch : Batches] :
      LegalCase(c) }

ForeignTable(conn, names) ==
  [connector : {conn}, type : { Ty(name) : name \in names }, nullable : BOOLEAN]

MCForeign ==
  ForeignTable("pg", Listed(PgDbIntoArrow) \cup {"uuid", "inet", "json"})
    \cup ForeignTable("mysql",
           (Listed(MySQLDbIntoArrow) \ {"null", "newdecimal", "real"}) \cup DOMAIN MySQLBinText
             \cup {"enum", "set", "time", "year", "geometry"})
    \cup ForeignTable("mssql",
           (Listed(MssqlDbIntoArrow) \ {"null", "intn", "float24", "float53"})
             \cup {"money", "date", "time", "datetime2", "varbinary", "uniqueidentifier"})
    \cup ForeignTable("sqlite", {"INTEGER", "REAL", "TEXT", "BLOB"})
    \cup ForeignTable("duckdb", Listed(DuckDBDbIntoArrow) \ {"DATE"})
=============================================================================

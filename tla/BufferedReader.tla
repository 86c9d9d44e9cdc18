--------------------------- MODULE BufferedReader ---------------------------
(***************************************************************************)
(* rusqlite/query.rs: a SQLite statement reads its whole result into       *)
(* memory, infers the type of each column from the first value that is not *)
(* NULL, converts all rows through one ArrowRowWriter and serves the       *)
(* batches from an ArrowReader.                                            *)
(***************************************************************************)
EXTENDS ArrowRowWriter

CONSTANTS StorageClasses, (* the storage classes of SQLite values but NULL  *)
          Tables          (* the results to try: sequences of rows, a row   *)
                          (* maps a column to the storage class of its cell *)

Null == "NULL"
BadText == "not UTF-8"    (* a TEXT that no Rust String can hold            *)

ASSUME BufferedAssumption ==
  /\ Null \notin StorageClasses
  /\ BadText \notin StorageClasses \cup {Null}
  /\ Tables \subseteq Seq([Columns -> StorageClasses \cup {Null, BadText}])

VARIABLES table,    (* the rows the query yields                            *)
          fails,    (* the query fails after yielding them                  *)
          rows,     (* the rows buffered so far                             *)
          types,    (* inferred types: NULL while none is known             *)
          pc,       (* "read", "infer", "rows": loop head of the conversion,
                       "cells", "ready": the ArrowReader exists, "closed",
                       "panicked"                                           *)
          at, col,  (* row and field of the inference and the conversion    *)
          writer,
          batches,  (* the batches left in the ArrowReader                  *)
          out       (* what the calls of next() returned                    *)

vars == <<table, fails, rows, types, pc, at, col, writer, batches, out>>

Cell == [row : Nat, col : Columns, null : BOOLEAN, class : StorageClasses \cup {Null}]
Result == [kind : {"batch", "end"}, batch : [Columns -> Seq(Cell)]]

Init ==
  /\ table \in Tables
  /\ fails \in BOOLEAN
  /\ rows = <<>>
  /\ types = [c \in Columns |-> Null]
  /\ pc = "read"
  /\ at = 1
  /\ col = 0
  /\ writer = NewWriter(0)
  /\ batches = <<>>
  /\ out = <<>>

-----------------------------------------------------------------------------
ReadableRow(row) == \A c \in Columns : row[c] # BadText

(* Every cell of a row is copied into the buffer as a Value.               *)
ReadRow ==
  /\ pc = "read"
  /\ Len(rows) < Len(table)
  /\ ReadableRow(table[Len(rows) + 1])
  /\ rows' = Append(rows, table[Len(rows) + 1])
  /\ UNCHANGED <<table, fails, types, pc, at, col, writer, batches, out>>

(* A Value holds text as a String: the unwrap of get() panics.             *)
ReadPanics ==
  /\ pc = "read"
  /\ Len(rows) < Len(table)
  /\ ~ReadableRow(table[Len(rows) + 1])
  /\ pc' = "panicked"
  /\ UNCHANGED <<table, fails, rows, types, at, col, writer, batches, out>>

ReadErr ==
  /\ pc = "read"
  /\ Len(rows) = Len(table)
  /\ fails
  /\ pc' = "closed"
  /\ UNCHANGED <<table, fails, rows, types, at, col, writer, batches, out>>

ReadEnd ==
  /\ pc = "read"
  /\ Len(rows) = Len(table)
  /\ ~fails
  /\ pc' = "infer"
  /\ UNCHANGED <<table, fails, rows, types, at, col, writer, batches, out>>

InferRow_FirstOnly ==
  /\ pc = "infer"
  /\ at <= Len(rows)
  /\ types' = [c \in Columns |-> IF types[c] = Null THEN rows[at][c] ELSE types[c]]
  /\ at' = Len(rows) + 1
  /\ UNCHANGED <<table, fails, rows, pc, col, writer, batches, out>>

(* One round of infer_schema's loop; it breaks once all types are known.   *)
InferRow ==
  /\ pc = "infer"
  /\ at <= Len(rows)
  /\ types' = [c \in Columns |-> IF types[c] = Null THEN rows[at][c] ELSE types[c]]
  /\ at' = IF \A c \in Columns : types'[c] # Null THEN Len(rows) + 1 ELSE at + 1
  /\ UNCHANGED <<table, fails, rows, pc, col, writer, batches, out>>

(* The schema is known; the writer gets the row count as its batch size.   *)
InferEnd ==
  /\ pc = "infer"
  /\ at > Len(rows)
  /\ writer' = NewWriter(Len(rows))
  /\ at' = 0
  /\ pc' = "rows"
  /\ UNCHANGED <<table, fails, rows, types, col, batches, out>>

-----------------------------------------------------------------------------
Panic == pc' = "panicked" /\ UNCHANGED writer

ConvertRow_PastEnd ==
  /\ pc = "rows"
  /\ at <= Len(rows)
  /\ at' = at + 1
  /\ col' = 0
  /\ writer' = PrepareForBatch(writer, 1)
  /\ pc' = "cells"
  /\ UNCHANGED <<table, fails, rows, types, batches, out>>

(* collect_rows_to_arrow takes the next buffered row.                      *)
ConvertRow ==
  LET prepared == PrepareForBatch(writer, 1)
  IN /\ pc = "rows"
     /\ at < Len(rows)
     /\ at' = at + 1
     /\ col' = 0
     /\ CASE prepared.result = "Ok" ->
               /\ writer' = prepared
               /\ pc' = IF ColCount = 0 THEN "rows" ELSE "cells"
          [] prepared.result = "Err" -> pc' = "closed" /\ UNCHANGED writer
          [] OTHER -> Panic
     /\ UNCHANGED <<table, fails, rows, types, batches, out>>

Convertible_NotNull(class, type) == type = Null \/ class = type

(* produce_opt of Value takes NULL and the storage class of the field; a   *)
(* field of type Null asks for nothing.                                    *)
Convertible(class, type) == type = Null \/ class \in {Null, type}

(* transport() of a nullable field: a NULL or a field of type Null gives   *)
(* consume_null; a value produce_opt does not take panics.                 *)
ConvertCell ==
  LET class == rows[at][col]
      null  == types[col] = Null \/ class = Null
      consumed == Consume(writer, [row |-> at, col |-> col, null |-> null, class |-> class])
  IN /\ pc = "cells"
     /\ IF Convertible(class, types[col]) /\ consumed.result = "Ok"
        THEN /\ writer' = consumed
             /\ pc' = IF col + 1 = ColCount THEN "rows" ELSE "cells"
        ELSE Panic
     /\ col' = col + 1
     /\ UNCHANGED <<table, fails, rows, types, at, batches, out>>

ConvertEnd ==
  LET finished == Finish(writer)
  IN /\ pc = "rows"
     /\ at = Len(rows)
     /\ CASE finished.result = "Ok" -> batches' = finished.data /\ pc' = "ready"
          [] finished.result = "Err" -> pc' = "closed" /\ UNCHANGED batches
          [] OTHER -> pc' = "panicked" /\ UNCHANGED batches
     /\ writer' = NewWriter(0)
     /\ UNCHANGED <<table, fails, rows, types, at, col, out>>

-----------------------------------------------------------------------------
NextBatch_Keeps ==
  /\ pc = "ready"
  /\ batches # <<>>
  /\ out' = Append(out, [kind |-> "batch", batch |-> Head(batches)])
  /\ UNCHANGED <<table, fails, rows, types, pc, at, col, writer, batches>>

(* ArrowReader::next: the preloaded batches one by one.                    *)
NextBatch ==
  /\ pc = "ready"
  /\ batches # <<>>
  /\ out' = Append(out, [kind |-> "batch", batch |-> Head(batches)])
  /\ batches' = Tail(batches)
  /\ UNCHANGED <<table, fails, rows, types, pc, at, col, writer>>

NextNone ==
  /\ pc = "ready"
  /\ batches = <<>>
  /\ out' = Append(out, [kind |-> "end", batch |-> NoCells])
  /\ pc' = "closed"
  /\ UNCHANGED <<table, fails, rows, types, at, col, writer, batches>>

Next ==
  \/ ReadRow \/ ReadPanics \/ ReadErr \/ ReadEnd
  \/ InferRow \/ InferEnd
  \/ ConvertRow \/ ConvertCell \/ ConvertEnd
  \/ NextBatch \/ NextNone

Spec == Init /\ [][Next]_vars

-----------------------------------------------------------------------------
(* The type invariant: cursors stay within the rows, cells within their    *)
(* columns, and a step of the reader never goes past the end.              *)
TypeOK ==
  /\ table \in Tables
  /\ fails \in BOOLEAN
  /\ rows \in Seq([Columns -> StorageClasses \cup {Null}])
  /\ types \in [Columns -> StorageClasses \cup {Null}]
  /\ pc \in {"read", "infer", "rows", "cells", "ready", "closed", "panicked"}
  /\ at \in 0 .. Len(rows) + 1
  /\ pc \in {"rows", "cells"} => at <= Len(rows)
  /\ col \in 0 .. ColCount
  /\ WriterOK(writer, Cell)
  /\ batches \in Seq([Columns -> Seq(Cell)])
  /\ out \in Seq(Result)

ClassesOf(c) == { table[i][c] : i \in DOMAIN table } \ {Null}
Uniform == \A c \in Columns : \A s, t \in ClassesOf(c) : s = t
Readable == \A i \in DOMAIN table : ReadableRow(table[i])
Sound == Uniform /\ Readable
Converted == { i \in DOMAIN out : out[i].kind = "batch" }

(* Only a TEXT that is not UTF-8 and values of two storage classes in one  *)
(* column panic: leaving the inference early never leaves a column untyped *)
(* that has a value, nor does the writer fail.  (README.md:114-116 says    *)
(* that a result of mixed types is rejected and the user is told.)         *)
SoundNeverPanics == pc = "panicked" => ~Sound

(* The caller gets the whole result in one batch: column c holds, in row   *)
(* order, exactly the values of column c, nulls where the value is NULL;   *)
(* or nothing: of a result that is not sound not even the rows before the  *)
(* first value that does not fit or cannot be read.                        *)
WholeResultInOneBatch ==
  \A i \in Converted :
    /\ i = 1
    /\ Sound
    /\ \A c \in Columns :
         out[i].batch[c] =
           [k \in DOMAIN table |-> [row |-> k, col |-> c,
              null |-> table[k][c] = Null, class |-> table[k][c]]]

-----------------------------------------------------------------------------
MappedResult(r) ==
  [ kind |-> r.kind,
    rows |-> IF r.kind = "batch"
             THEN [k \in DOMAIN r.batch[0] |-> r.batch[0][k].row]
             ELSE <<>> ]

Delivered ==
  LET last == CHOOSE i \in Converted : \A j \in Converted : j <= i
      rowsOfLast == MappedResult(out[last]).rows
  IN IF Converted = {} THEN 0 ELSE rowsOfLast[Len(rowsOfLast)]

CONSTANT MaxRows     (* no table of Tables has more rows *)

ASSUME MaxRowsAssumption == MaxRows \in Nat /\ \A t \in Tables : Len(t) <= MaxRows

Delivery == INSTANCE RowDelivery WITH
  MaxBatch <- MaxRows,
  total    <- Len(table),
  next     <- Delivered + 1,
  log      <- [i \in DOMAIN out |-> MappedResult(out[i])]

(* The buffered reader keeps the same promise as the streaming ones.       *)
DeliversRows == Delivery!Spec
=============================================================================

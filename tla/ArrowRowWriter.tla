--------------------------- MODULE ArrowRowWriter ---------------------------
(***************************************************************************)
(* util/row_writer.rs: ArrowRowWriter receives cells row by row, appends   *)
(* each one to the builder of its column and cuts record batches.          *)
(*                                                                         *)
(* The writer is a record, its methods are operators from writer to        *)
(* writer, and the field `result' holds what the last method did:          *)
(* returned Ok, returned Err, or panicked.  The clients (RowWriterCalls,   *)
(* StreamingReader, BufferedReader) keep a writer in a variable.           *)
(*                                                                         *)
(* A cell is a record with at least a Boolean field `null'; the clients    *)
(* add where the cell comes from, so that a cell in a wrong place shows.   *)
(* Organizer.row_count and next_row are written and never read: left out.  *)
(***************************************************************************)
EXTENDS Naturals, Sequences

CONSTANTS ColCount,  (* number of fields of the schema                     *)
          NotNull    (* the columns whose field is not nullable            *)

ASSUME ColumnsAssumption ==
  /\ ColCount \in Nat
  /\ NotNull \subseteq 0 .. ColCount - 1

Columns == 0 .. ColCount - 1

Larger(a, b) == IF a >= b THEN a ELSE b

NoCells == [c \in Columns |-> <<>>]

NewWriter(minBatchSize) ==
  [ min_batch_size |-> minBatchSize,
    data           |-> <<>>,
    next_col       |-> 0,
    has_builders   |-> FALSE,     \* builders: Option<..> is Some
    builders       |-> NoCells,
    rows_reserved  |-> 0,
    rows_capacity  |-> 0,
    result         |-> "Ok" ]

(* Array::slice(0, rows_reserved) panics on a column that is too short.    *)
SliceFits(w) == \A c \in Columns : w.rows_reserved <= Len(w.builders[c])

Sliced(w) == [c \in Columns |-> SubSeq(w.builders[c], 1, w.rows_reserved)]

(* RecordBatch::try_new refuses a batch without columns, and a null in a   *)
(* column declared non-nullable.                                           *)
Acceptable(batch) ==
  /\ ColCount > 0
  /\ \A c \in NotNull : \A i \in DOMAIN batch[c] : ~batch[c][i].null

(* The builders are taken before anything can fail; rows_reserved and      *)
(* rows_capacity keep their values whatever happens.                       *)
Flush(w) ==
  LET taken == [w EXCEPT !.has_builders = FALSE, !.builders = NoCells]
  IN CASE ~w.has_builders        -> [w EXCEPT !.result = "Ok"]
       [] w.has_builders /\ ~SliceFits(w) -> [taken EXCEPT !.result = "Panic"]
       [] w.has_builders /\ SliceFits(w) /\ ~Acceptable(Sliced(w))
                                 -> [taken EXCEPT !.result = "Err"]
       [] OTHER -> [taken EXCEPT !.data = Append(@, Sliced(w)),
                                 !.result = "Ok"]

(* Definitions named X_Y are faulty variants of X.  The models do not use   *)
(* them: putting one in the place of X must break a property.              *)
FitsCapacity_IgnoresReserved(w, rows) == w.rows_capacity >= rows
FitsCapacity_Strict(w, rows) == w.rows_capacity > rows + w.rows_reserved

FitsCapacity(w, rows) == w.rows_capacity >= rows + w.rows_reserved

NewBuilders(w, rows) ==
  [w EXCEPT !.has_builders  = TRUE,
            !.builders      = NoCells,
            !.rows_reserved = rows,
            !.rows_capacity = Larger(rows, w.min_batch_size)]

Allocate_NoFlush(w, rows) ==
  IF FitsCapacity(w, rows)
  THEN [w EXCEPT !.rows_reserved = @ + rows]
  ELSE NewBuilders(w, rows)

Allocate(w, rows) ==
  LET flushed == IF w.rows_reserved > 0 THEN Flush(w) ELSE w
  IN IF FitsCapacity(w, rows)
     THEN [w EXCEPT !.rows_reserved = @ + rows]
     ELSE IF flushed.result # "Ok" THEN flushed ELSE NewBuilders(flushed, rows)

(* prepare_for_batch: the column cursor is reset even when allocate fails. *)
PrepareForBatch(w, rows) ==
  Allocate([w EXCEPT !.next_col = 0, !.result = "Ok"], rows)

NextColIndex_NoWrap(w) == w.next_col + 1

NextColIndex(w) == IF w.next_col + 1 = ColCount THEN 0 ELSE w.next_col + 1

(* consume / consume_null: append to the builder next_builder() returns;   *)
(* it unwraps the builders and indexes them by the column cursor.          *)
Consume(w, cell) ==
  LET moved == [w EXCEPT !.next_col = NextColIndex(w)]
  IN IF w.has_builders /\ w.next_col \in Columns
     THEN [moved EXCEPT !.builders[w.next_col] = Append(@, cell),
                        !.result = "Ok"]
     ELSE [moved EXCEPT !.result = "Panic"]

(* finish consumes the writer: its batches are `data' when it returns Ok.  *)
Finish(w) == Flush(w)

-----------------------------------------------------------------------------
Writer(Cell) ==
  [ min_batch_size : Nat,
    data           : Seq([Columns -> Seq(Cell)]),
    next_col       : Nat,
    has_builders   : BOOLEAN,
    builders       : [Columns -> Seq(Cell)],
    rows_reserved  : Nat,
    rows_capacity  : Nat,
    result         : {"Ok", "Err", "Panic"} ]

WriterOK(w, Cell) == w \in Writer(Cell) /\ w.rows_reserved <= w.rows_capacity
=============================================================================

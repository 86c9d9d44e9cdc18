--------------------------- MODULE RowWriterCalls ---------------------------
(***************************************************************************)
(* Every legal sequence of calls on one ArrowRowWriter: prepare_for_batch  *)
(* for any number of rows, then the cells of exactly those rows in         *)
(* row-major order, and so on until finish.                                *)
(***************************************************************************)
EXTENDS ArrowRowWriter

CONSTANTS MinBatchSizes,   (* values of min_batch_size to try              *)
          MaxPrepare,      (* bound: largest row_count of a prepare call   *)
          MaxRows          (* bound: rows prepared over the writer's life  *)

ASSUME CallsAssumption ==
  /\ MinBatchSizes \subseteq Nat
  /\ MaxPrepare \in Nat
  /\ MaxRows \in Nat

VARIABLES writer,
          prepared,  (* rows announced by the prepare calls that returned Ok *)
          starts,    (* what `prepared' was between the calls: where the rows
                        of a prepare call start                            *)
          row, col,  (* rows the caller has written; column of its next cell *)
          phase      (* "open", "failed" (last call: Err), "done", "panic" *)

vars == <<writer, prepared, starts, row, col, phase>>

Cell == [row : 1 .. MaxRows, col : Columns, null : BOOLEAN]

Init ==
  /\ \E n \in MinBatchSizes : writer = NewWriter(n)
  /\ prepared = 0
  /\ starts = {0}
  /\ row = 0
  /\ col = 0
  /\ phase = "open"

PhaseAfter(w, ok) ==
  CASE w.result = "Ok" -> ok [] w.result = "Err" -> "failed" [] OTHER -> "panic"

(* A row without columns has no cells to wait for.                         *)
Prepare(rows) ==
  /\ phase = "open"
  /\ row = prepared
  /\ prepared + rows <= MaxRows
  /\ writer' = PrepareForBatch(writer, rows)
  /\ phase' = PhaseAfter(writer', "open")
  /\ IF writer'.result = "Ok"
     THEN /\ prepared' = prepared + rows
          /\ starts' = starts \cup {prepared + rows}
     ELSE UNCHANGED <<prepared, starts>>
  /\ row' = IF ColCount = 0 THEN prepared' ELSE row
  /\ UNCHANGED col

(* The caller goes through the cells of the rows it announced in row-major *)
(* order.                                                                  *)
Advance ==
  IF col + 1 = ColCount
  THEN row' = row + 1 /\ col' = 0
  ELSE row' = row /\ col' = col + 1

(* Only a null in a non-nullable column makes a difference to the writer.  *)
WriteCell(null) ==
  /\ phase = "open"
  /\ row < prepared
  /\ null => col \in NotNull
  /\ writer' = Consume(writer, [row |-> row + 1, col |-> col, null |-> null])
  /\ phase' = PhaseAfter(writer', "open")
  /\ Advance
  /\ UNCHANGED <<prepared, starts>>

FinishWriter ==
  /\ phase = "open"
  /\ row = prepared
  /\ writer' = Finish(writer)
  /\ phase' = PhaseAfter(writer', "done")
  /\ UNCHANGED <<prepared, starts, row, col>>

Next ==
  \/ \E rows \in 0 .. MaxPrepare : Prepare(rows)
  \/ \E null \in BOOLEAN : WriteCell(null)
  \/ FinishWriter

Spec == Init /\ [][Next]_vars

-----------------------------------------------------------------------------
(* The type invariant: the writer's fields are well-formed and no builder  *)
(* holds more rows than were reserved.                                     *)
TypeOK ==
  /\ WriterOK(writer, Cell)
  /\ prepared \in 0 .. MaxRows
  /\ starts \subseteq 0 .. prepared
  /\ row \in 0 .. prepared
  /\ col \in 0 .. ColCount
  /\ phase \in {"open", "failed", "done", "panic"}

(* A caller that writes what it announced never hits a panic: no builder   *)
(* is missing when a cell arrives (next_builder's unwrap) and no column is *)
(* shorter than rows_reserved when a batch is cut (slice).                 *)
NoPanic == phase # "panic"

(* Rows in the batches that were cut before the b-th.                      *)
RowsBefore(data, b) ==
  IF b = 1 THEN 0 ELSE LET cells == data[b - 1][0] IN cells[Len(cells)].row

InPlace(cells, c, before) ==
  \A i \in DOMAIN cells : cells[i].row = before + i /\ cells[i].col = c

BatchInPlace(data, b, marks) ==
  /\ data[b][0] # <<>>
  /\ RowsBefore(data, b + 1) \in marks
  /\ \A c \in Columns :
       /\ Len(data[b][c]) = Len(data[b][0])
       /\ InPlace(data[b][c], c, RowsBefore(data, b))

(* Row i of every column is the i-th row the caller wrote, across batch    *)
(* boundaries: no cell is lost, repeated or put under another column by    *)
(* the column cursor, the capacity test or a flush.  The rows announced by *)
(* one prepare_for_batch stay together: a batch is cut between two calls.  *)
(* A finish that returns Ok leaves nothing behind in the builders.         *)
CellsInPlace ==
  LET cut == RowsBefore(writer.data, Len(writer.data) + 1)
  IN /\ ColCount > 0 =>
          \A b \in DOMAIN writer.data : BatchInPlace(writer.data, b, starts)
     /\ phase \in {"open", "done"} =>
          \A c \in Columns :
            /\ InPlace(writer.builders[c], c, cut)
            /\ row = prepared => cut + Len(writer.builders[c]) = prepared
     /\ phase = "done" /\ ColCount > 0 => cut = prepared
=============================================================================

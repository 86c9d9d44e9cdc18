--------------------------- MODULE StreamingReader ---------------------------
(***************************************************************************)
(* The result readers of the connectors that stream: PostgreSQL, MySQL and *)
(* Microsoft SQL Server.  start_batch opens the result, every call of the  *)
(* iterator's next() runs next_batch_from_rows, which takes rows from the  *)
(* driver one at a time, hands their cells to an ArrowRowWriter and cuts   *)
(* one batch.                                                              *)
(*                                                                         *)
(* The wire is what the database driver hands over, in order:              *)
(*   "row"    a row whose cells all convert                                *)
(*   "range"  a row with a cell whose conversion returns Err               *)
(*   "broken" a row with a cell whose conversion panics                    *)
(*   "meta"   the metadata that opens a result set                         *)
(*   "fail"   an error of the server; no row follows it                    *)
(*   "lost"   the connection is gone: every further next_row() is an Err   *)
(* The cells of a row carry the row's place on the wire.                   *)
(***************************************************************************)
EXTENDS ArrowRowWriter

CONSTANTS BatchSize,  (* the 1024 the three readers pass                    *)
          Backends,   (* the connectors: "postgres", "mysql", "mssql"       *)
          Wires       (* the wires to try                                    *)

Rows == {"row", "range", "broken"}
Errors == {"meta", "fail"}
ItemKinds == Rows \cup Errors \cup {"lost"}

(* The driver of MySQL ends its row iterator with the first result set; a  *)
(* prepared PostgreSQL statement has only one, described before it runs.   *)
HasHeader(b) == b # "postgres"

(* The iterators of the MySQL and SQL Server drivers end behind an error   *)
(* of any kind.  PostgreSQL's Fuse remembers the end only, and the driver  *)
(* answers with an error as often as a lost connection is asked.           *)
LegalWire(b, w) ==
  /\ \A i \in DOMAIN w : w[i] = "lost" => i = Len(w) /\ b = "postgres"
  /\ \A i \in DOMAIN w : w[i] = "fail" => \A j \in i + 1 .. Len(w) : w[j] = "lost"
  /\ \A i \in DOMAIN w : w[i] = "meta" => HasHeader(b) /\ (i = 1 \/ b = "mssql")
  /\ \A i \in DOMAIN w : w[i] = "range" => b # "mssql"
  /\ HasHeader(b) /\ w # <<>> => w[1] \in {"meta", "fail"}

ASSUME ReaderAssumption ==
  /\ BatchSize \in Nat \ {0}
  /\ Backends \subseteq {"postgres", "mysql", "mssql"}
  /\ Wires \subseteq Seq(ItemKinds)

VARIABLES backend,
          wire,
          pos,      (* items the driver has handed over                     *)
          pc,       (* "start", "idle": between calls, "row": loop head of
                       next_batch_from_rows, "cells": its inner loop,
                       "closed": the caller is finished, "panicked"         *)
          taken,    (* rows of the current call: the loop counter           *)
          col,      (* the field whose cell is transported next             *)
          writer,
          out       (* what the calls of next() returned                    *)

vars == <<backend, wire, pos, pc, taken, col, writer, out>>

Cell == [row : Nat, col : Columns, null : BOOLEAN]
Result == [kind : {"batch", "err", "end"}, batch : [Columns -> Seq(Cell)]]

Init ==
  /\ backend \in Backends
  /\ wire \in Wires
  /\ LegalWire(backend, wire)
  /\ pos = 0
  /\ pc = "start"
  /\ taken = 0
  /\ col = 0
  /\ writer = NewWriter(BatchSize)
  /\ out = <<>>

Header == IF HasHeader(backend) THEN 1 ELSE 0

(* start_batch: the schema comes from the statement (PostgreSQL) or from   *)
(* the metadata of the first result set, which is taken off the stream.    *)
StartBatch ==
  /\ pc = "start"
  /\ HasHeader(backend) => wire # <<>> /\ wire[1] = "meta"
  /\ pos' = Header
  /\ pc' = "idle"
  /\ UNCHANGED <<backend, wire, taken, col, writer, out>>

(* No result set, or an error that arrives before the first row.           *)
StartFails ==
  /\ pc = "start"
  /\ (HasHeader(backend) /\ wire = <<>>) \/ (wire # <<>> /\ wire[1] \in {"fail", "lost"})
  /\ pc' = "closed"
  /\ UNCHANGED <<backend, wire, pos, taken, col, writer, out>>

(* One call of next() begins: a new writer for this batch only.            *)
NextCall ==
  /\ pc = "idle"
  /\ writer' = NewWriter(BatchSize)
  /\ taken' = 0
  /\ pc' = "row"
  /\ UNCHANGED <<backend, wire, pos, col, out>>

(* The call returns; the writer, with whatever it holds, is dropped.       *)
(* After an Err a caller stops, as lib.rs query does, or calls again.      *)
Return(kind, batch) ==
  /\ out' = Append(out, [kind |-> kind, batch |-> batch])
  /\ pc' \in CASE kind = "end" -> {"closed"}
               [] kind = "err" -> {"closed", "idle"}
               [] OTHER -> {"idle"}
  /\ taken' = 0
  /\ UNCHANGED writer

Panic == pc' = "panicked" /\ UNCHANGED <<taken, writer, out>>

LoopHead_Unbounded == pc = "row" /\ pos < Len(wire)

LoopHead == pc = "row" /\ taken < BatchSize /\ pos < Len(wire)

(* next_row() gives a row: reserve one row in the writer.                  *)
FetchRow ==
  LET prepared == PrepareForBatch(writer, 1)
  IN /\ LoopHead
     /\ wire[pos + 1] \in Rows
     /\ pos' = pos + 1
     /\ col' = 0
     /\ CASE prepared.result = "Ok" ->
               /\ writer' = prepared
               /\ taken' = taken + 1
               /\ pc' = IF ColCount = 0 THEN "row" ELSE "cells"
               /\ UNCHANGED out
          [] prepared.result = "Err" -> Return("err", NoCells)
          [] OTHER -> Panic
     /\ UNCHANGED <<backend, wire>>

FetchErr_AsEnd ==
  /\ LoopHead
  /\ wire[pos + 1] \in Errors
  /\ pos' = pos + 1
  /\ Return("end", NoCells)
  /\ UNCHANGED <<backend, wire, col>>

FetchErr_Skipped ==
  /\ LoopHead
  /\ wire[pos + 1] \in Errors
  /\ pos' = pos + 1
  /\ UNCHANGED <<backend, wire, pc, taken, col, writer, out>>

FetchErr_ReturnsPartial ==
  /\ LoopHead
  /\ wire[pos + 1] \in Errors
  /\ pos' = pos + 1
  /\ IF taken = 0 THEN Return("err", NoCells)
     ELSE Return("batch", Finish(writer).data[1])
  /\ UNCHANGED <<backend, wire, col>>

(* next_row() gives an error of the driver, or MultipleResultSets for the  *)
(* metadata of a second result set: the rows already in the writer go.     *)
FetchErr ==
  /\ LoopHead
  /\ wire[pos + 1] \in Errors
  /\ pos' = pos + 1
  /\ Return("err", NoCells)
  /\ UNCHANGED <<backend, wire, col>>

(* next_row() finds the connection lost and stays where it is.  "out" has  *)
(* a run of such calls once: only the first is worth its place in it.      *)
ConnectionLost ==
  /\ LoopHead
  /\ wire[pos + 1] = "lost"
  /\ IF taken = 0 /\ out # <<>> /\ out[Len(out)].kind = "err"
     THEN pc' \in {"closed", "idle"} /\ UNCHANGED <<taken, writer, out>>
     ELSE Return("err", NoCells)
  /\ UNCHANGED <<backend, wire, pos, col>>

(* transport() of one cell.  The cell that does not convert may be any one *)
(* of its row.                                                             *)
TransportCell ==
  LET consumed == Consume(writer, [row |-> pos, col |-> col, null |-> FALSE])
  IN /\ pc = "cells"
     /\ wire[pos] = "row" \/ col + 1 < ColCount
     /\ col' = col + 1
     /\ IF consumed.result = "Ok"
        THEN /\ writer' = consumed
             /\ pc' = IF col + 1 = ColCount THEN "row" ELSE "cells"
             /\ UNCHANGED <<taken, out>>
        ELSE Panic
     /\ UNCHANGED <<backend, wire, pos>>

CellErr ==
  /\ pc = "cells"
  /\ wire[pos] = "range"
  /\ Return("err", NoCells)
  /\ UNCHANGED <<backend, wire, pos, col>>

CellPanics ==
  /\ pc = "cells"
  /\ wire[pos] = "broken"
  /\ Panic
  /\ UNCHANGED <<backend, wire, pos, col>>

FinishBatch_OnlyFull ==
  /\ pc = "row"
  /\ taken = BatchSize
  /\ Return("batch", Finish(writer).data[1])
  /\ UNCHANGED <<backend, wire, pos, col>>

(* The loop ends: finish the writer, None without a batch, else the batch: *)
(* exactly_one().unwrap() panics if the writer has cut several.            *)
FinishBatch ==
  LET finished == Finish(writer)
  IN /\ pc = "row"
     /\ taken = BatchSize \/ pos = Len(wire)
     /\ CASE finished.result = "Err" -> Return("err", NoCells)
          [] finished.result = "Ok" /\ finished.data = <<>> -> Return("end", NoCells)
          [] finished.result = "Ok" /\ Len(finished.data) = 1
               -> Return("batch", finished.data[1])
          [] OTHER -> Panic
     /\ UNCHANGED <<backend, wire, pos, col>>

Next ==
  \/ StartBatch \/ StartFails
  \/ NextCall
  \/ FetchRow \/ FetchErr \/ ConnectionLost
  \/ TransportCell \/ CellErr \/ CellPanics
  \/ FinishBatch

Spec == Init /\ [][Next]_vars

(* One thread runs the caller and the reader, and the driver's calls block *)
(* until the server answers.                                               *)
FairSpec == Spec /\ WF_vars(Next)

-----------------------------------------------------------------------------
(* The type invariant: the loop of a call never takes more than BatchSize  *)
(* rows, nor a cell beyond the schema.                                     *)
TypeOK ==
  /\ backend \in Backends
  /\ wire \in Seq(ItemKinds)
  /\ pos \in 0 .. Len(wire)
  /\ pc \in {"start", "idle", "row", "cells", "closed", "panicked"}
  /\ taken \in 0 .. BatchSize
  /\ col \in 0 .. ColCount
  /\ WriterOK(writer, Cell)
  /\ out \in Seq(Result)

Batches == { i \in DOMAIN out : out[i].kind = "batch" }
RowsOf(i) == [k \in DOMAIN out[i].batch[0] |-> out[i].batch[0][k].row]
First(i) == out[i].batch[0][1].row
Last(i) == out[i].batch[0][Len(out[i].batch[0])].row

(* row_collect.rs:34: exactly_one().unwrap() and the unwraps of the writer *)
(* never panic.  Only a cell that cannot be converted does.                *)
OnlyCellsPanic ==
  pc = "panicked" => pos > 0 /\ wire[pos] = "broken"

Aligned(batch) ==
  /\ ColCount > 0
  /\ Len(batch[0]) \in 1 .. BatchSize
  /\ \A c \in Columns :
       /\ Len(batch[c]) = Len(batch[0])
       /\ \A k \in DOMAIN batch[c] :
            batch[c][k].row = batch[0][1].row + k - 1 /\ batch[c][k].col = c

(* A batch is never empty and never longer than BatchSize; all its columns *)
(* have the same length; and the cells beside each other come from the     *)
(* same row, row after row without a gap, each under its own column.       *)
BatchesAligned == \A i \in Batches : Aligned(out[i].batch)

(* A batch shorter than BatchSize is the last: nothing but the end comes   *)
(* after it, so rows that were read are never held back for a later call.  *)
ShortBatchIsLast ==
  \A i \in Batches :
    Len(out[i].batch[0]) < BatchSize =>
      \A j \in DOMAIN out : j > i => out[j].kind = "end"

(* A caller that stops at the first Err, like lib.rs query: the end of the *)
(* iterator means it has every row of the result, and there was only one   *)
(* result set.                                                             *)
EndMeansComplete ==
  \A j \in DOMAIN out :
    out[j].kind = "end" /\ (\A i \in 1 .. j - 1 : out[i].kind = "batch") =>
      /\ \A n \in Header + 1 .. Len(wire) :
           wire[n] = "row" /\ \E i \in Batches : \E k \in DOMAIN RowsOf(i) : RowsOf(i)[k] = n
      /\ \A i \in 1 .. j - 1 : First(i) = IF i = 1 THEN Header + 1 ELSE Last(i - 1) + 1

(* The rows a caller loses by going on after an Err are bounded: between   *)
(* two batches, at most BatchSize items for every call that failed.        *)
LossBounded ==
  \A i, j \in Batches :
    i < j /\ (\A m \in i + 1 .. j - 1 : out[m].kind = "err") =>
      First(j) - Last(i) - 1 <= BatchSize * (j - i - 1)

Done == pc \in {"closed", "panicked"}
Lost == backend = "postgres" /\ pos < Len(wire) /\ wire[pos + 1] = "lost"

(* Every caller comes to the end of the iterator, to an Err it stops at or *)
(* to the panic of a cell.  Only a caller that takes the Err of a lost     *)
(* PostgreSQL connection for one more bad row calls for ever; its calls    *)
(* still return.                                                           *)
Termination == <>Done \/ (<>[]Lost /\ []<>(pc = "idle"))

-----------------------------------------------------------------------------
(* Every call that returns is one step of RowDelivery, all other steps     *)
(* leave its state alone: the rows taken by the current call still count   *)
(* as undelivered.                                                         *)
MappedResult(r) ==
  [ kind |-> r.kind,
    rows |-> IF r.kind = "batch"
             THEN [k \in DOMAIN r.batch[0] |-> r.batch[0][k].row - Header]
             ELSE <<>> ]

Delivered == IF pos < Header THEN 0 ELSE pos - taken - Header

Delivery == INSTANCE RowDelivery WITH
  MaxBatch <- BatchSize,
  total    <- IF Len(wire) < Header THEN 0 ELSE Len(wire) - Header,
  next     <- Delivered + 1,
  log      <- [i \in DOMAIN out |-> MappedResult(out[i])]

(* The streaming readers implement the abstract delivery of rows in        *)
(* batches.                                                                *)
DeliversRows == Delivery!Spec
=============================================================================

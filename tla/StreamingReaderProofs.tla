------------------------ MODULE StreamingReaderProofs ------------------------
(***************************************************************************)
(* Proofs about StreamingReader for every number of columns, batch size,   *)
(* connector and wire.                                                     *)
(***************************************************************************)
EXTENDS StreamingReader, ArrowRowWriterProofs, Integers, SequenceTheorems, TLAPS

CellAt(r, c) == [row |-> r, col |-> c, null |-> FALSE]

(* Cells the current call has put into the builder of column c.            *)
Filled(c) == IF pc = "cells" /\ c >= col THEN taken - 1 ELSE taken

(* Within a call the writer has cut no batch, has reserved exactly the     *)
(* rows taken, and its builders hold the cells of the last `taken' items   *)
(* of the wire, each under its column.                                     *)
WriterInv ==
  pc \in {"row", "cells"} =>
    /\ taken <= pos
    /\ writer.min_batch_size = BatchSize
    /\ writer.data = <<>>
    /\ writer.rows_reserved = taken
    /\ writer.has_builders <=> taken > 0
    /\ writer.rows_capacity = (IF taken = 0 THEN 0 ELSE BatchSize)
    /\ \A c \in Columns :
         /\ Len(writer.builders[c]) = Filled(c)
         /\ \A k \in 1 .. Filled(c) : writer.builders[c][k] = CellAt(pos - taken + k, c)

(* The writer's column cursor follows the loop over the fields.            *)
CursorInv ==
  pc = "cells" =>
    /\ col < ColCount
    /\ writer.next_col = col
    /\ taken > 0

IInv == TypeOK /\ WriterInv /\ CursorInv /\ OnlyCellsPanic /\ BatchesAligned

-----------------------------------------------------------------------------
(* Before start_batch there is no row, no batch and an empty writer.       *)
LEMMA InitInv == Init => IInv
<1> SUFFICES ASSUME Init PROVE IInv
  OBVIOUS
<1>1. WriterOK(writer, Cell)
  BY NewWriterType, ReaderAssumption DEF Init
<1>2. TypeOK
  BY <1>1, ReaderAssumption, ColumnsAssumption DEF Init, TypeOK
<1>3. WriterInv /\ CursorInv /\ OnlyCellsPanic /\ BatchesAligned
  BY DEF Init, WriterInv, CursorInv, OnlyCellsPanic, BatchesAligned, Batches
<1>4. QED
  BY <1>2, <1>3 DEF IInv

(* A call that returns keeps the invariant if what it returns is right.    *)
LEMMA ReturnInv ==
  ASSUME IInv, NEW kind \in {"batch", "err", "end"},
         NEW batch \in [Columns -> Seq(Cell)],
         kind = "batch" => Aligned(batch),
         Return(kind, batch), UNCHANGED <<backend, wire>>,
         pos' \in 0 .. Len(wire), col' \in 0 .. ColCount
  PROVE  IInv'
<1> DEFINE r == [kind |-> kind, batch |-> batch]
<1>1. r \in Result
  BY DEF Result
<1>2. out' = Append(out, r) /\ out \in Seq(Result) /\ out' \in Seq(Result)
  BY <1>1 DEF Return, IInv, TypeOK
<1>3. pc' \in {"idle", "closed"} /\ taken' = 0 /\ writer' = writer
  BY DEF Return
<1>4. TypeOK'
  BY <1>2, <1>3, ReaderAssumption DEF IInv, TypeOK
<1>5. WriterInv' /\ CursorInv' /\ OnlyCellsPanic'
  BY <1>3 DEF WriterInv, CursorInv, OnlyCellsPanic
<1>6. BatchesAligned'
  <2> SUFFICES ASSUME NEW i \in DOMAIN out', out'[i].kind = "batch"
               PROVE  Aligned(out'[i].batch)
    BY DEF BatchesAligned, Batches, Aligned
  <2>1. CASE i = Len(out) + 1
    BY <1>2, <2>1
  <2>2. CASE i # Len(out) + 1
    <3>1. i \in DOMAIN out /\ out'[i] = out[i]
      BY <1>2, <2>2
    <3>2. QED
      BY <3>1 DEF IInv, BatchesAligned, Batches
  <2>3. QED
    BY <2>1, <2>2
<1>7. QED
  BY <1>4, <1>5, <1>6 DEF IInv

(* start_batch and the begin of a call of next().                          *)
LEMMA StartInv ==
  ASSUME IInv, StartBatch \/ StartFails \/ NextCall
  PROVE  IInv'
<1>1. UNCHANGED <<backend, wire, col, out>> /\ taken' \in {0, taken}
  BY DEF StartBatch, StartFails, NextCall
<1>2. pc' \in {"idle", "closed", "row"} /\ pos' \in 0 .. Len(wire)
  <2>1. CASE StartBatch
    BY <2>1 DEF StartBatch, Header, IInv, TypeOK
  <2>2. CASE StartFails
    BY <2>2 DEF StartFails, IInv, TypeOK
  <2>3. CASE NextCall
    BY <2>3 DEF NextCall, IInv, TypeOK
  <2>4. QED
    BY <2>1, <2>2, <2>3
<1>3. WriterOK(writer, Cell)'
  BY NewWriterType, ReaderAssumption
  DEF StartBatch, StartFails, NextCall, IInv, TypeOK
<1>4. TypeOK'
  BY <1>1, <1>2, <1>3, ReaderAssumption DEF IInv, TypeOK
<1>5. WriterInv'
  <2>1. CASE NextCall
    <3>1. writer' = NewWriter(BatchSize) /\ taken' = 0 /\ pc' = "row"
      BY <2>1 DEF NextCall
    <3>2. \A c \in Columns : Len(NewWriter(BatchSize).builders[c]) = 0
      BY DEF NewWriter, NoCells
    <3>3. \A c \in Columns : Filled(c)' = 0
      BY <3>1 DEF Filled
    <3>4. 0 <= pos'
      BY <1>2
    <3>5. /\ NewWriter(BatchSize).min_batch_size = BatchSize
          /\ NewWriter(BatchSize).data = <<>>
          /\ NewWriter(BatchSize).rows_reserved = 0
          /\ NewWriter(BatchSize).rows_capacity = 0
          /\ ~NewWriter(BatchSize).has_builders
      BY DEF NewWriter
    <3>6. QED
      BY <3>1, <3>2, <3>3, <3>4, <3>5 DEF WriterInv
  <2>2. CASE StartBatch \/ StartFails
    BY <2>2 DEF StartBatch, StartFails, WriterInv
  <2>3. QED
    BY <2>1, <2>2
<1>6. CursorInv' /\ OnlyCellsPanic'
  BY <1>2 DEF CursorInv, OnlyCellsPanic
<1>7. BatchesAligned'
  BY <1>1 DEF IInv, BatchesAligned, Batches
<1>8. QED
  BY <1>4, <1>5, <1>6, <1>7 DEF IInv

(* The writer after a row was reserved, for the first row and the others.  *)
LEMMA PrepareTaken ==
  ASSUME IInv, pc = "row", taken < BatchSize
  PROVE  LET p == PrepareForBatch(writer, 1)
         IN /\ p \in Writer(Cell)
            /\ p.result = "Ok"
            /\ p.min_batch_size = BatchSize
            /\ p.data = <<>>
            /\ p.next_col = 0
            /\ p.has_builders
            /\ p.builders = (IF taken = 0 THEN NoCells ELSE writer.builders)
            /\ p.rows_reserved = taken + 1
            /\ p.rows_capacity = BatchSize
<1>1. /\ writer \in Writer(Cell)
      /\ taken \in Nat
      /\ writer.min_batch_size = BatchSize
      /\ writer.data = <<>>
      /\ writer.rows_reserved = taken
      /\ writer.has_builders <=> taken > 0
      /\ writer.rows_capacity = IF taken = 0 THEN 0 ELSE BatchSize
  BY DEF IInv, TypeOK, WriterInv, WriterOK
<1>2. CASE taken = 0
  BY <1>1, <1>2, PrepareFirst
<1>3. CASE taken # 0
  <2>1. writer.has_builders
    BY <1>1, <1>3
  <2>2. writer.rows_reserved < writer.rows_capacity
    BY <1>1, <1>3
  <2>3. QED
    BY <1>1, <1>3, <2>1, <2>2, PrepareMore
<1>4. QED
  BY <1>2, <1>3

(* next_row() took a row, and prepare_for_batch(1) had room for it.        *)
LEMMA FetchRowInv ==
  ASSUME IInv, FetchRow
  PROVE  IInv'
<1> DEFINE p == PrepareForBatch(writer, 1)
<1>1. pc = "row" /\ taken < BatchSize /\ pos < Len(wire)
  BY DEF FetchRow, LoopHead
<1>2. /\ p \in Writer(Cell) /\ p.result = "Ok"
      /\ p.min_batch_size = BatchSize /\ p.data = <<>>
      /\ p.next_col = 0 /\ p.has_builders
      /\ p.builders = (IF taken = 0 THEN NoCells ELSE writer.builders)
      /\ p.rows_reserved = taken + 1 /\ p.rows_capacity = BatchSize
  BY <1>1, PrepareTaken
<1> HIDE DEF p
<1>3. /\ writer' = p
      /\ taken' = taken + 1
      /\ pos' = pos + 1
      /\ col' = 0
      /\ pc' = (IF ColCount = 0 THEN "row" ELSE "cells")
      /\ UNCHANGED <<backend, wire, out>>
  BY <1>2 DEF FetchRow, p
<1>4. taken \in Nat /\ pos \in Nat /\ Len(wire) \in Nat /\ BatchSize \in Nat
  BY ReaderAssumption DEF IInv, TypeOK
<1>5. TypeOK'
  <2>1. taken' \in 0 .. BatchSize /\ pos' \in 0 .. Len(wire')
    BY <1>1, <1>3, <1>4
  <2>2. WriterOK(writer', Cell)
    BY <1>1, <1>2, <1>3, <1>4 DEF WriterOK
  <2>3. QED
    BY <1>3, <2>1, <2>2, ColumnsAssumption DEF IInv, TypeOK
<1>6. WriterInv'
  <2>1. \A c \in Columns : Filled(c)' = taken
    BY <1>3, <1>4, ColumnsAssumption DEF Filled, Columns
  <2>2. \A c \in Columns :
          /\ Len(p.builders[c]) = taken
          /\ \A k \in 1 .. taken : p.builders[c][k] = CellAt(pos - taken + k, c)
    <3>1. CASE taken = 0
      BY <1>2, <3>1 DEF NoCells
    <3>2. CASE taken # 0
      <4>1. \A c \in Columns : Filled(c) = taken
        BY <1>1 DEF Filled
      <4>2. QED
        BY <1>1, <1>2, <3>2, <4>1 DEF IInv, WriterInv
    <3>3. QED
      BY <3>1, <3>2
  <2>3. pos' - taken' = pos - taken
    BY <1>3, <1>4
  <2>4. taken' <= pos'
    BY <1>1, <1>3, <1>4 DEF IInv, WriterInv
  <2>5. taken' > 0
    BY <1>3, <1>4
  <2>6. QED
    BY <1>2, <1>3, <1>4, <2>1, <2>2, <2>3, <2>4, <2>5 DEF WriterInv
<1>7. CursorInv'
  BY <1>2, <1>3, <1>4, ColumnsAssumption DEF CursorInv
<1>8. OnlyCellsPanic' /\ BatchesAligned'
  BY <1>3 DEF IInv, OnlyCellsPanic, BatchesAligned, Batches
<1>9. QED
  BY <1>5, <1>6, <1>7, <1>8 DEF IInv

(* next_row() returned Err: the call returns it and drops its writer.      *)
LEMMA ErrInv ==
  ASSUME IInv, FetchErr \/ CellErr
  PROVE  IInv'
<1>1. NoCells \in [Columns -> Seq(Cell)]
  BY DEF NoCells
<1>2. Return("err", NoCells) /\ UNCHANGED <<backend, wire, col>>
  BY DEF FetchErr, CellErr
<1>3. pos' \in 0 .. Len(wire) /\ col' \in 0 .. ColCount
  BY DEF FetchErr, CellErr, LoopHead, IInv, TypeOK
<1>4. QED
  BY <1>1, <1>2, <1>3, ReturnInv

(* A lost connection costs the call its rows, or is already in "out".      *)
LEMMA ConnectionLostInv ==
  ASSUME IInv, ConnectionLost
  PROVE  IInv'
<1>1. UNCHANGED <<backend, wire, pos, col>> /\ pos' \in 0 .. Len(wire) /\ col' \in 0 .. ColCount
  BY DEF ConnectionLost, IInv, TypeOK
<1>2. CASE Return("err", NoCells)
  <2>1. NoCells \in [Columns -> Seq(Cell)]
    BY DEF NoCells
  <2>2. QED
    BY <1>1, <1>2, <2>1, ReturnInv
<1>3. CASE pc' \in {"closed", "idle"} /\ UNCHANGED <<taken, writer, out>>
  BY <1>1, <1>3 DEF IInv, TypeOK, WriterInv, CursorInv, OnlyCellsPanic, BatchesAligned, Batches
<1>4. QED
  BY <1>2, <1>3 DEF ConnectionLost

(* A cell that does not convert unwinds out of next().                     *)
LEMMA CellPanicsInv ==
  ASSUME IInv, CellPanics
  PROVE  IInv'
<1>1. pc' = "panicked" /\ UNCHANGED <<backend, wire, pos, taken, col, writer, out>>
  BY DEF CellPanics, Panic
<1>2. pos > 0 /\ wire[pos] = "broken"
  BY ReaderAssumption DEF CellPanics, IInv, WriterInv, CursorInv, TypeOK
<1>3. TypeOK'
  BY <1>1 DEF IInv, TypeOK
<1>4. WriterInv' /\ CursorInv' /\ OnlyCellsPanic' /\ BatchesAligned'
  BY <1>1, <1>2 DEF IInv, WriterInv, CursorInv, OnlyCellsPanic, BatchesAligned, Batches
<1>5. QED
  BY <1>3, <1>4 DEF IInv

(* There is a builder for every cell of a row that was taken.              *)
LEMMA CellConsumed ==
  ASSUME IInv, pc = "cells"
  PROVE  Consume(writer, CellAt(pos, col)).result = "Ok"
<1>1. /\ writer \in Writer(Cell) /\ writer.has_builders
      /\ writer.next_col = col /\ col \in Columns /\ pos \in Nat
  BY ColumnsAssumption
  DEF IInv, TypeOK, WriterOK, WriterInv, CursorInv, Columns
<1>2. CellAt(pos, col) \in Cell
  BY <1>1 DEF Cell, CellAt
<1>3. QED
  BY <1>1, <1>2, ConsumeOk

(* transport() of one cell, and the step to the next column or row.        *)
LEMMA TransportCellInv ==
  ASSUME IInv, TransportCell
  PROVE  IInv'
<1> DEFINE cell == CellAt(pos, col)
           q == Consume(writer, cell)
<1>1. pc = "cells" /\ UNCHANGED <<backend, wire, pos>> /\ col' = col + 1
  BY DEF TransportCell
<1>2. /\ writer \in Writer(Cell)
      /\ writer.rows_reserved <= writer.rows_capacity
      /\ taken \in Nat /\ pos \in Nat /\ col \in Nat /\ taken > 0
      /\ col < ColCount /\ ColCount \in Nat
      /\ writer.next_col = col
      /\ writer.has_builders
      /\ writer.builders \in [Columns -> Seq(Cell)]
  BY <1>1, ColumnsAssumption
  DEF IInv, TypeOK, WriterOK, WriterInv, CursorInv, Writer
<1>3. col \in Columns
  BY <1>2 DEF Columns
<1>4. cell \in Cell
  BY <1>2, <1>3 DEF Cell, CellAt
<1>5. /\ q \in Writer(Cell)
      /\ q.result = "Ok"
      /\ q.min_batch_size = writer.min_batch_size
      /\ q.data = writer.data
      /\ q.next_col = NextColIndex(writer)
      /\ q.has_builders
      /\ \A c \in Columns :
           q.builders[c] = IF c = col THEN Append(writer.builders[c], cell)
                           ELSE writer.builders[c]
      /\ q.rows_reserved = writer.rows_reserved
      /\ q.rows_capacity = writer.rows_capacity
  BY <1>2, <1>3, <1>4, ConsumeOk
<1> HIDE DEF q
<1>6. /\ writer' = q
      /\ pc' = (IF col + 1 = ColCount THEN "row" ELSE "cells")
      /\ UNCHANGED <<taken, out>>
  BY <1>5 DEF TransportCell, q, CellAt
<1>7. TypeOK'
  <2>1. WriterOK(writer', Cell)
    BY <1>2, <1>5, <1>6 DEF WriterOK
  <2>2. col' \in 0 .. ColCount
    BY <1>1, <1>2
  <2>3. QED
    BY <1>1, <1>6, <2>1, <2>2 DEF IInv, TypeOK
<1>8. WriterInv'
  <2>1. \A c \in Columns :
          /\ Filled(c) = (IF c >= col THEN taken - 1 ELSE taken)
          /\ Filled(c)' = (IF c > col THEN taken - 1 ELSE taken)
    <3> SUFFICES ASSUME NEW c \in Columns
                 PROVE  /\ Filled(c) = (IF c >= col THEN taken - 1 ELSE taken)
                        /\ Filled(c)' = (IF c > col THEN taken - 1 ELSE taken)
      OBVIOUS
    <3>1. c \in Nat /\ c < ColCount
      BY <1>2 DEF Columns
    <3>2. Filled(c) = (IF c >= col THEN taken - 1 ELSE taken)
      BY <1>1 DEF Filled
    <3>3. Filled(c)' = (IF c > col THEN taken - 1 ELSE taken)
      BY <1>1, <1>2, <1>6, <3>1 DEF Filled
    <3>4. QED
      BY <3>2, <3>3
  <2>2. ASSUME NEW c \in Columns
        PROVE  /\ Len(q.builders[c]) = Filled(c)'
               /\ \A k \in 1 .. Filled(c)' : q.builders[c][k] = CellAt(pos - taken + k, c)
    <3>1. /\ Len(writer.builders[c]) = Filled(c)
          /\ \A k \in 1 .. Filled(c) :
               writer.builders[c][k] = CellAt(pos - taken + k, c)
      BY <1>1 DEF IInv, WriterInv
    <3>2. CASE c # col
      <4>1. q.builders[c] = writer.builders[c]
        BY <1>2, <1>5, <3>2
      <4>2. Filled(c)' = Filled(c)
        BY <1>2, <2>1, <3>2 DEF Columns
      <4>3. QED
        BY <3>1, <4>1, <4>2
    <3>3. CASE c = col
      <4>1. q.builders[c] = Append(writer.builders[c], cell)
        BY <1>2, <1>3, <1>5, <3>3
      <4>2. Filled(c) = taken - 1 /\ Filled(c)' = taken
        BY <1>2, <2>1, <3>3
      <4>3. cell = CellAt(pos - taken + taken, c)
        BY <1>2, <3>3
      <4>4. writer.builders[c] \in Seq(Cell)
        BY <1>2
      <4> HIDE DEF cell
      <4>5. Len(q.builders[c]) = taken
        BY <1>2, <3>1, <4>1, <4>2, <4>4
      <4>6. ASSUME NEW k \in 1 .. taken
            PROVE  q.builders[c][k] = CellAt(pos - taken + k, c)
        <5>1. CASE k = taken
          BY <1>2, <3>1, <4>1, <4>2, <4>3, <4>4, <5>1
        <5>2. CASE k # taken
          <6>1. k \in 1 .. Len(writer.builders[c])
            BY <1>2, <3>1, <4>2, <5>2
          <6>2. q.builders[c][k] = writer.builders[c][k]
            BY <4>1, <4>4, <6>1
          <6>3. QED
            BY <3>1, <6>1, <6>2
        <5>3. QED
          BY <5>1, <5>2
      <4>7. QED
        BY <4>2, <4>5, <4>6
    <3>4. QED
      BY <3>2, <3>3
  <2>3. /\ taken <= pos
        /\ q.min_batch_size = BatchSize
        /\ q.data = <<>>
        /\ q.rows_reserved = taken
        /\ q.rows_capacity = (IF taken = 0 THEN 0 ELSE BatchSize)
    BY <1>1, <1>5 DEF IInv, WriterInv
  <2>4. \A c \in Columns :
          /\ Len(q.builders[c]) = Filled(c)'
          /\ \A k \in 1 .. Filled(c)' : q.builders[c][k] = CellAt(pos - taken + k, c)
    BY <2>2
  <2>5. QED
    BY <1>1, <1>2, <1>5, <1>6, <2>3, <2>4 DEF WriterInv
<1>9. CursorInv'
  BY <1>1, <1>2, <1>5, <1>6 DEF CursorInv, NextColIndex
<1>10. OnlyCellsPanic' /\ BatchesAligned'
  BY <1>6 DEF IInv, OnlyCellsPanic, BatchesAligned, Batches
<1>11. QED
  BY <1>7, <1>8, <1>9, <1>10 DEF IInv

(* What finish has when the loop ends: nothing, the Err of a result        *)
(* without columns, or the one batch of the rows taken.                    *)
LEMMA FinishTaken ==
  ASSUME IInv, pc = "row"
  PROVE  \/ /\ taken = 0
            /\ Finish(writer).result = "Ok"
            /\ Finish(writer).data = <<>>
         \/ taken > 0 /\ ColCount = 0 /\ Finish(writer).result = "Err"
         \/ /\ taken > 0
            /\ Finish(writer).result = "Ok"
            /\ Finish(writer).data = <<writer.builders>>
            /\ writer.builders \in [Columns -> Seq(Cell)]
            /\ Aligned(writer.builders)
<1>1. /\ writer \in Writer(Cell)
      /\ taken \in 0 .. BatchSize /\ taken <= pos /\ pos \in Nat
      /\ writer.data = <<>>
      /\ writer.has_builders <=> taken > 0
      /\ writer.rows_reserved = taken
  BY DEF IInv, TypeOK, WriterOK, WriterInv
<1>2. \A c \in Columns :
        /\ Len(writer.builders[c]) = taken
        /\ \A k \in 1 .. taken : writer.builders[c][k] = CellAt(pos - taken + k, c)
  BY DEF IInv, WriterInv, Filled
<1>3. CASE taken = 0
  BY <1>1, <1>3, FinishNothing
<1>4. CASE taken # 0 /\ ColCount = 0
  <2>1. writer.has_builders
    BY <1>1, <1>4
  <2>2. taken > 0
    BY <1>1, <1>4
  <2>3. QED
    BY <1>1, <1>4, <2>1, <2>2, FinishNoColumns
<1>5. CASE taken # 0 /\ ColCount # 0
  <2>1. writer.has_builders /\ taken > 0 /\ ColCount > 0
    BY <1>1, <1>5, ColumnsAssumption
  <2>2. writer.builders \in [Columns -> Seq(Cell)]
    BY <1>1 DEF Writer
  <2>3. \A c \in Columns : DOMAIN writer.builders[c] = 1 .. taken
    BY <1>2, <2>2
  <2>4. ASSUME NEW c \in Columns, NEW k \in 1 .. taken
        PROVE  /\ writer.builders[c][k].row = pos - taken + k
               /\ writer.builders[c][k].col = c
               /\ ~writer.builders[c][k].null
    <3>1. writer.builders[c][k] = CellAt(pos - taken + k, c)
      BY <1>2
    <3>2. QED
      BY <3>1 DEF CellAt
  <2>5. \A c \in Columns : \A k \in DOMAIN writer.builders[c] : ~writer.builders[c][k].null
    BY <2>3, <2>4
  <2>6. /\ Finish(writer).result = "Ok"
        /\ Finish(writer).data = <<writer.builders>>
    BY <1>1, <1>2, <2>1, <2>5, FinishFull
  <2>7. Aligned(writer.builders)
    <3>1. 0 \in Columns /\ Len(writer.builders[0]) = taken
      BY <1>2, <2>1, ColumnsAssumption DEF Columns
    <3>2. taken \in 1 .. BatchSize
      BY <1>1, <1>5
    <3>3. 1 \in 1 .. taken /\ writer.builders[0][1].row = pos - taken + 1
      BY <2>4, <3>1, <3>2
    <3>4. \A c \in Columns : \A k \in DOMAIN writer.builders[c] :
            /\ writer.builders[c][k].row = (pos - taken + 1) + k - 1
            /\ writer.builders[c][k].col = c
      <4> SUFFICES ASSUME NEW c \in Columns, NEW k \in 1 .. taken
                   PROVE  /\ writer.builders[c][k].row = (pos - taken + 1) + k - 1
                          /\ writer.builders[c][k].col = c
        BY <2>3
      <4>1. pos - taken + k = (pos - taken + 1) + k - 1
        BY <1>1
      <4>2. QED
        BY <2>4, <4>1
    <3>5. QED
      BY <1>2, <2>1, <3>1, <3>2, <3>3, <3>4 DEF Aligned
  <2>8. QED
    BY <2>1, <2>2, <2>6, <2>7
<1>6. QED
  BY <1>3, <1>4, <1>5

(* The end of the loop: finish() and what next() returns of it.            *)
LEMMA FinishBatchInv ==
  ASSUME IInv, FinishBatch
  PROVE  IInv'
<1>1. pc = "row" /\ UNCHANGED <<backend, wire, pos, col>>
  BY DEF FinishBatch
<1>2. pos' \in 0 .. Len(wire) /\ col' \in 0 .. ColCount
  BY <1>1 DEF IInv, TypeOK
<1>3. NoCells \in [Columns -> Seq(Cell)]
  BY DEF NoCells
<1>4. \/ Return("err", NoCells)
      \/ Return("end", NoCells)
      \/ /\ Return("batch", writer.builders)
         /\ writer.builders \in [Columns -> Seq(Cell)]
         /\ Aligned(writer.builders)
  <2>1. CASE Finish(writer).result = "Err"
    BY <2>1 DEF FinishBatch
  <2>2. CASE Finish(writer).result = "Ok" /\ Finish(writer).data = <<>>
    BY <2>2 DEF FinishBatch
  <2>3. CASE /\ Finish(writer).result = "Ok"
             /\ Finish(writer).data = <<writer.builders>>
             /\ writer.builders \in [Columns -> Seq(Cell)]
             /\ Aligned(writer.builders)
    <3>1. Len(Finish(writer).data) = 1 /\ Finish(writer).data[1] = writer.builders
      BY <2>3
    <3>2. Finish(writer).data # <<>>
      BY <2>3
    <3>3. QED
      BY <2>3, <3>1, <3>2 DEF FinishBatch
  <2>4. QED
    BY <1>1, <2>1, <2>2, <2>3, FinishTaken
<1>5. QED
  BY <1>1, <1>2, <1>3, <1>4, ReturnInv

-----------------------------------------------------------------------------
(* Every step of a reader keeps the invariant.                             *)
LEMMA NextInv == IInv /\ [Next]_vars => IInv'
<1> SUFFICES ASSUME IInv, [Next]_vars PROVE IInv'
  OBVIOUS
<1>1. CASE StartBatch \/ StartFails \/ NextCall
  BY <1>1, StartInv
<1>2. CASE FetchRow
  BY <1>2, FetchRowInv
<1>3. CASE FetchErr \/ CellErr
  BY <1>3, ErrInv
<1>4. CASE TransportCell
  BY <1>4, TransportCellInv
<1>5. CASE CellPanics
  BY <1>5, CellPanicsInv
<1>6. CASE FinishBatch
  BY <1>6, FinishBatchInv
<1>7. CASE ConnectionLost
  BY <1>7, ConnectionLostInv
<1>8. CASE UNCHANGED vars
  BY <1>8 DEF vars, IInv, TypeOK, WriterInv, CursorInv, Filled, OnlyCellsPanic,
              BatchesAligned, Batches
<1>9. QED
  BY <1>1, <1>2, <1>3, <1>4, <1>5, <1>6, <1>7, <1>8 DEF Next

(* The readers keep the invariant, whatever the result they read.          *)
THEOREM Invariance == Spec => []IInv
<1>1. QED
  BY InitInv, NextInv, PTL DEF Spec

(* The reader's state stays well-typed: in particular a call never takes   *)
(* more than BatchSize rows.                                               *)
THEOREM TypeCorrect == Spec => []TypeOK
<1>1. IInv => TypeOK
  BY DEF IInv
<1>2. QED
  BY <1>1, Invariance, PTL

(* row_collect.rs:34 and the unwraps of the writer never panic, whatever   *)
(* the batch size, the schema and the result: only a cell does.            *)
THEOREM PanicsOnlyAtCells == Spec => []OnlyCellsPanic
<1>1. IInv => OnlyCellsPanic
  BY DEF IInv
<1>2. QED
  BY <1>1, Invariance, PTL

(* Every batch of every call holds consecutive rows, each cell in its row  *)
(* and under its column.                                                   *)
THEOREM BatchesAreAligned == Spec => []BatchesAligned
<1>1. IInv => BatchesAligned
  BY DEF IInv
<1>2. QED
  BY <1>1, Invariance, PTL

-----------------------------------------------------------------------------
(* What the calls return, taken together.  The items up to Base are those  *)
(* of the calls that have returned; the rest of the wire is still to come. *)
Base == pos - taken

Started == pc \in {"idle", "row", "cells"}

(* Between two calls no row is held, and the header is not a row.          *)
ProgressInv ==
  /\ pc = "start" => pos = 0 /\ taken = 0 /\ out = <<>>
  /\ pc \in {"idle", "closed"} => taken = 0
  /\ Started => Header <= Base

(* The end is returned once.                                               *)
EndInv == \A j \in DOMAIN out : out[j].kind = "end" => pc = "closed"

(* The rows taken by the current call have been converted, but for the one *)
(* whose cells are being transported.                                      *)
ConvertedInv ==
  pc \in {"row", "cells"} /\ ColCount > 0 =>
    \A n \in Base + 1 .. pos : n < pos \/ pc = "row" => wire[n] = "row"

(* After a short batch there is nothing left to read.                      *)
ShortInv ==
  \A i \in Batches :
    Len(out[i].batch[0]) < BatchSize =>
      pc \in {"idle", "row", "closed"} /\ taken = 0 /\ pos = Len(wire)

Covered(n) == \E i \in Batches : \E k \in DOMAIN out[i].batch[0] : out[i].batch[0][k].row = n

(* As long as the calls return batches, these are all the rows up to Base, *)
(* one batch after the other.                                              *)
CompleteInv ==
  Started /\ (\A i \in DOMAIN out : out[i].kind = "batch") =>
    /\ \A n \in Header + 1 .. Base : wire[n] = "row" /\ Covered(n)
    /\ \A i \in DOMAIN out : First(i) = IF i = 1 THEN Header + 1 ELSE Last(i - 1) + 1
    /\ out = <<>> => Base = Header
    /\ \A i \in DOMAIN out : i = Len(out) => Base = Last(i)

(* Every Err since the last batch has cost at most BatchSize items.        *)
LossInv ==
  Started =>
    \A i \in Batches :
      (\A m \in i + 1 .. Len(out) : out[m].kind = "err") =>
        Base - Last(i) <= BatchSize * (Len(out) - i)

DInv ==
  /\ IInv
  /\ ProgressInv /\ EndInv /\ ConvertedInv
  /\ ShortInv /\ CompleteInv /\ LossInv
  /\ ShortBatchIsLast /\ EndMeansComplete /\ LossBounded

-----------------------------------------------------------------------------
(* A call of next() returns in one of three ways.                          *)
Fails ==
  /\ Return("err", NoCells) /\ UNCHANGED <<backend, wire>>
  /\ pc \in {"row", "cells"}
  /\ pos <= pos' /\ pos' <= Len(wire) /\ pos' <= Base + BatchSize
  /\ pc = "row" => taken > 0 \/ pos < Len(wire)

Delivers ==
  /\ Return("batch", writer.builders) /\ UNCHANGED <<backend, wire, pos>>
  /\ pc = "row" /\ ColCount > 0 /\ taken > 0
  /\ taken = BatchSize \/ pos = Len(wire)

Ends ==
  /\ Return("end", NoCells) /\ UNCHANGED <<backend, wire, pos>>
  /\ pc = "row" /\ taken = 0 /\ pos = Len(wire)

(* A repeated Err of a lost connection, which "out" does not repeat.       *)
LostAgain ==
  /\ pc = "row" /\ taken = 0 /\ pc' \in {"idle", "closed"}
  /\ UNCHANGED <<backend, wire, pos, taken, out>>

LEMMA LostReturns ==
  ASSUME DInv, ConnectionLost
  PROVE  Fails \/ LostAgain
<1>1. /\ pos \in Nat /\ taken \in Nat /\ Len(wire) \in Nat
      /\ taken <= BatchSize /\ BatchSize \in Nat \ {0}
  BY ReaderAssumption DEF DInv, IInv, TypeOK
<1>2. pc = "row" /\ pos < Len(wire) /\ UNCHANGED <<backend, wire, pos>>
  BY DEF ConnectionLost, LoopHead
<1>3. CASE Return("err", NoCells)
  BY <1>1, <1>2, <1>3 DEF Fails, Base
<1>4. CASE taken = 0 /\ pc' \in {"closed", "idle"} /\ UNCHANGED <<taken, writer, out>>
  BY <1>2, <1>4 DEF LostAgain
<1>5. QED
  BY <1>3, <1>4 DEF ConnectionLost

LEMMA CallReturns ==
  ASSUME DInv, FetchErr \/ CellErr \/ FinishBatch
  PROVE  Fails \/ Delivers \/ Ends
<1>1. /\ pos \in Nat /\ taken \in Nat /\ Len(wire) \in Nat /\ pos <= Len(wire)
      /\ taken <= BatchSize /\ taken <= pos /\ BatchSize \in Nat \ {0}
  BY ReaderAssumption
  DEF FetchErr, LoopHead, CellErr, FinishBatch, DInv, IInv, TypeOK, WriterInv
<1>2. CASE FetchErr
  <2>1. /\ Return("err", NoCells) /\ UNCHANGED <<backend, wire>>
        /\ pc = "row" /\ taken < BatchSize /\ pos < Len(wire) /\ pos' = pos + 1
    BY <1>2 DEF FetchErr, LoopHead
  <2>2. QED
    BY <1>1, <2>1 DEF Fails, Base
<1>3. CASE CellErr
  BY <1>1, <1>3 DEF CellErr, Fails, Base
<1>4. CASE FinishBatch
  <2>1. /\ pc = "row" /\ UNCHANGED <<backend, wire, pos>>
        /\ taken = BatchSize \/ pos = Len(wire)
    BY <1>4 DEF FinishBatch
  <2>2. CASE taken = 0 /\ Finish(writer).result = "Ok" /\ Finish(writer).data = <<>>
    <3>1. Return("end", NoCells)
      BY <1>4, <2>2 DEF FinishBatch
    <3>2. QED
      BY <1>1, <2>1, <2>2, <3>1 DEF Ends
  <2>3. CASE taken > 0 /\ ColCount = 0 /\ Finish(writer).result = "Err"
    <3>1. Return("err", NoCells)
      BY <1>4, <2>3 DEF FinishBatch
    <3>2. QED
      BY <1>1, <2>1, <2>3, <3>1 DEF Fails, Base
  <2>4. CASE /\ taken > 0 /\ Finish(writer).result = "Ok"
             /\ Finish(writer).data = <<writer.builders>>
             /\ Aligned(writer.builders)
    <3>1. Len(Finish(writer).data) = 1 /\ Finish(writer).data[1] = writer.builders
      BY <2>4
    <3>2. Finish(writer).data # <<>>
      BY <2>4
    <3>3. Return("batch", writer.builders)
      BY <1>4, <2>4, <3>1, <3>2 DEF FinishBatch
    <3>4. QED
      BY <2>1, <2>4, <3>3 DEF Delivers, Aligned
  <2>5. QED
    BY <2>1, <2>2, <2>3, <2>4, FinishTaken DEF DInv
<1>5. QED
  BY <1>2, <1>3, <1>4

(* The batch a call returns holds the rows it has taken.                   *)
LEMMA DeliveredRows ==
  ASSUME IInv, Delivers
  PROVE  /\ writer.builders \in [Columns -> Seq(Cell)]
         /\ 0 \in Columns
         /\ DOMAIN writer.builders[0] = 1 .. taken /\ Len(writer.builders[0]) = taken
         /\ \A k \in 1 .. taken : writer.builders[0][k].row = Base + k
<1>1. pc = "row" /\ ColCount > 0 /\ taken \in Nat
  BY DEF Delivers, IInv, TypeOK
<1>2. writer.builders \in [Columns -> Seq(Cell)]
  BY DEF IInv, TypeOK, WriterOK, Writer
<1>3. 0 \in Columns
  BY <1>1, ColumnsAssumption DEF Columns
<1>4. /\ Len(writer.builders[0]) = taken
      /\ \A k \in 1 .. taken : writer.builders[0][k] = CellAt(pos - taken + k, 0)
  BY <1>1, <1>3 DEF IInv, WriterInv, Filled
<1>5. DOMAIN writer.builders[0] = 1 .. taken
  BY <1>2, <1>3, <1>4
<1>6. ASSUME NEW k \in 1 .. taken PROVE writer.builders[0][k].row = Base + k
  <2>1. writer.builders[0][k] = CellAt(pos - taken + k, 0)
    BY <1>4
  <2>2. QED
    BY <2>1 DEF CellAt, Base
<1>7. QED
  BY <1>2, <1>3, <1>4, <1>5, <1>6

(* What a call returns is added to the results, which stay as they were.   *)
LEMMA ReturnAppends ==
  ASSUME IInv, NEW kind \in {"batch", "err", "end"},
         NEW batch \in [Columns -> Seq(Cell)], Return(kind, batch)
  PROVE  LET n == Len(out) + 1
         IN /\ Len(out) \in Nat /\ DOMAIN out = 1 .. Len(out)
            /\ Len(out') = n /\ DOMAIN out' = 1 .. n
            /\ out'[n].kind = kind /\ out'[n].batch = batch
            /\ \A i \in 1 .. Len(out) : out'[i] = out[i]
            /\ Batches' = IF kind = "batch" THEN Batches \cup {n} ELSE Batches
            /\ taken' = 0
<1> DEFINE n == Len(out) + 1
           r == [kind |-> kind, batch |-> batch]
<1>1. r \in Result /\ r.kind = kind /\ r.batch = batch
  BY DEF Result
<1>2. out \in Seq(Result) /\ out' = Append(out, r) /\ taken' = 0
  BY DEF Return, IInv, TypeOK
<1> HIDE DEF r
<1>3. /\ Len(out) \in Nat /\ DOMAIN out = 1 .. Len(out)
      /\ Len(out') = n /\ DOMAIN out' = 1 .. n
      /\ out'[n] = r
      /\ \A i \in 1 .. Len(out) : out'[i] = out[i]
  BY <1>1, <1>2
<1>4. Batches' = IF kind = "batch" THEN Batches \cup {n} ELSE Batches
  <2>1. \A i \in 1 .. n : i \in Batches' <=> out'[i].kind = "batch"
    BY <1>3 DEF Batches
  <2>2. \A i \in 1 .. Len(out) : i \in Batches <=> i \in Batches'
    BY <1>3, <2>1 DEF Batches
  <2>3. Batches \subseteq 1 .. Len(out) /\ Batches' \subseteq 1 .. n
    BY <1>3 DEF Batches
  <2>4. \A i \in 1 .. n : i \in 1 .. Len(out) \/ i = n
    BY <1>3
  <2>5. n \in Batches' <=> kind = "batch"
    BY <1>1, <1>3, <2>1
  <2>6. n \notin Batches
    BY <1>3, <2>3
  <2>7. CASE kind = "batch"
    BY <2>2, <2>3, <2>4, <2>5, <2>7
  <2>8. CASE kind # "batch"
    <3>1. ASSUME NEW i \in Batches' PROVE i \in Batches
      <4>1. i \in 1 .. n /\ i # n
        BY <2>3, <2>5, <2>8, <3>1
      <4>2. QED
        BY <2>2, <2>4, <3>1, <4>1
    <3>2. Batches \subseteq Batches'
      BY <2>2, <2>3
    <3>3. QED
      BY <2>8, <3>1, <3>2
  <2>9. QED
    BY <2>7, <2>8
<1>5. QED
  BY <1>1, <1>2, <1>3, <1>4

(* A batch among the results has a first row and a last row.               *)
LEMMA BatchBounds ==
  ASSUME IInv, NEW i \in Batches
  PROVE  /\ i \in 1 .. Len(out) /\ i \in DOMAIN out /\ out[i].kind = "batch"
         /\ First(i) \in Nat /\ Last(i) \in Nat /\ First(i) <= Last(i)
<1>1. out \in Seq(Result) /\ i \in DOMAIN out /\ out[i].kind = "batch"
  BY DEF IInv, TypeOK, Batches
<1>2. Aligned(out[i].batch) /\ i \in 1 .. Len(out)
  BY <1>1 DEF IInv, BatchesAligned, Batches
<1> DEFINE column == out[i].batch[0]
<1>3. 0 \in Columns /\ column \in Seq(Cell)
  <2>1. 0 \in Columns
    BY <1>2, ColumnsAssumption DEF Aligned, Columns
  <2>2. out[i].batch \in [Columns -> Seq(Cell)]
    <3>1. out[i] \in Result
      BY <1>1
    <3>2. QED
      BY <3>1 DEF Result
  <2>3. QED
    BY <2>1, <2>2
<1>4. Len(column) \in Nat /\ Len(column) >= 1
  BY <1>2, <1>3 DEF Aligned
<1>5. column[1] \in Cell /\ column[1].row \in Nat
  <2> HIDE DEF column
  <2>1. column[1] \in Cell
    BY <1>3, <1>4
  <2>2. QED
    BY <2>1 DEF Cell
<1>6. column[Len(column)].row = column[1].row + Len(column) - 1
  <2>1. Len(column) \in DOMAIN column
    BY <1>3, <1>4
  <2>2. QED
    BY <1>2, <1>3, <2>1 DEF Aligned
<1>7. First(i) \in Nat /\ Last(i) \in Nat /\ First(i) <= Last(i)
  <2> HIDE DEF column
  <2>1. First(i) = column[1].row /\ Last(i) = column[Len(column)].row
    BY DEF First, Last, column
  <2>2. QED
    BY <1>4, <1>5, <1>6, <2>1
<1>8. QED
  BY <1>1, <1>2, <1>7

(* Earlier results do not change.                                          *)
LEMMA ResultKept ==
  ASSUME NEW i, out'[i] = out[i]
  PROVE  UNCHANGED <<RowsOf(i), First(i), Last(i)>>
  BY DEF RowsOf, First, Last

-----------------------------------------------------------------------------
(* Steps within a call, and the beginnings of a result and of a call.      *)
Works ==
  /\ UNCHANGED <<backend, wire, out>>
  /\ \/ pc = "start" /\ pc' = "idle" /\ pos' = Header /\ taken' = taken
     \/ pc = "start" /\ pc' = "closed" /\ UNCHANGED <<pos, taken>>
     \/ pc = "idle" /\ pc' = "row" /\ pos' = pos /\ taken' = 0
     \/ /\ pc = "row" /\ pos < Len(wire) /\ taken < BatchSize
        /\ pc' = (IF ColCount = 0 THEN "row" ELSE "cells")
        /\ pos' = pos + 1 /\ taken' = taken + 1
     \/ /\ pc = "cells" /\ pc' \in {"row", "cells"} /\ UNCHANGED <<pos, taken>>
        /\ pc' = "row" => wire[pos] = "row"
     \/ pc = "cells" /\ pc' = "panicked" /\ UNCHANGED <<pos, taken>>
     \/ pc = "row" /\ taken = 0 /\ pc' \in {"idle", "closed"} /\ UNCHANGED <<pos, taken>>

LEMMA StepKinds ==
  ASSUME DInv, Next
  PROVE  Works \/ Fails \/ Delivers \/ Ends
<1>1. CASE StartBatch \/ StartFails
  BY <1>1 DEF StartBatch, StartFails, Works
<1>2. CASE NextCall
  BY <1>2 DEF NextCall, Works
<1>3. CASE FetchRow
  <2>1. /\ pc = "row" /\ pos < Len(wire) /\ taken < BatchSize
        /\ PrepareForBatch(writer, 1).result = "Ok"
    BY <1>3, PrepareTaken DEF FetchRow, LoopHead, DInv
  <2>2. QED
    BY <1>3, <2>1 DEF FetchRow, Works
<1>4. CASE TransportCell
  <2>1. Consume(writer, CellAt(pos, col)).result = "Ok"
    BY <1>4, CellConsumed DEF TransportCell, DInv
  <2>2. /\ pc = "cells" /\ UNCHANGED <<backend, wire, pos, taken, out>>
        /\ wire[pos] = "row" \/ col + 1 < ColCount
        /\ pc' = IF col + 1 = ColCount THEN "row" ELSE "cells"
    BY <1>4, <2>1 DEF TransportCell, CellAt
  <2>3. col \in Nat /\ ColCount \in Nat
    BY ColumnsAssumption DEF DInv, IInv, TypeOK
  <2>4. QED
    BY <2>2, <2>3 DEF Works
<1>5. CASE CellPanics
  BY <1>5 DEF CellPanics, Panic, Works
<1>6. CASE FetchErr \/ CellErr \/ FinishBatch
  BY <1>6, CallReturns
<1>7. CASE ConnectionLost
  BY <1>7, LostReturns DEF LostAgain, Works
<1>8. QED
  BY <1>1, <1>2, <1>3, <1>4, <1>5, <1>6, <1>7 DEF Next

LEMMA ProgressTypes ==
  ASSUME DInv
  PROVE  /\ pos \in Nat /\ taken \in Nat /\ Len(wire) \in Nat /\ BatchSize \in Nat \ {0}
         /\ taken <= BatchSize /\ pos <= Len(wire)
         /\ Header \in Nat /\ Base \in Int /\ Base = pos - taken
         /\ Started => Base \in Nat /\ Header <= Base
<1>1. /\ pos \in Nat /\ taken \in Nat /\ Len(wire) \in Nat /\ BatchSize \in Nat \ {0}
      /\ taken <= BatchSize /\ pos <= Len(wire)
  BY ReaderAssumption DEF DInv, IInv, TypeOK
<1>2. Header \in Nat
  BY DEF Header
<1>3. Base \in Int /\ Base = pos - taken
  BY <1>1 DEF Base
<1>4. Started => Header <= Base
  BY DEF DInv, ProgressInv
<1>5. QED
  BY <1>1, <1>2, <1>3, <1>4

LEMMA ResultsSame ==
  ASSUME UNCHANGED <<backend, out>>
  PROVE  /\ UNCHANGED <<Header, Batches>>
         /\ \A i : UNCHANGED <<First(i), Last(i), RowsOf(i)>>
  BY DEF Header, Batches, First, Last, RowsOf

(* What was true of the results stays true while none is added.            *)
LEMMA ResultsKept ==
  ASSUME DInv, UNCHANGED <<backend, wire, out>>
  PROVE  ShortBatchIsLast' /\ EndMeansComplete' /\ LossBounded'
<1>1. ShortBatchIsLast'
  BY DEF DInv, ShortBatchIsLast, Batches
<1>2. EndMeansComplete'
  BY ResultsSame DEF DInv, EndMeansComplete
<1>3. LossBounded'
  BY DEF DInv, LossBounded, Batches, First, Last
<1>4. QED
  BY <1>1, <1>2, <1>3

LEMMA WorksInv ==
  ASSUME DInv, Works, IInv'
  PROVE  DInv'
<1> USE ProgressTypes
<1>1. /\ UNCHANGED <<backend, wire, out>> /\ UNCHANGED Header /\ UNCHANGED Batches
      /\ pos' \in Nat /\ taken' \in Nat /\ Base' = pos' - taken'
  BY DEF Works, Header, Batches, Base, IInv, TypeOK
<1>2. pc \in {"idle", "row", "cells"} => taken' <= pos' /\ Base' = Base
  BY <1>1 DEF Works, Base, DInv, ProgressInv, Started
<1>3. pc = "start" => out = <<>> /\ Batches = {} /\ taken = 0 /\ pos = 0
  BY DEF DInv, ProgressInv, Batches
<1>4. ProgressInv'
  <2>1. CASE pc = "start"
    <3>1. \/ pc' = "idle" /\ pos' = Header /\ taken' = 0
          \/ pc' = "closed" /\ taken' = 0
      BY <1>3, <2>1 DEF Works
    <3>2. QED
      BY <1>1, <3>1 DEF ProgressInv, Started
  <2>2. CASE pc # "start"
    <3>1. /\ pc \in {"idle", "row", "cells"}
          /\ pc' \in {"idle", "closed"} => taken' = 0
          /\ pc' \in {"idle", "row", "cells", "closed", "panicked"}
      BY <2>2 DEF Works
    <3>2. Header' <= Base'
      BY <1>1, <1>2, <3>1 DEF Started
    <3>3. QED
      BY <3>1, <3>2 DEF ProgressInv
  <2>3. QED
    BY <2>1, <2>2
<1>5. EndInv'
  BY <1>1 DEF Works, DInv, EndInv
<1>6. ConvertedInv'
  <2> SUFFICES ASSUME pc' \in {"row", "cells"}, ColCount > 0,
                      NEW n \in Base' + 1 .. pos', n < pos' \/ pc' = "row"
               PROVE  wire[n] = "row"
    BY <1>1 DEF ConvertedInv
  <2>1. CASE pc = "idle"
    BY <1>1, <2>1 DEF Works
  <2>2. CASE pc = "row"
    <3>1. pos' = pos + 1 /\ pc' = "cells" /\ Base' = Base
      BY <1>2, <2>2 DEF Works
    <3>2. n \in Base + 1 .. pos
      BY <3>1
    <3>3. QED
      BY <2>2, <3>2 DEF DInv, ConvertedInv
  <2>3. CASE pc = "cells"
    <3>1. pos' = pos /\ Base' = Base /\ (pc' = "row" => wire[pos] = "row")
      BY <1>2, <2>3 DEF Works
    <3>2. n \in Base + 1 .. pos /\ (n < pos \/ n = pos)
      BY <3>1
    <3>3. CASE n < pos
      BY <2>3, <3>2, <3>3 DEF DInv, ConvertedInv
    <3>4. CASE n = pos
      BY <3>1, <3>4
    <3>5. QED
      BY <3>2, <3>3, <3>4
  <2>4. QED
    BY <2>1, <2>2, <2>3 DEF Works
<1>7. ShortInv'
  <2> SUFFICES ASSUME NEW i \in Batches, Len(out[i].batch[0]) < BatchSize
               PROVE  pc' \in {"idle", "row", "closed"} /\ taken' = 0 /\ pos' = Len(wire)
    BY <1>1 DEF ShortInv
  <2>1. pc \in {"idle", "row", "closed"} /\ taken = 0 /\ pos = Len(wire)
    BY DEF DInv, ShortInv
  <2>2. QED
    BY <2>1 DEF Works
<1>8. CompleteInv'
  <2>1. CASE pc = "start"
    <3>1. CASE pc' = "idle"
      <4>1. Base' = Header /\ out' = <<>> /\ DOMAIN out' = {}
        BY <1>1, <1>3, <2>1, <3>1 DEF Works
      <4>2. Header + 1 .. Header = {}
        OBVIOUS
      <4>3. QED
        BY <1>1, <4>1, <4>2 DEF CompleteInv
    <3>2. CASE pc' = "closed"
      BY <3>2 DEF CompleteInv, Started
    <3>3. QED
      BY <2>1, <3>1, <3>2 DEF Works
  <2>2. CASE pc # "start"
    <3>1. pc \in {"idle", "row", "cells"}
      BY <2>2 DEF Works
    <3>2. Base' = Base /\ Started
      BY <1>2, <3>1 DEF Started
    <3>3. QED
      <4> SUFFICES ASSUME Started', \A i \in DOMAIN out : out[i].kind = "batch"
                   PROVE  CompleteInv'
        BY <1>1 DEF CompleteInv
      <4>1. \A n \in Header + 1 .. Base : wire[n] = "row" /\ Covered(n)
        BY <3>2 DEF DInv, CompleteInv
      <4>2. \A i \in DOMAIN out : First(i) = IF i = 1 THEN Header + 1 ELSE Last(i - 1) + 1
        BY <3>2 DEF DInv, CompleteInv
      <4>3. /\ out = <<>> => Base = Header
            /\ \A i \in DOMAIN out : i = Len(out) => Base = Last(i)
        BY <3>2 DEF DInv, CompleteInv
      <4>4. (\A i \in DOMAIN out : First(i) = IF i = 1 THEN Header + 1 ELSE Last(i - 1) + 1)'
        BY <1>1, <4>2, ResultsSame
      <4>5. (\A n \in Header + 1 .. Base : wire[n] = "row" /\ Covered(n))'
        <5>1. \A n : Covered(n)' <=> Covered(n)
          BY <1>1 DEF Covered
        <5>2. QED
          BY <1>1, <3>2, <4>1, <5>1
      <4>6. (/\ out = <<>> => Base = Header
             /\ \A i \in DOMAIN out : i = Len(out) => Base = Last(i))'
        BY <1>1, <3>2, <4>3, ResultsSame
      <4>7. QED
        BY <4>4, <4>5, <4>6 DEF CompleteInv
  <2>3. QED
    BY <2>1, <2>2
<1>9. LossInv'
  <2>1. CASE pc = "start"
    BY <1>1, <1>3, <2>1 DEF LossInv
  <2>2. CASE pc # "start"
    <3>1. pc \in {"idle", "row", "cells"}
      BY <2>2 DEF Works
    <3>2. Base' = Base /\ Started
      BY <1>2, <3>1 DEF Started
    <3>3. QED
      BY <1>1, <3>2 DEF DInv, LossInv, Last
  <2>3. QED
    BY <2>1, <2>2
<1>10. QED
  BY <1>1, <1>4, <1>5, <1>6, <1>7, <1>8, <1>9, ResultsKept DEF DInv

(* A call has not returned the end, nor a short batch, if it has rows.     *)
LEMMA NotEnded ==
  ASSUME DInv, pc \in {"row", "cells"}
  PROVE  /\ \A i \in DOMAIN out : out[i].kind # "end"
         /\ taken > 0 \/ pos < Len(wire) =>
              \A i \in Batches : ~(Len(out[i].batch[0]) < BatchSize)
<1>1. \A i \in DOMAIN out : out[i].kind # "end"
  BY DEF DInv, EndInv
<1>2. ASSUME taken > 0 \/ pos < Len(wire), NEW i \in Batches
      PROVE  ~(Len(out[i].batch[0]) < BatchSize)
  <2>1. ~(taken = 0 /\ pos = Len(wire))
    BY <1>2, ProgressTypes
  <2>2. QED
    BY <2>1 DEF DInv, ShortInv
<1>3. QED
  BY <1>1, <1>2

LEMMA FailsInv ==
  ASSUME DInv, Fails, IInv'
  PROVE  DInv'
<1> USE ProgressTypes
<1> DEFINE n == Len(out) + 1
<1>1. /\ Len(out) \in Nat /\ DOMAIN out = 1 .. Len(out)
      /\ Len(out') = n /\ DOMAIN out' = 1 .. n
      /\ out'[n].kind = "err"
      /\ \A i \in 1 .. Len(out) : out'[i] = out[i]
      /\ Batches' = Batches /\ taken' = 0
  <2>1. NoCells \in [Columns -> Seq(Cell)] /\ "err" \in {"batch", "err", "end"}
    BY DEF NoCells
  <2>2. Return("err", NoCells)
    BY DEF Fails
  <2>3. QED
    BY <2>1, <2>2, ReturnAppends DEF DInv
<1>2. /\ UNCHANGED <<backend, wire, Header>> /\ pc \in {"row", "cells"} /\ Started
      /\ pc' \in {"idle", "closed"}
      /\ pos' \in Nat /\ pos <= pos' /\ pos' <= Base + BatchSize
      /\ Base' = pos'
  BY <1>1 DEF Fails, Return, Header, Started, Base, DInv, IInv, TypeOK
<1>3. \A i \in DOMAIN out : out[i].kind # "end"
  BY <1>2, NotEnded
<1>4. \A i \in Batches : ~(Len(out[i].batch[0]) < BatchSize)
  <2>1. taken > 0 \/ pos < Len(wire)
    BY DEF Fails, DInv, CursorInv, IInv
  <2>2. QED
    BY <1>2, <2>1, NotEnded
<1>5. \A i \in Batches : /\ i \in 1 .. Len(out) /\ out'[i] = out[i]
                         /\ First(i) \in Nat /\ Last(i) \in Nat
                         /\ First(i)' = First(i) /\ Last(i)' = Last(i)
  BY <1>1, BatchBounds, ResultKept DEF DInv
<1>6. ProgressInv' /\ ConvertedInv'
  BY <1>1, <1>2 DEF ProgressInv, ConvertedInv, Started
<1>7. \A j \in DOMAIN out' : out'[j].kind # "end"
  <2> SUFFICES ASSUME NEW j \in 1 .. n PROVE out'[j].kind # "end"
    BY <1>1
  <2>1. j \in 1 .. Len(out) \/ j = n
    BY <1>1
  <2>2. QED
    BY <1>1, <1>3, <2>1
<1>8. EndInv' /\ EndMeansComplete'
  BY <1>7 DEF EndInv, EndMeansComplete
<1>9. ShortInv' /\ ShortBatchIsLast'
  BY <1>1, <1>2, <1>4, <1>5 DEF ShortInv, ShortBatchIsLast
<1>10. CompleteInv'
  <2>1. n \in DOMAIN out' /\ out'[n].kind # "batch"
    BY <1>1
  <2>2. QED
    BY <2>1 DEF CompleteInv
<1>11. LossInv'
  <2> SUFFICES ASSUME NEW i \in Batches, \A m \in i + 1 .. n : out'[m].kind = "err"
               PROVE  Base' - Last(i) <= BatchSize * (n - i)
    BY <1>1, <1>5 DEF LossInv
  <2>1. \A m \in i + 1 .. Len(out) : out[m].kind = "err"
    <3> SUFFICES ASSUME NEW m \in i + 1 .. Len(out) PROVE out[m].kind = "err"
      OBVIOUS
    <3>1. m \in i + 1 .. n /\ m \in 1 .. Len(out)
      BY <1>1, <1>5
    <3>2. QED
      BY <1>1, <3>1
  <2>2. Base - Last(i) <= BatchSize * (Len(out) - i)
    BY <1>2, <2>1 DEF DInv, LossInv
  <2>3. BatchSize * (n - i) = BatchSize * (Len(out) - i) + BatchSize
    BY <1>1, <1>5
  <2>4. BatchSize * (Len(out) - i) \in Int
    BY <1>1, <1>5
  <2> DEFINE k == BatchSize * (Len(out) - i)
  <2>5. Last(i) \in Nat /\ Base' <= Base + BatchSize /\ Base' \in Nat
    BY <1>2, <1>5
  <2> HIDE DEF k
  <2>6. Base' - Last(i) <= k + BatchSize
    <3>1. k \in Int /\ Base - Last(i) <= k
      BY <2>2, <2>4 DEF k
    <3>2. QED
      BY <2>5, <3>1
  <2>7. QED
    BY <2>3, <2>6 DEF k
<1>12. LossBounded'
  <2> SUFFICES ASSUME NEW i \in Batches, NEW j \in Batches, i < j,
                      \A m \in i + 1 .. j - 1 : out'[m].kind = "err"
               PROVE  First(j) - Last(i) - 1 <= BatchSize * (j - i - 1)
    BY <1>1, <1>5 DEF LossBounded
  <2>1. \A m \in i + 1 .. j - 1 : out[m].kind = "err"
    <3> SUFFICES ASSUME NEW m \in i + 1 .. j - 1 PROVE out[m].kind = "err"
      OBVIOUS
    <3>1. m \in 1 .. Len(out)
      BY <1>1, <1>5, SMTT(30)
    <3>2. QED
      BY <1>1, <3>1
  <2>2. QED
    BY <2>1 DEF DInv, LossBounded
<1>13. QED
  BY <1>6, <1>8, <1>9, <1>10, <1>11, <1>12 DEF DInv

LEMMA DeliversInv ==
  ASSUME DInv, Delivers, IInv'
  PROVE  DInv'
<1> USE ProgressTypes
<1> PICK n \in Nat : n = Len(out) + 1
  BY DEF DInv, IInv, TypeOK
<1>1. /\ writer.builders \in [Columns -> Seq(Cell)]
      /\ DOMAIN writer.builders[0] = 1 .. taken /\ Len(writer.builders[0]) = taken
      /\ \A k \in 1 .. taken : writer.builders[0][k].row = Base + k
  BY DeliveredRows DEF DInv
<1>2. /\ Len(out) \in Nat /\ DOMAIN out = 1 .. Len(out)
      /\ Len(out') = n /\ DOMAIN out' = 1 .. n
      /\ out'[n].kind = "batch" /\ out'[n].batch = writer.builders
      /\ \A i \in 1 .. Len(out) : out'[i] = out[i]
      /\ Batches' = Batches \cup {n} /\ taken' = 0
  <2>1. Return("batch", writer.builders) /\ "batch" \in {"batch", "err", "end"}
    BY DEF Delivers
  <2>2. QED
    BY <1>1, <2>1, ReturnAppends DEF DInv
<1>3. /\ UNCHANGED <<backend, wire, pos, Header>> /\ pc = "row" /\ pc' = "idle" /\ Started
      /\ ColCount > 0 /\ taken > 0 /\ (taken = BatchSize \/ pos = Len(wire))
      /\ Base' = pos /\ Base + taken = pos
  BY <1>2 DEF Delivers, Return, Header, Started, Base
<1>4. First(n)' = Base + 1 /\ Last(n)' = pos
  <2>1. First(n)' = writer.builders[0][1].row
    BY <1>2 DEF First
  <2>2. Last(n)' = writer.builders[0][taken].row
    BY <1>1, <1>2 DEF Last
  <2>3. 1 \in 1 .. taken /\ taken \in 1 .. taken
    BY <1>3
  <2>4. QED
    BY <1>1, <1>3, <2>1, <2>2, <2>3
<1>5. \A i \in DOMAIN out : out[i].kind # "end"
  BY <1>3, NotEnded
<1>6. \A i \in Batches : ~(Len(out[i].batch[0]) < BatchSize)
  BY <1>3, NotEnded
<1>7. \A i \in Batches : /\ i \in 1 .. Len(out) /\ out'[i] = out[i]
                         /\ First(i) \in Nat /\ Last(i) \in Nat
                         /\ First(i)' = First(i) /\ Last(i)' = Last(i)
  BY <1>2, BatchBounds, ResultKept DEF DInv
<1>8. ProgressInv' /\ ConvertedInv'
  BY <1>2, <1>3 DEF ProgressInv, ConvertedInv, Started
<1>9. \A j \in DOMAIN out' : out'[j].kind # "end"
  <2> SUFFICES ASSUME NEW j \in 1 .. n PROVE out'[j].kind # "end"
    BY <1>2
  <2>1. j \in 1 .. Len(out) \/ j = n
    BY <1>2
  <2>2. QED
    BY <1>2, <1>5, <2>1
<1>10. EndInv' /\ EndMeansComplete'
  BY <1>9 DEF EndInv, EndMeansComplete
<1>11. \A i \in Batches' : Len(out'[i].batch[0]) < BatchSize => i = n /\ pos = Len(wire)
  BY <1>1, <1>2, <1>3, <1>6, <1>7
<1>12. ShortInv' /\ ShortBatchIsLast'
  <2>1. ShortInv'
    BY <1>2, <1>3, <1>11 DEF ShortInv
  <2>2. ShortBatchIsLast'
    BY <1>2, <1>11 DEF ShortBatchIsLast
  <2>3. QED
    BY <2>1, <2>2
<1>13. CompleteInv'
  <2> SUFFICES ASSUME \A i \in 1 .. n : out'[i].kind = "batch" PROVE CompleteInv'
    BY <1>2 DEF CompleteInv
  <2>1. \A i \in DOMAIN out : out[i].kind = "batch"
    BY <1>2
  <2>2. /\ \A m \in Header + 1 .. Base : wire[m] = "row" /\ Covered(m)
        /\ \A i \in DOMAIN out : First(i) = IF i = 1 THEN Header + 1 ELSE Last(i - 1) + 1
        /\ out = <<>> => Base = Header
        /\ \A i \in DOMAIN out : i = Len(out) => Base = Last(i)
    BY <1>3, <2>1 DEF DInv, CompleteInv
  <2>3. ASSUME NEW m \in Header + 1 .. pos PROVE wire[m] = "row" /\ Covered(m)'
    <3>1. CASE m <= Base
      <4>1. wire[m] = "row" /\ Covered(m)
        BY <2>2, <3>1
      <4>2. PICK i \in Batches : \E k \in DOMAIN out[i].batch[0] : out[i].batch[0][k].row = m
        BY <4>1 DEF Covered
      <4>3. i \in Batches' /\ out'[i] = out[i]
        BY <1>2, <1>7
      <4>4. QED
        BY <4>1, <4>2, <4>3 DEF Covered
    <3>2. CASE ~(m <= Base)
      <4>1. m - Base \in 1 .. taken /\ m \in Base + 1 .. pos
        BY <1>3, <3>2, SMTT(30)
      <4>2. wire[m] = "row"
        BY <1>3, <4>1 DEF DInv, ConvertedInv
      <4>3. writer.builders[0][m - Base].row = m
        <5>1. PICK k \in 1 .. taken : k = m - Base
          BY <4>1
        <5>2. writer.builders[0][k].row = Base + k /\ Base + k = m
          BY <1>1, <1>3, <5>1
        <5>3. QED
          BY <5>1, <5>2
      <4>4. n \in Batches' /\ m - Base \in DOMAIN out'[n].batch[0]
            /\ out'[n].batch[0][m - Base].row = m
        BY <1>1, <1>2, <4>1, <4>3
      <4>5. Covered(m)'
        BY <4>4 DEF Covered
      <4>6. QED
        BY <4>2, <4>5
    <3>3. QED
      BY <3>1, <3>2
  <2>4. ASSUME NEW i \in 1 .. n
        PROVE  First(i)' = IF i = 1 THEN Header + 1 ELSE Last(i - 1)' + 1
    <3>1. CASE i \in 1 .. Len(out)
      <4>1. First(i)' = First(i)
        BY <1>2, <3>1, ResultKept
      <4>2. i # 1 => i - 1 \in 1 .. Len(out) /\ Last(i - 1)' = Last(i - 1)
        BY <1>2, <3>1, ResultKept
      <4>3. QED
        BY <1>2, <2>2, <3>1, <4>1, <4>2
    <3>2. CASE i = n
      <4>1. CASE out = <<>>
        BY <1>4, <2>2, <3>2, <4>1
      <4>2. CASE out # <<>>
        <5>1. Len(out) \in 1 .. Len(out) /\ i - 1 = Len(out) /\ i # 1
          BY <1>2, <3>2, <4>2 DEF DInv, IInv, TypeOK
        <5>2. Last(i - 1)' = Last(i - 1)
          BY <1>2, <5>1, ResultKept
        <5>3. Base = Last(i - 1)
          BY <1>2, <2>2, <5>1
        <5>4. QED
          BY <1>4, <3>2, <5>1, <5>2, <5>3
      <4>3. QED
        BY <4>1, <4>2
    <3>3. QED
      BY <1>2, <3>1, <3>2
  <2>5. out' # <<>> /\ \A i \in 1 .. n : i = Len(out') => pos = Last(i)'
    BY <1>2, <1>4
  <2>6. (\A m \in Header + 1 .. Base : wire[m] = "row" /\ Covered(m))'
    BY <1>3, <2>3
  <2>7. (\A i \in DOMAIN out : First(i) = IF i = 1 THEN Header + 1 ELSE Last(i - 1) + 1)'
    BY <1>2, <1>3, <2>4
  <2>8. (/\ out = <<>> => Base = Header
         /\ \A i \in DOMAIN out : i = Len(out) => Base = Last(i))'
    BY <1>2, <1>3, <2>5
  <2>9. QED
    BY <2>6, <2>7, <2>8 DEF CompleteInv
<1>14. LossInv'
  <2> SUFFICES ASSUME NEW i \in Batches', \A m \in i + 1 .. n : out'[m].kind = "err"
               PROVE  pos - Last(i)' <= BatchSize * (n - i)
    BY <1>2, <1>3 DEF LossInv
  <2>1. CASE i \in Batches
    <3>1. n \in i + 1 .. n
      BY <1>2, <1>7, <2>1
    <3>2. QED
      BY <1>2, <3>1
  <2>2. CASE i = n
    <3>1. n - i = 0 /\ BatchSize * 0 = 0
      BY <1>2, <2>2
    <3>2. QED
      BY <1>4, <2>2, <3>1
  <2>3. QED
    BY <1>2, <2>1, <2>2
<1>15. LossBounded'
  <2> SUFFICES ASSUME NEW i \in Batches', NEW j \in Batches', i < j,
                      \A m \in i + 1 .. j - 1 : out'[m].kind = "err"
               PROVE  First(j)' - Last(i)' - 1 <= BatchSize * (j - i - 1)
    BY DEF LossBounded
  <2>1. i \in Batches /\ j \in 1 .. n
    BY <1>2, <1>7
  <2>2. \A m \in i + 1 .. j - 1 : out[m].kind = "err"
    <3> SUFFICES ASSUME NEW m \in i + 1 .. j - 1 PROVE out[m].kind = "err"
      OBVIOUS
    <3>1. m \in 1 .. Len(out)
      BY <1>2, <1>7, <2>1
    <3>2. QED
      BY <1>2, <3>1
  <2>3. CASE j \in Batches
    <3>1. First(j) - Last(i) - 1 <= BatchSize * (j - i - 1)
      BY <2>1, <2>2, <2>3 DEF DInv, LossBounded
    <3>2. QED
      BY <1>7, <2>1, <2>3, <3>1
  <2>4. CASE j = n
    <3>1. \A m \in i + 1 .. Len(out) : out[m].kind = "err"
      BY <1>2, <2>2, <2>4
    <3>2. Base - Last(i) <= BatchSize * (Len(out) - i)
      BY <1>3, <2>1, <3>1 DEF DInv, LossInv
    <3>3. j - i - 1 = Len(out) - i /\ First(j)' - Last(i)' - 1 = Base - Last(i)
      BY <1>2, <1>4, <1>7, <2>1, <2>4, SMTT(30)
    <3>4. QED
      BY <3>2, <3>3
  <2>5. QED
    BY <1>2, <2>3, <2>4
<1>16. QED
  BY <1>8, <1>10, <1>12, <1>13, <1>14, <1>15 DEF DInv

LEMMA EndsInv ==
  ASSUME DInv, Ends, IInv'
  PROVE  DInv'
<1> USE ProgressTypes
<1> PICK n \in Nat : n = Len(out) + 1
  BY DEF DInv, IInv, TypeOK
<1>1. /\ Len(out) \in Nat /\ DOMAIN out = 1 .. Len(out)
      /\ Len(out') = n /\ DOMAIN out' = 1 .. n
      /\ out'[n].kind = "end"
      /\ \A i \in 1 .. Len(out) : out'[i] = out[i]
      /\ Batches' = Batches /\ taken' = 0
  <2>1. NoCells \in [Columns -> Seq(Cell)] /\ "end" \in {"batch", "err", "end"}
    BY DEF NoCells
  <2>2. Return("end", NoCells)
    BY DEF Ends
  <2>3. QED
    BY <2>1, <2>2, ReturnAppends DEF DInv
<1>2. /\ UNCHANGED <<backend, wire, pos, Header>> /\ pc = "row" /\ Started
      /\ pc' = "closed" /\ pos = Len(wire) /\ Base = Len(wire)
  BY DEF Ends, Return, Header, Started, Base
<1>3. \A i \in DOMAIN out : out[i].kind # "end"
  BY <1>2, NotEnded
<1>4. \A i \in 1 .. Len(out) : /\ out'[i] = out[i]
                               /\ First(i)' = First(i) /\ Last(i)' = Last(i)
                               /\ RowsOf(i)' = RowsOf(i)
  BY <1>1, ResultKept
<1>5. Batches \subseteq 1 .. Len(out)
  BY <1>1 DEF Batches
<1>6. \A i \in 1 .. n : i \in 1 .. Len(out) \/ i = n
  BY <1>1
<1>7. ProgressInv' /\ EndInv' /\ ConvertedInv' /\ CompleteInv' /\ LossInv'
  BY <1>1, <1>2 DEF ProgressInv, EndInv, ConvertedInv, CompleteInv, LossInv, Started
<1>8. ShortInv'
  BY <1>1, <1>2 DEF ShortInv
<1>9. ShortBatchIsLast'
  <2> SUFFICES ASSUME NEW i \in Batches, Len(out'[i].batch[0]) < BatchSize,
                      NEW j \in 1 .. n, j > i
               PROVE  out'[j].kind = "end"
    BY <1>1 DEF ShortBatchIsLast
  <2>1. Len(out[i].batch[0]) < BatchSize
    BY <1>4, <1>5
  <2>2. CASE j \in 1 .. Len(out)
    <3>1. out[j].kind = "end"
      BY <1>1, <2>1, <2>2 DEF DInv, ShortBatchIsLast
    <3>2. QED
      BY <1>4, <2>2, <3>1
  <2>3. QED
    BY <1>1, <1>6, <2>2
<1>10. EndMeansComplete'
  <2> SUFFICES ASSUME NEW j \in 1 .. n, out'[j].kind = "end",
                      \A i \in 1 .. j - 1 : out'[i].kind = "batch"
               PROVE  /\ \A m \in Header + 1 .. Len(wire) :
                           /\ wire[m] = "row"
                           /\ (\E i \in Batches :
                                 \E k \in DOMAIN RowsOf(i) : RowsOf(i)[k] = m)'
                      /\ \A i \in 1 .. j - 1 :
                           First(i)' = IF i = 1 THEN Header + 1 ELSE Last(i - 1)' + 1
    BY <1>1, <1>2, SMTT(60) DEF EndMeansComplete
  <2>1. j = n
    BY <1>1, <1>3, <1>4, <1>6
  <2>2. \A i \in DOMAIN out : out[i].kind = "batch"
    BY <1>1, <1>4, <2>1
  <2>3. /\ \A m \in Header + 1 .. Len(wire) : wire[m] = "row" /\ Covered(m)
        /\ \A i \in DOMAIN out : First(i) = IF i = 1 THEN Header + 1 ELSE Last(i - 1) + 1
    BY <1>2, <2>2 DEF DInv, CompleteInv
  <2>4. ASSUME NEW m \in Header + 1 .. Len(wire)
        PROVE  (\E i \in Batches : \E k \in DOMAIN RowsOf(i) : RowsOf(i)[k] = m)'
    <3>1. PICK i \in Batches : \E k \in DOMAIN out[i].batch[0] : out[i].batch[0][k].row = m
      BY <2>3 DEF Covered
    <3>2. \E k \in DOMAIN RowsOf(i) : RowsOf(i)[k] = m
      BY <3>1 DEF RowsOf
    <3>3. i \in Batches' /\ RowsOf(i)' = RowsOf(i)
      BY <1>1, <1>4, <1>5
    <3>4. QED
      BY <3>2, <3>3
  <2>5. ASSUME NEW i \in 1 .. j - 1
        PROVE  First(i)' = IF i = 1 THEN Header + 1 ELSE Last(i - 1)' + 1
    <3>1. i \in 1 .. Len(out) /\ First(i)' = First(i)
      BY <1>1, <1>4, <2>1
    <3>2. i # 1 => i - 1 \in 1 .. Len(out) /\ Last(i - 1)' = Last(i - 1)
      BY <1>1, <1>4, <3>1
    <3>3. QED
      BY <1>1, <2>3, <3>1, <3>2
  <2>6. QED
    BY <2>3, <2>4, <2>5
<1>11. LossBounded'
  <2> SUFFICES ASSUME NEW i \in Batches, NEW j \in Batches, i < j,
                      \A m \in i + 1 .. j - 1 : out'[m].kind = "err"
               PROVE  First(j)' - Last(i)' - 1 <= BatchSize * (j - i - 1)
    BY <1>1 DEF LossBounded
  <2>1. i \in 1 .. Len(out) /\ j \in 1 .. Len(out)
    BY <1>5
  <2>2. \A m \in i + 1 .. j - 1 : out[m].kind = "err"
    <3> SUFFICES ASSUME NEW m \in i + 1 .. j - 1 PROVE out[m].kind = "err"
      OBVIOUS
    <3>1. m \in 1 .. Len(out)
      BY <1>1, <2>1
    <3>2. QED
      BY <1>4, <3>1
  <2>3. First(j) - Last(i) - 1 <= BatchSize * (j - i - 1)
    BY <2>2 DEF DInv, LossBounded
  <2>4. QED
    BY <1>4, <2>1, <2>3
<1>12. QED
  BY <1>7, <1>8, <1>9, <1>10, <1>11 DEF DInv

-----------------------------------------------------------------------------
LEMMA DInitInv == Init => DInv
<1> SUFFICES ASSUME Init PROVE DInv
  OBVIOUS
<1>1. IInv
  BY InitInv
<1>2. pc = "start" /\ pos = 0 /\ taken = 0 /\ out = <<>> /\ DOMAIN out = {} /\ Batches = {}
  BY DEF Init, Batches
<1>3. ProgressInv /\ EndInv /\ ConvertedInv /\ ShortInv /\ CompleteInv /\ LossInv
  BY <1>2 DEF ProgressInv, EndInv, ConvertedInv, ShortInv, CompleteInv, LossInv, Started
<1>4. ShortBatchIsLast /\ EndMeansComplete /\ LossBounded
  BY <1>2 DEF ShortBatchIsLast, EndMeansComplete, LossBounded
<1>5. QED
  BY <1>1, <1>3, <1>4 DEF DInv

LEMMA DNextInv == DInv /\ [Next]_vars => DInv'
<1> SUFFICES ASSUME DInv, [Next]_vars PROVE DInv'
  OBVIOUS
<1>1. IInv'
  BY NextInv DEF DInv
<1>2. CASE Next
  BY <1>1, <1>2, StepKinds, WorksInv, FailsInv, DeliversInv, EndsInv
<1>3. CASE UNCHANGED vars
  <2>1. UNCHANGED <<pos, taken, pc, wire, out, Base, Started, Header, Batches>>
    BY <1>3 DEF vars, Base, Started, Header, Batches
  <2>2. \A i : UNCHANGED <<First(i), Last(i), Covered(i)>>
    BY <2>1 DEF First, Last, Covered
  <2>3. ProgressInv' /\ EndInv' /\ ConvertedInv' /\ ShortInv'
    BY <2>1 DEF DInv, ProgressInv, EndInv, ConvertedInv, ShortInv
  <2>4. CompleteInv' /\ LossInv'
    BY <2>1, <2>2 DEF DInv, CompleteInv, LossInv
  <2>5. ShortBatchIsLast' /\ EndMeansComplete' /\ LossBounded'
    BY <1>3, ResultsKept DEF vars
  <2>6. QED
    BY <1>1, <2>3, <2>4, <2>5 DEF DInv
<1>4. QED
  BY <1>2, <1>3

THEOREM DeliveryInvariance == Spec => []DInv
<1>1. QED
  BY DInitInv, DNextInv, PTL DEF Spec

(* A batch shorter than BatchSize is the last: the readers never cut one   *)
(* before the driver has nothing more to give.                             *)
THEOREM ShortBatchesAreLast == Spec => []ShortBatchIsLast
<1>1. DInv => ShortBatchIsLast
  BY DEF DInv
<1>2. QED
  BY <1>1, DeliveryInvariance, PTL

(* A caller that stops at the first Err and sees the end of the iterator   *)
(* has every row of the result, in order.                                  *)
THEOREM EndIsComplete == Spec => []EndMeansComplete
<1>1. DInv => EndMeansComplete
  BY DEF DInv
<1>2. QED
  BY <1>1, DeliveryInvariance, PTL

(* A call that returns Err loses at most BatchSize rows.                   *)
THEOREM LossIsBounded == Spec => []LossBounded
<1>1. DInv => LossBounded
  BY DEF DInv
<1>2. QED
  BY <1>1, DeliveryInvariance, PTL

-----------------------------------------------------------------------------
(* The refinement: what the abstract delivery sees of the readers.         *)
Log == [i \in DOMAIN out |-> MappedResult(out[i])]

Total == IF Len(wire) < Header THEN 0 ELSE Len(wire) - Header

(* The items delivered or lost are those of the calls that have returned.  *)
LEMMA DeliveredItems ==
  ASSUME DInv
  PROVE  /\ Started => /\ Delivered = Base - Header /\ Delivered \in Nat
                       /\ Total = Len(wire) - Header
         /\ pc = "start" => Delivered = 0
<1> USE ProgressTypes
<1>1. CASE pc = "start"
  <2>1. ~Started /\ pos = 0 /\ taken = 0
    BY <1>1 DEF DInv, ProgressInv, Started
  <2>2. Delivered = 0
    BY <2>1 DEF Delivered
  <2>3. QED
    BY <2>1, <2>2
<1>2. CASE Started
  BY <1>2 DEF Delivered, Started, Base, Total
<1>3. QED
  BY <1>1, <1>2

LEMMA WorksStutters ==
  ASSUME DInv, Works
  PROVE  UNCHANGED Delivery!vars
<1> USE ProgressTypes
<1>1. UNCHANGED <<backend, wire, out, Header>>
  BY DEF Works, Header
<1>2. UNCHANGED <<Total, Log>>
  BY <1>1 DEF Total, Log, MappedResult
<1>3. UNCHANGED Delivered
  <2>1. CASE pc = "start"
    <3>1. Delivered = 0 /\ pos = 0 /\ taken = 0
      BY <2>1, DeliveredItems DEF DInv, ProgressInv
    <3>2. pos' \in {0, Header} /\ taken' = 0
      BY <2>1, <3>1 DEF Works
    <3>3. QED
      BY <1>1, <3>1, <3>2 DEF Delivered
  <2>2. CASE pc = "idle"
    <3>1. taken = 0
      BY <2>2 DEF DInv, ProgressInv
    <3>2. UNCHANGED <<pos, taken>>
      BY <2>2, <3>1 DEF Works
    <3>3. QED
      BY <1>1, <3>2 DEF Delivered
  <2>3. CASE pc \in {"row", "cells"}
    <3>1. /\ pos' \in Nat /\ taken' \in Nat /\ pos' - taken' = Base
          /\ pos' >= pos /\ Header <= pos
      BY <2>3 DEF Works, Base, Started
    <3>2. QED
      BY <1>1, <3>1 DEF Delivered, Base
  <2>4. QED
    BY <2>1, <2>2, <2>3 DEF Works
<1>4. QED
  BY <1>2, <1>3 DEF Delivery!vars, Total, Log

(* A call that returns adds one result to the abstract log.                *)
LEMMA LogAppends ==
  ASSUME DInv, NEW kind \in {"batch", "err", "end"},
         NEW batch \in [Columns -> Seq(Cell)], Return(kind, batch), UNCHANGED backend
  PROVE  Log' = Append(Log, MappedResult([kind |-> kind, batch |-> batch]))
<1> PICK n \in Nat : n = Len(out) + 1
  BY DEF DInv, IInv, TypeOK
<1> DEFINE r == [kind |-> kind, batch |-> batch]
           mapped == {MappedResult(out[i]) : i \in DOMAIN out} \cup {MappedResult(r)}
<1>1. /\ Len(out) \in Nat /\ DOMAIN out = 1 .. Len(out)
      /\ DOMAIN out' = 1 .. n
      /\ \A i \in 1 .. Len(out) : out'[i] = out[i]
  BY ReturnAppends DEF DInv
<1>2. out'[n] = r
  BY <1>1 DEF Return, DInv, IInv, TypeOK
<1>3. \A i \in 1 .. Len(out) : MappedResult(out[i])' = MappedResult(out[i])
  BY <1>1 DEF MappedResult, Header
<1>4. MappedResult(out[n])' = MappedResult(r)
  BY <1>2 DEF MappedResult, Header
<1>5. Log \in Seq(mapped) /\ Len(Log) = Len(out)
  <2> HIDE DEF mapped
  <2>1. \A i \in 1 .. Len(out) : MappedResult(out[i]) \in mapped
    BY <1>1 DEF mapped
  <2>2. Log = [i \in 1 .. Len(out) |-> MappedResult(out[i])]
    BY <1>1 DEF Log
  <2>3. QED
    BY <1>1, <2>1, <2>2
<1>6. Log' = [i \in 1 .. n |-> MappedResult(out[i])']
  BY <1>1 DEF Log
<1>7. \A i \in 1 .. n : Log'[i] = IF i = n THEN MappedResult(r) ELSE Log[i]
  <2>1. \A i \in 1 .. Len(out) : Log[i] = MappedResult(out[i])
    BY <1>1 DEF Log
  <2>2. \A i \in 1 .. n : i = n \/ i \in 1 .. Len(out)
    BY <1>1
  <2>3. QED
    BY <1>3, <1>4, <1>6, <2>1, <2>2
<1>8. MappedResult(r) \in mapped
  OBVIOUS
<1>9. Log' = Append(Log, MappedResult(r))
  <2> DEFINE m == MappedResult(r)
  <2> HIDE DEF m, mapped
  <2>1. /\ Append(Log, m) \in Seq(mapped) /\ Len(Append(Log, m)) = n
        /\ \A i \in 1 .. n : Append(Log, m)[i] = IF i = n THEN m ELSE Log[i]
    BY <1>5, <1>8, AppendProperties DEF m
  <2>2. \A i \in 1 .. n : Log'[i] \in mapped /\ Log'[i] = Append(Log, m)[i]
    BY <1>5, <1>7, <1>8, <2>1 DEF m
  <2>3. Log' \in Seq(mapped) /\ Len(Log') = n
    BY <1>6, <2>2
  <2>4. QED
    BY <2>1, <2>2, <2>3, SeqEqual DEF m
<1>10. QED
  BY <1>9

LEMMA NotEndedYet ==
  ASSUME DInv, pc \in {"row", "cells"}
  PROVE  ~Delivery!Ended
<1>1. \A i \in DOMAIN out : out[i].kind # "end"
  BY NotEnded
<1>2. \A i \in DOMAIN out : Log[i].kind # "end"
  BY <1>1 DEF Log, MappedResult
<1>3. QED
  BY <1>2 DEF Delivery!Ended, Delivery!EndOfRows, Log

LEMMA FailsIsFail ==
  ASSUME DInv, DInv', Fails
  PROVE  Delivery!Next
<1> USE ProgressTypes
<1>1. /\ UNCHANGED <<backend, wire, Header>> /\ Started /\ pc \in {"row", "cells"}
      /\ pos' \in Nat /\ pos <= pos' /\ pos' <= Len(wire) /\ taken' = 0
  BY DEF Fails, Return, Header, Started, DInv, IInv, TypeOK
<1>2. Log' = Append(Log, Delivery!Failure)
  <2>1. NoCells \in [Columns -> Seq(Cell)] /\ Return("err", NoCells) /\ UNCHANGED backend
    BY DEF NoCells, Fails
  <2>2. MappedResult([kind |-> "err", batch |-> NoCells]) = Delivery!Failure
    BY DEF MappedResult, Delivery!Failure
  <2>3. QED
    BY <2>1, <2>2, LogAppends
<1>3. ~Delivery!Ended
  BY <1>1, NotEndedYet
<1> DEFINE upTo == pos' - Header + 1
<1>4. /\ Delivered \in Nat /\ Delivered = Base - Header /\ Total = Len(wire) - Header
      /\ UNCHANGED Total
  BY <1>1, DeliveredItems DEF Total
<1>5. Delivered' + 1 = upTo
  BY <1>1 DEF Delivered
<1>6. upTo \in Delivered + 1 .. Total + 1
  BY <1>1, <1>4, SMTT(30)
<1>7. Delivery!Fail(upTo)
  BY <1>2, <1>3, <1>4, <1>5 DEF Delivery!Fail, Total, Log
<1>8. QED
  BY <1>6, <1>7 DEF Delivery!Next, Total

LEMMA DeliversIsDeliver ==
  ASSUME DInv, Delivers
  PROVE  Delivery!Next
<1> USE ProgressTypes
<1>1. /\ UNCHANGED <<backend, wire, pos, Header>> /\ Started /\ pc \in {"row", "cells"}
      /\ taken > 0 /\ taken' = 0
  BY DEF Delivers, Return, Header, Started
<1>2. /\ writer.builders \in [Columns -> Seq(Cell)]
      /\ DOMAIN writer.builders[0] = 1 .. taken
      /\ \A k \in 1 .. taken : writer.builders[0][k].row = Base + k
  BY DeliveredRows DEF DInv
<1>3. /\ Delivered \in Nat /\ Delivered = Base - Header /\ Total = Len(wire) - Header
      /\ UNCHANGED Total
  BY <1>1, DeliveredItems DEF Total
<1>4. Log' = Append(Log, Delivery!BatchOf(Delivered + 1, taken))
  <2>1. Return("batch", writer.builders)
    BY DEF Delivers
  <2>2. ASSUME NEW k \in 1 .. taken
        PROVE  writer.builders[0][k].row - Header = Delivered + 1 + k - 1
    <3>1. Base \in Int /\ Header \in Nat /\ k \in Nat
      OBVIOUS
    <3>2. Base + k - Header = Delivered + 1 + k - 1
      BY <1>3, <3>1
    <3>3. writer.builders[0][k].row = Base + k
      BY <1>2
    <3>4. QED
      BY <3>2, <3>3
  <2>3. MappedResult([kind |-> "batch", batch |-> writer.builders])
          = Delivery!BatchOf(Delivered + 1, taken)
    BY <1>2, <2>2 DEF MappedResult, Delivery!BatchOf
  <2>4. QED
    BY <1>1, <1>2, <2>1, <2>3, LogAppends
<1>5. ~Delivery!Ended
  BY <1>1, NotEndedYet
<1>6. Delivered' + 1 = Delivered + 1 + taken /\ Delivered + 1 + taken <= Total + 1
  BY <1>1, <1>3, SMTT(30) DEF Delivered, Base
<1>7. Delivery!Deliver(taken)
  BY <1>3, <1>4, <1>5, <1>6 DEF Delivery!Deliver, Total, Log
<1>8. QED
  BY <1>1, <1>7 DEF Delivery!Next

LEMMA EndsIsEnd ==
  ASSUME DInv, Ends
  PROVE  Delivery!Next
<1> USE ProgressTypes
<1>1. /\ UNCHANGED <<backend, wire, pos, taken, Header>> /\ Started
      /\ pc \in {"row", "cells"} /\ taken = 0 /\ pos = Len(wire)
  BY DEF Ends, Return, Header, Started
<1>2. Log' = Append(Log, Delivery!EndOfRows)
  <2>1. NoCells \in [Columns -> Seq(Cell)] /\ Return("end", NoCells) /\ UNCHANGED backend
    BY DEF NoCells, Ends
  <2>2. MappedResult([kind |-> "end", batch |-> NoCells]) = Delivery!EndOfRows
    BY DEF MappedResult, Delivery!EndOfRows
  <2>3. QED
    BY <2>1, <2>2, LogAppends
<1>3. ~Delivery!Ended
  BY <1>1, NotEndedYet
<1>4. Delivered = Total /\ UNCHANGED <<Total, Delivered>>
  BY <1>1, DeliveredItems DEF Total, Delivered, Base
<1>5. Delivery!End
  BY <1>2, <1>3, <1>4 DEF Delivery!End, Total, Log
<1>6. QED
  BY <1>5 DEF Delivery!Next

LEMMA StepsOfDelivery == DInv /\ [Next]_vars => [Delivery!Next]_(Delivery!vars)
<1> SUFFICES ASSUME DInv, [Next]_vars PROVE Delivery!Next \/ UNCHANGED Delivery!vars
  OBVIOUS
<1>1. CASE Next
  BY <1>1, DNextInv, StepKinds, WorksStutters, FailsIsFail, DeliversIsDeliver, EndsIsEnd
<1>2. CASE UNCHANGED vars
  BY <1>2 DEF vars, Delivery!vars, Delivered, Header, MappedResult
<1>3. QED
  BY <1>1, <1>2

LEMMA InitOfDelivery == Init => Delivery!Init
<1> SUFFICES ASSUME Init PROVE Delivery!Init
  OBVIOUS
<1>1. DInv /\ pc = "start" /\ out = <<>>
  BY DInitInv DEF Init
<1>2. Delivered = 0
  BY <1>1, DeliveredItems
<1>3. Total \in Nat
  BY <1>1, ProgressTypes DEF Total
<1>4. Log = <<>>
  BY <1>1 DEF Log
<1>5. QED
  BY <1>2, <1>3, <1>4 DEF Delivery!Init, Total, Log

(* The streaming readers implement the abstract delivery: rows come in     *)
(* order and at most once, only a call that returns Err skips any, and     *)
(* the end comes when none is left.                                        *)
THEOREM ImplementsDelivery == Spec => DeliversRows
<1>1. QED
  BY DeliveryInvariance, InitOfDelivery, StepsOfDelivery, PTL
  DEF Spec, DeliversRows, Delivery!Spec
=============================================================================

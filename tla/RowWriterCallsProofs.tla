------------------------ MODULE RowWriterCallsProofs ------------------------
(***************************************************************************)
(* Proofs about RowWriterCalls: for every schema, every min_batch_size,    *)
(* every size of a chunk and every number of chunks.                       *)
(***************************************************************************)
EXTENDS RowWriterCalls, ArrowRowWriterProofs, Integers, SequenceTheorems

Batch == [Columns -> Seq(Cell)]

(* The rows that left the builders.                                        *)
Cut == RowsBefore(writer.data, Len(writer.data) + 1)

(* Every batch was cut where a prepare call ended, whatever happened since. *)
DataOK(data, marks) ==
  \A b \in DOMAIN data : ColCount > 0 /\ BatchInPlace(data, b, marks)

(* The caller's position: in the middle of a row only where a cell is due. *)
CallerInv ==
  /\ prepared \in starts
  /\ row < prepared => col < ColCount
  /\ row = prepared => col = 0

(* Cells that were written into column c.                                  *)
Written(c) == IF c < col THEN row + 1 ELSE row

(* While calls are possible the builders hold exactly the rows reserved    *)
(* and written since the last batch was cut, and the column cursor of the  *)
(* writer is where the caller is.                                          *)
OpenInv ==
  phase = "open" =>
    /\ writer.has_builders <=> prepared > 0
    /\ writer.has_builders <=> writer.rows_reserved > 0
    /\ prepared = 0 => writer.data = <<>> /\ writer.rows_capacity = 0
    /\ Cut + writer.rows_reserved = prepared
    /\ Cut <= row
    /\ writer.next_col = col
    /\ \A c \in Columns :
         /\ Cut + Len(writer.builders[c]) = Written(c)
         /\ InPlace(writer.builders[c], c, Cut)

(* After finish nothing is in the builders.                                *)
DoneInv ==
  phase = "done" =>
    /\ writer.builders = NoCells
    /\ ColCount > 0 => Cut = prepared

IInv ==
  /\ TypeOK
  /\ DataOK(writer.data, starts)
  /\ CallerInv
  /\ OpenInv
  /\ DoneInv
  /\ NoPanic

-----------------------------------------------------------------------------
LEMMA TypesOf ==
  ASSUME IInv
  PROVE  /\ ColCount \in Nat /\ MaxRows \in Nat
         /\ writer \in Writer(Cell)
         /\ writer.data \in Seq(Batch) /\ Len(writer.data) \in Nat
         /\ writer.builders \in Batch
         /\ writer.rows_reserved \in Nat /\ writer.rows_capacity \in Nat
         /\ writer.min_batch_size \in Nat
         /\ writer.rows_reserved <= writer.rows_capacity
         /\ prepared \in Nat /\ row \in Nat /\ col \in Nat /\ row <= prepared
         /\ prepared <= MaxRows
  BY ColumnsAssumption, CallsAssumption DEF IInv, TypeOK, WriterOK, Writer, Batch

(* The number of rows cut is a number, as every batch has a last row.      *)
LEMMA CutIsNat ==
  ASSUME NEW data \in Seq(Batch), NEW marks, DataOK(data, marks)
  PROVE  RowsBefore(data, Len(data) + 1) \in Nat
<1>1. CASE data = <<>>
  BY <1>1 DEF RowsBefore
<1>2. CASE data # <<>>
  <2>1. Len(data) \in Nat /\ Len(data) # 0 /\ Len(data) \in DOMAIN data
    BY <1>2
  <2>2. ColCount > 0 /\ data[Len(data)][0] # <<>>
    BY <2>1 DEF DataOK, BatchInPlace
  <2>3. 0 \in Columns /\ data[Len(data)] \in Batch
    BY <2>1, <2>2, ColumnsAssumption DEF Columns
  <2> DEFINE cells == data[Len(data)][0]
  <2>4. cells \in Seq(Cell)
    BY <2>3 DEF Batch
  <2> HIDE DEF cells
  <2>5. cells[Len(cells)] \in Cell
    <3>1. cells # <<>>
      BY <2>2 DEF cells
    <3>2. QED
      BY <2>4, <3>1
  <2>6. cells[Len(cells)].row \in Nat
    BY <2>5, CallsAssumption DEF Cell
  <2>7. RowsBefore(data, Len(data) + 1) = cells[Len(cells)].row
    BY <2>1 DEF RowsBefore, cells
  <2>8. QED
    BY <2>6, <2>7
<1>3. QED
  BY <1>1, <1>2

(* A batch that continues where the last one stopped, up to a mark, can be *)
(* added.                                                                  *)
LEMMA DataGrows ==
  ASSUME NEW data \in Seq(Batch), NEW marks, DataOK(data, marks),
         NEW batch \in Batch, NEW n \in Nat, n > 0, ColCount > 0,
         \A c \in Columns : Len(batch[c]) = n
           /\ InPlace(batch[c], c, RowsBefore(data, Len(data) + 1)),
         RowsBefore(data, Len(data) + 1) + n \in marks
  PROVE  LET more == Append(data, batch)
         IN /\ more \in Seq(Batch)
            /\ DataOK(more, marks)
            /\ RowsBefore(more, Len(more) + 1) = RowsBefore(data, Len(data) + 1) + n
<1> DEFINE more == Append(data, batch)
           before == RowsBefore(data, Len(data) + 1)
<1>1. /\ Len(data) \in Nat /\ DOMAIN data = 1 .. Len(data)
      /\ more \in Seq(Batch) /\ Len(more) = Len(data) + 1 /\ DOMAIN more = 1 .. Len(data) + 1
      /\ \A b \in 1 .. Len(data) : more[b] = data[b]
      /\ more[Len(data) + 1] = batch
  BY AppendProperties
<1> HIDE DEF more
<1>2. \A b \in 1 .. Len(data) + 1 : RowsBefore(more, b) = RowsBefore(data, b)
  BY <1>1 DEF RowsBefore
<1>3. 0 \in Columns /\ before \in Nat
  BY CutIsNat, ColumnsAssumption DEF Columns
<1>4. RowsBefore(more, Len(data) + 2) = before + n
  <2>1. batch[0] \in Seq(Cell) /\ Len(batch[0]) = n
    BY <1>3 DEF Batch
  <2>2. batch[0][n].row = before + n
    BY <1>3, <2>1 DEF InPlace
  <2>3. RowsBefore(more, Len(data) + 2) = batch[0][Len(batch[0])].row
    BY <1>1 DEF RowsBefore
  <2>4. QED
    BY <2>1, <2>2, <2>3
<1>5. BatchInPlace(more, Len(data) + 1, marks)
  <2>1. more[Len(data) + 1][0] # <<>>
    BY <1>1, <1>3
  <2>2. RowsBefore(more, (Len(data) + 1) + 1) \in marks
    BY <1>1, <1>4
  <2>3. \A c \in Columns :
          /\ Len(more[Len(data) + 1][c]) = Len(more[Len(data) + 1][0])
          /\ InPlace(more[Len(data) + 1][c], c, RowsBefore(more, Len(data) + 1))
    BY <1>1, <1>2, <1>3
  <2>4. QED
    BY <2>1, <2>2, <2>3 DEF BatchInPlace
<1>6. ASSUME NEW b \in 1 .. Len(data) PROVE BatchInPlace(more, b, marks)
  <2>1. BatchInPlace(data, b, marks)
    BY <1>1 DEF DataOK
  <2>2. /\ more[b] = data[b]
        /\ RowsBefore(more, b) = RowsBefore(data, b)
        /\ RowsBefore(more, b + 1) = RowsBefore(data, b + 1)
    BY <1>1, <1>2
  <2>3. QED
    BY <2>1, <2>2 DEF BatchInPlace
<1>7. DataOK(more, marks)
  BY <1>1, <1>5, <1>6 DEF DataOK
<1>8. QED
  BY <1>1, <1>4, <1>7 DEF more

LEMMA MarksGrow ==
  ASSUME NEW data, NEW marks, NEW more, marks \subseteq more, DataOK(data, marks)
  PROVE  DataOK(data, more)
  BY DEF DataOK, BatchInPlace

(* Without columns no batch can have been cut.                             *)
LEMMA NoColumnsNoData ==
  ASSUME NEW data \in Seq(Batch), NEW marks, DataOK(data, marks), ColCount = 0
  PROVE  data = <<>>
<1>1. Len(data) \in Nat /\ DOMAIN data = 1 .. Len(data)
  OBVIOUS
<1>2. 1 \notin DOMAIN data
  BY DEF DataOK
<1>3. Len(data) = 0
  BY <1>1, <1>2
<1>4. QED
  BY <1>3, EmptySeq

-----------------------------------------------------------------------------
LEMMA InitInv == Init => IInv
<1> SUFFICES ASSUME Init PROVE IInv
  OBVIOUS
<1>1. PICK n \in MinBatchSizes : writer = NewWriter(n)
  BY DEF Init
<1>2. WriterOK(writer, Cell)
  BY <1>1, NewWriterType, CallsAssumption
<1>3. /\ ~writer.has_builders /\ writer.data = <<>> /\ writer.next_col = 0
      /\ writer.rows_reserved = 0 /\ writer.rows_capacity = 0 /\ writer.builders = NoCells
  BY <1>1 DEF NewWriter
<1>4. prepared = 0 /\ starts = {0} /\ row = 0 /\ col = 0 /\ phase = "open"
  BY DEF Init
<1>5. TypeOK /\ CallerInv
  BY <1>2, <1>4, ColumnsAssumption, CallsAssumption DEF TypeOK, CallerInv
<1>6. Cut = 0 /\ DOMAIN writer.data = {}
  BY <1>3 DEF Cut, RowsBefore
<1>7. \A c \in Columns : Len(writer.builders[c]) = 0 /\ DOMAIN writer.builders[c] = {}
  BY <1>3 DEF NoCells
<1>8. \A c \in Columns : Written(c) = 0
  BY <1>4 DEF Written, Columns
<1>9. OpenInv
  BY <1>3, <1>4, <1>6, <1>7, <1>8 DEF OpenInv, InPlace
<1>10. QED
  BY <1>4, <1>5, <1>6, <1>9 DEF IInv, DataOK, DoneInv, NoPanic

(* Between two calls the columns are as long as the rows reserved.         *)
LEMMA ColumnsAreComplete ==
  ASSUME IInv, phase = "open", row = prepared
  PROVE  /\ \A c \in Columns : /\ Len(writer.builders[c]) = writer.rows_reserved
                               /\ Cut + Len(writer.builders[c]) = prepared
         /\ Cut \in Nat /\ col = 0
<1> USE TypesOf
<1>1. Cut \in Nat
  BY CutIsNat DEF IInv, Cut
<1>2. col = 0 /\ Cut + writer.rows_reserved = prepared
  BY DEF IInv, CallerInv, OpenInv
<1>3. ASSUME NEW c \in Columns
      PROVE  /\ Len(writer.builders[c]) = writer.rows_reserved
             /\ Cut + Len(writer.builders[c]) = prepared
  <2>1. Written(c) = row
    BY <1>2, <1>3, ColumnsAssumption DEF Written, Columns
  <2>2. Cut + Len(writer.builders[c]) = prepared
    BY <2>1 DEF IInv, OpenInv
  <2>3. Len(writer.builders[c]) \in Nat
    BY DEF Batch
  <2>4. QED
    BY <1>1, <1>2, <2>2, <2>3
<1>4. QED
  BY <1>1, <1>2, <1>3

(* The batch in the builders can be cut where the last call ended.         *)
LEMMA CutGrows ==
  ASSUME IInv, phase = "open", row = prepared, writer.has_builders, ColCount > 0
  PROVE  LET more == Append(writer.data, writer.builders)
         IN /\ more \in Seq(Batch)
            /\ DataOK(more, starts)
            /\ RowsBefore(more, Len(more) + 1) = prepared
<1> USE TypesOf
<1>1. writer.rows_reserved > 0
  BY DEF IInv, OpenInv
<1>2. Cut + writer.rows_reserved = prepared /\ prepared \in starts
  BY DEF IInv, OpenInv, CallerInv
<1>3. \A c \in Columns : Len(writer.builders[c]) = writer.rows_reserved
                           /\ InPlace(writer.builders[c], c, Cut)
  BY ColumnsAreComplete DEF IInv, OpenInv
<1>4. DataOK(writer.data, starts)
  BY DEF IInv
<1>5. QED
  BY <1>1, <1>2, <1>3, <1>4, DataGrows DEF Cut

-----------------------------------------------------------------------------
(* What the caller's side of a prepare call that returned Ok does.         *)
LEMMA PreparedOk ==
  ASSUME IInv, NEW rows \in Nat, Prepare(rows), writer'.result = "Ok"
  PROVE  /\ phase = "open" /\ phase' = "open" /\ row = prepared /\ col = 0 /\ col' = 0
         /\ prepared' = prepared + rows /\ prepared' \in 0 .. MaxRows
         /\ starts' = starts \cup {prepared + rows}
         /\ starts' \subseteq 0 .. prepared'
         /\ row' \in 0 .. prepared' /\ row' >= row
         /\ CallerInv'
         /\ \A c \in Columns : Written(c)' = prepared
<1> USE TypesOf
<1>1. /\ phase = "open" /\ phase' = "open" /\ row = prepared /\ col' = col
      /\ prepared' = prepared + rows /\ prepared' <= MaxRows
      /\ starts' = starts \cup {prepared + rows}
      /\ row' = IF ColCount = 0 THEN prepared' ELSE row
  BY DEF Prepare, PhaseAfter
<1>2. col = 0
  BY <1>1 DEF IInv, CallerInv
<1>3. prepared' \in 0 .. MaxRows /\ row' \in 0 .. prepared' /\ row' >= row
  BY <1>1
<1>4. starts' \subseteq 0 .. prepared'
  BY <1>1 DEF IInv, TypeOK
<1>5. CallerInv'
  BY <1>1, <1>2, <1>3 DEF CallerInv
<1>6. ASSUME NEW c \in Columns PROVE Written(c)' = prepared
  BY <1>1, <1>2, <1>6 DEF Written, Columns
<1>7. QED
  BY <1>1, <1>2, <1>3, <1>4, <1>5, <1>6

(* The rows fit the capacity of the builders.                              *)
LEMMA PrepareFitsInv ==
  ASSUME IInv, NEW rows \in Nat, Prepare(rows),
         writer.rows_reserved + rows <= writer.rows_capacity
  PROVE  IInv'
<1> USE TypesOf
<1>1. writer' = PrepareForBatch(writer, rows)
  BY DEF Prepare
<1>2. /\ writer' \in Writer(Cell) /\ writer'.result = "Ok"
      /\ writer'.data = writer.data /\ writer'.next_col = 0
      /\ writer'.has_builders <=> writer.has_builders
      /\ writer'.builders = writer.builders
      /\ writer'.rows_reserved = writer.rows_reserved + rows
      /\ writer'.rows_capacity = writer.rows_capacity
  BY <1>1, PrepareFits
<1>3. /\ phase = "open" /\ phase' = "open" /\ row = prepared /\ col = 0 /\ col' = 0
      /\ prepared' = prepared + rows /\ prepared' \in 0 .. MaxRows
      /\ starts' = starts \cup {prepared + rows}
      /\ starts' \subseteq 0 .. prepared'
      /\ row' \in 0 .. prepared' /\ row' >= row
      /\ CallerInv'
      /\ \A c \in Columns : Written(c)' = prepared
  BY <1>2, PreparedOk
<1>4. TypeOK'
  BY <1>2, <1>3, ColumnsAssumption DEF TypeOK, WriterOK
<1>5. DataOK(writer'.data, starts')
  BY <1>2, <1>3, MarksGrow DEF IInv
<1>6. Cut' = Cut /\ Cut \in Nat
  BY <1>2, <1>3, ColumnsAreComplete DEF Cut
<1>7. OpenInv'
  <2>1. /\ writer.has_builders <=> prepared > 0
        /\ writer.has_builders <=> writer.rows_reserved > 0
        /\ prepared = 0 => writer.data = <<>> /\ writer.rows_capacity = 0
        /\ Cut + writer.rows_reserved = prepared
        /\ Cut <= row
        /\ \A c \in Columns : InPlace(writer.builders[c], c, Cut)
    BY <1>3 DEF IInv, OpenInv
  <2>2. prepared = 0 => rows = 0
    BY <2>1
  <2>3. /\ writer'.has_builders <=> prepared' > 0
        /\ writer'.has_builders <=> writer'.rows_reserved > 0
        /\ prepared' = 0 => writer'.data = <<>> /\ writer'.rows_capacity = 0
    BY <1>2, <1>3, <2>1, <2>2
  <2>4. Cut' + writer'.rows_reserved = prepared' /\ Cut' <= row' /\ writer'.next_col = col'
    BY <1>2, <1>3, <1>6, <2>1
  <2>5. \A c \in Columns : Cut + Len(writer.builders[c]) = prepared
    BY <1>3, ColumnsAreComplete
  <2>6. \A c \in Columns : /\ Cut' + Len(writer'.builders[c]) = Written(c)'
                           /\ InPlace(writer'.builders[c], c, Cut')
    BY <1>2, <1>3, <1>6, <2>1, <2>5
  <2>7. QED
    BY <2>3, <2>4, <2>6 DEF OpenInv
<1>8. QED
  BY <1>3, <1>4, <1>5, <1>7 DEF IInv, DoneInv, NoPanic

(* New builders are empty: everything written before is in the batches.    *)
LEMMA NewBuildersInv ==
  ASSUME IInv, NEW rows \in Nat, rows > 0, Prepare(rows),
         writer' \in Writer(Cell), writer'.result = "Ok",
         writer'.has_builders, writer'.builders = NoCells, writer'.next_col = 0,
         writer'.rows_reserved = rows,
         writer'.rows_capacity = Larger(rows, writer.min_batch_size),
         DataOK(writer'.data, starts), Cut' = prepared
  PROVE  IInv'
<1> USE TypesOf
<1>1. /\ phase = "open" /\ phase' = "open" /\ row = prepared /\ col = 0 /\ col' = 0
      /\ prepared' = prepared + rows /\ prepared' \in 0 .. MaxRows
      /\ starts' = starts \cup {prepared + rows}
      /\ starts' \subseteq 0 .. prepared'
      /\ row' \in 0 .. prepared' /\ row' >= row
      /\ CallerInv'
      /\ \A c \in Columns : Written(c)' = prepared
  BY PreparedOk
<1>2. writer'.rows_reserved <= writer'.rows_capacity
  BY DEF Larger
<1>3. TypeOK'
  BY <1>1, <1>2, ColumnsAssumption DEF TypeOK, WriterOK
<1>4. DataOK(writer'.data, starts')
  BY <1>1, MarksGrow
<1>5. \A c \in Columns : Len(writer'.builders[c]) = 0 /\ DOMAIN writer'.builders[c] = {}
  BY DEF NoCells
<1>6. \A c \in Columns : /\ Cut' + Len(writer'.builders[c]) = Written(c)'
                         /\ InPlace(writer'.builders[c], c, Cut')
  BY <1>1, <1>5 DEF InPlace
<1>7. OpenInv'
  BY <1>1, <1>6 DEF OpenInv
<1>8. QED
  BY <1>1, <1>3, <1>4, <1>7 DEF IInv, DoneInv, NoPanic

LEMMA PrepareInv ==
  ASSUME IInv, NEW rows \in Nat, Prepare(rows)
  PROVE  IInv'
<1> USE TypesOf
<1>1. /\ writer' = PrepareForBatch(writer, rows)
      /\ phase = "open" /\ row = prepared /\ col' = col
      /\ phase' = PhaseAfter(writer', "open")
  BY DEF Prepare
<1>2. /\ writer.has_builders <=> prepared > 0
      /\ writer.has_builders <=> writer.rows_reserved > 0
      /\ prepared = 0 => writer.data = <<>> /\ writer.rows_capacity = 0
      /\ DataOK(writer.data, starts)
  BY <1>1 DEF IInv, OpenInv
<1>3. CASE writer.rows_reserved + rows <= writer.rows_capacity
  BY <1>3, PrepareFitsInv
<1>4. CASE writer.rows_reserved = 0 /\ writer.rows_capacity < rows
  <2>1. /\ writer' \in Writer(Cell) /\ writer'.result = "Ok"
        /\ writer'.data = writer.data /\ writer'.next_col = 0
        /\ writer'.has_builders /\ writer'.builders = NoCells
        /\ writer'.rows_reserved = rows
        /\ writer'.rows_capacity = Larger(rows, writer.min_batch_size)
    BY <1>1, <1>4, PrepareAllocates
  <2>2. prepared = 0 /\ writer'.data = <<>>
    BY <1>2, <1>4, <2>1
  <2>3. Cut' = prepared
    BY <2>2 DEF Cut, RowsBefore
  <2>4. DataOK(writer'.data, starts)
    BY <1>2, <2>1
  <2>5. rows > 0
    BY <1>4
  <2>6. QED
    BY <2>1, <2>3, <2>4, <2>5, NewBuildersInv
<1>5. CASE writer.rows_reserved > 0 /\ writer.rows_capacity < rows + writer.rows_reserved
  <2>1. writer.has_builders /\ rows > 0
    BY <1>2, <1>5
  <2>2. \A c \in Columns : Len(writer.builders[c]) = writer.rows_reserved
    BY <1>1, ColumnsAreComplete
  <2>3. /\ writer' \in Writer(Cell)
        /\ writer'.next_col = 0
        /\ writer'.builders = NoCells
        /\ Acceptable(writer.builders) =>
             /\ writer'.result = "Ok"
             /\ writer'.data = Append(writer.data, writer.builders)
             /\ writer'.has_builders
             /\ writer'.rows_reserved = rows
             /\ writer'.rows_capacity = Larger(rows, writer.min_batch_size)
        /\ ~Acceptable(writer.builders) =>
             /\ writer'.result = "Err"
             /\ writer'.data = writer.data
             /\ writer'.rows_reserved = writer.rows_reserved
             /\ writer'.rows_capacity = writer.rows_capacity
    BY <1>1, <1>5, <2>1, <2>2, PrepareCuts
  <2>4. CASE Acceptable(writer.builders)
    <3>1. ColCount > 0
      BY <2>4 DEF Acceptable
    <3>2. DataOK(writer'.data, starts) /\ Cut' = prepared
      BY <1>1, <2>1, <2>3, <2>4, <3>1, CutGrows DEF Cut
    <3>3. QED
      BY <2>1, <2>3, <2>4, <3>2, NewBuildersInv
  <2>5. CASE ~Acceptable(writer.builders)
    <3>1. /\ phase' = "failed" /\ UNCHANGED <<prepared, starts, row, col>>
      BY <1>1, <2>3, <2>5 DEF Prepare, PhaseAfter
    <3>2. writer'.rows_reserved <= writer'.rows_capacity /\ writer'.data = writer.data
      BY <2>3, <2>5
    <3>3. TypeOK'
      BY <2>3, <3>1, <3>2 DEF IInv, TypeOK, WriterOK
    <3>4. DataOK(writer'.data, starts') /\ CallerInv'
      BY <1>2, <3>1, <3>2 DEF IInv, CallerInv
    <3>5. QED
      BY <3>1, <3>3, <3>4 DEF IInv, OpenInv, DoneInv, NoPanic
  <2>6. QED
    BY <2>4, <2>5
<1>6. QED
  BY <1>3, <1>4, <1>5

-----------------------------------------------------------------------------
LEMMA WriteCellInv ==
  ASSUME IInv, NEW null \in BOOLEAN, WriteCell(null)
  PROVE  IInv'
<1> USE TypesOf
<1> DEFINE cell == [row |-> row + 1, col |-> col, null |-> null]
<1>1. /\ phase = "open" /\ row < prepared /\ writer' = Consume(writer, cell)
      /\ phase' = PhaseAfter(writer', "open") /\ Advance
      /\ UNCHANGED <<prepared, starts>>
  BY DEF WriteCell
<1>2. /\ writer.has_builders /\ writer.next_col = col
      /\ writer.has_builders <=> writer.rows_reserved > 0
      /\ Cut + writer.rows_reserved = prepared
      /\ Cut <= row
      /\ \A c \in Columns :
           /\ Cut + Len(writer.builders[c]) = Written(c)
           /\ InPlace(writer.builders[c], c, Cut)
  BY <1>1 DEF IInv, OpenInv
<1>3. col \in Columns
  BY <1>1 DEF IInv, CallerInv, Columns
<1>4. cell \in Cell /\ cell.row = row + 1 /\ cell.col = col
  BY <1>1, <1>3 DEF Cell
<1> HIDE DEF cell
<1>5. /\ writer' \in Writer(Cell) /\ writer'.result = "Ok"
      /\ writer'.data = writer.data
      /\ writer'.next_col = NextColIndex(writer)
      /\ writer'.has_builders
      /\ \A c \in Columns :
           writer'.builders[c] = IF c = col THEN Append(writer.builders[c], cell)
                                 ELSE writer.builders[c]
      /\ writer'.rows_reserved = writer.rows_reserved
      /\ writer'.rows_capacity = writer.rows_capacity
  BY <1>1, <1>2, <1>3, <1>4, ConsumeOk
<1>6. phase' = "open"
  BY <1>1, <1>5 DEF PhaseAfter
<1>7. /\ row' \in 0 .. prepared' /\ col' \in 0 .. ColCount
      /\ row' >= row
      /\ row' < prepared' => col' < ColCount
      /\ row' = prepared' => col' = 0
      /\ writer'.next_col = col'
      /\ \A c \in Columns : Written(c)' = IF c = col THEN Written(c) + 1 ELSE Written(c)
  <2>1. CASE col + 1 = ColCount
    <3>1. row' = row + 1 /\ col' = 0
      BY <1>1, <2>1 DEF Advance
    <3>2. writer'.next_col = 0
      BY <1>2, <1>5, <2>1 DEF NextColIndex
    <3>3. \A c \in Columns : c < col + 1 /\ c >= 0
      BY <2>1 DEF Columns
    <3>4. \A c \in Columns : Written(c)' = IF c = col THEN Written(c) + 1 ELSE Written(c)
      BY <3>1, <3>3 DEF Written, Columns
    <3>5. QED
      BY <1>1, <1>3, <3>1, <3>2, <3>4 DEF Columns
  <2>2. CASE col + 1 # ColCount
    <3>1. row' = row /\ col' = col + 1
      BY <1>1, <2>2 DEF Advance
    <3>2. writer'.next_col = col + 1
      BY <1>2, <1>5, <2>2 DEF NextColIndex
    <3>3. \A c \in Columns : Written(c)' = IF c = col THEN Written(c) + 1 ELSE Written(c)
      BY <3>1 DEF Written, Columns
    <3>4. col + 1 < ColCount
      BY <1>3, <2>2 DEF Columns
    <3>5. QED
      BY <1>1, <3>1, <3>2, <3>3, <3>4
  <2>3. QED
    BY <2>1, <2>2
<1>8. TypeOK'
  BY <1>1, <1>5, <1>6, <1>7 DEF IInv, TypeOK, WriterOK
<1>9. Cut' = Cut /\ Cut \in Nat
  BY <1>5, CutIsNat DEF Cut, IInv
<1>10. ASSUME NEW c \in Columns
       PROVE  /\ Cut + Len(writer'.builders[c]) = Written(c)'
              /\ InPlace(writer'.builders[c], c, Cut)
  <2>1. /\ writer.builders[c] \in Seq(Cell)
        /\ Cut + Len(writer.builders[c]) = Written(c)
        /\ InPlace(writer.builders[c], c, Cut)
    BY <1>2 DEF Batch
  <2>2. CASE c = col
    <3>1. writer'.builders[c] = Append(writer.builders[c], cell)
      BY <1>5, <2>2
    <3>2. PICK n \in Nat : n = Len(writer.builders[c])
      BY <2>1
    <3>3. /\ Len(writer'.builders[c]) = n + 1
          /\ DOMAIN writer'.builders[c] = 1 .. n + 1
          /\ \A i \in 1 .. n : writer'.builders[c][i] = writer.builders[c][i]
          /\ writer'.builders[c][n + 1] = cell
      BY <1>4, <2>1, <3>1, <3>2, AppendProperties
    <3>4. Cut + n = row
      BY <2>1, <2>2, <3>2 DEF Written
    <3>5. \A i \in 1 .. n + 1 : writer'.builders[c][i].row = Cut + i
                                  /\ writer'.builders[c][i].col = c
      <4>1. ASSUME NEW i \in 1 .. n
            PROVE  writer'.builders[c][i].row = Cut + i /\ writer'.builders[c][i].col = c
        <5>1. i \in DOMAIN writer.builders[c]
          BY <2>1, <3>2
        <5>2. writer.builders[c][i].row = Cut + i /\ writer.builders[c][i].col = c
          BY <2>1, <5>1 DEF InPlace
        <5>3. QED
          BY <3>3, <5>2
      <4>2. writer'.builders[c][n + 1].row = Cut + (n + 1)
              /\ writer'.builders[c][n + 1].col = c
        BY <1>4, <1>9, <2>2, <3>3, <3>4
      <4>3. \A i \in 1 .. n + 1 : i \in 1 .. n \/ i = n + 1
        OBVIOUS
      <4>4. QED
        BY <4>1, <4>2, <4>3
    <3>6. Written(c)' = Cut + (n + 1)
      BY <1>7, <1>9, <2>1, <2>2, <3>2
    <3>7. InPlace(writer'.builders[c], c, Cut)
      BY <3>3, <3>5 DEF InPlace
    <3>8. QED
      BY <3>3, <3>6, <3>7
  <2>3. CASE c # col
    BY <1>5, <1>7, <2>1, <2>3
  <2>4. QED
    BY <2>2, <2>3
<1>11. OpenInv'
  BY <1>1, <1>2, <1>5, <1>7, <1>9, <1>10 DEF OpenInv
<1>12. CallerInv' /\ DataOK(writer'.data, starts')
  BY <1>1, <1>5, <1>7 DEF IInv, CallerInv
<1>13. QED
  BY <1>6, <1>8, <1>11, <1>12 DEF IInv, DoneInv, NoPanic

-----------------------------------------------------------------------------
LEMMA FinishWriterInv ==
  ASSUME IInv, FinishWriter
  PROVE  IInv'
<1> USE TypesOf
<1>1. /\ phase = "open" /\ row = prepared /\ writer' = Finish(writer)
      /\ phase' = PhaseAfter(writer', "done")
      /\ UNCHANGED <<prepared, starts, row, col>>
  BY DEF FinishWriter
<1>2. CallerInv'
  BY <1>1 DEF IInv, CallerInv
<1>3. CASE writer.has_builders
  <2>1. \A c \in Columns : Len(writer.builders[c]) = writer.rows_reserved
    BY <1>1, ColumnsAreComplete
  <2>2. /\ writer' \in Writer(Cell)
        /\ writer'.builders = NoCells
        /\ writer'.rows_reserved = writer.rows_reserved
        /\ writer'.rows_capacity = writer.rows_capacity
        /\ Acceptable(writer.builders) =>
             writer'.result = "Ok" /\ writer'.data = Append(writer.data, writer.builders)
        /\ ~Acceptable(writer.builders) =>
             writer'.result = "Err" /\ writer'.data = writer.data
    BY <1>1, <1>3, <2>1, FlushComplete DEF Finish
  <2>3. phase' \in {"done", "failed"}
    BY <1>1, <2>2 DEF PhaseAfter
  <2>4. TypeOK'
    BY <1>1, <2>2, <2>3 DEF IInv, TypeOK, WriterOK
  <2>5. DataOK(writer'.data, starts') /\ DoneInv'
    <3>1. CASE Acceptable(writer.builders)
      <4>1. ColCount > 0
        BY <3>1 DEF Acceptable
      <4>2. DataOK(writer'.data, starts) /\ Cut' = prepared
        BY <1>1, <1>3, <2>2, <3>1, <4>1, CutGrows DEF Cut
      <4>3. QED
        BY <1>1, <2>2, <4>2 DEF DoneInv
    <3>2. CASE ~Acceptable(writer.builders)
      <4>1. phase' = "failed"
        BY <1>1, <2>2, <3>2 DEF PhaseAfter
      <4>2. QED
        BY <1>1, <2>2, <3>2, <4>1 DEF IInv, DoneInv
    <3>3. QED
      BY <3>1, <3>2
  <2>6. QED
    BY <1>2, <2>3, <2>4, <2>5 DEF IInv, OpenInv, NoPanic
<1>4. CASE ~writer.has_builders
  <2>1. writer' = [writer EXCEPT !.result = "Ok"]
    BY <1>1, <1>4 DEF Finish, Flush
  <2>2. /\ writer' \in Writer(Cell) /\ writer'.result = "Ok"
        /\ writer'.data = writer.data
        /\ writer'.builders = writer.builders
        /\ writer'.rows_reserved = writer.rows_reserved
        /\ writer'.rows_capacity = writer.rows_capacity
    BY <2>1 DEF Writer
  <2>3. phase' = "done"
    BY <1>1, <2>2 DEF PhaseAfter
  <2>4. prepared = 0 /\ writer.data = <<>> /\ writer.rows_reserved = 0
    BY <1>1, <1>4 DEF IInv, OpenInv
  <2>5. writer.builders = NoCells
    <3>1. \A c \in Columns : writer.builders[c] \in Seq(Cell) /\ Len(writer.builders[c]) = 0
      BY <1>1, <2>4, ColumnsAreComplete DEF Batch
    <3>2. \A c \in Columns : writer.builders[c] = <<>>
      BY <3>1, EmptySeq
    <3>3. writer.builders = [c \in Columns |-> writer.builders[c]]
      BY DEF Batch
    <3>4. QED
      BY <3>2, <3>3 DEF NoCells
  <2>6. Cut' = prepared
    BY <2>2, <2>4 DEF Cut, RowsBefore
  <2>7. TypeOK' /\ DoneInv'
    BY <1>1, <2>2, <2>3, <2>5, <2>6 DEF IInv, TypeOK, WriterOK, DoneInv
  <2>8. DataOK(writer'.data, starts')
    BY <1>1, <2>2 DEF IInv
  <2>9. QED
    BY <1>2, <2>3, <2>7, <2>8 DEF IInv, OpenInv, NoPanic
<1>5. QED
  BY <1>3, <1>4

-----------------------------------------------------------------------------
LEMMA NextInv == IInv /\ [Next]_vars => IInv'
<1> SUFFICES ASSUME IInv, [Next]_vars PROVE IInv'
  OBVIOUS
<1>1. ASSUME NEW rows \in 0 .. MaxPrepare, Prepare(rows) PROVE IInv'
  BY <1>1, PrepareInv, CallsAssumption
<1>2. ASSUME NEW null \in BOOLEAN, WriteCell(null) PROVE IInv'
  BY <1>2, WriteCellInv
<1>3. CASE FinishWriter
  BY <1>3, FinishWriterInv
<1>4. CASE UNCHANGED vars
  <2>1. UNCHANGED <<writer, prepared, starts, row, col, phase>>
    BY <1>4 DEF vars
  <2>2. TypeOK' /\ CallerInv' /\ NoPanic' /\ DataOK(writer.data, starts)'
    BY <2>1 DEF IInv, TypeOK, CallerInv, NoPanic
  <2>3. UNCHANGED Cut /\ \A c : UNCHANGED Written(c)
    BY <2>1 DEF Cut, Written
  <2>4. OpenInv' /\ DoneInv'
    BY <2>1, <2>3 DEF IInv, OpenInv, DoneInv
  <2>5. QED
    BY <2>2, <2>4 DEF IInv
<1>5. QED
  BY <1>1, <1>2, <1>3, <1>4 DEF Next

(* Any number of prepare calls of any size, up to MaxRows rows in all.     *)
THEOREM Invariance == Spec => []IInv
<1>1. QED
  BY InitInv, NextInv, PTL DEF Spec

(* The writer's fields stay well-formed: no more is reserved than fits.    *)
THEOREM TypeCorrect == Spec => []TypeOK
<1>1. IInv => TypeOK
  BY DEF IInv
<1>2. QED
  BY <1>1, Invariance, PTL

(* Neither next_builder's unwrap nor slice panics on a caller that writes  *)
(* what it announced.                                                      *)
THEOREM CallsDoNotPanic == Spec => []NoPanic
<1>1. IInv => NoPanic
  BY DEF IInv
<1>2. QED
  BY <1>1, Invariance, PTL

(* No flush, no capacity test and no column cursor displaces a cell, and a *)
(* finish that returns Ok leaves none behind.                              *)
THEOREM CellsStayInPlace == Spec => []CellsInPlace
<1>1. ASSUME IInv PROVE CellsInPlace
  <2> USE <1>1, TypesOf
  <2>1. \A b \in DOMAIN writer.data : BatchInPlace(writer.data, b, starts)
    BY DEF IInv, DataOK
  <2>2. CASE phase = "open"
    <3>1. \A c \in Columns : InPlace(writer.builders[c], c, Cut)
      BY <2>2 DEF IInv, OpenInv
    <3>2. row = prepared => \A c \in Columns : Cut + Len(writer.builders[c]) = prepared
      BY <2>2, ColumnsAreComplete
    <3>3. QED
      BY <2>1, <2>2, <3>1, <3>2 DEF CellsInPlace, Cut
  <2>3. CASE phase = "done"
    <3>1. /\ \A c \in Columns : Len(writer.builders[c]) = 0 /\ DOMAIN writer.builders[c] = {}
          /\ ColCount > 0 => Cut = prepared
      BY <2>3 DEF IInv, DoneInv, NoCells
    <3>2. \A c \in Columns : ColCount > 0
      BY DEF Columns
    <3>3. \A c \in Columns : /\ InPlace(writer.builders[c], c, Cut)
                             /\ Cut + Len(writer.builders[c]) = prepared
      BY <3>1, <3>2 DEF InPlace
    <3>4. QED
      BY <2>1, <2>3, <3>1, <3>3 DEF CellsInPlace, Cut
  <2>4. CASE phase \notin {"open", "done"}
    BY <2>1, <2>4 DEF CellsInPlace
  <2>5. QED
    BY <2>2, <2>3, <2>4
<1>2. QED
  BY <1>1, Invariance, PTL
=============================================================================

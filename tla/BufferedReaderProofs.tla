------------------------ MODULE BufferedReaderProofs ------------------------
(***************************************************************************)
(* Proofs about BufferedReader for every number of columns, storage class  *)
(* and result.                                                             *)
(***************************************************************************)
EXTENDS BufferedReader, ArrowRowWriterProofs, Integers, SequenceTheorems

(* What is buffered are the first rows of the table, then all of them.     *)
RowsInv ==
  /\ Len(rows) <= Len(table)
  /\ \A i \in 1 .. Len(rows) : rows[i] = table[i]
  /\ pc \notin {"read", "closed", "panicked"} => rows = table
  /\ pc \in {"read", "infer"} => at >= 1
  /\ pc = "read" => at = 1

(* The rows the inference has looked at or has no need to look at.         *)
Scanned ==
  CASE pc = "infer" -> at - 1
    [] pc \in {"rows", "cells", "ready"} -> Len(rows)
    [] OTHER -> 0

(* A column's type is that of a value it holds; it has none if no value    *)
(* but NULL was seen.                                                      *)
TypesInv ==
  \A c \in Columns :
    /\ types[c] = Null => \A i \in 1 .. Scanned : rows[i][c] = Null
    /\ types[c] # Null => \E i \in DOMAIN rows : rows[i][c] = types[c]

CellAt(r, c) == [row |-> r, col |-> c, null |-> rows[r][c] = Null, class |-> rows[r][c]]

(* Cells that have been converted in column c.                             *)
Filled(c) == IF pc = "cells" /\ c >= col THEN at - 1 ELSE at

(* The writer holds the cells of the first rows, and no batch.             *)
WriterInv ==
  pc \in {"rows", "cells"} =>
    /\ writer.min_batch_size = Len(rows)
    /\ writer.data = <<>>
    /\ writer.rows_reserved = at
    /\ writer.has_builders <=> at > 0
    /\ writer.rows_capacity = (IF at = 0 THEN 0 ELSE Len(rows))
    /\ \A c \in Columns :
         /\ Len(writer.builders[c]) = Filled(c)
         /\ \A k \in 1 .. Filled(c) :
              writer.builders[c][k] = CellAt(k, c) /\ Convertible(rows[k][c], types[c])

CursorInv ==
  pc = "cells" =>
    /\ col < ColCount
    /\ writer.next_col = col
    /\ at > 0

Complete ==
  [c \in Columns |-> [k \in DOMAIN table |-> [row |-> k, col |-> c,
     null |-> table[k][c] = Null, class |-> table[k][c]]]]

Servable == Sound /\ table # <<>> /\ ColCount > 0

Served == [kind |-> "batch", batch |-> Complete]
EndOfResult == [kind |-> "end", batch |-> NoCells]

(* One batch holds everything, and it is served once.                      *)
OutInv ==
  /\ pc \notin {"ready", "closed"} => out = <<>>
  /\ pc = "ready" => \/ table = <<>> /\ batches = <<>> /\ out = <<>>
                     \/ Servable /\ batches = <<Complete>> /\ out = <<>>
                     \/ Servable /\ batches = <<>> /\ out = <<Served>>
  /\ pc = "closed" => \/ out = <<>>
                      \/ table = <<>> /\ out = <<EndOfResult>>
                      \/ Servable /\ out = <<Served, EndOfResult>>

IInv ==
  /\ TypeOK
  /\ RowsInv /\ TypesInv
  /\ WriterInv /\ CursorInv
  /\ SoundNeverPanics
  /\ OutInv

-----------------------------------------------------------------------------
LEMMA TableType ==
  ASSUME IInv
  PROVE  /\ table \in Seq([Columns -> StorageClasses \cup {Null, BadText}])
         /\ Len(table) \in Nat /\ DOMAIN table = 1 .. Len(table)
         /\ Len(rows) \in Nat /\ DOMAIN rows = 1 .. Len(rows)
         /\ at \in Nat /\ col \in Nat
  BY BufferedAssumption, ColumnsAssumption DEF IInv, TypeOK

LEMMA InitInv == Init => IInv
<1> SUFFICES ASSUME Init PROVE IInv
  OBVIOUS
<1>1. WriterOK(writer, Cell)
  BY NewWriterType DEF Init
<1>2. types = [c \in Columns |-> Null]
  BY DEF Init
<1>3. types \in [Columns -> StorageClasses \cup {Null}]
  BY <1>2
<1>4. /\ pc = "read" /\ at = 1 /\ rows = <<>> /\ Len(rows) = 0 /\ out = <<>>
      /\ col = 0 /\ batches = <<>> /\ table \in Tables /\ fails \in BOOLEAN
  BY DEF Init
<1>5. TypeOK
  BY <1>1, <1>3, <1>4, ColumnsAssumption DEF TypeOK
<1>6. RowsInv /\ TypesInv
  <2>1. Len(table) \in Nat
    BY <1>4, BufferedAssumption
  <2>2. QED
    BY <1>2, <1>4, <2>1 DEF RowsInv, TypesInv, Scanned
<1>7. WriterInv /\ CursorInv /\ SoundNeverPanics /\ OutInv
  BY <1>4 DEF WriterInv, CursorInv, SoundNeverPanics, OutInv
<1>8. QED
  BY <1>5, <1>6, <1>7 DEF IInv

LEMMA ReadRowInv ==
  ASSUME IInv, ReadRow
  PROVE  IInv'
<1> USE TableType
<1> PICK n \in Nat : n = Len(rows) + 1
  OBVIOUS
<1>1. /\ pc = "read" /\ n <= Len(table) /\ rows' = Append(rows, table[n])
      /\ UNCHANGED <<table, fails, types, pc, at, col, writer, batches, out>>
  BY DEF ReadRow
<1>2. rows \in Seq([Columns -> StorageClasses \cup {Null}])
  BY DEF IInv, TypeOK
<1>3. table[n] \in [Columns -> StorageClasses \cup {Null}]
  <2>1. table[n] \in [Columns -> StorageClasses \cup {Null, BadText}]
    BY <1>1
  <2>2. \A c \in Columns : table[n][c] \in StorageClasses \cup {Null}
    BY <2>1 DEF ReadRow, ReadableRow
  <2>3. QED
    BY <2>1, <2>2
<1>4. /\ rows' \in Seq([Columns -> StorageClasses \cup {Null}])
      /\ Len(rows') = n /\ DOMAIN rows' = 1 .. n
      /\ \A i \in 1 .. Len(rows) : rows'[i] = rows[i]
      /\ rows'[n] = table[n]
  BY <1>1, <1>2, <1>3
<1>5. TypeOK'
  BY <1>1, <1>4 DEF IInv, TypeOK
<1>6. \A i \in 1 .. n : i \in 1 .. Len(rows) \/ i = n
  OBVIOUS
<1>7. RowsInv'
  BY <1>1, <1>4, <1>6 DEF IInv, RowsInv
<1>8. TypesInv'
  <2>1. Scanned' = 0
    BY <1>1 DEF Scanned
  <2>2. ASSUME NEW c \in Columns, types[c] # Null
        PROVE  \E i \in DOMAIN rows' : rows'[i][c] = types[c]
    <3>1. PICK i \in DOMAIN rows : rows[i][c] = types[c]
      BY <2>2 DEF IInv, TypesInv
    <3>2. i \in DOMAIN rows' /\ rows'[i] = rows[i]
      BY <1>4
    <3>3. QED
      BY <3>1, <3>2
  <2>3. QED
    BY <1>1, <2>1, <2>2 DEF TypesInv
<1>9. WriterInv' /\ CursorInv' /\ SoundNeverPanics' /\ OutInv'
  BY <1>1 DEF WriterInv, CursorInv, SoundNeverPanics, IInv, OutInv
<1>10. QED
  BY <1>5, <1>7, <1>8, <1>9 DEF IInv

(* The reader panics in the middle of the result.                          *)
LEMMA ReadPanicsInv ==
  ASSUME IInv, ReadPanics
  PROVE  IInv'
<1> USE TableType
<1>1. /\ pc = "read" /\ pc' = "panicked"
      /\ UNCHANGED <<table, fails, rows, types, at, col, writer, batches, out>>
  BY DEF ReadPanics
<1>2. TypeOK' /\ RowsInv' /\ WriterInv' /\ CursorInv' /\ OutInv'
  BY <1>1 DEF IInv, TypeOK, RowsInv, WriterInv, CursorInv, OutInv
<1>3. TypesInv'
  <2>1. Scanned' = 0
    BY <1>1 DEF Scanned
  <2>2. QED
    BY <1>1, <2>1 DEF IInv, TypesInv
<1>4. SoundNeverPanics'
  <2>1. ~Readable
    BY DEF ReadPanics, Readable
  <2>2. Readable' <=> Readable
    BY <1>1 DEF Readable
  <2>3. QED
    BY <2>1, <2>2 DEF SoundNeverPanics, Sound
<1>5. QED
  BY <1>2, <1>3, <1>4 DEF IInv

LEMMA ReadDoneInv ==
  ASSUME IInv, ReadErr \/ ReadEnd
  PROVE  IInv'
<1> USE TableType
<1>1. /\ pc = "read" /\ pc' \in {"infer", "closed"} /\ Len(rows) = Len(table)
      /\ UNCHANGED <<table, fails, rows, types, at, col, writer, batches, out>>
  BY DEF ReadErr, ReadEnd
<1>2. at = 1 /\ out = <<>>
  BY <1>1 DEF IInv, RowsInv, OutInv
<1>3. rows = table
  <2>1. rows \in Seq([Columns -> StorageClasses \cup {Null}])
    BY DEF IInv, TypeOK
  <2>2. \A i \in 1 .. Len(rows) : rows[i] = table[i]
    BY DEF IInv, RowsInv
  <2>3. QED
    BY <1>1, <2>1, <2>2, SeqEqual
<1>4. TypeOK'
  BY <1>1 DEF IInv, TypeOK
<1>5. RowsInv'
  BY <1>1, <1>2, <1>3 DEF IInv, RowsInv
<1>6. TypesInv'
  <2>1. Scanned' = 0
    BY <1>1, <1>2 DEF Scanned
  <2>2. QED
    BY <1>1, <2>1 DEF IInv, TypesInv
<1>7. WriterInv' /\ CursorInv' /\ SoundNeverPanics' /\ OutInv'
  BY <1>1, <1>2 DEF WriterInv, CursorInv, SoundNeverPanics, OutInv
<1>8. QED
  BY <1>4, <1>5, <1>6, <1>7 DEF IInv

(* Leaving the loop early leaves no column untyped that has a value.       *)
LEMMA InferRowInv ==
  ASSUME IInv, InferRow
  PROVE  IInv'
<1> USE TableType
<1>1. /\ pc = "infer" /\ at <= Len(rows)
      /\ types' = [c \in Columns |-> IF types[c] = Null THEN rows[at][c] ELSE types[c]]
      /\ at' = (IF \A c \in Columns : types'[c] # Null THEN Len(rows) + 1 ELSE at + 1)
      /\ UNCHANGED <<table, fails, rows, pc, col, writer, batches, out>>
  BY DEF InferRow
<1>2. at \in 1 .. Len(rows) /\ at' \in 1 .. Len(rows) + 1
  BY <1>1 DEF IInv, RowsInv
<1>3. /\ rows[at] \in [Columns -> StorageClasses \cup {Null}]
      /\ types \in [Columns -> StorageClasses \cup {Null}]
  BY <1>2 DEF IInv, TypeOK
<1>4. types' \in [Columns -> StorageClasses \cup {Null}]
  BY <1>1, <1>3
<1>5. TypeOK'
  BY <1>1, <1>2, <1>4 DEF IInv, TypeOK
<1>6. RowsInv'
  BY <1>1, <1>2 DEF IInv, RowsInv
<1>7. TypesInv'
  <2> SUFFICES ASSUME NEW c \in Columns
               PROVE  /\ types'[c] = Null => \A i \in 1 .. Scanned' : rows[i][c] = Null
                      /\ types'[c] # Null => \E i \in DOMAIN rows : rows[i][c] = types'[c]
    BY <1>1 DEF TypesInv
  <2>1. ASSUME types'[c] = Null, NEW i \in 1 .. Scanned' PROVE rows[i][c] = Null
    <3>1. types[c] = Null /\ rows[at][c] = Null
      BY <1>1, <2>1
    <3>2. at' = at + 1 /\ Scanned' = at /\ Scanned = at - 1
      BY <1>1, <2>1 DEF Scanned
    <3>3. \A j \in 1 .. at - 1 : rows[j][c] = Null
      BY <3>1, <3>2 DEF IInv, TypesInv
    <3>4. i = at \/ i \in 1 .. at - 1
      BY <1>2, <2>1, <3>2
    <3>5. QED
      BY <3>1, <3>3, <3>4
  <2>2. ASSUME types'[c] # Null PROVE \E i \in DOMAIN rows : rows[i][c] = types'[c]
    BY <1>1, <1>2, <2>2 DEF IInv, TypesInv
  <2>3. QED
    BY <2>1, <2>2
<1>8. WriterInv' /\ CursorInv' /\ SoundNeverPanics' /\ OutInv'
  BY <1>1 DEF WriterInv, CursorInv, SoundNeverPanics, IInv, OutInv
<1>9. QED
  BY <1>5, <1>6, <1>7, <1>8 DEF IInv

LEMMA InferEndInv ==
  ASSUME IInv, InferEnd
  PROVE  IInv'
<1> USE TableType
<1>1. /\ pc = "infer" /\ at > Len(rows) /\ writer' = NewWriter(Len(rows))
      /\ at' = 0 /\ pc' = "rows"
      /\ UNCHANGED <<table, fails, rows, types, col, batches, out>>
  BY DEF InferEnd
<1>2. rows = table
  BY <1>1 DEF IInv, RowsInv
<1>3. TypeOK'
  <2>1. WriterOK(writer', Cell)
    BY <1>1, NewWriterType
  <2>2. QED
    BY <1>1, <2>1 DEF IInv, TypeOK
<1>4. RowsInv'
  BY <1>1, <1>2 DEF IInv, RowsInv
<1>5. TypesInv'
  <2>1. Scanned' = Len(rows) /\ Scanned = at - 1
    BY <1>1 DEF Scanned
  <2>2. at - 1 >= Len(rows)
    BY <1>1
  <2>3. QED
    BY <1>1, <2>1, <2>2 DEF IInv, TypesInv
<1>6. WriterInv'
  <2>1. /\ writer'.min_batch_size = Len(rows) /\ writer'.data = <<>>
        /\ writer'.rows_reserved = 0 /\ ~writer'.has_builders
        /\ writer'.rows_capacity = 0 /\ \A c \in Columns : writer'.builders[c] = <<>>
    BY <1>1 DEF NewWriter, NoCells
  <2>2. \A c \in Columns : Filled(c)' = 0
    BY <1>1 DEF Filled
  <2>3. QED
    BY <1>1, <2>1, <2>2 DEF WriterInv
<1>7. CursorInv' /\ SoundNeverPanics' /\ OutInv'
  BY <1>1 DEF CursorInv, SoundNeverPanics, IInv, OutInv
<1>8. QED
  BY <1>3, <1>4, <1>5, <1>6, <1>7 DEF IInv

-----------------------------------------------------------------------------
(* There is room for every row: the writer was sized to the whole result.  *)
LEMMA PrepareTaken ==
  ASSUME IInv, pc = "rows", at < Len(rows)
  PROVE  LET p == PrepareForBatch(writer, 1)
         IN /\ p \in Writer(Cell)
            /\ p.result = "Ok"
            /\ p.min_batch_size = Len(rows)
            /\ p.data = <<>>
            /\ p.next_col = 0
            /\ p.has_builders
            /\ p.builders = (IF at = 0 THEN NoCells ELSE writer.builders)
            /\ p.rows_reserved = at + 1
            /\ p.rows_capacity = Len(rows)
<1> USE TableType
<1>1. /\ writer \in Writer(Cell)
      /\ writer.min_batch_size = Len(rows)
      /\ writer.data = <<>>
      /\ writer.rows_reserved = at
      /\ writer.has_builders <=> at > 0
      /\ writer.rows_capacity = IF at = 0 THEN 0 ELSE Len(rows)
  BY DEF IInv, TypeOK, WriterInv, WriterOK
<1>2. CASE at = 0
  BY <1>1, <1>2, PrepareFirst
<1>3. CASE at # 0
  <2>1. writer.has_builders
    BY <1>1, <1>3
  <2>2. writer.rows_reserved < writer.rows_capacity
    BY <1>1, <1>3
  <2>3. QED
    BY <1>1, <1>3, <2>1, <2>2, PrepareMore
<1>4. QED
  BY <1>2, <1>3

LEMMA ConvertRowInv ==
  ASSUME IInv, ConvertRow
  PROVE  IInv'
<1> USE TableType
<1> DEFINE p == PrepareForBatch(writer, 1)
<1>1. /\ pc = "rows" /\ at < Len(rows) /\ at' = at + 1 /\ col' = 0
      /\ UNCHANGED <<table, fails, rows, types, batches, out>>
  BY DEF ConvertRow
<1>2. /\ p \in Writer(Cell)
      /\ p.result = "Ok"
      /\ p.min_batch_size = Len(rows)
      /\ p.data = <<>>
      /\ p.next_col = 0
      /\ p.has_builders
      /\ p.builders = (IF at = 0 THEN NoCells ELSE writer.builders)
      /\ p.rows_reserved = at + 1
      /\ p.rows_capacity = Len(rows)
  BY <1>1, PrepareTaken
<1>3. writer' = p /\ pc' = (IF ColCount = 0 THEN "rows" ELSE "cells")
  BY <1>2 DEF ConvertRow
<1> HIDE DEF p
<1>4. TypeOK'
  <2>1. WriterOK(writer', Cell)
    BY <1>1, <1>2, <1>3 DEF WriterOK
  <2>2. QED
    BY <1>1, <1>3, <2>1, ColumnsAssumption DEF IInv, TypeOK
<1>5. RowsInv' /\ TypesInv'
  <2>1. RowsInv'
    BY <1>1, <1>3 DEF IInv, RowsInv
  <2>2. Scanned' = Scanned
    BY <1>1, <1>3 DEF Scanned
  <2>3. QED
    BY <1>1, <2>1, <2>2 DEF IInv, TypesInv
<1>6. WriterInv'
  <2>1. ASSUME NEW c \in Columns
        PROVE  /\ Len(p.builders[c]) = Filled(c)'
               /\ \A k \in 1 .. Filled(c)' :
                    p.builders[c][k] = CellAt(k, c) /\ Convertible(rows[k][c], types[c])
    <3>1. c >= 0 /\ pc' = "cells"
      BY <1>3, ColumnsAssumption DEF Columns
    <3>2. Filled(c) = at /\ Filled(c)' = at
      BY <1>1, <3>1 DEF Filled
    <3>3. /\ Len(writer.builders[c]) = at
          /\ \A k \in 1 .. at :
               writer.builders[c][k] = CellAt(k, c) /\ Convertible(rows[k][c], types[c])
      BY <1>1, <3>2 DEF IInv, WriterInv
    <3>4. CASE at = 0
      BY <1>2, <3>2, <3>4 DEF NoCells
    <3>5. CASE at # 0
      BY <1>2, <3>2, <3>3, <3>5
    <3>6. QED
      BY <3>4, <3>5
  <2>2. \A k, c : CellAt(k, c)' = CellAt(k, c)
    BY <1>1 DEF CellAt
  <2>3. QED
    BY <1>1, <1>2, <1>3, <2>1, <2>2 DEF WriterInv
<1>7. CursorInv'
  BY <1>1, <1>2, <1>3, ColumnsAssumption DEF CursorInv
<1>8. SoundNeverPanics' /\ OutInv'
  BY <1>1, <1>3 DEF IInv, SoundNeverPanics, OutInv
<1>9. QED
  BY <1>4, <1>5, <1>6, <1>7, <1>8 DEF IInv

(* A value that does not fit its column's type is one of two classes.      *)
LEMMA UnfitIsMixed ==
  ASSUME IInv, rows = table, NEW c \in Columns, NEW k \in DOMAIN table,
         ~Convertible(rows[k][c], types[c])
  PROVE  ~Uniform
<1>1. types[c] # Null /\ rows[k][c] # Null /\ rows[k][c] # types[c]
  BY DEF Convertible
<1>2. PICK i \in DOMAIN table : table[i][c] = types[c]
  BY <1>1 DEF IInv, TypesInv
<1>3. table[k][c] \in ClassesOf(c) /\ table[i][c] \in ClassesOf(c)
  BY <1>1, <1>2 DEF ClassesOf
<1>4. QED
  BY <1>1, <1>2, <1>3 DEF Uniform

LEMMA FitIsUniform ==
  ASSUME IInv, rows = table, Scanned = Len(rows),
         \A c \in Columns : \A k \in DOMAIN table : Convertible(rows[k][c], types[c])
  PROVE  Uniform
<1> USE TableType
<1> SUFFICES ASSUME NEW c \in Columns, NEW s \in ClassesOf(c), NEW t \in ClassesOf(c)
             PROVE  s = t
  BY DEF Uniform
<1>1. ASSUME NEW u \in ClassesOf(c) PROVE u = types[c]
  <2>1. PICK k \in DOMAIN table : u = table[k][c] /\ u # Null
    BY DEF ClassesOf
  <2>2. types[c] # Null
    BY <2>1 DEF IInv, TypesInv
  <2>3. QED
    BY <2>1, <2>2 DEF Convertible
<1>2. QED
  BY <1>1

LEMMA ConvertCellInv ==
  ASSUME IInv, ConvertCell
  PROVE  IInv'
<1> USE TableType
<1> DEFINE class == rows[at][col]
           null  == types[col] = Null \/ class = Null
           cell  == [row |-> at, col |-> col, null |-> null, class |-> class]
           q     == Consume(writer, cell)
<1>1. /\ pc = "cells" /\ col' = col + 1
      /\ UNCHANGED <<table, fails, rows, types, at, batches, out>>
  BY DEF ConvertCell
<1>2. /\ writer \in Writer(Cell)
      /\ writer.rows_reserved <= writer.rows_capacity
      /\ at \in 1 .. Len(rows) /\ col \in Columns /\ col < ColCount /\ ColCount \in Nat
      /\ writer.next_col = col
      /\ writer.has_builders
      /\ writer.builders \in [Columns -> Seq(Cell)]
      /\ rows = table /\ Scanned = Len(rows)
  <2>1. /\ writer \in Writer(Cell) /\ writer.rows_reserved <= writer.rows_capacity
        /\ writer.next_col = col /\ writer.has_builders
        /\ rows = table
    BY <1>1 DEF IInv, TypeOK, WriterOK, WriterInv, CursorInv, RowsInv
  <2>2. at \in 1 .. Len(rows) /\ col \in Columns /\ col < ColCount /\ ColCount \in Nat
    BY <1>1, ColumnsAssumption DEF IInv, TypeOK, CursorInv, Columns
  <2>3. writer.builders \in [Columns -> Seq(Cell)]
    BY <2>1 DEF Writer
  <2>4. Scanned = Len(rows)
    BY <1>1 DEF Scanned
  <2>5. QED
    BY <2>1, <2>2, <2>3, <2>4
<1>3. class \in StorageClasses \cup {Null}
  BY <1>2 DEF IInv, TypeOK
<1>4. cell = CellAt(at, col)
  <2>1. types[col] = Null => class = Null
    BY <1>2 DEF IInv, TypesInv
  <2>2. null <=> class = Null
    BY <2>1
  <2>3. QED
    BY <2>2 DEF CellAt
<1>5. cell \in Cell
  BY <1>2, <1>3 DEF Cell
<1>6. /\ q \in Writer(Cell)
      /\ q.result = "Ok"
      /\ q.min_batch_size = writer.min_batch_size
      /\ q.data = writer.data
      /\ q.next_col = NextColIndex(writer)
      /\ q.has_builders
      /\ \A c \in Columns :
           q.builders[c] = IF c = col THEN Append(writer.builders[c], cell)
                           ELSE writer.builders[c]
      /\ q.rows_reserved = writer.rows_reserved
      /\ q.rows_capacity = writer.rows_capacity
  <2> HIDE DEF cell
  <2>1. QED
    BY <1>2, <1>5, ConsumeOk
<1>7. IF Convertible(class, types[col])
      THEN writer' = q /\ pc' = IF col + 1 = ColCount THEN "rows" ELSE "cells"
      ELSE pc' = "panicked" /\ UNCHANGED writer
  BY <1>6 DEF ConvertCell, Panic
<1>8. WriterOK(writer', Cell)
  <2> HIDE DEF q
  <2>1. QED
    BY <1>2, <1>6, <1>7 DEF WriterOK
<1>9. TypeOK'
  <2>1. pc' \in {"rows", "cells", "panicked"} /\ col' \in 0 .. ColCount
    BY <1>1, <1>2, <1>7
  <2>2. QED
    BY <1>1, <1>2, <1>8, <2>1 DEF IInv, TypeOK
<1>10. RowsInv' /\ TypesInv' /\ OutInv'
  <2>1. pc' \in {"rows", "cells", "panicked"}
    BY <1>7
  <2>2. RowsInv' /\ OutInv'
    BY <1>1, <1>2, <2>1 DEF IInv, RowsInv, OutInv
  <2>3. Scanned' \in {0, Len(rows)}
    BY <1>1, <2>1 DEF Scanned
  <2>4. QED
    BY <1>1, <1>2, <2>2, <2>3 DEF IInv, TypesInv
<1>11. CASE ~Convertible(class, types[col])
  <2>1. pc' = "panicked" /\ UNCHANGED writer
    BY <1>7, <1>11
  <2>2. ~Uniform
    BY <1>2, <1>11, UnfitIsMixed
  <2>3. ~Uniform'
    BY <1>1, <2>2 DEF Uniform, ClassesOf
  <2>4. WriterInv' /\ CursorInv' /\ SoundNeverPanics'
    BY <2>1, <2>3 DEF WriterInv, CursorInv, SoundNeverPanics, Sound
  <2>5. QED
    BY <1>9, <1>10, <2>4 DEF IInv
<1>12. CASE Convertible(class, types[col])
  <2>1. writer' = q /\ pc' = IF col + 1 = ColCount THEN "rows" ELSE "cells"
    BY <1>7, <1>12
  <2>2. Convertible(rows[at][col], types[col])
    BY <1>12
  <2> HIDE DEF q, cell, class
  <2>3. WriterInv'
    <3>1. \A c \in Columns :
            /\ Filled(c) = (IF c >= col THEN at - 1 ELSE at)
            /\ Filled(c)' = (IF c > col THEN at - 1 ELSE at)
      <4> SUFFICES ASSUME NEW c \in Columns
                   PROVE  /\ Filled(c) = (IF c >= col THEN at - 1 ELSE at)
                          /\ Filled(c)' = (IF c > col THEN at - 1 ELSE at)
        OBVIOUS
      <4>1. c \in Nat /\ c < ColCount
        BY <1>2 DEF Columns
      <4>2. Filled(c) = (IF c >= col THEN at - 1 ELSE at)
        BY <1>1 DEF Filled
      <4>3. Filled(c)' = (IF c > col THEN at - 1 ELSE at)
        BY <1>1, <1>2, <2>1, <4>1 DEF Filled
      <4>4. QED
        BY <4>2, <4>3
    <3>2. ASSUME NEW c \in Columns
          PROVE  /\ Len(q.builders[c]) = Filled(c)'
                 /\ \A k \in 1 .. Filled(c)' :
                      q.builders[c][k] = CellAt(k, c) /\ Convertible(rows[k][c], types[c])
      <4>1. /\ Len(writer.builders[c]) = Filled(c)
            /\ \A k \in 1 .. Filled(c) :
                 writer.builders[c][k] = CellAt(k, c) /\ Convertible(rows[k][c], types[c])
        BY <1>1 DEF IInv, WriterInv
      <4>2. CASE c # col
        <5>1. q.builders[c] = writer.builders[c]
          BY <1>2, <1>6, <4>2
        <5>2. Filled(c)' = Filled(c)
          BY <1>2, <3>1, <4>2 DEF Columns
        <5>3. QED
          BY <4>1, <5>1, <5>2
      <4>3. CASE c = col
        <5>1. q.builders[c] = Append(writer.builders[c], cell)
          BY <1>2, <1>6, <4>3
        <5>2. Filled(c) = at - 1 /\ Filled(c)' = at
          BY <1>2, <3>1, <4>3
        <5>3. writer.builders[c] \in Seq(Cell)
          BY <1>2
        <5>4. Len(q.builders[c]) = at
          BY <1>2, <1>5, <4>1, <5>1, <5>2, <5>3
        <5>5. ASSUME NEW k \in 1 .. at
              PROVE  q.builders[c][k] = CellAt(k, c) /\ Convertible(rows[k][c], types[c])
          <6>1. CASE k = at
            <7>1. q.builders[c][k] = cell
              BY <1>2, <1>5, <4>1, <5>1, <5>2, <5>3, <6>1
            <7>2. QED
              BY <1>4, <2>2, <4>3, <6>1, <7>1
          <6>2. CASE k # at
            <7>1. k \in 1 .. Len(writer.builders[c])
              BY <1>2, <4>1, <5>2, <6>2
            <7>2. q.builders[c][k] = writer.builders[c][k]
              BY <1>5, <5>1, <5>3, <7>1
            <7>3. QED
              BY <4>1, <7>1, <7>2
          <6>3. QED
            BY <6>1, <6>2
        <5>6. QED
          BY <5>2, <5>4, <5>5
      <4>4. QED
        BY <4>2, <4>3
    <3>3. /\ q.min_batch_size = Len(rows) /\ q.data = <<>> /\ q.rows_reserved = at
          /\ q.rows_capacity = (IF at = 0 THEN 0 ELSE Len(rows))
      BY <1>1, <1>6 DEF IInv, WriterInv
    <3>4. \A k, c : CellAt(k, c)' = CellAt(k, c)
      BY <1>1 DEF CellAt
    <3>5. QED
      BY <1>1, <1>2, <1>6, <2>1, <3>2, <3>3, <3>4 DEF WriterInv
  <2>4. CursorInv'
    BY <1>1, <1>2, <1>6, <2>1 DEF CursorInv, NextColIndex
  <2>5. SoundNeverPanics'
    BY <2>1 DEF SoundNeverPanics
  <2>6. QED
    BY <1>9, <1>10, <2>3, <2>4, <2>5 DEF IInv
<1>13. QED
  BY <1>11, <1>12

(* The one batch holds the whole table.                                    *)
LEMMA BuildersAreComplete ==
  ASSUME IInv, pc = "rows", at = Len(rows)
  PROVE  /\ rows = table /\ Sound
         /\ writer.builders = Complete
<1> USE TableType
<1>1. rows = table /\ Scanned = Len(rows)
  BY DEF IInv, RowsInv, Scanned
<1>2. writer.builders \in [Columns -> Seq(Cell)]
  BY DEF IInv, TypeOK, WriterOK, Writer
<1>3. \A c \in Columns :
        /\ Len(writer.builders[c]) = Len(rows)
        /\ \A k \in 1 .. Len(rows) :
             writer.builders[c][k] = CellAt(k, c) /\ Convertible(rows[k][c], types[c])
  BY DEF IInv, WriterInv, Filled
<1>4. Sound
  <2>1. Uniform
    BY <1>1, <1>3, FitIsUniform
  <2>2. rows \in Seq([Columns -> StorageClasses \cup {Null}])
    BY DEF IInv, TypeOK
  <2>3. Readable
    BY <1>1, <2>2, BufferedAssumption DEF Readable, ReadableRow
  <2>4. QED
    BY <2>1, <2>3 DEF Sound
<1>5. ASSUME NEW c \in Columns PROVE writer.builders[c] = Complete[c]
  <2>1. writer.builders[c] = [k \in 1 .. Len(rows) |-> writer.builders[c][k]]
    BY <1>2, <1>3
  <2>2. \A k \in 1 .. Len(rows) : writer.builders[c][k] = CellAt(k, c)
    BY <1>3
  <2>3. Complete[c] = [k \in 1 .. Len(rows) |-> CellAt(k, c)]
    BY <1>1 DEF Complete, CellAt
  <2>4. QED
    BY <2>1, <2>2, <2>3
<1>6. writer.builders = [c \in Columns |-> writer.builders[c]]
      /\ Complete = [c \in Columns |-> Complete[c]]
  BY <1>2 DEF Complete
<1>7. writer.builders = Complete
  BY <1>5, <1>6
<1>8. QED
  BY <1>1, <1>4, <1>7

LEMMA ConvertEndInv ==
  ASSUME IInv, ConvertEnd
  PROVE  IInv'
<1> USE TableType
<1>1. /\ pc = "rows" /\ at = Len(rows) /\ writer' = NewWriter(0)
      /\ UNCHANGED <<table, fails, rows, types, at, col, out>>
  BY DEF ConvertEnd
<1>2. rows = table /\ Sound /\ writer.builders = Complete
  BY <1>1, BuildersAreComplete
<1>3. /\ writer \in Writer(Cell) /\ writer.data = <<>>
      /\ writer.has_builders <=> at > 0
      /\ writer.rows_reserved = at
      /\ writer.builders \in [Columns -> Seq(Cell)]
      /\ \A c \in Columns : Len(writer.builders[c]) = at
      /\ out = <<>>
  <2>1. writer \in Writer(Cell)
    BY DEF IInv, TypeOK, WriterOK
  <2>2. QED
    BY <1>1, <2>1 DEF IInv, WriterInv, OutInv, Filled, Writer
<1>4. \/ /\ table = <<>> /\ batches' = <<>> /\ pc' = "ready"
      \/ /\ Servable /\ batches' = <<Complete>> /\ pc' = "ready"
      \/ /\ batches' = batches /\ pc' = "closed"
  <2>1. CASE at = 0
    <3>1. Finish(writer).result = "Ok" /\ Finish(writer).data = <<>>
      BY <1>3, <2>1, FinishNothing
    <3>2. batches' = <<>> /\ pc' = "ready"
      BY <3>1 DEF ConvertEnd
    <3>3. table = <<>>
      BY <1>1, <1>2, <2>1 DEF IInv, TypeOK
    <3>4. QED
      BY <3>2, <3>3
  <2>2. CASE at # 0
    <3>1. writer.has_builders
      BY <1>3, <2>2
    <3>2. /\ Acceptable(writer.builders) =>
               Finish(writer).result = "Ok"
                 /\ Finish(writer).data = Append(writer.data, writer.builders)
          /\ ~Acceptable(writer.builders) => Finish(writer).result = "Err"
      BY <1>3, <3>1, FinishComplete
    <3>3. CASE Acceptable(writer.builders)
      <4>1. Append(writer.data, writer.builders) = <<Complete>>
        BY <1>2, <1>3
      <4>2. batches' = <<Complete>> /\ pc' = "ready"
        BY <3>2, <3>3, <4>1 DEF ConvertEnd
      <4>3. table # <<>> /\ ColCount > 0
        BY <1>1, <1>2, <2>2, <3>3 DEF Acceptable
      <4>4. QED
        BY <1>2, <4>2, <4>3 DEF Servable
    <3>4. CASE ~Acceptable(writer.builders)
      BY <3>2, <3>4 DEF ConvertEnd
    <3>5. QED
      BY <3>3, <3>4
  <2>3. QED
    BY <2>1, <2>2
<1>5. TypeOK'
  <2>1. WriterOK(writer', Cell)
    BY <1>1, NewWriterType
  <2>2. Complete \in [Columns -> Seq(Cell)]
    BY <1>2, <1>3
  <2>3. batches' \in Seq([Columns -> Seq(Cell)])
    <3>1. <<Complete>> \in Seq([Columns -> Seq(Cell)])
      BY <2>2
    <3>2. batches \in Seq([Columns -> Seq(Cell)])
      BY DEF IInv, TypeOK
    <3>3. batches' = <<>> \/ batches' = <<Complete>> \/ batches' = batches
      BY <1>4
    <3>4. <<>> \in Seq([Columns -> Seq(Cell)])
      OBVIOUS
    <3>5. CASE batches' = <<>>
      BY <3>4, <3>5
    <3>6. CASE batches' = <<Complete>>
      BY <3>1, <3>6
    <3>7. CASE batches' = batches
      BY <3>2, <3>7
    <3>8. QED
      BY <3>3, <3>5, <3>6, <3>7
  <2>4. pc' \in {"ready", "closed"}
    BY <1>4
  <2>5. QED
    BY <1>1, <2>1, <2>3, <2>4 DEF IInv, TypeOK
<1>6. pc' \in {"ready", "closed"}
  BY <1>4
<1>7. RowsInv' /\ TypesInv'
  <2>1. RowsInv'
    BY <1>1, <1>2, <1>6 DEF IInv, RowsInv
  <2>2. Scanned = Len(rows) /\ Scanned' \in {0, Len(rows)}
    BY <1>1, <1>6 DEF Scanned
  <2>3. TypesInv'
    BY <1>1, <2>2 DEF IInv, TypesInv
  <2>4. QED
    BY <2>1, <2>3
<1>8. UNCHANGED <<Complete, Servable>>
  BY <1>1 DEF Complete, Servable, Sound, Uniform, Readable, ClassesOf
<1>9. OutInv'
  <2>1. out' = <<>> /\ table' = table
    BY <1>1, <1>3
  <2>2. QED
    BY <1>4, <1>6, <1>8, <2>1 DEF OutInv
<1>10. WriterInv' /\ CursorInv' /\ SoundNeverPanics'
  BY <1>6 DEF WriterInv, CursorInv, SoundNeverPanics
<1>11. QED
  BY <1>5, <1>7, <1>9, <1>10 DEF IInv

-----------------------------------------------------------------------------
LEMMA AppendPair ==
  ASSUME NEW x, NEW y
  PROVE  Append(<<x>>, y) = <<x, y>>
<1> DEFINE S == {x, y}
<1>1. x \in S /\ y \in S
  OBVIOUS
<1> HIDE DEF S
<1>2. <<x>> \in Seq(S) /\ Len(<<x>>) = 1 /\ <<x>>[1] = x
  BY <1>1
<1>3. <<x, y>> \in Seq(S) /\ Len(<<x, y>>) = 2 /\ <<x, y>>[1] = x /\ <<x, y>>[2] = y
  BY <1>1
<1>4. /\ Append(<<x>>, y) \in Seq(S) /\ Len(Append(<<x>>, y)) = 2
      /\ Append(<<x>>, y)[1] = x /\ Append(<<x>>, y)[2] = y
  BY <1>1, <1>2, AppendProperties
<1>5. \A i \in 1 .. 2 : Append(<<x>>, y)[i] = <<x, y>>[i]
  BY <1>3, <1>4
<1>6. QED
  BY <1>3, <1>4, <1>5, SeqEqual

LEMMA OneElement ==
  ASSUME NEW S, NEW x \in S
  PROVE  <<x>> \in Seq(S)
  OBVIOUS

(* The ArrowReader serves the batch, then nothing.                         *)
LEMMA NextBatchIs ==
  ASSUME IInv, NextBatch
  PROVE  /\ Servable /\ out = <<>> /\ out' = <<Served>> /\ batches' = <<>>
         /\ Complete \in [Columns -> Seq(Cell)]
<1>1. pc = "ready" /\ batches # <<>>
  BY DEF NextBatch
<1>2. Servable /\ batches = <<Complete>> /\ out = <<>>
  BY <1>1 DEF IInv, OutInv
<1>3. Head(batches) = Complete /\ Tail(batches) = <<>>
  BY <1>2
<1>4. out' = <<Served>> /\ batches' = <<>>
  BY <1>2, <1>3 DEF NextBatch, Served
<1>5. Complete \in [Columns -> Seq(Cell)]
  BY <1>2 DEF IInv, TypeOK
<1>6. QED
  BY <1>2, <1>4, <1>5

LEMMA NextNoneIs ==
  ASSUME IInv, NextNone
  PROVE  \/ table = <<>> /\ out = <<>> /\ out' = <<EndOfResult>>
         \/ Servable /\ out = <<Served>> /\ out' = <<Served, EndOfResult>>
<1>1. pc = "ready" /\ batches = <<>> /\ out' = Append(out, EndOfResult)
  BY DEF NextNone, EndOfResult
<1>2. \/ table = <<>> /\ out = <<>>
      \/ Servable /\ out = <<Served>>
  BY <1>1 DEF IInv, OutInv
<1>3. Append(<<>>, EndOfResult) = <<EndOfResult>>
      /\ Append(<<Served>>, EndOfResult) = <<Served, EndOfResult>>
  BY AppendPair
<1>4. QED
  BY <1>1, <1>2, <1>3

LEMMA NextInv_ ==
  ASSUME IInv, NextBatch \/ NextNone
  PROVE  IInv'
<1> USE TableType
<1>1. /\ pc = "ready" /\ pc' \in {"ready", "closed"} /\ batches' \in {batches, <<>>}
      /\ UNCHANGED <<table, fails, rows, types, at, col, writer>>
      /\ NextBatch => pc' = "ready"
      /\ NextNone => pc' = "closed"
  BY NextBatchIs DEF NextBatch, NextNone
<1>2. UNCHANGED <<Complete, Servable, Served, EndOfResult>>
  BY <1>1 DEF Complete, Servable, Sound, Uniform, Readable, ClassesOf, Served, EndOfResult
<1>3. out' \in Seq(Result)
  <2>1. NoCells \in [Columns -> Seq(Cell)]
    BY DEF NoCells
  <2>2. EndOfResult \in Result
    BY <2>1 DEF EndOfResult, Result
  <2>3. CASE NextBatch
    <3>1. Served \in Result
      BY <2>3, NextBatchIs DEF Served, Result
    <3>2. QED
      BY <2>3, <3>1, NextBatchIs, OneElement
  <2>4. CASE NextNone
    <3>1. out \in Seq(Result) /\ out' = Append(out, EndOfResult)
      BY <2>4 DEF IInv, TypeOK, NextNone, EndOfResult
    <3>2. QED
      BY <2>2, <3>1
  <2>5. QED
    BY <2>3, <2>4
<1>4. TypeOK'
  <2>1. batches' \in Seq([Columns -> Seq(Cell)])
    <3>1. CASE batches' = batches
      BY <3>1 DEF IInv, TypeOK
    <3>2. CASE batches' = <<>>
      BY <3>2
    <3>3. QED
      BY <1>1, <3>1, <3>2
  <2>2. QED
    BY <1>1, <1>3, <2>1 DEF IInv, TypeOK
<1>5. RowsInv' /\ TypesInv'
  <2>1. RowsInv'
    BY <1>1 DEF IInv, RowsInv
  <2>2. Scanned = Len(rows) /\ Scanned' \in {0, Len(rows)}
    BY <1>1 DEF Scanned
  <2>3. QED
    BY <1>1, <2>1, <2>2 DEF IInv, TypesInv
<1>6. OutInv'
  <2>1. CASE NextBatch
    BY <1>1, <1>2, <2>1, NextBatchIs DEF OutInv
  <2>2. CASE NextNone
    BY <1>1, <1>2, <2>2, NextNoneIs DEF OutInv
  <2>3. QED
    BY <2>1, <2>2
<1>7. WriterInv' /\ CursorInv' /\ SoundNeverPanics'
  BY <1>1 DEF WriterInv, CursorInv, SoundNeverPanics
<1>8. QED
  BY <1>4, <1>5, <1>6, <1>7 DEF IInv

LEMMA NextInv == IInv /\ [Next]_vars => IInv'
<1> SUFFICES ASSUME IInv, [Next]_vars PROVE IInv'
  OBVIOUS
<1>1. CASE ReadRow
  BY <1>1, ReadRowInv
<1>2. CASE ReadErr \/ ReadEnd
  BY <1>2, ReadDoneInv
<1>3. CASE InferRow
  BY <1>3, InferRowInv
<1>4. CASE InferEnd
  BY <1>4, InferEndInv
<1>5. CASE ConvertRow
  BY <1>5, ConvertRowInv
<1>6. CASE ConvertCell
  BY <1>6, ConvertCellInv
<1>7. CASE ConvertEnd
  BY <1>7, ConvertEndInv
<1>8. CASE NextBatch \/ NextNone
  BY <1>8, NextInv_
<1>9. CASE ReadPanics
  BY <1>9, ReadPanicsInv
<1>10. CASE UNCHANGED vars
  <2>1. UNCHANGED <<table, fails, rows, types, pc, at, col, writer, batches, out>>
    BY <1>10 DEF vars
  <2>2. UNCHANGED <<Scanned, Complete, Servable, Served, EndOfResult, Sound>>
    BY <2>1 DEF Scanned, Complete, Servable, Sound, Uniform, Readable, ClassesOf, Served,
           EndOfResult
  <2>3. \A k, c : UNCHANGED <<CellAt(k, c), Filled(c)>>
    BY <2>1 DEF CellAt, Filled
  <2>4. TypeOK' /\ RowsInv' /\ TypesInv' /\ CursorInv'
    BY <2>1, <2>2 DEF IInv, TypeOK, RowsInv, TypesInv, CursorInv
  <2>5. WriterInv' /\ SoundNeverPanics' /\ OutInv'
    BY <2>1, <2>2, <2>3 DEF IInv, WriterInv, SoundNeverPanics, OutInv
  <2>6. QED
    BY <2>4, <2>5 DEF IInv
<1>11. QED
  BY <1>1, <1>2, <1>3, <1>4, <1>5, <1>6, <1>7, <1>8, <1>9, <1>10 DEF Next

(* Whatever the query yields, and whether it fails.                        *)
THEOREM Invariance == Spec => []IInv
<1>1. QED
  BY InitInv, NextInv, PTL DEF Spec

(* The cursors stay within the buffered rows and their columns.            *)
THEOREM TypeCorrect == Spec => []TypeOK
<1>1. IInv => TypeOK
  BY DEF IInv
<1>2. QED
  BY <1>1, Invariance, PTL

(* A result of text in UTF-8 and of one storage class per column never     *)
(* panics.                                                                 *)
THEOREM SoundIsSafe == Spec => []SoundNeverPanics
<1>1. IInv => SoundNeverPanics
  BY DEF IInv
<1>2. QED
  BY <1>1, Invariance, PTL

(* The batch served is the whole result, and there is no other.            *)
THEOREM WholeResultIsServed == Spec => []WholeResultInOneBatch
<1>1. ASSUME IInv PROVE WholeResultInOneBatch
  <2>1. \/ out \in {<<>>, <<EndOfResult>>}
        \/ Servable /\ out \in {<<Served>>, <<Served, EndOfResult>>}
    <3>1. OutInv
      BY <1>1 DEF IInv
    <3>2. CASE pc = "ready"
      BY <3>1, <3>2 DEF OutInv
    <3>3. CASE pc = "closed"
      BY <3>1, <3>3 DEF OutInv
    <3>4. CASE pc \notin {"ready", "closed"}
      BY <3>1, <3>4 DEF OutInv
    <3>5. QED
      BY <3>2, <3>3, <3>4
  <2>2. ASSUME NEW i \in Converted PROVE i = 1 /\ Servable /\ out[i] = Served
    <3>1. i \in DOMAIN out /\ out[i].kind = "batch"
      BY DEF Converted
    <3>2. EndOfResult.kind # "batch"
      BY DEF EndOfResult
    <3>3. QED
      BY <2>1, <3>1, <3>2
  <2>3. ASSUME NEW i \in Converted
        PROVE  i = 1 /\ Sound /\ out[i].batch = Complete
    BY <2>2 DEF Servable, Served
  <2>4. QED
    BY <2>3 DEF WholeResultInOneBatch, Complete
<1>2. QED
  BY <1>1, Invariance, PTL

-----------------------------------------------------------------------------
(* The refinement of RowDelivery.                                          *)
Log == [i \in DOMAIN out |-> MappedResult(out[i])]

LogOf(o) == [i \in DOMAIN o |-> MappedResult(o[i])]

DeliveredBy(o) ==
  LET batchesOf == { i \in DOMAIN o : o[i].kind = "batch" }
      last == CHOOSE i \in batchesOf : \A j \in batchesOf : j <= i
      rowsOfLast == MappedResult(o[last]).rows
  IN IF batchesOf = {} THEN 0 ELSE rowsOfLast[Len(rowsOfLast)]

LEMMA LogIsOfOut ==
  /\ Log = LogOf(out) /\ Log' = LogOf(out')
  /\ Delivered = DeliveredBy(out) /\ Delivered' = DeliveredBy(out')
  BY DEF Log, LogOf, MappedResult, Delivered, DeliveredBy, Converted

(* The batch of the whole result maps to the items 1 .. Len(table).        *)
LEMMA ServedMapsToBatch ==
  ASSUME IInv, Servable
  PROVE  /\ MappedResult(Served) = Delivery!BatchOf(1, Len(table))
         /\ Len(MappedResult(Served).rows) = Len(table)
         /\ MappedResult(Served).rows[Len(table)] = Len(table)
<1> USE TableType
<1>1. 0 \in Columns /\ Len(table) > 0
  BY ColumnsAssumption DEF Servable, Columns
<1>2. /\ DOMAIN Complete[0] = 1 .. Len(table)
      /\ \A k \in 1 .. Len(table) : Complete[0][k].row = k
  BY <1>1 DEF Complete
<1>3. MappedResult(Served).rows = [k \in 1 .. Len(table) |-> k]
  BY <1>2 DEF MappedResult, Served
<1>4. MappedResult(Served).kind = "batch"
  BY DEF MappedResult, Served
<1>5. [k \in 1 .. Len(table) |-> k] = [k \in 1 .. Len(table) |-> 1 + k - 1]
  OBVIOUS
<1>6. MappedResult(Served) = Delivery!BatchOf(1, Len(table))
  BY <1>3, <1>4, <1>5 DEF MappedResult, Delivery!BatchOf
<1>7. Len([k \in 1 .. Len(table) |-> k]) = Len(table)
  OBVIOUS
<1>8. QED
  BY <1>1, <1>3, <1>6, <1>7

LEMMA EndMapsToEnd == MappedResult(EndOfResult) = Delivery!EndOfRows
  BY DEF MappedResult, EndOfResult, Delivery!EndOfRows

(* The logs the reader can have.                                           *)
LEMMA LogsAre ==
  ASSUME NEW r, NEW s
  PROVE  /\ LogOf(<<>>) = <<>>
         /\ LogOf(<<r>>) = <<MappedResult(r)>>
         /\ LogOf(<<r, s>>) = <<MappedResult(r), MappedResult(s)>>
<1>1. LogOf(<<>>) = <<>>
  BY DEF LogOf
<1>2. LogOf(<<r>>) = <<MappedResult(r)>>
  <2>1. LogOf(<<r>>) = [i \in 1 .. 1 |-> MappedResult(<<r>>[i])]
    BY DEF LogOf
  <2>2. QED
    BY <2>1
<1>3. LogOf(<<r, s>>) = <<MappedResult(r), MappedResult(s)>>
  <2>1. LogOf(<<r, s>>) = [i \in 1 .. 2 |-> MappedResult(<<r, s>>[i])]
    BY DEF LogOf
  <2>2. QED
    BY <2>1
<1>4. QED
  BY <1>1, <1>2, <1>3

(* What has been delivered after each of them.                             *)
LEMMA DeliveredIs ==
  ASSUME IInv
  PROVE  /\ DeliveredBy(<<>>) = 0
         /\ DeliveredBy(<<EndOfResult>>) = 0
         /\ Servable => /\ DeliveredBy(<<Served>>) = Len(table)
                        /\ DeliveredBy(<<Served, EndOfResult>>) = Len(table)
<1>1. EndOfResult.kind # "batch" /\ Served.kind = "batch"
  BY DEF EndOfResult, Served
<1>2. DeliveredBy(<<>>) = 0
  BY DEF DeliveredBy
<1>3. DeliveredBy(<<EndOfResult>>) = 0
  BY <1>1 DEF DeliveredBy
<1>4. ASSUME Servable
      PROVE  /\ DeliveredBy(<<Served>>) = Len(table)
             /\ DeliveredBy(<<Served, EndOfResult>>) = Len(table)
  <2>1. ASSUME NEW o, o = <<Served>> \/ o = <<Served, EndOfResult>>
        PROVE  DeliveredBy(o) = Len(table)
    <3> DEFINE batchesOf == { i \in DOMAIN o : o[i].kind = "batch" }
               last == CHOOSE i \in batchesOf : \A j \in batchesOf : j <= i
    <3>1. batchesOf = {1} /\ o[1] = Served
      BY <1>1, <2>1
    <3>2. last = 1
      BY <3>1
    <3>3. DeliveredBy(o) = MappedResult(o[last]).rows[Len(MappedResult(o[last]).rows)]
      BY <3>1 DEF DeliveredBy
    <3>4. QED
      BY <1>4, <3>1, <3>2, <3>3, ServedMapsToBatch
  <2>2. QED
    BY <2>1
<1>5. QED
  BY <1>2, <1>3, <1>4

(* The call that returns the batch.                                        *)
LEMMA NextBatchDelivers ==
  ASSUME IInv, NextBatch
  PROVE  Delivery!Next
<1> USE TableType
<1>1. Servable /\ out = <<>> /\ out' = <<Served>> /\ table' = table
  BY NextBatchIs DEF NextBatch
<1>2. /\ Log = <<>> /\ Log' = <<Delivery!BatchOf(1, Len(table))>>
      /\ Delivered = 0 /\ Delivered' = Len(table)
  BY <1>1, LogIsOfOut, LogsAre, DeliveredIs, ServedMapsToBatch
<1>3. Len(table) \in 1 .. MaxRows
  BY <1>1, MaxRowsAssumption DEF IInv, TypeOK, Servable
<1>4. ~Delivery!Ended
  BY <1>2 DEF Delivery!Ended, Log
<1>5. Append(<<>>, Delivery!BatchOf(1, Len(table))) = <<Delivery!BatchOf(1, Len(table))>>
  OBVIOUS
<1>6. Delivery!Deliver(Len(table))
  BY <1>1, <1>2, <1>4, <1>5 DEF Delivery!Deliver, Log
<1>7. QED
  BY <1>3, <1>6 DEF Delivery!Next

(* The call that returns None.                                             *)
LEMMA NextNoneEnds ==
  ASSUME IInv, NextNone
  PROVE  Delivery!Next
<1> USE TableType
<1>1. table' = table
  BY DEF NextNone
<1>2. /\ ~Delivery!Ended
      /\ Log' = Append(Log, Delivery!EndOfRows)
      /\ Delivered = Len(table) /\ Delivered' = Len(table)
  <2>1. CASE table = <<>> /\ out = <<>> /\ out' = <<EndOfResult>>
    <3>1. /\ Log = <<>> /\ Log' = <<Delivery!EndOfRows>>
          /\ Delivered = 0 /\ Delivered' = 0
      BY <2>1, LogIsOfOut, LogsAre, DeliveredIs, EndMapsToEnd
    <3>2. Append(<<>>, Delivery!EndOfRows) = <<Delivery!EndOfRows>>
      OBVIOUS
    <3>3. ~Delivery!Ended
      BY <3>1 DEF Delivery!Ended, Log
    <3>4. QED
      BY <2>1, <3>1, <3>2, <3>3
  <2>2. CASE Servable /\ out = <<Served>> /\ out' = <<Served, EndOfResult>>
    <3>1. /\ Log = <<Delivery!BatchOf(1, Len(table))>>
          /\ Log' = <<Delivery!BatchOf(1, Len(table)), Delivery!EndOfRows>>
          /\ Delivered = Len(table) /\ Delivered' = Len(table)
      BY <2>2, LogIsOfOut, LogsAre, DeliveredIs, EndMapsToEnd, ServedMapsToBatch
    <3>2. Delivery!BatchOf(1, Len(table)).kind # Delivery!EndOfRows.kind
      BY DEF Delivery!BatchOf, Delivery!EndOfRows
    <3>3. ~Delivery!Ended
      <4>1. \A i \in DOMAIN Log : Log[i] = Delivery!BatchOf(1, Len(table))
        BY <3>1
      <4>2. QED
        BY <3>2, <4>1 DEF Delivery!Ended, Log
    <3>4. QED
      BY <3>1, <3>3, AppendPair
  <2>3. QED
    BY <2>1, <2>2, NextNoneIs
<1>3. Delivery!End
  BY <1>1, <1>2 DEF Delivery!End, Log
<1>4. QED
  BY <1>3 DEF Delivery!Next

LEMMA StepsOfDelivery == IInv /\ [Next]_vars => [Delivery!Next]_(Delivery!vars)
<1> SUFFICES ASSUME IInv, [Next]_vars PROVE Delivery!Next \/ UNCHANGED Delivery!vars
  OBVIOUS
<1>1. CASE NextBatch
  BY <1>1, NextBatchDelivers
<1>2. CASE NextNone
  BY <1>2, NextNoneEnds
<1>3. CASE UNCHANGED <<table, out>>
  <2>1. Delivered' = Delivered /\ Log' = Log
    BY <1>3, LogIsOfOut
  <2>2. QED
    BY <1>3, <2>1 DEF Delivery!vars, Log
<1>4. \/ NextBatch \/ NextNone \/ UNCHANGED <<table, out>>
  BY DEF Next, ReadRow, ReadPanics, ReadErr, ReadEnd, InferRow, InferEnd,
         ConvertRow, ConvertCell, ConvertEnd, vars
<1>5. QED
  BY <1>1, <1>2, <1>3, <1>4

LEMMA InitOfDelivery == Init => Delivery!Init
<1> SUFFICES ASSUME Init PROVE Delivery!Init
  OBVIOUS
<1>1. IInv
  BY InitInv
<1>2. out = <<>> /\ Len(table) \in Nat
  BY <1>1, TableType DEF Init
<1>3. Delivered = 0 /\ Log = <<>>
  BY <1>1, <1>2, LogIsOfOut, LogsAre, DeliveredIs
<1>4. QED
  BY <1>2, <1>3 DEF Delivery!Init, Log

(* The buffered reader keeps the promise of the streaming ones: RowDelivery *)
(* with the longest result as the bound of a batch.                        *)
THEOREM ImplementsDelivery == Spec => DeliversRows
<1>1. QED
  BY Invariance, InitOfDelivery, StepsOfDelivery, PTL
  DEF Spec, DeliversRows, Delivery!Spec
=============================================================================

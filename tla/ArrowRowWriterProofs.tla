------------------------ MODULE ArrowRowWriterProofs ------------------------
(***************************************************************************)
(* What the methods of an ArrowRowWriter do to its fields, for cells of    *)
(* any kind: the lemmas that the proofs about its clients rest on.         *)
(***************************************************************************)
EXTENDS ArrowRowWriter, TLAPS

(* A new writer is well-formed.                                            *)
LEMMA NewWriterType ==
  ASSUME NEW Cells, NEW n \in Nat
  PROVE  WriterOK(NewWriter(n), Cells)
  BY ColumnsAssumption DEF WriterOK, Writer, NewWriter, NoCells, Columns

(* Rows that fit the capacity are reserved, and nothing is cut.            *)
LEMMA PrepareFits ==
  ASSUME NEW Cells, NEW w \in Writer(Cells), NEW rows \in Nat,
         w.rows_reserved + rows <= w.rows_capacity
  PROVE  LET p == PrepareForBatch(w, rows)
         IN /\ p \in Writer(Cells)
            /\ p.result = "Ok"
            /\ p.min_batch_size = w.min_batch_size
            /\ p.data = w.data
            /\ p.next_col = 0
            /\ p.has_builders <=> w.has_builders
            /\ p.builders = w.builders
            /\ p.rows_reserved = w.rows_reserved + rows
            /\ p.rows_capacity = w.rows_capacity
<1> DEFINE v == [w EXCEPT !.next_col = 0, !.result = "Ok"]
<1>1. /\ v \in Writer(Cells)
      /\ v.rows_reserved = w.rows_reserved /\ v.rows_capacity = w.rows_capacity
      /\ v.min_batch_size = w.min_batch_size /\ v.data = w.data
      /\ v.builders = w.builders /\ (v.has_builders <=> w.has_builders)
      /\ v.next_col = 0 /\ v.result = "Ok"
  BY DEF Writer
<1>2. w.rows_reserved \in Nat /\ w.rows_capacity \in Nat
  BY DEF Writer
<1> DEFINE n == w.rows_reserved + rows
<1> DEFINE p == [v EXCEPT !.rows_reserved = n]
<1>3. n \in Nat
  BY <1>2
<1> HIDE DEF v
<1>4. FitsCapacity(v, rows)
  BY <1>1, <1>2 DEF FitsCapacity
<1>5. PrepareForBatch(w, rows) = p
  <2>1. Allocate(v, rows) = p
    BY <1>1, <1>4 DEF Allocate
  <2>2. QED
    BY <2>1 DEF PrepareForBatch, v
<1> HIDE DEF n
<1>6. /\ p \in Writer(Cells)
      /\ p.result = "Ok"
      /\ p.min_batch_size = w.min_batch_size
      /\ p.data = w.data
      /\ p.next_col = 0
      /\ p.has_builders <=> w.has_builders
      /\ p.builders = w.builders
      /\ p.rows_reserved = n
      /\ p.rows_capacity = w.rows_capacity
  BY <1>1, <1>3 DEF Writer
<1> HIDE DEF p
<1>7. QED
  BY <1>5, <1>6 DEF n

(* Every further row of the batch fits the capacity.                       *)
LEMMA PrepareMore ==
  ASSUME NEW Cells, NEW w \in Writer(Cells), w.rows_reserved < w.rows_capacity
  PROVE  LET p == PrepareForBatch(w, 1)
         IN /\ p \in Writer(Cells)
            /\ p.result = "Ok"
            /\ p.min_batch_size = w.min_batch_size
            /\ p.data = w.data
            /\ p.next_col = 0
            /\ p.has_builders <=> w.has_builders
            /\ p.builders = w.builders
            /\ p.rows_reserved = w.rows_reserved + 1
            /\ p.rows_capacity = w.rows_capacity
<1>1. w.rows_reserved + 1 <= w.rows_capacity
  BY DEF Writer
<1>2. QED
  BY <1>1, PrepareFits

(* One cell goes to the builder of the next column, and to no other.       *)
LEMMA ConsumeOk ==
  ASSUME NEW Cells, NEW w \in Writer(Cells), NEW cell \in Cells,
         w.has_builders, w.next_col \in Columns
  PROVE  LET q == Consume(w, cell)
         IN /\ q \in Writer(Cells)
            /\ q.result = "Ok"
            /\ q.min_batch_size = w.min_batch_size
            /\ q.data = w.data
            /\ q.next_col = NextColIndex(w)
            /\ q.has_builders
            /\ \A c \in Columns :
                 q.builders[c] = IF c = w.next_col THEN Append(w.builders[c], cell)
                                 ELSE w.builders[c]
            /\ q.rows_reserved = w.rows_reserved
            /\ q.rows_capacity = w.rows_capacity
<1> DEFINE v == [w EXCEPT !.next_col = NextColIndex(w)]
<1>1. NextColIndex(w) \in Nat
  BY ColumnsAssumption DEF NextColIndex, Columns
<1>2. /\ v \in Writer(Cells)
      /\ v.rows_reserved = w.rows_reserved /\ v.rows_capacity = w.rows_capacity
      /\ v.min_batch_size = w.min_batch_size /\ v.data = w.data
      /\ v.builders = w.builders /\ (v.has_builders <=> w.has_builders)
      /\ v.next_col = NextColIndex(w)
  BY <1>1 DEF Writer
<1>3. w.builders \in [Columns -> Seq(Cells)] /\ w.has_builders \in BOOLEAN
  BY DEF Writer
<1>4. [w.builders EXCEPT ![w.next_col] = Append(@, cell)] \in [Columns -> Seq(Cells)]
  BY <1>3
<1> HIDE DEF v
<1>5. Consume(w, cell) =
        [v EXCEPT !.builders = [v.builders EXCEPT ![w.next_col] = Append(@, cell)],
                  !.result = "Ok"]
  BY DEF Consume, v
<1> DEFINE appended == [w.builders EXCEPT ![w.next_col] = Append(@, cell)]
<1>6. \A c \in Columns :
        appended[c] = IF c = w.next_col THEN Append(w.builders[c], cell) ELSE w.builders[c]
  BY <1>3
<1>7. Consume(w, cell) = [v EXCEPT !.builders = appended, !.result = "Ok"]
  BY <1>2, <1>5
<1> HIDE DEF appended
<1>8. QED
  BY <1>2, <1>3, <1>4, <1>6, <1>7 DEF Writer, appended

(* Complete columns are cut into a batch, if Arrow accepts it; the builders *)
(* are gone either way.                                                    *)
LEMMA FlushComplete ==
  ASSUME NEW Cells, NEW w \in Writer(Cells), w.has_builders,
         \A c \in Columns : Len(w.builders[c]) = w.rows_reserved
  PROVE  LET f == Flush(w)
         IN /\ f \in Writer(Cells)
            /\ f.min_batch_size = w.min_batch_size
            /\ f.next_col = w.next_col
            /\ ~f.has_builders
            /\ f.builders = NoCells
            /\ f.rows_reserved = w.rows_reserved
            /\ f.rows_capacity = w.rows_capacity
            /\ Acceptable(w.builders) => f.result = "Ok" /\ f.data = Append(w.data, w.builders)
            /\ ~Acceptable(w.builders) => f.result = "Err" /\ f.data = w.data
<1>1. /\ w.builders \in [Columns -> Seq(Cells)] /\ w.rows_reserved \in Nat
      /\ w.data \in Seq([Columns -> Seq(Cells)])
  BY DEF Writer
<1>2. Sliced(w) = w.builders
  <2>1. \A c \in Columns : SubSeq(w.builders[c], 1, w.rows_reserved) = w.builders[c]
    BY <1>1
  <2>2. w.builders = [c \in Columns |-> w.builders[c]]
    BY <1>1
  <2>3. QED
    BY <2>1, <2>2 DEF Sliced
<1>3. SliceFits(w)
  BY <1>1 DEF SliceFits
<1> DEFINE taken_ == [w EXCEPT !.has_builders = FALSE, !.builders = NoCells]
           data_ == Append(w.data, w.builders)
<1>4. /\ taken_ \in Writer(Cells) /\ taken_.data = w.data
      /\ ~taken_.has_builders /\ taken_.builders = NoCells
      /\ taken_.min_batch_size = w.min_batch_size /\ taken_.next_col = w.next_col
      /\ taken_.rows_reserved = w.rows_reserved /\ taken_.rows_capacity = w.rows_capacity
  <2>1. NoCells \in [Columns -> Seq(Cells)]
    BY DEF NoCells
  <2>2. QED
    BY <2>1 DEF Writer
<1>5. data_ \in Seq([Columns -> Seq(Cells)])
  BY <1>1
<1>6. Acceptable(w.builders) => Flush(w) = [taken_ EXCEPT !.data = data_, !.result = "Ok"]
  BY <1>2, <1>3, <1>4 DEF Flush
<1>7. ~Acceptable(w.builders) => Flush(w) = [taken_ EXCEPT !.result = "Err"]
  BY <1>2, <1>3 DEF Flush
<1> HIDE DEF taken_, data_
<1>8. CASE Acceptable(w.builders)
  <2>1. Flush(w) = [taken_ EXCEPT !.data = data_, !.result = "Ok"]
    BY <1>6, <1>8
  <2>2. Flush(w) \in Writer(Cells) /\ Flush(w).result = "Ok" /\ Flush(w).data = data_
    BY <1>4, <1>5, <2>1 DEF Writer
  <2>3. /\ Flush(w).min_batch_size = taken_.min_batch_size
        /\ Flush(w).next_col = taken_.next_col
        /\ Flush(w).has_builders <=> taken_.has_builders
        /\ Flush(w).builders = taken_.builders
        /\ Flush(w).rows_reserved = taken_.rows_reserved
        /\ Flush(w).rows_capacity = taken_.rows_capacity
    BY <1>4, <2>1 DEF Writer
  <2>4. QED
    BY <1>4, <1>8, <2>2, <2>3 DEF data_
<1>9. CASE ~Acceptable(w.builders)
  <2>1. Flush(w) = [taken_ EXCEPT !.result = "Err"]
    BY <1>7, <1>9
  <2>2. Flush(w) \in Writer(Cells) /\ Flush(w).result = "Err" /\ Flush(w).data = taken_.data
    BY <1>4, <2>1 DEF Writer
  <2>3. /\ Flush(w).min_batch_size = taken_.min_batch_size
        /\ Flush(w).next_col = taken_.next_col
        /\ Flush(w).has_builders <=> taken_.has_builders
        /\ Flush(w).builders = taken_.builders
        /\ Flush(w).rows_reserved = taken_.rows_reserved
        /\ Flush(w).rows_capacity = taken_.rows_capacity
    BY <1>4, <2>1 DEF Writer
  <2>4. QED
    BY <1>4, <1>9, <2>2, <2>3
<1>10. QED
  BY <1>8, <1>9

LEMMA FinishComplete ==
  ASSUME NEW Cells, NEW w \in Writer(Cells), w.has_builders,
         \A c \in Columns : Len(w.builders[c]) = w.rows_reserved
  PROVE  /\ Acceptable(w.builders) => /\ Finish(w).result = "Ok"
                                      /\ Finish(w).data = Append(w.data, w.builders)
         /\ ~Acceptable(w.builders) => Finish(w).result = "Err"
  BY FlushComplete DEF Finish

(* Rows that do not fit get builders of their own: at once when nothing is *)
(* reserved ...                                                            *)
LEMMA PrepareAllocates ==
  ASSUME NEW Cells, NEW w \in Writer(Cells), NEW rows \in Nat,
         w.rows_reserved = 0, w.rows_capacity < rows
  PROVE  LET p == PrepareForBatch(w, rows)
         IN /\ p \in Writer(Cells)
            /\ p.result = "Ok"
            /\ p.min_batch_size = w.min_batch_size
            /\ p.data = w.data
            /\ p.next_col = 0
            /\ p.has_builders
            /\ p.builders = NoCells
            /\ p.rows_reserved = rows
            /\ p.rows_capacity = Larger(rows, w.min_batch_size)
<1> DEFINE v == [w EXCEPT !.next_col = 0, !.result = "Ok"]
           room == Larger(rows, w.min_batch_size)
           p == [v EXCEPT !.has_builders = TRUE, !.builders = NoCells,
                          !.rows_reserved = rows, !.rows_capacity = room]
<1>1. /\ v \in Writer(Cells)
      /\ v.rows_reserved = w.rows_reserved /\ v.rows_capacity = w.rows_capacity
      /\ v.min_batch_size = w.min_batch_size /\ v.data = w.data
      /\ v.next_col = 0 /\ v.result = "Ok"
  BY DEF Writer
<1>2. w.rows_capacity \in Nat /\ room \in Nat
  BY DEF Writer, Larger
<1> HIDE DEF v
<1>3. ~FitsCapacity(v, rows)
  BY <1>1, <1>2 DEF FitsCapacity
<1>4. NewBuilders(v, rows) = p
  BY <1>1 DEF NewBuilders
<1>5. PrepareForBatch(w, rows) = p
  BY <1>1, <1>3, <1>4 DEF Allocate, PrepareForBatch, v
<1>6. NoCells \in [Columns -> Seq(Cells)]
  BY DEF NoCells
<1> HIDE DEF room
<1>7. /\ p \in Writer(Cells)
      /\ p.result = "Ok" /\ p.min_batch_size = w.min_batch_size /\ p.data = w.data
      /\ p.next_col = 0 /\ p.has_builders /\ p.builders = NoCells
      /\ p.rows_reserved = rows /\ p.rows_capacity = room
  BY <1>1, <1>2, <1>6 DEF Writer
<1> HIDE DEF p
<1>8. QED
  BY <1>5, <1>7 DEF room

(* ... and else after a batch was cut from those that are reserved.        *)
LEMMA PrepareCuts ==
  ASSUME NEW Cells, NEW w \in Writer(Cells), NEW rows \in Nat,
         w.rows_reserved > 0, w.rows_capacity < rows + w.rows_reserved, w.has_builders,
         \A c \in Columns : Len(w.builders[c]) = w.rows_reserved
  PROVE  LET p == PrepareForBatch(w, rows)
         IN /\ p \in Writer(Cells)
            /\ p.min_batch_size = w.min_batch_size
            /\ p.next_col = 0
            /\ p.builders = NoCells
            /\ Acceptable(w.builders) =>
                 /\ p.result = "Ok"
                 /\ p.data = Append(w.data, w.builders)
                 /\ p.has_builders
                 /\ p.rows_reserved = rows
                 /\ p.rows_capacity = Larger(rows, w.min_batch_size)
            /\ ~Acceptable(w.builders) =>
                 /\ p.result = "Err"
                 /\ p.data = w.data
                 /\ ~p.has_builders
                 /\ p.rows_reserved = w.rows_reserved
                 /\ p.rows_capacity = w.rows_capacity
<1> DEFINE v == [w EXCEPT !.next_col = 0, !.result = "Ok"]
           f == Flush(v)
           room == Larger(rows, w.min_batch_size)
           p == [f EXCEPT !.has_builders = TRUE, !.builders = NoCells,
                          !.rows_reserved = rows, !.rows_capacity = room]
<1>1. /\ v \in Writer(Cells)
      /\ v.rows_reserved = w.rows_reserved /\ v.rows_capacity = w.rows_capacity
      /\ v.min_batch_size = w.min_batch_size /\ v.data = w.data
      /\ v.builders = w.builders /\ (v.has_builders <=> w.has_builders)
      /\ v.next_col = 0 /\ v.result = "Ok"
  BY DEF Writer
<1>2. /\ w.rows_reserved \in Nat /\ w.rows_capacity \in Nat
      /\ room \in Nat
  BY DEF Writer, Larger
<1> HIDE DEF v
<1>3. ~FitsCapacity(v, rows) /\ v.rows_reserved > 0
  BY <1>1, <1>2 DEF FitsCapacity
<1>4. v.has_builders /\ \A c \in Columns : Len(v.builders[c]) = v.rows_reserved
  BY <1>1
<1>5. /\ f \in Writer(Cells)
      /\ f.min_batch_size = w.min_batch_size /\ f.next_col = 0
      /\ ~f.has_builders /\ f.builders = NoCells
      /\ f.rows_reserved = w.rows_reserved /\ f.rows_capacity = w.rows_capacity
      /\ Acceptable(w.builders) => f.result = "Ok" /\ f.data = Append(w.data, w.builders)
      /\ ~Acceptable(w.builders) => f.result = "Err" /\ f.data = w.data
  BY <1>1, <1>4, FlushComplete
<1>6. PrepareForBatch(w, rows) = IF f.result # "Ok" THEN f ELSE NewBuilders(f, rows)
  BY <1>3 DEF Allocate, PrepareForBatch, v
<1> HIDE DEF f
<1>7. CASE Acceptable(w.builders)
  <2>1. PrepareForBatch(w, rows) = p
    BY <1>5, <1>6, <1>7 DEF NewBuilders
  <2>2. NoCells \in [Columns -> Seq(Cells)]
    BY DEF NoCells
  <2> HIDE DEF room
  <2>3. /\ p \in Writer(Cells)
        /\ p.result = f.result /\ p.min_batch_size = f.min_batch_size /\ p.data = f.data
        /\ p.next_col = f.next_col /\ p.has_builders /\ p.builders = NoCells
        /\ p.rows_reserved = rows /\ p.rows_capacity = room
    BY <1>2, <1>5, <2>2 DEF Writer
  <2> HIDE DEF p
  <2>4. QED
    BY <1>5, <1>7, <2>1, <2>3 DEF room
<1>8. CASE ~Acceptable(w.builders)
  <2>1. PrepareForBatch(w, rows) = f
    BY <1>5, <1>6, <1>8
  <2>2. QED
    BY <1>5, <1>8, <2>1
<1>9. QED
  BY <1>7, <1>8

(* The first row allocates builders for a whole batch.                     *)
LEMMA PrepareFirst ==
  ASSUME NEW Cells, NEW w \in Writer(Cells), w.rows_reserved = 0, w.rows_capacity = 0,
         w.min_batch_size > 0
  PROVE  LET p == PrepareForBatch(w, 1)
         IN /\ p \in Writer(Cells)
            /\ p.result = "Ok"
            /\ p.min_batch_size = w.min_batch_size
            /\ p.data = w.data
            /\ p.next_col = 0
            /\ p.has_builders
            /\ p.builders = NoCells
            /\ p.rows_reserved = 1
            /\ p.rows_capacity = w.min_batch_size
<1>1. w.rows_capacity < 1 /\ Larger(1, w.min_batch_size) = w.min_batch_size
  BY DEF Writer, Larger
<1>2. QED
  BY <1>1, PrepareAllocates

(* Cutting a batch from complete columns without nulls.                    *)
LEMMA FinishFull ==
  ASSUME NEW Cells, NEW w \in Writer(Cells), w.has_builders, w.data = <<>>, ColCount > 0,
         \A c \in Columns : Len(w.builders[c]) = w.rows_reserved,
         \A c \in Columns : \A k \in DOMAIN w.builders[c] : ~w.builders[c][k].null
  PROVE  /\ Finish(w).result = "Ok"
         /\ Finish(w).data = <<w.builders>>
<1>1. Acceptable(w.builders)
  BY ColumnsAssumption DEF Acceptable, Columns
<1>2. Append(w.data, w.builders) = <<w.builders>>
  OBVIOUS
<1>3. QED
  BY <1>1, <1>2, FinishComplete

(* Nothing was written: finish has no batch.                               *)
LEMMA FinishNothing ==
  ASSUME NEW Cells, NEW w \in Writer(Cells), ~w.has_builders
  PROVE  Finish(w).result = "Ok" /\ Finish(w).data = w.data
  BY DEF Finish, Flush, Writer

(* A result without columns cannot be cut into batches.                    *)
LEMMA FinishNoColumns ==
  ASSUME NEW Cells, NEW w \in Writer(Cells), w.has_builders, ColCount = 0
  PROVE  Finish(w).result = "Err"
<1>1. SliceFits(w) /\ ~Acceptable(Sliced(w))
  BY DEF SliceFits, Acceptable, Columns
<1>2. QED
  BY <1>1 DEF Finish, Flush, Writer
=============================================================================

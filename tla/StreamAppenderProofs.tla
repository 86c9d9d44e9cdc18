------------------------ MODULE StreamAppenderProofs ------------------------
(***************************************************************************)
(* Proofs about StreamAppender for every width of the table, size of the   *)
(* batches, flush limit of DuckDB and number of rows.                      *)
(***************************************************************************)
EXTENDS StreamAppender, SequenceTheorems, TLAPS

-----------------------------------------------------------------------------
(* Numbered rows.                                                          *)

(* Run(a, n) are the n numbers from a on.                                  *)
LEMMA RunProperties ==
  ASSUME NEW a \in Nat, NEW n \in Nat
  PROVE  /\ Run(a, n) \in Seq(Nat)
         /\ Len(Run(a, n)) = n
         /\ \A i \in 1 .. n : Run(a, n)[i] = a + i - 1
<1>1. \A i \in 1 .. n : a + i - 1 \in Nat
  OBVIOUS
<1>2. QED
  BY <1>1 DEF Run

(* The rows of a batch stay within the numbers given out.                  *)
LEMMA RunInBounds ==
  ASSUME NEW a \in Nat \ {0}, NEW n \in Nat, NEW m \in Nat, a + n <= m + 1
  PROVE  Run(a, n) \in Seq(1 .. m)
<1>1. \A i \in 1 .. n : a + i - 1 \in 1 .. m
  OBVIOUS
<1>2. QED
  BY <1>1 DEF Run

(* One more row.                                                           *)
LEMMA RunStep ==
  ASSUME NEW a \in Nat, NEW n \in Nat
  PROVE  Run(a, n + 1) = Append(Run(a, n), a + n)
<1> DEFINE s == Run(a, n + 1)
           t == Append(Run(a, n), a + n)
<1>1. /\ s \in Seq(Nat) /\ Len(s) = n + 1
      /\ \A i \in 1 .. n + 1 : s[i] = a + i - 1
  BY RunProperties, n + 1 \in Nat
<1>2. /\ Run(a, n) \in Seq(Nat) /\ Len(Run(a, n)) = n
      /\ \A i \in 1 .. n : Run(a, n)[i] = a + i - 1
  BY RunProperties
<1>3. /\ t \in Seq(Nat) /\ Len(t) = n + 1
      /\ \A i \in 1 .. n + 1 : t[i] = a + i - 1
  <2>1. t \in Seq(Nat) /\ Len(t) = n + 1
    BY <1>2
  <2>2. ASSUME NEW i \in 1 .. n + 1 PROVE t[i] = a + i - 1
    <3>1. t[n + 1] = a + n /\ \A j \in 1 .. n : t[j] = Run(a, n)[j]
      BY <1>2, a + n \in Nat, AppendProperties
    <3>2. i = n + 1 \/ i \in 1 .. n
      OBVIOUS
    <3>3. QED
      BY <1>2, <3>1, <3>2
  <2>3. QED
    BY <2>1, <2>2
<1> HIDE DEF s, t
<1>4. s = t
  BY <1>1, <1>3, SeqEqual
<1>5. QED
  BY <1>4 DEF s, t

(* A row appended to the second of two sequences is the last of both.      *)
LEMMA ConcatAppend ==
  ASSUME NEW S, NEW s \in Seq(S), NEW t \in Seq(S), NEW e \in S
  PROVE  s \o Append(t, e) = Append(s \o t, e)
<1>1. Append(t, e) = t \o <<e>> /\ Append(s \o t, e) = (s \o t) \o <<e>>
  BY s \o t \in Seq(S), AppendIsConcat
<1>2. <<e>> \in Seq(S)
  OBVIOUS
<1>3. QED
  BY <1>1, <1>2, ConcatAssociative

(* What is added at the end leaves the beginning as it was.                *)
LEMMA ConcatExtends ==
  ASSUME NEW S, NEW s \in Seq(S), NEW t \in Seq(S)
  PROVE  /\ Len(s \o t) >= Len(s)
         /\ SubSeq(s \o t, 1, Len(s)) = s
<1> DEFINE u == s \o t
<1>1. /\ u \in Seq(S) /\ Len(u) = Len(s) + Len(t)
      /\ Len(s) \in Nat /\ Len(t) \in Nat
      /\ \A i \in 1 .. Len(s) : u[i] = s[i]
  BY ConcatProperties
<1> HIDE DEF u
<1>2. \A i \in 1 .. Len(s) : u[i] \in S
  BY <1>1, ElementOfSeq
<1>3. /\ SubSeq(u, 1, Len(s)) \in Seq(S)
      /\ Len(SubSeq(u, 1, Len(s))) = Len(s)
      /\ \A i \in 1 .. Len(s) : SubSeq(u, 1, Len(s))[i] = u[i]
  BY <1>1, <1>2, SubSeqProperties
<1>4. SubSeq(u, 1, Len(s)) = s
  BY <1>1, <1>3, SeqEqual
<1>5. QED
  BY <1>1, <1>4 DEF u

(* The rows of two sequences together.                                     *)
LEMMA ElementsConcat ==
  ASSUME NEW S, NEW s \in Seq(S), NEW t \in Seq(S)
  PROVE  Elements(s \o t) = Elements(s) \cup Elements(t)
<1>1. /\ s \o t \in Seq(S)
      /\ Len(s \o t) = Len(s) + Len(t)
      /\ \A i \in 1 .. Len(s) + Len(t) :
           (s \o t)[i] = IF i <= Len(s) THEN s[i] ELSE t[i - Len(s)]
  BY ConcatProperties
<1>2. Len(s) \in Nat /\ Len(t) \in Nat
  OBVIOUS
<1>3. ASSUME NEW i \in DOMAIN s PROVE s[i] \in Elements(s \o t)
  <2>1. i \in 1 .. Len(s) /\ i \in DOMAIN (s \o t)
    BY <1>1, <1>2
  <2>2. (s \o t)[i] = s[i]
    BY <1>1, <1>2, <2>1
  <2>3. QED
    BY <2>1, <2>2 DEF Elements
<1>4. ASSUME NEW i \in DOMAIN t PROVE t[i] \in Elements(s \o t)
  <2>1. Len(s) + i \in DOMAIN (s \o t)
    BY <1>1, <1>2
  <2>2. (s \o t)[Len(s) + i] = t[i]
    BY <1>1, <1>2
  <2>3. QED
    BY <2>1, <2>2 DEF Elements
<1>5. ASSUME NEW i \in DOMAIN (s \o t)
      PROVE  (s \o t)[i] \in Elements(s) \cup Elements(t)
  <2>1. i \in 1 .. Len(s) + Len(t)
    BY <1>1, <1>2
  <2>2. CASE i <= Len(s)
    <3>1. i \in DOMAIN s /\ (s \o t)[i] = s[i]
      BY <1>1, <1>2, <2>1, <2>2
    <3>2. QED
      BY <3>1 DEF Elements
  <2>3. CASE ~(i <= Len(s))
    <3>1. i - Len(s) \in DOMAIN t /\ (s \o t)[i] = t[i - Len(s)]
      BY <1>1, <1>2, <2>1, <2>3
    <3>2. QED
      BY <3>1 DEF Elements
  <2>4. QED
    BY <2>2, <2>3
<1>6. QED
  BY <1>3, <1>4, <1>5 DEF Elements

-----------------------------------------------------------------------------

RowNumbers == 1 .. MaxRows

(* The rows the driver has been given by the calls that returned Ok and    *)
(* the one at hand.                                                        *)
Written == IF appender = "appending" THEN accepted \o Run(first, row) ELSE accepted

(* A batch at hand is the last rows the caller has numbered.               *)
BatchInv ==
  appender = "appending" =>
    /\ size \in Nat /\ width \in Widths
    /\ first + size = appended + 1

(* No row outlives its appender on the client.                             *)
BufferInv == appender = "none" => buffer = <<>>

(* PostgreSQL and SQL Server: what the server has received and what the    *)
(* client still buffers are the rows written, each once and in order.      *)
SentInv ==
  flavour # "duckdb" /\ appender \in {"idle", "appending"} /\ load = "open" =>
    Numbers(received \o buffer) = Written

(* DuckDB: the rows written are in the table, but for the last ones, which *)
(* are in the buffer.                                                      *)
Flushed == Len(Written) - Len(buffer)

FlushInv ==
  flavour = "duckdb" /\ appender \in {"idle", "appending"} =>
    /\ Len(buffer) < FlushRows
    /\ Len(buffer) <= Len(Written)
    /\ \A i \in 1 .. Flushed : Written[i] \in Elements(table)
    /\ \A i \in 1 .. Len(buffer) : buffer[i].number = Written[Flushed + i]

IInv ==
  /\ TypeOK
  /\ BatchInv /\ BufferInv /\ SentInv /\ FlushInv
  /\ FinishMeansStored /\ LossIsLastFlush

-----------------------------------------------------------------------------
(* Numbers keeps length and order.                                         *)
LEMMA NumbersProperties ==
  ASSUME NEW rows \in Seq(RowRecord)
  PROVE  /\ Numbers(rows) \in Seq(RowNumbers)
         /\ Len(Numbers(rows)) = Len(rows)
         /\ \A i \in 1 .. Len(rows) : Numbers(rows)[i] = rows[i].number
<1>1. DOMAIN rows = 1 .. Len(rows) /\ Len(rows) \in Nat
  OBVIOUS
<1>2. \A i \in 1 .. Len(rows) : rows[i].number \in RowNumbers
  <2>1. \A i \in 1 .. Len(rows) : rows[i] \in RowRecord
    OBVIOUS
  <2>2. \A r \in RowRecord : r.number \in RowNumbers
    BY DEF RowRecord, RowNumbers
  <2>3. QED
    BY <2>1, <2>2
<1>3. Numbers(rows) = [i \in 1 .. Len(rows) |-> rows[i].number]
  BY <1>1 DEF Numbers
<1>4. QED
  BY <1>1, <1>2, <1>3

LEMMA NumbersAppend ==
  ASSUME NEW rows \in Seq(RowRecord), NEW r \in RowRecord
  PROVE  Numbers(Append(rows, r)) = Append(Numbers(rows), r.number)
<1> DEFINE s == Numbers(Append(rows, r))
           t == Append(Numbers(rows), r.number)
<1>1. r.number \in RowNumbers /\ Len(rows) \in Nat
  BY DEF RowRecord, RowNumbers
<1>2. /\ Append(rows, r) \in Seq(RowRecord)
      /\ Len(Append(rows, r)) = Len(rows) + 1
      /\ \A i \in 1 .. Len(rows) : Append(rows, r)[i] = rows[i]
      /\ Append(rows, r)[Len(rows) + 1] = r
  BY AppendProperties
<1>3. /\ s \in Seq(RowNumbers) /\ Len(s) = Len(rows) + 1
      /\ \A i \in 1 .. Len(rows) + 1 : s[i] = Append(rows, r)[i].number
  <2> DEFINE u == Append(rows, r)
  <2> HIDE DEF u
  <2>1. u \in Seq(RowRecord) /\ Len(u) = Len(rows) + 1
    BY <1>2 DEF u
  <2>2. /\ Numbers(u) \in Seq(RowNumbers) /\ Len(Numbers(u)) = Len(u)
        /\ \A i \in 1 .. Len(u) : Numbers(u)[i] = u[i].number
    BY <2>1, NumbersProperties
  <2>3. QED
    BY <2>1, <2>2 DEF u
<1>4. /\ Numbers(rows) \in Seq(RowNumbers) /\ Len(Numbers(rows)) = Len(rows)
      /\ \A i \in 1 .. Len(rows) : Numbers(rows)[i] = rows[i].number
  BY NumbersProperties
<1>5. /\ t \in Seq(RowNumbers) /\ Len(t) = Len(rows) + 1
      /\ \A i \in 1 .. Len(rows) : t[i] = Numbers(rows)[i]
      /\ t[Len(rows) + 1] = r.number
  BY <1>1, <1>4, AppendProperties
<1> HIDE DEF s, t
<1>6. \A i \in 1 .. Len(rows) + 1 : s[i] = t[i]
  <2> SUFFICES ASSUME NEW i \in 1 .. Len(rows) + 1 PROVE s[i] = t[i]
    OBVIOUS
  <2>1. i \in 1 .. Len(rows) \/ i = Len(rows) + 1
    BY <1>1
  <2>2. QED
    BY <1>2, <1>3, <1>4, <1>5, <2>1
<1>7. s = t
  BY <1>1, <1>3, <1>5, <1>6, SeqEqual
<1>8. QED
  BY <1>7 DEF s, t

-----------------------------------------------------------------------------
LEMMA InitInv == Init => IInv
<1> SUFFICES ASSUME Init PROVE IInv
  OBVIOUS
<1>1. TypeOK
  BY StreamAssumption DEF Init, TypeOK, NoWriter, RowRecord
<1>2. BatchInv /\ BufferInv /\ SentInv /\ FlushInv
  BY DEF Init, BatchInv, BufferInv, SentInv, FlushInv
<1>3. FinishMeansStored /\ LossIsLastFlush
  BY DEF Init, FinishMeansStored, LossIsLastFlush
<1>4. QED
  BY <1>1, <1>2, <1>3 DEF IInv

(* What the callers were promised stays true while the table only grows.   *)
LEMMA PromisesKept ==
  ASSUME FinishMeansStored, LossIsLastFlush, UNCHANGED <<flavour, promised>>,
         Elements(table) \subseteq Elements(table')
  PROVE  FinishMeansStored' /\ LossIsLastFlush'
<1>1. \A rows : StoredRows(rows) => StoredRows(rows)'
  BY DEF StoredRows, Elements
<1>2. FinishMeansStored'
  BY <1>1 DEF FinishMeansStored
<1>3. LossIsLastFlush'
  BY <1>1 DEF LossIsLastFlush
<1>4. QED
  BY <1>2, <1>3

(* What has been written are rows the caller has numbered.                 *)
LEMMA WrittenType ==
  ASSUME TypeOK, BatchInv
  PROVE  Written \in Seq(RowNumbers)
<1>1. accepted \in Seq(RowNumbers)
  BY DEF TypeOK, RowNumbers
<1>2. CASE appender = "appending"
  <2>1. /\ first \in Nat \ {0} /\ row \in Nat
        /\ first + row <= MaxRows + 1
    BY <1>2, StreamAssumption DEF TypeOK, BatchInv
  <2>2. Run(first, row) \in Seq(RowNumbers)
    BY <2>1, RunInBounds, StreamAssumption DEF RowNumbers
  <2>3. QED
    BY <1>1, <1>2, <2>2 DEF Written
<1>3. QED
  BY <1>1, <1>2 DEF Written

(* The row at hand comes next.                                             *)
LEMMA RowType ==
  ASSUME TypeOK, BatchInv, Writing
  PROVE  Row \in RowRecord /\ Row.number = first + row /\ first + row \in RowNumbers
<1>1. first + row \in RowNumbers /\ width \in Widths
  BY StreamAssumption DEF TypeOK, BatchInv, Writing, RowNumbers
<1>2. QED
  BY <1>1 DEF Row, RowRecord, RowNumbers

LEMMA WrittenStep ==
  ASSUME TypeOK, BatchInv, Writing, row' = row + 1,
         UNCHANGED <<appender, first, accepted>>
  PROVE  Written' = Append(Written, first + row)
<1>1. first \in Nat /\ row \in Nat /\ first + row \in RowNumbers
  BY RowType DEF TypeOK, Writing
<1>2. Run(first, row + 1) = Append(Run(first, row), first + row)
  BY <1>1, RunStep
<1>3. accepted \in Seq(RowNumbers) /\ Run(first, row) \in Seq(RowNumbers)
  <2>1. first \in Nat \ {0} /\ first + row <= MaxRows + 1
    BY StreamAssumption DEF TypeOK, BatchInv, Writing
  <2>2. QED
    BY <1>1, <2>1, RunInBounds, StreamAssumption DEF TypeOK, RowNumbers
<1>4. accepted \o Append(Run(first, row), first + row) =
        Append(accepted \o Run(first, row), first + row)
  BY <1>1, <1>3, ConcatAppend
<1>5. QED
  BY <1>2, <1>4 DEF Written, Writing

-----------------------------------------------------------------------------
(* A new appender has written nothing.                                     *)
LEMMA OpenInv == IInv /\ Open => IInv'
<1> SUFFICES ASSUME IInv, Open PROVE IInv'
  OBVIOUS
<1>1. /\ UNCHANGED <<flavour, batch, buffer, table, appended, promised>>
      /\ appender' = "idle" /\ received' = <<>> /\ accepted' = <<>> /\ buffer = <<>>
      /\ outcome' = "none"
  BY DEF Open, IInv, BufferInv
<1>2. TypeOK'
  BY <1>1 DEF Open, IInv, TypeOK, batch, NoWriter
<1>3. BatchInv' /\ BufferInv'
  BY <1>1 DEF BatchInv, BufferInv
<1>4. SentInv'
  <2>1. Numbers(<<>> \o <<>>) = <<>>
    BY DEF Numbers
  <2>2. QED
    BY <1>1, <2>1 DEF SentInv, Written
<1>5. FlushInv'
  BY <1>1, StreamAssumption DEF FlushInv, Flushed, Written
<1>6. FinishMeansStored' /\ LossIsLastFlush'
  BY <1>1, PromisesKept DEF IInv
<1>7. QED
  BY <1>2, <1>3, <1>4, <1>5, <1>6 DEF IInv

(* append begins: the writer is made for the first batch, and no row of    *)
(* this one is written.                                                    *)
LEMMA AppendCallInv ==
  ASSUME IInv, NEW n \in BatchRows, NEW columns \in Widths, AppendCall(n, columns)
  PROVE  IInv'
<1>1. /\ UNCHANGED <<flavour, buffer, server, table, accepted, promised, outcome>>
      /\ appender = "idle" /\ appender' = "appending"
      /\ appended + n <= MaxRows /\ appended' = appended + n
      /\ first' = appended + 1 /\ size' = n /\ width' = columns /\ row' = 0
      /\ writer' = AsBinary(writer, columns)
  BY DEF AppendCall
<1>2. n \in Nat /\ appended \in Nat
  BY StreamAssumption DEF IInv, TypeOK
<1>3. TypeOK'
  <2>1. /\ writer'.variant \in IF flavour' = "postgres" /\ appender' # "none"
                                THEN {"Uninitialized", "Initialized"} ELSE {"none"}
        /\ writer'.columns \in Widths \cup {0}
    BY <1>1 DEF AsBinary, IInv, TypeOK
  <2>2. QED
    BY <1>1, <1>2, <2>1, StreamAssumption DEF IInv, TypeOK, server
<1>4. BatchInv' /\ BufferInv'
  BY <1>1, <1>2 DEF BatchInv, BufferInv
<1>5. Written' = Written
  <2>1. Run(first', 0) = <<>>
    BY DEF Run
  <2>2. accepted \o <<>> = accepted
    BY DEF IInv, TypeOK
  <2>3. QED
    BY <1>1, <2>1, <2>2 DEF Written
<1>6. SentInv' /\ FlushInv'
  BY <1>1, <1>5 DEF IInv, SentInv, FlushInv, Flushed, server
<1>7. FinishMeansStored' /\ LossIsLastFlush'
  BY <1>1, PromisesKept DEF IInv
<1>8. QED
  BY <1>3, <1>4, <1>6, <1>7 DEF IInv

(* A row goes to the driver, which sends what it holds or does not.        *)
LEMMA WriteRowInv ==
  ASSUME IInv, NEW sends \in BOOLEAN, WriteRow(sends)
  PROVE  IInv'
<1>1. /\ Writing /\ flavour # "duckdb" /\ row' = row + 1
      /\ UNCHANGED <<flavour, appender, writer, first, size, width, load, table,
                     appended, accepted, promised, outcome>>
  BY DEF WriteRow, history
<1>2. /\ Row \in RowRecord /\ Row.number = first + row /\ first + row \in RowNumbers
      /\ Written' = Append(Written, first + row)
  BY <1>1, RowType, WrittenStep DEF IInv
<1>3. buffer \in Seq(RowRecord) /\ received \in Seq(RowRecord)
  BY DEF IInv, TypeOK
<1>4. received \o Append(buffer, Row) = Append(received \o buffer, Row)
  BY <1>2, <1>3, ConcatAppend
<1>5. /\ received' \in Seq(RowRecord) /\ buffer' \in Seq(RowRecord)
      /\ received' \o buffer' = Append(received \o buffer, Row)
  <2>1. CASE sends
    <3>1. received' = received \o Append(buffer, Row) /\ buffer' = <<>>
      BY <2>1 DEF WriteRow, Send
    <3>2. received \o Append(buffer, Row) \in Seq(RowRecord)
      BY <1>2, <1>3
    <3>3. received' \o <<>> = received'
      BY <3>1, <3>2
    <3>4. QED
      BY <1>4, <3>1, <3>2, <3>3
  <2>2. CASE ~sends
    <3>1. received' = received /\ buffer' = Append(buffer, Row)
      BY <2>2 DEF WriteRow
    <3>2. QED
      BY <1>2, <1>3, <1>4, <3>1
  <2>3. QED
    BY <2>1, <2>2
<1>6. TypeOK'
  <2>1. row' \in 0 .. size'
    BY <1>1, StreamAssumption DEF IInv, TypeOK, Writing
  <2>2. QED
    BY <1>1, <1>5, <2>1 DEF IInv, TypeOK
<1>7. BatchInv' /\ BufferInv' /\ FlushInv'
  BY <1>1 DEF IInv, BatchInv, BufferInv, FlushInv, Writing
<1>8. SentInv'
  <2>1. received \o buffer \in Seq(RowRecord)
    BY <1>3
  <2>2. Numbers(Append(received \o buffer, Row)) = Append(Numbers(received \o buffer), first + row)
    BY <1>2, <2>1, NumbersAppend
  <2>3. QED
    BY <1>1, <1>2, <1>5, <2>2 DEF IInv, SentInv, Writing
<1>9. FinishMeansStored' /\ LossIsLastFlush'
  BY <1>1, PromisesKept DEF IInv
<1>10. QED
  BY <1>6, <1>7, <1>8, <1>9 DEF IInv

(* The rows behind the last flush and the one at hand.                     *)
LEMMA FlushedRows ==
  ASSUME IInv, flavour = "duckdb", appender = "appending", Writing
  PROVE  LET rows == Append(buffer, Row)
             written == Append(Written, first + row)
         IN /\ rows \in Seq(RowRecord) /\ written \in Seq(RowNumbers)
            /\ Len(rows) = Len(buffer) + 1 /\ Len(written) = Len(Written) + 1
            /\ \A i \in 1 .. Flushed : written[i] \in Elements(table)
            /\ \A i \in 1 .. Len(rows) : rows[i].number = written[Flushed + i]
<1> DEFINE rows == Append(buffer, Row)
           written == Append(Written, first + row)
<1>1. Row \in RowRecord /\ Row.number = first + row /\ first + row \in RowNumbers
  BY RowType DEF IInv
<1>2. buffer \in Seq(RowRecord) /\ Written \in Seq(RowNumbers)
  BY WrittenType DEF IInv, TypeOK
<1>3. /\ rows \in Seq(RowRecord) /\ Len(rows) = Len(buffer) + 1
      /\ \A i \in 1 .. Len(buffer) : rows[i] = buffer[i]
      /\ rows[Len(buffer) + 1] = Row
  BY <1>1, <1>2, AppendProperties
<1>4. /\ written \in Seq(RowNumbers) /\ Len(written) = Len(Written) + 1
      /\ \A i \in 1 .. Len(Written) : written[i] = Written[i]
      /\ written[Len(Written) + 1] = first + row
  BY <1>1, <1>2, AppendProperties
<1> HIDE DEF rows, written
<1>5. /\ Len(buffer) \in Nat /\ Len(Written) \in Nat
      /\ Flushed \in Nat /\ Flushed = Len(Written) - Len(buffer)
      /\ \A i \in 1 .. Flushed : Written[i] \in Elements(table)
      /\ \A i \in 1 .. Len(buffer) : buffer[i].number = Written[Flushed + i]
  BY <1>2 DEF IInv, FlushInv, Flushed
<1>6. \A i \in 1 .. Flushed : written[i] \in Elements(table)
  BY <1>4, <1>5
<1>7. \A i \in 1 .. Len(rows) : rows[i].number = written[Flushed + i]
  <2> SUFFICES ASSUME NEW i \in 1 .. Len(rows) PROVE rows[i].number = written[Flushed + i]
    OBVIOUS
  <2>1. CASE i = Len(buffer) + 1
    BY <1>1, <1>3, <1>4, <1>5, <2>1
  <2>2. CASE i \in 1 .. Len(buffer)
    BY <1>3, <1>4, <1>5, <2>2
  <2>3. QED
    BY <1>3, <1>5, <2>1, <2>2
<1>8. QED
  BY <1>3, <1>4, <1>6, <1>7 DEF rows, written

(* DuckDB takes a row into its buffer, or stores it with all of that.      *)
LEMMA WriteRowDuckDBInv == IInv /\ WriteRowDuckDB => IInv'
<1> SUFFICES ASSUME IInv, WriteRowDuckDB PROVE IInv'
  OBVIOUS
<1> DEFINE rows == Append(buffer, Row)
           written == Append(Written, first + row)
<1>1. /\ Writing /\ flavour = "duckdb" /\ appender = "appending" /\ row' = row + 1
      /\ UNCHANGED <<flavour, appender, writer, first, size, width, load, received,
                     appended, accepted, promised, outcome>>
  BY DEF WriteRowDuckDB, history, server, Writing
<1>2. Written' = written
  BY <1>1, WrittenStep DEF IInv
<1>3. /\ rows \in Seq(RowRecord) /\ written \in Seq(RowNumbers)
      /\ Len(rows) = Len(buffer) + 1 /\ Len(written) = Len(Written) + 1
      /\ \A i \in 1 .. Flushed : written[i] \in Elements(table)
      /\ \A i \in 1 .. Len(rows) : rows[i].number = written[Flushed + i]
  BY <1>1, FlushedRows
<1>4. table \in Seq(RowNumbers) /\ buffer \in Seq(RowRecord) /\ FlushRows \in Nat \ {0}
  BY StreamAssumption DEF IInv, TypeOK, RowNumbers
<1>5. /\ Numbers(rows) \in Seq(RowNumbers) /\ Len(Numbers(rows)) = Len(rows)
      /\ \A i \in 1 .. Len(rows) : Numbers(rows)[i] = rows[i].number
  <2> HIDE DEF rows
  <2>1. QED
    BY <1>3, NumbersProperties
<1>6. /\ Len(buffer) \in Nat /\ Len(Written) \in Nat
      /\ Flushed \in Nat /\ Flushed = Len(Written) - Len(buffer)
  BY <1>1, <1>4, WrittenType DEF IInv, FlushInv, Flushed
<1>7. \/ Flushes /\ table' = table \o Numbers(rows) /\ buffer' = <<>>
      \/ ~Flushes /\ buffer' = rows /\ UNCHANGED table
  BY DEF WriteRowDuckDB
<1> HIDE DEF rows, written
<1>8. /\ table' \in Seq(RowNumbers) /\ buffer' \in Seq(RowRecord)
      /\ Elements(table) \subseteq Elements(table')
  <2>1. CASE table' = table \o Numbers(rows) /\ buffer' = <<>>
    <3>1. table' \in Seq(RowNumbers) /\ buffer' \in Seq(RowRecord)
      BY <1>4, <1>5, <2>1
    <3>2. QED
      BY <1>4, <1>5, <2>1, <3>1, ElementsConcat
  <2>2. CASE buffer' = rows /\ UNCHANGED table
    BY <1>3, <1>4, <2>2
  <2>3. QED
    BY <1>7, <2>1, <2>2
<1>9. FlushInv'
  <2>1. CASE Flushes
    <3>1. \A i \in 1 .. Len(rows) : rows[i].number \in Elements(table')
      <4>1. Elements(Numbers(rows)) \subseteq Elements(table')
        <5>1. table' = table \o Numbers(rows)
          BY <1>7, <2>1
        <5>2. Elements(table \o Numbers(rows)) = Elements(table) \cup Elements(Numbers(rows))
          BY <1>4, <1>5, ElementsConcat
        <5>3. QED
          BY <5>1, <5>2
      <4>2. \A i \in 1 .. Len(rows) : rows[i].number \in Elements(Numbers(rows))
        BY <1>5 DEF Elements
      <4>3. QED
        BY <4>1, <4>2
    <3>2. buffer' = <<>> /\ Len(buffer') = 0 /\ Flushed' = Len(written)
      BY <1>2, <1>3, <1>7, <2>1 DEF Flushed
    <3>3. ASSUME NEW i \in 1 .. Len(written) PROVE written[i] \in Elements(table')
      <4>1. CASE i <= Flushed
        BY <1>3, <1>6, <1>8, <4>1
      <4>2. CASE i > Flushed
        <5>1. i - Flushed \in 1 .. Len(rows) /\ Flushed + (i - Flushed) = i
          BY <1>3, <1>6, <4>2
        <5>2. QED
          BY <1>3, <3>1, <5>1
      <4>3. QED
        BY <1>6, <4>1, <4>2
    <3>4. QED
      BY <1>2, <1>3, <1>4, <1>6, <3>2, <3>3 DEF FlushInv
  <2>2. CASE ~Flushes
    <3>1. Flushed' = Flushed
      <4>1. buffer' = rows
        BY <1>7, <2>2
      <4>2. Flushed' = Len(written) - Len(rows)
        BY <1>2, <4>1 DEF Flushed
      <4>3. QED
        BY <1>3, <1>6, <4>2
    <3>2. Len(rows) < FlushRows
      BY <1>3, <1>4, <1>6, <2>2 DEF Flushes
    <3>3. QED
      BY <1>2, <1>3, <1>6, <1>7, <2>2, <3>1, <3>2 DEF IInv, FlushInv
  <2>3. QED
    BY <2>1, <2>2
<1>10. TypeOK'
  <2>1. row' \in 0 .. size'
    BY <1>1, StreamAssumption DEF IInv, TypeOK, Writing
  <2>2. QED
    BY <1>1, <1>8, <2>1 DEF IInv, TypeOK, RowNumbers
<1>11. BatchInv' /\ BufferInv' /\ SentInv'
  BY <1>1 DEF IInv, BatchInv, BufferInv, SentInv, Writing
<1>12. FinishMeansStored' /\ LossIsLastFlush'
  BY <1>1, <1>8, PromisesKept DEF IInv
<1>13. QED
  BY <1>9, <1>10, <1>11, <1>12 DEF IInv

(* An error, a panic, the server's abort of a COPY and the end of a broken *)
(* bulk load write nothing and promise nothing.                            *)
LEMMA FailureInv ==
  ASSUME IInv, WriteErr \/ WritePanics \/ ServerAborts \/ NextRequestFails
  PROVE  IInv'
<1>1. /\ UNCHANGED <<flavour, writer, first, size, width, row, buffer, received, table,
                     appended, accepted, promised, outcome>>
      /\ \/ appender' \in {"failed", "panicked"} /\ appender # "none" /\ load' = load
         \/ appender' = appender /\ load' \in {"aborted", "closed"}
  BY DEF WriteErr, WritePanics, ServerAborts, NextRequestFails, Writing, batch, server,
         client, history
<1>2. TypeOK'
  BY <1>1 DEF IInv, TypeOK
<1>3. BatchInv' /\ BufferInv'
  BY <1>1 DEF IInv, BatchInv, BufferInv
<1>4. SentInv'
  BY <1>1 DEF SentInv
<1>5. FlushInv'
  <2>1. CASE appender' = appender
    <3>1. Written' = Written /\ Flushed' = Flushed
      BY <1>1, <2>1 DEF Written, Flushed
    <3>2. QED
      BY <1>1, <2>1, <3>1 DEF IInv, FlushInv
  <2>2. CASE appender' \in {"failed", "panicked"}
    BY <2>2 DEF FlushInv
  <2>3. QED
    BY <1>1, <2>1, <2>2
<1>6. FinishMeansStored' /\ LossIsLastFlush'
  BY <1>1, PromisesKept DEF IInv
<1>7. QED
  BY <1>2, <1>3, <1>4, <1>5, <1>6 DEF IInv

(* append returns Ok: the batch at hand is accepted, as it is written.     *)
LEMMA AppendOkInv == IInv /\ AppendOk => IInv'
<1> SUFFICES ASSUME IInv, AppendOk PROVE IInv'
  OBVIOUS
<1>1. /\ UNCHANGED <<flavour, writer, first, size, width, row, buffer, load, received,
                     table, appended, promised, outcome>>
      /\ appender = "appending" /\ appender' = "idle" /\ row = size
      /\ accepted' = accepted \o Run(first, size)
  BY DEF AppendOk, batch, server
<1>2. Written' = Written /\ accepted' = Written /\ Flushed' = Flushed
  BY <1>1 DEF Written, Flushed
<1>3. TypeOK'
  BY <1>1, <1>2, WrittenType DEF IInv, TypeOK, RowNumbers
<1>4. BatchInv' /\ BufferInv'
  BY <1>1 DEF BatchInv, BufferInv
<1>5. SentInv' /\ FlushInv'
  BY <1>1, <1>2 DEF IInv, SentInv, FlushInv
<1>6. FinishMeansStored' /\ LossIsLastFlush'
  BY <1>1, PromisesKept DEF IInv
<1>7. QED
  BY <1>3, <1>4, <1>5, <1>6 DEF IInv

-----------------------------------------------------------------------------
(* However an appender ends, the next one starts afresh.                   *)
LEMMA CloseInv ==
  ASSUME IInv, NEW how \in {"ok", "err", "dropped"}, Close(how), table' \in Seq(RowNumbers), received' \in Seq(RowRecord),
         load' \in {"closed", "open", "aborted", "dangling"},
         promised' \subseteq Seq(RowNumbers), FinishMeansStored', LossIsLastFlush'
  PROVE  IInv'
<1>1. TypeOK'
  BY StreamAssumption DEF Close, IInv, TypeOK, NoWriter, RowNumbers
<1>2. BatchInv' /\ BufferInv' /\ SentInv' /\ FlushInv'
  BY DEF Close, BatchInv, BufferInv, SentInv, FlushInv
<1>3. QED
  BY <1>1, <1>2 DEF IInv

(* A COPY or bulk load that completes stores exactly what was accepted.    *)
LEMMA CompleteStoresAccepted ==
  ASSUME IInv, Complete, appender = "idle", flavour # "duckdb"
  PROVE  /\ table' = table \o accepted
         /\ table' \in Seq(RowNumbers)
         /\ Elements(table) \subseteq Elements(table')
         /\ Elements(accepted) \subseteq Elements(table')
<1>1. table' = table \o accepted
  BY DEF Complete, IInv, SentInv, Written
<1>2. table \in Seq(RowNumbers) /\ accepted \in Seq(RowNumbers)
  BY DEF IInv, TypeOK, RowNumbers
<1>3. QED
  BY <1>1, <1>2, ElementsConcat

LEMMA FinishOkInv == IInv /\ FinishOk => IInv'
<1> SUFFICES ASSUME IInv, FinishOk PROVE IInv'
  OBVIOUS
<1>1. /\ appender = "idle" /\ flavour # "duckdb" /\ Complete /\ Close("ok")
      /\ load' = "closed" /\ received' = <<>> /\ promised' = promised \cup {accepted}
      /\ UNCHANGED flavour
  BY DEF FinishOk, Close
<1>2. /\ table' \in Seq(RowNumbers) /\ Elements(table) \subseteq Elements(table')
      /\ Elements(accepted) \subseteq Elements(table')
  BY <1>1, CompleteStoresAccepted
<1>3. received' \in Seq(RowRecord) /\ promised' \subseteq Seq(RowNumbers)
  BY <1>1 DEF IInv, TypeOK, RowNumbers
<1>4. \A rows \in promised' : StoredRows(rows)'
  BY <1>1, <1>2 DEF IInv, FinishMeansStored, StoredRows
<1>5. FinishMeansStored'
  BY <1>4 DEF FinishMeansStored
<1>6. LossIsLastFlush'
  <2> SUFFICES ASSUME NEW rows \in promised'
               PROVE  \E kept \in 0 .. Len(rows) :
                        /\ StoredRows(SubSeq(rows, 1, kept))'
                        /\ Len(rows) - kept < FlushRows
    BY DEF LossIsLastFlush
  <2>1. rows \in Seq(RowNumbers) /\ SubSeq(rows, 1, Len(rows)) = rows
    BY <1>3, SubSeqFull
  <2>2. Len(rows) \in 0 .. Len(rows) /\ Len(rows) - Len(rows) < FlushRows
    BY <2>1, StreamAssumption
  <2>3. StoredRows(SubSeq(rows, 1, Len(rows)))'
    BY <1>4, <2>1
  <2>4. QED
    BY <2>2, <2>3
<1>7. QED
  BY <1>1, <1>2, <1>3, <1>5, <1>6, CloseInv

LEMMA FinishErrInv ==
  ASSUME IInv, NEW stored \in BOOLEAN, FinishErr(stored)
  PROVE  IInv'
<1>1. /\ appender = "idle" /\ flavour # "duckdb" /\ Close("err")
      /\ load' = "closed" /\ received' = <<>>
      /\ IF stored THEN Complete ELSE UNCHANGED table
      /\ UNCHANGED <<flavour, promised>>
  BY DEF FinishErr, Close
<1>2. table' \in Seq(RowNumbers) /\ Elements(table) \subseteq Elements(table')
  <2>1. CASE stored
    BY <1>1, <2>1, CompleteStoresAccepted
  <2>2. CASE ~stored
    BY <1>1, <2>2 DEF IInv, TypeOK, RowNumbers
  <2>3. QED
    BY <2>1, <2>2
<1>3. received' \in Seq(RowRecord) /\ promised' \subseteq Seq(RowNumbers)
  BY <1>1 DEF IInv, TypeOK, RowNumbers
<1>4. FinishMeansStored' /\ LossIsLastFlush'
  BY <1>1, <1>2, PromisesKept DEF IInv
<1>5. QED
  BY <1>1, <1>2, <1>3, <1>4, CloseInv

(* A dropped COPY or bulk load stores nothing.                             *)
LEMMA DropAppenderInv == IInv /\ DropAppender => IInv'
<1> SUFFICES ASSUME IInv, DropAppender PROVE IInv'
  OBVIOUS
<1>1. /\ Close("dropped") /\ load' \in {"closed", "dangling"} /\ received' = <<>>
      /\ UNCHANGED <<flavour, table, promised>>
  BY DEF DropAppender, Close
<1>2. /\ table' \in Seq(RowNumbers) /\ received' \in Seq(RowRecord)
      /\ promised' \subseteq Seq(RowNumbers)
  BY <1>1 DEF IInv, TypeOK, RowNumbers
<1>3. FinishMeansStored' /\ LossIsLastFlush'
  BY <1>1, PromisesKept DEF IInv
<1>4. QED
  BY <1>1, <1>2, <1>3, CloseInv

(* The destructor of DuckDB's appender adds the buffered rows, or none.    *)
LEMMA DropFlushesBuffer ==
  ASSUME IInv, NEW succeeds \in BOOLEAN, DropFlushes(succeeds)
  PROVE  /\ table' \in Seq(RowNumbers)
         /\ Elements(table) \subseteq Elements(table')
         /\ succeeds => Elements(Numbers(buffer)) \subseteq Elements(table')
<1>1. table \in Seq(RowNumbers) /\ buffer \in Seq(RowRecord)
  BY DEF IInv, TypeOK, RowNumbers
<1>2. Numbers(buffer) \in Seq(RowNumbers)
  BY <1>1, NumbersProperties
<1>3. CASE succeeds
  <2>1. table' = table \o Numbers(buffer)
    BY <1>3 DEF DropFlushes
  <2>2. QED
    BY <1>1, <1>2, <2>1, ElementsConcat
<1>4. CASE ~succeeds
  BY <1>1, <1>4 DEF DropFlushes
<1>5. QED
  BY <1>3, <1>4

LEMMA DropDuckDBInv ==
  ASSUME IInv, NEW succeeds \in BOOLEAN, DropDuckDB(succeeds)
  PROVE  IInv'
<1>1. Close("dropped") /\ DropFlushes(succeeds) /\ UNCHANGED <<flavour, load, received, promised>>
  BY DEF DropDuckDB, Close, server
<1>2. table' \in Seq(RowNumbers) /\ Elements(table) \subseteq Elements(table')
  BY <1>1, DropFlushesBuffer
<1>3. /\ received' \in Seq(RowRecord) /\ promised' \subseteq Seq(RowNumbers)
      /\ load' \in {"closed", "open", "aborted", "dangling"}
  BY <1>1 DEF IInv, TypeOK, RowNumbers
<1>4. FinishMeansStored' /\ LossIsLastFlush'
  BY <1>1, <1>2, PromisesKept DEF IInv
<1>5. QED
  BY <1>1, <1>2, <1>3, <1>4, CloseInv

(* finish of DuckDB: the rows before the last flush are stored, whether    *)
(* that of the destructor succeeds or not.                                 *)
LEMMA FinishDuckDBInv ==
  ASSUME IInv, NEW succeeds \in BOOLEAN, FinishDuckDB(succeeds)
  PROVE  IInv'
<1>1. /\ appender = "idle" /\ flavour = "duckdb" /\ Close("ok") /\ DropFlushes(succeeds)
      /\ UNCHANGED <<flavour, load, received>> /\ promised' = promised \cup {accepted}
  BY DEF FinishDuckDB, Close, server
<1>2. table' \in Seq(RowNumbers) /\ Elements(table) \subseteq Elements(table')
  BY <1>1, DropFlushesBuffer
<1>3. /\ received' \in Seq(RowRecord) /\ promised' \subseteq Seq(RowNumbers)
      /\ load' \in {"closed", "open", "aborted", "dangling"}
  BY <1>1 DEF IInv, TypeOK, RowNumbers
<1>4. FinishMeansStored'
  BY <1>1 DEF FinishMeansStored
<1>5. /\ accepted \in Seq(RowNumbers) /\ Written = accepted
      /\ Len(accepted) \in Nat /\ Len(buffer) \in Nat
      /\ Flushed = Len(accepted) - Len(buffer)
      /\ Flushed \in 0 .. Len(accepted) /\ Len(accepted) - Flushed < FlushRows
      /\ \A i \in 1 .. Flushed : accepted[i] \in Elements(table)
  BY <1>1, StreamAssumption DEF IInv, TypeOK, FlushInv, Flushed, Written, RowNumbers
<1>6. Elements(SubSeq(accepted, 1, Flushed)) \subseteq Elements(table')
  <2>1. /\ SubSeq(accepted, 1, Flushed) \in Seq(RowNumbers)
        /\ Len(SubSeq(accepted, 1, Flushed)) = Flushed
        /\ \A i \in 1 .. Flushed : SubSeq(accepted, 1, Flushed)[i] = accepted[i]
    <3>1. \A i \in 1 .. Flushed : accepted[i] \in RowNumbers
      BY <1>5
    <3>2. Flushed \in Int /\ Flushed - 1 + 1 = Flushed /\ \A i \in 1 .. Flushed : 1 + i - 1 = i
      BY <1>5
    <3>3. QED
      BY <1>5, <3>1, <3>2, SubSeqProperties
  <2>2. DOMAIN SubSeq(accepted, 1, Flushed) = 1 .. Flushed
    BY <2>1
  <2>3. QED
    BY <1>2, <1>5, <2>1, <2>2 DEF Elements
<1>7. LossIsLastFlush'
  <2> SUFFICES ASSUME NEW rows \in promised'
               PROVE  \E kept \in 0 .. Len(rows) :
                        /\ Elements(SubSeq(rows, 1, kept)) \subseteq Elements(table')
                        /\ Len(rows) - kept < FlushRows
    BY DEF LossIsLastFlush, StoredRows
  <2>1. CASE rows = accepted
    BY <1>5, <1>6, <2>1
  <2>2. CASE rows \in promised
    BY <1>2, <2>2 DEF IInv, LossIsLastFlush, StoredRows
  <2>3. QED
    BY <1>1, <2>1, <2>2
<1>8. QED
  BY <1>1, <1>2, <1>3, <1>4, <1>7, CloseInv

-----------------------------------------------------------------------------
(* Every step of an appender or a server keeps the invariant.              *)
LEMMA NextInv == IInv /\ [Next]_vars => IInv'
<1> SUFFICES ASSUME IInv, [Next]_vars PROVE IInv'
  OBVIOUS
<1>1. CASE Open
  BY <1>1, OpenInv
<1>2. ASSUME NEW n \in BatchRows, NEW columns \in Widths, AppendCall(n, columns)
      PROVE  IInv'
  BY <1>2, AppendCallInv
<1>3. ASSUME NEW sends \in BOOLEAN, WriteRow(sends) PROVE IInv'
  BY <1>3, WriteRowInv
<1>4. CASE WriteRowDuckDB
  BY <1>4, WriteRowDuckDBInv
<1>5. CASE WriteErr \/ WritePanics \/ ServerAborts \/ NextRequestFails
  BY <1>5, FailureInv
<1>6. CASE AppendOk
  BY <1>6, AppendOkInv
<1>7. CASE FinishOk
  BY <1>7, FinishOkInv
<1>8. ASSUME NEW stored \in BOOLEAN, FinishErr(stored) PROVE IInv'
  BY <1>8, FinishErrInv
<1>9. ASSUME NEW succeeds \in BOOLEAN, FinishDuckDB(succeeds) PROVE IInv'
  BY <1>9, FinishDuckDBInv
<1>10. CASE DropAppender
  BY <1>10, DropAppenderInv
<1>11. ASSUME NEW succeeds \in BOOLEAN, DropDuckDB(succeeds) PROVE IInv'
  BY <1>11, DropDuckDBInv
<1>12. CASE UNCHANGED vars
  BY <1>12, SMTT(30) DEF vars, batch, server, client, history, IInv, TypeOK, BatchInv, BufferInv,
               SentInv, FlushInv, Flushed, Written, FinishMeansStored, LossIsLastFlush,
               StoredRows
<1>13. QED
  BY <1>1, <1>2, <1>3, <1>4, <1>5, <1>6, <1>7, <1>8, <1>9, <1>10, <1>11, <1>12 DEF Next

(* The appenders keep the invariant, whatever the servers do.              *)
THEOREM Invariance == Spec => []IInv
<1>1. QED
  BY InitInv, NextInv, PTL DEF Spec

(* The appender's state stays well-typed; in particular PostgreSQL's       *)
(* writer is never Invalid between two calls, so that no unreachable!() of *)
(* postgres/append.rs is reached.                                          *)
THEOREM TypeCorrect == Spec => []TypeOK
<1>1. IInv => TypeOK
  BY DEF IInv
<1>2. QED
  BY <1>1, Invariance, PTL

(* PostgreSQL and SQL Server: once finish has returned Ok, every row that  *)
(* append has accepted is in the table, although the server judges the     *)
(* rows behind the client's back.                                          *)
THEOREM FinishStoresAccepted == Spec => []FinishMeansStored
<1>1. IInv => FinishMeansStored
  BY DEF IInv
<1>2. QED
  BY <1>1, Invariance, PTL

(* DuckDB: what finish loses of the accepted rows when the flush in the    *)
(* destructor fails are fewer than a flush, and the last ones.             *)
THEOREM LossIsBounded == Spec => []LossIsLastFlush
<1>1. IInv => LossIsLastFlush
  BY DEF IInv
<1>2. QED
  BY <1>1, Invariance, PTL

-----------------------------------------------------------------------------
(* The rows of a batch extend what the session has pending.                *)
LEMMA AppendOkAccepts ==
  ASSUME IInv, AppendOk, flavour # "duckdb"
  PROVE  Session!Accept
<1>1. /\ appender = "appending" /\ appender' = "idle" /\ row = size
      /\ accepted' = accepted \o Run(first, size)
      /\ UNCHANGED <<flavour, table, outcome>>
  BY DEF AppendOk
<1>2. accepted \in Seq(RowNumbers) /\ accepted' \in Seq(RowNumbers)
  BY <1>1, AppendOkInv DEF IInv, TypeOK, RowNumbers
<1>3. first \in Nat \ {0} /\ size \in Nat /\ first + size <= MaxRows + 1
  BY <1>1, StreamAssumption DEF IInv, TypeOK, BatchInv
<1>4. Run(first, size) \in Seq(RowNumbers)
  BY <1>3, RunInBounds, StreamAssumption DEF RowNumbers
<1>5. /\ Len(accepted') >= Len(accepted)
      /\ SubSeq(accepted', 1, Len(accepted)) = accepted
  BY <1>1, <1>2, <1>4, ConcatExtends
<1>6. QED
  BY <1>1, <1>2, <1>5 DEF Session!Accept, Of, RowNumbers

(* Each step of PostgreSQL's and SQL Server's appender is one of the       *)
(* session or leaves it alone; DuckDB's are not looked at.                 *)
LEMMA StepsOfSession == IInv /\ [Next]_vars => [Session!Next]_(Session!vars)
<1> SUFFICES ASSUME IInv, [Next]_vars PROVE Session!Next \/ UNCHANGED Session!vars
  OBVIOUS
<1> USE DEF Session!Next, Session!vars, Of
<1>1. CASE flavour = "duckdb"
  <2>1. UNCHANGED flavour
    BY DEF Next, vars, Open, AppendCall, WriteRow, WriteRowDuckDB, WriteErr, WritePanics,
           ServerAborts, AppendOk, FinishOk, FinishErr, FinishDuckDB, DropAppender,
           DropDuckDB, NextRequestFails, Close
  <2>2. QED
    BY <1>1, <2>1
<1>2. CASE flavour # "duckdb"
  <2>1. CASE Open
    BY <1>2, <2>1 DEF Open, Session!Begin
  <2>2. ASSUME NEW n \in BatchRows, NEW columns \in Widths, AppendCall(n, columns)
        PROVE  UNCHANGED Session!vars
    BY <1>2, <2>2 DEF AppendCall
  <2>3. ASSUME NEW sends \in BOOLEAN, WriteRow(sends)
        PROVE  UNCHANGED Session!vars
    BY <1>2, <2>3 DEF WriteRow, history
  <2>4. CASE WriteErr \/ WritePanics \/ ServerAborts \/ NextRequestFails
    BY <1>2, <2>4 DEF WriteErr, WritePanics, ServerAborts, NextRequestFails, Writing,
                      history, client
  <2>5. CASE AppendOk
    BY <1>2, <2>5, AppendOkAccepts
  <2>6. CASE FinishOk
    <3>1. table' = table \o accepted
      BY <1>2, <2>6, CompleteStoresAccepted DEF FinishOk
    <3>2. QED
      BY <1>2, <2>6, <3>1 DEF FinishOk, Close, Session!FinishOk, Session!End
  <2>7. ASSUME NEW stored \in BOOLEAN, FinishErr(stored)
        PROVE  Session!Next
    <3>1. table' = table \o accepted \/ UNCHANGED table
      BY <1>2, <2>7, CompleteStoresAccepted DEF FinishErr
    <3>2. QED
      BY <1>2, <2>7, <3>1 DEF FinishErr, Close, Session!FinishErr, Session!End
  <2>8. CASE DropAppender
    BY <1>2, <2>8 DEF DropAppender, Close, Session!Drop, Session!End
  <2>9. CASE UNCHANGED vars
    BY <2>9 DEF vars, client, history
  <2>10. ASSUME WriteRowDuckDB \/ \E succeeds \in BOOLEAN :
                  FinishDuckDB(succeeds) \/ DropDuckDB(succeeds)
         PROVE  FALSE
    BY <1>2, <2>10 DEF WriteRowDuckDB, FinishDuckDB, DropDuckDB
  <2>11. QED
    BY <2>1, <2>2, <2>3, <2>4, <2>5, <2>6, <2>7, <2>8, <2>9, <2>10 DEF Next
<1>3. QED
  BY <1>1, <1>2

(* COPY and bulk load are all-or-nothing: the appenders of PostgreSQL and  *)
(* SQL Server implement the abstract session, in which an Err of finish    *)
(* may hide that the rows are stored.                                      *)
THEOREM ImplementsSession == Spec => AllOrNothing
<1>1. Init => Session!Init
  BY DEF Init, Session!Init, Of
<1>2. QED
  BY <1>1, StepsOfSession, Invariance, PTL DEF Spec, AllOrNothing, Session!Spec
=============================================================================

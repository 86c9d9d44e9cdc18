----------------------- MODULE ChunkedAppenderProofs -----------------------
(***************************************************************************)
(* Proofs about ChunkedAppender for every chunk size, size of the batches  *)
(* and number of rows.                                                     *)
(***************************************************************************)
EXTENDS ChunkedAppender, SequenceTheorems, TLAPS

-----------------------------------------------------------------------------
(* Numbered rows.                                                          *)

(* Run(a, n) are the n numbers from a on.                                  *)
LEMMA RunProperties ==
  ASSUME NEW a \in Nat, NEW n \in Nat
  PROVE  /\ Run(a, n) \in Seq(Nat)
         /\ Len(Run(a, n)) = n
         /\ \A i \in 1 .. n : Run(a, n)[i] = a + i - 1
<1>1. \A i \in 1 .. n : a + i - 1 \in Nat
  OBVIOUS
<1>2. QED
  BY <1>1 DEF Run

(* The rows of a batch stay within the numbers given out.                  *)
LEMMA RunInBounds ==
  ASSUME NEW a \in Nat \ {0}, NEW n \in Nat, NEW m \in Nat, a + n <= m + 1
  PROVE  Run(a, n) \in Seq(1 .. m)
<1>1. \A i \in 1 .. n : a + i - 1 \in 1 .. m
  OBVIOUS
<1>2. QED
  BY <1>1 DEF Run

(* Adjacent rows.                                                          *)
LEMMA RunConcat ==
  ASSUME NEW a \in Nat, NEW m \in Nat, NEW n \in Nat
  PROVE  Run(a, m) \o Run(a + m, n) = Run(a, m + n)
<1> DEFINE s == Run(a, m) \o Run(a + m, n)
           t == Run(a, m + n)
<1>1. /\ Run(a, m) \in Seq(Nat) /\ Len(Run(a, m)) = m
      /\ \A i \in 1 .. m : Run(a, m)[i] = a + i - 1
  BY RunProperties
<1>2. /\ Run(a + m, n) \in Seq(Nat) /\ Len(Run(a + m, n)) = n
      /\ \A i \in 1 .. n : Run(a + m, n)[i] = a + m + i - 1
  BY RunProperties, a + m \in Nat
<1>3. /\ t \in Seq(Nat) /\ Len(t) = m + n
      /\ \A i \in 1 .. m + n : t[i] = a + i - 1
  BY RunProperties, m + n \in Nat
<1>4. /\ s \in Seq(Nat) /\ Len(s) = m + n
      /\ \A i \in 1 .. m + n : s[i] = IF i <= m THEN Run(a, m)[i] ELSE Run(a + m, n)[i - m]
  <2> DEFINE u == Run(a, m)
             v == Run(a + m, n)
  <2>1. u \in Seq(Nat) /\ Len(u) = m /\ v \in Seq(Nat) /\ Len(v) = n
    BY <1>1, <1>2
  <2> HIDE DEF u, v
  <2>2. /\ u \o v \in Seq(Nat) /\ Len(u \o v) = m + n
        /\ \A i \in 1 .. m + n : (u \o v)[i] = IF i <= m THEN u[i] ELSE v[i - m]
    BY <2>1, ConcatProperties
  <2>3. QED
    BY <2>2 DEF u, v
<1> HIDE DEF s, t
<1>5. ASSUME NEW i \in 1 .. m + n PROVE s[i] = t[i]
  <2>1. CASE i <= m
    BY <1>1, <1>3, <1>4, <2>1
  <2>2. CASE ~(i <= m)
    <3>1. i - m \in 1 .. n
      BY <2>2
    <3>2. s[i] = Run(a + m, n)[i - m] /\ Run(a + m, n)[i - m] = a + m + (i - m) - 1
      BY <1>2, <1>4, <2>2, <3>1
    <3>3. QED
      BY <1>3, <3>2
  <2>3. QED
    BY <2>1, <2>2
<1>6. s = t
  BY <1>3, <1>4, <1>5, SeqEqual
<1>7. QED
  BY <1>6 DEF s, t

LEMMA RunElements ==
  ASSUME NEW a \in Nat, NEW n \in Nat
  PROVE  /\ Elements(Run(a, n)) = a .. a + n - 1
         /\ Increasing(Run(a, n))
<1>1. /\ Run(a, n) \in Seq(Nat) /\ Len(Run(a, n)) = n
      /\ \A i \in 1 .. n : Run(a, n)[i] = a + i - 1
  BY RunProperties
<1>2. DOMAIN Run(a, n) = 1 .. n
  BY <1>1
<1>3. Increasing(Run(a, n))
  BY <1>1, <1>2 DEF Increasing
<1>4. Elements(Run(a, n)) \subseteq a .. a + n - 1
  BY <1>1, <1>2 DEF Elements
<1>5. ASSUME NEW e \in a .. a + n - 1 PROVE e \in Elements(Run(a, n))
  <2>1. e - a + 1 \in 1 .. n /\ e = a + (e - a + 1) - 1
    OBVIOUS
  <2>2. e = Run(a, n)[e - a + 1]
    BY <1>1, <2>1
  <2>3. QED
    BY <1>2, <2>1, <2>2 DEF Elements
<1>6. QED
  BY <1>3, <1>4, <1>5

(* What is added at the end leaves the beginning as it was.                *)
LEMMA ConcatExtends ==
  ASSUME NEW S, NEW s \in Seq(S), NEW t \in Seq(S)
  PROVE  /\ Len(s \o t) >= Len(s)
         /\ SubSeq(s \o t, 1, Len(s)) = s
<1> DEFINE u == s \o t
<1>1. /\ u \in Seq(S) /\ Len(u) = Len(s) + Len(t)
      /\ Len(s) \in Nat /\ Len(t) \in Nat
      /\ \A i \in 1 .. Len(s) : u[i] = s[i]
  BY ConcatProperties
<1> HIDE DEF u
<1>2. \A i \in 1 .. Len(s) : u[i] \in S
  BY <1>1, ElementOfSeq
<1>3. /\ SubSeq(u, 1, Len(s)) \in Seq(S)
      /\ Len(SubSeq(u, 1, Len(s))) = Len(s)
      /\ \A i \in 1 .. Len(s) : SubSeq(u, 1, Len(s))[i] = u[i]
  BY <1>1, <1>2, SubSeqProperties
<1>4. SubSeq(u, 1, Len(s)) = s
  BY <1>1, <1>3, SeqEqual
<1>5. QED
  BY <1>1, <1>4 DEF u

(* The rows of two sequences together.                                     *)
LEMMA ElementsConcat ==
  ASSUME NEW S, NEW s \in Seq(S), NEW t \in Seq(S)
  PROVE  Elements(s \o t) = Elements(s) \cup Elements(t)
<1>1. /\ s \o t \in Seq(S)
      /\ Len(s \o t) = Len(s) + Len(t)
      /\ \A i \in 1 .. Len(s) + Len(t) :
           (s \o t)[i] = IF i <= Len(s) THEN s[i] ELSE t[i - Len(s)]
  BY ConcatProperties
<1>2. Len(s) \in Nat /\ Len(t) \in Nat
  OBVIOUS
<1>3. ASSUME NEW i \in DOMAIN s PROVE s[i] \in Elements(s \o t)
  <2>1. i \in 1 .. Len(s) /\ i \in DOMAIN (s \o t)
    BY <1>1, <1>2
  <2>2. (s \o t)[i] = s[i]
    BY <1>1, <1>2, <2>1
  <2>3. QED
    BY <2>1, <2>2 DEF Elements
<1>4. ASSUME NEW i \in DOMAIN t PROVE t[i] \in Elements(s \o t)
  <2>1. Len(s) + i \in DOMAIN (s \o t)
    BY <1>1, <1>2
  <2>2. (s \o t)[Len(s) + i] = t[i]
    BY <1>1, <1>2
  <2>3. QED
    BY <2>1, <2>2 DEF Elements
<1>5. ASSUME NEW i \in DOMAIN (s \o t)
      PROVE  (s \o t)[i] \in Elements(s) \cup Elements(t)
  <2>1. i \in 1 .. Len(s) + Len(t)
    BY <1>1, <1>2
  <2>2. CASE i <= Len(s)
    <3>1. i \in DOMAIN s /\ (s \o t)[i] = s[i]
      BY <1>1, <1>2, <2>1, <2>2
    <3>2. QED
      BY <3>1 DEF Elements
  <2>3. CASE ~(i <= Len(s))
    <3>1. i - Len(s) \in DOMAIN t /\ (s \o t)[i] = t[i - Len(s)]
      BY <1>1, <1>2, <2>1, <2>3
    <3>2. QED
      BY <3>1 DEF Elements
  <2>4. QED
    BY <2>2, <2>3
<1>6. QED
  BY <1>3, <1>4, <1>5 DEF Elements

(* Rows that are all later keep a sequence in order.                       *)
LEMMA IncreasingConcat ==
  ASSUME NEW s \in Seq(Nat), NEW t \in Seq(Nat)
  PROVE  /\ Increasing(s \o t) => Increasing(s)
         /\ Increasing(s) /\ Increasing(t)
              /\ (\A e \in Elements(s), f \in Elements(t) : e < f) => Increasing(s \o t)
<1>1. /\ s \o t \in Seq(Nat)
      /\ Len(s \o t) = Len(s) + Len(t)
      /\ \A i \in 1 .. Len(s) + Len(t) :
           (s \o t)[i] = IF i <= Len(s) THEN s[i] ELSE t[i - Len(s)]
  BY ConcatProperties
<1>2. /\ Len(s) \in Nat /\ Len(t) \in Nat
      /\ DOMAIN s = 1 .. Len(s) /\ DOMAIN t = 1 .. Len(t)
      /\ DOMAIN (s \o t) = 1 .. Len(s) + Len(t)
  BY <1>1
<1>3. ASSUME Increasing(s \o t), NEW i \in DOMAIN s, NEW j \in DOMAIN s, i < j
      PROVE  s[i] < s[j]
  <2>1. (s \o t)[i] = s[i] /\ (s \o t)[j] = s[j]
    BY <1>1, <1>2
  <2>2. (s \o t)[i] < (s \o t)[j]
    BY <1>2, <1>3 DEF Increasing
  <2>3. QED
    BY <2>1, <2>2
<1>4. ASSUME Increasing(s), Increasing(t),
             \A e \in Elements(s), f \in Elements(t) : e < f,
             NEW i \in DOMAIN (s \o t), NEW j \in DOMAIN (s \o t), i < j
      PROVE  (s \o t)[i] < (s \o t)[j]
  <2>1. CASE j <= Len(s)
    BY <1>1, <1>2, <1>4, <2>1 DEF Increasing
  <2>2. CASE i <= Len(s) /\ ~(j <= Len(s))
    <3>1. s[i] \in Elements(s) /\ t[j - Len(s)] \in Elements(t)
      BY <1>2, <2>2 DEF Elements
    <3>2. QED
      BY <1>1, <1>2, <1>4, <2>2, <3>1
  <2>3. CASE ~(i <= Len(s))
    <3>1. /\ i - Len(s) \in DOMAIN t /\ j - Len(s) \in DOMAIN t
          /\ i - Len(s) < j - Len(s)
      BY <1>2, <1>4, <2>3
    <3>2. t[i - Len(s)] < t[j - Len(s)]
      BY <1>4, <3>1 DEF Increasing
    <3>3. QED
      BY <1>1, <1>2, <1>4, <2>3, <3>2
  <2>4. QED
    BY <1>2, <2>1, <2>2, <2>3
<1>5. QED
  BY <1>3, <1>4 DEF Increasing

-----------------------------------------------------------------------------

RowNumbers == 1 .. MaxRows

(* The rows of the batch at hand that the statements executed so far have  *)
(* inserted: chunks of ChunkSize rows, and the rest with the last one.     *)
Done == IF chunk <= FullChunks THEN chunk * ChunkSize ELSE size

(* The rows of this appender that have been inserted.                      *)
Written == IF appender = "appending" THEN accepted \o Run(first, Done) ELSE accepted

(* No row beyond this one has been inserted.                               *)
Reached == IF appender = "appending" THEN first + Done - 1 ELSE appended

(* A batch at hand is the last rows the caller has numbered.               *)
BatchInv ==
  /\ first # 0
  /\ appender = "appending" => first + size = appended + 1

(* Rows wait in an open transaction, those of SQLite only as long as an    *)
(* appender holds it.                                                      *)
TxInv ==
  /\ ~txOpen => tx = <<>>
  /\ flavour = "sqlite" /\ appender = "none" => tx = <<>>
  /\ appender = "none" => accepted = <<>>

(* A caller that stops at an Err has its own rows in the transaction and   *)
(* no others.                                                              *)
OwnRowsInv ==
  appender \in {"idle", "appending"} /\ ~goesOn => txOpen /\ tx = Written

(* One that goes on has them there as long as the transaction lives.       *)
KeptRowsInv ==
  appender # "none" /\ txOpen => Elements(Written) \subseteq Elements(tx)

(* The rows inserted and not rolled back are in order, and all of them     *)
(* come before the rows still to insert.                                   *)
OrderInv ==
  /\ Increasing(committed \o tx)
  /\ Elements(committed \o tx) \subseteq 1 .. Reached

IInv ==
  /\ TypeOK
  /\ BatchInv /\ TxInv
  /\ OwnRowsInv /\ KeptRowsInv /\ OrderInv
  /\ FinishMeansCommitted
-----------------------------------------------------------------------------
(* A product grows with its first factor.                                  *)
LEMMA ProductGrows ==
  ASSUME NEW a \in Nat, NEW b \in Nat, NEW c \in Nat, a <= b
  PROVE  a * c <= b * c /\ a * c \in Nat
<1>1. b * c = a * c + (b - a) * c
  OBVIOUS
<1>2. (b - a) * c \in Nat /\ a * c \in Nat
  OBVIOUS
<1>3. QED
  BY <1>1, <1>2

(* A batch is cut into full chunks and a rest.                             *)
LEMMA ChunkArithmetic ==
  ASSUME TypeOK
  PROVE  /\ ChunkSize \in Nat \ {0} /\ size \in Nat
         /\ FullChunks \in Nat /\ LastSize \in Nat /\ LastSize < ChunkSize
         /\ FullChunks * ChunkSize \in Nat
         /\ size = FullChunks * ChunkSize + LastSize
         /\ chunk \in Nat /\ chunk <= Statements
<1>1. ChunkSize \in Nat \ {0} /\ size \in Nat
  BY ChunkedAssumption DEF TypeOK
<1>2. FullChunks \in Nat /\ LastSize \in Nat /\ LastSize < ChunkSize
  BY <1>1 DEF FullChunks, LastSize
<1>3. size = FullChunks * ChunkSize + LastSize
  BY <1>1 DEF FullChunks, LastSize
<1>4. FullChunks * ChunkSize \in Nat
  BY <1>1, <1>2, ProductGrows
<1>5. Statements \in Nat
  BY <1>2 DEF Statements
<1>6. QED
  BY <1>1, <1>2, <1>3, <1>4, <1>5 DEF TypeOK

LEMMA DoneBounds ==
  ASSUME TypeOK
  PROVE  /\ Done \in Nat /\ Done <= size
         /\ chunk = 0 => Done = 0
         /\ chunk = Statements => Done = size
<1> USE ChunkArithmetic
<1>1. CASE chunk <= FullChunks
  <2>1. chunk * ChunkSize <= FullChunks * ChunkSize /\ chunk * ChunkSize \in Nat
    BY <1>1, ProductGrows
  <2>2. chunk = 0 => chunk * ChunkSize = 0
    OBVIOUS
  <2>3. chunk = Statements => LastSize = 0 /\ chunk = FullChunks
    BY <1>1 DEF Statements
  <2>4. QED
    BY <1>1, <2>1, <2>2, <2>3 DEF Done
<1>2. CASE ~(chunk <= FullChunks)
  BY <1>2 DEF Done
<1>3. QED
  BY <1>1, <1>2

(* The next statement inserts the rows behind those inserted.              *)
LEMMA ChunkStep ==
  ASSUME TypeOK, chunk < Statements, chunk' = chunk + 1, UNCHANGED size
  PROVE  \E n \in Nat : /\ ChunkRows = Run(first + Done, n)
                        /\ Done' = Done + n /\ Done + n <= size
<1> USE ChunkArithmetic
<1>1. UNCHANGED <<FullChunks, LastSize>>
  BY DEF FullChunks, LastSize
<1>2. CASE chunk < FullChunks
  <2>1. ChunkRows = Run(first + Done, ChunkSize)
    BY <1>2 DEF ChunkRows, Done
  <2>2. Done' = (chunk + 1) * ChunkSize /\ Done = chunk * ChunkSize
    BY <1>1, <1>2 DEF Done
  <2>3. (chunk + 1) * ChunkSize = chunk * ChunkSize + ChunkSize
    OBVIOUS
  <2>4. (chunk + 1) * ChunkSize <= FullChunks * ChunkSize
    BY <1>2, chunk + 1 <= FullChunks, ProductGrows
  <2>5. QED
    BY <2>1, <2>2, <2>3, <2>4
<1>3. CASE ~(chunk < FullChunks)
  <2>1. chunk = FullChunks /\ LastSize > 0
    BY <1>3 DEF Statements
  <2>2. Done = size - LastSize /\ Done' = size
    BY <1>1, <2>1 DEF Done
  <2>3. ChunkRows = Run(first + Done, LastSize)
    BY <1>3, <2>2 DEF ChunkRows
  <2>4. QED
    BY <2>2, <2>3
<1>4. QED
  BY <1>2, <1>3

-----------------------------------------------------------------------------
LEMMA InitInv == Init => IInv
<1> SUFFICES ASSUME Init PROVE IInv
  OBVIOUS
<1>1. TypeOK
  <2>1. 0 \in 0 .. Statements
    <3>1. FullChunks \in Nat
      BY ChunkedAssumption, size \in Nat DEF Init, FullChunks
    <3>2. Statements \in Nat
      BY <3>1 DEF Statements
    <3>3. QED
      BY <3>2
  <2>2. chunk \in 0 .. Statements
    BY <2>1 DEF Init
  <2>3. /\ committed \in Seq(1 .. MaxRows) /\ tx \in Seq(1 .. MaxRows)
        /\ accepted \in Seq(1 .. MaxRows) /\ promised \in Seq(1 .. MaxRows)
    BY DEF Init
  <2>4. first \in Nat /\ size \in Nat /\ appended \in 0 .. MaxRows
    BY ChunkedAssumption DEF Init
  <2>5. QED
    BY <2>2, <2>3, <2>4 DEF Init, TypeOK
<1>2. BatchInv /\ TxInv /\ OwnRowsInv /\ KeptRowsInv /\ FinishMeansCommitted
  BY DEF Init, BatchInv, TxInv, OwnRowsInv, KeptRowsInv, FinishMeansCommitted
<1>3. OrderInv
  <2>1. <<>> \o <<>> = <<>>
    OBVIOUS
  <2>2. QED
    BY <2>1 DEF Init, OrderInv, Increasing, Elements
<1>4. QED
  BY <1>1, <1>2, <1>3 DEF IInv

(* No row is inserted that the caller has not numbered.                    *)
LEMMA ReachedBounds ==
  ASSUME TypeOK, BatchInv
  PROVE  Reached \in Nat /\ Reached <= appended /\ appended <= MaxRows
<1>1. first \in Nat \ {0} /\ appended \in Nat /\ appended <= MaxRows
  BY ChunkedAssumption DEF TypeOK, BatchInv
<1>2. Done \in Nat /\ Done <= size /\ size \in Nat
  BY DoneBounds DEF TypeOK
<1>3. CASE appender = "appending"
  BY <1>1, <1>2, <1>3 DEF BatchInv, Reached
<1>4. QED
  BY <1>1, <1>3 DEF Reached

LEMMA WrittenType ==
  ASSUME TypeOK, BatchInv
  PROVE  Written \in Seq(RowNumbers)
<1>1. accepted \in Seq(RowNumbers) /\ MaxRows \in Nat
  BY ChunkedAssumption DEF TypeOK, RowNumbers
<1>2. CASE appender = "appending"
  <2>1. first \in Nat \ {0} /\ Done \in Nat
    BY DoneBounds DEF TypeOK, BatchInv
  <2>2. first + Done <= MaxRows + 1
    BY <1>1, <1>2, <2>1, ReachedBounds DEF Reached, TypeOK
  <2>3. Run(first, Done) \in Seq(RowNumbers)
    BY <1>1, <2>1, <2>2, RunInBounds DEF RowNumbers
  <2>4. QED
    BY <1>1, <1>2, <2>3 DEF Written
<1>3. QED
  BY <1>1, <1>2 DEF Written

(* A COMMIT puts the rows of the transaction behind those of the table.    *)
LEMMA CommitKeepsRows ==
  ASSUME IInv, committed' = committed \o tx, tx' = <<>>
  PROVE  /\ committed' \in Seq(RowNumbers)
         /\ committed' \o tx' = committed \o tx
         /\ Elements(committed') = Elements(committed) \cup Elements(tx)
<1>1. committed \in Seq(RowNumbers) /\ tx \in Seq(RowNumbers)
  BY DEF IInv, TypeOK, RowNumbers
<1>2. committed \o tx \in Seq(RowNumbers)
  BY <1>1
<1>3. (committed \o tx) \o <<>> = committed \o tx
  BY <1>2, ConcatEmptySeq
<1>4. QED
  BY <1>1, <1>2, <1>3, ElementsConcat

(* However a transaction ends, or stays, the rows keep their order.        *)
LEMMA TransactionEnds ==
  ASSUME IInv, CommitTx \/ RollBackTx \/ UNCHANGED db
  PROVE  /\ committed' \in Seq(RowNumbers) /\ tx' \in Seq(RowNumbers)
         /\ txOpen' \in BOOLEAN
         /\ ~txOpen' => tx' = <<>>
         /\ Increasing(committed' \o tx')
         /\ Elements(committed' \o tx') \subseteq 1 .. Reached
         /\ Elements(committed) \subseteq Elements(committed')
<1>1. /\ committed \in Seq(RowNumbers) /\ tx \in Seq(RowNumbers)
      /\ committed \in Seq(Nat) /\ tx \in Seq(Nat)
  <2>1. committed \in Seq(RowNumbers) /\ tx \in Seq(RowNumbers)
    BY DEF IInv, TypeOK, RowNumbers
  <2>2. RowNumbers \subseteq Nat
    BY DEF RowNumbers
  <2>3. QED
    BY <2>1, <2>2, SeqMonotonic
<1>2. CASE CommitTx
  <2>1. /\ committed' = committed \o tx /\ tx' = <<>> /\ txOpen' = FALSE
        /\ committed' \o tx' = committed \o tx
        /\ committed' \in Seq(RowNumbers)
        /\ Elements(committed') = Elements(committed) \cup Elements(tx)
    BY <1>2, CommitKeepsRows DEF CommitTx
  <2>2. Increasing(committed' \o tx') /\ Elements(committed' \o tx') \subseteq 1 .. Reached
    BY <2>1 DEF IInv, OrderInv
  <2>3. tx' \in Seq(RowNumbers)
    BY <2>1
  <2>4. txOpen' \in BOOLEAN /\ (~txOpen' => tx' = <<>>)
    BY <2>1
  <2>5. QED
    BY <2>1, <2>2, <2>3, <2>4
<1>3. CASE RollBackTx
  <2>1. committed' = committed /\ tx' = <<>> /\ txOpen' = FALSE
    BY <1>3 DEF RollBackTx
  <2>2. committed \o <<>> = committed
    BY <1>1, ConcatEmptySeq
  <2>3. Increasing(committed)
    BY <1>1, IncreasingConcat DEF IInv, OrderInv
  <2>4. Elements(committed) \subseteq 1 .. Reached
    <3>1. Elements(committed \o tx) = Elements(committed) \cup Elements(tx)
      BY <1>1, ElementsConcat
    <3>2. QED
      BY <3>1 DEF IInv, OrderInv
  <2>5. committed' \o tx' = committed
    BY <2>1, <2>2
  <2>6. Increasing(committed' \o tx') /\ Elements(committed' \o tx') \subseteq 1 .. Reached
    BY <2>3, <2>4, <2>5
  <2>7. committed' \in Seq(RowNumbers) /\ tx' \in Seq(RowNumbers)
    BY <1>1, <2>1
  <2>8. txOpen' \in BOOLEAN /\ (~txOpen' => tx' = <<>>)
    BY <2>1
  <2>9. QED
    BY <2>1, <2>6, <2>7, <2>8
<1>4. CASE UNCHANGED db
  <2>1. committed' = committed /\ tx' = tx /\ txOpen' = txOpen
    BY <1>4 DEF db
  <2>2. Increasing(committed' \o tx') /\ Elements(committed' \o tx') \subseteq 1 .. Reached
    BY <2>1 DEF IInv, OrderInv
  <2>3. txOpen' \in BOOLEAN /\ (~txOpen' => tx' = <<>>)
    BY <2>1 DEF IInv, TypeOK, TxInv
  <2>4. committed' \in Seq(RowNumbers) /\ tx' \in Seq(RowNumbers)
    BY <1>1, <2>1
  <2>5. QED
    BY <2>1, <2>2, <2>3, <2>4
<1>5. QED
  BY <1>2, <1>3, <1>4

(* What the callers were promised stays true while the table only grows.   *)
LEMMA PromisesKept ==
  ASSUME FinishMeansCommitted, UNCHANGED <<flavour, goesOn, promised>>,
         Elements(committed) \subseteq Elements(committed')
  PROVE  FinishMeansCommitted'
<1>1. UNCHANGED Elements(promised)
  BY DEF Elements
<1>2. QED
  BY <1>1 DEF FinishMeansCommitted
-----------------------------------------------------------------------------
(* A new appender has inserted nothing.                                    *)
LEMMA OpenInv == IInv /\ Open => IInv'
<1> SUFFICES ASSUME IInv, Open PROVE IInv'
  OBVIOUS
<1>1. /\ UNCHANGED <<flavour, goesOn, first, size, chunk, appended, promised>>
      /\ appender = "none" /\ appender' = "idle" /\ accepted' = <<>>
      /\ committed' = committed \o tx /\ tx' = <<>> /\ txOpen' = TRUE
      /\ outcome' = "none"
  BY DEF Open
<1>2. /\ committed' \in Seq(RowNumbers)
      /\ committed' \o tx' = committed \o tx
      /\ Elements(committed') = Elements(committed) \cup Elements(tx)
  BY <1>1, CommitKeepsRows
<1>3. TypeOK'
  <2>1. UNCHANGED Statements
    BY <1>1 DEF Statements, FullChunks, LastSize
  <2>2. tx' \in Seq(1 .. MaxRows) /\ accepted' \in Seq(1 .. MaxRows)
    BY <1>1
  <2>3. QED
    BY <1>1, <1>2, <2>1, <2>2 DEF IInv, TypeOK, RowNumbers
<1>4. BatchInv' /\ TxInv'
  BY <1>1 DEF IInv, BatchInv, TxInv
<1>5. OwnRowsInv' /\ KeptRowsInv'
  BY <1>1 DEF OwnRowsInv, KeptRowsInv, Written, Elements
<1>6. OrderInv'
  <2>1. Reached' = Reached
    BY <1>1 DEF Reached
  <2>2. QED
    BY <1>2, <2>1 DEF IInv, OrderInv
<1>7. FinishMeansCommitted'
  BY <1>1, <1>2, PromisesKept DEF IInv
<1>8. QED
  BY <1>3, <1>4, <1>5, <1>6, <1>7 DEF IInv

(* append begins: no row of this batch is inserted.                        *)
LEMMA AppendCallInv ==
  ASSUME IInv, NEW n \in BatchRows, AppendCall(n)
  PROVE  IInv'
<1>1. /\ UNCHANGED <<flavour, goesOn, committed, txOpen, tx, accepted, promised, outcome>>
      /\ appender = "idle" \/ (goesOn /\ appender = "failed")
      /\ appender' = "appending" /\ chunk' = 0
      /\ appended + n <= MaxRows /\ appended' = appended + n
      /\ first' = appended + 1 /\ size' = n
  BY DEF AppendCall, db
<1>2. n \in Nat /\ appended \in Nat /\ MaxRows \in Nat /\ ChunkSize \in Nat \ {0}
  BY ChunkedAssumption DEF IInv, TypeOK
<1>3. FullChunks' \in Nat /\ LastSize' \in Nat
  BY <1>1, <1>2 DEF FullChunks, LastSize
<1>4. TypeOK'
  <2>1. Statements' \in Nat
    <3>1. /\ Statements' = (n \div ChunkSize) + (IF n % ChunkSize > 0 THEN 1 ELSE 0)
          /\ n \div ChunkSize \in Nat
      BY <1>1, <1>3 DEF Statements, FullChunks, LastSize
    <3>2. QED
      BY <3>1
  <2>2. /\ first' \in Nat /\ size' \in Nat /\ appended' \in 0 .. MaxRows
        /\ chunk' \in 0 .. Statements'
    BY <1>1, <1>2, <2>1
  <2>3. QED
    BY <1>1, <2>2 DEF IInv, TypeOK
<1>5. BatchInv' /\ TxInv'
  BY <1>1, <1>2 DEF IInv, BatchInv, TxInv
<1>6. Done' = 0
  BY <1>1, <1>2, <1>3 DEF Done
<1>7. Written' = Written
  <2>1. Run(first', 0) = <<>>
    BY DEF Run
  <2>2. accepted \o <<>> = accepted
    BY DEF IInv, TypeOK
  <2>3. QED
    BY <1>1, <1>6, <2>1, <2>2 DEF Written
<1>8. OwnRowsInv' /\ KeptRowsInv'
  <2>1. OwnRowsInv'
    BY <1>1, <1>7 DEF IInv, OwnRowsInv
  <2>2. KeptRowsInv'
    BY <1>1, <1>7 DEF IInv, KeptRowsInv
  <2>3. QED
    BY <2>1, <2>2
<1>9. OrderInv'
  <2>1. Reached' = appended /\ Reached = appended
    BY <1>1, <1>2, <1>6 DEF Reached
  <2>2. QED
    BY <1>1, <2>1 DEF IInv, OrderInv
<1>10. FinishMeansCommitted'
  BY <1>1, PromisesKept DEF IInv
<1>11. QED
  BY <1>4, <1>5, <1>8, <1>9, <1>10 DEF IInv
(* A statement inserts the next rows of the batch, into the transaction or *)
(* past it.                                                                *)
LEMMA InsertChunkInv == IInv /\ InsertChunk => IInv'
<1> SUFFICES ASSUME IInv, InsertChunk PROVE IInv'
  OBVIOUS
<1>1. /\ UNCHANGED <<flavour, goesOn, appender, first, size, txOpen>>
      /\ UNCHANGED <<appended, accepted, promised, outcome>>
      /\ appender = "appending" /\ chunk < Statements /\ chunk' = chunk + 1
  BY DEF InsertChunk, Insert
<1>2. PICK n \in Nat : /\ ChunkRows = Run(first + Done, n)
                       /\ Done' = Done + n /\ Done + n <= size
  BY <1>1, ChunkStep DEF IInv
<1> DEFINE rows == Run(first + Done, n)
<1>3. /\ first \in Nat \ {0} /\ Done \in Nat /\ MaxRows \in Nat
      /\ first + Done + n <= MaxRows + 1 /\ Reached = first + Done - 1
  <2>1. first \in Nat \ {0} /\ Done \in Nat /\ MaxRows \in Nat
    BY DoneBounds, ChunkedAssumption DEF IInv, TypeOK, BatchInv
  <2>2. size \in Nat /\ appended \in Nat /\ appended <= MaxRows /\ first + size = appended + 1
    BY <1>1, ChunkedAssumption DEF IInv, TypeOK, BatchInv
  <2>3. QED
    BY <1>1, <1>2, <2>1, <2>2 DEF Reached
<1>4. rows \in Seq(RowNumbers)
  <2>1. first + Done \in Nat \ {0}
    BY <1>3
  <2>2. QED
    BY <1>3, <2>1, RunInBounds DEF RowNumbers
<1>5. /\ committed \in Seq(RowNumbers) /\ tx \in Seq(RowNumbers)
      /\ accepted \in Seq(RowNumbers)
  BY DEF IInv, TypeOK, RowNumbers
<1>6. Run(first, Done) \in Seq(RowNumbers)
  BY <1>2, <1>3, RunInBounds DEF RowNumbers
<1>7. Written' = Written \o rows
  <2>1. Run(first, Done) \o Run(first + Done, n) = Run(first, Done + n)
    BY <1>3, RunConcat
  <2>2. accepted \o (Run(first, Done) \o rows) = (accepted \o Run(first, Done)) \o rows
    <3> HIDE DEF rows
    <3> QED
      BY <1>4, <1>5, <1>6, ConcatAssociative, SMTT(30)
  <2>3. QED
    BY <1>1, <1>2, <2>1, <2>2 DEF Written
<1>8. \/ txOpen /\ tx' = tx \o rows /\ committed' = committed
      \/ ~txOpen /\ tx = <<>> /\ tx' = <<>> /\ committed' = committed \o rows
  BY <1>2 DEF InsertChunk, Insert, IInv, TxInv
<1> HIDE DEF rows
<1>9. committed' \in Seq(RowNumbers) /\ tx' \in Seq(RowNumbers)
  <2>1. committed \o rows \in Seq(RowNumbers) /\ tx \o rows \in Seq(RowNumbers)
    BY <1>4, <1>5, ConcatProperties
  <2>2. QED
    BY <1>5, <1>8, <2>1
<1>10. TypeOK'
  <2>1. UNCHANGED <<Statements, FullChunks>>
    BY <1>1 DEF Statements, FullChunks, LastSize
  <2>2. chunk' \in 0 .. Statements'
    <3>1. chunk \in Nat /\ Statements \in Nat
      <4>1. FullChunks \in Nat /\ chunk \in Nat
        BY ChunkArithmetic DEF IInv
      <4>2. QED
        BY <4>1 DEF Statements
    <3>2. QED
      BY <1>1, <2>1, <3>1
  <2>3. QED
    BY <1>1, <1>9, <2>2 DEF IInv, TypeOK, RowNumbers
<1>11. BatchInv' /\ TxInv'
  BY <1>1, <1>8 DEF IInv, BatchInv, TxInv
<1>12. OwnRowsInv'
  BY <1>1, <1>7, <1>8 DEF IInv, OwnRowsInv
<1>13. KeptRowsInv'
  <2> SUFFICES ASSUME txOpen PROVE Elements(Written') \subseteq Elements(tx')
    BY <1>1 DEF KeptRowsInv, Elements
  <2>1. Elements(Written \o rows) = Elements(Written) \cup Elements(rows)
    <3>1. Written \in Seq(RowNumbers)
      BY WrittenType DEF IInv
    <3>2. QED
      BY <1>4, <3>1, ElementsConcat
  <2>2. Elements(tx \o rows) = Elements(tx) \cup Elements(rows)
    BY <1>4, <1>5, ElementsConcat
  <2>3. Elements(Written) \subseteq Elements(tx)
    BY <1>1 DEF IInv, KeptRowsInv
  <2>4. QED
    BY <1>7, <1>8, <2>1, <2>2, <2>3
<1>14. committed' \o tx' = (committed \o tx) \o rows
  <2>1. CASE txOpen
    <3>1. committed \o (tx \o rows) = (committed \o tx) \o rows
      BY <1>4, <1>5, ConcatAssociative, SMTT(30)
    <3>2. QED
      BY <1>8, <2>1, <3>1
  <2>2. CASE ~txOpen
    <3>1. committed \o <<>> = committed /\ committed \o rows \in Seq(RowNumbers)
      BY <1>4, <1>5, ConcatEmptySeq
    <3>2. (committed \o rows) \o <<>> = committed \o rows
      BY <3>1, ConcatEmptySeq
    <3>3. QED
      BY <1>8, <2>2, <3>1, <3>2
  <2>3. QED
    BY <2>1, <2>2
<1>15. OrderInv'
  <2> DEFINE stored == committed \o tx
  <2>1. /\ stored \in Seq(RowNumbers) /\ stored \in Seq(Nat) /\ rows \in Seq(Nat)
        /\ Increasing(rows) /\ Elements(rows) = first + Done .. first + Done + n - 1
    <3>1. stored \in Seq(RowNumbers)
      BY <1>5, ConcatProperties
    <3>2. stored \in Seq(Nat) /\ rows \in Seq(Nat)
      <4> HIDE DEF stored
      <4>1. RowNumbers \subseteq Nat
        BY DEF RowNumbers
      <4>2. QED
        BY <1>4, <3>1, <4>1, SeqMonotonic
    <3>3. Increasing(rows) /\ Elements(rows) = first + Done .. first + Done + n - 1
      <4>1. first + Done \in Nat
        BY <1>3
      <4>2. QED
        BY <4>1, RunElements DEF rows
    <3>4. QED
      BY <3>1, <3>2, <3>3
  <2>2. Increasing(stored) /\ Elements(stored) \subseteq 1 .. Reached
    BY DEF IInv, OrderInv
  <2> HIDE DEF stored
  <2>3. Elements(stored \o rows) = Elements(stored) \cup Elements(rows)
    <3>1. stored \in Seq(RowNumbers) /\ rows \in Seq(RowNumbers)
      BY <1>4, <2>1
    <3>2. QED
      BY <3>1, ElementsConcat
  <2>4. \A e \in Elements(stored), f \in Elements(rows) : e < f
    BY <1>3, <2>1, <2>2
  <2>5. Increasing(stored \o rows)
    BY <2>1, <2>2, <2>4, IncreasingConcat
  <2>6. Reached' = first + Done + n - 1
    BY <1>1, <1>2, <1>3 DEF Reached
  <2>7. Elements(stored \o rows) \subseteq 1 .. Reached'
    BY <1>3, <2>1, <2>2, <2>3, <2>6
  <2>8. committed' \o tx' = stored \o rows
    BY <1>14 DEF stored
  <2>9. QED
    BY <2>5, <2>7, <2>8 DEF OrderInv
<1>16. FinishMeansCommitted'
  <2>1. Elements(committed \o rows) = Elements(committed) \cup Elements(rows)
    BY <1>4, <1>5, ElementsConcat
  <2>2. Elements(committed) \subseteq Elements(committed')
    BY <1>8, <2>1
  <2>3. QED
    BY <1>1, <2>2, PromisesKept DEF IInv
<1>17. QED
  BY <1>10, <1>11, <1>12, <1>13, <1>15, <1>16 DEF IInv
(* Rows that keep their place while a batch ends.                          *)
LEMMA OrderKept ==
  ASSUME IInv, Increasing(committed' \o tx'),
         Elements(committed' \o tx') \subseteq 1 .. Reached,
         UNCHANGED appended, appender' # "appending"
  PROVE  OrderInv'
<1>1. Reached \in Nat /\ Reached <= appended /\ appended \in Nat /\ Reached' = appended
  BY ReachedBounds DEF IInv, TypeOK, Reached
<1>2. QED
  BY <1>1 DEF OrderInv

LEMMA InsertErrInv ==
  ASSUME IInv, InsertPanics \/ \E rolledBack \in BOOLEAN : InsertErr(rolledBack)
  PROVE  IInv'
<1>1. /\ UNCHANGED <<flavour, goesOn, first, size, chunk, appended, accepted, promised>>
      /\ UNCHANGED outcome
      /\ appender = "appending" /\ appender' \in {"failed", "panicked"}
      /\ RollBackTx \/ UNCHANGED db
  BY DEF InsertErr, InsertPanics
<1>2. /\ committed' \in Seq(RowNumbers) /\ tx' \in Seq(RowNumbers)
      /\ txOpen' \in BOOLEAN
      /\ ~txOpen' => tx' = <<>>
      /\ Increasing(committed' \o tx')
      /\ Elements(committed' \o tx') \subseteq 1 .. Reached
      /\ Elements(committed) \subseteq Elements(committed')
  BY <1>1, TransactionEnds
<1>3. TypeOK'
  <2>1. UNCHANGED Statements
    BY <1>1 DEF Statements, FullChunks, LastSize
  <2>2. QED
    BY <1>1, <1>2, <2>1 DEF IInv, TypeOK, RowNumbers
<1>4. BatchInv' /\ TxInv' /\ OwnRowsInv'
  BY <1>1, <1>2 DEF IInv, BatchInv, TxInv, OwnRowsInv
<1>5. KeptRowsInv'
  <2>1. CASE UNCHANGED db
    <3>1. accepted \in Seq(RowNumbers) /\ Run(first, Done) \in Seq(Nat)
      BY RunProperties, DoneBounds DEF IInv, TypeOK, RowNumbers
    <3>2. accepted \in Seq(Nat)
      <4>1. RowNumbers \subseteq Nat
        BY DEF RowNumbers
      <4>2. QED
        BY <3>1, <4>1, SeqMonotonic
    <3>3. Elements(accepted \o Run(first, Done)) = Elements(accepted) \cup Elements(Run(first, Done))
      BY <3>1, <3>2, ElementsConcat
    <3>4. Elements(accepted) \subseteq Elements(Written)
      BY <1>1, <3>3 DEF Written
    <3>5. tx' = tx /\ txOpen' = txOpen /\ Written' = accepted
      BY <1>1, <2>1 DEF db, Written
    <3>6. QED
      BY <1>1, <3>4, <3>5 DEF IInv, KeptRowsInv
  <2>2. CASE RollBackTx
    BY <2>2 DEF RollBackTx, KeptRowsInv
  <2>3. QED
    BY <1>1, <2>1, <2>2
<1>6. OrderInv'
  BY <1>1, <1>2, OrderKept
<1>7. FinishMeansCommitted'
  BY <1>1, <1>2, PromisesKept DEF IInv
<1>8. QED
  BY <1>3, <1>4, <1>5, <1>6, <1>7 DEF IInv

(* append returns Ok: all rows of the batch have been inserted.            *)
LEMMA AppendOkInv == IInv /\ AppendOk => IInv'
<1> SUFFICES ASSUME IInv, AppendOk PROVE IInv'
  OBVIOUS
<1>1. /\ UNCHANGED <<flavour, goesOn, committed, txOpen, tx, first, size, chunk>>
      /\ UNCHANGED <<appended, promised, outcome>>
      /\ appender = "appending" /\ appender' = "idle" /\ chunk = Statements
      /\ accepted' = accepted \o Run(first, size)
  BY DEF AppendOk, db
<1>2. Written' = Written /\ accepted' = Written
  BY <1>1, DoneBounds DEF Written, IInv
<1>3. TypeOK'
  <2>1. UNCHANGED Statements
    BY <1>1 DEF Statements, FullChunks, LastSize
  <2>2. accepted' \in Seq(1 .. MaxRows)
    BY <1>2, WrittenType DEF IInv, RowNumbers
  <2>3. QED
    BY <1>1, <2>1, <2>2 DEF IInv, TypeOK
<1>4. BatchInv' /\ TxInv' /\ OwnRowsInv' /\ KeptRowsInv'
  <2>1. BatchInv' /\ TxInv'
    BY <1>1 DEF IInv, BatchInv, TxInv
  <2>2. OwnRowsInv'
    BY <1>1, <1>2 DEF IInv, OwnRowsInv
  <2>3. KeptRowsInv'
    BY <1>1, <1>2 DEF IInv, KeptRowsInv
  <2>4. QED
    BY <2>1, <2>2, <2>3
<1>5. OrderInv'
  <2>1. Increasing(committed' \o tx') /\ Elements(committed' \o tx') \subseteq 1 .. Reached
    BY <1>1 DEF IInv, OrderInv
  <2>2. QED
    BY <1>1, <2>1, OrderKept
<1>6. FinishMeansCommitted'
  BY <1>1, PromisesKept DEF IInv
<1>7. QED
  BY <1>3, <1>4, <1>5, <1>6 DEF IInv

(* However an appender or its transaction ends, the next one starts        *)
(* afresh; only MySQL may leave rows behind in the transaction.            *)
LEMMA CloseInv ==
  ASSUME IInv, UNCHANGED <<flavour, goesOn, first, size, chunk, appended>>,
         appender' = "none", accepted' = <<>>,
         CommitTx \/ RollBackTx \/ (flavour # "sqlite" /\ UNCHANGED db),
         promised' \in Seq(RowNumbers), FinishMeansCommitted',
         outcome' \in {"none", "ok", "err", "dropped"}
  PROVE  IInv'
<1>1. /\ committed' \in Seq(RowNumbers) /\ tx' \in Seq(RowNumbers)
      /\ txOpen' \in BOOLEAN
      /\ ~txOpen' => tx' = <<>>
      /\ Increasing(committed' \o tx')
      /\ Elements(committed' \o tx') \subseteq 1 .. Reached
  BY TransactionEnds
<1>2. TypeOK'
  <2>1. UNCHANGED Statements
    BY DEF Statements, FullChunks, LastSize
  <2>2. accepted' \in Seq(1 .. MaxRows)
    OBVIOUS
  <2>3. QED
    BY <1>1, <2>1, <2>2 DEF IInv, TypeOK, RowNumbers
<1>3. TxInv'
  <2>1. flavour' = "sqlite" => tx' = <<>>
    BY DEF CommitTx, RollBackTx
  <2>2. QED
    BY <1>1, <2>1 DEF TxInv
<1>4. BatchInv' /\ OwnRowsInv' /\ KeptRowsInv'
  BY DEF IInv, BatchInv, OwnRowsInv, KeptRowsInv
<1>5. OrderInv'
  BY <1>1, OrderKept
<1>6. QED
  BY <1>2, <1>3, <1>4, <1>5 DEF IInv
LEMMA PromisedType == IInv => promised \in Seq(RowNumbers) /\ accepted \in Seq(RowNumbers)
  BY DEF IInv, TypeOK, RowNumbers

(* A COMMIT that succeeds for the appender commits what it has accepted.   *)
LEMMA FinishOkInv == IInv /\ FinishOk => IInv'
<1> SUFFICES ASSUME IInv, FinishOk PROVE IInv'
  OBVIOUS
<1>1. /\ UNCHANGED <<flavour, goesOn, first, size, chunk, appended>>
      /\ appender = "idle" \/ (goesOn /\ appender = "failed")
      /\ appender' = "none" /\ accepted' = <<>>
      /\ flavour = "sqlite" => txOpen
      /\ CommitTx
      /\ promised' = promised \o accepted
      /\ outcome' = "ok"
  BY DEF FinishOk, Finishing
<1>2. /\ committed' \in Seq(RowNumbers)
      /\ Elements(committed') = Elements(committed) \cup Elements(tx)
  BY <1>1, CommitKeepsRows DEF CommitTx
<1>3. promised \in Seq(RowNumbers) /\ accepted \in Seq(RowNumbers)
  BY PromisedType
<1>4. /\ promised' \in Seq(RowNumbers)
      /\ Elements(promised') = Elements(promised) \cup Elements(accepted)
  <2>1. promised \o accepted \in Seq(RowNumbers)
    BY <1>3, ConcatProperties
  <2>2. Elements(promised \o accepted) = Elements(promised) \cup Elements(accepted)
    BY <1>3, ElementsConcat
  <2>3. QED
    BY <1>1, <2>1, <2>2
<1>5. FinishMeansCommitted'
  <2> SUFFICES ASSUME flavour = "sqlite" \/ ~goesOn
               PROVE  Elements(promised') \subseteq Elements(committed')
    BY <1>1 DEF FinishMeansCommitted, Elements
  <2>1. txOpen
    BY <1>1 DEF IInv, OwnRowsInv
  <2>2. Elements(accepted) \subseteq Elements(tx)
    BY <1>1, <2>1 DEF IInv, KeptRowsInv, Written
  <2>3. Elements(promised) \subseteq Elements(committed)
    BY DEF IInv, FinishMeansCommitted
  <2>4. QED
    BY <1>2, <1>4, <2>2, <2>3
<1>6. QED
  BY <1>1, <1>4, <1>5, CloseInv

(* Every other end of an appender or a transaction promises nothing.       *)
LEMMA OtherEndsInv ==
  ASSUME IInv,
         \/ \E executed \in BOOLEAN : FinishErr(executed)
         \/ DropAppender \/ SchemaStatement \/ Disconnect
  PROVE  IInv'
<1>1. /\ UNCHANGED <<flavour, goesOn, first, size, chunk, appended, promised>>
      /\ appender' = "none" /\ accepted' = <<>>
  BY DEF FinishErr, Finishing, DropAppender, SchemaStatement, Disconnect, IInv, TxInv
<1>6. outcome' \in {"none", "ok", "err", "dropped"}
  BY DEF FinishErr, DropAppender, SchemaStatement, Disconnect, IInv, TypeOK
<1>2. CommitTx \/ RollBackTx \/ (flavour # "sqlite" /\ UNCHANGED db)
  BY DEF FinishErr, DropAppender, SchemaStatement, Disconnect
<1>3. Elements(committed) \subseteq Elements(committed')
  BY <1>2, TransactionEnds
<1>4. FinishMeansCommitted' /\ promised' \in Seq(RowNumbers)
  BY <1>1, <1>3, PromisesKept, PromisedType DEF IInv
<1>5. QED
  BY <1>1, <1>2, <1>4, <1>6, CloseInv

-----------------------------------------------------------------------------
(* Every step of an appender or its connection keeps the invariant.        *)
LEMMA NextInv == IInv /\ [Next]_vars => IInv'
<1> SUFFICES ASSUME IInv, [Next]_vars PROVE IInv'
  OBVIOUS
<1>1. CASE Open
  BY <1>1, OpenInv
<1>2. ASSUME NEW n \in BatchRows, AppendCall(n) PROVE IInv'
  BY <1>2, AppendCallInv
<1>3. CASE InsertChunk
  BY <1>3, InsertChunkInv
<1>4. CASE InsertPanics \/ \E rolledBack \in BOOLEAN : InsertErr(rolledBack)
  BY <1>4, InsertErrInv
<1>5. CASE AppendOk
  BY <1>5, AppendOkInv
<1>6. CASE FinishOk
  BY <1>6, FinishOkInv
<1>7. CASE \/ \E executed \in BOOLEAN : FinishErr(executed)
           \/ DropAppender \/ SchemaStatement \/ Disconnect
  BY <1>7, OtherEndsInv
<1>8. CASE UNCHANGED vars
  <2>1. UNCHANGED <<Statements, Done, Written, Reached>>
    BY <1>8 DEF vars, Statements, FullChunks, LastSize, Done, Written, Reached
  <2>2. TypeOK' /\ BatchInv' /\ TxInv'
    BY <1>8, <2>1 DEF vars, db, IInv, TypeOK, BatchInv, TxInv
  <2>3. OwnRowsInv' /\ KeptRowsInv'
    BY <1>8, <2>1 DEF vars, db, IInv, OwnRowsInv, KeptRowsInv, Elements
  <2>4. OrderInv' /\ FinishMeansCommitted'
    BY <1>8, <2>1 DEF vars, db, IInv, OrderInv, FinishMeansCommitted, Increasing, Elements
  <2>5. QED
    BY <2>2, <2>3, <2>4 DEF IInv
<1>9. QED
  BY <1>1, <1>2, <1>3, <1>4, <1>5, <1>6, <1>7, <1>8 DEF Next

(* The appenders of SQLite and MySQL keep the invariant, whatever fails.   *)
THEOREM Invariance == Spec => []IInv
<1>1. QED
  BY InitInv, NextInv, PTL DEF Spec

(* The appender's state stays well-typed; no more INSERT statements are    *)
(* executed than the batch is cut into.                                    *)
THEOREM TypeCorrect == Spec => []TypeOK
<1>1. IInv => TypeOK
  BY DEF IInv
<1>2. QED
  BY <1>1, Invariance, PTL

(* Cutting batches into INSERT statements of BATCH_SIZE rows neither skips *)
(* nor repeats a row, whatever the sizes: the transaction of a caller that *)
(* stops at an Err holds what append accepted, once and in order.          *)
THEOREM ChunksAreExact == Spec => []ChunksCoverBatch
<1>1. IInv => ChunksCoverBatch
  BY DEF IInv, OrderInv, OwnRowsInv, ChunksCoverBatch, Written
<1>2. QED
  BY <1>1, Invariance, PTL

(* Once finish has returned Ok, every row that append has accepted is      *)
(* committed: with SQLite for every caller, with MySQL for one that stops  *)
(* at an Err.                                                              *)
THEOREM FinishCommitsAccepted == Spec => []FinishMeansCommitted
<1>1. IInv => FinishMeansCommitted
  BY DEF IInv
<1>2. QED
  BY <1>1, Invariance, PTL

(* Nothing becomes visible to others while an appender is at work.         *)
THEOREM TableIsStable == Spec => StableWhileAppending
<1>1. ASSUME IInv, [Next]_vars, appender # "none", appender' # "none", ~goesOn
      PROVE  committed' = committed
  <2>1. CASE InsertChunk
    BY <1>1, <2>1 DEF InsertChunk, Insert, IInv, OwnRowsInv
  <2>2. CASE \/ AppendOk \/ InsertPanics \/ UNCHANGED vars
             \/ \E n \in BatchRows : AppendCall(n)
    BY <2>2 DEF AppendOk, InsertPanics, AppendCall, vars, db
  <2>3. ASSUME NEW rolledBack \in BOOLEAN, InsertErr(rolledBack)
        PROVE  committed' = committed
    BY <2>3 DEF InsertErr, RollBackTx, db
  <2>4. CASE Open \/ SchemaStatement
    BY <1>1, <2>4 DEF Open, SchemaStatement
  <2>5. CASE \/ FinishOk \/ DropAppender \/ Disconnect
             \/ \E executed \in BOOLEAN : FinishErr(executed)
    BY <1>1, <2>5 DEF FinishOk, FinishErr, Finishing, DropAppender, Disconnect
  <2>6. QED
    BY <1>1, <2>1, <2>2, <2>3, <2>4, <2>5 DEF Next
<1>2. QED
  BY <1>1, Invariance, PTL DEF Spec, StableWhileAppending
-----------------------------------------------------------------------------
(* The rows of a batch extend what the session has pending.                *)
LEMMA AppendOkAccepts ==
  ASSUME IInv, AppendOk, flavour = "sqlite", ~goesOn
  PROVE  Session!Accept
<1>1. /\ appender = "appending" /\ appender' = "idle"
      /\ accepted' = accepted \o Run(first, size)
      /\ UNCHANGED <<flavour, goesOn, committed, outcome>>
  BY DEF AppendOk, db
<1>2. accepted \in Seq(RowNumbers) /\ accepted' \in Seq(RowNumbers)
  BY <1>1, AppendOkInv DEF IInv, TypeOK, RowNumbers
<1>3. /\ Len(accepted') >= Len(accepted)
      /\ SubSeq(accepted', 1, Len(accepted)) = accepted
  <2>1. accepted \in Seq(Nat) /\ Run(first, size) \in Seq(Nat)
    <3>1. RowNumbers \subseteq Nat
      BY DEF RowNumbers
    <3>2. first \in Nat /\ size \in Nat
      BY DEF IInv, TypeOK
    <3>3. QED
      BY <1>2, <3>1, <3>2, SeqMonotonic, RunProperties
  <2>2. QED
    BY <1>1, <2>1, ConcatExtends
<1>4. QED
  BY <1>1, <1>2, <1>3 DEF Session!Accept, Of, RowNumbers

(* Each step of the SQLite appender of a caller that stops at an Err is    *)
(* one of the session or leaves it alone; no others are looked at.         *)
LEMMA StepsOfSession == IInv /\ [Next]_vars => [Session!Next]_(Session!vars)
<1> SUFFICES ASSUME IInv, [Next]_vars PROVE Session!Next \/ UNCHANGED Session!vars
  OBVIOUS
<1> USE DEF Session!Next, Session!vars, Of
<1>1. CASE flavour # "sqlite" \/ goesOn
  <2>1. UNCHANGED <<flavour, goesOn>>
    BY DEF Next, vars, Open, AppendCall, InsertChunk, InsertErr, InsertPanics, AppendOk, FinishOk,
           FinishErr, Finishing, DropAppender, SchemaStatement, Disconnect
  <2>2. QED
    BY <1>1, <2>1
<1>2. CASE flavour = "sqlite" /\ ~goesOn
  <2>1. CASE Open
    <3>1. tx = <<>> /\ committed \in Seq(RowNumbers)
      BY <1>2, <2>1 DEF Open, IInv, TxInv, TypeOK, RowNumbers
    <3>2. committed' = committed
      BY <2>1, <3>1, ConcatEmptySeq DEF Open
    <3>3. QED
      BY <1>2, <2>1, <3>2 DEF Open, Session!Begin
  <2>2. CASE \/ \E n \in BatchRows : AppendCall(n)
             \/ InsertChunk \/ InsertPanics
             \/ \E rolledBack \in BOOLEAN : InsertErr(rolledBack)
    <3>1. committed' = committed
      BY <1>2, <2>2 DEF AppendCall, db, InsertChunk, Insert, InsertErr, InsertPanics,
                        RollBackTx, IInv, OwnRowsInv
    <3>2. /\ appender # "none" /\ appender' # "none"
          /\ UNCHANGED <<flavour, goesOn, accepted, outcome>>
      BY <1>2, <2>2 DEF AppendCall, InsertChunk, InsertErr, InsertPanics
    <3>3. QED
      BY <1>2, <3>1, <3>2
  <2>3. CASE AppendOk
    BY <1>2, <2>3, AppendOkAccepts
  <2>4. CASE FinishOk
    <3>1. /\ appender = "idle" /\ appender' = "none" /\ accepted' = <<>>
          /\ committed' = committed \o tx /\ UNCHANGED <<flavour, goesOn>>
          /\ outcome' = "ok"
      BY <1>2, <2>4 DEF FinishOk, Finishing, CommitTx
    <3>2. tx = accepted
      BY <1>2, <3>1 DEF IInv, OwnRowsInv, Written
    <3>3. QED
      BY <1>2, <3>1, <3>2 DEF Session!FinishOk, Session!End
  <2>5. CASE DropAppender \/ \E executed \in BOOLEAN : FinishErr(executed)
    <3>1. /\ appender # "none" /\ appender' = "none" /\ accepted' = <<>>
          /\ UNCHANGED <<flavour, goesOn, committed>>
          /\ outcome' \in {"err", "dropped"}
      BY <1>2, <2>5 DEF DropAppender, FinishErr, Finishing, RollBackTx
    <3>2. QED
      BY <1>2, <3>1 DEF Session!FinishErr, Session!Drop, Session!End
  <2>6. CASE Disconnect
    <3>1. /\ appender' = "none" /\ accepted' = <<>>
          /\ UNCHANGED <<flavour, goesOn, committed>>
          /\ outcome' = IF appender = "none" THEN outcome ELSE "dropped"
      BY <2>6 DEF Disconnect, RollBackTx
    <3>2. appender = "none" => accepted = <<>>
      BY DEF IInv, TxInv
    <3>3. QED
      BY <1>2, <3>1, <3>2 DEF Session!Drop, Session!End
  <2>7. CASE SchemaStatement
    <3>1. /\ appender = "none" /\ committed' = committed \o tx
          /\ UNCHANGED <<flavour, goesOn, appender, accepted, outcome>>
      BY <2>7 DEF SchemaStatement, CommitTx
    <3>2. tx = <<>> /\ committed \in Seq(RowNumbers)
      BY <1>2, <3>1 DEF IInv, TxInv, TypeOK, RowNumbers
    <3>3. committed' = committed
      BY <3>1, <3>2, ConcatEmptySeq
    <3>4. QED
      BY <1>2, <3>1, <3>3
  <2>8. CASE UNCHANGED vars
    BY <2>8 DEF vars, db
  <2>9. QED
    BY <2>1, <2>2, <2>3, <2>4, <2>5, <2>6, <2>7, <2>8 DEF Next
<1>3. QED
  BY <1>1, <1>2

(* The SQLite appender is all-or-nothing: it implements the abstract       *)
(* session, in which a finish that returned Ok, and nothing else, stores   *)
(* rows; whatever fails and whoever drops it.                              *)
THEOREM ImplementsSession == Spec => AllOrNothing
<1>1. Init => Session!Init
  BY DEF Init, Session!Init, Of
<1>2. QED
  BY <1>1, StepsOfSession, Invariance, PTL DEF Spec, AllOrNothing, Session!Spec
=============================================================================

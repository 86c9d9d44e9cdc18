--------------------------- MODULE ChunkedAppender ---------------------------
(***************************************************************************)
(* rusqlite/append.rs and mysql/append.rs: an appender opens a             *)
(* transaction, cuts every batch into INSERT statements of ChunkSize rows  *)
(* (30 in the code) and one for the rest, and commits in finish.           *)
(*                                                                         *)
(* The two differ in what happens without finish: a dropped rusqlite       *)
(* Transaction rolls back; the MySQL appender has no Drop, so the          *)
(* transaction stays open on the connection until the next statement that  *)
(* commits implicitly (START TRANSACTION, DDL) or the end of the session.  *)
(*                                                                         *)
(* The rows a caller appends are numbered in the order it appends them.    *)
(* The database is external: a transaction `tx' on this connection and the *)
(* committed rows of the table.                                            *)
(***************************************************************************)
EXTENDS RowRuns

CONSTANTS Flavours,     (* subset of {"sqlite", "mysql"}                    *)
          ChunkSize,    (* BATCH_SIZE                                       *)
          BatchRows,    (* numbers of rows of a RecordBatch to append       *)
          MaxRows       (* bound: rows appended over the whole behaviour    *)

ASSUME ChunkedAssumption ==
  /\ Flavours \subseteq {"sqlite", "mysql"}
  /\ ChunkSize \in Nat \ {0}
  /\ BatchRows \subseteq Nat
  /\ MaxRows \in Nat

VARIABLES flavour,
          goesOn,     (* the caller uses an appender that returned Err      *)
          committed,  (* the rows of the table that are committed           *)
          txOpen, tx, (* the connection's transaction and its rows          *)
          appender,   (* "none", "idle", "appending", "failed", "panicked"  *)
          first, size,(* the batch being appended: its first row and size   *)
          chunk,      (* INSERT statements of this batch executed           *)
          appended,   (* number of rows the caller has passed to append     *)
          accepted,   (* rows of this appender whose append returned Ok     *)
          promised,   (* rows accepted by appenders whose finish returned Ok *)
          outcome     (* how the last appender ended: "ok", "err": what its
                         finish returned, "dropped"; "none" while one exists *)

db == <<committed, txOpen, tx>>
vars == <<flavour, goesOn, db, appender, first, size, chunk, appended, accepted, promised,
          outcome>>

Init ==
  /\ flavour \in Flavours
  /\ goesOn \in BOOLEAN
  /\ committed = <<>>
  /\ txOpen = FALSE
  /\ tx = <<>>
  /\ appender = "none"
  /\ first = 1
  /\ size = 0
  /\ chunk = 0
  /\ appended = 0
  /\ accepted = <<>>
  /\ promised = <<>>
  /\ outcome = "none"

-----------------------------------------------------------------------------
(* The database.                                                           *)
CommitTx ==
  /\ committed' = committed \o tx
  /\ txOpen' = FALSE
  /\ tx' = <<>>

RollBackTx ==
  /\ txOpen' = FALSE
  /\ tx' = <<>>
  /\ UNCHANGED committed

(* A statement outside a transaction commits by itself.                    *)
Insert(rows) ==
  IF txOpen
  THEN tx' = tx \o rows /\ UNCHANGED <<committed, txOpen>>
  ELSE committed' = committed \o rows /\ UNCHANGED <<txOpen, tx>>

-----------------------------------------------------------------------------
Open_NoTransaction ==
  /\ appender = "none"
  /\ appender' = "idle"
  /\ accepted' = <<>>
  /\ outcome' = "none"
  /\ UNCHANGED <<flavour, goesOn, db, first, size, chunk, appended, promised>>

(* Connector::append.  START TRANSACTION of MySQL commits what an earlier  *)
(* appender left; rusqlite's transaction() finds none open.                *)
Open ==
  /\ appender = "none"
  /\ committed' = committed \o tx
  /\ txOpen' = TRUE
  /\ tx' = <<>>
  /\ appender' = "idle"
  /\ accepted' = <<>>
  /\ outcome' = "none"
  /\ UNCHANGED <<flavour, goesOn, first, size, chunk, appended, promised>>

AppendCall_KeepsChunk(n) ==
  /\ appender = "idle"
  /\ appended + n <= MaxRows
  /\ appender' = "appending"
  /\ first' = appended + 1
  /\ size' = n
  /\ appended' = appended + n
  /\ UNCHANGED <<flavour, goesOn, db, chunk, accepted, promised, outcome>>

AppendCall(n) ==
  /\ appender = "idle" \/ (goesOn /\ appender = "failed")
  /\ appended + n <= MaxRows
  /\ appender' = "appending"
  /\ first' = appended + 1
  /\ size' = n
  /\ chunk' = 0
  /\ appended' = appended + n
  /\ UNCHANGED <<flavour, goesOn, db, accepted, promised, outcome>>

FullChunks == size \div ChunkSize
LastSize == size % ChunkSize
Statements == FullChunks + (IF LastSize > 0 THEN 1 ELSE 0)

ChunkRows_TailFromStart ==
  IF chunk < FullChunks
  THEN Run(first + chunk * ChunkSize, ChunkSize)
  ELSE Run(first, LastSize)

ChunkRows ==
  IF chunk < FullChunks
  THEN Run(first + chunk * ChunkSize, ChunkSize)
  ELSE Run(first + (size - LastSize), LastSize)

InsertChunk ==
  /\ appender = "appending"
  /\ chunk < Statements
  /\ Insert(ChunkRows)
  /\ chunk' = chunk + 1
  /\ UNCHANGED <<flavour, goesOn, appender, first, size>>
  /\ UNCHANGED <<appended, accepted, promised, outcome>>

(* The statement fails without effect, or (a deadlock in MySQL, a full     *)
(* disk in SQLite) the database rolls the whole transaction back.          *)
InsertErr(rolledBack) ==
  /\ appender = "appending"
  /\ chunk < Statements
  /\ appender' = "failed"
  /\ IF rolledBack THEN RollBackTx ELSE UNCHANGED db
  /\ UNCHANGED <<flavour, goesOn, first, size, chunk>>
  /\ UNCHANGED <<appended, accepted, promised, outcome>>

(* collect_args: a cell of an Arrow type the connector cannot write, or    *)
(* that does not fit its type, panics before the statement is executed.    *)
InsertPanics ==
  /\ appender = "appending"
  /\ chunk < Statements
  /\ appender' = "panicked"
  /\ UNCHANGED <<flavour, goesOn, db, first, size, chunk>>
  /\ UNCHANGED <<appended, accepted, promised, outcome>>

AppendOk ==
  /\ appender = "appending"
  /\ chunk = Statements
  /\ appender' = "idle"
  /\ accepted' = accepted \o Run(first, size)
  /\ UNCHANGED <<flavour, goesOn, db, first, size, chunk, appended, promised, outcome>>

Finishing ==
  /\ appender = "idle" \/ (goesOn /\ appender = "failed")
  /\ appender' = "none"
  /\ accepted' = <<>>
  /\ UNCHANGED <<flavour, goesOn, first, size, chunk, appended>>

FinishOk_NoCommit ==
  /\ Finishing
  /\ outcome' = "ok"
  /\ RollBackTx
  /\ promised' = promised \o accepted

(* COMMIT of MySQL succeeds with or without a transaction, that of SQLite  *)
(* only with one.                                                          *)
FinishOk ==
  /\ Finishing
  /\ outcome' = "ok"
  /\ flavour = "sqlite" => txOpen
  /\ CommitTx
  /\ promised' = promised \o accepted

(* SQLite cannot commit (no transaction, or a busy database) and the       *)
(* Transaction rolls back when it is dropped; MySQL loses the connection   *)
(* before the COMMIT arrives, or after it was executed.                    *)
FinishErr(executed) ==
  /\ Finishing
  /\ outcome' = "err"
  /\ executed => flavour = "mysql"
  /\ IF executed THEN CommitTx ELSE RollBackTx
  /\ UNCHANGED promised

DropAppender_Commits ==
  /\ appender \in {"idle", "failed", "panicked"}
  /\ appender' = "none"
  /\ accepted' = <<>>
  /\ outcome' = "dropped"
  /\ CommitTx
  /\ UNCHANGED <<flavour, goesOn, first, size, chunk, appended, promised>>

(* Dropped without finish, also by the unwinding of a panic.               *)
DropAppender ==
  /\ appender \in {"idle", "failed", "panicked"}
  /\ appender' = "none"
  /\ accepted' = <<>>
  /\ outcome' = "dropped"
  /\ IF flavour = "sqlite" THEN RollBackTx ELSE UNCHANGED db
  /\ UNCHANGED <<flavour, goesOn, first, size, chunk, appended, promised>>

(* table_create or table_drop on the connection: DDL of MySQL commits.     *)
SchemaStatement ==
  /\ appender = "none"
  /\ txOpen
  /\ CommitTx
  /\ UNCHANGED <<flavour, goesOn, appender, first, size, chunk>>
  /\ UNCHANGED <<appended, accepted, promised, outcome>>

(* The connection closes, with or without an appender on it.               *)
Disconnect ==
  /\ txOpen \/ appender # "none"
  /\ RollBackTx
  /\ appender' = "none"
  /\ accepted' = <<>>
  /\ outcome' = IF appender = "none" THEN outcome ELSE "dropped"
  /\ UNCHANGED <<flavour, goesOn, first, size, chunk, appended, promised>>

Next ==
  \/ Open
  \/ \E n \in BatchRows : AppendCall(n)
  \/ InsertChunk
  \/ \E rolledBack \in BOOLEAN : InsertErr(rolledBack)
  \/ InsertPanics
  \/ AppendOk
  \/ FinishOk
  \/ \E executed \in BOOLEAN : FinishErr(executed)
  \/ DropAppender
  \/ SchemaStatement
  \/ Disconnect

Spec == Init /\ [][Next]_vars

-----------------------------------------------------------------------------
(* The type invariant: the chunk counter stays within the statements of    *)
(* the batch at hand.                                                      *)
TypeOK ==
  /\ flavour \in Flavours
  /\ goesOn \in BOOLEAN
  /\ committed \in Seq(1 .. MaxRows)
  /\ txOpen \in BOOLEAN
  /\ tx \in Seq(1 .. MaxRows)
  /\ appender \in {"none", "idle", "appending", "failed", "panicked"}
  /\ first \in Nat
  /\ size \in Nat
  /\ chunk \in 0 .. Statements
  /\ appended \in 0 .. MaxRows
  /\ accepted \in Seq(1 .. MaxRows)
  /\ promised \in Seq(1 .. MaxRows)
  /\ outcome \in {"none", "ok", "err", "dropped"}

(* The chunk arithmetic neither skips nor repeats a row, over batches that *)
(* are smaller than, a multiple of, or larger than ChunkSize: what append  *)
(* returned Ok for is in the transaction, once and in order, and nothing   *)
(* else is unless the caller went on after an Err.                         *)
ChunksCoverBatch ==
  /\ Increasing(committed \o tx)
  /\ appender = "idle" /\ ~goesOn => tx = accepted

(* finish returned Ok: every row that append accepted is committed.  With  *)
(* SQLite this holds for a caller that goes on after an Err too: once the  *)
(* database has rolled back, the COMMIT fails.  That of MySQL does not,    *)
(* and batches accepted before the Err may be gone.                        *)
FinishMeansCommitted ==
  flavour = "sqlite" \/ ~goesOn => Elements(promised) \subseteq Elements(committed)

(* MySQL: rows of an abandoned appender may get committed by a later       *)
(* statement, but only behind the back of a caller that has no appender:   *)
(* while one is at work, what is committed does not change (except for a   *)
(* caller that goes on without the transaction that was rolled back).      *)
StableWhileAppending ==
  [][appender # "none" /\ appender' # "none" /\ ~goesOn => committed' = committed]_vars

-----------------------------------------------------------------------------
(* The SQLite appender of a caller that stops at an Err, seen as a         *)
(* session; any other as none.                                             *)
Of(sqlite, otherwise) ==
  IF flavour = "sqlite" /\ ~goesOn THEN sqlite ELSE otherwise

Session == INSTANCE AppendSession WITH
  Row       <- 1 .. MaxRows,
  Uncertain <- FALSE,
  table     <- Of(committed, <<>>),
  open      <- Of(appender # "none", FALSE),
  pending   <- Of(accepted, <<>>),
  outcome   <- Of(outcome, "none")

(* The SQLite appender is all-or-nothing: only the rows of an appender     *)
(* whose finish returned Ok are ever committed, all of them together; one  *)
(* that is dropped, panics, fails in finish or loses its connection leaves *)
(* none.                                                                   *)
AllOrNothing == Session!Spec
=============================================================================

--------------------------- MODULE StreamAppender ---------------------------
(***************************************************************************)
(* postgres/append.rs, tiberius/append.rs and duckdb/append.rs: appenders  *)
(* that hand each row to the driver, which keeps it in a buffer of its own *)
(* and sends or flushes the buffer when it likes.                          *)
(*                                                                         *)
(* PostgreSQL runs a COPY.  Its writer is made by the first append, for    *)
(* the number of columns of the first batch; the server reads what it is   *)
(* sent later and may abort the whole COPY, which the client learns in a   *)
(* later call.  SQL Server runs a bulk load that takes effect when it is   *)
(* finalized.  DuckDB's appender stores its buffer at every FlushRows rows *)
(* and when it is dropped, which is all that finish does.                  *)
(*                                                                         *)
(* A caller drops an appender that returned Err or panicked.  Rows are     *)
(* numbered in the order they are appended.                                *)
(***************************************************************************)
EXTENDS RowRuns

CONSTANTS Flavours,   (* subset of {"postgres", "mssql", "duckdb"}          *)
          TableWidth, (* columns of the table                               *)
          Widths,     (* columns of the batches a caller appends            *)
          BatchRows,  (* rows of the batches a caller appends               *)
          MaxRows,    (* bound: rows appended over the whole behaviour      *)
          FlushRows   (* rows after which DuckDB's appender flushes         *)

ASSUME StreamAssumption ==
  /\ Flavours \subseteq {"postgres", "mssql", "duckdb"}
  /\ TableWidth \in Nat \ {0}
  /\ Widths \subseteq Nat \ {0}
  /\ BatchRows \subseteq Nat
  /\ MaxRows \in Nat
  /\ FlushRows \in Nat \ {0}

VARIABLES flavour,
          appender,  (* "none", "idle", "appending", "failed", "panicked"   *)
          writer,    (* PostgreSQL's Writer: its variant and columns        *)
          first, size, width, (* the batch at hand                          *)
          row,       (* rows of it written                                  *)
          buffer,    (* rows in the client's buffer                         *)
          load,      (* the server's side of the COPY or bulk load:         *)
                     (* "closed", "open", "aborted", "dangling"             *)
          received,  (* rows the server has received in it                  *)
          table,     (* the rows stored                                     *)
          appended,  (* rows the caller has passed to append                *)
          accepted,  (* rows of this appender whose append returned Ok      *)
          promised,  (* `accepted' of every appender whose finish was Ok    *)
          outcome    (* how the last appender ended: "ok", "err": what its
                        finish returned, "dropped"; "none" while one exists *)

batch == <<first, size, width, row>>
server == <<load, received>>
client == <<appender, writer, batch, buffer>>
history == <<appended, accepted, promised, outcome>>
vars == <<flavour, client, server, table, history>>

Numbers(rows) == [i \in DOMAIN rows |-> rows[i].number]
NoWriter == [variant |-> "none", columns |-> 0]

Init ==
  /\ flavour \in Flavours
  /\ appender = "none"
  /\ writer = NoWriter
  /\ first = 1 /\ size = 0 /\ width = 0 /\ row = 0
  /\ buffer = <<>>
  /\ load = "closed"
  /\ received = <<>>
  /\ table = <<>>
  /\ appended = 0
  /\ accepted = <<>>
  /\ promised = {}
  /\ outcome = "none"

-----------------------------------------------------------------------------
(* Connector::append: copy_in, bulk_insert, or DuckDB's own appender.      *)
Open ==
  /\ appender = "none"
  /\ load = "closed"
  /\ appender' = "idle"
  /\ writer' = IF flavour = "postgres"
               THEN [variant |-> "Uninitialized", columns |-> 0] ELSE NoWriter
  /\ load' = IF flavour = "duckdb" THEN "closed" ELSE "open"
  /\ received' = <<>>
  /\ accepted' = <<>>
  /\ outcome' = "none"
  /\ UNCHANGED <<flavour, batch, buffer, table, appended, promised>>

AsBinary_KeepsInvalid(w, columns) ==
  IF w.variant = "Uninitialized" THEN [variant |-> "Invalid", columns |-> 0] ELSE w

(* Writer::as_binary: only the first call makes a BinaryCopyInWriter.      *)
AsBinary(w, columns) ==
  IF w.variant = "Uninitialized"
  THEN [variant |-> "Initialized", columns |-> columns]
  ELSE w

AppendCall(n, columns) ==
  /\ appender = "idle"
  /\ appended + n <= MaxRows
  /\ appender' = "appending"
  /\ writer' = AsBinary(writer, columns)
  /\ first' = appended + 1
  /\ size' = n
  /\ width' = columns
  /\ row' = 0
  /\ appended' = appended + n
  /\ UNCHANGED <<flavour, buffer, server, table, accepted, promised, outcome>>

-----------------------------------------------------------------------------
(* One turn of the loop over the rows.                                     *)
Writing == appender = "appending" /\ row < size
Row == [number |-> first + row, width |-> width]

(* What the drivers check of a row: rust-postgres asserts that it has as   *)
(* many values as the writer has types, the others compare it with the     *)
(* table and return an Err.                                                *)
WidthFits == width = IF flavour = "postgres" THEN writer.columns ELSE TableWidth

Send(rows) ==
  /\ received' = received \o rows
  /\ buffer' = <<>>

(* The driver sends its buffer when that has grown beyond a limit, in      *)
(* bytes: after any row.  What is sent to an aborted COPY is discarded.    *)
WriteRow(sends) ==
  /\ Writing
  /\ WidthFits
  /\ flavour # "duckdb"
  /\ IF sends THEN Send(Append(buffer, Row))
     ELSE buffer' = Append(buffer, Row) /\ UNCHANGED received
  /\ row' = row + 1
  /\ UNCHANGED <<flavour, appender, writer, first, size, width, load, table, history>>

(* The flush is a transaction of its own: all of its rows or none.         *)
Flushes == Len(buffer) + 1 >= FlushRows

WriteRowDuckDB_IgnoresErr ==
  /\ Writing
  /\ WidthFits
  /\ flavour = "duckdb"
  /\ IF Flushes
     THEN UNCHANGED table /\ buffer' = <<>>
     ELSE buffer' = Append(buffer, Row) /\ UNCHANGED table
  /\ row' = row + 1
  /\ UNCHANGED <<flavour, appender, writer, first, size, width, server, history>>

WriteRowDuckDB ==
  /\ Writing
  /\ WidthFits
  /\ flavour = "duckdb"
  /\ IF Flushes
     THEN table' = table \o Numbers(Append(buffer, Row)) /\ buffer' = <<>>
     ELSE buffer' = Append(buffer, Row) /\ UNCHANGED table
  /\ row' = row + 1
  /\ UNCHANGED <<flavour, appender, writer, first, size, width, server, history>>

(* write_raw, send or append_row returns Err: the server has aborted the   *)
(* COPY or closed the connection; the row has another width than the       *)
(* table, or a value it does not take (SQL Server, DuckDB); DuckDB's flush *)
(* violates a constraint.                                                  *)
WriteErr ==
  /\ Writing
  /\ flavour = "postgres" => WidthFits /\ load = "aborted"
  /\ appender' = "failed"
  /\ UNCHANGED <<flavour, writer, batch, buffer, server, table, history>>

(* The assertion of write_raw, or an Arrow type the connector cannot       *)
(* write: transport() panics, and DuckDB unwraps its result.               *)
WritePanics ==
  /\ Writing
  /\ appender' = "panicked"
  /\ UNCHANGED <<flavour, writer, batch, buffer, server, table, history>>

(* PostgreSQL's server reads the rows behind the client's back; one that   *)
(* it does not take ends the COPY.                                         *)
ServerAborts ==
  /\ flavour = "postgres"
  /\ load = "open"
  /\ received # <<>>
  /\ load' = "aborted"
  /\ UNCHANGED <<flavour, client, received, table, history>>

AppendOk_Early ==
  /\ appender = "appending"
  /\ row + 1 >= size
  /\ appender' = "idle"
  /\ accepted' = accepted \o Run(first, size)
  /\ UNCHANGED <<flavour, writer, batch, buffer, server, table>>
  /\ UNCHANGED <<appended, promised, outcome>>

AppendOk ==
  /\ appender = "appending"
  /\ row = size
  /\ appender' = "idle"
  /\ accepted' = accepted \o Run(first, size)
  /\ UNCHANGED <<flavour, writer, batch, buffer, server, table>>
  /\ UNCHANGED <<appended, promised, outcome>>

-----------------------------------------------------------------------------
(* The appender is gone, with its buffer.                                  *)
Close(how) ==
  /\ appender' = "none"
  /\ writer' = NoWriter
  /\ buffer' = <<>>
  /\ first' = 1 /\ size' = 0 /\ width' = 0 /\ row' = 0
  /\ accepted' = <<>>
  /\ outcome' = how
  /\ UNCHANGED <<flavour, appended>>

(* The end of the stream arrives behind all rows, and the server stores    *)
(* them together if each has the columns of the table.                     *)
Complete ==
  /\ load = "open"
  /\ \A i \in DOMAIN buffer : buffer[i].width = TableWidth
  /\ \A i \in DOMAIN received : received[i].width = TableWidth
  /\ table' = table \o Numbers(received \o buffer)

(* Writer::finish goes through as_binary, for a COPY without batches; its  *)
(* unreachable!() arms are the other variants.                             *)
FinishReachesWriter ==
  flavour = "postgres" => AsBinary(writer, 0).variant = "Initialized"

FinishOk ==
  /\ appender = "idle"
  /\ flavour # "duckdb"
  /\ FinishReachesWriter
  /\ Complete
  /\ Close("ok")
  /\ load' = "closed" /\ received' = <<>>
  /\ promised' = promised \cup {accepted}

(* The server refuses a row, or the connection is lost: before the server  *)
(* has stored the rows, or after.                                          *)
FinishErr(stored) ==
  /\ appender = "idle"
  /\ flavour # "duckdb"
  /\ FinishReachesWriter
  /\ IF stored THEN Complete ELSE UNCHANGED table
  /\ Close("err")
  /\ load' = "closed" /\ received' = <<>>
  /\ UNCHANGED promised

(* DuckDB's appender flushes when it is dropped and ignores the result.    *)
DropFlushes(succeeds) ==
  IF succeeds THEN table' = table \o Numbers(buffer) ELSE UNCHANGED table

(* DuckDBAppender::finish returns Ok, and self is dropped.                 *)
FinishDuckDB(succeeds) ==
  /\ appender = "idle"
  /\ flavour = "duckdb"
  /\ DropFlushes(succeeds)
  /\ Close("ok")
  /\ UNCHANGED server
  /\ promised' = promised \cup {accepted}

DropAppender_CompletesCopy ==
  /\ appender \in {"idle", "failed", "panicked"}
  /\ flavour # "duckdb"
  /\ Complete
  /\ load' = "closed"
  /\ received' = <<>>
  /\ Close("dropped")
  /\ UNCHANGED promised

(* Dropped without finish.  rust-postgres sends CopyFail; nothing ends the *)
(* bulk load of SQL Server, whose server waits for more of it.             *)
DropAppender ==
  /\ appender \in {"idle", "failed", "panicked"}
  /\ flavour # "duckdb"
  /\ load' = IF flavour = "postgres" THEN "closed" ELSE "dangling"
  /\ received' = <<>>
  /\ Close("dropped")
  /\ UNCHANGED <<table, promised>>

DropDuckDB(succeeds) ==
  /\ appender \in {"idle", "failed", "panicked"}
  /\ flavour = "duckdb"
  /\ DropFlushes(succeeds)
  /\ Close("dropped")
  /\ UNCHANGED <<server, promised>>

(* The server takes the next request for a broken bulk load, and refuses   *)
(* it; or the connection is closed.                                        *)
NextRequestFails ==
  /\ load = "dangling"
  /\ load' = "closed"
  /\ UNCHANGED <<flavour, client, received, table, history>>

Next ==
  \/ Open
  \/ \E n \in BatchRows, columns \in Widths : AppendCall(n, columns)
  \/ \E sends \in BOOLEAN : WriteRow(sends)
  \/ WriteRowDuckDB
  \/ WriteErr
  \/ WritePanics
  \/ ServerAborts
  \/ AppendOk
  \/ FinishOk
  \/ \E stored \in BOOLEAN : FinishErr(stored)
  \/ \E succeeds \in BOOLEAN : FinishDuckDB(succeeds)
  \/ DropAppender
  \/ \E succeeds \in BOOLEAN : DropDuckDB(succeeds)
  \/ NextRequestFails

Spec == Init /\ [][Next]_vars

-----------------------------------------------------------------------------
RowRecord == [number : 1 .. MaxRows, width : Widths]

(* The type invariant.  Between two calls PostgreSQL's writer is never     *)
(* Invalid, so no unreachable!() is reached, and SQL Server's and DuckDB's *)
(* appenders have none.                                                    *)
TypeOK ==
  /\ flavour \in Flavours
  /\ appender \in {"none", "idle", "appending", "failed", "panicked"}
  /\ writer.variant \in IF flavour = "postgres" /\ appender # "none"
                        THEN {"Uninitialized", "Initialized"} ELSE {"none"}
  /\ writer.columns \in Widths \cup {0}
  /\ first \in 1 .. MaxRows + 1 /\ size \in BatchRows \cup {0}
  /\ width \in Widths \cup {0} /\ row \in 0 .. size
  /\ buffer \in Seq(RowRecord) /\ received \in Seq(RowRecord)
  /\ load \in {"closed", "open", "aborted", "dangling"}
  /\ table \in Seq(1 .. MaxRows) /\ accepted \in Seq(1 .. MaxRows)
  /\ appended \in 0 .. MaxRows
  /\ outcome \in {"none", "ok", "err", "dropped"}
  /\ promised \subseteq Seq(1 .. MaxRows)

StoredRows(rows) == Elements(rows) \subseteq Elements(table)

(* finish of PostgreSQL and SQL Server returned Ok: every row that append  *)
(* accepted is stored, although the server judges it after append has      *)
(* returned.                                                               *)
FinishMeansStored ==
  flavour # "duckdb" => \A rows \in promised : StoredRows(rows)

(* DuckDB: when finish returned Ok, at most the rows behind the last flush *)
(* are missing, fewer than FlushRows; a flush that fails earlier is an Err *)
(* of append.                                                              *)
LossIsLastFlush ==
  \A rows \in promised :
    \E kept \in 0 .. Len(rows) :
      /\ StoredRows(SubSeq(rows, 1, kept))
      /\ Len(rows) - kept < FlushRows

(* The round-trip test, tests.rs:92-101, with load_into_table, util.rs:53: *)
(* once finish has returned Ok, a query returns every row appended.        *)
OkMeansStored == \A rows \in promised : StoredRows(rows)

-----------------------------------------------------------------------------
(* The appenders of PostgreSQL and SQL Server, seen as a session; DuckDB's *)
(* as none.                                                                *)
Of(ofServer, otherwise) == IF flavour = "duckdb" THEN otherwise ELSE ofServer

Session == INSTANCE AppendSession WITH
  Row       <- 1 .. MaxRows,
  Uncertain <- TRUE,
  table     <- Of(table, <<>>),
  open      <- Of(appender # "none", FALSE),
  pending   <- Of(accepted, <<>>),
  outcome   <- Of(outcome, "none")

(* COPY and bulk load are all-or-nothing: whatever the server does with    *)
(* the rows it has received, the table gets all accepted rows of an        *)
(* appender whose finish returned Ok, in order, and none of one that was   *)
(* dropped; an Err of finish, which a connection lost behind the last      *)
(* message causes too, means all or none.                                  *)
AllOrNothing == Session!Spec
=============================================================================

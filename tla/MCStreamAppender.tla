-------------------------- MODULE MCStreamAppender --------------------------
(* A table of two columns, batches of one or two; DuckDB flushes at every  *)
(* third row, so that a batch ends before, at and behind a flush.          *)
EXTENDS StreamAppender

MCFlavours  == {"postgres", "mssql", "duckdb"}
MCDuckDB    == {"duckdb"}
MCWidths    == {1, 2}
MCBatchRows == 0 .. 3
=============================================================================

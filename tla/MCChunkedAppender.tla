-------------------------- MODULE MCChunkedAppender --------------------------
(* Chunks of 2 rows; batches without rows, smaller than a chunk, of one    *)
(* chunk, one and a half, and two.                                         *)
EXTENDS ChunkedAppender
MCBatchRows == 0 .. 4
MCBoth == {"sqlite", "mysql"}
=============================================================================

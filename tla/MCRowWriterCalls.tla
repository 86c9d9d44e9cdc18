-------------------------- MODULE MCRowWriterCalls --------------------------
(* Two columns, the first non-nullable; chunks of 0..3 rows, up to 6 rows: *)
(* chunks smaller than, equal to and larger than min_batch_size 0..3.      *)
EXTENDS RowWriterCalls
MCNotNull == {0}
MCMinBatchSizes == 0 .. 3
=============================================================================

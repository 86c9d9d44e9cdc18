------------------------------ MODULE RowRuns ------------------------------
(***************************************************************************)
(* The rows a caller appends are numbered in the order it appends them:    *)
(* those of one RecordBatch are consecutive.                               *)
(***************************************************************************)
EXTENDS Naturals, Sequences

(* The rows [a, a + n) of a batch, as the loops of append walk over them.  *)
Run(a, n) == [i \in 1 .. n |-> a + i - 1]

Elements(s) == { s[i] : i \in DOMAIN s }

Increasing(s) == \A i, j \in DOMAIN s : i < j => s[i] < s[j]
=============================================================================

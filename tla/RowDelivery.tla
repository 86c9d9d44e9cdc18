----------------------------- MODULE RowDelivery -----------------------------
(***************************************************************************)
(* What a ResultReader promises to the caller that iterates over it        *)
(* (api.rs: Iterator<Item = Result<RecordBatch, ConnectorError>>):         *)
(* the rows of the result come in order and at most once, a batch is a run *)
(* of consecutive rows, rows are skipped only by a call that returned Err, *)
(* and the iterator ends only when no row is left.                         *)
(*                                                                         *)
(* StreamingReader and BufferedReader are shown to implement this.         *)
(***************************************************************************)
EXTENDS Naturals, Sequences

CONSTANT MaxBatch    (* no batch is longer than this *)

VARIABLES total,     (* items the result holds, numbered 1 .. total        *)
          next,      (* the first item that was neither delivered nor lost *)
          log        (* what the calls of next() returned, in order        *)

vars == <<total, next, log>>

BatchOf(first, n) == [kind |-> "batch", rows |-> [i \in 1 .. n |-> first + i - 1]]
Failure == [kind |-> "err", rows |-> <<>>]
EndOfRows == [kind |-> "end", rows |-> <<>>]

Ended == \E i \in DOMAIN log : log[i] = EndOfRows

Init ==
  /\ total \in Nat
  /\ next = 1
  /\ log = <<>>

Deliver(n) ==
  /\ ~Ended
  /\ next + n <= total + 1
  /\ log' = Append(log, BatchOf(next, n))
  /\ next' = next + n
  /\ UNCHANGED total

Fail(upTo) ==
  /\ ~Ended
  /\ log' = Append(log, Failure)
  /\ next' = upTo
  /\ UNCHANGED total

End ==
  /\ ~Ended
  /\ next = total + 1
  /\ log' = Append(log, EndOfRows)
  /\ UNCHANGED <<total, next>>

Next ==
  \/ \E n \in 1 .. MaxBatch : Deliver(n)
  \/ \E upTo \in next .. total + 1 : Fail(upTo)
  \/ End

Spec == Init /\ [][Next]_vars
=============================================================================

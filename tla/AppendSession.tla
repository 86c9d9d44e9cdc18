---------------------------- MODULE AppendSession ----------------------------
(***************************************************************************)
(* What a caller of Connector::append may rely on when an appender is      *)
(* transactional (api.rs, trait Append): the rows of the batches for which *)
(* append returned Ok reach the table together when finish returns Ok, in  *)
(* the order they were appended; an appender that is dropped leaves no row *)
(* behind, nor does one whose finish returns Err, unless that Err may hide *)
(* that the database did all of it (Uncertain).                            *)
(***************************************************************************)
EXTENDS Naturals, Sequences

CONSTANTS Row,
          Uncertain    (* finish may return Err for rows that are stored    *)

VARIABLES table,    (* the committed rows, in insertion order               *)
          open,     (* an appender exists                                   *)
          pending,  (* the rows it has accepted                             *)
          outcome   (* how the last one ended: "ok", "err": what its finish
                       returned, "dropped"; "none" while one is open        *)

vars == <<table, open, pending, outcome>>

Init ==
  /\ table = <<>>
  /\ open = FALSE
  /\ pending = <<>>
  /\ outcome = "none"

Begin ==
  /\ ~open
  /\ open' = TRUE
  /\ pending' = <<>>
  /\ outcome' = "none"
  /\ UNCHANGED table

(* The appended rows: `rows' extends what was pending.                     *)
Accept ==
  /\ open
  /\ pending' \in Seq(Row)
  /\ Len(pending') >= Len(pending)
  /\ SubSeq(pending', 1, Len(pending)) = pending
  /\ UNCHANGED <<table, open, outcome>>

End(how) ==
  /\ open
  /\ open' = FALSE
  /\ pending' = <<>>
  /\ outcome' = how

FinishOk == End("ok") /\ table' = table \o pending

FinishErr ==
  /\ End("err")
  /\ \/ UNCHANGED table
     \/ Uncertain /\ table' = table \o pending

Drop == End("dropped") /\ UNCHANGED table

Next == Begin \/ Accept \/ FinishOk \/ FinishErr \/ Drop

Spec == Init /\ [][Next]_vars
=============================================================================

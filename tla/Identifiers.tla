---------------------------- MODULE Identifiers ----------------------------
(***************************************************************************)
(* util/escape.rs: a table name written as an identifier of SQL, and what  *)
(* a server reads back and takes to be the same table.                     *)
(*                                                                         *)
(* A name is a sequence of characters.  "select" stands for the letters of *)
(* a reserved word and "long" for 63 letters, as many as PostgreSQL keeps. *)
(***************************************************************************)
EXTENDS Naturals, Sequences, SequencesExt

LowerCase == {"a", "b", "_", "select", "long"}
UpperCase == {"A", "B"}
ToLower == [c \in UpperCase |-> IF c = "A" THEN "a" ELSE "b"]

ValidIdent_AnyCase(name) ==
  /\ name # <<>>
  /\ Head(name) \in LowerCase \cup UpperCase
  /\ ToSet(name) \subseteq LowerCase \cup UpperCase \cup {"1", "$"}

(* VALID_IDENT: ^[a-z_][a-z0-9_$]*$                                        *)
ValidIdent(name) ==
  /\ name # <<>>
  /\ Head(name) \in LowerCase
  /\ ToSet(name) \subseteq LowerCase \cup {"1", "$"}

(* EscapedIdent::fmt: as it is, or between quotes with each quote doubled. *)
(* Written is the text behind each step of the loop over the characters.   *)
Written(name, quote) ==
  LET text[i \in 0 .. Len(name)] ==
        IF i = 0 THEN <<quote>>
        ELSE text[i - 1] \o (IF name[i] = quote THEN <<quote, quote>> ELSE <<name[i]>>)
  IN  text

Escaped(name, quote) ==
  IF ValidIdent(name) THEN name ELSE Append(Written(name, quote)[Len(name)], quote)

-----------------------------------------------------------------------------
(* The reading of an identifier, character by character.  A server that    *)
(* folds takes letters outside of quotes to lower case.                    *)
FoldCase(c) == IF c \in UpperCase THEN ToLower[c] ELSE c

ReadChar(quote, folds, read, c) ==
  CASE read.in = "start"  /\ c = quote -> [read EXCEPT !.in = "quotes"]
    [] read.in = "quotes" /\ c # quote -> [read EXCEPT !.ident = Append(@, c)]
    [] read.in = "quotes" /\ c = quote -> [read EXCEPT !.in = "closed"]
    [] read.in = "closed"  /\ c = quote -> [in |-> "quotes", ident |-> Append(read.ident, c)]
    [] read.in \in {"start", "bare"} /\ c \in LowerCase \cup UpperCase \cup {"1", "$"} ->
         [in |-> "bare", ident |-> Append(read.ident, IF folds THEN FoldCase(c) ELSE c)]
    [] OTHER -> [read EXCEPT !.in = "error"]

(* What was read of the text up to each of its characters.                 *)
Read(text, quote, folds) ==
  LET read[i \in 0 .. Len(text)] ==
        IF i = 0 THEN [in |-> "start", ident |-> <<>>]
        ELSE ReadChar(quote, folds, read[i - 1], text[i])
  IN  read

Refused == <<"refused">>

(* An open quote, a reserved word and an identifier of no length are       *)
(* syntax errors (SQLite takes the latter).                                *)
ReadIdent(text, quote, folds, takesEmpty) ==
  LET read == Read(text, quote, folds)[Len(text)]
  IN IF \/ read.in = "bare" /\ read.ident # <<"select">>
        \/ read.in = "closed" /\ (read.ident # <<>> \/ takesEmpty)
     THEN read.ident ELSE Refused
=============================================================================

---------------------------- MODULE NumericCodec ----------------------------
(***************************************************************************)
(* The way of a decimal through PostgreSQL: i128_to_sql and i256_to_sql    *)
(* cut the unscaled integer into base-10000 groups, the server keeps them  *)
(* in normal form, from_sql turns them into digits.  (The server's half of *)
(* the way alone is what every query of a numeric column takes.)           *)
(*                                                                         *)
(* A numeric is a sequence of groups, the weight of the first of them (its *)
(* factor is 10000^weight), a sign, and the number of digits to show after *)
(* the decimal point.                                                      *)
(***************************************************************************)
EXTENDS Integers, SequencesExt

CONSTANTS Unscaled,  (* absolute values of the integers to send             *)
          Scales     (* the scales of their Arrow types                     *)

ASSUME NumericAssumption ==
  /\ Unscaled \subseteq Nat
  /\ Scales \subseteq Int

VARIABLES neg, unscaled, scale, \* the decimal sent
          rest,      \* encoder: digits not yet cut off
          groups,    \* encoder: groups so far, least first; then the numeric's
          weight,    \* of the first, the most significant group
          at,        \* decoder: groups consumed
          buf,       \* decoder: the digits written
          remainder, \* decoder: the digit carried into the next group
          text,      \* decoder: the digits of the two parts it returns
          phase      \* "first", "cut", "sent", "refused", "read", "done",
                     \* "panicked"

decimal == <<neg, unscaled, scale>>
decoder == <<at, buf, remainder, text>>
numericVars == <<decimal, rest, groups, weight, decoder, phase>>

Digit == 0 .. 9
Group == 0 .. 9999

(* Division and remainder of Rust truncate.                                *)
Quotient(a, b) == IF a >= 0 THEN a \div b ELSE - ((- a) \div b)
Rem(a, b) == a - Quotient(a, b) * b

(* {:0>w} of a number below 10^w.                                          *)
Digits(n, w) == [i \in 1 .. w |-> (n \div 10 ^ (w - i)) % 10]
Zeros(n) == [i \in 1 .. n |-> 0]

NumericInit ==
  /\ unscaled \in Unscaled
  /\ neg \in (IF unscaled = 0 THEN {FALSE} ELSE BOOLEAN)
  /\ scale \in Scales
  /\ rest = unscaled /\ groups = <<>> /\ weight = 0
  /\ at = 0 /\ buf = <<>> /\ remainder = 0
  /\ text = [int |-> <<>>, frac |-> <<>>]
  /\ phase = "first"

FirstGroup_PadsTooFar ==
  /\ phase = "first"
  /\ LET offset == Rem(scale, 4)
     IN  IF offset > 0
         THEN /\ groups' = <<(unscaled % 10 ^ offset) * 10 ^ (5 - offset)>>
              /\ rest' = unscaled \div 10 ^ offset
         ELSE UNCHANGED <<groups, rest>>
  /\ weight' = Quotient(- scale, 4) - 1
  /\ phase' = "cut"
  /\ UNCHANGED <<decimal, decoder>>

FirstGroup_NoPadding ==
  /\ phase = "first"
  /\ LET offset == Rem(scale, 4)
     IN  IF offset > 0
         THEN /\ groups' = <<unscaled % 10 ^ offset>>
              /\ rest' = unscaled \div 10 ^ offset
         ELSE UNCHANGED <<groups, rest>>
  /\ weight' = Quotient(- scale, 4) - 1
  /\ phase' = "cut"
  /\ UNCHANGED <<decimal, decoder>>

(* The digits that do not fill a group, padded on the right.               *)
FirstGroup ==
  /\ phase = "first"
  /\ LET offset == Rem(scale, 4)
     IN  IF offset > 0
         THEN /\ groups' = <<(unscaled % 10 ^ offset) * 10 ^ (4 - offset)>>
              /\ rest' = unscaled \div 10 ^ offset
         ELSE UNCHANGED <<groups, rest>>
  /\ weight' = Quotient(- scale, 4) - 1
  /\ phase' = "cut"
  /\ UNCHANGED <<decimal, decoder>>

CutGroup ==
  /\ phase = "cut"
  /\ rest # 0
  /\ groups' = Append(groups, rest % 10000)
  /\ rest' = rest \div 10000
  /\ weight' = weight + 1
  /\ UNCHANGED <<decimal, decoder, phase>>

Send ==
  /\ phase = "cut"
  /\ rest = 0
  /\ groups' = Reverse(groups)
  /\ phase' = "sent"
  /\ UNCHANGED <<decimal, rest, weight, decoder>>

(* The server takes no negative number of digits to show, which is what    *)
(* both encoders send for a negative scale.                                *)
ServerRefuses ==
  /\ phase = "sent"
  /\ scale < 0
  /\ phase' = "refused"
  /\ UNCHANGED <<decimal, rest, groups, weight, decoder>>

(* The server drops zero groups at both ends; zero has no group.           *)
ServerStores ==
  /\ phase = "sent"
  /\ scale >= 0
  /\ LET used == { i \in DOMAIN groups : groups[i] # 0 }
         first == CHOOSE i \in used : \A j \in used : i <= j
         last  == CHOOSE i \in used : \A j \in used : j <= i
     IN  IF used = {}
         THEN groups' = <<>> /\ weight' = 0
         ELSE groups' = SubSeq(groups, first, last) /\ weight' = weight - (first - 1)
  /\ phase' = "read"
  /\ UNCHANGED <<decimal, rest, decoder>>

ReadGroup_NoCarry ==
  /\ phase = "read"
  /\ at < Len(groups)
  /\ LET number == groups[at + 1]
     IN  /\ buf' = buf \o Digits(number \div 10, 4)
         /\ remainder' = number % 10
  /\ at' = at + 1
  /\ UNCHANGED <<decimal, rest, groups, weight, text, phase>>

ReadGroup ==
  /\ phase = "read"
  /\ at < Len(groups)
  /\ LET number == groups[at + 1] + remainder * 10000
     IN  /\ buf' = buf \o Digits(number \div 10, 4)
         /\ remainder' = number % 10
  /\ at' = at + 1
  /\ UNCHANGED <<decimal, rest, groups, weight, text, phase>>

(* Where the point goes in buf.                                            *)
Dot_Slips == weight * 4 + 4
Dot == weight * 4 + 5

(* A negative dot becomes a huge usize, which is no index of buf.          *)
DotOutOfRange ==
  /\ phase = "read"
  /\ at = Len(groups)
  /\ Dot < 1
  /\ phase' = "panicked"
  /\ UNCHANGED <<decimal, rest, groups, weight, decoder>>

Compose ==
  /\ phase = "read"
  /\ at = Len(groups)
  /\ Dot >= 1
  /\ LET all    == Append(buf, remainder)
         end    == Dot + scale
         padded == IF end > Len(all) THEN all \o Zeros(end - Len(all)) ELSE all
         intStart == CHOOSE i \in 1 .. Dot :
                       /\ i = Dot \/ padded[i] # 0
                       /\ \A j \in 1 .. i - 1 : padded[j] = 0
     IN  /\ buf' = padded
         /\ text' = [ int  |-> SubSeq(padded, intStart, Dot),
                      frac |-> SubSeq(padded, Dot + 1, end) ]
  /\ phase' = "done"
  /\ UNCHANGED <<decimal, rest, groups, weight, at, remainder>>

NumericNext ==
  \/ FirstGroup \/ CutGroup \/ Send
  \/ ServerStores \/ ServerRefuses
  \/ ReadGroup \/ Compose \/ DotOutOfRange

NumericSpec == NumericInit /\ [][NumericNext]_numericVars

-----------------------------------------------------------------------------
(* The type invariant: a group has four digits, the carry one, and the     *)
(* decoder's buffer four for each group and then the point's.              *)
NumericTypeOK ==
  /\ unscaled \in Unscaled /\ scale \in Scales /\ neg \in BOOLEAN
  /\ rest \in Nat /\ weight \in Int /\ at \in 0 .. Len(groups)
  /\ groups \in Seq(Group)
  /\ buf \in Seq(Digit) /\ remainder \in Digit
  /\ phase = "read" => Len(buf) = 4 * at
  /\ phase \in {"first", "cut", "sent", "refused", "read", "done", "panicked"}

(* The integer sent without its last k digits.                             *)
Shorn[k \in Nat] == IF k = 0 THEN unscaled ELSE Shorn[k - 1] \div 10

(* The digit of the decimal, and of the numeric, that counts 10^k.         *)
DecimalDigit(k) == IF k + scale >= 0 THEN Shorn[k + scale] % 10 ELSE 0
GroupDigit(group, d) == (group \div 10 ^ d) % 10
NumericDigit(k) ==
  LET i == weight - k \div 4 + 1
  IN  IF i \in DOMAIN groups THEN GroupDigit(groups[i], k % 4) ELSE 0

(* The groups the server takes, and the normal form it makes of them,      *)
(* denote the decimal digit for digit, whatever the scale leaves for the   *)
(* first group.                                                            *)
EncodedIsExact ==
  phase = "read" \/ (phase = "sent" /\ scale >= 0) => \A k \in -16 .. 16 : NumericDigit(k) = DecimalDigit(k)

(* from_sql returns the decimal digit for digit: the integer part without  *)
(* leading zeros, and as many digits after the point as the scale says.    *)
DecodedIsExact ==
  phase = "done" =>
    /\ Len(text.frac) = scale
    /\ \A i \in DOMAIN text.frac : text.frac[i] = DecimalDigit(- i)
    /\ \A i \in DOMAIN text.int : text.int[i] = DecimalDigit(Len(text.int) - i)
    /\ \A k \in Len(text.int) .. 12 : DecimalDigit(k) = 0
    /\ Len(text.int) > 1 => text.int[1] # 0

(* from_sql panics for no number but those below 0.0001, zero excepted:     *)
(* scale - 4 of the integer's digits are for what is below 0.0001.          *)
OnlyTinyPanics ==
  phase = "panicked" => scale > 4 /\ unscaled # 0 /\ Shorn[scale - 4] = 0

(* README: decimals make the round trip through PostgreSQL, and it "will   *)
(* not lose information": from_sql returns for every value encoded.        *)
EveryValueIsRead == phase # "panicked"
=============================================================================

--------------------------- MODULE SchemaEditProofs ---------------------------
(***************************************************************************)
(* Proofs about SchemaEdit for every set of sessions, names and schemas,   *)
(* and about Identifiers for every name.                                   *)
(***************************************************************************)
EXTENDS SchemaEdit, FiniteSetTheorems, SequenceTheorems, WellFoundedInduction, TLAPS

(* A set of numbers has a least one: the intervals that end in them are    *)
(* ordered by inclusion.                                                   *)
LEMMA LeastNumber ==
  ASSUME NEW T \in SUBSET Nat, T # {}
  PROVE  \E m \in T : \A n \in T : m <= n
<1> DEFINE U == { 1 .. m : m \in T }
<1>1. IsWellFoundedOn(StrictSubsetOrdering(Nat), FiniteSubsetsOf(Nat))
  BY FS_StrictSubsetOrderingWellFounded
<1>2. U \subseteq FiniteSubsetsOf(Nat) /\ U # {}
  <2>1. ASSUME NEW m \in T PROVE 1 .. m \subseteq Nat /\ IsFiniteSet(1 .. m)
    BY FS_Interval
  <2>2. QED
    BY <2>1 DEF FiniteSubsetsOf
<1> HIDE DEF U
<1>3. PICK u \in U : \A v \in U : ~(<<v, u>> \in StrictSubsetOrdering(Nat))
  BY <1>1, <1>2, WFMin
<1>4. PICK m \in T : u = 1 .. m
  BY DEF U
<1>5. ASSUME NEW n \in T, n < m PROVE FALSE
  <2>1. 1 .. n \in U
    BY DEF U
  <2>2. m \in 1 .. m /\ m \notin 1 .. n
    BY <1>5
  <2>3. 1 .. n \subseteq 1 .. m /\ 1 .. n # 1 .. m
    BY <1>5, <2>2
  <2>4. <<1 .. n, 1 .. m>> \in StrictSubsetOrdering(Nat)
    BY <2>3 DEF StrictSubsetOrdering
  <2>5. QED
    BY <1>3, <1>4, <2>1, <2>4
<1>6. QED
  BY <1>5

-----------------------------------------------------------------------------
(* The two loops over characters are well defined.                         *)
Writes(w, name, quote) ==
  /\ w[0] = <<quote>>
  /\ \A i \in 1 .. Len(name) :
       w[i] = w[i - 1] \o (IF name[i] = quote THEN <<quote, quote>> ELSE <<name[i]>>)

LEMMA WrittenIs ==
  ASSUME NEW Char, NEW name \in Seq(Char), NEW quote
  PROVE  Writes(Written(name, quote), name, quote)
<1> DEFINE Piece(i) == IF name[i] = quote THEN <<quote, quote>> ELSE <<name[i]>>
           Loop(text, n) == text = [i \in 0 .. n |-> IF i = 0 THEN <<quote>>
                                                     ELSE text[i - 1] \o Piece(i)]
           T == { n \in 0 .. Len(name) : ~\E text : Loop(text, n) }
<1> HIDE DEF Loop, Piece
<1>1. Len(name) \in Nat
  OBVIOUS
<1>2. T = {}
  <2> SUFFICES ASSUME T # {} PROVE FALSE
    OBVIOUS
  <2>1. T \in SUBSET Nat
    BY <1>1
  <2>2. PICK n \in T : \A m \in T : n <= m
    BY <2>1, LeastNumber
  <2>3. CASE n = 0
    <3> DEFINE text == [i \in 0 .. n |-> <<quote>>]
    <3>1. Loop(text, n)
      BY <2>3 DEF Loop
    <3>2. QED
      BY <3>1
  <2>4. CASE n # 0
    <3>1. n - 1 \in 0 .. Len(name) /\ n - 1 \notin T
      BY <1>1, <2>2, <2>4
    <3>2. PICK before : Loop(before, n - 1)
      BY <3>1
    <3> DEFINE text == [i \in 0 .. n |-> IF i = n THEN before[n - 1] \o Piece(n) ELSE before[i]]
    <3>3. Loop(text, n)
      <4>1. ASSUME NEW i \in 0 .. n
            PROVE  text[i] = IF i = 0 THEN <<quote>> ELSE text[i - 1] \o Piece(i)
        <5>1. CASE i = n
          <6>1. text[n] = before[n - 1] \o Piece(n) /\ text[n - 1] = before[n - 1]
            BY <1>1, <2>2, <2>4
          <6>2. QED
            BY <1>1, <2>2, <2>4, <5>1, <6>1
        <5>2. CASE i # n
          <6>1. i \in 0 .. n - 1 /\ (i # 0 => i - 1 \in 0 .. n - 1)
            BY <1>1, <2>2, <5>2
          <6>2. text[i] = before[i] /\ (i # 0 => text[i - 1] = before[i - 1])
            BY <1>1, <2>2, <5>2, <6>1
          <6> HIDE DEF text
          <6>3. QED
            BY <3>2, <6>1, <6>2 DEF Loop
        <5>3. QED
          BY <5>1, <5>2
      <4>2. QED
        BY <4>1 DEF Loop
    <3>4. QED
      BY <3>3
  <2>5. QED
    BY <2>3, <2>4
<1>3. PICK text : Loop(text, Len(name))
  <2>1. Len(name) \in 0 .. Len(name)
    BY <1>1
  <2>2. QED
    BY <1>2, <2>1
<1>4. Loop(Written(name, quote), Len(name))
  BY <1>3, Zenon DEF Loop, Piece, Written
<1>5. QED
  <2>1. \A i \in 0 .. Len(name) : Written(name, quote)[i] =
          IF i = 0 THEN <<quote>> ELSE Written(name, quote)[i - 1] \o Piece(i)
    BY <1>4, Zenon DEF Loop
  <2>2. 0 \in 0 .. Len(name) /\ \A i \in 1 .. Len(name) : i \in 0 .. Len(name) /\ i # 0
    BY <1>1
  <2>3. QED
    BY <2>1, <2>2, Zenon DEF Piece, Writes

LEMMA ReadIs ==
  ASSUME NEW text, Len(text) \in Nat, NEW quote, NEW folds
  PROVE  /\ Read(text, quote, folds)[0] = [in |-> "start", ident |-> <<>>]
         /\ \A i \in 1 .. Len(text) :
              Read(text, quote, folds)[i] =
                ReadChar(quote, folds, Read(text, quote, folds)[i - 1], text[i])
<1> DEFINE Loop(read, n) == read = [i \in 0 .. n |->
                               IF i = 0 THEN [in |-> "start", ident |-> <<>>]
                               ELSE ReadChar(quote, folds, read[i - 1], text[i])]
           T == { n \in 0 .. Len(text) : ~\E read : Loop(read, n) }
<1> HIDE DEF Loop
<1>1. Len(text) \in Nat
  OBVIOUS
<1>2. T = {}
  <2> SUFFICES ASSUME T # {} PROVE FALSE
    OBVIOUS
  <2>1. T \in SUBSET Nat
    BY <1>1
  <2>2. PICK n \in T : \A m \in T : n <= m
    BY <2>1, LeastNumber
  <2>3. CASE n = 0
    <3> DEFINE read == [i \in 0 .. n |-> [in |-> "start", ident |-> <<>>]]
    <3>1. Loop(read, n)
      BY <2>3 DEF Loop
    <3>2. QED
      BY <3>1
  <2>4. CASE n # 0
    <3>1. n - 1 \in 0 .. Len(text) /\ n - 1 \notin T
      BY <1>1, <2>2, <2>4
    <3>2. PICK before : Loop(before, n - 1)
      BY <3>1
    <3> DEFINE read == [i \in 0 .. n |->
                 IF i = n THEN ReadChar(quote, folds, before[n - 1], text[n]) ELSE before[i]]
    <3>3. Loop(read, n)
      <4>1. ASSUME NEW i \in 0 .. n
            PROVE  read[i] = IF i = 0 THEN [in |-> "start", ident |-> <<>>]
                             ELSE ReadChar(quote, folds, read[i - 1], text[i])
        <5>1. CASE i = n
          <6>1. /\ read[n] = ReadChar(quote, folds, before[n - 1], text[n])
                /\ read[n - 1] = before[n - 1]
            BY <1>1, <2>2, <2>4
          <6>2. QED
            BY <1>1, <2>2, <2>4, <5>1, <6>1
        <5>2. CASE i # n
          <6>1. i \in 0 .. n - 1 /\ (i # 0 => i - 1 \in 0 .. n - 1)
            BY <1>1, <2>2, <5>2
          <6>2. read[i] = before[i] /\ (i # 0 => read[i - 1] = before[i - 1])
            BY <1>1, <2>2, <5>2, <6>1
          <6> HIDE DEF read
          <6>3. QED
            BY <3>2, <6>1, <6>2 DEF Loop
        <5>3. QED
          BY <5>1, <5>2
      <4>2. QED
        BY <4>1 DEF Loop
    <3>4. QED
      BY <3>3
  <2>5. QED
    BY <2>3, <2>4
<1>3. PICK read : Loop(read, Len(text))
  <2>1. Len(text) \in 0 .. Len(text)
    BY <1>1
  <2>2. QED
    BY <1>2, <2>1
<1>4. Loop(Read(text, quote, folds), Len(text))
  BY <1>3, Zenon DEF Loop, Read
<1>5. QED
  <2>1. \A i \in 0 .. Len(text) : Read(text, quote, folds)[i] =
          IF i = 0 THEN [in |-> "start", ident |-> <<>>]
          ELSE ReadChar(quote, folds, Read(text, quote, folds)[i - 1], text[i])
    BY <1>4, Zenon DEF Loop
  <2>2. 0 \in 0 .. Len(text) /\ \A i \in 1 .. Len(text) : i \in 0 .. Len(text) /\ i # 0
    BY <1>1
  <2>3. QED
    BY <2>1, <2>2, Zenon

-----------------------------------------------------------------------------
(* What is written between quotes: the opening quote, and for each         *)
(* character itself, behind what was written before.                       *)
StartsWith(t, s) == Len(s) <= Len(t) /\ \A j \in 1 .. Len(s) : t[j] = s[j]

LEMMA WrittenGrows ==
  ASSUME NEW Char, NEW name \in Seq(Char), NEW quote \in Char
  PROVE  \A i \in 0 .. Len(name) : \A k \in 0 .. i :
           /\ Written(name, quote)[k] \in Seq(Char)
           /\ StartsWith(Written(name, quote)[i], Written(name, quote)[k])
<1> DEFINE w == Written(name, quote)
           Piece(i) == IF name[i] = quote THEN <<quote, quote>> ELSE <<name[i]>>
           Good(i) == /\ w[i] \in Seq(Char)
                      /\ \A k \in 0 .. i :
                           /\ w[k] \in Seq(Char)
                           /\ StartsWith(w[i], w[k])
           T == { n \in 0 .. Len(name) : ~Good(n) }
<1>1. Len(name) \in Nat /\ \A i \in 1 .. Len(name) : name[i] \in Char
  OBVIOUS
<1>2. w[0] = <<quote>> /\ \A i \in 1 .. Len(name) : w[i] = w[i - 1] \o Piece(i)
  <2>1. Writes(w, name, quote)
    BY WrittenIs
  <2> HIDE DEF w
  <2>2. QED
    BY <2>1, Zenon DEF Writes
<1> HIDE DEF w
<1>3. Good(0)
  <2>1. <<quote>> \in Seq(Char)
    OBVIOUS
  <2>2. w[0] \in Seq(Char) /\ Len(w[0]) \in Nat
    BY <1>2, <2>1
  <2>3. \A k \in 0 .. 0 : k = 0
    OBVIOUS
  <2>4. QED
    BY <2>2, <2>3 DEF StartsWith
<1>4. ASSUME NEW n \in 1 .. Len(name), Good(n - 1) PROVE Good(n)
  <2>1. Piece(n) \in Seq(Char)
    <3>1. name[n] \in Char
      BY <1>1
    <3>2. <<quote, quote>> \in Seq(Char) /\ <<name[n]>> \in Seq(Char)
      BY <3>1
    <3>3. QED
      BY <3>2
  <2> HIDE DEF Piece
  <2>2. w[n] = w[n - 1] \o Piece(n) /\ w[n - 1] \in Seq(Char)
    BY <1>2, <1>4, Zenon
  <2>3. w[n] \in Seq(Char) /\ StartsWith(w[n], w[n - 1])
    BY <2>1, <2>2 DEF StartsWith
  <2>4. ASSUME NEW k \in 0 .. n
        PROVE  w[k] \in Seq(Char) /\ StartsWith(w[n], w[k])
    <3>1. CASE k = n
      <4>1. Len(w[n]) \in Nat
        BY <2>3
      <4>2. QED
        BY <2>3, <3>1, <4>1 DEF StartsWith
    <3>2. CASE k # n
      <4>1. k \in 0 .. n - 1
        BY <3>2
      <4>2. w[k] \in Seq(Char) /\ StartsWith(w[n - 1], w[k])
        BY <1>4, <4>1
      <4>3. Len(w[k]) \in Nat /\ Len(w[n - 1]) \in Nat /\ Len(w[n]) \in Nat
        BY <2>2, <2>3, <4>2
      <4>4. QED
        BY <2>3, <4>2, <4>3 DEF StartsWith
    <3>3. QED
      BY <3>1, <3>2
  <2>5. QED
    BY <2>3, <2>4
<1> HIDE DEF Good
<1>5. T = {}
  <2> SUFFICES ASSUME T # {} PROVE FALSE
    OBVIOUS
  <2>1. T \in SUBSET Nat
    BY <1>1
  <2>2. PICK n \in T : \A m \in T : n <= m
    BY <2>1, LeastNumber
  <2>3. n # 0 /\ n \in 0 .. Len(name)
    BY <1>3
  <2>4. n \in 1 .. Len(name) /\ n - 1 \in 0 .. Len(name) /\ n - 1 \notin T
    BY <1>1, <2>2, <2>3
  <2>5. QED
    BY <1>4, <2>2, <2>4
<1>6. QED
  BY <1>5 DEF Good, w

(* The server reads a name that is written as it is back, and folding      *)
(* takes nothing away from it.                                             *)
LEMMA BareIsRead ==
  ASSUME NEW Char, NEW name \in Seq(Char), ValidIdent(name),
         NEW quote \in {"quote", "backtick"}, NEW folds
  PROVE  LET read == Read(name, quote, folds)[Len(name)]
         IN read.in = "bare" /\ read.ident = name
<1> DEFINE read == Read(name, quote, folds)
           Good(i) == /\ read[i].in = "bare"
                      /\ read[i].ident \in Seq(Char)
                      /\ Len(read[i].ident) = i
                      /\ \A j \in 1 .. i : read[i].ident[j] = name[j]
           T == { n \in 1 .. Len(name) : ~Good(n) }
<1>1. Len(name) \in Nat /\ Len(name) # 0 /\ \A i \in 1 .. Len(name) : name[i] \in Char
  BY DEF ValidIdent
<1>2. /\ read[0] = [in |-> "start", ident |-> <<>>]
      /\ \A i \in 1 .. Len(name) : read[i] = ReadChar(quote, folds, read[i - 1], name[i])
  BY <1>1, ReadIs
<1> HIDE DEF read
<1>3. \A i \in 1 .. Len(name) :
        /\ name[i] \in LowerCase \cup {"1", "$"}
        /\ name[i] \notin UpperCase
        /\ name[i] # quote
  <2> TAKE i \in 1 .. Len(name)
  <2>1. name[i] \in ToSet(name)
    BY DEF ToSet
  <2>2. name[i] \in LowerCase \cup {"1", "$"}
    BY <2>1 DEF ValidIdent
  <2>3. QED
    BY <2>2 DEF LowerCase, UpperCase
<1>4. ASSUME NEW n \in 1 .. Len(name),
             read[n - 1].in \in {"start", "bare"}, read[n - 1].ident \in Seq(Char)
      PROVE  read[n] = [in |-> "bare", ident |-> Append(read[n - 1].ident, name[n])]
  <2>1. read[n] = ReadChar(quote, folds, read[n - 1], name[n])
    BY <1>2
  <2>2. (IF folds THEN FoldCase(name[n]) ELSE name[n]) = name[n]
    BY <1>3 DEF FoldCase
  <2>3. QED
    BY <1>3, <1>4, <2>1, <2>2 DEF ReadChar
<1>5. Good(1)
  <2>1. 1 \in 1 .. Len(name) /\ read[1 - 1] = read[0]
    BY <1>1
  <2>2. <<>> \in Seq(Char)
    OBVIOUS
  <2>3. read[1] = [in |-> "bare", ident |-> Append(<<>>, name[1])]
    <3>1. read[1 - 1].in = "start" /\ read[1 - 1].ident = <<>>
      BY <1>2, <2>1
    <3>2. read[1] = [in |-> "bare", ident |-> Append(read[1 - 1].ident, name[1])]
      BY <1>4, <2>1, <2>2, <3>1
    <3>3. QED
      BY <3>1, <3>2
  <2>4. Append(<<>>, name[1]) = <<name[1]>> /\ name[1] \in Char
    BY <1>1, <2>1
  <2>5. QED
    BY <2>3, <2>4
<1>6. ASSUME NEW n \in 2 .. Len(name), Good(n - 1) PROVE Good(n)
  <2>1. n \in 1 .. Len(name) /\ name[n] \in Char
    BY <1>1
  <2> DEFINE before == read[n - 1].ident
  <2>2. read[n] = [in |-> "bare", ident |-> Append(before, name[n])]
    BY <1>4, <1>6, <2>1
  <2>3. before \in Seq(Char) /\ Len(before) = n - 1 /\ \A j \in 1 .. n - 1 : before[j] = name[j]
    BY <1>6
  <2> HIDE DEF before
  <2>4. /\ Append(before, name[n]) \in Seq(Char)
        /\ Len(Append(before, name[n])) = n
        /\ \A j \in 1 .. n : Append(before, name[n])[j] = name[j]
    BY <2>1, <2>3
  <2>5. QED
    BY <2>2, <2>4
<1> HIDE DEF Good
<1>7. T = {}
  <2> SUFFICES ASSUME T # {} PROVE FALSE
    OBVIOUS
  <2>1. T \in SUBSET Nat
    BY <1>1
  <2>2. PICK n \in T : \A m \in T : n <= m
    BY <2>1, LeastNumber
  <2>3. n # 1 /\ n \in 1 .. Len(name)
    BY <1>5
  <2>4. n \in 2 .. Len(name) /\ n - 1 \in 1 .. Len(name) /\ n - 1 \notin T
    BY <1>1, <2>2, <2>3
  <2>5. QED
    BY <1>6, <2>2, <2>4
<1>8. Good(Len(name))
  BY <1>1, <1>7
<1>9. read[Len(name)].ident = name
  BY <1>1, <1>8, SeqEqual DEF Good
<1>10. QED
  BY <1>8, <1>9 DEF Good, read

(* Within quotes the server has read a character for each that was         *)
(* written, one for two quotes.                                            *)
LEMMA QuotedIsRead ==
  ASSUME NEW Char, NEW name \in Seq(Char),
         NEW quote \in Char, quote \in {"quote", "backtick"}, NEW folds
  PROVE  LET text == Append(Written(name, quote)[Len(name)], quote)
             read == Read(text, quote, folds)[Len(text)]
         IN read.in = "closed" /\ read.ident = name
<1> DEFINE w == Written(name, quote)
           Piece(i) == IF name[i] = quote THEN <<quote, quote>> ELSE <<name[i]>>
           text == Append(w[Len(name)], quote)
           read == Read(text, quote, folds)
           Good(i) == /\ read[Len(w[i])] = [in |-> "quotes", ident |-> read[Len(w[i])].ident]
                      /\ read[Len(w[i])].ident \in Seq(Char)
                      /\ Len(read[Len(w[i])].ident) = i
                      /\ \A j \in 1 .. i : read[Len(w[i])].ident[j] = name[j]
           T == { n \in 0 .. Len(name) : ~Good(n) }
<1>1. Len(name) \in Nat /\ \A i \in 1 .. Len(name) : name[i] \in Char
  OBVIOUS
<1>c. ASSUME NEW ident, NEW c
      PROVE  /\ ReadChar(quote, folds, [in |-> "start", ident |-> ident], quote)
                   = [in |-> "quotes", ident |-> ident]
             /\ c # quote => ReadChar(quote, folds, [in |-> "quotes", ident |-> ident], c)
                               = [in |-> "quotes", ident |-> Append(ident, c)]
             /\ ReadChar(quote, folds, [in |-> "quotes", ident |-> ident], quote)
                  = [in |-> "closed", ident |-> ident]
             /\ ReadChar(quote, folds, [in |-> "closed", ident |-> ident], quote)
                  = [in |-> "quotes", ident |-> Append(ident, quote)]
  <2>1. quote \notin LowerCase \cup UpperCase \cup {"1", "$"}
    BY DEF LowerCase, UpperCase
  <2>2. ReadChar(quote, folds, [in |-> "start", ident |-> ident], quote)
          = [in |-> "quotes", ident |-> ident]
    BY <2>1 DEF ReadChar
  <2>3. c # quote => ReadChar(quote, folds, [in |-> "quotes", ident |-> ident], c)
                       = [in |-> "quotes", ident |-> Append(ident, c)]
    BY DEF ReadChar
  <2>4. ReadChar(quote, folds, [in |-> "quotes", ident |-> ident], quote)
          = [in |-> "closed", ident |-> ident]
    BY DEF ReadChar
  <2>5. ReadChar(quote, folds, [in |-> "closed", ident |-> ident], quote)
          = [in |-> "quotes", ident |-> Append(ident, quote)]
    BY DEF ReadChar
  <2>6. QED
    BY <2>2, <2>3, <2>4, <2>5
<1>2. w[0] = <<quote>> /\ \A i \in 1 .. Len(name) : w[i] = w[i - 1] \o Piece(i)
  <2>1. Writes(w, name, quote)
    BY WrittenIs
  <2> HIDE DEF w
  <2>2. QED
    BY <2>1, Zenon DEF Writes
<1>3. \A k \in 0 .. Len(name) :
        /\ w[k] \in Seq(Char)
        /\ Len(w[k]) <= Len(w[Len(name)])
        /\ \A j \in 1 .. Len(w[k]) : w[Len(name)][j] = w[k][j]
  <2>1. \A i \in 0 .. Len(name) : \A k \in 0 .. i :
          w[k] \in Seq(Char) /\ StartsWith(w[i], w[k])
    BY WrittenGrows
  <2>2. Len(name) \in 0 .. Len(name)
    BY <1>1
  <2> HIDE DEF w
  <2>3. QED
    BY <2>1, <2>2 DEF StartsWith
<1> HIDE DEF w
<1>4. /\ text \in Seq(Char)
      /\ Len(text) = Len(w[Len(name)]) + 1
      /\ text[Len(text)] = quote
      /\ \A j \in 1 .. Len(w[Len(name)]) : text[j] = w[Len(name)][j]
  <2>1. w[Len(name)] \in Seq(Char)
    BY <1>1, <1>3
  <2>2. QED
    BY <2>1
<1>5. \A k \in 0 .. Len(name) :
        /\ Len(w[k]) \in Nat /\ Len(w[k]) < Len(text)
        /\ \A j \in 1 .. Len(w[k]) : text[j] = w[k][j]
  <2> TAKE k \in 0 .. Len(name)
  <2>1. Len(w[k]) \in Nat /\ Len(w[Len(name)]) \in Nat
    BY <1>1, <1>3
  <2>2. QED
    BY <1>3, <1>4, <2>1
<1> HIDE DEF text
<1>6. Len(text) \in Nat
  BY <1>4
<1>7. /\ read[0] = [in |-> "start", ident |-> <<>>]
      /\ \A i \in 1 .. Len(text) : read[i] = ReadChar(quote, folds, read[i - 1], text[i])
  BY <1>6, ReadIs
<1> HIDE DEF read
<1>8. \A i \in Nat : i < Len(text) => read[i + 1] = ReadChar(quote, folds, read[i], text[i + 1])
  <2> TAKE i \in Nat
  <2> HAVE i < Len(text)
  <2>1. i + 1 \in 1 .. Len(text) /\ (i + 1) - 1 = i
    BY <1>6
  <2>2. QED
    BY <1>7, <2>1
<1>9. Good(0)
  <2>1. Len(w[0]) = 1 /\ text[1] = quote
    <3>1. Len(w[0]) = 1 /\ w[0][1] = quote /\ 0 \in 0 .. Len(name)
      BY <1>1, <1>2
    <3>2. QED
      BY <1>5, <3>1
  <2>2. read[1] = ReadChar(quote, folds, read[0], text[1])
    <3>1. 0 < Len(text) /\ 0 + 1 = 1
      BY <1>1, <1>5, <1>6
    <3>2. QED
      BY <1>8, <3>1
  <2>3. read[1] = [in |-> "quotes", ident |-> <<>>]
    BY <1>7, <2>1, <2>2, <1>c
  <2>4. QED
    BY <2>1, <2>3
<1>10. ASSUME NEW n \in 1 .. Len(name), Good(n - 1) PROVE Good(n)
  <2> DEFINE m == Len(w[n - 1])
             before == read[m].ident
  <2>1. /\ n - 1 \in 0 .. Len(name) /\ n \in 0 .. Len(name)
        /\ name[n] \in Char
    BY <1>1
  <2>2. m \in Nat /\ w[n - 1] \in Seq(Char)
    BY <1>3, <1>5, <2>1
  <2>3. w[n] = w[n - 1] \o Piece(n)
    BY <1>2
  <2>4. /\ read[m] = [in |-> "quotes", ident |-> before]
        /\ before \in Seq(Char) /\ Len(before) = n - 1
        /\ \A j \in 1 .. n - 1 : before[j] = name[j]
    BY <1>10
  <2> HIDE DEF m, before
  <2>5. /\ Append(before, name[n]) \in Seq(Char)
        /\ Len(Append(before, name[n])) = n
        /\ \A j \in 1 .. n : Append(before, name[n])[j] = name[j]
    BY <2>1, <2>4
  <2>6. read[Len(w[n])] = [in |-> "quotes", ident |-> Append(before, name[n])]
    <3>1. CASE name[n] # quote
      <4>1. w[n] = w[n - 1] \o <<name[n]>>
        BY <2>3, <3>1
      <4>2. Len(w[n]) = m + 1 /\ w[n][m + 1] = name[n]
        BY <2>1, <2>2, <4>1 DEF m
      <4>3. text[m + 1] = name[n] /\ m < Len(text)
        BY <1>5, <2>1, <2>2, <4>2
      <4>4. read[m + 1] = ReadChar(quote, folds, read[m], name[n])
        BY <1>8, <2>2, <4>3
      <4>5. ReadChar(quote, folds, [in |-> "quotes", ident |-> before], name[n])
              = [in |-> "quotes", ident |-> Append(before, name[n])]
        BY <1>c, <3>1
      <4>6. read[m + 1] = [in |-> "quotes", ident |-> Append(before, name[n])]
        BY <2>4, <4>4, <4>5
      <4>7. QED
        BY <4>2, <4>6
    <3>2. CASE name[n] = quote
      <4>1. w[n] = w[n - 1] \o <<quote, quote>>
        BY <2>3, <3>2
      <4>2. Len(w[n]) = m + 2 /\ w[n][m + 1] = quote /\ w[n][m + 2] = quote
        BY <2>1, <2>2, <4>1 DEF m
      <4>3. text[m + 1] = quote /\ text[m + 2] = quote /\ m < Len(text) /\ m + 1 < Len(text)
        <5>1. m + 1 \in 1 .. Len(w[n]) /\ m + 2 \in 1 .. Len(w[n])
          BY <2>2, <4>2
        <5>2. text[m + 1] = quote /\ text[m + 2] = quote
          BY <1>5, <2>1, <4>2, <5>1
        <5>3. m + 2 < Len(text)
          BY <1>5, <2>1, <4>2
        <5>4. QED
          BY <1>6, <2>2, <5>2, <5>3
      <4>4. read[m + 1] = ReadChar(quote, folds, read[m], quote)
        BY <1>8, <2>2, <4>3
      <4>5. read[m + 1] = [in |-> "closed", ident |-> before]
        BY <2>4, <4>4, <1>c
      <4>6. read[m + 2] = ReadChar(quote, folds, read[m + 1], quote)
        <5>1. m + 1 \in Nat /\ (m + 1) + 1 = m + 2
          BY <2>2
        <5>2. QED
          BY <1>8, <4>3, <5>1
      <4>7. QED
        BY <3>2, <4>2, <4>5, <4>6, <1>c
    <3>3. QED
      BY <3>1, <3>2
  <2>7. QED
    BY <2>5, <2>6
<1> HIDE DEF Good
<1>11. T = {}
  <2> SUFFICES ASSUME T # {} PROVE FALSE
    OBVIOUS
  <2>1. T \in SUBSET Nat
    BY <1>1
  <2>2. PICK n \in T : \A m \in T : n <= m
    BY <2>1, LeastNumber
  <2>3. n # 0 /\ n \in 0 .. Len(name)
    BY <1>9
  <2>4. n \in 1 .. Len(name) /\ n - 1 \in 0 .. Len(name) /\ n - 1 \notin T
    BY <1>1, <2>2, <2>3
  <2>5. QED
    BY <1>10, <2>2, <2>4
<1>12. Good(Len(name))
  BY <1>1, <1>11
<1> DEFINE m == Len(w[Len(name)])
<1>13. m \in Nat /\ Len(text) = m + 1 /\ text[m + 1] = quote /\ m < Len(text)
  BY <1>1, <1>4, <1>5
<1>14. read[m] = [in |-> "quotes", ident |-> name]
  BY <1>1, <1>12, SeqEqual DEF Good
<1> HIDE DEF m
<1>15. read[m + 1] = ReadChar(quote, folds, read[m], quote)
  BY <1>8, <1>13
<1>16. read[Len(text)] = [in |-> "closed", ident |-> name]
  <2>1. read[m + 1] = [in |-> "closed", ident |-> name]
    BY <1>c, <1>14, <1>15, Zenon
  <2>2. QED
    BY <1>13, <2>1
<1>17. QED
  BY <1>16 DEF read, text, w

(* Whatever is in a name, the server takes its identifier for the same     *)
(* name; it refuses the reserved word and the empty name only.             *)
THEOREM IdentifiersAreReadBack ==
  ASSUME NEW Char, NEW name \in Seq(Char), NEW quote, quote \in {"quote", "backtick"},
         NEW folds, NEW takesEmpty \in BOOLEAN
  PROVE  ReadIdent(Escaped(name, quote), quote, folds, takesEmpty) =
           IF name = <<"select">> \/ (name = <<>> /\ ~takesEmpty) THEN Refused ELSE name
<1> DEFINE Wider == Char \cup {quote}
<1>1. name \in Seq(Wider) /\ quote \in Wider
  OBVIOUS
<1> HIDE DEF Wider
<1>2. CASE ValidIdent(name)
  <2>1. /\ Read(name, quote, folds)[Len(name)].in = "bare"
        /\ Read(name, quote, folds)[Len(name)].ident = name
    BY <1>1, <1>2, BareIsRead
  <2>2. name # <<>>
    BY <1>2 DEF ValidIdent
  <2>3. QED
    BY <1>2, <2>1, <2>2 DEF ReadIdent, Escaped
<1>3. CASE ~ValidIdent(name)
  <2> DEFINE text == Append(Written(name, quote)[Len(name)], quote)
  <2>1. /\ Read(text, quote, folds)[Len(text)].in = "closed"
        /\ Read(text, quote, folds)[Len(text)].ident = name
    BY <1>1, QuotedIsRead
  <2> HIDE DEF text
  <2>2. Escaped(name, quote) = text
    BY <1>3 DEF Escaped, text
  <2>3. ValidIdent(<<"select">>)
    <3>1. ToSet(<<"select">>) \subseteq {"select"}
      BY DEF ToSet
    <3>2. Head(<<"select">>) = "select" /\ <<"select">> # <<>>
      OBVIOUS
    <3>3. QED
      BY <3>1, <3>2 DEF ValidIdent, LowerCase
  <2>4. QED
    BY <1>3, <2>1, <2>2, <2>3 DEF ReadIdent
<1>4. QED
  BY <1>2, <1>3

-----------------------------------------------------------------------------
(* The calls whose effect has happened and whose Ok is not returned yet.   *)
Counts(c, op, k) ==
  /\ c.phase = "answered" /\ c.answer.status = "Ok"
  /\ c.request.op = op /\ Key(c.request.name) = k

Effected(op, k) == { s \in Session : Counts(call[s], op, k) }

(* What the sessions know of a key, once these have returned as well.      *)
Known(k) == balance[k] + Cardinality(Effected("create", k)) - Cardinality(Effected("drop", k))

Tables(k) == IF IsTable(k) THEN 1 ELSE 0

BalanceInv ==
  \A k \in Keys :
    /\ IsFiniteSet(Effected("create", k)) /\ IsFiniteSet(Effected("drop", k))
    /\ k \notin uncertain => Known(k) = Tables(k)

CreatesOnly(c) == c.phase = "creating" => c.request.op = "create"

CreatingInv == \A s \in Session : CreatesOnly(call[s])

IInv == TypeOK /\ CreatingInv /\ BalanceInv

-----------------------------------------------------------------------------
LEMMA CallTypes ==
  ASSUME TypeOK, NEW s \in Session
  PROVE  /\ call[s].phase \in {"idle", "sent", "creating", "answered"}
         /\ call[s].phase = "idle" => call[s] = Idle
         /\ call[s].phase # "idle" => call[s].request \in Requests
         /\ call[s].phase \in {"sent", "creating"} =>
              call[s] = [phase |-> call[s].phase, request |-> call[s].request]
         /\ call[s].phase = "answered" =>
              /\ call[s] = [phase |-> "answered", request |-> call[s].request,
                            answer |-> call[s].answer]
              /\ call[s].answer \in Answers
<1>1. call[s] \in Calls
  BY DEF TypeOK
<1>2. CASE call[s] = Idle
  BY <1>2 DEF Idle
<1>3. CASE call[s] \in [phase : {"sent", "creating"}, request : Requests]
  BY <1>3
<1>4. CASE call[s] \in [phase : {"answered"}, request : Requests, answer : Answers]
  BY <1>4
<1>5. QED
  BY <1>1, <1>2, <1>3, <1>4 DEF Calls

LEMMA RequestTypes ==
  ASSUME NEW request \in Requests
  PROVE  /\ request.op \in {"create", "drop", "get", "list"}
         /\ request.op # "list" => request.name \in names
         /\ request.op = "create" => request.schema \in Schemas
<1>1. CASE request \in [op : {"create"}, name : names, schema : Schemas]
  BY <1>1
<1>2. CASE request \in [op : {"drop", "get"}, name : names]
  BY <1>2
<1>3. CASE request \in [op : {"list"}]
  BY <1>3
<1>4. QED
  BY <1>1, <1>2, <1>3 DEF Requests

(* Nothing but the calls and the catalog changes.                          *)
LEMMA SettingKept ==
  ASSUME UNCHANGED setting
  PROVE  /\ flavour' = flavour /\ names' = names
         /\ Keys' = Keys /\ Requests' = Requests
         /\ Objects' = Objects /\ Answers' = Answers /\ Calls' = Calls
         /\ \A name : Key(name)' = Key(name) /\ Stored(name)' = Stored(name)
<1>1. flavour' = flavour /\ names' = names
  BY DEF setting
<1>2. \A name : Key(name)' = Key(name) /\ Stored(name)' = Stored(name)
  BY <1>1 DEF Key, Stored
<1>3. Keys' = Keys
  BY <1>1, <1>2 DEF Keys
<1>4. Requests' = Requests
  BY <1>1 DEF Requests
<1>5. Objects' = Objects /\ Answers' = Answers
  BY <1>1, <1>2 DEF Objects, Answers
<1>6. Calls' = Calls
  BY <1>4, <1>5 DEF Calls
<1>7. QED
  BY <1>1, <1>2, <1>3, <1>4, <1>5, <1>6

(* A server that takes the name takes it for the one of the call.          *)
LEMMA NamedIsRequested ==
  ASSUME TypeOK, NEW s \in Session, call[s].request.name \in names, Named(s) # Refused
  PROVE  Named(s) = call[s].request.name
<1>1. call[s].request.name \in Seq(STRING)
  BY SchemaAssumption DEF TypeOK
<1>2. Quote \in {"quote", "backtick"}
  BY DEF Quote
<1>3. (flavour = "sqlite") \in BOOLEAN /\ (flavour = "postgres") \in BOOLEAN
  OBVIOUS
<1> DEFINE name == call[s].request.name
<1>4. Received(name) =
        IF name = <<"select">> \/ (name = <<>> /\ ~(flavour = "sqlite")) THEN Refused ELSE name
  <2> HIDE DEF name
  <2>1. name \in Seq(STRING)
    BY <1>1 DEF name
  <2>2. \A folds, takesEmpty \in BOOLEAN :
          ReadIdent(Escaped(name, Quote), Quote, folds, takesEmpty) =
            IF name = <<"select">> \/ (name = <<>> /\ ~takesEmpty) THEN Refused ELSE name
    BY <1>2, <2>1, IdentifiersAreReadBack
  <2>3. QED
    BY <1>3, <2>2 DEF Received
<1>5. QED
  BY <1>4 DEF Named

-----------------------------------------------------------------------------
(* How many effects of a kind a session has in hand.                       *)
InHand(c, op, k) == IF Counts(c, op, k) THEN 1 ELSE 0

LEMMA InitInv == Init => IInv
<1> SUFFICES ASSUME Init PROVE IInv
  OBVIOUS
<1>1. objects \in [Keys -> Objects]
  BY DEF Init, Objects
<1>2. call \in [Session -> Calls] /\ \A s \in Session : call[s] = Idle
  BY DEF Init, Calls
<1>3. balance \in [Keys -> Int] /\ \A k \in Keys : balance[k] = Tables(k)
  BY DEF Init, Tables
<1>4. TypeOK
  BY <1>1, <1>2, <1>3 DEF Init, TypeOK
<1>5. \A op, k : Effected(op, k) = {}
  BY <1>2 DEF Effected, Counts, Idle
<1>6. BalanceInv
  <2> SUFFICES ASSUME NEW k \in Keys
               PROVE  /\ IsFiniteSet(Effected("create", k)) /\ IsFiniteSet(Effected("drop", k))
                      /\ Known(k) = Tables(k)
    BY DEF BalanceInv
  <2>1. \A op : IsFiniteSet(Effected(op, k)) /\ Cardinality(Effected(op, k)) = 0
    BY <1>5, FS_EmptySet
  <2>2. balance[k] = Tables(k) /\ balance[k] \in Int
    BY <1>3
  <2>3. QED
    BY <2>1, <2>2 DEF Known
<1>7. CreatingInv
  BY <1>2 DEF CreatingInv, CreatesOnly, Idle
<1>8. QED
  BY <1>4, <1>6, <1>7 DEF IInv

(* One session's call changes: at most that session is added to or taken   *)
(* from those whose effect is not returned.                                *)
EffectedByStep(s, c, op, k) ==
  Cardinality(Effected(op, k)') =
    Cardinality(Effected(op, k)) + InHand(c, op, k) - InHand(call[s], op, k)

LEMMA EffectedChanges ==
  ASSUME call \in [Session -> Calls], UNCHANGED setting,
         NEW s \in Session, NEW c, call' = [call EXCEPT ![s] = c],
         NEW op, NEW k, IsFiniteSet(Effected(op, k))
  PROVE  /\ IsFiniteSet(Effected(op, k)')
         /\ Cardinality(Effected(op, k)) \in Nat
         /\ EffectedByStep(s, c, op, k)
<1>1. call'[s] = c /\ \A t \in Session : t # s => call'[t] = call[t]
  OBVIOUS
<1>2. Effected(op, k)' = { t \in Session : Counts(call'[t], op, k) }
  BY SettingKept DEF Effected, Counts
<1>3. s \in Effected(op, k) <=> Counts(call[s], op, k)
  BY DEF Effected
<1>4. CASE Counts(c, op, k)
  <2>1. Effected(op, k)' = Effected(op, k) \cup {s}
    BY <1>1, <1>2, <1>4 DEF Effected
  <2>2. QED
    BY <1>3, <1>4, <2>1, FS_AddElement, FS_CardinalityType DEF InHand, EffectedByStep
<1>5. CASE ~Counts(c, op, k)
  <2>1. Effected(op, k)' = Effected(op, k) \ {s}
    BY <1>1, <1>2, <1>5 DEF Effected
  <2>2. QED
    BY <1>3, <1>5, <2>1, FS_RemoveElement, FS_CardinalityType DEF InHand, EffectedByStep
<1>6. QED
  BY <1>4, <1>5

(* What a step changes of the balance and of the effects in hand is what   *)
(* it changes of the tables.                                               *)
Balanced(s, c, k) ==
  balance'[k] - balance[k]
    + (InHand(c, "create", k) - InHand(call[s], "create", k))
    - (InHand(c, "drop", k) - InHand(call[s], "drop", k))
  = Tables(k)' - Tables(k)

LEMMA StepInv ==
  ASSUME IInv, UNCHANGED setting,
         NEW s \in Session, NEW c \in Calls, call' = [call EXCEPT ![s] = c],
         CreatesOnly(c),
         objects' \in [Keys -> Objects], balance' \in [Keys -> Int],
         uncertain \subseteq uncertain', uncertain' \subseteq Keys,
         \A k \in Keys \ uncertain' : Balanced(s, c, k)
  PROVE  IInv'
<1>1. call' \in [Session -> Calls]
  BY DEF IInv, TypeOK
<1>2. TypeOK'
  BY <1>1, SettingKept DEF IInv, TypeOK
<1>3. CreatingInv'
  BY DEF IInv, TypeOK, CreatingInv
<1>4. ASSUME NEW k \in Keys
      PROVE  /\ IsFiniteSet(Effected("create", k)') /\ IsFiniteSet(Effected("drop", k)')
             /\ k \notin uncertain' => Known(k)' = Tables(k)'
  <2>1. call \in [Session -> Calls]
    BY DEF IInv, TypeOK
  <2>2. /\ IsFiniteSet(Effected("create", k)) /\ IsFiniteSet(Effected("drop", k))
    BY DEF IInv, BalanceInv
  <2> DEFINE made == Cardinality(Effected("create", k))
             gone == Cardinality(Effected("drop", k))
  <2>3. /\ IsFiniteSet(Effected("create", k)') /\ made \in Nat
        /\ made' = made + InHand(c, "create", k) - InHand(call[s], "create", k)
    <3>1. IsFiniteSet(Effected("create", k)')
      BY <2>1, <2>2, EffectedChanges
    <3>2. made \in Nat
      BY <2>1, <2>2, EffectedChanges
    <3>3. EffectedByStep(s, c, "create", k)
      BY <2>1, <2>2, EffectedChanges
    <3>4. QED
      BY <3>1, <3>2, <3>3 DEF EffectedByStep
  <2>4. /\ IsFiniteSet(Effected("drop", k)') /\ gone \in Nat
        /\ gone' = gone + InHand(c, "drop", k) - InHand(call[s], "drop", k)
    <3>1. IsFiniteSet(Effected("drop", k)')
      BY <2>1, <2>2, EffectedChanges
    <3>2. gone \in Nat
      BY <2>1, <2>2, EffectedChanges
    <3>3. EffectedByStep(s, c, "drop", k)
      BY <2>1, <2>2, EffectedChanges
    <3>4. QED
      BY <3>1, <3>2, <3>3 DEF EffectedByStep
  <2>5. Known(k) = balance[k] + made - gone /\ Known(k)' = balance'[k] + made' - gone'
    BY DEF Known
  <2>6. balance[k] \in Int /\ balance'[k] \in Int
    BY DEF IInv, TypeOK
  <2>7. \A d, op : InHand(d, op, k) \in Int
    BY DEF InHand
  <2>8. Tables(k) \in Int /\ Tables(k)' \in Int
    BY DEF Tables
  <2> HIDE DEF made, gone
  <2>9. CASE k \notin uncertain'
    <3>1. Known(k) = Tables(k)
      BY <2>9 DEF IInv, BalanceInv
    <3>2. balance'[k] - balance[k]
            + (InHand(c, "create", k) - InHand(call[s], "create", k))
            - (InHand(c, "drop", k) - InHand(call[s], "drop", k))
          = Tables(k)' - Tables(k)
      BY <2>9 DEF Balanced
    <3>3. QED
      BY <2>3, <2>4, <2>5, <2>6, <2>7, <2>8, <3>1, <3>2
  <2>10. QED
    BY <2>3, <2>4, <2>9
<1>5. BalanceInv'
  BY <1>4, SettingKept DEF BalanceInv
<1>6. QED
  BY <1>2, <1>3, <1>5 DEF IInv

(* A step of a call without an effect.                                     *)
LEMMA QuietInv ==
  ASSUME IInv, UNCHANGED <<setting, objects, ghosts>>,
         NEW s \in Session, NEW c \in Calls, call' = [call EXCEPT ![s] = c], CreatesOnly(c),
         \A op \in {"create", "drop"} : \A k : ~Counts(c, op, k) /\ ~Counts(call[s], op, k)
  PROVE  IInv'
<1>1. objects' = objects /\ balance' = balance /\ uncertain' = uncertain /\ UNCHANGED setting
  BY DEF ghosts
<1>2. /\ objects' \in [Keys -> Objects] /\ balance' \in [Keys -> Int]
      /\ uncertain \subseteq uncertain' /\ uncertain' \subseteq Keys
  BY <1>1 DEF IInv, TypeOK
<1>3. ASSUME NEW k \in Keys PROVE Balanced(s, c, k)
  <2>1. Tables(k)' = Tables(k) /\ Tables(k) \in Int
    BY <1>1 DEF Tables, IsTable, Present
  <2>2. \A op \in {"create", "drop"} : InHand(c, op, k) = 0 /\ InHand(call[s], op, k) = 0
    BY DEF InHand
  <2>3. balance[k] \in Int /\ balance'[k] = balance[k]
    BY <1>1, <1>2
  <2>4. QED
    BY <2>1, <2>2, <2>3 DEF Balanced
<1>4. QED
  BY <1>1, <1>2, <1>3, StepInv

LEMMA SendInv ==
  ASSUME IInv, NEW s \in Session, NEW request \in Requests, Send(s, request)
  PROVE  IInv'
<1> DEFINE c == [phase |-> "sent", request |-> request]
<1>1. c \in Calls /\ c.phase = "sent" /\ call[s].phase = "idle"
  BY DEF Calls, Send, Idle
<1>2. /\ call' = [call EXCEPT ![s] = c]
      /\ UNCHANGED <<setting, objects, ghosts>>
  BY DEF Send
<1> HIDE DEF c
<1>3. QED
  BY <1>1, <1>2, QuietInv DEF Counts, CreatesOnly

(* The server's answer, if it has changed nothing.                         *)
LEMMA AnswerInv ==
  ASSUME IInv, NEW s \in Session, call[s].phase \in {"sent", "creating"},
         NEW answer \in Answers, Answer(s, answer),
         answer.status # "Ok" \/ call[s].request.op \notin {"create", "drop"},
         UNCHANGED <<setting, objects, ghosts>>
  PROVE  IInv'
<1> DEFINE c == [phase |-> "answered", request |-> call[s].request, answer |-> answer]
<1>1. call[s].request \in Requests
  BY CallTypes DEF IInv
<1>2. c \in Calls
  BY <1>1 DEF Calls
<1>3. call' = [call EXCEPT ![s] = c]
  BY DEF Answer, IInv, TypeOK
<1>4. c.phase = "answered" /\ c.request = call[s].request /\ c.answer = answer
  OBVIOUS
<1> HIDE DEF c
<1>5. \A op \in {"create", "drop"} : \A k : ~Counts(c, op, k) /\ ~Counts(call[s], op, k)
  BY <1>4 DEF Counts
<1>6. CreatesOnly(c)
  BY <1>4 DEF CreatesOnly
<1>7. QED
  BY <1>2, <1>3, <1>5, <1>6, QuietInv

(* What an answer can hold.                                                *)
LEMMA AnswersAre ==
  ASSUME NEW status \in {"lost", "refused", "conflict", "unknown table",
                         Duplicate[flavour], Undefined[flavour], NotATable[flavour]}
  PROVE  Err(status) \in Answers /\ Err(status).status = status
  BY DEF Err, Answers

LEMMA ErrorsAreErrors ==
  ASSUME TypeOK
  PROVE  /\ flavour \in {"postgres", "mysql", "mssql", "sqlite", "duckdb"}
         /\ "Ok" \notin {Duplicate[flavour], Undefined[flavour], NotATable[flavour],
                      TableExists[flavour], TableNonexistent[flavour]}
<1>1. flavour \in {"postgres", "mysql", "mssql", "sqlite", "duckdb"}
  BY SchemaAssumption DEF TypeOK
<1>2. CASE flavour = "postgres"
  BY <1>2 DEF Duplicate, Undefined, NotATable, TableExists, TableNonexistent
<1>3. CASE flavour = "mysql"
  BY <1>3 DEF Duplicate, Undefined, NotATable, TableExists, TableNonexistent
<1>4. CASE flavour = "mssql"
  BY <1>4 DEF Duplicate, Undefined, NotATable, TableExists, TableNonexistent
<1>5. CASE flavour = "sqlite"
  BY <1>5 DEF Duplicate, Undefined, NotATable, TableExists, TableNonexistent
<1>6. CASE flavour = "duckdb"
  BY <1>6 DEF Duplicate, Undefined, NotATable, TableExists, TableNonexistent
<1>7. QED
  BY <1>1, <1>2, <1>3, <1>4, <1>5, <1>6

LEMMA ServerFindsDuplicateInv ==
  ASSUME IInv, NEW s \in Session, ServerFindsDuplicate(s)
  PROVE  IInv'
<1>1. /\ Err(Duplicate[flavour]) \in Answers
      /\ Err(Duplicate[flavour]).status # "Ok"
  BY AnswersAre, ErrorsAreErrors DEF IInv
<1>2. QED
  BY <1>1, AnswerInv DEF ServerFindsDuplicate, Sent

LEMMA ServerFindsNoTableInv ==
  ASSUME IInv, NEW s \in Session, ServerFindsNoTable(s)
  PROVE  IInv'
<1> DEFINE status == IF Present(Key(Named(s))) THEN NotATable[flavour] ELSE Undefined[flavour]
<1>1. status \in {Undefined[flavour], NotATable[flavour]}
  OBVIOUS
<1>2. call[s].phase = "sent" /\ Answer(s, Err(status)) /\ UNCHANGED <<setting, objects, ghosts>>
  BY DEF ServerFindsNoTable, Sent
<1> HIDE DEF status
<1>3. Err(status) \in Answers /\ Err(status).status # "Ok"
  BY <1>1, AnswersAre, ErrorsAreErrors DEF IInv
<1>4. QED
  BY <1>2, <1>3, AnswerInv

LEMMA ServerRefusesInv ==
  ASSUME IInv, NEW s \in Session, ServerRefuses(s)
  PROVE  IInv'
<1>1. Err("refused") \in Answers /\ Err("refused").status # "Ok"
  BY AnswersAre
<1>2. QED
  BY <1>1, AnswerInv DEF ServerRefuses

(* What is in the catalog has a name in use.                               *)
LEMMA ObjectTypes ==
  ASSUME TypeOK, NEW k, Present(k)
  PROVE  /\ k \in Keys
         /\ objects[k].kind \in {"table", "view"}
         /\ objects[k].name \in { Stored(name) : name \in names }
         /\ objects[k].schema \in Reported
<1>1. k \in Keys /\ objects[k] \in Objects /\ objects[k] # NoObject
  BY DEF TypeOK, Present
<1>2. objects[k] \in [kind : {"table", "view"}, name : { Stored(name) : name \in names },
                      schema : Schemas \cup {<<"Int64">>}]
  BY <1>1 DEF Objects
<1>3. QED
  BY <1>1, <1>2 DEF Reported

LEMMA ServerListsInv ==
  ASSUME IInv, NEW s \in Session, ServerLists(s)
  PROVE  IInv'
<1> DEFINE found == { objects[k].name : k \in { j \in DOMAIN objects : Listed(j) } }
<1>1. found \subseteq { Stored(name) : name \in names }
  <2>1. \A k \in DOMAIN objects : Listed(k) => Present(k)
    BY DEF Listed, IsTable
  <2>2. QED
    BY <2>1, ObjectTypes DEF IInv
<1>2. /\ call[s].phase = "sent" /\ call[s].request.op = "list"
      /\ Answer(s, Ok(found)) /\ UNCHANGED <<setting, objects, ghosts>>
  BY DEF ServerLists, Sent
<1> HIDE DEF found
<1>3. Ok(found) \in Answers
  BY <1>1 DEF Ok, Answers
<1>4. QED
  BY <1>2, <1>3, AnswerInv

LEMMA SchemasAreAnswers ==
  ASSUME NEW schema \in Reported
  PROVE  Ok({schema}) \in Answers
<1>1. {schema} \in { {reported} : reported \in Reported }
  OBVIOUS
<1>2. QED
  BY <1>1 DEF Ok, Answers

LEMMA ServerGetsInv ==
  ASSUME IInv, NEW s \in Session, ServerGets(s)
  PROVE  IInv'
<1> DEFINE k == Key(Sought(s))
<1>1. call[s].phase = "sent" /\ call[s].request.op = "get" /\ UNCHANGED <<setting, objects, ghosts>>
  BY DEF ServerGets, Sent
<1>2. CASE Present(k)
  <2>1. Answer(s, Ok({objects[k].schema}))
    BY <1>2 DEF ServerGets
  <2>2. objects[k].schema \in Reported
    BY <1>2, ObjectTypes DEF IInv
  <2> HIDE DEF k
  <2>3. Ok({objects[k].schema}) \in Answers
    BY <2>2, SchemasAreAnswers
  <2>4. QED
    BY <1>1, <2>1, <2>3, AnswerInv
<1>3. CASE ~Present(k) /\ flavour \in {"mysql", "duckdb"}
  <2>1. Answer(s, Err("unknown table"))
    BY <1>3 DEF ServerGets
  <2>2. Err("unknown table") \in Answers
    BY AnswersAre
  <2>3. QED
    BY <1>1, <2>1, <2>2, AnswerInv
<1>4. CASE ~Present(k) /\ flavour \notin {"mysql", "duckdb"}
  <2>1. Answer(s, Ok({<<>>}))
    BY <1>4 DEF ServerGets
  <2>2. Ok({<<>>}) \in Answers
    BY SchemasAreAnswers DEF Reported
  <2>3. QED
    BY <1>1, <2>1, <2>2, AnswerInv
<1>5. QED
  BY <1>2, <1>3, <1>4

LEMMA ServerBeginsCreateInv ==
  ASSUME IInv, NEW s \in Session, ServerBeginsCreate(s)
  PROVE  IInv'
<1> DEFINE c == [phase |-> "creating", request |-> call[s].request]
<1>1. /\ call[s].phase = "sent" /\ call[s].request.op = "create"
      /\ UNCHANGED <<setting, objects, ghosts>>
  BY DEF ServerBeginsCreate, Sent
<1>2. call[s].request \in Requests /\ call[s] = [phase |-> "sent", request |-> call[s].request]
  BY <1>1, CallTypes DEF IInv
<1>3. call' = [call EXCEPT ![s] = c]
  <2>1. [call[s] EXCEPT !.phase = "creating"] = c
    BY <1>2
  <2>2. call' = [call EXCEPT ![s] = [call[s] EXCEPT !.phase = "creating"]]
    BY DEF ServerBeginsCreate, IInv, TypeOK
  <2>3. QED
    BY <2>1, <2>2
<1>4. c \in Calls /\ c.phase = "creating" /\ c.request.op = "create"
  BY <1>1, <1>2 DEF Calls
<1> HIDE DEF c
<1>5. QED
  BY <1>1, <1>3, <1>4, QuietInv DEF Counts, CreatesOnly

(* An Ok of CREATE or DROP is answered together with its effect.           *)
LEMMA EffectInv ==
  ASSUME IInv, UNCHANGED <<setting, ghosts>>,
         NEW s \in Session, call[s].phase \in {"sent", "creating"},
         Answer(s, Ok({})),
         NEW op, op = call[s].request.op, op \in {"create", "drop"},
         NEW key, key = Key(call[s].request.name),
         IsTable(key) <=> op = "drop",
         NEW object \in Objects,
         object # NoObject /\ object.kind = "table" <=> op = "create",
         objects' = [objects EXCEPT ![key] = object]
  PROVE  IInv'
<1> DEFINE c == [phase |-> "answered", request |-> call[s].request, answer |-> Ok({})]
<1>1. call[s].request \in Requests /\ key \in Keys
  BY CallTypes, RequestTypes DEF IInv, Keys
<1>2. Ok({}) \in Answers /\ Ok({}).status = "Ok"
  BY DEF Ok, Answers
<1>3. c \in Calls /\ CreatesOnly(c) /\ call' = [call EXCEPT ![s] = c]
  BY <1>1, <1>2 DEF Calls, CreatesOnly, Answer, IInv, TypeOK
<1>4. \A o, k : Counts(c, o, k) <=> o = op /\ k = key
  BY <1>2 DEF Counts
<1>5. \A o, k : ~Counts(call[s], o, k)
  BY DEF Counts
<1> HIDE DEF c
<1>6. objects' \in [Keys -> Objects]
  BY <1>1 DEF IInv, TypeOK
<1>7. balance' = balance /\ balance \in [Keys -> Int]
      /\ uncertain \subseteq uncertain' /\ uncertain' \subseteq Keys /\ UNCHANGED setting
  BY DEF ghosts, IInv, TypeOK
<1>8. ASSUME NEW k \in Keys PROVE Balanced(s, c, k)
  <2>1. /\ InHand(call[s], "create", k) = 0 /\ InHand(call[s], "drop", k) = 0
        /\ InHand(c, "create", k) = IF op = "create" /\ k = key THEN 1 ELSE 0
        /\ InHand(c, "drop", k) = IF op = "drop" /\ k = key THEN 1 ELSE 0
    BY <1>4, <1>5 DEF InHand
  <2>2. balance'[k] = balance[k] /\ balance[k] \in Int
    BY <1>7
  <2>3. k # key => Tables(k)' = Tables(k)
    BY <1>1 DEF Tables, IsTable, Present, IInv, TypeOK
  <2>4. Tables(key) = IF op = "drop" THEN 1 ELSE 0
    BY DEF Tables
  <2>5. Tables(key)' = IF op = "create" THEN 1 ELSE 0
    <3>1. objects'[key] = object /\ key \in DOMAIN objects'
      BY <1>1, <1>6 DEF IInv, TypeOK
    <3>2. QED
      BY <3>1 DEF Tables, IsTable, Present
  <2>6. Tables(k) \in Int
    BY DEF Tables
  <2>7. CASE k = key
    BY <2>1, <2>2, <2>4, <2>5, <2>7 DEF Balanced
  <2>8. CASE k # key
    BY <2>1, <2>2, <2>3, <2>6, <2>8 DEF Balanced
  <2>9. QED
    BY <2>7, <2>8
<1>9. QED
  BY <1>3, <1>6, <1>7, <1>8, StepInv

(* Where the table is made, its name was free.                             *)
LEMMA MadeTables ==
  ASSUME TypeOK, NEW s \in Session,
         call[s].phase \in {"sent", "creating"}, call[s].request.op = "create",
         Free(s), MakeTable(s)
  PROVE  LET request == call[s].request
             key == Key(request.name)
             object == Object("table", Stored(request.name), request.schema)
         IN /\ request.name \in names /\ key \in Keys /\ request.schema \in Schemas
            /\ ~Present(key)
            /\ object \in Objects /\ object.kind = "table" /\ object # NoObject
            /\ objects' = [objects EXCEPT ![key] = object]
            /\ Answer(s, Ok({}))
<1> DEFINE request == call[s].request
           key == Key(request.name)
           object == Object("table", Stored(request.name), request.schema)
<1>1. request.name \in names /\ request.schema \in Schemas /\ key \in Keys
  BY CallTypes, RequestTypes DEF Keys
<1>2. Named(s) = request.name
  BY <1>1, NamedIsRequested DEF Free
<1>3. object \in Objects /\ object.kind = "table" /\ object # NoObject
  BY <1>1 DEF Objects, Object, NoObject
<1>4. objects' = [k \in DOMAIN objects \cup {key} |-> IF k = key THEN object ELSE objects[k]]
  BY <1>2 DEF MakeTable
<1>5. objects' = [objects EXCEPT ![key] = object]
  <2> HIDE DEF object, key
  <2>1. DOMAIN objects = Keys
    BY DEF TypeOK
  <2>2. QED
    BY <1>1, <1>4, <2>1
<1>6. ~Present(key)
  BY <1>2 DEF Free
<1>7. QED
  BY <1>1, <1>3, <1>5, <1>6 DEF MakeTable

LEMMA MakeTableInv ==
  ASSUME IInv, NEW s \in Session,
         call[s].phase \in {"sent", "creating"}, call[s].request.op = "create",
         Free(s), MakeTable(s), UNCHANGED <<setting, ghosts>>
  PROVE  IInv'
<1> DEFINE key == Key(call[s].request.name)
           object == Object("table", Stored(call[s].request.name), call[s].request.schema)
<1>1. /\ ~Present(key)
      /\ object \in Objects /\ object.kind = "table" /\ object # NoObject
      /\ objects' = [objects EXCEPT ![key] = object]
      /\ Answer(s, Ok({}))
  BY MadeTables DEF IInv
<1>2. ~IsTable(key)
  BY <1>1 DEF IsTable
<1> HIDE DEF object
<1>3. QED
  BY <1>1, <1>2, EffectInv

LEMMA ServerCreatesInv ==
  ASSUME IInv, NEW s \in Session, ServerCreates(s)
  PROVE  IInv'
  BY MakeTableInv DEF ServerCreates, Sent

LEMMA ServerEndsCreateInv ==
  ASSUME IInv, NEW s \in Session, ServerEndsCreate(s)
  PROVE  IInv'
<1>1. call[s].phase = "creating" /\ call[s].request.op = "create" /\ UNCHANGED <<setting, ghosts>>
  BY DEF ServerEndsCreate, IInv, CreatingInv, CreatesOnly
<1>2. CASE Free(s)
  BY <1>1, <1>2, MakeTableInv DEF ServerEndsCreate
<1>3. CASE ~Free(s)
  <2>1. Answer(s, Err("conflict")) /\ UNCHANGED <<setting, objects, ghosts>>
    BY <1>3 DEF ServerEndsCreate
  <2>2. Err("conflict") \in Answers /\ Err("conflict").status # "Ok"
    BY AnswersAre
  <2>3. QED
    BY <1>1, <2>1, <2>2, AnswerInv
<1>4. QED
  BY <1>2, <1>3

LEMMA ServerDropsInv ==
  ASSUME IInv, NEW s \in Session, ServerDrops(s)
  PROVE  IInv'
<1> DEFINE key == Key(call[s].request.name)
<1>1. call[s].phase = "sent" /\ call[s].request.op = "drop"
  BY DEF ServerDrops, Sent
<1>2. call[s].request.name \in names
  BY <1>1, CallTypes, RequestTypes DEF IInv
<1>3. key \in Keys
  BY <1>2 DEF Keys
<1>4. Named(s) = call[s].request.name
  BY <1>2, NamedIsRequested DEF ServerDrops, IInv
<1>5. /\ IsTable(key) /\ objects' = [objects EXCEPT ![key] = NoObject]
      /\ Answer(s, Ok({})) /\ UNCHANGED <<setting, ghosts>>
  BY <1>4 DEF ServerDrops
<1>6. NoObject \in Objects /\ NoObject.kind # "table"
  BY DEF Objects, NoObject
<1> HIDE DEF key
<1>7. key = Key(call[s].request.name)
  BY DEF key
<1>8. QED
  BY <1>1, <1>5, <1>6, <1>7, EffectInv

(* The effect of an answer that is lost counts no more, and nothing is     *)
(* claimed of its key.                                                     *)
LEMMA AnswerIsLostInv ==
  ASSUME IInv, NEW s \in Session, AnswerIsLost(s)
  PROVE  IInv'
<1> DEFINE c == [phase |-> "answered", request |-> call[s].request, answer |-> Err("lost")]
<1>1. /\ call[s].phase = "answered" /\ Answer(s, Err("lost"))
      /\ UNCHANGED setting /\ objects' = objects
  BY DEF AnswerIsLost
<1>2. call[s].request \in Requests
  BY <1>1, CallTypes DEF IInv
<1>3. Err("lost") \in Answers /\ Err("lost").status # "Ok"
  BY AnswersAre
<1>4. c \in Calls /\ CreatesOnly(c) /\ call' = [call EXCEPT ![s] = c]
  BY <1>1, <1>2, <1>3 DEF Calls, CreatesOnly, Answer, IInv, TypeOK
<1>5. \A o, k : ~Counts(c, o, k)
  BY <1>3 DEF Counts
<1>6. objects' \in [Keys -> Objects]
  BY <1>1 DEF IInv, TypeOK
<1>7. \A k \in Keys : Tables(k)' = Tables(k) /\ Tables(k) \in Int
  BY <1>1 DEF Tables, IsTable, Present
<1> HIDE DEF c
<1>8. CASE Edits(s)
  <2> DEFINE key == Key(call[s].request.name)
  <2>1. key \in Keys
    BY <1>2, <1>8, RequestTypes DEF Edits, Keys
  <2>2. Counts(call[s], "create", key) \/ Counts(call[s], "drop", key) \/ call[s].answer.status # "Ok"
    BY <1>1, <1>8 DEF Counts, Edits
  <2>3. \A o, k : Counts(call[s], o, k) => k = key
    BY DEF Counts
  <2>4. uncertain' = uncertain \cup {key} /\ balance' = [balance EXCEPT ![key] = 0]
    BY <1>8 DEF AnswerIsLost
  <2> HIDE DEF key
  <2>5. balance' \in [Keys -> Int] /\ uncertain \subseteq uncertain' /\ uncertain' \subseteq Keys
    BY <2>1, <2>4 DEF IInv, TypeOK
  <2>6. ASSUME NEW k \in Keys \ uncertain' PROVE Balanced(s, c, k)
    <3>1. k # key /\ balance'[k] = balance[k] /\ balance[k] \in Int
      BY <2>4 DEF IInv, TypeOK
    <3>2. \A o : InHand(c, o, k) = 0 /\ InHand(call[s], o, k) = 0
      BY <1>5, <2>3, <3>1 DEF InHand
    <3>3. QED
      BY <1>7, <3>1, <3>2 DEF Balanced
  <2>7. QED
    BY <1>1, <1>4, <1>6, <2>5, <2>6, StepInv
<1>9. CASE ~Edits(s)
  <2>1. UNCHANGED <<setting, objects, ghosts>>
    BY <1>1, <1>9 DEF AnswerIsLost
  <2>2. \A op \in {"create", "drop"} : \A k : ~Counts(c, op, k) /\ ~Counts(call[s], op, k)
    BY <1>5, <1>9 DEF Counts, Edits
  <2>3. QED
    BY <1>4, <2>1, <2>2, QuietInv
<1>10. QED
  BY <1>8, <1>9

(* table_create and table_drop return Ok for the server's Ok and for no    *)
(* other answer.                                                           *)
LEMMA OkIsOk ==
  ASSUME TypeOK, NEW s \in Session, Edits(s)
  PROVE  Result(s).status = "Ok" <=> call[s].answer.status = "Ok"
<1> DEFINE answer == call[s].answer
<1>1. Ok({}).status = "Ok"
  BY DEF Ok
<1>2. \A code \in {"TableExists", "TableNonexistent", "Error"} : Err(code).status # "Ok"
  BY DEF Err
<1> HIDE DEF answer
<1>3. CreateResult(answer).status = "Ok" <=> answer.status = "Ok"
  <2>1. CASE answer.status = "Ok"
    BY <1>1, <2>1, ErrorsAreErrors DEF CreateResult
  <2>2. CASE answer.status # "Ok"
    <3>1. CreateResult(answer) \in {Err("TableExists"), Err("Error")}
      BY <2>2, Zenon DEF CreateResult
    <3>2. QED
      BY <1>2, <2>2, <3>1
  <2>3. QED
    BY <2>1, <2>2
<1>4. DropResult(answer).status = "Ok" <=> answer.status = "Ok"
  <2>1. CASE answer.status = "Ok"
    BY <1>1, <2>1, ErrorsAreErrors DEF DropResult
  <2>2. CASE answer.status # "Ok"
    <3>1. DropResult(answer) \in {Err("TableNonexistent"), Err("Error")}
      BY <2>2, Zenon DEF DropResult
    <3>2. QED
      BY <1>2, <2>2, <3>1
  <2>3. QED
    BY <2>1, <2>2
<1>5. Result(s) \in {CreateResult(answer), DropResult(answer)}
  BY DEF Result, ResultOf, Edits, answer
<1>6. QED
  BY <1>3, <1>4, <1>5 DEF answer

LEMMA ReturnInv ==
  ASSUME IInv, NEW s \in Session, Return(s)
  PROVE  IInv'
<1>1. /\ call[s].phase = "answered" /\ call' = [call EXCEPT ![s] = Idle]
      /\ UNCHANGED setting /\ objects' = objects /\ uncertain' = uncertain
  BY DEF Return
<1>2. Idle \in Calls /\ CreatesOnly(Idle) /\ \A o, k : ~Counts(Idle, o, k)
  BY DEF Calls, Idle, CreatesOnly, Counts
<1>3. objects' \in [Keys -> Objects] /\ uncertain' \subseteq Keys /\ balance \in [Keys -> Int]
  BY <1>1 DEF IInv, TypeOK
<1>4. \A k \in Keys : Tables(k)' = Tables(k) /\ Tables(k) \in Int
  BY <1>1 DEF Tables, IsTable, Present
<1> DEFINE key == Key(call[s].request.name)
           op == call[s].request.op
<1>5. CASE Edits(s) /\ Result(s).status = "Ok"
  <2>1. \A o, k : Counts(call[s], o, k) <=> o = op /\ k = key
    BY <1>1, <1>5, OkIsOk DEF Counts, IInv
  <2>2. op \in {"create", "drop"} /\ key \in Keys
    BY <1>1, <1>5, CallTypes, RequestTypes DEF Edits, Keys, IInv
  <2>3. \/ key \in uncertain /\ balance' = balance
        \/ balance' = [balance EXCEPT ![key] = IF op = "create" THEN @ + 1 ELSE @ - 1]
    BY <1>5 DEF Return
  <2> HIDE DEF key, op
  <2>4. balance' \in [Keys -> Int]
    BY <1>3, <2>2, <2>3
  <2>5. ASSUME NEW k \in Keys \ uncertain' PROVE Balanced(s, Idle, k)
    <3>1. \A o : /\ InHand(Idle, o, k) = 0
                 /\ InHand(call[s], o, k) = IF o = op /\ k = key THEN 1 ELSE 0
      BY <1>2, <2>1 DEF InHand
    <3>2. balance[k] \in Int /\ balance'[k] - balance[k] =
            IF k = key THEN (IF op = "create" THEN 1 ELSE 0 - 1) ELSE 0
      BY <1>1, <1>3, <2>2, <2>3
    <3>3. Tables(k)' - Tables(k) = 0
      BY <1>4
    <3>4. QED
      BY <2>2, <3>1, <3>2, <3>3 DEF Balanced
  <2>6. QED
    BY <1>1, <1>2, <1>3, <2>4, <2>5, StepInv
<1>6. CASE ~(Edits(s) /\ Result(s).status = "Ok")
  <2>1. UNCHANGED <<setting, objects, ghosts>>
    BY <1>1, <1>6 DEF Return, ghosts
  <2>2. \A o \in {"create", "drop"} : \A k : ~Counts(Idle, o, k) /\ ~Counts(call[s], o, k)
    BY <1>2, <1>6, OkIsOk DEF Counts, Edits, IInv
  <2>3. QED
    BY <1>1, <1>2, <2>1, <2>2, QuietInv
<1>7. QED
  BY <1>5, <1>6

LEMMA NextInv == IInv /\ [Next]_vars => IInv'
<1> SUFFICES ASSUME IInv, [Next]_vars PROVE IInv'
  OBVIOUS
<1>1. CASE UNCHANGED vars
  <2>1. UNCHANGED setting /\ UNCHANGED <<objects, call, balance, uncertain>>
    BY <1>1 DEF vars, setting
  <2>2. TypeOK' /\ CreatingInv'
    BY <2>1, SettingKept DEF IInv, TypeOK, CreatingInv, CreatesOnly
  <2>3. \A op, k : Effected(op, k)' = Effected(op, k)
    BY <2>1, SettingKept DEF Effected, Counts
  <2>4. \A k : Tables(k)' = Tables(k)
    BY <2>1 DEF Tables, IsTable, Present
  <2>5. BalanceInv'
    BY <2>1, <2>3, <2>4, SettingKept DEF IInv, BalanceInv, Known
  <2>6. QED
    BY <2>2, <2>5 DEF IInv
<1>2. ASSUME NEW s \in Session, NEW request \in Requests, Send(s, request) PROVE IInv'
  BY <1>2, SendInv
<1>3. ASSUME NEW s \in Session,
             \/ ServerCreates(s) \/ ServerBeginsCreate(s) \/ ServerEndsCreate(s)
             \/ ServerFindsDuplicate(s) \/ ServerDrops(s) \/ ServerFindsNoTable(s)
             \/ ServerLists(s) \/ ServerGets(s) \/ ServerRefuses(s)
             \/ AnswerIsLost(s) \/ Return(s)
      PROVE  IInv'
  BY <1>3, ServerCreatesInv, ServerBeginsCreateInv, ServerEndsCreateInv,
     ServerFindsDuplicateInv, ServerDropsInv, ServerFindsNoTableInv, ServerListsInv,
     ServerGetsInv, ServerRefusesInv, AnswerIsLostInv, ReturnInv
<1>4. QED
  BY <1>1, <1>2, <1>3 DEF Next

-----------------------------------------------------------------------------
(* What the sessions know of a name accounts for its table in every state, *)
(* once the effects whose Ok is on its way are counted.                    *)
THEOREM Invariance == Spec => []IInv
<1>1. Init => IInv
  BY InitInv
<1>2. IInv /\ [Next]_vars => IInv'
  BY NextInv
<1>3. QED
  BY <1>1, <1>2, PTL DEF Spec

(* The catalog holds only names in use, though what the server takes for a *)
(* name comes back from the text of a statement.                           *)
THEOREM TypeCorrect == Spec => []TypeOK
<1>1. IInv => TypeOK
  BY DEF IInv
<1>2. QED
  BY <1>1, Invariance, PTL

(* Once every call has returned, the tables are those that the results     *)
(* account for, whatever the order of the sessions' statements.            *)
THEOREM ResultsAccountForTables == Spec => []OkAccountsForTables
<1>1. IInv => OkAccountsForTables
  <2> SUFFICES ASSUME IInv, \A s \in Session : call[s] = Idle, NEW k \in Keys \ uncertain
               PROVE  balance[k] = IF IsTable(k) THEN 1 ELSE 0
    BY DEF OkAccountsForTables
  <2>1. \A op : Effected(op, k) = {}
    BY DEF Effected, Counts, Idle
  <2>2. balance[k] \in Int
    BY DEF IInv, TypeOK
  <2>3. Known(k) = Tables(k)
    BY DEF IInv, BalanceInv
  <2>4. Cardinality(Effected("create", k)) = 0 /\ Cardinality(Effected("drop", k)) = 0
    BY <2>1, FS_EmptySet
  <2>5. QED
    BY <2>2, <2>3, <2>4 DEF Known, Tables
<1>2. QED
  BY <1>1, Invariance, PTL

-----------------------------------------------------------------------------
(* The calls as the abstract catalog has them.                             *)
ViewOf(c) ==
  CASE c.phase = "idle"     -> Idle
    [] c.phase = "answered" -> [phase |-> "done", request |-> c.request,
                                result |-> ResultOf(c.request, c.answer)]
    [] OTHER -> [phase |-> "called", request |-> c.request]

Views == [s \in Session |-> View(s)]

LEMMA ViewsChange ==
  ASSUME TypeOK, UNCHANGED setting,
         NEW s \in Session, NEW c, call' = [call EXCEPT ![s] = c]
  PROVE  /\ Views' = [Views EXCEPT ![s] = ViewOf(c)]
         /\ UNCHANGED Sessions!naming
<1>1. call'[s] = c /\ \A t \in Session : t # s => call'[t] = call[t]
  BY DEF TypeOK
<1>2. \A request, answer : ResultOf(request, answer)' = ResultOf(request, answer)
  BY SettingKept DEF ResultOf, CreateResult, DropResult, ReadResult
<1>3. \A t \in Session : View(t) = ViewOf(call[t])
  BY DEF View, ViewOf, Result
<1>4. \A t \in Session : View(t)' = ViewOf(call'[t])
  BY <1>2 DEF View, ViewOf, Result
<1>5. Views' = [t \in Session |-> ViewOf(call'[t])] /\ Views = [t \in Session |-> ViewOf(call[t])]
  BY <1>3, <1>4 DEF Views
<1> HIDE DEF ViewOf
<1>6. Views' = [Views EXCEPT ![s] = ViewOf(c)]
  BY <1>1, <1>5
<1>7. UNCHANGED Sessions!naming
  BY SettingKept DEF Sessions!naming
<1>8. QED
  BY <1>6, <1>7

(* A server's answer, seen from outside, is the call's effect and result.  *)
LEMMA AnswersAreDone ==
  ASSUME TypeOK, UNCHANGED setting,
         NEW s \in Session, call[s].phase \in {"sent", "creating"},
         NEW answer, Answer(s, answer)
  PROVE  /\ Views[s] = [phase |-> "called", request |-> call[s].request]
         /\ Views' = [Views EXCEPT ![s] =
                        [phase |-> "done", request |-> call[s].request,
                         result |-> ResultOf(call[s].request, answer)]]
         /\ UNCHANGED Sessions!naming
<1> DEFINE c == [phase |-> "answered", request |-> call[s].request, answer |-> answer]
<1>1. call' = [call EXCEPT ![s] = c]
  BY DEF Answer, TypeOK
<1>2. ViewOf(c) = [phase |-> "done", request |-> call[s].request,
                   result |-> ResultOf(call[s].request, answer)]
  BY DEF ViewOf
<1>3. Views[s] = [phase |-> "called", request |-> call[s].request]
  BY DEF Views, View
<1> HIDE DEF c
<1>4. Views' = [Views EXCEPT ![s] = ViewOf(c)] /\ UNCHANGED Sessions!naming
  BY <1>1, ViewsChange
<1>5. QED
  BY <1>2, <1>3, <1>4

LEMMA ResultStep ==
  ASSUME NEW s \in Session, NEW request, NEW op, request.op = op,
         Views[s] = [phase |-> "called", request |-> request],
         NEW status, NEW value,
         Views' = [Views EXCEPT ![s] =
                    [phase |-> "done", request |-> request,
                     result |-> [status |-> status, value |-> value]]]
  PROVE  /\ Sessions!Result(s, op, status, value)
         /\ [t \in Session |-> View(t)][s].request = request
<1>1. [t \in Session |-> View(t)] = Views /\ [t \in Session |-> View(t)]' = Views'
  BY DEF Views
<1>2. Views[s].phase = "called" /\ Views[s].request = request
  OBVIOUS
<1>3. Views' = [Views EXCEPT ![s] =
                 Sessions!Done(Views[s].request, [status |-> status, value |-> value])]
  BY <1>2 DEF Sessions!Done
<1>4. QED
  BY <1>1, <1>2, <1>3 DEF Sessions!Result

(* An answer that is no success, nor the one error the call looks for, is  *)
(* the error of a call that failed.                                        *)
LEMMA FailedStep ==
  ASSUME TypeOK, UNCHANGED <<setting, objects>>,
         NEW s \in Session, call[s].phase \in {"sent", "creating"},
         NEW answer, Answer(s, answer),
         ResultOf(call[s].request, answer) = Err("Error")
  PROVE  Sessions!Next
<1>1. /\ Views[s] = [phase |-> "called", request |-> call[s].request]
      /\ Views' = [Views EXCEPT ![s] =
                     [phase |-> "done", request |-> call[s].request, result |-> Err("Error")]]
      /\ UNCHANGED Sessions!naming
  BY AnswersAreDone
<1>2. Err("Error") = Sessions!Failure
  BY DEF Err, Sessions!Failure
<1>3. Views[s].phase = "called" /\ Views[s].request = call[s].request
  BY <1>1
<1>4. Views' = [Views EXCEPT ![s] = Sessions!Done(Views[s].request, Sessions!Failure)]
  BY <1>1, <1>2, <1>3 DEF Sessions!Done
<1>5. Sessions!Failed(s)
  BY <1>3, <1>4 DEF Sessions!Failed, Views
<1>6. QED
  BY <1>1, <1>5 DEF Sessions!Next

(* None of these is an error a call looks for.                             *)
LEMMA OtherErrors ==
  ASSUME TypeOK, NEW request, NEW code \in {"lost", "refused", "conflict", "unknown table"}
  PROVE  ResultOf(request, Err(code)) = Err("Error")
<1>1. Err(code).status = code /\ code # "Ok"
  BY DEF Err
<1>2. flavour \in {"postgres", "mysql", "mssql", "sqlite", "duckdb"}
  BY ErrorsAreErrors
<1>3. code \notin {TableExists[flavour], TableNonexistent[flavour]}
  <2>1. CASE flavour = "postgres"
    BY <2>1 DEF TableExists, TableNonexistent
  <2>2. CASE flavour = "mysql"
    BY <2>2 DEF TableExists, TableNonexistent
  <2>3. CASE flavour = "mssql"
    BY <2>3 DEF TableExists, TableNonexistent
  <2>4. CASE flavour = "sqlite"
    BY <2>4 DEF TableExists, TableNonexistent
  <2>5. CASE flavour = "duckdb"
    BY <2>5 DEF TableExists, TableNonexistent
  <2>6. QED
    BY <1>2, <2>1, <2>2, <2>3, <2>4, <2>5
<1>4. /\ CreateResult(Err(code)) = Err("Error")
      /\ DropResult(Err(code)) = Err("Error")
      /\ ReadResult(Err(code)) = Err("Error")
  BY <1>1, <1>3 DEF CreateResult, DropResult, ReadResult
<1>5. QED
  BY <1>4 DEF ResultOf

LEMMA SendStep ==
  ASSUME IInv, NEW s \in Session, NEW request \in Requests, Send(s, request)
  PROVE  Sessions!Next
<1> DEFINE c == [phase |-> "sent", request |-> request]
<1>1. call' = [call EXCEPT ![s] = c] /\ UNCHANGED <<setting, objects>> /\ call[s] = Idle
  BY DEF Send
<1>2. ViewOf(c) = Sessions!Called(request)
  BY DEF ViewOf, Sessions!Called
<1>3. Views[s] = Sessions!Idle
  BY <1>1 DEF Views, View, Idle, Sessions!Idle
<1> HIDE DEF c
<1>4. Views' = [Views EXCEPT ![s] = Sessions!Called(request)] /\ UNCHANGED Sessions!naming
  BY <1>1, <1>2, ViewsChange DEF IInv
<1>5. Sessions!Call(s, request)
  BY <1>1, <1>3, <1>4 DEF Sessions!Call, Views
<1>6. request \in Sessions!Requests
  BY DEF Requests, Sessions!Requests, Reported
<1>7. QED
  BY <1>4, <1>5, <1>6 DEF Sessions!Next

LEMMA MakeTableStep ==
  ASSUME IInv, UNCHANGED setting, NEW s \in Session,
         call[s].phase \in {"sent", "creating"}, call[s].request.op = "create",
         Free(s), MakeTable(s)
  PROVE  Sessions!Next
<1> DEFINE request == call[s].request
           key == Key(request.name)
           object == Object("table", Stored(request.name), request.schema)
<1>1. /\ request.name \in names /\ key \in Keys /\ ~Present(key)
      /\ objects' = [objects EXCEPT ![key] = object]
      /\ Answer(s, Ok({}))
  BY MadeTables DEF IInv
<1>2. ResultOf(request, Ok({})) = [status |-> "Ok", value |-> {}]
  BY ErrorsAreErrors DEF ResultOf, CreateResult, Ok, IInv
<1>3. /\ Views[s] = [phase |-> "called", request |-> request]
      /\ Views' = [Views EXCEPT ![s] =
                     [phase |-> "done", request |-> request,
                      result |-> ResultOf(request, Ok({}))]]
      /\ UNCHANGED Sessions!naming
  BY <1>1, AnswersAreDone DEF IInv
<1>4. /\ Sessions!Result(s, "create", "Ok", {})
      /\ [t \in Session |-> View(t)][s].request = request
  BY <1>2, <1>3, ResultStep
<1>5. /\ [name \in names |-> Key(name)][request.name] = key
      /\ [name \in names |-> Stored(name)][request.name] = Stored(request.name)
  BY <1>1
<1>6. ~Sessions!Present(key)
  BY <1>1 DEF Present, Sessions!Present, IInv, TypeOK
<1>7. object = [kind |-> "table", name |-> Stored(request.name), schema |-> request.schema]
  BY DEF Object
<1> HIDE DEF request, key, object
<1>8. Sessions!Created(s)
  BY <1>1, <1>4, <1>5, <1>6, <1>7 DEF Sessions!Created
<1>9. QED
  BY <1>3, <1>8 DEF Sessions!Next

LEMMA ServerEndsCreateStep ==
  ASSUME IInv, NEW s \in Session, ServerEndsCreate(s)
  PROVE  Sessions!Next
<1>1. call[s].phase = "creating" /\ call[s].request.op = "create" /\ UNCHANGED setting
  BY DEF ServerEndsCreate, IInv, CreatingInv, CreatesOnly
<1>2. CASE Free(s)
  BY <1>1, <1>2, MakeTableStep DEF ServerEndsCreate
<1>3. CASE ~Free(s)
  <2>1. Answer(s, Err("conflict")) /\ UNCHANGED objects
    BY <1>3 DEF ServerEndsCreate
  <2>2. QED
    BY <1>1, <2>1, OtherErrors, FailedStep DEF IInv
<1>4. QED
  BY <1>2, <1>3

LEMMA ServerBeginsCreateStep ==
  ASSUME IInv, NEW s \in Session, ServerBeginsCreate(s)
  PROVE  UNCHANGED Sessions!vars
<1> DEFINE c == [phase |-> "creating", request |-> call[s].request]
<1>1. call[s].phase = "sent" /\ UNCHANGED <<setting, objects>>
  BY DEF ServerBeginsCreate, Sent
<1>2. call[s] = [phase |-> "sent", request |-> call[s].request]
  BY <1>1, CallTypes DEF IInv
<1>3. call' = [call EXCEPT ![s] = c]
  <2>1. [call[s] EXCEPT !.phase = "creating"] = c
    BY <1>2
  <2>2. call' = [call EXCEPT ![s] = [call[s] EXCEPT !.phase = "creating"]]
    BY DEF ServerBeginsCreate, IInv, TypeOK
  <2>3. QED
    BY <2>1, <2>2
<1>4. ViewOf(c) = View(s)
  BY <1>1 DEF ViewOf, View
<1> HIDE DEF c
<1>5. Views' = [Views EXCEPT ![s] = View(s)] /\ UNCHANGED Sessions!naming
  BY <1>1, <1>3, <1>4, ViewsChange DEF IInv
<1>6. Views' = Views
  BY <1>5 DEF Views
<1>7. QED
  BY <1>1, <1>5, <1>6 DEF Sessions!vars, Views

LEMMA ServerFindsDuplicateStep ==
  ASSUME IInv, NEW s \in Session, ServerFindsDuplicate(s)
  PROVE  Sessions!Next
<1> DEFINE request == call[s].request
           key == Key(request.name)
<1>1. /\ call[s].phase = "sent" /\ request.op = "create"
      /\ Answer(s, Err(Duplicate[flavour])) /\ UNCHANGED <<setting, objects>>
  BY DEF ServerFindsDuplicate, Sent
<1>2. request.name \in names
  BY <1>1, CallTypes, RequestTypes DEF IInv
<1>3. Named(s) = request.name
  BY <1>2, NamedIsRequested DEF ServerFindsDuplicate, IInv
<1>4. Present(key)
  BY <1>3 DEF ServerFindsDuplicate
<1>5. Duplicate[flavour] = TableExists[flavour] /\ Duplicate[flavour] # "Ok"
  BY ErrorsAreErrors DEF Duplicate, TableExists, IInv
<1>6. ResultOf(request, Err(Duplicate[flavour])) = [status |-> "TableExists", value |-> {}]
  BY <1>1, <1>5 DEF ResultOf, CreateResult, Err
<1>7. /\ Views[s] = [phase |-> "called", request |-> request]
      /\ Views' = [Views EXCEPT ![s] =
                     [phase |-> "done", request |-> request,
                      result |-> ResultOf(request, Err(Duplicate[flavour]))]]
      /\ UNCHANGED Sessions!naming
  BY <1>1, AnswersAreDone DEF IInv
<1>8. /\ Sessions!Result(s, "create", "TableExists", {})
      /\ [t \in Session |-> View(t)][s].request = request
  BY <1>1, <1>6, <1>7, ResultStep
<1>9. [name \in names |-> Key(name)][request.name] = key /\ Sessions!Present(key)
  BY <1>2, <1>4 DEF Present, Sessions!Present
<1> HIDE DEF request, key
<1>10. Sessions!Exists(s)
  BY <1>1, <1>8, <1>9 DEF Sessions!Exists
<1>11. QED
  BY <1>7, <1>10 DEF Sessions!Next

LEMMA ServerDropsStep ==
  ASSUME IInv, NEW s \in Session, ServerDrops(s)
  PROVE  Sessions!Next
<1> DEFINE request == call[s].request
           key == Key(request.name)
<1>1. /\ call[s].phase = "sent" /\ request.op = "drop" /\ UNCHANGED setting
      /\ Answer(s, Ok({}))
  BY DEF ServerDrops, Sent
<1>2. request.name \in names
  BY <1>1, CallTypes, RequestTypes DEF IInv
<1>3. Named(s) = request.name
  BY <1>2, NamedIsRequested DEF ServerDrops, IInv
<1>4. IsTable(key) /\ objects' = [objects EXCEPT ![key] = NoObject]
  BY <1>3 DEF ServerDrops
<1>5. ResultOf(request, Ok({})) = [status |-> "Ok", value |-> {}]
  BY <1>1, ErrorsAreErrors DEF ResultOf, DropResult, Ok, IInv
<1>6. /\ Views[s] = [phase |-> "called", request |-> request]
      /\ Views' = [Views EXCEPT ![s] =
                     [phase |-> "done", request |-> request,
                      result |-> ResultOf(request, Ok({}))]]
      /\ UNCHANGED Sessions!naming
  BY <1>1, AnswersAreDone DEF IInv
<1>7. /\ Sessions!Result(s, "drop", "Ok", {})
      /\ [t \in Session |-> View(t)][s].request = request
  BY <1>1, <1>5, <1>6, ResultStep
<1>8. [name \in names |-> Key(name)][request.name] = key /\ Sessions!IsTable(key)
  BY <1>2, <1>4 DEF IsTable, Present, Sessions!IsTable, Sessions!Present
<1> HIDE DEF request, key
<1>9. Sessions!Dropped(s)
  BY <1>4, <1>7, <1>8 DEF Sessions!Dropped
<1>10. QED
  BY <1>6, <1>9 DEF Sessions!Next

LEMMA ServerFindsNoTableStep ==
  ASSUME IInv, NEW s \in Session, ServerFindsNoTable(s)
  PROVE  Sessions!Next
<1> DEFINE request == call[s].request
           key == Key(request.name)
           status == IF Present(key) THEN NotATable[flavour] ELSE Undefined[flavour]
<1>1. /\ call[s].phase = "sent" /\ request.op = "drop" /\ UNCHANGED <<setting, objects>>
  BY DEF ServerFindsNoTable, Sent
<1>2. request.name \in names
  BY <1>1, CallTypes, RequestTypes DEF IInv
<1>3. Named(s) = request.name
  BY <1>2, NamedIsRequested DEF ServerFindsNoTable, IInv
<1>4. ~IsTable(key) /\ Answer(s, Err(status))
  BY <1>3 DEF ServerFindsNoTable
<1>5. status # "Ok" /\ Err(status).status = status
  BY ErrorsAreErrors DEF IInv, Err
<1> HIDE DEF status
<1>6. CASE status = TableNonexistent[flavour]
  <2>1. ResultOf(request, Err(status)) = [status |-> "TableNonexistent", value |-> {}]
    <3>1. DropResult(Err(status)) = Err("TableNonexistent")
      BY <1>5, <1>6 DEF DropResult
    <3>2. QED
      BY <1>1, <3>1 DEF ResultOf, Err
  <2>2. /\ Views[s] = [phase |-> "called", request |-> request]
        /\ Views' = [Views EXCEPT ![s] =
                       [phase |-> "done", request |-> request,
                        result |-> ResultOf(request, Err(status))]]
        /\ UNCHANGED Sessions!naming
    BY <1>1, <1>4, AnswersAreDone DEF IInv
  <2>3. /\ Sessions!Result(s, "drop", "TableNonexistent", {})
        /\ [t \in Session |-> View(t)][s].request = request
    BY <1>1, <2>1, <2>2, ResultStep
  <2>4. key \in DOMAIN objects
    BY <1>2 DEF Keys, IInv, TypeOK
  <2>5. [name \in names |-> Key(name)][request.name] = key /\ ~Sessions!IsTable(key)
    BY <1>2, <1>4, <2>4 DEF IsTable, Present, Sessions!IsTable, Sessions!Present
  <2> HIDE DEF request, key
  <2>6. Sessions!Nonexistent(s)
    BY <1>1, <2>3, <2>5 DEF Sessions!Nonexistent
  <2>7. QED
    BY <2>2, <2>6 DEF Sessions!Next
<1>7. CASE status # TableNonexistent[flavour]
  <2>1. ResultOf(request, Err(status)) = Err("Error")
    <3>1. DropResult(Err(status)) = Err("Error")
      BY <1>5, <1>7 DEF DropResult
    <3>2. QED
      BY <1>1, <3>1 DEF ResultOf
  <2>2. QED
    BY <1>1, <1>4, <2>1, FailedStep DEF IInv
<1>8. QED
  BY <1>6, <1>7

LEMMA ServerListsStep ==
  ASSUME IInv, NEW s \in Session, ServerLists(s)
  PROVE  Sessions!Next
<1> DEFINE request == call[s].request
           found == { objects[k].name : k \in { j \in DOMAIN objects : Listed(j) } }
<1>1. /\ call[s].phase = "sent" /\ request.op = "list" /\ UNCHANGED <<setting, objects>>
      /\ Answer(s, Ok(found))
  BY DEF ServerLists, Sent
<1>2. ResultOf(request, Ok(found)) = [status |-> "Ok", value |-> found]
  BY <1>1 DEF ResultOf, ReadResult, Ok
<1>3. /\ Views[s] = [phase |-> "called", request |-> request]
      /\ Views' = [Views EXCEPT ![s] =
                     [phase |-> "done", request |-> request,
                      result |-> ResultOf(request, Ok(found))]]
      /\ UNCHANGED Sessions!naming
  BY <1>1, AnswersAreDone DEF IInv
<1>4. Sessions!Result(s, "list", "Ok", found)
  BY <1>1, <1>2, <1>3, ResultStep
<1>5. \A k \in DOMAIN objects :
        /\ Sessions!Present(k) <=> Present(k)
        /\ Sessions!IsTable(k) <=> IsTable(k)
        /\ IsTable(k) => Listed(k)
        /\ Listed(k) => Present(k)
  BY DEF Sessions!Present, Sessions!IsTable, Present, IsTable, Listed
<1>6. /\ { objects[k].name : k \in { j \in DOMAIN objects : Sessions!IsTable(j) } } \subseteq found
      /\ found \subseteq { objects[k].name : k \in { j \in DOMAIN objects : Sessions!Present(j) } }
  BY <1>5
<1>7. found \in SUBSET { Stored(name) : name \in names }
  BY <1>5, ObjectTypes DEF IInv
<1>8. { [name \in names |-> Stored(name)][n] : n \in DOMAIN [name \in names |-> Stored(name)] }
        = { Stored(name) : name \in names }
  OBVIOUS
<1> HIDE DEF found
<1>9. Sessions!Listed(s, found)
  BY <1>1, <1>4, <1>6 DEF Sessions!Listed
<1>10. QED
  BY <1>3, <1>7, <1>8, <1>9 DEF Sessions!Next

(* The schema found for the key of the name, or that of no columns.        *)
LEMMA GotStep ==
  ASSUME IInv, UNCHANGED <<setting, objects>>, NEW s \in Session,
         call[s].phase = "sent", call[s].request.op = "get",
         NEW key, key = Key(call[s].request.name), NEW schema \in Reported,
         schema = IF Present(key) THEN objects[key].schema ELSE <<>>,
         Answer(s, Ok({schema}))
  PROVE  Sessions!Next
<1> DEFINE request == call[s].request
<1>1. ResultOf(request, Ok({schema})) = [status |-> "Ok", value |-> {schema}]
  BY DEF ResultOf, ReadResult, Ok
<1>2. /\ Views[s] = [phase |-> "called", request |-> request]
      /\ Views' = [Views EXCEPT ![s] =
                     [phase |-> "done", request |-> request,
                      result |-> ResultOf(request, Ok({schema}))]]
      /\ UNCHANGED Sessions!naming
  BY AnswersAreDone DEF IInv
<1>3. /\ Sessions!Result(s, "get", "Ok", {schema})
      /\ [t \in Session |-> View(t)][s].request = request
  BY <1>1, <1>2, ResultStep
<1>4. request.name \in names /\ key \in DOMAIN objects
  BY CallTypes, RequestTypes DEF IInv, TypeOK, Keys
<1>5. /\ [name \in names |-> Key(name)][request.name] = key
      /\ Sessions!Present(key) <=> Present(key)
  BY <1>4 DEF Present, Sessions!Present
<1> HIDE DEF request
<1>6. Sessions!Got(s, schema)
  BY <1>3, <1>5 DEF Sessions!Got
<1>7. QED
  BY <1>2, <1>6 DEF Sessions!Next

LEMMA ServerGetsStep ==
  ASSUME IInv, NEW s \in Session, ServerGets(s)
  PROVE  Sessions!Next
<1> DEFINE key == Key(call[s].request.name)
<1>1. call[s].phase = "sent" /\ call[s].request.op = "get" /\ UNCHANGED <<setting, objects>>
  BY DEF ServerGets, Sent
<1>2. call[s].request.name \in names
  BY <1>1, CallTypes, RequestTypes DEF IInv
<1>3. Sought(s) = call[s].request.name
  BY <1>2, NamedIsRequested DEF ServerGets, Sought, IInv
<1>4. IF Present(key) THEN Answer(s, Ok({objects[key].schema}))
      ELSE Answer(s, IF flavour \in {"mysql", "duckdb"} THEN Err("unknown table")
                     ELSE Ok({<<>>}))
  BY <1>3 DEF ServerGets
<1>5. key = Key(call[s].request.name)
  OBVIOUS
<1> HIDE DEF key
<1>6. CASE Present(key)
  <2>1. objects[key].schema \in Reported
    BY <1>6, ObjectTypes DEF IInv
  <2>2. QED
    BY <1>1, <1>4, <1>5, <1>6, <2>1, GotStep
<1>7. CASE ~Present(key) /\ flavour \in {"mysql", "duckdb"}
  <2>1. Answer(s, Err("unknown table"))
    BY <1>4, <1>7
  <2>2. QED
    BY <1>1, <2>1, OtherErrors, FailedStep DEF IInv
<1>8. CASE ~Present(key) /\ flavour \notin {"mysql", "duckdb"}
  <2>1. Answer(s, Ok({<<>>})) /\ <<>> \in Reported
    BY <1>4, <1>8 DEF Reported
  <2>2. QED
    BY <1>1, <1>5, <1>8, <2>1, GotStep
<1>9. QED
  BY <1>6, <1>7, <1>8

LEMMA ServerRefusesStep ==
  ASSUME IInv, NEW s \in Session, ServerRefuses(s)
  PROVE  Sessions!Next
  BY OtherErrors, FailedStep DEF ServerRefuses, IInv

LEMMA AnswerIsLostStep ==
  ASSUME IInv, NEW s \in Session, AnswerIsLost(s)
  PROVE  Sessions!Next
<1> DEFINE c == [phase |-> "answered", request |-> call[s].request, answer |-> Err("lost")]
           done == [phase |-> "done", request |-> call[s].request, result |-> Result(s)]
<1>1. call[s].phase = "answered" /\ UNCHANGED <<setting, objects>> /\ Answer(s, Err("lost"))
  BY DEF AnswerIsLost
<1>2. call' = [call EXCEPT ![s] = c]
  BY <1>1 DEF Answer, IInv, TypeOK
<1>3. ResultOf(call[s].request, Err("lost")) = Err("Error") /\ Err("Error") = Sessions!Failure
  BY OtherErrors DEF IInv, Err, Sessions!Failure
<1>4. ViewOf(c) = [phase |-> "done", request |-> call[s].request, result |-> Sessions!Failure]
  BY <1>3 DEF ViewOf
<1>5. Views[s] = done
  BY <1>1 DEF Views, View
<1>6. [done EXCEPT !.result = Sessions!Failure] = ViewOf(c)
  BY <1>4
<1>7. done.phase = "done"
  OBVIOUS
<1> HIDE DEF c, done
<1>8. Views' = [Views EXCEPT ![s] = ViewOf(c)] /\ UNCHANGED Sessions!naming
  BY <1>1, <1>2, ViewsChange DEF IInv
<1>9. Views' = [Views EXCEPT ![s].result = Sessions!Failure]
  BY <1>5, <1>6, <1>8
<1>10. Sessions!Lost(s)
  BY <1>1, <1>5, <1>7, <1>9 DEF Sessions!Lost, Views
<1>11. QED
  BY <1>8, <1>10 DEF Sessions!Next

LEMMA ReturnStep ==
  ASSUME IInv, NEW s \in Session, Return(s)
  PROVE  Sessions!Next
<1>1. /\ call[s].phase = "answered" /\ UNCHANGED <<setting, objects>>
      /\ call' = [call EXCEPT ![s] = Idle]
  BY DEF Return
<1>2. ViewOf(Idle) = Sessions!Idle
  BY DEF ViewOf, Idle, Sessions!Idle
<1>3. Views' = [Views EXCEPT ![s] = Sessions!Idle] /\ UNCHANGED Sessions!naming
  BY <1>1, <1>2, ViewsChange DEF IInv
<1>4. Views[s].phase = "done"
  BY <1>1 DEF Views, View
<1>5. Sessions!Return(s)
  BY <1>1, <1>3, <1>4 DEF Sessions!Return, Views
<1>6. QED
  BY <1>3, <1>5 DEF Sessions!Next

LEMMA StepsOfCatalog == IInv /\ [Next]_vars => [Sessions!Next]_(Sessions!vars)
<1> SUFFICES ASSUME IInv, [Next]_vars PROVE Sessions!Next \/ UNCHANGED Sessions!vars
  OBVIOUS
<1>1. CASE UNCHANGED vars
  <2>1. UNCHANGED setting /\ objects' = objects /\ call' = call
    BY <1>1 DEF vars, setting
  <2>2. Sessions!naming' = Sessions!naming
    BY <2>1, SettingKept DEF Sessions!naming
  <2>3. \A s \in Session : View(s)' = View(s)
    BY <2>1, SettingKept DEF View, Result, ResultOf, CreateResult, DropResult, ReadResult
  <2>4. QED
    BY <2>1, <2>2, <2>3 DEF Sessions!vars
<1>2. ASSUME NEW s \in Session, NEW request \in Requests, Send(s, request)
      PROVE  Sessions!Next
  BY <1>2, SendStep
<1>3. ASSUME NEW s \in Session, ServerCreates(s) PROVE Sessions!Next
  BY <1>3, MakeTableStep DEF ServerCreates, Sent
<1>4. ASSUME NEW s \in Session, ServerBeginsCreate(s) PROVE UNCHANGED Sessions!vars
  BY <1>4, ServerBeginsCreateStep
<1>5. ASSUME NEW s \in Session,
             \/ ServerEndsCreate(s) \/ ServerFindsDuplicate(s) \/ ServerDrops(s)
             \/ ServerFindsNoTable(s) \/ ServerLists(s) \/ ServerGets(s)
             \/ ServerRefuses(s) \/ AnswerIsLost(s) \/ Return(s)
      PROVE  Sessions!Next
  BY <1>5, ServerEndsCreateStep, ServerFindsDuplicateStep, ServerDropsStep,
     ServerFindsNoTableStep, ServerListsStep, ServerGetsStep, ServerRefusesStep,
     AnswerIsLostStep, ReturnStep
<1>6. QED
  BY <1>1, <1>2, <1>3, <1>4, <1>5 DEF Next

LEMMA InitOfCatalog == Init => Sessions!Init
<1> SUFFICES ASSUME Init PROVE Sessions!Init
  OBVIOUS
<1>1. \A s \in Session : View(s) = Sessions!Idle
  BY DEF Init, View, Idle, Sessions!Idle
<1>2. \A k \in DOMAIN objects : Sessions!Present(k) => objects[k].kind \in {"table", "view"}
  <2>1. \A k \in DOMAIN objects :
          objects[k] \in {NoObject} \cup
            [kind : {"table", "view"}, name : { Stored(name) : name \in names },
             schema : {<<"Int64">>}]
    BY DEF Init
  <2>2. QED
    BY <2>1 DEF Sessions!Present
<1>3. QED
  BY <1>1, <1>2 DEF Sessions!Init

(* The calls of the five connectors take effect at once and tell their     *)
(* effect: every behaviour of the sessions and the server is one of the    *)
(* abstract catalog.                                                       *)
THEOREM ImplementsCatalog == Spec => CallsAreAtomic
<1>1. Init => Sessions!Init
  BY InitOfCatalog
<1>2. IInv /\ [Next]_vars => [Sessions!Next]_(Sessions!vars)
  BY StepsOfCatalog
<1>3. QED
  BY <1>1, <1>2, Invariance, PTL DEF Spec, CallsAreAtomic, Sessions!Spec
=============================================================================

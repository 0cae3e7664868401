-------------------------- MODULE TokenStreamProofs --------------------------
(***************************************************************************)
(* Proofs about TokenStream: whatever the tokens of the answer, the chunks *)
(* they come in and the sizes of the window and the interval, decoding     *)
(* them piece by piece gives the text decoding all of them at once gives.  *)
(***************************************************************************)
EXTENDS TokenStream, FiniteSetTheorems, SequenceTheorems, TLAPS

-----------------------------------------------------------------------------
(* Sequences: induction, parts and concatenations.                         *)

(* Induction over the natural numbers, for a set of them: what holds of 0  *)
(* and is passed on to the next number holds of all.  From n on the shift  *)
(* by one would put a finite set into a smaller one.                       *)
LEMMA Induct ==
  ASSUME NEW S, 0 \in S, \A n \in Nat : n \in S => n + 1 \in S
  PROVE  \A n \in Nat : n \in S
<1> SUFFICES ASSUME NEW n \in Nat, n \notin S PROVE FALSE
  OBVIOUS
<1> DEFINE A == {i \in 0..n : i \in S}
           B == A \ {0}
           f == [i \in A |-> i + 1]
<1>1. IsFiniteSet(A) /\ Cardinality(A) \in Nat
  <2>1. IsFiniteSet(0..n)
    BY FS_Interval
  <2>2. A \in SUBSET (0..n)
    OBVIOUS
  <2> QED BY <2>1, <2>2, FS_Subset, FS_CardinalityType
<1>2. IsFiniteSet(B) /\ Cardinality(B) = Cardinality(A) - 1
  <2>1. 0 \in A
    OBVIOUS
  <2> QED BY <1>1, <2>1, FS_RemoveElement
<1>3. f \in Injection(A, B)
  <2>1. \A i \in A : i + 1 \in B
    OBVIOUS
  <2> QED BY <2>1 DEF Injection, IsInjective
<1>4. Cardinality(A) <= Cardinality(B)
  <2> HIDE DEF A, B, f
  <2> QED BY <1>2, <1>3, FS_Injection
<1> HIDE DEF A, B, f
<1> QED BY <1>1, <1>2, <1>4

(* A sequence of one element.                                              *)
LEMMA One ==
  ASSUME NEW X, NEW a \in X
  PROVE  /\ <<a>> \in Seq(X) /\ Len(<<a>>) = 1 /\ <<a>>[1] = a
         /\ <<a>> = Append(<<>>, a)
OBVIOUS

(* A sequence of two elements.                                             *)
LEMMA Two ==
  ASSUME NEW X, NEW a \in X, NEW b \in X
  PROVE  <<a, b>> \in Seq(X) /\ Len(<<a, b>>) = 2 /\ <<a, b>>[1] = a /\ <<a, b>>[2] = b
OBVIOUS

(* A sequence is its beginning followed by its rest. *)
LEMMA Halves ==
  ASSUME NEW X, NEW s \in Seq(X), NEW c \in 0..Len(s)
  PROVE  /\ Upto(s, c) \in Seq(X) /\ Len(Upto(s, c)) = c
         /\ \A i \in 1..c : Upto(s, c)[i] = s[i]
         /\ From(s, c + 1) \in Seq(X) /\ Len(From(s, c + 1)) = Len(s) - c
         /\ \A i \in 1..(Len(s) - c) : From(s, c + 1)[i] = s[c + i]
         /\ s = Upto(s, c) \o From(s, c + 1)
<1>1. Upto(s, c) \in Seq(X) /\ Len(Upto(s, c)) = c /\ \A i \in 1..c : Upto(s, c)[i] = s[i]
  BY DEF Upto
<1>2. /\ From(s, c + 1) \in Seq(X) /\ Len(From(s, c + 1)) = Len(s) - c
      /\ \A i \in 1..(Len(s) - c) : From(s, c + 1)[i] = s[c + i]
  BY DEF From
<1>3. s = Upto(s, c) \o From(s, c + 1)
  <2>1. 1 \in 1..(Len(s) + 1) /\ c \in (1 - 1)..Len(s) /\ Len(s) \in c..Len(s)
    OBVIOUS
  <2>2. SubSeq(s, 1, c) \o SubSeq(s, c + 1, Len(s)) = SubSeq(s, 1, Len(s))
    BY <2>1, ConcatAdjacentSubSeq
  <2>3. SubSeq(s, 1, Len(s)) = s
    BY SubSeqFull
  <2> QED BY <2>2, <2>3 DEF Upto, From
<1> QED BY <1>1, <1>2, <1>3

(* What was appended is what follows, and what it was appended to is the   *)
(* beginning.                                                              *)
LEMMA RestOf ==
  ASSUME NEW X, NEW s \in Seq(X), NEW t \in Seq(X)
  PROVE  From(s \o t, Len(s) + 1) = t /\ Upto(s \o t, Len(s)) = s
<1> DEFINE u == s \o t
<1>1. u \in Seq(X) /\ Len(u) = Len(s) + Len(t) /\ Len(s) \in 0..Len(u) /\ Len(t) \in Nat
  BY ConcatProperties
<1>2. \A i \in 1..Len(s) + Len(t) : u[i] = IF i <= Len(s) THEN s[i] ELSE t[i - Len(s)]
  BY ConcatProperties
<1> HIDE DEF u
<1>3. /\ Upto(u, Len(s)) \in Seq(X) /\ Len(Upto(u, Len(s))) = Len(s)
      /\ \A i \in 1..Len(s) : Upto(u, Len(s))[i] = u[i]
      /\ From(u, Len(s) + 1) \in Seq(X) /\ Len(From(u, Len(s) + 1)) = Len(u) - Len(s)
      /\ \A i \in 1..(Len(u) - Len(s)) : From(u, Len(s) + 1)[i] = u[Len(s) + i]
  BY <1>1, Halves, ZenonT(60)
<1>4. \A i \in 1..Len(s) : Upto(u, Len(s))[i] = s[i]
  BY <1>1, <1>2, <1>3
<1>5. ASSUME NEW i \in 1..Len(t) PROVE From(u, Len(s) + 1)[i] = t[i]
  <2>1. i \in 1..(Len(u) - Len(s)) /\ Len(s) + i \in 1..(Len(s) + Len(t))
        /\ ~(Len(s) + i <= Len(s)) /\ Len(s) + i - Len(s) = i
    BY <1>1
  <2>2. From(u, Len(s) + 1)[i] = u[Len(s) + i]
    BY <1>3, <2>1
  <2>3. u[Len(s) + i] = t[Len(s) + i - Len(s)]
    BY <1>2, <2>1
  <2> QED BY <2>1, <2>2, <2>3
<1>6. Upto(u, Len(s)) = s
  BY <1>3, <1>4, SeqEqual
<1>7. Len(From(u, Len(s) + 1)) = Len(t)
  BY <1>1, <1>3
<1>8. From(u, Len(s) + 1) = t
  BY <1>3, <1>5, <1>7, SeqEqual
<1> QED BY <1>6, <1>8 DEF u

(* A rest is a sequence of the same elements.                              *)
LEMMA FromType ==
  ASSUME NEW X, NEW s \in Seq(X), NEW n \in Nat \ {0}
  PROVE  From(s, n) \in Seq(X)
BY SubSeqProperties DEF From

(* g is a running concatenation of sequences. *)
FlatOf(seqs, g) ==
  \A i \in 1..Len(seqs) : g[i] = IF i = 1 THEN seqs[i] ELSE g[i - 1] \o seqs[i]

(* FlattenSeq is computed by such a function: there is one for every       *)
(* length.                                                                 *)
LEMMA FlatDef ==
  ASSUME NEW seqs, Len(seqs) \in Nat \ {0}
  PROVE \E g : FlatOf(seqs, g) /\ FlattenSeq(seqs) = g[Len(seqs)]
<1> DEFINE n == Len(seqs)
    Is(g, m) == g = [i \in 1..m |-> IF i = 1 THEN seqs[i] ELSE g[i - 1] \o seqs[i]]
    S == {m \in Nat : \E g : Is(g, m)}
<1>1. 0 \in S
  <2>1. Is(<<>>, 0)
    OBVIOUS
  <2> QED BY <2>1
<1>2. ASSUME NEW m \in Nat, m \in S PROVE m + 1 \in S
  <2>1. PICK g : Is(g, m)
    BY <1>2
  <2> DEFINE last == IF m = 0 THEN seqs[1] ELSE g[m] \o seqs[m + 1]
             h == [i \in 1..(m + 1) |-> IF i <= m THEN g[i] ELSE last]
  <2>2. Is(h, m + 1)
    <3>1. ASSUME NEW i \in 1..(m + 1)
          PROVE  h[i] = IF i = 1 THEN seqs[i] ELSE h[i - 1] \o seqs[i]
      <4>1. CASE i <= m
        <5>1. i \in 1..m
          BY <4>1
        <5>2. g[i] = IF i = 1 THEN seqs[i] ELSE g[i - 1] \o seqs[i]
          BY <2>1, <5>1
        <5>3. i # 1 => i - 1 \in 1..(m + 1) /\ i - 1 <= m
          BY <5>1
        <5> QED BY <5>1, <5>2, <5>3, <4>1
      <4>2. CASE i = m + 1
        <5>1. h[i] = last
          BY <4>2
        <5>2. i # 1 => h[i - 1] = g[m] /\ m # 0
          BY <4>2
        <5> QED BY <5>1, <5>2, <4>2
      <4> QED BY <4>1, <4>2
    <3> QED BY <3>1
  <2>3. m + 1 \in Nat /\ \E k : Is(k, m + 1)
    <3> HIDE DEF h, Is
    <3> QED BY <2>2
  <2> QED BY <2>3
<1>3. n \in S
  <2> HIDE DEF S
  <2> QED BY <1>1, <1>2, Induct
<1>4. PICK g : Is(g, n)
  BY <1>3
<1> DEFINE g0 == CHOOSE k : Is(k, n)
<1>5. Is(g0, n)
  BY <1>4
<1>6. FlattenSeq(seqs) = g0[n]
  BY DEF FlattenSeq
<1>7. ASSUME NEW k, Is(k, n) PROVE FlatOf(seqs, k)
  <2> DEFINE rhs(i) == IF i = 1 THEN seqs[i] ELSE k[i - 1] \o seqs[i]
  <2>1. k = [i \in 1..n |-> rhs(i)]
    BY <1>7
  <2>2. \A i \in 1..n : k[i] = rhs(i)
    <3> HIDE DEF rhs
    <3> QED BY <2>1
  <2> QED BY <2>2 DEF FlatOf
<1> HIDE DEF g0
<1> QED BY <1>5, <1>6, <1>7

(* Nothing is the concatenation of no sequences.                           *)
LEMMA FlatNone == FlattenSeq(<<>>) = <<>>
BY DEF FlattenSeq

(* The concatenations of the first sequences depend on these only.         *)
LEMMA FlatSame ==
  ASSUME NEW m \in Nat, NEW seqs, NEW more, Len(seqs) \in Nat, Len(more) \in Nat,
         m <= Len(seqs), m <= Len(more), \A i \in 1..m : seqs[i] = more[i],
         NEW g, FlatOf(seqs, g), NEW h, FlatOf(more, h)
  PROVE  \A i \in 1..m : g[i] = h[i]
<1> DEFINE S == {i \in Nat : i \in 1..m => g[i] = h[i]}
<1>1. 0 \in S
  OBVIOUS
<1>2. ASSUME NEW i \in Nat, i \in S PROVE i + 1 \in S
  <2>1. CASE i + 1 \notin 1..m
    BY <2>1
  <2>2. CASE i + 1 \in 1..m
    <3>1. i + 1 \in 1..Len(seqs) /\ i + 1 \in 1..Len(more)
      BY <2>2
    <3>2. g[i + 1] = IF i + 1 = 1 THEN seqs[i + 1] ELSE g[i + 1 - 1] \o seqs[i + 1]
      BY <3>1 DEF FlatOf
    <3>3. h[i + 1] = IF i + 1 = 1 THEN more[i + 1] ELSE h[i + 1 - 1] \o more[i + 1]
      BY <3>1 DEF FlatOf
    <3>4. i # 0 => g[i] = h[i]
      BY <1>2, <2>2
    <3>5. i + 1 - 1 = i /\ (i + 1 = 1 => i = 0)
      OBVIOUS
    <3> QED BY <3>2, <3>3, <3>4, <3>5, <2>2
  <2> QED BY <2>1, <2>2
<1>3. \A i \in Nat : i \in S
  <2> HIDE DEF S
  <2> QED BY <1>1, <1>2, Induct
<1> QED BY <1>3

(* Concatenating one more sequence.                                        *)
LEMMA FlatAppend ==
  ASSUME NEW X, NEW seqs \in Seq(Seq(X)), NEW e \in Seq(X)
  PROVE  FlattenSeq(Append(seqs, e)) = FlattenSeq(seqs) \o e
<1> DEFINE more == Append(seqs, e)
           n == Len(seqs)
<1>0. /\ n \in Nat /\ Len(more) = n + 1
      /\ \A i \in 1..n : more[i] = seqs[i]
      /\ more[n + 1] = e
  OBVIOUS
<1> HIDE DEF more
<1>1. PICK h : FlatOf(more, h) /\ FlattenSeq(more) = h[n + 1]
  BY <1>0, FlatDef
<1>2. h[n + 1] = IF n + 1 = 1 THEN more[n + 1] ELSE h[n + 1 - 1] \o more[n + 1]
  <2>1. n + 1 \in 1..Len(more)
    BY <1>0
  <2> QED BY <2>1, <1>1 DEF FlatOf
<1>3. CASE n = 0
  <2>1. seqs = <<>>
    BY <1>3
  <2>2. <<>> \o e = e
    OBVIOUS
  <2> QED BY <1>0, <1>1, <1>2, <1>3, <2>1, <2>2, FlatNone DEF more
<1>4. CASE n # 0
  <2>1. PICK g : FlatOf(seqs, g) /\ FlattenSeq(seqs) = g[n]
    BY <1>0, <1>4, FlatDef
  <2>2. g[n] = h[n]
    <3>1. \A i \in 1..n : g[i] = h[i]
      <4>1. \A i \in 1..n : seqs[i] = more[i]
        BY <1>0
      <4>2. n <= Len(seqs) /\ n <= Len(more) /\ Len(seqs) \in Nat /\ Len(more) \in Nat
        BY <1>0
      <4>3. FlatOf(seqs, g) /\ FlatOf(more, h) /\ n \in Nat
        BY <1>0, <1>1, <2>1
      <4> HIDE DEF n
      <4> QED BY <4>1, <4>2, <4>3, FlatSame, Z3
    <3> QED BY <3>1, <1>0, <1>4
  <2> QED BY <1>0, <1>1, <1>2, <1>4, <2>1, <2>2 DEF more
<1> QED BY <1>3, <1>4

(* Concatenating a single sequence.                                        *)
LEMMA FlatOne ==
  ASSUME NEW X, NEW e \in Seq(X)
  PROVE  FlattenSeq(<<e>>) = e
<1>1. <<>> \in Seq(Seq(X)) /\ <<e>> = Append(<<>>, e)
  BY One, EmptySeq
<1>2. FlattenSeq(Append(<<>>, e)) = FlattenSeq(<<>>) \o e
  BY <1>1, FlatAppend
<1> QED BY <1>1, <1>2, FlatNone, ConcatEmptySeq

(* A concatenation is a sequence of the same elements.                     *)
LEMMA FlatType ==
  ASSUME NEW X, NEW seqs \in Seq(Seq(X))
  PROVE  FlattenSeq(seqs) \in Seq(X)
<1> DEFINE S == {m \in Nat : \A s \in Seq(Seq(X)) : Len(s) = m => FlattenSeq(s) \in Seq(X)}
<1>1. 0 \in S
  <2>1. ASSUME NEW s \in Seq(Seq(X)), Len(s) = 0 PROVE FlattenSeq(s) \in Seq(X)
    <3>1. s = <<>>
      BY <2>1
    <3>2. <<>> \in Seq(X)
      OBVIOUS
    <3> QED BY <3>1, <3>2, FlatNone
  <2> QED BY <2>1
<1>2. ASSUME NEW m \in Nat, m \in S PROVE m + 1 \in S
  <2>1. ASSUME NEW s \in Seq(Seq(X)), Len(s) = m + 1 PROVE FlattenSeq(s) \in Seq(X)
    <3>1. PICK front \in Seq(Seq(X)), e \in Seq(X) : s = Append(front, e) /\ Len(front) = m
      <4>1. SubSeq(s, 1, m) \in Seq(Seq(X)) /\ s[m + 1] \in Seq(X) /\ Len(SubSeq(s, 1, m)) = m
        BY <2>1
      <4>2. s = Append(SubSeq(s, 1, m), s[m + 1])
        BY <2>1
      <4> QED BY <4>1, <4>2
    <3>2. FlattenSeq(front) \in Seq(X)
      BY <1>2, <3>1
    <3>3. FlattenSeq(s) = FlattenSeq(front) \o e
      BY <3>1, FlatAppend
    <3> QED BY <3>2, <3>3
  <2> QED BY <2>1
<1>3. \A m \in Nat : m \in S
  <2> HIDE DEF S
  <2> QED BY <1>1, <1>2, Induct
<1>4. Len(seqs) \in Nat
  OBVIOUS
<1> QED BY <1>3, <1>4

(* The concatenation of two lists of sequences, one after the other.       *)
LEMMA FlatConcat ==
  ASSUME NEW X, NEW first \in Seq(Seq(X)), NEW second \in Seq(Seq(X))
  PROVE  FlattenSeq(first \o second) = FlattenSeq(first) \o FlattenSeq(second)
<1> DEFINE S == {m \in Nat : \A s \in Seq(Seq(X)) :
                   Len(s) = m => FlattenSeq(first \o s) = FlattenSeq(first) \o FlattenSeq(s)}
<1>1. 0 \in S
  <2>1. ASSUME NEW s \in Seq(Seq(X)), Len(s) = 0
        PROVE  FlattenSeq(first \o s) = FlattenSeq(first) \o FlattenSeq(s)
    <3>1. s = <<>> /\ first \o s = first
      BY <2>1
    <3>2. FlattenSeq(first) \in Seq(X)
      BY FlatType
    <3>3. FlattenSeq(first) \o <<>> = FlattenSeq(first)
      BY <3>2
    <3> QED BY <3>1, <3>3, FlatNone
  <2> QED BY <2>1
<1>2. ASSUME NEW m \in Nat, m \in S PROVE m + 1 \in S
  <2>1. ASSUME NEW s \in Seq(Seq(X)), Len(s) = m + 1
        PROVE  FlattenSeq(first \o s) = FlattenSeq(first) \o FlattenSeq(s)
    <3>1. PICK front \in Seq(Seq(X)), e \in Seq(X) : s = Append(front, e) /\ Len(front) = m
      <4>1. SubSeq(s, 1, m) \in Seq(Seq(X)) /\ s[m + 1] \in Seq(X) /\ Len(SubSeq(s, 1, m)) = m
        BY <2>1
      <4>2. s = Append(SubSeq(s, 1, m), s[m + 1])
        BY <2>1
      <4> QED BY <4>1, <4>2
    <3>2. FlattenSeq(first \o front) = FlattenSeq(first) \o FlattenSeq(front)
      BY <1>2, <3>1
    <3>3. FlattenSeq(s) = FlattenSeq(front) \o e
      BY <3>1, FlatAppend
    <3>4. first \o s = Append(first \o front, e) /\ first \o front \in Seq(Seq(X))
      BY <3>1, SMTT(30)
    <3>5. FlattenSeq(first \o s) = FlattenSeq(first \o front) \o e
      BY <3>4, FlatAppend
    <3>6. FlattenSeq(first) \in Seq(X) /\ FlattenSeq(front) \in Seq(X)
      BY FlatType
    <3>7. (FlattenSeq(first) \o FlattenSeq(front)) \o e
            = FlattenSeq(first) \o (FlattenSeq(front) \o e)
      BY <3>1, <3>6, SMTT(30)
    <3> QED BY <3>2, <3>3, <3>5, <3>7
  <2> QED BY <2>1
<1>3. \A m \in Nat : m \in S
  <2> HIDE DEF S
  <2> QED BY <1>1, <1>2, Induct
<1>4. Len(second) \in Nat
  OBVIOUS
<1> QED BY <1>3, <1>4

-----------------------------------------------------------------------------
(* The text of tokens.                                                     *)

(* The symbols texts are made of. *)
Symbols == STRING \cup {"<tool", "</tool", "call>", "char", "bad"}

(* The texts of the tokens. *)
Pieces(ids) == [i \in 1..Len(ids) |-> TokenText(ids, i)]

(* A character is cut in two at this place. *)
Cut(ids, c) == c < Len(ids) /\ ids[c] = "h1" /\ ids[c + 1] = "h2"

(* Every token has a text of symbols.                                      *)
LEMMA PiecesType ==
  ASSUME NEW ids \in Seq(STRING)
  PROVE  /\ Pieces(ids) \in Seq(Seq(Symbols))
         /\ Len(Pieces(ids)) = Len(ids)
         /\ \A i \in 1..Len(ids) : Pieces(ids)[i] = TokenText(ids, i)
         /\ \A i \in 1..Len(ids) : TokenText(ids, i) \in Seq(Symbols)
<1>1. ASSUME NEW i \in 1..Len(ids) PROVE TokenText(ids, i) \in Seq(Symbols)
  <2>1. ids[i] \in Symbols
    BY DEF Symbols
  <2>2. /\ <<>> \in Seq(Symbols) /\ Open \in Seq(Symbols) /\ Close \in Seq(Symbols)
        /\ <<"char">> \in Seq(Symbols) /\ <<"bad">> \in Seq(Symbols)
        /\ <<ids[i]>> \in Seq(Symbols)
    <3>1. /\ "<tool" \in Symbols /\ "</tool" \in Symbols /\ "call>" \in Symbols
          /\ "char" \in Symbols /\ "bad" \in Symbols
      BY DEF Symbols
    <3>2. Open \in Seq(Symbols) /\ Close \in Seq(Symbols)
      BY <3>1, Two DEF Open, Close
    <3>3. <<"char">> \in Seq(Symbols) /\ <<"bad">> \in Seq(Symbols) /\ <<ids[i]>> \in Seq(Symbols)
      BY <2>1, <3>1, One
    <3> QED BY <3>2, <3>3
  <2> QED BY <2>2 DEF TokenText
<1>2. Pieces(ids) \in Seq(Seq(Symbols)) /\ Len(Pieces(ids)) = Len(ids)
  BY <1>1 DEF Pieces
<1>3. \A i \in 1..Len(ids) : Pieces(ids)[i] = TokenText(ids, i)
  BY DEF Pieces
<1> QED BY <1>1, <1>2, <1>3

(* A decoded text is the concatenation of the texts of its tokens.         *)
LEMMA DecodeType ==
  ASSUME NEW ids \in Seq(STRING)
  PROVE  Decode(ids) \in Seq(Symbols) /\ Decode(ids) = FlattenSeq(Pieces(ids))
<1>1. Decode(ids) = FlattenSeq(Pieces(ids))
  BY DEF Decode, Pieces
<1> QED BY <1>1, PiecesType, FlatType

(* The text of all tokens is the one of the first, followed by the one of  *)
(* the others, each token read with its neighbours.                        *)
LEMMA PiecesHalves ==
  ASSUME NEW ids \in Seq(STRING), NEW c \in 0..Len(ids)
  PROVE  Decode(ids) = FlattenSeq(Upto(Pieces(ids), c)) \o FlattenSeq(From(Pieces(ids), c + 1))
<1> DEFINE p == Pieces(ids)
<1>1. p \in Seq(Seq(Symbols)) /\ c \in 0..Len(p)
  BY PiecesType
<1>2. Decode(ids) = FlattenSeq(p)
  BY DecodeType
<1> HIDE DEF p
<1>3. /\ Upto(p, c) \in Seq(Seq(Symbols)) /\ From(p, c + 1) \in Seq(Seq(Symbols))
      /\ p = Upto(p, c) \o From(p, c + 1)
  BY <1>1, Halves
<1>4. FlattenSeq(p) = FlattenSeq(Upto(p, c)) \o FlattenSeq(From(p, c + 1))
  BY <1>3, FlatConcat
<1> QED BY <1>2, <1>4 DEF p

(* Tokens that are decoded alone have the text they have in the whole,     *)
(* unless a character is cut in two after them.                            *)
LEMMA SameBefore ==
  ASSUME NEW ids \in Seq(STRING), NEW c \in 0..Len(ids), ~Cut(ids, c)
  PROVE  Decode(Upto(ids, c)) = FlattenSeq(Upto(Pieces(ids), c))
<1>1. /\ Upto(ids, c) \in Seq(STRING) /\ Len(Upto(ids, c)) = c
      /\ \A i \in 1..c : Upto(ids, c)[i] = ids[i]
  BY Halves
<1>2. ASSUME NEW i \in 1..c PROVE TokenText(Upto(ids, c), i) = TokenText(ids, i)
  <2> DEFINE u == Upto(ids, c)
  <2>1. u[i] = ids[i] /\ (i > 1 => u[i - 1] = ids[i - 1]) /\ Len(u) = c
    BY <1>1
  <2>2. i < c => u[i + 1] = ids[i + 1] /\ i < Len(ids)
    BY <1>1
  <2>3. i = c => ~(i < Len(ids) /\ ids[i] = "h1" /\ ids[i + 1] = "h2")
    BY DEF Cut
  <2>4. i < c \/ i = c
    OBVIOUS
  <2> HIDE DEF u
  <2>5. TokenText(u, i) = TokenText(ids, i)
    BY <2>1, <2>2, <2>3, <2>4 DEF TokenText
  <2> QED BY <2>5 DEF u
<1>3. Pieces(Upto(ids, c)) = Upto(Pieces(ids), c)
  <2>1. /\ Pieces(ids) \in Seq(Seq(Symbols)) /\ Len(Pieces(ids)) = Len(ids)
        /\ \A i \in 1..Len(ids) : Pieces(ids)[i] = TokenText(ids, i)
    BY PiecesType
  <2>2. /\ Upto(Pieces(ids), c) \in Seq(Seq(Symbols)) /\ Len(Upto(Pieces(ids), c)) = c
        /\ \A i \in 1..c : Upto(Pieces(ids), c)[i] = Pieces(ids)[i]
    BY <2>1, Halves
  <2>3. /\ Pieces(Upto(ids, c)) \in Seq(Seq(Symbols)) /\ Len(Pieces(Upto(ids, c))) = c
        /\ \A i \in 1..c : Pieces(Upto(ids, c))[i] = TokenText(Upto(ids, c), i)
    BY <1>1, PiecesType
  <2>4. ASSUME NEW i \in 1..c PROVE Pieces(Upto(ids, c))[i] = Upto(Pieces(ids), c)[i]
    <3>1. i \in 1..Len(ids)
      OBVIOUS
    <3> QED BY <1>2, <2>1, <2>2, <2>3, <3>1
  <2> QED BY <2>2, <2>3, <2>4, SeqEqual
<1> QED BY <1>1, <1>3, DecodeType

(* Where no character is cut in two, the texts of both halves are the      *)
(* text of the whole.                                                      *)
LEMMA DecodeUncut ==
  ASSUME NEW ids \in Seq(STRING), NEW c \in 0..Len(ids), ~Cut(ids, c)
  PROVE  Decode(ids) = Decode(Upto(ids, c)) \o FlattenSeq(From(Pieces(ids), c + 1))
BY PiecesHalves, SameBefore

(* Where one is, the text of the first half is not how the whole begins.   *)
LEMMA DecodeCut ==
  ASSUME NEW ids \in Seq(STRING), NEW c \in 1..Len(ids), Cut(ids, c)
  PROVE  ~StartsWith(Decode(ids), Decode(Upto(ids, c)))
<1> DEFINE before == FlattenSeq(Upto(Pieces(ids), c - 1))
           u == Upto(ids, c)
<1>1. u \in Seq(STRING) /\ Len(u) = c /\ \A i \in 1..c : u[i] = ids[i]
  <2>1. c \in 0..Len(ids)
    OBVIOUS
  <2> QED BY <2>1, Halves
<1>0. "char" \in Symbols /\ "bad" \in Symbols /\ <<"char">> \in Seq(Symbols)
      /\ <<"bad">> \in Seq(Symbols) /\ <<>> \in Seq(Seq(Symbols))
  <2>1. "char" \in Symbols /\ "bad" \in Symbols
    BY DEF Symbols
  <2> QED BY <2>1, One, EmptySeq
<1>2. before \in Seq(Symbols)
  <2>1. Pieces(ids) \in Seq(Seq(Symbols)) /\ c - 1 \in 0..Len(Pieces(ids))
    BY PiecesType
  <2>2. Upto(Pieces(ids), c - 1) \in Seq(Seq(Symbols))
    BY <2>1, Halves
  <2> QED BY <2>2, FlatType
<1>3. \E rest \in Seq(Symbols) : Decode(ids) = before \o (<<"char">> \o rest)
  <2>1. /\ Pieces(ids) \in Seq(Seq(Symbols)) /\ Len(Pieces(ids)) = Len(ids)
        /\ Pieces(ids)[c] = <<"char">>
    BY PiecesType DEF Cut, TokenText
  <2> DEFINE p == From(Pieces(ids), c - 1 + 1)
             q == From(Pieces(ids), c + 1)
  <2>2. p \in Seq(Seq(Symbols)) /\ p = <<Pieces(ids)[c]>> \o q /\ q \in Seq(Seq(Symbols))
    <3>1. c \in 1..Len(Pieces(ids)) /\ Len(Pieces(ids)) \in c..Len(Pieces(ids))
      BY <2>1
    <3>2. p = <<Pieces(ids)[c]>> \o q
      <4>1. SubSeq(Pieces(ids), c, Len(Pieces(ids)))
              = <<Pieces(ids)[c]>> \o SubSeq(Pieces(ids), c + 1, Len(Pieces(ids)))
        BY <2>1, <3>1, SubSeqRecursiveFirst
      <4>2. c - 1 + 1 = c
        OBVIOUS
      <4> QED BY <4>1, <4>2 DEF From
    <3>3. c - 1 \in 0..Len(Pieces(ids)) /\ c \in 0..Len(Pieces(ids))
      BY <3>1
    <3> QED BY <2>1, <3>2, <3>3, Halves
  <2>5. FlattenSeq(<<Pieces(ids)[c]>>) = <<"char">>
    BY <1>0, <2>1, FlatOne
  <2>6. <<Pieces(ids)[c]>> \in Seq(Seq(Symbols))
    BY <1>0, <2>1, One
  <2> HIDE DEF p, q
  <2>7. FlattenSeq(p) = <<"char">> \o FlattenSeq(q)
    BY <2>2, <2>5, <2>6, FlatConcat
  <2>8. FlattenSeq(q) \in Seq(Symbols)
    BY <2>2, FlatType
  <2>9. Decode(ids) = before \o FlattenSeq(p)
    <3>1. c - 1 \in 0..Len(ids)
      OBVIOUS
    <3> QED BY <3>1, PiecesHalves DEF p
  <2> QED BY <2>7, <2>8, <2>9
<1>4. Decode(u) = before \o <<"bad">>
  <2>1. c - 1 \in 0..Len(u) /\ ~Cut(u, c - 1)
    <3>1. u[c] = "h1"
      BY <1>1 DEF Cut
    <3> QED BY <1>1, <3>1 DEF Cut
  <2>2. TokenText(u, c) = <<"bad">>
    BY <1>1 DEF TokenText, Cut
  <2>3. /\ Pieces(u) \in Seq(Seq(Symbols)) /\ Len(Pieces(u)) = c
        /\ Pieces(u)[c] = <<"bad">>
    BY <1>1, <2>2, PiecesType, SMTT(30)
  <2>4. From(Pieces(u), c - 1 + 1) = <<(<<"bad">>)>>
    <3>1. c - 1 \in 0..Len(Pieces(u)) /\ c \in 1..Len(Pieces(u)) /\ c - 1 + 1 = c
          /\ Len(Pieces(u)) - (c - 1) = 1
      BY <2>3
    <3>2. /\ From(Pieces(u), c - 1 + 1) \in Seq(Seq(Symbols))
          /\ Len(From(Pieces(u), c - 1 + 1)) = 1
          /\ From(Pieces(u), c - 1 + 1)[1] = <<"bad">>
      <4> DEFINE k == c - 1
      <4>1. k \in 0..Len(Pieces(u)) /\ Len(Pieces(u)) - k = 1 /\ k + 1 = c
        BY <3>1
      <4> HIDE DEF k
      <4>2. /\ From(Pieces(u), k + 1) \in Seq(Seq(Symbols))
            /\ Len(From(Pieces(u), k + 1)) = 1
            /\ \A i \in 1..1 : From(Pieces(u), k + 1)[i] = Pieces(u)[k + i]
        <5>1. /\ From(Pieces(u), k + 1) \in Seq(Seq(Symbols))
              /\ Len(From(Pieces(u), k + 1)) = Len(Pieces(u)) - k
              /\ \A i \in 1..(Len(Pieces(u)) - k) : From(Pieces(u), k + 1)[i] = Pieces(u)[k + i]
          BY <2>3, <4>1, Halves, ZenonT(60)
        <5> QED BY <4>1, <5>1
      <4>3. From(Pieces(u), k + 1)[1] = <<"bad">>
        BY <2>3, <4>1, <4>2
      <4> QED BY <4>2, <4>3 DEF k
    <3> QED BY <1>0, <3>2, One, SeqEqual
  <2>6. FlattenSeq(From(Pieces(u), c - 1 + 1)) = <<"bad">>
    BY <1>0, <2>4, FlatOne
  <2>7. Decode(u) = Decode(Upto(u, c - 1)) \o <<"bad">>
    BY <1>1, <2>1, <2>6, DecodeUncut
  <2>8. Upto(u, c - 1) = Upto(ids, c - 1)
    BY <1>1 DEF Upto
  <2>9. ~Cut(ids, c - 1)
    BY DEF Cut
  <2>10. Decode(Upto(ids, c - 1)) = before
    <3>1. c - 1 \in 0..Len(ids)
      OBVIOUS
    <3> QED BY <3>1, <2>9, SameBefore
  <2> QED BY <2>7, <2>8, <2>10
<1> HIDE DEF before, u
<1>5. PICK rest \in Seq(Symbols) : Decode(ids) = before \o (<<"char">> \o rest)
  BY <1>3
<1>6. /\ Len(before) \in Nat
      /\ Len(Decode(u)) = Len(before) + 1
      /\ Decode(u)[Len(before) + 1] = "bad"
  BY <1>2, <1>4
<1>7. Decode(ids)[Len(before) + 1] = "char" /\ Decode(ids) \in Seq(Symbols)
      /\ Len(Decode(ids)) >= Len(before) + 1
  <2>1. /\ <<"char">> \o rest \in Seq(Symbols) /\ (<<"char">> \o rest)[1] = "char"
        /\ Len(<<"char">> \o rest) = 1 + Len(rest) /\ Len(rest) \in Nat
    BY <1>0, One, ConcatProperties
  <2> QED BY <1>2, <1>5, <2>1, ConcatProperties
<1>8. SUFFICES ASSUME StartsWith(Decode(ids), Decode(u)) PROVE FALSE
  BY DEF u
<1>9. Upto(Decode(ids), Len(before) + 1)[Len(before) + 1] = "char"
  BY <1>6, <1>7 DEF Upto
<1> QED BY <1>6, <1>8, <1>9 DEF StartsWith

(* The texts of the later tokens do not depend on where the decoding       *)
(* starts, as long as one earlier token is with them.                      *)
LEMMA SameAfter ==
  ASSUME NEW ids \in Seq(STRING), NEW start \in Nat, NEW c \in Nat, start < c, c <= Len(ids)
  PROVE  LET segment == From(ids, start + 1) IN
           /\ From(Pieces(segment), c - start + 1) = From(Pieces(ids), c + 1)
           /\ From(Pieces(ids), c + 1) \in Seq(Seq(Symbols))
<1> DEFINE segment == From(ids, start + 1)
<1>1. /\ segment \in Seq(STRING) /\ Len(segment) = Len(ids) - start
      /\ \A i \in 1..(Len(ids) - start) : segment[i] = ids[start + i]
  <2>1. start \in 0..Len(ids)
    OBVIOUS
  <2> QED BY <2>1, Halves
<1> HIDE DEF segment
<1>2. ASSUME NEW i \in 1..(Len(ids) - c)
      PROVE  TokenText(segment, c - start + i) = TokenText(ids, c + i)
  <2> DEFINE j == c - start + i
  <2>1. j \in 2..Len(segment) /\ start + j = c + i
    BY <1>1
  <2>2. segment[j] = ids[c + i] /\ segment[j - 1] = ids[c + i - 1]
    BY <1>1, <2>1, SMTT(40)
  <2>3. j < Len(segment) <=> c + i < Len(ids)
    BY <1>1, <2>1
  <2>4. j < Len(segment) => segment[j + 1] = ids[c + i + 1]
    BY <1>1, <2>1
  <2>5. j > 1 /\ c + i > 1
    BY <2>1
  <2> HIDE DEF j
  <2>6. TokenText(segment, j) = TokenText(ids, c + i)
    BY <2>2, <2>3, <2>4, <2>5 DEF TokenText
  <2> QED BY <2>6 DEF j
<1>3. /\ Pieces(ids) \in Seq(Seq(Symbols)) /\ Len(Pieces(ids)) = Len(ids)
      /\ \A i \in 1..Len(ids) : Pieces(ids)[i] = TokenText(ids, i)
  BY PiecesType
<1>4. /\ Pieces(segment) \in Seq(Seq(Symbols)) /\ Len(Pieces(segment)) = Len(ids) - start
      /\ \A i \in 1..(Len(ids) - start) : Pieces(segment)[i] = TokenText(segment, i)
  BY <1>1, PiecesType
<1>5. /\ From(Pieces(ids), c + 1) \in Seq(Seq(Symbols))
      /\ Len(From(Pieces(ids), c + 1)) = Len(ids) - c
      /\ \A i \in 1..(Len(ids) - c) : From(Pieces(ids), c + 1)[i] = Pieces(ids)[c + i]
  <2>1. c \in 0..Len(Pieces(ids))
    BY <1>3
  <2> QED BY <1>3, <2>1, Halves
<1>6. /\ From(Pieces(segment), c - start + 1) \in Seq(Seq(Symbols))
      /\ Len(From(Pieces(segment), c - start + 1)) = Len(ids) - c
      /\ \A i \in 1..(Len(ids) - c) :
           From(Pieces(segment), c - start + 1)[i] = Pieces(segment)[c - start + i]
  <2> DEFINE k == c - start
  <2>1. k \in 0..Len(Pieces(segment)) /\ Len(Pieces(segment)) - k = Len(ids) - c
    BY <1>4
  <2> HIDE DEF k
  <2>2. /\ From(Pieces(segment), k + 1) \in Seq(Seq(Symbols))
        /\ Len(From(Pieces(segment), k + 1)) = Len(ids) - c
        /\ \A i \in 1..(Len(ids) - c) : From(Pieces(segment), k + 1)[i] = Pieces(segment)[k + i]
    BY <1>4, <2>1, Halves, ZenonT(60)
  <2> QED BY <2>2 DEF k
<1>7. \A i \in 1..(Len(ids) - c) :
        From(Pieces(segment), c - start + 1)[i] = From(Pieces(ids), c + 1)[i]
  <2> TAKE i \in 1..(Len(ids) - c)
  <2>1. c + i \in 1..Len(ids) /\ c - start + i \in 1..(Len(ids) - start)
    OBVIOUS
  <2>2. Pieces(segment)[c - start + i] = TokenText(segment, c - start + i)
    BY <1>4, <2>1
  <2>3. Pieces(ids)[c + i] = TokenText(ids, c + i)
    BY <1>3, <2>1
  <2> QED BY <1>2, <1>5, <1>6, <2>2, <2>3
<1>8. From(Pieces(segment), c - start + 1) = From(Pieces(ids), c + 1)
  BY <1>5, <1>6, <1>7, SeqEqual, ZenonT(60)
<1> QED BY <1>5, <1>8 DEF segment

(* The buffer holds the text of its ids. *)
Decoded(b) ==
  /\ b.ids \in Seq(STRING)
  /\ b.checkpoint = Len(b.ids)
  /\ b.text = Decode(b.ids)

(* decode_streaming keeps the text of the tokens so far exact, and unless  *)
(* a character was cut in two before the delta it grows by what is sent.   *)
(* The overlap of the window catches the cut: decoded alone it ends in a   *)
(* replacement character, so the window's text does not begin with it.     *)
LEMMA DecodeStreamingExact ==
  ASSUME NEW delta \in Seq(STRING), Decoded(buf)
  PROVE  LET step == DecodeStreaming(delta) IN
           /\ Decoded(step.buf)
           /\ step.buf.ids = buf.ids \o delta
           /\ step.text \in Seq(Symbols)
           /\ ~Cut(buf.ids \o delta, Len(buf.ids)) => step.buf.text = buf.text \o step.text
<1> DEFINE ids == buf.ids \o delta
           c == buf.checkpoint
           start == IF c > Window THEN c - Window ELSE 0
           segment == From(ids, start + 1)
           overlap == Decode(SubSeq(ids, start + 1, c))
           new == From(Decode(segment), Len(overlap) + 1)
           rest == FlattenSeq(From(Pieces(ids), c + 1))
           step == DecodeStreaming(delta)
           Extended == [buf |-> [ids |-> ids, text |-> buf.text \o new, checkpoint |-> Len(ids)],
                        text |-> new]
<1>1. /\ ids \in Seq(STRING) /\ c = Len(buf.ids) /\ c \in 0..Len(ids)
      /\ Len(ids) = c + Len(delta) /\ Upto(ids, c) = buf.ids
  BY ConcatProperties, RestOf DEF Decoded
<1>2. step = IF delta = <<>> THEN [buf |-> buf, text |-> <<>>]
             ELSE IF \/ c = 0 \/ Len(ids) - c >= Interval \/ ~StartsWith(Decode(segment), overlap)
               THEN Realigned(ids) ELSE Extended
  BY DEF DecodeStreaming
<1>3. /\ start \in 0..Len(ids) /\ (c # 0 => start < c)
  BY <1>1, StreamAssumption DEF StreamAssumption
<1>4. c # 0 => /\ From(Pieces(segment), c - start + 1) = From(Pieces(ids), c + 1)
               /\ start \in Nat /\ c \in Nat /\ start < c /\ c <= Len(ids)
  <2>1. c # 0 => start \in Nat /\ c \in Nat /\ start < c /\ c <= Len(ids)
    BY <1>1, <1>3
  <2> HIDE DEF ids, c, start
  <2> QED BY <1>1, <2>1, SameAfter
<1> HIDE DEF ids, c, start, step
<1>5. Decode(ids) \in Seq(Symbols) /\ buf.text = Decode(buf.ids) /\ buf.text \in Seq(Symbols)
  BY <1>1, DecodeType DEF Decoded
<1>6. rest \in Seq(Symbols)
  <2>1. Pieces(ids) \in Seq(Seq(Symbols)) /\ c \in 0..Len(Pieces(ids))
    BY <1>1, PiecesType
  <2>2. From(Pieces(ids), c + 1) \in Seq(Seq(Symbols))
    BY <2>1, Halves
  <2> QED BY <2>2, FlatType
<1>7. ~Cut(ids, c) => Decode(ids) = buf.text \o rest
  BY <1>1, <1>5, DecodeUncut
<1> DEFINE Goal == /\ Decoded(step.buf) /\ step.buf.ids = ids /\ step.text \in Seq(Symbols)
                   /\ ~Cut(ids, c) => step.buf.text = buf.text \o step.text
<1>8. ASSUME delta = <<>>, step = [buf |-> buf, text |-> <<>>] PROVE Goal
  <2>1. ids = buf.ids /\ buf.text \o <<>> = buf.text /\ <<>> \in Seq(Symbols)
    BY <1>5, <1>8, ConcatEmptySeq, EmptySeq DEF Decoded, ids
  <2>2. step.buf = buf /\ step.text = <<>>
    BY <1>8
  <2> QED BY <2>1, <2>2
<1>9. ASSUME step = Realigned(ids) PROVE Goal
  <2>1. /\ step.buf.ids = ids /\ step.buf.text = Decode(ids) /\ step.buf.checkpoint = Len(ids)
        /\ step.text = From(Decode(ids), Len(buf.text) + 1)
    BY <1>9 DEF Realigned
  <2>2. Decoded(step.buf)
    BY <1>1, <2>1 DEF Decoded
  <2>3. step.text \in Seq(Symbols)
    BY <1>5, <2>1, FromType
  <2>4. ASSUME ~Cut(ids, c) PROVE step.text = rest
    <3> HIDE DEF rest
    <3>1. From(buf.text \o rest, Len(buf.text) + 1) = rest
      BY <1>5, <1>6, RestOf
    <3> QED BY <1>7, <2>1, <2>4, <3>1
  <2> QED BY <1>7, <2>1, <2>2, <2>3, <2>4
<1>10. ASSUME c # 0, StartsWith(Decode(segment), overlap), step = Extended PROVE Goal
  <2> DEFINE k == c - start
  <2>1. start \in 0..Len(ids) /\ start < c /\ c <= Len(ids) /\ c \in Nat /\ start \in Nat
    BY <1>1, <1>3, <1>4, <1>10
  <2>2. /\ segment \in Seq(STRING) /\ Len(segment) = Len(ids) - start
        /\ \A i \in 1..(Len(ids) - start) : segment[i] = ids[start + i]
    BY <1>1, <2>1, Halves
  <2>3. k \in 1..Len(segment) /\ k \in 0..Len(segment) /\ start + k = c
    <3>1. Len(ids) \in Nat
      BY <1>1
    <3>2. k \in Nat /\ 1 <= k /\ k <= Len(ids) - start /\ start + k = c
      BY <2>1, <3>1
    <3> HIDE DEF segment, k
    <3> QED BY <2>1, <2>2, <3>1, <3>2
  <2>4. From(Pieces(segment), k + 1) = From(Pieces(ids), c + 1)
    BY <1>4, <1>10
  <2> HIDE DEF k
  <2>5. SubSeq(ids, start + 1, c) = Upto(segment, k)
    <3>1. /\ Upto(segment, k) \in Seq(STRING) /\ Len(Upto(segment, k)) = k
          /\ \A i \in 1..k : Upto(segment, k)[i] = segment[i]
      <4> HIDE DEF segment
      <4> QED BY <2>2, <2>3, Halves
    <3>2. /\ SubSeq(ids, start + 1, c) \in Seq(STRING) /\ Len(SubSeq(ids, start + 1, c)) = k
          /\ \A i \in 1..k : SubSeq(ids, start + 1, c)[i] = ids[start + i]
      <4>1. start + 1 \in Int /\ c \in Int /\ start + 1 <= c /\ c - (start + 1) + 1 = k
        BY <2>1, <2>3
      <4>2. \A i \in (start + 1)..c : ids[i] \in STRING
        BY <1>1, <2>1, ElementOfSeq
      <4>3. /\ SubSeq(ids, start + 1, c) \in Seq(STRING)
            /\ Len(SubSeq(ids, start + 1, c)) = IF start + 1 <= c THEN c - (start + 1) + 1 ELSE 0
            /\ \A i \in 1..(c - (start + 1) + 1) :
                 SubSeq(ids, start + 1, c)[i] = ids[start + 1 + i - 1]
        BY <4>1, <4>2, SubSeqProperties
      <4>4. \A i \in 1..k : start + 1 + i - 1 = start + i
        BY <2>1
      <4> QED BY <4>1, <4>3, <4>4
    <3>3. \A i \in 1..k : SubSeq(ids, start + 1, c)[i] = Upto(segment, k)[i]
      <4>1. \A i \in 1..k : i \in 1..(Len(ids) - start)
        BY <2>1, <2>3
      <4> HIDE DEF segment
      <4> QED BY <2>2, <3>1, <3>2, <4>1
    <3> HIDE DEF segment
    <3> QED BY <3>1, <3>2, <3>3, SeqEqual
  <2>6. overlap = Decode(Upto(segment, k))
    BY <2>5
  <2> HIDE DEF segment, overlap, rest
  <2>7. ~Cut(segment, k)
    BY <1>10, <2>2, <2>3, <2>6, DecodeCut
  <2>8. ~Cut(ids, c)
    <3>1. segment[k] = ids[c]
      BY <2>1, <2>2, <2>3
    <3>2. c < Len(ids) => k < Len(segment) /\ segment[k + 1] = ids[c + 1]
      <4>1. start + (k + 1) = c + 1
        BY <2>1, <2>3
      <4>2. c < Len(ids) => k + 1 \in 1..(Len(ids) - start)
        BY <1>1, <2>1, <2>3
      <4>3. c < Len(ids) => segment[k + 1] = ids[start + (k + 1)]
        BY <2>2, <4>2
      <4>4. c < Len(ids) => k < Len(segment)
        BY <1>1, <2>1, <2>2, <2>3
      <4> QED BY <4>1, <4>3, <4>4
    <3> QED BY <2>7, <3>1, <3>2 DEF Cut
  <2>9. Decode(segment) = overlap \o rest
    <3>1. Decode(segment) = Decode(Upto(segment, k)) \o FlattenSeq(From(Pieces(segment), k + 1))
      BY <2>2, <2>3, <2>7, DecodeUncut
    <3> QED BY <2>4, <2>6, <3>1 DEF rest
  <2>10. overlap \in Seq(Symbols)
    BY <2>2, <2>3, <2>6, Halves, DecodeType
  <2>11. new = rest
    BY <1>6, <2>9, <2>10, RestOf DEF rest
  <2> HIDE DEF new
  <2>12. Decode(ids) = buf.text \o new
    BY <1>7, <2>8, <2>11 DEF rest
  <2>13. /\ step.buf.ids = ids /\ step.buf.text = buf.text \o new
         /\ step.buf.checkpoint = Len(ids) /\ step.text = new
    BY <1>10
  <2>14. Decoded(step.buf)
    BY <1>1, <2>12, <2>13 DEF Decoded
  <2> QED BY <1>6, <2>11, <2>13, <2>14 DEF rest
<1>11. Goal
  <2> HIDE DEF Goal, Extended, overlap, segment
  <2> QED BY <1>2, <1>8, <1>9, <1>10
<1> QED BY <1>1, <1>11 DEF ids, step

(* The answer is made of tokens and the buffer is exact. *)
IInv ==
  /\ answer \in Seq(STRING)
  /\ pos \in 0..Len(answer)
  /\ Decoded(buf)

(* The invariant holds at the start.                                       *)
LEMMA InitHolds == Init => IInv
<1> SUFFICES ASSUME Init PROVE IInv
  OBVIOUS
<1>1. <<>> \in Seq(STRING) /\ Len(<<>>) = 0
  BY EmptySeq
<1>2. Decode(<<>>) = <<>>
  BY FlatNone DEF Decode
<1>3. answer \in Seq(STRING)
  BY StreamAssumption DEF Init, StreamAssumption
<1> QED BY <1>1, <1>2, <1>3 DEF Init, IInv, Decoded

(* Every step keeps the invariant.                                         *)
LEMMA NextHolds == IInv /\ [Next]_vars => IInv'
<1> SUFFICES ASSUME IInv, [Next]_vars PROVE IInv'
  OBVIOUS
<1>0. UNCHANGED answer => (answer \in Seq(STRING))'
  BY DEF IInv
<1>1. ASSUME NEW n \in 0..MaxChunk, NEW finish \in {"none", "stop", "length"}, Chunk(n, finish)
      PROVE  IInv'
  <2> DEFINE delta == SubSeq(answer, pos + 1, pos + n)
  <2>1. delta \in Seq(STRING)
    BY <1>1, StreamAssumption DEF IInv, StreamAssumption, Chunk
  <2>2. buf' = ParseStreamChunk(delta).buf
    BY <1>1 DEF Chunk
  <2>3. Decoded(ParseStreamChunk(delta).buf)
    BY <2>1, DecodeStreamingExact DEF ParseStreamChunk, IInv
  <2>4. (pos \in 0..Len(answer))' /\ answer' = answer
    BY <1>1, StreamAssumption DEF IInv, StreamAssumption, Chunk
  <2> HIDE DEF delta
  <2> QED BY <2>2, <2>3, <2>4 DEF IInv, Decoded
<1>2. CASE StreamDry
  BY <1>2 DEF StreamDry, IInv, Decoded
<1>3. CASE FinalizeStream
  BY <1>3 DEF FinalizeStream, IInv, Decoded
<1>4. ASSUME NEW n \in 0..Len(answer), NEW finish \in {"stop", "length"}, Process(n, finish)
      PROVE  IInv'
  BY <1>4 DEF Process, IInv, Decoded
<1>5. CASE UNCHANGED vars
  BY <1>5 DEF vars, IInv, Decoded
<1> QED BY <1>1, <1>2, <1>3, <1>4, <1>5 DEF Next

(* Whatever the tokens, the chunks, the window and the interval, the text  *)
(* the decoder keeps is the text of all tokens received: decoding them in  *)
(* parts, with an overlap, never differs from decoding them at once.       *)
THEOREM DecodedExactlyAlways == Spec => []DecodedExactly
<1>1. IInv => DecodedExactly
  BY DEF IInv, Decoded, DecodedExactly
<1> QED BY <1>1, InitHolds, NextHolds, PTL DEF Spec
=============================================================================

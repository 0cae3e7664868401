------------------------------- MODULE Texts -------------------------------
(***************************************************************************)
(* Texts as sequences of symbols.  A symbol stands for a piece of text     *)
(* that no operation of the parsers cuts in two; "ws" is white space.      *)
(***************************************************************************)
EXTENDS Naturals, Sequences, FiniteSetsExt

(* Where pattern occurs in text at position from or later. *)
Occurrences(text, pattern, from) ==
  {i \in from..(Len(text) - Len(pattern) + 1) :
     SubSeq(text, i, i + Len(pattern) - 1) = pattern}

Has(text, pattern) == Occurrences(text, pattern, 1) # {}

(* str.find: the first occurrence, 0 when there is none. *)
Find(text, pattern, from) ==
  LET at == Occurrences(text, pattern, from) IN IF at = {} THEN 0 ELSE Min(at)

Upto(text, i) == SubSeq(text, 1, i)

From(text, i) == SubSeq(text, i, Len(text))

(* str.partition without the separator; the text must contain pattern. *)
Before(text, pattern) == Upto(text, Find(text, pattern, 1) - 1)

After(text, pattern) == From(text, Find(text, pattern, 1) + Len(pattern))

Printed(text) == {i \in DOMAIN text : text[i] # "ws"}

Blank(text) == Printed(text) = {}

RStrip(text) == IF Blank(text) THEN <<>> ELSE Upto(text, Max(Printed(text)))

Strip(text) ==
  IF Blank(text) THEN <<>> ELSE From(RStrip(text), Min(Printed(text)))

Squeezed(text) == SelectSeq(text, LAMBDA s : s # "ws")

StartsWith(text, start) ==
  Len(start) <= Len(text) /\ Upto(text, Len(start)) = start

EndsWith(text, end) ==
  Len(end) <= Len(text) /\ From(text, Len(text) - Len(end) + 1) = end
=============================================================================

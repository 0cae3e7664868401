-------------------------- MODULE CoderStreamProofs --------------------------
(***************************************************************************)
(* Proofs about CoderStream: for every answer of the format and every way  *)
(* to cut it into deltas, what the streaming machine gives the client is a *)
(* beginning of the calls the answer writes, and all of them when the      *)
(* answer comes token by token; read as JSON, a complete call is the one   *)
(* that reading the whole answer at once gives.                            *)
(*                                                                         *)
(* An answer of the format has a stage at every place, from which its      *)
(* calls and their parameters can be told by counting tags.  Both readers  *)
(* are shown to agree with these counts: the regular expressions first,    *)
(* then, step by step, the machine.                                        *)
(***************************************************************************)
EXTENDS CoderStream, FiniteSetTheorems, SequenceTheorems, TLAPS

-----------------------------------------------------------------------------
(* Numbers, and symbols in a text.                                         *)

(* Induction over the natural numbers, for a set of them: what holds of 0  *)
(* and is passed on to the next number holds of all.  From n on the shift  *)
(* by one would put a finite set into a smaller one.                       *)
LEMMA Induct ==
  ASSUME NEW S, 0 \in S, \A n \in Nat : n \in S => n + 1 \in S
  PROVE  \A n \in Nat : n \in S
<1> SUFFICES ASSUME NEW n \in Nat, n \notin S PROVE FALSE
  OBVIOUS
<1> DEFINE A == {i \in 0..n : i \in S}
           B == A \ {0}
           f == [i \in A |-> i + 1]
<1>1. IsFiniteSet(A) /\ Cardinality(A) \in Nat
  <2>1. IsFiniteSet(0..n)
    BY FS_Interval
  <2>2. A \in SUBSET (0..n)
    OBVIOUS
  <2> QED BY <2>1, <2>2, FS_Subset, FS_CardinalityType
<1>2. IsFiniteSet(B) /\ Cardinality(B) = Cardinality(A) - 1
  <2>1. 0 \in A
    OBVIOUS
  <2> QED BY <1>1, <2>1, FS_RemoveElement
<1>3. f \in Injection(A, B)
  <2>1. \A i \in A : i + 1 \in B
    OBVIOUS
  <2> QED BY <2>1 DEF Injection, IsInjective
<1>4. Cardinality(A) <= Cardinality(B)
  <2> HIDE DEF A, B, f
  <2> QED BY <1>2, <1>3, FS_Injection
<1> HIDE DEF A, B, f
<1> QED BY <1>1, <1>2, <1>4

(* A set with a natural number has a least one.                            *)
LEMMA Least ==
  ASSUME NEW S, NEW n \in Nat, n \in S
  PROVE  \E m \in Nat : m \in S /\ \A k \in Nat : k \in S => m <= k
<1> SUFFICES ASSUME \A m \in Nat : m \in S => \E k \in Nat : k \in S /\ ~(m <= k)
             PROVE  FALSE
  OBVIOUS
<1> DEFINE T == {i \in Nat : \A j \in 0..i : j \notin S}
<1>1. 0 \in T
  <2>1. 0 \notin S
    OBVIOUS
  <2> QED BY <2>1
<1>2. ASSUME NEW i \in Nat, i \in T PROVE i + 1 \in T
  <2>1. \A j \in 0..i : j \notin S
    BY <1>2
  <2>2. i + 1 \notin S
    <3> SUFFICES ASSUME i + 1 \in S PROVE FALSE
      OBVIOUS
    <3>1. PICK k \in Nat : k \in S /\ ~(i + 1 <= k)
      OBVIOUS
    <3>2. k \in 0..i
      BY <3>1
    <3> QED BY <2>1, <3>1, <3>2
  <2>3. \A j \in 0..(i + 1) : j \in 0..i \/ j = i + 1
    OBVIOUS
  <2> QED BY <2>1, <2>2, <2>3
<1>3. n \in T
  <2> HIDE DEF T
  <2> QED BY <1>1, <1>2, Induct
<1> QED BY <1>3

(* A sequence of one element.                                              *)
LEMMA One ==
  ASSUME NEW X, NEW a \in X
  PROVE  <<a>> \in Seq(X) /\ Len(<<a>>) = 1 /\ <<a>>[1] = a
OBVIOUS

(* A part of a sequence.                                                   *)
LEMMA Window ==
  ASSUME NEW X, NEW s \in Seq(X), NEW l \in Nat \ {0}, NEW h \in Nat, h <= Len(s), l <= h + 1
  PROVE  /\ SubSeq(s, l, h) \in Seq(X)
         /\ Len(SubSeq(s, l, h)) = h - l + 1
         /\ \A i \in 1..(h - l + 1) : SubSeq(s, l, h)[i] = s[l + i - 1]
<1>1. \A i \in l..h : s[i] \in X
  BY ElementOfSeq
<1> QED BY <1>1, SubSeqProperties

(* The occurrences of one symbol.                                          *)
LEMMA OccOne ==
  ASSUME NEW X, NEW text \in Seq(X), NEW s \in X, NEW from \in Nat \ {0}
  PROVE  Occurrences(text, <<s>>, from) = {i \in from..Len(text) : text[i] = s}
<1>1. Len(<<s>>) = 1 /\ <<s>> \in Seq(X) /\ <<s>>[1] = s
  BY One
<1>2. Len(text) \in Nat /\ Len(text) - 1 + 1 = Len(text)
  OBVIOUS
<1>3. ASSUME NEW i \in from..Len(text)
      PROVE  SubSeq(text, i, i + 1 - 1) = <<s>> <=> text[i] = s
  <2>1. i \in Nat \ {0} /\ i <= Len(text) /\ i + 1 - 1 = i
    BY <1>2
  <2>2. /\ SubSeq(text, i, i) \in Seq(X) /\ Len(SubSeq(text, i, i)) = 1
        /\ SubSeq(text, i, i)[1] = text[i]
    <3>1. /\ SubSeq(text, i, i) \in Seq(X) /\ Len(SubSeq(text, i, i)) = i - i + 1
          /\ \A j \in 1..(i - i + 1) : SubSeq(text, i, i)[j] = text[i + j - 1]
      BY <2>1, Window
    <3>2. i - i + 1 = 1 /\ i + 1 - 1 = i
      BY <2>1
    <3> QED BY <3>1, <3>2
  <2>3. text[i] = s => \A j \in 1..1 : SubSeq(text, i, i)[j] = <<s>>[j]
    BY <1>1, <2>2
  <2>4. text[i] = s => SubSeq(text, i, i) = <<s>>
    BY <1>1, <2>2, <2>3, SeqEqual
  <2>5. SubSeq(text, i, i) = <<s>> => text[i] = s
    BY <1>1, <2>2
  <2> QED BY <2>1, <2>4, <2>5
<1>4. Occurrences(text, <<s>>, from)
        = {i \in from..Len(text) : SubSeq(text, i, i + 1 - 1) = <<s>>}
  BY <1>1, <1>2 DEF Occurrences
<1> QED BY <1>3, <1>4

(* A text has a symbol when the symbol stands somewhere in it.             *)
LEMMA HasOne ==
  ASSUME NEW X, NEW text \in Seq(X), NEW s \in X
  PROVE  Has(text, <<s>>) <=> \E i \in 1..Len(text) : text[i] = s
<1>1. Occurrences(text, <<s>>, 1) = {i \in 1..Len(text) : text[i] = s}
  BY OccOne
<1> QED BY <1>1 DEF Has

(* The least number of a set.                                              *)
LEMMA MinIs ==
  ASSUME NEW S \in SUBSET Nat, NEW m \in S, \A x \in S : m <= x
  PROVE  Min(S) = m
<1>1. \A y \in S : (\A x \in S : y <= x) => y = m
  OBVIOUS
<1> QED BY <1>1 DEF Min

(* The first occurrence of one symbol.                                     *)
LEMMA FindOne ==
  ASSUME NEW X, NEW text \in Seq(X), NEW s \in X, NEW from \in Nat \ {0}
  PROVE  /\ (\A i \in from..Len(text) : text[i] # s) => Find(text, <<s>>, from) = 0
         /\ \A i \in from..Len(text) :
              text[i] = s /\ (\A j \in from..(i - 1) : text[j] # s)
                => Find(text, <<s>>, from) = i
<1> DEFINE at == {i \in from..Len(text) : text[i] = s}
<1>1. Occurrences(text, <<s>>, from) = at
  BY OccOne
<1>2. Find(text, <<s>>, from) = IF at = {} THEN 0 ELSE Min(at)
  BY <1>1 DEF Find
<1>3. (\A i \in from..Len(text) : text[i] # s) => at = {}
  OBVIOUS
<1>4. ASSUME NEW i \in from..Len(text), text[i] = s, \A j \in from..(i - 1) : text[j] # s
      PROVE  at # {} /\ Min(at) = i
  <2>1. i \in at /\ at \in SUBSET Nat
    BY <1>4
  <2>2. \A j \in at : i <= j
    <3> SUFFICES ASSUME NEW j \in at, ~(i <= j) PROVE FALSE
      OBVIOUS
    <3>1. j \in from..(i - 1) /\ text[j] = s
      BY <1>4
    <3> QED BY <1>4, <3>1
  <2> HIDE DEF at
  <2> QED BY <2>1, <2>2, MinIs
<1> HIDE DEF at
<1> QED BY <1>2, <1>3, <1>4

(* A symbol is found where it first stands. *)
LEMMA FindHere ==
  ASSUME NEW X, NEW text \in Seq(X), NEW s \in X, NEW from \in Nat \ {0},
         NEW i \in from..Len(text), text[i] = s, \A j \in from..(i - 1) : text[j] # s
  PROVE  Find(text, <<s>>, from) = i
BY FindOne

(* How many of the first n symbols of a text are s. *)
No(text, s, n) == Cardinality({i \in 1..n : text[i] = s})

(* Nothing occurs before the text begins.                                  *)
LEMMA NoBase ==
  ASSUME NEW text, NEW s
  PROVE  No(text, s, 0) = 0
<1>1. {i \in 1..0 : text[i] = s} = {}
  OBVIOUS
<1> QED BY <1>1, FS_EmptySet DEF No

(* One more symbol counts when it is s.                                    *)
LEMMA NoStep ==
  ASSUME NEW text, NEW s, NEW n \in Nat
  PROVE  /\ No(text, s, n) \in Nat
         /\ No(text, s, n + 1) = No(text, s, n) + (IF text[n + 1] = s THEN 1 ELSE 0)
<1> DEFINE A(m) == {i \in 1..m : text[i] = s}
<1>1. IsFiniteSet(A(n)) /\ Cardinality(A(n)) \in Nat
  <2>1. IsFiniteSet(1..n)
    BY FS_Interval
  <2>2. A(n) \in SUBSET (1..n)
    OBVIOUS
  <2> HIDE DEF A
  <2> QED BY <2>1, <2>2, FS_Subset, FS_CardinalityType
<1>2. n + 1 \notin A(n)
  OBVIOUS
<1>3. text[n + 1] = s => A(n + 1) = A(n) \cup {n + 1}
  OBVIOUS
<1>4. text[n + 1] # s => A(n + 1) = A(n)
  OBVIOUS
<1>5. Cardinality(A(n) \cup {n + 1}) = Cardinality(A(n)) + 1
  <2> HIDE DEF A
  <2> QED BY <1>1, <1>2, FS_AddElement
<1>6. No(text, s, n) = Cardinality(A(n)) /\ No(text, s, n + 1) = Cardinality(A(n + 1))
  BY DEF No
<1> HIDE DEF A
<1> QED BY <1>1, <1>3, <1>4, <1>5, <1>6

(* The count only grows.                                                   *)
LEMMA NoGrows ==
  ASSUME NEW text, NEW s, NEW m \in Nat, NEW n \in Nat, m <= n
  PROVE  No(text, s, m) <= No(text, s, n)
<1> DEFINE S == {d \in Nat : No(text, s, m) <= No(text, s, m + d)}
<1>1. 0 \in S
  <2>1. m + 0 = m /\ No(text, s, m) \in Nat
    BY NoStep
  <2> QED BY <2>1
<1>2. ASSUME NEW d \in Nat, d \in S PROVE d + 1 \in S
  <2>1. m + d \in Nat /\ m + (d + 1) = (m + d) + 1
    OBVIOUS
  <2>2. No(text, s, m) \in Nat
    BY NoStep
  <2>3. /\ No(text, s, m + d) \in Nat
        /\ No(text, s, m + (d + 1)) = No(text, s, m + d) + (IF text[m + d + 1] = s THEN 1 ELSE 0)
    BY <2>1, NoStep
  <2> QED BY <1>2, <2>2, <2>3
<1>3. n - m \in S
  <2> HIDE DEF S
  <2> QED BY <1>1, <1>2, Induct
<1>4. m + (n - m) = n
  OBVIOUS
<1> QED BY <1>3, <1>4

(* The same, looking back.                                                 *)
LEMMA NoPrevious ==
  ASSUME NEW text, NEW s, NEW n \in Nat \ {0}
  PROVE  /\ No(text, s, n) \in Nat /\ No(text, s, n - 1) \in Nat
         /\ No(text, s, n) = No(text, s, n - 1) + (IF text[n] = s THEN 1 ELSE 0)
<1>1. n - 1 \in Nat /\ n - 1 + 1 = n
  OBVIOUS
<1> QED BY <1>1, NoStep

(* The count stays where the symbol does not stand.                        *)
LEMMA NoSame ==
  ASSUME NEW text, NEW s, NEW m \in Nat, NEW n \in Nat, m <= n,
         \A i \in (m + 1)..n : text[i] # s
  PROVE  No(text, s, m) = No(text, s, n)
<1> DEFINE S == {d \in Nat : m + d <= n => No(text, s, m) = No(text, s, m + d)}
<1>1. 0 \in S
  <2>1. m + 0 = m
    OBVIOUS
  <2> QED BY <2>1
<1>2. ASSUME NEW d \in Nat, d \in S PROVE d + 1 \in S
  <2>1. m + d \in Nat /\ m + (d + 1) = (m + d) + 1
    OBVIOUS
  <2>2. m + (d + 1) <= n => text[m + d + 1] # s
    OBVIOUS
  <2>3. /\ No(text, s, m + d) \in Nat
        /\ No(text, s, m + (d + 1)) = No(text, s, m + d) + (IF text[m + d + 1] = s THEN 1 ELSE 0)
    BY <2>1, NoStep
  <2> QED BY <1>2, <2>2, <2>3
<1>3. n - m \in S
  <2> HIDE DEF S
  <2> QED BY <1>1, <1>2, Induct
<1>4. m + (n - m) = n
  OBVIOUS
<1> QED BY <1>3, <1>4

(* The k-th occurrence exists and is the only one. *)
LEMMA NoReached ==
  ASSUME NEW text, NEW s, NEW n \in Nat, NEW k \in Nat \ {0}, k <= No(text, s, n)
  PROVE  \E i \in 1..n : text[i] = s /\ No(text, s, i) = k
<1> DEFINE S == {m \in Nat : k <= No(text, s, m)}
<1>1. PICK i \in Nat : i \in S /\ \A j \in Nat : j \in S => i <= j
  <2>1. n \in S
    OBVIOUS
  <2> HIDE DEF S
  <2> QED BY <2>1, Least
<1>2. i <= n /\ k <= No(text, s, i)
  BY <1>1
<1>3. i # 0
  BY <1>2, NoBase
<1>4. i - 1 \notin S
  BY <1>1, <1>3
<1>5. ~(k <= No(text, s, i - 1))
  BY <1>3, <1>4
<1>6. /\ No(text, s, i) \in Nat /\ No(text, s, i - 1) \in Nat
      /\ No(text, s, i) = No(text, s, i - 1) + (IF text[i] = s THEN 1 ELSE 0)
  BY <1>3, NoPrevious
<1>7. text[i] = s /\ No(text, s, i) = k
  BY <1>2, <1>5, <1>6
<1> QED BY <1>2, <1>3, <1>7

(* Two occurrences have different counts.                                  *)
LEMMA NoUnique ==
  ASSUME NEW text, NEW s, NEW i \in Nat \ {0}, NEW j \in Nat \ {0}, text[i] = s, text[j] = s
  PROVE  /\ No(text, s, i) = No(text, s, j) => i = j
         /\ i < j => No(text, s, i) < No(text, s, j)
<1>1. ASSUME NEW x \in Nat \ {0}, NEW y \in Nat \ {0}, text[y] = s, x < y
      PROVE  No(text, s, x) < No(text, s, y)
  <2>1. No(text, s, x) <= No(text, s, y - 1)
    <3>1. y - 1 \in Nat /\ x <= y - 1
      BY <1>1
    <3> QED BY <3>1, NoGrows
  <2>2. /\ No(text, s, y) \in Nat /\ No(text, s, y - 1) \in Nat /\ No(text, s, x) \in Nat
        /\ No(text, s, y) = No(text, s, y - 1) + 1
    BY <1>1, NoPrevious
  <2> QED BY <2>1, <2>2
<1>2. No(text, s, i) \in Nat /\ No(text, s, j) \in Nat
  BY NoStep
<1>3. i < j => No(text, s, i) < No(text, s, j)
  BY <1>1
<1>4. j < i => No(text, s, j) < No(text, s, i)
  BY <1>1
<1> QED BY <1>2, <1>3, <1>4

(* Count counts the occurrences in the whole text.                         *)
LEMMA CountIsNo ==
  ASSUME NEW X, NEW text \in Seq(X), NEW s \in X
  PROVE  Count(text, s) = No(text, s, Len(text))
<1>1. Occurrences(text, <<s>>, 1) = {i \in 1..Len(text) : text[i] = s}
  BY OccOne
<1> QED BY <1>1 DEF Count, No

(* Counting in a part of a text. *)
LEMMA NoWindow ==
  ASSUME NEW X, NEW text \in Seq(X), NEW s, NEW l \in Nat \ {0}, NEW h \in Nat,
         h <= Len(text), l <= h + 1, NEW n \in 0..(h - l + 1)
  PROVE  No(SubSeq(text, l, h), s, n) = No(text, s, l - 1 + n) - No(text, s, l - 1)
<1> DEFINE w == SubSeq(text, l, h)
           S == {m \in Nat : m <= h - l + 1 =>
                   No(w, s, m) = No(text, s, l - 1 + m) - No(text, s, l - 1)}
<1>1. \A i \in 1..(h - l + 1) : w[i] = text[l + i - 1]
  BY Window
<1> HIDE DEF w
<1>2. l - 1 \in Nat /\ No(text, s, l - 1) \in Nat
  BY NoStep
<1>3. 0 \in S
  <2>1. l - 1 + 0 = l - 1 /\ No(w, s, 0) = 0
    BY <1>2, NoBase
  <2> QED BY <1>2, <2>1
<1>4. ASSUME NEW m \in Nat, m \in S PROVE m + 1 \in S
  <2> SUFFICES ASSUME m + 1 <= h - l + 1
               PROVE  No(w, s, m + 1) = No(text, s, l - 1 + (m + 1)) - No(text, s, l - 1)
    OBVIOUS
  <2>1. w[m + 1] = text[l - 1 + m + 1]
    <3>1. m + 1 \in 1..(h - l + 1) /\ l + (m + 1) - 1 = l - 1 + m + 1
      OBVIOUS
    <3> QED BY <1>1, <3>1
  <2>2. /\ No(w, s, m) \in Nat
        /\ No(w, s, m + 1) = No(w, s, m) + (IF w[m + 1] = s THEN 1 ELSE 0)
    BY NoStep
  <2> DEFINE k == l - 1 + m
  <2>3. k \in Nat /\ l - 1 + (m + 1) = k + 1
    BY <1>2
  <2> HIDE DEF k
  <2>6. /\ No(text, s, k) \in Nat
        /\ No(text, s, k + 1) = No(text, s, k) + (IF text[k + 1] = s THEN 1 ELSE 0)
    BY ONLY <2>3, NoStep, SMTT(30)
  <2>4. /\ No(text, s, l - 1 + m) \in Nat
        /\ No(text, s, l - 1 + (m + 1))
             = No(text, s, l - 1 + m) + (IF text[l - 1 + m + 1] = s THEN 1 ELSE 0)
    BY <2>3, <2>6 DEF k
  <2>5. No(w, s, m) = No(text, s, l - 1 + m) - No(text, s, l - 1)
    BY <1>4
  <2> QED BY <1>2, <2>1, <2>2, <2>4, <2>5
<1>5. n \in S
  <2> HIDE DEF S
  <2> QED BY <1>3, <1>4, Induct
<1> QED BY <1>5 DEF w

-----------------------------------------------------------------------------
(* The format: the stages of an answer, its calls and their parameters.    *)

(* What an answer is made of.                                              *)
Symbols == STRING \cup Tags \cup {">", "ws"}

(* The stages of an answer of the format.                                  *)
Stages == {"text", "call", "name", "named", "body", "key", "keyed", "value", "end", "after"}

(* The stages of a text of the format. *)
Staged(a, st) ==
  /\ st[0] = "text"
  /\ \A i \in 1..Len(a) : st[i] = Stage(st[i - 1], a[i])
  /\ \A i \in 0..Len(a) : st[i] \in Stages
  /\ st[Len(a)] \in {"text", "after"}

(* What leads from one stage to the next.                                  *)
LEMMA StageIs ==
  ASSUME NEW s \in Stages, NEW x, NEW t, t = Stage(s, x), t # "broken"
  PROVE  \/ s = "text" /\ x \notin Tags /\ t = "text"
         \/ s = "text" /\ x = "<tool_call>" /\ t = "call"
         \/ s = "after" /\ x = "<tool_call>" /\ t = "call"
         \/ s = "call" /\ x = "ws" /\ t = "call"
         \/ s = "call" /\ x = "<function=" /\ t = "name"
         \/ s = "name" /\ x \notin Tags \cup {">"} /\ t = "named"
         \/ s = "named" /\ x = ">" /\ t = "body"
         \/ s = "body" /\ x = "ws" /\ t = "body"
         \/ s = "body" /\ x = "<parameter=" /\ t = "key"
         \/ s = "key" /\ x \notin Tags \cup {">"} /\ t = "keyed"
         \/ s = "keyed" /\ x = ">" /\ t = "value"
         \/ s = "value" /\ x \notin Tags /\ t = "value"
         \/ s = "value" /\ x = "</parameter>" /\ t = "body"
         \/ s = "body" /\ x = "</function>" /\ t = "end"
         \/ s = "end" /\ x = "ws" /\ t = "end"
         \/ s = "end" /\ x = "</tool_call>" /\ t = "after"
         \/ s = "after" /\ x = "ws" /\ t = "after"
<1>1. /\ "ws" \notin Tags /\ "<tool_call>" \in Tags
  BY DEF Tags
<1> QED BY <1>1 DEF Stage, Stages

(* An answer of the format has stages.                                     *)
LEMMA StagesOf ==
  ASSUME NEW a \in Seq(Symbols), WellFormed(a)
  PROVE  \E st : Staged(a, st)
<1> DEFINE n == Len(a)
    Is(f, m) == f = [i \in 0..m |-> IF i = 0 THEN "text" ELSE Stage(f[i - 1], a[i])]
    S == {m \in Nat : \E f : Is(f, m)}
<1>0. n \in Nat
  OBVIOUS
<1>1. 0 \in S
  <2>1. Is([i \in 0..0 |-> "text"], 0)
    OBVIOUS
  <2> QED BY <2>1
<1>2. ASSUME NEW m \in Nat, m \in S PROVE m + 1 \in S
  <2>1. PICK f : Is(f, m)
    BY <1>2
  <2> DEFINE g == [i \in 0..(m + 1) |-> IF i <= m THEN f[i] ELSE Stage(f[m], a[m + 1])]
  <2>2. Is(g, m + 1)
    <3>1. ASSUME NEW i \in 0..(m + 1)
          PROVE  g[i] = IF i = 0 THEN "text" ELSE Stage(g[i - 1], a[i])
      <4>1. CASE i <= m
        <5>1. i \in 0..m
          BY <4>1
        <5>2. f[i] = IF i = 0 THEN "text" ELSE Stage(f[i - 1], a[i])
          BY <2>1, <5>1
        <5>3. i # 0 => i - 1 \in 0..(m + 1) /\ i - 1 <= m
          BY <5>1
        <5> QED BY <5>1, <5>2, <5>3, <4>1
      <4>2. CASE i = m + 1
        <5>1. g[i] = Stage(f[m], a[m + 1]) /\ g[i - 1] = f[m] /\ i # 0
          BY <4>2
        <5> QED BY <5>1, <4>2
      <4> QED BY <4>1, <4>2
    <3> QED BY <3>1
  <2>3. m + 1 \in Nat /\ \E k : Is(k, m + 1)
    <3> HIDE DEF g, Is
    <3> QED BY <2>2
  <2> QED BY <2>3
<1>3. n \in S
  <2> HIDE DEF S
  <2> QED BY <1>0, <1>1, <1>2, Induct
<1>4. PICK f : Is(f, n)
  BY <1>3
<1> DEFINE st == CHOOSE f1 : Is(f1, n)
<1>5. Is(st, n)
  BY <1>4
<1>6. st[n] \in {"text", "after"}
  BY DEF WellFormed
<1> HIDE DEF st
<1>7. st[0] = "text"
  BY <1>0, <1>5
<1>8. \A i \in 1..n : st[i] = Stage(st[i - 1], a[i])
  <2> DEFINE rhs(i) == IF i = 0 THEN "text" ELSE Stage(st[i - 1], a[i])
  <2>1. st = [i \in 0..n |-> rhs(i)]
    BY <1>5
  <2>2. \A i \in 0..n : st[i] = rhs(i)
    <3> HIDE DEF rhs
    <3> QED BY <2>1
  <2>3. \A i \in 1..n : i \in 0..n /\ i # 0
    OBVIOUS
  <2> QED BY <2>2, <2>3
<1>9. \A i \in 0..n : st[i] # "broken"
  <2> DEFINE B == {d \in Nat : d <= n => st[n - d] # "broken"}
  <2>1. 0 \in B
    BY <1>0, <1>6
  <2>2. ASSUME NEW d \in Nat, d \in B PROVE d + 1 \in B
    <3> SUFFICES ASSUME d + 1 <= n, st[n - (d + 1)] = "broken" PROVE FALSE
      OBVIOUS
    <3>1. n - d \in 1..n /\ n - d - 1 = n - (d + 1)
      BY <1>0
    <3>2. st[n - d] = Stage("broken", a[n - d])
      BY <1>8, <3>1
    <3>3. st[n - d] = "broken"
      BY <3>2 DEF Stage
    <3> QED BY <2>2, <3>3
  <2>3. \A d \in Nat : d \in B
    <3> HIDE DEF B
    <3> QED BY <2>1, <2>2, Induct
  <2>4. \A i \in 0..n : n - i \in Nat /\ n - i <= n /\ n - (n - i) = i
    BY <1>0
  <2>5. ASSUME NEW i \in 0..n PROVE st[i] # "broken"
    <3>1. n - i \in B
      BY <2>3, <2>4
    <3> QED BY <2>4, <3>1
  <2> QED BY <2>5
<1>10. \A i \in 0..n : st[i] \in Stages
  <2> DEFINE B == {d \in Nat : d <= n => st[d] \in Stages}
  <2>1. 0 \in B
    BY <1>7 DEF Stages
  <2>2. ASSUME NEW d \in Nat, d \in B PROVE d + 1 \in B
    <3> SUFFICES ASSUME d + 1 <= n PROVE st[d + 1] \in Stages
      OBVIOUS
    <3>1. d + 1 \in 1..n /\ d + 1 - 1 = d /\ d + 1 \in 0..n
      OBVIOUS
    <3>2. st[d + 1] = Stage(st[d], a[d + 1])
      BY <1>8, <3>1
    <3>3. st[d] \in Stages /\ st[d + 1] # "broken"
      BY <1>9, <2>2, <3>1
    <3> DEFINE s == st[d]
               t == st[d + 1]
               x == a[d + 1]
    <3>4. s \in Stages /\ t # "broken" /\ t = Stage(s, x)
      BY <3>2, <3>3
    <3> HIDE DEF s, t, x
    <3>5. t \in Stages
      BY <3>4, StageIs DEF Stages
    <3> QED BY <3>5 DEF t
  <2>3. \A d \in Nat : d \in B
    <3> HIDE DEF B
    <3> QED BY <2>1, <2>2, Induct
  <2> QED BY <2>3
<1> QED BY <1>6, <1>7, <1>8, <1>10 DEF Staged

(* One step of the stages. *)
LEMMA StageStep ==
  ASSUME NEW a \in Seq(Symbols), NEW st, Staged(a, st), NEW i \in 1..Len(a)
  PROVE  \/ st[i - 1] = "text" /\ a[i] \notin Tags /\ st[i] = "text"
         \/ st[i - 1] = "text" /\ a[i] = "<tool_call>" /\ st[i] = "call"
         \/ st[i - 1] = "after" /\ a[i] = "<tool_call>" /\ st[i] = "call"
         \/ st[i - 1] = "call" /\ a[i] = "ws" /\ st[i] = "call"
         \/ st[i - 1] = "call" /\ a[i] = "<function=" /\ st[i] = "name"
         \/ st[i - 1] = "name" /\ a[i] \notin Tags \cup {">"} /\ st[i] = "named"
         \/ st[i - 1] = "named" /\ a[i] = ">" /\ st[i] = "body"
         \/ st[i - 1] = "body" /\ a[i] = "ws" /\ st[i] = "body"
         \/ st[i - 1] = "body" /\ a[i] = "<parameter=" /\ st[i] = "key"
         \/ st[i - 1] = "key" /\ a[i] \notin Tags \cup {">"} /\ st[i] = "keyed"
         \/ st[i - 1] = "keyed" /\ a[i] = ">" /\ st[i] = "value"
         \/ st[i - 1] = "value" /\ a[i] \notin Tags /\ st[i] = "value"
         \/ st[i - 1] = "value" /\ a[i] = "</parameter>" /\ st[i] = "body"
         \/ st[i - 1] = "body" /\ a[i] = "</function>" /\ st[i] = "end"
         \/ st[i - 1] = "end" /\ a[i] = "ws" /\ st[i] = "end"
         \/ st[i - 1] = "end" /\ a[i] = "</tool_call>" /\ st[i] = "after"
         \/ st[i - 1] = "after" /\ a[i] = "ws" /\ st[i] = "after"
<1> DEFINE s == st[i - 1]
           t == st[i]
           x == a[i]
<1>1. s \in Stages /\ t \in Stages /\ t = Stage(s, x)
  BY DEF Staged
<1>2. t # "broken"
  BY <1>1 DEF Stages
<1> HIDE DEF s, t, x
<1>3. \/ s = "text" /\ x \notin Tags /\ t = "text"
      \/ s = "text" /\ x = "<tool_call>" /\ t = "call"
      \/ s = "after" /\ x = "<tool_call>" /\ t = "call"
      \/ s = "call" /\ x = "ws" /\ t = "call"
      \/ s = "call" /\ x = "<function=" /\ t = "name"
      \/ s = "name" /\ x \notin Tags \cup {">"} /\ t = "named"
      \/ s = "named" /\ x = ">" /\ t = "body"
      \/ s = "body" /\ x = "ws" /\ t = "body"
      \/ s = "body" /\ x = "<parameter=" /\ t = "key"
      \/ s = "key" /\ x \notin Tags \cup {">"} /\ t = "keyed"
      \/ s = "keyed" /\ x = ">" /\ t = "value"
      \/ s = "value" /\ x \notin Tags /\ t = "value"
      \/ s = "value" /\ x = "</parameter>" /\ t = "body"
      \/ s = "body" /\ x = "</function>" /\ t = "end"
      \/ s = "end" /\ x = "ws" /\ t = "end"
      \/ s = "end" /\ x = "</tool_call>" /\ t = "after"
      \/ s = "after" /\ x = "ws" /\ t = "after"
  BY <1>1, <1>2, StageIs
<1> QED BY <1>3 DEF s, t, x

(* The same, from a place to the next. *)
LEMMA StageNext ==
  ASSUME NEW a \in Seq(Symbols), NEW st, Staged(a, st),
         NEW j \in 1..Len(a), NEW i, j = i + 1, i \in Nat
  PROVE  \/ st[i] = "text" /\ a[j] \notin Tags /\ st[j] = "text"
         \/ st[i] = "text" /\ a[j] = "<tool_call>" /\ st[j] = "call"
         \/ st[i] = "after" /\ a[j] = "<tool_call>" /\ st[j] = "call"
         \/ st[i] = "call" /\ a[j] = "ws" /\ st[j] = "call"
         \/ st[i] = "call" /\ a[j] = "<function=" /\ st[j] = "name"
         \/ st[i] = "name" /\ a[j] \notin Tags \cup {">"} /\ st[j] = "named"
         \/ st[i] = "named" /\ a[j] = ">" /\ st[j] = "body"
         \/ st[i] = "body" /\ a[j] = "ws" /\ st[j] = "body"
         \/ st[i] = "body" /\ a[j] = "<parameter=" /\ st[j] = "key"
         \/ st[i] = "key" /\ a[j] \notin Tags \cup {">"} /\ st[j] = "keyed"
         \/ st[i] = "keyed" /\ a[j] = ">" /\ st[j] = "value"
         \/ st[i] = "value" /\ a[j] \notin Tags /\ st[j] = "value"
         \/ st[i] = "value" /\ a[j] = "</parameter>" /\ st[j] = "body"
         \/ st[i] = "body" /\ a[j] = "</function>" /\ st[j] = "end"
         \/ st[i] = "end" /\ a[j] = "ws" /\ st[j] = "end"
         \/ st[i] = "end" /\ a[j] = "</tool_call>" /\ st[j] = "after"
         \/ st[i] = "after" /\ a[j] = "ws" /\ st[j] = "after"
<1>1. i = j - 1
  OBVIOUS
<1> QED BY <1>1, StageStep

(* The tags; a line break is none, and neither is the end of a name.       *)
LEMMA TagsAre ==
  /\ "<tool_call>" \in Tags /\ "<function=" \in Tags /\ "<parameter=" \in Tags
  /\ "</parameter>" \in Tags /\ "</function>" \in Tags /\ "</tool_call>" \in Tags
  /\ "ws" \notin Tags /\ ">" \notin Tags /\ "ws" # ">"
BY DEF Tags

(* How many of each tag stand before a place, by its stage. *)
Level(a, st, i) ==
  LET opens == No(a, "<tool_call>", i)
      functions == No(a, "<function=", i)
      keys == No(a, "<parameter=", i)
      values == No(a, "</parameter>", i)
      over == No(a, "</function>", i)
      closes == No(a, "</tool_call>", i)
  IN /\ st[i] = "text" => opens = 0 /\ functions = 0 /\ over = 0 /\ closes = 0
     /\ st[i] = "after" => functions = opens /\ over = opens /\ closes = opens /\ opens > 0
     /\ st[i] = "call" => opens = functions + 1 /\ over = functions /\ closes = functions
     /\ st[i] \in {"name", "named", "body", "key", "keyed", "value"} =>
          opens = functions /\ opens = over + 1 /\ closes = over
     /\ st[i] = "end" => opens = functions /\ opens = over /\ opens = closes + 1
     /\ st[i] \in {"key", "keyed", "value"} => keys = values + 1
     /\ st[i] \notin {"key", "keyed", "value"} => keys = values

(* The counts at every place of an answer.                                 *)
LEMMA Levels ==
  ASSUME NEW a \in Seq(Symbols), NEW st, Staged(a, st)
  PROVE  \A i \in 0..Len(a) : Level(a, st, i)
<1> DEFINE S == {i \in Nat : i <= Len(a) => Level(a, st, i)}
<1>1. 0 \in S
  BY NoBase DEF Level, Staged
<1>2. ASSUME NEW i \in Nat, i \in S PROVE i + 1 \in S
  <2> SUFFICES ASSUME i + 1 <= Len(a) PROVE Level(a, st, i + 1)
    OBVIOUS
  <2>1. Level(a, st, i)
    BY <1>2
  <2>2. i + 1 \in 1..Len(a) /\ i + 1 - 1 = i
    OBVIOUS
  <2> DEFINE s == st[i]
             t == st[i + 1]
             x == a[i + 1]
  <2>3. \/ s = "text" /\ x \notin Tags /\ t = "text"
        \/ s = "text" /\ x = "<tool_call>" /\ t = "call"
        \/ s = "after" /\ x = "<tool_call>" /\ t = "call"
        \/ s = "call" /\ x = "ws" /\ t = "call"
        \/ s = "call" /\ x = "<function=" /\ t = "name"
        \/ s = "name" /\ x \notin Tags \cup {">"} /\ t = "named"
        \/ s = "named" /\ x = ">" /\ t = "body"
        \/ s = "body" /\ x = "ws" /\ t = "body"
        \/ s = "body" /\ x = "<parameter=" /\ t = "key"
        \/ s = "key" /\ x \notin Tags \cup {">"} /\ t = "keyed"
        \/ s = "keyed" /\ x = ">" /\ t = "value"
        \/ s = "value" /\ x \notin Tags /\ t = "value"
        \/ s = "value" /\ x = "</parameter>" /\ t = "body"
        \/ s = "body" /\ x = "</function>" /\ t = "end"
        \/ s = "end" /\ x = "ws" /\ t = "end"
        \/ s = "end" /\ x = "</tool_call>" /\ t = "after"
        \/ s = "after" /\ x = "ws" /\ t = "after"
    BY <2>2, StageStep
  <2> HIDE DEF s, t, x
  <2>4. \A y \in Tags : /\ No(a, y, i) \in Nat
                        /\ No(a, y, i + 1) = No(a, y, i) + (IF x = y THEN 1 ELSE 0)
    BY NoStep DEF x
  <2>5. ASSUME NEW y \in Tags PROVE x # y => No(a, y, i + 1) = No(a, y, i)
    BY <2>4
  <2> DEFINE o == No(a, "<tool_call>", i)
             f == No(a, "<function=", i)
             k == No(a, "<parameter=", i)
             v == No(a, "</parameter>", i)
             g == No(a, "</function>", i)
             e == No(a, "</tool_call>", i)
             o1 == No(a, "<tool_call>", i + 1)
             f1 == No(a, "<function=", i + 1)
             k1 == No(a, "<parameter=", i + 1)
             v1 == No(a, "</parameter>", i + 1)
             g1 == No(a, "</function>", i + 1)
             e1 == No(a, "</tool_call>", i + 1)
  <2>6. /\ o \in Nat /\ o1 = o + (IF x = "<tool_call>" THEN 1 ELSE 0)
        /\ f \in Nat /\ f1 = f + (IF x = "<function=" THEN 1 ELSE 0)
        /\ k \in Nat /\ k1 = k + (IF x = "<parameter=" THEN 1 ELSE 0)
        /\ v \in Nat /\ v1 = v + (IF x = "</parameter>" THEN 1 ELSE 0)
        /\ g \in Nat /\ g1 = g + (IF x = "</function>" THEN 1 ELSE 0)
        /\ e \in Nat /\ e1 = e + (IF x = "</tool_call>" THEN 1 ELSE 0)
    BY <2>4, TagsAre
  <2>7. /\ s = "text" => o = 0 /\ f = 0 /\ g = 0 /\ e = 0
        /\ s = "after" => f = o /\ g = o /\ e = o /\ o > 0
        /\ s = "call" => o = f + 1 /\ g = f /\ e = f
        /\ s \in {"name", "named", "body", "key", "keyed", "value"} =>
             o = f /\ o = g + 1 /\ e = g
        /\ s = "end" => o = f /\ o = g /\ o = e + 1
        /\ s \in {"key", "keyed", "value"} => k = v + 1
        /\ s \notin {"key", "keyed", "value"} => k = v
    BY <2>1 DEF Level, s
  <2> HIDE DEF o, f, k, v, g, e, o1, f1, k1, v1, g1, e1
  <2>8. /\ t = "text" => o1 = 0 /\ f1 = 0 /\ g1 = 0 /\ e1 = 0
        /\ t = "after" => f1 = o1 /\ g1 = o1 /\ e1 = o1 /\ o1 > 0
        /\ t = "call" => o1 = f1 + 1 /\ g1 = f1 /\ e1 = f1
        /\ t \in {"name", "named", "body", "key", "keyed", "value"} =>
             o1 = f1 /\ o1 = g1 + 1 /\ e1 = g1
        /\ t = "end" => o1 = f1 /\ o1 = g1 /\ o1 = e1 + 1
        /\ t \in {"key", "keyed", "value"} => k1 = v1 + 1
        /\ t \notin {"key", "keyed", "value"} => k1 = v1
    BY <2>3, <2>6, <2>7, TagsAre
  <2> QED BY <2>8 DEF Level, t, o1, f1, k1, v1, g1, e1
<1>3. \A i \in Nat : i \in S
  <2> HIDE DEF S
  <2> QED BY <1>1, <1>2, Induct
<1> QED BY <1>3

(* The place of the k-th occurrence of a symbol. *)
At(a, s, k) == CHOOSE i \in 1..Len(a) : a[i] = s /\ No(a, s, i) = k

(* The k-th occurrence is one, and its count is k.                         *)
LEMMA AtIs ==
  ASSUME NEW X, NEW a \in Seq(X), NEW s, NEW k \in 1..No(a, s, Len(a))
  PROVE  /\ At(a, s, k) \in 1..Len(a) /\ a[At(a, s, k)] = s /\ No(a, s, At(a, s, k)) = k
         /\ \A i \in 1..Len(a) : a[i] = s /\ No(a, s, i) = k => i = At(a, s, k)
<1>1. \E i \in 1..Len(a) : a[i] = s /\ No(a, s, i) = k
  <2>1. Len(a) \in Nat /\ No(a, s, Len(a)) \in Nat
    BY NoStep
  <2>2. k \in Nat \ {0} /\ k <= No(a, s, Len(a))
    BY <2>1
  <2> QED BY <2>1, <2>2, NoReached
<1>2. At(a, s, k) \in 1..Len(a) /\ a[At(a, s, k)] = s /\ No(a, s, At(a, s, k)) = k
  BY <1>1 DEF At
<1>3. \A i \in 1..Len(a) : a[i] = s /\ No(a, s, i) = k => i = At(a, s, k)
  <2>1. \A i \in 1..Len(a) : i \in Nat \ {0}
    OBVIOUS
  <2> QED BY <1>2, <2>1, NoUnique
<1> QED BY <1>2, <1>3

(* At least k of the first n symbols are s exactly when the k-th is there. *)
LEMMA AtReached ==
  ASSUME NEW X, NEW a \in Seq(X), NEW s, NEW i \in Nat \ {0}, a[i] = s, NEW n \in Nat
  PROVE  /\ i <= n <=> No(a, s, i) <= No(a, s, n)
         /\ No(a, s, i) \in Nat /\ No(a, s, n) \in Nat /\ No(a, s, i) > 0
<1>1. /\ No(a, s, i) \in Nat /\ No(a, s, i - 1) \in Nat /\ No(a, s, n) \in Nat
      /\ No(a, s, i) = No(a, s, i - 1) + 1
  BY NoPrevious, NoStep, ZenonT(60)
<1>2. i <= n => No(a, s, i) <= No(a, s, n)
  BY NoGrows
<1>3. ~(i <= n) => No(a, s, n) <= No(a, s, i - 1)
  <2>1. ~(i <= n) => n <= i - 1 /\ i - 1 \in Nat
    OBVIOUS
  <2> QED BY <2>1, NoGrows
<1> QED BY <1>1, <1>2, <1>3

(* Where the k-th call of a text opens, the place before its function, and *)
(* where the function ends and the call closes.                            *)
Opens(a, k) == At(a, "<tool_call>", k)
Begins(a, k) == At(a, "<function=", k) - 1
Ends(a, k) == At(a, "</function>", k)
Closes(a, k) == At(a, "</tool_call>", k)

(* The k-th call of a text, with its function from o + 1 to g.  Only line  *)
(* breaks are around the function.                                         *)
Call(a, st, k, o, g) ==
  /\ o \in Nat \ {0} /\ g \in Nat /\ o + 4 <= g
  /\ Opens(a, k) \in Nat \ {0} /\ Opens(a, k) <= o
  /\ Closes(a, k) \in Nat /\ g + 1 <= Closes(a, k) /\ Closes(a, k) <= Len(a)
  /\ a[Opens(a, k)] = "<tool_call>" /\ a[Closes(a, k)] = "</tool_call>"
  /\ a[o + 1] = "<function=" /\ a[o + 2] \notin Tags \cup {">"} /\ a[o + 3] = ">"
  /\ a[g] = "</function>"
  /\ No(a, "<tool_call>", Opens(a, k)) = k /\ No(a, "<function=", o + 1) = k
  /\ No(a, "</function>", g) = k /\ No(a, "</tool_call>", Closes(a, k)) = k
  /\ st[o + 1] = "name" /\ st[o + 2] = "named" /\ st[o + 3] = "body"
  /\ \A i \in Opens(a, k)..o : st[i] = "call"
  /\ \A i \in (Opens(a, k) + 1)..o : a[i] = "ws"
  /\ \A i \in (o + 3)..(g - 1) : st[i] \in {"body", "key", "keyed", "value"}
  /\ \A i \in (o + 2)..(g - 1) :
       a[i] \notin {"<tool_call>", "<function=", "</function>", "</tool_call>"}
  /\ \A i \in g..(Closes(a, k) - 1) : st[i] = "end"
  /\ \A i \in (g + 1)..(Closes(a, k) - 1) : a[i] = "ws"
  /\ st[Closes(a, k)] = "after"

(* Every call that is opened has its form, and is the call its count says. *)
LEMMA CallIs ==
  ASSUME NEW a \in Seq(Symbols), NEW st, Staged(a, st),
         NEW k \in 1..No(a, "<tool_call>", Len(a))
  PROVE  Call(a, st, k, Begins(a, k), Ends(a, k))
<1> DEFINE p == Opens(a, k)
           f == At(a, "<function=", k)
           o == Begins(a, k)
           g == Ends(a, k)
           z == Closes(a, k)
           n == Len(a)
<1>0. n \in Nat /\ st[n] \in {"text", "after"} /\ \A i \in 0..n : Level(a, st, i)
  BY Levels DEF Staged
<1>1. p \in 1..n /\ a[p] = "<tool_call>" /\ No(a, "<tool_call>", p) = k
  BY AtIs DEF Opens
<1>2. k \in Nat \ {0}
  BY <1>0, NoStep
<1>3. /\ k \in 1..No(a, "</function>", n) /\ k \in 1..No(a, "<function=", n)
      /\ k \in 1..No(a, "</tool_call>", n)
  <2>1. Level(a, st, n)
    BY <1>0
  <2>2. /\ No(a, "</function>", n) = No(a, "<tool_call>", n)
        /\ No(a, "<function=", n) = No(a, "<tool_call>", n)
        /\ No(a, "</tool_call>", n) = No(a, "<tool_call>", n)
    BY <1>0, <2>1 DEF Level
  <2> QED BY <2>2
<1>4. g \in 1..n /\ a[g] = "</function>" /\ No(a, "</function>", g) = k
  BY <1>3, AtIs DEF Ends
<1>5. f \in 1..n /\ a[f] = "<function=" /\ No(a, "<function=", f) = k
  BY <1>3, AtIs
<1>6. z \in 1..n /\ a[z] = "</tool_call>" /\ No(a, "</tool_call>", z) = k
  BY <1>3, AtIs DEF Closes
<1>7. o = f - 1
  BY DEF Begins
<1> HIDE DEF p, f, o, g, z, n
<1>8. /\ p \in Nat \ {0} /\ g \in Nat \ {0} /\ z \in Nat \ {0} /\ f \in Nat \ {0} /\ o \in Nat
      /\ f = o + 1
  BY <1>0, <1>1, <1>4, <1>5, <1>6, <1>7
<1> p \in Nat /\ g \in Nat /\ z \in Nat /\ o \in Nat
  BY <1>8
<1>9. ASSUME NEW i \in 0..n
      PROVE  /\ p <= i <=> k <= No(a, "<tool_call>", i)
             /\ o + 1 <= i <=> k <= No(a, "<function=", i)
             /\ g <= i <=> k <= No(a, "</function>", i)
             /\ z <= i <=> k <= No(a, "</tool_call>", i)
             /\ No(a, "<tool_call>", i) \in Nat /\ No(a, "<function=", i) \in Nat
             /\ No(a, "</function>", i) \in Nat /\ No(a, "</tool_call>", i) \in Nat
  <2>1. i \in Nat
    BY <1>0
  <2>2. p <= i <=> k <= No(a, "<tool_call>", i)
    BY <1>1, <1>8, <2>1, AtReached
  <2>3. f <= i <=> k <= No(a, "<function=", i)
    BY <1>5, <1>8, <2>1, AtReached
  <2>4. g <= i <=> k <= No(a, "</function>", i)
    BY <1>4, <1>8, <2>1, AtReached
  <2>5. z <= i <=> k <= No(a, "</tool_call>", i)
    BY <1>6, <1>8, <2>1, AtReached
  <2>6. /\ No(a, "<tool_call>", i) \in Nat /\ No(a, "<function=", i) \in Nat
        /\ No(a, "</function>", i) \in Nat /\ No(a, "</tool_call>", i) \in Nat
    BY <2>1, NoStep
  <2> QED BY <1>8, <2>2, <2>3, <2>4, <2>5, <2>6
<1>10. o + 1 \in 1..n /\ a[o + 1] = "<function=" /\ No(a, "<function=", o + 1) = k
       /\ st[o + 1] = "name"
  <2>1. f \in 1..n /\ a[f] = "<function="
    BY <1>5
  <2>2. st[f] = "name"
    BY <2>1, StageStep, TagsAre DEF n
  <2> QED BY <1>5, <1>8, <2>2
<1>11. p <= o
  <2>1. Level(a, st, o + 1)
    BY <1>0, <1>10
  <2>2. No(a, "<tool_call>", o + 1) = k
    BY <1>10, <2>1 DEF Level
  <2>3. p <= o + 1
    BY <1>0, <1>2, <1>9, <1>10, <2>2
  <2>4. p # o + 1
    BY <1>1, <1>10
  <2> QED BY <1>8, <2>3, <2>4
<1>12. o \in Nat \ {0} /\ o \in 1..n
  BY <1>0, <1>8, <1>10, <1>11
<1>13. ASSUME NEW i \in p..o PROVE st[i] = "call"
  <2>1. i \in 0..n /\ p <= i /\ ~(o + 1 <= i)
    BY <1>0, <1>12
  <2>2. Level(a, st, i) /\ st[i] \in Stages
    BY <1>0, <2>1 DEF Staged, n
  <2>3. k <= No(a, "<tool_call>", i) /\ No(a, "<function=", i) < k
        /\ No(a, "<tool_call>", i) \in Nat /\ No(a, "<function=", i) \in Nat
    BY <1>2, <1>9, <2>1
  <2> QED BY <1>2, <2>2, <2>3 DEF Level, Stages
<1>14. ASSUME NEW i \in (p + 1)..o PROVE a[i] = "ws"
  <2>1. i \in 1..n /\ i - 1 \in p..o /\ i \in p..o
    BY <1>0, <1>12
  <2>2. st[i - 1] = "call" /\ st[i] = "call"
    BY <1>13, <2>1
  <2> QED BY <2>1, <2>2, StageStep DEF n
<1>15. o + 2 \in 1..n /\ a[o + 2] \notin Tags \cup {">"} /\ st[o + 2] = "named"
  <2>1. o + 1 # n
    BY <1>0, <1>10
  <2>2. o + 2 \in 1..n /\ o + 2 = (o + 1) + 1 /\ o + 1 \in Nat
    BY <1>0, <1>10, <1>12, <2>1
  <2> QED BY <1>10, <2>2, StageNext DEF n
<1>16. o + 3 \in 1..n /\ a[o + 3] = ">" /\ st[o + 3] = "body"
  <2>1. o + 2 # n
    BY <1>0, <1>15
  <2>2. o + 3 \in 1..n /\ o + 3 = (o + 2) + 1 /\ o + 2 \in Nat
    BY <1>0, <1>12, <1>15, <2>1
  <2> QED BY <1>15, <2>2, StageNext DEF n
<1>17. o + 4 <= g
  <2>1. Level(a, st, o + 1)
    BY <1>0, <1>10
  <2>2. No(a, "</function>", o + 1) < k
    BY <1>2, <1>9, <1>10, <2>1 DEF Level
  <2>3. ~(g <= o + 1)
    BY <1>2, <1>9, <1>10, <2>2
  <2>4. g # o + 2 /\ g # o + 3
    BY <1>4, <1>15, <1>16, TagsAre
  <2> QED BY <1>8, <2>3, <2>4
<1>18. st[g] = "end"
  BY <1>4, StageStep, TagsAre DEF n
<1>19. g + 1 <= z
  <2>1. g \in 0..n /\ Level(a, st, g)
    BY <1>0, <1>4
  <2>2. No(a, "</tool_call>", g) < k
    BY <1>2, <1>4, <1>9, <1>18, <2>1 DEF Level
  <2>3. ~(z <= g)
    BY <1>2, <1>9, <2>1, <2>2
  <2> QED BY <1>8, <2>3
<1>20. ASSUME NEW i \in g..(z - 1) PROVE st[i] = "end"
  <2>1. i \in 0..n /\ g <= i /\ ~(z <= i)
    BY <1>0, <1>6, <1>8
  <2>2. Level(a, st, i) /\ st[i] \in Stages
    BY <1>0, <2>1 DEF Staged, n
  <2>3. k <= No(a, "</function>", i) /\ No(a, "</tool_call>", i) < k
        /\ No(a, "</function>", i) \in Nat /\ No(a, "</tool_call>", i) \in Nat
    BY <1>2, <1>9, <2>1
  <2> QED BY <1>2, <2>2, <2>3 DEF Level, Stages
<1>21. ASSUME NEW i \in (g + 1)..(z - 1) PROVE a[i] = "ws"
  <2>1. i \in 1..n /\ i - 1 \in g..(z - 1) /\ i \in g..(z - 1)
    BY <1>0, <1>6, <1>8
  <2>2. st[i - 1] = "end" /\ st[i] = "end"
    BY <1>20, <2>1
  <2> QED BY <2>1, <2>2, StageStep DEF n
<1>22. st[z] = "after"
  BY <1>6, StageStep, TagsAre DEF n
<1>23. ASSUME NEW i \in (o + 3)..(g - 1)
       PROVE  st[i] \in {"body", "key", "keyed", "value"}
  <2>1. i \in 0..n /\ i \in 1..n /\ i \in Nat \ {0} /\ p <= i /\ o + 1 <= i /\ ~(g <= i)
    BY <1>0, <1>4, <1>8, <1>11
  <2>2. Level(a, st, i) /\ st[i] \in Stages
    BY <1>0, <2>1 DEF Staged, n
  <2>3. k <= No(a, "<tool_call>", i) /\ k <= No(a, "<function=", i)
        /\ No(a, "</function>", i) < k
        /\ No(a, "<tool_call>", i) \in Nat /\ No(a, "<function=", i) \in Nat
        /\ No(a, "</function>", i) \in Nat
    BY <1>2, <1>9, <2>1
  <2>4. st[i] \notin {"text", "after", "call", "end"}
    BY <1>2, <2>2, <2>3 DEF Level
  <2>5. \A j \in 1..n : st[j] = "name" /\ No(a, "<function=", j) = k => j = o + 1
    <3> SUFFICES ASSUME NEW j \in 1..n, st[j] = "name", No(a, "<function=", j) = k
                 PROVE  j = o + 1
      OBVIOUS
    <3>1. a[j] = "<function="
      BY StageStep DEF n
    <3>2. j \in Nat \ {0} /\ o + 1 \in Nat \ {0}
      BY <1>0, <1>8
    <3> QED BY <1>10, <3>1, <3>2, NoUnique
  <2>6. st[i] = "name" => No(a, "<function=", i) = k
    BY <1>2, <2>2, <2>3 DEF Level
  <2>7. st[i] # "name"
    BY <1>0, <1>8, <2>1, <2>5, <2>6
  <2>8. st[i] = "named" => st[i - 1] = "name" /\ No(a, "<function=", i - 1) = k
    <3>1. st[i] = "named" => st[i - 1] = "name" /\ a[i] \notin Tags
      BY <2>1, StageStep DEF n
    <3>2. st[i] = "named" => No(a, "<function=", i - 1) = No(a, "<function=", i)
      <4>1. /\ No(a, "<function=", i - 1) \in Nat
            /\ No(a, "<function=", i)
                 = No(a, "<function=", i - 1) + (IF a[i] = "<function=" THEN 1 ELSE 0)
        BY <2>1, NoPrevious
      <4> QED BY <3>1, <4>1, TagsAre
    <3>3. st[i] = "named" => No(a, "<function=", i) = k
      BY <1>2, <2>2, <2>3 DEF Level
    <3> QED BY <3>1, <3>2, <3>3
  <2>9. st[i] # "named"
    <3>1. i - 1 \in 1..n /\ i - 1 # o + 1
      BY <1>0, <1>8, <2>1
    <3> QED BY <2>5, <2>8, <3>1
  <2> QED BY <2>2, <2>4, <2>7, <2>9 DEF Stages
<1>24. ASSUME NEW i \in (o + 2)..(g - 1)
       PROVE  a[i] \notin {"<tool_call>", "<function=", "</function>", "</tool_call>"}
  <2>1. CASE i = o + 2
    BY <1>15, <2>1, TagsAre
  <2>2. CASE i # o + 2
    <3>1. i \in (o + 3)..(g - 1) /\ i \in 1..n
      BY <1>0, <1>4, <1>8, <2>2
    <3>2. st[i] \in {"body", "key", "keyed", "value"}
      BY <1>23, <3>1
    <3> QED BY <3>1, <3>2, StageStep, TagsAre DEF n
  <2> QED BY <2>1, <2>2
<1>25. z <= n
  BY <1>0, <1>6
<1>26. Call(a, st, k, o, g)
  BY <1>1, <1>4, <1>6, <1>8, <1>10, <1>11, <1>12, <1>13, <1>14, <1>15, <1>16, <1>17,
     <1>19, <1>20, <1>21, <1>22, <1>23, <1>24, <1>25
     DEF Call, n, p, z
<1> QED BY <1>26 DEF o, g

(* The m-th parameter of a text, from its tag to its end tag. *)
Parameter(a, st, m, q, r) ==
  /\ q \in Nat \ {0} /\ r \in Nat /\ q + 3 <= r /\ r <= Len(a)
  /\ a[q] = "<parameter=" /\ a[q + 1] \notin Tags \cup {">"} /\ a[q + 2] = ">"
  /\ a[r] = "</parameter>" /\ No(a, "<parameter=", q) = m /\ No(a, "</parameter>", r) = m
  /\ st[q - 1] = "body" /\ st[q] = "key" /\ st[q + 1] = "keyed" /\ st[r] = "body"
  /\ \A i \in (q + 2)..(r - 1) : st[i] = "value"
  /\ \A i \in (q + 3)..(r - 1) : a[i] \notin Tags

(* Every parameter has its form.                                           *)
LEMMA ParameterIs ==
  ASSUME NEW a \in Seq(Symbols), NEW st, Staged(a, st),
         NEW m \in 1..No(a, "<parameter=", Len(a))
  PROVE  Parameter(a, st, m, At(a, "<parameter=", m), At(a, "</parameter>", m))
<1> DEFINE q == At(a, "<parameter=", m)
           r == At(a, "</parameter>", m)
           n == Len(a)
<1>0. n \in Nat /\ st[n] \in {"text", "after"} /\ \A i \in 0..n : Level(a, st, i)
  BY Levels DEF Staged
<1>1. q \in 1..n /\ a[q] = "<parameter=" /\ No(a, "<parameter=", q) = m
  BY AtIs
<1>2. m \in Nat \ {0}
  BY <1>0, NoStep
<1>3. m \in 1..No(a, "</parameter>", n)
  <2>1. Level(a, st, n)
    BY <1>0
  <2>2. No(a, "</parameter>", n) = No(a, "<parameter=", n)
    BY <1>0, <2>1 DEF Level
  <2> QED BY <2>2
<1>4. r \in 1..n /\ a[r] = "</parameter>" /\ No(a, "</parameter>", r) = m
  BY <1>3, AtIs
<1> HIDE DEF q, r, n
<1> q \in Nat /\ r \in Nat
  BY <1>0, <1>1, <1>4
<1>5. st[q] = "key" /\ st[q - 1] = "body"
  BY <1>1, StageStep, TagsAre DEF n
<1>6. q + 1 \in 1..n /\ a[q + 1] \notin Tags \cup {">"} /\ st[q + 1] = "keyed"
  <2>1. q # n
    BY <1>0, <1>5
  <2>2. q + 1 \in 1..n /\ q + 1 = (q) + 1 /\ q \in Nat
    BY <1>0, <1>1, <2>1
  <2> QED BY <1>5, <2>2, StageNext DEF n
<1>7. q + 2 \in 1..n /\ a[q + 2] = ">" /\ st[q + 2] = "value"
  <2>1. q + 1 # n
    BY <1>0, <1>6
  <2>2. q + 2 \in 1..n /\ q + 2 = (q + 1) + 1 /\ q + 1 \in Nat
    BY <1>0, <1>1, <1>6, <2>1
  <2> QED BY <1>6, <2>2, StageNext DEF n
<1>8. No(a, "</parameter>", q) = m - 1
  <2>1. Level(a, st, q)
    BY <1>0, <1>1
  <2>2. No(a, "</parameter>", q) \in Nat
    BY NoStep
  <2> QED BY <1>1, <1>2, <1>5, <2>1, <2>2 DEF Level
<1>9. q + 3 <= r
  <2>1. r \in Nat \ {0} /\ q \in Nat
    BY <1>0, <1>1, <1>4
  <2>2. r <= q <=> No(a, "</parameter>", r) <= No(a, "</parameter>", q)
    BY <1>4, <2>1, AtReached
  <2>3. r # q + 1 /\ r # q + 2
    BY <1>4, <1>6, <1>7, TagsAre
  <2> QED BY <1>2, <1>4, <1>8, <2>1, <2>2, <2>3
<1>10. ASSUME NEW i \in (q + 3)..r, st[i - 1] = "value"
       PROVE  /\ i < r => st[i] = "value" /\ a[i] \notin Tags
              /\ i = r => st[i] = "body"
  <2>1. i \in 1..n /\ i \in Nat \ {0} /\ r \in Nat \ {0}
    BY <1>0, <1>1, <1>4
  <2>2. \/ a[i] \notin Tags /\ st[i] = "value"
        \/ a[i] = "</parameter>" /\ st[i] = "body"
    BY <1>10, <2>1, StageStep DEF n
  <2>3. a[i] = "</parameter>" => ~(i < r)
    <3> SUFFICES ASSUME a[i] = "</parameter>", i < r PROVE FALSE
      OBVIOUS
    <3>1. No(a, "</parameter>", i) < m
      BY <1>4, <2>1, NoUnique
    <3>2. No(a, "</parameter>", q) <= No(a, "</parameter>", i - 1)
      <4>1. q \in Nat /\ i - 1 \in Nat /\ q <= i - 1
        BY <1>0, <1>1
      <4> QED BY <4>1, NoGrows
    <3>3. /\ No(a, "</parameter>", i) \in Nat /\ No(a, "</parameter>", i - 1) \in Nat
          /\ No(a, "</parameter>", i) = No(a, "</parameter>", i - 1) + 1
      BY <2>1, NoPrevious
    <3> QED BY <1>2, <1>8, <3>1, <3>2, <3>3
  <2> QED BY <1>4, <2>2, <2>3, TagsAre
<1>11. \A i \in (q + 2)..(r - 1) : st[i] = "value"
  <2> DEFINE S == {d \in Nat : q + 2 + d <= r - 1 => st[q + 2 + d] = "value"}
  <2>0. q \in Nat /\ r \in Nat
    BY <1>0, <1>1, <1>4
  <2>1. 0 \in S
    <3>1. q + 2 + 0 = q + 2
      BY <2>0
    <3> QED BY <1>7, <3>1
  <2>2. ASSUME NEW d \in Nat, d \in S PROVE d + 1 \in S
    <3> SUFFICES ASSUME q + 2 + (d + 1) <= r - 1 PROVE st[q + 2 + (d + 1)] = "value"
      OBVIOUS
    <3> DEFINE i == q + 2 + (d + 1)
    <3>1. i \in (q + 3)..r /\ i - 1 = q + 2 + d /\ i < r
      BY <2>0
    <3>2. st[q + 2 + d] = "value"
      BY <2>0, <2>2
    <3> HIDE DEF i
    <3>3. st[i] = "value"
      BY <1>10, <3>1, <3>2
    <3> QED BY <3>3 DEF i
  <2>3. \A d \in Nat : d \in S
    <3> HIDE DEF S
    <3> QED BY <2>1, <2>2, Induct
  <2>4. \A i \in (q + 2)..(r - 1) : i - (q + 2) \in Nat /\ q + 2 + (i - (q + 2)) = i
    BY <2>0
  <2>5. ASSUME NEW i \in (q + 2)..(r - 1) PROVE st[i] = "value"
    <3>1. i - (q + 2) \in S
      BY <2>3, <2>4
    <3>2. i <= r - 1
      BY <2>0
    <3> QED BY <2>4, <3>1, <3>2
  <2> QED BY <2>5
<1>12. \A i \in (q + 3)..(r - 1) : a[i] \notin Tags
  <2> TAKE i \in (q + 3)..(r - 1)
  <2>1. i \in (q + 3)..r /\ i < r /\ i - 1 \in (q + 2)..(r - 1)
    BY <1>0, <1>1, <1>4
  <2> QED BY <1>10, <1>11, <2>1
<1>13. st[r] = "body"
  <2>1. r \in (q + 3)..r /\ r - 1 \in (q + 2)..(r - 1)
    BY <1>0, <1>1, <1>4, <1>9
  <2> QED BY <1>10, <1>11, <2>1
<1>14. q \in Nat \ {0} /\ r \in Nat /\ r <= n
  BY <1>0, <1>1, <1>4
<1>15. Parameter(a, st, m, q, r)
  BY <1>1, <1>4, <1>5, <1>6, <1>7, <1>9, <1>11, <1>12, <1>13, <1>14 DEF Parameter, n
<1> QED BY <1>15 DEF q, r

-----------------------------------------------------------------------------
(* Parts of a call.                                                        *)

(* A part of a part. *)
LEMMA WindowWindow ==
  ASSUME NEW X, NEW s \in Seq(X), NEW l \in Nat \ {0}, NEW h \in Nat, h <= Len(s), l <= h + 1,
         NEW i \in Nat \ {0}, NEW j \in Nat, i <= j + 1, j <= h - l + 1
  PROVE  SubSeq(SubSeq(s, l, h), i, j) = SubSeq(s, l + i - 1, l + j - 1)
<1> DEFINE w == SubSeq(s, l, h)
           l1 == l + i - 1
           h1 == l + j - 1
<1>1. /\ w \in Seq(X) /\ Len(w) = h - l + 1
      /\ \A n \in 1..(h - l + 1) : w[n] = s[l + n - 1]
  BY Window
<1>2. l1 \in Nat \ {0} /\ h1 \in Nat /\ h1 <= Len(s) /\ l1 <= h1 + 1 /\ h1 - l1 + 1 = j - i + 1
      /\ \A n \in 1..(j - i + 1) : l + (i + n - 1) - 1 = l1 + n - 1 /\ i + n - 1 \in 1..(h - l + 1)
  OBVIOUS
<1> HIDE DEF w, l1, h1
<1>3. /\ SubSeq(w, i, j) \in Seq(X) /\ Len(SubSeq(w, i, j)) = j - i + 1
      /\ \A n \in 1..(j - i + 1) : SubSeq(w, i, j)[n] = w[i + n - 1]
  <2>1. j <= Len(w)
    BY <1>1
  <2> QED BY <1>1, <2>1, Window
<1>4. /\ SubSeq(s, l1, h1) \in Seq(X) /\ Len(SubSeq(s, l1, h1)) = h1 - l1 + 1
      /\ \A n \in 1..(h1 - l1 + 1) : SubSeq(s, l1, h1)[n] = s[l1 + n - 1]
  BY <1>2, Window
<1>5. \A n \in 1..(j - i + 1) : SubSeq(w, i, j)[n] = SubSeq(s, l1, h1)[n]
  <2> TAKE n \in 1..(j - i + 1)
  <2>1. SubSeq(w, i, j)[n] = w[i + n - 1]
    BY <1>3
  <2>2. w[i + n - 1] = s[l + (i + n - 1) - 1]
    BY <1>1, <1>2
  <2>3. SubSeq(s, l1, h1)[n] = s[l1 + n - 1]
    BY <1>2, <1>4
  <2> QED BY <1>2, <2>1, <2>2, <2>3
<1>6. SubSeq(w, i, j) = SubSeq(s, l1, h1)
  BY <1>2, <1>3, <1>4, <1>5, SeqEqual
<1> QED BY <1>6 DEF w, l1, h1

(* Every parameter that begins in a call lies in it. *)
LEMMA ParameterInCall ==
  ASSUME NEW a \in Seq(Symbols), NEW st, Staged(a, st), NEW k, NEW o, NEW g,
         Call(a, st, k, o, g),
         NEW m \in Nat, No(a, "<parameter=", o) < m, m <= No(a, "<parameter=", g)
  PROVE  LET q == At(a, "<parameter=", m)
             r == At(a, "</parameter>", m)
         IN Parameter(a, st, m, q, r) /\ o + 4 <= q /\ r < g
<1> DEFINE q == At(a, "<parameter=", m)
           r == At(a, "</parameter>", m)
<1>0. /\ o \in Nat /\ g \in Nat /\ Len(a) \in Nat /\ g <= Len(a) /\ g \in g..(Closes(a, k) - 1)
  BY DEF Call
<1>1. m \in 1..No(a, "<parameter=", Len(a))
  <2>1. /\ No(a, "<parameter=", o) \in Nat /\ No(a, "<parameter=", g) \in Nat
        /\ No(a, "<parameter=", Len(a)) \in Nat
    BY <1>0, NoStep
  <2>2. No(a, "<parameter=", g) <= No(a, "<parameter=", Len(a))
    BY <1>0, NoGrows
  <2> QED BY <2>1, <2>2
<1>2. Parameter(a, st, m, q, r)
  BY <1>1, ParameterIs
<1> HIDE DEF q, r
<1>3. /\ q \in Nat \ {0} /\ r \in Nat \ {0} /\ a[q] = "<parameter=" /\ a[r] = "</parameter>"
      /\ No(a, "<parameter=", q) = m /\ No(a, "</parameter>", r) = m
  BY <1>2 DEF Parameter
<1>4. q > o
  <2>1. q <= o <=> No(a, "<parameter=", q) <= No(a, "<parameter=", o)
    BY <1>0, <1>3, AtReached
  <2>2. No(a, "<parameter=", o) \in Nat
    BY <1>0, NoStep
  <2> QED BY <1>0, <1>3, <2>1, <2>2
<1>5. q # o + 1 /\ q # o + 2 /\ q # o + 3
  BY <1>3, TagsAre DEF Call
<1>6. r <= g
  <2>1. r <= g <=> No(a, "</parameter>", r) <= No(a, "</parameter>", g)
    BY <1>0, <1>3, AtReached
  <2>2. Level(a, st, g) /\ st[g] = "end"
    <3>1. g \in 0..Len(a)
      BY <1>0
    <3> QED BY <1>0, <3>1, Levels DEF Call
  <2>3. No(a, "</parameter>", g) = No(a, "<parameter=", g)
    BY <2>2 DEF Level
  <2> QED BY <1>3, <2>1, <2>3
<1>7. r # g
  BY <1>3 DEF Call
<1> QED BY <1>0, <1>2, <1>3, <1>4, <1>5, <1>6, <1>7 DEF q, r

(* The tags of parameters up to some places of a call. *)
LEMMA KeysIn ==
  ASSUME NEW a \in Seq(Symbols), NEW st, NEW k, NEW o, NEW g, Call(a, st, k, o, g)
  PROVE  LET b == No(a, "<parameter=", o) IN
         /\ b \in Nat
         /\ \A i \in (Opens(a, k) - 1)..(o + 3) : No(a, "<parameter=", i) = b
         /\ \A h \in Opens(a, k)..Closes(a, k) :
              /\ No(a, "<parameter=", h) \in Nat
              /\ b <= No(a, "<parameter=", h)
              /\ No(a, "<parameter=", h) <= No(a, "<parameter=", g)
<1> DEFINE p == Opens(a, k)
           z == Closes(a, k)
<1>0. /\ o \in Nat \ {0} /\ g \in Nat /\ o + 4 <= g /\ p \in Nat \ {0} /\ p <= o
      /\ z \in Nat /\ g + 1 <= z
  BY DEF Call
<1>1. No(a, "<parameter=", o) \in Nat
  BY <1>0, NoStep
<1>2. \A i \in p..(o + 3) : a[i] # "<parameter="
  <2>1. /\ a[p] # "<parameter=" /\ a[o + 1] # "<parameter=" /\ a[o + 2] # "<parameter="
        /\ a[o + 3] # "<parameter=" /\ \A i \in (p + 1)..o : a[i] # "<parameter="
    BY TagsAre DEF Call
  <2>2. \A i \in p..(o + 3) :
          i = p \/ i \in (p + 1)..o \/ i = o + 1 \/ i = o + 2 \/ i = o + 3
    BY <1>0
  <2> HIDE DEF p
  <2> QED BY <2>1, <2>2
<1>3. \A i \in (g + 1)..z : a[i] # "<parameter="
  <2>1. a[z] # "<parameter=" /\ \A i \in (g + 1)..(z - 1) : a[i] # "<parameter="
    BY TagsAre DEF Call
  <2>2. \A i \in (g + 1)..z : i = z \/ i \in (g + 1)..(z - 1)
    BY <1>0
  <2> HIDE DEF z
  <2> QED BY <2>1, <2>2
<1> HIDE DEF p, z
<1>4. ASSUME NEW i \in (p - 1)..(o + 3)
      PROVE  No(a, "<parameter=", i) = No(a, "<parameter=", o)
  <2>1. p - 1 \in Nat /\ i \in Nat /\ o \in Nat /\ p - 1 <= i /\ p - 1 <= o
    BY <1>0
  <2>2. No(a, "<parameter=", p - 1) = No(a, "<parameter=", i)
    <3>1. \A j \in (p - 1 + 1)..i : a[j] # "<parameter="
      BY <1>0, <1>2
    <3> QED BY <2>1, <3>1, NoSame
  <2>3. No(a, "<parameter=", p - 1) = No(a, "<parameter=", o)
    <3>1. \A j \in (p - 1 + 1)..o : a[j] # "<parameter="
      BY <1>0, <1>2
    <3> QED BY <2>1, <3>1, NoSame
  <2> QED BY <2>2, <2>3
<1>5. No(a, "<parameter=", g) = No(a, "<parameter=", z)
  <2>1. g \in Nat /\ z \in Nat /\ g <= z
    BY <1>0
  <2> QED BY <1>3, <2>1, NoSame
<1>6. ASSUME NEW h \in p..z
      PROVE  /\ No(a, "<parameter=", h) \in Nat
             /\ No(a, "<parameter=", o) <= No(a, "<parameter=", h)
             /\ No(a, "<parameter=", h) <= No(a, "<parameter=", g)
  <2>1. h \in Nat /\ p \in Nat /\ z \in Nat /\ p <= h /\ h <= z /\ p \in (p - 1)..(o + 3)
    BY <1>0
  <2>2. No(a, "<parameter=", p) <= No(a, "<parameter=", h)
    BY <2>1, NoGrows
  <2>3. No(a, "<parameter=", h) <= No(a, "<parameter=", z)
    BY <2>1, NoGrows
  <2>4. No(a, "<parameter=", h) \in Nat
    BY <2>1, NoStep
  <2>5. No(a, "<parameter=", p) = No(a, "<parameter=", o)
    BY <1>4, <2>1
  <2> QED BY <1>5, <2>2, <2>3, <2>4, <2>5
<1> QED BY <1>1, <1>4, <1>6 DEF p, z

(* The parameters of a part of a call that begins before its first one are *)
(* counted on from those before the call.                                  *)
LEMMA WindowCount ==
  ASSUME NEW a \in Seq(Symbols), NEW st, NEW k, NEW o, NEW g, Call(a, st, k, o, g),
         NEW l \in Opens(a, k)..(o + 2), NEW h \in (o + 2)..Closes(a, k)
  PROVE  LET w == SubSeq(a, l, h)
             b == No(a, "<parameter=", o)
         IN /\ w \in Seq(Symbols) /\ Len(w) = h - l + 1
            /\ \A i \in 1..(h - l + 1) : w[i] = a[l + i - 1]
            /\ \A i \in 0..(h - l + 1) :
                 No(w, "<parameter=", i) = No(a, "<parameter=", l - 1 + i) - b
            /\ Count(w, "<parameter=") = No(a, "<parameter=", h) - b
<1> DEFINE w == SubSeq(a, l, h)
           b == No(a, "<parameter=", o)
<1>0. /\ o \in Nat \ {0} /\ g \in Nat /\ o + 4 <= g /\ g + 1 <= Closes(a, k)
      /\ Closes(a, k) <= Len(a) /\ Closes(a, k) \in Nat /\ Len(a) \in Nat
      /\ Opens(a, k) \in Nat \ {0} /\ Opens(a, k) <= o
  BY DEF Call
<1>1. /\ l \in Nat \ {0} /\ h \in Nat /\ h <= Len(a) /\ l <= h + 1
      /\ l - 1 \in (Opens(a, k) - 1)..(o + 3)
  BY <1>0
<1>2. /\ w \in Seq(Symbols) /\ Len(w) = h - l + 1
      /\ \A i \in 1..(h - l + 1) : w[i] = a[l + i - 1]
  BY <1>1, Window
<1>3. No(a, "<parameter=", l - 1) = b
  BY <1>1, KeysIn
<1>4. \A i \in 0..(h - l + 1) : No(w, "<parameter=", i) = No(a, "<parameter=", l - 1 + i) - b
  BY <1>1, <1>3, NoWindow
<1>5. Count(w, "<parameter=") = No(a, "<parameter=", h) - b
  <2>1. "<parameter=" \in Symbols
    BY TagsAre DEF Symbols
  <2>2. Count(w, "<parameter=") = No(w, "<parameter=", h - l + 1)
    BY <1>2, <2>1, CountIsNo
  <2>3. h - l + 1 \in 0..(h - l + 1) /\ l - 1 + (h - l + 1) = h
    BY <1>1
  <2> QED BY <1>4, <2>2, <2>3
<1> QED BY <1>2, <1>4, <1>5

(* The parameters that begin in a part of a call. *)
LEMMA WindowKeys ==
  ASSUME NEW a \in Seq(Symbols), NEW st, NEW k, NEW o, NEW g, Call(a, st, k, o, g),
         NEW l \in Opens(a, k)..(o + 2), NEW h \in (o + 2)..Closes(a, k)
  PROVE  Count(SubSeq(a, l, h), "<parameter=") = No(a, "<parameter=", h) - No(a, "<parameter=", o)
BY WindowCount

(* They are counted from the place where the call begins. *)
LEMMA WindowPart ==
  ASSUME NEW a \in Seq(Symbols), NEW st, NEW k, NEW o, NEW g, Call(a, st, k, o, g),
         NEW l \in Opens(a, k)..(o + 2), NEW h \in (o + 2)..Closes(a, k), NEW i \in 0..(h - l + 1)
  PROVE  No(SubSeq(a, l, h), "<parameter=", i)
           = No(a, "<parameter=", l - 1 + i) - No(a, "<parameter=", o)
BY WindowCount

(* A part of a call reads as the call does.                                *)
LEMMA WindowText ==
  ASSUME NEW a \in Seq(Symbols), NEW st, Staged(a, st),
         NEW k, NEW o, NEW g, Call(a, st, k, o, g),
         NEW l \in Opens(a, k)..(o + 2), NEW h \in (o + 2)..Closes(a, k),
         NEW j \in 1..(No(a, "<parameter=", h) - No(a, "<parameter=", o))
  PROVE  LET m == No(a, "<parameter=", o) + j
             q == At(a, "<parameter=", m)
             r == At(a, "</parameter>", m)
         IN /\ Parameter(a, st, m, q, r) /\ o + 4 <= q /\ r < g /\ q <= h
            /\ ParamText(SubSeq(a, l, h), j) = SubSeq(a, q + 1, h)
<1> DEFINE w == SubSeq(a, l, h)
           b == No(a, "<parameter=", o)
           m == b + j
           q == At(a, "<parameter=", m)
           r == At(a, "</parameter>", m)
<1>0. /\ o \in Nat \ {0} /\ g \in Nat /\ o + 4 <= g /\ g + 1 <= Closes(a, k)
      /\ Closes(a, k) <= Len(a) /\ Closes(a, k) \in Nat /\ Len(a) \in Nat
      /\ Opens(a, k) \in Nat \ {0} /\ Opens(a, k) <= o
      /\ l \in Nat \ {0} /\ h \in Nat /\ h <= Len(a) /\ l <= h + 1 /\ l - 1 \in Nat
  BY DEF Call
<1>1. /\ w \in Seq(Symbols) /\ Len(w) = h - l + 1
      /\ \A i \in 1..(h - l + 1) : w[i] = a[l + i - 1]
      /\ \A i \in 0..(h - l + 1) : No(w, "<parameter=", i) = No(a, "<parameter=", l - 1 + i) - b
  <2>1. /\ w \in Seq(Symbols) /\ Len(w) = h - l + 1
        /\ \A i \in 1..(h - l + 1) : w[i] = a[l + i - 1]
    BY <1>0, Window
  <2>2. ASSUME NEW i \in 0..(h - l + 1)
        PROVE  No(w, "<parameter=", i) = No(a, "<parameter=", l - 1 + i) - b
    BY WindowPart
  <2> QED BY <2>1, <2>2
<1>2. /\ b \in Nat /\ No(a, "<parameter=", h) \in Nat
      /\ No(a, "<parameter=", h) <= No(a, "<parameter=", g)
  <2>1. h \in Opens(a, k)..Closes(a, k)
    BY <1>0
  <2> QED BY <2>1, KeysIn
<1>3. /\ m \in Nat /\ b < m /\ j \in Nat
      /\ m <= No(a, "<parameter=", h) /\ m <= No(a, "<parameter=", g)
  <2>1. No(a, "<parameter=", g) \in Nat
    BY <1>0, NoStep
  <2> QED BY <1>2, <2>1
<1>4. Parameter(a, st, m, q, r) /\ o + 4 <= q /\ r < g
  BY <1>3, ParameterInCall
<1> HIDE DEF w, b, q, r
<1>5. q \in Nat \ {0} /\ a[q] = "<parameter=" /\ No(a, "<parameter=", q) = m
  BY <1>4 DEF Parameter
<1>6. q <= h
  <2>1. q <= h <=> No(a, "<parameter=", q) <= No(a, "<parameter=", h)
    BY <1>0, <1>5, AtReached
  <2> QED BY <1>3, <1>5, <2>1
<1> DEFINE i0 == q - l + 1
<1>7. i0 \in 1..(h - l + 1) /\ l + i0 - 1 = q /\ l - 1 + i0 = q
  BY <1>0, <1>4, <1>5, <1>6
<1>8. "<parameter=" \in Symbols
  BY TagsAre DEF Symbols
<1>9. Occurrences(w, <<"<parameter=">>, 1) = {i \in 1..(h - l + 1) : w[i] = "<parameter="}
  BY <1>1, <1>8, OccOne
<1>10. ASSUME NEW i \in 1..(h - l + 1)
       PROVE  Count(Upto(w, i), "<parameter=") = No(a, "<parameter=", l - 1 + i) - b
  <2>1. i \in Nat /\ i <= Len(w) /\ i \in 0..(i - 1 + 1) /\ i \in 0..(h - l + 1) /\ 1 <= i + 1
        /\ 1 - 1 + i = i /\ i - 1 + 1 = i
    BY <1>1
  <2>2. SubSeq(w, 1, i) \in Seq(Symbols) /\ Len(SubSeq(w, 1, i)) = i
    <3>1. SubSeq(w, 1, i) \in Seq(Symbols) /\ Len(SubSeq(w, 1, i)) = i - 1 + 1
      BY <1>1, <2>1, Window
    <3> QED BY <2>1, <3>1
  <2>3. Count(SubSeq(w, 1, i), "<parameter=") = No(SubSeq(w, 1, i), "<parameter=", i)
    BY <1>8, <2>2, CountIsNo
  <2>4. No(SubSeq(w, 1, i), "<parameter=", i) = No(w, "<parameter=", i)
    <3>1. No(SubSeq(w, 1, i), "<parameter=", i)
            = No(w, "<parameter=", 1 - 1 + i) - No(w, "<parameter=", 1 - 1)
      <4>1. 1 \in Nat \ {0} /\ i <= Len(w) /\ 1 <= i + 1 /\ i \in 0..(i - 1 + 1) /\ i \in Nat
        BY <2>1
      <4> QED BY <1>1, <4>1, NoWindow
    <3>2. 1 - 1 = 0 /\ No(w, "<parameter=", 0) = 0 /\ No(w, "<parameter=", i) \in Nat
      BY <2>1, NoBase, NoStep
    <3> QED BY <2>1, <3>1, <3>2
  <2> QED BY <1>1, <2>1, <2>3, <2>4 DEF Upto
<1>11. i0 \in Occurrences(w, <<"<parameter=">>, 1) /\ Count(Upto(w, i0), "<parameter=") = j
  <2>1. w[i0] = "<parameter="
    BY <1>1, <1>5, <1>7
  <2>2. Count(Upto(w, i0), "<parameter=") = m - b
    BY <1>5, <1>7, <1>10
  <2> HIDE DEF i0
  <2> QED BY <1>2, <1>3, <1>7, <1>9, <2>1, <2>2
<1>12. ASSUME NEW i \in Occurrences(w, <<"<parameter=">>, 1), Count(Upto(w, i), "<parameter=") = j
       PROVE  i = i0
  <2>1. i \in 1..(h - l + 1) /\ w[i] = "<parameter="
    BY <1>9
  <2>2. l + i - 1 \in Nat \ {0} /\ a[l + i - 1] = "<parameter=" /\ l - 1 + i = l + i - 1
    BY <1>0, <1>1, <2>1, SMTT(30)
  <2>3. No(a, "<parameter=", l + i - 1) - b = j
    BY <1>10, <1>12, <2>1, <2>2
  <2>4. No(a, "<parameter=", l + i - 1) = m
    <3>1. No(a, "<parameter=", l + i - 1) \in Nat
      BY <2>2, NoStep
    <3> QED BY <1>2, <1>3, <2>3, <3>1
  <2>5. l + i - 1 = q
    BY <1>5, <2>2, <2>4, NoUnique
  <2> QED BY <1>0, <1>5, <2>1, <2>5
<1>13. ParamStart(w, j) = i0
  <2> HIDE DEF i0
  <2> QED BY <1>11, <1>12 DEF ParamStart
<1>14. ParamText(w, j) = SubSeq(a, q + 1, h)
  <2>1. ParamText(w, j) = SubSeq(w, i0 + 1, h - l + 1)
    BY <1>1, <1>13 DEF ParamText, From
  <2>2. SubSeq(SubSeq(a, l, h), i0 + 1, h - l + 1)
          = SubSeq(a, l + (i0 + 1) - 1, l + (h - l + 1) - 1)
    <3>1. i0 + 1 \in Nat \ {0} /\ h - l + 1 \in Nat /\ i0 + 1 <= h - l + 1 + 1
          /\ h - l + 1 <= h - l + 1
      BY <1>0, <1>7, SMTT(30)
    <3> DEFINE i1 == i0 + 1
               j1 == h - l + 1
    <3>2. i1 \in Nat \ {0} /\ j1 \in Nat /\ i1 <= j1 + 1 /\ j1 <= h - l + 1
      BY <3>1
    <3> HIDE DEF i0, i1, j1
    <3>3. SubSeq(SubSeq(a, l, h), i1, j1) = SubSeq(a, l + i1 - 1, l + j1 - 1)
      BY <1>0, <3>2, WindowWindow
    <3> QED BY <3>3 DEF i1, j1
  <2>3. l + (i0 + 1) - 1 = q + 1 /\ l + (h - l + 1) - 1 = h
    BY <1>0, <1>5
  <2> QED BY <2>1, <2>2, <2>3 DEF w
<1> QED BY <1>4, <1>6, <1>14 DEF w, b, q, r

-----------------------------------------------------------------------------
(* Reading a parameter.                                                    *)

(* The first of some symbols.                                              *)
LEMMA FirstOfIs ==
  ASSUME NEW X, NEW text \in Seq(X), NEW symbols, NEW i \in 1..Len(text), text[i] \in symbols,
         \A j \in 1..(i - 1) : text[j] \notin symbols
  PROVE  FirstOf(text, symbols) = i
<1> DEFINE at == {j \in DOMAIN text : text[j] \in symbols} \cup {Len(text) + 1}
<1>1. i \in at /\ at \in SUBSET Nat
  OBVIOUS
<1>2. \A j \in at : i <= j
  <2> SUFFICES ASSUME NEW j \in at, ~(i <= j) PROVE FALSE
    OBVIOUS
  <2>1. j \in DOMAIN text /\ text[j] \in symbols
    OBVIOUS
  <2>2. j \in 1..(i - 1)
    BY <2>1
  <2> QED BY <2>1, <2>2
<1>3. FirstOf(text, symbols) = Min(at)
  BY DEF FirstOf
<1> HIDE DEF at
<1> QED BY <1>1, <1>2, <1>3, MinIs

(* The text after a parameter's tag: its name, and then its value. *)
LEMMA NameThenValue ==
  ASSUME NEW a \in Seq(Symbols), NEW st, NEW m, NEW q, NEW r, Parameter(a, st, m, q, r),
         NEW h \in q..Len(a)
  PROVE  LET v == SubSeq(a, q + 1, h) IN
         /\ Has(v, <<">">>) <=> q + 2 <= h
         /\ q + 2 <= h => v[1] = a[q + 1] /\ After(v, <<">">>) = SubSeq(a, q + 3, h)
<1> DEFINE v == SubSeq(a, q + 1, h)
<1>0. /\ q \in Nat \ {0} /\ h \in Nat /\ h <= Len(a) /\ q + 1 \in Nat \ {0} /\ q + 1 <= h + 1
      /\ h - (q + 1) + 1 = h - q /\ \A i \in Nat : (q + 1) + i - 1 = q + i
  BY DEF Parameter
<1>1. v \in Seq(Symbols) /\ Len(v) = h - q /\ \A i \in 1..(h - q) : v[i] = a[q + i]
  <2>1. /\ v \in Seq(Symbols) /\ Len(v) = h - (q + 1) + 1
        /\ \A i \in 1..(h - (q + 1) + 1) : v[i] = a[(q + 1) + i - 1]
    <3> DEFINE l == q + 1
    <3>1. l \in Nat \ {0} /\ l <= h + 1
      BY <1>0
    <3> HIDE DEF l
    <3>2. /\ SubSeq(a, l, h) \in Seq(Symbols) /\ Len(SubSeq(a, l, h)) = h - l + 1
          /\ \A i \in 1..(h - l + 1) : SubSeq(a, l, h)[i] = a[l + i - 1]
      BY <1>0, <3>1, Window
    <3> QED BY <3>2 DEF l
  <2>2. \A i \in 1..(h - q) : v[i] = a[(q + 1) + i - 1] /\ (q + 1) + i - 1 = q + i
    BY <1>0, <2>1
  <2> QED BY <1>0, <2>1, <2>2
<1>2. a[q + 1] # ">" /\ a[q + 2] = ">" /\ ">" \in Symbols
  BY TagsAre DEF Parameter, Symbols
<1> HIDE DEF v
<1>3. Has(v, <<">">>) <=> \E i \in 1..(h - q) : v[i] = ">"
  BY <1>1, <1>2, HasOne
<1>4. ASSUME q + 2 <= h
      PROVE Has(v, <<">">>) /\ v[1] = a[q + 1] /\ After(v, <<">">>) = SubSeq(a, q + 3, h)
  <2>1. 1 \in 1..(h - q) /\ 2 \in 1..(h - q)
    BY <1>0, <1>4
  <2>2. v[1] = a[q + 1] /\ v[2] = a[q + 2]
    BY <1>1, <2>1
  <2>3. Find(v, <<">">>, 1) = 2
    <3>1. 2 \in 1..Len(v) /\ \A j \in 1..(2 - 1) : v[j] # ">"
      BY <1>1, <1>2, <2>1, <2>2
    <3> QED BY <1>1, <1>2, <2>2, <3>1, FindOne
  <2>4. After(v, <<">">>) = SubSeq(v, 3, h - q)
    BY <1>1, <2>3 DEF After, From
  <2>5. SubSeq(v, 3, h - q) = SubSeq(a, q + 3, h)
    <3> DEFINE l == q + 1
               j == h - q
    <3>1. l \in Nat \ {0} /\ l <= h + 1 /\ j \in Nat /\ 3 <= j + 1 /\ j <= h - l + 1
          /\ l + 3 - 1 = q + 3 /\ l + j - 1 = h
      BY <1>0, <1>4
    <3> HIDE DEF l, j
    <3>2. SubSeq(SubSeq(a, l, h), 3, j) = SubSeq(a, l + 3 - 1, l + j - 1)
      BY <1>0, <3>1, WindowWindow
    <3> QED BY <3>1, <3>2 DEF l, j, v
  <2> QED BY <1>2, <1>3, <2>1, <2>2, <2>4, <2>5
<1>5. ASSUME ~(q + 2 <= h) PROVE ~Has(v, <<">">>)
  <2>1. \A i \in 1..(h - q) : i = 1
    BY <1>0, <1>5
  <2> QED BY <1>1, <1>2, <1>3, <2>1
<1> QED BY <1>4, <1>5 DEF v

(* A value ends at its end tag, for the stream, which finds the end by     *)
(* itself only when the tag is there, and for the regular expression.      *)
LEMMA ValueEnds ==
  ASSUME NEW a \in Seq(Symbols), NEW st, NEW m, NEW q, NEW r, Parameter(a, st, m, q, r),
         NEW h \in (q + 2)..Len(a)
  PROVE  LET u == SubSeq(a, q + 3, h) IN
         /\ r <= h => /\ ValueEnd(u) = r - q - 2 /\ RegexEnd(u) = r - q - 2 /\ r - q - 2 # 0
                      /\ Upto(u, r - q - 2 - 1) = SubSeq(a, q + 3, r - 1)
         /\ ~(r <= h) => ValueEnd(u) = 0
<1> DEFINE l == q + 3
           u == SubSeq(a, l, h)
           n == h - l + 1
           e == r - l + 1
<1>0. /\ q \in Nat \ {0} /\ h \in Nat /\ r \in Nat /\ h <= Len(a) /\ l \in Nat \ {0} /\ l <= h + 1
      /\ l <= r /\ n \in Nat /\ r - q - 2 = e /\ e \in Nat \ {0} /\ (r <= h <=> e <= n)
  BY DEF Parameter
<1>1. u \in Seq(Symbols) /\ Len(u) = n /\ \A i \in 1..n : u[i] = a[l + i - 1]
  <2> HIDE DEF l
  <2> QED BY <1>0, Window
<1>2. a[r] = "</parameter>" /\ \A i \in l..(r - 1) : a[i] \notin Tags
  BY DEF Parameter
<1>3. \A i \in 1..n : i < e => u[i] \notin Tags
  <2> TAKE i \in 1..n
  <2>1. i < e => l + i - 1 \in l..(r - 1)
    BY <1>0
  <2> QED BY <1>1, <1>2, <2>1
<1>4. /\ "</parameter>" \in Symbols /\ "<parameter=" \in Symbols /\ "</function>" \in Symbols
      /\ "</tool_call>" \in Symbols
  BY TagsAre DEF Symbols
<1>5. ASSUME r <= h
      PROVE  /\ ValueEnd(u) = e /\ RegexEnd(u) = e
             /\ Upto(u, e - 1) = SubSeq(a, q + 3, r - 1)
  <2>1. e \in 1..n /\ l + e - 1 = r
    BY <1>0, <1>5
  <2> HIDE DEF l, u, n, e
  <2>2. u[e] = "</parameter>"
    BY <1>1, <1>2, <2>1
  <2>3. \A j \in 1..(e - 1) : u[j] \notin Tags
    <3>1. \A j \in 1..(e - 1) : j \in 1..n /\ j < e
      BY <1>0, <2>1
    <3> QED BY <1>3, <3>1
  <2>4. Find(u, <<"</parameter>">>, 1) = e
    <3>1. \A j \in 1..(e - 1) : u[j] # "</parameter>"
      BY <2>3, TagsAre
    <3>2. e \in 1..Len(u)
      BY <1>1, <2>1
    <3> QED BY <1>1, <1>4, <2>2, <3>1, <3>2, FindOne
  <2>5. ValueEnd(u) = e
    BY <1>0, <2>4 DEF ValueEnd
  <2>6. RegexEnd(u) = e
    <3>1. \A j \in 1..(e - 1) : u[j] \notin {"</parameter>", "<parameter=", "</function>"}
      BY <2>3, TagsAre
    <3>2. u[e] \in {"</parameter>", "<parameter=", "</function>"}
      BY <2>2
    <3>3. e \in 1..Len(u)
      BY <1>1, <2>1
    <3>4. FirstOf(u, {"</parameter>", "<parameter=", "</function>"}) = e
      BY <1>1, <3>1, <3>2, <3>3, FirstOfIs
    <3> QED BY <3>4 DEF RegexEnd
  <2>7. SubSeq(u, 1, e - 1) = SubSeq(a, l, r - 1)
    <3> DEFINE j == e - 1
    <3>1. j \in Nat /\ 1 <= j + 1 /\ j <= h - l + 1 /\ l + 1 - 1 = l /\ l + j - 1 = r - 1
      BY <1>0, <2>1 DEF n
    <3> HIDE DEF j
    <3>2. SubSeq(SubSeq(a, l, h), 1, j) = SubSeq(a, l + 1 - 1, l + j - 1)
      BY <1>0, <3>1, WindowWindow
    <3> QED BY <3>1, <3>2 DEF u, j
  <2> QED BY <2>5, <2>6, <2>7 DEF Upto, l
<1>6. ASSUME ~(r <= h) PROVE ValueEnd(u) = 0
  <2>1. \A i \in 1..n : u[i] \notin Tags
    BY <1>0, <1>3, <1>6
  <2> HIDE DEF l, u, n, e
  <2>2. \A i \in 1..Len(u) : /\ u[i] # "</parameter>" /\ u[i] # "<parameter="
                             /\ u[i] # "</function>" /\ u[i] # "</tool_call>"
    BY <1>1, <2>1, TagsAre
  <2>3. Find(u, <<"</parameter>">>, 1) = 0 /\ Find(u, <<"<parameter=">>, 1) = 0
        /\ Find(u, <<"</function>">>, 1) = 0 /\ Find(u, <<"</tool_call>">>, 1) = 0
    BY <1>1, <1>4, <2>2, FindOne
  <2> QED BY <2>3 DEF ValueEnd
<1> QED BY <1>0, <1>5, <1>6 DEF u, l, e

(* The m-th parameter as every reader should understand it. *)
Piece(a, m) ==
  LET q == At(a, "<parameter=", m)
      r == At(a, "</parameter>", m)
  IN Convert(a[q + 1], Trimmed(SubSeq(a, q + 3, r - 1)), TRUE)

(* A parameter read up to some end, with the tools of the request. *)
ReadTo(w, j, end) == Param(w, j, end, TRUE)

(* In a part of a call that begins before the parameters, a parameter is   *)
(* complete when its end tag is there, and is then read as in the whole.   *)
LEMMA WindowParam ==
  ASSUME NEW a \in Seq(Symbols), NEW st, Staged(a, st),
         NEW k, NEW o, NEW g, Call(a, st, k, o, g),
         NEW l \in Opens(a, k)..(o + 2), NEW h \in (o + 2)..Closes(a, k),
         NEW j \in 1..(No(a, "<parameter=", h) - No(a, "<parameter=", o))
  PROVE  LET w == SubSeq(a, l, h)
             m == No(a, "<parameter=", o) + j
             r == At(a, "</parameter>", m)
         IN /\ ParamComplete(w, j) <=> r <= h
            /\ r <= h => /\ Has(ParamText(w, j), <<">">>)
                         /\ ReadTo(w, j, ValueEnd(ParamValue(w, j))) = Piece(a, m)
                         /\ ReadTo(w, j, RegexEnd(ParamValue(w, j))) = Piece(a, m)
<1> DEFINE w == SubSeq(a, l, h)
           m == No(a, "<parameter=", o) + j
           q == At(a, "<parameter=", m)
           r == At(a, "</parameter>", m)
           v == SubSeq(a, q + 1, h)
           u == SubSeq(a, q + 3, h)
<1>1. /\ Parameter(a, st, m, q, r) /\ o + 4 <= q /\ r < g /\ q <= h
      /\ ParamText(w, j) = v
  BY WindowText
<1>0. Piece(a, m) = Convert(a[q + 1], Trimmed(SubSeq(a, q + 3, r - 1)), TRUE)
  BY DEF Piece
<1>2. /\ q \in Nat \ {0} /\ r \in Nat /\ q + 3 <= r /\ r <= Len(a) /\ h \in Nat /\ h <= Len(a)
      /\ h \in q..Len(a)
  BY <1>1 DEF Parameter, Call
<1> HIDE DEF w, m, q, r
<1>3. /\ Has(v, <<">">>) <=> q + 2 <= h
      /\ q + 2 <= h => v[1] = a[q + 1] /\ After(v, <<">">>) = u
  <2>1. Parameter(a, st, m, q, r) /\ h \in q..Len(a)
    BY <1>1, <1>2
  <2> QED BY <2>1, NameThenValue
<1>4. q + 2 <= h => /\ r <= h => /\ ValueEnd(u) = r - q - 2 /\ RegexEnd(u) = r - q - 2
                                 /\ r - q - 2 # 0
                                 /\ Upto(u, r - q - 2 - 1) = SubSeq(a, q + 3, r - 1)
                    /\ ~(r <= h) => ValueEnd(u) = 0
  <2>1. q + 2 <= h => h \in (q + 2)..Len(a)
    BY <1>2
  <2> QED BY <1>1, <2>1, ValueEnds
<1> HIDE DEF v, u
<1>5. q + 2 <= h => ParamValue(w, j) = u /\ ParamName(w, j) = a[q + 1]
  BY <1>1, <1>3 DEF ParamValue, ParamName
<1>6. ParamComplete(w, j) <=> r <= h
  <2>1. r <= h => q + 2 <= h
    BY <1>2
  <2> QED BY <1>1, <1>3, <1>4, <1>5, <2>1 DEF ParamComplete
<1>7. ASSUME r <= h
      PROVE  /\ Has(ParamText(w, j), <<">">>)
             /\ ReadTo(w, j, ValueEnd(ParamValue(w, j))) = Piece(a, m)
             /\ ReadTo(w, j, RegexEnd(ParamValue(w, j))) = Piece(a, m)
  <2>1. q + 2 <= h
    BY <1>2, <1>7
  <2>2. /\ ParamValue(w, j) = u /\ ParamName(w, j) = a[q + 1]
        /\ ValueEnd(u) = r - q - 2 /\ RegexEnd(u) = r - q - 2
        /\ Upto(u, r - q - 2 - 1) = SubSeq(a, q + 3, r - 1)
    BY <1>4, <1>5, <1>7, <2>1
  <2>3. Has(ParamText(w, j), <<">">>)
    BY <1>1, <1>3, <2>1
  <2>4. ReadTo(w, j, r - q - 2) = Piece(a, m)
    BY <1>0, <2>2 DEF Param, ReadTo
  <2> QED BY <2>2, <2>3, <2>4
<1> QED BY <1>6, <1>7 DEF w, m, r

-----------------------------------------------------------------------------
(* The whole text at once.                                                 *)

(* The values that have ended up to some places of a call. *)
LEMMA ValuesIn ==
  ASSUME NEW a \in Seq(Symbols), NEW st, Staged(a, st),
         NEW k, NEW o, NEW g, Call(a, st, k, o, g), NEW h \in Opens(a, k)..Closes(a, k)
  PROVE  LET b == No(a, "<parameter=", o) IN
         /\ No(a, "</parameter>", h) \in Nat
         /\ b <= No(a, "</parameter>", h)
         /\ No(a, "</parameter>", h) <= No(a, "<parameter=", h)
         /\ No(a, "</parameter>", h) <= No(a, "<parameter=", g)
         /\ h >= g => No(a, "</parameter>", h) = No(a, "<parameter=", g)
         /\ h <= o + 4 => No(a, "</parameter>", h) = b
<1> DEFINE p == Opens(a, k)
           z == Closes(a, k)
<1>0. /\ o \in Nat \ {0} /\ g \in Nat /\ o + 4 <= g /\ g + 1 <= z /\ z <= Len(a)
      /\ Len(a) \in Nat /\ h \in Nat /\ p \in Nat \ {0} /\ p <= o /\ z \in Nat
      /\ p <= h /\ h <= z
  BY DEF Call
<1>1. No(a, "</parameter>", p) = No(a, "<parameter=", o)
  <2>1. p \in 0..Len(a) /\ p \in p..o /\ p \in (p - 1)..(o + 3)
    BY <1>0
  <2>2. Level(a, st, p) /\ st[p] = "call"
    BY <2>1, Levels DEF Call
  <2>3. No(a, "<parameter=", p) = No(a, "<parameter=", o)
    BY <2>1, KeysIn
  <2> QED BY <2>2, <2>3 DEF Level
<1>2. /\ No(a, "</parameter>", h) \in Nat /\ No(a, "<parameter=", h) \in Nat
      /\ No(a, "</parameter>", p) \in Nat
  <2> p \in Nat
    BY <1>0
  <2> QED BY <1>0, NoStep
<1>3. No(a, "</parameter>", p) <= No(a, "</parameter>", h)
  BY <1>0, NoGrows
<1>4. No(a, "</parameter>", h) <= No(a, "<parameter=", h)
  <2>1. Level(a, st, h)
    BY <1>0, Levels
  <2> QED BY <1>2, <2>1 DEF Level
<1>5. /\ No(a, "<parameter=", h) <= No(a, "<parameter=", g) /\ No(a, "<parameter=", g) \in Nat
      /\ No(a, "<parameter=", o) \in Nat
  <2>1. g \in p..z /\ h \in p..z
    BY <1>0
  <2> QED BY <2>1, KeysIn
<1>6. h >= g => No(a, "</parameter>", h) = No(a, "<parameter=", g)
  <2>1. g \in 0..Len(a) /\ g \in g..(z - 1)
    BY <1>0
  <2>2. Level(a, st, g) /\ st[g] = "end"
    BY <2>1, Levels DEF Call
  <2>3. No(a, "</parameter>", g) = No(a, "<parameter=", g)
    BY <2>2 DEF Level
  <2>4. h >= g => No(a, "</parameter>", g) <= No(a, "</parameter>", h)
    BY <1>0, NoGrows
  <2> QED BY <1>2, <1>4, <1>5, <2>3, <2>4
<1>7. h <= o + 4 => No(a, "</parameter>", h) = No(a, "</parameter>", p)
  <2> SUFFICES ASSUME h <= o + 4 PROVE No(a, "</parameter>", h) = No(a, "</parameter>", p)
    OBVIOUS
  <2>1. p \in Nat /\ p <= h
    BY <1>0
  <2>2. a[o + 4] # "</parameter>"
    <3>1. o + 4 \in 1..Len(a) /\ o + 4 = (o + 3) + 1 /\ o + 3 \in Nat /\ st[o + 3] = "body"
      BY <1>0 DEF Call
    <3> QED BY <3>1, StageNext
  <2>3. /\ a[o + 1] # "</parameter>" /\ a[o + 2] # "</parameter>" /\ a[o + 3] # "</parameter>"
        /\ \A i \in (p + 1)..o : a[i] # "</parameter>"
    BY TagsAre DEF Call
  <2> HIDE DEF p
  <2>4. \A i \in (p + 1)..h : a[i] # "</parameter>"
    <3>1. \A i \in (p + 1)..h :
            i \in (p + 1)..o \/ i = o + 1 \/ i = o + 2 \/ i = o + 3 \/ i = o + 4
      BY <1>0
    <3> QED BY <2>2, <2>3, <3>1
  <2> QED BY <1>0, <2>1, <2>4, NoSame
<1> QED BY <1>1, <1>2, <1>3, <1>4, <1>5, <1>6, <1>7

(* A parameter is complete when its end tag is among those received. *)
LEMMA CompleteWhen ==
  ASSUME NEW a \in Seq(Symbols), NEW st, Staged(a, st),
         NEW k, NEW o, NEW g, Call(a, st, k, o, g),
         NEW l \in Opens(a, k)..(o + 2), NEW h \in (o + 2)..Closes(a, k),
         NEW j \in 1..(No(a, "<parameter=", h) - No(a, "<parameter=", o))
  PROVE  LET w == SubSeq(a, l, h)
             m == No(a, "<parameter=", o) + j
         IN /\ ParamComplete(w, j) <=> m <= No(a, "</parameter>", h)
            /\ m <= No(a, "</parameter>", h) =>
                 /\ Has(ParamText(w, j), <<">">>)
                 /\ ReadTo(w, j, ValueEnd(ParamValue(w, j))) = Piece(a, m)
                 /\ ReadTo(w, j, RegexEnd(ParamValue(w, j))) = Piece(a, m)
<1> DEFINE w == SubSeq(a, l, h)
           m == No(a, "<parameter=", o) + j
           r == At(a, "</parameter>", m)
<1>1. Parameter(a, st, m, At(a, "<parameter=", m), r)
  BY WindowText
<1>2. /\ ParamComplete(w, j) <=> r <= h
      /\ r <= h => /\ Has(ParamText(w, j), <<">">>)
                   /\ ReadTo(w, j, ValueEnd(ParamValue(w, j))) = Piece(a, m)
                   /\ ReadTo(w, j, RegexEnd(ParamValue(w, j))) = Piece(a, m)
  <2>1. ParamComplete(w, j) <=> r <= h
    BY WindowParam
  <2>2. r <= h => Has(ParamText(w, j), <<">">>)
    BY WindowParam
  <2>3. r <= h => ReadTo(w, j, ValueEnd(ParamValue(w, j))) = Piece(a, m)
    BY WindowParam
  <2>4. r <= h => ReadTo(w, j, RegexEnd(ParamValue(w, j))) = Piece(a, m)
    BY WindowParam
  <2> QED BY <2>1, <2>2, <2>3, <2>4
<1> HIDE DEF w, m, r
<1>3. r \in Nat \ {0} /\ a[r] = "</parameter>" /\ No(a, "</parameter>", r) = m
  BY <1>1 DEF Parameter
<1>4. h \in Nat
  BY DEF Call
<1>5. r <= h <=> m <= No(a, "</parameter>", h)
  BY <1>3, <1>4, AtReached
<1> QED BY <1>2, <1>5 DEF w, m

(* The parameters of a call, and the call with them as it is written. *)
Pieces(a, o, g) ==
  LET b == No(a, "<parameter=", o) IN
  [j \in 1..(No(a, "<parameter=", g) - b) |-> Piece(a, b + j)]

WrittenCall(a, o, g) ==
  [name |-> a[o + 2], args |-> Brace \o Pieces(a, o, g) \o EndBrace]

(* The body of a call has the name and the parameters of that call. *)
LEMMA BodyIs ==
  ASSUME NEW a \in Seq(Symbols), NEW st, Staged(a, st),
         NEW k, NEW o, NEW g, Call(a, st, k, o, g)
  PROVE  LET body == SubSeq(a, o + 2, g - 1) IN
         /\ Has(body, <<">">>)
         /\ \A j \in 1..Count(body, "<parameter=") : Has(ParamText(body, j), <<">">>)
         /\ body[1] = a[o + 2]
         /\ Parameters(body, TRUE) = Pieces(a, o, g)
<1> DEFINE l == o + 2
           h == g - 1
           body == SubSeq(a, l, h)
           b == No(a, "<parameter=", o)
<1>0. /\ o \in Nat \ {0} /\ g \in Nat \ {0} /\ o + 4 <= g /\ Len(a) \in Nat
      /\ h \in (o + 2)..Closes(a, k) /\ h \in Opens(a, k)..Closes(a, k)
      /\ g \in Opens(a, k)..Closes(a, k) /\ l \in Opens(a, k)..(o + 2) /\ h \in Nat
      /\ a[o + 3] = ">" /\ a[g] = "</function>"
  BY DEF Call
<1>1. No(a, "<parameter=", g) = No(a, "<parameter=", h)
  <2>1. /\ No(a, "<parameter=", g - 1) \in Nat
        /\ No(a, "<parameter=", g)
             = No(a, "<parameter=", g - 1) + (IF a[g] = "<parameter=" THEN 1 ELSE 0)
    <3>1. g \in Nat \ {0}
      BY <1>0
    <3> QED BY <3>1, NoPrevious
  <2> QED BY <1>0, <2>1
<1>2. No(a, "</parameter>", h) = No(a, "<parameter=", h)
  <2>1. No(a, "</parameter>", g) = No(a, "<parameter=", g)
    <3>1. g \in Opens(a, k)..Closes(a, k) /\ g >= g
      BY <1>0
    <3> QED BY <3>1, ValuesIn
  <2>2. No(a, "</parameter>", g) = No(a, "</parameter>", h)
    <3>1. /\ No(a, "</parameter>", g - 1) \in Nat
          /\ No(a, "</parameter>", g)
               = No(a, "</parameter>", g - 1) + (IF a[g] = "</parameter>" THEN 1 ELSE 0)
      <4>1. g \in Nat \ {0}
        BY <1>0
      <4> QED BY <4>1, NoPrevious
    <3> QED BY <1>0, <3>1
  <2> QED BY <1>1, <2>1, <2>2
<1> HIDE DEF h, l
<1>3. /\ body \in Seq(Symbols) /\ Len(body) = h - l + 1
      /\ \A i \in 1..(h - l + 1) : body[i] = a[l + i - 1]
      /\ Count(body, "<parameter=") = No(a, "<parameter=", h) - b
  <2>1. l \in Opens(a, k)..(o + 2) /\ h \in (o + 2)..Closes(a, k) /\ a \in Seq(Symbols)
        /\ Call(a, st, k, o, g)
    BY <1>0
  <2>2. /\ body \in Seq(Symbols) /\ Len(body) = h - l + 1
        /\ \A i \in 1..(h - l + 1) : body[i] = a[l + i - 1]
    BY ONLY <2>1, WindowCount
  <2>3. Count(body, "<parameter=") = No(a, "<parameter=", h) - b
    BY ONLY <2>1, WindowKeys
  <2> QED BY <2>2, <2>3
<1>4. ASSUME NEW j \in 1..(No(a, "<parameter=", h) - b)
      PROVE  /\ Has(ParamText(body, j), <<">">>)
             /\ ReadTo(body, j, RegexEnd(ParamValue(body, j))) = Piece(a, b + j)
  <2>1. b + j <= No(a, "</parameter>", h)
    <3>1. b \in Nat /\ No(a, "<parameter=", h) \in Nat
      BY <1>0, KeysIn
    <3> QED BY <1>2, <3>1
  <2>2. l \in Opens(a, k)..(o + 2) /\ h \in (o + 2)..Closes(a, k)
    BY <1>0
  <2> QED BY <2>1, <2>2, CompleteWhen
<1>5. body[1] = a[o + 2] /\ body[2] = ">" /\ 2 \in 1..Len(body)
  <2>1. 1 \in 1..(h - l + 1) /\ 2 \in 1..(h - l + 1) /\ l + 1 - 1 = o + 2 /\ l + 2 - 1 = o + 3
    BY <1>0 DEF h, l
  <2> HIDE DEF body
  <2>2. body[1] = a[l + 1 - 1] /\ body[2] = a[l + 2 - 1]
    BY <1>3, <2>1
  <2> QED BY <1>0, <1>3, <2>1, <2>2
<1> HIDE DEF body, b
<1>6. Has(body, <<">">>)
  <2>1. ">" \in Symbols
    BY TagsAre DEF Symbols
  <2> QED BY <1>3, <1>5, <2>1, HasOne
<1>7. [j \in 1..Count(body, "<parameter=") |-> ReadTo(body, j, RegexEnd(ParamValue(body, j)))]
        = [j \in 1..(No(a, "<parameter=", g) - b) |-> Piece(a, b + j)]
  BY <1>1, <1>3, <1>4
<1>8. Parameters(body, TRUE) = Pieces(a, o, g)
  BY <1>7 DEF ReadTo, Parameters, Pieces, b
<1> QED BY <1>3, <1>4, <1>5, <1>6, <1>8 DEF body, h, l

(* GetFunctionCalls from a place on, by what it is further on. *)
Rest(a, f, i) ==
  LET start == Find(a, <<"<function=">>, i)
      end == start + FirstOf(From(a, start + 1), {"</function>", "</tool_call>"})
      body == SubSeq(a, start + 1, end - 1)
  IN IF start = 0 THEN <<>>
     ELSE (IF Has(body, <<">">>) THEN <<body>> ELSE <<>>) \o f[end]

(* Symbols that open no function are passed over.                          *)
LEMMA RestOn ==
  ASSUME NEW a \in Seq(Symbols), NEW i \in 1..(Len(a) + 1), NEW f, NEW g,
         \A j \in (i + 1)..(Len(a) + 1) : f[j] = g[j]
  PROVE  Rest(a, f, i) = Rest(a, g, i)
<1> DEFINE start == Find(a, <<"<function=">>, i)
           v == From(a, start + 1)
           ends == {"</function>", "</tool_call>"}
           at == {j \in DOMAIN v : v[j] \in ends} \cup {Len(v) + 1}
           end == start + FirstOf(v, ends)
           n == Len(a)
<1>0. n \in Nat
  OBVIOUS
<1>1. start = 0 \/ start \in i..n
  <2> DEFINE places == {j \in i..n : a[j] = "<function="}
  <2>1. "<function=" \in Symbols
    BY TagsAre DEF Symbols
  <2>2. Occurrences(a, <<"<function=">>, i) = places
    BY <2>1, OccOne
  <2>3. start = IF places = {} THEN 0 ELSE Min(places)
    BY <2>2 DEF Find
  <2>4. places # {} => Min(places) \in i..n
    <3> SUFFICES ASSUME NEW j \in places PROVE Min(places) \in i..n
      OBVIOUS
    <3>1. j \in Nat
      OBVIOUS
    <3>2. PICK x \in Nat : x \in places /\ \A y \in Nat : y \in places => x <= y
      <4> HIDE DEF places
      <4> QED BY <3>1, Least
    <3>3. places \in SUBSET Nat
      OBVIOUS
    <3> HIDE DEF places
    <3>4. Min(places) = x
      BY <3>2, <3>3, MinIs
    <3> QED BY <3>2, <3>4 DEF places
  <2> HIDE DEF start, places
  <2> QED BY <2>3, <2>4
<1>2. ASSUME start # 0 PROVE end \in (i + 1)..(n + 1)
  <2>0. start \in i..n
    BY <1>1, <1>2
  <2>1. v \in Seq(Symbols) /\ Len(v) = n - start
    <3> HIDE DEF start
    <3>1. start + 1 \in Nat \ {0} /\ start + 1 <= n + 1 /\ n - (start + 1) + 1 = n - start
      BY <1>0, <2>0
    <3> DEFINE l == start + 1
    <3> HIDE DEF l
    <3>2. SubSeq(a, l, n) \in Seq(Symbols) /\ Len(SubSeq(a, l, n)) = n - l + 1
      BY <1>0, <3>1, Window DEF l
    <3> QED BY <3>1, <3>2 DEF l, From
  <2> HIDE DEF v, start
  <2>2. Len(v) + 1 \in at /\ at \in SUBSET (1..(Len(v) + 1)) /\ Len(v) \in Nat
    BY <2>1
  <2>3. PICK x \in Nat : x \in at /\ \A y \in Nat : y \in at => x <= y
    <3>1. Len(v) + 1 \in Nat
      BY <2>2
    <3> HIDE DEF at
    <3> QED BY <2>2, <3>1, Least
  <2>4. FirstOf(v, ends) = Min(at)
    BY DEF FirstOf
  <2> HIDE DEF at, ends
  <2>5. Min(at) = x
    <3>1. at \in SUBSET Nat
      BY <2>2
    <3> QED BY <2>3, <3>1, MinIs
  <2>6. x \in 1..(Len(v) + 1)
    BY <2>2, <2>3
  <2> QED BY <1>0, <2>0, <2>1, <2>4, <2>5, <2>6
<1>3. start # 0 => f[end] = g[end]
  BY <1>2
<1> QED BY <1>3 DEF Rest

(* GetFunctionCalls is computed from the end of the text on.               *)
LEMMA CallsOf ==
  ASSUME NEW a \in Seq(Symbols)
  PROVE  \E f : GetFunctionCalls(a) = f[1] /\ \A i \in 1..(Len(a) + 1) : f[i] = Rest(a, f, i)
<1> DEFINE n == Len(a)
           On(f, d) == \A i \in (n + 2 - d)..(n + 1) : f[i] = Rest(a, f, i)
           S == {d \in Nat : d <= n + 1 => \E f : On(f, d)}
           Is(f) == f = [i \in 1..(n + 1) |-> Rest(a, f, i)]
           f0 == CHOOSE f : Is(f)
<1>0. n \in Nat
  OBVIOUS
<1>1. 0 \in S
  <2>1. On(<<>>, 0)
    BY <1>0
  <2> QED BY <2>1
<1>2. ASSUME NEW d \in Nat, d \in S PROVE d + 1 \in S
  <2> SUFFICES ASSUME d + 1 <= n + 1 PROVE \E f : On(f, d + 1)
    OBVIOUS
  <2>1. PICK f : On(f, d)
    BY <1>0, <1>2
  <2> DEFINE x == n + 1 - d
             g == [i \in 1..(n + 1) |-> IF i > x THEN f[i] ELSE Rest(a, f, x)]
  <2>2. x \in 1..(n + 1) /\ n + 2 - d = x + 1 /\ n + 2 - (d + 1) = x
    BY <1>0
  <2>3. \A i \in (x + 1)..(n + 1) : g[i] = f[i] /\ f[i] = Rest(a, f, i)
    <3>1. \A i \in (x + 1)..(n + 1) : i \in 1..(n + 1) /\ i > x
      BY <1>0, <2>2
    <3>2. \A i \in (x + 1)..(n + 1) : f[i] = Rest(a, f, i)
      BY <2>1, <2>2
    <3> QED BY <3>1, <3>2
  <2>4. g[x] = Rest(a, f, x)
    BY <2>2
  <2> HIDE DEF g, x
  <2>5. \A i \in x..(n + 1) : Rest(a, g, i) = Rest(a, f, i)
    <3> TAKE i \in x..(n + 1)
    <3>1. i \in 1..(n + 1) /\ \A j \in (i + 1)..(n + 1) : j \in (x + 1)..(n + 1)
      BY <1>0, <2>2
    <3>2. \A j \in (i + 1)..(n + 1) : g[j] = f[j]
      BY <2>3, <3>1
    <3> QED BY <3>1, <3>2, RestOn
  <2>6. On(g, d + 1)
    <3>1. \A i \in x..(n + 1) : i = x \/ i \in (x + 1)..(n + 1)
      BY <1>0, <2>2
    <3> QED BY <2>2, <2>3, <2>4, <2>5, <3>1
  <2> QED BY <2>6
<1>3. PICK f : On(f, n + 1)
  <2>1. n + 1 \in S
    <3> HIDE DEF S
    <3> QED BY <1>0, <1>1, <1>2, Induct
  <2> QED BY <1>0, <2>1
<1>4. \E h : Is(h)
  <2> DEFINE h == [i \in 1..(n + 1) |-> f[i]]
  <2>1. \A i \in 1..(n + 1) : f[i] = Rest(a, f, i)
    <3>1. n + 2 - (n + 1) = 1
      BY <1>0
    <3> QED BY <1>3, <3>1
  <2>2. \A i \in 1..(n + 1) : h[i] = f[i]
    OBVIOUS
  <2>3. h = [i \in 1..(n + 1) |-> h[i]]
    OBVIOUS
  <2> HIDE DEF h
  <2>4. \A i \in 1..(n + 1) : Rest(a, h, i) = Rest(a, f, i)
    <3> TAKE i \in 1..(n + 1)
    <3>1. \A j \in (i + 1)..(n + 1) : j \in 1..(n + 1)
      BY <1>0
    <3> QED BY <2>2, <3>1, RestOn
  <2>5. Is(h)
    BY <2>1, <2>2, <2>3, <2>4
  <2> QED BY <2>5
<1>5. Is(f0)
  BY <1>4
<1>6. GetFunctionCalls(a) = f0[1]
  BY DEF GetFunctionCalls, Rest
<1>7. ASSUME NEW h, Is(h) PROVE \A i \in 1..(n + 1) : h[i] = Rest(a, h, i)
  <2> DEFINE rhs(i) == Rest(a, h, i)
  <2>1. h = [i \in 1..(n + 1) |-> rhs(i)]
    BY <1>7
  <2>2. \A i \in 1..(n + 1) : h[i] = rhs(i)
    <3> HIDE DEF rhs
    <3> QED BY <2>1
  <2> QED BY <2>2
<1> HIDE DEF f0
<1> QED BY <1>5, <1>6, <1>7

(* The text of the k-th call's function.                                   *)
Body(a, k) == SubSeq(a, Begins(a, k) + 2, Ends(a, k) - 1)

(* The k-th call has its form.                                             *)
LEMMA CallOf ==
  ASSUME NEW a \in Seq(Symbols), NEW st, Staged(a, st),
         NEW k \in 1..No(a, "<tool_call>", Len(a))
  PROVE  Call(a, st, k, Begins(a, k), Ends(a, k))
BY CallIs

(* From a place after k functions on, the next one is that of the call k + 1. *)
LEMMA RestIs ==
  ASSUME NEW a \in Seq(Symbols), NEW st, Staged(a, st), NEW i \in 1..(Len(a) + 1), NEW f
  PROVE  LET c == No(a, "<function=", i - 1)
             n == No(a, "<tool_call>", Len(a))
         IN /\ c = n => Rest(a, f, i) = <<>>
            /\ c < n => /\ Rest(a, f, i) = <<Body(a, c + 1)>> \o f[Ends(a, c + 1)]
                        /\ Ends(a, c + 1) \in 1..(Len(a) + 1)
                        /\ No(a, "<function=", Ends(a, c + 1) - 1) = c + 1
<1> DEFINE c == No(a, "<function=", i - 1)
           n == No(a, "<tool_call>", Len(a))
           len == Len(a)
           ends == {"</function>", "</tool_call>"}
<1>0. len \in Nat /\ i - 1 \in Nat /\ c \in Nat /\ n \in Nat
  <2>1. len \in Nat /\ i - 1 \in Nat
    OBVIOUS
  <2> QED BY <2>1, NoStep
<1>1. "<function=" \in Symbols /\ ">" \in Symbols
  BY TagsAre DEF Symbols
<1>2. c = n => Rest(a, f, i) = <<>>
  <2> SUFFICES ASSUME c = n PROVE Rest(a, f, i) = <<>>
    OBVIOUS
  <2>1. No(a, "<function=", len) = n
    <3>1. Level(a, st, len) /\ st[len] \in {"text", "after"}
      BY <1>0, Levels DEF Staged
    <3> QED BY <3>1 DEF Level
  <2>2. \A j \in i..len : a[j] # "<function="
    <3> SUFFICES ASSUME NEW j \in i..len, a[j] = "<function=" PROVE FALSE
      OBVIOUS
    <3>1. j \in Nat \ {0} /\ j <= len /\ ~(j <= i - 1)
      BY <1>0
    <3>2. j <= len <=> No(a, "<function=", j) <= No(a, "<function=", len)
      BY <1>0, <3>1, AtReached
    <3>3. j <= i - 1 <=> No(a, "<function=", j) <= No(a, "<function=", i - 1)
      BY <1>0, <3>1, AtReached
    <3> QED BY <2>1, <3>1, <3>2, <3>3
  <2>3. Find(a, <<"<function=">>, i) = 0
    BY <1>1, <2>2, FindOne
  <2> QED BY <2>3 DEF Rest
<1>3. ASSUME c < n
      PROVE  /\ Rest(a, f, i) = <<Body(a, c + 1)>> \o f[Ends(a, c + 1)]
             /\ Ends(a, c + 1) \in 1..(len + 1)
             /\ No(a, "<function=", Ends(a, c + 1) - 1) = c + 1
  <2> DEFINE k == c + 1
             o == Begins(a, k)
             g == Ends(a, k)
             body == SubSeq(a, o + 2, g - 1)
  <2>1. k \in 1..n
    BY <1>0, <1>3
  <2>2. Call(a, st, k, o, g)
    BY <2>1, CallOf
  <2>3. Has(body, <<">">>)
    BY <2>2, BodyIs
  <2> HIDE DEF o, g
  <2>4. /\ o \in Nat /\ g \in Nat /\ o + 4 <= g /\ g <= len
        /\ a[o + 1] = "<function=" /\ No(a, "<function=", o + 1) = k
        /\ a[g] = "</function>"
        /\ \A j \in (o + 2)..(g - 1) :
             a[j] \notin {"<tool_call>", "<function=", "</function>", "</tool_call>"}
    BY <2>2 DEF Call
  <2>5. o + 1 \in i..len
    <3>1. o + 1 \in Nat \ {0}
      BY <2>4
    <3>2. o + 1 <= i - 1 <=> No(a, "<function=", o + 1) <= No(a, "<function=", i - 1)
      BY <1>0, <2>4, <3>1, AtReached
    <3> QED BY <1>0, <2>4, <3>2
  <2>6. \A j \in i..(o + 1 - 1) : a[j] # "<function="
    <3> SUFFICES ASSUME NEW j \in i..(o + 1 - 1), a[j] = "<function=" PROVE FALSE
      OBVIOUS
    <3>1. j \in Nat \ {0} /\ o + 1 \in Nat \ {0} /\ j < o + 1 /\ ~(j <= i - 1)
      BY <2>4
    <3>2. No(a, "<function=", j) < No(a, "<function=", o + 1)
      BY <2>4, <3>1, NoUnique
    <3>3. j <= i - 1 <=> No(a, "<function=", j) <= No(a, "<function=", i - 1)
      BY <1>0, <3>1, AtReached
    <3>4. No(a, "<function=", j) \in Nat
      BY <3>1, NoStep
    <3> QED BY <1>0, <2>4, <3>1, <3>2, <3>3, <3>4
  <2>7. Find(a, <<"<function=">>, i) = o + 1
    <3>1. i \in Nat \ {0}
      BY <1>0
    <3> QED BY <1>1, <2>4, <2>5, <2>6, <3>1, FindOne
  <2>8. FirstOf(From(a, o + 1 + 1), ends) = g - (o + 1)
    <3> DEFINE l == o + 2
               v == SubSeq(a, l, len)
               e == g - (o + 1)
    <3>0. l \in Nat \ {0} /\ l <= len + 1 /\ e \in 1..(len - l + 1) /\ l + e - 1 = g
          /\ e \in Nat /\ o + 1 + 1 = l
      BY <1>0, <2>4
    <3>1. v \in Seq(Symbols) /\ Len(v) = len - l + 1
          /\ \A j \in 1..(len - l + 1) : v[j] = a[l + j - 1]
      <4> HIDE DEF l
      <4>1. a \in Seq(Symbols) /\ len \in Nat /\ len <= Len(a)
        BY <1>0
      <4> QED BY ONLY <3>0, <4>1, Window
    <3>2. v[e] \in ends
      <4> HIDE DEF e, v, l
      <4> QED BY <2>4, <3>0, <3>1
    <3>3. \A j \in 1..(e - 1) : v[j] \notin ends
      <4> TAKE j \in 1..(e - 1)
      <4>1. j \in 1..(len - l + 1) /\ l + j - 1 \in (o + 2)..(g - 1)
        BY <1>0, <2>4, <3>0
      <4> HIDE DEF v, l, e
      <4> QED BY <2>4, <3>1, <4>1
    <3>4. FirstOf(v, ends) = e
      <4> HIDE DEF v, l, e, ends
      <4>1. e \in 1..Len(v)
        BY <3>0, <3>1
      <4> QED BY <3>1, <3>2, <3>3, <4>1, FirstOfIs
    <3>5. From(a, o + 1 + 1) = v
      BY <3>0 DEF From
    <3> QED BY <3>4, <3>5
  <2>9. Rest(a, f, i) = <<body>> \o f[g]
    <3> DEFINE start == Find(a, <<"<function=">>, i)
               end == start + FirstOf(From(a, start + 1), ends)
    <3>1. start = o + 1 /\ start # 0 /\ end = g
      <4>1. start = o + 1 /\ start # 0
        BY <2>4, <2>7
      <4>2. o + 1 + (g - (o + 1)) = g
        BY <2>4
      <4> HIDE DEF start
      <4> QED BY <2>8, <4>1, <4>2
    <3>2. start + 1 = o + 2
      BY <2>4, <3>1
    <3>3. SubSeq(a, start + 1, end - 1) = body
      BY <3>1, <3>2
    <3> HIDE DEF body
    <3> QED BY <2>3, <3>1, <3>3 DEF Rest
  <2>10. No(a, "<function=", g - 1) = k
    <3>1. o + 1 \in Nat /\ g - 1 \in Nat /\ o + 1 <= g - 1
      BY <2>4
    <3>2. \A j \in (o + 1 + 1)..(g - 1) : a[j] # "<function="
      <4>1. \A j \in (o + 1 + 1)..(g - 1) : j \in (o + 2)..(g - 1)
        BY <2>4
      <4> QED BY <2>4, <4>1
    <3> DEFINE x == o + 1
               y == g - 1
    <3> HIDE DEF x, y
    <3>3. No(a, "<function=", x) = No(a, "<function=", y)
      BY <3>1, <3>2, NoSame DEF x, y
    <3> QED BY <2>4, <3>3 DEF x, y
  <2>11. g \in 1..(len + 1)
    BY <1>0, <2>4
  <2> QED BY <2>9, <2>10, <2>11 DEF Body, o, g
<1> QED BY <1>2, <1>3

(* GetFunctionCalls finds the bodies of all calls. *)
LEMMA BodiesAre ==
  ASSUME NEW a \in Seq(Symbols), NEW st, Staged(a, st)
  PROVE  GetFunctionCalls(a) = [k \in 1..No(a, "<tool_call>", Len(a)) |-> Body(a, k)]
<1> DEFINE n == No(a, "<tool_call>", Len(a))
           Bodies(d) == [j \in 1..d |-> Body(a, n - d + j)]
<1>0. n \in Nat /\ Len(a) \in Nat
  <2>1. Len(a) \in Nat
    OBVIOUS
  <2> QED BY <2>1, NoStep
<1>1. PICK f : GetFunctionCalls(a) = f[1] /\ \A i \in 1..(Len(a) + 1) : f[i] = Rest(a, f, i)
  BY CallsOf
<1> DEFINE S == {d \in Nat : \A i \in 1..(Len(a) + 1) :
                   No(a, "<function=", i - 1) + d = n => f[i] = Bodies(d)}
<1>00. \A i \in 1..(Len(a) + 1) : i - 1 \in Nat
  BY <1>0
<1>01. \A i \in 1..(Len(a) + 1) : No(a, "<function=", i - 1) \in Nat
  BY <1>00, NoStep
<1>2. 0 \in S
  <2>1. ASSUME NEW i \in 1..(Len(a) + 1), No(a, "<function=", i - 1) + 0 = n
        PROVE  f[i] = Bodies(0)
    <3>1. Rest(a, f, i) = <<>>
      <4>1. No(a, "<function=", i - 1) = n
        BY <1>0, <1>01, <2>1
      <4> QED BY <4>1, RestIs
    <3>2. Bodies(0) = <<>>
      OBVIOUS
    <3> QED BY <1>1, <3>1, <3>2
  <2> QED BY <2>1
<1>3. ASSUME NEW d \in Nat, d \in S PROVE d + 1 \in S
  <2>1. ASSUME NEW i \in 1..(Len(a) + 1), No(a, "<function=", i - 1) + (d + 1) = n
        PROVE  f[i] = Bodies(d + 1)
    <3> DEFINE c == No(a, "<function=", i - 1)
               g == Ends(a, c + 1)
    <3>1. c \in Nat /\ c < n /\ c + 1 + d = n /\ n - (d + 1) = c /\ n - d = c + 1
      <4>1. c \in Nat
        BY <1>01
      <4> HIDE DEF n
      <4> QED BY <1>0, <2>1, <4>1
    <3>2. /\ Rest(a, f, i) = <<Body(a, c + 1)>> \o f[g]
          /\ g \in 1..(Len(a) + 1)
          /\ No(a, "<function=", g - 1) = c + 1
      <4>1. a \in Seq(Symbols) /\ Staged(a, st) /\ i \in 1..(Len(a) + 1)
        OBVIOUS
      <4> QED BY ONLY <3>1, <4>1, RestIs, ZenonT(60)
    <3> HIDE DEF c, g
    <3>3. f[g] = Bodies(d)
      BY <1>3, <3>1, <3>2
    <3>4. f[i] = <<Body(a, c + 1)>> \o Bodies(d)
      BY <1>1, <3>2, <3>3
    <3> DEFINE X == {Body(a, j) : j \in 1..n}
    <3>5. /\ Bodies(d) \in Seq(X) /\ Len(Bodies(d)) = d
          /\ Bodies(d + 1) \in Seq(X) /\ Len(Bodies(d + 1)) = d + 1
          /\ Body(a, c + 1) \in X
      <4>1. \A j \in 1..d : n - d + j \in 1..n
        BY <1>0, <3>1
      <4>2. \A j \in 1..(d + 1) : n - (d + 1) + j \in 1..n
        BY <1>0, <3>1
      <4>3. c + 1 \in 1..n
        BY <1>0, <3>1
      <4> HIDE DEF n
      <4>4. \A j \in 1..d : Body(a, n - d + j) \in X
        BY <4>1
      <4>5. \A j \in 1..(d + 1) : Body(a, n - (d + 1) + j) \in X
        BY <4>2
      <4>6. Body(a, c + 1) \in X
        BY <4>3
      <4> HIDE DEF X
      <4> QED BY <4>4, <4>5, <4>6
    <3>6. /\ <<Body(a, c + 1)>> \in Seq(X) /\ Len(<<Body(a, c + 1)>>) = 1
          /\ <<Body(a, c + 1)>>[1] = Body(a, c + 1)
      BY <3>5, One
    <3>7. /\ \A j \in 1..d : Bodies(d)[j] = Body(a, n - d + j)
          /\ \A j \in 1..(d + 1) : Bodies(d + 1)[j] = Body(a, n - (d + 1) + j)
      OBVIOUS
    <3> DEFINE both == <<Body(a, c + 1)>> \o Bodies(d)
    <3> HIDE DEF X, Bodies, n
    <3>8. /\ both \in Seq(X) /\ Len(both) = 1 + d
          /\ \A j \in 1..(1 + d) :
               both[j] = IF j <= 1 THEN <<Body(a, c + 1)>>[j] ELSE Bodies(d)[j - 1]
      BY <3>5, <3>6, ConcatProperties
    <3>9. \A j \in 1..(d + 1) : both[j] = Bodies(d + 1)[j]
      <4> TAKE j \in 1..(d + 1)
      <4>1. CASE j = 1
        <5>1. n - (d + 1) + 1 = c + 1
          BY <3>1
        <5>2. both[1] = Body(a, c + 1)
          BY <3>6, <3>8
        <5> QED BY <3>7, <4>1, <5>1, <5>2
      <4>2. CASE j # 1
        <5>1. j - 1 \in 1..d /\ n - d + (j - 1) = n - (d + 1) + j /\ ~(j <= 1) /\ j \in 1..(1 + d)
          BY <1>0, <4>2
        <5>2. both[j] = Bodies(d)[j - 1]
          BY <3>8, <5>1
        <5> QED BY <3>7, <5>1, <5>2
      <4> QED BY <4>1, <4>2
    <3>10. both = Bodies(d + 1)
      <4>1. 1 + d = d + 1
        OBVIOUS
      <4> HIDE DEF both
      <4> QED BY <3>5, <3>8, <3>9, <4>1, SeqEqual
    <3> QED BY <3>4, <3>10
  <2> HIDE DEF Bodies, n
  <2> QED BY <2>1
<1>4. n \in S
  <2> HIDE DEF S
  <2> QED BY <1>0, <1>2, <1>3, Induct
<1>5. No(a, "<function=", 1 - 1) + n = n
  <2>1. 1 - 1 = 0 /\ No(a, "<function=", 0) = 0
    BY NoBase
  <2> HIDE DEF n
  <2> QED BY <1>0, <2>1
<1>6. f[1] = Bodies(n)
  <2>1. 1 \in 1..(Len(a) + 1)
    BY <1>0
  <2> HIDE DEF Bodies, n
  <2> QED BY <1>4, <1>5, <2>1
<1>7. Bodies(n) = [k \in 1..n |-> Body(a, k)]
  <2> HIDE DEF n
  <2>1. \A j \in 1..n : n - n + j = j
    BY <1>0
  <2> QED BY <2>1
<1> QED BY <1>1, <1>6, <1>7

(* What is between the braces. *)
LEMMA Inner ==
  ASSUME NEW X, NEW s \in Seq(X)
  PROVE  SubSeq(Brace \o s \o EndBrace, 2, Len(Brace \o s \o EndBrace) - 1) = s
<1> DEFINE x == <<"{">>
           y == <<"}">>
<1> HIDE DEF x, y
<1> DEFINE Y == X \cup {x, y}
           n == Len(s)
           t == Brace \o s
           u == t \o EndBrace
<1>0. n \in Nat /\ s \in Seq(Y) /\ x \in Y /\ y \in Y
  OBVIOUS
<1>00. Len(s) = n
  OBVIOUS
<1> HIDE DEF Y, n, u, t
<1>1. /\ Brace \in Seq(Y) /\ Len(Brace) = 1
      /\ EndBrace \in Seq(Y) /\ Len(EndBrace) = 1
  <2>1. <<x>> \in Seq(Y) /\ Len(<<x>>) = 1 /\ <<y>> \in Seq(Y) /\ Len(<<y>>) = 1
    BY <1>0, One
  <2> QED BY <2>1 DEF Brace, EndBrace, x, y
<1>2. /\ t \in Seq(Y) /\ Len(t) = 1 + n
      /\ \A i \in 1..(1 + n) : t[i] = IF i <= 1 THEN Brace[i] ELSE s[i - 1]
  <2>1. /\ t \in Seq(Y) /\ Len(t) = Len(Brace) + Len(s)
        /\ \A i \in 1..(Len(Brace) + Len(s)) :
             t[i] = IF i <= Len(Brace) THEN Brace[i] ELSE s[i - Len(Brace)]
    BY ONLY <1>0, <1>1, ConcatProperties DEF t
  <2> QED BY <1>00, <1>1, <2>1
<1>3. /\ u \in Seq(Y) /\ Len(u) = 1 + n + 1
      /\ \A i \in 1..(1 + n + 1) : u[i] = IF i <= 1 + n THEN t[i] ELSE EndBrace[i - (1 + n)]
  <2>1. /\ u \in Seq(Y) /\ Len(u) = Len(t) + Len(EndBrace)
        /\ \A i \in 1..(Len(t) + Len(EndBrace)) :
             u[i] = IF i <= Len(t) THEN t[i] ELSE EndBrace[i - Len(t)]
    BY ONLY <1>1, <1>2, ConcatProperties DEF u
  <2> QED BY <1>0, <1>1, <1>2, <2>1
<1> DEFINE h == Len(u) - 1
<1>4. h = n + 1 /\ h \in Nat /\ h <= Len(u) /\ 2 <= h + 1 /\ h - 2 + 1 = n
  BY <1>0, <1>3
<1> HIDE DEF h
<1>5. /\ SubSeq(u, 2, h) \in Seq(Y) /\ Len(SubSeq(u, 2, h)) = n
      /\ \A i \in 1..n : SubSeq(u, 2, h)[i] = u[2 + i - 1]
  BY <1>3, <1>4, Window
<1>6. \A i \in 1..n : SubSeq(u, 2, h)[i] = s[i]
  <2> TAKE i \in 1..n
  <2>1. /\ 2 + i - 1 = i + 1 /\ i + 1 \in 1..(1 + n + 1) /\ i + 1 <= 1 + n
        /\ i + 1 \in 1..(1 + n) /\ ~(i + 1 <= 1) /\ i + 1 - 1 = i
    BY <1>0
  <2>2. u[i + 1] = t[i + 1]
    BY <1>3, <2>1
  <2>3. t[i + 1] = s[i]
    BY <1>2, <2>1
  <2> QED BY <1>5, <2>1, <2>2, <2>3
<1>7. SubSeq(u, 2, h) = s
  BY <1>0, <1>00, <1>5, <1>6, SeqEqual
<1> QED BY <1>7 DEF h, u, t

(* The calls the answer writes are the calls of the format, and a plain    *)
(* request is given what a client reads of them.                           *)
LEMMA WholeIs ==
  ASSUME NEW st, answer \in Seq(Symbols), Staged(answer, st)
  PROVE  LET n == No(answer, "<tool_call>", Len(answer))
             written(k) == WrittenCall(answer, Begins(answer, k), Ends(answer, k))
         IN /\ Written = [k \in 1..n |-> written(k)]
            /\ Whole = [k \in 1..n |-> Read(written(k))]
<1> DEFINE n == No(answer, "<tool_call>", Len(answer))
           body(k) == Body(answer, k)
           bodies == [k \in 1..n |-> body(k)]
           Torn(b) == \E j \in 1..Count(b, "<parameter=") : ~Has(ParamText(b, j), <<">">>)
           Parsed(b) == ParseXmlFunctionCall(b, TRUE)
           Write(b) == [name |-> b[1], args |-> Brace \o Parameters(b, TRUE) \o EndBrace]
           written(k) == WrittenCall(answer, Begins(answer, k), Ends(answer, k))
<1>1. GetFunctionCalls(answer) = bodies
  BY BodiesAre
<1>2. ASSUME NEW k \in 1..n
      PROVE  /\ ~Torn(body(k))
             /\ Write(body(k)) = written(k)
             /\ Parsed(body(k)) = Read(written(k))
  <2> DEFINE o == Begins(answer, k)
             g == Ends(answer, k)
             s == Pieces(answer, o, g)
  <2>1. Call(answer, st, k, o, g)
    BY CallOf
  <2> HIDE DEF o, g, n
  <2>2. /\ \A j \in 1..Count(SubSeq(answer, o + 2, g - 1), "<parameter=") :
             Has(ParamText(SubSeq(answer, o + 2, g - 1), j), <<">">>)
        /\ SubSeq(answer, o + 2, g - 1)[1] = answer[o + 2]
        /\ Parameters(SubSeq(answer, o + 2, g - 1), TRUE) = s
    BY <2>1, BodyIs
  <2>3. body(k) = SubSeq(answer, o + 2, g - 1)
    BY DEF Body, o, g
  <2>4. Write(body(k)) = [name |-> answer[o + 2], args |-> Brace \o s \o EndBrace]
    BY <2>2, <2>3
  <2>5. written(k) = [name |-> answer[o + 2], args |-> Brace \o s \o EndBrace]
    BY DEF WrittenCall, o, g
  <2>6. \E X : s \in Seq(X)
    <3> DEFINE b == No(answer, "<parameter=", o)
               d == No(answer, "<parameter=", g) - b
               X == {Piece(answer, b + j) : j \in 1..d}
    <3>1. d \in Nat
      <4>1. g \in Opens(answer, k)..Closes(answer, k)
        BY <2>1 DEF Call
      <4>2. /\ No(answer, "<parameter=", g) \in Nat /\ b \in Nat
            /\ b <= No(answer, "<parameter=", g)
        BY <2>1, <4>1, KeysIn
      <4> QED BY <4>2
    <3>2. s = [j \in 1..d |-> Piece(answer, b + j)]
      BY DEF Pieces
    <3>3. \A j \in 1..d : Piece(answer, b + j) \in X
      OBVIOUS
    <3> HIDE DEF d, X
    <3>4. s \in Seq(X)
      BY <3>1, <3>2, <3>3
    <3> QED BY <3>4
  <2> HIDE DEF s
  <2>7. SubSeq(Brace \o s \o EndBrace, 2, Len(Brace \o s \o EndBrace) - 1) = s
    <3>1. PICK X : s \in Seq(X)
      BY <2>6
    <3> QED BY ONLY <3>1, Inner
  <2>8. Read(written(k)) = [name |-> answer[o + 2], args |-> Brace \o Dict(s) \o EndBrace]
    <3> DEFINE call == written(k)
    <3>1. call.name = answer[o + 2] /\ call.args = Brace \o s \o EndBrace
      BY <2>5
    <3> HIDE DEF call
    <3>2. SubSeq(call.args, 2, Len(call.args) - 1) = s
      BY <2>7, <3>1
    <3>3. Read(call) = [name |-> call.name,
                        args |-> Brace \o Dict(SubSeq(call.args, 2, Len(call.args) - 1))
                                   \o EndBrace]
      BY DEF Read
    <3>4. Read(call) = [name |-> answer[o + 2], args |-> Brace \o Dict(s) \o EndBrace]
      BY <3>1, <3>2, <3>3
    <3> QED BY <3>4 DEF call
  <2>9. Parsed(body(k)) = [name |-> answer[o + 2], args |-> Brace \o Dict(s) \o EndBrace]
    BY <2>2, <2>3 DEF ParseXmlFunctionCall
  <2>10. ~Torn(body(k))
    BY <2>2, <2>3
  <2> QED BY <2>4, <2>5, <2>8, <2>9, <2>10
<1>3. DOMAIN bodies = 1..n /\ \A k \in 1..n : bodies[k] = body(k)
  OBVIOUS
<1>4. Whole = IF \E k \in DOMAIN bodies : Torn(bodies[k]) THEN <<>>
              ELSE [k \in DOMAIN bodies |-> Parsed(bodies[k])]
  BY <1>1 DEF Whole, ExtractToolCalls
<1>5. Written = [k \in DOMAIN bodies |-> Write(bodies[k])]
  BY <1>1 DEF Written
<1> HIDE DEF n, bodies, Torn, Parsed, Write, body, written
<1>6. ~\E k \in DOMAIN bodies : Torn(bodies[k])
  BY <1>2, <1>3
<1>7. Whole = [k \in 1..n |-> Read(written(k))]
  BY <1>2, <1>3, <1>4, <1>6
<1>8. Written = [k \in 1..n |-> written(k)]
  BY <1>2, <1>3, <1>5
<1> QED BY <1>7, <1>8 DEF n, written

-----------------------------------------------------------------------------
(* What was received.                                                      *)

(* What was received: the beginning of the answer. *)
LEMMA Received ==
  ASSUME NEW a \in Seq(Symbols), NEW p \in 0..Len(a)
  PROVE  /\ Upto(a, p) \in Seq(Symbols) /\ Len(Upto(a, p)) = p
         /\ \A i \in 1..p : Upto(a, p)[i] = a[i]
         /\ \A s \in Symbols : \A i \in 0..p : No(Upto(a, p), s, i) = No(a, s, i)
         /\ \A s \in Symbols : Count(Upto(a, p), s) = No(a, s, p)
<1> DEFINE w == SubSeq(a, 1, p)
<1>0. p \in Nat /\ p <= Len(a) /\ 1 <= p + 1 /\ p - 1 + 1 = p
  OBVIOUS
<1>1. w \in Seq(Symbols) /\ Len(w) = p /\ \A i \in 1..p : w[i] = a[i]
  <2>1. w \in Seq(Symbols) /\ Len(w) = p - 1 + 1 /\ \A i \in 1..(p - 1 + 1) : w[i] = a[1 + i - 1]
    BY <1>0, Window
  <2>2. \A i \in 1..p : 1 + i - 1 = i
    OBVIOUS
  <2> HIDE DEF w
  <2> QED BY <1>0, <2>1, <2>2
<1>2. ASSUME NEW s \in Symbols, NEW i \in 0..p PROVE No(w, s, i) = No(a, s, i)
  <2>1. No(w, s, i) = No(a, s, 1 - 1 + i) - No(a, s, 1 - 1)
    <3>1. 1 \in Nat \ {0} /\ i \in 0..(p - 1 + 1)
      BY <1>0
    <3> QED BY <1>0, <3>1, NoWindow
  <2>2. 1 - 1 = 0 /\ No(a, s, 0) = 0 /\ No(a, s, i) \in Nat /\ 0 + i = i
    <3>1. i \in Nat
      BY <1>0
    <3> QED BY <3>1, NoBase, NoStep
  <2> HIDE DEF w
  <2> QED BY <2>1, <2>2
<1>3. \A s \in Symbols : Count(w, s) = No(w, s, p)
  <2> HIDE DEF w
  <2> QED BY <1>1, CountIsNo
<1>4. p \in 0..p
  BY <1>0
<1> HIDE DEF w
<1>5. \A s \in Symbols : Count(w, s) = No(a, s, p)
  BY <1>2, <1>3, <1>4
<1>6. w = Upto(a, p)
  BY DEF Upto, w
<1> QED BY <1>1, <1>2, <1>5, <1>6

(* The end of the received part of a call that closes at z. *)
Reach(p, z) == IF p <= z THEN p ELSE z

(* The current call's text is what was received of it. *)
LEMMA ToolTextIs ==
  ASSUME NEW a \in Seq(Symbols), NEW st, Staged(a, st),
         NEW k \in 1..No(a, "<tool_call>", Len(a)), parser.index + 1 = k,
         NEW p \in 0..Len(a), Opens(a, k) <= p
  PROVE  ToolText(Upto(a, p)) = SubSeq(a, Opens(a, k), Reach(p, Closes(a, k)))
<1> DEFINE o == Begins(a, k)
           g == Ends(a, k)
           d == Opens(a, k)
           z == Closes(a, k)
           w == Upto(a, p)
           first == CHOOSE i \in Occurrences(w, <<"<tool_call>">>, 1) :
                      Count(Upto(w, i), "<tool_call>") = parser.index + 1
           end == Find(w, <<"</tool_call>">>, first)
<1>1. Call(a, st, k, o, g)
  BY CallOf
<1>0. /\ "<tool_call>" \in Symbols /\ "</tool_call>" \in Symbols
  BY TagsAre DEF Symbols
<1>2. /\ w \in Seq(Symbols) /\ Len(w) = p
      /\ \A i \in 1..p : w[i] = a[i]
      /\ \A i \in 0..p : No(w, "<tool_call>", i) = No(a, "<tool_call>", i)
  BY <1>0, Received
<1>3. /\ o \in Nat \ {0} /\ g \in Nat /\ o + 4 <= g /\ g + 1 <= z /\ z \in Nat /\ z <= Len(a)
      /\ d \in Nat \ {0} /\ d <= o /\ a[d] = "<tool_call>" /\ \A i \in (d + 1)..o : a[i] = "ws"
      /\ No(a, "<tool_call>", d) = k /\ a[z] = "</tool_call>" /\ a[g] = "</function>"
      /\ \A i \in (g + 1)..(z - 1) : a[i] = "ws"
      /\ a[o + 1] = "<function=" /\ p \in Nat /\ p <= Len(a) /\ d <= p
      /\ \A i \in (o + 2)..(g - 1) :
           a[i] \notin {"<tool_call>", "<function=", "</function>", "</tool_call>"}
  BY <1>1 DEF Call
<1> HIDE DEF o, g, w, d, z
<1>4. Occurrences(w, <<"<tool_call>">>, 1) = {i \in 1..p : w[i] = "<tool_call>"}
  BY <1>0, <1>2, OccOne
<1>5. ASSUME NEW i \in 1..p PROVE Count(Upto(w, i), "<tool_call>") = No(a, "<tool_call>", i)
  <2>1. i \in 0..Len(w) /\ i \in 0..p
    BY <1>2, <1>3
  <2>2. Count(Upto(w, i), "<tool_call>") = No(w, "<tool_call>", i)
    BY <1>0, <1>2, <2>1, Received
  <2> QED BY <1>2, <2>1, <2>2
<1>6. first = d
  <2>1. d \in 1..p /\ w[d] = "<tool_call>"
    BY <1>2, <1>3
  <2>2. \A i \in 1..p : w[i] = "<tool_call>" /\ No(a, "<tool_call>", i) = k => i = d
    <3> TAKE i \in 1..p
    <3>1. i \in Nat \ {0} /\ w[i] = a[i]
      BY <1>2, <1>3
    <3> QED BY <1>3, <3>1, NoUnique
  <2> QED BY <1>3, <1>4, <1>5, <2>1, <2>2
<1>7. \A i \in d..(z - 1) : a[i] # "</tool_call>"
  <2>1. \A i \in d..(z - 1) :
          \/ i = d \/ i \in (d + 1)..o \/ i = o + 1 \/ i \in (o + 2)..(g - 1)
          \/ i = g \/ i \in (g + 1)..(z - 1)
    BY <1>3
  <2> QED BY <1>3, <2>1
<1>8. end = IF z <= p THEN z ELSE 0
  <2> HIDE DEF first
  <2>1. CASE z <= p
    <3>1. z \in d..Len(w) /\ w[z] = "</tool_call>"
      BY <1>2, <1>3, <2>1
    <3>2. \A j \in d..(z - 1) : w[j] # "</tool_call>"
      <4> TAKE j \in d..(z - 1)
      <4>1. j \in d..(z - 1) /\ j \in 1..p
        BY <1>3, <2>1
      <4> QED BY <1>2, <1>7, <4>1
    <3>3. Find(w, <<"</tool_call>">>, d) = z
      <4>1. w \in Seq(Symbols) /\ "</tool_call>" \in Symbols /\ d \in Nat \ {0}
        BY <1>0, <1>2, <1>3
      <4> QED BY ONLY <3>1, <3>2, <4>1, FindHere
    <3> QED BY <1>6, <2>1, <3>3
  <2>2. CASE ~(z <= p)
    <3>1. \A j \in d..Len(w) : w[j] # "</tool_call>"
      <4> TAKE j \in d..Len(w)
      <4>1. j \in d..(z - 1) /\ j \in 1..p
        BY <1>2, <1>3, <2>2
      <4> QED BY <1>2, <1>7, <4>1
    <3>2. Find(w, <<"</tool_call>">>, d) = 0
      BY <1>0, <1>2, <1>3, <3>1, FindOne
    <3> QED BY <1>6, <2>2, <3>2
  <2> QED BY <2>1, <2>2
<1>9. ToolText(w) = SubSeq(w, d, IF end = 0 THEN p ELSE end)
  <2>1. ToolText(w) = SubSeq(w, first, IF end = 0 THEN Len(w) ELSE end)
    BY DEF ToolText
  <2> HIDE DEF first, end
  <2> QED BY <1>2, <1>6, <2>1
<1>10. (IF end = 0 THEN p ELSE end) = Reach(p, z)
  <2> HIDE DEF end
  <2>1. CASE p <= z
    BY <1>3, <1>8, <2>1 DEF Reach
  <2>2. CASE ~(p <= z)
    BY <1>3, <1>8, <2>2 DEF Reach
  <2> QED BY <2>1, <2>2
<1>11. SubSeq(w, d, Reach(p, z)) = SubSeq(a, d, Reach(p, z))
  <2> DEFINE h == Reach(p, z)
  <2>1. h \in Nat /\ h <= p /\ d <= h + 1 /\ h <= p - 1 + 1 /\ 1 + d - 1 = d /\ 1 + h - 1 = h
    BY <1>3 DEF Reach
  <2> HIDE DEF h
  <2>2. SubSeq(SubSeq(a, 1, p), d, h) = SubSeq(a, 1 + d - 1, 1 + h - 1)
    <3>1. 1 \in Nat \ {0} /\ 1 <= p + 1
      BY <1>3
    <3> QED BY <1>3, <2>1, <3>1, WindowWindow
  <2> QED BY <2>1, <2>2 DEF h, w, Upto
<1> HIDE DEF end
<1> QED BY <1>9, <1>10, <1>11 DEF d, z, w

(* The header is complete with its third symbol.                           *)
LEMMA HeaderIs ==
  ASSUME NEW a \in Seq(Symbols), NEW st, Staged(a, st),
         NEW k \in 1..No(a, "<tool_call>", Len(a)), parser.index + 1 = k,
         NEW p \in 0..Len(a), Opens(a, k) <= p
  PROVE  LET w == Upto(a, p)
             o == Begins(a, k)
         IN /\ HasHeader(w) <=> o + 3 <= p
            /\ HasHeader(w) => After(ToolText(w), <<"<function=">>)[1] = a[o + 2]
<1> DEFINE o == Begins(a, k)
           g == Ends(a, k)
           d == Opens(a, k)
           z == Closes(a, k)
           h == Reach(p, z)
           e == o + 1 - d + 1
           tool == SubSeq(a, d, h)
           rest == After(tool, <<"<function=">>)
<1>1. Call(a, st, k, o, g)
  BY CallOf
<1>2. ToolText(Upto(a, p)) = tool
  BY ToolTextIs
<1>3. /\ o \in Nat \ {0} /\ g \in Nat /\ o + 4 <= g /\ g + 1 <= z /\ z \in Nat /\ z <= Len(a)
      /\ d \in Nat \ {0} /\ d <= o /\ a[d] = "<tool_call>" /\ \A i \in (d + 1)..o : a[i] = "ws"
      /\ a[o + 1] = "<function=" /\ a[o + 2] # ">" /\ a[o + 3] = ">"
      /\ p \in Nat /\ p <= Len(a) /\ d <= p
  BY <1>1, SMTT(30) DEF Call
<1> HIDE DEF o, g, d, z
<1>4. /\ h \in Nat /\ h <= Len(a) /\ d <= h /\ d <= h + 1 /\ (o + 3 <= p <=> o + 3 <= h)
      /\ h - d + 1 \in Nat
  BY <1>3 DEF Reach
<1>0. "<function=" \in Symbols /\ ">" \in Symbols
  BY TagsAre DEF Symbols
<1> HIDE DEF h
<1>5. /\ tool \in Seq(Symbols) /\ Len(tool) = h - d + 1
      /\ \A i \in 1..(h - d + 1) : tool[i] = a[d + i - 1]
  BY <1>3, <1>4, Window
<1>50. ASSUME NEW i \in 1..(h - d + 1), d + i - 1 <= o PROVE tool[i] # "<function="
  <2>1. d + i - 1 = d \/ d + i - 1 \in (d + 1)..o
    BY <1>3, <1>50
  <2> HIDE DEF tool
  <2> QED BY <1>3, <1>5, <2>1
<1>6. CASE h <= o
  <2>1. \A i \in 1..Len(tool) : tool[i] # "<function="
    <3> HIDE DEF tool
    <3>1. \A i \in 1..Len(tool) : d + i - 1 <= o /\ i \in 1..(h - d + 1)
      BY <1>3, <1>4, <1>5, <1>6
    <3> QED BY <1>50, <3>1
  <2>2. ~Has(tool, <<"<function=">>)
    <3> HIDE DEF tool
    <3> QED BY <1>0, <1>5, <2>1, HasOne
  <2>3. ~(o + 3 <= p)
    BY <1>3, <1>4, <1>6
  <2> QED BY <1>2, <2>2, <2>3 DEF HasHeader, o
<1>7. CASE ~(h <= o)
  <2>1. e \in 1..Len(tool) /\ tool[e] = "<function=" /\ \A i \in 1..(e - 1) : tool[i] # "<function="
    <3>1. e \in 1..(h - d + 1) /\ d + e - 1 = o + 1
      BY <1>3, <1>4, <1>7
    <3>2. \A i \in 1..(e - 1) : i \in 1..(h - d + 1) /\ d + i - 1 <= o
      BY <1>3, <1>4, <1>7
    <3> HIDE DEF tool, e
    <3> QED BY <1>3, <1>5, <1>50, <3>1, <3>2
  <2>2. Has(tool, <<"<function=">>) /\ Find(tool, <<"<function=">>, 1) = e
    <3> HIDE DEF tool, e
    <3>1. Has(tool, <<"<function=">>)
      BY <1>0, <1>5, <2>1, HasOne
    <3>2. Find(tool, <<"<function=">>, 1) = e
      BY <1>0, <1>5, <2>1, FindOne, SMTT(30)
    <3> QED BY <3>1, <3>2
  <2>3. rest = SubSeq(a, o + 2, h)
    <3> DEFINE i == e + 1
               j == h - d + 1
    <3>1. rest = SubSeq(tool, i, j)
      <4>1. Len(<<"<function=">>) = 1
        OBVIOUS
      <4> DEFINE tag == <<"<function=">>
      <4>2. rest = SubSeq(tool, Find(tool, tag, 1) + Len(tag), Len(tool))
        BY DEF After, From
      <4>3. Len(tool) = j /\ Find(tool, tag, 1) = e /\ Len(tag) = 1
        BY <1>5, <2>2, <4>1
      <4> HIDE DEF tool, e, rest, tag
      <4> QED BY <4>2, <4>3
    <3>2. j \in Nat /\ i \in Nat \ {0} /\ i <= j + 1 /\ j <= h - d + 1
          /\ d + i - 1 = o + 2 /\ d + j - 1 = h
      BY <1>3, <1>4, <1>7
    <3> HIDE DEF i, j
    <3>3. SubSeq(SubSeq(a, d, h), i, j) = SubSeq(a, d + i - 1, d + j - 1)
      BY <1>3, <1>4, <3>2, WindowWindow
    <3> QED BY <3>1, <3>2, <3>3 DEF j
  <2> DEFINE l == o + 2
             v == SubSeq(a, l, h)
             n == h - l + 1
  <2>4. l \in Nat \ {0} /\ l <= h + 1 /\ n \in Nat /\ n = h - o - 1
    BY <1>3, <1>4, <1>7
  <2>5. v \in Seq(Symbols) /\ Len(v) = n /\ \A i \in 1..n : v[i] = a[l + i - 1]
    <3>1. a \in Seq(Symbols) /\ h \in Nat /\ h <= Len(a) /\ l \in Nat \ {0} /\ l <= h + 1
      BY <1>4, <2>4
    <3> HIDE DEF l
    <3> QED BY ONLY <3>1, Window
  <2>6. Has(v, <<">">>) <=> \E i \in 1..n : v[i] = ">"
    <3> HIDE DEF v, n
    <3> QED BY <1>0, <2>5, HasOne
  <2>7. o + 3 <= h => Has(v, <<">">>) /\ v[1] = a[o + 2]
    <3> SUFFICES ASSUME o + 3 <= h PROVE Has(v, <<">">>) /\ v[1] = a[o + 2]
      OBVIOUS
    <3>1. 1 \in 1..n /\ 2 \in 1..n /\ l + 1 - 1 = o + 2 /\ l + 2 - 1 = o + 3
      BY <1>3, <1>4
    <3> HIDE DEF v, n, l
    <3>2. v[1] = a[o + 2] /\ v[2] = a[o + 3]
      BY <2>5, <3>1
    <3> QED BY <1>3, <2>6, <3>1, <3>2
  <2>8. ~(o + 3 <= h) => ~Has(v, <<">">>)
    <3> SUFFICES ASSUME ~(o + 3 <= h) PROVE ~Has(v, <<">">>)
      OBVIOUS
    <3>1. \A i \in 1..n : i = 1 /\ l + i - 1 = o + 2
      BY <1>3, <1>4
    <3>2. a[o + 2] # ">"
      BY <1>3
    <3> HIDE DEF v, n, l
    <3>3. \A i \in 1..n : v[i] # ">"
      BY <2>5, <3>1, <3>2
    <3> QED BY <2>6, <3>3
  <2>9. HasHeader(Upto(a, p)) <=> Has(tool, <<"<function=">>) /\ Has(rest, <<">">>)
    BY <1>2 DEF HasHeader
  <2>10. rest = v
    BY <2>3
  <2> HIDE DEF rest, tool, v
  <2> QED BY <1>2, <1>4, <2>2, <2>7, <2>8, <2>9, <2>10 DEF rest, o
<1> QED BY <1>6, <1>7

(* The new parameters are those whose end tags were received, and each is  *)
(* sent as it should be.                                                   *)
LEMMA NewParamsAre ==
  ASSUME NEW a \in Seq(Symbols), NEW st, Staged(a, st),
         NEW k \in 1..No(a, "<tool_call>", Len(a)), parser.index + 1 = k, parser.params \in Nat,
         NEW p \in 0..Len(a), Begins(a, k) + 3 <= p
  PROVE  LET w == Upto(a, p)
             o == Begins(a, k)
             g == Ends(a, k)
             b == No(a, "<parameter=", o)
             v == No(a, "</parameter>", Reach(p, Closes(a, k)))
         IN /\ NewParams(w) = (parser.params + 1)..(v - b)
            /\ \A j \in NewParams(w) : NewParam(ToolText(w), j) = Piece(a, b + j)
            /\ Has(ToolText(w), <<"</function>">>) <=> g <= p
<1> DEFINE o == Begins(a, k)
           g == Ends(a, k)
           d == Opens(a, k)
           z == Closes(a, k)
           h == Reach(p, z)
           tool == SubSeq(a, d, h)
           b == No(a, "<parameter=", o)
           v == No(a, "</parameter>", h)
           c == parser.params
           keys == No(a, "<parameter=", h)
<1>1. Call(a, st, k, o, g)
  BY CallOf
<1>2. ToolText(Upto(a, p)) = tool
  <2>1. Opens(a, k) <= p
    BY <1>1 DEF Call
  <2> QED BY <2>1, ToolTextIs
<1>3. /\ o \in Nat \ {0} /\ g \in Nat /\ o + 4 <= g /\ g + 1 <= z /\ z <= Len(a) /\ z \in Nat
      /\ d \in Nat \ {0} /\ d <= o /\ a[d] = "<tool_call>" /\ \A i \in (d + 1)..o : a[i] = "ws"
      /\ a[o + 1] = "<function=" /\ a[g] = "</function>" /\ p \in Nat /\ p <= Len(a) /\ o + 3 <= p
      /\ \A i \in (o + 2)..(g - 1) :
           a[i] \notin {"<tool_call>", "<function=", "</function>", "</tool_call>"}
  BY <1>1 DEF Call
<1> HIDE DEF o, g, d, z
<1>4. h \in (o + 2)..z /\ h \in d..z /\ d \in d..(o + 2) /\ (g <= p <=> g <= h)
      /\ h \in Nat /\ h <= Len(a)
  BY <1>3 DEF Reach
<1> HIDE DEF h
<1>40. d = Opens(a, k) /\ z = Closes(a, k)
  BY DEF d, z
<1>5. /\ tool \in Seq(Symbols) /\ Len(tool) = h - d + 1
      /\ \A i \in 1..(h - d + 1) : tool[i] = a[d + i - 1]
      /\ Count(tool, "<parameter=") = keys - b
  <2>1. d \in Opens(a, k)..(o + 2) /\ h \in (o + 2)..Closes(a, k)
    BY <1>4, <1>40
  <2>2. a \in Seq(Symbols)
    OBVIOUS
  <2>3. Count(tool, "<parameter=") = keys - b
    BY ONLY <1>1, <2>1, <2>2, WindowKeys
  <2>4. d \in Nat \ {0} /\ h \in Nat /\ h <= Len(a) /\ d <= h + 1
    BY <1>3, <1>4
  <2>5. /\ tool \in Seq(Symbols) /\ Len(tool) = h - d + 1
        /\ \A i \in 1..(h - d + 1) : tool[i] = a[d + i - 1]
    BY ONLY <2>2, <2>4, Window
  <2> QED BY <2>3, <2>5
<1>6. /\ b \in Nat /\ v \in Nat /\ keys \in Nat /\ b <= v /\ v <= keys
  <2>1. b \in Nat /\ keys \in Nat
    BY <1>1, <1>4, <1>40, KeysIn
  <2> QED BY <1>1, <1>4, <1>40, <2>1, ValuesIn
<1>7. ASSUME NEW j \in 1..(keys - b)
      PROVE  /\ ParamComplete(tool, j) <=> b + j <= v
             /\ b + j <= v => ReadTo(tool, j, ValueEnd(ParamValue(tool, j))) = Piece(a, b + j)
  <2>1. d \in Opens(a, k)..(o + 2) /\ h \in (o + 2)..Closes(a, k)
    BY <1>4, <1>40
  <2> QED BY <1>1, <2>1, CompleteWhen
<1>8. NewParams(Upto(a, p))
        = {i \in (c + 1)..(keys - b) : \A j \in (c + 1)..i : ParamComplete(tool, j)}
  BY <1>2, <1>5 DEF NewParams
<1> HIDE DEF tool, b, v, c, keys
<1>9. c \in Nat
  BY DEF c
<1>10. NewParams(Upto(a, p)) = (c + 1)..(v - b)
  <2>1. ASSUME NEW i \in (c + 1)..(keys - b)
        PROVE  (\A j \in (c + 1)..i : ParamComplete(tool, j)) <=> b + i <= v
    <3>1. \A j \in (c + 1)..i : j \in 1..(keys - b) /\ (b + i <= v => b + j <= v)
      BY <1>6, <1>9
    <3>2. i \in (c + 1)..i /\ i \in 1..(keys - b)
      BY <1>6, <1>9
    <3> QED BY <1>7, <3>1, <3>2
  <2>2. \A i : i \in (c + 1)..(v - b) <=> i \in (c + 1)..(keys - b) /\ b + i <= v
    BY <1>6, <1>9
  <2> QED BY <1>8, <2>1, <2>2
<1>11. ASSUME NEW j \in NewParams(Upto(a, p))
       PROVE  NewParam(ToolText(Upto(a, p)), j) = Piece(a, b + j)
  <2>1. j \in 1..(keys - b) /\ b + j <= v
    BY <1>6, <1>9, <1>10
  <2>2. ReadTo(tool, j, ValueEnd(ParamValue(tool, j))) = Piece(a, b + j)
    BY <1>7, <2>1
  <2> QED BY <1>2, <2>2 DEF NewParam, ReadTo
<1>12. Has(tool, <<"</function>">>) <=> g <= h
  <2>0. "</function>" \in Symbols
    BY TagsAre DEF Symbols
  <2>1. Has(tool, <<"</function>">>) <=> \E i \in 1..(h - d + 1) : tool[i] = "</function>"
    BY <1>5, <2>0, HasOne
  <2>2. ASSUME g <= h PROVE \E i \in 1..(h - d + 1) : tool[i] = "</function>"
    <3>1. g - d + 1 \in 1..(h - d + 1) /\ d + (g - d + 1) - 1 = g
      BY <1>3, <1>4, <2>2
    <3>2. tool[g - d + 1] = a[d + (g - d + 1) - 1]
      BY <1>5, <3>1
    <3>3. tool[g - d + 1] = "</function>"
      BY <1>3, <3>1, <3>2
    <3> QED BY <3>1, <3>3
  <2>3. ASSUME ~(g <= h) PROVE \A i \in 1..(h - d + 1) : tool[i] # "</function>"
    <3> TAKE i \in 1..(h - d + 1)
    <3>1. \/ d + i - 1 = d
          \/ d + i - 1 \in (d + 1)..o
          \/ d + i - 1 = o + 1
          \/ d + i - 1 \in (o + 2)..(g - 1)
      BY <1>3, <1>4, <2>3
    <3>2. tool[i] = a[d + i - 1]
      BY <1>5
    <3> QED BY <1>3, <3>1, <3>2
  <2> QED BY <2>1, <2>2, <2>3
<1> QED BY <1>2, <1>4, <1>10, <1>11, <1>12 DEF o, g, z, h, b, v, c

(* Calls that are open, and calls that are over, at a place. *)
LEMMA Counts ==
  ASSUME NEW a \in Seq(Symbols), NEW st, Staged(a, st), NEW p \in 0..Len(a)
  PROVE  /\ No(a, "<tool_call>", p) \in Nat /\ No(a, "</tool_call>", p) \in Nat
         /\ No(a, "</tool_call>", p) <= No(a, "<tool_call>", p)
         /\ No(a, "<tool_call>", p) <= No(a, "<tool_call>", Len(a))
         /\ No(a, "<tool_call>", Len(a)) \in Nat
<1>1. p \in Nat /\ Len(a) \in Nat /\ p <= Len(a)
  OBVIOUS
<1>2. /\ No(a, "<tool_call>", p) \in Nat /\ No(a, "</tool_call>", p) \in Nat
      /\ No(a, "<function=", p) \in Nat /\ No(a, "</function>", p) \in Nat
      /\ No(a, "<tool_call>", Len(a)) \in Nat
  BY <1>1, NoStep
<1>3. No(a, "<tool_call>", p) <= No(a, "<tool_call>", Len(a))
  BY <1>1, NoGrows
<1>4. No(a, "</tool_call>", p) <= No(a, "<tool_call>", p)
  <2>1. Level(a, st, p) /\ st[p] \in Stages
    BY Levels DEF Staged
  <2> QED BY <1>2, <2>1 DEF Level, Stages
<1> QED BY <1>2, <1>3, <1>4

(* The k-th call is open, and over, when that many are. *)
LEMMA CallAt ==
  ASSUME NEW a \in Seq(Symbols), NEW st, Staged(a, st),
         NEW k \in 1..No(a, "<tool_call>", Len(a)), NEW p \in Nat
  PROVE  /\ Opens(a, k) <= p <=> k <= No(a, "<tool_call>", p)
         /\ Closes(a, k) <= p <=> k <= No(a, "</tool_call>", p)
<1> DEFINE o == Opens(a, k)
           z == Closes(a, k)
<1>1. Call(a, st, k, Begins(a, k), Ends(a, k))
  BY CallOf
<1>2. /\ o \in Nat \ {0} /\ a[o] = "<tool_call>" /\ No(a, "<tool_call>", o) = k
      /\ z \in Nat \ {0} /\ a[z] = "</tool_call>" /\ No(a, "</tool_call>", z) = k
  BY <1>1 DEF Call
<1> HIDE DEF o, z
<1>3. o <= p <=> No(a, "<tool_call>", o) <= No(a, "<tool_call>", p)
  BY <1>2, AtReached
<1>4. z <= p <=> No(a, "</tool_call>", z) <= No(a, "</tool_call>", p)
  BY <1>2, AtReached
<1> QED BY <1>2, <1>3, <1>4 DEF o, z

(* A delta is the next symbols of the answer.                              *)
LEMMA DeltaText ==
  ASSUME NEW a \in Seq(Symbols), NEW p \in 0..Len(a), NEW n \in Nat, p + n <= Len(a)
  PROVE  /\ SubSeq(a, p + 1, p + n) \in Seq(Symbols)
         /\ Len(SubSeq(a, p + 1, p + n)) = n
         /\ \A i \in 1..n : SubSeq(a, p + 1, p + n)[i] = a[p + i]
<1> DEFINE l == p + 1
           h == p + n
           delta == SubSeq(a, l, h)
<1>0. /\ l \in Nat \ {0} /\ h \in Nat /\ h <= Len(a) /\ l <= h + 1 /\ h - l + 1 = n
      /\ \A i \in Nat : l + i - 1 = p + i
  OBVIOUS
<1> HIDE DEF l, h
<1>1. /\ delta \in Seq(Symbols) /\ Len(delta) = h - l + 1
      /\ \A i \in 1..(h - l + 1) : delta[i] = a[l + i - 1]
  BY <1>0, Window
<1> HIDE DEF delta
<1>2. \A i \in 1..n : delta[i] = a[l + i - 1] /\ l + i - 1 = p + i
  BY <1>0, <1>1
<1>3. delta \in Seq(Symbols) /\ Len(delta) = n /\ \A i \in 1..n : delta[i] = a[p + i]
  BY <1>0, <1>1, <1>2
<1> QED BY <1>3 DEF delta, l, h

(* A symbol that is not in a delta is not counted. *)
LEMMA DeltaWithout ==
  ASSUME NEW a \in Seq(Symbols), NEW p \in 0..Len(a), NEW n \in Nat, p + n <= Len(a),
         NEW s \in Symbols, ~Has(SubSeq(a, p + 1, p + n), <<s>>)
  PROVE  No(a, s, p) = No(a, s, p + n) /\ \A i \in (p + 1)..(p + n) : a[i] # s
<1> DEFINE l == p + 1
           h == p + n
           delta == SubSeq(a, l, h)
<1>0. p \in Nat /\ l \in Nat /\ h \in Nat /\ h <= Len(a) /\ p <= h
  OBVIOUS
<1>1. delta \in Seq(Symbols) /\ Len(delta) = n /\ \A i \in 1..n : delta[i] = a[p + i]
  BY DeltaText
<1> HIDE DEF delta
<1>2. \A i \in 1..n : delta[i] # s
  BY <1>1, HasOne DEF delta
<1>3. \A i \in l..h : a[i] # s
  <2> TAKE i \in l..h
  <2>1. i - p \in 1..n /\ p + (i - p) = i
    BY <1>0
  <2> QED BY <1>1, <1>2, <2>1
<1> HIDE DEF h
<1>4. No(a, s, p) = No(a, s, h)
  BY <1>0, <1>3, NoSame
<1> QED BY <1>3, <1>4 DEF h

(* What a delta brings. *)
LEMMA DeltaIs ==
  ASSUME NEW a \in Seq(Symbols), NEW p \in 0..Len(a), NEW n \in Nat, p + n <= Len(a)
  PROVE  LET delta == SubSeq(a, p + 1, p + n) IN
         /\ delta \in Seq(Symbols) /\ Len(delta) = n
         /\ \A i \in 1..n : delta[i] = a[p + i]
         /\ delta = <<>> <=> n = 0
         /\ \A s \in Symbols :
              /\ Has(delta, <<s>>) => No(a, s, p) < No(a, s, p + n)
              /\ ~Has(delta, <<s>>) => No(a, s, p) = No(a, s, p + n)
                                       /\ \A i \in (p + 1)..(p + n) : a[i] # s
<1> DEFINE l == p + 1
           h == p + n
           delta == SubSeq(a, l, h)
<1>0. /\ p \in Nat /\ l \in Nat \ {0} /\ h \in Nat /\ h <= Len(a) /\ l <= h + 1 /\ h - l + 1 = n
      /\ \A i \in Nat : l + i - 1 = p + i
  OBVIOUS
<1>1. /\ delta \in Seq(Symbols) /\ Len(delta) = n
      /\ \A i \in 1..n : delta[i] = a[p + i]
  <2> HIDE DEF l, h
  <2>1. /\ delta \in Seq(Symbols) /\ Len(delta) = h - l + 1
        /\ \A i \in 1..(h - l + 1) : delta[i] = a[l + i - 1]
    BY <1>0, Window
  <2> HIDE DEF delta
  <2>2. \A i \in 1..n : delta[i] = a[l + i - 1] /\ l + i - 1 = p + i
    BY <1>0, <2>1
  <2> QED BY <1>0, <2>1, <2>2
<1> HIDE DEF delta
<1>2. delta = <<>> <=> n = 0
  BY <1>1
<1>3. ASSUME NEW s \in Symbols
      PROVE  /\ Has(delta, <<s>>) => No(a, s, p) < No(a, s, h)
             /\ ~Has(delta, <<s>>) => No(a, s, p) = No(a, s, h) /\ \A i \in l..h : a[i] # s
  <2>1. Has(delta, <<s>>) <=> \E i \in 1..n : delta[i] = s
    BY <1>1, HasOne
  <2>2. ASSUME NEW i \in 1..n, delta[i] = s PROVE No(a, s, p) < No(a, s, h)
    <3>1. p + i \in Nat \ {0} /\ a[p + i] = s /\ p + i <= h /\ ~(p + i <= p)
      BY <1>0, <1>1, <2>2
    <3> DEFINE j == p + i
    <3> HIDE DEF j, h
    <3>2. j <= h <=> No(a, s, j) <= No(a, s, h)
      BY <1>0, <3>1, AtReached DEF j
    <3>3. j <= p <=> No(a, s, j) <= No(a, s, p)
      BY <1>0, <3>1, AtReached DEF j
    <3>4. No(a, s, j) \in Nat /\ No(a, s, p) \in Nat /\ No(a, s, h) \in Nat
      BY <1>0, <3>1, NoStep DEF j
    <3> QED BY <3>1, <3>2, <3>3, <3>4 DEF j
  <2>3. ASSUME \A i \in 1..n : delta[i] # s
        PROVE  No(a, s, p) = No(a, s, h) /\ \A i \in l..h : a[i] # s
    <3>1. \A i \in l..h : a[i] # s
      <4> TAKE i \in l..h
      <4>1. i - p \in 1..n /\ p + (i - p) = i
        BY <1>0
      <4> QED BY <1>1, <2>3, <4>1
    <3>2. p <= h
      BY <1>0
    <3> HIDE DEF h
    <3>3. No(a, s, p) = No(a, s, h)
      BY <1>0, <3>1, <3>2, NoSame
    <3> QED BY <3>1, <3>3
  <2> QED BY <2>1, <2>2, <2>3
<1> QED BY <1>1, <1>2, <1>3 DEF delta

-----------------------------------------------------------------------------
(* The parser and the client.                                              *)

(* The parser is at a call of the text received, and counts parameters of  *)
(* that call.                                                              *)
ParserOK(a, p, s) ==
  LET o == Begins(a, s.index + 1)
      g == Ends(a, s.index + 1)
      total == No(a, "<parameter=", g) - No(a, "<parameter=", o)
  IN /\ s \in [index : Nat, started : BOOLEAN, header : BOOLEAN, inFunction : BOOLEAN,
               json : BOOLEAN, closed : BOOLEAN, params : Nat]
     /\ s.index <= No(a, "</tool_call>", p)
     /\ ~s.started => s.index = No(a, "<tool_call>", p)
     /\ s.started => s.index < No(a, "<tool_call>", p)
     /\ s.header => s.started /\ o + 3 <= p /\ s.params <= total
     /\ s.inFunction <=> s.header /\ ~s.closed
     /\ s.json => s.header
     /\ ~s.json => s.params = 0
     /\ s.closed => s.json /\ s.params = total

(* Pieces of JSON, and what is sent of the arguments of a call. *)
Jsons(a) == {Piece(a, m) : m \in Nat} \cup {<<"{">>, <<"}">>}

(* The c parameters after the first b.                                     *)
First(a, b, c) == [j \in 1..c |-> Piece(a, b + j)]

(* The d parameters after those.                                           *)
More(a, b, c, d) == [i \in 1..d |-> Piece(a, b + (c + i))]

(* What the parser's flags and count say was sent of the arguments.        *)
Sent(a, b, s) ==
  (IF s.json THEN Brace ELSE <<>>) \o First(a, b, s.params) \o (IF s.closed THEN EndBrace ELSE <<>>)

(* The client has the calls before the current one, and of that one what   *)
(* the parser's flags and count say.                                       *)
ClientOK(a, s, c) ==
  LET o == Begins(a, s.index + 1)
      b == No(a, "<parameter=", o)
  IN /\ c = [content |-> c.content, calls |-> c.calls]
     /\ c.calls \in Seq([name : Symbols, args : Seq(Jsons(a))])
     /\ Len(c.calls) = IF s.header THEN s.index + 1 ELSE s.index
     /\ \A i \in 1..s.index : c.calls[i] = WrittenCall(a, Begins(a, i), Ends(a, i))
     /\ s.header => c.calls[s.index + 1] = [name |-> a[o + 2], args |-> Sent(a, b, s)]

(* The inductive invariant: the parser and the client agree with the text  *)
(* received.                                                               *)
IInv ==
  /\ answer \in Seq(Symbols)
  /\ WellFormed(answer)
  /\ pos \in 0..Len(answer)
  /\ ParserOK(answer, pos, parser)
  /\ ClientOK(answer, parser, client)

(* A parameter is a piece of JSON.                                         *)
LEMMA PieceType ==
  ASSUME NEW a, NEW m \in Nat
  PROVE  Piece(a, m) \in Jsons(a)
<1>1. Piece(a, m) \in {Piece(a, i) : i \in Nat}
  OBVIOUS
<1> QED BY <1>1 DEF Jsons

(* So are the braces, and the first parameters of a call are pieces.       *)
LEMMA JsonsAre ==
  ASSUME NEW a, NEW b \in Nat, NEW c \in Nat
  PROVE  /\ Brace \in Seq(Jsons(a)) /\ EndBrace \in Seq(Jsons(a)) /\ <<>> \in Seq(Jsons(a))
         /\ First(a, b, c) \in Seq(Jsons(a)) /\ Len(First(a, b, c)) = c
         /\ \A j \in 1..c : First(a, b, c)[j] = Piece(a, b + j)
         /\ First(a, b, 0) = <<>>
<1>1. <<"{">> \in Jsons(a) /\ <<"}">> \in Jsons(a)
  BY DEF Jsons
<1>2. Brace \in Seq(Jsons(a)) /\ EndBrace \in Seq(Jsons(a)) /\ <<>> \in Seq(Jsons(a))
  <2> DEFINE x == <<"{">>
             y == <<"}">>
             X == Jsons(a)
  <2> x \in X /\ y \in X
    BY <1>1
  <2> HIDE DEF x, y, X
  <2>1. <<x>> \in Seq(X) /\ <<y>> \in Seq(X) /\ <<>> \in Seq(X)
    BY One, EmptySeq
  <2> QED BY <2>1 DEF Brace, EndBrace, x, y, X
<1>3. \A j \in 1..c : Piece(a, b + j) \in Jsons(a)
  <2> TAKE j \in 1..c
  <2>1. b + j \in Nat
    OBVIOUS
  <2> QED BY <2>1, PieceType
<1>4. First(a, b, c) \in Seq(Jsons(a)) /\ Len(First(a, b, c)) = c
  BY <1>3 DEF First
<1>5. \A j \in 1..c : First(a, b, c)[j] = Piece(a, b + j)
  BY DEF First
<1>6. First(a, b, 0) = <<>>
  BY DEF First
<1> QED BY <1>2, <1>4, <1>5, <1>6

(* What is sent is made of pieces.                                         *)
LEMMA SentType ==
  ASSUME NEW a, NEW b \in Nat, NEW s, s.params \in Nat
  PROVE  Sent(a, b, s) \in Seq(Jsons(a))
<1>1. /\ First(a, b, s.params) \in Seq(Jsons(a))
      /\ Brace \in Seq(Jsons(a)) /\ EndBrace \in Seq(Jsons(a)) /\ <<>> \in Seq(Jsons(a))
  BY JsonsAre
<1> DEFINE x == IF s.json THEN Brace ELSE <<>>
           y == First(a, b, s.params)
           z == IF s.closed THEN EndBrace ELSE <<>>
<1>2. x \in Seq(Jsons(a)) /\ y \in Seq(Jsons(a)) /\ z \in Seq(Jsons(a))
  BY <1>1
<1> HIDE DEF x, y, z
<1>3. x \o y \o z \in Seq(Jsons(a))
  BY <1>2, ConcatProperties
<1> QED BY <1>3 DEF Sent, x, y, z

(* More parameters after the first ones. *)
LEMMA FirstMore ==
  ASSUME NEW a, NEW b \in Nat, NEW c \in Nat, NEW d \in Nat
  PROVE  First(a, b, c + d) = First(a, b, c) \o More(a, b, c, d)
<1> DEFINE X == Jsons(a)
           more == More(a, b, c, d)
           x == First(a, b, c)
           y == First(a, b, c + d)
<1>1. /\ x \in Seq(X) /\ Len(x) = c /\ \A j \in 1..c : x[j] = Piece(a, b + j)
      /\ y \in Seq(X) /\ Len(y) = c + d /\ \A j \in 1..(c + d) : y[j] = Piece(a, b + j)
  <2>1. c + d \in Nat
    OBVIOUS
  <2> QED BY <2>1, JsonsAre
<1>2. more \in Seq(X) /\ Len(more) = d /\ \A i \in 1..d : more[i] = Piece(a, b + (c + i))
  <2>1. \A i \in 1..d : Piece(a, b + (c + i)) \in X
    <3> TAKE i \in 1..d
    <3>1. b + (c + i) \in Nat
      OBVIOUS
    <3> QED BY <3>1, PieceType
  <2> HIDE DEF X
  <2> QED BY <2>1 DEF More
<1> HIDE DEF X, more, x, y
<1>3. /\ x \o more \in Seq(X) /\ Len(x \o more) = c + d
      /\ \A j \in 1..(c + d) : (x \o more)[j] = IF j <= c THEN x[j] ELSE more[j - c]
  BY <1>1, <1>2, ConcatProperties, ZenonT(60)
<1>4. \A j \in 1..(c + d) : (x \o more)[j] = y[j]
  <2> TAKE j \in 1..(c + d)
  <2>1. CASE j <= c
    <3>1. j \in 1..c
      BY <2>1
    <3> QED BY <1>1, <1>3, <2>1, <3>1
  <2>2. CASE ~(j <= c)
    <3>1. j - c \in 1..d /\ c + (j - c) = j
      BY <2>2
    <3> QED BY <1>1, <1>2, <1>3, <2>2, <3>1
  <2> QED BY <2>1, <2>2
<1>5. x \o more = y
  BY <1>1, <1>3, <1>4, SeqEqual
<1> QED BY <1>5 DEF x, y, more

(* What is sent grows by the next piece. *)
LEMMA SentNone ==
  ASSUME NEW a, NEW b \in Nat, NEW s, ~s.json, ~s.closed, s.params = 0
  PROVE  Sent(a, b, s) = <<>>
<1>1. First(a, b, 0) = <<>> /\ <<>> \in Seq(Jsons(a))
  BY JsonsAre
<1> QED BY <1>1, ConcatEmptySeq DEF Sent

(* What is sent grows by the brace.                                        *)
LEMMA SentBrace ==
  ASSUME NEW a, NEW b \in Nat, NEW s, s.json, ~s.closed, s.params = 0
  PROVE  Sent(a, b, s) = Brace
<1> DEFINE X == Jsons(a)
<1>1. First(a, b, 0) = <<>> /\ <<>> \in Seq(X) /\ Brace \in Seq(X)
  BY JsonsAre
<1>2. Sent(a, b, s) = Brace \o <<>> \o <<>>
  BY <1>1 DEF Sent
<1> HIDE DEF X
<1>3. Brace \o <<>> = Brace
  BY <1>1, ConcatEmptySeq
<1> QED BY <1>2, <1>3

(* After the brace come the first parameters.                              *)
LEMMA SentOpen ==
  ASSUME NEW a, NEW b \in Nat, NEW s, s.json, ~s.closed, s.params \in Nat
  PROVE  Sent(a, b, s) = Brace \o First(a, b, s.params)
<1> DEFINE X == Jsons(a)
           x == First(a, b, s.params)
<1>1. x \in Seq(X) /\ Brace \in Seq(X)
  BY JsonsAre
<1>2. Sent(a, b, s) = (Brace \o x) \o <<>>
  BY DEF Sent
<1> HIDE DEF X, x
<1>3. (Brace \o x) \o <<>> = Brace \o x
  BY <1>1, ConcatProperties, ConcatEmptySeq
<1> QED BY <1>2, <1>3 DEF x

(* What is sent grows by the closing brace.                                *)
LEMMA SentEnd ==
  ASSUME NEW a, NEW b \in Nat, NEW s, s.json, s.closed, s.params \in Nat
  PROVE  Sent(a, b, s) = (Brace \o First(a, b, s.params)) \o EndBrace
BY DEF Sent

(* The invariant holds at the start.                                       *)
LEMMA InitHolds == Init => IInv
<1> SUFFICES ASSUME Init PROVE IInv
  OBVIOUS
<1>1. answer \in Seq(Symbols) /\ WellFormed(answer)
  <2>1. answer \in Seq(STRING) /\ WellFormed(answer)
    BY CoderAssumption DEF CoderAssumption, Init
  <2>2. STRING \in SUBSET Symbols
    BY DEF Symbols
  <2>3. Seq(STRING) \subseteq Seq(Symbols)
    BY <2>2, SeqMonotonic
  <2> QED BY <2>1, <2>3
<1>2. pos = 0 /\ pos \in 0..Len(answer)
  BY <1>1 DEF Init
<1>3. No(answer, "<tool_call>", 0) = 0 /\ No(answer, "</tool_call>", 0) = 0
  BY NoBase
<1>4. ParserOK(answer, pos, parser)
  BY <1>2, <1>3 DEF Init, NewParser, ParserOK
<1>5. ClientOK(answer, parser, client)
  BY DEF Init, NewParser, ClientOK
<1> QED BY <1>1, <1>2, <1>4, <1>5 DEF IInv

(* What is known when a delta arrives.                                     *)
LEMMA Setting ==
  ASSUME IInv, NEW n \in Nat, pos + n <= Len(answer)
  PROVE  LET q == pos + n
             text == Upto(answer, q)
         IN /\ q \in 0..Len(answer) /\ pos \in Nat /\ Len(answer) \in Nat
            /\ \E st : Staged(answer, st)
            /\ Count(text, "<tool_call>") = No(answer, "<tool_call>", q)
            /\ Count(text, "</tool_call>") = No(answer, "</tool_call>", q)
            /\ No(answer, "<tool_call>", pos) \in Nat /\ No(answer, "</tool_call>", pos) \in Nat
            /\ No(answer, "<tool_call>", q) \in Nat /\ No(answer, "</tool_call>", q) \in Nat
            /\ No(answer, "<tool_call>", Len(answer)) \in Nat
            /\ No(answer, "<tool_call>", pos) <= No(answer, "<tool_call>", q)
            /\ No(answer, "</tool_call>", pos) <= No(answer, "</tool_call>", q)
            /\ No(answer, "</tool_call>", pos) <= No(answer, "<tool_call>", pos)
            /\ No(answer, "</tool_call>", q) <= No(answer, "<tool_call>", q)
            /\ No(answer, "<tool_call>", q) <= No(answer, "<tool_call>", Len(answer))
<1> DEFINE q == pos + n
           text == Upto(answer, q)
<1>1. /\ answer \in Seq(Symbols) /\ WellFormed(answer) /\ pos \in 0..Len(answer)
      /\ pos \in Nat /\ Len(answer) \in Nat /\ q \in 0..Len(answer) /\ q \in Nat /\ pos <= q
  BY DEF IInv
<1>2. PICK st : Staged(answer, st)
  BY <1>1, StagesOf
<1> HIDE DEF q
<1>3. /\ Count(text, "<tool_call>") = No(answer, "<tool_call>", q)
      /\ Count(text, "</tool_call>") = No(answer, "</tool_call>", q)
  <2>1. "<tool_call>" \in Symbols /\ "</tool_call>" \in Symbols
    BY TagsAre DEF Symbols
  <2> QED BY <1>1, <2>1, Received
<1>4. /\ No(answer, "<tool_call>", pos) <= No(answer, "<tool_call>", q)
      /\ No(answer, "</tool_call>", pos) <= No(answer, "</tool_call>", q)
  BY <1>1, NoGrows
<1>5. /\ No(answer, "<tool_call>", pos) \in Nat /\ No(answer, "</tool_call>", pos) \in Nat
      /\ No(answer, "</tool_call>", pos) <= No(answer, "<tool_call>", pos)
  BY <1>1, <1>2, Counts
<1>6. /\ No(answer, "<tool_call>", q) \in Nat /\ No(answer, "</tool_call>", q) \in Nat
      /\ No(answer, "</tool_call>", q) <= No(answer, "<tool_call>", q)
      /\ No(answer, "<tool_call>", q) <= No(answer, "<tool_call>", Len(answer))
      /\ No(answer, "<tool_call>", Len(answer)) \in Nat
  BY <1>1, <1>2, Counts
<1> QED BY <1>1, <1>2, <1>3, <1>4, <1>5, <1>6 DEF q

(* The call the parser is at, when it is open. *)
LEMMA AtCall ==
  ASSUME IInv, NEW st, Staged(answer, st),
         parser.index < No(answer, "<tool_call>", Len(answer))
  PROVE  LET k == parser.index + 1
             o == Begins(answer, k)
             g == Ends(answer, k)
         IN /\ k \in 1..No(answer, "<tool_call>", Len(answer))
            /\ Call(answer, st, k, o, g)
            /\ o \in Nat \ {0} /\ g \in Nat /\ o + 4 <= g /\ g + 1 <= Len(answer)
            /\ answer[o + 2] \in Symbols
            /\ No(answer, "<parameter=", o) \in Nat
            /\ No(answer, "<parameter=", g) - No(answer, "<parameter=", o) \in Nat
            /\ Opens(answer, k) \in Nat \ {0} /\ Opens(answer, k) <= o
<1> DEFINE k == parser.index + 1
           o == Begins(answer, k)
           g == Ends(answer, k)
<1>1. answer \in Seq(Symbols) /\ parser.index \in Nat /\ pos \in 0..Len(answer)
  BY DEF IInv, ParserOK
<1>2. k \in 1..No(answer, "<tool_call>", Len(answer))
  <2>1. No(answer, "<tool_call>", Len(answer)) \in Nat
    BY <1>1, Counts
  <2> QED BY <1>1, <2>1
<1> HIDE DEF k
<1>3. Call(answer, st, k, o, g)
  BY <1>1, <1>2, CallOf
<1> HIDE DEF o, g
<1>4. /\ o \in Nat \ {0} /\ g \in Nat /\ o + 4 <= g /\ g + 1 <= Len(answer)
      /\ Opens(answer, k) \in Nat \ {0} /\ Opens(answer, k) <= o
      /\ Closes(answer, k) \in Nat /\ g + 1 <= Closes(answer, k)
  BY <1>3 DEF Call
<1>5. answer[o + 2] \in Symbols
  <2>1. o + 2 \in 1..Len(answer)
    BY <1>1, <1>4
  <2> QED BY <1>1, <2>1, ElementOfSeq
<1>6. /\ No(answer, "<parameter=", o) \in Nat
      /\ No(answer, "<parameter=", g) - No(answer, "<parameter=", o) \in Nat
  <2>1. g \in Opens(answer, k)..Closes(answer, k)
    BY <1>4
  <2>2. /\ No(answer, "<parameter=", o) \in Nat /\ No(answer, "<parameter=", g) \in Nat
        /\ No(answer, "<parameter=", o) <= No(answer, "<parameter=", g)
    BY <1>1, <1>3, <2>1, KeysIn
  <2> QED BY <2>2
<1> QED BY <1>2, <1>3, <1>4, <1>5, <1>6 DEF k, o, g

(* Going on to the next call: the one before is with the client.           *)
LEMMA NextCallHolds ==
  ASSUME IInv, NEW n \in Nat, pos + n <= Len(answer),
         NextCall(SubSeq(answer, pos + 1, pos + n), Upto(answer, pos + n))
  PROVE  ParserOK(answer, pos + n, parser') /\ ClientOK(answer, parser', client')
<1> DEFINE q == pos + n
           text == Upto(answer, q)
           k == parser.index + 1
           o == Begins(answer, k)
           g == Ends(answer, k)
           b == No(answer, "<parameter=", o)
<1>1. /\ parser.closed /\ Count(text, "</tool_call>") > parser.index
      /\ parser' = [NewParser EXCEPT !.index = parser.index + 1,
                                     !.started = parser.index + 1 < Count(text, "<tool_call>")]
      /\ client' = client
  BY DEF NextCall, CallOver
<1>2. /\ Count(text, "<tool_call>") = No(answer, "<tool_call>", q)
      /\ Count(text, "</tool_call>") = No(answer, "</tool_call>", q)
      /\ No(answer, "<tool_call>", q) \in Nat /\ No(answer, "</tool_call>", q) \in Nat
      /\ No(answer, "</tool_call>", q) <= No(answer, "<tool_call>", q)
      /\ No(answer, "<tool_call>", q) <= No(answer, "<tool_call>", Len(answer))
      /\ No(answer, "<tool_call>", Len(answer)) \in Nat
      /\ \E st : Staged(answer, st)
  BY Setting
<1>3. parser.index \in Nat /\ ParserOK(answer, pos, parser) /\ ClientOK(answer, parser, client)
  BY DEF IInv, ParserOK
<1> HIDE DEF q
<1>4. ParserOK(answer, q, parser')
  <2>1. /\ parser'.index = k /\ parser'.started = (k < No(answer, "<tool_call>", q))
        /\ parser' = [index |-> parser'.index, started |-> parser'.started, header |-> FALSE,
                      inFunction |-> FALSE, json |-> FALSE, closed |-> FALSE, params |-> 0]
    BY <1>1, <1>2 DEF NewParser
  <2>2. /\ k \in Nat /\ k <= No(answer, "</tool_call>", q)
        /\ (k < No(answer, "<tool_call>", q)) \in BOOLEAN
    BY <1>1, <1>2, <1>3
  <2> DEFINE s == parser'
             i == s.index
             u == s.started
  <2>3. u \in BOOLEAN /\ i \in Nat
    BY <2>1, <2>2
  <2>4. s = [index |-> i, started |-> u, header |-> FALSE,
             inFunction |-> FALSE, json |-> FALSE, closed |-> FALSE, params |-> 0]
    BY <2>1
  <2> HIDE DEF i, u
  <2>5. s \in [index : Nat, started : BOOLEAN, header : BOOLEAN, inFunction : BOOLEAN,
               json : BOOLEAN, closed : BOOLEAN, params : Nat]
    BY <2>3, <2>4
  <2>6. ~s.header /\ ~s.json /\ ~s.closed /\ ~s.inFunction /\ s.params = 0
    BY <2>4
  <2>7. /\ s.index <= No(answer, "</tool_call>", q)
        /\ ~s.started => s.index = No(answer, "<tool_call>", q)
        /\ s.started => s.index < No(answer, "<tool_call>", q)
    <3> HIDE DEF s
    <3>1. s.index = k /\ s.started = (k < No(answer, "<tool_call>", q))
      BY <2>1 DEF s
    <3> HIDE DEF k
    <3>2. s.started <=> k < No(answer, "<tool_call>", q)
      BY <3>1
    <3> QED BY <1>2, <2>2, <3>1, <3>2
  <2> HIDE DEF s
  <2>8. ParserOK(answer, q, s)
    BY <2>5, <2>6, <2>7 DEF ParserOK
  <2> QED BY <2>8 DEF s
<1>5. client.calls[k] = WrittenCall(answer, o, g)
  <2>1. PICK st : Staged(answer, st)
    BY <1>2
  <2>2. parser.index < No(answer, "<tool_call>", Len(answer))
    BY <1>1, <1>2, <1>3
  <2>3. b \in Nat
    BY <2>1, <2>2, AtCall
  <2> HIDE DEF k, o, g, b
  <2>4. /\ parser.json /\ parser.header /\ parser.closed
        /\ parser.params = No(answer, "<parameter=", g) - b
    BY <1>1, <1>3 DEF ParserOK, k, o, g, b
  <2>5. client.calls[k] = [name |-> answer[o + 2], args |-> Sent(answer, b, parser)]
    BY <1>3, <2>4 DEF ClientOK, k, o, b
  <2> QED BY <2>4, <2>5 DEF Sent, First, WrittenCall, Pieces, b
<1>6. ClientOK(answer, parser', client')
  <2>1. parser'.index = k /\ parser'.header = FALSE
    BY <1>1 DEF NewParser
  <2>2. /\ client = [content |-> client.content, calls |-> client.calls]
        /\ client.calls \in Seq([name : Symbols, args : Seq(Jsons(answer))])
        /\ Len(client.calls) = k
        /\ \A i \in 1..parser.index :
             client.calls[i] = WrittenCall(answer, Begins(answer, i), Ends(answer, i))
    BY <1>1, <1>3 DEF ParserOK, ClientOK
  <2>3. \A i \in 1..k : client.calls[i] = WrittenCall(answer, Begins(answer, i), Ends(answer, i))
    <3>1. \A i \in 1..k : i = k \/ i \in 1..parser.index
      BY <1>3
    <3> QED BY <1>5, <2>2, <3>1
  <2> HIDE DEF k
  <2> QED BY <1>1, <2>1, <2>2, <2>3 DEF ClientOK
<1> QED BY <1>4, <1>6 DEF q

(* The parser stays as it is and the client's calls do. *)
LEMMA SameHolds ==
  ASSUME IInv, NEW n \in Nat, pos + n <= Len(answer), parser' = parser,
         client' = [client EXCEPT !.content = client'.content] \/ client' = client,
         parser.started \/ No(answer, "<tool_call>", pos) = No(answer, "<tool_call>", pos + n)
  PROVE  ParserOK(answer, pos + n, parser') /\ ClientOK(answer, parser', client')
<1> DEFINE q == pos + n
<1>1. /\ No(answer, "<tool_call>", q) \in Nat /\ No(answer, "</tool_call>", q) \in Nat
      /\ No(answer, "<tool_call>", pos) \in Nat /\ No(answer, "</tool_call>", pos) \in Nat
      /\ No(answer, "<tool_call>", pos) <= No(answer, "<tool_call>", q)
      /\ No(answer, "</tool_call>", pos) <= No(answer, "</tool_call>", q)
      /\ pos \in Nat /\ q \in Nat /\ pos <= q
  BY Setting
<1>2. ParserOK(answer, pos, parser) /\ ClientOK(answer, parser, client)
  BY DEF IInv
<1> HIDE DEF q
<1>3. ParserOK(answer, q, parser')
  <2> DEFINE o == Begins(answer, parser.index + 1)
             g == Ends(answer, parser.index + 1)
             total == No(answer, "<parameter=", g) - No(answer, "<parameter=", o)
  <2>1. /\ parser \in [index : Nat, started : BOOLEAN, header : BOOLEAN, inFunction : BOOLEAN,
                       json : BOOLEAN, closed : BOOLEAN, params : Nat]
        /\ parser.index <= No(answer, "</tool_call>", pos)
        /\ ~parser.started => parser.index = No(answer, "<tool_call>", pos)
        /\ parser.started => parser.index < No(answer, "<tool_call>", pos)
        /\ parser.header => parser.started /\ o + 3 <= pos /\ parser.params <= total
        /\ parser.inFunction <=> parser.header /\ ~parser.closed
        /\ parser.json => parser.header
        /\ ~parser.json => parser.params = 0
        /\ parser.closed => parser.json /\ parser.params = total
    BY <1>2 DEF ParserOK
  <2>2. parser.index <= No(answer, "</tool_call>", q)
    BY <1>1, <2>1
  <2>3. ~parser.started => parser.index = No(answer, "<tool_call>", q)
    BY <1>1, <2>1 DEF q
  <2>4. parser.started => parser.index < No(answer, "<tool_call>", q)
    BY <1>1, <2>1
  <2>5. parser.header => o + 3 <= q
    <3> SUFFICES ASSUME parser.header PROVE o + 3 <= q
      OBVIOUS
    <3>1. o \in Nat
      <4>1. PICK st : Staged(answer, st)
        BY Setting
      <4>2. parser.index < No(answer, "<tool_call>", Len(answer))
        <5>1. /\ No(answer, "<tool_call>", q) <= No(answer, "<tool_call>", Len(answer))
              /\ No(answer, "<tool_call>", Len(answer)) \in Nat
          BY Setting DEF q
        <5> QED BY <1>1, <2>1, <2>4, <5>1
      <4> QED BY <4>1, <4>2, AtCall
    <3> HIDE DEF o
    <3> QED BY <1>1, <2>1, <3>1, SMTT(30)
  <2> HIDE DEF o, g, total
  <2> QED BY <2>1, <2>2, <2>3, <2>4, <2>5 DEF ParserOK, o, g, total
<1>4. /\ client'.calls = client.calls
      /\ client' = [content |-> client'.content, calls |-> client'.calls]
  BY <1>2 DEF ClientOK
<1>5. ClientOK(answer, parser', client')
  BY <1>2, <1>4 DEF ClientOK
<1> QED BY <1>3, <1>5 DEF q

(* A call begins.                                                          *)
LEMMA CallBeginsHolds ==
  ASSUME IInv, NEW n \in Nat, pos + n <= Len(answer),
         CallBegins(SubSeq(answer, pos + 1, pos + n), Upto(answer, pos + n))
  PROVE  ParserOK(answer, pos + n, parser') /\ ClientOK(answer, parser', client')
<1> DEFINE q == pos + n
           delta == SubSeq(answer, pos + 1, q)
<1>1. /\ ~parser.started /\ Has(delta, <<"<tool_call>">>)
      /\ parser' = [parser EXCEPT !.started = TRUE]
      /\ client' = [client EXCEPT !.content = @ \o Before(delta, <<"<tool_call>">>)]
  BY DEF CallBegins, Outside, SendContent
<1>2. /\ No(answer, "<tool_call>", q) \in Nat /\ No(answer, "</tool_call>", q) \in Nat
      /\ No(answer, "<tool_call>", pos) \in Nat /\ No(answer, "</tool_call>", pos) \in Nat
      /\ No(answer, "</tool_call>", pos) <= No(answer, "</tool_call>", q)
  BY Setting
<1>3. No(answer, "<tool_call>", pos) < No(answer, "<tool_call>", q)
  <2>1. "<tool_call>" \in Symbols /\ answer \in Seq(Symbols) /\ pos \in 0..Len(answer)
    BY TagsAre DEF Symbols, IInv
  <2> QED BY <1>1, <2>1, DeltaIs
<1>4. ParserOK(answer, pos, parser) /\ ClientOK(answer, parser, client)
  BY DEF IInv
<1> HIDE DEF q, delta
<1>5. ~parser.header /\ parser \in [index : Nat, started : BOOLEAN, header : BOOLEAN,
                      inFunction : BOOLEAN, json : BOOLEAN, closed : BOOLEAN, params : Nat]
  BY <1>1, <1>4 DEF ParserOK
<1>6. /\ parser'.index = parser.index /\ parser'.started = TRUE /\ parser'.header = parser.header
      /\ parser'.inFunction = parser.inFunction /\ parser'.json = parser.json
      /\ parser'.closed = parser.closed /\ parser'.params = parser.params
      /\ parser' \in [index : Nat, started : BOOLEAN, header : BOOLEAN,
                      inFunction : BOOLEAN, json : BOOLEAN, closed : BOOLEAN, params : Nat]
  BY <1>1, <1>5
<1>7. ParserOK(answer, q, parser')
  BY <1>1, <1>2, <1>3, <1>4, <1>5, <1>6 DEF ParserOK
<1>8. /\ client'.calls = client.calls
      /\ client' = [content |-> client'.content, calls |-> client'.calls]
  BY <1>1, <1>4 DEF ClientOK
<1>9. ClientOK(answer, parser', client')
  BY <1>4, <1>5, <1>6, <1>8 DEF ClientOK
<1> QED BY <1>7, <1>9 DEF q

(* The states of a parser.                                                 *)
Parsers == [index : Nat, started : BOOLEAN, header : BOOLEAN, inFunction : BOOLEAN,
            json : BOOLEAN, closed : BOOLEAN, params : Nat]

(* What is known when a branch inside a call is taken. *)
LEMMA InCall ==
  ASSUME IInv, NEW n \in Nat, pos + n <= Len(answer), Inside(Upto(answer, pos + n))
  PROVE  LET k == parser.index + 1
             q == pos + n
             o == Begins(answer, k)
             g == Ends(answer, k)
             b == No(answer, "<parameter=", o)
         IN /\ parser \in Parsers /\ parser.index \in Nat /\ parser.params \in Nat
            /\ parser.started /\ k \in 1..No(answer, "<tool_call>", Len(answer))
            /\ parser.index < No(answer, "<tool_call>", q)
            /\ parser.index <= No(answer, "</tool_call>", q)
            /\ q \in 0..Len(answer) /\ q \in Nat
            /\ Opens(answer, k) <= q
            /\ o \in Nat /\ g \in Nat /\ o + 4 <= g /\ g + 1 <= Len(answer)
            /\ answer[o + 2] \in Symbols
            /\ b \in Nat /\ No(answer, "<parameter=", g) \in Nat
            /\ No(answer, "<parameter=", g) - b \in Nat
            /\ \E st : Staged(answer, st)
            /\ parser.header => o + 3 <= q
<1> DEFINE q == pos + n
           k == parser.index + 1
           o == Begins(answer, k)
           g == Ends(answer, k)
           b == No(answer, "<parameter=", o)
<1>1. /\ q \in 0..Len(answer) /\ pos \in Nat /\ Len(answer) \in Nat /\ q \in Nat /\ pos <= q
      /\ Count(Upto(answer, q), "<tool_call>") = No(answer, "<tool_call>", q)
      /\ No(answer, "<tool_call>", q) \in Nat
      /\ No(answer, "</tool_call>", pos) <= No(answer, "</tool_call>", q)
      /\ No(answer, "</tool_call>", pos) \in Nat /\ No(answer, "</tool_call>", q) \in Nat
      /\ No(answer, "<tool_call>", q) <= No(answer, "<tool_call>", Len(answer))
      /\ No(answer, "<tool_call>", Len(answer)) \in Nat
  BY Setting
<1>2. PICK st : Staged(answer, st)
  BY Setting
<1>3. parser.started /\ parser.index < No(answer, "<tool_call>", q)
  BY <1>1 DEF Inside
<1>4. ParserOK(answer, pos, parser) /\ answer \in Seq(Symbols)
  BY DEF IInv
<1> HIDE DEF q
<1>5. /\ parser \in Parsers /\ parser.index \in Nat /\ parser.params \in Nat
      /\ parser.index <= No(answer, "</tool_call>", pos)
  BY <1>4 DEF ParserOK, Parsers
<1>6. parser.index < No(answer, "<tool_call>", Len(answer))
  BY <1>1, <1>3, <1>5
<1>7. /\ k \in 1..No(answer, "<tool_call>", Len(answer))
      /\ o \in Nat \ {0} /\ g \in Nat /\ o + 4 <= g /\ g + 1 <= Len(answer)
      /\ answer[o + 2] \in Symbols
      /\ b \in Nat /\ No(answer, "<parameter=", g) - b \in Nat
  BY <1>2, <1>6, AtCall
<1>8. k <= No(answer, "<tool_call>", q)
  BY <1>1, <1>3, <1>5
<1>9. parser.header => o + 3 <= pos
  BY <1>4 DEF ParserOK
<1> HIDE DEF k
<1>10. Opens(answer, k) <= q
  BY <1>1, <1>2, <1>4, <1>7, <1>8, CallAt
<1>11. No(answer, "<parameter=", g) \in Nat
  <2> HIDE DEF g
  <2> QED BY <1>7, NoStep
<1> HIDE DEF o, g, b
<1>12. parser.header => o + 3 <= q
  BY <1>1, <1>7, <1>9
<1>13. parser.index <= No(answer, "</tool_call>", q)
  BY <1>1, <1>5
<1> QED BY <1>1, <1>2, <1>3, <1>5, <1>7, <1>10, <1>11, <1>12, <1>13 DEF q, k, o, g, b

(* The arguments of the current call grow, and nothing else. *)
LEMMA ArgsHold ==
  ASSUME ClientOK(answer, parser, client), parser.index \in Nat, parser.header,
         NEW args \in Seq(Jsons(answer)), SendArgs(args),
         parser'.index = parser.index, parser'.header,
         answer[Begins(answer, parser.index + 1) + 2] \in Symbols,
         Sent(answer, No(answer, "<parameter=", Begins(answer, parser.index + 1)), parser)
           \in Seq(Jsons(answer)),
         Sent(answer, No(answer, "<parameter=", Begins(answer, parser.index + 1)), parser')
           = Sent(answer, No(answer, "<parameter=", Begins(answer, parser.index + 1)), parser)
               \o args
  PROVE  ClientOK(answer, parser', client')
<1> DEFINE k == parser.index + 1
           o == Begins(answer, k)
           b == No(answer, "<parameter=", o)
           J == Seq(Jsons(answer))
           C == [name : Symbols, args : J]
           calls == client.calls
           sent == Sent(answer, b, parser)
           name == answer[o + 2]
           new == [name |-> name, args |-> sent \o args]
<1>1. /\ client = [content |-> client.content, calls |-> calls]
      /\ calls \in Seq(C) /\ Len(calls) = k
      /\ \A i \in 1..parser.index :
           calls[i] = WrittenCall(answer, Begins(answer, i), Ends(answer, i))
      /\ calls[k] = [name |-> name, args |-> sent]
  BY DEF ClientOK
<1>2. client' = [client EXCEPT !.calls[k].args = @ \o args]
  BY DEF SendArgs
<1>3. sent \o args \in J /\ name \in Symbols
  <2> DEFINE X == Jsons(answer)
  <2>1. sent \in Seq(X) /\ args \in Seq(X)
    OBVIOUS
  <2> HIDE DEF X, sent
  <2>2. sent \o args \in Seq(X)
    BY <2>1, ConcatProperties
  <2> QED BY <2>2 DEF X
<1>4. k \in 1..Len(calls) /\ k \in Nat /\ \A i \in 1..parser.index : i # k
  BY <1>1
<1> HIDE DEF J, k, o, b, calls, sent, name
<1>5. client'.calls = [calls EXCEPT ![k] = new]
      /\ client' = [content |-> client'.content, calls |-> client'.calls]
  <2>1. client' = [client EXCEPT !.calls = [calls EXCEPT ![k].args = @ \o args]]
    BY <1>2 DEF calls
  <2>2. [calls EXCEPT ![k].args = @ \o args] = [calls EXCEPT ![k] = new]
    <3> DEFINE call == calls[k]
    <3>1. call = [name |-> name, args |-> sent]
      BY <1>1
    <3>2. [call EXCEPT !.args = call.args \o args] = new
      <4>1. call.args = sent
        BY <3>1
      <4> DEFINE y == sent \o args
      <4> HIDE DEF call, y
      <4>2. [call EXCEPT !.args = y] = [name |-> name, args |-> y]
        BY <3>1
      <4> QED BY <4>1, <4>2 DEF y, new
    <3> HIDE DEF new
    <3> QED BY <3>2 DEF call
  <2> HIDE DEF new
  <2> QED BY <1>1, <2>1, <2>2
<1>6. new \in C
  BY <1>3
<1> HIDE DEF new, C
<1>7. /\ client'.calls \in Seq(C) /\ Len(client'.calls) = Len(calls)
      /\ client'.calls[k] = new
      /\ \A i \in 1..parser.index : client'.calls[i] = calls[i]
  <2> DEFINE after == [calls EXCEPT ![k] = new]
  <2>1. /\ after \in Seq(C) /\ Len(after) = Len(calls) /\ after[k] = new
        /\ \A i \in DOMAIN calls : i # k => after[i] = calls[i]
    BY <1>1, <1>4, <1>6
  <2>2. \A i \in 1..parser.index : i \in DOMAIN calls
    BY <1>1 DEF k
  <2> HIDE DEF after
  <2> QED BY <1>4, <1>5, <2>1, <2>2 DEF after
<1> QED BY <1>1, <1>5, <1>7 DEF ClientOK, k, o, b, J, C, calls, sent, name, new

(* The header: the client has one more call, with its name.                *)
LEMMA HeaderHolds ==
  ASSUME IInv, NEW n \in Nat, pos + n <= Len(answer),
         Header(SubSeq(answer, pos + 1, pos + n), Upto(answer, pos + n))
  PROVE  ParserOK(answer, pos + n, parser') /\ ClientOK(answer, parser', client')
<1> DEFINE q == pos + n
           text == Upto(answer, q)
           k == parser.index + 1
           o == Begins(answer, k)
           g == Ends(answer, k)
           b == No(answer, "<parameter=", o)
           C == [name : Symbols, args : Seq(Jsons(answer))]
           calls == client.calls
           name == After(ToolText(text), <<"<function=">>)[1]
           new == [name |-> name, args |-> <<>>]
<1>1. /\ Inside(text) /\ ~parser.header /\ HasHeader(text)
      /\ parser' = [parser EXCEPT !.header = TRUE, !.inFunction = TRUE]
      /\ client' = [client EXCEPT !.calls = Append(calls, new)]
  BY DEF Header
<1>2. /\ parser \in Parsers /\ parser.index \in Nat /\ parser.started
      /\ k \in 1..No(answer, "<tool_call>", Len(answer))
      /\ parser.index < No(answer, "<tool_call>", q)
      /\ parser.index <= No(answer, "</tool_call>", q)
      /\ q \in 0..Len(answer) /\ Opens(answer, k) <= q /\ answer[o + 2] \in Symbols /\ b \in Nat
      /\ No(answer, "<parameter=", g) - b \in Nat
  BY <1>1, InCall
<1>3. PICK st : Staged(answer, st)
  BY <1>1, InCall
<1>4. ParserOK(answer, pos, parser) /\ ClientOK(answer, parser, client) /\ answer \in Seq(Symbols)
  BY DEF IInv
<1> HIDE DEF q
<1>5. o + 3 <= q /\ name = answer[o + 2]
  <2> HIDE DEF o
  <2>1. parser.index + 1 = k
    OBVIOUS
  <2> HIDE DEF k
  <2>2. /\ HasHeader(Upto(answer, q)) <=> Begins(answer, k) + 3 <= q
        /\ HasHeader(Upto(answer, q)) =>
             After(ToolText(Upto(answer, q)), <<"<function=">>)[1] = answer[Begins(answer, k) + 2]
    BY <1>2, <1>3, <1>4, <2>1, HeaderIs DEF o
  <2> QED BY <1>1, <2>2 DEF o
<1>6. ~parser.json /\ ~parser.closed /\ parser.params = 0
  BY <1>1, <1>4 DEF ParserOK
<1>7. /\ parser'.index = parser.index /\ parser'.started /\ parser'.header = TRUE
      /\ parser'.inFunction = TRUE /\ parser'.json = parser.json
      /\ parser'.closed = parser.closed /\ parser'.params = parser.params
      /\ parser' \in Parsers
  BY <1>1, <1>2 DEF Parsers
<1> HIDE DEF name
<1>8. ParserOK(answer, q, parser')
  <2> HIDE DEF o, g, b
  <2> QED BY <1>2, <1>5, <1>6, <1>7 DEF ParserOK, Parsers, o, g, b, k
<1>9. ClientOK(answer, parser', client')
  <2>1. /\ client = [content |-> client.content, calls |-> calls]
        /\ calls \in Seq(C) /\ Len(calls) = parser.index
        /\ \A i \in 1..parser.index :
             calls[i] = WrittenCall(answer, Begins(answer, i), Ends(answer, i))
    BY <1>1, <1>4 DEF ClientOK
  <2>2. Sent(answer, b, parser') = <<>> /\ <<>> \in Seq(Jsons(answer))
    <3> DEFINE s == parser'
    <3>1. s.params \in Nat /\ s.params = 0 /\ ~s.json /\ ~s.closed
      BY <1>6, <1>7
    <3> HIDE DEF s, b
    <3>2. Sent(answer, b, s) = <<>>
      BY <1>2, <3>1, SentNone
    <3> QED BY <3>2, EmptySeq DEF s
  <2>3. new \in C
    BY <1>2, <1>5, <2>2
  <2> HIDE DEF new, C, calls
  <2>4. /\ client'.calls = Append(calls, new)
        /\ client' = [content |-> client'.content, calls |-> client'.calls]
    BY <1>1, <2>1
  <2>5. /\ client'.calls \in Seq(C) /\ Len(client'.calls) = parser.index + 1
        /\ client'.calls[k] = new
        /\ \A i \in 1..parser.index : client'.calls[i] = calls[i]
    BY <1>2, <2>1, <2>3, <2>4, AppendProperties
  <2>6. new = [name |-> answer[o + 2], args |-> Sent(answer, b, parser')]
    BY <1>5, <2>2 DEF new
  <2> HIDE DEF o, b
  <2> QED BY <1>7, <2>1, <2>4, <2>5, <2>6 DEF ClientOK, C, calls, k, o, b
<1> QED BY <1>8, <1>9 DEF q

(* The opening brace.                                                      *)
LEMMA OpenBraceHolds ==
  ASSUME IInv, NEW n \in Nat, pos + n <= Len(answer),
         OpenBrace(SubSeq(answer, pos + 1, pos + n), Upto(answer, pos + n))
  PROVE  ParserOK(answer, pos + n, parser') /\ ClientOK(answer, parser', client')
<1> DEFINE q == pos + n
           text == Upto(answer, q)
           k == parser.index + 1
           o == Begins(answer, k)
           g == Ends(answer, k)
           b == No(answer, "<parameter=", o)
<1>1. /\ Inside(text) /\ parser.header /\ parser.inFunction /\ ~parser.json
      /\ parser' = [parser EXCEPT !.json = TRUE]
      /\ SendArgs(Brace)
  BY DEF OpenBrace, InFunction
<1>2. /\ parser \in Parsers /\ parser.index \in Nat /\ parser.started
      /\ parser.index < No(answer, "<tool_call>", q)
      /\ parser.index <= No(answer, "</tool_call>", q)
      /\ answer[o + 2] \in Symbols /\ b \in Nat
      /\ No(answer, "<parameter=", g) - b \in Nat /\ o + 3 <= q
  BY <1>1, InCall
<1>3. ParserOK(answer, pos, parser) /\ ClientOK(answer, parser, client)
  BY DEF IInv
<1> HIDE DEF q
<1>4. ~parser.closed /\ parser.params = 0
  BY <1>1, <1>3 DEF ParserOK
<1>5. /\ parser'.index = parser.index /\ parser'.started = parser.started
      /\ parser'.header = parser.header /\ parser'.inFunction = parser.inFunction
      /\ parser'.json = TRUE /\ parser'.closed = parser.closed
      /\ parser'.params = parser.params /\ parser' \in Parsers
  BY <1>1, <1>2 DEF Parsers
<1>6. ParserOK(answer, q, parser')
  <2> HIDE DEF o, g, b
  <2> QED BY <1>1, <1>2, <1>4, <1>5 DEF ParserOK, Parsers, o, g, b, k
<1>7. /\ Sent(answer, b, parser) \in Seq(Jsons(answer)) /\ Brace \in Seq(Jsons(answer))
      /\ Sent(answer, b, parser') = Sent(answer, b, parser) \o Brace
  <2> DEFINE s == parser
             t == parser'
  <2>1. s.params \in Nat /\ t.params \in Nat /\ s.params = 0 /\ t.params = 0
        /\ ~s.json /\ ~s.closed /\ t.json /\ ~t.closed
    BY <1>1, <1>4, <1>5
  <2> HIDE DEF s, t, b
  <2>2. Sent(answer, b, t) = Sent(answer, b, s) \o Brace
    <3>1. b \in Nat
      BY <1>2
    <3>2. Sent(answer, b, s) = <<>>
      BY ONLY <2>1, <3>1, SentNone
    <3>3. Sent(answer, b, t) = Brace
      BY ONLY <2>1, <3>1, SentBrace
    <3>4. <<>> \o Brace = Brace
      <4>1. Brace \in Seq(Jsons(answer))
        BY ONLY <3>1, JsonsAre
      <4> QED BY ONLY <4>1, ConcatEmptySeq
    <3> QED BY <3>2, <3>3, <3>4
  <2>3. Sent(answer, b, s) \in Seq(Jsons(answer)) /\ Brace \in Seq(Jsons(answer))
    BY <1>2, <2>1, SentType, JsonsAre
  <2> QED BY <2>2, <2>3 DEF s, t
<1>8. ClientOK(answer, parser', client')
  BY <1>1, <1>2, <1>3, <1>5, <1>7, ArgsHold
<1> QED BY <1>6, <1>8 DEF q

(* The last number of an interval.                                         *)
LEMMA MaxIs ==
  ASSUME NEW i \in Nat, NEW j \in Nat, i <= j
  PROVE  Max(i..j) = j
BY DEF Max

(* The call's parameters whose values were received are among all of them. *)
LEMMA ValuesSoFar ==
  ASSUME NEW a \in Seq(Symbols), NEW st, Staged(a, st),
         NEW k \in 1..No(a, "<tool_call>", Len(a)),
         NEW p \in 0..Len(a), Begins(a, k) + 3 <= p
  PROVE  LET o == Begins(a, k)
             g == Ends(a, k)
             v == No(a, "</parameter>", Reach(p, Closes(a, k)))
         IN /\ v \in Nat /\ No(a, "<parameter=", o) <= v /\ v <= No(a, "<parameter=", g)
            /\ g <= p => v = No(a, "<parameter=", g)
<1> DEFINE o == Begins(a, k)
           g == Ends(a, k)
           z == Closes(a, k)
           h == Reach(p, z)
<1>1. Call(a, st, k, o, g)
  BY CallOf
<1> HIDE DEF o, g
<1>2. /\ o \in Nat /\ g \in Nat /\ p \in Nat /\ o + 4 <= g /\ g + 1 <= z /\ o + 3 <= p
      /\ z \in Nat /\ Opens(a, k) \in Nat /\ Opens(a, k) <= o
  BY <1>1 DEF Call, o
<1>3. h \in Opens(a, k)..z /\ h \in Nat /\ (g <= p <=> g <= h)
  BY <1>2 DEF Reach
<1> HIDE DEF h
<1> DEFINE v == No(a, "</parameter>", h)
           b == No(a, "<parameter=", o)
           e == No(a, "<parameter=", g)
<1>4. /\ v \in Nat /\ b <= v /\ v <= e
      /\ h >= g => v = e
  BY <1>1, <1>3, ValuesIn
<1> HIDE DEF v, b, e
<1>5. g <= p => v = e
  <2>1. g <= h => h >= g
    BY <1>2, <1>3
  <2> QED BY <1>3, <1>4, <2>1
<1> QED BY <1>4, <1>5 DEF v, b, e, o, g, h, z

(* The parameters that are complete: each is sent once and in its order,   *)
(* however many arrived with the delta.                                    *)
LEMMA ParamsHold ==
  ASSUME IInv, NEW n \in Nat, pos + n <= Len(answer),
         Params(SubSeq(answer, pos + 1, pos + n), Upto(answer, pos + n))
  PROVE  ParserOK(answer, pos + n, parser') /\ ClientOK(answer, parser', client')
<1> DEFINE q == pos + n
           text == Upto(answer, q)
           k == parser.index + 1
           o == Begins(answer, k)
           g == Ends(answer, k)
           b == No(answer, "<parameter=", o)
           e == No(answer, "<parameter=", g)
           v == No(answer, "</parameter>", Reach(q, Closes(answer, k)))
           c == parser.params
           new == NewParams(text)
           args == [i \in 1..Cardinality(new) |-> NewParam(ToolText(text), c + i)]
           d == v - b - c
<1>1. /\ Inside(text) /\ parser.header /\ parser.inFunction /\ parser.json /\ new # {}
      /\ parser' = [parser EXCEPT !.params = Max(new)]
      /\ SendArgs(args)
  BY DEF Params, InFunction
<1>2. /\ parser \in Parsers /\ parser.index \in Nat /\ c \in Nat /\ parser.started
      /\ parser.index < No(answer, "<tool_call>", q)
      /\ parser.index <= No(answer, "</tool_call>", q)
      /\ k \in 1..No(answer, "<tool_call>", Len(answer)) /\ q \in 0..Len(answer)
      /\ answer[o + 2] \in Symbols /\ b \in Nat /\ e \in Nat
      /\ e - b \in Nat /\ o + 3 <= q
  BY <1>1, InCall
<1>3. PICK st : Staged(answer, st)
  BY <1>1, InCall
<1>4. ParserOK(answer, pos, parser) /\ ClientOK(answer, parser, client) /\ answer \in Seq(Symbols)
  BY DEF IInv
<1> HIDE DEF q, k
<1>5. parser.index + 1 = k
  BY DEF k
<1>6. /\ new = (c + 1)..(v - b)
      /\ \A j \in new : NewParam(ToolText(text), j) = Piece(answer, b + j)
  BY <1>2, <1>3, <1>4, <1>5, NewParamsAre
<1>7. v \in Nat /\ b <= v /\ v <= e
  BY <1>2, <1>3, <1>4, ValuesSoFar
<1> HIDE DEF o, g, b, e, v, c, new
<1>8. d \in Nat \ {0} /\ c + d = v - b /\ c + d \in Nat /\ c + 1 \in Nat /\ c + 1 <= c + d
      /\ c + d <= e - b
  <2>1. c + 1 <= v - b
    <3>1. c + 1 \in Int /\ v - b \in Int
      BY <1>2, <1>7
    <3> QED BY <1>1, <1>6, <3>1
  <2> QED BY <1>2, <1>7, <2>1
<1>9. Max(new) = c + d /\ Cardinality(new) = d
  <2>1. new = (c + 1)..(c + d)
    BY <1>6, <1>8
  <2>2. Max((c + 1)..(c + d)) = c + d
    <3> DEFINE x == c + 1
               y == c + d
    <3>1. x \in Nat /\ y \in Nat /\ x <= y
      BY <1>8
    <3> HIDE DEF x, y
    <3>2. Max(x..y) = y
      BY <3>1, MaxIs
    <3> QED BY <3>2 DEF x, y
  <2>3. Cardinality((c + 1)..(c + d)) = d
    <3> DEFINE x == c + 1
               y == c + d
    <3>1. x \in Int /\ y \in Int /\ x <= y /\ y - x + 1 = d
      BY <1>2, <1>8
    <3> HIDE DEF x, y, d
    <3>2. Cardinality(x..y) = IF x > y THEN 0 ELSE y - x + 1
      BY <3>1, FS_Interval
    <3> QED BY <3>1, <3>2 DEF x, y
  <2> QED BY <2>1, <2>2, <2>3
<1> HIDE DEF d
<1>10. args = More(answer, b, c, d)
  <2>1. ASSUME NEW i \in 1..d PROVE NewParam(ToolText(text), c + i) = Piece(answer, b + (c + i))
    <3>1. c + i \in new
      BY <1>2, <1>6, <1>8
    <3> QED BY <1>6, <3>1
  <2>2. args = [i \in 1..d |-> NewParam(ToolText(text), c + i)]
    BY <1>9
  <2> HIDE DEF args
  <2> QED BY <2>1, <2>2 DEF More
<1> HIDE DEF args
<1>11. /\ parser'.index = parser.index /\ parser'.started = parser.started
       /\ parser'.header = parser.header /\ parser'.inFunction = parser.inFunction
       /\ parser'.json = parser.json /\ parser'.closed = parser.closed
       /\ parser'.params = c + d /\ parser' \in Parsers
  <2> DEFINE m == c + d
  <2>1. m \in Nat /\ parser' = [parser EXCEPT !.params = m]
    BY <1>1, <1>8, <1>9
  <2> HIDE DEF m
  <2> QED BY <1>2, <2>1 DEF Parsers, m
<1>12. ~parser.closed /\ parser.params \in Nat /\ parser.params = c
  BY <1>1, <1>2, <1>4 DEF ParserOK, c
<1>13. ParserOK(answer, q, parser')
  BY <1>1, <1>2, <1>8, <1>11, <1>12 DEF ParserOK, Parsers, o, g, b, e, k
<1>14. /\ Sent(answer, b, parser) \in Seq(Jsons(answer)) /\ args \in Seq(Jsons(answer))
       /\ Sent(answer, b, parser') = Sent(answer, b, parser) \o args
  <2> DEFINE s == parser
             t == parser'
  <2>1. s.params \in Nat /\ t.params \in Nat /\ t.params = c + d
        /\ s.json /\ ~s.closed /\ t.json /\ ~t.closed /\ d \in Nat /\ s.params = c
    BY <1>1, <1>8, <1>11, <1>12
  <2> HIDE DEF s, t
  <2> DEFINE more == More(answer, b, c, d)
  <2>2. more \in Seq(Jsons(answer))
    <3> DEFINE X == Jsons(answer)
    <3>1. \A i \in 1..d : Piece(answer, b + (c + i)) \in X
      <4> TAKE i \in 1..d
      <4>1. b + (c + i) \in Nat
        BY <1>2, <1>8
      <4> QED BY <4>1, PieceType
    <3> HIDE DEF X
    <3> QED BY <2>1, <3>1 DEF More, X
  <2>3. First(answer, b, c + d) = First(answer, b, c) \o more
    <3>1. b \in Nat /\ c \in Nat /\ d \in Nat
      BY <1>2, <2>1
    <3> QED BY <3>1, FirstMore
  <2> HIDE DEF more
  <2>4. First(answer, b, t.params) = First(answer, b, s.params) \o more
    BY <2>1, <2>3
  <2>5. Sent(answer, b, t) = Sent(answer, b, s) \o more
    <3>1. b \in Nat /\ s.params \in Nat /\ t.params \in Nat
      BY <1>2, <2>1
    <3>2. s.json /\ ~s.closed /\ t.json /\ ~t.closed
      BY <2>1
    <3>3. Sent(answer, b, s) = Brace \o First(answer, b, s.params)
      BY <3>1, <3>2, SentOpen
    <3>4. Sent(answer, b, t) = Brace \o First(answer, b, t.params)
      BY <3>1, <3>2, SentOpen
    <3> DEFINE X == Jsons(answer)
               x == First(answer, b, s.params)
               z == Brace
    <3>5. z \in Seq(X) /\ x \in Seq(X) /\ more \in Seq(X)
      BY <2>2, <3>1, JsonsAre
    <3> HIDE DEF X, x, z
    <3>6. (z \o x) \o more = z \o (x \o more)
      BY <3>5, ConcatAssociative, SMTT(30)
    <3> QED BY <2>4, <3>3, <3>4, <3>6 DEF x, z
  <2>6. Sent(answer, b, s) \in Seq(Jsons(answer))
    BY <1>2, <2>1, SentType
  <2> QED BY <1>10, <2>2, <2>5, <2>6 DEF s, t, more
<1>15. ClientOK(answer, parser', client')
  BY <1>1, <1>2, <1>4, <1>11, <1>14, ArgsHold DEF o, b, k
<1> QED BY <1>13, <1>15 DEF q

(* The closing brace: the function ended and no parameter is new, so all   *)
(* were sent.                                                              *)
LEMMA CloseBraceHolds ==
  ASSUME IInv, NEW n \in Nat, pos + n <= Len(answer),
         CloseBrace(SubSeq(answer, pos + 1, pos + n), Upto(answer, pos + n))
  PROVE  ParserOK(answer, pos + n, parser') /\ ClientOK(answer, parser', client')
<1> DEFINE q == pos + n
           text == Upto(answer, q)
           k == parser.index + 1
           o == Begins(answer, k)
           g == Ends(answer, k)
           b == No(answer, "<parameter=", o)
           e == No(answer, "<parameter=", g)
           v == No(answer, "</parameter>", Reach(q, Closes(answer, k)))
           c == parser.params
           new == NewParams(text)
<1>1. /\ Inside(text) /\ parser.header /\ parser.inFunction /\ parser.json /\ new = {}
      /\ Has(ToolText(text), <<"</function>">>)
      /\ parser' = [parser EXCEPT !.closed = TRUE, !.inFunction = FALSE]
      /\ SendArgs(EndBrace)
  BY DEF CloseBrace, InFunction
<1>2. /\ parser \in Parsers /\ parser.index \in Nat /\ c \in Nat /\ parser.started
      /\ parser.index < No(answer, "<tool_call>", q)
      /\ parser.index <= No(answer, "</tool_call>", q)
      /\ k \in 1..No(answer, "<tool_call>", Len(answer)) /\ q \in 0..Len(answer)
      /\ answer[o + 2] \in Symbols /\ b \in Nat /\ e \in Nat
      /\ e - b \in Nat /\ o + 3 <= q
  BY <1>1, InCall
<1>3. PICK st : Staged(answer, st)
  BY <1>1, InCall
<1>4. ParserOK(answer, pos, parser) /\ ClientOK(answer, parser, client) /\ answer \in Seq(Symbols)
  BY DEF IInv
<1> HIDE DEF q, k
<1>5. parser.index + 1 = k
  BY DEF k
<1>6. new = (c + 1)..(v - b) /\ g <= q
  <2>1. /\ NewParams(text) = (parser.params + 1)..(v - b)
        /\ Has(ToolText(text), <<"</function>">>) <=> g <= q
    BY <1>2, <1>3, <1>4, <1>5, NewParamsAre
  <2> QED BY <1>1, <2>1
<1>7. v \in Nat /\ b <= v /\ v <= e /\ (g <= q => v = e)
  BY <1>2, <1>3, <1>4, ValuesSoFar
<1>8. c <= e - b /\ ~parser.closed
  BY <1>1, <1>4 DEF ParserOK, k
<1> HIDE DEF o, g, b, e, v, c, new
<1>9. c = e - b
  <2>1. ~(c + 1 <= v - b)
    <3>1. c + 1 \in Int /\ v - b \in Int
      BY <1>2, <1>7
    <3> QED BY <1>1, <1>6, <3>1
  <2> QED BY <1>2, <1>6, <1>7, <1>8, <2>1
<1>10. /\ parser'.index = parser.index /\ parser'.started = parser.started
       /\ parser'.header = parser.header /\ parser'.inFunction = FALSE
       /\ parser'.json = parser.json /\ parser'.closed = TRUE
       /\ parser'.params = parser.params /\ parser' \in Parsers
  BY <1>1, <1>2 DEF Parsers
<1>11. ParserOK(answer, q, parser')
  BY <1>1, <1>2, <1>9, <1>10 DEF ParserOK, Parsers, o, g, b, e, k, c
<1>12. /\ Sent(answer, b, parser) \in Seq(Jsons(answer)) /\ EndBrace \in Seq(Jsons(answer))
       /\ Sent(answer, b, parser') = Sent(answer, b, parser) \o EndBrace
  <2> DEFINE s == parser
             t == parser'
  <2>1. s.params \in Nat /\ t.params \in Nat /\ t.params = s.params
        /\ s.json /\ ~s.closed /\ t.json /\ t.closed
    BY <1>1, <1>2, <1>8, <1>10 DEF c
  <2> HIDE DEF s, t
  <2>2. Sent(answer, b, t) = Sent(answer, b, s) \o EndBrace
    <3>1. b \in Nat
      BY <1>2
    <3>2. Sent(answer, b, s) = Brace \o First(answer, b, s.params)
      BY ONLY <2>1, <3>1, SentOpen
    <3>3. Sent(answer, b, t) = (Brace \o First(answer, b, t.params)) \o EndBrace
      BY ONLY <2>1, <3>1, SentEnd
    <3> QED BY <2>1, <3>2, <3>3
  <2>3. Sent(answer, b, s) \in Seq(Jsons(answer)) /\ EndBrace \in Seq(Jsons(answer))
    BY <1>2, <2>1, SentType, JsonsAre
  <2> QED BY <2>2, <2>3 DEF s, t
<1>13. ClientOK(answer, parser', client')
  BY <1>1, <1>2, <1>4, <1>10, <1>12, ArgsHold DEF o, b, k
<1> QED BY <1>11, <1>13 DEF q

(* Text outside calls, and deltas that change nothing.                     *)
LEMMA OthersHold ==
  ASSUME IInv, NEW n \in Nat, pos + n <= Len(answer),
         LET delta == SubSeq(answer, pos + 1, pos + n)
             text == Upto(answer, pos + n)
         IN \/ NoText(delta, text)
            \/ PlainText(delta, text)
            \/ NothingYet(delta, text)
  PROVE  ParserOK(answer, pos + n, parser') /\ ClientOK(answer, parser', client')
<1> DEFINE delta == SubSeq(answer, pos + 1, pos + n)
           text == Upto(answer, pos + n)
<1>0. /\ answer \in Seq(Symbols) /\ pos \in 0..Len(answer)
      /\ client = [content |-> client.content, calls |-> client.calls]
  BY DEF IInv, ClientOK
<1>1. CASE NoText(delta, text)
  <2>1. n = 0 /\ parser' = parser /\ client' = client
    BY <1>0, <1>1, DeltaIs DEF NoText
  <2>2. No(answer, "<tool_call>", pos) = No(answer, "<tool_call>", pos + n)
    BY <1>0, <2>1
  <2> QED BY <2>1, <2>2, SameHolds
<1>2. CASE PlainText(delta, text)
  <2>1. /\ parser' = parser /\ ~Has(delta, <<"<tool_call>">>)
        /\ client' = client \/ client' = [client EXCEPT !.content = @ \o delta]
    BY <1>2 DEF PlainText, SendContent
  <2>2. client' = client \/ client' = [client EXCEPT !.content = client'.content]
    <3> DEFINE c == client.content \o delta
    <3> HIDE DEF c
    <3>1. client' = client \/ client' = [client EXCEPT !.content = c]
      BY <2>1 DEF c
    <3> QED BY <1>0, <3>1
  <2>3. No(answer, "<tool_call>", pos) = No(answer, "<tool_call>", pos + n)
    <3>1. "<tool_call>" \in Symbols
      BY TagsAre DEF Symbols
    <3> QED BY <1>0, <2>1, <3>1, DeltaIs
  <2> QED BY <2>1, <2>2, <2>3, SameHolds
<1>3. CASE NothingYet(delta, text)
  BY <1>3, SameHolds DEF NothingYet
<1> QED BY <1>1, <1>2, <1>3

(* Every step keeps the invariant.                                         *)
LEMMA NextHolds == IInv /\ [Next]_vars => IInv'
<1> SUFFICES ASSUME IInv, [Next]_vars PROVE IInv'
  OBVIOUS
<1>1. ASSUME NEW n \in 0..MaxDelta, Delta(n) PROVE IInv'
  <2> DEFINE delta == SubSeq(answer, pos + 1, pos + n)
             text == Upto(answer, pos + n)
  <2>1. /\ n \in Nat /\ pos + n <= Len(answer) /\ pos' = pos + n /\ answer' = answer
        /\ Branches(delta, text)
    BY <1>1, CoderAssumption DEF Delta, CoderAssumption
  <2>2. /\ answer \in Seq(Symbols) /\ WellFormed(answer) /\ pos + n \in 0..Len(answer)
    BY <2>1 DEF IInv
  <2>3. ParserOK(answer, pos + n, parser') /\ ClientOK(answer, parser', client')
    <3>1. CASE NextCall(delta, text)
      BY <2>1, <3>1, NextCallHolds
    <3>2. CASE CallBegins(delta, text)
      BY <2>1, <3>2, CallBeginsHolds
    <3>3. CASE Header(delta, text)
      BY <2>1, <3>3, HeaderHolds
    <3>4. CASE OpenBrace(delta, text)
      BY <2>1, <3>4, OpenBraceHolds
    <3>5. CASE Params(delta, text)
      BY <2>1, <3>5, ParamsHold
    <3>6. CASE CloseBrace(delta, text)
      BY <2>1, <3>6, CloseBraceHolds
    <3>7. CASE NoText(delta, text) \/ PlainText(delta, text) \/ NothingYet(delta, text)
      BY <2>1, <3>7, OthersHold
    <3> QED BY <2>1, <3>1, <3>2, <3>3, <3>4, <3>5, <3>6, <3>7 DEF Branches
  <2> QED BY <2>1, <2>2, <2>3 DEF IInv
<1>2. CASE Finalize
  BY <1>2 DEF Finalize, IInv
<1>3. CASE UNCHANGED vars
  BY <1>3 DEF vars, IInv
<1> QED BY <1>1, <1>2, <1>3 DEF Next

(* A sequence begins what it is continued to.                              *)
LEMMA Prefix ==
  ASSUME NEW X, NEW s \in Seq(X), NEW t \in Seq(X)
  PROVE  StartsWith(s \o t, s)
<1> DEFINE r == s \o t
           n == Len(s)
<1>1. /\ n \in Nat /\ r \in Seq(X) /\ Len(r) = n + Len(t) /\ Len(t) \in Nat
      /\ \A i \in 1..n : r[i] = s[i]
  BY ConcatProperties
<1> HIDE DEF r
<1>2. n <= Len(r)
  BY <1>1
<1> HIDE DEF n
<1>3. /\ SubSeq(r, 1, n) \in Seq(X) /\ Len(SubSeq(r, 1, n)) = n
      /\ \A i \in 1..n : SubSeq(r, 1, n)[i] = r[i]
  <2>1. 1 \in Nat \ {0} /\ 1 <= n + 1 /\ n - 1 + 1 = n
    BY <1>1
  <2>2. /\ SubSeq(r, 1, n) \in Seq(X) /\ Len(SubSeq(r, 1, n)) = n - 1 + 1
        /\ \A i \in 1..(n - 1 + 1) : SubSeq(r, 1, n)[i] = r[1 + i - 1]
    BY <1>1, <1>2, <2>1, Window
  <2>3. \A i \in 1..n : 1 + i - 1 = i
    BY <1>1
  <2> QED BY <2>1, <2>2, <2>3
<1>4. SubSeq(r, 1, n) = s
  BY <1>1, <1>3, SeqEqual DEF n
<1> QED BY <1>2, <1>4 DEF StartsWith, Upto, r, n

(* What is sent of the arguments of a call is a beginning of them. *)
LEMMA SentBegins ==
  ASSUME NEW a, NEW b \in Nat, NEW total \in Nat,
         NEW s, s.params \in Nat, s.params <= total, ~s.json => s.params = 0,
         s.closed => s.json /\ s.params = total
  PROVE  StartsWith(Brace \o First(a, b, total) \o EndBrace, Sent(a, b, s))
<1> DEFINE X == Jsons(a)
           z == Brace
           e == EndBrace
           all == First(a, b, total)
           c == s.params
           d == total - c
           x == First(a, b, c)
           more == More(a, b, c, d)
           whole == z \o all \o e
<1>1. /\ z \in Seq(X) /\ e \in Seq(X) /\ all \in Seq(X) /\ x \in Seq(X) /\ <<>> \in Seq(X)
      /\ c \in Nat /\ d \in Nat /\ c + d = total
  <2>1. c \in Nat /\ d \in Nat /\ c + d = total
    OBVIOUS
  <2> HIDE DEF d
  <2>2. z \in Seq(X) /\ e \in Seq(X) /\ all \in Seq(X) /\ x \in Seq(X) /\ <<>> \in Seq(X)
    BY <2>1, JsonsAre
  <2> QED BY <2>1, <2>2
<1>2. more \in Seq(X) /\ all = x \o more
  <2> HIDE DEF c
  <2>1. d \in Nat /\ c \in Nat /\ c + d = total
    BY <1>1
  <2> HIDE DEF d
  <2>2. First(a, b, c + d) = First(a, b, c) \o More(a, b, c, d)
    <3>1. b \in Nat
      OBVIOUS
    <3> QED BY ONLY <2>1, <3>1, FirstMore, ZenonT(60)
  <2>3. \A i \in 1..d : Piece(a, b + (c + i)) \in X
    <3> TAKE i \in 1..d
    <3>1. b + (c + i) \in Nat
      BY <2>1
    <3> QED BY <3>1, PieceType
  <2> HIDE DEF X
  <2>4. More(a, b, c, d) \in Seq(X)
    BY <2>1, <2>3 DEF More
  <2> QED BY <2>1, <2>2, <2>4
<1>3. CASE ~s.json
  <2>1. ~s.closed /\ s.params = 0
    BY <1>3
  <2>2. Sent(a, b, s) = <<>>
    BY <1>3, <2>1, SentNone
  <2> HIDE DEF X, z, e, all
  <2>3. <<>> \o whole = whole /\ whole \in Seq(X)
    BY <1>1, ConcatProperties, ConcatEmptySeq
  <2> HIDE DEF whole
  <2>4. StartsWith(<<>> \o whole, <<>>)
    BY <1>1, <2>3, Prefix
  <2> QED BY <2>2, <2>3, <2>4 DEF whole, z, e, all
<1>4. CASE s.json /\ ~s.closed
  <2>1. Sent(a, b, s) = z \o x
    BY <1>1, <1>4, SentOpen
  <2> HIDE DEF X, z, e, all, x, more
  <2> DEFINE start == z \o x
             rest == more \o e
  <2>2. start \in Seq(X) /\ rest \in Seq(X)
    BY <1>1, <1>2, ConcatProperties
  <2>3. whole = start \o rest
    <3>1. z \o (x \o more) = (z \o x) \o more
      <4>1. z \in Seq(X) /\ x \in Seq(X) /\ more \in Seq(X)
        BY <1>1, <1>2
      <4> QED BY ONLY <4>1, ConcatAssociative, SMTT(30)
    <3>2. (start \o more) \o e = start \o (more \o e)
      <4> HIDE DEF start
      <4>1. start \in Seq(X) /\ more \in Seq(X) /\ e \in Seq(X)
        BY <1>1, <1>2, <2>2
      <4> QED BY <4>1, ConcatAssociative, SMTT(30)
    <3> QED BY <1>2, <3>1, <3>2
  <2> HIDE DEF start, rest, whole
  <2>4. StartsWith(start \o rest, start)
    BY <2>2, Prefix
  <2> QED BY <2>1, <2>3, <2>4 DEF start, whole, z, e, all
<1>5. CASE s.json /\ s.closed
  <2>1. Sent(a, b, s) = whole
    BY <1>5 DEF Sent
  <2> HIDE DEF X, z, e, all
  <2>2. whole \o <<>> = whole /\ whole \in Seq(X)
    BY <1>1, ConcatProperties, ConcatEmptySeq
  <2> HIDE DEF whole
  <2>3. StartsWith(whole \o <<>>, whole)
    BY <1>1, <2>2, Prefix
  <2> QED BY <2>1, <2>2, <2>3 DEF whole, z, e, all
<1> QED BY <1>3, <1>4, <1>5

(* The invariant says what the property says.                              *)
LEMMA BeginHolds == IInv => CallsBegin
<1> SUFFICES ASSUME IInv PROVE CallsBegin
  OBVIOUS
<1> DEFINE N == No(answer, "<tool_call>", Len(answer))
           calls == client.calls
           k == parser.index + 1
           o == Begins(answer, k)
           g == Ends(answer, k)
           b == No(answer, "<parameter=", o)
           total == No(answer, "<parameter=", g) - b
<1>1. answer \in Seq(Symbols) /\ WellFormed(answer) /\ pos \in 0..Len(answer)
  BY DEF IInv
<1>2. PICK st : Staged(answer, st)
  BY <1>1, StagesOf
<1>3. /\ Written = [i \in 1..N |-> WrittenCall(answer, Begins(answer, i), Ends(answer, i))]
      /\ \A i \in 1..N : Read(Written[i]) = Whole[i]
  BY <1>1, <1>2, WholeIs
<1>4. /\ No(answer, "<tool_call>", pos) \in Nat /\ No(answer, "</tool_call>", pos) \in Nat
      /\ No(answer, "</tool_call>", pos) <= No(answer, "<tool_call>", pos)
      /\ No(answer, "<tool_call>", pos) <= N /\ N \in Nat
  BY <1>1, <1>2, Counts
<1>5. /\ parser.index \in Nat /\ parser.params \in Nat
      /\ parser.index <= No(answer, "</tool_call>", pos)
      /\ parser.header => parser.index < No(answer, "<tool_call>", pos) /\ parser.params <= total
      /\ ~parser.json => parser.params = 0
      /\ parser.closed => parser.json /\ parser.params = total
  BY DEF IInv, ParserOK
<1>6. /\ calls \in Seq([name : Symbols, args : Seq(Jsons(answer))])
      /\ Len(calls) = IF parser.header THEN k ELSE parser.index
      /\ \A i \in 1..parser.index :
           calls[i] = WrittenCall(answer, Begins(answer, i), Ends(answer, i))
      /\ parser.header => calls[k] = [name |-> answer[o + 2], args |-> Sent(answer, b, parser)]
  BY DEF IInv, ClientOK
<1>7. Len(calls) <= N /\ (parser.header => k \in 1..N) /\ \A i \in 1..parser.index : i \in 1..N
  <2>1. Len(calls) = IF parser.header THEN k ELSE parser.index
    BY <1>6
  <2> HIDE DEF calls, N
  <2> QED BY ONLY <1>4, <1>5, <2>1
<1>8. Len(Written) = N
  BY <1>3, <1>4
<1>9. ASSUME NEW i \in 1..parser.index
      PROVE  /\ calls[i] = Written[i]
             /\ StartsWith(Written[i].args, calls[i].args)
  <2>1. calls[i] = Written[i]
    BY <1>3, <1>6, <1>7
  <2> DEFINE J == Jsons(answer)
             args == calls[i].args
  <2>2. i \in 1..Len(calls)
    BY <1>5, <1>6
  <2>3. args \in Seq(J) /\ <<>> \in Seq(J)
    <3> DEFINE C == [name : Symbols, args : Seq(J)]
    <3>1. calls \in Seq(C)
      BY <1>6
    <3> HIDE DEF C, calls
    <3>2. calls[i] \in C
      BY <2>2, <3>1, ElementOfSeq
    <3> QED BY <3>2, EmptySeq DEF C
  <2> HIDE DEF J, args
  <2>4. StartsWith(args \o <<>>, args) /\ args \o <<>> = args
    BY <2>3, Prefix, ConcatEmptySeq
  <2> QED BY <2>1, <2>4 DEF args
<1>10. ASSUME parser.header
       PROVE  /\ calls[k].name = Written[k].name
              /\ StartsWith(Written[k].args, calls[k].args)
  <2>1. Written[k] = WrittenCall(answer, o, g)
    BY <1>3, <1>7, <1>10
  <2>2. b \in Nat /\ total \in Nat
    <3>1. parser.index < N
      BY <1>4, <1>5, <1>10
    <3> QED BY <1>2, <3>1, AtCall
  <2> HIDE DEF b, total, o, g, calls, k
  <2>3. Written[k] = [name |-> answer[o + 2], args |-> Brace \o First(answer, b, total) \o EndBrace]
    BY <2>1 DEF WrittenCall, Pieces, First, b, total
  <2>4. StartsWith(Brace \o First(answer, b, total) \o EndBrace, Sent(answer, b, parser))
    <3> DEFINE s == parser
    <3>1. /\ s.params \in Nat /\ s.params <= total /\ (~s.json => s.params = 0)
          /\ (s.closed => s.json /\ s.params = total)
      BY <1>5, <1>10
    <3> HIDE DEF s
    <3>2. StartsWith(Brace \o First(answer, b, total) \o EndBrace, Sent(answer, b, s))
      BY <2>2, <3>1, SentBegins
    <3> QED BY <3>2 DEF s
  <2> QED BY <1>6, <1>10, <2>3, <2>4
<1>11. ASSUME NEW i \in DOMAIN calls
       PROVE  i \in 1..parser.index \/ (parser.header /\ i = k /\ i = Len(calls))
  BY <1>5, <1>6
<1>12. ASSUME NEW i \in DOMAIN calls
       PROVE  /\ calls[i].name = Written[i].name
              /\ StartsWith(Written[i].args, calls[i].args)
              /\ i < Len(calls) => calls[i] = Written[i] /\ Read(calls[i]) = Whole[i]
  <2> HIDE DEF k, calls
  <2>1. CASE i \in 1..parser.index
    <3>1. calls[i] = Written[i] /\ StartsWith(Written[i].args, calls[i].args)
      BY <1>9, <2>1
    <3>2. Read(Written[i]) = Whole[i]
      BY <1>3, <1>7, <2>1
    <3> QED BY <3>1, <3>2
  <2>2. CASE parser.header /\ i = k /\ i = Len(calls)
    <3>1. ~(i < Len(calls))
      <4>1. Len(calls) \in Nat
        BY <1>6
      <4> QED BY <2>2, <4>1
    <3> QED BY <1>10, <2>2, <3>1
  <2> QED BY <1>11, <2>1, <2>2
<1> QED BY <1>7, <1>8, <1>12 DEF CallsBegin

(* Whatever the answer and however it is cut into deltas, the calls the    *)
(* client was given are a beginning of the calls the answer writes: none   *)
(* is left out, repeated or mixed up, and no parameter is lost or given to *)
(* another.  Those that another call follows are read as what a plain      *)
(* request is given, repeated parameters included.                         *)
THEOREM CallsBeginAlways == Spec => []CallsBegin
<1>1. Init => IInv
  BY InitHolds
<1>2. IInv /\ [Next]_vars => IInv'
  BY NextHolds
<1>3. IInv => CallsBegin
  BY BeginHolds
<1> QED BY <1>1, <1>2, <1>3, PTL DEF Spec

-----------------------------------------------------------------------------
(* The content.                                                            *)

(* Where the text before the calls ends, as far as it was received. *)
Limit(a, p) == IF No(a, "<tool_call>", p) = 0 THEN p ELSE Opens(a, 1) - 1

(* The content is the text before the calls, and line breaks after it. *)
ContentOK(a, p, c) ==
  /\ c \in Seq(Symbols)
  /\ Limit(a, p) <= Len(c)
  /\ \A i \in 1..Limit(a, p) : c[i] = a[i]
  /\ \A i \in (Limit(a, p) + 1)..Len(c) : c[i] = "ws"
  /\ No(a, "<tool_call>", p) = 0 => Len(c) = p

(* The first call begins after what was received before it. *)
LEMMA LimitIs ==
  ASSUME NEW a \in Seq(Symbols), NEW st, Staged(a, st),
         NEW p \in 0..Len(a), NEW q \in 0..Len(a), p <= q
  PROVE  /\ Limit(a, p) \in Nat /\ Limit(a, q) \in Nat /\ Limit(a, p) <= p /\ Limit(a, q) <= q
         /\ Limit(a, p) <= Limit(a, q)
         /\ No(a, "<tool_call>", p) # 0 => Limit(a, q) = Limit(a, p) /\ No(a, "<tool_call>", q) # 0
         /\ No(a, "<tool_call>", p) = 0 => Limit(a, p) = p
         /\ No(a, "<tool_call>", q) = 0 => Limit(a, q) = q
<1> DEFINE o == Opens(a, 1)
<1>1. /\ No(a, "<tool_call>", p) \in Nat /\ No(a, "<tool_call>", q) \in Nat
      /\ No(a, "<tool_call>", p) <= No(a, "<tool_call>", Len(a))
      /\ No(a, "<tool_call>", q) <= No(a, "<tool_call>", Len(a))
      /\ No(a, "<tool_call>", Len(a)) \in Nat
  BY Counts
<1>2. p \in Nat /\ q \in Nat /\ No(a, "<tool_call>", p) <= No(a, "<tool_call>", q)
  <2>1. p \in Nat /\ q \in Nat
    OBVIOUS
  <2> QED BY <2>1, NoGrows
<1>3. ASSUME No(a, "<tool_call>", q) # 0
      PROVE  /\ o \in Nat \ {0} /\ o <= q
             /\ o <= p <=> No(a, "<tool_call>", p) # 0
  <2>1. 1 \in 1..No(a, "<tool_call>", Len(a))
    BY <1>1, <1>3
  <2>2. o \in Nat \ {0}
    <3>1. Call(a, st, 1, Begins(a, 1), Ends(a, 1))
      BY <2>1, CallOf
    <3> QED BY <3>1 DEF Call
  <2>3. /\ o <= p <=> 1 <= No(a, "<tool_call>", p)
        /\ o <= q <=> 1 <= No(a, "<tool_call>", q)
    BY <1>2, <2>1, CallAt
  <2> QED BY <1>1, <1>3, <2>2, <2>3
<1> HIDE DEF o
<1>4. No(a, "<tool_call>", p) # 0 => No(a, "<tool_call>", q) # 0
  BY <1>1, <1>2
<1>5. CASE No(a, "<tool_call>", q) = 0
  BY <1>1, <1>2, <1>4, <1>5 DEF Limit
<1>6. CASE No(a, "<tool_call>", q) # 0 /\ No(a, "<tool_call>", p) = 0
  BY <1>1, <1>2, <1>3, <1>6 DEF Limit, o
<1>7. CASE No(a, "<tool_call>", q) # 0 /\ No(a, "<tool_call>", p) # 0
  BY <1>1, <1>2, <1>3, <1>7 DEF Limit, o
<1> QED BY <1>4, <1>5, <1>6, <1>7

(* The content grows by what was received before the calls, then only by   *)
(* line breaks.                                                            *)
LEMMA Grown ==
  ASSUME NEW a \in Seq(Symbols), NEW st, Staged(a, st),
         NEW p \in 0..Len(a), NEW q \in 0..Len(a), p <= q,
         NEW c, ContentOK(a, p, c), NEW w \in Seq(Symbols),
         \/ /\ No(a, "<tool_call>", p) = 0
            /\ Len(w) = Limit(a, q) - p
            /\ \A i \in 1..Len(w) : w[i] = a[p + i]
         \/ /\ No(a, "<tool_call>", p) # 0
            /\ \A i \in 1..Len(w) : w[i] = "ws"
  PROVE  ContentOK(a, q, c \o w)
<1> DEFINE x == Limit(a, p)
           y == Limit(a, q)
           m == Len(c)
           n == Len(w)
           d == c \o w
<1>1. /\ x \in Nat /\ y \in Nat /\ x <= p /\ y <= q /\ x <= y /\ p \in Nat
      /\ No(a, "<tool_call>", p) # 0 => y = x /\ No(a, "<tool_call>", q) # 0
      /\ No(a, "<tool_call>", p) = 0 => x = p
      /\ No(a, "<tool_call>", q) = 0 => y = q
  BY LimitIs
<1>2. /\ c \in Seq(Symbols) /\ m \in Nat /\ n \in Nat /\ x <= m
      /\ \A i \in 1..x : c[i] = a[i]
      /\ \A i \in (x + 1)..m : c[i] = "ws"
      /\ No(a, "<tool_call>", p) = 0 => m = p
  BY DEF ContentOK
<1>3. /\ d \in Seq(Symbols) /\ Len(d) = m + n
      /\ \A i \in 1..(m + n) : d[i] = IF i <= m THEN c[i] ELSE w[i - m]
  BY <1>2, ConcatProperties
<1> HIDE DEF x, y, d
<1> SUFFICES ContentOK(a, q, d)
  BY DEF d
<1>4. CASE No(a, "<tool_call>", p) = 0
  <2>1. n = y - p /\ \A i \in 1..n : w[i] = a[p + i]
    BY <1>4 DEF y
  <2> HIDE DEF m, n
  <2>2. m = p /\ x = p /\ m + n = y
    BY <1>1, <1>2, <1>4, <2>1
  <2>3. ASSUME NEW i \in 1..y PROVE d[i] = a[i]
    <3>1. CASE i <= m
      <4>1. i \in 1..x /\ i \in 1..(m + n)
        BY <1>1, <2>2, <3>1
      <4> QED BY <1>2, <1>3, <3>1, <4>1
    <3>2. CASE ~(i <= m)
      <4>1. i - m \in 1..n /\ p + (i - m) = i /\ i \in 1..(m + n)
        BY <1>1, <1>2, <2>1, <2>2, <3>2
      <4> QED BY <1>3, <2>1, <3>2, <4>1
    <3> QED BY <3>1, <3>2
  <2>4. \A i \in (y + 1)..Len(d) : FALSE
    BY <1>1, <1>3, <2>2
  <2>5. y <= Len(d) /\ (No(a, "<tool_call>", q) = 0 => Len(d) = q)
    BY <1>1, <1>3, <2>2
  <2>6. \A i \in (y + 1)..Len(d) : d[i] = "ws"
    BY <2>4
  <2> QED BY <1>3, <2>3, <2>5, <2>6 DEF ContentOK, y
<1>5. CASE No(a, "<tool_call>", p) # 0
  <2>1. y = x /\ No(a, "<tool_call>", q) # 0 /\ \A i \in 1..n : w[i] = "ws"
    BY <1>1, <1>5
  <2> HIDE DEF m, n
  <2>2. ASSUME NEW i \in 1..x PROVE d[i] = a[i]
    <3>1. i <= m /\ i \in 1..(m + n)
      BY <1>1, <1>2
    <3> QED BY <1>2, <1>3, <3>1
  <2>3. ASSUME NEW i \in (x + 1)..(m + n) PROVE d[i] = "ws"
    <3>1. CASE i <= m
      <4>1. i \in (x + 1)..m /\ i \in 1..(m + n)
        BY <1>1, <1>2, <3>1
      <4> QED BY <1>2, <1>3, <3>1, <4>1
    <3>2. CASE ~(i <= m)
      <4>1. i - m \in 1..n /\ i \in 1..(m + n)
        BY <1>1, <1>2, <3>2
      <4> QED BY <1>3, <2>1, <3>2, <4>1
    <3> QED BY <3>1, <3>2
  <2>4. x <= m + n
    BY <1>1, <1>2
  <2>5. y <= Len(d) /\ No(a, "<tool_call>", q) # 0
    BY <1>3, <2>1, <2>4
  <2>6. \A i \in (y + 1)..Len(d) : d[i] = "ws"
    BY <1>3, <2>1, <2>3
  <2>7. \A i \in 1..y : d[i] = a[i]
    BY <2>1, <2>2
  <2> QED BY <1>3, <2>5, <2>6, <2>7 DEF ContentOK, y
<1> QED BY <1>4, <1>5

(* Between two calls there are only line breaks. *)
LEMMA BetweenCalls ==
  ASSUME NEW a \in Seq(Symbols), NEW st, Staged(a, st),
         NEW p \in 0..Len(a), st[p] = "after",
         NEW q \in 0..Len(a), \A i \in (p + 1)..q : a[i] # "<tool_call>"
  PROVE  \A i \in (p + 1)..q : a[i] = "ws"
<1> DEFINE S == {n \in Nat : p + n <= q => st[p + n] = "after" /\ (n > 0 => a[p + n] = "ws")}
<1>0. p \in Nat /\ q \in Nat /\ Len(a) \in Nat /\ q <= Len(a)
  OBVIOUS
<1>1. 0 \in S
  BY <1>0
<1>2. ASSUME NEW n \in Nat, n \in S PROVE n + 1 \in S
  <2> SUFFICES ASSUME p + (n + 1) <= q
               PROVE  st[p + (n + 1)] = "after" /\ a[p + (n + 1)] = "ws"
    OBVIOUS
  <2> DEFINE i == p + n
             j == p + (n + 1)
  <2>1. i \in Nat /\ j = i + 1 /\ j \in 1..Len(a) /\ j \in (p + 1)..q /\ i <= q
    BY <1>0
  <2>2. st[i] = "after"
    BY <1>2, <2>1
  <2> HIDE DEF i, j
  <2>3. a[j] # "<tool_call>"
    BY <2>1
  <2>4. st[j] = "after" /\ a[j] = "ws"
    BY <2>1, <2>2, <2>3, StageNext
  <2> QED BY <2>4 DEF j
<1>3. \A n \in Nat : n \in S
  <2> HIDE DEF S
  <2> QED BY <1>1, <1>2, Induct
<1>4. ASSUME NEW i \in (p + 1)..q PROVE a[i] = "ws"
  <2>1. i - p \in Nat /\ p + (i - p) = i /\ i - p > 0 /\ i <= q
    BY <1>0
  <2>2. i - p \in S
    BY <1>3, <2>1
  <2> QED BY <2>1, <2>2
<1> QED BY <1>4

(* The parser waits for a call after the calls before it are over.         *)
LEMMA Waiting ==
  ASSUME IInv, ~parser.started, No(answer, "<tool_call>", pos) # 0, NEW st, Staged(answer, st)
  PROVE  st[pos] = "after"
<1>1. answer \in Seq(Symbols) /\ pos \in 0..Len(answer) /\ ParserOK(answer, pos, parser)
  BY DEF IInv
<1>2. /\ parser.index <= No(answer, "</tool_call>", pos)
      /\ parser.index = No(answer, "<tool_call>", pos)
  BY <1>1 DEF ParserOK
<1>3. /\ No(answer, "<tool_call>", pos) \in Nat /\ No(answer, "</tool_call>", pos) \in Nat
      /\ No(answer, "</tool_call>", pos) <= No(answer, "<tool_call>", pos)
  BY <1>1, Counts
<1>4. /\ No(answer, "</tool_call>", pos) = No(answer, "<tool_call>", pos)
  BY <1>2, <1>3
<1>5. st[pos] \in Stages /\ Level(answer, st, pos)
  BY <1>1, Levels DEF Staged
<1>6. No(answer, "<function=", pos) \in Nat /\ No(answer, "</function>", pos) \in Nat
  <2>1. pos \in Nat
    BY <1>1
  <2> QED BY ONLY <2>1, NoStep
<1> QED BY <1>3, <1>4, <1>5, <1>6 DEF Level, Stages

(* Before the first call no call is over.                                  *)
LEMMA NoClosing ==
  ASSUME NEW a \in Seq(Symbols), NEW st, Staged(a, st),
         NEW p \in 0..Len(a), No(a, "<tool_call>", p) = 0
  PROVE  \A i \in 1..p : a[i] # "</tool_call>"
<1>1. /\ No(a, "<tool_call>", p) \in Nat /\ No(a, "</tool_call>", p) \in Nat
      /\ No(a, "</tool_call>", p) <= No(a, "<tool_call>", p) /\ p \in Nat
  BY Counts
<1>2. ASSUME NEW i \in 1..p, a[i] = "</tool_call>" PROVE FALSE
  <2>1. i \in Nat \ {0} /\ i <= p
    BY <1>1
  <2>2. No(a, "</tool_call>", i) <= No(a, "</tool_call>", p)
    BY <1>1, <2>1, NoGrows
  <2>3. /\ No(a, "</tool_call>", i) \in Nat /\ No(a, "</tool_call>", i - 1) \in Nat
        /\ No(a, "</tool_call>", i) = No(a, "</tool_call>", i - 1) + 1
    BY <1>2, <2>1, NoPrevious
  <2> QED BY <1>1, <2>2, <2>3
<1> QED BY <1>2

(* A finite set of numbers has a greatest one.                             *)
LEMMA MaxIn ==
  ASSUME NEW n \in Nat, NEW S \in SUBSET (0..n), S # {}
  PROVE  Max(S) \in S
<1> DEFINE T == {n - x : x \in S}
<1>1. PICK x \in S : TRUE
  OBVIOUS
<1>2. n - x \in Nat /\ n - x \in T
  OBVIOUS
<1>3. PICK m \in Nat : m \in T /\ \A k \in Nat : k \in T => m <= k
  <2> HIDE DEF T
  <2> QED BY <1>2, Least
<1>4. PICK y \in S : m = n - y
  BY <1>3
<1>5. \A z \in S : y >= z
  <2> TAKE z \in S
  <2>1. n - z \in Nat /\ n - z \in T
    OBVIOUS
  <2> QED BY <1>3, <1>4, <2>1
<1> QED BY <1>4, <1>5 DEF Max

(* A text without the end tag does not end with it. *)
LEMMA NoSuchEnd ==
  ASSUME NEW t \in Seq(Symbols), NEW s \in Symbols, \A i \in 1..Len(t) : t[i] # s
  PROVE  ~EndsWith(RStrip(t), <<s>>)
<1> DEFINE r == RStrip(t)
<1>1. r \in Seq(Symbols) /\ \A i \in 1..Len(r) : r[i] # s
  <2>1. CASE Blank(t)
    <3>1. r = <<>>
      BY <2>1 DEF RStrip
    <3> QED BY <3>1, EmptySeq
  <2>2. CASE ~Blank(t)
    <3> DEFINE h == Max(Printed(t))
               n == Len(t)
    <3>0. n \in Nat /\ DOMAIN t = 1..n
      OBVIOUS
    <3>1. Printed(t) \in SUBSET (0..n) /\ Printed(t) # {}
      BY <2>2, <3>0 DEF Printed, Blank
    <3> HIDE DEF n
    <3>2. h \in Printed(t)
      BY <3>0, <3>1, MaxIn
    <3>3. h \in 1..n
      BY <3>0, <3>2 DEF Printed
    <3>4. r = SubSeq(t, 1, h)
      BY <2>2 DEF RStrip, Upto
    <3> HIDE DEF h, r
    <3>5. /\ r \in Seq(Symbols) /\ Len(r) = h - 1 + 1
          /\ \A i \in 1..(h - 1 + 1) : r[i] = t[1 + i - 1]
      <4>1. 1 \in Nat \ {0} /\ h \in Nat /\ h <= Len(t) /\ 1 <= h + 1
        BY <3>0, <3>3 DEF n
      <4> QED BY <3>4, <4>1, Window
    <3>6. \A i \in 1..Len(r) : i \in 1..(h - 1 + 1) /\ 1 + i - 1 = i /\ i \in 1..Len(t)
      BY <3>0, <3>3, <3>5 DEF n
    <3> QED BY <3>5, <3>6
  <2> QED BY <2>1, <2>2
<1> HIDE DEF r
<1>2. SUFFICES ASSUME EndsWith(r, <<s>>) PROVE FALSE
  BY DEF r
<1> DEFINE n == Len(r)
           e == <<s>>
<1>3. Len(e) = 1 /\ e[1] = s /\ n \in Nat
  BY <1>1, One
<1>4. n \in Nat \ {0} /\ SubSeq(r, n, n) = e
  <2>1. n - 1 + 1 = n
    BY <1>3
  <2> HIDE DEF e
  <2>2. 1 <= n /\ From(r, n - 1 + 1) = e
    BY <1>2, <1>3 DEF EndsWith, e
  <2> HIDE DEF n
  <2> QED BY <1>3, <2>1, <2>2 DEF From, n
<1> HIDE DEF e, n
<1>5. SubSeq(r, n, n)[1] = r[n]
  <2>1. n <= Len(r) /\ n <= n + 1 /\ n - n + 1 = 1 /\ n + 1 - 1 = n /\ n \in Nat
    BY <1>3, <1>4 DEF n
  <2>2. \A i \in 1..(n - n + 1) : SubSeq(r, n, n)[i] = r[n + i - 1]
    BY <1>1, <1>4, <2>1, Window
  <2>3. 1 \in 1..1
    OBVIOUS
  <2> QED BY <2>1, <2>2, <2>3
<1>6. n \in 1..Len(r)
  BY <1>4 DEF n
<1> QED BY <1>1, <1>3, <1>4, <1>5, <1>6

(* What is sent of a delta in which a call begins. *)
LEMMA BeforeIs ==
  ASSUME NEW a \in Seq(Symbols), NEW p \in 0..Len(a), NEW n \in Nat, p + n <= Len(a),
         Has(SubSeq(a, p + 1, p + n), <<"<tool_call>">>)
  PROVE  LET w == Before(SubSeq(a, p + 1, p + n), <<"<tool_call>">>) IN
         \E f \in (p + 1)..(p + n) :
           /\ a[f] = "<tool_call>" /\ \A i \in (p + 1)..(f - 1) : a[i] # "<tool_call>"
           /\ w \in Seq(Symbols) /\ Len(w) = f - 1 - p
           /\ \A i \in 1..Len(w) : w[i] = a[p + i]
<1> DEFINE tag == "<tool_call>"
           delta == SubSeq(a, p + 1, p + n)
           S == {i \in Nat : i \in 1..n /\ delta[i] = tag}
<1>0. tag \in Symbols /\ p \in Nat
  BY TagsAre DEF Symbols
<1>1. delta \in Seq(Symbols) /\ Len(delta) = n /\ \A i \in 1..n : delta[i] = a[p + i]
  BY DeltaText
<1> HIDE DEF delta
<1>2. \E i \in 1..n : delta[i] = tag
  BY <1>0, <1>1, HasOne, ZenonT(60) DEF delta
<1>3. PICK m \in Nat : m \in S /\ \A k \in Nat : k \in S => m <= k
  <2>1. \E i \in Nat : i \in S
    BY <1>2
  <2> HIDE DEF S
  <2> QED BY <2>1, Least
<1>4. m \in 1..n /\ delta[m] = tag /\ \A j \in 1..(m - 1) : delta[j] # tag
  <2>1. ASSUME NEW j \in 1..(m - 1), delta[j] = tag PROVE FALSE
    <3>1. m \in 1..n
      BY <1>3
    <3>2. j \in Nat /\ j \in 1..n /\ ~(m <= j)
      BY <3>1
    <3>3. j \in S
      BY <2>1, <3>2
    <3> QED BY <1>3, <3>2, <3>3
  <2> QED BY <1>3, <2>1
<1> HIDE DEF tag, S
<1>5. Find(delta, <<tag>>, 1) = m
  <2> DEFINE from == 1
  <2>1. from \in Nat \ {0} /\ m \in from..Len(delta)
    BY <1>1, <1>4
  <2>2. \A j \in from..(m - 1) : delta[j] # tag
    BY <1>4
  <2> HIDE DEF from
  <2>3. Find(delta, <<tag>>, from) = m
    BY <1>0, <1>1, <1>4, <2>1, <2>2, FindOne
  <2> QED BY <2>3 DEF from
<1> DEFINE w == SubSeq(delta, 1, m - 1)
           f == p + m
<1>6. Before(delta, <<tag>>) = w
  BY <1>5 DEF Before, Upto
<1>7. w \in Seq(Symbols) /\ Len(w) = m - 1 /\ \A i \in 1..(m - 1) : w[i] = delta[i]
  <2> DEFINE h == m - 1
  <2>1. 1 \in Nat \ {0} /\ h \in Nat /\ h <= Len(delta) /\ 1 <= h + 1 /\ h - 1 + 1 = h
        /\ \A i \in 1..h : 1 + i - 1 = i
    BY <1>1, <1>4
  <2> HIDE DEF h
  <2>2. /\ SubSeq(delta, 1, h) \in Seq(Symbols) /\ Len(SubSeq(delta, 1, h)) = h - 1 + 1
        /\ \A i \in 1..(h - 1 + 1) : SubSeq(delta, 1, h)[i] = delta[1 + i - 1]
    BY <1>1, <2>1, Window
  <2>3. /\ SubSeq(delta, 1, h) \in Seq(Symbols) /\ Len(SubSeq(delta, 1, h)) = h
        /\ \A i \in 1..h : SubSeq(delta, 1, h)[i] = delta[i]
    BY <2>1, <2>2
  <2> QED BY <2>3 DEF h
<1> HIDE DEF w
<1>8. f \in (p + 1)..(p + n) /\ f - 1 - p = m - 1
  BY <1>0, <1>4
<1>9. a[f] = tag /\ \A i \in (p + 1)..(f - 1) : a[i] # tag
  <2>1. a[f] = tag
    BY <1>1, <1>4
  <2>2. ASSUME NEW i \in (p + 1)..(f - 1) PROVE a[i] # tag
    <3>1. i - p \in 1..(m - 1) /\ i - p \in 1..n /\ p + (i - p) = i
      BY <1>0, <1>4
    <3>2. delta[i - p] = a[p + (i - p)]
      BY <1>1, <3>1
    <3> QED BY <1>4, <3>1, <3>2
  <2> QED BY <2>1, <2>2
<1>10. \A i \in 1..Len(w) : w[i] = a[p + i]
  <2> TAKE i \in 1..Len(w)
  <2>1. i \in 1..(m - 1) /\ i \in 1..n
    BY <1>4, <1>7
  <2> QED BY <1>1, <1>7, <2>1
<1> HIDE DEF f
<1> QED BY <1>6, <1>7, <1>8, <1>9, <1>10 DEF tag, delta

(* Of a delta in which a call begins the text before it is sent.           *)
LEMMA CallBeginsContent ==
  ASSUME IInv, ContentOK(answer, pos, client.content), NEW n \in Nat, pos + n <= Len(answer),
         CallBegins(SubSeq(answer, pos + 1, pos + n), Upto(answer, pos + n))
  PROVE  ContentOK(answer, pos + n, client'.content)
<1> DEFINE q == pos + n
           delta == SubSeq(answer, pos + 1, q)
           w == Before(delta, <<"<tool_call>">>)
<1>1. /\ ~parser.started /\ Has(delta, <<"<tool_call>">>)
      /\ client' = [client EXCEPT !.content = @ \o w]
  BY DEF CallBegins, Outside, SendContent
<1>2. /\ answer \in Seq(Symbols) /\ pos \in 0..Len(answer) /\ pos \in Nat /\ q \in 0..Len(answer)
      /\ q \in Nat /\ pos <= q /\ client = [content |-> client.content, calls |-> client.calls]
  BY DEF IInv, ClientOK
<1>3. PICK f \in (pos + 1)..q :
        /\ answer[f] = "<tool_call>" /\ \A i \in (pos + 1)..(f - 1) : answer[i] # "<tool_call>"
        /\ w \in Seq(Symbols) /\ Len(w) = f - 1 - pos
        /\ \A i \in 1..Len(w) : w[i] = answer[pos + i]
  <2>1. /\ answer \in Seq(Symbols) /\ pos \in 0..Len(answer) /\ n \in Nat
        /\ pos + n <= Len(answer) /\ Has(SubSeq(answer, pos + 1, pos + n), <<"<tool_call>">>)
    BY <1>1, <1>2
  <2> QED BY ONLY <2>1, BeforeIs, ZenonT(60)
<1>4. PICK st : Staged(answer, st)
  BY Setting
<1>5. client'.content = client.content \o w
  BY <1>1, <1>2
<1> HIDE DEF q, w
<1>6. CASE No(answer, "<tool_call>", pos) = 0
  <2>1. /\ f \in Nat \ {0} /\ f - 1 \in Nat /\ pos <= f - 1 /\ f <= q /\ f - 1 + 1 = f
        /\ f \in 0..Len(answer)
    BY <1>2, <1>3, SMTT(30)
  <2>2. No(answer, "<tool_call>", f) = 1
    <3>1. No(answer, "<tool_call>", f - 1) = 0
      <4> DEFINE e == f - 1
      <4>1. e \in Nat /\ pos <= e /\ \A i \in (pos + 1)..e : answer[i] # "<tool_call>"
        BY <1>3, <2>1
      <4> HIDE DEF e
      <4>2. No(answer, "<tool_call>", pos) = No(answer, "<tool_call>", e)
        BY <1>2, <4>1, NoSame
      <4> QED BY <1>6, <4>2 DEF e
    <3>2. No(answer, "<tool_call>", f) = No(answer, "<tool_call>", f - 1) + 1
      BY <1>3, <2>1, NoPrevious
    <3> QED BY <3>1, <3>2
  <2>3. /\ No(answer, "<tool_call>", f) <= No(answer, "<tool_call>", q)
        /\ No(answer, "<tool_call>", f) <= No(answer, "<tool_call>", Len(answer))
        /\ No(answer, "<tool_call>", q) \in Nat /\ No(answer, "<tool_call>", Len(answer)) \in Nat
    <3>1. f \in Nat
      BY <2>1
    <3>2. No(answer, "<tool_call>", f) <= No(answer, "<tool_call>", q)
      BY <1>2, <2>1, NoGrows
    <3> QED BY <1>2, <1>4, <2>1, <3>2, Counts
  <2>4. Opens(answer, 1) = f
    <3> DEFINE o == Opens(answer, 1)
    <3>1. 1 \in 1..No(answer, "<tool_call>", Len(answer))
      BY <2>2, <2>3
    <3>2. Call(answer, st, 1, Begins(answer, 1), Ends(answer, 1))
      BY <1>2, <1>4, <3>1, CallOf
    <3>3. o \in Nat \ {0} /\ answer[o] = "<tool_call>" /\ No(answer, "<tool_call>", o) = 1
      BY <3>2 DEF Call
    <3> HIDE DEF o
    <3>4. o = f
      BY <1>3, <2>1, <2>2, <3>3, NoUnique
    <3> QED BY <3>4 DEF o
  <2>5. Limit(answer, q) = f - 1
    BY <2>2, <2>3, <2>4 DEF Limit
  <2>6. Len(w) = Limit(answer, q) - pos
    BY <1>3, <2>5
  <2>7. ContentOK(answer, q, client.content \o w)
    BY <1>2, <1>3, <1>4, <1>6, <2>6, Grown
  <2> QED BY <1>5, <2>7 DEF q
<1>7. CASE No(answer, "<tool_call>", pos) # 0
  <2>1. st[pos] = "after"
    BY <1>1, <1>4, <1>7, Waiting
  <2> DEFINE e == f - 1
  <2>2. e \in 0..Len(answer) /\ \A i \in (pos + 1)..e : answer[i] # "<tool_call>"
    BY <1>2, <1>3
  <2>3. \A i \in 1..Len(w) : pos + i \in (pos + 1)..e
    BY <1>2, <1>3, SMTT(30)
  <2> HIDE DEF e
  <2>4. \A i \in (pos + 1)..e : answer[i] = "ws"
    BY <1>2, <1>4, <2>1, <2>2, BetweenCalls
  <2>5. \A i \in 1..Len(w) : w[i] = "ws"
    BY <1>3, <2>3, <2>4
  <2>6. ContentOK(answer, q, client.content \o w)
    BY <1>2, <1>3, <1>4, <1>7, <2>5, Grown
  <2> QED BY <1>5, <2>6 DEF q
<1> QED BY <1>6, <1>7

(* The content stays as it is once a call began. *)
LEMMA SameContent ==
  ASSUME IInv, ContentOK(answer, pos, client.content), NEW n \in Nat, pos + n <= Len(answer),
         client'.content = client.content, No(answer, "<tool_call>", pos) # 0 \/ n = 0
  PROVE  ContentOK(answer, pos + n, client'.content)
<1> DEFINE q == pos + n
           c == client.content
<1>1. /\ answer \in Seq(Symbols) /\ pos \in 0..Len(answer) /\ pos \in Nat /\ q \in 0..Len(answer)
      /\ pos <= q
  BY DEF IInv
<1>2. PICK st : Staged(answer, st)
  BY Setting
<1>3. c \in Seq(Symbols) /\ c \o <<>> = c
  <2>1. c \in Seq(Symbols)
    BY DEF ContentOK
  <2> HIDE DEF c
  <2> QED BY <2>1, ConcatEmptySeq
<1>4. CASE n = 0
  BY <1>1, <1>4
<1>5. CASE No(answer, "<tool_call>", pos) # 0
  <2> DEFINE w == <<>>
  <2>1. w \in Seq(Symbols) /\ \A i \in 1..Len(w) : w[i] = "ws"
    BY EmptySeq
  <2> HIDE DEF w, q, c
  <2>2. ContentOK(answer, q, c \o w)
    BY <1>1, <1>2, <1>5, <2>1, Grown DEF c
  <2> QED BY <1>3, <2>2 DEF c, q, w
<1> QED BY <1>4, <1>5

(* Text outside calls is sent, but line breaks after a call may not be;    *)
(* before the first call nothing ends with an end tag, and all is sent.    *)
LEMMA PlainTextContent ==
  ASSUME IInv, ContentOK(answer, pos, client.content), NEW n \in Nat, pos + n <= Len(answer),
         PlainText(SubSeq(answer, pos + 1, pos + n), Upto(answer, pos + n))
  PROVE  ContentOK(answer, pos + n, client'.content)
<1> DEFINE q == pos + n
           delta == SubSeq(answer, pos + 1, q)
           text == Upto(answer, q)
<1>1. /\ ~parser.started /\ ~Has(delta, <<"<tool_call>">>)
      /\ \/ EndsWith(RStrip(text), <<"</tool_call>">>) /\ client' = client
         \/ client' = [client EXCEPT !.content = @ \o delta]
  BY DEF PlainText, Outside, SendContent
<1>2. /\ answer \in Seq(Symbols) /\ pos \in 0..Len(answer) /\ pos \in Nat /\ q \in 0..Len(answer)
      /\ q \in Nat /\ pos <= q /\ q - pos = n
      /\ client = [content |-> client.content, calls |-> client.calls]
  BY DEF IInv, ClientOK
<1>3. PICK st : Staged(answer, st)
  BY Setting
<1>4. /\ delta \in Seq(Symbols) /\ Len(delta) = n /\ \A i \in 1..n : delta[i] = answer[pos + i]
      /\ No(answer, "<tool_call>", pos) = No(answer, "<tool_call>", q)
      /\ \A i \in (pos + 1)..q : answer[i] # "<tool_call>"
  <2>1. "<tool_call>" \in Symbols
    BY TagsAre DEF Symbols
  <2>2. delta \in Seq(Symbols) /\ Len(delta) = n /\ \A i \in 1..n : delta[i] = answer[pos + i]
    BY <1>2, DeltaText
  <2>3. /\ No(answer, "<tool_call>", pos) = No(answer, "<tool_call>", q)
        /\ \A i \in (pos + 1)..q : answer[i] # "<tool_call>"
    <3>1. /\ answer \in Seq(Symbols) /\ pos \in 0..Len(answer) /\ n \in Nat
          /\ pos + n <= Len(answer) /\ ~Has(SubSeq(answer, pos + 1, pos + n), <<"<tool_call>">>)
      BY <1>1, <1>2
    <3> QED BY ONLY <2>1, <3>1, DeltaWithout
  <2> QED BY <2>2, <2>3
<1>5. client'.content = client.content \o delta \/ client' = client
  BY <1>1, <1>2
<1> HIDE DEF q, delta
<1>6. CASE No(answer, "<tool_call>", pos) = 0
  <2>1. ~EndsWith(RStrip(text), <<"</tool_call>">>)
    <3>1. text \in Seq(Symbols) /\ Len(text) = q /\ \A i \in 1..q : text[i] = answer[i]
      BY <1>2, Received
    <3>2. \A i \in 1..q : answer[i] # "</tool_call>"
      BY <1>2, <1>3, <1>4, <1>6, NoClosing
    <3> HIDE DEF text
    <3>3. "</tool_call>" \in Symbols /\ \A i \in 1..Len(text) : text[i] # "</tool_call>"
      BY <3>1, <3>2, TagsAre DEF Symbols
    <3> QED BY <3>1, <3>3, NoSuchEnd
  <2>2. client'.content = client.content \o delta
    BY <1>1, <1>2, <2>1
  <2>3. Len(delta) = Limit(answer, q) - pos
    BY <1>2, <1>4, <1>6 DEF Limit
  <2>4. ContentOK(answer, q, client.content \o delta)
    BY <1>2, <1>3, <1>4, <1>6, <2>3, Grown
  <2> QED BY <2>2, <2>4 DEF q
<1>7. CASE No(answer, "<tool_call>", pos) # 0
  <2>1. CASE client' = client
    BY <1>7, <2>1, SameContent
  <2>2. CASE client'.content = client.content \o delta
    <3>1. st[pos] = "after"
      BY <1>1, <1>3, <1>7, Waiting
    <3>2. \A i \in (pos + 1)..q : answer[i] = "ws"
      BY <1>2, <1>3, <1>4, <3>1, BetweenCalls
    <3>3. \A i \in 1..n : pos + i \in (pos + 1)..q
      BY <1>2
    <3>4. \A i \in 1..Len(delta) : delta[i] = "ws"
      BY <1>4, <3>2, <3>3
    <3>5. ContentOK(answer, q, client.content \o delta)
      BY <1>2, <1>3, <1>4, <1>7, <3>4, Grown
    <3> QED BY <2>2, <3>5 DEF q
  <2> QED BY <1>5, <2>1, <2>2
<1> QED BY <1>6, <1>7

(* The branches inside a call send no content. *)
LEMMA InsideContent ==
  ASSUME IInv, NEW n \in Nat, pos + n <= Len(answer),
         LET delta == SubSeq(answer, pos + 1, pos + n)
             text == Upto(answer, pos + n)
         IN \/ NextCall(delta, text) \/ Header(delta, text) \/ OpenBrace(delta, text)
            \/ Params(delta, text) \/ CloseBrace(delta, text) \/ NothingYet(delta, text)
  PROVE  client'.content = client.content /\ No(answer, "<tool_call>", pos) # 0
<1>1. /\ ParserOK(answer, pos, parser) /\ answer \in Seq(Symbols) /\ pos \in 0..Len(answer)
      /\ client = [content |-> client.content, calls |-> client.calls]
  BY DEF IInv, ClientOK
<1>2. parser.started \/ parser.closed
  BY DEF NextCall, CallOver, Header, OpenBrace, Params, CloseBrace, NothingYet, InFunction, Inside
<1>3. parser.started /\ parser.index \in Nat /\ parser.index < No(answer, "<tool_call>", pos)
  BY <1>1, <1>2 DEF ParserOK
<1>4. No(answer, "<tool_call>", pos) # 0
  <2>1. pos \in Nat
    BY <1>1
  <2>2. No(answer, "<tool_call>", pos) \in Nat
    BY ONLY <2>1, NoStep, ZenonT(60)
  <2> QED BY <1>3, <2>2
<1>5. \/ client' = client
      \/ \E x : client' = [client EXCEPT !.calls = x]
  BY DEF NextCall, Header, OpenBrace, Params, CloseBrace, NothingYet, SendArgs
<1>6. client'.content = client.content
  BY <1>1, <1>5
<1> QED BY <1>4, <1>6

(* The inductive invariant, with the content.                              *)
CInv == IInv /\ ContentOK(answer, pos, client.content)

(* Every step keeps the invariant.                                         *)
LEMMA ContentHolds == CInv /\ [Next]_vars => CInv'
<1> SUFFICES ASSUME CInv, [Next]_vars PROVE CInv'
  OBVIOUS
<1>0. IInv /\ IInv' /\ ContentOK(answer, pos, client.content)
  BY NextHolds DEF CInv
<1>1. ASSUME NEW n \in 0..MaxDelta, Delta(n) PROVE ContentOK(answer, pos, client.content)'
  <2> DEFINE delta == SubSeq(answer, pos + 1, pos + n)
             text == Upto(answer, pos + n)
  <2>1. /\ n \in Nat /\ pos + n <= Len(answer) /\ pos' = pos + n /\ answer' = answer
        /\ Branches(delta, text)
    BY <1>1, CoderAssumption DEF Delta, CoderAssumption
  <2>2. answer \in Seq(Symbols) /\ pos \in 0..Len(answer)
    BY <1>0 DEF IInv
  <2>3. ContentOK(answer, pos + n, client'.content)
    <3>1. CASE CallBegins(delta, text)
      BY <1>0, <2>1, <3>1, CallBeginsContent
    <3>2. CASE PlainText(delta, text)
      BY <1>0, <2>1, <3>2, PlainTextContent
    <3>3. CASE NoText(delta, text)
      <4>1. n = 0 /\ client' = client
        BY <2>1, <2>2, <3>3, DeltaIs DEF NoText
      <4> QED BY <1>0, <2>1, <4>1, SameContent
    <3>4. CASE \/ NextCall(delta, text) \/ Header(delta, text) \/ OpenBrace(delta, text)
               \/ Params(delta, text) \/ CloseBrace(delta, text) \/ NothingYet(delta, text)
      <4>1. client'.content = client.content /\ No(answer, "<tool_call>", pos) # 0
        BY <1>0, <2>1, <3>4, InsideContent
      <4> QED BY <1>0, <2>1, <4>1, SameContent
    <3> QED BY <2>1, <3>1, <3>2, <3>3, <3>4 DEF Branches
  <2> QED BY <2>1, <2>3
<1>2. CASE Finalize
  BY <1>0, <1>2 DEF Finalize, CInv
<1>3. CASE UNCHANGED vars
  BY <1>0, <1>3 DEF vars, CInv
<1> QED BY <1>0, <1>1, <1>2, <1>3 DEF Next, CInv

(* A symbol that was not counted stands nowhere.                           *)
LEMMA NoNone ==
  ASSUME NEW text, NEW s, NEW p \in Nat, No(text, s, p) = 0
  PROVE  \A i \in 1..p : text[i] # s
<1>1. ASSUME NEW i \in 1..p, text[i] = s PROVE FALSE
  <2>1. i \in Nat \ {0} /\ i \in Nat /\ i <= p
    OBVIOUS
  <2>2. No(text, s, i) <= No(text, s, p)
    BY <2>1, NoGrows
  <2>3. /\ No(text, s, i) \in Nat /\ No(text, s, i - 1) \in Nat
        /\ No(text, s, i) = No(text, s, i - 1) + 1
    BY <1>1, <2>1, NoPrevious
  <2> QED BY <2>2, <2>3
<1> QED BY <1>1

(* A sequence begins another when it agrees with it.                       *)
LEMMA Starts ==
  ASSUME NEW X, NEW s \in Seq(X), NEW t \in Seq(X), Len(s) <= Len(t),
         \A i \in 1..Len(s) : t[i] = s[i]
  PROVE  StartsWith(t, s)
<1> DEFINE n == Len(s)
<1>1. n \in Nat /\ n <= Len(t) /\ 1 \in Nat \ {0} /\ 1 <= n + 1 /\ n - 1 + 1 = n
  OBVIOUS
<1>2. \A i \in 1..n : 1 + i - 1 = i /\ t[i] = s[i]
  OBVIOUS
<1> HIDE DEF n
<1>3. /\ SubSeq(t, 1, n) \in Seq(X) /\ Len(SubSeq(t, 1, n)) = n - 1 + 1
      /\ \A i \in 1..(n - 1 + 1) : SubSeq(t, 1, n)[i] = t[1 + i - 1]
  BY <1>1, Window
<1>4. /\ Len(SubSeq(t, 1, n)) = Len(s)
      /\ \A i \in 1..Len(s) : SubSeq(t, 1, n)[i] = s[i]
  BY <1>1, <1>2, <1>3 DEF n
<1>5. SubSeq(t, 1, n) = s
  BY <1>3, <1>4, SeqEqual
<1> QED BY <1>1, <1>5 DEF StartsWith, Upto, n

(* The invariant says what the property says.                              *)
LEMMA ContentBeginHolds == CInv => ContentBegins
<1> SUFFICES ASSUME CInv PROVE ContentBegins
  OBVIOUS
<1> DEFINE c == client.content
           n == Find(answer, <<"<tool_call>">>, 1)
           before == IF n = 0 THEN answer ELSE Upto(answer, n - 1)
           o == Opens(answer, 1)
<1>1. /\ answer \in Seq(Symbols) /\ WellFormed(answer) /\ pos \in 0..Len(answer) /\ pos \in Nat
      /\ Len(answer) \in Nat /\ Len(answer) \in 0..Len(answer) /\ pos <= Len(answer)
  BY DEF CInv, IInv
<1>2. PICK st : Staged(answer, st)
  BY <1>1, StagesOf
<1>3. /\ c \in Seq(Symbols) /\ Limit(answer, pos) <= Len(c)
      /\ \A i \in 1..Limit(answer, pos) : c[i] = answer[i]
      /\ \A i \in (Limit(answer, pos) + 1)..Len(c) : c[i] = "ws"
      /\ No(answer, "<tool_call>", pos) = 0 => Len(c) = pos
  BY DEF CInv, ContentOK
<1>4. /\ No(answer, "<tool_call>", pos) \in Nat
      /\ No(answer, "<tool_call>", pos) <= No(answer, "<tool_call>", Len(answer))
      /\ No(answer, "<tool_call>", Len(answer)) \in Nat
  BY <1>1, <1>2, Counts
<1>0. "<tool_call>" \in Symbols
  BY TagsAre DEF Symbols
<1> HIDE DEF c
<1>5. CASE No(answer, "<tool_call>", Len(answer)) = 0
  <2>1. \A i \in 1..Len(answer) : answer[i] # "<tool_call>"
    BY <1>1, <1>5, NoNone
  <2>2. n = 0
    BY <1>0, <1>1, <2>1, FindOne
  <2>3. No(answer, "<tool_call>", pos) = 0
    BY <1>4, <1>5
  <2>4. Len(c) = pos /\ \A i \in 1..Len(c) : answer[i] = c[i]
    BY <1>3, <2>3 DEF Limit
  <2>5. StartsWith(answer, c)
    BY <1>1, <1>3, <2>4, Starts
  <2> QED BY <2>2, <2>5 DEF ContentBegins, c
<1>6. CASE No(answer, "<tool_call>", Len(answer)) # 0
  <2>1. 1 \in 1..No(answer, "<tool_call>", Len(answer))
    BY <1>4, <1>6
  <2>2. o \in Nat \ {0} /\ o \in 1..Len(answer) /\ answer[o] = "<tool_call>"
        /\ No(answer, "<tool_call>", o) = 1
    <3> DEFINE b == Begins(answer, 1)
               g == Ends(answer, 1)
               z == Closes(answer, 1)
    <3>1. Call(answer, st, 1, b, g)
      BY <1>1, <1>2, <2>1, CallOf
    <3> HIDE DEF b, g, z
    <3>2. /\ o \in Nat \ {0} /\ b \in Nat /\ o <= b /\ g \in Nat /\ b + 4 <= g
          /\ z \in Nat /\ g + 1 <= z /\ z <= Len(answer)
          /\ answer[o] = "<tool_call>" /\ No(answer, "<tool_call>", o) = 1
      BY <3>1 DEF Call, z
    <3> HIDE DEF o
    <3> QED BY <1>1, <3>2
  <2>3. o <= pos <=> No(answer, "<tool_call>", pos) # 0
    <3>1. o <= pos <=> 1 <= No(answer, "<tool_call>", pos)
      BY <1>1, <1>2, <2>1, CallAt
    <3> QED BY <1>4, <3>1
  <2> HIDE DEF o
  <2>4. \A j \in 1..(o - 1) : answer[j] # "<tool_call>"
    <3> DEFINE e == o - 1
    <3>1. e \in Nat /\ No(answer, "<tool_call>", e) = 0
      <4>1. /\ No(answer, "<tool_call>", o - 1) \in Nat
            /\ No(answer, "<tool_call>", o) = No(answer, "<tool_call>", o - 1) + 1
        BY <2>2, NoPrevious
      <4> QED BY <2>2, <4>1
    <3> HIDE DEF e
    <3>2. \A j \in 1..e : answer[j] # "<tool_call>"
      BY <3>1, NoNone
    <3> QED BY <3>2 DEF e
  <2>5. n = o
    <3> DEFINE from == 1
    <3>1. /\ from \in Nat \ {0} /\ o \in from..Len(answer)
          /\ \A j \in from..(o - 1) : answer[j] # "<tool_call>"
      BY <2>2, <2>4
    <3> HIDE DEF from
    <3>2. Find(answer, <<"<tool_call>">>, from) = o
      BY <1>0, <1>1, <2>2, <3>1, FindOne
    <3> QED BY <3>2 DEF from
  <2> DEFINE e == o - 1
             b == Upto(answer, e)
  <2>6. e \in 0..Len(answer) /\ e \in Nat
    BY <1>1, <2>2
  <2>7. before = b
    BY <2>2, <2>5
  <2> HIDE DEF e, b
  <2>8. b \in Seq(Symbols) /\ Len(b) = e /\ \A i \in 1..e : b[i] = answer[i]
    BY <1>1, <2>6, Received DEF b
  <2>9. CASE No(answer, "<tool_call>", pos) = 0
    <3>1. Limit(answer, pos) = pos /\ Len(c) = pos /\ pos <= e
      <4>1. pos <= e
        BY <1>1, <2>2, <2>3, <2>9 DEF e
      <4> QED BY <1>3, <2>9, <4>1 DEF Limit
    <3>2. \A i \in 1..Len(c) : i \in 1..e /\ b[i] = c[i]
      BY <1>1, <1>3, <2>6, <2>8, <3>1
    <3>3. StartsWith(b, c)
      BY <1>3, <2>8, <3>1, <3>2, Starts
    <3> QED BY <2>7, <3>3 DEF ContentBegins, c
  <2>10. CASE No(answer, "<tool_call>", pos) # 0
    <3>1. Limit(answer, pos) = e
      BY <2>10 DEF Limit, e, o
    <3>2. Len(b) <= Len(c) /\ \A i \in 1..Len(b) : c[i] = b[i]
      BY <1>3, <2>8, <3>1
    <3>3. StartsWith(c, b)
      BY <1>3, <2>8, <3>2, Starts
    <3> DEFINE l == e + 1
               m == Len(c)
               rest == SubSeq(c, l, m)
    <3>4. Blank(rest)
      <4>1. l \in Nat \ {0} /\ m \in Nat /\ m <= Len(c) /\ l <= m + 1
        BY <1>3, <2>6, <3>1
      <4>2. \A i \in l..m : c[i] = "ws"
        BY <1>3, <3>1
      <4> HIDE DEF l, m
      <4>3. /\ rest \in Seq(Symbols) /\ Len(rest) = m - l + 1
            /\ \A i \in 1..(m - l + 1) : rest[i] = c[l + i - 1]
        BY <1>3, <4>1, Window
      <4> HIDE DEF rest
      <4>4. \A i \in DOMAIN rest : rest[i] = "ws"
        <5> TAKE i \in DOMAIN rest
        <5>1. i \in 1..(m - l + 1) /\ l + i - 1 \in l..m
          BY <4>1, <4>3
        <5> QED BY <4>2, <4>3, <5>1
      <4> QED BY <4>4 DEF Blank, Printed
    <3>5. From(c, Len(b) + 1) = rest
      BY <2>8 DEF From
    <3> HIDE DEF rest
    <3>6. StartsWith(c, before) /\ Blank(From(c, Len(before) + 1))
      BY <2>7, <3>3, <3>4, <3>5
    <3> QED BY <3>6 DEF ContentBegins, c
  <2> QED BY <2>9, <2>10
<1> QED BY <1>5, <1>6

(* Whatever the answer and however it is cut into deltas, the content the  *)
(* client was given is a beginning of the text before the calls, or that   *)
(* text and nothing but line breaks after it.                              *)
THEOREM ContentBeginsAlways == Spec => []ContentBegins
<1>1. Init => CInv
  <2> SUFFICES ASSUME Init PROVE CInv
    OBVIOUS
  <2>1. IInv
    BY InitHolds
  <2>2. No(answer, "<tool_call>", 0) = 0
    BY NoBase
  <2>3. ContentOK(answer, pos, client.content)
    <3>1. pos = 0 /\ client.content = <<>>
      BY DEF Init
    <3>2. <<>> \in Seq(Symbols) /\ Len(<<>>) = 0
      BY EmptySeq
    <3> QED BY <2>2, <3>1, <3>2 DEF ContentOK, Limit
  <2> QED BY <2>1, <2>3 DEF CInv
<1>2. CInv /\ [Next]_vars => CInv'
  BY ContentHolds
<1>3. CInv => ContentBegins
  BY ContentBeginHolds
<1> QED BY <1>1, <1>2, <1>3, PTL DEF Spec

-----------------------------------------------------------------------------
(* Token by token.                                                         *)

(* Where the parser is when every delta was one token: between calls it    *)
(* waits, or has closed the last one and goes on with the next delta; in a *)
(* call its flags and count follow the text, but that a call without       *)
(* parameters or line breaks is closed one token late, the brace having    *)
(* taken one.                                                              *)
TokenOK(a, p, s) ==
  LET m == No(a, "<tool_call>", p)
      x == No(a, "</tool_call>", p)
      o == Begins(a, m)
      g == Ends(a, m)
  IN IF m = x THEN (s.index = x /\ ~s.started) \/ (s.index + 1 = x /\ s.closed)
     ELSE /\ s.index = x /\ s.started
          /\ s.header <=> o + 3 <= p
          /\ s.json <=> o + 4 <= p
          /\ s.closed <=> g <= p /\ o + 4 < p
          /\ s.params = No(a, "</parameter>", p) - No(a, "<parameter=", o)

(* At most one call is open. *)
LEMMA Place ==
  ASSUME NEW a \in Seq(Symbols), NEW st, Staged(a, st), NEW p \in 0..Len(a)
  PROVE  LET m == No(a, "<tool_call>", p)
             x == No(a, "</tool_call>", p)
         IN /\ m \in Nat /\ x \in Nat /\ (m = x \/ m = x + 1)
            /\ m = x + 1 => /\ m \in 1..No(a, "<tool_call>", Len(a))
                            /\ Opens(a, m) <= p /\ p < Closes(a, m)
<1> DEFINE m == No(a, "<tool_call>", p)
           x == No(a, "</tool_call>", p)
           N == No(a, "<tool_call>", Len(a))
           o == Opens(a, m)
           z == Closes(a, m)
<1>1. m \in Nat /\ x \in Nat /\ m <= N /\ N \in Nat /\ p \in Nat
  BY Counts
<1>2. m = x \/ m = x + 1
  <2>1. Level(a, st, p) /\ st[p] \in Stages
    BY Levels DEF Staged
  <2>2. No(a, "<function=", p) \in Nat /\ No(a, "</function>", p) \in Nat
    BY <1>1, NoStep
  <2> QED BY <1>1, <2>1, <2>2 DEF Level, Stages
<1>3. ASSUME m = x + 1 PROVE m \in 1..N /\ o <= p /\ p < z
  <2>1. m \in 1..N
    BY <1>1, <1>3
  <2> HIDE DEF m, x
  <2>2. /\ o <= p <=> m <= m
        /\ z <= p <=> m <= x
    BY <1>1, <2>1, CallAt DEF m, x
  <2>3. z \in Nat
    <3>1. Call(a, st, m, Begins(a, m), Ends(a, m))
      BY <2>1, CallOf
    <3> QED BY <3>1 DEF Call
  <2> HIDE DEF o, z
  <2> QED BY <1>1, <1>3, <2>1, <2>2, <2>3
<1> QED BY <1>1, <1>2, <1>3

(* What is known of the open call. *)
LEMMA OpenCall ==
  ASSUME NEW a \in Seq(Symbols), NEW st, Staged(a, st),
         NEW m \in 1..No(a, "<tool_call>", Len(a)), NEW p \in Nat,
         Opens(a, m) <= p, p <= Closes(a, m)
  PROVE  LET d == Opens(a, m)
             o == Begins(a, m)
             g == Ends(a, m)
             z == Closes(a, m)
             b == No(a, "<parameter=", o)
             v == No(a, "</parameter>", p)
         IN /\ d \in Nat \ {0} /\ a[d] = "<tool_call>" /\ No(a, "<tool_call>", d) = m
            /\ o \in Nat \ {0} /\ g \in Nat /\ o + 4 <= g /\ d <= o
            /\ z \in Nat /\ g + 1 <= z /\ z <= Len(a) /\ a[g] = "</function>"
            /\ b \in Nat /\ v \in Nat /\ b <= v
            /\ p <= o + 4 => v = b
            /\ p >= g => v = No(a, "<parameter=", g)
<1> DEFINE d == Opens(a, m)
           o == Begins(a, m)
           g == Ends(a, m)
           z == Closes(a, m)
           b == No(a, "<parameter=", o)
           v == No(a, "</parameter>", p)
           e == No(a, "<parameter=", g)
<1>1. Call(a, st, m, o, g)
  BY CallOf
<1> HIDE DEF o, g
<1>2. /\ d \in Nat \ {0} /\ a[d] = "<tool_call>" /\ No(a, "<tool_call>", d) = m
      /\ o \in Nat \ {0} /\ g \in Nat /\ o + 4 <= g /\ d <= o
      /\ z \in Nat /\ g + 1 <= z /\ z <= Len(a) /\ a[g] = "</function>"
  BY <1>1 DEF Call
<1>3. p \in Opens(a, m)..Closes(a, m)
  BY <1>2
<1>4. v \in Nat /\ b <= v /\ (p >= g => v = e) /\ (p <= o + 4 => v = b)
  BY <1>1, <1>3, ValuesIn
<1>5. b \in Nat
  BY <1>1, KeysIn
<1> HIDE DEF b, v, e
<1> QED BY <1>2, <1>4, <1>5 DEF o, g, b, v, e

(* Of the branches only one can be taken. *)
LEMMA Taken ==
  ASSUME NEW delta, NEW text, delta # <<>>, Branches(delta, text)
  PROVE  /\ CallOver(text) =>
              parser' = [NewParser EXCEPT !.index = parser.index + 1,
                           !.started = parser.index + 1 < Count(text, "<tool_call>")]
         /\ ~CallOver(text) /\ ~parser.started =>
              IF Has(delta, <<"<tool_call>">>) THEN parser' = [parser EXCEPT !.started = TRUE]
              ELSE parser' = parser
         /\ Inside(text) /\ ~parser.header =>
              IF HasHeader(text) THEN parser' = [parser EXCEPT !.header = TRUE, !.inFunction = TRUE]
              ELSE parser' = parser
         /\ Inside(text) /\ parser.header /\ parser.inFunction /\ ~parser.json =>
              parser' = [parser EXCEPT !.json = TRUE]
         /\ Inside(text) /\ parser.header /\ parser.inFunction /\ parser.json =>
              IF NewParams(text) # {} THEN parser' = [parser EXCEPT !.params = Max(NewParams(text))]
              ELSE IF Has(ToolText(text), <<"</function>">>)
                THEN parser' = [parser EXCEPT !.closed = TRUE, !.inFunction = FALSE]
                ELSE parser' = parser
         /\ Inside(text) /\ parser.header /\ ~parser.inFunction => parser' = parser
<1>1. Inside(text) => ~CallOver(text) /\ parser.started
  BY DEF Inside
<1>2. ASSUME CallOver(text)
      PROVE  parser' = [NewParser EXCEPT !.index = parser.index + 1,
                          !.started = parser.index + 1 < Count(text, "<tool_call>")]
  BY <1>1, <1>2 DEF Branches, NoText, NextCall, CallBegins, PlainText, Header, OpenBrace,
       Params, CloseBrace, NothingYet, Outside, InFunction
<1>3. ASSUME ~CallOver(text), ~parser.started
      PROVE  IF Has(delta, <<"<tool_call>">>) THEN parser' = [parser EXCEPT !.started = TRUE]
             ELSE parser' = parser
  BY <1>1, <1>3 DEF Branches, NoText, NextCall, CallBegins, PlainText, Header, OpenBrace,
       Params, CloseBrace, NothingYet, Outside, InFunction
<1>4. ASSUME Inside(text), ~parser.header
      PROVE  IF HasHeader(text) THEN parser' = [parser EXCEPT !.header = TRUE, !.inFunction = TRUE]
             ELSE parser' = parser
  BY <1>1, <1>4 DEF Branches, NoText, NextCall, CallBegins, PlainText, Header, OpenBrace,
       Params, CloseBrace, NothingYet, Outside, InFunction
<1>5. ASSUME Inside(text), parser.header, parser.inFunction, ~parser.json
      PROVE  parser' = [parser EXCEPT !.json = TRUE]
  BY <1>1, <1>5 DEF Branches, NoText, NextCall, CallBegins, PlainText, Header, OpenBrace,
       Params, CloseBrace, NothingYet, Outside, InFunction
<1>6. ASSUME Inside(text), parser.header, parser.inFunction, parser.json
      PROVE  IF NewParams(text) # {} THEN parser' = [parser EXCEPT !.params = Max(NewParams(text))]
             ELSE IF Has(ToolText(text), <<"</function>">>)
               THEN parser' = [parser EXCEPT !.closed = TRUE, !.inFunction = FALSE]
               ELSE parser' = parser
  BY <1>1, <1>6 DEF Branches, NoText, NextCall, CallBegins, PlainText, Header, OpenBrace,
       Params, CloseBrace, NothingYet, Outside, InFunction
<1>7. ASSUME Inside(text), parser.header, ~parser.inFunction
      PROVE  parser' = parser
  BY <1>1, <1>7 DEF Branches, NoText, NextCall, CallBegins, PlainText, Header, OpenBrace,
       Params, CloseBrace, NothingYet, Outside, InFunction
<1> QED BY <1>2, <1>3, <1>4, <1>5, <1>6, <1>7

(* What one more token brings. *)
LEMMA OneToken ==
  ASSUME IInv, pos + 1 <= Len(answer)
  PROVE  LET q == pos + 1
             delta == SubSeq(answer, q, q)
             text == Upto(answer, q)
         IN /\ answer \in Seq(Symbols) /\ pos \in 0..Len(answer) /\ pos \in Nat
            /\ q \in 0..Len(answer) /\ q \in Nat
            /\ delta # <<>>
            /\ Has(delta, <<"<tool_call>">>) <=> answer[q] = "<tool_call>"
            /\ Count(text, "<tool_call>") = No(answer, "<tool_call>", q)
            /\ Count(text, "</tool_call>") = No(answer, "</tool_call>", q)
            /\ No(answer, "<tool_call>", q)
                 = No(answer, "<tool_call>", pos) + (IF answer[q] = "<tool_call>" THEN 1 ELSE 0)
            /\ No(answer, "</tool_call>", q)
                 = No(answer, "</tool_call>", pos) + (IF answer[q] = "</tool_call>" THEN 1 ELSE 0)
            /\ No(answer, "</tool_call>", q) <= No(answer, "<tool_call>", q)
            /\ No(answer, "<tool_call>", q) <= No(answer, "<tool_call>", Len(answer))
            /\ No(answer, "<tool_call>", Len(answer)) \in Nat
            /\ ParserOK(answer, pos, parser) /\ parser \in Parsers
            /\ \E st : Staged(answer, st)
<1> DEFINE q == pos + 1
           delta == SubSeq(answer, q, q)
           text == Upto(answer, q)
<1>1. /\ answer \in Seq(Symbols) /\ pos \in 0..Len(answer) /\ pos \in Nat
      /\ q \in 0..Len(answer) /\ q \in Nat /\ 1 \in Nat
      /\ ParserOK(answer, pos, parser) /\ parser \in Parsers
  BY DEF IInv, ParserOK, Parsers
<1>2. \E st : Staged(answer, st)
  <2> DEFINE n == 1
  <2>1. n \in Nat /\ pos + n <= Len(answer)
    BY <1>1
  <2> HIDE DEF n
  <2> QED BY <2>1, Setting
<1>3. /\ delta \in Seq(Symbols) /\ Len(delta) = 1 /\ delta[1] = answer[q]
  <2> DEFINE n == 1
  <2>1. n \in Nat /\ pos + n <= Len(answer) /\ n \in 1..n /\ n = 1
    BY <1>1
  <2> HIDE DEF n
  <2>2. /\ SubSeq(answer, pos + 1, pos + n) \in Seq(Symbols)
        /\ Len(SubSeq(answer, pos + 1, pos + n)) = n
        /\ \A i \in 1..n : SubSeq(answer, pos + 1, pos + n)[i] = answer[pos + i]
    BY <1>1, <2>1, DeltaText
  <2>3. /\ SubSeq(answer, pos + 1, pos + n) \in Seq(Symbols)
        /\ Len(SubSeq(answer, pos + 1, pos + n)) = n
        /\ SubSeq(answer, pos + 1, pos + n)[n] = answer[pos + n]
    BY <2>1, <2>2
  <2> QED BY <2>1, <2>3
<1> HIDE DEF delta
<1>0. "<tool_call>" \in Symbols /\ "</tool_call>" \in Symbols
  BY TagsAre DEF Symbols
<1>4. delta # <<>> /\ (Has(delta, <<"<tool_call>">>) <=> answer[q] = "<tool_call>")
  <2>1. Has(delta, <<"<tool_call>">>) <=> \E i \in 1..Len(delta) : delta[i] = "<tool_call>"
    BY <1>0, <1>3, HasOne
  <2>2. \A i \in 1..Len(delta) : i = 1
    BY <1>3
  <2>3. 1 \in 1..Len(delta)
    BY <1>3
  <2> QED BY <1>3, <2>1, <2>2, <2>3
<1>5. /\ Count(text, "<tool_call>") = No(answer, "<tool_call>", q)
      /\ Count(text, "</tool_call>") = No(answer, "</tool_call>", q)
  <2> HIDE DEF q
  <2> QED BY <1>0, <1>1, Received
<1>6. /\ No(answer, "<tool_call>", q)
           = No(answer, "<tool_call>", pos) + (IF answer[q] = "<tool_call>" THEN 1 ELSE 0)
      /\ No(answer, "</tool_call>", q)
           = No(answer, "</tool_call>", pos) + (IF answer[q] = "</tool_call>" THEN 1 ELSE 0)
  BY <1>1, NoStep, SMTT(30)
<1>7. /\ No(answer, "</tool_call>", q) <= No(answer, "<tool_call>", q)
      /\ No(answer, "<tool_call>", q) <= No(answer, "<tool_call>", Len(answer))
      /\ No(answer, "<tool_call>", Len(answer)) \in Nat
  <2> HIDE DEF q
  <2> QED BY <1>1, <1>2, Counts
<1> QED BY <1>1, <1>2, <1>4, <1>5, <1>6, <1>7 DEF delta

(* A call has just begun. *)
LEMMA Begun ==
  ASSUME NEW a \in Seq(Symbols), NEW st, Staged(a, st),
         NEW q \in 1..Len(a), a[q] = "<tool_call>",
         No(a, "<tool_call>", q) = No(a, "</tool_call>", q) + 1,
         NEW s, s.index = No(a, "</tool_call>", q), s.started, ~s.header, ~s.json, ~s.closed,
         s.params = 0
  PROVE  TokenOK(a, q, s)
<1> DEFINE m == No(a, "<tool_call>", q)
           x == No(a, "</tool_call>", q)
           d == Opens(a, m)
           o == Begins(a, m)
           g == Ends(a, m)
<1>1. q \in 0..Len(a) /\ q \in Nat /\ q \in Nat \ {0}
  OBVIOUS
<1>2. /\ m \in Nat /\ x \in Nat /\ m \in 1..No(a, "<tool_call>", Len(a))
      /\ d <= q /\ q <= Closes(a, m)
  <2>1. /\ m \in Nat /\ x \in Nat /\ m \in 1..No(a, "<tool_call>", Len(a))
        /\ d <= q /\ q < Closes(a, m)
    BY <1>1, Place
  <2>2. Closes(a, m) \in Nat
    <3> HIDE DEF m
    <3>1. Call(a, st, m, o, g)
      BY <2>1, CallOf
    <3> QED BY <3>1 DEF Call
  <2> HIDE DEF m, x, d
  <2> QED BY <1>1, <2>1, <2>2
<1> HIDE DEF m
<1>3. /\ d \in Nat \ {0} /\ a[d] = "<tool_call>" /\ No(a, "<tool_call>", d) = m
      /\ o \in Nat \ {0} /\ g \in Nat /\ o + 4 <= g /\ d <= o
      /\ No(a, "<parameter=", o) \in Nat
      /\ q <= o + 4 => No(a, "</parameter>", q) = No(a, "<parameter=", o)
  BY <1>1, <1>2, OpenCall
<1> HIDE DEF x, d, o, g
<1>4. d = q
  BY <1>1, <1>3, NoUnique DEF m
<1>5. No(a, "</parameter>", q) = No(a, "<parameter=", o)
  BY <1>1, <1>3, <1>4
<1>6. m = x + 1 /\ m # x /\ s.index = x
  BY <1>2 DEF m, x
<1>7. ~(o + 3 <= q) /\ ~(o + 4 <= q) /\ ~(g <= q)
  BY <1>1, <1>3, <1>4
<1>8. s.params = No(a, "</parameter>", q) - No(a, "<parameter=", o)
  BY <1>3, <1>5
<1> QED BY <1>6, <1>7, <1>8 DEF TokenOK, m, x, o, g

(* The parser waits between calls.                                         *)
LEMMA Waits ==
  ASSUME NEW a, NEW p, NEW s, No(a, "<tool_call>", p) = No(a, "</tool_call>", p),
         s.index = No(a, "</tool_call>", p), ~s.started
  PROVE  TokenOK(a, p, s)
BY DEF TokenOK

(* One token between calls.                                                *)
LEMMA TokenBetween ==
  ASSUME IInv, TokenOK(answer, pos, parser), pos + 1 <= Len(answer),
         Branches(SubSeq(answer, pos + 1, pos + 1), Upto(answer, pos + 1)),
         No(answer, "<tool_call>", pos) = No(answer, "</tool_call>", pos)
  PROVE  TokenOK(answer, pos + 1, parser')
<1> DEFINE q == pos + 1
           delta == SubSeq(answer, q, q)
           text == Upto(answer, q)
           m == No(answer, "<tool_call>", pos)
           x == No(answer, "</tool_call>", pos)
<1>0. q \in 1..Len(answer)
  BY OneToken
<1>1. /\ answer \in Seq(Symbols) /\ pos \in 0..Len(answer) /\ q \in 0..Len(answer)
      /\ delta # <<>>
      /\ Has(delta, <<"<tool_call>">>) <=> answer[q] = "<tool_call>"
      /\ Count(text, "<tool_call>") = No(answer, "<tool_call>", q)
      /\ Count(text, "</tool_call>") = No(answer, "</tool_call>", q)
      /\ No(answer, "<tool_call>", q) = m + (IF answer[q] = "<tool_call>" THEN 1 ELSE 0)
      /\ No(answer, "</tool_call>", q) = x + (IF answer[q] = "</tool_call>" THEN 1 ELSE 0)
      /\ No(answer, "</tool_call>", q) <= No(answer, "<tool_call>", q)
      /\ ParserOK(answer, pos, parser) /\ parser \in Parsers
  BY OneToken
<1>2. PICK st : Staged(answer, st)
  BY OneToken
<1>3. m \in Nat /\ x \in Nat /\ m = x
  BY <1>1, <1>2, Place
<1>4. Branches(delta, text)
  OBVIOUS
<1>5. (parser.index = x /\ ~parser.started) \/ (parser.index + 1 = x /\ parser.closed)
  BY <1>3 DEF TokenOK
<1>6. /\ parser.index \in Nat /\ parser.params \in Nat
      /\ parser.header => parser.started
      /\ parser.json => parser.header
      /\ parser.closed => parser.json
      /\ parser.inFunction <=> parser.header /\ ~parser.closed
      /\ ~parser.json => parser.params = 0
  BY <1>1 DEF ParserOK
<1> HIDE DEF q, delta, text, m, x
<1>7. /\ No(answer, "</tool_call>", q) = x
      /\ No(answer, "<tool_call>", q) = IF answer[q] = "<tool_call>" THEN x + 1 ELSE x
  <2>1. answer[q] = "</tool_call>" => answer[q] # "<tool_call>"
    OBVIOUS
  <2> QED BY <1>1, <1>3, <2>1
<1>8. CASE parser.index = x /\ ~parser.started
  <2>1. ~CallOver(text)
    BY <1>1, <1>3, <1>7, <1>8 DEF CallOver
  <2>2. IF answer[q] = "<tool_call>" THEN parser' = [parser EXCEPT !.started = TRUE]
        ELSE parser' = parser
    BY <1>1, <1>4, <1>8, <2>1, Taken
  <2>3. CASE answer[q] = "<tool_call>"
    <3> DEFINE s == parser'
    <3>1. /\ s.index = x /\ s.started /\ ~s.header /\ ~s.json /\ ~s.closed /\ s.params = 0
      BY <1>1, <1>6, <1>8, <2>2, <2>3 DEF Parsers
    <3> HIDE DEF s
    <3>2. TokenOK(answer, q, s)
      BY <1>0, <1>1, <1>2, <1>7, <2>3, <3>1, Begun
    <3> QED BY <3>2 DEF s, q
  <2>4. CASE answer[q] # "<tool_call>"
    <3>1. parser' = parser /\ No(answer, "<tool_call>", q) = No(answer, "</tool_call>", q)
      BY <1>7, <2>2, <2>4
    <3>2. TokenOK(answer, q, parser')
      BY <1>7, <1>8, <3>1 DEF TokenOK
    <3> QED BY <3>2 DEF q
  <2> QED BY <2>3, <2>4
<1>9. CASE parser.index + 1 = x /\ parser.closed
  <2>1. CallOver(text)
    BY <1>1, <1>3, <1>6, <1>7, <1>9 DEF CallOver
  <2> DEFINE s == parser'
  <2>2. s = [NewParser EXCEPT !.index = parser.index + 1,
                              !.started = parser.index + 1 < Count(text, "<tool_call>")]
    BY <1>1, <1>4, <2>1, Taken
  <2>3. /\ s.index = x /\ ~s.header /\ ~s.json /\ ~s.closed /\ s.params = 0
        /\ s.started <=> x < No(answer, "<tool_call>", q)
    BY <1>1, <1>9, <2>2 DEF NewParser
  <2> HIDE DEF s
  <2>4. CASE answer[q] = "<tool_call>"
    <3>1. s.started /\ No(answer, "<tool_call>", q) = No(answer, "</tool_call>", q) + 1
      BY <1>3, <1>7, <2>3, <2>4
    <3>2. TokenOK(answer, q, s)
      BY <1>0, <1>1, <1>2, <1>7, <2>3, <2>4, <3>1, Begun
    <3> QED BY <3>2 DEF s, q
  <2>5. CASE answer[q] # "<tool_call>"
    <3>1. ~s.started /\ No(answer, "<tool_call>", q) = No(answer, "</tool_call>", q)
      BY <1>3, <1>7, <2>3, <2>5
    <3>2. No(answer, "<tool_call>", q) = x /\ No(answer, "</tool_call>", q) = x
          /\ s.index = x /\ ~s.started
      BY <1>7, <2>3, <3>1
    <3>3. TokenOK(answer, q, s)
      BY <3>2, Waits
    <3> QED BY <3>3 DEF s, q
  <2> QED BY <2>4, <2>5
<1> QED BY <1>5, <1>8, <1>9

(* The call's end tag is sent: the parser goes on, or closes the call.     *)
LEMMA TokenEnds ==
  ASSUME IInv, TokenOK(answer, pos, parser), pos + 1 <= Len(answer),
         Branches(SubSeq(answer, pos + 1, pos + 1), Upto(answer, pos + 1)),
         No(answer, "<tool_call>", pos) = No(answer, "</tool_call>", pos) + 1,
         pos + 1 = Closes(answer, No(answer, "<tool_call>", pos))
  PROVE  TokenOK(answer, pos + 1, parser')
<1> DEFINE q == pos + 1
           delta == SubSeq(answer, q, q)
           text == Upto(answer, q)
           m == No(answer, "<tool_call>", pos)
           x == No(answer, "</tool_call>", pos)
           d == Opens(answer, m)
           o == Begins(answer, m)
           g == Ends(answer, m)
           z == Closes(answer, m)
           b == No(answer, "<parameter=", o)
           e == No(answer, "<parameter=", g)
           v == No(answer, "</parameter>", Reach(q, z))
<1>0. q \in 1..Len(answer) /\ pos \in Nat
  BY OneToken
<1>1. /\ answer \in Seq(Symbols) /\ pos \in 0..Len(answer) /\ q \in 0..Len(answer)
      /\ delta # <<>>
      /\ Count(text, "<tool_call>") = No(answer, "<tool_call>", q)
      /\ Count(text, "</tool_call>") = No(answer, "</tool_call>", q)
      /\ ParserOK(answer, pos, parser) /\ parser \in Parsers
  BY OneToken
<1>2. PICK st : Staged(answer, st)
  BY OneToken
<1>3. /\ m \in Nat /\ x \in Nat /\ m = x + 1 /\ m \in 1..No(answer, "<tool_call>", Len(answer))
      /\ d <= pos /\ q = z
  BY <1>1, <1>2, Place
<1>4. Branches(delta, text)
  OBVIOUS
<1>5. /\ d \in Nat /\ o \in Nat \ {0} /\ g \in Nat /\ o + 4 <= g /\ b \in Nat /\ g <= pos
      /\ g + 1 <= z /\ z \in Nat /\ No(answer, "</parameter>", pos) = e /\ e \in Nat
  <2> HIDE DEF m, x, q
  <2>0. z \in Nat
    <3>1. Call(answer, st, m, o, g)
      BY <1>1, <1>2, <1>3, CallOf
    <3> QED BY <3>1 DEF Call
  <2>01. pos <= z
    <3> HIDE DEF z
    <3> QED BY <1>0, <1>3, <2>0 DEF q
  <2>1. /\ d \in Nat /\ o \in Nat \ {0} /\ g \in Nat /\ o + 4 <= g
        /\ z \in Nat /\ g + 1 <= z
        /\ b \in Nat /\ No(answer, "</parameter>", pos) \in Nat
        /\ pos >= g => No(answer, "</parameter>", pos) = e
    BY <1>0, <1>1, <1>2, <1>3, <2>01, OpenCall
  <2> HIDE DEF d, o, g, z, b, e
  <2> QED BY <1>0, <1>3, <2>1 DEF q
<1>6. /\ parser.index = x /\ parser.started
      /\ parser.header <=> o + 3 <= pos
      /\ parser.json <=> o + 4 <= pos
      /\ parser.closed <=> g <= pos /\ o + 4 < pos
      /\ parser.params = No(answer, "</parameter>", pos) - b
  <2>1. m # x
    BY <1>3
  <2> QED BY <2>1 DEF TokenOK
<1>7. parser.inFunction <=> parser.header /\ ~parser.closed
  BY <1>1 DEF ParserOK
<1>8. No(answer, "</tool_call>", q) = m /\ No(answer, "<tool_call>", q) = m
  <2>1. z <= q <=> m <= No(answer, "</tool_call>", q)
    <3> HIDE DEF m, z
    <3>1. q \in Nat
      BY <1>0
    <3> HIDE DEF q
    <3> QED BY <1>1, <1>2, <1>3, <3>1, CallAt DEF z
  <2>2. /\ No(answer, "<tool_call>", q) = m + (IF answer[q] = "<tool_call>" THEN 1 ELSE 0)
        /\ No(answer, "</tool_call>", q) = x + (IF answer[q] = "</tool_call>" THEN 1 ELSE 0)
    BY OneToken
  <2> HIDE DEF m, x, z
  <2>3. m <= No(answer, "</tool_call>", q)
    BY <1>0, <1>3, <1>5, <2>1
  <2>4. answer[q] = "</tool_call>" /\ answer[q] # "<tool_call>"
    BY <1>3, <2>2, <2>3
  <2> QED BY <1>3, <2>2, <2>4
<1>9. CASE parser.closed
  <2> HIDE DEF m, x, d, o, g, z, b, e, v, text, delta, q
  <2>1. CallOver(text)
    BY <1>1, <1>3, <1>6, <1>7, <1>8, <1>9 DEF CallOver
  <2> DEFINE s == parser'
  <2>2. s = [NewParser EXCEPT !.index = parser.index + 1,
                              !.started = parser.index + 1 < Count(text, "<tool_call>")]
    BY <1>1, <1>4, <2>1, Taken
  <2>3. s.index = m /\ ~s.started
    <3>1. s.index = parser.index + 1
          /\ (s.started <=> parser.index + 1 < Count(text, "<tool_call>"))
      BY <2>2 DEF NewParser
    <3> HIDE DEF s
    <3> QED BY <1>1, <1>3, <1>6, <1>8, <3>1
  <2> HIDE DEF s
  <2>4. TokenOK(answer, q, s)
    BY <1>8, <2>3, Waits
  <2> QED BY <2>4 DEF s, q
<1>10. CASE ~parser.closed
  <2>1. parser.header /\ parser.json /\ parser.inFunction /\ parser.params = e - b
        /\ parser.params \in Nat
    <3> HIDE DEF m, x, d, o, g, z, b, e
    <3>1. parser.header /\ parser.json /\ parser.inFunction /\ parser.params = e - b
      BY <1>0, <1>3, <1>5, <1>6, <1>7, <1>10
    <3> QED BY <1>1, <3>1 DEF Parsers
  <2>2. Inside(text)
    <3> HIDE DEF m, x, d, o, g, z, b, e, v, text, delta, q
    <3> QED BY <1>1, <1>3, <1>6, <1>8, <1>10 DEF Inside, CallOver
  <2>3. parser.index + 1 = m
    BY <1>3, <1>6
  <2>4. NewParams(text) = (parser.params + 1)..(v - b) /\ Has(ToolText(text), <<"</function>">>)
    <3> HIDE DEF m, q
    <3>1. o + 3 <= q /\ g <= q
      <4> HIDE DEF o, g
      <4> QED BY <1>0, <1>5 DEF q
    <3>2. /\ NewParams(text) = (parser.params + 1)..(v - b)
          /\ Has(ToolText(text), <<"</function>">>) <=> g <= q
      BY <1>1, <1>2, <1>3, <2>1, <2>3, <3>1, NewParamsAre, ZenonT(60)
    <3> QED BY <3>1, <3>2
  <2>5. v = e
    <3> HIDE DEF m, q
    <3>1. o + 3 <= q /\ g <= q
      <4> HIDE DEF o, g
      <4> QED BY <1>0, <1>5 DEF q
    <3> QED BY <1>1, <1>2, <1>3, <3>1, ValuesSoFar
  <2> HIDE DEF m, x, d, o, g, z, b, e, v, text, delta, q
  <2>6. NewParams(text) = {}
    BY <1>5, <2>1, <2>4, <2>5
  <2> DEFINE s == parser'
  <2>7. s = [parser EXCEPT !.closed = TRUE, !.inFunction = FALSE]
    BY <1>1, <1>4, <2>1, <2>2, <2>4, <2>6, Taken
  <2>8. s.index + 1 = m /\ s.closed
    BY <1>1, <2>3, <2>7 DEF Parsers
  <2> HIDE DEF s
  <2>9. TokenOK(answer, q, s)
    BY <1>8, <2>8 DEF TokenOK
  <2> QED BY <2>9 DEF s, q
<1> QED BY <1>9, <1>10

(* One token in a call, not after its end: the flag the text has reached   *)
(* is set, a parameter is sent with its end tag and the call closed with   *)
(* the end of its function.                                                *)
LEMMA TokenWithin ==
  ASSUME IInv, TokenOK(answer, pos, parser), pos + 1 <= Len(answer),
         Branches(SubSeq(answer, pos + 1, pos + 1), Upto(answer, pos + 1)),
         No(answer, "<tool_call>", pos) = No(answer, "</tool_call>", pos) + 1,
         pos + 1 # Closes(answer, No(answer, "<tool_call>", pos))
  PROVE  TokenOK(answer, pos + 1, parser')
<1> DEFINE q == pos + 1
           delta == SubSeq(answer, q, q)
           text == Upto(answer, q)
           m == No(answer, "<tool_call>", pos)
           x == No(answer, "</tool_call>", pos)
           d == Opens(answer, m)
           o == Begins(answer, m)
           g == Ends(answer, m)
           z == Closes(answer, m)
           b == No(answer, "<parameter=", o)
           u == No(answer, "</parameter>", pos)
           v == No(answer, "</parameter>", q)
           s == parser'
<1>0. q \in 1..Len(answer) /\ pos \in Nat /\ q \in Nat /\ q = pos + 1
  BY OneToken
<1>1. /\ answer \in Seq(Symbols) /\ pos \in 0..Len(answer) /\ q \in 0..Len(answer)
      /\ delta # <<>>
      /\ Count(text, "<tool_call>") = No(answer, "<tool_call>", q)
      /\ Count(text, "</tool_call>") = No(answer, "</tool_call>", q)
      /\ ParserOK(answer, pos, parser) /\ parser \in Parsers
  BY OneToken
<1>2. PICK st : Staged(answer, st)
  BY OneToken
<1>3. /\ m \in Nat /\ x \in Nat /\ m = x + 1 /\ m \in 1..No(answer, "<tool_call>", Len(answer))
      /\ d <= pos /\ pos < z
  BY <1>1, <1>2, Place
<1>4. Branches(delta, text)
  OBVIOUS
<1>50. z \in Nat
  <2> HIDE DEF m
  <2>1. Call(answer, st, m, o, g)
    BY <1>1, <1>2, <1>3, CallOf
  <2> QED BY <2>1 DEF Call
<1>6. d <= q /\ pos <= z /\ q < z
  <2>1. pos + 1 # z
    OBVIOUS
  <2> HIDE DEF d, z
  <2>2. d <= pos /\ pos < z
    BY <1>3
  <2>3. d \in Nat
    <3> HIDE DEF m
    <3>1. Call(answer, st, m, o, g)
      BY <1>1, <1>2, <1>3, CallOf
    <3> QED BY <3>1 DEF Call, d
  <2> QED BY <1>0, <1>50, <2>1, <2>2, <2>3
<1>7. /\ o \in Nat \ {0} /\ g \in Nat /\ o + 4 <= g /\ answer[g] = "</function>"
      /\ b \in Nat /\ u \in Nat /\ v \in Nat /\ b <= u /\ b <= v
      /\ pos <= o + 4 => u = b
      /\ q <= o + 4 => v = b
      /\ pos >= g => u = No(answer, "<parameter=", g)
      /\ q >= g => v = No(answer, "<parameter=", g)
  <2> HIDE DEF m, x, q
  <2>1. /\ o \in Nat \ {0} /\ g \in Nat /\ o + 4 <= g /\ answer[g] = "</function>" /\ b \in Nat
        /\ u \in Nat /\ b <= u /\ (pos <= o + 4 => u = b)
        /\ pos >= g => u = No(answer, "<parameter=", g)
    BY <1>0, <1>1, <1>2, <1>3, <1>6, OpenCall
  <2>2. /\ v \in Nat /\ b <= v /\ (q <= o + 4 => v = b)
        /\ q >= g => v = No(answer, "<parameter=", g)
    <3>1. q <= z
      <4> HIDE DEF z
      <4> QED BY <1>0, <1>6, <1>50
    <3> QED BY <1>0, <1>1, <1>2, <1>3, <1>6, <3>1, OpenCall
  <2> QED BY <2>1, <2>2
<1>8. /\ u <= v
      /\ q >= g => v = u
  <2>1. v = u + (IF answer[q] = "</parameter>" THEN 1 ELSE 0)
    <3>1. No(answer, "</parameter>", pos + 1)
            = No(answer, "</parameter>", pos) + (IF answer[pos + 1] = "</parameter>" THEN 1 ELSE 0)
      <4> DEFINE n == pos
                 tag == "</parameter>"
      <4>1. n \in Nat
        BY <1>0
      <4> HIDE DEF n, tag
      <4>2. No(answer, tag, n + 1) = No(answer, tag, n) + (IF answer[n + 1] = tag THEN 1 ELSE 0)
        BY ONLY <4>1, NoStep
      <4> QED BY <4>2 DEF n, tag
    <3> QED BY <3>1
  <2>2. q = g => answer[q] # "</parameter>"
    BY <1>7
  <2> HIDE DEF u, v, q, g
  <2>3. q >= g => q = g \/ pos >= g
    BY <1>0, <1>7
  <2> QED BY <1>7, <2>1, <2>2, <2>3
<1>9. /\ parser.index = x /\ parser.started
      /\ parser.header <=> o + 3 <= pos
      /\ parser.json <=> o + 4 <= pos
      /\ parser.closed <=> g <= pos /\ o + 4 < pos
      /\ parser.params = u - b
  <2>1. m # x
    BY <1>3
  <2> QED BY <2>1 DEF TokenOK
<1>10. parser.inFunction <=> parser.header /\ ~parser.closed
  BY <1>1 DEF ParserOK
<1>11. No(answer, "</tool_call>", q) = x /\ No(answer, "<tool_call>", q) = m
  <2>1. z <= q <=> m <= No(answer, "</tool_call>", q)
    <3> HIDE DEF m, z, q
    <3> QED BY <1>0, <1>1, <1>2, <1>3, CallAt DEF z
  <2>2. /\ No(answer, "<tool_call>", q) = m + (IF answer[q] = "<tool_call>" THEN 1 ELSE 0)
        /\ No(answer, "</tool_call>", q) = x + (IF answer[q] = "</tool_call>" THEN 1 ELSE 0)
    BY OneToken
  <2>3. \/ No(answer, "<tool_call>", q) = No(answer, "</tool_call>", q)
        \/ No(answer, "<tool_call>", q) = No(answer, "</tool_call>", q) + 1
    <3> HIDE DEF q
    <3> QED BY <1>1, <1>2, Place
  <2> HIDE DEF m, x, z, q
  <2>4. ~(m <= No(answer, "</tool_call>", q))
    BY <1>0, <1>50, <1>6, <2>1
  <2> QED BY <1>3, <2>2, <2>3, <2>4
<1> HIDE DEF q, delta, text, m, x, d, o, g, z, b, u, v
<1>13. Inside(text)
  <2>1. x \in Nat /\ ~(x > x)
    BY <1>3
  <2> QED BY <1>1, <1>3, <1>9, <1>11, <2>1 DEF Inside, CallOver
<1>14. parser.index + 1 = m
  BY <1>3, <1>9
<1>15. /\ parser.index \in Nat /\ parser.params \in Nat /\ parser \in Parsers
  BY <1>1 DEF Parsers
<1>16. SUFFICES /\ s.index = x /\ s.started
                /\ s.header <=> o + 3 <= q
                /\ s.json <=> o + 4 <= q
                /\ s.closed <=> g <= q /\ o + 4 < q
                /\ s.params = v - b
  <2> HIDE DEF s
  <2>1. m # x
    BY <1>3
  <2>2. ASSUME /\ s.index = x /\ s.started
               /\ s.header <=> o + 3 <= q
               /\ s.json <=> o + 4 <= q
               /\ s.closed <=> g <= q /\ o + 4 < q
               /\ s.params = v - b
        PROVE  TokenOK(answer, q, s)
    BY <1>11, <2>1, <2>2 DEF TokenOK, o, g, b, v
  <2> QED BY <2>2 DEF q, s
<1>12. CASE parser.closed
  <2>1. parser.header /\ ~parser.inFunction
    BY <1>0, <1>7, <1>9, <1>10, <1>12
  <2>2. s = parser
    BY <1>1, <1>4, <1>13, <2>1, Taken
  <2>3. g <= q /\ o + 4 < q /\ o + 3 <= q /\ o + 4 <= q /\ o + 3 <= pos /\ o + 4 <= pos /\ v = u
    BY <1>0, <1>7, <1>8, <1>9, <1>12
  <2> QED BY <1>9, <1>12, <2>2, <2>3
<1>17. CASE ~parser.closed /\ ~parser.header
  <2>1. HasHeader(text) <=> o + 3 <= q
    BY <1>1, <1>2, <1>3, <1>6, <1>14, HeaderIs DEF d, o, text
  <2>2. IF o + 3 <= q THEN s = [parser EXCEPT !.header = TRUE, !.inFunction = TRUE] ELSE s = parser
    BY <1>1, <1>4, <1>13, <1>17, <2>1, Taken
  <2>3. /\ s.index = x /\ s.started /\ s.params = parser.params /\ s.json = parser.json
        /\ s.closed = parser.closed /\ (s.header <=> o + 3 <= q)
    BY <1>9, <1>15, <1>17, <2>2 DEF Parsers
  <2> HIDE DEF s
  <2>4. ~(o + 4 <= q) /\ ~(g <= q) /\ v = b /\ u = b
    BY <1>0, <1>6, <1>7, <1>9, <1>17
  <2>5. ~s.json /\ ~s.closed /\ s.params = v - b
    BY <1>0, <1>7, <1>9, <1>17, <2>3, <2>4
  <2> QED BY <2>3, <2>4, <2>5
<1>18. CASE ~parser.closed /\ parser.header /\ ~parser.json
  <2>1. s = [parser EXCEPT !.json = TRUE]
    BY <1>1, <1>4, <1>10, <1>13, <1>18, Taken
  <2>2. /\ s.index = x /\ s.started /\ s.params = parser.params /\ s.json = TRUE
        /\ s.closed = parser.closed /\ s.header = parser.header
    BY <1>9, <1>15, <2>1 DEF Parsers
  <2> HIDE DEF s
  <2>3. q = o + 4 /\ v = b /\ u = b
    BY <1>0, <1>6, <1>7, <1>9, <1>18
  <2>4. o + 3 <= q /\ o + 4 <= q /\ ~(g <= q /\ o + 4 < q)
    BY <1>0, <1>7, <1>6, <2>3
  <2>5. s.header /\ s.json /\ ~s.closed /\ s.params = v - b
    BY <1>9, <1>18, <2>2, <2>3
  <2> QED BY <2>2, <2>4, <2>5
<1>19. CASE ~parser.closed /\ parser.header /\ parser.json
  <2>1. o + 4 <= pos /\ o + 3 <= q /\ o + 4 <= q /\ o + 4 < q
    BY <1>0, <1>7, <1>6, <1>9, <1>19
  <2>2. Reach(q, Closes(answer, m)) = q
    <3>1. q <= z
      BY <1>0, <1>6, <1>50
    <3> QED BY <3>1 DEF Reach, z
  <2>3. /\ NewParams(text) = (parser.params + 1)..(v - b)
        /\ Has(ToolText(text), <<"</function>">>) <=> g <= q
    <3>1. /\ NewParams(text)
               = (parser.params + 1)..(No(answer, "</parameter>", Reach(q, Closes(answer, m))) - b)
          /\ Has(ToolText(text), <<"</function>">>) <=> g <= q
      BY <1>1, <1>2, <1>3, <1>14, <1>15, <2>1, NewParamsAre DEF o, g, b, text
    <3> QED BY <2>2, <3>1 DEF v
  <2>4. IF NewParams(text) # {} THEN s = [parser EXCEPT !.params = Max(NewParams(text))]
        ELSE IF g <= q THEN s = [parser EXCEPT !.closed = TRUE, !.inFunction = FALSE]
        ELSE s = parser
    BY <1>1, <1>4, <1>10, <1>13, <1>19, <2>3, Taken
  <2>5. CASE u < v
    <3> DEFINE c == parser.params
               i == c + 1
               j == v - b
    <3>1. i \in Nat /\ j \in Nat /\ i <= j /\ ~(g <= q)
      BY <1>0, <1>6, <1>7, <1>8, <1>9, <2>5
    <3>2. NewParams(text) = i..j
      BY <2>3
    <3> HIDE DEF i, j
    <3>3. NewParams(text) # {} /\ Max(NewParams(text)) = j
      <4>1. Max(i..j) = j
        BY ONLY <3>1, MaxIs
      <4>2. i \in i..j
        BY ONLY <3>1
      <4> QED BY <3>2, <4>1, <4>2
    <3>4. s = [parser EXCEPT !.params = j]
      BY <2>4, <3>3
    <3>5. /\ s.index = x /\ s.started /\ s.params = j /\ s.json = parser.json
          /\ s.closed = parser.closed /\ s.header = parser.header
      BY <1>9, <1>15, <3>4 DEF Parsers
    <3> HIDE DEF s
    <3> QED BY <1>19, <2>1, <3>1, <3>5 DEF j
  <2>6. CASE u = v
    <3>1. NewParams(text) = {}
      <4>1. ~(parser.params + 1 <= v - b) /\ parser.params + 1 \in Int /\ v - b \in Int
        BY <1>7, <1>9, <1>15, <2>6
      <4> QED BY <2>3, <4>1
    <3>2. CASE g <= q
      <4>1. s = [parser EXCEPT !.closed = TRUE, !.inFunction = FALSE]
        BY <2>4, <3>1, <3>2
      <4>2. /\ s.index = x /\ s.started /\ s.params = parser.params /\ s.json = parser.json
            /\ s.closed = TRUE /\ s.header = parser.header
        BY <1>9, <1>15, <4>1 DEF Parsers
      <4> HIDE DEF s
      <4> QED BY <1>9, <1>19, <2>1, <2>6, <3>2, <4>2
    <3>3. CASE ~(g <= q)
      <4>1. s = parser
        BY <2>4, <3>1, <3>3
      <4> QED BY <1>9, <1>19, <2>1, <2>6, <3>3, <4>1
    <3> QED BY <3>2, <3>3
  <2>7. u < v \/ u = v
    BY <1>7, <1>8
  <2> QED BY <2>5, <2>6, <2>7
<1> QED BY <1>12, <1>17, <1>18, <1>19

(* The inductive invariant, with what holds of single tokens.              *)
TInv == IInv /\ (~coarse => TokenOK(answer, pos, parser))

(* Every step keeps the invariant.                                         *)
LEMMA TokenHolds == TInv /\ [Next]_vars => TInv'
<1> SUFFICES ASSUME TInv, [Next]_vars PROVE TInv'
  OBVIOUS
<1>0. IInv /\ IInv' /\ (~coarse => TokenOK(answer, pos, parser))
  BY NextHolds DEF TInv
<1>1. ASSUME NEW n \in 0..MaxDelta, Delta(n), ~coarse' PROVE TokenOK(answer', pos', parser')
  <2> DEFINE delta == SubSeq(answer, pos + 1, pos + n)
             text == Upto(answer, pos + n)
  <2>1. /\ n \in Nat /\ pos + n <= Len(answer) /\ pos' = pos + n /\ answer' = answer
        /\ Branches(delta, text) /\ ~coarse /\ ~(n > 1)
    <3>1. n \in Nat
      BY CoderAssumption DEF CoderAssumption
    <3>2. /\ pos + n <= Len(answer) /\ pos' = pos + n /\ answer' = answer
          /\ Branches(delta, text) /\ coarse' = (coarse \/ n > 1)
      BY <1>1 DEF Delta
    <3> HIDE DEF delta, text
    <3>3. ~coarse /\ ~(n > 1)
      BY <1>1, <3>2, Zenon
    <3> QED BY <3>1, <3>2, <3>3
  <2>2. answer \in Seq(Symbols) /\ pos \in 0..Len(answer) /\ pos \in Nat
    BY <1>0 DEF IInv
  <2>3. n = 0 \/ n = 1
    BY <2>1
  <2>4. TokenOK(answer, pos, parser)
    BY <1>0, <2>1
  <2>5. CASE n = 0
    <3>1. delta = <<>>
      BY <2>1, <2>2, <2>5, DeltaIs
    <3>2. parser' = parser
      BY <2>1, <3>1 DEF Branches, NoText, NextCall, CallBegins, PlainText, Header, OpenBrace,
           Params, CloseBrace, NothingYet
    <3>3. pos' = pos
      BY <2>1, <2>2, <2>5
    <3> QED BY <2>1, <2>4, <3>2, <3>3
  <2>6. CASE n = 1
    <3>1. /\ pos' = pos + 1 /\ pos + 1 <= Len(answer)
          /\ Branches(SubSeq(answer, pos + 1, pos + 1), Upto(answer, pos + 1))
      BY <2>1, <2>6
    <3>2. \/ No(answer, "<tool_call>", pos) = No(answer, "</tool_call>", pos)
          \/ No(answer, "<tool_call>", pos) = No(answer, "</tool_call>", pos) + 1
      <4>1. PICK st : Staged(answer, st)
        BY <1>0, <3>1, OneToken
      <4> QED BY <2>2, <4>1, Place
    <3>3. TokenOK(answer, pos + 1, parser')
      BY <1>0, <2>4, <3>1, <3>2, TokenBetween, TokenEnds, TokenWithin
    <3> QED BY <2>1, <3>1, <3>3
  <2> QED BY <2>3, <2>5, <2>6
<1>2. CASE Finalize
  BY <1>0, <1>2 DEF Finalize, TInv
<1>3. CASE UNCHANGED vars
  BY <1>0, <1>3 DEF vars, TInv
<1>4. ASSUME NEW n \in 0..MaxDelta, Delta(n) PROVE TInv'
  BY <1>0, <1>1, <1>4 DEF TInv
<1> QED BY <1>2, <1>3, <1>4 DEF Next

(* The invariant says what the property says.                              *)
LEMMA TokensSufficeHolds == TInv => TokensSuffice
<1> SUFFICES ASSUME TInv, pos = Len(answer), ~coarse
             PROVE  /\ client.calls = Written
                    /\ [i \in DOMAIN client.calls |-> Read(client.calls[i])] = Whole
  BY DEF TokensSuffice
<1> DEFINE N == No(answer, "<tool_call>", Len(answer))
           calls == client.calls
           k == parser.index + 1
           o == Begins(answer, k)
           g == Ends(answer, k)
           b == No(answer, "<parameter=", o)
           total == No(answer, "<parameter=", g) - b
<1>1. /\ IInv /\ answer \in Seq(Symbols) /\ WellFormed(answer) /\ pos \in 0..Len(answer)
      /\ TokenOK(answer, pos, parser) /\ ParserOK(answer, pos, parser)
  BY DEF TInv, IInv
<1>2. PICK st : Staged(answer, st)
  BY <1>1, StagesOf
<1>3. /\ Written = [i \in 1..N |-> WrittenCall(answer, Begins(answer, i), Ends(answer, i))]
      /\ Whole = [i \in 1..N |-> Read(WrittenCall(answer, Begins(answer, i), Ends(answer, i)))]
  BY <1>1, <1>2, WholeIs
<1>4. No(answer, "<tool_call>", pos) = N /\ No(answer, "</tool_call>", pos) = N /\ N \in Nat
  <2>1. Level(answer, st, pos) /\ st[pos] \in {"text", "after"}
    BY <1>1, <1>2, Levels DEF Staged
  <2>2. N \in Nat
    BY <1>1, <1>2, Counts
  <2> QED BY <2>1, <2>2 DEF Level
<1>5. \/ parser.index = N /\ ~parser.started
      \/ parser.index + 1 = N /\ parser.closed
  BY <1>1, <1>4 DEF TokenOK
<1>6. /\ parser.index \in Nat /\ parser.params \in Nat
      /\ parser.header => parser.started
      /\ parser.json => parser.header
      /\ parser.closed => parser.json /\ parser.params = total
  BY <1>1 DEF ParserOK
<1>7. /\ calls \in Seq([name : Symbols, args : Seq(Jsons(answer))])
      /\ Len(calls) = IF parser.header THEN k ELSE parser.index
      /\ \A i \in 1..parser.index :
           calls[i] = WrittenCall(answer, Begins(answer, i), Ends(answer, i))
      /\ parser.header => calls[k] = [name |-> answer[o + 2], args |-> Sent(answer, b, parser)]
  BY <1>1 DEF IInv, ClientOK
<1>8. /\ Len(calls) = N
      /\ \A i \in 1..N : calls[i] = WrittenCall(answer, Begins(answer, i), Ends(answer, i))
  <2>1. CASE parser.index = N /\ ~parser.started
    BY <1>6, <1>7, <2>1
  <2>2. CASE parser.index + 1 = N /\ parser.closed
    <3> HIDE DEF o, g, b, total
    <3>1. parser.json /\ parser.header /\ parser.params = total /\ k = N
      BY <1>6, <2>2
    <3>2. calls[k] = WrittenCall(answer, o, g)
      <4>1. calls[k] = [name |-> answer[o + 2], args |-> Sent(answer, b, parser)]
        BY <1>7, <3>1
      <4> HIDE DEF calls, k
      <4> QED BY <2>2, <3>1, <4>1 DEF Sent, First, WrittenCall, Pieces, b, total
    <3>3. calls[k] = WrittenCall(answer, Begins(answer, k), Ends(answer, k))
      BY <3>2 DEF o, g
    <3> HIDE DEF k, calls
    <3>4. \A i \in 1..N : i = k \/ i \in 1..parser.index
      BY <1>6, <2>2, <3>1
    <3> QED BY <1>7, <3>1, <3>3, <3>4
  <2> QED BY <1>5, <2>1, <2>2
<1>9. calls = [i \in 1..N |-> WrittenCall(answer, Begins(answer, i), Ends(answer, i))]
  <2> HIDE DEF calls
  <2>1. calls = [i \in 1..N |-> calls[i]]
    BY <1>4, <1>7, <1>8
  <2> QED BY <1>8, <2>1
<1>10. [i \in DOMAIN calls |-> Read(calls[i])] = Whole
  <2> HIDE DEF calls, N
  <2>1. DOMAIN calls = 1..N
    BY <1>9
  <2>2. \A i \in 1..N :
          Read(calls[i]) = Read(WrittenCall(answer, Begins(answer, i), Ends(answer, i)))
    BY <1>8
  <2> QED BY <1>3, <2>1, <2>2
<1> QED BY <1>3, <1>9, <1>10

(* Whatever the answer, if it comes token by token the client has all of   *)
(* its calls, complete, when it is over, though each delta sends at most   *)
(* one piece, and reads them as what a plain request is given.             *)
THEOREM TokensSufficeAlways == Spec => []TokensSuffice
<1>1. Init => TInv
  <2> SUFFICES ASSUME Init PROVE TInv
    OBVIOUS
  <2>1. IInv
    BY InitHolds
  <2>2. No(answer, "<tool_call>", 0) = 0 /\ No(answer, "</tool_call>", 0) = 0
    BY NoBase
  <2>3. pos = 0 /\ parser.index = 0 /\ ~parser.started
    BY DEF Init, NewParser
  <2>4. TokenOK(answer, pos, parser)
    BY <2>2, <2>3, Waits
  <2> QED BY <2>1, <2>4 DEF TInv
<1>2. TInv /\ [Next]_vars => TInv'
  BY TokenHolds
<1>3. TInv => TokensSuffice
  BY TokensSufficeHolds
<1> QED BY <1>1, <1>2, <1>3, PTL DEF Spec
=============================================================================

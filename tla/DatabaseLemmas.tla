--------------------------- MODULE DatabaseLemmas ---------------------------
(* Facts about sequences and about the steps of the database thread, for   *)
(* those who compose it with its callers: DatabaseService and Server.      *)
EXTENDS Database, FiniteSetTheorems, SequenceTheorems, TLAPS

-----------------------------------------------------------------------------
(* Sequences.                                                              *)

\* Moving the first element of a sequence to the end of the one before it.
LEMMA HeadMoved ==
  ASSUME NEW S, NEW w \in Seq(S), NEW o \in Seq(S), o # <<>>
  PROVE  Append(w, Head(o)) \o Tail(o) = w \o o
<1> DEFINE a == Append(w, Head(o))
           b == Tail(o)
<1>1. /\ Head(o) \in S /\ b \in Seq(S) /\ Len(b) = Len(o) - 1
      /\ Head(o) = o[1]
      /\ \A i \in 1 .. Len(o) - 1 : b[i] = o[i + 1]
      /\ Len(o) \in Nat \ {0} /\ Len(w) \in Nat
  BY HeadTailProperties, LenProperties, EmptySeq
<1>2. /\ a \in Seq(S) /\ Len(a) = Len(w) + 1
      /\ \A i \in 1 .. Len(w) : a[i] = w[i]
      /\ a[Len(w) + 1] = Head(o)
  BY <1>1, AppendProperties
<1> HIDE DEF a, b
<1>3. /\ a \o b \in Seq(S) /\ Len(a \o b) = Len(w) + Len(o)
      /\ \A i \in 1 .. Len(w) + Len(o) :
           (a \o b)[i] = IF i <= Len(w) + 1 THEN a[i] ELSE b[i - (Len(w) + 1)]
  <2>1. /\ a \o b \in Seq(S) /\ Len(a \o b) = Len(a) + Len(b)
        /\ \A i \in 1 .. Len(a) + Len(b) :
             (a \o b)[i] = IF i <= Len(a) THEN a[i] ELSE b[i - Len(a)]
    BY <1>1, <1>2, ConcatProperties
  <2>2. Len(a) + Len(b) = Len(w) + Len(o)
    BY <1>1, <1>2
  <2> QED
    BY <1>2, <2>1, <2>2
<1>4. /\ w \o o \in Seq(S) /\ Len(w \o o) = Len(w) + Len(o)
      /\ \A i \in 1 .. Len(w) + Len(o) :
           (w \o o)[i] = IF i <= Len(w) THEN w[i] ELSE o[i - Len(w)]
  BY ConcatProperties
<1>5. ASSUME NEW i \in 1 .. Len(w) + Len(o) PROVE (a \o b)[i] = (w \o o)[i]
  <2>0. /\ i \in Nat /\ i <= Len(w) + Len(o)
        /\ Len(w) \in Nat /\ Len(o) \in Nat
    BY <1>1
  <2>1. CASE i <= Len(w)
    BY <1>1, <1>2, <1>3, <1>4, <2>1
  <2>2. CASE i = Len(w) + 1
    <3>1. (a \o b)[i] = o[1] /\ (w \o o)[i] = o[1]
      BY <1>1, <1>2, <1>3, <1>4, <2>2
    <3> QED
      BY <3>1
  <2>3. CASE i > Len(w) + 1
    <3>1. (a \o b)[i] = b[i - (Len(w) + 1)] /\ (w \o o)[i] = o[i - Len(w)]
      BY <1>1, <1>3, <1>4, <2>3
    <3>2. /\ i - (Len(w) + 1) \in 1 .. Len(o) - 1
          /\ (i - (Len(w) + 1)) + 1 = i - Len(w)
      BY <2>0, <2>3
    <3>3. b[i - (Len(w) + 1)] = o[(i - (Len(w) + 1)) + 1]
      BY <1>1, <3>2
    <3> QED
      BY <3>1, <3>2, <3>3
  <2>4. i <= Len(w) \/ i = Len(w) + 1 \/ i > Len(w) + 1
    BY <2>0
  <2> QED
    BY <2>1, <2>2, <2>3, <2>4
<1> QED
  BY <1>3, <1>4, <1>5, SeqEqual DEF a, b

LEMMA AppendConcat ==
  ASSUME NEW S, NEW a \in Seq(S), NEW b \in Seq(S), NEW x \in S
  PROVE  a \o Append(b, x) = Append(a \o b, x)
<1>1. <<x>> \in Seq(S) /\ a \o b \in Seq(S)
  BY ConcatProperties
<1>2. a \o (b \o <<x>>) = (a \o b) \o <<x>>
  BY <1>1, ConcatAssociative
<1> QED
  BY <1>1, <1>2, AppendIsConcat

LEMMA HeadTail ==
  ASSUME NEW S, NEW seq \in Seq(S), seq # <<>>
  PROVE  seq = <<Head(seq)>> \o Tail(seq)
<1>1. <<>> \in Seq(S) /\ <<>> \o seq = seq /\ Append(<<>>, Head(seq)) = <<Head(seq)>>
  BY EmptySeq, ConcatEmptySeq
<1>2. Append(<<>>, Head(seq)) \o Tail(seq) = <<>> \o seq
  BY <1>1, HeadMoved
<1> QED
  BY <1>1, <1>2

\* Induction over the naturals, for membership in a set: otherwise the members
\* of 0 .. n could be mapped one to one into the n members of 0 .. n - 1.
LEMMA SetInduction ==
  ASSUME NEW S, 0 \in S, \A n \in Nat : n \in S => n + 1 \in S
  PROVE  Nat \subseteq S
<1> SUFFICES ASSUME NEW n \in Nat, n \notin S PROVE FALSE
  OBVIOUS
<1> DEFINE f == [i \in 0 .. n |-> IF i \in S THEN i ELSE i - 1]
<1>1. f \in [0 .. n -> 0 .. n - 1]
  <2> SUFFICES ASSUME NEW i \in 0 .. n
               PROVE  (IF i \in S THEN i ELSE i - 1) \in 0 .. n - 1
    OBVIOUS
  <2> QED
    OBVIOUS
<1>2. \A i, j \in 0 .. n : f[i] = f[j] => i = j
  <2> SUFFICES ASSUME NEW i \in 0 .. n, NEW j \in 0 .. n, i \in S, j \notin S, i = j - 1
               PROVE  FALSE
    OBVIOUS
  <2> QED
    OBVIOUS
<1>3. \A a, b \in Int : /\ IsFiniteSet(a .. b)
                       /\ Cardinality(a .. b) = IF a > b THEN 0 ELSE b - a + 1
  BY FS_Interval
<1>4. /\ IsFiniteSet(0 .. n) /\ IsFiniteSet(0 .. n - 1)
      /\ Cardinality(0 .. n) = n + 1 /\ Cardinality(0 .. n - 1) = n
  <2>1. 0 \in Int /\ n \in Int /\ n - 1 \in Int /\ ~(0 > n)
    OBVIOUS
  <2>2. Cardinality(0 .. n) = n + 1
    BY <1>3, <2>1
  <2>3. Cardinality(0 .. n - 1) = n
    <3>1. Cardinality(0 .. n - 1) = IF 0 > n - 1 THEN 0 ELSE (n - 1) - 0 + 1
      BY <1>3, <2>1
    <3> QED
      BY <3>1
  <2> QED
    BY <1>3, <2>1, <2>2, <2>3
<1>5. Cardinality(0 .. n - 1) < Cardinality(0 .. n)
  BY <1>4
<1> HIDE DEF f
<1>6. \E i, j \in 0 .. n : i # j /\ f[i] = f[j]
  <2> DEFINE A == 0 .. n
             B == 0 .. n - 1
  <2>1. IsFiniteSet(A) /\ IsFiniteSet(B) /\ Cardinality(B) < Cardinality(A) /\ f \in [A -> B]
    BY <1>1, <1>4, <1>5
  <2> HIDE DEF A, B
  <2>2. \E i, j \in A : i # j /\ f[i] = f[j]
    BY <2>1, FS_PigeonHole
  <2> QED
    BY <2>2 DEF A
<1> QED
  BY <1>2, <1>6

\* What holds of the empty sequence and is kept by Append holds of every
\* sequence: for the sequences of a set P.
LEMMA SeqInduction ==
  ASSUME NEW S, NEW P, <<>> \in P,
         \A seq \in Seq(S), x \in S : seq \in P => Append(seq, x) \in P
  PROVE  Seq(S) \subseteq P
<1> DEFINE N == {n \in Nat : \A seq \in Seq(S) : Len(seq) = n => seq \in P}
<1>1. 0 \in N
  BY EmptySeq
<1>2. ASSUME NEW n \in Nat, n \in N PROVE n + 1 \in N
  <2> SUFFICES ASSUME NEW seq \in Seq(S), Len(seq) = n + 1 PROVE seq \in P
    OBVIOUS
  <2>1. seq # <<>>
    BY EmptySeq
  <2>2. PICK front \in Seq(S), x \in S : seq = Append(front, x)
    BY <2>1, SequenceEmptyOrAppend
  <2>3. Len(front) = n
    BY <2>2, AppendProperties, LenProperties
  <2> QED
    BY <1>2, <2>2, <2>3
<1> HIDE DEF N
<1>3. Nat \subseteq N
  BY <1>1, <1>2, SetInduction
<1> QED
  BY <1>3, LenProperties DEF N

-----------------------------------------------------------------------------
(* The elements of some types.                                             *)

\* The equation of the function that OfType takes its value from.
Keeps(g, seq, types, m) ==
    g = [n \in 0 .. m |->
            IF n = 0 THEN <<>>
            ELSE IF seq[n].type \in types THEN Append(g[n - 1], seq[n])
            ELSE g[n - 1]]

LEMMA KeepsExists ==
  ASSUME NEW seq, NEW types
  PROVE  \A m \in Nat : \E g : Keeps(g, seq, types, m)
<1> DEFINE S == {m \in Nat : \E g : Keeps(g, seq, types, m)}
<1>1. 0 \in S
  <2> DEFINE g == [n \in 0 .. 0 |-> <<>>]
  <2>1. Keeps(g, seq, types, 0)
    BY DEF Keeps
  <2> QED
    BY <2>1
<1>2. ASSUME NEW m \in Nat, m \in S PROVE m + 1 \in S
  <2>1. PICK g : Keeps(g, seq, types, m)
    BY <1>2
  <2> DEFINE h == [n \in 0 .. m + 1 |->
                      IF n <= m THEN g[n]
                      ELSE IF seq[n].type \in types THEN Append(g[n - 1], seq[n])
                      ELSE g[n - 1]]
  <2>2. \A n \in 0 .. m : g[n] = IF n = 0 THEN <<>>
            ELSE IF seq[n].type \in types THEN Append(g[n - 1], seq[n])
            ELSE g[n - 1]
    BY <2>1 DEF Keeps
  <2>3. \A n \in 0 .. m + 1 : h[n] = IF n = 0 THEN <<>>
            ELSE IF seq[n].type \in types THEN Append(h[n - 1], seq[n])
            ELSE h[n - 1]
    BY <2>2
  <2>4. Keeps(h, seq, types, m + 1)
    BY <2>3 DEF Keeps
  <2> QED
    BY <2>4
<1> HIDE DEF S
<1>3. Nat \subseteq S
  BY <1>1, <1>2, SetInduction
<1> QED
  BY <1>3 DEF S

\* It depends on the elements it has passed only.
LEMMA KeepsAgree ==
  ASSUME NEW seq, NEW more, NEW types, NEW m \in Nat, NEW k \in Nat, m <= k,
         NEW g, Keeps(g, seq, types, m), NEW h, Keeps(h, more, types, k),
         \A n \in 1 .. m : seq[n] = more[n]
  PROVE  g[m] = h[m]
<1> DEFINE S == {n \in Nat : n <= m => g[n] = h[n]}
<1>1. /\ \A n \in 0 .. m : g[n] = IF n = 0 THEN <<>>
            ELSE IF seq[n].type \in types THEN Append(g[n - 1], seq[n]) ELSE g[n - 1]
      /\ \A n \in 0 .. k : h[n] = IF n = 0 THEN <<>>
            ELSE IF more[n].type \in types THEN Append(h[n - 1], more[n]) ELSE h[n - 1]
  BY DEF Keeps
<1>2. 0 \in S
  BY <1>1
<1>3. ASSUME NEW n \in Nat, n \in S PROVE n + 1 \in S
  <2> SUFFICES ASSUME n + 1 <= m PROVE g[n + 1] = h[n + 1]
    OBVIOUS
  <2>1. g[n] = h[n] /\ seq[n + 1] = more[n + 1]
    BY <1>3
  <2>2. g[n + 1] = IF seq[n + 1].type \in types THEN Append(g[n], seq[n + 1]) ELSE g[n]
    <3>1. n + 1 \in 0 .. m /\ n + 1 # 0 /\ (n + 1) - 1 = n
      OBVIOUS
    <3> QED
      BY <1>1, <3>1
  <2>3. h[n + 1] = IF more[n + 1].type \in types THEN Append(h[n], more[n + 1]) ELSE h[n]
    <3>1. n + 1 \in 0 .. k /\ n + 1 # 0 /\ (n + 1) - 1 = n
      OBVIOUS
    <3> QED
      BY <1>1, <3>1
  <2> QED
    BY <2>1, <2>2, <2>3
<1> HIDE DEF S
<1>4. Nat \subseteq S
  BY <1>2, <1>3, SetInduction
<1> QED
  BY <1>4 DEF S

LEMMA OfTypeKeeps ==
  ASSUME NEW seq, Len(seq) \in Nat, NEW types
  PROVE  \E g : Keeps(g, seq, types, Len(seq)) /\ OfType(seq, types) = g[Len(seq)]
<1> DEFINE f == CHOOSE g : Keeps(g, seq, types, Len(seq))
<1>1. Keeps(f, seq, types, Len(seq))
  BY KeepsExists
<1>2. OfType(seq, types) = f[Len(seq)]
  BY DEF OfType, Keeps
<1> QED
  BY <1>1, <1>2

LEMMA OfTypeEmpty ==
  ASSUME NEW types PROVE OfType(<<>>, types) = <<>>
<1>1. Len(<<>>) = 0
  BY EmptySeq
<1>2. PICK g : Keeps(g, <<>>, types, 0) /\ OfType(<<>>, types) = g[0]
  BY <1>1, OfTypeKeeps
<1> QED
  BY <1>2 DEF Keeps

LEMMA OfTypeAppend ==
  ASSUME NEW S, NEW seq \in Seq(S), NEW x \in S, NEW types
  PROVE  OfType(Append(seq, x), types) =
           IF x.type \in types THEN Append(OfType(seq, types), x) ELSE OfType(seq, types)
<1> DEFINE more == Append(seq, x)
           m == Len(seq)
<1>1. /\ m \in Nat /\ Len(more) = m + 1 /\ more[m + 1] = x
      /\ \A n \in 1 .. m : seq[n] = more[n]
  BY AppendProperties, LenProperties
<1> HIDE DEF more, m
<1>2. PICK g : Keeps(g, seq, types, m) /\ OfType(seq, types) = g[m]
  BY <1>1, OfTypeKeeps DEF m
<1>3. PICK h : Keeps(h, more, types, m + 1) /\ OfType(more, types) = h[m + 1]
  BY <1>1, OfTypeKeeps
<1>4. h[m] = g[m]
  BY <1>1, <1>2, <1>3, KeepsAgree
<1>5. h[m + 1] = IF more[m + 1].type \in types THEN Append(h[m], more[m + 1]) ELSE h[m]
  <2>1. m + 1 \in 0 .. m + 1 /\ m + 1 # 0 /\ (m + 1) - 1 = m
    BY <1>1
  <2> QED
    BY <1>3, <2>1 DEF Keeps
<1> QED
  BY <1>1, <1>2, <1>3, <1>4, <1>5 DEF more
LEMMA OfTypeTyped ==
  ASSUME NEW S, NEW seq \in Seq(S), NEW types
  PROVE  OfType(seq, types) \in Seq({x \in S : x.type \in types})
<1> DEFINE T == {x \in S : x.type \in types}
           P == {q \in Seq(S) : OfType(q, types) \in Seq(T)}
<1>1. <<>> \in P
  BY OfTypeEmpty, EmptySeq
<1>2. ASSUME NEW q \in Seq(S), NEW x \in S, q \in P PROVE Append(q, x) \in P
  <2>1. Append(q, x) \in Seq(S)
    BY AppendProperties
  <2>2. CASE x.type \in types
    <3>1. OfType(Append(q, x), types) = Append(OfType(q, types), x)
      BY <2>2, OfTypeAppend
    <3>2. x \in T /\ OfType(q, types) \in Seq(T)
      BY <1>2, <2>2
    <3> HIDE DEF T
    <3>3. Append(OfType(q, types), x) \in Seq(T)
      BY <3>2, AppendProperties
    <3> QED
      BY <2>1, <3>1, <3>3
  <2>3. CASE x.type \notin types
    <3>1. OfType(Append(q, x), types) = OfType(q, types)
      BY <2>3, OfTypeAppend
    <3> QED
      BY <1>2, <2>1, <3>1
  <2> QED
    BY <2>2, <2>3
<1> HIDE DEF P, T
<1>3. Seq(S) \subseteq P
  BY <1>1, <1>2, SeqInduction
<1> QED
  BY <1>3 DEF P, T

LEMMA OfTypeNone ==
  ASSUME NEW S, NEW seq \in Seq(S), NEW types, \A i \in DOMAIN seq : seq[i].type \notin types
  PROVE  OfType(seq, types) = <<>>
<1> DEFINE R == {x \in S : x.type \notin types}
           T == {x \in R : x.type \in types}
<1>1. seq \in Seq(R)
  <2>1. /\ seq \in [1 .. Len(seq) -> S] /\ Len(seq) \in Nat /\ DOMAIN seq = 1 .. Len(seq)
    BY LenProperties
  <2>2. seq \in [1 .. Len(seq) -> R]
    BY <2>1
  <2> HIDE DEF R
  <2> QED
    BY <2>1, <2>2
<1>2. T = {}
  OBVIOUS
<1>3. OfType(seq, types) \in Seq(T)
  <2> HIDE DEF R
  <2> QED
    BY <1>1, OfTypeTyped
<1> DEFINE kept == OfType(seq, types)
<1> HIDE DEF kept, T
<1>4. kept \in Seq(T)
  BY <1>3 DEF kept
<1>5. kept = <<>>
  <2> SUFFICES ASSUME kept # <<>> PROVE FALSE
    OBVIOUS
  <2>1. Head(kept) \in T
    BY <1>4, HeadTailProperties
  <2> QED
    BY <1>2, <2>1
<1> QED
  BY <1>5 DEF kept

LEMMA OfTypeConcat ==
  ASSUME NEW S, NEW a \in Seq(S), NEW b \in Seq(S), NEW types
  PROVE  OfType(a \o b, types) = OfType(a, types) \o OfType(b, types)
<1> DEFINE P == {q \in Seq(S) : OfType(a \o q, types) = OfType(a, types) \o OfType(q, types)}
           kept == OfType(a, types)
<1>0. /\ kept \in Seq(S)
      /\ \A q \in Seq(S) : OfType(q, types) \in Seq(S)
  <2>1. {x \in S : x.type \in types} \subseteq S
    OBVIOUS
  <2>2. \A q \in Seq(S) : OfType(q, types) \in Seq({x \in S : x.type \in types})
    BY OfTypeTyped
  <2> QED
    BY <2>1, <2>2, SeqMonotonic
<1>1. <<>> \in P
  <2>1. a \o <<>> = a /\ kept \o <<>> = kept /\ <<>> \in Seq(S)
    BY <1>0, ConcatEmptySeq, EmptySeq
  <2> QED
    BY <2>1, OfTypeEmpty
<1>2. ASSUME NEW q \in Seq(S), NEW x \in S, q \in P PROVE Append(q, x) \in P
  <2>1. a \o Append(q, x) = Append(a \o q, x) /\ a \o q \in Seq(S)
    BY AppendConcat, ConcatProperties
  <2>2. OfType(a \o q, types) = kept \o OfType(q, types)
    BY <1>2
  <2>3. Append(q, x) \in Seq(S)
    BY AppendProperties
  <2>4. CASE x.type \in types
    <3>1. OfType(Append(a \o q, x), types) = Append(kept \o OfType(q, types), x)
      BY <2>1, <2>2, <2>4, OfTypeAppend
    <3>2. OfType(Append(q, x), types) = Append(OfType(q, types), x)
      BY <2>4, OfTypeAppend
    <3>3. kept \o Append(OfType(q, types), x) = Append(kept \o OfType(q, types), x)
      BY <1>0, AppendConcat
    <3> QED
      BY <2>1, <2>3, <3>1, <3>2, <3>3
  <2>5. CASE x.type \notin types
    <3>1. OfType(Append(a \o q, x), types) = OfType(a \o q, types)
      BY <2>1, <2>5, OfTypeAppend
    <3>2. OfType(Append(q, x), types) = OfType(q, types)
      BY <2>5, OfTypeAppend
    <3> QED
      BY <2>1, <2>2, <2>3, <3>1, <3>2
  <2> QED
    BY <2>4, <2>5
<1> HIDE DEF P
<1>3. Seq(S) \subseteq P
  BY <1>1, <1>2, SeqInduction
<1> QED
  BY <1>3 DEF P

LEMMA OfTypeTail ==
  ASSUME NEW S, NEW seq \in Seq(S), seq # <<>>, NEW types
  PROVE  OfType(seq, types) =
           IF Head(seq).type \in types
           THEN <<Head(seq)>> \o OfType(Tail(seq), types)
           ELSE OfType(Tail(seq), types)
<1> DEFINE x == Head(seq)
           rest == Tail(seq)
<1>1. x \in S /\ rest \in Seq(S) /\ <<x>> \in Seq(S)
  <2>1. x \in S /\ rest \in Seq(S)
    BY HeadTailProperties
  <2> HIDE DEF x
  <2> QED
    BY <2>1
<1>2. seq = <<x>> \o rest
  BY HeadTail
<1> HIDE DEF x, rest
<1>3. OfType(seq, types) = OfType(<<x>>, types) \o OfType(rest, types)
  <2> DEFINE first == <<x>>
  <2>1. first \in Seq(S)
    BY <1>1
  <2> HIDE DEF first
  <2>2. OfType(first \o rest, types) = OfType(first, types) \o OfType(rest, types)
    BY <1>1, <2>1, OfTypeConcat
  <2> QED
    BY <1>2, <2>2 DEF first
<1>4. OfType(<<x>>, types) = IF x.type \in types THEN <<x>> ELSE <<>>
  <2>1. <<x>> = Append(<<>>, x) /\ <<>> \in Seq(S)
    BY <1>1, EmptySeq
  <2>2. OfType(Append(<<>>, x), types) =
          IF x.type \in types THEN Append(OfType(<<>>, types), x) ELSE OfType(<<>>, types)
    BY <1>1, <2>1, OfTypeAppend
  <2> QED
    BY <2>1, <2>2, OfTypeEmpty
<1>5. OfType(rest, types) \in Seq({y \in S : y.type \in types})
  BY <1>1, OfTypeTyped
<1>6. <<>> \o OfType(rest, types) = OfType(rest, types)
  BY <1>5, ConcatEmptySeq
<1> QED
  BY <1>3, <1>4, <1>6 DEF x, rest

-----------------------------------------------------------------------------
(* Applying a function to every element.                                   *)

Mapped(seq, g) == [i \in DOMAIN seq |-> g[seq[i]]]

LEMMA MappedTyped ==
  ASSUME NEW S, NEW T, NEW seq \in Seq(S), NEW g, \A x \in S : g[x] \in T
  PROVE  /\ Mapped(seq, g) \in Seq(T)
         /\ Len(Mapped(seq, g)) = Len(seq)
         /\ \A i \in 1 .. Len(seq) : Mapped(seq, g)[i] = g[seq[i]]
<1>1. DOMAIN seq = 1 .. Len(seq) /\ Len(seq) \in Nat
  BY LenProperties
<1>2. \A i \in 1 .. Len(seq) : seq[i] \in S /\ g[seq[i]] \in T
  BY ElementOfSeq
<1>3. Mapped(seq, g) \in [1 .. Len(seq) -> T]
  BY <1>1, <1>2 DEF Mapped
<1>4. Mapped(seq, g) \in Seq(T)
  BY <1>1, <1>3
<1>5. Len(Mapped(seq, g)) = Len(seq)
  BY <1>1, <1>3
<1> QED
  BY <1>1, <1>4, <1>5 DEF Mapped

LEMMA MappedEmpty ==
  ASSUME NEW g PROVE Mapped(<<>>, g) = <<>>
<1>1. DOMAIN <<>> = {}
  BY EmptySeq
<1> QED
  BY <1>1 DEF Mapped

LEMMA MappedConcat ==
  ASSUME NEW S, NEW a \in Seq(S), NEW b \in Seq(S), NEW g
  PROVE  Mapped(a \o b, g) = Mapped(a, g) \o Mapped(b, g)
<1> DEFINE T == {g[x] : x \in S}
           ab == a \o b
           ga == Mapped(a, g)
           gb == Mapped(b, g)
           gab == Mapped(ab, g)
           n == Len(a)
           m == Len(b)
<1>1. /\ ab \in Seq(S) /\ Len(ab) = n + m /\ n \in Nat /\ m \in Nat
      /\ \A i \in 1 .. n + m : ab[i] = IF i <= n THEN a[i] ELSE b[i - n]
  BY ConcatProperties, LenProperties
<1> HIDE DEF ab
<1>2. /\ ga \in Seq(T) /\ Len(ga) = n /\ \A i \in 1 .. n : ga[i] = g[a[i]]
      /\ gb \in Seq(T) /\ Len(gb) = m /\ \A i \in 1 .. m : gb[i] = g[b[i]]
      /\ gab \in Seq(T) /\ Len(gab) = n + m /\ \A i \in 1 .. n + m : gab[i] = g[ab[i]]
  <2>1. \A q \in Seq(S) :
          /\ Mapped(q, g) \in Seq(T) /\ Len(Mapped(q, g)) = Len(q)
          /\ \A i \in 1 .. Len(q) : Mapped(q, g)[i] = g[q[i]]
    <3>1. \A x \in S : g[x] \in T
      OBVIOUS
    <3> HIDE DEF T
    <3> QED
      BY <3>1, MappedTyped
  <2> QED
    BY <1>1, <2>1
<1> HIDE DEF T, ga, gb, gab, n, m
<1> DEFINE gg == ga \o gb
<1>3. /\ gg \in Seq(T) /\ Len(gg) = n + m
      /\ \A i \in 1 .. n + m : gg[i] = IF i <= n THEN ga[i] ELSE gb[i - n]
  <2>1. /\ ga \o gb \in Seq(T) /\ Len(ga \o gb) = Len(ga) + Len(gb)
        /\ \A i \in 1 .. Len(ga) + Len(gb) :
             (ga \o gb)[i] = IF i <= Len(ga) THEN ga[i] ELSE gb[i - Len(ga)]
    BY <1>2, ConcatProperties
  <2> QED
    BY <1>2, <2>1
<1> HIDE DEF gg
<1>4. ASSUME NEW i \in 1 .. n + m PROVE gab[i] = gg[i]
  <2>1. gab[i] = g[ab[i]]
    BY <1>2
  <2>2. CASE i <= n
    <3>1. i \in 1 .. n
      BY <1>1, <2>2
    <3>2. ga[i] = g[a[i]]
      BY <1>2, <3>1
    <3>3. ab[i] = a[i] /\ gg[i] = ga[i]
      BY <1>1, <1>3, <2>2
    <3> QED
      BY <2>1, <3>2, <3>3
  <2>3. CASE i > n
    <3> DEFINE k == i - n
    <3>1. k \in 1 .. m /\ ~(i <= n)
      BY <1>1, <2>3
    <3>2. ab[i] = b[k] /\ gg[i] = gb[k]
      BY <1>1, <1>3, <3>1
    <3> HIDE DEF k
    <3>3. gb[k] = g[b[k]]
      BY <1>2, <3>1
    <3> QED
      BY <2>1, <3>2, <3>3
  <2>4. i <= n \/ i > n
    BY <1>1
  <2> QED
    BY <2>2, <2>3, <2>4
<1>5. gab = gg
  BY <1>2, <1>3, <1>4, SeqEqual
<1> QED
  BY <1>5 DEF gab, gg, ga, gb, ab

LEMMA MappedAppend ==
  ASSUME NEW S, NEW seq \in Seq(S), NEW x \in S, NEW g
  PROVE  Mapped(Append(seq, x), g) = Append(Mapped(seq, g), g[x])
<1> DEFINE one == <<x>>
           T == {g[y] : y \in S}
<1>1. one \in Seq(S) /\ Append(seq, x) = seq \o one
  BY AppendIsConcat
<1>2. Mapped(one, g) = <<g[x]>>
  BY DEF Mapped
<1>3. \A y \in S : g[y] \in T
  OBVIOUS
<1> HIDE DEF one, T
<1>4. Mapped(seq \o one, g) = Mapped(seq, g) \o Mapped(one, g)
  BY <1>1, MappedConcat
<1>5. Mapped(seq, g) \in Seq(T) /\ g[x] \in T
  BY <1>3, MappedTyped
<1>6. Append(Mapped(seq, g), g[x]) = Mapped(seq, g) \o <<g[x]>>
  BY <1>5, AppendIsConcat
<1> QED
  BY <1>1, <1>2, <1>4, <1>6

-----------------------------------------------------------------------------
(* The front of the queue, and lookups.                                    *)

\* What is known of the queue of requests when its front is served.
LEMMA RequestTaken ==
  ASSUME DatabaseTypeOK, requests # <<>>
  PROVE  /\ Head(requests) \in Request
         /\ Head(requests) = requests[1]
         /\ Tail(requests) \in Seq(Request)
         /\ Len(requests) \in Nat \ {0}
         /\ DOMAIN requests = 1 .. Len(requests)
         /\ DOMAIN Tail(requests) = 1 .. Len(requests) - 1
         /\ \A i \in 1 .. Len(requests) - 1 : Tail(requests)[i] = requests[i + 1]
<1>1. requests \in Seq(Request)
  BY DEF DatabaseTypeOK
<1> QED
  BY <1>1, HeadTailProperties, EmptySeq, LenProperties

\* Row ids start at 1, so that 0 can stand for a name that was not found.
LEMMA UserIdProperties ==
  ASSUME DatabaseTypeOK, NEW u, NEW id \in UserId(u)
  PROVE  /\ DOMAIN users = 1 .. Len(users) /\ Len(users) \in Nat
         /\ 0 \notin DOMAIN users
         /\ id \in Nat
         /\ id # 0 => id \in DOMAIN users /\ users[id] \in UserRow /\ IsFirstRow(id, u)
         /\ id = 0 => RowsOf(u) = {} \/ LookupMayFail
<1>1. DOMAIN users = 1 .. Len(users) /\ Len(users) \in Nat
  BY LenProperties DEF DatabaseTypeOK
<1>2. \A i \in DOMAIN users : users[i] \in UserRow
  BY <1>1, ElementOfSeq DEF DatabaseTypeOK
<1> QED
  BY <1>1, <1>2 DEF UserId

-----------------------------------------------------------------------------
(* Types.                                                                  *)

LEMMA ReplyTyped ==
  ASSUME DatabaseTypeOK, NEW response \in Response, Reply(response)
  PROVE  responses' \in Seq(Response)
  BY AppendProperties DEF DatabaseTypeOK, Reply

LEMMA LoginTyped ==
  ASSUME DatabaseTypeOK, NEW r \in Request, requests # <<>>, HandleLogin(r)
  PROVE  DatabaseTypeOK'
<1>1. r \in JoinRequest
  BY DEF HandleLogin, Request, JoinRequest, SaveMessageRequest, SavePictureRequest,
         GetPictureRequest, ShutdownRequest
<1>2. PICK id \in UserId(r.name) :
        Reply([type |-> IF id # 0 /\ users[id].password = r.password
                        THEN "login_success" ELSE "login_fail",
               name |-> r.name, by |-> r.by])
  BY DEF HandleLogin
<1>3. [type |-> IF id # 0 /\ users[id].password = r.password
                THEN "login_success" ELSE "login_fail",
       name |-> r.name, by |-> r.by] \in Response
  BY <1>1 DEF JoinRequest, Response, Answer, Verdict
<1>4. responses' \in Seq(Response)
  BY <1>2, <1>3, ReplyTyped
<1> QED
  BY <1>4, RequestTaken DEF HandleLogin, DatabaseTypeOK

LEMMA RegisterTyped ==
  ASSUME DatabaseTypeOK, NEW r \in Request, requests # <<>>, HandleRegister(r)
  PROVE  DatabaseTypeOK'
<1>1. r \in JoinRequest
  BY DEF HandleRegister, Request, JoinRequest, SaveMessageRequest, SavePictureRequest,
         GetPictureRequest, ShutdownRequest
<1>2. PICK verdict \in Verdict :
        Reply([type |-> verdict, name |-> r.name, by |-> r.by])
  BY DEF HandleRegister, Verdict
<1>3. [type |-> verdict, name |-> r.name, by |-> r.by] \in Response
  BY <1>1 DEF JoinRequest, Response, Answer
<1>4. responses' \in Seq(Response)
  BY <1>2, <1>3, ReplyTyped
<1>5. users' \in Seq(UserRow) /\ DOMAIN users \subseteq DOMAIN users'
  <2>1. CASE UNCHANGED users
    BY <2>1 DEF DatabaseTypeOK
  <2>2. CASE users' = Append(users, [name |-> r.name, password |-> r.password])
    <3>1. [name |-> r.name, password |-> r.password] \in UserRow
      BY <1>1 DEF JoinRequest, UserRow
    <3>2. users \in Seq(UserRow)
      BY DEF DatabaseTypeOK
    <3>3. users' \in Seq(UserRow) /\ Len(users') = Len(users) + 1
      BY <2>2, <3>1, <3>2, AppendProperties
    <3> QED
      BY <3>2, <3>3, LenProperties
  <2> QED
    BY <2>1, <2>2 DEF HandleRegister
<1> QED
  BY <1>4, <1>5, RequestTaken DEF HandleRegister, DatabaseTypeOK

LEMMA SaveMessageTyped ==
  ASSUME DatabaseTypeOK, NEW r \in Request, requests # <<>>, HandleSaveMessage(r)
  PROVE  DatabaseTypeOK'
<1>1. r \in SaveMessageRequest
  BY DEF HandleSaveMessage, Request, JoinRequest, SaveMessageRequest, SavePictureRequest,
         GetPictureRequest, ShutdownRequest, Join
<1>2. messages' \in Seq(MessageRow)
  <2>1. CASE UNCHANGED messages
    BY <2>1 DEF DatabaseTypeOK
  <2>2. ASSUME NEW id \in UserId(r.chat.sender),
               messages' = Append(messages, [id |-> id, text |-> r.chat.text])
        PROVE  messages' \in Seq(MessageRow)
    <3>1. [id |-> id, text |-> r.chat.text] \in MessageRow
      BY <1>1, UserIdProperties DEF SaveMessageRequest, MessageRow, Chat
    <3> QED
      BY <2>2, <3>1, AppendProperties DEF DatabaseTypeOK
  <2> QED
    BY <2>1, <2>2 DEF HandleSaveMessage
<1> QED
  BY <1>2, RequestTaken DEF HandleSaveMessage, DatabaseTypeOK

LEMMA SavePictureTyped ==
  ASSUME DatabaseTypeOK, NEW r \in Request, requests # <<>>, HandleSavePicture(r)
  PROVE  DatabaseTypeOK'
<1>1. r \in SavePictureRequest
  BY DEF HandleSavePicture, Request, JoinRequest, SaveMessageRequest, SavePictureRequest,
         GetPictureRequest, ShutdownRequest, Join
<1>2. requests' \in Seq(Request)
  <2>1. UserProfilePictureRequest(r.name, r.name) \in Request
    BY <1>1 DEF SavePictureRequest, UserProfilePictureRequest, Request, GetPictureRequest
  <2> QED
    BY <2>1, RequestTaken, AppendProperties DEF HandleSavePicture
<1>3. DOMAIN pictures' \subseteq DOMAIN users /\ pictures' \in [DOMAIN pictures' -> Pixels]
  <2>1. CASE UNCHANGED pictures
    BY <2>1 DEF DatabaseTypeOK
  <2>2. ASSUME NEW id \in UserId(r.name), id # 0, r.content # NoPixels,
               pictures' = [i \in DOMAIN pictures \cup {id} |->
                               IF i = id THEN r.content ELSE pictures[i]]
        PROVE  DOMAIN pictures' \subseteq DOMAIN users
                 /\ pictures' \in [DOMAIN pictures' -> Pixels]
    <3>1. r.content \in Pixels
      BY <1>1, <2>2 DEF SavePictureRequest
    <3>2. id \in DOMAIN users
      BY <2>2, UserIdProperties
    <3> QED
      BY <2>2, <3>1, <3>2 DEF DatabaseTypeOK
  <2> QED
    BY <2>1, <2>2 DEF HandleSavePicture
<1> QED
  BY <1>2, <1>3 DEF HandleSavePicture, DatabaseTypeOK

LEMMA GetPictureTyped ==
  ASSUME DatabaseTypeOK, NEW r \in Request, requests # <<>>, HandleGetPicture(r)
  PROVE  DatabaseTypeOK'
<1>1. r \in GetPictureRequest
  BY DEF HandleGetPicture, Request, JoinRequest, SaveMessageRequest, SavePictureRequest,
         GetPictureRequest, ShutdownRequest, Join
<1>2. responses' \in Seq(Response)
  <2>1. CASE UNCHANGED responses
    BY <2>1 DEF DatabaseTypeOK
  <2>2. ASSUME NEW id \in DOMAIN pictures,
               Reply([type |-> "picture", name |-> r.name,
                      content |-> pictures[id], recipient |-> r.recipient])
        PROVE  responses' \in Seq(Response)
    <3>1. pictures[id] \in Pixels
      BY <2>2 DEF DatabaseTypeOK
    <3>2. [type |-> "picture", name |-> r.name,
           content |-> pictures[id], recipient |-> r.recipient] \in Response
      BY <1>1, <3>1 DEF GetPictureRequest, Response, PictureAnswer
    <3> QED
      BY <2>2, <3>2, ReplyTyped
  <2> QED
    BY <2>1, <2>2 DEF HandleGetPicture
<1> QED
  BY <1>2, RequestTaken DEF HandleGetPicture, DatabaseTypeOK

LEMMA DatabaseThreadTyped ==
  ASSUME DatabaseTypeOK, DatabaseThread PROVE DatabaseTypeOK'
<1>1. CASE Start
  BY <1>1 DEF Start, DatabaseTypeOK
<1>2. CASE Serve
  <2> DEFINE r == Head(requests)
  <2>1. requests # <<>> /\ r \in Request
    BY <1>2, RequestTaken DEF Serve
  <2>2. CASE HandleShutdown(r)
    BY <2>1, <2>2, RequestTaken DEF HandleShutdown, DatabaseTypeOK
  <2> QED
    BY <1>2, <2>1, <2>2, LoginTyped, RegisterTyped, SaveMessageTyped,
       SavePictureTyped, GetPictureTyped DEF Serve
<1> QED
  BY <1>1, <1>2 DEF DatabaseThread

-----------------------------------------------------------------------------
(* Join requests and their answers, in a queue of either.                  *)

IsAsk(r) == r.type \in Join \cup Verdict

\* The places of a queue that hold an ask of s, or the answer to one.
AsksBy(queue, s) == {i \in DOMAIN queue : IsAsk(queue[i]) /\ queue[i].by = s}

LEMMA AsksAppend ==
  ASSUME NEW S, NEW queue \in Seq(S), NEW r \in S, NEW s
  PROVE  AsksBy(Append(queue, r), s) =
           AsksBy(queue, s) \cup (IF IsAsk(r) /\ r.by = s THEN {Len(queue) + 1} ELSE {})
<1>1. /\ DOMAIN queue = 1 .. Len(queue) /\ Len(queue) \in Nat
      /\ DOMAIN Append(queue, r) = 1 .. Len(queue) + 1
      /\ \A i \in 1 .. Len(queue) : Append(queue, r)[i] = queue[i]
      /\ Append(queue, r)[Len(queue) + 1] = r
  BY AppendProperties, LenProperties
<1> DEFINE more == Append(queue, r)
<1> HIDE DEF more
<1>2. DOMAIN more = DOMAIN queue \cup {Len(queue) + 1} /\ Len(queue) + 1 \notin DOMAIN queue
  BY <1>1 DEF more
<1>3. (\A i \in DOMAIN queue : more[i] = queue[i]) /\ more[Len(queue) + 1] = r
  BY <1>1 DEF more
<1>4. AsksBy(more, s) =
        AsksBy(queue, s) \cup (IF IsAsk(r) /\ r.by = s THEN {Len(queue) + 1} ELSE {})
  BY <1>2, <1>3 DEF AsksBy
<1> QED
  BY <1>4 DEF more

LEMMA AsksAppended ==
  ASSUME NEW S, NEW queue \in Seq(S), NEW others \in Seq(S),
         \A i \in DOMAIN others : ~IsAsk(others[i]), NEW s
  PROVE  AsksBy(queue \o others, s) = AsksBy(queue, s)
<1> DEFINE more == queue \o others
           n == Len(queue)
           m == Len(others)
<1>1. /\ DOMAIN queue = 1 .. n /\ DOMAIN others = 1 .. m /\ n \in Nat /\ m \in Nat
      /\ DOMAIN more = 1 .. n + m
      /\ \A i \in 1 .. n + m : more[i] = IF i <= n THEN queue[i] ELSE others[i - n]
  BY ConcatProperties, LenProperties
<1> HIDE DEF more, n, m
<1>2. \A i \in DOMAIN queue : i \in DOMAIN more /\ more[i] = queue[i]
  BY <1>1
<1>3. \A i \in DOMAIN more : i \in DOMAIN queue \/ ~IsAsk(more[i])
  BY <1>1
<1>4. AsksBy(more, s) = AsksBy(queue, s)
  BY <1>2, <1>3 DEF AsksBy
<1> QED
  BY <1>4 DEF more

\* The front of a queue in which s has at most one ask is taken.
LEMMA AsksTail ==
  ASSUME NEW S, NEW queue \in Seq(S), queue # <<>>, NEW s,
         \A i, j \in AsksBy(queue, s) : i = j
  PROVE  /\ \A i, j \in AsksBy(Tail(queue), s) : i = j
         /\ AsksBy(Tail(queue), s) # {} =>
              AsksBy(queue, s) # {} /\ ~(IsAsk(Head(queue)) /\ Head(queue).by = s)
         /\ IsAsk(Head(queue)) /\ Head(queue).by = s => AsksBy(queue, s) # {}
<1> DEFINE rest == Tail(queue)
           n == Len(queue)
<1>1. /\ DOMAIN queue = 1 .. n /\ n \in Nat \ {0}
      /\ DOMAIN rest = 1 .. n - 1 /\ Head(queue) = queue[1]
      /\ \A i \in 1 .. n - 1 : rest[i] = queue[i + 1]
  BY HeadTailProperties, EmptySeq, LenProperties
<1> HIDE DEF rest, n
<1>2. \A i \in DOMAIN rest : i \in Nat \ {0} /\ i + 1 \in DOMAIN queue /\ rest[i] = queue[i + 1]
  BY <1>1
<1>3. \A i \in AsksBy(rest, s) : i \in Nat \ {0} /\ i + 1 \in AsksBy(queue, s)
  BY <1>2 DEF AsksBy
<1>4. 1 \in DOMAIN queue
  BY <1>1
<1>5. \A i, j \in AsksBy(rest, s) : i = j
  <2>1. ASSUME NEW i \in AsksBy(rest, s), NEW j \in AsksBy(rest, s) PROVE i = j
    <3>1. i + 1 = j + 1 /\ i \in Nat /\ j \in Nat
      BY <1>3
    <3> QED
      BY <3>1
  <2> QED
    BY <2>1
<1>6. IsAsk(Head(queue)) /\ Head(queue).by = s => 1 \in AsksBy(queue, s)
  BY <1>1, <1>4 DEF AsksBy
<1>7. ASSUME NEW i \in AsksBy(rest, s), 1 \in AsksBy(queue, s) PROVE FALSE
  <2>1. i + 1 = 1 /\ i \in Nat \ {0}
    BY <1>3, <1>7
  <2> QED
    BY <2>1
<1>8. \A i, j \in AsksBy(Tail(queue), s) : i = j
  BY <1>5 DEF rest
<1>9. AsksBy(Tail(queue), s) # {} =>
        AsksBy(queue, s) # {} /\ ~(IsAsk(Head(queue)) /\ Head(queue).by = s)
  BY <1>3, <1>6, <1>7 DEF rest
<1> QED
  BY <1>6, <1>8, <1>9

\* What the database thread does to the queues: it takes a request, and only
\* an ask is given an answer.
LEMMA QueuesServed ==
  ASSUME DatabaseTypeOK, DatabaseThread
  PROVE  \/ UNCHANGED <<requests, responses>>
         \/ /\ requests # <<>> /\ ~IsAsk(Head(requests))
            /\ \/ requests' = Tail(requests)
               \/ \E r \in GetPictureRequest : requests' = Append(Tail(requests), r)
            /\ \/ responses' = responses
               \/ \E a \in PictureAnswer : responses' = Append(responses, a)
         \/ /\ requests # <<>> /\ Head(requests) \in JoinRequest
            /\ requests' = Tail(requests)
            /\ \E a \in Answer : /\ a.by = Head(requests).by
                                 /\ a.name = Head(requests).name
                                 /\ responses' = Append(responses, a)
<1>1. CASE Start
  BY <1>1 DEF Start
<1>2. CASE Serve
  <2> DEFINE r == Head(requests)
  <2>1. requests # <<>> /\ r \in Request
    BY <1>2, RequestTaken DEF Serve
  <2>2. /\ r.type \in Join => r \in JoinRequest
        /\ r.type = "save_picture" => r \in SavePictureRequest
        /\ r.type = "get_picture" => r \in GetPictureRequest
    BY <2>1 DEF Request, JoinRequest, SaveMessageRequest, SavePictureRequest,
       GetPictureRequest, ShutdownRequest, Join
  <2> HIDE DEF r
  <2>3. CASE HandleLogin(r) \/ HandleRegister(r)
    <3>1. r.type \in Join /\ requests' = Tail(requests)
      BY <2>3 DEF HandleLogin, HandleRegister, Join
    <3>2. PICK verdict \in Verdict :
            Reply([type |-> verdict, name |-> r.name, by |-> r.by])
      BY <2>3 DEF HandleLogin, HandleRegister, Verdict
    <3>3. [type |-> verdict, name |-> r.name, by |-> r.by] \in Answer
      BY <2>2, <3>1 DEF JoinRequest, Answer
    <3> QED
      BY <2>1, <2>2, <3>1, <3>2, <3>3 DEF Reply, r
  <2>4. CASE HandleSaveMessage(r) \/ HandleShutdown(r)
    BY <2>1, <2>4 DEF HandleSaveMessage, HandleShutdown, IsAsk, Join, Verdict, r
  <2>5. CASE HandleSavePicture(r)
    <3>1. UserProfilePictureRequest(r.name, r.name) \in GetPictureRequest
      BY <2>2, <2>5
      DEF HandleSavePicture, SavePictureRequest, UserProfilePictureRequest, GetPictureRequest
    <3> QED
      BY <2>1, <2>5, <3>1 DEF HandleSavePicture, IsAsk, Join, Verdict, r
  <2>6. CASE HandleGetPicture(r)
    <3>1. r.type = "get_picture" /\ ~IsAsk(r) /\ requests' = Tail(requests)
      BY <2>6 DEF HandleGetPicture, IsAsk, Join, Verdict
    <3>2. \/ responses' = responses
          \/ \E id \in DOMAIN pictures :
               Reply([type |-> "picture", name |-> r.name,
                      content |-> pictures[id], recipient |-> r.recipient])
      BY <2>6 DEF HandleGetPicture
    <3>3. ASSUME NEW id \in DOMAIN pictures
          PROVE  [type |-> "picture", name |-> r.name,
                  content |-> pictures[id], recipient |-> r.recipient] \in PictureAnswer
      BY <2>2, <3>1 DEF GetPictureRequest, PictureAnswer, DatabaseTypeOK
    <3> QED
      BY <2>1, <3>1, <3>2, <3>3 DEF Reply, r
  <2> QED
    BY <1>2, <2>3, <2>4, <2>5, <2>6 DEF Serve, r
<1> QED
  BY <1>1, <1>2 DEF DatabaseThread

\* A session has one ask, and then its answer, or neither.
OneAsk(s) ==
    /\ \A i, j \in AsksBy(requests, s) : i = j
    /\ \A i, j \in AsksBy(responses, s) : i = j
    /\ AsksBy(requests, s) = {} \/ AsksBy(responses, s) = {}

Asking(s) == AsksBy(requests, s) # {} \/ AsksBy(responses, s) # {}

LEMMA AsksServed ==
  ASSUME DatabaseTypeOK, DatabaseThread, NEW s, OneAsk(s)
  PROVE  OneAsk(s)' /\ (Asking(s)' => Asking(s))
<1>1. requests \in Seq(Request) /\ responses \in Seq(Response)
  BY DEF DatabaseTypeOK
<1>2. CASE UNCHANGED <<requests, responses>>
  BY <1>2 DEF OneAsk, Asking
<1>3. CASE requests # <<>>
  <2> DEFINE r == Head(requests)
             rest == Tail(requests)
  <2>1. /\ rest \in Seq(Request)
        /\ \A i, j \in AsksBy(rest, s) : i = j
        /\ AsksBy(rest, s) # {} => AsksBy(requests, s) # {} /\ ~(IsAsk(r) /\ r.by = s)
        /\ IsAsk(r) /\ r.by = s => AsksBy(requests, s) # {}
    BY <1>1, <1>3, AsksTail, RequestTaken DEF OneAsk
  <2> HIDE DEF r, rest
  <2>2. ASSUME NEW a \in GetPictureRequest
        PROVE  AsksBy(Append(rest, a), s) = AsksBy(rest, s)
    <3>1. a \in Request /\ ~IsAsk(a)
      BY DEF GetPictureRequest, Request, IsAsk, Join, Verdict
    <3>2. AsksBy(Append(rest, a), s) =
            AsksBy(rest, s) \cup (IF IsAsk(a) /\ a.by = s THEN {Len(rest) + 1} ELSE {})
      BY <2>1, <3>1, AsksAppend
    <3> QED
      BY <3>1, <3>2
  <2>3. ASSUME NEW a \in PictureAnswer
        PROVE  AsksBy(Append(responses, a), s) = AsksBy(responses, s)
    <3>1. a \in Response /\ ~IsAsk(a)
      BY DEF PictureAnswer, Response, IsAsk, Join, Verdict
    <3>2. AsksBy(Append(responses, a), s) =
            AsksBy(responses, s) \cup (IF IsAsk(a) /\ a.by = s THEN {Len(responses) + 1} ELSE {})
      BY <1>1, <3>1, AsksAppend
    <3> QED
      BY <3>1, <3>2
  <2>4. ASSUME NEW a \in Answer
        PROVE  AsksBy(Append(responses, a), s) =
                 AsksBy(responses, s) \cup (IF a.by = s THEN {Len(responses) + 1} ELSE {})
    <3>1. a \in Response /\ IsAsk(a)
      BY DEF Answer, Response, IsAsk
    <3> QED
      BY <1>1, <3>1, AsksAppend
  <2>5. r \in JoinRequest => IsAsk(r)
    BY DEF JoinRequest, IsAsk
  <2>6. CASE /\ \/ requests' = rest
                \/ \E a \in GetPictureRequest : requests' = Append(rest, a)
             /\ \/ responses' = responses
                \/ \E a \in PictureAnswer : responses' = Append(responses, a)
    <3>1. AsksBy(requests', s) = AsksBy(rest, s)
      <4>1. CASE requests' = rest
        BY <4>1
      <4>2. ASSUME NEW a \in GetPictureRequest, requests' = Append(rest, a)
            PROVE  AsksBy(requests', s) = AsksBy(rest, s)
        BY <2>2, <4>2
      <4> QED
        BY <2>6, <4>1, <4>2
    <3>2. AsksBy(responses', s) = AsksBy(responses, s)
      <4>1. CASE responses' = responses
        BY <4>1
      <4>2. ASSUME NEW a \in PictureAnswer, responses' = Append(responses, a)
            PROVE  AsksBy(responses', s) = AsksBy(responses, s)
        BY <2>3, <4>2
      <4> QED
        BY <2>6, <4>1, <4>2
    <3> QED
      BY <2>1, <3>1, <3>2 DEF OneAsk, Asking
  <2>7. CASE /\ r \in JoinRequest /\ requests' = rest
             /\ \E a \in Answer : a.by = r.by /\ responses' = Append(responses, a)
    <3>1. AsksBy(responses', s) =
            AsksBy(responses, s) \cup (IF r.by = s THEN {Len(responses) + 1} ELSE {})
      BY <2>4, <2>7
    <3> QED
      BY <2>1, <2>5, <2>7, <3>1 DEF OneAsk, Asking
  <2> QED
    BY <1>2, <2>6, <2>7, QueuesServed DEF r, rest
<1> QED
  BY <1>2, <1>3, QueuesServed

\* The asks of a queue carry the names that their sessions were given.
NamedAs(queue, names) == \A i \in DOMAIN queue : IsAsk(queue[i]) => queue[i].name = names[queue[i].by]

LEMMA NamedAsAppend ==
  ASSUME NEW S, NEW queue \in Seq(S), NEW r \in S, NEW names, NamedAs(queue, names),
         IsAsk(r) => r.name = names[r.by]
  PROVE  NamedAs(Append(queue, r), names)
<1> DEFINE more == Append(queue, r)
<1>1. \A i \in DOMAIN more : (i \in DOMAIN queue /\ more[i] = queue[i]) \/ more[i] = r
  BY AppendProperties, LenProperties
<1> HIDE DEF more
<1>2. NamedAs(more, names)
  BY <1>1 DEF NamedAs
<1> QED
  BY <1>2 DEF more

LEMMA NamedAsTail ==
  ASSUME NEW S, NEW queue \in Seq(S), queue # <<>>, NEW names, NamedAs(queue, names)
  PROVE  /\ NamedAs(Tail(queue), names)
         /\ IsAsk(Head(queue)) => Head(queue).name = names[Head(queue).by]
<1> DEFINE rest == Tail(queue)
<1>1. /\ \A i \in DOMAIN rest : i + 1 \in DOMAIN queue /\ rest[i] = queue[i + 1]
      /\ 1 \in DOMAIN queue /\ Head(queue) = queue[1]
  BY HeadTailProperties, EmptySeq, LenProperties
<1> HIDE DEF rest
<1>2. NamedAs(rest, names)
  BY <1>1 DEF NamedAs
<1> QED
  BY <1>1, <1>2 DEF NamedAs, rest

LEMMA NamesServed ==
  ASSUME DatabaseTypeOK, DatabaseThread, NEW names,
         NamedAs(requests, names), NamedAs(responses, names)
  PROVE  NamedAs(requests', names) /\ NamedAs(responses', names)
<1>1. requests \in Seq(Request) /\ responses \in Seq(Response)
  BY DEF DatabaseTypeOK
<1>2. CASE UNCHANGED <<requests, responses>>
  BY <1>2
<1>3. CASE requests # <<>>
  <2>1. Tail(requests) \in Seq(Request)
    BY <1>3, RequestTaken
  <2>2. /\ NamedAs(Tail(requests), names)
        /\ IsAsk(Head(requests)) => Head(requests).name = names[Head(requests).by]
    BY <1>1, <1>3, NamedAsTail
  <2>3. \A a \in GetPictureRequest : NamedAs(Append(Tail(requests), a), names)
    <3>1. \A a \in GetPictureRequest : a \in Request /\ ~IsAsk(a)
      BY DEF GetPictureRequest, Request, IsAsk, Join, Verdict
    <3> QED
      BY <2>1, <2>2, <3>1, NamedAsAppend
  <2>4. \A a \in PictureAnswer : NamedAs(Append(responses, a), names)
    <3>1. \A a \in PictureAnswer : a \in Response /\ ~IsAsk(a)
      BY DEF PictureAnswer, Response, IsAsk, Join, Verdict
    <3> QED
      BY <1>1, <3>1, NamedAsAppend
  <2>5. \A a \in Answer : a.name = names[a.by] => NamedAs(Append(responses, a), names)
    <3>1. \A a \in Answer : a \in Response
      BY DEF Answer, Response
    <3> QED
      BY <1>1, <3>1, NamedAsAppend
  <2>6. Head(requests) \in JoinRequest => IsAsk(Head(requests))
    BY DEF JoinRequest, IsAsk
  <2> QED
    BY <1>2, <2>2, <2>3, <2>4, <2>5, <2>6, QueuesServed
<1> QED
  BY <1>2, <1>3, QueuesServed

-----------------------------------------------------------------------------
(* The tables.                                                             *)

\* Only registering changes the table users.
LEMMA UsersServed ==
  ASSUME DatabaseTypeOK, DatabaseThread
  PROVE  \/ UNCHANGED users
         \/ \E u \in Users, p \in Passwords :
              /\ users' = Append(users, [name |-> u, password |-> p])
              /\ RowsOf(u) = {} \/ LookupMayFail
<1> DEFINE r == Head(requests)
<1>1. CASE Start
  BY <1>1 DEF Start
<1>2. CASE Serve /\ HandleRegister(r)
  <2>1. r \in Request /\ r.type = "register"
    BY <1>2, RequestTaken DEF Serve, HandleRegister
  <2>2. r.name \in Users /\ r.password \in Passwords
    BY <2>1 DEF Request, JoinRequest, SaveMessageRequest, SavePictureRequest,
                GetPictureRequest, ShutdownRequest
  <2> QED
    BY <1>2, <2>2, UserIdProperties DEF HandleRegister
<1>3. CASE Serve /\ ~HandleRegister(r)
  BY <1>3 DEF Serve, HandleLogin, HandleSaveMessage, HandleSavePicture,
              HandleGetPicture, HandleShutdown
<1> QED
  BY <1>1, <1>2, <1>3 DEF DatabaseThread

\* Appending a row.
LEMMA RowAdded ==
  ASSUME DatabaseTypeOK, NEW row \in UserRow, users' = Append(users, row)
  PROVE  /\ Len(users) \in Nat
         /\ DOMAIN users = 1 .. Len(users)
         /\ DOMAIN users' = 1 .. Len(users) + 1
         /\ \A i \in 1 .. Len(users) : users'[i] = users[i]
         /\ users'[Len(users) + 1] = row
<1>1. users \in Seq(UserRow)
  BY DEF DatabaseTypeOK
<1>2. users' \in Seq(UserRow) /\ Len(users') = Len(users) + 1
  BY <1>1, AppendProperties
<1> QED
  BY <1>1, <1>2, LenProperties, AppendProperties

LEMMA NameAdded ==
  ASSUME DatabaseTypeOK, UniqueUsernames, NEW u \in Users, NEW p \in Passwords,
         RowsOf(u) = {}, users' = Append(users, [name |-> u, password |-> p])
  PROVE  UniqueUsernames'
<1>1. [name |-> u, password |-> p] \in UserRow
  BY DEF UserRow
<1>2. /\ Len(users) \in Nat
      /\ DOMAIN users = 1 .. Len(users)
      /\ DOMAIN users' = 1 .. Len(users) + 1
      /\ \A i \in 1 .. Len(users) : users'[i] = users[i]
      /\ users'[Len(users) + 1].name = u
  BY <1>1, RowAdded
<1>3. \A i \in 1 .. Len(users) : users[i].name # u
  BY <1>2 DEF RowsOf
<1> QED
  BY <1>2, <1>3 DEF UniqueUsernames

\* Rows stay what they are.
LEMMA RowsServed ==
  ASSUME DatabaseTypeOK, DatabaseThread
  PROVE  /\ DOMAIN users \subseteq DOMAIN users'
         /\ \A i \in DOMAIN users : users'[i] = users[i]
<1>1. CASE UNCHANGED users
  BY <1>1
<1>2. ASSUME NEW u \in Users, NEW p \in Passwords,
             users' = Append(users, [name |-> u, password |-> p])
      PROVE  /\ DOMAIN users \subseteq DOMAIN users'
             /\ \A i \in DOMAIN users : users'[i] = users[i]
  <2>1. [name |-> u, password |-> p] \in UserRow
    BY DEF UserRow
  <2>2. /\ Len(users) \in Nat
        /\ DOMAIN users = 1 .. Len(users)
        /\ DOMAIN users' = 1 .. Len(users) + 1
        /\ \A i \in 1 .. Len(users) : users'[i] = users[i]
    BY <1>2, <2>1, RowAdded
  <2> QED
    BY <2>2
<1> QED
  BY <1>1, <1>2, UsersServed

\* A name that was let in is listed.
Success == {"login_success", "register_success"}

Listed == {users[i].name : i \in DOMAIN users}

LEMMA RowsOfServed ==
  ASSUME DatabaseTypeOK, DatabaseThread PROVE Listed \subseteq Listed'
  BY RowsServed DEF Listed

LEMMA VerdictsServed ==
  ASSUME DatabaseTypeOK, DatabaseThread
  PROVE  \/ responses' = responses
         \/ \E a \in Response :
              /\ responses' = Append(responses, a)
              /\ a.type \in Success => a.name \in Listed'
<1> DEFINE r == Head(requests)
<1>1. CASE Start
  BY <1>1 DEF Start
<1>2. CASE Serve /\ HandleLogin(r)
  <2>1. r \in Request /\ r.type = "login"
    BY <1>2, RequestTaken DEF Serve, HandleLogin
  <2>2. r \in JoinRequest
    BY <2>1 DEF Request, JoinRequest, SaveMessageRequest, SavePictureRequest,
                GetPictureRequest, ShutdownRequest
  <2>3. PICK id \in UserId(r.name) :
          Reply([type |-> IF id # 0 /\ users[id].password = r.password
                          THEN "login_success" ELSE "login_fail",
                 name |-> r.name, by |-> r.by])
    BY <1>2 DEF HandleLogin
  <2>4. id # 0 => r.name \in Listed
    BY UserIdProperties DEF IsFirstRow, RowsOf, Listed
  <2>5. PICK a \in Response :
          /\ responses' = Append(responses, a)
          /\ a.type \in Success => a.name \in Listed
    BY <2>2, <2>3, <2>4 DEF JoinRequest, Response, Answer, Verdict, Success, Reply
  <2>6. Listed' = Listed
    BY <1>2 DEF HandleLogin, Listed
  <2> QED
    BY <2>5, <2>6
<1>3. CASE Serve /\ HandleRegister(r)
  <2>1. r \in Request /\ r.type = "register"
    BY <1>3, RequestTaken DEF Serve, HandleRegister
  <2>2. r \in JoinRequest
    BY <2>1 DEF Request, JoinRequest, SaveMessageRequest, SavePictureRequest,
                GetPictureRequest, ShutdownRequest
  <2>3. CASE /\ users' = Append(users, [name |-> r.name, password |-> r.password])
             /\ Reply([type |-> "register_success", name |-> r.name, by |-> r.by])
    <3>1. PICK a \in Response :
            /\ responses' = Append(responses, a)
            /\ users' = Append(users, [name |-> a.name, password |-> r.password])
            /\ a.name \in Users
      BY <2>2, <2>3 DEF JoinRequest, Response, Answer, Verdict, Reply
    <3> DEFINE row == [name |-> a.name, password |-> r.password]
    <3>2. row \in UserRow /\ row.name = a.name
      BY <2>2, <3>1 DEF JoinRequest, UserRow
    <3> HIDE DEF row
    <3>3. /\ Len(users) \in Nat /\ DOMAIN users' = 1 .. Len(users) + 1
          /\ users'[Len(users) + 1] = row
      BY <3>1, <3>2, RowAdded DEF row
    <3>4. a.name \in Listed'
      BY <3>2, <3>3 DEF Listed
    <3> QED
      BY <3>1, <3>4
  <2>4. CASE Reply([type |-> "register_fail", name |-> r.name, by |-> r.by])
    BY <2>2, <2>4 DEF JoinRequest, Response, Answer, Verdict, Success, Reply
  <2> QED
    BY <1>3, <2>3, <2>4 DEF HandleRegister
<1>4. CASE Serve /\ HandleGetPicture(r)
  <2>1. \/ UNCHANGED <<requests, responses>>
        \/ /\ responses' = responses \/ \E a \in PictureAnswer : responses' = Append(responses, a)
        \/ Head(requests) \in JoinRequest
    BY <1>4, QueuesServed DEF DatabaseThread
  <2>2. Head(requests) \notin JoinRequest
    BY <1>4 DEF HandleGetPicture, JoinRequest, Join
  <2>3. \A a \in PictureAnswer : a \in Response /\ a.type \notin Success
    BY DEF PictureAnswer, Response, Success
  <2> QED
    BY <2>1, <2>2, <2>3
<1>5. CASE Serve /\ (HandleSaveMessage(r) \/ HandleSavePicture(r) \/ HandleShutdown(r))
  BY <1>5 DEF HandleSaveMessage, HandleSavePicture, HandleShutdown
<1> QED
  BY <1>1, <1>2, <1>3, <1>4, <1>5 DEF DatabaseThread, Serve

\* The chats to be saved: one is taken off the queue and stored under the row
\* of its sender, if the row is found and nothing fails.
LEMMA SavesServed ==
  ASSUME DatabaseTypeOK, DatabaseThread
  PROVE  \/ /\ UNCHANGED messages
            /\ OfType(requests', {"save_message"}) = OfType(requests, {"save_message"})
         \/ /\ requests # <<>> /\ Head(requests) \in SaveMessageRequest
            /\ OfType(requests, {"save_message"})
                 = <<Head(requests)>> \o OfType(requests', {"save_message"})
            /\ UNCHANGED users
            /\ \/ /\ UNCHANGED messages
                  /\ \/ Head(requests).chat.sender \notin Listed
                     \/ LookupMayFail \/ WriteMayFail
               \/ \E id \in DOMAIN users :
                    /\ users[id].name = Head(requests).chat.sender
                    /\ messages' = Append(messages,
                                     [id |-> id, text |-> Head(requests).chat.text])
<1> DEFINE r == Head(requests)
           kept == OfType(requests, {"save_message"})
<1>1. CASE Start
  BY <1>1 DEF Start
<1>2. CASE Serve /\ r.type # "save_message"
  <2>1. /\ requests # <<>> /\ requests \in Seq(Request) /\ Tail(requests) \in Seq(Request)
    BY <1>2, RequestTaken DEF Serve, DatabaseTypeOK
  <2>2. UNCHANGED messages
    BY <1>2 DEF Serve, HandleLogin, HandleRegister, HandleSaveMessage, HandleSavePicture,
       HandleGetPicture, HandleShutdown
  <2>3. kept = OfType(Tail(requests), {"save_message"})
    BY <1>2, <2>1, OfTypeTail
  <2>4. CASE requests' = Tail(requests)
    BY <2>2, <2>3, <2>4
  <2>5. ASSUME NEW again \in GetPictureRequest, requests' = Append(Tail(requests), again)
        PROVE  OfType(requests', {"save_message"}) = kept
    <3>1. again \in Request /\ again.type \notin {"save_message"}
      BY DEF GetPictureRequest, Request
    <3> DEFINE rest == Tail(requests)
    <3>2. rest \in Seq(Request)
      BY <2>1
    <3> HIDE DEF rest
    <3>3. OfType(Append(rest, again), {"save_message"}) = OfType(rest, {"save_message"})
      BY <3>1, <3>2, OfTypeAppend
    <3> QED
      BY <2>3, <2>5, <3>3 DEF rest
  <2>6. \/ UNCHANGED requests
        \/ requests' = Tail(requests)
        \/ \E again \in GetPictureRequest : requests' = Append(Tail(requests), again)
    BY <1>2, QueuesServed DEF DatabaseThread
  <2> QED
    BY <2>2, <2>4, <2>5, <2>6
<1>3. CASE Serve /\ r.type = "save_message"
  <2>1. /\ requests # <<>> /\ requests \in Seq(Request) /\ r \in Request
    BY <1>3, RequestTaken DEF Serve, DatabaseTypeOK
  <2>2. HandleSaveMessage(r)
    BY <1>3 DEF Serve, HandleLogin, HandleRegister, HandleSavePicture, HandleGetPicture,
       HandleShutdown
  <2>3. r \in SaveMessageRequest
    BY <1>3, <2>1 DEF Request, JoinRequest, SaveMessageRequest, SavePictureRequest,
       GetPictureRequest, ShutdownRequest, Join
  <2>4. requests' = Tail(requests) /\ UNCHANGED users
    BY <2>2 DEF HandleSaveMessage
  <2>5. kept = <<r>> \o OfType(requests', {"save_message"})
    BY <1>3, <2>1, <2>4, OfTypeTail
  <2>6. PICK id \in UserId(r.chat.sender), done \in WriteSucceeds :
          messages' = IF id # 0 /\ done
                      THEN Append(messages, [id |-> id, text |-> r.chat.text])
                      ELSE messages
    BY <2>2 DEF HandleSaveMessage
  <2>7. /\ id # 0 => id \in DOMAIN users /\ users[id].name = r.chat.sender
        /\ id = 0 => r.chat.sender \notin Listed \/ LookupMayFail
        /\ ~done => WriteMayFail
    BY UserIdProperties DEF IsFirstRow, RowsOf, Listed, WriteSucceeds
  <2> QED
    BY <2>1, <2>3, <2>4, <2>5, <2>6, <2>7
<1> QED
  BY <1>1, <1>2, <1>3 DEF DatabaseThread

-----------------------------------------------------------------------------
(* The table users as an account book.                                     *)

\* What the refinement mapping of Accounts shows of a name.
AccountOf(u) ==
    IF RowsOf(u) = {} THEN {}
    ELSE {users[i].password : i \in {j \in RowsOf(u) : IsFirstRow(j, u)}}

\* A row appended for u is seen only if u had none.
LEMMA AccountStep ==
  ASSUME DatabaseTypeOK, NEW u \in Users, NEW p \in Passwords, NEW v \in Users,
         users' = Append(users, [name |-> u, password |-> p])
  PROVE  AccountOf(v)' = IF v = u /\ RowsOf(u) = {} THEN {p} ELSE AccountOf(v)
<1> DEFINE n == Len(users)
<1>1. /\ n \in Nat
      /\ DOMAIN users = 1 .. n
      /\ DOMAIN users' = 1 .. n + 1
      /\ \A i \in 1 .. n : users'[i] = users[i]
      /\ users'[n + 1] = [name |-> u, password |-> p]
  <2>1. [name |-> u, password |-> p] \in UserRow
    BY DEF UserRow
  <2> QED
    BY <2>1, RowAdded
<1> HIDE DEF n
<1>2. RowsOf(v)' = IF v = u THEN RowsOf(v) \cup {n + 1} ELSE RowsOf(v)
  BY <1>1 DEF RowsOf
<1>3. RowsOf(v) \subseteq 1 .. n
  BY <1>1 DEF RowsOf
<1>4. CASE v = u /\ RowsOf(u) = {}
  <2>1. RowsOf(v)' = {n + 1}
    BY <1>2, <1>4
  <2>2. {j \in RowsOf(v)' : IsFirstRow(j, v)'} = {n + 1}
    BY <1>1, <2>1 DEF IsFirstRow
  <2> QED
    BY <1>1, <1>4, <2>1, <2>2 DEF AccountOf
<1>5. CASE ~(v = u /\ RowsOf(u) = {})
  <2>1. RowsOf(v)' = {} <=> RowsOf(v) = {}
    BY <1>2, <1>5
  <2>2. \A j \in RowsOf(v)' : IsFirstRow(j, v)' <=> j \in RowsOf(v) /\ IsFirstRow(j, v)
    <3> SUFFICES ASSUME NEW j \in RowsOf(v)'
                 PROVE  IsFirstRow(j, v)' <=> j \in RowsOf(v) /\ IsFirstRow(j, v)
      OBVIOUS
    <3>1. CASE v # u
      BY <1>2, <3>1 DEF IsFirstRow
    <3>2. CASE v = u
      <4>1. PICK k \in RowsOf(v) : TRUE
        BY <1>5, <3>2
      <4>2. k < n + 1 /\ \A i \in RowsOf(v) : i \in Nat /\ i < n + 1
        BY <1>1, <1>3
      <4> QED
        BY <1>1, <1>2, <3>2, <4>2 DEF IsFirstRow
    <3> QED
      BY <3>1, <3>2
  <2>3. RowsOf(v) \subseteq RowsOf(v)'
    BY <1>2
  <2>4. {j \in RowsOf(v)' : IsFirstRow(j, v)'} = {j \in RowsOf(v) : IsFirstRow(j, v)}
    BY <2>2, <2>3
  <2>5. \A j \in RowsOf(v) : users'[j] = users[j]
    BY <1>1, <1>3
  <2> DEFINE first == {j \in RowsOf(v) : IsFirstRow(j, v)}
  <2>6. {users'[j].password : j \in first} = {users[j].password : j \in first}
    BY <2>5
  <2>7. AccountOf(v)' = IF RowsOf(v) = {} THEN {} ELSE {users'[j].password : j \in first}
    BY <2>1, <2>4 DEF AccountOf
  <2>8. AccountOf(v) = IF RowsOf(v) = {} THEN {} ELSE {users[j].password : j \in first}
    BY DEF AccountOf
  <2> QED
    BY <1>5, <2>6, <2>7, <2>8
<1> QED
  BY <1>4, <1>5

\* The whole book.
Book == [u \in Users |-> AccountOf(u)]

LEMMA BookSpec == AccountsSpec <=> Accounts!Init /\ [][Accounts!Next]_Book
  BY DEF AccountsSpec, Accounts!Spec, Book, AccountOf

LEMMA BookBegins ==
  ASSUME DatabaseTypeOK, UniqueUsernames PROVE Accounts!Init
<1> SUFFICES ASSUME NEW u \in Users
             PROVE  AccountOf(u) \in {{}} \cup {{p} : p \in Passwords}
  BY DEF Accounts!Init, AccountOf
<1>1. CASE RowsOf(u) = {}
  BY <1>1 DEF AccountOf
<1>2. CASE RowsOf(u) # {}
  <2>1. PICK k \in RowsOf(u) : TRUE
    BY <1>2
  <2>2. RowsOf(u) = {k}
    BY <2>1 DEF RowsOf, UniqueUsernames
  <2>3. k \in Nat /\ users[k] \in UserRow
    BY <2>1, LenProperties, ElementOfSeq DEF RowsOf, DatabaseTypeOK
  <2>4. {j \in RowsOf(u) : IsFirstRow(j, u)} = {k}
    BY <2>2, <2>3 DEF IsFirstRow
  <2>5. AccountOf(u) = {users[k].password}
    BY <1>2, <2>4 DEF AccountOf
  <2> QED
    BY <2>3, <2>5 DEF UserRow
<1> QED
  BY <1>1, <1>2

\* A row that is appended opens an account or is never looked at.
LEMMA BookStep ==
  ASSUME DatabaseTypeOK,
         \/ UNCHANGED users
         \/ \E u \in Users, p \in Passwords :
              users' = Append(users, [name |-> u, password |-> p])
  PROVE  [Accounts!Next]_Book
<1>1. CASE UNCHANGED users
  BY <1>1 DEF Book, AccountOf, RowsOf, IsFirstRow
<1>2. ASSUME NEW u \in Users, NEW p \in Passwords,
             users' = Append(users, [name |-> u, password |-> p])
      PROVE  Accounts!Next \/ UNCHANGED Book
  <2>1. \A v \in Users :
          AccountOf(v)' = IF v = u /\ RowsOf(u) = {} THEN {p} ELSE AccountOf(v)
    BY <1>2, AccountStep
  <2>2. CASE RowsOf(u) = {}
    <3>1. Book[u] = {} /\ Book' = [Book EXCEPT ![u] = {p}]
      BY <2>1, <2>2 DEF Book, AccountOf
    <3>2. Accounts!Open(u, p)
      BY <3>1 DEF Accounts!Open, Book, AccountOf
    <3> QED
      BY <3>2 DEF Accounts!Next
  <2>3. CASE RowsOf(u) # {}
    BY <2>1, <2>3 DEF Book
  <2> QED
    BY <2>2, <2>3
<1> QED
  BY <1>1, <1>2

=============================================================================

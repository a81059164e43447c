---------------------------- MODULE ClientProofs ----------------------------
(* Proofs about Client, for any number of connections and of chats.        *)
EXTENDS Client, SequenceTheorems, TLAPS

\* Before the first connection there is nothing to show, send or read.
Beginning ==
    gen = 0 =>
        /\ layer # "chat" /\ inbox = <<>> /\ ~connecting /\ socket = "closed"
        /\ writing = "none" /\ ~reading /\ failing = 0 /\ ~torn
        /\ posted = <<>> /\ buffer = <<>>

\* A socket is opened only under a connect() that waits, and a connection still
\* to be asked for has carried nothing.
Opening ==
    /\ socket = "opening" => connecting
    /\ \A g \in Connections : g > gen => sent[g] = <<>>

\* A write is about the first line of the queue.
OneWrite == writing # "none" => queue # <<>>

\* What the connection has carried, and what waits for it.
Pipe == sent[gen] \o Unsent \o posted

\* As long as connect() waits this is what was left, and then the connection's
\* own lines follow.
Whole ==
    /\ connecting => Pipe = left[gen]
    /\ ~connecting /\ socket = "open" =>
         Carries(gen, Pipe) /\ Len(Pipe) >= Len(left[gen]) + 2

LinesInv == TypeOK /\ Beginning /\ Opening /\ OneWrite /\ Whole /\ OwnLinesInOrder

-----------------------------------------------------------------------------
(* Sequences.                                                              *)

LEMMA Joined ==
  ASSUME NEW S, NEW a \in Seq(S), NEW b \in Seq(S)
  PROVE  /\ a \o b \in Seq(S) /\ Len(a \o b) = Len(a) + Len(b)
         /\ Len(a) \in Nat /\ Len(b) \in Nat
         /\ DOMAIN a = 1 .. Len(a) /\ DOMAIN b = 1 .. Len(b)
         /\ DOMAIN (a \o b) = 1 .. Len(a) + Len(b)
         /\ \A i \in 1 .. Len(a) : (a \o b)[i] = a[i]
         /\ \A i \in 1 .. Len(b) : (a \o b)[Len(a) + i] = b[i]
<1> DEFINE ab == a \o b
           n == Len(a)
           m == Len(b)
<1>1. /\ ab \in Seq(S) /\ Len(ab) = n + m /\ n \in Nat /\ m \in Nat
      /\ \A i \in 1 .. n + m : ab[i] = IF i <= n THEN a[i] ELSE b[i - n]
  BY ConcatProperties, LenProperties
<1>2. DOMAIN a = 1 .. n /\ DOMAIN b = 1 .. m /\ DOMAIN ab = 1 .. Len(ab)
  BY <1>1, LenProperties
<1> HIDE DEF ab, n, m
<1>3. ASSUME NEW i \in 1 .. n PROVE ab[i] = a[i]
  BY <1>1
<1>4. ASSUME NEW i \in 1 .. m PROVE ab[n + i] = b[i]
  <2>1. n + i \in 1 .. n + m /\ ~(n + i <= n) /\ (n + i) - n = i
    BY <1>1
  <2> QED
    BY <1>1, <2>1
<1> QED
  BY <1>1, <1>2, <1>3, <1>4 DEF ab, n, m

LEMMA Shifted ==
  ASSUME NEW S, NEW a \in Seq(S), NEW b \in Seq(S), b # <<>>
  PROVE  Append(a, Head(b)) \o Tail(b) = a \o b
<1> DEFINE h == Head(b)
           rest == Tail(b)
           one == <<h>>
<1>1. h \in S /\ rest \in Seq(S) /\ one \in Seq(S)
  <2>1. h \in S /\ rest \in Seq(S)
    BY HeadTailProperties
  <2> HIDE DEF h
  <2> QED
    BY <2>1
<1>2. b = one \o rest
  <2> DEFINE c == one \o rest
  <2>1. Len(rest) = Len(b) - 1 /\ Len(b) \in Nat /\ h = b[1]
        /\ \A i \in 1 .. Len(rest) : rest[i] = b[i + 1]
    BY HeadTailProperties, LenProperties
  <2>2. Len(one) = 1 /\ one[1] = h
    OBVIOUS
  <2> HIDE DEF h, rest, one
  <2>3. /\ c \in Seq(S) /\ Len(c) = 1 + Len(rest) /\ c[1] = h
        /\ \A i \in 1 .. Len(rest) : c[1 + i] = rest[i]
    <3>1. /\ c \in Seq(S) /\ Len(c) = Len(one) + Len(rest) /\ Len(rest) \in Nat
          /\ \A i \in 1 .. Len(one) : c[i] = one[i]
          /\ \A i \in 1 .. Len(rest) : c[Len(one) + i] = rest[i]
      BY <1>1, Joined
    <3> HIDE DEF c
    <3> QED
      BY <2>2, <3>1
  <2> HIDE DEF c
  <2>4. ASSUME NEW i \in 1 .. Len(b) PROVE b[i] = c[i]
    <3>1. CASE i = 1
      BY <2>1, <2>3, <3>1
    <3>2. CASE i # 1
      <4>1. i - 1 \in 1 .. Len(rest) /\ 1 + (i - 1) = i /\ (i - 1) + 1 = i
        BY <2>1, <3>2
      <4> QED
        BY <2>1, <2>3, <4>1
    <3> QED
      BY <3>1, <3>2
  <2>5. Len(b) = Len(c)
    BY <2>1, <2>3
  <2> QED
    BY <2>3, <2>4, <2>5, SeqEqual DEF c
<1> HIDE DEF h, rest, one
<1>3. a \o (one \o rest) = (a \o one) \o rest
  <2>1. one \in Seq(S) /\ rest \in Seq(S)
    BY <1>1
  <2> QED
    BY <2>1, ConcatAssociative
<1>4. a \o one = Append(a, h)
  BY <1>1, AppendIsConcat DEF one
<1> QED
  BY <1>2, <1>3, <1>4 DEF h, rest

LEMMA HeadTailOfConcat ==
  ASSUME NEW S, NEW a \in Seq(S), NEW b \in Seq(S), a # <<>>
  PROVE  a \o b # <<>> /\ Head(a \o b) = Head(a) /\ Tail(a \o b) = Tail(a) \o b
<1> DEFINE ab == a \o b
           rest == Tail(a)
           short == Tail(ab)
           other == rest \o b
           n == Len(a)
           m == Len(b)
<1>1. /\ ab \in Seq(S) /\ Len(ab) = n + m /\ n \in Nat /\ m \in Nat
      /\ \A i \in 1 .. n : ab[i] = a[i]
      /\ \A i \in 1 .. m : ab[n + i] = b[i]
  BY Joined
<1>2. /\ rest \in Seq(S) /\ Len(rest) = n - 1 /\ Head(a) = a[1] /\ n >= 1
      /\ \A i \in 1 .. n - 1 : rest[i] = a[i + 1]
  <2>1. Len(a) # 0 /\ Len(a) \in Nat
    BY LenProperties, EmptySeq
  <2> QED
    BY <2>1, HeadTailProperties
<1> HIDE DEF ab, rest, n, m
<1>3. ab # <<>>
  BY <1>1, <1>2
<1>4. /\ short \in Seq(S) /\ Len(short) = n + m - 1 /\ Head(ab) = ab[1]
      /\ \A i \in 1 .. n + m - 1 : short[i] = ab[i + 1]
  BY <1>1, <1>3, HeadTailProperties
<1> HIDE DEF short
<1>5. /\ other \in Seq(S) /\ Len(other) = (n - 1) + m
      /\ \A i \in 1 .. n - 1 : other[i] = rest[i]
      /\ \A i \in 1 .. m : other[(n - 1) + i] = b[i]
  <2>1. /\ other \in Seq(S) /\ Len(other) = Len(rest) + Len(b)
        /\ \A i \in 1 .. Len(rest) : other[i] = rest[i]
        /\ \A i \in 1 .. Len(b) : other[Len(rest) + i] = b[i]
    <3>1. rest \in Seq(S)
      BY <1>2
    <3> QED
      BY <3>1, Joined
  <2> HIDE DEF other
  <2> QED
    BY <1>2, <2>1 DEF m
<1> HIDE DEF other
<1>6. Head(ab) = Head(a)
  <2>1. 1 \in 1 .. n
    BY <1>1, <1>2
  <2> QED
    BY <1>1, <1>2, <1>4, <2>1
<1>7. short = other
  <2>1. Len(short) = Len(other)
    BY <1>1, <1>4, <1>5
  <2>2. ASSUME NEW i \in 1 .. Len(short) PROVE short[i] = other[i]
    <3>1. short[i] = ab[i + 1]
      BY <1>4
    <3>2. CASE i \in 1 .. n - 1
      <4>1. i + 1 \in 1 .. n
        BY <1>1, <3>2
      <4> QED
        BY <1>1, <1>2, <1>5, <3>1, <3>2, <4>1
    <3>3. CASE i \notin 1 .. n - 1
      <4> DEFINE k == i - (n - 1)
      <4>1. k \in 1 .. m /\ i = (n - 1) + k /\ i + 1 = n + k
        BY <1>1, <1>2, <1>4, <3>3
      <4> HIDE DEF k
      <4>2. ab[n + k] = b[k] /\ other[(n - 1) + k] = b[k]
        BY <1>1, <1>5, <4>1
      <4> QED
        BY <3>1, <4>1, <4>2
    <3> QED
      BY <3>2, <3>3
  <2> QED
    BY <1>4, <1>5, <2>1, <2>2, SeqEqual
<1> QED
  BY <1>3, <1>6, <1>7 DEF ab, short, other, rest

LEMMA AppendedLater ==
  ASSUME NEW S, NEW a \in Seq(S), NEW b \in Seq(S), NEW x \in S
  PROVE  a \o Append(b, x) = Append(a \o b, x)
<1>1. <<x>> \in Seq(S) /\ a \o b \in Seq(S)
  BY ConcatProperties
<1>2. a \o (b \o <<x>>) = (a \o b) \o <<x>>
  BY <1>1, ConcatAssociative
<1> QED
  BY <1>1, <1>2, AppendIsConcat

LEMMA TailOf ==
  ASSUME NEW S, NEW a \in Seq(S), a # <<>>
  PROVE  /\ Head(a) \in S /\ Tail(a) \in Seq(S) /\ Len(a) \in Nat /\ Len(Tail(a)) = Len(a) - 1
         /\ Head(a) = a[1] /\ 1 \in DOMAIN a
         /\ \A i \in DOMAIN Tail(a) : i + 1 \in DOMAIN a /\ Tail(a)[i] = a[i + 1] /\ i \in Nat
<1> DEFINE rest == Tail(a)
           n == Len(a)
           m == Len(rest)
<1>1. Head(a) \in S /\ rest \in Seq(S) /\ n \in Nat /\ m = n - 1 /\ Head(a) = a[1]
      /\ \A i \in 1 .. m : rest[i] = a[i + 1]
  BY HeadTailProperties, LenProperties
<1>2. DOMAIN a = 1 .. n /\ DOMAIN rest = 1 .. m /\ n # 0
  BY <1>1, LenProperties, EmptySeq
<1> HIDE DEF rest, n, m
<1>3. ASSUME NEW i \in DOMAIN rest PROVE i + 1 \in DOMAIN a /\ rest[i] = a[i + 1] /\ i \in Nat
  BY <1>1, <1>2
<1>4. 1 \in DOMAIN a
  BY <1>1, <1>2
<1> QED
  BY <1>1, <1>3, <1>4 DEF rest, n, m

LEMMA Beginnings ==
  ASSUME NEW g, NEW a \in Seq(Line), NEW b \in Seq(Line), Carries(g, a \o b)
  PROVE  Carries(g, a)
<1> DEFINE ab == a \o b
<1>1. \A i \in DOMAIN a : i \in DOMAIN ab /\ ab[i] = a[i]
  BY Joined
<1> HIDE DEF ab
<1>2. Carries(g, ab)
  BY DEF ab
<1> QED
  BY <1>1, <1>2 DEF Carries

LEMMA CarriesChat ==
  ASSUME TypeOK, NEW g \in Connections, NEW a \in Seq(Line),
         Carries(g, a), Len(a) >= Len(left[g]) + 2
  PROVE  /\ Carries(g, Append(a, [type |-> "chat", by |-> g]))
         /\ Len(Append(a, [type |-> "chat", by |-> g])) >= Len(left[g]) + 2
<1> DEFINE x == [type |-> "chat", by |-> g]
           b == Append(a, x)
           n == Len(left[g])
<1>1. x \in Line /\ x.type = "chat" /\ x.by = g
  BY DEF Line
<1>2. n \in Nat
  BY LenProperties DEF TypeOK
<1> HIDE DEF x
<1>3. /\ b \in Seq(Line) /\ Len(b) = Len(a) + 1 /\ Len(a) \in Nat
      /\ DOMAIN b = 1 .. Len(a) + 1 /\ DOMAIN a = 1 .. Len(a)
      /\ \A i \in 1 .. Len(a) : b[i] = a[i]
      /\ b[Len(a) + 1] = x
  BY <1>1, AppendProperties, LenProperties
<1> HIDE DEF b
<1>4. ASSUME NEW i \in DOMAIN b
      PROVE  IF i <= n THEN b[i] = left[g][i]
             ELSE b[i].by = g /\ b[i].type = CASE i - n = 1 -> "join"
                                               [] i - n = 2 -> "picture" [] OTHER -> "chat"
  <2>1. CASE i \in DOMAIN a
    BY <1>3, <2>1 DEF Carries
  <2>2. CASE i = Len(a) + 1
    <3>1. ~(i <= n) /\ i - n # 1 /\ i - n # 2
      BY <1>2, <1>3, <2>2
    <3> QED
      BY <1>1, <1>3, <2>2, <3>1
  <2> QED
    BY <1>3, <2>1, <2>2
<1>5. Carries(g, b)
  BY <1>4 DEF Carries, n
<1> QED
  BY <1>2, <1>3, <1>5 DEF b, x, n

\* What onJoin posts behind what was left.
LEMMA CarriesJoin ==
  ASSUME TypeOK, NEW g \in Connections, g = gen
  PROVE  /\ OnJoin \in Seq(Line) /\ left[g] \o OnJoin \in Seq(Line)
         /\ Carries(g, left[g] \o OnJoin)
         /\ Len(left[g] \o OnJoin) >= Len(left[g]) + 2
<1> DEFINE old == left[g]
           n == Len(old)
           x == [type |-> "join", by |-> g]
           y == [type |-> "picture", by |-> g]
           own == <<x, y>>
           all == old \o own
<1>1. own = OnJoin
  BY DEF OnJoin
<1>2. x \in Line /\ y \in Line /\ x.by = g /\ y.by = g /\ x.type = "join" /\ y.type = "picture"
  BY DEF Line
<1>3. old \in Seq(Line)
  BY DEF TypeOK
<1> HIDE DEF x, y, old
<1>4. own \in Seq(Line) /\ Len(own) = 2 /\ own[1] = x /\ own[2] = y
  BY <1>2
<1> HIDE DEF own
<1>5. /\ all \in Seq(Line) /\ Len(all) = n + 2 /\ n \in Nat
      /\ DOMAIN all = 1 .. n + 2 /\ DOMAIN old = 1 .. n
      /\ \A i \in 1 .. n : all[i] = old[i]
      /\ all[n + 1] = x /\ all[n + 2] = y
  <2>1. /\ all \in Seq(Line) /\ Len(all) = n + Len(own) /\ n \in Nat
        /\ DOMAIN all = 1 .. n + Len(own) /\ DOMAIN old = 1 .. n
        /\ \A i \in 1 .. n : all[i] = old[i]
        /\ \A i \in 1 .. Len(own) : all[n + i] = own[i]
    <3>1. own \in Seq(Line)
      BY <1>4
    <3> QED
      BY <1>3, <3>1, Joined
  <2> HIDE DEF all, n
  <2>2. 1 \in 1 .. Len(own) /\ 2 \in 1 .. Len(own)
    BY <1>4
  <2> QED
    BY <1>4, <2>1, <2>2
<1> HIDE DEF all, n
<1>6. ASSUME NEW i \in DOMAIN all
      PROVE  IF i <= n THEN all[i] = old[i]
             ELSE all[i].by = g /\ all[i].type = CASE i - n = 1 -> "join"
                                                   [] i - n = 2 -> "picture" [] OTHER -> "chat"
  <2>1. i \in 1 .. n \/ i = n + 1 \/ i = n + 2
    BY <1>5
  <2>2. CASE i \in 1 .. n
    BY <1>5, <2>2
  <2>3. CASE i = n + 1
    <3>1. ~(i <= n) /\ i - n = 1
      BY <1>5, <2>3
    <3> QED
      BY <1>2, <1>5, <2>3, <3>1
  <2>4. CASE i = n + 2
    <3>1. ~(i <= n) /\ i - n # 1 /\ i - n = 2
      BY <1>5, <2>4
    <3> QED
      BY <1>2, <1>5, <2>4, <3>1
  <2> QED
    BY <2>1, <2>2, <2>3, <2>4
<1>7. Carries(g, all)
  BY <1>6 DEF Carries, n, old
<1>8. Len(all) >= n + 2
  BY <1>5
<1> QED
  BY <1>1, <1>4, <1>5, <1>7, <1>8 DEF all, n, old

\* What was left is carried first.
LEMMA CarriesLeft ==
  ASSUME TypeOK, NEW g \in Connections
  PROVE  Carries(g, left[g])
<1>1. DOMAIN left[g] = 1 .. Len(left[g]) /\ Len(left[g]) \in Nat
  BY LenProperties DEF TypeOK
<1> QED
  BY <1>1 DEF Carries

-----------------------------------------------------------------------------
(* Types.                                                                  *)

LEMMA LinesInit == Init => LinesInv
<1> SUFFICES ASSUME Init PROVE LinesInv
  OBVIOUS
<1>1. TypeOK
  <2>1. /\ inbox \in Seq(Read) /\ posted \in Seq(Line) /\ queue \in Seq(Line)
        /\ buffer \in Seq(Read) /\ down \in Seq(Told)
    BY EmptySeq DEF Init
  <2>2. sent \in [Connections -> Seq(Line)] /\ left \in [Connections -> Seq(Line)]
    BY EmptySeq DEF Init
  <2>3. chats \in 0 .. MaxChats /\ gen \in 0 .. MaxConnects /\ says \in 0 .. MaxSays
    BY ClientAssumption DEF Init
  <2>4. /\ layer \in {"login", "register", "chat"} /\ popup \in BOOLEAN
        /\ connecting \in BOOLEAN /\ socket \in {"closed", "opening", "open"}
        /\ writing \in {"none", "flight", "done", "failed"} /\ reading \in BOOLEAN
        /\ failing \in Nat /\ torn \in BOOLEAN /\ writeFailed \in BOOLEAN
        /\ remote \in BOOLEAN /\ phase \in {"new", "in", "out"} /\ asked \in Nat
        /\ fault \in {"none", "parse", "resolve", "two_reads"}
    BY DEF Init
  <2> QED
    BY <2>1, <2>2, <2>3, <2>4 DEF TypeOK
<1>2. Beginning /\ Opening /\ OneWrite /\ Whole
  BY EmptySeq DEF Init, Beginning, Opening, OneWrite, Whole, Connections
<1>3. OwnLinesInOrder
  BY EmptySeq DEF Init, OwnLinesInOrder, Carries
<1> QED
  BY <1>1, <1>2, <1>3 DEF LinesInv

\* A connection has its number from the moment it is asked for.
LEMMA Numbered ==
  ASSUME TypeOK, gen # 0
  PROVE  gen \in Connections /\ sent[gen] \in Seq(Line) /\ left[gen] \in Seq(Line)
  BY ClientAssumption DEF TypeOK, Connections

LEMMA UnsentTyped ==
  ASSUME TypeOK, OneWrite
  PROVE  Unsent \in Seq(Line) /\ queue \in Seq(Line) /\ posted \in Seq(Line)
<1>1. queue \in Seq(Line) /\ posted \in Seq(Line)
  BY DEF TypeOK
<1>2. CASE writing = "done"
  BY <1>1, <1>2, TailOf DEF OneWrite, Unsent
<1>3. CASE writing # "done"
  BY <1>1, <1>3 DEF Unsent
<1> QED
  BY <1>1, <1>2, <1>3

LEMMA TakenTyped ==
  ASSUME NEW seq \in Seq(Told), seq # <<>>
  PROVE  /\ Taken(seq) \in Seq(Read)
         /\ torn => 1 \in DOMAIN Taken(seq) /\ Taken(seq)[1] = "garbage"
         /\ ~torn => Taken(seq) = seq
<1>1. Told \subseteq Read
  BY DEF Read
<1>2. seq \in Seq(Read) /\ Tail(seq) \in Seq(Read)
  BY <1>1, SeqMonotonic, HeadTailProperties
<1> DEFINE rest == Tail(seq)
           one == <<"garbage">>
<1>3. one \in Seq(Read) /\ Len(one) = 1 /\ one[1] = "garbage"
  BY DEF Read
<1>4. rest \in Seq(Read)
  BY <1>2
<1> HIDE DEF rest, one
<1>5. /\ one \o rest \in Seq(Read) /\ Len(rest) \in Nat
      /\ DOMAIN (one \o rest) = 1 .. Len(one) + Len(rest)
      /\ \A i \in 1 .. Len(one) : (one \o rest)[i] = one[i]
  BY <1>3, <1>4, Joined
<1>6. 1 \in DOMAIN (one \o rest) /\ (one \o rest)[1] = "garbage"
  BY <1>3, <1>5
<1> QED
  BY <1>2, <1>5, <1>6 DEF Taken, rest, one

LEMMA Parted ==
  ASSUME NEW S, NEW seq \in Seq(S), NEW a \in Seq(S), NEW b \in Seq(S),
         Len(seq) = Len(a) + Len(b),
         \A i \in 1 .. Len(a) : a[i] = seq[i],
         \A i \in 1 .. Len(b) : b[i] = seq[Len(a) + i]
  PROVE  a \o b = seq
<1> DEFINE ab == a \o b
           n == Len(a)
           m == Len(b)
<1>1. /\ ab \in Seq(S) /\ Len(ab) = n + m /\ n \in Nat /\ m \in Nat
      /\ \A i \in 1 .. n : ab[i] = a[i]
      /\ \A i \in 1 .. m : ab[n + i] = b[i]
  BY Joined
<1>2. Len(seq) = n + m /\ (\A i \in 1 .. n : a[i] = seq[i]) /\ (\A i \in 1 .. m : b[i] = seq[n + i])
  OBVIOUS
<1> HIDE DEF ab, n, m
<1>3. ASSUME NEW i \in 1 .. n + m PROVE ab[i] = seq[i]
  <2>1. CASE i \in 1 .. n
    BY <1>1, <1>2, <2>1
  <2>2. CASE i \notin 1 .. n
    <3> DEFINE k == i - n
    <3>1. k \in 1 .. m /\ i = n + k
      BY <1>1, <2>2
    <3> HIDE DEF k
    <3> QED
      BY <1>1, <1>2, <3>1
  <2> QED
    BY <2>1, <2>2
<1>4. ab = seq
  BY <1>1, <1>2, <1>3, SeqEqual
<1> QED
  BY <1>4 DEF ab

\* n lines of what is on its way, and what comes behind them.
LEMMA Cut ==
  ASSUME NEW S, NEW seq \in Seq(S), NEW n \in 1 .. Len(seq)
  PROVE  /\ SubSeq(seq, 1, n) \in Seq(S) /\ SubSeq(seq, 1, n) # <<>>
         /\ SubSeq(seq, n + 1, Len(seq)) \in Seq(S)
         /\ SubSeq(seq, 1, n) \o SubSeq(seq, n + 1, Len(seq)) = seq
<1> DEFINE a == SubSeq(seq, 1, n)
           b == SubSeq(seq, n + 1, Len(seq))
           m == Len(seq)
<1>1. m \in Nat /\ n \in Nat /\ 1 <= n /\ n <= m /\ seq = [i \in 1 .. m |-> seq[i]]
  BY LenProperties
<1>2. \A i \in 1 .. m : seq[i] \in S
  BY ElementOfSeq
<1>3. a \in Seq(S) /\ Len(a) = n /\ \A i \in 1 .. n : a[i] = seq[i]
  BY <1>1, <1>2, SubSeqProperties
<1>4. b \in Seq(S) /\ Len(b) = m - n /\ \A i \in 1 .. m - n : b[i] = seq[n + i]
  <2>1. CASE n = m
    <3>1. b = <<>>
      BY <1>1, <2>1
    <3> QED
      BY <1>1, <2>1, <3>1, EmptySeq
  <2>2. CASE n < m
    <3>1. n + 1 \in 1 .. m /\ m \in n + 1 .. m
      BY <1>1, <2>2
    <3> QED
      BY <1>1, <1>2, <3>1, SubSeqProperties
  <2> QED
    BY <1>1, <2>1, <2>2
<1> HIDE DEF a, b, m
<1>5. a # <<>>
  <2>1. Len(a) # 0 /\ Len(<<>>) = 0
    BY <1>1, <1>3
  <2> QED
    BY <2>1
<1>6. a \o b = seq
  <2>1. /\ a \in Seq(S) /\ b \in Seq(S) /\ Len(seq) = Len(a) + Len(b)
        /\ \A i \in 1 .. Len(a) : a[i] = seq[i]
        /\ \A i \in 1 .. Len(b) : b[i] = seq[Len(a) + i]
    BY <1>1, <1>3, <1>4 DEF m
  <2> QED
    BY <2>1, Parted
<1> QED
  BY <1>3, <1>4, <1>5, <1>6 DEF a, b

-----------------------------------------------------------------------------
(* The steps.                                                              *)

\* A step that moves no line between the program and the connection.
LEMMA WholeKept ==
  ASSUME LinesInv, UNCHANGED <<gen, connecting, posted, queue, sent, left>>,
         (writing' = "done") <=> (writing = "done"),
         socket' = "open" => socket = "open" \/ connecting
  PROVE  Whole' /\ OwnLinesInOrder'
<1>1. Unsent' = Unsent
  BY DEF Unsent
<1>2. Pipe' = Pipe
  BY <1>1 DEF Pipe
<1>3. Whole'
  BY <1>2 DEF LinesInv, Whole, Carries
<1>4. OwnLinesInOrder'
  BY DEF LinesInv, OwnLinesInOrder, Carries
<1> QED
  BY <1>3, <1>4

\* The write that is cut off has all of its lines still, the first perhaps as a rest.
LEMMA CutOffTyped ==
  ASSUME LinesInv, WriteCutOff
  PROVE  /\ queue' \in Seq(Line) /\ (writing' # "none" => queue' # <<>>)
         /\ writing' \in {"none", "flight", "done", "failed"}
         /\ Unsent' \in Seq(Line)
         /\ writing = "none" => writing' = "none"
<1>1. queue \in Seq(Line) /\ (writing # "none" => queue # <<>>)
  BY DEF LinesInv, TypeOK, OneWrite
<1>2. writing \in {"none", "flight", "done", "failed"}
  BY DEF LinesInv, TypeOK
<1>3. /\ queue' \in Seq(Line) /\ (writing' # "none" => queue' # <<>>)
      /\ writing' \in {"none", "flight", "done", "failed"}
      /\ writing = "none" => writing' = "none"
  <2>1. CASE writing = "flight" /\ writing' = "flight"
             /\ queue' = <<[Head(queue) EXCEPT !.type = "rest"]>> \o Tail(queue)
    <3> DEFINE x == [Head(queue) EXCEPT !.type = "rest"]
               rest == Tail(queue)
               one == <<x>>
    <3>1. Head(queue) \in Line /\ rest \in Seq(Line)
      BY <1>1, <2>1, TailOf
    <3>2. x \in Line
      BY <3>1 DEF Line
    <3> HIDE DEF x, rest
    <3>3. one \in Seq(Line) /\ Len(one) = 1
      BY <3>2
    <3> HIDE DEF one
    <3>4. one \o rest \in Seq(Line) /\ one \o rest # <<>>
      <4>1. one # <<>>
        BY <3>3, EmptySeq
      <4>2. rest \in Seq(Line)
        BY <3>1
      <4> QED
        BY <3>3, <4>1, <4>2, HeadTailOfConcat, ConcatProperties
    <3>5. queue' = one \o rest
      BY <2>1 DEF x, rest, one
    <3> QED
      BY <2>1, <3>4, <3>5
  <2>2. CASE queue' = queue /\ writing' \in {writing, "failed"} /\ (writing' # writing => writing = "flight")
    BY <1>1, <1>2, <2>2
  <2> QED
    BY <2>1, <2>2 DEF WriteCutOff
<1>4. Unsent' \in Seq(Line)
  <2>1. CASE writing' = "done"
    <3>1. queue' # <<>>
      BY <1>3, <2>1
    <3>2. Tail(queue') \in Seq(Line)
      BY <1>3, <3>1, TailOf
    <3> QED
      BY <2>1, <3>2 DEF Unsent
  <2>2. CASE writing' # "done"
    BY <1>3, <2>2 DEF Unsent
  <2> QED
    BY <2>1, <2>2
<1> QED
  BY <1>3, <1>4

LEMMA ConnectKeeps ==
  ASSUME LinesInv, Connect
  PROVE  LinesInv'
<1> USE DEF LinesInv
<1> DEFINE waiting == Unsent' \o posted
<1>1. /\ queue' \in Seq(Line) /\ (writing' # "none" => queue' # <<>>)
      /\ writing' \in {"none", "flight", "done", "failed"}
      /\ Unsent' \in Seq(Line)
  BY CutOffTyped DEF Connect
<1>2. /\ gen' = gen + 1 /\ gen' \in Connections /\ gen' # gen /\ gen \in Nat
      /\ gen' \in 0 .. MaxConnects
  BY ClientAssumption DEF Connect, TypeOK, Connections
<1>3. posted' = posted /\ posted \in Seq(Line) /\ sent' = sent
      /\ left' = [left EXCEPT ![gen'] = waiting] /\ left \in [Connections -> Seq(Line)]
  BY <1>2 DEF Connect, TypeOK
<1>4. waiting \in Seq(Line)
  BY <1>1, <1>3, ConcatProperties
<1> HIDE DEF waiting
<1>5. left' \in [Connections -> Seq(Line)] /\ left'[gen'] = waiting
  BY <1>2, <1>3, <1>4
<1>6. TypeOK'
  <2>1. down' \in Seq(Told)
    BY EmptySeq DEF Connect
  <2>2. torn' \in BOOLEAN
    <3>1. torn' = torn \/ torn' = TRUE
      BY DEF Connect, ReadCutOff
    <3> QED
      BY <3>1 DEF TypeOK
  <2>3. reading' \in BOOLEAN /\ failing' \in Nat /\ buffer' \in Seq(Read)
    <3>1. reading' = reading \/ reading' = FALSE
      BY DEF Connect, ReadCutOff
    <3>2. failing' = failing \/ failing' = failing + 1
      BY DEF Connect, ReadCutOff
    <3>3. buffer' = buffer
      BY DEF Connect, ReadCutOff
    <3>4. reading \in BOOLEAN /\ failing \in Nat /\ buffer \in Seq(Read)
      BY DEF TypeOK
    <3>5. failing' \in Nat
      BY <3>2, <3>4
    <3> QED
      BY <3>1, <3>3, <3>4, <3>5
  <2> QED
    BY <2>3, <1>1, <1>2, <1>5, <2>1, <2>2 DEF Connect, TypeOK, uiVars
<1>7. Beginning'
  BY <1>2 DEF Beginning
<1>8. Opening'
  <2>1. \A g \in Connections : g > gen' => g > gen
    BY <1>2 DEF Connections
  <2>2. connecting'
    BY DEF Connect
  <2> QED
    BY <1>3, <2>1, <2>2 DEF Opening
<1>9. OneWrite'
  BY <1>1 DEF OneWrite
<1>10. Whole'
  <2>1. sent'[gen'] = <<>>
    BY <1>2, <1>3 DEF Opening
  <2>2. Pipe' = <<>> \o Unsent' \o posted
    BY <1>3, <2>1 DEF Pipe
  <2>3. <<>> \o Unsent' = Unsent'
    BY <1>1, ConcatEmptySeq
  <2>4. Pipe' = left'[gen']
    BY <1>5, <2>2, <2>3 DEF waiting
  <2> QED
    BY <2>4 DEF Connect, Whole
<1>11. OwnLinesInOrder'
  <2>1. ASSUME NEW g \in Connections PROVE Carries(g, sent[g])'
    <3>1. CASE g = gen'
      <4>1. sent'[g] = <<>>
        BY <1>2, <1>3, <3>1 DEF Opening
      <4> QED
        BY <4>1, EmptySeq DEF Carries
    <3>2. CASE g # gen'
      <4>1. left'[g] = left[g] /\ sent'[g] = sent[g]
        BY <1>3, <3>2
      <4> QED
        BY <4>1 DEF OwnLinesInOrder, Carries
    <3> QED
      BY <3>1, <3>2
  <2> QED
    BY <2>1 DEF OwnLinesInOrder
<1> QED
  BY <1>6, <1>7, <1>8, <1>9, <1>10, <1>11

LEMMA OnUpdateKeeps ==
  ASSUME LinesInv, OnUpdate
  PROVE  LinesInv'
<1> USE DEF LinesInv
<1>1. inbox # <<>> /\ inbox \in Seq(Read) /\ gen # 0
  BY DEF OnUpdate, TypeOK, Beginning
<1>2. inbox' \in Seq(Read)
  BY <1>1, TailOf DEF OnUpdate
<1>3. TypeOK'
  BY <1>2 DEF OnUpdate, ShowAnswer, TypeOK, socketVars, writeVars, readVars, serverVars
<1>4. Beginning' /\ Opening' /\ OneWrite'
  BY <1>1 DEF OnUpdate, Beginning, Opening, OneWrite, socketVars, writeVars, readVars
<1>5. Whole' /\ OwnLinesInOrder'
  BY WholeKept DEF OnUpdate, socketVars, writeVars
<1> QED
  BY <1>3, <1>4, <1>5

LEMMA FormKeeps ==
  ASSUME LinesInv, ResolveThrows \/ ChangeForm
  PROVE  LinesInv'
<1> USE DEF LinesInv
<1>1. /\ layer' \in {"login", "register", "chat"} /\ popup' \in BOOLEAN /\ layer' # "chat"
      /\ fault' \in {"none", "parse", "resolve", "two_reads"}
  BY DEF ResolveThrows, ChangeForm, FormShown, TypeOK, uiVars
<1>2. /\ UNCHANGED <<chats, inbox, socketVars, posted, writeVars>>
      /\ UNCHANGED <<readVars, serverVars, sent, left>>
  BY DEF ResolveThrows, ChangeForm, uiVars
<1>3. TypeOK'
  BY <1>1, <1>2 DEF TypeOK, socketVars, writeVars, readVars, serverVars
<1>4. Beginning' /\ Opening' /\ OneWrite'
  BY <1>1, <1>2 DEF Beginning, Opening, OneWrite, socketVars, writeVars, readVars
<1>5. Whole' /\ OwnLinesInOrder'
  BY <1>2, WholeKept DEF socketVars, writeVars
<1> QED
  BY <1>3, <1>4, <1>5

LEMMA SendChatKeeps ==
  ASSUME LinesInv, SendChat
  PROVE  LinesInv'
<1> USE DEF LinesInv
<1> DEFINE x == [type |-> "chat", by |-> gen]
<1>1. gen # 0 /\ gen \in Connections /\ sent[gen] \in Seq(Line)
  BY Numbered DEF SendChat, Beginning
<1>2. x \in Line
  BY <1>1 DEF Line
<1>3. posted' = Append(posted, x) /\ ~connecting
      /\ UNCHANGED <<socketVars, writeVars, readVars, serverVars, sent, left, inbox>>
  BY DEF SendChat, Ui
<1>4. Unsent \in Seq(Line) /\ posted \in Seq(Line)
  BY UnsentTyped
<1>5. posted' \in Seq(Line)
  BY <1>2, <1>3, <1>4, AppendProperties
<1>6. chats' \in 0 .. MaxChats
  BY ClientAssumption DEF SendChat, TypeOK
<1>7. TypeOK'
  BY <1>5, <1>6 DEF SendChat, TypeOK, socketVars, writeVars, readVars, serverVars
<1>8. Beginning' /\ Opening' /\ OneWrite'
  BY <1>1, <1>3 DEF Beginning, Opening, OneWrite, socketVars, writeVars
<1>9. Whole'
  <2> DEFINE now == sent[gen] \o Unsent
  <2>1. now \in Seq(Line)
    BY <1>1, <1>4, ConcatProperties
  <2>2. Pipe = now \o posted
    BY DEF Pipe
  <2>3. Pipe' = now \o Append(posted, x)
    BY <1>3 DEF Pipe, Unsent, socketVars, writeVars
  <2> HIDE DEF now, x
  <2>4. Pipe' = Append(Pipe, x)
    BY <1>2, <1>4, <2>1, <2>2, <2>3, AppendedLater
  <2>5. Pipe \in Seq(Line)
    BY <1>4, <2>1, <2>2, ConcatProperties
  <2>6. ASSUME socket = "open"
        PROVE  Carries(gen, Pipe') /\ Len(Pipe') >= Len(left[gen]) + 2
    <3>1. Carries(gen, Pipe) /\ Len(Pipe) >= Len(left[gen]) + 2
      BY <1>3, <2>6 DEF Whole
    <3> QED
      BY <1>1, <2>4, <2>5, <3>1, CarriesChat DEF x
  <2> QED
    BY <1>3, <2>6 DEF Whole, Carries, socketVars
<1>10. OwnLinesInOrder'
  BY <1>3 DEF OwnLinesInOrder, Carries
<1> QED
  BY <1>7, <1>8, <1>9, <1>10

LEMMA EstablishKeeps ==
  ASSUME LinesInv, Establish
  PROVE  LinesInv'
<1> USE DEF LinesInv
<1>1. connecting /\ gen # 0
  BY DEF Establish, Opening, Beginning
<1>2. TypeOK'
  BY DEF Establish, TypeOK, uiVars, writeVars, readVars
<1>3. Beginning' /\ Opening' /\ OneWrite'
  BY <1>1 DEF Establish, Beginning, Opening, OneWrite, writeVars
<1>4. Whole' /\ OwnLinesInOrder'
  BY <1>1, WholeKept DEF Establish, writeVars
<1> QED
  BY <1>2, <1>3, <1>4

\* What is written next is what the connection is to carry next.
LEMMA TransmitKeeps ==
  ASSUME LinesInv, Transmit
  PROVE  LinesInv'
<1> USE DEF LinesInv
<1> DEFINE now == sent[gen]
           next == Append(now, Head(queue))
           rest == Tail(queue)
<1>1. /\ gen # 0 /\ gen \in Connections /\ now \in Seq(Line) /\ queue \in Seq(Line)
      /\ posted \in Seq(Line) /\ queue # <<>> /\ Unsent = queue
  BY Numbered DEF Transmit, Beginning, TypeOK, OneWrite, Unsent
<1>2. Head(queue) \in Line /\ rest \in Seq(Line)
  BY <1>1, TailOf
<1>3. next \in Seq(Line)
  BY <1>1, <1>2, AppendProperties
<1>4. /\ UNCHANGED <<uiVars, inbox, socketVars, posted, queue, writeFailed, readVars>>
      /\ UNCHANGED <<remote, phase, down, says, left, fault>>
      /\ writing' = "done" /\ sent' = [sent EXCEPT ![gen] = next] /\ asked' \in Nat
  BY DEF Transmit, TypeOK
<1>5. next \o rest = now \o queue
  BY <1>1, Shifted
<1> HIDE DEF now, next, rest
<1>6. sent' \in [Connections -> Seq(Line)] /\ sent'[gen] = next
      /\ \A g \in Connections : g # gen => sent'[g] = sent[g]
  BY <1>1, <1>3, <1>4 DEF TypeOK
<1>7. TypeOK'
  BY <1>4, <1>6 DEF TypeOK, uiVars, socketVars, readVars
<1>8. Beginning' /\ OneWrite'
  BY <1>1, <1>4 DEF Beginning, OneWrite, socketVars
<1>9. Opening'
  <2>1. gen' = gen /\ socket' = socket /\ connecting' = connecting /\ ~(gen > gen)
    BY <1>4 DEF socketVars, TypeOK
  <2>2. \A g \in Connections : g > gen => sent'[g] = <<>>
    BY <1>6, <2>1 DEF Opening
  <2> QED
    BY <2>1, <2>2 DEF Opening
<1>10. Pipe' = Pipe
  <2>1. Pipe' = (next \o rest) \o posted
    BY <1>4, <1>6 DEF Pipe, Unsent, socketVars, rest
  <2>2. Pipe = (now \o queue) \o posted
    BY <1>1 DEF Pipe, now
  <2> QED
    BY <1>5, <2>1, <2>2
<1>11. Carries(gen, next)
  <2>1. Carries(gen, Pipe)
    <3>1. CASE connecting
      BY <1>1, <3>1, CarriesLeft DEF Whole
    <3>2. CASE ~connecting
      BY <3>2 DEF Whole, Transmit
    <3> QED
      BY <3>1, <3>2
  <2>2. Pipe = (next \o rest) \o posted
    BY <1>1, <1>5 DEF Pipe, now
  <2>3. next \o rest \in Seq(Line)
    BY <1>2, <1>3, ConcatProperties
  <2>4. Carries(gen, next \o rest)
    BY <1>1, <2>1, <2>2, <2>3, Beginnings
  <2> QED
    BY <1>2, <1>3, <2>4, Beginnings
<1>12. Whole'
  BY <1>4, <1>10 DEF Whole, Carries, socketVars
<1>13. OwnLinesInOrder'
  BY <1>4, <1>6, <1>11 DEF OwnLinesInOrder, Carries
<1> QED
  BY <1>7, <1>8, <1>9, <1>12, <1>13

LEMMA RunPostedKeeps ==
  ASSUME LinesInv, RunPosted
  PROVE  LinesInv'
<1> USE DEF LinesInv
<1> DEFINE x == Head(posted)
           now == sent[gen]
<1>1. /\ posted # <<>> /\ posted \in Seq(Line) /\ queue \in Seq(Line) /\ Unsent \in Seq(Line)
  BY UnsentTyped DEF RunPosted
<1>2. gen # 0 /\ now \in Seq(Line)
  BY <1>1, Numbered DEF Beginning
<1>3. x \in Line /\ posted' \in Seq(Line) /\ posted' = Tail(posted)
  BY <1>1, TailOf DEF RunPosted
<1>4. queue' = Append(queue, x) /\ queue' \in Seq(Line) /\ queue' # <<>>
  BY <1>1, <1>3, AppendProperties DEF RunPosted
<1>5. UNCHANGED <<uiVars, inbox, socketVars, writeFailed, readVars, serverVars, sent, left, fault>>
      /\ writing' = IF queue = <<>> THEN "flight" ELSE writing
  BY DEF RunPosted
<1>6. TypeOK'
  BY <1>3, <1>4, <1>5 DEF TypeOK, uiVars, socketVars, readVars, serverVars
<1>7. Beginning' /\ Opening' /\ OneWrite'
  BY <1>2, <1>4, <1>5 DEF Beginning, Opening, OneWrite, socketVars
<1>8. Unsent' = Append(Unsent, x)
  <2>1. CASE writing = "done"
    <3> DEFINE one == <<x>>
    <3>1. queue # <<>> /\ writing' = "done"
      BY <1>5, <2>1 DEF OneWrite
    <3>2. Tail(queue) \in Seq(Line)
      BY <1>1, <3>1, TailOf
    <3> HIDE DEF x
    <3>3. one \in Seq(Line)
      BY <1>3
    <3>4. queue' = queue \o one /\ Append(Tail(queue), x) = Tail(queue) \o one
      BY <1>1, <1>3, <1>4, <3>2, AppendIsConcat
    <3> HIDE DEF one
    <3>5. Tail(queue \o one) = Tail(queue) \o one
      BY <1>1, <3>1, <3>3, HeadTailOfConcat
    <3> QED
      BY <2>1, <3>1, <3>4, <3>5 DEF Unsent
  <2>2. CASE writing # "done"
    BY <1>4, <1>5, <2>2 DEF Unsent
  <2> QED
    BY <2>1, <2>2
<1>9. Pipe' = Pipe
  <2>1. Unsent' \o posted' = Unsent \o posted
    BY <1>1, <1>3, <1>8, Shifted
  <2>2. Pipe' = (now \o Unsent') \o posted'
    BY <1>5 DEF Pipe, socketVars
  <2>3. Pipe = (now \o Unsent) \o posted
    BY DEF Pipe
  <2> HIDE DEF now, x
  <2>4. Unsent' \in Seq(Line)
    BY <1>1, <1>3, <1>8, AppendProperties
  <2>5. (now \o Unsent') \o posted' = now \o (Unsent' \o posted')
    <3>1. now \in Seq(Line) /\ posted' \in Seq(Line)
      BY <1>2, <1>3
    <3> QED
      BY <2>4, <3>1, ConcatAssociative
  <2>6. (now \o Unsent) \o posted = now \o (Unsent \o posted)
    BY <1>1, <1>2, ConcatAssociative
  <2> QED
    BY <2>1, <2>2, <2>3, <2>5, <2>6
<1>10. Whole' /\ OwnLinesInOrder'
  BY <1>5, <1>9 DEF Whole, OwnLinesInOrder, Carries, socketVars
<1> QED
  BY <1>6, <1>7, <1>10

LEMMA WriteDoneKeeps ==
  ASSUME LinesInv, WriteDone
  PROVE  LinesInv'
<1> USE DEF LinesInv
<1>1. queue \in Seq(Line) /\ queue # <<>> /\ queue' = Tail(queue) /\ queue' \in Seq(Line)
  <2>1. queue \in Seq(Line) /\ queue # <<>> /\ queue' = Tail(queue)
    BY DEF WriteDone, OneWrite, TypeOK
  <2> QED
    BY <2>1, TailOf
<1>2. /\ UNCHANGED <<uiVars, inbox, socketVars, posted, writeFailed, readVars>>
      /\ UNCHANGED <<serverVars, sent, left, fault>>
      /\ writing' = IF queue' = <<>> THEN "none" ELSE "flight"
      /\ gen # 0
  BY DEF WriteDone, Beginning
<1>3. TypeOK'
  BY <1>1, <1>2 DEF TypeOK, uiVars, socketVars, readVars, serverVars
<1>4. Beginning' /\ Opening' /\ OneWrite'
  BY <1>2 DEF Beginning, Opening, OneWrite, socketVars
<1>5. Pipe' = Pipe
  <2>1. Unsent' = Unsent
    BY <1>1, <1>2 DEF WriteDone, Unsent
  <2> QED
    BY <1>2, <2>1 DEF Pipe, socketVars
<1>6. Whole' /\ OwnLinesInOrder'
  BY <1>2, <1>5 DEF Whole, OwnLinesInOrder, Carries, socketVars
<1> QED
  BY <1>3, <1>4, <1>6

LEMMA WriteFailsKeeps ==
  ASSUME LinesInv, WriteEnds \/ WriteFails
  PROVE  LinesInv'
<1> USE DEF LinesInv
<1>1. gen # 0 /\ queue # <<>>
  BY DEF WriteEnds, WriteFails, Beginning, OneWrite
<1>2. /\ UNCHANGED <<uiVars, inbox, gen, connecting, posted, queue, readVars>>
      /\ UNCHANGED <<serverVars, sent, left, fault>>
      /\ socket' \in {socket, "closed"} /\ writeFailed' \in BOOLEAN
      /\ writing # "done" /\ writing' \in {"none", "failed"}
  BY DEF WriteEnds, WriteFails, TypeOK, socketVars
<1>3. TypeOK'
  BY <1>2 DEF TypeOK, uiVars, readVars, serverVars
<1>4. Beginning' /\ Opening' /\ OneWrite'
  BY <1>1, <1>2 DEF Beginning, Opening, OneWrite
<1>5. Whole' /\ OwnLinesInOrder'
  BY <1>2, WholeKept
<1> QED
  BY <1>3, <1>4, <1>5

LEMMA ReceiveKeeps ==
  ASSUME LinesInv, Receive
  PROVE  LinesInv'
<1> USE DEF LinesInv
<1>1. /\ UNCHANGED <<uiVars, inbox, socketVars, posted, writeVars, reading, failing>>
      /\ UNCHANGED <<remote, phase, asked, says, sent, left, fault>>
      /\ torn' = FALSE /\ gen # 0
  BY DEF Receive, Beginning
<1>2. PICK n \in 1 .. Len(down) :
        /\ buffer' = Taken(SubSeq(down, 1, n))
        /\ down' = SubSeq(down, n + 1, Len(down))
  BY DEF Receive
<1>3. down \in Seq(Told)
  BY DEF TypeOK
<1>4. buffer' \in Seq(Read) /\ down' \in Seq(Told)
  <2>1. /\ SubSeq(down, 1, n) \in Seq(Told) /\ SubSeq(down, 1, n) # <<>>
        /\ SubSeq(down, n + 1, Len(down)) \in Seq(Told)
    BY <1>3, Cut
  <2> QED
    BY <1>2, <2>1, TakenTyped
<1>5. TypeOK'
  <2>1. torn' \in BOOLEAN
    BY <1>1
  <2> QED
    BY <1>1, <1>4, <2>1 DEF TypeOK, uiVars, socketVars, writeVars
<1>6. Beginning' /\ Opening' /\ OneWrite'
  BY <1>1 DEF Beginning, Opening, OneWrite, socketVars, writeVars
<1>7. Whole' /\ OwnLinesInOrder'
  BY <1>1, WholeKept DEF socketVars, writeVars
<1> QED
  BY <1>5, <1>6, <1>7

LEMMA ReadLineKeeps ==
  ASSUME LinesInv, ReadLine
  PROVE  LinesInv'
<1> USE DEF LinesInv
<1>1. /\ UNCHANGED <<uiVars, socketVars, posted, writeVars, torn, reading, failing>>
      /\ UNCHANGED <<serverVars, sent, left, fault>> /\ gen # 0
  BY DEF ReadLine, Beginning
<1>2. inbox' \in Seq(Read) /\ buffer' \in Seq(Read)
  <2>1. buffer \in Seq(Read) /\ buffer # <<>> /\ inbox \in Seq(Read)
    BY DEF ReadLine, TypeOK
  <2>2. Head(buffer) \in Read /\ Tail(buffer) \in Seq(Read)
    BY <2>1, TailOf
  <2> QED
    BY <2>1, <2>2, AppendProperties DEF ReadLine
<1>3. TypeOK'
  BY <1>1, <1>2 DEF TypeOK, uiVars, socketVars, writeVars, serverVars
<1>4. Beginning' /\ Opening' /\ OneWrite'
  BY <1>1 DEF Beginning, Opening, OneWrite, socketVars, writeVars
<1>5. Whole' /\ OwnLinesInOrder'
  BY <1>1, WholeKept DEF socketVars, writeVars
<1> QED
  BY <1>3, <1>4, <1>5

LEMMA ReadFailsKeeps ==
  ASSUME LinesInv, ReadEnds \/ ReadFails
  PROVE  LinesInv'
<1> USE DEF LinesInv
<1>1. /\ UNCHANGED <<uiVars, inbox, gen, connecting, posted, writeVars, buffer>>
      /\ UNCHANGED <<serverVars, sent, left, fault>>
      /\ socket' \in {socket, "closed"} /\ gen # 0
  <2>1. CASE ReadEnds
    <3>1. gen # 0
      BY <2>1 DEF ReadEnds, Beginning
    <3> QED
      BY <2>1, <3>1 DEF ReadEnds, socketVars
  <2>2. CASE ReadFails
    <3>1. failing # 0
      BY <2>2 DEF ReadFails
    <3>2. gen # 0
      BY <3>1 DEF Beginning
    <3> QED
      BY <2>2, <3>2 DEF ReadFails
  <2> QED
    BY <2>1, <2>2
<1>2. TypeOK'
  <2>1. torn' = torn \/ torn' = TRUE
    BY DEF ReadEnds, ReadFails
  <2>2. torn' \in BOOLEAN
    BY <2>1 DEF TypeOK
  <2>3. reading' = reading \/ reading' = FALSE
    BY DEF ReadEnds, ReadFails
  <2>4. reading' \in BOOLEAN
    BY <2>3 DEF TypeOK
  <2>5. failing' \in Nat
    <3>1. failing \in Nat
      BY DEF TypeOK
    <3>2. failing' = failing + 1 \/ (failing > 0 /\ failing' = failing - 1)
      BY DEF ReadEnds, ReadFails
    <3> QED
      BY <3>1, <3>2
  <2> QED
    BY <1>1, <2>2, <2>4, <2>5 DEF TypeOK, uiVars, writeVars, serverVars
<1>3. Beginning' /\ Opening' /\ OneWrite'
  BY <1>1 DEF Beginning, Opening, OneWrite, writeVars
<1>4. Whole' /\ OwnLinesInOrder'
  BY <1>1, WholeKept DEF writeVars
<1> QED
  BY <1>2, <1>3, <1>4

LEMMA ConnectDoneKeeps ==
  ASSUME LinesInv, ConnectDone
  PROVE  LinesInv'
<1> USE DEF LinesInv
<1>1. /\ gen # 0 /\ gen \in Connections /\ sent[gen] \in Seq(Line) /\ left[gen] \in Seq(Line)
      /\ Unsent \in Seq(Line) /\ posted \in Seq(Line)
  BY Numbered, UnsentTyped DEF ConnectDone, Beginning
<1>2. /\ UNCHANGED <<uiVars, inbox, gen, writeVars, buffer, torn, failing>>
      /\ UNCHANGED <<serverVars, sent, left>> /\ connecting /\ connecting' = FALSE
      /\ socket' \in {"closed", "open"}
  BY DEF ConnectDone, Connected, NotConnected
<1>3. OnJoin \in Seq(Line)
  BY <1>1, CarriesJoin
<1>4. posted' \in Seq(Line) /\ reading' \in BOOLEAN
      /\ fault' \in {"none", "parse", "resolve", "two_reads"}
  <2>1. posted \o OnJoin \in Seq(Line)
    BY <1>1, <1>3, ConcatProperties
  <2> QED
    BY <1>1, <2>1 DEF ConnectDone, Connected, NotConnected, TypeOK
<1>5. TypeOK'
  BY <1>2, <1>4 DEF TypeOK, uiVars, writeVars, serverVars
<1>6. Beginning' /\ Opening' /\ OneWrite'
  BY <1>1, <1>2 DEF Beginning, Opening, OneWrite, writeVars
<1>7. Whole'
  <2>1. CASE Connected
    <3> DEFINE now == sent[gen] \o Unsent
    <3>1. now \in Seq(Line)
      BY <1>1, ConcatProperties
    <3>2. Pipe = now \o posted /\ Pipe = left[gen]
      BY <1>2 DEF Pipe, Whole
    <3>3. Pipe' = now \o (posted \o OnJoin)
      BY <1>2, <2>1 DEF Connected, Pipe, Unsent, writeVars
    <3> HIDE DEF now
    <3>4. Pipe' = (now \o posted) \o OnJoin
      <4>1. posted \in Seq(Line)
        BY <1>1
      <4> QED
        BY <1>3, <3>1, <3>3, <4>1, ConcatAssociative
    <3>5. Pipe' = left[gen] \o OnJoin
      BY <3>2, <3>4
    <3>6. Carries(gen, Pipe') /\ Len(Pipe') >= Len(left[gen]) + 2
      BY <1>1, <3>5, CarriesJoin
    <3> QED
      BY <1>2, <3>6 DEF Whole, Carries
  <2>2. CASE NotConnected
    BY <1>2, <2>2 DEF NotConnected, Whole
  <2> QED
    BY <2>1, <2>2 DEF ConnectDone
<1>8. OwnLinesInOrder'
  BY <1>2 DEF OwnLinesInOrder, Carries
<1> QED
  BY <1>5, <1>6, <1>7, <1>8

LEMMA ServerKeeps ==
  ASSUME LinesInv, Answer \/ Say \/ Vanish
  PROVE  LinesInv'
<1> USE DEF LinesInv
<1>1. /\ UNCHANGED <<uiVars, inbox, socketVars, posted, writeVars, readVars, sent, left, fault>>
      /\ phase' \in {"new", "in", "out"} /\ says' \in 0 .. MaxSays /\ asked' \in Nat
      /\ remote' = remote \/ remote' = FALSE
  <2>1. says \in 0 .. MaxSays /\ asked \in Nat /\ phase \in {"new", "in", "out"}
    BY DEF TypeOK
  <2>2. CASE Answer
    <3>1. asked > 0 /\ asked' = asked - 1 /\ phase' \in {"in", "out"}
      BY <2>2 DEF Answer
    <3>2. asked' \in Nat
      BY <2>1, <3>1
    <3> QED
      BY <2>1, <2>2, <3>1, <3>2 DEF Answer
  <2>3. CASE Say
    <3>1. says' = says \/ (says < MaxSays /\ says' = says + 1)
      BY <2>3 DEF Say
    <3>2. says' \in 0 .. MaxSays
      BY <2>1, <3>1, ClientAssumption
    <3>3. phase' \in {"new", "in", "out"}
      BY <2>1, <2>3 DEF Say
    <3> QED
      BY <2>1, <2>3, <3>2, <3>3 DEF Say
  <2>4. CASE Vanish
    BY <2>1, <2>4 DEF Vanish
  <2> QED
    BY <2>2, <2>3, <2>4
<1>2. down' \in Seq(Told)
  <2>1. down \in Seq(Told)
    BY DEF TypeOK
  <2>2. down' = down \/ \E line \in Told : down' = Append(down, line)
    BY DEF Answer, Say, Vanish, Tell, Told
  <2> QED
    BY <2>1, <2>2, AppendProperties
<1>3. TypeOK'
  <2>1. remote' \in BOOLEAN
    BY <1>1 DEF TypeOK
  <2> QED
    BY <1>1, <1>2, <2>1 DEF TypeOK, uiVars, socketVars, writeVars, readVars
<1>4. Beginning' /\ Opening' /\ OneWrite'
  BY <1>1 DEF Beginning, Opening, OneWrite, uiVars, socketVars, writeVars, readVars
<1>5. Whole' /\ OwnLinesInOrder'
  BY <1>1, WholeKept DEF socketVars, writeVars
<1> QED
  BY <1>3, <1>4, <1>5

LEMMA LinesStep == LinesInv /\ [Next]_vars => LinesInv'
<1> SUFFICES ASSUME LinesInv, [Next]_vars PROVE LinesInv'
  OBVIOUS
<1>1. CASE Connect
  BY <1>1, ConnectKeeps
<1>2. CASE OnUpdate
  BY <1>2, OnUpdateKeeps
<1>3. CASE ResolveThrows \/ ChangeForm
  BY <1>3, FormKeeps
<1>4. CASE SendChat
  BY <1>4, SendChatKeeps
<1>5. CASE Network
  BY <1>5, EstablishKeeps, TransmitKeeps, ReceiveKeeps, RunPostedKeeps, WriteDoneKeeps,
     WriteFailsKeeps, ReadLineKeeps, ReadFailsKeeps, ConnectDoneKeeps DEF Network
<1>6. CASE Answer \/ Say \/ Vanish
  BY <1>6, ServerKeeps
<1>7. CASE UNCHANGED vars
  <2>1. /\ UNCHANGED <<uiVars, inbox, socketVars, posted, writeVars, readVars>>
        /\ UNCHANGED <<serverVars, sent, left, fault>>
    BY <1>7 DEF vars
  <2>2. TypeOK' /\ Beginning' /\ Opening' /\ OneWrite'
    BY <2>1 DEF LinesInv, TypeOK, Beginning, Opening, OneWrite,
       uiVars, socketVars, writeVars, readVars, serverVars
  <2>3. Whole' /\ OwnLinesInOrder'
    BY <2>1, WholeKept DEF socketVars, writeVars
  <2> QED
    BY <2>2, <2>3 DEF LinesInv
<1> QED
  BY <1>1, <1>2, <1>3, <1>4, <1>5, <1>6, <1>7 DEF Next

THEOREM LinesInvariant == Spec => []LinesInv
<1> QED
  BY LinesInit, LinesStep, PTL DEF Spec

\* TypeOK: the handlers of the network thread and of the interface thread keep
\* every variable of the client within its type: no line is taken off an empty
\* queue, an empty inbox or an empty buffer (Client.cpp, ClientApplication.cpp).
THEOREM TypeCorrect == Spec => []TypeOK
<1>1. LinesInv => TypeOK
  BY DEF LinesInv
<1> QED
  BY <1>1, LinesInvariant, PTL

\* OwnLinesInOrder: however often the client connects again while a write of
\* the connection before is under way, cut off, done or failed, and whichever
\* of its handlers run when the new connection is already made, a connection
\* carries what was waiting when it was begun, each line once and in order, and
\* then its join line, its picture line and its chats (Client.cpp: connect,
\* send, onWrite).
THEOREM LinesInOrder == Spec => []OwnLinesInOrder
<1>1. LinesInv => OwnLinesInOrder
  BY DEF LinesInv
<1> QED
  BY <1>1, LinesInvariant, PTL

-----------------------------------------------------------------------------
(* Bytes and reads that an earlier connection has left behind.             *)

NoGarbage(lines) == \A i \in DOMAIN lines : lines[i] # "garbage"

\* Up to the first connection nothing is torn while it is read, and nothing is
\* read before it is made.
Clean ==
    \/ gen > 1
    \/ /\ ~(connecting /\ reading)
       /\ torn => ~connecting /\ ~reading
       /\ NoGarbage(inbox) /\ NoGarbage(buffer)
       /\ fault \notin {"parse", "two_reads"}

\* Lines come into the buffer as the server wrote them, but for a torn one.
LEMMA TakenClean ==
  ASSUME NEW seq \in Seq(Told), ~torn
  PROVE  NoGarbage(Taken(seq))
<1>1. Taken(seq) = seq
  BY DEF Taken
<1>2. \A i \in DOMAIN seq : seq[i] \in Told
  BY ElementOfSeq, LenProperties
<1> QED
  BY <1>1, <1>2 DEF NoGarbage, Told

LEMMA CleanTail ==
  ASSUME NEW S, NEW seq \in Seq(S), seq # <<>>, NoGarbage(seq)
  PROVE  NoGarbage(Tail(seq)) /\ Head(seq) # "garbage"
<1>1. /\ Head(seq) = seq[1] /\ 1 \in DOMAIN seq
      /\ \A i \in DOMAIN Tail(seq) : i + 1 \in DOMAIN seq /\ Tail(seq)[i] = seq[i + 1]
  BY TailOf
<1> QED
  BY <1>1 DEF NoGarbage

LEMMA CleanAppend ==
  ASSUME NEW S, NEW seq \in Seq(S), NEW x \in S
  PROVE  NoGarbage(Append(seq, x)) <=> NoGarbage(seq) /\ x # "garbage"
<1> DEFINE more == Append(seq, x)
           n == Len(seq)
<1>1. /\ n \in Nat /\ DOMAIN seq = 1 .. n /\ DOMAIN more = 1 .. n + 1
      /\ \A i \in 1 .. n : more[i] = seq[i]
      /\ more[n + 1] = x
  BY AppendProperties, LenProperties
<1> HIDE DEF more, n
<1>2. DOMAIN seq \subseteq DOMAIN more /\ n + 1 \in DOMAIN more
      /\ \A i \in DOMAIN more : i \in DOMAIN seq \/ i = n + 1
  BY <1>1
<1>3. NoGarbage(more) <=> NoGarbage(seq) /\ x # "garbage"
  BY <1>1, <1>2 DEF NoGarbage
<1> QED
  BY <1>3 DEF more

LEMMA CleanStep ==
  ASSUME LinesInv, Clean, [Next]_vars
  PROVE  Clean'
<1>1. gen \in Nat
  BY DEF LinesInv, TypeOK
<1>2. CASE gen > 1
  <2>1. gen' = gen \/ gen' = gen + 1
    BY DEF Next, Network, ResolveThrows, Connect, OnUpdate, ChangeForm, SendChat, Establish, Transmit,
       WriteEnds, Receive, ReadEnds, RunPosted, WriteDone, WriteFails, ReadLine, ReadFails,
       ConnectDone, Answer, Say, Vanish, vars, socketVars
  <2>2. gen' > 1
    BY <1>1, <1>2, <2>1
  <2> QED
    BY <2>2 DEF Clean
<1>3. CASE ~(gen > 1)
  <2>1. /\ ~(connecting /\ reading)
        /\ torn => ~connecting /\ ~reading
        /\ NoGarbage(inbox) /\ NoGarbage(buffer)
        /\ fault \notin {"parse", "two_reads"}
    BY <1>3 DEF Clean
  <2>2. CASE Connect
    <3>1. CASE gen = 0
      <4>1. inbox = <<>> /\ ~reading /\ ~torn /\ buffer = <<>> /\ fault = "none"
        BY <3>1, <2>2 DEF LinesInv, Beginning, Connect, Ui
      <4>2. inbox' = inbox /\ ~reading' /\ ~torn' /\ buffer' = buffer /\ fault' = fault
        BY <2>2, <4>1 DEF Connect, ReadCutOff
      <4> QED
        BY <2>1, <4>1, <4>2 DEF Clean, NoGarbage
    <3>2. CASE gen # 0
      <4>1. gen' = gen + 1
        BY <2>2 DEF Connect
      <4>2. gen' > 1
        BY <1>1, <3>2, <4>1
      <4> QED
        BY <4>2 DEF Clean
    <3> QED
      BY <3>1, <3>2
  <2>3. CASE OnUpdate
    <3>1. inbox # <<>> /\ inbox \in Seq(Read) /\ inbox' = Tail(inbox)
      BY <2>3 DEF OnUpdate, LinesInv, TypeOK
    <3>2. NoGarbage(inbox') /\ Head(inbox) # "garbage"
      BY <2>1, <3>1, CleanTail
    <3>3. UNCHANGED <<gen, connecting, reading, torn, buffer>> /\ fault' = "none"
      BY <2>3, <3>2 DEF OnUpdate, socketVars, readVars
    <3> QED
      BY <2>1, <3>2, <3>3 DEF Clean, NoGarbage
  <2>4. CASE Receive
    <3>1. PICK n \in 1 .. Len(down) : buffer' = Taken(SubSeq(down, 1, n))
      BY <2>4 DEF Receive
    <3>2. SubSeq(down, 1, n) \in Seq(Told)
      BY Cut DEF LinesInv, TypeOK
    <3>3. ~torn
      BY <2>1, <2>4 DEF Receive
    <3>4. NoGarbage(buffer')
      BY <3>1, <3>2, <3>3, TakenClean
    <3>5. UNCHANGED <<gen, connecting, reading, inbox, fault>> /\ torn' = FALSE
      BY <2>4 DEF Receive, socketVars
    <3> QED
      BY <2>1, <3>4, <3>5 DEF Clean, NoGarbage
  <2>5. CASE ReadLine
    <3>1. buffer # <<>> /\ buffer \in Seq(Read) /\ inbox \in Seq(Read)
          /\ inbox' = Append(inbox, Head(buffer)) /\ buffer' = Tail(buffer)
      BY <2>5 DEF ReadLine, LinesInv, TypeOK
    <3>2. Head(buffer) \in Read
      BY <3>1, TailOf
    <3>3. NoGarbage(buffer') /\ Head(buffer) # "garbage"
      BY <2>1, <3>1, CleanTail
    <3>4. NoGarbage(inbox')
      BY <2>1, <3>1, <3>2, <3>3, CleanAppend
    <3>5. UNCHANGED <<gen, connecting, reading, torn, fault>>
      BY <2>5 DEF ReadLine, socketVars
    <3> QED
      BY <2>1, <3>3, <3>4, <3>5 DEF Clean
  <2>6. CASE ReadEnds
    <3>1. ~reading' /\ ~connecting
      BY <2>1, <2>6 DEF ReadEnds
    <3>2. UNCHANGED <<gen, connecting, inbox, buffer, fault>>
      BY <2>6 DEF ReadEnds, socketVars
    <3> QED
      BY <2>1, <3>1, <3>2 DEF Clean, NoGarbage
  <2>7. CASE ConnectDone
    <3>1. ~reading /\ ~torn /\ ~connecting'
      BY <2>1, <2>7 DEF ConnectDone
    <3>2. UNCHANGED <<gen, torn, inbox, buffer>> /\ fault' \in {fault, "none"}
      BY <2>7, <3>1 DEF ConnectDone, Connected, NotConnected
    <3> QED
      BY <2>1, <3>1, <3>2 DEF Clean, NoGarbage
  <2>8. CASE \/ ResolveThrows \/ ChangeForm \/ SendChat \/ Establish \/ Transmit \/ WriteEnds
             \/ RunPosted \/ WriteDone \/ WriteFails \/ ReadFails \/ Answer \/ Say \/ Vanish
    <3>1. UNCHANGED <<gen, connecting, reading, torn, inbox, buffer>> /\ fault' \in {fault, "resolve"}
      BY <2>8 DEF ResolveThrows, ChangeForm, SendChat, Establish, Transmit, WriteEnds, RunPosted,
         WriteDone, WriteFails, ReadFails, Answer, Say, Vanish, socketVars, readVars
    <3> QED
      BY <2>1, <3>1 DEF Clean, NoGarbage
  <2>9. CASE UNCHANGED vars
    <3>1. UNCHANGED <<gen, connecting, reading, torn, inbox, buffer, fault>>
      BY <2>9 DEF vars, socketVars, readVars
    <3> QED
      BY <2>1, <3>1 DEF Clean, NoGarbage
  <2> QED
    BY <2>2, <2>3, <2>4, <2>5, <2>6, <2>7, <2>8, <2>9 DEF Next, Network
<1> QED
  BY <1>2, <1>3

\* FaultsNeedReconnect: on the first connection the exception that ends the
\* program for a line that is no message is never thrown, and never are two
\* reads begun on one buffer, whatever the server and the user do and however
\* the connection fails: both come of what m_ReadBuffer and a read that is cut
\* off keep over a call of connect() (Client.cpp: onRead, connect;
\* ClientApplication.cpp: onUpdate).
THEOREM FaultsOnlyAfterReconnect == Spec => []FaultsNeedReconnect
<1>1. Init => Clean
  BY DEF Init, Clean, NoGarbage
<1>2. LinesInv /\ Clean /\ [Next]_vars => Clean'
  BY CleanStep
<1>3. Clean => FaultsNeedReconnect
  BY DEF Clean, FaultsNeedReconnect
<1> QED
  BY <1>1, <1>2, <1>3, LinesInvariant, PTL DEF Spec

-----------------------------------------------------------------------------
(* What is shown.                                                          *)

\* When seq is handled, a flag is set, that a line of good sets and one of bad
\* clears.
ComesTo(seq, good, bad, set) ==
    \/ set /\ \A j \in DOMAIN seq : seq[j] \notin bad
    \/ \E i \in DOMAIN seq : seq[i] \in good /\ \A j \in DOMAIN seq : j > i => seq[j] \notin bad

Refusals == {"reject", "kick"}

\* What is read, and what comes behind it.
HasRead == inbox \o buffer
Stream == HasRead \o down

\* What is read and what is still to come leads to the layer that the server's
\* last answer asks for.
AnswerComes ==
    (fault = "none" /\ NoGarbage(HasRead)) =>
        /\ phase = "in" => ComesTo(Stream, {"accept"}, Refusals, layer = "chat")
        /\ phase = "out" => ComesTo(Stream, Refusals, {"accept"}, layer # "chat")

LEMMA StreamTyped ==
  ASSUME LinesInv
  PROVE  /\ inbox \in Seq(Read) /\ buffer \in Seq(Read) /\ HasRead \in Seq(Read)
         /\ down \in Seq(Told) /\ down \in Seq(Read) /\ Stream \in Seq(Read)
<1>1. Told \subseteq Read
  BY DEF Read
<1>2. inbox \in Seq(Read) /\ buffer \in Seq(Read) /\ down \in Seq(Told)
  BY DEF LinesInv, TypeOK
<1>3. down \in Seq(Read)
  BY <1>1, <1>2, SeqMonotonic
<1>4. HasRead \in Seq(Read)
  BY <1>2, ConcatProperties DEF HasRead
<1>5. Stream \in Seq(Read)
  BY <1>3, <1>4, ConcatProperties DEF Stream
<1> QED
  BY <1>2, <1>3, <1>4, <1>5

LEMMA ComesToHandled ==
  ASSUME NEW S, NEW seq \in Seq(S), seq # <<>>, NEW good, NEW bad, NEW set, NEW now,
         ComesTo(seq, good, bad, set),
         Head(seq) \in good => now,
         set /\ Head(seq) \notin bad => now
  PROVE  ComesTo(Tail(seq), good, bad, now)
<1> DEFINE rest == Tail(seq)
           n == Len(seq)
<1>1. /\ Head(seq) = seq[1] /\ n \in Nat
      /\ DOMAIN seq = 1 .. n
      /\ DOMAIN rest = 1 .. n - 1
      /\ 1 \in DOMAIN seq
      /\ \A i \in DOMAIN rest : rest[i] = seq[i + 1] /\ i + 1 \in DOMAIN seq /\ i \in Nat
  BY TailOf, LenProperties
<1> HIDE DEF rest, n
<1>2. CASE set /\ \A j \in DOMAIN seq : seq[j] \notin bad
  BY <1>1, <1>2 DEF ComesTo, rest
<1>3. ASSUME NEW i \in DOMAIN seq, seq[i] \in good,
             \A j \in DOMAIN seq : j > i => seq[j] \notin bad
      PROVE  ComesTo(rest, good, bad, now)
  <2>1. CASE i = 1
    <3>1. now
      BY <1>1, <1>3, <2>1
    <3>2. ASSUME NEW j \in DOMAIN rest PROVE rest[j] \notin bad
      <4>1. j + 1 \in DOMAIN seq /\ j + 1 > i /\ rest[j] = seq[j + 1]
        BY <1>1, <2>1
      <4> QED
        BY <1>3, <4>1
    <3> QED
      BY <3>1, <3>2 DEF ComesTo
  <2>2. CASE i # 1
    <3> DEFINE k == i - 1
    <3>1. k \in DOMAIN rest /\ k + 1 = i /\ k \in Nat
      BY <1>1, <2>2
    <3>2. rest[k] \in good
      BY <1>1, <1>3, <3>1
    <3>3. ASSUME NEW j \in DOMAIN rest, j > k PROVE rest[j] \notin bad
      <4>1. j + 1 \in DOMAIN seq /\ j + 1 > i /\ rest[j] = seq[j + 1]
        BY <1>1, <3>1, <3>3
      <4> QED
        BY <1>3, <4>1
    <3> HIDE DEF k
    <3> QED
      BY <3>1, <3>2, <3>3 DEF ComesTo
  <2> QED
    BY <2>1, <2>2
<1> QED
  BY <1>2, <1>3 DEF ComesTo, rest

LEMMA ComesToLater ==
  ASSUME NEW S, NEW seq \in Seq(S), NEW x \in S, NEW good, NEW bad, NEW set
  PROVE  /\ x \in good => ComesTo(Append(seq, x), good, bad, set)
         /\ x \notin bad /\ ComesTo(seq, good, bad, set) => ComesTo(Append(seq, x), good, bad, set)
<1> DEFINE more == Append(seq, x)
           n == Len(seq)
<1>1. /\ n \in Nat /\ DOMAIN seq = 1 .. n /\ DOMAIN more = 1 .. n + 1
      /\ \A i \in 1 .. n : more[i] = seq[i]
      /\ more[n + 1] = x
  BY AppendProperties, LenProperties
<1> HIDE DEF more, n
<1>2. ASSUME x \in good PROVE ComesTo(more, good, bad, set)
  <2>1. n + 1 \in DOMAIN more /\ more[n + 1] \in good
    BY <1>1, <1>2
  <2>2. \A j \in DOMAIN more : ~(j > n + 1)
    BY <1>1
  <2> QED
    BY <2>1, <2>2 DEF ComesTo
<1>3. ASSUME x \notin bad, ComesTo(seq, good, bad, set) PROVE ComesTo(more, good, bad, set)
  <2>1. \A j \in DOMAIN more : (j \in DOMAIN seq /\ more[j] = seq[j]) \/ more[j] = x
    BY <1>1
  <2>2. \A j \in DOMAIN seq : j \in DOMAIN more /\ more[j] = seq[j]
    BY <1>1
  <2> QED
    BY <1>3, <2>1, <2>2 DEF ComesTo
<1> QED
  BY <1>2, <1>3 DEF more

\* The stream is the same when neither end of it moves.
LEMMA AnswerKept ==
  ASSUME AnswerComes, UNCHANGED <<HasRead, down, phase, fault>>,
         (layer' = "chat") <=> (layer = "chat")
  PROVE  AnswerComes'
<1>1. Stream' = Stream
  BY DEF Stream
<1> QED
  BY <1>1 DEF AnswerComes, ComesTo, NoGarbage

LEMMA AnswerOnUpdate ==
  ASSUME LinesInv, AnswerComes, OnUpdate
  PROVE  AnswerComes'
<1> SUFFICES ASSUME fault' = "none", NoGarbage(HasRead')
             PROVE  /\ phase' = "in" => ComesTo(Stream', {"accept"}, Refusals, layer' = "chat")
                    /\ phase' = "out" => ComesTo(Stream', Refusals, {"accept"}, layer' # "chat")
  BY DEF AnswerComes
<1>1. /\ inbox # <<>> /\ inbox \in Seq(Read) /\ buffer \in Seq(Read) /\ down \in Seq(Read)
      /\ HasRead \in Seq(Read) /\ Stream \in Seq(Read)
  BY StreamTyped DEF OnUpdate
<1>2. UNCHANGED <<buffer, down, phase>> /\ inbox' = Tail(inbox) /\ Head(inbox) # "garbage"
  BY DEF OnUpdate, readVars, serverVars
<1>3. /\ HasRead # <<>> /\ Head(HasRead) = Head(inbox) /\ HasRead' = Tail(HasRead)
  BY <1>1, <1>2, HeadTailOfConcat DEF HasRead
<1>4. NoGarbage(HasRead)
  <2> DEFINE all == HasRead
             rest == Tail(all)
  <2>1. /\ Head(all) = all[1] /\ DOMAIN all = 1 .. Len(all) /\ Len(all) \in Nat
        /\ DOMAIN rest = 1 .. Len(all) - 1
        /\ \A i \in DOMAIN rest : rest[i] = all[i + 1]
    BY <1>1, <1>3, TailOf, LenProperties
  <2>2. NoGarbage(rest) /\ Head(all) # "garbage"
    BY <1>2, <1>3
  <2> HIDE DEF all, rest
  <2>3. ASSUME NEW i \in DOMAIN all PROVE all[i] # "garbage"
    <3>1. CASE i = 1
      BY <2>1, <2>2, <3>1
    <3>2. CASE i # 1
      <4>1. i - 1 \in DOMAIN rest /\ (i - 1) + 1 = i
        BY <2>1, <3>2
      <4> QED
        BY <2>1, <2>2, <4>1 DEF NoGarbage
    <3> QED
      BY <3>1, <3>2
  <2> QED
    BY <2>3 DEF NoGarbage, all
<1>5. Stream # <<>> /\ Head(Stream) = Head(inbox) /\ Stream' = Tail(Stream)
  <2> DEFINE all == HasRead
             rest == Tail(all)
  <2>1. all \in Seq(Read) /\ all # <<>>
    BY <1>1, <1>3
  <2>2. Stream = all \o down /\ Stream' = rest \o down /\ Head(all) = Head(inbox)
    BY <1>2, <1>3 DEF Stream
  <2> HIDE DEF all
  <2>3. all \o down # <<>> /\ Head(all \o down) = Head(all) /\ Tail(all \o down) = rest \o down
    BY <1>1, <2>1, HeadTailOfConcat
  <2> QED
    BY <2>2, <2>3
<1> DEFINE next == Tail(Stream)
<1>6. ASSUME phase' = "in"
      PROVE  ComesTo(Stream', {"accept"}, Refusals, layer' = "chat")
  <2> DEFINE set == layer = "chat"
             now == layer' = "chat"
  <2>1. ComesTo(Stream, {"accept"}, Refusals, set)
    BY <1>2, <1>4, <1>6 DEF AnswerComes, OnUpdate, Ui
  <2>2. /\ Head(Stream) \in {"accept"} => now
        /\ set /\ Head(Stream) \notin Refusals => now
    BY <1>5 DEF OnUpdate, ShowAnswer, Refusals
  <2> HIDE DEF set, now
  <2>3. ComesTo(next, {"accept"}, Refusals, now)
    BY <1>1, <1>5, <2>1, <2>2, ComesToHandled
  <2> QED
    BY <1>5, <2>3 DEF now
<1>7. ASSUME phase' = "out"
      PROVE  ComesTo(Stream', Refusals, {"accept"}, layer' # "chat")
  <2> DEFINE set == layer # "chat"
             now == layer' # "chat"
  <2>1. ComesTo(Stream, Refusals, {"accept"}, set)
    BY <1>2, <1>4, <1>7 DEF AnswerComes, OnUpdate, Ui
  <2>2. /\ Head(Stream) \in Refusals => now
        /\ set /\ Head(Stream) \notin {"accept"} => now
    BY <1>5 DEF OnUpdate, ShowAnswer, Refusals
  <2> HIDE DEF set, now
  <2>3. ComesTo(next, Refusals, {"accept"}, now)
    BY <1>1, <1>5, <2>1, <2>2, ComesToHandled
  <2> QED
    BY <1>5, <2>3 DEF now
<1> QED
  BY <1>6, <1>7

\* A line moves from the buffer to the inbox.
LEMMA AnswerReadLine ==
  ASSUME LinesInv, AnswerComes, ReadLine
  PROVE  AnswerComes'
<1>1. buffer # <<>> /\ buffer \in Seq(Read) /\ inbox \in Seq(Read)
  BY StreamTyped DEF ReadLine
<1>2. Append(inbox, Head(buffer)) \o Tail(buffer) = inbox \o buffer
  BY <1>1, Shifted
<1>3. HasRead' = HasRead
  BY <1>2 DEF ReadLine, HasRead
<1>4. UNCHANGED <<down, phase, fault, layer>>
  BY DEF ReadLine, serverVars, uiVars
<1> QED
  BY <1>3, <1>4, AnswerKept

\* Lines move from the connection to the buffer, the first perhaps to garbage.
LEMMA AnswerReceive ==
  ASSUME LinesInv, AnswerComes, Receive
  PROVE  AnswerComes'
<1>1. PICK n \in 1 .. Len(down) :
        /\ buffer' = Taken(SubSeq(down, 1, n))
        /\ down' = SubSeq(down, n + 1, Len(down))
  BY DEF Receive
<1> DEFINE part == SubSeq(down, 1, n)
           rest == SubSeq(down, n + 1, Len(down))
           more == Taken(part)
<1>2. /\ inbox \in Seq(Read) /\ down \in Seq(Told) /\ buffer = <<>> /\ HasRead = inbox
      /\ UNCHANGED <<inbox, phase, fault, layer>>
  <2>1. inbox \in Seq(Read) /\ down \in Seq(Told) /\ buffer = <<>>
    BY StreamTyped DEF Receive
  <2>2. HasRead = inbox
    BY <2>1, ConcatEmptySeq DEF HasRead
  <2> QED
    BY <2>1, <2>2 DEF Receive, uiVars
<1>3. part \in Seq(Told) /\ part # <<>> /\ rest \in Seq(Told) /\ part \o rest = down
  BY <1>2, Cut
<1>4. part \in Seq(Read) /\ rest \in Seq(Read)
  <2>1. Told \subseteq Read
    BY DEF Read
  <2> HIDE DEF part, rest
  <2> QED
    BY <1>3, <2>1, SeqMonotonic
<1>5. buffer' = more /\ down' = rest
  BY <1>1
<1> HIDE DEF part, rest
<1>6. /\ more \in Seq(Read)
      /\ torn => 1 \in DOMAIN more /\ more[1] = "garbage"
      /\ ~torn => more = part
  BY <1>3, TakenTyped
<1> HIDE DEF more
<1>7. /\ Len(inbox) \in Nat /\ DOMAIN inbox = 1 .. Len(inbox) /\ DOMAIN more = 1 .. Len(more)
      /\ Len(more) \in Nat
      /\ DOMAIN (inbox \o more) = 1 .. Len(inbox) + Len(more)
      /\ \A i \in 1 .. Len(inbox) : (inbox \o more)[i] = inbox[i]
      /\ \A i \in 1 .. Len(more) : (inbox \o more)[Len(inbox) + i] = more[i]
  BY <1>2, <1>6, Joined
<1>8. HasRead' = inbox \o more
  BY <1>2, <1>5 DEF HasRead
<1>9. CASE torn
  <2> DEFINE k == Len(inbox) + 1
  <2>1. 1 \in 1 .. Len(more) /\ more[1] = "garbage"
    BY <1>6, <1>7, <1>9
  <2>2. k \in 1 .. Len(inbox) + Len(more) /\ (inbox \o more)[k] = "garbage"
    BY <1>7, <2>1
  <2> HIDE DEF k
  <2>3. ~NoGarbage(HasRead')
    BY <1>7, <1>8, <2>2 DEF NoGarbage
  <2> QED
    BY <2>3 DEF AnswerComes
<1>10. CASE ~torn
  <2>1. Stream' = Stream
    <3>1. (inbox \o part) \o rest = inbox \o (part \o rest)
      <4>1. inbox \in Seq(Read)
        BY <1>2
      <4> QED
        BY <1>4, <4>1, ConcatAssociative
    <3>2. Stream' = (inbox \o part) \o rest
      BY <1>5, <1>6, <1>8, <1>10 DEF Stream
    <3>3. Stream = inbox \o down
      BY <1>2 DEF Stream
    <3> QED
      BY <1>3, <3>1, <3>2, <3>3
  <2>2. NoGarbage(HasRead') => NoGarbage(HasRead)
    <3>1. \A i \in DOMAIN inbox : i \in DOMAIN (inbox \o more) /\ (inbox \o more)[i] = inbox[i]
      BY <1>7
    <3> QED
      BY <1>2, <1>8, <3>1 DEF NoGarbage
  <2> QED
    BY <1>2, <2>1, <2>2 DEF AnswerComes
<1> QED
  BY <1>9, <1>10

\* A line of the server is the last of the stream.
LEMMA AnswerTold ==
  ASSUME LinesInv, NEW line \in Told, Tell(line), HasRead' = HasRead
  PROVE  Stream' = Append(Stream, line) /\ Stream \in Seq(Read) /\ line \in Read
<1>1. HasRead \in Seq(Read) /\ down \in Seq(Read) /\ Stream \in Seq(Read) /\ line \in Read
  BY StreamTyped DEF Read
<1>2. HasRead \o Append(down, line) = Append(HasRead \o down, line)
  BY <1>1, AppendedLater
<1> QED
  BY <1>1, <1>2 DEF Stream, Tell

LEMMA AnswerServer ==
  ASSUME LinesInv, AnswerComes, Answer \/ Say
  PROVE  AnswerComes'
<1> SUFFICES ASSUME fault' = "none", NoGarbage(HasRead')
             PROVE  /\ phase' = "in" => ComesTo(Stream', {"accept"}, Refusals, layer' = "chat")
                    /\ phase' = "out" => ComesTo(Stream', Refusals, {"accept"}, layer' # "chat")
  BY DEF AnswerComes
<1>1. UNCHANGED <<HasRead, layer, fault>>
  BY DEF Answer, Say, uiVars, readVars, HasRead
<1> DEFINE chat == layer = "chat"
           other == layer # "chat"
<1>2. (layer' = "chat") = chat /\ (layer' # "chat") = other
  BY <1>1
<1>3. CASE Tell("accept") /\ phase' = "in"
  <2>1. Stream' = Append(Stream, "accept") /\ Stream \in Seq(Read) /\ "accept" \in Read
    BY <1>1, <1>3, AnswerTold DEF Told
  <2> HIDE DEF chat, other
  <2>2. ComesTo(Append(Stream, "accept"), {"accept"}, Refusals, chat)
    BY <2>1, ComesToLater
  <2> QED
    BY <1>2, <1>3, <2>1, <2>2
<1>4. CASE Tell("chat") /\ phase = "in" /\ phase' = "in"
  <2>1. Stream' = Append(Stream, "chat") /\ Stream \in Seq(Read) /\ "chat" \in Read
    BY <1>1, <1>4, AnswerTold DEF Told
  <2>2. ComesTo(Stream, {"accept"}, Refusals, chat)
    BY <1>1, <1>4 DEF AnswerComes
  <2> HIDE DEF chat, other
  <2>3. ComesTo(Append(Stream, "chat"), {"accept"}, Refusals, chat)
    BY <2>1, <2>2, ComesToLater DEF Refusals
  <2> QED
    BY <1>2, <1>4, <2>1, <2>3
<1>5. ASSUME NEW line \in Refusals, Tell(line), phase' = "out"
      PROVE  ComesTo(Stream', Refusals, {"accept"}, other)
  <2>1. Stream' = Append(Stream, line) /\ Stream \in Seq(Read) /\ line \in Read
    BY <1>1, <1>5, AnswerTold DEF Told, Refusals
  <2> HIDE DEF chat, other
  <2>2. ComesTo(Append(Stream, line), Refusals, {"accept"}, other)
    BY <2>1, ComesToLater
  <2> QED
    BY <2>1, <2>2
<1>6. \/ Tell("accept") /\ phase' = "in"
      \/ Tell("chat") /\ phase = "in" /\ phase' = "in"
      \/ \E line \in Refusals : Tell(line) /\ phase' = "out"
  BY DEF Answer, Say, Refusals
<1> HIDE DEF chat, other
<1> QED
  BY <1>2, <1>3, <1>4, <1>5, <1>6

LEMMA AnswerStep ==
  ASSUME LinesInv, AnswerComes, [Next]_vars
  PROVE  AnswerComes'
<1>1. CASE Connect
  <2>1. phase' = "new"
    BY <1>1 DEF Connect
  <2> QED
    BY <2>1 DEF AnswerComes
<1>2. CASE OnUpdate
  BY <1>2, AnswerOnUpdate
<1>3. CASE ReadLine
  BY <1>3, AnswerReadLine
<1>4. CASE Receive
  BY <1>4, AnswerReceive
<1>5. CASE Answer \/ Say
  BY <1>5, AnswerServer
<1>6. CASE ChangeForm
  <2>1. UNCHANGED <<HasRead, down, phase, fault>> /\ layer # "chat" /\ layer' # "chat"
    BY <1>6 DEF ChangeForm, HasRead, readVars, serverVars
  <2> QED
    BY <2>1, AnswerKept
<1>7. CASE ResolveThrows \/ ConnectDone
  <2>1. UNCHANGED <<HasRead, down, phase, layer>> /\ fault = "none"
    BY <1>7 DEF ResolveThrows, ConnectDone, Ui, Running, HasRead, uiVars, readVars, serverVars
  <2>2. Stream' = Stream
    BY <2>1 DEF Stream
  <2> QED
    BY <2>1, <2>2 DEF AnswerComes, ComesTo, NoGarbage
<1>8. CASE \/ SendChat \/ Establish \/ Transmit \/ WriteEnds \/ ReadEnds \/ RunPosted \/ WriteDone
           \/ WriteFails \/ ReadFails \/ Vanish
  <2>1. UNCHANGED <<HasRead, down, phase, fault, layer>>
    BY <1>8 DEF SendChat, Establish, Transmit, WriteEnds, ReadEnds, RunPosted, WriteDone, WriteFails,
       ReadFails, Vanish, HasRead, uiVars, readVars, serverVars
  <2> QED
    BY <2>1, AnswerKept
<1>9. CASE UNCHANGED vars
  <2>1. UNCHANGED <<HasRead, down, phase, fault, layer>>
    BY <1>9 DEF vars, HasRead, uiVars, readVars, serverVars
  <2> QED
    BY <2>1, AnswerKept
<1> QED
  BY <1>1, <1>2, <1>3, <1>4, <1>5, <1>6, <1>7, <1>8, <1>9 DEF Next, Network

\* ShownAnswerIsLatest: a member sees the chat layer once all that the server
\* said is handled, and whoever was rejected or kicked does not, whatever an
\* earlier connection has still put in the buffer and in the inbox, whichever
\* handlers of it run when the new one is made, and whatever the user does
\* between (ClientApplication.cpp: onUpdate; Client.cpp: onRead, connect).
THEOREM LatestAnswerShown == Spec => []ShownAnswerIsLatest
<1>1. Init => AnswerComes
  BY DEF Init, AnswerComes
<1>2. LinesInv /\ AnswerComes /\ [Next]_vars => AnswerComes'
  BY AnswerStep
<1>3. LinesInv /\ AnswerComes => ShownAnswerIsLatest
  <2> SUFFICES ASSUME LinesInv, AnswerComes, inbox = <<>>, buffer = <<>>,
                      down = <<>>, fault = "none", phase # "new"
               PROVE  layer = "chat" <=> phase = "in"
    BY DEF ShownAnswerIsLatest
  <2>1. <<>> \o <<>> = <<>>
    BY ConcatEmptySeq, EmptySeq
  <2>2. HasRead = <<>> /\ Stream = <<>> /\ DOMAIN Stream = {}
    BY <2>1, EmptySeq DEF HasRead, Stream
  <2>3. phase \in {"in", "out"}
    BY DEF LinesInv, TypeOK
  <2>4. NoGarbage(HasRead)
    BY <2>2 DEF NoGarbage, Stream
  <2> QED
    BY <2>2, <2>3, <2>4 DEF AnswerComes, ComesTo
<1> QED
  BY <1>1, <1>2, <1>3, LinesInvariant, PTL DEF Spec

=============================================================================

---------------------------- MODULE LogFormatterProofs ----------------------------
(***************************************************************************)
(* LogFormatter::init parses every pattern right.  A loop is a function    *)
(* from the number of turns to the state, and what it keeps is shown by    *)
(* induction, stated about a set of numbers.  The loop keeps LoopInv: it   *)
(* has met something ill-formed, or it is at a position outside of all     *)
(* formats and items (Top) and nothing of the pattern is lost.             *)
(***************************************************************************)
EXTENDS LogFormatter, SequenceTheorems, WellFoundedInduction, TLAPS

-----------------------------------------------------------------------------
(* Induction, and loops.                                                    *)

\* A set of numbers that is not empty has a least one.
LEMMA LeastOf ==
    ASSUME NEW D, D \subseteq Nat, D # {}
    PROVE  \E k \in D : \A j \in D : k <= j
<1>1. PICK k \in D : \A j \in D : ~ (<<j, k>> \in OpToRel(<, Nat))
  BY NatLessThanWellFounded, WFMin
<1>2. \A j \in D : ~ (j < k) BY <1>1 DEF OpToRel
<1>3. QED BY <1>2

\* Induction, as a statement about a set of numbers.
LEMMA SetInduction ==
    ASSUME NEW S, 0 \in S, \A n \in Nat : n \in S => n + 1 \in S
    PROVE  Nat \subseteq S
<1> DEFINE D == Nat \ S
<1>1. SUFFICES ASSUME D # {} PROVE FALSE OBVIOUS
<1>2. D \subseteq Nat OBVIOUS
<1>3. PICK k \in D : \A j \in D : k <= j
  <2> HIDE DEF D
  <2> QED BY <1>1, <1>2, LeastOf
<1>4. k # 0 OBVIOUS
<1>5. k - 1 \in Nat /\ k - 1 < k BY <1>4
<1>6. k - 1 \in S BY <1>3, <1>5
<1>7. QED BY <1>5, <1>6

\* The rule for a loop: what holds at the start and is kept by each turn holds
\* after each turn.
LEMMA LoopInvariant ==
    ASSUME NEW g, NEW N \in Nat, NEW S, g[0] \in S[0],
           \A k \in 1 .. N : g[k - 1] \in S[k - 1] => g[k] \in S[k]
    PROVE  \A k \in 0 .. N : g[k] \in S[k]
<1> DEFINE Good == {n \in Nat : n <= N => g[n] \in S[n]}
<1>1. 0 \in Good OBVIOUS
<1>2. ASSUME NEW n \in Nat, n \in Good PROVE n + 1 \in Good
  <2>1. n + 1 <= N => n + 1 \in 1 .. N /\ n = (n + 1) - 1 OBVIOUS
  <2>2. n + 1 <= N => g[(n + 1) - 1] \in S[(n + 1) - 1] BY <1>2
  <2>3. QED BY <2>1, <2>2
<1> HIDE DEF Good
<1>3. Nat \subseteq Good BY <1>1, <1>2, SetInduction
<1>4. QED BY <1>3 DEF Good

\* g[k] is the state after k turns of a loop, F[k] what turn number k does.
Loop(g, N, s0, F) == g = [k \in 0 .. N |-> IF k = 0 THEN s0 ELSE F[k][g[k - 1]]]

\* A loop of N turns has a result.
LEMMA LoopExists ==
    ASSUME NEW S, NEW N \in Nat, NEW F \in [1 .. N -> [S -> S]], NEW s0 \in S
    PROVE  \E g : g \in [0 .. N -> S] /\ Loop(g, N, s0, F)
<1> USE DEF Loop
<1> DEFINE Is(g, n) == Loop(g, n, s0, F)
           Good == {n \in Nat : n <= N => \E g \in [0 .. n -> S] : Is(g, n)}
<1>1. 0 \in Good
  <2>1. [k \in 0 .. 0 |-> s0] \in [0 .. 0 -> S] OBVIOUS
  <2>2. Is([k \in 0 .. 0 |-> s0], 0) OBVIOUS
  <2>3. QED BY <2>1, <2>2
<1>2. ASSUME NEW n \in Nat, n \in Good PROVE n + 1 \in Good
  <2>1. SUFFICES ASSUME n + 1 <= N PROVE \E g \in [0 .. n + 1 -> S] : Is(g, n + 1) OBVIOUS
  <2>2. PICK g \in [0 .. n -> S] : Is(g, n) BY <1>2, <2>1
  <2> DEFINE h == [k \in 0 .. n + 1 |-> IF k <= n THEN g[k] ELSE F[n + 1][g[n]]]
  <2>3. F[n + 1][g[n]] \in S BY <2>1
  <2>4. h \in [0 .. n + 1 -> S] BY <2>3
  <2>5. ASSUME NEW k \in 0 .. n + 1 PROVE h[k] = IF k = 0 THEN s0 ELSE F[k][h[k - 1]]
    <3>1. CASE k = 0 BY <2>2, <3>1
    <3>2. CASE k # 0 /\ k <= n
      <4>1. g[k] = F[k][g[k - 1]] BY <2>2, <3>2
      <4>2. k - 1 \in 0 .. n + 1 /\ k - 1 <= n BY <3>2
      <4>3. h[k - 1] = g[k - 1] /\ h[k] = g[k] BY <3>2, <4>2
      <4>4. QED BY <3>2, <4>1, <4>3
    <3>3. CASE k = n + 1
      <4>1. h[k] = F[n + 1][g[n]] /\ h[k - 1] = g[n] BY <3>3
      <4>2. QED BY <3>3, <4>1
    <3>4. QED BY <3>1, <3>2, <3>3
  <2> HIDE DEF h
  <2>6. Is(h, n + 1) BY <2>4, <2>5
  <2>7. QED BY <2>4, <2>6
<1> HIDE DEF Good
<1>3. Nat \subseteq Good BY <1>1, <1>2, SetInduction
<1>4. N \in Good BY <1>3
<1>5. QED BY <1>4 DEF Good

-----------------------------------------------------------------------------
(* Sequences.                                                               *)

\* The function inside FlattenSeq.
Flat(ss) ==
    LET flatten[i \in 1 .. Len(ss)] == IF i = 1 THEN ss[i] ELSE flatten[i - 1] \o ss[i]
    IN flatten

\* It is what its definition says, and FlattenSeq is its last value.
LEMMA FlatDef ==
    ASSUME NEW C, NEW ss \in Seq(Seq(C)), Len(ss) # 0
    PROVE  /\ Flat(ss) = [i \in 1 .. Len(ss) |->
                             IF i = 1 THEN ss[i] ELSE Flat(ss)[i - 1] \o ss[i]]
           /\ FlattenSeq(ss) = Flat(ss)[Len(ss)]
<1> DEFINE N == Len(ss) - 1
           F == [k \in 1 .. N |-> [s \in Seq(C) |-> s \o ss[k + 1]]]
<1>1. N \in Nat /\ ss[1] \in Seq(C) /\ \A k \in 1 .. N : ss[k + 1] \in Seq(C) OBVIOUS
<1>2. F \in [1 .. N -> [Seq(C) -> Seq(C)]] BY <1>1
<1>3. \A k \in 1 .. N : \A s \in Seq(C) : F[k][s] = s \o ss[k + 1] OBVIOUS
<1> HIDE DEF F
<1>4. PICK g \in [0 .. N -> Seq(C)] :
          Loop(g, N, ss[1], F)
  <2> HIDE DEF N
  <2> QED BY <1>1, <1>2, LoopExists
<1>9. \A k \in 1 .. N : g[k] = g[k - 1] \o ss[k + 1]
  <2>1. N \in Nat OBVIOUS
  <2> HIDE DEF N
  <2>2. \A k \in 1 .. N : g[k] = F[k][g[k - 1]] BY <1>4, <2>1 DEF Loop
  <2>3. \A k \in 1 .. N : g[k - 1] \in Seq(C)
    <3>1. \A k \in 1 .. N : k - 1 \in 0 .. N BY <2>1
    <3>2. QED BY <3>1
  <2>4. QED BY <1>3, <2>2, <2>3
<1> DEFINE f == [i \in 1 .. Len(ss) |-> g[i - 1]]
<1>5. ASSUME NEW i \in 1 .. Len(ss) PROVE f[i] = IF i = 1 THEN ss[i] ELSE f[i - 1] \o ss[i]
  <2>1. CASE i = 1 BY <1>4, <2>1 DEF Loop
  <2>2. CASE i # 1
    <3>1. PICK k \in 1 .. N : i = k + 1 BY <2>2
    <3>2. g[k] = g[k - 1] \o ss[i] BY <1>9, <3>1
    <3>3. f[i] = g[k] /\ f[i - 1] = g[k - 1] BY <3>1
    <3>4. QED BY <2>2, <3>2, <3>3
  <2>3. QED BY <2>1, <2>2
<1>6. f = [i \in 1 .. Len(ss) |-> IF i = 1 THEN ss[i] ELSE f[i - 1] \o ss[i]]
  <2>1. f = [i \in 1 .. Len(ss) |-> f[i]] OBVIOUS
  <2> HIDE DEF f
  <2>2. QED BY <1>5, <2>1
<1>7. Flat(ss) = [i \in 1 .. Len(ss) |-> IF i = 1 THEN ss[i] ELSE Flat(ss)[i - 1] \o ss[i]]
  <2> HIDE DEF f
  <2> QED BY <1>6 DEF Flat
<1>8. QED BY <1>7 DEF FlattenSeq, Flat

\* FlattenSeq of a longer sequence.
LEMMA FlattenAppend ==
    ASSUME NEW C, NEW ss \in Seq(Seq(C)), NEW x \in Seq(C)
    PROVE  /\ FlattenSeq(ss) \in Seq(C)
           /\ FlattenSeq(Append(ss, x)) = FlattenSeq(ss) \o x
<1> DEFINE tt == Append(ss, x)
           n == Len(ss)
<1>1. n \in Nat /\ tt \in Seq(Seq(C)) /\ Len(tt) = n + 1 /\ tt[n + 1] = x
      /\ (\A i \in 1 .. n : tt[i] = ss[i] /\ ss[i] \in Seq(C))
  OBVIOUS
<1>2. /\ Flat(tt) = [i \in 1 .. n + 1 |-> IF i = 1 THEN tt[i] ELSE Flat(tt)[i - 1] \o tt[i]]
      /\ FlattenSeq(tt) = Flat(tt)[n + 1]
  <2>1. Len(tt) # 0 BY <1>1
  <2> HIDE DEF tt, n
  <2>2. QED BY <1>1, <2>1, FlatDef
<1>3. CASE n = 0
  <2>1. FlattenSeq(ss) = <<>> BY <1>3 DEF FlattenSeq
  <2> HIDE DEF tt, n
  <2>2. FlattenSeq(tt) = x BY <1>1, <1>2, <1>3
  <2>3. <<>> \o x = x OBVIOUS
  <2>4. QED BY <2>1, <2>2, <2>3 DEF tt
<1>4. CASE n # 0
  <2>1. /\ Flat(ss) = [i \in 1 .. n |-> IF i = 1 THEN ss[i] ELSE Flat(ss)[i - 1] \o ss[i]]
        /\ FlattenSeq(ss) = Flat(ss)[n]
    BY <1>4, FlatDef
  <2> HIDE DEF tt, n
  <2> DEFINE Same == {k \in Nat : k + 1 \in 1 .. n =>
                          Flat(tt)[k + 1] = Flat(ss)[k + 1] /\ Flat(ss)[k + 1] \in Seq(C)}
  <2>2. 0 \in Same BY <1>1, <1>2, <1>4, <2>1
  <2>3. ASSUME NEW k \in Nat, k \in Same PROVE k + 1 \in Same
    <3> DEFINE i == k + 2
    <3>1. SUFFICES ASSUME i \in 1 .. n
                   PROVE  Flat(tt)[i] = Flat(ss)[i] /\ Flat(ss)[i] \in Seq(C)
      OBVIOUS
    <3>2. i # 1 /\ i - 1 = k + 1 /\ i \in 1 .. n + 1 /\ k + 1 \in 1 .. n BY <1>1, <3>1
    <3>3. Flat(tt)[k + 1] = Flat(ss)[k + 1] /\ Flat(ss)[k + 1] \in Seq(C) BY <2>3, <3>2
    <3> HIDE DEF i
    <3>4. Flat(tt)[i] = Flat(tt)[k + 1] \o tt[i] BY <1>2, <3>2
    <3>5. Flat(ss)[i] = Flat(ss)[k + 1] \o ss[i] BY <2>1, <3>1, <3>2
    <3>6. tt[i] = ss[i] /\ ss[i] \in Seq(C) BY <1>1, <3>1
    <3>7. QED BY <3>3, <3>4, <3>5, <3>6
  <2> HIDE DEF Same
  <2>4. Nat \subseteq Same BY <2>2, <2>3, SetInduction
  <2>5. n - 1 \in Same /\ (n - 1) + 1 = n /\ n \in 1 .. n BY <1>1, <1>4, <2>4
  <2>6. Flat(tt)[n] = Flat(ss)[n] /\ Flat(ss)[n] \in Seq(C) BY <2>5 DEF Same
  <2>7. n + 1 \in 1 .. n + 1 /\ n + 1 # 1 /\ (n + 1) - 1 = n BY <1>1, <1>4
  <2>8. Flat(tt)[n + 1] = Flat(tt)[n] \o x BY <1>1, <1>2, <2>7
  <2>9. QED BY <1>2, <2>1, <2>6, <2>8 DEF tt
<1>5. QED BY <1>3, <1>4

\* Two sequences of characters, one after the other.
LEMMA ConcatType ==
    ASSUME NEW C, NEW s \in Seq(C), NEW t \in Seq(C)
    PROVE  s \o t \in Seq(C)
OBVIOUS

\* Two parts of a sequence that meet are one part.
LEMMA SubSeqSplit ==
    ASSUME NEW C, NEW p \in Seq(C), NEW a \in Nat, NEW b \in Nat, NEW c \in Nat,
           1 <= a, a <= b + 1, b <= c, c <= Len(p)
    PROVE  SubSeq(p, a, b) \o SubSeq(p, b + 1, c) = SubSeq(p, a, c)
OBVIOUS

\* The part that is one character ...
LEMMA SubSeqOne ==
    ASSUME NEW C, NEW p \in Seq(C), NEW a \in 1 .. Len(p)
    PROVE  SubSeq(p, a, a) = <<p[a]>>
<1>1. SubSeq(p, a, a) \in Seq(C) /\ <<p[a]>> \in Seq(C) OBVIOUS
<1>2. Len(SubSeq(p, a, a)) = 1 /\ Len(<<p[a]>>) = 1 OBVIOUS
<1>3. \A k \in 1 .. 1 : SubSeq(p, a, a)[k] = <<p[a]>>[k] OBVIOUS
<1>4. QED BY <1>1, <1>2, <1>3, SeqEqual

\* ... and how long a part is.
LEMMA SubSeqType ==
    ASSUME NEW C, NEW p \in Seq(C), NEW a \in Nat, NEW b \in Nat, 1 <= a, a <= b + 1, b <= Len(p)
    PROVE  SubSeq(p, a, b) \in Seq(C) /\ Len(SubSeq(p, a, b)) = b - a + 1
OBVIOUS

-----------------------------------------------------------------------------
(* The inner loop of LogFormatter::init.                                     *)

\* The characters that mean something to the parser are three, and no letters.
LEMMA Characters ==
    /\ Percent # Open /\ Percent # Close /\ Open # Close
    /\ \A c \in Letters : c # Percent /\ c # Open /\ c # Close
<1>1. Percent # Open /\ Percent # Close /\ Open # Close BY Zenon DEF Percent, Open, Close
<1>2. QED BY <1>1, LettersAssumption

\* What the inner loop finds: the name ends before n; behind it is no format, or
\* one that is not closed, or one that ends at c.
NoFormat(p, i, n) ==
    /\ n > Len(p) \/ p[n] # Open
    /\ Scan(p, i) = [str |-> SubSeq(p, i + 1, n - 1), fmt |-> <<>>, status |-> 0, n |-> n]
OpenFormat(p, i, n) ==
    /\ n <= Len(p) /\ p[n] = Open
    /\ \A k \in n + 1 .. Len(p) : p[k] # Close
    /\ Scan(p, i) = [str |-> SubSeq(p, i + 1, n - 1), fmt |-> <<>>, status |-> 1, n |-> Len(p) + 1]
ClosedFormat(p, i, n, c) ==
    /\ n <= Len(p) /\ p[n] = Open /\ p[c] = Close
    /\ \A k \in n + 1 .. c - 1 : p[k] # Close
    /\ Scan(p, i) = [str |-> SubSeq(p, i + 1, n - 1), fmt |-> SubSeq(p, n + 1, c - 1), status |-> 0,
                     n |-> c + 1]
NameEnds(p, i, n) ==
    /\ \A k \in i + 1 .. n - 1 : p[k] \in Letters \union {Close}
    /\ n <= Len(p) => p[n] \notin Letters \union {Close}

\* One of the three is what the inner loop answers with.
LEMMA ScanResult ==
    ASSUME NEW C, NEW p \in Seq(C), NEW i \in 1 .. Len(p)
    PROVE  \E n \in i + 1 .. Len(p) + 1 :
             /\ NameEnds(p, i, n)
             /\ \/ NoFormat(p, i, n)
                \/ OpenFormat(p, i, n)
                \/ \E c \in n + 1 .. Len(p) : ClosedFormat(p, i, n, c)
<1> DEFINE Stops == {k \in i + 1 .. Len(p) : p[k] \notin Letters \union {Close}}
           n == IF Stops = {} THEN Len(p) + 1 ELSE CHOOSE k \in Stops : \A j \in Stops : k <= j
           Closes == {k \in n + 1 .. Len(p) : p[k] = Close}
           c == CHOOSE k \in Closes : \A j \in Closes : k <= j
           str == SubSeq(p, i + 1, n - 1)
<1>1. Len(p) \in Nat OBVIOUS
<1>2. /\ n \in i + 1 .. Len(p) + 1
      /\ \A k \in i + 1 .. n - 1 : p[k] \in Letters \union {Close}
      /\ n <= Len(p) => p[n] \notin Letters \union {Close}
  <2>1. CASE Stops = {}
    <3>1. n = Len(p) + 1 BY <2>1
    <3>2. \A k \in i + 1 .. Len(p) : p[k] \in Letters \union {Close} BY <2>1
    <3> HIDE DEF n
    <3>3. QED BY <1>1, <3>1, <3>2
  <2>2. CASE Stops # {}
    <3>1. Stops \subseteq Nat BY <1>1
    <3>2. \E k \in Stops : \A j \in Stops : k <= j
      <4> HIDE DEF Stops
      <4> QED BY <2>2, <3>1, LeastOf
    <3>3. n \in Stops /\ \A j \in Stops : n <= j
      <4> HIDE DEF Stops
      <4> QED BY <2>2, <3>2
    <3> HIDE DEF n
    <3>4. QED BY <1>1, <3>3
  <2>3. QED BY <2>1, <2>2
<1>3. Scan(p, i) = IF n > Len(p) \/ p[n] # Open
                   THEN [str |-> str, fmt |-> <<>>, status |-> 0, n |-> n]
                   ELSE IF Closes = {}
                        THEN [str |-> str, fmt |-> <<>>, status |-> 1, n |-> Len(p) + 1]
                        ELSE [str |-> str, fmt |-> SubSeq(p, n + 1, c - 1), status |-> 0, n |-> c + 1]
  BY DEF Scan, Substr
<1> HIDE DEF n, c
<1>4. Closes # {} => c \in Closes /\ \A j \in Closes : c <= j
  <2>1. Closes \subseteq Nat BY <1>1, <1>2
  <2> HIDE DEF Closes
  <2>2. Closes # {} => \E k \in Closes : \A j \in Closes : k <= j BY <2>1, LeastOf
  <2>3. QED BY <2>2 DEF c
<1>5. CASE n > Len(p) \/ p[n] # Open
  <2>1. NoFormat(p, i, n) BY <1>3, <1>5 DEF NoFormat
  <2>2. QED BY <1>2, <2>1 DEF NameEnds
<1>6. CASE n <= Len(p) /\ p[n] = Open /\ Closes = {}
  <2>1. \A k \in n + 1 .. Len(p) : p[k] # Close BY <1>6
  <2>2. ~ (n > Len(p) \/ p[n] # Open) BY <1>1, <1>2, <1>6
  <2>3. Scan(p, i) = [str |-> str, fmt |-> <<>>, status |-> 1, n |-> Len(p) + 1] BY <1>3, <1>6, <2>2
  <2>4. OpenFormat(p, i, n) BY <1>6, <2>1, <2>3 DEF OpenFormat
  <2>5. QED BY <1>2, <2>4 DEF NameEnds
<1>7. CASE n <= Len(p) /\ p[n] = Open /\ Closes # {}
  <2>1. c \in n + 1 .. Len(p) /\ p[c] = Close BY <1>4, <1>7
  <2>2. \A k \in n + 1 .. c - 1 : p[k] # Close BY <1>1, <1>2, <1>4, <1>7, <2>1
  <2>3. ~ (n > Len(p) \/ p[n] # Open) BY <1>1, <1>2, <1>7
  <2>4. Scan(p, i) = [str |-> str, fmt |-> SubSeq(p, n + 1, c - 1), status |-> 0, n |-> c + 1]
    BY <1>3, <1>7, <2>3
  <2>5. ClosedFormat(p, i, n, c) BY <1>7, <2>1, <2>2, <2>4 DEF ClosedFormat
  <2>6. QED BY <1>2, <2>1, <2>5 DEF NameEnds
<1>8. n > Len(p) \/ n <= Len(p) BY <1>1, <1>2
<1>9. QED BY <1>5, <1>6, <1>7, <1>8

-----------------------------------------------------------------------------
(* What the outer loop may rely on at its top.                              *)

\* Position j of a pattern is as SecondBegins wants it.
Fine(p, j) ==
    p[j] = Percent /\ ~ InFormat(p, j) => ItemAt(p, j) \/ (j < Len(p) /\ p[j + 1] = Percent)

\* The outer loop may come to position i, all being well so far: i is not inside
\* a format, nor does it go on with an item that began before.
Top(p, i) ==
    /\ ~ InFormat(p, i)
    /\ i <= Len(p) /\ p[i] \in Letters \union {Open} =>
           ~ \E j \in 1 .. i - 1 : p[j] = Percent /\ \A l \in j + 1 .. i - 1 : p[l] \in Letters
    /\ \A j \in 1 .. i - 1 : Fine(p, j)

\* A character that is taken as text: the loop goes on behind it.
LEMMA TopText ==
    ASSUME NEW C, NEW p \in Seq(C), NEW i \in 1 .. Len(p), Top(p, i),
           p[i] # Percent \/ (i < Len(p) /\ p[i + 1] = Percent)
    PROVE  Top(p, i + 1)
<1>1. Len(p) \in Nat OBVIOUS
<1>2. ~ InFormat(p, i + 1)
  <2>1. SUFFICES ASSUME NEW j \in 1 .. i, NEW k \in 1 .. i, j < k, p[j] = Percent, p[k] = Open,
                        \A l \in j + 1 .. k - 1 : p[l] \in Letters, \A l \in k .. i : p[l] # Close
                 PROVE  FALSE
    BY <1>1 DEF InFormat
  <2>2. CASE k = i
    <3>1. j \in 1 .. i - 1 /\ p[i] = Open BY <2>1, <2>2
    <3>2. QED BY <2>1, <2>2, <3>1 DEF Top
  <2>3. CASE k # i
    <3>1. j \in 1 .. i - 1 /\ k \in 1 .. i - 1 BY <2>1, <2>3
    <3>2. \A l \in k .. i - 1 : p[l] # Close BY <2>1
    <3>3. InFormat(p, i) BY <2>1, <3>1, <3>2 DEF InFormat
    <3>4. QED BY <3>3 DEF Top
  <2>4. QED BY <2>2, <2>3
<1>3. ASSUME i + 1 <= Len(p), p[i + 1] \in Letters \union {Open},
             NEW j \in 1 .. i, p[j] = Percent, \A l \in j + 1 .. i : p[l] \in Letters
      PROVE  FALSE
  <2>1. CASE j = i BY <1>3, <2>1, Characters
  <2>2. CASE j # i
    <3>1. j \in 1 .. i - 1 /\ p[i] \in Letters BY <1>3, <2>2
    <3>2. \A l \in j + 1 .. i - 1 : p[l] \in Letters BY <1>3
    <3>3. QED BY <1>3, <3>1, <3>2 DEF Top
  <2>3. QED BY <2>1, <2>2
<1>4. Fine(p, i) BY DEF Fine
<1>5. \A j \in 1 .. i : Fine(p, j) BY <1>4 DEF Top
<1>6. (i + 1) - 1 = i BY <1>1
<1>7. QED BY <1>2, <1>3, <1>5, <1>6 DEF Top

\* An item without a format: it is one that is known exactly if the position is
\* as it should be, and then the loop may go on behind it.
LEMMA TopItem ==
    ASSUME NEW C, NEW p \in Seq(C), NEW i \in 1 .. Len(p), Top(p, i),
           p[i] = Percent, ~ (i < Len(p) /\ p[i + 1] = Percent),
           NEW n \in i + 1 .. Len(p) + 1,
           \A k \in i + 1 .. n - 1 : p[k] \in Letters \union {Close},
           n <= Len(p) => p[n] \notin Letters \union {Close},
           n > Len(p) \/ p[n] # Open
    PROVE  /\ Fine(p, i) <=> n = i + 2 /\ p[i + 1] \in Known
           /\ Fine(p, i) => Top(p, n)
<1>1. Len(p) \in Nat OBVIOUS
<1>2. ~ InFormat(p, i) BY DEF Top
<1>3. Fine(p, i) <=> ItemAt(p, i) BY <1>2 DEF Fine
<1>4. ASSUME n = i + 2, p[i + 1] \in Known PROVE ItemAt(p, i)
  BY <1>1, <1>4 DEF ItemAt
<1>5. ASSUME ItemAt(p, i) PROVE n = i + 2 /\ p[i + 1] \in Known
  <2>1. i < Len(p) /\ p[i + 1] \in Known /\ p[i + 1] \in Letters
    BY <1>5, LettersAssumption DEF ItemAt
  <2>2. n # i + 1 BY <1>1, <2>1
  <2>3. n <= i + 2
    <3>1. SUFFICES ASSUME n > i + 2 PROVE FALSE BY <1>1
    <3>2. i + 2 \in i + 1 .. n - 1 /\ i + 2 <= Len(p) BY <1>1, <3>1
    <3>3. p[i + 2] \in Letters \union {Close} BY <3>2
    <3>4. p[i + 2] # Open BY <3>3, Characters
    <3>5. QED BY <1>1, <1>5, <3>2, <3>3, <3>4 DEF ItemAt
  <2>4. QED BY <1>1, <2>1, <2>2, <2>3
<1>6. ASSUME n = i + 2, p[i + 1] \in Known, Fine(p, i) PROVE Top(p, n)
  <2>1. p[i + 1] \in Letters /\ p[i + 1] # Percent BY <1>6, LettersAssumption, Characters
  <2>2. ~ InFormat(p, n)
    <3>1. SUFFICES ASSUME NEW j \in 1 .. n - 1, NEW k \in 1 .. n - 1, j < k, p[j] = Percent,
                          p[k] = Open, \A l \in j + 1 .. k - 1 : p[l] \in Letters,
                          \A l \in k .. n - 1 : p[l] # Close
                   PROVE  FALSE
      BY DEF InFormat
    <3>2. k # i /\ k # i + 1 BY <2>1, <3>1, Characters
    <3>3. j \in 1 .. i - 1 /\ k \in 1 .. i - 1 BY <1>1, <1>6, <3>1, <3>2
    <3>4. \A l \in k .. i - 1 : p[l] # Close BY <1>1, <1>6, <3>1
    <3>5. InFormat(p, i) BY <3>1, <3>3, <3>4 DEF InFormat
    <3>6. QED BY <1>2, <3>5
  <2>3. n <= Len(p) => p[n] \notin Letters \union {Open} BY <1>1
  <2>4. ASSUME NEW j \in 1 .. n - 1 PROVE Fine(p, j)
    <3>1. CASE j < i BY <1>1, <3>1 DEF Top
    <3>2. CASE j = i BY <1>6, <3>2
    <3>3. CASE j = i + 1 BY <2>1, <3>3 DEF Fine
    <3>4. QED BY <1>1, <1>6, <3>1, <3>2, <3>3
  <2>5. QED BY <2>2, <2>3, <2>4 DEF Top
<1>7. QED BY <1>3, <1>4, <1>5, <1>6

\* An item with a format that ends at c.
LEMMA TopFormat ==
    ASSUME NEW C, NEW p \in Seq(C), NEW i \in 1 .. Len(p), Top(p, i),
           p[i] = Percent, ~ (i < Len(p) /\ p[i + 1] = Percent),
           NEW n \in i + 1 .. Len(p), p[n] = Open,
           \A k \in i + 1 .. n - 1 : p[k] \in Letters \union {Close},
           NEW c \in n + 1 .. Len(p), p[c] = Close,
           \A k \in n + 1 .. c - 1 : p[k] # Close
    PROVE  /\ Fine(p, i) <=> n = i + 2 /\ p[i + 1] \in Known
           /\ Fine(p, i) => Top(p, c + 1)
<1>1. Len(p) \in Nat OBVIOUS
<1>2. ~ InFormat(p, i) BY DEF Top
<1>3. Fine(p, i) <=> ItemAt(p, i) BY <1>2 DEF Fine
<1>4. ASSUME n = i + 2, p[i + 1] \in Known PROVE ItemAt(p, i)
  <2>1. c \in i + 3 .. Len(p) BY <1>1, <1>4
  <2>2. QED BY <1>1, <1>4, <2>1 DEF ItemAt
<1>5. ASSUME ItemAt(p, i) PROVE n = i + 2 /\ p[i + 1] \in Known
  <2>1. i < Len(p) /\ p[i + 1] \in Known /\ p[i + 1] \in Letters
    BY <1>5, LettersAssumption DEF ItemAt
  <2>2. n # i + 1 BY <2>1, Characters
  <2>3. n <= i + 2
    <3>1. SUFFICES ASSUME n > i + 2 PROVE FALSE BY <1>1
    <3>2. i + 2 \in i + 1 .. n - 1 /\ i + 2 <= Len(p) BY <1>1, <3>1
    <3>3. p[i + 2] \in Letters \union {Close} BY <3>2
    <3>4. p[i + 2] # Open BY <3>3, Characters
    <3>5. QED BY <1>1, <1>5, <3>2, <3>3, <3>4 DEF ItemAt
  <2>4. QED BY <1>1, <2>1, <2>2, <2>3
<1>6. ASSUME n = i + 2, p[i + 1] \in Known, Fine(p, i) PROVE Top(p, c + 1)
  <2>0. (c + 1) - 1 = c /\ c \in Nat BY <1>1
  <2>1. p[i + 1] \in Letters /\ p[i + 1] # Percent BY <1>6, LettersAssumption, Characters
  <2>2. ~ InFormat(p, c + 1)
    <3>1. SUFFICES ASSUME NEW k \in 1 .. c, \A l \in k .. c : p[l] # Close PROVE FALSE
      BY <2>0 DEF InFormat
    <3>2. c \in k .. c BY <1>1
    <3>3. QED BY <3>1, <3>2
  <2>3. ASSUME NEW j \in 1 .. c, p[j] = Percent, \A l \in j + 1 .. c : p[l] \in Letters PROVE FALSE
    <3>1. j # c BY <2>3, Characters
    <3>2. c \in j + 1 .. c BY <1>1, <3>1
    <3>3. QED BY <2>3, <3>2, Characters
  <2>4. ASSUME NEW j \in 1 .. c PROVE Fine(p, j)
    <3>1. CASE j < i BY <1>1, <3>1 DEF Top
    <3>2. CASE j = i BY <1>6, <3>2
    <3>3. CASE j = i + 1 BY <2>1, <3>3 DEF Fine
    <3>4. CASE j = n BY <3>4, Characters DEF Fine
    <3>5. CASE j > n
      <4>1. i \in 1 .. j - 1 /\ n \in 1 .. j - 1 /\ i < n BY <1>1, <3>5
      <4>2. \A l \in i + 1 .. n - 1 : p[l] \in Letters BY <1>1, <1>6, <2>1
      <4>3. \A l \in n .. j - 1 : p[l] # Close
        <5>1. SUFFICES ASSUME NEW l \in n .. j - 1 PROVE p[l] # Close OBVIOUS
        <5>2. CASE l = n BY <5>2, Characters
        <5>3. CASE l # n
          <6>1. l \in n + 1 .. c - 1 BY <1>1, <5>3
          <6>2. QED BY <6>1
        <5>4. QED BY <5>2, <5>3
      <4>4. InFormat(p, j) BY <4>1, <4>2, <4>3 DEF InFormat
      <4>5. QED BY <4>4 DEF Fine
    <3>6. QED BY <1>1, <1>6, <3>1, <3>2, <3>3, <3>4, <3>5
  <2>5. QED BY <2>0, <2>2, <2>3, <2>4 DEF Top
<1>7. QED BY <1>3, <1>4, <1>5, <1>6

\* A format that is not closed.
LEMMA NoItem ==
    ASSUME NEW C, NEW p \in Seq(C), NEW i \in 1 .. Len(p), Top(p, i),
           p[i] = Percent, ~ (i < Len(p) /\ p[i + 1] = Percent),
           NEW n \in i + 1 .. Len(p), p[n] = Open,
           \A k \in i + 1 .. n - 1 : p[k] \in Letters \union {Close},
           \A k \in n + 1 .. Len(p) : p[k] # Close
    PROVE  ~ Fine(p, i)
<1>1. Len(p) \in Nat OBVIOUS
<1>2. ~ InFormat(p, i) BY DEF Top
<1>3. SUFFICES ASSUME ItemAt(p, i) PROVE FALSE BY <1>2 DEF Fine
<1>4. i < Len(p) /\ p[i + 1] \in Letters BY <1>3, LettersAssumption DEF ItemAt
<1>5. n # i + 1 BY <1>4, Characters
<1>6. CASE n = i + 2
  <2>1. \A k \in i + 3 .. Len(p) : p[k] # Close BY <1>1, <1>6
  <2>2. QED BY <1>1, <1>3, <1>6, <2>1 DEF ItemAt
<1>7. CASE n > i + 2
  <2>1. i + 2 \in i + 1 .. n - 1 /\ i + 2 <= Len(p) BY <1>1, <1>7
  <2>2. p[i + 2] \in Letters \union {Close} BY <2>1
  <2>3. p[i + 2] # Open BY <2>2, Characters
  <2>4. QED BY <1>1, <1>3, <2>1, <2>2, <2>3 DEF ItemAt
<1>8. QED BY <1>1, <1>5, <1>6, <1>7

-----------------------------------------------------------------------------
(* What is written of the pieces.                                           *)

\* The state of the outer loop, for a pattern of N characters of C.
PieceSet(C) == [str : Seq(C), fmt : Seq(C), type : {0, 1}]
LoopStates(C, N) ==
    [i : 1 .. N + 1, nstr : Seq(C), vec : Seq(PieceSet(C)), error : BOOLEAN]

\* Some item is of a kind nobody knows.
Unknown(v) == \E k \in DOMAIN v : v[k].type = 1 /\ ~ IsKnown(v[k].str)

\* What a piece is written as is a pattern ...
LEMMA WriteOneType ==
    ASSUME NEW C, {Percent, Open, Close} \subseteq C, NEW x \in PieceSet(C)
    PROVE  WriteOne(x) \in Seq(C)
<1>1. x.str \in Seq(C) /\ x.fmt \in Seq(C) BY DEF PieceSet
<1>2. <<Percent>> \in Seq(C) /\ <<Open>> \in Seq(C) /\ <<Close>> \in Seq(C) /\ <<>> \in Seq(C)
  OBVIOUS
<1> DEFINE f == IF x.fmt = <<>> THEN <<>> ELSE <<Open>> \o x.fmt \o <<Close>>
<1>3. f \in Seq(C) BY <1>1, <1>2, ConcatType
<1> HIDE DEF f
<1>4. <<Percent>> \o x.str \o f \in Seq(C) BY <1>1, <1>2, <1>3, ConcatType
<1>5. QED BY <1>1, <1>4 DEF WriteOne, f

\* ... and one more piece is written behind the others ...
LEMMA WriteAppend ==
    ASSUME NEW C, {Percent, Open, Close} \subseteq C, NEW v \in Seq(PieceSet(C)), NEW x \in PieceSet(C)
    PROVE  Write(v) \in Seq(C) /\ Write(Append(v, x)) = Write(v) \o WriteOne(x)
<1> DEFINE ss == [k \in DOMAIN v |-> WriteOne(v[k])]
<1>1. \A k \in DOMAIN v : WriteOne(v[k]) \in Seq(C) BY WriteOneType
<1>2. ss \in Seq(Seq(C)) /\ Len(ss) = Len(v)
  <2>1. Len(v) \in Nat /\ DOMAIN v = 1 .. Len(v) OBVIOUS
  <2>2. ss \in [1 .. Len(v) -> Seq(C)] BY <1>1, <2>1
  <2> HIDE DEF ss
  <2>3. QED BY <2>1, <2>2
<1>3. WriteOne(x) \in Seq(C) BY WriteOneType
<1>4. [k \in DOMAIN Append(v, x) |-> WriteOne(Append(v, x)[k])] = Append(ss, WriteOne(x))
  <2>1. DOMAIN Append(v, x) = 1 .. Len(v) + 1 OBVIOUS
  <2>2. \A k \in 1 .. Len(v) + 1 : Append(v, x)[k] = IF k = Len(v) + 1 THEN x ELSE v[k] OBVIOUS
  <2>3. Append(ss, WriteOne(x)) = [k \in 1 .. Len(v) + 1 |-> IF k = Len(v) + 1 THEN WriteOne(x) ELSE ss[k]]
    BY <1>2, <1>3
  <2>4. \A k \in 1 .. Len(v) : ss[k] = WriteOne(v[k]) OBVIOUS
  <2> HIDE DEF ss
  <2>5. QED BY <2>1, <2>2, <2>3, <2>4
<1> HIDE DEF ss
<1>5. QED BY <1>2, <1>3, <1>4, FlattenAppend DEF Write, ss

\* ... and is known or not, whatever the others are.
LEMMA UnknownAppend ==
    ASSUME NEW C, NEW v \in Seq(PieceSet(C)), NEW x \in PieceSet(C)
    PROVE  Unknown(Append(v, x)) <=> Unknown(v) \/ (x.type = 1 /\ ~ IsKnown(x.str))
<1>1. DOMAIN v = 1 .. Len(v) /\ DOMAIN Append(v, x) = 1 .. Len(v) + 1 /\ Len(v) \in Nat OBVIOUS
<1>2. \A k \in 1 .. Len(v) : Append(v, x)[k] = v[k] OBVIOUS
<1>3. Append(v, x)[Len(v) + 1] = x OBVIOUS
<1>4. ASSUME Unknown(Append(v, x)) PROVE Unknown(v) \/ (x.type = 1 /\ ~ IsKnown(x.str))
  <2>1. PICK k \in 1 .. Len(v) + 1 : Append(v, x)[k].type = 1 /\ ~ IsKnown(Append(v, x)[k].str)
    BY <1>1, <1>4 DEF Unknown
  <2>2. k \in 1 .. Len(v) \/ k = Len(v) + 1 BY <1>1
  <2>3. QED BY <1>1, <1>2, <1>3, <2>1, <2>2 DEF Unknown
<1>5. ASSUME Unknown(v) PROVE Unknown(Append(v, x))
  <2>1. PICK k \in 1 .. Len(v) : v[k].type = 1 /\ ~ IsKnown(v[k].str) BY <1>1, <1>5 DEF Unknown
  <2>2. k \in 1 .. Len(v) + 1 BY <1>1
  <2>3. QED BY <1>1, <1>2, <2>1, <2>2 DEF Unknown
<1>6. ASSUME x.type = 1 /\ ~ IsKnown(x.str) PROVE Unknown(Append(v, x))
  <2>1. Len(v) + 1 \in 1 .. Len(v) + 1 BY <1>1
  <2>2. QED BY <1>1, <1>3, <1>6, <2>1 DEF Unknown
<1>7. QED BY <1>4, <1>5, <1>6

\* The text that is flushed is written as it is, and is no item.
LEMMA FlushText ==
    ASSUME NEW C, {Percent, Open, Close} \subseteq C, NEW v \in Seq(PieceSet(C)), NEW s \in Seq(C)
    PROVE  /\ Flush(v, s) \in Seq(PieceSet(C))
           /\ Write(Flush(v, s)) = Write(v) \o s
           /\ Unknown(Flush(v, s)) <=> Unknown(v)
<1> DEFINE x == Piece(s, <<>>, 0)
<1>1. x \in PieceSet(C) /\ x.type = 0 /\ x.str = s BY DEF Piece, PieceSet
<1>2. WriteOne(x) = s BY <1>1 DEF WriteOne
<1> HIDE DEF x
<1>3. Write(v) \in Seq(C) BY <1>1, WriteAppend
<1>4. CASE s = <<>>
  <2>1. Flush(v, s) = v BY <1>4 DEF Flush
  <2>2. Write(v) \o s = Write(v) BY <1>3, <1>4
  <2>3. QED BY <2>1, <2>2
<1>5. CASE s # <<>>
  <2>1. Flush(v, s) = Append(v, x) BY <1>5 DEF Flush, x
  <2>2. Append(v, x) \in Seq(PieceSet(C)) BY <1>1
  <2>3. Write(Append(v, x)) = Write(v) \o s BY <1>1, <1>2, WriteAppend
  <2>4. Unknown(Append(v, x)) <=> Unknown(v) BY <1>1, UnknownAppend
  <2>5. QED BY <2>1, <2>2, <2>3, <2>4
<1>6. QED BY <1>4, <1>5

\* A name the inner loop finds is known if it is one known letter.
LEMMA KnownName ==
    ASSUME NEW C, NEW p \in Seq(C), NEW i \in 1 .. Len(p), NEW n \in i + 1 .. Len(p) + 1
    PROVE  IsKnown(SubSeq(p, i + 1, n - 1)) <=> n = i + 2 /\ p[i + 1] \in Known
<1>1. Len(p) \in Nat OBVIOUS
<1>2. Len(SubSeq(p, i + 1, n - 1)) = n - 1 - i
  <2>1. /\ i + 1 \in Nat /\ n - 1 \in Nat /\ 1 <= i + 1 /\ i + 1 <= (n - 1) + 1
        /\ n - 1 <= Len(p) /\ (n - 1) - (i + 1) + 1 = n - 1 - i
    BY <1>1
  <2>2. QED BY <2>1, SubSeqType
<1>3. n = i + 2 => SubSeq(p, i + 1, n - 1)[1] = p[i + 1]
  <2>1. SUFFICES ASSUME n = i + 2 PROVE SubSeq(p, i + 1, n - 1)[1] = p[i + 1] OBVIOUS
  <2> DEFINE a == i + 1
             x == p[a]
  <2>2. n - 1 = a /\ a \in 1 .. Len(p) BY <1>1, <2>1
  <2>3. <<x>>[1] = x OBVIOUS
  <2> HIDE DEF a
  <2>4. SubSeq(p, a, a) = <<x>> BY <2>2, SubSeqOne
  <2> HIDE DEF x
  <2>5. SubSeq(p, a, n - 1)[1] = x BY <2>2, <2>3, <2>4
  <2>6. QED BY <2>5 DEF a, x
<1>4. n - 1 - i = 1 <=> n = i + 2 BY <1>1
<1>5. QED BY <1>2, <1>3, <1>4 DEF IsKnown

\* An item without a format is written as it was read ...
LEMMA WriteItem ==
    ASSUME NEW C, NEW p \in Seq(C), NEW i \in 1 .. Len(p), p[i] = Percent,
           NEW n \in i + 1 .. Len(p) + 1
    PROVE  WriteOne(Piece(SubSeq(p, i + 1, n - 1), <<>>, 1)) = SubSeq(p, i, n - 1)
<1>1. Len(p) \in Nat OBVIOUS
<1> DEFINE str == SubSeq(p, i + 1, n - 1)
<1>2. WriteOne(Piece(str, <<>>, 1)) = <<Percent>> \o str \o <<>> BY DEF WriteOne, Piece
<1>3. /\ i \in Nat /\ n - 1 \in Nat /\ 1 <= i /\ i <= i + 1 /\ i <= n - 1 /\ n - 1 <= Len(p)
  BY <1>1
<1>4. <<Percent>> \o str = SubSeq(p, i, n - 1)
  <2>1. <<Percent>> = SubSeq(p, i, i) BY SubSeqOne
  <2>2. QED BY <1>3, <2>1, SubSeqSplit
<1>5. SubSeq(p, i, n - 1) \in Seq(C) BY <1>3, SubSeqType
<1>6. SubSeq(p, i, n - 1) \o <<>> = SubSeq(p, i, n - 1) BY <1>5
<1>7. QED BY <1>2, <1>4, <1>6

\* ... and so is one with a format that is not empty.
LEMMA WriteFormat ==
    ASSUME NEW C, NEW p \in Seq(C), NEW i \in 1 .. Len(p), p[i] = Percent,
           NEW n \in i + 1 .. Len(p), p[n] = Open,
           NEW c \in n + 2 .. Len(p), p[c] = Close
    PROVE  WriteOne(Piece(SubSeq(p, i + 1, n - 1), SubSeq(p, n + 1, c - 1), 1)) = SubSeq(p, i, c)
<1>1. Len(p) \in Nat OBVIOUS
<1> DEFINE str == SubSeq(p, i + 1, n - 1)
           fmt == SubSeq(p, n + 1, c - 1)
<1>2. /\ i \in Nat /\ n \in Nat /\ c \in Nat /\ n - 1 \in Nat /\ c - 1 \in Nat /\ n + 1 \in Nat
      /\ 1 <= i /\ i <= i + 1 /\ i <= n - 1 /\ i <= (n - 1) + 1 /\ n - 1 <= c /\ 1 <= n /\ n <= n + 1
      /\ n <= c - 1 /\ c - 1 <= c /\ n <= (c - 1) + 1 /\ c <= Len(p) /\ n - 1 <= Len(p)
      /\ c - 1 <= Len(p) /\ 1 <= n + 1 /\ n + 1 <= (c - 1) + 1
      /\ (n - 1) + 1 = n /\ (c - 1) + 1 = c /\ n \in 1 .. Len(p) /\ c \in 1 .. Len(p)
  BY <1>1
<1>3. fmt # <<>>
  <2>1. Len(fmt) = (c - 1) - (n + 1) + 1 BY <1>2, SubSeqType
  <2>2. (c - 1) - (n + 1) + 1 # 0 BY <1>1
  <2>3. QED BY <2>1, <2>2
<1>4. WriteOne(Piece(str, fmt, 1)) = <<Percent>> \o str \o (<<Open>> \o fmt \o <<Close>>)
  BY <1>3 DEF WriteOne, Piece
<1>5. <<Percent>> \o str = SubSeq(p, i, n - 1)
  <2>1. <<Percent>> = SubSeq(p, i, i) BY SubSeqOne
  <2>2. QED BY <1>2, <2>1, SubSeqSplit
<1>6. <<Open>> \o fmt = SubSeq(p, n, c - 1)
  <2>1. <<Open>> = SubSeq(p, n, n) BY <1>2, SubSeqOne
  <2>2. QED BY <1>2, <2>1, SubSeqSplit
<1>7. SubSeq(p, n, c - 1) \o <<Close>> = SubSeq(p, n, c)
  <2>1. <<Close>> = SubSeq(p, (c - 1) + 1, c) BY <1>2, SubSeqOne
  <2>2. QED BY <1>2, <2>1, SubSeqSplit
<1>8. SubSeq(p, i, n - 1) \o SubSeq(p, (n - 1) + 1, c) = SubSeq(p, i, c) BY <1>2, SubSeqSplit
<1>9. QED BY <1>2, <1>4, <1>5, <1>6, <1>7, <1>8

-----------------------------------------------------------------------------
(* The outer loop.                                                          *)

\* What is known of the loop before each of its turns: it has met something that
\* is ill-formed, or all is well so far and nothing of the text is lost.
ParsedAt(p, i, s, v, e) ==
    \/ (e = TRUE \/ Unknown(v)) /\ ~ SecondBegins(p)
    \/ /\ e = FALSE /\ ~ Unknown(v) /\ Top(p, i)
       /\ NoEmptyFormat(p) => Write(v) \o s = SubSeq(p, 1, i - 1)

\* One position that is not as it should be makes a pattern ill-formed.
LEMMA NotFine ==
    ASSUME NEW C, NEW p \in Seq(C), NEW i \in 1 .. Len(p), ~ Fine(p, i)
    PROVE  ~ SecondBegins(p)
<1>1. DOMAIN p = 1 .. Len(p) OBVIOUS
<1>2. QED BY <1>1 DEF Fine, SecondBegins, Signs, Doubled

\* Pieces are written as a pattern.
LEMMA WriteType ==
    ASSUME NEW C, {Percent, Open, Close} \subseteq C, NEW v \in Seq(PieceSet(C))
    PROVE  Write(v) \in Seq(C)
<1>1. Piece(<<>>, <<>>, 0) \in PieceSet(C) BY DEF Piece, PieceSet
<1>2. QED BY <1>1, WriteAppend

\* What is written of a pattern grows by the part from i to m.
LEMMA Grows ==
    ASSUME NEW C, NEW p \in Seq(C), NEW i \in 1 .. Len(p), NEW m \in i .. Len(p)
    PROVE  SubSeq(p, 1, i - 1) \o SubSeq(p, i, m) = SubSeq(p, 1, m)
<1>1. Len(p) \in Nat OBVIOUS
<1> DEFINE b == i - 1
<1>2. b \in Nat /\ 1 \in Nat /\ m \in Nat /\ 1 <= 1 /\ 1 <= b + 1 /\ b <= m /\ m <= Len(p) /\ b + 1 = i
  BY <1>1
<1> HIDE DEF b
<1>3. SubSeq(p, 1, b) \o SubSeq(p, b + 1, m) = SubSeq(p, 1, m) BY <1>2, SubSeqSplit
<1>4. QED BY <1>2, <1>3 DEF b

\* ... for example by a character of text.
LEMMA TextWritten ==
    ASSUME NEW C, NEW p \in Seq(C), NEW i \in 1 .. Len(p), NEW w \in Seq(C), NEW s \in Seq(C),
           w \o s = SubSeq(p, 1, i - 1)
    PROVE  w \o Append(s, p[i]) = SubSeq(p, 1, i)
<1> DEFINE x == p[i]
           c == <<x>>
<1>1. Len(p) \in Nat /\ x \in C /\ i \in i .. Len(p) OBVIOUS
<1>2. c = SubSeq(p, i, i) BY SubSeqOne
<1> HIDE DEF x
<1>3. w \o Append(s, x) = (w \o s) \o c BY <1>1
<1>4. SubSeq(p, 1, i - 1) \o SubSeq(p, i, i) = SubSeq(p, 1, i) BY <1>1, Grows
<1> HIDE DEF c
<1>5. QED BY <1>2, <1>3, <1>4 DEF x

\* A turn that appends a character to the text.
LEMMA TextParsed ==
    ASSUME NEW C, {Percent, Open, Close} \subseteq C, NEW p \in Seq(C), NEW i \in 1 .. Len(p),
           NEW s \in Seq(C), NEW v \in Seq(PieceSet(C)), NEW e \in BOOLEAN,
           ParsedAt(p, i, s, v, e),
           p[i] # Percent \/ (i < Len(p) /\ p[i + 1] = Percent)
    PROVE  Append(s, p[i]) \in Seq(C) /\ ParsedAt(p, i + 1, Append(s, p[i]), v, e)
<1>1. Len(p) \in Nat /\ p[i] \in C /\ (i + 1) - 1 = i OBVIOUS
<1>2. Append(s, p[i]) \in Seq(C) BY <1>1
<1>3. ASSUME e = FALSE, ~ Unknown(v), Top(p, i),
             NoEmptyFormat(p) => Write(v) \o s = SubSeq(p, 1, i - 1)
      PROVE  ParsedAt(p, i + 1, Append(s, p[i]), v, e)
  <2>1. Top(p, i + 1) BY <1>3, TopText
  <2>2. Write(v) \in Seq(C) BY WriteType
  <2>3. NoEmptyFormat(p) => Write(v) \o Append(s, p[i]) = SubSeq(p, 1, i)
    BY <1>3, <2>2, TextWritten
  <2>4. QED BY <1>1, <1>3, <2>1, <2>3 DEF ParsedAt
<1>4. QED BY <1>2, <1>3 DEF ParsedAt

\* A turn that takes an item, which is written as the part of p from i to m - 1.
LEMMA ItemParsed ==
    ASSUME NEW C, {Percent, Open, Close} \subseteq C, NEW p \in Seq(C), NEW i \in 1 .. Len(p),
           NEW s \in Seq(C), NEW v \in Seq(PieceSet(C)), NEW e \in BOOLEAN,
           ParsedAt(p, i, s, v, e),
           NEW x \in PieceSet(C), x.type = 1, NEW m \in i + 1 .. Len(p) + 1,
           Top(p, i) => (Fine(p, i) <=> IsKnown(x.str)) /\ (Fine(p, i) => Top(p, m)),
           NoEmptyFormat(p) => WriteOne(x) = SubSeq(p, i, m - 1)
    PROVE  /\ Append(Flush(v, s), x) \in Seq(PieceSet(C))
           /\ ParsedAt(p, m, <<>>, Append(Flush(v, s), x), e)
<1>1. Len(p) \in Nat OBVIOUS
<1> DEFINE u == Flush(v, s)
           w == Append(u, x)
<1>2. u \in Seq(PieceSet(C)) /\ Write(u) = Write(v) \o s /\ (Unknown(u) <=> Unknown(v))
  BY FlushText
<1> HIDE DEF u
<1>3. w \in Seq(PieceSet(C)) BY <1>2
<1>4. Write(w) = Write(u) \o WriteOne(x) /\ Write(u) \in Seq(C) BY <1>2, WriteAppend
<1>5. Unknown(w) <=> Unknown(u) \/ ~ IsKnown(x.str) BY <1>2, UnknownAppend
<1>6. Write(w) \in Seq(C) BY <1>3, WriteType
<1> HIDE DEF w
<1>7. Write(w) \o <<>> = Write(w) BY <1>6
<1>8. ASSUME e = FALSE, ~ Unknown(v), Top(p, i),
             NoEmptyFormat(p) => Write(v) \o s = SubSeq(p, 1, i - 1)
      PROVE  ParsedAt(p, m, <<>>, w, e)
  <2>1. CASE ~ Fine(p, i)
    <3>1. ~ SecondBegins(p) BY <2>1, NotFine
    <3>2. Unknown(w) BY <1>5, <1>8, <2>1
    <3>3. QED BY <3>1, <3>2 DEF ParsedAt
  <2>2. CASE Fine(p, i)
    <3>1. Top(p, m) /\ ~ Unknown(w) BY <1>2, <1>5, <1>8, <2>2
    <3>2. ASSUME NoEmptyFormat(p) PROVE Write(w) = SubSeq(p, 1, m - 1)
      <4>1. m - 1 \in i .. Len(p) BY <1>1
      <4>2. SubSeq(p, 1, i - 1) \o SubSeq(p, i, m - 1) = SubSeq(p, 1, m - 1) BY <4>1, Grows
      <4>3. QED BY <1>2, <1>4, <1>8, <3>2, <4>2
    <3>3. QED BY <1>7, <1>8, <3>1, <3>2 DEF ParsedAt
  <2>3. QED BY <2>1, <2>2
<1>9. ASSUME (e = TRUE \/ Unknown(v)) /\ ~ SecondBegins(p) PROVE ParsedAt(p, m, <<>>, w, e)
  BY <1>2, <1>5, <1>9 DEF ParsedAt
<1>10. QED BY <1>3, <1>8, <1>9 DEF ParsedAt, w, u

\* The same of a state, and a state of its parts.
LoopInv(p, st) == ParsedAt(p, st.i, st.nstr, st.vec, st.error)
MakeState(i, s, v, e) == [i |-> i, nstr |-> s, vec |-> v, error |-> e]

\* A state of the loop and its parts.
LEMMA StateFields ==
    ASSUME NEW C, NEW N \in Nat, NEW st \in LoopStates(C, N)
    PROVE  /\ st = MakeState(st.i, st.nstr, st.vec, st.error)
           /\ st.i \in 1 .. N + 1 /\ st.nstr \in Seq(C) /\ st.vec \in Seq(PieceSet(C))
           /\ st.error \in BOOLEAN
BY DEF LoopStates, MakeState

\* What is put together of such components is a state, ...
LEMMA StateType ==
    ASSUME NEW C, NEW N \in Nat, NEW i \in 1 .. N + 1, NEW s \in Seq(C), NEW v \in Seq(PieceSet(C)),
           NEW e \in BOOLEAN
    PROVE  MakeState(i, s, v, e) \in LoopStates(C, N)
BY DEF LoopStates, MakeState

\* ... with these components.
LEMMA StateParts ==
    ASSUME NEW i, NEW s, NEW v, NEW e
    PROVE  /\ MakeState(i, s, v, e).i = i
           /\ MakeState(i, s, v, e).nstr = s
           /\ MakeState(i, s, v, e).vec = v
           /\ MakeState(i, s, v, e).error = e
BY DEF MakeState

\* What a turn makes of the state: a character of text ...
LEMMA TextTurn ==
    ASSUME NEW p, NEW i, NEW s, NEW v, NEW e, ~ (i > Len(p)),
           p[i] # Percent \/ (i < Len(p) /\ p[i + 1] = Percent)
    PROVE  CutStep(p, MakeState(i, s, v, e)) = MakeState(i + 1, Append(s, p[i]), v, e)
BY DEF CutStep, MakeState

\* ... or an item.
LEMMA ItemTurn ==
    ASSUME NEW p, NEW i, NEW s, NEW v, NEW e, ~ (i > Len(p)),
           p[i] = Percent, ~ (i < Len(p) /\ p[i + 1] = Percent),
           NEW str, NEW fmt, NEW n, Scan(p, i) = [str |-> str, fmt |-> fmt, status |-> 0, n |-> n]
    PROVE  CutStep(p, MakeState(i, s, v, e))
             = MakeState(n, <<>>, Append(Flush(v, s), Piece(str, fmt, 1)), e)
<1> DEFINE st == MakeState(i, s, v, e)
<1>1. st.i = i /\ st.nstr = s /\ st.vec = v /\ st.error = e BY StateParts
<1>2. /\ Scan(p, i).str = str /\ Scan(p, i).fmt = fmt /\ Scan(p, i).status = 0 /\ Scan(p, i).n = n
  OBVIOUS
<1> DEFINE w == Append(Flush(v, s), Piece(str, fmt, 1))
           z == <<>>
<1>3. CutStep(p, st) = [st EXCEPT !.i = n, !.nstr = z, !.vec = w]
  <2> HIDE DEF st
  <2> QED BY <1>1, <1>2 DEF CutStep, Resume
<1> HIDE DEF w, z
<1>4. [st EXCEPT !.i = n, !.nstr = z, !.vec = w] = MakeState(n, z, w, e)
  <2>1. [st EXCEPT !.i = n] = MakeState(n, s, v, e) BY DEF MakeState
  <2>2. [MakeState(n, s, v, e) EXCEPT !.nstr = z] = MakeState(n, z, v, e) BY DEF MakeState
  <2>3. [MakeState(n, z, v, e) EXCEPT !.vec = w] = MakeState(n, z, w, e) BY DEF MakeState
  <2> HIDE DEF st
  <2>4. QED BY <2>1, <2>2, <2>3
<1>5. QED BY <1>3, <1>4 DEF w, z

\* What takes the place of a format that is not closed.
ErrorPiece == Piece(<<"error">>, <<>>, 0)

\* A turn of the outer loop keeps the invariant and takes a character at least.
LEMMA Turn ==
    ASSUME NEW C, {Percent, Open, Close} \subseteq C, "error" \in C, NEW p \in Seq(C),
           NEW st \in LoopStates(C, Len(p)), LoopInv(p, st), st.i <= Len(p)
    PROVE  /\ CutStep(p, st) \in LoopStates(C, Len(p))
           /\ LoopInv(p, CutStep(p, st))
           /\ CutStep(p, st).i > st.i
<1> DEFINE i == st.i
           s == st.nstr
           v == st.vec
           e == st.error
           t == CutStep(p, st)
<1>1. Len(p) \in Nat OBVIOUS
<1>2. /\ st = MakeState(i, s, v, e) /\ s \in Seq(C) /\ v \in Seq(PieceSet(C)) /\ e \in BOOLEAN
      /\ i \in 1 .. Len(p) + 1
  BY <1>1, StateFields
<1>3. ParsedAt(p, i, s, v, e) BY DEF LoopInv
<1>4. i <= Len(p) OBVIOUS
<1> HIDE DEF i, s, v, e
<1>5. i \in 1 .. Len(p) /\ ~ (i > Len(p)) BY <1>1, <1>2, <1>4
<1>6. ASSUME NEW m \in i + 1 .. Len(p) + 1, NEW s1 \in Seq(C), NEW v1 \in Seq(PieceSet(C)),
             NEW e1 \in BOOLEAN, t = MakeState(m, s1, v1, e1), ParsedAt(p, m, s1, v1, e1)
      PROVE  t \in LoopStates(C, Len(p)) /\ LoopInv(p, t) /\ t.i > i
  <2> HIDE DEF t
  <2>1. m \in 1 .. Len(p) + 1 /\ m > i BY <1>1, <1>5
  <2>2. t \in LoopStates(C, Len(p)) BY <1>1, <1>6, <2>1, StateType
  <2>3. t.i = m /\ t.nstr = s1 /\ t.vec = v1 /\ t.error = e1 BY <1>6, StateParts
  <2>4. QED BY <1>6, <2>1, <2>2, <2>3 DEF LoopInv
<1>7. CASE p[i] # Percent \/ (i < Len(p) /\ p[i + 1] = Percent)
  <2>1. t = MakeState(i + 1, Append(s, p[i]), v, e) BY <1>2, <1>5, <1>7, TextTurn
  <2>2. Append(s, p[i]) \in Seq(C) /\ ParsedAt(p, i + 1, Append(s, p[i]), v, e)
    BY <1>2, <1>3, <1>5, <1>7, TextParsed
  <2>3. i + 1 \in i + 1 .. Len(p) + 1 BY <1>1, <1>5
  <2> HIDE DEF t
  <2>4. t \in LoopStates(C, Len(p)) /\ LoopInv(p, t) /\ t.i > i BY <1>2, <1>6, <2>1, <2>2, <2>3
  <2>5. QED BY <2>4 DEF t, i
<1>8. CASE p[i] = Percent /\ ~ (i < Len(p) /\ p[i + 1] = Percent)
  <2>9. SUFFICES t \in LoopStates(C, Len(p)) /\ LoopInv(p, t) /\ t.i > i BY DEF t, i
  <2>1. PICK n \in i + 1 .. Len(p) + 1 :
             /\ NameEnds(p, i, n)
             /\ \/ NoFormat(p, i, n)
                \/ OpenFormat(p, i, n)
                \/ \E c \in n + 1 .. Len(p) : ClosedFormat(p, i, n, c)
    BY <1>5, ScanResult
  <2> DEFINE str == SubSeq(p, i + 1, n - 1)
  <2>2. str \in Seq(C)
    <3>1. i + 1 \in Nat /\ n - 1 \in Nat /\ 1 <= i + 1 /\ i + 1 <= (n - 1) + 1 /\ n - 1 <= Len(p)
      BY <1>1, <1>5
    <3>2. QED BY <3>1, SubSeqType
  <2>3. IsKnown(str) <=> n = i + 2 /\ p[i + 1] \in Known BY <1>5, KnownName
  <2> HIDE DEF str
  <2> DEFINE Taken(fmt, m) ==
                /\ Scan(p, i) = [str |-> str, fmt |-> fmt, status |-> 0, n |-> m]
                /\ Top(p, i) => /\ Fine(p, i) <=> n = i + 2 /\ p[i + 1] \in Known
                                /\ Fine(p, i) => Top(p, m)
                /\ NoEmptyFormat(p) => WriteOne(Piece(str, fmt, 1)) = SubSeq(p, i, m - 1)
  <2>4. ASSUME NEW fmt \in Seq(C), NEW m \in i + 1 .. Len(p) + 1, Taken(fmt, m)
        PROVE  t \in LoopStates(C, Len(p)) /\ LoopInv(p, t) /\ t.i > i
    <3> DEFINE x == Piece(str, fmt, 1)
               w == Append(Flush(v, s), x)
    <3>1. x \in PieceSet(C) /\ x.type = 1 /\ x.str = str BY <2>2 DEF Piece, PieceSet
    <3>2. t = MakeState(m, <<>>, w, e) BY <1>2, <1>5, <1>8, <2>4, ItemTurn
    <3> HIDE DEF t, x
    <3>3. NoEmptyFormat(p) => WriteOne(x) = SubSeq(p, i, m - 1) BY <2>4 DEF x
    <3>4. Top(p, i) => (Fine(p, i) <=> IsKnown(x.str)) /\ (Fine(p, i) => Top(p, m))
      BY <2>3, <2>4, <3>1
    <3>5. w \in Seq(PieceSet(C)) /\ ParsedAt(p, m, <<>>, w, e)
      BY <1>2, <1>3, <1>5, <3>1, <3>3, <3>4, ItemParsed
    <3> HIDE DEF w
    <3>6. <<>> \in Seq(C) OBVIOUS
    <3>7. QED BY <1>2, <1>6, <3>2, <3>5, <3>6
  <2>5. CASE NoFormat(p, i, n)
    <3>1. ASSUME Top(p, i)
          PROVE  /\ Fine(p, i) <=> n = i + 2 /\ p[i + 1] \in Known
                 /\ Fine(p, i) => Top(p, n)
      BY <1>5, <1>8, <2>1, <2>5, <3>1, TopItem DEF NameEnds, NoFormat
    <3>2. WriteOne(Piece(str, <<>>, 1)) = SubSeq(p, i, n - 1) BY <1>5, <1>8, WriteItem DEF str
    <3>3. Scan(p, i) = [str |-> str, fmt |-> <<>>, status |-> 0, n |-> n]
      BY <2>5 DEF NoFormat, str
    <3>4. Taken(<<>>, n) BY <3>1, <3>2, <3>3
    <3>5. <<>> \in Seq(C) OBVIOUS
    <3> HIDE DEF t, Taken
    <3>6. QED BY <2>4, <3>4, <3>5
  <2>6. CASE \E c \in n + 1 .. Len(p) : ClosedFormat(p, i, n, c)
    <3>1. PICK c \in n + 1 .. Len(p) : ClosedFormat(p, i, n, c) BY <2>6
    <3>2. n \in i + 1 .. Len(p) BY <1>1, <1>5, <3>1 DEF ClosedFormat
    <3> DEFINE fmt == SubSeq(p, n + 1, c - 1)
               m == c + 1
    <3>3. fmt \in Seq(C)
      <4>1. n + 1 \in Nat /\ c - 1 \in Nat /\ 1 <= n + 1 /\ n + 1 <= (c - 1) + 1 /\ c - 1 <= Len(p)
        BY <1>1, <1>5, <3>2
      <4>2. QED BY <4>1, SubSeqType
    <3>4. ASSUME Top(p, i)
          PROVE  /\ Fine(p, i) <=> n = i + 2 /\ p[i + 1] \in Known
                 /\ Fine(p, i) => Top(p, m)
      BY <1>5, <1>8, <2>1, <3>1, <3>2, <3>4, TopFormat DEF NameEnds, ClosedFormat
    <3>5. m \in i + 1 .. Len(p) + 1 /\ m - 1 = c BY <1>1, <1>5, <3>2
    <3>6. ASSUME NoEmptyFormat(p) PROVE WriteOne(Piece(str, fmt, 1)) = SubSeq(p, i, m - 1)
      <4>1. c # n + 1
        <5>1. SUFFICES ASSUME c = n + 1 PROVE FALSE OBVIOUS
        <5>2. n \in 1 .. Len(p) - 1 BY <1>1, <1>5, <3>2, <5>1
        <5>3. QED BY <3>1, <3>6, <5>1, <5>2 DEF NoEmptyFormat, ClosedFormat
      <4>2. c \in n + 2 .. Len(p) BY <1>1, <3>2, <4>1
      <4>3. WriteOne(Piece(str, fmt, 1)) = SubSeq(p, i, c)
        BY <1>5, <1>8, <3>1, <3>2, <4>2, WriteFormat DEF str, ClosedFormat
      <4>4. QED BY <3>5, <4>3
    <3>7. Scan(p, i) = [str |-> str, fmt |-> fmt, status |-> 0, n |-> m]
      BY <3>1 DEF ClosedFormat, str
    <3> HIDE DEF fmt, m
    <3>8. Taken(fmt, m) BY <3>4, <3>6, <3>7
    <3> HIDE DEF t, Taken
    <3>9. QED BY <2>4, <3>3, <3>5, <3>8
  <2>7. CASE OpenFormat(p, i, n)
    <3> DEFINE w == Append(v, ErrorPiece)
    <3>1. \A c \in C : <<c>> \in Seq(C) OBVIOUS
    <3>2. ErrorPiece \in PieceSet(C) BY <3>1 DEF ErrorPiece, Piece, PieceSet
    <3>3. w \in Seq(PieceSet(C)) BY <1>2, <3>2
    <3>4. Scan(p, i).status = 1 BY <2>7 DEF OpenFormat
    <3>5. t = [st EXCEPT !.i = i + 1, !.error = TRUE, !.vec = w]
      BY <1>5, <1>8, <3>4 DEF CutStep, ErrorPiece, i, v
    <3> HIDE DEF t, w
    <3>6. i + 1 \in 1 .. Len(p) + 1 /\ i + 1 > i BY <1>1, <1>5
    <3>7. t \in LoopStates(C, Len(p)) BY <3>3, <3>5, <3>6 DEF LoopStates
    <3>8. t.i = i + 1 /\ t.error = TRUE BY <3>5 DEF LoopStates
    <3>9. n \in i + 1 .. Len(p) BY <1>1, <1>5, <2>7 DEF OpenFormat
    <3>10. Top(p, i) => ~ Fine(p, i)
      BY <1>5, <1>8, <2>1, <2>7, <3>9, NoItem DEF NameEnds, OpenFormat
    <3>11. Top(p, i) => ~ SecondBegins(p) BY <1>5, <3>10, NotFine
    <3>12. ~ SecondBegins(p) BY <1>3, <3>11 DEF ParsedAt
    <3>13. LoopInv(p, t) BY <3>8, <3>12 DEF LoopInv, ParsedAt
    <3>14. QED BY <3>6, <3>7, <3>8, <3>13
  <2> HIDE DEF t
  <2>8. QED BY <2>1, <2>5, <2>6, <2>7
<1>9. QED BY <1>7, <1>8

\* The state before the first turn.
LEMMA FirstState ==
    ASSUME NEW C, {Percent, Open, Close} \subseteq C, NEW p \in Seq(C)
    PROVE  /\ MakeState(1, <<>>, <<>>, FALSE) \in LoopStates(C, Len(p))
           /\ LoopInv(p, MakeState(1, <<>>, <<>>, FALSE))
<1> DEFINE z == <<>>
           f == FALSE
<1>1. Len(p) \in Nat OBVIOUS
<1>2. /\ z \in Seq(C) /\ z \in Seq(PieceSet(C)) /\ f \in BOOLEAN /\ f = FALSE
      /\ DOMAIN z = {} /\ Len(z) = 0
  OBVIOUS
<1>3. Write(z) = <<>>
  <2>1. [k \in DOMAIN z |-> WriteOne(z[k])] = <<>> OBVIOUS
  <2>2. QED BY <2>1 DEF Write, FlattenSeq
<1>4. Write(z) \o z = <<>> BY <1>3
<1>5. SubSeq(p, 1, 0) = <<>> /\ 1 - 1 = 0 OBVIOUS
<1> HIDE DEF z, f
<1>6. ~ Unknown(z) BY <1>2 DEF Unknown
<1>7. Top(p, 1)
  <2>1. 1 .. 1 - 1 = {} OBVIOUS
  <2>2. QED BY <2>1 DEF Top, InFormat
<1>8. ParsedAt(p, 1, z, z, f) BY <1>2, <1>4, <1>5, <1>6, <1>7 DEF ParsedAt
<1>9. 1 \in 1 .. Len(p) + 1 BY <1>1
<1>10. MakeState(1, z, z, f) \in LoopStates(C, Len(p)) BY <1>1, <1>2, <1>9, StateType
<1>11. LoopInv(p, MakeState(1, z, z, f)) BY <1>8, StateParts DEF LoopInv
<1>12. QED BY <1>10, <1>11 DEF z, f

\* The states the invariant allows, and those of them after k turns.
GoodStates(C, p) == {st \in LoopStates(C, Len(p)) : LoopInv(p, st)}
After(C, p, k) == {st \in GoodStates(C, p) : st.i > k \/ st.i > Len(p)}

\* A turn keeps the invariant and comes further.
LEMMA GoodTurn ==
    ASSUME NEW C, {Percent, Open, Close} \subseteq C, "error" \in C, NEW p \in Seq(C),
           NEW k \in 1 .. Len(p), NEW st \in GoodStates(C, p)
    PROVE  /\ CutStep(p, st) \in GoodStates(C, p)
           /\ st \in After(C, p, k - 1) => CutStep(p, st) \in After(C, p, k)
<1>1. Len(p) \in Nat OBVIOUS
<1>2. st \in LoopStates(C, Len(p)) /\ LoopInv(p, st) BY DEF GoodStates
<1>3. st.i \in 1 .. Len(p) + 1 BY <1>1, <1>2, StateFields
<1>4. CASE st.i <= Len(p)
  <2> DEFINE t == CutStep(p, st)
  <2>1. t \in LoopStates(C, Len(p)) /\ LoopInv(p, t) /\ t.i > st.i BY <1>2, <1>4, Turn
  <2> HIDE DEF t
  <2>2. t.i \in 1 .. Len(p) + 1 BY <1>1, <2>1, StateFields
  <2>3. t \in GoodStates(C, p) BY <2>1 DEF GoodStates
  <2>4. (st.i > k - 1 \/ st.i > Len(p)) => t.i > k BY <1>1, <1>3, <1>4, <2>1, <2>2
  <2>5. QED BY <2>3, <2>4 DEF After, t
<1>5. CASE st.i > Len(p)
  <2>1. CutStep(p, st) = st BY <1>5 DEF CutStep
  <2>2. QED BY <1>5, <2>1 DEF After
<1>6. QED BY <1>1, <1>3, <1>4, <1>5

\* The outer loop ends, behind the last character, and keeps the invariant.
LEMMA TurnsEnd ==
    ASSUME NEW C, {Percent, Open, Close} \subseteq C, "error" \in C, NEW p \in Seq(C)
    PROVE  /\ Turns(p)[Len(p)] \in LoopStates(C, Len(p))
           /\ LoopInv(p, Turns(p)[Len(p)])
           /\ Turns(p)[Len(p)].i = Len(p) + 1
<1> DEFINE N == Len(p)
           S == GoodStates(C, p)
           F == [k \in 1 .. N |-> [st \in S |-> CutStep(p, st)]]
           s0 == MakeState(1, <<>>, <<>>, FALSE)
<1>1. N \in Nat OBVIOUS
<1>2. s0 \in S BY FirstState DEF GoodStates
<1>3. s0.i = 1 BY DEF MakeState
<1> HIDE DEF S, s0
<1>4. ASSUME NEW k \in 1 .. N, NEW st \in S PROVE CutStep(p, st) \in S BY GoodTurn DEF S
<1>5. F \in [1 .. N -> [S -> S]] BY <1>4
<1>6. \A k \in 1 .. N : \A st \in S : F[k][st] = CutStep(p, st) OBVIOUS
<1> HIDE DEF F, N
<1>7. PICK g \in [0 .. N -> S] : Loop(g, N, s0, F) BY <1>1, <1>2, <1>5, LoopExists
<1>8. \A k \in 1 .. N : k - 1 \in 0 .. N /\ g[k - 1] \in S
  <2>1. \A k \in 1 .. N : k - 1 \in 0 .. N BY <1>1
  <2>2. QED BY <2>1
<1>9. ASSUME NEW k \in 0 .. N PROVE g[k] = IF k = 0 THEN s0 ELSE CutStep(p, g[k - 1])
  <2>1. CASE k = 0 BY <1>1, <1>7, <2>1 DEF Loop
  <2>2. CASE k # 0
    <3>1. k \in 1 .. N BY <1>1, <2>2
    <3>2. g[k] = F[k][g[k - 1]] BY <1>7, <2>2 DEF Loop
    <3>3. QED BY <1>6, <1>8, <2>2, <3>1, <3>2
  <2>3. QED BY <2>1, <2>2
<1>10. g = [k \in 0 .. N |-> IF k = 0 THEN s0 ELSE CutStep(p, g[k - 1])]
  <2>1. g = [k \in 0 .. N |-> g[k]] OBVIOUS
  <2>2. QED BY <1>9, <2>1
<1>11. Turns(p) = [k \in 0 .. N |-> IF k = 0 THEN s0 ELSE CutStep(p, Turns(p)[k - 1])]
  BY <1>10 DEF Turns, N, s0, MakeState
<1> DEFINE T == Turns(p)
           A == [k \in 0 .. N |-> After(C, p, k)]
<1> HIDE DEF T
<1>12. 0 \in 0 .. N /\ N \in 0 .. N /\ \A k \in 1 .. N : k \in 0 .. N /\ k # 0 BY <1>1
<1>13. T[0] = s0 /\ \A k \in 1 .. N : T[k] = CutStep(p, T[k - 1]) BY <1>11, <1>12 DEF T
<1>14. T[0] \in A[0] BY <1>2, <1>3, <1>12, <1>13 DEF After, S
<1>15. ASSUME NEW k \in 1 .. N, T[k - 1] \in A[k - 1] PROVE T[k] \in A[k]
  <2>1. T[k - 1] \in After(C, p, k - 1) BY <1>8, <1>15
  <2>2. T[k - 1] \in GoodStates(C, p) BY <2>1 DEF After
  <2>3. CutStep(p, T[k - 1]) \in After(C, p, k) BY <2>1, <2>2, GoodTurn DEF N
  <2>4. QED BY <1>12, <1>13, <2>3
<1>16. N \in Nat /\ T[N] \in A[N]
  <2> HIDE DEF A
  <2>1. \A k \in 0 .. N : T[k] \in A[k] BY <1>1, <1>14, <1>15, LoopInvariant
  <2>2. QED BY <1>1, <1>12, <2>1
<1>17. T[N] \in GoodStates(C, p) /\ T[N].i > N BY <1>12, <1>16 DEF After, N
<1>18. T[N] \in LoopStates(C, N) /\ LoopInv(p, T[N]) BY <1>17 DEF GoodStates, N
<1>19. T[N].i \in 1 .. N + 1 BY <1>1, <1>18, StateFields
<1>20. T[N].i = N + 1 BY <1>1, <1>17, <1>19
<1>21. QED BY <1>18, <1>20 DEF T, N

\* Every pattern is parsed right.
LEMMA EveryPattern ==
    ASSUME NEW C, {Percent, Open, Close} \subseteq C, "error" \in C, NEW p \in Seq(C)
    PROVE  ParsedRight(p)
<1> DEFINE st == Turns(p)[Len(p)]
           vec == Flush(st.vec, st.nstr)
<1>1. Len(p) \in Nat /\ DOMAIN p = 1 .. Len(p) OBVIOUS
<1>2. st \in LoopStates(C, Len(p)) /\ LoopInv(p, st) /\ st.i = Len(p) + 1 BY TurnsEnd
<1>3. /\ Parse(p).items = vec
      /\ Parse(p).m_error <=> st.error = TRUE \/ Unknown(vec)
  BY DEF Parse, Unknown
<1> HIDE DEF st
<1>4. st.nstr \in Seq(C) /\ st.vec \in Seq(PieceSet(C)) /\ st.error \in BOOLEAN
  BY <1>1, <1>2, StateFields
<1>5. Write(vec) = Write(st.vec) \o st.nstr /\ (Unknown(vec) <=> Unknown(st.vec))
  BY <1>4, FlushText
<1> HIDE DEF vec
<1>6. ParsedAt(p, Len(p) + 1, st.nstr, st.vec, st.error) BY <1>2 DEF LoopInv
<1>7. ASSUME Top(p, Len(p) + 1) PROVE SecondBegins(p)
  <2>1. \A j \in 1 .. Len(p) : Fine(p, j) BY <1>1, <1>7 DEF Top
  <2>2. QED BY <1>1, <2>1 DEF SecondBegins, Signs, Doubled, Fine
<1>8. SubSeq(p, 1, (Len(p) + 1) - 1) = p BY <1>1
<1>9. Parse(p).m_error <=> ~ SecondBegins(p) BY <1>3, <1>5, <1>6, <1>7 DEF ParsedAt
<1>10. ~ Parse(p).m_error /\ NoEmptyFormat(p) => Write(Parse(p).items) = p
  BY <1>3, <1>5, <1>6, <1>8 DEF ParsedAt
<1>11. ~ (\E i \in Signs(p) : Doubled(p, i)) => (SecondBegins(p) <=> WellFormed(p))
  BY DEF SecondBegins, WellFormed
<1>12. QED BY <1>9, <1>10, <1>11 DEF ParsedRight
================================================================================

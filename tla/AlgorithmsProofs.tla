----------------------------- MODULE AlgorithmsProofs -----------------------------
(***************************************************************************)
(* What TLAPS proves of the algorithms: log patterns of any length are     *)
(* parsed right, the order of addresses and the broadcast addresses are    *)
(* right for addresses and netmasks of any content, Lookup reads what      *)
(* insert prints of any IPv6 address, and any file that is loaded into any *)
(* registry is decided by its last members and restored when it is saved.  *)
(***************************************************************************)
EXTENDS Algorithms, LogFormatterProofs, FiniteSetTheorems

-----------------------------------------------------------------------------
(* Log patterns.                                                            *)

\* LogFormatter::init refuses a pattern exactly if it is ill-formed (with doubled
\* signs, if SecondBegins fails), and cuts an accepted one without losing, doubling
\* or moving a character: any pattern, of any length and over any characters.
THEOREM PatternsOfLogs == Spec => []PatternsParsed
<1>1. ASSUME NEW p \in Patterns PROVE ParsedRight(p)
  <2> DEFINE R == Range(p)
             C == R \union {Percent, Open, Close, "error"}
  <2>1. p \in Seq(R) BY PatternsAssumption
  <2> HIDE DEF R
  <2>2. R \subseteq C /\ {Percent, Open, Close} \subseteq C /\ "error" \in C OBVIOUS
  <2> HIDE DEF C
  <2>3. p \in Seq(C) BY <2>1, <2>2
  <2>4. QED BY <2>2, <2>3, EveryPattern
<1>2. Init => PatternsParsed BY <1>1 DEF Init, PatternsParsed
<1>3. PatternsParsed /\ [Next]_<<kind, input>> => PatternsParsed' BY DEF Next, PatternsParsed
<1>4. QED BY <1>2, <1>3, PTL DEF Spec

-----------------------------------------------------------------------------
(* Bytes.                                                                   *)

\* A set of bit positions that is not empty has a highest one.
LEMMA HighestBit ==
    ASSUME NEW S \in SUBSET (0 .. 7), S # {}
    PROVE  \E k \in S : \A j \in S : j <= k
<1>1. CASE 7 \in S BY <1>1
<1>2. CASE 7 \notin S /\ 6 \in S BY <1>2
<1>3. CASE 7 \notin S /\ 6 \notin S /\ 5 \in S BY <1>3
<1>4. CASE S \subseteq 0 .. 4 /\ 4 \in S BY <1>4
<1>5. CASE S \subseteq 0 .. 3 /\ 3 \in S BY <1>5
<1>6. CASE S \subseteq 0 .. 2 /\ 2 \in S BY <1>6
<1>7. CASE S \subseteq 0 .. 1 /\ 1 \in S BY <1>7
<1>8. CASE S \subseteq {0}
  <2>1. 0 \in S /\ \A j \in S : j = 0 BY <1>8
  <2>2. QED BY <2>1
<1>9. QED BY <1>1, <1>2, <1>3, <1>4, <1>5, <1>6, <1>7, <1>8

\* Different bytes are one less than the other ...
LEMMA ByteTotal ==
    ASSUME NEW b \in Byte, NEW c \in Byte, b # c
    PROVE  ByteLess(b, c) \/ ByteLess(c, b)
<1> DEFINE S == (b \ c) \union (c \ b)
<1>1. S \in SUBSET (0 .. 7) /\ S # {} BY DEF Byte
<1>2. PICK k \in S : \A j \in S : j <= k BY <1>1, HighestBit
<1>3. QED BY <1>2 DEF ByteLess

\* ... not both ...
LEMMA ByteAsymmetric ==
    ASSUME NEW b \in Byte, NEW c \in Byte, ByteLess(b, c)
    PROVE  ~ ByteLess(c, b) /\ b # c
<1>1. PICK k \in c \ b : \A j \in (b \ c) \union (c \ b) : j <= k BY DEF ByteLess
<1>2. k \in Int BY DEF Byte
<1>3. ASSUME NEW l \in b \ c, \A j \in (c \ b) \union (b \ c) : j <= l PROVE FALSE
  <2>1. l \in Int /\ l <= k /\ k <= l BY <1>1, <1>3 DEF Byte
  <2>2. QED BY <1>1, <1>2, <1>3, <2>1
<1>4. QED BY <1>1, <1>3 DEF ByteLess

\* ... and less is transitive.
LEMMA ByteTransitive ==
    ASSUME NEW b \in Byte, NEW c \in Byte, NEW d \in Byte, ByteLess(b, c), ByteLess(c, d)
    PROVE  ByteLess(b, d)
<1>1. PICK k \in c \ b : \A j \in (b \ c) \union (c \ b) : j <= k BY DEF ByteLess
<1>2. PICK l \in d \ c : \A j \in (c \ d) \union (d \ c) : j <= l BY DEF ByteLess
<1>3. k \in 0 .. 7 /\ l \in 0 .. 7 BY DEF Byte
<1>4. k # l OBVIOUS
<1>5. CASE k > l
  <2>1. k \in d \ b BY <1>2, <1>3, <1>5
  <2>2. \A j \in (b \ d) \union (d \ b) : j <= k
    BY <1>1, <1>2, <1>3, <1>5 DEF Byte
  <2>3. QED BY <2>1, <2>2 DEF ByteLess
<1>6. CASE l > k
  <2>1. l \in d \ b BY <1>1, <1>3, <1>6
  <2>2. \A j \in (b \ d) \union (d \ b) : j <= l
    BY <1>1, <1>2, <1>3, <1>6 DEF Byte
  <2>3. QED BY <2>1, <2>2 DEF ByteLess
<1>7. QED BY <1>3, <1>4, <1>5, <1>6

-----------------------------------------------------------------------------
(* Memory.                                                                  *)

\* Of two stretches of n bytes one is less or they are equal, and only one.
LEMMA MemTrichotomy ==
    ASSUME NEW s \in Seq(Byte), NEW t \in Seq(Byte), NEW n \in Nat, n <= Len(s), n <= Len(t)
    PROVE  /\ (\A k \in 1 .. n : s[k] = t[k]) <=> ~ MemLess(s, t, n) /\ ~ MemLess(t, s, n)
           /\ ~ (MemLess(s, t, n) /\ MemLess(t, s, n))
<1>0. \A k \in 1 .. n : s[k] \in Byte /\ t[k] \in Byte OBVIOUS
<1>1. ASSUME \A k \in 1 .. n : s[k] = t[k] PROVE ~ MemLess(s, t, n) /\ ~ MemLess(t, s, n)
  <2>1. \A b \in Byte : ~ ByteLess(b, b) BY ByteAsymmetric
  <2>2. \A k \in 1 .. n : ~ ByteLess(s[k], t[k]) /\ ~ ByteLess(t[k], s[k]) BY <1>0, <1>1, <2>1
  <2>3. QED BY <2>2 DEF MemLess
<1>2. ASSUME NEW i \in 1 .. n, s[i] # t[i] PROVE MemLess(s, t, n) \/ MemLess(t, s, n)
  <2> DEFINE D == {k \in 1 .. n : s[k] # t[k]}
  <2>0. D \subseteq Nat /\ D # {} BY <1>2
  <2>4. PICK k \in D : \A j \in D : k <= j
    <3> HIDE DEF D
    <3> QED BY <2>0, LeastOf
  <2>1. k \in 1 .. n /\ s[k] # t[k] /\ \A j \in 1 .. k - 1 : s[j] = t[j] BY <2>4
  <2>2. ByteLess(s[k], t[k]) \/ ByteLess(t[k], s[k]) BY <1>0, <2>1, ByteTotal
  <2>3. QED BY <2>1, <2>2 DEF MemLess
<1>3. ASSUME MemLess(s, t, n), MemLess(t, s, n) PROVE FALSE
  <2>1. PICK k \in 1 .. n : ByteLess(s[k], t[k]) /\ \A j \in 1 .. k - 1 : s[j] = t[j]
    BY <1>3 DEF MemLess
  <2>2. PICK l \in 1 .. n : ByteLess(t[l], s[l]) /\ \A j \in 1 .. l - 1 : t[j] = s[j]
    BY <1>3 DEF MemLess
  <2>3. s[k] # t[k] /\ s[l] # t[l] BY <1>0, <2>1, <2>2, ByteAsymmetric
  <2>4. k = l BY <2>1, <2>2, <2>3
  <2>5. QED BY <1>0, <2>1, <2>2, <2>4, ByteAsymmetric
<1>4. QED BY <1>1, <1>2, <1>3

\* SubSeq compares byte by byte.
LEMMA MemEqualBytes ==
    ASSUME NEW s \in Seq(Byte), NEW t \in Seq(Byte), NEW n \in Nat, n <= Len(s), n <= Len(t)
    PROVE  MemEqual(s, t, n) <=> \A k \in 1 .. n : s[k] = t[k]
<1>1. /\ SubSeq(s, 1, n) = [k \in 1 .. n |-> s[k]]
      /\ SubSeq(t, 1, n) = [k \in 1 .. n |-> t[k]]
  OBVIOUS
<1>2. QED BY <1>1 DEF MemEqual

-----------------------------------------------------------------------------
(* Addresses.                                                               *)

\* n bytes.
Bytes(s, n) == s \in Seq(Byte) /\ Len(s) = n

\* A function on 1 .. n is n bytes, ...
LEMMA TupleIsBytes ==
    ASSUME NEW n \in Nat, NEW f \in [1 .. n -> Byte]
    PROVE  Bytes(f, n)
BY DEF Bytes

\* ... bytes behind bytes are bytes, ...
LEMMA ConcatBytes ==
    ASSUME NEW s, NEW t, NEW n \in Nat, NEW m \in Nat, NEW r \in Nat,
           Bytes(s, n), Bytes(t, m), r = n + m
    PROVE  Bytes(s \o t, r)
BY DEF Bytes

\* ... zeros are, ...
LEMMA ZerosBytes ==
    ASSUME NEW n \in Nat
    PROVE  Bytes(Zeros(n), n)
<1>1. Zeros(n) \in [1 .. n -> Byte] BY DEF Zeros, Byte
<1>2. QED BY <1>1, TupleIsBytes

\* ... and the family is two of them.
LEMMA FamilyIsBytes ==
    ASSUME NEW f
    PROVE  Bytes(FamilyBytes(f), 2)
<1>1. FamilyBytes(f) \in [1 .. 2 -> Byte] BY DEF FamilyBytes, Byte
<1>2. QED BY <1>1, TupleIsBytes

\* getAddr() has the getAddrLen() bytes that are compared.
LEMMA MemoryType ==
    ASSUME NEW a, IsAddress(a)
    PROVE  a.len \in Nat /\ Bytes(Memory(a), a.len)
<1>1. Bytes(FamilyBytes(a.family), 2) BY FamilyIsBytes
<1>2. CASE a \in [family : {"v4"}, port : [1 .. 2 -> Byte], addr : [1 .. 4 -> Byte], len : {16}]
  <2>1. a.family = "v4" /\ a.len = 16 BY <1>2
  <2>2. Bytes(a.port, 2) /\ Bytes(a.addr, 4) BY <1>2, TupleIsBytes
  <2>3. Bytes(Zeros(8), 8) BY ZerosBytes
  <2>4. Bytes(FamilyBytes(a.family) \o a.port, 4) BY <1>1, <2>2, ConcatBytes
  <2>5. Bytes(a.addr \o Zeros(8), 12) BY <2>2, <2>3, ConcatBytes
  <2>6. Bytes(FamilyBytes(a.family) \o a.port \o (a.addr \o Zeros(8)), 16)
    BY <2>4, <2>5, ConcatBytes
  <2>7. QED BY <2>1, <2>6 DEF Memory
<1>3. CASE a \in [family : {"v6"}, port : [1 .. 2 -> Byte], addr : [1 .. 16 -> Byte], len : {28}]
  <2>1. a.family = "v6" /\ a.len = 28 BY <1>3
  <2>2. Bytes(a.port, 2) /\ Bytes(a.addr, 16) BY <1>3, TupleIsBytes
  <2>3. Bytes(Zeros(4), 4) BY ZerosBytes
  <2>4. Bytes(FamilyBytes(a.family) \o a.port, 4) BY <1>1, <2>2, ConcatBytes
  <2>5. Bytes(Zeros(4) \o a.addr, 20) BY <2>2, <2>3, ConcatBytes
  <2>6. Bytes(Zeros(4) \o a.addr \o Zeros(4), 24) BY <2>3, <2>5, ConcatBytes
  <2>7. Bytes(FamilyBytes(a.family) \o a.port \o (Zeros(4) \o a.addr \o Zeros(4)), 28)
    BY <2>4, <2>6, ConcatBytes
  <2>8. QED BY <2>1, <2>7 DEF Memory
<1>4. ASSUME NEW n \in Nat, a.family \in {"unix", "packet"}, a.port = <<>>,
             Bytes(a.addr, n), a.len = 2 + n
      PROVE  a.len \in Nat /\ Bytes(Memory(a), a.len)
  <2>1. Bytes(a.port, 0) BY <1>4 DEF Bytes
  <2>2. Bytes(FamilyBytes(a.family) \o a.port, 2) BY <1>1, <2>1, ConcatBytes
  <2>3. a.len \in Nat BY <1>4
  <2>4. Bytes(FamilyBytes(a.family) \o a.port \o a.addr, a.len)
    BY <1>4, <2>2, <2>3, ConcatBytes
  <2>5. a.family # "v4" /\ a.family # "v6" BY <1>4
  <2>6. QED BY <2>3, <2>4, <2>5 DEF Memory
<1>5. CASE /\ a \in [family : {"unix"}, port : {<<>>}, addr : Seq(Byte), len : Nat]
           /\ a.len = 2 + Len(a.addr)
  BY <1>4, <1>5 DEF Bytes
<1>6. CASE a \in [family : {"unix", "packet"}, port : {<<>>}, addr : [1 .. 14 -> Byte], len : {16}]
  <2>1. a.family \in {"unix", "packet"} /\ a.port = <<>> BY <1>6
  <2>2. Bytes(a.addr, 14) BY <1>6, TupleIsBytes
  <2>3. a.len = 2 + 14 BY <1>6
  <2>4. QED BY <1>4, <2>1, <2>2, <2>3
<1>7. QED BY <1>2, <1>3, <1>5, <1>6 DEF IsAddress

\* std::min of two lengths.
LEMMA MinOfTwo ==
    ASSUME NEW m \in Nat, NEW n \in Nat
    PROVE  Min({m, n}) = IF m <= n THEN m ELSE n
BY DEF Min

\* Address::operator< in terms of single bytes.
LEMMA LessBytes ==
    ASSUME NEW a, NEW b, IsAddress(a), IsAddress(b)
    PROVE  LET n == IF a.len <= b.len THEN a.len ELSE b.len
           IN Less(a, b) <=> \/ MemLess(Memory(a), Memory(b), n)
                             \/ /\ \A k \in 1 .. n : Memory(a)[k] = Memory(b)[k]
                                /\ a.len < b.len
<1>1. a.len \in Nat /\ Memory(a) \in Seq(Byte) /\ a.len = Len(Memory(a))
  BY MemoryType DEF Bytes
<1>2. b.len \in Nat /\ Memory(b) \in Seq(Byte) /\ b.len = Len(Memory(b))
  BY MemoryType DEF Bytes
<1> DEFINE n == IF a.len <= b.len THEN a.len ELSE b.len
<1>3. Min({a.len, b.len}) = n BY <1>1, <1>2, MinOfTwo
<1>4. n \in Nat /\ n <= Len(Memory(a)) /\ n <= Len(Memory(b)) BY <1>1, <1>2
<1> HIDE DEF n
<1>5. MemEqual(Memory(a), Memory(b), n) <=> \A k \in 1 .. n : Memory(a)[k] = Memory(b)[k]
  BY <1>1, <1>2, <1>4, MemEqualBytes
<1>6. Less(a, b) <=> \/ MemLess(Memory(a), Memory(b), n)
                     \/ MemEqual(Memory(a), Memory(b), n) /\ a.len < b.len
  BY <1>3 DEF Less
<1>7. QED BY <1>5, <1>6 DEF n

\* operator== is what operator< does not tell apart, and operator< is
\* asymmetric.
LEMMA LessOrEqual ==
    ASSUME NEW a, NEW b, IsAddress(a), IsAddress(b)
    PROVE  /\ Equal(a, b) <=> ~ Less(a, b) /\ ~ Less(b, a)
           /\ ~ (Less(a, b) /\ Less(b, a))
<1>1. a.len \in Nat /\ Memory(a) \in Seq(Byte) /\ a.len = Len(Memory(a))
  BY MemoryType DEF Bytes
<1>2. b.len \in Nat /\ Memory(b) \in Seq(Byte) /\ b.len = Len(Memory(b))
  BY MemoryType DEF Bytes
<1> DEFINE n == IF a.len <= b.len THEN a.len ELSE b.len
           Same == \A k \in 1 .. n : Memory(a)[k] = Memory(b)[k]
           AB == MemLess(Memory(a), Memory(b), n)
           BA == MemLess(Memory(b), Memory(a), n)
<1>3. n \in Nat /\ n <= Len(Memory(a)) /\ n <= Len(Memory(b)) BY <1>1, <1>2
<1>4. Less(a, b) <=> AB \/ (Same /\ a.len < b.len) BY LessBytes
<1>5. Less(b, a) <=> BA \/ (Same /\ b.len < a.len)
  <2>1. n = IF b.len <= a.len THEN b.len ELSE a.len BY <1>1, <1>2
  <2>2. Less(b, a) <=> BA \/ ((\A k \in 1 .. n : Memory(b)[k] = Memory(a)[k]) /\ b.len < a.len)
    <3> HIDE DEF n
    <3> QED BY <2>1, LessBytes
  <2>3. QED BY <2>2
<1>6. Equal(a, b) <=> a.len = b.len /\ Same
  <2>1. ASSUME a.len = b.len PROVE n = a.len BY <1>1, <2>1
  <2>2. MemEqual(Memory(a), Memory(b), n) <=> Same
    <3> HIDE DEF n
    <3> QED BY <1>1, <1>2, <1>3, MemEqualBytes
  <2> HIDE DEF n, Same
  <2>3. QED BY <2>1, <2>2 DEF Equal
<1>7. (Same <=> ~ AB /\ ~ BA) /\ ~ (AB /\ BA)
  <2> HIDE DEF n
  <2> QED BY <1>1, <1>2, <1>3, MemTrichotomy
<1> HIDE DEF n, Same, AB, BA
<1>8. QED BY <1>1, <1>2, <1>4, <1>5, <1>6, <1>7

\* operator< is transitive, also when the three addresses have different lengths.
LEMMA LessTransitive ==
    ASSUME NEW a, NEW b, NEW c, IsAddress(a), IsAddress(b), IsAddress(c),
           Less(a, b), Less(b, c)
    PROVE  Less(a, c)
<1> DEFINE A == Memory(a)
           B == Memory(b)
           C == Memory(c)
           Least(m, n) == IF m <= n THEN m ELSE n
<1>1. /\ a.len \in Nat /\ b.len \in Nat /\ c.len \in Nat
      /\ \A k \in 1 .. a.len : A[k] \in Byte
      /\ \A k \in 1 .. b.len : B[k] \in Byte
      /\ \A k \in 1 .. c.len : C[k] \in Byte
  BY MemoryType DEF Bytes
<1>2. \/ MemLess(A, B, Least(a.len, b.len))
      \/ (\A k \in 1 .. Least(a.len, b.len) : A[k] = B[k]) /\ a.len < b.len
  BY LessBytes
<1>3. \/ MemLess(B, C, Least(b.len, c.len))
      \/ (\A k \in 1 .. Least(b.len, c.len) : B[k] = C[k]) /\ b.len < c.len
  BY LessBytes
<1>4. SUFFICES \/ MemLess(A, C, Least(a.len, c.len))
               \/ (\A k \in 1 .. Least(a.len, c.len) : A[k] = C[k]) /\ a.len < c.len
  BY LessBytes
<1> HIDE DEF A, B, C
<1>5. ASSUME NEW k \in 1 .. Least(a.len, b.len), ByteLess(A[k], B[k]),
             \A j \in 1 .. k - 1 : A[j] = B[j],
             NEW l \in 1 .. Least(b.len, c.len), ByteLess(B[l], C[l]),
             \A j \in 1 .. l - 1 : B[j] = C[j]
      PROVE  MemLess(A, C, Least(a.len, c.len))
  <2>1. CASE k < l
    <3>1. ByteLess(A[k], C[k]) /\ \A j \in 1 .. k - 1 : A[j] = C[j] BY <1>1, <1>5, <2>1
    <3>2. k \in 1 .. Least(a.len, c.len) BY <1>1, <2>1
    <3>3. QED BY <3>1, <3>2 DEF MemLess
  <2>2. CASE l < k
    <3>1. ByteLess(A[l], C[l]) /\ \A j \in 1 .. l - 1 : A[j] = C[j] BY <1>1, <1>5, <2>2
    <3>2. l \in 1 .. Least(a.len, c.len) BY <1>1, <2>2
    <3>3. QED BY <3>1, <3>2 DEF MemLess
  <2>3. CASE k = l
    <3>1. A[k] \in Byte /\ B[k] \in Byte /\ C[k] \in Byte BY <1>1, <2>3
    <3>2. ByteLess(A[k], C[k]) BY <1>5, <2>3, <3>1, ByteTransitive
    <3>3. \A j \in 1 .. k - 1 : A[j] = C[j] BY <1>5, <2>3
    <3>4. k \in 1 .. Least(a.len, c.len) BY <1>1, <2>3
    <3>5. QED BY <3>2, <3>3, <3>4 DEF MemLess
  <2>4. QED BY <1>1, <2>1, <2>2, <2>3
<1>6. ASSUME NEW k \in 1 .. Least(a.len, b.len), ByteLess(A[k], B[k]),
             \A j \in 1 .. k - 1 : A[j] = B[j],
             \A j \in 1 .. Least(b.len, c.len) : B[j] = C[j], b.len < c.len
      PROVE  MemLess(A, C, Least(a.len, c.len))
  <2>1. ByteLess(A[k], C[k]) /\ \A j \in 1 .. k - 1 : A[j] = C[j] BY <1>1, <1>6
  <2>2. k \in 1 .. Least(a.len, c.len) BY <1>1, <1>6
  <2>3. QED BY <2>1, <2>2 DEF MemLess
<1>7. ASSUME \A j \in 1 .. Least(a.len, b.len) : A[j] = B[j], a.len < b.len,
             NEW l \in 1 .. Least(b.len, c.len), ByteLess(B[l], C[l]),
             \A j \in 1 .. l - 1 : B[j] = C[j]
      PROVE  \/ MemLess(A, C, Least(a.len, c.len))
             \/ (\A k \in 1 .. Least(a.len, c.len) : A[k] = C[k]) /\ a.len < c.len
  <2>1. CASE l <= a.len
    <3>1. ByteLess(A[l], C[l]) /\ \A j \in 1 .. l - 1 : A[j] = C[j] BY <1>1, <1>7, <2>1
    <3>2. l \in 1 .. Least(a.len, c.len) BY <1>1, <2>1
    <3>3. QED BY <3>1, <3>2 DEF MemLess
  <2>2. CASE l > a.len BY <1>1, <1>7, <2>2
  <2>3. QED BY <1>1, <2>1, <2>2
<1>8. ASSUME \A j \in 1 .. Least(a.len, b.len) : A[j] = B[j], a.len < b.len,
             \A j \in 1 .. Least(b.len, c.len) : B[j] = C[j], b.len < c.len
      PROVE  (\A k \in 1 .. Least(a.len, c.len) : A[k] = C[k]) /\ a.len < c.len
  BY <1>1, <1>8
<1> HIDE DEF Least
<1>9. QED BY <1>2, <1>3, <1>5, <1>6, <1>7, <1>8 DEF MemLess

\* Addresses can be keys of std::map: operator< and operator== of any addresses
\* the constructors make, of any content and length, are a strict total order.
THEOREM OrderOfAddresses == Spec => []AddressesOrdered
<1>1. Init => AddressesOrdered
  BY AddressesAssumption, LessOrEqual, LessTransitive DEF Init, AddressesOrdered, Ordered
<1>2. AddressesOrdered /\ [Next]_<<kind, input>> => AddressesOrdered'
  BY DEF Next, AddressesOrdered
<1>3. QED BY <1>1, <1>2, PTL DEF Spec

-----------------------------------------------------------------------------
(* Broadcast addresses.                                                     *)

\* A netmask, read as a number, has its ones at the top ...
LEMMA NetmaskOnes ==
    ASSUME NEW n \in {4, 16}, NEW p \in 0 .. 8 * n
    PROVE  Unswapped(n, Netmask(n, p)) = 8 * n - p .. 8 * n - 1
<1>1. ASSUME NEW x \in 0 .. 8 * n - 1
      PROVE  x % 8 \in Netmask(n, p)[n - (x \div 8)] <=> x >= 8 * n - p
  <2> DEFINE q == x \div 8
             r == x % 8
  <2>1. q \in 0 .. n - 1 /\ r \in 0 .. 7 /\ x = 8 * q + r OBVIOUS
  <2> HIDE DEF q, r
  <2>2. n - q \in 1 .. n BY <2>1
  <2>3. Netmask(n, p)[n - q] = {b \in 0 .. 7 : 8 * (n - q - 1) + (7 - b) < p}
    BY <2>2 DEF Netmask
  <2>4. r \in Netmask(n, p)[n - q] <=> 8 * (n - q - 1) + (7 - r) < p BY <2>1, <2>3
  <2>5. r \in Netmask(n, p)[n - q] <=> x >= 8 * n - p BY <2>1, <2>4
  <2>6. QED BY <2>5 DEF q, r
<1>2. QED BY <1>1 DEF Unswapped

\* ... as many as the prefix says.
LEMMA PrefixOfNetmask ==
    ASSUME NEW n \in {4, 16}, NEW p \in 0 .. 8 * n
    PROVE  CountBytes(Unswapped(n, Netmask(n, p))) = p
<1>1. Cardinality(8 * n - p .. 8 * n - 1) = p
  <2>1. 8 * n - p \in Int /\ 8 * n - 1 \in Int OBVIOUS
  <2>2. Cardinality(8 * n - p .. 8 * n - 1) =
            IF 8 * n - p > 8 * n - 1 THEN 0 ELSE (8 * n - 1) - (8 * n - p) + 1
    BY <2>1, FS_Interval
  <2>3. QED BY <2>2
<1>2. QED BY <1>1, NetmaskOnes DEF CountBytes

\* So a netmask determines its prefix, and shows whether it is one of IPv4.
LEMMA NetmaskPrefix ==
    /\ \A p \in 0 .. 32 : Netmask(4, p) = Netmask(4, 0) <=> p = 0
    /\ \A p \in 0 .. 128 : Netmask(16, p) = Netmask(16, 128) <=> p = 128
    /\ \A p, q : Netmask(4, p) # Netmask(16, q)
<1>1. \A p \in 0 .. 32 : CountBytes(Unswapped(4, Netmask(4, p))) = p
  <2> DEFINE n == 4
  <2>1. n \in {4, 16} /\ 8 * n = 32 OBVIOUS
  <2> HIDE DEF n
  <2>2. \A p \in 0 .. 8 * n : CountBytes(Unswapped(n, Netmask(n, p))) = p BY <2>1, PrefixOfNetmask
  <2> QED BY <2>1, <2>2 DEF n
<1>2. \A p \in 0 .. 128 : CountBytes(Unswapped(16, Netmask(16, p))) = p
  <2> DEFINE n == 16
  <2>1. n \in {4, 16} /\ 8 * n = 128 OBVIOUS
  <2> HIDE DEF n
  <2>2. \A p \in 0 .. 8 * n : CountBytes(Unswapped(n, Netmask(n, p))) = p BY <2>1, PrefixOfNetmask
  <2> QED BY <2>1, <2>2 DEF n
<1>3. \A p, q : Netmask(4, p) # Netmask(16, q)
  <2>1. \A p : DOMAIN Netmask(4, p) = 1 .. 4 BY DEF Netmask
  <2>2. \A q : DOMAIN Netmask(16, q) = 1 .. 16 BY DEF Netmask
  <2>3. 5 \in 1 .. 16 /\ 5 \notin 1 .. 4 OBVIOUS
  <2>4. QED BY <2>1, <2>2, <2>3
<1>4. 0 \in 0 .. 32 /\ 128 \in 0 .. 128 OBVIOUS
<1>5. QED BY <1>1, <1>2, <1>3, <1>4, Zenon

\* What IPv4Address::broadcastAddress sets, whatever CreateMask gives.
LEMMA Broadcast4Is ==
    ASSUME NEW addr \in [1 .. 4 -> Byte], NEW p \in 0 .. 32
    PROVE  Broadcast4(Create("v4", addr), p)
           = {Result(Create("v4", [k \in 1 .. 4 |-> addr[k] \union Swapped(4, m)[k]]), {}) :
              m \in CreateMask(32, p)}
<1> DEFINE a == Create("v4", addr)
           New(m) == [k \in 1 .. 4 |-> addr[k] \union Swapped(4, m)[k]]
           Old(m) == [a EXCEPT !.addr = [k \in 1 .. 4 |-> a.addr[k] \union Swapped(4, m)[k]]]
<1>1. a = [family |-> "v4", port |-> Swapped(2, {}), addr |-> addr, len |-> 16]
  BY DEF Create, IPv4Address
<1>2. ASSUME NEW m PROVE Old(m) = Create("v4", New(m))
  <2>1. Create("v4", New(m)) = [family |-> "v4", port |-> Swapped(2, {}), addr |-> New(m), len |-> 16]
    BY DEF Create, IPv4Address
  <2>2. a.addr = addr BY <1>1
  <2>3. Old(m) = [a EXCEPT !.addr = New(m)] BY <2>2
  <2>4. [a EXCEPT !.addr = New(m)] = Create("v4", New(m))
    <3> HIDE DEF a, New
    <3> QED BY <1>1, <2>1
  <2>5. QED BY <2>3, <2>4
<1>3. Broadcast4(a, p) = {Result(Old(m), {}) : m \in CreateMask(32, p)}
  <2>1. ~ (p > 32) OBVIOUS
  <2> HIDE DEF a
  <2>2. QED BY <2>1 DEF Broadcast4
<1>4. QED
  <2> HIDE DEF a, New, Old
  <2>1. {Result(Old(m), {}) : m \in CreateMask(32, p)} = {Result(Create("v4", New(m)), {}) : m \in CreateMask(32, p)}
    BY <1>2, Zenon
  <2>2. QED BY <1>3, <2>1 DEF New, a

\* IPv4Address::broadcastAddress sets the bits the netmask has not: the shift of
\* CreateMask is in range for every prefix but 0, for which it may set none.
LEMMA Broadcast4Right ==
    ASSUME NEW addr \in [1 .. 4 -> Byte], NEW p \in 0 .. 32
    PROVE  Broadcast4(Create("v4", addr), p)
           = {Result(Create("v4", x), {}) :
              x \in {Filled(addr, Netmask(4, p))} \union (IF p = 0 THEN {addr} ELSE {})}
<1> DEFINE New(m) == [k \in 1 .. 4 |-> addr[k] \union Swapped(4, m)[k]]
           m0 == 0 .. 32 - p - 1
<1>1. New(m0) = Filled(addr, Netmask(4, p))
  <2>1. ASSUME NEW k \in 1 .. 4 PROVE Swapped(4, m0)[k] = (0 .. 7) \ Netmask(4, p)[k]
    <3>1. Swapped(4, m0)[k] = {b \in 0 .. 7 : 8 * (4 - k) + b \in m0} BY DEF Swapped
    <3>2. Netmask(4, p)[k] = {b \in 0 .. 7 : 8 * (k - 1) + (7 - b) < p} BY DEF Netmask
    <3>3. \A b \in 0 .. 7 : 8 * (4 - k) + b \in m0 <=> ~ (8 * (k - 1) + (7 - b) < p) OBVIOUS
    <3>4. QED BY <3>1, <3>2, <3>3
  <2>2. QED BY <2>1 DEF Filled
<1>2. New({}) = addr
  <2>1. \A k \in 1 .. 4 : Swapped(4, {})[k] = {} BY DEF Swapped
  <2>2. QED BY <2>1
<1>3. CreateMask(32, p) = {m0} \union (IF p = 0 THEN {{}} ELSE {})
  <2>1. CASE p = 0
    <3>1. m0 = 0 .. 31 /\ 32 - p = 32 BY <2>1
    <3>2. CreateMask(32, p) = {{}, 0 .. 31} BY <3>1 DEF CreateMask
    <3> HIDE DEF m0
    <3>3. QED BY <2>1, <3>1, <3>2
  <2>2. CASE p # 0
    <3>1. 32 - p # 32 BY <2>2
    <3>2. CreateMask(32, p) = {m0} BY <3>1 DEF CreateMask
    <3>3. QED BY <2>2, <3>2
  <2>3. QED BY <2>1, <2>2
<1>4. Broadcast4(Create("v4", addr), p) = {Result(Create("v4", New(m)), {}) : m \in CreateMask(32, p)}
  BY Broadcast4Is
<1> HIDE DEF New, m0
<1>5. {Result(Create("v4", New(m)), {}) : m \in {m0} \union (IF p = 0 THEN {{}} ELSE {})}
      = {Result(Create("v4", x), {}) : x \in {New(m0)} \union (IF p = 0 THEN {New({})} ELSE {})}
  BY Zenon
<1>6. QED BY <1>1, <1>2, <1>3, <1>4, <1>5, Zenon

\* IPv6Address::broadcastAddress leaves the bytes before the edge of the prefix,
\* splits the byte at the edge, and overwrites those behind it; with prefix 128 the
\* edge is behind the address.
LEMMA Broadcast6Right ==
    ASSUME NEW addr \in [1 .. 16 -> Byte], NEW p \in 0 .. 128
    PROVE  Broadcast6(Create("v6", addr), p)
           = {Result(Create("v6", Filled(addr, Netmask(16, p))), IF p = 128 THEN 0 .. 7 ELSE {})}
<1> DEFINE a == Create("v6", addr)
           q == p \div 8
           r == p % 8
           m == 0 .. 8 - r - 1
           New == [k \in 1 .. 16 |-> IF k < q + 1 THEN addr[k]
                                     ELSE IF k = q + 1 THEN addr[k] \union m ELSE 0 .. 7]
<1>0. q \in 0 .. 16 /\ r \in 0 .. 7 /\ p = 8 * q + r OBVIOUS
<1>1. CreateMask(8, p % 8) = {m} BY <1>0 DEF CreateMask
<1>2. ASSUME NEW k \in 1 .. 16
      PROVE  New[k] = addr[k] \union ((0 .. 7) \ Netmask(16, p)[k])
  <2> HIDE DEF q, r
  <2>1. Netmask(16, p)[k] = {b \in 0 .. 7 : 8 * (k - 1) + (7 - b) < p} BY DEF Netmask
  <2>2. addr[k] \subseteq 0 .. 7 BY DEF Byte
  <2>3. CASE k < q + 1
    <3>1. Netmask(16, p)[k] = 0 .. 7 BY <1>0, <2>1, <2>3
    <3>2. QED BY <1>0, <2>3, <3>1
  <2>4. CASE k = q + 1
    <3>1. \A b \in 0 .. 7 : 8 * (k - 1) + (7 - b) < p <=> b \notin m BY <1>0, <2>4
    <3>2. m \subseteq 0 .. 7 BY <1>0
    <3>3. (0 .. 7) \ Netmask(16, p)[k] = m BY <2>1, <3>1, <3>2
    <3>4. QED BY <1>0, <2>4, <3>3
  <2>5. CASE k > q + 1
    <3>1. Netmask(16, p)[k] = {} BY <1>0, <2>1, <2>5
    <3>2. addr[k] \union ((0 .. 7) \ Netmask(16, p)[k]) = 0 .. 7 BY <2>2, <3>1
    <3>3. New[k] = 0 .. 7
      <4>1. q \in Nat /\ ~ (k < q + 1) /\ k # q + 1 BY <1>0, <2>5
      <4> HIDE DEF m
      <4>2. QED BY <4>1
    <3>4. QED BY <3>2, <3>3
  <2>6. k < q + 1 \/ k = q + 1 \/ k > q + 1 BY <1>0
  <2> HIDE DEF New
  <2>7. QED BY <2>3, <2>4, <2>5, <2>6
<1>3. New = Filled(addr, Netmask(16, p))
  <2>1. New = [k \in 1 .. 16 |-> New[k]] OBVIOUS
  <2> HIDE DEF New
  <2>2. QED BY <1>2, <2>1 DEF Filled
<1>4. a = [family |-> "v6", port |-> Swapped(2, {}), addr |-> addr, len |-> 28]
  BY DEF Create, IPv6Address
<1>5. Create("v6", New) = [family |-> "v6", port |-> Swapped(2, {}), addr |-> New, len |-> 28]
  BY DEF Create, IPv6Address
<1> DEFINE Bytes6(x) == [k \in 1 .. 16 |-> IF k < q + 1 THEN a.addr[k]
                                          ELSE IF k = q + 1 THEN a.addr[k] \union x ELSE 0 .. 7]
<1>6. Broadcast6(a, p) = {Result([a EXCEPT !.addr = Bytes6(m)], PastEnd(p, m))}
  <2>1. Broadcast6(a, p)
        = {Result([a EXCEPT !.addr = Bytes6(x)], PastEnd(p, x)) : x \in CreateMask(8, p % 8)}
    BY Zenon DEF Broadcast6, Edge
  <2> HIDE DEF a, m, Bytes6
  <2>2. QED BY <1>1, <2>1
<1>7. [a EXCEPT !.addr = Bytes6(m)] = Create("v6", New)
  <2>1. a.addr = addr BY <1>4
  <2>2. Bytes6(m) = New BY <2>1
  <2>3. [a EXCEPT !.addr = New] = Create("v6", New)
    <3> HIDE DEF a, New
    <3> QED BY <1>4, <1>5
  <2>4. QED BY <2>2, <2>3
<1>8. PastEnd(p, m) = IF p = 128 THEN 0 .. 7 ELSE {}
  <2> HIDE DEF q, r
  <2>1. Edge(p) = q + 1 BY DEF Edge, q
  <2>2. q + 1 > 16 <=> p = 128 BY <1>0
  <2>3. p = 128 => m = 0 .. 7 BY <1>0
  <2> HIDE DEF m
  <2>4. QED BY <2>1, <2>2, <2>3 DEF PastEnd
<1>9. QED
  <2> HIDE DEF a, m, New, Bytes6
  <2> QED BY <1>3, <1>6, <1>7, <1>8 DEF a

\* Of an interface: the address that Create makes of it, with the prefix its
\* netmask has, has the outcomes of its entry.
LEMMA InterfaceBroadcast ==
    ASSUME NEW i, IsInterface(i), i.family \in {"v4", "v6"}
    PROVE  broadcastAddress(Create(i.family, i.addr), PrefixLen(i)) = Outcomes(i)
<1>1. CASE i.family = "v4"
  <2>1. Width(i.family) = 4 /\ 8 * 4 = 32 BY <1>1 DEF Width
  <2>2. PICK p \in 0 .. 32 : i.netmask = Netmask(4, p) BY <2>1 DEF IsInterface
  <2>3. i.addr \in [1 .. 4 -> Byte] BY <2>1 DEF IsInterface
  <2>4. PrefixLen(i) = p BY <1>1, <2>2, PrefixOfNetmask DEF PrefixLen
  <2>5. Create("v4", i.addr).family = "v4" BY DEF Create, IPv4Address
  <2>6. broadcastAddress(Create(i.family, i.addr), PrefixLen(i))
        = {Result(Create("v4", x), {}) :
           x \in {Filled(i.addr, i.netmask)} \union (IF p = 0 THEN {i.addr} ELSE {})}
    BY <1>1, <2>2, <2>3, <2>4, <2>5, Broadcast4Right DEF broadcastAddress
  <2>7. i.netmask # Netmask(16, 128) /\ (i.netmask = Netmask(4, 0) <=> p = 0)
    BY <2>2, NetmaskPrefix
  <2>8. QED BY <1>1, <2>6, <2>7 DEF Outcomes
<1>2. CASE i.family = "v6"
  <2>1. Width(i.family) = 16 /\ 8 * 16 = 128 BY <1>2 DEF Width
  <2>2. PICK p \in 0 .. 128 : i.netmask = Netmask(16, p) BY <2>1 DEF IsInterface
  <2>3. i.addr \in [1 .. 16 -> Byte] BY <2>1 DEF IsInterface
  <2>4. PrefixLen(i) = p BY <1>2, <2>2, PrefixOfNetmask DEF PrefixLen
  <2>5. Create("v6", i.addr).family # "v4" BY DEF Create, IPv6Address
  <2>6. broadcastAddress(Create(i.family, i.addr), PrefixLen(i))
        = {Result(Create("v6", Filled(i.addr, i.netmask)), IF p = 128 THEN 0 .. 7 ELSE {})}
    BY <1>2, <2>2, <2>3, <2>4, <2>5, Broadcast6Right DEF broadcastAddress
  <2>7. i.netmask # Netmask(4, 0) /\ (i.netmask = Netmask(16, 128) <=> p = 128)
    BY <2>2, NetmaskPrefix
  <2>8. QED BY <1>2, <2>6, <2>7 DEF Outcomes
<1>3. QED BY <1>1, <1>2

\* The address that stands for all interfaces is an entry like any other.
LEMMA AnyIsInterface ==
    ASSUME NEW f \in {"v4", "v6"}
    PROVE  LET i == [family |-> f, addr |-> Zeros(Width(f)), netmask |-> Netmask(Width(f), 0)]
           IN IsInterface(i) /\ PrefixLen(i) = 0
<1> DEFINE n == Width(f)
           i == [family |-> f, addr |-> Zeros(n), netmask |-> Netmask(n, 0)]
<1>1. n \in {4, 16} BY DEF Width
<1>2. i.family = f /\ i.addr = Zeros(n) /\ i.netmask = Netmask(n, 0) OBVIOUS
<1>3. Zeros(n) \in [1 .. n -> Byte] BY DEF Zeros, Byte
<1>4. 0 \in 0 .. 8 * n BY <1>1
<1> HIDE DEF i
<1>5. IsInterface(i) BY <1>2, <1>3, <1>4 DEF IsInterface
<1>6. CountBytes(Unswapped(n, Netmask(n, 0))) = 0
  <2> HIDE DEF n
  <2> QED BY <1>1, <1>4, PrefixOfNetmask
<1>7. PrefixLen(i) = 0 BY <1>2, <1>6 DEF PrefixLen, Width
<1>8. QED BY <1>5, <1>7 DEF i

\* The broadcast addresses of the addresses GetInterfaceAddresses finds are those of
\* the entries, for any addresses and any prefixes, of an interface or of all.
THEOREM BroadcastsOfInterfaces == Spec => []BroadcastsRight
<1>1. ASSUME NEW ifs \in Interfaces, NEW iface \in {"eth0", "lo", "*"}, NEW family \in {"any", "v4", "v6"}
      PROVE  BroadcastRight(ifs, iface, family)
  <2>1. CASE iface = "*"
    <3> DEFINE Fs == {f \in {"v4", "v6"} : family \in {"any", f}}
               All(f) == [family |-> f, addr |-> Zeros(Width(f)), netmask |-> Netmask(Width(f), 0)]
               Entry(f) == [name |-> iface, addr |-> Create(f, Zeros(IF f = "v4" THEN 4 ELSE 16)),
                            prefix |-> 0]
    <3>1. GetInterfaceAddresses(ifs, iface, family) = {Entry(f) : f \in Fs}
      BY <2>1 DEF GetInterfaceAddresses
    <3>2. Reported(ifs, iface, family) = {All(f) : f \in Fs}
      BY <2>1 DEF Reported
    <3>3. ASSUME NEW f \in Fs
          PROVE  broadcastAddress(Entry(f).addr, Entry(f).prefix) = Outcomes(All(f))
      <4>1. f \in {"v4", "v6"} OBVIOUS
      <4>2. Entry(f).addr = Create(f, Zeros(Width(f))) /\ Entry(f).prefix = 0 BY DEF Width
      <4>3. All(f).family = f /\ All(f).addr = Zeros(Width(f)) OBVIOUS
      <4>4. IsInterface(All(f)) /\ PrefixLen(All(f)) = 0 BY <4>1, AnyIsInterface
      <4> HIDE DEF Entry, All
      <4>5. broadcastAddress(Create(All(f).family, All(f).addr), PrefixLen(All(f))) = Outcomes(All(f))
        BY <4>1, <4>3, <4>4, InterfaceBroadcast
      <4>6. QED BY <4>2, <4>3, <4>4, <4>5
    <3>4. UNION {broadcastAddress(e.addr, e.prefix) : e \in {Entry(f) : f \in Fs}}
          = UNION {Outcomes(i) : i \in {All(f) : f \in Fs}}
      <4> HIDE DEF Fs, Entry, All
      <4> QED BY <3>3
    <3> HIDE DEF Fs, Entry, All
    <3>5. QED BY <3>1, <3>2, <3>4 DEF BroadcastRight
  <2>2. CASE iface # "*"
    <3> DEFINE Own == {k \in DOMAIN ifs : /\ ifs[k].name = iface
                                          /\ ifs[k].family \in {"v4", "v6"}
                                          /\ family \in {"any", ifs[k].family}}
               Entry(k) == [name |-> ifs[k].name, addr |-> Create(ifs[k].family, ifs[k].addr),
                            prefix |-> PrefixLen(ifs[k])]
    <3>0. iface \notin {"", "*"}
      <4>1. iface = "eth0" \/ iface = "lo" BY <2>2
      <4>2. "eth0" \notin {"", "*"} /\ "lo" \notin {"", "*"} BY Zenon
      <4>3. QED BY <4>1, <4>2, Zenon
    <3>1. GetInterfaceAddresses(ifs, iface, family) = {Entry(k) : k \in Own}
      <4> DEFINE Asked == {k \in DOMAIN ifs : /\ ifs[k].family \in {"v4", "v6"}
                                              /\ family \in {"any", ifs[k].family}}
      <4>1. GetInterfaceAddresses(ifs, iface, family)
            = {e \in {Entry(k) : k \in Asked} : e.name = iface}
        BY <3>0, Zenon DEF GetInterfaceAddresses, AllInterfaces
      <4>2. \A k : Entry(k).name = ifs[k].name OBVIOUS
      <4>3. \A k : k \in Own <=> k \in Asked /\ ifs[k].name = iface OBVIOUS
      <4> HIDE DEF Entry, Own, Asked
      <4>4. QED BY <4>1, <4>2, <4>3
    <3>2. Reported(ifs, iface, family) = {ifs[k] : k \in Own} BY <3>0, Zenon DEF Reported
    <3>3. \A k \in Own : broadcastAddress(Entry(k).addr, Entry(k).prefix) = Outcomes(ifs[k])
      BY InterfacesAssumption, InterfaceBroadcast
    <3>4. UNION {broadcastAddress(e.addr, e.prefix) : e \in {Entry(k) : k \in Own}}
          = UNION {Outcomes(i) : i \in {ifs[k] : k \in Own}}
      <4> HIDE DEF Own, Entry
      <4> QED BY <3>3
    <3> HIDE DEF Own, Entry
    <3>5. QED BY <3>1, <3>2, <3>4 DEF BroadcastRight
  <2>3. QED BY <2>1, <2>2
<1>2. Init => BroadcastsRight
  BY <1>1 DEF Init, BroadcastsRight
<1>3. BroadcastsRight /\ [Next]_<<kind, input>> => BroadcastsRight'
  BY DEF Next, BroadcastsRight
<1>4. QED BY <1>2, <1>3, PTL DEF Spec

-----------------------------------------------------------------------------
(* The text of an IPv6 address.                                             *)

\* What is swapped twice is as it was.
LEMMA SwappedBack ==
    ASSUME NEW n \in Nat, NEW s \in [1 .. n -> Byte]
    PROVE  Swapped(n, Unswapped(n, s)) = s
<1>1. ASSUME NEW k \in 1 .. n, NEW b \in 0 .. 7
      PROVE  8 * (n - k) + b \in Unswapped(n, s) <=> b \in s[k]
  <2> DEFINE p == 8 * (n - k) + b
  <2>1. p \in 0 .. 8 * n - 1 /\ p % 8 = b /\ p \div 8 = n - k OBVIOUS
  <2>2. n - (n - k) = k OBVIOUS
  <2> HIDE DEF p
  <2>3. p \in Unswapped(n, s) <=> b \in s[k] BY <2>1, <2>2 DEF Unswapped
  <2>4. QED BY <2>3 DEF p
<1>2. ASSUME NEW k \in 1 .. n PROVE {b \in 0 .. 7 : 8 * (n - k) + b \in Unswapped(n, s)} = s[k]
  <2>1. s[k] \subseteq 0 .. 7 BY DEF Byte
  <2>2. QED BY <1>1, <2>1
<1>3. Swapped(n, Unswapped(n, s)) = [k \in 1 .. n |-> s[k]] BY <1>2 DEF Swapped
<1>4. QED BY <1>3

\* Sixteen bytes are eight groups of two.
LEMMA GroupBytes ==
    ASSUME NEW addr, Bytes(addr, 16), NEW k \in 1 .. 8
    PROVE  /\ Bytes(Swapped(2, Group(addr, k)), 2)
           /\ Swapped(2, Group(addr, k)) = SubSeq(addr, 2 * k - 1, 2 * k)
<1> DEFINE s == SubSeq(addr, 2 * k - 1, 2 * k)
           n == 2
<1>1. addr \in Seq(Byte) /\ Len(addr) = 16 BY DEF Bytes
<1> DEFINE l == 2 * k - 1
           h == 2 * k
<1>2. l \in Nat /\ h \in Nat /\ n \in Nat /\ 1 <= l /\ l <= h + 1 /\ h <= Len(addr) /\ h - l + 1 = n
  BY <1>1
<1> HIDE DEF l, h, n
<1>3. SubSeq(addr, l, h) \in Seq(Byte) /\ Len(SubSeq(addr, l, h)) = n BY <1>1, <1>2, SubSeqType
<1>4. Bytes(s, n) BY <1>3 DEF Bytes, l, h
<1> HIDE DEF s
<1>5. s \in [1 .. n -> Byte] BY <1>2, <1>4 DEF Bytes
<1>6. Swapped(n, Unswapped(n, s)) = s BY <1>2, <1>5, SwappedBack
<1>7. QED BY <1>4, <1>6 DEF Group, s, n

\* A group that is zero is two bytes that are.
LEMMA ZeroGroup ==
    ASSUME NEW addr, Bytes(addr, 16), NEW k \in 1 .. 8, Group(addr, k) = {}
    PROVE  addr[2 * k - 1] = {} /\ addr[2 * k] = {}
<1>1. Swapped(2, {}) = SubSeq(addr, 2 * k - 1, 2 * k) BY GroupBytes
<1>2. \A j \in 1 .. 2 : Swapped(2, {})[j] = {} BY DEF Swapped
<1>3. addr \in Seq(Byte) /\ Len(addr) = 16 BY DEF Bytes
<1>4. \A j \in 1 .. 2 : SubSeq(addr, 2 * k - 1, 2 * k)[j] = addr[2 * k - 1 + j - 1]
  <2> DEFINE l == 2 * k - 1
             h == 2 * k
  <2>1. l \in Nat /\ h \in Nat /\ 1 <= l /\ h <= Len(addr) /\ h - l + 1 = 2 BY <1>3
  <2> HIDE DEF l, h
  <2>2. \A j \in 1 .. h - l + 1 : SubSeq(addr, l, h)[j] = addr[l + j - 1] BY <1>3, <2>1
  <2>3. QED BY <2>1, <2>2 DEF l, h
<1>5. /\ 1 \in 1 .. 2 /\ 2 \in 1 .. 2 /\ 2 * k - 1 + 1 - 1 = 2 * k - 1
      /\ 2 * k - 1 + 2 - 1 = 2 * k
  OBVIOUS
<1>6. addr[2 * k - 1 + 1 - 1] = {} /\ addr[2 * k - 1 + 2 - 1] = {} BY <1>1, <1>2, <1>4, <1>5
<1>7. QED BY <1>5, <1>6

\* The symbols of a text.
Number == SUBSET (0 .. 15)
Symbol == {LeftBracket, RightBracket, Colon} \union {Num(n) : n \in Number}

\* The three marks differ from each other and from every number.
LEMMA Symbols ==
    /\ LeftBracket \in Symbol /\ RightBracket \in Symbol /\ Colon \in Symbol
    /\ LeftBracket # RightBracket /\ LeftBracket # Colon /\ RightBracket # Colon
    /\ \A n \in Number : Num(n) \in Symbol
    /\ \A n \in Number : Num(n).num = n
    /\ \A n \in Number : Num(n).mark = Num({}).mark
    /\ \A n \in Number : Num(n) # LeftBracket /\ Num(n) # RightBracket /\ Num(n) # Colon
<1>1. LeftBracket # RightBracket /\ LeftBracket # Colon /\ RightBracket # Colon
  BY Zenon DEF LeftBracket, RightBracket, Colon, Mark
<1>2. \A n : Num(n).num = n BY DEF Num
<1>3. \A n : Num(n).mark = Num({}).mark BY Zenon DEF Num
<1>4. \A n : Num(n) # LeftBracket /\ Num(n) # RightBracket /\ Num(n) # Colon
  BY Zenon DEF Num, LeftBracket, RightBracket, Colon, Mark
<1>5. QED BY <1>1, <1>2, <1>3, <1>4 DEF Symbol

\* Numbers with colons between them: l groups from number m on.
JoinLen(l) == IF l = 0 THEN 0 ELSE 2 * l - 1
Joined(addr, m, l) ==
    [j \in 1 .. JoinLen(l) |-> IF j % 2 = 1 THEN Num(Group(addr, m + (j - 1) \div 2)) ELSE Colon]

\* A group is a 16-bit number.
LEMMA GroupNumber ==
    ASSUME NEW addr, NEW k
    PROVE  Group(addr, k) \in Number
BY DEF Group, Unswapped, Number

\* The length and the symbols of numbers with colons between them.
LEMMA JoinedType ==
    ASSUME NEW addr, NEW m \in Nat, NEW l \in Nat
    PROVE  /\ JoinLen(l) \in Nat
           /\ Joined(addr, m, l) \in Seq(Symbol)
           /\ Len(Joined(addr, m, l)) = JoinLen(l)
           /\ \A j \in 1 .. JoinLen(l) :
                Joined(addr, m, l)[j] = IF j % 2 = 1 THEN Num(Group(addr, m + (j - 1) \div 2)) ELSE Colon
<1> DEFINE n == JoinLen(l)
           f == Joined(addr, m, l)
<1>1. n \in Nat BY DEF JoinLen
<1> HIDE DEF n
<1>2. f = [j \in 1 .. n |-> IF j % 2 = 1 THEN Num(Group(addr, m + (j - 1) \div 2)) ELSE Colon]
  BY DEF Joined, n
<1>3. \A j \in 1 .. n : f[j] = IF j % 2 = 1 THEN Num(Group(addr, m + (j - 1) \div 2)) ELSE Colon
  BY <1>2
<1>4. \A k : Num(Group(addr, k)) \in Symbol BY GroupNumber, Symbols
<1>5. f \in [1 .. n -> Symbol] BY <1>2, <1>4, Symbols
<1> HIDE DEF f
<1>6. f \in Seq(Symbol) /\ Len(f) = n BY <1>1, <1>5
<1>7. QED BY <1>1, <1>3, <1>6 DEF n, f

\* Two symbols behind a text.
LEMMA TwoMore ==
    ASSUME NEW S, NEW s \in Seq(S), NEW x \in S, NEW y \in S
    PROVE  /\ (s \o <<x>>) \o <<y>> \in Seq(S)
           /\ Len((s \o <<x>>) \o <<y>>) = Len(s) + 2
           /\ \A j \in 1 .. Len(s) : ((s \o <<x>>) \o <<y>>)[j] = s[j]
           /\ ((s \o <<x>>) \o <<y>>)[Len(s) + 1] = x
           /\ ((s \o <<x>>) \o <<y>>)[Len(s) + 2] = y
<1>1. s \o <<x>> = Append(s, x) OBVIOUS
<1>2. Append(s, x) \in Seq(S) /\ Len(Append(s, x)) = Len(s) + 1 OBVIOUS
<1> DEFINE t == Append(s, x)
<1>3. /\ \A j \in 1 .. Len(s) : t[j] = s[j]
      /\ t[Len(s) + 1] = x
  OBVIOUS
<1> HIDE DEF t
<1>4. t \in Seq(S) /\ Len(t) = Len(s) + 1 BY <1>2 DEF t
<1>5. t \o <<y>> = Append(t, y) BY <1>4
<1>6. /\ Append(t, y) \in Seq(S) /\ Len(Append(t, y)) = Len(t) + 1
      /\ \A j \in 1 .. Len(t) : Append(t, y)[j] = t[j]
      /\ Append(t, y)[Len(t) + 1] = y
  BY <1>4
<1>7. Len(s) \in Nat OBVIOUS
<1>8. (s \o <<x>>) \o <<y>> = Append(t, y) BY <1>1, <1>5 DEF t
<1>9. QED BY <1>3, <1>4, <1>6, <1>7, <1>8

\* A sequence with nothing before or behind it.
LEMMA ConcatEmpty ==
    ASSUME NEW S, NEW s \in Seq(S)
    PROVE  s \o <<>> = s /\ <<>> \o s = s
OBVIOUS

\* One group more.
LEMMA JoinedMore ==
    ASSUME NEW addr, NEW m \in Nat, NEW l \in Nat
    PROVE  /\ Joined(addr, m, 0) = <<>>
           /\ Joined(addr, m, 1) = <<Num(Group(addr, m))>>
           /\ l > 0 => Joined(addr, m, l + 1)
                         = (Joined(addr, m, l) \o <<Colon>>) \o <<Num(Group(addr, m + l))>>
<1>1. Joined(addr, m, 0) = <<>>
  <2>1. Len(Joined(addr, m, 0)) = 0 /\ Joined(addr, m, 0) \in Seq(Symbol) BY JoinedType DEF JoinLen
  <2>2. QED BY <2>1
<1>2. Joined(addr, m, 1) = <<Num(Group(addr, m))>>
  <2> DEFINE s == Joined(addr, m, 1)
             x == Num(Group(addr, m))
             n == 1
  <2>1. JoinLen(n) = n /\ n \in Nat /\ n \in 1 .. n /\ n % 2 = 1 /\ m + (n - 1) \div 2 = m
    BY DEF JoinLen
  <2>2. s = Joined(addr, m, n) /\ <<x>> \in Seq(Symbol) /\ Len(<<x>>) = n /\ <<x>>[n] = x
    BY Symbols, GroupNumber
  <2>3. \A j \in 1 .. n : j = n OBVIOUS
  <2> HIDE DEF s, n
  <2>4. s \in Seq(Symbol) /\ Len(s) = n BY <2>1, <2>2, JoinedType
  <2>5. s[n] = Num(Group(addr, m + (n - 1) \div 2)) BY <2>1, <2>2, JoinedType
  <2>6. s[n] = x BY <2>1, <2>5
  <2> HIDE DEF x
  <2>7. \A j \in 1 .. n : s[j] = <<x>>[j] BY <2>2, <2>3, <2>6
  <2>8. s = <<x>> BY <2>2, <2>4, <2>7, SeqEqual
  <2>9. QED BY <2>8 DEF s, x
<1>3. ASSUME l > 0
      PROVE  Joined(addr, m, l + 1)
               = (Joined(addr, m, l) \o <<Colon>>) \o <<Num(Group(addr, m + l))>>
  <2> DEFINE s == Joined(addr, m, l)
             x == Num(Group(addr, m + l))
             t == (s \o <<Colon>>) \o <<x>>
             r == Joined(addr, m, l + 1)
             n == 2 * l - 1
  <2>1. JoinLen(l) = n /\ JoinLen(l + 1) = n + 2 /\ n \in Nat BY <1>3 DEF JoinLen
  <2>2. s \in Seq(Symbol) /\ Len(s) = n BY <2>1, JoinedType
  <2>3. r \in Seq(Symbol) /\ Len(r) = n + 2 BY <2>1, JoinedType
  <2>4. x \in Symbol /\ Colon \in Symbol BY Symbols, GroupNumber
  <2>14. \A k \in Nat : \A j \in 1 .. JoinLen(k) :
           Joined(addr, m, k)[j] = IF j % 2 = 1 THEN Num(Group(addr, m + (j - 1) \div 2)) ELSE Colon
    BY JoinedType
  <2>15. l + 1 \in Nat OBVIOUS
  <2>7. /\ (n + 1) % 2 = 0 /\ (n + 2) % 2 = 1 /\ m + ((n + 2) - 1) \div 2 = m + l
        /\ n + 1 \in 1 .. n + 2 /\ n + 2 \in 1 .. n + 2
    BY <1>3
  <2> HIDE DEF n
  <2>5. \A j \in 1 .. n :
           s[j] = IF j % 2 = 1 THEN Num(Group(addr, m + (j - 1) \div 2)) ELSE Colon
    BY <2>1, <2>14, <2>15
  <2>6. \A j \in 1 .. n + 2 :
           r[j] = IF j % 2 = 1 THEN Num(Group(addr, m + (j - 1) \div 2)) ELSE Colon
    BY <2>1, <2>14, <2>15
  <2>8. r[n + 1] = Colon /\ r[n + 2] = x BY <2>6, <2>7
  <2> HIDE DEF s, x, r
  <2>9. /\ t \in Seq(Symbol) /\ Len(t) = n + 2 /\ \A j \in 1 .. n : t[j] = s[j]
        /\ t[n + 1] = Colon /\ t[n + 2] = x
    BY <2>2, <2>4, TwoMore
  <2> HIDE DEF t
  <2>10. \A j \in 1 .. n : r[j] = t[j] BY <2>1, <2>5, <2>6, <2>9
  <2>11. ASSUME NEW j \in 1 .. n + 2 PROVE r[j] = t[j]
    <3>1. j \in 1 .. n \/ j = n + 1 \/ j = n + 2 BY <2>1
    <3>2. QED BY <2>8, <2>9, <2>10, <3>1
  <2>12. r = t BY <2>3, <2>9, <2>11, SeqEqual
  <2>13. QED BY <2>12 DEF s, x, t, r
<1>4. QED BY <1>1, <1>2, <1>3

\* The state of the loop of IPv6Address::insert.
Os(t, u) == [text |-> t, used_zero |-> u]
OsSet == [text : Seq(Symbol), used_zero : BOOLEAN]

\* A zero is left out as long as "::" has not been printed, ...
LEMMA InsertSkip ==
    ASSUME NEW addr, NEW i, NEW t, Group(addr, i) = {}
    PROVE  InsertGroup(addr, Os(t, FALSE), i) = Os(t, FALSE)
<1>1. Os(t, FALSE).used_zero = FALSE BY DEF Os
<1>2. QED BY <1>1 DEF InsertGroup

\* ... a group that follows no zero is printed behind a colon, if it is not the first, ...
LEMMA InsertPlain ==
    ASSUME NEW addr, NEW i \in Nat, NEW t \in Seq(Symbol), Group(addr, i) # {},
           ~ (i > 1 /\ Group(addr, i - 1) = {})
    PROVE  InsertGroup(addr, Os(t, FALSE), i)
             = Os((t \o (IF i > 1 THEN <<Colon>> ELSE <<>>)) \o <<Num(Group(addr, i))>>, FALSE)
<1> DEFINE os == Os(t, FALSE)
           w == (IF i > 1 THEN <<Colon>> ELSE <<>>)
           x == <<Num(Group(addr, i))>>
<1>1. os.used_zero = FALSE /\ os.text = t BY DEF Os
<1> HIDE DEF os
<1>2. InsertGroup(addr, os, i) = [text |-> ((t \o <<>>) \o w) \o x, used_zero |-> FALSE]
  BY <1>1 DEF InsertGroup
<1>3. t \o <<>> = t BY ConcatEmpty
<1> HIDE DEF w, x
<1>4. InsertGroup(addr, os, i) = Os((t \o w) \o x, FALSE) BY <1>2, <1>3 DEF Os
<1>5. QED BY <1>4 DEF os, w, x

\* ... the first group behind zeros is printed behind two, ...
LEMMA InsertGap ==
    ASSUME NEW addr, NEW i \in Nat, NEW t \in Seq(Symbol), Group(addr, i) # {},
           i > 1, Group(addr, i - 1) = {}
    PROVE  InsertGroup(addr, Os(t, FALSE), i)
             = Os(((t \o <<Colon>>) \o <<Colon>>) \o <<Num(Group(addr, i))>>, TRUE)
<1> DEFINE os == Os(t, FALSE)
<1>1. os.used_zero = FALSE /\ os.text = t BY DEF Os
<1> HIDE DEF os
<1>2. QED BY <1>1 DEF InsertGroup, Os, os

\* ... and from then on every group is printed.
LEMMA InsertMore ==
    ASSUME NEW addr, NEW i \in Nat, NEW t \in Seq(Symbol), i > 1
    PROVE  InsertGroup(addr, Os(t, TRUE), i)
             = Os((t \o <<Colon>>) \o <<Num(Group(addr, i))>>, TRUE)
<1> DEFINE os == Os(t, TRUE)
           x == <<Num(Group(addr, i))>>
<1>1. os.used_zero = TRUE /\ os.text = t BY DEF Os
<1> HIDE DEF os
<1>2. InsertGroup(addr, os, i) = [text |-> ((t \o <<>>) \o <<Colon>>) \o x, used_zero |-> TRUE]
  BY <1>1 DEF InsertGroup
<1>3. t \o <<>> = t BY ConcatEmpty
<1> HIDE DEF x
<1>4. InsertGroup(addr, os, i) = Os((t \o <<Colon>>) \o x, TRUE) BY <1>2, <1>3 DEF Os
<1>5. QED BY <1>4 DEF os, x

\* A text and a flag are a state of the loop, ...
LEMMA OsType ==
    ASSUME NEW t \in Seq(Symbol), NEW u \in BOOLEAN
    PROVE  Os(t, u) \in OsSet
BY DEF Os, OsSet

\* ... and so is what a turn makes of one.
LEMMA InsertType ==
    ASSUME NEW addr, NEW i \in 1 .. 8, NEW os \in OsSet
    PROVE  InsertGroup(addr, os, i) \in OsSet
<1> DEFINE t == os.text
           gap == i > 1 /\ Group(addr, i - 1) = {} /\ ~ os.used_zero
           w == IF gap THEN <<Colon>> ELSE <<>>
           v == IF i > 1 THEN <<Colon>> ELSE <<>>
           x == <<Num(Group(addr, i))>>
           u == os.used_zero \/ gap
<1>1. Colon \in Symbol /\ Num(Group(addr, i)) \in Symbol BY Symbols, GroupNumber
<1>2. t \in Seq(Symbol) BY DEF OsSet
<1>3. w \in Seq(Symbol) /\ v \in Seq(Symbol) /\ x \in Seq(Symbol) BY <1>1
<1>4. u \in BOOLEAN OBVIOUS
<1>5. InsertGroup(addr, os, i)
        = IF Group(addr, i) = {} /\ ~ os.used_zero THEN os ELSE Os(((t \o w) \o v) \o x, u)
  BY DEF InsertGroup, Os
<1> HIDE DEF t, w, v, x, u, gap
<1>6. ((t \o w) \o v) \o x \in Seq(Symbol) BY <1>2, <1>3, ConcatType
<1>7. Os(((t \o w) \o v) \o x, u) \in OsSet BY <1>4, <1>6, OsType
<1>8. QED BY <1>5, <1>7

\* The loop is what its definition says.
LEMMA InsertGroupsDef ==
    ASSUME NEW addr
    PROVE  /\ InsertGroups(addr)[0] = Os(<<>>, FALSE)
           /\ \A i \in 1 .. 8 : InsertGroups(addr)[i] = InsertGroup(addr, InsertGroups(addr)[i - 1], i)
<1> DEFINE N == 8
           F == [k \in 1 .. N |-> [os \in OsSet |-> InsertGroup(addr, os, k)]]
           s0 == Os(<<>>, FALSE)
<1>1. N \in Nat OBVIOUS
<1>2. s0 \in OsSet
  <2>1. <<>> \in Seq(Symbol) OBVIOUS
  <2>2. QED BY <2>1, OsType
<1> HIDE DEF s0
<1>3. \A k \in 1 .. N : \A os \in OsSet : InsertGroup(addr, os, k) \in OsSet BY InsertType
<1> HIDE DEF N
<1>4. F \in [1 .. N -> [OsSet -> OsSet]] BY <1>3
<1>5. \A k \in 1 .. N : \A os \in OsSet : F[k][os] = InsertGroup(addr, os, k) OBVIOUS
<1> HIDE DEF F
<1>6. PICK g \in [0 .. N -> OsSet] : Loop(g, N, s0, F) BY <1>1, <1>2, <1>4, LoopExists
<1>7. \A k \in 1 .. N : k - 1 \in 0 .. N /\ g[k - 1] \in OsSet
  <2>1. \A k \in 1 .. N : k - 1 \in 0 .. N BY <1>1
  <2>2. QED BY <2>1
<1>8. ASSUME NEW k \in 0 .. N PROVE g[k] = IF k = 0 THEN s0 ELSE InsertGroup(addr, g[k - 1], k)
  <2>1. CASE k = 0 BY <1>1, <1>6, <2>1 DEF Loop
  <2>2. CASE k # 0
    <3>1. k \in 1 .. N BY <1>1, <2>2
    <3>2. g[k] = F[k][g[k - 1]] BY <1>6, <2>2 DEF Loop
    <3>3. QED BY <1>5, <1>7, <2>2, <3>1, <3>2
  <2>3. QED BY <2>1, <2>2
<1>9. g = [k \in 0 .. N |-> IF k = 0 THEN s0 ELSE InsertGroup(addr, g[k - 1], k)]
  <2>1. g = [k \in 0 .. N |-> g[k]] OBVIOUS
  <2>2. QED BY <1>8, <2>1
<1> DEFINE T == InsertGroups(addr)
<1>10. T = [k \in 0 .. N |-> IF k = 0 THEN s0 ELSE InsertGroup(addr, T[k - 1], k)]
  BY <1>9 DEF InsertGroups, N, s0, Os
<1> HIDE DEF T
<1>11. 0 \in 0 .. N /\ \A k \in 1 .. N : k \in 0 .. N /\ k # 0 BY <1>1
<1>12. T[0] = s0 /\ \A k \in 1 .. N : T[k] = InsertGroup(addr, T[k - 1], k) BY <1>10, <1>11
<1>13. QED BY <1>12 DEF N, s0, T

\* What has been printed after i turns: a groups that are not zero, then zeros up
\* to r; either the loop is among these, or it has printed what follows them.
GapText(addr, a, r, l) ==
    ((Joined(addr, 1, a) \o <<Colon>>) \o <<Colon>>) \o Joined(addr, r + 1, l)
InsertedAs(addr, i, os, a, r) ==
    /\ \A k \in 1 .. a : Group(addr, k) # {}
    /\ \A k \in a + 1 .. r : Group(addr, k) = {}
    /\ \/ os = Os(Joined(addr, 1, a), FALSE) /\ r = i
       \/ os = Os(GapText(addr, a, r, i - r), TRUE) /\ a < r /\ r < i
Inserted(addr, i, os) ==
    \E a \in 0 .. i : \E r \in a .. i : InsertedAs(addr, i, os, a, r)

\* A text with a gap is a text, ...
LEMMA GapTextType ==
    ASSUME NEW addr, NEW a \in Nat, NEW r \in Nat, NEW l \in Nat
    PROVE  GapText(addr, a, r, l) \in Seq(Symbol)
<1>1. <<Colon>> \in Seq(Symbol) BY Symbols
<1>2. Joined(addr, 1, a) \in Seq(Symbol) /\ Joined(addr, r + 1, l) \in Seq(Symbol) BY JoinedType
<1>3. QED BY <1>1, <1>2, ConcatType DEF GapText

\* ... and one group more prolongs its right part.
LEMMA GapTextMore ==
    ASSUME NEW addr, NEW a \in Nat, NEW r \in Nat, NEW l \in Nat, l > 0
    PROVE  GapText(addr, a, r, l + 1)
             = (GapText(addr, a, r, l) \o <<Colon>>) \o <<Num(Group(addr, r + 1 + l))>>
<1> DEFINE s == (Joined(addr, 1, a) \o <<Colon>>) \o <<Colon>>
           t == Joined(addr, r + 1, l)
           u == <<Colon>>
           v == <<Num(Group(addr, r + 1 + l))>>
<1>1. Colon \in Symbol /\ Num(Group(addr, r + 1 + l)) \in Symbol BY Symbols, GroupNumber
<1>2. u \in Seq(Symbol) /\ v \in Seq(Symbol) BY <1>1
<1>3. Joined(addr, 1, a) \in Seq(Symbol) /\ t \in Seq(Symbol) BY JoinedType
<1>4. s \in Seq(Symbol) BY <1>2, <1>3, ConcatType
<1>5. Joined(addr, r + 1, l + 1) = (t \o u) \o v
  <2>1. r + 1 \in Nat OBVIOUS
  <2>2. QED BY <2>1, JoinedMore
<1>6. GapText(addr, a, r, l) = s \o t BY DEF GapText
<1>7. GapText(addr, a, r, l + 1) = s \o ((t \o u) \o v) BY <1>5 DEF GapText
<1> HIDE DEF s, t, u, v
<1>8. ((s \o t) \o u) \o v = s \o ((t \o u) \o v)
  <2>1. t \in Seq(Symbol) BY <1>3
  <2>2. u \in Seq(Symbol) BY <1>2
  <2>3. v \in Seq(Symbol) BY <1>2
  <2>4. (s \o t) \o u = s \o (t \o u) BY <1>4, <2>1, <2>2
  <2> DEFINE w == t \o u
  <2>5. w \in Seq(Symbol) BY <2>1, <2>2
  <2> HIDE DEF w
  <2>6. (s \o w) \o v = s \o (w \o v) BY <1>4, <2>3, <2>5
  <2>7. QED BY <2>4, <2>6 DEF w
<1>9. QED BY <1>6, <1>7, <1>8 DEF u, v

\* A turn of the loop keeps what has been printed in this form.
LEMMA InsertStep ==
    ASSUME NEW addr, NEW i \in 1 .. 8, NEW os, Inserted(addr, i - 1, os)
    PROVE  Inserted(addr, i, InsertGroup(addr, os, i))
<1> DEFINE x == <<Num(Group(addr, i))>>
           new == InsertGroup(addr, os, i)
<1>1. PICK a \in 0 .. i - 1 : \E r \in a .. i - 1 : InsertedAs(addr, i - 1, os, a, r) BY DEF Inserted
<1>2. PICK r \in a .. i - 1 : InsertedAs(addr, i - 1, os, a, r) BY <1>1
<1>3. a \in Nat /\ r \in Nat /\ a <= r /\ r < i /\ i \in Nat /\ 1 \in Nat OBVIOUS
<1>4. Joined(addr, 1, a) \in Seq(Symbol) BY <1>3, JoinedType
<1>5. /\ \A k \in 1 .. a : Group(addr, k) # {}
      /\ \A k \in a + 1 .. r : Group(addr, k) = {}
  BY <1>2 DEF InsertedAs
<1> HIDE DEF new
<1>6. ASSUME NEW b \in 0 .. i, NEW q \in b .. i, InsertedAs(addr, i, new, b, q)
      PROVE  Inserted(addr, i, new)
  BY <1>6 DEF Inserted
<1>7. CASE os = Os(Joined(addr, 1, a), FALSE) /\ r = i - 1
  <2>1. CASE Group(addr, i) = {}
    <3>1. new = Os(Joined(addr, 1, a), FALSE) BY <1>7, <2>1, InsertSkip DEF new
    <3>2. \A k \in a + 1 .. i : Group(addr, k) = {} BY <1>3, <1>5, <1>7, <2>1
    <3>3. InsertedAs(addr, i, new, a, i) BY <1>5, <3>1, <3>2 DEF InsertedAs
    <3>4. a \in 0 .. i /\ i \in a .. i BY <1>3
    <3>5. QED BY <1>6, <3>3, <3>4 DEF new
  <2>2. CASE Group(addr, i) # {} /\ i > 1 /\ Group(addr, i - 1) = {}
    <3>1. a < r
      <4>1. SUFFICES ASSUME a = r PROVE FALSE BY <1>3
      <4>2. i - 1 \in 1 .. a BY <1>3, <1>7, <2>2, <4>1
      <4>3. QED BY <1>5, <2>2, <4>2
    <3>2. new = Os(((Joined(addr, 1, a) \o <<Colon>>) \o <<Colon>>) \o x, TRUE)
      BY <1>3, <1>4, <1>7, <2>2, InsertGap DEF new
    <3>3. i - r = 1 /\ r + 1 = i BY <1>3, <1>7
    <3>4. Joined(addr, i, 1) = x BY <1>3, JoinedMore
    <3>5. new = Os(GapText(addr, a, r, i - r), TRUE) BY <3>2, <3>3, <3>4 DEF GapText
    <3>6. InsertedAs(addr, i, new, a, r) BY <1>3, <1>5, <3>1, <3>5 DEF InsertedAs
    <3>7. a \in 0 .. i /\ r \in a .. i BY <1>3
    <3>8. QED BY <1>6, <3>6, <3>7 DEF new
  <2>3. CASE Group(addr, i) # {} /\ ~ (i > 1 /\ Group(addr, i - 1) = {})
    <3>1. a = r
      <4>1. SUFFICES ASSUME a < r PROVE FALSE BY <1>3
      <4>2. r \in a + 1 .. r /\ i > 1 /\ i - 1 = r BY <1>3, <1>7, <4>1
      <4>3. Group(addr, i - 1) = {} BY <1>5, <4>2
      <4>4. QED BY <2>3, <4>2, <4>3
    <3>2. i = a + 1 BY <1>3, <1>7, <3>1
    <3>3. new = Os((Joined(addr, 1, a) \o (IF i > 1 THEN <<Colon>> ELSE <<>>)) \o x, FALSE)
      BY <1>3, <1>4, <1>7, <2>3, InsertPlain DEF new
    <3>4. (Joined(addr, 1, a) \o (IF i > 1 THEN <<Colon>> ELSE <<>>)) \o x = Joined(addr, 1, i)
      <4>1. CASE a = 0
        <5>5. i = 1 BY <3>2, <4>1
        <5>6. Joined(addr, 1, 0) = <<>> /\ Joined(addr, 1, 1) = <<Num(Group(addr, 1))>>
          BY JoinedMore
        <5>1. Joined(addr, 1, a) = <<>> /\ Joined(addr, 1, i) = x BY <4>1, <5>5, <5>6
        <5>2. ~ (i > 1) BY <3>2, <4>1
        <5>3. <<>> \o <<>> = <<>> /\ <<>> \o x = x OBVIOUS
        <5> HIDE DEF x
        <5>4. QED BY <5>1, <5>2, <5>3
      <4>2. CASE a > 0
        <5>1. i > 1 /\ 1 + a = i BY <1>3, <3>2, <4>2
        <5>2. Joined(addr, 1, a + 1) = (Joined(addr, 1, a) \o <<Colon>>) \o <<Num(Group(addr, 1 + a))>>
          BY <1>3, <4>2, JoinedMore
        <5>3. QED BY <3>2, <5>1, <5>2
      <4>3. QED BY <1>3, <4>1, <4>2
    <3>5. new = Os(Joined(addr, 1, i), FALSE)
      <4> HIDE DEF x
      <4> QED BY <3>3, <3>4
    <3>6. ASSUME NEW k \in 1 .. i PROVE Group(addr, k) # {}
      <4>1. k \in 1 .. a \/ k = i BY <1>3, <3>2
      <4>2. QED BY <1>5, <2>3, <4>1
    <3>7. \A k \in i + 1 .. i : Group(addr, k) = {} BY <1>3
    <3>8. InsertedAs(addr, i, new, i, i) BY <3>5, <3>6, <3>7 DEF InsertedAs
    <3>9. i \in 0 .. i /\ i \in i .. i BY <1>3
    <3>10. QED BY <1>6, <3>8, <3>9 DEF new
  <2>4. QED BY <2>1, <2>2, <2>3
<1>8. CASE os = Os(GapText(addr, a, r, i - 1 - r), TRUE) /\ a < r /\ r < i - 1
  <2> DEFINE l == i - 1 - r
  <2>1. l \in Nat /\ l > 0 /\ i > 1 /\ l + 1 = i - r /\ r + 1 + l = i BY <1>3, <1>8
  <2> HIDE DEF l
  <2>2. GapText(addr, a, r, l) \in Seq(Symbol) BY <1>3, <2>1, GapTextType
  <2>3. new = Os((GapText(addr, a, r, l) \o <<Colon>>) \o x, TRUE)
    <3>1. os = Os(GapText(addr, a, r, l), TRUE) BY <1>8 DEF l
    <3>2. QED BY <1>3, <2>1, <2>2, <3>1, InsertMore DEF new
  <2>4. GapText(addr, a, r, l + 1)
          = (GapText(addr, a, r, l) \o <<Colon>>) \o <<Num(Group(addr, r + 1 + l))>>
    <3>1. a \in Nat /\ r \in Nat BY <1>3
    <3>2. l \in Nat /\ l > 0 BY <2>1
    <3>3. QED BY <3>1, <3>2, GapTextMore
  <2>5. new = Os(GapText(addr, a, r, i - r), TRUE) BY <2>1, <2>3, <2>4
  <2>6. InsertedAs(addr, i, new, a, r) BY <1>3, <1>5, <1>8, <2>5 DEF InsertedAs
  <2>7. a \in 0 .. i /\ r \in a .. i BY <1>3
  <2>8. QED BY <1>6, <2>6, <2>7 DEF new
<1>9. QED BY <1>2, <1>7, <1>8 DEF InsertedAs

\* What the loop has printed of an address.
LEMMA InsertedAll ==
    ASSUME NEW addr
    PROVE  Inserted(addr, 8, InsertGroups(addr)[8])
<1> DEFINE T == InsertGroups(addr)
           N == 8
           S == [k \in 0 .. N |-> {os \in {T[j] : j \in 0 .. N} : Inserted(addr, k, os)}]
<1>1. /\ T[0] = Os(<<>>, FALSE)
      /\ \A i \in 1 .. N : T[i] = InsertGroup(addr, T[i - 1], i)
  BY InsertGroupsDef
<1> HIDE DEF T
<1>2. Inserted(addr, 0, T[0])
  <2>1. Joined(addr, 1, 0) = <<>> BY JoinedMore
  <2>2. \A k : k \notin 1 .. 0 /\ k \notin 0 + 1 .. 0 OBVIOUS
  <2>3. InsertedAs(addr, 0, T[0], 0, 0) BY <1>1, <2>1, <2>2 DEF InsertedAs
  <2>4. 0 \in 0 .. 0 OBVIOUS
  <2>5. QED BY <2>3, <2>4 DEF Inserted
<1>3. \A i \in 1 .. N : Inserted(addr, i - 1, T[i - 1]) => Inserted(addr, i, T[i])
  BY <1>1, InsertStep
<1>4. N \in Nat OBVIOUS
<1> HIDE DEF N
<1>5. \A k \in 0 .. N : T[k] \in S[k]
  <2>1. T[0] \in S[0] BY <1>2, <1>4
  <2>2. \A k \in 1 .. N : k \in 0 .. N /\ k - 1 \in 0 .. N BY <1>4
  <2>3. ASSUME NEW k \in 1 .. N, T[k - 1] \in S[k - 1] PROVE T[k] \in S[k]
    BY <1>3, <2>2, <2>3
  <2> HIDE DEF S
  <2>4. QED BY <1>4, <2>1, <2>3, LoopInvariant
<1>6. Inserted(addr, N, T[N])
  <2>1. N \in 0 .. N BY <1>4
  <2>2. QED BY <1>5, <2>1
<1>7. QED BY <1>6 DEF N, T

\* What the loop has printed of an address whose last group is not zero.
LEMMA InsertedText ==
    ASSUME NEW addr, Group(addr, 8) # {}
    PROVE  \/ InsertGroups(addr)[8] = Os(Joined(addr, 1, 8), FALSE)
           \/ \E a \in 0 .. 6 : \E r \in a + 1 .. 7 :
                /\ \A k \in a + 1 .. r : Group(addr, k) = {}
                /\ InsertGroups(addr)[8] = Os(GapText(addr, a, r, 8 - r), TRUE)
<1> DEFINE T == InsertGroups(addr)
           N == 8
<1>4. N \in Nat OBVIOUS
<1>6. Inserted(addr, N, T[N]) BY InsertedAll
<1> HIDE DEF N, T
<1>7. PICK a \in 0 .. N : \E r \in a .. N : InsertedAs(addr, N, T[N], a, r) BY <1>6 DEF Inserted
<1>8. PICK r \in a .. N : InsertedAs(addr, N, T[N], a, r) BY <1>7
<1>9. CASE T[N] = Os(Joined(addr, 1, a), FALSE) /\ r = N
  <2>1. a = N
    <3>1. SUFFICES ASSUME a < N PROVE FALSE BY <1>4
    <3>2. N \in a + 1 .. r BY <1>4, <1>9, <3>1
    <3>3. QED BY <1>8, <3>2 DEF InsertedAs, N
  <2>2. QED BY <1>9, <2>1 DEF N, T
<1>10. CASE T[N] = Os(GapText(addr, a, r, N - r), TRUE) /\ a < r /\ r < N
  <2>1. a \in 0 .. 6 /\ r \in a + 1 .. 7 BY <1>10 DEF N
  <2>2. \A k \in a + 1 .. r : Group(addr, k) = {} BY <1>8 DEF InsertedAs
  <2>3. QED BY <1>10, <2>1, <2>2 DEF N, T
<1>11. QED BY <1>8, <1>9, <1>10 DEF InsertedAs

\* And of one whose last group is zero: the groups before the zeros at the end, or a
\* "::" for earlier zeros and all that follows them.
LEMMA ZeroText ==
    ASSUME NEW addr, Group(addr, 8) = {}
    PROVE  \/ \E a \in 0 .. 7 : InsertGroups(addr)[8] = Os(Joined(addr, 1, a), FALSE)
           \/ \E a \in 0 .. 6 : \E r \in a + 1 .. 7 :
                InsertGroups(addr)[8] = Os(GapText(addr, a, r, 8 - r), TRUE)
<1> DEFINE T == InsertGroups(addr)
           N == 8
<1>4. N \in Nat /\ N > 0 OBVIOUS
<1>6. Inserted(addr, N, T[N]) BY InsertedAll
<1> HIDE DEF N, T
<1>7. PICK a \in 0 .. N : \E r \in a .. N : InsertedAs(addr, N, T[N], a, r) BY <1>6 DEF Inserted
<1>8. PICK r \in a .. N : InsertedAs(addr, N, T[N], a, r) BY <1>7
<1>9. CASE T[N] = Os(Joined(addr, 1, a), FALSE) /\ r = N
  <2>1. a # N
    <3>1. SUFFICES ASSUME a = N PROVE FALSE OBVIOUS
    <3>2. N \in 1 .. a BY <1>4, <3>1
    <3>3. QED BY <1>8, <3>2 DEF InsertedAs, N
  <2>2. a \in 0 .. 7 BY <2>1 DEF N
  <2>3. QED BY <1>9, <2>2 DEF N, T
<1>10. CASE T[N] = Os(GapText(addr, a, r, N - r), TRUE) /\ a < r /\ r < N
  <2>1. a \in 0 .. 6 /\ r \in a + 1 .. 7 BY <1>10 DEF N
  <2>2. QED BY <1>10, <2>1 DEF N, T
<1>11. QED BY <1>8, <1>9, <1>10 DEF InsertedAs

-----------------------------------------------------------------------------
(* Reading the text.                                                        *)

\* What Append makes.
LEMMA AppendType ==
    ASSUME NEW C, NEW s \in Seq(C), NEW x \in C
    PROVE  /\ Append(s, x) \in Seq(C)
           /\ Append(s, x) = [k \in 1 .. Len(s) + 1 |-> IF k = Len(s) + 1 THEN x ELSE s[k]]
<1> DEFINE n == Len(s) + 1
           f == [k \in 1 .. n |-> IF k = n THEN x ELSE s[k]]
           t == Append(s, x)
<1>1. n \in Nat /\ t \in Seq(C) /\ Len(t) = n /\ t[n] = x /\ \A k \in 1 .. n - 1 : t[k] = s[k] OBVIOUS
<1>2. \A k \in 1 .. n : k = n \/ k \in 1 .. n - 1 BY <1>1
<1>3. \A k \in 1 .. n - 1 : s[k] \in C OBVIOUS
<1> HIDE DEF n, t
<1>4. \A k \in 1 .. n : t[k] = IF k = n THEN x ELSE s[k] BY <1>1, <1>2
<1>5. t = [k \in 1 .. n |-> t[k]] BY <1>1
<1>6. t = f BY <1>4, <1>5
<1>7. QED BY <1>1, <1>6 DEF n, t

\* The bytes of l groups.
Pieces(addr, m, l) == [k \in 1 .. l |-> Swapped(2, Group(addr, m + k - 1))]

\* The groups, swapped back and put together, are the bytes they were cut from.
LEMMA PiecesBytes ==
    ASSUME NEW addr, Bytes(addr, 16), NEW m \in 1 .. 9, NEW l \in Nat, m + l - 1 <= 8
    PROVE  FlattenSeq(Pieces(addr, m, l)) = SubSeq(addr, 2 * m - 1, 2 * (m + l - 1))
<1> DEFINE Good == {n \in Nat : m + n - 1 <= 8 =>
               /\ Pieces(addr, m, n) \in Seq(Seq(Byte))
               /\ FlattenSeq(Pieces(addr, m, n)) = SubSeq(addr, 2 * m - 1, 2 * (m + n - 1))}
<1>1. addr \in Seq(Byte) /\ Len(addr) = 16 BY DEF Bytes
<1>2. 0 \in Good
  <2>1. Pieces(addr, m, 0) = <<>> BY DEF Pieces
  <2>2. <<>> \in Seq(Seq(Byte)) /\ FlattenSeq(<<>>) = <<>> BY DEF FlattenSeq
  <2>3. SubSeq(addr, 2 * m - 1, 2 * (m + 0 - 1)) = <<>>
    <3> DEFINE c == 2 * m - 1
               d == 2 * (m + 0 - 1)
    <3>1. c \in Nat /\ d \in Nat /\ 1 <= c /\ c <= d + 1 /\ d <= Len(addr) /\ d - c + 1 = 0 BY <1>1
    <3> HIDE DEF c, d
    <3>2. SubSeq(addr, c, d) \in Seq(Byte) /\ Len(SubSeq(addr, c, d)) = 0 BY <1>1, <3>1, SubSeqType
    <3>3. SubSeq(addr, c, d) = <<>> BY <3>2
    <3>4. QED BY <3>3 DEF c, d
  <2>4. QED BY <2>1, <2>2, <2>3
<1>3. ASSUME NEW n \in Nat, n \in Good PROVE n + 1 \in Good
  <2>1. SUFFICES ASSUME m + (n + 1) - 1 <= 8
        PROVE  /\ Pieces(addr, m, n + 1) \in Seq(Seq(Byte))
               /\ FlattenSeq(Pieces(addr, m, n + 1)) = SubSeq(addr, 2 * m - 1, 2 * (m + (n + 1) - 1))
    OBVIOUS
  <2> DEFINE ps == Pieces(addr, m, n)
             g == m + n
             x == Swapped(2, Group(addr, g))
             b == 2 * (m + n - 1)
             c == 2 * m - 1
  <2>2. m + n - 1 <= 8 BY <2>1
  <2>3. ps \in Seq(Seq(Byte)) /\ FlattenSeq(ps) = SubSeq(addr, c, b) BY <1>3, <2>2
  <2>4. g \in 1 .. 8 /\ 2 * g - 1 = b + 1 BY <2>1
  <2> HIDE DEF Good
  <2>5. x \in Seq(Byte) /\ x = SubSeq(addr, b + 1, 2 * g)
    <3> HIDE DEF g, b
    <3> QED BY <2>4, GroupBytes DEF Bytes
  <2>6. Pieces(addr, m, n + 1) = Append(ps, x)
    <3>1. Len(ps) = n BY <2>3 DEF Pieces
    <3>2. Append(ps, x) = [k \in 1 .. n + 1 |-> IF k = n + 1 THEN x ELSE ps[k]]
      <4> HIDE DEF ps, x
      <4>1. ps \in Seq(Seq(Byte)) BY <2>3
      <4>2. x \in Seq(Byte) BY <2>5
      <4>3. Append(ps, x) = [k \in 1 .. Len(ps) + 1 |-> IF k = Len(ps) + 1 THEN x ELSE ps[k]]
        BY <4>1, <4>2, AppendType
      <4>4. QED BY <3>1, <4>3
    <3>3. \A k \in 1 .. n : ps[k] = Swapped(2, Group(addr, m + k - 1)) BY DEF Pieces
    <3>4. m + (n + 1) - 1 = g OBVIOUS
    <3>5. Pieces(addr, m, n + 1) = [k \in 1 .. n + 1 |-> Swapped(2, Group(addr, m + k - 1))] BY DEF Pieces
    <3> HIDE DEF ps, g
    <3>6. \A k \in 1 .. n + 1 :
             Swapped(2, Group(addr, m + k - 1)) = IF k = n + 1 THEN x ELSE ps[k]
      BY <3>3, <3>4
    <3> HIDE DEF x
    <3>7. QED BY <3>2, <3>5, <3>6
  <2>7. b \in Nat /\ c \in Nat /\ 2 * g \in Nat /\ 1 <= c /\ c <= b + 1 /\ b <= 2 * g /\ 2 * g <= Len(addr)
        /\ 2 * g = 2 * (m + (n + 1) - 1)
    BY <1>1, <2>1
  <2> HIDE DEF ps, x, g, b, c
  <2>8. Append(ps, x) \in Seq(Seq(Byte)) /\ FlattenSeq(Append(ps, x)) = FlattenSeq(ps) \o x
    <3>1. ps \in Seq(Seq(Byte)) BY <2>3
    <3>2. x \in Seq(Byte) BY <2>5
    <3>3. QED BY <3>1, <3>2, FlattenAppend, AppendType
  <2>9. SubSeq(addr, c, b) \o SubSeq(addr, b + 1, 2 * g) = SubSeq(addr, c, 2 * g)
    BY <1>1, <2>7, SubSeqSplit
  <2>10. FlattenSeq(Append(ps, x)) = SubSeq(addr, c, 2 * g) BY <2>3, <2>5, <2>8, <2>9
  <2>11. Pieces(addr, m, n + 1) \in Seq(Seq(Byte)) BY <2>6, <2>8
  <2>12. FlattenSeq(Pieces(addr, m, n + 1)) = SubSeq(addr, c, 2 * (m + (n + 1) - 1))
    BY <2>6, <2>7, <2>10
  <2>13. QED BY <2>11, <2>12 DEF c
<1> HIDE DEF Good
<1>4. Nat \subseteq Good BY <1>2, <1>3, SetInduction
<1>5. QED BY <1>4 DEF Good

\* Joined groups have single colons between them, and their bytes are read.
LEMMA JoinedRead ==
    ASSUME NEW addr, Bytes(addr, 16), NEW m \in 1 .. 9, NEW l \in Nat, m + l - 1 <= 8
    PROVE  /\ \A j \in 1 .. JoinLen(l) : Joined(addr, m, l)[j] = Colon <=> j % 2 = 0
           /\ Plain(Joined(addr, m, l))
           /\ BytesOf(Joined(addr, m, l)) = SubSeq(addr, 2 * m - 1, 2 * (m + l - 1))
<1> DEFINE t == Joined(addr, m, l)
           n == JoinLen(l)
<1>1. /\ n \in Nat /\ t \in Seq(Symbol) /\ Len(t) = n
      /\ \A j \in 1 .. n : t[j] = IF j % 2 = 1 THEN Num(Group(addr, m + (j - 1) \div 2)) ELSE Colon
  <2>1. m \in Nat OBVIOUS
  <2>2. QED BY <2>1, JoinedType
<1>2. (n + 1) \div 2 = l /\ (\A k \in 1 .. l : 2 * k - 1 \in 1 .. n) BY DEF JoinLen
<1>3. \A k : Num(Group(addr, k)) # Colon /\ Num(Group(addr, k)).num = Group(addr, k)
  BY GroupNumber, Symbols
<1>4. \A k \in 1 .. l : (2 * k - 1) % 2 = 1 /\ m + ((2 * k - 1) - 1) \div 2 = m + k - 1 OBVIOUS
<1>5. \A j \in 1 .. n : j % 2 = 0 \/ j % 2 = 1 OBVIOUS
<1> HIDE DEF t, n
<1>6. \A j \in 1 .. n : t[j] = Colon <=> j % 2 = 0
  <2>1. SUFFICES ASSUME NEW j \in 1 .. n PROVE t[j] = Colon <=> j % 2 = 0 OBVIOUS
  <2>2. CASE j % 2 = 0
    <3>1. j % 2 # 1 BY <2>2
    <3>2. QED BY <1>1, <2>2, <3>1
  <2>3. CASE j % 2 = 1
    <3>1. j % 2 # 0 BY <2>3
    <3>2. QED BY <1>1, <1>3, <2>3, <3>1
  <2>4. QED BY <1>5, <2>2, <2>3
<1>7. Plain(t)
  <2>1. DOMAIN t = 1 .. n BY <1>1
  <2>2. QED BY <1>6, <2>1 DEF Plain
<1>8. \A k \in 1 .. l : t[2 * k - 1].num = Group(addr, m + k - 1)
  <2>1. SUFFICES ASSUME NEW k \in 1 .. l PROVE t[2 * k - 1].num = Group(addr, m + k - 1) OBVIOUS
  <2> DEFINE j == 2 * k - 1
  <2>2. j \in 1 .. n /\ j % 2 = 1 /\ m + (j - 1) \div 2 = m + k - 1 BY <1>2, <1>4
  <2> HIDE DEF j
  <2>3. t[j] = Num(Group(addr, m + k - 1)) BY <1>1, <2>2
  <2>4. QED BY <1>3, <2>3 DEF j
<1>9. BytesOf(t) = FlattenSeq([k \in 1 .. l |-> Swapped(2, t[2 * k - 1].num)]) BY <1>1, <1>2 DEF BytesOf
<1>10. [k \in 1 .. l |-> Swapped(2, t[2 * k - 1].num)] = Pieces(addr, m, l) BY <1>8 DEF Pieces
<1>11. BytesOf(t) = SubSeq(addr, 2 * m - 1, 2 * (m + l - 1)) BY <1>9, <1>10, PiecesBytes
<1>12. QED BY <1>6, <1>7, <1>11 DEF t, n

\* Two sequences and two symbols between them.
LEMMA Around ==
    ASSUME NEW S, NEW s \in Seq(S), NEW t \in Seq(S), NEW x \in S, NEW y \in S, NEW g,
           g = ((s \o <<x>>) \o <<y>>) \o t
    PROVE  /\ g \in Seq(S) /\ Len(g) = Len(s) + 2 + Len(t)
           /\ \A j \in 1 .. Len(s) : g[j] = s[j]
           /\ g[Len(s) + 1] = x /\ g[Len(s) + 2] = y
           /\ \A j \in 1 .. Len(t) : g[Len(s) + 2 + j] = t[j]
           /\ SubSeq(g, 1, Len(s)) = s
           /\ SubSeq(g, Len(s) + 3, Len(g)) = t
<1> DEFINE h == (s \o <<x>>) \o <<y>>
           n == Len(s)
           l == Len(t)
<1>1. n \in Nat /\ l \in Nat OBVIOUS
<1>2. /\ h \in Seq(S) /\ Len(h) = n + 2
      /\ \A j \in 1 .. n : h[j] = s[j]
      /\ h[n + 1] = x /\ h[n + 2] = y
  BY TwoMore
<1>3. g = h \o t OBVIOUS
<1> HIDE DEF h, n, l
<1>4. /\ h \o t \in Seq(S) /\ Len(h \o t) = Len(h) + Len(t)
      /\ \A j \in 1 .. Len(h) : (h \o t)[j] = h[j]
      /\ \A j \in 1 .. Len(t) : (h \o t)[Len(h) + j] = t[j]
  <2>1. h \in Seq(S) BY <1>2
  <2>2. QED BY <2>1
<1>5. /\ g \in Seq(S) /\ Len(g) = n + 2 + l
      /\ \A j \in 1 .. n + 2 : g[j] = h[j]
      /\ \A j \in 1 .. l : g[n + 2 + j] = t[j]
  BY <1>2, <1>3, <1>4 DEF l
<1>6. /\ \A j \in 1 .. n : j \in 1 .. n + 2
      /\ n + 1 \in 1 .. n + 2 /\ n + 2 \in 1 .. n + 2
  BY <1>1
<1>7. /\ \A j \in 1 .. n : g[j] = s[j]
      /\ g[n + 1] = x /\ g[n + 2] = y
  BY <1>2, <1>5, <1>6
<1>8. SubSeq(g, 1, n) = s
  <2>1. 1 \in Nat /\ 1 <= n + 1 /\ n <= Len(g) /\ n - 1 + 1 = n BY <1>1, <1>5
  <2> DEFINE One == 1
  <2>6. One \in Nat /\ 1 <= One /\ One <= n + 1 /\ n <= Len(g) /\ n - One + 1 = n BY <1>1, <2>1
  <2>7. g \in Seq(S) BY <1>5
  <2> HIDE DEF One
  <2>8. SubSeq(g, One, n) \in Seq(S) /\ Len(SubSeq(g, One, n)) = n - One + 1
    BY <1>1, <2>6, <2>7, SubSeqType
  <2>2. SubSeq(g, 1, n) \in Seq(S) /\ Len(SubSeq(g, 1, n)) = n BY <2>6, <2>8 DEF One
  <2>3. \A j \in 1 .. n : SubSeq(g, 1, n)[j] = g[j] BY <1>1, <1>5, <2>1
  <2>4. \A j \in 1 .. n : SubSeq(g, 1, n)[j] = s[j] BY <1>7, <2>3
  <2>5. QED BY <2>2, <2>4, SeqEqual DEF n
<1>9. SubSeq(g, n + 3, Len(g)) = t
  <2> DEFINE c == n + 3
             d == Len(g)
  <2>8. d = n + 2 + l BY <1>5
  <2>9. d <= Len(g) BY <1>1, <2>8
  <2> HIDE DEF d
  <2>1. c \in Nat /\ d \in Nat /\ 1 <= c /\ c <= d + 1 /\ d <= Len(g) /\ d - c + 1 = l
    BY <1>1, <2>8, <2>9
  <2>2. \A j \in 1 .. l : c + j - 1 = n + 2 + j BY <1>1
  <2> HIDE DEF c, d
  <2>3. SubSeq(g, c, d) \in Seq(S) /\ Len(SubSeq(g, c, d)) = l BY <1>1, <1>5, <2>1, SubSeqType
  <2>4. \A j \in 1 .. l : SubSeq(g, c, d)[j] = g[c + j - 1] BY <1>1, <1>5, <2>1
  <2>5. \A j \in 1 .. l : SubSeq(g, c, d)[j] = t[j] BY <1>5, <2>2, <2>4
  <2>6. SubSeq(g, c, d) = t BY <2>3, <2>5, SeqEqual DEF l
  <2>7. QED BY <2>6 DEF c, d
<1>10. QED BY <1>5, <1>7, <1>8, <1>9 DEF n, l

\* The zeros that a gap stands for.
LEMMA GapZeros ==
    ASSUME NEW addr, Bytes(addr, 16), NEW a \in 0 .. 6, NEW r \in a + 1 .. 7,
           \A k \in a + 1 .. r : Group(addr, k) = {}
    PROVE  SubSeq(addr, 2 * a + 1, 2 * r) = Zeros(2 * r - 2 * a)
<1> DEFINE c == 2 * a + 1
           d == 2 * r
           n == 2 * r - 2 * a
           s == SubSeq(addr, c, d)
<1>1. addr \in Seq(Byte) /\ Len(addr) = 16 BY DEF Bytes
<1>2. c \in Nat /\ d \in Nat /\ n \in Nat /\ 1 <= c /\ c <= d + 1 /\ d <= Len(addr) /\ d - c + 1 = n BY <1>1
<1>3. ASSUME NEW j \in 1 .. n PROVE addr[c + j - 1] = {}
  <2> DEFINE k == a + (j + 1) \div 2
  <2>4. a \in Nat /\ r \in Nat /\ a <= 6 /\ r <= 7 /\ j \in Nat /\ 1 <= j /\ j <= 2 * r - 2 * a OBVIOUS
  <2> DEFINE q == (j + 1) \div 2
  <2>5. q \in Nat /\ (j + 1 = 2 * q \/ j + 1 = 2 * q + 1) BY <2>4
  <2> HIDE DEF q
  <2>6. 1 <= q /\ q <= r - a BY <2>4, <2>5
  <2>7. k = a + q BY DEF q
  <2> HIDE DEF k
  <2>1. k \in a + 1 .. r /\ k \in 1 .. 8 /\ (c + j - 1 = 2 * k - 1 \/ c + j - 1 = 2 * k)
    BY <2>4, <2>5, <2>6, <2>7
  <2> HIDE DEF k, c
  <2>2. addr[2 * k - 1] = {} /\ addr[2 * k] = {} BY <2>1, ZeroGroup
  <2>3. QED BY <2>1, <2>2
<1> HIDE DEF c, d, n
<1>4. s \in Seq(Byte) /\ Len(s) = n BY <1>1, <1>2, SubSeqType
<1>5. \A j \in 1 .. n : s[j] = addr[c + j - 1] BY <1>1, <1>2
<1> HIDE DEF s
<1>6. \A j \in 1 .. n : s[j] = {} BY <1>3, <1>5
<1>7. s = [j \in 1 .. n |-> s[j]] BY <1>2, <1>4
<1>8. s = Zeros(n) BY <1>6, <1>7 DEF Zeros
<1>9. QED BY <1>8 DEF s, c, d, n

\* A text without "::" is read as the bytes it was made of.
LEMMA WholeRead ==
    ASSUME NEW addr, Bytes(addr, 16)
    PROVE  ParseIPv6(Joined(addr, 1, 8)) = addr
<1> DEFINE m == 1
           l == 8
           t == Joined(addr, m, l)
           n == JoinLen(l)
<1>1. m \in 1 .. 9 /\ m \in Nat /\ l \in Nat /\ m + l - 1 <= 8 OBVIOUS
<1>2. 2 * m - 1 = 1 /\ 2 * (m + l - 1) = 16 OBVIOUS
<1> HIDE DEF m, l
<1>3. n \in Nat /\ t \in Seq(Symbol) /\ Len(t) = n BY <1>1, JoinedType
<1>4. /\ \A j \in 1 .. n : t[j] = Colon <=> j % 2 = 0
      /\ Plain(t)
      /\ BytesOf(t) = SubSeq(addr, 2 * m - 1, 2 * (m + l - 1))
  BY <1>1, JoinedRead
<1> HIDE DEF t, n
<1>5. Gaps(t) = {}
  <2>1. SUFFICES ASSUME NEW k \in 1 .. n - 1, t[k] = Colon, t[k + 1] = Colon PROVE FALSE
    BY <1>3 DEF Gaps
  <2>2. k \in 1 .. n /\ k + 1 \in 1 .. n BY <1>3
  <2>3. k % 2 = 0 /\ (k + 1) % 2 = 0 BY <1>4, <2>1, <2>2
  <2>4. QED BY <2>2, <2>3
<1>6. ParseIPv6(t) = BytesOf(t) BY <1>4, <1>5 DEF ParseIPv6
<1>7. SubSeq(addr, 1, 16) = addr
  <2>1. addr \in Seq(Byte) /\ Len(addr) = 16 BY DEF Bytes
  <2>2. SubSeq(addr, 1, Len(addr)) = addr BY <2>1
  <2>3. QED BY <2>1, <2>2
<1>8. ParseIPv6(t) = addr BY <1>2, <1>4, <1>6, <1>7
<1>9. QED BY <1>8 DEF t, m, l

\* The one "::" of a text with a gap.
LEMMA OneGap ==
    ASSUME NEW addr, Bytes(addr, 16), NEW a \in 0 .. 6, NEW r \in a + 1 .. 7
    PROVE  Gaps(GapText(addr, a, r, 8 - r)) = {JoinLen(a) + 1}
<1> DEFINE m == 1
           q == r + 1
           l == 8 - r
           u == Joined(addr, m, a)
           w == Joined(addr, q, l)
           t == GapText(addr, a, r, l)
           n == JoinLen(a)
           p == JoinLen(l)
<1>1. /\ m \in 1 .. 9 /\ m \in Nat /\ a \in Nat /\ m + a - 1 <= 8
      /\ q \in 1 .. 9 /\ q \in Nat /\ l \in Nat /\ q + l - 1 <= 8 /\ l > 0
  OBVIOUS
<1>2. t = ((u \o <<Colon>>) \o <<Colon>>) \o w BY DEF GapText
<1> HIDE DEF m, q, l
<1>3. n \in Nat /\ u \in Seq(Symbol) /\ Len(u) = n BY <1>1, JoinedType
<1>4. p \in Nat /\ w \in Seq(Symbol) /\ Len(w) = p BY <1>1, JoinedType
<1>5. \A j \in 1 .. n : u[j] = Colon <=> j % 2 = 0 BY <1>1, JoinedRead
<1>6. \A j \in 1 .. p : w[j] = Colon <=> j % 2 = 0 BY <1>1, JoinedRead
<1>7. n = 0 \/ n % 2 = 1 BY <1>1 DEF JoinLen
<1>8. Colon \in Symbol BY Symbols
<1> HIDE DEF u, w, t, n, p
<1>9. u \in Seq(Symbol) BY <1>3
<1>10. w \in Seq(Symbol) BY <1>4
<1>11. /\ t \in Seq(Symbol) /\ Len(t) = Len(u) + 2 + Len(w)
       /\ \A j \in 1 .. Len(u) : t[j] = u[j]
       /\ t[Len(u) + 1] = Colon /\ t[Len(u) + 2] = Colon
       /\ \A j \in 1 .. Len(w) : t[Len(u) + 2 + j] = w[j]
  BY <1>2, <1>8, <1>9, <1>10, Around
<1>12. Len(t) = n + 2 + p BY <1>3, <1>4, <1>11
<1>13. n + 1 \in Gaps(t)
  <2>1. n + 1 \in 1 .. Len(t) - 1 /\ (n + 1) + 1 = n + 2 BY <1>3, <1>4, <1>12
  <2>2. t[n + 1] = Colon /\ t[n + 2] = Colon BY <1>3, <1>11
  <2>3. QED BY <2>1, <2>2 DEF Gaps
<1>14. ASSUME NEW k \in Gaps(t) PROVE k = n + 1
  <2>1. k \in 1 .. Len(t) - 1 /\ t[k] = Colon /\ t[k + 1] = Colon BY DEF Gaps
  <2>2. k \in Nat /\ 1 <= k /\ k <= n + 1 + p BY <1>3, <1>4, <1>12, <2>1
  <2>3. ~ (k < n)
    <3>1. SUFFICES ASSUME k < n PROVE FALSE OBVIOUS
    <3>2. k \in 1 .. n /\ k + 1 \in 1 .. n BY <1>3, <2>2, <3>1
    <3>3. u[k] = Colon /\ u[k + 1] = Colon BY <1>3, <1>11, <2>1, <3>2
    <3>4. k % 2 = 0 /\ (k + 1) % 2 = 0 BY <1>5, <3>2, <3>3
    <3>5. QED BY <2>2, <3>4
  <2>4. k # n
    <3>1. SUFFICES ASSUME k = n PROVE FALSE OBVIOUS
    <3>2. k \in 1 .. n /\ k % 2 = 1 BY <1>3, <1>7, <2>2, <3>1
    <3>3. u[k] = Colon BY <1>3, <1>11, <2>1, <3>2
    <3>4. k % 2 = 0 BY <1>5, <3>2, <3>3
    <3>5. QED BY <3>2, <3>4
  <2>5. k # n + 2
    <3>1. SUFFICES ASSUME k = n + 2 PROVE FALSE OBVIOUS
    <3>2. 1 \in 1 .. p /\ n + 2 + 1 = k + 1 BY <1>3, <1>4, <2>2, <3>1
    <3>3. w[1] = Colon BY <1>3, <1>4, <1>11, <2>1, <3>2
    <3>4. 1 % 2 = 0 BY <1>6, <3>2, <3>3
    <3>5. QED BY <3>4
  <2>6. ~ (k > n + 2)
    <3>1. SUFFICES ASSUME k > n + 2 PROVE FALSE OBVIOUS
    <3> DEFINE j == k - n - 2
    <3>2. j \in 1 .. p /\ j + 1 \in 1 .. p /\ n + 2 + j = k /\ n + 2 + (j + 1) = k + 1
      BY <1>3, <1>4, <2>2, <3>1
    <3> HIDE DEF j
    <3>3. w[j] = Colon /\ w[j + 1] = Colon BY <1>3, <1>4, <1>11, <2>1, <3>2
    <3>4. j % 2 = 0 /\ (j + 1) % 2 = 0 BY <1>6, <3>2, <3>3
    <3>5. QED BY <3>2, <3>4
  <2>7. QED BY <1>3, <2>2, <2>3, <2>4, <2>5, <2>6
<1>15. Gaps(t) = {n + 1} BY <1>13, <1>14
<1>16. QED BY <1>15 DEF t, n, l

\* The least of one number.
LEMMA MinOne ==
    ASSUME NEW n \in Nat
    PROVE  Min({n}) = n
BY DEF Min

\* A text with a gap is read as the bytes it was made of.
LEMMA GapRead ==
    ASSUME NEW addr, Bytes(addr, 16), NEW a \in 0 .. 6, NEW r \in a + 1 .. 7,
           \A k \in a + 1 .. r : Group(addr, k) = {}
    PROVE  ParseIPv6(GapText(addr, a, r, 8 - r)) = addr
<1> DEFINE m == 1
           q == r + 1
           l == 8 - r
           u == Joined(addr, m, a)
           w == Joined(addr, q, l)
           t == GapText(addr, a, r, l)
           n == JoinLen(a)
           c == 2 * a
           d == 2 * r
           N == 16
           lb == SubSeq(addr, 1, c)
           rb == SubSeq(addr, d + 1, N)
<1>1. /\ m \in 1 .. 9 /\ m \in Nat /\ a \in Nat /\ m + a - 1 <= 8
      /\ q \in 1 .. 9 /\ q \in Nat /\ l \in Nat /\ q + l - 1 <= 8
  OBVIOUS
<1>2. t = ((u \o <<Colon>>) \o <<Colon>>) \o w BY DEF GapText
<1>3. /\ 2 * m - 1 = 1 /\ 2 * (m + a - 1) = c
      /\ 2 * q - 1 = d + 1 /\ 2 * (q + l - 1) = N
  OBVIOUS
<1>4. Gaps(t) = {n + 1} BY OneGap
<1>5. SubSeq(addr, c + 1, d) = Zeros(d - c) BY GapZeros
<1>6. addr \in Seq(Byte) /\ Len(addr) = N BY DEF Bytes
<1>7. /\ c \in Nat /\ d \in Nat /\ N \in Nat /\ 1 \in Nat /\ c < d /\ d <= N
      /\ c <= Len(addr) /\ d <= Len(addr) /\ N <= Len(addr)
      /\ 1 <= c + 1 /\ 1 <= d + 1 /\ d + 1 <= N + 1 /\ c - 1 + 1 = c /\ N - (d + 1) + 1 = N - d
      /\ N - c - (N - d) = d - c /\ d - c > 0 /\ d + 1 \in Nat
  BY <1>6
<1> HIDE DEF m, q, l, c, d, N
<1>8. n \in Nat /\ u \in Seq(Symbol) /\ Len(u) = n BY <1>1, JoinedType
<1>9. w \in Seq(Symbol) BY <1>1, JoinedType
<1>10. Plain(u) /\ BytesOf(u) = SubSeq(addr, 2 * m - 1, 2 * (m + a - 1)) BY <1>1, JoinedRead
<1>11. Plain(w) /\ BytesOf(w) = SubSeq(addr, 2 * q - 1, 2 * (q + l - 1)) BY <1>1, JoinedRead
<1>12. BytesOf(u) = lb /\ BytesOf(w) = rb BY <1>3, <1>10, <1>11
<1>13. Colon \in Symbol BY Symbols
<1> HIDE DEF u, w, t, n
<1>14. SubSeq(t, 1, Len(u)) = u /\ SubSeq(t, Len(u) + 3, Len(t)) = w
  <2>1. u \in Seq(Symbol) BY <1>8
  <2>2. QED BY <1>2, <1>9, <1>13, <2>1, Around
<1>15. SubSeq(t, 1, (n + 1) - 1) = u /\ Suffix(t, (n + 1) + 2) = w
  <2>1. (n + 1) - 1 = n /\ (n + 1) + 2 = n + 3 BY <1>8
  <2>2. QED BY <1>8, <1>14, <2>1 DEF Suffix
<1>16. Min(Gaps(t)) = n + 1
  <2>1. n + 1 \in Nat BY <1>8
  <2>2. QED BY <1>4, <2>1, MinOne
<1>17. Cardinality(Gaps(t)) = 1 /\ Gaps(t) # {} BY <1>4, FS_Singleton
<1>18. lb \in Seq(Byte) /\ Len(lb) = c BY <1>6, <1>7, SubSeqType
<1>19. rb \in Seq(Byte) /\ Len(rb) = N - d BY <1>6, <1>7, SubSeqType
<1>20. (lb \o Zeros(d - c)) \o rb = addr
  <2>1. SubSeq(addr, 1, c) \o SubSeq(addr, c + 1, d) = SubSeq(addr, 1, d)
    BY <1>6, <1>7, SubSeqSplit
  <2>2. SubSeq(addr, 1, d) \o SubSeq(addr, d + 1, N) = SubSeq(addr, 1, N)
    BY <1>6, <1>7, SubSeqSplit
  <2>3. SubSeq(addr, 1, Len(addr)) = addr BY <1>6
  <2>4. SubSeq(addr, 1, N) = addr BY <1>6, <2>3
  <2>5. QED BY <1>5, <2>1, <2>2, <2>4
<1> HIDE DEF lb, rb
<1>21. 16 - Len(BytesOf(u)) - Len(BytesOf(w)) = d - c
  <2>1. N - Len(BytesOf(u)) - Len(BytesOf(w)) = d - c BY <1>7, <1>12, <1>18, <1>19
  <2>2. QED BY <2>1 DEF N
<1>22. ParseIPv6(t) = (BytesOf(u) \o Zeros(d - c)) \o BytesOf(w)
  BY <1>7, <1>10, <1>11, <1>15, <1>16, <1>17, <1>21 DEF ParseIPv6
<1>23. ParseIPv6(t) = addr BY <1>12, <1>20, <1>22
<1>24. QED BY <1>23 DEF t, l

\* What is printed of the groups is read as them.
LEMMA TextRead ==
    ASSUME NEW addr, Bytes(addr, 16), Group(addr, 8) # {}
    PROVE  /\ InsertGroups(addr)[8].text \in Seq(Symbol)
           /\ InsertGroups(addr)[8].text # <<>>
           /\ ParseIPv6(InsertGroups(addr)[8].text) = addr
           /\ \A j \in 1 .. Len(InsertGroups(addr)[8].text) :
                 InsertGroups(addr)[8].text[j] # RightBracket
<1> DEFINE t == InsertGroups(addr)[8].text
           One == 1
<1>0. One \in Nat OBVIOUS
<1>1. ASSUME NEW m \in Nat, NEW l \in Nat
      PROVE  \A j \in 1 .. Len(Joined(addr, m, l)) : Joined(addr, m, l)[j] # RightBracket
  <2>1. \A k : Num(Group(addr, k)) # RightBracket BY GroupNumber, Symbols
  <2>2. Colon # RightBracket BY Symbols
  <2>3. Len(Joined(addr, m, l)) = JoinLen(l) BY JoinedType
  <2>4. \A j \in 1 .. JoinLen(l) :
          Joined(addr, m, l)[j] = IF j % 2 = 1 THEN Num(Group(addr, m + (j - 1) \div 2)) ELSE Colon
    BY JoinedType
  <2>5. QED BY <2>1, <2>2, <2>3, <2>4
<1>2. CASE t = Joined(addr, 1, 8)
  <2> DEFINE l == 8
  <2>1. l \in Nat /\ JoinLen(l) # 0 BY DEF JoinLen
  <2>2. t = Joined(addr, One, l) BY <1>2
  <2>3. ParseIPv6(t) = addr BY <1>2, WholeRead
  <2> HIDE DEF l, One, t
  <2>4. t \in Seq(Symbol) /\ Len(t) = JoinLen(l) BY <1>0, <2>1, <2>2, JoinedType
  <2>5. t # <<>> BY <2>1, <2>4
  <2>6. \A j \in 1 .. Len(t) : t[j] # RightBracket BY <1>0, <1>1, <2>1, <2>2
  <2>7. QED BY <2>3, <2>4, <2>5, <2>6 DEF t
<1>3. ASSUME NEW a \in 0 .. 6, NEW r \in a + 1 .. 7,
             \A k \in a + 1 .. r : Group(addr, k) = {},
             t = GapText(addr, a, r, 8 - r)
      PROVE  /\ t \in Seq(Symbol) /\ t # <<>> /\ ParseIPv6(t) = addr
             /\ \A j \in 1 .. Len(t) : t[j] # RightBracket
  <2> DEFINE q == r + 1
             l == 8 - r
             u == Joined(addr, One, a)
             w == Joined(addr, q, l)
  <2>1. a \in Nat /\ q \in Nat /\ l \in Nat OBVIOUS
  <2>2. ParseIPv6(t) = addr BY <1>3, GapRead
  <2>3. t = ((u \o <<Colon>>) \o <<Colon>>) \o w BY <1>3 DEF GapText
  <2> HIDE DEF q, l, One, t
  <2>4. u \in Seq(Symbol) BY <1>0, <2>1, JoinedType
  <2>5. w \in Seq(Symbol) BY <2>1, JoinedType
  <2>6. \A j \in 1 .. Len(u) : u[j] # RightBracket BY <1>0, <1>1, <2>1
  <2>7. \A j \in 1 .. Len(w) : w[j] # RightBracket BY <1>1, <2>1
  <2>8. Colon \in Symbol BY Symbols
  <2> HIDE DEF u, w
  <2>9. /\ t \in Seq(Symbol) /\ Len(t) = Len(u) + 2 + Len(w)
        /\ \A j \in 1 .. Len(u) : t[j] = u[j]
        /\ t[Len(u) + 1] = Colon /\ t[Len(u) + 2] = Colon
        /\ \A j \in 1 .. Len(w) : t[Len(u) + 2 + j] = w[j]
    BY <2>3, <2>4, <2>5, <2>8, Around
  <2>10. Len(u) \in Nat /\ Len(w) \in Nat BY <2>4, <2>5
  <2>11. t # <<>> BY <2>9, <2>10
  <2>12. ASSUME NEW j \in 1 .. Len(t) PROVE t[j] # RightBracket
    <3> DEFINE i == j - Len(u) - 2
    <3>1. \/ j \in 1 .. Len(u) \/ j = Len(u) + 1 \/ j = Len(u) + 2
          \/ i \in 1 .. Len(w) /\ j = Len(u) + 2 + i
      BY <2>9, <2>10
    <3> HIDE DEF i
    <3>2. QED BY <2>6, <2>7, <2>9, <3>1, Symbols
  <2>13. QED BY <2>2, <2>9, <2>11, <2>12
<1>4. \A w, z : Os(w, z).text = w BY DEF Os
<1>5. CASE InsertGroups(addr)[8] = Os(Joined(addr, 1, 8), FALSE)
  BY <1>2, <1>4, <1>5
<1>6. ASSUME NEW a \in 0 .. 6, NEW r \in a + 1 .. 7,
             \A k \in a + 1 .. r : Group(addr, k) = {},
             InsertGroups(addr)[8] = Os(GapText(addr, a, r, 8 - r), TRUE)
      PROVE  /\ t \in Seq(Symbol) /\ t # <<>> /\ ParseIPv6(t) = addr
             /\ \A j \in 1 .. Len(t) : t[j] # RightBracket
  <2>1. t = GapText(addr, a, r, 8 - r) BY <1>4, <1>6
  <2>2. QED BY <1>3, <1>6, <2>1
<1> HIDE DEF t
<1>7. /\ t \in Seq(Symbol) /\ t # <<>> /\ ParseIPv6(t) = addr
      /\ \A j \in 1 .. Len(t) : t[j] # RightBracket
  BY <1>5, <1>6, InsertedText DEF t
<1>8. QED BY <1>7 DEF t

-----------------------------------------------------------------------------
(* The host, and what Lookup makes of it.                                   *)

\* "[", a text, "]:" and a port.
HostOf(t, x) == ((<<LeftBracket>> \o t) \o <<>>) \o <<RightBracket, Colon, x>>

\* The characters of a host.
LEMMA HostText ==
    ASSUME NEW t \in Seq(Symbol), NEW x \in Symbol, NEW h, h = HostOf(t, x)
    PROVE  /\ h \in Seq(Symbol) /\ Len(h) = Len(t) + 4
           /\ h[1] = LeftBracket
           /\ \A j \in 1 .. Len(t) : h[1 + j] = t[j]
           /\ h[Len(t) + 2] = RightBracket /\ h[Len(t) + 3] = Colon /\ h[Len(t) + 4] = x
<1> DEFINE b == <<LeftBracket>>
           g == b \o t
           v == <<RightBracket, Colon, x>>
           n == Len(t)
<1>1. n \in Nat OBVIOUS
<1>2. LeftBracket \in Symbol /\ RightBracket \in Symbol /\ Colon \in Symbol BY Symbols
<1>3. b \in Seq(Symbol) /\ Len(b) = 1 /\ b[1] = LeftBracket BY <1>2
<1>4. /\ v \in Seq(Symbol) /\ Len(v) = 3
      /\ v[1] = RightBracket /\ v[2] = Colon /\ v[3] = x
  BY <1>2
<1> HIDE DEF b, v
<1>5. /\ g \in Seq(Symbol) /\ Len(g) = Len(b) + Len(t)
      /\ \A j \in 1 .. Len(b) : g[j] = b[j]
      /\ \A j \in 1 .. Len(t) : g[Len(b) + j] = t[j]
  <2>1. b \in Seq(Symbol) BY <1>3
  <2>2. QED BY <2>1
<1>6. h = (g \o <<>>) \o v BY DEF b, v, HostOf
<1> HIDE DEF g, n
<1>7. g \in Seq(Symbol) BY <1>5
<1>8. g \o <<>> = g BY <1>7, ConcatEmpty
<1>9. h = g \o v BY <1>6, <1>8
<1>10. v \in Seq(Symbol) BY <1>4
<1>11. /\ g \o v \in Seq(Symbol) /\ Len(g \o v) = Len(g) + Len(v)
       /\ \A j \in 1 .. Len(g) : (g \o v)[j] = g[j]
       /\ \A j \in 1 .. Len(v) : (g \o v)[Len(g) + j] = v[j]
  BY <1>7, <1>10
<1>12. Len(g) = n + 1 BY <1>1, <1>3, <1>5 DEF n
<1>13. h \in Seq(Symbol) /\ Len(h) = n + 4
  <2>1. h \in Seq(Symbol) /\ Len(h) = Len(g) + Len(v) BY <1>9, <1>11
  <2>2. Len(g) + Len(v) = n + 4 BY <1>1, <1>4, <1>12
  <2>3. QED BY <2>1, <2>2
<1>14. h[1] = LeftBracket
  <2>1. 1 \in 1 .. Len(g) /\ 1 \in 1 .. Len(b) BY <1>1, <1>3, <1>12
  <2>2. QED BY <1>3, <1>5, <1>9, <1>11, <2>1
<1>15. ASSUME NEW j \in 1 .. n PROVE h[1 + j] = t[j]
  <2>1. 1 + j \in 1 .. Len(g) BY <1>1, <1>12
  <2>2. g[1 + j] = t[j] BY <1>3, <1>5 DEF n
  <2>3. QED BY <1>9, <1>11, <2>1, <2>2
<1>16. h[n + 2] = RightBracket /\ h[n + 3] = Colon /\ h[n + 4] = x
  <2>1. /\ 1 \in 1 .. Len(v) /\ 2 \in 1 .. Len(v) /\ 3 \in 1 .. Len(v)
        /\ Len(g) + 1 = n + 2 /\ Len(g) + 2 = n + 3 /\ Len(g) + 3 = n + 4
    BY <1>1, <1>4, <1>12
  <2>2. h[Len(g) + 1] = v[1] /\ h[Len(g) + 2] = v[2] /\ h[Len(g) + 3] = v[3] BY <1>9, <1>11, <2>1
  <2>3. QED BY <1>4, <2>1, <2>2
<1>17. QED BY <1>13, <1>14, <1>15, <1>16 DEF n

\* SplitHost takes the text and the port out of it.
LEMMA HostSplit ==
    ASSUME NEW t \in Seq(Symbol), Len(t) > 0, \A j \in 1 .. Len(t) : t[j] # RightBracket,
           NEW x \in Symbol, x # RightBracket, NEW h, h = HostOf(t, x)
    PROVE  SplitHost(h).node = t /\ SplitHost(h).service = <<x>>
<1> DEFINE n == Len(t)
           e == n + 2
           Hits == {j \in 2 .. Len(h) : h[j] = RightBracket}
<1>1. /\ h \in Seq(Symbol) /\ Len(h) = n + 4
      /\ h[1] = LeftBracket
      /\ \A j \in 1 .. n : h[1 + j] = t[j]
      /\ h[n + 2] = RightBracket /\ h[n + 3] = Colon /\ h[n + 4] = x
  <2>1. \A g : g = HostOf(t, x) =>
          /\ g \in Seq(Symbol) /\ Len(g) = Len(t) + 4
          /\ g[1] = LeftBracket
          /\ \A j \in 1 .. Len(t) : g[1 + j] = t[j]
          /\ g[Len(t) + 2] = RightBracket /\ g[Len(t) + 3] = Colon /\ g[Len(t) + 4] = x
    BY HostText
  <2>2. QED BY <2>1
<1>2. n \in Nat /\ e \in Nat /\ e # 0 OBVIOUS
<1> HIDE DEF n
<1>3. Hits = {e}
  <2>1. e \in Hits BY <1>1, <1>2
  <2>2. ASSUME NEW j \in Hits PROVE j = e
    <3>1. j \in 2 .. n + 4 /\ h[j] = RightBracket BY <1>1
    <3> DEFINE i == j - 1
    <3>2. \/ i \in 1 .. n /\ j = 1 + i
          \/ j = n + 2 \/ j = n + 3 \/ j = n + 4
      BY <1>2, <3>1
    <3> HIDE DEF i
    <3>3. Colon # RightBracket BY Symbols
    <3>4. \A k \in 1 .. n : h[1 + k] # RightBracket BY <1>1 DEF n
    <3>5. QED BY <1>1, <3>1, <3>2, <3>3, <3>4
  <2>3. QED BY <2>1, <2>2
<1>4. Memchr(h, RightBracket, 2) = e
  <2>1. Min({e}) = e BY <1>2, MinOne
  <2>2. QED BY <1>3, <2>1 DEF Memchr
<1>5. SubSeq(h, 2, e - 1) = t
  <2> DEFINE d == e - 1
             c == 2
  <2>1. c \in Nat /\ d \in Nat /\ 1 <= c /\ c <= d + 1 /\ d <= Len(h) /\ d - c + 1 = n BY <1>1, <1>2
  <2>2. \A j \in 1 .. n : c + j - 1 = 1 + j BY <1>2
  <2> HIDE DEF c, d
  <2>3. SubSeq(h, c, d) \in Seq(Symbol) /\ Len(SubSeq(h, c, d)) = n BY <1>1, <2>1, SubSeqType
  <2>4. \A j \in 1 .. n : SubSeq(h, c, d)[j] = h[c + j - 1] BY <1>1, <1>2, <2>1
  <2>5. \A j \in 1 .. n : SubSeq(h, c, d)[j] = t[j] BY <1>1, <2>2, <2>4
  <2>6. SubSeq(h, c, d) = t BY <2>3, <2>5, SeqEqual DEF n
  <2>7. QED BY <2>6 DEF c, d
<1>6. Suffix(h, e + 2) = <<x>>
  <2> DEFINE f == n + 4
  <2>1. e + 2 = f /\ f \in 1 .. Len(h) /\ Len(h) = f /\ h[f] = x BY <1>1, <1>2
  <2> HIDE DEF f
  <2>2. SubSeq(h, f, f) = <<h[f]>> BY <1>1, <2>1, SubSeqOne
  <2>3. QED BY <2>1, <2>2 DEF Suffix
<1>7. h # <<>> /\ e < Len(h) /\ h[e + 1] = Colon
  <2>1. e + 1 = n + 3 /\ e < n + 4 BY <1>2
  <2>2. QED BY <1>1, <1>2, <2>1
<1> DEFINE u == <<x>>
<1> HIDE DEF e, u
<1>8. Suffix(h, e + 2) = u BY <1>6 DEF u
<1>12. t # <<>> OBVIOUS
<1>9. SplitHost(h) = [node |-> t, service |-> u]
  BY <1>1, <1>2, <1>4, <1>5, <1>7, <1>8, <1>12 DEF SplitHost, Service
<1>10. SplitHost(h).node = t /\ SplitHost(h).service = u BY <1>9
<1>11. QED BY <1>10 DEF u

\* An IPv6 address whose last group is not zero is read back.
LEMMA OthersPrinted ==
    ASSUME NEW a, IsAddress(a), a.family = "v6", Group(a.addr, 8) # {}
    PROVE  /\ Cardinality(LookupText(Insert(a))) = 1
           /\ \A b \in LookupText(Insert(a)) : Equal(a, b)
<1>2. a \in [family : {"v6"}, port : [1 .. 2 -> Byte], addr : [1 .. 16 -> Byte], len : {28}]
  BY DEF IsAddress
<1> DEFINE t == InsertGroups(a.addr)[8].text
           x == Num(GetPort(a))
           h == Insert(a)
<1>3. Bytes(a.addr, 16)
  <2> DEFINE s == a.addr
             n == 16
  <2>1. s \in [1 .. n -> Byte] /\ n \in Nat BY <1>2
  <2> HIDE DEF s, n
  <2>2. s \in Seq(Byte) /\ Len(s) = n BY <2>1
  <2>3. QED BY <2>2 DEF s, n, Bytes
<1>4. /\ t \in Seq(Symbol) /\ t # <<>> /\ ParseIPv6(t) = a.addr
      /\ \A j \in 1 .. Len(t) : t[j] # RightBracket
  BY <1>3, TextRead
<1>5. GetPort(a) \in Number BY DEF GetPort, Unswapped, Number
<1>6. x \in Symbol /\ x # RightBracket /\ x.num = GetPort(a) /\ x.mark = "" BY <1>5, Symbols DEF Num
<1>7. h = HostOf(t, x) BY DEF Insert, HostOf
<1> HIDE DEF t, x, h
<1>8. SplitHost(h).node = t /\ SplitHost(h).service = <<x>>
  <2>1. Len(t) > 0 BY <1>4
  <2>2. QED BY <1>4, <1>6, <1>7, <2>1, HostSplit
<1>9. SetPort(Create("v6", a.addr), GetPort(a)) = a
  <2>1. Create("v6", a.addr) = [family |-> "v6", port |-> Swapped(2, {}), addr |-> a.addr, len |-> 28]
    BY DEF Create, IPv6Address
  <2>2. SetPort(Create("v6", a.addr), GetPort(a))
          = [family |-> "v6", port |-> Swapped(2, GetPort(a)), addr |-> a.addr, len |-> 28]
    BY <2>1 DEF SetPort
  <2>3. Swapped(2, GetPort(a)) = a.port
    <3> DEFINE n == 2
    <3>1. n \in Nat /\ a.port \in [1 .. n -> Byte] BY <1>2
    <3> HIDE DEF n
    <3>2. Swapped(n, Unswapped(n, a.port)) = a.port BY <3>1, SwappedBack
    <3>3. QED BY <3>2 DEF n, GetPort
  <2>4. a = [family |-> "v6", port |-> a.port, addr |-> a.addr, len |-> 28] BY <1>2
  <2>5. QED BY <2>2, <2>3, <2>4
<1>10. LookupText(h) = {a}
  <2> DEFINE u == <<x>>
             bs == a.addr
  <2>1. Len(u) = 1 /\ u[1] = x OBVIOUS
  <2>2. Len(bs) = 16 BY <1>3 DEF Bytes
  <2> HIDE DEF u, bs
  <2>3. getaddrinfo(t, u) = {SetPort(Create("v6", bs), x.num)}
    BY <1>4, <1>6, <2>1, <2>2 DEF getaddrinfo, bs
  <2>4. QED BY <1>6, <1>8, <1>9, <2>3 DEF LookupText, u, bs
<1>11. Equal(a, a) BY DEF Equal, MemEqual
<1>12. Cardinality({a}) = 1 BY FS_Singleton
<1>13. QED BY <1>10, <1>11, <1>12 DEF h

\* Numbers with colons between them have no bracket, ...
LEMMA JoinedMarks ==
    ASSUME NEW addr, NEW m \in Nat, NEW l \in Nat
    PROVE  \A j \in 1 .. Len(Joined(addr, m, l)) : Joined(addr, m, l)[j] # RightBracket
<1>1. \A k : Num(Group(addr, k)) # RightBracket BY GroupNumber, Symbols
<1>2. Colon # RightBracket BY Symbols
<1>3. Len(Joined(addr, m, l)) = JoinLen(l) BY JoinedType
<1>4. \A j \in 1 .. JoinLen(l) :
        Joined(addr, m, l)[j] = IF j % 2 = 1 THEN Num(Group(addr, m + (j - 1) \div 2)) ELSE Colon
  BY JoinedType
<1>5. QED BY <1>1, <1>2, <1>3, <1>4

\* ... and fewer than eight of them are no address.
LEMMA ShortRead ==
    ASSUME NEW addr, Bytes(addr, 16), NEW a \in 1 .. 7
    PROVE  Len(ParseIPv6(Joined(addr, 1, a))) # 16
<1> DEFINE m == 1
           t == Joined(addr, m, a)
           n == JoinLen(a)
           c == 2 * a
<1>1. m \in 1 .. 9 /\ m \in Nat /\ a \in Nat /\ m + a - 1 <= 8 OBVIOUS
<1>2. 2 * m - 1 = 1 /\ 2 * (m + a - 1) = c OBVIOUS
<1>9. c \in Nat /\ c <= 14 OBVIOUS
<1> HIDE DEF m, c
<1>3. n \in Nat /\ t \in Seq(Symbol) /\ Len(t) = n BY <1>1, JoinedType
<1>4. /\ \A j \in 1 .. n : t[j] = Colon <=> j % 2 = 0
      /\ Plain(t)
      /\ BytesOf(t) = SubSeq(addr, 2 * m - 1, 2 * (m + a - 1))
  BY <1>1, JoinedRead
<1> HIDE DEF t, n
<1>5. Gaps(t) = {}
  <2>1. SUFFICES ASSUME NEW k \in 1 .. n - 1, t[k] = Colon, t[k + 1] = Colon PROVE FALSE
    BY <1>3 DEF Gaps
  <2>2. k \in 1 .. n /\ k + 1 \in 1 .. n BY <1>3
  <2>3. k % 2 = 0 /\ (k + 1) % 2 = 0 BY <1>4, <2>1, <2>2
  <2>4. QED BY <2>2, <2>3
<1>6. ParseIPv6(t) = BytesOf(t) BY <1>4, <1>5 DEF ParseIPv6
<1>7. Len(SubSeq(addr, 1, c)) = c
  <2> DEFINE One == 1
  <2>1. One \in Nat /\ 1 <= One /\ One <= c + 1 /\ c <= 16 /\ c - One + 1 = c BY <1>9
  <2>2. addr \in Seq(Byte) /\ Len(addr) = 16 BY DEF Bytes
  <2>3. c <= Len(addr) BY <2>1, <2>2
  <2> HIDE DEF One
  <2>4. Len(SubSeq(addr, One, c)) = c - One + 1 BY <1>9, <2>1, <2>2, <2>3, SubSeqType
  <2>5. QED BY <2>1, <2>4 DEF One
<1>8. Len(ParseIPv6(t)) = c BY <1>2, <1>4, <1>6, <1>7
<1>10. QED BY <1>8, <1>9 DEF t, m

\* A text with a second "::" at its end is no address either.
LEMMA TwoGaps ==
    ASSUME NEW addr, NEW a \in 0 .. 6, NEW r \in a + 1 .. 7, NEW t,
           t = (GapText(addr, a, r, 8 - r) \o <<Colon>>) \o <<Colon>>
    PROVE  /\ t \in Seq(Symbol) /\ Len(t) > 0
           /\ \A j \in 1 .. Len(t) : t[j] # RightBracket
           /\ ParseIPv6(t) = <<>>
<1> DEFINE One == 1
           q == r + 1
           l == 8 - r
           u == Joined(addr, One, a)
           w == Joined(addr, q, l)
           g == GapText(addr, a, r, l)
           n == Len(u)
           p == Len(w)
<1>1. a \in Nat /\ q \in Nat /\ l \in Nat /\ One \in Nat OBVIOUS
<1>2. g = ((u \o <<Colon>>) \o <<Colon>>) \o w BY DEF GapText
<1>3. t = (g \o <<Colon>>) \o <<Colon>> OBVIOUS
<1> HIDE DEF q, l, One
<1>4. u \in Seq(Symbol) BY <1>1, JoinedType
<1>5. w \in Seq(Symbol) BY <1>1, JoinedType
<1>6. \A j \in 1 .. n : u[j] # RightBracket BY <1>1, JoinedMarks
<1>7. \A j \in 1 .. p : w[j] # RightBracket BY <1>1, JoinedMarks
<1>8. Colon \in Symbol /\ Colon # RightBracket BY Symbols
<1> HIDE DEF u, w, g
<1>9. /\ g \in Seq(Symbol) /\ Len(g) = Len(u) + 2 + Len(w)
      /\ \A j \in 1 .. Len(u) : g[j] = u[j]
      /\ g[Len(u) + 1] = Colon /\ g[Len(u) + 2] = Colon
      /\ \A j \in 1 .. Len(w) : g[Len(u) + 2 + j] = w[j]
  BY <1>2, <1>4, <1>5, <1>8, Around
<1>10. n \in Nat /\ p \in Nat BY <1>4, <1>5
<1>11. /\ t \in Seq(Symbol) /\ Len(t) = Len(g) + 2
       /\ \A j \in 1 .. Len(g) : t[j] = g[j]
       /\ t[Len(g) + 1] = Colon /\ t[Len(g) + 2] = Colon
  <2> DEFINE f == (g \o <<Colon>>) \o <<Colon>>
  <2>1. g \in Seq(Symbol) BY <1>9
  <2>2. /\ f \in Seq(Symbol) /\ Len(f) = Len(g) + 2
        /\ \A j \in 1 .. Len(g) : f[j] = g[j]
        /\ f[Len(g) + 1] = Colon /\ f[Len(g) + 2] = Colon
    <3>1. Colon \in Symbol BY <1>8
    <3>2. QED BY <2>1, <3>1, TwoMore
  <2>3. t = f BY <1>3
  <2> HIDE DEF f
  <2>4. QED BY <2>2, <2>3
<1>12. Len(g) = n + 2 + p /\ Len(t) = n + p + 4 BY <1>9, <1>10, <1>11
<1>13. ASSUME NEW j \in 1 .. Len(t) PROVE t[j] # RightBracket
  <2> DEFINE i == j - n - 2
  <2>1. \/ j \in 1 .. n /\ j \in 1 .. Len(g)
        \/ j = n + 1 /\ j \in 1 .. Len(g)
        \/ j = n + 2 /\ j \in 1 .. Len(g)
        \/ i \in 1 .. p /\ j = n + 2 + i /\ j \in 1 .. Len(g)
        \/ j = Len(g) + 1 \/ j = Len(g) + 2
    <3> HIDE DEF n, p
    <3>1. Len(g) = n + 2 + p /\ j \in 1 .. n + p + 4 BY <1>12
    <3>2. QED BY <1>10, <3>1
  <2> HIDE DEF i
  <2>2. CASE j = Len(g) + 1 \/ j = Len(g) + 2 BY <1>8, <1>11, <2>2
  <2>3. CASE j \in 1 .. n /\ j \in 1 .. Len(g) BY <1>6, <1>9, <1>11, <2>3
  <2>4. CASE (j = n + 1 \/ j = n + 2) /\ j \in 1 .. Len(g) BY <1>8, <1>9, <1>11, <2>4
  <2>5. CASE i \in 1 .. p /\ j = n + 2 + i /\ j \in 1 .. Len(g) BY <1>7, <1>9, <1>11, <2>5
  <2>6. QED BY <2>1, <2>2, <2>3, <2>4, <2>5
<1>14. n + 1 \in Gaps(t)
  <2>1. /\ n + 1 \in 1 .. Len(g) /\ n + 2 \in 1 .. Len(g)
        /\ n + 1 \in 1 .. Len(t) - 1 /\ (n + 1) + 1 = n + 2
    BY <1>10, <1>12
  <2>2. t[n + 1] = Colon /\ t[n + 2] = Colon BY <1>9, <1>11, <2>1
  <2>3. QED BY <2>1, <2>2 DEF Gaps
<1>15. Len(g) + 1 \in Gaps(t)
  <2>1. Len(g) + 1 \in 1 .. Len(t) - 1 /\ (Len(g) + 1) + 1 = Len(g) + 2 BY <1>10, <1>12
  <2>2. QED BY <1>11, <2>1 DEF Gaps
<1>16. n + 1 # Len(g) + 1 BY <1>10, <1>12
<1>17. Cardinality(Gaps(t)) # 1
  <2>1. SUFFICES ASSUME Cardinality(Gaps(t)) = 1 PROVE FALSE OBVIOUS
  <2>2. IsFiniteSet(Gaps(t))
    <3>1. Len(t) - 1 \in Int /\ 1 \in Int BY <1>10, <1>12
    <3>2. IsFiniteSet(1 .. Len(t) - 1) BY <3>1, FS_Interval
    <3>3. Gaps(t) \subseteq 1 .. Len(t) - 1 BY DEF Gaps
    <3>4. QED BY <3>2, <3>3, FS_Subset
  <2>3. \E x : Gaps(t) = {x} BY <2>1, <2>2, FS_Singleton
  <2>4. QED BY <1>14, <1>15, <1>16, <2>3
<1>18. ParseIPv6(t) = <<>> BY <1>14, <1>17 DEF ParseIPv6
<1>19. Len(t) > 0 BY <1>10, <1>12
<1>20. QED BY <1>11, <1>13, <1>18, <1>19

\* With nothing between the brackets the service is taken from the wrong place.
LEMMA EmptyHost ==
    ASSUME NEW x \in Symbol, x # RightBracket, x # Colon, NEW h, h = HostOf(<<>>, x)
    PROVE  Len(SplitHost(h).service) = 3
<1> DEFINE t == <<>>
<1>1. t \in Seq(Symbol) /\ Len(t) = 0 /\ 0 + 2 = 2 /\ 0 + 3 = 3 /\ 0 + 4 = 4 OBVIOUS
<1>2. h = HostOf(t, x) OBVIOUS
<1> HIDE DEF t
<1>3. /\ h \in Seq(Symbol) /\ Len(h) = Len(t) + 4 /\ h[1] = LeftBracket
      /\ h[Len(t) + 2] = RightBracket /\ h[Len(t) + 3] = Colon /\ h[Len(t) + 4] = x
  <2>1. \A f \in Seq(Symbol) : \A g : g = HostOf(f, x) =>
          /\ g \in Seq(Symbol) /\ Len(g) = Len(f) + 4
          /\ g[1] = LeftBracket
          /\ \A j \in 1 .. Len(f) : g[1 + j] = f[j]
          /\ g[Len(f) + 2] = RightBracket /\ g[Len(f) + 3] = Colon /\ g[Len(f) + 4] = x
    BY HostText
  <2>2. QED BY <1>1, <1>2, <2>1
<1>4. /\ h \in Seq(Symbol) /\ Len(h) = 4 /\ h[1] = LeftBracket
      /\ h[2] = RightBracket /\ h[3] = Colon /\ h[4] = x
  BY <1>1, <1>3
<1>5. Memchr(h, RightBracket, 2) = 2
  <2>1. Colon # RightBracket BY Symbols
  <2>2. \A j \in 2 .. 4 : h[j] = RightBracket <=> j = 2
    <3>1. \A j \in 2 .. 4 : j = 2 \/ j = 3 \/ j = 4 OBVIOUS
    <3>2. QED BY <1>4, <2>1, <3>1
  <2>3. {j \in 2 .. Len(h) : h[j] = RightBracket} = {2} BY <1>4, <2>2
  <2>4. Min({2}) = 2 BY MinOne
  <2>5. QED BY <2>3, <2>4 DEF Memchr
<1>6. Memchr(h, Colon, 3) = 3
  <2>1. \A j \in 3 .. 4 : h[j] = Colon <=> j = 3
    <3>1. \A j \in 3 .. 4 : j = 3 \/ j = 4 OBVIOUS
    <3>2. QED BY <1>4, <3>1
  <2>2. {j \in 3 .. Len(h) : h[j] = Colon} = {3} BY <1>4, <2>1
  <2>3. Min({3}) = 3 BY MinOne
  <2>4. QED BY <2>2, <2>3 DEF Memchr
<1>7. SubSeq(h, 2, 2 - 1) = <<>> BY <1>4
<1>8. 2 + 1 = 3 /\ 2 # 0 /\ 3 # 0 OBVIOUS
<1>9. SplitHost(h).service = Suffix(h, 2)
  <2> DEFINE e == 2
  <2>1. /\ Memchr(h, RightBracket, 2) = e /\ e # 0 /\ Memchr(h, Colon, e + 1) # 0
        /\ SubSeq(h, 2, e - 1) = <<>> /\ h # <<>> /\ h[1] = LeftBracket
    BY <1>4, <1>5, <1>6, <1>7, <1>8
  <2> HIDE DEF e
  <2>2. SplitHost(h) = [node |-> h, service |-> Suffix(h, e)] BY <2>1 DEF SplitHost
  <2>3. QED BY <2>2 DEF e
<1>10. Len(Suffix(h, 2)) = 3
  <2> DEFINE c == 2
             d == 4
  <2>1. c \in Nat /\ d \in Nat /\ 1 <= c /\ c <= d + 1 /\ d <= Len(h) /\ d - c + 1 = 3 BY <1>4
  <2> HIDE DEF c, d
  <2>2. Len(SubSeq(h, c, d)) = d - c + 1 BY <1>4, <2>1, SubSeqType
  <2>3. QED BY <1>4, <2>1, <2>2 DEF Suffix, c, d
<1>11. QED BY <1>9, <1>10

\* An IPv6 address whose last group is zero is not read at all.
LEMMA ZerosPrinted ==
    ASSUME NEW a, IsAddress(a), a.family = "v6", Group(a.addr, 8) = {}
    PROVE  LookupText(Insert(a)) = {}
<1> DEFINE x == Num(GetPort(a))
           h == Insert(a)
           T == InsertGroups(a.addr)[8]
<1>1. Bytes(a.addr, 16)
  <2> DEFINE s == a.addr
             n == 16
  <2>1. s \in [1 .. n -> Byte] /\ n \in Nat BY DEF IsAddress
  <2> HIDE DEF s, n
  <2>2. s \in Seq(Byte) /\ Len(s) = n BY <2>1
  <2>3. QED BY <2>2 DEF s, n, Bytes
<1>2. x \in Symbol /\ x # RightBracket /\ x # Colon
  <2>1. GetPort(a) \in Number BY DEF GetPort, Unswapped, Number
  <2>2. QED BY <2>1, Symbols
<1>3. h = ((<<LeftBracket>> \o T.text) \o (IF T.used_zero THEN <<Colon, Colon>> ELSE <<>>))
          \o <<RightBracket, Colon, x>>
  BY DEF Insert
<1> HIDE DEF x, h, T
<1>4. ASSUME NEW t, t \in Seq(Symbol), Len(t) > 0, \A j \in 1 .. Len(t) : t[j] # RightBracket,
             h = HostOf(t, x), Len(ParseIPv6(t)) # 16
      PROVE  LookupText(h) = {}
  <2>1. SplitHost(h).node = t BY <1>2, <1>4, HostSplit
  <2>2. QED BY <1>4, <2>1 DEF LookupText, getaddrinfo
<1>5. ASSUME NEW c \in 0 .. 7, T = Os(Joined(a.addr, 1, c), FALSE)
      PROVE  LookupText(h) = {}
  <2> DEFINE t == Joined(a.addr, 1, c)
             One == 1
  <2>1. T.text = t /\ T.used_zero = FALSE BY <1>5 DEF Os
  <2>2. h = HostOf(t, x)
    <3> HIDE DEF t
    <3> QED BY <1>3, <2>1 DEF HostOf
  <2>3. CASE c = 0
    <3>1. t = <<>> BY <2>3, JoinedMore
    <3>2. h = HostOf(<<>>, x) BY <2>2, <3>1
    <3> HIDE DEF t
    <3>3. Len(SplitHost(h).service) = 3 BY <1>2, <3>2, EmptyHost
    <3>4. QED BY <3>3 DEF LookupText, getaddrinfo
  <2>4. CASE c # 0
    <3>1. c \in 1 .. 7 /\ c \in Nat /\ One \in Nat BY <2>4
    <3>2. Len(ParseIPv6(t)) # 16 BY <1>1, <3>1, ShortRead
    <3>3. t = Joined(a.addr, One, c) /\ JoinLen(c) > 0 BY <3>1 DEF JoinLen
    <3> HIDE DEF t, One
    <3>4. t \in Seq(Symbol) /\ Len(t) = JoinLen(c) BY <3>1, <3>3, JoinedType
    <3>5. \A j \in 1 .. Len(t) : t[j] # RightBracket BY <3>1, <3>3, JoinedMarks
    <3>6. QED BY <1>4, <2>2, <3>2, <3>3, <3>4, <3>5
  <2>5. QED BY <2>3, <2>4
<1>6. ASSUME NEW c \in 0 .. 6, NEW r \in c + 1 .. 7, T = Os(GapText(a.addr, c, r, 8 - r), TRUE)
      PROVE  LookupText(h) = {}
  <2> DEFINE g == GapText(a.addr, c, r, 8 - r)
             k == <<Colon>>
             b == <<LeftBracket>>
             v == <<RightBracket, Colon, x>>
             t == (g \o k) \o k
  <2>1. T.text = g /\ T.used_zero = TRUE BY <1>6 DEF Os
  <2>2. /\ t \in Seq(Symbol) /\ Len(t) > 0
        /\ \A j \in 1 .. Len(t) : t[j] # RightBracket
        /\ ParseIPv6(t) = <<>>
    BY TwoGaps
  <2>3. g \in Seq(Symbol)
    <3> DEFINE l == 8 - r
    <3>1. c \in Nat /\ r \in Nat /\ l \in Nat OBVIOUS
    <3>2. GapText(a.addr, c, r, l) \in Seq(Symbol)
      <4> HIDE DEF l
      <4> QED BY <3>1, GapTextType
    <3>3. QED BY <3>2
  <2>4. k \in Seq(Symbol) /\ b \in Seq(Symbol) BY Symbols
  <2>5. <<Colon, Colon>> = k \o k OBVIOUS
  <2>6. h = ((b \o g) \o (k \o k)) \o v
    <3> HIDE DEF g
    <3> QED BY <1>3, <2>1, <2>5
  <2> HIDE DEF g, k, b, v
  <2>7. (b \o g) \o (k \o k) = b \o ((g \o k) \o k)
    <3>1. b \in Seq(Symbol) /\ g \in Seq(Symbol) /\ k \in Seq(Symbol) BY <2>3, <2>4
    <3>2. (g \o k) \o k = g \o (k \o k) BY <3>1
    <3> DEFINE kk == k \o k
    <3>3. kk \in Seq(Symbol) BY <3>1
    <3> HIDE DEF kk
    <3>4. (b \o g) \o kk = b \o (g \o kk) BY <3>1, <3>3
    <3>5. QED BY <3>2, <3>4 DEF kk
  <2>8. b \o t \in Seq(Symbol) BY <2>2, <2>4, ConcatType
  <2>9. (b \o t) \o <<>> = b \o t BY <2>8, ConcatEmpty
  <2>10. h = HostOf(t, x) BY <2>6, <2>7, <2>9 DEF HostOf, b, v
  <2> HIDE DEF t
  <2>11. Len(ParseIPv6(t)) # 16 BY <2>2
  <2>12. QED BY <1>4, <2>2, <2>10, <2>11
<1>7. QED BY <1>5, <1>6, ZeroText DEF h, T

\* Every IPv6 address is read back, or, if its last group is zero, not read.
LEMMA EveryPrinted ==
    ASSUME NEW a, IsAddress(a), a.family = "v6"
    PROVE  ReadBack(a)
BY OthersPrinted, ZerosPrinted DEF ReadBack

\* Address::Lookup reads what IPv6Address::insert prints of any IPv6 address whose
\* last group is not zero, with its port: the "::" that insert leaves for a run of
\* zeros stands for exactly the groups that it skipped, wherever the run is.  Of an
\* address whose last group is zero, :: among them, it reads none.
THEOREM PrintedAddressesRead == Spec => []PrintedIsRead
<1>1. Init => PrintedIsRead
  BY PrintedAssumption, EveryPrinted DEF Init, PrintedIsRead
<1>2. PrintedIsRead /\ [Next]_<<kind, input>> => PrintedIsRead'
  BY DEF PrintedIsRead, Next
<1>3. QED BY <1>1, <1>2, PTL DEF Spec

-----------------------------------------------------------------------------
(* Configuration files.                                                     *)

\* What a function makes of a finite set is finite.
LEMMA FiniteImage ==
    ASSUME NEW S, IsFiniteSet(S), NEW f
    PROVE  IsFiniteSet({f[x] : x \in S})
<1> DEFINE T == {f[x] : x \in S}
           g == [x \in S |-> f[x]]
<1>1. g \in Surjection(S, T) BY DEF Surjection
<1> HIDE DEF g, T
<1>2. IsFiniteSet(T) BY <1>1, FS_Surjection
<1>3. QED BY <1>2 DEF T

\* Numbers up to n have a greatest one.
LEMMA GreatestOf ==
    ASSUME NEW D, NEW n \in Nat, D \subseteq 1 .. n, D # {}
    PROVE  \E k \in D : \A j \in D : j <= k
<1> DEFINE E == {n - j : j \in D}
<1>1. E \subseteq Nat /\ E # {}
  <2>1. \A j \in D : j \in 1 .. n OBVIOUS
  <2>2. \A j \in 1 .. n : n - j \in Nat OBVIOUS
  <2>3. QED BY <2>1, <2>2
<1>2. PICK e \in E : \A i \in E : e <= i
  <2> HIDE DEF E
  <2> QED BY <1>1, LeastOf
<1>3. PICK k \in D : e = n - k OBVIOUS
<1>4. ASSUME NEW j \in D PROVE j <= k
  <2>1. n - k <= n - j BY <1>2, <1>3
  <2>2. j \in Nat /\ k \in Nat OBVIOUS
  <2>3. QED BY <2>1, <2>2
<1>5. QED BY <1>4

\* What is in two sequences is in the one behind the other ...
LEMMA RangeConcat ==
    ASSUME NEW C, NEW s \in Seq(C), NEW t \in Seq(C)
    PROVE  Range(s \o t) = Range(s) \union Range(t)
<1> DEFINE m == Len(s)
           n == Len(t)
           u == s \o t
<1>1. /\ m \in Nat /\ n \in Nat
      /\ DOMAIN s = 1 .. m /\ DOMAIN t = 1 .. n /\ DOMAIN u = 1 .. m + n
      /\ \A k \in 1 .. m : u[k] = s[k]
      /\ \A k \in 1 .. n : u[m + k] = t[k]
  OBVIOUS
<1> HIDE DEF m, n, u
<1>2. ASSUME NEW k \in 1 .. m + n PROVE u[k] \in Range(s) \union Range(t)
  <2>1. CASE k <= m
    <3>1. k \in 1 .. m BY <1>1, <2>1
    <3>2. QED BY <1>1, <3>1 DEF Range
  <2>2. CASE k > m
    <3>1. k - m \in 1 .. n /\ m + (k - m) = k BY <1>1, <2>2
    <3>2. QED BY <1>1, <3>1 DEF Range
  <2>3. QED BY <1>1, <2>1, <2>2
<1>3. ASSUME NEW k \in 1 .. m PROVE s[k] \in Range(u)
  <2>1. k \in 1 .. m + n BY <1>1
  <2>2. QED BY <1>1, <2>1 DEF Range
<1>4. ASSUME NEW k \in 1 .. n PROVE t[k] \in Range(u)
  <2>1. m + k \in 1 .. m + n BY <1>1
  <2>2. QED BY <1>1, <2>1 DEF Range
<1>5. Range(u) = Range(s) \union Range(t) BY <1>1, <1>2, <1>3, <1>4 DEF Range
<1>6. QED BY <1>5 DEF u

\* ... and what is in any of several is in FlattenSeq of them.
LEMMA RangeFlatten ==
    ASSUME NEW C, NEW ss \in Seq(Seq(C))
    PROVE  /\ FlattenSeq(ss) \in Seq(C)
           /\ Range(FlattenSeq(ss)) = UNION {Range(ss[k]) : k \in 1 .. Len(ss)}
<1> DEFINE N == Len(ss)
           Up(n) == UNION {Range(ss[k]) : k \in 1 .. n}
           f == Flat(ss)
<1>1. N \in Nat /\ \A k \in 1 .. N : ss[k] \in Seq(C) OBVIOUS
<1>2. CASE N = 0
  <2>1. ss = <<>> BY <1>2
  <2>2. FlattenSeq(<<>>) = <<>> BY DEF FlattenSeq
  <2>3. <<>> \in Seq(C) /\ Range(<<>>) = {} BY DEF Range
  <2>4. Up(N) = {} BY <1>2
  <2>5. QED BY <2>1, <2>2, <2>3, <2>4
<1>3. CASE N # 0
  <2>1. /\ f = [i \in 1 .. N |-> IF i = 1 THEN ss[i] ELSE f[i - 1] \o ss[i]]
        /\ FlattenSeq(ss) = f[N]
    BY <1>3, FlatDef
  <2> DEFINE Good == {n \in Nat : n + 1 <= N => f[n + 1] \in Seq(C) /\ Range(f[n + 1]) = Up(n + 1)}
  <2> HIDE DEF f
  <2>2. 0 \in Good
    <3>1. 1 \in 1 .. N BY <1>1, <1>3
    <3>2. f[1] = ss[1] BY <2>1, <3>1
    <3>3. 1 .. 1 = {1} OBVIOUS
    <3>4. Up(1) = Range(ss[1]) BY <3>3
    <3>5. f[0 + 1] \in Seq(C) /\ Range(f[0 + 1]) = Up(0 + 1)
      <4> HIDE DEF Up
      <4> QED BY <1>1, <3>1, <3>2, <3>4
    <3> HIDE DEF Up
    <3>6. QED BY <3>5
  <2>3. ASSUME NEW n \in Nat, n \in Good PROVE n + 1 \in Good
    <3>1. SUFFICES ASSUME (n + 1) + 1 <= N
          PROVE  f[(n + 1) + 1] \in Seq(C) /\ Range(f[(n + 1) + 1]) = Up((n + 1) + 1)
      <4> HIDE DEF Up
      <4> QED OBVIOUS
    <3> DEFINE m == n + 1
               l == m + 1
    <3>2. f[m] \in Seq(C) /\ Range(f[m]) = Up(m)
      <4> HIDE DEF Up
      <4> QED BY <1>1, <2>3, <3>1
    <3>3. l \in 1 .. N /\ l # 1 /\ l - 1 = m BY <1>1, <3>1
    <3>4. \A k : k \in 1 .. l <=> k \in 1 .. m \/ k = l OBVIOUS
    <3> HIDE DEF m, l
    <3>5. f[l] = f[m] \o ss[l] BY <2>1, <3>3
    <3>6. Up(l) = Up(m) \union Range(ss[l]) BY <3>4
    <3>7. f[m] \in Seq(C) BY <3>2
    <3>8. ss[l] \in Seq(C) BY <1>1, <3>3
    <3> HIDE DEF Up
    <3>9. f[l] \in Seq(C) /\ Range(f[l]) = Up(l) BY <3>2, <3>5, <3>6, <3>7, <3>8, RangeConcat, ConcatType
    <3>10. QED BY <3>9 DEF l, m
  <2> HIDE DEF Up, Good
  <2>4. Nat \subseteq Good BY <2>2, <2>3, SetInduction
  <2>5. N - 1 \in Nat /\ (N - 1) + 1 = N /\ N <= N BY <1>1, <1>3
  <2>6. N - 1 \in Good BY <2>4, <2>5
  <2>7. f[N] \in Seq(C) /\ Range(f[N]) = Up(N) BY <2>5, <2>6 DEF Good
  <2>8. QED BY <2>1, <2>7 DEF Up
<1>4. QED BY <1>2, <1>3

\* A valid name has no capitals to convert.
LEMMA LowerName ==
    ASSUME NEW path, IsName(path), ValidName(path)
    PROVE  tolower(path) = path
<1> DEFINE D == 1 .. Len(path)
           B == [name : STRING, capital : BOOLEAN, nine : BOOLEAN]
           f == FALSE
<1>1. path \in Seq(B) BY DEF IsName
<1>2. DOMAIN path = D /\ path = [k \in D |-> path[k]] /\ \A k \in D : path[k] \in B
  <2> HIDE DEF B
  <2> QED BY <1>1
<1>3. ASSUME NEW k \in D PROVE [path[k] EXCEPT !.capital = f] = path[k]
  <2> DEFINE x == path[k]
  <2>1. x \in B /\ ~ x.capital BY <1>2 DEF ValidName
  <2> HIDE DEF x
  <2>2. x.capital = f BY <2>1
  <2>3. x = [name |-> x.name, capital |-> x.capital, nine |-> x.nine] BY <2>1
  <2>4. [x EXCEPT !.capital = x.capital] = x BY <2>3
  <2>5. [x EXCEPT !.capital = f] = x BY <2>2, <2>4
  <2>6. QED BY <2>5 DEF x
<1> HIDE DEF D, B
<1>4. tolower(path) = [k \in D |-> [path[k] EXCEPT !.capital = f]] BY <1>2 DEF tolower
<1> HIDE DEF f
<1>5. QED BY <1>2, <1>3, <1>4

\* A registry: finitely many variables, each with a type and a value of it, under
\* names without capitals.
IsVariable(name, var) ==
    /\ name # <<>> /\ IsName(name) /\ tolower(name) = name
    /\ var = [type |-> var.type, val |-> var.val]
    /\ var.type \in Types
    /\ IsValue(var.type, var.val)
IsRegistry(datas) ==
    /\ datas = [name \in DOMAIN datas |-> datas[name]]
    /\ IsFiniteSet(DOMAIN datas)
    /\ \A name \in DOMAIN datas : IsVariable(name, datas[name])

\* Calls of Config::Lookup make a registry.
LEMMA RegistryIs ==
    ASSUME NEW requests, IsList(requests),
           \A k \in DOMAIN requests : /\ IsName(requests[k].name)
                                      /\ requests[k].type \in Types
                                      /\ IsValue(requests[k].type, requests[k].val)
    PROVE  IsRegistry(Registry(requests))
<1> DEFINE N == Len(requests)
           Valid == {k \in 1 .. N : ValidName(requests[k].name)}
           Names == {requests[k].name : k \in Valid}
           W == {[type |-> requests[k].type, val |-> requests[k].val] : k \in 1 .. N}
           S == UNION {[D -> W] : D \in SUBSET Names}
           F == [k \in 1 .. N |-> [d \in S |-> Lookup(d, requests[k])]]
           e == <<>>
           T == Lookups(requests)
<1>1. N \in Nat /\ DOMAIN requests = 1 .. N BY DEF IsList
<1>2. e \in S
  <2>1. e \in [{} -> W] OBVIOUS
  <2>2. {} \in SUBSET Names OBVIOUS
  <2> HIDE DEF e, W, Names
  <2>3. QED BY <2>1, <2>2
<1>3. ASSUME NEW d \in S, NEW k \in 1 .. N PROVE Lookup(d, requests[k]) \in S
  <2> DEFINE q == requests[k]
             x == q.name
             v == [type |-> q.type, val |-> q.val]
             r == [y \in DOMAIN d \union {x} |-> IF y = x THEN v ELSE d[y]]
  <2>1. v \in W /\ (ValidName(x) => x \in Names) OBVIOUS
  <2>2. Lookup(d, q) = IF x \in DOMAIN d \/ ~ ValidName(x) THEN d ELSE r BY DEF Lookup
  <2> HIDE DEF x, v, q, Names, W
  <2>3. PICK D \in SUBSET Names : d \in [D -> W] OBVIOUS
  <2>4. ValidName(x) => D \union {x} \in SUBSET Names BY <2>1
  <2>5. r \in [D \union {x} -> W] BY <2>1, <2>3
  <2>6. ValidName(x) => r \in S BY <2>4, <2>5
  <2>7. QED BY <2>2, <2>6 DEF q
<1> HIDE DEF S, e
<1>4. F \in [1 .. N -> [S -> S]] BY <1>3
<1>5. \A k \in 1 .. N : \A d \in S : F[k][d] = Lookup(d, requests[k]) OBVIOUS
<1> HIDE DEF N, F
<1>6. PICK g \in [0 .. N -> S] : Loop(g, N, e, F) BY <1>1, <1>2, <1>4, LoopExists
<1>7. \A k \in 1 .. N : k - 1 \in 0 .. N /\ g[k - 1] \in S
  <2>1. \A k \in 1 .. N : k - 1 \in 0 .. N BY <1>1
  <2>2. QED BY <2>1
<1>8. ASSUME NEW k \in 0 .. N PROVE g[k] = IF k = 0 THEN e ELSE Lookup(g[k - 1], requests[k])
  <2>1. CASE k = 0 BY <1>1, <1>6, <2>1 DEF Loop
  <2>2. CASE k # 0
    <3>1. k \in 1 .. N BY <1>1, <2>2
    <3>2. g[k] = F[k][g[k - 1]] BY <1>6, <2>2 DEF Loop
    <3>3. QED BY <1>5, <1>7, <2>2, <3>1, <3>2
  <2>3. QED BY <2>1, <2>2
<1>9. g = [k \in 0 .. N |-> IF k = 0 THEN e ELSE Lookup(g[k - 1], requests[k])]
  <2>1. g = [k \in 0 .. N |-> g[k]] OBVIOUS
  <2>2. QED BY <1>8, <2>1
<1>10. T = [k \in 0 .. N |-> IF k = 0 THEN e ELSE Lookup(T[k - 1], requests[k])]
  BY <1>9 DEF Lookups, N, e
<1> HIDE DEF T
<1>11. 0 \in 0 .. N /\ \A k \in 1 .. N : k \in 0 .. N /\ k # 0 BY <1>1
<1>12. T[0] = e /\ \A k \in 1 .. N : T[k] = Lookup(T[k - 1], requests[k]) BY <1>10, <1>11
<1>13. \A k \in 0 .. N : T[k] \in S
  <2> DEFINE R == [k \in 0 .. N |-> S]
  <2>1. T[0] \in R[0] BY <1>2, <1>11, <1>12
  <2>2. \A k \in 1 .. N : k - 1 \in 0 .. N BY <1>1
  <2>3. \A k \in 1 .. N : T[k - 1] \in R[k - 1] => T[k] \in R[k] BY <1>3, <1>11, <1>12, <2>2
  <2>4. \A k \in 0 .. N : R[k] = S OBVIOUS
  <2> HIDE DEF R
  <2>5. \A k \in 0 .. N : T[k] \in R[k] BY <1>1, <2>1, <2>3, LoopInvariant
  <2>6. QED BY <2>4, <2>5
<1>14. Registry(requests) \in S
  <2>1. N \in 0 .. N BY <1>1
  <2>2. QED BY <1>13, <2>1 DEF Registry, N, T
<1>15. ASSUME NEW d \in S PROVE IsRegistry(d)
  <2>1. PICK D \in SUBSET Names : d \in [D -> W]
    <3> HIDE DEF Names, W
    <3> QED BY DEF S
  <2>2. \A x \in Names : IsName(x) /\ x # <<>> /\ ValidName(x) BY <1>1 DEF IsName
  <2>3. \A w \in W : /\ w = [type |-> w.type, val |-> w.val]
                      /\ w.type \in Types /\ IsValue(w.type, w.val)
    BY <1>1
  <2>4. IsFiniteSet(Names)
    <3>1. IsFiniteSet(1 .. N) BY <1>1, FS_Interval
    <3>2. IsFiniteSet(Valid) BY <3>1, FS_Subset
    <3> DEFINE f == [k \in Valid |-> requests[k].name]
    <3>3. Names = {f[k] : k \in Valid} OBVIOUS
    <3> HIDE DEF Valid, f, Names
    <3>4. QED BY <3>2, <3>3, FiniteImage
  <2> HIDE DEF Names, W
  <2>5. D = DOMAIN d /\ d = [name \in D |-> d[name]] /\ IsFiniteSet(D) BY <2>1, <2>4, FS_Subset
  <2>6. ASSUME NEW name \in D PROVE IsVariable(name, d[name])
    <3>1. name \in Names /\ d[name] \in W BY <2>1
    <3>2. tolower(name) = name BY <2>2, <3>1, LowerName
    <3>3. QED BY <2>2, <2>3, <3>1, <3>2 DEF IsVariable
  <2>7. QED BY <2>5, <2>6 DEF IsRegistry
<1>16. QED BY <1>14, <1>15

\* The members up to number k that name a variable and can be converted to its
\* type, and the values the last of them allows.
Hits(datas, ms, name, k) ==
    {j \in 1 .. k : tolower(ms[j].name) = name /\ Cast(datas[name].type, ms[j].node) # {}}
LastOf(H) == CHOOSE j \in H : \A i \in H : i <= j
DecidedBy(datas, ms, name, k) ==
    IF Hits(datas, ms, name, k) = {} THEN {datas[name].val}
    ELSE Cast(datas[name].type, ms[LastOf(Hits(datas, ms, name, k))].node)

\* One member more decides if it is one of them, and changes nothing otherwise.
LEMMA OneMember ==
    ASSUME NEW datas, NEW ms, NEW name, NEW k \in Nat, k > 0
    PROVE  DecidedBy(datas, ms, name, k)
             = IF tolower(ms[k].name) = name /\ Cast(datas[name].type, ms[k].node) # {}
               THEN Cast(datas[name].type, ms[k].node)
               ELSE DecidedBy(datas, ms, name, k - 1)
<1> DEFINE H(j) == Hits(datas, ms, name, j)
           Hit(j) == tolower(ms[j].name) = name /\ Cast(datas[name].type, ms[j].node) # {}
<1>1. H(k) = IF Hit(k) THEN H(k - 1) \union {k} ELSE H(k - 1)
  <2>1. \A j : j \in 1 .. k <=> j \in 1 .. k - 1 \/ j = k OBVIOUS
  <2>2. H(k) = {j \in 1 .. k : Hit(j)} /\ H(k - 1) = {j \in 1 .. k - 1 : Hit(j)} BY DEF Hits
  <2> HIDE DEF H, Hit
  <2>3. QED BY <2>1, <2>2
<1>2. \A j \in H(k - 1) : j \in Nat /\ j < k BY DEF Hits
<1>3. CASE Hit(k)
  <2>1. H(k) # {} /\ LastOf(H(k)) = k
    <3> HIDE DEF H, Hit
    <3> QED BY <1>1, <1>2, <1>3 DEF LastOf
  <2>2. QED BY <1>3, <2>1 DEF DecidedBy
<1>4. CASE ~ Hit(k)
  <2>1. H(k) = H(k - 1) BY <1>1, <1>4
  <2>2. QED BY <1>4, <2>1 DEF DecidedBy
<1>5. QED BY <1>3, <1>4

\* The registry after k members.
LoadedTo(fresh, ms, k, d) ==
    /\ d = [name \in DOMAIN fresh |-> d[name]]
    /\ \A name \in DOMAIN fresh :
         /\ d[name] = [type |-> fresh[name].type, val |-> d[name].val]
         /\ d[name].val \in DecidedBy(fresh, ms, name, k)

\* ConfigVar::fromString keeps the type and takes a value the cast allows.
LEMMA StringTaken ==
    ASSUME NEW t, NEW v, NEW node
    PROVE  fromString([type |-> t, val |-> v], node)
             = [type |-> t, val |-> IF Cast(t, node) = {} THEN v ELSE CHOOSE x \in Cast(t, node) : TRUE]
<1> DEFINE var == [type |-> t, val |-> v]
           w == CHOOSE x \in Cast(t, node) : TRUE
<1>1. var.type = t OBVIOUS
<1>2. [var EXCEPT !.val = w] = [type |-> t, val |-> w]
  <2> HIDE DEF w
  <2> QED OBVIOUS
<1>3. fromString(var, node) = IF Cast(t, node) = {} THEN var ELSE [var EXCEPT !.val = w]
  <2> HIDE DEF var
  <2> QED BY <1>1 DEF fromString
<1> HIDE DEF w
<1>4. QED BY <1>2, <1>3 DEF w

\* What LoadMember does to each variable.
LEMMA MemberLoaded ==
    ASSUME NEW fresh, IsRegistry(fresh), NEW ms, NEW k \in Nat, k > 0, NEW d,
           LoadedTo(fresh, ms, k - 1, d)
    PROVE  LoadedTo(fresh, ms, k, LoadMember(d, ms[k]))
<1> DEFINE i == ms[k]
           key == tolower(i.name)
           new == LoadMember(d, i)
           var == fromString(d[key], i.node)
           D == DOMAIN fresh
<1>1. d = [name \in D |-> d[name]] /\ DOMAIN d = D BY DEF LoadedTo
<1>2. ASSUME NEW name \in D
      PROVE  /\ name # <<>>
             /\ d[name] = [type |-> fresh[name].type, val |-> d[name].val]
             /\ d[name].val \in DecidedBy(fresh, ms, name, k - 1)
  BY DEF LoadedTo, IsRegistry, IsVariable
<1>3. new = IF key # <<>> /\ key \in DOMAIN d THEN [d EXCEPT ![key] = var] ELSE d BY DEF LoadMember
<1>4. ASSUME NEW name \in D
      PROVE  DecidedBy(fresh, ms, name, k)
             = IF key = name /\ Cast(fresh[name].type, i.node) # {}
               THEN Cast(fresh[name].type, i.node) ELSE DecidedBy(fresh, ms, name, k - 1)
  BY OneMember
<1> HIDE DEF key, new, var, D, i
<1>5. CASE key \in D
  <2>1. new = [d EXCEPT ![key] = var] BY <1>1, <1>2, <1>3, <1>5
  <2>2. new = [name \in D |-> IF name = key THEN var ELSE d[name]] BY <1>1, <1>5, <2>1
  <2> DEFINE c == Cast(fresh[key].type, i.node)
             w == CHOOSE x \in c : TRUE
             z == IF c = {} THEN d[key].val ELSE w
  <2>3. var = [type |-> fresh[key].type, val |-> z]
    <3>1. d[key] = [type |-> fresh[key].type, val |-> d[key].val] BY <1>2, <1>5
    <3>2. fromString([type |-> fresh[key].type, val |-> d[key].val], i.node)
            = [type |-> fresh[key].type, val |-> z]
      BY StringTaken
    <3> HIDE DEF z
    <3>3. QED BY <3>1, <3>2 DEF var
  <2>4. z \in DecidedBy(fresh, ms, key, k)
    <3>1. DecidedBy(fresh, ms, key, k)
            = IF c # {} THEN c ELSE DecidedBy(fresh, ms, key, k - 1)
      BY <1>4, <1>5
    <3>2. d[key].val \in DecidedBy(fresh, ms, key, k - 1) BY <1>2, <1>5
    <3>3. c # {} => w \in c OBVIOUS
    <3> HIDE DEF c, w
    <3>4. QED BY <3>1, <3>2, <3>3
  <2> HIDE DEF c, w, z
  <2>5. var.val = z BY <2>3
  <2>6. ASSUME NEW name \in D
        PROVE  /\ new[name] = [type |-> fresh[name].type, val |-> new[name].val]
               /\ new[name].val \in DecidedBy(fresh, ms, name, k)
    <3>1. CASE name = key
      <4>1. new[name] = var BY <2>2, <3>1
      <4>2. QED BY <2>3, <2>4, <2>5, <3>1, <4>1
    <3>2. CASE name # key
      <4>1. new[name] = d[name] BY <2>2, <3>2
      <4>2. DecidedBy(fresh, ms, name, k) = DecidedBy(fresh, ms, name, k - 1) BY <1>4, <3>2
      <4>3. QED BY <1>2, <4>1, <4>2
    <3>3. QED BY <3>1, <3>2
  <2>7. new = [name \in D |-> new[name]] BY <2>2
  <2>8. QED BY <2>6, <2>7 DEF LoadedTo, D, new, i
<1>6. CASE key \notin D
  <2>1. new = d BY <1>1, <1>3, <1>6
  <2>2. \A name \in D : DecidedBy(fresh, ms, name, k) = DecidedBy(fresh, ms, name, k - 1) BY <1>4, <1>6
  <2>3. QED BY <1>1, <1>2, <2>1, <2>2 DEF LoadedTo, D, new, i
<1>7. QED BY <1>5, <1>6

\* LoadFromYaml's loop is what its definition says, and each turn loads a member.
LEMMA AllLoaded ==
    ASSUME NEW fresh, IsRegistry(fresh), NEW ms, IsList(ms)
    PROVE  LoadedTo(fresh, ms, Len(ms), LoadMembers(fresh, ms)[Len(ms)])
<1> DEFINE N == Len(ms)
           D == DOMAIN fresh
           Y == {fresh[name].type : name \in D}
           Pick(t, k) == CHOOSE x \in Cast(t, ms[k].node) : TRUE
           U == {fresh[name].val : name \in D} \union {Pick(t, k) : t \in Y, k \in 1 .. N}
           W == [type : Y, val : U]
           S == [D -> W]
           F == [k \in 1 .. N |-> [d \in S |-> LoadMember(d, ms[k])]]
           T == LoadMembers(fresh, ms)
<1>1. N \in Nat BY DEF IsList
<1>2. fresh \in S
  <2>1. fresh = [name \in D |-> fresh[name]] BY DEF IsRegistry
  <2>2. \A name \in D : fresh[name] = [type |-> fresh[name].type, val |-> fresh[name].val]
    BY DEF IsRegistry, IsVariable
  <2>3. \A name \in D : fresh[name].type \in Y /\ fresh[name].val \in U
    <3> HIDE DEF Pick
    <3> QED OBVIOUS
  <2> HIDE DEF D, Y, U
  <2>4. ASSUME NEW name \in D PROVE fresh[name] \in W
    <3> DEFINE t == fresh[name].type
               v == fresh[name].val
    <3>1. t \in Y /\ v \in U /\ fresh[name] = [type |-> t, val |-> v] BY <2>2, <2>3
    <3> HIDE DEF t, v
    <3>2. [type |-> t, val |-> v] \in W BY <3>1
    <3> HIDE DEF W
    <3>3. QED BY <3>1, <3>2
  <2> HIDE DEF W
  <2>5. QED BY <2>1, <2>4
<1>3. ASSUME NEW d \in S, NEW k \in 1 .. N PROVE LoadMember(d, ms[k]) \in S
  <2> DEFINE i == ms[k]
             key == tolower(i.name)
             var == fromString(d[key], i.node)
             t == d[key].type
             v == d[key].val
             z == IF Cast(t, i.node) = {} THEN v ELSE Pick(t, k)
  <2>1. LoadMember(d, i) = IF key # <<>> /\ key \in DOMAIN d THEN [d EXCEPT ![key] = var] ELSE d
    BY DEF LoadMember
  <2>2. ASSUME key \in D PROVE var \in W
    <3>1. d[key] \in W
      <4> HIDE DEF W, D, key
      <4> QED BY <2>2
    <3>2. t \in Y /\ v \in U /\ d[key] = [type |-> t, val |-> v]
      <4> HIDE DEF Y, U
      <4> QED BY <3>1
    <3>3. Pick(t, k) \in U
      <4> HIDE DEF Pick, Y, t
      <4> QED BY <3>2
    <3>4. fromString([type |-> t, val |-> v], i.node) = [type |-> t, val |-> z] BY StringTaken
    <3> HIDE DEF t, v, Pick, U, Y
    <3>5. z \in U BY <3>2, <3>3
    <3> HIDE DEF z
    <3>6. QED BY <3>2, <3>4, <3>5
  <2> HIDE DEF W, key, var, D, i
  <2>3. DOMAIN d = D OBVIOUS
  <2>4. key \in D => [d EXCEPT ![key] = var] \in S BY <2>2
  <2>5. QED BY <2>1, <2>3, <2>4 DEF i
<1> HIDE DEF S
<1>4. F \in [1 .. N -> [S -> S]] BY <1>3
<1>5. \A k \in 1 .. N : \A d \in S : F[k][d] = LoadMember(d, ms[k]) OBVIOUS
<1> HIDE DEF N, F
<1>6. PICK g \in [0 .. N -> S] : Loop(g, N, fresh, F) BY <1>1, <1>2, <1>4, LoopExists
<1>7. \A k \in 1 .. N : k - 1 \in 0 .. N /\ g[k - 1] \in S
  <2>1. \A k \in 1 .. N : k - 1 \in 0 .. N BY <1>1
  <2>2. QED BY <2>1
<1>8. ASSUME NEW k \in 0 .. N PROVE g[k] = IF k = 0 THEN fresh ELSE LoadMember(g[k - 1], ms[k])
  <2>1. CASE k = 0 BY <1>1, <1>6, <2>1 DEF Loop
  <2>2. CASE k # 0
    <3>1. k \in 1 .. N BY <1>1, <2>2
    <3>2. g[k] = F[k][g[k - 1]] BY <1>6, <2>2 DEF Loop
    <3>3. QED BY <1>5, <1>7, <2>2, <3>1, <3>2
  <2>3. QED BY <2>1, <2>2
<1>9. g = [k \in 0 .. N |-> IF k = 0 THEN fresh ELSE LoadMember(g[k - 1], ms[k])]
  <2>1. g = [k \in 0 .. N |-> g[k]] OBVIOUS
  <2>2. QED BY <1>8, <2>1
<1>10. T = [k \in 0 .. N |-> IF k = 0 THEN fresh ELSE LoadMember(T[k - 1], ms[k])]
  BY <1>9 DEF LoadMembers, N
<1> HIDE DEF T
<1>11. 0 \in 0 .. N /\ \A k \in 1 .. N : k \in 0 .. N /\ k # 0 BY <1>1
<1>12. T[0] = fresh /\ \A k \in 1 .. N : T[k] = LoadMember(T[k - 1], ms[k]) BY <1>10, <1>11
<1>13. LoadedTo(fresh, ms, 0, T[0])
  <2>1. \A name : Hits(fresh, ms, name, 0) = {} BY DEF Hits
  <2>2. \A name \in D : DecidedBy(fresh, ms, name, 0) = {fresh[name].val} BY <2>1 DEF DecidedBy
  <2>3. QED BY <1>12, <2>2 DEF LoadedTo, IsRegistry, IsVariable
<1>14. \A k \in 1 .. N : LoadedTo(fresh, ms, k - 1, T[k - 1]) => LoadedTo(fresh, ms, k, T[k])
  <2>1. \A k \in 1 .. N : k \in Nat /\ k > 0 BY <1>1
  <2>2. QED BY <1>12, <2>1, MemberLoaded
<1>15. \A k \in 0 .. N : LoadedTo(fresh, ms, k, T[k])
  <2> DEFINE R == [k \in 0 .. N |-> {d \in {T[j] : j \in 0 .. N} : LoadedTo(fresh, ms, k, d)}]
  <2>1. T[0] \in R[0] BY <1>11, <1>13
  <2>2. \A k \in 1 .. N : k \in 0 .. N /\ k - 1 \in 0 .. N BY <1>1
  <2>3. \A k \in 1 .. N : T[k - 1] \in R[k - 1] => T[k] \in R[k] BY <1>14, <2>2
  <2>4. \A k \in 0 .. N : T[k] \in R[k] => LoadedTo(fresh, ms, k, T[k]) OBVIOUS
  <2> HIDE DEF R
  <2>5. \A k \in 0 .. N : T[k] \in R[k] BY <1>1, <2>1, <2>3, LoopInvariant
  <2>6. QED BY <2>4, <2>5
<1>16. N \in 0 .. N BY <1>1
<1>17. QED BY <1>15, <1>16 DEF N, T

\* Whatever the order and the number of members, and whichever of them cannot be
\* converted: Config::LoadFromYaml creates no variable, and gives each the value of
\* the last member that names it, in any case, and can be converted to its type.
LEMMA LastMemberDecides ==
    ASSUME NEW requests \in Requests, NEW doc \in Documents
    PROVE  LoadDecides(requests, doc)
<1> DEFINE fresh == Registry(requests)
           ms == ListAllMember(<<>>, doc)
           loaded == LoadFromYaml(fresh, doc)
           n == Len(ms)
<1>1. IsRegistry(fresh) BY RequestsAssumption, RegistryIs
<1>2. IsList(ms) BY DocumentsAssumption
<1>3. loaded = LoadMembers(fresh, ms)[n] BY DEF LoadFromYaml
<1>4. \A name : Decided(fresh, doc, name)
        = LET H == {k \in DOMAIN ms : /\ tolower(ms[k].name) = name
                                      /\ Cast(fresh[name].type, ms[k].node) # {}}
          IN IF H = {} THEN {fresh[name].val}
             ELSE Cast(fresh[name].type, ms[LastOf(H)].node)
  BY DEF Decided, LastOf
<1>5. DOMAIN ms = 1 .. n
  <2> HIDE DEF ms
  <2> QED BY <1>2 DEF IsList
<1> HIDE DEF fresh, ms
<1>6. LoadedTo(fresh, ms, n, loaded) BY <1>1, <1>2, <1>3, AllLoaded
<1> HIDE DEF loaded, n
<1>7. \A name : Decided(fresh, doc, name) = DecidedBy(fresh, ms, name, n)
  BY <1>4, <1>5 DEF DecidedBy, Hits
<1>8. DOMAIN loaded = DOMAIN fresh /\ \A name \in DOMAIN fresh : loaded[name].val \in Decided(fresh, doc, name)
  BY <1>6, <1>7 DEF LoadedTo
<1>9. QED BY <1>8 DEF LoadDecides, fresh, loaded

-----------------------------------------------------------------------------
(* Writing the variables.                                                    *)

\* The fold of Listed, turn by turn: which sequence each part of a set makes.
OneOf(s) == CHOOSE x \in s : TRUE
ListedParts(S) ==
    CHOOSE g : g = [s \in SUBSET S |-> IF s = {} THEN <<>> ELSE Append(g[s \ {OneOf(s)}], OneOf(s))]
PartsTo(S, n) == {s \in SUBSET S : Cardinality(s) <= n}

\* What is left of a part of a finite set without its first element is smaller.
LEMMA PartLeft ==
    ASSUME NEW S, IsFiniteSet(S), NEW s \in SUBSET S, s # {}
    PROVE  /\ OneOf(s) \in s
           /\ s \ {OneOf(s)} \in SUBSET S
           /\ Cardinality(s) \in Nat
           /\ Cardinality(s \ {OneOf(s)}) = Cardinality(s) - 1
<1>1. OneOf(s) \in s BY DEF OneOf
<1>2. IsFiniteSet(s) BY FS_Subset
<1>3. Cardinality(s) \in Nat BY <1>2, FS_CardinalityType
<1>4. Cardinality(s \ {OneOf(s)}) = Cardinality(s) - 1 BY <1>1, <1>2, FS_RemoveElement
<1>5. QED BY <1>1, <1>3, <1>4

\* There are such sequences.
LEMMA PartsListed ==
    ASSUME NEW S, IsFiniteSet(S)
    PROVE  ListedParts(S) = [s \in SUBSET S |->
              IF s = {} THEN <<>> ELSE Append(ListedParts(S)[s \ {OneOf(s)}], OneOf(s))]
<1> DEFINE P(n) == PartsTo(S, n)
           Is(g, D) == g = [s \in D |-> IF s = {} THEN <<>> ELSE Append(g[s \ {OneOf(s)}], OneOf(s))]
           Good == {n \in Nat : \E g : Is(g, P(n))}
<1>1. 0 \in Good
  <2>1. \A s \in P(0) : s = {}
    <3> SUFFICES ASSUME NEW s \in P(0), s # {} PROVE FALSE OBVIOUS
    <3>1. s \in SUBSET S /\ Cardinality(s) <= 0 BY DEF PartsTo
    <3>2. Cardinality(s) \in Nat /\ s \ {OneOf(s)} \in SUBSET S
          /\ Cardinality(s \ {OneOf(s)}) = Cardinality(s) - 1
      BY <3>1, PartLeft
    <3>3. IsFiniteSet(s \ {OneOf(s)}) BY <3>2, FS_Subset
    <3>4. Cardinality(s \ {OneOf(s)}) \in Nat BY <3>3, FS_CardinalityType
    <3>5. QED BY <3>1, <3>2, <3>4
  <2> DEFINE g == [s \in P(0) |-> <<>>]
  <2>2. Is(g, P(0))
    <3> HIDE DEF P
    <3> QED BY <2>1
  <2>3. QED BY <2>2
<1>2. ASSUME NEW n \in Nat, n \in Good PROVE n + 1 \in Good
  <2>1. PICK g : Is(g, P(n)) BY <1>2
  <2> DEFINE h == [s \in P(n + 1) |-> IF s = {} THEN <<>> ELSE Append(g[s \ {OneOf(s)}], OneOf(s))]
  <2>2. ASSUME NEW s \in P(n + 1), s # {} PROVE s \ {OneOf(s)} \in P(n)
    <3>1. s \in SUBSET S /\ Cardinality(s) <= n + 1 BY DEF PartsTo
    <3>2. Cardinality(s) \in Nat /\ s \ {OneOf(s)} \in SUBSET S
          /\ Cardinality(s \ {OneOf(s)}) = Cardinality(s) - 1
      BY <3>1, <2>2, PartLeft
    <3>3. Cardinality(s \ {OneOf(s)}) <= n BY <3>1, <3>2
    <3>4. QED BY <3>2, <3>3 DEF PartsTo
  <2>3. ASSUME NEW s \in P(n) PROVE s \in P(n + 1)
    <3>1. s \in SUBSET S /\ Cardinality(s) <= n BY DEF PartsTo
    <3>2. IsFiniteSet(s) BY <3>1, FS_Subset
    <3>3. Cardinality(s) \in Nat BY <3>2, FS_CardinalityType
    <3>4. QED BY <3>1, <3>3 DEF PartsTo
  <2>4. \A s \in P(n) : h[s] = g[s]
    <3> HIDE DEF P
    <3>1. \A s \in P(n) : g[s] = IF s = {} THEN <<>> ELSE Append(g[s \ {OneOf(s)}], OneOf(s)) BY <2>1
    <3>2. QED BY <2>3, <3>1
  <2>5. Is(h, P(n + 1))
    <3> DEFINE G(f, s) == IF s = {} THEN <<>> ELSE Append(f[s \ {OneOf(s)}], OneOf(s))
    <3>1. h = [s \in P(n + 1) |-> G(g, s)] OBVIOUS
    <3>2. \A s \in P(n + 1) : G(g, s) = G(h, s)
      <4> HIDE DEF P, h
      <4> QED BY <2>2, <2>4
    <3> HIDE DEF P, h, G
    <3>3. h = [s \in P(n + 1) |-> G(h, s)] BY <3>1, <3>2
    <3>4. QED BY <3>3 DEF G
  <2> HIDE DEF h, Is, P
  <2>6. \E f : Is(f, P(n + 1)) BY <2>5
  <2>7. QED BY <2>6
<1>3. Nat \subseteq Good
  <2> HIDE DEF Good
  <2> QED BY <1>1, <1>2, SetInduction
<1>4. Cardinality(S) \in Nat BY FS_CardinalityType
<1>5. P(Cardinality(S)) = SUBSET S
  <2>1. \A s \in SUBSET S : Cardinality(s) <= Cardinality(S) BY FS_Subset
  <2>2. QED BY <2>1 DEF PartsTo
<1>6. \E g : Is(g, SUBSET S) BY <1>3, <1>4, <1>5
<1>7. QED BY <1>6 DEF ListedParts

\* Listed lists a finite set.
LEMMA ListedAll ==
    ASSUME NEW S, IsFiniteSet(S)
    PROVE  Listed(S) \in Seq(S) /\ Range(Listed(S)) = S
<1> DEFINE T == ListedParts(S)
           Good == {n \in Nat : \A s \in PartsTo(S, n) : T[s] \in Seq(S) /\ Range(T[s]) = s}
<1>1. Listed(S) = T[S] BY DEF Listed, FoldSet, MapThenFoldSet, ListedParts, OneOf
<1>2. T = [s \in SUBSET S |-> IF s = {} THEN <<>> ELSE Append(T[s \ {OneOf(s)}], OneOf(s))]
  BY PartsListed
<1> HIDE DEF T
<1>3. ASSUME NEW s \in SUBSET S
      PROVE  T[s] = IF s = {} THEN <<>> ELSE Append(T[s \ {OneOf(s)}], OneOf(s))
  BY <1>2
<1>4. T[{}] \in Seq(S) /\ Range(T[{}]) = {}
  <2>1. T[{}] = <<>> BY <1>3
  <2>2. QED BY <2>1 DEF Range
<1>5. 0 \in Good
  <2>1. \A s \in PartsTo(S, 0) : s = {}
    <3> SUFFICES ASSUME NEW s \in PartsTo(S, 0), s # {} PROVE FALSE OBVIOUS
    <3>1. s \in SUBSET S /\ Cardinality(s) <= 0 BY DEF PartsTo
    <3>2. IsFiniteSet(s) BY <3>1, FS_Subset
    <3>3. Cardinality(s) \in Nat BY <3>2, FS_CardinalityType
    <3>4. Cardinality(s) = 0 BY <3>1, <3>3
    <3>5. QED BY <3>2, <3>4, FS_EmptySet
  <2>2. QED BY <1>4, <2>1
<1>6. ASSUME NEW n \in Nat, n \in Good PROVE n + 1 \in Good
  <2>1. SUFFICES ASSUME NEW s \in PartsTo(S, n + 1)
        PROVE  T[s] \in Seq(S) /\ Range(T[s]) = s
    OBVIOUS
  <2>2. CASE s = {} BY <1>4, <2>2
  <2>3. CASE s # {}
    <3> DEFINE x == OneOf(s)
               r == s \ {x}
    <3>1. s \in SUBSET S /\ Cardinality(s) <= n + 1 BY DEF PartsTo
    <3>2. Cardinality(s) \in Nat /\ x \in s /\ r \in SUBSET S /\ Cardinality(r) = Cardinality(s) - 1
      BY <3>1, <2>3, PartLeft
    <3>3. Cardinality(r) <= n BY <3>1, <3>2
    <3>4. r \in PartsTo(S, n) BY <3>2, <3>3 DEF PartsTo
    <3>5. T[r] \in Seq(S) /\ Range(T[r]) = r BY <1>6, <3>4
    <3>6. T[s] = Append(T[r], x) BY <1>3, <2>3, <3>1
    <3>7. T[s] \in Seq(S) /\ Range(T[s]) = Range(T[r]) \union {x}
      <4> DEFINE t == T[r]
                 u == T[s]
      <4>1. t \in Seq(S) /\ x \in S /\ u = Append(t, x) BY <3>1, <3>2, <3>5, <3>6
      <4> HIDE DEF t, u, x
      <4>2. u \in Seq(S) /\ Len(u) = Len(t) + 1 /\ u[Len(t) + 1] = x /\ Len(t) \in Nat
            /\ \A k \in 1 .. Len(t) : u[k] = t[k]
        BY <4>1
      <4>3. DOMAIN u = 1 .. Len(t) + 1 /\ DOMAIN t = 1 .. Len(t) BY <4>1, <4>2
      <4>4. \A k : k \in 1 .. Len(t) + 1 <=> k \in 1 .. Len(t) \/ k = Len(t) + 1 BY <4>2
      <4>5. Range(u) = Range(t) \union {x} BY <4>2, <4>3, <4>4 DEF Range
      <4>6. QED BY <4>2, <4>5 DEF t, u
    <3>8. QED BY <3>2, <3>5, <3>7
  <2>4. QED BY <2>2, <2>3
<1>7. Nat \subseteq Good
  <2> HIDE DEF Good
  <2> QED BY <1>5, <1>6, SetInduction
<1>8. Cardinality(S) \in Nat BY FS_CardinalityType
<1>9. S \in PartsTo(S, Cardinality(S)) BY <1>8 DEF PartsTo
<1>10. QED BY <1>1, <1>7, <1>8, <1>9

\* An int is read as it was written ...
LEMMA IntBack ==
    ASSUME NEW v \in {1, 2}
    PROVE  ToInt(FromInt(v)) = {v}
<1> DEFINE node == FromInt(v)
           text == Decimal[v]
<1>1. node.tag = "scalar" /\ Text(node) = text BY DEF FromInt, Scalar, Text
<1>2. text = IF v = 1 THEN "1" ELSE "2" BY DEF Decimal
<1>3. text \in DOMAIN IntOf /\ IntOf[text] = v BY <1>2 DEF IntOf
<1> HIDE DEF node, text
<1>4. QED BY <1>1, <1>3 DEF ToInt, node

\* ... and what is read is one.
LEMMA IntRead ==
    ASSUME NEW node, ToInt(node) # {}
    PROVE  \E v \in {1, 2} : ToInt(node) = {v}
<1>1. \A text \in DOMAIN IntOf : IntOf[text] \in {1, 2} BY DEF IntOf
<1>2. QED BY <1>1 DEF ToInt

\* A vector is read as it was written.
LEMMA VectorBack ==
    ASSUME NEW v \in Seq({1, 2})
    PROVE  ToSequence(FromVector(v)) = {v}
<1> DEFINE D == 1 .. Len(v)
           node == FromVector(v)
           of == [k \in D |-> FromInt(v[k])]
<1>1. DOMAIN v = D /\ v = [k \in D |-> v[k]] /\ \A k \in D : v[k] \in {1, 2} OBVIOUS
<1>2. node.tag = "seq" /\ node.of = of BY <1>1 DEF FromVector, SeqOfNodes
<1>3. DOMAIN of = D /\ \A k \in D : ToInt(of[k]) = {v[k]} BY <1>1, IntBack
<1> HIDE DEF D, node, of
<1>4. ToSequence(node) = {[k \in D |-> CHOOSE n \in ToInt(of[k]) : TRUE]}
  <2>1. ~ \E k \in DOMAIN of : ToInt(of[k]) = {} BY <1>3
  <2>2. QED BY <1>2, <1>3, <2>1 DEF ToSequence
<1>5. \A k \in D : (CHOOSE n \in ToInt(of[k]) : TRUE) = v[k] BY <1>3
<1>6. [k \in D |-> CHOOSE n \in ToInt(of[k]) : TRUE] = v BY <1>1, <1>5
<1>7. QED BY <1>4, <1>6 DEF node

\* The same for list, the node of which is null if it is empty.
LEMMA ListBack ==
    ASSUME NEW v \in Seq({1, 2})
    PROVE  ToSequence(FromList(v)) = {v}
<1>1. CASE v = <<>> BY <1>1 DEF FromList, Null, ToSequence
<1>2. CASE v # <<>> BY <1>2, VectorBack DEF FromList
<1>3. QED BY <1>1, <1>2

\* What is read as a vector or a list has numbers as elements.
LEMMA SequenceRead ==
    ASSUME NEW node, IsNode(node), NEW v \in ToSequence(node)
    PROVE  v \in Seq({1, 2})
<1>1. CASE node.tag \in {"null", "scalar"}
  <2>1. v = <<>> BY <1>1 DEF ToSequence
  <2>2. QED BY <2>1
<1>2. CASE node.tag \notin {"null", "scalar"}
  <2> DEFINE of == node.of
             n == Len(of)
             w == [k \in DOMAIN of |-> CHOOSE x \in ToInt(of[k]) : TRUE]
  <2>1. IsList(of) BY <1>2 DEF IsNode
  <2>2. n \in Nat /\ DOMAIN of = 1 .. n
    <3> HIDE DEF of
    <3> QED BY <2>1 DEF IsList
  <2>3. of = <<>> \/ \A k \in DOMAIN of : ToInt(of[k]) # {} BY <1>2 DEF ToSequence
  <2>4. v = w BY <1>2 DEF ToSequence
  <2> HIDE DEF of, n
  <2>5. \A k \in DOMAIN of : ToInt(of[k]) # {} BY <2>3
  <2>6. ASSUME NEW k \in DOMAIN of PROVE w[k] \in {1, 2}
    <3>1. PICK x \in {1, 2} : ToInt(of[k]) = {x} BY <2>5, IntRead
    <3>2. QED BY <3>1
  <2>7. w \in [1 .. n -> {1, 2}] BY <2>2, <2>6
  <2> HIDE DEF w
  <2>8. v \in [1 .. n -> {1, 2}] BY <2>4, <2>7
  <2>9. QED BY <2>2, <2>8
<1>3. QED BY <1>1, <1>2

\* A set, written in some order, is read as it was.
LEMMA SetBack ==
    ASSUME NEW s, s \subseteq {1, 2}
    PROVE  ToSetOf(FromSet(s)) = {s}
<1> DEFINE B == {1, 2}
           l == Listed(s)
<1>1. IsFiniteSet(B)
  <2>1. 1 .. 2 = {1, 2} OBVIOUS
  <2> DEFINE a == 1
             b == 2
  <2>2. a \in Int /\ b \in Int OBVIOUS
  <2>3. a .. b = B BY <2>1
  <2> HIDE DEF a, b, B
  <2>4. QED BY <2>2, <2>3, FS_Interval
<1>2. s \in SUBSET B OBVIOUS
<1> HIDE DEF B, l
<1>3. IsFiniteSet(s) BY <1>1, <1>2, FS_Subset
<1>4. l \in Seq(s) /\ Range(l) = s BY <1>3, ListedAll DEF l
<1>5. l \in Seq(B)
  <2>1. Len(l) \in Nat /\ l \in [1 .. Len(l) -> s] BY <1>4
  <2>2. l \in [1 .. Len(l) -> B] BY <1>2, <2>1
  <2>3. QED BY <2>1, <2>2
<1>6. ToSequence(FromList(l)) = {l} BY <1>5, ListBack DEF B
<1>7. QED BY <1>4, <1>6 DEF ToSetOf, FromSet, l

\* What is read as a set has numbers as elements.
LEMMA SetRead ==
    ASSUME NEW node, IsNode(node), NEW s \in ToSetOf(node)
    PROVE  s \subseteq {1, 2}
<1>1. PICK v \in ToSequence(node) : s = Range(v) BY DEF ToSetOf
<1>2. v \in Seq({1, 2}) BY <1>1, SequenceRead
<1>3. QED BY <1>1, <1>2 DEF Range

\* A key that is in a list of pairs is found, and at its first place.
LEMMA FirstFound ==
    ASSUME NEW pairs, IsList(pairs), NEW key, \E k \in DOMAIN pairs : pairs[k][1] = key
    PROVE  PickFirst(pairs, key) \in DOMAIN pairs /\ pairs[PickFirst(pairs, key)][1] = key
<1> DEFINE D == {k \in DOMAIN pairs : pairs[k][1] = key}
<1>1. DOMAIN pairs \subseteq Nat BY DEF IsList
<1>2. D \subseteq Nat /\ D # {} BY <1>1
<1>3. PICK k \in D : \A j \in D : k <= j
  <2> HIDE DEF D
  <2> QED BY <1>2, LeastOf
<1>4. \E i \in DOMAIN pairs : pairs[i][1] = key /\ \A j \in DOMAIN pairs : pairs[j][1] = key => i <= j
  BY <1>3
<1>5. QED BY <1>4 DEF PickFirst

\* A map, written in some order of its keys, is read as it was.
LEMMA MapBack ==
    ASSUME NEW m, IsFiniteSet(DOMAIN m), m \in [DOMAIN m -> {1, 2}]
    PROVE  ToMap(FromMap(m)) = {m}
<1> DEFINE D == DOMAIN m
           keys == Listed(D)
<1>1. keys \in Seq(D) /\ Range(keys) = D BY ListedAll
<1>2. m = [key \in D |-> m[key]] /\ \A key \in D : m[key] \in {1, 2} OBVIOUS
<1>3. CASE keys = <<>>
  <2>1. D = {} BY <1>1, <1>3 DEF Range
  <2>2. m = <<>> BY <1>2, <2>1
  <2>3. FromMap(m) = Null BY <1>3 DEF FromMap
  <2>4. ToMap(Null) = {<<>>} BY DEF ToMap, Null
  <2>5. QED BY <2>2, <2>3, <2>4
<1>4. CASE keys # <<>>
  <2> DEFINE of == [k \in DOMAIN keys |-> <<keys[k], FromInt(m[keys[k]])>>]
             node == FromMap(m)
             Keys == {of[k][1] : k \in DOMAIN of}
             c == [key \in Keys |-> ToInt(of[PickFirst(of, key)][2])]
  <2>1. node.tag = "map" /\ node.of = of BY <1>4 DEF FromMap, MapOf
  <2>2. DOMAIN of = DOMAIN keys /\ \A k \in DOMAIN of : of[k][1] = keys[k] /\ of[k][2] = FromInt(m[keys[k]])
    OBVIOUS
  <2> HIDE DEF keys
  <2>3. DOMAIN keys = 1 .. Len(keys) /\ Len(keys) # 0 /\ Len(keys) \in Nat
        /\ \A k \in DOMAIN keys : keys[k] \in D
    BY <1>1, <1>4
  <2>4. IsList(of) BY <2>3 DEF IsList, Range
  <2>5. of # <<>> BY <2>2, <2>3
  <2> HIDE DEF of
  <2>6. Keys = D
    <3>1. Keys = {keys[k] : k \in DOMAIN keys} BY <2>2
    <3> HIDE DEF Keys, D
    <3>2. QED BY <1>1, <3>1 DEF Range
  <2>7. \A k \in DOMAIN of : ToInt(of[k][2]) = {m[keys[k]]} BY <1>2, <2>2, <2>3, IntBack
  <2>8. ToMap(node) = {[key \in Keys |-> CHOOSE n \in ToInt(of[PickFirst(of, key)][2]) : TRUE]}
    <3> HIDE DEF node
    <3>1. ~ \E k \in DOMAIN of : ToInt(of[k][2]) = {} BY <2>7
    <3>2. QED BY <2>1, <2>5, <3>1 DEF ToMap
  <2> HIDE DEF node, Keys, D
  <2>9. ASSUME NEW key \in D PROVE (CHOOSE n \in ToInt(of[PickFirst(of, key)][2]) : TRUE) = m[key]
    <3>1. \E k \in DOMAIN of : of[k][1] = key BY <2>6 DEF Keys
    <3>2. PickFirst(of, key) \in DOMAIN of /\ of[PickFirst(of, key)][1] = key BY <2>4, <3>1, FirstFound
    <3>3. ToInt(of[PickFirst(of, key)][2]) = {m[key]} BY <2>2, <2>7, <3>2
    <3>4. QED BY <3>3
  <2>10. [key \in Keys |-> CHOOSE n \in ToInt(of[PickFirst(of, key)][2]) : TRUE] = m BY <1>2, <2>6, <2>9
  <2>11. QED BY <2>8, <2>10 DEF node
<1>5. QED BY <1>3, <1>4

\* What is read as a map has finitely many keys, and numbers as values.
LEMMA MapRead ==
    ASSUME NEW node, IsNode(node), NEW m \in ToMap(node)
    PROVE  IsFiniteSet(DOMAIN m) /\ m \in [DOMAIN m -> {1, 2}]
<1> DEFINE of == node.of
           Keys == {of[k][1] : k \in DOMAIN of}
           w == [key \in Keys |-> CHOOSE n \in ToInt(of[PickFirst(of, key)][2]) : TRUE]
<1>1. CASE node.tag \in {"null", "scalar"} \/ of = <<>>
  <2>1. m = <<>> BY <1>1 DEF ToMap
  <2>2. DOMAIN m = {} /\ m \in [{} -> {1, 2}] BY <2>1
  <2>3. QED BY <2>2, FS_EmptySet
<1>2. CASE ~ (node.tag \in {"null", "scalar"} \/ of = <<>>)
  <2>1. node.tag = "map" /\ m = w /\ \A k \in DOMAIN of : ToInt(of[k][2]) # {}
    BY <1>2 DEF ToMap, IsNode
  <2>2. IsList(of) BY <1>2 DEF IsNode
  <2>3. Len(of) \in Nat /\ DOMAIN of = 1 .. Len(of)
    <3> HIDE DEF of
    <3> QED BY <2>2 DEF IsList
  <2> HIDE DEF of
  <2>4. IsFiniteSet(Keys)
    <3> DEFINE f == [k \in DOMAIN of |-> of[k][1]]
    <3>1. IsFiniteSet(DOMAIN of) BY <2>3, FS_Interval
    <3>2. Keys = {f[k] : k \in DOMAIN of} OBVIOUS
    <3> HIDE DEF f, Keys
    <3>3. QED BY <3>1, <3>2, FiniteImage
  <2>5. ASSUME NEW key \in Keys PROVE w[key] \in {1, 2}
    <3>1. \E k \in DOMAIN of : of[k][1] = key OBVIOUS
    <3>2. PickFirst(of, key) \in DOMAIN of BY <2>2, <3>1, FirstFound
    <3>3. PICK x \in {1, 2} : ToInt(of[PickFirst(of, key)][2]) = {x} BY <2>1, <3>2, IntRead
    <3>4. QED BY <3>3
  <2> HIDE DEF Keys
  <2>6. DOMAIN w = Keys /\ w \in [Keys -> {1, 2}] BY <2>5
  <2> HIDE DEF w
  <2>7. QED BY <2>1, <2>4, <2>6
<1>3. QED BY <1>1, <1>2

\* What is in a list of elements of a set is in the set.
LEMMA ListElement ==
    ASSUME NEW C, NEW s \in Seq(C)
    PROVE  \A k \in DOMAIN s : s[k] \in C
OBVIOUS

\* A list of lists of one element each.
LEMMA FlattenSingles ==
    ASSUME NEW C, NEW s \in Seq(C)
    PROVE  FlattenSeq([k \in DOMAIN s |-> <<s[k]>>]) = s
<1> DEFINE N == Len(s)
           ss == [k \in DOMAIN s |-> <<s[k]>>]
           f == Flat(ss)
<1>1. N \in Nat /\ DOMAIN s = 1 .. N /\ \A k \in 1 .. N : s[k] \in C /\ <<s[k]>> \in Seq(C) OBVIOUS
<1>2. ss \in Seq(Seq(C)) /\ Len(ss) = N /\ \A k \in 1 .. N : ss[k] = <<s[k]>>
  <2>1. ss \in [1 .. N -> Seq(C)] BY <1>1
  <2>2. QED BY <1>1, <2>1
<1> HIDE DEF ss
<1>3. CASE N = 0
  <2>1. s = <<>> /\ ss = <<>> BY <1>2, <1>3
  <2>2. FlattenSeq(<<>>) = <<>> BY DEF FlattenSeq
  <2>3. QED BY <2>1, <2>2 DEF ss
<1>4. CASE N # 0
  <2>1. /\ f = [i \in 1 .. N |-> IF i = 1 THEN ss[i] ELSE f[i - 1] \o ss[i]]
        /\ FlattenSeq(ss) = f[N]
    BY <1>2, <1>4, FlatDef
  <2> DEFINE Good == {n \in Nat : n + 1 <= N => f[n + 1] = SubSeq(s, 1, n + 1)}
  <2> HIDE DEF f, N
  <2>2. 0 \in Good
    <3>1. 1 \in 1 .. N BY <1>1, <1>4
    <3>2. f[1] = <<s[1]>> BY <1>2, <2>1, <3>1
    <3>3. SubSeq(s, 1, 1) = <<s[1]>> BY <3>1, SubSeqOne DEF N
    <3>4. QED BY <3>2, <3>3
  <2>3. ASSUME NEW n \in Nat, n \in Good PROVE n + 1 \in Good
    <3>1. SUFFICES ASSUME (n + 1) + 1 <= N PROVE f[(n + 1) + 1] = SubSeq(s, 1, (n + 1) + 1) OBVIOUS
    <3> DEFINE m == n + 1
               l == m + 1
    <3>2. f[m] = SubSeq(s, 1, m) BY <1>1, <2>3, <3>1
    <3>3. l \in 1 .. N /\ l # 1 /\ l - 1 = m /\ m \in Nat /\ l \in Nat /\ m <= l BY <1>1, <3>1
    <3>4. f[l] = f[m] \o <<s[l]>>
      <4> HIDE DEF m, l
      <4> QED BY <1>2, <2>1, <3>3
    <3>5. SubSeq(s, l, l) = <<s[l]>>
      <4> HIDE DEF l
      <4> QED BY <3>3, SubSeqOne DEF N
    <3>6. SubSeq(s, 1, m) \o SubSeq(s, m + 1, l) = SubSeq(s, 1, l)
      <4>1. 1 <= m + 1 /\ l <= Len(s) BY <3>3 DEF N
      <4> DEFINE a == 1
      <4>2. a \in Nat /\ a <= a /\ 1 <= a /\ a <= m + 1 BY <3>3
      <4> HIDE DEF a, l, m
      <4>3. SubSeq(s, a, m) \o SubSeq(s, m + 1, l) = SubSeq(s, a, l) BY <3>3, <4>1, <4>2, SubSeqSplit
      <4>4. QED BY <4>3 DEF a
    <3>7. f[l] = SubSeq(s, 1, l) BY <3>2, <3>4, <3>5, <3>6
    <3>8. QED BY <3>7
  <2>4. Nat \subseteq Good
    <3> HIDE DEF Good
    <3> QED BY <2>2, <2>3, SetInduction
  <2>5. N - 1 \in Nat /\ (N - 1) + 1 = N /\ N <= N BY <1>1, <1>4
  <2>6. N - 1 \in Good BY <2>4, <2>5
  <2>7. f[N] = SubSeq(s, 1, N) BY <2>5, <2>6
  <2>8. SubSeq(s, 1, N) = s BY DEF N
  <2>9. QED BY <2>1, <2>7, <2>8 DEF ss
<1>5. QED BY <1>3, <1>4

\* A sequence is a list.
LEMMA SequenceIsList ==
    ASSUME NEW C, NEW s \in Seq(C)
    PROVE  IsList(s)
<1>1. Len(s) \in Nat /\ DOMAIN s = 1 .. Len(s) /\ s = [k \in 1 .. Len(s) |-> s[k]] OBVIOUS
<1>2. \A k \in 1 .. Len(s) : s[k] \in Range(s) BY <1>1 DEF Range
<1>3. s \in [1 .. Len(s) -> Range(s)] BY <1>1, <1>2
<1>4. QED BY <1>1, <1>3 DEF IsList

\* A field all pairs of which have the same value has that value, ...
LEMMA FieldFound ==
    ASSUME NEW pairs, IsList(pairs), NEW field, NEW v,
           \E p \in Range(pairs) : p[1] = field,
           \A p \in Range(pairs) : p[1] = field => p[2] = v
    PROVE  Has(MapOf(pairs), field) /\ At(MapOf(pairs), field) = v
<1> DEFINE n == MapOf(pairs)
           j == PickFirst(pairs, field)
<1>1. n.tag = "map" /\ n.of = pairs BY DEF MapOf
<1>2. \E k \in DOMAIN pairs : pairs[k][1] = field BY DEF Range
<1>3. j \in DOMAIN pairs /\ pairs[j][1] = field BY <1>2, FirstFound
<1> HIDE DEF n, j
<1>4. pairs[j][2] = v BY <1>3 DEF Range
<1>5. Has(n, field) BY <1>1, <1>2 DEF Has
<1>6. At(n, field) = v BY <1>1, <1>4 DEF At, j
<1>7. QED BY <1>5, <1>6 DEF n

\* ... which is a text if it is a scalar, ...
LEMMA TextFound ==
    ASSUME NEW pairs, IsList(pairs), NEW field, NEW text,
           \E p \in Range(pairs) : p[1] = field,
           \A p \in Range(pairs) : p[1] = field => p[2] = Scalar(text)
    PROVE  Has(MapOf(pairs), field) /\ TextAt(MapOf(pairs), field) = text
<1>1. Has(MapOf(pairs), field) /\ At(MapOf(pairs), field) = Scalar(text) BY FieldFound
<1>2. Text(Scalar(text)) = text BY DEF Text, Scalar
<1>3. QED BY <1>1, <1>2 DEF TextAt

\* ... and one without pairs is missing.
LEMMA FieldMissing ==
    ASSUME NEW pairs, NEW field, \A p \in Range(pairs) : p[1] # field
    PROVE  /\ ~ Has(MapOf(pairs), field)
           /\ TextAt(MapOf(pairs), field) = "" /\ Elements(MapOf(pairs), field) = <<>>
<1>1. MapOf(pairs).of = pairs BY DEF MapOf
<1>2. ~ Has(MapOf(pairs), field) BY <1>1 DEF Has, Range
<1>3. QED BY <1>2 DEF TextAt, Elements

\* Reading fields all pairs of which are scalars does not throw.
LEMMA ScalarFields ==
    ASSUME NEW pairs, IsList(pairs), NEW fields,
           \A p \in Range(pairs) : p[1] \in fields => p[2].tag = "scalar"
    PROVE  ~ Throws(MapOf(pairs), fields)
<1> DEFINE n == MapOf(pairs)
<1>1. n.tag = "map" /\ n.of = pairs BY DEF MapOf
<1> HIDE DEF n
<1>2. ASSUME NEW field \in fields, Has(n, field) PROVE At(n, field).tag = "scalar"
  <2> DEFINE j == PickFirst(pairs, field)
  <2>1. \E k \in DOMAIN pairs : pairs[k][1] = field BY <1>1, <1>2 DEF Has
  <2>2. j \in DOMAIN pairs /\ pairs[j][1] = field BY <2>1, FirstFound
  <2> HIDE DEF j
  <2>3. pairs[j][2].tag = "scalar" BY <2>2 DEF Range
  <2>4. QED BY <1>1, <2>3 DEF At, j
<1>3. ~ Throws(n, fields) BY <1>1, <1>2 DEF Throws
<1>4. QED BY <1>3 DEF n

\* What is in a list of no, one or two elements.
LEMMA ShortRanges ==
    ASSUME NEW C, NEW x, NEW y
    PROVE  /\ Range(<<>>) = {} /\ <<>> \in Seq(C)
           /\ Range(<<x>>) = {x} /\ (x \in C => <<x>> \in Seq(C))
           /\ Range(<<x, y>>) = {x, y} /\ (x \in C /\ y \in C => <<x, y>> \in Seq(C))
<1>1. Range(<<>>) = {} /\ <<>> \in Seq(C) BY DEF Range
<1>2. Range(<<x>>) = {x} /\ (x \in C => <<x>> \in Seq(C))
  <2>1. DOMAIN <<x>> = {1} /\ <<x>>[1] = x OBVIOUS
  <2>2. QED BY <2>1 DEF Range
<1>3. Range(<<x, y>>) = {x, y} /\ (x \in C /\ y \in C => <<x, y>> \in Seq(C))
  <2>1. DOMAIN <<x, y>> = {1, 2} /\ <<x, y>>[1] = x /\ <<x, y>>[2] = y OBVIOUS
  <2>2. QED BY <2>1 DEF Range
<1>4. QED BY <1>1, <1>2, <1>3

\* A pair that is only written if there is something to write.
LEMMA OptionalPair ==
    ASSUME NEW C, NEW name, NEW text, text # "" => Field(name, text) \in C
    PROVE  /\ Optional(name, text) \in Seq(C)
           /\ Range(Optional(name, text)) = IF text = "" THEN {} ELSE {Field(name, text)}
<1>1. CASE text = ""
  <2>1. Optional(name, text) = <<>> BY <1>1 DEF Optional
  <2>2. QED BY <1>1, <2>1, ShortRanges
<1>2. CASE text # ""
  <2> DEFINE x == Field(name, text)
  <2>1. Optional(name, text) = <<x>> BY <1>2 DEF Optional
  <2> HIDE DEF x
  <2>2. x \in C BY <1>2 DEF x
  <2>3. <<x>> \in Seq(C) /\ Range(<<x>>) = {x} BY <2>2, ShortRanges
  <2>4. QED BY <1>2, <2>1, <2>3 DEF x
<1>3. QED BY <1>1, <1>2

\* An appender is read as it was written ...
LEMMA AppenderBack ==
    ASSUME NEW a, IsAppender(a)
    PROVE  ToAppender(FromAppender(a)) = <<a>> /\ ~ AppenderThrows(FromAppender(a))
<1> DEFINE text == IF a.type = 1 THEN "FileLogAppender" ELSE "StdoutLogAppender"
           x == Field("type", text)
           y == Field("file", a.file)
           z == Field("formatter", a.formatter)
           A1 == IF a.type = 1 THEN <<x, y>> ELSE <<x>>
           A3 == Optional("formatter", a.formatter)
           R1 == IF a.type = 1 THEN {x, y} ELSE {x}
           R3 == IF a.formatter = "" THEN {} ELSE {z}
           C == {x, y, z}
           pairs == A1 \o A3
           n == MapOf(pairs)
<1>1. a = [type |-> a.type, level |-> "UNKONW", formatter |-> a.formatter, file |-> a.file]
      /\ (a.type = 1 \/ (a.type = 2 /\ a.file = "")) /\ a.level = "UNKONW"
  <2>1. a = [type |-> a.type, level |-> "UNKONW", formatter |-> a.formatter, file |-> a.file]
    BY DEF IsAppender
  <2>2. \A t, f, g : [type |-> t, level |-> "UNKONW", formatter |-> f, file |-> g].level = "UNKONW" OBVIOUS
  <2>3. a.level = "UNKONW" BY <2>1, <2>2
  <2>4. a.type = 1 \/ (a.type = 2 /\ a.file = "") BY DEF IsAppender
  <2>5. QED BY <2>1, <2>3, <2>4
<1>2. A1 \in Seq(C) /\ Range(A1) = R1
  <2> HIDE DEF x, y, z
  <2>1. <<x, y>> \in Seq(C) /\ <<x>> \in Seq(C) OBVIOUS
  <2>2. Range(<<x, y>>) = {x, y} BY ShortRanges
  <2>3. Range(<<x>>) = {x} BY ShortRanges
  <2>4. QED BY <2>1, <2>2, <2>3
<1>3. A3 \in Seq(C) /\ Range(A3) = R3
  <2> HIDE DEF x, y
  <2>1. z \in C OBVIOUS
  <2> HIDE DEF C
  <2>2. QED BY <2>1, OptionalPair
<1>4. FromAppender(a) = n
  <2>1. (A1 \o <<>>) = A1
    <3> HIDE DEF A1, C
    <3> QED BY <1>2
  <2>2. FromAppender(a) = MapOf((A1 \o <<>>) \o A3)
    <3>1. FromAppender(a) = MapOf((A1 \o (IF a.level = "UNKONW" THEN <<>> ELSE <<Field("level", LevelText(a.level))>>)) \o A3)
      BY DEF FromAppender
    <3> HIDE DEF A1, A3
    <3>2. QED BY <1>1, <3>1
  <2>3. QED BY <2>1, <2>2
<1>5. pairs \in Seq(C) /\ Range(pairs) = R1 \union R3
  <2> HIDE DEF A1, A3, R1, R3, C
  <2>1. QED BY <1>2, <1>3, RangeConcat, ConcatType
<1>6. IsList(pairs)
  <2> HIDE DEF pairs, C
  <2> QED BY <1>5, SequenceIsList
<1>7. /\ x[1] = "type" /\ x[2] = Scalar(text) /\ y[1] = "file" /\ y[2] = Scalar(a.file)
      /\ z[1] = "formatter" /\ z[2] = Scalar(a.formatter)
  BY DEF Field
<1>8. x \in R1 OBVIOUS
<1> HIDE DEF x, y, z, pairs, n, A1, A3, C
<1>9. Has(n, "type") /\ TextAt(n, "type") = text
  <2>1. \E p \in Range(pairs) : p[1] = "type" BY <1>5, <1>7, <1>8
  <2>2. \A p \in Range(pairs) : p[1] = "type" => p[2] = Scalar(text) BY <1>5, <1>7
  <2> HIDE DEF text
  <2>3. QED BY <1>6, <2>1, <2>2, TextFound DEF n
<1>10. a.type = 1 => Has(n, "file") /\ TextAt(n, "file") = a.file
  <2> SUFFICES ASSUME a.type = 1 PROVE Has(n, "file") /\ TextAt(n, "file") = a.file OBVIOUS
  <2>1. \E p \in Range(pairs) : p[1] = "file" BY <1>5, <1>7
  <2>2. \A p \in Range(pairs) : p[1] = "file" => p[2] = Scalar(a.file) BY <1>5, <1>7
  <2>3. QED BY <1>6, <2>1, <2>2, TextFound DEF n
<1>11. TextAt(n, "formatter") = a.formatter
  <2>1. CASE a.formatter = ""
    <3>1. \A p \in Range(pairs) : p[1] # "formatter" BY <1>5, <1>7, <2>1
    <3>2. QED BY <2>1, <3>1, FieldMissing DEF n
  <2>2. CASE a.formatter # ""
    <3>1. \E p \in Range(pairs) : p[1] = "formatter" BY <1>5, <1>7, <2>2
    <3>2. \A p \in Range(pairs) : p[1] = "formatter" => p[2] = Scalar(a.formatter) BY <1>5, <1>7
    <3>3. QED BY <1>6, <3>1, <3>2, TextFound DEF n
  <2>3. QED BY <2>1, <2>2
<1>12. ASSUME a.type = 1 PROVE ToAppender(FromAppender(a)) = <<a>>
  <2>1. ToAppender(n) = <<[type |-> 1, level |-> "UNKONW", formatter |-> a.formatter, file |-> a.file]>>
    BY <1>9, <1>10, <1>11, <1>12 DEF ToAppender
  <2>2. QED BY <1>1, <1>4, <1>12, <2>1
<1>13. ASSUME a.type # 1 PROVE ToAppender(FromAppender(a)) = <<a>>
  <2>1. ToAppender(n) = <<[type |-> 2, level |-> "UNKONW", formatter |-> a.formatter, file |-> ""]>>
    BY <1>9, <1>11, <1>13 DEF ToAppender
  <2>2. QED BY <1>1, <1>4, <1>13, <2>1
<1>14. \A fields : ~ Throws(n, fields)
  <2>1. \A t : Scalar(t).tag = "scalar" BY DEF Scalar
  <2>2. \A p \in Range(pairs) : p[2].tag = "scalar" BY <1>5, <1>7, <2>1
  <2>3. QED BY <1>6, <2>2, ScalarFields DEF n
<1>15. ~ AppenderThrows(n) BY <1>14 DEF AppenderThrows
<1>16. QED BY <1>4, <1>12, <1>13, <1>15

\* ... and what is read is one, or nothing.
LEMMA AppenderRead ==
    ASSUME NEW node
    PROVE  /\ ToAppender(node) \in Seq(Range(ToAppender(node)))
           /\ \A a \in Range(ToAppender(node)) : IsAppender(a)
<1> DEFINE f == TextAt(node, "formatter")
           g == TextAt(node, "file")
           x == [type |-> 1, level |-> "UNKONW", formatter |-> f, file |-> g]
           y == [type |-> 2, level |-> "UNKONW", formatter |-> f, file |-> ""]
<1>1. ToAppender(node) \in {<<x>>, <<y>>, <<>>} BY DEF ToAppender
<1> HIDE DEF f, g
<1>2. IsAppender(x) /\ IsAppender(y) BY DEF IsAppender
<1> HIDE DEF x, y
<1>3. /\ Range(<<x>>) = {x} /\ Range(<<y>>) = {y} /\ Range(<<>>) = {}
      /\ <<x>> \in Seq({x}) /\ <<y>> \in Seq({y}) /\ <<>> \in Seq({})
  BY ShortRanges
<1>4. QED BY <1>1, <1>2, <1>3

\* A log definition is read as it was written ...
LEMMA DefineBack ==
    ASSUME NEW d, IsDefine(d)
    PROVE  /\ ToDefine(FromDefine(d)) = d
           /\ Has(FromDefine(d), "name") /\ TextAt(FromDefine(d), "name") = d.name
           /\ ~ DefineThrows(FromDefine(d))
<1> DEFINE level == LevelText(d.level)
           as == d.appenders
           of == [k \in DOMAIN as |-> FromAppender(as[k])]
           x == Field("name", d.name)
           y == Field("level", level)
           z == Field("formatter", d.formatter)
           w == <<"appenders", SeqOfNodes(of)>>
           A1 == <<x, y>>
           A2 == Optional("formatter", d.formatter)
           A3 == IF as = <<>> THEN <<>> ELSE <<w>>
           R2 == IF d.formatter = "" THEN {} ELSE {z}
           R3 == IF as = <<>> THEN {} ELSE {w}
           C == {x, y, z, w}
           pairs == (A1 \o A2) \o A3
           n == MapOf(pairs)
<1>1. /\ d = [name |-> d.name, level |-> d.level, formatter |-> d.formatter, appenders |-> d.appenders]
      /\ d.level \in {"DEBUG", "ERROR", "UNKONW"}
      /\ IsList(as) /\ \A k \in DOMAIN as : IsAppender(as[k])
  BY DEF IsDefine
<1>2. FromDefine(d) = n BY DEF FromDefine
<1>3. A1 \in Seq(C) /\ Range(A1) = {x, y}
  <2> HIDE DEF x, y, z, w
  <2>1. x \in C /\ y \in C OBVIOUS
  <2> HIDE DEF C
  <2>2. QED BY <2>1, ShortRanges
<1>4. A2 \in Seq(C) /\ Range(A2) = R2
  <2> HIDE DEF x, y, w
  <2>1. z \in C OBVIOUS
  <2> HIDE DEF C
  <2>2. QED BY <2>1, OptionalPair
<1>5. A3 \in Seq(C) /\ Range(A3) = R3
  <2> HIDE DEF x, y, z, w
  <2>1. w \in C OBVIOUS
  <2> HIDE DEF C, as
  <2>2. QED BY <2>1, ShortRanges
<1>6. pairs \in Seq(C) /\ Range(pairs) = {x, y} \union R2 \union R3
  <2> HIDE DEF A1, A2, A3, R2, R3, C, x, y
  <2> DEFINE B == A1 \o A2
  <2>1. B \in Seq(C) /\ Range(B) = {x, y} \union R2 BY <1>3, <1>4, RangeConcat, ConcatType
  <2> HIDE DEF B
  <2>2. B \o A3 \in Seq(C) /\ Range(B \o A3) = Range(B) \union R3 BY <1>5, <2>1, RangeConcat, ConcatType
  <2>3. QED BY <2>1, <2>2 DEF B
<1>7. IsList(pairs)
  <2> HIDE DEF pairs, C
  <2> QED BY <1>6, SequenceIsList
<1>8. /\ x[1] = "name" /\ x[2] = Scalar(d.name) /\ y[1] = "level" /\ y[2] = Scalar(level)
      /\ z[1] = "formatter" /\ z[2] = Scalar(d.formatter)
      /\ w[1] = "appenders" /\ w[2] = SeqOfNodes(of)
  BY DEF Field
<1>9. FromString(level) = d.level BY <1>1 DEF FromString, LevelText
<1> HIDE DEF x, y, z, w, pairs, n, A1, A2, A3, C, level
<1>10. Has(n, "name") /\ TextAt(n, "name") = d.name
  <2>1. \E p \in Range(pairs) : p[1] = "name" BY <1>6, <1>8
  <2>2. \A p \in Range(pairs) : p[1] = "name" => p[2] = Scalar(d.name) BY <1>6, <1>8
  <2>3. QED BY <1>7, <2>1, <2>2, TextFound DEF n
<1>11. TextAt(n, "level") = level
  <2>1. \E p \in Range(pairs) : p[1] = "level" BY <1>6, <1>8
  <2>2. \A p \in Range(pairs) : p[1] = "level" => p[2] = Scalar(level) BY <1>6, <1>8
  <2>3. QED BY <1>7, <2>1, <2>2, TextFound DEF n
<1>12. TextAt(n, "formatter") = d.formatter
  <2>1. CASE d.formatter = ""
    <3>1. \A p \in Range(pairs) : p[1] # "formatter" BY <1>6, <1>8, <2>1
    <3>2. QED BY <2>1, <3>1, FieldMissing DEF n
  <2>2. CASE d.formatter # ""
    <3>1. \E p \in Range(pairs) : p[1] = "formatter" BY <1>6, <1>8, <2>2
    <3>2. \A p \in Range(pairs) : p[1] = "formatter" => p[2] = Scalar(d.formatter) BY <1>6, <1>8
    <3>3. QED BY <1>7, <3>1, <3>2, TextFound DEF n
  <2>3. QED BY <2>1, <2>2
<1>13. Elements(n, "appenders") = of /\ ~ NoElements(n, "appenders")
  <2>1. CASE as = <<>>
    <3>1. \A p \in Range(pairs) : p[1] # "appenders" BY <1>6, <1>8, <2>1
    <3>2. Elements(n, "appenders") = <<>> /\ ~ Has(n, "appenders") BY <3>1, FieldMissing DEF n
    <3>3. of = <<>> BY <2>1
    <3>4. QED BY <3>2, <3>3 DEF NoElements
  <2>2. CASE as # <<>>
    <3> DEFINE v == SeqOfNodes(of)
    <3>1. v.of = of /\ v.tag = "seq" BY DEF SeqOfNodes
    <3> HIDE DEF of, v
    <3>2. \E p \in Range(pairs) : p[1] = "appenders" BY <1>6, <1>8, <2>2
    <3>3. \A p \in Range(pairs) : p[1] = "appenders" => p[2] = v BY <1>6, <1>8 DEF v
    <3>4. Has(n, "appenders") /\ At(n, "appenders") = v BY <1>7, <3>2, <3>3, FieldFound DEF n
    <3>5. QED BY <3>1, <3>4 DEF Elements, NoElements
  <2>3. QED BY <2>1, <2>2
<1>14. /\ DOMAIN of = DOMAIN as
       /\ \A k \in DOMAIN as : ToAppender(of[k]) = <<as[k]>> /\ ~ AppenderThrows(of[k])
  BY <1>1, AppenderBack
<1>15. FlattenSeq([k \in DOMAIN Elements(n, "appenders") |-> ToAppender(Elements(n, "appenders")[k])]) = as
  <2> HIDE DEF of, as
  <2>1. [k \in DOMAIN of |-> ToAppender(of[k])] = [k \in DOMAIN as |-> <<as[k]>>] BY <1>14
  <2>2. FlattenSeq([k \in DOMAIN as |-> <<as[k]>>]) = as BY <1>1, FlattenSingles DEF IsList
  <2>3. QED BY <1>13, <2>1, <2>2
<1>16. ToDefine(n) = [name |-> d.name, level |-> d.level, formatter |-> d.formatter, appenders |-> as]
  BY <1>9, <1>10, <1>11, <1>12, <1>15 DEF ToDefine
<1>17. ~ DefineThrows(n)
  <2> DEFINE fields == {"name", "level", "formatter"}
  <2>1. \A t : Scalar(t).tag = "scalar" BY DEF Scalar
  <2>2. \A p \in Range(pairs) : p[1] \in fields => p[2].tag = "scalar"
    <3> HIDE DEF of
    <3> QED BY <1>6, <1>8, <2>1
  <2>3. ~ Throws(n, fields)
    <3> HIDE DEF fields
    <3> QED BY <1>7, <2>2, ScalarFields DEF n
  <2>4. ~ Throws(n, {})
    <3>1. n.tag = "map" BY DEF n, MapOf
    <3>2. QED BY <3>1 DEF Throws
  <2> HIDE DEF of
  <2>5. QED BY <1>13, <1>14, <2>3, <2>4 DEF DefineThrows
<1>18. QED BY <1>1, <1>2, <1>10, <1>16, <1>17

\* ... and what is read is one.
LEMMA DefineRead ==
    ASSUME NEW node, IsList(Elements(node, "appenders"))
    PROVE  IsDefine(ToDefine(node)) /\ ToDefine(node).name = TextAt(node, "name")
<1> DEFINE e == Elements(node, "appenders")
           D == DOMAIN e
           of == [k \in D |-> ToAppender(e[k])]
           C == UNION {Range(of[k]) : k \in D}
           as == FlattenSeq(of)
           d == ToDefine(node)
           name == TextAt(node, "name")
           level == FromString(TextAt(node, "level"))
           formatter == TextAt(node, "formatter")
<1>1. Len(e) \in Nat /\ D = 1 .. Len(e)
  <2> HIDE DEF e
  <2> QED BY DEF IsList
<1>2. \A k \in D : of[k] \in Seq(Range(of[k])) /\ \A a \in Range(of[k]) : IsAppender(a) BY AppenderRead
<1>3. d = [name |-> name, level |-> level, formatter |-> formatter, appenders |-> as] BY DEF ToDefine
<1>4. level \in {"DEBUG", "ERROR", "UNKONW"} BY DEF FromString
<1>5. DOMAIN of = D OBVIOUS
<1> HIDE DEF e, D
<1>6. of = [k \in D |-> of[k]] OBVIOUS
<1> HIDE DEF of
<1>7. ASSUME NEW k \in D PROVE of[k] \in Seq(C)
  <2> DEFINE s == of[k]
  <2>1. s \in Seq(Range(s)) BY <1>2
  <2>2. Range(s) \subseteq C OBVIOUS
  <2> HIDE DEF s, C
  <2>3. Len(s) \in Nat /\ s \in [1 .. Len(s) -> Range(s)] BY <2>1
  <2>4. s \in [1 .. Len(s) -> C] BY <2>2, <2>3
  <2>5. s \in Seq(C) BY <2>3, <2>4
  <2>6. QED BY <2>5 DEF s
<1>8. \A a \in C : IsAppender(a) BY <1>2
<1> HIDE DEF C
<1>9. of \in Seq(Seq(C))
  <2>1. of \in [1 .. Len(e) -> Seq(C)] BY <1>1, <1>6, <1>7
  <2>2. QED BY <1>1, <2>1
<1>10. as \in Seq(C) BY <1>9, RangeFlatten
<1> HIDE DEF as
<1>11. IsList(as) BY <1>10, SequenceIsList
<1>12. \A k \in DOMAIN as : IsAppender(as[k])
  <2>1. \A k \in DOMAIN as : as[k] \in C BY <1>10, ListElement
  <2>2. QED BY <1>8, <2>1
<1> HIDE DEF name, level, formatter, d
<1>13. d.name = name /\ d.level = level /\ d.formatter = formatter /\ d.appenders = as BY <1>3
<1>14. IsDefine(d) BY <1>3, <1>4, <1>11, <1>12, <1>13 DEF IsDefine
<1>15. QED BY <1>13, <1>14 DEF d, name

\* The definitions ToLogs keeps.
Kept(n) ==
    {k \in DOMAIN n : /\ Has(n[k], "name")
                      /\ \A j \in DOMAIN n : Has(n[j], "name") /\ j < k =>
                           TextAt(n[j], "name") # TextAt(n[k], "name")}

\* ToLogs keeps the first definition of each name.
LEMMA LogsKept ==
    ASSUME NEW node
    PROVE  ToLogs(node) = LET n == IF node.tag = "seq" THEN node.of ELSE <<>>
                          IN IF \E k \in DOMAIN n : DefineThrows(n[k]) THEN {}
                             ELSE {{ToDefine(n[k]) : k \in Kept(n)}}
<1> DEFINE n == IF node.tag = "seq" THEN node.of ELSE <<>>
           Named == {k \in DOMAIN n : Has(n[k], "name")}
           F == {k \in Named : \A j \in Named : j < k => TextAt(n[j], "name") # TextAt(n[k], "name")}
<1>1. F = Kept(n)
  <2> HIDE DEF n
  <2> QED BY DEF Kept
<1>2. ToLogs(node) = IF \E k \in DOMAIN n : DefineThrows(n[k]) THEN {} ELSE {{ToDefine(n[k]) : k \in F}}
  BY DEF ToLogs
<1> HIDE DEF n, F
<1>3. QED BY <1>1, <1>2 DEF n

\* Log definitions, written in some order, are read as they were.
LEMMA LogsBack ==
    ASSUME NEW s, IsFiniteSet(s), \A d \in s : IsDefine(d), \A d, e \in s : d.name = e.name => d = e
    PROVE  ToLogs(FromLogs(s)) = {s}
<1> DEFINE defs == Listed(s)
           n == [k \in DOMAIN defs |-> FromDefine(defs[k])]
           node == FromLogs(s)
           m == IF node.tag = "seq" THEN node.of ELSE <<>>
<1>1. defs \in Seq(s) /\ Range(defs) = s BY ListedAll
<1>2. m = n
  <2>1. CASE defs = <<>>
    <3>1. node = Null BY <2>1 DEF FromLogs
    <3>2. m = <<>> BY <3>1 DEF Null
    <3>3. n = <<>>
      <4> HIDE DEF defs
      <4> QED BY <2>1
    <3>4. QED BY <3>2, <3>3
  <2>2. CASE defs # <<>>
    <3>1. node = SeqOfNodes(n) BY <2>2 DEF FromLogs
    <3> HIDE DEF n, node
    <3>2. QED BY <3>1 DEF SeqOfNodes
  <2>3. QED BY <2>1, <2>2
<1>3. ToLogs(node) = IF \E k \in DOMAIN m : DefineThrows(m[k]) THEN {}
                    ELSE {{ToDefine(m[k]) : k \in Kept(m)}}
  <2> HIDE DEF node
  <2> QED BY LogsKept
<1> HIDE DEF defs, node, m
<1>4. DOMAIN n = DOMAIN defs /\ DOMAIN defs \subseteq Nat
      /\ (\A k \in DOMAIN defs : defs[k] \in s) /\ (\A d \in s : \E k \in DOMAIN defs : defs[k] = d)
  <2>1. \A d \in s : \E k \in DOMAIN defs : defs[k] = d BY <1>1 DEF Range
  <2>2. QED BY <1>1, <2>1
<1>5. \A k \in DOMAIN n : /\ ToDefine(n[k]) = defs[k]
                          /\ Has(n[k], "name") /\ TextAt(n[k], "name") = defs[k].name
                          /\ ~ DefineThrows(n[k])
  BY <1>4, DefineBack
<1> HIDE DEF n
<1>6. Kept(n) = {k \in DOMAIN defs : \A j \in DOMAIN defs : j < k => defs[j].name # defs[k].name}
  BY <1>4, <1>5 DEF Kept
<1>7. ASSUME NEW d \in s PROVE \E k \in Kept(n) : defs[k] = d
  <2> DEFINE D == {k \in DOMAIN defs : defs[k].name = d.name}
  <2>1. D \subseteq Nat /\ D # {} BY <1>4
  <2>2. PICK k \in D : \A j \in D : k <= j
    <3> HIDE DEF D
    <3> QED BY <2>1, LeastOf
  <2>3. k \in DOMAIN defs /\ defs[k] = d BY <1>4
  <2>4. ASSUME NEW j \in DOMAIN defs, j < k PROVE defs[j].name # defs[k].name
    <3>1. j \in Nat /\ k \in Nat BY <1>4, <2>3
    <3>2. j \notin D BY <2>2, <2>4, <3>1
    <3>3. QED BY <3>2
  <2>5. k \in Kept(n) BY <1>6, <2>3, <2>4
  <2>6. QED BY <2>3, <2>5
<1>8. \A k \in Kept(n) : ToDefine(n[k]) = defs[k] /\ defs[k] \in s BY <1>4, <1>5, <1>6
<1>9. {ToDefine(n[k]) : k \in Kept(n)} = s BY <1>7, <1>8
<1>10. ~ \E k \in DOMAIN n : DefineThrows(n[k]) BY <1>5
<1>11. ToLogs(node) = {{ToDefine(n[k]) : k \in Kept(n)}} BY <1>2, <1>3, <1>10
<1>12. QED BY <1>9, <1>11 DEF node

\* What is read as logs is finitely many definitions, one of each name.
LEMMA LogsRead ==
    ASSUME NEW node, IsNode(node), NEW s \in ToLogs(node)
    PROVE  IsFiniteSet(s) /\ (\A d \in s : IsDefine(d)) /\ (\A d, e \in s : d.name = e.name => d = e)
<1> DEFINE n == IF node.tag = "seq" THEN node.of ELSE <<>>
<1>1. s = {ToDefine(n[k]) : k \in Kept(n)} BY LogsKept
<1>2. Len(n) \in Nat /\ DOMAIN n = 1 .. Len(n) /\ \A k \in DOMAIN n : IsList(Elements(n[k], "appenders"))
  <2>1. CASE node.tag = "seq"
    <3>1. n = node.of /\ IsList(node.of) /\ \A k \in DOMAIN node.of : IsList(Elements(node.of[k], "appenders"))
      BY <2>1 DEF IsNode
    <3> HIDE DEF n
    <3>2. QED BY <3>1 DEF IsList
  <2>2. CASE node.tag # "seq"
    <3>1. n = <<>> BY <2>2
    <3>2. QED BY <3>1
  <2>3. QED BY <2>1, <2>2
<1> HIDE DEF n
<1>3. Kept(n) \subseteq DOMAIN n /\ Kept(n) \subseteq Nat BY <1>2 DEF Kept
<1>4. IsFiniteSet(s)
  <2> DEFINE f == [k \in Kept(n) |-> ToDefine(n[k])]
  <2>1. IsFiniteSet(1 .. Len(n)) BY <1>2, FS_Interval
  <2>2. IsFiniteSet(Kept(n)) BY <1>2, <1>3, <2>1, FS_Subset
  <2>3. s = {f[k] : k \in Kept(n)} BY <1>1
  <2> HIDE DEF f
  <2>4. QED BY <2>2, <2>3, FiniteImage
<1>5. \A k \in Kept(n) : IsDefine(ToDefine(n[k])) /\ ToDefine(n[k]).name = TextAt(n[k], "name")
  BY <1>2, <1>3, DefineRead
<1>6. ASSUME NEW d \in s, NEW e \in s, d.name = e.name PROVE d = e
  <2>1. PICK j \in Kept(n) : d = ToDefine(n[j]) BY <1>1
  <2>2. PICK k \in Kept(n) : e = ToDefine(n[k]) BY <1>1
  <2>3. TextAt(n[j], "name") = TextAt(n[k], "name") BY <1>5, <1>6, <2>1, <2>2
  <2>4. ~ (j < k) /\ ~ (k < j) BY <2>3 DEF Kept
  <2>5. j \in Nat /\ k \in Nat BY <1>3
  <2>6. j = k BY <2>4, <2>5
  <2>7. QED BY <2>1, <2>2, <2>6
<1>7. QED BY <1>1, <1>4, <1>5, <1>6

\* ConfigVar::fromString reads what ConfigVar::toString writes ...
LEMMA ValueBack ==
    ASSUME NEW t \in Types, NEW v, IsValue(t, v)
    PROVE  Cast(t, toString([type |-> t, val |-> v])) = {v}
<1> DEFINE var == [type |-> t, val |-> v]
<1>1. var.type = t /\ var.val = v OBVIOUS
<1> HIDE DEF var
<1>2. CASE t = "int"
  <2>1. toString(var) = FromInt(v) BY <1>1, <1>2 DEF toString
  <2>2. v \in {1, 2} BY <1>2 DEF IsValue
  <2>3. \A node : Cast(t, node) = ToInt(node) BY <1>2 DEF Cast
  <2>4. QED BY <2>1, <2>2, <2>3, IntBack DEF var
<1>3. CASE t = "vector"
  <2>1. toString(var) = FromVector(v) BY <1>1, <1>3 DEF toString
  <2>2. v \in Seq({1, 2}) BY <1>3 DEF IsValue
  <2>3. \A node : Cast(t, node) = ToSequence(node) BY <1>3 DEF Cast
  <2>4. QED BY <2>1, <2>2, <2>3, VectorBack DEF var
<1>4. CASE t = "list"
  <2>1. toString(var) = FromList(v) BY <1>1, <1>4 DEF toString
  <2>2. v \in Seq({1, 2}) BY <1>4 DEF IsValue
  <2>3. \A node : Cast(t, node) = ToSequence(node) BY <1>4 DEF Cast
  <2>4. QED BY <2>1, <2>2, <2>3, ListBack DEF var
<1>5. CASE t = "set"
  <2>1. toString(var) = FromSet(v) BY <1>1, <1>5 DEF toString
  <2>2. v \subseteq {1, 2} BY <1>5 DEF IsValue
  <2>3. \A node : Cast(t, node) = ToSetOf(node) BY <1>5 DEF Cast
  <2>4. QED BY <2>1, <2>2, <2>3, SetBack DEF var
<1>6. CASE t = "map"
  <2>1. toString(var) = FromMap(v) BY <1>1, <1>6 DEF toString
  <2>2. IsFiniteSet(DOMAIN v) /\ v \in [DOMAIN v -> {1, 2}] BY <1>6 DEF IsValue
  <2>3. \A node : Cast(t, node) = ToMap(node) BY <1>6 DEF Cast
  <2>4. QED BY <2>1, <2>2, <2>3, MapBack DEF var
<1>7. CASE t = "logs"
  <2>1. toString(var) = FromLogs(v) BY <1>1, <1>7 DEF toString
  <2>2. IsFiniteSet(v) /\ (\A d \in v : IsDefine(d)) /\ (\A d, e \in v : d.name = e.name => d = e)
    BY <1>7 DEF IsValue
  <2>3. \A node : Cast(t, node) = ToLogs(node) BY <1>7 DEF Cast
  <2>4. QED BY <2>1, <2>2, <2>3, LogsBack DEF var
<1>8. QED BY <1>2, <1>3, <1>4, <1>5, <1>6, <1>7 DEF Types

\* ... and what it reads from a node is a value of the type.
LEMMA ValueRead ==
    ASSUME NEW t \in Types, NEW node, IsNode(node), NEW v \in Cast(t, node)
    PROVE  IsValue(t, v)
<1>1. CASE t = "int"
  <2>1. v \in ToInt(node) BY <1>1 DEF Cast
  <2>2. v \in {1, 2} BY <2>1, IntRead
  <2>3. QED BY <1>1, <2>2 DEF IsValue
<1>2. CASE t \in {"vector", "list"}
  <2>1. v \in ToSequence(node) BY <1>2 DEF Cast
  <2>2. v \in Seq({1, 2}) BY <2>1, SequenceRead
  <2>3. QED BY <1>2, <2>2 DEF IsValue
<1>3. CASE t = "set"
  <2>1. v \in ToSetOf(node) BY <1>3 DEF Cast
  <2>2. v \subseteq {1, 2} BY <2>1, SetRead
  <2>3. QED BY <1>3, <2>2 DEF IsValue
<1>4. CASE t = "map"
  <2>1. v \in ToMap(node) BY <1>4 DEF Cast
  <2>2. IsFiniteSet(DOMAIN v) /\ v \in [DOMAIN v -> {1, 2}] BY <2>1, MapRead
  <2>3. QED BY <1>4, <2>2 DEF IsValue
<1>5. CASE t = "logs"
  <2>1. v \in ToLogs(node) BY <1>5 DEF Cast
  <2>2. IsFiniteSet(v) /\ (\A d \in v : IsDefine(d)) /\ (\A d, e \in v : d.name = e.name => d = e)
    BY <2>1, LogsRead
  <2>3. QED BY <1>5, <2>2 DEF IsValue
<1>6. QED BY <1>1, <1>2, <1>3, <1>4, <1>5 DEF Types

\* The last of several hits is one.
LEMMA LastHit ==
    ASSUME NEW datas, NEW ms, NEW name, NEW n \in Nat, Hits(datas, ms, name, n) # {}
    PROVE  LastOf(Hits(datas, ms, name, n)) \in Hits(datas, ms, name, n)
<1> DEFINE H == Hits(datas, ms, name, n)
<1>1. H \subseteq 1 .. n BY DEF Hits
<1> HIDE DEF H
<1>2. \E k \in H : \A j \in H : j <= k BY <1>1, GreatestOf DEF H
<1>3. QED BY <1>2 DEF LastOf, H

\* A loaded registry is one.
LEMMA LoadedIsRegistry ==
    ASSUME NEW fresh, IsRegistry(fresh), NEW ms, IsList(ms),
           \A k \in DOMAIN ms : IsNode(ms[k].node),
           NEW d, LoadedTo(fresh, ms, Len(ms), d)
    PROVE  IsRegistry(d) /\ DOMAIN d = DOMAIN fresh
<1> DEFINE n == Len(ms)
           D == DOMAIN fresh
<1>1. n \in Nat /\ DOMAIN ms = 1 .. n BY DEF IsList
<1>2. d = [name \in D |-> d[name]] /\ DOMAIN d = D BY DEF LoadedTo
<1>3. ASSUME NEW name \in D PROVE IsVariable(name, d[name])
  <2> DEFINE t == fresh[name].type
             v == d[name].val
             H == Hits(fresh, ms, name, n)
  <2>1. d[name] = [type |-> t, val |-> v] /\ v \in DecidedBy(fresh, ms, name, n) BY DEF LoadedTo
  <2>2. IsVariable(name, fresh[name]) BY DEF IsRegistry
  <2>3. t \in Types /\ IsValue(t, fresh[name].val) BY <2>2 DEF IsVariable
  <2>4. IsValue(t, v)
    <3>1. CASE H = {}
      <4>1. v = fresh[name].val BY <2>1, <3>1 DEF DecidedBy
      <4>2. QED BY <2>3, <4>1
    <3>2. CASE H # {}
      <4> DEFINE j == LastOf(H)
      <4>1. j \in H BY <1>1, <3>2, LastHit
      <4>2. v \in Cast(t, ms[j].node) BY <2>1, <3>2 DEF DecidedBy
      <4>3. j \in DOMAIN ms BY <1>1, <4>1 DEF Hits
      <4> HIDE DEF j, t, v
      <4>4. IsNode(ms[j].node) BY <4>3
      <4>5. QED BY <2>3, <4>2, <4>4, ValueRead
    <3>3. QED BY <3>1, <3>2
  <2> HIDE DEF t, v
  <2>5. d[name].type = t /\ d[name].val = v BY <2>1
  <2>6. QED BY <2>1, <2>2, <2>3, <2>4, <2>5 DEF IsVariable
<1>4. IsFiniteSet(D) BY DEF IsRegistry
<1> HIDE DEF D
<1>5. QED BY <1>2, <1>3, <1>4 DEF IsRegistry, D

\* Only a map is written as a map, with its keys and numbers.
LEMMA WrittenMap ==
    ASSUME NEW t \in Types, NEW v, IsValue(t, v), NEW node, node = toString([type |-> t, val |-> v]),
           node.tag = "map"
    PROVE  /\ t = "map"
           /\ IsList(node.of)
           /\ \A k \in DOMAIN node.of : \E key \in DOMAIN v :
                node.of[k][1] = key /\ node.of[k][2] = FromInt(v[key])
<1> DEFINE var == [type |-> t, val |-> v]
           keys == Listed(DOMAIN v)
           of == [k \in DOMAIN keys |-> <<keys[k], FromInt(v[keys[k]])>>]
<1>1. var.type = t /\ var.val = v OBVIOUS
<1> HIDE DEF var
<1>2. node = toString(var) BY DEF var
<1>3. t = "map"
  <2>1. \A s : FromVector(s).tag = "seq" /\ FromList(s).tag # "map"
    BY DEF FromVector, SeqOfNodes, FromList, Null
  <2>2. \A s : FromSet(s).tag # "map" BY <2>1 DEF FromSet
  <2>3. \A s : FromLogs(s).tag # "map" BY DEF FromLogs, SeqOfNodes, Null
  <2>4. \A n : FromInt(n).tag = "scalar" BY DEF FromInt, Scalar
  <2>5. t \notin {"int", "vector", "list", "set", "logs"}
    BY <1>1, <1>2, <2>1, <2>2, <2>3, <2>4 DEF toString
  <2>6. QED BY <2>5 DEF Types
<1>4. IsFiniteSet(DOMAIN v) BY <1>3 DEF IsValue
<1>5. keys \in Seq(DOMAIN v) BY <1>4, ListedAll
<1>6. node = FromMap(v) BY <1>1, <1>2, <1>3 DEF toString
<1>7. node.of = of
  <2>1. node = IF keys = <<>> THEN Null ELSE MapOf(of) BY <1>6 DEF FromMap
  <2> HIDE DEF keys, of
  <2>2. node = MapOf(of) BY <2>1 DEF Null
  <2>3. QED BY <2>2 DEF MapOf
<1> HIDE DEF keys
<1>8. \A k \in DOMAIN keys : keys[k] \in DOMAIN v BY <1>5, ListElement
<1>9. Len(keys) \in Nat /\ DOMAIN keys = 1 .. Len(keys) BY <1>5
<1>10. IsList(of)
  <2>1. of \in [1 .. Len(keys) -> Range(of)] BY <1>9 DEF Range
  <2>2. QED BY <1>9, <2>1 DEF IsList
<1>11. ASSUME NEW k \in DOMAIN of
       PROVE  \E key \in DOMAIN v : of[k][1] = key /\ of[k][2] = FromInt(v[key])
  BY <1>8
<1>12. QED BY <1>3, <1>7, <1>10, <1>11

\* What Visit makes of a member: itself, visited, and the members of a map.
LEMMA VisitMakes ==
    ASSUME NEW A, NEW x, NEW y, NEW b \in BOOLEAN,
           [name |-> x, node |-> y, visited |-> TRUE] \in A,
           y.tag = "map" => /\ IsList(y.of)
                            /\ \A k \in DOMAIN y.of : Member(x \o y.of[k][1], y.of[k][2]) \in A,
           NEW i, i = [name |-> x, node |-> y, visited |-> b]
    PROVE  /\ Visit(i) \in Seq(A)
           /\ [name |-> x, node |-> y, visited |-> TRUE] \in Range(Visit(i))
           /\ ~ b /\ y.tag = "map" =>
                \A k \in DOMAIN y.of : Member(x \o y.of[k][1], y.of[k][2]) \in Range(Visit(i))
<1> DEFINE self == [name |-> x, node |-> y, visited |-> TRUE]
           of == [k \in DOMAIN y.of |-> Member(x \o y.of[k][1], y.of[k][2])]
           below == IF b \/ y.tag # "map" THEN <<>> ELSE of
<1>1. i.name = x /\ i.node = y /\ i.visited = b /\ [i EXCEPT !.visited = TRUE] = self
  <2>1. \A z : [[name |-> x, node |-> y, visited |-> b] EXCEPT !.visited = z]
                = [name |-> x, node |-> y, visited |-> z]
    OBVIOUS
  <2>2. i.name = x /\ i.node = y /\ i.visited = b OBVIOUS
  <2> DEFINE yes == TRUE
  <2> HIDE DEF yes
  <2>3. [i EXCEPT !.visited = yes] = [name |-> x, node |-> y, visited |-> yes] BY <2>1
  <2>4. QED BY <2>2, <2>3 DEF yes
<1> HIDE DEF self
<1>2. Visit(i) = <<self>> \o below BY <1>1 DEF Visit
<1>3. <<self>> \in Seq(A) /\ Range(<<self>>) = {self} BY ShortRanges DEF self
<1>4. below \in Seq(A) /\ (~ b /\ y.tag = "map" => \A k \in DOMAIN y.of : of[k] \in Range(below))
  <2>1. CASE b \/ y.tag # "map"
    <3>1. below = <<>> BY <2>1
    <3> HIDE DEF below, of
    <3>2. QED BY <2>1, <3>1, ShortRanges
  <2>2. CASE ~ b /\ y.tag = "map"
    <3>1. below = of BY <2>2
    <3>2. Len(y.of) \in Nat /\ DOMAIN y.of = 1 .. Len(y.of) BY <2>2 DEF IsList
    <3>3. of \in [1 .. Len(y.of) -> A] BY <2>2, <3>2
    <3>4. DOMAIN of = DOMAIN y.of OBVIOUS
    <3> HIDE DEF below, of
    <3>5. of \in Seq(A) BY <3>2, <3>3
    <3>6. \A k \in DOMAIN y.of : of[k] \in Range(of) BY <3>4 DEF Range
    <3>7. QED BY <3>1, <3>5, <3>6
  <2>3. QED BY <2>1, <2>2
<1>5. \A k \in DOMAIN y.of : of[k] = Member(x \o y.of[k][1], y.of[k][2]) OBVIOUS
<1> HIDE DEF below, of
<1> DEFINE one == <<self>>
<1>6. one \in Seq(A) /\ Range(one) = {self} BY <1>3
<1> HIDE DEF one
<1>7. one \o below \in Seq(A) /\ Range(one \o below) = Range(one) \union Range(below)
  BY <1>4, <1>6, RangeConcat, ConcatType
<1>8. Visit(i) \in Seq(A) /\ Range(Visit(i)) = {self} \union Range(below) BY <1>2, <1>6, <1>7 DEF one
<1>9. self \in Range(Visit(i)) BY <1>8
<1>10. ~ b /\ y.tag = "map" =>
          \A k \in DOMAIN y.of : Member(x \o y.of[k][1], y.of[k][2]) \in Range(Visit(i))
  BY <1>4, <1>5, <1>8
<1>11. QED BY <1>8, <1>9, <1>10 DEF self

\* A turn of ListAllMember visits every member that is there.
LEMMA AllVisited ==
    ASSUME NEW A, \A i \in A : Visit(i) \in Seq(A), NEW s \in Seq(A)
    PROVE  /\ VisitAll(s) \in Seq(A)
           /\ \A i \in Range(s) : Range(Visit(i)) \subseteq Range(VisitAll(s))
<1> DEFINE ss == [k \in DOMAIN s |-> Visit(s[k])]
<1>1. Len(s) \in Nat /\ DOMAIN s = 1 .. Len(s) /\ \A k \in DOMAIN s : s[k] \in A BY ListElement
<1>2. DOMAIN ss = 1 .. Len(s) /\ \A k \in 1 .. Len(s) : ss[k] = Visit(s[k]) BY <1>1
<1>3. ss \in [1 .. Len(s) -> Seq(A)] BY <1>1
<1> HIDE DEF ss
<1>4. ss \in Seq(Seq(A)) /\ Len(ss) = Len(s)
  <2> DEFINE n == Len(s)
             C == Seq(A)
  <2>1. n \in Nat /\ ss \in [1 .. n -> C] BY <1>1, <1>3
  <2> HIDE DEF n, C
  <2>2. ss \in Seq(C) /\ Len(ss) = n BY <2>1
  <2>3. QED BY <2>2 DEF n, C
<1>5. FlattenSeq(ss) \in Seq(A) /\ Range(FlattenSeq(ss)) = UNION {Range(ss[k]) : k \in 1 .. Len(ss)}
  BY <1>4, RangeFlatten
<1>6. VisitAll(s) = FlattenSeq(ss) BY DEF VisitAll, ss
<1>7. ASSUME NEW i \in Range(s) PROVE Range(Visit(i)) \subseteq Range(VisitAll(s))
  <2>1. PICK k \in 1 .. Len(s) : i = s[k] BY <1>1 DEF Range
  <2>2. Visit(i) = ss[k] BY <1>2, <2>1
  <2>3. k \in 1 .. Len(ss) BY <1>4
  <2>4. QED BY <1>5, <1>6, <2>2, <2>3
<1>8. QED BY <1>5, <1>6, <1>7

\* The turns of ListAllMember, for members that make members of the same set.
LEMMA LevelsListed ==
    ASSUME NEW A, \A i \in A : Visit(i) \in Seq(A), NEW prefix, NEW node, Member(prefix, node) \in A
    PROVE  /\ Levels(prefix, node)[0] = <<Member(prefix, node)>>
           /\ \A d \in 1 .. MaxDepth + 1 : Levels(prefix, node)[d] = VisitAll(Levels(prefix, node)[d - 1])
           /\ \A d \in 0 .. MaxDepth + 1 : Levels(prefix, node)[d] \in Seq(A)
<1> DEFINE N == MaxDepth + 1
           S == Seq(A)
           e == <<Member(prefix, node)>>
           F == [d \in 1 .. N |-> [s \in S |-> VisitAll(s)]]
           T == Levels(prefix, node)
<1>1. N \in Nat BY MaxDepthAssumption
<1>2. e \in S BY ShortRanges
<1>3. \A s \in S : VisitAll(s) \in S BY AllVisited
<1> HIDE DEF S, e
<1>4. F \in [1 .. N -> [S -> S]] BY <1>3
<1>5. \A d \in 1 .. N : \A s \in S : F[d][s] = VisitAll(s) OBVIOUS
<1> HIDE DEF N, F
<1>6. PICK g \in [0 .. N -> S] : Loop(g, N, e, F) BY <1>1, <1>2, <1>4, LoopExists
<1>7. \A d \in 1 .. N : d - 1 \in 0 .. N /\ g[d - 1] \in S
  <2>1. \A d \in 1 .. N : d - 1 \in 0 .. N BY <1>1
  <2>2. QED BY <2>1
<1>8. ASSUME NEW d \in 0 .. N PROVE g[d] = IF d = 0 THEN e ELSE VisitAll(g[d - 1])
  <2>1. CASE d = 0 BY <1>1, <1>6, <2>1 DEF Loop
  <2>2. CASE d # 0
    <3>1. d \in 1 .. N BY <1>1, <2>2
    <3>2. g[d] = F[d][g[d - 1]] BY <1>6, <2>2 DEF Loop
    <3>3. QED BY <1>5, <1>7, <2>2, <3>1, <3>2
  <2>3. QED BY <2>1, <2>2
<1>9. g = [d \in 0 .. N |-> IF d = 0 THEN e ELSE VisitAll(g[d - 1])]
  <2>1. g = [d \in 0 .. N |-> g[d]] OBVIOUS
  <2>2. QED BY <1>8, <2>1
<1>10. T = [d \in 0 .. N |-> IF d = 0 THEN e ELSE VisitAll(T[d - 1])] BY <1>9 DEF Levels, N, e
<1> HIDE DEF T
<1>11. 0 \in 0 .. N /\ \A d \in 1 .. N : d \in 0 .. N /\ d # 0 BY <1>1
<1>12. T[0] = e /\ \A d \in 1 .. N : T[d] = VisitAll(T[d - 1]) BY <1>10, <1>11
<1>13. \A d \in 0 .. N : T[d] \in S
  <2> DEFINE R == [d \in 0 .. N |-> S]
  <2>1. T[0] \in R[0] BY <1>2, <1>11, <1>12
  <2>2. \A d \in 1 .. N : d - 1 \in 0 .. N BY <1>1
  <2>3. \A d \in 1 .. N : T[d - 1] \in R[d - 1] => T[d] \in R[d] BY <1>3, <1>11, <1>12, <2>2
  <2>4. \A d \in 0 .. N : R[d] = S OBVIOUS
  <2> HIDE DEF R
  <2>5. \A d \in 0 .. N : T[d] \in R[d] BY <1>1, <2>1, <2>3, LoopInvariant
  <2>6. QED BY <2>4, <2>5
<1>14. QED BY <1>12, <1>13 DEF N, T, S, e

\* The members of a saved registry: the document, the variables, and the elements of
\* the maps.
SavedAs(datas, x, y) ==
    \/ x = <<>>
    \/ x \in DOMAIN datas /\ y = toString(datas[x])
    \/ \E name \in DOMAIN datas : /\ datas[name].type = "map"
                                  /\ \E key \in DOMAIN datas[name].val : x = name \o key

\* ListAllMember of a saved registry has every variable, and only those members.
LEMMA SavedListed ==
    ASSUME NEW datas, IsRegistry(datas), NEW ms, ms = ListAllMember(<<>>, Save(datas))
    PROVE  /\ IsList(ms)
           /\ \A k \in DOMAIN ms : SavedAs(datas, ms[k].name, ms[k].node)
           /\ \A name \in DOMAIN datas : \E k \in DOMAIN ms :
                ms[k].name = name /\ ms[k].node = toString(datas[name])
<1> DEFINE D == DOMAIN datas
           Node(name) == toString(datas[name])
           names == Listed(D)
           of == [k \in DOMAIN names |-> <<names[k], Node(names[k])>>]
           root == Save(datas)
           empty == <<>>
           Rec(x, y, b) == [name |-> x, node |-> y, visited |-> b]
           Maps == {name \in D : datas[name].type = "map"}
           A0 == {Rec(empty, root, b) : b \in BOOLEAN}
           A1 == {Rec(name, Node(name), b) : name \in D, b \in BOOLEAN}
           A2 == UNION {{Rec(name \o key, FromInt(datas[name].val[key]), b) :
                            key \in DOMAIN datas[name].val, b \in BOOLEAN} : name \in Maps}
           A == A0 \union A1 \union A2
           T == Levels(empty, root)
<1>1. /\ IsFiniteSet(D)
      /\ \A name \in D : /\ IsName(name)
                         /\ datas[name] = [type |-> datas[name].type, val |-> datas[name].val]
                         /\ datas[name].type \in Types /\ IsValue(datas[name].type, datas[name].val)
  BY DEF IsRegistry, IsVariable
<1>2. names \in Seq(D) /\ Range(names) = D BY <1>1, ListedAll
<1>3. root = MapOf(of) BY DEF Save
<1>4. root.tag = "map" /\ root.of = of
  <2> HIDE DEF of, root
  <2> QED BY <1>3 DEF MapOf
<1> HIDE DEF root, names
<1>5. Len(names) \in Nat /\ DOMAIN names = 1 .. Len(names) /\ \A k \in DOMAIN names : names[k] \in D
  BY <1>2, ListElement
<1>6. IsList(of)
  <2> HIDE DEF Node
  <2>1. of \in [1 .. Len(names) -> Range(of)] BY <1>5 DEF Range
  <2>2. QED BY <1>5, <2>1 DEF IsList
<1>7. DOMAIN of = DOMAIN names /\ \A k \in DOMAIN names : of[k][1] = names[k] /\ of[k][2] = Node(names[k])
  <2> HIDE DEF Node
  <2> QED OBVIOUS
<1>8. \A name \in D : empty \o name = name
  <2>1. ASSUME NEW name \in D PROVE empty \o name = name
    <3> DEFINE B == [name : STRING, capital : BOOLEAN, nine : BOOLEAN]
    <3>1. name \in Seq(B) BY <1>1 DEF IsName
    <3> HIDE DEF B
    <3>2. QED BY <3>1
  <2>2. QED BY <2>1
<1> HIDE DEF empty
<1>9. \A name \in D, b \in BOOLEAN : Rec(name, Node(name), b) \in A1
  <2> HIDE DEF Rec, Node, D
  <2> QED OBVIOUS
<1>10. \A b \in BOOLEAN : Rec(empty, root, b) \in A0
  <2> HIDE DEF Rec
  <2> QED OBVIOUS
<1>11. \A name \in Maps : \A key \in DOMAIN datas[name].val, b \in BOOLEAN :
          Rec(name \o key, FromInt(datas[name].val[key]), b) \in A2
  <2> HIDE DEF Rec, Maps
  <2> QED OBVIOUS
<1>12. \A x, y : Member(x, y) = Rec(x, y, FALSE) BY DEF Member
<1> HIDE DEF of
<1>13. \A k \in DOMAIN of : Member(empty \o of[k][1], of[k][2]) \in A1
  <2> HIDE DEF A1, Rec, Node, D
  <2> SUFFICES ASSUME NEW k \in DOMAIN of PROVE Member(empty \o of[k][1], of[k][2]) \in A1 OBVIOUS
  <2> DEFINE name == names[k]
             no == FALSE
  <2>1. of[k][1] = name /\ of[k][2] = Node(name) /\ name \in D BY <1>5, <1>7
  <2>2. no \in BOOLEAN /\ Member(name, Node(name)) = Rec(name, Node(name), no) BY <1>12
  <2> HIDE DEF name, no
  <2>3. Rec(name, Node(name), no) \in A1 BY <1>9, <2>1, <2>2
  <2>4. empty \o name = name BY <1>8, <2>1
  <2>5. QED BY <2>1, <2>2, <2>3, <2>4
<1>14. ASSUME NEW b \in BOOLEAN
       PROVE  /\ Visit(Rec(empty, root, b)) \in Seq(A)
              /\ ~ b => \A k \in DOMAIN of : Member(empty \o of[k][1], of[k][2]) \in Range(Visit(Rec(empty, root, b)))
  <2> DEFINE i == Rec(empty, root, b)
  <2>1. i = [name |-> empty, node |-> root, visited |-> b] OBVIOUS
  <2>2. [name |-> empty, node |-> root, visited |-> TRUE] \in A
    <3> HIDE DEF A0, A1, A2
    <3> QED BY <1>10
  <2>3. IsList(root.of) /\ \A k \in DOMAIN root.of : Member(empty \o root.of[k][1], root.of[k][2]) \in A
    <3> HIDE DEF A1, A0, A2
    <3> QED BY <1>4, <1>6, <1>13
  <2> HIDE DEF A, i
  <2>4. QED BY <1>4, <2>1, <2>2, <2>3, VisitMakes DEF i
<1>15. ASSUME NEW name \in D, NEW b \in BOOLEAN
       PROVE  /\ Visit(Rec(name, Node(name), b)) \in Seq(A)
              /\ Rec(name, Node(name), TRUE) \in Range(Visit(Rec(name, Node(name), b)))
  <2> DEFINE i == Rec(name, Node(name), b)
             y == Node(name)
             t == datas[name].type
             v == datas[name].val
  <2>1. i = [name |-> name, node |-> y, visited |-> b] OBVIOUS
  <2>2. [name |-> name, node |-> y, visited |-> TRUE] \in A
    <3> HIDE DEF A0, A1, A2, Node
    <3> QED BY <1>9
  <2>3. ASSUME y.tag = "map"
        PROVE  IsList(y.of) /\ \A k \in DOMAIN y.of : Member(name \o y.of[k][1], y.of[k][2]) \in A
    <3>1. y = toString([type |-> t, val |-> v]) BY <1>1
    <3>2. t \in Types /\ IsValue(t, v) BY <1>1
    <3> HIDE DEF y, A0, A1, A2, Node
    <3>3. /\ t = "map" /\ IsList(y.of)
          /\ \A k \in DOMAIN y.of : \E key \in DOMAIN v : y.of[k][1] = key /\ y.of[k][2] = FromInt(v[key])
      <4> HIDE DEF t, v
      <4> QED BY <2>3, <3>1, <3>2, WrittenMap
    <3>4. name \in Maps BY <3>3
    <3> HIDE DEF Maps, Rec
    <3>5. ASSUME NEW k \in DOMAIN y.of PROVE Member(name \o y.of[k][1], y.of[k][2]) \in A
      <4>1. PICK key \in DOMAIN v : y.of[k][1] = key /\ y.of[k][2] = FromInt(v[key]) BY <3>3
      <4>2. Rec(name \o key, FromInt(v[key]), FALSE) \in A2 BY <1>11, <3>4
      <4>3. QED BY <1>12, <4>1, <4>2
    <3>6. QED BY <3>3, <3>5
  <2> HIDE DEF A, i, y
  <2>4. Visit(i) \in Seq(A) /\ [name |-> name, node |-> y, visited |-> TRUE] \in Range(Visit(i))
    BY <2>1, <2>2, <2>3, VisitMakes
  <2>5. QED BY <2>4 DEF i, y
<1>16. ASSUME NEW i \in A2 PROVE Visit(i) \in Seq(A)
  <2>1. PICK name \in Maps : \E key \in DOMAIN datas[name].val, b \in BOOLEAN :
          i = Rec(name \o key, FromInt(datas[name].val[key]), b)
    <3> HIDE DEF Rec, Maps
    <3> QED OBVIOUS
  <2>6. PICK key \in DOMAIN datas[name].val, b \in BOOLEAN : i = Rec(name \o key, FromInt(datas[name].val[key]), b)
    <3> HIDE DEF Rec, Maps
    <3> QED BY <2>1
  <2> DEFINE x == name \o key
             y == FromInt(datas[name].val[key])
  <2>2. i = [name |-> x, node |-> y, visited |-> b] BY <2>6
  <2>3. y.tag # "map" BY DEF FromInt, Scalar
  <2>4. [name |-> x, node |-> y, visited |-> TRUE] \in A
    <3> HIDE DEF A0, A1, A2, Maps
    <3> QED BY <1>11
  <2> HIDE DEF A, x, y
  <2>5. QED BY <2>2, <2>3, <2>4, VisitMakes
<1>17. \A i \in A : Visit(i) \in Seq(A)
  <2> SUFFICES ASSUME NEW i \in A PROVE Visit(i) \in Seq(A)
    <3> HIDE DEF A
    <3> QED OBVIOUS
  <2>1. CASE i \in A0
    <3>1. PICK b \in BOOLEAN : i = Rec(empty, root, b)
      <4> HIDE DEF Rec
      <4> QED BY <2>1
    <3> HIDE DEF Rec, A
    <3>2. QED BY <1>14, <3>1
  <2>2. CASE i \in A1
    <3>1. PICK name \in D, b \in BOOLEAN : i = Rec(name, Node(name), b)
      <4> HIDE DEF Rec, Node, D
      <4> QED BY <2>2
    <3> HIDE DEF Rec, A, Node
    <3>2. QED BY <1>15, <3>1
  <2>3. CASE i \in A2
    <3> HIDE DEF A, A2
    <3> QED BY <1>16, <2>3
  <2> HIDE DEF A0, A1, A2
  <2>4. QED BY <2>1, <2>2, <2>3
<1>18. Member(empty, root) \in A
  <2> HIDE DEF A0, A1, A2, Rec
  <2> QED BY <1>10, <1>12
<1> DEFINE N == MaxDepth + 1
<1>19. /\ T[0] = <<Member(empty, root)>>
       /\ \A d \in 1 .. N : T[d] = VisitAll(T[d - 1])
       /\ \A d \in 0 .. N : T[d] \in Seq(A)
  <2> HIDE DEF A
  <2> QED BY <1>17, <1>18, LevelsListed
<1>20. ms = T[N] BY DEF ListAllMember, root, empty
<1>21. N \in Nat /\ N # 0 /\ 1 \in 1 .. N /\ N \in 1 .. N BY MaxDepthAssumption
<1> HIDE DEF T, N
<1>22. ms \in Seq(A)
  <2>1. N \in 0 .. N BY <1>21
  <2> HIDE DEF A
  <2>2. QED BY <1>19, <1>20, <2>1
<1>23. IsList(ms)
  <2> HIDE DEF A
  <2> QED BY <1>22, SequenceIsList
<1>24. \A d \in 1 .. N : \A i \in Range(T[d - 1]) : Range(Visit(i)) \subseteq Range(T[d])
  <2> HIDE DEF A
  <2>1. \A d \in 1 .. N : d - 1 \in 0 .. N BY <1>21
  <2>2. \A d \in 1 .. N : T[d - 1] \in Seq(A) BY <1>19, <2>1
  <2>3. QED BY <1>17, <1>19, <2>2, AllVisited
<1>25. ASSUME NEW name \in D PROVE \E b \in BOOLEAN : Rec(name, Node(name), b) \in Range(ms)
  <2> DEFINE Good == {d \in Nat : d + 1 <= N => \E b \in BOOLEAN : Rec(name, Node(name), b) \in Range(T[d + 1])}
  <2>1. 0 \in Good
    <3>1. PICK k \in DOMAIN names : names[k] = name BY <1>2 DEF Range
    <3>2. k \in DOMAIN of /\ of[k][1] = name /\ of[k][2] = Node(name)
      <4> HIDE DEF Node
      <4> QED BY <1>7, <3>1
    <3> DEFINE m == Member(name, Node(name))
               r == Member(empty, root)
    <3>3. m = Rec(name, Node(name), FALSE) BY <1>12
    <3>4. r = Rec(empty, root, FALSE) BY <1>12
    <3> HIDE DEF Rec, Node, A
    <3>5. Member(empty \o name, Node(name)) \in Range(Visit(r)) BY <1>14, <3>2, <3>4
    <3>6. m \in Range(Visit(r)) BY <1>8, <3>5
    <3> HIDE DEF m, r
    <3>7. r \in Range(<<r>>) BY ShortRanges
    <3>8. T[0] = <<r>> BY <1>19 DEF r
    <3>9. \A i \in Range(T[0]) : Range(Visit(i)) \subseteq Range(T[1])
      <4>1. 1 - 1 = 0 OBVIOUS
      <4>2. QED BY <1>21, <1>24, <4>1
    <3>10. m \in Range(T[1]) BY <3>6, <3>7, <3>8, <3>9
    <3>11. 0 + 1 = 1 OBVIOUS
    <3>12. QED BY <3>3, <3>10, <3>11
  <2>2. ASSUME NEW d \in Nat, d \in Good PROVE d + 1 \in Good
    <3>1. SUFFICES ASSUME (d + 1) + 1 <= N
          PROVE  \E b \in BOOLEAN : Rec(name, Node(name), b) \in Range(T[(d + 1) + 1])
      <4> HIDE DEF Rec, Node
      <4> QED OBVIOUS
    <3> HIDE DEF Rec, Node, A
    <3>2. (d + 1) + 1 \in 1 .. N /\ ((d + 1) + 1) - 1 = d + 1 /\ d + 1 <= N BY <1>21, <3>1
    <3>3. PICK b \in BOOLEAN : Rec(name, Node(name), b) \in Range(T[d + 1]) BY <2>2, <3>2
    <3>4. Rec(name, Node(name), TRUE) \in Range(Visit(Rec(name, Node(name), b))) BY <1>15
    <3>5. Rec(name, Node(name), TRUE) \in Range(T[(d + 1) + 1]) BY <1>24, <3>2, <3>3, <3>4
    <3>6. QED BY <3>5
  <2> HIDE DEF Good, Rec, Node
  <2>3. Nat \subseteq Good BY <2>1, <2>2, SetInduction
  <2>4. N - 1 \in Nat /\ (N - 1) + 1 = N /\ N <= N BY <1>21
  <2>5. N - 1 \in Good BY <2>3, <2>4
  <2>6. QED BY <1>20, <2>4, <2>5 DEF Good
<1>26. ASSUME NEW name \in D
       PROVE  \E k \in DOMAIN ms : ms[k].name = name /\ ms[k].node = toString(datas[name])
  <2>1. PICK b \in BOOLEAN : Rec(name, Node(name), b) \in Range(ms) BY <1>25
  <2>2. PICK k \in DOMAIN ms : ms[k] = Rec(name, Node(name), b)
    <3> HIDE DEF Rec, Node
    <3> QED BY <2>1 DEF Range
  <2>3. QED BY <2>2
<1>27. ASSUME NEW k \in DOMAIN ms PROVE SavedAs(datas, ms[k].name, ms[k].node)
  <2> DEFINE i == ms[k]
  <2>1. i \in A
    <3> HIDE DEF A
    <3> QED BY <1>22, ListElement
  <2> HIDE DEF i
  <2>2. CASE i \in A0
    <3>1. i.name = empty BY <2>2
    <3>2. QED BY <3>1 DEF SavedAs, empty, i
  <2>3. CASE i \in A1
    <3>1. PICK name \in D, b \in BOOLEAN : i = Rec(name, Node(name), b)
      <4> HIDE DEF Rec, Node, D
      <4> QED BY <2>3
    <3>2. i.name = name /\ i.node = Node(name) BY <3>1
    <3>3. QED BY <3>2 DEF SavedAs, i
  <2>4. CASE i \in A2
    <3>1. PICK name \in Maps : \E key \in DOMAIN datas[name].val, b \in BOOLEAN :
            i = Rec(name \o key, FromInt(datas[name].val[key]), b)
      <4> HIDE DEF Rec, Maps
      <4> QED BY <2>4
    <3>2. PICK key \in DOMAIN datas[name].val, b \in BOOLEAN : i = Rec(name \o key, FromInt(datas[name].val[key]), b)
      <4> HIDE DEF Rec, Maps
      <4> QED BY <3>1
    <3>3. i.name = name \o key BY <3>2
    <3>4. QED BY <3>3 DEF SavedAs, i
  <2> HIDE DEF A0, A1, A2
  <2>5. QED BY <2>1, <2>2, <2>3, <2>4
<1>28. QED BY <1>23, <1>26, <1>27

\* Loading what was saved gives each variable its value again.
LEMMA FileRestored ==
    ASSUME NEW fresh, IsRegistry(fresh), NEW loaded, IsRegistry(loaded), DOMAIN loaded = DOMAIN fresh,
           \A name \in DOMAIN fresh : loaded[name].type = fresh[name].type,
           ~ Overlap(loaded)
    PROVE  LoadFromYaml(fresh, Save(loaded)) = loaded
<1> DEFINE D == DOMAIN fresh
           ms == ListAllMember(<<>>, Save(loaded))
           n == Len(ms)
           d == LoadFromYaml(fresh, Save(loaded))
<1>1. d = LoadMembers(fresh, ms)[n] BY DEF LoadFromYaml
<1>2. /\ IsList(ms)
      /\ \A k \in DOMAIN ms : SavedAs(loaded, ms[k].name, ms[k].node)
      /\ \A name \in D : \E k \in DOMAIN ms : ms[k].name = name /\ ms[k].node = toString(loaded[name])
  BY SavedListed
<1> HIDE DEF ms, d
<1>3. LoadedTo(fresh, ms, n, d) BY <1>1, <1>2, AllLoaded
<1>4. n \in Nat /\ DOMAIN ms = 1 .. n BY <1>2 DEF IsList
<1>5. ASSUME NEW name \in D PROVE d[name] = loaded[name]
  <2> DEFINE t == fresh[name].type
             v == loaded[name].val
             H == Hits(fresh, ms, name, n)
             j == LastOf(H)
  <2>1. /\ loaded[name] = [type |-> t, val |-> v] /\ t \in Types /\ IsValue(t, v)
        /\ name # <<>> /\ tolower(name) = name
    BY DEF IsRegistry, IsVariable
  <2>2. Cast(t, toString(loaded[name])) = {v}
    <3> HIDE DEF t, v
    <3> QED BY <2>1, ValueBack
  <2>3. H # {}
    <3>1. PICK k \in DOMAIN ms : ms[k].name = name /\ ms[k].node = toString(loaded[name]) BY <1>2
    <3>2. k \in 1 .. n BY <1>4
    <3>3. k \in H BY <2>1, <2>2, <3>1, <3>2 DEF Hits
    <3>4. QED BY <3>3
  <2>4. j \in H BY <1>4, <2>3, LastHit
  <2>5. j \in DOMAIN ms /\ tolower(ms[j].name) = name BY <1>4, <2>4 DEF Hits
  <2>6. Cast(t, ms[j].node) = {v}
    <3> DEFINE x == ms[j].name
               y == ms[j].node
    <3>1. SavedAs(loaded, x, y) BY <1>2, <2>5
    <3>2. tolower(x) = name BY <2>5
    <3> HIDE DEF x, y, j
    <3>3. CASE x = <<>>
      <4>1. tolower(<<>>) = <<>> BY DEF tolower
      <4>2. QED BY <2>1, <3>2, <3>3, <4>1
    <3>4. CASE x \in D /\ y = toString(loaded[x])
      <4>1. tolower(x) = x BY <3>4 DEF IsRegistry, IsVariable
      <4>2. x = name BY <3>2, <4>1
      <4>3. QED BY <2>2, <3>4, <4>2 DEF y
    <3>5. CASE \E a \in D : loaded[a].type = "map" /\ \E key \in DOMAIN loaded[a].val : x = a \o key
      BY <3>2, <3>5 DEF Overlap
    <3>6. QED BY <3>1, <3>3, <3>4, <3>5 DEF SavedAs
  <2>7. d[name] = [type |-> t, val |-> d[name].val] /\ d[name].val \in DecidedBy(fresh, ms, name, n)
    BY <1>3 DEF LoadedTo
  <2>8. d[name].val = v BY <2>3, <2>6, <2>7 DEF DecidedBy
  <2> HIDE DEF t, v
  <2>9. QED BY <2>1, <2>7, <2>8
<1>6. d = [name \in D |-> d[name]] BY <1>3 DEF LoadedTo
<1>7. loaded = [name \in D |-> loaded[name]] BY DEF IsRegistry
<1> HIDE DEF D
<1>8. d = loaded BY <1>5, <1>6, <1>7
<1>9. QED BY <1>8 DEF d

\* Any file loaded into any registry: the last member that can be converted decides
\* each variable, none is created, and what Config::Visit then writes restores every
\* value in a fresh registry, unless a map's member has a variable's name.
THEOREM FilesOfRegistries == Spec => []FilesRestore
<1>1. ASSUME NEW requests \in Requests, NEW doc \in Documents PROVE Restores(requests, doc)
  <2> DEFINE fresh == Registry(requests)
             ms == ListAllMember(<<>>, doc)
             loaded == LoadFromYaml(fresh, doc)
  <2>1. IsRegistry(fresh) BY RequestsAssumption, RegistryIs
  <2>2. IsList(ms) /\ \A k \in DOMAIN ms : IsNode(ms[k].node) BY DocumentsAssumption
  <2>3. loaded = LoadMembers(fresh, ms)[Len(ms)] BY DEF LoadFromYaml
  <2> HIDE DEF fresh, ms
  <2>4. LoadedTo(fresh, ms, Len(ms), loaded) BY <2>1, <2>2, <2>3, AllLoaded
  <2> HIDE DEF loaded
  <2>5. IsRegistry(loaded) /\ DOMAIN loaded = DOMAIN fresh BY <2>1, <2>2, <2>4, LoadedIsRegistry
  <2>6. \A name \in DOMAIN fresh : loaded[name].type = fresh[name].type
    <3>1. ASSUME NEW name \in DOMAIN fresh PROVE loaded[name].type = fresh[name].type
      <4> DEFINE t == fresh[name].type
                 v == loaded[name].val
      <4>1. loaded[name] = [type |-> t, val |-> v] BY <2>4 DEF LoadedTo
      <4> HIDE DEF t, v
      <4>2. loaded[name].type = t BY <4>1
      <4>3. QED BY <4>2 DEF t
    <3>2. QED BY <3>1
  <2>7. ~ Overlap(loaded) => LoadFromYaml(fresh, Save(loaded)) = loaded BY <2>1, <2>5, <2>6, FileRestored
  <2>8. LoadDecides(requests, doc) BY LastMemberDecides
  <2>9. QED BY <2>7, <2>8 DEF Restores, fresh, loaded
<1>2. Init => FilesRestore BY <1>1 DEF Init, FilesRestore
<1>3. FilesRestore /\ [Next]_<<kind, input>> => FilesRestore' BY DEF Next, FilesRestore
<1>4. QED BY <1>2, <1>3, PTL DEF Spec
===============================================================================

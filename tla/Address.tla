--------------------------------- MODULE Address ---------------------------------
(***************************************************************************)
(* The addresses of address.cc: their order, their masks, the interfaces   *)
(* of the machine, and the text an address is printed as and read from.    *)
(*                                                                         *)
(* A number is the set of the positions of its one-bits, so that |=, &= and *)
(* ~ are set operations of the right width; memory is a sequence of bytes, *)
(* a byte a set of positions 0..7.  The machine is little-endian.          *)
(***************************************************************************)
EXTENDS Integers, Sequences, SequencesExt, FiniteSets, FiniteSetsExt

Byte == SUBSET (0 .. 7)
Zeros(n) == [k \in 1 .. n |-> {}]

\* CreateMask<T> for a T of w bits.  1 is an int: shifting it by 32 is undefined
\* (the processor shifts by 0, a compiler may as well give zero).
CreateMask(w, bits) ==
    IF w - bits = 32 THEN {{}, 0 .. 31} ELSE {0 .. w - bits - 1}

\* CountBytes: the number of one-bits, cleared one by one.
CountBytes(value) == Cardinality(value)

\* The bytes, in memory, of byteswapOnLittleEndian(value).
Swapped(n, value) == [k \in 1 .. n |-> {b \in 0 .. 7 : 8 * (n - k) + b \in value}]
\* byteswapOnLittleEndian of what is in memory, as a number.
Unswapped(n, bytes) == {p \in 0 .. 8 * n - 1 : p % 8 \in bytes[n - (p \div 8)]}

-----------------------------------------------------------------------------
(* The kinds of address: len is getAddrLen(), the memory after sa_family is  *)
(* cut to it by the comparison.                                              *)

Family == [v4 |-> 2, v6 |-> 10, unix |-> 1, packet |-> 17]
FamilyBytes(f) == <<{b \in 0 .. 7 : (Family[f] \div 2^b) % 2 = 1}, {}>>

IPv4Address(addr, port) ==
    [family |-> "v4", port |-> Swapped(2, port), addr |-> addr, len |-> 16]
IPv6Address(addr, port) ==
    [family |-> "v6", port |-> Swapped(2, port), addr |-> addr, len |-> 28]
UnknownAddress(f) ==
    [family |-> f, port |-> <<>>, addr |-> Zeros(14), len |-> 16]

\* UnixAddress(path): the terminating zero belongs to the name, unless the path
\* is an abstract one, which begins with a zero.
UnixAddress(path) ==
    LET m_length == IF path # <<>> /\ path[1] = {} THEN Len(path) ELSE Len(path) + 1
    IN [family |-> "unix", port |-> <<>>,
        addr |-> SubSeq(path \o Zeros(1), 1, m_length), len |-> 2 + m_length]

\* What these constructors make.
IsAddress(a) ==
    \/ a \in [family : {"v4"}, port : [1 .. 2 -> Byte], addr : [1 .. 4 -> Byte], len : {16}]
    \/ a \in [family : {"v6"}, port : [1 .. 2 -> Byte], addr : [1 .. 16 -> Byte], len : {28}]
    \/ /\ a \in [family : {"unix"}, port : {<<>>}, addr : Seq(Byte), len : Nat]
       /\ a.len = 2 + Len(a.addr)
    \/ a \in [family : {"unix", "packet"}, port : {<<>>}, addr : [1 .. 14 -> Byte], len : {16}]

\* getAddr(): the bytes of the structure.
Memory(a) ==
    FamilyBytes(a.family) \o a.port \o
    (CASE a.family = "v4" -> a.addr \o Zeros(8)
       [] a.family = "v6" -> Zeros(4) \o a.addr \o Zeros(4)
       [] OTHER -> a.addr)

\* setPort and getPort
SetPort(a, v) == [a EXCEPT !.port = Swapped(2, v)]
GetPort(a) == Unswapped(2, a.port)

\* Address::Create from what the system reports.
Create(family, addr) ==
    CASE family = "v4" -> IPv4Address(addr, {})
      [] family = "v6" -> IPv6Address(addr, {})
      [] OTHER -> UnknownAddress(family)

-----------------------------------------------------------------------------
(* Comparison.                                                              *)

ByteLess(b, c) == \E k \in c \ b : \A j \in (b \ c) \union (c \ b) : j <= k

\* memcmp of the first n bytes is negative.
MemLess(s, t, n) ==
    \E k \in 1 .. n : ByteLess(s[k], t[k]) /\ \A j \in 1 .. k - 1 : s[j] = t[j]
MemEqual(s, t, n) == SubSeq(s, 1, n) = SubSeq(t, 1, n)

\* (mutant) addresses with the same beginning are not told apart.
LessWithoutLength(a, b) == MemLess(Memory(a), Memory(b), Min({a.len, b.len}))

\* Address::operator<
Less(a, b) ==
    LET minlen == Min({a.len, b.len})
    IN \/ MemLess(Memory(a), Memory(b), minlen)
       \/ MemEqual(Memory(a), Memory(b), minlen) /\ a.len < b.len

\* Address::operator==
Equal(a, b) == a.len = b.len /\ MemEqual(Memory(a), Memory(b), a.len)

\* Addresses can be keys of std::map: any two are equal or one of them is less,
\* and less is transitive, also across kinds of address of different length.
Ordered(a, b, c) ==
    /\ (Equal(a, b) <=> ~ Less(a, b) /\ ~ Less(b, a))
    /\ ~ (Less(a, b) /\ Less(b, a))
    /\ Less(a, b) /\ Less(b, c) => Less(a, c)

-----------------------------------------------------------------------------
(* Masks.                                                                   *)

\* What broadcastAddress makes: an address, and the ones it sets in the byte that
\* follows sin6_addr in a sockaddr_in6, the first of sin6_scope_id.
Result(a, scope) == [address |-> a, scope |-> scope]

\* The byte at which a prefix of an IPv6 address ends; 17 is the byte after it.
Edge(prefix) == prefix \div 8 + 1
PastEnd(prefix, m) == IF Edge(prefix) > 16 THEN m ELSE {}

\* (mutant) the bytes behind the edge are left alone.
Broadcast6Edge(a, prefix) ==
    {Result([a EXCEPT !.addr = [k \in 1 .. 16 |->
                IF k = Edge(prefix) THEN @[k] \union m ELSE @[k]]], PastEnd(prefix, m)) :
     m \in CreateMask(8, prefix % 8)}

\* IPv6Address::broadcastAddress: s6_addr[prefix_len / 8] |= mask, also behind the
\* end of s6_addr, and ones in the bytes after it.
Broadcast6(a, prefix) ==
    {Result([a EXCEPT !.addr = [k \in 1 .. 16 |->
                IF k < Edge(prefix) THEN @[k]
                ELSE IF k = Edge(prefix) THEN @[k] \union m ELSE 0 .. 7]], PastEnd(prefix, m)) :
     m \in CreateMask(8, prefix % 8)}

\* IPv4Address::broadcastAddress, every outcome it may have; nullptr is none.
Broadcast4(a, prefix) ==
    IF prefix > 32 THEN {}
    ELSE {Result([a EXCEPT !.addr = [k \in 1 .. 4 |-> @[k] \union Swapped(4, m)[k]]], {}) :
          m \in CreateMask(32, prefix)}

broadcastAddress(a, prefix) ==
    IF a.family = "v4" THEN Broadcast4(a, prefix) ELSE Broadcast6(a, prefix)

-----------------------------------------------------------------------------
(* The interfaces.  An entry of getifaddrs has a name, a family, an address  *)
(* and a netmask, both in memory order.                                      *)

\* The prefix is the number of ones of the netmask (counted byte by byte for
\* IPv6, which is the same number).
PrefixLen(i) == CountBytes(Unswapped(IF i.family = "v4" THEN 4 ELSE 16, i.netmask))

\* GetInterfaceAddresses into a multimap: families that are not asked for, and
\* those that are neither IPv4 nor IPv6, are left out.
AllInterfaces(ifs, family) ==
    {[name |-> ifs[k].name, addr |-> Create(ifs[k].family, ifs[k].addr),
      prefix |-> PrefixLen(ifs[k])] :
     k \in {k \in DOMAIN ifs : ifs[k].family \in {"v4", "v6"} /\ family \in {"any", ifs[k].family}}}

\* The other overload: of one interface, or the address that stands for all.
GetInterfaceAddresses(ifs, iface, family) ==
    IF iface \in {"", "*"}
    THEN {[name |-> iface, addr |-> Create(f, Zeros(IF f = "v4" THEN 4 ELSE 16)), prefix |-> 0] :
             f \in {f \in {"v4", "v6"} : family \in {"any", f}}}
    ELSE {r \in AllInterfaces(ifs, family) : r.name = iface}

\* The netmask of a prefix, as the system reports it.
Netmask(bytes, prefix) ==
    [k \in 1 .. bytes |-> {b \in 0 .. 7 : 8 * (k - 1) + (7 - b) < prefix}]

Width(family) == IF family = "v4" THEN 4 ELSE 16

\* What getifaddrs reports of an address: any bytes, any prefix.
IsInterface(i) ==
    i.family \in {"v4", "v6"} =>
        /\ i.addr \in [1 .. Width(i.family) -> Byte]
        /\ \E p \in 0 .. 8 * Width(i.family) : i.netmask = Netmask(Width(i.family), p)

\* The entries an answer of GetInterfaceAddresses is about: those of the interface,
\* or the address zero with the prefix 0 that stands for all.
Reported(ifs, iface, family) ==
    IF iface \in {"", "*"}
    THEN {[family |-> f, addr |-> Zeros(Width(f)), netmask |-> Netmask(Width(f), 0)] :
             f \in {f \in {"v4", "v6"} : family \in {"any", f}}}
    ELSE {ifs[k] : k \in {k \in DOMAIN ifs : /\ ifs[k].name = iface
                                             /\ ifs[k].family \in {"v4", "v6"}
                                             /\ family \in {"any", ifs[k].family}}}

\* The network part of an address, with ones behind it.
Filled(addr, netmask) == [k \in DOMAIN addr |-> addr[k] \union ((0 .. 7) \ netmask[k])]

\* The broadcast addresses an entry may be given.  The right one is all there is,
\* but for two prefixes: with prefix 0 of IPv4 the shift by 32 may leave the address
\* as it is, and with prefix 128 of IPv6 (::1 of every host) the address is right and
\* the first byte of its scope is overwritten with ones.
Outcomes(i) ==
    {Result(Create(i.family, addr), IF i.netmask = Netmask(16, 128) THEN 0 .. 7 ELSE {}) :
     addr \in {Filled(i.addr, i.netmask)}
              \union (IF i.netmask = Netmask(4, 0) THEN {i.addr} ELSE {})}

\* broadcastAddress, with the prefixes that GetInterfaceAddresses gave, has exactly
\* these outcomes.
BroadcastRight(ifs, iface, family) ==
    UNION {broadcastAddress(r.addr, r.prefix) : r \in GetInterfaceAddresses(ifs, iface, family)}
    = UNION {Outcomes(i) : i \in Reported(ifs, iface, family)}

-----------------------------------------------------------------------------
(* Text: a sequence of symbols.  "[", "]" and ":" count as characters; a group *)
(* of an IPv6 address, and a port, is one symbol, its number.                *)

Mark(c) == [mark |-> c, num |-> {}]
Num(n) == [mark |-> "", num |-> n]
LeftBracket == Mark("[")
RightBracket == Mark("]")
Colon == Mark(":")

\* The 16-bit groups of an address, in host order.
Group(addr, k) == Unswapped(2, SubSeq(addr, 2 * k - 1, 2 * k))

\* One turn of the loop of IPv6Address::insert: os holds the text so far.
InsertGroup(addr, os, i) ==
    LET zero(k) == Group(addr, k) = {}
        gap == i > 1 /\ zero(i - 1) /\ ~ os.used_zero
    IN IF zero(i) /\ ~ os.used_zero THEN os
       ELSE [text |-> os.text \o (IF gap THEN <<Colon>> ELSE <<>>)
                              \o (IF i > 1 THEN <<Colon>> ELSE <<>>)
                              \o <<Num(Group(addr, i))>>,
             used_zero |-> os.used_zero \/ gap]

InsertGroups(addr) ==
    LET os[i \in 0 .. 8] == IF i = 0 THEN [text |-> <<>>, used_zero |-> FALSE]
                           ELSE InsertGroup(addr, os[i - 1], i)
    IN os

\* IPv6Address::insert
Insert(a) ==
    LET os == InsertGroups(a.addr)[8]
    IN <<LeftBracket>> \o os.text
       \o (IF os.used_zero /\ Group(a.addr, 8) = {} THEN <<Colon, Colon>> ELSE <<>>)
       \o <<RightBracket, Colon, Num(GetPort(a))>>

\* memchr from position k on; 0 is NULL.
Memchr(text, c, k) ==
    LET Hits == {j \in k .. Len(text) : text[j] = c}
    IN IF Hits = {} THEN 0 ELSE Min(Hits)

Suffix(text, k) == SubSeq(text, k, Len(text))

\* (mutant) the port is taken with its colon.
ServiceWithColon(text, end) == Suffix(text, end + 1)

\* service = endipv6 + 2
Service(text, end) == Suffix(text, end + 2)

\* Address::Lookup: the node and the service it asks getaddrinfo for.  The
\* second attempt looks for "]", not for ":", from the second character on, and
\* keeps the pointer to it as the service if a ":" follows.
SplitHost(host) ==
    LET end == IF host # <<>> /\ host[1] = LeftBracket THEN Memchr(host, RightBracket, 2) ELSE 0
        inside == IF end = 0 THEN <<>> ELSE SubSeq(host, 2, end - 1)
        second == Memchr(host, RightBracket, 2)
        plain == Memchr(host, Colon, second + 1) = 0
    IN CASE inside # <<>> ->
              [node |-> inside,
               service |-> IF end < Len(host) /\ host[end + 1] = Colon
                           THEN Service(host, end) ELSE <<>>]
         [] inside = <<>> /\ second = 0 -> [node |-> host, service |-> <<>>]
         [] OTHER ->
              [node |-> IF plain THEN SubSeq(host, 1, second - 1) ELSE host,
               service |-> Suffix(host, IF plain THEN second + 1 ELSE second)]

\* A numeric IPv6 text: where "::" is, numbers with single colons between them,
\* and the bytes of the numbers.
Gaps(t) == {k \in 1 .. Len(t) - 1 : t[k] = Colon /\ t[k + 1] = Colon}
Plain(t) == \A k \in DOMAIN t : (t[k] = Colon) <=> (k % 2 = 0)
BytesOf(t) == FlattenSeq([k \in 1 .. (Len(t) + 1) \div 2 |-> Swapped(2, t[2 * k - 1].num)])

\* The bytes of such a text with at most one "::", which stands for as many zeros
\* as are missing; none for any other.
ParseIPv6(t) ==
    LET gap == Min(Gaps(t))
        left == SubSeq(t, 1, gap - 1)
        right == Suffix(t, gap + 2)
        fill == 16 - Len(BytesOf(left)) - Len(BytesOf(right))
    IN IF Gaps(t) = {} THEN IF Plain(t) THEN BytesOf(t) ELSE <<>>
       ELSE IF Cardinality(Gaps(t)) = 1 /\ Plain(left) /\ Plain(right) /\ fill > 0
            THEN BytesOf(left) \o Zeros(fill) \o BytesOf(right) ELSE <<>>

\* The IPv6 addresses getaddrinfo (external) finds for a text and a service that
\* are numeric.
getaddrinfo(node, service) ==
    LET bytes == ParseIPv6(node)
    IN IF Len(bytes) = 16 /\ Len(service) = 1 /\ service[1].mark = ""
       THEN {SetPort(Create("v6", bytes), service[1].num)} ELSE {}

LookupText(host) == getaddrinfo(SplitHost(host).node, SplitHost(host).service)

\* What toString prints of an IPv6 address Lookup reads back as the same address
\* and port, if its last group is not zero.  If it is, insert has left the zeros at
\* the end out without a "::" (:: is printed as [] and 1:: as [1]) or added a second
\* "::" to the first, and Lookup finds no IPv6 address.
ReadBack(a) ==
    IF Group(a.addr, 8) # {}
    THEN /\ Cardinality(LookupText(Insert(a))) = 1
         /\ \A b \in LookupText(Insert(a)) : Equal(a, b)
    ELSE LookupText(Insert(a)) = {}
================================================================================

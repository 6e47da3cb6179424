------------------------------- MODULE MCAlgorithms -------------------------------
EXTENDS Algorithms

\* Every pattern of up to five characters.
MCPatterns == SeqOf({"%", "m", "z", "{", "}", " "}, 5)

Name(s) == <<Segment(s)>>
Capital(s) == <<[Segment(s) EXCEPT !.capital = TRUE]>>
Nine(s) == <<[Segment(s) EXCEPT !.nine = TRUE]>>
Request(name, type, val) == [name |-> name, type |-> type, val |-> val]

\* Variables of every type; then names that are refused, a second request of
\* another type, and a variable with the name of a member of the map m.
Basic == <<Request(Name("n"), "int", 2), Request(Name("v"), "vector", <<2>>),
           Request(Name("l"), "list", <<2>>), Request(Name("s"), "set", {2}),
           Request(Name("m"), "map", <<>>), Request(Name("logs"), "logs", {})>>
MCRequests ==
    {Basic,
     Basic \o <<Request(Name("n"), "vector", <<>>), Request(Capital("n"), "int", 2),
                Request(Nine("n"), "int", 2), Request(Name("m") \o Name("k"), "int", 2)>>}

Ints(s) == SeqOfNodes([k \in DOMAIN s |-> Scalar(s[k])])
F(name, text) == <<name, Scalar(text)>>
Log(fields) == MapOf(fields)
Apps(s) == <<"appenders", SeqOfNodes(s)>>
File == MapOf(<<F("type", "FileLogAppender"), F("file", "x"), F("level", "error"), F("formatter", "%m")>>)
Stdout == MapOf(<<F("type", "StdoutLogAppender")>>)

Members ==
    {<<key, node>> : key \in {Name("n"), Capital("n"), Name("v"), Name("l"), Name("s")},
                     node \in {Scalar("01"), Scalar("x"), Null, Ints(<<"1", "2", "01">>), Ints(<<"1", "x">>)}}
    \union
    {<<Name("m"), MapOf(<<<<Name("k"), Scalar("1")>>, <<Capital("k"), Scalar("2")>>, <<Name("k"), Scalar("2")>>>>)>>,
     <<Name("m"), Ints(<<"1">>)>>,
     <<Name("m"), Scalar("1")>>,
     <<Name("m") \o Name("k"), Scalar("1")>>,
     <<Name("z"), MapOf(<<<<Name("n"), Scalar("1")>>>>)>>,
     <<Nine("n"), Scalar("1")>>,
     <<Name("logs"), Null>>,
     <<Name("logs"), SeqOfNodes(<<Log(<<F("name", "a"), F("level", "debug"), Apps(<<File, Stdout>>)>>),
                                  Log(<<F("level", "debug")>>), Log(<<F("name", "a"), F("formatter", "%m")>>)>>)>>,
     <<Name("logs"), SeqOfNodes(<<Log(<<F("name", "b"), F("level", "loud"), F("formatter", "%m"),
                                        Apps(<<MapOf(<<F("type", "FileLogAppender")>>),
                                               MapOf(<<F("type", "SyslogAppender")>>), MapOf(<<F("file", "x")>>)>>)>>)>>)>>}

\* Definitions the cast of which throws: a scalar, a name and an appender of the
\* wrong kind; without a name nothing of it is read.
Broken == {Scalar("a"), Log(<<<<"name", Ints(<<"1">>)>>>>),
           Log(<<F("name", "a"), Apps(<<Scalar("x")>>)>>),
           Log(<<F("name", "a"), <<"appenders", Stdout>>>>)}
Unread == Log(<<<<"level", Ints(<<"1">>)>>, Apps(<<Scalar("x")>>)>>)
LogMembers == {<<Name("logs"), SeqOfNodes(<<Log(<<F("name", "c")>>), n>>)>> : n \in Broken \union {Unread}}

\* Files of up to two members.
MCDocuments == {MapOf(s) : s \in SeqOf(Members \union LogMembers, 2)}

Port(n) == {b \in 0 .. 15 : (n \div 2^b) % 2 = 1}
Ones(n) == [k \in 1 .. n |-> 0 .. 7]
Loopback6 == [k \in 1 .. 16 |-> IF k = 16 THEN {0} ELSE {}]

\* Addresses that share a beginning, of every kind and length.
MCAddresses ==
    {IPv4Address(Zeros(4), {}), IPv4Address(Zeros(4), Port(80)), IPv4Address(<<{}, {}, {}, {0}>>, {}),
     IPv4Address(Ones(4), Port(256)), IPv6Address(Zeros(16), {}), IPv6Address(Loopback6, Port(80)),
     UnixAddress(<<>>), UnixAddress(<<{}>>), UnixAddress(<<{}, {0}>>), UnixAddress(<<{0}>>),
     UnixAddress(<<{0}, {0}>>), UnknownAddress("packet")}

\* An IPv4 and an IPv6 address of one interface, with prefixes at and between the
\* edges of bytes and at both ends, next to the loopback and a packet socket.
Entry(name, family, addr, prefix) ==
    [name |-> name, family |-> family, addr |-> addr,
     netmask |-> Netmask(Len(addr), prefix)]
MCInterfaces ==
    {<<Entry("eth0", "v4", a, p), Entry("eth0", "v6", b, q),
       Entry("eth0", "packet", Zeros(4), 0), Entry("lo", "v4", <<{0}, {}, {}, {0}>>, 8),
       Entry("lo", "v6", Loopback6, 128)>> :
     a \in {<<{7}, {0, 3}, {5}, {1}>>, Ones(4)}, b \in {Loopback6, Ones(16)},
     p \in {0, 1, 7, 8, 9, 24, 31, 32}, q \in {0, 1, 7, 8, 9, 64, 121, 127, 128}}

\* Addresses whose groups are 0 or 0x0100, so that a byte may be zero as well.
MCPrinted ==
    {IPv6Address([k \in 1 .. 16 |-> IF k % 2 = 1 /\ (k + 1) \div 2 \in g THEN {0} ELSE {}], Port(80)) :
     g \in SUBSET (1 .. 8)}
================================================================================

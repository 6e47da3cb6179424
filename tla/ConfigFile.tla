-------------------------------- MODULE ConfigFile --------------------------------
(***************************************************************************)
(* The registry of configuration variables (class Config) and what loading *)
(* a YAML file does to it: Lookup, ListAllMember and LoadFromYaml, the     *)
(* LexicalCast of every kind of variable, and the one of the log           *)
(* definitions in log.cc.                                                  *)
(*                                                                         *)
(* yaml-cpp is external: a document is a tree of nodes, and writing a tree *)
(* and reading it again gives the same tree.  A scalar is a text.          *)
(***************************************************************************)
EXTENDS Integers, Sequences, SequencesExt, FiniteSets, FiniteSetsExt

CONSTANT MaxDepth  \* how deep the maps of a document are nested

\* A registry that is written is a map that may have maps in it.
ASSUME MaxDepthAssumption == MaxDepth \in Nat /\ MaxDepth >= 2

\* The elements of a set in some order.
Listed(S) == FoldSet(LAMBDA x, s : Append(s, x), <<>>, S)

\* The nodes of a document.  A map is the sequence of its pairs.
Null == [tag |-> "null", of |-> <<>>]
Scalar(text) == [tag |-> "scalar", of |-> <<text>>]
SeqOfNodes(s) == [tag |-> "seq", of |-> s]
MapOf(pairs) == [tag |-> "map", of |-> pairs]
Text(node) == node.of[1]

\* One segment of a dotted name: whether it has capitals, or the digit 9,
\* which the alphabet of Lookup leaves out.
Segment(name) == [name |-> name, capital |-> FALSE, nine |-> FALSE]
tolower(path) == [k \in DOMAIN path |-> [path[k] EXCEPT !.capital = FALSE]]
ValidName(path) == \A k \in DOMAIN path : ~ path[k].capital /\ ~ path[k].nine

-----------------------------------------------------------------------------
(* LexicalCast.  A cast that throws has no result, others have one.         *)

\* boost::lexical_cast between int and std::string, for two numbers: the texts it
\* reads, and those it writes.
IntOf == [text \in {"1", "01", "2"} |-> IF text = "2" THEN 2 ELSE 1]
Decimal == <<"1", "2">>
ToInt(node) ==
    IF node.tag = "scalar" /\ Text(node) \in DOMAIN IntOf THEN {IntOf[Text(node)]} ELSE {}
FromInt(n) == Scalar(Decimal[n])

\* vector and list: node.size() is 0 for a scalar and for null; a map has no
\* element number i, which makes the cast of the element throw.
ToSequence(node) ==
    IF node.tag \in {"null", "scalar"} THEN {<<>>}
    ELSE IF node.of # <<>> /\ (node.tag = "map" \/ \E k \in DOMAIN node.of : ToInt(node.of[k]) = {})
         THEN {}
         ELSE {[k \in DOMAIN node.of |-> CHOOSE n \in ToInt(node.of[k]) : TRUE]}

\* The node of a vector is a sequence from the start ...
FromVector(v) == SeqOfNodes([k \in DOMAIN v |-> FromInt(v[k])])
\* ... and that of a list or a set becomes one with the first push_back.
FromList(v) == IF v = <<>> THEN Null ELSE FromVector(v)

\* set and unordered_set
ToSetOf(node) == {Range(v) : v \in ToSequence(node)}
FromSet(s) == FromList(Listed(s))

\* vec.insert leaves a key that is there alone, and node[key] finds the first.
PickFirst(pairs, key) == CHOOSE k \in DOMAIN pairs :
    pairs[k][1] = key /\ \A j \in DOMAIN pairs : pairs[j][1] = key => k <= j

\* map and unordered_map: the elements of a sequence have no key to read.
ToMap(node) ==
    LET Keys == {node.of[k][1] : k \in DOMAIN node.of}
        Cast(key) == ToInt(node.of[PickFirst(node.of, key)][2])
    IN IF node.tag \in {"null", "scalar"} \/ node.of = <<>> THEN {<<>>}
       ELSE IF node.tag = "seq" \/ \E k \in DOMAIN node.of : ToInt(node.of[k][2]) = {} THEN {}
            ELSE {[key \in Keys |-> CHOOSE n \in Cast(key) : TRUE]}
FromMap(m) ==
    LET keys == Listed(DOMAIN m)
    IN IF keys = <<>> THEN Null
       ELSE MapOf([k \in DOMAIN keys |-> <<keys[k], FromInt(m[keys[k]])>>])

-----------------------------------------------------------------------------
(* The log definitions.                                                     *)

\* LogLevel::FromString and ToString, for two of the five levels.
FromString(text) ==
    CASE text \in {"debug", "DEBUG"} -> "DEBUG"
      [] text \in {"error", "ERROR"} -> "ERROR"
      [] OTHER -> "UNKONW"
LevelText(level) == IF level = "UNKONW" THEN "UNKNOWN" ELSE level

\* n[field].IsDefined(), and as<std::string>() or what it is without.
Has(n, field) == n.tag = "map" /\ \E k \in DOMAIN n.of : n.of[k][1] = field
At(n, field) == n.of[PickFirst(n.of, field)][2]
TextAt(n, field) == IF Has(n, field) THEN Text(At(n, field)) ELSE ""

\* n[field] throws if n is a scalar, and as<std::string>() if what it reads is none.
Throws(n, fields) ==
    n.tag = "scalar" \/ \E field \in fields : Has(n, field) /\ At(n, field).tag # "scalar"

\* An appender without a type, of a type nobody knows, or a file without a name
\* is left out; its level is not read.
ToAppender(a) ==
    LET type == TextAt(a, "type")
    IN CASE type = "FileLogAppender" /\ Has(a, "file") ->
              <<[type |-> 1, level |-> "UNKONW", formatter |-> TextAt(a, "formatter"),
                 file |-> TextAt(a, "file")]>>
         [] type = "StdoutLogAppender" ->
              <<[type |-> 2, level |-> "UNKONW", formatter |-> TextAt(a, "formatter"),
                 file |-> ""]>>
         [] OTHER -> <<>>

AppenderThrows(a) ==
    \/ Throws(a, {"type"})
    \/ TextAt(a, "type") = "FileLogAppender" /\ Has(a, "file") /\ Throws(a, {"file", "formatter"})
    \/ TextAt(a, "type") = "StdoutLogAppender" /\ Throws(a, {"formatter"})

\* The elements that a loop up to size() reads: a scalar and null have none, and a
\* map has none with a number.
Elements(n, field) ==
    IF Has(n, field) /\ At(n, field).tag = "seq" THEN At(n, field).of ELSE <<>>
NoElements(n, field) ==
    Has(n, field) /\ At(n, field).tag = "map" /\ At(n, field).of # <<>>

ToDefine(n) ==
    [name |-> TextAt(n, "name"), level |-> FromString(TextAt(n, "level")),
     formatter |-> TextAt(n, "formatter"),
     appenders |-> FlattenSeq([k \in DOMAIN Elements(n, "appenders") |->
                                  ToAppender(Elements(n, "appenders")[k])])]

\* A definition without a name is left out before anything else of it is read.
DefineThrows(n) ==
    \/ Throws(n, {})
    \/ /\ Has(n, "name")
       /\ \/ Throws(n, {"name", "level", "formatter"})
          \/ NoElements(n, "appenders")
          \/ \E k \in DOMAIN Elements(n, "appenders") : AppenderThrows(Elements(n, "appenders")[k])

\* A set orders definitions by name only, so the first of a name stays.  One
\* definition that throws makes the cast of all of them fail.
ToLogs(node) ==
    LET n == IF node.tag = "seq" THEN node.of ELSE <<>>
        Named == {k \in DOMAIN n : Has(n[k], "name")}
    IN IF \E k \in DOMAIN n : DefineThrows(n[k]) THEN {}
       ELSE {{ToDefine(n[k]) : k \in
               {k \in Named : \A j \in Named : j < k => TextAt(n[j], "name") # TextAt(n[k], "name")}}}

Field(name, text) == <<name, Scalar(text)>>
Optional(name, text) == IF text = "" THEN <<>> ELSE <<Field(name, text)>>

FromAppender(a) ==
    MapOf((IF a.type = 1 THEN <<Field("type", "FileLogAppender"), Field("file", a.file)>>
                         ELSE <<Field("type", "StdoutLogAppender")>>)
          \o (IF a.level = "UNKONW" THEN <<>> ELSE <<Field("level", LevelText(a.level))>>)
          \o Optional("formatter", a.formatter))

FromDefine(d) ==
    MapOf(<<Field("name", d.name), Field("level", LevelText(d.level))>>
          \o Optional("formatter", d.formatter)
          \o IF d.appenders = <<>> THEN <<>>
             ELSE <<<<"appenders", SeqOfNodes([k \in DOMAIN d.appenders |->
                                                  FromAppender(d.appenders[k])])>>>>)

FromLogs(s) ==
    LET defs == Listed(s)
    IN IF defs = <<>> THEN Null
       ELSE SeqOfNodes([k \in DOMAIN defs |-> FromDefine(defs[k])])

-----------------------------------------------------------------------------
(* ConfigVar and Config.  m_datas maps a name to [type, val].               *)

Cast(type, node) ==
    CASE type = "int" -> ToInt(node)
      [] type \in {"vector", "list"} -> ToSequence(node)
      [] type = "set" -> ToSetOf(node)
      [] type = "map" -> ToMap(node)
      [] type = "logs" -> ToLogs(node)

\* ConfigVar::fromString: an exception leaves the value as it is.
fromString(var, node) ==
    LET r == Cast(var.type, node)
    IN IF r = {} THEN var ELSE [var EXCEPT !.val = CHOOSE v \in r : TRUE]

\* ConfigVar::toString
toString(var) ==
    CASE var.type = "int" -> FromInt(var.val)
      [] var.type = "vector" -> FromVector(var.val)
      [] var.type = "list" -> FromList(var.val)
      [] var.type = "set" -> FromSet(var.val)
      [] var.type = "map" -> FromMap(var.val)
      [] var.type = "logs" -> FromLogs(var.val)

\* Config::Lookup with a default: what is there stays, also if it has another
\* type (the caller then gets nullptr); an invalid name is refused (it throws).
Lookup(datas, q) ==
    IF q.name \in DOMAIN datas \/ ~ ValidName(q.name) THEN datas
    ELSE [name \in DOMAIN datas \union {q.name} |->
            IF name = q.name THEN [type |-> q.type, val |-> q.val] ELSE datas[name]]

Lookups(requests) ==
    LET datas[k \in 0 .. Len(requests)] ==
            IF k = 0 THEN <<>> ELSE Lookup(datas[k - 1], requests[k])
    IN datas

Registry(requests) == Lookups(requests)[Len(requests)]

\* ListAllMember: a node, then the members of a map, each with its full name.
\* Each turn visits the nodes one level down.
Member(name, node) == [name |-> name, node |-> node, visited |-> FALSE]
Visit(i) ==
    <<[i EXCEPT !.visited = TRUE]>> \o
    (IF i.visited \/ i.node.tag # "map" THEN <<>>
     ELSE [k \in DOMAIN i.node.of |-> Member(i.name \o i.node.of[k][1], i.node.of[k][2])])
VisitAll(output) == FlattenSeq([k \in DOMAIN output |-> Visit(output[k])])
Levels(prefix, node) ==
    LET output[d \in 0 .. MaxDepth + 1] ==
            IF d = 0 THEN <<Member(prefix, node)>> ELSE VisitAll(output[d - 1])
    IN output

ListAllMember(prefix, node) == Levels(prefix, node)[MaxDepth + 1]

\* (mutant) keys are compared as they are written.
LoadMemberAsWritten(datas, i) ==
    IF i.name \in DOMAIN datas
    THEN [datas EXCEPT ![i.name] = fromString(@, i.node)] ELSE datas

\* One turn of the loop of LoadFromYaml: LookupBase and fromString.
LoadMember(datas, i) ==
    LET key == tolower(i.name)
    IN IF key # <<>> /\ key \in DOMAIN datas
       THEN [datas EXCEPT ![key] = fromString(@, i.node)] ELSE datas

LoadMembers(datas, all_nodes) ==
    LET after[k \in 0 .. Len(all_nodes)] ==
            IF k = 0 THEN datas ELSE LoadMember(after[k - 1], all_nodes[k])
    IN after

LoadFromYaml(datas, root) ==
    LET all_nodes == ListAllMember(<<>>, root)
    IN LoadMembers(datas, all_nodes)[Len(all_nodes)]

-----------------------------------------------------------------------------
(* What there may be: nodes, names, and values of each type.                 *)

IsList(s) == s \in Seq(Range(s))

IsNode(node) ==
    /\ node.tag \in {"null", "scalar", "seq", "map"}
    /\ node.tag \in {"seq", "map"} => IsList(node.of)
    /\ node.tag = "seq" =>
         \A k \in DOMAIN node.of : IsList(Elements(node.of[k], "appenders"))

IsName(path) == path # <<>> /\ path \in Seq([name : STRING, capital : BOOLEAN, nine : BOOLEAN])

\* The level of an appender is not read, so that none has one.
IsAppender(a) ==
    /\ a = [type |-> a.type, level |-> "UNKONW", formatter |-> a.formatter, file |-> a.file]
    /\ a.type = 1 \/ (a.type = 2 /\ a.file = "")

IsDefine(d) ==
    /\ d = [name |-> d.name, level |-> d.level, formatter |-> d.formatter, appenders |-> d.appenders]
    /\ d.level \in {"DEBUG", "ERROR", "UNKONW"}
    /\ IsList(d.appenders) /\ \A k \in DOMAIN d.appenders : IsAppender(d.appenders[k])

IsValue(type, val) ==
    CASE type = "int" -> val \in {1, 2}
      [] type \in {"vector", "list"} -> val \in Seq({1, 2})
      [] type = "set" -> val \subseteq {1, 2}
      [] type = "map" -> IsFiniteSet(DOMAIN val) /\ val \in [DOMAIN val -> {1, 2}]
      [] type = "logs" -> /\ IsFiniteSet(val) /\ \A d \in val : IsDefine(d)
                          /\ \A d, e \in val : d.name = e.name => d = e

Types == {"int", "vector", "list", "set", "map", "logs"}

-----------------------------------------------------------------------------
(* What is saved with toString (Config::Visit) is restored by loading it.    *)

Save(datas) ==
    LET names == Listed(DOMAIN datas)
    IN MapOf([k \in DOMAIN names |-> <<names[k], toString(datas[names[k]])>>])

\* The member of a map variable has the name of another variable: loading the
\* map also sets that one.
Overlap(datas) ==
    \E a \in DOMAIN datas :
        /\ datas[a].type = "map"
        /\ \E k \in DOMAIN datas[a].val : tolower(a \o k) \in DOMAIN datas

\* The last member of the file with a variable's name, in any case, that can be
\* converted decides its value.
Decided(datas, root, name) ==
    LET members == ListAllMember(<<>>, root)
        Hits == {k \in DOMAIN members :
                    /\ tolower(members[k].name) = name
                    /\ Cast(datas[name].type, members[k].node) # {}}
    IN IF Hits = {} THEN {datas[name].val}
       ELSE Cast(datas[name].type, members[CHOOSE k \in Hits : \A j \in Hits : j <= k].node)

\* No member of a file creates a variable, and the last one decides each.
LoadDecides(requests, doc) ==
    LET fresh == Registry(requests)
        loaded == LoadFromYaml(fresh, doc)
    IN /\ DOMAIN loaded = DOMAIN fresh
       /\ \A name \in DOMAIN fresh : loaded[name].val \in Decided(fresh, doc, name)

\* Whatever a file has made of the registry, writing every variable and loading
\* the result into a fresh registry gives the same values.
Restores(requests, doc) ==
    LET fresh == Registry(requests)
        loaded == LoadFromYaml(fresh, doc)
    IN /\ LoadDecides(requests, doc)
       /\ ~ Overlap(loaded) => LoadFromYaml(fresh, Save(loaded)) = loaded
================================================================================

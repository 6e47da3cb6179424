-------------------------------- MODULE Algorithms --------------------------------
(***************************************************************************)
(* The parts of the system that compute a result and keep no state, each   *)
(* against its reference: the log pattern, configuration files, addresses. *)
(* A state is one input; nothing changes it.                               *)
(***************************************************************************)
EXTENDS LogFormatter, ConfigFile, Address

CONSTANTS
    Patterns,    \* log patterns
    Requests,    \* sequences of calls of Config::Lookup
    Documents,   \* configuration files
    Addresses,   \* addresses to compare
    Interfaces,  \* what getifaddrs may report
    Printed      \* IPv6 addresses to print

ASSUME PatternsAssumption == \A p \in Patterns : p \in Seq(Range(p))

\* A variable has a name that is not empty (LoadFromYaml passes over the empty
\* one) and a default value of its type.
ASSUME RequestsAssumption ==
    \A requests \in Requests :
        /\ IsList(requests)
        /\ \A k \in DOMAIN requests : /\ IsName(requests[k].name)
                                      /\ requests[k].type \in Types
                                      /\ IsValue(requests[k].type, requests[k].val)

\* A document has a list of members, and is not nested deeper than it goes.
ASSUME DocumentsAssumption ==
    \A doc \in Documents :
        LET all_nodes == ListAllMember(<<>>, doc)
        IN /\ IsList(all_nodes)
           /\ \A k \in DOMAIN all_nodes : all_nodes[k].visited /\ IsNode(all_nodes[k].node)

ASSUME AddressesAssumption == \A a \in Addresses : IsAddress(a)

ASSUME PrintedAssumption == \A a \in Printed : IsAddress(a) /\ a.family = "v6"

ASSUME InterfacesAssumption ==
    \A ifs \in Interfaces : \A k \in DOMAIN ifs : IsInterface(ifs[k])

VARIABLES
    kind,  \* what the input is for
    input

Init ==
    \/ kind = "pattern" /\ input \in Patterns
    \/ kind = "file" /\ input \in Requests \X Documents
    \/ kind = "order" /\ input \in Addresses \X Addresses \X Addresses
    \/ kind = "iface" /\ input \in Interfaces \X {"eth0", "lo", "*"} \X {"any", "v4", "v6"}
    \/ kind = "print" /\ input \in Printed

Next == UNCHANGED <<kind, input>>

Spec == Init /\ [][Next]_<<kind, input>>

\* LogFormatter::init refuses a pattern without doubled signs exactly if it is
\* ill-formed, one with them as SecondBegins says (the second sign is not skipped),
\* and cuts an accepted one without losing, doubling or moving a character.
PatternsParsed == kind = "pattern" => ParsedRight(input)

\* Config::LoadFromYaml gives each variable the value of the last member that
\* names it and can be converted, and what toString writes restores all of them.
FilesRestore == kind = "file" => Restores(input[1], input[2])

\* Address::operator< and operator== make a total order.
AddressesOrdered == kind = "order" => Ordered(input[1], input[2], input[3])

\* broadcastAddress is right for the prefixes GetInterfaceAddresses reports, and at
\* the two ends, 0 of IPv4 and 128 of IPv6, wrong in the way Outcomes says.
BroadcastsRight == kind = "iface" => BroadcastRight(input[1], input[2], input[3])

\* Address::Lookup reads what IPv6Address::insert prints, exactly if the last group
\* of the address is not zero.
PrintedIsRead == kind = "print" => ReadBack(input)
================================================================================

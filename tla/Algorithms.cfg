CONSTANTS
    Letters = {"m", "z"}
    Known = {"m"}
    MaxDepth = 2
    Patterns <- MCPatterns
    Requests <- MCRequests
    Documents <- MCDocuments
    Addresses <- MCAddresses
    Interfaces <- MCInterfaces
    Printed <- MCPrinted
SPECIFICATION Spec
INVARIANTS PatternsParsed FilesRestore AddressesOrdered BroadcastsRight PrintedIsRead

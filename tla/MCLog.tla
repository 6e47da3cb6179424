--------------------------------- MODULE MCLog ---------------------------------
(* Instances of Log for TLC. *)
EXTENDS Log, TLC

CONSTANTS a, root, f1, f2, bad

\* Definitions with and without formatters, valid and not, and with 1 or 2
\* appenders.
Full  == [level |-> 2, formatter |-> f1, appenders |-> <<None, f2>>]
Plain == [level |-> 0, formatter |-> bad, appenders |-> <<bad>>]

\* A logger of its own, and the root, which is off when it is defined no longer.
NoDefines == a :> None @@ root :> None
SomeValues == {NoDefines, a :> Full @@ root :> None, a :> Plain @@ root :> Full}
================================================================================

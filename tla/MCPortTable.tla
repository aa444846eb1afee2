----------------------------- MODULE MCPortTable -----------------------------
(* PortTable on a table of three entries, four short paths (three of them    *)
(* NanoVNAs) and one that is too long.                                       *)
EXTENDS PortTable

CONSTANTS a, b, c, d, long

MCPaths == {a, b, c, d, long}
MCTooLong == {long}
MCVnas == {a, b, c}
AllFaults == {"open", "read", "malloc", "restore"}
==============================================================================

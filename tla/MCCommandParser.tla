--------------------------- MODULE MCCommandParser ---------------------------
(* CommandParser with two slots, scans of up to two VNAs, frequencies 1 to   *)
(* 3, scans of at most three points, and ints of five bits.                  *)
EXTENDS CommandParser

Entered == {0, 2, 7}
AllTableFaults == {"start", "setup"}
NoFaults == {}
==============================================================================

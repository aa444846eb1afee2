---------------------------- MODULE MCScanSession ----------------------------
(* Small instances of a scan: one or two readers, whose datapoints are       *)
(* known by the reader, and the one printing thread.                         *)
EXTENDS ScanSession, TLC

CONSTANTS v1, v2, printer

TwoReaders == {v1, v2}
OneReader == {v1}
ThePrinter == {printer}
AllModes == {"NUM_SWEEPS", "TIME", "ONGOING"}
OnlyNum == {"NUM_SWEEPS"}
OnlyTime == {"TIME"}
OnlyOngoing == {"ONGOING"}
AllFaults == {"malloc", "create_producer", "create_consumer"}
NoFaults == {}
==============================================================================

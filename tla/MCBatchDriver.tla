---------------------------- MODULE MCBatchDriver ----------------------------
(* A scan of one or two readers under either caller.  The argument lists are *)
(* a good one for each mode and one that is refused.                         *)
EXTENDS BatchDriver, TLC

CONSTANTS v1, v2, printer

TwoReaders == {v1, v2}
ThePrinter == {printer}
AllModes == {"NUM_SWEEPS", "TIME", "ONGOING"}
AllFaults == {"malloc", "create_producer", "create_consumer"}
AllStartFaults == {"initialise_scan", "args", "pthread_create"}
BothCallers == {"parser", "driver"}

Arguments(mode_, stop_) ==
  [argc |-> 10, start |-> 1, stop |-> stop_, scans |-> NbrScans, mode |-> mode_,
   sweeps |-> NbrSweeps, pps |-> 1, ports |-> 2]

SomeLines == {Arguments("-s", 3), Arguments("-t", 3), Arguments("-s", 1)}
NoArguments ==
  [argc |-> 1, start |-> 1, stop |-> 2, scans |-> 4, mode |-> "-s", sweeps |-> 5,
   pps |-> 3, ports |-> 1]
==============================================================================

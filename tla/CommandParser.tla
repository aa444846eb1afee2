---------------------------- MODULE CommandParser ----------------------------
(***************************************************************************)
(* The commands scan, sweep, set and exit of the command parser on the     *)
(* settings and the table of scans.  (The vna commands are in PortTable;   *)
(* here a scan is given the number of connected VNAs it uses.)             *)
(***************************************************************************)
EXTENDS Settings, ScanTable

VARIABLES
  args,       (* nbr_scans as passed to the scan in the slot                *)
  stopNext,   (* sweep stop without an id: the slot to look at next         *)
  status      (* "running", "crashed" or "exited"                           *)

parserVars == <<args, stopNext, status>>
vars == <<settingVars, slotVars, parserVars>>

Init ==
  /\ SettingsInit
  /\ TableInit
  /\ args = [i \in Scans |-> 1]
  /\ stopNext = NoScan
  /\ status = "running"

(* read_command is waiting for a line.                                       *)
Prompt == joining = NoScan /\ stopNext = NoScan

Set ==
  /\ Prompt
  /\ SetCommand
  /\ UNCHANGED <<slotVars, parserVars>>

(* scan num, scan time and sweep start on n connected VNAs; values of the    *)
(* settings are passed on, so later set commands do not touch the scan.      *)
StartCommand(i, n, m) ==
  /\ Prompt
  /\ StartSweep(i, n, m)
  /\ args' = [args EXCEPT ![i] = nbrScans]
  /\ UNCHANGED <<settingVars, stopNext, status>>

StopCommand(i) ==
  /\ Prompt
  /\ IsRunning(i)
  /\ BeginStop(i)
  /\ UNCHANGED <<settingVars, parserVars>>

StopAll ==
  /\ Prompt
  /\ stopNext' = 0
  /\ UNCHANGED <<settingVars, slotVars, args, status>>

StopAllNext(i) ==
  /\ joining = NoScan
  /\ stopNext = i
  /\ IF IsRunning(i) THEN BeginStop(i) ELSE UNCHANGED slotVars
  /\ stopNext' = i + 1
  /\ UNCHANGED <<settingVars, args, status>>

StopAllEnds ==
  /\ joining = NoScan
  /\ stopNext = MaxScans
  /\ stopNext' = NoScan
  /\ UNCHANGED <<settingVars, slotVars, args, status>>

JoinReturns(i) ==
  /\ EndStop(i)
  /\ args' = [args EXCEPT ![i] = 1]
  /\ UNCHANGED <<settingVars, stopNext, status>>

(* ... or the join of no thread ends the process.                            *)
JoinCrashes(i) ==
  /\ joining = i
  /\ thread[i] = "none"
  /\ status' = "crashed"
  /\ UNCHANGED <<settingVars, slotVars, args, stopNext>>

Exit ==
  /\ Prompt
  /\ status' = "exited"
  /\ UNCHANGED <<settingVars, slotVars, args, stopNext>>

(* What the readers of a NUM_SWEEPS scan divide the frequency range by.      *)
(* Their pps is that of the buffer, which run_sweep creates with nbr_vnas.   *)
Divisor(i) == Wrap(args[i] * readers[i]) - 1

DividesByZero(i) == mode[i] = "NUM_SWEEPS" /\ Divisor(i) = 0

(* A reader computes the step, and by zero this is the end of the process.   *)
ReaderDivides(i) ==
  /\ thread[i] = "running"
  /\ unfinished[i] > 0
  /\ DividesByZero(i)
  /\ status' = "crashed"
  /\ UNCHANGED <<settingVars, slotVars, args, stopNext>>

ScanWorks(i) ==
  /\ ScanStep(i)
  /\ thread[i] = "running" => ~DividesByZero(i)
  /\ UNCHANGED <<settingVars, parserVars>>

Next ==
  /\ status = "running"
  /\ \/ Set \/ StopAll \/ StopAllEnds \/ Exit
     \/ \E i \in Scans :
          \/ \E n \in 1 .. MaxVnas, m \in SweepModes : StartCommand(i, n, m)
          \/ StopCommand(i) \/ StopAllNext(i) \/ JoinReturns(i) \/ JoinCrashes(i)
          \/ ScanWorks(i) \/ ReaderDivides(i)

Spec == Init /\ [][Next]_vars

------------------------------------------------------------------------------
(* Properties *)

(* Type invariant: settings, table and the parser's own variables.           *)
TypeOK ==
  /\ SettingsOK
  /\ TableOK
  /\ args \in [Scans -> 1 .. IntHalf-1]
  /\ stopNext \in 0 .. MaxScans \cup {NoScan}
  /\ status \in {"running", "crashed", "exited"}

(* A pthread_t that has not been joined is never overwritten by another      *)
(* start_sweep: no scan is lost to stop_sweep.                               *)
ThreadsNotLost ==
  [][\A i \in Scans :
       thread'[i] = "starting" => thread[i] \in {"starting", "none"}]_vars

(* sweep stop without an id leaves no scan behind: every slot it has passed  *)
(* is vacant, also if the scans finish, fail or count down meanwhile.        *)
StopAllFrees ==
  stopNext # NoScan =>
    \A i \in Scans : i < stopNext /\ joining # i => Vacant(i)

------------------------------------------------------------------------------
(* What the user guide shows, and the code does not do.                      *)

(* A NUM_SWEEPS scan of one VNA with one scan runs: no crash (the start of   *)
(* threads does not fail here).                                              *)
SingleScanRuns == TableFaults = {} => status # "crashed"
==============================================================================

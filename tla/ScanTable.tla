------------------------------ MODULE ScanTable ------------------------------
(***************************************************************************)
(* scan_states, scan_threads and ongoing_scans: the slots of the scans     *)
(* that are under way.  start_sweep reserves a slot and creates the main   *)
(* thread of a scan, stop_sweep joins it and gives the slot back; both are *)
(* called by one thread, the caller.                                       *)
(*                                                                         *)
(* Of a scan the table sees what ScanSession does to its state: it is      *)
(* stored when the scan is set up, counts down the readers of a NUM_SWEEPS *)
(* scan, stays as it is in the other modes until the scan is stopped, and  *)
(* is stored again when the time of a TIME scan is over.                   *)
(***************************************************************************)
EXTENDS Integers, FiniteSets

CONSTANTS
  MaxScans,   (* MAX_ONGOING_SCANS                                          *)
  MaxVnas,    (* MAXIMUM_VNA_PORTS: readers of one scan                     *)
  TableFaults,(* the calls that may fail                                    *)
  NoScan

ASSUME TableAssumption ==
  /\ MaxScans \in Nat \ {0}
  /\ MaxVnas \in Nat \ {0}
  /\ TableFaults \subseteq {"start", "setup"}
  /\ NoScan \notin 0 .. MaxScans-1

VARIABLES
  states,     (* scan_states                                                *)
  ongoing,    (* ongoing_scans                                              *)
  thread,     (* scan_threads: "none" to join, "starting", "running",       *)
              (* or "returned" and not yet joined                           *)
  mode,       (* sweep_mode of the scan in the slot                         *)
  readers,    (* nbr_vnas of the scan in the slot                           *)
  unfinished, (* its readers that have not finished                         *)
  sleeping,   (* its main thread is in sleep, for the time of a TIME scan   *)
  joining     (* the slot stop_sweep is waiting for, or NoScan              *)

scanVars == <<mode, readers, unfinished, sleeping>>
slotVars == <<states, ongoing, thread, scanVars, joining>>

Scans == 0 .. MaxScans-1
SweepModes == {"NUM_SWEEPS", "TIME", "ONGOING"}

(* initialise_scan_state *)
TableInit ==
  /\ states = [i \in Scans |-> -1]
  /\ ongoing = 0
  /\ thread = [i \in Scans |-> "none"]
  /\ mode = [i \in Scans |-> "ONGOING"]
  /\ readers = [i \in Scans |-> 0]
  /\ unfinished = [i \in Scans |-> 0]
  /\ sleeping = [i \in Scans |-> FALSE]
  /\ joining = NoScan

------------------------------------------------------------------------------
(* Mutant: a slot whose scan is idle is vacant.                              *)
IdleIsVacant(i) == states[i] <= 0

Vacant(i) == states[i] = -1

FirstVacant(i) == Vacant(i) /\ \A j \in Scans : j < i => ~Vacant(j)

(* initialise_scan and the rest of start_sweep.  If the arguments cannot be  *)
(* allocated or the thread cannot be created, the slot stays reserved.       *)
StartSweep(i, n, m) ==
  /\ joining = NoScan
  /\ n >= 1
  /\ ongoing < MaxScans
  /\ FirstVacant(i)
  /\ states' = [states EXCEPT ![i] = 0]
  /\ ongoing' = ongoing + 1
  /\ \/ thread' = [thread EXCEPT ![i] = "starting"]
     \/ "start" \in TableFaults /\ UNCHANGED thread
  /\ mode' = [mode EXCEPT ![i] = m]
  /\ readers' = [readers EXCEPT ![i] = n]
  /\ unfinished' = [unfinished EXCEPT ![i] = n]
  /\ UNCHANGED <<sleeping, joining>>

(* run_sweep stores nbr_vnas, or fails before it and returns.                *)
ScanBegins(i) ==
  /\ thread[i] = "starting"
  /\ \/ /\ thread' = [thread EXCEPT ![i] = "running"]
        /\ states' = [states EXCEPT ![i] = readers[i]]
        /\ sleeping' = [sleeping EXCEPT ![i] = mode[i] = "TIME"]
     \/ /\ "setup" \in TableFaults
        /\ thread' = [thread EXCEPT ![i] = "returned"]
        /\ UNCHANGED <<states, sleeping>>
  /\ UNCHANGED <<ongoing, mode, readers, unfinished, joining>>

(* A reader of a NUM_SWEEPS scan finishes.                                   *)
ReaderFinishes(i) ==
  /\ thread[i] = "running"
  /\ mode[i] = "NUM_SWEEPS"
  /\ unfinished[i] > 0
  /\ states' = [states EXCEPT ![i] = @ - 1]
  /\ unfinished' = [unfinished EXCEPT ![i] = @ - 1]
  /\ UNCHANGED <<ongoing, thread, mode, readers, sleeping, joining>>

(* A reader of the other scans sees that the state is not positive.          *)
ReaderLeaves(i) ==
  /\ thread[i] = "running"
  /\ mode[i] # "NUM_SWEEPS"
  /\ states[i] <= 0
  /\ unfinished[i] > 0
  /\ unfinished' = [unfinished EXCEPT ![i] = @ - 1]
  /\ UNCHANGED <<states, ongoing, thread, mode, readers, sleeping, joining>>

(* The time of a TIME scan is over.                                          *)
TimerDone(i) ==
  /\ thread[i] = "running"
  /\ sleeping[i]
  /\ states' = [states EXCEPT ![i] = readers[i]]
  /\ sleeping' = [sleeping EXCEPT ![i] = FALSE]
  /\ UNCHANGED <<ongoing, thread, mode, readers, unfinished, joining>>

ScanReturns(i) ==
  /\ thread[i] = "running"
  /\ unfinished[i] = 0
  /\ ~sleeping[i]
  /\ thread' = [thread EXCEPT ![i] = "returned"]
  /\ UNCHANGED <<states, ongoing, scanVars, joining>>

ScanStep(i) ==
  ScanBegins(i) \/ ReaderFinishes(i) \/ ReaderLeaves(i) \/ TimerDone(i) \/ ScanReturns(i)

------------------------------------------------------------------------------
(* Mutant: an idle scan is not running.                                      *)
BusyOnly(i) == states[i] > 0

IsRunning(i) == states[i] >= 0

BeginStop(i) ==
  /\ joining = NoScan
  /\ ~Vacant(i)
  /\ states' = [states EXCEPT ![i] = 0]
  /\ joining' = i
  /\ UNCHANGED <<ongoing, thread, scanVars>>

(* Mutant: the slot is given back before the thread is joined.               *)
NotJoined(i) == TRUE

(* To join a thread that was never created, or that was joined before, is    *)
(* undefined; here pthread_join reports an error, which is ignored.          *)
Joined(i) == thread[i] \in {"returned", "none"}

(* Mutant: the count of scans is forgotten.                                  *)
SameOngoing == ongoing

OneOngoingLess == ongoing - 1

(* What is known of a scan is gone with its threads.                         *)
ForgetScan(i) ==
  /\ mode' = [mode EXCEPT ![i] = "ONGOING"]
  /\ readers' = [readers EXCEPT ![i] = 0]
  /\ unfinished' = [unfinished EXCEPT ![i] = 0]
  /\ sleeping' = [sleeping EXCEPT ![i] = FALSE]

(* pthread_join returns; destroy_scan.                                       *)
EndStop(i) ==
  /\ joining = i
  /\ Joined(i)
  /\ states' = [states EXCEPT ![i] = -1]
  /\ ongoing' = OneOngoingLess
  /\ thread' = [thread EXCEPT ![i] = IF @ = "returned" THEN "none" ELSE @]
  /\ joining' = NoScan
  /\ ForgetScan(i)

------------------------------------------------------------------------------
(* Properties *)

(* Type invariant of the table.                                              *)
TableOK ==
  /\ states \in [Scans -> -MaxVnas .. MaxVnas]
  /\ ongoing \in 0 .. MaxScans
  /\ thread \in [Scans -> {"none", "starting", "running", "returned"}]
  /\ mode \in [Scans -> SweepModes]
  /\ readers \in [Scans -> 0 .. MaxVnas]
  /\ unfinished \in [Scans -> 0 .. MaxVnas]
  /\ sleeping \in [Scans -> BOOLEAN]
  /\ joining \in Scans \cup {NoScan}

(* Between calls of stop_sweep ongoing_scans is the number of slots that are *)
(* not vacant: as long as it is below the maximum there is a vacant slot     *)
(* ("how did we get here?" is not printed), and no slot is lost to it.       *)
SlotsCounted ==
  joining = NoScan => ongoing = Cardinality({i \in Scans : ~Vacant(i)})

(* A slot is in use from start_sweep until its thread has been joined: the   *)
(* state of a scan that is not being stopped is never -1, so start_sweep     *)
(* cannot hand the slot out again, and never negative, so is_running and     *)
(* get_state know of it.                                                     *)
LiveScanKnown ==
  \A i \in Scans : thread[i] # "none" /\ joining # i => IsRunning(i)
==============================================================================

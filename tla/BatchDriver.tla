----------------------------- MODULE BatchDriver -----------------------------
(***************************************************************************)
(* A scan together with whoever called for it: the command parser, whose   *)
(* user may ask for its end at any time, or the batch program              *)
(* VnaScanMultithreaded, which checks its arguments, starts the scan,      *)
(* waits for it (by polling get_state in NUM_SWEEPS mode, by a sleep of    *)
(* its own in TIME mode), stops it and returns from main.                  *)
(***************************************************************************)
EXTENDS ScanSession

CONSTANTS
  Callers,      (* a subset of {"parser", "driver"}                         *)
  CommandLines, (* argument lists of the batch program                      *)
  Defaults,     (* its values without arguments                             *)
  MinFreq, MaxFreq, MaxPoints,
  StartFaults   (* what of start_sweep may fail                             *)

ASSUME DriverAssumption ==
  /\ Callers \subseteq {"parser", "driver"}
  /\ StartFaults \subseteq {"initialise_scan", "args", "pthread_create"}

VARIABLES
  caller,       (* who called start_sweep                                   *)
  begun,        (* start_sweep returned the id of a scan ("yes"), of a slot *)
                (* without a thread ("no thread") or -1 ("no scan")         *)
  drv,          (* where main of the batch program is; "crashed": it is gone *)
  early         (* ghost: main took a scan not yet set up for a finished one*)

driverVars == <<caller, begun, drv, early>>
batchVars == <<vars, driverVars>>

BatchInit ==
  /\ SessionInit
  /\ caller \in Callers
  /\ IF caller = "driver"
     THEN mode # "ONGOING" /\ begun = "not yet" /\ drv = "arguments"
     ELSE begun = "yes" /\ drv = "none"
  /\ early = FALSE

------------------------------------------------------------------------------
(* main *)

(* The checks of the arguments; argc counts the name of the program too.     *)
Accepted(c) ==
  \/ c = Defaults
  \/ /\ c.argc >= 8
     /\ c.mode \in {"-s", "-t"}
     /\ c.start > 0 /\ c.stop > 0 /\ c.scans > 0 /\ c.ports > 0 /\ c.sweeps > 0
     /\ c.start < c.stop
     /\ c.start >= MinFreq /\ c.stop <= MaxFreq
     /\ c.argc >= 8 + c.ports
     /\ c.pps \in 1 .. MaxPoints

ModeOf(c) == IF c.mode = "-t" THEN "TIME" ELSE "NUM_SWEEPS"

(* This scan is the one the arguments ask for.  Its VNAs are the ports that  *)
(* could be added, perhaps fewer than were named.                            *)
AsksForScan(c) ==
  /\ ModeOf(c) = mode
  /\ c.scans = NbrScans
  /\ mode = "NUM_SWEEPS" => c.sweeps = NbrSweeps
  /\ NbrVnas <= c.ports

MainReturns ==
  /\ drv = "arguments"
  /\ \E c \in CommandLines \cup {Defaults} : ~Accepted(c)
  /\ drv' = "failed"
  /\ UNCHANGED <<vars, caller, begun, early>>

(* No port could be added, or there is no memory for the list.               *)
NothingToScan ==
  /\ drv = "arguments"
  /\ drv' = "failed"
  /\ UNCHANGED <<vars, caller, begun, early>>

Waiting == IF mode = "TIME" THEN "sleep" ELSE "poll"

(* start_sweep; main does not look at the id.                                *)
StartScan ==
  /\ drv = "arguments"
  /\ \E c \in CommandLines \cup {Defaults} : Accepted(c) /\ AsksForScan(c)
  /\ drv' = Waiting
  /\ \/ begun' = "yes"
     \/ {"initialise_scan", "args"} \cap StartFaults # {} /\ begun' = "no scan"
     \/ "pthread_create" \in StartFaults /\ begun' = "no thread"
  /\ UNCHANGED <<vars, caller, early>>

(* Mutant: main waits until the scan is busy.                                *)
SaysBusy == begun # "no scan" /\ scanState > 0

(* get_state stores "idle"; for an id of -1 it stores nothing.               *)
SaysIdle == begun # "no scan" /\ scanState = 0

(* Polls that find another state only go round the loop.                     *)
PollFindsIdle ==
  /\ drv = "poll"
  /\ SaysIdle
  /\ drv' = "stop"
  /\ early' = (mainPc \in {"setup", "publish"} /\ begun = "yes")
  /\ UNCHANGED <<vars, caller, begun>>

SleepIsOver ==
  /\ drv = "sleep"
  /\ drv' = "stop"
  /\ UNCHANGED <<vars, caller, begun, early>>

(* stop_sweep, up to the join.  The state of a slot without a thread is 0    *)
(* before and after it.                                                      *)
DriverStops ==
  /\ drv = "stop"
  /\ \/ begun = "yes" /\ StopSweep
     \/ begun = "no thread" /\ UNCHANGED vars
  /\ drv' = "join"
  /\ UNCHANGED <<caller, begun, early>>

(* stop_sweep(-1): refused without a table of scans; with one it looks at    *)
(* the word before scan_states, and may go on to join what is not a thread.  *)
StopOfNoScan ==
  /\ drv = "stop"
  /\ begun = "no scan"
  /\ \/ drv' = "teardown"
     \/ "args" \in StartFaults /\ drv' = "crashed"
  /\ UNCHANGED <<vars, caller, begun, early>>

(* pthread_join of a thread that was never created: an error, or a crash.    *)
JoinOfNoThread ==
  /\ drv = "join"
  /\ begun = "no thread"
  /\ \/ drv' = "teardown" /\ scanState' = -1 /\ cmdPc' = "stopped"
     \/ drv' = "crashed" /\ UNCHANGED <<scanState, cmdPc>>
  /\ UNCHANGED <<bufferVars, mode, mainPc, prodPc, left, consPc, freed, owed, caller, begun, early>>

DriverJoins ==
  /\ drv = "join"
  /\ DestroyScan
  /\ drv' = "teardown"
  /\ UNCHANGED <<caller, begun, early>>

(* teardown_port_array, and the end of the process.                          *)
TearDown ==
  /\ drv = "teardown"
  /\ drv' = "exited"
  /\ UNCHANGED <<vars, caller, begun, early>>

DriverStep ==
  \/ MainReturns \/ NothingToScan \/ StartScan \/ PollFindsIdle \/ SleepIsOver
  \/ DriverStops \/ StopOfNoScan \/ JoinOfNoThread \/ DriverJoins \/ TearDown

------------------------------------------------------------------------------
(* The threads of the scan, from start_sweep to the end of the process.      *)
InScan(A) ==
  /\ begun = "yes"
  /\ drv \notin {"exited", "failed", "crashed"}
  /\ A
  /\ UNCHANGED driverVars

UserStops == caller = "parser" /\ (StopSweep \/ DestroyScan)

BatchNext ==
  /\ mainPc # "crashed"
  /\ \/ InScan(MainStep)
     \/ \E p \in Producers : InScan(ProducerStep(p))
     \/ InScan(ConsumerStep)
     \/ InScan(SpuriousWakeup /\ UNCHANGED <<threadVars, owed>>)
     \/ InScan(UserStops)
     \/ DriverStep

BatchSpec == BatchInit /\ [][BatchNext]_batchVars

(* As in ScanSession; and main is scheduled, its sleeps return.              *)
BatchFairness ==
  /\ WF_batchVars(Alive(InScan(MainStep)))
  /\ \A p \in Producers : WF_batchVars(Alive(InScan(ProducerStep(p))))
  /\ WF_batchVars(Alive(InScan(ConsumerStep)))
  /\ WF_batchVars(Alive(InScan(caller = "parser" /\ DestroyScan)))
  /\ WF_batchVars(Alive(DriverStep))

FairBatch == BatchSpec /\ BatchFairness

------------------------------------------------------------------------------
(* Properties *)

(* When main leaves its polling loop no reader is at work: a NUM_SWEEPS scan *)
(* is not cut short by its own driver, unless the first poll came before     *)
(* run_sweep had stored the number of readers.                               *)
IdleMeansOver ==
  mode = "NUM_SWEEPS" /\ drv \in {"stop", "join"} /\ ~early =>
    \A p \in Producers : prodPc[p] \notin {"run", "exit"}

(* If the batch program ends with success, then a scan of its own that came  *)
(* to the creation of all its threads has had every datapoint printed, again *)
(* unless the first poll came too early.                                     *)
BatchPrintsAll ==
  /\ drv \in {"teardown", "exited"} /\ mode = "NUM_SWEEPS" /\ ~early
  /\ consPc # "none"
  => \A p \in Producers : prodPc[p] = "done" /\ owed[p] = 0

(* Why a batch program may never end.  It polls for ever if start_sweep gave *)
(* it no id, or the creation of a reader or of the printing thread failed;   *)
(* it joins for ever if the printing thread sleeps for ever, or is gone and  *)
(* a reader waits for room, or the stop request of a TIME scan was erased.   *)
Hangs ==
  \/ /\ drv = "poll"
     /\ \/ begun = "no scan"
        \/ \E p \in Producers : prodPc[p] = "failed"
        \/ mainPc = "returned" /\ consPc = "none" /\ scanState > 0
  \/ /\ drv = "join"
     /\ ConsumerAsleep \/ ReaderStuck \/ (mode = "TIME" /\ scanState > 0)

(* The batch program ends, or comes to rest in one of these ways (to which   *)
(* it always comes back, if a wakeup is spurious).                           *)
DriverSettles ==
  caller = "driver" =>
    \/ <>(drv \in {"exited", "failed", "crashed"} \/ mainPc = "crashed")
    \/ []<>Hangs
==============================================================================

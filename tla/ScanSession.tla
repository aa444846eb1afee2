----------------------------- MODULE ScanSession -----------------------------
(***************************************************************************)
(* One scan, from the moment start_sweep has reserved its slot and created *)
(* its main thread (run_sweep) to the moment stop_sweep gives the slot     *)
(* back.  The threads are run_sweep itself, one reader thread per VNA      *)
(* (scan_producer in NUM_SWEEPS mode, sweep_producer in TIME and ONGOING   *)
(* modes), the printing thread scan_consumer, and the command thread that  *)
(* may call stop_sweep at any time.  They share the bounded buffer and     *)
(* scan_states[scan_id].                                                   *)
(*                                                                         *)
(* Producers is the set of reader threads, nbr_vnas its size; a datapoint  *)
(* is known by the thread that pulled it (its vna_id).                     *)
(***************************************************************************)
EXTENDS BoundedBuffer

CONSTANTS
  Consumer,   (* the printing thread                                        *)
  Modes,      (* the sweep modes considered                                 *)
  NbrScans,   (* nbr_scans: pulls per VNA and sweep                         *)
  NbrSweeps,  (* sweeps, in NUM_SWEEPS mode                                 *)
  Faults      (* the calls of run_sweep that may fail                       *)

ASSUME SessionAssumption ==
  /\ Producers # {}
  /\ Data = Producers
  /\ Consumers = {Consumer}
  /\ Modes \subseteq {"NUM_SWEEPS", "TIME", "ONGOING"}
  /\ NbrScans \in Nat \ {0}
  /\ NbrSweeps \in Nat
  /\ Faults \subseteq {"malloc", "create_producer", "create_consumer"}

VARIABLES
  mode,       (* args->sweep_mode                                           *)
  scanState,  (* scan_states[scan_id]                                       *)
  mainPc,     (* where run_sweep is; "crashed": the process is gone         *)
  prodPc,     (* "none", "failed" to start, "run", "exit" or "done"         *)
  left,       (* left[p]: pulls left in p's current loop                    *)
  consPc,     (* "none", "run" or "done"                                    *)
  cmdPc,      (* stop_sweep: "idle" before it, "joining", "stopped"         *)
  freed,      (* the buffer has been destroyed                              *)
  owed        (* ghost: owed[p] datapoints pulled by p and not yet printed  *)

threadVars == <<mode, scanState, mainPc, prodPc, left, consPc, cmdPc, freed>>
vars == <<bufferVars, threadVars, owed>>

NbrVnas == Cardinality(Producers)

SessionInit ==
  /\ BufferInit
  /\ mode \in Modes
  /\ scanState = 0
  /\ mainPc = "setup"
  /\ prodPc = [p \in Producers |-> "none"]
  /\ left = [p \in Producers |-> 0]
  /\ consPc = "none"
  /\ cmdPc = "idle"
  /\ freed = FALSE
  /\ owed = [p \in Producers |-> 0]

------------------------------------------------------------------------------
(* run_sweep *)

(* The touchstone file and the buffer; either malloc may fail, and then the  *)
(* thread returns and the state stays 0.                                     *)
SetUp ==
  /\ mainPc = "setup"
  /\ \/ mainPc' = "publish"
     \/ "malloc" \in Faults /\ mainPc' = "returned"
  /\ UNCHANGED <<bufferVars, mode, scanState, prodPc, left, consPc, cmdPc, freed, owed>>

(* Mutant: the state is a busy flag.                                         *)
PublishFlag ==
  /\ mainPc = "publish"
  /\ scanState' = 1
  /\ mainPc' = "spawn"
  /\ UNCHANGED <<bufferVars, mode, prodPc, left, consPc, cmdPc, freed, owed>>

PublishState ==
  /\ mainPc = "publish"
  /\ scanState' = NbrVnas
  /\ mainPc' = "spawn"
  /\ UNCHANGED <<bufferVars, mode, prodPc, left, consPc, cmdPc, freed, owed>>

(* A failure is only reported; the loop goes on with the next VNA.           *)
CreateProducer(p) ==
  /\ mainPc = "spawn"
  /\ prodPc[p] = "none"
  /\ \/ prodPc' = [prodPc EXCEPT ![p] = "run"]
     \/ "create_producer" \in Faults /\ prodPc' = [prodPc EXCEPT ![p] = "failed"]
  /\ left' = [left EXCEPT ![p] = IF mode = "NUM_SWEEPS" THEN NbrSweeps * NbrScans ELSE 0]
  /\ UNCHANGED <<bufferVars, mode, scanState, mainPc, consPc, cmdPc, freed, owed>>

AllTried == \A p \in Producers : prodPc[p] # "none"

CreateConsumer ==
  /\ mainPc = "spawn"
  /\ AllTried
  /\ consPc' = "run"
  /\ mainPc' = IF mode = "TIME" THEN "timer" ELSE "join"
  /\ UNCHANGED <<bufferVars, mode, scanState, prodPc, left, cmdPc, freed, owed>>

(* The buffer is destroyed although the readers have it.                     *)
CreateConsumerFails ==
  /\ "create_consumer" \in Faults
  /\ mainPc = "spawn"
  /\ AllTried
  /\ freed' = TRUE
  /\ mainPc' = "returned"
  /\ UNCHANGED <<bufferVars, mode, scanState, prodPc, left, consPc, cmdPc, owed>>

(* sleep(sweeps) is over: the state is stored again.                         *)
TimerDone ==
  /\ mainPc = "timer"
  /\ scanState' = NbrVnas
  /\ mainPc' = "join"
  /\ UNCHANGED <<bufferVars, mode, prodPc, left, consPc, cmdPc, freed, owed>>

(* A reader that was never created is joined through an uninitialised        *)
(* pthread_t: the call reports an error, or the process crashes.             *)
JoinProducers ==
  /\ mainPc = "join"
  /\ \A p \in Producers : prodPc[p] \in {"done", "failed"}
  /\ \/ mainPc' = "joinConsumer"
     \/ (\E p \in Producers : prodPc[p] = "failed") /\ mainPc' = "crashed"
  /\ UNCHANGED <<bufferVars, mode, scanState, prodPc, left, consPc, cmdPc, freed, owed>>

(* Mutant: the printing thread is not joined.                                *)
ConsumerNotJoined == TRUE

ConsumerJoined == consPc = "done"

JoinConsumer ==
  /\ mainPc = "joinConsumer"
  /\ ConsumerJoined
  /\ freed' = TRUE
  /\ mainPc' = "returned"
  /\ UNCHANGED <<bufferVars, mode, scanState, prodPc, left, consPc, cmdPc, owed>>

------------------------------------------------------------------------------
(* scan_producer and sweep_producer *)

PullsLeft(p) == left[p] > 0

(* A reader between two calls of add_buff.                                   *)
Reading(p) == prodPc[p] = "run" /\ adding[p] = NULL

(* pull_scan, then add_buff if it returned data.                             *)
PullScan(p) ==
  /\ Reading(p)
  /\ PullsLeft(p)
  /\ BeginAdd(p, p)
  /\ left' = [left EXCEPT ![p] = @ - 1]
  /\ owed' = [owed EXCEPT ![p] = @ + 1]
  /\ UNCHANGED <<mode, scanState, mainPc, prodPc, consPc, cmdPc, freed>>

PullFails(p) ==
  /\ Reading(p)
  /\ PullsLeft(p)
  /\ left' = [left EXCEPT ![p] = @ - 1]
  /\ UNCHANGED <<bufferVars, mode, scanState, mainPc, prodPc, consPc, cmdPc, freed, owed>>

(* An access to the destroyed buffer is undefined: the model stops there.    *)
ProducerAdds(p) ==
  /\ ~freed
  /\ AddBuff(p)
  /\ UNCHANGED <<threadVars, owed>>

(* Mutant: complete one reader too early.                                    *)
NextToLastReader == scanState - 1 <= 1

LastReader == scanState - 1 <= 0

(* The end of scan_producer, under scan_state_lock.                          *)
FinishScans(p) ==
  /\ mode = "NUM_SWEEPS"
  /\ Reading(p)
  /\ left[p] = 0
  /\ scanState' = scanState - 1
  /\ IF LastReader THEN SetComplete ELSE UNCHANGED bufferVars
  /\ prodPc' = [prodPc EXCEPT ![p] = "done"]
  /\ UNCHANGED <<mode, mainPc, left, consPc, cmdPc, freed, owed>>

(* Mutant: the state is not looked at.                                       *)
ActiveForever == TRUE

Active == scanState > 0

(* The head of sweep_producer's outer loop, without the lock.                *)
CheckState(p) ==
  /\ mode # "NUM_SWEEPS"
  /\ Reading(p)
  /\ left[p] = 0
  /\ IF Active
     THEN left' = [left EXCEPT ![p] = NbrScans] /\ UNCHANGED prodPc
     ELSE prodPc' = [prodPc EXCEPT ![p] = "exit"] /\ UNCHANGED left
  /\ UNCHANGED <<bufferVars, mode, scanState, mainPc, consPc, cmdPc, freed, owed>>

ExitSweeps(p) ==
  /\ prodPc[p] = "exit"
  /\ ~freed
  /\ SetComplete
  /\ prodPc' = [prodPc EXCEPT ![p] = "done"]
  /\ UNCHANGED <<mode, scanState, mainPc, left, consPc, cmdPc, freed, owed>>

------------------------------------------------------------------------------
(* scan_consumer *)

(* Mutant: what is still queued is forgotten.                                *)
NotComplete == ~complete

(* Read without a lock.  complete is read first and never becomes FALSE      *)
(* again, so one step at the time of the deciding read is enough.            *)
MoreToTake == ~complete \/ count # 0

ConsumerTakes ==
  /\ consPc = "run"
  /\ MoreToTake
  /\ BeginTake(Consumer)
  /\ UNCHANGED <<threadVars, owed>>

ConsumerInTakeBuff ==
  /\ ~freed
  /\ TakeBuff(Consumer)
  /\ UNCHANGED <<threadVars, owed>>

PrintDatapoint ==
  /\ consPc = "run"
  /\ result[Consumer] # NULL
  /\ owed' = [owed EXCEPT ![result[Consumer]] = @ - 1]
  /\ Collect(Consumer)
  /\ UNCHANGED threadVars

(* The loop test fails, or take_buff has returned NULL.                      *)
ConsumerExits ==
  /\ consPc = "run"
  /\ consPc' = "done"
  /\ \/ taking[Consumer] = "idle" /\ ~MoreToTake /\ UNCHANGED bufferVars
     \/ result[Consumer] = NULL /\ Collect(Consumer)
  /\ UNCHANGED <<mode, scanState, mainPc, prodPc, left, cmdPc, freed, owed>>

------------------------------------------------------------------------------
(* stop_sweep, on the command thread *)

StopSweep ==
  /\ cmdPc = "idle"
  /\ scanState # -1
  /\ scanState' = 0
  /\ cmdPc' = "joining"
  /\ UNCHANGED <<bufferVars, mode, mainPc, prodPc, left, consPc, freed, owed>>

(* pthread_join of run_sweep returns; destroy_scan.                          *)
DestroyScan ==
  /\ cmdPc = "joining"
  /\ mainPc = "returned"
  /\ scanState' = -1
  /\ cmdPc' = "stopped"
  /\ UNCHANGED <<bufferVars, mode, mainPc, prodPc, left, consPc, freed, owed>>

------------------------------------------------------------------------------
MainStep ==
  \/ SetUp \/ PublishState
  \/ \E p \in Producers : CreateProducer(p)
  \/ CreateConsumer \/ CreateConsumerFails
  \/ TimerDone \/ JoinProducers \/ JoinConsumer

ProducerStep(p) ==
  \/ PullScan(p) \/ PullFails(p) \/ ProducerAdds(p)
  \/ FinishScans(p) \/ CheckState(p) \/ ExitSweeps(p)

ConsumerStep ==
  ConsumerTakes \/ ConsumerInTakeBuff \/ PrintDatapoint \/ ConsumerExits

SessionNext ==
  /\ mainPc # "crashed"
  /\ \/ MainStep
     \/ \E p \in Producers : ProducerStep(p)
     \/ ConsumerStep
     \/ StopSweep \/ DestroyScan
     \/ SpuriousWakeup /\ UNCHANGED <<threadVars, owed>>

SessionSpec == SessionInit /\ [][SessionNext]_vars

(* Every thread that can take a step is scheduled, and sleep, pull_scan (its *)
(* reads time out) and pthread_join return.  Nobody has to call stop_sweep   *)
(* and no wakeup has to be spurious.                                         *)
Alive(A) == mainPc # "crashed" /\ A

Fairness ==
  /\ WF_vars(Alive(MainStep))
  /\ \A p \in Producers : WF_vars(Alive(ProducerStep(p)))
  /\ WF_vars(Alive(ConsumerStep))
  /\ WF_vars(Alive(DestroyScan))

FairSession == SessionSpec /\ Fairness

------------------------------------------------------------------------------
(* Properties *)

(* Type invariant of the session's own variables.                            *)
SessionTypeOK ==
  /\ BufferTypeOK
  /\ mode \in Modes
  /\ scanState \in Int
  /\ mainPc \in {"setup", "publish", "spawn", "timer", "join", "joinConsumer",
                 "returned", "crashed"}
  /\ prodPc \in [Producers -> {"none", "failed", "run", "exit", "done"}]
  /\ left \in [Producers -> Nat]
  /\ consPc \in {"none", "run", "done"}
  /\ cmdPc \in {"idle", "joining", "stopped"}
  /\ freed \in BOOLEAN
  /\ owed \in [Producers -> Int]

Unfinished == {p \in Producers : prodPc[p] # "done"}

(* The initial state has been stored, and not just lost to a failed malloc.  *)
Published ==
  /\ mainPc \notin {"setup", "publish"}
  /\ mainPc = "returned" => \E p \in Producers : prodPc[p] # "none"

(* Until somebody calls stop_sweep, the state of a NUM_SWEEPS scan counts    *)
(* the readers still to finish and the state of the other scans stays at     *)
(* nbr_vnas: get_state says idle or busy, never vacant or error, and a       *)
(* first stop_sweep is never refused.                                        *)
StateTellsProgress ==
  cmdPc = "idle" => scanState = IF Published THEN Cardinality(Unfinished) ELSE 0

(* Until somebody calls stop_sweep, complete is set by the last reader of a  *)
(* NUM_SWEEPS scan and by nobody else: no reader can add a datapoint after   *)
(* it, and a TIME or ONGOING scan is never complete.                         *)
CompleteMeansDone ==
  complete /\ cmdPc = "idle" => mode = "NUM_SWEEPS" /\ Unfinished = {}

(* Until somebody calls stop_sweep, the printing thread leaves only when the *)
(* readers are done and every datapoint they pulled has been printed.        *)
NothingLeftBehind ==
  consPc = "done" /\ cmdPc = "idle" =>
    Unfinished = {} /\ \A p \in Producers : owed[p] = 0

(* The slots that hold a datapoint of p.                                     *)
Held(p) == {i \in Slots : buffer[i] = p}

(* Every datapoint pulled and not yet printed is in one place: being added,  *)
(* in the ring, or in the hands of the printing thread.  None is lost,       *)
(* overwritten or printed twice, whatever the threads do.                    *)
Conservation ==
  \A p \in Producers :
    owed[p] = Cardinality(Held(p))
              + (IF adding[p] = p THEN 1 ELSE 0)
              + (IF result[Consumer] = p THEN 1 ELSE 0)

(* Unless the printing thread could not be created, the buffer is destroyed  *)
(* only when no reader and no printing thread can touch it again.            *)
FreedWhenQuiet ==
  freed /\ consPc # "none" =>
    /\ consPc = "done"
    /\ \A p \in Producers : prodPc[p] \in {"done", "failed"}

ReadersOver == \A p \in Producers : prodPc[p] \in {"done", "failed"}

(* Nobody is left to signal add_cond.                                        *)
ConsumerAsleep == ReadersOver /\ Consumer \in addCond /\ count = 0

(* The printing thread has left, a reader waits for room.                    *)
ReaderStuck == consPc = "done" /\ count = N /\ takeCond # {}

(* A NUM_SWEEPS scan that is under way and that nobody stops either returns  *)
(* from run_sweep or comes to rest with all datapoints printed and the       *)
(* printing thread asleep in take_buff.  (A crash is possible only if a      *)
(* reader was not created.)                                                  *)
NumScanSettles ==
  mode = "NUM_SWEEPS" /\ mainPc # "setup" ~>
    mainPc \in {"returned", "crashed"} \/ ConsumerAsleep \/ cmdPc # "idle"

(* A stop request leads to the end of the scan, or the request was erased by *)
(* run_sweep storing nbr_vnas over it, or the scan hangs in one of two ways: *)
(* the printing thread asleep, or gone with a reader waiting for room.       *)
StopSettles ==
  cmdPc = "joining" ~>
    \/ mainPc = "crashed" \/ cmdPc = "stopped"
    \/ scanState > 0
    \/ ConsumerAsleep \/ ReaderStuck

------------------------------------------------------------------------------
(* How the control states of the threads hang together: the part of the      *)
(* inductive invariant that the safety theorems share.                       *)
MainInStep ==
  /\ mainPc \in {"setup", "publish"} => \A p \in Producers : prodPc[p] = "none"
  /\ mainPc \in {"setup", "publish", "spawn"} => consPc = "none"
  /\ mainPc = "timer" => mode = "TIME"
  /\ mainPc = "joinConsumer" => ReadersOver
  /\ freed => mainPc = "returned"

ReadersInStep ==
  \A p \in Producers :
    /\ adding[p] # NULL => prodPc[p] = "run" /\ adding[p] = p
    /\ mode # "NUM_SWEEPS" /\ cmdPc = "idle" => prodPc[p] \notin {"exit", "done"}
    /\ prodPc[p] = "exit" => mode # "NUM_SWEEPS"

PrinterInStep ==
  /\ taking[Consumer] # "returned" => result[Consumer] = NULL
  /\ taking[Consumer] = "returned" /\ result[Consumer] = NULL /\ cmdPc = "idle"
       => complete /\ count = 0

ThreadsInStep == MainInStep /\ ReadersInStep /\ PrinterInStep

------------------------------------------------------------------------------
(* The scan as its slot of the scan table sees it: the main thread, the      *)
(* readers that have not left their loop yet, and the state they share.      *)
SlotGivenBack == cmdPc = "stopped"

MainThread ==
  CASE mainPc \in {"setup", "publish"} -> "starting"
    [] mainPc = "returned" -> IF SlotGivenBack THEN "none" ELSE "returned"
    [] OTHER -> "running"

InLoop == {p \in Producers : prodPc[p] \notin {"exit", "done"}}

InSlot(value, vacant) == [i \in {0} |-> IF SlotGivenBack THEN vacant ELSE value]

Slot == INSTANCE ScanTable WITH
  MaxScans <- 1,
  MaxVnas <- NbrVnas,
  TableFaults <- IF "malloc" \in Faults THEN {"setup"} ELSE {},
  NoScan <- -1,
  states <- [i \in {0} |-> scanState],
  ongoing <- IF SlotGivenBack THEN 0 ELSE 1,
  thread <- [i \in {0} |-> MainThread],
  mode <- InSlot(mode, "ONGOING"),
  readers <- InSlot(NbrVnas, 0),
  unfinished <- InSlot(Cardinality(InLoop), 0),
  sleeping <- InSlot(mode = "TIME" /\ mainPc \in {"spawn", "timer"}, FALSE),
  joining <- IF cmdPc = "joining" THEN 0 ELSE -1

(* Every thread of the scan that was to be created could be.                 *)
AllCreated ==
  /\ \A p \in Producers : prodPc[p] # "failed"
  /\ ~(freed /\ consPc = "none")

SlotStep ==
  \/ Slot!ScanStep(0) \/ Slot!BeginStop(0) \/ Slot!EndStop(0)
  \/ UNCHANGED Slot!slotVars

(* As start_sweep has left it.                                               *)
SlotStarted ==
  scanState = 0 /\ MainThread = "starting" /\ Cardinality(InLoop) = NbrVnas /\ cmdPc = "idle"

(* The scan does to its slot what the table says a scan does, as long as its *)
(* threads can be created: it begins, counts its readers down, wakes up,     *)
(* returns, is told to stop and is given back in that way and no other.  If  *)
(* a thread cannot be created run_sweep may return and leave readers behind, *)
(* which go on storing into a slot that may be somebody else's by then.      *)
ImplementsSlot == SlotStarted /\ [][AllCreated' => SlotStep]_vars

------------------------------------------------------------------------------
(* What the comments of the header promise, and the code does not keep.      *)

(* take_buff returns NULL when the scan is finished, so a NUM_SWEEPS scan    *)
(* that nobody stops ends.                                                   *)
NumScanEnds ==
  mode = "NUM_SWEEPS" /\ [](cmdPc = "idle") => <>(mainPc = "returned")
==============================================================================

------------------------------ MODULE Settings -------------------------------
(***************************************************************************)
(* The settings of the command parser, which scan and sweep pass on to     *)
(* start_sweep, and the set command.  A value that set refuses changes     *)
(* nothing.  resolution, nbr_scans and pps are ints of IntHalf * 2 values. *)
(***************************************************************************)
EXTENDS Integers

CONSTANTS
  MinFreq, MaxFreq,     (* 10 kHz and 1.5 GHz                               *)
  FirstStart, FirstStop,(* the default frequencies                          *)
  MaxPoints,            (* 101, the points of a full scan                   *)
  FirstScans,           (* the default number of scans                      *)
  IntHalf,              (* 2^31                                             *)
  Values                (* the numbers a user enters                        *)

ASSUME SettingsAssumption ==
  /\ MinFreq \in Nat \ {0} /\ MaxFreq \in Nat
  /\ FirstStart \in MinFreq .. MaxFreq /\ FirstStop \in MinFreq .. MaxFreq
  /\ FirstStart < FirstStop
  /\ MaxPoints \in Nat \ {0} /\ FirstScans \in Nat \ {0}
  /\ IntHalf \in Nat /\ IntHalf > FirstScans * MaxPoints
  /\ Values \subseteq -IntHalf .. IntHalf-1

VARIABLES
  start, stop,          (* frequencies                                      *)
  resolution,           (* points per sweep, as entered or computed         *)
  nbrScans,             (* nbr_scans                                        *)
  pps,                  (* points per scan                                  *)
  sweeps                (* number of sweeps                                 *)

frequencyVars == <<start, stop>>
pointVars == <<resolution, nbrScans, pps>>
settingVars == <<frequencyVars, pointVars, sweeps>>

(* Signed overflow, as the unoptimised build of the Makefile has it.         *)
Wrap(x) == ((x + IntHalf) % (2 * IntHalf)) - IntHalf

(* initialise_settings *)
SettingsInit ==
  /\ start = FirstStart
  /\ stop = FirstStop
  /\ resolution = FirstScans * MaxPoints
  /\ nbrScans = FirstScans
  /\ pps = MaxPoints
  /\ sweeps = 1

(* Mutant: the start frequency is not compared with the stop frequency.      *)
AnyStart(v) == v \in MinFreq .. MaxFreq

GoodStart(v) == v \in MinFreq .. MaxFreq /\ v < stop

SetStart(v) ==
  /\ GoodStart(v)
  /\ start' = v
  /\ UNCHANGED <<stop, pointVars, sweeps>>

GoodStop(v) == v \in MinFreq .. MaxFreq /\ v > start

SetStop(v) ==
  /\ GoodStop(v)
  /\ stop' = v
  /\ UNCHANGED <<start, pointVars, sweeps>>

(* set resolution and calculate_resolution *)
SetResolution(v) ==
  /\ v > 0
  /\ resolution' = v
  /\ IF v <= MaxPoints
     THEN nbrScans' = 1 /\ pps' = v
     ELSE nbrScans' = v \div MaxPoints /\ pps' = MaxPoints
  /\ UNCHANGED <<frequencyVars, sweeps>>

SetScans(v) ==
  /\ v > 0
  /\ nbrScans' = v
  /\ resolution' = Wrap(v * pps)
  /\ UNCHANGED <<frequencyVars, pps, sweeps>>

(* Mutant: the resolution is left as it was.                                 *)
SetPointsOnly(v) ==
  /\ v \in 1 .. MaxPoints
  /\ pps' = v
  /\ UNCHANGED <<frequencyVars, resolution, nbrScans, sweeps>>

SetPoints(v) ==
  /\ v \in 1 .. MaxPoints
  /\ pps' = v
  /\ resolution' = Wrap(nbrScans * v)
  /\ UNCHANGED <<frequencyVars, nbrScans, sweeps>>

SetSweeps(v) ==
  /\ v > 0
  /\ sweeps' = v
  /\ UNCHANGED <<frequencyVars, pointVars>>

SetCommand ==
  \E v \in Values :
    \/ SetStart(v) \/ SetStop(v) \/ SetResolution(v)
    \/ SetScans(v) \/ SetPoints(v) \/ SetSweeps(v)

------------------------------------------------------------------------------
(* Type invariant of the settings: whatever is entered, a scan gets a real   *)
(* frequency range and at least one scan of at least one point.              *)
SettingsOK ==
  /\ start \in MinFreq .. MaxFreq
  /\ stop \in MinFreq .. MaxFreq
  /\ start < stop
  /\ resolution \in -IntHalf .. IntHalf-1
  /\ nbrScans \in 1 .. IntHalf-1
  /\ pps \in 1 .. MaxPoints
  /\ sweeps \in 1 .. IntHalf-1

(* The resolution that list shows and the scans that are made agree: the     *)
(* points asked for are at most the resolution and fall short of it by less  *)
(* than a full scan, unless their number does not fit an int.                *)
ResolutionKept ==
  nbrScans * pps < IntHalf =>
    nbrScans * pps \in resolution - MaxPoints + 1 .. resolution

(* What `set` can never do, in any order: an empty range, or a list that      *)
(* shows a resolution the scans do not have.                                 *)
SettingsSane == SettingsOK /\ ResolutionKept
==============================================================================

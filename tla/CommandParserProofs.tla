------------------------- MODULE CommandParserProofs -------------------------
(***************************************************************************)
(* What the command parser keeps for every number of slots and of VNAs,    *)
(* every width of int and every limit of the settings.                     *)
(***************************************************************************)
EXTENDS CommandParser, FiniteSetTheorems, TLAPS

------------------------------------------------------------------------------
(* The inductive invariant. *)

(* A slot that is being stopped is in use, whatever its state: a reader may  *)
(* have counted it down to -1.                                               *)
InUse == {i \in Scans : ~Vacant(i) \/ joining = i}
Counted == ongoing = Cardinality(InUse)

(* What the state of a scan says, as long as nobody stops it.                *)
SlotSound(i) ==
  /\ unfinished[i] - MaxVnas <= states[i]
  /\ thread[i] = "starting" => unfinished[i] = readers[i]
  /\ sleeping[i] => thread[i] = "running" /\ mode[i] = "TIME"
  /\ joining # i =>
       /\ thread[i] = "none" => states[i] \in {-1, 0}
       /\ thread[i] # "none" => states[i] >= 0
       /\ thread[i] = "running" /\ mode[i] = "NUM_SWEEPS" => states[i] = unfinished[i]
SlotsSound == \A i \in Scans : SlotSound(i)

(* What a command or a scan may do to the table.                             *)
TableStep ==
  \E i \in Scans :
    \/ \E n \in 1 .. MaxVnas, m \in SweepModes : StartSweep(i, n, m)
    \/ joining = NoScan /\ BeginStop(i)
    \/ EndStop(i)
    \/ ScanStep(i)

(* Every step of the parser is a step of the table or leaves it alone.       *)
LEMMA StepsOfTable == [Next]_vars => [TableStep]_slotVars
  <1> SUFFICES ASSUME [Next]_vars, slotVars' # slotVars PROVE TableStep
    OBVIOUS
  <1>1. CASE \E i \in Scans, n \in 1 .. MaxVnas, m \in SweepModes : StartCommand(i, n, m)
    BY <1>1 DEF StartCommand, TableStep
  <1>2. CASE \E i \in Scans : StopCommand(i)
    BY <1>2 DEF StopCommand, Prompt, TableStep
  <1>3. CASE \E i \in Scans : StopAllNext(i)
    BY <1>3 DEF StopAllNext, TableStep, slotVars
  <1>4. CASE \E i \in Scans : JoinReturns(i)
    BY <1>4 DEF JoinReturns, TableStep
  <1>5. CASE \E i \in Scans : ScanWorks(i)
    BY <1>5 DEF ScanWorks, TableStep
  <1> QED
    BY <1>1, <1>2, <1>3, <1>4, <1>5 DEF Next, vars, Set, StopAll, StopAllEnds, Exit,
       JoinCrashes, ReaderDivides, slotVars

------------------------------------------------------------------------------
(* The settings. *)

LEMMA WrapInt == ASSUME NEW x \in Int PROVE Wrap(x) \in -IntHalf .. IntHalf-1
  <1>1. IntHalf \in Nat /\ IntHalf > 0
    BY SettingsAssumption
  <1>2. (x + IntHalf) % (2 * IntHalf) \in 0 .. 2 * IntHalf - 1
    BY <1>1
  <1> QED
    BY <1>1, <1>2 DEF Wrap

LEMMA WrapSmall == ASSUME NEW x \in Nat, x < IntHalf PROVE Wrap(x) = x
  <1>1. IntHalf \in Nat /\ x + IntHalf \in 0 .. 2 * IntHalf - 1
    BY SettingsAssumption
  <1> DEFINE y == x + IntHalf  m == 2 * IntHalf
  <1>2. y \in Nat /\ m \in Nat \ {0} /\ y < m
    BY <1>1
  <1> HIDE DEF y, m
  <1>3. y % m = y
    BY <1>2
  <1> QED
    BY <1>1, <1>3 DEF Wrap, y, m

LEMMA Division ==
  ASSUME NEW v \in Nat, NEW m \in Nat \ {0}
  PROVE  /\ v \div m \in Nat
         /\ (v \div m) * m \in v - m + 1 .. v
         /\ v >= m => v \div m >= 1
  OBVIOUS

(* set resolution shows what calculate_resolution makes of it.               *)
LEMMA ResolutionSane ==
  ASSUME SettingsSane, NEW v \in Values, SetResolution(v) PROVE SettingsSane'
  <1>1. v \in 1 .. IntHalf-1 /\ IntHalf \in Nat /\ MaxPoints \in Nat \ {0}
    BY SettingsAssumption DEF SetResolution
  <1>2. CASE v <= MaxPoints
    BY <1>1, <1>2 DEF SettingsSane, SettingsOK, ResolutionKept, SetResolution,
       frequencyVars
  <1>3. CASE v > MaxPoints
    <2>1. nbrScans' = v \div MaxPoints /\ pps' = MaxPoints /\ resolution' = v
      BY <1>1, <1>3 DEF SetResolution
    <2>2. /\ v \div MaxPoints \in Nat
          /\ (v \div MaxPoints) * MaxPoints \in v - MaxPoints + 1 .. v
          /\ v \div MaxPoints >= 1
      <3>1. v \in Nat /\ v >= MaxPoints /\ MaxPoints \in Nat \ {0}
        BY <1>1, <1>3
      <3>2. /\ v \div MaxPoints \in Nat
            /\ (v \div MaxPoints) * MaxPoints \in v - MaxPoints + 1 .. v
            /\ v >= MaxPoints => v \div MaxPoints >= 1
        BY ONLY <3>1, Division, Zenon
      <3> QED
        BY <3>1, <3>2
    <2>3. v \div MaxPoints <= v
      <3> DEFINE q == v \div MaxPoints
      <3>1. q \in Nat /\ q * MaxPoints <= v
        BY <1>1, <2>2
      <3> HIDE DEF q
      <3>2. q <= q * MaxPoints
        BY <1>1, <3>1
      <3>3. q * MaxPoints \in Nat
        BY <1>1, <3>1
      <3>4. q <= v
        BY <1>1, <3>1, <3>2, <3>3
      <3> QED
        BY <3>4 DEF q
    <2> QED
      BY <1>1, <2>1, <2>2, <2>3 DEF SettingsSane, SettingsOK, ResolutionKept,
         SetResolution, frequencyVars
  <1> QED
    BY <1>1, <1>2, <1>3

(* set scans and set points show the product, as far as it fits an int.      *)
LEMMA ProductShown ==
  ASSUME NEW n \in Nat \ {0}, NEW p \in Nat \ {0}, NEW k \in Nat \ {0}
  PROVE  /\ Wrap(n * p) \in -IntHalf .. IntHalf-1
         /\ n * p < IntHalf => n * p \in Wrap(n * p) - k + 1 .. Wrap(n * p)
  <1> DEFINE x == n * p
  <1>1. x \in Nat
    OBVIOUS
  <1> HIDE DEF x
  <1>2. Wrap(x) \in -IntHalf .. IntHalf-1
    BY <1>1, WrapInt
  <1>3. ASSUME x < IntHalf PROVE x \in Wrap(x) - k + 1 .. Wrap(x)
    <2>1. Wrap(x) = x
      BY <1>1, <1>3, WrapSmall
    <2> QED
      BY <1>1, <2>1
  <1>4. x < IntHalf => x \in Wrap(x) - k + 1 .. Wrap(x)
    BY <1>3
  <1> QED
    BY <1>2, <1>4 DEF x

LEMMA SetKeepsSane ==
  ASSUME SettingsSane, SetCommand PROVE SettingsSane'
  <1>0. /\ IntHalf \in Nat /\ MaxPoints \in Nat \ {0}
        /\ MinFreq \in Nat /\ MaxFreq \in Nat /\ Values \subseteq -IntHalf .. IntHalf-1
    BY SettingsAssumption
  <1> PICK v \in Values :
        \/ SetStart(v) \/ SetStop(v) \/ SetResolution(v)
        \/ SetScans(v) \/ SetPoints(v) \/ SetSweeps(v)
    BY DEF SetCommand
  <1>1. CASE SetStart(v)
    BY <1>0, <1>1 DEF SettingsSane, SettingsOK, ResolutionKept, SetStart, GoodStart,
       pointVars
  <1>2. CASE SetStop(v)
    BY <1>0, <1>2 DEF SettingsSane, SettingsOK, ResolutionKept, SetStop, GoodStop, pointVars
  <1>3. CASE SetResolution(v)
    BY <1>3, ResolutionSane
  <1>4. CASE SetScans(v)
    <2>1. v \in Nat \ {0} /\ v \in 1 .. IntHalf-1 /\ pps \in Nat \ {0}
      BY <1>0, <1>4 DEF SetScans, SettingsSane, SettingsOK
    <2>2. /\ resolution' \in -IntHalf .. IntHalf-1
          /\ v * pps < IntHalf => v * pps \in resolution' - MaxPoints + 1 .. resolution'
      BY <1>0, <1>4, <2>1, ProductShown DEF SetScans
    <2>3. nbrScans' = v /\ UNCHANGED <<start, stop, pps, sweeps>>
      BY <1>4 DEF SetScans, frequencyVars
    <2>4. SettingsOK'
      BY <2>1, <2>2, <2>3 DEF SettingsSane, SettingsOK
    <2>5. ResolutionKept'
      BY <2>2, <2>3 DEF ResolutionKept
    <2> QED
      BY <2>4, <2>5 DEF SettingsSane
  <1>5. CASE SetPoints(v)
    <2>1. v \in Nat \ {0} /\ v \in 1 .. MaxPoints /\ nbrScans \in Nat \ {0}
      BY <1>0, <1>5 DEF SetPoints, SettingsSane, SettingsOK
    <2>2. /\ resolution' \in -IntHalf .. IntHalf-1
          /\ nbrScans * v < IntHalf =>
               nbrScans * v \in resolution' - MaxPoints + 1 .. resolution'
      BY <1>0, <1>5, <2>1, ProductShown DEF SetPoints
    <2>3. pps' = v /\ UNCHANGED <<start, stop, nbrScans, sweeps>>
      BY <1>5 DEF SetPoints, frequencyVars
    <2>4. SettingsOK'
      BY <2>1, <2>2, <2>3 DEF SettingsSane, SettingsOK
    <2>5. ResolutionKept'
      BY <2>2, <2>3 DEF ResolutionKept
    <2> QED
      BY <2>4, <2>5 DEF SettingsSane
  <1>6. CASE SetSweeps(v)
    BY <1>0, <1>6 DEF SettingsSane, SettingsOK, ResolutionKept, SetSweeps,
       frequencyVars, pointVars
  <1> QED
    BY <1>1, <1>2, <1>3, <1>4, <1>5, <1>6

LEMMA SettingsInitially == Init => SettingsSane
  <1> SUFFICES ASSUME Init PROVE SettingsSane
    OBVIOUS
  <1>1. /\ FirstScans \in Nat \ {0} /\ MaxPoints \in Nat \ {0} /\ IntHalf \in Nat
        /\ FirstScans * MaxPoints \in Nat /\ FirstScans * MaxPoints < IntHalf
    BY SettingsAssumption
  <1>2. FirstScans <= FirstScans * MaxPoints
    BY <1>1
  <1>3. FirstScans \in 1 .. IntHalf-1
    BY <1>1, <1>2
  <1>4. SettingsOK
    BY <1>1, <1>3, SettingsAssumption DEF Init, SettingsInit, SettingsOK
  <1>5. ResolutionKept
    BY <1>1 DEF Init, SettingsInit, ResolutionKept
  <1> QED
    BY <1>4, <1>5 DEF SettingsSane

LEMMA SettingsStep == SettingsSane /\ [Next]_vars => SettingsSane'
  <1> SUFFICES ASSUME SettingsSane, [Next]_vars PROVE SettingsSane'
    OBVIOUS
  <1>1. SetCommand \/ UNCHANGED settingVars
    BY DEF Next, vars, Set, StopAll, StopAllEnds, Exit, StartCommand, StopCommand,
       StopAllNext, JoinReturns, JoinCrashes, ScanWorks, ReaderDivides
  <1>2. CASE SetCommand
    BY <1>2, SetKeepsSane
  <1>3. CASE UNCHANGED settingVars
    BY <1>3 DEF SettingsSane, SettingsOK, ResolutionKept, settingVars, frequencyVars,
       pointVars
  <1> QED
    BY <1>1, <1>2, <1>3

(* Whatever is entered in whatever order, the settings are a real range of   *)
(* frequencies and at least one scan of one point, and list shows a          *)
(* resolution the scans have, as long as it fits an int.                     *)
THEOREM SettingsAlwaysSane == Spec => []SettingsSane
  BY SettingsInitially, SettingsStep, PTL DEF Spec

------------------------------------------------------------------------------
(* The slots. *)

(* Types the slots need; ongoing is left out: it follows from Counted.       *)
SlotTypes ==
  /\ states \in [Scans -> -MaxVnas .. MaxVnas]
  /\ thread \in [Scans -> {"none", "starting", "running", "returned"}]
  /\ mode \in [Scans -> SweepModes]
  /\ readers \in [Scans -> 0 .. MaxVnas]
  /\ unfinished \in [Scans -> 0 .. MaxVnas]
  /\ sleeping \in [Scans -> BOOLEAN]
  /\ joining \in Scans \cup {NoScan}

SlotInv == SlotTypes /\ SlotsSound

LEMMA SlotInvInitially == TableInit => SlotInv
  BY TableAssumption DEF TableInit, SlotInv, SlotTypes, SlotsSound, SlotSound, Scans,
     SweepModes

LEMMA NoScanIsNoSlot == NoScan \notin Scans
  BY TableAssumption DEF Scans

(* What the scan in a slot does by itself keeps the slot sound, and touches  *)
(* only a slot whose thread exists.                                          *)
LEMMA ScanKeepsSlots ==
  ASSUME SlotInv, NEW i \in Scans, ScanStep(i)
  PROVE  /\ SlotInv'
         /\ UNCHANGED <<joining, ongoing>>
         /\ \A j \in Scans \ {i} : states'[j] = states[j]
         /\ thread[i] # "none" /\ thread'[i] \notin {"none", "starting"}
  <1>0. MaxVnas \in Nat \ {0}
    BY TableAssumption
  <1> SUFFICES ASSUME TRUE
               PROVE  /\ SlotTypes'
                      /\ \A j \in Scans : SlotSound(j)'
                      /\ UNCHANGED <<joining, ongoing>>
                      /\ \A j \in Scans \ {i} : states'[j] = states[j]
                      /\ thread[i] # "none" /\ thread'[i] \notin {"none", "starting"}
    BY DEF SlotInv, SlotsSound
  <1>1. CASE ScanBegins(i)
    <2>0. readers[i] \in -MaxVnas .. MaxVnas
      BY <1>0 DEF SlotInv, SlotTypes
    <2>3. states' \in [Scans -> -MaxVnas .. MaxVnas]
      BY <1>1, <2>0 DEF ScanBegins, SlotInv, SlotTypes
    <2>4. thread' \in [Scans -> {"none", "starting", "running", "returned"}]
      BY <1>1 DEF ScanBegins, SlotInv, SlotTypes
    <2>5. sleeping' \in [Scans -> BOOLEAN]
      <3>1. (mode[i] = "TIME") \in BOOLEAN
        OBVIOUS
      <3> QED
        BY <1>1, <3>1, Zenon DEF ScanBegins, SlotInv, SlotTypes
    <2>1. SlotTypes'
      BY <1>1, <2>3, <2>4, <2>5 DEF ScanBegins, SlotInv, SlotTypes
    <2>2. ASSUME NEW j \in Scans PROVE SlotSound(j)'
      BY <1>0, <1>1 DEF ScanBegins, SlotInv, SlotTypes, SlotsSound, SlotSound
    <2> QED
      BY <1>1, <2>1, <2>2 DEF ScanBegins, SlotInv, SlotTypes
  <1>2. CASE ReaderFinishes(i)
    <2>0. states[i] - 1 \in -MaxVnas .. MaxVnas /\ unfinished[i] - 1 \in 0 .. MaxVnas
      <3>1. states[i] \in -MaxVnas .. MaxVnas /\ unfinished[i] \in 1 .. MaxVnas
        BY <1>0, <1>2 DEF ReaderFinishes, SlotInv, SlotTypes
      <3>2. unfinished[i] - MaxVnas <= states[i]
        BY DEF SlotInv, SlotsSound, SlotSound
      <3> QED
        BY <1>0, <3>1, <3>2
    <2>1. SlotTypes'
      BY <1>2, <2>0 DEF ReaderFinishes, SlotInv, SlotTypes
    <2>2. ASSUME NEW j \in Scans PROVE SlotSound(j)'
      BY <1>0, <1>2 DEF ReaderFinishes, SlotInv, SlotTypes, SlotsSound, SlotSound
    <2> QED
      BY <1>2, <2>1, <2>2 DEF ReaderFinishes, SlotInv, SlotTypes
  <1>3. CASE ReaderLeaves(i)
    <2>1. SlotTypes'
      BY <1>0, <1>3 DEF ReaderLeaves, SlotInv, SlotTypes, SlotsSound, SlotSound
    <2>2. ASSUME NEW j \in Scans PROVE SlotSound(j)'
      BY <1>0, <1>3 DEF ReaderLeaves, SlotInv, SlotTypes, SlotsSound, SlotSound
    <2> QED
      BY <1>3, <2>1, <2>2 DEF ReaderLeaves, SlotInv, SlotTypes
  <1>4. CASE TimerDone(i)
    <2>1. SlotTypes'
      BY <1>0, <1>4 DEF TimerDone, SlotInv, SlotTypes, SlotsSound, SlotSound
    <2>2. ASSUME NEW j \in Scans PROVE SlotSound(j)'
      BY <1>0, <1>4 DEF TimerDone, SlotInv, SlotTypes, SlotsSound, SlotSound
    <2> QED
      BY <1>4, <2>1, <2>2 DEF TimerDone, SlotInv, SlotTypes
  <1>5. CASE ScanReturns(i)
    <2>1. SlotTypes'
      BY <1>0, <1>5 DEF ScanReturns, SlotInv, SlotTypes, SlotsSound, SlotSound, scanVars
    <2>2. ASSUME NEW j \in Scans PROVE SlotSound(j)'
      BY <1>0, <1>5 DEF ScanReturns, SlotInv, SlotTypes, SlotsSound, SlotSound, scanVars
    <2> QED
      BY <1>5, <2>1, <2>2 DEF ScanReturns, SlotInv, SlotTypes
  <1> QED
    BY <1>1, <1>2, <1>3, <1>4, <1>5 DEF ScanStep

(* A slot that is handed out has no thread left.                             *)
LEMMA StartKeepsSlots ==
  ASSUME SlotInv, NEW i \in Scans, NEW n \in 1 .. MaxVnas, NEW m \in SweepModes,
         StartSweep(i, n, m)
  PROVE  SlotInv' /\ thread[i] = "none"
  <1>0. MaxVnas \in Nat \ {0} /\ NoScan \notin Scans
    BY TableAssumption, NoScanIsNoSlot
  <1>1. states[i] = -1 /\ joining # i
    BY <1>0 DEF StartSweep, FirstVacant, Vacant
  <1>2. thread[i] = "none" /\ ~sleeping[i]
    BY <1>1 DEF SlotInv, SlotTypes, SlotsSound, SlotSound
  <1>3. SlotTypes'
    BY <1>0 DEF StartSweep, SlotInv, SlotTypes
  <1>4. ASSUME NEW j \in Scans PROVE SlotSound(j)'
    BY <1>0, <1>1, <1>2 DEF StartSweep, SlotInv, SlotTypes, SlotsSound, SlotSound
  <1> QED
    BY <1>2, <1>3, <1>4 DEF SlotInv, SlotsSound

LEMMA StopKeepsSlots ==
  ASSUME SlotInv, NEW i \in Scans, joining = NoScan, BeginStop(i)
  PROVE  SlotInv'
  <1>0. MaxVnas \in Nat \ {0} /\ NoScan \notin Scans
    BY TableAssumption, NoScanIsNoSlot
  <1>1. SlotTypes'
    BY <1>0 DEF BeginStop, SlotInv, SlotTypes, scanVars
  <1>2. ASSUME NEW j \in Scans PROVE SlotSound(j)'
    BY <1>0 DEF BeginStop, SlotInv, SlotTypes, SlotsSound, SlotSound, scanVars
  <1> QED
    BY <1>1, <1>2 DEF SlotInv, SlotsSound

LEMMA JoinKeepsSlots ==
  ASSUME SlotInv, NEW i \in Scans, EndStop(i)
  PROVE  SlotInv' /\ thread'[i] = "none" /\ states'[i] = -1
  <1>0. MaxVnas \in Nat \ {0} /\ NoScan \notin Scans
    BY TableAssumption, NoScanIsNoSlot
  <1>1. SlotTypes'
    BY <1>0 DEF EndStop, ForgetScan, SlotInv, SlotTypes, SweepModes
  <1>2. ASSUME NEW j \in Scans PROVE SlotSound(j)'
    BY <1>0 DEF EndStop, Joined, ForgetScan, SlotInv, SlotTypes, SlotsSound, SlotSound
  <1>3. thread'[i] = "none" /\ states'[i] = -1
    BY DEF EndStop, Joined, SlotInv, SlotTypes
  <1> QED
    BY <1>1, <1>2, <1>3 DEF SlotInv, SlotsSound

LEMMA SlotInvStep == SlotInv /\ [TableStep]_slotVars => SlotInv'
  <1> SUFFICES ASSUME SlotInv, [TableStep]_slotVars PROVE SlotInv'
    OBVIOUS
  <1>1. CASE UNCHANGED slotVars
    BY <1>1 DEF slotVars, scanVars, SlotInv, SlotTypes, SlotsSound, SlotSound
  <1>2. CASE TableStep
    BY <1>2, StartKeepsSlots, StopKeepsSlots, JoinKeepsSlots, ScanKeepsSlots DEF
       TableStep
  <1> QED
    BY <1>1, <1>2

(* A slot in use keeps its place in the table until its thread has been      *)
(* joined: the state of a scan nobody stops is never negative, so that       *)
(* is_running and get_state know of it and start_sweep passes it over.       *)
THEOREM LiveScanAlwaysKnown == Spec => []LiveScanKnown
  <1>1. Init => SlotInv
    BY SlotInvInitially DEF Init
  <1>2. SlotInv /\ [Next]_vars => SlotInv'
    BY StepsOfTable, SlotInvStep
  <1>3. SlotInv => LiveScanKnown
    BY DEF SlotInv, SlotsSound, SlotSound, LiveScanKnown, IsRunning
  <1> QED
    BY <1>1, <1>2, <1>3, PTL DEF Spec

------------------------------------------------------------------------------
(* The count of the scans. *)

LEMMA InUseFinite == IsFiniteSet(InUse) /\ Cardinality(InUse) \in Nat
  <1>1. IsFiniteSet(Scans)
    BY TableAssumption, FS_Interval DEF Scans
  <1>2. InUse \subseteq Scans
    BY DEF InUse
  <1> QED
    BY <1>1, <1>2, FS_Subset, FS_CardinalityType

LEMMA CountedInitially == TableInit => Counted
  <1> SUFFICES ASSUME TableInit PROVE Counted
    OBVIOUS
  <1>1. InUse = {}
    BY NoScanIsNoSlot DEF TableInit, InUse, Vacant
  <1> QED
    BY <1>1, FS_EmptySet DEF TableInit, Counted

LEMMA CountedStep == SlotInv /\ Counted /\ [TableStep]_slotVars => Counted'
  <1> SUFFICES ASSUME SlotInv, Counted, [TableStep]_slotVars PROVE Counted'
    OBVIOUS
  <1>0. /\ NoScan \notin Scans
        /\ states \in [Scans -> -MaxVnas .. MaxVnas]
        /\ IsFiniteSet(InUse) /\ Cardinality(InUse) \in Nat
    BY NoScanIsNoSlot, InUseFinite DEF SlotInv, SlotTypes
  <1>1. CASE UNCHANGED slotVars
    BY <1>1 DEF slotVars, Counted, InUse, Vacant
  <1>2. ASSUME NEW i \in Scans, NEW n \in 1 .. MaxVnas, NEW m \in SweepModes, StartSweep(i, n, m)
        PROVE  Counted'
    <2>1. i \notin InUse
      BY <1>0, <1>2 DEF StartSweep, FirstVacant, InUse
    <2>2. InUse' = InUse \cup {i}
      BY <1>0, <1>2 DEF StartSweep, FirstVacant, InUse, Vacant
    <2>3. Cardinality(InUse') = Cardinality(InUse) + 1
      BY <1>0, <2>1, <2>2, FS_AddElement
    <2> QED
      BY <1>2, <2>3 DEF StartSweep, Counted
  <1>3. ASSUME NEW i \in Scans, BeginStop(i) PROVE Counted'
    <2>1. InUse' = InUse
      BY <1>0, <1>3 DEF BeginStop, InUse, Vacant
    <2> QED
      BY <1>3, <2>1 DEF BeginStop, Counted
  <1>4. ASSUME NEW i \in Scans, EndStop(i) PROVE Counted'
    <2>1. i \in InUse
      BY <1>4 DEF EndStop, InUse
    <2>2. InUse' = InUse \ {i}
      BY <1>0, <1>4 DEF EndStop, InUse, Vacant
    <2>3. Cardinality(InUse') = Cardinality(InUse) - 1
      BY <1>0, <2>1, <2>2, FS_RemoveElement
    <2> QED
      BY <1>4, <2>3 DEF EndStop, OneOngoingLess, Counted
  <1>5. ASSUME NEW i \in Scans, ScanStep(i) PROVE Counted'
    <2>1. /\ UNCHANGED <<joining, ongoing>>
          /\ \A j \in Scans \ {i} : states'[j] = states[j]
          /\ SlotInv' /\ thread[i] # "none" /\ thread'[i] # "none"
      BY <1>5, ScanKeepsSlots
    <2>2. joining # i => states[i] >= 0 /\ states'[i] >= 0
      BY <2>1 DEF SlotInv, SlotsSound, SlotSound
    <2>3. joining # i => ~Vacant(i) /\ ~Vacant(i)'
      BY <2>2 DEF Vacant
    <2>4. InUse' = InUse
      BY <2>1, <2>3 DEF InUse, Vacant
    <2> QED
      BY <2>1, <2>4 DEF Counted
  <1> QED
    BY <1>1, <1>2, <1>3, <1>4, <1>5 DEF TableStep

(* Between two commands ongoing_scans is the number of slots in use, however *)
(* many there are: a slot is vacant as long as the count allows a scan, and  *)
(* none is lost to it by a stop, a failure or a scan that counts down.       *)
THEOREM SlotsAlwaysCounted == Spec => []SlotsCounted
  <1>1. Init => SlotInv /\ Counted
    BY SlotInvInitially, CountedInitially DEF Init
  <1>2. SlotInv /\ Counted /\ [Next]_vars => (SlotInv /\ Counted)'
    BY StepsOfTable, SlotInvStep, CountedStep
  <1>3. SlotInv /\ Counted => SlotsCounted
    <2> SUFFICES ASSUME Counted, joining = NoScan
                 PROVE  ongoing = Cardinality({i \in Scans : ~Vacant(i)})
      BY DEF SlotsCounted
    <2>1. InUse = {i \in Scans : ~Vacant(i)}
      BY NoScanIsNoSlot DEF InUse
    <2> QED
      BY <2>1 DEF Counted
  <1> QED
    BY <1>1, <1>2, <1>3, PTL DEF Spec

(* start_sweep never stores a thread over one that is still to be joined.    *)
THEOREM ThreadsNeverLost == Spec => ThreadsNotLost
  <1>1. Init => SlotInv
    BY SlotInvInitially DEF Init
  <1>2. SlotInv /\ [Next]_vars => SlotInv'
    BY StepsOfTable, SlotInvStep
  <1>3. ASSUME SlotInv, [Next]_vars, NEW j \in Scans, thread'[j] = "starting"
        PROVE  thread[j] \in {"starting", "none"}
    <2>1. CASE UNCHANGED slotVars
      BY <1>3, <2>1 DEF slotVars
    <2>2. ASSUME NEW i \in Scans, NEW n \in 1 .. MaxVnas, NEW m \in SweepModes, StartSweep(i, n, m)
          PROVE  thread[j] \in {"starting", "none"}
      <3>1. thread[i] = "none"
        BY <1>3, <2>2, StartKeepsSlots
      <3>2. i # j => thread'[j] = thread[j]
        BY <1>3, <2>2 DEF StartSweep, SlotInv, SlotTypes
      <3> QED
        BY <1>3, <3>1, <3>2
    <2>3. ASSUME NEW i \in Scans, BeginStop(i) \/ EndStop(i) \/ ScanStep(i)
          PROVE  thread[j] \in {"starting", "none"}
      BY <1>3, <2>3 DEF BeginStop, EndStop, ScanStep, ScanBegins, ReaderFinishes,
         ReaderLeaves, TimerDone, ScanReturns, SlotInv, SlotTypes
    <2> QED
      BY <1>3, <2>1, <2>2, <2>3, StepsOfTable DEF TableStep
  <1>4. SlotInv /\ [Next]_vars =>
          [\A i \in Scans : thread'[i] = "starting" => thread[i] \in {"starting", "none"}]_vars
    BY <1>3
  <1> QED
    BY <1>1, <1>2, <1>4, PTL DEF Spec, ThreadsNotLost

------------------------------------------------------------------------------
(* The parser's own variables. *)

(* args is what set allowed, and a loop over the slots is inside the table.  *)
ParserTypes ==
  /\ args \in [Scans -> 1 .. IntHalf-1]
  /\ stopNext \in 0 .. MaxScans \cup {NoScan}
  /\ status \in {"running", "crashed", "exited"}

ParserInv == SettingsSane /\ SlotInv /\ Counted /\ ParserTypes

LEMMA ParserInvInitially == Init => ParserInv
  <1> SUFFICES ASSUME Init PROVE ParserTypes
    BY SettingsInitially, SlotInvInitially, CountedInitially DEF Init, ParserInv
  <1>1. nbrScans \in 1 .. IntHalf-1
    BY SettingsInitially DEF SettingsSane, SettingsOK
  <1>2. 1 \in 1 .. IntHalf-1
    BY <1>1, SettingsAssumption
  <1> QED
    BY <1>2 DEF Init, ParserTypes

LEMMA ParserInvStep == ParserInv /\ [Next]_vars => ParserInv'
  <1> SUFFICES ASSUME ParserInv, [Next]_vars PROVE ParserTypes'
    BY SettingsStep, StepsOfTable, SlotInvStep, CountedStep DEF ParserInv
  <1>0. /\ MaxScans \in Nat \ {0} /\ Scans = 0 .. MaxScans-1 /\ IntHalf \in Nat
        /\ nbrScans \in 1 .. IntHalf-1 /\ 1 \in 1 .. IntHalf-1
    BY SettingsAssumption, TableAssumption DEF ParserInv, SettingsSane, SettingsOK,
       Scans
  <1>1. args' \in [Scans -> 1 .. IntHalf-1]
    <2>1. \/ UNCHANGED args
          \/ \E i \in Scans, k \in {nbrScans, 1} : args' = [args EXCEPT ![i] = k]
      BY DEF Next, vars, parserVars, Set, StopAll, StopAllEnds, Exit, StartCommand,
         StopCommand, StopAllNext, JoinReturns, JoinCrashes, ScanWorks, ReaderDivides
    <2> QED
      BY <1>0, <2>1 DEF ParserInv, ParserTypes
  <1>2. stopNext' \in 0 .. MaxScans \cup {NoScan}
    <2>1. stopNext' \in {stopNext, 0, NoScan} \/ \E i \in Scans : stopNext' = i + 1
      BY DEF Next, vars, parserVars, Set, StopAll, StopAllEnds, Exit, StartCommand,
         StopCommand, StopAllNext, JoinReturns, JoinCrashes, ScanWorks, ReaderDivides
    <2> QED
      BY <1>0, <2>1 DEF ParserInv, ParserTypes
  <1>3. status' \in {"running", "crashed", "exited"}
    BY DEF ParserInv, ParserTypes, Next, vars, parserVars, Set, StopAll, StopAllEnds,
       Exit, StartCommand, StopCommand, StopAllNext, JoinReturns, JoinCrashes,
       ScanWorks, ReaderDivides
  <1> QED
    BY <1>1, <1>2, <1>3 DEF ParserTypes

LEMMA ParserAlways == Spec => []ParserInv
  BY ParserInvInitially, ParserInvStep, PTL DEF Spec

(* Types, with the count of scans: never more than there are slots.          *)
THEOREM ParserTypeCorrect == Spec => []TypeOK
  <1>1. ASSUME ParserInv PROVE TypeOK
    <2>1. IsFiniteSet(Scans) /\ Cardinality(Scans) = MaxScans /\ MaxScans \in Nat
      BY FS_Interval, TableAssumption DEF Scans
    <2>2. InUse \subseteq Scans
      BY DEF InUse
    <2>3. Cardinality(InUse) <= Cardinality(Scans) /\ Cardinality(InUse) \in Nat
      BY <2>1, <2>2, FS_Subset, FS_CardinalityType
    <2>4. ongoing \in 0 .. MaxScans
      BY <1>1, <2>1, <2>3 DEF ParserInv, Counted
    <2> QED
      BY <1>1, <2>4 DEF ParserInv, ParserTypes, SlotInv, SlotTypes, TypeOK, TableOK,
         SettingsSane
  <1> QED
    BY <1>1, ParserAlways, PTL

(* sweep stop without an id passes a slot only when it is vacant, and none   *)
(* of the slots it has passed is taken again before it ends.                 *)
LEMMA StopAllStep ==
  ParserInv /\ StopAllFrees /\ [Next]_vars => StopAllFrees'
  <1> SUFFICES ASSUME ParserInv, StopAllFrees, [Next]_vars, stopNext' # NoScan,
                      NEW j \in Scans, j < stopNext', joining' # j
               PROVE  states'[j] = -1
    BY DEF StopAllFrees, Vacant
  <1>0. /\ \A i \in Scans : i \in Nat /\ i # NoScan
        /\ stopNext \in Nat \/ stopNext = NoScan
        /\ states \in [Scans -> -MaxVnas .. MaxVnas] /\ MaxVnas \in Nat
        /\ SlotSound(j)
    <2>1. MaxScans \in Nat /\ MaxVnas \in Nat
      BY TableAssumption
    <2>2. \A i \in Scans : i \in Nat /\ i # NoScan
      BY <2>1, NoScanIsNoSlot DEF Scans
    <2>3. stopNext \in Nat \/ stopNext = NoScan
      BY <2>1 DEF ParserInv, ParserTypes
    <2> QED
      BY <2>1, <2>2, <2>3 DEF ParserInv, SlotInv, SlotTypes, SlotsSound
  <1>1. CASE UNCHANGED <<stopNext, slotVars>>
    BY <1>1 DEF StopAllFrees, Vacant, slotVars
  <1>2. CASE StopAll
    BY <1>0, <1>2 DEF StopAll
  <1>3. CASE StopAllEnds
    BY <1>3 DEF StopAllEnds
  <1>4. CASE \E i \in Scans : (\E n \in 1 .. MaxVnas, m \in SweepModes : StartCommand(i, n, m))
                              \/ StopCommand(i)
    BY <1>4 DEF StartCommand, StopCommand, Prompt, parserVars
  <1>5. ASSUME NEW i \in Scans, StopAllNext(i) PROVE states'[j] = -1
    <2>1. joining # j /\ stopNext = i /\ stopNext # NoScan /\ stopNext' = i + 1
      BY <1>0, <1>5 DEF StopAllNext
    <2>2. CASE j < i
      <3>1. states[j] = -1
        BY <2>1, <2>2 DEF StopAllFrees, Vacant
      <3>2. i # j
        BY <1>0, <2>2
      <3>3. states' = [states EXCEPT ![i] = 0] \/ states' = states
        BY <1>5 DEF StopAllNext, BeginStop, slotVars
      <3> QED
        BY <1>0, <3>1, <3>2, <3>3
    <2>3. CASE j = i
      <3>1. ~IsRunning(i) /\ UNCHANGED states
        BY <1>5, <2>3 DEF StopAllNext, BeginStop, slotVars
      <3>2. states[i] >= -1
        BY <1>0, <2>1, <2>3 DEF SlotSound
      <3> QED
        BY <1>0, <2>3, <3>1, <3>2 DEF IsRunning
    <2> QED
      BY <1>0, <2>1, <2>2, <2>3
  <1>6. ASSUME NEW i \in Scans, JoinReturns(i) PROVE states'[j] = -1
    <2>1. joining = i /\ UNCHANGED stopNext /\ states' = [states EXCEPT ![i] = -1]
      BY <1>6 DEF JoinReturns, EndStop
    <2>2. j # i => states[j] = -1
      BY <2>1 DEF StopAllFrees, Vacant
    <2> QED
      BY <1>0, <2>1, <2>2
  <1>7. ASSUME NEW i \in Scans, ScanWorks(i) PROVE states'[j] = -1
    <2>1. ScanStep(i) /\ SlotInv /\ UNCHANGED stopNext
      BY <1>7 DEF ScanWorks, ParserInv, parserVars
    <2>2. /\ UNCHANGED joining /\ thread[i] # "none"
          /\ j # i => states'[j] = states[j]
      BY <2>1, ScanKeepsSlots
    <2>3. states[j] = -1
      BY <2>1, <2>2 DEF StopAllFrees, Vacant
    <2>4. j # i
      BY <1>0, <2>2, <2>3 DEF SlotSound
    <2> QED
      BY <2>2, <2>3, <2>4
  <1> QED
    BY <1>1, <1>2, <1>3, <1>4, <1>5, <1>6, <1>7 DEF Next, vars, parserVars, Set, Exit,
       JoinCrashes, ReaderDivides

(* sweep stop without an id leaves no scan behind, though the scans go on    *)
(* while it waits for one after the other.                                   *)
THEOREM StopAllAlwaysFrees == Spec => []StopAllFrees
  <1>1. Init => StopAllFrees
    BY DEF Init, StopAllFrees
  <1> QED
    BY <1>1, ParserAlways, StopAllStep, PTL DEF Spec
==============================================================================

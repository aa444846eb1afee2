--------------------------- MODULE PortTableProofs ---------------------------
(***************************************************************************)
(* What the table of ports keeps for every number of entries, every set of *)
(* devices and every set of calls that fail, with SIGINT at any step; and, *)
(* of the table in use, when a reader can rely on its line, for every      *)
(* number of readers.                                                      *)
(***************************************************************************)
EXTENDS VnaUse, FiniteSetTheorems, SequenceTheorems, TLAPS

------------------------------------------------------------------------------
(* The inductive invariant of the table. *)

(* Types; the bounds of total follow from Counted.                           *)
PortTypes ==
  /\ ready \in BOOLEAN
  /\ names \in [Slots -> Paths \cup {NONE}]
  /\ fds \in [Slots -> Paths \cup {NONE}]
  /\ saved \in [Slots -> Paths \cup {RAW, NONE}]
  /\ tty \in [Paths -> Paths \cup {RAW, NONE}]
  /\ opened \subseteq Paths /\ lost \subseteq Paths
  /\ pc \in {"initialise", "idle", "add", "opened", "testing", "closed", "teardown"}
  /\ path \in Paths \cup {NONE}
  /\ slot \in Slots
  /\ again \in BOOLEAN
  /\ todo \subseteq Paths
  /\ resetting \in BOOLEAN
  /\ status \in {"running", "crashed", "starved", "killed", "exited"}

(* What is known of the command under way.                                   *)
JobSound ==
  /\ pc \in {"add", "opened", "testing"} => path \in Paths
  /\ pc = "testing" => fds[slot] = path
  /\ pc = "closed" => slot \in Connected
  /\ ~ready => Connected = {} /\ pc \in {"initialise", "idle", "add"}
  /\ pc = "initialise" => ~ready

(* The entry that is being tested is not counted and has no name yet.        *)
Counted ==
  /\ pc = "testing" => total = Cardinality(Connected) - 1
  /\ pc # "testing" => total = Cardinality(Connected)

Named == \A i \in Slots : names[i] = IF pc = "testing" /\ i = slot THEN NONE ELSE fds[i]

(* Descriptors outside the table: one just opened; one just closed, in it.   *)
PortsHeld ==
  /\ pc \notin {"opened", "closed"} => opened = Held
  /\ pc = "opened" => opened = Held \cup {path} /\ path \notin Held
  /\ pc = "closed" => opened = Held \ {fds[slot]}

HeldOnce == \A i, j \in Connected : fds[i] = fds[j] => i = j

(* The settings in the table are those its own port had before it was opened.*)
SavedOwn ==
  /\ \A i \in Connected : fds[i] \in opened => saved[i] = Own(fds[i])
  /\ pc = "opened" => total \in Slots /\ FirstFree(total) /\ saved[total] = Own(path)

(* A port is raw as long as it is open, and has settings to come back to.    *)
TtyKnown == \A p \in Paths : tty[p] = IF p \in opened THEN RAW ELSE Own(p)

EntriesSound == JobSound /\ Counted /\ Named /\ HeldOnce /\ SavedOwn
TableInv == EntriesSound /\ PortsHeld /\ TtyKnown

EndsClean ==
  /\ status = "killed" /\ pc # "opened" => \A p \in Paths : tty[p] = Own(p)
  /\ status = "exited" => \A p \in Paths : tty[p] = IF p \in Held THEN RAW ELSE Own(p)

PortInv == PortTypes /\ EntriesSound /\ (Alive => TableInv) /\ EndsClean /\ CrashNeedsHole

------------------------------------------------------------------------------
(* Facts about the table. *)

(* A set of numbers below a bound has a least element.                       *)
LEMMA Least ==
  ASSUME NEW n \in Nat, NEW T \in SUBSET (0 .. n-1), T # {}
  PROVE  \E m \in T : \A k \in T : m <= k
  <1> DEFINE S == 0 .. n-1
             R == StrictSubsetOrdering(S)
             Below == {0 .. k-1 : k \in T}
  <1>1. IsWellFoundedOn(R, FiniteSubsetsOf(S))
    BY FS_StrictSubsetOrderingWellFounded
  <1>2. ASSUME NEW k \in T PROVE (0 .. k-1) \in FiniteSubsetsOf(S)
    <2>1. IsFiniteSet(0 .. k-1)
      BY FS_Interval
    <2> QED
      BY <2>1 DEF FiniteSubsetsOf
  <1>3. Below \subseteq FiniteSubsetsOf(S) /\ Below # {}
    BY <1>2
  <1>4. PICK B \in Below : \A C \in Below : <<C, B>> \notin R
    <2> HIDE DEF Below, R, S
    <2> QED
      BY <1>1, <1>3, WFMin
  <1>5. PICK m \in T : B = 0 .. m-1
    OBVIOUS
  <1>6. ASSUME NEW k \in T, k < m PROVE FALSE
    <2> DEFINE X == 0 .. k-1  Y == 0 .. m-1
    <2>1. X \subseteq Y /\ X # Y
      <3>1. k \in Y /\ k \notin X
        BY <1>6
      <3> QED
        BY <1>6, <3>1
    <2>2. X \in SUBSET S /\ Y \in SUBSET S
      OBVIOUS
    <2>3. <<X, Y>> \in R
      <3> HIDE DEF X, Y, S
      <3> QED
        BY <2>1, <2>2 DEF StrictSubsetOrdering
    <2>4. X \in Below
      OBVIOUS
    <2> HIDE DEF X, Y, R, Below
    <2> QED
      BY <1>4, <1>5, <2>3, <2>4 DEF Y
  <1> QED
    BY <1>6

LEMMA UpTo ==
  ASSUME NEW n \in Nat PROVE IsFiniteSet(0 .. n-1) /\ Cardinality(0 .. n-1) = n
  <1>1. 0 \in Int /\ n-1 \in Int
    OBVIOUS
  <1>2. Cardinality(0 .. n-1) = IF 0 > n-1 THEN 0 ELSE (n-1) - 0 + 1
    BY ONLY <1>1, FS_Interval
  <1>3. IsFiniteSet(0 .. n-1)
    BY ONLY <1>1, FS_Interval
  <1> QED
    BY <1>2, <1>3

LEMMA SlotsFinite ==
  /\ MaxPorts \in Nat \ {0}
  /\ Slots = 0 .. MaxPorts-1
  /\ IsFiniteSet(Slots) /\ Cardinality(Slots) = MaxPorts
  /\ IsFiniteSet(Connected)
  /\ Cardinality(Connected) \in 0 .. MaxPorts
  <1>1. MaxPorts \in Nat \ {0} /\ Slots = 0 .. MaxPorts-1
    BY PortAssumption DEF Slots
  <1>2. IsFiniteSet(Slots) /\ Cardinality(Slots) = MaxPorts
    BY <1>1, UpTo
  <1>3. Connected \subseteq Slots
    BY DEF Connected
  <1>4. IsFiniteSet(Connected) /\ Cardinality(Connected) <= Cardinality(Slots)
    BY <1>2, <1>3, FS_Subset
  <1> QED
    BY <1>1, <1>2, <1>4, FS_CardinalityType

(* A NULL name before the end of the list is a hole: there are as many       *)
(* entries in use as the list is long, so one of them lies behind it.        *)
LEMMA NullIsHole ==
  ASSUME PortTypes, TableInv, pc # "testing", NEW p, ReadsNull(p)
  PROVE  \E i, j \in Slots : i < j /\ fds[i] = NONE /\ fds[j] # NONE
  <1>1. PICK i \in Slots : i < total /\ fds[i] = NONE
    BY DEF ReadsNull, EmptyNames, TableInv, EntriesSound, Named
  <1>2. total = Cardinality(Connected)
    BY DEF TableInv, EntriesSound, Counted
  <1>3. i \in Nat
    BY SlotsFinite
  <1>4. ASSUME \A j \in Slots : i < j => fds[j] = NONE PROVE FALSE
    <2>1. Connected \subseteq 0 .. i-1
      BY <1>1, <1>3, <1>4, SlotsFinite DEF Connected
    <2>2. IsFiniteSet(0 .. i-1) /\ Cardinality(0 .. i-1) = i
      BY <1>3, UpTo
    <2>3. Cardinality(Connected) <= i
      BY <2>1, <2>2, FS_Subset
    <2> QED
      BY <1>1, <1>2, <1>3, <2>3, SlotsFinite
  <1> QED
    BY <1>1, <1>4

(* A path that is looked for in vain, without meeting a NULL name, finds the *)
(* list full up to total and itself not in it.                               *)
LEMMA NotFound ==
  ASSUME PortTypes, TableInv, pc # "testing", NEW p \in Paths, ~Listed(p), ~ReadsNull(p)
  PROVE  Connected = 0 .. total-1 /\ p \notin Held
  <1>1. total = Cardinality(Connected) /\ total \in Nat /\ total <= MaxPorts
    BY SlotsFinite DEF TableInv, EntriesSound, Counted
  <1>2. \A i \in Slots : names[i] = fds[i] /\ i \in Nat
    BY SlotsFinite DEF TableInv, EntriesSound, Named
  <1> DEFINE T == Matches(p) \cup EmptyNames(p)
  <1>3. T = {}
    <2> SUFFICES ASSUME T # {} PROVE FALSE
      OBVIOUS
    <2>1. T \in SUBSET (0 .. total-1)
      BY <1>1, SlotsFinite DEF Matches, EmptyNames
    <2>2. PICK m \in T : \A k \in T : m <= k
      <3> HIDE DEF T
      <3> QED
        BY <1>1, <2>1, Least
    <2>3. Matches(p) \cap EmptyNames(p) = {}
      BY PortAssumption DEF Matches, EmptyNames
    <2>4. \A k \in T : m # k => m < k
      BY <2>1, <2>2
    <2>5. CASE m \in Matches(p)
      BY <2>3, <2>4, <2>5 DEF Listed
    <2>6. CASE m \in EmptyNames(p)
      BY <2>3, <2>4, <2>6 DEF ReadsNull
    <2> QED
      BY <2>5, <2>6
  <1>4. 0 .. total-1 \subseteq Connected
    <2> SUFFICES ASSUME NEW i \in 0 .. total-1 PROVE i \in Connected
      OBVIOUS
    <2>1. i \in Slots /\ i < total
      BY <1>1, SlotsFinite
    <2> QED
      BY <1>2, <1>3, <2>1 DEF EmptyNames, Connected
  <1>5. Connected = 0 .. total-1
    <2>1. Cardinality(0 .. total-1) = total
      BY <1>1, UpTo
    <2> QED
      BY <1>1, <1>4, <2>1, SlotsFinite, FS_Subset
  <1>6. ASSUME NEW i \in Connected PROVE fds[i] # p
    <2>1. i \in Slots /\ i < total
      BY <1>1, <1>5 DEF Connected
    <2> QED
      BY <1>2, <1>3, <2>1 DEF Matches
  <1> QED
    BY <1>5, <1>6 DEF Held

------------------------------------------------------------------------------
(* One step. *)

LEMMA PortInvInitially == Init => PortInv
  <1> SUFFICES ASSUME Init PROVE PortInv
    OBVIOUS
  <1>1. 0 \in Slots
    BY SlotsFinite
  <1>2. Connected = {} /\ Held = {}
    BY DEF Init, Connected, Held, Empty
  <1>3. PortTypes
    BY <1>1 DEF Init, PortTypes, Empty
  <1>4. TableInv
    BY <1>2, FS_EmptySet DEF Init, TableInv, EntriesSound, JobSound, Counted, Named,
       PortsHeld, HeldOnce, SavedOwn, TtyKnown, Own, Empty
  <1> QED
    BY <1>3, <1>4 DEF Init, PortInv, TableInv, EndsClean, CrashNeedsHole

(* A step after which the process goes on.                                   *)
LEMMA GoesOn == ASSUME PortTypes', TableInv', status' = "running" PROVE PortInv'
  BY DEF PortInv, TableInv, EndsClean, CrashNeedsHole

(* add_vna has failed: the command is done, or the port is tried once more.  *)
LEMMA AddFailsDoes ==
  ASSUME PortTypes, status = "running", AddFails
  PROVE  /\ pc' \in {"idle", "add"} /\ status' = "running"
         /\ pc' = "add" => path' = path
         /\ path' \in Paths \cup {NONE} /\ slot' \in Slots /\ again' \in BOOLEAN
         /\ todo' \subseteq Paths /\ resetting' \in BOOLEAN
  <1>1. 0 \in Slots
    BY SlotsFinite
  <1>2. CASE Done
    BY <1>1, <1>2, Zenon DEF Done, PortTypes
  <1>3. CASE pc' = "add" /\ again' = FALSE /\ UNCHANGED <<path, slot, todo, resetting, status>>
    BY <1>3 DEF PortTypes
  <1> QED
    BY <1>2, <1>3 DEF AddFails

(* Steps of the command thread between two that touch tables or ports.       *)
LEMMA QuietStep ==
  ASSUME PortInv, status = "running", UNCHANGED <<tableVars, portVars, status>>, PortTypes',
         pc \in {"idle", "add"}, pc' \in {"idle", "add", "teardown"},
         pc' = "add" => path' \in Paths, pc' = "teardown" => ready
  PROVE  PortInv'
  <1>1. /\ TableInv /\ UNCHANGED <<ready, names, fds, saved, total, tty, opened, lost>>
        /\ UNCHANGED Connected /\ UNCHANGED Held
    BY DEF PortInv, Alive, tableVars, portVars, Connected, Held
  <1>2. TableInv'
    BY <1>1 DEF TableInv, EntriesSound, JobSound, Counted, Named, PortsHeld, HeldOnce,
       SavedOwn, TtyKnown, Own
  <1> QED
    BY <1>2, GoesOn

(* The process dies: of a NULL name, that is of a hole, without arrays, or   *)
(* of a list that was not allocated.                                         *)
LEMMA DeathStep ==
  ASSUME PortInv, status = "running", NEW how \in {"crashed", "starved"}, Ends(how),
         how = "starved" \/ ~ready \/ ((\E p : ReadsNull(p)) /\ pc # "testing")
  PROVE  PortInv'
  <1>1. /\ PortTypes /\ TableInv
        /\ UNCHANGED <<tableVars, portVars, pc, jobVars, resetting>> /\ status' = how
    BY DEF PortInv, Alive, Ends
  <1>2. PortTypes'
    BY <1>1 DEF PortTypes, tableVars, portVars, jobVars, Connected
  <1>3. TableInv'
    BY <1>1 DEF TableInv, EntriesSound, JobSound, Counted, Named, PortsHeld, HeldOnce,
       SavedOwn, TtyKnown, Own, tableVars, portVars, jobVars, Connected, Held, FirstFree
  <1>4. CrashNeedsHole'
    <2>1. ready /\ how = "crashed" =>
            \E i, j \in Slots : i < j /\ fds[i] = NONE /\ fds[j] # NONE
      BY <1>1, NullIsHole
    <2> QED
      BY <1>1, <2>1 DEF CrashNeedsHole, tableVars
  <1> QED
    BY <1>1, <1>2, <1>3, <1>4 DEF PortInv, TableInv, EndsClean

LEMMA CrashStep ==
  ASSUME PortInv, status = "running", Crash,
         ~ready \/ ((\E p : ReadsNull(p)) /\ pc # "testing")
  PROVE  PortInv'
  <1>1. Ends("crashed")
    BY DEF Crash
  <1> QED
    BY <1>1, DeathStep

LEMMA InitialiseStep ==
  ASSUME PortInv, status = "running", InitialisePortArray PROVE PortInv'
  <1>1. PortTypes /\ TableInv /\ Connected = {} /\ ~ready /\ total = 0 /\ opened = {}
    BY FS_EmptySet DEF PortInv, Alive, TableInv, EntriesSound, JobSound, Counted,
       PortsHeld, Held, InitialisePortArray
  <1>2. Connected' = {} /\ Held' = {} /\ total' = 0
    BY <1>1 DEF InitialisePortArray, Connected, Held, Empty
  <1>3. PortTypes'
    BY <1>1 DEF InitialisePortArray, PortTypes, Empty, portVars, jobVars
  <1>4. TableInv'
    BY <1>1, <1>2, FS_EmptySet DEF InitialisePortArray, TableInv, EntriesSound,
       JobSound, Counted, Named, PortsHeld, HeldOnce, SavedOwn, TtyKnown, Own, Empty,
       portVars, jobVars
  <1> QED
    BY <1>3, <1>4, GoesOn DEF InitialisePortArray

(* A port that may be opened is not in the table, and index total_vnas, at   *)
(* which its settings are stored, is that of the first free entry.           *)
LEMMA RoomAtTotal ==
  ASSUME PortInv, status = "running", MayOpen
  PROVE  /\ path \in Paths /\ path \notin Held /\ opened = Held
         /\ total \in Slots /\ FirstFree(total)
         /\ tty[path] = Own(path)
         /\ \A i \in Connected : i # total
  <1>1. PortTypes /\ TableInv /\ pc = "add" /\ path \in Paths
    BY DEF PortInv, Alive, TableInv, EntriesSound, JobSound, MayOpen
  <1>2. Connected = 0 .. total-1 /\ path \notin Held
    BY <1>1, NotFound DEF MayOpen, Refused
  <1>3. total \in Nat /\ total < MaxPorts
    BY <1>1, SlotsFinite DEF TableInv, EntriesSound, Counted, MayOpen, Refused
  <1>4. total \in Slots /\ FirstFree(total)
    <2>1. total \in Slots /\ total \notin Connected
      BY <1>2, <1>3, SlotsFinite
    <2>2. \A j \in Slots : j < total => j \in Connected
      BY <1>2, <1>3, SlotsFinite
    <2> QED
      BY <2>1, <2>2 DEF FirstFree, Connected
  <1>5. opened = Held
    BY <1>1 DEF TableInv, EntriesSound, PortsHeld
  <1>6. tty[path] = Own(path)
    BY <1>1, <1>2, <1>5 DEF TableInv, EntriesSound, TtyKnown, Own
  <1> QED
    BY <1>1, <1>2, <1>3, <1>4, <1>5, <1>6

LEMMA OpenFailsStep ==
  ASSUME PortInv, status = "running", OpenFails PROVE PortInv'
  <1>1. PortTypes /\ TableInv /\ pc = "add" /\ MayOpen
    BY DEF PortInv, Alive, OpenFails, MayOpen
  <1>2. /\ total \in Slots /\ path \in Paths /\ tty[path] = Own(path)
        /\ \A i \in Connected : i # total
    BY <1>1, RoomAtTotal
  <1>3. /\ UNCHANGED <<ready, names, fds, total, tty, opened, lost>>
        /\ saved' = saved \/ saved' = [saved EXCEPT ![total] = tty[path]]
        /\ UNCHANGED Connected /\ UNCHANGED Held
    <2>1. /\ UNCHANGED <<ready, names, fds, total, tty, opened, lost>>
          /\ saved' = saved \/ saved' = [saved EXCEPT ![total] = tty[path]]
      BY DEF OpenFails, portVars
    <2> QED
      BY <2>1 DEF Connected, Held
  <1>4. /\ pc' \in {"idle", "add"} /\ status' = "running"
        /\ pc' = "add" => path' = path
        /\ path' \in Paths \cup {NONE} /\ slot' \in Slots /\ again' \in BOOLEAN
        /\ todo' \subseteq Paths /\ resetting' \in BOOLEAN
    BY <1>1, AddFailsDoes DEF OpenFails
  <1>5. PortTypes'
    BY <1>1, <1>2, <1>3, <1>4 DEF PortTypes
  <1>6. \A i \in Connected : saved'[i] = saved[i]
    BY <1>1, <1>2, <1>3 DEF PortTypes, Connected
  <1>7. TableInv'
    BY <1>1, <1>2, <1>3, <1>4, <1>6 DEF TableInv, EntriesSound, JobSound, Counted,
       Named, PortsHeld, HeldOnce, SavedOwn, TtyKnown, Own
  <1> QED
    BY <1>4, <1>5, <1>7, GoesOn

LEMMA OpenSerialStep ==
  ASSUME PortInv, status = "running", OpenSerial PROVE PortInv'
  <1>1. PortTypes /\ TableInv /\ pc = "add" /\ MayOpen /\ ready
    BY DEF PortInv, Alive, OpenSerial, MayOpen
  <1>2. /\ path \in Paths /\ path \notin Held /\ opened = Held
        /\ total \in Slots /\ FirstFree(total) /\ tty[path] = Own(path)
        /\ \A i \in Connected : i # total
    BY <1>1, RoomAtTotal
  <1>3. /\ UNCHANGED <<ready, names, fds, total, lost, path, slot, again, todo, resetting, status>>
        /\ UNCHANGED Connected /\ UNCHANGED Held
        /\ saved' = [saved EXCEPT ![total] = tty[path]]
        /\ tty' = [tty EXCEPT ![path] = RAW]
        /\ opened' = opened \cup {path} /\ pc' = "opened"
    BY <1>2 DEF OpenSerial, jobVars, Connected, Held
  <1>4. PortTypes'
    BY <1>1, <1>2, <1>3 DEF PortTypes
  <1>5. SavedOwn'
    <2>1. \A i \in Connected : saved'[i] = saved[i]
      BY <1>1, <1>2, <1>3 DEF PortTypes, Connected
    <2>2. saved'[total] = Own(path)
      BY <1>1, <1>2, <1>3 DEF PortTypes
    <2>3. FirstFree(total)'
      BY <1>2, <1>3 DEF FirstFree
    <2>4. \A i \in Connected : fds[i] \in opened
      BY <1>2 DEF Held
    <2> QED
      BY <1>1, <1>2, <1>3, <2>1, <2>2, <2>3, <2>4 DEF TableInv, EntriesSound, SavedOwn, Own
  <1>6. TtyKnown'
    BY <1>1, <1>2, <1>3 DEF TableInv, EntriesSound, TtyKnown, Own, PortTypes
  <1>7. (JobSound /\ Counted /\ Named /\ PortsHeld /\ HeldOnce)'
    BY <1>1, <1>2, <1>3 DEF TableInv, EntriesSound, JobSound, Counted, Named, PortsHeld,
       HeldOnce
  <1> QED
    BY <1>3, <1>4, <1>5, <1>6, <1>7, GoesOn DEF TableInv, EntriesSound

LEMMA RegisterStep ==
  ASSUME PortInv, status = "running", NEW i \in Slots, Register(i) PROVE PortInv'
  <1>1. /\ PortTypes /\ TableInv /\ pc = "opened" /\ FirstFree(i) /\ ready
        /\ path \in Paths /\ path # NONE
    BY PortAssumption DEF PortInv, Alive, Register, TableInv, EntriesSound, JobSound
  <1>2. i = total
    BY <1>1, SlotsFinite DEF TableInv, EntriesSound, SavedOwn, FirstFree
  <1>3. /\ UNCHANGED <<ready, names, saved, total, tty, opened, lost, path, again, todo, resetting,
                       status>>
        /\ fds' = [fds EXCEPT ![i] = path] /\ slot' = i /\ pc' = "testing"
    BY DEF Register, portVars
  <1>4. i \notin Connected /\ Connected' = Connected \cup {i}
    BY <1>1, <1>3 DEF FirstFree, Connected, PortTypes
  <1>5. /\ fds'[i] = path /\ \A j \in Slots \ {i} : fds'[j] = fds[j]
        /\ \A j \in Connected : fds'[j] = fds[j]
    BY <1>1, <1>3, <1>4 DEF PortTypes, Connected
  <1>6. Held' = Held \cup {path}
    BY <1>4, <1>5 DEF Held
  <1>7. PortTypes'
    BY <1>1, <1>3 DEF PortTypes
  <1>8. Counted'
    <2>1. Cardinality(Connected') = Cardinality(Connected) + 1
      BY <1>4, SlotsFinite, FS_AddElement
    <2> QED
      BY <1>1, <1>3, <2>1, SlotsFinite DEF TableInv, EntriesSound, Counted
  <1>9. Named'
    BY <1>1, <1>3, <1>5 DEF TableInv, EntriesSound, Named, FirstFree
  <1>10. (PortsHeld /\ HeldOnce)'
    BY <1>1, <1>3, <1>4, <1>5, <1>6 DEF TableInv, EntriesSound, PortsHeld, HeldOnce,
       Held
  <1>11. (SavedOwn /\ TtyKnown /\ JobSound)'
    BY <1>1, <1>2, <1>3, <1>4, <1>5 DEF TableInv, EntriesSound, SavedOwn, TtyKnown, Own,
       JobSound
  <1> QED
    BY <1>3, <1>7, <1>8, <1>9, <1>10, <1>11, GoesOn DEF TableInv, EntriesSound

LEMMA TestPassesStep ==
  ASSUME PortInv, status = "running", TestPasses PROVE PortInv'
  <1>1. /\ PortTypes /\ TableInv /\ pc = "testing" /\ path \in Paths /\ path # NONE
        /\ fds[slot] = path /\ slot \in Slots
    BY PortAssumption DEF PortInv, Alive, TestPasses, TableInv, EntriesSound, JobSound,
       PortTypes
  <1>2. /\ UNCHANGED <<ready, fds, saved, tty, opened, lost, todo, resetting, status>>
        /\ names' = [names EXCEPT ![slot] = path] /\ total' = total + 1
        /\ pc' = "idle" /\ path' = NONE /\ slot' = 0 /\ again' = FALSE
        /\ UNCHANGED Connected /\ UNCHANGED Held
    BY DEF TestPasses, Done, portVars, Connected, Held
  <1>3. PortTypes'
    <2>1. 0 \in Slots
      BY SlotsFinite
    <2>2. names' \in [Slots -> Paths \cup {NONE}]
      BY <1>1, <1>2 DEF PortTypes
    <2> QED
      BY <1>1, <1>2, <2>1, <2>2 DEF PortTypes
  <1>4. (JobSound /\ Named /\ PortsHeld /\ HeldOnce /\ SavedOwn /\ TtyKnown)'
    BY <1>1, <1>2 DEF TableInv, EntriesSound, JobSound, Named, PortsHeld, HeldOnce,
       SavedOwn, TtyKnown, Own, PortTypes
  <1>5. Counted'
    BY <1>1, <1>2, SlotsFinite DEF TableInv, EntriesSound, Counted
  <1> QED
    BY <1>2, <1>3, <1>4, <1>5, GoesOn DEF TableInv, EntriesSound

(* A port that is closed has its own settings back, or will be raw for ever. *)
LEMMA RestoredOrLost ==
  ASSUME PortTypes, TableInv, NEW i \in Connected, fds[i] \in opened, RestoreSerial(i),
         opened' = opened \ {fds[i]}
  PROVE  /\ TtyKnown' /\ tty' \in [Paths -> Paths \cup {RAW, NONE}] /\ lost' \subseteq Paths
         /\ lost \subseteq lost' /\ lost' \subseteq lost \cup {fds[i]}
  <1>1. /\ fds[i] \in Paths /\ saved[i] = Own(fds[i]) /\ tty[fds[i]] = RAW
        /\ \A p \in Paths : tty[p] = IF p \in opened THEN RAW ELSE Own(p)
    BY DEF PortTypes, TableInv, EntriesSound, SavedOwn, TtyKnown
  <1>2. CASE tty' = Restored(i) /\ UNCHANGED lost
    <2>1. /\ tty'[fds[i]] = Own(fds[i]) /\ \A p \in Paths \ {fds[i]} : tty'[p] = tty[p]
          /\ tty' \in [Paths -> Paths \cup {RAW, NONE}]
      BY <1>1, <1>2 DEF Restored, PortTypes, Own
    <2> QED
      BY <1>1, <1>2, <2>1 DEF TtyKnown, Own, PortTypes
  <1>3. CASE UNCHANGED tty /\ lost' = lost \cup {fds[i]}
    BY <1>1, <1>3 DEF TtyKnown, Own, PortTypes
  <1> QED
    BY <1>2, <1>3 DEF RestoreSerial

(* An entry whose port is closed goes, and no other.                         *)
LEMMA EntryGoes ==
  ASSUME PortTypes, HeldOnce, NEW i \in Connected, fds' = [fds EXCEPT ![i] = NONE]
  PROVE  /\ Connected' = Connected \ {i} /\ Held' = Held \ {fds[i]} /\ HeldOnce'
         /\ \A j \in Slots \ {i} : fds'[j] = fds[j]
         /\ Cardinality(Connected') = Cardinality(Connected) - 1
  <1>1. i \in Slots /\ fds[i] # NONE
    BY DEF Connected
  <1>2. fds'[i] = NONE /\ \A j \in Slots \ {i} : fds'[j] = fds[j]
    BY <1>1 DEF PortTypes
  <1>3. Connected' = Connected \ {i}
    BY <1>1, <1>2 DEF Connected
  <1>4. \A j \in Connected' : j \in Connected /\ fds'[j] = fds[j] /\ j # i
    BY <1>2, <1>3 DEF Connected
  <1>5. \A j \in Connected : j # i => j \in Connected' /\ fds[j] # fds[i]
    BY <1>3 DEF HeldOnce
  <1>6. Held' = Held \ {fds[i]}
    BY <1>4, <1>5 DEF Held
  <1>7. HeldOnce'
    BY <1>4 DEF HeldOnce
  <1>8. Cardinality(Connected') = Cardinality(Connected) - 1
    BY <1>3, SlotsFinite, FS_RemoveElement
  <1> QED
    BY <1>2, <1>3, <1>6, <1>7, <1>8

LEMMA TestFailsStep ==
  ASSUME PortInv, status = "running", TestFails PROVE PortInv'
  <1>1. /\ PortTypes /\ TableInv /\ pc = "testing" /\ path \in Paths /\ path # NONE
        /\ fds[slot] = path /\ slot \in Slots /\ slot \in Connected /\ opened = Held
    BY PortAssumption DEF PortInv, Alive, TestFails, TableInv, EntriesSound, JobSound,
       PortTypes, PortsHeld, Connected
  <1>2. /\ UNCHANGED <<ready, names, saved, total>> /\ RestoreSerial(slot)
        /\ opened' = opened \ {path} /\ fds' = [fds EXCEPT ![slot] = NONE]
    BY DEF TestFails
  <1>3. /\ pc' \in {"idle", "add"} /\ status' = "running"
        /\ pc' = "add" => path' = path
        /\ path' \in Paths \cup {NONE} /\ slot' \in Slots /\ again' \in BOOLEAN
        /\ todo' \subseteq Paths /\ resetting' \in BOOLEAN
    BY <1>1, AddFailsDoes DEF TestFails
  <1>4. /\ Connected' = Connected \ {slot} /\ Held' = Held \ {path} /\ HeldOnce'
        /\ \A j \in Slots \ {slot} : fds'[j] = fds[j]
        /\ Cardinality(Connected') = Cardinality(Connected) - 1
    BY <1>1, <1>2, EntryGoes DEF TableInv, EntriesSound
  <1>5. /\ TtyKnown' /\ tty' \in [Paths -> Paths \cup {RAW, NONE}] /\ lost' \subseteq Paths
        /\ lost \subseteq lost' /\ lost' \subseteq lost \cup {path}
    <2>1. fds[slot] \in opened
      BY <1>1 DEF Held
    <2> QED
      BY <1>1, <1>2, <2>1, RestoredOrLost
  <1>6. PortTypes'
    BY <1>1, <1>2, <1>3, <1>5 DEF PortTypes
  <1>7. fds'[slot] = NONE
    BY <1>1, <1>2 DEF PortTypes
  <1>8. (JobSound /\ Counted /\ Named /\ PortsHeld)'
    BY <1>1, <1>2, <1>3, <1>4, <1>7 DEF TableInv, EntriesSound, JobSound, Counted,
       Named, PortsHeld
  <1>9. SavedOwn'
    <2>1. \A i \in Connected' : i \in Connected /\ fds'[i] = fds[i]
      BY <1>4 DEF Connected
    <2>2. \A i \in Connected' : fds'[i] \in opened' => fds[i] \in opened /\ fds[i] # path
      BY <1>2, <2>1
    <2> QED
      BY <1>1, <1>2, <1>3, <1>5, <2>1, <2>2 DEF TableInv, EntriesSound, SavedOwn, Own
  <1> QED
    BY <1>3, <1>4, <1>5, <1>6, <1>8, <1>9, GoesOn DEF TableInv, EntriesSound

LEMMA CloseEntryStep ==
  ASSUME PortInv, status = "running", pc \in {"idle", "teardown"}, NEW i \in Connected,
         CloseEntry(i), UNCHANGED resetting
  PROVE  PortInv'
  <1>1. /\ PortTypes /\ TableInv /\ i \in Slots /\ fds[i] # NONE /\ fds[i] \in Paths
        /\ opened = Held /\ ready
    BY DEF PortInv, Alive, TableInv, EntriesSound, JobSound, PortTypes, PortsHeld, Connected
  <1>2. /\ UNCHANGED <<ready, names, fds, saved, total, path, again, todo, status, resetting>>
        /\ RestoreSerial(i)
        /\ opened' = opened \ {fds[i]} /\ slot' = i /\ pc' = "closed"
        /\ UNCHANGED Connected /\ UNCHANGED Held
    BY <1>1 DEF CloseEntry, tableVars, Connected, Held
  <1>3. /\ TtyKnown' /\ tty' \in [Paths -> Paths \cup {RAW, NONE}] /\ lost' \subseteq Paths
        /\ lost \subseteq lost' /\ lost' \subseteq lost \cup {fds[i]}
    <2>1. fds[i] \in opened
      BY <1>1 DEF Held
    <2> QED
      BY <1>1, <1>2, <2>1, RestoredOrLost
  <1>4. PortTypes'
    BY <1>1, <1>2, <1>3 DEF PortTypes
  <1>5. (JobSound /\ Counted /\ Named /\ PortsHeld /\ HeldOnce)'
    BY <1>1, <1>2 DEF TableInv, EntriesSound, JobSound, Counted, Named, PortsHeld,
       HeldOnce
  <1>6. SavedOwn'
    BY <1>1, <1>2, <1>3 DEF TableInv, EntriesSound, SavedOwn, Own
  <1> QED
    BY <1>2, <1>3, <1>4, <1>5, <1>6, GoesOn DEF TableInv, EntriesSound

LEMMA ClearEntryStep ==
  ASSUME PortInv, status = "running", ClearEntry PROVE PortInv'
  <1>1. /\ PortTypes /\ TableInv /\ pc = "closed" /\ slot \in Slots /\ slot \in Connected
        /\ opened = Held \ {fds[slot]} /\ ready
    BY DEF PortInv, Alive, ClearEntry, TableInv, EntriesSound, JobSound, PortTypes,
       PortsHeld
  <1>2. /\ UNCHANGED <<ready, saved, tty, opened, lost, path, again, todo, resetting, status>>
        /\ fds' = [fds EXCEPT ![slot] = NONE] /\ names' = [names EXCEPT ![slot] = NONE]
        /\ total' = total - 1 /\ slot' = 0 /\ pc' \in {"teardown", "idle"}
    BY DEF ClearEntry, OneLess, portVars
  <1>3. /\ Connected' = Connected \ {slot} /\ Held' = Held \ {fds[slot]} /\ HeldOnce'
        /\ \A j \in Slots \ {slot} : fds'[j] = fds[j]
        /\ Cardinality(Connected') = Cardinality(Connected) - 1
    BY <1>1, <1>2, EntryGoes DEF TableInv, EntriesSound
  <1>4. PortTypes'
    BY <1>1, <1>2, SlotsFinite DEF PortTypes
  <1>5. /\ names'[slot] = NONE /\ fds'[slot] = NONE
        /\ \A j \in Slots \ {slot} : names'[j] = names[j]
    BY <1>1, <1>2 DEF PortTypes
  <1>6. (JobSound /\ Counted /\ PortsHeld)'
    BY <1>1, <1>2, <1>3, SlotsFinite DEF TableInv, EntriesSound, JobSound, Counted,
       PortsHeld
  <1>7. Named'
    BY <1>1, <1>2, <1>3, <1>5 DEF TableInv, EntriesSound, Named
  <1>8. SavedOwn'
    BY <1>1, <1>2, <1>3 DEF TableInv, EntriesSound, SavedOwn, Connected, Own
  <1>9. TtyKnown'
    BY <1>1, <1>2 DEF TableInv, EntriesSound, TtyKnown, Own
  <1> QED
    BY <1>1, <1>2, <1>3, <1>4, <1>6, <1>7, <1>8, <1>9, GoesOn DEF TableInv, EntriesSound

LEMMA FreeArraysStep ==
  ASSUME PortInv, status = "running", FreeArrays PROVE PortInv'
  <1>1. PortTypes /\ TableInv /\ pc = "teardown" /\ Connected = {}
    BY DEF PortInv, Alive, FreeArrays
  <1>2. /\ UNCHANGED <<names, fds, saved, total, tty, opened, lost, path, slot, again, todo,
                       resetting, status>>
        /\ ready' = FALSE /\ pc' = "initialise"
        /\ UNCHANGED Connected /\ UNCHANGED Held
    BY DEF FreeArrays, portVars, jobVars, Connected, Held
  <1>3. PortTypes'
    BY <1>1, <1>2 DEF PortTypes
  <1>4. TableInv'
    BY <1>1, <1>2 DEF TableInv, EntriesSound, JobSound, Counted, Named, PortsHeld,
       HeldOnce, SavedOwn, TtyKnown, Own
  <1> QED
    BY <1>2, <1>3, <1>4, GoesOn

LEMMA ExitStep ==
  ASSUME PortInv, status = "running", Exit PROVE PortInv'
  <1>1. PortTypes'
    BY DEF PortInv, PortTypes, Exit, tableVars, jobVars
  <1>2. /\ UNCHANGED <<ready, names, fds, saved, total, tty, lost, pc, path, slot>>
        /\ UNCHANGED Connected /\ UNCHANGED Held
        /\ opened' = {} /\ status' = "exited" /\ pc = "idle"
    BY DEF Exit, Prompt, tableVars, jobVars, Connected, Held
  <1>3. EntriesSound'
    BY <1>2 DEF PortInv, EntriesSound, JobSound, Counted, Named, HeldOnce, SavedOwn
  <1>4. \A p \in Paths : tty[p] = IF p \in Held THEN RAW ELSE Own(p)
    BY <1>2 DEF PortInv, Alive, TableInv, PortsHeld, TtyKnown
  <1> QED
    BY <1>1, <1>2, <1>3, <1>4 DEF PortInv, Alive, EndsClean, CrashNeedsHole, Own

(* SIGINT: each open port that is in the table gets the settings saved for   *)
(* its entry, which are its own, or stays raw.                               *)
LEMMA SigintStep ==
  ASSUME PortInv, status = "running", Sigint PROVE PortInv'
  <1>1. PortTypes /\ TableInv
    BY DEF PortInv, Alive
  <1>2. CASE ~ready
    BY <1>2, CrashStep DEF Sigint
  <1>3. CASE ready
    <2>1. PICK failing \in SUBSET (Held \cap opened) :
            /\ tty' = [p \in Paths |->
                         IF p \in (Held \cap opened) \ failing THEN saved[EntryOf(p)]
                         ELSE tty[p]]
            /\ lost' = lost \cup failing
      BY <1>3 DEF Sigint
    <2>2. /\ opened' = {} /\ status' = "killed"
          /\ UNCHANGED <<ready, names, fds, saved, total, pc, path, slot, again, todo, resetting>>
      BY <1>3 DEF Sigint, tableVars, jobVars
    <2>3. ASSUME NEW p \in Held \cap opened PROVE saved[EntryOf(p)] = Own(p)
      <3>1. \E i \in Connected : fds[i] = p
        BY <2>3 DEF Held
      <3>2. EntryOf(p) \in Connected /\ fds[EntryOf(p)] = p
        BY <3>1 DEF EntryOf
      <3> QED
        BY <1>1, <2>3, <3>2 DEF TableInv, EntriesSound, SavedOwn
    <2>4. Held \cap opened \subseteq Paths
      BY <1>1 DEF PortTypes
    <2>5. ASSUME NEW p \in Paths PROVE tty'[p] \in {RAW, p}
      BY <1>1, <2>1, <2>3 DEF TableInv, TtyKnown, Own
    <2>6. ASSUME pc # "opened", NEW p \in Paths PROVE tty'[p] = Own(p)'
      <3>1. CASE p \in (Held \cap opened) \ failing
        BY <2>1, <2>3, <3>1 DEF Own
      <3>2. CASE p \in failing
        BY <1>1, <2>1, <3>2 DEF TableInv, TtyKnown, Own
      <3>3. CASE p \notin Held \cap opened
        <4>1. p \notin opened
          BY <1>1, <2>6, <3>3 DEF TableInv, PortsHeld
        <4> QED
          BY <1>1, <2>1, <3>3, <4>1 DEF TableInv, TtyKnown, Own
      <3> QED
        BY <3>1, <3>2, <3>3
    <2>7. PortTypes'
      <3>1. tty' \in [Paths -> Paths \cup {RAW, NONE}]
        BY <2>1, <2>5
      <3>2. lost' \subseteq Paths
        BY <1>1, <2>1, <2>4 DEF PortTypes
      <3> QED
        BY <1>1, <2>2, <3>1, <3>2 DEF PortTypes
    <2>8. EntriesSound'
      <3>1. UNCHANGED Connected
        BY <2>2 DEF Connected
      <3>2. pc = "opened" => path \notin failing
        BY <1>1, <2>1 DEF TableInv, PortsHeld
      <3>3. SavedOwn'
        BY <1>1, <2>1, <2>2, <3>1, <3>2 DEF TableInv, EntriesSound, SavedOwn, FirstFree, Own
      <3> QED
        BY <1>1, <2>2, <3>1, <3>3 DEF TableInv, EntriesSound, JobSound, Counted, Named,
           HeldOnce
    <2> QED
      BY <2>2, <2>6, <2>7, <2>8 DEF PortInv, Alive, EndsClean, CrashNeedsHole
  <1> QED
    BY <1>2, <1>3

------------------------------------------------------------------------------
(* All steps. *)

LEMMA NothingStep == ASSUME PortInv, UNCHANGED vars PROVE PortInv'
  <1>1. /\ UNCHANGED <<ready, names, fds, saved, total, tty, opened, lost, pc, path, slot, again,
                       todo, resetting, status>>
        /\ UNCHANGED Connected /\ UNCHANGED Held
    BY DEF vars, tableVars, portVars, jobVars, Connected, Held
  <1>2. PortTypes' /\ EntriesSound' /\ (Alive => TableInv)'
    BY <1>1 DEF PortInv, PortTypes, Alive, TableInv, EntriesSound, JobSound, Counted,
       Named, PortsHeld, HeldOnce, SavedOwn, TtyKnown, Own, FirstFree
  <1> QED
    BY <1>1, <1>2 DEF PortInv, EndsClean, CrashNeedsHole, Own

LEMMA PortInvStep == PortInv /\ [Next]_vars => PortInv'
  <1> SUFFICES ASSUME PortInv, [Next]_vars PROVE PortInv'
    OBVIOUS
  <1>1. CASE UNCHANGED vars
    BY <1>1, NothingStep
  <1>2. ASSUME status = "running", AddStep PROVE PortInv'
    <2>1. PortTypes /\ TableInv
      BY <1>2 DEF PortInv, Alive
    <2>2. ASSUME NEW p \in Paths, NextFound(p) PROVE PortInv'
      <3>1. PortTypes'
        BY <2>1, <2>2 DEF NextFound, PortTypes, tableVars, portVars
      <3> QED
        BY <1>2, <2>2, <3>1, QuietStep DEF NextFound
    <2>3. CASE AddRefused
      <3>1. /\ pc' \in {"idle", "add"} /\ status' = "running"
            /\ pc' = "add" => path' = path
            /\ path' \in Paths \cup {NONE} /\ slot' \in Slots /\ again' \in BOOLEAN
            /\ todo' \subseteq Paths /\ resetting' \in BOOLEAN
        BY <1>2, <2>1, <2>3, AddFailsDoes DEF AddRefused
      <3>2. PortTypes'
        BY <2>1, <2>3, <3>1 DEF AddRefused, PortTypes, tableVars, portVars
      <3>3. path \in Paths
        BY <2>1, <2>3 DEF AddRefused, TableInv, EntriesSound, JobSound
      <3> QED
        BY <1>2, <2>3, <3>1, <3>2, <3>3, QuietStep DEF AddRefused
    <2>4. CASE AddCrashes
      BY <1>2, <2>4, CrashStep DEF AddCrashes
    <2>5. CASE OpenFails
      BY <1>2, <2>5, OpenFailsStep
    <2>6. CASE OpenSerial
      BY <1>2, <2>6, OpenSerialStep
    <2>7. CASE \E i \in Slots : Register(i)
      BY <1>2, <2>7, RegisterStep
    <2>8. CASE TestPasses \/ TestFails
      BY <1>2, <2>8, TestPassesStep, TestFailsStep
    <2> QED
      BY <1>2, <2>2, <2>3, <2>4, <2>5, <2>6, <2>7, <2>8 DEF AddStep, AddQuietly
  <1>3. ASSUME status = "running", RemoveStep PROVE PortInv'
    <2>1. CASE ClearEntry
      BY <1>3, <2>1, ClearEntryStep
    <2>2. ASSUME NEW i \in Slots, TearDownEntry(i) PROVE PortInv'
      BY <1>3, <2>2, CloseEntryStep DEF TearDownEntry
    <2>3. CASE FreeArrays \/ InitialisePortArray
      BY <1>3, <2>3, FreeArraysStep, InitialiseStep
    <2> QED
      BY <1>3, <2>1, <2>2, <2>3 DEF RemoveStep
  <1>4. ASSUME status = "running", ListCommand PROVE PortInv'
    <2>1. PortTypes /\ TableInv
      BY <1>4 DEF PortInv, Alive
    <2>2. ASSUME NEW p \in Paths, AddCommand(p) PROVE PortInv'
      <3>1. PortTypes'
        BY <2>1, <2>2 DEF AddCommand, PortTypes, tableVars, portVars
      <3> QED
        BY <1>4, <2>2, <3>1, QuietStep DEF AddCommand, Prompt
    <2>3. ASSUME NEW p \in Paths, RemoveName(p) PROVE PortInv'
      <3>1. PICK i \in Matches(p) : CloseEntry(i)
        BY <2>3 DEF RemoveName
      <3>2. i \in Connected
        BY <2>1, <2>3, <3>1, PortAssumption DEF Matches, TableInv, EntriesSound, Named,
           RemoveName, Prompt, Connected
      <3> QED
        BY <1>4, <2>3, <3>1, <3>2, CloseEntryStep DEF RemoveName, Prompt
    <2>4. ASSUME NEW p \in Paths, RemoveCrashes(p) PROVE PortInv'
      BY <1>4, <2>4, CrashStep DEF RemoveCrashes, Prompt
    <2>5. ASSUME NEW found \in SUBSET (Paths \ TooLong), FindVnas(found) PROVE PortInv'
      <3>1. CASE \E p \in found : ReadsNull(p)
        BY <1>4, <2>5, <3>1, CrashStep DEF FindVnas, Prompt
      <3>2. CASE ~\E p \in found : ReadsNull(p)
        <4>1. /\ todo' \subseteq Paths
              /\ UNCHANGED <<tableVars, portVars, pc, path, slot, again, resetting, status>>
          BY <2>5, <3>2 DEF FindVnas, Chosen, Unlisted
        <4>2. PortTypes'
          BY <2>1, <4>1 DEF PortTypes, tableVars, portVars
        <4> QED
          BY <1>4, <2>5, <4>1, <4>2, QuietStep DEF FindVnas, Prompt
      <3> QED
        BY <3>1, <3>2
    <2>6. ASSUME NEW found \in SUBSET (Paths \ TooLong), FindStarves(found) PROVE PortInv'
      <3>1. CASE Ends("starved")
        BY <1>4, <3>1, DeathStep
      <3>2. CASE UNCHANGED vars
        BY <1>4, <3>2, NothingStep
      <3> QED
        BY <2>6, <3>1, <3>2 DEF FindStarves
    <2>7. CASE VnaList
      BY <1>4, <2>7, CrashStep DEF VnaList
    <2> QED
      BY <1>4, <2>2, <2>3, <2>4, <2>5, <2>6, <2>7 DEF ListCommand
  <1>5. ASSUME status = "running", VnaReset PROVE PortInv'
    <2>1. CASE ~ready
      BY <1>5, <2>1, CrashStep DEF VnaReset
    <2>2. CASE ready
      <3>1. PortTypes'
        BY <1>5, <2>2 DEF VnaReset, PortInv, PortTypes, tableVars, portVars, jobVars
      <3> QED
        BY <1>5, <2>2, <3>1, QuietStep DEF VnaReset, Prompt
    <2> QED
      BY <2>1, <2>2
  <1>6. ASSUME status = "running", Exit \/ Sigint PROVE PortInv'
    BY <1>6, ExitStep, SigintStep
  <1> QED
    BY <1>1, <1>2, <1>3, <1>4, <1>5, <1>6 DEF Next

LEMMA PortAlways == Spec => []PortInv
  BY PortInvInitially, PortInvStep, PTL DEF Spec

------------------------------------------------------------------------------
(* Theorems. *)

(* Between two commands of the table, however many ports were added, removed *)
(* or failed, restores included: the arrays, the count and the open          *)
(* descriptors agree.                                                        *)
THEOREM TableAlwaysAgrees == Spec => []TableAgrees
  <1>1. PortInv => TableAgrees
    <2> SUFFICES ASSUME PortInv, pc = "idle", ready, Alive
                 PROVE  /\ total = Cardinality(Connected) /\ names = fds
                        /\ opened = Held
                        /\ \A i, j \in Connected : fds[i] = fds[j] => i = j
      BY DEF TableAgrees, Alive
    <2>1. PortTypes /\ TableInv
      BY DEF PortInv
    <2>2. names = fds
      BY <2>1 DEF PortTypes, TableInv, EntriesSound, Named
    <2> QED
      BY <2>1, <2>2 DEF TableInv, EntriesSound, Counted, PortsHeld, Held, HeldOnce
  <1> QED
    BY <1>1, PortAlways, PTL

(* The index the settings are saved at is that of the entry they belong to,  *)
(* as long as its port is open: they are what the port had before.           *)
THEOREM SettingsAlwaysOwn == Spec => []OwnSettings
  <1>1. PortInv => OwnSettings
    BY DEF PortInv, TableInv, EntriesSound, SavedOwn, OwnSettings
  <1> QED
    BY <1>1, PortAlways, PTL

(* A port the process has given back has its own settings again unless a     *)
(* restore of it has failed, now or before, and then it is raw; SIGINT gives *)
(* all ports back in this sense, except between open_serial and the table;   *)
(* exit gives none back: the ports in the table stay raw.                    *)
THEOREM SettingsAlwaysComeBack == Spec => []SettingsComeBack
  <1>1. PortInv => SettingsComeBack
    BY DEF PortInv, TableInv, TtyKnown, EndsClean, SettingsComeBack
  <1> QED
    BY <1>1, PortAlways, PTL

(* Whoever never removes a VNA that is not the last does not end the process *)
(* by a command, as long as the arrays are there and the list of find_vnas   *)
(* is.                                                                       *)
THEOREM CrashesAlwaysNeedHole == Spec => []CrashNeedsHole
  <1>1. PortInv => CrashNeedsHole
    BY DEF PortInv
  <1> QED
    BY <1>1, PortAlways, PTL

(* Types, with as many entries in use as there are at most.                  *)
THEOREM PortTypeCorrect == Spec => []TypeOK
  <1>1. PortInv => TypeOK
    <2> SUFFICES ASSUME PortInv PROVE TypeOK
      OBVIOUS
    <2>1. total \in 0 .. MaxPorts
      <3>1. PortTypes /\ EntriesSound
        BY DEF PortInv
      <3>2. pc = "testing" => slot \in Connected /\ Cardinality(Connected) # 0
        <4>1. ASSUME pc = "testing" PROVE slot \in Connected
          BY <3>1, <4>1, PortAssumption DEF TableInv, EntriesSound, JobSound, PortTypes,
             Connected
        <4> QED
          BY <4>1, SlotsFinite, FS_EmptySet
      <3> QED
        BY <3>1, <3>2, SlotsFinite DEF TableInv, EntriesSound, Counted
    <2> QED
      BY <2>1 DEF PortInv, PortTypes, TypeOK
  <1> QED
    BY <1>1, PortAlways, PTL
------------------------------------------------------------------------------
(* The inductive invariant of the table in use, on top of that of the table. *)

UseTypes ==
  /\ at \in [Readers -> {"none", "write", "header", "points"}]
  /\ id \in [Readers -> Slots]
  /\ dev \in [Readers -> Paths \cup {NONE}]
  /\ DOMAIN line = Paths
  /\ asking \in {"none", "write", "read"} /\ ask \in Slots
  /\ asking # "none" => pc = "idle"

(* What r has asked for.                                                     *)
Pieces(r) == {<<r, "header">>, <<r, "points">>}

(* The line of reader r: nobody else has its id, and add_vna and vna ping    *)
(* are not at work on it.                                                    *)
OwnPort(r) ==
  /\ ready /\ id[r] \in Connected /\ fds[id[r]] = dev[r] /\ dev[r] \in opened
  /\ line[dev[r]] \in Seq(Pieces(r))
  /\ r \notin stale => line[dev[r]] = Expected(r)
  /\ \A q \in Active : q # r => id[q] # id[r]
  /\ pc = "testing" => path # dev[r]
  /\ asking = "read" => ask # id[r]

(* Nobody is undisturbed while the table is torn down.                       *)
Undisturbed == Active \ upset

UseSound ==
  /\ \A r \in Undisturbed : OwnPort(r)
  /\ pc = "teardown" => Undisturbed = {}
  /\ asking = "read" => fds[ask] # NONE

UseInv == PortInv /\ UseTypes /\ (status = "running" => UseSound)

------------------------------------------------------------------------------
(* What is on the line of a reader from one point of pull_scan to the next.  *)
LEMMA AnswerInParts ==
  ASSUME NEW r
  PROVE  /\ Answer(r) # << >> /\ Tail(Answer(r)) # << >>
         /\ Head(Answer(r))[2] = "header"
         /\ Tail(Tail(Answer(r))) = << >>
         /\ << >> \o Answer(r) = Answer(r)
         /\ << >> \in Seq(Pieces(r)) /\ Answer(r) \in Seq(Pieces(r))
  <1>1. Tail(Answer(r)) = << <<r, "points">> >>
    BY DEF Answer
  <1>2. Tail(Tail(Answer(r))) = << >>
    BY <1>1
  <1>3. << >> \in Seq(Pieces(r)) /\ Answer(r) \in Seq(Pieces(r))
    BY DEF Answer, Pieces
  <1>4. << >> \o Answer(r) = Answer(r)
    BY <1>3
  <1> QED
    BY <1>1, <1>2, <1>3, <1>4 DEF Answer

(* What is left of what r has asked for, and what it asks for in addition.   *)
LEMMA PiecesStay ==
  ASSUME NEW r, NEW s \in Seq(Pieces(r))
  PROVE  /\ s \o Answer(r) \in Seq(Pieces(r))
         /\ s # << >> => Tail(s) \in Seq(Pieces(r))
         /\ \A t \in Suffixes(s) : t \in Seq(Pieces(r))
         /\ \A k \in DOMAIN s : s[k][1] = r
  <1>1. s \o Answer(r) \in Seq(Pieces(r))
    BY AnswerInParts, ConcatProperties
  <1>2. s # << >> => Tail(s) \in Seq(Pieces(r))
    BY HeadTailProperties
  <1>3. ASSUME NEW k \in 1 .. Len(s)+1 PROVE SubSeq(s, k, Len(s)) \in Seq(Pieces(r))
    <2>1. Len(s) \in Nat /\ \A i \in 1 .. Len(s) : s[i] \in Pieces(r)
      BY LenProperties, ElementOfSeq
    <2>2. \A i \in k .. Len(s) : s[i] \in Pieces(r)
      BY <2>1
    <2>3. k \in Int /\ Len(s) \in Int
      BY <2>1
    <2> QED
      BY <2>2, <2>3, SubSeqProperties
  <1>4. \A k \in DOMAIN s : s[k] \in Pieces(r)
    BY LenProperties, ElementOfSeq
  <1>5. \A t \in Suffixes(s) : t \in Seq(Pieces(r))
    BY <1>3 DEF Suffixes
  <1>6. \A k \in DOMAIN s : s[k][1] = r
    BY <1>4 DEF Pieces
  <1> QED
    BY <1>1, <1>2, <1>5, <1>6

(* Two entries in use are two devices.                                       *)
LEMMA OtherDevice ==
  ASSUME PortInv, status = "running", NEW i \in Connected, NEW j \in Slots, i # j
  PROVE  fds[i] # fds[j] /\ fds[i] \in Paths
  BY DEF PortInv, PortTypes, EntriesSound, HeldOnce, Connected

LEMMA UseInvInitially == UseInit => UseInv
  <1> SUFFICES ASSUME UseInit PROVE UseInv
    OBVIOUS
  <1>1. 0 \in Slots
    BY SlotsFinite
  <1>2. UseTypes
    BY <1>1 DEF UseInit, UseTypes
  <1>3. Undisturbed = {}
    BY DEF UseInit, Undisturbed, Active
  <1> QED
    BY <1>2, <1>3, PortInvInitially DEF UseInit, UseInv, UseSound

------------------------------------------------------------------------------
(* The table in use. *)

(* Whatever happens, the table is what it is without readers, or the process *)
(* dies for want of the arrays.                                              *)
LEMMA TableInUse == UseInv /\ [UseNext]_useVars => PortInv'
  <1> SUFFICES ASSUME UseInv, [UseNext]_useVars PROVE PortInv'
    OBVIOUS
  <1>1. [Next]_vars \/ (status = "running" /\ ~ready /\ Crash)
    <2>1. CASE UNCHANGED useVars
      BY <2>1 DEF useVars
    <2>2. ASSUME status = "running", TableStep PROVE Next
      BY <2>2 DEF TableStep, ResetVnas, Next, AddStep
    <2>3. CASE UseNext /\ ~TableStep
      <3>1. CASE StartCrashes \/ \E r \in Readers : ReaderCrashes(r)
        BY <2>3, <3>1 DEF StartCrashes, ReaderCrashes, UseNext
      <3>2. CASE BeginAsk \/ AskWrites \/ AskReads
        BY <3>2 DEF BeginAsk, AskWrites, AskReads
      <3>3. ASSUME NEW r \in Readers, ReaderStep(r), ~ReaderCrashes(r) PROVE UNCHANGED vars
        BY <3>3 DEF ReaderStep, PullFails, PullBreaksOff, WriteScan, SkipPiece, FindHeader,
           ReadPoints, ReaderEnds
      <3>4. CASE \E r \in Readers, i \in Slots : StartReader(r, i)
        BY <3>4 DEF StartReader
      <3> QED
        BY <2>3, <3>1, <3>2, <3>3, <3>4 DEF UseNext
    <2> QED
      BY <2>1, <2>2, <2>3 DEF UseNext
  <1>2. PortInv
    BY DEF UseInv
  <1> QED
    BY <1>1, <1>2, PortInvStep, CrashStep

LEMMA UseTypesStep == UseInv /\ [UseNext]_useVars => UseTypes'
  <1> SUFFICES ASSUME UseInv, [UseNext]_useVars PROVE UseTypes'
    OBVIOUS
  <1>0. UseTypes /\ PortTypes
    BY DEF UseInv, PortInv
  <1>1. CASE UNCHANGED useVars
    BY <1>0, <1>1 DEF UseTypes, useVars, vars, readerVars, askVars
  <1>2. CASE TableStep
    <2>1. DOMAIN line' = Paths
      BY <1>0, <1>2 DEF UseTypes, TableStep, ResetVnas, AskLine, TakeAnswer
    <2>2. UNCHANGED <<at, id, dev, asking, ask>> /\ asking = "none"
      BY <1>2 DEF TableStep, readerVars, askVars
    <2> QED
      BY <1>0, <2>1, <2>2 DEF UseTypes
  <1>3. CASE StartCrashes
    BY <1>0, <1>3 DEF StartCrashes, Crash, Ends, UseTypes, readerVars, askVars
  <1>4. CASE BeginAsk
    BY <1>0, <1>4, SlotsFinite DEF BeginAsk, Prompt, UseTypes, readerVars, vars
  <1>5. CASE AskWrites \/ AskReads
    <2>1. /\ DOMAIN line' = Paths /\ pc' = pc /\ UNCHANGED <<at, id, dev>> /\ asking # "none"
          /\ NextEntry \/ (asking' = "read" /\ ask' = ask)
      BY <1>0, <1>5 DEF AskWrites, AskReads, AskLine, TakeAnswer, UseTypes, vars,
         readerVars
    <2>2. ask' \in Slots /\ asking' \in {"none", "write", "read"}
      <3>1. total <= MaxPorts /\ total \in Int
        <4>1. pc = "idle"
          BY <1>0, <2>1 DEF UseTypes
        <4> QED
          BY <4>1, SlotsFinite DEF UseInv, PortInv, EntriesSound, Counted
      <3>2. ask \in 0 .. MaxPorts-1 /\ MaxPorts \in Nat
        BY <1>0, SlotsFinite DEF UseTypes
      <3> QED
        BY <2>1, <3>1, <3>2, SlotsFinite DEF NextEntry
    <2> QED
      BY <1>0, <2>1, <2>2 DEF UseTypes
  <1>6. ASSUME NEW r \in Readers, ReaderStep(r) PROVE UseTypes'
    <2>1. /\ UNCHANGED <<pc, asking, ask>>
          /\ DOMAIN line' = Paths
      BY <1>0, <1>6 DEF ReaderStep, ReaderCrashes, Crash, Ends, PullFails, PullBreaksOff,
         WriteScan, SkipPiece, FindHeader, ReadPoints, ReaderEnds, UseTypes, vars, askVars,
         readerVars
    <2>2. /\ at' = at \/ at' = [at EXCEPT ![r] = "write"] \/ at' = [at EXCEPT ![r] = "header"]
             \/ at' = [at EXCEPT ![r] = "points"] \/ at' = [at EXCEPT ![r] = "none"]
          /\ id' = id \/ id' = [id EXCEPT ![r] = 0]
          /\ dev' = dev \/ dev' = [dev EXCEPT ![r] = NONE]
      BY <1>6 DEF ReaderStep, ReaderCrashes, PullFails, PullBreaksOff, WriteScan, SkipPiece,
         FindHeader, ReadPoints, ReaderEnds, vars, askVars, readerVars
    <2>3. at' \in [Readers -> {"none", "write", "header", "points"}]
      BY <1>0, <2>2 DEF UseTypes
    <2>4. id' \in [Readers -> Slots] /\ dev' \in [Readers -> Paths \cup {NONE}]
      <3>1. 0 \in Slots
        BY SlotsFinite
      <3> QED
        BY <1>0, <2>2, <3>1 DEF UseTypes
    <2> QED
      BY <1>0, <2>1, <2>3, <2>4 DEF UseTypes
  <1>7. ASSUME NEW r \in Readers, NEW i \in Slots, StartReader(r, i) PROVE UseTypes'
    <2>1. fds[i] \in Paths \cup {NONE}
      BY <1>0 DEF PortTypes
    <2> QED
      BY <1>0, <1>7, <2>1 DEF StartReader, UseTypes, vars, askVars
  <1> QED
    BY <1>1, <1>2, <1>3, <1>4, <1>5, <1>6, <1>7 DEF UseNext

(* A step of the table, for the readers it does not disturb: their entries   *)
(* and what is on their lines stay, and no test of their port begins.        *)
LEMMA TableKeepsReaders ==
  ASSUME UseInv, status = "running", TableStep, UseTypes', ready' = ready,
         \A r \in Undisturbed : dev[r] \in opened' /\ pc' # "teardown" =>
           /\ fds'[id[r]] = fds[id[r]] /\ line'[dev[r]] = line[dev[r]]
           /\ pc' = "testing" => path' # dev[r]
  PROVE  UseSound'
  <1>1. /\ UNCHANGED <<at, id, dev, asking, ask, stale>> /\ asking = "none"
        /\ UNCHANGED Active
        /\ upset' = upset \cup {r \in Active : dev[r] \notin opened' \/ pc' = "teardown"}
    BY DEF TableStep, readerVars, askVars, Active
  <1>2. \A r \in Undisturbed' : r \in Undisturbed /\ dev[r] \in opened' /\ pc' # "teardown"
    BY <1>1 DEF Undisturbed
  <1>3. ASSUME NEW r \in Undisturbed' PROVE OwnPort(r)'
    <2>1. OwnPort(r) /\ r \in Readers
      BY <1>2 DEF UseInv, UseSound, Undisturbed, Active
    <2>2. fds'[id[r]] = dev[r] /\ line'[dev[r]] = line[dev[r]]
      BY <1>2, <2>1 DEF OwnPort
    <2>3. id[r] \in Connected'
      <3>1. id[r] \in Slots /\ fds[id[r]] # NONE
        BY <2>1 DEF OwnPort, Connected
      <3> QED
        BY <2>1, <2>2, <3>1 DEF OwnPort, Connected
    <2>4. UNCHANGED Expected(r)
      BY <1>1 DEF Expected
    <2> QED
      BY <1>1, <1>2, <2>1, <2>2, <2>3, <2>4 DEF OwnPort, Pieces
  <1>4. pc' = "teardown" => Undisturbed' = {}
    BY <1>2
  <1> QED
    BY <1>1, <1>3, <1>4 DEF UseSound

LEMMA TableSound ==
  ASSUME UseInv, status = "running", TableStep, UseTypes', status' = "running"
  PROVE  UseSound'
  <1>0. PortTypes /\ TableInv /\ EntriesSound /\ UseTypes /\ UseSound
    BY DEF UseInv, PortInv, Alive, TableInv
  <1>1. /\ upset' = upset \cup {r \in Active : dev[r] \notin opened' \/ pc' = "teardown"}
        /\ UNCHANGED Active /\ UNCHANGED <<asking, ask>> /\ asking = "none"
    BY DEF TableStep, readerVars, askVars, Active
  <1>2. \A r \in Undisturbed :
          ready /\ id[r] \in Connected /\ id[r] \in Slots /\ fds[id[r]] = dev[r]
          /\ dev[r] \in opened
    BY <1>0 DEF UseSound, OwnPort, Connected
  <1>3. CASE Undisturbed = {} \/ pc' = "teardown"
    <2>1. Undisturbed' = {}
      BY <1>1, <1>3 DEF Undisturbed
    <2> QED
      BY <1>1, <2>1 DEF UseSound
  <1>4. CASE UNCHANGED <<ready, fds, line>> /\ pc' # "testing"
    BY <1>4, TableKeepsReaders
  <1>5. CASE (AddQuietly \/ ListCommand) /\ UNCHANGED line
    <2>1. \/ UNCHANGED <<ready, fds>> /\ pc' # "testing"
          \/ status' \in {"crashed", "starved"}
      BY <1>5 DEF AddQuietly, ListCommand, NextFound, AddRefused, AddCrashes, Crash,
         OpenFails, OpenSerial, AddFails, Done, AddCommand, RemoveName, RemoveCrashes,
         FindVnas, FindStarves, VnaList, Ends, CloseEntry, vars, tableVars, Prompt
    <2> QED
      BY <1>4, <1>5, <2>1
  <1>6. CASE ClearEntry /\ UNCHANGED line
    <2>1. fds' = [fds EXCEPT ![slot] = NONE] /\ ready' = ready /\ opened' = opened
          /\ pc' # "testing" /\ pc = "closed"
      BY <1>6 DEF ClearEntry, portVars
    <2>2. opened = Held \ {fds[slot]}
      BY <1>0, <2>1 DEF TableInv, PortsHeld
    <2>3. \A r \in Undisturbed : id[r] # slot
      BY <1>2, <2>2
    <2>4. \A r \in Undisturbed : fds'[id[r]] = fds[id[r]]
      BY <1>0, <1>2, <2>1, <2>3 DEF PortTypes
    <2> QED
      BY <1>6, <2>1, <2>4, TableKeepsReaders
  <1>7. CASE (\E i \in Slots : TearDownEntry(i)) \/ FreeArrays \/ InitialisePortArray
    <2>1. pc = "teardown" \/ ~ready
      BY <1>0, <1>7 DEF TearDownEntry, FreeArrays, InitialisePortArray, EntriesSound,
         JobSound
    <2> QED
      BY <1>0, <1>2, <1>3, <2>1 DEF UseSound
  <1>8. ASSUME NEW i \in Slots, Register(i), AskLine(path) PROVE UseSound'
    <2>1. /\ fds' = [fds EXCEPT ![i] = path] /\ ready' = ready /\ opened' = opened
          /\ path' = path /\ pc = "opened" /\ i \notin Connected
      BY <1>8 DEF Register, portVars, FirstFree, Connected
    <2>2. path \notin Held
      BY <1>0, <2>1 DEF TableInv, PortsHeld
    <2>3. \A r \in Undisturbed : id[r] # i /\ dev[r] # path
      BY <1>2, <2>1, <2>2 DEF Held
    <2>4. \A r \in Undisturbed : fds'[id[r]] = fds[id[r]]
      BY <1>0, <1>2, <2>1, <2>3 DEF PortTypes
    <2>5. \A r \in Undisturbed : line'[dev[r]] = line[dev[r]]
      BY <1>0, <1>2, <1>8, <2>3 DEF AskLine, UseTypes, PortTypes
    <2> QED
      BY <2>1, <2>3, <2>4, <2>5, TableKeepsReaders
  <1>9. CASE (TestPasses \/ TestFails) /\ TakeAnswer(path)
    <2>1. pc = "testing" /\ ready' = ready /\ pc' # "testing" /\ fds[slot] = path /\ slot \in Slots
      BY <1>0, <1>9 DEF TestPasses, TestFails, Done, AddFails, EntriesSound, JobSound,
         PortTypes
    <2>2. fds' = fds \/ fds' = [fds EXCEPT ![slot] = NONE]
      BY <1>9 DEF TestPasses, TestFails
    <2>3. \A r \in Undisturbed : dev[r] # path /\ id[r] # slot
      BY <1>0, <1>2, <2>1 DEF UseSound, OwnPort
    <2>4. \A r \in Undisturbed : fds'[id[r]] = fds[id[r]]
      BY <1>0, <1>2, <2>2, <2>3 DEF PortTypes
    <2>5. \A r \in Undisturbed : line'[dev[r]] = line[dev[r]]
      BY <1>0, <1>2, <1>9, <2>3 DEF TakeAnswer, UseTypes, PortTypes
    <2> QED
      BY <2>1, <2>4, <2>5, TableKeepsReaders
  <1>10. CASE ResetVnas
    <2>1. status' = "crashed" \/ pc' = "teardown"
      BY <1>10 DEF ResetVnas, VnaReset, Crash, Ends
    <2> QED
      BY <1>3, <2>1
  <1> QED
    BY <1>5, <1>6, <1>7, <1>8, <1>9, <1>10 DEF TableStep, RemoveStep

------------------------------------------------------------------------------
(* The readers, vna ping and vna id. *)

(* A reader that changes nothing but its own place and the line of its own   *)
(* port does not disturb the others.                                         *)
LEMMA ReaderKeepsOthers ==
  ASSUME UseInv, status = "running", NEW q \in Readers, at[q] # "none",
         UNCHANGED <<vars, askVars>>,
         upset' = upset \/ (upset' = upset \ {q} /\ at'[q] = "none"),
         \A r \in Readers \ {q} : at'[r] = at[r] /\ id'[r] = id[r] /\ dev'[r] = dev[r],
         id'[q] = id[q] \/ at'[q] = "none", stale \subseteq stale' \cup {q},
         \A p \in Paths : line'[p] = line[p] \/ (p = Port(q) /\ p \in opened),
         q \in Undisturbed /\ at'[q] # "none" => OwnPort(q)'
  PROVE  UseSound'
  <1>1. /\ UNCHANGED <<ready, fds, opened, pc, path, asking, ask>>
        /\ UNCHANGED Connected
    BY DEF vars, tableVars, portVars, jobVars, askVars, Connected
  <1>2. \A r \in Undisturbed' : r \in Undisturbed
    BY DEF Undisturbed, Active
  <1>3. ASSUME NEW r \in Undisturbed' PROVE OwnPort(r)'
    <2>1. r \in Readers /\ r \in Undisturbed /\ at'[r] # "none" /\ OwnPort(r)
      BY <1>2 DEF Undisturbed, Active, UseInv, UseSound
    <2>2. CASE r = q
      BY <2>1, <2>2
    <2>3. CASE r # q
      <3>1. q \in Active /\ id[q] # id[r] /\ id[r] \in Connected /\ id[q] \in Slots
        BY <2>1, <2>3 DEF OwnPort, Active, UseInv, UseTypes
      <3>2. fds[id[r]] # Port(q) /\ fds[id[r]] \in Paths
        BY <3>1, OtherDevice DEF UseInv, Port
      <3>3. dev[r] = fds[id[r]]
        BY <2>1 DEF OwnPort
      <3>4. line'[dev[r]] = line[dev[r]]
        BY <3>2, <3>3
      <3>5. UNCHANGED Expected(r) /\ id'[r] = id[r] /\ dev'[r] = dev[r]
        BY <2>1, <2>3 DEF Expected
      <3>6. \A k \in Active' : k # r => id'[k] # id[r]
        BY <2>1, <2>3, <3>1 DEF Active, OwnPort
      <3> QED
        BY <1>1, <2>1, <2>3, <3>4, <3>5, <3>6 DEF OwnPort, Pieces
    <2> QED
      BY <2>2, <2>3
  <1>4. pc' = "teardown" => Undisturbed' = {}
    BY <1>1, <1>2 DEF UseInv, UseSound
  <1> QED
    BY <1>1, <1>3, <1>4 DEF UseInv, UseSound

(* A reader that is undisturbed goes through pull_scan from one answer to    *)
(* the next.                                                                 *)
LEMMA ReaderSound ==
  ASSUME UseInv, status = "running", NEW q \in Readers, ReaderStep(q), status' = "running"
  PROVE  UseSound'
  <1>0. UseTypes /\ PortTypes /\ UseSound
    BY DEF UseInv, PortInv
  <1>1. ASSUME q \in Undisturbed
        PROVE  /\ OwnPort(q) /\ Port(q) = dev[q] /\ ~NoPort(q) /\ ready
               /\ line[Port(q)] \in Seq(Pieces(q))
               /\ q \notin stale => line[Port(q)] = Expected(q)
    BY <1>0, <1>1 DEF UseSound, OwnPort, Port, NoPort
  <1>2. ASSUME UNCHANGED <<vars, askVars, id, dev>>, q \in Undisturbed,
               line'[dev[q]] \in Seq(Pieces(q)), q \notin stale' => line'[dev[q]] = Expected(q)',
               \A r \in Readers \ {q} : at'[r] = at[r]
        PROVE  OwnPort(q)'
    <2>1. UNCHANGED <<ready, fds, opened, pc, path, asking, ask>> /\ UNCHANGED Connected
      BY <1>2 DEF vars, tableVars, portVars, jobVars, askVars, Connected
    <2>2. \A k \in Active' : k # q => k \in Active
      BY <1>2 DEF Active
    <2> QED
      BY <1>1, <1>2, <2>1, <2>2 DEF OwnPort, Pieces
  <1>3. CASE ReaderCrashes(q)
    BY <1>3 DEF ReaderCrashes, Crash, Ends
  <1>4. CASE PullFails(q)
    <2>1. /\ UNCHANGED <<vars, askVars, id, dev, line, upset, stale>>
          /\ at' = [at EXCEPT ![q] = "write"] /\ at[q] # "none"
      BY <1>4 DEF PullFails, Active, ghosts
    <2>2. q \in Undisturbed => q \in stale
      <3> SUFFICES ASSUME q \in Undisturbed, q \notin stale PROVE FALSE
        OBVIOUS
      <3>1. at[q] \in {"header", "points"} /\ line[Port(q)] = << >>
        BY <1>0, <1>1, <1>4 DEF PullFails, Active, UseTypes
      <3> QED
        BY <1>1, <3>1, AnswerInParts DEF Expected
    <2>3. q \in Undisturbed => OwnPort(q)'
      BY <1>0, <1>1, <1>2, <2>1, <2>2 DEF UseTypes
    <2> QED
      BY <1>0, <2>1, <2>3, ReaderKeepsOthers DEF UseTypes
  <1>5. CASE PullBreaksOff(q)
    <2>1. PICK s \in Suffixes(line[Port(q)]) :
            /\ line' = [line EXCEPT ![Port(q)] = s]
            /\ stale' = IF s = << >> THEN stale ELSE stale \cup {q}
      BY <1>5 DEF PullBreaksOff
    <2>2. /\ UNCHANGED <<vars, askVars, id, dev, upset>> /\ at' = [at EXCEPT ![q] = "write"]
          /\ at[q] # "none" /\ Port(q) \in opened
      BY <1>5 DEF PullBreaksOff, NoPort
    <2>3. q \in Undisturbed => OwnPort(q)'
      <3> SUFFICES ASSUME q \in Undisturbed PROVE OwnPort(q)'
        OBVIOUS
      <3>1. dev[q] \in Paths /\ dev[q] = Port(q)
        BY <1>0, <1>1, <2>2 DEF PortTypes
      <3>2. line'[dev[q]] = s /\ s \in Seq(Pieces(q))
        BY <1>0, <1>1, <2>1, <3>1, PiecesStay DEF UseTypes
      <3>3. q \notin stale' => s = << >>
        BY <2>1
      <3>4. Expected(q)' = << >>
        BY <1>0, <2>2 DEF Expected, UseTypes
      <3> QED
        BY <1>0, <1>2, <2>2, <3>2, <3>3, <3>4 DEF UseTypes
    <2> QED
      BY <1>0, <2>1, <2>2, <2>3, ReaderKeepsOthers DEF UseTypes
  <1>6. CASE WriteScan(q)
    <2>1. /\ UNCHANGED <<vars, askVars, id, dev, upset, stale>>
          /\ at' = [at EXCEPT ![q] = "header"]
          /\ line' = [line EXCEPT ![Port(q)] = @ \o Answer(q)]
          /\ at[q] = "write" /\ Port(q) \in opened
      BY <1>6 DEF WriteScan, MayRead, NoPort, ghosts
    <2>2. q \in Undisturbed => line'[dev[q]] = line[dev[q]] \o Answer(q)
      BY <1>0, <1>1, <2>1 DEF UseTypes, PortTypes
    <2>3. q \in Undisturbed /\ q \notin stale' => line'[dev[q]] = Expected(q)'
      BY <1>0, <1>1, <2>1, <2>2, AnswerInParts DEF Expected, UseTypes, Answer
    <2>4. q \in Undisturbed => OwnPort(q)'
      BY <1>0, <1>1, <1>2, <2>1, <2>2, <2>3, PiecesStay DEF UseTypes
    <2> QED
      BY <1>0, <2>1, <2>4, ReaderKeepsOthers DEF UseTypes
  <1>7. CASE SkipPiece(q)
    <2>1. /\ UNCHANGED <<vars, askVars, at, id, dev, upset, stale>>
          /\ line' = [line EXCEPT ![Port(q)] = Tail(@)] /\ line[Port(q)] # << >>
          /\ at[q] = "header" /\ Port(q) \in opened /\ Head(line[Port(q)])[2] # "header"
      BY <1>7 DEF SkipPiece, MayRead, NoPort, readerVars, ghosts
    <2>2. q \in Undisturbed => q \in stale
      BY <1>1, <2>1, AnswerInParts DEF Expected
    <2>3. q \in Undisturbed => line'[dev[q]] = Tail(line[dev[q]])
      BY <1>0, <1>1, <2>1 DEF UseTypes, PortTypes
    <2>4. q \in Undisturbed => OwnPort(q)'
      BY <1>0, <1>1, <1>2, <2>1, <2>2, <2>3, PiecesStay DEF UseTypes
    <2> QED
      BY <1>0, <2>1, <2>4, ReaderKeepsOthers DEF UseTypes
  <1>8. CASE FindHeader(q) \/ ReadPoints(q)
    <2>1. /\ UNCHANGED <<vars, askVars, id, dev, upset, stale>>
          /\ line' = [line EXCEPT ![Port(q)] = Tail(@)] /\ line[Port(q)] # << >>
          /\ Port(q) \in opened
          /\ \/ at[q] = "header" /\ at' = [at EXCEPT ![q] = "points"]
             \/ at[q] = "points" /\ at' = [at EXCEPT ![q] = "write"]
      BY <1>8 DEF FindHeader, ReadPoints, MayRead, NoPort, ghosts
    <2>2. q \in Undisturbed => line'[dev[q]] = Tail(line[dev[q]])
      BY <1>0, <1>1, <2>1 DEF UseTypes, PortTypes
    <2>3. q \in Undisturbed /\ q \notin stale' => line'[dev[q]] = Expected(q)'
      <3> SUFFICES ASSUME q \in Undisturbed, q \notin stale PROVE line'[dev[q]] = Expected(q)'
        BY <2>1
      <3>1. line'[dev[q]] = Tail(Expected(q))
        BY <1>1, <2>2
      <3>2. CASE at[q] = "header" /\ at' = [at EXCEPT ![q] = "points"]
        <4>1. Expected(q) = Answer(q) /\ Expected(q)' = Tail(Answer(q))
          BY <1>0, <3>2 DEF Expected, UseTypes, Answer
        <4> QED
          BY <3>1, <4>1
      <3>3. CASE at[q] = "points" /\ at' = [at EXCEPT ![q] = "write"]
        <4>1. Expected(q) = Tail(Answer(q)) /\ Expected(q)' = << >>
          BY <1>0, <3>3 DEF Expected, UseTypes
        <4> QED
          BY <3>1, <4>1, AnswerInParts
      <3> QED
        BY <2>1, <3>2, <3>3
    <2>4. q \in Undisturbed => OwnPort(q)'
      BY <1>0, <1>1, <1>2, <2>1, <2>2, <2>3, PiecesStay DEF UseTypes
    <2> QED
      BY <1>0, <2>1, <2>4, ReaderKeepsOthers DEF UseTypes
  <1>9. CASE ReaderEnds(q)
    <2>1. /\ UNCHANGED <<vars, askVars, line>> /\ upset' = upset \ {q} /\ at[q] = "write"
          /\ stale' = stale \ {q}
          /\ at' = [at EXCEPT ![q] = "none"]
          /\ id' = [id EXCEPT ![q] = 0] /\ dev' = [dev EXCEPT ![q] = NONE]
      BY <1>9 DEF ReaderEnds
    <2> QED
      BY <1>0, <2>1, ReaderKeepsOthers DEF UseTypes
  <1> QED
    BY <1>3, <1>4, <1>5, <1>6, <1>7, <1>8, <1>9 DEF ReaderStep

(* A scan that begins on a quiet line nobody else uses is undisturbed; one   *)
(* that does not disturbs those it shares the VNA with.                      *)
LEMMA StartSound ==
  ASSUME UseInv, status = "running", NEW q \in Readers, NEW i \in Slots, StartReader(q, i)
  PROVE  UseSound'
  <1>0. UseTypes /\ PortTypes /\ UseSound /\ TableInv /\ EntriesSound
    BY DEF UseInv, PortInv, Alive, TableInv
  <1>1. /\ UNCHANGED <<ready, fds, opened, pc, path, asking, ask, line, stale>>
        /\ UNCHANGED Connected
        /\ pc = "idle" /\ asking = "none" /\ ready /\ i \in Connected /\ at[q] = "none"
        /\ at' = [at EXCEPT ![q] = "write"] /\ id' = [id EXCEPT ![q] = i]
        /\ dev' = [dev EXCEPT ![q] = fds[i]]
        /\ upset' = IF line[fds[i]] = << >> /\ \A k \in Active : id[k] # i
                    THEN upset
                    ELSE upset \cup {q} \cup {k \in Active : id[k] = i}
    BY DEF StartReader, Prompt, vars, tableVars, portVars, jobVars, askVars, Connected
  <1>2. /\ at'[q] = "write" /\ id'[q] = i /\ dev'[q] = fds[i]
        /\ \A r \in Readers \ {q} : at'[r] = at[r] /\ id'[r] = id[r] /\ dev'[r] = dev[r]
        /\ Active' = Active \cup {q} /\ q \notin Active
    BY <1>0, <1>1 DEF UseTypes, Active
  <1>3. ASSUME NEW r \in Undisturbed', r # q PROVE OwnPort(r)'
    <2>1. r \in Undisturbed /\ r \in Readers /\ OwnPort(r) /\ id[r] # i
      BY <1>0, <1>1, <1>2, <1>3 DEF Undisturbed, Active, UseSound
    <2>2. UNCHANGED Expected(r)
      BY <1>2, <1>3, <2>1 DEF Expected
    <2> QED
      BY <1>1, <1>2, <1>3, <2>1, <2>2 DEF OwnPort, Active, Pieces
  <1>4. ASSUME q \in Undisturbed' PROVE OwnPort(q)'
    <2>1. line[fds[i]] = << >> /\ \A k \in Active : id[k] # i
      BY <1>1, <1>4 DEF Undisturbed
    <2>2. fds[i] \in opened
      BY <1>0, <1>1 DEF TableInv, PortsHeld, Held
    <2>3. Expected(q)' = << >>
      BY <1>2 DEF Expected
    <2>4. (line[dev[q]] \in Seq(Pieces(q)))' /\ (line[dev[q]] = Expected(q))'
      BY <1>1, <1>2, <2>1, <2>3, AnswerInParts DEF Pieces
    <2> QED
      BY <1>1, <1>2, <2>1, <2>2, <2>3, <2>4 DEF OwnPort, Active
  <1> QED
    BY <1>1, <1>3, <1>4 DEF UseSound

(* vna ping and vna id disturb the readers of the entry they write to, and   *)
(* the line they read from is that of no other.                              *)
LEMMA AskSound ==
  ASSUME UseInv, status = "running", BeginAsk \/ AskWrites \/ AskReads
  PROVE  UseSound'
  <1>0. UseTypes /\ PortTypes /\ UseSound /\ PortInv
    BY DEF UseInv, PortInv
  <1>1. /\ UNCHANGED <<ready, fds, opened, pc, path, at, id, dev, stale>>
        /\ UNCHANGED Connected /\ UNCHANGED Active
        /\ pc = "idle"
    BY <1>0 DEF BeginAsk, AskWrites, AskReads, Prompt, vars, tableVars, portVars,
       jobVars, readerVars, ghosts, Connected, Active, UseTypes
  <1>2. /\ upset \subseteq upset'
        /\ asking' = "read" => fds[ask'] # NONE /\ \A r \in Active \ upset' : id[r] # ask'
        /\ \A r \in Undisturbed' : line'[dev[r]] = line[dev[r]]
    <2>1. CASE BeginAsk
      BY <2>1 DEF BeginAsk, ghosts
    <2>2. CASE AskWrites /\ fds[ask] = NONE
      BY <2>2 DEF AskWrites, NextEntry
    <2>3. CASE AskWrites /\ fds[ask] # NONE
      <3>1. /\ AskLine(fds[ask]) /\ asking' = "read" /\ ask' = ask
            /\ upset' = upset \cup {r \in Active : id[r] = ask}
        BY <2>3 DEF AskWrites
      <3>2. ASSUME NEW r \in Undisturbed' PROVE line'[dev[r]] = line[dev[r]]
        <4>1. r \in Undisturbed /\ id[r] # ask
          BY <1>1, <3>1 DEF Undisturbed
        <4>2. id[r] \in Connected /\ dev[r] = fds[id[r]]
          BY <1>0, <4>1 DEF UseSound, OwnPort
        <4>3. dev[r] # fds[ask] /\ dev[r] \in Paths
          BY <1>0, <4>1, <4>2, OtherDevice DEF UseTypes
        <4> QED
          BY <1>0, <3>1, <4>3 DEF AskLine, UseTypes
      <3> QED
        BY <2>3, <3>1, <3>2
    <2>4. CASE AskReads
      <3>1. TakeAnswer(fds[ask]) /\ upset' = upset /\ asking = "read" /\ asking' # "read"
        BY <2>4 DEF AskReads, NextEntry, ghosts
      <3>2. ASSUME NEW r \in Undisturbed' PROVE line'[dev[r]] = line[dev[r]]
        <4>1. r \in Undisturbed /\ id[r] # ask
          BY <1>0, <1>1, <3>1, <3>2 DEF Undisturbed, UseSound, OwnPort
        <4>2. id[r] \in Connected /\ dev[r] = fds[id[r]]
          BY <1>0, <4>1 DEF UseSound, OwnPort
        <4>3. dev[r] # fds[ask] /\ dev[r] \in Paths
          BY <1>0, <4>1, <4>2, OtherDevice DEF UseTypes
        <4> QED
          BY <1>0, <3>1, <4>3 DEF TakeAnswer, UseTypes
      <3> QED
        BY <3>1, <3>2
    <2> QED
      BY <2>1, <2>2, <2>3, <2>4
  <1>3. ASSUME NEW r \in Undisturbed' PROVE OwnPort(r)'
    <2>1. r \in Undisturbed /\ r \in Readers /\ OwnPort(r)
      BY <1>0, <1>1, <1>2 DEF Undisturbed, Active, UseSound
    <2>2. UNCHANGED Expected(r)
      BY <1>1 DEF Expected
    <2>3. line'[dev[r]] = line[dev[r]]
      BY <1>2
    <2>4. asking' = "read" => ask' # id[r]
      BY <1>1, <1>2, <1>3 DEF Undisturbed
    <2> QED
      BY <1>1, <2>1, <2>2, <2>3, <2>4 DEF OwnPort, Pieces
  <1> QED
    BY <1>1, <1>2, <1>3 DEF UseSound

------------------------------------------------------------------------------
(* All steps. *)

LEMMA UseInvStep == UseInv /\ [UseNext]_useVars => UseInv'
  <1> SUFFICES ASSUME UseInv, [UseNext]_useVars, status' = "running" PROVE UseSound'
    BY TableInUse, UseTypesStep DEF UseInv
  <1>1. CASE UNCHANGED useVars
    <2>1. UNCHANGED <<status, ready, fds, opened, pc, path, asking, ask, at, id, dev, line,
                      upset, stale>>
      BY <1>1 DEF useVars, vars, tableVars, portVars, jobVars, readerVars, askVars, ghosts
    <2>2. UNCHANGED <<Active, Connected>> /\ \A r : UNCHANGED Expected(r)
      BY <2>1 DEF Active, Connected, Expected
    <2>3. UNCHANGED Undisturbed /\ \A r : OwnPort(r) => OwnPort(r)'
      BY <2>1, <2>2 DEF Undisturbed, OwnPort, Pieces
    <2> QED
      BY <2>1, <2>3 DEF UseInv, UseSound
  <1>2. CASE UseNext
    <2>1. status = "running"
      BY <1>2 DEF UseNext
    <2>2. CASE TableStep
      BY <2>1, <2>2, TableSound, UseTypesStep
    <2>3. CASE StartCrashes
      BY <2>3 DEF StartCrashes, Crash, Ends
    <2>4. CASE BeginAsk \/ AskWrites \/ AskReads
      BY <2>1, <2>4, AskSound
    <2>5. CASE \E r \in Readers : ReaderStep(r)
      BY <2>1, <2>5, ReaderSound
    <2>6. CASE \E r \in Readers : \E i \in Slots : StartReader(r, i)
      BY <2>1, <2>6, StartSound
    <2> QED
      BY <1>2, <2>2, <2>3, <2>4, <2>5, <2>6 DEF UseNext
  <1> QED
    BY <1>1, <1>2

(* A reader finds nothing but its own answers on the line of its own device  *)
(* until its VNA is shared, pinged or removed, and only the one it waits for *)
(* until it breaks off a pull: commands for other VNAs never reach it.       *)
THEOREM LineAlwaysOwn == UseSpec => []OwnLine
  <1>1. UseInv => OwnLine
    BY PiecesStay DEF UseInv, UseSound, Undisturbed, OwnPort, OwnLine, Port
  <1> QED
    BY <1>1, UseInvInitially, UseInvStep, PTL DEF UseSpec
=============================================================================

------------------------------ MODULE PortTable ------------------------------
(***************************************************************************)
(* The serial ports of the command parser: total_vnas and the three arrays *)
(* vna_names, vna_fds and vna_initial_settings, indexed by vna_id.  One    *)
(* command thread adds and removes ports; SIGINT may arrive between any    *)
(* two of its steps, and its handler tears the arrays down.                *)
(*                                                                         *)
(* A file descriptor is known by the path it was opened with.  The         *)
(* terminal settings of a port are RAW once configure_serial has set them; *)
(* before, they are the port's own, which are known by its path too.  A    *)
(* restore_serial that fails leaves the port raw and is reported at most.  *)
(* In C the names lie in memory of their own; here a name is NONE when the *)
(* pointer is NULL, and reading such a name in strcmp is the end of the    *)
(* process ("crashed"), and so is the use of an array that is not there; a *)
(* list that find_vnas is given but that could not be allocated ends it    *)
(* too ("starved").                                                        *)
(*                                                                         *)
(* Closing a failed port and clearing its entry (TestFails) is one step:   *)
(* for SIGINT it is the same as CloseEntry, where the steps are apart.     *)
(***************************************************************************)
EXTENDS Integers, FiniteSets

CONSTANTS
  MaxPorts,   (* MAXIMUM_VNA_PORTS                                          *)
  Paths,      (* device paths                                               *)
  TooLong,    (* those longer than MAXIMUM_VNA_PATH_LENGTH                  *)
  Vnas,       (* those with a NanoVNA-H behind them                         *)
  RAW, NONE,  (* the settings of a scan; an empty entry                     *)
  Faults      (* the calls that may fail                                    *)

ASSUME PortAssumption ==
  /\ MaxPorts \in Nat \ {0}
  /\ IsFiniteSet(Paths)
  /\ TooLong \subseteq Paths
  /\ Vnas \subseteq Paths
  /\ RAW # NONE
  /\ Paths \cap {RAW, NONE} = {}
  /\ Faults \subseteq {"open", "read", "malloc", "restore"}

VARIABLES
  ready,      (* the arrays are allocated                                   *)
  names,      (* vna_names: a path, or NONE                                 *)
  fds,        (* vna_fds: the path of the descriptor, or NONE for -1        *)
  saved,      (* vna_initial_settings                                       *)
  total,      (* total_vnas                                                 *)
  tty,        (* tty[p]: the settings of p at present                       *)
  opened,     (* the paths the process holds a descriptor of                *)
  lost,       (* ghost: the ports of which a restore has failed             *)
  pc,         (* where the command thread is                                *)
  path, slot, (* the port and the entry it is working on                    *)
  again,      (* add_all_vnas tries a port that fails once more             *)
  todo,       (* the paths add_all_vnas has still to add                    *)
  resetting,  (* inside vna_reset or initialise_port_array                  *)
  status      (* "running", "crashed", "starved", "killed" by SIGINT, or    *)
              (* "exited"                                                   *)

tableVars == <<ready, names, fds, saved, total>>
portVars == <<tty, opened, lost>>
jobVars == <<path, slot, again, todo>>
vars == <<tableVars, portVars, pc, jobVars, resetting, status>>

Slots == 0 .. MaxPorts-1
Connected == {i \in Slots : fds[i] # NONE}
Empty == [i \in Slots |-> NONE]

(* main, about to call initialise_port_array; total_vnas is a static 0.      *)
Init ==
  /\ ready = FALSE
  /\ names = Empty
  /\ fds = Empty
  /\ saved = Empty
  /\ total = 0
  /\ tty = [p \in Paths |-> p]
  /\ opened = {} /\ lost = {}
  /\ pc = "initialise"
  /\ path = NONE /\ slot = 0 /\ again = FALSE /\ todo = {}
  /\ resetting = TRUE
  /\ status = "running"

(* The result of initialise_port_array is ignored, in main and in vna_reset. *)
InitialisePortArray ==
  /\ pc = "initialise"
  /\ \/ ready' = TRUE /\ total' = 0
     \/ "malloc" \in Faults /\ UNCHANGED <<ready, total>>
  /\ names' = Empty
  /\ fds' = Empty
  /\ saved' = Empty
  /\ pc' = "idle"
  /\ resetting' = FALSE
  /\ UNCHANGED <<portVars, jobVars, status>>

------------------------------------------------------------------------------
(* in_vna_list, and the same loop in remove_vna_name: names are compared up  *)
(* to entry total - 1.                                                       *)

(* Mutant, or repair: an entry without a name is passed over.                *)
PassOver(p) == {}

(* The entries at which the loop ends, with a match or with a NULL name.     *)
EmptyNames(p) == {i \in Slots : i < total /\ names[i] = NONE}

Matches(p) == {i \in Slots : i < total /\ names[i] = p}

Listed(p) == \E i \in Matches(p) : \A j \in EmptyNames(p) : i < j
ReadsNull(p) == \E j \in EmptyNames(p) : \A i \in Matches(p) : j < i

Ends(how) ==
  /\ status' = how
  /\ UNCHANGED <<tableVars, portVars, pc, jobVars, resetting>>

Crash == Ends("crashed")

------------------------------------------------------------------------------
(* add_vna and add_all_vnas *)

Prompt == pc = "idle" /\ todo = {}

AddCommand(p) ==
  /\ Prompt
  /\ path' = p
  /\ again' = FALSE
  /\ pc' = "add"
  /\ UNCHANGED <<tableVars, portVars, slot, todo, resetting, status>>

(* find_vnas: of the ttyACM files there are, those that are not in the list, *)
(* MAXIMUM_VNA_PORTS of them at most, as readdir gives them.                 *)
Unlisted(found) == {p \in found : ~Listed(p) /\ ~ReadsNull(p)}
Chosen(found) ==
  IF Cardinality(found) <= MaxPorts THEN {found}
  ELSE {some \in SUBSET found : Cardinality(some) = MaxPorts}

FindVnas(found) ==
  /\ Prompt
  /\ IF \E p \in found : ReadsNull(p)
     THEN Crash
     ELSE /\ todo' \in Chosen(Unlisted(found))
          /\ UNCHANGED <<tableVars, portVars, pc, path, slot, again, resetting, status>>

(* The list of paths was not allocated, and is written to; or a path was     *)
(* not, and nothing is added.                                                *)
FindStarves(found) ==
  /\ Prompt
  /\ "malloc" \in Faults
  /\ Unlisted(found) # {}
  /\ \/ Ends("starved")
     \/ UNCHANGED vars

NextFound(p) ==
  /\ pc = "idle"
  /\ p \in todo
  /\ todo' = todo \ {p}
  /\ path' = p
  /\ again' = TRUE
  /\ pc' = "add"
  /\ UNCHANGED <<tableVars, portVars, slot, resetting, status>>

(* The command, or this port of add_all_vnas, is done with.                  *)
Done ==
  /\ pc' = "idle"
  /\ path' = NONE
  /\ slot' = 0
  /\ again' = FALSE
  /\ UNCHANGED <<todo, resetting, status>>

(* add_vna returns an error: add_all_vnas calls it once more.                *)
(* Mutant: and once more.                                                    *)
AddFailsAgain ==
  \/ ~again /\ Done
  \/ again /\ pc' = "add" /\ UNCHANGED <<jobVars, resetting, status>>

AddFails ==
  \/ ~again /\ Done
  \/ /\ again
     /\ pc' = "add"
     /\ again' = FALSE
     /\ UNCHANGED <<path, slot, todo, resetting, status>>

(* Mutant: a port that is in the list is added once more.                    *)
RefusedUnlessListed == total >= MaxPorts \/ path \in TooLong

Refused == total >= MaxPorts \/ path \in TooLong \/ Listed(path)

AddRefused ==
  /\ pc = "add"
  /\ Refused
  /\ AddFails
  /\ UNCHANGED <<tableVars, portVars>>

(* A NULL name, or open_serial with a NULL array to store the settings in.   *)
AddCrashes ==
  /\ pc = "add"
  /\ ~Refused
  /\ ReadsNull(path) \/ ~ready
  /\ Crash

MayOpen == pc = "add" /\ ~Refused /\ ~ReadsNull(path)

(* open fails, or the terminal settings cannot be read or set.               *)
OpenFails ==
  /\ MayOpen
  /\ "open" \in Faults
  /\ \/ UNCHANGED saved
     \/ ready /\ saved' = [saved EXCEPT ![total] = tty[path]]
  /\ AddFails
  /\ UNCHANGED <<ready, names, fds, total, portVars>>

(* open_serial: the settings are saved at index total_vnas.                  *)
OpenSerial ==
  /\ MayOpen
  /\ ready
  /\ saved' = [saved EXCEPT ![total] = tty[path]]
  /\ tty' = [tty EXCEPT ![path] = RAW]
  /\ opened' = opened \cup {path}
  /\ pc' = "opened"
  /\ UNCHANGED <<ready, names, fds, total, lost, jobVars, resetting, status>>

FirstFree(i) == fds[i] = NONE /\ \A j \in Slots : j < i => fds[j] # NONE

Register(i) ==
  /\ pc = "opened"
  /\ FirstFree(i)
  /\ fds' = [fds EXCEPT ![i] = path]
  /\ slot' = i
  /\ pc' = "testing"
  /\ UNCHANGED <<ready, names, saved, total, portVars, path, again, todo, resetting, status>>

(* test_vna.  If its read fails, it looks for the name in a buffer that was  *)
(* not written to and may find what an earlier call left there.              *)
TestPasses ==
  /\ pc = "testing"
  /\ path \in Vnas \/ "read" \in Faults
  /\ names' = [names EXCEPT ![slot] = path]
  /\ total' = total + 1
  /\ Done
  /\ UNCHANGED <<ready, fds, saved, portVars>>

(* Mutant: the settings are not restored.                                    *)
NotRestored(i) == tty

Restored(i) == [tty EXCEPT ![fds[i]] = saved[i]]

(* restore_serial on the port of an entry.                                   *)
RestoreSerial(i) ==
  \/ tty' = Restored(i) /\ UNCHANGED lost
  \/ "restore" \in Faults /\ UNCHANGED tty /\ lost' = lost \cup {fds[i]}

(* No answer, another device, or no memory for the name.                     *)
TestFails ==
  /\ pc = "testing"
  /\ RestoreSerial(slot)
  /\ opened' = opened \ {path}
  /\ fds' = [fds EXCEPT ![slot] = NONE]
  /\ AddFails
  /\ UNCHANGED <<ready, names, saved, total>>

------------------------------------------------------------------------------
(* remove_vna_name, remove_vna_number, vna_reset, teardown_port_array *)

(* Restore and close; the entry is cleared in the next step.                 *)
CloseEntry(i) ==
  /\ RestoreSerial(i)
  /\ opened' = opened \ {fds[i]}
  /\ slot' = i
  /\ pc' = "closed"
  /\ UNCHANGED <<tableVars, path, again, todo, status>>

RemoveName(p) ==
  /\ Prompt
  /\ Listed(p)
  /\ \E i \in Matches(p) : CloseEntry(i)
  /\ UNCHANGED resetting

RemoveCrashes(p) ==
  /\ Prompt
  /\ ReadsNull(p)
  /\ Crash

(* Mutant: the count is not updated.                                         *)
SameTotal == total

OneLess == total - 1

ClearEntry ==
  /\ pc = "closed"
  /\ fds' = [fds EXCEPT ![slot] = NONE]
  /\ names' = [names EXCEPT ![slot] = NONE]
  /\ total' = OneLess
  /\ slot' = 0
  /\ pc' = IF resetting THEN "teardown" ELSE "idle"
  /\ UNCHANGED <<ready, saved, portVars, path, again, todo, resetting, status>>

(* The reset commands it writes to the VNAs do not concern the table.        *)
VnaReset ==
  /\ Prompt
  /\ IF ready
     THEN /\ pc' = "teardown"
          /\ resetting' = TRUE
          /\ UNCHANGED <<tableVars, portVars, jobVars, status>>
     ELSE Crash

TearDownEntry(i) ==
  /\ pc = "teardown"
  /\ i \in Connected
  /\ \A j \in Connected : i <= j
  /\ CloseEntry(i)
  /\ UNCHANGED resetting

FreeArrays ==
  /\ pc = "teardown"
  /\ Connected = {}
  /\ ready' = FALSE
  /\ pc' = "initialise"
  /\ UNCHANGED <<names, fds, saved, total, portVars, jobVars, resetting, status>>

(* print_vnas without arrays; with them it prints, and what find_vnas does   *)
(* then is in FindVnas, without its paths.                                   *)
VnaList ==
  /\ Prompt
  /\ ~ready
  /\ Crash

(* The exit command: main returns, the kernel closes the descriptors, and    *)
(* nobody restores the settings of their ports.                              *)
Exit ==
  /\ Prompt
  /\ status' = "exited"
  /\ opened' = {}
  /\ UNCHANGED <<tableVars, tty, lost, pc, jobVars, resetting>>

------------------------------------------------------------------------------
(* fatal_error_signal: teardown_port_array on the arrays as they are, then   *)
(* the process ends.  tcsetattr on a closed descriptor does nothing.         *)
Held == {fds[i] : i \in Connected}
EntryOf(p) == CHOOSE i \in Connected : fds[i] = p

Sigint ==
  IF ready
  THEN /\ \E failing \in SUBSET (Held \cap opened) :
            /\ failing # {} => "restore" \in Faults
            /\ tty' = [p \in Paths |->
                         IF p \in (Held \cap opened) \ failing THEN saved[EntryOf(p)]
                         ELSE tty[p]]
            /\ lost' = lost \cup failing
       /\ opened' = {}
       /\ status' = "killed"
       /\ UNCHANGED <<tableVars, pc, jobVars, resetting>>
  ELSE Crash

(* add_vna without the conversation with the device.                         *)
AddQuietly ==
  \/ \E p \in Paths : NextFound(p)
  \/ AddRefused \/ AddCrashes \/ OpenFails \/ OpenSerial

AddStep ==
  \/ AddQuietly
  \/ \E i \in Slots : Register(i)
  \/ TestPasses \/ TestFails

RemoveStep ==
  \/ ClearEntry
  \/ \E i \in Slots : TearDownEntry(i)
  \/ FreeArrays \/ InitialisePortArray

ListCommand ==
  \/ \E p \in Paths : AddCommand(p) \/ RemoveName(p) \/ RemoveCrashes(p)
  \/ \E found \in SUBSET (Paths \ TooLong) : FindVnas(found) \/ FindStarves(found)
  \/ VnaList

Next ==
  /\ status = "running"
  /\ AddStep \/ RemoveStep \/ ListCommand \/ VnaReset \/ Exit \/ Sigint

Spec == Init /\ [][Next]_vars

(* A command that has been given is carried out; nobody has to give one.     *)
FairSpec ==
  Spec /\ WF_vars(status = "running" /\ (AddStep \/ RemoveStep))

------------------------------------------------------------------------------
(* Properties *)

(* Type invariant.                                                           *)
TypeOK ==
  /\ ready \in BOOLEAN
  /\ names \in [Slots -> Paths \cup {NONE}]
  /\ fds \in [Slots -> Paths \cup {NONE}]
  /\ saved \in [Slots -> Paths \cup {RAW, NONE}]
  /\ total \in 0 .. MaxPorts
  /\ tty \in [Paths -> Paths \cup {RAW, NONE}]
  /\ opened \subseteq Paths /\ lost \subseteq Paths
  /\ pc \in {"initialise", "idle", "add", "opened", "testing", "closed", "teardown"}
  /\ path \in Paths \cup {NONE}
  /\ slot \in Slots
  /\ again \in BOOLEAN
  /\ todo \subseteq Paths
  /\ resetting \in BOOLEAN
  /\ status \in {"running", "crashed", "starved", "killed", "exited"}

Alive == status \in {"running", "crashed", "starved"}

(* Between commands the three arrays, the count and the open descriptors     *)
(* tell the same story, whatever was added, removed, refused or reset:       *)
(* total_vnas entries are connected, each has its own name, no port is       *)
(* connected twice, and no descriptor is leaked.                             *)
TableAgrees ==
  pc = "idle" /\ ready /\ Alive =>
    /\ total = Cardinality(Connected)
    /\ names = fds
    /\ opened = Held
    /\ \A i, j \in Connected : fds[i] = fds[j] => i = j

(* The settings a port has when nobody uses it: its own, for ever raw once   *)
(* a restore has failed, because the next add_vna saves what it finds.       *)
Own(p) == IF p \in lost THEN RAW ELSE p

(* add_vna saves the settings at index total_vnas and later restores them    *)
(* from index vna_id.  The two are the same: an entry that is in use always  *)
(* holds the settings its own port had before it was opened.                 *)
OwnSettings ==
  /\ ready => \A i \in Connected : fds[i] \in opened => saved[i] = Own(fds[i])
  /\ pc = "opened" => FirstFree(total) /\ saved[total] = Own(path)

(* A port the process does not hold has its own settings back if no restore  *)
(* has failed, and SIGINT at any moment leaves every port so, except in the  *)
(* moment between open_serial and the store to vna_fds.  The exit command    *)
(* leaves every port that is in the table raw.                               *)
SettingsComeBack ==
  /\ Alive => \A p \in Paths \ opened : tty[p] = Own(p)
  /\ status = "killed" /\ pc # "opened" => \A p \in Paths : tty[p] = Own(p)
  /\ status = "exited" => \A p \in Paths : tty[p] = IF p \in Held THEN RAW ELSE Own(p)

(* With its arrays allocated, and with memory for the list that find_vnas    *)
(* fills unchecked, the process dies of a vna command only if a VNA was      *)
(* removed that was not the last one: a name that strcmp is given is there   *)
(* otherwise.                                                                *)
CrashNeedsHole ==
  status = "crashed" /\ ready =>
    \E i, j \in Slots : i < j /\ fds[i] = NONE /\ fds[j] # NONE

(* vna add and vna remove always come back to the prompt, also when devices  *)
(* fail and are tried again.                                                 *)
CommandsEnd == []<>(Prompt \/ status # "running")
==============================================================================

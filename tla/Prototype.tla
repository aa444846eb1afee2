------------------------------ MODULE Prototype ------------------------------
(***************************************************************************)
(* Experiments/VnaScan.c, the one-shot program for one VNA: open the port, *)
(* keep its settings and make it raw, send one scan command, look for the  *)
(* header, read the points, put the settings back.  SIGINT may arrive      *)
(* between any two steps; its handler knows the port and its settings from *)
(* two global variables, which main sets one after the other.  A call that *)
(* fails is reported, or not even that, and the program goes on with what  *)
(* there is: settings that were never read, memory that is not there.      *)
(***************************************************************************)
EXTENDS Integers, Sequences

CONSTANTS
  MASK,       (* the mask of the scan command: 135 in the code              *)
  POINTS,     (* points asked for: 101 in the code                          *)
  PointSize,  (* bytes of a point: 20 in the code                           *)
  MaxNoise,   (* bound: bytes of echo before the header                     *)
  MaxCount,   (* bound: points counted by details that are not the header   *)
  Faults      (* the calls that may fail, "get", "set" and "restore" being  *)
              (* those of tcgetattr and tcsetattr; "slow": gaps that end a  *)
              (* read early; "hangup": the device goes away                 *)

ASSUME PrototypeAssumption ==
  /\ MASK \in 1 .. 255 /\ POINTS \in 1 .. 255 /\ MASK # POINTS
  /\ PointSize \in Nat \ {0}
  /\ MaxNoise \in Nat /\ MaxCount \in Nat
  /\ Faults \subseteq {"open", "get", "set", "restore", "malloc", "write", "read", "slow",
                     "hangup"}

VARIABLES
  pc,         (* the next statement of main, or "ended"                     *)
  isOpen,     (* open has succeeded                                         *)
  tty,        (* settings of the port: "own", "raw" or "garbage"            *)
  kept,       (* those in initial_tty: "nothing" yet, "own", or "garbage"   *)
  refused,    (* ghost: the last tcsetattr that was to restore them failed  *)
  console,    (* settings of stdin: "own", or "port" if those of the port   *)
  pointer,    (* initial_port_settings_global: "NULL", "kept" or "freed"    *)
  portGlobal, (* serial_port_global: "stdin" (0) or "port"                  *)
  line,       (* bytes to come                                              *)
  hungUp,     (* reads return 0                                             *)
  window,     (* short_buffer                                               *)
  details,    (* the two words of the window                                *)
  count,      (* points still to be read                                    *)
  data,       (* what has been read into data                               *)
  noData,     (* data is NULL                                               *)
  exit,       (* "no", "returned", "killed" by SIGINT, "crashed" or         *)
              (* "undefined"                                                *)
  at,         (* ghost: pc when SIGINT came                                 *)
  clean       (* ghost: nothing went wrong that the program does not notice *)

settingVars == <<tty, kept, refused, console>>
portVars == <<isOpen, settingVars>>
globalVars == <<pointer, portGlobal>>
readVars == <<line, window, details, count, data, noData>>
vars == <<pc, portVars, globalVars, readVars, hungUp, exit, at, clean>>

(* Bytes: those of the echo, of the header (two words, low byte first), and  *)
(* of the points, each known by its place.                                   *)
Echo == 1
Header == <<MASK, 0, POINTS, 0>>
Points == [i \in 1 .. POINTS * PointSize |-> 200 + i]
Word(low, high) == low + 256 * high
NothingYet == 0

(* details is not initialised: one of its words, or both, may happen to be   *)
(* what is looked for.                                                       *)
Init ==
  /\ pc = "open"
  /\ isOpen = FALSE
  /\ tty = "own" /\ kept = "nothing" /\ refused = FALSE /\ console = "own"
  /\ pointer = "NULL" /\ portGlobal = "stdin"
  /\ line = << >> /\ hungUp = FALSE
  /\ window = << >>
  /\ details \in {NothingYet, MASK} \X (0 .. MaxCount)
  /\ count = 0 /\ data = << >> /\ noData = FALSE
  /\ exit = "no" /\ at = "" /\ clean = (details[1] # MASK /\ details[2] # POINTS)

------------------------------------------------------------------------------
Go(from, to) == pc = from /\ exit = "no" /\ pc' = to

(* The program writes through NULL.                                          *)
Crash ==
  /\ exit' = "crashed"
  /\ UNCHANGED <<pc, portVars, globalVars, readVars, hungUp, at, clean>>

(* The result of open is reported and not acted on.                          *)
Open ==
  /\ Go("open", "tcsetattr")
  /\ isOpen' \in {TRUE} \cup (IF "open" \in Faults THEN {FALSE} ELSE {})
  /\ UNCHANGED <<settingVars, globalVars, readVars, hungUp, exit, at, clean>>

(* Mutant: the kept settings are not made known to the handler.              *)
NeverPublished == "store"
AfterRaw == "publish"

(* init_serial_settings: what tcgetattr has not read is whatever malloc gave.*)
MakeRaw ==
  /\ Go("tcsetattr", AfterRaw)
  /\ kept' \in (IF isOpen THEN {"own"} ELSE {}) \cup
               (IF ~isOpen \/ "get" \in Faults THEN {"garbage"} ELSE {})
  /\ tty' \in (IF isOpen THEN {"raw"} ELSE {}) \cup
              (IF ~isOpen \/ "set" \in Faults THEN {tty} ELSE {})
  /\ UNCHANGED <<isOpen, refused, console, globalVars, readVars, hungUp, exit, at, clean>>

(* No memory for the settings, or for the text of the command.               *)
NoMemory ==
  /\ pc \in {"tcsetattr", "write"} /\ exit = "no"
  /\ "malloc" \in Faults
  /\ Crash

Publish ==
  /\ Go("publish", "store")
  /\ pointer' = "kept"
  /\ UNCHANGED <<portVars, portGlobal, readVars, hungUp, exit, at, clean>>

StorePort ==
  /\ Go("store", "write")
  /\ portGlobal' = "port"
  /\ UNCHANGED <<portVars, pointer, readVars, hungUp, exit, at, clean>>

(* The device answers with its echo, the header and the points.  Whether the *)
(* write succeeds is not looked at.                                          *)
WriteScan ==
  /\ Go("write", "first")
  /\ \/ \E k \in 0 .. MaxNoise : line' =
          IF isOpen /\ ~hungUp THEN [i \in 1 .. k |-> Echo] \o Header \o Points ELSE line
     \/ "write" \in Faults /\ UNCHANGED line
  /\ UNCHANGED <<portVars, globalVars, window, details, count, data, noData, hungUp, exit, at,
                 clean>>

(* read of n bytes: waits for them (not for ever: a gap ends it), 0 bytes if *)
(* the device is gone.                                                       *)
Arrives(n, k) ==
  /\ isOpen
  /\ \/ k = n /\ Len(line) >= n
     \/ "slow" \in Faults /\ k \in 1 .. n-1 /\ Len(line) >= k
     \/ hungUp /\ k = 0

(* A bad descriptor, an error, or no memory to read into.                    *)
ReadFails ==
  /\ pc \in {"first", "search", "points"} /\ exit = "no"
  /\ ~isOpen \/ "read" \in Faults \/ noData
  /\ pc' = "restore"
  /\ clean' = FALSE
  /\ UNCHANGED <<portVars, globalVars, readVars, hungUp, exit, at>>

(* The first four bytes are not looked at; the window is not initialised.    *)
ReadWindow ==
  /\ Go("first", "search")
  /\ \E k \in 0 .. 4, left \in {NothingYet, Echo} :
       /\ Arrives(4, k)
       /\ window' = SubSeq(line, 1, k) \o [i \in 1 .. 4 - k |-> left]
       /\ line' = SubSeq(line, k + 1, Len(line))
       /\ clean' = (clean /\ k = 4 /\ window' # Header)
  /\ UNCHANGED <<portVars, globalVars, details, count, data, noData, hungUp, exit, at>>

(* One right word ends the search.                                           *)
Searching == details[1] # MASK /\ details[2] # POINTS

(* One byte more; when the device is gone, the one before once more.         *)
SearchHeader ==
  /\ Go("search", "search")
  /\ Searching
  /\ \E k \in 0 .. 1 :
       /\ Arrives(1, k)
       /\ window' = Append(Tail(window), IF k = 1 THEN Head(line) ELSE window[4])
       /\ line' = SubSeq(line, k + 1, Len(line))
       /\ details' = <<Word(window'[1], window'[2]), Word(window'[3], window'[4])>>
       /\ clean' = (clean /\ k = 1)
  /\ UNCHANGED <<portVars, globalVars, count, data, noData, hungUp, exit, at>>

(* The number of points is taken from the line.                              *)
HeaderFound ==
  /\ Go("search", "points")
  /\ ~Searching
  /\ count' = details[2]
  /\ noData' \in {FALSE} \cup (IF "malloc" \in Faults /\ details[2] > 0 THEN {TRUE} ELSE {})
  /\ UNCHANGED <<portVars, globalVars, line, window, details, data, hungUp, exit, at, clean>>

(* Mutant: a point is read into the place of the one before.                 *)
LastPointOnly(p) == p

Stored(p) == data \o p

(* A point of too few bytes is reported and kept.                            *)
ReadPoint ==
  /\ Go("points", "points")
  /\ count > 0
  /\ ~noData
  /\ count' = count - 1
  /\ \E k \in 0 .. PointSize :
       /\ Arrives(PointSize, k)
       /\ data' = Stored(SubSeq(line, 1, k))
       /\ line' = SubSeq(line, k + 1, Len(line))
       /\ clean' = (clean /\ k = PointSize)
  /\ UNCHANGED <<portVars, globalVars, window, details, noData, hungUp, exit, at>>

(* Nothing is written through NULL as long as nothing comes.                 *)
ReadNothing ==
  /\ Go("points", "points")
  /\ count > 0
  /\ noData /\ Arrives(PointSize, 0)
  /\ count' = count - 1
  /\ clean' = FALSE
  /\ UNCHANGED <<portVars, globalVars, line, window, details, data, noData, hungUp, exit, at>>

(* The points are printed.                                                   *)
ReportCrashes ==
  /\ pc = "points" /\ exit = "no"
  /\ count = 0 /\ noData
  /\ Crash

Report ==
  /\ Go("points", "restore")
  /\ count = 0 /\ ~noData
  /\ UNCHANGED <<portVars, globalVars, readVars, hungUp, exit, at, clean>>

(* tcsetattr on the port; that it fails is printed.                          *)
GiveBack ==
  \/ isOpen /\ tty' = kept /\ refused' = FALSE
  \/ (~isOpen \/ hungUp \/ "restore" \in Faults) /\ UNCHANGED tty /\ refused' = TRUE

(* close_and_reset, statement by statement.                                  *)
Restore ==
  /\ Go("restore", "free")
  /\ GiveBack
  /\ UNCHANGED <<isOpen, kept, console, globalVars, readVars, hungUp, exit, at, clean>>

Free ==
  /\ Go("free", "clear")
  /\ pointer' = "freed"
  /\ UNCHANGED <<portVars, portGlobal, readVars, hungUp, exit, at, clean>>

Clear ==
  /\ Go("clear", "close")
  /\ pointer' = "NULL"
  /\ UNCHANGED <<portVars, portGlobal, readVars, hungUp, exit, at, clean>>

Close ==
  /\ Go("close", "ended")
  /\ isOpen' = FALSE
  /\ exit' = "returned"
  /\ UNCHANGED <<settingVars, globalVars, readVars, hungUp, at, clean>>

(* fatal_error_signal and the end of the process.  serial_port_global is 0   *)
(* at first: the settings of the port are given to stdin, if that takes any. *)
(* Settings that have been freed hold anything, and are freed once more.     *)
Sigint ==
  /\ exit = "no"
  /\ at' = pc
  /\ CASE pointer = "NULL" -> exit' = "killed" /\ UNCHANGED settingVars
       [] pointer = "freed" ->
            exit' = "undefined" /\ tty' \in {tty, "garbage"} /\ UNCHANGED <<kept, refused, console>>
       [] pointer = "kept" /\ portGlobal = "port" ->
            exit' = "killed" /\ GiveBack /\ UNCHANGED <<kept, console>>
       [] pointer = "kept" /\ portGlobal = "stdin" ->
            exit' = "killed" /\ console' \in {console, "port"} /\ UNCHANGED <<tty, kept, refused>>
  /\ UNCHANGED <<pc, isOpen, globalVars, readVars, hungUp, clean>>

HangUp ==
  /\ "hangup" \in Faults /\ isOpen /\ exit = "no"
  /\ hungUp' = TRUE
  /\ line' = << >>
  /\ UNCHANGED <<pc, portVars, globalVars, window, details, count, data, noData, exit, at, clean>>

MainStep ==
  \/ Open \/ MakeRaw \/ NoMemory \/ Publish \/ StorePort \/ WriteScan
  \/ ReadFails \/ ReadWindow \/ SearchHeader \/ HeaderFound \/ ReadPoint \/ ReadNothing
  \/ Report \/ ReportCrashes
  \/ Restore \/ Free \/ Clear \/ Close

Next == MainStep \/ Sigint \/ HangUp

Spec == Init /\ [][Next]_vars

------------------------------------------------------------------------------
(* Properties *)

(* However the program ends, the port has its own settings back and those of *)
(* stdin are untouched, with these exceptions: SIGINT comes before the       *)
(* settings are published, with the port raw already, before the number of   *)
(* the port is, or between free and the reset of the pointer, where the      *)
(* settings are used and freed once more; the settings could not be read at  *)
(* first; the call that was to restore them failed; or the process died of   *)
(* memory it did not get, for the command or for the points: nothing is      *)
(* restored then.                                                            *)
InterruptRestores ==
  /\ exit \in {"returned", "killed"} /\ at \notin {"publish", "store"} =>
       tty = "own" \/ kept = "garbage" \/ refused
  /\ exit # "no" /\ at # "store" => console = "own"
  /\ exit = "undefined" => at = "clear"
  /\ exit = "crashed" => tty = "own" \/ pc \in {"write", "points"}

(* What is printed is the answer, whole and in order, unless details held    *)
(* something by chance, the header was in the first four bytes, a read was   *)
(* short or failed, or the device went away.                                 *)
AnswerWhole == pc = "restore" /\ clean => data = Points
==============================================================================

------------------------------- MODULE VnaUse -------------------------------
(***************************************************************************)
(* The port table in use: the readers of scans write to and read from the  *)
(* descriptors in vna_fds, without a lock, while the command thread may    *)
(* ping, reset, remove and add VNAs, and may start a second scan of a VNA. *)
(*                                                                         *)
(* line[p] is what device p has still to deliver: an answer to a scan      *)
(* command is its header and its points, known by the reader that asked;   *)
(* the answer to info or version is one piece.  Any read may fail or time  *)
(* out, and what it has not taken stays on the line; a piece it has half   *)
(* taken counts as one it has not, or joins the next one: both are passed  *)
(* over.                                                                   *)
(***************************************************************************)
EXTENDS PortTable, Sequences

CONSTANTS
  Readers,    (* threads that run scan_producer or sweep_producer            *)
  MaxPending  (* bound: pieces on a line when a scan command is written, and *)
              (* when a question has been                                    *)

ASSUME UseAssumption == NONE \notin Readers /\ MaxPending \in Nat

VARIABLES
  at,         (* at[r]: "none", or before the "write" of the scan command,   *)
              (* the search for the "header", the read of the "points"       *)
  id,         (* id[r]: its vna_id                                           *)
  line,
  asking,     (* vna ping or vna id: "none", "write" or "read"               *)
  ask,        (* the entry it has come to                                    *)
  dev,        (* ghost: the device at that entry when the scan began         *)
  upset,      (* ghost: readers that did not have their line for themselves  *)
  stale       (* ghost: readers that left part of an answer on their line    *)

readerVars == <<at, id, dev>>
askVars == <<asking, ask>>
ghosts == <<upset, stale>>
useVars == <<vars, readerVars, askVars, line, ghosts>>

UseInit ==
  /\ Init
  /\ at = [r \in Readers |-> "none"]
  /\ id = [r \in Readers |-> 0]
  /\ dev = [r \in Readers |-> NONE]
  /\ line = [p \in Paths |-> << >>]
  /\ asking = "none" /\ ask = 0
  /\ upset = {} /\ stale = {}

Active == {r \in Readers : at[r] # "none"}

Info == <<NONE, "info">>
Answer(r) == <<<<r, "header">>, <<r, "points">>>>

(* tcflush: what has already come is dropped, what is still to be sent is    *)
(* not.  A read that fails, or times out, may have taken something, too.     *)
Suffixes(s) == {SubSeq(s, k, Len(s)) : k \in 1 .. Len(s)+1}

Rest(s) == IF s = << >> THEN s ELSE Tail(s)

(* test_vna, and the body of the loop of vna_id: flush, ask, read.           *)
AskLine(p) ==
  \E s \in Suffixes(line[p]) :
    /\ Len(s) < MaxPending
    /\ line' = [line EXCEPT ![p] = Append(s, Info)]

TakeAnswer(p) ==
  \/ line' = [line EXCEPT ![p] = Rest(@)]
  \/ "read" \in Faults /\ UNCHANGED line

------------------------------------------------------------------------------
(* The command thread on the table.  (exit and SIGINT end the process and    *)
(* its readers; what they do to the ports is in PortTable.)                  *)

(* The reset commands: a VNA that starts anew sends nothing more.            *)
ResetVnas ==
  /\ VnaReset
  /\ line' = [p \in Paths |->
                IF \E i \in Connected : i < total /\ fds[i] = p THEN << >> ELSE line[p]]

TableStep ==
  /\ asking = "none"
  /\ \/ (AddQuietly \/ RemoveStep \/ ListCommand) /\ UNCHANGED line
     \/ (\E i \in Slots : Register(i)) /\ AskLine(path)
     \/ TestPasses /\ TakeAnswer(path)
     \/ TestFails /\ TakeAnswer(path)
     \/ ResetVnas
  /\ upset' = upset \cup {r \in Active : dev[r] \notin opened' \/ pc' = "teardown"}
  /\ UNCHANGED <<readerVars, askVars, stale>>

(* scan and sweep start: the ids, all of the connected VNAs or those of the  *)
(* line, are checked once, and one may be given twice.  Readers of one scan  *)
(* are like readers of two.                                                  *)
StartReader(r, i) ==
  /\ Prompt /\ asking = "none"
  /\ ready /\ i \in Connected
  /\ at[r] = "none"
  /\ at' = [at EXCEPT ![r] = "write"]
  /\ id' = [id EXCEPT ![r] = i]
  /\ dev' = [dev EXCEPT ![r] = fds[i]]
  /\ upset' = IF line[fds[i]] = << >> /\ \A q \in Active : id[q] # i
              THEN upset
              ELSE upset \cup {r} \cup {q \in Active : id[q] = i}
  /\ UNCHANGED <<vars, askVars, line, stale>>

(* is_connected without arrays.                                              *)
StartCrashes ==
  /\ Prompt /\ asking = "none"
  /\ ~ready
  /\ Crash
  /\ UNCHANGED <<readerVars, askVars, line, ghosts>>

------------------------------------------------------------------------------
(* vna ping and vna id: entries 0 to total - 1, connected or not.  (Without  *)
(* arrays there are none.)                                                   *)
BeginAsk ==
  /\ Prompt /\ asking = "none"
  /\ total > 0
  /\ asking' = "write"
  /\ ask' = 0
  /\ UNCHANGED <<vars, readerVars, line, ghosts>>

NextEntry ==
  /\ asking' = IF ask + 1 < total THEN "write" ELSE "none"
  /\ ask' = IF ask + 1 < total THEN ask + 1 ELSE 0

AskWrites ==
  /\ asking = "write"
  /\ IF fds[ask] = NONE
     THEN NextEntry /\ UNCHANGED <<line, upset>>
     ELSE /\ AskLine(fds[ask])
          /\ upset' = upset \cup {r \in Active : id[r] = ask}
          /\ asking' = "read"
          /\ UNCHANGED ask
  /\ UNCHANGED <<vars, readerVars, stale>>

AskReads ==
  /\ asking = "read"
  /\ TakeAnswer(fds[ask])
  /\ NextEntry
  /\ UNCHANGED <<vars, readerVars, ghosts>>

------------------------------------------------------------------------------
(* A reader: pull_scan, again and again until its scan ends.                 *)
Port(r) == fds[id[r]]

(* The descriptor is -1, or was closed.                                      *)
NoPort(r) == Port(r) \notin opened

(* vna_fds is NULL.                                                          *)
ReaderCrashes(r) ==
  /\ r \in Active
  /\ ~ready
  /\ Crash
  /\ UNCHANGED <<readerVars, askVars, line, ghosts>>

MayRead(r, point) == ready /\ at[r] = point

(* The descriptor is bad, or there was nothing to come: the next pull.       *)
PullFails(r) ==
  /\ r \in Active
  /\ ready
  /\ NoPort(r) \/ (at[r] # "write" /\ ~NoPort(r) /\ line[Port(r)] = << >>)
  /\ at' = [at EXCEPT ![r] = "write"]
  /\ UNCHANGED <<vars, id, dev, askVars, line, ghosts>>

(* No memory for the answer, an error, a timeout or the end of the search in *)
(* the middle of it: what has not been read is still to come.                *)
PullBreaksOff(r) ==
  /\ ready /\ at[r] \in {"header", "points"} /\ ~NoPort(r)
  /\ Faults \cap {"malloc", "read"} # {}
  /\ \E s \in Suffixes(line[Port(r)]) :
       /\ line' = [line EXCEPT ![Port(r)] = s]
       /\ stale' = IF s = << >> THEN stale ELSE stale \cup {r}
  /\ at' = [at EXCEPT ![r] = "write"]
  /\ UNCHANGED <<vars, id, dev, askVars, upset>>

WriteScan(r) ==
  /\ MayRead(r, "write") /\ ~NoPort(r)
  /\ Len(line[Port(r)]) <= MaxPending
  /\ line' = [line EXCEPT ![Port(r)] = @ \o Answer(r)]
  /\ at' = [at EXCEPT ![r] = "header"]
  /\ UNCHANGED <<vars, id, dev, askVars, ghosts>>

(* find_binary_header passes over everything else.                           *)
SkipPiece(r) ==
  /\ MayRead(r, "header") /\ ~NoPort(r)
  /\ line[Port(r)] # << >> /\ Head(line[Port(r)])[2] # "header"
  /\ line' = [line EXCEPT ![Port(r)] = Tail(@)]
  /\ UNCHANGED <<vars, readerVars, askVars, ghosts>>

FindHeader(r) ==
  /\ MayRead(r, "header") /\ ~NoPort(r)
  /\ line[Port(r)] # << >> /\ Head(line[Port(r)])[2] = "header"
  /\ line' = [line EXCEPT ![Port(r)] = Tail(@)]
  /\ at' = [at EXCEPT ![r] = "points"]
  /\ UNCHANGED <<vars, id, dev, askVars, ghosts>>

(* The next bytes are the points, whatever they are.                         *)
ReadPoints(r) ==
  /\ MayRead(r, "points") /\ ~NoPort(r)
  /\ line[Port(r)] # << >>
  /\ line' = [line EXCEPT ![Port(r)] = Tail(@)]
  /\ at' = [at EXCEPT ![r] = "write"]
  /\ UNCHANGED <<vars, id, dev, askVars, ghosts>>

(* Its scan is over or has been stopped.                                     *)
ReaderEnds(r) ==
  /\ at[r] = "write"
  /\ at' = [at EXCEPT ![r] = "none"]
  /\ id' = [id EXCEPT ![r] = 0]
  /\ dev' = [dev EXCEPT ![r] = NONE]
  /\ upset' = upset \ {r} /\ stale' = stale \ {r}
  /\ UNCHANGED <<vars, askVars, line>>

ReaderStep(r) ==
  \/ ReaderCrashes(r) \/ PullFails(r) \/ PullBreaksOff(r) \/ WriteScan(r)
  \/ SkipPiece(r) \/ FindHeader(r) \/ ReadPoints(r) \/ ReaderEnds(r)

UseNext ==
  /\ status = "running"
  /\ \/ TableStep \/ StartCrashes
     \/ BeginAsk \/ AskWrites \/ AskReads
     \/ \E r \in Readers : ReaderStep(r) \/ \E i \in Slots : StartReader(r, i)

UseSpec == UseInit /\ [][UseNext]_useVars

------------------------------------------------------------------------------
(* Properties *)

(* What an undisturbed reader may find on its line.                          *)
Expected(r) ==
  CASE at[r] = "write" -> << >>
    [] at[r] = "header" -> Answer(r)
    [] at[r] = "points" -> Tail(Answer(r))

(* A datapoint carries the vna_id of the device it was asked of and holds    *)
(* that device's answer to this reader, and no reader ends the process,      *)
(* unless the line was not quiet when the scan began, was used by another    *)
(* scan, or a vna command came to it: until then a reader finds nothing but  *)
(* its own answers on the line of its own device, whatever is added,         *)
(* removed, pinged or scanned elsewhere, and but the one it is waiting for   *)
(* if it has not broken off a pull before that one was read to the end.      *)
OwnLine ==
  status = "running" =>
    \A r \in Active \ upset :
      /\ ready /\ Port(r) = dev[r] /\ dev[r] \in opened
      /\ \A k \in DOMAIN line[dev[r]] : line[dev[r]][k][1] = r
      /\ r \notin stale => line[dev[r]] = Expected(r)
=============================================================================

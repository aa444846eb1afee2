------------------------------ MODULE DataPull -------------------------------
(***************************************************************************)
(* pull_scan and find_binary_header: a reader thread sends a scan command  *)
(* to a VNA and takes the answer from the byte stream of the serial line.  *)
(* The answer is some text (the echo of the command), a header of four     *)
(* bytes, Points points of PointSize bytes, and a prompt.  The reader      *)
(* reads PointSize bytes at a time and looks for the header in a window of *)
(* four bytes.                                                             *)
(*                                                                         *)
(* Of a byte the model knows what it belongs to, not its value: text and   *)
(* data are never taken for a header.                                      *)
(*                                                                         *)
(* read_exact is one step: it takes its n bytes, or it times out, having   *)
(* taken the fewer than n there are, or it fails.  A write_command that    *)
(* fails ends the pull before it has changed anything, and is left out.    *)
(* Scans that run at the same time and use the same VNA are several        *)
(* Readers of one line.                                                    *)
(***************************************************************************)
EXTENDS Integers, Sequences, FiniteSets

CONSTANTS
  Readers,    (* reader threads on this VNA                                 *)
  PointSize,  (* sizeof(struct nanovna_raw_datapoint)                       *)
  Points,     (* pps                                                        *)
  MaxBytes,   (* max_bytes                                                  *)
  Devices,    (* the VNAs considered: lengths of echo and prompt            *)
  MaxJunk,    (* bytes left unread by the commands before the first pull    *)
  MaxPulls    (* bound on the number of commands sent                       *)

ASSUME PullAssumption ==
  /\ IsFiniteSet(Readers)
  /\ PointSize \in Nat /\ PointSize >= 4
  /\ Points \in Nat \ {0}
  /\ MaxBytes \in Nat /\ MaxJunk \in Nat /\ MaxPulls \in Nat
  /\ Devices \subseteq [echo : Nat, prompt : Nat]

VARIABLES
  device,     (* the VNA on the line                                        *)
  pending,    (* commands the VNA has not begun to answer                   *)
  sending,    (* bytes of its present answer still to come                  *)
  wire,       (* bytes that have arrived and have not been read             *)
  sent,       (* number of commands sent                                    *)
  pc,         (* per reader: where it is                                    *)
  command,    (* per reader: the command it sent last                       *)
  window,     (* per reader: the four bytes looked at                       *)
  chunk,      (* per reader: the bytes read last                            *)
  used,       (* per reader: how many of them precede the first point       *)
  count,      (* per reader: bytes looked at                                *)
  data,       (* per reader: the points so far                              *)
  ahead,      (* ghost: bytes ahead of the header when the command was sent *)
  late        (* ghost: a pull has failed, its answer may still be read     *)

deviceVars == <<device, pending, sending>>
readerVars == <<pc, command, window, chunk, used, count, data>>
vars == <<deviceVars, wire, sent, readerVars, ahead, late>>

Byte(kind, c, k) == [kind |-> kind, of |-> c, pos |-> k]
Text(n) == [k \in 1 .. n |-> Byte("text", 0, 0)]
Header(c) == [k \in 1 .. 4 |-> Byte("header", c, k)]
Body(c) == [k \in 1 .. PointSize * Points |-> Byte("data", c, k)]
Answer(c) == Text(device.echo) \o Header(c) \o Body(c) \o Text(device.prompt)

Init ==
  /\ device \in Devices
  /\ pending = <<>> /\ sending = <<>>
  /\ wire \in {Text(n) : n \in 0 .. MaxJunk}
  /\ sent = 0
  /\ pc = [r \in Readers |-> "idle"]
  /\ command = [r \in Readers |-> 0]
  /\ window = [r \in Readers |-> <<>>]
  /\ chunk = [r \in Readers |-> <<>>]
  /\ used = [r \in Readers |-> 0]
  /\ count = [r \in Readers |-> 0]
  /\ data = [r \in Readers |-> <<>>]
  /\ ahead = 0
  /\ late = FALSE

------------------------------------------------------------------------------
(* The VNA answers one command after the other.                              *)

BeginAnswer ==
  /\ sending = <<>>
  /\ pending # <<>>
  /\ sending' = Answer(Head(pending))
  /\ pending' = Tail(pending)
  /\ UNCHANGED <<device, wire, sent, readerVars, ahead, late>>

SendByte ==
  /\ sending # <<>>
  /\ wire' = Append(wire, Head(sending))
  /\ sending' = Tail(sending)
  /\ UNCHANGED <<device, pending, sent, readerVars, ahead, late>>

------------------------------------------------------------------------------
(* pull_scan *)

Set(f, r, v) == [f EXCEPT ![r] = v]

WriteCommand(r) ==
  /\ pc[r] = "idle"
  /\ sent < MaxPulls
  /\ sent' = sent + 1
  /\ pending' = Append(pending, sent + 1)
  /\ command' = Set(command, r, sent + 1)
  /\ ahead' = Len(wire) + Len(sending) + device.echo
  /\ pc' = Set(pc, r, "first")
  /\ data' = Set(data, r, <<>>)
  /\ UNCHANGED <<device, sending, wire, window, chunk, used, count, late>>

(* Either malloc fails when the command has been sent.                       *)
AllocationFails(r) ==
  /\ pc[r] = "first"
  /\ pc' = Set(pc, r, "idle")
  /\ late' = TRUE
  /\ UNCHANGED <<deviceVars, wire, sent, command, window, chunk, used, count, data, ahead>>

KeepsLooking(r) == count[r] <= MaxBytes

(* Bytes the reader's next read_exact asks for, 0 if it does not read.       *)
Wanted(r) ==
  CASE pc[r] = "first"     -> PointSize
    [] pc[r] = "search"    -> IF KeepsLooking(r) THEN PointSize ELSE 0
    [] pc[r] = "remainder" -> used[r]
    [] pc[r] = "points"    -> PointSize
    [] OTHER               -> 0

Arrived(n) == n <= Len(wire)
Taken(n) == SubSeq(wire, 1, n)
Rest(n) == SubSeq(wire, n + 1, Len(wire))

TimesOut(r) ==
  /\ ~Arrived(Wanted(r))
  /\ wire' = <<>>
  /\ pc' = Set(pc, r, "idle")
  /\ late' = TRUE
  /\ UNCHANGED <<deviceVars, sent, command, window, chunk, used, count, data, ahead>>

(* A read of the serial line fails, perhaps when a part of the n has come.   *)
ReadFails(r) ==
  /\ \E n \in 0 .. Wanted(r)-1 : Arrived(n) /\ wire' = Rest(n)
  /\ pc' = Set(pc, r, "idle")
  /\ late' = TRUE
  /\ UNCHANGED <<deviceVars, sent, command, window, chunk, used, count, data, ahead>>

(* find_binary_header *)

IsHeader(w) == \A k \in 1 .. 4 : w[k].kind = "header" /\ w[k].pos = k

LastFour(s) == SubSeq(s, Len(s) - 3, Len(s))

ReadFirst(r) ==
  /\ pc[r] = "first"
  /\ Arrived(PointSize)
  /\ chunk' = Set(chunk, r, Taken(PointSize))
  /\ wire' = Rest(PointSize)
  /\ window' = Set(window, r, Taken(4))
  /\ used' = Set(used, r, 4)
  /\ count' = Set(count, r, 4)
  /\ pc' = Set(pc, r, IF IsHeader(Taken(4)) THEN "remainder" ELSE "search")
  /\ UNCHANGED <<deviceVars, sent, command, data, ahead, late>>

(* The window after the first i bytes of a new chunk.                        *)
(* Mutant: the window does not reach back into the chunk before.             *)
FreshWindow(w, bytes, i) == LastFour(Text(4) \o SubSeq(bytes, 1, i))

Window(w, bytes, i) == LastFour(w \o SubSeq(bytes, 1, i))

SearchChunk(r) ==
  /\ pc[r] = "search"
  /\ KeepsLooking(r)
  /\ Arrived(PointSize)
  /\ LET bytes == Taken(PointSize)
         found(i) == IsHeader(Window(window[r], bytes, i))
     IN  \E i \in 1 .. PointSize :
           /\ \A j \in 1 .. i-1 : ~found(j)
           /\ found(i) \/ i = PointSize
           /\ chunk' = Set(chunk, r, bytes)
           /\ window' = Set(window, r, Window(window[r], bytes, i))
           /\ used' = Set(used, r, i)
           /\ pc' = Set(pc, r, IF found(i) THEN "remainder" ELSE "search")
  /\ wire' = Rest(PointSize)
  /\ count' = Set(count, r, count[r] + PointSize)
  /\ UNCHANGED <<deviceVars, sent, command, data, ahead, late>>

GiveUp(r) ==
  /\ pc[r] = "search"
  /\ ~KeepsLooking(r)
  /\ pc' = Set(pc, r, "idle")
  /\ late' = TRUE
  /\ UNCHANGED <<deviceVars, wire, sent, command, window, chunk, used, count, data, ahead>>

(* Mutant: the bytes of the chunk before the first point are kept too.       *)
WholeChunk(r) == SubSeq(chunk[r], used[r], PointSize)

(* The part of the first point that came with the header.                    *)
Kept(r) == SubSeq(chunk[r], used[r] + 1, PointSize)

NextPoint(r, bytes) ==
  /\ data' = Set(data, r, data[r] \o bytes)
  /\ pc' = Set(pc, r, IF Len(data'[r]) < PointSize * Points THEN "points" ELSE "done")

ReadRemainder(r) ==
  /\ pc[r] = "remainder"
  /\ Arrived(used[r])
  /\ NextPoint(r, Kept(r) \o Taken(used[r]))
  /\ wire' = Rest(used[r])
  /\ UNCHANGED <<deviceVars, sent, command, window, chunk, used, count, ahead, late>>

ReadPoint(r) ==
  /\ pc[r] = "points"
  /\ Arrived(PointSize)
  /\ NextPoint(r, Taken(PointSize))
  /\ wire' = Rest(PointSize)
  /\ UNCHANGED <<deviceVars, sent, command, window, chunk, used, count, ahead, late>>

ReturnData(r) ==
  /\ pc[r] = "done"
  /\ pc' = Set(pc, r, "idle")
  /\ UNCHANGED <<deviceVars, wire, sent, command, window, chunk, used, count, data, ahead, late>>

Reading(r) ==
  \/ ReadFirst(r) \/ SearchChunk(r) \/ ReadRemainder(r) \/ ReadPoint(r)
  \/ AllocationFails(r) \/ TimesOut(r) \/ ReadFails(r) \/ GiveUp(r) \/ ReturnData(r)

Next ==
  \/ BeginAnswer \/ SendByte
  \/ \E r \in Readers : WriteCommand(r) \/ Reading(r)

Spec == Init /\ [][Next]_vars

------------------------------------------------------------------------------
(* Properties *)

Bytes ==
  {Byte("text", 0, 0)}
    \cup {Byte("header", c, k) : c \in 1 .. sent, k \in 1 .. 4}
    \cup {Byte("data", c, k) : c \in 1 .. sent, k \in 1 .. PointSize * Points}

WholePoints == {PointSize * n : n \in 0 .. Points}

(* A reader in a search has a chunk and a window, and it has whole points    *)
(* only.                                                                     *)
ReaderOK(r) ==
  /\ pc[r] # "idle" => command[r] # 0
  /\ pc[r] \in {"first", "search", "remainder"} => data[r] = <<>>
  /\ pc[r] \in {"search", "remainder"} =>
       Len(window[r]) = 4 /\ Len(chunk[r]) = PointSize /\ used[r] # 0 /\ count[r] >= 4
  /\ pc[r] = "points" => Len(data[r]) < PointSize * Points
  /\ Len(data[r]) \in WholePoints

(* Type invariant: every byte belongs to a command that was sent.            *)
TypeOK ==
  /\ device \in Devices
  /\ sent \in 0 .. MaxPulls
  /\ pending \in Seq(1 .. sent)
  /\ sending \in Seq(Bytes)
  /\ wire \in Seq(Bytes)
  /\ pc \in [Readers -> {"idle", "first", "search", "remainder", "points", "done"}]
  /\ command \in [Readers -> 0 .. sent]
  /\ window \in [Readers -> Seq(Bytes)]
  /\ chunk \in [Readers -> Seq(Bytes)]
  /\ data \in [Readers -> Seq(Bytes)]
  /\ used \in [Readers -> 0 .. PointSize]
  /\ count \in [Readers -> 0 .. MaxBytes + PointSize]
  /\ ahead \in Nat
  /\ late \in BOOLEAN
  /\ \A r \in Readers : ReaderOK(r)

(* What pull_scan returns are the points of one answer, in order and at      *)
(* their byte boundaries: the first one is put together correctly wherever   *)
(* in a chunk the header ends, and no point mixes two answers, whatever      *)
(* failed before.  Until a pull has failed it is the answer to the reader's  *)
(* own command and not to one sent before.                                   *)
PullAnswers ==
  \A r \in Readers : pc[r] = "done" =>
    /\ \E c \in 1 .. sent : data[r] = Body(c)
    /\ ~late => data[r] = Body(command[r])

(* Bytes of an answer's header that the reader can still find.               *)
HeaderAhead(r, c) ==
  \/ \E k \in 1 .. Len(pending) : pending[k] = c
  \/ \E k \in 1 .. Len(wire \o sending) :
       (wire \o sending)[k].kind = "header" /\ (wire \o sending)[k].of = c

(* The search never passes over the header it looks for, if no pull has      *)
(* failed before and the header comes first or after at least one chunk.     *)
(* (A header that begins at byte 1 to PointSize - 1 is never found.)         *)
HeaderNotMissed ==
  ~late /\ ahead \notin 1 .. PointSize-1 =>
    \A r \in Readers : pc[r] = "search" => HeaderAhead(r, command[r])
==============================================================================

----------------------------- MODULE CommandLine -----------------------------
(***************************************************************************)
(* From the lines on stdin to the calls they make: read_command with its   *)
(* buffer of fifty characters, the words of a line, the choice of the      *)
(* command, and the numbers in it.  The lines are typed by a user, or are  *)
(* what the scanner wrapper writes for one scan (_run_normal_scan).        *)
(*                                                                         *)
(* A line is a sequence of words, and the blanks between them are not      *)
(* counted: a line that is typed may be too long for the buffer wherever   *)
(* that is, and is then cut there, between two words or inside one, of     *)
(* which both parts become words.  What a command does is reduced to what  *)
(* its words decide: the settings, the ids it picks, the scans it starts   *)
(* and stops.  (Slots, threads and ports: CommandParser, PortTable.)       *)
(***************************************************************************)
EXTENDS Settings, Sequences, FiniteSets, SequencesExt

CONSTANTS
  Room,       (* words that fit the buffer                                  *)
  Letters,    (* the letters of each word there is                          *)
  Parts,      (* the pairs of words that each word may be cut into          *)
  Number,     (* the value of each word that is a number                    *)
  Scripts,    (* what users type: sequences of lines                        *)
  Requests,   (* what the wrapper is asked for                              *)
  MaxVnas,    (* MAXIMUM_VNA_PORTS                                          *)
  MaxScans    (* MAX_ONGOING_SCANS                                          *)

(* The words that the code writes, and one that is no command.               *)
CodeWords == {"set", "start", "stop", "scans", "points", "verbose", "true", "sweeps", "vna",
              "add", "scan", "time", "exit", "1", "?"}

(* The wrapper is asked for what start_scan of the GUI lets pass.            *)
ASSUME LineAssumption ==
  /\ Room \in Nat /\ Room >= 3
  /\ MaxVnas \in Nat \ {0} /\ MaxScans \in Nat \ {0}
  /\ CodeWords \cup DOMAIN Number \subseteq DOMAIN Letters
  /\ \A w \in DOMAIN Letters : Letters[w] \in Seq(STRING) \ {<< >>}
  /\ Parts = [w \in DOMAIN Letters |->
                {p \in (DOMAIN Letters) \X (DOMAIN Letters) :
                   Letters[p[1]] \o Letters[p[2]] = Letters[w]}]
  /\ \A w \in DOMAIN Number : Number[w] \in Int
  /\ Scripts \subseteq Seq(Seq(DOMAIN Letters))
  /\ \A r \in Requests :
       /\ MinFreq <= r.start /\ r.start < r.stop /\ r.stop <= MaxFreq
       /\ {r.start, r.stop} \subseteq {Number[w] : w \in DOMAIN Number}

VARIABLES
  script,     (* what is typed, to tell what was meant                      *)
  asked,      (* the request the wrapper wrote it for, or NoRequest         *)
  input,      (* the lines still to be read                                 *)
  cut,        (* a line did not fit, and its rest is still in stdin         *)
  tail,       (* the words of that rest                                     *)
  buff,       (* the words in the buffer                                    *)
  connected,  (* vna_ids in use                                             *)
  scans,      (* scans[i]: the vna_ids of the scan in slot i, << >> if none *)
  last,       (* ghost: the command just done, what it started and stopped  *)
  done,       (* ghost: the words of all commands read from stdin           *)
  torn,       (* ghost: how often a word was cut in two                     *)
  ended       (* main has returned                                          *)

stateVars == <<settingVars, connected, scans>>
lineVars == <<script, asked, input, cut, tail, buff, last, done, torn, ended>>
vars == <<stateVars, lineVars>>

Slots == 0 .. MaxScans-1
Word(c, k) == IF k \in DOMAIN c THEN c[k] ELSE ""
NoRequest == [start |-> 0, stop |-> 0, time |-> FALSE]
Nothing == [words |-> << >>, started |-> << >>, stopped |-> {}]

------------------------------------------------------------------------------
(* is_valid_int, is_valid_long; then atoi, which keeps the low bits, and     *)
(* atol, wide enough for what is entered here.                               *)
IsNumber(w) == w \in DOMAIN Number
Atoi(w) == Wrap(Number[w])

VnaId(w) == IsNumber(w) /\ Atoi(w) \in 0 .. MaxVnas-1

Here(ws, k) == VnaId(ws[k]) /\ Atoi(ws[k]) \in connected

(* Mutant: all words are looked at, whatever the size of the list.           *)
AlwaysRoom(ids) == TRUE

RoomInList(ids) == Len(ids) < MaxVnas

(* get_vna_list_from_args looks at words until it has MaxVnas ids, and gives *)
(* up at one that cannot be an id; a VNA that is not connected is left out.  *)
VnaList(ws) ==
  LET ids[k \in 0 .. Len(ws)] ==
        IF k = 0 THEN << >>
        ELSE IF RoomInList(ids[k-1]) /\ Here(ws, k) THEN Append(ids[k-1], Atoi(ws[k]))
        ELSE ids[k-1]
  IN IF \E k \in DOMAIN ws : RoomInList(ids[k-1]) /\ ~VnaId(ws[k]) THEN << >> ELSE ids[Len(ws)]

(* ... and get_connected_vnas, without arguments.                            *)
VnasFor(ws) == IF ws = << >> THEN SetToSortSeq(connected, <) ELSE VnaList(ws)

------------------------------------------------------------------------------
(* The commands.  c is the command in words.                                 *)

Vacant == {i \in Slots : scans[i] = << >>}

(* start_sweep refuses an empty list and a full table.                       *)
Start(c, ws) ==
  LET vnas == VnasFor(ws) IN
  IF vnas = << >> \/ Vacant = {}
  THEN UNCHANGED scans /\ last' = [Nothing EXCEPT !.words = c]
  ELSE LET i == CHOOSE i \in Vacant : \A j \in Vacant : i <= j IN
       /\ scans' = [scans EXCEPT ![i] = vnas]
       /\ last' = [Nothing EXCEPT !.words = c, !.started = vnas]

IsStart(c) ==
  \/ Word(c, 1) = "scan" /\ Word(c, 2) \in {"num", "number", "time"}
  \/ Word(c, 1) = "sweep" /\ Word(c, 2) = "start"

Scan(c) ==
  /\ IsStart(c)
  /\ Start(c, SubSeq(c, 3, Len(c)))
  /\ UNCHANGED <<settingVars, connected>>

Stopped(c) ==
  IF Word(c, 3) = "" THEN Slots \ Vacant
  ELSE {i \in Slots \ Vacant : IsNumber(c[3]) /\ Atoi(c[3]) = i}

IsStop(c) == Word(c, 1) = "sweep" /\ Word(c, 2) = "stop"

SweepStop(c) ==
  /\ IsStop(c)
  /\ scans' = [i \in Slots |-> IF i \in Stopped(c) THEN << >> ELSE scans[i]]
  /\ last' = [Nothing EXCEPT !.words = c, !.stopped = Stopped(c)]
  /\ UNCHANGED <<settingVars, connected>>

(* What the setters ask of the value.                                        *)
Accepted(c) ==
  /\ Word(c, 1) = "set"
  /\ IsNumber(Word(c, 3))
  /\ \/ Word(c, 2) = "start" /\ GoodStart(Number[c[3]])
     \/ Word(c, 2) = "stop" /\ GoodStop(Number[c[3]])
     \/ Word(c, 2) \in {"resolution", "res", "scans", "sweeps"} /\ Atoi(c[3]) > 0
     \/ Word(c, 2) = "points" /\ Atoi(c[3]) \in 1 .. MaxPoints

(* The setter chosen by the second word, on the value of the third.          *)
Setting(c) ==
  /\ Word(c, 1) = "set"
  /\ IsNumber(Word(c, 3))
  /\ LET v == Atoi(c[3]) IN
     \/ Word(c, 2) = "start" /\ SetStart(Number[c[3]])
     \/ Word(c, 2) = "stop" /\ SetStop(Number[c[3]])
     \/ Word(c, 2) \in {"resolution", "res"} /\ SetResolution(v)
     \/ Word(c, 2) = "scans" /\ SetScans(v)
     \/ Word(c, 2) = "points" /\ SetPoints(v)
     \/ Word(c, 2) = "sweeps" /\ SetSweeps(v)

Set(c) ==
  /\ Setting(c)
  /\ last' = [Nothing EXCEPT !.words = c]
  /\ UNCHANGED <<connected, scans>>

(* vna add connects some more, vna remove at most one less, vna reset none.  *)
VnaCommand(c) ==
  /\ Word(c, 1) = "vna"
  /\ \/ Word(c, 2) = "add" /\ connected' \in {s \in SUBSET (0 .. MaxVnas-1) : connected \subseteq s}
     \/ /\ Word(c, 2) = "remove" /\ Word(c, 3) # ""
        /\ connected' \in {connected \ {i} : i \in 0 .. MaxVnas-1}
     \/ Word(c, 2) = "reset" /\ connected' = {}
  /\ last' = [Nothing EXCEPT !.words = c]
  /\ UNCHANGED <<settingVars, scans>>

(* help, list, sweep list, vna list, ping and id tell the user something; so *)
(* does any command that is unknown, incomplete or has a value that is       *)
(* refused.                                                                  *)
Changes(c) ==
  IsStart(c) \/ IsStop(c) \/ (Word(c, 1) = "vna" /\ Word(c, 2) \in {"add", "remove", "reset"})

Informs(c) ==
  /\ ~Changes(c) \/ (Word(c, 2) = "remove" /\ Word(c, 3) = "")
  /\ ~Accepted(c)
  /\ last' = [Nothing EXCEPT !.words = c]
  /\ UNCHANGED stateVars

Execute(c) ==
  /\ ended' = (Word(c, 1) = "exit")
  /\ Scan(c) \/ SweepStop(c) \/ Set(c) \/ VnaCommand(c) \/ Informs(c)

------------------------------------------------------------------------------
(* read_command *)

(* Mutant: the rest of a long line is thrown away.                           *)
ThrownAway(l, k) == << >>

(* What fgets leaves in stdin behind the k-th word.                          *)
LeftOver(l, k) == SubSeq(l, k + 1, Len(l))

Source == IF cut THEN tail ELSE Head(input)

Reads(c, rest) ==
  /\ buff' = c
  /\ tail' = rest
  /\ done' = done \o c
  /\ Execute(c)

ReadWhole ==
  /\ Len(Source) <= Room
  /\ Reads(Source, << >>)
  /\ cut' = FALSE
  /\ UNCHANGED torn

(* The rest may be nothing but blanks.  What the wrapper writes is short.    *)
CutBetween(k) ==
  /\ Reads(SubSeq(Source, 1, k), LeftOver(Source, k))
  /\ UNCHANGED torn

CutInside(k) ==
  /\ \E p \in Parts[Source[k + 1]] :
       Reads(Append(SubSeq(Source, 1, k), p[1]), <<p[2]>> \o LeftOver(Source, k + 1))
  /\ torn' = torn + 1

ReadPart ==
  /\ asked = NoRequest
  /\ \E k \in 0 .. Room :
       \/ k <= Len(Source) /\ CutBetween(k)
       \/ k < Len(Source) /\ k < Room /\ CutInside(k)
  /\ cut' = TRUE

ReadLine ==
  /\ ReadWhole \/ ReadPart
  /\ input' = IF cut THEN input ELSE Tail(input)

(* Mutant: the buffer still holds the last command, as it was typed.         *)
WholeCommand == {buff, <<"?">>}

(* At the end of the input fgets fails and the result is ignored.  strtok    *)
(* has cut the last command behind its first word, unless other calls have   *)
(* written over the buffer, which is not initialised.                        *)
Remains == {IF buff = << >> THEN buff ELSE <<Head(buff)>>, <<"?">>}

ReadNothing ==
  /\ \E c \in Remains : buff' = c /\ Execute(c)
  /\ UNCHANGED <<input, cut, tail, done, torn>>

ReadCommand ==
  /\ ~ended
  /\ IF input = << >> /\ ~cut THEN ReadNothing ELSE ReadLine
  /\ UNCHANGED <<script, asked>>

------------------------------------------------------------------------------
(* The commands of _run_normal_scan.                                         *)
WordOf(n) == CHOOSE w \in DOMAIN Number : Number[w] = n

WrapperLines(r) ==
  <<<<"set", "start", WordOf(r.start)>>, <<"set", "stop", WordOf(r.stop)>>,
    <<"set", "scans", "1">>, <<"set", "points", "1">>, <<"set", "verbose", "true">>,
    <<"set", "sweeps", "1">>, <<"vna", "add">>,
    IF r.time THEN <<"scan", "time">> ELSE <<"scan", "sweeps">>,
    <<"exit">>>>

Init ==
  /\ SettingsInit
  /\ \/ script \in Scripts /\ asked = NoRequest
     \/ asked \in Requests /\ script = WrapperLines(asked)
  /\ input = script
  /\ cut = FALSE /\ tail = << >> /\ buff = <<"?">>
  /\ connected \in SUBSET (0 .. MaxVnas-1)
  /\ scans = [i \in Slots |-> << >>]
  /\ last = Nothing /\ done = << >> /\ torn = 0
  /\ ended = FALSE

Spec == Init /\ [][ReadCommand]_vars

------------------------------------------------------------------------------
(* Properties *)

IdWords(c) == SubSeq(c, 3, Len(c))

(* The connected VNAs that words name, in their order.                       *)
Named(ws) ==
  LET ids[k \in 0 .. Len(ws)] ==
        IF k = 0 THEN << >>
        ELSE IF IsNumber(ws[k]) /\ Number[ws[k]] \in connected THEN Append(ids[k-1], Number[ws[k]])
        ELSE ids[k-1]
  IN ids[Len(ws)]

AtMost(n, s) == SubSeq(s, 1, IF Len(s) < n THEN Len(s) ELSE n)

(* A scan uses connected VNAs only, in the order in which they were typed,   *)
(* and every VNA of its line that is connected (the first MaxVnas of them);  *)
(* and sweep stop with an id stops that scan and no other.  Both need        *)
(* numbers that fit an int and a line that fits the buffer.                  *)
AskedIds ==
  \A k \in DOMAIN script :
    /\ script[k] = last.words
    /\ \A w \in Range(script[k]) \cap DOMAIN Number : Number[w] = Atoi(w)
    =>
    /\ last.started # << >> /\ IdWords(last.words) # << >> =>
         last.started = AtMost(MaxVnas, Named(IdWords(last.words)))
    /\ last.stopped # {} /\ Word(last.words, 3) # "" =>
         last.stopped = {Number[Word(last.words, 3)]}

Spelled(ws) == FlattenSeq([i \in DOMAIN ws |-> Letters[ws[i]]])

(* Every letter typed is carried out once, in its order, be the lines longer *)
(* than the buffer or not: the end of a long line is neither lost nor part   *)
(* of its command, but a command of its own.  The words are those that were  *)
(* typed, but for the words that a line was cut inside, of which each makes  *)
(* two.                                                                      *)
EveryWordRead ==
  LET typed == FlattenSeq(script)
      read == done \o tail \o FlattenSeq(input)
  IN /\ Spelled(read) = Spelled(typed)
     /\ Len(read) = Len(typed) + torn
     /\ torn = 0 => read = typed
     /\ Len(buff) <= Room

(* Behind the last line the parser repeats what is in its buffer, for ever,  *)
(* and yet changes no setting, starts and stops no scan and leaves the VNAs  *)
(* alone: no command that does needs fewer than two words.                   *)
NothingAfterTheEnd ==
  [][input = << >> /\ ~cut => UNCHANGED stateVars /\ ended' = ended]_vars

(* The wrapper sends the start of the range first and does not look at the   *)
(* answers.  The scan has the range that was asked for if that start is      *)
(* below the stop the parser begins with; otherwise the start is refused and *)
(* the parser keeps its own.  And only a request with a time limit comes to  *)
(* a scan: "scan sweeps" is not a command.                                   *)
WrapperScans ==
  asked # NoRequest /\ ended =>
    /\ asked.start < FirstStop => start = asked.start /\ stop = asked.stop
    /\ asked.start >= FirstStop => start = FirstStart /\ stop = asked.stop
    /\ (\E i \in Slots : scans[i] # << >>) => asked.time
==============================================================================

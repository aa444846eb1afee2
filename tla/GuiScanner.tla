----------------------------- MODULE GuiScanner ------------------------------
(***************************************************************************)
(* The scanner wrapper of the GUI and the buttons that drive it.  Three    *)
(* kinds of actors: the Tk main thread (clicks and queued callbacks), the  *)
(* scan threads that start_scan creates, and the parser processes they     *)
(* spawn.  Thread t spawns process t.  All of them share is_scanning,      *)
(* stop_flag and process, without a lock; each read of self.process is a   *)
(* step of its own, and where it is None an attribute error ends the scan. *)
(*                                                                         *)
(* Of the lines a parser prints, two per point are modelled: the first of  *)
(* a point, and the last, on which the wrapper delivers it to the GUI.  A  *)
(* parser has been sent "exit" behind its scan command, so it may exit at  *)
(* any time once it has its commands.                                      *)
(***************************************************************************)
EXTENDS Naturals, Sequences

CONSTANTS
  MaxStarts,  (* bound on the scans that are started                        *)
  Points      (* per process: bound on the points that it prints            *)

Threads == 1 .. MaxStarts

ASSUME GuiAssumption ==
  /\ MaxStarts \in Nat
  /\ Points \in [Threads -> Nat]

None == 0     (* no process *)

VARIABLES
  is_scanning, stop_flag,
  process,    (* self.process: None or the number of a process              *)
  pc,         (* per thread: where it is                                    *)
  stream,     (* per thread: the process that it waits for                  *)
  current_point, (* per thread: the points it has the first line of         *)
  parser,     (* per process: its state                                     *)
  rest,       (* per process: number of lines that it may still print       *)
  stdout,     (* per process: the lines that have not been read             *)
  scan_data,  (* the points the GUI has received since it cleared its data  *)
  main,       (* where the main thread is                                   *)
  startOn, stopOn, (* the buttons                                           *)
  finishes,   (* queued calls of _scan_finished                             *)
  cleared,    (* threads about to store a point in a sweep that is gone     *)
  disturbed   (* ghost: "overlap" Start was clicked before the last scan    *)
              (* ended, else "clear" a Clear Data click ended a scan, else  *)
              (* "early" a stop came before the scan had its process        *)

flagVars == <<is_scanning, stop_flag, process>>
threadVars == <<pc, stream, current_point>>
parserVars == <<parser, rest, stdout>>
windowVars == <<main, startOn, stopOn>>
vars == <<flagVars, threadVars, parserVars, scan_data, windowVars, finishes,
          cleared, disturbed>>

Started == {t \in Threads : pc[t] # "none"}
Ended == {"none", "done"}
Alive == {t \in Threads : pc[t] \notin Ended}

(* Line n of those a parser prints. *)
OutputLine(n) == [point |-> (n + 1) \div 2, kind |-> IF n % 2 = 1 THEN "first" ELSE "last"]

Disturb(how) ==
  disturbed' = IF disturbed = "no" \/ (disturbed = "early" /\ how = "clear") THEN how
               ELSE disturbed

Init ==
  /\ is_scanning = FALSE /\ stop_flag = FALSE /\ process = None
  /\ pc = [t \in Threads |-> "none"]
  /\ stream = [t \in Threads |-> None]
  /\ current_point = [t \in Threads |-> {}]
  /\ parser = [t \in Threads |-> "none"]
  /\ rest = [t \in Threads |-> 2 * Points[t]]
  /\ stdout = [t \in Threads |-> <<>>]
  /\ scan_data = <<>>
  /\ main = "loop" /\ startOn = TRUE /\ stopOn = FALSE
  /\ finishes = 0 /\ cleared = {}
  /\ disturbed = "no"

Goto(t, label) == pc' = [pc EXCEPT ![t] = label]

------------------------------------------------------------------------------
(* The parser process. *)

PrintLine(k) ==
  /\ parser[k] = "scanning"
  /\ rest[k] > 0
  /\ rest' = [rest EXCEPT ![k] = @ - 1]
  /\ stdout' = [stdout EXCEPT ![k] = Append(@, OutputLine(2 * Points[k] - rest[k] + 1))]
  /\ UNCHANGED <<flagVars, threadVars, parser, scan_data, windowVars,
                 finishes, cleared, disturbed>>

(* It comes to the exit command, or a signal ends it.                        *)
Exits(k) ==
  /\ parser[k] \in {"scanning", "dying"}
  /\ parser' = [parser EXCEPT ![k] = "exited"]
  /\ rest' = [rest EXCEPT ![k] = 0]
  /\ UNCHANGED <<flagVars, threadVars, stdout, scan_data, windowVars, finishes, cleared,
                 disturbed>>

Running == {"waiting", "scanning"}

(* terminate or kill. *)
Signalled(k) ==
  IF parser[k] \in Running THEN [parser EXCEPT ![k] = "dying"] ELSE parser

------------------------------------------------------------------------------
(* The scan thread: _run_scan, _execute_scan_commands, _parse_output. *)

Begin(t) ==
  /\ pc[t] = "begin"
  /\ is_scanning' = TRUE
  /\ Goto(t, "spawn")
  /\ UNCHANGED <<stop_flag, process, stream, current_point, parserVars,
                 scan_data, windowVars, finishes, cleared, disturbed>>

(* Popen, which may raise an exception.                                      *)
Spawn(t) ==
  /\ pc[t] = "spawn"
  /\ \/ /\ process' = t
        /\ parser' = [parser EXCEPT ![t] = "waiting"]
        /\ Goto(t, "write")
     \/ Goto(t, "finish") /\ UNCHANGED <<process, parser>>
  /\ UNCHANGED <<is_scanning, stop_flag, stream, current_point,
                 rest, stdout, scan_data, windowVars, finishes, cleared, disturbed>>

(* The write raises an exception if there is no process, and may if it has   *)
(* exited.                                                                   *)
WriteCommands(t) ==
  /\ pc[t] = "write"
  /\ \/ /\ process # None
        /\ parser' = [parser EXCEPT ![process] = IF @ = "waiting" THEN "scanning" ELSE @]
        /\ Goto(t, "check")
     \/ /\ IF process = None THEN TRUE ELSE parser[process] \notin Running
        /\ Goto(t, "finish")
        /\ UNCHANGED parser
  /\ UNCHANGED <<flagVars, stream, current_point, rest, stdout,
                 scan_data, windowVars, finishes, cleared, disturbed>>

(* The two operands of the loop's condition, then the stop flag.             *)
CheckLoop(t) ==
  /\ \/ /\ pc[t] = "check"
        /\ Goto(t, IF process = None THEN "drain" ELSE "poll")
     \/ /\ pc[t] = "poll"
        /\ Goto(t, IF process = None THEN "finish"
                   ELSE IF parser[process] = "exited" \/ stop_flag THEN "drain"
                   ELSE "readline")
  /\ UNCHANGED <<flagVars, stream, current_point, parserVars, scan_data,
                 windowVars, finishes, cleared, disturbed>>

(* "if self.process" before the rest of the output.                          *)
CheckDrain(t) ==
  /\ pc[t] = "drain"
  /\ Goto(t, IF process = None THEN "collected" ELSE "readrest")
  /\ UNCHANGED <<flagVars, stream, current_point, parserVars, scan_data,
                 windowVars, finishes, cleared, disturbed>>

(* self.process is read for a call that blocks on it: None is an error.      *)
Blocking == [readline |-> "read", readrest |-> "draining", wait |-> "waiting"]

PickProcess(t) ==
  /\ pc[t] \in DOMAIN Blocking
  /\ Goto(t, IF process = None THEN "finish" ELSE Blocking[pc[t]])
  /\ stream' = [stream EXCEPT ![t] = process]
  /\ UNCHANGED <<flagVars, current_point, parserVars, scan_data,
                 windowVars, finishes, cleared, disturbed>>

(* Mutant: the lines are taken from the wrong end.                           *)
Newest(s) == s[Len(s)]

Oldest(s) == Head(s)

(* A line is read.  The last line of a point is followed by the call of      *)
(* on_data_point, which makes an entry for the VNA in current_sweep if there *)
(* is none.                                                                  *)
ReadLine(t) ==
  /\ pc[t] = "read"
  /\ LET k == stream[t]
         line == Oldest(stdout[k])
         p == line.point
     IN  /\ stdout[k] # <<>>
         /\ stdout' = [stdout EXCEPT ![k] = Tail(@)]
         /\ IF line.kind = "last"
            THEN /\ scan_data' =
                      Append(scan_data, [point |-> p, whole |-> p \in current_point[t]])
                 /\ current_point' = [current_point EXCEPT ![t] = @ \ {p}]
                 /\ cleared' = {}
                 /\ Goto(t, "store")
            ELSE /\ current_point' = [current_point EXCEPT ![t] = @ \cup {p}]
                 /\ Goto(t, "check")
                 /\ UNCHANGED <<scan_data, cleared>>
  /\ stream' = [stream EXCEPT ![t] = None]
  /\ UNCHANGED <<flagVars, parser, rest, windowVars, finishes, disturbed>>

ReadEndOfFile(t) ==
  /\ pc[t] = "read"
  /\ stdout[stream[t]] = <<>>
  /\ parser[stream[t]] = "exited"
  /\ Goto(t, "drain")
  /\ stream' = [stream EXCEPT ![t] = None]
  /\ UNCHANGED <<flagVars, current_point, parserVars, scan_data,
                 windowVars, finishes, cleared, disturbed>>

(* on_data_point stores the point in the entry; without it a KeyError, which *)
(* _parse_output does not catch, ends the scan.                              *)
StorePoint(t) ==
  /\ pc[t] = "store"
  /\ IF t \in cleared
     THEN Goto(t, "finish") /\ Disturb("clear")
     ELSE Goto(t, "check") /\ UNCHANGED disturbed
  /\ cleared' = cleared \ {t}
  /\ UNCHANGED <<flagVars, stream, current_point, parserVars, scan_data,
                 windowVars, finishes>>

(* The rest of the output is read until the end of the file, and dropped;    *)
(* then self.process is read once more, for stderr.                          *)
Drain(t) ==
  /\ pc[t] = "draining"
  /\ parser[stream[t]] = "exited"
  /\ stdout' = [stdout EXCEPT ![stream[t]] = <<>>]
  /\ Goto(t, IF process = None THEN "finish" ELSE "collected")
  /\ stream' = [stream EXCEPT ![t] = None]
  /\ UNCHANGED <<flagVars, current_point, parser, rest,
                 scan_data, windowVars, finishes, cleared, disturbed>>

(* "Data collection complete": the word makes the GUI queue _scan_finished.  *)
Collected(t) ==
  /\ pc[t] = "collected"
  /\ finishes' = finishes + 1
  /\ Goto(t, "wait")
  /\ UNCHANGED <<flagVars, stream, current_point, parserVars, scan_data,
                 windowVars, cleared, disturbed>>

WaitForProcess(t) ==
  /\ pc[t] = "waiting"
  /\ parser[stream[t]] = "exited"
  /\ Goto(t, "finish")
  /\ stream' = [stream EXCEPT ![t] = None]
  /\ UNCHANGED <<flagVars, current_point, parserVars, scan_data,
                 windowVars, finishes, cleared, disturbed>>

(* Mutant: is_scanning is forgotten.                                         *)
StillScanning == is_scanning

NotScanning == FALSE

Finish(t) ==
  /\ pc[t] = "finish"
  /\ is_scanning' = NotScanning
  /\ Goto(t, "complete")
  /\ UNCHANGED <<stop_flag, process, stream, current_point, parserVars,
                 scan_data, windowVars, finishes, cleared, disturbed>>

(* Mutant: nobody is told.                                                   *)
Silently == finishes

OneMore == finishes + 1

(* "Scan complete".                                                          *)
Complete(t) ==
  /\ pc[t] = "complete"
  /\ finishes' = OneMore
  /\ Goto(t, "done")
  /\ UNCHANGED <<flagVars, stream, current_point, parserVars, scan_data,
                 windowVars, cleared, disturbed>>

ThreadStep(t) ==
  \/ Begin(t) \/ Spawn(t) \/ WriteCommands(t) \/ CheckLoop(t) \/ CheckDrain(t)
  \/ PickProcess(t) \/ ReadLine(t) \/ ReadEndOfFile(t) \/ StorePoint(t) \/ Drain(t)
  \/ Collected(t) \/ WaitForProcess(t) \/ Finish(t) \/ Complete(t)

------------------------------------------------------------------------------
(* The main thread: clicks, each handler in as many steps as it reads or     *)
(* writes what it shares, and the queued callbacks.                          *)

(* The GUI's start_scan with good parameters, up to the call of the scanner; *)
(* it ends at once if is_scanning.                                           *)
Storing == {t \in Threads : pc[t] = "store"}

ClickStart ==
  /\ main = "loop" /\ startOn
  /\ Started # Threads
  /\ ~is_scanning
  /\ cleared' = Storing
  /\ scan_data' = <<>>
  /\ startOn' = FALSE /\ stopOn' = TRUE
  /\ main' = "start"
  /\ disturbed' = IF Alive = {} THEN disturbed ELSE "overlap"
  /\ UNCHANGED <<flagVars, threadVars, parserVars, finishes>>

(* start_scan of the scanner.                                                *)
StartScan(t) ==
  /\ main = "start"
  /\ t \notin Started /\ \A s \in Threads : s < t => s \in Started
  /\ IF is_scanning
     THEN /\ startOn' = TRUE /\ stopOn' = FALSE
          /\ UNCHANGED <<stop_flag, pc>>
     ELSE /\ stop_flag' = FALSE
          /\ Goto(t, "begin")
          /\ UNCHANGED <<startOn, stopOn>>
  /\ main' = "loop"
  /\ UNCHANGED <<is_scanning, process, stream, current_point, parserVars,
                 scan_data, finishes, cleared, disturbed>>

(* stop_scan; a click when there is no scan yet is ignored.                  *)
ClickStop ==
  /\ main = "loop" /\ stopOn
  /\ is_scanning
  /\ stop_flag' = TRUE
  /\ main' = "terminate"
  /\ IF \E t \in Threads : pc[t] \in {"begin", "spawn"}
     THEN Disturb("early") ELSE UNCHANGED disturbed
  /\ UNCHANGED <<is_scanning, process, threadVars, parserVars, scan_data, startOn, stopOn,
                 finishes, cleared>>

(* Mutant: the process is not signalled.                                     *)
LeftAlone(k) == parser

Terminated(k) == Signalled(k)

Terminate ==
  /\ main = "terminate"
  /\ IF process = None
     THEN main' = "stopped" /\ UNCHANGED parser
     ELSE main' = "reap" /\ parser' = Terminated(process)
  /\ UNCHANGED <<flagVars, threadVars, rest, stdout, scan_data, startOn, stopOn,
                 finishes, cleared, disturbed>>

(* The process is gone, or two seconds are over and self.process, which by   *)
(* now may be another one, is killed.                                        *)
Reap ==
  /\ main = "reap"
  /\ parser' \in {parser, Signalled(process)}
  /\ process' = None
  /\ main' = "stopped"
  /\ UNCHANGED <<is_scanning, stop_flag, threadVars, rest, stdout, scan_data,
                 startOn, stopOn, finishes, cleared, disturbed>>

(* "Scan stopped by user".                                                   *)
Stopped ==
  /\ main = "stopped"
  /\ is_scanning' = FALSE
  /\ finishes' = finishes + 1
  /\ main' = "loop"
  /\ UNCHANGED <<stop_flag, process, threadVars, parserVars, scan_data, startOn, stopOn,
                 cleared, disturbed>>

OneFewer == finishes - 1

ScanFinished ==
  /\ main = "loop"
  /\ finishes > 0
  /\ finishes' = OneFewer
  /\ startOn' = TRUE /\ stopOn' = FALSE
  /\ UNCHANGED <<flagVars, threadVars, parserVars, scan_data, main, cleared, disturbed>>

ClearData ==
  /\ main = "loop"
  /\ cleared' = Storing
  /\ scan_data' = <<>>
  /\ UNCHANGED <<flagVars, threadVars, parserVars, windowVars, finishes, disturbed>>

Handler ==
  \/ \E t \in Threads : StartScan(t)
  \/ Terminate \/ Reap \/ Stopped \/ ScanFinished

Click == ClickStart \/ ClickStop \/ ClearData

Next ==
  \/ \E t \in Threads : ThreadStep(t) \/ PrintLine(t) \/ Exits(t)
  \/ Handler \/ Click

Spec == Init /\ [][Next]_vars

(* Threads are scheduled, the main loop turns and handlers return, a parser  *)
(* comes to its exit command.  Nobody has to click, no line has to come.     *)
FairSpec ==
  /\ Spec
  /\ \A t \in Threads : WF_vars(ThreadStep(t)) /\ WF_vars(Exits(t))
  /\ WF_vars(Handler)

------------------------------------------------------------------------------
(* Properties *)

Lines == [point : Nat, kind : {"first", "last"}]
Received == [point : Nat, whole : BOOLEAN]
Blocked == {"read", "draining", "waiting"}

(* Type invariant: a parser has no more lines left than its scan has, and a  *)
(* thread that blocks on a process has one.                                  *)
TypeOK ==
  /\ is_scanning \in BOOLEAN /\ stop_flag \in BOOLEAN
  /\ process \in Threads \cup {None}
  /\ pc \in [Threads -> {"none", "begin", "spawn", "write", "check", "poll", "readline",
                         "read", "store", "drain", "readrest", "draining", "collected",
                         "wait", "waiting", "finish", "complete", "done"}]
  /\ stream \in [Threads -> Threads \cup {None}]
  /\ current_point \in [Threads -> SUBSET Nat]
  /\ parser \in [Threads -> {"none", "waiting", "scanning", "dying", "exited"}]
  /\ rest \in [Threads -> Nat]
  /\ stdout \in [Threads -> Seq(Lines)]
  /\ scan_data \in Seq(Received)
  /\ main \in {"loop", "start", "terminate", "reap", "stopped"}
  /\ startOn \in BOOLEAN /\ stopOn \in BOOLEAN /\ cleared \subseteq Storing
  /\ finishes \in Nat
  /\ disturbed \in {"no", "early", "clear", "overlap"}
  /\ \A k \in Threads : rest[k] + Len(stdout[k]) <= 2 * Points[k]
  /\ \A t \in Threads : pc[t] \in Blocked => stream[t] # None

(* As long as no scan overlaps another one, the points the GUI has are whole *)
(* (all four values are their own), in order, none twice and none skipped,   *)
(* wherever the scan is stopped or the data cleared.                         *)
PointsWhole ==
  disturbed # "overlap" =>
    \A i \in DOMAIN scan_data :
      /\ scan_data[i].whole
      /\ i > 1 => scan_data[i].point = scan_data[i - 1].point + 1

(* is_scanning, set by the scan thread and reset by it and by stop_scan,     *)
(* tells whether there is a scan, if none overlaps and no stop intervenes.   *)
ScanningKnown ==
  disturbed # "overlap" /\ ~stop_flag =>
    (is_scanning <=> \E t \in Threads : pc[t] \notin Ended \cup {"begin", "complete"})

(* No parser is left running behind a thread that has ended, wherever a stop *)
(* comes in between: unless scans overlap, Clear Data broke the scan off, or *)
(* a stop came before Popen had returned.                                    *)
NoParserLeftBehind ==
  disturbed = "no" =>
    \A k \in Threads : parser[k] \in Running => pc[k] \notin Ended

(* When every scan thread has ended and the callbacks have run, a new scan   *)
(* can be started and there is nothing to stop, whatever happened before.    *)
ButtonsReset ==
  Started # {} /\ Alive = {} /\ main = "loop" /\ finishes = 0 => startOn /\ ~stopOn

(* The GUI never stays without its Start button, whatever is clicked.        *)
StartComesBack == ~startOn ~> startOn
==============================================================================

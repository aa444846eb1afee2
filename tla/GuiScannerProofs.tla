--------------------------- MODULE GuiScannerProofs ---------------------------
(***************************************************************************)
(* What the scanner wrapper and the GUI keep for every number of scans and *)
(* of points, wherever a click falls between two steps of a scan.          *)
(***************************************************************************)
EXTENDS GuiScanner, SequenceTheorems, TLAPS

------------------------------------------------------------------------------
(* The inductive invariant. *)

(* The buttons are right, or a call of _scan_finished is queued or to come.  *)
ButtonsFollow ==
  (startOn /\ ~stopOn) \/ finishes > 0 \/ Alive # {} \/ main = "start"

Overlap == disturbed = "overlap"
Stopping == {"terminate", "reap", "stopped"}

(* Before the first overlap there is one scan thread at most, and no other   *)
(* is about to be started beside it.                                         *)
Alone ==
  /\ main = "start" => Alive = {}
  /\ \A s, t \in Alive : s = t

(* A scan that has a process reads from it and from no other, unless         *)
(* stop_scan has taken it away.                                              *)
HasProcess == {"write", "check", "poll", "readline", "read", "store", "drain",
               "readrest", "draining", "collected", "wait", "waiting"}
OwnProcess ==
  \A t \in Threads :
    /\ pc[t] \in HasProcess => process \in {None, t}
    /\ pc[t] \in Blocked => stream[t] = t

FlagsTell ==
  /\ main \in Stopping => stop_flag
  /\ ~stop_flag =>
       (is_scanning <=> \E t \in Threads : pc[t] \notin Ended \cup {"begin", "complete"})

(* A scan that has read n lines of its parser: the next ones are in the      *)
(* pipe, a point whose first line is the n-th is in current_point, and the   *)
(* point before is the last one in scan_data.                                *)
Collecting == {"write", "check", "poll", "readline", "read", "store"}
HasRead(t, n) ==
  /\ \A i \in 1 .. Len(stdout[t]) : stdout[t][i] = OutputLine(n + i)
  /\ parser[t] \in Running => n + Len(stdout[t]) + rest[t] = 2 * Points[t]
  /\ current_point[t] = IF n % 2 = 1 THEN {(n + 1) \div 2} ELSE {}
  /\ scan_data # <<>> => scan_data[Len(scan_data)].point = n \div 2

(* A scan that has not begun to read.                                        *)
Untouched(t) ==
  /\ stdout[t] = <<>> /\ current_point[t] = {}
  /\ rest[t] = 2 * Points[t] /\ parser[t] = "none"

DataFollows ==
  /\ \A t \in Threads : pc[t] \in {"none", "begin", "spawn"} => Untouched(t)
  /\ \A t \in Threads : pc[t] \in {"begin", "spawn"} => scan_data = <<>>
  /\ main = "start" => scan_data = <<>>
  /\ \A t \in Threads : pc[t] \in Collecting => \E n \in Nat : HasRead(t, n)
  /\ \A i \in DOMAIN scan_data :
       /\ scan_data[i].whole
       /\ i > 1 => scan_data[i].point = scan_data[i - 1].point + 1

(* Until something disturbs a scan, only the process of the scan that goes   *)
(* on is running, and a stop has found it.                                   *)
ParserKept ==
  /\ \A k \in Threads : parser[k] \in Running => process = k /\ pc[k] \in HasProcess
  /\ main \in Stopping => \A t \in Threads : pc[t] \notin {"begin", "spawn"}
  /\ main \in {"reap", "stopped"} => \A k \in Threads : parser[k] \notin Running

GuiInv ==
  /\ TypeOK /\ ButtonsFollow
  /\ ~Overlap => Alone /\ OwnProcess /\ FlagsTell /\ DataFollows
  /\ disturbed = "no" => ParserKept

------------------------------------------------------------------------------
(* Types *)

LEMMA OutputIsLine == ASSUME NEW n \in Nat PROVE OutputLine(n) \in Lines
  <1>1. (n + 1) \div 2 \in Nat
    OBVIOUS
  <1> QED
    BY <1>1 DEF OutputLine, Lines

(* The numbers in what the parsers print.                                    *)
LEMMA LinesFit ==
  ASSUME TypeOK, NEW k \in Threads
  PROVE  /\ stdout[k] \in Seq(Lines) /\ Len(stdout[k]) \in Nat
         /\ rest[k] \in Nat /\ Points[k] \in Nat /\ 2 * Points[k] \in Nat
         /\ rest[k] + Len(stdout[k]) <= 2 * Points[k]
  <1>1. stdout[k] \in Seq(Lines)
    BY DEF TypeOK
  <1> QED
    BY <1>1, GuiAssumption, LenProperties DEF TypeOK

LEMMA TypesStart == Init => TypeOK
  <1> SUFFICES ASSUME Init PROVE TypeOK
    OBVIOUS
  <1>1. \A t \in Threads : Points[t] \in Nat /\ 2 * Points[t] \in Nat
    BY GuiAssumption
  <1>2. rest \in [Threads -> Nat]
    BY <1>1 DEF Init
  <1>3. \A k \in Threads : rest[k] + Len(stdout[k]) <= 2 * Points[k]
    BY <1>1, EmptySeq DEF Init
  <1>4. <<>> \in Seq(Lines) /\ <<>> \in Seq(Received)
    BY EmptySeq
  <1> QED
    BY <1>2, <1>3, <1>4 DEF Init, TypeOK, None, Storing, Blocked

(* What reading a line does.                                                 *)
LEMMA LineRead ==
  ASSUME TypeOK, NEW t \in Threads, ReadLine(t)
  PROVE  LET k == stream[t]
             line == stdout[k][1]
             p == line.point
         IN  /\ k \in Threads /\ stdout[k] # <<>> /\ line \in Lines
             /\ Len(stdout[k]) \in Nat \ {0}
             /\ stdout' = [stdout EXCEPT ![k] = Tail(@)]
             /\ Tail(stdout[k]) \in Seq(Lines) /\ Len(Tail(stdout[k])) = Len(stdout[k]) - 1
             /\ \A i \in 1 .. Len(stdout[k]) - 1 : Tail(stdout[k])[i] = stdout[k][i + 1]
             /\ \/ /\ line.kind = "last" /\ pc' = [pc EXCEPT ![t] = "store"]
                   /\ scan_data' =
                        Append(scan_data, [point |-> p, whole |-> p \in current_point[t]])
                   /\ current_point' = [current_point EXCEPT ![t] = @ \ {p}]
                   /\ cleared' = {}
                \/ /\ line.kind = "first" /\ pc' = [pc EXCEPT ![t] = "check"]
                   /\ current_point' = [current_point EXCEPT ![t] = @ \cup {p}]
                   /\ UNCHANGED <<scan_data, cleared>>
  <1> DEFINE k == stream[t]  s == stdout[k]
  <1>1. k \in Threads
    BY DEF TypeOK, ReadLine, Blocked
  <1>2. s \in Seq(Lines)
    BY <1>1 DEF TypeOK
  <1>3. s # <<>>
    BY DEF ReadLine
  <1>4. Len(s) \in Nat \ {0} /\ Head(s) = s[1] /\ s[1] \in Lines
    BY <1>2, <1>3, EmptySeq, ElementOfSeq
  <1>5. /\ Tail(s) \in Seq(Lines) /\ Len(Tail(s)) = Len(s) - 1
        /\ \A i \in 1 .. Len(s) - 1 : Tail(s)[i] = s[i + 1]
    BY <1>2, <1>3, HeadTailProperties
  <1>6. s[1].kind = "last" \/ s[1].kind = "first"
    BY <1>4 DEF Lines
  <1> QED
    BY <1>1, <1>3, <1>4, <1>5, <1>6 DEF ReadLine, Oldest, Goto

LEMMA TypesKept == TypeOK /\ [Next]_vars => TypeOK'
  <1> SUFFICES ASSUME TypeOK, [Next]_vars PROVE TypeOK'
    OBVIOUS
  <1> USE DEF TypeOK, Blocked
  <1>1. None \notin Threads
    BY DEF None, Threads
  <1>2. CASE UNCHANGED vars
    BY <1>2 DEF vars, flagVars, threadVars, parserVars, windowVars, Storing
  <1>3. ASSUME NEW t \in Threads, ThreadStep(t) PROVE TypeOK'
    <2>1. CASE Begin(t)
      BY <2>1 DEF Begin, Goto, parserVars, windowVars, Storing
    <2>2. CASE Spawn(t)
      BY <2>2 DEF Spawn, Goto, windowVars, Storing
    <2>3. CASE WriteCommands(t)
      BY <2>3 DEF WriteCommands, Goto, flagVars, windowVars, Storing
    <2>4. CASE CheckLoop(t) \/ CheckDrain(t)
      BY <2>4 DEF CheckLoop, CheckDrain, Goto, flagVars, parserVars, windowVars, Storing
    <2>5. CASE PickProcess(t)
      BY <2>5, <1>1 DEF PickProcess, Blocking, Goto, flagVars, parserVars, windowVars, Storing
    <2>6. CASE ReadEndOfFile(t) \/ WaitForProcess(t)
      BY <2>6 DEF ReadEndOfFile, WaitForProcess, Goto, flagVars, parserVars, windowVars,
         Storing
    <2>7. CASE Collected(t)
      BY <2>7 DEF Collected, Goto, flagVars, parserVars, windowVars, Storing
    <2>8. CASE StorePoint(t)
      BY <2>8 DEF StorePoint, Disturb, Goto, flagVars, parserVars, windowVars, Storing
    <2>9. CASE Finish(t)
      BY <2>9 DEF Finish, NotScanning, Goto, parserVars, windowVars, Storing
    <2>10. CASE Complete(t)
      BY <2>10 DEF Complete, OneMore, Goto, flagVars, parserVars, windowVars, Storing
    <2>11. CASE Drain(t)
      <3>1. stream[t] \in Threads /\ stdout' = [stdout EXCEPT ![stream[t]] = <<>>]
        BY <2>11 DEF Drain
      <3>2. stdout' \in [Threads -> Seq(Lines)]
        BY <3>1
      <3>3. \A k \in Threads : rest'[k] + Len(stdout'[k]) <= 2 * Points[k]
        BY <2>11, <3>1, LinesFit, EmptySeq DEF Drain
      <3> QED
        BY <2>11, <3>2, <3>3 DEF Drain, Goto, flagVars, windowVars, Storing
    <2>12. CASE ReadLine(t)
      <3> DEFINE k == stream[t]  line == stdout[k][1]
                 e == [point |-> line.point, whole |-> line.point \in current_point[t]]
      <3>1. stdout' \in [Threads -> Seq(Lines)]
        BY <2>12, LineRead
      <3>2. \A j \in Threads : rest'[j] + Len(stdout'[j]) <= 2 * Points[j]
        <4> SUFFICES ASSUME NEW j \in Threads
                     PROVE  rest[j] + Len(stdout'[j]) <= 2 * Points[j]
          BY <2>12 DEF ReadLine
        <4>1. /\ rest[j] \in Nat /\ Points[j] \in Nat
              /\ rest[j] + Len(stdout[j]) <= 2 * Points[j]
          BY LinesFit
        <4>2. k \in Threads
          BY <2>12, LineRead
        <4>3. CASE j = k
          <5>1. Len(stdout[j]) \in Nat /\ Len(stdout'[j]) = Len(stdout[j]) - 1
            BY <2>12, <4>2, <4>3, LineRead
          <5> QED
            BY <4>1, <5>1
        <4>4. CASE j # k
          <5>1. stdout'[j] = stdout[j]
            <6>1. stdout' = [stdout EXCEPT ![k] = Tail(@)]
              BY <2>12, LineRead
            <6> QED
              BY <4>4, <6>1
          <5> QED
            BY <4>1, <5>1
        <4> QED
          BY <4>3, <4>4
      <3>3. line.point \in Nat /\ e \in Received
        <4>1. line \in Lines
          BY <2>12, LineRead
        <4> QED
          BY <4>1 DEF Lines, Received
      <3>4. scan_data' \in Seq(Received)
        <4>1. Append(scan_data, e) \in Seq(Received)
          BY <3>3, AppendProperties
        <4> QED
          BY <2>12, <4>1, LineRead
      <3>5. current_point' \in [Threads -> SUBSET Nat]
        <4> DEFINE p == line.point
        <4>1. p \in Nat
          BY <3>3
        <4>2. \/ current_point' = [current_point EXCEPT ![t] = @ \ {p}]
              \/ current_point' = [current_point EXCEPT ![t] = @ \cup {p}]
          BY <2>12, LineRead
        <4> HIDE DEF p
        <4>3. current_point[t] \in SUBSET Nat /\ current_point \in [Threads -> SUBSET Nat]
          OBVIOUS
        <4> QED
          BY ONLY <4>1, <4>2, <4>3
      <3>6. /\ pc' = [pc EXCEPT ![t] = "store"] \/ pc' = [pc EXCEPT ![t] = "check"]
            /\ pc[t] = "read"
        BY <2>12 DEF ReadLine, Goto
      <3>7. cleared' \subseteq Storing'
        BY <2>12 DEF ReadLine, Goto, Storing
      <3> QED
        BY <2>12, <3>1, <3>2, <3>4, <3>5, <3>6, <3>7 DEF ReadLine, flagVars, windowVars
    <2> QED
      BY <1>3, <2>1, <2>2, <2>3, <2>4, <2>5, <2>6, <2>7, <2>8, <2>9, <2>10, <2>11, <2>12
         DEF ThreadStep
  <1>4. ASSUME NEW k \in Threads, PrintLine(k) PROVE TypeOK'
    <2> DEFINE n == 2 * Points[k] - rest[k] + 1
    <2>1. n \in Nat
      BY GuiAssumption, LenProperties
    <2>2. /\ Append(stdout[k], OutputLine(n)) \in Seq(Lines)
          /\ Len(Append(stdout[k], OutputLine(n))) = Len(stdout[k]) + 1
      BY <2>1, OutputIsLine, AppendProperties
    <2>3. /\ stdout' = [stdout EXCEPT ![k] = Append(@, OutputLine(n))]
          /\ rest' = [rest EXCEPT ![k] = @ - 1] /\ rest[k] > 0
      BY <1>4 DEF PrintLine
    <2>4. stdout' \in [Threads -> Seq(Lines)] /\ rest' \in [Threads -> Nat]
      BY <2>2, <2>3
    <2>5. \A j \in Threads : rest'[j] + Len(stdout'[j]) <= 2 * Points[j]
      <3> SUFFICES ASSUME NEW j \in Threads
                   PROVE  rest'[j] + Len(stdout'[j]) <= 2 * Points[j]
        BY <2>4
      <3>1. CASE j = k
        BY <2>2, <2>3, <3>1, LinesFit
      <3>2. CASE j # k
        BY <2>3, <3>2
      <3> QED
        BY <3>1, <3>2
    <2> QED
      BY <1>4, <2>4, <2>5 DEF PrintLine, flagVars, threadVars, windowVars, Storing
  <1>5. ASSUME NEW k \in Threads, Exits(k) PROVE TypeOK'
    <2>1. \A j \in Threads : rest'[j] + Len(stdout'[j]) <= 2 * Points[j]
      BY <1>5, LinesFit DEF Exits
    <2> QED
      BY <1>5, <2>1 DEF Exits, flagVars, threadVars, windowVars, Storing
  <1>6. ASSUME NEW t \in Threads, StartScan(t) PROVE TypeOK'
    BY <1>6 DEF StartScan, Goto, parserVars, Storing, Started
  <1>7. CASE Terminate
    BY <1>7 DEF Terminate, Terminated, Signalled, flagVars, threadVars, Storing
  <1>8. CASE Reap
    BY <1>8 DEF Reap, Signalled, threadVars, Storing
  <1>9. CASE Stopped
    <2>1. Storing' = Storing /\ finishes' \in Nat
      BY <1>9 DEF Stopped, threadVars, Storing
    <2> QED
      BY <1>9, <2>1 DEF Stopped, threadVars, parserVars
  <1>10. CASE ScanFinished
    <2>1. Storing' = Storing /\ finishes' \in Nat
      BY <1>10 DEF ScanFinished, OneFewer, threadVars, Storing
    <2> QED
      BY <1>10, <2>1 DEF ScanFinished, flagVars, threadVars, parserVars
  <1>11. CASE ClickStart
    <2>1. Storing' = Storing /\ scan_data' \in Seq(Received)
      BY <1>11, EmptySeq DEF ClickStart, threadVars, Storing
    <2> QED
      BY <1>11, <2>1 DEF ClickStart, flagVars, threadVars, parserVars
  <1>12. CASE ClickStop
    BY <1>12 DEF ClickStop, Disturb, threadVars, parserVars, Storing
  <1>13. CASE ClearData
    BY <1>13 DEF ClearData, flagVars, threadVars, parserVars, windowVars, Storing
  <1> QED
    BY <1>2, <1>3, <1>4, <1>5, <1>6, <1>7, <1>8, <1>9, <1>10, <1>11, <1>12, <1>13
       DEF Next, Handler, Click
------------------------------------------------------------------------------
(* The threads that are alive, and the buttons *)

(* A step of a thread ends it only where it completes.                       *)
LEMMA ThreadGoesOn ==
  ASSUME TypeOK, NEW t \in Threads, ThreadStep(t)
  PROVE  /\ t \in Alive /\ pc[t] # "none" /\ pc'[t] # "none"
         /\ \A s \in Threads : s # t => pc'[s] = pc[s]
         /\ t \in Alive' \/ Complete(t)
         /\ UNCHANGED <<windowVars, stop_flag>>
  <1> USE DEF TypeOK, Alive, Ended, Goto
  <1>1. CASE Begin(t) \/ Spawn(t) \/ WriteCommands(t) \/ CheckLoop(t) \/ CheckDrain(t)
    BY <1>1 DEF Begin, Spawn, WriteCommands, CheckLoop, CheckDrain, flagVars
  <1>2. CASE PickProcess(t)
    BY <1>2 DEF PickProcess, Blocking, flagVars
  <1>3. CASE ReadLine(t)
    BY <1>3 DEF ReadLine, flagVars
  <1>4. CASE ReadEndOfFile(t) \/ StorePoint(t) \/ Drain(t) \/ Collected(t)
    BY <1>4 DEF ReadEndOfFile, StorePoint, Drain, Collected, flagVars
  <1>5. CASE WaitForProcess(t) \/ Finish(t) \/ Complete(t)
    BY <1>5 DEF WaitForProcess, Finish, Complete, flagVars
  <1> QED
    BY <1>1, <1>2, <1>3, <1>4, <1>5 DEF ThreadStep

(* Any other step leaves the threads where they are, but for StartScan.      *)
MainStep == Terminate \/ Reap \/ Stopped \/ ScanFinished \/ Click
LEMMA OthersWait ==
  ASSUME MainStep \/ (\E k \in Threads : PrintLine(k) \/ Exits(k)) \/ UNCHANGED vars
  PROVE  UNCHANGED <<pc, stream, current_point>>
  BY DEF MainStep, Click, Terminate, Reap, Stopped, ScanFinished, ClickStart, ClickStop,
     ClearData, PrintLine, Exits, vars, threadVars

LEMMA StepCases ==
  ASSUME [Next]_vars
  PROVE  \/ \E t \in Threads : ThreadStep(t)
         \/ \E t \in Threads : StartScan(t)
         \/ MainStep
         \/ \E k \in Threads : PrintLine(k) \/ Exits(k)
         \/ UNCHANGED vars
  BY DEF Next, Handler, MainStep

LEMMA ButtonsKept == TypeOK /\ ButtonsFollow /\ [Next]_vars => ButtonsFollow'
  <1> SUFFICES ASSUME TypeOK, ButtonsFollow, [Next]_vars PROVE ButtonsFollow'
    OBVIOUS
  <1> USE DEF ButtonsFollow
  <1>1. finishes \in Nat
    BY DEF TypeOK
  <1>2. ASSUME NEW t \in Threads, ThreadStep(t) PROVE ButtonsFollow'
    <2>1. CASE Complete(t)
      BY <1>1, <2>1 DEF Complete, OneMore
    <2>2. CASE ~Complete(t)
      BY <1>2, <2>2, ThreadGoesOn
    <2> QED
      BY <2>1, <2>2
  <1>3. ASSUME NEW t \in Threads, StartScan(t) PROVE ButtonsFollow'
    <2>1. (startOn' /\ ~stopOn') \/ pc'[t] = "begin"
      BY <1>3 DEF StartScan, Goto, TypeOK
    <2> QED
      BY <2>1 DEF Alive, Ended
  <1>4. CASE MainStep
    <2>1. Alive' = Alive
      BY <1>4, OthersWait DEF Alive
    <2>2. CASE ScanFinished \/ ClickStart
      BY <2>2 DEF ScanFinished, ClickStart
    <2>3. CASE Terminate \/ Reap \/ Stopped
      BY <1>1, <2>1, <2>3 DEF Terminate, Reap, Stopped
    <2>4. CASE ClickStop \/ ClearData
      BY <2>1, <2>4 DEF ClickStop, ClearData, windowVars
    <2> QED
      BY <1>4, <2>2, <2>3, <2>4 DEF MainStep, Click
  <1>5. CASE (\E k \in Threads : PrintLine(k) \/ Exits(k)) \/ UNCHANGED vars
    <2>1. Alive' = Alive
      BY <1>5, OthersWait DEF Alive
    <2> QED
      BY <1>5, <2>1 DEF PrintLine, Exits, vars, windowVars
  <1> QED
    BY <1>2, <1>3, <1>4, <1>5, StepCases

------------------------------------------------------------------------------
(* No scan beside another *)

LEMMA OverlapStays == Overlap /\ [Next]_vars => Overlap'
  <1> SUFFICES ASSUME Overlap, [Next]_vars PROVE Overlap'
    OBVIOUS
  <1> USE DEF Overlap
  <1>1. ASSUME NEW t \in Threads, ThreadStep(t) PROVE disturbed' = disturbed
    BY <1>1 DEF ThreadStep, Begin, Spawn, WriteCommands, CheckLoop, CheckDrain, PickProcess,
       ReadLine, ReadEndOfFile, StorePoint, Drain, Collected, WaitForProcess, Finish,
       Complete, Disturb
  <1>2. CASE MainStep \/ \E t \in Threads : StartScan(t)
    BY <1>2 DEF MainStep, Click, StartScan, Terminate, Reap, Stopped, ScanFinished,
       ClickStart, ClickStop, ClearData, Disturb
  <1>3. CASE (\E k \in Threads : PrintLine(k) \/ Exits(k)) \/ UNCHANGED vars
    BY <1>3 DEF PrintLine, Exits, vars
  <1> QED
    BY <1>1, <1>2, <1>3, StepCases

LEMMA AloneKept == TypeOK /\ Alone /\ [Next]_vars /\ ~Overlap' => Alone'
  <1> SUFFICES ASSUME TypeOK, Alone, [Next]_vars, ~Overlap' PROVE Alone'
    OBVIOUS
  <1> USE DEF Alone
  <1>1. ASSUME NEW t \in Threads, ThreadStep(t) PROVE Alone'
    <2>1. Alive' \subseteq Alive /\ main' = main
      BY <1>1, ThreadGoesOn DEF Alive, windowVars
    <2> QED
      BY <2>1
  <1>2. ASSUME NEW t \in Threads, StartScan(t) PROVE Alone'
    BY <1>2 DEF StartScan, Goto, TypeOK, Alive, Ended
  <1>3. CASE MainStep
    <2>1. Alive' = Alive
      BY <1>3, OthersWait DEF Alive
    <2>2. main' = "start" => Alive = {}
      BY <1>3 DEF MainStep, Click, Terminate, Reap, Stopped, ScanFinished, ClickStart,
         ClickStop, ClearData, windowVars, Overlap
    <2> QED
      BY <2>1, <2>2
  <1>4. CASE (\E k \in Threads : PrintLine(k) \/ Exits(k)) \/ UNCHANGED vars
    <2>1. Alive' = Alive
      BY <1>4, OthersWait DEF Alive
    <2> QED
      BY <1>4, <2>1 DEF PrintLine, Exits, vars, windowVars
  <1> QED
    BY <1>1, <1>2, <1>3, <1>4, StepCases

LEMMA ProcessKept ==
  TypeOK /\ Alone /\ OwnProcess /\ [Next]_vars => OwnProcess'
  <1> SUFFICES ASSUME TypeOK, Alone, OwnProcess, [Next]_vars PROVE OwnProcess'
    OBVIOUS
  <1> USE DEF OwnProcess, HasProcess, Blocked
  <1>1. ASSUME NEW t \in Threads, ThreadStep(t) PROVE OwnProcess'
    <2>1. \A s \in Threads : s # t => pc'[s] \notin HasProcess
      BY <1>1, ThreadGoesOn DEF Alone, Alive, Ended
    <2>2. pc'[t] \in HasProcess => process' \in {None, t}
      <3> USE DEF TypeOK, Goto
      <3>1. CASE Spawn(t)
        BY <3>1 DEF Spawn
      <3>2. CASE PickProcess(t)
        BY <3>2 DEF PickProcess, Blocking, flagVars
      <3>3. CASE Begin(t) \/ WriteCommands(t) \/ CheckLoop(t) \/ CheckDrain(t)
        BY <3>3 DEF Begin, WriteCommands, CheckLoop, CheckDrain, flagVars
      <3>4. CASE ReadLine(t) \/ ReadEndOfFile(t) \/ StorePoint(t) \/ Drain(t)
        BY <3>4 DEF ReadLine, ReadEndOfFile, StorePoint, Drain, flagVars
      <3>5. CASE Collected(t) \/ WaitForProcess(t) \/ Finish(t) \/ Complete(t)
        BY <3>5 DEF Collected, WaitForProcess, Finish, Complete, flagVars
      <3> QED
        BY <1>1, <3>1, <3>2, <3>3, <3>4, <3>5 DEF ThreadStep
    <2>3. pc'[t] \in Blocked => stream'[t] = t
      <3> USE DEF TypeOK, Goto
      <3>1. CASE PickProcess(t)
        BY <3>1 DEF PickProcess, Blocking
      <3>2. CASE Begin(t) \/ Spawn(t) \/ WriteCommands(t) \/ CheckLoop(t) \/ CheckDrain(t)
        BY <3>2 DEF Begin, Spawn, WriteCommands, CheckLoop, CheckDrain
      <3>3. CASE ReadLine(t) \/ ReadEndOfFile(t) \/ StorePoint(t) \/ Drain(t)
        BY <3>3 DEF ReadLine, ReadEndOfFile, StorePoint, Drain
      <3>4. CASE Collected(t) \/ WaitForProcess(t) \/ Finish(t) \/ Complete(t)
        BY <3>4 DEF Collected, WaitForProcess, Finish, Complete
      <3> QED
        BY <1>1, <3>1, <3>2, <3>3, <3>4 DEF ThreadStep
    <2> QED
      BY <2>1, <2>2, <2>3
  <1>2. ASSUME NEW t \in Threads, StartScan(t) PROVE OwnProcess'
    BY <1>2 DEF StartScan, Goto, TypeOK
  <1>3. CASE MainStep
    <2>1. UNCHANGED <<pc, stream>>
      BY <1>3, OthersWait
    <2>2. process' \in {None, process}
      BY <1>3 DEF MainStep, Click, Terminate, Reap, Stopped, ScanFinished, ClickStart,
         ClickStop, ClearData, flagVars
    <2> QED
      BY <2>1, <2>2
  <1>4. CASE (\E k \in Threads : PrintLine(k) \/ Exits(k)) \/ UNCHANGED vars
    BY <1>4 DEF PrintLine, Exits, vars, flagVars, threadVars
  <1> QED
    BY <1>1, <1>2, <1>3, <1>4, StepCases

LEMMA FlagsKept ==
  TypeOK /\ Alone /\ FlagsTell /\ [Next]_vars /\ ~Overlap' => FlagsTell'
  <1> SUFFICES ASSUME TypeOK, Alone, FlagsTell, [Next]_vars, ~Overlap' PROVE FlagsTell'
    OBVIOUS
  <1> DEFINE Works(t) == pc[t] \notin Ended \cup {"begin", "complete"}
  <1> USE DEF FlagsTell, Ended, Stopping
  <1>1. ASSUME NEW t \in Threads, ThreadStep(t) PROVE FlagsTell'
    <2>1. \A s \in Threads : s # t => ~Works(s) /\ ~Works(s)'
      BY <1>1, ThreadGoesOn DEF Alone, Alive
    <2>2. UNCHANGED <<main, stop_flag>>
      BY <1>1, ThreadGoesOn DEF windowVars
    <2>3. (is_scanning <=> Works(t)) => (is_scanning' <=> Works(t)')
      <3> USE DEF TypeOK, Goto
      <3>1. CASE Begin(t) \/ Finish(t) \/ Complete(t)
        BY <3>1 DEF Begin, Finish, NotScanning, Complete, flagVars
      <3>2. CASE PickProcess(t)
        BY <3>2 DEF PickProcess, Blocking, flagVars
      <3>3. CASE Spawn(t) \/ WriteCommands(t) \/ CheckLoop(t) \/ CheckDrain(t)
        BY <3>3 DEF Spawn, WriteCommands, CheckLoop, CheckDrain, flagVars
      <3>4. CASE ReadLine(t) \/ ReadEndOfFile(t) \/ StorePoint(t) \/ Drain(t)
        BY <3>4 DEF ReadLine, ReadEndOfFile, StorePoint, Drain, flagVars
      <3>5. CASE Collected(t) \/ WaitForProcess(t)
        BY <3>5 DEF Collected, WaitForProcess, flagVars
      <3> QED
        BY <1>1, <3>1, <3>2, <3>3, <3>4, <3>5 DEF ThreadStep
    <2> QED
      BY <2>1, <2>2, <2>3
  <1>2. ASSUME NEW t \in Threads, StartScan(t) PROVE FlagsTell'
    <2>1. \A s \in Threads : ~Works(s)
      BY <1>2 DEF StartScan, Alone, Alive
    <2>2. ~is_scanning => \A s \in Threads : ~Works(s)'
      BY <1>2, <2>1 DEF StartScan, Goto, TypeOK
    <2> QED
      BY <1>2, <2>1, <2>2 DEF StartScan
  <1>3. CASE MainStep
    <2>1. UNCHANGED pc
      BY <1>3, OthersWait
    <2> QED
      BY <1>3, <2>1 DEF MainStep, Click, Terminate, Reap, Stopped, ScanFinished, ClickStart,
         ClickStop, ClearData, flagVars, windowVars, TypeOK
  <1>4. CASE (\E k \in Threads : PrintLine(k) \/ Exits(k)) \/ UNCHANGED vars
    BY <1>4 DEF PrintLine, Exits, vars, flagVars, threadVars, windowVars
  <1> QED
    BY <1>1, <1>2, <1>3, <1>4, StepCases

------------------------------------------------------------------------------
(* No parser left behind *)

LEMMA DisturbedStays == disturbed # "no" /\ [Next]_vars => disturbed' # "no"
  <1> SUFFICES ASSUME disturbed # "no", [Next]_vars PROVE disturbed' # "no"
    OBVIOUS
  <1>1. ASSUME NEW t \in Threads, ThreadStep(t) PROVE disturbed' # "no"
    BY <1>1 DEF ThreadStep, Begin, Spawn, WriteCommands, CheckLoop, CheckDrain, PickProcess,
       ReadLine, ReadEndOfFile, StorePoint, Drain, Collected, WaitForProcess, Finish,
       Complete, Disturb
  <1>2. CASE MainStep \/ \E t \in Threads : StartScan(t)
    BY <1>2 DEF MainStep, Click, StartScan, Terminate, Reap, Stopped, ScanFinished,
       ClickStart, ClickStop, ClearData, Disturb
  <1>3. CASE (\E k \in Threads : PrintLine(k) \/ Exits(k)) \/ UNCHANGED vars
    BY <1>3 DEF PrintLine, Exits, vars
  <1> QED
    BY <1>1, <1>2, <1>3, StepCases

LEMMA ParserStaysKept ==
  TypeOK /\ Alone /\ OwnProcess /\ ParserKept /\ [Next]_vars /\ disturbed' = "no" => ParserKept'
  <1> SUFFICES ASSUME TypeOK, Alone, OwnProcess, ParserKept, [Next]_vars, disturbed' = "no"
               PROVE  ParserKept'
    OBVIOUS
  <1> USE DEF ParserKept, Stopping
  <1>1. ASSUME NEW t \in Threads, ThreadStep(t) PROVE ParserKept'
    <2>1. \A s \in Threads : s # t => pc[s] \in Ended /\ pc'[s] = pc[s]
      BY <1>1, ThreadGoesOn DEF Alone, Alive
    <2>2. main' = main /\ pc[t] \notin Ended
      BY <1>1, ThreadGoesOn DEF windowVars, Alive
    <2>3. \A k \in Threads : parser[k] \in Running => k = t /\ process = t
      BY <2>1 DEF HasProcess, Ended
    <2>4. CASE Spawn(t)
      <3>1. \A k \in Threads : parser[k] \notin Running
        BY <2>3, <2>4 DEF Spawn, HasProcess
      <3>2. main' \notin Stopping
        BY <2>2, <2>4 DEF Spawn
      <3>3. (pc'[t] = "write" /\ process' = t) \/ UNCHANGED parser
        BY <2>4 DEF Spawn, Goto, TypeOK
      <3>4. \A k \in Threads : k # t => parser'[k] = parser[k]
        BY <2>4 DEF Spawn, TypeOK
      <3> QED
        BY <3>1, <3>2, <3>3, <3>4 DEF HasProcess, Running
    <2>5. CASE ~Spawn(t)
      <3>1. process' = process /\ (pc'[t] \in {"begin", "spawn"} => pc[t] \in {"begin", "spawn"})
        <4> USE DEF TypeOK, Goto
        <4>1. CASE PickProcess(t)
          BY <4>1 DEF PickProcess, Blocking, flagVars
        <4>2. CASE Begin(t) \/ WriteCommands(t) \/ CheckLoop(t) \/ CheckDrain(t)
          BY <4>2 DEF Begin, WriteCommands, CheckLoop, CheckDrain, flagVars
        <4>3. CASE ReadLine(t) \/ ReadEndOfFile(t) \/ StorePoint(t) \/ Drain(t)
          BY <4>3 DEF ReadLine, ReadEndOfFile, StorePoint, Drain, flagVars
        <4>4. CASE Collected(t) \/ WaitForProcess(t) \/ Finish(t) \/ Complete(t)
          BY <4>4 DEF Collected, WaitForProcess, Finish, Complete, flagVars
        <4> QED
          BY <1>1, <2>5, <4>1, <4>2, <4>3, <4>4 DEF ThreadStep
      <3>2. \A k \in Threads : parser'[k] \in Running => parser[k] \in Running
        BY <1>1, <2>5 DEF ThreadStep, Begin, WriteCommands, CheckLoop, CheckDrain, PickProcess,
           ReadLine, ReadEndOfFile, StorePoint, Drain, Collected, WaitForProcess, Finish,
           Complete, parserVars, Running, TypeOK
      <3>3. ASSUME parser'[t] \in Running PROVE pc'[t] \in HasProcess
        <4>1. pc[t] \in HasProcess /\ process = t /\ parser[t] \in Running
          BY <2>3, <3>2, <3>3
        <4>2. parser[t] # "exited" /\ process # None /\ (pc[t] \in Blocked => stream[t] = t)
          BY <4>1 DEF Running, OwnProcess, None, Threads
        <4> USE DEF TypeOK, Goto, HasProcess
        <4>3. CASE WriteCommands(t) \/ CheckLoop(t) \/ CheckDrain(t)
          BY <4>1, <4>2, <4>3 DEF WriteCommands, CheckLoop, CheckDrain
        <4>4. CASE PickProcess(t)
          BY <4>1, <4>2, <4>4 DEF PickProcess, Blocking
        <4>5. CASE ReadLine(t) \/ ReadEndOfFile(t)
          BY <4>1, <4>2, <4>5 DEF ReadLine, ReadEndOfFile
        <4>6. CASE StorePoint(t)
          BY <4>1, <4>6 DEF StorePoint, Disturb
        <4>7. CASE Drain(t) \/ WaitForProcess(t)
          BY <4>1, <4>2, <4>7 DEF Drain, WaitForProcess, Blocked
        <4>8. CASE Begin(t) \/ Collected(t) \/ Finish(t) \/ Complete(t)
          BY <4>1, <4>8 DEF Begin, Collected, Finish, Complete
        <4> QED
          BY <1>1, <2>5, <4>3, <4>4, <4>5, <4>6, <4>7, <4>8 DEF ThreadStep
      <3> QED
        BY <2>1, <2>2, <2>3, <3>1, <3>2, <3>3 DEF Ended
    <2> QED
      BY <2>4, <2>5
  <1>2. ASSUME NEW t \in Threads, StartScan(t) PROVE ParserKept'
    BY <1>2 DEF StartScan, Goto, TypeOK, Started, HasProcess, parserVars
  <1>3. CASE MainStep
    <2>1. UNCHANGED pc
      BY <1>3, OthersWait
    <2>2. CASE Terminate
      <3>1. \A k \in Threads : parser'[k] \notin Running
        <4>1. CASE process = None
          BY <2>2, <4>1 DEF Terminate, None, Threads
        <4>2. CASE process # None /\ parser[process] \in Running
          <5>1. process \in Threads /\ parser' = [parser EXCEPT ![process] = "dying"]
            BY <2>2, <4>2 DEF Terminate, Terminated, Signalled, TypeOK
          <5> QED
            BY <5>1 DEF TypeOK, Running
        <4>3. CASE process # None /\ parser[process] \notin Running
          BY <2>2, <4>3 DEF Terminate, Terminated, Signalled
        <4> QED
          BY <4>1, <4>2, <4>3
      <3> QED
        BY <2>1, <2>2, <3>1 DEF Terminate, flagVars
    <2>3. CASE Reap
      BY <2>1, <2>3 DEF Reap, Signalled, Running, TypeOK
    <2>4. CASE ClickStop
      BY <2>1, <2>4 DEF ClickStop, Disturb, parserVars
    <2>5. CASE Stopped \/ ScanFinished \/ ClickStart \/ ClearData
      BY <2>1, <2>5 DEF Stopped, ScanFinished, ClickStart, ClearData, parserVars, flagVars,
         windowVars
    <2> QED
      BY <1>3, <2>2, <2>3, <2>4, <2>5 DEF MainStep, Click
  <1>4. CASE (\E k \in Threads : PrintLine(k) \/ Exits(k)) \/ UNCHANGED vars
    BY <1>4 DEF PrintLine, Exits, vars, flagVars, threadVars, parserVars, windowVars,
       Running, TypeOK
  <1> QED
    BY <1>1, <1>2, <1>3, <1>4, StepCases

------------------------------------------------------------------------------
(* The points in scan_data *)

LEMMA Halves ==
  ASSUME NEW n \in Nat
  PROVE  /\ n % 2 = 1 => /\ (n + 1) % 2 = 0 /\ (n + 1) \div 2 = n \div 2 + 1
                         /\ (n + 2) \div 2 = (n + 1) \div 2
         /\ n % 2 = 0 => (n + 1) % 2 = 1 /\ (n + 1) \div 2 = n \div 2
         /\ n % 2 \in {0, 1} /\ n \div 2 \in Nat
  OBVIOUS

(* The parser t, the thread t and the data as they were.                     *)
LEMMA SameRead ==
  ASSUME NEW t \in Threads, NEW n \in Nat, HasRead(t, n),
         stdout'[t] = stdout[t], current_point'[t] = current_point[t],
         parser'[t] \in Running => parser[t] \in Running,
         parser'[t] \in Running => rest'[t] = rest[t],
         scan_data' = scan_data \/ scan_data' = <<>>
  PROVE  HasRead(t, n)'
  BY DEF HasRead

LEMMA DataInOrder ==
  ASSUME TypeOK, DataFollows, NEW t \in Threads, stream[t] = t, ReadLine(t),
         NEW n \in Nat, HasRead(t, n)
  PROVE  /\ HasRead(t, n + 1)'
         /\ \A i \in DOMAIN scan_data' :
              /\ scan_data'[i].whole
              /\ i > 1 => scan_data'[i].point = scan_data'[i - 1].point + 1
  <1> DEFINE s == stdout[t]
             line == s[1]
             p == line.point
             e == [point |-> p, whole |-> p \in current_point[t]]
  <1>1. /\ s # <<>> /\ Len(s) \in Nat \ {0} /\ line \in Lines
        /\ stdout'[t] = Tail(s) /\ Len(Tail(s)) = Len(s) - 1
        /\ \A i \in 1 .. Len(s) - 1 : Tail(s)[i] = s[i + 1]
    <2>1. /\ s # <<>> /\ Len(s) \in Nat \ {0} /\ line \in Lines
          /\ stdout' = [stdout EXCEPT ![t] = Tail(@)] /\ Len(Tail(s)) = Len(s) - 1
          /\ \A i \in 1 .. Len(s) - 1 : Tail(s)[i] = s[i + 1]
      BY LineRead, Zenon
    <2>2. stdout \in [Threads -> Seq(Lines)]
      BY DEF TypeOK
    <2> QED
      BY <2>1, <2>2
  <1>2. line = OutputLine(n + 1) /\ p = (n + 2) \div 2
    BY <1>1 DEF HasRead, OutputLine
  <1>3. \A i \in 1 .. Len(stdout'[t]) : stdout'[t][i] = OutputLine(n + 1 + i)
    <2> SUFFICES ASSUME NEW i \in 1 .. Len(s) - 1 PROVE Tail(s)[i] = OutputLine(n + 1 + i)
      BY <1>1
    <2>1. i + 1 \in 1 .. Len(s) /\ n + (i + 1) = n + 1 + i
      BY <1>1
    <2>2. s[i + 1] = OutputLine(n + (i + 1))
      BY <2>1 DEF HasRead
    <2> QED
      BY <1>1, <2>1, <2>2
  <1>4. parser'[t] \in Running => n + 1 + Len(stdout'[t]) + rest'[t] = 2 * Points[t]
    <2>1. parser' = parser /\ rest' = rest
      BY DEF ReadLine
    <2>2. parser[t] \in Running => n + Len(s) + rest[t] = 2 * Points[t]
      BY DEF HasRead
    <2>3. /\ rest[t] \in Nat /\ 2 * Points[t] \in Nat
          /\ Len(stdout'[t]) = Len(s) - 1 /\ Len(s) \in Nat
      BY <1>1, LinesFit
    <2>4. parser'[t] = parser[t] /\ rest'[t] = rest[t]
      BY <2>1
    <2> HIDE DEF s
    <2> QED
      BY <2>2, <2>3, <2>4
  <1>5. CASE n % 2 = 1
    <2>1. line.kind = "last" /\ p = (n + 1) \div 2 /\ p = n \div 2 + 1
      BY <1>2, <1>5, Halves DEF OutputLine
    <2>2. current_point[t] = {p} /\ e.whole = TRUE
      BY <1>5, <2>1 DEF HasRead
    <2>3. scan_data' = Append(scan_data, e) /\ current_point'[t] = {}
      <3>1. /\ scan_data' = Append(scan_data, e)
            /\ current_point' = [current_point EXCEPT ![t] = @ \ {p}]
        BY <2>1, LineRead
      <3>2. current_point \in [Threads -> SUBSET Nat]
        BY DEF TypeOK
      <3> QED
        BY ONLY <2>2, <3>1, <3>2, t \in Threads
    <2>4. e \in Received /\ scan_data \in Seq(Received)
      BY <1>1, <2>2 DEF Lines, Received, TypeOK
    <2>5. /\ Len(scan_data') = Len(scan_data) + 1 /\ Len(scan_data) \in Nat
          /\ scan_data'[Len(scan_data) + 1] = e
          /\ \A i \in 1 .. Len(scan_data) : scan_data'[i] = scan_data[i]
          /\ DOMAIN scan_data' = 1 .. Len(scan_data) + 1
          /\ DOMAIN scan_data = 1 .. Len(scan_data)
      BY <2>3, <2>4, AppendProperties, LenProperties
    <2>6. scan_data # <<>> => scan_data[Len(scan_data)].point = p - 1
      BY <2>1, Halves DEF HasRead
    <2>7. HasRead(t, n + 1)'
      <3>1. scan_data'[Len(scan_data')].point = (n + 1) \div 2
        BY <2>1, <2>5
      <3>2. (n + 1) % 2 = 0
        BY <1>5, Halves
      <3> QED
        BY <1>3, <1>4, <2>3, <3>1, <3>2 DEF HasRead
    <2>8. ASSUME NEW i \in DOMAIN scan_data'
          PROVE  /\ scan_data'[i].whole
                 /\ i > 1 => scan_data'[i].point = scan_data'[i - 1].point + 1
      <3>1. CASE i \in 1 .. Len(scan_data)
        BY <2>5, <3>1 DEF DataFollows
      <3>2. CASE i = Len(scan_data) + 1
        <4>1. scan_data'[i].whole /\ scan_data'[i].point = p
          BY <2>2, <2>5, <3>2
        <4>2. ASSUME i > 1 PROVE p = scan_data'[i - 1].point + 1
          <5>1. scan_data # <<>> /\ scan_data'[i - 1] = scan_data[Len(scan_data)]
            BY <2>4, <2>5, <3>2, <4>2, EmptySeq
          <5>2. p \in Nat
            BY <1>1 DEF Lines
          <5> QED
            BY <2>6, <5>1, <5>2
        <4> QED
          BY <4>1, <4>2
      <3> QED
        BY <2>5, <3>1, <3>2
    <2> QED
      BY <2>7, <2>8
  <1>6. CASE n % 2 = 0
    <2>1. line.kind = "first" /\ p = (n + 1 + 1) \div 2 /\ (n + 1) \div 2 = n \div 2
      BY <1>2, <1>6, Halves DEF OutputLine
    <2>2. current_point[t] = {}
      BY <1>6 DEF HasRead
    <2>3. scan_data' = scan_data /\ current_point'[t] = {p}
      <3>1. scan_data' = scan_data /\ current_point' = [current_point EXCEPT ![t] = @ \cup {p}]
        BY <2>1, LineRead
      <3>2. current_point \in [Threads -> SUBSET Nat]
        BY DEF TypeOK
      <3> QED
        BY ONLY <2>2, <3>1, <3>2, t \in Threads
    <2>4. HasRead(t, n + 1)'
      BY <1>3, <1>4, <1>6, <2>1, <2>3, Halves DEF HasRead
    <2> QED
      BY <2>3, <2>4 DEF DataFollows
  <1> QED
    BY <1>5, <1>6, Halves

LEMMA DataKept ==
  TypeOK /\ Alone /\ OwnProcess /\ DataFollows /\ [Next]_vars => DataFollows'
  <1> SUFFICES ASSUME TypeOK, Alone, OwnProcess, DataFollows, [Next]_vars PROVE DataFollows'
    OBVIOUS
  <1> DEFINE Good(d) == \A i \in DOMAIN d :
               d[i].whole /\ (i > 1 => d[i].point = d[i - 1].point + 1)
  <1>1. Good(scan_data) /\ Good(<<>>)
    BY DEF DataFollows
  <1>2. ASSUME NEW t \in Threads, ThreadStep(t) PROVE DataFollows'
    <2>1. \A s \in Threads : s # t => pc[s] \in Ended /\ pc'[s] = pc[s]
      BY <1>2, ThreadGoesOn DEF Alone, Alive
    <2>2. main' = main /\ main # "start" /\ pc[t] # "none" /\ pc'[t] # "none"
      BY <1>2, ThreadGoesOn DEF windowVars, Alone
    <2>3. ASSUME NEW s \in Threads, s # t, pc[s] = "none" PROVE Untouched(s)'
      <3>1. Untouched(s)
        BY <2>3 DEF DataFollows
      <3> USE DEF TypeOK
      <3>2. CASE Spawn(t)
        BY <2>3, <3>1, <3>2 DEF Spawn, Untouched
      <3>3. CASE WriteCommands(t)
        BY <2>3, <3>1, <3>3 DEF WriteCommands, Untouched
      <3>4. CASE ReadLine(t) \/ Drain(t)
        BY <2>3, <3>1, <3>4 DEF ReadLine, Drain, Untouched, OwnProcess, Blocked
      <3>5. CASE Begin(t) \/ CheckLoop(t) \/ CheckDrain(t) \/ PickProcess(t) \/ ReadEndOfFile(t)
        BY <3>1, <3>5 DEF Begin, CheckLoop, CheckDrain, PickProcess, ReadEndOfFile,
           Untouched, parserVars
      <3>6. CASE StorePoint(t) \/ Collected(t) \/ WaitForProcess(t) \/ Finish(t) \/ Complete(t)
        BY <3>1, <3>6 DEF StorePoint, Collected, WaitForProcess, Finish, Complete,
           Untouched, parserVars
      <3> QED
        BY <1>2, <3>2, <3>3, <3>4, <3>5, <3>6 DEF ThreadStep
    <2>4. /\ pc'[t] \in {"begin", "spawn"} => Untouched(t)' /\ scan_data' = <<>>
          /\ pc'[t] \in Collecting => \E n \in Nat : HasRead(t, n)'
          /\ Good(scan_data')
      <3>1. CASE Begin(t)
        BY <1>1, <3>1 DEF Begin, Goto, TypeOK, DataFollows, Untouched, Collecting, parserVars
      <3>2. CASE Spawn(t)
        <4>1. Untouched(t) /\ scan_data = <<>>
          BY <3>2 DEF Spawn, DataFollows
        <4>2. pc'[t] = "write" \/ pc'[t] = "finish"
          BY <3>2 DEF Spawn, Goto, TypeOK
        <4>3. UNCHANGED <<current_point, rest, stdout, scan_data>>
          BY <3>2 DEF Spawn
        <4>4. HasRead(t, 0)'
          BY <4>1, <4>3, LinesFit, EmptySeq DEF HasRead, Untouched
        <4> QED
          BY <1>1, <4>1, <4>2, <4>3, <4>4 DEF Collecting
      <3>3. CASE ReadLine(t)
        <4>1. stream[t] = t /\ pc[t] = "read"
          BY <3>3 DEF ReadLine, OwnProcess, Blocked
        <4>2. PICK n \in Nat : HasRead(t, n)
          BY <4>1 DEF DataFollows, Collecting
        <4>3. HasRead(t, n + 1)' /\ Good(scan_data')
          BY <3>3, <4>1, <4>2, DataInOrder
        <4>4. pc'[t] \notin {"begin", "spawn"}
          BY <3>3 DEF ReadLine, Goto, TypeOK
        <4> QED
          BY <4>3, <4>4
      <3>4. CASE WriteCommands(t) \/ CheckLoop(t) \/ CheckDrain(t) \/ PickProcess(t) \/ StorePoint(t)
        <4>1. UNCHANGED <<current_point, rest, stdout, scan_data>>
          BY <3>4 DEF WriteCommands, CheckLoop, CheckDrain, PickProcess, StorePoint, parserVars
        <4>2. parser'[t] \in Running => parser[t] \in Running
          BY <3>4 DEF WriteCommands, CheckLoop, CheckDrain, PickProcess, StorePoint,
             parserVars, TypeOK, Running
        <4>3. pc'[t] \in Collecting => pc[t] \in Collecting
          <5>1. CASE WriteCommands(t) \/ CheckLoop(t) \/ CheckDrain(t) \/ StorePoint(t)
            BY <5>1 DEF WriteCommands, CheckLoop, CheckDrain, StorePoint, Goto, TypeOK,
               Collecting
          <5>2. CASE PickProcess(t)
            BY <5>2 DEF PickProcess, Blocking, Goto, TypeOK, Collecting
          <5> QED
            BY <3>4, <5>1, <5>2
        <4>4. pc'[t] \notin {"begin", "spawn"}
          <5>1. CASE WriteCommands(t) \/ CheckLoop(t) \/ CheckDrain(t) \/ StorePoint(t)
            BY <5>1 DEF WriteCommands, CheckLoop, CheckDrain, StorePoint, Goto, TypeOK
          <5>2. CASE PickProcess(t)
            BY <5>2 DEF PickProcess, Blocking, Goto, TypeOK
          <5> QED
            BY <3>4, <5>1, <5>2
        <4>5. \A n \in Nat : HasRead(t, n) => HasRead(t, n)'
          BY <4>1, <4>2, SameRead
        <4> QED
          BY <1>1, <4>1, <4>3, <4>4, <4>5 DEF DataFollows
      <3>5. CASE \/ ReadEndOfFile(t) \/ Drain(t) \/ Collected(t) \/ WaitForProcess(t)
                 \/ Finish(t) \/ Complete(t)
        <4>1. pc'[t] \notin Collecting \cup {"begin", "spawn"}
          BY <3>5 DEF ReadEndOfFile, Drain, Collected, WaitForProcess, Finish, Complete,
             Goto, TypeOK, Collecting
        <4>2. scan_data' = scan_data
          BY <3>5 DEF ReadEndOfFile, Drain, Collected, WaitForProcess, Finish, Complete
        <4> QED
          BY <1>1, <4>1, <4>2
      <3> QED
        BY <1>2, <3>1, <3>2, <3>3, <3>4, <3>5 DEF ThreadStep
    <2> QED
      BY <2>1, <2>2, <2>3, <2>4 DEF DataFollows, Ended, Collecting
  <1>3. ASSUME NEW t \in Threads, StartScan(t) PROVE DataFollows'
    <2>1. /\ main = "start" /\ main' = "loop" /\ pc[t] = "none"
          /\ UNCHANGED <<current_point, parser, rest, stdout, scan_data>>
          /\ pc' = pc \/ pc' = [pc EXCEPT ![t] = "begin"]
      BY <1>3 DEF StartScan, Started, Goto, parserVars
    <2>2. \A s \in Threads, n \in Nat : HasRead(s, n) => HasRead(s, n)'
      BY <2>1 DEF HasRead
    <2>3. \A s \in Threads : pc'[s] = pc[s] \/ (pc[s] = "none" /\ pc'[s] = "begin")
      <3>1. DOMAIN pc = Threads
        BY DEF TypeOK
      <3>2. CASE pc' = pc
        BY <3>2
      <3>3. CASE pc' = [pc EXCEPT ![t] = "begin"]
        BY ONLY <2>1, <3>1, <3>3
      <3> QED
        BY <2>1, <3>2, <3>3
    <2>4. \A s \in Threads : pc'[s] \in {"none", "begin", "spawn"} => Untouched(s)'
      <3>1. \A s \in Threads : Untouched(s) => Untouched(s)'
        BY <2>1 DEF Untouched
      <3> QED
        BY <2>3, <3>1 DEF DataFollows
    <2>5. ASSUME NEW s \in Threads, pc'[s] \in Collecting
          PROVE  \E n \in Nat : HasRead(s, n)'
      <3>1. pc[s] \in Collecting
        BY <2>3, <2>5 DEF Collecting
      <3>2. PICK n \in Nat : HasRead(s, n)
        BY <3>1 DEF DataFollows
      <3> QED
        BY <2>2, <3>2
    <2> QED
      BY <1>1, <2>1, <2>4, <2>5 DEF DataFollows
  <1>4. CASE MainStep
    <2>1. UNCHANGED <<pc, current_point>>
      BY <1>4, OthersWait
    <2>2. /\ UNCHANGED <<rest, stdout>>
          /\ scan_data' = scan_data \/ scan_data' = <<>>
          /\ main' = "start" => scan_data' = <<>>
      BY <1>4 DEF MainStep, Click, Terminate, Reap, Stopped, ScanFinished, ClickStart,
         ClickStop, ClearData, parserVars, windowVars, DataFollows
    <2>3. \A s \in Threads : parser'[s] = parser[s] \/ (parser[s] \in Running /\ parser'[s] = "dying")
      <3>1. DOMAIN parser = Threads
        BY DEF TypeOK
      <3>2. CASE Terminate \/ Reap
        <4>1. \/ parser' = parser
              \/ parser' = [parser EXCEPT ![process] = "dying"] /\ parser[process] \in Running
          BY <3>2 DEF Terminate, Terminated, Reap, Signalled
        <4>2. CASE parser' = parser
          BY <4>2
        <4>3. CASE parser' = [parser EXCEPT ![process] = "dying"] /\ parser[process] \in Running
          BY ONLY <3>1, <4>3
        <4> QED
          BY <4>1, <4>2, <4>3
      <3>3. CASE Stopped \/ ScanFinished \/ Click
        <4>1. parser' = parser
          BY <3>3 DEF Stopped, ScanFinished, Click, ClickStart, ClickStop, ClearData,
             parserVars
        <4> QED
          BY ONLY <4>1
      <3> QED
        BY <1>4, <3>2, <3>3 DEF MainStep
    <2>4. \A s \in Threads, n \in Nat : HasRead(s, n) => HasRead(s, n)'
      BY <2>1, <2>2, <2>3, SameRead DEF Running
    <2>5. \A s \in Threads : Untouched(s) => Untouched(s)'
      BY <2>1, <2>2, <2>3 DEF Untouched, Running
    <2>6. \A s \in Threads : pc'[s] \in Collecting => \E n \in Nat : HasRead(s, n)'
      BY <2>1, <2>4 DEF DataFollows
    <2> QED
      BY <1>1, <2>1, <2>2, <2>5, <2>6 DEF DataFollows
  <1>5. ASSUME NEW k \in Threads, PrintLine(k) \/ Exits(k) PROVE DataFollows'
    <2>1. UNCHANGED <<pc, current_point, scan_data, main>>
      BY <1>5 DEF PrintLine, Exits, threadVars, windowVars
    <2>2. \A s \in Threads : s # k => UNCHANGED <<parser[s], rest[s], stdout[s]>>
      BY <1>5 DEF PrintLine, Exits, TypeOK
    <2>3. ~Untouched(k)
      BY <1>5 DEF PrintLine, Exits, Untouched
    <2>4. \A s \in Threads, n \in Nat : s # k /\ HasRead(s, n) => HasRead(s, n)'
      BY <2>1, <2>2, SameRead
    <2>5. ASSUME NEW n \in Nat, HasRead(k, n) PROVE HasRead(k, n)'
      <3>1. CASE Exits(k)
        BY <2>1, <2>5, <3>1, SameRead DEF Exits, TypeOK, Running
      <3>2. CASE PrintLine(k)
        <4> DEFINE s == stdout[k]  new == OutputLine(2 * Points[k] - rest[k] + 1)
        <4>1. /\ s \in Seq(Lines) /\ Len(s) \in Nat /\ rest[k] \in Nat /\ Points[k] \in Nat
              /\ rest[k] + Len(s) <= 2 * Points[k]
          BY LinesFit
        <4>2. n + Len(s) + rest[k] = 2 * Points[k] /\ rest[k] > 0
          BY <2>5, <3>2 DEF PrintLine, HasRead, Running
        <4>3. new = OutputLine(n + (Len(s) + 1)) /\ new \in Lines
          <5>1. 2 * Points[k] - rest[k] + 1 = n + (Len(s) + 1)
            BY <4>1, <4>2
          <5> QED
            BY <4>1, <5>1, OutputIsLine
        <4>4. /\ stdout'[k] = Append(s, new) /\ rest'[k] = rest[k] - 1
          BY <3>2 DEF PrintLine, TypeOK
        <4>5. /\ Len(stdout'[k]) = Len(s) + 1 /\ stdout'[k][Len(s) + 1] = new
              /\ \A i \in 1 .. Len(s) : stdout'[k][i] = s[i]
          BY <4>1, <4>3, <4>4, AppendProperties
        <4>6. \A i \in 1 .. Len(s) + 1 : stdout'[k][i] = OutputLine(n + i)
          <5> SUFFICES ASSUME NEW i \in 1 .. Len(s) + 1
                       PROVE  stdout'[k][i] = OutputLine(n + i)
            OBVIOUS
          <5>1. CASE i \in 1 .. Len(s)
            BY <2>5, <4>5, <5>1 DEF HasRead
          <5>2. CASE i = Len(s) + 1
            BY <4>3, <4>5, <5>2
          <5> QED
            BY <4>1, <5>1, <5>2
        <4>7. n + Len(stdout'[k]) + rest'[k] = 2 * Points[k]
          BY <4>1, <4>2, <4>4, <4>5
        <4> QED
          BY <2>1, <2>5, <4>5, <4>6, <4>7 DEF HasRead
      <3> QED
        BY <1>5, <3>1, <3>2
    <2>6. \A s \in Threads : pc'[s] \in Collecting => \E n \in Nat : HasRead(s, n)'
      BY <2>1, <2>4, <2>5 DEF DataFollows
    <2>7. \A s \in Threads : Untouched(s) => Untouched(s)'
      BY <2>1, <2>2, <2>3 DEF Untouched
    <2> QED
      BY <1>1, <2>1, <2>6, <2>7 DEF DataFollows
  <1>6. CASE UNCHANGED vars
    BY <1>6 DEF vars, flagVars, threadVars, parserVars, windowVars, DataFollows, Untouched,
       HasRead
  <1> QED
    BY <1>2, <1>3, <1>4, <1>5, <1>6, StepCases
------------------------------------------------------------------------------
(* The theorems *)

LEMMA GuiInvariant == Spec => []GuiInv
  <1>1. Init => GuiInv
    <2> SUFFICES ASSUME Init PROVE GuiInv
      OBVIOUS
    <2>1. Alone /\ OwnProcess /\ FlagsTell
      BY DEF Init, Alone, Alive, Ended, OwnProcess, HasProcess, Blocked, FlagsTell, Stopping
    <2>2. DataFollows
      <3>1. \A t \in Threads : Untouched(t)
        BY DEF Init, Untouched
      <3> QED
        BY <3>1 DEF Init, DataFollows, Collecting
    <2>3. ParserKept
      BY DEF Init, ParserKept, Running, Stopping
    <2> QED
      BY <2>1, <2>2, <2>3, TypesStart DEF Init, GuiInv, ButtonsFollow
  <1>2. GuiInv /\ [Next]_vars => GuiInv'
    <2> SUFFICES ASSUME GuiInv, [Next]_vars PROVE GuiInv'
      OBVIOUS
    <2>1. TypeOK' /\ ButtonsFollow'
      BY TypesKept, ButtonsKept DEF GuiInv
    <2>2. ASSUME ~Overlap' PROVE Alone' /\ OwnProcess' /\ FlagsTell' /\ DataFollows'
      <3>1. Alone /\ OwnProcess /\ FlagsTell /\ DataFollows
        BY <2>2, OverlapStays DEF GuiInv
      <3> QED
        BY <2>2, <3>1, AloneKept, ProcessKept, FlagsKept, DataKept DEF GuiInv
    <2>3. ASSUME disturbed' = "no" PROVE ParserKept'
      <3>1. disturbed = "no"
        BY <2>3, DisturbedStays
      <3> QED
        BY <2>3, <3>1, ParserStaysKept DEF GuiInv, Overlap
    <2> QED
      BY <2>1, <2>2, <2>3 DEF GuiInv
  <1> QED
    BY <1>1, <1>2, PTL DEF Spec

(* Every variable of the wrapper and of the GUI keeps its type, and a thread *)
(* that blocks on a process has one.                                         *)
THEOREM GuiTypeCorrect == Spec => []TypeOK
  <1>1. GuiInv => TypeOK
    BY DEF GuiInv
  <1> QED
    BY <1>1, GuiInvariant, PTL

(* The points the GUI has received are whole, in order and without a gap,    *)
(* wherever a scan is stopped or the data cleared, unless scans overlap.     *)
THEOREM PointsAlwaysWhole == Spec => []PointsWhole
  <1>1. GuiInv => PointsWhole
    BY DEF GuiInv, Overlap, DataFollows, PointsWhole
  <1> QED
    BY <1>1, GuiInvariant, PTL

(* is_scanning, written by two threads without a lock, tells whether a scan  *)
(* goes on, unless scans overlap or a stop intervenes.                       *)
THEOREM ScanningAlwaysKnown == Spec => []ScanningKnown
  <1>1. GuiInv => ScanningKnown
    BY DEF GuiInv, Overlap, FlagsTell, ScanningKnown
  <1> QED
    BY <1>1, GuiInvariant, PTL

(* A scan thread does not end before its parser has been told to, wherever a *)
(* stop comes in between, unless something disturbs the scan.                *)
THEOREM ParserNeverLeftBehind == Spec => []NoParserLeftBehind
  <1>1. GuiInv => NoParserLeftBehind
    BY DEF GuiInv, ParserKept, NoParserLeftBehind, HasProcess, Ended
  <1> QED
    BY <1>1, GuiInvariant, PTL

(* Once every scan thread has ended and every queued call has run, a scan    *)
(* can be started and none stopped, also when scans overlapped.              *)
THEOREM ButtonsAlwaysReset == Spec => []ButtonsReset
  <1>1. GuiInv => ButtonsReset
    BY DEF GuiInv, ButtonsFollow, ButtonsReset
  <1> QED
    BY <1>1, GuiInvariant, PTL

==============================================================================

--------------------------- MODULE PrototypeProofs ---------------------------
(***************************************************************************)
(* What the one-shot program keeps for every number and size of points,    *)
(* every amount of echo and every set of faults, with SIGINT at any step.  *)
(***************************************************************************)
EXTENDS Prototype, SequenceTheorems, TLAPS

------------------------------------------------------------------------------
(* The inductive invariant. *)

(* Once the port has been given its settings back it has its own, if they    *)
(* are what was kept and the call did not fail.                              *)
BackAgain == tty = "own" \/ kept = "garbage" \/ refused

(* The pointer, and what is known of the settings, at every statement.       *)
PortKnown ==
  /\ console = "own"
  /\ pc \in {"open", "tcsetattr", "publish"} => pointer = "NULL" /\ portGlobal = "stdin"
  /\ pc \in {"open", "tcsetattr"} => tty = "own"
  /\ pc \notin {"open", "tcsetattr"} => kept \in {"own", "garbage"}
  /\ pc = "store" => pointer = "kept" /\ portGlobal = "stdin"
  /\ pc \in {"write", "first", "search", "points", "restore"} =>
       pointer = "kept" /\ portGlobal = "port"
  /\ pc = "free" => pointer = "kept" /\ portGlobal = "port" /\ BackAgain
  /\ pc = "clear" => pointer = "freed" /\ BackAgain
  /\ pc \in {"close", "ended"} => pointer = "NULL" /\ BackAgain

Places == {"open", "tcsetattr", "publish", "store", "write", "first", "search",
           "points", "restore", "free", "clear", "close", "ended"}

SettingsFollow ==
  /\ pc \in Places
  /\ exit = "no" => PortKnown /\ at = ""
  /\ InterruptRestores

(* The n-th byte from the beginning of the window on, when k bytes of the    *)
(* echo are still ahead there.                                               *)
Answer(k, n) ==
  IF n <= k THEN Echo ELSE IF n <= k + 4 THEN Header[n - k] ELSE Points[n - k - 4]

Total == POINTS * PointSize

(* After the first n bytes of it, the line holds the rest, or nothing if     *)
(* the device has gone.                                                      *)
Follows(k, n) ==
  line # << >> =>
    /\ Len(line) = k + 4 + Total - n
    /\ \A i \in 1 .. Len(line) : line[i] = Answer(k, n + i)

InWindow(k) == Len(window) = 4 /\ \A i \in 1 .. 4 : window[i] = Answer(k, i)

ReadTypes ==
  /\ line \in Seq(Nat) /\ window \in Seq(Nat) /\ data \in Seq(Nat)
  /\ details \in Nat \X Nat /\ count \in Nat
  /\ pc = "search" => Len(window) = 4

(* As long as nothing goes wrong unnoticed, the search ends at the header    *)
(* and nowhere else, and the points follow it.                               *)
ReadInStep ==
  /\ pc \in {"open", "tcsetattr", "publish", "store", "write"} => line = << >>
  /\ pc \in {"open", "tcsetattr", "publish", "store", "write", "first"} => Searching
  /\ pc \in {"open", "tcsetattr", "publish", "store", "write", "first", "search"} =>
       data = << >>
  /\ pc = "first" => \E k \in Nat : Follows(k, 0)
  /\ pc = "search" =>
       \E k \in Nat : /\ InWindow(k) /\ Follows(k, 4)
                      /\ IF k = 0 THEN details = <<MASK, POINTS>> ELSE Searching
  /\ pc = "points" =>
       /\ Len(data) + PointSize * count = Total
       /\ \A i \in 1 .. Len(data) : data[i] = Points[i]
       /\ Follows(0, 4 + Len(data))
  /\ AnswerWhole

ProtoInv == SettingsFollow /\ ReadTypes /\ (clean => ReadInStep)

------------------------------------------------------------------------------
(* SIGINT and the settings *)

(* Whatever the step, the settings are known before and after it.            *)
LEMMA SettingsKept == SettingsFollow /\ [Next]_vars => SettingsFollow'
  <1> SUFFICES ASSUME SettingsFollow, [Next]_vars PROVE SettingsFollow'
    OBVIOUS
  <1> USE DEF Places
  <1>1. CASE UNCHANGED vars
    BY <1>1 DEF vars, portVars, settingVars, globalVars, SettingsFollow, PortKnown, BackAgain,
                InterruptRestores
  <1>2. CASE MainStep
    <2>1. exit = "no" /\ PortKnown /\ at = ""
      BY <1>2 DEF MainStep, Open, MakeRaw, NoMemory, Publish, StorePort, WriteScan, ReadFails,
                  ReadWindow, SearchHeader, HeaderFound, ReadPoint, ReadNothing, Report,
                  ReportCrashes, Restore, Free, Clear, Close, Go, SettingsFollow
    <2>2. CASE Open \/ MakeRaw
      BY <2>1, <2>2 DEF Open, MakeRaw, AfterRaw, Go, settingVars, globalVars, SettingsFollow,
                        PortKnown, BackAgain, InterruptRestores
    <2>3. CASE Publish \/ StorePort
      BY <2>1, <2>3 DEF Publish, StorePort, Go, portVars, settingVars, SettingsFollow, PortKnown,
                        BackAgain, InterruptRestores
    <2>4. CASE WriteScan
      BY <2>1, <2>4 DEF WriteScan, Go, globalVars, portVars, settingVars, SettingsFollow,
                        PortKnown, BackAgain, InterruptRestores
    <2>5. CASE NoMemory \/ ReportCrashes
      BY <2>1, <2>5 DEF NoMemory, ReportCrashes, Crash, globalVars, portVars, settingVars,
                        SettingsFollow, PortKnown, BackAgain, InterruptRestores
    <2>6. CASE ReadFails \/ ReadWindow \/ SearchHeader \/ HeaderFound
      BY <2>1, <2>6 DEF ReadFails, ReadWindow, SearchHeader, HeaderFound, Go, globalVars,
                        portVars, settingVars, SettingsFollow, PortKnown, BackAgain,
                        InterruptRestores
    <2>7. CASE ReadPoint \/ ReadNothing \/ Report
      BY <2>1, <2>7 DEF ReadPoint, ReadNothing, Report, Go, globalVars, portVars, settingVars,
                        SettingsFollow, PortKnown, BackAgain, InterruptRestores
    <2>8. CASE Restore
      BY <2>1, <2>8 DEF Restore, GiveBack, Go, globalVars, SettingsFollow, PortKnown, BackAgain,
                        InterruptRestores
    <2>9. CASE Free \/ Clear
      BY <2>1, <2>9 DEF Free, Clear, Go, portVars, settingVars, SettingsFollow, PortKnown,
                        BackAgain, InterruptRestores
    <2>10. CASE Close
      BY <2>1, <2>10 DEF Close, Go, settingVars, globalVars, SettingsFollow, PortKnown, BackAgain,
                         InterruptRestores
    <2> QED
      BY <1>2, <2>2, <2>3, <2>4, <2>5, <2>6, <2>7, <2>8, <2>9, <2>10 DEF MainStep
  <1>3. CASE Sigint
    <2>1. exit = "no" /\ PortKnown /\ at' = pc /\ pc' = pc
      BY <1>3 DEF Sigint, SettingsFollow
    <2>2. CASE pointer = "NULL"
      BY <1>3, <2>1, <2>2 DEF Sigint, settingVars, SettingsFollow, PortKnown, BackAgain,
                              InterruptRestores
    <2>3. CASE pointer = "freed"
      BY <1>3, <2>1, <2>3 DEF Sigint, SettingsFollow, PortKnown, InterruptRestores
    <2>4. CASE pointer = "kept" /\ portGlobal = "port"
      BY <1>3, <2>1, <2>4 DEF Sigint, GiveBack, SettingsFollow, PortKnown, InterruptRestores
    <2>5. CASE pointer = "kept" /\ portGlobal = "stdin"
      BY <1>3, <2>1, <2>5 DEF Sigint, SettingsFollow, PortKnown, InterruptRestores
    <2>6. pc \in Places
      BY DEF SettingsFollow
    <2> QED
      BY <2>1, <2>2, <2>3, <2>4, <2>5, <2>6 DEF PortKnown
  <1>4. CASE HangUp
    BY <1>4 DEF HangUp, globalVars, portVars, settingVars, SettingsFollow, PortKnown, BackAgain,
                InterruptRestores
  <1> QED
    BY <1>1, <1>2, <1>3, <1>4 DEF Next
------------------------------------------------------------------------------
(* The line *)

LEMMA Sizes ==
  /\ MASK \in Nat /\ POINTS \in Nat \ {0} /\ PointSize \in Nat \ {0}
  /\ MASK > 0 /\ MASK < 256 /\ POINTS < 256 /\ MASK # POINTS
  /\ Total \in Nat /\ Total = PointSize * POINTS
  /\ \A c \in Nat : c > 0 => PointSize * c = PointSize * (c - 1) + PointSize
  <1>1. /\ MASK \in Nat /\ POINTS \in Nat \ {0} /\ PointSize \in Nat \ {0}
        /\ MASK > 0 /\ MASK < 256 /\ POINTS < 256 /\ MASK # POINTS
    BY PrototypeAssumption
  <1>2. \A a, b \in Nat : a * b \in Nat /\ a * b = b * a
    OBVIOUS
  <1>3. \A a, b \in Nat : b > 0 => a * b = a * (b - 1) + a
    OBVIOUS
  <1>4. Total \in Nat /\ Total = PointSize * POINTS
    BY <1>1, <1>2 DEF Total
  <1> QED
    BY <1>1, <1>3, <1>4

(* Two sequences, one behind the other.                                      *)
LEMMA Joined ==
  ASSUME NEW S, NEW s \in Seq(S), NEW t \in Seq(S), NEW m, NEW n, Len(s) = m, Len(t) = n
  PROVE  /\ m \in Nat /\ n \in Nat
         /\ s \o t \in Seq(S) /\ Len(s \o t) = m + n
         /\ \A k \in 1 .. m : (s \o t)[k] = s[k]
         /\ \A k \in m+1 .. m+n : (s \o t)[k] = t[k - m]
  <1>1. Len(s) \in Nat /\ Len(t) \in Nat
    BY LenProperties
  <1>2. /\ s \o t \in Seq(S) /\ Len(s \o t) = Len(s) + Len(t)
        /\ \A k \in 1 .. Len(s) + Len(t) :
             (s \o t)[k] = IF k <= Len(s) THEN s[k] ELSE t[k - Len(s)]
    BY ConcatProperties
  <1> QED
    BY <1>1, <1>2

(* What a successful write puts on the line, byte by byte.                   *)
LEMMA AnswerComes ==
  ASSUME NEW k \in Nat
  PROVE  LET s == [i \in 1 .. k |-> Echo] \o Header \o Points
         IN  /\ s \in Seq(Nat) /\ Len(s) = k + 4 + Total
             /\ \A i \in 1 .. Len(s) : s[i] = Answer(k, i)
  <1> DEFINE e == [i \in 1 .. k |-> Echo]
             t == e \o Header
             s == t \o Points
  <1>1. e \in Seq(Nat) /\ Len(e) = k /\ \A i \in 1 .. k : e[i] = Echo
    BY DEF Echo
  <1>2. Header \in Seq(Nat) /\ Len(Header) = 4
    BY Sizes DEF Header
  <1>3. Points \in Seq(Nat) /\ Len(Points) = Total
    <2>1. Total \in Nat /\ Points = [i \in 1 .. Total |-> 200 + i]
      BY Sizes DEF Points, Total
    <2> QED
      BY <2>1
  <1>4. Total \in Nat
    BY Sizes
  <1> HIDE DEF e
  <1>5. /\ t \in Seq(Nat) /\ Len(t) = k + 4
        /\ \A i \in 1 .. k : t[i] = e[i]
        /\ \A i \in k + 1 .. k + 4 : t[i] = Header[i - k]
    <2> DEFINE m == Len(e)
               n == Len(Header)
    <2>1. m = k /\ n = 4
      BY <1>1, <1>2
    <2>2. m = Len(e) /\ n = Len(Header)
      OBVIOUS
    <2>3. e \in Seq(Nat) /\ Header \in Seq(Nat)
      BY <1>1, <1>2
    <2> HIDE DEF m, n
    <2>4. /\ t \in Seq(Nat) /\ Len(t) = m + n
          /\ \A i \in 1 .. m : t[i] = e[i]
          /\ \A i \in m + 1 .. m + n : t[i] = Header[i - m]
      BY ONLY <2>2, <2>3, Joined
    <2> QED
      BY <2>1, <2>4
  <1> HIDE DEF t
  <1>6. /\ s \in Seq(Nat) /\ Len(s) = k + 4 + Total
        /\ \A i \in 1 .. k + 4 : s[i] = t[i]
        /\ \A i \in (k + 4) + 1 .. (k + 4) + Total : s[i] = Points[i - (k + 4)]
    BY ONLY <1>3, <1>5, Joined
  <1> HIDE DEF s
  <1>7. ASSUME NEW i \in 1 .. Len(s) PROVE s[i] = Answer(k, i)
    <2>1. i \in 1 .. k + 4 + Total /\ i \in Int /\ i - (k + 4) = i - k - 4
      BY <1>4, <1>6
    <2>2. CASE i <= k
      <3>1. i \in 1 .. k /\ i \in 1 .. k + 4
        BY <2>1, <2>2
      <3> QED
        BY <1>1, <1>5, <1>6, <2>2, <3>1 DEF Answer
    <2>3. CASE ~(i <= k) /\ i <= k + 4
      <3>1. i \in k + 1 .. k + 4 /\ i \in 1 .. k + 4
        BY <2>1, <2>3
      <3> QED
        BY <1>5, <1>6, <2>3, <3>1 DEF Answer
    <2>4. CASE ~(i <= k + 4)
      <3>1. i \in (k + 4) + 1 .. (k + 4) + Total /\ ~(i <= k)
        BY <1>4, <2>1, <2>4
      <3> QED
        BY <1>6, <2>1, <2>4, <3>1 DEF Answer
    <2> QED
      BY <2>2, <2>3, <2>4
  <1> QED
    BY <1>6, <1>7 DEF s, t, e

(* A read that gets all the bytes it asks for gets them from the line.       *)
LEMMA FullRead ==
  ASSUME ReadTypes, NEW n \in Nat \ {0}, Arrives(n, n)
  PROVE  line # << >> /\ Len(line) \in Nat /\ n <= Len(line)
  <1>1. Len(line) \in Nat /\ (line = << >> => Len(line) = 0)
    BY LenProperties, EmptySeq DEF ReadTypes
  <1>2. n <= Len(line)
    BY <1>1 DEF Arrives
  <1> QED
    BY <1>1, <1>2

(* What is taken of a sequence, and what is left.                            *)
LEMMA Split ==
  ASSUME NEW s \in Seq(Nat), NEW n \in Nat, n <= Len(s)
  PROVE  LET first == SubSeq(s, 1, n)
             rest == SubSeq(s, n + 1, Len(s))
         IN  /\ first \in Seq(Nat) /\ Len(first) = n
             /\ \A i \in 1 .. n : first[i] = s[i]
             /\ rest \in Seq(Nat) /\ Len(rest) = Len(s) - n
             /\ \A i \in 1 .. Len(s) - n : rest[i] = s[n + i]
  <1>1. Len(s) \in Nat /\ \A i \in 1 .. Len(s) : s[i] \in Nat
    BY LenProperties, ElementOfSeq
  <1>2. \A i \in 1 .. n : s[i] \in Nat
    BY <1>1
  <1>3. \A i \in n + 1 .. Len(s) : s[i] \in Nat
    BY <1>1
  <1> DEFINE first == SubSeq(s, 1, n)
             rest == SubSeq(s, n + 1, Len(s))
  <1>4. /\ first \in Seq(Nat) /\ Len(first) = (IF 1 <= n THEN n - 1 + 1 ELSE 0)
        /\ \A i \in 1 .. n - 1 + 1 : first[i] = s[1 + i - 1]
    BY <1>2, SubSeqProperties
  <1>5. n + 1 \in Int /\ Len(s) \in Int
    BY <1>1
  <1>6. /\ rest \in Seq(Nat)
        /\ Len(rest) = (IF n + 1 <= Len(s) THEN Len(s) - (n + 1) + 1 ELSE 0)
        /\ \A i \in 1 .. Len(s) - (n + 1) + 1 : rest[i] = s[n + 1 + i - 1]
    BY <1>3, <1>5, SubSeqProperties
  <1> HIDE DEF first, rest
  <1>7. Len(first) = n /\ \A i \in 1 .. n : first[i] = s[i]
    <2>1. n - 1 + 1 = n /\ \A i \in 1 .. n : 1 + i - 1 = i
      OBVIOUS
    <2> QED
      BY <1>4, <2>1
  <1>8. Len(rest) = Len(s) - n /\ \A i \in 1 .. Len(s) - n : rest[i] = s[n + i]
    <2>1. Len(rest) = Len(s) - n
      BY <1>1, <1>6
    <2>2. ASSUME NEW i \in 1 .. Len(s) - n PROVE rest[i] = s[n + i]
      <3>1. i \in 1 .. Len(s) - (n + 1) + 1 /\ n + 1 + i - 1 = n + i
        BY <1>1
      <3> QED
        BY <1>6, <3>1
    <2> QED
      BY <2>1, <2>2
  <1> QED
    BY <1>4, <1>6, <1>7, <1>8 DEF first, rest
------------------------------------------------------------------------------
(* Types *)

LEMMA TypesStart == Init => ReadTypes
  <1> SUFFICES ASSUME Init PROVE ReadTypes
    OBVIOUS
  <1>1. << >> \in Seq(Nat)
    BY EmptySeq
  <1>2. details \in Nat \X Nat
    <2>1. \A i \in 0 .. MaxCount : i \in Nat
      BY PrototypeAssumption
    <2>2. {NothingYet, MASK} \subseteq Nat
      BY Sizes DEF NothingYet
    <2> QED
      BY <2>1, <2>2 DEF Init
  <1> QED
    BY <1>1, <1>2 DEF Init, ReadTypes

(* How the search moves its window on.                                       *)
LEMMA WindowMoves ==
  ASSUME NEW w \in Seq(Nat), Len(w) = 4, NEW b \in Nat
  PROVE  LET v == Append(Tail(w), b)
         IN  /\ v \in Seq(Nat) /\ Len(v) = 4
             /\ v[1] = w[2] /\ v[2] = w[3] /\ v[3] = w[4] /\ v[4] = b
  <1>1. Len(<< >>) = 0
    BY EmptySeq
  <1>2. w # << >>
    BY <1>1
  <1> DEFINE t == Tail(w)
             v == Append(t, b)
  <1>3. t \in Seq(Nat) /\ Len(t) = Len(w) - 1 /\ \A i \in 1 .. Len(t) : t[i] = w[i + 1]
    BY ONLY <1>2, w \in Seq(Nat), HeadTailProperties
  <1> HIDE DEF t
  <1>4. Len(t) = 3 /\ 1 \in 1 .. Len(t) /\ 2 \in 1 .. Len(t) /\ 3 \in 1 .. Len(t)
    BY <1>3
  <1>5. t[1] = w[2] /\ t[2] = w[3] /\ t[3] = w[4]
    BY <1>3, <1>4
  <1>6. /\ v \in Seq(Nat) /\ Len(v) = Len(t) + 1
        /\ \A i \in 1 .. Len(t) : v[i] = t[i]
        /\ v[Len(t) + 1] = b
    BY ONLY <1>3, b \in Nat, AppendProperties
  <1> HIDE DEF v
  <1>7. Len(v) = 4 /\ v[1] = t[1] /\ v[2] = t[2] /\ v[3] = t[3] /\ v[4] = b
    BY <1>4, <1>6
  <1> QED
    BY <1>5, <1>6, <1>7 DEF v, t

LEMMA TypesKept == ReadTypes /\ [Next]_vars => ReadTypes'
  <1> SUFFICES ASSUME ReadTypes, [Next]_vars PROVE ReadTypes'
    OBVIOUS
  <1>1. ASSUME UNCHANGED readVars, pc' = pc \/ pc' # "search" PROVE ReadTypes'
    BY <1>1 DEF readVars, ReadTypes
  <1>2. CASE UNCHANGED vars
    BY <1>1, <1>2 DEF vars
  <1>3. CASE Open \/ MakeRaw \/ NoMemory \/ Publish \/ StorePort \/ ReadFails \/ Report
             \/ ReportCrashes
    BY <1>1, <1>3 DEF Open, MakeRaw, NoMemory, Publish, StorePort, ReadFails, Report,
                      ReportCrashes, Crash, Go, AfterRaw
  <1>4. CASE Restore \/ Free \/ Clear \/ Close \/ Sigint
    BY <1>1, <1>4 DEF Restore, Free, Clear, Close, Sigint, Go
  <1>5. CASE WriteScan
    <2>1. PICK k \in 0 .. MaxNoise :
            \/ line' = IF isOpen /\ ~hungUp THEN [i \in 1 .. k |-> Echo] \o Header \o Points
                       ELSE line
            \/ line' = line
      <3>1. 0 \in 0 .. MaxNoise
        BY PrototypeAssumption
      <3> QED
        BY <1>5, <3>1 DEF WriteScan
    <2>2. line' \in Seq(Nat)
      <3>1. k \in Nat
        BY PrototypeAssumption
      <3>2. [i \in 1 .. k |-> Echo] \o Header \o Points \in Seq(Nat)
        BY <3>1, AnswerComes
      <3> QED
        BY <2>1, <3>2 DEF ReadTypes
    <2> QED
      BY <1>5, <2>2 DEF WriteScan, Go, ReadTypes
  <1>6. CASE ReadWindow
    <2>1. PICK k \in 0 .. 4, left \in {NothingYet, Echo} :
            /\ Arrives(4, k)
            /\ window' = SubSeq(line, 1, k) \o [i \in 1 .. 4 - k |-> left]
            /\ line' = SubSeq(line, k + 1, Len(line))
      BY <1>6 DEF ReadWindow
    <2>2. k \in Nat /\ k <= Len(line)
      BY <2>1, LenProperties DEF Arrives, ReadTypes
    <2>3. /\ SubSeq(line, 1, k) \in Seq(Nat) /\ Len(SubSeq(line, 1, k)) = k
          /\ line' \in Seq(Nat)
      BY <2>1, <2>2, Split DEF ReadTypes
    <2> DEFINE f == [i \in 1 .. 4 - k |-> left]
               s == SubSeq(line, 1, k)
    <2>4. f \in Seq(Nat) /\ Len(f) = 4 - k
      <3>1. left \in Nat /\ 4 - k \in Nat
        BY DEF NothingYet, Echo
      <3> QED
        BY <3>1
    <2>5. s \in Seq(Nat) /\ Len(s) = k /\ window' = s \o f
      BY <2>1, <2>3
    <2> HIDE DEF f, s
    <2>6. s \o f \in Seq(Nat) /\ Len(s \o f) = Len(s) + Len(f)
      BY <2>4, <2>5, ConcatProperties
    <2>7. window' \in Seq(Nat) /\ Len(window') = 4
      BY <2>4, <2>5, <2>6
    <2> QED
      BY <1>6, <2>3, <2>7 DEF ReadWindow, Go, ReadTypes
  <1>7. CASE SearchHeader
    <2>1. PICK k \in 0 .. 1 :
            /\ Arrives(1, k)
            /\ window' = Append(Tail(window), IF k = 1 THEN Head(line) ELSE window[4])
            /\ line' = SubSeq(line, k + 1, Len(line))
            /\ details' = <<Word(window'[1], window'[2]), Word(window'[3], window'[4])>>
      BY <1>7 DEF SearchHeader
    <2>2. k <= Len(line)
      BY <2>1, LenProperties DEF Arrives, ReadTypes
    <2>3. line' \in Seq(Nat)
      BY <2>1, <2>2, Split DEF ReadTypes
    <2> DEFINE b == IF k = 1 THEN Head(line) ELSE window[4]
    <2>4. Len(window) = 4 /\ window[4] \in Nat
      <3>1. window \in Seq(Nat) /\ Len(window) = 4 /\ 4 \in 1 .. Len(window)
        <4>1. pc = "search"
          BY <1>7 DEF SearchHeader, Go
        <4>2. window \in Seq(Nat) /\ Len(window) = 4
          BY <4>1 DEF ReadTypes
        <4> QED
          BY <4>2
      <3> QED
        BY <3>1, ElementOfSeq
    <2>5. b \in Nat
      <3>1. CASE k = 1
        <4>1. line # << >> /\ Head(line) \in Nat
          BY <2>2, <3>1, EmptySeq, HeadTailProperties DEF ReadTypes
        <4> QED
          BY <3>1, <4>1
      <3> QED
        BY <2>4, <3>1
    <2>6. window' = Append(Tail(window), b)
      BY <2>1
    <2> HIDE DEF b
    <2>7. window' \in Seq(Nat) /\ Len(window') = 4
      BY <2>4, <2>5, <2>6, WindowMoves DEF ReadTypes
    <2>8. \A i \in 1 .. 4 : window'[i] \in Nat
      BY <2>7, ElementOfSeq
    <2>9. details' \in Nat \X Nat
      <3>1. \A x, y \in Nat : Word(x, y) \in Nat
        BY DEF Word
      <3>2. /\ window'[1] \in Nat /\ window'[2] \in Nat
            /\ window'[3] \in Nat /\ window'[4] \in Nat
        BY <2>8
      <3>3. Word(window'[1], window'[2]) \in Nat /\ Word(window'[3], window'[4]) \in Nat
        BY <3>1, <3>2
      <3> QED
        BY <2>1, <3>3
    <2> QED
      BY <1>7, <2>3, <2>7, <2>9 DEF SearchHeader, Go, ReadTypes
  <1>8. CASE HeaderFound
    BY <1>8 DEF HeaderFound, Go, ReadTypes
  <1>9. CASE ReadPoint
    <2>1. PICK k \in 0 .. PointSize :
            /\ Arrives(PointSize, k)
            /\ data' = data \o SubSeq(line, 1, k)
            /\ line' = SubSeq(line, k + 1, Len(line))
      BY <1>9 DEF ReadPoint, Stored
    <2>2. k \in Nat /\ k <= Len(line)
      BY <2>1, Sizes, LenProperties DEF Arrives, ReadTypes
    <2> DEFINE s == SubSeq(line, 1, k)
    <2>3. s \in Seq(Nat) /\ line' \in Seq(Nat) /\ data' = data \o s
      BY <2>1, <2>2, Split DEF ReadTypes
    <2> HIDE DEF s
    <2>4. data' \in Seq(Nat)
      BY <2>3, ConcatProperties DEF ReadTypes
    <2>5. count - 1 \in Nat
      BY <1>9 DEF ReadPoint, ReadTypes
    <2> QED
      BY <1>9, <2>3, <2>4, <2>5 DEF ReadPoint, Go, ReadTypes
  <1>10. CASE HangUp
    BY <1>10, EmptySeq DEF HangUp, ReadTypes
  <1>11. CASE ReadNothing
    <2>1. count - 1 \in Nat
      BY <1>11 DEF ReadNothing, ReadTypes
    <2> QED
      BY <1>11, <2>1 DEF ReadNothing, Go, ReadTypes
  <1> QED
    BY <1>2, <1>3, <1>4, <1>5, <1>6, <1>7, <1>8, <1>9, <1>10, <1>11 DEF Next, MainStep
------------------------------------------------------------------------------
(* The search *)

(* One byte of the echo fewer ahead.                                         *)
LEMMA AnswerMoves ==
  ASSUME NEW k \in Nat \ {0}, NEW n \in Nat \ {0}
  PROVE  Answer(k - 1, n) = Answer(k, n + 1)
  <1>1. n + 1 - k = n - (k - 1) /\ n + 1 - k - 4 = n - (k - 1) - 4
    OBVIOUS
  <1>2. (n + 1 <= k) = (n <= k - 1) /\ (n + 1 <= k + 4) = (n <= k - 1 + 4)
    OBVIOUS
  <1> QED
    BY <1>1, <1>2 DEF Answer

(* No two words of the echo, or of echo and header, look like one of those   *)
(* the search is for.                                                        *)
LEMMA WordsTell ==
  ASSUME NEW k \in Nat
  PROVE  LET first == Word(Answer(k, 1), Answer(k, 2))
             second == Word(Answer(k, 3), Answer(k, 4))
         IN  IF k = 0 THEN first = MASK /\ second = POINTS
             ELSE first # MASK /\ second # POINTS
  <1>1. Header[1] = MASK /\ Header[2] = 0 /\ Header[3] = POINTS /\ Header[4] = 0
    BY DEF Header
  <1>2. CASE k = 0
    <2>1. /\ Answer(k, 1) = MASK /\ Answer(k, 2) = 0
          /\ Answer(k, 3) = POINTS /\ Answer(k, 4) = 0
      BY <1>1, <1>2 DEF Answer
    <2> QED
      BY <1>2, <2>1, Sizes DEF Word
  <1>3. CASE k = 1
    <2>1. /\ Answer(k, 1) = 1 /\ Answer(k, 2) = MASK
          /\ Answer(k, 3) = 0 /\ Answer(k, 4) = POINTS
      BY <1>1, <1>3 DEF Answer, Echo
    <2> QED
      BY <1>3, <2>1, Sizes DEF Word
  <1>4. CASE k = 2
    <2>1. /\ Answer(k, 1) = 1 /\ Answer(k, 2) = 1
          /\ Answer(k, 3) = MASK /\ Answer(k, 4) = 0
      BY <1>1, <1>4 DEF Answer, Echo
    <2> QED
      BY <1>4, <2>1, Sizes DEF Word
  <1>5. CASE k = 3
    <2>1. /\ Answer(k, 1) = 1 /\ Answer(k, 2) = 1
          /\ Answer(k, 3) = 1 /\ Answer(k, 4) = MASK
      BY <1>1, <1>5 DEF Answer, Echo
    <2> QED
      BY <1>5, <2>1, Sizes DEF Word
  <1>6. CASE k > 3
    <2>1. /\ Answer(k, 1) = 1 /\ Answer(k, 2) = 1
          /\ Answer(k, 3) = 1 /\ Answer(k, 4) = 1
      BY <1>6 DEF Answer, Echo
    <2> QED
      BY <1>6, <2>1, Sizes DEF Word
  <1> QED
    BY <1>2, <1>3, <1>4, <1>5, <1>6

LEMMA WindowStep ==
  ASSUME ReadTypes, ReadInStep, ReadWindow, clean' PROVE ReadInStep'
  <1>1. /\ pc = "first" /\ pc' = "search" /\ Searching /\ data = << >>
        /\ UNCHANGED <<details, data>>
    BY DEF ReadWindow, Go, ReadInStep
  <1>2. PICK k \in Nat : Follows(k, 0)
    BY <1>1 DEF ReadInStep
  <1>3. PICK left \in {NothingYet, Echo} :
          /\ Arrives(4, 4) /\ window' # Header
          /\ window' = SubSeq(line, 1, 4) \o [i \in 1 .. 4 - 4 |-> left]
          /\ line' = SubSeq(line, 4 + 1, Len(line))
    BY DEF ReadWindow
  <1>4. line # << >> /\ Len(line) \in Nat /\ 4 <= Len(line)
    BY <1>3, FullRead
  <1>5. Len(line) = k + 4 + Total /\ \A i \in 1 .. Len(line) : line[i] = Answer(k, i)
    <2>1. Len(line) = k + 4 + Total - 0 /\ \A i \in 1 .. Len(line) : line[i] = Answer(k, 0 + i)
      BY <1>2, <1>4 DEF Follows
    <2> QED
      BY <2>1, Sizes
  <1>6. /\ SubSeq(line, 1, 4) \in Seq(Nat) /\ Len(SubSeq(line, 1, 4)) = 4
        /\ \A i \in 1 .. 4 : SubSeq(line, 1, 4)[i] = line[i]
        /\ line' \in Seq(Nat) /\ Len(line') = Len(line) - 4
        /\ \A i \in 1 .. Len(line) - 4 : line'[i] = line[4 + i]
    <2>1. line \in Seq(Nat) /\ 4 \in Nat /\ 4 <= Len(line)
      BY <1>4 DEF ReadTypes
    <2>2. line' = SubSeq(line, 4 + 1, Len(line))
      BY <1>3
    <2> QED
      BY ONLY <2>1, <2>2, Split
  <1>7. window' = SubSeq(line, 1, 4)
    <2> DEFINE s == SubSeq(line, 1, 4)
               f == [i \in 1 .. 4 - 4 |-> left]
    <2>1. f = << >>
      OBVIOUS
    <2>2. s \in Seq(Nat)
      BY <1>6
    <2>3. window' = s \o f
      BY <1>3
    <2> HIDE DEF s, f
    <2>4. window' = s
      BY <2>1, <2>2, <2>3, ConcatEmptySeq
    <2> QED
      BY <2>4 DEF s
  <1>8. InWindow(k)'
    <2>1. Len(window') = 4
      BY <1>6, <1>7
    <2>2. \A i \in 1 .. 4 : i \in 1 .. Len(line) /\ window'[i] = line[i]
      BY <1>4, <1>6, <1>7
    <2> QED
      BY <1>5, <2>1, <2>2 DEF InWindow, Answer, Header, Points, Echo
  <1>9. k # 0
    <2> SUFFICES ASSUME k = 0 PROVE window' = Header
      BY <1>3
    <2>1. \A i \in 1 .. 4 : window'[i] = Header[i]
      <3> SUFFICES ASSUME NEW i \in 1 .. 4 PROVE window'[i] = Header[i]
        OBVIOUS
      <3>1. window'[i] = line[i] /\ line[i] = Answer(0, i)
        BY <1>4, <1>5, <1>6, <1>7
      <3>2. Answer(0, i) = Header[i]
        BY DEF Answer
      <3> QED
        BY <3>1, <3>2
    <2>2. Header \in Seq(Nat) /\ Len(Header) = 4
      BY Sizes DEF Header
    <2>3. window' \in Seq(Nat) /\ Len(window') = 4
      BY <1>6, <1>7
    <2> DEFINE w == window'
    <2> HIDE DEF w
    <2>4. w \in Seq(Nat) /\ Len(w) = Len(Header) /\ \A i \in 1 .. Len(w) : w[i] = Header[i]
      BY <2>1, <2>2, <2>3 DEF w
    <2>5. w = Header
      BY ONLY <2>2, <2>4, SeqEqual
    <2> QED
      BY <2>5 DEF w
  <1>10. Follows(k, 4)'
    <2>1. Len(line') = k + 4 + Total - 4
      BY <1>5, <1>6, Sizes
    <2>2. ASSUME NEW i \in 1 .. Len(line') PROVE line'[i] = Answer(k, 4 + i)
      <3>1. i \in 1 .. Len(line) - 4 /\ 4 + i \in 1 .. Len(line)
        BY <1>4, <1>6
      <3> QED
        BY <1>5, <1>6, <3>1
    <2> QED
      BY <2>1, <2>2 DEF Follows, Answer, Header, Points, Echo, Total
  <1>11. Searching'
    BY <1>1 DEF Searching
  <1> QED
    BY <1>1, <1>8, <1>9, <1>10, <1>11 DEF ReadInStep, AnswerWhole
LEMMA SearchStep ==
  ASSUME ReadTypes, ReadInStep, SearchHeader, clean' PROVE ReadInStep'
  <1>1. /\ pc = "search" /\ pc' = "search" /\ Searching /\ data = << >>
        /\ UNCHANGED data
    BY DEF SearchHeader, Go, ReadInStep
  <1>2. PICK k \in Nat :
          /\ InWindow(k) /\ Follows(k, 4)
          /\ IF k = 0 THEN details = <<MASK, POINTS>> ELSE Searching
    BY <1>1 DEF ReadInStep
  <1>3. k # 0
    BY <1>1, <1>2 DEF Searching
  <1>4. /\ Arrives(1, 1)
        /\ window' = Append(Tail(window), Head(line))
        /\ line' = SubSeq(line, 1 + 1, Len(line))
        /\ details' = <<Word(window'[1], window'[2]), Word(window'[3], window'[4])>>
    BY DEF SearchHeader
  <1>5. line # << >> /\ Len(line) \in Nat /\ 1 <= Len(line)
    BY <1>4, FullRead
  <1>6. Len(line) = k + 4 + Total - 4 /\ \A i \in 1 .. Len(line) : line[i] = Answer(k, 4 + i)
    BY <1>2, <1>5 DEF Follows
  <1>7. Len(line') = Len(line) - 1 /\ \A i \in 1 .. Len(line) - 1 : line'[i] = line[1 + i]
    <2>1. line \in Seq(Nat) /\ 1 \in Nat /\ 1 <= Len(line)
      BY <1>5 DEF ReadTypes
    <2>2. line' = SubSeq(line, 1 + 1, Len(line))
      BY <1>4
    <2> QED
      BY ONLY <2>1, <2>2, Split
  <1>8. /\ Len(window') = 4
        /\ window'[1] = window[2] /\ window'[2] = window[3] /\ window'[3] = window[4]
        /\ window'[4] = Head(line)
    <2>1. Head(line) \in Nat
      BY <1>5, HeadTailProperties DEF ReadTypes
    <2>2. window \in Seq(Nat) /\ Len(window) = 4
      BY <1>1 DEF ReadTypes
    <2> QED
      BY ONLY <1>4, <2>1, <2>2, WindowMoves
  <1>9. Head(line) = Answer(k, 5)
    <2>1. Head(line) = line[1] /\ 1 \in 1 .. Len(line)
      BY <1>5 DEF ReadTypes
    <2> QED
      BY <1>6, <2>1
  <1>10. \A i \in 1 .. 4 : window'[i] = Answer(k - 1, i)
    <2>1. window[2] = Answer(k, 2) /\ window[3] = Answer(k, 3) /\ window[4] = Answer(k, 4)
      BY <1>2 DEF InWindow
    <2>2. \A i \in Nat \ {0} : Answer(k - 1, i) = Answer(k, i + 1)
      BY <1>3, AnswerMoves
    <2>3. /\ Answer(k - 1, 1) = Answer(k, 2) /\ Answer(k - 1, 2) = Answer(k, 3)
          /\ Answer(k - 1, 3) = Answer(k, 4) /\ Answer(k - 1, 4) = Answer(k, 5)
      BY <2>2
    <2> QED
      BY <1>8, <1>9, <2>1, <2>3
  <1>11. k - 1 \in Nat
    BY <1>3
  <1>12. InWindow(k - 1)'
    BY <1>8, <1>10 DEF InWindow, Answer, Header, Points, Echo
  <1>13. Follows(k - 1, 4)'
    <2>1. Len(line') = k - 1 + 4 + Total - 4
      BY <1>6, <1>7, Sizes
    <2>2. ASSUME NEW i \in 1 .. Len(line') PROVE line'[i] = Answer(k - 1, 4 + i)
      <3>1. i \in 1 .. Len(line) - 1 /\ 1 + i \in 1 .. Len(line) /\ 4 + i \in Nat \ {0}
        BY <1>5, <1>7
      <3>2. line'[i] = Answer(k, 4 + (1 + i))
        BY <1>6, <1>7, <3>1
      <3>3. 4 + (1 + i) = 4 + i + 1
        BY <3>1
      <3>4. Answer(k - 1, 4 + i) = Answer(k, 4 + i + 1)
        BY <1>3, <3>1, AnswerMoves
      <3> QED
        BY <3>2, <3>3, <3>4
    <2> QED
      BY <2>1, <2>2 DEF Follows, Answer, Header, Points, Echo, Total
  <1>14. IF k - 1 = 0 THEN details' = <<MASK, POINTS>> ELSE Searching'
    <2> DEFINE j == k - 1
    <2>1. j \in Nat
      BY <1>11
    <2>2. details' = <<Word(Answer(j, 1), Answer(j, 2)), Word(Answer(j, 3), Answer(j, 4))>>
      <3>1. /\ window'[1] = Answer(j, 1) /\ window'[2] = Answer(j, 2)
            /\ window'[3] = Answer(j, 3) /\ window'[4] = Answer(j, 4)
        BY <1>10
      <3> QED
        BY <1>4, <3>1
    <2> HIDE DEF j
    <2>3. IF j = 0 THEN details' = <<MASK, POINTS>> ELSE Searching'
      BY <2>1, <2>2, WordsTell DEF Searching
    <2> QED
      BY <2>3 DEF j
  <1> QED
    BY <1>1, <1>11, <1>12, <1>13, <1>14 DEF ReadInStep, AnswerWhole

------------------------------------------------------------------------------
(* The points *)

LEMMA PointStep ==
  ASSUME ReadTypes, ReadInStep, ReadPoint, clean' PROVE ReadInStep'
  <1>1. pc = "points" /\ pc' = "points" /\ count > 0 /\ count' = count - 1
    BY DEF ReadPoint, Go
  <1>2. /\ Len(data) + PointSize * count = Total
        /\ \A i \in 1 .. Len(data) : data[i] = Points[i]
        /\ Follows(0, 4 + Len(data))
    BY <1>1 DEF ReadInStep
  <1> DEFINE p == SubSeq(line, 1, PointSize)
             d == data'
  <1>3. /\ Arrives(PointSize, PointSize)
        /\ d = data \o p
        /\ line' = SubSeq(line, PointSize + 1, Len(line))
    BY DEF ReadPoint, Stored
  <1>4. PointSize \in Nat \ {0} /\ count \in Nat /\ Len(data) \in Nat /\ Total \in Nat
    BY Sizes, LenProperties DEF ReadTypes
  <1>5. line # << >> /\ Len(line) \in Nat /\ PointSize <= Len(line)
    BY <1>3, <1>4, FullRead
  <1>6. /\ Len(line) = 0 + 4 + Total - (4 + Len(data))
        /\ \A i \in 1 .. Len(line) : line[i] = Answer(0, 4 + Len(data) + i)
    BY <1>2, <1>5 DEF Follows
  <1>7. ASSUME NEW i \in 1 .. Len(line) PROVE line[i] = Points[Len(data) + i]
    <2>1. /\ i \in Int /\ i >= 1
          /\ ~(4 + Len(data) + i <= 0) /\ ~(4 + Len(data) + i <= 0 + 4)
          /\ 4 + Len(data) + i - 0 - 4 = Len(data) + i
      BY <1>4
    <2> QED
      BY <1>6, <2>1 DEF Answer
  <1>8. /\ p \in Seq(Nat) /\ Len(p) = PointSize
        /\ \A i \in 1 .. PointSize : p[i] = line[i]
        /\ Len(line') = Len(line) - PointSize
        /\ \A i \in 1 .. Len(line) - PointSize : line'[i] = line[PointSize + i]
    <2>1. line \in Seq(Nat) /\ PointSize \in Nat /\ PointSize <= Len(line)
      BY <1>4, <1>5 DEF ReadTypes
    <2> QED
      BY ONLY <1>3, <2>1, Split
  <1> HIDE DEF p
  <1>9. /\ Len(d) = Len(data) + Len(p)
        /\ \A i \in 1 .. Len(data) : d[i] = data[i]
        /\ \A i \in Len(data) + 1 .. Len(data) + Len(p) : d[i] = p[i - Len(data)]
    <2>1. data \in Seq(Nat) /\ p \in Seq(Nat)
      BY <1>8 DEF ReadTypes
    <2> DEFINE m == Len(data)
               n == Len(p)
    <2>2. m = Len(data) /\ n = Len(p)
      OBVIOUS
    <2> HIDE DEF m, n, d
    <2>3. /\ Len(d) = m + n
          /\ \A i \in 1 .. m : d[i] = data[i]
          /\ \A i \in m + 1 .. m + n : d[i] = p[i - m]
      BY ONLY <1>3, <2>1, <2>2, Joined
    <2> QED
      BY <2>2, <2>3
  <1> HIDE DEF d
  <1>10. Len(d) = Len(data) + PointSize
    BY <1>8, <1>9
  <1>11. Len(d) + PointSize * (count - 1) = Total
    <2> DEFINE x == PointSize * count
               y == PointSize * (count - 1)
    <2>1. x = y + PointSize
      BY <1>1, <1>4, Sizes
    <2>2. x \in Int /\ y \in Int /\ Len(data) + x = Total
      BY <1>2, <1>4
    <2> HIDE DEF x, y
    <2>3. Len(d) + y = Total
      BY <1>4, <1>10, <2>1, <2>2
    <2> QED
      BY <2>3 DEF y
  <1>12. ASSUME NEW i \in 1 .. Len(d) PROVE d[i] = Points[i]
    <2>1. i \in Int /\ i >= 1 /\ i <= Len(data) + PointSize
      BY <1>4, <1>10
    <2>2. CASE i <= Len(data)
      <3>1. i \in 1 .. Len(data)
        BY <1>4, <2>1, <2>2
      <3> QED
        BY <1>2, <1>9, <3>1
    <2>3. CASE ~(i <= Len(data))
      <3> DEFINE j == i - Len(data)
      <3>1. j \in 1 .. PointSize /\ j \in 1 .. Len(line) /\ Len(data) + j = i
        BY <1>4, <1>5, <2>1, <2>3
      <3>2. i \in Len(data) + 1 .. Len(data) + Len(p)
        BY <1>4, <1>8, <2>1, <2>3
      <3>3. d[i] = p[j]
        BY <1>9, <3>2
      <3> HIDE DEF j
      <3>4. p[j] = line[j] /\ line[j] = Points[Len(data) + j]
        BY <1>7, <1>8, <3>1
      <3> QED
        BY <3>1, <3>3, <3>4
    <2> QED
      BY <2>2, <2>3
  <1>13. Len(line') = 0 + 4 + Total - (4 + Len(d))
    BY <1>4, <1>5, <1>6, <1>8, <1>10
  <1>14. ASSUME NEW i \in 1 .. Len(line') PROVE line'[i] = Answer(0, 4 + Len(d) + i)
    <2>1. i \in 1 .. Len(line) - PointSize /\ PointSize + i \in 1 .. Len(line)
      BY <1>4, <1>5, <1>8
    <2>2. line'[i] = line[PointSize + i]
      BY <1>8, <2>1
    <2>3. line[PointSize + i] = Answer(0, 4 + Len(data) + (PointSize + i))
      BY <1>6, <2>1
    <2>4. 4 + Len(data) + (PointSize + i) = 4 + Len(d) + i
      BY <1>4, <1>10, <2>1
    <2> QED
      BY <2>2, <2>3, <2>4
  <1>15. Follows(0, 4 + Len(data))'
    BY <1>13, <1>14 DEF d, Follows, Answer, Header, Points, Echo, Total
  <1> QED
    BY <1>1, <1>11, <1>12, <1>15 DEF d, ReadInStep, AnswerWhole, Points, Total
LEMMA CountStep ==
  ASSUME ReadTypes, ReadInStep, HeaderFound PROVE ReadInStep'
  <1>1. /\ pc = "search" /\ pc' = "points" /\ ~Searching /\ data = << >>
        /\ count' = details[2] /\ UNCHANGED <<line, data>>
    BY DEF HeaderFound, Go, ReadInStep
  <1>2. Follows(0, 4) /\ details = <<MASK, POINTS>>
    BY <1>1 DEF ReadInStep
  <1>3. Len(data) = 0 /\ Len(data') = 0
    BY <1>1, EmptySeq
  <1>4. count' = POINTS
    BY <1>1, <1>2
  <1>5. Len(data') + PointSize * count' = Total
    BY <1>3, <1>4, Sizes
  <1>6. \A i \in 1 .. Len(data') : data'[i] = Points[i]
    BY <1>3
  <1>7. 4 + Len(data') = 4
    BY <1>3
  <1>8. Follows(0, 4 + Len(data))'
    BY <1>1, <1>2, <1>7 DEF Follows, Answer, Header, Points, Echo, Total
  <1> QED
    BY <1>1, <1>5, <1>6, <1>8 DEF ReadInStep, AnswerWhole, Points, Total

LEMMA ReportStep ==
  ASSUME ReadTypes, ReadInStep, Report PROVE ReadInStep'
  <1>1. pc = "points" /\ pc' = "restore" /\ count = 0 /\ UNCHANGED data
    BY DEF Report, Go, readVars
  <1>2. Total \in Nat /\ Points = [i \in 1 .. Total |-> 200 + i]
    BY Sizes DEF Points, Total
  <1>3. Points \in Seq(Nat) /\ Len(Points) = Total
    BY <1>2
  <1>4. /\ data \in Seq(Nat) /\ Len(data) + PointSize * count = Total
        /\ \A i \in 1 .. Len(data) : data[i] = Points[i]
    BY <1>1 DEF ReadInStep, ReadTypes
  <1>5. PointSize * count = 0 /\ Len(data) \in Nat
    BY <1>1, <1>4, Sizes, LenProperties
  <1>6. Len(data) = Len(Points)
    BY <1>2, <1>3, <1>4, <1>5
  <1>7. data = Points
    BY <1>3, <1>4, <1>6, SeqEqual
  <1> QED
    BY <1>1, <1>7 DEF ReadInStep, AnswerWhole, Points

------------------------------------------------------------------------------
(* The invariant *)

LEMMA ScanStep ==
  ASSUME ReadInStep, WriteScan PROVE ReadInStep'
  <1>1. /\ pc = "write" /\ pc' = "first" /\ line = << >> /\ data = << >> /\ Searching
        /\ UNCHANGED <<details, data>>
    BY DEF WriteScan, Go, ReadInStep
  <1>2. PICK k \in 0 .. MaxNoise :
          \/ line' = IF isOpen /\ ~hungUp THEN [i \in 1 .. k |-> Echo] \o Header \o Points ELSE line
          \/ line' = line
    <2>1. 0 \in 0 .. MaxNoise
      BY PrototypeAssumption
    <2> QED
      BY <2>1 DEF WriteScan
  <1>3. k \in Nat
    BY PrototypeAssumption
  <1>4. Follows(k, 0)'
    <2> SUFFICES ASSUME line' # << >>
                 PROVE  /\ Len(line') = k + 4 + Total - 0
                        /\ \A i \in 1 .. Len(line') : line'[i] = Answer(k, 0 + i)
      BY DEF Follows, Answer, Header, Points, Echo, Total
    <2> DEFINE s == [i \in 1 .. k |-> Echo] \o Header \o Points
    <2>1. line' = s
      BY <1>1, <1>2
    <2>2. Len(s) = k + 4 + Total /\ \A i \in 1 .. Len(s) : s[i] = Answer(k, i)
      BY <1>3, AnswerComes
    <2> HIDE DEF s
    <2>3. k + 4 + Total = k + 4 + Total - 0 /\ \A i \in 1 .. Len(s) : 0 + i = i
      BY <1>3, Sizes
    <2> QED
      BY <2>1, <2>2, <2>3
  <1>5. Searching'
    BY <1>1 DEF Searching
  <1> QED
    BY <1>1, <1>3, <1>4, <1>5 DEF ReadInStep, AnswerWhole

(* As long as clean holds the bytes read are known, and it never comes back. *)
LEMMA ReadKept ==
  ReadTypes /\ (clean => ReadInStep) /\ [Next]_vars => (clean => ReadInStep)'
  <1> SUFFICES ASSUME ReadTypes, clean => ReadInStep, [Next]_vars, clean'
               PROVE  ReadInStep'
    OBVIOUS
  <1>1. clean
    BY DEF Next, MainStep, vars, Open, MakeRaw, NoMemory, Publish, StorePort, WriteScan,
           ReadFails, ReadWindow, SearchHeader, HeaderFound, ReadPoint, ReadNothing, Report,
           ReportCrashes, Crash, Restore, Free, Clear, Close, Sigint, HangUp
  <1>2. ReadInStep
    BY <1>1
  <1>3. ASSUME UNCHANGED <<pc, window, details, count, data>>, line' = line \/ line' = << >>
        PROVE  ReadInStep'
    <2>1. Searching => Searching'
      BY <1>3 DEF Searching
    <2>2. \A k : InWindow(k) => InWindow(k)'
      BY <1>3 DEF InWindow, Answer, Header, Points, Echo
    <2>3. \A k, n : Follows(k, n) => Follows(k, n)'
      BY <1>3 DEF Follows, Answer, Header, Points, Echo, Total
    <2>4. Follows(0, 4 + Len(data)) => Follows(0, 4 + Len(data))'
      <3>1. CASE line' = << >>
        BY <3>1 DEF Follows
      <3>2. CASE line' = line
        BY <1>3, <3>2 DEF Follows, Answer, Header, Points, Echo, Total
      <3> QED
        BY <1>3, <3>1, <3>2
    <2>5. pc' = "first" => \E k \in Nat : Follows(k, 0)'
      BY <1>2, <1>3, <2>3 DEF ReadInStep
    <2>6. pc' = "search" =>
            \E k \in Nat : /\ InWindow(k)' /\ Follows(k, 4)'
                           /\ IF k = 0 THEN details' = <<MASK, POINTS>> ELSE Searching'
      <3> SUFFICES ASSUME pc = "search"
                   PROVE  \E k \in Nat :
                            /\ InWindow(k)' /\ Follows(k, 4)'
                            /\ IF k = 0 THEN details' = <<MASK, POINTS>> ELSE Searching'
        BY <1>3
      <3>1. PICK k \in Nat : /\ InWindow(k) /\ Follows(k, 4)
                             /\ IF k = 0 THEN details = <<MASK, POINTS>> ELSE Searching
        BY <1>2 DEF ReadInStep
      <3>2. /\ InWindow(k)' /\ Follows(k, 4)'
            /\ IF k = 0 THEN details' = <<MASK, POINTS>> ELSE Searching'
        BY <1>3, <2>1, <2>2, <2>3, <3>1
      <3> QED
        BY <3>2
    <2>7. pc' = "points" =>
            /\ (Len(data) + PointSize * count = Total)'
            /\ (\A i \in 1 .. Len(data) : data[i] = Points[i])'
            /\ Follows(0, 4 + Len(data))'
      BY <1>2, <1>3, <2>4 DEF ReadInStep, Points, Total
    <2>8. AnswerWhole'
      BY <1>1, <1>2, <1>3 DEF ReadInStep, AnswerWhole, Points
    <2>9. /\ pc' \in {"open", "tcsetattr", "publish", "store", "write"} => line' = << >>
          /\ pc' \in {"open", "tcsetattr", "publish", "store", "write", "first"} => Searching'
          /\ pc' \in {"open", "tcsetattr", "publish", "store", "write", "first", "search"} =>
               data' = << >>
      BY <1>2, <1>3, <2>1 DEF ReadInStep
    <2> QED
      BY <2>5, <2>6, <2>7, <2>8, <2>9 DEF ReadInStep
  <1>4. CASE UNCHANGED vars \/ Sigint \/ HangUp \/ NoMemory \/ ReportCrashes
    BY <1>3, <1>4 DEF vars, readVars, Sigint, HangUp, NoMemory, ReportCrashes, Crash
  <1>5. CASE Open \/ MakeRaw \/ Publish \/ StorePort
    BY <1>2, <1>5 DEF Open, MakeRaw, Publish, StorePort, Go, AfterRaw, readVars, ReadInStep,
                      Searching, AnswerWhole
  <1>6. CASE ReadFails \/ ReadNothing
    BY <1>6 DEF ReadFails, ReadNothing
  <1>7. CASE Restore \/ Free \/ Clear \/ Close
    BY <1>7 DEF Restore, Free, Clear, Close, Go, ReadInStep, AnswerWhole
  <1> QED
    BY <1>2, <1>4, <1>5, <1>6, <1>7, ScanStep, WindowStep, SearchStep, CountStep, PointStep,
       ReportStep
    DEF Next, MainStep

LEMMA ProtoInvariant == Spec => []ProtoInv
  <1>1. Init => ProtoInv
    <2>1. Init => SettingsFollow
      BY DEF Init, SettingsFollow, Places, PortKnown, BackAgain, InterruptRestores
    <2>2. Init => (clean => ReadInStep)
      BY DEF Init, ReadInStep, Searching, AnswerWhole
    <2> QED
      BY <2>1, <2>2, TypesStart DEF ProtoInv
  <1>2. ProtoInv /\ [Next]_vars => ProtoInv'
    BY SettingsKept, TypesKept, ReadKept DEF ProtoInv
  <1> QED
    BY <1>1, <1>2, PTL DEF Spec

------------------------------------------------------------------------------
(* The theorems *)

(* However the program ends, the port has its settings back and stdin keeps  *)
(* its own, but for a SIGINT in one of the two moments before the handler    *)
(* knows the port or in the one between free and the reset of the pointer,   *)
(* for settings that could not be read or given back, and for a death of     *)
(* missing memory; for any set of faults and whenever the signal comes.      *)
THEOREM InterruptAlwaysRestores == Spec => []InterruptRestores
  <1>1. ProtoInv => InterruptRestores
    BY DEF ProtoInv, SettingsFollow
  <1> QED
    BY <1>1, ProtoInvariant, PTL

(* What the one-shot program prints is the answer, whole and in order, for   *)
(* any number of points below 256 and any amount of echo, as long as nothing *)
(* went wrong that the program does not notice.                              *)
THEOREM AnswerAlwaysWhole == Spec => []AnswerWhole
  <1>1. ProtoInv => AnswerWhole
    BY DEF ProtoInv, ReadInStep, AnswerWhole
  <1> QED
    BY <1>1, ProtoInvariant, PTL

=============================================================================

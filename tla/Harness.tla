------------------------------- MODULE Harness -------------------------------
(***************************************************************************)
(* A test program of this repository: Unity (tools/Unity/unity.c) with the *)
(* setUp, tearDown and tests of test/TestCliApp.  main counts and runs its *)
(* tests one by one; an assertion that fails writes a line and jumps out   *)
(* of the test by longjmp to the setjmp that protects it.  What the tests  *)
(* assert is left open: any assertion of the kinds they use, in any order. *)
(* Characters are their codes, as char is signed: -128 .. 127.  The lines  *)
(* of the current test are kept, not the whole output.                     *)
(***************************************************************************)
EXTENDS Integers, Sequences, FiniteSets, SequencesExt

CONSTANTS
  Tests,      (* number of RUN_TEST in main                                 *)
  MaxSteps,   (* bound: assertions of one test                              *)
  ByteBits,   (* scale: bits of a byte of an integer (8 in the build)       *)
  Ints,       (* integers the tests compare                                 *)
  Chars,      (* characters they compare                                    *)
  Strings,    (* strings they compare, as sequences of characters           *)
  Arrays(_)   (* arrays of elements of so many bytes, as bit patterns       *)

Width == 8 * ByteBits            (* UNITY_INT_WIDTH *)

(* Shifts, and the divisors of UnityPrintNumberUnsigned.                     *)
Pow2[n \in 0 .. Width] == IF n = 0 THEN 1 ELSE 2 * Pow2[n - 1]
Pow10[n \in 0 .. Width] == IF n = 0 THEN 1 ELSE 10 * Pow10[n - 1]

ASSUME HarnessAssumption ==
  /\ Tests \in Nat \ {0} /\ MaxSteps \in Nat /\ ByteBits \in Nat \ {0}
  /\ Ints \subseteq -Pow2[Width - 1] .. Pow2[Width - 1] - 1
  /\ Chars \subseteq -128 .. 127
  /\ Strings \subseteq Seq(Chars \ {0})
  /\ \A n \in {1, 2, 4, 8} : \A a \in Arrays(n) :
       a \in Seq(0 .. Pow2[n * ByteBits] - 1) /\ Len(a) >= 2

VARIABLES
  pc,       (* where UnityDefaultTestRun or main is                         *)
  Unity,    (* the counters and flags of struct UNITY_STORAGE_T             *)
  output,   (* the lines written for the current test                       *)
  step,     (* assertions the test has made                                 *)
  up,       (* setUp has run and tearDown has not                           *)
  summary,  (* what UnityEnd writes, and the exit status                    *)
  claim,    (* ghost: what the assertion that ended the test was about      *)
  truth     (* ghost: for every test, what its assertions deserve           *)

vars == <<pc, Unity, output, step, up, summary, claim, truth>>

(***************************************************************************)
(* What is written.                                                        *)
(***************************************************************************)
NULL == <<>>                     (* a pointer is NULL or <<what it points to>> *)
Backslash == 92
Quote == 39
Minus == 45

Nibble(n) == IF n <= 9 THEN 48 + n ELSE 55 + n
NumberHex(number, nibbles) ==
  [i \in 1 .. nibbles |-> Nibble((number \div Pow2[4 * (nibbles - i)]) % 16)]

(* The divisor UnityPrintNumberUnsigned begins with is Pow10[Places].        *)
Places(number) == CHOOSE k \in 0 .. Width :
  number \div Pow10[k] <= 9 /\ \A j \in 0 .. k - 1 : number \div Pow10[j] > 9
NumberUnsigned(number) ==
  LET k == Places(number)
  IN  [i \in 1 .. k + 1 |-> 48 + ((number \div Pow10[k + 1 - i]) % 10)]

(* ~number + 1 in Width bits                                                 *)
Negated(number) == (Pow2[Width] - (number % Pow2[Width])) % Pow2[Width]
PrintedNumber(number) ==
  IF number < 0 THEN <<Minus>> \o NumberUnsigned(Negated(number))
                ELSE NumberUnsigned(number)

(* Mutant: what cannot be shown is left out.                                 *)
ShownOnly(c) == IF c \in 32 .. 126 THEN <<c>> ELSE <<>>

PrintChar(c) ==
  CASE c \in 32 .. 126 -> <<c>>
    [] c = 13 -> <<Backslash, 114>>
    [] c = 10 -> <<Backslash, 110>>
    [] OTHER  -> <<Backslash, 120>> \o NumberHex(c % Pow2[Width], 2)

UnityPrint(string) ==
  IF string = NULL THEN <<>>
  ELSE FlattenSeq([i \in 1 .. Len(string[1]) |-> PrintChar(string[1][i])])

(* Styles: the length of an element in bytes, and how it is shown.           *)
Ranges == {"INT", "UINT", "HEX"}
StyleInt == [length |-> 8, range |-> "INT", char |-> FALSE]
StyleChar == [length |-> 1, range |-> "INT", char |-> TRUE]
ArrayStyles == [length : {1, 2, 4, 8}, range : Ranges, char : {FALSE}]

(* There is nothing for the styles that are not signed.                      *)
PrintIntNumberByStyle(number, style) ==
  CASE style.range /= "INT" -> <<>>
    [] style.char -> <<Quote>> \o PrintChar(number) \o <<Quote>>
    [] OTHER -> PrintedNumber(number)

PrintedString(string) ==
  IF string = NULL THEN <<78, 85, 76, 76>>
  ELSE <<Quote>> \o UnityPrint(string) \o <<Quote>>

(* A line: the test and the place it names, the verdict, which element is    *)
(* spoken of, the two texts, and how they are related.                       *)
TestResultsBegin(line, verdict) ==
  [test |-> Unity.NumberOfTests, line |-> line, verdict |-> verdict,
   element |-> <<>>, first |-> <<>>, second |-> <<>>, words |-> "none", msg |-> FALSE]
FailBegin == TestResultsBegin(step + 1, "FAIL")
Plain(words) == [FailBegin EXCEPT !.words = words]
ExpectedAndActual(first, second) ==
  [FailBegin EXCEPT !.first = first, !.second = second, !.words = "was"]
AddMsgIfSpecified(line, given) == [line EXCEPT !.msg = given]

(***************************************************************************)
(* The assertions: the lines an assertion writes, none if it holds.        *)
(***************************************************************************)
AssertEqualIntNumber(c) ==
  IF c.expected /= c.actual
  THEN <<ExpectedAndActual(PrintIntNumberByStyle(c.expected, c.style),
                           PrintIntNumberByStyle(c.actual, c.style))>>
  ELSE <<>>

(* compare: the bits of UNITY_COMPARISON_T                                   *)
Comparisons == {{"GREATER_THAN"}, {"SMALLER_THAN"}, {"GREATER_THAN", "EQUAL_TO"},
                {"SMALLER_THAN", "EQUAL_TO"}, {"NOT_EQUAL"}}
ComparisonFails(threshold, actual, compare) ==
  \/ threshold = actual /\ "EQUAL_TO" \notin compare
  \/ actual > threshold /\ "SMALLER_THAN" \in compare
  \/ actual < threshold /\ "GREATER_THAN" \in compare
AssertGreaterOrLess(c) ==
  IF ComparisonFails(c.expected, c.actual, c.compare)
  THEN <<[ExpectedAndActual(PrintIntNumberByStyle(c.actual, c.style),
                            PrintIntNumberByStyle(c.expected, c.style))
            EXCEPT !.words = c.compare]>>
  ELSE <<>>

Signed(bits, size) == IF bits < Pow2[size - 1] THEN bits ELSE bits - Pow2[size]
ElementValue(bits, style) ==
  IF style.length < 8 /\ style.range # "INT" THEN bits
  ELSE Signed(bits, style.length * ByteBits)

IsOneArrayNull(c) ==
  CASE c.expected = NULL -> <<Plain("expected pointer NULL")>>
    [] c.actual = NULL -> <<Plain("actual pointer NULL")>>
    [] OTHER -> <<>>

(* ARRAY_TO_VAL does not advance the expected pointer.                       *)
ExpectedAt(c, i) == ElementValue(c.expected[1][IF c.each THEN 1 ELSE i], c.style)
ActualAt(c, i) == ElementValue(c.actual[1][i], c.style)
Differing(c) == {i \in 1 .. c.num : ExpectedAt(c, i) /= ActualAt(c, i)}
FirstDiffering(c) == CHOOSE i \in Differing(c) : \A j \in Differing(c) : i <= j

AssertEqualIntArray(c) ==
  IF c.num = 0 THEN <<Plain("pointless")>>
  ELSE IF c.same THEN <<>>
  ELSE IF NULL \in {c.expected, c.actual} THEN IsOneArrayNull(c)
  ELSE IF Differing(c) = {} THEN <<>>
  ELSE LET i == FirstDiffering(c)
       IN  <<[ExpectedAndActual(PrintIntNumberByStyle(ExpectedAt(c, i), c.style),
                                PrintIntNumberByStyle(ActualAt(c, i), c.style))
                EXCEPT !.element = NumberUnsigned(i - 1)]>>

(* The characters at a place of a C string: 0 behind the last one.           *)
CharAt(string, i) == IF i <= Len(string[1]) THEN string[1][i] ELSE 0
StringsDiffer(e, a) ==
  IF e /= NULL /\ a /= NULL
  THEN \E i \in 1 .. Len(e[1]) + Len(a[1]) :
         /\ CharAt(e, i) /= CharAt(a, i)
         /\ \A j \in 1 .. i - 1 : CharAt(e, j) # 0 \/ CharAt(a, j) # 0
  ELSE e /= NULL \/ a /= NULL
AssertEqualString(c) ==
  IF StringsDiffer(c.expected, c.actual)
  THEN <<ExpectedAndActual(PrintedString(c.expected), PrintedString(c.actual))>>
  ELSE <<>>

(* TEST_ASSERT_NULL, _NOT_NULL, _TRUE and _FALSE fail by UnityFail.          *)
UnityFail(c) == IF c.condition THEN <<>> ELSE <<TestResultsBegin(step + 1, "FAIL")>>
UnityIgnore(c) == <<TestResultsBegin(step + 1, "IGNORE")>>

(* What a test may ask, by the kinds of assertion.                           *)
Pointers(values) == {NULL} \cup {<<v>> : v \in values}
ArrayClaims(s) ==
  LET Call(e, a, n, same, v) ==
        [kind |-> "array", style |-> s, num |-> n, same |-> same, each |-> v,
         expected |-> e, actual |-> a]
  IN  {c \in {Call(e, a, n, FALSE, v) : e \in Pointers(Arrays(s.length)),
               a \in Pointers(Arrays(s.length)), n \in 0 .. 2, v \in BOOLEAN} :
         c.expected /= NULL \/ c.actual /= NULL}   (* two NULLs are the same *)
      \cup {Call(e, e, n, TRUE, FALSE) : e \in Pointers(Arrays(s.length)), n \in 0 .. 2}
Claims ==
       {[kind |-> "equal", style |-> StyleInt, expected |-> e, actual |-> a] : e \in Ints, a \in Ints}
  \cup {[kind |-> "equal", style |-> StyleChar, expected |-> e, actual |-> a] : e \in Chars, a \in Chars}
  \cup {[kind |-> "compare", style |-> StyleInt, expected |-> e, actual |-> a, compare |-> x] :
          e \in Ints, a \in Ints, x \in Comparisons}
  \cup {[kind |-> "string", expected |-> e, actual |-> a] :
          e \in Pointers(Strings), a \in Pointers(Strings)}
  \cup {[kind |-> "condition", condition |-> b] : b \in BOOLEAN}
  \cup {[kind |-> "ignore"]}
  \cup UNION {ArrayClaims(s) : s \in ArrayStyles}
Nothing == [kind |-> "none"]

WrittenFor(c) ==
  CASE c.kind = "equal" -> AssertEqualIntNumber(c)
    [] c.kind = "compare" -> AssertGreaterOrLess(c)
    [] c.kind = "array" -> AssertEqualIntArray(c)
    [] c.kind = "string" -> AssertEqualString(c)
    [] c.kind = "condition" -> UnityFail(c)
    [] c.kind = "ignore" -> UnityIgnore(c)

(***************************************************************************)
(* What the assertions mean, without looking at the code.                  *)
(***************************************************************************)
Relation(compare, threshold, actual) ==
  CASE compare = {"NOT_EQUAL"} -> actual /= threshold
    [] compare = {"GREATER_THAN"} -> actual > threshold
    [] compare = {"SMALLER_THAN"} -> actual < threshold
    [] compare = {"GREATER_THAN", "EQUAL_TO"} -> actual >= threshold
    [] compare = {"SMALLER_THAN", "EQUAL_TO"} -> actual =< threshold
Holds(c) ==
  CASE c.kind \in {"equal", "string"} -> c.expected = c.actual
    [] c.kind = "compare" -> Relation(c.compare, c.expected, c.actual)
    [] c.kind = "condition" -> c.condition
    [] c.kind = "array" ->
         /\ c.num > 0
         /\ \/ c.same
            \/ /\ NULL \notin {c.expected, c.actual}
               /\ \A i \in 1 .. c.num :
                    c.actual[1][i] = c.expected[1][IF c.each THEN 1 ELSE i]
Deserves(c) == IF c.kind = "ignore" THEN "IGNORE" ELSE IF Holds(c) THEN "PASS" ELSE "FAIL"

(***************************************************************************)
(* main, UnityDefaultTestRun and the test.                                 *)
(***************************************************************************)
Zero == [NumberOfTests |-> 0, TestFailures |-> 0, TestIgnores |-> 0,
         CurrentTestFailed |-> FALSE, CurrentTestIgnored |-> FALSE]
NoSummary == [exited |-> FALSE]

(* What Unity holds before UnityBegin is the zero of a static variable.      *)
Init ==
  /\ pc = "main" /\ Unity = Zero /\ output = <<>> /\ step = 0 /\ up = FALSE
  /\ summary = NoSummary /\ claim = Nothing /\ truth = <<>>

UnityBegin ==
  /\ pc = "main"
  /\ pc' = "next" /\ Unity' = Zero
  /\ UNCHANGED <<output, step, up, summary, claim, truth>>

DefaultTestRun ==
  /\ pc = "next" /\ Len(truth) < Tests
  /\ pc' = "setUp" /\ step' = 0 /\ output' = <<>> /\ claim' = Nothing
  /\ Unity' = [Unity EXCEPT !.NumberOfTests = @ + 1]
  /\ truth' = Append(truth, "PASS")
  /\ UNCHANGED <<up, summary>>

(* The ports of the emulators are opened and the tables filled.              *)
SetUp ==
  /\ pc = "setUp"
  /\ pc' = "body" /\ up' = TRUE
  /\ UNCHANGED <<Unity, output, step, summary, claim, truth>>

(* TEST_ABORT: longjmp to the setjmp before setUp, then on to the next one.  *)
Abort == pc' = "tearDown"

FlagsAfter(c) ==
  [Unity EXCEPT !.CurrentTestFailed = @ \/ c.kind /= "ignore",
                !.CurrentTestIgnored = @ \/ c.kind = "ignore"]

(* An assertion returns to the test, or writes its line and jumps.  (The     *)
(* flags are never set when it begins: a test that has failed is left.)      *)
MakeAssertion ==
  /\ pc = "body" /\ step < MaxSteps
  /\ ~Unity.CurrentTestFailed /\ ~Unity.CurrentTestIgnored
  /\ \E c \in Claims, given \in BOOLEAN :
       /\ given => c.kind \in {"compare", "condition", "ignore"}
       /\ c.kind = "ignore" => given
       /\ step' = step + 1
       /\ truth' = [truth EXCEPT ![Len(truth)] = Deserves(c)]
       /\ IF WrittenFor(c) = <<>>
          THEN pc' = "body" /\ UNCHANGED <<output, Unity, claim>>
          ELSE /\ Abort
               /\ output' = Append(output, AddMsgIfSpecified(WrittenFor(c)[1], given))
               /\ Unity' = FlagsAfter(c)
               /\ claim' = [about |-> c, given |-> given]
  /\ UNCHANGED <<up, summary>>

TestReturns ==
  /\ pc = "body"
  /\ pc' = "tearDown"
  /\ UNCHANGED <<Unity, output, step, up, summary, claim, truth>>

(* The ports are closed and the tables freed.                                *)
TearDown ==
  /\ pc = "tearDown"
  /\ pc' = "conclude" /\ up' = FALSE
  /\ UNCHANGED <<Unity, output, step, summary, claim, truth>>

(* Mutant: the flags are left for the next test.                             *)
FlagsKept ==
  [Unity EXCEPT !.TestIgnores = @ + (IF Unity.CurrentTestIgnored THEN 1 ELSE 0),
                !.TestFailures = @ + (IF Unity.CurrentTestFailed THEN 1 ELSE 0)]

Concluded ==
  [Unity EXCEPT
    !.TestIgnores = IF Unity.CurrentTestIgnored THEN @ + 1 ELSE @,
    !.TestFailures =
      IF ~Unity.CurrentTestIgnored /\ Unity.CurrentTestFailed THEN @ + 1 ELSE @,
    !.CurrentTestFailed = FALSE, !.CurrentTestIgnored = FALSE]

(* A test that passes has a line with the place of its RUN_TEST.             *)
ConcludeTest ==
  /\ pc = "conclude"
  /\ pc' = "next"
  /\ output' = IF Unity.CurrentTestIgnored \/ Unity.CurrentTestFailed THEN output
               ELSE Append(output, TestResultsBegin(0, "PASS"))
  /\ Unity' = Concluded
  /\ UNCHANGED <<step, up, summary, claim, truth>>

(* main returns what UnityEnd returns: an exit status has eight bits.        *)
UnityEnd ==
  /\ pc = "next" /\ Len(truth) = Tests
  /\ pc' = "exited"
  /\ output' = <<>> /\ claim' = Nothing
  /\ summary' = [exited |-> TRUE, tests |-> PrintedNumber(Unity.NumberOfTests),
       failures |-> PrintedNumber(Unity.TestFailures),
       ignored |-> PrintedNumber(Unity.TestIgnores),
       verdict |-> IF Unity.TestFailures = 0 THEN "OK" ELSE "FAIL",
       status |-> Unity.TestFailures % 256]
  /\ UNCHANGED <<Unity, step, up, truth>>

Next ==
  \/ UnityBegin \/ DefaultTestRun \/ SetUp \/ MakeAssertion \/ TestReturns
  \/ TearDown \/ ConcludeTest \/ UnityEnd

Spec == Init /\ [][Next]_vars

(***************************************************************************)
(* Properties.                                                             *)
(***************************************************************************)
Count(verdict) == Cardinality({i \in 1 .. Len(truth) : truth[i] = verdict})

ValueOf(digits) ==
  LET value[n \in 0 .. Len(digits)] ==
        IF n = 0 THEN 0 ELSE 10 * value[n - 1] + (digits[n] - 48)
  IN  value[Len(digits)]
Denotes(text, number) ==
  IF number < 0 THEN text[1] = Minus /\ ValueOf(Tail(text)) = -number
                ELSE ValueOf(text) = number

(* The verdicts are right: a test has one line, which says of it, and of the *)
(* assertion that ended it, what that assertion deserves; between two tests  *)
(* nothing is left set up and the counters are the numbers of verdicts; at   *)
(* the end the summary and the exit status say the same (UnityConcludeTest,  *)
(* UnityDefaultTestRun, UnityEnd and the comparisons of the assertions).     *)
VerdictsRight ==
  /\ pc = "next" /\ truth /= <<>> =>
       /\ Len(output) = 1
       /\ output[1].test = Len(truth) /\ output[1].verdict = truth[Len(truth)]
       /\ output[1].line = IF truth[Len(truth)] = "PASS" THEN 0 ELSE step
  /\ pc = "next" =>
       /\ ~up /\ Unity.NumberOfTests = Len(truth)
       /\ Unity.TestFailures = Count("FAIL") /\ Unity.TestIgnores = Count("IGNORE")
  /\ summary.exited =>
       /\ Denotes(summary.tests, Tests) /\ Denotes(summary.failures, Count("FAIL"))
       /\ Denotes(summary.ignored, Count("IGNORE"))
       /\ summary.verdict = "OK" <=> Count("FAIL") = 0
       /\ summary.status = 0 <=> Count("FAIL") = 0

NoBackslash(string) ==
  string /= NULL => \A i \in 1 .. Len(string[1]) : string[1][i] /= Backslash

ShowsClaim(c, line) ==
  CASE c.kind = "equal" ->
         IF c.style.char THEN line.first /= line.second
         ELSE Denotes(line.first, c.expected) /\ Denotes(line.second, c.actual)
    [] c.kind = "compare" -> Denotes(line.first, c.actual) /\ Denotes(line.second, c.expected)
    [] c.kind = "string" ->
         NoBackslash(c.expected) /\ NoBackslash(c.actual) => line.first /= line.second
    [] c.kind = "array" /\ line.words = "was" ->
         LET i == ValueOf(line.element) + 1 IN
         /\ i \in 1 .. c.num
         /\ \A j \in 1 .. i - 1 : ExpectedAt(c, j) = ActualAt(c, j)
         /\ c.style.range = "INT" => /\ Denotes(line.first, ExpectedAt(c, i))
                                     /\ Denotes(line.second, ActualAt(c, i))
                                     /\ line.first /= line.second
    [] OTHER -> TRUE

(* A line that reports two values shows them: numbers read back as they are, *)
(* even the smallest, of an array the first element that differs, and values *)
(* that differ never look the same.  Strings with a backslash of their own   *)
(* may (a line feed is shown as backslash and n), and for arrays of unsigned *)
(* or hexadecimal style nothing is shown at all, because                     *)
(* UnityPrintIntNumberByStyle leaves them out.                               *)
FailureTells ==
  pc = "conclude" /\ claim /= Nothing =>
    output[1].msg = claim.given /\ ShowsClaim(claim.about, output[1])
=============================================================================

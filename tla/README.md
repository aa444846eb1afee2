# Verification of the NanoVNA scan program

The program drives up to five sweeps over NanoVNA network analysers on serial
lines. This directory holds TLA+ modules translated from its source, TLC
configurations that check them on small instances, and TLAPS proofs that hold
for every value of the constants. `PROJECT.json` lists components, runs,
mutants, hazards, findings and theorems, and `map` gives the source lines of
every definition.

    cd tla
    tlc -workers 2 -config MCBatchDriver.cfg MCBatchDriver     # a run
    tlapm ScanSessionProofs.tla                                # the proofs

## The system

`src/src/CliApp` is a C program in three layers with two mains (an interactive
parser and a batch program), `src/src/VnaScanGUI` a Python GUI that runs the
parser as a child process, `src/src/Experiments` the one-shot program it all
grew out of, and `src/tools/Unity` with `src/test` what tests it.

| Component | State | Operations | Hard behaviour | What makes it correct |
|---|---|---|---|---|
| Bounded buffer (`VnaScanMultithreaded.c` 38-84) | ring `buffer`, `in`, `out`, `count`, `complete`; a lock, conditions `take_cond` and `add_cond` | `add_buff`, `take_buff` | blocking on both sides, one signal per operation, spurious wakeups, `complete` set without the lock | a FIFO queue; nobody sleeps who could go on |
| Scan session (226-339, 503-677) | `scan_states[id]`, the threads of one scan, the buffer | `run_sweep`, `scan_producer`, `sweep_producer`, `scan_consumer`, `stop_sweep` | N readers, a printing thread, a main thread and a stop from outside, all on unlocked flags; failing `malloc` and `pthread_create` | no datapoint lost or invented; the buffer freed last; a scan ends, and ends when it is told to |
| Batch driver (`VnaScanMultithreadedMain.c`) | its arguments, the id of its scan | check, add VNAs, start, poll or sleep, stop, tear down | results that are not looked at, polling for a state that may never come | it stops a scan only when that is over; it ends |
| Data pull (86-220, `VnaCommunication.c` 148-195) | the bytes on the line, what each reader has read | `pull_scan`, `find_binary_header`, `read_exact` | timeouts, short reads, echo and prompt, stale bytes of a pull that failed | what is returned is one answer, at its byte boundaries, and the one asked for |
| Port table (`VnaCommunication.c`) | `vna_names`, `vna_fds`, `vna_initial_settings`, `total_vnas`, the settings of the lines | `vna add`, `add` (all), `remove`, `reset`, exit, SIGINT | failures in the middle (of a restore too), a signal at any step, holes left by a removal | the tables agree; a line gets its own settings back |
| VNAs in use (both) | the table, and what each device has still to deliver | `vna ping`, `vna id`, `vna reset` and the readers of scans | a table that changes under its readers; two users of one line | a reader finds its own answer on its own line |
| Scan table (383-500, 624-680) | `scan_states`, `scan_threads`, `ongoing_scans` | `initialise_scan`, `start_sweep`, `stop_sweep`, `destroy_scan`, `is_running` | slots taken and given back while scans run, end or fail | no slot and no thread lost or reused too early |
| Settings (`VnaCommandParser.c` 370-534) | `start`, `stop`, `resolution`, `nbr_scans`, `pps`, `sweeps` | `set ...` | 32-bit overflow, division with a remainder | `resolution = nbr_scans * pps`, values in range |
| Command parser (266-335, 625-682) | the above, the line buffer | `scan`, `sweep start`, `sweep stop`, `set`, `exit`, `vna ...` | commands while scans run, lines longer than the buffer, the end of the input | no command ends the process or loses a scan; what is typed is what is done |
| Scanner wrapper (`vna_scanner.py`) | `process`, `_is_scanning`, `_stop_flag` | `start_scan`, `_run_scan`, `_parse_output`, `stop_scan` | main thread, scan threads and processes on unlocked fields | one scan at a time; no process outlives its scan |
| GUI (`vna_scan_gui.py`) | buttons, `scan_data`, `current_sweep` | clicks, `on_data_point`, `on_status_update` | callbacks of the scan thread against clicks | the buttons tell the truth; points arrive whole |
| Experiment (`Experiments/VnaScan.c`) | the port, its settings, two globals for the SIGINT handler, a search window that is never initialised | `main`, `close_and_reset`, `fatal_error_signal` | SIGINT between any two statements, short reads | the settings come back; what is printed is the answer |
| Unit tests (`tools/Unity`, `test`) | `Unity`'s counters and flags | `RUN_TEST`, the assertions and their messages, `UNITY_END` | a `longjmp` out of every failing assertion, the smallest integer, strides of arrays | the verdicts and the exit status are right; a failure says what was wrong |

The parser owns the settings and hands them to `start_sweep`; that reserves a
slot of the scan table and creates the thread of `run_sweep`, which creates a
buffer, one reader per VNA and one printing thread. Readers use the
descriptors of the port table and `pull_scan`. The printing thread writes to
stdout, which the wrapper reads. The wrapper calls back into the GUI. The batch
program calls `start_sweep` and `stop_sweep` in the parser's place.

## The modules

| Module | Models | Uses |
|---|---|---|
| `DatapointQueue` | abstract: a bounded FIFO queue with callers inside its calls | |
| `BoundedBuffer` | `add_buff`, `take_buff` with lock, condition variables, spurious wakeups | refines `DatapointQueue` |
| `ScanSession` | one scan from `run_sweep` to `stop_sweep` | extends `BoundedBuffer`, refines a slot of `ScanTable` |
| `BatchDriver` | the scan with its caller, the batch program or the parser | extends `ScanSession` |
| `DataPull` | one serial line, byte by byte, its VNA and its readers | |
| `PortTable` | the table of VNAs under `vna` commands and SIGINT | |
| `VnaUse` | the table in use by readers and by `vna ping`, `id`, `reset` | extends `PortTable` |
| `Settings`, `ScanTable` | what their names say, no `Next` of their own | |
| `CommandParser` | the commands on both, composed | extends `Settings`, `ScanTable` |
| `CommandLine` | from lines of words, typed or written by the wrapper, to commands | extends `Settings` |
| `GuiScanner` | buttons, scanner wrapper, parser processes | |
| `Prototype` | `Experiments/VnaScan.c` | |
| `Harness` | a test program on Unity | |
| `CommandParserProofs`, `CommandLineProofs`, `DataPullProofs`, `GuiScannerProofs`, `PrototypeProofs`, `HarnessProofs` | theorems | the module of that name |
| `ScanSessionProofs` | theorems about the buffer, the scan and its caller | extends `BatchDriver` |
| `PortTableProofs` | theorems about the table, alone and in use | extends `VnaUse` |
| `MC...` | small instances | |

### How states and actions correspond to the code

**BoundedBuffer.** A thread inside the lock does one atomic step between two
points where it may block: `BeginAdd` is the call, `WaitForRoom` the
`pthread_cond_wait` of line 58, `Store` lines 60-65. `addCond` and `takeCond`
are the threads asleep on each condition, `Signalled` wakes one of them or
nobody if none sleeps, `SpuriousWakeup` any at any time. `SetComplete` is the
assignment from outside the lock.

**ScanSession.** `mainPc` follows `run_sweep` (set up, store the state, create
the threads, sleep if TIME, join readers, join printer), `prodPc` and `left`
the readers, `consPc` the printer, `cmdPc` the caller of `stop_sweep`. The
reads and writes of `scan_states` are steps of their own where the code has no
lock. `owed[p]` is a ghost: points pulled minus points printed. `Faults`
selects the calls that may fail. A datapoint is known by its reader only.
Undefined behaviour: joining a `pthread_t` that was never written may end the
process or be ignored, and a thread that would touch the destroyed buffer takes
no further step (`FreedWhenQuiet` says when that can happen).
`scan_timer` is unused by the program and left out, like `verbose`.

**BatchDriver.** `drv` follows `main` of the batch program. `begun` is what
`start_sweep` came to: a scan, a slot whose thread could not be created, or -1;
`main` looks at none of the three, and the polls and `stop_sweep` that follow
are modelled for each. Threads run only once `begun` says that there are any
and until the process has ended. `early` (ghost): a poll came before
`run_sweep` stored the number of readers, and took 0 for the end.

**DataPull.** Bytes are records: text, one of four header bytes, or data, with
the command they answer and the position. `wire` is what the device has sent
and nobody has read. `ReadFirst`, `SearchChunk` and `ReadRemainder` are the
`read_exact` calls of `find_binary_header`; each may time out (`TimesOut`: it
takes what is there and fails) or fail. `ahead` (ghost) counts the stale bytes
before the header, `late` (ghost) says that a pull has failed, or that a header
was never sent in time.

**PortTable.** `names`, `fds`, `saved`, `total` are the four tables, `tty` the
settings each line has (a path stands for its own original settings, `RAW` for
those of the program). `add_vna` has a step per call that can fail and a SIGINT
can come in any of them. `ready` says that the arrays are allocated.
`RestoreSerial` may fail, in `add_vna`, in a removal and for any of the lines in
the SIGINT handler; the code prints that at most and goes on, so the line stays raw
and the next `add_vna` takes raw for its own settings: `lost` (ghost) are the lines
this has happened to, and `Own` what their settings are from then on.
`add_all_vnas` takes the first `MAXIMUM_VNA_PORTS` paths that `readdir` gives
(`Chosen`); `FindStarves` is `find_vnas` without memory: for a path (nothing is
added), or for the list itself, which it writes to all the same (`starved`).

**VnaUse.** `at[r]` is where reader `r` is in `pull_scan`, `line[p]` what device
`p` has still to deliver, in pieces: a header and the points behind it, both
known by the reader that asked, or one piece for `info`. `tcflush` drops any
beginning of it. A pull fails because its port has gone or nothing has come
(`PullFails`), or in the middle (`PullBreaksOff`): a `malloc` after the command was
sent, a read error, a timeout or the end of the search, and what has not been read
by then is still to come. `stale` (ghost) are the readers that left such bytes.
`upset` (ghost) are the readers whose line was not quiet when
their scan began, or was used by another scan or a `vna` command since. A
descriptor that was closed and given out again to another port is the case of
an entry that changes: `fds[id[r]]` is read at every access.

**ScanTable, Settings, CommandParser.** A scan is abstracted to its thread, the
readers not yet finished and its state; `ScanStep` lets it store its state,
count down, sleep, fail or return at any moment. `ScanSession` implements a table
of one slot (`ImplementsSlot`), as long as its threads can be created
(`AllCreated`). Integers wrap at `IntHalf`.
`time_to_sweep` is read but never written by the code: a `scan time` sleeps 0
seconds. `stop_sweep` blocks in a join, so `sweep stop` without an id is a loop
of steps during which scans go on.

**CommandLine.** Characters are not counted. A line of at most `Room` words may fit
the buffer (`ReadWhole`), and any line that is typed may be too long for it
(`ReadPart`): `fgets` then cuts it behind any of its first words (`CutBetween`) or
inside the word behind these (`CutInside`, into one of the pairs of `Parts`, which
are the words whose letters together are its `Letters`). The rest, which may be
nothing, is `tail`, which the next call reads as a line of its own (`cut`). `torn`
(ghost) counts the words cut inside. What the wrapper writes is short. At the end of
the input the buffer is used again: its first word, because `strtok` has cut it
there, or anything. `VnaList` is `get_vna_list_from_args` and `last` (ghost)
tells what the command just done has started and stopped.

**GuiScanner.** `pc[t]` is where scan thread `t` is, with a step per read of
`self.process`. `stream[t]` is the process whose pipe it blocks on. `main` is
where the handler of the main thread is; `startOn`, `stopOn` are the buttons,
`finishes` the queued `_scan_finished` callbacks. Two lines per point stand
for the four of the output. `disturbed` (ghost) records that scans overlapped,
that Clear Data ended a scan by a KeyError, or that a stop came before the
process existed. `cleared` are the threads between the check for an entry of
`current_sweep` and the store into it, whose entry a click has removed.

**Prototype.** `pc` has a state per statement that changes something a SIGINT
handler sees; `portGlobal` and `pointer` are its two globals. `window` is the
search window, `details` its two words, not initialised. Every call can fail:
settings `tcgetattr` did not read are kept all the same (`kept` is garbage), a port
`tcsetattr` did not make raw is used as it is, and a restore that failed leaves the
port as it was (`refused`, ghost). Without memory for the settings or the command the
program dies of a NULL pointer, and without memory for the points (`noData`) it
gives up or dies in the print. `at` (ghost) is where
the signal came, `clean` (ghost) says that no read was short, nothing was found
by chance and the device stayed.

**Harness.** `Unity` is the structure of that name. A test is any sequence of
assertions of the kinds the test programs use; an assertion that fails writes
its line and jumps to the end of the test. `Holds` is what an assertion
means, defined without looking at the code; `claim` and `truth` (ghosts)
remember it. Numbers and strings are written character by character only here,
because `FailureTells` is about what a message shows. An array is given with
whether both pointers are the same (`same`), which two NULLs always are. Powers
of two (shifts) and of ten (the divisors) are functions on the range they are
used on.

## The runs

Bounds are the smallest in which each blocking condition, wrap-around and
failure occurs, and every action fires.

| Run | Instance | Shows |
|---|---|---|
| `buffer` | 3 readers, 2 takers, 2 slots, 2 values: several threads asleep on each side and a ring that wraps | the ring is consistent, no waiter sleeps through a signal, it implements `DatapointQueue`. Deadlock is checked |
| `session` | 2 readers, 3 pulls each, 2 slots, all modes, all faults; a stop by the user at any time, or the batch program with a good argument list for each mode, a bad one and none: readers block, the state counts through 0 to negative | see below |
| `lost_wakeup` | 1 reader, no faults | finding |
| `pull` | 1 reader, 3 commands, 2 points of 5 bytes (20 in the code), up to 8 stale bytes: the header in every position of the first and the second chunk | whole points of the own answer, header found |
| `ports` | 3 entries, 5 paths (three VNAs, one other device, one too long); opening, reading, allocating and restoring may fail at every call; SIGINT at every step, exit at the prompt | tables agree, which settings come back, what can end the process at a command, commands end |
| `use` | 2 entries, 2 devices, 2 readers, up to 2 pieces on a line when a command is written to it (so the whole of an answer that was broken off before its first byte), failing reads and `malloc`s: a device removed and added under a reader, the same VNA scanned twice | an undisturbed reader has its own line, and on it the answer it waits for if no pull left bytes there |
| `parser` | 2 slots, up to 2 VNAs, frequencies 1-3, points up to 3, ints of 5 bits, entries 0, 2, 7 | slots counted, live scans known, settings sane, no thread lost |
| `divide` | same, no faults | finding |
| `line` | a buffer of 5 words, ints of 4 bits, one or two lines out of a hundred (ids that are negative, too large, not numbers, given twice, wrapping to a good one), each cut anywhere, or not; 17, -1 and exit can be cut inside, as can a word that ends in exit; every request of the wrapper with frequencies 1-5, and the end of the input | ids, words, the end, the wrapper's commands |
| `gui` | 2 scans, 2 points then none: a scan may begin while, before and after the one before is ended in each way | below |
| `proto` | 2 points of 2 bytes, up to 5 bytes of echo, every call failing (`open`, `tcgetattr`, `tcsetattr` both ways, `malloc`, `write`, `read`), short reads, a device that goes away, SIGINT everywhere | in which cases the settings do not come back, the answer is whole |
| `harness` | 2 tests of up to 2 assertions, bytes of 2 bits, so integers have 16; the smallest and largest numbers, those around 0 and 10, characters at every limit, elements with the highest bit clear, alone and set | verdicts and messages |

Deadlock checking is off where the system may stop: a scan that was not asked
for, a VNA nobody talks to, a parser at its prompt, a window nobody clicks in, a
program that has ended.

What `session` says is not that all is well. `StateTellsProgress`,
`CompleteMeansDone`, `NothingLeftBehind` hold until somebody calls
`stop_sweep`; `Conservation` and `FreedWhenQuiet` hold always (the latter
unless the printing thread could not be created). `NumScanSettles` and
`StopSettles` list every way in which a scan can hang: the printer asleep in
`take_buff` after the last signal, the printer gone with a reader waiting for
room, the request overwritten by `run_sweep`: line 547 stores `nbr_vnas` over a
stop that came first, and line 594 stores it, not 0, at the end of the time of a
TIME sweep. After a stop the printer may leave before the readers do, and
datapoints are then left in the buffer: this is why those invariants ask for
`cmdPc = "idle"` and do not speak of what a stop does; `StopSettles` does. For the batch program `IdleMeansOver` and `BatchPrintsAll` say
that its polling does not cut its own scan short, but for the first poll coming
too early; `DriverSettles` lists how it can fail to end, one of which is that
`start_sweep` gave it no id to poll for.

`CrashNeedsHole` is as it is because a name looked for is compared with the NULL
(`VnaCommunication.c:220`) that a VNA removed before the last has left; nothing
else ends the process at a `vna` command once the arrays exist, but a list of paths
that `add_all_vnas` got no memory for (line 377) and that `find_vnas` writes to.
It speaks of `vna` commands and of the main thread only: a `sweep stop` that joins
a thread never made (`JoinCrashes`) and a reader that divides by zero
(`ReaderDivides`) are in `CommandParser`, and no list of all that can end the
process is claimed.

`SettingsComeBack` leaves no line out silently: it says of a line whose restore
failed that it is raw, and of the exit command that it leaves every line in the
table raw, because `main` (`VnaCommandParser.c:674-682`) returns without tearing the
table down. The one moment it says nothing about is SIGINT between `open_serial` and
the store to `vna_fds`, where the handler cannot know the line. `InterruptRestores`
likewise lists where the one-shot program does not restore.

In `use`, an entry given again to another device, a second scan on the same VNA
(nothing refuses it) and a `ping` during a scan are all reachable, and each puts the
readers it concerns into `upset`; bytes of a pull that broke off put its reader into
`stale`: it may then take the end of one of its answers for the beginning of another,
but still finds nothing on its line that it did not ask for itself. What is
shown is that nothing else disturbs a reader. The run uses a `VIEW` that leaves out the
terminal settings (`saved`, `tty`, `lost`): in `VnaUse`, where no SIGINT comes, no
guard and no other variable depends on them, so states that differ in them only have
the same steps, and `OwnLine` does not speak of them. With `Readers` set to two threads `DataPull`
likewise violates `PullAnswers`; its run has one reader per line.

In `gui`, `PointsWhole` and `ScanningKnown` ask that scans do not overlap and
`NoParserLeftBehind` also that Clear Data and early stops did not interfere, so they
do not speak of those hazards;
these are reachable, and what they do wrong is real: `stop_scan`
(`vna_scanner.py:411`) can reap the process of the scan before and forget the
new one. `ButtonsReset` and `StartComesBack` hold whatever happens.

`AskedIds` asks for numbers that fit an int and lines that fit the buffer: a number
beyond does name another VNA, and a line that was cut is several commands.
`EveryWordRead` is about the latter: it follows the letters, wherever the line is cut.

`WrapperScans` states what the wrapper's commands amount to in the parser of
this repository: a start frequency at or above the parser's default stop is
refused, because the wrapper sends it first, and `scan sweeps` is not a command.

`FailureTells` leaves two cases out which the code does leave out: the elements
of an array of unsigned or hexadecimal style are not shown, and a line feed
looks like a backslash followed by an n.

### Findings

| Run | Where | What |
|---|---|---|
| `lost_wakeup` | `VnaScanMultithreaded.c:250` | `complete` is set without a signal: the printer already asleep is never woken and the scan never returns |
| `divide` | `VnaScanMultithreaded.c:237` | one scan on one VNA divides by zero |

### Fairness

`FairSession`: weak fairness for the steps of each thread and for `destroy_scan`
after the join, because the scheduler runs threads, `pull_scan` times out and
`sleep` returns. No fairness for `stop_sweep`, nor for spurious wakeups (which
would hide the lost wakeup). `FairBatch`: the same, and weak fairness for `main`
of the batch program, which is scheduled and whose sleeps return. `PortTable`:
weak fairness for the steps inside a command, none for giving one.
`GuiScanner`: weak fairness for each scan thread, for the handlers of the main
thread (the Tk loop turns), and for the exit of a parser that has its commands:
`exit` is the line behind `scan`, and `scan` does not wait (`time_to_sweep` is
0, and `scan sweeps` is not even a command). No fairness for clicks or for
output. The other modules check safety only.

## The proofs

All proofs assume only the named assumptions on the constants
(`BufferAssumption`, `SessionAssumption`, ... in the modules that declare
them): positive sizes, finite sets of threads, markers that are not data; the
bytes MASK and POINTS of a header are different and not zero; a line of input is
words, a buffer takes three of them at least, and a request of the wrapper is one
that the GUI lets pass (`vna_scan_gui.py` 1062-1066).

`ScanSessionProofs` begins with the buffer: `RingConsistent` is the inductive
invariant of the ring: `count` slots from `out` up to `in` are occupied, the
others are NULL. It needs the types only. `NoWaiterStranded` is proved for both
sides by counting the threads that are awake against
the room and the data. The refinement proof maps the occupied slots, in ring
order, to the queue and shows a step of the queue for each step of the buffer.

There too, every step of a scan is a step of the
buffer or leaves it alone (`SessionUsesBuffer`), so that the buffer's theorems
hold in a scan. Then `SessionInv` is inductive:

- types and `RingConsistent`;
- `ThreadsInStep`: how the control states hang together. A reader exists only
  after `run_sweep` published the state; a reader inside `add_buff` is running
  and adds its own point; a printer that was given NULL saw `complete` and an
  empty ring;
- `StateTellsProgress` and `CompleteMeansDone`, which need each other: the last
  reader knows that it is the last by the count.

`Conservation` is proved on top of it by counting slots, `NothingLeftBehind`
follows from it: complete, empty, and nobody adding leaves nothing owed.
`FreedWhenQuiet` is proved from `ThreadsInStep`.

With the caller, what is safe in a scan (`ScanSafe`: `SessionInv`, `Conservation`,
`FreedWhenQuiet`, `NothingLeftBehind`) is kept by every step of the caller too. The
steps of the caller are steps of a scan, except the join of a thread that was never
made, and then there is no scan (`NoThreadSafe`). `DriverInv` says how a scan of
`NUM_SWEEPS` sweeps that `main` believes to be over really stands (`Over`): it never
began, it failed before it had a reader, or every reader has ended and the printing
thread takes what is left (`PrintsTheRest`). It needs that nobody but the caller
calls `stop_sweep` (`OnlyCallerStops`); short of that an idle state means that no
reader is unfinished (`IdleIsOver`).

That a scan does to its slot what `ScanTable` says a scan does
(`SessionStepImplementsSlot`) is shown step by step: each step of `run_sweep`, of a
reader and of `stop_sweep` is one of the slot's or changes nothing the slot sees. It
needs that a reader takes steps only while the main thread is under way
(`ReaderNeedsMain`), which follows from `FreedWhenQuiet` and from `ReturnInStep`: a
main thread that has returned without destroying the buffer has not created a reader.

`PortTableProofs`: `PortInv` says of the state inside a command what
`TableAgrees` says between commands: the entry `add_vna` has claimed (`JobSound`)
counts neither as connected nor as free, `total` is the number of the others
(`Counted`), an entry in use has its name and its own saved settings (`SavedOwn`: those
the port had, or raw after a restore of it has failed), no port is held twice, and
`TtyKnown`: a port is raw while it is open and has its own settings otherwise. The
exceptions of `SettingsComeBack` are what `TtyKnown` does not cover when the process
ends (`EndsClean`). `OwnSettings`, the agreement of two indices computed in different ways,
comes from `NotFound`: a path looked for in vain has compared itself with the
entries below `total`, so these are full (a hole would have ended the process)
and the first free entry is entry `total`. The first free entry exists by the
least number principle (`Least`), and there is room by counting (`RoomAtTotal`).

There too, `TableInUse` shows that every step of the table in use keeps
`PortInv`. `UseInv` adds for every reader not in `upset` that no other reader has
its entry, that its entry is its device's, that the line holds pieces of its own
answers only, and exactly the rest of the one it waits for unless it is in `stale`
(`OwnPort`, `PiecesStay`). What others do on their lines is not on its line because
entries in use have different ports.

`CommandParserProofs`: `ParserInv` holds `SettingsSane`, and of each slot how its
thread, its readers and its state hang together (`SlotsSound`) with the count of
slots in use (`Counted`) at every step inside `start_sweep` and `stop_sweep`,
where `SlotsCounted` speaks of the prompt only.

`CommandLineProofs` is about finite sequences of any length, and the library's
induction theorems cannot be used, so induction is done on sets of numbers: a set
with 0 and the successor of each of its elements is Nat, because otherwise there
would be a least number missing (`Least`, `Induction`). `LineInv` is `EveryWordRead`
with the types of the lines and what the end of the program looks like; its step is
that cutting a line at any place and reading the rest later gives the same letters
and, if no word was cut inside, the same words (`LineRead`, `Cut`, `FlattenHead`). `WrapperInv` says, for every number of lines the parser
has done, what of a request has arrived: the frequencies so far, and no scan before
the eighth line. `AskedInv` rests on what the recursion of
`get_vna_list_from_args` computes, shown by induction over the words:
a word that names a VNA gives its number (`NamedFound`), every number comes from a
word (`ListIsNamed`), and the list is the beginning of what is named, at most
`MaxVnas` long (`AtMostGrows`). A VNA that is named twice is in it twice, as the tests
of `get_vna_list_from_args` expect.

`DataPullProofs`: `PullInv` has three parts. `Whole`: wherever a byte of an answer
is, on the line or in what a reader holds, the bytes of that answer that follow it
there follow in order. `Placed` and `Expected`: which part of the own answer
is still to come, before and after the header was found. `SearchInStep`: the
search has not gone past the end of the header, in whichever chunk it is.
Types hold for any number of readers. The other two theorems ask for one reader,
because two readers of one line do mix answers.

`GuiScannerProofs`: `GuiInv` is layered like the properties. The buttons
(`ButtonsFollow`) hold always. While scans do not overlap there is one thread at
work (`Alone`), it has the process it made (`OwnProcess`), the flags say where it
is (`FlagsTell`), and what is in `scan_data` with what is half assembled is what
was read (`DataFollows`). While nothing disturbs a scan a parser is either held
by its thread or at its end (`ParserKept`).

`PrototypeProofs`: `SettingsFollow` gives, for every statement SIGINT may come
at, the settings of the line, what was kept of them and what the handler finds in its
two globals, so that `InterruptRestores` follows with its exceptions: the signal before
`initial_port_settings_global` or `serial_port_global` is set or while the former
points to freed memory, settings that could not be read, a restore that failed, and
memory missing when the port is raw already. As long as a run is clean, `ReadInStep` says
where in the answer the window is; that the header is not seen too early is
`WordsTell`: no two words of the echo, or of the echo and the beginning of the
header, look like the header.

`HarnessProofs` has two halves. The first is about what is written, by the same
induction on sets of numbers, once it is shown that the recursive definitions
of powers and of the value of digits define what they say. Division by powers
of ten composes (`Quotient`, `Tenths`), so the search for the first
divisor ends within the width (`PlacesFound`) and the digits give the number back
(`DigitsTell`, `NumbersTell`; the smallest number is its own negation, read
without a sign). No character but the backslash begins like an escape and
escapes differ (`CharsTell`), so strings are told apart from their first
character on (`StringsTell`). `Tells` says of an assertion that it writes nothing if
what it means holds (`Holds`, stated apart from the code), and else one line with the
right verdict that shows its values; `ClaimsTell` proves it for each kind: the
bits of `UNITY_COMPARISON_T` against the five relations, the comparison of strings
up to the first zero, the first element of an array that differs. The second half
is the invariant of the runner, `HarnessInv`: `Unity`'s counters count the verdicts
of the tests concluded, the flags say which verdict the current test has earned
and are clear between tests, and a test in progress has a line exactly if an
assertion has ended it (one that passes gets its line when it is concluded). `VerdictsAlwaysRight` asks for fewer than 256 tests
(the test programs have fewer): the exit status is the number of failures cut to
a byte, which 256 failures leave zero. In the proof it turned out that the model let
two NULL arrays be different pointers, which they cannot be; `same` says so now.

Proved, for any number of readers, slots, entries, devices, pulls, sweeps, bytes
of echo, points and scans of the GUI, any size of buffer, any lines of input, any
integers, strings and arrays of any tests, any set of modes and any set of faults:

| Theorem | States |
|---|---|
| `BufferTypeCorrect`, `RingAlwaysConsistent`, `NobodyStranded` | the invariants of the buffer |
| `BufferImplementsQueue`, `SessionImplementsQueue` | the refinement, alone and in a scan |
| `SessionTypeCorrect`, `StateAlwaysTellsProgress`, `CompleteAlwaysMeansDone`, `BufferFreedWhenQuiet`, `DatapointsConserved`, `NothingEverLeftBehind` | the safety invariants of a scan |
| `SessionImplementsSlot` | a scan implements its slot of the scan table, as long as its threads can be created |
| `PortTypeCorrect`, `TableAlwaysAgrees`, `SettingsAlwaysOwn`, `SettingsAlwaysComeBack`, `CrashesAlwaysNeedHole` | the safety invariants of the port table |
| `LineAlwaysOwn` | the safety of the table in use |
| `ParserTypeCorrect`, `SettingsAlwaysSane`, `SlotsAlwaysCounted`, `LiveScanAlwaysKnown`, `ThreadsNeverLost`, `StopAllAlwaysFrees` | the safety invariants and the action property of the parser |
| `ScanSafeWithCaller`, `IdleAlwaysMeansOver`, `BatchAlwaysPrintsAll` | the safety of a scan whoever called for it, and of the batch program |
| `PullTypeCorrect`, `OneReaderGetsItsAnswer`, `OneReaderFindsTheHeader` | the safety of a pull |
| `EveryWordAlwaysRead`, `NothingEverAfterTheEnd`, `IdsAlwaysAsked`, `WrapperAlwaysScans` | the safety invariants and the action property of command lines |
| `GuiTypeCorrect`, `PointsAlwaysWhole`, `ScanningAlwaysKnown`, `ParserNeverLeftBehind`, `ButtonsAlwaysReset` | the safety invariants of wrapper and GUI |
| `InterruptAlwaysRestores`, `AnswerAlwaysWhole` | the safety of the experiment |
| `VerdictsAlwaysRight`, `FailuresAlwaysTell`, `HarnessInvariant` | the safety of the test harness |
| `ClaimsTell`, `NumbersTell`, `StringsTell` | what an assertion writes, for every number, string and array |

Only model-checked: `NumScanSettles`, `StopSettles`, `DriverSettles`,
`CommandsEnd` and `StartComesBack`, because liveness is out of the prover's reach.
Every safety invariant and action property of a passing run is proved.

## Not modelled

- `detect_vnas`, the search for the executable, plots, touchstone files and
  widgets of the GUI; `help`, `list` and the wording of output: no state of the
  program depends on them.
- The values of datapoints and timestamps, the frequencies of the scans of a
  sweep (only the divisor of the step can go wrong in a way the program notices),
  termios flags, `verbose`.
- In the scan table, a scan whose readers or printing thread could not be created
  (`ScanSession` has both): when `run_sweep` returns without a printing thread, its
  readers go on and store into the slot, which may be vacant or another scan's by
  then.
- A path of exactly `MAXIMUM_VNA_PATH_LENGTH` characters, stored without its
  zero: what a comparison then reads is whatever the heap holds.
- The pipes of stdout and stderr are unbounded in `GuiScanner`, so that a parser
  blocked on a full pipe of stderr, which nobody reads, does not occur; and the
  lines still in the pipe when the parser exits are dropped there as in the code.
- `VnaScan.py` of the experiments is `VnaScan.c` in a few lines of pyserial; the
  function `checkConnection` is not called.
- The parts of Unity the tests do not use (floating point, bits, deltas, memory,
  details, command line), the emulator and the build files.

## Plan

Done, in this order: buffer and its abstract queue, scan session, proofs of
both, port table, data pull, settings with scan table and parser, GUI with
scanner, batch program, the table in use, command lines, the experiment, the
test harness; proofs of parser, port table, table in use, batch program, data
pull, GUI, experiment, command lines and test harness, and of the scan as a slot of the
table. What is left:

1. The scan table with readers left behind by a scan whose printing thread could
   not be created, which `ImplementsSlot` has to leave out today.
2. `GuiScanner` with the commands of `CommandLine` as its parser, and bounded
   pipes.

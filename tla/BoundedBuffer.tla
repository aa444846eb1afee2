---------------------------- MODULE BoundedBuffer ----------------------------
(***************************************************************************)
(* struct bounded_buffer: a ring of N datapoint pointers under one mutex,  *)
(* with the condition variable take_cond for threads that wait for room    *)
(* and add_cond for threads that wait for a datapoint.                     *)
(*                                                                         *)
(* A critical section of the mutex is one step: from taking the lock, or   *)
(* from being woken, to leaving it or to blocking in pthread_cond_wait.    *)
(* The flag complete is written outside this mutex and without a signal;   *)
(* its read in take_buff and the wait that follows are one step because    *)
(* such a write commutes with blocking.                                    *)
(*                                                                         *)
(* Callers enter and leave through BeginAdd, BeginTake and Collect, so the *)
(* module composes with the threads of a scan (ScanSession).               *)
(***************************************************************************)
EXTENDS Integers, FiniteSets

CONSTANTS N, Producers, Consumers, Data, NULL

ASSUME BufferAssumption ==
  /\ N \in Nat \ {0}
  /\ IsFiniteSet(Producers)
  /\ IsFiniteSet(Consumers)
  /\ NULL \notin Data

VARIABLES
  buffer,     (* the ring: [0..N-1 -> Data \cup {NULL}]                        *)
  in,         (* slot the next datapoint goes to                               *)
  out,        (* slot the next datapoint is taken from                         *)
  count,      (* number of datapoints in the ring                              *)
  complete,   (* atomic flag: the scan is declared complete                    *)
  takeCond,   (* threads blocked on take_cond (waiting for room)               *)
  addCond,    (* threads blocked on add_cond (waiting for a datapoint)         *)
  adding,     (* adding[p]: datapoint p is handing over, NULL outside add_buff *)
  taking,     (* taking[c]: "idle", "inside" take_buff, or "returned" from it  *)
  result      (* result[c]: what c's last take_buff returned                   *)

ringVars == <<buffer, in, out, count>>
bufferVars == <<ringVars, complete, takeCond, addCond, adding, taking, result>>

Slots == 0 .. N-1

(* create_bounded_buffer, before any thread has the buffer.  malloc leaves   *)
(* the slots indeterminate; no slot is read before it is stored to, so they  *)
(* start as NULL.                                                            *)
BufferInit ==
  /\ buffer = [i \in Slots |-> NULL]
  /\ in = 0
  /\ out = 0
  /\ count = 0
  /\ complete = FALSE
  /\ takeCond = {}
  /\ addCond = {}
  /\ adding = [p \in Producers |-> NULL]
  /\ taking = [c \in Consumers |-> "idle"]
  /\ result = [c \in Consumers |-> NULL]

(* The slot after another.                                                   *)
Advance(slot) == (slot + 1) % N

(* The condition add_buff waits on.  Mutant: one datapoint too many.         *)
FullTooLate == count = N + 1

Full == count = N

(* pthread_cond_signal: one blocked thread, if there is one, is woken.       *)
(* Mutant: the signal is forgotten.                                          *)
SignalForgotten(waiting) == {waiting}

Signalled(waiting) ==
  IF waiting = {} THEN {{}} ELSE {waiting \ {t} : t \in waiting}

------------------------------------------------------------------------------
(* add_buff *)

BeginAdd(p, d) ==
  /\ adding[p] = NULL
  /\ adding' = [adding EXCEPT ![p] = d]
  /\ UNCHANGED <<ringVars, complete, takeCond, addCond, taking, result>>

WaitForRoom(p) ==
  /\ adding[p] # NULL
  /\ p \notin takeCond
  /\ Full
  /\ takeCond' = takeCond \cup {p}
  /\ UNCHANGED <<ringVars, complete, addCond, adding, taking, result>>

Store(p) ==
  /\ adding[p] # NULL
  /\ p \notin takeCond
  /\ ~Full
  /\ buffer' = [buffer EXCEPT ![in] = adding[p]]
  /\ in' = Advance(in)
  /\ count' = count + 1
  /\ addCond' \in Signalled(addCond)
  /\ adding' = [adding EXCEPT ![p] = NULL]
  /\ UNCHANGED <<out, complete, takeCond, taking, result>>

AddBuff(p) == WaitForRoom(p) \/ Store(p)

------------------------------------------------------------------------------
(* take_buff *)

BeginTake(c) ==
  /\ taking[c] = "idle"
  /\ taking' = [taking EXCEPT ![c] = "inside"]
  /\ UNCHANGED <<ringVars, complete, takeCond, addCond, adding, result>>

(* Mutant: complete is tested before the count.                              *)
ReturnNullUnread(c) ==
  /\ taking[c] = "inside"
  /\ c \notin addCond
  /\ complete
  /\ result' = [result EXCEPT ![c] = NULL]
  /\ taking' = [taking EXCEPT ![c] = "returned"]
  /\ UNCHANGED <<ringVars, complete, takeCond, addCond, adding>>

ReturnNull(c) ==
  /\ taking[c] = "inside"
  /\ c \notin addCond
  /\ count = 0
  /\ complete
  /\ result' = [result EXCEPT ![c] = NULL]
  /\ taking' = [taking EXCEPT ![c] = "returned"]
  /\ UNCHANGED <<ringVars, complete, takeCond, addCond, adding>>

WaitForDatapoint(c) ==
  /\ taking[c] = "inside"
  /\ c \notin addCond
  /\ count = 0
  /\ ~complete
  /\ addCond' = addCond \cup {c}
  /\ UNCHANGED <<ringVars, complete, takeCond, adding, taking, result>>

Remove(c) ==
  /\ taking[c] = "inside"
  /\ c \notin addCond
  /\ count # 0
  /\ result' = [result EXCEPT ![c] = buffer[out]]
  /\ buffer' = [buffer EXCEPT ![out] = NULL]
  /\ out' = Advance(out)
  /\ count' = count - 1
  /\ takeCond' \in Signalled(takeCond)
  /\ taking' = [taking EXCEPT ![c] = "returned"]
  /\ UNCHANGED <<in, complete, addCond, adding>>

TakeBuff(c) == ReturnNull(c) \/ WaitForDatapoint(c) \/ Remove(c)

(* The caller picks up what take_buff returned.                              *)
Collect(c) ==
  /\ taking[c] = "returned"
  /\ taking' = [taking EXCEPT ![c] = "idle"]
  /\ result' = [result EXCEPT ![c] = NULL]
  /\ UNCHANGED <<ringVars, complete, takeCond, addCond, adding>>

------------------------------------------------------------------------------
(* A thread declares the scan complete: no buffer lock, no signal.           *)
SetComplete ==
  /\ complete' = TRUE
  /\ UNCHANGED <<ringVars, takeCond, addCond, adding, taking, result>>

(* POSIX lets pthread_cond_wait return without a signal.                     *)
SpuriousWakeup ==
  /\ \/ \E p \in takeCond : takeCond' = takeCond \ {p} /\ UNCHANGED addCond
     \/ \E c \in addCond : addCond' = addCond \ {c} /\ UNCHANGED takeCond
  /\ UNCHANGED <<ringVars, complete, adding, taking, result>>

BufferNext ==
  \/ \E p \in Producers, d \in Data : BeginAdd(p, d)
  \/ \E p \in Producers : AddBuff(p)
  \/ \E c \in Consumers : BeginTake(c) \/ TakeBuff(c) \/ Collect(c)
  \/ SetComplete
  \/ SpuriousWakeup

BufferSpec == BufferInit /\ [][BufferNext]_bufferVars

------------------------------------------------------------------------------
(* Properties *)

(* Type invariant of the buffer's fields and of the calls in progress.       *)
BufferTypeOK ==
  /\ buffer \in [Slots -> Data \cup {NULL}]
  /\ in \in Slots
  /\ out \in Slots
  /\ count \in 0 .. N
  /\ complete \in BOOLEAN
  /\ takeCond \subseteq {p \in Producers : adding[p] # NULL}
  /\ addCond \subseteq {c \in Consumers : taking[c] = "inside"}
  /\ adding \in [Producers -> Data \cup {NULL}]
  /\ taking \in [Consumers -> {"idle", "inside", "returned"}]
  /\ result \in [Consumers -> Data \cup {NULL}]

(* Slot that holds the k-th oldest datapoint (k from 0).                     *)
SlotOf(k) == IF out + k < N THEN out + k ELSE out + k - N

(* in, out and count agree: the occupied slots are exactly the count slots   *)
(* from out on, and in is the slot after them.  add_buff never overwrites a  *)
(* datapoint and take_buff never returns an empty slot.                      *)
RingConsistent ==
  /\ in = SlotOf(count)
  /\ \A k \in 0 .. N-1 : buffer[SlotOf(k)] # NULL <=> k < count

InAddBuff == {p \in Producers : adding[p] # NULL}
InTakeBuff == {c \in Consumers : taking[c] = "inside"}

(* A signal is never lost between the two condition variables: while some    *)
(* reader is blocked on a buffer that has room, at least as many readers as  *)
(* there are free slots are awake inside add_buff.  One pthread_cond_signal  *)
(* per take is therefore enough, no broadcast is needed.                     *)
NoProducerStranded ==
  takeCond # {} => N - count <= Cardinality(InAddBuff \ takeCond)

(* The same for the printing side: while some thread is blocked in take_buff *)
(* and datapoints are queued, at least as many threads are awake inside      *)
(* take_buff as there are datapoints.                                        *)
NoConsumerStranded ==
  addCond # {} => count <= Cardinality(InTakeBuff \ addCond)

(* Nobody sleeps through a signal, on either side of the buffer.             *)
NoWaiterStranded == NoProducerStranded /\ NoConsumerStranded

(* The ring implements the first-in first-out queue of DatapointQueue.       *)
Contents == [k \in 1 .. count |-> buffer[SlotOf(k - 1)]]
Queue == INSTANCE DatapointQueue WITH queue <- Contents
ImplementsQueue == Queue!QueueSpec
==============================================================================

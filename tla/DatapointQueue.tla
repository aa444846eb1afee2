--------------------------- MODULE DatapointQueue ---------------------------
(***************************************************************************)
(* What the buffer between the VNA reader threads and the printing thread  *)
(* promises: a first-in first-out queue of at most N datapoints.  A call   *)
(* of add_buff returns once its datapoint is in the queue; a call of       *)
(* take_buff returns the first datapoint, or NULL once the scan has been   *)
(* declared complete and nothing is queued.  How threads wait is not       *)
(* part of the promise.                                                    *)
(***************************************************************************)
EXTENDS Integers, Sequences

CONSTANTS
  N,          (* capacity of the queue                          *)
  Producers,  (* threads that call add_buff                     *)
  Consumers,  (* threads that call take_buff                    *)
  Data,       (* datapoints                                     *)
  NULL        (* the C null pointer                             *)

VARIABLES
  queue,      (* datapoints added and not yet taken, oldest first              *)
  complete,   (* TRUE once the scan is declared complete                       *)
  adding,     (* adding[p]: datapoint p is handing over, NULL outside add_buff *)
  taking,     (* taking[c]: "idle", "inside" take_buff, or "returned" from it  *)
  result      (* result[c]: what c's last take_buff returned                   *)

queueVars == <<queue, complete, adding, taking, result>>

QueueInit ==
  /\ queue = <<>>
  /\ complete = FALSE
  /\ adding = [p \in Producers |-> NULL]
  /\ taking = [c \in Consumers |-> "idle"]
  /\ result = [c \in Consumers |-> NULL]

BeginAdd(p, d) ==
  /\ adding[p] = NULL
  /\ adding' = [adding EXCEPT ![p] = d]
  /\ UNCHANGED <<queue, complete, taking, result>>

Put(p) ==
  /\ adding[p] # NULL
  /\ Len(queue) < N
  /\ queue' = Append(queue, adding[p])
  /\ adding' = [adding EXCEPT ![p] = NULL]
  /\ UNCHANGED <<complete, taking, result>>

BeginTake(c) ==
  /\ taking[c] = "idle"
  /\ taking' = [taking EXCEPT ![c] = "inside"]
  /\ UNCHANGED <<queue, complete, adding, result>>

Get(c) ==
  /\ taking[c] = "inside"
  /\ queue # <<>>
  /\ result' = [result EXCEPT ![c] = Head(queue)]
  /\ queue' = Tail(queue)
  /\ taking' = [taking EXCEPT ![c] = "returned"]
  /\ UNCHANGED <<complete, adding>>

GetNothing(c) ==
  /\ taking[c] = "inside"
  /\ queue = <<>>
  /\ complete
  /\ result' = [result EXCEPT ![c] = NULL]
  /\ taking' = [taking EXCEPT ![c] = "returned"]
  /\ UNCHANGED <<queue, complete, adding>>

Collect(c) ==
  /\ taking[c] = "returned"
  /\ taking' = [taking EXCEPT ![c] = "idle"]
  /\ result' = [result EXCEPT ![c] = NULL]
  /\ UNCHANGED <<queue, complete, adding>>

DeclareComplete ==
  /\ complete' = TRUE
  /\ UNCHANGED <<queue, adding, taking, result>>

QueueNext ==
  \/ \E p \in Producers, d \in Data : BeginAdd(p, d)
  \/ \E p \in Producers : Put(p)
  \/ \E c \in Consumers : BeginTake(c) \/ Get(c) \/ GetNothing(c) \/ Collect(c)
  \/ DeclareComplete

QueueSpec == QueueInit /\ [][QueueNext]_queueVars
=============================================================================

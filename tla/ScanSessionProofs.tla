-------------------------- MODULE ScanSessionProofs --------------------------
(***************************************************************************)
(* Theorems about the bounded buffer, for every capacity and every finite  *)
(* set of threads; about one scan, for every number of VNAs, every buffer  *)
(* capacity and every number of scans and sweeps; and about a scan and its *)
(* caller, for every list of arguments and every call that may fail: what  *)
(* is safe in a scan is safe whoever called for it, and the batch program  *)
(* does not cut its own scan short.                                        *)
(***************************************************************************)
EXTENDS BatchDriver, FiniteSetTheorems, SequenceTheorems, TLAPS

------------------------------------------------------------------------------
(* The bounded buffer                                                        *)

(* The index arithmetic of the ring: one step forward, back to 0 at the end. *)
LEMMA AdvanceInSlots ==
  ASSUME NEW slot \in Slots
  PROVE  /\ Advance(slot) \in Slots
         /\ Advance(slot) = IF slot = N - 1 THEN 0 ELSE slot + 1
<1>1. N \in Nat \ {0}
  BY BufferAssumption
<1>2. CASE slot = N - 1
  <2>1. (slot + 1) % N = 0
    BY <1>1, <1>2
  <2> QED
    BY <1>1, <1>2, <2>1 DEF Advance, Slots
<1>3. CASE slot # N - 1
  <2>1. slot + 1 \in 0 .. N - 1
    BY <1>1, <1>3 DEF Slots
  <2>2. (slot + 1) % N = slot + 1
    BY <1>1, <2>1
  <2> QED
    BY <1>1, <1>3, <2>1, <2>2 DEF Advance, Slots
<1> QED
  BY <1>2, <1>3

(* A signal wakes at most one thread, and one if any thread is blocked.      *)
LEMMA SignalledWakes ==
  ASSUME NEW waiting, NEW after \in Signalled(waiting)
  PROVE  /\ after \subseteq waiting
         /\ waiting # {} => \E t \in waiting : after = waiting \ {t}
BY DEF Signalled

------------------------------------------------------------------------------
(* A step of the buffer keeps the types.                                     *)
LEMMA BufferTypesKept ==
  BufferTypeOK /\ [BufferNext]_bufferVars => BufferTypeOK'
<1> USE BufferAssumption
<1> SUFFICES ASSUME BufferTypeOK, [BufferNext]_bufferVars
             PROVE  BufferTypeOK'
  OBVIOUS
<1> USE DEF BufferTypeOK
<1>1. ASSUME NEW p \in Producers, NEW d \in Data, BeginAdd(p, d)
      PROVE  BufferTypeOK'
  BY <1>1 DEF BeginAdd, ringVars
<1>2. ASSUME NEW p \in Producers, WaitForRoom(p)
      PROVE  BufferTypeOK'
  BY <1>2 DEF WaitForRoom, ringVars
<1>3. ASSUME NEW p \in Producers, Store(p)
      PROVE  BufferTypeOK'
  <2>1. in' \in Slots
    BY <1>3, AdvanceInSlots DEF Store
  <2>2. buffer' \in [Slots -> Data \cup {NULL}]
    BY <1>3 DEF Store
  <2>3. count' \in 0 .. N
    BY <1>3 DEF Store, Full
  <2>4. addCond' \subseteq addCond
    BY <1>3, SignalledWakes DEF Store
  <2>5. takeCond' \subseteq {q \in Producers : adding'[q] # NULL}
    BY <1>3 DEF Store
  <2> QED
    BY <1>3, <2>1, <2>2, <2>3, <2>4, <2>5 DEF Store
<1>4. ASSUME NEW c \in Consumers, BeginTake(c)
      PROVE  BufferTypeOK'
  BY <1>4 DEF BeginTake, ringVars
<1>5. ASSUME NEW c \in Consumers, ReturnNull(c)
      PROVE  BufferTypeOK'
  BY <1>5 DEF ReturnNull, ringVars
<1>6. ASSUME NEW c \in Consumers, WaitForDatapoint(c)
      PROVE  BufferTypeOK'
  BY <1>6 DEF WaitForDatapoint, ringVars
<1>7. ASSUME NEW c \in Consumers, Remove(c)
      PROVE  BufferTypeOK'
  <2>1. out' \in Slots
    BY <1>7, AdvanceInSlots DEF Remove
  <2>2. buffer' \in [Slots -> Data \cup {NULL}]
    BY <1>7 DEF Remove
  <2>3. count' \in 0 .. N
    BY <1>7 DEF Remove
  <2>4. takeCond' \subseteq takeCond
    BY <1>7, SignalledWakes DEF Remove
  <2>5. addCond' \subseteq {q \in Consumers : taking'[q] = "inside"}
    BY <1>7 DEF Remove
  <2> QED
    BY <1>7, <2>1, <2>2, <2>3, <2>4, <2>5 DEF Remove
<1>8. ASSUME NEW c \in Consumers, Collect(c)
      PROVE  BufferTypeOK'
  BY <1>8 DEF Collect, ringVars
<1>9. CASE SetComplete
  BY <1>9 DEF SetComplete, ringVars
<1>10. CASE SpuriousWakeup
  BY <1>10 DEF SpuriousWakeup, ringVars
<1>11. CASE UNCHANGED bufferVars
  BY <1>11 DEF bufferVars, ringVars
<1> QED
  BY <1>1, <1>2, <1>3, <1>4, <1>5, <1>6, <1>7, <1>8, <1>9, <1>10, <1>11
     DEF BufferNext, AddBuff, TakeBuff

(* The types hold at the beginning.                                          *)
LEMMA BufferTypesStart == BufferInit => BufferTypeOK
<1> USE BufferAssumption
<1> SUFFICES ASSUME BufferInit PROVE BufferTypeOK
  OBVIOUS
<1> USE DEF BufferInit
<1>1. buffer \in [Slots -> Data \cup {NULL}]
  OBVIOUS
<1>2. in \in Slots /\ out \in Slots /\ count \in 0 .. N
  BY DEF Slots
<1>3. complete \in BOOLEAN
  OBVIOUS
<1>4. adding \in [Producers -> Data \cup {NULL}]
  OBVIOUS
<1>5. /\ taking \in [Consumers -> {"idle", "inside", "returned"}]
      /\ result \in [Consumers -> Data \cup {NULL}]
  OBVIOUS
<1> QED
  BY <1>1, <1>2, <1>3, <1>4, <1>5 DEF BufferTypeOK

(* The fields keep their types, and only threads inside a call block.        *)
THEOREM BufferTypeCorrect == BufferSpec => []BufferTypeOK
<1>1. BufferInit => BufferTypeOK
  BY BufferTypesStart
<1>2. BufferTypeOK /\ [BufferNext]_bufferVars => BufferTypeOK'
  BY BufferTypesKept
<1> QED
  BY <1>1, <1>2, PTL DEF BufferSpec

------------------------------------------------------------------------------
(* SlotOf names each slot once, and moves on by one slot when the oldest     *)
(* datapoint leaves.                                                         *)
LEMMA SlotOfFacts ==
  ASSUME out \in Slots
  PROVE  /\ \A k \in 0 .. N : SlotOf(k) \in Slots
         /\ \A k, l \in 0 .. N-1 : SlotOf(k) = SlotOf(l) => k = l
         /\ SlotOf(0) = out /\ SlotOf(N) = out
         /\ \A k \in 0 .. N-1 : Advance(SlotOf(k)) = SlotOf(k + 1)
<1> USE BufferAssumption DEF SlotOf, Slots
<1>1. \A k \in 0 .. N : SlotOf(k) \in Slots
  OBVIOUS
<1>2. \A k, l \in 0 .. N-1 : SlotOf(k) = SlotOf(l) => k = l
  OBVIOUS
<1>3. SlotOf(0) = out /\ SlotOf(N) = out
  OBVIOUS
<1>4. ASSUME NEW k \in 0 .. N-1
      PROVE  Advance(SlotOf(k)) = SlotOf(k + 1)
  <2>1. SlotOf(k) \in Slots
    BY <1>1
  <2>2. Advance(SlotOf(k)) = IF SlotOf(k) = N - 1 THEN 0 ELSE SlotOf(k) + 1
    BY <2>1, AdvanceInSlots
  <2> QED
    BY <2>2
<1> QED
  BY <1>1, <1>2, <1>3, <1>4

(* A step of the buffer keeps the ring consistent.                           *)
LEMMA RingKept ==
  BufferTypeOK /\ RingConsistent /\ [BufferNext]_bufferVars => RingConsistent'
<1> USE BufferAssumption
<1> SUFFICES ASSUME BufferTypeOK, RingConsistent, [BufferNext]_bufferVars
             PROVE  RingConsistent'
  OBVIOUS
<1> USE DEF RingConsistent
<1>1. out \in Slots /\ in \in Slots /\ count \in 0 .. N
  BY DEF BufferTypeOK
<1>2. ASSUME NEW p \in Producers, Store(p)
      PROVE  RingConsistent'
  <2>1. /\ count \in 0 .. N-1 /\ count' = count + 1 /\ out' = out
        /\ in' = Advance(in)
    BY <1>1, <1>2 DEF Store, Full
  <2>2. in' = SlotOf(count + 1)
    BY <1>1, <2>1, SlotOfFacts
  <2>3. \A k \in 0 .. N : SlotOf(k)' = SlotOf(k)
    BY <2>1 DEF SlotOf
  <2>4. ASSUME NEW k \in 0 .. N-1
        PROVE  buffer'[SlotOf(k)] # NULL <=> k < count + 1
    <3>1. SlotOf(k) \in Slots /\ SlotOf(count) \in Slots
      BY <1>1, SlotOfFacts
    <3>2. buffer' = [buffer EXCEPT ![SlotOf(count)] = adding[p]]
      BY <1>2 DEF Store
    <3>3. CASE k = count
      <4>1. adding[p] # NULL
        BY <1>2 DEF Store
      <4>2. buffer'[SlotOf(k)] = adding[p]
        BY <3>1, <3>2, <3>3 DEF BufferTypeOK
      <4> QED
        BY <3>3, <4>1, <4>2, <1>1
    <3>4. CASE k # count
      <4>1. SlotOf(k) # SlotOf(count)
        BY <1>1, <2>1, <3>4, SlotOfFacts
      <4>2. buffer'[SlotOf(k)] = buffer[SlotOf(k)]
        BY <3>1, <3>2, <4>1 DEF BufferTypeOK
      <4> QED
        BY <3>4, <4>2, <1>1
    <3> QED
      BY <3>3, <3>4
  <2>5. \A k \in 0 .. N-1 : buffer'[SlotOf(k)'] # NULL <=> k < count'
    BY <2>1, <2>3, <2>4
  <2>6. in' = SlotOf(count)'
    BY <2>1, <2>2 DEF SlotOf
  <2> QED
    BY <2>5, <2>6
<1>3. ASSUME NEW c \in Consumers, Remove(c)
      PROVE  RingConsistent'
  <2>1. /\ count \in 1 .. N /\ count' = count - 1 /\ in' = in
        /\ out' = Advance(out)
    BY <1>1, <1>3 DEF Remove
  <2>2. out' = IF out = N - 1 THEN 0 ELSE out + 1
    BY <1>1, <2>1, AdvanceInSlots
  <2>3. \A k \in 0 .. N-1 : SlotOf(k)' = SlotOf(k + 1)
    BY <1>1, <2>2 DEF SlotOf, Slots
  <2>4. in' = SlotOf(count)'
    <3>1. count' \in 0 .. N-1 /\ count' + 1 = count
      BY <2>1
    <3> HIDE DEF SlotOf
    <3>2. SlotOf(count)= in
      OBVIOUS
    <3>3. SlotOf(count)' = IF out' + count' < N THEN out' + count' ELSE out' + count' - N
      BY DEF SlotOf
    <3>4. SlotOf(count) = IF out + count < N THEN out + count ELSE out + count - N
      BY DEF SlotOf
    <3> QED
      BY <1>1, <2>1, <2>2, <3>1, <3>2, <3>3, <3>4 DEF Slots
  <2>5. ASSUME NEW k \in 0 .. N-1
        PROVE  buffer'[SlotOf(k + 1)] # NULL <=> k < count - 1
    <3>1. buffer' = [buffer EXCEPT ![out] = NULL]
      BY <1>3 DEF Remove
    <3>2. SlotOf(k + 1) \in Slots
      BY <1>1, SlotOfFacts
    <3>3. CASE k = N - 1
      <4>1. SlotOf(k + 1) = out
        BY <1>1, <3>3, SlotOfFacts
      <4>2. buffer'[out] = NULL
        BY <1>1, <3>1 DEF BufferTypeOK
      <4> QED
        BY <2>1, <3>3, <4>1, <4>2
    <3>4. CASE k # N - 1
      <4>1. k + 1 \in 0 .. N-1 /\ k + 1 # 0
        BY <3>4
      <4>2. SlotOf(k + 1) # out
        BY <1>1, <4>1, SlotOfFacts
      <4>3. buffer'[SlotOf(k + 1)] = buffer[SlotOf(k + 1)]
        BY <3>1, <3>2, <4>2 DEF BufferTypeOK
      <4>4. buffer[SlotOf(k + 1)] # NULL <=> k + 1 < count
        BY <4>1
      <4> QED
        BY <2>1, <4>1, <4>3, <4>4
    <3> QED
      BY <3>3, <3>4
  <2>6. \A k \in 0 .. N-1 : buffer'[SlotOf(k)'] # NULL <=> k < count'
    BY <2>1, <2>3, <2>5
  <2> QED
    BY <2>4, <2>6
<1>4. CASE UNCHANGED ringVars
  BY <1>4 DEF ringVars, SlotOf
<1> QED
  BY <1>2, <1>3, <1>4
     DEF BufferNext, BeginAdd, AddBuff, WaitForRoom, BeginTake, TakeBuff,
         ReturnNull, WaitForDatapoint, Collect, SetComplete, SpuriousWakeup,
         bufferVars

(* An empty ring is consistent.                                              *)
LEMMA RingStarts == BufferInit => RingConsistent
BY BufferAssumption DEF BufferInit, RingConsistent, SlotOf, Slots

(* add_buff never overwrites and take_buff never returns an empty slot.      *)
THEOREM RingAlwaysConsistent == BufferSpec => []RingConsistent
<1>1. BufferInit => RingConsistent
  BY RingStarts
<1>2. BufferTypeOK /\ RingConsistent /\ [BufferNext]_bufferVars => RingConsistent'
  BY RingKept
<1> QED
  BY <1>1, <1>2, BufferTypeCorrect, PTL DEF BufferSpec

------------------------------------------------------------------------------
(* How the number of awake threads inside a call changes.                    *)
LEMMA AwakeFinite ==
  ASSUME BufferTypeOK
  PROVE  /\ IsFiniteSet(InAddBuff \ takeCond)
         /\ Cardinality(InAddBuff \ takeCond) \in Nat
         /\ IsFiniteSet(InTakeBuff \ addCond)
         /\ Cardinality(InTakeBuff \ addCond) \in Nat
<1>1. (InAddBuff \ takeCond) \in SUBSET Producers
  BY DEF InAddBuff
<1>2. (InTakeBuff \ addCond) \in SUBSET Consumers
  BY DEF InTakeBuff
<1>3. IsFiniteSet(InAddBuff \ takeCond) /\ IsFiniteSet(InTakeBuff \ addCond)
  BY <1>1, <1>2, FS_Subset, BufferAssumption
<1> QED
  BY <1>3, FS_CardinalityType

LEMMA Grows ==
  ASSUME NEW S, NEW T, IsFiniteSet(T), S \subseteq T
  PROVE  Cardinality(S) <= Cardinality(T)
BY FS_Subset

LEMMA Shrinks ==
  ASSUME NEW S, NEW T, NEW x \in S, IsFiniteSet(S), T = S \ {x}
  PROVE  Cardinality(T) = Cardinality(S) - 1
<1>1. Cardinality(S \ {x}) = IF x \in S THEN Cardinality(S)-1 ELSE Cardinality(S)
  BY FS_RemoveElement
<1> QED
  BY <1>1

(* Nobody sleeps through a signal, on either side of the buffer.             *)
THEOREM NobodyStranded ==
  BufferSpec => []NoWaiterStranded
<1> USE BufferAssumption
<1>1. BufferInit => NoProducerStranded /\ NoConsumerStranded
  BY DEF BufferInit, NoProducerStranded, NoConsumerStranded
<1>2. BufferTypeOK /\ BufferTypeOK' /\ NoProducerStranded /\ [BufferNext]_bufferVars
        => NoProducerStranded'
  <2> SUFFICES ASSUME BufferTypeOK, BufferTypeOK', NoProducerStranded,
                      [BufferNext]_bufferVars,
                      takeCond' # {}
               PROVE  N - count' <= Cardinality((InAddBuff \ takeCond)')
    BY DEF NoProducerStranded
  <2> DEFINE Awake == InAddBuff \ takeCond
  <2>1. /\ IsFiniteSet(Awake) /\ Cardinality(Awake) \in Nat
        /\ IsFiniteSet(Awake') /\ Cardinality(Awake') \in Nat
        /\ count \in 0 .. N /\ count' \in 0 .. N
    <3>1. IsFiniteSet(Awake) /\ Cardinality(Awake) \in Nat
      BY AwakeFinite
    <3>2. Awake' \in SUBSET Producers
      BY DEF InAddBuff
    <3>3. IsFiniteSet(Awake')
      BY <3>2, FS_Subset
    <3>4. Cardinality(Awake') \in Nat
      BY <3>3, FS_CardinalityType
    <3>5. count \in 0 .. N /\ count' \in 0 .. N
      BY DEF BufferTypeOK
    <3> QED
      BY <3>1, <3>3, <3>4, <3>5
  <2>2. takeCond # {} => N - count <= Cardinality(Awake)
    BY DEF NoProducerStranded
  <2>3. ASSUME takeCond # {}, count' = count, Awake \subseteq Awake'
        PROVE  N - count' <= Cardinality(Awake')
    BY <2>1, <2>2, <2>3, Grows
  <2>4. ASSUME NEW p \in Producers, NEW d \in Data, BeginAdd(p, d)
        PROVE  N - count' <= Cardinality(Awake')
    <3>1. takeCond' = takeCond /\ count' = count
      BY <2>4 DEF BeginAdd, ringVars
    <3>2. Awake \subseteq Awake'
      BY <2>4, <3>1 DEF BeginAdd, InAddBuff, BufferTypeOK
    <3> QED
      BY <2>3, <3>1, <3>2
  <2>5. ASSUME NEW p \in Producers, WaitForRoom(p)
        PROVE  N - count' <= Cardinality(Awake')
    <3>1. count' = N
      BY <2>5 DEF WaitForRoom, Full, ringVars
    <3> QED
      BY <2>1, <3>1
  <2>6. ASSUME NEW p \in Producers, Store(p)
        PROVE  N - count' <= Cardinality(Awake')
    <3>1. takeCond' = takeCond /\ count' = count + 1
      BY <2>6 DEF Store
    <3>2. p \in Awake
      BY <2>6 DEF Store, InAddBuff
    <3>3. Awake' = Awake \ {p}
      BY <2>6, <3>1 DEF Store, InAddBuff, BufferTypeOK
    <3>4. Cardinality(Awake') = Cardinality(Awake) - 1
      BY <2>1, <3>2, <3>3, Shrinks
    <3> QED
      BY <2>1, <2>2, <3>1, <3>4
  <2>7. ASSUME NEW c \in Consumers, Remove(c)
        PROVE  N - count' <= Cardinality(Awake')
    <3>1. count' = count - 1 /\ adding' = adding
      BY <2>7 DEF Remove
    <3>2. takeCond' \in Signalled(takeCond)
      BY <2>7 DEF Remove
    <3>3. takeCond' \subseteq takeCond
      BY <3>2, SignalledWakes
    <3>4. takeCond # {}
      BY <3>3
    <3>5. PICK t \in takeCond : takeCond' = takeCond \ {t}
      BY <3>2, <3>4, SignalledWakes
    <3>6. t \notin Awake /\ Awake' = Awake \cup {t}
      BY <3>1, <3>5 DEF InAddBuff, BufferTypeOK
    <3>7. Cardinality(Awake') = Cardinality(Awake) + 1
      BY <2>1, <3>6, FS_AddElement
    <3> QED
      BY <2>1, <2>2, <3>1, <3>4, <3>7
  <2>8. CASE SpuriousWakeup
    <3>1. count' = count /\ adding' = adding /\ takeCond' \subseteq takeCond
      BY <2>8 DEF SpuriousWakeup, ringVars
    <3>2. Awake \subseteq Awake'
      BY <3>1 DEF InAddBuff
    <3>3. takeCond # {}
      BY <3>1
    <3> QED
      BY <2>3, <3>1, <3>2, <3>3
  <2>9. CASE UNCHANGED <<count, adding, takeCond>>
    <3>1. Awake' = Awake
      BY <2>9 DEF InAddBuff
    <3> QED
      BY <2>3, <2>9, <3>1
  <2> QED
    BY <2>4, <2>5, <2>6, <2>7, <2>8, <2>9
       DEF BufferNext, AddBuff, BeginTake, TakeBuff, ReturnNull, WaitForDatapoint,
           Collect, SetComplete, bufferVars, ringVars
<1>3. BufferTypeOK /\ BufferTypeOK' /\ NoConsumerStranded /\ [BufferNext]_bufferVars
        => NoConsumerStranded'
  <2> SUFFICES ASSUME BufferTypeOK, BufferTypeOK', NoConsumerStranded,
                      [BufferNext]_bufferVars,
                      addCond' # {}
               PROVE  count' <= Cardinality((InTakeBuff \ addCond)')
    BY DEF NoConsumerStranded
  <2> DEFINE Awake == InTakeBuff \ addCond
  <2>1. /\ IsFiniteSet(Awake) /\ Cardinality(Awake) \in Nat
        /\ IsFiniteSet(Awake') /\ Cardinality(Awake') \in Nat
        /\ count \in 0 .. N /\ count' \in 0 .. N
    <3>1. IsFiniteSet(Awake) /\ Cardinality(Awake) \in Nat
      BY AwakeFinite
    <3>2. Awake' \in SUBSET Consumers
      BY DEF InTakeBuff
    <3>3. IsFiniteSet(Awake')
      BY <3>2, FS_Subset
    <3>4. Cardinality(Awake') \in Nat
      BY <3>3, FS_CardinalityType
    <3>5. count \in 0 .. N /\ count' \in 0 .. N
      BY DEF BufferTypeOK
    <3> QED
      BY <3>1, <3>3, <3>4, <3>5
  <2>2. addCond # {} => count <= Cardinality(Awake)
    BY DEF NoConsumerStranded
  <2>3. ASSUME addCond # {}, count' = count, Awake \subseteq Awake'
        PROVE  count' <= Cardinality(Awake')
    BY <2>1, <2>2, <2>3, Grows
  <2>4. ASSUME NEW p \in Producers, Store(p)
        PROVE  count' <= Cardinality(Awake')
    <3>1. count' = count + 1 /\ taking' = taking
      BY <2>4 DEF Store
    <3>2. addCond' \in Signalled(addCond)
      BY <2>4 DEF Store
    <3>3. addCond' \subseteq addCond
      BY <3>2, SignalledWakes
    <3>4. addCond # {}
      BY <3>3
    <3>5. PICK t \in addCond : addCond' = addCond \ {t}
      BY <3>2, <3>4, SignalledWakes
    <3>6. t \notin Awake /\ Awake' = Awake \cup {t}
      BY <3>1, <3>5 DEF InTakeBuff, BufferTypeOK
    <3>7. Cardinality(Awake') = Cardinality(Awake) + 1
      BY <2>1, <3>6, FS_AddElement
    <3> QED
      BY <2>1, <2>2, <3>1, <3>4, <3>7
  <2>5. ASSUME NEW c \in Consumers, BeginTake(c)
        PROVE  count' <= Cardinality(Awake')
    <3>1. addCond' = addCond /\ count' = count
      BY <2>5 DEF BeginTake, ringVars
    <3>2. Awake \subseteq Awake'
      BY <2>5, <3>1 DEF BeginTake, InTakeBuff, BufferTypeOK
    <3> QED
      BY <2>3, <3>1, <3>2
  <2>6. ASSUME NEW c \in Consumers, ReturnNull(c) \/ WaitForDatapoint(c)
        PROVE  count' <= Cardinality(Awake')
    <3>1. count' = 0
      BY <2>6 DEF ReturnNull, WaitForDatapoint, ringVars
    <3> QED
      BY <2>1, <3>1
  <2>7. ASSUME NEW c \in Consumers, Remove(c)
        PROVE  count' <= Cardinality(Awake')
    <3>1. addCond' = addCond /\ count' = count - 1
      BY <2>7 DEF Remove
    <3>2. c \in Awake
      BY <2>7 DEF Remove, InTakeBuff
    <3>3. Awake' = Awake \ {c}
      BY <2>7, <3>1 DEF Remove, InTakeBuff, BufferTypeOK
    <3>4. Cardinality(Awake') = Cardinality(Awake) - 1
      BY <2>1, <3>2, <3>3, Shrinks
    <3> QED
      BY <2>1, <2>2, <3>1, <3>4
  <2>8. ASSUME NEW c \in Consumers, Collect(c)
        PROVE  count' <= Cardinality(Awake')
    <3>1. addCond' = addCond /\ count' = count
      BY <2>8 DEF Collect, ringVars
    <3>2. Awake \subseteq Awake'
      BY <2>8, <3>1 DEF Collect, InTakeBuff, BufferTypeOK
    <3> QED
      BY <2>3, <3>1, <3>2
  <2>9. CASE SpuriousWakeup
    <3>1. count' = count /\ taking' = taking /\ addCond' \subseteq addCond
      BY <2>9 DEF SpuriousWakeup, ringVars
    <3>2. Awake \subseteq Awake'
      BY <3>1 DEF InTakeBuff
    <3>3. addCond # {}
      BY <3>1
    <3> QED
      BY <2>3, <3>1, <3>2, <3>3
  <2>10. CASE UNCHANGED <<count, taking, addCond>>
    <3>1. Awake' = Awake
      BY <2>10 DEF InTakeBuff
    <3> QED
      BY <2>3, <2>10, <3>1
  <2> QED
    BY <2>4, <2>5, <2>6, <2>7, <2>8, <2>9, <2>10
       DEF BufferNext, BeginAdd, AddBuff, WaitForRoom, TakeBuff, SetComplete,
           bufferVars, ringVars
<1> QED
  BY <1>1, <1>2, <1>3, BufferTypeCorrect, PTL DEF BufferSpec, NoWaiterStranded

------------------------------------------------------------------------------
(* The contents of the ring, oldest first, as a sequence.                    *)
LEMMA ContentsIsSequence ==
  ASSUME BufferTypeOK
  PROVE  /\ Contents \in Seq(Data \cup {NULL})
         /\ Len(Contents) = count
<1> USE BufferAssumption
<1>1. count \in Nat
  BY DEF BufferTypeOK
<1>2. ASSUME NEW k \in 1 .. count
      PROVE  buffer[SlotOf(k - 1)] \in Data \cup {NULL}
  <2>1. k - 1 \in 0 .. N
    BY DEF BufferTypeOK
  <2>2. SlotOf(k - 1) \in Slots
    BY <2>1, SlotOfFacts DEF BufferTypeOK
  <2> QED
    BY <2>2 DEF BufferTypeOK
<1>3. Contents \in [1 .. count -> Data \cup {NULL}]
  BY <1>2 DEF Contents
<1> QED
  BY <1>1, <1>3

LEMMA StoreAppends ==
  ASSUME BufferTypeOK, RingConsistent, NEW p \in Producers, Store(p)
  PROVE  Contents' = Append(Contents, adding[p])
<1> USE BufferAssumption
<1>1. /\ count \in 0 .. N-1 /\ count' = count + 1 /\ out' = out
      /\ out \in Slots
      /\ buffer' = [buffer EXCEPT ![SlotOf(count)] = adding[p]]
  BY DEF Store, Full, BufferTypeOK, RingConsistent
<1>2. \A k : SlotOf(k)' = SlotOf(k)
  BY <1>1 DEF SlotOf
<1>3. \A k \in 0 .. N-1 : SlotOf(k) \in Slots
  BY <1>1, SlotOfFacts
<1>4. ASSUME NEW k \in 1 .. count + 1
      PROVE  buffer'[SlotOf(k - 1)]
               = IF k <= count THEN buffer[SlotOf(k - 1)] ELSE adding[p]
  <2>1. k - 1 \in 0 .. N-1
    BY <1>1
  <2>2. k # count + 1 => SlotOf(k - 1) # SlotOf(count)
    BY <1>1, <2>1, SlotOfFacts
  <2> QED
    BY <1>1, <1>3, <2>1, <2>2 DEF BufferTypeOK
<1>5. Contents' = [k \in 1 .. count + 1 |-> buffer'[SlotOf(k - 1)]]
  BY <1>1, <1>2 DEF Contents
<1>6. Contents' = [k \in 1 .. count + 1 |->
                     IF k <= count THEN buffer[SlotOf(k - 1)] ELSE adding[p]]
  BY <1>4, <1>5
<1>7. Contents \in Seq(Data \cup {NULL}) /\ Len(Contents) = count
  BY ContentsIsSequence
<1>8. \A k \in 1 .. count : Contents[k] = buffer[SlotOf(k - 1)]
  BY DEF Contents
<1>9. Append(Contents, adding[p])
        = [k \in 1 .. count + 1 |-> IF k <= count THEN Contents[k] ELSE adding[p]]
  BY <1>1, <1>7
<1> QED
  BY <1>1, <1>6, <1>8, <1>9

LEMMA RemoveTakesHead ==
  ASSUME BufferTypeOK, RingConsistent, NEW c \in Consumers, Remove(c)
  PROVE  /\ Contents # << >>
         /\ buffer[out] = Head(Contents)
         /\ Contents' = Tail(Contents)
<1> USE BufferAssumption
<1>1. /\ count \in 1 .. N /\ count' = count - 1 /\ out \in Slots
      /\ out' = Advance(out) /\ buffer' = [buffer EXCEPT ![out] = NULL]
  BY DEF Remove, BufferTypeOK
<1>2. out' = IF out = N - 1 THEN 0 ELSE out + 1
  BY <1>1, AdvanceInSlots
<1>3. \A k \in 0 .. N-1 : SlotOf(k)' = SlotOf(k + 1)
  BY <1>1, <1>2 DEF SlotOf, Slots
<1>4. Contents \in Seq(Data \cup {NULL}) /\ Len(Contents) = count
  BY ContentsIsSequence
<1>5. \A k \in 1 .. count : Contents[k] = buffer[SlotOf(k - 1)]
  BY DEF Contents
<1>6. Head(Contents) = buffer[out]
  <2>1. Head(Contents) = Contents[1]
    BY <1>1, <1>4
  <2>2. Contents[1] = buffer[SlotOf(0)]
    BY <1>1, <1>5
  <2> QED
    BY <1>1, <2>1, <2>2, SlotOfFacts
<1>7. ASSUME NEW k \in 1 .. count - 1
      PROVE  buffer'[SlotOf(k - 1)'] = Contents[k + 1]
  <2>1. k - 1 \in 0 .. N-1 /\ k \in 0 .. N-1 /\ k # 0 /\ k + 1 \in 1 .. count
    BY <1>1
  <2>2. SlotOf(k - 1)' = SlotOf(k)
    BY <1>3, <2>1
  <2>3. SlotOf(k) \in Slots /\ SlotOf(k) # out
    BY <1>1, <2>1, SlotOfFacts
  <2>4. buffer'[SlotOf(k)] = buffer[SlotOf(k)]
    BY <1>1, <2>3 DEF BufferTypeOK
  <2>5. Contents[k + 1] = buffer[SlotOf(k)]
    BY <1>5, <2>1
  <2> QED
    BY <2>2, <2>4, <2>5
<1>8. Contents' = [k \in 1 .. count - 1 |-> buffer'[SlotOf(k - 1)']]
  BY <1>1 DEF Contents
<1>9. Contents' = [k \in 1 .. count - 1 |-> Contents[k + 1]]
  BY <1>7, <1>8
<1>10. Tail(Contents) = [k \in 1 .. count - 1 |-> Contents[k + 1]]
  <2>1. Contents # << >>
    BY <1>1, <1>4
  <2>2. Tail(Contents) \in Seq(Data \cup {NULL})
    BY <1>4, <2>1, HeadTailProperties
  <2>3. /\ Len(Tail(Contents)) = count - 1
        /\ \A k \in 1 .. count - 1 : Tail(Contents)[k] = Contents[k + 1]
    BY <1>4, <2>1, HeadTailProperties
  <2>4. Tail(Contents) \in [1 .. count - 1 -> Data \cup {NULL}]
    BY <2>2, <2>3, LenProperties
  <2> QED
    BY <2>3, <2>4
<1> QED
  BY <1>1, <1>4, <1>6, <1>9, <1>10

(* The buffer implements a first-in first-out queue of at most N datapoints. *)
THEOREM BufferImplementsQueue == BufferSpec => ImplementsQueue
<1> USE BufferAssumption
<1>1. BufferInit => Queue!QueueInit
  <2> SUFFICES ASSUME BufferInit PROVE Queue!QueueInit
    OBVIOUS
  <2>1. Contents = << >>
    BY DEF BufferInit, Contents
  <2> QED
    BY <2>1 DEF BufferInit, Queue!QueueInit
<1>2. BufferTypeOK /\ RingConsistent /\ [BufferNext]_bufferVars
        => [Queue!QueueNext]_Queue!queueVars
  <2> SUFFICES ASSUME BufferTypeOK, RingConsistent, [BufferNext]_bufferVars
               PROVE  [Queue!QueueNext]_Queue!queueVars
    OBVIOUS
  <2>1. Contents \in Seq(Data \cup {NULL}) /\ Len(Contents) = count
    BY ContentsIsSequence
  <2>2. ASSUME UNCHANGED ringVars
        PROVE  Contents' = Contents
    BY <2>2 DEF ringVars, Contents, SlotOf
  <2>3. ASSUME NEW p \in Producers, NEW d \in Data, BeginAdd(p, d)
        PROVE  Queue!QueueNext
    <3>1. Contents' = Contents
      BY <2>2, <2>3 DEF BeginAdd
    <3>2. Queue!BeginAdd(p, d)
      BY <2>3, <3>1 DEF BeginAdd, Queue!BeginAdd
    <3> QED
      BY <3>2 DEF Queue!QueueNext
  <2>4. ASSUME NEW p \in Producers, Store(p)
        PROVE  Queue!QueueNext
    <3>1. Contents' = Append(Contents, adding[p])
      BY <2>4, StoreAppends
    <3>2. Len(Contents) < N
      BY <2>1, <2>4 DEF Store, Full, BufferTypeOK
    <3>3. Queue!Put(p)
      BY <2>4, <3>1, <3>2 DEF Store, Queue!Put
    <3> QED
      BY <3>3 DEF Queue!QueueNext
  <2>5. ASSUME NEW c \in Consumers, BeginTake(c)
        PROVE  Queue!QueueNext
    <3>1. Contents' = Contents
      BY <2>2, <2>5 DEF BeginTake
    <3>2. Queue!BeginTake(c)
      BY <2>5, <3>1 DEF BeginTake, Queue!BeginTake
    <3> QED
      BY <3>2 DEF Queue!QueueNext
  <2>6. ASSUME NEW c \in Consumers, ReturnNull(c)
        PROVE  Queue!QueueNext
    <3>1. Contents' = Contents
      BY <2>2, <2>6 DEF ReturnNull
    <3>2. Contents = << >>
      BY <2>1, <2>6 DEF ReturnNull
    <3>3. Queue!GetNothing(c)
      BY <2>6, <3>1, <3>2 DEF ReturnNull, Queue!GetNothing
    <3> QED
      BY <3>3 DEF Queue!QueueNext
  <2>7. ASSUME NEW c \in Consumers, Remove(c)
        PROVE  Queue!QueueNext
    <3>1. /\ Contents # << >>
          /\ buffer[out] = Head(Contents)
          /\ Contents' = Tail(Contents)
      BY <2>7, RemoveTakesHead
    <3>2. Queue!Get(c)
      BY <2>7, <3>1 DEF Remove, Queue!Get
    <3> QED
      BY <3>2 DEF Queue!QueueNext
  <2>8. ASSUME NEW c \in Consumers, Collect(c)
        PROVE  Queue!QueueNext
    <3>1. Contents' = Contents
      BY <2>2, <2>8 DEF Collect
    <3>2. Queue!Collect(c)
      BY <2>8, <3>1 DEF Collect, Queue!Collect
    <3> QED
      BY <3>2 DEF Queue!QueueNext
  <2>9. CASE SetComplete
    <3>1. Contents' = Contents
      BY <2>2, <2>9 DEF SetComplete
    <3>2. Queue!DeclareComplete
      BY <2>9, <3>1 DEF SetComplete, Queue!DeclareComplete
    <3> QED
      BY <3>2 DEF Queue!QueueNext
  <2>10. CASE UNCHANGED <<ringVars, complete, adding, taking, result>>
    <3>1. Contents' = Contents
      BY <2>2, <2>10
    <3> QED
      BY <2>10, <3>1 DEF Queue!queueVars
  <2> QED
    BY <2>3, <2>4, <2>5, <2>6, <2>7, <2>8, <2>9, <2>10
       DEF BufferNext, AddBuff, WaitForRoom, TakeBuff, WaitForDatapoint,
           SpuriousWakeup, bufferVars
<1> QED
  BY <1>1, <1>2, BufferTypeCorrect, RingAlwaysConsistent, PTL
     DEF BufferSpec, ImplementsQueue, Queue!QueueSpec

------------------------------------------------------------------------------
(* A step of a scan is a step of the buffer, or leaves it alone.             *)
LEMMA SessionStepUsesBuffer == [SessionNext]_vars => [BufferNext]_bufferVars
<1> SUFFICES ASSUME [SessionNext]_vars
             PROVE  BufferNext \/ UNCHANGED bufferVars
  OBVIOUS
<1>1. Consumer \in Consumers /\ Data = Producers
  BY SessionAssumption
<1>2. CASE MainStep
  BY <1>2 DEF MainStep, SetUp, PublishState, CreateProducer, CreateConsumer,
              CreateConsumerFails, TimerDone, JoinProducers, JoinConsumer
<1>3. ASSUME NEW p \in Producers, ProducerStep(p)
      PROVE  BufferNext \/ UNCHANGED bufferVars
  <2>1. ASSUME PullScan(p) PROVE BufferNext
    BY <1>1, <2>1 DEF PullScan, BufferNext
  <2>2. ASSUME ProducerAdds(p) PROVE BufferNext
    BY <2>2 DEF ProducerAdds, BufferNext
  <2>3. ASSUME FinishScans(p) PROVE SetComplete \/ UNCHANGED bufferVars
    BY <2>3 DEF FinishScans
  <2>4. ASSUME ExitSweeps(p) PROVE SetComplete
    BY <2>4 DEF ExitSweeps
  <2>5. ASSUME PullFails(p) \/ CheckState(p) PROVE UNCHANGED bufferVars
    BY <2>5 DEF PullFails, CheckState
  <2> QED
    BY <1>3, <2>1, <2>2, <2>3, <2>4, <2>5 DEF ProducerStep, BufferNext
<1>4. CASE ConsumerStep
  <2>1. ASSUME ConsumerTakes PROVE BufferNext
    BY <1>1, <2>1 DEF ConsumerTakes, BufferNext
  <2>2. ASSUME ConsumerInTakeBuff PROVE BufferNext
    BY <1>1, <2>2 DEF ConsumerInTakeBuff, BufferNext
  <2>3. ASSUME PrintDatapoint PROVE BufferNext
    BY <1>1, <2>3 DEF PrintDatapoint, BufferNext
  <2>4. ASSUME ConsumerExits PROVE BufferNext \/ UNCHANGED bufferVars
    BY <1>1, <2>4 DEF ConsumerExits, BufferNext
  <2> QED
    BY <1>4, <2>1, <2>2, <2>3, <2>4 DEF ConsumerStep
<1>5. CASE StopSweep \/ DestroyScan
  BY <1>5 DEF StopSweep, DestroyScan
<1>6. CASE SpuriousWakeup
  BY <1>6 DEF BufferNext
<1>7. CASE UNCHANGED vars
  BY <1>7 DEF vars
<1> QED
  BY <1>2, <1>3, <1>4, <1>5, <1>6, <1>7 DEF SessionNext

(* The threads of a scan use the buffer only through its operations, so the  *)
(* theorems about the buffer hold in a scan.                                 *)
THEOREM SessionUsesBuffer == SessionSpec => BufferSpec
<1>1. SessionInit => BufferInit
  BY DEF SessionInit
<1>2. [SessionNext]_vars => [BufferNext]_bufferVars
  BY SessionStepUsesBuffer
<1> QED
  BY <1>1, <1>2, PTL DEF SessionSpec, BufferSpec

(* The buffer of every scan is a first-in first-out queue.                   *)
THEOREM SessionImplementsQueue == SessionSpec => ImplementsQueue
BY SessionUsesBuffer, BufferImplementsQueue, PTL

------------------------------------------------------------------------------
(* A step of a scan keeps the types.                                         *)
LEMMA SessionTypesKept ==
  SessionTypeOK /\ BufferTypeOK' /\ [SessionNext]_vars => SessionTypeOK'
<1> USE SessionAssumption
<1> SUFFICES ASSUME SessionTypeOK, BufferTypeOK', [SessionNext]_vars
             PROVE  SessionTypeOK'
  OBVIOUS
<1> USE DEF SessionTypeOK
<1>1. NbrVnas \in Int
  BY BufferAssumption, FS_CardinalityType DEF NbrVnas
<1>2. CASE SetUp
  BY <1>2 DEF SetUp
<1>3. CASE PublishState
  BY <1>1, <1>3 DEF PublishState
<1>4. ASSUME NEW p \in Producers, CreateProducer(p)
      PROVE  SessionTypeOK'
  <2>1. NbrSweeps * NbrScans \in Nat
    OBVIOUS
  <2>2. left' \in [Producers -> Nat]
    BY <1>4, <2>1 DEF CreateProducer
  <2>3. prodPc' \in [Producers -> {"none", "failed", "run", "exit", "done"}]
    BY <1>4 DEF CreateProducer
  <2> QED
    BY <1>4, <2>2, <2>3 DEF CreateProducer
<1>5. CASE CreateConsumer
  BY <1>5 DEF CreateConsumer
<1>6. CASE CreateConsumerFails
  BY <1>6 DEF CreateConsumerFails
<1>7. CASE TimerDone
  BY <1>1, <1>7 DEF TimerDone
<1>8. CASE JoinProducers
  BY <1>8 DEF JoinProducers
<1>9. CASE JoinConsumer
  BY <1>9 DEF JoinConsumer
<1>10. ASSUME NEW p \in Producers, PullScan(p)
       PROVE  SessionTypeOK'
  <2>1. left' \in [Producers -> Nat] /\ owed' \in [Producers -> Int]
    BY <1>10 DEF PullScan, PullsLeft
  <2> QED
    BY <1>10, <2>1 DEF PullScan
<1>11. ASSUME NEW p \in Producers, PullFails(p)
       PROVE  SessionTypeOK'
  <2>1. left' \in [Producers -> Nat]
    BY <1>11 DEF PullFails, PullsLeft
  <2> QED
    BY <1>11, <2>1 DEF PullFails
<1>12. ASSUME NEW p \in Producers, FinishScans(p)
       PROVE  SessionTypeOK'
  BY <1>12 DEF FinishScans
<1>13. ASSUME NEW p \in Producers, CheckState(p)
       PROVE  SessionTypeOK'
  BY <1>13 DEF CheckState
<1>14. ASSUME NEW p \in Producers, ExitSweeps(p)
       PROVE  SessionTypeOK'
  BY <1>14 DEF ExitSweeps
<1>15. CASE PrintDatapoint
  <2>1. result[Consumer] \in Producers
    BY <1>15 DEF PrintDatapoint, BufferTypeOK
  <2>2. owed[result[Consumer]] - 1 \in Int
    BY <2>1
  <2>3. owed' \in [Producers -> Int]
    BY <1>15, <2>2 DEF PrintDatapoint
  <2> QED
    BY <1>15, <2>3 DEF PrintDatapoint, threadVars
<1>16. CASE ConsumerExits
  BY <1>16 DEF ConsumerExits
<1>17. CASE StopSweep
  BY <1>17 DEF StopSweep
<1>18. CASE DestroyScan
  BY <1>18 DEF DestroyScan
<1>19. CASE UNCHANGED <<threadVars, owed>>
  BY <1>19 DEF threadVars
<1> QED
  BY <1>2, <1>3, <1>4, <1>5, <1>6, <1>7, <1>8, <1>9, <1>10, <1>11, <1>12, <1>13,
     <1>14, <1>15, <1>16, <1>17, <1>18, <1>19
     DEF SessionNext, MainStep, ProducerStep, ConsumerStep, ProducerAdds,
         ConsumerTakes, ConsumerInTakeBuff, vars

(* The types of a scan hold at the beginning.                                *)
LEMMA SessionTypesStart == BufferTypeOK /\ SessionInit => SessionTypeOK
<1> USE SessionAssumption
<1> SUFFICES ASSUME BufferTypeOK, SessionInit PROVE SessionTypeOK
  OBVIOUS
<1>1. /\ prodPc \in [Producers -> {"none", "failed", "run", "exit", "done"}]
      /\ left \in [Producers -> Nat]
      /\ owed \in [Producers -> Int]
  BY DEF SessionInit
<1>2. /\ mode \in Modes /\ scanState \in Int /\ mainPc = "setup" /\ consPc = "none"
      /\ cmdPc = "idle" /\ freed = FALSE
  BY DEF SessionInit
<1> QED
  BY <1>1, <1>2 DEF SessionTypeOK

(* The variables of a scan keep their types.                                 *)
THEOREM SessionTypeCorrect == SessionSpec => []SessionTypeOK
<1>1. BufferTypeOK /\ SessionInit => SessionTypeOK
  BY SessionTypesStart
<1>2. SessionTypeOK /\ BufferTypeOK' /\ [SessionNext]_vars => SessionTypeOK'
  BY SessionTypesKept
<1> QED
  BY <1>1, <1>2, SessionUsesBuffer, BufferTypeCorrect, PTL DEF SessionSpec

------------------------------------------------------------------------------
(* The inductive invariant, one lemma per part.  The parts need each other:  *)
(* what the state says rests on which readers run, and that no reader leaves *)
(* before its time rests on what the state says.                             *)
SessionInv ==
  /\ SessionTypeOK
  /\ RingConsistent
  /\ ThreadsInStep
  /\ StateTellsProgress
  /\ CompleteMeansDone

LEMMA MainStaysInStep ==
  ASSUME SessionTypeOK, MainInStep, [SessionNext]_vars
  PROVE  MainInStep'
<1> USE SessionAssumption DEF MainInStep, ReadersOver
<1>1. CASE SetUp
  BY <1>1 DEF SetUp
<1>2. CASE PublishState
  BY <1>2 DEF PublishState
<1>3. ASSUME NEW p \in Producers, CreateProducer(p)
      PROVE  MainInStep'
  BY <1>3 DEF CreateProducer, SessionTypeOK
<1>4. CASE CreateConsumer
  BY <1>4 DEF CreateConsumer
<1>5. CASE CreateConsumerFails
  BY <1>5 DEF CreateConsumerFails
<1>6. CASE TimerDone
  BY <1>6 DEF TimerDone
<1>7. CASE JoinProducers
  BY <1>7 DEF JoinProducers
<1>8. CASE JoinConsumer
  BY <1>8 DEF JoinConsumer
<1>9. ASSUME NEW p \in Producers,
             FinishScans(p) \/ CheckState(p) \/ ExitSweeps(p)
      PROVE  MainInStep'
  <2>1. /\ prodPc[p] \in {"run", "exit"}
        /\ \A q \in Producers : prodPc[q] # "none" => prodPc'[q] # "none"
        /\ \A q \in Producers : prodPc[q] \in {"done", "failed"} => prodPc'[q] = prodPc[q]
        /\ \A q \in Producers : prodPc[q] = "none" => prodPc'[q] = "none"
        /\ UNCHANGED <<mode, mainPc, consPc, freed>>
    BY <1>9 DEF FinishScans, CheckState, ExitSweeps, Reading, SessionTypeOK
  <2> QED
    BY <2>1
<1>10. CASE ConsumerExits
  BY <1>10 DEF ConsumerExits
<1>11. CASE UNCHANGED <<mode, mainPc, prodPc, consPc, freed>>
  BY <1>11
<1> QED
  BY <1>1, <1>2, <1>3, <1>4, <1>5, <1>6, <1>7, <1>8, <1>9, <1>10, <1>11
     DEF SessionNext, MainStep, ProducerStep, ConsumerStep, PullScan, PullFails,
         ProducerAdds, ConsumerTakes, ConsumerInTakeBuff, PrintDatapoint,
         StopSweep, DestroyScan, threadVars, vars

(* Before anybody stops the scan, a reader of a TIME or ONGOING scan finds   *)
(* the state positive.                                                       *)
LEMMA ActiveUntilStopped ==
  ASSUME SessionInv, NEW p \in Producers, prodPc[p] = "run",
         cmdPc = "idle"
  PROVE  /\ scanState = Cardinality(Unfinished)
         /\ p \in Unfinished /\ IsFiniteSet(Unfinished)
         /\ scanState > 0
<1>1. Published
  BY DEF SessionInv, ThreadsInStep, MainInStep, Published
<1>2. scanState = Cardinality(Unfinished)
  BY <1>1 DEF SessionInv, StateTellsProgress
<1>3. p \in Unfinished
  BY DEF Unfinished
<1>4. Unfinished \in SUBSET Producers
  BY DEF Unfinished
<1>5. IsFiniteSet(Unfinished)
  BY <1>4, BufferAssumption, FS_Subset
<1>6. Cardinality(Unfinished) \in Nat /\ Cardinality(Unfinished) # 0
  BY <1>3, <1>5, FS_EmptySet, FS_CardinalityType
<1> QED
  BY <1>2, <1>3, <1>5, <1>6

LEMMA ReadersStayInStep ==
  ASSUME SessionInv, [SessionNext]_vars
  PROVE  ReadersInStep'
<1> USE SessionAssumption, BufferAssumption
    DEF SessionInv, ThreadsInStep, ReadersInStep
<1>1. ASSUME NEW p \in Producers, CreateProducer(p)
      PROVE  ReadersInStep'
  BY <1>1 DEF CreateProducer, SessionTypeOK, bufferVars
<1>2. ASSUME NEW p \in Producers, PullScan(p)
      PROVE  ReadersInStep'
  BY <1>2 DEF PullScan, BeginAdd, Reading, SessionTypeOK, BufferTypeOK
<1>3. ASSUME NEW p \in Producers, ProducerAdds(p)
      PROVE  ReadersInStep'
  BY <1>3 DEF ProducerAdds, AddBuff, WaitForRoom, Store, SessionTypeOK,
              BufferTypeOK, threadVars
<1>4. ASSUME NEW p \in Producers, FinishScans(p)
      PROVE  ReadersInStep'
  <2>1. adding' = adding /\ adding[p] = NULL
    BY <1>4 DEF FinishScans, Reading, SetComplete, bufferVars
  <2> QED
    BY <1>4, <2>1 DEF FinishScans, SessionTypeOK
<1>5. ASSUME NEW p \in Producers, CheckState(p)
      PROVE  ReadersInStep'
  <2>1. cmdPc = "idle" => scanState > 0
    BY <1>5, ActiveUntilStopped DEF CheckState, Reading
  <2>2. cmdPc = "idle" => prodPc' = prodPc
    BY <1>5, <2>1 DEF CheckState, Active
  <2> QED
    BY <1>5, <2>2 DEF CheckState, Reading, SessionTypeOK, bufferVars
<1>6. ASSUME NEW p \in Producers, ExitSweeps(p)
      PROVE  ReadersInStep'
  <2>1. cmdPc # "idle" /\ adding' = adding /\ adding[p] = NULL
    BY <1>6 DEF ExitSweeps, SetComplete
  <2> QED
    BY <1>6, <2>1 DEF ExitSweeps, SessionTypeOK
<1>7. ASSUME UNCHANGED <<adding, prodPc, mode>>, cmdPc' = "idle" => cmdPc = "idle"
      PROVE  ReadersInStep'
  BY <1>7
<1>8. CASE MainStep
  <2>1. ASSUME ~ \E p \in Producers : CreateProducer(p)
        PROVE  UNCHANGED <<adding, prodPc, mode, cmdPc>>
    BY <1>8, <2>1 DEF MainStep, SetUp, PublishState, CreateConsumer,
                      CreateConsumerFails, TimerDone, JoinProducers, JoinConsumer,
                      bufferVars
  <2> QED
    BY <1>1, <1>7, <2>1
<1>9. CASE ConsumerStep
  <2>1. UNCHANGED <<adding, prodPc, mode, cmdPc>>
    BY <1>9 DEF ConsumerStep, ConsumerTakes, BeginTake, ConsumerInTakeBuff, TakeBuff,
                ReturnNull, WaitForDatapoint, Remove, PrintDatapoint, Collect,
                ConsumerExits, bufferVars, threadVars
  <2> QED
    BY <1>7, <2>1
<1>10. CASE StopSweep \/ DestroyScan
  <2>1. UNCHANGED <<adding, prodPc, mode>> /\ cmdPc' # "idle"
    BY <1>10 DEF StopSweep, DestroyScan, bufferVars
  <2> QED
    BY <1>7, <2>1
<1>11. ASSUME NEW p \in Producers, PullFails(p)
       PROVE  ReadersInStep'
  BY <1>7, <1>11 DEF PullFails, bufferVars
<1>12. CASE SpuriousWakeup /\ UNCHANGED <<threadVars, owed>>
  BY <1>7, <1>12 DEF SpuriousWakeup, threadVars
<1>13. CASE UNCHANGED vars
  BY <1>7, <1>13 DEF vars, threadVars, bufferVars
<1> QED
  BY <1>2, <1>3, <1>4, <1>5, <1>6, <1>8, <1>9, <1>10, <1>11, <1>12, <1>13
     DEF SessionNext, ProducerStep

(* With no reader left and the scan complete, nobody adds any more.          *)
LEMMA CompleteStopsAdding ==
  ASSUME SessionInv, complete, cmdPc = "idle", NEW p \in Producers
  PROVE  prodPc[p] = "done" /\ adding[p] = NULL
BY DEF SessionInv, CompleteMeansDone, Unfinished, ThreadsInStep, ReadersInStep

LEMMA PrinterStaysInStep ==
  ASSUME SessionInv, [SessionNext]_vars
  PROVE  PrinterInStep'
<1> USE SessionAssumption, BufferAssumption
    DEF SessionInv, ThreadsInStep, PrinterInStep
<1>1. ASSUME UNCHANGED <<taking, result, count>>,
             complete => complete', cmdPc' = "idle" => cmdPc = "idle"
      PROVE  PrinterInStep'
  BY <1>1
<1>2. ASSUME NEW p \in Producers, ProducerAdds(p)
      PROVE  PrinterInStep'
  <2>1. CASE WaitForRoom(p)
    BY <1>1, <1>2, <2>1 DEF ProducerAdds, WaitForRoom, ringVars, threadVars
  <2>2. CASE Store(p)
    <3>1. ~(complete /\ cmdPc = "idle")
      BY <2>2, CompleteStopsAdding DEF Store
    <3> QED
      BY <1>2, <2>2, <3>1 DEF ProducerAdds, Store, threadVars
  <2> QED
    BY <1>2, <2>1, <2>2 DEF ProducerAdds, AddBuff
<1>3. CASE ConsumerTakes
  BY <1>3 DEF ConsumerTakes, BeginTake, SessionTypeOK, BufferTypeOK, threadVars
<1>4. CASE ConsumerInTakeBuff
  <2>1. CASE ReturnNull(Consumer)
    BY <2>1 DEF ReturnNull, ringVars, SessionTypeOK, BufferTypeOK
  <2>2. CASE WaitForDatapoint(Consumer)
    BY <1>1, <1>4, <2>2 DEF ConsumerInTakeBuff, WaitForDatapoint, ringVars, threadVars
  <2>3. CASE Remove(Consumer)
    <3>1. SlotOf(0) = out
      BY SlotOfFacts DEF SessionTypeOK, BufferTypeOK
    <3>2. buffer[SlotOf(0)] # NULL
      <4>1. 0 \in 0 .. N-1 /\ 0 < count
        BY <2>3 DEF Remove, SessionTypeOK, BufferTypeOK
      <4> QED
        BY <4>1 DEF RingConsistent
    <3>3. result'[Consumer] # NULL /\ taking'[Consumer] = "returned"
      BY <2>3, <3>1, <3>2 DEF Remove, SessionTypeOK, BufferTypeOK
    <3> QED
      BY <3>3
  <2> QED
    BY <1>4, <2>1, <2>2, <2>3 DEF ConsumerInTakeBuff, TakeBuff
<1>5. ASSUME Collect(Consumer)
      PROVE  PrinterInStep'
  BY <1>5 DEF Collect, SessionTypeOK, BufferTypeOK
<1>6. CASE ConsumerStep
  BY <1>1, <1>3, <1>4, <1>5, <1>6
     DEF ConsumerStep, PrintDatapoint, ConsumerExits, bufferVars, ringVars
<1>7. CASE MainStep
  BY <1>1, <1>7 DEF MainStep, SetUp, PublishState, CreateProducer, CreateConsumer,
                    CreateConsumerFails, TimerDone, JoinProducers, JoinConsumer,
                    bufferVars, ringVars
<1>8. ASSUME NEW p \in Producers, ProducerStep(p)
      PROVE  PrinterInStep'
  <2>1. CASE PullScan(p)
    BY <1>1, <2>1 DEF PullScan, BeginAdd, ringVars
  <2>2. CASE FinishScans(p)
    BY <1>1, <2>2 DEF FinishScans, SetComplete, bufferVars, ringVars
  <2>3. CASE ExitSweeps(p)
    BY <1>1, <2>3 DEF ExitSweeps, SetComplete, bufferVars, ringVars
  <2>4. CASE PullFails(p) \/ CheckState(p)
    BY <1>1, <2>4 DEF PullFails, CheckState, bufferVars, ringVars
  <2> QED
    BY <1>2, <1>8, <2>1, <2>2, <2>3, <2>4 DEF ProducerStep
<1>9. CASE StopSweep \/ DestroyScan
  BY <1>1, <1>9 DEF StopSweep, DestroyScan, bufferVars, ringVars
<1>10. CASE SpuriousWakeup /\ UNCHANGED <<threadVars, owed>>
  BY <1>1, <1>10 DEF SpuriousWakeup, ringVars, threadVars
<1>11. CASE UNCHANGED vars
  BY <1>1, <1>11 DEF vars, bufferVars, ringVars, threadVars
<1> QED
  BY <1>6, <1>7, <1>8, <1>9, <1>10, <1>11 DEF SessionNext

LEMMA StateStaysTold ==
  ASSUME SessionInv, [SessionNext]_vars
  PROVE  StateTellsProgress'
<1> USE SessionAssumption, BufferAssumption DEF SessionInv
<1> SUFFICES ASSUME cmdPc' = "idle"
             PROVE  scanState' = IF Published' THEN Cardinality(Unfinished') ELSE 0
  BY DEF StateTellsProgress
<1>1. cmdPc = "idle"
  BY DEF SessionNext, MainStep, SetUp, PublishState, CreateProducer, CreateConsumer,
         CreateConsumerFails, TimerDone, JoinProducers, JoinConsumer, ProducerStep,
         PullScan, PullFails, ProducerAdds, FinishScans, CheckState, ExitSweeps,
         ConsumerStep, ConsumerTakes, ConsumerInTakeBuff, PrintDatapoint,
         ConsumerExits, StopSweep, DestroyScan, threadVars, vars
<1>2. scanState = IF Published THEN Cardinality(Unfinished) ELSE 0
  BY <1>1 DEF StateTellsProgress
<1>3. ASSUME UNCHANGED <<scanState, mainPc, prodPc>>
      PROVE  scanState' = IF Published' THEN Cardinality(Unfinished') ELSE 0
  BY <1>2, <1>3 DEF Published, Unfinished
<1>4. MainInStep /\ ReadersInStep
  BY DEF ThreadsInStep
<1>5. CASE SetUp
  BY <1>2, <1>4, <1>5 DEF SetUp, Published, Unfinished, MainInStep
<1>6. ASSUME PublishState \/ TimerDone
      PROVE  scanState' = IF Published' THEN Cardinality(Unfinished') ELSE 0
  <2>1. \A p \in Producers : prodPc[p] # "done"
    BY <1>1, <1>4, <1>6 DEF PublishState, TimerDone, MainInStep, ReadersInStep
  <2>2. Unfinished' = Producers
    BY <1>6, <2>1 DEF PublishState, TimerDone, Unfinished
  <2>3. Published'
    BY <1>6 DEF PublishState, TimerDone, Published
  <2> QED
    BY <1>6, <2>2, <2>3 DEF PublishState, TimerDone, NbrVnas
<1>7. ASSUME NEW p \in Producers, CreateProducer(p)
      PROVE  scanState' = IF Published' THEN Cardinality(Unfinished') ELSE 0
  <2>1. Unfinished' = Unfinished
    BY <1>7 DEF CreateProducer, Unfinished, SessionTypeOK
  <2>2. Published /\ Published'
    BY <1>7 DEF CreateProducer, Published
  <2> QED
    BY <1>2, <1>7, <2>1, <2>2 DEF CreateProducer
<1>8. ASSUME CreateConsumer \/ CreateConsumerFails \/ JoinProducers \/ JoinConsumer
      PROVE  scanState' = IF Published' THEN Cardinality(Unfinished') ELSE 0
  <2>1. Published
    BY <1>8 DEF CreateConsumer, CreateConsumerFails, JoinProducers, JoinConsumer,
                Published
  <2>2. Published'
    BY <1>4, <1>8 DEF CreateConsumer, CreateConsumerFails, JoinProducers, JoinConsumer,
                      Published, AllTried, MainInStep, ReadersOver
  <2>3. scanState' = scanState /\ Unfinished' = Unfinished
    BY <1>8 DEF CreateConsumer, CreateConsumerFails, JoinProducers, JoinConsumer,
                Unfinished
  <2> QED
    BY <1>2, <2>1, <2>2, <2>3
<1>9. ASSUME NEW p \in Producers, FinishScans(p)
      PROVE  scanState' = IF Published' THEN Cardinality(Unfinished') ELSE 0
  <2>1. /\ scanState = Cardinality(Unfinished)
        /\ p \in Unfinished /\ IsFiniteSet(Unfinished)
    BY <1>1, <1>9, ActiveUntilStopped DEF FinishScans, Reading
  <2>2. Unfinished' = Unfinished \ {p}
    BY <1>9 DEF FinishScans, Unfinished, SessionTypeOK
  <2>3. Cardinality(Unfinished') = Cardinality(Unfinished) - 1
    BY <2>1, <2>2, Shrinks
  <2>4. Published'
    BY <1>4, <1>9 DEF FinishScans, Reading, Published, MainInStep, SessionTypeOK
  <2> QED
    BY <1>9, <2>1, <2>3, <2>4 DEF FinishScans
<1>10. ASSUME NEW p \in Producers, CheckState(p)
       PROVE  scanState' = IF Published' THEN Cardinality(Unfinished') ELSE 0
  <2>1. scanState > 0
    BY <1>1, <1>10, ActiveUntilStopped DEF CheckState, Reading
  <2>2. UNCHANGED <<scanState, mainPc, prodPc>>
    BY <1>10, <2>1 DEF CheckState, Active
  <2> QED
    BY <1>3, <2>2
<1>11. ASSUME NEW p \in Producers, ExitSweeps(p)
       PROVE  FALSE
  BY <1>1, <1>4, <1>11 DEF ExitSweeps, ReadersInStep
<1>12. ASSUME NEW p \in Producers, PullScan(p) \/ PullFails(p) \/ ProducerAdds(p)
       PROVE  UNCHANGED <<scanState, mainPc, prodPc>>
  BY <1>12 DEF PullScan, PullFails, ProducerAdds, threadVars
<1>13. CASE ConsumerStep
  BY <1>3, <1>13 DEF ConsumerStep, ConsumerTakes, ConsumerInTakeBuff, PrintDatapoint,
                     ConsumerExits, threadVars
<1>14. CASE StopSweep \/ DestroyScan
  BY <1>14 DEF StopSweep, DestroyScan
<1>15. CASE UNCHANGED <<threadVars, owed>>
  BY <1>3, <1>15 DEF threadVars
<1> QED
  BY <1>3, <1>5, <1>6, <1>7, <1>8, <1>9, <1>10, <1>11, <1>12, <1>13, <1>14, <1>15
     DEF SessionNext, MainStep, ProducerStep, vars

LEMMA CompleteStaysTold ==
  ASSUME SessionInv, [SessionNext]_vars
  PROVE  CompleteMeansDone'
<1> USE SessionAssumption, BufferAssumption DEF SessionInv
<1> SUFFICES ASSUME complete', cmdPc' = "idle"
             PROVE  (mode = "NUM_SWEEPS" /\ Unfinished = {})'
  BY DEF CompleteMeansDone
<1>1. ASSUME UNCHANGED <<mode, prodPc, complete>>, cmdPc = "idle"
      PROVE  (mode = "NUM_SWEEPS" /\ Unfinished = {})'
  BY <1>1 DEF CompleteMeansDone, Unfinished
<1>2. CASE MainStep
  <2>1. complete /\ cmdPc = "idle" /\ mode' = mode
    BY <1>2 DEF MainStep, SetUp, PublishState, CreateProducer, CreateConsumer,
                CreateConsumerFails, TimerDone, JoinProducers, JoinConsumer, bufferVars
  <2>2. ASSUME NEW p \in Producers PROVE ~CreateProducer(p)
    BY <2>1, CompleteStopsAdding DEF CreateProducer
  <2>3. prodPc' = prodPc /\ complete' = complete
    BY <1>2, <2>2 DEF MainStep, SetUp, PublishState, CreateConsumer,
                CreateConsumerFails, TimerDone, JoinProducers, JoinConsumer, bufferVars
  <2> QED
    BY <1>1, <2>1, <2>3
<1>3. ASSUME NEW p \in Producers, FinishScans(p)
      PROVE  (mode = "NUM_SWEEPS" /\ Unfinished = {})'
  <2>1. cmdPc = "idle"
    BY <1>3 DEF FinishScans
  <2>2. /\ scanState = Cardinality(Unfinished)
        /\ p \in Unfinished /\ IsFiniteSet(Unfinished)
    BY <1>3, <2>1, ActiveUntilStopped DEF FinishScans, Reading
  <2>3. ~complete
    BY <1>3, <2>1, CompleteStopsAdding DEF FinishScans, Reading
  <2>4. scanState - 1 <= 0
    BY <1>3, <2>3 DEF FinishScans, LastReader, bufferVars
  <2>5. Unfinished' = Unfinished \ {p}
    BY <1>3 DEF FinishScans, Unfinished, SessionTypeOK
  <2>6. IsFiniteSet(Unfinished') /\ Cardinality(Unfinished') = Cardinality(Unfinished) - 1
    BY <2>2, <2>5, FS_RemoveElement, Shrinks
  <2>7. Cardinality(Unfinished') \in Nat
    BY <2>6, FS_CardinalityType
  <2>8. Cardinality(Unfinished') = 0
    BY <2>2, <2>4, <2>6, <2>7 DEF SessionTypeOK
  <2>9. Unfinished' = {}
    BY <2>6, <2>8, FS_EmptySet
  <2> QED
    BY <1>3, <2>9 DEF FinishScans
<1>4. ASSUME NEW p \in Producers, CheckState(p)
      PROVE  (mode = "NUM_SWEEPS" /\ Unfinished = {})'
  <2>1. complete /\ cmdPc = "idle"
    BY <1>4 DEF CheckState, bufferVars
  <2>2. prodPc[p] = "done"
    BY <2>1, CompleteStopsAdding
  <2> QED
    BY <1>4, <2>2 DEF CheckState, Reading
<1>5. ASSUME NEW p \in Producers, ExitSweeps(p)
      PROVE  FALSE
  BY <1>5 DEF ExitSweeps, ThreadsInStep, ReadersInStep
<1>6. ASSUME NEW p \in Producers, PullScan(p) \/ PullFails(p) \/ ProducerAdds(p)
      PROVE  UNCHANGED <<mode, prodPc, complete>> /\ cmdPc' = cmdPc
  BY <1>6 DEF PullScan, PullFails, ProducerAdds, BeginAdd, AddBuff, WaitForRoom, Store,
              threadVars, bufferVars
<1>7. ASSUME ConsumerStep
      PROVE  UNCHANGED <<mode, prodPc, complete>> /\ cmdPc' = cmdPc
  BY <1>7 DEF ConsumerStep, ConsumerTakes, BeginTake, ConsumerInTakeBuff, TakeBuff,
              ReturnNull, WaitForDatapoint, Remove, PrintDatapoint, Collect,
              ConsumerExits, bufferVars, threadVars
<1>8. CASE StopSweep \/ DestroyScan
  BY <1>8 DEF StopSweep, DestroyScan
<1>9. CASE SpuriousWakeup /\ UNCHANGED <<threadVars, owed>>
  BY <1>1, <1>9 DEF SpuriousWakeup, threadVars
<1>10. CASE UNCHANGED vars
  BY <1>1, <1>10 DEF vars, threadVars, bufferVars
<1> QED
  BY <1>1, <1>2, <1>3, <1>4, <1>5, <1>6, <1>7, <1>8, <1>9, <1>10
     DEF SessionNext, ProducerStep

(* The parts that are not types hold at the beginning.                       *)
LEMMA SessionInvStarts ==
  SessionInit => ThreadsInStep /\ StateTellsProgress /\ CompleteMeansDone
BY SessionAssumption, BufferAssumption
   DEF SessionInit, BufferInit, ThreadsInStep, MainInStep, ReadersInStep,
       PrinterInStep, StateTellsProgress, Published, CompleteMeansDone

(* A step of a scan keeps the parts that are not types.                      *)
LEMMA SessionPartsKept ==
  SessionInv /\ [SessionNext]_vars
  => ThreadsInStep' /\ StateTellsProgress' /\ CompleteMeansDone'
<1> USE SessionAssumption, BufferAssumption
<1> SUFFICES ASSUME SessionInv, [SessionNext]_vars
             PROVE  ThreadsInStep' /\ StateTellsProgress' /\ CompleteMeansDone'
  OBVIOUS
<1>1. MainInStep'
  BY MainStaysInStep DEF SessionInv, ThreadsInStep
<1> QED
  BY <1>1, ReadersStayInStep, PrinterStaysInStep, StateStaysTold, CompleteStaysTold
     DEF ThreadsInStep

LEMMA SessionInvariant == SessionSpec => []SessionInv
<1>1. SessionInit => ThreadsInStep /\ StateTellsProgress /\ CompleteMeansDone
  BY SessionInvStarts
<1>2. SessionInv /\ [SessionNext]_vars
        => ThreadsInStep' /\ StateTellsProgress' /\ CompleteMeansDone'
  BY SessionPartsKept
<1>3. SessionTypeOK /\ RingConsistent /\ ThreadsInStep /\ StateTellsProgress
        /\ CompleteMeansDone <=> SessionInv
  BY DEF SessionInv
<1> QED
  BY <1>1, <1>2, <1>3, SessionTypeCorrect, SessionUsesBuffer, RingAlwaysConsistent, PTL
     DEF SessionSpec

(* Until a stop, scan_states counts the readers still to finish.             *)
THEOREM StateAlwaysTellsProgress == SessionSpec => []StateTellsProgress
<1>1. SessionInv => StateTellsProgress
  BY DEF SessionInv
<1> QED
  BY <1>1, SessionInvariant, PTL

(* Until a stop, complete is set only once no reader can add any more.       *)
THEOREM CompleteAlwaysMeansDone == SessionSpec => []CompleteMeansDone
<1>1. SessionInv => CompleteMeansDone
  BY DEF SessionInv
<1> QED
  BY <1>1, SessionInvariant, PTL

(* Once freed, the buffer stays quiet.                                       *)
LEMMA FreedKept ==
  SessionInv /\ FreedWhenQuiet /\ [SessionNext]_vars => FreedWhenQuiet'
<1> SUFFICES ASSUME SessionInv, FreedWhenQuiet, [SessionNext]_vars, freed', consPc' # "none"
             PROVE  /\ consPc' = "done"
                    /\ \A p \in Producers : prodPc'[p] \in {"done", "failed"}
  BY DEF FreedWhenQuiet
<1> USE DEF SessionInv, ThreadsInStep, MainInStep
<1>1. CASE JoinConsumer
  BY <1>1 DEF JoinConsumer, ConsumerJoined, ReadersOver
<1>2. CASE CreateConsumerFails
  BY <1>2 DEF CreateConsumerFails
<1>3. CASE ~JoinConsumer /\ ~CreateConsumerFails
  <2>1. freed
    BY <1>3 DEF SessionNext, MainStep, SetUp, PublishState, CreateProducer,
         CreateConsumer, TimerDone, JoinProducers, ProducerStep, PullScan, PullFails,
         ProducerAdds, FinishScans, CheckState, ExitSweeps, ConsumerStep,
         ConsumerTakes, ConsumerInTakeBuff, PrintDatapoint, ConsumerExits, StopSweep,
         DestroyScan, threadVars, vars
  <2>2. mainPc = "returned"
    BY <2>1
  <2>3. consPc # "none"
    BY <1>3, <2>2 DEF SessionNext, MainStep, SetUp, PublishState, CreateProducer,
         CreateConsumer, TimerDone, JoinProducers, ProducerStep, PullScan, PullFails,
         ProducerAdds, FinishScans, CheckState, ExitSweeps, ConsumerStep,
         ConsumerTakes, ConsumerInTakeBuff, PrintDatapoint, ConsumerExits, StopSweep,
         DestroyScan, threadVars, vars
  <2>4. consPc = "done" /\ \A p \in Producers : prodPc[p] \in {"done", "failed"}
    BY <2>1, <2>3 DEF FreedWhenQuiet
  <2>5. prodPc' = prodPc /\ consPc' = consPc
    BY <1>3, <2>2, <2>4 DEF SessionNext, MainStep, SetUp, PublishState, CreateProducer,
         CreateConsumer, TimerDone, JoinProducers, ProducerStep, PullScan, PullFails,
         ProducerAdds, FinishScans, CheckState, ExitSweeps, Reading, ConsumerStep,
         ConsumerTakes, ConsumerInTakeBuff, PrintDatapoint, ConsumerExits, StopSweep,
         DestroyScan, threadVars, vars
  <2> QED
    BY <2>4, <2>5
<1> QED
  BY <1>1, <1>2, <1>3

(* The buffer is destroyed only when nobody can touch it, unless the         *)
(* printing thread could not be created.                                     *)
THEOREM BufferFreedWhenQuiet == SessionSpec => []FreedWhenQuiet
<1>1. SessionInit => FreedWhenQuiet
  BY DEF SessionInit, FreedWhenQuiet
<1>2. SessionInv /\ FreedWhenQuiet /\ [SessionNext]_vars => FreedWhenQuiet'
  BY FreedKept
<1> QED
  BY <1>1, <1>2, SessionInvariant, PTL DEF SessionSpec

------------------------------------------------------------------------------
(* Where a datapoint is between its pull and its print.                      *)
LEMMA HeldFinite ==
  ASSUME NEW p
  PROVE  IsFiniteSet(Held(p)) /\ Cardinality(Held(p)) \in Nat
<1>1. IsFiniteSet(Slots)
  BY BufferAssumption, FS_Interval DEF Slots
<1>2. Held(p) \in SUBSET Slots
  BY DEF Held
<1> QED
  BY <1>1, <1>2, FS_Subset, FS_CardinalityType

LEMMA EveryoneIsData ==
  Data = Producers /\ NULL \notin Producers /\ Consumers = {Consumer}
BY SessionAssumption, BufferAssumption

LEMMA StoreConserves ==
  ASSUME SessionInv, Conservation, NEW p \in Producers, Store(p), owed' = owed
  PROVE  Conservation'
<1> USE BufferAssumption, EveryoneIsData DEF SessionInv
<1>1. adding[p] = p
  BY DEF Store, ThreadsInStep, ReadersInStep
<1>2. in \in Slots /\ buffer[in] = NULL
  <2>1. count \in 0 .. N-1
    BY DEF Store, Full, SessionTypeOK, BufferTypeOK
  <2> QED
    BY <2>1 DEF SessionTypeOK, BufferTypeOK, RingConsistent
<1>3. buffer' = [buffer EXCEPT ![in] = p] /\ result' = result
  BY <1>1 DEF Store
<1>4. ASSUME NEW q \in Producers
      PROVE  (owed[q] = Cardinality(Held(q))
                        + (IF adding[q] = q THEN 1 ELSE 0)
                        + (IF result[Consumer] = q THEN 1 ELSE 0))'
  <2>1. owed[q] = Cardinality(Held(q))
                  + (IF adding[q] = q THEN 1 ELSE 0)
                  + (IF result[Consumer] = q THEN 1 ELSE 0)
    BY DEF Conservation
  <2>2. CASE q = p
    <3>1. in \notin Held(q) /\ Held(q)' = Held(q) \cup {in}
      BY <1>2, <1>3, <2>2 DEF Held, SessionTypeOK, BufferTypeOK
    <3>2. Cardinality(Held(q)') = Cardinality(Held(q)) + 1
      BY <3>1, HeldFinite, FS_AddElement
    <3>3. adding'[q] = NULL
      BY <2>2 DEF Store, SessionTypeOK, BufferTypeOK
    <3> QED
      BY <1>1, <1>3, <2>1, <2>2, <3>2, <3>3, HeldFinite
  <2>3. CASE q # p
    <3>1. Held(q)' = Held(q)
      BY <1>2, <1>3, <2>3 DEF Held, SessionTypeOK, BufferTypeOK
    <3>2. adding'[q] = adding[q]
      BY <2>3 DEF Store, SessionTypeOK, BufferTypeOK
    <3> QED
      BY <1>3, <2>1, <3>1, <3>2
  <2> QED
    BY <2>2, <2>3
<1> QED
  BY <1>4 DEF Conservation

LEMMA RemoveConserves ==
  ASSUME SessionInv, Conservation, Remove(Consumer), owed' = owed
  PROVE  Conservation'
<1> USE BufferAssumption, EveryoneIsData DEF SessionInv
<1> DEFINE v == buffer[out]
<1>1. out \in Slots /\ v \in Producers
  <2>1. out \in Slots /\ 0 \in 0 .. N-1 /\ 0 < count
    BY DEF Remove, SessionTypeOK, BufferTypeOK
  <2>2. buffer[SlotOf(0)] # NULL /\ SlotOf(0) = out
    BY <2>1, SlotOfFacts DEF RingConsistent
  <2> QED
    BY <2>1, <2>2 DEF SessionTypeOK, BufferTypeOK
<1>2. /\ buffer' = [buffer EXCEPT ![out] = NULL] /\ adding' = adding
      /\ result[Consumer] = NULL /\ result'[Consumer] = v
  BY DEF Remove, ThreadsInStep, PrinterInStep, SessionTypeOK, BufferTypeOK
<1>3. ASSUME NEW q \in Producers
      PROVE  (owed[q] = Cardinality(Held(q))
                        + (IF adding[q] = q THEN 1 ELSE 0)
                        + (IF result[Consumer] = q THEN 1 ELSE 0))'
  <2>1. owed[q] = Cardinality(Held(q))
                  + (IF adding[q] = q THEN 1 ELSE 0)
                  + (IF result[Consumer] = q THEN 1 ELSE 0)
    BY DEF Conservation
  <2>2. CASE q = v
    <3>1. out \in Held(q) /\ Held(q)' = Held(q) \ {out}
      BY <1>1, <1>2, <2>2 DEF Held, SessionTypeOK, BufferTypeOK
    <3>2. Cardinality(Held(q)') = Cardinality(Held(q)) - 1
      BY <3>1, HeldFinite, Shrinks
    <3> QED
      BY <1>1, <1>2, <2>1, <2>2, <3>2, HeldFinite
  <2>3. CASE q # v
    <3>1. Held(q)' = Held(q)
      BY <1>1, <1>2, <2>3 DEF Held, SessionTypeOK, BufferTypeOK
    <3> QED
      BY <1>2, <2>1, <2>3, <3>1
  <2> QED
    BY <2>2, <2>3
<1> QED
  BY <1>3 DEF Conservation

(* A step of a scan moves a datapoint from one place to another.             *)
LEMMA ConservationKept ==
  SessionInv /\ Conservation /\ [SessionNext]_vars => Conservation'
<1> USE BufferAssumption, EveryoneIsData
<1> SUFFICES ASSUME SessionInv, Conservation, [SessionNext]_vars
             PROVE  Conservation'
  OBVIOUS
<1> USE DEF SessionInv
<1>1. ASSUME UNCHANGED <<buffer, adding, owed>>, result'[Consumer] = result[Consumer]
      PROVE  Conservation'
  BY <1>1 DEF Conservation, Held
<1>2. CASE MainStep
  BY <1>1, <1>2 DEF MainStep, SetUp, PublishState, CreateProducer, CreateConsumer,
                    CreateConsumerFails, TimerDone, JoinProducers, JoinConsumer,
                    bufferVars, ringVars
<1>3. ASSUME NEW p \in Producers, PullScan(p)
      PROVE  Conservation'
  <2>1. /\ buffer' = buffer /\ result' = result /\ adding[p] = NULL
        /\ adding' = [adding EXCEPT ![p] = p]
        /\ owed' = [owed EXCEPT ![p] = @ + 1]
    BY <1>3 DEF PullScan, BeginAdd, ringVars
  <2>2. ASSUME NEW q \in Producers
        PROVE  (owed[q] = Cardinality(Held(q))
                          + (IF adding[q] = q THEN 1 ELSE 0)
                          + (IF result[Consumer] = q THEN 1 ELSE 0))'
    <3>1. owed[q] = Cardinality(Held(q))
                    + (IF adding[q] = q THEN 1 ELSE 0)
                    + (IF result[Consumer] = q THEN 1 ELSE 0)
      BY DEF Conservation
    <3>2. Held(q)' = Held(q) /\ Cardinality(Held(q)) \in Nat
      BY <2>1, HeldFinite DEF Held
    <3>3. /\ owed'[q] = IF q = p THEN owed[q] + 1 ELSE owed[q]
          /\ adding'[q] = IF q = p THEN p ELSE adding[q]
      BY <2>1 DEF SessionTypeOK, BufferTypeOK
    <3> QED
      BY <2>1, <3>1, <3>2, <3>3
  <2> QED
    BY <2>2 DEF Conservation
<1>4. ASSUME NEW p \in Producers, ProducerAdds(p)
      PROVE  Conservation'
  <2>1. CASE Store(p)
    BY <1>4, <2>1, StoreConserves DEF ProducerAdds
  <2>2. CASE WaitForRoom(p)
    BY <1>1, <1>4, <2>2 DEF ProducerAdds, WaitForRoom, ringVars
  <2> QED
    BY <1>4, <2>1, <2>2 DEF ProducerAdds, AddBuff
<1>5. ASSUME NEW p \in Producers,
             PullFails(p) \/ FinishScans(p) \/ CheckState(p) \/ ExitSweeps(p)
      PROVE  Conservation'
  BY <1>1, <1>5 DEF PullFails, FinishScans, CheckState, ExitSweeps, SetComplete,
                    bufferVars, ringVars
<1>6. CASE ConsumerTakes
  BY <1>1, <1>6 DEF ConsumerTakes, BeginTake, ringVars
<1>7. CASE ConsumerInTakeBuff
  <2>1. CASE Remove(Consumer)
    BY <1>7, <2>1, RemoveConserves DEF ConsumerInTakeBuff
  <2>2. CASE ReturnNull(Consumer)
    <3>1. result'[Consumer] = result[Consumer]
      BY <2>2 DEF ReturnNull, ThreadsInStep, PrinterInStep, SessionTypeOK, BufferTypeOK
    <3> QED
      BY <1>1, <1>7, <2>2, <3>1 DEF ConsumerInTakeBuff, ReturnNull, ringVars
  <2>3. CASE WaitForDatapoint(Consumer)
    BY <1>1, <1>7, <2>3 DEF ConsumerInTakeBuff, WaitForDatapoint, ringVars
  <2> QED
    BY <1>7, <2>1, <2>2, <2>3 DEF ConsumerInTakeBuff, TakeBuff
<1>8. CASE PrintDatapoint
  <2> DEFINE v == result[Consumer]
  <2>1. /\ v \in Producers /\ buffer' = buffer /\ adding' = adding
        /\ result'[Consumer] = NULL
        /\ owed' = [owed EXCEPT ![v] = @ - 1]
    BY <1>8 DEF PrintDatapoint, Collect, ringVars, SessionTypeOK, BufferTypeOK
  <2>2. ASSUME NEW q \in Producers
        PROVE  (owed[q] = Cardinality(Held(q))
                          + (IF adding[q] = q THEN 1 ELSE 0)
                          + (IF result[Consumer] = q THEN 1 ELSE 0))'
    <3>1. owed[q] = Cardinality(Held(q))
                    + (IF adding[q] = q THEN 1 ELSE 0)
                    + (IF v = q THEN 1 ELSE 0)
      BY DEF Conservation
    <3>2. Held(q)' = Held(q) /\ Cardinality(Held(q)) \in Nat
      BY <2>1, HeldFinite DEF Held
    <3>3. owed'[q] = IF q = v THEN owed[q] - 1 ELSE owed[q]
      BY <2>1 DEF SessionTypeOK
    <3> QED
      BY <2>1, <3>1, <3>2, <3>3
  <2> QED
    BY <2>2 DEF Conservation
<1>9. CASE ConsumerExits
  <2>1. result'[Consumer] = result[Consumer]
    BY <1>9 DEF ConsumerExits, Collect, bufferVars, SessionTypeOK, BufferTypeOK
  <2> QED
    BY <1>1, <1>9, <2>1 DEF ConsumerExits, Collect, bufferVars, ringVars
<1>10. CASE StopSweep \/ DestroyScan
  BY <1>1, <1>10 DEF StopSweep, DestroyScan, bufferVars, ringVars
<1>11. CASE SpuriousWakeup /\ UNCHANGED <<threadVars, owed>>
  BY <1>1, <1>11 DEF SpuriousWakeup, ringVars
<1>12. CASE UNCHANGED vars
  BY <1>1, <1>12 DEF vars, bufferVars, ringVars
<1> QED
  BY <1>2, <1>3, <1>4, <1>5, <1>6, <1>7, <1>8, <1>9, <1>10, <1>11, <1>12
     DEF SessionNext, ProducerStep, ConsumerStep

(* At first there is no datapoint anywhere.                                  *)
LEMMA ConservationStarts == SessionInit => Conservation
<1> USE BufferAssumption, EveryoneIsData
<1> SUFFICES ASSUME SessionInit, NEW p \in Producers
             PROVE  owed[p] = Cardinality(Held(p))
                              + (IF adding[p] = p THEN 1 ELSE 0)
                              + (IF result[Consumer] = p THEN 1 ELSE 0)
  BY DEF Conservation
<1>1. Held(p) = {}
  BY DEF SessionInit, BufferInit, Held
<1>2. Cardinality(Held(p)) = 0
  BY <1>1, FS_EmptySet
<1>3. owed[p] = 0 /\ adding[p] = NULL /\ result[Consumer] = NULL
  BY DEF SessionInit, BufferInit
<1> QED
  BY <1>2, <1>3

(* No datapoint is lost, overwritten or printed twice.                       *)
THEOREM DatapointsConserved == SessionSpec => []Conservation
<1>1. SessionInit => Conservation
  BY ConservationStarts
<1>2. SessionInv /\ Conservation /\ [SessionNext]_vars => Conservation'
  BY ConservationKept
<1> QED
  BY <1>1, <1>2, SessionInvariant, PTL DEF SessionSpec

------------------------------------------------------------------------------
(* An empty ring holds nobody's datapoint.                                   *)
LEMMA EmptyHoldsNothing ==
  ASSUME SessionInv, count = 0, NEW p \in Producers
  PROVE  Cardinality(Held(p)) = 0
<1> USE BufferAssumption, EveryoneIsData
<1>1. ASSUME NEW i \in Slots
      PROVE  buffer[i] = NULL
  <2> DEFINE k == IF i >= out THEN i - out ELSE i - out + N
  <2>1. out \in Slots
    BY DEF SessionInv, SessionTypeOK, BufferTypeOK
  <2>2. k \in 0 .. N-1 /\ SlotOf(k) = i
    BY <2>1 DEF SlotOf, Slots
  <2> HIDE DEF k
  <2> QED
    BY <2>2 DEF SessionInv, RingConsistent
<1>2. Held(p) = {}
  BY <1>1 DEF Held
<1> QED
  BY <1>2, FS_EmptySet

(* When the printing thread leaves before a stop, everything is printed.     *)
LEMMA NothingLeftKept ==
  SessionInv /\ Conservation /\ NothingLeftBehind /\ [SessionNext]_vars
  => NothingLeftBehind'
<1> USE BufferAssumption, EveryoneIsData
<1> SUFFICES ASSUME SessionInv, Conservation, NothingLeftBehind, [SessionNext]_vars,
                    consPc' = "done", cmdPc' = "idle"
             PROVE  Unfinished' = {} /\ \A p \in Producers : owed'[p] = 0
  BY DEF NothingLeftBehind
<1>1. CASE ConsumerExits
  <2>1. complete /\ count = 0 /\ cmdPc = "idle" /\ result[Consumer] = NULL
    <3>1. cmdPc = "idle"
      BY <1>1 DEF ConsumerExits
    <3>2. CASE taking[Consumer] = "idle" /\ ~MoreToTake
      BY <3>1, <3>2 DEF MoreToTake, SessionInv, ThreadsInStep, PrinterInStep
    <3>3. CASE result[Consumer] = NULL /\ Collect(Consumer)
      BY <3>1, <3>3 DEF Collect, SessionInv, ThreadsInStep, PrinterInStep
    <3> QED
      BY <1>1, <3>1, <3>2, <3>3 DEF ConsumerExits
  <2>2. Unfinished = {}
    BY <2>1 DEF SessionInv, CompleteMeansDone
  <2>3. ASSUME NEW p \in Producers PROVE owed[p] = 0
    BY <2>1, CompleteStopsAdding, EmptyHoldsNothing DEF Conservation
  <2> QED
    BY <1>1, <2>2, <2>3 DEF ConsumerExits, Unfinished
<1>2. CASE ~ConsumerExits
  <2>1. consPc = "done" /\ cmdPc = "idle"
    BY <1>2 DEF SessionNext, MainStep, SetUp, PublishState, CreateProducer,
         CreateConsumer, CreateConsumerFails, TimerDone, JoinProducers, JoinConsumer,
         ProducerStep, PullScan, PullFails, ProducerAdds, FinishScans, CheckState,
         ExitSweeps, ConsumerStep, ConsumerTakes, ConsumerInTakeBuff, PrintDatapoint,
         StopSweep, DestroyScan, threadVars, vars
  <2>2. Unfinished = {} /\ \A p \in Producers : owed[p] = 0
    BY <2>1 DEF NothingLeftBehind
  <2>3. \A p \in Producers : prodPc[p] = "done"
    BY <2>2 DEF Unfinished
  <2>4. prodPc' = prodPc /\ owed' = owed
    BY <1>2, <2>1, <2>3 DEF SessionNext, MainStep, SetUp, PublishState, CreateProducer,
         CreateConsumer, CreateConsumerFails, TimerDone, JoinProducers, JoinConsumer,
         ProducerStep, PullScan, PullFails, ProducerAdds, FinishScans, CheckState,
         ExitSweeps, Reading, ConsumerStep, ConsumerTakes, ConsumerInTakeBuff,
         PrintDatapoint, StopSweep, DestroyScan, threadVars, vars
  <2> QED
    BY <2>2, <2>4 DEF Unfinished
<1> QED
  BY <1>1, <1>2

(* Until a stop, the printing thread leaves only when everything is printed. *)
THEOREM NothingEverLeftBehind == SessionSpec => []NothingLeftBehind
<1>1. SessionInit => NothingLeftBehind
  BY DEF SessionInit, NothingLeftBehind
<1>2. SessionInv /\ Conservation /\ NothingLeftBehind /\ [SessionNext]_vars
        => NothingLeftBehind'
  BY NothingLeftKept
<1> QED
  BY <1>1, <1>2, SessionInvariant, DatapointsConserved, PTL DEF SessionSpec

------------------------------------------------------------------------------
(* The scan and its slot of the scan table.                                  *)

(* What the slot sees of a step that changes nothing of what it sees.        *)
LEMMA SlotStutters ==
  ASSUME UNCHANGED <<scanState, MainThread, mode, InLoop, cmdPc>>,
         UNCHANGED (mode = "TIME" /\ mainPc \in {"spawn", "timer"})
  PROVE  UNCHANGED Slot!slotVars
<1> DEFINE sleeps == mode = "TIME" /\ mainPc \in {"spawn", "timer"}
<1>1. SlotGivenBack' = SlotGivenBack
  BY DEF SlotGivenBack
<1>2. sleeps' = sleeps
  OBVIOUS
<1> QED
  BY <1>1, <1>2 DEF Slot!slotVars, Slot!scanVars, InSlot

(* The steps of the slot, in terms of the scan.                              *)
LEMMA SlotBegins ==
  ASSUME mainPc = "publish", ~SlotGivenBack, scanState' = NbrVnas, mainPc' = "spawn",
         UNCHANGED <<mode, prodPc, cmdPc>>
  PROVE  Slot!ScanBegins(0)
<1>1. ~SlotGivenBack' /\ InLoop' = InLoop /\ NbrVnas' = NbrVnas
  BY DEF SlotGivenBack, InLoop, NbrVnas
<1>2. MainThread = "starting" /\ MainThread' = "running"
  BY DEF MainThread
<1> QED
  BY <1>1, <1>2 DEF Slot!ScanBegins, InSlot

LEMMA SlotFails ==
  ASSUME mainPc \in {"setup", "publish"}, "malloc" \in Faults, ~SlotGivenBack,
         mainPc' = "returned", UNCHANGED <<scanState, mode, prodPc, cmdPc>>
  PROVE  Slot!ScanBegins(0)
<1>1. ~SlotGivenBack' /\ InLoop' = InLoop /\ NbrVnas' = NbrVnas
  BY DEF SlotGivenBack, InLoop, NbrVnas
<1>2. MainThread = "starting" /\ MainThread' = "returned"
  BY <1>1 DEF MainThread
<1> QED
  BY <1>1, <1>2 DEF Slot!ScanBegins, InSlot

LEMMA SlotReaderFinishes ==
  ASSUME MainThread = "running", ~SlotGivenBack, mode = "NUM_SWEEPS",
         NEW n \in Nat, Cardinality(InLoop) = n + 1, Cardinality(InLoop)' = n,
         scanState' = scanState - 1, UNCHANGED <<mainPc, mode, cmdPc>>
  PROVE  Slot!ReaderFinishes(0)
<1>1. ~SlotGivenBack' /\ MainThread' = MainThread /\ NbrVnas' = NbrVnas
  BY DEF SlotGivenBack, MainThread, NbrVnas
<1>2. n + 1 > 0 /\ (n + 1) - 1 = n
  OBVIOUS
<1> QED
  BY <1>1, <1>2 DEF Slot!ReaderFinishes, InSlot

LEMMA SlotReaderLeaves ==
  ASSUME MainThread = "running", ~SlotGivenBack, mode # "NUM_SWEEPS", scanState <= 0,
         NEW n \in Nat, Cardinality(InLoop) = n + 1, Cardinality(InLoop)' = n,
         UNCHANGED <<scanState, mainPc, mode, cmdPc>>
  PROVE  Slot!ReaderLeaves(0)
<1>1. ~SlotGivenBack' /\ MainThread' = MainThread /\ NbrVnas' = NbrVnas
  BY DEF SlotGivenBack, MainThread, NbrVnas
<1>2. n + 1 > 0 /\ (n + 1) - 1 = n
  OBVIOUS
<1> QED
  BY <1>1, <1>2 DEF Slot!ReaderLeaves, InSlot

LEMMA SlotTimerDone ==
  ASSUME mainPc = "timer", mode = "TIME", ~SlotGivenBack, mainPc' = "join",
         scanState' = NbrVnas, UNCHANGED <<mode, prodPc, cmdPc>>
  PROVE  Slot!TimerDone(0)
<1>1. ~SlotGivenBack' /\ InLoop' = InLoop /\ NbrVnas' = NbrVnas
  BY DEF SlotGivenBack, InLoop, NbrVnas
<1>2. MainThread = "running" /\ MainThread' = "running"
  BY DEF MainThread
<1> QED
  BY <1>1, <1>2 DEF Slot!TimerDone, InSlot

LEMMA SlotReturns ==
  ASSUME mainPc = "joinConsumer", ~SlotGivenBack, mainPc' = "returned",
         Cardinality(InLoop) = 0, UNCHANGED <<scanState, mode, prodPc, cmdPc>>
  PROVE  Slot!ScanReturns(0)
<1>1. ~SlotGivenBack' /\ InLoop' = InLoop /\ NbrVnas' = NbrVnas
  BY DEF SlotGivenBack, InLoop, NbrVnas
<1>2. MainThread = "running" /\ MainThread' = "returned"
  BY <1>1 DEF MainThread
<1> QED
  BY <1>1, <1>2 DEF Slot!ScanReturns, Slot!scanVars, InSlot

LEMMA SlotIsStopped ==
  ASSUME StopSweep
  PROVE  Slot!BeginStop(0)
<1>1. ~SlotGivenBack /\ ~SlotGivenBack' /\ InLoop' = InLoop /\ NbrVnas' = NbrVnas
  BY DEF StopSweep, SlotGivenBack, InLoop, NbrVnas
<1>2. MainThread' = MainThread
  BY <1>1 DEF StopSweep, MainThread
<1> QED
  BY <1>1, <1>2
     DEF StopSweep, Slot!BeginStop, Slot!Vacant, Slot!scanVars, InSlot

LEMMA SlotIsGivenBack ==
  ASSUME DestroyScan
  PROVE  Slot!EndStop(0)
<1>1. ~SlotGivenBack /\ SlotGivenBack'
  BY DEF DestroyScan, SlotGivenBack
<1>2. MainThread = "returned" /\ MainThread' = "none"
  BY <1>1 DEF DestroyScan, MainThread
<1>3. scanState' = -1 /\ cmdPc = "joining" /\ cmdPc' # "joining"
  BY DEF DestroyScan
<1>4. Slot!ForgetScan(0)
  BY <1>1 DEF Slot!ForgetScan, InSlot
<1>5. Slot!Joined(0)
  BY <1>2 DEF Slot!Joined
<1>6. [i \in {0} |-> MainThread]'
        = [[i \in {0} |-> MainThread] EXCEPT ![0] = IF @ = "returned" THEN "none" ELSE @]
  BY <1>2
<1>7. [i \in {0} |-> scanState]' = [[i \in {0} |-> scanState] EXCEPT ![0] = -1]
  BY <1>3
<1>8. (IF SlotGivenBack THEN 0 ELSE 1)' = Slot!OneOngoingLess
  BY <1>1 DEF Slot!OneOngoingLess
<1> QED
  BY <1>3, <1>4, <1>5, <1>6, <1>7, <1>8 DEF Slot!EndStop

(* A scan that is over is returned from: by its main thread before there was *)
(* a reader, or with the buffer destroyed.                                   *)
ReturnInStep ==
  /\ cmdPc = "stopped" => mainPc = "returned"
  /\ mainPc = "returned" /\ ~freed => \A p \in Producers : prodPc[p] = "none"

LEMMA ReturnStaysInStep ==
  ASSUME SessionInv, ReturnInStep, [SessionNext]_vars
  PROVE  ReturnInStep'
<1> USE DEF ReturnInStep, SessionInv, ThreadsInStep, MainInStep
<1>1. CASE SetUp
  BY <1>1 DEF SetUp
<1>2. CASE PublishState
  BY <1>2 DEF PublishState
<1>3. ASSUME NEW p \in Producers, CreateProducer(p)
      PROVE  ReturnInStep'
  BY <1>3 DEF CreateProducer
<1>4. CASE CreateConsumer
  BY <1>4 DEF CreateConsumer
<1>5. CASE CreateConsumerFails
  BY <1>5 DEF CreateConsumerFails
<1>6. CASE TimerDone
  BY <1>6 DEF TimerDone
<1>7. CASE JoinProducers
  BY <1>7 DEF JoinProducers
<1>8. CASE JoinConsumer
  BY <1>8 DEF JoinConsumer
<1>9. ASSUME NEW p \in Producers,
             FinishScans(p) \/ CheckState(p) \/ ExitSweeps(p)
      PROVE  ReturnInStep'
  <2>1. prodPc[p] # "none" /\ UNCHANGED <<mainPc, cmdPc, freed>>
    BY <1>9 DEF FinishScans, CheckState, ExitSweeps, Reading
  <2> QED
    BY <2>1
<1>10. CASE StopSweep
  BY <1>10 DEF StopSweep
<1>11. CASE DestroyScan
  BY <1>11 DEF DestroyScan
<1>12. CASE UNCHANGED <<mainPc, prodPc, cmdPc, freed>>
  BY <1>12
<1> QED
  BY <1>1, <1>2, <1>3, <1>4, <1>5, <1>6, <1>7, <1>8, <1>9, <1>10, <1>11, <1>12
     DEF SessionNext, MainStep, ProducerStep, ConsumerStep, PullScan, PullFails,
         ProducerAdds, ConsumerTakes, ConsumerInTakeBuff, PrintDatapoint, ConsumerExits,
         threadVars, vars

(* A reader takes steps only while the main thread is under way.             *)
LEMMA ReaderNeedsMain ==
  ASSUME SessionInv, FreedWhenQuiet, ReturnInStep, AllCreated,
         NEW p \in Producers, prodPc[p] \in {"run", "exit"}
  PROVE  MainThread = "running" /\ ~SlotGivenBack
<1>1. mainPc \notin {"setup", "publish"}
  BY DEF SessionInv, ThreadsInStep, MainInStep
<1>2. mainPc # "returned"
  <2>1. CASE freed
    BY <2>1 DEF AllCreated, FreedWhenQuiet
  <2>2. CASE ~freed
    BY <2>2 DEF ReturnInStep
  <2> QED
    BY <2>1, <2>2
<1> QED
  BY <1>1, <1>2 DEF MainThread, SlotGivenBack, ReturnInStep

(* A reader that leaves its loop is one less.                                *)
LEMMA ReaderLeavesLoop ==
  ASSUME SessionTypeOK, NEW p \in Producers, prodPc[p] = "run",
         NEW s \in {"exit", "done"}, prodPc' = [prodPc EXCEPT ![p] = s]
  PROVE  /\ Cardinality(InLoop)' \in Nat
         /\ Cardinality(InLoop) = Cardinality(InLoop)' + 1
<1>1. IsFiniteSet(InLoop)
  <2>1. InLoop \in SUBSET Producers
    BY DEF InLoop
  <2> QED
    BY <2>1, BufferAssumption, FS_Subset
<1>2. p \in InLoop
  BY DEF InLoop
<1>3. InLoop' = InLoop \ {p}
  BY DEF InLoop, SessionTypeOK
<1>4. IsFiniteSet(InLoop \ {p}) /\ Cardinality(InLoop \ {p}) = Cardinality(InLoop) - 1
  BY <1>1, <1>2, FS_RemoveElement
<1>5. Cardinality(InLoop) \in Nat /\ Cardinality(InLoop \ {p}) \in Nat
  BY <1>1, <1>4, FS_CardinalityType
<1>6. Cardinality(InLoop)' = Cardinality(InLoop \ {p})
  BY <1>3
<1> QED
  BY <1>4, <1>5, <1>6

(* A step of a scan is a step of its slot.                                   *)
LEMMA SessionStepImplementsSlot ==
  ASSUME SessionInv, FreedWhenQuiet, ReturnInStep, [SessionNext]_vars, AllCreated'
  PROVE  SlotStep
<1>1. ASSUME UNCHANGED <<scanState, mainPc, mode, prodPc, cmdPc>>
      PROVE  SlotStep
  BY <1>1, SlotStutters DEF MainThread, SlotGivenBack, InLoop, SlotStep
<1>2. CASE SetUp
  <2>1. ~SlotGivenBack /\ UNCHANGED <<scanState, mode, prodPc, cmdPc>>
    BY <1>2 DEF SetUp, SlotGivenBack, ReturnInStep
  <2>2. CASE mainPc' = "publish"
    <3>1. MainThread' = MainThread /\ InLoop' = InLoop
      BY <1>2, <2>1, <2>2 DEF SetUp, MainThread, InLoop
    <3>2. UNCHANGED (mode = "TIME" /\ mainPc \in {"spawn", "timer"})
      BY <1>2, <2>2 DEF SetUp
    <3> QED
      BY <2>1, <3>1, <3>2, SlotStutters DEF SlotStep
  <2>3. CASE "malloc" \in Faults /\ mainPc' = "returned"
    BY <1>2, <2>1, <2>3, SlotFails DEF SetUp, SlotStep, Slot!ScanStep
  <2> QED
    BY <1>2, <2>2, <2>3 DEF SetUp
<1>3. CASE PublishState
  <2>1. ~SlotGivenBack
    BY <1>3 DEF PublishState, SlotGivenBack, ReturnInStep
  <2> QED
    BY <1>3, <2>1, SlotBegins DEF PublishState, SlotStep, Slot!ScanStep
<1>4. ASSUME NEW p \in Producers, CreateProducer(p)
      PROVE  SlotStep
  <2>1. prodPc' = [prodPc EXCEPT ![p] = "run"]
    BY <1>4 DEF CreateProducer, AllCreated, SessionInv, SessionTypeOK
  <2>2. InLoop' = InLoop
    BY <1>4, <2>1 DEF CreateProducer, InLoop, SessionInv, SessionTypeOK
  <2>3. UNCHANGED <<scanState, mainPc, mode, cmdPc>>
    BY <1>4 DEF CreateProducer
  <2> QED
    BY <2>2, <2>3, SlotStutters DEF MainThread, SlotGivenBack, SlotStep
<1>5. CASE CreateConsumer
  <2>1. UNCHANGED <<scanState, mode, prodPc, cmdPc>>
    BY <1>5 DEF CreateConsumer
  <2>2. MainThread' = MainThread /\ InLoop' = InLoop
    BY <1>5, <2>1 DEF CreateConsumer, MainThread, InLoop
  <2>3. UNCHANGED (mode = "TIME" /\ mainPc \in {"spawn", "timer"})
    BY <1>5, <2>1 DEF CreateConsumer
  <2> QED
    BY <2>1, <2>2, <2>3, SlotStutters DEF SlotStep
<1>6. CASE CreateConsumerFails
  BY <1>6 DEF CreateConsumerFails, AllCreated, SessionInv, ThreadsInStep, MainInStep
<1>7. CASE TimerDone
  <2>1. ~SlotGivenBack /\ mode = "TIME"
    BY <1>7 DEF TimerDone, SlotGivenBack, ReturnInStep, SessionInv, ThreadsInStep, MainInStep
  <2> QED
    BY <1>7, <2>1, SlotTimerDone DEF TimerDone, SlotStep, Slot!ScanStep
<1>8. CASE JoinProducers
  <2>1. mainPc' = "joinConsumer" /\ UNCHANGED <<scanState, mode, prodPc, cmdPc>>
    BY <1>8 DEF JoinProducers, AllCreated
  <2>2. MainThread' = MainThread /\ InLoop' = InLoop
    BY <1>8, <2>1 DEF JoinProducers, MainThread, InLoop
  <2>3. UNCHANGED (mode = "TIME" /\ mainPc \in {"spawn", "timer"})
    BY <1>8, <2>1 DEF JoinProducers
  <2> QED
    BY <2>1, <2>2, <2>3, SlotStutters DEF SlotStep
<1>9. CASE JoinConsumer
  <2>1. ~SlotGivenBack
    BY <1>9 DEF JoinConsumer, SlotGivenBack, ReturnInStep
  <2>2. InLoop = {}
    BY <1>9 DEF JoinConsumer, AllCreated, InLoop, SessionInv, ThreadsInStep, MainInStep,
                ReadersOver
  <2>3. Cardinality(InLoop) = 0
    BY <2>2, FS_EmptySet
  <2> QED
    BY <1>9, <2>1, <2>3, SlotReturns DEF JoinConsumer, SlotStep, Slot!ScanStep
<1>10. ASSUME NEW p \in Producers, FinishScans(p)
       PROVE  SlotStep
  <2>1. /\ prodPc[p] = "run" /\ mode = "NUM_SWEEPS" /\ scanState' = scanState - 1
        /\ prodPc' = [prodPc EXCEPT ![p] = "done"]
        /\ UNCHANGED <<mainPc, mode, cmdPc>>
    BY <1>10 DEF FinishScans, Reading
  <2>2. AllCreated
    BY <1>10, <2>1 DEF FinishScans, AllCreated, SessionInv, SessionTypeOK
  <2>3. MainThread = "running" /\ ~SlotGivenBack
    BY <2>1, <2>2, ReaderNeedsMain
  <2>4. Cardinality(InLoop)' \in Nat /\ Cardinality(InLoop) = Cardinality(InLoop)' + 1
    BY <2>1, ReaderLeavesLoop DEF SessionInv
  <2>5. Slot!ReaderFinishes(0)
    BY <2>1, <2>3, <2>4, SlotReaderFinishes
  <2> QED
    BY <2>5 DEF SlotStep, Slot!ScanStep
<1>11. ASSUME NEW p \in Producers, CheckState(p)
       PROVE  SlotStep
  <2>1. CASE Active
    BY <1>1, <1>11, <2>1 DEF CheckState
  <2>2. CASE ~Active
    <3>1. /\ prodPc[p] = "run" /\ mode # "NUM_SWEEPS" /\ scanState <= 0
          /\ prodPc' = [prodPc EXCEPT ![p] = "exit"]
          /\ UNCHANGED <<scanState, mainPc, mode, cmdPc>>
      BY <1>11, <2>2 DEF CheckState, Reading, Active, SessionInv, SessionTypeOK
    <3>2. AllCreated
      BY <1>11, <3>1 DEF CheckState, AllCreated, SessionInv, SessionTypeOK
    <3>3. MainThread = "running" /\ ~SlotGivenBack
      BY <3>1, <3>2, ReaderNeedsMain
    <3>4. Cardinality(InLoop)' \in Nat /\ Cardinality(InLoop) = Cardinality(InLoop)' + 1
      BY <3>1, ReaderLeavesLoop DEF SessionInv
    <3>5. Slot!ReaderLeaves(0)
      BY <3>1, <3>3, <3>4, SlotReaderLeaves
    <3> QED
      BY <3>5 DEF SlotStep, Slot!ScanStep
  <2> QED
    BY <2>1, <2>2
<1>12. ASSUME NEW p \in Producers, ExitSweeps(p)
       PROVE  SlotStep
  <2>1. InLoop' = InLoop
    BY <1>12 DEF ExitSweeps, InLoop, SessionInv, SessionTypeOK
  <2>2. UNCHANGED <<scanState, mainPc, mode, cmdPc>>
    BY <1>12 DEF ExitSweeps
  <2> QED
    BY <2>1, <2>2, SlotStutters DEF MainThread, SlotGivenBack, SlotStep
<1>13. CASE StopSweep
  BY <1>13, SlotIsStopped DEF SlotStep
<1>14. CASE DestroyScan
  BY <1>14, SlotIsGivenBack DEF SlotStep
<1> QED
  BY <1>1, <1>2, <1>3, <1>4, <1>5, <1>6, <1>7, <1>8, <1>9, <1>10, <1>11, <1>12, <1>13,
     <1>14
     DEF SessionNext, MainStep, ProducerStep, ConsumerStep, PullScan, PullFails,
         ProducerAdds, ConsumerTakes, ConsumerInTakeBuff, PrintDatapoint, ConsumerExits,
         threadVars, vars

(* As long as its threads can be created, a scan does to its slot of the     *)
(* scan table what the table says a scan does, and nothing else              *)
(* (run_sweep, the readers, stop_sweep and destroy_scan against ScanTable).  *)
THEOREM SessionImplementsSlot == SessionSpec => ImplementsSlot
<1>1. SessionInit => ReturnInStep
  BY DEF SessionInit, ReturnInStep
<1>2. SessionInv /\ ReturnInStep /\ [SessionNext]_vars => ReturnInStep'
  BY ReturnStaysInStep
<1>3. SessionInv /\ FreedWhenQuiet /\ ReturnInStep /\ [SessionNext]_vars
        => [AllCreated' => SlotStep]_vars
  BY SessionStepImplementsSlot
<1>4. SessionInit => SlotStarted
  <2> SUFFICES ASSUME SessionInit PROVE SlotStarted
    OBVIOUS
  <2>1. InLoop = Producers
    BY DEF SessionInit, InLoop
  <2> QED
    BY <2>1 DEF SessionInit, SlotStarted, MainThread, NbrVnas
<1> QED
  BY <1>1, <1>2, <1>3, <1>4, SessionInvariant, BufferFreedWhenQuiet, PTL
     DEF SessionSpec, ImplementsSlot

------------------------------------------------------------------------------
(* A scan and its caller *)

(* What is shown of a scan above.                                            *)
ScanSafe ==
  SessionInv /\ Conservation /\ FreedWhenQuiet /\ NothingLeftBehind

NoReaderYet == \A p \in Producers : prodPc[p] = "none"

(* Every reader has ended, nothing is left to be added, and when the         *)
(* printing thread has gone everything is printed.                           *)
PrintsTheRest ==
  /\ \A p \in Producers : prodPc[p] = "done"
  /\ taking[Consumer] = "returned" /\ result[Consumer] = NULL => complete /\ count = 0
  /\ consPc = "done" => \A p \in Producers : owed[p] = 0

(* How a NUM_SWEEPS scan that main believes to be over really stands: it     *)
(* never began, failed before it had a reader, or has none left.             *)
Over ==
  \/ begun # "yes"
  \/ mainPc = "returned" /\ consPc = "none" /\ NoReaderYet
  \/ PrintsTheRest

Stopping == {"stop", "join", "teardown", "exited"}

DriverInv ==
  /\ drv \in Stopping \cup {"none", "arguments", "poll", "sleep", "failed", "crashed"}
  /\ begun \in {"not yet", "yes", "no scan", "no thread"}
  /\ caller # "driver" => drv = "none"
  /\ drv = "arguments" => begun = "not yet"
  /\ begun # "yes" => mainPc = "setup"
  /\ drv \in {"arguments", "poll", "sleep", "stop"} => cmdPc = "idle" /\ caller = "driver"
  /\ drv = "sleep" => mode = "TIME"
  /\ drv = "teardown" \/ drv = "exited" => begun # "yes" \/ mainPc = "returned"
  /\ consPc # "none" => ~NoReaderYet
  /\ mainPc = "returned" => consPc \in {"none", "done"}
  /\ mode = "NUM_SWEEPS" /\ drv \in Stopping /\ ~early => Over

BatchInv == ScanSafe /\ DriverInv

------------------------------------------------------------------------------
(* The scan *)

LEMMA ScanSafeStarts == SessionInit => ScanSafe
<1> SUFFICES ASSUME SessionInit PROVE ScanSafe
  OBVIOUS
<1>1. BufferTypeOK /\ RingConsistent
  BY BufferTypesStart, RingStarts DEF SessionInit
<1>2. SessionInv
  BY <1>1, SessionTypesStart, SessionInvStarts DEF SessionInv
<1>3. FreedWhenQuiet /\ NothingLeftBehind
  BY DEF SessionInit, FreedWhenQuiet, NothingLeftBehind
<1> QED
  BY <1>2, <1>3, ConservationStarts DEF ScanSafe

LEMMA ScanStepSafe == ScanSafe /\ [SessionNext]_vars => ScanSafe'
<1> SUFFICES ASSUME ScanSafe, [SessionNext]_vars PROVE ScanSafe'
  OBVIOUS
<1> USE DEF ScanSafe
<1>1. BufferTypeOK /\ RingConsistent /\ [BufferNext]_bufferVars
  BY SessionStepUsesBuffer DEF SessionInv, SessionTypeOK
<1>2. BufferTypeOK' /\ RingConsistent'
  BY <1>1, BufferTypesKept, RingKept
<1>3. SessionTypeOK'
  BY <1>2, SessionTypesKept DEF SessionInv
<1>4. SessionInv'
  BY <1>2, <1>3, SessionPartsKept DEF SessionInv
<1> QED
  BY <1>4, ConservationKept, FreedKept, NothingLeftKept

(* The join of no thread is not a step of a scan, but there is no scan.      *)
LEMMA NoThreadSafe ==
  ASSUME ScanSafe, cmdPc' = "stopped", scanState' = -1,
         UNCHANGED <<bufferVars, mode, mainPc, prodPc, left, consPc, freed, owed>>
  PROVE  ScanSafe'
<1> USE DEF ScanSafe
<1>1. BufferTypeOK' /\ RingConsistent'
  BY DEF SessionInv, SessionTypeOK, BufferTypeOK, RingConsistent, SlotOf, bufferVars,
     ringVars
<1>2. SessionTypeOK'
  BY <1>1 DEF SessionInv, SessionTypeOK
<1>3. ThreadsInStep'
  BY DEF SessionInv, ThreadsInStep, MainInStep, ReadersInStep, PrinterInStep,
     ReadersOver, bufferVars, ringVars
<1>4. StateTellsProgress' /\ CompleteMeansDone' /\ NothingLeftBehind'
  BY DEF StateTellsProgress, CompleteMeansDone, NothingLeftBehind
<1>5. Conservation' /\ FreedWhenQuiet'
  BY DEF Conservation, Held, FreedWhenQuiet, bufferVars, ringVars
<1> QED
  BY <1>1, <1>2, <1>3, <1>4, <1>5 DEF SessionInv

LEMMA BatchStepSafe == ScanSafe /\ [BatchNext]_batchVars => ScanSafe'
<1> SUFFICES ASSUME ScanSafe, [BatchNext]_batchVars PROVE ScanSafe'
  OBVIOUS
<1>1. CASE JoinOfNoThread
  BY <1>1, NoThreadSafe, ScanStepSafe DEF JoinOfNoThread, vars, threadVars
<1>2. CASE ~JoinOfNoThread
  <2>1. [SessionNext]_vars
    BY <1>2 DEF BatchNext, InScan, UserStops, SessionNext, DriverStep, MainReturns,
       NothingToScan, StartScan, PollFindsIdle, SleepIsOver, DriverStops, StopOfNoScan,
       DriverJoins, TearDown, batchVars
  <2> QED
    BY <2>1, ScanStepSafe
<1> QED
  BY <1>1, <1>2

------------------------------------------------------------------------------
(* The caller *)

(* At first there is a caller, and no reader.                                *)
LEMMA DriverStarts == BatchInit => DriverInv
<1> SUFFICES ASSUME BatchInit PROVE DriverInv
  OBVIOUS
<1>1. mainPc = "setup" /\ consPc = "none" /\ cmdPc = "idle"
  BY DEF BatchInit, SessionInit
<1>2. CASE caller = "driver"
  BY <1>1, <1>2 DEF BatchInit, DriverInv, Stopping
<1>3. CASE caller # "driver"
  BY <1>1, <1>3 DEF BatchInit, DriverInv, Stopping
<1> QED
  BY <1>2, <1>3

(* Nobody owes anything once the ring is empty and all readers have ended.   *)
LEMMA NothingOwed ==
  ASSUME ScanSafe, count = 0, result[Consumer] = NULL, NEW p \in Producers,
         prodPc[p] = "done"
  PROVE  owed[p] = 0
<1>1. p # NULL /\ adding[p] = NULL
  BY EveryoneIsData DEF ScanSafe, SessionInv, ThreadsInStep, ReadersInStep
<1>2. Cardinality(Held(p)) = 0
  BY EmptyHoldsNothing DEF ScanSafe
<1> QED
  BY <1>1, <1>2 DEF ScanSafe, Conservation

(* What the threads of the scan do leaves an ended scan ended: whatever is   *)
(* still in the ring is printed.                                             *)
LEMMA RestIsPrinted ==
  ASSUME ScanSafe, PrintsTheRest, [SessionNext]_vars
  PROVE  PrintsTheRest'
<1> USE SessionAssumption, BufferAssumption DEF PrintsTheRest
<1>1. \A p \in Producers : prodPc[p] = "done" /\ adding[p] = NULL
  BY DEF ScanSafe, SessionInv, ThreadsInStep, ReadersInStep
<1>2. ASSUME UNCHANGED <<prodPc, taking, result, count, complete, consPc, owed>>
      PROVE  PrintsTheRest'
  BY <1>2
<1>3. CASE MainStep
  <2>1. ~ \E p \in Producers : CreateProducer(p)
    BY <1>1 DEF CreateProducer
  <2>2. ~CreateConsumer \/ consPc' = "run"
    BY DEF CreateConsumer
  <2>3. UNCHANGED <<prodPc, taking, result, count, complete, owed>>
    BY <1>3, <2>1 DEF MainStep, SetUp, PublishState, CreateConsumer,
       CreateConsumerFails, TimerDone, JoinProducers, JoinConsumer, bufferVars, ringVars
  <2>4. consPc' = "done" => consPc = "done"
    BY <1>3, <2>1 DEF MainStep, SetUp, PublishState, CreateConsumer,
       CreateConsumerFails, TimerDone, JoinProducers, JoinConsumer
  <2> QED
    BY <2>3, <2>4
<1>4. ASSUME NEW p \in Producers PROVE ~ProducerStep(p)
  BY <1>1 DEF ProducerStep, PullScan, PullFails, ProducerAdds, AddBuff, WaitForRoom,
     Store, FinishScans, CheckState, ExitSweeps, Reading
<1>5. CASE ConsumerTakes
  BY <1>5 DEF ConsumerTakes, BeginTake, ringVars, threadVars, ScanSafe, SessionInv,
     SessionTypeOK, BufferTypeOK
<1>6. CASE ConsumerInTakeBuff
  <2>1. CASE ReturnNull(Consumer)
    BY <1>6, <2>1 DEF ConsumerInTakeBuff, ReturnNull, ringVars, threadVars
  <2>2. CASE WaitForDatapoint(Consumer)
    BY <1>6, <2>2 DEF ConsumerInTakeBuff, WaitForDatapoint, ringVars, threadVars
  <2>3. CASE Remove(Consumer)
    <3>1. /\ out \in Slots /\ count \in 0 .. N
          /\ result' = [result EXCEPT ![Consumer] = buffer[out]]
          /\ result \in [Consumers -> Data \cup {NULL}] /\ count # 0
      BY <2>3 DEF Remove, ScanSafe, SessionInv, SessionTypeOK, BufferTypeOK
    <3>2. SlotOf(0) = out /\ 0 \in 0 .. N-1 /\ 0 < count
      BY <3>1 DEF SlotOf, Slots
    <3>3. buffer[out] # NULL
      BY <3>2 DEF ScanSafe, SessionInv, RingConsistent
    <3>4. result'[Consumer] # NULL
      BY <3>1, <3>3
    <3> QED
      BY <1>6, <2>3, <3>4 DEF ConsumerInTakeBuff, Remove, threadVars
  <2> QED
    BY <1>6, <2>1, <2>2, <2>3 DEF ConsumerInTakeBuff, TakeBuff
<1>7. CASE PrintDatapoint
  BY <1>7 DEF PrintDatapoint, Collect, threadVars, ringVars, ScanSafe, SessionInv,
     SessionTypeOK, BufferTypeOK
<1>8. CASE ConsumerExits
  <2>1. count = 0 /\ result[Consumer] = NULL
    BY <1>8 DEF ConsumerExits, MoreToTake, Collect, ScanSafe, SessionInv, ThreadsInStep,
       PrinterInStep
  <2>2. \A p \in Producers : owed[p] = 0
    BY <1>1, <2>1, NothingOwed
  <2>3. taking'[Consumer] # "returned" /\ prodPc' = prodPc /\ owed' = owed
    BY <1>8 DEF ConsumerExits, Collect, bufferVars, ScanSafe, SessionInv, SessionTypeOK,
       BufferTypeOK
  <2> QED
    BY <2>2, <2>3
<1>9. CASE StopSweep \/ DestroyScan
  BY <1>2, <1>9 DEF StopSweep, DestroyScan, bufferVars, ringVars
<1>10. CASE SpuriousWakeup /\ UNCHANGED <<threadVars, owed>>
  BY <1>2, <1>10 DEF SpuriousWakeup, ringVars, threadVars
<1>11. CASE UNCHANGED vars
  BY <1>2, <1>11 DEF vars, bufferVars, ringVars, threadVars
<1> QED
  BY <1>3, <1>4, <1>5, <1>6, <1>7, <1>8, <1>9, <1>10, <1>11 DEF SessionNext,
     ConsumerStep

(* How far a scan has come, after any of its steps.                          *)
LEMMA ScanGoesOn ==
  ASSUME ScanSafe, [SessionNext]_vars, consPc # "none" => ~NoReaderYet,
         mainPc = "returned" => consPc \in {"none", "done"}
  PROVE  /\ mainPc = "returned" => /\ mainPc' = "returned"
                                   /\ consPc = "none" => consPc' = "none"
                                   /\ NoReaderYet => NoReaderYet'
         /\ consPc' # "none" => ~NoReaderYet'
         /\ mainPc' = "returned" => consPc' \in {"none", "done"}
<1> USE SessionAssumption DEF NoReaderYet
<1>1. prodPc \in [Producers -> {"none", "failed", "run", "exit", "done"}]
  BY DEF ScanSafe, SessionInv, SessionTypeOK
<1>2. ASSUME UNCHANGED <<prodPc, mainPc, consPc>>
      PROVE  /\ mainPc = "returned" => /\ mainPc' = "returned"
                                       /\ consPc = "none" => consPc' = "none"
                                       /\ NoReaderYet => NoReaderYet'
             /\ consPc' # "none" => ~NoReaderYet'
             /\ mainPc' = "returned" => consPc' \in {"none", "done"}
  BY <1>2
<1>3. CASE SetUp \/ PublishState \/ TimerDone \/ JoinProducers
  <2>1. UNCHANGED <<prodPc, consPc>> /\ mainPc # "returned"
    BY <1>3 DEF SetUp, PublishState, TimerDone, JoinProducers
  <2>2. mainPc' = "returned" => consPc = "none"
    BY <1>3 DEF SetUp, PublishState, TimerDone, JoinProducers, ScanSafe, SessionInv,
       ThreadsInStep, MainInStep
  <2> QED
    BY <2>1, <2>2
<1>4. ASSUME NEW p \in Producers, CreateProducer(p)
      PROVE  prodPc'[p] # "none" /\ mainPc # "returned" /\ UNCHANGED <<mainPc, consPc>>
  BY <1>1, <1>4 DEF CreateProducer
<1>5. CASE CreateConsumer
  BY <1>5 DEF CreateConsumer, AllTried
<1>6. CASE CreateConsumerFails
  <2>1. consPc = "none"
    BY <1>6 DEF CreateConsumerFails, ScanSafe, SessionInv, ThreadsInStep, MainInStep
  <2> QED
    BY <1>6, <2>1 DEF CreateConsumerFails
<1>7. CASE JoinConsumer
  BY <1>7 DEF JoinConsumer, ConsumerJoined
<1>8. ASSUME NEW p \in Producers, FinishScans(p) \/ CheckState(p) \/ ExitSweeps(p)
      PROVE  prodPc[p] # "none" /\ prodPc'[p] # "none" /\ UNCHANGED <<mainPc, consPc>>
  BY <1>1, <1>8 DEF FinishScans, CheckState, ExitSweeps, Reading
<1>9. ASSUME NEW p \in Producers, PullScan(p) \/ PullFails(p) \/ ProducerAdds(p)
      PROVE  UNCHANGED <<prodPc, mainPc, consPc>>
  BY <1>9 DEF PullScan, PullFails, ProducerAdds, threadVars
<1>10. CASE ConsumerExits
  BY <1>10 DEF ConsumerExits
<1>11. CASE ConsumerTakes \/ ConsumerInTakeBuff \/ PrintDatapoint
  BY <1>2, <1>11 DEF ConsumerTakes, ConsumerInTakeBuff, PrintDatapoint, threadVars
<1>12. CASE \/ StopSweep \/ DestroyScan \/ UNCHANGED vars
            \/ SpuriousWakeup /\ UNCHANGED <<threadVars, owed>>
  BY <1>2, <1>12 DEF StopSweep, DestroyScan, vars, threadVars
<1> QED
  BY <1>2, <1>3, <1>4, <1>5, <1>6, <1>7, <1>8, <1>9, <1>10, <1>11, <1>12 DEF
     SessionNext, MainStep, ProducerStep, ConsumerStep

(* No thread of the scan changes the mode or calls stop_sweep.               *)
LEMMA OnlyCallerStops ==
  ASSUME \/ MainStep \/ (\E p \in Producers : ProducerStep(p)) \/ ConsumerStep
         \/ SpuriousWakeup /\ UNCHANGED <<threadVars, owed>>
         \/ UNCHANGED vars
  PROVE  UNCHANGED <<mode, cmdPc>>
<1>1. ASSUME MainStep PROVE UNCHANGED <<mode, cmdPc>>
  BY <1>1 DEF MainStep, SetUp, PublishState, CreateProducer, CreateConsumer,
     CreateConsumerFails, TimerDone, JoinProducers, JoinConsumer
<1>2. ASSUME NEW p \in Producers, ProducerStep(p) PROVE UNCHANGED <<mode, cmdPc>>
  BY <1>2 DEF ProducerStep, PullScan, PullFails, ProducerAdds, FinishScans, CheckState,
     ExitSweeps, threadVars
<1>3. ASSUME ConsumerStep PROVE UNCHANGED <<mode, cmdPc>>
  BY <1>3 DEF ConsumerStep, ConsumerTakes, ConsumerInTakeBuff, PrintDatapoint,
     ConsumerExits, threadVars
<1> QED
  BY <1>1, <1>2, <1>3 DEF threadVars, vars

(* A step of a thread of the scan, or of the user of the parser.             *)
LEMMA ThreadsKeepDriver ==
  ASSUME BatchInv, [SessionNext]_vars, UNCHANGED driverVars,
         begun = "yes" \/ UNCHANGED vars,
         mode' = mode, caller = "driver" => cmdPc' = cmdPc
  PROVE  DriverInv'
<1> USE DEF BatchInv, DriverInv, Stopping
<1>1. UNCHANGED <<caller, begun, drv, early>>
  BY DEF driverVars
<1>2. /\ mainPc = "returned" => /\ mainPc' = "returned"
                                /\ consPc = "none" => consPc' = "none"
                                /\ NoReaderYet => NoReaderYet'
      /\ consPc' # "none" => ~NoReaderYet'
      /\ mainPc' = "returned" => consPc' \in {"none", "done"}
  BY ScanGoesOn
<1>3. begun # "yes" => mainPc' = "setup"
  BY DEF vars, threadVars
<1>4. Over => Over'
  BY <1>1, <1>2, RestIsPrinted DEF Over
<1> QED
  BY <1>1, <1>2, <1>3, <1>4

(* When a poll finds "idle", and run_sweep is past storing the number of     *)
(* readers, the scan is over.                                                *)
LEMMA IdleIsOver ==
  ASSUME BatchInv, mode = "NUM_SWEEPS", cmdPc = "idle", scanState = 0,
         mainPc \notin {"setup", "publish"}
  PROVE  Over
<1> USE DEF BatchInv, ScanSafe
<1>1. CASE Published
  <2>1. Cardinality(Unfinished) = 0
    BY <1>1 DEF SessionInv, StateTellsProgress
  <2>2. IsFiniteSet(Unfinished)
    BY BufferAssumption, FS_Subset DEF Unfinished
  <2>3. Unfinished = {}
    BY <2>1, <2>2, FS_EmptySet
  <2>4. \A p \in Producers : prodPc[p] = "done"
    BY <2>3 DEF Unfinished
  <2>5. taking[Consumer] = "returned" /\ result[Consumer] = NULL => complete /\ count = 0
    BY DEF SessionInv, ThreadsInStep, PrinterInStep
  <2>6. consPc = "done" => \A p \in Producers : owed[p] = 0
    BY DEF NothingLeftBehind
  <2> QED
    BY <2>4, <2>5, <2>6 DEF Over, PrintsTheRest
<1>2. CASE ~Published
  <2>1. mainPc = "returned" /\ NoReaderYet
    BY <1>2 DEF Published, NoReaderYet
  <2>2. consPc = "none"
    BY <2>1 DEF DriverInv
  <2> QED
    BY <2>1, <2>2 DEF Over
<1> QED
  BY <1>1, <1>2

(* A step of main of the batch program.                                      *)
LEMMA DriverKeepsDriver ==
  ASSUME BatchInv, DriverStep
  PROVE  DriverInv'
<1> USE DEF BatchInv, DriverInv, Stopping
<1>1. CASE MainReturns \/ NothingToScan
  BY <1>1 DEF MainReturns, NothingToScan, vars, threadVars, NoReaderYet
<1>2. CASE StartScan
  BY <1>2 DEF StartScan, Waiting, vars, threadVars, NoReaderYet
<1>3. CASE PollFindsIdle
  <2>1. UNCHANGED <<vars, caller, begun>> /\ drv = "poll" /\ drv' = "stop" /\ SaysIdle
    BY <1>3 DEF PollFindsIdle
  <2>2. mode = "NUM_SWEEPS" /\ ~early' => Over
    <3> SUFFICES ASSUME mode = "NUM_SWEEPS", ~early', begun = "yes" PROVE Over
      BY DEF Over
    <3>1. mainPc \notin {"setup", "publish"}
      BY <1>3 DEF PollFindsIdle
    <3> QED
      BY <2>1, <3>1, IdleIsOver DEF SaysIdle
  <2>3. Over => Over'
    BY <2>1 DEF Over, PrintsTheRest, NoReaderYet, vars, threadVars, bufferVars, ringVars
  <2>4. UNCHANGED <<mode, mainPc, consPc, prodPc, cmdPc>>
    BY <2>1 DEF vars, threadVars
  <2> QED
    BY <2>1, <2>2, <2>3, <2>4 DEF NoReaderYet
<1>4. CASE SleepIsOver
  BY <1>4 DEF SleepIsOver, vars, threadVars, NoReaderYet
<1>5. ASSUME DriverStops \/ StopOfNoScan \/ JoinOfNoThread \/ DriverJoins \/ TearDown
      PROVE  DriverInv'
  <2>1. /\ drv \in Stopping /\ drv' \in {"join", "teardown", "exited", "crashed"}
        /\ UNCHANGED <<mode, mainPc, prodPc, consPc, complete, count, taking, result, owed>>
        /\ UNCHANGED <<caller, begun, early>>
    BY <1>5 DEF DriverStops, StopSweep, StopOfNoScan, JoinOfNoThread, DriverJoins,
       DestroyScan, TearDown, vars, threadVars, bufferVars, ringVars
  <2>2. drv' \in {"teardown", "exited"} => begun # "yes" \/ mainPc = "returned"
    BY <1>5 DEF DriverStops, StopOfNoScan, JoinOfNoThread, DriverJoins, DestroyScan,
       TearDown
  <2>3. caller = "driver"
    BY <2>1
  <2>4. Over => Over'
    BY <2>1 DEF Over, PrintsTheRest, NoReaderYet
  <2> QED
    BY <2>1, <2>2, <2>3, <2>4 DEF NoReaderYet
<1> QED
  BY <1>1, <1>2, <1>3, <1>4, <1>5 DEF DriverStep

LEMMA BatchInvariant == BatchSpec => []BatchInv
<1>1. BatchInit => BatchInv
  BY ScanSafeStarts, DriverStarts DEF BatchInit, BatchInv
<1>2. BatchInv /\ [BatchNext]_batchVars => BatchInv'
  <2> SUFFICES ASSUME BatchInv, [BatchNext]_batchVars PROVE DriverInv'
    BY BatchStepSafe DEF BatchInv
  <2>1. CASE DriverStep
    BY <2>1, DriverKeepsDriver
  <2>2. CASE ~DriverStep
    <3>1. /\ [SessionNext]_vars /\ UNCHANGED driverVars
          /\ begun = "yes" \/ UNCHANGED vars
      BY <2>2 DEF BatchNext, InScan, UserStops, SessionNext, batchVars
    <3>2. UNCHANGED <<mode, cmdPc>> \/ (caller = "parser" /\ mode' = mode)
      BY <2>2, OnlyCallerStops DEF BatchNext, InScan, UserStops, StopSweep, DestroyScan,
         batchVars
    <3> QED
      BY <3>1, <3>2, ThreadsKeepDriver
  <2> QED
    BY <2>1, <2>2
<1> QED
  BY <1>1, <1>2, PTL DEF BatchSpec

------------------------------------------------------------------------------
(* The theorems *)

(* What is safe in a scan is safe under a user of the parser and under the   *)
(* batch program, also when the thread of the scan could not be created.     *)
THEOREM ScanSafeWithCaller ==
  BatchSpec => [](StateTellsProgress /\ CompleteMeansDone /\ NothingLeftBehind
                  /\ Conservation /\ FreedWhenQuiet /\ RingConsistent)
<1>1. BatchInv => StateTellsProgress /\ CompleteMeansDone /\ NothingLeftBehind
                  /\ Conservation /\ FreedWhenQuiet /\ RingConsistent
  BY DEF BatchInv, ScanSafe, SessionInv
<1> QED
  BY <1>1, BatchInvariant, PTL

(* The polling loop of the batch program ends with no reader at work, unless *)
(* its first poll came before the number of readers was stored.              *)
THEOREM IdleAlwaysMeansOver == BatchSpec => []IdleMeansOver
<1>1. BatchInv => IdleMeansOver
  <2> SUFFICES ASSUME BatchInv, Over, NEW p \in Producers
               PROVE  prodPc[p] \notin {"run", "exit"}
    BY DEF IdleMeansOver, BatchInv, DriverInv, Stopping
  <2>1. CASE begun # "yes"
    BY <2>1 DEF BatchInv, DriverInv, ScanSafe, SessionInv, ThreadsInStep, MainInStep
  <2> QED
    BY <2>1 DEF Over, NoReaderYet, PrintsTheRest
<1> QED
  BY <1>1, BatchInvariant, PTL

(* A batch program that ends with success has printed every datapoint that   *)
(* its readers pulled, under the same condition.                             *)
THEOREM BatchAlwaysPrintsAll == BatchSpec => []BatchPrintsAll
<1>1. BatchInv => BatchPrintsAll
  <2> SUFFICES ASSUME BatchInv, drv \in {"teardown", "exited"}, mode = "NUM_SWEEPS",
                      ~early, consPc # "none"
               PROVE  \A p \in Producers : prodPc[p] = "done" /\ owed[p] = 0
    BY DEF BatchPrintsAll
  <2>1. begun = "yes"
    BY DEF BatchInv, DriverInv, ScanSafe, SessionInv, ThreadsInStep, MainInStep
  <2>2. mainPc = "returned" /\ consPc = "done" /\ Over
    BY <2>1 DEF BatchInv, DriverInv, Stopping
  <2> QED
    BY <2>1, <2>2 DEF Over, PrintsTheRest
<1> QED
  BY <1>1, BatchInvariant, PTL
==============================================================================

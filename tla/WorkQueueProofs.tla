--------------------------- MODULE WorkQueueProofs ---------------------------
(***************************************************************************)
(* Proofs about the native work queue, for every capacity, every set of    *)
(* items and every last index: the two threads own different slots, and    *)
(* the ring implements the bounded FIFO.                                   *)
(***************************************************************************)
EXTENDS WorkQueue, Sequences, TLAPS

-----------------------------------------------------------------------------
(* The inductive invariant *)

\* The consumer never passes the producer, and never falls a ring behind.
IndicesInv == read <= write /\ write - read <= Capacity

\* The consumer's index that a push in progress judged its room from is not ahead of
\* the real one, so the room it saw is still there.
RoomInv ==
    push.pc \in {"store", "high", "publish"} =>
        /\ write < MaxIndex
        /\ push.r <= read
        /\ write - push.r < Capacity
        /\ push.value \in Values

\* The slot about to be published holds the item, and the mark counts it already.
StoredInv ==
    /\ push.pc \in {"high", "publish"} => slots[write % Capacity] = push.value
    /\ push.pc = "publish" => write - push.r + 1 <= high

\* A pop in progress has an item, and what it copied is what the slot still holds.
TakenInv ==
    /\ pop.pc \in {"read", "release"} => read < write
    /\ pop.pc = "release" => pop.value = slots[read % Capacity]

IInv == TypeOK /\ IndicesInv /\ RoomInv /\ StoredInv /\ TakenInv /\ HighWaterCovers

-----------------------------------------------------------------------------
(* Arithmetic of the ring *)

\* An index falls into one of the slots.
LEMMA SlotOfIndex ==
    ASSUME NEW a \in Nat
    PROVE  a % Capacity \in Slots
  BY CapacityAssumption DEF Slots

\* Two indices less than one ring apart fall into different slots: the arithmetic that
\* queue.rs's exclusive slot ownership rests on.
LEMMA NearbyIndicesDiffer ==
    ASSUME NEW a \in Nat, NEW b \in Nat, a < b, b - a < Capacity
    PROVE  a % Capacity # b % Capacity
<1> DEFINE p == a \div Capacity
           q == b \div Capacity
           ra == a % Capacity
           rb == b % Capacity
<1>1. p \in Nat /\ q \in Nat /\ ra \in 0 .. Capacity - 1 /\ rb \in 0 .. Capacity - 1
  BY CapacityAssumption
<1>2. a = Capacity * p + ra /\ b = Capacity * q + rb
  BY CapacityAssumption
<1> HIDE DEF p, q, ra, rb
<1> SUFFICES ASSUME ra = rb PROVE FALSE
  BY DEF ra, rb
<1>3. Capacity * (q - p) = b - a
  BY <1>1, <1>2, CapacityAssumption
<1>4. CASE q <= p
  <2>1. Capacity * q <= Capacity * p
    BY <1>1, <1>4, CapacityAssumption
  <2> QED
    BY <2>1, <1>1, <1>2, CapacityAssumption
<1>5. CASE q > p
  <2>1. Capacity * (q - p) >= Capacity
    BY <1>1, <1>5, CapacityAssumption
  <2> QED
    BY <2>1, <1>3, CapacityAssumption
<1> QED
  BY <1>1, <1>4, <1>5

-----------------------------------------------------------------------------
(* Every step keeps the invariant *)

\* The empty ring satisfies the invariant.
LEMMA InitEstablishes == Init => IInv
<1> SUFFICES ASSUME Init PROVE IInv
  OBVIOUS
<1> USE CapacityAssumption, MaxIndexAssumption DEF Init
<1>1. TypeOK
  <2>1. slots \in [Slots -> Values \cup {NoValue}]
    OBVIOUS
  <2>2. read \in 0 .. MaxIndex /\ write \in 0 .. MaxIndex /\ high \in 0 .. Capacity
    OBVIOUS
  <2>4. moved \in BOOLEAN /\ readable \in BOOLEAN /\ failed \in BOOLEAN
    OBVIOUS
  <2>3. /\ push \in [pc : {"idle", "store", "high", "publish", "bump", "event"},
                     value : Values \cup {NoValue}, r : 0 .. MaxIndex]
        /\ pop \in [pc : {"snapshot", "load", "read", "release", "drain", "compare",
                          "poll", "ended"},
                    value : Values \cup {NoValue}]
        /\ got \in Values \cup {NoValue}
    OBVIOUS
  <2> QED
    BY <2>1, <2>2, <2>3, <2>4 DEF TypeOK
<1>2. IndicesInv /\ HighWaterCovers
  BY DEF IndicesInv, HighWaterCovers
<1>3. RoomInv /\ StoredInv
  BY DEF RoomInv, StoredInv
<1>4. TakenInv
  BY DEF TakenInv
<1> QED
  BY <1>1, <1>2, <1>3, <1>4 DEF IInv

\* Queue::push sees room: the index it loaded is the consumer's own.
LEMMA PushLoadStep == ASSUME IInv, NEW v \in Values, PushLoad(v) PROVE IInv'
<1> USE CapacityAssumption, MaxIndexAssumption
    DEF PushLoad, ring, signal, IInv, TypeOK
<1>1. TypeOK'
  OBVIOUS
<1>2. IndicesInv' /\ RoomInv'
  BY DEF IndicesInv, RoomInv
<1>3. StoredInv' /\ TakenInv' /\ HighWaterCovers'
  BY DEF StoredInv, TakenInv, HighWaterCovers
<1> QED
  BY <1>1, <1>2, <1>3

\* The item is stored into a slot that the consumer does not own, so that what a pop in
\* progress copied is still what its slot holds.
LEMMA PushStoreStep == IInv /\ PushStore => IInv'
<1> SUFFICES ASSUME IInv, PushStore PROVE IInv'
  OBVIOUS
<1> USE CapacityAssumption, MaxIndexAssumption
<1>1. read \in Nat /\ write \in Nat /\ write % Capacity \in Slots /\ read % Capacity \in Slots
  BY SlotOfIndex DEF IInv, TypeOK
<1>2. TypeOK'
  BY <1>1 DEF PushStore, signal, IInv, TypeOK
<1>3. IndicesInv' /\ RoomInv' /\ HighWaterCovers'
  BY DEF PushStore, signal, IInv, TypeOK, IndicesInv, RoomInv, HighWaterCovers
<1>4. StoredInv'
  BY <1>1 DEF PushStore, signal, IInv, TypeOK, StoredInv
<1>5. TakenInv'
  <2>1. CASE pop.pc = "release"
    <3>1. read < write /\ write - read < Capacity
      BY <2>1, <1>1 DEF PushStore, IInv, TypeOK, TakenInv, RoomInv
    <3>2. read % Capacity # write % Capacity
      BY <3>1, <1>1, NearbyIndicesDiffer
    <3> QED
      BY <2>1, <3>1, <3>2, <1>1 DEF PushStore, IInv, TypeOK, TakenInv
  <2>2. CASE pop.pc # "release"
    BY <2>2 DEF PushStore, IInv, TypeOK, TakenInv
  <2> QED
    BY <2>1, <2>2
<1> QED
  BY <1>2, <1>3, <1>4, <1>5 DEF IInv

\* The mark is raised to the occupancy the push will make.
LEMMA PushHighStep == IInv /\ PushHigh => IInv'
<1> SUFFICES ASSUME IInv, PushHigh PROVE IInv'
  OBVIOUS
<1> USE CapacityAssumption, MaxIndexAssumption DEF PushHigh, signal, IInv
<1>1. /\ write \in Nat /\ push.r \in Nat /\ read \in Nat /\ high \in 0 .. Capacity
      /\ push.r <= read /\ read <= write /\ write - push.r < Capacity
  BY DEF TypeOK, RoomInv, IndicesInv
<1>2. /\ high' \in 0 .. Capacity /\ high <= high' /\ write - push.r + 1 <= high'
  BY <1>1 DEF Larger
<1>3. TypeOK'
  BY <1>2 DEF TypeOK
<1>4. IndicesInv' /\ RoomInv' /\ HighWaterCovers'
  BY <1>1, <1>2 DEF TypeOK, IndicesInv, RoomInv, HighWaterCovers
<1>5. StoredInv' /\ TakenInv'
  BY <1>2 DEF TypeOK, StoredInv, TakenInv
<1> QED
  BY <1>3, <1>4, <1>5

\* The item becomes part of the ring: its room was counted and its mark was raised.
LEMMA PushPublishStep == IInv /\ PushPublish => IInv'
<1> SUFFICES ASSUME IInv, PushPublish PROVE IInv'
  OBVIOUS
<1> USE CapacityAssumption, MaxIndexAssumption DEF PushPublish, signal, IInv
<1>1. TypeOK'
  BY DEF TypeOK, RoomInv
<1>2. IndicesInv' /\ RoomInv'
  BY DEF TypeOK, IndicesInv, RoomInv
<1>3. HighWaterCovers'
  BY DEF TypeOK, RoomInv, StoredInv, HighWaterCovers
<1>4. StoredInv' /\ TakenInv'
  BY DEF TypeOK, StoredInv, TakenInv
<1> QED
  BY <1>1, <1>2, <1>3, <1>4

\* Queue::pop finds the ring empty, or an item below the producer's index.
LEMMA PopLoadStep == IInv /\ PopLoad => IInv'
<1> SUFFICES ASSUME IInv, PopLoad PROVE IInv'
  OBVIOUS
<1> USE CapacityAssumption, MaxIndexAssumption DEF PopLoad, ring, signal, IInv
<1>1. TypeOK'
  BY DEF TypeOK
<1>2. IndicesInv' /\ RoomInv' /\ StoredInv' /\ HighWaterCovers'
  BY DEF IndicesInv, RoomInv, StoredInv, HighWaterCovers
<1>3. TakenInv'
  BY DEF TypeOK, TakenInv, IndicesInv
<1> QED
  BY <1>1, <1>2, <1>3

\* The item is copied out of its slot.
LEMMA PopReadStep == IInv /\ PopRead => IInv'
<1> SUFFICES ASSUME IInv, PopRead PROVE IInv'
  OBVIOUS
<1> USE CapacityAssumption, MaxIndexAssumption DEF PopRead, ring, signal, IInv
<1>1. read % Capacity \in Slots
  BY SlotOfIndex DEF TypeOK
<1>2. TypeOK'
  BY <1>1 DEF TypeOK
<1>3. IndicesInv' /\ RoomInv' /\ StoredInv' /\ HighWaterCovers'
  BY DEF IndicesInv, RoomInv, StoredInv, HighWaterCovers
<1>4. TakenInv'
  BY DEF TypeOK, TakenInv
<1> QED
  BY <1>2, <1>3, <1>4

\* The slot is given back: a push in progress has only more room than it saw.
LEMMA PopReleaseStep == IInv /\ PopRelease => IInv'
<1> SUFFICES ASSUME IInv, PopRelease PROVE IInv'
  OBVIOUS
<1> USE CapacityAssumption, MaxIndexAssumption DEF PopRelease, signal, IInv
<1>1. TypeOK'
  BY DEF TypeOK, TakenInv
<1>2. IndicesInv' /\ RoomInv'
  BY DEF TypeOK, IndicesInv, RoomInv, TakenInv
<1>3. StoredInv' /\ TakenInv' /\ HighWaterCovers'
  BY DEF TypeOK, StoredInv, TakenInv, HighWaterCovers
<1> QED
  BY <1>1, <1>2, <1>3

\* The steps of the signal and of the worker's sleep leave the ring alone.
WaitStep ==
    \/ WorkSnapshot \/ WaitDrain \/ WaitCompare \/ PollReadable \/ PollOther
    \/ PushRefused \/ NotifyBump \/ NotifyEvent

\* A step of the signal or of the sleep moves neither endpoint into or through the ring.
LEMMA WaitStepStep == IInv /\ WaitStep => IInv' /\ UNCHANGED <<ring, got>>
<1> SUFFICES ASSUME IInv, WaitStep PROVE IInv' /\ UNCHANGED <<ring, got>>
  OBVIOUS
<1> USE DEF ring, signal, IInv, TypeOK
<1>1. CASE WorkSnapshot \/ WaitDrain \/ WaitCompare \/ PollReadable \/ PollOther
  <2>1. /\ UNCHANGED <<ring, push, got>>
        /\ moved' \in BOOLEAN /\ readable' \in BOOLEAN /\ failed' = failed
        /\ \E l \in {"snapshot", "load", "drain", "compare", "poll", "ended"} :
              pop' = [pop EXCEPT !.pc = l]
    BY <1>1 DEF WorkSnapshot, WaitDrain, WaitCompare, PollReadable, PollOther
  <2>2. TypeOK'
    BY <2>1
  <2>3. IndicesInv' /\ RoomInv' /\ StoredInv' /\ HighWaterCovers'
    BY <2>1 DEF IndicesInv, RoomInv, StoredInv, HighWaterCovers
  <2>4. TakenInv'
    BY <2>1 DEF TakenInv
  <2> QED
    BY <2>1, <2>2, <2>3, <2>4
<1>2. CASE PushRefused \/ NotifyBump \/ NotifyEvent
  <2>1. /\ UNCHANGED <<ring, pop, got>>
        /\ moved' \in BOOLEAN /\ readable' \in BOOLEAN /\ failed' \in BOOLEAN
        /\ \/ \E l \in {"bump", "event"} : push' = [push EXCEPT !.pc = l]
           \/ push' = [pc |-> "idle", value |-> NoValue, r |-> 0]
    BY <1>2 DEF PushRefused, NotifyBump, NotifyEvent
  <2>2. TypeOK'
    BY <2>1, MaxIndexAssumption
  <2>3. IndicesInv' /\ TakenInv' /\ HighWaterCovers'
    BY <2>1 DEF IndicesInv, TakenInv, HighWaterCovers
  <2>4. RoomInv' /\ StoredInv'
    BY <2>1 DEF RoomInv, StoredInv
  <2> QED
    BY <2>1, <2>2, <2>3, <2>4
<1> QED
  BY <1>1, <1>2 DEF WaitStep

\* Every step of either thread keeps the invariant.
LEMMA NextPreserves == IInv /\ [Next]_vars => IInv'
<1> SUFFICES ASSUME IInv, [Next]_vars PROVE IInv'
  OBVIOUS
<1>1. CASE \E v \in Values : PushLoad(v)
  BY <1>1, PushLoadStep
<1>2. CASE PushStore \/ PushHigh \/ PushPublish
  BY <1>2, PushStoreStep, PushHighStep, PushPublishStep
<1>3. CASE PopLoad \/ PopRead \/ PopRelease
  BY <1>3, PopLoadStep, PopReadStep, PopReleaseStep
<1>4. CASE WaitStep
  BY <1>4, WaitStepStep
<1>5. CASE UNCHANGED vars
  BY <1>5 DEF vars, ring, signal, IInv, TypeOK, IndicesInv, RoomInv, StoredInv,
              TakenInv, HighWaterCovers
<1> QED
  BY <1>1, <1>2, <1>3, <1>4, <1>5 DEF Next, PushStep, WorkStep, WaitStep

\* The inductive invariant holds in every reachable state.
LEMMA Invariance == Spec => []IInv
  BY InitEstablishes, NextPreserves, PTL DEF Spec

-----------------------------------------------------------------------------
(* Safety *)

\* The ring of queue.rs up to its last index, for every capacity: the threads never touch
\* one slot at once, no word leaves its range, and the high-water mark covers the contents.
THEOREM RingIsSafe == Spec => []RingSafety
<1>1. IInv => RingSafety
  <2> SUFFICES ASSUME IInv, push.pc = "store", pop.pc = "read"
               PROVE  write % Capacity # read % Capacity
    BY DEF IInv, RingSafety, NoSlotRace
  <2>1. /\ read \in Nat /\ write \in Nat /\ read < write /\ write - read < Capacity
    BY CapacityAssumption, MaxIndexAssumption DEF IInv, TypeOK, TakenInv, RoomInv
  <2> QED
    BY <2>1, NearbyIndicesDiffer
<1> QED
  BY Invariance, <1>1, PTL

-----------------------------------------------------------------------------
(* Refinement *)

\* The length and the items of the abstract queue.
LEMMA ContentsShape ==
    ASSUME IInv
    PROVE  /\ Contents \in Seq(Values \cup {NoValue})
           /\ Len(Contents) = write - read
           /\ \A i \in 1 .. write - read : Contents[i] = slots[(read + i - 1) % Capacity]
<1>1. write - read \in Nat /\ read \in Nat
  BY MaxIndexAssumption DEF IInv, TypeOK, IndicesInv
<1>2. \A i \in 1 .. write - read : slots[(read + i - 1) % Capacity] \in Values \cup {NoValue}
  <2> TAKE i \in 1 .. write - read
  <2>1. (read + i - 1) % Capacity \in Slots
    BY <1>1, SlotOfIndex
  <2> QED
    BY <2>1 DEF IInv, TypeOK
<1> QED
  BY <1>1, <1>2 DEF Contents

\* The empty ring is the empty queue.
LEMMA InitRefines == Init => Queue!Init
<1> SUFFICES ASSUME Init PROVE Contents = <<>> /\ got = NoValue
  BY DEF Queue!Init
<1>1. IInv
  BY InitEstablishes
<1>2. Len(Contents) = 0 /\ Contents \in Seq(Values \cup {NoValue})
  BY <1>1, ContentsShape DEF Init
<1> QED
  BY <1>2 DEF Init

\* Publishing the producer's index enqueues the item that was stored before it.
LEMMA PublishEnqueues ==
    ASSUME IInv, PushPublish
    PROVE  Queue!Enqueue(push.value) /\ push.value \in Values
<1>1. IInv'
  BY PushPublishStep
<1>2. /\ read \in Nat /\ write \in Nat /\ read <= write /\ write - read < Capacity
      /\ push.value \in Values /\ slots[write % Capacity] = push.value
  BY MaxIndexAssumption, CapacityAssumption
  DEF IInv, TypeOK, IndicesInv, RoomInv, StoredInv, PushPublish
<1>3. write' = write + 1 /\ read' = read /\ slots' = slots /\ got' = got
  BY DEF PushPublish
<1>4. /\ Len(Contents) = write - read
      /\ Contents \in Seq(Values \cup {NoValue})
      /\ \A i \in 1 .. write - read : Contents[i] = slots[(read + i - 1) % Capacity]
  BY ContentsShape
<1>5. Contents' = [i \in 1 .. write + 1 - read |-> slots[(read + i - 1) % Capacity]]
  <2>1. write' - read' = write + 1 - read
    BY <1>2, <1>3
  <2>2. Contents' = [i \in 1 .. write' - read' |-> slots[(read + i - 1) % Capacity]]
    BY <1>3 DEF Contents
  <2> QED
    BY <2>1, <2>2
<1>6. Contents' = Append(Contents, push.value)
  <2> DEFINE A == Append(Contents, push.value)
  <2>1. /\ A \in Seq(Values \cup {NoValue}) /\ Len(A) = write - read + 1
        /\ \A i \in 1 .. write - read : A[i] = Contents[i]
        /\ A[write - read + 1] = push.value
    BY <1>2, <1>4
  <2>2. A = [i \in 1 .. write + 1 - read |-> A[i]]
    BY <2>1, <1>2
  <2> HIDE DEF A
  <2>3. \A i \in 1 .. write + 1 - read : A[i] = slots[(read + i - 1) % Capacity]
    <3> TAKE i \in 1 .. write + 1 - read
    <3>1. CASE i \in 1 .. write - read
      BY <3>1, <2>1, <1>4
    <3>2. CASE i = write - read + 1
      <4>1. read + i - 1 = write
        BY <3>2, <1>2
      <4> QED
        BY <4>1, <3>2, <2>1, <1>2
    <3> QED
      BY <3>1, <3>2, <1>2
  <2> QED
    BY <2>2, <2>3, <1>5 DEF A
<1> QED
  BY <1>2, <1>3, <1>4, <1>6 DEF Queue!Enqueue

\* Releasing the consumer's index dequeues the item that was copied before it.
LEMMA ReleaseDequeues == ASSUME IInv, PopRelease PROVE Queue!Dequeue
<1>1. /\ read \in Nat /\ write \in Nat /\ read < write
      /\ pop.value = slots[read % Capacity]
  BY MaxIndexAssumption DEF IInv, TypeOK, TakenInv, PopRelease
<1>2. read' = read + 1 /\ write' = write /\ slots' = slots /\ got' = pop.value
  BY DEF PopRelease
<1>3. /\ Len(Contents) = write - read
      /\ Contents \in Seq(Values \cup {NoValue})
      /\ \A i \in 1 .. write - read : Contents[i] = slots[(read + i - 1) % Capacity]
  BY ContentsShape
<1>4. Contents # <<>> /\ Head(Contents) = pop.value
  <2>1. 1 \in 1 .. write - read /\ read + 1 - 1 = read
    BY <1>1
  <2>2. Contents[1] = pop.value
    BY <2>1, <1>1, <1>3
  <2> QED
    BY <2>1, <2>2, <1>3
<1>5. Contents' = [i \in 1 .. write - (read + 1) |-> slots[(read + 1 + i - 1) % Capacity]]
  BY <1>2 DEF Contents
<1>6. Contents' = Tail(Contents)
  <2> DEFINE T == Tail(Contents)
  <2>1. /\ T \in Seq(Values \cup {NoValue}) /\ Len(T) = write - read - 1
        /\ \A i \in 1 .. write - read - 1 : T[i] = Contents[i + 1]
    BY <1>1, <1>3, <1>4
  <2> HIDE DEF T
  <2>2. T = [i \in 1 .. write - (read + 1) |-> T[i]]
    <3>1. Len(T) = write - (read + 1)
      BY <2>1, <1>1
    <3> QED
      BY <2>1, <3>1
  <2>3. \A i \in 1 .. write - (read + 1) : T[i] = slots[(read + 1 + i - 1) % Capacity]
    <3> TAKE i \in 1 .. write - (read + 1)
    <3>1. i + 1 \in 1 .. write - read /\ read + (i + 1) - 1 = read + 1 + i - 1
      BY <1>1
    <3>2. Contents[i + 1] = slots[(read + (i + 1) - 1) % Capacity]
      BY <3>1, <1>3
    <3> QED
      BY <3>1, <3>2, <2>1, <1>1
  <2> QED
    BY <2>2, <2>3, <1>5 DEF T
<1> QED
  BY <1>2, <1>4, <1>6 DEF Queue!Dequeue

\* Storing an item outside the contents, whose slot is not published yet, leaves the
\* abstract queue alone.
LEMMA StoreStutters == ASSUME IInv, PushStore PROVE UNCHANGED <<Contents, got>>
<1>1. /\ read \in Nat /\ write \in Nat /\ read <= write /\ write - read < Capacity
  BY MaxIndexAssumption, CapacityAssumption
  DEF IInv, TypeOK, IndicesInv, RoomInv, PushStore
<1>2. /\ read' = read /\ write' = write /\ got' = got
      /\ slots' = [slots EXCEPT ![write % Capacity] = push.value]
  BY DEF PushStore
<1>3. \A i \in 1 .. write - read :
         slots'[(read + i - 1) % Capacity] = slots[(read + i - 1) % Capacity]
  <2> TAKE i \in 1 .. write - read
  <2>1. /\ read + i - 1 \in Nat /\ read + i - 1 < write
        /\ write - (read + i - 1) < Capacity
    BY <1>1, CapacityAssumption
  <2>2. (read + i - 1) % Capacity # write % Capacity
    BY <2>1, <1>1, NearbyIndicesDiffer
  <2>3. (read + i - 1) % Capacity \in Slots /\ DOMAIN slots = Slots
    BY <2>1, SlotOfIndex DEF IInv, TypeOK
  <2> QED
    BY <2>2, <2>3, <1>2
<1>4. Contents' = [i \in 1 .. write - read |-> slots'[(read + i - 1) % Capacity]]
  BY <1>2 DEF Contents
<1>5. Contents' = Contents
  BY <1>3, <1>4 DEF Contents
<1> QED
  BY <1>2, <1>5

\* Every other step leaves the ring's contents and the value last returned alone.
LEMMA RingUnchangedStutters ==
    ASSUME UNCHANGED <<slots, read, write, got>>
    PROVE  UNCHANGED <<Contents, got>>
  BY DEF Contents

\* Every step of the ring is a step of the bounded FIFO or leaves it alone.
LEMMA StepRefines == IInv /\ [Next]_vars => [Queue!Next]_<<Contents, got>>
<1> SUFFICES ASSUME IInv, [Next]_vars PROVE Queue!Next \/ UNCHANGED <<Contents, got>>
  OBVIOUS
<1>1. CASE PushPublish
  BY <1>1, PublishEnqueues DEF Queue!Next
<1>2. CASE PopRelease
  BY <1>2, ReleaseDequeues DEF Queue!Next
<1>3. CASE PushStore
  BY <1>3, StoreStutters
<1>4. CASE (\E v \in Values : PushLoad(v)) \/ PushHigh \/ PopLoad \/ PopRead
  BY <1>4, RingUnchangedStutters DEF PushLoad, PushHigh, PopLoad, PopRead, ring
<1>5. CASE WaitStep
  <2>1. UNCHANGED <<slots, read, write, got>>
    BY <1>5, WaitStepStep DEF ring
  <2> QED
    BY <2>1, RingUnchangedStutters
<1>6. CASE UNCHANGED vars
  BY <1>6, RingUnchangedStutters DEF vars, ring
<1> QED
  BY <1>1, <1>2, <1>3, <1>4, <1>5, <1>6 DEF Next, PushStep, WorkStep, WaitStep

\* The ring with its two threads is a bounded FIFO, for every capacity, item set and last
\* index: values come out once and in order, whatever the interleaving of push and pop.
THEOREM RingRefinesFifo == Spec => RefinesFifo
<1>1. Init => Queue!Init
  BY InitRefines
<1>2. IInv /\ [Next]_vars => [Queue!Next]_<<Contents, got>>
  BY StepRefines
<1> QED
  BY Invariance, <1>1, <1>2, PTL DEF Spec, RefinesFifo, Queue!Spec

=============================================================================

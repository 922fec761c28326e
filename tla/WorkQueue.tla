------------------------------ MODULE WorkQueue ------------------------------
(***************************************************************************)
(* The native work queue: the DAW's callback pushes items into the SPSC    *)
(* ring of queue.rs and notifies the WorkSignal of completion_wait.rs; the *)
(* worker thread (queued.rs) takes them out and sleeps in poll when there  *)
(* are none.                                                               *)
(*                                                                         *)
(* The signal's 32-bit sequence matters to the worker only as the answer   *)
(* to "did it change since my snapshot"; that bit is moved.  The eventfd's *)
(* count matters only as "readable".                                       *)
(***************************************************************************)
EXTENDS Integers

CONSTANTS Values,    \* items
          NoValue,   \* an uninitialised slot
          Capacity,  \* slots.len()
          MaxIndex   \* u64::MAX, the index no push may pass

ASSUME CapacityAssumption == Capacity \in Nat \ {0}
ASSUME MaxIndexAssumption == MaxIndex \in Nat
ASSUME NoValueAssumption == NoValue \notin Values

VARIABLES slots, read, write, high,  \* Queue
          moved, readable, failed,   \* WorkSignal
          push,    \* the producer: [pc, value, r], r the consumer's index it saw
          pop,     \* the consumer: [pc, value]
          got      \* the value pop returned last

ring == <<slots, read, write, high>>
signal == <<moved, readable, failed>>
vars == <<ring, signal, push, pop, got>>

Slots == 0 .. Capacity - 1

Init ==
    /\ slots = [s \in Slots |-> NoValue]
    /\ read = 0 /\ write = 0 /\ high = 0
    /\ moved = FALSE /\ readable = FALSE /\ failed = FALSE
    /\ push = [pc |-> "idle", value |-> NoValue, r |-> 0]
    /\ pop = [pc |-> "snapshot", value |-> NoValue]
    /\ got = NoValue

-----------------------------------------------------------------------------
(* Producer: Queue::push, then WorkSignal::notify *)

\* Mutant of PushLoad: room for one more than there are slots.
PushLoadOneMore(v) ==
    /\ push.pc = "idle"
    /\ write # MaxIndex
    /\ write - read # Capacity + 1
    /\ push' = [pc |-> "store", value |-> v, r |-> read]
    /\ UNCHANGED <<ring, signal, pop, got>>

\* Room is judged from the consumer's index as it is now; it may only grow.
PushLoad(v) ==
    /\ push.pc = "idle"
    /\ write # MaxIndex
    /\ write - read # Capacity
    /\ push' = [pc |-> "store", value |-> v, r |-> read]
    /\ UNCHANGED <<ring, signal, pop, got>>

\* A full queue: the caller fails the instance, which notifies the worker too.
PushRefused ==
    /\ push.pc = "idle"
    /\ write = MaxIndex \/ write - read = Capacity
    /\ push' = [push EXCEPT !.pc = "bump"]
    /\ UNCHANGED <<ring, signal, pop, got>>

PushStore ==
    /\ push.pc = "store"
    /\ slots' = [slots EXCEPT ![write % Capacity] = push.value]
    /\ push' = [push EXCEPT !.pc = "high"]
    /\ UNCHANGED <<read, write, high, signal, pop, got>>

Larger(a, b) == IF a >= b THEN a ELSE b

PushHigh ==
    /\ push.pc = "high"
    /\ high' = Larger(high, write - push.r + 1)
    /\ push' = [push EXCEPT !.pc = "publish"]
    /\ UNCHANGED <<slots, read, write, signal, pop, got>>

PushPublish ==
    /\ push.pc = "publish"
    /\ write' = write + 1
    /\ push' = [push EXCEPT !.pc = "bump"]
    /\ UNCHANGED <<slots, read, high, signal, pop, got>>

NotifyBump ==
    /\ push.pc = "bump"
    /\ moved' = TRUE
    /\ push' = [push EXCEPT !.pc = "event"]
    /\ UNCHANGED <<ring, readable, failed, pop, got>>

\* Mutant of NotifyEvent: the sequence is bumped and the eventfd is not written.
NotifyEventOmitted ==
    /\ push.pc = "event"
    /\ UNCHANGED <<readable, failed>>
    /\ push' = [pc |-> "idle", value |-> NoValue, r |-> 0]
    /\ UNCHANGED <<ring, moved, pop, got>>

\* The eventfd write; a saturated count leaves it readable, any other refusal is
\* left for the worker to find.
NotifyEvent ==
    /\ push.pc = "event"
    /\ \/ readable' = TRUE /\ failed' = failed
       \/ readable' = readable /\ failed' = TRUE
    /\ push' = [pc |-> "idle", value |-> NoValue, r |-> 0]
    /\ UNCHANGED <<ring, moved, pop, got>>

-----------------------------------------------------------------------------
(* Consumer: one round of the worker loop, Queue::pop and WorkSignal::wait *)

\* The snapshot comes before any predicate is inspected; a failed signal ends the
\* worker, here and before it sleeps.
WorkSnapshot ==
    /\ pop.pc = "snapshot"
    /\ moved' = FALSE
    /\ pop' = [pop EXCEPT !.pc = IF failed THEN "ended" ELSE "load"]
    /\ UNCHANGED <<ring, readable, failed, push, got>>

PopLoad ==
    /\ pop.pc = "load"
    /\ pop' = [pop EXCEPT !.pc = IF read = write THEN "drain" ELSE "read"]
    /\ UNCHANGED <<ring, signal, push, got>>

PopRead ==
    /\ pop.pc = "read"
    /\ pop' = [pc |-> "release", value |-> slots[read % Capacity]]
    /\ UNCHANGED <<ring, signal, push, got>>

\* Mutant of PopRelease: everything published so far is released with the item.
PopReleaseAll ==
    /\ pop.pc = "release"
    /\ read' = write
    /\ got' = pop.value
    /\ pop' = [pc |-> "snapshot", value |-> NoValue]
    /\ UNCHANGED <<slots, write, high, signal, push>>

PopRelease ==
    /\ pop.pc = "release"
    /\ read' = read + 1
    /\ got' = pop.value
    /\ pop' = [pc |-> "snapshot", value |-> NoValue]
    /\ UNCHANGED <<slots, write, high, signal, push>>

\* One read takes every coalesced write; an interrupted one leaves them.
WaitDrain ==
    /\ pop.pc = "drain"
    /\ IF failed
       THEN readable' = readable /\ pop' = [pop EXCEPT !.pc = "ended"]
       ELSE readable' \in {FALSE, readable} /\ pop' = [pop EXCEPT !.pc = "compare"]
    /\ UNCHANGED <<ring, moved, failed, push, got>>

WaitCompare ==
    /\ pop.pc = "compare"
    /\ pop' = [pop EXCEPT !.pc = IF moved THEN "snapshot" ELSE "poll"]
    /\ UNCHANGED <<ring, signal, push, got>>

PollReadable ==
    /\ pop.pc = "poll"
    /\ readable
    /\ pop' = [pop EXCEPT !.pc = "snapshot"]
    /\ UNCHANGED <<ring, signal, push, got>>

\* The 4 ms health cadence, or a session socket.
PollOther ==
    /\ pop.pc = "poll"
    /\ pop' = [pop EXCEPT !.pc = "snapshot"]
    /\ UNCHANGED <<ring, signal, push, got>>

-----------------------------------------------------------------------------
PushStep == PushStore \/ PushHigh \/ PushPublish \/ NotifyBump \/ NotifyEvent

WorkStep ==
    \/ WorkSnapshot \/ PopLoad \/ PopRead \/ PopRelease \/ WaitDrain \/ WaitCompare
    \/ PollReadable

Next ==
    \/ (\E v \in Values : PushLoad(v)) \/ PushRefused \/ PushStep
    \/ WorkStep \/ PollOther

Spec == Init /\ [][Next]_vars

\* Both threads run; no fairness for the 4 ms cadence, so that nothing rests on it.
FairSpec == Spec /\ WF_vars(PushStep) /\ WF_vars(WorkStep)

-----------------------------------------------------------------------------
\* Type invariant: an index never passes u64::MAX, and the high-water mark never
\* passes the capacity.
TypeOK ==
    /\ slots \in [Slots -> Values \cup {NoValue}]
    /\ read \in 0 .. MaxIndex /\ write \in 0 .. MaxIndex /\ high \in 0 .. Capacity
    /\ moved \in BOOLEAN /\ readable \in BOOLEAN /\ failed \in BOOLEAN
    /\ push \in [pc : {"idle", "store", "high", "publish", "bump", "event"},
                 value : Values \cup {NoValue}, r : 0 .. MaxIndex]
    /\ pop \in [pc : {"snapshot", "load", "read", "release", "drain", "compare", "poll",
                      "ended"},
                value : Values \cup {NoValue}]
    /\ got \in Values \cup {NoValue}

\* The two threads never touch the same slot at once: queue.rs's claim that neither
\* endpoint touches a slot while the other owns it.
NoSlotRace ==
    push.pc = "store" /\ pop.pc = "read" => write % Capacity # read % Capacity

\* The high-water mark is never below the number of items inside.
HighWaterCovers == write - read <= high

\* Up to the last index the two threads own different slots, every word keeps its
\* type and the mark covers the contents.
RingSafety == TypeOK /\ NoSlotRace /\ HighWaterCovers

\* The ring is a bounded FIFO.
Contents == [i \in 1 .. write - read |-> slots[(read + i - 1) % Capacity]]

Queue == INSTANCE Fifo WITH queue <- Contents, last <- got

\* Every behaviour of the ring is one of the bounded FIFO.
RefinesFifo == Queue!Spec

\* Every item pushed is taken out without the help of the health cadence, unless the
\* signal broke.
NoWorkStranded ==
    \A k \in 1 .. MaxIndex : write >= k ~> (read >= k \/ failed)
=============================================================================

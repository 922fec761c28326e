-------------------------------- MODULE Fifo --------------------------------
(***************************************************************************)
(* What the native request queue promises: values come out once, in the    *)
(* order they went in, and never more than Capacity of them are inside.    *)
(***************************************************************************)
EXTENDS Naturals, Sequences

CONSTANTS Values, Capacity, NoValue

VARIABLES queue,  \* values inside, oldest first
          last    \* the value taken out last

Init == queue = <<>> /\ last = NoValue

Enqueue(v) ==
    /\ Len(queue) < Capacity
    /\ queue' = Append(queue, v)
    /\ UNCHANGED last

Dequeue ==
    /\ queue # <<>>
    /\ last' = Head(queue)
    /\ queue' = Tail(queue)

Next == Dequeue \/ \E v \in Values : Enqueue(v)

Spec == Init /\ [][Next]_<<queue, last>>
=============================================================================

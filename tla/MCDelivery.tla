----------------------------- MODULE MCDelivery -----------------------------
(* Small instances of Delivery for TLC.                                    *)
EXTENDS Delivery, TLC

\* Same-callback delivery of the older protocol, without an overlapped start;
\* buffered delivery with one; buffered offline rendering, which queues its
\* blocks without waiting for the start.
MCModes ==
    {[exact |-> TRUE, overlap |-> FALSE, offline |-> FALSE],
     [exact |-> FALSE, overlap |-> TRUE, offline |-> FALSE],
     [exact |-> FALSE, overlap |-> TRUE, offline |-> TRUE]}

Symmetry == Permutations(Params)
=============================================================================

------------------------------ MODULE BoundedFifo ------------------------------
(***************************************************************************)
(* What the recorder's FIFO promises: a queue of at most Capacity blocks    *)
(* that come out in the order they went in. A block that finds the queue    *)
(* full is dropped and disturbs no other; the block taken out last stays    *)
(* as it is until the next one is taken.                                    *)
(***************************************************************************)
EXTENDS Naturals, Sequences

CONSTANTS Blocks, Capacity

VARIABLES queue, taken

Init == queue = << >> /\ taken \in Blocks

Put == /\ Len(queue) < Capacity
       /\ \E b \in Blocks: queue' = Append(queue, b)
       /\ UNCHANGED taken

Take == /\ queue # << >>
        /\ taken' = Head(queue)
        /\ queue' = Tail(queue)

Spec == Init /\ [][Put \/ Take]_<<queue, taken>>

=============================================================================

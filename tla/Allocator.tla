----------------------------- MODULE Allocator -----------------------------
(***************************************************************************)
(* What MALLOC/malloc.c promises its callers, without its table: a pool of *)
(* TblSize blocks from which a task takes a run of blocks nobody else      *)
(* holds, and to which it gives back exactly a run it holds.               *)
(***************************************************************************)
EXTENDS Integers

CONSTANTS Task,     \* the tasks that allocate
          TblSize   \* number of blocks in the pool

VARIABLE held       \* held[t]: the runs of blocks task t owns

Cells == 0 .. (TblSize - 1)
Chunk == [off : Cells, len : 1 .. TblSize]
Span(c) == c.off .. (c.off + c.len - 1)

Owned(i) == \E t \in Task : \E c \in held[t] : i \in Span(c)

Init == held = [t \in Task |-> {}]

Take(t, c) ==
    /\ Span(c) \subseteq Cells
    /\ \A i \in Span(c) : ~ Owned(i)
    /\ held' = [held EXCEPT ![t] = @ \cup {c}]

Give(t, c) ==
    /\ c \in held[t]
    /\ held' = [held EXCEPT ![t] = @ \ {c}]

Next == \E t \in Task, c \in Chunk : Take(t, c) \/ Give(t, c)

Spec == Init /\ [][Next]_held
=============================================================================

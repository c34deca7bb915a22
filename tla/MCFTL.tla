------------------------------- MODULE MCFTL -------------------------------
(* Small instances of FTL.  A block has two pages of one sector; half of the *)
(* good blocks hold data, so that each plane (even, odd blocks) has spares.  *)
EXTENDS FTL

MCVal == {"a", "b"}
MCOneVal == {"a"}
MCNoBad == {}
MCFirstBad == {0}
MCUnbounded == -1

\* Calls touch the last three sectors of the first logical block and the first
\* of the second one.
AcrossBlocks ==
    call.op \in {"read", "write"} => call.at > 0 /\ call.at + call.n <= SecPerBlk + 1

=============================================================================

----------------------------- MODULE MCSpiFlash -----------------------------
(* An instance of SpiFlash for TLC: three sectors of two pages; the writes   *)
(* begin anywhere and reach over a page, a sector, or two of them.           *)
EXTENDS SpiFlash

MCData == {<<{0}>>, <<{1}, {0}>>, <<{0}, {1}, {0}, {1}>>, <<{1}, {0}, {1}, {0}, {1}, {0}, {1}>>}

=============================================================================

------------------------------- MODULE MCAudio -------------------------------
(* Instances of Audio for TLC.                                              *)
EXTENDS Audio

\* a song that ends in its third block and one that cannot be played
MCSongLen == <<3, 0>>

=============================================================================

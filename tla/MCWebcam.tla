------------------------------- MODULE MCWebcam -------------------------------
(* An instance of Webcam for TLC.                                           *)
EXTENDS Webcam

MCConns == {1, 2}

=============================================================================

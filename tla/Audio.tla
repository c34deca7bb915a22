-------------------------------- MODULE Audio --------------------------------
(***************************************************************************)
(* main_task with the two applications that own the SAI: the player, whose  *)
(* audio task goes on when its screens are left, and the recorder, which    *)
(* stops the music before it takes the SAI over (recorder.c:496-506).       *)
(***************************************************************************)
EXTENDS Player, Recorder

vars == <<pvars, rvars>>

Init == PlayerInit /\ RecInit

OpenRecorder == StartRecorder /\ RecEnter

CloseRecorder == LeaveRecorder /\ RecLeave

Next ==
    \/ PlayerNext /\ UNCHANGED rvars
    \/ RecStay /\ UNCHANGED pvars
    \/ OpenRecorder
    \/ CloseRecorder

Fairness ==
    /\ WF_vars(AudioTask /\ UNCHANGED rvars)
    /\ WF_vars(WavSaiDmaTxCallback /\ UNCHANGED rvars)
    /\ SF_vars(MainCode /\ UNCHANGED rvars)
    /\ SF_vars(OpenRecorder)

Spec == Init /\ [][Next]_vars /\ Fairness

-----------------------------------------------------------------------------
(* The two never share the SAI: while the recorder runs there is no audio   *)
(* task and no player DMA, and the audio task cannot come back to life.     *)
SaiHasOneUser == rp # "away" => aud = "none" /\ ~dma /\ status = {}

=============================================================================

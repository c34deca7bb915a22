-------------------------------- MODULE Player --------------------------------
(***************************************************************************)
(* The music player: the audio task (audioplay.c, priority 2) playing WAV   *)
(* files (wavplay.c) through a DMA double buffer (sai.c), and the part of   *)
(* main_task (priority 6) that starts, skips, pauses and stops it.          *)
(*                                                                          *)
(* The audio task runs from one blocking call to the next before main_task  *)
(* gets the processor (MainRuns), but it wakes at any time, also between    *)
(* the load and the store of one of main_task's updates of audiodev.status. *)
(* The DMA interrupt comes between any two steps.                           *)
(***************************************************************************)
EXTENDS Naturals, Sequences

CONSTANTS
    SongLen         \* the number of full blocks of each song; 0: not playable

ASSUME SongLenAssumption == SongLen \in Seq(Nat) /\ SongLen # << >>

VARIABLES
    status,         \* audiodev.status: the names of the bits that are set
    mbox,           \* audiombox: 0, or the song that is asked for
    curindex,       \* audiodev.curindex
    aud,            \* where the audio task is
    main,           \* where main_task is
    goal,           \* what main_task does once the music has stopped
    reg,            \* the value main_task is about to store in status
    fpos,           \* blocks read from the song
    short,          \* fillnum!=WAV_SAI_TX_DMA_BUFSIZE
    buf,            \* block in saibuf1 and saibuf2; 0: silence
    ct,             \* the buffer the DMA is sending
    dma,            \* the DMA stream is enabled
    wavtransferend,
    wavwitchbuf,
    heard,          \* the last block of the song that was sent
    slipped         \* no variable of the program: an interrupt of this song came
                    \* before the buffer of the one before it was dealt with

wavVars  == <<fpos, short, buf, ct, dma, wavtransferend, wavwitchbuf, heard, slipped>>
mainVars == <<main, goal, reg>>
pvars    == <<status, mbox, curindex, aud, mainVars, wavVars>>

\* bits 7, 6, 5, 4, 1 and 0
Bits  == {"task", "quit", "skip", "playing", "play", "go"}
Songs == 1..Len(SongLen)
Goals == {"none", "first", "list", "next", "leave", "recorder"}

\* the i-th block read from song s; the last one is short, then nothing comes
BlockAt(s, i) == IF i <= SongLen[s] + 1 THEN i ELSE 0

\* Mutant: the index is not wrapped.
FollowingUnwrapped(s) == s + 1

Following(s) == IF s < Len(SongLen) THEN s + 1 ELSE 1

TypeOK ==
    /\ status \subseteq Bits
    /\ mbox \in Songs \cup {0}
    /\ curindex \in Songs
    /\ aud \in {"none", "pend", "next", "loop", "sleep", "fill", "check", "nap"}
    /\ main \in {"idle", "list", "posted", "ui", "stop", "quit", "stopped",
                 "store", "recorder"}
    /\ goal \in Goals
    /\ reg \in [val: SUBSET Bits, cont: {"none", "ui", "stop", "quit", "stopped"}]
    /\ fpos \in Nat
    /\ short \in BOOLEAN
    /\ buf \in [0..1 -> Nat]
    /\ ct \in 0..1
    /\ dma \in BOOLEAN
    /\ wavtransferend \in 0..1
    /\ wavwitchbuf \in 0..1
    /\ heard \in Nat
    /\ slipped \in BOOLEAN

NoReg == [val |-> {}, cont |-> "none"]

PlayerInit ==
    /\ status = {}
    /\ mbox = 0
    /\ curindex = 1
    /\ aud = "none"
    /\ main = "idle"
    /\ goal = "none"
    /\ reg = NoReg
    /\ fpos = 0
    /\ short = FALSE
    /\ buf = [k \in 0..1 |-> 0]
    /\ ct = 0
    /\ dma = FALSE
    /\ wavtransferend = 0
    /\ wavwitchbuf = 0
    /\ heard = 0
    /\ slipped = FALSE

-----------------------------------------------------------------------------
(* The audio task.                                                          *)

MainRuns == aud \in {"none", "sleep", "nap"} \/ (aud = "pend" /\ mbox = 0)

\* the end of audio_play_task's loop: back to the mailbox
PlayOver(st) ==
    /\ status' = st \ {"quit", "playing"}
    /\ aud' = "pend"
    /\ UNCHANGED curindex

\* after a song: stop if asked to, or go on with the next one
AfterSong(st) ==
    \/ /\ "quit" \in st
       /\ PlayOver(st)
    \/ /\ "quit" \notin st
       /\ status' = st
       /\ aud' = "next"
       /\ curindex' = Following(curindex)

TakeMail ==
    /\ aud = "pend"
    /\ mbox # 0
    /\ curindex' = mbox
    /\ mbox' = 0
    /\ aud' = "next"
    /\ UNCHANGED <<status, mainVars, wavVars>>

\* f_opendir or f_readdir fails, for instance because the disk was pulled out
DirFails ==
    /\ aud = "next"
    /\ PlayOver(status)
    /\ UNCHANGED <<mbox, mainVars, wavVars>>

BadSong ==
    /\ aud = "next"
    /\ SongLen[curindex] = 0
    /\ AfterSong(status \cup {"skip", "playing"})
    /\ UNCHANGED <<mbox, mainVars, wavVars>>

\* wav_play_song up to its loop: fill both buffers and start the DMA
WavPlaySong ==
    /\ aud = "next"
    /\ SongLen[curindex] > 0
    /\ status' = status \cup {"skip", "playing", "play", "go"}
    /\ buf' = [k \in 0..1 |-> BlockAt(curindex, k + 1)]
    /\ fpos' = 2
    /\ short' = FALSE
    /\ ct' = 0
    /\ dma' = TRUE
    /\ heard' = 0
    /\ slipped' = (wavtransferend = 1)
    /\ aud' = "loop"
    /\ UNCHANGED <<mbox, curindex, mainVars, wavtransferend, wavwitchbuf>>

WaitTransfer ==
    /\ aud = "loop"
    /\ wavtransferend = 0
    /\ aud' = "sleep"
    /\ UNCHANGED <<status, mbox, curindex, mainVars, wavVars>>

\* delay_ms ends, at any time: also inside an update of status by main_task
Wake ==
    /\ aud \in {"sleep", "nap"}
    /\ aud' = IF aud = "sleep" THEN "loop" ELSE "check"
    /\ UNCHANGED <<status, mbox, curindex, mainVars, wavVars>>

ClearTransferEnd ==
    /\ aud = "loop"
    /\ wavtransferend = 1
    /\ wavtransferend' = 0
    /\ aud' = "fill"
    /\ UNCHANGED <<status, mbox, curindex, mainVars, fpos, short, buf, ct, dma,
                   wavwitchbuf, heard, slipped>>

\* Mutant: fills the other buffer.
FilledOther == [buf EXCEPT ![1 - wavwitchbuf] = BlockAt(curindex, fpos + 1)]

\* wav_buffill into the buffer the last interrupt named
Filled == [buf EXCEPT ![wavwitchbuf] = BlockAt(curindex, fpos + 1)]

WavBuffill ==
    /\ aud = "fill"
    /\ buf' = Filled
    /\ fpos' = fpos + 1
    /\ short' = (fpos >= SongLen[curindex])
    /\ aud' = "check"
    /\ UNCHANGED <<status, mbox, curindex, mainVars, ct, dma, wavtransferend,
                   wavwitchbuf, heard, slipped>>

\* Mutant: the pause is not ended by a request to stop.
PausedForGood == "go" \notin status

Paused == status \cap {"play", "go"} = {"play"}

PauseNap ==
    /\ aud = "check"
    /\ Paused
    /\ aud' = "nap"
    /\ UNCHANGED <<status, mbox, curindex, mainVars, wavVars>>

PlayOn ==
    /\ aud = "check"
    /\ {"play", "go"} \subseteq status
    /\ ~short
    /\ aud' = "loop"
    /\ UNCHANGED <<status, mbox, curindex, mainVars, wavVars>>

\* the buffers and the file are freed
WavFreed ==
    /\ buf' = [k \in 0..1 |-> 0]
    /\ fpos' = 0
    /\ short' = FALSE
    /\ ct' = 0
    /\ heard' = 0
    /\ slipped' = FALSE

\* Mutant: the DMA stream is left on.
SongEndsOn ==
    /\ aud = "check"
    /\ ~Paused
    /\ "play" \notin status \/ short
    /\ WavFreed
    /\ AfterSong(status \ {"play", "go"})
    /\ UNCHANGED <<mbox, mainVars, dma, wavtransferend, wavwitchbuf>>

SongEnds ==
    /\ aud = "check"
    /\ ~Paused
    /\ "play" \notin status \/ short
    /\ WavFreed
    /\ dma' = FALSE
    /\ AfterSong(status \ {"play", "go"})
    /\ UNCHANGED <<mbox, mainVars, wavtransferend, wavwitchbuf>>

AudioTask ==
    \/ TakeMail \/ DirFails \/ BadSong \/ WavPlaySong \/ WaitTransfer \/ Wake
    \/ ClearTransferEnd \/ WavBuffill \/ PauseNap \/ PlayOn \/ SongEnds

-----------------------------------------------------------------------------
(* The DMA and its interrupt.                                               *)

\* The buffer that was sent last is still to be filled, and not silent: the DMA
\* is about to send it again, or the audio task about to fill the wrong one.
Unfilled == aud = "fill" \/ (wavtransferend = 1 /\ buf[wavwitchbuf] # 0)

WavSaiDmaTxCallback ==
    /\ dma
    /\ slipped' = (slipped \/ Unfilled)
    /\ ct' = 1 - ct
    /\ wavwitchbuf' = ct
    /\ wavtransferend' = 1
    /\ heard' = IF buf[ct] # 0 THEN buf[ct] ELSE heard
    /\ buf' = IF "go" \in status THEN buf ELSE [buf EXCEPT ![ct] = 0]
    /\ UNCHANGED <<status, mbox, curindex, aud, mainVars, fpos, short, dma>>

-----------------------------------------------------------------------------
(* main_task.                                                               *)

\* status is read, changed in a register and written back
Load(val, cont) ==
    /\ reg' = [val |-> val, cont |-> cont]
    /\ main' = "store"
    /\ UNCHANGED <<status, mbox, curindex, aud, goal, wavVars>>

Store ==
    /\ MainRuns
    /\ main = "store"
    /\ status' = reg.val
    /\ main' = reg.cont
    /\ reg' = NoReg
    /\ UNCHANGED <<mbox, curindex, aud, goal, wavVars>>

Goto(pc, g) ==
    /\ main' = pc
    /\ goal' = g
    /\ UNCHANGED <<status, mbox, curindex, aud, reg, wavVars>>

\* audio_play: create the task, or return to a player still at work
AudioTaskCreat ==
    /\ MainRuns
    /\ main = "idle"
    /\ "task" \notin status
    /\ status' = {"task"}
    /\ curindex' = 1
    /\ aud' = "pend"
    /\ main' = "list"
    /\ UNCHANGED <<mbox, goal, reg, wavVars>>

AudioPlayAgain ==
    /\ MainRuns
    /\ main = "idle"
    /\ "task" \in status
    /\ Load(status \cup {"skip"}, "ui")

FirstSong ==
    /\ MainRuns
    /\ main = "list"
    /\ Goto("stop", "first")

\* buttons of the player: file list, previous or next, back while paused
Button ==
    /\ MainRuns
    /\ main = "ui"
    /\ \/ \E g \in {"list", "next"}: Goto("stop", g)
       \/ /\ "go" \notin status
          /\ Goto("stop", "leave")
       \/ /\ "go" \in status
          /\ Goto("idle", "none")

PauseButton ==
    /\ MainRuns
    /\ main = "ui"
    /\ Load(IF "go" \in status THEN status \ {"go"} ELSE status \cup {"go"}, "ui")

AudioInfoUpd ==
    /\ MainRuns
    /\ main = "ui"
    /\ {"skip", "play"} \subseteq status
    /\ Load(status \ {"skip"}, "ui")

\* Mutant: the request to quit is left set.
StopTestKeepsQuit ==
    /\ MainRuns
    /\ main = "stop"
    /\ IF "playing" \in status THEN Load(status \ {"play"}, "quit")
                               ELSE Load(status, "stopped")

\* audio_stop_req: a turn of its loop, or the end of it
StopTest ==
    /\ MainRuns
    /\ main = "stop"
    /\ IF "playing" \in status THEN Load(status \ {"play"}, "quit")
                               ELSE Load(status \ {"quit"}, "stopped")

StopQuit ==
    /\ MainRuns
    /\ main = "quit"
    /\ Load(status \cup {"quit"}, "stop")

Post(s) == mbox' = IF mbox = 0 THEN s ELSE mbox

PlayList ==
    /\ MainRuns
    /\ main = "stopped"
    /\ goal \in {"first", "list"}
    /\ \E s \in Songs: Post(s)
    /\ main' = "posted"
    /\ UNCHANGED <<status, curindex, aud, goal, reg, wavVars>>

PlayNext ==
    /\ MainRuns
    /\ main = "stopped"
    /\ goal = "next"
    /\ \E s \in Songs: Post(s) /\ curindex' = s
    /\ main' = "ui"
    /\ goal' = "none"
    /\ UNCHANGED <<status, aud, reg, wavVars>>

\* audio_task_delete, where main_task goes on at pc; curindex has no meaning
\* until the next task is created
TaskDelete(pc) ==
    /\ status' = {}
    /\ aud' = "none"
    /\ main' = pc
    /\ goal' = "none"
    /\ curindex' = 1
    /\ UNCHANGED <<mbox, reg, wavVars>>

\* the song that was chosen could not be opened, or none was chosen
NothingPlays ==
    /\ MainRuns
    /\ \/ main = "list"
       \/ main = "posted" /\ goal = "first" /\ status = {"task"}
    /\ TaskDelete("idle")

Posted ==
    /\ MainRuns
    /\ main = "posted"
    /\ \/ /\ goal = "first"
          /\ status # {"task"}
          /\ Goto("ui", "none")
       \/ /\ goal = "list"
          /\ reg' = [val |-> status \cup {"skip"}, cont |-> "ui"]
          /\ main' = "store"
          /\ goal' = "none"
          /\ UNCHANGED <<status, mbox, curindex, aud, wavVars>>

LeavePlayer ==
    /\ MainRuns
    /\ main = "stopped"
    /\ goal = "leave"
    /\ TaskDelete("idle")

\* recorder_play stops the music before it takes the SAI over
RecorderWanted ==
    /\ MainRuns
    /\ main = "idle"
    /\ "task" \in status
    /\ Goto("stop", "recorder")

\* Mutant: the music is not stopped.
StartRecorderPlaying ==
    /\ MainRuns
    /\ main = "idle"
    /\ Goto("recorder", "none")

StartRecorder ==
    /\ MainRuns
    /\ \/ /\ main = "stopped"
          /\ goal = "recorder"
          /\ TaskDelete("recorder")
       \/ /\ main = "idle"
          /\ "task" \notin status
          /\ Goto("recorder", "none")

LeaveRecorder ==
    /\ main = "recorder"
    /\ Goto("idle", "none")

\* the steps main_task takes on its own, once a button was pressed
MainCode == \/ Store \/ StopTest \/ StopQuit \/ PlayList \/ PlayNext
            \/ Posted \/ LeavePlayer

User == \/ AudioTaskCreat \/ AudioPlayAgain \/ FirstSong \/ Button \/ PauseButton
        \/ AudioInfoUpd \/ NothingPlays \/ RecorderWanted

\* what goes on while main_task is in the player or in no application
PlayerNext == AudioTask \/ WavSaiDmaTxCallback \/ MainCode \/ User

-----------------------------------------------------------------------------
(* When main_task leaves audio_stop_req it frees the path and the song      *)
(* table or the task itself (audioplay.c:268, 682, 695): the audio task is  *)
(* then waiting for mail and the DMA is off.                                *)
AtRest == main = "stopped" => aud = "pend" /\ mbox = 0 /\ ~dma

(* A song is started from the mailbox with no request to stop left over     *)
(* from the previous one, which would end it after this song                *)
(* (audioplay.c:160, 177).                                                  *)
NoLeftoverQuit == mbox # 0 => "quit" \notin status

(* Double buffer: the blocks of a song are sent in order, none twice and     *)
(* none left out, through pauses and stops, until an interrupt comes before  *)
(* the buffer of the last one was dealt with; a song that ends by itself     *)
(* has been sent but for its last two blocks, which the DMA never gets to    *)
(* the end of (wavplay.c:226-251).                                           *)
InOrder == dma /\ ~slipped /\ ~slipped' =>
    /\ heard' \notin {heard, 0} => heard' = heard + 1
    /\ short /\ ~dma' => heard + 1 >= SongLen[curindex]
BlocksInOrder == [][InOrder]_pvars

(* audio_stop_req returns (audioplay.c:169-178), unless bit 4 was written    *)
(* back after the audio task had cleared it, as long as the audio task lets  *)
(* main_task run again and again, which it does while a block of the DMA     *)
(* takes longer than filling one.                                            *)
Phantom == "playing" \in status /\ aud = "pend"
StopEnds == []<>MainRuns => (main = "stop" ~> (main = "stopped" \/ Phantom))

(* audio_stop_req waits for the end of the music and returns                 *)
(* (audioplay.c:168, 171). The run that checks this finds that it need not.  *)
StopReturns == []<>MainRuns => (main = "stop" ~> main = "stopped")

\* Weak fairness of the audio task, the task of highest priority here, and of
\* the DMA; strong fairness of main_task, which has a tick at least whenever the
\* audio task waits.
PlayerFairness ==
    /\ WF_pvars(AudioTask)
    /\ WF_pvars(WavSaiDmaTxCallback)
    /\ SF_pvars(MainCode)

PlayerSpec == PlayerInit /\ [][PlayerNext]_pvars /\ PlayerFairness

=============================================================================

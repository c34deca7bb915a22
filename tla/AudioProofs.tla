----------------------------- MODULE AudioProofs -----------------------------
(* Proofs about the player, and about the player and the recorder together,  *)
(* for every list of songs, every length of the recorder's FIFO and any       *)
(* number of blocks in a recording.                                          *)
EXTENDS Audio, RecorderProofs

\* The audio task exists exactly while its bit is set, and the player is open or
\* left running; the recorder has neither.
TaskThere ==
    /\ aud = "none" <=> "task" \notin status
    /\ aud = "none" => status = {}
    /\ main \notin {"idle", "recorder"} => aud # "none"
    /\ main = "recorder" => aud = "none"

\* The bit for playing is set throughout a song, and the DMA is on for exactly as
\* long as the audio task is in the loop over one. The bit may be set when there is
\* no song: main_task may write it back after the audio task has cleared it.
InSong == aud \in {"loop", "sleep", "fill", "check", "nap"}
PlayingTrue ==
    /\ InSong => "playing" \in status
    /\ dma <=> InSong

\* What main_task is about to store may be out of date, but not in what decides
\* whether there is a task, and whether it is at rest.
StoreInTime ==
    main = "store" =>
        /\ "task" \in reg.val <=> "task" \in status
        /\ "playing" \notin reg.val => aud = "pend" /\ mbox = 0
        /\ reg.cont = "stopped" => "playing" \notin reg.val /\ "quit" \notin reg.val

\* Mail comes from a player that is at rest, and is taken before main_task goes on.
MailTaken ==
    /\ mbox # 0 => /\ aud = "pend"
                   /\ main \in {"posted", "ui"}
                   /\ "quit" \notin status
    /\ main \in {"list", "stopped"} => aud = "pend" /\ mbox = 0
    /\ main = "stopped" => "quit" \notin status

\* The last block of the song that was read; what comes behind it is silence.
LastRead == IF fpos <= SongLen[curindex] THEN fpos ELSE SongLen[curindex] + 1

\* Of a sequence of buffers to be sent, the first holds block b or silence, and so
\* on, up to the block read last.
Next1(b, k) == IF buf[k] = 0 THEN b ELSE b + 1
Holds(b, k) == buf[k] # 0 => buf[k] = b + 1

\* Before the callback both buffers are to be sent; after it the one it named is
\* to be filled first.
BothFull ==
    /\ Holds(heard, ct)
    /\ Holds(Next1(heard, ct), 1 - ct)
    /\ LastRead = Next1(Next1(heard, ct), 1 - ct)
OneFull ==
    /\ wavwitchbuf = 1 - ct
    /\ Holds(heard, ct)
    /\ LastRead = Next1(heard, ct)
BuffersInOrder ==
    dma /\ ~slipped =>
        /\ aud = "fill" => wavtransferend = 0
        /\ IF wavtransferend = 0 /\ aud # "fill" THEN BothFull ELSE OneFull

\* A short block is the last one of its song.
ShortIsLast == dma /\ short => fpos > SongLen[curindex]

-----------------------------------------------------------------------------
(* The parts of the type invariant.                                          *)
Conts == {"none", "ui", "stop", "quit", "stopped"}
PlayWords ==
    /\ status \subseteq Bits
    /\ mbox \in Songs \cup {0}
    /\ curindex \in Songs
    /\ aud \in {"none", "pend", "next", "loop", "sleep", "fill", "check", "nap"}
    /\ main \in {"idle", "list", "posted", "ui", "stop", "quit", "stopped",
                 "store", "recorder"}
    /\ goal \in Goals
    /\ reg \in [val: SUBSET Bits, cont: Conts]
    /\ main = "store" => reg.cont # "none"
PlayBuffers ==
    /\ fpos \in Nat
    /\ buf \in [0..1 -> Nat]
    /\ ct \in 0..1
    /\ wavtransferend \in 0..1
    /\ wavwitchbuf \in 0..1
    /\ heard \in Nat
PlayFlags ==
    /\ short \in BOOLEAN
    /\ dma \in BOOLEAN
    /\ slipped \in BOOLEAN

\* What main_task and the audio task do to the player's variables.
PlayStep == PlayerNext \/ StartRecorder \/ LeaveRecorder

LEMMA PlayParts == PlayWords /\ PlayBuffers /\ PlayFlags => TypeOK
BY DEF PlayWords, PlayBuffers, PlayFlags, TypeOK, Conts

LEMMA SongNumbers ==
    /\ Len(SongLen) \in Nat \ {0}
    /\ Songs = 1..Len(SongLen)
    /\ \A s \in Songs: SongLen[s] \in Nat /\ Following(s) \in Songs
    /\ 1 \in Songs /\ 0 \notin Songs
<1>1. Len(SongLen) \in Nat \ {0}
  BY SongLenAssumption, EmptySeq, LenProperties
<1>2. \A s \in 1..Len(SongLen): SongLen[s] \in Nat
  BY SongLenAssumption, ElementOfSeq
<1> QED
  BY <1>1, <1>2 DEF Songs, Following

LEMMA PlayWordsStep ==
    ASSUME PlayWords, [PlayStep]_pvars
    PROVE  PlayWords'
<1> USE SongNumbers
<1> USE DEF PlayWords, Bits, Goals, Conts, wavVars, mainVars
<1>1. CASE TakeMail \/ DirFails
  BY <1>1 DEF TakeMail, DirFails, PlayOver
<1>2. CASE BadSong \/ SongEnds
  <2>1. PICK st \in SUBSET Bits: AfterSong(st)
    BY <1>2 DEF BadSong, SongEnds
  <2>2. status' \subseteq Bits /\ aud' \in {"pend", "next"} /\ curindex' \in Songs
    BY <2>1 DEF AfterSong, PlayOver
  <2> QED
    BY <1>2, <2>2 DEF BadSong, SongEnds
<1>3. CASE WavPlaySong
  BY <1>3 DEF WavPlaySong
<1>4. CASE WaitTransfer \/ Wake \/ ClearTransferEnd \/ PauseNap \/ PlayOn
  <2>1. CASE WaitTransfer
    BY <2>1 DEF WaitTransfer
  <2>2. CASE Wake
    BY <2>2 DEF Wake
  <2>3. CASE ClearTransferEnd
    BY <2>3 DEF ClearTransferEnd
  <2>4. CASE PauseNap
    BY <2>4 DEF PauseNap
  <2>5. CASE PlayOn
    BY <2>5 DEF PlayOn
  <2> QED
    BY <1>4, <2>1, <2>2, <2>3, <2>4, <2>5
<1>5. CASE WavBuffill \/ WavSaiDmaTxCallback
  <2>1. CASE WavBuffill
    BY <2>1 DEF WavBuffill, Filled
  <2>2. CASE WavSaiDmaTxCallback
    BY <2>2 DEF WavSaiDmaTxCallback
  <2> QED
    BY <1>5, <2>1, <2>2
<1>6. CASE Store
  BY <1>6 DEF Store, MainRuns, NoReg
<1>7. CASE StopTest \/ StopQuit
  <2>1. PICK v \in SUBSET Bits, c \in Conts \ {"none"}: reg' = [val |-> v, cont |-> c]
    BY <1>7 DEF StopTest, StopQuit, Load
  <2>2. reg' \in [val: SUBSET Bits, cont: Conts] /\ reg'.cont # "none"
    BY <2>1
  <2> QED
    BY <1>7, <2>2 DEF StopTest, StopQuit, Load
<1>8. CASE PlayList \/ PlayNext
  BY <1>8 DEF PlayList, PlayNext, MainRuns, Post
<1>9. CASE Posted
  <2>1. CASE goal = "first"
    BY <1>9, <2>1 DEF Posted, Goto
  <2>2. CASE goal = "list"
    <3>1. reg' = [val |-> status \cup {"skip"}, cont |-> "ui"]
      BY <1>9, <2>2 DEF Posted
    <3>2. reg' \in [val: SUBSET Bits, cont: Conts] /\ reg'.cont = "ui"
      BY <3>1
    <3> QED
      BY <1>9, <2>2, <3>2 DEF Posted
  <2> QED
    BY <1>9, <2>1, <2>2 DEF Posted
<1>10. CASE AudioTaskCreat
  BY <1>10 DEF AudioTaskCreat, MainRuns
<1>11. CASE LeavePlayer \/ NothingPlays \/ StartRecorder
  BY <1>11 DEF LeavePlayer, NothingPlays, StartRecorder, MainRuns, TaskDelete, Goto
<1>12. CASE AudioPlayAgain \/ PauseButton \/ AudioInfoUpd
  <2>1. PICK v \in SUBSET Bits: reg' = [val |-> v, cont |-> "ui"]
    BY <1>12 DEF AudioPlayAgain, PauseButton, AudioInfoUpd, Load
  <2>2. reg' \in [val: SUBSET Bits, cont: Conts] /\ reg'.cont = "ui"
    BY <2>1
  <2> QED
    BY <1>12, <2>2 DEF AudioPlayAgain, PauseButton, AudioInfoUpd, Load
<1>13. CASE FirstSong \/ Button \/ RecorderWanted \/ LeaveRecorder
  BY <1>13 DEF FirstSong, Button, RecorderWanted, LeaveRecorder, MainRuns, Goto
<1>14. CASE UNCHANGED pvars
  BY <1>14 DEF pvars
<1> QED
  BY <1>1, <1>2, <1>3, <1>4, <1>5, <1>6, <1>7, <1>8, <1>9, <1>10, <1>11,
     <1>12, <1>13, <1>14
  DEF PlayStep, PlayerNext, AudioTask, MainCode, User

LEMMA PlayBuffersStep ==
    ASSUME PlayBuffers, curindex \in Songs, [PlayStep]_pvars
    PROVE  PlayBuffers'
<1> USE DEF PlayBuffers, wavVars, mainVars
<1>1. CASE TakeMail \/ DirFails \/ BadSong \/ SongEnds
  BY <1>1 DEF TakeMail, DirFails, BadSong, SongEnds, PlayOver, AfterSong, WavFreed
<1>2. CASE WavPlaySong
  <2>1. \A k \in 0..1: BlockAt(curindex, k + 1) \in Nat
    BY SongNumbers DEF BlockAt
  <2> QED
    BY <1>2, <2>1 DEF WavPlaySong
<1>3. CASE WaitTransfer \/ Wake \/ ClearTransferEnd \/ PauseNap \/ PlayOn
  BY <1>3 DEF WaitTransfer, Wake, ClearTransferEnd, PauseNap, PlayOn
<1>4. CASE WavBuffill
  <2>1. BlockAt(curindex, fpos + 1) \in Nat
    BY SongNumbers DEF BlockAt
  <2> QED
    BY <1>4, <2>1 DEF WavBuffill, Filled
<1>5. CASE WavSaiDmaTxCallback
  BY <1>5 DEF WavSaiDmaTxCallback
<1>6. CASE Store \/ StopTest \/ StopQuit \/ PlayList \/ PlayNext
  BY <1>6 DEF Store, StopTest, StopQuit, PlayList, PlayNext, MainRuns, NoReg, Load,
       Post
<1>7. CASE Posted \/ LeavePlayer \/ AudioTaskCreat \/ NothingPlays \/
          StartRecorder \/ AudioPlayAgain \/ FirstSong \/ Button \/
          PauseButton \/ AudioInfoUpd \/ RecorderWanted \/ LeaveRecorder
  BY <1>7 DEF Posted, LeavePlayer, AudioTaskCreat, NothingPlays, StartRecorder,
       AudioPlayAgain, FirstSong, Button, PauseButton, AudioInfoUpd,
       RecorderWanted, LeaveRecorder, MainRuns, Goto, TaskDelete, Load
<1>8. CASE UNCHANGED pvars
  BY <1>8 DEF pvars
<1> QED
  BY <1>1, <1>2, <1>3, <1>4, <1>5, <1>6, <1>7, <1>8
  DEF PlayStep, PlayerNext, AudioTask, MainCode, User

LEMMA PlayFlagsStep ==
    ASSUME PlayFlags, [PlayStep]_pvars
    PROVE  PlayFlags'
<1> USE DEF PlayFlags, wavVars, mainVars
<1>1. CASE TakeMail \/ DirFails \/ BadSong \/ SongEnds \/
          WaitTransfer \/ Wake \/ ClearTransferEnd \/ PauseNap \/ PlayOn
  BY <1>1 DEF TakeMail, DirFails, BadSong, SongEnds, WaitTransfer, Wake,
       ClearTransferEnd, PauseNap, PlayOn, PlayOver, AfterSong, WavFreed
<1>2. CASE WavBuffill
  BY <1>2 DEF WavBuffill, Filled
<1>3. CASE WavSaiDmaTxCallback \/ WavPlaySong
  <2>1. slipped' = (slipped \/ Unfilled) \/ slipped' = (wavtransferend = 1)
    BY <1>3 DEF WavSaiDmaTxCallback, WavPlaySong
  <2>2. slipped' \in BOOLEAN
    BY ONLY <2>1
  <2> QED
    BY <1>3, <2>2 DEF WavSaiDmaTxCallback, WavPlaySong
<1>4. CASE Store \/ StopTest \/ StopQuit \/ PlayList \/ PlayNext
  BY <1>4 DEF Store, StopTest, StopQuit, PlayList, PlayNext, MainRuns, NoReg, Load,
       Post
<1>5. CASE Posted \/ LeavePlayer \/ AudioTaskCreat \/ NothingPlays \/
          StartRecorder \/ AudioPlayAgain \/ FirstSong \/ Button \/
          PauseButton \/ AudioInfoUpd \/ RecorderWanted \/ LeaveRecorder
  BY <1>5 DEF Posted, LeavePlayer, AudioTaskCreat, NothingPlays, StartRecorder,
       AudioPlayAgain, FirstSong, Button, PauseButton, AudioInfoUpd,
       RecorderWanted, LeaveRecorder, MainRuns, Goto, TaskDelete, Load
<1>6. CASE UNCHANGED pvars
  BY <1>6 DEF pvars
<1> QED
  BY <1>1, <1>2, <1>3, <1>4, <1>5, <1>6
  DEF PlayStep, PlayerNext, AudioTask, MainCode, User

LEMMA TaskThereStep ==
    ASSUME PlayWords, StoreInTime, TaskThere, [PlayStep]_pvars
    PROVE  TaskThere'
<1> USE DEF PlayWords, StoreInTime, TaskThere, Bits, Conts, wavVars, mainVars
<1>1. CASE TakeMail \/ DirFails \/ BadSong \/ SongEnds \/ WavPlaySong \/
          WaitTransfer \/ Wake \/ ClearTransferEnd \/ PauseNap \/ PlayOn
  BY <1>1 DEF TakeMail, DirFails, BadSong, SongEnds, WavPlaySong, WaitTransfer, Wake,
       ClearTransferEnd, PauseNap, PlayOn, PlayOver, AfterSong, WavFreed
<1>2. CASE WavBuffill \/ WavSaiDmaTxCallback
  BY <1>2 DEF WavBuffill, WavSaiDmaTxCallback, Filled
<1>3. CASE Store
  BY <1>3 DEF Store, MainRuns, NoReg
<1>4. CASE StopTest \/ StopQuit \/ PlayList \/ PlayNext
  BY <1>4 DEF StopTest, StopQuit, PlayList, PlayNext, MainRuns, Load, Post
<1>5. CASE Posted \/ LeavePlayer \/ AudioTaskCreat \/ NothingPlays \/
          StartRecorder
  BY <1>5 DEF Posted, LeavePlayer, AudioTaskCreat, NothingPlays, StartRecorder,
       MainRuns, Goto, TaskDelete
<1>6. CASE AudioPlayAgain \/ FirstSong \/ Button \/ PauseButton \/
          AudioInfoUpd \/ RecorderWanted \/ LeaveRecorder
  BY <1>6 DEF AudioPlayAgain, FirstSong, Button, PauseButton, AudioInfoUpd,
       RecorderWanted, LeaveRecorder, MainRuns, Load, Goto
<1>7. CASE UNCHANGED pvars
  BY <1>7 DEF pvars
<1> QED
  BY <1>1, <1>2, <1>3, <1>4, <1>5, <1>6, <1>7
  DEF PlayStep, PlayerNext, AudioTask, MainCode, User

LEMMA PlayingTrueStep ==
    ASSUME PlayWords, StoreInTime, TaskThere, MailTaken,
           PlayingTrue, [PlayStep]_pvars
    PROVE  PlayingTrue'
<1> USE DEF PlayWords, StoreInTime, TaskThere, MailTaken, PlayingTrue, InSong,
            Bits, wavVars, mainVars
<1>1. CASE TakeMail \/ DirFails \/ BadSong \/ SongEnds \/ WavPlaySong \/
          WaitTransfer \/ Wake \/ ClearTransferEnd \/ PauseNap \/ PlayOn
  BY <1>1 DEF TakeMail, DirFails, BadSong, SongEnds, WavPlaySong, WaitTransfer, Wake,
       ClearTransferEnd, PauseNap, PlayOn, PlayOver, AfterSong, WavFreed
<1>2. CASE WavBuffill \/ WavSaiDmaTxCallback
  BY <1>2 DEF WavBuffill, WavSaiDmaTxCallback, Filled
<1>3. CASE Store
  BY <1>3 DEF Store, MainRuns, NoReg
<1>4. CASE StopTest \/ StopQuit \/ PlayList \/ PlayNext
  BY <1>4 DEF StopTest, StopQuit, PlayList, PlayNext, MainRuns, Load, Post
<1>5. CASE Posted \/ LeavePlayer \/ AudioTaskCreat \/ NothingPlays \/
          StartRecorder
  BY <1>5 DEF Posted, LeavePlayer, AudioTaskCreat, NothingPlays, StartRecorder,
       MainRuns, Goto, TaskDelete
<1>6. CASE AudioPlayAgain \/ FirstSong \/ Button \/ PauseButton \/
          AudioInfoUpd \/ RecorderWanted \/ LeaveRecorder
  BY <1>6 DEF AudioPlayAgain, FirstSong, Button, PauseButton, AudioInfoUpd,
       RecorderWanted, LeaveRecorder, MainRuns, Load, Goto
<1>7. CASE UNCHANGED pvars
  BY <1>7 DEF pvars
<1> QED
  BY <1>1, <1>2, <1>3, <1>4, <1>5, <1>6, <1>7
  DEF PlayStep, PlayerNext, AudioTask, MainCode, User

LEMMA StoreInTimeStep ==
    ASSUME PlayWords, TaskThere, PlayingTrue, MailTaken, StoreInTime,
           [PlayStep]_pvars
    PROVE  StoreInTime'
<1> USE DEF PlayWords, StoreInTime, TaskThere, PlayingTrue, MailTaken, InSong,
            Bits, Conts, wavVars, mainVars
<1>1. CASE TakeMail \/ DirFails \/ BadSong \/ SongEnds \/ WavPlaySong \/
          WaitTransfer \/ Wake \/ ClearTransferEnd \/ PauseNap \/ PlayOn
  BY <1>1 DEF TakeMail, DirFails, BadSong, SongEnds, WavPlaySong, WaitTransfer, Wake,
       ClearTransferEnd, PauseNap, PlayOn, PlayOver, AfterSong, WavFreed
<1>2. CASE WavBuffill \/ WavSaiDmaTxCallback
  BY <1>2 DEF WavBuffill, WavSaiDmaTxCallback, Filled
<1>3. CASE Store
  BY <1>3 DEF Store, MainRuns, NoReg
<1>4. CASE StopTest \/ StopQuit \/ PlayList \/ PlayNext
  BY <1>4 DEF StopTest, StopQuit, PlayList, PlayNext, MainRuns, Load, Post
<1>5. CASE Posted \/ LeavePlayer \/ AudioTaskCreat \/ NothingPlays \/
          StartRecorder
  BY <1>5 DEF Posted, LeavePlayer, AudioTaskCreat, NothingPlays, StartRecorder,
       MainRuns, Goto, TaskDelete
<1>6. CASE AudioPlayAgain \/ FirstSong \/ Button \/ PauseButton \/
          AudioInfoUpd \/ RecorderWanted \/ LeaveRecorder
  BY <1>6 DEF AudioPlayAgain, FirstSong, Button, PauseButton, AudioInfoUpd,
       RecorderWanted, LeaveRecorder, MainRuns, Load, Goto
<1>7. CASE UNCHANGED pvars
  BY <1>7 DEF pvars
<1> QED
  BY <1>1, <1>2, <1>3, <1>4, <1>5, <1>6, <1>7
  DEF PlayStep, PlayerNext, AudioTask, MainCode, User

LEMMA MailTakenStep ==
    ASSUME PlayWords, TaskThere, PlayingTrue, StoreInTime,
           MailTaken, [PlayStep]_pvars
    PROVE  MailTaken'
<1> USE DEF PlayWords, StoreInTime, TaskThere, PlayingTrue, InSong, MailTaken,
            Conts, wavVars, mainVars
<1>1. CASE TakeMail \/ DirFails \/ BadSong \/ SongEnds \/ WavPlaySong \/
          WaitTransfer \/ Wake \/ ClearTransferEnd \/ PauseNap \/ PlayOn
  BY <1>1 DEF TakeMail, DirFails, BadSong, SongEnds, WavPlaySong, WaitTransfer, Wake,
       ClearTransferEnd, PauseNap, PlayOn, PlayOver, AfterSong, WavFreed
<1>2. CASE WavBuffill \/ WavSaiDmaTxCallback
  BY <1>2 DEF WavBuffill, WavSaiDmaTxCallback, Filled
<1>3. CASE Store
  BY <1>3 DEF Store, MainRuns, NoReg
<1>4. CASE StopTest \/ StopQuit \/ PlayList \/ PlayNext
  BY <1>4 DEF StopTest, StopQuit, PlayList, PlayNext, MainRuns, Load, Post
<1>5. CASE Posted \/ LeavePlayer \/ AudioTaskCreat \/ NothingPlays \/
          StartRecorder
  BY <1>5 DEF Posted, LeavePlayer, AudioTaskCreat, NothingPlays, StartRecorder,
       MainRuns, Goto, TaskDelete
<1>6. CASE AudioPlayAgain \/ FirstSong \/ Button \/ PauseButton \/
          AudioInfoUpd \/ RecorderWanted \/ LeaveRecorder
  BY <1>6 DEF AudioPlayAgain, FirstSong, Button, PauseButton, AudioInfoUpd,
       RecorderWanted, LeaveRecorder, MainRuns, Load, Goto
<1>7. CASE UNCHANGED pvars
  BY <1>7 DEF pvars
<1> QED
  BY <1>1, <1>2, <1>3, <1>4, <1>5, <1>6, <1>7
  DEF PlayStep, PlayerNext, AudioTask, MainCode, User

-----------------------------------------------------------------------------
(* The double buffer.                                                        *)

LEMMA OrderInCallback ==
    ASSUME PlayBuffers, BuffersInOrder, dma, ~slipped, ~slipped',
           WavSaiDmaTxCallback
    PROVE  InOrder /\ BuffersInOrder'
<1> USE DEF PlayBuffers
<1>1. slipped' = (slipped \/ Unfilled)
  BY DEF WavSaiDmaTxCallback
<1>2. ~Unfilled
  BY ONLY <1>1, ~slipped'
<1>3. aud # "fill" /\ (wavtransferend = 1 => buf[wavwitchbuf] = 0)
  BY <1>2 DEF Unfilled
<1>4. /\ ct \in {0, 1} /\ ct' = 1 - ct /\ 1 - ct \in {0, 1}
      /\ wavwitchbuf' = ct /\ wavtransferend' = 1 /\ aud' = aud /\ dma' = dma
      /\ Holds(heard, ct) => heard' = Next1(heard, ct)
  BY DEF WavSaiDmaTxCallback, Next1, Holds
<1>5. Holds(heard, ct)
  BY <1>3 DEF BuffersInOrder, BothFull, OneFull
<1>6. heard' = Next1(heard, ct) /\ InOrder
  BY <1>4, <1>5 DEF Next1, Holds, InOrder
<1>7. buf'[1 - ct] = buf[1 - ct] /\ ("go" \notin status => buf'[ct] = 0)
  BY <1>4 DEF WavSaiDmaTxCallback
<1>8. LastRead' = LastRead
  BY DEF WavSaiDmaTxCallback, LastRead
<1>9. OneFull'
  <2>1. CASE wavtransferend = 0
    BY <1>3, <1>4, <1>6, <1>7, <1>8, <2>1
    DEF BuffersInOrder, BothFull, OneFull, Holds, Next1
  <2>2. CASE wavtransferend = 1
    BY <1>3, <1>4, <1>6, <1>7, <1>8, <2>2
    DEF BuffersInOrder, BothFull, OneFull, Holds, Next1
  <2> QED
    BY <2>1, <2>2
<1>10. BuffersInOrder'
  BY <1>3, <1>4, <1>9 DEF BuffersInOrder
<1> QED
  BY <1>6, <1>10

\* main_task deletes the audio task and changes curindex between songs only.
LEMMA NothingSent ==
    ASSUME TaskThere, PlayingTrue, MailTaken,
           PlayNext \/ LeavePlayer \/ NothingPlays \/ StartRecorder \/ AudioTaskCreat
    PROVE  ~dma /\ dma' = dma
<1> USE DEF TaskThere, PlayingTrue, MailTaken, InSong, wavVars
<1>1. CASE PlayNext
  BY <1>1 DEF PlayNext
<1>2. CASE LeavePlayer
  BY <1>2 DEF LeavePlayer, TaskDelete
<1>3. CASE NothingPlays
  BY <1>3 DEF NothingPlays, TaskDelete
<1>4. CASE StartRecorder
  BY <1>4 DEF StartRecorder, TaskDelete, Goto
<1>5. CASE AudioTaskCreat
  BY <1>5 DEF AudioTaskCreat
<1> QED
  BY <1>1, <1>2, <1>3, <1>4, <1>5

LEMMA BuffersInOrderStep ==
    ASSUME PlayWords, PlayBuffers, TaskThere, PlayingTrue,
           MailTaken, BuffersInOrder, [PlayStep]_pvars
    PROVE  BuffersInOrder'
<1> USE DEF PlayWords, PlayBuffers, TaskThere, PlayingTrue, MailTaken, InSong,
            BuffersInOrder, wavVars, mainVars
<1>1. CASE TakeMail \/ DirFails \/ BadSong \/ SongEnds
  BY <1>1 DEF TakeMail, DirFails, BadSong, SongEnds, PlayOver, AfterSong
<1>2. CASE WavPlaySong
  <2> DEFINE len == SongLen[curindex]
  <2>1. /\ curindex' = curindex /\ fpos' = 2 /\ ct' = 0 /\ heard' = 0
        /\ buf' = [k \in 0..1 |-> BlockAt(curindex, k + 1)]
    BY <1>2 DEF WavPlaySong
  <2>2. len \in Nat \ {0}
    BY <1>2, SongNumbers DEF WavPlaySong
  <2> HIDE DEF len
  <2>3. LastRead' = 2
    BY <2>1, <2>2 DEF LastRead, len
  <2>4. buf'[0] = 1 /\ buf'[1] = 2 /\ ct' = 0 /\ heard' = 0
    BY <2>1, <2>2 DEF BlockAt, len
  <2>5. BothFull'
    BY <2>3, <2>4 DEF BothFull, Holds, Next1
  <2>6. slipped' = (wavtransferend = 1)
    BY <1>2 DEF WavPlaySong
  <2>7. ~slipped' => wavtransferend # 1
    BY ONLY <2>6
  <2>8. ~slipped' => wavtransferend = 0
    BY <2>7
  <2>9. aud' = "loop" /\ wavtransferend' = wavtransferend
    BY <1>2 DEF WavPlaySong
  <2> QED
    BY ONLY <2>5, <2>8, <2>9 DEF BuffersInOrder
<1>3. CASE WaitTransfer \/ Wake \/ ClearTransferEnd \/ PauseNap \/ PlayOn
  <2>1. UNCHANGED <<dma, slipped>> /\ BothFull' = BothFull /\ OneFull' = OneFull
    BY <1>3 DEF WaitTransfer, Wake, ClearTransferEnd, PauseNap, PlayOn,
         BothFull, OneFull, Holds, Next1, LastRead
  <2>2. CASE ClearTransferEnd
    BY <2>1, <2>2 DEF ClearTransferEnd
  <2>3. CASE WaitTransfer \/ Wake \/ PauseNap \/ PlayOn
    <3>1. wavtransferend' = wavtransferend /\ aud # "fill" /\ aud' # "fill"
      BY <2>3 DEF WaitTransfer, Wake, PauseNap, PlayOn
    <3> QED
      BY <2>1, <3>1
  <2> QED
    BY <1>3, <2>2, <2>3
<1>4. CASE WavBuffill
  <2> SUFFICES ASSUME dma, ~slipped
               PROVE  BothFull' /\ wavtransferend = 0
    BY <1>4 DEF WavBuffill
  <2>1. OneFull /\ wavtransferend = 0 /\ SongLen[curindex] \in Nat
    BY <1>4, SongNumbers DEF WavBuffill
  <2>2. /\ ct \in {0, 1} /\ ct' = ct /\ heard' = heard
        /\ buf'[ct] = buf[ct] /\ buf'[1 - ct] = BlockAt(curindex, fpos + 1)
    BY <1>4, <2>1 DEF WavBuffill, Filled, OneFull
  <2>3. LastRead' = IF fpos <= SongLen[curindex] THEN fpos + 1 ELSE LastRead
    BY <1>4, <2>1 DEF WavBuffill, LastRead
  <2>4. BlockAt(curindex, fpos + 1) = IF fpos <= SongLen[curindex] THEN fpos + 1 ELSE 0
    BY <2>1 DEF BlockAt
  <2> QED
    BY <2>1, <2>2, <2>3, <2>4 DEF OneFull, BothFull, Holds, Next1, LastRead
<1>5. CASE WavSaiDmaTxCallback
  <2>1. CASE ~slipped /\ ~slipped'
    BY <1>5, <2>1, OrderInCallback DEF WavSaiDmaTxCallback
  <2>2. CASE slipped'
    BY <2>2
  <2>3. slipped => slipped'
    <3>1. slipped' = (slipped \/ Unfilled)
      BY <1>5 DEF WavSaiDmaTxCallback
    <3> QED
      BY ONLY <3>1
  <2> QED
    BY <2>1, <2>2, <2>3
<1>6. ASSUME UNCHANGED <<wavVars, aud, curindex>> PROVE BuffersInOrder'
  BY <1>6 DEF BothFull, OneFull, Holds, Next1, LastRead
<1>7. CASE Store \/ StopTest \/ StopQuit \/ PlayList \/ FirstSong \/ Button \/
          RecorderWanted \/ LeaveRecorder \/ Posted
  <2>1. UNCHANGED <<wavVars, aud, curindex>>
    BY <1>7 DEF Store, StopTest, StopQuit, PlayList, FirstSong, Button,
         RecorderWanted, LeaveRecorder, Posted, Load, Goto
  <2> QED
    BY <1>6, <2>1
<1>8. CASE PlayNext \/ LeavePlayer \/ NothingPlays \/ StartRecorder \/ AudioTaskCreat
  <2>1. ~dma /\ dma' = dma
    BY <1>8, NothingSent
  <2> QED
    BY <2>1
<1>9. CASE AudioPlayAgain \/ PauseButton \/ AudioInfoUpd
  <2>1. UNCHANGED <<wavVars, aud, curindex>>
    BY <1>9 DEF AudioPlayAgain, PauseButton, AudioInfoUpd, Load
  <2> QED
    BY <1>6, <2>1
<1>10. CASE UNCHANGED pvars
  BY <1>6, <1>10 DEF pvars
<1> QED
  BY <1>1, <1>2, <1>3, <1>4, <1>5, <1>7, <1>8, <1>9, <1>10
  DEF PlayStep, PlayerNext, AudioTask, MainCode, User

LEMMA ShortIsLastStep ==
    ASSUME PlayWords, PlayBuffers, TaskThere, PlayingTrue, MailTaken, ShortIsLast,
           [PlayStep]_pvars
    PROVE  ShortIsLast'
<1> USE DEF PlayWords, PlayBuffers, TaskThere, PlayingTrue, MailTaken, InSong,
            ShortIsLast, wavVars, mainVars
<1>1. CASE TakeMail \/ DirFails \/ BadSong \/ SongEnds
  BY <1>1 DEF TakeMail, DirFails, BadSong, SongEnds, PlayOver, AfterSong, WavFreed
<1>2. CASE WavPlaySong
  BY <1>2 DEF WavPlaySong
<1>3. CASE WaitTransfer \/ Wake \/ ClearTransferEnd \/ PauseNap \/ PlayOn
  BY <1>3 DEF WaitTransfer, Wake, ClearTransferEnd, PauseNap, PlayOn
<1>4. CASE WavBuffill
  <2>1. short' = (fpos >= SongLen[curindex]) /\ fpos' = fpos + 1 /\ curindex' = curindex
    BY <1>4 DEF WavBuffill
  <2>2. short' => fpos >= SongLen[curindex]
    BY ONLY <2>1
  <2> QED
    BY <2>1, <2>2, SongNumbers
<1>5. CASE WavSaiDmaTxCallback
  BY <1>5 DEF WavSaiDmaTxCallback
<1>6. CASE Store \/ StopTest \/ StopQuit \/ PlayList \/ FirstSong \/ Button \/
          RecorderWanted \/ LeaveRecorder
  BY <1>6 DEF Store, StopTest, StopQuit, PlayList, FirstSong, Button, RecorderWanted,
       LeaveRecorder, Load, Post, Goto
<1>7. CASE PlayNext \/ LeavePlayer \/ NothingPlays \/ StartRecorder \/ AudioTaskCreat
  <2>1. ~dma /\ dma' = dma
    BY <1>7, NothingSent
  <2> QED
    BY <2>1
<1>8. CASE Posted \/ AudioPlayAgain \/ PauseButton \/ AudioInfoUpd
  BY <1>8 DEF Posted, AudioPlayAgain, PauseButton, AudioInfoUpd, Load,
       Goto
<1>9. CASE UNCHANGED pvars
  BY <1>9 DEF pvars
<1> QED
  BY <1>1, <1>2, <1>3, <1>4, <1>5, <1>6, <1>7, <1>8, <1>9
  DEF PlayStep, PlayerNext, AudioTask, MainCode, User

LEMMA InOrderStep ==
    ASSUME curindex \in Songs, PlayBuffers, PlayingTrue, BuffersInOrder, ShortIsLast,
           [PlayStep]_pvars
    PROVE  InOrder
<1> USE DEF wavVars, mainVars
<1>1. CASE TakeMail \/ DirFails \/ BadSong
  BY <1>1 DEF TakeMail, DirFails, BadSong, InOrder
<1>2. CASE SongEnds
  <2>1. heard' = 0 /\ aud = "check"
    BY <1>2 DEF SongEnds, WavFreed
  <2>2. ASSUME dma, ~slipped, short
        PROVE  heard + 1 >= SongLen[curindex]
    <3>1. SongLen[curindex] \in Nat /\ heard \in Nat /\ fpos \in Nat
      BY SongNumbers DEF PlayBuffers
    <3>2. LastRead = SongLen[curindex] + 1
      BY <2>2, <3>1 DEF ShortIsLast, LastRead
    <3>3. BothFull \/ OneFull
      BY <2>2 DEF BuffersInOrder
    <3>4. LastRead \in {heard, heard + 1, heard + 2}
      BY <3>1, <3>3 DEF BothFull, OneFull, Next1
    <3> QED
      BY <3>1, <3>2, <3>4
  <2> QED
    BY <2>1, <2>2 DEF InOrder
<1>3. CASE WavPlaySong \/ WaitTransfer \/ Wake \/ ClearTransferEnd \/
          PauseNap \/ PlayOn \/ WavBuffill
  BY <1>3 DEF WavPlaySong, WaitTransfer, Wake, ClearTransferEnd, PauseNap, PlayOn,
       WavBuffill, InOrder
<1>4. CASE WavSaiDmaTxCallback
  <2>1. dma' = dma
    BY <1>4 DEF WavSaiDmaTxCallback
  <2> QED
    BY <1>4, <2>1, OrderInCallback DEF InOrder
<1>5. CASE Store \/ StopTest \/ StopQuit \/ PlayList \/ PlayNext
  BY <1>5 DEF Store, StopTest, StopQuit, PlayList, PlayNext, Load, InOrder
<1>6. CASE Posted \/ LeavePlayer \/ AudioTaskCreat \/ NothingPlays \/
          StartRecorder \/ AudioPlayAgain \/ FirstSong \/ Button \/
          PauseButton \/ AudioInfoUpd \/ RecorderWanted \/ LeaveRecorder
  BY <1>6 DEF Posted, LeavePlayer, AudioTaskCreat, NothingPlays, StartRecorder,
       AudioPlayAgain, FirstSong, Button, PauseButton, AudioInfoUpd,
       RecorderWanted, LeaveRecorder, Goto, TaskDelete, Load, InOrder
<1>7. CASE UNCHANGED pvars
  BY <1>7 DEF pvars, InOrder
<1> QED
  BY <1>1, <1>2, <1>3, <1>4, <1>5, <1>6, <1>7
  DEF PlayStep, PlayerNext, AudioTask, MainCode, User

-----------------------------------------------------------------------------
(* The theorems. They hold wherever a task switch falls into an update of     *)
(* status, and whenever the interrupt comes.                                 *)
PlayShape == PlayWords /\ PlayBuffers /\ PlayFlags
PlayOrder == /\ PlayShape /\ TaskThere /\ PlayingTrue /\ StoreInTime
             /\ MailTaken /\ BuffersInOrder /\ ShortIsLast

LEMMA PlayerInitHolds ==
    ASSUME PlayerInit
    PROVE  PlayShape /\ PlayOrder
<1>1. PlayWords
  BY SongNumbers DEF PlayerInit, PlayWords, Goals, Conts, NoReg
<1>2. PlayBuffers
  BY DEF PlayerInit, PlayBuffers
<1>3. PlayFlags
  BY DEF PlayerInit, PlayFlags
<1>4. TaskThere /\ PlayingTrue /\ StoreInTime /\ MailTaken
  BY DEF PlayerInit, TaskThere, PlayingTrue, InSong, StoreInTime, MailTaken
<1>5. BuffersInOrder /\ ShortIsLast
  BY DEF PlayerInit, BuffersInOrder, ShortIsLast
<1> QED
  BY <1>1, <1>2, <1>3, <1>4, <1>5 DEF PlayShape, PlayOrder

LEMMA PlayShapeStep ==
    ASSUME PlayShape, [PlayStep]_pvars
    PROVE  PlayShape'
BY PlayWordsStep, PlayBuffersStep, PlayFlagsStep DEF PlayShape, PlayWords

LEMMA PlayOrderStep ==
    ASSUME PlayOrder, [PlayStep]_pvars
    PROVE  PlayOrder'
<1>1. PlayShape'
  BY PlayShapeStep DEF PlayOrder
<1>2. TaskThere' /\ StoreInTime' /\ MailTaken'
  BY TaskThereStep, StoreInTimeStep, MailTakenStep DEF PlayOrder, PlayShape
<1>3. PlayingTrue'
  BY PlayingTrueStep DEF PlayOrder, PlayShape
<1>4. BuffersInOrder' /\ ShortIsLast'
  BY BuffersInOrderStep, ShortIsLastStep DEF PlayOrder, PlayShape
<1> QED
  BY <1>1, <1>2, <1>3, <1>4 DEF PlayOrder

\* Every step of the system is one of the player, of the recorder or of both.
LEMMA StepsOfBoth ==
    /\ Init => PlayerInit /\ RecInit
    /\ [Next]_vars => [PlayStep]_pvars /\ [RecNext]_rvars
BY DEF Init, Next, vars, PlayStep, OpenRecorder, CloseRecorder, RecNext

\* Nothing that main_task does in the player disturbs the recorder: all that is
\* proved about the recorder alone holds in the system.
THEOREM RecorderInSystem == Spec => RecSpec
BY StepsOfBoth, PTL DEF Spec, RecSpec

\* Every variable of the player keeps its range: the song that is played is one of
\* the table, the buffer that is filled one of the two.
THEOREM PlayTypeCorrect == Spec => []TypeOK
<1>1. Init => PlayShape
  BY StepsOfBoth, PlayerInitHolds
<1>2. PlayShape /\ [Next]_vars => PlayShape'
  BY StepsOfBoth, PlayShapeStep
<1>3. PlayShape => TypeOK
  BY PlayParts DEF PlayShape
<1> QED
  BY <1>1, <1>2, <1>3, PTL DEF Spec

LEMMA PlayOrderAlways == Spec => []PlayOrder
<1>1. Init => PlayOrder
  BY StepsOfBoth, PlayerInitHolds
<1>2. PlayOrder /\ [Next]_vars => PlayOrder'
  BY StepsOfBoth, PlayOrderStep
<1> QED
  BY <1>1, <1>2, PTL DEF Spec

\* When audio_stop_req returns the music has stopped: main_task frees the path,
\* the song table or the task itself while the audio task waits for mail and the
\* DMA is off (audioplay.c:268, 682, 695), although the audio task may run inside
\* any of its updates of status.
THEOREM RestIsRest == Spec => []AtRest
<1>1. PlayOrder => AtRest
  BY DEF PlayOrder, MailTaken, PlayingTrue, InSong, AtRest
<1> QED
  BY <1>1, PlayOrderAlways, PTL

\* No song is started with a request to stop left over from the last one
\* (audioplay.c:160, 177).
THEOREM QuitIsTakenBack == Spec => []NoLeftoverQuit
<1>1. PlayOrder => NoLeftoverQuit
  BY DEF PlayOrder, MailTaken, NoLeftoverQuit
<1> QED
  BY <1>1, PlayOrderAlways, PTL

\* The blocks of a song are sent in order, none twice and none left out, through
\* pauses and stops, until an interrupt comes before the buffer of the last one
\* was dealt with; and a song that ends by itself lacks two blocks at most
\* (wavplay.c:226-251).
THEOREM BlocksAlwaysInOrder == Spec => BlocksInOrder
<1>1. PlayOrder /\ [Next]_vars => [InOrder]_pvars
  BY StepsOfBoth, InOrderStep DEF PlayOrder, PlayShape, PlayWords
<1> QED
  BY <1>1, PlayOrderAlways, PTL DEF Spec, BlocksInOrder

SaiOwner == rp # "away" <=> main = "recorder"

\* The two never share the SAI: main_task is in the recorder exactly while
\* the recorder runs, and it got there after the audio task was deleted
\* (recorder.c:496-506).
THEOREM SaiAlwaysHasOneUser == Spec => []SaiHasOneUser
<1>1. Init => SaiOwner
  BY DEF Init, PlayerInit, RecInit, SaiOwner
<1>2. PlayOrder /\ SaiOwner /\ [Next]_vars => SaiOwner'
  <2> SUFFICES ASSUME PlayWords, SaiOwner, [Next]_vars
               PROVE  SaiOwner'
    BY DEF PlayOrder, PlayShape
  <2>1. CASE PlayerNext /\ UNCHANGED rvars
    <3>1. main' = "recorder" <=> main = "recorder"
      <4>1. CASE AudioTask \/ WavSaiDmaTxCallback
        BY <4>1
        DEF AudioTask, TakeMail, DirFails, BadSong, WavPlaySong, WaitTransfer, Wake,
            ClearTransferEnd, WavBuffill, PauseNap, PlayOn, SongEnds,
            WavSaiDmaTxCallback, mainVars
      <4>2. CASE MainCode
        BY <4>2
        DEF MainCode, Store, StopTest, StopQuit, PlayList, PlayNext, Posted,
            LeavePlayer, Load, Goto, TaskDelete, PlayWords, Conts
      <4>3. CASE User
        BY <4>3
        DEF User, AudioTaskCreat, AudioPlayAgain, FirstSong, Button, PauseButton,
            AudioInfoUpd, NothingPlays, RecorderWanted, Load, Goto, TaskDelete
      <4> QED
        BY <2>1, <4>1, <4>2, <4>3 DEF PlayerNext
    <3> QED
      BY <2>1, <3>1 DEF SaiOwner, rvars
  <2>2. CASE RecStay /\ UNCHANGED pvars
    <3>1. rp' = "away" <=> rp = "away"
      BY <2>2
      DEF RecStay, Capture, RecSaiDmaRxCallback, FifoRead, FifoReadWrap,
          FifoReadTake, FWrite, NoButton, RecPause, RecStart, RecOpen, RecHeader,
          RecStop, RecOpenFails, RecGiveUp, RecReturn, Step
    <3> QED
      BY <2>2, <3>1 DEF SaiOwner, pvars, mainVars
  <2>3. CASE OpenRecorder \/ CloseRecorder
    BY <2>3
    DEF OpenRecorder, CloseRecorder, StartRecorder, LeaveRecorder, RecEnter,
        RecLeave, Goto, TaskDelete, Step, SaiOwner
  <2>4. CASE UNCHANGED vars
    BY <2>4 DEF vars, pvars, mainVars, rvars, SaiOwner
  <2> QED
    BY <2>1, <2>2, <2>3, <2>4 DEF Next
<1>3. PlayOrder /\ SaiOwner => SaiHasOneUser
  BY DEF PlayOrder, TaskThere, PlayingTrue, InSong, SaiOwner, SaiHasOneUser
<1> QED
  BY <1>1, <1>2, <1>3, PlayOrderAlways, PTL DEF Spec

=============================================================================

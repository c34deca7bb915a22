# TLA+ specification of the Apollo STM32F429 demo firmware

The repository is the integrated demonstration firmware of the ALIENTEK Apollo
STM32F429 board: about twenty applications (music, camera, phone, e-book, USB
disk, games) over the µC/OS-II kernel, FatFs, and drivers. It has no tests of
its own. This directory holds TLA+ models of its core logic, model-checked with
TLC; the safety of every one of them is proved with TLAPS.

## 1. The system

### Components

| component | state | operations | interacts with |
|---|---|---|---|
| memory pools (`MALLOC`) | one table per bank: 0, or the length of the run the block is in | `my_mem_init`, `mymalloc`, `myfree`, `myrealloc` | every task; no kernel lock, interrupts masked in `mymalloc`/`myfree` only |
| NAND translation layer (`HARDWARE/NAND/ftl.c`) | look-up table in RAM; bad, used and number bytes in the spare area of each block | `FTL_Init`, `FTL_Format`, `FTL_WriteSectors`, `FTL_ReadSectors` | called by `disk_*` under the FatFs lock, by the USB disk interrupt without it |
| NAND driver (`nand.c`) | the chip | program, copy-back, erase, compare, ECC | polls the R/B pin with limits |
| disk glue and FatFs lock (`diskio.c`) | one saved PRIMASK, two counters | `ff_enter`, `ff_leave`, `disk_*` | all users of FatFs |
| SPI flash, internal flash, EEPROM | the chips | read-erase-rewrite of a sector | FatFs, settings, font update |
| audio playback (`audioplay.c`, `wavplay.c`, `sai.c`) | status bits, mailbox, two DMA buffers | audio task, DMA callback, start and stop requests | main_task, interrupts |
| recorder (`recorder.c`) | ring of buffers with two indices | DMA callback writes, task reads | interrupt and main_task |
| GSM modem (`gsm.c`, `usart3.c`, TIM7) | `USART3_RX_STA`, receive buffer, `cmdon`, `mode` | command and answer, unsolicited messages | watch_task, main_task, two interrupts |
| web camera (`webcamera.c`) | ring of buffers, `webcam_sendtask_status`, `webcamnet` | DMA callback writes, send task sends, main_task accepts and closes | interrupt, main_task, lwIP |
| photo (`camera.c`) | `jpeg_data_ok`, lengths, buffers | frame interrupt, save | DCMI and DMA interrupts |
| tasks (`USER/test.c`) | hot-plug flags | start 10, usart 7, main 6, watch 3 (smaller runs first) | everything |
| debug console, USB glue, network glue, GUI and applications, third-party code | | | see PROJECT.json |

### What makes it hard

* Tasks of different priority share tables that only some functions protect.
* The NAND layer keeps its only persistent index in the spare bytes of blocks,
  and moves blocks by copying them: power can fail between any two pages.
* Chip operations report time-outs which the callers handle, ignore or retry.
* Interrupts and tasks hand buffers to each other through single flag words.

### What makes each component correct

* Pools: chunks never overlap; the table is exact, so that a free gives back
  what was taken and nothing else; a failed request changes nothing.
* NAND layer: it is an array of sectors; no logical block and no spare block is
  lost; every call ends; the disk keeps its size through power cuts and time-outs.
* Player: a request to stop ends the song, and what is freed afterwards is used
  by nobody; the blocks of a song are sent in order; no request outlives its song.
* Recorder: the ring is a queue and a file holds its own blocks in order; player
  and recorder never share the SAI.
* GSM: no task waits for ever on `cmdon`; what arrives stays for the task that
  waits for it; `mode` says what the phone is doing; a ringing call is served.
* SPI flash: a write changes only the bytes it names, though it erases sectors;
  a power cut harms one sector at most.
* FatFs lock: mutual exclusion and restoring the interrupt mask.
* Web camera: no connection or buffer is used after it was freed; the client
  gets the blocks in order; a client that goes makes room; the send task ends.
* Photo: a frame that is saved is whole.

Several of these are aims that the code misses. Where it does, the model follows the
code, and the property says in which states it still holds and in which few ways it
is lost: a history variable, which the code does not see, marks that the one order
of events has come about in which it fails. Everything else that can happen stays
in the model and is covered.

The full list of hazards, each at its line and with the properties that would
show it, is in PROJECT.json.

## 2. Plan

Done, in this order:

1. `Allocator`, `Malloc`, `MallocProofs`: the pools, checked and proved.
2. `BlockDevice`, `FTL`, `FTLProofs`: the NAND layer, checked, its invariants and the
   refinement proved.
3. `BoundedFifo`, `Player`, `Recorder`, `Audio`: music and recorder, each as its
   own module and composed over the SAI they share, checked; `RecorderProofs`,
   `AudioProofs`: their safety proved, with `RingLemmas` on rings of buffers.
4. `GsmLink`, `GsmProofs`: the modem, checked and proved.
5. `SpiFlash`, `SpiFlashProofs`: the SPI flash under FatFs, the USB device and the
   font, checked and proved.
6. `Webcam`, `WebcamProofs`: the web camera with its ring, its task and its
   connections, checked, its safety proved.

Left, most important first:

1. A stale spare read in `FTL`; wear together with power cuts.
2. `JpegFrame`, the three-state handshake of the photo.
3. The counters and the saved mask of `ff_enter` and `ff_leave`, with the FTL as
   one of its users and the USB interrupt as one that does not take it.
4. `STMFLASH` and the settings kept in the EEPROM.

## 3. Memory pools

`Allocator` is the promise: tasks hold sets of disjoint runs of blocks.

`Malloc` is `malloc.c` for one bank. `memmap` is the table, `memrdy` its ready
flag, `held[t]` the runs whose addresses task `t` was given (what the callers
keep, not a variable of the code), `re[t]` the locals of a `myrealloc` under
way. `mymalloc` and `myfree` mask interrupts, so each is one action;
`myrealloc` calls `my_mem_malloc` unmasked, so its scan (`ReallocScan`) and its
marking loop (`ReallocMark`) take one action per table entry. A task is its
priority; `Runs(t)` is the scheduler: `myrealloc` never blocks, so only a task
of higher priority can run inside it. Callers free only what they hold, once.

Any task may call `myrealloc` (`Reallocers`). In the firmware it is main_task (6)
(`atk_qrdecode.c:66`, `gui.c:1191`, `filelistbox.c:607`), while watch_task (3) and the
audio task (2) allocate. What a second task may do inside the first one's scan and
marks decides: a free, a call that fails, or another task's whole `myrealloc` of
which nothing is left do no harm; a chunk that is taken there (or a second
`myrealloc` begun there) may be the run the first one has counted. `crossed`, a
history variable, is set when that happens. `NonOverlapUncrossed` and
`TableExactUncrossed` say that until then the pool is sound; `ImplementsAllocator`
covers the crossing step as well. Run `malloc_race` is what may follow.

| run | shows |
|---|---|
| `malloc` | tasks 3, 6, 7, five blocks, requests of 0, 1, 2 and 3 blocks, a table with garbage before start-up; task 6 reallocates, above one task and below another. `TypeOK`, `NonOverlapUncrossed`, `TableExactUncrossed`, `ImplementsAllocator` |
| `malloc_race` | task 6 reallocates below task 3: both get the same block (five steps) |

Five blocks leave room for two fragmented chunks and a hole on either side of
a reallocation; the proofs remove the bound. The constraint `UntilCrossed` ends a
behaviour after the crossing, of which the properties say nothing more.

**Proved** (`MallocProofs`), for all pool sizes, block sizes, request sizes and
sets of priorities, whoever reallocates, from the constants' assumptions alone:
`TypeCorrect`, `ChunksDisjoint`, `TableAlwaysExact`, `MallocImplementsAllocator`.
`NonOverlap` is not inductive: that a fresh run is free of owners follows from the
table being exact, and inside `myrealloc` it rests on what the loops have
established so far. The invariant is `IInv`: `Shape`, which holds always, and
until the crossing `Exact`, which adds `RunsFree` (the run counted is still free; the
run being marked is marked up to the counter and zero beyond) and `OneLooks` (one
task at most is in that part of `myrealloc`). The proof has one step per
action; refinement follows from the same invariant.

## 4. NAND translation layer

`BlockDevice` is the promise: an array of sectors; a write under way may store
its sectors in any order, an answer `ok` means all are stored, and nothing
else changes the array.

`FTL` is `ftl.c`. The flash is `cell` (content of each sector), `tag` (the spare
bytes of a block: free, bad, half bad, or a logical number) and `wear` (which sectors
read with a wrong bit); RAM is `lut`, `valid` and `curblock`. `call` holds the
arguments and the progress of the call under way, `cp` the locals of
`FTL_CopyAndWriteToBlock` and of the scrub that follows it in a read. Each step
makes at most one change to the flash, so `PowerCut` falls between any two.
Programming clears bits only (`Program`), an erase sets them, the first page
of a block carries its tag. The bad-block mark is written to two pages and
nobody looks whether it was (`ftl.c:70-75`): it may fail as a whole, or leave a
free block whose second page alone has it, half bad, which
`FTL_FindUnusedBlock` takes for free and `FTL_CreateLUT` for bad. Nor does
`FTL_Format` look whether a number was written (`ftl.c:472`).

| code | actions |
|---|---|
| `FTL_Init`, `FTL_CreateLUT` | `FTL_Init`, `Rebuild` |
| `FTL_Format` | `FormatErase`, `FormatEraseLate`, `FormatErased`; `FormatMark`, `FormatSkip`, `FormatEnd` (one block each) |
| `FTL_BadBlockMark` | `BadBlockMark`, `MarkFails`, in the actions that call it |
| `FTL_CopyAndWriteToBlock` | `CopyFind`, `CopyPage`, `CopyPageFails`, `CopyBad`, `CopyEnd` |
| `FTL_WriteSectors` | `WriteSectors`, then `WriteInPlace`, `WriteByCopy`, `WriteNoBlock`, `WriteCompareFails`, `WriteInPlaceFails`, `ReturnOk` |
| `FTL_ReadSectors`, `FTL_BlockCompare` | `ReadSectors`, then `ReadOk`, `ReadMoves`, `ReadNoBlock`, `ReadFails`, `Scrub...`, `ReturnOk` |
| environment | `PowerCut`, `SectorWears`, and `Fault` inside the actions whose chip operation may time out |

Abstractions: a power cut leaves a page programmed or not, never half of it, and
a block erased or not; a stuck bit is a wrong bit whatever the sector holds;
spare-byte reads succeed; the "used" byte is dropped, since it is only tested together with the number;
ECC is its verdict (a sector reads well, or with one corrected bit); the erases
and programs inside the scrub succeed; one call at a time, as under the FatFs lock; the
allocation of the table succeeds.

Bounds: `MaxCount` sectors per call, `MaxCuts`, `MaxFaults` (or unbounded) and
`MaxWears`. The real constants are 100 blocks and 93%; the runs use 2 blocks
and 50% or 67%, which keeps the shape: fewer numbers than good blocks, planes
(even and odd blocks) with and without spares.

Three history variables record what the code does not notice. `halved`: a block has
become half bad. `unmarked`: the last mark of this call did not reach the first
page. `size`: `valid_blocknum` when the disk was first mounted since its format.

| run | instance | shows |
|---|---|---|
| `ftl_wear` | 4 blocks, 2 pages of 2 sectors, 2 values, calls of up to 2 sectors around the end of a block, 1 worn sector in any page (flipped or stuck) | refinement of `BlockDevice`, `NoOrphan`, `CopyComplete` |
| `ftl_fault` | 4 blocks, the first one bad, 2 pages of 1 sector, calls of up to 2 sectors, 2 power cuts, unbounded time-outs, fairness | `MapAgrees`, `FullCapacity`, `NumbersKept`, `CallReturns`, index bounds in `TypeOK` |

One worn sector is the largest number for which the refinement holds: a second
one in the same plane finds no spare block (`ftl_read_data`). Two cuts let the
second fall on what the first left behind, and with time-outs in every chip operation
of the format, of the marks and of the copies any of them may also fail. Two
sectors from inside a page run over two pages and into the next block; the
constraint `AcrossBlocks` keeps the calls of `ftl_wear` there. Fairness is weak
fairness of `Code` alone: the calls of the layer are plain loops whose waits on
the chip all have a limit; requests, power cuts and wear are not fair.

What the properties leave to the code's favour:

* `MapAgrees`, `NumbersKept` and `FullCapacity` hold until a block is `halved`. Then the
  copy puts data into a block that the next scan leaves out.
* `CallReturns`: a format ends always; a write or a read ends unless its bad-block marks
  fail time after time, for then the retry loop finds the same block again.
* `FullCapacity` counts from the first mount. A format that is cut short, or whose number
  writes fail, leaves a smaller disk for good, which `FTL_Init` accepts from 100
  numbers on; no property forbids it. From the mount on the size never shrinks,
  whatever goes bad.

Runs that find a disagreement, each with the line it contradicts in
PROJECT.json:

| run | counterexample |
|---|---|
| `ftl_cut_data` | a power cut after the first page of a copy; the half copy wins the next scan |
| `ftl_retry_data` | a failed page copy is retried without the data already taken from the buffer |
| `ftl_read_data` | a read moves a suspect block, finds no spare, and erases it all the same |

What the model shows and no run repeats: a time-out of the erase at
`ftl.c:185` leaves two blocks with one number, and the old copy may win the next
scan, as after the cut in `ftl_cut_data` the half-made one does. `MapAgrees` and
`NumbersKept` hold all the same, since they do not ask which of the two it is;
`ImplementsBlockDevice`, which does, is checked and proved without cuts and faults
only. `FTL_BlockCompare` looks at page 0 in every turn of its loop, so a bit stuck
in another page is never found: the block is used again, and each sector that
lands on it reads with one bit wrong, which the ECC corrects and a read moves
again. `ftl_wear` has this case, and the array of sectors survives it.

**Proved** (`FTLProofs`), for every number of blocks, pages and sectors, every
set of factory-bad blocks, every share, and any `MaxCount`:

| theorem | from | of |
|---|---|---|
| `FtlTypeCorrect` | nothing: any failures, cuts, wear | `TypeOK` |
| `MapAlwaysAgrees`, `NumbersAlwaysKept` | `SpareFound`: any failures, cuts, wear | `MapAgrees`, `NumbersKept` |
| `MapAgreesUnworn` | no wear: any failures, cuts | the same two |
| `CapacityKept` | `SpareFound`: any failures, cuts, wear | `FullCapacity` |
| `NoBlockOrphaned` | `SpareFound`, no cuts and failures: any wear | `NoOrphan` |
| `CopiesComplete` | `SpareFound`, no failures, and no cuts or no wear | `CopyComplete` |
| `FtlImplementsBlockDevice` | `SpareFound`, no cuts and failures: any wear | `ImplementsBlockDevice` |
| `UnwornLosesNothing` | the last four without `SpareFound`, if there is no wear | |

`SpareFound` says that the copy which a read makes of a worn block finds a spare
block. It is a condition on behaviours, not on constants: it holds in all states
of the runs `ftl_wear` and `ftl_fault`, and without it the code does
what `ftl_read_data` shows: it erases the block it could not copy while the table
still points to it, so that `MapAgrees` and the others fail.

The argument, in the order of the module:

* `TypeOK` is not inductive. `FtlShape` adds what bounds the numbers: the format
  gives no more numbers than it passed blocks (`FormatCounts`), the data still to
  be laid over a copy ends in its block, also if the copy begins again on another
  block (`InBlock`), and a copy belongs to a turn of one of the two loops (`InCall`).
* `MapAgrees` rests on where a copy is (`CopyUnderWay`): the source keeps its
  number, the destination is free until its first page gives it the same one,
  and after that the table may be moved; a source that is being scrubbed is not
  in the table any more (`GivenUp`), so that erasing it or condemning it is safe.
  `NumbersKept`, an action property, follows from this: every step that takes the
  number off a block leaves another one that carries it.
* `NoOrphan` rests on `OneOwner` (two blocks carry one number only during the copy
  from one to the other), `AllMapped` (the table knows every block that carries a
  number, but the destination of a copy) and, in the format, `FormatNumbers`.
* `FullCapacity` rests on `Sized`: all numbers below the size are on the flash, and the
  disk is mounted with at least that many. The first mount takes the size from what
  `FTL_CreateLUT` counted (`RebuildSize`: below the first hole every number is
  there), and `NumbersKept` keeps it, as no step but a format takes a number away.
  `FTL_CreateLUT` keeps its old count if it finds no hole; that there is one follows
  from `FormatLimit`: the format gives at most 93% of the good blocks a number
  (`ShareOf`), so that the last number is never given.
* `CopyComplete` rests on `DataLeft` (what is left of the caller's data begins in the
  sector the copy has come to), `PagesCopied` (the pages behind it are complete, the
  others blank) and `FreeIsBlank` (a free block is blank, or programming could
  only clear bits of what is there).

TLC checked each of these on small instances before it was proved. `FreeIsBlank`
is the reason for the condition of `CopiesComplete`: a power cut while a read
fills a worn block with zeros leaves a free block that is not blank, and the
next copy into it is wrong (listed in PROJECT.json at `ftl.c:387`).

The refinement of `BlockDevice` is proved step by step: `Init` maps to its initial
state, and each action to one of its steps or to a stutter. The mapping reads the
array of sectors off the flash, and that is what makes it hard: a block that is
half copied must not change it, and the erase that ends a copy must not either.
`DeviceInv` has what this rests on beyond the invariants above:

* `BeforeUse`: until `FTL_Format` is through every sector reads blank, so that the
  format, which only erases, changes nothing the file system may have stored.
* `Usable`: a disk that is up has its first `MinBlocks` numbers, so that a new
  `FTL_Init` never takes it for a blank chip and formats it.
* `CallData`, `SourceFound`: the data is that of the call, and the block being copied
  is the one the table gives for the sector the call has come to.
* `WrittenSoFar`: the turns of the loop that are over have stored their sectors; so an
  answer `ok` at the end of it means that all of them are.

Between the last page of a copy and the change of the table the destination
carries the number of the source: there `CopyComplete` says that the new block
shows what the old one did, but for the sectors of the write. A read that moves a
worn block is a copy without data, a stutter of the array. With a time-out or a
power cut the refinement fails (`ftl_cut_data`, `ftl_retry_data`), which is why it is
proved for a chip on which nothing fails.

`CallReturns` (liveness) stays with TLC.

## 5. Music and recorder

main_task owns both applications; the audio task (priority 2) goes on playing
when the player's screens are left, and the recorder stops it before it takes
the SAI over. `Player` and `Recorder` model the two; `Audio` is their
composition: every step is a step of one of them, except entering and leaving
the recorder, which is a step of both.

`Player`. `status` is the set of the bits of `audiodev.status`, `mbox` the
mailbox `audiombox`; `aud`, `main` and `goal` are the program counters. `buf` holds
the block in each DMA buffer, `ct` the buffer being sent, `wavtransferend` and
`wavwitchbuf` are the flags of the code. A song is a number of blocks, the last
one short; a block is its number, silence is 0. `heard` records what the DMA sent;
`slipped` that an interrupt of this song came before the buffer of the one before
it was dealt with (`Unfilled`).

| code | actions |
|---|---|
| `audio_play_task` | `TakeMail`, `DirFails`, `BadSong`, `SongEnds` (with `AfterSong`, `PlayOver`) |
| `wav_play_song` | `WavPlaySong`, `WaitTransfer`, `ClearTransferEnd`, `WavBuffill`, `PauseNap`, `PlayOn`, `SongEnds`; `Wake` ends a `delay_ms` |
| `wav_sai_dma_tx_callback` | `WavSaiDmaTxCallback` |
| `audio_stop_req` | `StopTest`, `StopQuit`, each followed by `Store` |
| `audio_play`, `audio_filelist`, `audio_task_creat`, `audio_task_delete` | `AudioTaskCreat`, `FirstSong`, `PlayList`, `PlayNext`, `Posted`, `Button`, `PauseButton`, `NothingPlays`, `LeavePlayer`, ... |

The audio task has the higher priority: between two waits nothing but an
interrupt cuts into it (`MainRuns`). main_task changes `status` by a load and a
store (`Load`, `Store`) and nothing protects the two: the audio task may wake
between them, change `status` itself, and lose the change when main_task stores.

`Recorder`. `sairecfifordpos`, `sairecfifowrpos` and `sairecfifobuf` are the
ring of `recorder.c`; a block is its recording and its number in it. `irq` is the
DMA interrupt that is pending, `Masked` the time in which `ff_enter` holds it
back. `rec_sai_fifo_read` takes three steps (`FifoRead`, `FifoReadWrap`,
`FifoReadTake`), because the interrupt compares the index that they move;
`FWrite` writes the buffer to the file, or fails: then the block is lost, and
`recorder.c:521` counts it in the size all the same, so that the header tells more
than the file has (`recorder.c:616`). `stale` is history: the ring still held blocks of another
recording when this one began, as it may at `recorder.c:592-609`; they go into the
new file. `BoundedFifo` is what the ring promises.

What the properties leave out, each because the code has it:

* `BlocksInOrder` holds until a song is `slipped`. An interrupt that comes before the
  refill is over, or between the interrupt that ended the last wait and the
  fill, makes the task fill the wrong buffer. A song that was stopped while paused
  leaves `wavtransferend` set, and the next one begins slipped. The last two blocks
  of a song are never sent to their end: `wavplay.c:246-251` stops the DMA as soon
  as the short block is filled.
* `StopEnds` holds unless there is a `Phantom`, bit 4 of `status` set while the audio
  task waits for mail: main_task has written back a value of `status` from before the
  end of the song. Run `audio_stop` is that case, in `audio_stop_req` itself: it loads
  `status` to clear bit 1, the audio task wakes, ends the song and clears bit 4, the
  store sets it again, and the loop waits for it for ever.
* `KeptIfRoom` speaks of the blocks that reach the interrupt. `recorder.c:26-28` says that the
  ring is there so that a long write loses nothing; but `ff_enter` masks the
  interrupt while the SD card is written (`diskio.c:283-290`), and if the DMA
  fills two buffers in that time the first is gone, with the ring empty.
  `Capture` does this.
* `FileInOrder` speaks of files that were not begun `stale`.

Limits of the model:

* `MaxBurst` is 1: one interrupt falls into a `rec_sai_fifo_read`. With two, the
  second may meet the read index before it is wrapped, find room in a full ring
  and write over the buffer just handed out.
* Songs are played in sequence; a list is never without a playable song (then
  the loop of `audioplay.c:115-158` runs without a delay and main_task never
  runs again).

| run | instance | shows |
|---|---|---|
| `audio` | two songs, one of three full blocks and one that cannot be played; a ring of three, recordings of up to three blocks on SD card (interrupts masked while writing) or U disk | `AtRest`, `NoLeftoverQuit`, `BlocksInOrder`, `StopEnds` of the player; `ImplementsFifo`, `KeptIfRoom`, `FileInOrder` of the recorder; `SaiHasOneUser` of the two; both type invariants |
| `audio_stop` | the same | `StopReturns`, which says that `audio_stop_req` returns (`audioplay.c:168, 171`), is violated as described above |

Three full blocks let each buffer be refilled and the song end in the other
one; a ring of three, of which two are in use at most, fills up within one
`f_write` and wraps; three blocks overfill it. The real ring has ten buffers.

Fairness: weak for the audio task, the highest priority here, whose delays end, and
for the DMA, which depends on nobody. Strong for `MainCode` and `OpenRecorder`:
whenever the audio task sleeps, main_task can run for a tick. That it sleeps again and
again is no fairness of the model but stands in the properties (`[]<>MainRuns`): it
is true as long as a block of the DMA lasts longer than filling one. Buttons are not
fair.

**Proved** for every list of songs, every length of the ring, every set of drives and
any number of blocks in a recording.

`RecorderProofs` is about the recorder by itself (`RecSpec`). `RecTypeCorrect` and
`KeptAlways` have no condition; `RecorderRingIsQueue` and `FileAlwaysInOrder`
need `MaxBurst <= 1`, and a second interrupt in one read does
break the queue. The invariant is `RecOrder`. `RoomBehind`: while the read index
points behind the ring, the interrupt finds the write index away from the end
of the ring, or has been taken already; so it never fills the buffer just handed
out. `FileOpen`: a file is open exactly while there is a recording. `OnItsWay`: what
the interrupt holds, the ring, the buffer handed
out and the file are blocks of one recording, each part captured before the
next; `FileInOrder` is its last part and would not be inductive alone.
`RingLemmas` has what both rings of the firmware share: a ring with a read and a
write index is a sequence, and moving one index appends to or takes from it.

`AudioProofs` is about the composition. `RecorderInSystem`: the system implements
`RecSpec`, so that all of the above holds in it. `PlayTypeCorrect`, `RestIsRest`,
`QuitIsTakenBack`, `BlocksAlwaysInOrder` and `SaiAlwaysHasOneUser` have no condition:
the audio task may tear any update of `status`. The invariant is `PlayOrder`.
`StoreInTime` says what is left of the truth in a value that is out of date: whether
there is a task, and that a value without bit 4 is only about to be stored while the task is
at rest. A torn update can therefore set bit 4 again but never clear it too early. With
that, `TaskThere` and `PlayingTrue` (a task inside a song has its bit 4, and the DMA
is on just while it is inside one) are kept, and with `MailTaken` (mail comes from a
player at rest) the first two properties follow. `BlocksInOrder`, an action
property, needs `BuffersInOrder`: what the DMA buffers hold, in the order in
which they will be sent, continues what has been heard up to the block read last; and
`ShortIsLast`. `StopEnds` (liveness) stays with TLC.

## 6. Modem

`GsmLink` is the link to the GSM modem: the receive interrupt and TIM7, which
ends a batch after 10 ms of silence; watch_task, which polls the modem; the
in-call task, which it creates when a call comes in; and the phone and message
screens of main_task. `rxbuf` and `ready` are `USART3_RX_BUF` and bit 15 of
`USART3_RX_STA`; a message is one of six kinds. `cmdon`, `mode` and `status` are
fields of `gsmdev`, `stk` says whether the in-call task's stack pointer is set;
`watch`, `incall` and `main` are the places of the tasks. `missed`, `leaked`, `left`
and `beyond` are history: no action reads them.

| code | actions |
|---|---|
| `USART3_IRQHandler`, `TIM7_IRQHandler` | `USART3IRQ`, `TIM7IRQ` |
| `gsm_send_cmd`, `gsm_cmd_over`, `gsm_check_cmd` | `SendCmd`, `CmdOver`, `CheckCmd`: the send and the end of the wait are two steps of their caller, and the wait ends at any time |
| `gsm_cmsgin_check`, `sms_remind_msg` | `CmsginCheck`, `Reminded` |
| `gsm_status_check` | `StatusCheck`, `StatusAnswer` (one step for each of its nine queries) |
| `phone_incall_task`, `..._creat`, `..._delete` | `IncallStart` to `IncallDel` |
| `phone_play` | `PhonePlay`, `Dial`, `PhoneMessage`, `HangUp`, `HangUpATH`, `PhoneLeave`, `PhoneOver` |
| `smsplay.c` | `SmsSend`, `SmsAgain`, `SmsOver` |

A task of lower priority runs only while the others wait, so an action goes from
one delay to the next. main_task does not run while the in-call task exists,
which suspends it. Only watch_task looks at `cmdon` before it sends; the other
two do not, so commands overlap, and the one that ends first clears the flag
and the buffer for both. The model has all of that.

What goes wrong, and the history that says so:

* `missed`: a ring finds no memory for the in-call task (`phoneplay.c:496-497`), or finds that
  task between its `mode = 0` and its end (`phoneplay.c:483-508`), with the stack pointer
  or the priority still in use; watch_task (3) preempts it (4) there. `mode` is then 3
  without a task. (A ring after the other side has hung up and before the task's own
  `mode = 0` is dropped by that.)
* `leaked`: `OSTaskCreate` refused the priority after the stack was allocated. The pointer
  stays set, and no call is served from then on.
* `left`: `phone_play` was left with TPAD in the middle of a call. `ATH` is sent, but
  `mode` stays 1 or 2 (`phoneplay.c:804-808`) and watch_task stops looking at the modem.
* `beyond`: `gsm_check_cmd` ended a full buffer with a zero (`gsm.c:35-40`), which lies one
  byte behind the 400 of `USART3_RX_BUF`. What the linker has put there the source does
  not say, so the model records the write and changes nothing else.

`RingServed`, `ModeTrue` and `LinkFree` hold with these exceptions: there is no other way to a
ring without its task, a mode without its application or a link nobody listens to.

| run | shows |
|---|---|
| `gsm` | `NoStuckCmd`, `RingServed`, `ModeTrue`, `AnswerKept`, `LinkFree`, the types |

Bounds: two messages fit into the buffer (a call and what its number's
terminator hides; a full buffer), two commands in a row from `smsplay.c`. The
proofs remove both. Fairness: weak for TIM7 and for the code of each task, none
of which waits without a limit; not for calls, messages and buttons.

**Proved** (`GsmProofs`), for every buffer length and number of tries and with no
condition: `GsmTypeCorrect`, `NoCmdSticks`, `AnswersAreKept`, `EveryRingServed`,
`ModeAlwaysTrue`. `GsmTypeCorrect` says that no interrupt stores behind the receive
buffer; of the terminator it says nothing. The invariant is `GsmInv`. `NoStuckCmd`
is inductive by itself. `RingServed` needs `CallEnded`: unless something was missed
or leaked, the task that deletes itself has left mode 3 behind and, at the
end, its stack pointer is clear, so that the next call finds room. `ModeTrue`
needs `CallOwned`: the in-call task goes with no call under way, and nobody is
hanging up on the way out. `AnswerKept`, an action property, rests on
`LoneUndisturbed`: from the command to its answer `cmdon` stays set and
watch_task stays in its loop, where the flag keeps it from the buffer. Each part
has a lemma of its own with the actions as its cases. Liveness (`LinkFree`) is
only model-checked.

## 7. SPI flash

`SpiFlash` is `W25QXX_Write` with the callers that reach it: FatFs, sector by
sector with interrupts masked; the USB device, inside its interrupt; and a task
that reads a glyph without any lock. `flash` is the chip, `buf` the RAM copy of a
sector, `calls` the calls still to be made, `prog` what is still to be programmed;
`want`, `before` and `damaged` say what the flash should hold and what a power cut
may have harmed. A write may begin between two bytes of a glyph (`text.c:46`) and
finds the chip selected: its read command is taken for padding, and the sector is
rewritten from what the chip sends on. `mixed` says that this has happened in
the sector under way, `garbled` are the bytes it may have harmed. `ReadSector` reads and tests for blank bytes, `EraseSector`
erases and overlays, `WritePage` is a turn of the page loop, after the last one
of a sector `Advance` moves on. Programming clears bits only. A power cut erases
or programs any part of what was under way.

| run | instance | shows |
|---|---|---|
| `storage` | three sectors of two pages of two bytes, bytes of two bits, two writes of 1, 2, 4 or 7 bytes at any address, power cuts anywhere, glyphs read at any address | `Written`: at rest every byte not harmed by a cut or such a read is what was written last; `NothingLost`: in between it is on the chip or in RAM; the types (addresses and lengths in range) |

Seven bytes reach over three sectors; the second write finds what the first, or
a cut or a glyph in it, left. A byte that was harmed is in order again after it has been written
once more. The run may stop (no writes left), so deadlock is not checked.

**Proved** (`SpiFlashProofs`), for every number and size of sectors, pages and disk
sectors that divide each other as `GeometryAssumption` says, any bits, any data, any
number of writes and power cuts, and glyphs read at any time: `SpiTypeCorrect`,
`SpiWritten` and `SpiNothingLost`, with no condition. None of the properties is
inductive:

* `SpiTypeOK` needs `CallsFit` and `ProgFits`: the calls that are left have bytes and lie
  in the chip, and so does what is left to program.
* `Written` speaks of a flash at rest. `Elsewhere` says what is there in between: outside
  of the bytes that are being rewritten (`Rewritten`: none, the bytes of the call in
  this sector, or all of an erased sector) each byte that no cut has harmed holds
  what is `Due`: its old value as long as the call that names it has not come back.
  That a finished part takes nothing from the calls to come needs `CallsApart`, and
  that it is what the caller meant, `Asked`.
* A sector survives its erase by `SectorCopied` (the buffer is the sector) and
  `Programming`: behind the place programming has come to each byte has its value,
  from there on it is blank and its value is in `prog`; only on a blank byte does
  programming give the byte that was asked for. `RightTarget` says that these values
  are the new bytes where the call names them and what is due elsewhere.
* `MixedIsGarbled`: a sector that was read in the middle of a glyph counts as harmed
  where it is rewritten, all of it once it is to be erased. `SectorCopied` and
  `Programming` are about the others.

`NothingLost` follows from `Elsewhere` and `RightTarget`. TLC checked all of these on the
instance of `storage` before they were proved. Most of the module is about lengths and places:
`OneBlock` and `SectorOf` (the sector of an address), `NewCalls` (the calls that FatFs and
the USB device make cover what was asked for, piece after piece), `PartUnderWay`,
`PageIs` and `AdvanceIs` (what each turn of the two loops takes and leaves).

## 8. Web camera

`Webcam` is `webcam_run` with its DMA interrupt and its send task. The ring is
that of the recorder with another reader: the task (priority 2) hands the
buffer to `netconn_write` itself, which may take long. `status` is
`webcam_sendtask_status` (0 no task, 1 sending, 2 paused, 255 asked to end),
`send` and `main` the places of the two tasks, `conn` the connection
`netconn_write` was called with. A connection is an address: `live` are those
lwIP has handed out, `broken` those whose client has gone, and an address that
was freed may be handed out again. Clients go at any time, also while main_task
waits, and a client that reads nothing keeps `netconn_write` for ever.

| code | actions |
|---|---|
| `webcam_dcmi_rx_callback`, `webcam_fifo_write` | `WebcamDcmiRxCallback` |
| `webcam_send_task`, `webcam_fifo_read` | `DelayOver`, `SendNothing`, `FifoRead`, `FifoReadWrap`, `NetconnWrite`, `WriteReturns`, `WriteFails`, `WriteOnFreed`, `SendTaskEnds` |
| `webcam_run`: the open and close button | `NoButton`, `PressOpen`, `PressOpenFails`, `PressClose`, `Close` |
| `webcam_run`: the client | `AcceptClient`, `SendTaskStart`, `AcceptTimeout`, `ClientGone`, `Connected` |
| `webcam_run`: entering and leaving, `webcam_send_task_delete` | `WebcamRun`, `WebcamRunFails`, `NoReturn`, `Return`, `Stop`, `SendTaskDelete`, `SendTaskDeleted`, `Leave` |
| environment | `ClientConnects`, `ClientGoes` |

The send task gives way in its delay and in `netconn_write` only, so main_task
runs in these two places (`MainRuns`).

What goes wrong, and the history that says so:

* `cutoff`: the close button is pressed while a block is being sent, the usual
  case with a slow client. `webcam_send_task_stop` only sets the flag, and
  `net_disconnect` frees the connection under `netconn_write` (`webcamera.c:394-400`). The
  mark lasts until that write is over; its result is arbitrary (`WriteOnFreed`).
* `hasty`: a button or TPAD is seen after a client has gone and before the next
  `netconn_accept`. `webcamnet` still points to the connection that was deleted
  in this turn of the loop (`webcamera.c:423`), and it is deleted again.
* `unheard`: the client goes while main_task waits in `webcam_send_task_delete`. The
  task writes 2 over the request to end, and main_task waits for ever.
* The task cannot be created (`WebcamRunFails`, `webcamera.c:129, 334`): the loop is passed
  over, `webcam_send_task_stop` sets the status to 2 all the same, and the delete
  (`webcamera.c:445-448`) waits for a task that does not exist.

`FreedIsNotUsed`, `DeleteEnds` and `PlaceFreed` name these and allow nothing else. The
last two ways end in a wait without a limit, so deadlock is not checked.

Limits of the model: one interrupt at most falls into a `webcam_fifo_read`; the
callback has copied a
buffer before the DMA needs it again. `net_tcpserver_remove_timewait` is left
out: it waits for lwIP, and walks lwIP's list without its lock.

| run | instance | shows |
|---|---|---|
| `webcam` | a ring of three, three blocks, two addresses; any number of visits, openings and clients | `FreedIsNotUsed`, `SendsToClient`, `StreamIsFifo`, `DeleteEnds`, `PlaceFreed`, the types |

Two addresses are enough to tell a new connection from a forgotten one and to
hand a freed one out again. A ring of three wraps and fills up. The positions of
the ring are not reset when the application is left (`webcamera.c:78`): on the
next visit the first client gets what the new buffers hold by chance. The model
has this (`NoBlock` is taken); no property forbids it.

Fairness: weak for the DMA and the turns of the send task, of the highest
priority; weak for `WriteFails`: lwIP lets a write fail when it knows that the client
has gone. `WriteReturns` has none; `DeleteEnds` says `[]<>(send # "write")`, that no
write lasts for ever, where it needs that. Strong for main_task, which runs in
every delay of the task. Buttons and clients are not fair.

**Proved** (`WebcamProofs`), for every length of the ring, any number of blocks and
every set of connections, with no condition: `WebTypeCorrect`, `RingIsQueue` (the
ring implements `BoundedFifo`), `NothingElseFreedIsUsed` and `ClientIsServed`. The ring
is as that of the recorder; here one interrupt at most falls into a read by
construction (`burst`), which `ReadIndex` uses. For the connections the invariant
is `WebInv`: `TaskAsked` says for each place of main_task which value of
`webcam_sendtask_status` and which place of the send task go with it; `DmaOff`
that the DMA is off before the buffers are freed; `OneConnection` that the
connection main_task knows is the only one lwIP has, or is gone and the next
`netconn_accept` will say so, and that the task writes to that one unless it was
cut off. None of them is inductive without the others: that
a connection may be deleted follows from where the task is, and what the task
sends to from the flags of main_task. `DeleteEnds` and `PlaceFreed` (liveness) stay
with TLC.

## 9. Not modelled

Third-party code (kernel, lwIP, FatFs itself, codecs, emulators, the vendor's USB
stack), generated tables, and sequential screens and file formats are out of
scope: they are most of the lines of the repository and none of its
concurrency. The components marked `not_modelled` or `partly` in PROJECT.json say
what else is missing. In particular:

* the frame handshake of the photo, the counters of `ff_enter` and `ff_leave`, the
  internal flash and the EEPROM (in the plan);
* MP3, FLAC and APE (the loop of `wav_play_song` with other decoders), seeking,
  random and single order, volume and lyrics;
* the list of new messages, and what is drawn;
* failed allocations, but for the stacks of the in-call task and of the send task.
  `audioplay.c` and `recorder.c` test some of them; `ftl.c:47` and `w25qxx.c:244` do
  not.

Read in the source and left to inspection: `stmflash.c:171` erases the same
sector for ever if it does not become blank; the answer of a modem that is late is
taken for that of the next command (`gsm.c:61-71`); `sms_remind_msg` waits over a second
before the buffer is cleared, and what arrives meanwhile is lost
(`gsm.c:170-186`); a message index of three digits gets its second digit twice, as tens and as
units (`gsm.c:180`);
`smsplay.c:259` allocates no room for the terminator; `audioplay.c:886` may seek on
a file that has been freed; `wavplay.c:122` fills a short block with less
silence than it should.

## 10. Running

    tlc -config MCMalloc.cfg MCMalloc
    tlc -config MCFTL_wear.cfg MCFTL
    tlc -config MCFTL_fault.cfg MCFTL
    tlc -config MCAudio.cfg MCAudio
    tlc -config GsmLink.cfg GsmLink
    tlc -config MCSpiFlash.cfg MCSpiFlash
    tlc -config MCWebcam.cfg MCWebcam
    tlc -config MCMalloc_race.cfg MCMalloc          (violation)
    tlc -config MCFTL_cut_data.cfg MCFTL            (violation)
    tlc -config MCFTL_retry_data.cfg MCFTL          (violation)
    tlc -config MCFTL_read_data.cfg MCFTL           (violation)
    tlc -config MCAudio_stop.cfg MCAudio            (violation)
    tlapm MallocProofs.tla
    tlapm FTLProofs.tla
    tlapm RingLemmas.tla
    tlapm RecorderProofs.tla
    tlapm AudioProofs.tla
    tlapm GsmProofs.tla
    tlapm WebcamProofs.tla
    tlapm SpiFlashProofs.tla

The largest run, `audio`, takes about two minutes, the largest proof, `FTLProofs`,
under three.

What the proofs leave to TLC: the liveness properties (`CallReturns`, `StopEnds`,
`LinkFree`, `DeleteEnds`, `PlaceFreed`), which TLAPS does not support with fairness, and
the runs that find a disagreement. Every other invariant, action property and
refinement that a run checks is stated by a theorem, with the conditions given above.

Operators whose comment begins with "Mutant" are faulty variants of the
definition that follows them. They are used by no specification; replacing the
definition by the variant breaks the property PROJECT.json pairs them with.

# A TLA+ verification of daytona-arcade-recomp

The program is a static recompilation of the arcade game Daytona USA (Sega
Model 2): the i960, TGP and 68000 code of the machine translated to C++, run by
a hand-written runtime (`src/src/runtime`), a desktop program (`src/src/app`) and
a PlayStation Vita program (`src/platform/vita`). Paths below, here and in
`PROJECT.json`, start at the root of the repository, as `src/...`.

Most of the program is arithmetic on polygons, texels, samples and registers,
which its tests compare with recordings of the original. What tests reach badly
is the part that is concurrent or distributed: cabinets linked in a ring, a sound
thread beside the frame loop, a lock-free queue into the audio callback,
threads that log or parse, interrupts that meet callbacks at an instruction count. This
development is about that part.

    tlc -workers 2 -config link_ring.cfg LinkRing     a model-checking run
    tlapm LinkRingProofs.tla                          the proofs of a module

`PROJECT.json` lists the components, the runs, the mutants of the code each
property must find, the source lines of every definition, the findings, the
hazards and the theorems.

## 1. The system

| component | source | state it keeps | operations | what makes it correct |
|---|---|---|---|---|
| communication board | `src/src/runtime/comm_board.{h,cpp}` | link phase, own number, count, start timer, vsync wait, 8 KB shared memory, 64 KB ring buffer | register writes `cn_w`, `fg_w`, reads `fg_r`, vertical blank | every cabinet learns the same count and its own place; race data arrives as the data of the right car; frame sync holds nobody for ever; a lost link stays lost |
| TCP cables | `src/src/app/link_socket.{h,cpp}`, `src/platform/vita/link.h` | listener, incoming and outgoing socket, retry time, Vita: 64 KB outgoing buffer | `poll`, `read`, `write`, `rx_open`, `tx_open` | whole frames in order between two cabinets, an honest report of a loss |
| Vita sound thread | `src/platform/vita/sound_worker.h` | one job slot, flags, condition variables, result, exception | `open`, `dispatch`, `finish`, `close` | each job once, in order, joined after it ran; no lost wake-up or exception |
| Vita frame loop and menu | `src/platform/vita/main_gpu.cpp`, `src/src/runtime/game_loop.{h,cpp}` | game, menu, sound packet, in-flight flag | frame, menu, settings, start, exit, faults | nothing the thread uses is touched while it plays; every frame is played |
| native audio | `src/src/app/native_audio.h` | byte ring, two wrapping counters, fault flags, stream | `open`, `send`, callback, `pause`, `resume`, `close` | the engine gets the game's commands byte for byte or the game ends |
| desktop main loop | `src/src/app/main.cpp` | game, launcher, native fault | turn of the loop, `start_game` | a faulted game is not resumed; saves |
| asynchronous logs | `src/platform/vita/async_log.h`, `diagnostic_log.h` | one record slot, its flags and counts, a thread; the file, its size and its error | `try_append`, `drain`, `sync`, `stats`, `open`, `close`, `write` | one writer in the file at a time, records in order, none lost without being counted |
| Vita geometry thread | `src/platform/vita/src/runtime/geo.{h,cpp}` | two display lists, two semaphores, deferred error | parse, wait, swap | a list is read only after it is parsed, an error is thrown once |
| Vita audio device | `src/platform/vita/audio.h` | locked sample queue | push, callback | bounded, no torn samples |
| Model 2 board, lockstep, interrupts of the i960, frame ends | `src/src/runtime/m2_board.*`, `lockstep.*`, `cpu.cpp`, `game_loop.*` | request, enable and lines, the interrupt that waits and the pending table, the UART's registers, callbacks by instruction count | register writes, `boundary`, `apply`, `add_callback`, `poke`, `ret`, `modpc`, `probe` | no interrupt lost, no callback passed over, sound bytes in order and once, frames that end |
| sound board, TGP board | `src/src/runtime/sound_board.*`, `m2_tgp_board.*` | UART receiver, timers, FIFOs | registers, `run_to` | no sound byte or FIFO word lost |
| saving, settings, ROM staging | `src/src/app/config.cpp`, `rom_file.h` | files | load, save | a crash leaves the old or the new file |
| pacing, test switch | `src/src/app/pacing.*`, `src/src/runtime/test_hold.h` | accumulators | tick | no spiral, no drift |
| geometry engine, rasteriser, video, mixer, CPU cores, recompiler, launcher, GPU renderers, Dreamcast and mobile ports | see `PROJECT.json` | data | pure computation, offline tools, user interface, other programs | compared with recordings by the repository's tests |

How they interact. The frame loop runs the machine for one frame; in it the game
writes registers of the communication board, whose `vblank` is called at each
vertical blank; the board reads and writes frames on the two cables. At the end
of a frame the sound side is either run in place, given to the sound thread as a
packet (Vita), or its commands are sent through the native audio queue to the
callback of the audio device. The menu or launcher saves, changes settings and
starts games between frames.

What is hard: cabinets that start, are reset and fail in any order with tokens on
the wire (distribution, stale messages, partial failure); frames that come apart on a
socket; two threads and condition variables that may wake for nothing (interleaving, lost
wake-ups); exceptions and failed writes on either thread (partial failure); interrupts
that rise while another waits (ordering); counters that wrap, counts compared for
equality and queues at their limit (numeric edges). `PROJECT.json` lists these hazards at their lines
with the properties that watch them.

## 2. The modules

| module | what it is |
|---|---|
| `LinkRing` | N communication boards, their cables, cuts |
| `LinkReset` | `LinkRing` with relays, host resets, and reset and init commands at any moment |
| `LinkPromise` | what link play promises; `LinkRing` implements it |
| `LinkRingProofs` | theorems about `LinkRing`: types, numbering, the refinement of `LinkPromise`, race data, vsync |
| `LinkResetProofs` | theorems about `LinkReset`: types, the numbers over resets |
| `LinkCable` | one cable byte by byte, of a desktop or a Vita, with `read_frame` behind it |
| `LinkCableProofs` | theorems about `LinkCable` |
| `SoundWorker` | the sound thread and its caller |
| `Handoff` | what a thread that works for another promises; `SoundWorker` and `GeoPipeline` implement it |
| `SoundPipeline` | the Vita frame loop, menu and sound packets, composed with `SoundWorker` |
| `SoundPipelineProofs` | theorems about `SoundWorker` and `SoundPipeline` |
| `NativeAudio` | the lock-free queue, the audio callback and the desktop main loop |
| `NativeAudioProofs` | theorems about `NativeAudio` |
| `GeoPipeline` | the geometry thread of the Vita, the display lists and the frames that show them |
| `GeoPipelineProofs` | theorems about `GeoPipeline` |
| `AsyncLog` | the log thread of the Vita, its slot, its owner and the file both write |
| `AsyncLogProofs` | theorems about `AsyncLog` |
| `Board` | interrupts, sound UART, callbacks by count and frame ends of the Model 2 board |
| `BoardProofs` | theorems about `Board` |

Each property a run checks has a mutant: an operator beside the definition it
replaces (`CountIn_Twice`, `AtMenu_NoJoin`, ...) that changes the code in the way a
plausible mistake would and that the property must find.

### LinkRing

One board per cabinet, variables named for the members of `CommBoard`
(`alive` is `linkalive_`, `timer` `linktimer_`, `delay` `zfg_delay_`, `status` the first
bytes of the shared memory). A board is single-threaded, so a register write is one
step, but `comm_tick` and `read_fg` read frames from the cable until none is
there, while other cabinets run: `pc` says in which of these loops a board is,
and one step reads and handles one frame. A cable is the sequence of frames on
their way into a cabinet, ended by `Eof` where the connection was closed. A
frame that is on a cable may not have come yet, so a read loop may end while up
to `MaxInFlight` frames are there.

| code | actions |
|---|---|
| `cn_w`, `fg_w` and the game clearing `shared_[1]` | `cn_w`, `fg_w`, `WriteRelay` |
| `comm_tick`, waiting (105-186) | `TickWaiting`, `TakeLinkId`, `TakeLinkSize`, `DropEarly`, `NumberingSlave`, `NumberingCountdown`, `SendLinkId`, `SendLinkSize` |
| `comm_tick`, up and lost (91-94, 189-238) | `TickUp`, `TickLost`, `TakeData`, `TakeVsync`, `DropLate`, `AwaitVsync`, `SyncTimeout`, `EndLost`, `EndExchange` |
| `read_fg` (240-280) | `fg_r`, the same reading actions, `EndPoll` |
| `TcpLink::start_connect`, `poll`, `read`, `write` | `Answer`, `poll`, `Drained`/`CloseRx`, `send_frame` |
| the network | `Cut` |

Race data is abstracted to the cabinet each block comes from, which is what tells
a right block from a wrong one. `zfg_`, an output bit the board never reads, and
the bytes of a frame are left out (the bytes are in `LinkCable`).

### LinkReset

`Reboot` is `start_game` of the desktop program (new sockets, new board, new
memory), `ResetCommand` is `cn_w(0)`, which leaves `linkalive_` and the sockets as
they are, `InitAgain` is `cn_w(1)` on a running board. `MaxFaults` bounds the three
together; `RebootSpec` has host resets alone. Relays are prompt here: a game has cleared `shared_[1]` before the cable out of
its cabinet is answered (`AnswerPrompt`). A relay that is late is counted, see the findings.

### LinkCable

`LinkRing` takes it that frames come whole and in order, or not at all. `LinkCable`
has what is below: a byte is its connection, its frame and its place in it. TCP gives the reader
any part of what was sent, in order; a break loses what has not come. The sender is a desktop
(`vita = FALSE`), which blocks in `write` for at most 2 s without progress, or a Vita, which
keeps the rest in `outgoing_` and sends it in later polls.

| code | actions |
|---|---|
| `start_connect`, `poll` of `link_socket.cpp` | `Connect`, `Accept` |
| `write`, `close_tx` of `link_socket.cpp` | `BeginWrite`, `Send`, `SendFails` |
| `write`, `poll`, `flush`, `disconnect` of `vita/link.h` | `WriteVita`, `Poll` (with `flush`, `append`, `compact`) |
| `read_frame` of `comm_board.cpp` with `TcpLink::read` | `Read`, `ReadEnd` |
| `send_frame`, `cn_w(1)` | `LoseOther`, `InitAgain` |
| the network and the clock | `Break`, `Notice`, `Elapse` |

What it shows for `LinkRing`: the frames are whole and in order (`WholeUnlessTorn`) but
where a connection ends in the middle of a frame into a board that is not up yet, or an init
command finds a part of one. There the board reads frames cut at the wrong place until the
next init command (a finding); `LinkRing` has no such state.

### SoundWorker, Handoff, SoundPipeline

In `SoundWorker` main may make any of the calls `open`, `dispatch`, `finish` and
`close` when it is in none. What a thread does between taking the mutex and
releasing it, or sleeping on it, is one step; the job runs outside. Sleepers wake
by a signal or for nothing (`SpuriousMain`, `SpuriousWorker`), jobs may throw, and
the thread may not be created (main then runs the jobs itself, `Inline`).
`Handoff` keeps the counts of jobs given, run and answered only.

`SoundPipeline` EXTENDS `SoundWorker` and restricts main to what `main_gpu.cpp`
does. A step of main is a part of the frame loop or of the menu between two calls
of the worker; `step` and `then` are its place and where `finish_sound` goes on.
Frames, joins, starts and saves may fail where the code handles it. `heard` is
the ghost record of the frames the sound board has been run for.

### NativeAudio

The main loop (`m`) and the callback (`c`) interleave at every byte written and
at every load and store of the two atomic counters. The loads are acquire and the
stores release and each counter has one writer, so sequential interleaving gives
every outcome the code can produce; the bytes a callback reads lie below the
`write_` it loaded. Counters are numbers modulo `M`, a multiple of the queue size
`K`, as 2^32 is of 16384. `heard` and `ends` are ghosts: what the engine was given and
where packets end.

### GeoPipeline

`at` is the call of `Geo` that main is in, `out` between two of them: `VblankStart`,
`VblankEnd`, `CountRead`, `SetMargin` and `EndGame` go in where `M2Board`, the i960, a settings
commit between two frames (`main_gpu.cpp:681`, and `start_game`) and the end of a game do, at 60 Hz or 30 Hz from one frame to the next. What main or the thread does between two
of its waits on a semaphore is one step; a parse has a step for its beginning (`Take`, which
clears the list) and one for its end (`RunJob`, which may throw), so main may run
in the middle of one. A list is the parse it is of and whether it is whole; `begunAt` is the
ghost record of the frame of each parse, `shown` what a vblank end gave to the screen. Without
a thread `ParseInline` is the whole parse on main. `given`, `ran` and `answered` map to
those of `Handoff`. Every join brings out the error of its parse but the one of `SetMargin`, which leaves
it pending with nothing in flight while the game goes on, to the next parse or output read.

### AsyncLog

What the owner (the frame loop) or the thread does between taking `mutex_` and releasing it, or
sleeping on it, is one step; `call` and `at` say where the owner is, `worker` where the thread
is. A write to the file is outside the mutex and takes a step for each part `sceIoWrite` takes;
`io` is the call of `DiagnosticLog::write` each of them is in. The owner leaves periodic records
in the slot (`Submit`, or `Drop` where `try_append` does not get in) and writes critical ones
itself after a drain (`sync`; `commit_settings` of `main_gpu.cpp`). `Undrained` adds the one
call that does not drain (`main_gpu.cpp:1082`).

| code | actions |
|---|---|
| `try_append`, `stats` | `Submit`, `Drop`, `Stats` |
| `drain`, `sync` | `Call`, `DrainWait`, `Drained`, `OwnWrite`, `OwnWritten` |
| `close`, `open` | `Call`, `Drained`, `Stop`, `Join`, `Create`, `AwaitInit` |
| `entry` | `Start`, `Look`, `Write`, `Written` |
| `DiagnosticLog::write` | `FileOpen`, `FileWrite`, `FileClose` |
| `SDL_CondWait` | `SpuriousOwner`, `SpuriousWorker` |

### Board

Time is the number of instructions completed. All counts (`log`, `next`, `since`) are relative
to the start of the present block, so the state is finite though the run is not; `at` is how far
back the callback now applied lies. `phase` is the place: `boundary` (due callbacks, a waiting
interrupt, the end of the frame), `apply` (a callback is called), `go` (`pos` instructions into a
block, of which any may access a register), `done` (past an instruction that ends the block),
`midway` (a `bx` leads into the middle of a block, where no boundary is looked at and the count
is set back by the instructions left out, `EnterMidway`). `MaxBlock = 1` is the exact build, where every
instruction is a block. In larger ones the interrupt enabled first and masked by `modpc` next is
looked at by the boundary too late: `missed` is the ghost that says so.

| code | actions |
|---|---|
| `Lockstep::boundary`, `block_events` of the recompiled code | `Pass`, `Due` |
| the blocks of the recompiled code and their counts | `Access`, `EndBlock`, `Elapse`, `Complete`, `EnterMidway` |
| `Lockstep::apply` | `Called`, `Applied` |
| `M2Board::uart_shift_done`, `GameLoop::probe` | `uart_shift_done`, `probe` |
| `M2Board::write` and `uart_write_data` | `irq_enable_w`, `irq_ack_w`, `uart_write_data` |
| `Cpu::execute_set_input`, `check_immediate_irqs`, `take_interrupt` | `Raise`, `Takes`, `Enter` |
| `Cpu::check_pending_irqs` at `ret` and `modpc` | `Return`, `Unmask` |
| `run_frame_deferred_sound` | `run_frame` |

The program of the game is not in the repository (it is recompiled from the ROM): `EnableVblank`, `SoundCommand`,
`Mask`, `Acknowledge`, `Transmit` and `NothingToSend` are what it may do, in any order its
handlers allow, each one register of one instruction; `modpc` and `ret` (`Mask`, `Unmask`, `Return`) end
their block. Whether the program is
in its idle loop when `probe` looks is its own choice. Bytes are numbered modulo `Bytes`;
`taken` and `made` are the last one given to the sound board and the last one queued.

## 3. The runs

| run | question | size |
|---|---|---|
| `link_ring` | 3 cabinets, frame sync, one cut: types, numbers, whose car each block is, one vsync, the promise | 790 thousand states |
| `link_live` | 3 cabinets, frame sync: the ring comes up and stays up, data goes all round, every vsync comes | 17 thousand, liveness |
| `link_reset` | 3 cabinets, one a prompt relay, two resets or commands: slaves keep right numbers | 1.25 million |
| `link_stale_token` | violated: a master whose host is reset (`RebootSpec`) comes up as 0 of 0 | finding |
| `link_cable` | one cable, frames of 2 bytes, a break, two connections, an init command: whole frames, no byte lost inside a connection, no line given up before a stall but by a socket connected at once, the Vita's buffer drains | 297 thousand, liveness |
| `link_torn` | violated: a board that waits keeps the part of a frame of a closed connection | finding |
| `sound_pipeline` | 4 frames, 2 games: the hand-off of `SoundWorker`, main alone, packet kept, played in order, saved whole, calls end | 21 thousand, liveness |
| `native_audio` | queue of 2, counters modulo 4, packets to 3 bytes, 2 games: byte order, whole packets, faults; what is sent is heard | 236 thousand, liveness |
| `geo_pipeline` | 4 lists, settings committed between frames: one frame late, the count of the newest, nothing touched while it is parsed, errors, `Handoff`, calls return | 1.8 thousand, liveness |
| `async_log` | 3 records of 2 parts, room for 5 parts: turns at the file, order, every record accounted for, calls return, records written | 61 thousand, liveness |
| `log_race` | violated: the owner and the thread are in the file together | finding |
| `board` | blocks of up to 3 instructions, entered at their start or past it, a probe each 2, 2 bytes queued: interrupts and callbacks, byte order; bytes leave and frames end | 89 thousand, liveness |

The bounds. Three cabinets are the smallest ring with a cabinet between two
slaves, or with a relay between the master and a slave. `StartTimer = 2` keeps both parts of
the countdown of 0xe8: it runs, and it ends at 1. `Slots = 4` lets a block go once round a ring
of three and one further. `MaxInFlight` bounds what lies on a cable and makes the master wait
(`Paced`): a reader that is at most that many frames behind. Without it the
number of numbering tokens on the wire has no bound; with one on each cable some still come
round when the master is up, the case the code must survive. The cut, the resets and the commands
are each at any moment; two resets let a cabinet be reset again while what the first left behind
is still on the cables. Frames of 2 bytes come apart in every way that leaves a part of one; `Room`
and `OutRoom` hold one and two and a half of them, so that a send, a flush and a compaction
each happen with a part of a frame inside. Four frames of sound are the smallest number at which
one is dispatched with an earlier result and an earlier exception behind it and another after it.
A queue of 2 with packets of up to 3 has the packet that fits exactly, the one
that does not fit now and the one that never fits; 5 bytes pass the end of the buffer
and the wrap of the counters. Four display lists have every mix of 60 Hz and 30 Hz before and
after a list that waits to be shown, and one more behind it. Two records and a half fit
in the log, so the third meets the limit, whoever writes it. In `board` a block may step over
a whole probe interval, and the probe, the end of a shift and an interrupt may fall on one
count in either order; a block of three has room for an access that pokes, one that adds a callback
or masks, and one after it, and for an entry one or two instructions past its start. `MaxLate = 1` bounds how far
behind a callback gets while block after block is entered past its start (every loop passes a
start in the end); one is enough for a callback that such a block finds already behind. Two bytes wait
while one is held and one is shifted out; of the three numbers two neighbours are never equal, so
a byte lost, doubled or overtaken shows.

`sound_pipeline`, `geo_pipeline`, `link_cable` and `link_torn` turn deadlock checking off because the program ends
(`step = "off"`), the game does (`at = "gone"`), or the frames of the bound are sent; every other
run checks it, and `OperationsEnd` and `CallsReturn` find a main thread that hangs in the first two.

`SyncTimeout` (the 3 s of `kSyncTimeout`) is possible only where `MaxFaults > 0`: with
no fault every vsync comes in a few milliseconds.

### Fairness

* Link: each game starts its board once (`cn_w`), the one of cabinet 0 sets `fg`; a
  connection attempt is answered in the end (`Answer`); the loops of a board go on
  (`Run`); the vertical blank comes each frame however often the game polls `fg_r`
  (SF `Tick`); a frame on a cable is read in the end (SF `Read`, TCP delivers); a loop
  that reads until nothing is there ends (SF `End`: a few frames come each 17 ms).
* Sound thread: the scheduler runs a thread that can run and a job ends. No fairness
  of spurious wake-ups, so liveness rests on the signals alone.
* `SoundPipeline`: the same, and main goes on with what it has begun; what the player
  chooses, and whether a frame is run, is not fair.
* `GeoPipeline`: the kernel runs a thread that can run, a parse ends, and main goes on with the
  call it is in; the calls themselves are not fair.
* `NativeAudio`: the main loop turns; the device asks for samples while it plays.
* `LinkCable`: both main loops go on (WF of a begun write, of `Poll`, `Accept` and reading), 2 s
  pass (`Elapse`), and a broken connection is noticed in the end (`Notice`).
* `AsyncLog`: the scheduler runs the owner in a call and the thread; a file operation ends. What
  the owner calls, and spurious wake-ups, are not fair.
* `Board`: the machine goes on (WF `Machine`). An interrupt handler is interrupted only by other
  instructions of its own, and gets on whenever it is reached often enough (SF of `Acknowledge`, `Transmit`,
  `NothingToSend`, `Return`): each of its steps is possible only in some phases, hence SF. What
  raises the priority lowers it again (SF `Unmask`). `BytesLeave` assumes besides (`Waits`, in its statement)
  that a callback finds the program in main with interrupts allowed again and again, as
  the probe finds it in its wait loop: with blocks, a program that enables and masks in one block and unmasks
  before each callback would keep an interrupt for ever. `FramesEnd` needs none of this: the caps
  of `probe` end a frame whatever the program does.

## 4. Findings

* `link_stale_token` - `comm_board.h:13-14` says every cabinet learns its id and the
  count. The host of the master is reset just after it sent the size token; the token goes on through
  the boards that still wait and comes back over the new connection, and the new master board, which is
  in its countdown, takes it and is up with number 0 of 0. The slaves keep right numbers (`SlavesNumbered`).
* `link_torn` - `comm_board.h:69` says `rx_` holds the "bytes received toward the next whole
  frame". When a connection ends in the middle of a frame while the board still waits,
  `read_frame` leaves the part there (`comm_board.cpp:284-295`), and everything the next
  connection brings is cut at the wrong place.
* `log_race` - `async_log.h:16-18` asks for `sync` or `drain` before a critical record. The
  warning at `main_gpu.cpp:1082` calls `log.log` without: the owner and the thread may be in
  `DiagnosticLog::write` at once.

Seen while modelling, without a run of their own:

* `comm_board.cpp:119` says a relay does nothing to a token. The init command writes
  `shared_[1] = 2` (slave, line 50) and runs `comm_tick` (line 60) before the game can clear it, so a
  token that has already come is counted up by a relay, and the ring comes up with a count that
  is one too high. With `Relays = {1}` in `link_ring.cfg` TLC shows it: `Numbered` fails, and only
  `DistinctNumbers` holds.
* `link_socket.h:4-5` promises "all of it, or the link is lost after a 2 s stall". `link_socket.cpp:160`: a
  connect that succeeds at once sets `connected_` but not the blocking mode and the 2 s limit, which only `poll`
  sets, so a full send buffer closes the line at once. `link_cable` has such connects (`Immediate = TRUE`), and
  `StallBeforeLoss` names the case as the one exception (`NoRoom`): without `tx.prompt` there it is violated.
* `m2recomp/main.cpp:20-23` says that with `--fast_inaccuracy` an interrupt is taken at the next block start, a
  few instructions later. One that a block enables and then masks by `modpc` is not: `apply` drops the poke
  without taking it (`lockstep.cpp:92-99`), the `modpc` that unmasks looks at the pending table only, and
  it waits for the next callback, up to the interval of the probe. `TakenAtBoundary` names the case (`missed`);
  with `MaxBlock = 1` there is none.
* `comm_board.h:17` says of the link that it "never blocks"; `write` of the desktop may, for up to 2 s
  (`link_socket.h` says so).

## 5. The proofs

All proofs are checked from nothing by tlapm with Z3, Zenon and LS4.

**LinkRing, for any number of cabinets N, any timer, slots and bounds.**
`TypeCorrect` (`LinkRingProofs`): `Spec => []TypeOK`, with cuts and relays;
`OneVsyncOnTheRing` too is for any relays. The other theorems are for a ring without relays
(`Relays = {}`, which each states): a late relay really breaks `Numbered`, and it shifts the blocks by one.

`Numbered` is not inductive: a board learns its number from a token, so the
invariant has to speak of every token on every cable. `RingInv` does: `TokensFit` (a
numbering token on the cable into c carries c, or N into the master; a size token carries the number c is to
take, and everybody it has passed is up), `BoardFits` (a board that is up has the number
of its place; which phases and roles go together), `CountFits` (a master about to
send the size token has counted N) and `UpInRingOrder`. Because a lost frame, a cut and a dropped token only
remove tokens, the invariant survives them. The proof first shows what a step may
do to the cables (`From`: at most the first frame is taken, what remains keeps its order, and what is new
comes from the cabinet before) and to the other boards (`OthersSame`), then treats
each group of actions in one lemma. From it follow `EveryCabinetNumbered` and
`CabinetsComeUpInOrder` (`UpInRingOrder`, the order in which `LinkPromise` lets them come up).

`RingKeepsPromise` shows `Spec => KeepsPromise`: each action is one of
`Stays`, `Starts`, `ComesUp` and `Loses`, which map to a stutter and to the three
actions of `LinkPromise`; only `ComesUp` needs the invariant.

What a cabinet can send is set out once (`Passes`), and two properties of the data are proved
from it. `NoCarInAnothersPlace` (`BlocksInPlace`): `PlaceInv` says of every frame on the cable into c what it
says of c's memory, one place further on, and that tokens carry no blocks; that a frame of race data is no
token needs `RingInv` (its first byte is an id, at most N). `OneVsyncOnTheRing`: `VsyncInv` says that any two
vsyncs are the same place of the same cable, and that while there is one the master waits for it or has lost
its link (`Waited`): so `EndExchange` makes one only when there is none, and `TakeVsync` leaves none behind. `SmallInv`
bounds every number on the ring by N also where relays spoil the numbering, so no data frame is taken for a vsync.

**LinkReset, for any number of cabinets and prompt relays.** `ResetTypes` and `SlavesNumberedOverResets`: `ResetSpec
=> []SlavesNumbered`. `RingInv` does not survive a reset: a cabinet behind one that was reset is up over its head, and a
master that was reset may be up with no number. What does survive is `ResetInv`: the tokens. `TokenRight` says that a token carries the
number that belongs to its cable - how many racers are between the master and it (`Passed`), or from it
on (`Left`) - and says it of the ring alone, not of any board, so a token of before a reset is as right as
a new one. `BoardRight` is what a board adds to it: nobody is numbered without being enabled, with the role of its place;
the master's count is right while it waits with its timer at 0, and says nothing once it is up. `Prompt`
is where the relays come in: before one has cleared `shared_[1]` it has no cable out, so what it counts wrong is lost
(`Silent`). A reset gives the next cabinet the end of a stream, which is no token.

**LinkCable, for any size of a frame, any room in TCP and in `outgoing_`, and any bounds.** `CableRuns`: `Spec =>
[]CableInv`. Nothing in the program says where in the stream of frames a byte belongs; the invariant does. `At(c, n)`
is the n-th byte of connection c, counted over its frames, and `Flow(c)` all that is between `write` and the reader on it: in
the network, in `outgoing_`, and what is left of the frame being sent. `Fits(p, c, a)` says that p followed by
`Flow(c)` runs from byte a on without a gap, on a live connection to the last byte of the last frame. `AheadInv`
says so of the connections the reader has not come to, from their first byte; `ReadInv` of the one it reads,
where p is `rx_` if nothing was torn, so that `rx_` begins a frame and holds less than one.
`FlowInv` is the same without `rx_`, which holds even after a frame was torn. The other part, `ShapeInv`, is types
and places (what `begin`, `end` and `out` of the outgoing buffer delimit is bytes; a socket that is not open
holds nothing; the streams are numbered as the connections). A step of the sender or the network `Moves` a flow:
nothing changes, a frame joins at the end, or the connection ends and keeps a prefix; `RunOn` carries
`Fits` over all three. `FlushOK` and `AppendOK` show that the loop of `flush` and the compaction of `append`, which moves
the bytes to the front, do only that. From it follow `FramesWholeUnlessTorn` and
`NothingLostOnTheWay`. `NoLossWithoutStall` needs little of it: that an open desktop socket has its send limit unless it
was connected at once (`LimitInv`), the exception its property names (section 4).

**SoundWorker, for any number of jobs.** `WorkerInvariant`: `Spec => []WorkerInv`.
`JoinedMeansIdle` and `NoLostWakeup` hold because the job in flight is at exactly one of three places -
waiting with the thread awake, in the thread's hand, over - or there is
none (`StageFits`); which it is follows from the flags only together with where
main is in its call (`PlaceFits`: past its finish nothing is in flight; the thread is
told to stop only while main waits for its end). `ErrorFits` says that `error_` is
set only between the end of a job and its join. The four lemmas are the four parts:
room for the counts, types, places and stages, exceptions. From the invariant follow
`JoinLeavesThreadIdle`, `NoWakeupIsLost`, `ErrorsReachMain`, and `WorkerIsHandoff`:
`Enqueue`, `Run`, `TakeResult` and `Inline` are `Give`, `Run`, `Answer` and `Inline` of
`Handoff`, every other step a stutter.
`open` and `dispatch` with a job in flight are in these theorems only: the frame loop of the run
`sound_pipeline` never calls them then.

**SoundPipeline, for any number of jobs and games.** `PipelineFits`: `Spec => []PipelineInv`, which is
`WorkerInv` and what main knows of the thread. `WorkerStep` first tells
main's side from the worker's: of a step of the worker the pipeline sees only that a job is left with the
thread, run by main in its place, run by the thread, or that a call returns. `CallFits` says in which call of the
worker main may be at each place of the loop; `JoinFits` that past a join neither `busy_` nor
`sound_in_flight` is set; `PacketFits` that the packet is of the frame to be played next; `FramesFit` that
the frames of the board are those played, the one in the thread's hands and the one that
is run but not yet given (`Behind`). From it follow `MainIsAlone`, `WholeGameSaved`, `FramesPlayedInOrder`
(why two frames behind is the most) and the action property `PacketStaysAlive`. `PipelineIsHandoff` is that
each step of the loop is a step of the worker or leaves its variables, so the refinement
of the worker carries over.

**NativeAudio, for any queue size K that divides the modulus M, and any bounds.** `QueueFits`: `Spec =>
[]AudioInv`. The counters wrap and the order of the bytes does not, so `AudioInv` says there are numbers `sent` and
`got` that `write_` and `read_` are the remainders of: `Queued` that each slot holds the byte of its number from
`got` on, those of a packet half written included; `CountersFit` that no more than K are there and that
what was heard lies between the two; `PacketFits` that main has made just what it has sent and is sending, and
that this has its room; `CopiesFit` that the copies of the callback are of the number heard and of the end of a
packet. All that wraps is in eight lemmas on `%` (`ModAdd`, `ModSub`, `ModMod`, `ModDiff`...), proved from the
quotient and the remainder: a slot is the same for a counter that has wrapped (`ModMod`, which needs that K divides M), and
two numbers less than K apart have different slots (`ModDiff`), which is why `Fill` writes over no
byte that is not heard. `CommandsHeardInOrder` and `PacketsHeardWhole` follow.

**AsyncLog, for any number and size of records and any limit.** `WritersTakeTurns`:
`Spec => []LogInv` where `Undrained = FALSE`, and from it `FileAlone`: `Spec => []SinkAlone`. The
two writers share no lock, so the invariant ties three places together: `PlaceFits` (past its drain the owner
finds the slot free; the thread writes only while it is taken), `WriterFits` (a
write is under way only at the place that made it) and `WithinLimit` (a writer that has begun
has room for what is left of its record: with two writers at once the test at the start
of each would not say so). The assumption is needed: `log_race` is the counterexample
without it.
`LogAddsUp` adds what the files hold. `OrderInv`: the parts in the file follow each other and end at the last
one a writer has written, records are numbered upwards, and the next one to be written is newer than all that are
there. `TallyInv`: `submitted_`, `completed_` and `failures_` count the records of the session, which
are whole in the file, failed, or in the slot (finite sets and their cardinalities, from `FiniteSetTheorems`).
From them follow `LogStaysInOrder` and `NoneForgotten`.

**Board, for any probe interval, caps, block length, accesses and entries, and any queue.** `BoardFits`: `Spec =>
[]BoardInv`. It is what holds between three mechanisms that each look at the others only
at certain moments: `CallbacksFit` (the log is sorted and holds the probe and, while a byte
is shifted out, the end of the shift), `NextFits` (`next_count` is never behind a callback),
`WaitingFits` (an interrupt that waits can be taken, or was masked after it by its block, and the next
boundary looks at it; or one has and could not take it, `missed`),
`NoneStranded` (the pending table has something that will fetch from it), `RequestFits`
(the UART's interrupt is at one place at most until acknowledged) and `HoldFits` (nobody who
could write over the held byte is on the way). `InterruptsTaken` and `NoCallbackPassed` follow
from it; that a missed interrupt is looked at again within a probe interval is
the distance of the probe in `CallbacksFit`, which a block entered past its start keeps only relative to that start. `SoundBytesInOrder` needs it too: `BytesInOrder` is inductive only together with
`HoldFits`, without which `Transmit` could write over a byte. The lemmas about chains of numbered bytes
carry the order over a byte leaving one register for the next.

**GeoPipeline, for any number of display lists.** `GeoFits`: `Spec => []GeoInv`. None of the four
properties is inductive. `JobFits` says at which of four places a parse in flight is (asked for, running, to be
answered, answered: `Stage`); `ThreadFits` that without one the thread sleeps and no signal is left on
either semaphore; `ErrorFits` that an error is of the last parse and in the job, or pending with nothing in flight until the
next join that rethrows, or the game is over;
`ListsFit` which list each buffer holds; `TimesFit` how many frames ago the last two
lists were begun, as far as `age` and `pair` tell. Each action has a lemma with a step for each part;
the calls that join share `Joined`. From it follow `ShownOneFrameLate` (which list a frame shows is a
matter of `ListsFit`, that it is the right one of `TimesFit`, that a count read has joined the newest parse of `JobFits`), `ErrorEndsTheGame`,
`ListsUndisturbed` (an action property too: while the thread may parse, main is not past a join, so none of its
steps publishes or copies) and `GeoIsHandoff` (`Parse`, `RunJob`, the joins and `ParseInline` are `Give`, `Run`,
`Answer` and `Inline`).

The assumptions are the named ones on the constants, which TLC evaluates in the runs.

**Only model-checked.** All liveness (`AllUp`, `DataArrives`, `VsyncComes`, `CallsReturn`,
`OperationsEnd`, `FaultShown`, `SentIsHeard`, `RecordsWritten`, `OutgoingDrains`, `BytesLeave`,
`FramesEnd`): out of the prover's reach. `GameSeesNumbers` and `DistinctNumbers` of `LinkRing` are stated for a
reader and hold in instances that are not among the runs.

## 6. Not modelled

Most lines of the repository are outside what a model of control can say: generated shaders and
tables (`shaders_gen.h`, `model_submission.h`), the data side of the machine (geometry, rasteriser,
video, mixing, instruction semantics, decoders), the offline recompiler and tools, user interface and
GPU code, and the Dreamcast and mobile ports, which are other programs. `PROJECT.json` gives the
reason per component. The share of the lines a model covers is therefore small, and is to be read
against the concurrent and distributed part.

Inside the modelled components: a `configure` of `Geo` after the first
frame, which the Vita program does not call; CPU affinity, time measurements, volumes, log texts, the
contents of a link frame; the timers of the Model 2 board, which have no clock and raise nothing;
the recorded traces of `Lockstep` and its Dreamcast variant (`M2_FAST_GEN`).

## 7. Plan

Done: link play, its cable, the sound thread and pipeline, native audio, the geometry thread, the log and the
board, all with proofs. Left, in this order:

1. `Saving`: settings and NVRAM over a crash. `Pacing` over integer time.
2. The UART receiver of the sound board (overrun, timers); the FIFOs between the i960 and the
   TGP and who stalls on them; the locked sample queue of the Vita.
3. Proofs: `GameSeesNumbers`, and `DistinctNumbers` with relays, of `LinkRing`.

--------------------------- MODULE SoundPipeline ---------------------------
(***************************************************************************)
(* Main and the sound thread of the Vita build, put together: the frame    *)
(* loop and the menu of platform/vita/main_gpu.cpp over SoundWorker, with  *)
(* the sound packets of src/runtime/game_loop.cpp.  While the thread plays *)
(* the packet of frame k, main runs frame k + 1 of the board; it joins the *)
(* thread before it gives it the next packet and before everything that    *)
(* saves, changes or ends the game.                                        *)
(*                                                                         *)
(* A pipeline step is taken when main is in no call of the worker.         *)
(***************************************************************************)
EXTENDS SoundWorker, Sequences

CONSTANT MaxBoards   \* bound: games that are started

ASSUME MaxBoardsAssumption == MaxBoards \in Nat

VARIABLES
  step,       \* where main is
  then,       \* where it goes on when finish_sound is over
  menu,
  board,      \* the game that is loaded, 0 for none
  boards,     \* games started
  native,     \* active_native_audio: no sound board, no packets
  frames,     \* frames run by the board
  packet,     \* active_sound: the board and the frame it is of
  inFlight,   \* sound_in_flight
  heard       \* the frames the board's sound board has been run for

place == <<step, then>>
play  == <<menu, board, boards, native, frames, packet, inFlight>>
pvars == <<vars, place, play, heard>>

NoPacket == [board |-> 0, frame |-> 0]

PInit ==
  /\ Init
  /\ step = "boot" /\ then = "loop" /\ menu = TRUE
  /\ board = 0 /\ boards = 0 /\ native = FALSE /\ frames = 0
  /\ packet = NoPacket /\ inFlight = FALSE /\ heard = <<>>

GoOn(next)  == step' = next /\ then' = then
FinishThen(next) == step' = "finish" /\ then' = next
Stay        == UNCHANGED vars
EndGame     == board' = 0 /\ packet' = NoPacket
-----------------------------------------------------------------------------
(* finish_sound: forget the job, join it; if it threw, end the game.       *)
FinishSound ==
  /\ step = "finish"
  /\ IF inFlight THEN Call("finish") /\ GoOn("joining") ELSE GoOn(then) /\ Stay
  /\ inFlight' = FALSE
  /\ UNCHANGED <<menu, board, boards, native, frames, packet, heard>>

Threw == given \in told
Joined ==
  /\ step = "joining" /\ ~Threw
  /\ GoOn(then)
  /\ Stay /\ UNCHANGED <<play, heard>>

(* A frame is given up, a save or a start refused; the rest goes on.       *)
JoinThrew ==
  /\ step = "joining" /\ Threw
  /\ menu' = TRUE /\ EndGame
  /\ GoOn(IF then \in {"dispatch", "start", "set"} THEN "loop" ELSE then)
  /\ Stay /\ UNCHANGED <<boards, native, frames, inFlight, heard>>
-----------------------------------------------------------------------------
(* The frame loop.  The board's frame may throw.                           *)
AfterFrame_NoJoin == GoOn("dispatch")            \* mutant: without a join
AfterFrame        == FinishThen("dispatch")
AfterThrow_NoJoin == GoOn("fault")               \* mutant: without a join
AfterThrow        == FinishThen("fault")
RunFrame ==
  /\ step = "loop" /\ ~menu /\ board # 0 /\ ~native
  /\ given < MaxJobs
  /\ \/ frames' = frames + 1 /\ AfterFrame
     \/ frames' = frames /\ AfterThrow
  /\ Stay /\ UNCHANGED <<menu, board, boards, native, packet, inFlight, heard>>

(* The joined sound board gets its volumes, the new packet replaces the    *)
(* played one and goes to the thread.                                      *)
Dispatch ==
  /\ step = "dispatch"
  /\ packet' = [board |-> board, frame |-> frames]
  /\ Call("dispatch") /\ GoOn("dispatched")
  /\ UNCHANGED <<menu, board, boards, native, frames, inFlight, heard>>

Dispatched ==
  /\ step = "dispatched"
  /\ IF Threw THEN FinishThen("fault") /\ inFlight' = inFlight
              ELSE GoOn("loop") /\ inFlight' = TRUE
  /\ Stay /\ UNCHANGED <<menu, board, boards, native, frames, packet, heard>>

Fault ==
  /\ step = "fault"
  /\ menu' = TRUE /\ EndGame
  /\ GoOn("loop")
  /\ Stay /\ UNCHANGED <<boards, native, frames, inFlight, heard>>
-----------------------------------------------------------------------------
(* The menu: open and save, go on, change the settings, start a game, exit.*)
AtMenu_NoJoin == GoOn("save")                    \* mutant: saves without a join
AtMenu        == FinishThen("save")
OpenMenu ==
  /\ step = "loop" /\ ~menu
  /\ menu' = TRUE
  /\ AtMenu
  /\ Stay /\ UNCHANGED <<board, boards, native, frames, packet, inFlight, heard>>

Resume ==
  /\ step = "loop" /\ menu /\ board # 0
  /\ menu' = FALSE
  /\ Stay /\ UNCHANGED <<place, board, boards, native, frames, packet, inFlight, heard>>

Choose ==
  /\ step = "loop" /\ menu
  /\ \E next \in {"set", "start", "exit"} : FinishThen(next)
  /\ Stay /\ UNCHANGED <<play, heard>>

(* save_nv, or apply_preferences.                                          *)
SaveOrSet ==
  /\ step \in {"save", "set"}
  /\ GoOn("loop")
  /\ Stay /\ UNCHANGED <<play, heard>>

(* start_game: the save fails; another executable is to be loaded but is   *)
(* not; or the game goes and the thread is closed (native audio) or open.  *)
StartRefused ==
  /\ step = "start"
  /\ GoOn("loop")
  /\ \/ Stay /\ board' = board
     \/ Call("close") /\ board' = 0
  /\ UNCHANGED <<menu, boards, native, frames, packet, inFlight, heard>>

StartGame ==
  /\ step = "start"
  /\ EndGame
  /\ \/ native' = TRUE /\ Call("close")
     \/ native' = FALSE /\ IF Threaded THEN Stay ELSE Call("open")
  /\ GoOn("create")
  /\ UNCHANGED <<menu, boards, frames, inFlight, heard>>

NewGame ==
  /\ step = "create"
  /\ \/ /\ boards < MaxBoards
        /\ boards' = boards + 1 /\ board' = boards + 1
        /\ menu' = FALSE /\ frames' = 0 /\ heard' = <<>>
     \/ UNCHANGED <<menu, board, boards, frames, heard>>
  /\ GoOn("loop")
  /\ Stay /\ UNCHANGED <<native, packet, inFlight>>

Boot == step = "boot" /\ Call("open") /\ GoOn("loop") /\ UNCHANGED <<play, heard>>
Exit == step = "exit" /\ Call("close") /\ GoOn("off") /\ UNCHANGED <<play, heard>>
-----------------------------------------------------------------------------
(* The steps of the worker's calls and of the thread; the job it runs      *)
(* plays the packet.                                                       *)
Worker ==
  /\ Main \/ Thread
  /\ heard' = IF ran' = ran THEN heard ELSE Append(heard, packet.frame)
  /\ UNCHANGED <<place, play>>
Spurious == (SpuriousMain \/ SpuriousWorker) /\ UNCHANGED <<place, play, heard>>

Go == /\ call = "none"
      /\ \/ Boot \/ FinishSound \/ Joined \/ JoinThrew \/ Dispatch \/ Dispatched
         \/ Fault \/ SaveOrSet \/ StartRefused \/ StartGame \/ NewGame \/ Exit
User == call = "none" /\ (OpenMenu \/ Resume \/ Choose)
Frame == call = "none" /\ RunFrame

PNext == Worker \/ Spurious \/ Go \/ Frame \/ User
PSpec == PInit /\ [][PNext]_pvars
PFair == PSpec /\ WF_pvars(Worker /\ Main) /\ WF_pvars(Worker /\ Thread) /\ WF_pvars(Go)
-----------------------------------------------------------------------------
PTypeOK ==
  /\ TypeOK
  /\ step \in {"boot", "loop", "finish", "joining", "dispatch", "dispatched",
               "fault", "save", "set", "start", "create", "exit", "off"}
  /\ then \in {"loop", "dispatch", "fault", "save", "set", "start", "exit"}
  /\ {menu, native, inFlight} \subseteq BOOLEAN
  /\ {board, boards} \subseteq 0 .. MaxBoards /\ frames \in 0 .. MaxJobs + 1
  /\ packet \in [board : 0 .. MaxBoards, frame : 0 .. MaxJobs + 1]
  /\ heard \in Seq(1 .. MaxJobs)

(* "The sound worker is idle": main replaces the packet, changes volumes,  *)
(* saves or ends the game only while the thread plays nothing.             *)
MainAlone ==
  step \notin {"boot", "loop", "finish", "joining", "dispatched", "off"} =>
    worker # "run" /\ ~queued

(* "packet must remain alive and unmoved until finish": from its dispatch  *)
(* until it has been played a packet and its board stay as they are.       *)
PacketKept ==
  [][queued \/ worker = "run" => packet' = packet /\ board' = board /\ board # 0]_pvars

(* "in order, never concurrently": the sound board is run once for every   *)
(* frame of its board, in order, never more than two frames behind it.     *)
PlayedInOrder ==
  /\ PTypeOK
  /\ \A i \in 1 .. Len(heard) : heard[i] = i
  /\ board # 0 => Len(heard) \in frames - 2 .. frames

(* What the menu saves is a whole game: its sound has caught up with it.   *)
SavedWhole ==
  step \in {"save", "start", "exit"} /\ board # 0 => Len(heard) = frames

(* Main never hangs in the pipeline: every operation ends in the loop.     *)
OperationsEnd == step # "loop" ~> step \in {"loop", "off"}
=============================================================================

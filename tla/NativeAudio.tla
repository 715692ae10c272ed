---------------------------- MODULE NativeAudio ----------------------------
(***************************************************************************)
(* Native audio: main hands the game's sound commands to the audio         *)
(* callback through the lock-free queue of src/app/native_audio.h, in the  *)
(* main loop of src/app/main.cpp.  read_ and write_ are free-running       *)
(* 32-bit counters; each is stored by one thread with release and loaded   *)
(* by the other with acquire, so what a thread sees is an interleaving of  *)
(* the steps below: a byte written, a counter stored or loaded, a chunk    *)
(* given to the engine.                                                    *)
(***************************************************************************)
EXTENDS Integers, Sequences

CONSTANTS
  K,           \* kQueueSize, 16384
  M,           \* the counters' modulus, 2^32
  MaxPacket,   \* bound: bytes of one frame
  MaxFrames,   \* bound: frames of one turn of the main loop
  MaxMade,     \* bound: bytes made by one game
  MaxGames     \* bound: games started

ASSUME QueueAssumption == K \in Nat \ {0} /\ M \in Nat /\ M % K = 0 /\ M > K
ASSUME BoundsAssumption == {MaxPacket, MaxFrames, MaxMade, MaxGames} \subseteq Nat

VARIABLES
  m,           \* where main is in its loop
  inLauncher, fault,   \* in_launcher, native_fault
  game,        \* the game that is loaded, 0 for none
  games,       \* games started
  left,        \* frames left in this turn
  made,        \* bytes the game has made
  size, filled, room,  \* send: the packet's bytes, those written, the free bytes seen
  stream,      \* stream_: "none", "paused", "playing"
  read, write, queue,  \* read_, write_, queue_
  failed, invalid,     \* failed_, invalid_ is not 0
  c,           \* where the callback is
  cread, cwrite,       \* its copies of the counters
  heard,       \* the bytes the engine has been given
  ends         \* how many bytes were sent when each packet was accepted

loop  == <<m, inLauncher, fault, left>>
play  == <<game, games, made>>
send  == <<size, filled, room>>
fifo  == <<read, write, queue>>
flags == <<failed, invalid>>
cb    == <<c, cread, cwrite>>
vars  == <<loop, play, send, fifo, flags, cb, stream, heard, ends>>

Byte(k) == <<games, k>>                      \* the k-th byte a game makes
NoByte  == <<0, 0>>

Init ==
  /\ m = "top" /\ inLauncher = TRUE /\ fault = FALSE /\ left = 0
  /\ game = 0 /\ games = 0 /\ made = 0
  /\ size = 0 /\ filled = 0 /\ room = 0
  /\ stream = "none" /\ read = 0 /\ write = 0 /\ queue = [i \in 0 .. K - 1 |-> NoByte]
  /\ failed = FALSE /\ invalid = FALSE
  /\ c = "idle" /\ cread = 0 /\ cwrite = 0
  /\ heard = <<>> /\ ends = {0}
-----------------------------------------------------------------------------
(* The main loop.  sync_native_audio: the stream plays while the game is   *)
(* on the screen.  A key may open the launcher before (events).            *)
Pause == stream' \in {stream, IF stream = "playing" THEN "paused" ELSE stream}  \* it may fail

HeldByFault(l)     == l \/ fault
Sync(l, next) ==
  /\ m' = next
  /\ IF stream = "none"
       THEN /\ inLauncher' = HeldByFault(l)
            /\ UNCHANGED <<stream, fault>>
       ELSE \/ /\ inLauncher' = HeldByFault(l)
               /\ IF inLauncher' THEN Pause ELSE stream' = "playing"
               /\ fault' = fault
            \/ /\ ~HeldByFault(l) /\ stream = "paused"       \* cannot resume
               /\ inLauncher' = TRUE /\ fault' = TRUE
               /\ stream' = stream

Top ==
  /\ m = "top"
  /\ \E l \in {inLauncher, TRUE} : Sync(l, "health")
  /\ UNCHANGED <<left, play, send, fifo, flags, cb, heard, ends>>

(* The callback's faults are looked at once a turn; no turn without a game *)
(* that is on the screen runs frames.                                      *)
Faulty_Failed == FALSE                       \* mutant: failed_ is not looked at
Faulty        == failed \/ invalid
Health ==
  /\ m = "health"
  /\ IF Faulty
       THEN Pause /\ inLauncher' = TRUE /\ fault' = TRUE
       ELSE UNCHANGED <<stream, inLauncher, fault>>
  /\ m' = IF game = 0 \/ inLauncher' THEN "draw" ELSE "frame"
  /\ left' \in 0 .. MaxFrames
  /\ UNCHANGED <<play, send, fifo, flags, cb, heard, ends>>

FramesOver ==
  /\ m = "frame" /\ left = 0
  /\ m' = "draw"
  /\ UNCHANGED <<inLauncher, fault, left, play, send, fifo, flags, cb, stream, heard, ends>>

(* A frame of the game and the first half of send: what is not sent is a   *)
(* fault and ends the game.                                                *)
Free(r)         == K - ((write - r) % M)
Frame ==
  /\ m = "frame" /\ left > 0
  /\ \E n \in 0 .. MaxPacket :
       /\ made + n <= MaxMade
       /\ made' = made + n /\ size' = n
       /\ left' = left - 1
       /\ m' = CASE n = 0                      -> "frame"
                 [] n > 0 /\ (stream = "none" \/ failed) -> "refused"
                 [] OTHER                      -> "load"
  /\ UNCHANGED <<inLauncher, fault, game, games, filled, room, fifo, flags, cb,
                 stream, heard, ends>>

LoadRead ==
  /\ m = "load"
  /\ room' = Free(read) /\ filled' = 0
  /\ m' = IF size > room' THEN "refused" ELSE "fill"
  /\ UNCHANGED <<inLauncher, fault, left, play, size, fifo, flags, cb, stream, heard, ends>>

Slot(i) == ((write + i) % M) % K
Fill ==
  /\ m = "fill" /\ filled < size
  /\ queue' = [queue EXCEPT ![Slot(filled)] = Byte(made - size + filled + 1)]
  /\ filled' = filled + 1
  /\ UNCHANGED <<loop, play, size, room, read, write, flags, cb, stream, heard, ends>>

Filled_Early == filled > 0                   \* mutant: published before it is all there
Filled       == filled = size
Stored_Short == write + size - 1             \* mutant: the last byte is left out
Stored       == write + size
Publish ==
  /\ m = "fill" /\ Filled
  /\ write' = Stored % M
  /\ ends' = ends \cup {made}
  /\ m' = "frame"
  /\ UNCHANGED <<inLauncher, fault, left, play, send, read, queue, flags, cb, stream, heard>>

Refused ==
  /\ m = "refused"
  /\ Pause /\ inLauncher' = TRUE /\ fault' = TRUE
  /\ m' = "draw"
  /\ UNCHANGED <<left, play, send, fifo, flags, cb, heard, ends>>

(* The launcher: resume, start or reset (below), or nothing.               *)
Draw ==
  /\ m = "draw"
  /\ \/ inLauncher /\ Sync(TRUE, "top")
     \/ inLauncher /\ game # 0 /\ Sync(FALSE, "top")
     \/ ~inLauncher /\ m' = "top" /\ UNCHANGED <<inLauncher, fault, stream>>
  /\ UNCHANGED <<left, play, send, fifo, flags, cb, heard, ends>>

(* start_game.  close waits for a callback that is in flight.              *)
CloseGame ==
  /\ m = "draw" /\ inLauncher /\ c = "idle"
  /\ games < MaxGames
  /\ stream' = "none" /\ game' = 0 /\ fault' = FALSE
  /\ m' = "open"
  /\ UNCHANGED <<inLauncher, left, games, made, send, fifo, flags, cb, heard, ends>>

Rewound       == read' = 0 /\ write' = 0
OpenGame ==
  /\ m = "open"
  /\ Rewound /\ failed' = FALSE /\ invalid' = FALSE
  /\ heard' = <<>> /\ made' = 0 /\ ends' = {0}
  /\ games' = games + 1
  /\ \/ game' = games' /\ stream' = "paused" /\ inLauncher' = FALSE
     \/ game' = 0 /\ stream' = "none" /\ inLauncher' = TRUE
  /\ m' = "opened"
  /\ UNCHANGED <<fault, left, send, queue, cb>>

NotOpened ==
  /\ m = "open"
  /\ m' = "opened"
  /\ UNCHANGED <<inLauncher, fault, left, play, send, fifo, flags, cb, stream, heard, ends>>

Opened ==
  /\ m = "opened"
  /\ Sync(inLauncher, "top")
  /\ UNCHANGED <<left, play, send, fifo, flags, cb, heard, ends>>
-----------------------------------------------------------------------------
(* The callback.  A fault is latched: then there is only silence.          *)
Loaded_Stale == cwrite                       \* mutant: write_ is not loaded again
Loaded       == write
Enter ==
  /\ c = "idle" /\ stream = "playing"
  /\ IF failed THEN c' = "render" /\ UNCHANGED <<cread, cwrite>>
               ELSE c' = "receive" /\ cread' = read /\ cwrite' = Loaded
  /\ UNCHANGED <<loop, play, send, fifo, flags, stream, heard, ends>>

Min2(a, b) == IF a < b THEN a ELSE b
Chunk(r, w)         == Min2((w - r) % M, K - (r % K))
Bytes(n) == [i \in 1 .. n |-> IF (cread % K) + i - 1 < K THEN queue[(cread % K) + i - 1] ELSE NoByte]

Receive ==
  /\ c = "receive" /\ cread # cwrite
  /\ heard' = heard \o Bytes(Chunk(cread, cwrite))
  /\ cread' = (cread + Chunk(cread, cwrite)) % M
  /\ UNCHANGED <<loop, play, send, fifo, flags, c, cwrite, stream, ends>>

(* The engine throws in the middle of a chunk, or while it renders.        *)
ReceiveThrows ==
  /\ c = "receive" /\ cread # cwrite
  /\ \E n \in 0 .. Chunk(cread, cwrite) : heard' = heard \o Bytes(n)
  /\ failed' = TRUE /\ invalid' \in {invalid, TRUE}
  /\ c' = "idle"
  /\ UNCHANGED <<loop, play, send, fifo, cread, cwrite, stream, ends>>

Received ==
  /\ c = "receive" /\ cread = cwrite
  /\ read' = cread
  /\ c' = "render"
  /\ UNCHANGED <<loop, play, send, write, queue, flags, cread, cwrite, stream, heard, ends>>

Render ==
  /\ c = "render"
  /\ \/ UNCHANGED failed /\ invalid' \in {invalid, TRUE}
     \/ failed' = TRUE /\ invalid' \in {invalid, TRUE}
  /\ c' = "idle"
  /\ UNCHANGED <<loop, play, send, fifo, cread, cwrite, stream, heard, ends>>
-----------------------------------------------------------------------------
Main ==
  \/ Top \/ Health \/ FramesOver \/ Frame \/ LoadRead \/ Fill \/ Publish
  \/ Refused \/ Draw \/ CloseGame \/ OpenGame \/ NotOpened \/ Opened
Callback == Enter \/ Receive \/ ReceiveThrows \/ Received \/ Render

Next == Main \/ Callback
Spec == Init /\ [][Next]_vars

(* The main loop turns, and the device asks for samples while it plays.    *)
FairSpec == Spec /\ WF_vars(Main) /\ WF_vars(Callback)
-----------------------------------------------------------------------------
TypeOK ==
  /\ m \in {"top", "health", "frame", "load", "fill", "refused", "draw", "open", "opened"}
  /\ {inLauncher, fault, failed, invalid} \subseteq BOOLEAN
  /\ {game, games} \subseteq 0 .. MaxGames /\ made \in 0 .. MaxMade
  /\ left \in 0 .. MaxFrames /\ {size, filled} \subseteq 0 .. MaxPacket /\ room \in 0 .. K
  /\ stream \in {"none", "paused", "playing"}
  /\ {read, write, cread, cwrite} \subseteq 0 .. M - 1
  /\ queue \in [0 .. K - 1 -> (0 .. MaxGames) \X (0 .. MaxMade)]
  /\ c \in {"idle", "receive", "render"}
  /\ heard \in Seq((0 .. MaxGames) \X (0 .. MaxMade)) /\ ends \subseteq 0 .. MaxMade

(* "Losing a note-off is not recoverable": the engine is given the bytes   *)
(* the game has made, in order, none lost, twice, torn or of an old game,  *)
(* over every wrap of the counters and after every refused packet.         *)
HeardAsMade == \A k \in 1 .. Len(heard) : heard[k] = Byte(k)

(* A frame's commands reach the engine together ("rejects the entire       *)
(* packet"): between its turns it has heard whole packets, and the queue   *)
(* keeps its form.                                                         *)
WholePackets == TypeOK /\ (c = "render" /\ ~failed => Len(heard) \in ends)

(* A fault of the callback does not stay unseen.                           *)
FaultShown == failed ~> (fault /\ inLauncher) \/ ~failed

(* What was sent is heard, unless it faults, is paused or closed.          *)
SentIsHeard == \A k \in 1 .. MaxMade :
  k \in ends ~> Len(heard) >= k \/ failed \/ stream # "playing"
=============================================================================

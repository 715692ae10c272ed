------------------------------ MODULE LinkRing ------------------------------
(***************************************************************************)
(* Link play: N cabinets in a ring, each with the communication board of   *)
(* src/src/runtime/comm_board.cpp (class CommBoard) and the two cables of  *)
(* src/src/app/link_socket.cpp (class TcpLink), one from the cabinet       *)
(* before it and one to the next.                                          *)
(*                                                                         *)
(* A board is single-threaded: the game writes its registers and its       *)
(* vertical blank runs comm_tick; both run to the end before the next call *)
(* (pc).  Cabinets run concurrently, so one frame is read and handled per  *)
(* step.  A frame that has been written may not have come yet: read_frame  *)
(* may find nothing while the cable holds something.                       *)
(*                                                                         *)
(* Cabinet 0 is the one whose game is set to MASTER.                       *)
(***************************************************************************)
EXTENDS Integers, Sequences, FiniteSets

CONSTANTS
  N,            \* the number of cabinets in the ring
  Relays,       \* the cabinets whose game sets shared_[1] to 0
  FrameSync,    \* framesync_: 1 holds every cabinet to the master's frame
  StartTimer,   \* the linktimer_ an init command sets (0xe8)
  Slots,        \* race data blocks in one frame (0xe00 bytes of 0x1c0)
  MaxInFlight,  \* bound: frames on a cable that have not come yet
  MaxFaults     \* bound: how many times a cable is cut

ASSUME NAssumption == N \in 2 .. 251   \* 0xfc and above are token types
ASSUME RelaysAssumption == Relays \subseteq 1 .. N - 1
ASSUME FrameSyncAssumption == FrameSync \in {0, 1}
ASSUME StartTimerAssumption == StartTimer \in Nat /\ StartTimer > 1
ASSUME SlotsAssumption == Slots \in Nat \ {0}
ASSUME BoundsAssumption == MaxInFlight \in Nat /\ MaxFaults \in Nat

Cabinet == 0 .. N - 1
Succ(c) == IF c = N - 1 THEN 0 ELSE c + 1
Pred(c) == IF c = 0 THEN N - 1 ELSE c - 1

(***************************************************************************)
(* A frame: buffer0_[0] (idx), the two token bytes, and for race data the  *)
(* cabinet each block comes from.                                          *)
(***************************************************************************)
LinkId   == 255   \* 0xFF, the numbering token
LinkSize == 254   \* 0xFE, the size token
Vsync    == 252   \* 0xFC

Nobody   == N     \* a block no cabinet has written since the memory was cleared
Blocks   == [0 .. Slots - 1 -> 0 .. N]
Memory   == [0 .. Slots -> 0 .. N]

Frame == [idx : Int, a : Int, b : Int, blocks : Blocks]

(* Not a frame: the end of a connection's stream.                          *)
Eof   == [idx |-> 256, a |-> 0, b |-> 0, blocks |-> [s \in 0 .. Slots - 1 |-> Nobody]]

Token(idx, a, b) ==
  [idx |-> idx, a |-> a, b |-> b, blocks |-> [s \in 0 .. Slots - 1 |-> Nobody]]
RaceData_OwnLeftOut(idx, mem) ==   \* mutant: the own block is not put in front
  [idx |-> idx, a |-> 0, b |-> 0, blocks |-> [s \in 0 .. Slots - 1 |-> mem[s + 1]]]
RaceData(idx, mem) ==
  [idx |-> idx, a |-> 0, b |-> 0, blocks |-> [s \in 0 .. Slots - 1 |-> mem[s]]]

(* A frame lands one block (frame_offset_, 0x1c0) up in the memory.        *)
Received_NoOffset(mem, f) ==       \* mutant: it lands at the start
  [s \in 0 .. Slots |-> IF s = Slots THEN mem[s] ELSE f.blocks[s]]
Received(mem, f) ==
  [s \in 0 .. Slots |-> IF s = 0 THEN mem[0] ELSE f.blocks[s - 1]]

VARIABLES
  pc,       \* where the board is: idle, or in a loop of comm_tick or read_fg
  fg,       \* fg_
  relay,    \* shared_[1] = 0 (otherwise it is 2)
  enable,   \* linkenable_
  alive,    \* linkalive_: 0 waiting, 1 up, 2 lost
  id,       \* linkid_
  count,    \* linkcount_
  timer,    \* linktimer_
  delay,    \* zfg_delay_
  status,   \* shared_[0], shared_[2] and shared_[3]: what the game reads
  ram,      \* the ring buffer: the cabinet each 0x1c0 block at 0x2000 comes from
  tx,       \* tx_: no connection, one the next cabinet has answered, open, or broken unnoticed
  rx,       \* rx_open
  cable,    \* the frames on the cable INTO a cabinet
  faults    \* cuts so far

game  == <<fg, relay, enable>>
board == <<alive, id, count, timer, delay, status, ram>>
line  == <<tx, rx, cable>>
vars  == <<pc, game, board, line, faults>>

is_master(c) == fg[c] = 1
is_slave(c)  == fg[c] = 0 /\ ~relay[c]
is_relay(c)  == fg[c] = 0 /\ relay[c]

TypeOK ==
  /\ pc \in [Cabinet -> {"idle", "numbering", "exchange", "poll"}]
  /\ fg \in [Cabinet -> {0, 1}]
  /\ relay \in [Cabinet -> BOOLEAN]
  /\ enable \in [Cabinet -> BOOLEAN]
  /\ alive \in [Cabinet -> 0 .. 2]
  /\ id \in [Cabinet -> Int]
  /\ count \in [Cabinet -> Int]
  /\ timer \in [Cabinet -> 0 .. StartTimer]
  /\ delay \in [Cabinet -> 0 .. 2]
  /\ status \in [Cabinet -> Int \X Int \X Int]
  /\ ram \in [Cabinet -> Memory]
  /\ tx \in [Cabinet -> {"closed", "ready", "open", "broken"}]
  /\ rx \in [Cabinet -> BOOLEAN]
  /\ cable \in [Cabinet -> Seq(Frame)]
  /\ faults \in Nat

Init ==
  /\ pc = [c \in Cabinet |-> "idle"]
  /\ fg = [c \in Cabinet |-> 0]
  /\ relay = [c \in Cabinet |-> TRUE]           \* the memory is zero
  /\ enable = [c \in Cabinet |-> FALSE]
  /\ alive = [c \in Cabinet |-> 0]
  /\ id = [c \in Cabinet |-> 0]
  /\ count = [c \in Cabinet |-> 0]
  /\ timer = [c \in Cabinet |-> 0]
  /\ delay = [c \in Cabinet |-> 0]
  /\ status = [c \in Cabinet |-> <<0, 0, 0>>]
  /\ ram = [c \in Cabinet |-> [s \in 0 .. Slots |-> IF s = 0 THEN c ELSE Nobody]]
  /\ tx = [c \in Cabinet |-> "closed"]
  /\ rx = [c \in Cabinet |-> FALSE]
  /\ cable = [c \in Cabinet |-> <<>>]
  /\ faults = 0

(***************************************************************************)
(* The cables.                                                             *)
(***************************************************************************)

(* A connect to the next cabinet, started by an earlier poll, is answered  *)
(* (the retry delays are over): the next poll finds it done.               *)
Answer(c) ==
  /\ tx[c] = "closed"
  /\ tx' = [tx EXCEPT ![c] = "ready"]
  /\ UNCHANGED <<pc, game, board, rx, cable, faults>>

(* The cable into c is cut: what has not been delivered may be lost from   *)
(* some frame on; the reader finds the end of the stream, the writer       *)
(* notices at a later send.                                                *)
Cut(c) ==
  /\ faults < MaxFaults
  /\ tx[Pred(c)] = "open"
  /\ \E k \in 0 .. Len(cable[c]) :
       /\ \A i \in k + 1 .. Len(cable[c]) : cable[c][i] # Eof
       /\ cable' = [cable EXCEPT ![c] = Append(SubSeq(@, 1, k), Eof)]
  /\ tx' = [tx EXCEPT ![Pred(c)] = "broken"]
  /\ faults' = faults + 1
  /\ UNCHANGED <<pc, game, board, rx>>

(* poll(): accept the cabinet before when it is connecting, take up the    *)
(* connection to the next one when it is done.                             *)
Connecting(c) == cable[c] # <<>> \/ tx[Pred(c)] \in {"ready", "open"}
poll_NeverDone(c) ==               \* mutant: a finished connect is not taken up
  /\ rx' = [rx EXCEPT ![c] = @ \/ Connecting(c)]
  /\ tx' = tx
poll(c) ==
  /\ rx' = [rx EXCEPT ![c] = @ \/ Connecting(c)]
  /\ tx' = [tx EXCEPT ![c] = IF @ = "ready" THEN "open" ELSE @]

(* read_frame found a whole frame / found nothing / found the line closed. *)
FrameHere(c) == rx[c] /\ cable[c] # <<>> /\ Head(cable[c]) # Eof
AtEof(c)     == rx[c] /\ cable[c] # <<>> /\ Head(cable[c]) = Eof
RxLost(c)    == ~rx[c] \/ AtEof(c)

(* Bounds: no more than MaxInFlight frames of a cable are still on their   *)
(* way, and the master ticks when the other cables have room.              *)
NoneCame(c) == Len(cable[c]) <= MaxInFlight
Paced(c) == fg[c] = 1 => \A d \in Cabinet \ {c} : Len(cable[d]) < MaxInFlight

(* send_frame: sent says every frame of fs was taken by the socket.  in is *)
(* the cable into c after what c has read of it.                           *)
send_frame(c, in, fs, sent) ==
  IF sent
    THEN /\ tx[c] \in {"open", "broken"}
         /\ cable' = [cable EXCEPT ![c] = in,
                        ![Succ(c)] = IF tx[c] = "open" THEN @ \o fs ELSE @]
         /\ tx' = tx
    ELSE /\ tx[c] # "open"
         /\ cable' = [cable EXCEPT ![c] = in]
         /\ tx' = [tx EXCEPT ![c] = IF @ = "broken" THEN "closed" ELSE @]

(***************************************************************************)
(* The game's register writes.                                             *)
(***************************************************************************)
fg_w(c) ==
  /\ pc[c] = "idle"
  /\ c = 0 /\ fg[c] = 0
  /\ fg' = [fg EXCEPT ![c] = 1]
  /\ UNCHANGED <<pc, relay, enable, board, line, faults>>

(* The game of a relay clears shared_[1], once its board is initialised.   *)
WriteRelay(c) ==
  /\ pc[c] = "idle"
  /\ c \in Relays /\ enable[c] /\ ~relay[c]
  /\ relay' = [relay EXCEPT ![c] = TRUE]
  /\ UNCHANGED <<pc, fg, enable, board, line, faults>>

(***************************************************************************)
(* comm_tick.  Begin is its head: poll, then by linkalive_.                *)
(***************************************************************************)
RingOpen(c) == rx'[c] /\ tx'[c] = "open"

BeginWaiting(c) ==
  /\ poll(c)
  /\ status' = [status EXCEPT ![c] = <<0, 255, 255>>]
  /\ pc' = [pc EXCEPT ![c] = IF RingOpen(c) THEN "numbering" ELSE "idle"]

(* cn_w(1), the init command, on a board that is not initialised.  The     *)
(* blocks are cleared; block 0 is the game's own.                          *)
InitCommand(c) ==
  /\ enable' = [enable EXCEPT ![c] = TRUE]
  /\ relay' = [relay EXCEPT ![c] = FALSE]
  /\ alive' = [alive EXCEPT ![c] = 0]
  /\ id' = [id EXCEPT ![c] = 0]
  /\ count' = [count EXCEPT ![c] = 0]
  /\ timer' = [timer EXCEPT ![c] = StartTimer]
  /\ ram' = [ram EXCEPT ![c] = [s \in 0 .. Slots |-> IF s = 0 THEN c ELSE Nobody]]
  /\ BeginWaiting(c)
  /\ UNCHANGED <<fg, delay, cable>>

cn_w(c) ==
  /\ pc[c] = "idle"
  /\ ~enable[c]
  /\ InitCommand(c)
  /\ UNCHANGED faults

TickWaiting(c) ==
  /\ pc[c] = "idle" /\ enable[c] /\ alive[c] = 0
  /\ Paced(c)
  /\ BeginWaiting(c)
  /\ UNCHANGED <<game, alive, id, count, timer, delay, ram, cable, faults>>

TickUp(c) ==
  /\ pc[c] = "idle" /\ enable[c] /\ alive[c] = 1
  /\ Paced(c)
  /\ poll(c)
  /\ pc' = [pc EXCEPT ![c] = "exchange"]
  /\ UNCHANGED <<game, board, cable, faults>>

TickLost(c) ==
  /\ pc[c] = "idle" /\ enable[c] /\ alive[c] = 2
  /\ poll(c)
  /\ status' = [status EXCEPT ![c] = <<255, @[2], @[3]>>]
  /\ UNCHANGED <<pc, game, alive, id, count, timer, delay, ram, cable, faults>>

(* What a board passes on: a numbering token counted up by a slave, a size *)
(* token counted down by it.                                               *)
CountIn_Twice(c, f) == [f EXCEPT !.a = IF is_slave(c) THEN @ + 2 ELSE @]   \* mutant
CountIn(c, f)       == [f EXCEPT !.a = IF is_slave(c) THEN @ + 1 ELSE @]
HandDown(c, f)      == [f EXCEPT !.a = IF is_slave(c) THEN @ - 1 ELSE @]

(* "Consider it done": the numbers go to shared memory.                    *)
ShowUp(c)       == status' = [status EXCEPT ![c] = <<1, id'[c], count'[c]>>]

(* A numbering token: the master takes the count from it, a slave counts   *)
(* itself, a relay passes it on.                                           *)
TakeLinkId(c) ==
  /\ pc[c] = "numbering" /\ FrameHere(c)
  /\ LET f == Head(cable[c]) IN
     /\ f.idx = LinkId
     /\ \/ /\ is_master(c)
           /\ id' = [id EXCEPT ![c] = 1]
           /\ count' = [count EXCEPT ![c] = f.a]
           /\ timer' = [timer EXCEPT ![c] = 0]
           /\ cable' = [cable EXCEPT ![c] = Tail(@)]
           /\ tx' = tx
        \/ /\ ~is_master(c)
           /\ \E sent \in BOOLEAN :
                send_frame(c, Tail(cable[c]), <<CountIn(c, f)>>, sent)
           /\ UNCHANGED <<id, count, timer>>
  /\ UNCHANGED <<pc, game, alive, delay, status, ram, rx, faults>>

(* The size token: a slave takes its number from it and hands down the     *)
(* next; whoever sees it is up.                                            *)
TakeLinkSize(c) ==
  /\ pc[c] = "numbering" /\ FrameHere(c)
  /\ LET f == Head(cable[c]) IN
     /\ f.idx = LinkSize
     /\ \/ /\ is_master(c)
           /\ cable' = [cable EXCEPT ![c] = Tail(@)]
           /\ UNCHANGED <<id, count, tx>>
        \/ /\ ~is_master(c)
           /\ id' = [id EXCEPT ![c] = IF is_slave(c) THEN f.a ELSE 0]
           /\ count' = [count EXCEPT ![c] = f.b]
           /\ \E sent \in BOOLEAN :
                send_frame(c, Tail(cable[c]), <<HandDown(c, f)>>, sent)
  /\ alive' = [alive EXCEPT ![c] = 1]
  /\ ShowUp(c)
  /\ pc' = [pc EXCEPT ![c] = "exchange"]
  /\ UNCHANGED <<game, timer, delay, ram, rx, faults>>

(* Race data or vsync that comes before the board is up is dropped.        *)
DropEarly(c) ==
  /\ pc[c] = "numbering" /\ FrameHere(c)
  /\ Head(cable[c]).idx \notin {LinkId, LinkSize}
  /\ cable' = [cable EXCEPT ![c] = Tail(@)]
  /\ UNCHANGED <<pc, game, board, tx, rx, faults>>

(* The cable into c once read_frame has returned nothing.                  *)
Drained(c) == IF AtEof(c) THEN Tail(cable[c]) ELSE cable[c]
CloseRx(c) == rx' = [rx EXCEPT ![c] = @ /\ ~AtEof(c)]

(* No token: a slave's tick is over, the master's start timer runs, then   *)
(* it sends the numbering token each tick, then the size token once.       *)
NumberingSlave(c) ==
  /\ pc[c] = "numbering" /\ ~is_master(c) /\ NoneCame(c)
  /\ CloseRx(c)
  /\ cable' = [cable EXCEPT ![c] = Drained(c)]
  /\ pc' = [pc EXCEPT ![c] = "idle"]
  /\ UNCHANGED <<game, board, tx, faults>>

CountingDown_Past(c) == timer[c] # 1                  \* mutant: runs below zero
CountingDown(c)      == timer[c] > 1
NumberingCountdown(c) ==
  /\ pc[c] = "numbering" /\ is_master(c) /\ CountingDown(c) /\ NoneCame(c)
  /\ CloseRx(c)
  /\ cable' = [cable EXCEPT ![c] = Drained(c)]
  /\ timer' = [timer EXCEPT ![c] = @ - 1]
  /\ pc' = [pc EXCEPT ![c] = "idle"]
  /\ UNCHANGED <<game, alive, id, count, delay, status, ram, tx, faults>>

SendLinkId(c) ==
  /\ pc[c] = "numbering" /\ is_master(c) /\ timer[c] = 1 /\ NoneCame(c)
  /\ CloseRx(c)
  /\ \E sent \in BOOLEAN :
       send_frame(c, Drained(c), <<Token(LinkId, 1, 0)>>, sent)
  /\ pc' = [pc EXCEPT ![c] = "idle"]
  /\ UNCHANGED <<game, board, faults>>

UpOnceSent(c)      == alive' = [alive EXCEPT ![c] = 1]

SendLinkSize(c) ==
  /\ pc[c] = "numbering" /\ is_master(c) /\ timer[c] = 0 /\ NoneCame(c)
  /\ CloseRx(c)
  /\ \E sent \in BOOLEAN :
       send_frame(c, Drained(c), <<Token(LinkSize, count[c], count[c])>>, sent)
  /\ UpOnceSent(c)
  /\ pc' = [pc EXCEPT ![c] = "exchange"]
  /\ UNCHANGED <<game, id, count, timer, delay, ram, faults>>
  /\ ShowUp(c)

(***************************************************************************)
(* The exchange of race data, in comm_tick (pc "exchange") and in read_fg  *)
(* (pc "poll"): both read all there is and, with frame sync, go on until   *)
(* the vsync has come.                                                     *)
(***************************************************************************)

(* lost() when a send or a read fails on a board that is up.               *)
KeepOrLose_Retry(c, kept, keptTimer) ==   \* mutant: back to waiting
  /\ alive' = [alive EXCEPT ![c] = IF @ = 1 /\ ~kept THEN 0 ELSE @]
  /\ timer' = [timer EXCEPT ![c] = IF alive[c] = 1 /\ ~kept THEN 0 ELSE keptTimer]
KeepOrLose(c, kept, keptTimer) ==
  /\ alive' = [alive EXCEPT ![c] = IF @ = 1 /\ ~kept THEN 2 ELSE @]
  /\ timer' = [timer EXCEPT ![c] = IF alive[c] = 1 /\ ~kept THEN 0 ELSE keptTimer]

fg_r(c) ==
  /\ pc[c] = "idle"
  /\ \/ /\ delay[c] > 0
        /\ delay' = [delay EXCEPT ![c] = @ - 1]
        /\ pc' = pc
     \/ /\ delay[c] = 0 /\ alive[c] = 1
        /\ pc' = [pc EXCEPT ![c] = "poll"]
        /\ delay' = delay
  /\ UNCHANGED <<game, alive, id, count, timer, status, ram, line, faults>>

(* Race data: kept, and passed on by a slave as its own memory, by a relay *)
(* as it came; the master takes it off the ring.                           *)
TakeData(c) ==
  /\ pc[c] \in {"exchange", "poll"} /\ FrameHere(c)
  /\ LET f   == Head(cable[c])
         mem == Received(ram[c], f)
     IN
     /\ f.idx <= count[c]
     /\ ram' = [ram EXCEPT ![c] = mem]
     /\ \/ /\ is_master(c)
           /\ cable' = [cable EXCEPT ![c] = Tail(@)]
           /\ UNCHANGED <<alive, timer, tx>>
        \/ /\ ~is_master(c)
           /\ \E sent \in BOOLEAN :
                /\ send_frame(c, Tail(cable[c]),
                     <<IF is_slave(c) THEN RaceData(id[c], mem) ELSE f>>, sent)
                /\ KeepOrLose(c, sent, timer[c])
  /\ UNCHANGED <<pc, game, id, count, delay, status, rx, faults>>

PassOn_Swallow(f) == <<>>                             \* mutant: not forwarded
PassOn(f)         == <<f>>
TakeVsync(c) ==
  /\ pc[c] \in {"exchange", "poll"} /\ FrameHere(c)
  /\ Head(cable[c]).idx = Vsync
  /\ \/ /\ is_master(c)
        /\ cable' = [cable EXCEPT ![c] = Tail(@)]
        /\ timer' = [timer EXCEPT ![c] = 0]
        /\ UNCHANGED <<alive, tx>>
     \/ /\ ~is_master(c)
        /\ \E sent \in BOOLEAN :
             /\ send_frame(c, Tail(cable[c]), PassOn(Head(cable[c])), sent)
             /\ KeepOrLose(c, sent, 0)
  /\ UNCHANGED <<pc, game, id, count, delay, status, ram, rx, faults>>

(* A token that comes late, round the ring behind the size token.          *)
DropLate(c) ==
  /\ pc[c] \in {"exchange", "poll"} /\ FrameHere(c)
  /\ Head(cable[c]).idx > count[c] /\ Head(cable[c]).idx # Vsync
  /\ cable' = [cable EXCEPT ![c] = Tail(@)]
  /\ UNCHANGED <<pc, game, board, tx, rx, faults>>

(* Nothing more to read and still waiting for the vsync: poll and read     *)
(* again, or give up after kSyncTimeout (which takes a fault somewhere).   *)
AwaitVsync(c) ==
  /\ pc[c] \in {"exchange", "poll"} /\ timer[c] = 1
  /\ ~RxLost(c) /\ NoneCame(c)
  /\ poll(c)
  /\ UNCHANGED <<pc, game, board, cable, faults>>

SyncTimeout(c) ==
  /\ pc[c] \in {"exchange", "poll"} /\ timer[c] = 1
  /\ ~RxLost(c) /\ NoneCame(c)
  /\ MaxFaults > 0
  /\ alive' = [alive EXCEPT ![c] = 2]
  /\ timer' = [timer EXCEPT ![c] = 0]
  /\ pc' = [pc EXCEPT ![c] = "idle"]
  /\ UNCHANGED <<game, id, count, delay, status, ram, line, faults>>

(* The line from the cabinet before is closed: the link is lost.           *)
EndLost(c) ==
  /\ pc[c] \in {"exchange", "poll"}
  /\ RxLost(c) \/ (alive[c] # 1 /\ NoneCame(c))
  /\ CloseRx(c)
  /\ cable' = [cable EXCEPT ![c] = Drained(c)]
  /\ KeepOrLose(c, FALSE, timer[c])
  /\ pc' = [pc EXCEPT ![c] = "idle"]
  /\ UNCHANGED <<game, id, count, delay, status, ram, tx, faults>>

EndPoll(c) ==
  /\ pc[c] = "poll" /\ alive[c] = 1 /\ ~RxLost(c) /\ timer[c] # 1 /\ NoneCame(c)
  /\ pc' = [pc EXCEPT ![c] = "idle"]
  /\ UNCHANGED <<game, board, line, faults>>

(* "Enable wait for vsync".                                                *)
ArmWait_Never == 0                                    \* mutant
ArmWait       == FrameSync

(* The end of an exchange: arm the wait for the next vsync; the master     *)
(* sends its memory and the vsync.                                         *)
EndExchange(c) ==
  /\ pc[c] = "exchange" /\ alive[c] = 1 /\ ~RxLost(c) /\ timer[c] # 1 /\ NoneCame(c)
  /\ \/ /\ is_master(c)
        /\ \E sent \in BOOLEAN :
             /\ send_frame(c, cable[c], <<RaceData(id[c], ram[c]), Token(Vsync, 1, 0)>>, sent)
             /\ KeepOrLose(c, sent, ArmWait)
     \/ /\ ~is_master(c)
        /\ timer' = [timer EXCEPT ![c] = ArmWait]
        /\ UNCHANGED <<alive, cable, tx>>
  /\ delay' = [delay EXCEPT ![c] = 2]
  /\ pc' = [pc EXCEPT ![c] = "idle"]
  /\ UNCHANGED <<game, id, count, status, ram, rx, faults>>

-----------------------------------------------------------------------------
Numbering(c) ==
  TakeLinkId(c) \/ TakeLinkSize(c) \/ DropEarly(c)
    \/ NumberingSlave(c) \/ NumberingCountdown(c) \/ SendLinkId(c) \/ SendLinkSize(c)
Exchange(c) ==
  TakeData(c) \/ TakeVsync(c) \/ DropLate(c) \/ AwaitVsync(c) \/ SyncTimeout(c)
    \/ EndLost(c) \/ EndPoll(c) \/ EndExchange(c)
Tick(c) == TickWaiting(c) \/ TickUp(c) \/ TickLost(c)
Game(c) == fg_w(c) \/ WriteRelay(c) \/ cn_w(c) \/ fg_r(c)
Network(c) == Answer(c) \/ Cut(c)

Next == \E c \in Cabinet :
  Game(c) \/ Tick(c) \/ Numbering(c) \/ Exchange(c) \/ Network(c)

(* Every game starts its board (the master's sets fg), the vertical blank  *)
(* ticks it however often the game polls fg_r in between, its loops run    *)
(* on, and a frame that is on a cable is read in the end.  A loop that     *)
(* reads until nothing is there does end: a few frames come each 17 ms.    *)
Read(c) == TakeLinkId(c) \/ TakeLinkSize(c) \/ DropEarly(c)
             \/ TakeData(c) \/ TakeVsync(c) \/ DropLate(c)
End(c)  == EndExchange(c) \/ EndPoll(c)
Run(c)  == Tick(c) \/ Numbering(c) \/ Exchange(c)
Fairness ==
  /\ SF_vars(fg_w(0))
  /\ \A c \in Cabinet :
       /\ WF_vars(Answer(c)) /\ WF_vars(cn_w(c)) /\ WF_vars(Run(c))
       /\ SF_vars(Tick(c)) /\ SF_vars(Read(c)) /\ SF_vars(End(c))

Spec == Init /\ [][Next]_vars
FairSpec == Spec /\ Fairness
-----------------------------------------------------------------------------
(***************************************************************************)
(* What the protocol promises.                                             *)
(***************************************************************************)

(* The numbers the ring should come to: the master is 1, the slaves count  *)
(* down to 2 along the ring, a relay has none; all learn the same count.   *)
Racers    == {d \in Cabinet : d \notin Relays}
Number(c) == CASE c = 0          -> 1
               [] c \in Relays   -> 0
               [] OTHER          -> 1 + Cardinality({d \in Racers : c <= d})

(* comm_board.h: the token goes round "so every cabinet learns its id and  *)
(* the count".  A board that is up, or was up until its link was lost, has *)
(* its own place in the ring as its id and the number of cabinets as its   *)
(* count, whatever was cut, resent or delayed on the way.                  *)
Numbered ==
  \A c \in Cabinet : alive[c] # 0 =>
     id[c] = Number(c) /\ count[c] = Cardinality(Racers)

(* The game reads from the shared memory the very numbers the board works  *)
(* with, from the first frame of the link to its loss (the first byte says *)
(* up until the tick that notices the loss is over).                       *)
GameSeesNumbers ==
  \A c \in Cabinet : alive[c] # 0 =>
     /\ status[c][2] = id[c] /\ status[c][3] = count[c]
     /\ status[c][1] = 1 \/ (status[c][1] = 255 /\ alive[c] = 2)

(* The size token passes every cabinet between the master and one that has *)
(* come up: nobody is up over the head of a cabinet that still waits.      *)
UpInRingOrder ==
  \A c \in Cabinet : alive[c] # 0 => \A d \in 0 .. c - 1 : alive[d] # 0

(* Two cabinets that race never take the same number, not even with a      *)
(* relay that is late to say what it is.                                   *)
DistinctNumbers ==
  \A c, d \in Racers : c # d /\ alive[c] # 0 /\ alive[d] # 0 => id[c] # id[d]

(* The cabinet k racers back along the ring from c.                        *)
Place(c) == Cardinality({d \in Racers : d < c})
Back == [c \in Cabinet |-> [k \in 1 .. Slots |->
           CHOOSE d \in Racers : Place(d) = (Place(c) - k) % Cardinality(Racers)]]

(* Each block of a cabinet's ring buffer is the block of the cabinet that  *)
(* many places back, or empty, and its own block stays its own: no cabinet *)
(* is ever shown one car in the place of another (send_data replaces a     *)
(* slave's frame by its own memory, so every hop shifts the blocks by one).*)
BlocksInPlace ==
  \A c \in Cabinet :
     ram[c][0] = c /\ \A k \in 1 .. Slots : ram[c][k] \in {Nobody, Back[c][k]}

(* With frame sync the master starts a frame only when the vsync of the    *)
(* one before has been all round: one vsync at most is on the ring.        *)
Vsyncs == {p \in Cabinet \X (1 .. 2 * MaxInFlight + 4) :
             p[2] <= Len(cable[p[1]]) /\ cable[p[1]][p[2]].idx = Vsync}
OneVsync == FrameSync = 1 => Cardinality(Vsyncs) <= 1

(* The ring comes up: every cabinet of it is up in the end.                *)
AllUp == <>[](\A c \in Cabinet : alive[c] = 1)

(* Race data goes all round: every block of every cabinet reaches every    *)
(* other one.                                                              *)
DataArrives == <>(\A c \in Cabinet, k \in 1 .. Slots : ram[c][k] = Back[c][k])

(* Frame sync does not hold the ring up: the master waits for the vsync it *)
(* sent, which ends the wait of every slave on its way round, and gets it. *)
VsyncComes == pc[0] = "exchange" ~> pc[0] = "idle"

(***************************************************************************)
(* Why Numbered and UpInRingOrder hold when no cabinet is a relay: the     *)
(* tokens on every cable carry the numbers that belong to that cable.      *)
(***************************************************************************)
RingNumber(c) == IF c = 0 THEN 1 ELSE N + 1 - c
Before(c)     == IF c = 0 THEN Cabinet ELSE 0 .. c - 1   \* whom the size token has passed

TokenFits(c, f) ==
  /\ f.idx = LinkId   => fg[0] = 1 /\ f.a = IF c = 0 THEN N ELSE c
  /\ f.idx = LinkSize =>
       f.a = RingNumber(c) /\ f.b = N /\ \A d \in Before(c) : alive[d] # 0
TokensFit == \A c \in Cabinet : \A i \in 1 .. Len(cable[c]) : TokenFits(c, cable[c][i])

BoardFits(c) ==
  /\ c # 0 => fg[c] = 0
  /\ enable[c] => ~relay[c]
  /\ ~enable[c] => pc[c] = "idle" /\ alive[c] = 0
  /\ pc[c] = "numbering" => alive[c] = 0
  /\ pc[c] \in {"exchange", "poll"} => alive[c] # 0
  /\ alive[c] # 0 => fg[0] = 1 /\ id[c] = RingNumber(c) /\ count[c] = N
CountFits ==
  enable[0] /\ alive[0] = 0 /\ timer[0] = 0 => id[0] = 1 /\ count[0] = N

(* Every token carries the number of the cabinet it comes to, every board  *)
(* that is up the number of its place; with no relay in the ring the steps *)
(* of comm_tick and the game's writes all keep this.                       *)
RingInv == TokensFit /\ (\A c \in Cabinet : BoardFits(c)) /\ CountFits /\ UpInRingOrder

-----------------------------------------------------------------------------
(***************************************************************************)
(* The protocol implements the promise of LinkPromise; CommBoard::link()   *)
(* gives the state a cabinet shows.                                        *)
(***************************************************************************)
Link(c) == CASE ~enable[c]                  -> "off"
             [] enable[c] /\ alive[c] = 1 -> "up"
             [] enable[c] /\ alive[c] = 2 -> "lost"
             [] OTHER                      -> "waiting"

Promise == INSTANCE LinkPromise WITH
  link   <- [c \in Cabinet |-> Link(c)],
  number <- [c \in Cabinet |-> IF alive[c] = 0 THEN <<0, 0>> ELSE <<id[c], count[c]>>]

(* Seen from outside, the cabinets come up one after the other in ring     *)
(* order, each with its final number, and a link that is lost stays lost.  *)
KeepsPromise == Promise!Spec
=============================================================================

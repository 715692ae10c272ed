----------------------------- MODULE LinkReset -----------------------------
(***************************************************************************)
(* LinkRing with cabinets that are reset while the others play on: the     *)
(* host's reset (start_game of src/src/app/main.cpp makes a new TcpLink    *)
(* and a new game with a new board: "lost (reset to try again)") and the   *)
(* game's own reset and init commands (CommBoard::cn_w).  The master's     *)
(* game sets fg before it starts its board, as src/tests/test_comm_board   *)
(* does.  A relay is prompt: its game has cleared shared_[1] before a      *)
(* cable out of it is answered, and only its host is reset.  A late one    *)
(* counts itself in (comm_board.cpp:60), and no number is right then.      *)
(***************************************************************************)
EXTENDS LinkRing

(* MaxFaults bounds the resets of a host, reset commands of a game and     *)
(* init commands on a running board (a reset breaks the cables as a Cut    *)
(* does; the cuts themselves are in the runs of LinkRing).                 *)
Reset(c) ==
  /\ faults < MaxFaults /\ faults' = faults + 1
  /\ pc[c] = "idle" /\ enable[c]

(* start_game: the sockets are closed (the next cabinet finds the end of   *)
(* the stream behind what was sent, the one before a broken connection),   *)
(* the board and its memory are new.                                       *)
Reboot(c) ==
  /\ Reset(c)
  /\ enable' = [enable EXCEPT ![c] = FALSE]
  /\ fg' = [fg EXCEPT ![c] = 0]
  /\ relay' = [relay EXCEPT ![c] = TRUE]
  /\ alive' = [alive EXCEPT ![c] = 0]
  /\ id' = [id EXCEPT ![c] = 0]
  /\ count' = [count EXCEPT ![c] = 0]
  /\ timer' = [timer EXCEPT ![c] = 0]
  /\ delay' = [delay EXCEPT ![c] = 0]
  /\ status' = [status EXCEPT ![c] = <<0, 0, 0>>]
  /\ ram' = [ram EXCEPT ![c] = [s \in 0 .. Slots |-> IF s = 0 THEN c ELSE Nobody]]
  /\ rx' = [rx EXCEPT ![c] = FALSE]
  /\ tx' = [tx EXCEPT ![c] = "closed",
                      ![Pred(c)] = CASE @ = "open"  -> "broken"
                                     [] @ = "ready" -> "closed"
                                     [] OTHER       -> @]
  /\ cable' = [cable EXCEPT ![c] = <<>>,
                            ![Succ(c)] = IF tx[c] \in {"ready", "open"} THEN Append(@, Eof) ELSE @]
  /\ UNCHANGED pc

(* cn_w(0): the board is off, but linkalive_ and the lines stay.           *)
ResetCommand(c) ==
  /\ Reset(c) /\ c \notin Relays
  /\ enable' = [enable EXCEPT ![c] = FALSE]
  /\ fg' = [fg EXCEPT ![c] = 0]
  /\ UNCHANGED <<pc, relay, board, line>>

(* cn_w(1) on a board that is already running.                             *)
InitAgain(c) ==
  /\ Reset(c) /\ c \notin Relays
  /\ InitCommand(c)

StartBoard(c)   == cn_w(c) /\ (c = 0 => fg[c] = 1)
AnswerPrompt(c) == Answer(c) /\ (c \in Relays => enable[c] /\ relay[c])

Ring(c) ==
  \/ fg_w(c) \/ WriteRelay(c) \/ StartBoard(c) \/ fg_r(c)
  \/ Tick(c) \/ Numbering(c) \/ Exchange(c)
  \/ AnswerPrompt(c)

ResetNext == \E c \in Cabinet : Ring(c) \/ Reboot(c) \/ ResetCommand(c) \/ InitAgain(c)
ResetSpec == Init /\ [][ResetNext]_vars

(* Host resets alone.                                                      *)
RebootNext == \E c \in Cabinet : Ring(c) \/ Reboot(c)
RebootSpec == Init /\ [][RebootNext]_vars

-----------------------------------------------------------------------------
(* Whatever is reset, a slave that is up has its own place in the ring and *)
(* the right count: tokens of the time before a reset that are still on    *)
(* the cables number the same ring.                                        *)
SlavesNumbered ==
  \A c \in Racers \ {0} : alive[c] # 0 => id[c] = Number(c) /\ count[c] = Cardinality(Racers)
=============================================================================

------------------------------ MODULE LinkCable ------------------------------
(***************************************************************************)
(* One cable of the ring byte by byte: the TcpLink of the cabinet before   *)
(* (desktop src/app/link_socket.cpp, or platform/vita/link.h), TCP, and    *)
(* read_frame of the board behind it, which collects the bytes of a frame  *)
(* in rx_ until it is whole.                                               *)
(*                                                                         *)
(* A byte is <<connection, frame, place>>.  TCP gives the reader any part  *)
(* of what was sent, in order; a break loses what has not come.            *)
(***************************************************************************)
EXTENDS Integers, Sequences, SequencesExt

CONSTANTS
  Size,        \* bytes of a frame (0xe01)
  Room,        \* bytes TCP takes on before a send would block
  OutRoom,     \* bytes of outgoing_ (65536, the Vita)
  Immediate,   \* a connect may succeed at once (link_socket.cpp:160)
  MaxFrames,   \* bound: frames sent on one connection
  MaxConns,    \* bound: connections made
  MaxBreaks,   \* bound: connections the network breaks
  MaxInits     \* bound: init commands (cn_w(1)) after the first

ASSUME SizesAssumption ==
  /\ Size \in Nat \ {0} /\ Room \in Nat \ {0} /\ OutRoom \in Nat \ {0}
  /\ Immediate \in BOOLEAN
ASSUME BoundsAssumption ==
  MaxFrames \in Nat /\ MaxConns \in Nat /\ MaxBreaks \in Nat /\ MaxInits \in Nat

VARIABLES
  vita,      \* the sender is a Vita
  tx,        \* its socket: state, prompt (ghost: its connect succeeded at once), limited
             \* (it blocks, for 2 s), expired (2 s without progress), broken (the next
             \* send fails), out (outgoing_), begin, end
  sending,   \* desktop: what is left of the frame write() is sending
  frames,    \* frames sent on this connection
  conns,     \* connections so far
  streams,   \* of each connection: the bytes on their way, and whether no more will come
  rx,        \* the reader has a connection open
  from,      \* the number of that one, or of the last it had
  part,      \* rx_ of the reader's board
  link,      \* its linkalive_
  heard,     \* the connection and the number of the last frame it handled
  garbled,   \* ghost: it handled something that is no frame
  torn,      \* ghost: rx_ and the stream have lost step
  breaks, inits

sender == <<vita, tx, sending, frames, conns>>
reader == <<rx, from, part, link, heard, garbled, torn>>
vars   == <<sender, streams, reader, breaks, inits>>

Byte   == (1 .. MaxConns) \X (1 .. MaxFrames) \X (1 .. Size)
None   == <<0, 0, 0>>
Frame(c, f) == [i \in 1 .. Size |-> <<c, f, i>>]
NoSocket ==
  [state |-> "none", prompt |-> FALSE, limited |-> FALSE, expired |-> FALSE, broken |-> FALSE,
   out |-> [i \in 1 .. OutRoom |-> None], begin |-> 0, end |-> 0]

TypeOK ==
  /\ vita \in BOOLEAN
  /\ tx \in [state : {"none", "connecting", "open"}, prompt : BOOLEAN,
             limited : BOOLEAN, expired : BOOLEAN, broken : BOOLEAN,
             out : [1 .. OutRoom -> Byte \cup {None}],
             begin : 0 .. OutRoom, end : 0 .. OutRoom]
  /\ sending \in Seq(Byte) /\ part \in Seq(Byte)
  /\ frames \in 0 .. MaxFrames /\ conns \in 0 .. MaxConns
  /\ from \in 0 .. MaxConns
  /\ streams \in Seq([bytes : Seq(Byte), closed : BOOLEAN])
  /\ link \in {"waiting", "up", "lost"} /\ rx \in BOOLEAN
  /\ heard \in (0 .. MaxConns) \X (0 .. MaxFrames)
  /\ garbled \in BOOLEAN /\ torn \in BOOLEAN
  /\ breaks \in 0 .. MaxBreaks /\ inits \in 0 .. MaxInits

Init ==
  /\ vita \in BOOLEAN
  /\ tx = NoSocket /\ sending = <<>> /\ frames = 0 /\ conns = 0
  /\ streams = <<>> /\ rx = FALSE /\ from = 0 /\ part = <<>> /\ link = "waiting"
  /\ heard = <<0, 0>> /\ garbled = FALSE /\ torn = FALSE
  /\ breaks = 0 /\ inits = 0
-----------------------------------------------------------------------------
(* The stream of the sender's connection.                                  *)
Pipe  == Last(streams)
Free  == Room - Len(Pipe.bytes)

(* TCP takes on bs, or swallows it when the connection is broken and       *)
(* nobody knows yet.                                                       *)
Sent(ss, bs) ==
  [ss EXCEPT ![Len(ss)].bytes = IF ss[Len(ss)].closed THEN @ ELSE @ \o bs]
Closed(ss) == [ss EXCEPT ![Len(ss)].closed = TRUE]

(* poll: start a connect when there is no socket, see whether one that was *)
(* started is done.  Only the latter sets the desktop's send limit.        *)
Limit_Not == FALSE                         \* mutant: the socket stays non-blocking
Limit     == tx.state = "connecting"
Connect ==
  /\ tx.state # "open" /\ sending = <<>>
  /\ \/ tx.state = "none" /\ tx' = [NoSocket EXCEPT !.state = "connecting"]
          /\ UNCHANGED <<frames, conns, streams>>
     \/ tx.state = "connecting" /\ tx' = NoSocket
          /\ UNCHANGED <<frames, conns, streams>>
     \/ /\ tx.state = "connecting" \/ Immediate
        /\ conns < MaxConns
        /\ conns' = conns + 1 /\ frames' = 0
        /\ tx' = [NoSocket EXCEPT !.state = "open", !.limited = Limit,
                                  !.prompt = (tx.state = "none")]
        /\ streams' = Append(streams, [bytes |-> <<>>, closed |-> FALSE])
  /\ UNCHANGED <<vita, sending, reader, breaks, inits>>

(* 2 s pass in which nothing is sent though something waits to be.         *)
Elapse ==
  /\ tx.state = "open" /\ ~tx.expired
  /\ (sending # <<>> /\ Free = 0) \/ tx.begin < tx.end
  /\ tx' = [tx EXCEPT !.expired = TRUE]
  /\ UNCHANGED <<vita, sending, frames, conns, streams, reader, breaks, inits>>
-----------------------------------------------------------------------------
(* Desktop: write() sends until the frame is out; a send that takes        *)
(* nothing closes the connection.                                          *)
BeginWrite ==
  /\ ~vita /\ tx.state = "open" /\ sending = <<>> /\ frames < MaxFrames
  /\ frames' = frames + 1
  /\ sending' = Frame(conns, frames')
  /\ tx' = [tx EXCEPT !.expired = FALSE]
  /\ UNCHANGED <<vita, conns, streams, reader, breaks, inits>>

Send ==
  /\ sending # <<>> /\ ~tx.broken
  /\ \E n \in 1 .. Len(sending) :
       /\ n <= Free
       /\ streams' = Sent(streams, SubSeq(sending, 1, n))
       /\ sending' = SubSeq(sending, n + 1, Len(sending))
  /\ tx' = [tx EXCEPT !.expired = FALSE]
  /\ UNCHANGED <<vita, frames, conns, reader, breaks, inits>>

GivesUp       == tx.expired \/ ~tx.limited
SendFails ==
  /\ sending # <<>>
  /\ tx.broken \/ (Free = 0 /\ GivesUp)
  /\ sending' = <<>> /\ tx' = NoSocket     \* close_tx
  /\ streams' = Closed(streams)
  /\ UNCHANGED <<vita, frames, conns, reader, breaks, inits>>
-----------------------------------------------------------------------------
(* Vita: write() puts the frame into outgoing_ and sends what it can.      *)
(* These operators take and give the socket and the streams, <<t, ss>>.    *)
Waiting(t)     == t.end - t.begin
Disconnect(ss) == <<NoSocket, Closed(ss)>>

(* What of outgoing_ is not between begin_ and end_ does not matter.       *)
Tidy(t) == [t EXCEPT !.out = [i \in 1 .. OutRoom |->
                                IF t.begin < i /\ i <= t.end THEN t.out[i] ELSE None]]

flush(t, ss) ==
  LET room == Room - Len(ss[Len(ss)].bytes)
      n    == IF room < Waiting(t) THEN room ELSE Waiting(t)
      sent == [t EXCEPT !.begin = @ + n, !.expired = @ /\ n = 0]
      on   == Sent(ss, SubSeq(t.out, t.begin + 1, t.begin + n))
  IN IF Waiting(t) = 0 THEN <<Tidy([t EXCEPT !.begin = 0, !.end = 0]), ss>>
     ELSE IF t.broken THEN Disconnect(ss)
     ELSE IF Waiting(sent) = 0 THEN <<Tidy([sent EXCEPT !.begin = 0, !.end = 0]), on>>
     ELSE IF sent.expired THEN Disconnect(on)
     ELSE <<Tidy(sent), on>>

(* Room is made at the end by moving what waits to the front.              *)
compact_KeepsBegin(t) ==                   \* mutant: begin_ is left where it was
  [t EXCEPT !.out = [i \in 1 .. OutRoom |-> IF i + t.begin <= t.end THEN t.out[i + t.begin] ELSE None],
            !.end = Waiting(t)]
compact(t) ==
  [t EXCEPT !.out = [i \in 1 .. OutRoom |-> IF i + t.begin <= t.end THEN t.out[i + t.begin] ELSE None],
            !.end = Waiting(t), !.begin = 0]

append(t, bs) ==
  LET at == IF t.end + Len(bs) > OutRoom THEN compact(t) ELSE t
  IN [at EXCEPT !.out = [i \in 1 .. OutRoom |->
                           IF i \in at.end + 1 .. at.end + Len(bs) THEN bs[i - at.end] ELSE at.out[i]],
                !.end = at.end + Len(bs),
                !.expired = @ /\ Waiting(at) # 0]

After(s) == tx' = s[1] /\ streams' = s[2]
WriteVita ==
  /\ vita /\ tx.state = "open" /\ frames < MaxFrames
  /\ LET s == flush(tx, streams) IN
     \/ s[1].state = "none" /\ After(s) /\ frames' = frames
     \/ s[1].state = "open" /\ Size > OutRoom - Waiting(s[1])
          /\ After(Disconnect(s[2])) /\ frames' = frames
     \/ /\ s[1].state = "open" /\ Size <= OutRoom - Waiting(s[1])
        /\ frames' = frames + 1
        /\ After(flush(append(s[1], Frame(conns, frames')), s[2]))
  /\ UNCHANGED <<vita, sending, conns, reader, breaks, inits>>

Flush_Not(t, ss) == <<t, ss>>              \* mutant: poll does not flush
Flush(t, ss)     == flush(t, ss)
Poll ==
  /\ vita /\ tx.state = "open"
  /\ After(Flush(tx, streams))
  /\ UNCHANGED <<vita, sending, frames, conns, reader, breaks, inits>>
-----------------------------------------------------------------------------
(* The network breaks a connection: what is on its way may be lost from    *)
(* some byte on.  The sender is told at some time, or never sends again.   *)
Break ==
  /\ breaks < MaxBreaks /\ tx.state = "open" /\ ~Pipe.closed
  /\ \E k \in 0 .. Len(Pipe.bytes) :
       streams' = [streams EXCEPT ![Len(streams)] =
                     [bytes |-> SubSeq(Pipe.bytes, 1, k), closed |-> TRUE]]
  /\ breaks' = breaks + 1
  /\ UNCHANGED <<sender, reader, inits>>
Notice ==
  /\ tx.state = "open" /\ Pipe.closed /\ ~tx.broken
  /\ tx' = [tx EXCEPT !.broken = TRUE]
  /\ UNCHANGED <<vita, sending, frames, conns, streams, reader, breaks, inits>>
-----------------------------------------------------------------------------
(* The reader.  poll takes up the next connection; comm_tick reads, but    *)
(* not once the link is lost.                                              *)
Accept ==
  /\ ~rx /\ from < conns
  /\ rx' = TRUE /\ from' = from + 1
  /\ UNCHANGED <<sender, streams, part, link, heard, garbled, torn, breaks, inits>>

(* A whole frame is handled; the size token brings the board up.           *)
NextFrame(bs) ==
  LET c == bs[1][1]
      f == bs[1][2]
  IN /\ bs = Frame(c, f)
     /\ IF c = heard[1] THEN f = heard[2] + 1 ELSE c > heard[1] /\ f = 1
Handle(bs) ==
  /\ part' = <<>>
  /\ garbled' = (garbled \/ ~NextFrame(bs))
  /\ heard' = <<bs[1][1], bs[1][2]>>
  /\ link' \in {link, "up"}

Keeps_Not(bs) == part' = <<>>              \* mutant: only whole frames are kept
Keeps(bs)     == part' = bs
Read ==
  /\ rx /\ link # "lost"
  /\ \E n \in 1 .. Size - Len(part) :
       LET bs == part \o SubSeq(streams[from].bytes, 1, n) IN
       /\ n <= Len(streams[from].bytes)
       /\ streams' = [streams EXCEPT ![from].bytes = SubSeq(@, n + 1, Len(@))]
       /\ \/ Len(bs) = Size /\ Handle(bs)
          \/ Len(bs) < Size /\ Keeps(bs) /\ UNCHANGED <<heard, garbled, link>>
  /\ UNCHANGED <<sender, rx, from, torn, breaks, inits>>

(* The end of the connection: a board that is up has lost the link, one    *)
(* that still waits goes on with the next connection.                      *)
ReadEnd ==
  /\ rx /\ link # "lost"
  /\ streams[from].bytes = <<>> /\ streams[from].closed
  /\ rx' = FALSE
  /\ link' = IF link = "up" THEN "lost" ELSE link
  /\ torn' = (torn \/ (link = "waiting" /\ part # <<>>))
  /\ UNCHANGED <<sender, streams, from, part, heard, garbled, breaks, inits>>

(* Its own cable to the next cabinet fails.                                *)
LoseOther ==
  /\ link = "up"
  /\ link' = "lost"
  /\ UNCHANGED <<sender, streams, rx, from, part, heard, garbled, torn, breaks, inits>>

(* cn_w(1) drops what has come of a frame.                                 *)
InitAgain ==
  /\ inits < MaxInits
  /\ inits' = inits + 1
  /\ link' = "waiting" /\ part' = <<>>
  /\ torn' = (torn \/ part # <<>>)
  /\ UNCHANGED <<sender, streams, rx, from, heard, garbled, breaks>>
-----------------------------------------------------------------------------
Sender  == Connect \/ BeginWrite \/ Send \/ SendFails \/ WriteVita \/ Poll
Reader  == Accept \/ Read \/ ReadEnd \/ LoseOther \/ InitAgain
Network == Elapse \/ Break \/ Notice
Next == Sender \/ Reader \/ Network

Spec == Init /\ [][Next]_vars

(* The main loops of both cabinets go on and time passes; the reader is    *)
(* not lost.                                                               *)
FairSpec ==
  /\ Spec
  /\ WF_vars(Send \/ SendFails) /\ WF_vars(Poll) /\ WF_vars(Elapse) /\ WF_vars(Notice)
  /\ WF_vars(Accept) /\ WF_vars(Read \/ ReadEnd)
-----------------------------------------------------------------------------
(* comm_board.h: rx_ is "bytes received toward the next whole frame", and  *)
(* read_frame gives "one whole frame": the board handles the frames of     *)
(* each connection whole, in order, none left out.                         *)
FramesWhole == ~garbled

(* They are, unless a part of a frame was in rx_ when its connection ended *)
(* on a board that waits, or when an init command cleared rx_.             *)
WholeUnlessTorn == garbled => torn

(* What a connection has taken on and the reader has not: in order, to     *)
(* the last byte of the last frame write() said true to.                   *)
Outgoing == SubSeq(tx.out, tx.begin + 1, tx.end)
Follows(p, q) ==
  IF p[3] = Size THEN q = <<p[1], p[2] + 1, 1>> ELSE q = <<p[1], p[2], p[3] + 1>>
NothingLostInside ==
  TypeOK /\ (tx.state = "open" /\ ~Pipe.closed =>
    LET q == Pipe.bytes \o Outgoing \o sending IN
    /\ \A i \in 1 .. Len(q) - 1 : Follows(q[i], q[i + 1])
    /\ q # <<>> => Last(q) = <<conns, frames, Size>>)

(* "All of it, or the link is lost after a 2 s stall" (link_socket.h:4):  *)
(* a connection that is not broken is closed only when nothing went for    *)
(* 2 s, on the Vita also when outgoing_ has no room for the frame.  There  *)
(* is one exception on the desktop: where the connect had succeeded at     *)
(* once (link_socket.cpp:160) the socket never blocks, and the connection  *)
(* is given up as soon as TCP is full.                                     *)
NoRoom == IF vita THEN Waiting(tx) + Size > OutRoom
                  ELSE tx.prompt /\ sending # <<>> /\ Free = 0
StallBeforeLoss ==
  [][tx.state = "open" /\ tx'.state = "none" => tx.broken \/ tx.expired \/ NoRoom]_vars

(* What outgoing_ holds goes out by the polls alone, or the line is lost.  *)
OutgoingDrains == tx.begin < tx.end ~> tx.begin = tx.end
=============================================================================

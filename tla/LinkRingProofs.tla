-------------------------- MODULE LinkRingProofs --------------------------
(***************************************************************************)
(* Theorems about LinkRing, for any number of cabinets, any start timer,   *)
(* any number of blocks and any number of cuts: types, the numbering, the  *)
(* refinement of LinkPromise, the race data in its place, one vsync.       *)
(***************************************************************************)
EXTENDS LinkRing, TLAPS, FiniteSetTheorems, SequenceTheorems

LEMMA Neighbours ==
  ASSUME NEW c \in Cabinet
  PROVE  Succ(c) \in Cabinet /\ Pred(c) \in Cabinet /\ Succ(c) # c /\ Pred(Succ(c)) = c
  BY NAssumption DEF Cabinet, Succ, Pred

(* Frames the boards make are frames.                                      *)
LEMMA FrameTypes ==
  /\ \A idx, a, b \in Int : Token(idx, a, b) \in Frame
  /\ \A idx \in Int, mem \in Memory : RaceData(idx, mem) \in Frame
  /\ \A mem \in Memory, f \in Frame : Received(mem, f) \in Memory
  /\ \A c \in Cabinet, f \in Frame : CountIn(c, f) \in Frame /\ HandDown(c, f) \in Frame
  /\ Eof \in Frame
<1> USE SlotsAssumption, NAssumption
<1>1. \A idx, a, b \in Int : Token(idx, a, b) \in Frame
  BY DEF Token, Frame, Blocks, Nobody
<1>2. \A idx \in Int, mem \in Memory : RaceData(idx, mem) \in Frame
  BY DEF RaceData, Frame, Blocks, Memory
<1>3. \A mem \in Memory, f \in Frame : Received(mem, f) \in Memory
  BY DEF Received, Frame, Blocks, Memory
<1>4. \A c \in Cabinet, f \in Frame : CountIn(c, f) \in Frame /\ HandDown(c, f) \in Frame
  BY DEF CountIn, HandDown, Frame
<1>5. Eof \in Frame
  BY DEF Eof, Frame, Blocks, Nobody
<1> QED BY <1>1, <1>2, <1>3, <1>4, <1>5

(* What is left on a cable after a read is a sequence of frames.           *)
LEMMA CableTypes ==
  ASSUME TypeOK, NEW c \in Cabinet
  PROVE  /\ cable[c] \in Seq(Frame)
         /\ cable[c] # <<>> => Head(cable[c]) \in Frame /\ Tail(cable[c]) \in Seq(Frame)
         /\ Drained(c) \in Seq(Frame)
<1>1. cable[c] \in Seq(Frame)
  BY DEF TypeOK
<1>2. cable[c] # <<>> => Head(cable[c]) \in Frame /\ Tail(cable[c]) \in Seq(Frame)
  BY <1>1, HeadTailProperties
<1> QED BY <1>1, <1>2 DEF Drained, AtEof

LEMMA SendTypes ==
  ASSUME TypeOK, NEW c \in Cabinet, NEW in \in Seq(Frame), NEW fs \in Seq(Frame),
         NEW sent \in BOOLEAN, send_frame(c, in, fs, sent)
  PROVE  /\ cable' \in [Cabinet -> Seq(Frame)]
         /\ tx' \in [Cabinet -> {"closed", "ready", "open", "broken"}]
<1>0. /\ cable \in [Cabinet -> Seq(Frame)]
      /\ tx \in [Cabinet -> {"closed", "ready", "open", "broken"}]
  BY DEF TypeOK
<1> HIDE DEF TypeOK
<1>1. Succ(c) \in Cabinet
  BY Neighbours
<1>2. cable[Succ(c)] \o fs \in Seq(Frame)
  BY <1>0, <1>1, ConcatProperties
<1>3. CASE sent
  <2>1. cable' \in [Cabinet -> Seq(Frame)]
    BY <1>0, <1>1, <1>2, <1>3 DEF send_frame
  <2> QED BY <1>0, <2>1, <1>3 DEF send_frame
<1>4. CASE ~sent
  <2>1. cable' = [cable EXCEPT ![c] = in]
    BY <1>4 DEF send_frame
  <2>2. cable' \in [Cabinet -> Seq(Frame)]
    BY <1>0, <2>1
  <2>3. tx' \in [Cabinet -> {"closed", "ready", "open", "broken"}]
    BY <1>0, <1>4 DEF send_frame
  <2> QED BY <2>2, <2>3
<1> QED BY <1>3, <1>4

-----------------------------------------------------------------------------
LEMMA InitType == Init => TypeOK
  BY NAssumption, StartTimerAssumption, SlotsAssumption
  DEF Init, TypeOK, Cabinet, Memory, Nobody

LEMMA NetworkType ==
  ASSUME TypeOK, NEW c \in Cabinet, Network(c)
  PROVE  TypeOK'
<1>1. CASE Answer(c)
  BY <1>1 DEF Answer, TypeOK, game, board, line
<1>2. CASE Cut(c)
  <2> PICK k \in 0 .. Len(cable[c]) :
        cable' = [cable EXCEPT ![c] = Append(SubSeq(@, 1, k), Eof)]
    BY <1>2 DEF Cut
  <2>1. SubSeq(cable[c], 1, k) \in Seq(Frame)
    BY SubSeqProperties DEF TypeOK
  <2>2. Append(SubSeq(cable[c], 1, k), Eof) \in Seq(Frame)
    BY <2>1, FrameTypes, AppendProperties
  <2>3. cable' \in [Cabinet -> Seq(Frame)]
    BY <2>2 DEF TypeOK
  <2>4. tx' \in [Cabinet -> {"closed", "ready", "open", "broken"}] /\ faults' \in Nat
    BY <1>2, Neighbours DEF Cut, TypeOK
  <2> QED BY <1>2, <2>3, <2>4 DEF Cut, TypeOK, game, board
<1> QED BY <1>1, <1>2 DEF Network

LEMMA GameType ==
  ASSUME TypeOK, NEW c \in Cabinet, Game(c)
  PROVE  TypeOK'
<1> USE DEF TypeOK, game, board, line
<1>1. CASE fg_w(c)
  BY <1>1 DEF fg_w
<1>2. CASE WriteRelay(c)
  BY <1>2 DEF WriteRelay
<1>3. CASE cn_w(c)
  <2> USE <1>3 DEF cn_w, InitCommand, BeginWaiting, poll
  <2>1. ram' \in [Cabinet -> Memory]
    <3>1. [s \in 0 .. Slots |-> IF s = 0 THEN c ELSE Nobody] \in Memory
      BY NAssumption DEF Memory, Nobody, Cabinet
    <3> QED BY <3>1
  <2>2. /\ pc' \in [Cabinet -> {"idle", "numbering", "exchange", "poll"}]
        /\ timer' \in [Cabinet -> 0 .. StartTimer]
        /\ status' \in [Cabinet -> Int \X Int \X Int]
    BY StartTimerAssumption
  <2>3. /\ tx' \in [Cabinet -> {"closed", "ready", "open", "broken"}]
        /\ rx' \in [Cabinet -> BOOLEAN]
    OBVIOUS
  <2> QED BY SMTT(30), <2>1, <2>2, <2>3
<1>4. CASE fg_r(c)
  <2>1. CASE delay[c] > 0 /\ delay' = [delay EXCEPT ![c] = @ - 1] /\ pc' = pc
    <3>1. delay[c] - 1 \in 0 .. 2
      BY <2>1
    <3> QED BY <1>4, <2>1, <3>1 DEF fg_r
  <2>2. CASE pc' = [pc EXCEPT ![c] = "poll"] /\ delay' = delay
    BY <1>4, <2>2 DEF fg_r
  <2> QED BY <1>4, <2>1, <2>2 DEF fg_r
<1> QED BY <1>1, <1>2, <1>3, <1>4 DEF Game

LEMMA TickType ==
  ASSUME TypeOK, NEW c \in Cabinet, Tick(c)
  PROVE  TypeOK'
<1> USE DEF TypeOK, game, board, line, poll
<1>1. CASE TickWaiting(c)
  <2> USE <1>1 DEF TickWaiting, BeginWaiting
  <2>1. /\ pc' \in [Cabinet -> {"idle", "numbering", "exchange", "poll"}]
        /\ status' \in [Cabinet -> Int \X Int \X Int]
    OBVIOUS
  <2>2. /\ tx' \in [Cabinet -> {"closed", "ready", "open", "broken"}]
        /\ rx' \in [Cabinet -> BOOLEAN]
    OBVIOUS
  <2> QED BY <2>1, <2>2
<1>2. CASE TickUp(c)
  BY <1>2 DEF TickUp
<1>3. CASE TickLost(c)
  <2>1. <<255, status[c][2], status[c][3]>> \in Int \X Int \X Int
    OBVIOUS
  <2>2. status' \in [Cabinet -> Int \X Int \X Int]
    BY <1>3, <2>1 DEF TickLost
  <2>3. /\ tx' \in [Cabinet -> {"closed", "ready", "open", "broken"}]
        /\ rx' \in [Cabinet -> BOOLEAN]
    BY <1>3 DEF TickLost
  <2> QED BY <1>3, <2>2, <2>3 DEF TickLost
<1> QED BY <1>1, <1>2, <1>3 DEF Tick

(* A board that reads a frame and passes another on keeps the types of the *)
(* cables.                                                                 *)
LEMMA TakeTypes ==
  ASSUME TypeOK, NEW c \in Cabinet, FrameHere(c)
  PROVE  /\ Head(cable[c]) \in Frame
         /\ Tail(cable[c]) \in Seq(Frame)
         /\ [cable EXCEPT ![c] = Tail(@)] \in [Cabinet -> Seq(Frame)]
<1>1. cable[c] # <<>>
  BY DEF FrameHere
<1>2. Head(cable[c]) \in Frame /\ Tail(cable[c]) \in Seq(Frame)
  BY <1>1, CableTypes
<1> QED BY <1>2 DEF TypeOK

LEMMA DrainTypes ==
  ASSUME TypeOK, NEW c \in Cabinet, CloseRx(c)
  PROVE  /\ Drained(c) \in Seq(Frame)
         /\ rx' \in [Cabinet -> BOOLEAN]
         /\ [cable EXCEPT ![c] = Drained(c)] \in [Cabinet -> Seq(Frame)]
<1>1. Drained(c) \in Seq(Frame)
  BY CableTypes
<1>2. rx' \in [Cabinet -> BOOLEAN]
  BY DEF TypeOK, CloseRx, AtEof
<1> QED BY <1>1, <1>2 DEF TypeOK

LEMMA OneFrame ==
  ASSUME NEW f \in Frame
  PROVE  <<f>> \in Seq(Frame) /\ PassOn(f) \in Seq(Frame)
  BY DEF PassOn

LEMMA NumberingType ==
  ASSUME TypeOK, NEW c \in Cabinet, Numbering(c)
  PROVE  TypeOK'
<1> DEFINE f == Head(cable[c])
<1>1. CASE TakeLinkId(c)
  <2>1. f \in Frame /\ Tail(cable[c]) \in Seq(Frame)
    BY <1>1, TakeTypes DEF TakeLinkId
  <2>2. CASE is_master(c)
    <3>1. /\ cable' = [cable EXCEPT ![c] = Tail(@)] /\ tx' = tx
          /\ id' = [id EXCEPT ![c] = 1] /\ count' = [count EXCEPT ![c] = f.a]
          /\ timer' = [timer EXCEPT ![c] = 0]
      BY <1>1, <2>2 DEF TakeLinkId
    <3>2. f.a \in Int
      BY <2>1 DEF Frame
    <3>3. cable' \in [Cabinet -> Seq(Frame)]
      BY <1>1, <3>1, TakeTypes DEF TakeLinkId
    <3>4. id' \in [Cabinet -> Int] /\ count' \in [Cabinet -> Int]
      BY <3>1, <3>2 DEF TypeOK
    <3>5. timer' \in [Cabinet -> 0 .. StartTimer]
      BY <3>1, StartTimerAssumption DEF TypeOK
    <3> QED BY <1>1, <3>1, <3>3, <3>4, <3>5 DEF TakeLinkId, TypeOK, game
  <2>3. CASE ~is_master(c)
    <3>1. PICK sent \in BOOLEAN : send_frame(c, Tail(cable[c]), <<CountIn(c, f)>>, sent)
      BY <1>1, <2>3 DEF TakeLinkId
    <3>2. CountIn(c, f) \in Frame
      BY <2>1, FrameTypes
    <3>3. /\ cable' \in [Cabinet -> Seq(Frame)]
          /\ tx' \in [Cabinet -> {"closed", "ready", "open", "broken"}]
      BY <2>1, <3>1, <3>2, OneFrame, SendTypes
    <3> QED BY <1>1, <2>3, <3>3 DEF TakeLinkId, TypeOK, game
  <2> QED BY <2>2, <2>3
<1>2. CASE TakeLinkSize(c)
  <2>1. f \in Frame /\ Tail(cable[c]) \in Seq(Frame)
    BY <1>2, TakeTypes DEF TakeLinkSize
  <2>2. f.a \in Int /\ f.b \in Int
    BY <2>1 DEF Frame
  <2>3. /\ id' \in [Cabinet -> Int] /\ count' \in [Cabinet -> Int]
        /\ cable' \in [Cabinet -> Seq(Frame)]
        /\ tx' \in [Cabinet -> {"closed", "ready", "open", "broken"}]
    <3>1. CASE is_master(c)
      <4>1. cable' = [cable EXCEPT ![c] = Tail(@)] /\ UNCHANGED <<id, count, tx>>
        BY <1>2, <3>1 DEF TakeLinkSize
      <4>2. cable' \in [Cabinet -> Seq(Frame)]
        BY <1>2, <4>1, TakeTypes DEF TakeLinkSize
      <4> QED BY <4>1, <4>2 DEF TypeOK
    <3>2. CASE ~is_master(c)
      <4>1. PICK sent \in BOOLEAN : send_frame(c, Tail(cable[c]), <<HandDown(c, f)>>, sent)
        BY <1>2, <3>2 DEF TakeLinkSize
      <4>2. HandDown(c, f) \in Frame
        BY <2>1, FrameTypes
      <4>3. /\ cable' \in [Cabinet -> Seq(Frame)]
            /\ tx' \in [Cabinet -> {"closed", "ready", "open", "broken"}]
        BY <2>1, <4>1, <4>2, OneFrame, SendTypes
      <4>4. /\ id' = [id EXCEPT ![c] = IF is_slave(c) THEN f.a ELSE 0]
            /\ count' = [count EXCEPT ![c] = f.b]
        BY <1>2, <3>2 DEF TakeLinkSize
      <4> QED BY <2>2, <4>3, <4>4 DEF TypeOK
    <3> QED BY <3>1, <3>2
  <2>4. status' \in [Cabinet -> Int \X Int \X Int]
    <3>1. <<1, id'[c], count'[c]>> \in Int \X Int \X Int
      BY <2>3
    <3> QED BY <1>2, <3>1 DEF TakeLinkSize, ShowUp, TypeOK
  <2>5. alive' \in [Cabinet -> 0 .. 2]
    BY <1>2 DEF TakeLinkSize, TypeOK
  <2>6. pc' \in [Cabinet -> {"idle", "numbering", "exchange", "poll"}]
    BY <1>2 DEF TakeLinkSize, TypeOK
  <2> QED BY <1>2, <2>3, <2>4, <2>5, <2>6 DEF TakeLinkSize, TypeOK, game
<1>3. CASE DropEarly(c)
  <2>1. cable' \in [Cabinet -> Seq(Frame)]
    BY <1>3, TakeTypes DEF DropEarly
  <2> QED BY <1>3, <2>1 DEF DropEarly, TypeOK, game, board
<1>4. CASE NumberingSlave(c)
  <2>1. rx' \in [Cabinet -> BOOLEAN] /\ cable' \in [Cabinet -> Seq(Frame)]
    BY <1>4, DrainTypes DEF NumberingSlave
  <2> QED BY <1>4, <2>1 DEF NumberingSlave, TypeOK, game, board
<1>5. CASE NumberingCountdown(c)
  <2>1. rx' \in [Cabinet -> BOOLEAN] /\ cable' \in [Cabinet -> Seq(Frame)]
    BY <1>5, DrainTypes DEF NumberingCountdown
  <2>2. timer[c] - 1 \in 0 .. StartTimer
    BY <1>5, StartTimerAssumption DEF NumberingCountdown, CountingDown, TypeOK
  <2> QED BY <1>5, <2>1, <2>2 DEF NumberingCountdown, TypeOK, game
<1>6. CASE SendLinkId(c)
  <2>1. rx' \in [Cabinet -> BOOLEAN] /\ Drained(c) \in Seq(Frame)
    BY <1>6, DrainTypes DEF SendLinkId
  <2>2. PICK sent \in BOOLEAN : send_frame(c, Drained(c), <<Token(LinkId, 1, 0)>>, sent)
    BY <1>6 DEF SendLinkId
  <2>3. Token(LinkId, 1, 0) \in Frame
    BY FrameTypes DEF LinkId
  <2>4. /\ cable' \in [Cabinet -> Seq(Frame)]
        /\ tx' \in [Cabinet -> {"closed", "ready", "open", "broken"}]
    BY <2>1, <2>2, <2>3, OneFrame, SendTypes
  <2> QED BY <1>6, <2>1, <2>4 DEF SendLinkId, TypeOK, game, board
<1>7. CASE SendLinkSize(c)
  <2>1. rx' \in [Cabinet -> BOOLEAN] /\ Drained(c) \in Seq(Frame)
    BY <1>7, DrainTypes DEF SendLinkSize
  <2>2. PICK sent \in BOOLEAN :
          send_frame(c, Drained(c), <<Token(LinkSize, count[c], count[c])>>, sent)
    BY <1>7 DEF SendLinkSize
  <2>3. Token(LinkSize, count[c], count[c]) \in Frame
    BY FrameTypes DEF LinkSize, TypeOK
  <2>4. /\ cable' \in [Cabinet -> Seq(Frame)]
        /\ tx' \in [Cabinet -> {"closed", "ready", "open", "broken"}]
    BY <2>1, <2>2, <2>3, OneFrame, SendTypes
  <2>5. <<1, id'[c], count'[c]>> \in Int \X Int \X Int
    BY <1>7 DEF SendLinkSize, TypeOK
  <2>6. status' \in [Cabinet -> Int \X Int \X Int]
    BY <1>7, <2>5 DEF SendLinkSize, ShowUp, TypeOK
  <2>7. alive' \in [Cabinet -> 0 .. 2]
    BY <1>7 DEF SendLinkSize, UpOnceSent, TypeOK
  <2>8. pc' \in [Cabinet -> {"idle", "numbering", "exchange", "poll"}]
    BY <1>7 DEF SendLinkSize, TypeOK
  <2> QED BY <1>7, <2>1, <2>4, <2>6, <2>7, <2>8 DEF SendLinkSize, TypeOK, game
<1> QED BY <1>1, <1>2, <1>3, <1>4, <1>5, <1>6, <1>7 DEF Numbering

LEMMA LoseTypes ==
  ASSUME TypeOK, NEW c \in Cabinet, NEW kept \in BOOLEAN, NEW t \in 0 .. StartTimer,
         KeepOrLose(c, kept, t)
  PROVE  alive' \in [Cabinet -> 0 .. 2] /\ timer' \in [Cabinet -> 0 .. StartTimer]
<1>1. alive' \in [Cabinet -> 0 .. 2]
  BY DEF KeepOrLose, TypeOK
<1>2. timer' \in [Cabinet -> 0 .. StartTimer]
  BY StartTimerAssumption DEF KeepOrLose, TypeOK
<1> QED BY <1>1, <1>2

LEMMA ExchangeType ==
  ASSUME TypeOK, NEW c \in Cabinet, Exchange(c)
  PROVE  TypeOK'
<1> DEFINE f == Head(cable[c])
<1>t. timer[c] \in 0 .. StartTimer /\ 0 \in 0 .. StartTimer /\ ArmWait \in 0 .. StartTimer
  BY StartTimerAssumption, FrameSyncAssumption DEF TypeOK, ArmWait
<1>1. CASE TakeData(c)
  <2> DEFINE mem == Received(ram[c], f)
             g   == IF is_slave(c) THEN RaceData(id[c], mem) ELSE f
  <2>1. f \in Frame /\ Tail(cable[c]) \in Seq(Frame)
    BY <1>1, TakeTypes DEF TakeData
  <2>2. mem \in Memory
    BY <2>1, FrameTypes DEF TypeOK
  <2>3. ram' \in [Cabinet -> Memory]
    <3>1. ram' = [ram EXCEPT ![c] = mem]
      BY <1>1 DEF TakeData
    <3> HIDE DEF mem
    <3> QED BY <2>2, <3>1 DEF TypeOK
  <2>4. /\ alive' \in [Cabinet -> 0 .. 2] /\ timer' \in [Cabinet -> 0 .. StartTimer]
        /\ cable' \in [Cabinet -> Seq(Frame)]
        /\ tx' \in [Cabinet -> {"closed", "ready", "open", "broken"}]
    <3>1. CASE is_master(c)
      <4>1. cable' = [cable EXCEPT ![c] = Tail(@)] /\ UNCHANGED <<alive, timer, tx>>
        BY <1>1, <3>1 DEF TakeData
      <4>2. cable' \in [Cabinet -> Seq(Frame)]
        BY <1>1, <4>1, TakeTypes DEF TakeData
      <4> QED BY <4>1, <4>2 DEF TypeOK
    <3>2. CASE ~is_master(c)
      <4>1. PICK sent \in BOOLEAN :
            send_frame(c, Tail(cable[c]), <<g>>, sent) /\ KeepOrLose(c, sent, timer[c])
        BY <1>1, <3>2 DEF TakeData
      <4>2. g \in Frame
        <5>1. RaceData(id[c], mem) \in Frame
          BY <2>2, FrameTypes DEF TypeOK
        <5> QED BY <2>1, <5>1
      <4> HIDE DEF g
      <4>3. /\ cable' \in [Cabinet -> Seq(Frame)]
            /\ tx' \in [Cabinet -> {"closed", "ready", "open", "broken"}]
        BY <2>1, <4>1, <4>2, OneFrame, SendTypes
      <4> QED BY <1>t, <4>1, <4>3, LoseTypes
    <3> QED BY <3>1, <3>2
  <2> QED BY <1>1, <2>3, <2>4 DEF TakeData, TypeOK, game
<1>2. CASE TakeVsync(c)
  <2>1. f \in Frame /\ Tail(cable[c]) \in Seq(Frame)
    BY <1>2, TakeTypes DEF TakeVsync
  <2>2. /\ alive' \in [Cabinet -> 0 .. 2] /\ timer' \in [Cabinet -> 0 .. StartTimer]
        /\ cable' \in [Cabinet -> Seq(Frame)]
        /\ tx' \in [Cabinet -> {"closed", "ready", "open", "broken"}]
    <3>1. CASE is_master(c)
      <4>1. /\ cable' = [cable EXCEPT ![c] = Tail(@)] /\ UNCHANGED <<alive, tx>>
            /\ timer' = [timer EXCEPT ![c] = 0]
        BY <1>2, <3>1 DEF TakeVsync
      <4>2. cable' \in [Cabinet -> Seq(Frame)]
        BY <1>2, <4>1, TakeTypes DEF TakeVsync
      <4>3. timer' \in [Cabinet -> 0 .. StartTimer]
        BY <1>t, <4>1 DEF TypeOK
      <4> QED BY <4>1, <4>2, <4>3 DEF TypeOK
    <3>2. CASE ~is_master(c)
      <4>1. PICK sent \in BOOLEAN :
            send_frame(c, Tail(cable[c]), PassOn(f), sent) /\ KeepOrLose(c, sent, 0)
        BY <1>2, <3>2 DEF TakeVsync
      <4>2. /\ cable' \in [Cabinet -> Seq(Frame)]
            /\ tx' \in [Cabinet -> {"closed", "ready", "open", "broken"}]
        BY <2>1, <4>1, OneFrame, SendTypes
      <4> QED BY <1>t, <4>1, <4>2, LoseTypes
    <3> QED BY <3>1, <3>2
  <2> QED BY <1>2, <2>2 DEF TakeVsync, TypeOK, game
<1>3. CASE DropLate(c)
  <2>1. cable' \in [Cabinet -> Seq(Frame)]
    BY <1>3, TakeTypes DEF DropLate
  <2> QED BY <1>3, <2>1 DEF DropLate, TypeOK, game, board
<1>4. CASE AwaitVsync(c)
  BY <1>4 DEF AwaitVsync, poll, TypeOK, game, board
<1>5. CASE SyncTimeout(c)
  <2>1. alive' \in [Cabinet -> 0 .. 2] /\ timer' \in [Cabinet -> 0 .. StartTimer]
    BY <1>5, <1>t DEF SyncTimeout, TypeOK
  <2>2. pc' \in [Cabinet -> {"idle", "numbering", "exchange", "poll"}]
    BY <1>5 DEF SyncTimeout, TypeOK
  <2> QED BY <1>5, <2>1, <2>2 DEF SyncTimeout, TypeOK, game, line
<1>6. CASE EndLost(c)
  <2>1. rx' \in [Cabinet -> BOOLEAN] /\ cable' \in [Cabinet -> Seq(Frame)]
    BY <1>6, DrainTypes DEF EndLost
  <2>2. alive' \in [Cabinet -> 0 .. 2] /\ timer' \in [Cabinet -> 0 .. StartTimer]
    BY <1>6, <1>t, LoseTypes DEF EndLost
  <2>3. pc' \in [Cabinet -> {"idle", "numbering", "exchange", "poll"}]
    BY <1>6 DEF EndLost, TypeOK
  <2> QED BY <1>6, <2>1, <2>2, <2>3 DEF EndLost, TypeOK, game
<1>7. CASE EndPoll(c)
  BY <1>7 DEF EndPoll, TypeOK, game, board, line
<1>8. CASE EndExchange(c)
  <2> DEFINE fs == <<RaceData(id[c], ram[c]), Token(Vsync, 1, 0)>>
  <2>1. /\ alive' \in [Cabinet -> 0 .. 2] /\ timer' \in [Cabinet -> 0 .. StartTimer]
        /\ cable' \in [Cabinet -> Seq(Frame)]
        /\ tx' \in [Cabinet -> {"closed", "ready", "open", "broken"}]
    <3>1. CASE is_master(c)
      <4>1. PICK sent \in BOOLEAN :
            send_frame(c, cable[c], fs, sent) /\ KeepOrLose(c, sent, ArmWait)
        BY <1>8, <3>1 DEF EndExchange
      <4>2. fs \in Seq(Frame)
        <5>1. id[c] \in Int /\ ram[c] \in Memory
          BY DEF TypeOK
        <5>2. RaceData(id[c], ram[c]) \in Frame
          BY <5>1, FrameTypes
        <5>3. Token(Vsync, 1, 0) \in Frame
          BY FrameTypes DEF Vsync
        <5> QED BY <5>2, <5>3
      <4> HIDE DEF fs
      <4>3. /\ cable' \in [Cabinet -> Seq(Frame)]
            /\ tx' \in [Cabinet -> {"closed", "ready", "open", "broken"}]
        BY <4>1, <4>2, CableTypes, SendTypes
      <4> QED BY <1>t, <4>1, <4>3, LoseTypes
    <3>2. CASE ~is_master(c)
      <4>1. timer' = [timer EXCEPT ![c] = ArmWait] /\ UNCHANGED <<alive, cable, tx>>
        BY <1>8, <3>2 DEF EndExchange
      <4>2. timer' \in [Cabinet -> 0 .. StartTimer]
        BY <1>t, <4>1 DEF TypeOK
      <4> QED BY <4>1, <4>2 DEF TypeOK
    <3> QED BY <3>1, <3>2
  <2>2. delay' \in [Cabinet -> 0 .. 2]
    BY <1>8 DEF EndExchange, TypeOK
  <2>3. pc' \in [Cabinet -> {"idle", "numbering", "exchange", "poll"}]
    BY <1>8 DEF EndExchange, TypeOK
  <2> QED BY <1>8, <2>1, <2>2, <2>3 DEF EndExchange, TypeOK, game
<1> QED BY <1>1, <1>2, <1>3, <1>4, <1>5, <1>6, <1>7, <1>8 DEF Exchange

LEMMA StepType ==
  ASSUME TypeOK, [Next]_vars
  PROVE  TypeOK'
<1>1. CASE Next
  BY <1>1, GameType, TickType, NumberingType, ExchangeType, NetworkType DEF Next
<1>2. CASE UNCHANGED vars
  BY <1>2 DEF vars, game, board, line, TypeOK
<1> QED BY <1>1, <1>2

(* The registers, the memory and the cables of every cabinet keep their    *)
(* types in every behaviour of the ring, cut cables and all.               *)
THEOREM TypeCorrect == Spec => []TypeOK
<1>1. TypeOK /\ [Next]_vars => TypeOK'
  BY StepType
<1> QED BY InitType, <1>1, PTL DEF Spec

-----------------------------------------------------------------------------
(***************************************************************************)
(* In a ring without relays every cabinet that comes up has the number of  *)
(* its place, for any number of cabinets and whatever is cut, delayed or   *)
(* sent again on the way: RingInv is inductive.  What a step does to the   *)
(* cables (From) and to the boards (OthersSame) is stated once, in         *)
(* RingStep; each action then shows that it is such a step.                *)
(***************************************************************************)
(* The step sends fs to the next cabinet and takes no more than the first  *)
(* frame from the cable into c; nothing else is new on the cables, but for *)
(* the end of a stream.                                                    *)
From(c, fs) ==
  /\ fs \in Seq(Frame)
  /\ \E o \in {0, 1} : \A i \in 1 .. Len(cable'[c]) :
       \/ cable'[c][i] = Eof
       \/ i + o \in 1 .. Len(cable[c]) /\ cable'[c][i] = cable[c][i + o]
  /\ cable'[Succ(c)] \in {cable[Succ(c)], cable[Succ(c)] \o fs}
  /\ \A d \in Cabinet \ {c, Succ(c)} : cable'[d] = cable[d]

(* The step changes the board of c only.                                   *)
OthersSame(c) ==
  \A d \in Cabinet \ {c} :
    /\ pc'[d] = pc[d] /\ fg'[d] = fg[d] /\ relay'[d] = relay[d] /\ enable'[d] = enable[d]
    /\ alive'[d] = alive[d] /\ id'[d] = id[d] /\ count'[d] = count[d] /\ timer'[d] = timer[d]

(* Every step is one cabinet's.                                            *)
LEMMA OneBoard ==
  ASSUME TypeOK, NEW c \in Cabinet,
         Game(c) \/ Tick(c) \/ Numbering(c) \/ Exchange(c) \/ Network(c)
  PROVE  OthersSame(c)
<1> USE DEF OthersSame, TypeOK, game, board
<1>1. CASE Game(c)
  <2>1. CASE fg_w(c)       BY <2>1 DEF fg_w
  <2>2. CASE WriteRelay(c) BY <2>2 DEF WriteRelay
  <2>3. CASE cn_w(c)       BY <2>3 DEF cn_w, InitCommand, BeginWaiting
  <2>4. CASE fg_r(c)       BY <2>4 DEF fg_r
  <2> QED BY <1>1, <2>1, <2>2, <2>3, <2>4 DEF Game
<1>2. CASE Tick(c)
  BY SMTT(30), <1>2 DEF Tick, TickWaiting, TickUp, TickLost, BeginWaiting
<1>3. CASE Numbering(c)
  <2>1. CASE TakeLinkId(c)    BY SMTT(30), <2>1 DEF TakeLinkId
  <2>2. CASE TakeLinkSize(c)  BY <2>2 DEF TakeLinkSize
  <2>3. CASE DropEarly(c)     BY <2>3 DEF DropEarly
  <2>4. CASE NumberingSlave(c) \/ NumberingCountdown(c)
    BY SMTT(30), <2>4 DEF NumberingSlave, NumberingCountdown
  <2>5. CASE SendLinkId(c) \/ SendLinkSize(c)
    BY <2>5 DEF SendLinkId, SendLinkSize, UpOnceSent
  <2> QED BY <1>3, <2>1, <2>2, <2>3, <2>4, <2>5 DEF Numbering
<1>4. CASE Exchange(c)
  <2>1. CASE TakeData(c)    BY <2>1 DEF TakeData, KeepOrLose
  <2>2. CASE TakeVsync(c)   BY <2>2 DEF TakeVsync, KeepOrLose
  <2>3. CASE DropLate(c) \/ AwaitVsync(c) \/ EndPoll(c)
    BY <2>3 DEF DropLate, AwaitVsync, EndPoll
  <2>4. CASE SyncTimeout(c) BY <2>4 DEF SyncTimeout
  <2>5. CASE EndLost(c)     BY <2>5 DEF EndLost, KeepOrLose
  <2>6. CASE EndExchange(c) BY <2>6 DEF EndExchange, KeepOrLose
  <2> QED BY <1>4, <2>1, <2>2, <2>3, <2>4, <2>5, <2>6 DEF Exchange
<1>5. CASE Network(c)
  BY <1>5 DEF Network, Answer, Cut
<1> QED BY <1>1, <1>2, <1>3, <1>4, <1>5

(* in is what is on the cable into c, or what follows its first frame.     *)
Rest(c, in) ==
  /\ in \in Seq(Frame)
  /\ \E o \in {0, 1} : \A i \in 1 .. Len(in) :
       i + o \in 1 .. Len(cable[c]) /\ in[i] = cable[c][i + o]

LEMMA RestOf ==
  ASSUME TypeOK, NEW c \in Cabinet
  PROVE  /\ Rest(c, cable[c])
         /\ cable[c] # <<>> => Rest(c, Tail(cable[c]))
         /\ Rest(c, Drained(c))
<1>1. cable[c] \in Seq(Frame) /\ Len(cable[c]) \in Nat
  BY LenProperties DEF TypeOK
<1>2. Rest(c, cable[c])
  <2>1. \A i \in 1 .. Len(cable[c]) : i + 0 = i
    BY <1>1
  <2> QED BY <1>1, <2>1 DEF Rest
<1>3. cable[c] # <<>> => Rest(c, Tail(cable[c]))
  <2> SUFFICES ASSUME cable[c] # <<>> PROVE Rest(c, Tail(cable[c]))
    OBVIOUS
  <2>1. Tail(cable[c]) \in Seq(Frame) /\ Len(Tail(cable[c])) = Len(cable[c]) - 1
    BY <1>1, HeadTailProperties
  <2>2. \A i \in 1 .. Len(Tail(cable[c])) : Tail(cable[c])[i] = cable[c][i + 1]
    BY <1>1, HeadTailProperties
  <2>3. \A i \in 1 .. Len(Tail(cable[c])) : i + 1 \in 1 .. Len(cable[c])
    BY <1>1, <2>1
  <2> QED BY <2>1, <2>2, <2>3 DEF Rest
<1> QED BY <1>2, <1>3 DEF Drained, AtEof

(* Every frame of such a step is an old one of its cable or a sent one.    *)
LEMMA FromFrames ==
  ASSUME TypeOK, NEW c \in Cabinet, NEW fs, From(c, fs)
  PROVE  \A d \in Cabinet : \A i \in 1 .. Len(cable'[d]) :
           \/ \E j \in 1 .. Len(cable[d]) : cable'[d][i] = cable[d][j]
           \/ cable'[d][i] = Eof
           \/ d = Succ(c) /\ \E k \in 1 .. Len(fs) : cable'[d][i] = fs[k]
<1> SUFFICES ASSUME NEW d \in Cabinet, NEW i \in 1 .. Len(cable'[d])
             PROVE  \/ \E j \in 1 .. Len(cable[d]) : cable'[d][i] = cable[d][j]
                    \/ cable'[d][i] = Eof
                    \/ d = Succ(c) /\ \E k \in 1 .. Len(fs) : cable'[d][i] = fs[k]
  OBVIOUS
<1>1. CASE d = c
  BY <1>1 DEF From
<1>2. CASE cable'[d] = cable[d]
  BY <1>2
<1>3. CASE d = Succ(c) /\ cable'[d] = cable[d] \o fs
  <2>1. cable[d] \in Seq(Frame) /\ fs \in Seq(Frame)
    BY DEF TypeOK, From
  <2>2. CASE i \in 1 .. Len(cable[d])
    <3>1. cable'[d][i] = cable[d][i]
      BY <1>3, <2>1, <2>2, ConcatProperties
    <3> QED BY <2>2, <3>1
  <2>3. CASE i \notin 1 .. Len(cable[d])
    <3>1. Len(cable'[d]) = Len(cable[d]) + Len(fs) /\ Len(fs) \in Nat /\ Len(cable[d]) \in Nat
      BY <1>3, <2>1, ConcatProperties, LenProperties
    <3>2. i - Len(cable[d]) \in 1 .. Len(fs)
      BY <2>3, <3>1
    <3>3. cable'[d][i] = fs[i - Len(cable[d])]
      BY <1>3, <2>1, <2>3, <3>1, ConcatProperties
    <3> QED BY <1>3, <3>2, <3>3
  <2> QED BY <2>2, <2>3
<1> QED BY <1>1, <1>2, <1>3 DEF From

LEMMA DropFrom ==
  ASSUME TypeOK, NEW c \in Cabinet, NEW in, Rest(c, in), cable' = [cable EXCEPT ![c] = in]
  PROVE  From(c, <<>>)
<1>1. cable'[c] = in /\ \A d \in Cabinet \ {c} : cable'[d] = cable[d]
  BY DEF TypeOK
<1>2. Succ(c) \in Cabinet \ {c} /\ <<>> \in Seq(Frame)
  BY Neighbours
<1> QED BY <1>1, <1>2 DEF From, Rest

LEMMA SameFrom ==
  ASSUME TypeOK, NEW c \in Cabinet, cable' = cable
  PROVE  From(c, <<>>)
<1>1. Rest(c, cable[c]) /\ cable' = [cable EXCEPT ![c] = cable[c]]
  BY RestOf DEF TypeOK
<1> QED BY <1>1, DropFrom

LEMMA SendFrom ==
  ASSUME TypeOK, NEW c \in Cabinet, NEW in, Rest(c, in),
         NEW fs \in Seq(Frame), NEW sent \in BOOLEAN, send_frame(c, in, fs, sent)
  PROVE  From(c, fs)
<1>0. cable \in [Cabinet -> Seq(Frame)] /\ Succ(c) \in Cabinet /\ Succ(c) # c
  BY Neighbours DEF TypeOK
<1>1. /\ cable'[c] = in
      /\ cable'[Succ(c)] \in {cable[Succ(c)], cable[Succ(c)] \o fs}
      /\ \A d \in Cabinet \ {c, Succ(c)} : cable'[d] = cable[d]
  BY <1>0 DEF send_frame
<1> QED BY <1>1 DEF From, Rest

LEMMA CutFrom ==
  ASSUME TypeOK, NEW c \in Cabinet, Cut(c)
  PROVE  From(c, <<>>)
<1> PICK k \in 0 .. Len(cable[c]) :
      cable' = [cable EXCEPT ![c] = Append(SubSeq(@, 1, k), Eof)]
  BY DEF Cut
<1>1. cable[c] \in Seq(Frame) /\ Len(cable[c]) \in Nat
  BY LenProperties DEF TypeOK
<1> DEFINE kept == SubSeq(cable[c], 1, k)
<1>2. kept \in Seq(Frame) /\ Len(kept) = k /\ \A i \in 1 .. k : kept[i] = cable[c][i]
  BY <1>1, SubSeqProperties
<1>3. Len(Append(kept, Eof)) = k + 1
      /\ \A i \in 1 .. k + 1 : i # k + 1 => Append(kept, Eof)[i] = kept[i]
      /\ Append(kept, Eof)[k + 1] = Eof
  BY <1>2, AppendProperties, FrameTypes
<1>4. cable'[c] = Append(kept, Eof) /\ \A d \in Cabinet \ {c} : cable'[d] = cable[d]
  BY DEF TypeOK
<1> HIDE DEF kept
<1>5. \A i \in 1 .. k + 1 : i # k + 1 => i + 0 \in 1 .. Len(cable[c]) /\ i + 0 = i /\ i \in 1 .. k
  BY <1>1
<1>6. \A i \in 1 .. Len(cable'[c]) :
        \/ cable'[c][i] = Eof
        \/ i + 0 \in 1 .. Len(cable[c]) /\ cable'[c][i] = cable[c][i + 0]
  BY <1>2, <1>3, <1>4, <1>5
<1>7. Succ(c) \in Cabinet \ {c} /\ <<>> \in Seq(Frame)
  BY Neighbours
<1> QED BY <1>4, <1>6, <1>7 DEF From

LEMMA RingStep ==
  ASSUME TypeOK, RingInv,
         NEW c \in Cabinet, NEW fs, From(c, fs), OthersSame(c),
         fg[0] = 1 => fg'[0] = 1,
         alive[c] # 0 => alive'[c] # 0,
         alive'[c] # 0 => alive[c] # 0 \/ \A d \in 0 .. c - 1 : alive[d] # 0,
         BoardFits(c)',
         c = 0 => CountFits',
         \A k \in 1 .. Len(fs) : TokenFits(Succ(c), fs[k])'
  PROVE  RingInv'
<1>1. \A d \in Cabinet : alive[d] # 0 => alive'[d] # 0
  BY DEF OthersSame
<1>2. TokensFit'
  <2> SUFFICES ASSUME NEW d \in Cabinet, NEW i \in 1 .. Len(cable'[d])
               PROVE  TokenFits(d, cable[d][i])'
    BY DEF TokensFit
  <2>1. ASSUME NEW j \in 1 .. Len(cable[d]), cable'[d][i] = cable[d][j]
        PROVE  TokenFits(d, cable[d][i])'
    <3>1. TokenFits(d, cable[d][j])
      BY DEF RingInv, TokensFit
    <3>2. Before(d) \subseteq Cabinet
      BY NAssumption DEF Before, Cabinet
    <3> QED BY <1>1, <2>1, <3>1, <3>2 DEF TokenFits, Before, RingNumber
  <2>2. ASSUME cable'[d][i] = Eof
        PROVE  TokenFits(d, cable[d][i])'
    BY <2>2 DEF TokenFits, Eof, LinkId, LinkSize
  <2>3. ASSUME d = Succ(c), NEW k \in 1 .. Len(fs), cable'[d][i] = fs[k]
        PROVE  TokenFits(d, cable[d][i])'
    <3>1. TokenFits(Succ(c), fs[k])'
      OBVIOUS
    <3> QED BY <2>3, <3>1 DEF TokenFits, Before, RingNumber
  <2> QED BY <2>1, <2>2, <2>3, FromFrames
<1>3. \A d \in Cabinet : BoardFits(d)'
  <2>1. ASSUME NEW d \in Cabinet \ {c} PROVE BoardFits(d)'
    BY <2>1 DEF RingInv, BoardFits, OthersSame
  <2> QED BY <2>1
<1>4. CountFits'
  <2>1. CASE c # 0
    <3>1. 0 \in Cabinet \ {c}
      BY <2>1, NAssumption DEF Cabinet
    <3> QED BY <3>1 DEF RingInv, CountFits, OthersSame
  <2> QED BY <2>1
<1>5. UpInRingOrder'
  <2> SUFFICES ASSUME NEW d \in Cabinet, alive'[d] # 0, NEW e \in 0 .. d - 1
               PROVE  alive'[e] # 0
    BY DEF UpInRingOrder
  <2>1. e \in Cabinet
    BY NAssumption DEF Cabinet
  <2>2. alive[e] # 0
    BY <2>1 DEF RingInv, UpInRingOrder, OthersSame
  <2> QED BY <1>1, <2>1, <2>2
<1> QED BY <1>2, <1>3, <1>4, <1>5 DEF RingInv

-----------------------------------------------------------------------------
(***************************************************************************)
(* Each action is a RingStep.                                              *)
(***************************************************************************)
LEMMA EmptyFits ==
  ASSUME NEW c PROVE \A k \in 1 .. Len(<<>>) : TokenFits(Succ(c), <<>>[k])'
  OBVIOUS

LEMMA InitRing == Init => RingInv
  BY NAssumption
  DEF Init, RingInv, TokensFit, BoardFits, CountFits, UpInRingOrder, Cabinet

LEMMA NetworkRing ==
  ASSUME TypeOK, RingInv, NEW c \in Cabinet, Network(c)
  PROVE  RingInv'
<1>1. pc' = pc /\ fg' = fg /\ relay' = relay /\ enable' = enable /\ alive' = alive
      /\ id' = id /\ count' = count /\ timer' = timer
  BY DEF Network, Answer, Cut, game, board
<1>2. From(c, <<>>)
  BY SameFrom, CutFrom DEF Network, Answer
<1>3. BoardFits(c)' /\ CountFits'
  BY <1>1 DEF BoardFits, RingInv, CountFits, RingNumber
<1> QED BY <1>1, <1>2, <1>3, OneBoard, EmptyFits, RingStep

LEMMA GameRing ==
  ASSUME Relays = {}, TypeOK, RingInv, NEW c \in Cabinet, Game(c)
  PROVE  RingInv'
<1>1. CASE fg_w(c)
  <2>1. /\ cable' = cable /\ alive' = alive /\ fg'[0] = 1
        /\ pc' = pc /\ relay' = relay /\ enable' = enable
        /\ id' = id /\ count' = count /\ timer' = timer
    BY <1>1 DEF fg_w, board, line, TypeOK
  <2>2. OthersSame(c)
    BY OneBoard
  <2>3. BoardFits(c)' /\ CountFits'
    BY <1>1, <2>1 DEF fg_w, BoardFits, RingInv, CountFits, RingNumber
  <2> QED BY <2>1, <2>2, <2>3, SameFrom, EmptyFits, RingStep
<1>2. CASE WriteRelay(c)
  BY <1>2 DEF WriteRelay
<1>3. CASE cn_w(c)
  <2>1. /\ cable' = cable /\ alive'[c] = 0 /\ alive[c] = 0 /\ fg' = fg
        /\ pc'[c] \in {"idle", "numbering"}
        /\ enable'[c] /\ ~relay'[c] /\ timer'[c] = StartTimer
    BY <1>3 DEF cn_w, InitCommand, BeginWaiting, RingInv, BoardFits, TypeOK
  <2>2. OthersSame(c)
    BY OneBoard
  <2>3. BoardFits(c)' /\ (c = 0 => CountFits')
    BY <2>1, StartTimerAssumption DEF BoardFits, RingInv, CountFits
  <2> QED BY <2>1, <2>2, <2>3, SameFrom, EmptyFits, RingStep
<1>4. CASE fg_r(c)
  <2>1. /\ cable' = cable /\ alive' = alive /\ fg' = fg
        /\ relay' = relay /\ enable' = enable
        /\ id' = id /\ count' = count /\ timer' = timer
        /\ pc[c] = "idle" /\ (pc'[c] = "idle" \/ (pc'[c] = "poll" /\ alive[c] = 1))
    BY <1>4 DEF fg_r, game, line, TypeOK
  <2>2. OthersSame(c)
    BY OneBoard
  <2>3. BoardFits(c)' /\ CountFits'
    BY <2>1 DEF BoardFits, RingInv, CountFits, RingNumber
  <2> QED BY <2>1, <2>2, <2>3, SameFrom, EmptyFits, RingStep
<1> QED BY <1>1, <1>2, <1>3, <1>4 DEF Game

LEMMA TickRing ==
  ASSUME TypeOK, RingInv, NEW c \in Cabinet, Tick(c)
  PROVE  RingInv'
<1>1. /\ cable' = cable /\ alive' = alive /\ fg' = fg
      /\ relay' = relay /\ enable' = enable
      /\ id' = id /\ count' = count /\ timer' = timer
      /\ enable[c]
      /\ \/ pc'[c] = pc[c]
         \/ pc'[c] \in {"idle", "numbering"} /\ alive[c] = 0
         \/ pc'[c] = "exchange" /\ alive[c] = 1
  BY DEF Tick, TickWaiting, TickUp, TickLost, BeginWaiting, game, board, TypeOK
<1>2. OthersSame(c)
  BY OneBoard
<1>3. BoardFits(c)' /\ CountFits'
  BY <1>1 DEF BoardFits, RingInv, CountFits, RingNumber
<1> QED BY <1>1, <1>2, <1>3, SameFrom, EmptyFits, RingStep

LEMMA HeadFits ==
  ASSUME TypeOK, RingInv, NEW c \in Cabinet, FrameHere(c)
  PROVE  TokenFits(c, Head(cable[c])) /\ Head(cable[c]) \in Frame /\ Rest(c, Tail(cable[c]))
<1>1. cable[c] \in Seq(Frame) /\ cable[c] # <<>>
  BY DEF FrameHere, TypeOK
<1>2. Head(cable[c]) = cable[c][1] /\ 1 \in 1 .. Len(cable[c]) /\ Head(cable[c]) \in Frame
  BY <1>1, HeadTailProperties, LenProperties
<1> QED BY <1>1, <1>2, RestOf DEF RingInv, TokensFit

(* With no relay, a board in a loop is the master's or a slave's.          *)
LEMMA RunningBoard ==
  ASSUME RingInv, NEW c \in Cabinet, pc[c] # "idle"
  PROVE  enable[c] /\ ~relay[c] /\ (is_master(c) <=> c = 0 /\ fg[0] = 1)
  BY NAssumption DEF RingInv, BoardFits, is_master, Cabinet

(* A slave passes on a token that fits the next cabinet.                   *)
LEMMA PassedOnFits ==
  ASSUME TypeOK, RingInv, NEW c \in Cabinet, c # 0, ~relay[c], fg' = fg,
         \A d \in Cabinet : alive[d] # 0 => alive'[d] # 0,
         NEW f \in Frame, TokenFits(c, f), NEW g
  PROVE  /\ f.idx = LinkId /\ g = CountIn(c, f) => TokenFits(Succ(c), g)'
         /\ f.idx = LinkSize /\ g = HandDown(c, f) /\ alive'[c] # 0 => TokenFits(Succ(c), g)'
<1>1. is_slave(c)
  BY DEF is_slave, RingInv, BoardFits
<1>2. f.idx \in Int /\ f.a \in Int /\ f.b \in Int
  BY DEF Frame
<1>3. c \in 1 .. N - 1
  BY NAssumption DEF Cabinet
<1>4. ASSUME f.idx = LinkId, g = CountIn(c, f) PROVE TokenFits(Succ(c), g)'
  <2>1. g.idx = LinkId /\ g.a = f.a + 1
    BY <1>1, <1>2, <1>4 DEF CountIn, Frame
  <2>2. fg[0] = 1 /\ f.a = c
    BY <1>3, <1>4 DEF TokenFits
  <2>3. g.a = IF Succ(c) = 0 THEN N ELSE Succ(c)
    BY <1>3, <2>1, <2>2, NAssumption DEF Succ
  <2> QED BY <2>1, <2>2, <2>3 DEF TokenFits, LinkId, LinkSize
<1>5. ASSUME f.idx = LinkSize, g = HandDown(c, f), alive'[c] # 0
      PROVE  TokenFits(Succ(c), g)'
  <2>1. g.idx = LinkSize /\ g.a = f.a - 1 /\ g.b = f.b
    BY <1>1, <1>2, <1>5 DEF HandDown, Frame
  <2>2. f.a = N + 1 - c /\ f.b = N /\ \A d \in 0 .. c - 1 : alive[d] # 0
    BY <1>3, <1>5 DEF TokenFits, RingNumber, Before
  <2>3. g.a = RingNumber(Succ(c))
    BY <1>3, <2>1, <2>2, NAssumption DEF Succ, RingNumber
  <2>4. \A d \in Before(Succ(c)) : alive'[d] # 0
    <3>1. \A d \in 0 .. c - 1 : d \in Cabinet
      BY <1>3, NAssumption DEF Cabinet
    <3>2. \A d \in 0 .. c : alive'[d] # 0
      <4> TAKE d \in 0 .. c
      <4>1. d = c \/ d \in 0 .. c - 1
        BY <1>3
      <4> QED BY <1>5, <2>2, <3>1, <4>1
    <3>3. Before(Succ(c)) = 0 .. c
      BY <1>3, NAssumption DEF Before, Succ, Cabinet
    <3> QED BY <3>2, <3>3
  <2> QED BY <2>1, <2>2, <2>3, <2>4 DEF TokenFits, LinkId, LinkSize, RingNumber, Before
<1> QED BY <1>4, <1>5

LEMMA NumberingRing ==
  ASSUME TypeOK, RingInv, NEW c \in Cabinet, Numbering(c)
  PROVE  RingInv'
<1>0. /\ pc[c] = "numbering" /\ enable[c] /\ ~relay[c] /\ alive[c] = 0
      /\ (is_master(c) <=> c = 0 /\ fg[0] = 1)
      /\ fg' = fg /\ relay' = relay /\ enable' = enable
  <2>1. pc[c] = "numbering" /\ fg' = fg /\ relay' = relay /\ enable' = enable
    BY DEF Numbering, TakeLinkId, TakeLinkSize, DropEarly, NumberingSlave,
           NumberingCountdown, SendLinkId, SendLinkSize, game
  <2> QED BY <2>1, RunningBoard DEF RingInv, BoardFits
<1>o. OthersSame(c)
  BY OneBoard
<1>1. CASE TakeLinkId(c)
  <2> PICK f : f = Head(cable[c])
    OBVIOUS
  <2>1. /\ TokenFits(c, f) /\ f \in Frame /\ Rest(c, Tail(cable[c])) /\ f.idx = LinkId
        /\ fg[0] = 1
    BY <1>1, HeadFits DEF TakeLinkId, TokenFits
  <2>2. alive' = alive /\ pc' = pc
    BY <1>1 DEF TakeLinkId
  <2>3. CASE is_master(c)
    <3>1. /\ cable' = [cable EXCEPT ![c] = Tail(@)]
          /\ id' = [id EXCEPT ![c] = 1] /\ count' = [count EXCEPT ![c] = f.a]
      BY <1>1, <2>3 DEF TakeLinkId
    <3>2. From(c, <<>>)
      BY <2>1, <3>1, DropFrom
    <3>3. f.a = N /\ c = 0
      BY <1>0, <2>1, <2>3 DEF TokenFits
    <3>4. BoardFits(c)' /\ CountFits'
      BY <1>0, <2>2, <3>1, <3>3 DEF BoardFits, RingInv, CountFits, TypeOK
    <3> QED BY <1>0, <1>o, <2>2, <3>2, <3>4, EmptyFits, RingStep
  <2>4. CASE ~is_master(c)
    <3> PICK g : g = CountIn(c, f)
      OBVIOUS
    <3> PICK sent \in BOOLEAN : send_frame(c, Tail(cable[c]), <<g>>, sent)
      BY <1>1, <2>4 DEF TakeLinkId
    <3>1. id' = id /\ count' = count /\ timer' = timer
      BY <1>1, <2>4 DEF TakeLinkId
    <3>2. <<g>> \in Seq(Frame)
      BY <2>1, FrameTypes
    <3>3. From(c, <<g>>)
      BY <2>1, <3>2, SendFrom
    <3>4. TokenFits(Succ(c), g)'
      BY <1>0, <2>1, <2>2, <2>4, PassedOnFits
    <3>5. \A k \in 1 .. Len(<<g>>) : TokenFits(Succ(c), <<g>>[k])'
      BY <3>4
    <3>6. BoardFits(c)' /\ CountFits'
      BY <1>0, <2>2, <3>1 DEF BoardFits, RingInv, CountFits
    <3> QED BY <1>0, <1>o, <2>2, <3>3, <3>5, <3>6, RingStep
  <2> QED BY <2>3, <2>4
<1>2. CASE TakeLinkSize(c)
  <2> PICK f : f = Head(cable[c])
    OBVIOUS
  <2>1. /\ TokenFits(c, f) /\ f \in Frame /\ Rest(c, Tail(cable[c])) /\ f.idx = LinkSize
        /\ \A d \in Before(c) : alive[d] # 0
    BY <1>2, HeadFits DEF TakeLinkSize, TokenFits
  <2>2. c # 0
    BY <1>0, <2>1 DEF Before
  <2>3. fg[0] = 1 /\ \A d \in 0 .. c - 1 : alive[d] # 0
    <3>1. 0 \in 0 .. c - 1 /\ 0 \in Cabinet
      BY <2>2, NAssumption DEF Cabinet
    <3> QED BY <2>1, <2>2, <3>1 DEF Before, RingInv, BoardFits
  <2>4. ~is_master(c) /\ is_slave(c)
    BY <1>0, <2>2 DEF is_slave, RingInv, BoardFits
  <2> PICK g : g = HandDown(c, f)
    OBVIOUS
  <2> PICK sent \in BOOLEAN : send_frame(c, Tail(cable[c]), <<g>>, sent)
    BY <1>2, <2>4 DEF TakeLinkSize
  <2>5. /\ id'[c] = f.a /\ count'[c] = f.b
        /\ alive' = [alive EXCEPT ![c] = 1] /\ pc'[c] = "exchange" /\ timer' = timer
    BY <1>2, <2>4 DEF TakeLinkSize, TypeOK
  <2>6. <<g>> \in Seq(Frame)
    BY <2>1, FrameTypes
  <2>7. From(c, <<g>>)
    BY <2>1, <2>6, SendFrom
  <2>8. \A d \in Cabinet : alive[d] # 0 => alive'[d] # 0
    BY <2>5 DEF TypeOK
  <2>9. alive'[c] = 1
    BY <2>5 DEF TypeOK
  <2>10. TokenFits(Succ(c), g)'
    BY <1>0, <2>1, <2>2, <2>8, <2>9, PassedOnFits
  <2>11. \A k \in 1 .. Len(<<g>>) : TokenFits(Succ(c), <<g>>[k])'
    BY <2>10
  <2>12. BoardFits(c)'
    BY <1>0, <2>1, <2>3, <2>5, <2>9 DEF BoardFits, RingInv, TokenFits, RingNumber
  <2> QED BY <1>0, <1>o, <2>2, <2>3, <2>7, <2>9, <2>11, <2>12, RingStep
<1>3. CASE DropEarly(c)
  <2>1. From(c, <<>>)
    BY <1>3, HeadFits, DropFrom DEF DropEarly
  <2>2. alive' = alive /\ pc' = pc /\ id' = id /\ count' = count /\ timer' = timer
    BY <1>3 DEF DropEarly, board
  <2>3. BoardFits(c)' /\ CountFits'
    BY <1>0, <2>2 DEF BoardFits, RingInv, CountFits
  <2> QED BY <1>0, <1>o, <2>1, <2>2, <2>3, EmptyFits, RingStep
<1>4. CASE NumberingSlave(c)
  <2>1. From(c, <<>>)
    BY <1>4, RestOf, DropFrom DEF NumberingSlave
  <2>2. alive' = alive /\ pc'[c] = "idle" /\ id' = id /\ count' = count /\ timer' = timer
    BY <1>4 DEF NumberingSlave, board, TypeOK
  <2>3. BoardFits(c)' /\ CountFits'
    BY <1>0, <2>2 DEF BoardFits, RingInv, CountFits
  <2> QED BY <1>0, <1>o, <2>1, <2>2, <2>3, EmptyFits, RingStep
<1>5. CASE NumberingCountdown(c)
  <2>1. From(c, <<>>)
    BY <1>5, RestOf, DropFrom DEF NumberingCountdown
  <2>2. /\ alive' = alive /\ pc'[c] = "idle" /\ id' = id /\ count' = count
        /\ timer'[c] = timer[c] - 1 /\ timer[c] > 1 /\ timer[c] \in Int
    BY <1>5, StartTimerAssumption DEF NumberingCountdown, CountingDown, TypeOK
  <2>3. BoardFits(c)' /\ (c = 0 => CountFits')
    BY <1>0, <2>2 DEF BoardFits, RingInv, CountFits
  <2> QED BY <1>0, <1>o, <2>1, <2>2, <2>3, EmptyFits, RingStep
<1>6. CASE SendLinkId(c)
  <2> PICK g : g = Token(LinkId, 1, 0)
    OBVIOUS
  <2> PICK sent \in BOOLEAN : send_frame(c, Drained(c), <<g>>, sent)
    BY <1>6 DEF SendLinkId
  <2>1. alive' = alive /\ pc'[c] = "idle" /\ id' = id /\ count' = count /\ timer' = timer
    BY <1>6 DEF SendLinkId, board, TypeOK
  <2>2. c = 0 /\ fg[0] = 1
    BY <1>0, <1>6 DEF SendLinkId
  <2>3. From(c, <<g>>)
    <3>1. <<g>> \in Seq(Frame)
      BY FrameTypes DEF LinkId
    <3> QED BY <3>1, RestOf, SendFrom
  <2>4. TokenFits(Succ(c), g)'
    <3>1. g.idx = 255 /\ g.a = 1
      BY DEF Token, LinkId
    <3>2. Succ(c) = 1
      BY <2>2, NAssumption DEF Succ
    <3> QED BY <1>0, <2>2, <3>1, <3>2 DEF TokenFits, LinkSize
  <2>5. \A k \in 1 .. Len(<<g>>) : TokenFits(Succ(c), <<g>>[k])'
    BY <2>4
  <2>6. BoardFits(c)' /\ CountFits'
    BY <1>0, <2>1 DEF BoardFits, RingInv, CountFits
  <2> QED BY <1>0, <1>o, <2>1, <2>3, <2>5, <2>6, RingStep
<1>7. CASE SendLinkSize(c)
  <2> PICK g : g = Token(LinkSize, count[c], count[c])
    OBVIOUS
  <2> PICK sent \in BOOLEAN : send_frame(c, Drained(c), <<g>>, sent)
    BY <1>7 DEF SendLinkSize
  <2>1. /\ alive'[c] = 1 /\ pc'[c] = "exchange" /\ id' = id /\ count' = count
        /\ timer' = timer /\ timer[c] = 0
    BY <1>7 DEF SendLinkSize, UpOnceSent, TypeOK
  <2>2. c = 0 /\ fg[0] = 1 /\ id[0] = 1 /\ count[0] = N
    BY <1>0, <1>7, <2>1 DEF SendLinkSize, RingInv, CountFits
  <2>3. From(c, <<g>>)
    <3>1. <<g>> \in Seq(Frame)
      BY FrameTypes DEF LinkSize, TypeOK
    <3> QED BY <3>1, RestOf, SendFrom
  <2>4. TokenFits(Succ(c), g)'
    <3>1. g.idx = 254 /\ g.a = N /\ g.b = N
      BY <2>2 DEF Token, LinkSize
    <3>2. Succ(c) = 1
      BY <2>2, NAssumption DEF Succ
    <3>3. \A d \in Before(1) : alive'[d] # 0
      BY <2>1, <2>2 DEF Before
    <3>4. RingNumber(1) = N
      BY NAssumption DEF RingNumber
    <3> QED BY <3>1, <3>2, <3>3, <3>4 DEF TokenFits, LinkId, RingNumber, Before
  <2>5. \A k \in 1 .. Len(<<g>>) : TokenFits(Succ(c), <<g>>[k])'
    BY <2>4
  <2>6. BoardFits(c)' /\ CountFits'
    BY <1>0, <2>1, <2>2 DEF BoardFits, RingInv, CountFits, RingNumber
  <2>7. alive'[c] # 0 => alive[c] # 0 \/ \A d \in 0 .. c - 1 : alive[d] # 0
    BY <2>2
  <2> QED BY <1>0, <1>o, <2>1, <2>3, <2>5, <2>6, <2>7, RingStep
<1> QED BY <1>1, <1>2, <1>3, <1>4, <1>5, <1>6, <1>7 DEF Numbering

(* An exchange only sends frames that are no tokens of the numbering.      *)
LEMMA ExchangeSends ==
  ASSUME TypeOK, RingInv, NEW c \in Cabinet, Exchange(c)
  PROVE  \E fs \in Seq(Frame) :
           /\ From(c, fs)
           /\ \A k \in 1 .. Len(fs) : fs[k].idx \notin {LinkId, LinkSize}
<1> DEFINE Plain(fs) == \A k \in 1 .. Len(fs) : fs[k].idx \notin {LinkId, LinkSize}
<1>0. <<>> \in Seq(Frame) /\ Plain(<<>>)
  OBVIOUS
<1>a. pc[c] \in {"exchange", "poll"}
  BY DEF Exchange, TakeData, TakeVsync, DropLate, AwaitVsync, SyncTimeout, EndLost, EndPoll,
         EndExchange
<1>b. id[c] \in 1 .. N /\ count[c] = N /\ ram[c] \in Memory
  <2>1. id[c] = RingNumber(c) /\ count[c] = N
    BY <1>a DEF RingInv, BoardFits
  <2>2. RingNumber(c) \in 1 .. N
    BY NAssumption DEF RingNumber, Cabinet
  <2> QED BY <2>1, <2>2 DEF TypeOK
<1>1. CASE TakeData(c)
  <2> PICK f, mem : f = Head(cable[c]) /\ mem = Received(ram[c], f)
    OBVIOUS
  <2>1. f \in Frame /\ Rest(c, Tail(cable[c])) /\ f.idx <= N /\ mem \in Memory
    BY <1>1, <1>b, HeadFits, FrameTypes DEF TakeData
  <2>2. CASE is_master(c)
    BY <1>0, <1>1, <2>1, <2>2, DropFrom DEF TakeData
  <2>3. CASE ~is_master(c)
    <3> PICK g : g = IF is_slave(c) THEN RaceData(id[c], mem) ELSE f
      OBVIOUS
    <3> PICK sent \in BOOLEAN : send_frame(c, Tail(cable[c]), <<g>>, sent)
      BY <1>1, <2>3 DEF TakeData
    <3>1. RaceData(id[c], mem) \in Frame /\ RaceData(id[c], mem).idx = id[c]
      <4>1. RaceData(id[c], mem).idx = id[c]
        BY DEF RaceData
      <4> QED BY <1>b, <2>1, <4>1, FrameTypes
    <3>2. g \in Frame /\ g.idx \in Int /\ g.idx <= 251
      BY <1>b, <2>1, <3>1, NAssumption DEF Frame
    <3>3. <<g>> \in Seq(Frame) /\ Plain(<<g>>)
      BY <3>2 DEF LinkId, LinkSize
    <3> QED BY <2>1, <3>3, SendFrom
  <2> QED BY <2>2, <2>3
<1>2. CASE TakeVsync(c)
  <2> PICK f : f = Head(cable[c])
    OBVIOUS
  <2>1. f \in Frame /\ Rest(c, Tail(cable[c])) /\ f.idx = Vsync
    BY <1>2, HeadFits DEF TakeVsync
  <2>2. CASE is_master(c)
    BY <1>0, <1>2, <2>1, <2>2, DropFrom DEF TakeVsync
  <2>3. CASE ~is_master(c)
    <3> PICK sent \in BOOLEAN : send_frame(c, Tail(cable[c]), <<f>>, sent)
      BY <1>2, <2>3 DEF TakeVsync, PassOn
    <3>1. <<f>> \in Seq(Frame) /\ Plain(<<f>>)
      BY <2>1 DEF Vsync, LinkId, LinkSize
    <3> QED BY <2>1, <3>1, SendFrom
  <2> QED BY <2>2, <2>3
<1>3. CASE DropLate(c)
  BY <1>0, <1>3, HeadFits, DropFrom DEF DropLate
<1>4. CASE AwaitVsync(c) \/ SyncTimeout(c) \/ EndPoll(c)
  <2>1. cable' = cable
    BY <1>4 DEF AwaitVsync, SyncTimeout, EndPoll, line
  <2> QED BY <1>0, <2>1, SameFrom
<1>5. CASE EndLost(c)
  BY <1>0, <1>5, RestOf, DropFrom DEF EndLost
<1>6. CASE EndExchange(c)
  <2>1. CASE is_master(c)
    <3> PICK g, v : g = RaceData(id[c], ram[c]) /\ v = Token(Vsync, 1, 0)
      OBVIOUS
    <3> PICK sent \in BOOLEAN : send_frame(c, cable[c], <<g, v>>, sent)
      BY <1>6, <2>1 DEF EndExchange
    <3>1. g \in Frame /\ g.idx = id[c]
      <4>1. RaceData(id[c], ram[c]).idx = id[c]
        BY DEF RaceData
      <4>2. RaceData(id[c], ram[c]) \in Frame
        <5>1. id[c] \in Int
          BY <1>b, NAssumption
        <5> QED BY <1>b, <5>1, FrameTypes
      <4> QED BY <4>1, <4>2
    <3>2. v \in Frame /\ v.idx = 252
      <4>1. v.idx = 252
        BY DEF Token, Vsync
      <4>2. Token(Vsync, 1, 0) \in Frame
        BY FrameTypes DEF Vsync
      <4> QED BY <4>1, <4>2
    <3>3. <<g, v>> \in Seq(Frame) /\ Plain(<<g, v>>)
      BY <1>b, <3>1, <3>2, NAssumption DEF LinkId, LinkSize
    <3> QED BY <3>3, RestOf, SendFrom
  <2>2. CASE ~is_master(c)
    BY <1>0, <1>6, <2>2, SameFrom DEF EndExchange
  <2> QED BY <2>1, <2>2
<1> QED BY <1>1, <1>2, <1>3, <1>4, <1>5, <1>6 DEF Exchange

LEMMA ExchangeRing ==
  ASSUME TypeOK, RingInv, NEW c \in Cabinet, Exchange(c)
  PROVE  RingInv'
<1>1. /\ pc[c] \in {"exchange", "poll"} /\ pc'[c] \in {"idle", pc[c]}
      /\ fg' = fg /\ relay' = relay /\ enable' = enable /\ id' = id /\ count' = count
      /\ alive'[c] \in {alive[c], 2}
  BY DEF Exchange, TakeData, TakeVsync, DropLate, AwaitVsync, SyncTimeout, EndLost, EndPoll,
         EndExchange, KeepOrLose, game, board, TypeOK
<1>2. alive[c] # 0 /\ alive'[c] # 0
  BY <1>1 DEF RingInv, BoardFits
<1>3. OthersSame(c)
  BY OneBoard
<1>4. PICK fs \in Seq(Frame) : /\ From(c, fs)
                              /\ \A k \in 1 .. Len(fs) : fs[k].idx \notin {LinkId, LinkSize}
  BY ExchangeSends
<1>5. \A k \in 1 .. Len(fs) : TokenFits(Succ(c), fs[k])'
  BY <1>4 DEF TokenFits, LinkId, LinkSize
<1>6. BoardFits(c)' /\ (c = 0 => CountFits')
  BY <1>1, <1>2 DEF BoardFits, RingInv, CountFits, RingNumber
<1> QED BY <1>1, <1>2, <1>3, <1>4, <1>5, <1>6, RingStep

LEMMA NextRing ==
  ASSUME Relays = {}, TypeOK, RingInv, [Next]_vars
  PROVE  RingInv'
<1>1. CASE Next
  BY <1>1, GameRing, TickRing, NumberingRing, ExchangeRing, NetworkRing DEF Next
<1>2. CASE UNCHANGED vars
  BY <1>2 DEF vars, game, board, line, RingInv, TokensFit, TokenFits, BoardFits, CountFits,
              UpInRingOrder, RingNumber, Before
<1> QED BY <1>1, <1>2

(* Without relays the numbering comes to 1 for the master and, along the   *)
(* ring, N, N - 1 ... 2 for the slaves, of N.                              *)
LEMMA NumbersOfARing ==
  ASSUME Relays = {}, NEW c \in Cabinet
  PROVE  Number(c) = RingNumber(c) /\ Cardinality(Racers) = N
<1>1. Racers = 0 .. N - 1
  BY DEF Racers, Cabinet
<1>2. Cardinality(0 .. N - 1) = N
  BY NAssumption, FS_Interval
<1>3. c # 0 => Cardinality({d \in Racers : c <= d}) = N - c
  <2> SUFFICES ASSUME c # 0 PROVE Cardinality({d \in Racers : c <= d}) = N - c
    OBVIOUS
  <2>1. {d \in Racers : c <= d} = c .. N - 1
    BY <1>1, NAssumption DEF Cabinet
  <2>2. Cardinality(c .. N - 1) = N - c
    BY NAssumption, FS_Interval DEF Cabinet
  <2> QED BY <2>1, <2>2
<1>4. CASE c = 0
  BY <1>1, <1>2, <1>4 DEF Number, RingNumber
<1>5. CASE c # 0
  <2>1. Number(c) = 1 + Cardinality({d \in Racers : c <= d})
    BY <1>5 DEF Number
  <2>2. 1 + (N - c) = N + 1 - c
    BY NAssumption DEF Cabinet
  <2> QED BY <1>1, <1>2, <1>3, <1>5, <2>1, <2>2 DEF RingNumber
<1> QED BY <1>4, <1>5

(* In a ring without relays a cabinet that is up, or was until its link    *)
(* was lost, has the number of its place and the count of the ring.        *)
THEOREM EveryCabinetNumbered ==
  ASSUME Relays = {}
  PROVE  Spec => []Numbered
<1>1. TypeOK /\ RingInv /\ [Next]_vars => TypeOK' /\ RingInv'
  BY NextRing, StepType
<1>2. RingInv => Numbered
  BY NumbersOfARing DEF RingInv, BoardFits, Numbered
<1>3. Init => TypeOK /\ RingInv
  BY InitType, InitRing
<1> QED BY <1>1, <1>2, <1>3, PTL DEF Spec

(* In a ring without relays the cabinets come up in ring order.            *)
THEOREM CabinetsComeUpInOrder ==
  ASSUME Relays = {}
  PROVE  Spec => []UpInRingOrder
<1>1. TypeOK /\ RingInv /\ [Next]_vars => TypeOK' /\ RingInv'
  BY NextRing, StepType
<1>2. RingInv => UpInRingOrder
  BY DEF RingInv
<1>3. Init => TypeOK /\ RingInv
  BY InitType, InitRing
<1> QED BY <1>1, <1>2, <1>3, PTL DEF Spec

-----------------------------------------------------------------------------
(***************************************************************************)
(* The ring implements the promise of LinkPromise.                         *)
(***************************************************************************)
Stays(c) ==
  /\ enable'[c] = enable[c] /\ alive'[c] = alive[c]
  /\ alive[c] # 0 => id'[c] = id[c] /\ count'[c] = count[c]
Starts(c)  == ~enable[c] /\ enable'[c] /\ alive[c] = 0 /\ alive'[c] = 0
ComesUp(c) == enable[c] /\ enable'[c] /\ alive[c] = 0 /\ alive'[c] = 1
Loses(c) ==
  /\ enable[c] /\ enable'[c] /\ alive[c] = 1 /\ alive'[c] = 2
  /\ id'[c] = id[c] /\ count'[c] = count[c]

LEMMA StepKinds ==
  ASSUME Relays = {}, TypeOK, RingInv, NEW c \in Cabinet,
         Game(c) \/ Tick(c) \/ Numbering(c) \/ Exchange(c) \/ Network(c)
  PROVE  Stays(c) \/ Starts(c) \/ ComesUp(c) \/ Loses(c)
<1> USE DEF Stays, Starts, ComesUp, Loses, TypeOK, game, board
<1>1. CASE Game(c)
  <2>1. CASE fg_w(c)       BY <2>1 DEF fg_w
  <2>2. CASE WriteRelay(c) BY <2>2 DEF WriteRelay
  <2>3. CASE cn_w(c)
    BY ZenonT(30), <2>3 DEF cn_w, InitCommand, BeginWaiting, RingInv, BoardFits
  <2>4. CASE fg_r(c)       BY <2>4 DEF fg_r
  <2> QED BY <1>1, <2>1, <2>2, <2>3, <2>4 DEF Game
<1>2. CASE Tick(c)
  BY <1>2 DEF Tick, TickWaiting, TickUp, TickLost, BeginWaiting
<1>3. CASE Numbering(c)
  <2>0. alive[c] = 0 /\ enable[c]
    BY <1>3 DEF Numbering, TakeLinkId, TakeLinkSize, DropEarly, NumberingSlave,
                NumberingCountdown, SendLinkId, SendLinkSize, RingInv, BoardFits
  <2>1. CASE TakeLinkId(c)    BY SMTT(30), <2>0, <2>1 DEF TakeLinkId
  <2>2. CASE TakeLinkSize(c)  BY <2>0, <2>2 DEF TakeLinkSize
  <2>3. CASE DropEarly(c)     BY <2>0, <2>3 DEF DropEarly
  <2>4. CASE NumberingSlave(c) \/ NumberingCountdown(c)
    BY ZenonT(30), <2>0, <2>4 DEF NumberingSlave, NumberingCountdown
  <2>5. CASE SendLinkId(c) \/ SendLinkSize(c)
    BY <2>0, <2>5 DEF SendLinkId, SendLinkSize, UpOnceSent
  <2> QED BY <1>3, <2>1, <2>2, <2>3, <2>4, <2>5 DEF Numbering
<1>4. CASE Exchange(c)
  <2>0. alive[c] # 0 /\ enable[c]
    BY <1>4 DEF Exchange, TakeData, TakeVsync, DropLate, AwaitVsync, SyncTimeout, EndLost,
                EndPoll, EndExchange, RingInv, BoardFits
  <2>1. CASE TakeData(c)    BY <2>0, <2>1 DEF TakeData, KeepOrLose
  <2>2. CASE TakeVsync(c)   BY <2>0, <2>2 DEF TakeVsync, KeepOrLose
  <2>3. CASE DropLate(c) \/ AwaitVsync(c) \/ EndPoll(c)
    BY <2>0, <2>3 DEF DropLate, AwaitVsync, EndPoll
  <2>4. CASE SyncTimeout(c) BY <2>0, <2>4 DEF SyncTimeout
  <2>5. CASE EndLost(c)     BY <2>0, <2>5 DEF EndLost, KeepOrLose
  <2>6. CASE EndExchange(c) BY <2>0, <2>6 DEF EndExchange, KeepOrLose
  <2> QED BY <1>4, <2>1, <2>2, <2>3, <2>4, <2>5, <2>6 DEF Exchange
<1>5. CASE Network(c)
  BY <1>5 DEF Network, Answer, Cut
<1> QED BY <1>1, <1>2, <1>3, <1>4, <1>5

(* What link() shows of a board.                                           *)
LEMMA LinkStates ==
  ASSUME NEW c \in Cabinet
  PROVE  /\ ~enable[c] => Link(c) = "off"
         /\ enable[c] /\ alive[c] = 0 => Link(c) = "waiting"
         /\ enable[c] /\ alive[c] = 1 => Link(c) = "up"
         /\ enable[c] /\ alive[c] = 2 => Link(c) = "lost"
<1>1. CASE ~enable[c]
  BY <1>1 DEF Link
<1>2. CASE enable[c]
  <2>1. CASE alive[c] = 1
    BY <1>2, <2>1 DEF Link
  <2>2. CASE alive[c] = 2
    BY <1>2, <2>2 DEF Link
  <2>3. CASE alive[c] = 0
    BY <1>2, <2>3 DEF Link
  <2> QED BY <1>2, <2>1, <2>2, <2>3
<1> QED BY <1>1, <1>2

LEMMA PromiseInit == Init => Promise!Init
<1> SUFFICES ASSUME Init PROVE Promise!Init
  OBVIOUS
<1>1. \A c \in Cabinet : ~enable[c] /\ alive[c] = 0
  BY DEF Init
<1>2. Promise!Cabinet = Cabinet
  BY DEF Promise!Cabinet, Cabinet
<1>3. [c \in Cabinet |-> Link(c)] = [c \in Cabinet |-> "off"]
  BY <1>1, LinkStates
<1> QED BY <1>1, <1>2, <1>3 DEF Promise!Init

(* A step of cabinet c is the step of c in the promise, or none.           *)
LEMMA PromiseStep ==
  ASSUME TypeOK, RingInv, RingInv', TypeOK', NEW c \in Cabinet,
         OthersSame(c), Stays(c) \/ Starts(c) \/ ComesUp(c) \/ Loses(c)
  PROVE  [Promise!Next]_(Promise!vars)
<1> DEFINE link == [d \in Cabinet |-> Link(d)]
           number == [d \in Cabinet |-> IF alive[d] = 0 THEN <<0, 0>> ELSE <<id[d], count[d]>>]
<1>1. Promise!Cabinet = Cabinet
  BY DEF Promise!Cabinet, Cabinet
<1>2. \A d \in Cabinet \ {c} : link'[d] = link[d] /\ number'[d] = number[d]
  BY DEF OthersSame, Link
<1>3. link'[c] = Link(c)' /\ link[c] = Link(c)
  OBVIOUS
<1>4. link' = [d \in Cabinet |-> link'[d]] /\ number' = [d \in Cabinet |-> number'[d]]
  OBVIOUS
<1>5. CASE Stays(c)
  <2>1. link'[c] = link[c] /\ number'[c] = number[c]
    BY <1>5 DEF Stays, Link
  <2>2. link' = link /\ number' = number
    BY <1>2, <2>1
  <2> QED BY <2>2 DEF Promise!vars
<1>6. CASE Starts(c)
  <2>1. link[c] = "off" /\ link'[c] = "waiting" /\ number'[c] = number[c]
    BY <1>6, LinkStates DEF Starts, Link
  <2>2. link' = [link EXCEPT ![c] = "waiting"] /\ number' = number
    BY <1>2, <2>1
  <2>3. Promise!Start(c)
    BY <2>1, <2>2 DEF Promise!Start
  <2> QED BY <1>1, <2>3 DEF Promise!Next
<1>7. CASE ComesUp(c)
  <2>1. link[c] = "waiting" /\ link'[c] = "up"
    BY <1>7 DEF ComesUp, Link
  <2>2. number'[c] = <<IF c = 0 THEN 1 ELSE N + 1 - c, N>>
    BY <1>7 DEF ComesUp, RingInv, BoardFits, RingNumber
  <2>3. \A d \in 0 .. c - 1 : link[d] \in {"up", "lost"}
    <3> SUFFICES ASSUME NEW d \in 0 .. c - 1 PROVE link[d] \in {"up", "lost"}
      OBVIOUS
    <3>1. d \in Cabinet \ {c}
      BY NAssumption DEF Cabinet
    <3>2. alive'[d] # 0
      BY <1>7 DEF ComesUp, RingInv, UpInRingOrder
    <3>3. alive[d] \in {1, 2} /\ enable[d]
      BY <3>1, <3>2 DEF OthersSame, TypeOK, RingInv, BoardFits
    <3> QED BY <3>1, <3>3, LinkStates
  <2>4. link' = [link EXCEPT ![c] = "up"]
    BY <1>2, <2>1
  <2>5. number' = [number EXCEPT ![c] = <<IF c = 0 THEN 1 ELSE N + 1 - c, N>>]
    BY <1>2, <2>2
  <2>6. Promise!ComeUp(c)
    BY <2>1, <2>3, <2>4, <2>5 DEF Promise!ComeUp
  <2> QED BY <1>1, <2>6 DEF Promise!Next
<1>8. CASE Loses(c)
  <2>1. link[c] = "up" /\ link'[c] = "lost" /\ number'[c] = number[c]
    BY <1>8 DEF Loses, Link
  <2>2. link' = [link EXCEPT ![c] = "lost"] /\ number' = number
    BY <1>2, <2>1
  <2>3. Promise!Lose(c)
    BY <2>1, <2>2 DEF Promise!Lose
  <2> QED BY <1>1, <2>3 DEF Promise!Next
<1> QED BY <1>5, <1>6, <1>7, <1>8

(* Seen from outside, a ring without relays does what LinkPromise says.    *)
THEOREM RingKeepsPromise ==
  ASSUME Relays = {}
  PROVE  Spec => KeepsPromise
<1>1. Init => TypeOK /\ RingInv
  BY InitType, InitRing
<1>2. TypeOK /\ RingInv /\ [Next]_vars => TypeOK' /\ RingInv'
  BY NextRing, StepType
<1>3. TypeOK /\ RingInv /\ TypeOK' /\ RingInv' /\ [Next]_vars => [Promise!Next]_(Promise!vars)
  <2> SUFFICES ASSUME TypeOK, RingInv, TypeOK', RingInv', [Next]_vars
               PROVE  [Promise!Next]_(Promise!vars)
    OBVIOUS
  <2>1. CASE Next
    <3> PICK c \in Cabinet : Game(c) \/ Tick(c) \/ Numbering(c) \/ Exchange(c) \/ Network(c)
      BY <2>1 DEF Next
    <3> QED BY OneBoard, StepKinds, PromiseStep
  <2>2. CASE UNCHANGED vars
    BY <2>2 DEF vars, game, board, Promise!vars, Link
  <2> QED BY <2>1, <2>2
<1> QED BY <1>1, <1>2, <1>3, PromiseInit, PTL DEF Spec, KeepsPromise, Promise!Spec

-----------------------------------------------------------------------------
(***************************************************************************)
(* The exchange.  What a step sends: a cabinet that is not the master      *)
(* passes on what it reads; only the master makes new tokens, and only at  *)
(* the end of its exchange a vsync.                                        *)
(***************************************************************************)
PassesData(c, g) ==
  /\ pc[c] \in {"exchange", "poll"} /\ ~is_master(c) /\ FrameHere(c)
  /\ Head(cable[c]).idx <= count[c]
  /\ g = IF is_slave(c) THEN RaceData(id[c], Received(ram[c], Head(cable[c])))
                        ELSE Head(cable[c])
PassesToken(c, g) ==
  /\ pc[c] = "numbering" /\ ~is_master(c) /\ FrameHere(c)
  /\ \/ Head(cable[c]).idx = LinkId   /\ g = CountIn(c, Head(cable[c]))
     \/ Head(cable[c]).idx = LinkSize /\ g = HandDown(c, Head(cable[c]))
MakesToken(c, g) ==
  /\ pc[c] = "numbering" /\ is_master(c)
  /\ \/ g = Token(LinkId, 1, 0)
     \/ g = Token(LinkSize, count[c], count[c]) /\ timer[c] = 0
Passes(c, g) == PassesData(c, g) \/ PassesToken(c, g) \/ MakesToken(c, g)

(* A step of the cabinet or of its cables that sends no vsync.             *)
PlainStep(c) ==
  \/ Game(c) \/ Tick(c) \/ Network(c) \/ Numbering(c)
  \/ TakeData(c) \/ DropLate(c) \/ AwaitVsync(c) \/ SyncTimeout(c) \/ EndLost(c) \/ EndPoll(c)

LEMMA HeadFrame ==
  ASSUME TypeOK, NEW c \in Cabinet, FrameHere(c)
  PROVE  /\ Head(cable[c]) \in Frame /\ Head(cable[c]) = cable[c][1]
         /\ 1 \in 1 .. Len(cable[c]) /\ Rest(c, Tail(cable[c]))
<1>1. cable[c] \in Seq(Frame) /\ cable[c] # <<>>
  BY DEF FrameHere, TypeOK
<1>2. Head(cable[c]) = cable[c][1] /\ 1 \in 1 .. Len(cable[c]) /\ Head(cable[c]) \in Frame
  BY <1>1, HeadTailProperties, LenProperties
<1> QED BY <1>1, <1>2, RestOf

(* A frame that a cabinet sends and that is the only one.                  *)
LEMMA OneSent ==
  ASSUME TypeOK, NEW c \in Cabinet, NEW in, Rest(c, in), NEW g \in Frame,
         NEW sent \in BOOLEAN, send_frame(c, in, <<g>>, sent)
  PROVE  From(c, <<g>>) /\ \A k \in 1 .. Len(<<g>>) : <<g>>[k] = g
<1>1. <<g>> \in Seq(Frame) /\ \A k \in 1 .. Len(<<g>>) : <<g>>[k] = g
  OBVIOUS
<1>2. From(c, <<g>>)
  BY <1>1, SendFrom
<1> QED BY <1>1, <1>2

LEMMA PlainSends ==
  ASSUME TypeOK, NEW c \in Cabinet, PlainStep(c)
  PROVE  \E fs : From(c, fs) /\ \A k \in 1 .. Len(fs) : Passes(c, fs[k])
<1>0. \A k \in 1 .. Len(<<>>) : Passes(c, <<>>[k])
  OBVIOUS
<1>t. id[c] \in Int /\ count[c] \in Int /\ ram[c] \in Memory
  BY DEF TypeOK
<1>1. CASE cable' = cable
  BY <1>0, <1>1, SameFrom
<1>2. CASE cable' = [cable EXCEPT ![c] = Drained(c)]
  BY <1>0, <1>2, RestOf, DropFrom
<1>3. CASE FrameHere(c) /\ cable' = [cable EXCEPT ![c] = Tail(@)]
  BY <1>0, <1>3, HeadFrame, DropFrom
<1>4. CASE Cut(c)
  BY <1>0, <1>4, CutFrom
<1>5. CASE TakeLinkId(c)
  <2>1. CASE is_master(c)
    BY <1>3, <1>5, <2>1 DEF TakeLinkId
  <2>2. CASE ~is_master(c)
    <3> PICK g : g = CountIn(c, Head(cable[c]))
      OBVIOUS
    <3> PICK sent \in BOOLEAN : send_frame(c, Tail(cable[c]), <<g>>, sent)
      BY <1>5, <2>2 DEF TakeLinkId
    <3>1. Rest(c, Tail(cable[c])) /\ g \in Frame
      BY <1>5, HeadFrame, FrameTypes DEF TakeLinkId
    <3>2. Passes(c, g)
      BY <1>5, <2>2 DEF TakeLinkId, Passes, PassesToken
    <3> QED BY <3>1, <3>2, OneSent
  <2> QED BY <2>1, <2>2
<1>6. CASE TakeLinkSize(c)
  <2>1. CASE is_master(c)
    BY <1>3, <1>6, <2>1 DEF TakeLinkSize
  <2>2. CASE ~is_master(c)
    <3> PICK g : g = HandDown(c, Head(cable[c]))
      OBVIOUS
    <3> PICK sent \in BOOLEAN : send_frame(c, Tail(cable[c]), <<g>>, sent)
      BY <1>6, <2>2 DEF TakeLinkSize
    <3>1. Rest(c, Tail(cable[c])) /\ g \in Frame
      BY <1>6, HeadFrame, FrameTypes DEF TakeLinkSize
    <3>2. Passes(c, g)
      BY <1>6, <2>2 DEF TakeLinkSize, Passes, PassesToken
    <3> QED BY <3>1, <3>2, OneSent
  <2> QED BY <2>1, <2>2
<1>7. CASE SendLinkId(c)
  <2> PICK g : g = Token(LinkId, 1, 0)
    OBVIOUS
  <2> PICK sent \in BOOLEAN : send_frame(c, Drained(c), <<g>>, sent)
    BY <1>7 DEF SendLinkId
  <2>1. g \in Frame
    BY FrameTypes DEF LinkId
  <2>2. Passes(c, g)
    BY <1>7 DEF SendLinkId, Passes, MakesToken
  <2> QED BY <2>1, <2>2, RestOf, OneSent
<1>8. CASE SendLinkSize(c)
  <2> PICK g : g = Token(LinkSize, count[c], count[c])
    OBVIOUS
  <2> PICK sent \in BOOLEAN : send_frame(c, Drained(c), <<g>>, sent)
    BY <1>8 DEF SendLinkSize
  <2>1. g \in Frame
    BY <1>t, FrameTypes DEF LinkSize
  <2>2. Passes(c, g)
    BY <1>8 DEF SendLinkSize, Passes, MakesToken
  <2> QED BY <2>1, <2>2, RestOf, OneSent
<1>9. CASE TakeData(c)
  <2>1. CASE is_master(c)
    BY <1>3, <1>9, <2>1 DEF TakeData
  <2>2. CASE ~is_master(c)
    <3> PICK g : g = IF is_slave(c) THEN RaceData(id[c], Received(ram[c], Head(cable[c])))
                                    ELSE Head(cable[c])
      OBVIOUS
    <3> PICK sent \in BOOLEAN : send_frame(c, Tail(cable[c]), <<g>>, sent)
      BY <1>9, <2>2 DEF TakeData
    <3>1. Rest(c, Tail(cable[c])) /\ Head(cable[c]) \in Frame
      BY <1>9, HeadFrame DEF TakeData
    <3>2. g \in Frame
      BY <1>t, <3>1, FrameTypes
    <3>3. Passes(c, g)
      BY <1>9, <2>2 DEF TakeData, Passes, PassesData
    <3> QED BY <3>1, <3>2, <3>3, OneSent
  <2> QED BY <2>1, <2>2
<1>10. CASE Game(c) \/ Tick(c)
  BY <1>1, <1>10 DEF Game, fg_w, WriteRelay, cn_w, InitCommand, fg_r, Tick, TickWaiting, TickUp,
                     TickLost, line
<1>11. CASE Network(c)
  BY <1>1, <1>4, <1>11 DEF Network, Answer
<1>12. CASE Numbering(c)
  BY <1>2, <1>3, <1>5, <1>6, <1>7, <1>8, <1>12
     DEF Numbering, DropEarly, NumberingSlave, NumberingCountdown
<1>13. CASE DropLate(c) \/ AwaitVsync(c) \/ SyncTimeout(c) \/ EndLost(c) \/ EndPoll(c)
  BY <1>1, <1>2, <1>3, <1>13 DEF DropLate, AwaitVsync, SyncTimeout, EndLost, EndPoll, line
<1> QED BY <1>9, <1>10, <1>11, <1>12, <1>13 DEF PlainStep

(* A vsync is passed on as it came; the master makes it behind the frame   *)
(* of its own memory.                                                      *)
LEMMA VsyncSends ==
  ASSUME TypeOK, NEW c \in Cabinet, TakeVsync(c)
  PROVE  \E fs : From(c, fs) /\ \A k \in 1 .. Len(fs) : fs[k] = Head(cable[c])
<1>1. FrameHere(c) /\ Head(cable[c]) \in Frame /\ Rest(c, Tail(cable[c]))
  BY HeadFrame DEF TakeVsync
<1>2. CASE is_master(c)
  <2>1. From(c, <<>>)
    BY <1>1, <1>2, DropFrom DEF TakeVsync
  <2> QED BY <2>1
<1>3. CASE ~is_master(c)
  <2> PICK f : f = Head(cable[c])
    OBVIOUS
  <2> PICK sent \in BOOLEAN : send_frame(c, Tail(cable[c]), <<f>>, sent)
    BY <1>3 DEF TakeVsync, PassOn
  <2> QED BY <1>1, OneSent
<1> QED BY <1>2, <1>3

LEMMA EndSends ==
  ASSUME TypeOK, NEW c \in Cabinet, EndExchange(c)
  PROVE  \E fs : /\ From(c, fs)
                 /\ fs = <<>> \/ fs = <<RaceData(id[c], ram[c]), Token(Vsync, 1, 0)>>
<1>1. CASE is_master(c)
  <2> PICK g, v : g = RaceData(id[c], ram[c]) /\ v = Token(Vsync, 1, 0)
    OBVIOUS
  <2> PICK sent \in BOOLEAN : send_frame(c, cable[c], <<g, v>>, sent)
    BY <1>1 DEF EndExchange
  <2>1. g \in Frame /\ v \in Frame
    <3>1. id[c] \in Int /\ ram[c] \in Memory
      BY DEF TypeOK
    <3>2. RaceData(id[c], ram[c]) \in Frame
      BY <3>1, FrameTypes
    <3>3. Token(Vsync, 1, 0) \in Frame
      BY FrameTypes DEF Vsync
    <3> QED BY <3>2, <3>3
  <2>2. <<g, v>> \in Seq(Frame)
    BY <2>1
  <2> QED BY <2>2, RestOf, SendFrom
<1>2. CASE ~is_master(c)
  BY <1>2, SameFrom DEF EndExchange
<1> QED BY <1>1, <1>2

-----------------------------------------------------------------------------
(***************************************************************************)
(* Race data in its place: block k of a cabinet's memory is empty or that  *)
(* of the cabinet k back along the ring, and so is block s of a frame on   *)
(* the cable into c, one place further on; the tokens carry no blocks.     *)
(***************************************************************************)
InPlace(c, mem) ==
  mem[0] = c /\ \A k \in 1 .. Slots : mem[k] \in {Nobody, (c - k) % N}
FrameInPlace(c, f) ==
  \A s \in 0 .. Slots - 1 :
    \/ f.blocks[s] = Nobody
    \/ f.idx \notin {LinkId, LinkSize, Vsync} /\ f.blocks[s] = (c - (s + 1)) % N
PlaceInv ==
  /\ \A c \in Cabinet : InPlace(c, ram[c])
  /\ \A c \in Cabinet : \A i \in 1 .. Len(cable[c]) : FrameInPlace(c, cable[c][i])

(* Once round the ring is the same cabinet.                                *)
LEMMA OnceRound ==
  ASSUME NEW n \in Nat \ {0}, NEW x \in Int
  PROVE  (x + n) % n = x % n
<1> DEFINE y == x + n
           d == (y \div n) - (x \div n) - 1
<1>1. y \in Int
  OBVIOUS
<1>2. (x % n) \in 0 .. n - 1 /\ (x \div n) \in Int /\ x = (n * (x \div n)) + (x % n)
  OBVIOUS
<1>3. (y % n) \in 0 .. n - 1 /\ (y \div n) \in Int /\ y = (n * (y \div n)) + (y % n)
  BY <1>1
<1>4. d \in Int /\ n * d = (x % n) - (y % n)
  BY <1>2, <1>3
<1>5. n * d < n /\ n * d > -n
  BY <1>2, <1>3, <1>4
<1> HIDE DEF d, y
<1>6. d < 1 /\ d > -1
  BY <1>4, <1>5
<1>7. (x % n) - (y % n) = 0
  BY <1>4, <1>6
<1> QED BY <1>2, <1>3, <1>7 DEF y

(* s + 1 back from the next cabinet is s back from this one.               *)
LEMMA OneFurther ==
  ASSUME NEW c \in Cabinet, NEW s \in Nat
  PROVE  (Succ(c) - (s + 1)) % N = (c - s) % N
<1>n. N \in Nat \ {0}
  BY NAssumption
<1>1. CASE c # N - 1
  <2>1. Succ(c) - (s + 1) = c - s
    BY <1>1, NAssumption DEF Succ, Cabinet
  <2> QED BY <2>1
<1>2. CASE c = N - 1
  <2>1. Succ(c) - (s + 1) = -(s + 1) /\ c - s = -(s + 1) + N
    BY <1>2, <1>n DEF Succ
  <2> DEFINE x == -(s + 1)
  <2>2. x \in Int /\ Succ(c) - (s + 1) = x /\ c - s = x + N
    BY <2>1
  <2> HIDE DEF x
  <2>3. (x + N) % N = x % N
    BY <1>n, <2>2, OnceRound
  <2> QED BY <2>2, <2>3
<1> QED BY <1>1, <1>2

LEMMA OwnPlace ==
  ASSUME NEW c \in Cabinet
  PROVE  (c - 0) % N = c
<1>1. N \in Nat \ {0} /\ c \in 0 .. N - 1 /\ c - 0 = c
  BY NAssumption DEF Cabinet
<1> QED BY <1>1

(* What is received is put one block further on, where it belongs.         *)
LEMMA ReceivedInPlace ==
  ASSUME NEW c \in Cabinet, NEW mem \in Memory, InPlace(c, mem), NEW f \in Frame,
         FrameInPlace(c, f)
  PROVE  InPlace(c, Received(mem, f))
<1> PICK new : new = Received(mem, f)
  OBVIOUS
<1>1. new[0] = c
  BY SlotsAssumption DEF Received, InPlace
<1>2. ASSUME NEW k \in 1 .. Slots PROVE new[k] \in {Nobody, (c - k) % N}
  <2>1. new[k] = f.blocks[k - 1] /\ k - 1 \in 0 .. Slots - 1 /\ (k - 1) + 1 = k
    BY SlotsAssumption DEF Received
  <2> QED BY <2>1 DEF FrameInPlace
<1> QED BY <1>1, <1>2 DEF InPlace

(* A memory in its place is, sent on, a frame in its place.                *)
LEMMA SentInPlace ==
  ASSUME NEW c \in Cabinet, NEW mem \in Memory, InPlace(c, mem), NEW i \in 1 .. N
  PROVE  FrameInPlace(Succ(c), RaceData(i, mem))
<1> PICK g : g = RaceData(i, mem)
  OBVIOUS
<1>1. g.idx \notin {LinkId, LinkSize, Vsync}
  BY NAssumption DEF RaceData, LinkId, LinkSize, Vsync
<1>2. ASSUME NEW s \in 0 .. Slots - 1
      PROVE  g.blocks[s] = Nobody \/ g.blocks[s] = (Succ(c) - (s + 1)) % N
  <2>1. g.blocks[s] = mem[s] /\ (Succ(c) - (s + 1)) % N = (c - s) % N
    BY OneFurther, SlotsAssumption DEF RaceData
  <2>2. CASE s = 0
    BY <2>1, <2>2, OwnPlace DEF InPlace
  <2>3. CASE s # 0
    <3>1. s \in 1 .. Slots
      BY <2>3, SlotsAssumption
    <3> QED BY <2>1, <3>1 DEF InPlace
  <2> QED BY <2>2, <2>3
<1> QED BY <1>1, <1>2 DEF FrameInPlace

LEMMA TokenInPlace ==
  ASSUME NEW c, NEW idx, NEW a, NEW b
  PROVE  FrameInPlace(c, Token(idx, a, b)) /\ FrameInPlace(c, Eof)
  BY DEF FrameInPlace, Token, Eof

(* A token that is passed on, counted or not, still carries no block.      *)
LEMMA EmptyInPlace ==
  ASSUME NEW c \in Cabinet, NEW d, NEW f \in Frame, FrameInPlace(d, f),
         f.idx \in {LinkId, LinkSize, Vsync}
  PROVE  \A e : /\ FrameInPlace(e, f)
                /\ FrameInPlace(e, CountIn(c, f)) /\ FrameInPlace(e, HandDown(c, f))
<1>1. \A s \in 0 .. Slots - 1 : f.blocks[s] = Nobody
  BY DEF FrameInPlace
<1>2. CountIn(c, f).blocks = f.blocks /\ HandDown(c, f).blocks = f.blocks
  BY DEF CountIn, HandDown, Frame
<1> QED BY <1>1, <1>2 DEF FrameInPlace

(* What an exchange is numbered with.                                      *)
LEMMA RunningNumbers ==
  ASSUME TypeOK, RingInv, NEW c \in Cabinet, alive[c] # 0
  PROVE  id[c] \in 1 .. N /\ count[c] = N
<1>1. id[c] = RingNumber(c) /\ count[c] = N
  BY DEF RingInv, BoardFits
<1>2. RingNumber(c) \in 1 .. N
  BY NAssumption DEF RingNumber, Cabinet
<1> QED BY <1>1, <1>2

LEMMA PassesInPlace ==
  ASSUME TypeOK, RingInv, PlaceInv, NEW c \in Cabinet, NEW g, Passes(c, g)
  PROVE  FrameInPlace(Succ(c), g)
<1> PICK f : f = Head(cable[c])
  OBVIOUS
<1>1. ASSUME FrameHere(c) PROVE f \in Frame /\ FrameInPlace(c, f)
  BY <1>1, HeadFrame DEF PlaceInv
<1>2. CASE PassesData(c, g)
  <2>1. is_slave(c) /\ FrameHere(c)
    <3>1. pc[c] # "idle" /\ ~is_master(c) /\ fg[c] \in {0, 1}
      BY <1>2 DEF PassesData, TypeOK
    <3> QED BY <1>2, <3>1, RunningBoard DEF PassesData, is_master, is_slave
  <2>2. alive[c] # 0
    BY <1>2 DEF PassesData, RingInv, BoardFits
  <2> PICK mem : mem = Received(ram[c], f)
    OBVIOUS
  <2>3. mem \in Memory /\ InPlace(c, mem)
    BY <1>1, <2>1, ReceivedInPlace, FrameTypes DEF PlaceInv, TypeOK
  <2>4. g = RaceData(id[c], mem) /\ id[c] \in 1 .. N
    BY <1>2, <2>1, <2>2, RunningNumbers DEF PassesData
  <2> QED BY <2>3, <2>4, SentInPlace
<1>3. CASE PassesToken(c, g)
  BY <1>1, <1>3, EmptyInPlace DEF PassesToken
<1>4. CASE MakesToken(c, g)
  BY <1>4, TokenInPlace DEF MakesToken
<1> QED BY <1>2, <1>3, <1>4 DEF Passes


LEMMA PlaceStep ==
  ASSUME TypeOK, PlaceInv, NEW c \in Cabinet, NEW fs, From(c, fs),
         \A k \in 1 .. Len(fs) : FrameInPlace(Succ(c), fs[k]),
         \A d \in Cabinet : InPlace(d, ram'[d])
  PROVE  PlaceInv'
<1> SUFFICES ASSUME NEW d \in Cabinet, NEW i \in 1 .. Len(cable'[d])
             PROVE  FrameInPlace(d, cable'[d][i])
  BY DEF PlaceInv
<1>1. CASE \E j \in 1 .. Len(cable[d]) : cable'[d][i] = cable[d][j]
  BY <1>1 DEF PlaceInv
<1>2. CASE cable'[d][i] = Eof
  BY <1>2, TokenInPlace
<1>3. CASE d = Succ(c) /\ \E k \in 1 .. Len(fs) : cable'[d][i] = fs[k]
  BY <1>3
<1>4. \/ \E j \in 1 .. Len(cable[d]) : cable'[d][i] = cable[d][j]
      \/ cable'[d][i] = Eof
      \/ d = Succ(c) /\ \E k \in 1 .. Len(fs) : cable'[d][i] = fs[k]
  BY FromFrames
<1> QED BY <1>1, <1>2, <1>3, <1>4

(* Only an init command and race data change a memory.                     *)
LEMMA MemoryStep ==
  ASSUME TypeOK, PlaceInv, NEW c \in Cabinet,
         PlainStep(c) \/ TakeVsync(c) \/ EndExchange(c)
  PROVE  \A d \in Cabinet : InPlace(d, ram'[d])
<1>1. CASE ram' = ram
  BY <1>1 DEF PlaceInv
<1>2. CASE TakeData(c)
  <2> PICK mem : mem = Received(ram[c], Head(cable[c]))
    OBVIOUS
  <2>1. ram' = [ram EXCEPT ![c] = mem]
    BY <1>2 DEF TakeData
  <2>2. Head(cable[c]) \in Frame /\ FrameInPlace(c, Head(cable[c]))
    BY <1>2, HeadFrame DEF TakeData, PlaceInv
  <2>3. InPlace(c, mem)
    BY <2>2, ReceivedInPlace DEF PlaceInv, TypeOK
  <2> QED BY <2>1, <2>3 DEF PlaceInv, TypeOK
<1>3. CASE cn_w(c)
  <2> PICK mem : mem = [s \in 0 .. Slots |-> IF s = 0 THEN c ELSE Nobody]
    OBVIOUS
  <2>1. ram' = [ram EXCEPT ![c] = mem]
    BY <1>3 DEF cn_w, InitCommand
  <2>2. InPlace(c, mem)
    BY SlotsAssumption DEF InPlace
  <2> QED BY <2>1, <2>2 DEF PlaceInv, TypeOK
<1>4. CASE Game(c) \/ Tick(c) \/ Network(c)
  BY <1>1, <1>3, <1>4 DEF Game, fg_w, WriteRelay, fg_r, Tick, TickWaiting, TickUp, TickLost,
                          Network, Answer, Cut, board
<1>5. CASE Numbering(c)
  BY <1>1, <1>5 DEF Numbering, TakeLinkId, TakeLinkSize, DropEarly, NumberingSlave,
                    NumberingCountdown, SendLinkId, SendLinkSize, board
<1>6. CASE TakeVsync(c) \/ EndExchange(c)
  BY <1>1, <1>6 DEF TakeVsync, EndExchange
<1>7. CASE DropLate(c) \/ AwaitVsync(c) \/ SyncTimeout(c) \/ EndLost(c) \/ EndPoll(c)
  BY <1>1, <1>7 DEF DropLate, AwaitVsync, SyncTimeout, EndLost, EndPoll, board
<1> QED BY <1>2, <1>4, <1>5, <1>6, <1>7 DEF PlainStep

LEMMA InitPlace == Init => PlaceInv
<1> SUFFICES ASSUME Init PROVE PlaceInv
  OBVIOUS
<1>1. \A c \in Cabinet : InPlace(c, ram[c])
  BY SlotsAssumption DEF Init, InPlace
<1> QED BY <1>1 DEF Init, PlaceInv

LEMMA EachStep ==
  ASSUME Next
  PROVE  \E c \in Cabinet : PlainStep(c) \/ TakeVsync(c) \/ EndExchange(c)
  BY DEF Next, Exchange, PlainStep

LEMMA NextPlace ==
  ASSUME Relays = {}, TypeOK, RingInv, PlaceInv, [Next]_vars
  PROVE  PlaceInv'
<1>1. CASE UNCHANGED vars
  BY <1>1 DEF vars, board, line, PlaceInv
<1>2. CASE Next
  <2> PICK c \in Cabinet : PlainStep(c) \/ TakeVsync(c) \/ EndExchange(c)
    BY <1>2, EachStep
  <2>m. \A d \in Cabinet : InPlace(d, ram'[d])
    BY MemoryStep
  <2>1. CASE PlainStep(c)
    <3> PICK fs : From(c, fs) /\ \A k \in 1 .. Len(fs) : Passes(c, fs[k])
      BY <2>1, PlainSends
    <3>1. \A k \in 1 .. Len(fs) : FrameInPlace(Succ(c), fs[k])
      BY PassesInPlace
    <3> QED BY <2>m, <3>1, PlaceStep
  <2>2. CASE TakeVsync(c)
    <3> PICK fs : From(c, fs) /\ \A k \in 1 .. Len(fs) : fs[k] = Head(cable[c])
      BY <2>2, VsyncSends
    <3>1. /\ Head(cable[c]) \in Frame /\ FrameInPlace(c, Head(cable[c]))
          /\ Head(cable[c]).idx = Vsync
      BY <2>2, HeadFrame DEF TakeVsync, PlaceInv
    <3>2. \A k \in 1 .. Len(fs) : FrameInPlace(Succ(c), fs[k])
      BY <3>1, EmptyInPlace
    <3> QED BY <2>m, <3>2, PlaceStep
  <2>3. CASE EndExchange(c)
    <3> PICK g, v : g = RaceData(id[c], ram[c]) /\ v = Token(Vsync, 1, 0)
      OBVIOUS
    <3> PICK fs : From(c, fs) /\ (fs = <<>> \/ fs = <<g, v>>)
      BY <2>3, EndSends
    <3>1. FrameInPlace(Succ(c), v)
      BY TokenInPlace
    <3>2. FrameInPlace(Succ(c), g)
      <4>1. id[c] \in 1 .. N
        BY <2>3, RunningNumbers DEF EndExchange
      <4> QED BY <4>1, SentInPlace DEF PlaceInv, TypeOK
    <3>3. \A k \in 1 .. Len(fs) : FrameInPlace(Succ(c), fs[k])
      BY <3>1, <3>2
    <3> QED BY <2>m, <3>3, PlaceStep
  <2> QED BY <2>1, <2>2, <2>3
<1> QED BY <1>1, <1>2

(* The cabinet k racers back, when all are racers.                         *)
LEMMA BackInARing ==
  ASSUME Relays = {}, NEW c \in Cabinet, NEW k \in 1 .. Slots
  PROVE  Back[c][k] = (c - k) % N
<1>n. N \in Nat \ {0} /\ k \in Nat /\ c \in Int
  BY NAssumption, SlotsAssumption DEF Cabinet
<1>1. Racers = Cabinet /\ Cardinality(Racers) = N
  BY NumbersOfARing DEF Racers
<1>2. \A d \in Cabinet : Place(d) = d
  <2> TAKE d \in Cabinet
  <2>1. {e \in Racers : e < d} = 0 .. d - 1
    BY <1>1, NAssumption DEF Cabinet
  <2>2. Cardinality(0 .. d - 1) = d
    BY NAssumption, FS_Interval DEF Cabinet
  <2> QED BY <2>1, <2>2 DEF Place
<1>3. (c - k) % N \in Cabinet
  BY <1>n DEF Cabinet
<1>4. Back[c][k] = CHOOSE d \in Racers : Place(d) = (Place(c) - k) % Cardinality(Racers)
  <2> DEFINE G(x, j) == CHOOSE d \in Racers : Place(d) = (Place(x) - j) % Cardinality(Racers)
  <2>1. Back = [x \in Cabinet |-> [j \in 1 .. Slots |-> G(x, j)]]
    BY DEF Back
  <2> HIDE DEF G
  <2>2. Back[c][k] = G(c, k)
    BY <2>1
  <2> QED BY <2>2 DEF G
<1>5. Back[c][k] = CHOOSE d \in Cabinet : Place(d) = (c - k) % N
  BY <1>1, <1>2, <1>4
<1> PICK b : b = (c - k) % N
  OBVIOUS
<1>6. b \in Cabinet /\ Place(b) = b
  BY <1>2, <1>3
<1>7. Back[c][k] \in Cabinet /\ Place(Back[c][k]) = b
  BY <1>5, <1>6
<1> QED BY <1>2, <1>7

(* In a ring without relays, of any size, every block of a cabinet's       *)
(* memory is that of the cabinet so many places back along the ring, or    *)
(* empty, whatever is cut, delayed or lost.                                *)
THEOREM NoCarInAnothersPlace ==
  ASSUME Relays = {}
  PROVE  Spec => []BlocksInPlace
<1>1. Init => TypeOK /\ RingInv /\ PlaceInv
  BY InitType, InitRing, InitPlace
<1>2. TypeOK /\ RingInv /\ PlaceInv /\ [Next]_vars => TypeOK' /\ RingInv' /\ PlaceInv'
  BY StepType, NextRing, NextPlace
<1>3. PlaceInv => BlocksInPlace
  BY BackInARing DEF PlaceInv, InPlace, BlocksInPlace
<1> QED BY <1>1, <1>2, <1>3, PTL DEF Spec

-----------------------------------------------------------------------------
(***************************************************************************)
(* One vsync.  No number of the exchange is as high as a token's type, so  *)
(* only EndExchange of the master makes a vsync, when it does not wait for *)
(* one; TakeVsync takes it from one cable and puts it on the next.  This   *)
(* holds with relays too: a late one counts itself in, and the numbers are *)
(* wrong then, but none is higher than N.                                  *)
(***************************************************************************)
FrameSmall(c, f) ==
  /\ f.idx = LinkId => fg[0] = 1 /\ f.a <= IF c = 0 THEN N ELSE c
  /\ f.idx = LinkSize => f.a <= N /\ f.b <= N
BoardSmall(c) ==
  /\ c # 0 => fg[c] = 0
  /\ id[c] <= N /\ count[c] <= N
  /\ ~enable[c] => pc[c] = "idle" /\ alive[c] = 0
  /\ pc[c] = "numbering" => alive[c] = 0
  /\ pc[c] \in {"exchange", "poll"} => alive[c] # 0
SmallInv ==
  /\ \A c \in Cabinet : BoardSmall(c)
  /\ \A c \in Cabinet : \A i \in 1 .. Len(cable[c]) : FrameSmall(c, cable[c][i])

LEMMA SmallStep ==
  ASSUME TypeOK, SmallInv, NEW c \in Cabinet, NEW fs, From(c, fs), OthersSame(c),
         fg[0] = 1 => fg'[0] = 1, BoardSmall(c)',
         \A k \in 1 .. Len(fs) : FrameSmall(Succ(c), fs[k])
  PROVE  SmallInv'
<1>1. \A d \in Cabinet : BoardSmall(d)'
  <2>1. ASSUME NEW d \in Cabinet \ {c} PROVE BoardSmall(d)'
    BY DEF SmallInv, BoardSmall, OthersSame
  <2> QED BY <2>1
<1>2. ASSUME NEW d \in Cabinet, NEW i \in 1 .. Len(cable'[d])
      PROVE  FrameSmall(d, cable[d][i])'
  <2>1. CASE \E j \in 1 .. Len(cable[d]) : cable'[d][i] = cable[d][j]
    BY <2>1 DEF SmallInv, FrameSmall
  <2>2. CASE cable'[d][i] = Eof
    BY <2>2 DEF FrameSmall, Eof, LinkId, LinkSize
  <2>3. CASE d = Succ(c) /\ \E k \in 1 .. Len(fs) : cable'[d][i] = fs[k]
    BY <2>3 DEF FrameSmall
  <2>4. \/ \E j \in 1 .. Len(cable[d]) : cable'[d][i] = cable[d][j]
        \/ cable'[d][i] = Eof
        \/ d = Succ(c) /\ \E k \in 1 .. Len(fs) : cable'[d][i] = fs[k]
    BY FromFrames
  <2> QED BY <2>1, <2>2, <2>3, <2>4
<1> QED BY <1>1, <1>2 DEF SmallInv

LEMMA HeadSmall ==
  ASSUME TypeOK, SmallInv, NEW c \in Cabinet, FrameHere(c)
  PROVE  FrameSmall(c, Head(cable[c])) /\ Head(cable[c]) \in Frame
  BY HeadFrame DEF SmallInv

LEMMA MasterIsFirst ==
  ASSUME SmallInv, NEW c \in Cabinet
  PROVE  is_master(c) <=> c = 0 /\ fg[0] = 1
  BY NAssumption DEF SmallInv, BoardSmall, is_master, Cabinet

LEMMA DataSmall ==
  ASSUME NEW c, NEW i \in Int, i <= N, NEW mem
  PROVE  /\ FrameSmall(c, RaceData(i, mem)) /\ RaceData(i, mem).idx # Vsync
         /\ \A f : f.idx = i => FrameSmall(c, f) /\ f.idx # Vsync
<1>1. i # LinkId /\ i # LinkSize /\ i # Vsync
  BY NAssumption DEF LinkId, LinkSize, Vsync
<1>2. RaceData(i, mem).idx = i
  BY DEF RaceData
<1> QED BY <1>1, <1>2 DEF FrameSmall

LEMMA PassesSmall ==
  ASSUME TypeOK, SmallInv, NEW c \in Cabinet, NEW g, Passes(c, g)
  PROVE  FrameSmall(Succ(c), g) /\ g.idx # Vsync
<1> PICK f : f = Head(cable[c])
  OBVIOUS
<1>1. ASSUME FrameHere(c) PROVE f \in Frame /\ FrameSmall(c, f)
  BY <1>1, HeadSmall
<1>2. id[c] \in Int /\ count[c] \in Int /\ id[c] <= N /\ count[c] <= N
  BY DEF TypeOK, SmallInv, BoardSmall
<1>3. CASE PassesData(c, g)
  <2>1. f \in Frame /\ f.idx \in Int /\ f.idx <= N
    <3>1. f \in Frame /\ f.idx <= count[c]
      BY <1>1, <1>3 DEF PassesData
    <3> QED BY <1>2, <3>1, NAssumption DEF Frame
  <2> QED BY <1>2, <1>3, <2>1, DataSmall DEF PassesData
<1>4. CASE PassesToken(c, g)
  <2>1. f \in Frame /\ FrameSmall(c, f) /\ f.a \in Int /\ f.b \in Int /\ ~is_master(c)
    BY <1>1, <1>4 DEF PassesToken, Frame
  <2>2. CASE f.idx = LinkId /\ g = CountIn(c, f)
    <3>1. g.idx = LinkId /\ (g.a = f.a \/ g.a = f.a + 1)
      BY <2>1, <2>2 DEF CountIn, Frame
    <3>2. fg[0] = 1 /\ c # 0 /\ f.a <= c
      BY <2>1, <2>2, MasterIsFirst DEF FrameSmall
    <3>3. g.a <= IF Succ(c) = 0 THEN N ELSE Succ(c)
      BY <2>1, <3>1, <3>2, NAssumption DEF Succ, Cabinet
    <3> QED BY <3>1, <3>2, <3>3 DEF FrameSmall, LinkId, LinkSize, Vsync
  <2>3. CASE f.idx = LinkSize /\ g = HandDown(c, f)
    <3>1. g.idx = LinkSize /\ (g.a = f.a \/ g.a = f.a - 1) /\ g.b = f.b
      BY <2>1, <2>3 DEF HandDown, Frame
    <3>2. g.a <= N /\ g.b <= N
      BY <2>1, <2>3, <3>1, NAssumption DEF FrameSmall
    <3> QED BY <3>1, <3>2 DEF FrameSmall, LinkId, LinkSize, Vsync
  <2> QED BY <1>4, <2>2, <2>3 DEF PassesToken
<1>5. CASE MakesToken(c, g)
  <2>1. c = 0 /\ fg[0] = 1 /\ Succ(c) = 1
    BY <1>5, MasterIsFirst, NAssumption DEF MakesToken, Succ
  <2>2. CASE g = Token(LinkId, 1, 0)
    <3>1. g.idx = LinkId /\ g.a = 1
      BY <2>2 DEF Token
    <3> QED BY <2>1, <3>1 DEF FrameSmall, LinkId, LinkSize, Vsync
  <2>3. CASE g = Token(LinkSize, count[c], count[c])
    <3>1. g.idx = LinkSize /\ g.a = count[c] /\ g.b = count[c]
      BY <2>3 DEF Token
    <3> QED BY <1>2, <3>1 DEF FrameSmall, LinkId, LinkSize, Vsync
  <2> QED BY <1>5, <2>2, <2>3 DEF MakesToken
<1> QED BY <1>3, <1>4, <1>5 DEF Passes

LEMMA BoardStep ==
  ASSUME TypeOK, SmallInv, NEW c \in Cabinet,
         Game(c) \/ Tick(c) \/ Numbering(c) \/ Exchange(c) \/ Network(c)
  PROVE  BoardSmall(c)' /\ (fg[0] = 1 => fg'[0] = 1)
<1>i. BoardSmall(c)
  BY DEF SmallInv
<1>1. CASE Game(c)
  <2>1. CASE fg_w(c)
    BY <1>i, <2>1 DEF fg_w, board, BoardSmall, TypeOK
  <2>2. CASE WriteRelay(c)
    BY <1>i, <2>2 DEF WriteRelay, board, BoardSmall
  <2>3. CASE cn_w(c)
    <3>1. /\ fg' = fg /\ enable'[c] /\ alive'[c] = 0 /\ id'[c] = 0 /\ count'[c] = 0
          /\ pc'[c] \in {"idle", "numbering"}
      BY <2>3 DEF cn_w, InitCommand, BeginWaiting, TypeOK
    <3> QED BY <1>i, <3>1, NAssumption DEF BoardSmall
  <2>4. CASE fg_r(c)
    BY <1>i, <2>4 DEF fg_r, game, BoardSmall, TypeOK
  <2> QED BY <1>1, <2>1, <2>2, <2>3, <2>4 DEF Game
<1>2. CASE Tick(c)
  <2>1. /\ fg' = fg /\ enable' = enable /\ enable[c] /\ alive' = alive
        /\ id' = id /\ count' = count
        /\ \/ pc'[c] = pc[c]
           \/ pc'[c] \in {"idle", "numbering"} /\ alive[c] = 0
           \/ pc'[c] = "exchange" /\ alive[c] = 1
    BY <1>2 DEF Tick, TickWaiting, TickUp, TickLost, BeginWaiting, game, board, TypeOK
  <2> QED BY <1>i, <2>1 DEF BoardSmall
<1>3. CASE Numbering(c)
  <2>1. pc[c] = "numbering" /\ fg' = fg /\ enable' = enable /\ enable[c]
    BY <1>i, <1>3 DEF Numbering, TakeLinkId, TakeLinkSize, DropEarly, NumberingSlave,
                      NumberingCountdown, SendLinkId, SendLinkSize, game, BoardSmall
  <2>2. \/ alive'[c] = 0 /\ pc'[c] \in {"idle", "numbering"}
        \/ alive'[c] = 1 /\ pc'[c] = "exchange"
    <3>1. alive[c] = 0
      BY <1>i, <2>1 DEF BoardSmall
    <3>2. CASE TakeLinkId(c) \/ DropEarly(c)
      BY <2>1, <3>1, <3>2 DEF TakeLinkId, DropEarly, board
    <3>3. CASE NumberingSlave(c) \/ NumberingCountdown(c) \/ SendLinkId(c)
      BY <3>1, <3>3 DEF NumberingSlave, NumberingCountdown, SendLinkId, board, TypeOK
    <3>4. CASE TakeLinkSize(c) \/ SendLinkSize(c)
      BY <3>4 DEF TakeLinkSize, SendLinkSize, UpOnceSent, TypeOK
    <3> QED BY <1>3, <3>2, <3>3, <3>4 DEF Numbering
  <2>3. id'[c] <= N /\ count'[c] <= N
    <3>1. CASE TakeLinkId(c)
      <4>1. FrameSmall(c, Head(cable[c])) /\ Head(cable[c]).idx = LinkId
        BY <3>1, HeadSmall DEF TakeLinkId
      <4>2. is_master(c) => Head(cable[c]).a <= N
        BY <4>1, MasterIsFirst DEF FrameSmall
      <4>3. CASE is_master(c)
        <5>1. id'[c] = 1 /\ count'[c] = Head(cable[c]).a
          BY <3>1, <4>3 DEF TakeLinkId, TypeOK
        <5> QED BY <4>2, <4>3, <5>1, NAssumption
      <4>4. CASE ~is_master(c)
        <5>1. id' = id /\ count' = count
          BY <3>1, <4>4 DEF TakeLinkId
        <5> QED BY <1>i, <5>1 DEF BoardSmall
      <4> QED BY <4>3, <4>4
    <3>2. CASE TakeLinkSize(c)
      <4>1. FrameSmall(c, Head(cable[c])) /\ Head(cable[c]).idx = LinkSize
        BY <3>2, HeadSmall DEF TakeLinkSize
      <4>2. CASE is_master(c)
        <5>1. id' = id /\ count' = count
          BY <3>2, <4>2 DEF TakeLinkSize
        <5> QED BY <1>i, <5>1 DEF BoardSmall
      <4>3. CASE ~is_master(c)
        <5>1. id'[c] \in {0, Head(cable[c]).a} /\ count'[c] = Head(cable[c]).b
          BY <3>2, <4>3 DEF TakeLinkSize, TypeOK
        <5> QED BY <4>1, <5>1, NAssumption DEF FrameSmall
      <4> QED BY <4>2, <4>3
    <3>3. CASE id' = id /\ count' = count
      BY <1>i, <3>3 DEF BoardSmall
    <3> QED BY <1>3, <3>1, <3>2, <3>3
            DEF Numbering, DropEarly, NumberingSlave, NumberingCountdown, SendLinkId,
                SendLinkSize, board
  <2> QED BY <1>i, <2>1, <2>2, <2>3 DEF BoardSmall
<1>4. CASE Exchange(c)
  <2>1. /\ pc[c] \in {"exchange", "poll"} /\ pc'[c] \in {"idle", pc[c]}
        /\ fg' = fg /\ enable' = enable /\ id' = id /\ count' = count
        /\ alive'[c] \in {alive[c], 2}
    BY <1>4 DEF Exchange, TakeData, TakeVsync, DropLate, AwaitVsync, SyncTimeout, EndLost,
                EndPoll, EndExchange, KeepOrLose, game, board, TypeOK
  <2> QED BY <1>i, <2>1 DEF BoardSmall
<1>5. CASE Network(c)
  BY <1>i, <1>5 DEF Network, Answer, Cut, game, board, BoardSmall
<1> QED BY <1>1, <1>2, <1>3, <1>4, <1>5

LEMMA InitSmall == Init => SmallInv
  BY NAssumption DEF Init, SmallInv, BoardSmall

LEMMA NextSmall ==
  ASSUME TypeOK, SmallInv, [Next]_vars
  PROVE  SmallInv'
<1>1. CASE UNCHANGED vars
  BY <1>1 DEF vars, game, board, line, SmallInv, BoardSmall, FrameSmall
<1>2. CASE Next
  <2> PICK c \in Cabinet : Game(c) \/ Tick(c) \/ Numbering(c) \/ Exchange(c) \/ Network(c)
    BY <1>2 DEF Next
  <2>0. OthersSame(c) /\ BoardSmall(c)' /\ (fg[0] = 1 => fg'[0] = 1)
    BY OneBoard, BoardStep
  <2>1. CASE PlainStep(c)
    <3> PICK fs : From(c, fs) /\ \A k \in 1 .. Len(fs) : Passes(c, fs[k])
      BY <2>1, PlainSends
    <3>1. \A k \in 1 .. Len(fs) : FrameSmall(Succ(c), fs[k])
      BY PassesSmall
    <3> QED BY <2>0, <3>1, SmallStep
  <2>2. CASE TakeVsync(c)
    <3> PICK fs : From(c, fs) /\ \A k \in 1 .. Len(fs) : fs[k] = Head(cable[c])
      BY <2>2, VsyncSends
    <3>1. Head(cable[c]).idx = Vsync
      BY <2>2 DEF TakeVsync
    <3>2. \A k \in 1 .. Len(fs) : FrameSmall(Succ(c), fs[k])
      BY <3>1 DEF FrameSmall, LinkId, LinkSize, Vsync
    <3> QED BY <2>0, <3>2, SmallStep
  <2>3. CASE EndExchange(c)
    <3> PICK g, v : g = RaceData(id[c], ram[c]) /\ v = Token(Vsync, 1, 0)
      OBVIOUS
    <3> PICK fs : From(c, fs) /\ (fs = <<>> \/ fs = <<g, v>>)
      BY <2>3, EndSends
    <3>1. v.idx = Vsync
      BY DEF Token
    <3>2. FrameSmall(Succ(c), v)
      BY <3>1 DEF FrameSmall, LinkId, LinkSize, Vsync
    <3>3. FrameSmall(Succ(c), g)
      BY DataSmall DEF SmallInv, BoardSmall, TypeOK
    <3>4. \A k \in 1 .. Len(fs) : FrameSmall(Succ(c), fs[k])
      BY <3>2, <3>3
    <3> QED BY <2>0, <3>4, SmallStep
  <2> QED BY <2>1, <2>2, <2>3 DEF PlainStep, Exchange
<1> QED BY <1>1, <1>2

(* Where the vsyncs are, and what they say of the master.                  *)
VsyncAt(c, i) == i \in 1 .. Len(cable[c]) /\ cable[c][i].idx = Vsync
Waited == fg[0] = 1 /\ (alive[0] = 2 \/ (alive[0] = 1 /\ timer[0] = 1))
VsyncInv ==
  /\ \A c, d \in Cabinet : \A i, j \in Nat :
       VsyncAt(c, i) /\ VsyncAt(d, j) => c = d /\ i = j
  /\ \A c \in Cabinet : \A i \in Nat : VsyncAt(c, i) => Waited

(* A step that sends no vsync has none but the old ones, and in the same   *)
(* order.                                                                  *)
LEMMA OldVsyncs ==
  ASSUME TypeOK, NEW c \in Cabinet, NEW fs, From(c, fs),
         \A k \in 1 .. Len(fs) : fs[k].idx # Vsync
  PROVE  \E o \in [Cabinet -> {0, 1}] :
           \A d \in Cabinet : \A i \in Nat : VsyncAt(d, i)' => VsyncAt(d, i + o[d])
<1> PICK o \in {0, 1} : \A i \in 1 .. Len(cable'[c]) :
       \/ cable'[c][i] = Eof
       \/ i + o \in 1 .. Len(cable[c]) /\ cable'[c][i] = cable[c][i + o]
  BY DEF From
<1> DEFINE off == [d \in Cabinet |-> IF d = c THEN o ELSE 0]
<1>1. off \in [Cabinet -> {0, 1}]
  OBVIOUS
<1>2. ASSUME NEW d \in Cabinet, NEW i \in Nat, VsyncAt(d, i)'
      PROVE  VsyncAt(d, i + off[d])
  <2>1. i \in 1 .. Len(cable'[d]) /\ cable'[d][i].idx = Vsync
    BY <1>2 DEF VsyncAt
  <2>2. CASE d = c
    <3>1. cable'[c][i] # Eof
      BY <2>1, <2>2 DEF Eof, Vsync
    <3> QED BY <2>1, <2>2, <3>1 DEF VsyncAt
  <2>3. CASE d # c
    <3>1. off[d] = 0 /\ i + off[d] = i
      BY <2>3
    <3>2. CASE cable'[d] = cable[d]
      BY <2>1, <3>1, <3>2 DEF VsyncAt
    <3>3. CASE d = Succ(c) /\ cable'[d] = cable[d] \o fs
      <4>1. cable[d] \in Seq(Frame) /\ fs \in Seq(Frame)
        BY DEF TypeOK, From
      <4>2. Len(cable'[d]) = Len(cable[d]) + Len(fs) /\ Len(fs) \in Nat /\ Len(cable[d]) \in Nat
        BY <3>3, <4>1, ConcatProperties, LenProperties
      <4>3. CASE i \in 1 .. Len(cable[d])
        <5>1. cable'[d][i] = cable[d][i]
          BY <3>3, <4>1, <4>3, ConcatProperties
        <5> QED BY <2>1, <3>1, <4>3, <5>1 DEF VsyncAt
      <4>4. CASE i \notin 1 .. Len(cable[d])
        <5>1. i - Len(cable[d]) \in 1 .. Len(fs)
          BY <2>1, <4>2, <4>4
        <5>2. cable'[d][i] = fs[i - Len(cable[d])]
          BY <2>1, <3>3, <4>1, <4>2, <4>4, ConcatProperties
        <5> QED BY <2>1, <5>1, <5>2
      <4> QED BY <4>3, <4>4
    <3> QED BY <2>3, <3>2, <3>3 DEF From
  <2> QED BY <2>2, <2>3
<1> QED BY <1>1, <1>2

LEMMA VsyncKept ==
  ASSUME TypeOK, VsyncInv, NEW c \in Cabinet, NEW fs, From(c, fs),
         \A k \in 1 .. Len(fs) : fs[k].idx # Vsync,
         Waited => Waited'
  PROVE  VsyncInv'
<1> PICK o \in [Cabinet -> {0, 1}] :
      \A d \in Cabinet : \A i \in Nat : VsyncAt(d, i)' => VsyncAt(d, i + o[d])
  BY OldVsyncs
<1>1. \A d \in Cabinet : \A i \in Nat : i + o[d] \in Nat
  OBVIOUS
<1>2. ASSUME NEW d \in Cabinet, NEW e \in Cabinet, NEW i \in Nat, NEW j \in Nat,
             VsyncAt(d, i)', VsyncAt(e, j)'
      PROVE  d = e /\ i = j
  <2>1. d = e /\ i + o[d] = j + o[e]
    BY <1>1, <1>2 DEF VsyncInv
  <2>2. o[d] \in {0, 1}
    OBVIOUS
  <2> QED BY <2>1, <2>2
<1>3. ASSUME NEW d \in Cabinet, NEW i \in Nat, VsyncAt(d, i)' PROVE Waited'
  BY <1>1, <1>3 DEF VsyncInv
<1> QED BY <1>2, <1>3 DEF VsyncInv

(* The master's wait only ends with the vsync.                             *)
LEMMA WaitedPlain ==
  ASSUME TypeOK, SmallInv, NEW c \in Cabinet, PlainStep(c), Waited
  PROVE  Waited'
<1>o. OthersSame(c)
  BY OneBoard DEF PlainStep, Exchange
<1>z. 0 \in Cabinet
  BY NAssumption DEF Cabinet
<1>1. CASE c # 0
  BY <1>1, <1>o, <1>z DEF OthersSame, Waited
<1>2. CASE c = 0
  <2>i. fg[0] = 1 /\ alive[0] # 0 /\ enable[0] /\ pc[0] # "numbering" /\ is_master(0)
    BY <1>z DEF Waited, SmallInv, BoardSmall, is_master
  <2>1. CASE Game(c)
    BY <1>2, <2>i, <2>1 DEF Game, fg_w, WriteRelay, cn_w, fg_r, game, board, Waited
  <2>2. CASE Tick(c) \/ Network(c)
    BY <2>2 DEF Tick, TickWaiting, TickUp, TickLost, Network, Answer, Cut, game, board, Waited
  <2>3. CASE Numbering(c)
    BY <1>2, <2>i, <2>3 DEF Numbering, TakeLinkId, TakeLinkSize, DropEarly, NumberingSlave,
                            NumberingCountdown, SendLinkId, SendLinkSize
  <2>4. CASE TakeData(c) \/ DropLate(c) \/ AwaitVsync(c) \/ EndPoll(c)
    BY <1>2, <2>i, <2>4 DEF TakeData, DropLate, AwaitVsync, EndPoll, game, board, Waited
  <2>5. CASE SyncTimeout(c) \/ EndLost(c)
    BY <1>2, <1>z, <2>5 DEF SyncTimeout, EndLost, KeepOrLose, game, Waited, TypeOK
  <2> QED BY <2>1, <2>2, <2>3, <2>4, <2>5 DEF PlainStep
<1> QED BY <1>1, <1>2

(* The one vsync is taken off the cable into c, and passed on by a slave.  *)
LEMMA TakeKeepsOne ==
  ASSUME TypeOK, SmallInv, VsyncInv, NEW c \in Cabinet, TakeVsync(c)
  PROVE  VsyncInv'
<1> PICK f : f = Head(cable[c])
  OBVIOUS
<1>0. cable \in [Cabinet -> Seq(Frame)] /\ Succ(c) \in Cabinet /\ Succ(c) # c
  BY Neighbours DEF TypeOK
<1>1. /\ cable[c] \in Seq(Frame) /\ cable[c] # <<>> /\ f \in Frame
      /\ f.idx = Vsync /\ VsyncAt(c, 1)
  BY <1>0, HeadFrame DEF TakeVsync, VsyncAt, FrameHere
<1>2. Waited /\ \A d \in Cabinet : \A i \in Nat : VsyncAt(d, i) => d = c /\ i = 1
  BY <1>1 DEF VsyncInv
<1>3. ASSUME NEW i \in Nat, cable'[c] = Tail(cable[c]), VsyncAt(c, i)'
      PROVE  FALSE
  <2>1. Len(Tail(cable[c])) = Len(cable[c]) - 1 /\ Len(cable[c]) \in Nat
    BY <1>1, HeadTailProperties, LenProperties
  <2>2. i \in 1 .. Len(Tail(cable[c])) /\ Tail(cable[c])[i].idx = Vsync
    BY <1>3 DEF VsyncAt
  <2>3. Tail(cable[c])[i] = cable[c][i + 1]
    BY <1>1, <2>2, HeadTailProperties
  <2>4. i + 1 \in 1 .. Len(cable[c]) /\ i + 1 \in Nat /\ i + 1 # 1
    BY <2>1, <2>2
  <2> QED BY <1>2, <2>2, <2>3, <2>4 DEF VsyncAt
<1>4. ASSUME NEW d \in Cabinet \ {c}, NEW i \in Nat, cable'[d] = cable[d], VsyncAt(d, i)'
      PROVE  FALSE
  BY <1>2, <1>4 DEF VsyncAt
<1>5. CASE is_master(c)
  <2>1. cable' = [cable EXCEPT ![c] = Tail(@)]
    BY <1>5 DEF TakeVsync
  <2>2. cable'[c] = Tail(cable[c]) /\ \A d \in Cabinet \ {c} : cable'[d] = cable[d]
    BY <1>0, <2>1
  <2>3. \A d \in Cabinet : \A i \in Nat : ~VsyncAt(d, i)'
    BY <1>3, <1>4, <2>2
  <2> QED BY <2>3 DEF VsyncInv
<1>6. CASE ~is_master(c)
  <2> PICK sent \in BOOLEAN : send_frame(c, Tail(cable[c]), <<f>>, sent)
    BY <1>6 DEF TakeVsync, PassOn
  <2>1. /\ cable'[c] = Tail(cable[c])
        /\ cable'[Succ(c)] \in {cable[Succ(c)], cable[Succ(c)] \o <<f>>}
        /\ \A d \in Cabinet \ {c, Succ(c)} : cable'[d] = cable[d]
    BY <1>0 DEF send_frame
  <2>2. Waited'
    <3>1. c # 0
      BY <1>2, <1>6 DEF Waited, is_master
    <3>2. OthersSame(c) /\ 0 \in Cabinet \ {c}
      BY <3>1, OneBoard, NAssumption DEF Exchange, Cabinet
    <3> QED BY <1>2, <3>2 DEF OthersSame, Waited
  <2> PICK n : n = Len(cable[Succ(c)]) + 1
    OBVIOUS
  <2>3. n \in Nat
    BY <1>0, LenProperties
  <2>4. ASSUME NEW i \in Nat, VsyncAt(Succ(c), i)' PROVE i = n
    <3>1. cable'[Succ(c)] = cable[Succ(c)] \o <<f>>
      BY <1>0, <1>4, <2>1, <2>4
    <3>2. cable[Succ(c)] \in Seq(Frame) /\ <<f>> \in Seq(Frame) /\ Len(<<f>>) = 1
      BY <1>0, <1>1
    <3>3. Len(cable'[Succ(c)]) = Len(cable[Succ(c)]) + 1 /\ Len(cable[Succ(c)]) \in Nat
      BY <3>1, <3>2, ConcatProperties, LenProperties
    <3>4. i \in 1 .. Len(cable'[Succ(c)]) /\ cable'[Succ(c)][i].idx = Vsync
      BY <2>4 DEF VsyncAt
    <3>5. CASE i \in 1 .. Len(cable[Succ(c)])
      <4>1. cable'[Succ(c)][i] = cable[Succ(c)][i]
        BY <3>1, <3>2, <3>5, ConcatProperties
      <4> QED BY <1>0, <1>2, <3>4, <3>5, <4>1 DEF VsyncAt
    <3> QED BY <3>3, <3>4, <3>5
  <2>5. ASSUME NEW d \in Cabinet, NEW i \in Nat, VsyncAt(d, i)'
        PROVE  d = Succ(c) /\ i = n
    <3>1. d # c
      BY <1>3, <2>1, <2>5
    <3>2. d = Succ(c)
      BY <1>4, <2>1, <2>5, <3>1
    <3> QED BY <2>4, <2>5, <3>2
  <2> QED BY <2>2, <2>5 DEF VsyncInv
<1> QED BY <1>5, <1>6

(* The master makes a vsync only when there is none, and waits for it.     *)
LEMMA EndKeepsOne ==
  ASSUME FrameSync = 1, TypeOK, SmallInv, VsyncInv, NEW c \in Cabinet, EndExchange(c)
  PROVE  VsyncInv'
<1>0. cable \in [Cabinet -> Seq(Frame)] /\ Succ(c) \in Cabinet /\ Succ(c) # c /\ 0 \in Cabinet
  BY Neighbours, NAssumption DEF TypeOK, Cabinet
<1>1. CASE is_master(c)
  <2> PICK g, v : g = RaceData(id[c], ram[c]) /\ v = Token(Vsync, 1, 0)
    OBVIOUS
  <2> PICK sent \in BOOLEAN : send_frame(c, cable[c], <<g, v>>, sent)
                               /\ KeepOrLose(c, sent, ArmWait)
    BY <1>1 DEF EndExchange
  <2>1. c = 0 /\ alive[0] = 1 /\ timer[0] # 1 /\ fg' = fg /\ fg[0] = 1
    BY <1>1, MasterIsFirst DEF EndExchange, game
  <2>2. \A d \in Cabinet : \A i \in Nat : ~VsyncAt(d, i)
    BY <2>1 DEF VsyncInv, Waited
  <2>3. Waited'
    BY <2>1 DEF KeepOrLose, Waited, ArmWait, TypeOK
  <2>4. /\ cable'[Succ(c)] \in {cable[Succ(c)], cable[Succ(c)] \o <<g, v>>}
        /\ \A d \in Cabinet \ {Succ(c)} : cable'[d] = cable[d]
    BY <1>0 DEF send_frame
  <2> PICK n : n = Len(cable[Succ(c)]) + 2
    OBVIOUS
  <2>5. n \in Nat
    BY <1>0, LenProperties
  <2>6. ASSUME NEW d \in Cabinet, NEW i \in Nat, cable'[d] = cable[d], VsyncAt(d, i)'
        PROVE  FALSE
    BY <2>2, <2>6 DEF VsyncAt
  <2>7. ASSUME NEW i \in Nat, VsyncAt(Succ(c), i)' PROVE i = n
    <3>1. cable'[Succ(c)] = cable[Succ(c)] \o <<g, v>>
      BY <1>0, <2>4, <2>6, <2>7
    <3>2. g \in Frame /\ v \in Frame /\ g.idx # Vsync
      <4>1. id[c] \in Int /\ id[c] <= N /\ ram[c] \in Memory
        BY DEF TypeOK, SmallInv, BoardSmall
      <4>2. g \in Frame
        BY <4>1, FrameTypes
      <4>3. v \in Frame
        BY FrameTypes DEF Vsync
      <4> QED BY <4>1, <4>2, <4>3, DataSmall
    <3>3. /\ cable[Succ(c)] \in Seq(Frame) /\ <<g, v>> \in Seq(Frame)
          /\ Len(<<g, v>>) = 2 /\ <<g, v>>[1] = g
      BY <1>0, <3>2
    <3>4. Len(cable'[Succ(c)]) = Len(cable[Succ(c)]) + 2 /\ Len(cable[Succ(c)]) \in Nat
      BY <3>1, <3>3, ConcatProperties, LenProperties
    <3>5. i \in 1 .. Len(cable'[Succ(c)]) /\ cable'[Succ(c)][i].idx = Vsync
      BY <2>7 DEF VsyncAt
    <3>6. i \notin 1 .. Len(cable[Succ(c)])
      <4> SUFFICES ASSUME i \in 1 .. Len(cable[Succ(c)]) PROVE FALSE
        OBVIOUS
      <4>1. cable'[Succ(c)][i] = cable[Succ(c)][i]
        BY <3>1, <3>3, ConcatProperties
      <4> QED BY <1>0, <2>2, <3>5, <4>1 DEF VsyncAt
    <3>7. i # Len(cable[Succ(c)]) + 1
      <4> SUFFICES ASSUME i = Len(cable[Succ(c)]) + 1 PROVE FALSE
        OBVIOUS
      <4>1. cable'[Succ(c)][i] = <<g, v>>[i - Len(cable[Succ(c)])]
        BY <3>1, <3>3, <3>4, <3>5, <3>6, ConcatProperties
      <4>2. i - Len(cable[Succ(c)]) = 1
        BY <3>4
      <4> QED BY <3>2, <3>3, <3>5, <4>1, <4>2
    <3> QED BY <3>4, <3>5, <3>6, <3>7
  <2>8. ASSUME NEW d \in Cabinet, NEW i \in Nat, VsyncAt(d, i)'
        PROVE  d = Succ(c) /\ i = n
    <3>1. d = Succ(c)
      BY <2>4, <2>6, <2>8
    <3> QED BY <2>7, <2>8, <3>1
  <2> QED BY <2>3, <2>8 DEF VsyncInv
<1>2. CASE ~is_master(c)
  <2>1. cable' = cable
    BY <1>2 DEF EndExchange
  <2>2. Waited => c # 0
    BY <1>2 DEF Waited, is_master
  <2>3. Waited => Waited'
    <3>1. OthersSame(c)
      BY OneBoard DEF Exchange
    <3> QED BY <1>0, <2>2, <3>1 DEF OthersSame, Waited
  <2>4. From(c, <<>>) /\ \A k \in 1 .. Len(<<>>) : <<>>[k].idx # Vsync
    BY <2>1, SameFrom
  <2> QED BY <2>3, <2>4, VsyncKept
<1> QED BY <1>1, <1>2

LEMMA InitVsync == Init => VsyncInv
  BY DEF Init, VsyncInv, VsyncAt

LEMMA NextVsync ==
  ASSUME FrameSync = 1, TypeOK, SmallInv, VsyncInv, [Next]_vars
  PROVE  VsyncInv'
<1>1. CASE UNCHANGED vars
  BY <1>1 DEF vars, game, board, line, VsyncInv, VsyncAt, Waited
<1>2. CASE Next
  <2> PICK c \in Cabinet : PlainStep(c) \/ TakeVsync(c) \/ EndExchange(c)
    BY <1>2, EachStep
  <2>1. CASE PlainStep(c)
    <3> PICK fs : From(c, fs) /\ \A k \in 1 .. Len(fs) : Passes(c, fs[k])
      BY <2>1, PlainSends
    <3>1. \A k \in 1 .. Len(fs) : fs[k].idx # Vsync
      BY PassesSmall
    <3> QED BY <2>1, <3>1, WaitedPlain, VsyncKept
  <2> QED BY <2>1, TakeKeepsOne, EndKeepsOne
<1> QED BY <1>1, <1>2

LEMMA OneVsyncThen == TypeOK /\ VsyncInv => Cardinality(Vsyncs) <= 1
<1> SUFFICES ASSUME TypeOK, VsyncInv PROVE Cardinality(Vsyncs) <= 1
  OBVIOUS
<1>1. CASE Vsyncs = {}
  BY <1>1, FS_EmptySet
<1>2. CASE Vsyncs # {}
  <2> PICK p : p \in Vsyncs
    BY <1>2
  <2>1. ASSUME NEW q \in Vsyncs
        PROVE  q = <<q[1], q[2]>> /\ q[1] \in Cabinet /\ q[2] \in Nat /\ VsyncAt(q[1], q[2])
    <3>1. /\ q \in Cabinet \X (1 .. 2 * MaxInFlight + 4)
          /\ q[2] <= Len(cable[q[1]]) /\ cable[q[1]][q[2]].idx = Vsync
      BY DEF Vsyncs
    <3>2. q = <<q[1], q[2]>> /\ q[1] \in Cabinet /\ q[2] \in 1 .. 2 * MaxInFlight + 4
      BY <3>1
    <3>3. Len(cable[q[1]]) \in Nat /\ q[2] \in Nat \ {0}
      BY <3>2, LenProperties, BoundsAssumption DEF TypeOK
    <3> QED BY <3>1, <3>2, <3>3 DEF VsyncAt
  <2>2. \A q \in Vsyncs : q = p
    BY <2>1 DEF VsyncInv
  <2>3. Vsyncs = {p}
    BY <2>2
  <2>4. Cardinality({p}) = 1
    BY FS_Singleton
  <2> QED BY <2>3, <2>4
<1> QED BY <1>1, <1>2

(* With frame sync there is at most one vsync on the ring, for any number  *)
(* of cabinets and of relays, late ones included, and whatever is cut.     *)
THEOREM OneVsyncOnTheRing == Spec => []OneVsync
<1>1. CASE FrameSync = 1
  <2>1. Init => TypeOK /\ SmallInv /\ VsyncInv
    BY InitType, InitSmall, InitVsync
  <2>2. TypeOK /\ SmallInv /\ VsyncInv /\ [Next]_vars => TypeOK' /\ SmallInv' /\ VsyncInv'
    BY <1>1, StepType, NextSmall, NextVsync
  <2>3. TypeOK /\ VsyncInv => OneVsync
    BY OneVsyncThen DEF OneVsync
  <2> QED BY <2>1, <2>2, <2>3, PTL DEF Spec
<1>2. CASE FrameSync # 1
  <2>1. OneVsync
    BY <1>2 DEF OneVsync
  <2> QED BY <2>1, PTL
<1> QED BY <1>1, <1>2
=============================================================================

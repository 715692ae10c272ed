-------------------------- MODULE LinkResetProofs --------------------------
(***************************************************************************)
(* Theorems about LinkReset: resets of cabinets at any moment, for any     *)
(* number of cabinets and relays.                                          *)
(***************************************************************************)
EXTENDS LinkReset, LinkRingProofs

(* A step of the ring itself is one of LinkRing.                           *)
LEMMA RingSteps ==
  ASSUME NEW c \in Cabinet, Ring(c)
  PROVE  /\ Game(c) \/ Tick(c) \/ Numbering(c) \/ Exchange(c) \/ Network(c)
         /\ Next
<1>1. Game(c) \/ Tick(c) \/ Numbering(c) \/ Exchange(c) \/ Network(c)
  BY DEF Ring, StartBoard, AnswerPrompt, Game, Network
<1> QED BY <1>1 DEF Next

LEMMA CleanMemory ==
  ASSUME NEW c \in Cabinet
  PROVE  [s \in 0 .. Slots |-> IF s = 0 THEN c ELSE Nobody] \in Memory
  BY NAssumption DEF Memory, Nobody, Cabinet

LEMMA RebootType ==
  ASSUME TypeOK, NEW c \in Cabinet, Reboot(c)
  PROVE  TypeOK'
<1>1. Succ(c) \in Cabinet /\ Pred(c) \in Cabinet /\ Succ(c) # c
  BY Neighbours
<1>2. /\ cable[Succ(c)] \in Seq(Frame) /\ Append(cable[Succ(c)], Eof) \in Seq(Frame)
      /\ <<>> \in Seq(Frame)
  BY <1>1, FrameTypes, AppendProperties DEF TypeOK
<1>3. cable' \in [Cabinet -> Seq(Frame)]
  BY <1>2 DEF Reboot, TypeOK
<1>4. tx' \in [Cabinet -> {"closed", "ready", "open", "broken"}]
  BY DEF Reboot, TypeOK
<1>5. ram' \in [Cabinet -> Memory]
  BY CleanMemory DEF Reboot, TypeOK
<1>6. /\ pc' = pc /\ fg' \in [Cabinet -> {0, 1}]
      /\ relay' \in [Cabinet -> BOOLEAN] /\ enable' \in [Cabinet -> BOOLEAN]
      /\ alive' \in [Cabinet -> 0 .. 2] /\ id' \in [Cabinet -> Int]
      /\ count' \in [Cabinet -> Int] /\ delay' \in [Cabinet -> 0 .. 2]
      /\ rx' \in [Cabinet -> BOOLEAN] /\ faults' \in Nat
  BY DEF Reboot, Reset, TypeOK
<1>7. timer' \in [Cabinet -> 0 .. StartTimer] /\ status' \in [Cabinet -> Int \X Int \X Int]
  BY StartTimerAssumption DEF Reboot, TypeOK
<1> QED BY <1>3, <1>4, <1>5, <1>6, <1>7 DEF TypeOK

LEMMA InitCommandType ==
  ASSUME TypeOK, NEW c \in Cabinet, InitCommand(c), faults' \in Nat
  PROVE  TypeOK'
<1>1. ram' \in [Cabinet -> Memory]
  BY CleanMemory DEF InitCommand, TypeOK
<1>2. /\ pc' \in [Cabinet -> {"idle", "numbering", "exchange", "poll"}]
      /\ status' \in [Cabinet -> Int \X Int \X Int]
  BY DEF InitCommand, BeginWaiting, TypeOK
<1>3. timer' \in [Cabinet -> 0 .. StartTimer]
  BY StartTimerAssumption DEF InitCommand, TypeOK
<1>4. tx' \in [Cabinet -> {"closed", "ready", "open", "broken"}] /\ rx' \in [Cabinet -> BOOLEAN]
  BY DEF InitCommand, BeginWaiting, poll, TypeOK
<1>5. /\ fg' = fg /\ delay' = delay /\ cable' = cable
      /\ relay' \in [Cabinet -> BOOLEAN] /\ enable' \in [Cabinet -> BOOLEAN]
      /\ alive' \in [Cabinet -> 0 .. 2] /\ id' \in [Cabinet -> Int]
      /\ count' \in [Cabinet -> Int]
  BY DEF InitCommand, TypeOK
<1> QED BY <1>1, <1>2, <1>3, <1>4, <1>5 DEF TypeOK

LEMMA ResetType ==
  ASSUME TypeOK, [ResetNext]_vars
  PROVE  TypeOK'
<1>1. CASE UNCHANGED vars
  BY <1>1, StepType
<1>2. ASSUME NEW c \in Cabinet, Ring(c) PROVE TypeOK'
  BY <1>2, RingSteps, StepType
<1>3. ASSUME NEW c \in Cabinet, ResetCommand(c) PROVE TypeOK'
  <2>1. /\ pc' = pc /\ relay' = relay /\ UNCHANGED board /\ UNCHANGED line
        /\ enable' \in [Cabinet -> BOOLEAN] /\ fg' \in [Cabinet -> {0, 1}]
    BY <1>3 DEF ResetCommand, TypeOK
  <2>2. faults' \in Nat
    BY <1>3 DEF ResetCommand, Reset, TypeOK
  <2> QED BY <2>1, <2>2 DEF TypeOK, board, line
<1>4. ASSUME NEW c \in Cabinet, InitAgain(c) PROVE TypeOK'
  <2>1. faults' \in Nat
    BY <1>4 DEF InitAgain, Reset, TypeOK
  <2> QED BY <1>4, <2>1, InitCommandType DEF InitAgain
<1> QED BY <1>1, <1>2, <1>3, <1>4, RebootType DEF ResetNext

(* Registers, memory and cables keep their types over every reset.         *)
THEOREM ResetTypes == ResetSpec => []TypeOK
<1>1. TypeOK /\ [ResetNext]_vars => TypeOK'
  BY ResetType
<1> QED BY InitType, <1>1, PTL DEF ResetSpec

-----------------------------------------------------------------------------
(***************************************************************************)
(* The numbers.  Passed(c) racers are between the master and the cable     *)
(* into c, the master with them; Left(c) are from c on.  A token carries   *)
(* the number that belongs to its cable, whether it was made before a      *)
(* reset or after it; what a master is told of stays right while it waits. *)
(* A relay whose game has not said so yet has no cable out.                *)
(***************************************************************************)
Passed(c) == IF c = 0 THEN Cardinality(Racers) ELSE Place(c)
Left(c)   == Cardinality({d \in Racers : c <= d})

TokenRight(c, f) ==
  /\ f.idx = LinkId   => f.a = Passed(c)
  /\ f.idx = LinkSize => f.b = Cardinality(Racers) /\ (c # 0 => f.a = 1 + Left(c))
TokensRight == \A c \in Cabinet : \A i \in 1 .. Len(cable[c]) : TokenRight(c, cable[c][i])

BoardRight(c) ==
  /\ fg[c] = 1 => c = 0
  /\ enable[c] => (c = 0 => fg[c] = 1) /\ (c \notin Relays => ~relay[c])
  /\ ~enable[c] => pc[c] \in {"idle", "poll"}
  /\ pc[c] = "numbering" => alive[c] = 0
  /\ pc[c] \in {"exchange", "poll"} => alive[c] # 0
  /\ id[c] <= N /\ count[c] <= N
  /\ c \in Racers \ {0} /\ alive[c] # 0 => id[c] = Number(c) /\ count[c] = Cardinality(Racers)
  /\ c = 0 /\ enable[c] /\ alive[c] = 0 /\ timer[c] = 0 => count[c] = Cardinality(Racers)
Prompt(c) == c \in Relays /\ tx[c] \in {"ready", "open"} => enable[c] /\ relay[c]

ResetInv == TokensRight /\ \A c \in Cabinet : BoardRight(c) /\ Prompt(c)
LEMMA RacerCounts ==
  /\ IsFiniteSet(Racers) /\ 0 \in Racers
  /\ Cardinality(Racers) \in Nat /\ Cardinality(Racers) <= N
<1>1. IsFiniteSet(Cabinet) /\ Cardinality(Cabinet) = N
  BY NAssumption, FS_Interval DEF Cabinet
<1>2. Racers \subseteq Cabinet /\ 0 \in Racers
  BY NAssumption, RelaysAssumption DEF Racers, Cabinet
<1> QED BY <1>1, <1>2, FS_Subset, FS_CardinalityType

(* One cabinet further on, a racer is counted.                             *)
LEMMA OneOn ==
  ASSUME NEW c \in Cabinet
  PROVE  /\ Passed(Succ(c)) = Place(c) + IF c \in Racers THEN 1 ELSE 0
         /\ c # 0 /\ Succ(c) # 0 => Left(c) = Left(Succ(c)) + IF c \in Racers THEN 1 ELSE 0
         /\ c # 0 => 1 + Left(c) <= N
         /\ Place(0) = 0 /\ 1 + Left(1) = Cardinality(Racers)
         /\ Place(c) \in Nat /\ Left(c) \in Nat /\ Left(Succ(c)) \in Nat
<1> DEFINE Below(x) == {d \in Racers : d < x}
           Above(x) == {d \in Racers : x <= d}
<1>1. ASSUME NEW x \in Nat
      PROVE  /\ IsFiniteSet(Below(x)) /\ Cardinality(Below(x)) \in Nat
             /\ IsFiniteSet(Above(x)) /\ Cardinality(Above(x)) \in Nat
  BY RacerCounts, FS_Subset, FS_CardinalityType
<1>2. c \in Nat /\ c <= N - 1 /\ N \in Nat /\ N >= 2 /\ \A d \in Racers : d \in Nat /\ d <= N - 1
  BY NAssumption DEF Cabinet, Racers
<1>3. ASSUME NEW x \in Nat
      PROVE  /\ Cardinality(Below(x + 1)) = Cardinality(Below(x)) + IF x \in Racers THEN 1 ELSE 0
             /\ Cardinality(Above(x)) = Cardinality(Above(x + 1)) + IF x \in Racers THEN 1 ELSE 0
  <2>1. CASE x \in Racers
    <3>0. \A d \in Racers : /\ d < x + 1 <=> d < x \/ d = x
                            /\ x <= d <=> x + 1 <= d \/ d = x
                            /\ ~(x < x) /\ ~(x + 1 <= x)
      BY <1>2
    <3>1. Below(x + 1) = Below(x) \cup {x} /\ x \notin Below(x)
      BY <2>1, <3>0, Zenon
    <3>2. Above(x) = Above(x + 1) \cup {x} /\ x \notin Above(x + 1)
      BY <2>1, <3>0, Zenon
    <3> HIDE DEF Below, Above
    <3>3. x + 1 \in Nat
      OBVIOUS
    <3>4. Cardinality(Below(x + 1)) = Cardinality(Below(x)) + 1
      BY <1>1, <3>1, FS_AddElement
    <3>5. Cardinality(Above(x)) = Cardinality(Above(x + 1)) + 1
      BY <1>1, <3>2, <3>3, FS_AddElement
    <3> QED BY <2>1, <3>4, <3>5
  <2>2. CASE x \notin Racers
    <3>1. Below(x + 1) = Below(x) /\ Above(x) = Above(x + 1)
      BY <1>2, <2>2
    <3> HIDE DEF Below, Above
    <3> QED BY <1>1, <2>2, <3>1
  <2> QED BY <2>1, <2>2
<1>4. Below(0) = {} /\ Above(0) = Racers /\ Below(N) = Racers
  BY <1>2
<1>5. Cardinality(Below(0)) = 0
  BY <1>4, FS_EmptySet
<1>6. Place(c) = Cardinality(Below(c)) /\ Place(0) = Cardinality(Below(0))
      /\ \A x : Left(x) = Cardinality(Above(x))
  BY DEF Place, Left
<1>7. Passed(Succ(c)) = Cardinality(Below(c + 1))
  <2>1. CASE c = N - 1
    BY <1>2, <1>4, <2>1 DEF Succ, Passed
  <2>2. CASE c # N - 1
    BY <1>2, <2>2 DEF Succ, Passed, Place
  <2> QED BY <2>1, <2>2
<1>8. Succ(c) # 0 => Succ(c) = c + 1
  BY DEF Succ
<1>9. Succ(c) \in Nat
  BY <1>2 DEF Succ
<1>10. c # 0 => 1 + Cardinality(Above(c)) <= N
  <2> SUFFICES ASSUME c # 0 PROVE 1 + Cardinality(Above(c)) <= N
    OBVIOUS
  <2>1. Above(c) \subseteq 1 .. N - 1
    BY <1>2
  <2>2. IsFiniteSet(1 .. N - 1) /\ Cardinality(1 .. N - 1) = N - 1
    BY <1>2, FS_Interval
  <2>3. PICK S, T : S = 1 .. N - 1 /\ T = Above(c)
    OBVIOUS
  <2>4. IsFiniteSet(S) /\ T \in SUBSET S
    BY <2>1, <2>2, <2>3
  <2>5. Cardinality(T) <= Cardinality(S)
    BY <2>4, FS_Subset
  <2>6. Cardinality(T) \in Nat /\ Cardinality(T) <= N - 1 /\ T = Above(c)
    BY <1>1, <1>2, <2>2, <2>3, <2>5
  <2> HIDE DEF Above
  <2> QED BY <1>2, <2>6
<1>11. Cardinality(Racers) = Cardinality(Above(0 + 1)) + 1
  BY <1>3, <1>4, RacerCounts
<1> HIDE DEF Below, Above
<1> QED BY <1>1, <1>2, <1>3, <1>5, <1>6, <1>7, <1>8, <1>9, <1>10, <1>11
-----------------------------------------------------------------------------
(***************************************************************************)
(* What a board of the ring sends is right for the next cable; one whose   *)
(* cable out is not open sends nothing.                                    *)
(***************************************************************************)
LEMMA Roles ==
  ASSUME TypeOK, ResetInv, NEW c \in Cabinet, pc[c] = "numbering"
  PROVE  /\ enable[c] /\ alive[c] = 0
         /\ is_master(c) <=> c = 0
         /\ c \in Racers \ {0} => is_slave(c)
         /\ c \notin Racers => c # 0 /\ (relay[c] => ~is_slave(c))
<1>1. BoardRight(c) /\ fg[c] \in {0, 1}
  BY DEF ResetInv, TypeOK
<1>2. c \notin Racers <=> c \in Relays
  BY DEF Racers
<1>3. 0 \in Racers
  BY RacerCounts
<1> QED BY <1>1, <1>2, <1>3 DEF BoardRight, is_master, is_slave

LEMMA HeadRight ==
  ASSUME TypeOK, ResetInv, NEW c \in Cabinet, FrameHere(c)
  PROVE  TokenRight(c, Head(cable[c])) /\ Head(cable[c]) \in Frame
  BY HeadFrame DEF ResetInv, TokensRight

LEMMA DataRight ==
  ASSUME NEW c, NEW f, f.idx \in Int, f.idx <= N \/ f.idx = Vsync
  PROVE  TokenRight(c, f)
<1>1. f.idx # LinkId /\ f.idx # LinkSize
  BY NAssumption DEF LinkId, LinkSize, Vsync
<1> QED BY <1>1 DEF TokenRight

LEMMA PassesRight ==
  ASSUME TypeOK, ResetInv, NEW c \in Cabinet, c \notin Racers => relay[c],
         NEW g, Passes(c, g)
  PROVE  TokenRight(Succ(c), g)
<1> PICK f : f = Head(cable[c])
  OBVIOUS
<1>1. ASSUME FrameHere(c) PROVE f \in Frame /\ TokenRight(c, f)
  BY <1>1, HeadRight
<1>2. id[c] \in Int /\ count[c] \in Int /\ id[c] <= N /\ count[c] <= N /\ timer[c] \in Int
  BY DEF TypeOK, ResetInv, BoardRight
<1>3. CASE PassesData(c, g)
  <2>1. f \in Frame /\ f.idx \in Int /\ f.idx <= N
    <3>1. f \in Frame /\ f.idx <= count[c]
      BY <1>1, <1>3 DEF PassesData
    <3> QED BY <1>2, <3>1, NAssumption DEF Frame
  <2>2. g.idx = id[c] \/ g.idx = f.idx
    BY <1>3 DEF PassesData, RaceData
  <2> QED BY <1>2, <2>1, <2>2, DataRight
<1>4. CASE PassesToken(c, g)
  <2>1. /\ f \in Frame /\ TokenRight(c, f) /\ f.a \in Int /\ f.b \in Int
        /\ ~is_master(c) /\ pc[c] = "numbering"
    BY <1>1, <1>4 DEF PassesToken, Frame
  <2>2. c # 0 /\ (c \in Racers <=> is_slave(c))
    BY <2>1, Roles
  <2>3. CASE f.idx = LinkId /\ g = CountIn(c, f)
    <3>1. g.idx = LinkId /\ g.a = f.a + IF c \in Racers THEN 1 ELSE 0
      BY <2>1, <2>2, <2>3 DEF CountIn, Frame
    <3>2. f.a = Place(c)
      BY <2>1, <2>2, <2>3 DEF TokenRight, Passed
    <3>3. g.a = Passed(Succ(c))
      BY <3>1, <3>2, OneOn
    <3> QED BY <3>1, <3>3 DEF TokenRight, LinkId, LinkSize
  <2>4. CASE f.idx = LinkSize /\ g = HandDown(c, f)
    <3>1. g.idx = LinkSize /\ g.b = f.b /\ g.a = f.a - IF c \in Racers THEN 1 ELSE 0
      BY <2>1, <2>2, <2>4 DEF HandDown, Frame
    <3>2. f.a = 1 + Left(c) /\ f.b = Cardinality(Racers)
      BY <2>1, <2>2, <2>4 DEF TokenRight
    <3>3. Succ(c) # 0 => g.a = 1 + Left(Succ(c))
      BY <2>2, <3>1, <3>2, OneOn
    <3> QED BY <3>1, <3>2, <3>3 DEF TokenRight, LinkId, LinkSize
  <2> QED BY <1>4, <2>3, <2>4 DEF PassesToken
<1>5. CASE MakesToken(c, g)
  <2>1. /\ c = 0 /\ Succ(c) = 1 /\ enable[c] /\ alive[c] = 0 /\ BoardRight(c)
        /\ c \in Racers
    BY <1>5, Roles, RacerCounts, NAssumption DEF MakesToken, Succ, ResetInv
  <2>2. CASE g = Token(LinkId, 1, 0)
    <3>1. g.idx = LinkId /\ g.a = 1
      BY <2>2 DEF Token
    <3>2. Passed(1) = 1
      BY <2>1, OneOn
    <3> QED BY <2>1, <3>1, <3>2 DEF TokenRight, LinkId, LinkSize
  <2>3. CASE g = Token(LinkSize, count[c], count[c]) /\ timer[c] = 0
    <3>1. g.idx = LinkSize /\ g.a = count[c] /\ g.b = count[c]
      BY <2>3 DEF Token
    <3>2. count[c] = Cardinality(Racers) /\ 1 + Left(1) = Cardinality(Racers)
      BY <2>1, <2>3, OneOn DEF BoardRight
    <3> QED BY <2>1, <3>1, <3>2 DEF TokenRight, LinkId, LinkSize
  <2> QED BY <1>5, <2>2, <2>3 DEF MakesToken
<1> QED BY <1>3, <1>4, <1>5 DEF Passes

LEMMA Silent ==
  ASSUME TypeOK, NEW c \in Cabinet, tx[c] # "open",
         Game(c) \/ Tick(c) \/ Numbering(c) \/ Exchange(c) \/ Answer(c)
  PROVE  cable'[Succ(c)] = cable[Succ(c)]
<1>0. Succ(c) \in Cabinet /\ Succ(c) # c
  BY Neighbours
<1>1. ASSUME NEW in, NEW fs, NEW sent, send_frame(c, in, fs, sent)
      PROVE  cable'[Succ(c)] = cable[Succ(c)]
  BY <1>0, <1>1 DEF send_frame, TypeOK
<1>2. ASSUME NEW in, cable' = [cable EXCEPT ![c] = in]
      PROVE  cable'[Succ(c)] = cable[Succ(c)]
  BY <1>0, <1>2 DEF TypeOK
<1>3. CASE Game(c) \/ Tick(c) \/ Answer(c)
  BY <1>3 DEF Game, fg_w, WriteRelay, cn_w, InitCommand, fg_r, Tick, TickWaiting, TickUp,
              TickLost, Answer, line
<1>4. CASE Numbering(c)
  <2>1. CASE TakeLinkId(c) \/ TakeLinkSize(c)
    BY <1>1, <1>2, <2>1 DEF TakeLinkId, TakeLinkSize
  <2>2. CASE SendLinkId(c) \/ SendLinkSize(c)
    BY <1>1, <2>2 DEF SendLinkId, SendLinkSize
  <2>3. CASE DropEarly(c) \/ NumberingSlave(c) \/ NumberingCountdown(c)
    BY <1>2, <2>3 DEF DropEarly, NumberingSlave, NumberingCountdown
  <2> QED BY <1>4, <2>1, <2>2, <2>3 DEF Numbering
<1>5. CASE Exchange(c)
  <2>1. CASE TakeData(c)
    BY <1>1, <1>2, <2>1 DEF TakeData
  <2>2. CASE TakeVsync(c)
    BY <1>1, <1>2, <2>2 DEF TakeVsync
  <2>3. CASE EndExchange(c)
    BY <1>1, <2>3 DEF EndExchange
  <2>4. CASE DropLate(c) \/ EndLost(c)
    BY <1>2, <2>4 DEF DropLate, EndLost
  <2>5. CASE AwaitVsync(c) \/ SyncTimeout(c) \/ EndPoll(c)
    BY <2>5 DEF AwaitVsync, SyncTimeout, EndPoll, line
  <2> QED BY <1>5, <2>1, <2>2, <2>3, <2>4, <2>5 DEF Exchange
<1> QED BY <1>3, <1>4, <1>5
-----------------------------------------------------------------------------
(***************************************************************************)
(* What a step does to the board and to the cables out.                    *)
(***************************************************************************)
LEMMA InitBoard ==
  ASSUME TypeOK, NEW c \in Cabinet, BoardRight(c), InitCommand(c), pc[c] = "idle",
         c = 0 => fg[c] = 1
  PROVE  BoardRight(c)'
<1>1. /\ fg' = fg /\ enable'[c] /\ ~relay'[c] /\ alive'[c] = 0 /\ id'[c] = 0
      /\ count'[c] = 0 /\ timer'[c] = StartTimer /\ pc'[c] \in {"idle", "numbering"}
  BY DEF InitCommand, BeginWaiting, TypeOK
<1>2. StartTimer # 0 /\ 0 <= N
  BY StartTimerAssumption, NAssumption
<1> QED BY <1>1, <1>2 DEF BoardRight

LEMMA NumberingBoard ==
  ASSUME TypeOK, ResetInv, NEW c \in Cabinet, Numbering(c)
  PROVE  BoardRight(c)'
<1>i. BoardRight(c) /\ id[c] \in Int /\ count[c] \in Int /\ timer[c] \in Int
  BY DEF ResetInv, TypeOK
<1>1. /\ pc[c] = "numbering" /\ enable[c] /\ alive[c] = 0
      /\ fg' = fg /\ enable' = enable /\ relay' = relay
  BY <1>i DEF Numbering, TakeLinkId, TakeLinkSize, DropEarly, NumberingSlave, NumberingCountdown,
              SendLinkId, SendLinkSize, game, BoardRight
<1>2. (is_master(c) <=> c = 0) /\ (c \in Racers \ {0} => is_slave(c))
  BY <1>1, Roles
<1>3. CASE TakeLinkId(c)
  <2> PICK f : f = Head(cable[c])
    OBVIOUS
  <2>1. f.idx = LinkId /\ f.a = Passed(c) /\ pc' = pc /\ alive' = alive
    BY <1>3, HeadRight DEF TakeLinkId, TokenRight
  <2>2. CASE c = 0
    <3>1. id'[c] = 1 /\ count'[c] = f.a
      BY <1>2, <1>3, <2>2 DEF TakeLinkId, TypeOK
    <3>2. f.a = Cardinality(Racers) /\ f.a <= N
      BY <2>1, <2>2, RacerCounts DEF Passed
    <3> QED BY <1>i, <1>1, <2>1, <2>2, <3>1, <3>2, NAssumption DEF BoardRight
  <2>3. CASE c # 0
    <3>1. id' = id /\ count' = count
      BY <1>2, <1>3, <2>3 DEF TakeLinkId
    <3> QED BY <1>i, <1>1, <2>1, <2>3, <3>1 DEF BoardRight
  <2> QED BY <2>2, <2>3
<1>4. CASE TakeLinkSize(c)
  <2> PICK f : f = Head(cable[c])
    OBVIOUS
  <2>1. f.idx = LinkSize /\ TokenRight(c, f) /\ pc'[c] = "exchange" /\ alive'[c] = 1
    BY <1>4, HeadRight DEF TakeLinkSize, TypeOK
  <2>2. CASE c = 0
    <3>1. id' = id /\ count' = count
      BY <1>2, <1>4, <2>2 DEF TakeLinkSize
    <3> QED BY <1>i, <1>1, <2>1, <2>2, <3>1 DEF BoardRight
  <2>3. CASE c # 0
    <3>1. /\ id'[c] = (IF is_slave(c) THEN f.a ELSE 0) /\ count'[c] = f.b
          /\ f.a = 1 + Left(c) /\ f.b = Cardinality(Racers)
      BY <1>2, <1>4, <2>1, <2>3 DEF TakeLinkSize, TokenRight, TypeOK
    <3>2. id'[c] <= N /\ count'[c] <= N
      BY <2>3, <3>1, RacerCounts, OneOn, NAssumption
    <3>3. c \in Racers => id'[c] = Number(c)
      <4> SUFFICES ASSUME c \in Racers PROVE id'[c] = Number(c)
        OBVIOUS
      <4>1. c \notin Relays
        BY DEF Racers
      <4>2. Number(c) = 1 + Left(c)
        BY <2>3, <4>1 DEF Number, Left
      <4> QED BY <1>2, <2>3, <3>1, <4>2
    <3> QED BY <1>i, <1>1, <2>1, <2>3, <3>1, <3>2, <3>3 DEF BoardRight
  <2> QED BY <2>2, <2>3
<1>5. CASE DropEarly(c) \/ NumberingSlave(c) \/ SendLinkId(c)
  <2>1. /\ pc'[c] \in {pc[c], "idle"} /\ alive' = alive /\ id' = id /\ count' = count
        /\ timer' = timer
    BY <1>5 DEF DropEarly, NumberingSlave, SendLinkId, board, TypeOK
  <2> QED BY <1>i, <1>1, <2>1 DEF BoardRight
<1>6. CASE NumberingCountdown(c)
  <2>1. /\ pc'[c] = "idle" /\ alive' = alive /\ id' = id /\ count' = count
        /\ timer[c] > 1 /\ timer'[c] = timer[c] - 1
    BY <1>6 DEF NumberingCountdown, CountingDown, TypeOK
  <2>2. timer'[c] # 0
    BY <1>i, <2>1
  <2> QED BY <1>i, <1>1, <2>1, <2>2 DEF BoardRight
<1>7. CASE SendLinkSize(c)
  <2>1. pc'[c] = "exchange" /\ alive'[c] = 1 /\ id' = id /\ count' = count /\ is_master(c)
    BY <1>7 DEF SendLinkSize, UpOnceSent, TypeOK
  <2> QED BY <1>i, <1>1, <1>2, <2>1 DEF BoardRight
<1> QED BY <1>3, <1>4, <1>5, <1>6, <1>7 DEF Numbering

LEMMA RingBoard ==
  ASSUME TypeOK, ResetInv, NEW c \in Cabinet, Ring(c)
  PROVE  BoardRight(c)'
<1>i. BoardRight(c)
  BY DEF ResetInv
<1>1. CASE fg_w(c)
  <2>1. /\ c = 0 /\ fg'[c] = 1 /\ pc' = pc /\ relay' = relay /\ enable' = enable
        /\ UNCHANGED <<alive, id, count, timer>>
    BY <1>1 DEF fg_w, board, TypeOK
  <2> QED BY <1>i, <2>1 DEF BoardRight
<1>2. CASE WriteRelay(c)
  BY <1>i, <1>2 DEF WriteRelay, board, BoardRight
<1>3. CASE StartBoard(c)
  BY <1>i, <1>3, InitBoard DEF StartBoard, cn_w
<1>4. CASE fg_r(c)
  <2>1. /\ UNCHANGED <<fg, relay, enable, alive, id, count, timer>>
        /\ pc'[c] = pc[c] \/ (pc'[c] = "poll" /\ alive[c] = 1)
    BY <1>4 DEF fg_r, game, TypeOK
  <2> QED BY <1>i, <2>1 DEF BoardRight
<1>5. CASE Tick(c)
  <2>1. /\ UNCHANGED <<fg, relay, enable, alive, id, count, timer>> /\ enable[c]
        /\ \/ pc'[c] = pc[c]
           \/ pc'[c] \in {"idle", "numbering"} /\ alive[c] = 0
           \/ pc'[c] = "exchange" /\ alive[c] = 1
    BY <1>5 DEF Tick, TickWaiting, TickUp, TickLost, BeginWaiting, game, board, TypeOK
  <2> QED BY <1>i, <2>1 DEF BoardRight
<1>6. CASE Exchange(c)
  <2>1. /\ pc[c] \in {"exchange", "poll"} /\ pc'[c] \in {"idle", pc[c]}
        /\ UNCHANGED <<fg, relay, enable, id, count>> /\ alive'[c] \in {alive[c], 2}
    BY <1>6 DEF Exchange, TakeData, TakeVsync, DropLate, AwaitVsync, SyncTimeout, EndLost,
                EndPoll, EndExchange, KeepOrLose, game, board, TypeOK
  <2> QED BY <1>i, <2>1 DEF BoardRight
<1>7. CASE AnswerPrompt(c)
  BY <1>i, <1>7 DEF AnswerPrompt, Answer, game, board, BoardRight
<1> QED BY <1>1, <1>2, <1>3, <1>4, <1>5, <1>6, <1>7, NumberingBoard DEF Ring

(* A cable out of c is answered, taken up, found broken; no other.         *)
LEMMA RingCables ==
  ASSUME TypeOK, ResetInv, NEW c \in Cabinet, Ring(c), NEW d \in Cabinet
  PROVE  Prompt(d)'
<1>i. Prompt(c) /\ Prompt(d)
  BY DEF ResetInv
<1>1. /\ \A e \in Cabinet \ {c} : tx'[e] = tx[e]
      /\ tx'[c] \in {"ready", "open"} => tx[c] \in {"ready", "open"} \/ AnswerPrompt(c)
  <2>1. ASSUME NEW in, NEW fs, NEW sent, send_frame(c, in, fs, sent)
        PROVE  /\ \A e \in Cabinet \ {c} : tx'[e] = tx[e]
               /\ tx'[c] \in {"ready", "open"} => tx[c] \in {"ready", "open"}
    BY <2>1 DEF send_frame, TypeOK
  <2>2. ASSUME poll(c)
        PROVE  /\ \A e \in Cabinet \ {c} : tx'[e] = tx[e]
               /\ tx'[c] \in {"ready", "open"} => tx[c] \in {"ready", "open"}
    BY <2>2 DEF poll, TypeOK
  <2>3. CASE fg_w(c) \/ WriteRelay(c) \/ StartBoard(c) \/ fg_r(c) \/ Tick(c)
    BY <2>2, <2>3 DEF fg_w, WriteRelay, StartBoard, cn_w, InitCommand, BeginWaiting, fg_r, Tick,
                      TickWaiting, TickUp, TickLost, line
  <2>4. CASE Numbering(c)
    <3>1. CASE TakeLinkId(c) \/ TakeLinkSize(c)
      BY <2>1, <3>1 DEF TakeLinkId, TakeLinkSize
    <3>2. CASE SendLinkId(c) \/ SendLinkSize(c)
      BY <2>1, <3>2 DEF SendLinkId, SendLinkSize
    <3>3. CASE DropEarly(c) \/ NumberingSlave(c) \/ NumberingCountdown(c)
      BY <3>3 DEF DropEarly, NumberingSlave, NumberingCountdown
    <3> QED BY <2>4, <3>1, <3>2, <3>3 DEF Numbering
  <2>5. CASE Exchange(c)
    <3>1. CASE TakeData(c)
      BY <2>1, <3>1 DEF TakeData
    <3>2. CASE TakeVsync(c)
      BY <2>1, <3>2 DEF TakeVsync
    <3>3. CASE EndExchange(c)
      BY <2>1, <3>3 DEF EndExchange
    <3>4. CASE AwaitVsync(c)
      BY <2>2, <3>4 DEF AwaitVsync
    <3>5. CASE DropLate(c) \/ EndLost(c) \/ SyncTimeout(c) \/ EndPoll(c)
      BY <3>5 DEF DropLate, EndLost, SyncTimeout, EndPoll, line
    <3> QED BY <2>5, <3>1, <3>2, <3>3, <3>4, <3>5 DEF Exchange
  <2>6. CASE AnswerPrompt(c)
    BY <2>6 DEF AnswerPrompt, Answer, TypeOK
  <2> QED BY <2>3, <2>4, <2>5, <2>6 DEF Ring
<1>2. CASE d # c
  <2>1. enable'[d] = enable[d] /\ relay'[d] = relay[d] /\ tx'[d] = tx[d]
    BY <1>1, <1>2, RingSteps, OneBoard DEF OthersSame
  <2> QED BY <1>i, <2>1 DEF Prompt
<1>3. CASE d = c
  <2>1. ASSUME c \in Relays, enable[c], relay[c] PROVE enable'[c] /\ relay'[c]
    BY <2>1 DEF Ring, fg_w, WriteRelay, StartBoard, cn_w, fg_r, Tick, TickWaiting, TickUp, TickLost,
                Numbering, TakeLinkId, TakeLinkSize, DropEarly, NumberingSlave, NumberingCountdown,
                SendLinkId, SendLinkSize, Exchange, TakeData, TakeVsync, DropLate, AwaitVsync,
                SyncTimeout, EndLost, EndPoll, EndExchange, AnswerPrompt, Answer, game, TypeOK
  <2>2. c \in Relays /\ AnswerPrompt(c) => enable[c] /\ relay[c]
    BY DEF AnswerPrompt
  <2> QED BY <1>i, <1>1, <1>3, <2>1, <2>2 DEF Prompt
<1> QED BY <1>2, <1>3
-----------------------------------------------------------------------------
LEMMA ResetStep ==
  ASSUME TypeOK, ResetInv, NEW c \in Cabinet, NEW fs, From(c, fs), OthersSame(c),
         BoardRight(c)', \A d \in Cabinet : Prompt(d)',
         \A k \in 1 .. Len(fs) : TokenRight(Succ(c), fs[k])
  PROVE  ResetInv'
<1>1. \A d \in Cabinet : BoardRight(d)'
  <2>1. ASSUME NEW d \in Cabinet \ {c} PROVE BoardRight(d)'
    BY DEF ResetInv, BoardRight, OthersSame
  <2> QED BY <2>1
<1>2. ASSUME NEW d \in Cabinet, NEW i \in 1 .. Len(cable'[d])
      PROVE  TokenRight(d, cable'[d][i])
  <2>1. CASE \E j \in 1 .. Len(cable[d]) : cable'[d][i] = cable[d][j]
    BY <2>1 DEF ResetInv, TokensRight
  <2>2. CASE cable'[d][i] = Eof
    BY <2>2 DEF TokenRight, Eof, LinkId, LinkSize
  <2>3. CASE d = Succ(c) /\ \E k \in 1 .. Len(fs) : cable'[d][i] = fs[k]
    BY <2>3
  <2> QED BY <2>1, <2>2, <2>3, FromFrames
<1>3. TokensRight'
  BY <1>2 DEF TokensRight, TokenRight
<1> QED BY <1>1, <1>3 DEF ResetInv

LEMMA RingKeeps ==
  ASSUME TypeOK, ResetInv, NEW c \in Cabinet, Ring(c)
  PROVE  ResetInv'
<1>0. /\ OthersSame(c) /\ BoardRight(c)' /\ \A d \in Cabinet : Prompt(d)'
      /\ PlainStep(c) \/ TakeVsync(c) \/ EndExchange(c)
  BY RingSteps, OneBoard, RingBoard, RingCables DEF PlainStep, Exchange
<1>1. CASE c \notin Racers /\ ~relay[c]
  <2>1. tx[c] # "open"
    BY <1>1 DEF ResetInv, Prompt, Racers
  <2>2. cable'[Succ(c)] = cable[Succ(c)]
    BY <2>1, Silent DEF Ring, StartBoard, AnswerPrompt, Game
  <2>3. PICK fs : From(c, fs)
    BY <1>0, PlainSends, VsyncSends, EndSends
  <2>4. From(c, <<>>)
    <3>1. <<>> \in Seq(Frame)
      BY EmptySeq
    <3> QED BY <2>2, <2>3, <3>1 DEF From
  <2> QED BY <1>0, <2>4, ResetStep
<1>2. CASE c \notin Racers => relay[c]
  <2>1. CASE PlainStep(c)
    <3> PICK fs : From(c, fs) /\ \A k \in 1 .. Len(fs) : Passes(c, fs[k])
      BY <2>1, PlainSends
    <3>1. \A k \in 1 .. Len(fs) : TokenRight(Succ(c), fs[k])
      BY <1>2, PassesRight
    <3> QED BY <1>0, <3>1, ResetStep
  <2>2. CASE TakeVsync(c)
    <3> PICK fs : From(c, fs) /\ \A k \in 1 .. Len(fs) : fs[k] = Head(cable[c])
      BY <2>2, VsyncSends
    <3>1. Head(cable[c]).idx = Vsync
      BY <2>2 DEF TakeVsync
    <3>2. TokenRight(Succ(c), Head(cable[c]))
      BY <3>1, DataRight DEF Vsync
    <3>3. \A k \in 1 .. Len(fs) : TokenRight(Succ(c), fs[k])
      BY <3>2
    <3> QED BY <1>0, <3>3, ResetStep
  <2>3. CASE EndExchange(c)
    <3> PICK g, v : g = RaceData(id[c], ram[c]) /\ v = Token(Vsync, 1, 0)
      OBVIOUS
    <3> PICK fs : From(c, fs) /\ (fs = <<>> \/ fs = <<g, v>>)
      BY <2>3, EndSends
    <3>1. v.idx = Vsync /\ g.idx = id[c] /\ id[c] \in Int /\ id[c] <= N
      BY DEF Token, RaceData, ResetInv, BoardRight, TypeOK
    <3>2. TokenRight(Succ(c), v) /\ TokenRight(Succ(c), g)
      BY <3>1, DataRight DEF Vsync
    <3>3. \A k \in 1 .. Len(fs) : TokenRight(Succ(c), fs[k])
      BY <3>2
    <3> QED BY <1>0, <3>3, ResetStep
  <2> QED BY <1>0, <2>1, <2>2, <2>3
<1> QED BY <1>1, <1>2

(* A new board is as at the start; the next cabinet finds the end of the   *)
(* stream behind what was sent, the one before has no connection.          *)
LEMMA RebootKeeps ==
  ASSUME TypeOK, ResetInv, NEW c \in Cabinet, Reboot(c)
  PROVE  ResetInv'
<1>1. OthersSame(c)
  BY DEF Reboot, OthersSame, TypeOK
<1>2. BoardRight(c)'
  <2>1. /\ pc'[c] = "idle" /\ fg'[c] = 0 /\ ~enable'[c] /\ alive'[c] = 0 /\ id'[c] = 0
        /\ count'[c] = 0
    BY DEF Reboot, Reset, TypeOK
  <2> QED BY <2>1, NAssumption DEF BoardRight
<1>3. ASSUME NEW d \in Cabinet PROVE Prompt(d)'
  <2>1. Prompt(d)
    BY DEF ResetInv
  <2>2. tx'[d] \in {"ready", "open"} => d # c /\ tx'[d] = tx[d]
    BY DEF Reboot, TypeOK
  <2>3. d # c => enable'[d] = enable[d] /\ relay'[d] = relay[d]
    BY <1>1 DEF OthersSame
  <2> QED BY <2>1, <2>2, <2>3 DEF Prompt
<1>4. From(c, <<Eof>>)
  <2>1. Succ(c) \in Cabinet /\ Succ(c) # c /\ cable[Succ(c)] \in Seq(Frame) /\ Eof \in Frame
    BY Neighbours, FrameTypes DEF TypeOK
  <2>2. Append(cable[Succ(c)], Eof) = cable[Succ(c)] \o <<Eof>>
    BY <2>1
  <2>3. <<Eof>> \in Seq(Frame)
    BY <2>1
  <2>4. /\ cable'[c] = <<>> /\ \A d \in Cabinet \ {c, Succ(c)} : cable'[d] = cable[d]
        /\ cable'[Succ(c)] \in {cable[Succ(c)], Append(cable[Succ(c)], Eof)}
    BY <2>1 DEF Reboot, TypeOK
  <2> QED BY <2>2, <2>3, <2>4 DEF From
<1>5. \A k \in 1 .. Len(<<Eof>>) : TokenRight(Succ(c), <<Eof>>[k])
  <2>1. TokenRight(Succ(c), Eof)
    BY DEF TokenRight, Eof, LinkId, LinkSize
  <2> QED BY <2>1
<1> QED BY <1>1, <1>2, <1>3, <1>4, <1>5, ResetStep

(* The two commands leave the cables alone.                                *)
LEMMA CommandKeeps ==
  ASSUME TypeOK, ResetInv, NEW c \in Cabinet, ResetCommand(c) \/ InitAgain(c)
  PROVE  ResetInv'
<1>i. BoardRight(c) /\ \A d \in Cabinet : Prompt(d)
  BY DEF ResetInv
<1>0. c \notin Relays /\ pc[c] = "idle" /\ enable[c] /\ cable' = cable
  BY DEF ResetCommand, InitAgain, Reset, InitCommand, line
<1>1. OthersSame(c)
  <2>1. CASE ResetCommand(c)
    BY <2>1 DEF ResetCommand, OthersSame, board, TypeOK
  <2>2. CASE InitAgain(c)
    BY <2>2 DEF InitAgain, InitCommand, BeginWaiting, OthersSame, TypeOK
  <2> QED BY <2>1, <2>2
<1>2. BoardRight(c)'
  <2>1. CASE ResetCommand(c)
    <3>1. /\ fg'[c] = 0 /\ ~enable'[c] /\ UNCHANGED <<pc, relay, alive, id, count, timer>>
      BY <2>1 DEF ResetCommand, board, TypeOK
    <3> QED BY <1>i, <1>0, <3>1 DEF BoardRight
  <2>2. CASE InitAgain(c)
    <3>1. c = 0 => fg[c] = 1
      BY <1>i, <1>0 DEF BoardRight
    <3> QED BY <1>i, <1>0, <2>2, <3>1, InitBoard DEF InitAgain
  <2> QED BY <2>1, <2>2
<1>3. ASSUME NEW d \in Cabinet PROVE Prompt(d)'
  <2>1. CASE d = c
    BY <1>0, <2>1 DEF Prompt
  <2>2. CASE d # c
    <3>1. enable'[d] = enable[d] /\ relay'[d] = relay[d]
      BY <1>1, <2>2 DEF OthersSame
    <3>2. tx'[d] = tx[d]
      <4>1. CASE ResetCommand(c)
        BY <4>1 DEF ResetCommand, line
      <4>2. CASE InitAgain(c)
        BY <2>2, <4>2 DEF InitAgain, InitCommand, BeginWaiting, poll, TypeOK
      <4> QED BY <4>1, <4>2
    <3> QED BY <1>i, <3>1, <3>2 DEF Prompt
  <2> QED BY <2>1, <2>2
<1>4. From(c, <<>>)
  BY <1>0, SameFrom
<1> QED BY <1>1, <1>2, <1>3, <1>4, ResetStep

LEMMA InitResets == Init => ResetInv
  BY NAssumption DEF Init, ResetInv, TokensRight, BoardRight, Prompt

LEMMA NextResets ==
  ASSUME TypeOK, ResetInv, [ResetNext]_vars
  PROVE  ResetInv'
<1>1. CASE UNCHANGED vars
  BY <1>1 DEF vars, game, board, line, ResetInv, TokensRight, TokenRight, BoardRight, Prompt
<1> QED BY <1>1, RingKeeps, RebootKeeps, CommandKeeps DEF ResetNext

(* Every slave that is up has the number of its place and the right count, *)
(* whoever is reset or told to begin again while tokens are on the cables, *)
(* for any number of cabinets and prompt relays.                           *)
THEOREM SlavesNumberedOverResets == ResetSpec => []SlavesNumbered
<1>1. TypeOK /\ ResetInv /\ [ResetNext]_vars => TypeOK' /\ ResetInv'
  BY ResetType, NextResets
<1>2. ResetInv => SlavesNumbered
  <2>1. Racers \subseteq Cabinet
    BY DEF Racers
  <2> QED BY <2>1 DEF ResetInv, BoardRight, SlavesNumbered
<1> QED BY InitType, InitResets, <1>1, <1>2, PTL DEF ResetSpec
=============================================================================

------------------------- MODULE NativeAudioProofs -------------------------
(***************************************************************************)
(* The native audio queue, for any size of it, any modulus of its counters *)
(* that the size divides, and any bounds.  The counters wrap, so the proof *)
(* speaks of what they count: sent and got are the bytes of the game that  *)
(* write_ and read_ stand for.  All that wraps is told by the lemmas on %. *)
(***************************************************************************)
EXTENDS NativeAudio, SequenceTheorems, TLAPS

(* The bytes the game has made that are in the queue, by their number:     *)
(* those of the packet that is being written follow those that are sent.   *)
Written(sent) == sent + (IF m = "fill" THEN filled ELSE 0)
Queued(sent, got) ==
  \A k \in got + 1 .. Written(sent) : queue[(k - 1) % K] = Byte(k)

(* sent and got are what write_ and read_ would be if they did not wrap.   *)
CountersFit(sent, got) ==
  /\ sent \in ends /\ \A k \in ends : k <= sent
  /\ write = sent % M /\ read = got % M
  /\ got <= Len(heard) /\ Len(heard) <= sent /\ sent - got <= K

(* What main has made is sent, but for the packet it is sending, which has *)
(* its room; once one is refused no more is made until the next game.      *)
Sending(at) == at \in {"load", "fill", "refused"}
PacketFits(sent, got) ==
  /\ sent <= made
  /\ game # 0 /\ ~fault => made = sent + (IF Sending(m) THEN size ELSE 0)
  /\ m = "fill" => filled <= size /\ (sent + size) - got <= K

(* The callback's copies of the counters.                                  *)
CopiesFit(sent, got) ==
  /\ c = "receive" => /\ ~failed /\ cread = Len(heard) % M
                      /\ \E w \in ends : cwrite = w % M /\ Len(heard) <= w
  /\ c # "receive" /\ ~failed => got = Len(heard)
  /\ c = "render" /\ ~failed => Len(heard) \in ends

(* The game, its stream and the moments without one.                       *)
GameFits ==
  /\ game # 0 <=> stream # "none"
  /\ m = "open" => stream = "none" /\ ~fault /\ games < MaxGames
  /\ stream = "none" => c = "idle"
  /\ fault => inLauncher
  /\ m = "frame" \/ Sending(m) => game # 0 /\ ~inLauncher

Fits(sent, got) ==
  CountersFit(sent, got) /\ PacketFits(sent, got) /\ CopiesFit(sent, got) /\ Queued(sent, got)

AudioInv ==
  TypeOK /\ GameFits /\ HeardAsMade /\ \E sent, got \in 0 .. MaxMade : Fits(sent, got)
-----------------------------------------------------------------------------
(* What % is: the arithmetic that wraps the counters and the queue.        *)
LEMMA ModDef ==
  ASSUME NEW a \in Int, NEW n \in Nat \ {0}
  PROVE  (a % n) \in 0 .. n - 1 /\ (a \div n) \in Int /\ a = (n * (a \div n)) + (a % n)
OBVIOUS

(* A remainder is the only one there is.                                   *)
LEMMA ModIs ==
  ASSUME NEW n \in Nat \ {0}, NEW q \in Int, NEW r \in 0 .. n - 1
  PROVE  ((n * q) + r) % n = r
<1> DEFINE a == (n * q) + r
           d == q - (a \div n)
<1>1. a \in Int  OBVIOUS
<1>2. (a % n) \in 0 .. n - 1 /\ (a \div n) \in Int /\ a = (n * (a \div n)) + (a % n)
  BY <1>1, ModDef
<1>3. d \in Int /\ n * d = (a % n) - r  BY <1>2
<1>4. n * d < n /\ n * d > -n  BY <1>2, <1>3
<1> HIDE DEF a, d
<1>5. d < 1  BY <1>3, <1>4
<1>6. d > -1  BY <1>3, <1>4
<1>7. d = 0  BY <1>3, <1>5, <1>6
<1>8. QED  BY <1>2, <1>3, <1>7 DEF a

(* A whole number of turns changes no remainder.                           *)
LEMMA ModSame ==
  ASSUME NEW n \in Nat \ {0}, NEW a \in Int, NEW b \in Int, NEW q \in Int, a = (n * q) + b
  PROVE  a % n = b % n
<1>1. b = (n * (b \div n)) + (b % n) /\ (b \div n) \in Int /\ (b % n) \in 0 .. n - 1  BY ModDef
<1>2. a = (n * (q + (b \div n))) + (b % n)
  <2>1. n \in Int  OBVIOUS
  <2>2. n * (q + (b \div n)) = (n * q) + (n * (b \div n))  BY <1>1, <2>1
  <2>3. QED  BY <1>1, <2>2
<1> DEFINE z == q + (b \div n)
           r == b % n
<1>3. z \in Int /\ r \in 0 .. n - 1 /\ a = (n * z) + r  BY <1>1, <1>2
<1> HIDE DEF z, r
<1>4. a % n = r  BY <1>3, ModIs
<1>5. QED  BY <1>4 DEF r

(* A counter that has wrapped is advanced as one that has not.             *)
LEMMA ModAdd ==
  ASSUME NEW n \in Nat \ {0}, NEW a \in Int, NEW b \in Int
  PROVE  ((a % n) + b) % n = (a + b) % n
<1>1. a = (n * (a \div n)) + (a % n) /\ (a \div n) \in Int /\ (a % n) \in 0 .. n - 1  BY ModDef
<1>2. a + b = (n * (a \div n)) + ((a % n) + b)  BY <1>1
<1>3. a + b \in Int /\ (a % n) + b \in Int  BY <1>1
<1> DEFINE x == (a % n) + b
           y == a + b
           d == a \div n
<1>4. x \in Int /\ y \in Int /\ d \in Int /\ y = (n * d) + x  BY <1>1, <1>2, <1>3
<1> HIDE DEF x, y, d
<1>5. y % n = x % n  BY <1>4, ModSame
<1>6. QED  BY <1>5 DEF x, y

(* The distance of two counters that have wrapped.                         *)
LEMMA ModSub ==
  ASSUME NEW n \in Nat \ {0}, NEW a \in Int, NEW b \in Int
  PROVE  ((a % n) - (b % n)) % n = (a - b) % n
<1>1. a = (n * (a \div n)) + (a % n) /\ (a \div n) \in Int /\ (a % n) \in 0 .. n - 1  BY ModDef
<1>2. b = (n * (b \div n)) + (b % n) /\ (b \div n) \in Int /\ (b % n) \in 0 .. n - 1  BY ModDef
<1> DEFINE x == (a % n) - (b % n)
           y == a - b
           d == (a \div n) - (b \div n)
<1>3. n * d = (n * (a \div n)) - (n * (b \div n))  BY <1>1, <1>2
<1>4. x \in Int /\ y \in Int /\ d \in Int  BY <1>1, <1>2
<1>5. y = (n * d) + x  BY <1>1, <1>2, <1>3
<1> HIDE DEF x, y, d
<1>6. y % n = x % n  BY <1>4, <1>5, ModSame
<1>7. QED  BY <1>6 DEF x, y

(* The slot of a counter is the same whether it has wrapped or not, since  *)
(* the queue's size divides the counters' modulus.                         *)
LEMMA ModMod ==
  ASSUME NEW k \in Nat \ {0}, NEW n \in Nat \ {0}, n % k = 0, NEW a \in Int
  PROVE  (a % n) % k = a % k
<1>1. a = (n * (a \div n)) + (a % n) /\ (a \div n) \in Int /\ (a % n) \in Int  BY ModDef
<1>2. n = (k * (n \div k)) + (n % k) /\ (n \div k) \in Int  BY ModDef
<1>3. n = k * (n \div k)  BY <1>2
<1> DEFINE e == a \div n
           j == n \div k
           x == a % n
           d == j * e
<1>4. x \in Int /\ e \in Int /\ j \in Int /\ d \in Int /\ n = k * j /\ a = (n * e) + x
  BY <1>1, <1>2, <1>3
<1> HIDE DEF e, j, x
<1>5. n * e = k * d  BY <1>4
<1>6. a \in Int /\ x \in Int /\ d \in Int /\ a = (k * d) + x  BY <1>4, <1>5
<1> HIDE DEF d
<1>7. a % k = x % k  BY ONLY k \in Nat \ {0}, <1>6, ModSame
<1>8. QED  BY <1>7 DEF x

(* Numbers less than a turn apart have different slots.                    *)
LEMMA ModDiff ==
  ASSUME NEW n \in Nat \ {0}, NEW a \in Int, NEW b \in Int, a < b, b < a + n
  PROVE  a % n # b % n
<1>1. a = (n * (a \div n)) + (a % n) /\ (a \div n) \in Int  BY ModDef
<1>2. b = (n * (b \div n)) + (b % n) /\ (b \div n) \in Int  BY ModDef
<1>3. SUFFICES ASSUME a % n = b % n  PROVE FALSE
  OBVIOUS
<1>4. b - a = n * ((b \div n) - (a \div n))  BY <1>1, <1>2, <1>3
<1>5. QED  BY <1>1, <1>2, <1>4

(* A number below the modulus has not wrapped.                             *)
LEMMA ModSmall ==
  ASSUME NEW n \in Nat \ {0}, NEW a \in 0 .. n - 1
  PROVE  a % n = a
OBVIOUS

(* The sizes of the queue and of its counters, and the bounds.             *)
LEMMA Sizes ==
  /\ K \in Nat \ {0} /\ M \in Nat \ {0} /\ M % K = 0 /\ K < M
  /\ MaxPacket \in Nat /\ MaxFrames \in Nat /\ MaxMade \in Nat /\ MaxGames \in Nat
BY QueueAssumption, BoundsAssumption
-----------------------------------------------------------------------------
(* The queue as it is used: the free bytes main works out from the wrapped *)
(* counters are those that are free, and the slot it writes is that of the *)
(* byte's number.                                                          *)
LEMMA DistanceSeen ==
  ASSUME NEW a \in Int, NEW b \in Int, a <= b, b - a <= K
  PROVE  ((b % M) - (a % M)) % M = b - a
<1>1. ((b % M) - (a % M)) % M = (b - a) % M  BY Sizes, ModSub
<1> DEFINE d == b - a
<1>2. d \in 0 .. M - 1  BY Sizes
<1> HIDE DEF d
<1>3. d % M = d  BY <1>2, Sizes, ModSmall
<1>4. QED  BY <1>1, <1>3 DEF d

(* Main sees the bytes that are free.                                      *)
LEMMA FreeSeen ==
  ASSUME TypeOK, NEW sent \in 0 .. MaxMade, NEW got \in 0 .. MaxMade, CountersFit(sent, got)
  PROVE  Free(read) = K - (sent - got) /\ got <= sent
<1>1. Len(heard) \in Nat  BY DEF TypeOK
<1>2. got <= sent /\ sent - got <= K  BY <1>1, Sizes DEF CountersFit
<1>3. sent \in Int /\ got \in Int /\ write = sent % M /\ read = got % M
  BY Sizes DEF CountersFit
<1>4. ((sent % M) - (got % M)) % M = sent - got  BY <1>2, <1>3, DistanceSeen
<1>5. QED  BY <1>2, <1>3, <1>4 DEF Free

(* Main writes in the slot of the byte's number.                           *)
LEMMA SlotSeen ==
  ASSUME NEW sent \in 0 .. MaxMade, write = sent % M, NEW i \in Nat
  PROVE  Slot(i) = (sent + i) % K
<1>1. sent \in Int /\ i \in Int /\ sent + i \in Int  BY Sizes
<1>2. ((sent % M) + i) % M = (sent + i) % M  BY <1>1, Sizes, ModAdd
<1>3. ((sent + i) % M) % K = (sent + i) % K  BY <1>1, Sizes, ModMod
<1>4. QED  BY <1>2, <1>3 DEF Slot

Record == (0 .. MaxGames) \X (0 .. MaxMade)       \* a byte of a game, or none

(* What the callback reads for the engine is a sequence of bytes.          *)
LEMMA BytesInType ==
  ASSUME TypeOK, NEW n \in Nat
  PROVE  Bytes(n) \in Seq(Record) /\ Len(Bytes(n)) = n
<1> DEFINE s == cread % K
           byte(i) == IF s + i - 1 < K THEN queue[s + i - 1] ELSE NoByte
<1>1. s \in 0 .. K - 1
  <2>1. cread \in Int  BY Sizes DEF TypeOK
  <2>2. QED  BY <2>1, Sizes, ModDef
<1>2. NoByte \in Record  BY Sizes DEF NoByte, Record
<1>3. ASSUME NEW i \in 1 .. n  PROVE byte(i) \in Record
  <2>1. CASE s + i - 1 < K
    <3>1. s + i - 1 \in 0 .. K - 1  BY <1>1, <2>1, Sizes
    <3>2. queue \in [0 .. K - 1 -> Record]  BY DEF TypeOK, Record
    <3>3. QED  BY <2>1, <3>1, <3>2
  <2>2. CASE ~(s + i - 1 < K)  BY <1>2, <2>2
  <2>3. QED  BY <2>1, <2>2
<1> HIDE DEF byte
<1>4. [i \in 1 .. n |-> byte(i)] \in Seq(Record)  BY <1>3, IsASeq
<1>5. Len([i \in 1 .. n |-> byte(i)]) = n  OBVIOUS
<1>6. QED  BY <1>4, <1>5 DEF byte, Bytes

(* The chunk the callback gives to the engine is no more than is there for *)
(* it, and its bytes are those of the slots of the next numbers, however   *)
(* the counters and the queue wrap.                                        *)
LEMMA ChunkSeen ==
  ASSUME TypeOK, NEW h \in Nat, NEW w \in Nat, h <= w, w - h <= K,
         cread = h % M, cwrite = w % M
  PROVE  /\ Chunk(cread, cwrite) \in 0 .. w - h
         /\ \A n \in 0 .. Chunk(cread, cwrite) :
              /\ (cread + n) % M = (h + n) % M
              /\ \A i \in 1 .. n : Bytes(n)[i] = queue[(h + i - 1) % K]
<1> DEFINE s == cread % K
           n0 == Chunk(cread, cwrite)
<1>1. s = h % K /\ s \in 0 .. K - 1
  <2>1. h \in Int  OBVIOUS
  <2>2. (h % M) % K = h % K  BY <2>1, Sizes, ModMod
  <2>3. (h % K) \in 0 .. K - 1  BY <2>1, Sizes, ModDef
  <2>4. QED  BY <2>2, <2>3
<1>2. ((w % M) - (h % M)) % M = w - h  BY DistanceSeen
<1>3. n0 = Min2(w - h, K - s)  BY <1>2 DEF Chunk
<1>4. n0 \in 0 .. w - h /\ n0 <= K - s  BY <1>1, <1>3, Sizes DEF Min2
<1> HIDE DEF n0, s
<1>5. ASSUME NEW n \in 0 .. n0
      PROVE  /\ (cread + n) % M = (h + n) % M
             /\ \A i \in 1 .. n : Bytes(n)[i] = queue[(h + i - 1) % K]
  <2>1. n \in Nat /\ n \in Int /\ h \in Int  BY <1>4
  <2>2. (cread + n) % M = (h + n) % M  BY <2>1, Sizes, ModAdd
  <2>3. ASSUME NEW i \in 1 .. n  PROVE Bytes(n)[i] = queue[(h + i - 1) % K]
    <3>1. s + i - 1 \in 0 .. K - 1  BY <1>1, <1>4, <2>1, Sizes
    <3>2. Bytes(n)[i] = queue[s + i - 1]  BY <3>1, Sizes DEF Bytes, s
    <3>3. (s + i - 1) % K = s + i - 1  BY <3>1, Sizes, ModSmall
    <3>4. i - 1 \in Int /\ h \in Int  BY <2>1
    <3>5. ((h % K) + (i - 1)) % K = (h + (i - 1)) % K  BY <3>4, Sizes, ModAdd
    <3>6. s + i - 1 = (h % K) + (i - 1) /\ h + i - 1 = h + (i - 1)  BY <1>1, <3>4
    <3>7. QED  BY <3>2, <3>3, <3>5, <3>6
  <2>4. QED  BY <2>2, <2>3
<1>6. QED  BY <1>4, <1>5 DEF n0
-----------------------------------------------------------------------------
(* The variables keep their types.  A byte main writes is one it has made, *)
(* and the free bytes it sees are at most the queue's: these two need the  *)
(* rest of the invariant.                                                  *)
LEMMA Types ==
  ASSUME TypeOK
  PROVE  /\ game \in 0 .. MaxGames /\ games \in 0 .. MaxGames /\ made \in 0 .. MaxMade
         /\ left \in 0 .. MaxFrames /\ size \in 0 .. MaxPacket /\ filled \in 0 .. MaxPacket
         /\ room \in 0 .. K /\ ends \subseteq 0 .. MaxMade
         /\ read \in 0 .. M - 1 /\ write \in 0 .. M - 1
         /\ cread \in 0 .. M - 1 /\ cwrite \in 0 .. M - 1
         /\ heard \in Seq(Record) /\ Len(heard) \in Nat
         /\ queue \in [0 .. K - 1 -> Record]
<1>1. heard \in Seq(Record) /\ queue \in [0 .. K - 1 -> Record]  BY DEF TypeOK, Record
<1>2. Len(heard) \in Nat  BY <1>1, LenProperties
<1>3. QED  BY <1>1, <1>2 DEF TypeOK

(* The byte main writes in the queue is one it has made.                   *)
LEMMA QueueKeepsType ==
  ASSUME TypeOK, GameFits, NEW sent \in 0 .. MaxMade, NEW got \in 0 .. MaxMade,
         PacketFits(sent, got), Fill
  PROVE  queue' \in [0 .. K - 1 -> Record]
<1>1. made \in Int /\ size \in Int /\ filled \in 0 .. size - 1 /\ sent \in Nat
  <2>1. filled < size  BY DEF Fill
  <2>2. made \in 0 .. MaxMade /\ size \in 0 .. MaxPacket /\ filled \in 0 .. MaxPacket  BY Types
  <2>3. QED  BY <2>1, <2>2, Sizes
<1>2. made = sent + size  BY <1>1 DEF GameFits, PacketFits, Fill, Sending
<1>3. made - size + filled + 1 \in 0 .. MaxMade  BY <1>1, <1>2, Types, Sizes
<1>4. Byte(made - size + filled + 1) \in Record  BY <1>3, Types DEF Byte, Record
<1>5. queue \in [0 .. K - 1 -> Record]  BY Types
<1>6. QED  BY <1>4, <1>5 DEF Fill

(* What the engine has heard, with the callback's next bytes.              *)
LEMMA HeardKeepsType ==
  ASSUME TypeOK, NEW n \in Nat
  PROVE  /\ heard \o Bytes(n) \in Seq(Record) /\ Len(heard \o Bytes(n)) = Len(heard) + n
         /\ \A i \in 1 .. Len(heard) + n :
              (heard \o Bytes(n))[i] = IF i <= Len(heard) THEN heard[i]
                                       ELSE Bytes(n)[i - Len(heard)]
<1>1. heard \in Seq(Record)  BY Types
<1>2. Bytes(n) \in Seq(Record) /\ Len(Bytes(n)) = n  BY BytesInType
<1>3. QED  BY <1>1, <1>2, ConcatProperties

(* The flags stay Boolean.                                                 *)
LEMMA FlagsKeepType ==
  ASSUME TypeOK, Next
  PROVE  {inLauncher', fault', failed', invalid'} \subseteq BOOLEAN
BY ZenonT(30) DEF TypeOK, Next, Main, Callback, Top, Health, FramesOver, Frame, LoadRead, Fill,
  Publish, Refused, Draw, CloseGame, OpenGame, NotOpened, Opened, Enter, Receive,
  ReceiveThrows, Received, Render, Sync, HeldByFault, loop, play, send, fifo, flags, cb

(* Main stays in its loop, the callback in its turns.                      *)
LEMMA MainStaysInLoop ==
  ASSUME TypeOK, Next
  PROVE  /\ m' \in {"top", "health", "frame", "load", "fill", "refused", "draw", "open", "opened"}
         /\ stream' \in {"none", "paused", "playing"}
         /\ c' \in {"idle", "receive", "render"}
BY DEF TypeOK, Next, Main, Callback, Top, Health, FramesOver, Frame, LoadRead, Fill,
  Publish, Refused, Draw, CloseGame, OpenGame, NotOpened, Opened, Enter, Receive,
  ReceiveThrows, Received, Render, Sync, Pause, HeldByFault, loop, play, send, fifo, flags, cb

(* The bounds hold, and the room main sees is at most the queue's.         *)
LEMMA BoundsKept ==
  ASSUME TypeOK, GameFits, Next,
         NEW sent \in 0 .. MaxMade, NEW got \in 0 .. MaxMade,
         CountersFit(sent, got), PacketFits(sent, got)
  PROVE  /\ {game', games'} \subseteq 0 .. MaxGames /\ made' \in 0 .. MaxMade
         /\ left' \in 0 .. MaxFrames /\ {size', filled'} \subseteq 0 .. MaxPacket
         /\ room' \in 0 .. K /\ ends' \subseteq 0 .. MaxMade
<1>1. Free(read) \in 0 .. K
  <2>1. Free(read) = K - (sent - got) /\ got <= sent  BY FreeSeen
  <2>2. sent - got <= K  BY DEF CountersFit
  <2>3. QED  BY <2>1, <2>2, Sizes
<1>2. /\ game \in 0 .. MaxGames /\ games \in 0 .. MaxGames /\ made \in 0 .. MaxMade
      /\ left \in 0 .. MaxFrames /\ size \in 0 .. MaxPacket /\ filled \in 0 .. MaxPacket
      /\ room \in 0 .. K /\ ends \subseteq 0 .. MaxMade
  BY Types
<1> USE Sizes DEF loop, play, send, fifo, flags, cb
<1>3. CASE Top  BY <1>2, <1>3 DEF Top, Sync
<1>4. CASE Health  BY <1>2, <1>4 DEF Health
<1>5. CASE FramesOver  BY <1>2, <1>5 DEF FramesOver
<1>6. CASE Frame
  <2>1. PICK n \in 0 .. MaxPacket : made + n <= MaxMade /\ made' = made + n /\ size' = n
    BY <1>6 DEF Frame
  <2>2. left' = left - 1 /\ left > 0  BY <1>6 DEF Frame
  <2>3. made' \in 0 .. MaxMade /\ left' \in 0 .. MaxFrames  BY <1>2, <2>1, <2>2
  <2>4. UNCHANGED <<game, games, filled, room, ends>>  BY <1>6 DEF Frame
  <2>5. QED  BY <1>2, <2>1, <2>3, <2>4
<1>7. CASE LoadRead  BY <1>1, <1>2, <1>7 DEF LoadRead
<1>8. CASE Fill
  <2>1. filled' = filled + 1 /\ filled < size  BY <1>8 DEF Fill
  <2>2. filled' \in 0 .. MaxPacket  BY <1>2, <2>1
  <2>3. QED  BY <1>2, <2>2, <1>8 DEF Fill
<1>9. CASE Publish  BY <1>2, <1>9 DEF Publish
<1>10. CASE Refused  BY <1>2, <1>10 DEF Refused
<1>11. CASE Draw  BY <1>2, <1>11 DEF Draw, Sync
<1>12. CASE CloseGame  BY <1>2, <1>12 DEF CloseGame
<1>13. CASE OpenGame
  <2>1. games' = games + 1 /\ games < MaxGames /\ game' \in {0, games'}
    BY <1>13 DEF OpenGame, GameFits
  <2>2. games' \in 0 .. MaxGames /\ game' \in 0 .. MaxGames  BY <1>2, <2>1
  <2>3. QED  BY <1>2, <2>2, <1>13 DEF OpenGame
<1>14. CASE NotOpened  BY <1>2, <1>14 DEF NotOpened
<1>15. CASE Opened  BY <1>2, <1>15 DEF Opened, Sync
<1>16. CASE Callback
  BY <1>2, <1>16 DEF Callback, Enter, Receive, ReceiveThrows, Received, Render
<1>17. QED
  BY <1>3, <1>4, <1>5, <1>6, <1>7, <1>8, <1>9, <1>10, <1>11, <1>12, <1>13, <1>14, <1>15, <1>16
  DEF Next, Main

(* The counters and the callback's copies of them wrap at M.               *)
LEMMA CountersKeepType ==
  ASSUME TypeOK, Next
  PROVE  {read', write', cread', cwrite'} \subseteq 0 .. M - 1
<1>1. /\ read \in 0 .. M - 1 /\ write \in 0 .. M - 1 /\ size \in Int
      /\ cread \in 0 .. M - 1 /\ cwrite \in 0 .. M - 1
  BY Types
<1>2. ASSUME NEW a \in Int  PROVE (a % M) \in 0 .. M - 1  BY Sizes, ModDef
<1>3. CASE Publish
  <2>1. write + size \in Int  BY <1>1, Sizes
  <2>2. write' \in 0 .. M - 1  BY <1>2, <1>3, <2>1 DEF Publish, Stored
  <2>3. QED  BY <1>1, <1>3, <2>2 DEF Publish, cb
<1>4. CASE OpenGame  BY <1>1, <1>4, Sizes DEF OpenGame, Rewound, cb
<1>5. CASE Enter  BY <1>1, <1>5, Sizes DEF Enter, Loaded, fifo
<1>6. CASE Receive
  <2>1. Chunk(cread, cwrite) \in Int
    <3>1. cwrite - cread \in Int /\ cread \in Int  BY <1>1, Sizes
    <3>2. ((cwrite - cread) % M) \in 0 .. M - 1  BY <1>2, <3>1
    <3>3. (cread % K) \in 0 .. K - 1  BY <3>1, Sizes, ModDef
    <3>4. QED  BY <3>2, <3>3, Sizes DEF Chunk, Min2
  <2>2. cread + Chunk(cread, cwrite) \in Int  BY <1>1, <2>1, Sizes
  <2>3. cread' \in 0 .. M - 1  BY <1>2, <1>6, <2>2 DEF Receive
  <2>4. QED  BY <1>1, <1>6, <2>3 DEF Receive, fifo
<1>7. CASE UNCHANGED <<read, write, cread, cwrite>>  BY <1>1, <1>7
<1>8. Next => Publish \/ OpenGame \/ Enter \/ Receive \/ Received
              \/ UNCHANGED <<read, write, cread, cwrite>>
  BY DEF Next, Main, Callback, Top, Health, FramesOver, Frame, LoadRead, Fill, Refused, Draw,
    CloseGame, NotOpened, Opened, ReceiveThrows, Render, fifo, cb
<1>9. CASE Received  BY <1>1, <1>9 DEF Received
<1>10. QED  BY <1>3, <1>4, <1>5, <1>6, <1>7, <1>8, <1>9
-----------------------------------------------------------------------------
(* The game on the screen has its stream, a fault holds the launcher, and  *)
(* the callback is idle where there is no stream: the steps that change m, *)
(* inLauncher, fault, the game or its stream keep these together.          *)
LEMMA GameKept ==
  ASSUME TypeOK, GameFits, Next
  PROVE  GameFits'
<1>1. fault \in BOOLEAN /\ inLauncher \in BOOLEAN  BY DEF TypeOK
<1> USE DEF GameFits, Sending, loop, play, cb
<1>2. CASE Top  BY <1>1, <1>2 DEF Top, Sync, Pause, HeldByFault
<1>3. CASE Health  BY <1>1, <1>3 DEF Health, Pause
<1>4. CASE FramesOver  BY <1>4 DEF FramesOver
<1>5. CASE Frame  BY <1>5 DEF Frame
<1>6. CASE LoadRead  BY <1>6 DEF LoadRead
<1>7. CASE Fill  BY <1>7 DEF Fill
<1>8. CASE Publish  BY <1>8 DEF Publish
<1>9. CASE Refused  BY <1>9 DEF Refused, Pause
<1>10. CASE Draw  BY <1>1, <1>10 DEF Draw, Sync, Pause, HeldByFault
<1>11. CASE CloseGame  BY <1>11 DEF CloseGame
<1>12. CASE OpenGame
  <2>1. games' = games + 1  BY <1>12 DEF OpenGame
  <2>2. games \in Nat  BY Types, Sizes
  <2>3. games' # 0  BY <2>1, <2>2
  <2>4. QED  BY <1>12, <2>3 DEF OpenGame
<1>13. CASE NotOpened  BY <1>13 DEF NotOpened
<1>14. CASE Opened  BY <1>1, <1>14 DEF Opened, Sync, Pause, HeldByFault
<1>15. CASE Enter  BY <1>15 DEF Enter
<1>16. CASE Receive  BY <1>16 DEF Receive
<1>17. CASE ReceiveThrows  BY <1>17 DEF ReceiveThrows
<1>18. CASE Received  BY <1>18 DEF Received
<1>19. CASE Render  BY <1>19 DEF Render
<1>20. QED
  BY <1>2, <1>3, <1>4, <1>5, <1>6, <1>7, <1>8, <1>9, <1>10, <1>11, <1>12, <1>13, <1>14, <1>15,
    <1>16, <1>17, <1>18, <1>19 DEF Next, Main, Callback
-----------------------------------------------------------------------------
(* A step that leaves the queue, the bytes and the callback alone, and is  *)
(* not of a packet that is being sent.                                     *)
Aside ==
  /\ UNCHANGED <<read, write, queue, heard, ends, games, made, size, c, cread, cwrite, failed>>
  /\ Sending(m) => m = "refused" /\ fault'
  /\ ~Sending(m')
  /\ game' # 0 /\ ~fault' => game # 0 /\ ~fault

(* The steps of main that are of no packet.                                *)
LEMMA MostAreAside ==
  ASSUME TypeOK, GameFits,
         Top \/ Health \/ FramesOver \/ Refused \/ Draw \/ CloseGame \/ NotOpened \/ Opened
  PROVE  Aside
<1>1. fault \in BOOLEAN /\ inLauncher \in BOOLEAN  BY DEF TypeOK
<1> USE DEF Aside, Sending, loop, play, send, fifo, flags, cb
<1>2. CASE Top  BY <1>1, <1>2 DEF Top, Sync, HeldByFault
<1>3. CASE Health  BY <1>1, <1>3 DEF Health
<1>4. CASE FramesOver  BY <1>4 DEF FramesOver
<1>5. CASE Refused  BY <1>5 DEF Refused
<1>6. CASE Draw  BY <1>1, <1>6 DEF Draw, Sync, HeldByFault
<1>7. CASE CloseGame  BY <1>7 DEF CloseGame
<1>8. CASE NotOpened  BY <1>8 DEF NotOpened
<1>9. CASE Opened  BY <1>1, <1>9 DEF Opened, Sync, HeldByFault
<1>10. QED  BY <1>2, <1>3, <1>4, <1>5, <1>6, <1>7, <1>8, <1>9

(* They keep the fit of the counters, the packet, the copies and the queue.*)
LEMMA AsideKeepsFit ==
  ASSUME NEW sent \in 0 .. MaxMade, NEW got \in 0 .. MaxMade, TypeOK, HeardAsMade,
         Fits(sent, got), Aside
  PROVE  HeardAsMade' /\ Fits(sent, got)'
<1>1. HeardAsMade'  BY DEF HeardAsMade, Aside, Byte
<1>2. CountersFit(sent, got)'  BY DEF Fits, CountersFit, Aside
<1>3. PacketFits(sent, got)'
  <2>1. m' # "fill"  BY DEF Aside, Sending
  <2>2. game' # 0 /\ ~fault' => game # 0 /\ ~fault /\ ~Sending(m) /\ ~Sending(m')  BY DEF Aside
  <2>3. QED  BY <2>1, <2>2 DEF Fits, PacketFits, Aside
<1>4. CopiesFit(sent, got)'  BY DEF Fits, CopiesFit, Aside
<1>5. Queued(sent, got)'
  <2>1. Written(sent)' = sent  BY Sizes DEF Aside, Sending, Written
  <2>2. ASSUME NEW k \in got + 1 .. sent  PROVE queue[(k - 1) % K] = Byte(k)
    <3>1. k \in got + 1 .. Written(sent)
      <4>1. filled \in Nat /\ sent \in Int /\ got \in Int  BY Types, Sizes
      <4>2. Written(sent) \in Int /\ sent <= Written(sent)  BY <4>1 DEF Written
      <4>3. QED  BY <4>1, <4>2
    <3>2. QED  BY <3>1 DEF Fits, Queued
  <2>3. QED  BY <2>1, <2>2 DEF Queued, Aside, Byte
<1>6. QED  BY <1>1, <1>2, <1>3, <1>4, <1>5 DEF Fits
-----------------------------------------------------------------------------
(* A step of main that only makes bytes or looks at the counters: what was *)
(* sent and heard is as before, and no byte of the packet is written yet.  *)
LEMMA NothingWritten ==
  ASSUME TypeOK, HeardAsMade, NEW sent \in 0 .. MaxMade, NEW got \in 0 .. MaxMade,
         Fits(sent, got), PacketFits(sent, got)', m # "fill",
         m' = "fill" => filled' = 0,
         UNCHANGED <<read, write, queue, heard, ends, games, c, cread, cwrite, failed>>
  PROVE  HeardAsMade' /\ Fits(sent, got)'
<1>1. HeardAsMade'  BY DEF HeardAsMade, Byte
<1>2. CountersFit(sent, got)' /\ CopiesFit(sent, got)'  BY DEF Fits, CountersFit, CopiesFit
<1>3. Written(sent) = sent /\ Written(sent)' = sent  BY Sizes DEF Written
<1>4. Queued(sent, got)'  BY <1>3 DEF Fits, Queued, Byte
<1>5. QED  BY <1>1, <1>2, <1>4 DEF Fits

(* A frame makes a packet, of which nothing is sent or written yet.        *)
LEMMA FrameKeepsFit ==
  ASSUME TypeOK, GameFits, HeardAsMade, NEW sent \in 0 .. MaxMade, NEW got \in 0 .. MaxMade,
         Fits(sent, got), Frame
  PROVE  HeardAsMade' /\ Fits(sent, got)'
<1>1. m = "frame" /\ made = sent  BY Types, Sizes DEF Frame, GameFits, Fits, PacketFits, Sending
<1>2. PICK n \in 0 .. MaxPacket :
        /\ made' = made + n /\ size' = n
        /\ m' = CASE n = 0 -> "frame"
                  [] n > 0 /\ (stream = "none" \/ failed) -> "refused"
                  [] OTHER -> "load"
  BY DEF Frame
<1>3. n \in Int /\ (n = 0 => ~Sending(m')) /\ (n # 0 => Sending(m')) /\ m' # "fill"
  BY <1>2, Sizes DEF Sending
<1>4. sent <= made' /\ made' = sent + (IF Sending(m') THEN size' ELSE 0)
  BY <1>1, <1>2, <1>3, Sizes
<1>5. PacketFits(sent, got)'  BY <1>3, <1>4 DEF PacketFits
<1>6. QED  BY <1>1, <1>3, <1>5, NothingWritten DEF Frame, fifo, flags, cb

(* The packet is begun only when the queue has the room for all of it.     *)
LEMMA LoadKeepsFit ==
  ASSUME TypeOK, GameFits, HeardAsMade, NEW sent \in 0 .. MaxMade, NEW got \in 0 .. MaxMade,
         Fits(sent, got), LoadRead
  PROVE  HeardAsMade' /\ Fits(sent, got)'
<1>1. Free(read) = K - (sent - got)  BY FreeSeen DEF Fits
<1>2. m = "load" /\ m' = IF size > Free(read) THEN "refused" ELSE "fill"
  BY DEF LoadRead
<1>3. UNCHANGED <<game, games, made, size, fault>> /\ filled' = 0  BY DEF LoadRead, play
<1>4. m' = "fill" => (sent + size) - got <= K /\ 0 <= size
  <2>1. size \in Nat /\ sent \in Int /\ got \in Int  BY Types, Sizes
  <2>2. m' = "fill" => ~(size > Free(read))  BY <1>2
  <2>3. QED  BY <1>1, <2>1, <2>2, Sizes
<1>5. sent <= made /\ (game # 0 /\ ~fault => made = sent + size)
  BY <1>2 DEF Fits, PacketFits, Sending
<1>6. Sending(m')  BY <1>2 DEF Sending
<1>7. PacketFits(sent, got)'  BY <1>3, <1>4, <1>5, <1>6 DEF PacketFits
<1>8. QED  BY <1>2, <1>3, <1>7, NothingWritten DEF LoadRead, fifo, flags, cb

(* The byte goes where no byte is that is not heard: the numbers of those  *)
(* that are queued and its own are less than the queue's size apart.       *)
LEMMA FillKeepsFit ==
  ASSUME TypeOK, GameFits, HeardAsMade, NEW sent \in 0 .. MaxMade, NEW got \in 0 .. MaxMade,
         Fits(sent, got), Fill
  PROVE  HeardAsMade' /\ Fits(sent, got)'
<1>1. m = "fill" /\ m' = "fill" /\ filled < size /\ filled' = filled + 1
  BY DEF Fill, loop
<1>2. UNCHANGED <<read, write, heard, ends, game, games, made, size, c, cread, cwrite, failed,
                fault>>
  BY DEF Fill, loop, play, flags, cb
<1>3. /\ filled \in Nat /\ size \in Nat /\ sent \in Nat /\ got \in Nat /\ made \in Int
      /\ filled \in Int /\ sent \in Int /\ got \in Int
  BY Types, Sizes
<1>4. made = sent + size /\ (sent + size) - got <= K
  BY <1>1, <1>3 DEF GameFits, Fits, PacketFits, Sending
<1>5. queue' = [queue EXCEPT ![(sent + filled) % K] = Byte(sent + filled + 1)]
  <2>1. Slot(filled) = (sent + filled) % K  BY <1>3, SlotSeen DEF Fits, CountersFit
  <2>2. made - size + filled + 1 = sent + filled + 1  BY <1>3, <1>4
  <2>3. QED  BY <2>1, <2>2 DEF Fill
<1>6. HeardAsMade'  BY <1>2 DEF HeardAsMade, Byte
<1>7. CountersFit(sent, got)' /\ CopiesFit(sent, got)'
  BY <1>2 DEF Fits, CountersFit, CopiesFit
<1>8. PacketFits(sent, got)'
  <2>1. filled' <= size  BY <1>1, <1>3
  <2>2. QED  BY <1>1, <1>2, <1>4, <2>1 DEF Fits, PacketFits, Sending
<1>9. ASSUME NEW k \in got + 1 .. Written(sent)'  PROVE queue'[(k - 1) % K] = Byte(k)'
  <2>1. Written(sent) = sent + filled /\ Written(sent)' = sent + filled + 1
    BY <1>1, <1>3 DEF Written
  <2>2. k \in Int /\ k - 1 \in Int /\ sent + filled \in Int  BY <1>3, <2>1
  <2>3. ((k - 1) % K) \in 0 .. K - 1  BY <2>2, Sizes, ModDef
  <2>4. queue \in [0 .. K - 1 -> Record]  BY Types
  <2>5. CASE k = sent + filled + 1
    <3>1. k - 1 = sent + filled  BY <1>3, <2>5
    <3>2. queue'[(k - 1) % K] = Byte(sent + filled + 1)  BY <1>5, <2>3, <2>4, <3>1
    <3>3. QED  BY <1>2, <2>5, <3>2 DEF Byte
  <2>6. CASE k # sent + filled + 1
    <3>1. k \in got + 1 .. Written(sent)  BY <1>3, <2>1, <2>6
    <3>2. k - 1 < sent + filled /\ sent + filled < (k - 1) + K
      BY <1>1, <1>3, <1>4, <2>1, <2>2, <3>1, Sizes
    <3>3. (k - 1) % K # (sent + filled) % K  BY <2>2, <3>2, Sizes, ModDiff
    <3>4. queue'[(k - 1) % K] = queue[(k - 1) % K]  BY <1>5, <2>3, <2>4, <3>3
    <3>5. queue[(k - 1) % K] = Byte(k)  BY <3>1 DEF Fits, Queued
    <3>6. QED  BY <1>2, <3>4, <3>5 DEF Byte
  <2>7. QED  BY <2>5, <2>6
<1>10. Queued(sent, got)'  BY <1>9 DEF Queued
<1>11. QED  BY <1>6, <1>7, <1>8, <1>10 DEF Fits

(* write_ is stored: the packet is sent, all of it at once.                *)
LEMMA PublishKeepsFit ==
  ASSUME TypeOK, GameFits, HeardAsMade, NEW sent \in 0 .. MaxMade, NEW got \in 0 .. MaxMade,
         Fits(sent, got), Publish
  PROVE  HeardAsMade' /\ \E s \in 0 .. MaxMade : Fits(s, got)'
<1> PICK s : s = made  OBVIOUS
<1>1. m = "fill" /\ m' = "frame" /\ filled = size  BY DEF Publish, Filled
<1>2. UNCHANGED <<read, queue, heard, game, games, made, size, c, cread, cwrite, failed, fault>>
  BY DEF Publish, play, send, flags, cb
<1>3. /\ sent \in Nat /\ got \in Nat /\ size \in Nat /\ made \in 0 .. MaxMade
      /\ sent \in Int /\ size \in Int /\ Len(heard) \in Nat
  BY Types, Sizes
<1>4. made = sent + size /\ (sent + size) - got <= K
  BY <1>1, <1>3 DEF GameFits, Fits, PacketFits, Sending
<1>5. HeardAsMade'  BY <1>2 DEF HeardAsMade, Byte
<1>6. CountersFit(s, got)'
  <2>1. ends' = ends \cup {made} /\ write' = (write + size) % M
    BY DEF Publish, Stored
  <2>2. ((sent % M) + size) % M = (sent + size) % M  BY <1>3, Sizes, ModAdd
  <2>3. write' = s % M  BY <1>4, <2>1, <2>2 DEF Fits, CountersFit
  <2>4. \A k \in ends' : k <= s
    <3>1. \A k \in ends : k <= sent /\ k \in Nat  BY Types DEF Fits, CountersFit
    <3>2. \A k \in ends : k <= s  BY <1>3, <1>4, <3>1
    <3>3. QED  BY <1>3, <2>1, <3>2
  <2>5. got <= Len(heard) /\ Len(heard) <= s /\ s - got <= K
    BY <1>3, <1>4 DEF Fits, CountersFit
  <2>6. QED  BY <1>2, <2>1, <2>3, <2>4, <2>5 DEF Fits, CountersFit
<1>7. PacketFits(s, got)'  BY <1>1, <1>2, <1>3, Sizes DEF PacketFits, Sending
<1>8. CopiesFit(s, got)'
  <2>1. ends \subseteq ends'  BY DEF Publish
  <2>2. QED  BY <1>2, <2>1 DEF Fits, CopiesFit
<1>9. Queued(s, got)'
  <2>1. Written(sent) = s /\ Written(s)' = s  BY <1>1, <1>2, <1>3, <1>4, Sizes DEF Written
  <2>2. QED  BY <1>2, <2>1 DEF Fits, Queued, Byte
<1>10. s \in 0 .. MaxMade /\ Fits(s, got)'  BY <1>3, <1>6, <1>7, <1>8, <1>9 DEF Fits
<1>11. QED  BY <1>5, <1>10

(* A game that is started, or not, begins with an empty queue.             *)
LEMMA OpenFits ==
  ASSUME TypeOK, GameFits, OpenGame
  PROVE  HeardAsMade' /\ Fits(0, 0)'
<1>1. /\ read' = 0 /\ write' = 0 /\ heard' = <<>> /\ made' = 0 /\ ends' = {0}
      /\ m' = "opened" /\ c' = c /\ ~failed'
  BY DEF OpenGame, Rewound, cb
<1>2. c = "idle"  BY DEF GameFits, OpenGame
<1>3. 0 % M = 0  BY Sizes, ModSmall
<1>4. Len(heard') = 0  BY <1>1
<1>5. HeardAsMade'  BY <1>4 DEF HeardAsMade
<1>6. CountersFit(0, 0)'  BY <1>1, <1>3, <1>4, Sizes DEF CountersFit
<1>7. PacketFits(0, 0)'  BY <1>1 DEF PacketFits, Sending
<1>8. CopiesFit(0, 0)'  BY <1>1, <1>2, <1>4 DEF CopiesFit
<1>9. Written(0)' = 0  BY <1>1 DEF Written
<1>10. Queued(0, 0)'  BY <1>9 DEF Queued
<1>11. QED  BY <1>5, <1>6, <1>7, <1>8, <1>10 DEF Fits
-----------------------------------------------------------------------------
(* The callback's steps.  What it gives to the engine are the next bytes   *)
(* by their numbers, and no more than were sent.                           *)
LEMMA EnterKeepsFit ==
  ASSUME TypeOK, HeardAsMade, NEW sent \in 0 .. MaxMade, NEW got \in 0 .. MaxMade,
         Fits(sent, got), Enter
  PROVE  HeardAsMade' /\ Fits(sent, got)'
<1>1. UNCHANGED <<m, filled, read, write, queue, heard, ends, game, games, made, size, failed,
                fault>>
  BY DEF Enter, loop, play, send, fifo, flags
<1>2. HeardAsMade' /\ CountersFit(sent, got)' /\ PacketFits(sent, got)' /\ Queued(sent, got)'
  BY <1>1 DEF HeardAsMade, Fits, CountersFit, PacketFits, Queued, Written, Byte
<1>3. c = "idle"  BY DEF Enter
<1>4. ASSUME failed  PROVE CopiesFit(sent, got)'
  <2>1. c' = "render" /\ failed'  BY <1>1, <1>4 DEF Enter
  <2>2. QED  BY <2>1 DEF CopiesFit
<1>5. ASSUME ~failed  PROVE CopiesFit(sent, got)'
  <2>1. c' = "receive" /\ cread' = read /\ cwrite' = write  BY <1>5 DEF Enter, Loaded
  <2>2. got = Len(heard)  BY <1>3, <1>5 DEF Fits, CopiesFit
  <2>3. QED
    BY <1>1, <1>5, <2>1, <2>2 DEF Fits, CountersFit, CopiesFit
<1>6. QED  BY <1>2, <1>4, <1>5 DEF Fits

(* The callback gives to the engine the bytes that follow those it has     *)
(* heard, up to the write_ it has loaded.                                  *)
LEMMA GivenInOrder ==
  ASSUME TypeOK, HeardAsMade, NEW sent \in 0 .. MaxMade, NEW got \in 0 .. MaxMade,
         Fits(sent, got), c = "receive", NEW w \in ends, cwrite = w % M, Len(heard) <= w
  PROVE  /\ Chunk(cread, cwrite) \in 0 .. w - Len(heard) /\ w <= sent
         /\ \A n \in 0 .. Chunk(cread, cwrite) :
              /\ (cread + n) % M = (Len(heard) + n) % M
              /\ Len(heard \o Bytes(n)) = Len(heard) + n
              /\ \A k \in 1 .. Len(heard) + n : (heard \o Bytes(n))[k] = Byte(k)
<1> DEFINE h == Len(heard)
           n0 == Chunk(cread, cwrite)
<1>1. h \in Nat /\ w \in Nat /\ sent \in Nat /\ got \in Nat /\ ends \subseteq Nat
  BY Types, Sizes
<1>2. cread = h % M /\ got <= h /\ sent - got <= K  BY DEF Fits, CountersFit, CopiesFit
<1>3. w <= sent  BY DEF Fits, CountersFit
<1>4. h <= w /\ w - h <= K
  <2>1. h <= w  OBVIOUS
  <2>2. QED  BY <1>1, <1>2, <1>3, <2>1, Sizes
<1>5. /\ n0 \in 0 .. w - h
      /\ \A n \in 0 .. n0 : /\ (cread + n) % M = (h + n) % M
                            /\ \A i \in 1 .. n : Bytes(n)[i] = queue[(h + i - 1) % K]
  BY <1>1, <1>2, <1>4, ChunkSeen
<1> HIDE DEF n0, h
<1>6. ASSUME NEW n \in 0 .. n0
      PROVE  /\ Len(heard \o Bytes(n)) = h + n
             /\ \A k \in 1 .. h + n : (heard \o Bytes(n))[k] = Byte(k)
  <2>1. n \in Nat /\ n <= w - h  BY <1>1, <1>5
  <2>2. /\ Len(heard \o Bytes(n)) = h + n
        /\ \A k \in 1 .. h + n :
             (heard \o Bytes(n))[k] = IF k <= h THEN heard[k] ELSE Bytes(n)[k - h]
    BY <2>1, HeardKeepsType DEF h
  <2>3. ASSUME NEW k \in 1 .. h + n  PROVE (heard \o Bytes(n))[k] = Byte(k)
    <3>1. CASE k <= h
      <4>1. k \in 1 .. Len(heard)  BY <1>1, <3>1 DEF h
      <4>2. heard[k] = Byte(k)  BY <4>1 DEF HeardAsMade
      <4>3. QED  BY <2>2, <3>1, <4>2
    <3>2. CASE ~(k <= h)
      <4>1. k - h \in 1 .. n /\ h + (k - h) - 1 = k - 1  BY <1>1, <2>1, <3>2
      <4>2. Bytes(n)[k - h] = queue[(k - 1) % K]  BY <1>5, <4>1
      <4>3. k \in got + 1 .. Written(sent)
        <5>1. filled \in Nat  BY Types, Sizes
        <5>2. Written(sent) \in Nat /\ sent <= Written(sent)  BY <1>1, <5>1 DEF Written
        <5>3. QED  BY <1>1, <1>2, <1>3, <2>1, <3>2, <5>2
      <4>4. queue[(k - 1) % K] = Byte(k)  BY <4>3 DEF Fits, Queued
      <4>5. QED  BY <2>2, <3>2, <4>2, <4>4
    <3>3. QED  BY <3>1, <3>2
  <2>4. QED  BY <2>2, <2>3
<1>7. QED  BY <1>3, <1>5, <1>6 DEF n0, h

(* So does a chunk, given whole or cut short by a fault of the engine.     *)
LEMMA ReceiveKeepsFit ==
  ASSUME TypeOK, HeardAsMade, NEW sent \in 0 .. MaxMade, NEW got \in 0 .. MaxMade,
         Fits(sent, got), Receive \/ ReceiveThrows
  PROVE  HeardAsMade' /\ Fits(sent, got)'
<1>1. c = "receive"  BY DEF Receive, ReceiveThrows
<1>2. PICK w \in ends : cwrite = w % M /\ Len(heard) <= w /\ ~failed
  BY <1>1 DEF Fits, CopiesFit
<1> DEFINE n0 == Chunk(cread, cwrite)
<1>3. /\ n0 \in 0 .. w - Len(heard) /\ w <= sent
      /\ \A n \in 0 .. n0 :
           /\ (cread + n) % M = (Len(heard) + n) % M
           /\ Len(heard \o Bytes(n)) = Len(heard) + n
           /\ \A k \in 1 .. Len(heard) + n : (heard \o Bytes(n))[k] = Byte(k)
  BY <1>1, <1>2, GivenInOrder
<1>4. PICK n \in 0 .. n0 : heard' = heard \o Bytes(n) /\ (Receive => n = n0)
  <2>1. n0 \in 0 .. n0  BY <1>3, Types, Sizes
  <2>2. CASE Receive  BY <2>1, <2>2 DEF Receive
  <2>3. CASE ReceiveThrows
    <3>1. PICK n \in 0 .. n0 : heard' = heard \o Bytes(n)  BY <2>3 DEF ReceiveThrows
    <3>2. ~Receive  BY <1>2, <2>3 DEF Receive, ReceiveThrows, flags
    <3>3. QED  BY <3>1, <3>2
  <2>4. QED  BY <2>2, <2>3
<1>5. UNCHANGED <<m, filled, read, write, queue, ends, game, games, made, size, fault, cwrite>>
  BY DEF Receive, ReceiveThrows, loop, play, send, fifo
<1>6. /\ Len(heard') = Len(heard) + n
      /\ \A k \in 1 .. Len(heard) + n : heard'[k] = Byte(k)
  BY <1>3, <1>4
<1>7. Len(heard) <= Len(heard') /\ Len(heard') <= w
  <2>1. w \in Int /\ Len(heard) \in Nat  BY Types, Sizes
  <2>2. n \in Nat /\ n <= w - Len(heard)  BY <1>3, <2>1
  <2>3. QED  BY <1>6, <2>1, <2>2
<1>8. HeardAsMade'  BY <1>5, <1>6 DEF HeardAsMade, Byte
<1>9. CountersFit(sent, got)'
  <2>1. got <= Len(heard')  /\ Len(heard') <= sent
    <3>1. /\ got \in Int /\ sent \in Int /\ w \in Int /\ Len(heard) \in Int /\ Len(heard') \in Int
      BY <1>3, <1>6, Types, Sizes
    <3>2. QED  BY <1>3, <1>7, <3>1 DEF Fits, CountersFit
  <2>2. QED  BY <1>5, <2>1 DEF Fits, CountersFit
<1>10. PacketFits(sent, got)' /\ Queued(sent, got)'
  BY <1>5 DEF Fits, PacketFits, Queued, Written, Byte
<1>11. CopiesFit(sent, got)'
  <2>1. CASE Receive
    <3>1. c' = c /\ failed' = failed /\ cread' = (cread + n) % M
      BY <1>4, <2>1 DEF Receive, flags
    <3>2. cread' = Len(heard') % M  BY <1>3, <1>6, <3>1
    <3>3. cwrite' = w % M /\ w \in ends'  BY <1>2, <1>5
    <3>4. QED  BY <1>1, <1>2, <1>7, <3>1, <3>2, <3>3 DEF CopiesFit
  <2>2. CASE ReceiveThrows  BY <2>2 DEF ReceiveThrows, CopiesFit
  <2>3. QED  BY <2>1, <2>2
<1>12. QED  BY <1>8, <1>9, <1>10, <1>11 DEF Fits

(* read_ is stored: what was heard is free, and ends where a packet does.  *)
LEMMA ReceivedKeepsFit ==
  ASSUME TypeOK, HeardAsMade, NEW sent \in 0 .. MaxMade, NEW got \in 0 .. MaxMade,
         Fits(sent, got), Received
  PROVE  HeardAsMade' /\ \E h \in 0 .. MaxMade : Fits(sent, h)'
<1>1. c = "receive" /\ c' = "render" /\ cread = cwrite /\ read' = cread  BY DEF Received
<1>2. PICK h : h = Len(heard)  OBVIOUS
<1>3. PICK w \in ends : cwrite = w % M /\ h <= w /\ cread = h % M
  BY <1>1, <1>2 DEF Fits, CopiesFit
<1>4. h \in Nat /\ w \in Nat /\ sent \in Nat /\ got \in Nat /\ h \in Int /\ w \in Int
  BY <1>2, Types, Sizes
<1>5. w <= sent /\ got <= h /\ sent - got <= K  BY <1>2 DEF Fits, CountersFit
<1>6. h = w
  <2>1. CASE h < w
    <3>1. w < h + M  BY <1>4, <1>5, Sizes
    <3>2. h % M # w % M  BY <1>4, <2>1, <3>1, Sizes, ModDiff
    <3>3. QED  BY <1>1, <1>3, <3>2
  <2>2. QED  BY <1>3, <1>4, <2>1
<1>7. UNCHANGED <<m, filled, write, queue, heard, ends, game, games, made, size, fault, failed>>
  BY DEF Received, loop, play, send, flags
<1>8. HeardAsMade'  BY <1>7 DEF HeardAsMade, Byte
<1>9. CountersFit(sent, h)'
  <2>1. h <= sent /\ sent - h <= K  BY <1>4, <1>5, <1>6, Sizes
  <2>2. read' = h % M /\ h <= Len(heard') /\ Len(heard') <= sent
    BY <1>1, <1>2, <1>3, <1>4, <1>7, <2>1
  <2>3. QED  BY <1>7, <2>1, <2>2 DEF Fits, CountersFit
<1>10. PacketFits(sent, h)'
  <2>1. m = "fill" => filled <= size /\ (sent + size) - got <= K  BY DEF Fits, PacketFits
  <2>2. size \in Nat  BY Types, Sizes
  <2>3. m = "fill" => (sent + size) - h <= K  BY <1>4, <1>5, <2>1, <2>2, Sizes
  <2>4. QED  BY <1>7, <2>1, <2>3 DEF Fits, PacketFits
<1>11. CopiesFit(sent, h)'
  <2>1. h = Len(heard') /\ h \in ends'  BY <1>2, <1>6, <1>7
  <2>2. QED  BY <1>1, <2>1 DEF CopiesFit
<1>12. Queued(sent, h)'
  <2>1. Written(sent)' = Written(sent)  BY <1>7 DEF Written
  <2>2. Written(sent) \in Int
    <3>1. filled \in Int  BY Types, Sizes
    <3>2. QED  BY <1>4, <3>1 DEF Written
  <2>3. h + 1 .. Written(sent) \subseteq got + 1 .. Written(sent)  BY <1>4, <1>5, <2>2
  <2>4. \A k \in h + 1 .. Written(sent) : queue[(k - 1) % K] = Byte(k)
    BY <2>3 DEF Fits, Queued
  <2>5. QED  BY <1>7, <2>1, <2>4 DEF Queued, Byte
<1>13. h \in 0 .. MaxMade  BY <1>4, <1>5, <1>6, Sizes
<1>14. Fits(sent, h)'  BY <1>9, <1>10, <1>11, <1>12 DEF Fits
<1>15. QED  BY <1>8, <1>13, <1>14

(* The engine renders: a fault of it is latched.                           *)
LEMMA RenderKeepsFit ==
  ASSUME TypeOK, HeardAsMade, NEW sent \in 0 .. MaxMade, NEW got \in 0 .. MaxMade,
         Fits(sent, got), Render
  PROVE  HeardAsMade' /\ Fits(sent, got)'
<1>1. UNCHANGED <<m, filled, read, write, queue, heard, ends, game, games, made, size, fault>>
  BY DEF Render, loop, play, send, fifo
<1>2. HeardAsMade' /\ CountersFit(sent, got)' /\ PacketFits(sent, got)' /\ Queued(sent, got)'
  BY <1>1 DEF HeardAsMade, Fits, CountersFit, PacketFits, Queued, Written, Byte
<1>3. CopiesFit(sent, got)'
  <2>1. c = "render" /\ c' = "idle"  BY DEF Render
  <2>2. failed' = failed \/ failed'  BY ZenonT(30) DEF Render
  <2>3. QED  BY <1>1, <2>1, <2>2 DEF Fits, CopiesFit
<1>4. QED  BY <1>2, <1>3 DEF Fits
-----------------------------------------------------------------------------
(* AudioInv is inductive: each action keeps it with the sent and got that  *)
(* its counters stand for afterwards.  A step keeps the types ...          *)
LEMMA StepKeepsType ==
  ASSUME AudioInv, Next
  PROVE  TypeOK'
<1>1. PICK sent \in 0 .. MaxMade, got \in 0 .. MaxMade : Fits(sent, got)  BY DEF AudioInv
<1>2. TypeOK /\ GameFits /\ HeardAsMade /\ CountersFit(sent, got) /\ PacketFits(sent, got)
  BY <1>1 DEF AudioInv, Fits
<1>3. {inLauncher', fault', failed', invalid'} \subseteq BOOLEAN  BY <1>2, FlagsKeepType
<1>4. /\ m' \in {"top", "health", "frame", "load", "fill", "refused", "draw", "open", "opened"}
      /\ stream' \in {"none", "paused", "playing"} /\ c' \in {"idle", "receive", "render"}
  BY <1>2, MainStaysInLoop
<1>5. /\ {game', games'} \subseteq 0 .. MaxGames /\ made' \in 0 .. MaxMade
      /\ left' \in 0 .. MaxFrames /\ {size', filled'} \subseteq 0 .. MaxPacket
      /\ room' \in 0 .. K /\ ends' \subseteq 0 .. MaxMade
  BY <1>2, BoundsKept
<1>6. {read', write', cread', cwrite'} \subseteq 0 .. M - 1  BY <1>2, CountersKeepType
<1>7. queue' \in [0 .. K - 1 -> Record]
  <2>1. CASE Fill  BY <1>2, <2>1, QueueKeepsType
  <2>2. CASE ~Fill
    <3>1. queue' = queue
      BY <2>2 DEF Next, Main, Callback, Top, Health, FramesOver, Frame, LoadRead, Publish,
        Refused, Draw, CloseGame, OpenGame, NotOpened, Opened, Enter, Receive, ReceiveThrows,
        Received, Render, fifo
    <3>2. QED  BY <1>2, <3>1, Types
  <2>3. QED  BY <2>1, <2>2
<1>8. heard' \in Seq(Record)
  <2>1. heard \in Seq(Record)  BY <1>2, Types
  <2>2. CASE Receive \/ ReceiveThrows
    <3>1. c = "receive"  BY <2>2 DEF Receive, ReceiveThrows
    <3>2. PICK w \in ends : cwrite = w % M /\ Len(heard) <= w
      BY <1>1, <3>1 DEF Fits, CopiesFit
    <3>3. Chunk(cread, cwrite) \in 0 .. w - Len(heard)
      BY <1>1, <1>2, <3>1, <3>2, GivenInOrder
    <3>4. Chunk(cread, cwrite) \in Nat
      <4>1. w \in Int /\ Len(heard) \in Int  BY <1>2, Types, Sizes
      <4>2. QED  BY <3>3, <4>1
    <3>5. PICK n \in Nat : heard' = heard \o Bytes(n)
      <4>1. CASE Receive  BY <3>4, <4>1 DEF Receive
      <4>2. CASE ReceiveThrows
        <5>1. PICK n \in 0 .. Chunk(cread, cwrite) : heard' = heard \o Bytes(n)
          BY <4>2 DEF ReceiveThrows
        <5>2. n \in Nat  BY <3>4
        <5>3. QED  BY <5>1, <5>2
      <4>3. QED  BY <2>2, <4>1, <4>2
    <3>6. QED  BY <1>2, <3>5, HeardKeepsType
  <2>3. CASE heard' = heard  BY <2>1, <2>3
  <2>4. CASE heard' = <<>>  BY <2>4, EmptySeq
  <2>5. Next => Receive \/ ReceiveThrows \/ heard' = heard \/ heard' = <<>>
    BY DEF Next, Main, Callback, Top, Health, FramesOver, Frame, LoadRead, Fill, Publish,
      Refused, Draw, CloseGame, OpenGame, NotOpened, Opened, Enter, Received, Render
  <2>6. QED  BY <2>2, <2>3, <2>4, <2>5
<1>9. QED  BY <1>3, <1>4, <1>5, <1>6, <1>7, <1>8 DEF TypeOK, Record

(* ... and what the counters, the packet, the copies and the queue say.    *)
LEMMA StepKeepsFit ==
  ASSUME AudioInv, Next
  PROVE  HeardAsMade' /\ \E sent, got \in 0 .. MaxMade : Fits(sent, got)'
<1>1. TypeOK /\ GameFits /\ HeardAsMade  BY DEF AudioInv
<1>2. PICK sent \in 0 .. MaxMade, got \in 0 .. MaxMade : Fits(sent, got)  BY DEF AudioInv
<1>3. CASE Top \/ Health \/ FramesOver \/ Refused \/ Draw \/ CloseGame \/ NotOpened \/ Opened
  <2>1. Aside  BY <1>1, <1>3, MostAreAside
  <2>2. QED  BY <1>1, <1>2, <2>1, AsideKeepsFit
<1>4. CASE Frame  BY <1>1, <1>2, <1>4, FrameKeepsFit
<1>5. CASE LoadRead  BY <1>1, <1>2, <1>5, LoadKeepsFit
<1>6. CASE Fill  BY <1>1, <1>2, <1>6, FillKeepsFit
<1>7. CASE Publish  BY <1>1, <1>2, <1>7, PublishKeepsFit
<1>8. CASE OpenGame
  <2>1. 0 \in 0 .. MaxMade  BY Sizes
  <2>2. HeardAsMade' /\ Fits(0, 0)'  BY <1>1, <1>8, OpenFits
  <2>3. QED  BY <2>1, <2>2
<1>9. CASE Enter  BY <1>1, <1>2, <1>9, EnterKeepsFit
<1>10. CASE Receive \/ ReceiveThrows  BY <1>1, <1>2, <1>10, ReceiveKeepsFit
<1>11. CASE Received  BY <1>1, <1>2, <1>11, ReceivedKeepsFit
<1>12. CASE Render  BY <1>1, <1>2, <1>12, RenderKeepsFit
<1>13. QED
  BY <1>3, <1>4, <1>5, <1>6, <1>7, <1>8, <1>9, <1>10, <1>11, <1>12 DEF Next, Main, Callback

(* No game, and nothing sent.                                              *)
LEMMA InitFits == Init => AudioInv
<1> SUFFICES ASSUME Init  PROVE AudioInv
  OBVIOUS
<1>1. NoByte \in Record  BY Sizes DEF NoByte, Record
<1>2. queue \in [0 .. K - 1 -> Record]
  <2>1. queue = [i \in 0 .. K - 1 |-> NoByte]  BY DEF Init
  <2>2. QED  BY <1>1, <2>1
<1>3. heard \in Seq(Record) /\ Len(heard) = 0  BY EmptySeq DEF Init
<1>4. {inLauncher, fault, failed, invalid} \subseteq BOOLEAN  BY Zenon DEF Init
<1>5. TypeOK  BY <1>2, <1>3, <1>4, Sizes DEF Init, TypeOK, Record
<1>6. GameFits  BY DEF Init, GameFits, Sending
<1>7. HeardAsMade  BY <1>3 DEF HeardAsMade
<1>8. 0 % M = 0 /\ 0 \in 0 .. MaxMade  BY Sizes, ModSmall
<1>9. CountersFit(0, 0)  BY <1>3, <1>8, Sizes DEF Init, CountersFit
<1>10. PacketFits(0, 0) /\ CopiesFit(0, 0)  BY <1>3 DEF Init, PacketFits, CopiesFit, Sending
<1>11. Written(0) = 0  BY DEF Init, Written
<1>12. Queued(0, 0)  BY <1>11 DEF Queued
<1>13. QED  BY <1>5, <1>6, <1>7, <1>8, <1>9, <1>10, <1>12 DEF AudioInv, Fits

(* Nothing happens.                                                        *)
LEMMA StutterKeepsFit ==
  ASSUME AudioInv, UNCHANGED vars
  PROVE  AudioInv'
<1> USE DEF vars, loop, play, send, fifo, flags, cb
<1>1. TypeOK'  BY DEF AudioInv, TypeOK
<1>2. GameFits' /\ HeardAsMade'  BY DEF AudioInv, GameFits, HeardAsMade, Sending, Byte
<1>3. PICK sent \in 0 .. MaxMade, got \in 0 .. MaxMade : Fits(sent, got)  BY DEF AudioInv
<1>4. CountersFit(sent, got)' /\ PacketFits(sent, got)' /\ CopiesFit(sent, got)'
  BY <1>3 DEF Fits, CountersFit, PacketFits, CopiesFit, Sending
<1>5. Queued(sent, got)'  BY <1>3 DEF Fits, Queued, Written, Byte
<1>6. QED  BY <1>1, <1>2, <1>3, <1>4, <1>5 DEF AudioInv, Fits

(* The counters, the queue, the packet main sends and what the callback    *)
(* has copied fit each other in every state of native_audio.h's queue.     *)
THEOREM QueueFits == Spec => []AudioInv
<1>1. Init => AudioInv  BY InitFits
<1>2. AudioInv /\ [Next]_vars => AudioInv'
  <2> SUFFICES ASSUME AudioInv, [Next]_vars  PROVE AudioInv'
    OBVIOUS
  <2>1. CASE Next
    <3>1. TypeOK'  BY <2>1, StepKeepsType
    <3>2. GameFits'  BY <2>1, GameKept DEF AudioInv
    <3>3. HeardAsMade' /\ \E sent, got \in 0 .. MaxMade : Fits(sent, got)'
      BY <2>1, StepKeepsFit
    <3>4. QED  BY <3>1, <3>2, <3>3 DEF AudioInv
  <2>2. CASE UNCHANGED vars  BY <2>2, StutterKeepsFit
  <2>3. QED  BY <2>1, <2>2
<1>3. QED  BY <1>1, <1>2, PTL DEF Spec

(* The engine is given the bytes of the game that is loaded, in order and  *)
(* none lost, torn or twice, over every wrap of read_ and write_ and after *)
(* every packet that send refuses.                                         *)
THEOREM CommandsHeardInOrder == Spec => []HeardAsMade
<1>1. AudioInv => HeardAsMade  BY DEF AudioInv
<1>2. QED  BY <1>1, QueueFits, PTL

(* Between the turns of the callback the engine has heard whole packets:   *)
(* write_ is stored once, when the packet is all there.                    *)
THEOREM PacketsHeardWhole == Spec => []WholePackets
<1>1. AudioInv => WholePackets
  BY DEF AudioInv, Fits, CopiesFit, WholePackets
<1>2. QED  BY <1>1, QueueFits, PTL
=============================================================================

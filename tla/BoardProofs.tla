----------------------------- MODULE BoardProofs -----------------------------
(***************************************************************************)
(* Theorems about Board, for every program and every value of the          *)
(* constants: BoardInv is inductive; that no interrupt is left and no      *)
(* callback passed follows from it, and with it the order of the bytes is  *)
(* inductive too.  First what With does to a log of one callback or none,  *)
(* and what a rising line leaves where; then one lemma for each action.    *)
(***************************************************************************)
EXTENDS Board, SequenceTheorems, FiniteSetTheorems, TLAPS

(* What InsertAt gives. *)
LEMMA Inserted ==
  ASSUME NEW S, NEW s \in Seq(S), NEW e \in S, NEW i \in 1 .. Len(s) + 1
  PROVE  /\ InsertAt(s, i, e) \in Seq(S)
         /\ Len(InsertAt(s, i, e)) = Len(s) + 1
         /\ InsertAt(s, i, e)[i] = e
         /\ \A j \in 1 .. i - 1 : InsertAt(s, i, e)[j] = s[j]
         /\ \A j \in i .. Len(s) : InsertAt(s, i, e)[j + 1] = s[j]
<1> DEFINE a == SubSeq(s, 1, i - 1)
           b == SubSeq(s, i, Len(s))
<1>0. Len(s) \in Nat /\ i \in Nat /\ \A j \in 1 .. Len(s) : s[j] \in S
  BY ElementOfSeq, LenProperties
<1>1. /\ a \in Seq(S) /\ Len(a) = i - 1
      /\ \A j \in 1 .. i - 1 : a[j] = s[j]
  BY <1>0, SubSeqProperties
<1>2. /\ b \in Seq(S) /\ Len(b) = Len(s) - i + 1
      /\ \A j \in 1 .. Len(s) - i + 1 : b[j] = s[i + j - 1]
  BY <1>0, SubSeqProperties
<1> HIDE DEF a, b
<1> DEFINE ae == a \o <<e>>
<1>3. /\ ae \in Seq(S) /\ Len(ae) = i /\ ae[i] = e
      /\ \A j \in 1 .. i - 1 : ae[j] = s[j]
  <2>1. <<e>> \in Seq(S) /\ Len(<<e>>) = 1 /\ <<e>>[1] = e
    OBVIOUS
  <2>2. /\ a \o <<e>> \in Seq(S) /\ Len(a \o <<e>>) = Len(a) + Len(<<e>>)
        /\ \A j \in 1 .. Len(a) + Len(<<e>>) :
             (a \o <<e>>)[j] = IF j <= Len(a) THEN a[j] ELSE <<e>>[j - Len(a)]
    BY ONLY <2>1, <1>1, ConcatProperties
  <2> QED
    BY <2>1, <2>2, <1>0, <1>1
<1>4. InsertAt(s, i, e) = ae \o b
  BY DEF InsertAt, a, b
<1> HIDE DEF ae
<1>5. /\ ae \o b \in Seq(S) /\ Len(ae \o b) = i + (Len(s) - i + 1)
      /\ \A j \in 1 .. i : (ae \o b)[j] = ae[j]
      /\ \A j \in i + 1 .. Len(s) + 1 : (ae \o b)[j] = b[j - i]
  BY <1>0, <1>2, <1>3, ConcatProperties
<1> QED
  BY <1>0, <1>2, <1>3, <1>4, <1>5

(* A callback is put into a log of one or none before what is later. *)
LEMMA WithFew ==
  ASSUME NEW q \in Seq(Callback), Len(q) <= 1,
         NEW call \in {"probe", "shift"}, NEW count \in Int
  PROVE  LET w == With(q, call, count)
             e == [call |-> call, at |-> count]
         IN  /\ w \in Seq(Callback) /\ Len(w) = Len(q) + 1
             /\ Len(q) = 0 => w[1] = e
             /\ Len(q) = 1 =>
                  \/ q[1].at < count /\ w[1] = q[1] /\ w[2] = e
                  \/ count <= q[1].at /\ w[1] = e /\ w[2] = q[1]
<1> DEFINE D == {i \in DOMAIN q : q[i].at < count}
           e == [call |-> call, at |-> count]
<1>a. Len(q) \in Nat /\ DOMAIN q = 1 .. Len(q)
  BY LenProperties
<1>0. Len(q) \in {0, 1} /\ DOMAIN q = 1 .. Len(q) /\ e \in Callback
  BY <1>a DEF Callback
<1>w. With(q, call, count) = InsertAt(q, Cardinality(D) + 1, e)
  BY DEF With
<1>1. CASE D = {}
  <2>1. Cardinality(D) = 0
    BY <1>1, FS_EmptySet
  <2>2. Len(q) = 1 => count <= q[1].at
    <3> SUFFICES ASSUME Len(q) = 1 PROVE count <= q[1].at
      OBVIOUS
    <3>1. 1 \in 1 .. Len(q)
      OBVIOUS
    <3>2. q[1] \in Callback
      BY ONLY <3>1, ElementOfSeq, q \in Seq(Callback)
    <3>3. 1 \in DOMAIN q /\ q[1].at \in Int
      BY <3>1, <3>2, <1>0 DEF Callback
    <3> QED
      BY <3>3, <1>1
  <2>3. With(q, call, count) = InsertAt(q, 1, e)
    BY <2>1, <1>w
  <2>4. /\ InsertAt(q, 1, e) \in Seq(Callback) /\ Len(InsertAt(q, 1, e)) = Len(q) + 1
        /\ InsertAt(q, 1, e)[1] = e
        /\ \A j \in 1 .. Len(q) : InsertAt(q, 1, e)[j + 1] = q[j]
    <3>1. 1 \in 1 .. Len(q) + 1
      BY <1>0
    <3> HIDE DEF e
    <3> QED
      BY ONLY <3>1, <1>0, Inserted, q \in Seq(Callback)
  <2> QED
    BY <1>0, <2>2, <2>3, <2>4
<1>2. CASE D # {}
  <2>0. PICK i \in DOMAIN q : q[i].at < count
    BY <1>2
  <2>1. Len(q) = 1 /\ i = 1 /\ D = {1}
    BY <1>0, <2>0
  <2>2. Cardinality({1}) = 1
    BY FS_Singleton
  <2>3. With(q, call, count) = InsertAt(q, 2, e)
    <3> HIDE DEF D, e
    <3> QED
      BY <2>1, <2>2, <1>w
  <2>4. /\ InsertAt(q, 2, e) \in Seq(Callback) /\ Len(InsertAt(q, 2, e)) = Len(q) + 1
        /\ InsertAt(q, 2, e)[2] = e
        /\ \A j \in 1 .. 2 - 1 : InsertAt(q, 2, e)[j] = q[j]
    <3>1. \A k \in 1 .. Len(q) + 1 :
            /\ InsertAt(q, k, e) \in Seq(Callback) /\ Len(InsertAt(q, k, e)) = Len(q) + 1
            /\ InsertAt(q, k, e)[k] = e
            /\ \A j \in 1 .. k - 1 : InsertAt(q, k, e)[j] = q[j]
      <4> HIDE DEF e
      <4> QED
        BY ONLY <1>0, Inserted, q \in Seq(Callback)
    <3>2. 2 \in 1 .. Len(q) + 1
      BY <2>1
    <3> HIDE DEF e
    <3> QED
      BY ONLY <3>1, <3>2
  <2> QED
    BY <1>0, <2>0, <2>1, <2>3, <2>4
<1> QED
  BY <1>1, <1>2

(* Time goes on: every count comes closer. *)
LEMMA Nearer ==
  ASSUME NEW q \in Seq(Callback), NEW n \in Int
  PROVE  LET w == [i \in DOMAIN q |-> [q[i] EXCEPT !.at = @ - n]]
         IN  /\ w \in Seq(Callback) /\ Len(w) = Len(q)
             /\ \A i \in 1 .. Len(q) : w[i].call = q[i].call /\ w[i].at = q[i].at - n
<1> DEFINE w == [i \in DOMAIN q |-> [q[i] EXCEPT !.at = @ - n]]
<1>1. Len(q) \in Nat /\ DOMAIN q = 1 .. Len(q)
  BY LenProperties
<1>2. \A i \in 1 .. Len(q) : q[i] \in Callback
  BY ElementOfSeq
<1>3. \A i \in 1 .. Len(q) : /\ w[i] \in Callback
                             /\ w[i].call = q[i].call /\ w[i].at = q[i].at - n
  BY <1>1, <1>2 DEF Callback
<1>4. w \in [1 .. Len(q) -> Callback]
  BY <1>1, <1>3
<1>5. w \in Seq(Callback) /\ Len(w) = Len(q)
  <2> HIDE DEF w
  <2> QED
    BY <1>1, <1>4
<1> QED
  BY <1>3, <1>5

LEMMA AfterType == ASSUME NEW b \in Byte PROVE After(b) \in Byte
<1>1. Bytes \in Nat \ {0} /\ b + 1 \in Int
  BY CountAssumption DEF Byte
<1>2. (b + 1) % Bytes \in 0 .. Bytes - 1
  BY <1>1
<1> QED
  BY <1>2 DEF After, Byte

(* Where a line that rises leaves its interrupt. *)
LEMMA Risen ==
  ASSUME TypeOK, NoneStranded, RequestFits,
         NEW req \in SUBSET Lines, irq_update(req)
  PROVE  /\ intreq' = req /\ lines' = req
         /\ waiting' \in Lines \cup {"none"} /\ table' \in SUBSET Lines
         /\ waiting # "none" => waiting' = waiting
         /\ waiting' # "none" => waiting' = waiting \/ (Takes /\ req # lines)
         /\ table' # {} => handler # "main" \/ masked \/ waiting' # "none"
         /\ waiting' = "uart" \/ "uart" \in table'
              => waiting = "uart" \/ "uart" \in table \/ ("uart" \in req /\ "uart" \notin lines)
         /\ waiting' = "uart" => "uart" \notin table'
<1> DEFINE up == req \ lines
           first == IF "vblank" \in up THEN "vblank" ELSE "uart"
<1>1. intreq' = req /\ lines' = req /\ Raise(up)
  BY DEF irq_update
<1>2. up \in SUBSET Lines /\ (up # {} => first \in up) /\ (up # {} => req # lines)
  BY DEF Lines
<1>3. waiting = "uart" \/ "uart" \in table => "uart" \in lines
  BY DEF RequestFits
<1>4. CASE up # {} /\ Takes /\ waiting = "none"
  <2>1. waiting' = first /\ table' = table \cup (up \ {first})
    BY <1>1, <1>4 DEF Raise
  <2>2. waiting' # "none"
    BY <2>1, <1>2 DEF Lines
  <2>3. waiting' = "uart" => "uart" \notin table
    BY <2>1, <1>2, <1>3, <1>4
  <2> QED
    BY <1>1, <1>2, <1>4, <2>1, <2>2, <2>3 DEF TypeOK
<1>5. CASE ~(up # {} /\ Takes /\ waiting = "none")
  <2>1. waiting' = waiting /\ table' = table \cup up
    BY <1>1, <1>5 DEF Raise
  <2>2. up # {} => handler # "main" \/ masked \/ waiting # "none"
    BY <1>5 DEF Takes
  <2>3. waiting = "uart" => "uart" \notin up
    BY <1>3
  <2> QED
    BY <1>1, <1>2, <2>1, <2>2, <2>3 DEF TypeOK, NoneStranded, RequestFits
<1> QED
  BY <1>4, <1>5

-----------------------------------------------------------------------------
(* What every instruction of a block leaves, whatever it accesses.         *)
LEMMA InstructionFacts ==
  ASSUME BoardInv, Access
  PROVE  /\ phase = "go" /\ phase' \in {"go", "done"}
         /\ pos \in Nat /\ pos' = pos + 1 /\ pos' \in 1 .. MaxBlock /\ pos < MaxBlock
         /\ phase' = "go" => pos' < MaxBlock
         /\ at' = 0 /\ at = 0 /\ missed' = missed
         /\ ended' = ended /\ in_vblank' = in_vblank /\ since' = since
         /\ next \in Int /\ log[1].at \in Int /\ next <= log[1].at
         /\ waiting # "none" /\ ~missed => handler = "main" /\ ~masked /\ pos > 0 /\ next <= pos
<1>0. MaxBlock \in Nat
  BY CountAssumption
<1>1. /\ phase = "go" /\ phase' \in {"go", "done"} /\ pos' = pos + 1 /\ at' = at
      /\ missed' = missed /\ ended' = ended /\ in_vblank' = in_vblank /\ since' = since
      /\ phase' = "go" => pos' < MaxBlock
  BY DEF Access, EndBlock, Instruction, frame
<1>2. pos \in Nat /\ next \in Int
  BY <1>0 DEF BoardInv, TypeOK
<1>3. at = 0 /\ next <= log[1].at /\ pos < MaxBlock /\ (pos = 0 => next > 0)
  BY <1>1 DEF BoardInv, NextFits
<1>4. log[1].at \in Int
  <2>1. 1 \in 1 .. Len(log)
    BY DEF BoardInv, CallbacksFit
  <2>2. log[1] \in Callback
    BY <2>1, ElementOfSeq DEF BoardInv, TypeOK
  <2> QED
    BY <2>2 DEF Callback
<1>5. waiting # "none" /\ ~missed => handler = "main" /\ ~masked /\ next <= pos
  BY <1>1 DEF BoardInv, WaitingFits
<1> QED
  BY <1>0, <1>1, <1>2, <1>3, <1>4, <1>5

(* One of them further, the probe is no farther from the start of the block. *)
LEMMA CallbacksStay ==
  ASSUME BoardInv, pos' \in Int, pos <= pos', UNCHANGED <<log, busy>>
  PROVE  CallbacksFit'
<1>1. pos \in Int /\ kProbe \in Int
  BY CountAssumption DEF BoardInv, TypeOK
<1>2. PICK i \in DOMAIN log : log[i].call = "probe" /\ log[i].at <= kProbe + pos
  BY DEF BoardInv, CallbacksFit
<1>3. log[i].at \in Int
  <2>1. DOMAIN log = 1 .. Len(log) /\ log \in Seq(Callback)
    BY LenProperties DEF BoardInv, TypeOK
  <2>2. log[i] \in Callback
    BY <2>1, ElementOfSeq
  <2> QED
    BY <2>2 DEF Callback
<1>4. log[i].at <= kProbe + pos'
  BY <1>1, <1>2, <1>3
<1> QED
  BY <1>2, <1>4 DEF BoardInv, CallbacksFit

(* A register that may change a line: none of these writes touches the log. *)
LEMMA AccessFacts ==
  ASSUME BoardInv, Access, NEW req \in SUBSET Lines, irq_update(req), next' = Poked(req, next),
         UNCHANGED <<log, masked, handler, busy>>
  PROVE  /\ phase' \in {"go", "done"} /\ pos' \in 0 .. MaxBlock /\ at' = 0
         /\ missed' = missed /\ ended' = ended /\ in_vblank' = in_vblank /\ since' = since
         /\ next' \in Int /\ NextFits' /\ CallbacksFit' /\ WaitingFits'
<1>1. /\ phase = "go" /\ phase' \in {"go", "done"}
      /\ pos \in Nat /\ pos' = pos + 1 /\ pos' \in 1 .. MaxBlock /\ pos < MaxBlock
      /\ phase' = "go" => pos' < MaxBlock
      /\ at' = 0 /\ at = 0 /\ missed' = missed
      /\ ended' = ended /\ in_vblank' = in_vblank /\ since' = since
      /\ next \in Int /\ log[1].at \in Int /\ next <= log[1].at
      /\ waiting # "none" /\ ~missed => handler = "main" /\ ~masked /\ pos > 0 /\ next <= pos
  BY InstructionFacts
<1>2. next' \in Int /\ next' <= next /\ (req # lines => next' <= 1)
  BY <1>1 DEF Poked, Least
<1>3. pos' \in 0 .. MaxBlock
  BY <1>1, CountAssumption
<1>4. NextFits'
  BY <1>1, <1>2 DEF NextFits
<1>5. CallbacksFit'
  <2>1. pos' \in Int /\ pos <= pos'
    BY <1>1
  <2> QED
    BY <2>1, CallbacksStay
<1>6. /\ waiting # "none" => waiting' = waiting
      /\ waiting' # "none" => waiting' = waiting \/ (Takes /\ req # lines)
  BY Risen DEF BoardInv
<1>7. WaitingFits'
  <2>1. missed' => waiting' # "none" /\ MaxBlock > 1
    BY <1>1, <1>6 DEF BoardInv, WaitingFits
  <2>2. ASSUME waiting' # "none", ~missed'
        PROVE  handler' = "main" /\ ~masked' /\ next' <= pos'
    <3>1. CASE waiting' = waiting
      BY <2>2, <3>1, <1>1, <1>2
    <3>2. CASE Takes /\ req # lines
      BY <3>2, <1>1, <1>2 DEF Takes
    <3> QED
      BY <2>2, <3>1, <3>2, <1>6
  <2> QED
    BY <2>1, <2>2 DEF WaitingFits
<1> QED
  BY <1>1, <1>2, <1>3, <1>4, <1>5, <1>7

LEMMA EnableKeeps ==
  ASSUME BoardInv, Access, NEW ena \in SUBSET Lines, irq_enable_w(ena),
         UNCHANGED <<log, masked, handler, uart>>,
         step' = step \/ (step = "serve" /\ step' = "leave"), step' # "serve",
         queue' \in Seq(Byte) /\ made' \in Byte /\ taken' \in Byte
  PROVE  BoardInv'
<1> DEFINE req == IF txrdy /\ "uart" \in ena THEN intreq \cup {"uart"} ELSE intreq
<1>1. intena' = ena /\ irq_update(req) /\ next' = Poked(req, next)
  BY DEF irq_enable_w
<1>2. req \in SUBSET Lines
  BY DEF BoardInv, TypeOK, Lines
<1>3. "uart" \in req => "uart" \in intreq \/ txrdy
  OBVIOUS
<1>4. intreq \subseteq req
  OBVIOUS
<1> HIDE DEF req
<1>5. /\ intreq' = req /\ lines' = req
      /\ waiting' \in Lines \cup {"none"} /\ table' \in SUBSET Lines
      /\ waiting # "none" => waiting' = waiting
      /\ waiting' # "none" => waiting' = waiting \/ (Takes /\ req # lines)
      /\ table' # {} => handler # "main" \/ masked \/ waiting' # "none"
      /\ waiting' = "uart" \/ "uart" \in table'
           => waiting = "uart" \/ "uart" \in table \/ ("uart" \in req /\ "uart" \notin lines)
      /\ waiting' = "uart" => "uart" \notin table'
  BY <1>1, <1>2, Risen DEF BoardInv
<1>6. /\ phase' \in {"go", "done"} /\ pos' \in 0 .. MaxBlock /\ at' = 0
      /\ missed' = missed /\ ended' = ended /\ in_vblank' = in_vblank /\ since' = since
      /\ next' \in Int /\ NextFits' /\ CallbacksFit' /\ WaitingFits'
  BY <1>1, <1>2, AccessFacts DEF uart
<1>7. TypeOK'
  BY <1>1, <1>2, <1>5, <1>6 DEF BoardInv, TypeOK, uart
<1>8. HandlerFits' /\ NoneStranded'
  BY <1>5, <1>6 DEF BoardInv, HandlerFits, NoneStranded
<1>9. RequestFits'
  BY <1>4, <1>5, <1>6 DEF BoardInv, RequestFits, Entered
<1>10. HoldFits'
  BY <1>3, <1>5 DEF BoardInv, HoldFits, uart
<1> QED
  BY <1>6, <1>7, <1>8, <1>9, <1>10 DEF BoardInv

LEMMA EnableVblankKeeps == ASSUME BoardInv, EnableVblank PROVE BoardInv'
<1>1. intena \cup {"vblank"} \in SUBSET Lines
  BY DEF BoardInv, TypeOK, Lines
<1>2. queue' \in Seq(Byte) /\ made' \in Byte /\ taken' \in Byte
  BY DEF EnableVblank, game, BoardInv, TypeOK
<1>3. step # "serve"
  BY DEF EnableVblank, BoardInv, HandlerFits
<1> QED
  BY <1>1, <1>2, <1>3, EnableKeeps DEF EnableVblank

LEMMA SoundCommandKeeps == ASSUME BoardInv, SoundCommand PROVE BoardInv'
<1>1. intena \cup {"uart"} \in SUBSET Lines
  BY DEF BoardInv, TypeOK, Lines
<1>2. made' \in Byte /\ taken' \in Byte /\ queue \in Seq(Byte) /\ queue' = Append(queue, made')
  BY AfterType DEF SoundCommand, BoardInv, TypeOK
<1>3. queue' \in Seq(Byte)
  BY <1>2, AppendProperties
<1>4. step # "serve"
  BY DEF SoundCommand, BoardInv, HandlerFits
<1> QED
  BY <1>1, <1>2, <1>3, <1>4, EnableKeeps DEF SoundCommand

LEMMA NothingToSendKeeps == ASSUME BoardInv, NothingToSend PROVE BoardInv'
<1>1. intena \ {"uart"} \in SUBSET Lines
  BY DEF BoardInv, TypeOK
<1>2. queue' \in Seq(Byte) /\ made' \in Byte /\ taken' \in Byte
  BY DEF NothingToSend, game, BoardInv, TypeOK
<1> QED
  BY <1>1, <1>2, EnableKeeps DEF NothingToSend

(* The acknowledgement: from here on no interrupt of the UART is anywhere. *)
LEMMA AcknowledgeKeeps == ASSUME BoardInv, Acknowledge PROVE BoardInv'
<1> DEFINE req == intreq \ {handler}
<1>1. /\ Access /\ step = "ack" /\ step' = IF handler = "uart" THEN "serve" ELSE "leave"
      /\ irq_update(req) /\ next' = Poked(req, next)
      /\ UNCHANGED <<log, masked, handler, intena, uart, game>>
  BY DEF Acknowledge, irq_ack_w
<1>2. req \in SUBSET Lines
  BY DEF BoardInv, TypeOK
<1>3. handler # "uart" => ("uart" \in req <=> "uart" \in intreq)
  OBVIOUS
<1>4. ("uart" \in req => "uart" \in intreq) /\ (handler = "uart" => "uart" \notin req)
  OBVIOUS
<1> HIDE DEF req
<1>5. /\ intreq' = req /\ lines' = req
      /\ waiting' \in Lines \cup {"none"} /\ table' \in SUBSET Lines
      /\ waiting # "none" => waiting' = waiting
      /\ waiting' # "none" => waiting' = waiting \/ (Takes /\ req # lines)
      /\ table' # {} => handler # "main" \/ masked \/ waiting' # "none"
      /\ waiting' = "uart" \/ "uart" \in table'
           => waiting = "uart" \/ "uart" \in table \/ ("uart" \in req /\ "uart" \notin lines)
      /\ waiting' = "uart" => "uart" \notin table'
  BY <1>1, <1>2, Risen DEF BoardInv
<1>6. /\ phase' \in {"go", "done"} /\ pos' \in 0 .. MaxBlock /\ at' = 0
      /\ missed' = missed /\ ended' = ended /\ in_vblank' = in_vblank /\ since' = since
      /\ next' \in Int /\ NextFits' /\ CallbacksFit' /\ WaitingFits'
  BY <1>1, <1>2, AccessFacts DEF uart
<1>a. handler \in Lines
  BY <1>1 DEF BoardInv, HandlerFits, TypeOK
<1>7. TypeOK'
  BY <1>1, <1>2, <1>5, <1>6 DEF BoardInv, TypeOK, uart, game
<1>8. HandlerFits' /\ NoneStranded'
  BY <1>1, <1>a, <1>5, <1>6 DEF BoardInv, HandlerFits, NoneStranded
<1>9. RequestFits'
  BY <1>1, <1>3, <1>4, <1>5, <1>6 DEF BoardInv, RequestFits, Entered
<1>10. HoldFits'
  BY <1>1, <1>4, <1>5 DEF BoardInv, HoldFits, RequestFits, Entered, uart
<1> QED
  BY <1>6, <1>7, <1>8, <1>9, <1>10 DEF BoardInv

LEMMA MaskKeeps == ASSUME BoardInv, Mask PROVE BoardInv'
<1>1. /\ Access /\ phase' = "done" /\ handler = "main" /\ masked' = TRUE
      /\ UNCHANGED <<log, next, waiting, table, handler, step, intreq, intena, lines,
                     txrdy, busy, hold, out, queue, made, taken>>
  BY DEF Mask, Access, EndBlock, irq, uart, game
<1>2. /\ phase = "go" /\ pos \in Nat /\ pos' = pos + 1 /\ pos' \in 1 .. MaxBlock
      /\ pos < MaxBlock /\ at' = 0 /\ at = 0 /\ missed' = missed
      /\ ended' = ended /\ in_vblank' = in_vblank /\ since' = since
      /\ next \in Int /\ log[1].at \in Int /\ next <= log[1].at
      /\ waiting # "none" /\ ~missed => handler = "main" /\ ~masked /\ pos > 0 /\ next <= pos
  BY <1>1, InstructionFacts
<1>3. masked' \in BOOLEAN /\ pos' \in 0 .. MaxBlock /\ MaxBlock \in Nat
  BY <1>1, <1>2, CountAssumption
<1>4. TypeOK'
  BY <1>1, <1>2, <1>3 DEF BoardInv, TypeOK
<1>5. CallbacksFit' /\ RequestFits' /\ HoldFits'
  BY <1>1, <1>2, CallbacksStay DEF BoardInv, RequestFits, Entered, HoldFits
<1>6. NextFits' /\ HandlerFits' /\ NoneStranded'
  BY <1>1, <1>2 DEF BoardInv, NextFits, HandlerFits, NoneStranded
<1>7. WaitingFits'
  <2>1. waiting # "none" /\ ~missed => MaxBlock > 1 /\ next <= pos'
    BY <1>2, <1>3
  <2> QED
    BY <1>1, <1>2, <2>1 DEF BoardInv, WaitingFits
<1> QED
  BY <1>4, <1>5, <1>6, <1>7 DEF BoardInv

(* What fetches an interrupt from the pending table. *)
LEMMA FetchKeeps ==
  ASSUME BoardInv, Access,
         UNCHANGED <<log, next, waiting, irq, uart, game>>,
         masked' = FALSE, masked \/ step = "leave",
         \/ table = {} /\ table' = {} /\ handler' = "main" /\ step' = "out"
         \/ \E l \in table : /\ handler' = l /\ step' = "ack" /\ table' = table \ {l}
  PROVE  BoardInv'
<1>1. UNCHANGED <<log, next, waiting, intreq, intena, lines, txrdy, busy, hold, out,
                 queue, made, taken>>
  BY DEF irq, uart, game
<1>2. /\ phase = "go" /\ phase' \in {"go", "done"}
      /\ pos \in Nat /\ pos' = pos + 1 /\ pos' \in 1 .. MaxBlock
      /\ phase' = "go" => pos' < MaxBlock
      /\ at' = 0 /\ at = 0 /\ missed' = missed
      /\ ended' = ended /\ in_vblank' = in_vblank /\ since' = since
      /\ next \in Int /\ log[1].at \in Int /\ next <= log[1].at
      /\ waiting # "none" /\ ~missed => handler = "main" /\ ~masked
  BY InstructionFacts
<1>b. pos' \in 0 .. MaxBlock
  BY <1>2, CountAssumption
<1>3. masked' \in BOOLEAN
  OBVIOUS
<1>4. table \in SUBSET Lines /\ "main" \notin Lines
  BY DEF BoardInv, TypeOK, Lines
<1>5. TypeOK'
  BY <1>1, <1>2, <1>b, <1>3, <1>4 DEF BoardInv, TypeOK
<1>6. CallbacksFit'
  BY <1>1, <1>2, CallbacksStay
<1>a. waiting = "none" \/ missed
  BY <1>2 DEF BoardInv, HandlerFits
<1>7. NextFits' /\ WaitingFits'
  BY <1>1, <1>2, <1>a DEF BoardInv, NextFits, WaitingFits
<1>8. HandlerFits' /\ NoneStranded'
  BY <1>4 DEF HandlerFits, NoneStranded
<1>10. RequestFits'
  BY <1>1, <1>4 DEF BoardInv, RequestFits, Entered
<1>11. HoldFits'
  BY <1>1 DEF BoardInv, HoldFits
<1> QED
  BY <1>5, <1>6, <1>7, <1>8, <1>10, <1>11 DEF BoardInv

LEMMA UnmaskKeeps == ASSUME BoardInv, Unmask PROVE BoardInv'
<1>1. /\ Access /\ masked /\ masked' = FALSE
      /\ UNCHANGED <<log, next, waiting, irq, uart, game>>
  BY DEF Unmask, Access
<1>2. handler = "main" /\ step = "out"
  BY <1>1 DEF BoardInv, HandlerFits
<1>3. \/ table = {} /\ table' = {} /\ handler' = "main" /\ step' = "out"
      \/ \E l \in table : /\ handler' = l /\ step' = "ack" /\ table' = table \ {l}
  BY <1>2 DEF Unmask, check_pending_irqs, Enter, BoardInv, TypeOK, Lines
<1> QED
  BY <1>1, <1>2, <1>3, FetchKeeps

LEMMA ReturnKeeps == ASSUME BoardInv, Return PROVE BoardInv'
<1>1. /\ Access /\ step = "leave" /\ masked' = masked
      /\ UNCHANGED <<log, next, waiting, irq, uart, game>>
  BY DEF Return, Access
<1>2. masked' = FALSE
  BY <1>1 DEF BoardInv, HandlerFits, TypeOK
<1>3. \/ table = {} /\ table' = {} /\ handler' = "main" /\ step' = "out"
      \/ \E l \in table : /\ handler' = l /\ step' = "ack" /\ table' = table \ {l}
  BY <1>1 DEF Return, check_pending_irqs, Enter, BoardInv, TypeOK, Lines
<1> QED
  BY <1>1, <1>2, <1>3, FetchKeeps

(* The byte goes into an empty register, and starts the shifter if it      *)
(* stands still: the end of a shift is the one more callback in the log.   *)
LEMMA TransmitKeeps == ASSUME BoardInv, Transmit PROVE BoardInv'
<1>1. /\ step = "serve" /\ step' = "leave" /\ queue # <<>>
      /\ queue' = Tail(queue) /\ hold' = <<Head(queue)>> /\ txrdy' = FALSE /\ busy' = TRUE
      /\ IF busy THEN UNCHANGED <<log, next>> ELSE add_callback("shift", at + 1)
      /\ UNCHANGED <<waiting, table, masked, handler, intreq, intena, lines, out, made, taken>>
  BY DEF Transmit, uart_write_data, irq
<1>0. /\ phase = "go" /\ phase' \in {"go", "done"}
      /\ pos \in Nat /\ pos' = pos + 1 /\ pos' \in 1 .. MaxBlock
      /\ phase' = "go" => pos' < MaxBlock
      /\ at' = 0 /\ at = 0 /\ missed' = missed
      /\ ended' = ended /\ in_vblank' = in_vblank /\ since' = since
      /\ waiting # "none" /\ ~missed => handler = "main"
  BY InstructionFacts DEF Transmit
<1>2. at = 0 /\ handler = "uart" /\ txrdy /\ (waiting = "none" \/ missed)
  BY <1>0, <1>1 DEF BoardInv, HandlerFits, HoldFits
<1>a. pos' \in 0 .. MaxBlock /\ pos <= pos' /\ pos' \in Int
  BY <1>0, CountAssumption
<1>3. Head(queue) \in Byte /\ Tail(queue) \in Seq(Byte)
  BY <1>1, HeadTailProperties DEF BoardInv, TypeOK
<1>4. log' \in Seq(Callback) /\ next' \in Int /\ CallbacksFit' /\ NextFits'
  <2>1. CASE busy
    <3>1. CallbacksFit'
      BY <1>1, <1>a, <2>1, CallbacksStay
    <3> QED
      BY <1>0, <1>1, <2>1, <3>1 DEF BoardInv, TypeOK, NextFits
  <2>2. CASE ~busy
    <3>1. log \in Seq(Callback) /\ Len(log) = 1 /\ log[1].call = "probe"
          /\ log[1].at <= kProbe + pos
      BY <2>2, LenProperties DEF BoardInv, TypeOK, CallbacksFit
    <3>2. log' = With(log, "shift", 1) /\ next' = log'[1].at
      BY <1>1, <1>2, <2>2 DEF add_callback, Head_
    <3>3. /\ log' \in Seq(Callback) /\ Len(log') = 2
          /\ \/ log[1].at < 1 /\ log'[1] = log[1] /\ log'[2] = [call |-> "shift", at |-> 1]
             \/ 1 <= log[1].at /\ log'[1] = [call |-> "shift", at |-> 1] /\ log'[2] = log[1]
      <4>1. Len(log) <= 1 /\ "shift" \in {"probe", "shift"} /\ 1 \in Int
        BY <3>1
      <4>2. LET w == With(log, "shift", 1)
                e == [call |-> "shift", at |-> 1]
            IN  /\ w \in Seq(Callback) /\ Len(w) = Len(log) + 1
                /\ Len(log) = 0 => w[1] = e
                /\ Len(log) = 1 =>
                     \/ log[1].at < 1 /\ w[1] = log[1] /\ w[2] = e
                     \/ 1 <= log[1].at /\ w[1] = e /\ w[2] = log[1]
        BY ONLY <4>1, <3>1, WithFew
      <4> QED
        BY <3>1, <3>2, <4>2
    <3>4. DOMAIN log' = 1 .. 2
      BY <3>3, LenProperties
    <3>5. 1 \in 1 .. Len(log) /\ 1 \in 1 .. Len(log')
      BY <3>1, <3>3
    <3>6. log[1] \in Callback /\ log'[1] \in Callback
      BY <3>1, <3>3, <3>5, ElementOfSeq
    <3>7. log'[1].at \in Int /\ log[1].at \in Int
      BY <3>6 DEF Callback
    <3>8. CallbacksFit'
      <4>0. log[1].at <= kProbe + pos'
        BY <1>0, <3>1, <3>7, CountAssumption
      <4>1. \E i \in 1 .. 2 : log'[i].call = "probe" /\ log'[i].at <= kProbe + pos'
        BY <3>1, <3>3, <4>0
      <4>2. log'[1].call # log'[2].call /\ log'[1].at <= log'[2].at
        BY <3>1, <3>3, <3>7
      <4> QED
        BY <1>1, <3>3, <3>4, <4>1, <4>2 DEF CallbacksFit
    <3>9. NextFits'
      BY <1>0, <3>2, <3>7 DEF NextFits
    <3> QED
      BY <3>2, <3>3, <3>7, <3>8, <3>9
  <2> QED
    BY <2>1, <2>2 DEF BoardInv, TypeOK
<1>5. TypeOK'
  <2>1. hold' \in Seq(Byte)
    BY <1>1, <1>3
  <2>2. txrdy' \in BOOLEAN
    BY <1>1, Zenon
  <2>3. busy' \in BOOLEAN
    BY <1>1, Zenon
  <2> QED
    BY <1>0, <1>a, <1>1, <1>3, <1>4, <2>1, <2>2, <2>3 DEF BoardInv, TypeOK
<1>6. HandlerFits' /\ WaitingFits' /\ NoneStranded' /\ RequestFits'
  BY <1>0, <1>1, <1>2
     DEF BoardInv, HandlerFits, WaitingFits, NoneStranded, RequestFits, Entered
<1>7. HoldFits'
  BY <1>1, <1>2 DEF BoardInv, HoldFits, RequestFits
<1> QED
  BY <1>4, <1>5, <1>6, <1>7 DEF BoardInv

-----------------------------------------------------------------------------
(* The machine.                                                            *)
LEMMA HeadIsInt ==
  ASSUME TypeOK, CallbacksFit
  PROVE  /\ Len(log) \in {1, 2} /\ DOMAIN log = 1 .. Len(log)
         /\ log[1] \in Callback /\ log[1].at \in Int
         /\ busy => log[2] \in Callback /\ log[2].at \in Int
<1>1. Len(log) \in {1, 2} /\ DOMAIN log = 1 .. Len(log) /\ (busy => Len(log) = 2)
  BY LenProperties DEF TypeOK, CallbacksFit
<1>2. 1 \in 1 .. Len(log) /\ (busy => 2 \in 1 .. Len(log))
  BY <1>1
<1>3. log[1] \in Callback /\ (busy => log[2] \in Callback)
  BY <1>2, ElementOfSeq DEF TypeOK
<1> QED
  BY <1>1, <1>3 DEF Callback

LEMMA PassKeeps == ASSUME BoardInv, Pass PROVE BoardInv'
<1>1. /\ phase = "boundary" /\ next > 0 /\ phase' = "go"
      /\ UNCHANGED <<pos, at, log, next, ended, in_vblank, since, waiting, missed, table, masked,
                     handler, step, intreq, intena, lines, txrdy, busy, hold, out,
                     queue, made, taken>>
  BY DEF Pass, sched, frame, cpu, irq, uart, game
<1>2. next \in Int /\ pos = 0 /\ 0 < MaxBlock
  BY <1>1, CountAssumption DEF BoardInv, TypeOK, NextFits
<1>3. waiting = "none" \/ missed
  BY <1>1, <1>2 DEF BoardInv, WaitingFits
<1>4. TypeOK' /\ CallbacksFit' /\ HandlerFits' /\ NoneStranded' /\ RequestFits' /\ HoldFits'
  BY <1>1 DEF BoardInv, TypeOK, CallbacksFit, HandlerFits, NoneStranded, RequestFits, Entered,
              HoldFits
<1>5. NextFits' /\ WaitingFits'
  BY <1>1, <1>2, <1>3 DEF BoardInv, NextFits, WaitingFits
<1> QED
  BY <1>4, <1>5 DEF BoardInv

LEMMA DueKeeps == ASSUME BoardInv, Due PROVE BoardInv'
<1>1. /\ phase = "boundary" /\ next <= 0 /\ phase' = "apply" /\ at' = next
      /\ UNCHANGED <<pos, log, next, ended, in_vblank, since, waiting, missed, table, masked,
                     handler, step, intreq, intena, lines, txrdy, busy, hold, out,
                     queue, made, taken>>
  BY DEF Due, frame, cpu, irq, uart, game
<1>4. TypeOK' /\ CallbacksFit' /\ HandlerFits' /\ NoneStranded' /\ RequestFits' /\ HoldFits'
  BY <1>1 DEF BoardInv, TypeOK, CallbacksFit, HandlerFits, NoneStranded, RequestFits, Entered,
              HoldFits
<1>5. NextFits'
  BY <1>1 DEF BoardInv, NextFits
<1>6. WaitingFits'
  BY <1>1 DEF BoardInv, WaitingFits
<1> QED
  BY <1>4, <1>5, <1>6 DEF BoardInv

LEMMA run_frameKeeps == ASSUME BoardInv, run_frame PROVE BoardInv'
<1>1. /\ ended' = FALSE /\ out' = <<>> /\ taken' = Last(<<taken>> \o out)
      /\ UNCHANGED <<phase, pos, at, log, next, in_vblank, since, waiting, missed, table, masked,
                     handler, step, intreq, intena, lines, txrdy, busy, hold, queue, made>>
  BY DEF run_frame, sched, cpu, irq
<1>2. taken' \in Byte
  <2>1. <<taken>> \in Seq(Byte) /\ Len(<<taken>>) = 1 /\ out \in Seq(Byte)
    BY DEF BoardInv, TypeOK
  <2>2. /\ <<taken>> \o out \in Seq(Byte)
        /\ Len(<<taken>> \o out) = Len(<<taken>>) + Len(out)
    BY ONLY <2>1, ConcatProperties
  <2>3. Len(out) \in Nat
    BY ONLY <2>1, LenProperties
  <2>4. Len(<<taken>> \o out) \in 1 .. Len(<<taken>> \o out)
    BY <2>1, <2>2, <2>3
  <2> QED
    BY <1>1, <2>2, <2>4, ElementOfSeq DEF Last
<1>3. ended' \in BOOLEAN
  BY <1>1, Zenon
<1>4. out' \in Seq(Byte)
  BY <1>1
<1>5. TypeOK'
  BY <1>1, <1>2, <1>3, <1>4 DEF BoardInv, TypeOK
<1>6. CallbacksFit' /\ HandlerFits' /\ NoneStranded' /\ RequestFits' /\ HoldFits' /\ NextFits'
  BY <1>1 DEF BoardInv, CallbacksFit, HandlerFits, NoneStranded, RequestFits, Entered, HoldFits,
              NextFits
<1>7. WaitingFits'
  BY <1>1 DEF BoardInv, WaitingFits
<1> QED
  BY <1>5, <1>6, <1>7 DEF BoardInv

(* Counts that come closer, or come back, all together. *)
LEMMA ElapseKeeps ==
  ASSUME BoardInv, NEW n \in Int, Elapse(n), phase \in {"go", "done", "midway"},
         phase' \in {"boundary", "go", "midway"}, pos' \in 0 .. MaxBlock, pos - n <= pos'
  PROVE  /\ TypeOK' /\ CallbacksFit' /\ HandlerFits' /\ NoneStranded' /\ RequestFits' /\ HoldFits'
         /\ UNCHANGED <<waiting, missed, masked, handler>>
         /\ at' = 0 /\ next \in Int /\ next' = next - n /\ next' <= log'[1].at
<1>1. /\ log' = [i \in DOMAIN log |-> [log[i] EXCEPT !.at = @ - n]]
      /\ next' = next - n /\ since' = since + n
      /\ UNCHANGED <<at, ended, in_vblank, waiting, missed, table, masked, handler,
                     step, intreq, intena, lines, txrdy, busy, hold, out, queue, made, taken>>
  BY DEF Elapse, cpu, irq, uart, game
<1>2. /\ log' \in Seq(Callback) /\ Len(log') = Len(log)
      /\ \A i \in 1 .. Len(log) : log'[i].call = log[i].call /\ log'[i].at = log[i].at - n
  BY ZenonT(30), <1>1, Nearer DEF BoardInv, TypeOK
<1>3. next \in Int /\ since \in Int /\ pos \in Int /\ pos' \in Int /\ kProbe \in Int
  BY CountAssumption DEF BoardInv, TypeOK
<1>4. TypeOK'
  BY <1>1, <1>2, <1>3 DEF BoardInv, TypeOK
<1>5. /\ Len(log) \in {1, 2} /\ DOMAIN log = 1 .. Len(log) /\ log[1].at \in Int
      /\ busy => log[2].at \in Int
  BY HeadIsInt DEF BoardInv
<1>6. CallbacksFit'
  <2>0. (busy => Len(log) = 2) /\ (~busy => Len(log) = 1)
    BY DEF BoardInv, CallbacksFit
  <2>1. DOMAIN log' = 1 .. Len(log)
    BY <1>2, LenProperties
  <2>2. \E i \in DOMAIN log' : log'[i].call = "probe" /\ log'[i].at <= kProbe + pos'
    <3>1. PICK i \in 1 .. Len(log) : log[i].call = "probe" /\ log[i].at <= kProbe + pos
      BY <1>5 DEF BoardInv, CallbacksFit
    <3>2. log[i].at \in Int
      BY <1>5, <2>0, <3>1
    <3>3. log'[i].at <= kProbe + pos'
      BY <1>2, <1>3, <3>1, <3>2
    <3> QED
      BY <2>1, <1>2, <3>1, <3>3
  <2>3. busy => Len(log) = 2 /\ log[1].call # log[2].call /\ log[1].at <= log[2].at
    BY DEF BoardInv, CallbacksFit
  <2>4. busy => log'[1].call # log'[2].call /\ log'[1].at <= log'[2].at
    BY <2>3, <1>2, <1>5
  <2> QED
    BY <1>1, <1>2, <2>2, <2>4 DEF BoardInv, CallbacksFit
<1>7. log'[1].at = log[1].at - n /\ next <= log[1].at /\ at = 0
  BY <1>2, <1>5 DEF BoardInv, NextFits
<1>8. next' <= log'[1].at /\ at' = 0
  BY <1>1, <1>3, <1>5, <1>7
<1>10. HandlerFits' /\ NoneStranded' /\ RequestFits' /\ HoldFits'
  BY <1>1 DEF BoardInv, HandlerFits, NoneStranded, RequestFits, Entered, HoldFits
<1> QED
  BY <1>1, <1>3, <1>4, <1>6, <1>8, <1>10

LEMMA CompleteKeeps == ASSUME BoardInv, NEW n \in 1 .. MaxBlock, Complete(n) PROVE BoardInv'
<1>0. n \in Int /\ n >= 1 /\ pos \in Int /\ 0 \in 0 .. MaxBlock
  BY CountAssumption DEF BoardInv, TypeOK
<1>1. /\ Elapse(n) /\ pos' = 0 /\ pos - n <= pos' /\ pos <= n
      /\ phase \in {"go", "done"} /\ phase' \in {"boundary", "midway"}
      /\ phase' = "midway" => phase = "go"
  BY <1>0 DEF Complete
<1>2. /\ TypeOK' /\ CallbacksFit' /\ HandlerFits' /\ NoneStranded' /\ RequestFits' /\ HoldFits'
      /\ UNCHANGED <<waiting, missed, masked, handler>>
      /\ at' = 0 /\ next \in Int /\ next' = next - n /\ next' <= log'[1].at
  BY <1>0, <1>1, ElapseKeeps
<1>3. NextFits'
  BY <1>1, <1>2 DEF NextFits
<1>4. waiting # "none" /\ ~missed => next' <= pos'
  BY <1>0, <1>1, <1>2 DEF BoardInv, WaitingFits
<1>5. WaitingFits'
  BY <1>1, <1>2, <1>4 DEF BoardInv, WaitingFits
<1> QED
  BY <1>2, <1>3, <1>5 DEF BoardInv

LEMMA EnterMidwayKeeps ==
  ASSUME BoardInv, NEW p \in 1 .. MaxBlock - 1, EnterMidway(p) PROVE BoardInv'
<1>0. p \in Int /\ -p \in Int /\ p >= 1 /\ p < MaxBlock /\ p \in 0 .. MaxBlock
  BY CountAssumption
<1>1. Elapse(-p) /\ pos' = p /\ phase = "midway" /\ phase' = "go" /\ pos = 0
  BY DEF EnterMidway, BoardInv, NextFits
<1>2. pos - (-p) <= pos'
  BY <1>0, <1>1
<1>3. /\ TypeOK' /\ CallbacksFit' /\ HandlerFits' /\ NoneStranded' /\ RequestFits' /\ HoldFits'
      /\ UNCHANGED <<waiting, missed, masked, handler>>
      /\ at' = 0 /\ next \in Int /\ next' = next - (-p) /\ next' <= log'[1].at
  BY <1>0, <1>1, <1>2, ElapseKeeps
<1>4. NextFits'
  BY <1>0, <1>1, <1>3 DEF NextFits
<1>5. waiting # "none" /\ ~missed => ~masked /\ next' <= pos'
  BY <1>0, <1>1, <1>3 DEF BoardInv, WaitingFits
<1>6. WaitingFits'
  BY <1>1, <1>3, <1>5 DEF BoardInv, WaitingFits
<1> QED
  BY <1>3, <1>4, <1>6 DEF BoardInv

LEMMA AppliedKeeps == ASSUME BoardInv, Applied PROVE BoardInv'
<1>1. /\ phase = "apply" /\ log[1].at # at /\ next' = log[1].at /\ at' = 0
      /\ UNCHANGED <<pos, log, ended, in_vblank, since, table, masked,
                     intreq, intena, lines, txrdy, busy, hold, out, queue, made, taken>>
  BY DEF Applied, Head_, frame, irq, uart, game
<1>2. /\ log[1].at \in Int /\ at \in Int /\ at <= log[1].at
  BY <1>1, HeadIsInt DEF BoardInv, NextFits, TypeOK
<1>a. pos = 0 /\ pos < MaxBlock
  BY <1>1, CountAssumption DEF BoardInv, NextFits
<1>b. missed' \in BOOLEAN
  <2>1. missed' = (waiting # "none" /\ ~Takes)
    BY DEF Applied
  <2> QED
    BY <2>1, Zenon
<1>c. missed' <=> waiting # "none" /\ ~Takes
  BY DEF Applied
<1>3. CallbacksFit'
  BY <1>1 DEF BoardInv, CallbacksFit
<1>4. CASE waiting # "none" /\ Takes
  <2>1. handler' = waiting /\ step' = "ack" /\ waiting' = "none" /\ phase' = "boundary"
    BY <1>4 DEF Applied, Enter
  <2>2. handler' \in Lines /\ "main" \notin Lines
    BY <1>4, <2>1 DEF BoardInv, TypeOK, Lines
  <2>3. TypeOK'
    BY <1>1, <1>2, <1>b, <2>1, <2>2 DEF BoardInv, TypeOK
  <2>4. NextFits' /\ HandlerFits' /\ WaitingFits' /\ NoneStranded'
    BY <1>1, <1>2, <1>a, <1>c, <1>4, <2>1, <2>2
       DEF NextFits, HandlerFits, WaitingFits, NoneStranded, Takes
  <2>5. RequestFits' /\ HoldFits'
    BY <1>1, <2>1, <2>2 DEF BoardInv, RequestFits, Entered, HoldFits
  <2> QED
    BY <1>3, <2>3, <2>4, <2>5 DEF BoardInv
<1>5. CASE ~(waiting # "none" /\ Takes)
  <2>1. /\ waiting' = waiting /\ handler' = handler /\ step' = step
        /\ phase' = IF at = 0 THEN "go" ELSE "boundary"
    BY <1>5 DEF Applied
  <2>2. waiting # "none" => missed' /\ MaxBlock > 1
    BY <1>5, <1>c DEF BoardInv, WaitingFits, Takes
  <2>3. TypeOK'
    BY <1>1, <1>2, <1>b, <2>1 DEF BoardInv, TypeOK
  <2>4. HandlerFits' /\ NoneStranded' /\ RequestFits' /\ HoldFits'
    BY <1>1, <2>1 DEF BoardInv, HandlerFits, NoneStranded, RequestFits, Entered, HoldFits
  <2>5. NextFits'
    BY <1>1, <1>2, <1>a, <2>1 DEF NextFits
  <2>6. WaitingFits'
    BY <1>c, <2>1, <2>2 DEF WaitingFits
  <2> QED
    BY <1>3, <2>3, <2>4, <2>5, <2>6 DEF BoardInv
<1> QED
  BY <1>4, <1>5

(* A callback may raise a line; whoever runs, runs on. *)
LEMMA CalledFits ==
  ASSUME BoardInv, phase = "apply", phase' = phase, UNCHANGED <<missed, masked, handler, step>>,
         NEW req \in SUBSET Lines, irq_update(req), intreq \subseteq req,
         step = "serve" => "uart" \notin req
  PROVE  /\ intreq' = req /\ lines' = req
         /\ waiting' \in Lines \cup {"none"} /\ table' \in SUBSET Lines
         /\ HandlerFits' /\ WaitingFits' /\ NoneStranded' /\ RequestFits'
<1>1. /\ intreq' = req /\ lines' = req
      /\ waiting' \in Lines \cup {"none"} /\ table' \in SUBSET Lines
      /\ waiting # "none" => waiting' = waiting
      /\ waiting' # "none" => waiting' = waiting \/ (Takes /\ req # lines)
      /\ table' # {} => handler # "main" \/ masked \/ waiting' # "none"
      /\ waiting' = "uart" \/ "uart" \in table'
           => waiting = "uart" \/ "uart" \in table \/ ("uart" \in req /\ "uart" \notin lines)
      /\ waiting' = "uart" => "uart" \notin table'
  BY Risen DEF BoardInv
<1>2. HandlerFits' /\ WaitingFits' /\ NoneStranded'
  BY <1>1 DEF BoardInv, HandlerFits, WaitingFits, NoneStranded, Takes
<1>3. RequestFits'
  BY <1>1 DEF BoardInv, RequestFits, Entered
<1> QED
  BY <1>1, <1>2, <1>3

LEMMA uart_shift_doneKeeps == ASSUME BoardInv, uart_shift_done PROVE BoardInv'
<1> DEFINE req == IF ~txrdy /\ "uart" \in intena THEN intreq \cup {"uart"} ELSE intreq
<1>1. /\ phase = "apply" /\ log[1].call = "shift" /\ log[1].at = at /\ phase' = phase /\ at' = at
      /\ log' = Tail(log) /\ busy' = FALSE /\ out' = out \o hold /\ hold' = <<>> /\ txrdy' = TRUE
      /\ irq_update(req) /\ next' = Poked(req, next)
      /\ UNCHANGED <<pos, missed, ended, in_vblank, since, masked, handler, step, intena,
                     queue, made, taken>>
  BY DEF uart_shift_done, Called, frame, game
<1>2. req \in SUBSET Lines /\ intreq \subseteq req
  BY DEF BoardInv, TypeOK, Lines
<1>3. step = "serve" => "uart" \notin req
  BY DEF BoardInv, RequestFits, HoldFits
<1> HIDE DEF req
<1>4. /\ intreq' = req /\ lines' = req
      /\ waiting' \in Lines \cup {"none"} /\ table' \in SUBSET Lines
      /\ HandlerFits' /\ WaitingFits' /\ NoneStranded' /\ RequestFits'
  BY <1>1, <1>2, <1>3, CalledFits
<1>5. /\ Len(log) \in {1, 2} /\ DOMAIN log = 1 .. Len(log)
      /\ log[1].at \in Int /\ (busy => log[2] \in Callback /\ log[2].at \in Int)
  BY HeadIsInt DEF BoardInv
<1>6. /\ busy /\ Len(log) = 2 /\ log[1].at <= log[2].at
      /\ log[2].call = "probe" /\ log[2].at <= kProbe + pos
  BY <1>1, <1>5 DEF BoardInv, CallbacksFit
<1>7. log' \in Seq(Callback) /\ Len(log') = 1 /\ log'[1] = log[2]
  <2>0. log \in Seq(Callback)
    BY DEF BoardInv, TypeOK
  <2>1. log \in Seq(Callback) /\ log # <<>>
    <3>1. Len(log) = 2
      BY <1>6
    <3> QED
      BY <3>1, <2>0
  <2>2. /\ Tail(log) \in Seq(Callback) /\ Len(Tail(log)) = Len(log) - 1
        /\ \A i \in 1 .. Len(Tail(log)) : Tail(log)[i] = log[i + 1]
    BY ONLY <2>1, HeadTailProperties
  <2> QED
    <3>1. 1 \in 1 .. Len(Tail(log))
      <4> DEFINE n == Len(Tail(log))
      <4>1. n = 1
        BY <1>6, <2>2
      <4> HIDE DEF n
      <4>2. 1 \in 1 .. n
        BY <4>1
      <4> QED
        BY <4>2 DEF n
    <3> QED
      BY <1>1, <1>6, <2>2, <3>1
<1>8. CallbacksFit'
  <2>1. 1 \in DOMAIN log'
    BY <1>7, LenProperties
  <2> QED
    BY <1>1, <1>6, <1>7, <2>1 DEF CallbacksFit
<1>9. NextFits'
  BY <1>1, <1>5, <1>6, <1>7 DEF BoardInv, NextFits
<1>10. TypeOK'
  <2>1. txrdy' \in BOOLEAN
    BY <1>1, Zenon
  <2>2. busy' \in BOOLEAN
    BY <1>1, Zenon
  <2>3. out' \in Seq(Byte) /\ hold' \in Seq(Byte)
    BY <1>1, ConcatProperties DEF BoardInv, TypeOK
  <2>4. next' \in Int
    BY <1>1 DEF Poked, Least, BoardInv, TypeOK
  <2> QED
    BY <1>1, <1>2, <1>4, <1>7, <2>1, <2>2, <2>3, <2>4 DEF BoardInv, TypeOK
<1>11. HoldFits'
  BY <1>1 DEF HoldFits
<1> QED
  BY <1>4, <1>8, <1>9, <1>10, <1>11 DEF BoardInv

LEMMA probeKeeps == ASSUME BoardInv, NEW idle \in BOOLEAN, probe(idle) PROVE BoardInv'
<1> DEFINE req == IF VblankStarts(idle) /\ "vblank" \in intena
                  THEN intreq \cup {"vblank"} ELSE intreq
           q == Tail(log)
<1>1. /\ phase = "apply" /\ log[1].call = "probe" /\ log[1].at = at /\ phase' = phase /\ at' = at
      /\ log' = With(q, "probe", at + kProbe) /\ next' = log'[1].at
      /\ irq_update(req)
      /\ UNCHANGED <<pos, missed, masked, handler, step, intena, txrdy, busy, hold, out,
                     queue, made, taken>>
  BY DEF probe, Called, Head_, uart, game
<1>2. req \in SUBSET Lines /\ intreq \subseteq req
  BY DEF BoardInv, TypeOK, Lines
<1>3. step = "serve" => "uart" \notin req
  BY DEF BoardInv, RequestFits
<1> HIDE DEF req
<1>4. /\ intreq' = req /\ lines' = req
      /\ waiting' \in Lines \cup {"none"} /\ table' \in SUBSET Lines
      /\ HandlerFits' /\ WaitingFits' /\ NoneStranded' /\ RequestFits'
  BY <1>1, <1>2, <1>3, CalledFits
<1>5. /\ Len(log) \in {1, 2} /\ DOMAIN log = 1 .. Len(log)
      /\ log[1].at \in Int /\ (busy => log[2] \in Callback /\ log[2].at \in Int)
  BY HeadIsInt DEF BoardInv
<1>6. /\ IF busy THEN Len(log) = 2 ELSE Len(log) = 1
      /\ busy => log[2].call = "shift" /\ log[1].at <= log[2].at
  BY <1>1, <1>5 DEF BoardInv, CallbacksFit, Callback
<1>7. /\ q \in Seq(Callback) /\ Len(q) = IF busy THEN 1 ELSE 0
      /\ busy => q[1] = log[2]
  <2>0. log \in Seq(Callback)
    BY DEF BoardInv, TypeOK
  <2>1. log \in Seq(Callback) /\ log # <<>>
    BY SMTT(30), <2>0, <1>6, EmptySeq
  <2>2. /\ Tail(log) \in Seq(Callback) /\ Len(Tail(log)) = Len(log) - 1
        /\ \A i \in 1 .. Len(Tail(log)) : Tail(log)[i] = log[i + 1]
    BY ONLY <2>1, HeadTailProperties
  <2> QED
    <3>1. busy => 1 \in 1 .. Len(Tail(log))
      BY <1>6, <2>2
    <3> QED
      BY <1>6, <2>2, <3>1
<1> HIDE DEF q
<1> DEFINE again == at + kProbe
           e == [call |-> "probe", at |-> again]
<1>8. again \in Int /\ again > at /\ again <= kProbe + pos
  BY <1>1, CountAssumption DEF BoardInv, TypeOK, NextFits
<1> HIDE DEF again
<1>9. /\ log' \in Seq(Callback) /\ Len(log') = Len(q) + 1
      /\ Len(q) = 0 => log'[1] = e
      /\ Len(q) = 1 =>
           \/ q[1].at < again /\ log'[1] = q[1] /\ log'[2] = e
           \/ again <= q[1].at /\ log'[1] = e /\ log'[2] = q[1]
  <2>1. Len(q) <= 1 /\ "probe" \in {"probe", "shift"}
    BY <1>7
  <2>2. LET w == With(q, "probe", again)
            f == [call |-> "probe", at |-> again]
        IN  /\ w \in Seq(Callback) /\ Len(w) = Len(q) + 1
            /\ Len(q) = 0 => w[1] = f
            /\ Len(q) = 1 =>
                 \/ q[1].at < again /\ w[1] = q[1] /\ w[2] = f
                 \/ again <= q[1].at /\ w[1] = f /\ w[2] = q[1]
    BY ONLY <2>1, <1>7, <1>8, WithFew
  <2>3. log' = With(q, "probe", again)
    BY <1>1 DEF again
  <2> QED
    BY <2>2, <2>3
<1>10. /\ DOMAIN log' = 1 .. Len(log') /\ Len(log') = IF busy THEN 2 ELSE 1
  <2>1. DOMAIN log' = 1 .. Len(log')
    BY ONLY <1>9, LenProperties
  <2> QED
    BY <1>7, <1>9, <2>1
<1>11. log'[1].at \in Int /\ at <= log'[1].at
  BY <1>1, <1>5, <1>6, <1>7, <1>8, <1>9 DEF BoardInv, TypeOK
<1>12. CallbacksFit'
  <2>1. \E i \in DOMAIN log' : log'[i].call = "probe" /\ log'[i].at <= kProbe + pos'
    BY <1>1, <1>7, <1>8, <1>9, <1>10
  <2>2. busy => log'[1].call # log'[2].call /\ log'[1].at <= log'[2].at
    BY <1>5, <1>6, <1>7, <1>8, <1>9
  <2> QED
    BY <1>1, <1>10, <2>1, <2>2 DEF CallbacksFit
<1>13. NextFits'
  BY <1>1, <1>11 DEF BoardInv, NextFits
<1>14. TypeOK'
  <2>1. ended' \in BOOLEAN
    <3>1. ended' = (ended \/ VblankEnds(idle))
      BY DEF probe
    <3> QED
      BY <3>1, Zenon
  <2>2. in_vblank' \in BOOLEAN
    <3>1. in_vblank' = ~in_vblank \/ in_vblank' = in_vblank
      BY DEF probe
    <3> QED
      BY <3>1, Zenon DEF BoardInv, TypeOK
  <2>3. since' \in Int
    BY DEF probe, BoardInv, TypeOK
  <2> QED
    BY <1>1, <1>2, <1>4, <1>9, <1>11, <2>1, <2>2, <2>3 DEF BoardInv, TypeOK
<1>15. HoldFits'
  BY <1>1, <1>4, <1>2 DEF BoardInv, HoldFits, req
<1> QED
  BY <1>4, <1>12, <1>13, <1>14, <1>15 DEF BoardInv

-----------------------------------------------------------------------------
LEMMA InitFits == Init => BoardInv
<1> SUFFICES ASSUME Init PROVE BoardInv
  OBVIOUS
<1>1. log = <<[call |-> "probe", at |-> kProbe]>> /\ kProbe \in Int /\ kProbe > 0
  BY CountAssumption DEF Init
<1>2. log \in Seq(Callback) /\ Len(log) = 1 /\ log[1] = [call |-> "probe", at |-> kProbe]
      /\ DOMAIN log = {1}
  BY <1>1 DEF Callback
<1>3. TypeOK
  <2>1. 0 \in Byte
    BY CountAssumption DEF Byte
  <2>2. masked \in BOOLEAN /\ txrdy \in BOOLEAN /\ busy \in BOOLEAN
        /\ ended \in BOOLEAN /\ in_vblank \in BOOLEAN /\ missed \in BOOLEAN
    BY Zenon DEF Init
  <2> QED
    BY <1>1, <1>2, <2>1, <2>2, CountAssumption DEF Init, TypeOK
<1>4. CallbacksFit /\ NextFits
  BY <1>1, <1>2, CountAssumption DEF Init, CallbacksFit, NextFits
<1>5. HandlerFits /\ WaitingFits /\ NoneStranded /\ RequestFits /\ HoldFits
  BY DEF Init, HandlerFits, WaitingFits, NoneStranded, RequestFits, Entered, HoldFits
<1> QED
  BY <1>3, <1>4, <1>5 DEF BoardInv

LEMMA StutterKeeps == ASSUME BoardInv, UNCHANGED vars PROVE BoardInv'
<1>1. UNCHANGED <<phase, pos, at, log, next, ended, in_vblank, since, waiting, missed, table,
                  masked, handler, step, intreq, intena, lines, txrdy, busy, hold, out,
                  queue, made, taken>>
  BY DEF vars, sched, frame, cpu, irq, uart, game
<1> QED
  BY <1>1 DEF BoardInv, TypeOK, CallbacksFit, NextFits, HandlerFits, WaitingFits, NoneStranded,
              RequestFits, Entered, HoldFits

LEMMA StepKeeps == BoardInv /\ [Next]_vars => BoardInv'
<1> SUFFICES ASSUME BoardInv, [Next]_vars PROVE BoardInv'
  OBVIOUS
<1>1. CASE Program
  BY <1>1, EnableVblankKeeps, SoundCommandKeeps, MaskKeeps, UnmaskKeeps, AcknowledgeKeeps,
     TransmitKeeps, NothingToSendKeeps, ReturnKeeps DEF Program
<1>2. CASE Apply
  BY <1>2, uart_shift_doneKeeps, probeKeeps, AppliedKeeps DEF Apply
<1>3. CASE Machine
  BY <1>3, <1>2, PassKeeps, DueKeeps, run_frameKeeps, CompleteKeeps, EnterMidwayKeeps
     DEF Machine
<1>4. CASE UNCHANGED vars
  BY <1>4, StutterKeeps
<1> QED
  BY <1>1, <1>3, <1>4 DEF Next

(* For every program, every block with any accesses in it, entered at its  *)
(* start or past it, and every frame and probe interval: callbacks,        *)
(* next_count, interrupts that wait or are pending, the UART's register    *)
(* and its interrupt fit together (lockstep.cpp, cpu.cpp, m2_board.cpp).   *)
THEOREM BoardFits == Spec => []BoardInv
<1>1. Init => BoardInv
  BY InitFits
<1>2. BoardInv /\ [Next]_vars => BoardInv'
  BY StepKeeps
<1> QED
  BY <1>1, <1>2, PTL DEF Spec

(* No block starts with an interrupt waiting, whatever callback sets       *)
(* next_count anew after the poke (lockstep.h: poke), but one that its own *)
(* block masked after enabling it; that one is looked at again with the    *)
(* next callback, at most kProbe later, and does not occur where each      *)
(* instruction is a block.                                                 *)
THEOREM InterruptsTaken == Spec => []TakenAtBoundary
<1>1. BoardInv => TakenAtBoundary
  <2> SUFFICES ASSUME BoardInv PROVE TakenAtBoundary
    OBVIOUS
  <2>1. missed => MaxBlock > 1
    BY DEF BoardInv, WaitingFits
  <2>2. ASSUME phase = "go", pos = 0, waiting # "none" PROVE missed /\ next <= kProbe
    <3>1. next > 0 /\ next <= log[1].at /\ next \in Int /\ kProbe \in Int
      BY <2>2, CountAssumption DEF BoardInv, NextFits, TypeOK
    <3>2. missed
      BY <2>2, <3>1 DEF BoardInv, WaitingFits
    <3>3. /\ Len(log) \in {1, 2} /\ DOMAIN log = 1 .. Len(log)
          /\ log[1].at \in Int /\ (busy => log[2].at \in Int)
      BY HeadIsInt DEF BoardInv
    <3>4. Len(log) = 2 => busy /\ log[1].at <= log[2].at
      BY DEF BoardInv, CallbacksFit
    <3>5. PICK i \in DOMAIN log : log[i].at <= kProbe + pos
      BY DEF BoardInv, CallbacksFit
    <3>6. log[1].at <= kProbe
      BY <2>2, <3>1, <3>3, <3>4, <3>5
    <3> QED
      BY <3>1, <3>2, <3>3, <3>6
  <2> QED
    BY <2>1, <2>2 DEF TakenAtBoundary
<1> QED
  BY <1>1, BoardFits, PTL

(* No instruction and no block of instructions starts behind a callback,   *)
(* and none is behind the count apply works at (lockstep.cpp: apply        *)
(* compares counts with ==).                                               *)
THEOREM NoCallbackPassed == Spec => []NothingPassed
<1>1. BoardInv => NothingPassed
  <2> SUFFICES ASSUME BoardInv PROVE NothingPassed
    OBVIOUS
  <2>1. next \in Int /\ at \in Int
    BY DEF BoardInv, TypeOK
  <2>2. /\ Len(log) \in {1, 2} /\ DOMAIN log = 1 .. Len(log)
        /\ log[1].at \in Int /\ (busy => log[2].at \in Int)
    BY HeadIsInt DEF BoardInv
  <2>3. Len(log) = 2 => busy /\ log[1].at <= log[2].at
    BY DEF BoardInv, CallbacksFit
  <2>4. ASSUME NEW i \in DOMAIN log PROVE log[i].at \in Int /\ log[i].at >= log[1].at
    <3>1. i = 1 \/ (i = 2 /\ Len(log) = 2)
      BY <2>2
    <3> QED
      BY <3>1, <2>2, <2>3
  <2>5. ASSUME phase = "go", pos = 0 PROVE next > 0 /\ \A i \in DOMAIN log : log[i].at >= next
    <3>1. next > 0 /\ next <= log[1].at
      BY <2>5 DEF BoardInv, NextFits
    <3> QED
      BY <3>1, <2>1, <2>2, <2>4
  <2>6. ASSUME phase = "apply" PROVE \A i \in DOMAIN log : log[i].at >= at
    <3>1. at <= log[1].at
      BY <2>6 DEF BoardInv, NextFits
    <3> QED
      BY <3>1, <2>1, <2>2, <2>4
  <2> QED
    BY <2>5, <2>6 DEF NothingPassed
<1> QED
  BY <1>1, BoardFits, PTL

-----------------------------------------------------------------------------
(* The bytes on their way, from the last one the sound board was given to  *)
(* the last one made.                                                      *)
Sent == <<taken>> \o out \o hold \o queue
Chain(s, last) == /\ \A i \in 1 .. Len(s) - 1 : s[i + 1] = After(s[i])
                  /\ Last(s) = last

LEMMA HeadThenTail ==
  ASSUME NEW S, NEW s \in Seq(S), s # <<>>
  PROVE  <<Head(s)>> \o Tail(s) = s
<1>1. /\ Head(s) \in S /\ Tail(s) \in Seq(S) /\ Len(Tail(s)) = Len(s) - 1 /\ Len(s) \in Nat
      /\ \A i \in 1 .. Len(Tail(s)) : Tail(s)[i] = s[i + 1]
  BY HeadTailProperties, LenProperties
<1>2. <<Head(s)>> \in Seq(S) /\ Len(<<Head(s)>>) = 1 /\ <<Head(s)>>[1] = s[1]
  BY <1>1
<1> DEFINE h == <<Head(s)>>
           t == Tail(s)
<1> HIDE DEF h, t
<1>3. /\ h \in Seq(S) /\ Len(h) = 1 /\ h[1] = s[1]
      /\ t \in Seq(S) /\ Len(t) = Len(s) - 1 /\ \A i \in 1 .. Len(t) : t[i] = s[i + 1]
  BY <1>1, <1>2 DEF h, t
<1>4. /\ h \o t \in Seq(S) /\ Len(h \o t) = Len(h) + Len(t)
      /\ \A i \in 1 .. Len(h) + Len(t) :
           (h \o t)[i] = IF i <= Len(h) THEN h[i] ELSE t[i - Len(h)]
  <2>1. h \in Seq(S) /\ t \in Seq(S)
    BY <1>3
  <2> QED
    BY ONLY <2>1, ConcatProperties
<1>5. Len(h \o t) = Len(s)
  BY <1>1, <1>3, <1>4
<1>6. ASSUME NEW i \in 1 .. Len(h \o t) PROVE (h \o t)[i] = s[i]
  <2>1. CASE i = 1
    BY <2>1, <1>1, <1>3, <1>4
  <2>2. CASE i # 1
    <3>1. i - 1 \in 1 .. Len(t) /\ i \in 1 .. Len(h) + Len(t) /\ ~(i <= Len(h))
      BY <2>2, <1>1, <1>3, <1>4
    <3>2. (h \o t)[i] = t[i - 1]
      BY <3>1, <1>3, <1>4
    <3>3. t[i - 1] = s[(i - 1) + 1] /\ (i - 1) + 1 = i
      BY <3>1, <1>3
    <3> QED
      BY <3>2, <3>3
  <2> QED
    BY <2>1, <2>2
<1>7. h \o t = s
  BY ONLY <1>4, <1>5, <1>6, SeqEqual, s \in Seq(S)
<1> QED
  BY <1>7 DEF h, t

LEMMA ChainGrows ==
  ASSUME NEW s \in Seq(Byte), s # <<>>, NEW last \in Byte, Chain(s, last)
  PROVE  Chain(Append(s, After(last)), After(last))
<1> DEFINE w == Append(s, After(last))
<1>1. Len(s) \in Nat /\ Len(s) > 0 /\ s[Len(s)] = last
  BY EmptySeq, LenProperties DEF Chain, Last
<1>2. /\ Len(w) = Len(s) + 1 /\ \A i \in 1 .. Len(s) : w[i] = s[i]
      /\ w[Len(s) + 1] = After(last)
  BY AfterType, AppendProperties
<1> HIDE DEF w
<1>3. ASSUME NEW i \in 1 .. Len(w) - 1 PROVE w[i + 1] = After(w[i])
  <2>1. CASE i = Len(s)
    BY <2>1, <1>1, <1>2
  <2>2. CASE i # Len(s)
    <3>1. i \in 1 .. Len(s) - 1 /\ i \in 1 .. Len(s) /\ i + 1 \in 1 .. Len(s)
      BY <2>2, <1>1, <1>2
    <3> QED
      BY <3>1, <1>2 DEF Chain
  <2> QED
    BY <2>1, <2>2
<1>4. Last(w) = After(last)
  BY <1>2 DEF Last
<1> QED
  BY <1>3, <1>4 DEF Chain, w

LEMMA ChainShortens ==
  ASSUME NEW a \in Seq(Byte), NEW b \in Seq(Byte), a # <<>>, NEW last, Chain(a \o b, last)
  PROVE  Chain(<<Last(a)>> \o b, last)
<1> DEFINE l == <<Last(a)>>
           s == a \o b
           w == l \o b
           n == Len(a)
<1>1. n \in Nat /\ n > 0 /\ Len(b) \in Nat
  BY EmptySeq, LenProperties
<1>2. n \in 1 .. n
  BY <1>1
<1>3. l \in Seq(Byte) /\ Len(l) = 1 /\ l[1] = a[n]
  <2>1. a[n] \in Byte
    BY <1>2, ElementOfSeq
  <2> QED
    BY <2>1 DEF Last
<1> HIDE DEF l
<1>4. /\ Len(s) = n + Len(b)
      /\ \A i \in 1 .. n + Len(b) : s[i] = IF i <= n THEN a[i] ELSE b[i - n]
  BY ConcatProperties
<1>5. /\ Len(w) = 1 + Len(b)
      /\ \A i \in 1 .. 1 + Len(b) : w[i] = IF i <= 1 THEN l[i] ELSE b[i - 1]
  <2>1. /\ Len(l \o b) = Len(l) + Len(b)
        /\ \A i \in 1 .. Len(l) + Len(b) :
             (l \o b)[i] = IF i <= Len(l) THEN l[i] ELSE b[i - Len(l)]
    <3>1. l \in Seq(Byte) /\ b \in Seq(Byte)
      BY <1>3
    <3> QED
      BY ONLY <3>1, ConcatProperties
  <2> QED
    BY <2>1, <1>3
<1> HIDE DEF s, w, n
<1>6. ASSUME NEW i \in 1 .. Len(b) + 1 PROVE w[i] = s[n + i - 1] /\ n + i - 1 \in 1 .. Len(s)
  <2>1. n + i - 1 \in 1 .. n + Len(b)
    BY <1>1
  <2>2. CASE i = 1
    BY <2>1, <2>2, <1>1, <1>3, <1>4, <1>5
  <2>3. CASE i # 1
    <3>1. ~(n + i - 1 <= n) /\ (n + i - 1) - n = i - 1
      BY <2>3, <1>1
    <3>2. s[n + i - 1] = b[i - 1]
      BY <2>1, <3>1, <1>4
    <3>3. w[i] = b[i - 1]
      BY <2>3, <1>1, <1>5
    <3> QED
      BY <2>1, <3>2, <3>3, <1>4
  <2> QED
    BY <2>2, <2>3
<1>7. ASSUME NEW i \in 1 .. Len(w) - 1 PROVE w[i + 1] = After(w[i])
  <2>1. i \in 1 .. Len(b) + 1 /\ i + 1 \in 1 .. Len(b) + 1
    BY <1>1, <1>5
  <2>2. w[i] = s[n + i - 1] /\ w[i + 1] = s[n + (i + 1) - 1]
    BY <2>1, <1>6
  <2>3. n + i - 1 \in 1 .. Len(s) - 1 /\ n + (i + 1) - 1 = (n + i - 1) + 1
    BY <2>1, <1>1, <1>4
  <2>4. s[(n + i - 1) + 1] = After(s[n + i - 1])
    BY <2>3 DEF Chain, s
  <2> QED
    BY <2>2, <2>3, <2>4
<1>8. w[Len(w)] = s[Len(s)]
  BY <1>1, <1>4, <1>5, <1>6
<1>9. s[Len(s)] = last
  BY DEF Chain, Last, s
<1> QED
  BY <1>7, <1>8, <1>9 DEF Chain, Last, w, l

LEMMA SentParts ==
  ASSUME TypeOK
  PROVE  /\ taken \in Byte /\ out \in Seq(Byte) /\ hold \in Seq(Byte) /\ queue \in Seq(Byte)
         /\ <<taken>> \in Seq(Byte) /\ <<taken>> \o out \in Seq(Byte)
         /\ <<taken>> \o out \o hold \in Seq(Byte) /\ Sent \in Seq(Byte)
         /\ <<taken>> \o out # <<>> /\ Sent # <<>>
<1>1. /\ taken \in Byte /\ out \in Seq(Byte) /\ hold \in Seq(Byte) /\ queue \in Seq(Byte)
      /\ <<taken>> \in Seq(Byte) /\ Len(<<taken>>) = 1
  BY DEF TypeOK
<1> DEFINE a == <<taken>>
           ao == a \o out
           aoh == ao \o hold
<1> HIDE DEF a
<1>2. a \in Seq(Byte) /\ Len(a) = 1
  BY <1>1 DEF a
<1>3. ao \in Seq(Byte) /\ Len(ao) = 1 + Len(out)
  <2>1. a \o out \in Seq(Byte) /\ Len(a \o out) = Len(a) + Len(out)
    <3>1. a \in Seq(Byte) /\ out \in Seq(Byte)
      BY <1>1, <1>2
    <3> QED
      BY ONLY <3>1, ConcatProperties
  <2> QED
    BY <2>1, <1>2
<1> HIDE DEF ao
<1>4. aoh \in Seq(Byte) /\ Len(aoh) = Len(ao) + Len(hold)
  BY <1>1, <1>3, ConcatProperties
<1> HIDE DEF aoh
<1>5. aoh \o queue \in Seq(Byte) /\ Len(aoh \o queue) = Len(aoh) + Len(queue)
  BY <1>1, <1>4, ConcatProperties
<1>6. Len(out) \in Nat /\ Len(hold) \in Nat /\ Len(queue) \in Nat
  BY <1>1, LenProperties
<1>7. ao # <<>> /\ aoh \o queue # <<>>
  BY <1>3, <1>4, <1>5, <1>6, EmptySeq
<1> QED
  BY <1>1, <1>3, <1>4, <1>5, <1>7 DEF a, ao, aoh, Sent

LEMMA OrderIsChain == BytesInOrder <=> Chain(Sent, made)
  BY DEF BytesInOrder, Chain, Sent

LEMMA OrderSoundCommand ==
  ASSUME BoardInv, BytesInOrder, SoundCommand PROVE BytesInOrder'
<1>1. /\ made' = After(made) /\ queue' = Append(queue, made')
      /\ UNCHANGED <<out, hold, taken>>
  BY DEF SoundCommand, uart
<1>2. made \in Byte /\ After(made) \in Byte
  BY AfterType DEF BoardInv, TypeOK
<1> DEFINE aoh == <<taken>> \o out \o hold
<1>3. aoh \in Seq(Byte) /\ queue \in Seq(Byte) /\ Sent \in Seq(Byte) /\ Sent # <<>>
      /\ Sent = aoh \o queue
  BY SentParts DEF BoardInv, Sent
<1>4. Sent' = aoh \o Append(queue, After(made))
  BY <1>1 DEF Sent
<1> HIDE DEF aoh
<1>5. aoh \o Append(queue, After(made)) = Append(aoh \o queue, After(made))
  <2>1. /\ Append(queue, After(made)) = queue \o <<After(made)>>
        /\ aoh \o queue \in Seq(Byte) /\ <<After(made)>> \in Seq(Byte)
    BY <1>2, <1>3, AppendIsConcat
  <2>2. Append(aoh \o queue, After(made)) = (aoh \o queue) \o <<After(made)>>
    BY <1>2, <2>1, AppendIsConcat
  <2>3. (aoh \o queue) \o <<After(made)>> = aoh \o (queue \o <<After(made)>>)
    BY ONLY <1>3, <2>1, ConcatAssociative
  <2> QED
    BY <2>1, <2>2, <2>3
<1>6. Chain(Append(Sent, After(made)), After(made))
  BY <1>2, <1>3, ChainGrows, OrderIsChain
<1>7. Chain(Sent, made)'
  BY <1>1, <1>3, <1>4, <1>5, <1>6 DEF Chain
<1> QED
  BY <1>7, OrderIsChain, PTL

LEMMA OrderTransmit ==
  ASSUME BoardInv, BytesInOrder, Transmit PROVE BytesInOrder'
<1>1. /\ step = "serve" /\ queue # <<>> /\ queue' = Tail(queue) /\ hold' = <<Head(queue)>>
      /\ UNCHANGED <<out, made, taken>>
  BY DEF Transmit, uart_write_data
<1>2. hold = <<>>
  BY <1>1 DEF BoardInv, HoldFits
<1> DEFINE ao == <<taken>> \o out
           h == <<Head(queue)>>
           t == Tail(queue)
<1>3. ao \in Seq(Byte) /\ queue \in Seq(Byte) /\ h \in Seq(Byte) /\ t \in Seq(Byte)
      /\ h \o t = queue
  BY <1>1, SentParts, HeadTailProperties, HeadThenTail DEF BoardInv
<1>4. Sent = (ao \o <<>>) \o queue /\ Sent' = (ao \o h) \o t
  BY <1>1, <1>2 DEF Sent
<1> HIDE DEF ao, h, t
<1>5. ao \o <<>> = ao
  BY <1>3, ConcatEmptySeq
<1>6. (ao \o h) \o t = ao \o (h \o t)
  <2>1. ao \in Seq(Byte) /\ h \in Seq(Byte) /\ t \in Seq(Byte)
    BY <1>3
  <2> QED
    BY ONLY <2>1, ConcatAssociative
<1>7. Sent' = Sent
  BY <1>3, <1>4, <1>5, <1>6
<1>8. Chain(Sent, made)'
  BY <1>1, <1>7, OrderIsChain DEF Chain
<1> QED
  BY <1>8, OrderIsChain, PTL

LEMMA Order_uart_shift_done ==
  ASSUME BoardInv, BytesInOrder, uart_shift_done PROVE BytesInOrder'
<1>1. /\ out' = out \o hold /\ hold' = <<>> /\ UNCHANGED <<queue, made, taken>>
  BY DEF uart_shift_done, game
<1> DEFINE a == <<taken>>
<1>2. a \in Seq(Byte) /\ out \in Seq(Byte) /\ hold \in Seq(Byte) /\ (a \o out) \o hold \in Seq(Byte)
  BY SentParts DEF BoardInv
<1>3. Sent = ((a \o out) \o hold) \o queue /\ Sent' = ((a \o (out \o hold)) \o <<>>) \o queue
  BY <1>1 DEF Sent
<1> HIDE DEF a
<1>4. (a \o out) \o hold = a \o (out \o hold)
  BY ONLY <1>2, ConcatAssociative
<1>5. ((a \o out) \o hold) \o <<>> = (a \o out) \o hold
  BY <1>2, ConcatEmptySeq
<1>7. Sent' = Sent
  BY <1>3, <1>4, <1>5
<1>8. Chain(Sent, made)'
  BY <1>1, <1>7, OrderIsChain DEF Chain
<1> QED
  BY <1>8, OrderIsChain, PTL

LEMMA Order_run_frame ==
  ASSUME BoardInv, BytesInOrder, run_frame PROVE BytesInOrder'
<1> DEFINE a == <<taken>> \o out
           l == <<Last(a)>>
<1>1. out' = <<>> /\ taken' = Last(a) /\ UNCHANGED <<hold, queue, made>>
  BY DEF run_frame
<1>2. a \in Seq(Byte) /\ a # <<>> /\ hold \in Seq(Byte) /\ queue \in Seq(Byte)
  BY SentParts DEF BoardInv
<1>3. Sent = (a \o hold) \o queue /\ Sent' = ((l \o <<>>) \o hold) \o queue
  BY <1>1 DEF Sent
<1> HIDE DEF a
<1>4. l \in Seq(Byte)
  <2>1. Len(a) \in 1 .. Len(a)
    BY <1>2, EmptySeq
  <2> QED
    BY <1>2, <2>1, ElementOfSeq DEF Last
<1>5. hold \o queue \in Seq(Byte)
  BY <1>2, ConcatProperties
<1>6. (a \o hold) \o queue = a \o (hold \o queue)
  BY ONLY <1>2, ConcatAssociative
<1>7. Chain(l \o (hold \o queue), made)
  <2>1. Chain(a \o (hold \o queue), made)
    BY <1>3, <1>6, OrderIsChain
  <2> QED
    BY <1>2, <1>5, <2>1, ChainShortens
<1> HIDE DEF l
<1>8. l \o <<>> = l
  BY <1>4, ConcatEmptySeq
<1>9. (l \o hold) \o queue = l \o (hold \o queue)
  BY ONLY SMTT(30), <1>2, <1>4, ConcatAssociative
<1>10. Chain(Sent, made)'
  BY <1>1, <1>3, <1>7, <1>8, <1>9 DEF Chain
<1> QED
  BY <1>10, OrderIsChain, PTL

LEMMA OrderElsewhere ==
  ASSUME BytesInOrder, UNCHANGED <<out, hold, queue, made, taken>>
  PROVE  BytesInOrder'
  BY DEF BytesInOrder

(* The sound board is given the bytes the program sent, in order and each  *)
(* once, whichever frame they leave in: a byte is never written over one   *)
(* that is held, and a frame's bytes are handed over whole                 *)
(* (m2_board.cpp: uart_write_data, uart_shift_done; run_frame).            *)
THEOREM SoundBytesInOrder == Spec => []BytesInOrder
<1>1. Init => BytesInOrder
  <2> SUFFICES ASSUME Init PROVE BytesInOrder
    OBVIOUS
  <2>1. Sent = <<0>> \o <<>> \o <<>> \o <<>> /\ made = 0
    BY DEF Init, Sent
  <2>2. <<0>> \in Seq(Nat)
    OBVIOUS
  <2>3. Sent = <<0>>
    BY <2>1, <2>2, ConcatEmptySeq
  <2>4. Chain(Sent, made)
    BY <2>1, <2>3 DEF Chain, Last
  <2> QED
    BY <2>4, OrderIsChain
<1>2. BoardInv /\ BytesInOrder /\ [Next]_vars => BytesInOrder'
  <2> SUFFICES ASSUME BoardInv, BytesInOrder, [Next]_vars PROVE BytesInOrder'
    OBVIOUS
  <2>1. CASE SoundCommand \/ Transmit \/ uart_shift_done \/ run_frame
    BY <2>1, OrderSoundCommand, OrderTransmit, Order_uart_shift_done, Order_run_frame
  <2>2. CASE EnableVblank \/ Mask \/ Unmask \/ Acknowledge \/ NothingToSend \/ Return
    BY <2>2, OrderElsewhere
       DEF EnableVblank, Mask, Unmask, Acknowledge, NothingToSend, Return, uart, game
  <2>3. CASE Pass \/ Due \/ Applied
    BY <2>3, OrderElsewhere DEF Pass, Due, Applied, uart, game
  <2>4. ASSUME NEW idle \in BOOLEAN, probe(idle) PROVE BytesInOrder'
    BY <2>4, OrderElsewhere DEF probe, uart, game
  <2>5. ASSUME NEW n \in 1 .. MaxBlock, Complete(n) PROVE BytesInOrder'
    BY <2>5, OrderElsewhere DEF Complete, Elapse, uart, game
  <2>7. ASSUME NEW p \in 1 .. MaxBlock - 1, EnterMidway(p) PROVE BytesInOrder'
    BY <2>7, OrderElsewhere DEF EnterMidway, Elapse, uart, game
  <2>6. CASE UNCHANGED vars
    BY <2>6, OrderElsewhere DEF vars, uart, game
  <2> QED
    BY <2>1, <2>2, <2>3, <2>4, <2>5, <2>6, <2>7 DEF Next, Program, Machine, Apply
<1> QED
  BY <1>1, <1>2, BoardFits, PTL DEF Spec

=============================================================================

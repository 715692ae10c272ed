--------------------------- MODULE AsyncLogProofs ---------------------------
(***************************************************************************)
(* The two writers of the log, for records and a limit of any size: when   *)
(* the owner always drains first (Undrained = FALSE) the file is in one    *)
(* pair of hands at a time, holds the records in the order they were made, *)
(* and every record that was taken is accounted for.                       *)
(***************************************************************************)
EXTENDS AsyncLog, SequenceTheorems, FiniteSetTheorems, TLAPS

USE RecordsAssumption, SizeAssumption

IoRecord == [at : {"out", "enter", "loop", "close"}, record : Records,
             left : 0 .. Size, ok : BOOLEAN]

(* What a file operation of one writer leaves true when the other is out.  *)
SinkType ==
  /\ io \in [Writers -> IoRecord]
  /\ file \in Seq(Records \X (1 .. Size))
  /\ bytes \in Nat /\ limited \in BOOLEAN /\ error \in BOOLEAN

(* The parts sceIoWrite takes go behind the file.                          *)
Parts(r, left, n) == [i \in 1 .. n |-> <<r, (Size - left) + i>>]
LEMMA PartsAppended ==
  ASSUME NEW f \in Seq(Records \X (1 .. Size)), NEW r \in Records,
         NEW left \in 0 .. Size, NEW n \in 1 .. left
  PROVE  /\ f \o Parts(r, left, n) \in Seq(Records \X (1 .. Size))
         /\ Len(f \o Parts(r, left, n)) = Len(f) + n
         /\ \A i \in 1 .. Len(f) : (f \o Parts(r, left, n))[i] = f[i]
         /\ \A i \in 1 .. n : (f \o Parts(r, left, n))[Len(f) + i] = <<r, (Size - left) + i>>
<1> DEFINE p == [i \in 1 .. n |-> <<r, (Size - left) + i>>]
<1>1. \A i \in 1 .. n : (Size - left) + i \in 1 .. Size  OBVIOUS
<1>2. p \in [1 .. n -> Records \X (1 .. Size)]  BY <1>1
<1>3. p \in Seq(Records \X (1 .. Size)) /\ Len(p) = n  BY <1>2
<1>4. \A i \in 1 .. n : p[i] = <<r, (Size - left) + i>>  OBVIOUS
<1> HIDE DEF p
<1>5. /\ f \o p \in Seq(Records \X (1 .. Size)) /\ Len(f \o p) = Len(f) + Len(p)
      /\ \A i \in 1 .. Len(f) + Len(p) :
           (f \o p)[i] = IF i <= Len(f) THEN f[i] ELSE p[i - Len(f)]
  BY <1>3, ConcatProperties
<1>6. Len(f) \in Nat /\ n \in Nat  OBVIOUS
<1>7. \A i \in 1 .. Len(f) : (f \o p)[i] = f[i]  BY <1>3, <1>5, <1>6
<1>8. ASSUME NEW i \in 1 .. n PROVE (f \o p)[Len(f) + i] = p[i]
  <2>1. Len(f) + i \in 1 .. Len(f) + Len(p) /\ ~(Len(f) + i <= Len(f))
        /\ (Len(f) + i) - Len(f) = i
    BY <1>3, <1>6
  <2>2. QED  BY <1>5, <2>1
<1>9. p = Parts(r, left, n)  BY DEF p, Parts
<1>10. QED  BY <1>3, <1>4, <1>5, <1>7, <1>8, <1>9

(* A step of DiagnosticLog::write, while the other writer is out of it.    *)
LEMMA FileStep ==
  ASSUME SinkType, WithinLimit, NEW w \in Writers, File(w),
         \A v \in Writers \ {w} : io[v].at = "out"
  PROVE  SinkType' /\ WithinLimit' /\ (\A v \in Writers \ {w} : io'[v] = io[v])
         /\ io[w].at # "out"
<1> USE DEF SinkType, IoRecord
<1>0. io[w].left \in 0 .. Size /\ io[w].record \in Records  OBVIOUS
<1>1. CASE FileOpen(w)
  <2>1. error' \in BOOLEAN /\ limited' \in BOOLEAN  BY <1>1, Zenon DEF FileOpen
  <2>2. file' = file /\ bytes' = bytes  BY <1>1 DEF FileOpen
  <2>3. CASE Fits /\ io' = [io EXCEPT ![w].at = "loop"]
    <3>1. io' \in [Writers -> IoRecord]  BY <2>3
    <3>2. \A v \in Writers \ {w} : io'[v] = io[v]  BY <2>3
    <3>3. io[w].at = "enter" /\ io'[w].left = io[w].left  BY <1>1, <2>3 DEF FileOpen
    <3>4. bytes + io[w].left <= Limit  BY <2>3, <1>0 DEF Fits
    <3>5. WithinLimit'  BY <2>2, <3>2, <3>3, <3>4 DEF WithinLimit
    <3>6. QED  BY <2>1, <2>2, <3>1, <3>2, <3>3, <3>5
  <2>4. CASE Leave(w)
    <3>1. io' \in [Writers -> IoRecord]  BY <2>4 DEF Leave
    <3>2. \A v \in Writers \ {w} : io'[v] = io[v]  BY <2>4 DEF Leave
    <3>3. io[w].at = "enter" /\ io'[w].at = "out"  BY <1>1, <2>4 DEF FileOpen, Leave
    <3>4. WithinLimit'  BY <2>2, <3>2, <3>3 DEF WithinLimit
    <3>5. QED  BY <2>1, <2>2, <3>1, <3>2, <3>3, <3>4
  <2>5. QED  BY <1>1, <2>3, <2>4 DEF FileOpen
<1>2. CASE FileWrite(w)
  <2>1. io[w].at = "loop" /\ limited' = limited  BY <1>2 DEF FileWrite
  <2>2. bytes + io[w].left <= Limit  BY <2>1 DEF WithinLimit
  <2>3. ASSUME NEW n \in 1 .. io[w].left,
               file' = file \o [i \in 1 .. n |-> <<io[w].record, (Size - io[w].left) + i>>],
               bytes' = bytes + n,
               io' = [io EXCEPT ![w].left = @ - n,
                        ![w].at = IF n = io[w].left THEN "close" ELSE "loop"],
               error' = error
        PROVE  SinkType' /\ WithinLimit' /\ (\A v \in Writers \ {w} : io'[v] = io[v])
    <3>0. io[w].left \in 0 .. Size /\ io[w].record \in Records /\ n \in 1 .. io[w].left
          /\ file \in Seq(Records \X (1 .. Size))
      BY <1>0
    <3>1. file' \in Seq(Records \X (1 .. Size)) /\ Len(file') = Len(file) + n
      <4>1. file' = file \o Parts(io[w].record, io[w].left, n)  BY <2>3 DEF Parts
      <4>2. QED  BY ONLY <4>1, <3>0, PartsAppended
    <3>2. io' \in [Writers -> IoRecord] /\ io'[w].left = io[w].left - n
      <4>1. io[w].left - n \in 0 .. Size  BY <3>0
      <4> DEFINE place == IF n = io[w].left THEN "close" ELSE "loop"
      <4>2. place \in {"close", "loop"}  OBVIOUS
      <4>3. io' = [io EXCEPT ![w].left = @ - n, ![w].at = place]  BY <2>3
      <4> HIDE DEF place
      <4>4. QED  BY ZenonT(30), <4>1, <4>2, <4>3
    <3>3. \A v \in Writers \ {w} : io'[v] = io[v]  BY <2>3
    <3>4. bytes' \in Nat /\ bytes' = Len(file') /\ bytes' <= Limit
      BY <2>2, <2>3, <3>1, <1>0 DEF WithinLimit
    <3>5. bytes' + io'[w].left <= Limit  BY <2>2, <2>3, <3>2, <1>0
    <3>6. WithinLimit'  BY <3>3, <3>4, <3>5 DEF WithinLimit
    <3>7. QED  BY <2>1, <2>3, <3>1, <3>2, <3>3, <3>4, <3>6
  <2>4. CASE /\ io' = [io EXCEPT ![w].at = "close", ![w].ok = FALSE]
             /\ error' = TRUE /\ UNCHANGED <<file, bytes>>
    <3>1. io' \in [Writers -> IoRecord] /\ io'[w].at = "close"  BY ZenonT(30), <2>4
    <3>2. \A v \in Writers \ {w} : io'[v] = io[v]  BY <2>4
    <3>3. error' \in BOOLEAN  BY <2>4, Zenon
    <3>4. WithinLimit'  BY <2>4, <3>1, <3>2 DEF WithinLimit
    <3>5. QED  BY <2>1, <2>4, <3>1, <3>2, <3>3, <3>4
  <2>5. QED  BY <1>2, <2>1, <2>3, <2>4 DEF FileWrite
<1>3. CASE FileClose(w)
  <2>1. io[w].at = "close" /\ UNCHANGED <<file, bytes, limited>>  BY <1>3 DEF FileClose
  <2>2. error' \in BOOLEAN  BY <1>3, Zenon DEF FileClose
  <2>3. io' \in [Writers -> IoRecord] /\ io'[w].at = "out"
    <3>1. CASE io' = [io EXCEPT ![w].at = "out"]  BY <3>1
    <3>2. CASE Leave(w)  BY <3>2 DEF Leave
    <3>3. QED  BY <1>3, <3>1, <3>2 DEF FileClose
  <2>4. \A v \in Writers \ {w} : io'[v] = io[v]  BY <1>3 DEF FileClose, Leave
  <2>5. WithinLimit'  BY <2>1, <2>3, <2>4 DEF WithinLimit
  <2>6. QED  BY <2>1, <2>2, <2>3, <2>4, <2>5
<1>4. QED  BY <1>1, <1>2, <1>3 DEF File

(* The types of what is no part of the file.                               *)
ParkedType ==
  /\ call \in Calls \cup {"none"}
  /\ at \in {"out", "drain", "drain_wait", "write", "stop", "join", "create",
             "init", "init_wait"}
  /\ worker \in {"none", "start", "look", "asleep", "write", "ended"}
  /\ busy \in BOOLEAN /\ stopping \in BOOLEAN /\ initialized \in BOOLEAN
  /\ record \in Records /\ made \in Records /\ session \subseteq Records
  /\ submitted \in Nat /\ dropped \in Nat /\ completed \in Nat /\ failures \in Nat
  /\ observed \in Nat \X Nat

(* TypeOK is the types of the two parts.                                   *)
LEMMA TypeParts == TypeOK <=> ParkedType /\ SinkType
BY DEF TypeOK, ParkedType, SinkType, IoRecord

(* One writer is out of the file while the other is in it.                 *)
LEMMA OneWriter ==
  ASSUME TypeOK, PlaceFits, WriterFits PROVE SinkAlone
BY DEF TypeOK, PlaceFits, WriterFits, SinkAlone, Threaded

(* A writer that begins a record leaves the file as it is.                 *)
LEMMA EnterStep ==
  ASSUME SinkType, WithinLimit, NEW w \in Writers, NEW r \in Records,
         io' = [io EXCEPT ![w] = Enter(r)], UNCHANGED sink
  PROVE  SinkType' /\ WithinLimit' /\ (\A v \in Writers \ {w} : io'[v] = io[v])
         /\ io'[w].at = "enter"
<1> USE DEF SinkType, IoRecord, sink
<1>1. Enter(r) \in IoRecord /\ Enter(r).at = "enter"  BY DEF Enter
<1>2. io' \in [Writers -> IoRecord] /\ io'[w].at = "enter"  BY <1>1
<1>3. \A v \in Writers \ {w} : io'[v] = io[v]  OBVIOUS
<1>4. WithinLimit'  BY <1>2, <1>3 DEF WithinLimit
<1>5. QED  BY <1>2, <1>3, <1>4

(* A step that leaves the file alone keeps its types and its limit.        *)
LEMMA SinkSame ==
  ASSUME SinkType, WithinLimit, UNCHANGED <<io, sink>>
  PROVE  SinkType' /\ WithinLimit'
BY DEF SinkType, WithinLimit, sink, IoRecord

(* The log begins closed, with no record and an empty file.                *)
LEMMA InitInv == Init => LogInv
<1> SUFFICES ASSUME Init PROVE LogInv  OBVIOUS
<1> USE DEF Init
<1>0. /\ busy \in BOOLEAN /\ stopping \in BOOLEAN /\ initialized \in BOOLEAN
      /\ limited \in BOOLEAN /\ error \in BOOLEAN
  BY Zenon
<1>1. SinkType
  <2>1. Idle \in IoRecord  BY DEF Idle, IoRecord, Records
  <2>2. io \in [Writers -> IoRecord]  BY <2>1
  <2>3. file \in Seq(Records \X (1 .. Size)) /\ bytes \in Nat  OBVIOUS
  <2>4. QED  BY <1>0, <2>2, <2>3 DEF SinkType
<1>2. ParkedType
  <2>1. record \in Records /\ made \in Records /\ session \subseteq Records  BY DEF Records
  <2>2. QED  BY <1>0, <2>1 DEF ParkedType, Calls
<1>3. PlaceFits  BY DEF PlaceFits, Threaded
<1>4. WriterFits  BY DEF WriterFits, Idle, Writers
<1>5. WithinLimit  BY DEF WithinLimit, Idle, Writers
<1>6. QED  BY <1>1, <1>2, <1>3, <1>4, <1>5, TypeParts DEF LogInv

(* The steps that write nothing and begin no record.                       *)
Quiet ==
  \/ Submit \/ Drop \/ Stats \/ (\E c \in Calls : Call(c))
  \/ DrainWait \/ Stop \/ Join \/ Create \/ AwaitInit
  \/ SpuriousOwner \/ SpuriousWorker \/ UNCHANGED vars

(* They keep the types and where the writers are.                          *)
LEMMA QuietParts ==
  ASSUME Undrained = FALSE, ParkedType, PlaceFits, Quiet
  PROVE  ParkedType' /\ PlaceFits' /\ UNCHANGED <<io, sink>>
         /\ (at = "write" => at' = "write") /\ (worker = "write" => worker' = "write")
<1> USE DEF ParkedType, PlaceFits, Threaded, Calls, Records, owner, flags, counts, ghosts, sink
<1>1. CASE Submit
  <2>1. busy' \in BOOLEAN  BY <1>1, Zenon DEF Submit
  <2>2. worker' \in {"none", "start", "look", "asleep", "write", "ended"} /\ worker' # "none"
        /\ (worker' = "write" <=> worker = "write")
    BY <1>1 DEF Submit, Signal
  <2>3. made' \in 0 .. MaxRecords /\ record' \in 0 .. MaxRecords  BY <1>1 DEF Submit
  <2>4. QED  BY <1>1, <2>1, <2>2, <2>3 DEF Submit, SlotFree
<1>2. CASE Drop  BY <1>2 DEF Drop
<1>3. CASE Stats  BY <1>3 DEF Stats, Observe
<1>4. CASE \E c \in Calls : Call(c)
  <2>1. PICK c \in Calls : Call(c)  BY <1>4
  <2>2. c # "log"  BY <2>1 DEF Call
  <2>3. QED  BY <2>1, <2>2 DEF Call
<1>5. CASE DrainWait  BY <1>5 DEF DrainWait, GoTo
<1>6. CASE Stop
  <2>1. stopping' \in BOOLEAN  BY <1>6, Zenon DEF Stop
  <2>2. worker' \in {"none", "start", "look", "asleep", "write", "ended"}
        /\ (worker' = "none" <=> worker = "none") /\ (worker' = "write" <=> worker = "write")
    BY <1>6 DEF Stop, Signal
  <2>3. UNCHANGED <<busy, initialized, record, counts, ghosts, io, sink>>  BY <1>6 DEF Stop
  <2>4. at = "stop" /\ (Return \/ GoTo("create") \/ GoTo("join"))
    BY <1>6 DEF Stop, Closed
  <2>5. QED  BY <2>1, <2>2, <2>3, <2>4 DEF Return, GoTo
<1>7. CASE Join
  <2>1. at = "join" /\ (Return \/ GoTo("create"))  BY <1>7 DEF Join, Closed
  <2>2. QED  BY <1>7, <2>1 DEF Join, Return, GoTo
<1>8. CASE Create
  <2>1. busy' \in BOOLEAN /\ stopping' \in BOOLEAN /\ initialized' \in BOOLEAN /\ busy' = FALSE
    BY <1>8, Zenon DEF Create
  <2>2. UNCHANGED <<record, made, io, sink>> /\ session' = {}
        /\ submitted' = 0 /\ dropped' = 0 /\ completed' = 0 /\ failures' = 0 /\ observed' = <<0, 0>>
    BY <1>8 DEF Create
  <2>3. at = "create" /\ worker' \in {"start", "none"} /\ (Return \/ GoTo("init"))
    BY <1>8 DEF Create
  <2>4. QED  BY <2>1, <2>2, <2>3 DEF Return, GoTo
<1>9. CASE AwaitInit  BY <1>9 DEF AwaitInit, Return, GoTo
<1>10. CASE SpuriousOwner  BY <1>10 DEF SpuriousOwner, GoTo, Awake
<1>11. CASE SpuriousWorker  BY <1>11 DEF SpuriousWorker
<1>12. CASE UNCHANGED vars  BY <1>12 DEF vars
<1>13. QED
  BY <1>1, <1>2, <1>3, <1>4, <1>5, <1>6, <1>7, <1>8, <1>9, <1>10, <1>11, <1>12 DEF Quiet

(* The head of the thread's loop, with or without a record in the slot.    *)
LEMMA LoopStep ==
  ASSUME SinkType, WithinLimit, WriterFits, record \in Records,
         worker # "write" \/ io["worker"].at = "out",
         NEW full \in BOOLEAN, Loop(full), UNCHANGED sink
  PROVE  /\ SinkType' /\ WithinLimit' /\ io'["owner"] = io["owner"]
         /\ worker' \in {"ended", "write", "asleep"}
         /\ worker' = "write" => full
         /\ io'["worker"].at # "out" => worker' = "write"
<1>1. CASE io' = io /\ worker' \in {"ended", "asleep"}
  BY <1>1, SinkSame DEF WriterFits
<1>2. CASE full /\ worker' = "write" /\ io' = [io EXCEPT !["worker"] = Enter(record)]
  BY <1>2, EnterStep DEF Writers
<1>3. QED  BY <1>1, <1>2 DEF Loop

(* No step of the owner or of the thread breaks the turns of the writers.  *)
LEMMA StepKeepsInv ==
  ASSUME Undrained = FALSE, LogInv, [Next]_vars PROVE LogInv'
<1>0. ParkedType /\ SinkType /\ PlaceFits /\ WriterFits /\ WithinLimit /\ SinkAlone
  BY TypeParts, OneWriter DEF LogInv
<1> SUFFICES ParkedType' /\ SinkType' /\ PlaceFits' /\ WriterFits' /\ WithinLimit'
  BY TypeParts, PTL DEF LogInv
<1> USE DEF Threaded, owner, flags, counts, ghosts
<1>1. CASE Quiet
  <2>1. ParkedType' /\ PlaceFits' /\ UNCHANGED <<io, sink>>
        /\ (at = "write" => at' = "write") /\ (worker = "write" => worker' = "write")
    BY <1>0, <1>1, QuietParts
  <2>2. WriterFits'  BY <1>0, <2>1 DEF WriterFits
  <2>3. QED  BY <1>0, <2>1, <2>2, SinkSame
<1>2. CASE OwnWrite
  <2>1. at = "write" /\ File("owner") /\ UNCHANGED <<owner, worker, flags, record, counts, ghosts>>
    BY <1>2 DEF OwnWrite
  <2>2. worker # "write"  BY <1>0, <2>1 DEF PlaceFits
  <2>3. \A v \in Writers \ {"owner"} : io[v].at = "out"  BY <1>0, <2>2 DEF WriterFits, Writers
  <2>4. SinkType' /\ WithinLimit' /\ io'["worker"] = io["worker"]
    BY <1>0, <2>1, <2>3, FileStep DEF Writers
  <2>5. ParkedType' /\ PlaceFits'  BY <1>0, <2>1 DEF ParkedType, PlaceFits
  <2>6. WriterFits'  BY <1>0, <2>1, <2>4 DEF WriterFits
  <2>7. QED  BY <2>4, <2>5, <2>6
<1>3. CASE Write
  <2>1. worker = "write" /\ File("worker")
        /\ UNCHANGED <<owner, worker, flags, record, counts, ghosts>>
    BY <1>3 DEF Write
  <2>2. at # "write"  BY <1>0, <2>1 DEF PlaceFits
  <2>3. \A v \in Writers \ {"worker"} : io[v].at = "out"  BY <1>0, <2>2 DEF WriterFits, Writers
  <2>4. SinkType' /\ WithinLimit' /\ io'["owner"] = io["owner"]
    BY <1>0, <2>1, <2>3, FileStep DEF Writers
  <2>5. ParkedType' /\ PlaceFits'  BY <1>0, <2>1 DEF ParkedType, PlaceFits
  <2>6. WriterFits'  BY <1>0, <2>1, <2>4 DEF WriterFits
  <2>7. QED  BY <2>4, <2>5, <2>6
<1>4. CASE Drained
  <2>1. at = "drain" /\ (~busy \/ worker = "none")  BY <1>4 DEF Drained, AwaitIdle
  <2>2. ~busy /\ worker # "write"  BY <1>0, <2>1 DEF PlaceFits
  <2>3. UNCHANGED <<worker, flags, record, submitted, dropped, completed, failures, session, sink>>
    BY <1>4 DEF Drained
  <2>4. observed' \in Nat \X Nat  BY <1>0, <1>4 DEF Drained, Observe, ParkedType
  <2>5. io["owner"].at = "out" /\ io["worker"].at = "out"
    BY <1>0, <1>4, <2>2 DEF WriterFits, Drained
  <2>6. CASE /\ Return \/ (call \in {"close", "open"} /\ GoTo("stop"))
             /\ UNCHANGED <<made, io>> /\ call # "none"
    <3>1. SinkType' /\ WithinLimit'  BY <1>0, <2>3, <2>6, SinkSame
    <3>2. ParkedType' /\ PlaceFits'
      BY <1>0, <2>2, <2>3, <2>4, <2>6 DEF ParkedType, PlaceFits, Return, GoTo
    <3>3. WriterFits'  BY <2>5, <2>6 DEF WriterFits
    <3>4. QED  BY <3>1, <3>2, <3>3
  <2>7. CASE /\ call = "sync" /\ GoTo("write") /\ made' = made + 1 /\ made' \in Records
             /\ io' = [io EXCEPT !["owner"] = Enter(made')]
    <3>1. SinkType' /\ WithinLimit' /\ io'["worker"] = io["worker"]
      BY <1>0, <2>3, <2>7, EnterStep DEF Writers
    <3>2. ParkedType' /\ PlaceFits'
      BY <1>0, <2>2, <2>3, <2>4, <2>7 DEF ParkedType, PlaceFits, GoTo
    <3>3. WriterFits'  BY <2>5, <2>7, <3>1 DEF WriterFits, GoTo
    <3>4. QED  BY <3>1, <3>2, <3>3
  <2>8. call = "sync" => made + 1 \in Records
    BY <1>0, <2>1 DEF PlaceFits, ParkedType, Records
  <2>9. QED  BY <1>4, <2>6, <2>7, <2>8 DEF Drained
<1>5. CASE OwnWritten
  <2>1. at = "write" /\ io["owner"].at = "out"
        /\ UNCHANGED <<worker, flags, record, counts, session, sink>>
    BY <1>5 DEF OwnWritten
  <2>2. worker # "write" /\ ~busy /\ io["worker"].at = "out"
    BY <1>0, <2>1 DEF PlaceFits, WriterFits
  <2>3. CASE Return /\ UNCHANGED <<made, io>>
    <3>1. SinkType' /\ WithinLimit'  BY <1>0, <2>1, <2>3, SinkSame
    <3>2. ParkedType' /\ PlaceFits'
      BY <1>0, <2>1, <2>2, <2>3 DEF ParkedType, PlaceFits, Return
    <3>3. WriterFits'  BY <2>1, <2>2, <2>3 DEF WriterFits
    <3>4. QED  BY <3>1, <3>2, <3>3
  <2>4. CASE /\ made < MaxRecords /\ GoTo("write") /\ made' = made + 1
             /\ io' = [io EXCEPT !["owner"] = Enter(made')]
    <3>0. made' \in Records  BY <1>0, <2>4 DEF ParkedType, Records
    <3>1. SinkType' /\ WithinLimit' /\ io'["worker"] = io["worker"]
      BY <1>0, <2>1, <2>4, <3>0, EnterStep DEF Writers
    <3>2. ParkedType' /\ PlaceFits'
      BY <1>0, <2>1, <2>2, <2>4, <3>0 DEF ParkedType, PlaceFits, GoTo
    <3>3. WriterFits'  BY <2>1, <2>2, <2>4, <3>1 DEF WriterFits, GoTo
    <3>4. QED  BY <3>1, <3>2, <3>3
  <2>5. QED  BY <1>5, <2>3, <2>4 DEF OwnWritten
<1>6. CASE Start \/ Look
  <2>1. worker \in {"start", "look"} /\ Loop(busy)
        /\ UNCHANGED <<call, busy, stopping, record, counts, ghosts, sink>>
    BY <1>6 DEF Start, Look
  <2>2. initialized' \in BOOLEAN /\ at' \in {at, Awake(at)}
    BY <1>0, <1>6, Zenon DEF Start, Look, ParkedType
  <2>3. /\ SinkType' /\ WithinLimit' /\ io'["owner"] = io["owner"]
        /\ worker' \in {"ended", "write", "asleep"} /\ (worker' = "write" => busy)
        /\ (io'["worker"].at # "out" => worker' = "write")
    BY <1>0, <2>1, LoopStep DEF ParkedType
  <2>4. ParkedType'  BY <1>0, <2>1, <2>2, <2>3 DEF ParkedType, Awake
  <2>5. PlaceFits'  BY <1>0, <2>1, <2>2, <2>3 DEF PlaceFits, Awake
  <2>6. WriterFits'  BY <1>0, <2>2, <2>3 DEF WriterFits, Awake
  <2>7. QED  BY <2>3, <2>4, <2>5, <2>6
<1>7. CASE Written
  <2>1. /\ worker = "write" /\ io["worker"].at = "out" /\ Loop(FALSE) /\ at' = Awake(at)
        /\ UNCHANGED <<call, stopping, initialized, record, submitted, dropped, observed,
                       ghosts, sink>>
    BY <1>7 DEF Written, WakeOwner
  <2>2. busy' = FALSE /\ busy' \in BOOLEAN  BY <1>7, Zenon DEF Written
  <2>3. completed' \in Nat /\ failures' \in Nat  BY <1>0, <1>7 DEF Written, ParkedType
  <2>4. /\ SinkType' /\ WithinLimit' /\ io'["owner"] = io["owner"]
        /\ worker' \in {"ended", "write", "asleep"} /\ worker' # "write"
        /\ (io'["worker"].at # "out" => worker' = "write")
    BY <1>0, <2>1, LoopStep DEF ParkedType
  <2>5. ParkedType'  BY <1>0, <2>1, <2>2, <2>3, <2>4 DEF ParkedType, Awake
  <2>6. PlaceFits'  BY <1>0, <2>1, <2>2, <2>4 DEF PlaceFits, Awake
  <2>7. WriterFits'  BY <1>0, <2>1, <2>4 DEF WriterFits, Awake
  <2>8. QED  BY <2>4, <2>5, <2>6, <2>7
<1>8. QED
  BY <1>1, <1>2, <1>3, <1>4, <1>5, <1>6, <1>7 DEF Next, Owner, Thread, Quiet

(* When the owner drains before each record of its own, the two writers of *)
(* the log take turns and keep the limit of the file together.             *)
THEOREM WritersTakeTurns == ASSUME Undrained = FALSE PROVE Spec => []LogInv
<1>1. LogInv /\ [Next]_vars => LogInv'  BY StepKeepsInv
<1>2. QED  BY InitInv, <1>1, PTL DEF Spec

(* So the owner and the thread are never in DiagnosticLog::write at once.  *)
THEOREM FileAlone == ASSUME Undrained = FALSE PROVE Spec => []SinkAlone
<1>1. LogInv => SinkAlone  BY OneWriter DEF LogInv
<1>2. QED  BY WritersTakeTurns, <1>1, PTL
-----------------------------------------------------------------------------
(* The last part in the file; whether a record may follow it, and which.   *)
End        == file[Len(file)]
Ended      == file # <<>> => End[2] = Size \/ error
Before(r)  == file # <<>> => End[1] < r
Inside(w)  == file # <<>> /\ End = <<io[w].record, Size - io[w].left>>

(* How far a writer is with its record: what it has not begun may follow   *)
(* the last part, and of what it has begun that part is the last.          *)
Begins(w) == io[w].left = Size /\ Before(io[w].record) /\ Ended
WriterAt(w) ==
  /\ io[w].at = "enter" => Begins(w) /\ io[w].ok
  /\ io[w].at = "loop" => io[w].left > 0 /\ io[w].ok /\ (Begins(w) \/ Inside(w))
  /\ io[w].at = "close" => /\ io[w].ok => io[w].left = 0 /\ Inside(w)
                           /\ ~io[w].ok => error /\ (Begins(w) \/ Inside(w))

(* The records are numbered as they are made: the one in the slot follows  *)
(* those in the file, since the owner writes none while it is there.       *)
OrderInv ==
  /\ LogInOrder
  /\ \A w \in Writers : io[w].at # "out" => WriterAt(w) /\ io[w].record <= made
  /\ (\A w \in Writers : io[w].at = "out") => Ended
  /\ Before(made + 1)
  /\ busy /\ worker # "write" => Before(record)

(* What became of the records that were taken: all but the one in the slot *)
(* are completed, and at most as many torn or missing as have failed.      *)
InSlot  == IF busy THEN {record} ELSE {}
Missing == {r \in session : ~Whole(r)} \ InSlot
TallyInv ==
  /\ session \subseteq 1 .. made /\ InSlot \subseteq session
  /\ submitted = Cardinality(session)
  /\ submitted = completed + (IF busy THEN 1 ELSE 0)
  /\ failures <= completed
  /\ Cardinality(Missing) <= failures
  /\ worker = "write" => /\ io["worker"].record = record
                         /\ io["worker"].at = "out" /\ io["worker"].ok => Whole(record)

(* What a step of a writer does to the order of the file.                  *)
Writes(w) ==
  /\ LogInOrder' /\ io'[w].record = io[w].record
  /\ io'[w].at = "out" => Ended' /\ (io'[w].ok => Whole(io[w].record)')
  /\ io'[w].at # "out" => WriterAt(w)'
  /\ \A m \in Nat : io[w].record < m /\ Before(m) => Before(m)'
  /\ \A r \in Records : Whole(r) => Whole(r)'

(* Parts of a record that has its turn keep the file in order.             *)
LEMMA OrderKept ==
  ASSUME NEW r \in Nat, NEW next \in Nat, NEW n \in Nat \ {0},
         file \in Seq(Records \X (1 .. Size)), LogInOrder, error' = error,
         Len(file') = Len(file) + n, file' \in Seq(Records \X (1 .. Size)),
         \A i \in 1 .. Len(file) : file'[i] = file[i],
         \A i \in 1 .. n : file'[Len(file) + i] = <<r, next + i>>,
         \/ next = 0 /\ Before(r) /\ Ended
         \/ file # <<>> /\ End = <<r, next>>
  PROVE  /\ LogInOrder' /\ file' # <<>> /\ End' = <<r, next + n>>
         /\ \A k \in Records : Whole(k) => Whole(k)'
<1>1. Len(file) \in Nat  OBVIOUS
<1>2. file'[Len(file) + 1] = <<r, next + 1>>  BY SMTT(30)
<1>3. file' # <<>> /\ End' = <<r, next + n>>  BY SMTT(30), <1>1 DEF End
<1>4. file # <<>> => End \in Nat \X (1 .. Size)  BY DEF End, Records
<1>5. file'[1][2] = 1
  <2>1. CASE file = <<>>  BY <1>2, <2>1
  <2>2. CASE file # <<>>
    <3>1. 1 \in 1 .. Len(file)  BY <2>2
    <3>2. QED  BY <2>2, <3>1 DEF LogInOrder
  <2>3. QED  BY <2>1, <2>2
<1>6. ASSUME NEW i \in 1 .. Len(file') - 1
      PROVE  LET p == file'[i]
                 q == file'[i + 1]
             IN \/ q[1] = p[1] /\ q[2] = p[2] + 1
                \/ q[1] > p[1] /\ q[2] = 1 /\ (p[2] = Size \/ error')
  <2>1. CASE i \in 1 .. Len(file) - 1
    <3>1. i \in 1 .. Len(file) /\ i + 1 \in 1 .. Len(file)  BY <1>1, <2>1
    <3>2. file'[i] = file[i] /\ file'[i + 1] = file[i + 1]  BY <3>1
    <3>3. QED  BY <2>1, <3>2 DEF LogInOrder
  <2>2. CASE i = Len(file)
    <3>1. file # <<>> /\ i \in 1 .. Len(file)  BY ONLY <2>2, i \in 1 .. Len(file') - 1,
                                                       <1>1, file \in Seq(Records \X (1 .. Size))
    <3>2. file'[i] = End /\ file'[i + 1] = <<r, next + 1>>  BY <1>2, <2>2, <3>1 DEF End
    <3>3. CASE next = 0 /\ Before(r) /\ Ended
      <4>1. End[1] < r /\ (End[2] = Size \/ error)  BY <3>1, <3>3 DEF Before, Ended
      <4>2. r > End[1]  BY ONLY <1>4, <3>1, <4>1, r \in Nat
      <4>3. QED  BY ONLY <3>2, <3>3, <4>1, <4>2, error' = error
    <3>4. CASE End = <<r, next>>  BY ONLY <3>2, <3>4
    <3>5. QED  BY <3>3, <3>4
  <2>3. CASE i > Len(file)
    <3> DEFINE j == i - Len(file)
    <3>1. /\ j \in 1 .. n /\ j + 1 \in 1 .. n
          /\ i = Len(file) + j /\ i + 1 = Len(file) + (j + 1)
      BY ONLY <1>1, <2>3, i \in 1 .. Len(file') - 1, Len(file') = Len(file) + n, n \in Nat \ {0}
    <3> HIDE DEF j
    <3>2. file'[i] = <<r, next + j>> /\ file'[i + 1] = <<r, next + (j + 1)>>
      BY ONLY <3>1, \A k \in 1 .. n : file'[Len(file) + k] = <<r, next + k>>
    <3>3. next + (j + 1) = (next + j) + 1  BY ONLY <3>1, n \in Nat \ {0}, next \in Nat
    <3>4. QED  BY ONLY <3>2, <3>3
  <2>4. QED  BY <1>1, <2>1, <2>2, <2>3
<1>7. ASSUME NEW k \in Records, Whole(k) PROVE Whole(k)'
  <2>1. PICK i \in 1 .. Len(file) : file[i] = <<k, Size>>  BY <1>7 DEF Whole
  <2>2. i \in 1 .. Len(file') /\ file'[i] = <<k, Size>>  BY SMTT(30), <1>1, <2>1
  <2>3. QED  BY <2>2 DEF Whole
<1>8. QED  BY <1>3, <1>5, <1>6, <1>7 DEF LogInOrder

(* sceIoWrite takes parts of a record that has its turn.                   *)
LEMMA WriteInOrder ==
  ASSUME SinkType, NEW w \in Writers, io[w].at = "loop", LogInOrder, WriterAt(w),
         NEW n \in 1 .. io[w].left,
         file' = file \o [i \in 1 .. n |-> <<io[w].record, (Size - io[w].left) + i>>],
         io' = [io EXCEPT ![w].left = @ - n,
                          ![w].at = IF n = io[w].left THEN "close" ELSE "loop"],
         error' = error
  PROVE  Writes(w)
<1> DEFINE next == Size - io[w].left
<1>1. /\ io[w].record \in Records /\ io[w].left \in 0 .. Size
      /\ file \in Seq(Records \X (1 .. Size)) /\ n \in 1 .. io[w].left
  BY DEF SinkType, IoRecord
<1> DEFINE g == file \o Parts(io[w].record, io[w].left, n)
<1>2. /\ Len(file') = Len(file) + n /\ file' \in Seq(Records \X (1 .. Size))
      /\ \A i \in 1 .. Len(file) : file'[i] = file[i]
      /\ \A i \in 1 .. n : file'[Len(file) + i] = <<io[w].record, next + i>>
  <2>1. /\ g \in Seq(Records \X (1 .. Size)) /\ Len(g) = Len(file) + n
        /\ \A i \in 1 .. Len(file) : g[i] = file[i]
        /\ \A i \in 1 .. n : g[Len(file) + i] = <<io[w].record, (Size - io[w].left) + i>>
    <3> DEFINE rec == io[w].record
               left == io[w].left
    <3>1. /\ rec \in Records /\ left \in 0 .. Size /\ n \in 1 .. left
          /\ file \in Seq(Records \X (1 .. Size))
      BY ONLY <1>1
    <3> HIDE DEF rec, left
    <3>2. /\ file \o Parts(rec, left, n) \in Seq(Records \X (1 .. Size))
          /\ Len(file \o Parts(rec, left, n)) = Len(file) + n
          /\ \A i \in 1 .. Len(file) : (file \o Parts(rec, left, n))[i] = file[i]
          /\ \A i \in 1 .. n : (file \o Parts(rec, left, n))[Len(file) + i]
                                 = <<rec, (Size - left) + i>>
      BY ONLY SMTT(30), <3>1, PartsAppended
    <3>3. QED  BY ONLY <3>2 DEF rec, left
  <2>2. file' = g  BY DEF Parts
  <2> HIDE DEF g
  <2>3. QED  BY ONLY <2>1, <2>2
<1>3. next \in Nat /\ n \in Nat \ {0} /\ io[w].record \in Nat
  BY ONLY <1>1, SizeAssumption DEF Records
<1>4. \/ next = 0 /\ Before(io[w].record) /\ Ended
      \/ file # <<>> /\ End = <<io[w].record, next>>
  BY <1>1 DEF WriterAt, Begins, Inside
<1>5. /\ LogInOrder' /\ file' # <<>> /\ End' = <<io[w].record, next + n>>
      /\ \A k \in Records : Whole(k) => Whole(k)'
  BY ONLY <1>1, <1>2, <1>3, <1>4, LogInOrder, error' = error, OrderKept
<1>6. /\ io'[w].record = io[w].record /\ io'[w].ok = io[w].ok
      /\ io'[w].left = io[w].left - n
      /\ io'[w].at = IF n = io[w].left THEN "close" ELSE "loop"
  BY DEF SinkType, IoRecord
<1>7. io[w].ok  BY DEF WriterAt
<1>8. Size - (io[w].left - n) = next + n  BY <1>1
<1> HIDE DEF next
<1>9. Inside(w)'  BY ONLY <1>5, <1>6, <1>8 DEF Inside
<1>10. io'[w].at # "out" /\ WriterAt(w)'
  <2>1. io'[w].at \in {"close", "loop"}  BY ONLY <1>6
  <2>2. io'[w].at = "close" => io'[w].left = 0  BY ONLY <1>1, <1>6
  <2>3. io'[w].at = "loop" => io'[w].left > 0  BY ONLY <1>1, <1>6
  <2>4. QED  BY ONLY <1>6, <1>7, <1>9, <2>1, <2>2, <2>3 DEF WriterAt
<1>11. \A m \in Nat : io[w].record < m => Before(m)'  BY ONLY <1>5 DEF Before
<1>12. QED  BY ONLY <1>5, <1>6, <1>10, <1>11 DEF Writes

(* A file operation that takes no part keeps the order; error_ stays set.  *)
LEMMA OrderSame ==
  ASSUME file' = file, error => error', LogInOrder PROVE LogInOrder' /\ (Ended => Ended')
BY DEF LogInOrder, Ended, End

(* Opening, writing, and closing the file, each of which may fail.         *)
LEMMA FileInOrder ==
  ASSUME SinkType, NEW w \in Writers, File(w), LogInOrder, WriterAt(w) PROVE Writes(w)
<1> USE DEF SinkType, IoRecord
<1>1. CASE FileOpen(w)
  <2>1. io[w].at = "enter" /\ Begins(w) /\ io[w].ok /\ file' = file
    BY <1>1 DEF FileOpen, WriterAt
  <2>2. error => error'  BY <1>1, Zenon DEF FileOpen
  <2>3. LogInOrder' /\ Ended'  BY <2>1, <2>2, OrderSame DEF Begins
  <2>4. \A m \in Nat : Before(m) => Before(m)'  BY <2>1 DEF Before, End
  <2>5. \A r \in Records : Whole(r) => Whole(r)'  BY <2>1 DEF Whole
  <2>6. CASE io' = [io EXCEPT ![w].at = "loop"]
    <3>1. /\ io'[w].at = "loop" /\ io'[w].left = io[w].left /\ io'[w].ok = io[w].ok
          /\ io'[w].record = io[w].record
      BY <2>6
    <3>2. Before(io[w].record)'  BY <2>1, <3>1 DEF Begins, Before, End
    <3>3. Begins(w)' /\ io'[w].left > 0  BY <2>1, <2>3, <3>1, <3>2 DEF Begins
    <3>4. WriterAt(w)'  BY <2>1, <3>1, <3>3 DEF WriterAt
    <3>5. QED  BY <2>3, <2>4, <2>5, <3>1, <3>4 DEF Writes
  <2>7. CASE Leave(w)
    <3>1. io'[w].at = "out" /\ ~io'[w].ok /\ io'[w].record = io[w].record  BY <2>7 DEF Leave
    <3>2. QED  BY <2>3, <2>4, <2>5, <3>1 DEF Writes
  <2>8. QED  BY <1>1, <2>6, <2>7 DEF FileOpen
<1>2. CASE FileWrite(w)
  <2>1. io[w].at = "loop"  BY <1>2 DEF FileWrite
  <2>2. CASE \E n \in 1 .. io[w].left :
               /\ file' = file \o [i \in 1 .. n |-> <<io[w].record, (Size - io[w].left) + i>>]
               /\ io' = [io EXCEPT ![w].left = @ - n,
                           ![w].at = IF n = io[w].left THEN "close" ELSE "loop"]
               /\ error' = error
    BY <2>1, <2>2, WriteInOrder
  <2>3. CASE /\ io' = [io EXCEPT ![w].at = "close", ![w].ok = FALSE]
             /\ error' = TRUE /\ file' = file
    <3>1. LogInOrder' /\ (Ended => Ended')  BY <2>3, OrderSame
    <3>2. \A m \in Nat : Before(m) => Before(m)'  BY <2>3 DEF Before, End
    <3>3. \A r \in Records : Whole(r) => Whole(r)'  BY <2>3 DEF Whole
    <3>4. /\ io'[w].at = "close" /\ io'[w].left = io[w].left /\ ~io'[w].ok
          /\ io'[w].record = io[w].record
      BY <2>3
    <3>5. Begins(w) => Begins(w)'  BY <2>3, <3>1, <3>4 DEF Begins, Before, End
    <3>6. Inside(w) => Inside(w)'  BY <2>3, <3>4 DEF Inside, End
    <3>7. WriterAt(w)'  BY <2>1, <2>3, <3>4, <3>5, <3>6 DEF WriterAt
    <3>8. QED  BY <3>1, <3>2, <3>3, <3>4, <3>7 DEF Writes
  <2>4. QED  BY <1>2, <2>2, <2>3 DEF FileWrite
<1>3. CASE FileClose(w)
  <2>1. io[w].at = "close" /\ file' = file  BY <1>3 DEF FileClose
  <2>2. error => error'  BY <1>3, Zenon DEF FileClose
  <2>3. LogInOrder' /\ (Ended => Ended')  BY <2>1, <2>2, OrderSame
  <2>4. \A m \in Nat : Before(m) => Before(m)'  BY <2>1 DEF Before, End
  <2>5. \A r \in Records : Whole(r) => Whole(r)'  BY <2>1 DEF Whole
  <2>6. io'[w].at = "out" /\ io'[w].record = io[w].record /\ (io'[w].ok => io[w].ok)
    <3>1. CASE io' = [io EXCEPT ![w].at = "out"]  BY <3>1
    <3>2. CASE Leave(w)  BY <3>2 DEF Leave
    <3>3. QED  BY <1>3, <3>1, <3>2 DEF FileClose
  <2>7. CASE io[w].ok
    <3>1. file # <<>> /\ End = <<io[w].record, Size>>
      BY <2>1, <2>7 DEF WriterAt, Inside
    <3>2. Ended'  BY <2>1, <3>1 DEF Ended, End
    <3>3. Whole(io[w].record)'
      <4>1. Len(file) \in 1 .. Len(file)  BY <3>1
      <4>2. file'[Len(file)] = <<io[w].record, Size>> /\ Len(file') = Len(file)
        BY <2>1, <3>1 DEF End
      <4>3. \E i \in 1 .. Len(file') : file'[i] = <<io[w].record, Size>>
        BY ONLY <4>1, <4>2
      <4>4. QED  BY <2>6, <4>3 DEF Whole
    <3>4. QED  BY <2>3, <2>4, <2>5, <2>6, <3>2, <3>3 DEF Writes
  <2>8. CASE ~io[w].ok
    <3>1. error'  BY <2>1, <2>2, <2>8 DEF WriterAt
    <3>2. Ended'  BY <3>1 DEF Ended
    <3>3. QED  BY <2>3, <2>4, <2>5, <2>6, <2>8, <3>2 DEF Writes
  <2>9. QED  BY <2>7, <2>8
<1>4. QED  BY <1>1, <1>2, <1>3 DEF File

(* A step that touches no file; the slot may take the newest record.       *)
LEMMA OrderParked ==
  ASSUME SinkType, OrderInv, made \in Nat, made' \in {made, made + 1}, UNCHANGED <<io, sink>>,
         busy' /\ worker' # "write" => Before(record')
  PROVE  OrderInv'
<1> USE DEF OrderInv, SinkType, IoRecord, Records, sink
<1>1. LogInOrder' /\ (Ended => Ended')  BY OrderSame
<1>2. \A m : Before(m) <=> Before(m)'  BY DEF Before, End
<1>3. ASSUME NEW w \in Writers, io[w].at # "out"
      PROVE  WriterAt(w)' /\ io[w].record <= made'
  <2>1. WriterAt(w)'  BY <1>1, <1>2, <1>3 DEF WriterAt, Begins, Inside, Before, End
  <2>2. io[w].record \in Nat  OBVIOUS
  <2>3. QED  BY <1>3, <2>1, <2>2
<1>4. Before(made + 1)'
  <2>1. file # <<>> => End[1] \in Nat  BY DEF End
  <2>2. file # <<>> => End[1] < made' + 1  BY SMTT(30), <2>1 DEF Before
  <2>3. QED  BY <2>2 DEF Before, End
<1>5. (\A w \in Writers : io'[w].at = "out") => Ended'  BY <1>1
<1>6. busy' /\ worker' # "write" => Before(record)'  BY DEF Before, End
<1>7. QED  BY <1>1, <1>3, <1>4, <1>5, <1>6

(* A writer begins a record that follows those in the file.                *)
LEMMA OrderBegins ==
  ASSUME SinkType, OrderInv, made \in Nat, made' \in {made, made + 1},
         \A v \in Writers : io[v].at = "out",
         NEW w \in Writers, NEW r \in Records, Before(r), r <= made',
         io' = [io EXCEPT ![w] = Enter(r)], UNCHANGED sink,
         busy' => worker' = "write"
  PROVE  OrderInv'
<1> USE DEF OrderInv, SinkType, IoRecord, Records, sink
<1>1. LogInOrder' /\ Ended'  BY OrderSame
<1>2. io'[w] = Enter(r) /\ \A v \in Writers \ {w} : io'[v].at = "out"  OBVIOUS
<1>3. Before(io[w].record)'  BY <1>2 DEF Before, End, Enter
<1>4. Begins(w)'  BY <1>1, <1>2, <1>3 DEF Begins, Enter
<1>5. WriterAt(w)' /\ io'[w].record <= made' /\ io'[w].at # "out"
  BY <1>2, <1>4 DEF WriterAt, Enter
<1>6. Before(made + 1)'
  <2>1. file # <<>> => End[1] \in Nat  BY DEF End
  <2>2. file # <<>> => End[1] < made' + 1  BY SMTT(30), <2>1 DEF Before
  <2>3. QED  BY <2>2 DEF Before, End
<1>7. QED  BY <1>1, <1>2, <1>5, <1>6

(* A writer goes on with its record.                                       *)
LEMMA OrderWritten ==
  ASSUME SinkType, SinkType', OrderInv, made \in Nat, made' = made, NEW w \in Writers, File(w),
         io[w].at # "out", \A v \in Writers \ {w} : io[v].at = "out" /\ io'[v] = io[v],
         busy' => worker' = "write"
  PROVE  OrderInv' /\ Writes(w)
<1>1. WriterAt(w) /\ io[w].record <= made /\ LogInOrder /\ Before(made + 1)  BY DEF OrderInv
<1>2. Writes(w)  BY <1>1, FileInOrder
<1>3. LogInOrder' /\ io'[w].record <= made'  BY <1>1, <1>2 DEF Writes
<1>4. Before(made + 1)'
  <2>1. io[w].record < made + 1 /\ made + 1 \in Nat  BY <1>1 DEF SinkType, IoRecord, Records
  <2>2. \A m \in Nat : io[w].record < m /\ Before(m) => Before(m)'  BY <1>2 DEF Writes
  <2>3. QED  BY <1>1, <2>1, <2>2 DEF Before
<1>5. io'[w].at # "out" => WriterAt(w)'  BY <1>2 DEF Writes
<1>6. io'[w].at = "out" => Ended'  BY <1>2 DEF Writes
<1>7. QED  BY <1>2, <1>3, <1>4, <1>5, <1>6 DEF OrderInv

(* No step puts a record into the file before one that was made earlier.   *)
LEMMA StepKeepsOrder ==
  ASSUME Undrained = FALSE, LogInv, LogInv', OrderInv, busy => record <= made, [Next]_vars
  PROVE  OrderInv' /\ \A w \in Writers : File(w) => Writes(w)
<1>1. /\ ParkedType /\ SinkType /\ PlaceFits /\ WriterFits /\ WithinLimit
      /\ ParkedType' /\ SinkType' /\ PlaceFits'
  BY DEF LogInv, TypeOK, ParkedType, SinkType, IoRecord
<1>2. made \in Nat /\ record \in Records /\ made \in Records  BY <1>1 DEF ParkedType, Records
<1> USE DEF Threaded, owner, flags, counts, ghosts
<1>3. ASSUME NEW w \in Writers, File(w) PROVE Writes(w)
  BY <1>1, <1>3, FileInOrder DEF OrderInv, File, FileOpen, FileWrite, FileClose
<1>4. CASE Quiet
  <2>1. /\ UNCHANGED <<io, sink>>
        /\ (at = "write" => at' = "write") /\ (worker = "write" => worker' = "write")
    BY <1>1, <1>4, QuietParts
  <2>2. CASE Submit
    <3>1. made' = made + 1 /\ record' = made + 1  BY <2>2 DEF Submit
    <3>2. Before(record')  BY <3>1 DEF OrderInv
    <3>3. QED  BY <1>1, <1>2, <1>3, <2>1, <3>1, <3>2, OrderParked
  <2>3. CASE ~Submit
    <3>1. made' \in {made, made + 1} /\ record' = record /\ (busy' => busy)
      BY <1>4, <2>3
      DEF Quiet, Drop, Stats, Call, DrainWait, Stop, Join, Create, AwaitInit, SpuriousOwner,
          SpuriousWorker, vars
    <3>2. busy' /\ worker' # "write" => Before(record')  BY <2>1, <3>1 DEF OrderInv
    <3>3. QED  BY <1>1, <1>2, <1>3, <2>1, <3>1, <3>2, OrderParked
  <2>4. QED  BY <2>2, <2>3
<1>5. ASSUME NEW w \in Writers, File(w), at = "write" \/ worker = "write",
             UNCHANGED <<made, busy, worker>>
      PROVE  OrderInv'
  <2>1. io[w].at # "out"  BY <1>5 DEF File, FileOpen, FileWrite, FileClose
  <2>2. \A v \in Writers \ {w} : io[v].at = "out"
    BY <1>1, <2>1 DEF WriterFits, PlaceFits, Writers
  <2>3. \A v \in Writers \ {w} : io'[v] = io[v]  BY <1>1, <1>5, <2>2, FileStep
  <2>4. busy' => worker' = "write"  BY <1>1, <1>5 DEF PlaceFits
  <2>5. QED  BY <1>1, <1>2, <1>5, <2>1, <2>2, <2>3, <2>4, OrderWritten
<1>6. CASE OwnWrite \/ Write
  BY <1>3, <1>5, <1>6 DEF OwnWrite, Write, Writers
<1>7. ASSUME made' = made + 1, io' = [io EXCEPT !["owner"] = Enter(made')], ~busy, ~busy',
             io["owner"].at = "out", UNCHANGED sink
      PROVE  OrderInv'
  <2>1. \A v \in Writers : io[v].at = "out"  BY <1>1, <1>7 DEF WriterFits, PlaceFits, Writers
  <2> DEFINE next == made + 1
  <2>2. next \in Records  BY <1>1, <1>7 DEF ParkedType
  <2>3. Before(next) /\ next <= made' /\ made' \in {made, made + 1}
    BY <1>2, <1>7 DEF OrderInv
  <2>4. io' = [io EXCEPT !["owner"] = Enter(next)] /\ (busy' => worker' = "write")  BY <1>7
  <2> HIDE DEF next
  <2>5. QED  BY <1>1, <1>2, <1>7, <2>1, <2>2, <2>3, <2>4, OrderBegins DEF Writers
<1>8. CASE Drained
  <2>1. at = "drain" /\ ~busy /\ ~busy' /\ io["owner"].at = "out"
    BY <1>1, <1>8 DEF Drained, AwaitIdle, PlaceFits, WriterFits
  <2>2. UNCHANGED sink  BY <1>8 DEF Drained
  <2>3. CASE UNCHANGED <<made, io>>  BY <1>1, <1>2, <1>3, <2>1, <2>2, <2>3, OrderParked
  <2>4. CASE made' = made + 1 /\ io' = [io EXCEPT !["owner"] = Enter(made')]
    BY <1>3, <1>7, <2>1, <2>2, <2>4
  <2>5. QED  BY <1>8, <2>3, <2>4 DEF Drained
<1>9. CASE OwnWritten
  <2>1. at = "write" /\ ~busy /\ ~busy' /\ io["owner"].at = "out"
    BY <1>1, <1>9 DEF OwnWritten, PlaceFits
  <2>2. UNCHANGED sink  BY <1>9 DEF OwnWritten
  <2>3. CASE UNCHANGED <<made, io>>  BY <1>1, <1>2, <1>3, <2>1, <2>2, <2>3, OrderParked
  <2>4. CASE made' = made + 1 /\ io' = [io EXCEPT !["owner"] = Enter(made')]
    BY <1>3, <1>7, <2>1, <2>2, <2>4
  <2>5. QED  BY <1>9, <2>3, <2>4 DEF OwnWritten
<1>10. CASE Start \/ Look
  <2>1. worker \in {"start", "look"} /\ Loop(busy) /\ UNCHANGED <<busy, record, made, sink>>
    BY <1>10 DEF Start, Look
  <2>2. CASE io' = io
    <3>1. busy' /\ worker' # "write" => Before(record')  BY <2>1 DEF OrderInv
    <3>2. QED  BY <1>1, <1>2, <1>3, <2>1, <2>2, <3>1, OrderParked
  <2>3. CASE busy /\ worker' = "write" /\ io' = [io EXCEPT !["worker"] = Enter(record)]
    <3>1. \A v \in Writers : io[v].at = "out"
      BY <1>1, <2>1, <2>3 DEF WriterFits, PlaceFits, Writers
    <3>2. Before(record) /\ record <= made'  BY <2>1, <2>3 DEF OrderInv
    <3>3. QED  BY <1>1, <1>2, <1>3, <2>1, <2>3, <3>1, <3>2, OrderBegins DEF Writers
  <2>4. QED  BY <2>1, <2>2, <2>3 DEF Loop
<1>11. CASE Written
  <2>1. io' = io /\ UNCHANGED <<record, made, sink>> /\ ~busy'
    BY <1>11 DEF Written, Loop
  <2>2. QED  BY <1>1, <1>2, <1>3, <2>1, OrderParked
<1>12. QED
  BY <1>3, <1>4, <1>6, <1>8, <1>9, <1>10, <1>11 DEF Next, Owner, Thread, Quiet

(* The sets of the tally are finite.                                       *)
LEMMA TallyFinite ==
  ASSUME ParkedType, TallyInv
  PROVE  IsFiniteSet(session) /\ IsFiniteSet(Missing) /\ Missing \subseteq session
         /\ Cardinality(Missing) \in Nat
<1>1. IsFiniteSet(1 .. made)  BY FS_Interval DEF ParkedType, Records
<1>2. IsFiniteSet(session)  BY <1>1, FS_Subset DEF TallyInv
<1>3. Missing \subseteq session  BY DEF Missing
<1>4. IsFiniteSet(Missing)  BY <1>2, <1>3, FS_Subset
<1>5. QED  BY <1>2, <1>3, <1>4, FS_CardinalityType

(* A record that gets into the file, or a number that is made, changes the *)
(* tally only for the better.                                              *)
LEMMA TallySame ==
  ASSUME ParkedType, ParkedType', TallyInv, made' \in {made, made + 1},
         UNCHANGED <<session, submitted, completed, failures, busy, record>>,
         \A r \in Records : Whole(r) => Whole(r)',
         worker' = "write" =>
           /\ io'["worker"].record = record
           /\ io'["worker"].at = "out" /\ io'["worker"].ok => Whole(record)'
  PROVE  TallyInv'
<1>1. IsFiniteSet(Missing) /\ Cardinality(Missing) \in Nat  BY TallyFinite
<1>2. InSlot' = InSlot  BY DEF InSlot
<1>3. Missing' \subseteq Missing  BY <1>2 DEF Missing, ParkedType
<1>4. Cardinality(Missing') <= Cardinality(Missing) /\ IsFiniteSet(Missing')
  BY <1>1, <1>3, FS_Subset
<1>5. Cardinality(Missing') \in Nat  BY <1>4, FS_CardinalityType
<1>6. Cardinality(Missing') <= failures'  BY <1>1, <1>4, <1>5 DEF TallyInv, ParkedType
<1>7. session' \subseteq 1 .. made'  BY DEF TallyInv, ParkedType, Records
<1>8. QED  BY <1>2, <1>6, <1>7 DEF TallyInv

(* Every record that is taken is completed, and one that is completed is   *)
(* in the file whole or has failed.                                        *)
LEMMA StepKeepsTally ==
  ASSUME Undrained = FALSE, LogInv, LogInv', TallyInv, [Next]_vars,
         \A w \in Writers : File(w) => Writes(w)
  PROVE  TallyInv'
<1>1. ParkedType /\ PlaceFits /\ WriterFits /\ ParkedType'
  BY DEF LogInv, TypeOK, ParkedType
<1>2. /\ IsFiniteSet(session) /\ IsFiniteSet(Missing) /\ Missing \subseteq session
      /\ Cardinality(Missing) \in Nat
  BY <1>1, TallyFinite
<1>3. file' = file => \A r : Whole(r) => Whole(r)'  BY DEF Whole
<1> USE DEF Threaded, owner, flags, counts, ghosts, sink
<1>4. CASE Submit
  <2> DEFINE new == made + 1
  <2>1. /\ made' = new /\ record' = new /\ session' = session \cup {new} /\ ~busy /\ busy'
        /\ submitted' = submitted + 1 /\ UNCHANGED <<completed, failures, io, file>>
        /\ (worker' = "write" => worker = "write")
    BY <1>4 DEF Submit, SlotFree, Signal
  <2>2. new \notin session /\ new \in Nat /\ session' \subseteq 1 .. made'
    BY <1>1, <2>1 DEF TallyInv, ParkedType, Records
  <2> HIDE DEF new
  <2>3. Cardinality(session') = Cardinality(session) + 1
    BY <1>2, <2>1, <2>2, FS_AddElement
  <2>4. Missing' = Missing
    <3>1. InSlot = {} /\ InSlot' = {new}  BY <2>1 DEF InSlot
    <3>2. \A r : Whole(r)' <=> Whole(r)  BY <2>1 DEF Whole
    <3>3. QED  BY <2>1, <2>2, <3>1, <3>2 DEF Missing
  <2>5. worker' # "write"  BY <1>1, <2>1 DEF PlaceFits
  <2>6. InSlot' \subseteq session'  BY <2>1 DEF InSlot
  <2>7. submitted' = completed' + 1  BY <1>1, <2>1 DEF TallyInv, ParkedType
  <2>8. QED  BY <2>1, <2>2, <2>3, <2>4, <2>5, <2>6, <2>7 DEF TallyInv
<1>5. CASE Create
  <2>1. /\ session' = {} /\ submitted' = 0 /\ completed' = 0 /\ failures' = 0 /\ ~busy'
        /\ worker' # "write"
    BY <1>5 DEF Create
  <2>2. Missing' = {} /\ InSlot' = {}  BY <2>1 DEF Missing, InSlot
  <2>3. QED  BY <2>1, <2>2, FS_EmptySet DEF TallyInv
<1>6. CASE Written
  <2>1. /\ worker = "write" /\ busy /\ ~busy' /\ completed' = completed + 1
        /\ io["worker"].at = "out" /\ worker' # "write"
        /\ failures' = IF io["worker"].ok THEN failures ELSE failures + 1
        /\ UNCHANGED <<session, submitted, made, file>>
    BY <1>1, <1>6 DEF Written, Failed, Loop, PlaceFits
  <2>2. InSlot = {record} /\ InSlot' = {}  BY <2>1 DEF InSlot
  <2>3. \A r : Whole(r)' <=> Whole(r)  BY <2>1 DEF Whole
  <2>4. Missing' \subseteq Missing \cup {record} /\ IsFiniteSet(Missing \cup {record})
    BY <1>2, <2>1, <2>2, <2>3, FS_AddElement DEF Missing
  <2>5. IsFiniteSet(Missing') /\ Cardinality(Missing') \in Nat
    BY <2>4, FS_Subset, FS_CardinalityType
  <2>6. Cardinality(Missing') <= failures'
    <3>1. CASE io["worker"].ok
      <4>1. Whole(record)  BY <2>1, <3>1 DEF TallyInv
      <4>2. Missing' \subseteq Missing  BY <2>1, <2>2, <2>3, <4>1 DEF Missing
      <4>3. Cardinality(Missing') <= Cardinality(Missing)  BY <1>2, <4>2, FS_Subset
      <4>4. QED  BY <1>1, <1>2, <2>1, <2>5, <3>1, <4>3 DEF TallyInv, ParkedType
    <3>2. CASE ~io["worker"].ok
      <4>1. record \notin Missing  BY <2>2 DEF Missing
      <4>2. Cardinality(Missing \cup {record}) = Cardinality(Missing) + 1
        BY <1>2, <4>1, FS_AddElement
      <4>3. Cardinality(Missing') <= Cardinality(Missing) + 1
        BY <2>4, <4>2, FS_Subset
      <4>4. QED  BY <1>1, <1>2, <2>1, <2>5, <3>2, <4>3 DEF TallyInv, ParkedType
    <3>3. QED  BY <3>1, <3>2
  <2>7. submitted' = completed' /\ failures' <= completed'
    BY <1>1, <2>1 DEF TallyInv, ParkedType
  <2>8. completed' \in Nat  BY <1>1 DEF ParkedType
  <2>9. submitted' = completed' + (IF busy' THEN 1 ELSE 0)  BY <2>1, <2>7, <2>8
  <2>10. session' \subseteq 1 .. made' /\ submitted' = Cardinality(session')
    BY <2>1 DEF TallyInv
  <2>11. QED  BY <2>1, <2>2, <2>6, <2>7, <2>9, <2>10 DEF TallyInv
<1>7. CASE Start \/ Look
  <2>1. /\ worker # "write" /\ Loop(busy) /\ file' = file /\ made' = made
        /\ UNCHANGED <<session, submitted, completed, failures, busy, record>>
    BY <1>7 DEF Start, Look
  <2>2. worker' = "write" => io' = [io EXCEPT !["worker"] = Enter(record)]
    BY <2>1 DEF Loop
  <2>3. worker' = "write" => io'["worker"].record = record /\ io'["worker"].at = "enter"
    BY SMTT(30), <2>2 DEF Enter, LogInv, TypeOK, Writers
  <2>4. QED  BY <1>1, <1>3, <2>1, <2>3, TallySame
<1>8. CASE Write
  <2>1. /\ worker = "write" /\ File("worker") /\ made' = made
        /\ UNCHANGED <<session, submitted, completed, failures, busy, record>>
    BY <1>8 DEF Write
  <2>2. Writes("worker")  BY <2>1 DEF Writers
  <2>3. io["worker"].record = record  BY <2>1 DEF TallyInv
  <2>4. io'["worker"].at = "out" /\ io'["worker"].ok => Whole(record)'
    BY <2>1, <2>2, <2>3 DEF Writes, Whole
  <2>5. (\A r \in Records : Whole(r) => Whole(r)') /\ io'["worker"].record = record
    BY <2>2, <2>3 DEF Writes
  <2>6. QED  BY <1>1, <2>1, <2>4, <2>5, TallySame
<1>9. CASE OwnWrite \/ Drained \/ OwnWritten
  <2>1. /\ worker' # "write" /\ made' \in {made, made + 1}
        /\ UNCHANGED <<session, submitted, completed, failures, busy, record>>
    BY <1>1, <1>9 DEF OwnWrite, Drained, OwnWritten, AwaitIdle, PlaceFits
  <2>2. \A r \in Records : Whole(r) => Whole(r)'
    BY <1>3, <1>9 DEF OwnWrite, Drained, OwnWritten, Writes, Writers
  <2>3. QED  BY <1>1, <2>1, <2>2, TallySame
<1>10. CASE Quiet /\ ~Submit /\ ~Create
  <2>1. UNCHANGED <<io, file>> /\ (worker' = "write" => worker = "write")
    BY <1>1, <1>10, QuietParts
    DEF Quiet, Drop, Stats, Call, DrainWait, Stop, Join, AwaitInit, SpuriousOwner,
        SpuriousWorker, Signal, vars
  <2>2. /\ made' \in {made, made + 1}
        /\ UNCHANGED <<session, submitted, completed, failures, busy, record>>
    BY <1>10
    DEF Quiet, Drop, Stats, Call, DrainWait, Stop, Join, AwaitInit, SpuriousOwner,
        SpuriousWorker, vars
  <2>3. worker' = "write" =>
           /\ io'["worker"].record = record
           /\ io'["worker"].at = "out" /\ io'["worker"].ok => Whole(record)'
    BY <2>1, <2>2 DEF TallyInv, Whole
  <2>4. QED  BY <1>1, <1>3, <2>1, <2>2, <2>3, TallySame
<1>11. QED
  BY <1>4, <1>5, <1>6, <1>7, <1>8, <1>9, <1>10 DEF Next, Owner, Thread, Quiet

(* When the owner drains before each record of its own, the file is in the *)
(* order in which the records were made, and none taken is forgotten.      *)
THEOREM LogAddsUp ==
  ASSUME Undrained = FALSE PROVE Spec => [](OrderInv /\ TallyInv)
<1>1. Init => OrderInv /\ TallyInv
  <2> SUFFICES ASSUME Init PROVE OrderInv /\ TallyInv  OBVIOUS
  <2> USE DEF Init
  <2>1. file = <<>> /\ \A w \in Writers : io[w].at = "out"  BY DEF Idle
  <2>2. OrderInv  BY <2>1 DEF OrderInv, LogInOrder, Ended, Before
  <2>3. Missing = {} /\ InSlot = {}  BY DEF Missing, InSlot
  <2>4. TallyInv  BY <2>3, FS_EmptySet DEF TallyInv
  <2>5. QED  BY <2>2, <2>4
<1>2. LogInv /\ LogInv' /\ OrderInv /\ TallyInv /\ [Next]_vars => OrderInv' /\ TallyInv'
  <2> SUFFICES ASSUME LogInv, LogInv', OrderInv, TallyInv, [Next]_vars
               PROVE  OrderInv' /\ TallyInv'
    OBVIOUS
  <2>1. busy => record <= made
    BY DEF TallyInv, InSlot, LogInv, TypeOK, Records
  <2>2. QED  BY <2>1, StepKeepsOrder, StepKeepsTally
<1>3. QED  BY <1>1, <1>2, WritersTakeTurns, PTL DEF Spec

(* The file holds the records of both threads in the order they were made, *)
(* none inside another, and one that is torn left error_ behind.           *)
THEOREM LogStaysInOrder == ASSUME Undrained = FALSE PROVE Spec => []LogInOrder
<1>1. OrderInv => LogInOrder  BY DEF OrderInv
<1>2. QED  BY LogAddsUp, <1>1, PTL

(* When the slot is free, every record try_append took is in the file      *)
(* whole or among the failures stats() counts.                             *)
THEOREM NoneForgotten == ASSUME Undrained = FALSE PROVE Spec => []Accounted
<1>1. LogInv /\ TallyInv => Accounted
  <2> SUFFICES ASSUME LogInv, TallyInv, ~busy
               PROVE  /\ completed = submitted /\ submitted = Cardinality(session)
                      /\ Cardinality({r \in session : ~Whole(r)}) <= failures
                      /\ failures <= completed
    BY DEF Accounted
  <2>1. Missing = {r \in session : ~Whole(r)}  BY DEF Missing, InSlot
  <2>2. submitted \in Nat /\ completed \in Nat  BY DEF LogInv, TypeOK
  <2>3. QED  BY <2>1, <2>2 DEF TallyInv
<1>2. QED  BY LogAddsUp, WritersTakeTurns, <1>1, PTL
=============================================================================

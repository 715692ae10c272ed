------------------------------- MODULE Board --------------------------------
(***************************************************************************)
(* The Model 2 board as the game's program sees it: interrupts, the sound  *)
(* UART and the frame.  Time is the number of instructions completed.      *)
(*                                                                         *)
(*   lockstep.h, lockstep.cpp  what happens at which count                 *)
(*   cpu.cpp                   one interrupt waiting, the rest in a table  *)
(*   m2_board.cpp              request, enable, lines; the UART's bytes    *)
(*   game_loop.cpp             the probe that finds where a frame ends     *)
(*                                                                         *)
(* The program itself is not in src/: its instructions are free to do      *)
(* anything, except that its sound interrupt handler is the transmit loop  *)
(* the design document describes.  Counts are kept relative to the present *)
(* one, so that time has no end.                                           *)
(***************************************************************************)
EXTENDS Integers, Sequences, SequencesExt, FiniteSets

CONSTANTS
  kProbe,       \* instructions between two probes
  kFrameCap,    \* a frame's work, when the program never idles
  kVblankCap,   \* a vblank's work, when its handler never returns to idle
  MaxBlock,     \* instructions in a block, before which is a boundary: more than
                \* one is the build with --fast_inaccuracy
  MaxLate,      \* bound: how late a callback may get where block after block is
                \* entered past its start (every loop passes a start at last)
  MaxQueue,     \* bound: bytes in the program's own transmit queue
  Bytes         \* bound: the bytes are numbered modulo this

ASSUME CountAssumption ==
  /\ kProbe \in Nat \ {0} /\ kFrameCap \in Nat /\ kVblankCap \in Nat
  /\ MaxBlock \in Nat \ {0} /\ MaxLate \in Nat /\ MaxQueue \in Nat /\ Bytes \in Nat \ {0}

VARIABLES
  phase,        \* at a boundary, applying what is due there (apply), in a block
                \* (go), past an instruction that ends it (done), or jumping past
                \* the start of the next one (midway)
  pos,          \* instructions of the block run or, where it is entered midway,
                \* left out, as far as they matter
  at,           \* the count at which apply() works
  log,          \* log_: the callbacks to come, in order
  next,         \* next_count
  ended,        \* end_count has been reached
  waiting,      \* m_immediate_irq and its vector
  missed,       \* ghost: a boundary looked at the one that waits and could not take it
  table,        \* the vectors in the pending table
  masked,       \* the program runs at a priority no line exceeds
  handler,      \* what the program is in: main, or an interrupt's handler
  step,         \* where in that handler
  intreq, intena, lines,
  txrdy, busy,  \* uart_txrdy_, uart_shift_busy_
  hold, out,    \* uart_hold_ if there is one, uart_out_
  in_vblank, since,   \* the count since frame_start_ or vblank_start_
  queue,        \* the program's bytes that wait
  made, taken   \* the last byte made, and the last given to the sound board

sched == <<pos, at, log, next>>
frame == <<ended, in_vblank, since>>
cpu   == <<waiting, missed, table, masked, handler, step>>
irq   == <<intreq, intena, lines>>
uart  == <<txrdy, busy, hold, out>>
game  == <<queue, made, taken>>
vars  == <<phase, sched, frame, cpu, irq, uart, game>>

Lines == {"vblank", "uart"}      \* request bits 0 and 10; no other is raised
kMinFrame == 2 * kProbe

Least(m, n) == IF m < n THEN m ELSE n
After(byte) == (byte + 1) % Bytes

Init ==
  /\ phase = "boundary" /\ pos = 0 /\ at = 0
  /\ log = <<[call |-> "probe", at |-> kProbe]>> /\ next = kProbe
  /\ ended = FALSE /\ in_vblank = FALSE /\ since = 0
  /\ waiting = "none" /\ missed = FALSE /\ table = {}
  /\ masked = TRUE /\ handler = "main" /\ step = "out"
  /\ intreq = {} /\ intena = {} /\ lines = {}
  /\ txrdy = TRUE /\ busy = FALSE /\ hold = <<>> /\ out = <<>>
  /\ queue = <<>> /\ made = 0 /\ taken = 0
-----------------------------------------------------------------------------
(* Lockstep: callbacks by count.                                           *)

\* refresh_next: the probe is always there, so that there is a first.
Head_(q) == q[1].at

\* add_callback puts it before those of the same count.
With(q, call, count) ==
  LET n == Cardinality({i \in DOMAIN q : q[i].at < count})
  IN  InsertAt(q, n + 1, [call |-> call, at |-> count])

add_callback(call, count) ==
  /\ log' = With(log, call, count)
  /\ next' = Head_(log')

-----------------------------------------------------------------------------
(* The processor's interrupts.                                             *)

Takes == ~masked /\ handler = "main"     \* all four lines have priority 1

Enter(l) == /\ handler' = l /\ step' = "ack"

\* execute_set_input of a line that rises, vblank before uart.
Raise(up) ==
  LET first == IF "vblank" \in up THEN "vblank" ELSE "uart"
      now   == up # {} /\ Takes /\ waiting = "none"
  IN  /\ waiting' = IF now THEN first ELSE waiting
      /\ table' = table \cup (IF now THEN up \ {first} ELSE up)

irq_update(req) ==
  /\ intreq' = req /\ lines' = req
  /\ Raise(req \ lines)

\* poke, when a line has changed; n is next_count before it.
Poked_Not(req, n) == n                     \* mutant: the line changes unannounced
Poked(req, n)     == IF req # lines THEN Least(n, at + 1) ELSE n

\* The highest vector first: the UART's is 0x0f, vblank's 0x0c.
check_pending_irqs(main) ==
  IF table = {} THEN main /\ UNCHANGED table
  ELSE LET l == IF "uart" \in table THEN "uart" ELSE "vblank"
       IN  Enter(l) /\ table' = table \ {l}
-----------------------------------------------------------------------------
(* boundary(): before each instruction or, with --fast_inaccuracy, before  *)
(* each block, where a callback the block has stepped over is applied at   *)
(* its own count.                                                          *)

Pass ==
  /\ phase = "boundary" /\ next > 0 /\ ~ended
  /\ phase' = "go"
  /\ UNCHANGED <<sched, frame, cpu, irq, uart, game>>

Due_Present ==                             \* mutant: a block's callbacks are not
  /\ phase = "boundary" /\ next <= 0 /\ ~ended    \* looked for at their count
  /\ phase' = "apply" /\ at' = 0
  /\ UNCHANGED <<pos, log, next, frame, cpu, irq, uart, game>>

Due ==
  /\ phase = "boundary" /\ next <= 0 /\ ~ended
  /\ phase' = "apply" /\ at' = next
  /\ UNCHANGED <<pos, log, next, frame, cpu, irq, uart, game>>

\* The callback at the head, taken out before it is called.
Called(call) ==
  /\ phase = "apply" /\ log[1] = [call |-> call, at |-> at]
  /\ UNCHANGED <<phase, pos, at, missed>>

uart_shift_done_Keeps ==                   \* mutant: uart_have_hold_ stays set
  /\ Called("shift")
  /\ log' = Tail(log)
  /\ busy' = FALSE /\ out' = out \o hold /\ txrdy' = TRUE
  /\ LET req == IF ~txrdy /\ "uart" \in intena THEN intreq \cup {"uart"} ELSE intreq
     IN  irq_update(req) /\ next' = Poked(req, next)
  /\ UNCHANGED <<hold, frame, masked, handler, step, intena, game>>

uart_shift_done ==
  /\ Called("shift")
  /\ log' = Tail(log)
  /\ busy' = FALSE /\ out' = out \o hold /\ hold' = <<>>
  /\ txrdy' = TRUE
  /\ LET req == IF ~txrdy /\ "uart" \in intena THEN intreq \cup {"uart"} ELSE intreq
     IN  irq_update(req) /\ next' = Poked(req, next)
  /\ UNCHANGED <<frame, masked, handler, step, intena, game>>

VblankEnds(idle) == in_vblank /\ ((idle /\ since + at >= 2 * kProbe) \/ since + at >= kVblankCap)
VblankStarts(idle) == ~in_vblank /\ ((idle /\ since + at >= kMinFrame) \/ since + at >= kFrameCap)

\* GameLoop::probe.  Whether the program is in its idle loop is its own affair.
probe(idle) ==
  /\ Called("probe")
  /\ log' = With(Tail(log), "probe", at + kProbe) /\ next' = Head_(log')
  /\ idle => handler = "main"
  /\ IF VblankEnds(idle) \/ VblankStarts(idle)
     THEN in_vblank' = ~in_vblank /\ since' = 0 - at
     ELSE UNCHANGED <<in_vblank, since>>
  /\ ended' = (ended \/ VblankEnds(idle))
  /\ irq_update(IF VblankStarts(idle) /\ "vblank" \in intena
                THEN intreq \cup {"vblank"} ELSE intreq)
  /\ UNCHANGED <<masked, handler, step, intena, uart, game>>

\* Nothing more at this count: the interrupt that waits is taken if it can be.
\* Whether it was or not, a count before the present one is followed by another
\* look (block_events).
Applied ==
  /\ phase = "apply" /\ Head_(log) # at
  /\ next' = Head_(log)
  /\ IF waiting # "none" /\ Takes
     THEN Enter(waiting) /\ waiting' = "none" /\ phase' = "boundary"
     ELSE UNCHANGED <<waiting, handler, step>> /\ phase' = IF at = 0 THEN "go" ELSE "boundary"
  /\ missed' = (waiting # "none" /\ ~Takes)
  /\ at' = 0
  /\ UNCHANGED <<pos, log, frame, table, masked, irq, uart, game>>

run_frame_Stuck ==                         \* mutant: end_count is left where it was
  /\ phase \in {"boundary", "midway"} /\ ended
  /\ out' = <<>> /\ taken' = Last(<<taken>> \o out)
  /\ UNCHANGED <<ended, phase, sched, in_vblank, since, cpu, irq, txrdy, busy, hold, queue, made>>

\* run returns to run_frame_deferred_sound, which hands the frame's bytes over
\* and is called again for the next frame.
run_frame ==
  /\ phase \in {"boundary", "midway"} /\ ended
  /\ ended' = FALSE
  /\ out' = <<>> /\ taken' = Last(<<taken>> \o out)
  /\ UNCHANGED <<phase, sched, in_vblank, since, cpu, irq, txrdy, busy, hold, queue, made>>
-----------------------------------------------------------------------------
(* What the instructions of a block access, each one register.  modpc and  *)
(* ret end their block.                                                    *)

Instruction == phase = "go" /\ pos' = pos + 1 /\ UNCHANGED <<at, missed, frame>>
EndBlock == Instruction /\ phase' = "done"
Access   == EndBlock \/ (Instruction /\ pos' < MaxBlock /\ phase' = "go")

irq_enable_w_Edge(ena) ==                  \* mutant: a TxRDY already up is missed
  /\ intena' = ena
  /\ irq_update(intreq) /\ next' = Poked(intreq, next)

irq_enable_w(ena) ==
  /\ intena' = ena
  /\ LET req == IF txrdy /\ "uart" \in ena THEN intreq \cup {"uart"} ELSE intreq
     IN  irq_update(req) /\ next' = Poked(req, next)

irq_ack_w(l) ==
  /\ irq_update(intreq \ {l}) /\ next' = Poked(intreq \ {l}, next)

uart_write_data(byte) ==
  /\ hold' = <<byte>> /\ txrdy' = FALSE
  /\ busy' = TRUE
  /\ IF busy THEN UNCHANGED <<log, next>> ELSE add_callback("shift", at + 1)

(* The program. *)

\* Boot enables the vblank interrupt.
EnableVblank ==
  /\ Access
  /\ handler = "main" /\ "vblank" \notin intena
  /\ irq_enable_w(intena \cup {"vblank"})
  /\ UNCHANGED <<log, masked, handler, step, uart, game>>

\* A command for the sound board: queued, and the transmit interrupt enabled.
SoundCommand ==
  /\ Access
  /\ handler = "main" \/ (handler = "vblank" /\ step = "leave")
  /\ Len(queue) < MaxQueue
  /\ made' = After(made) /\ queue' = Append(queue, made')
  /\ irq_enable_w(intena \cup {"uart"})
  /\ UNCHANGED <<log, masked, handler, step, uart, taken>>

Mask ==
  /\ EndBlock
  /\ handler = "main" /\ ~masked /\ masked' = TRUE
  /\ UNCHANGED <<log, next, waiting, table, handler, step, irq, uart, game>>

\* modpc that lowers the priority looks at the pending table.
Unmask ==
  /\ EndBlock
  /\ masked /\ masked' = FALSE
  /\ check_pending_irqs(UNCHANGED <<handler, step>>)
  /\ UNCHANGED <<log, next, waiting, irq, uart, game>>

\* A handler acknowledges its request before anything else.
Acknowledge ==
  /\ Access
  /\ step = "ack" /\ step' = IF handler = "uart" THEN "serve" ELSE "leave"
  /\ irq_ack_w(handler)
  /\ UNCHANGED <<log, masked, handler, intena, uart, game>>

\* The transmit loop: the next byte, or no more of these interrupts.
Transmit ==
  /\ Access
  /\ step = "serve" /\ step' = "leave" /\ queue # <<>>
  /\ queue' = Tail(queue)
  /\ uart_write_data(Head(queue))
  /\ UNCHANGED <<waiting, table, masked, handler, irq, out, made, taken>>

NothingToSend ==
  /\ Access
  /\ step = "serve" /\ step' = "leave" /\ queue = <<>>
  /\ irq_enable_w(intena \ {"uart"})
  /\ UNCHANGED <<log, masked, handler, uart, game>>

Return_Blind ==                            \* mutant: ret does not look at the table
  /\ EndBlock
  /\ step = "leave"
  /\ handler' = "main" /\ step' = "out"
  /\ UNCHANGED <<table, log, next, waiting, masked, irq, uart, game>>

\* ret from an interrupt looks at the pending table too.
Return ==
  /\ EndBlock
  /\ step = "leave"
  /\ check_pending_irqs(handler' = "main" /\ step' = "out")
  /\ UNCHANGED <<log, next, waiting, masked, irq, uart, game>>

\* n instructions go by, or come back.
Elapse(n) ==
  /\ log' = [i \in DOMAIN log |-> [log[i] EXCEPT !.at = @ - n]]
  /\ next' = next - n
  /\ since' = since + n
  /\ UNCHANGED <<at, ended, in_vblank, cpu, irq, uart, game>>

\* The block is complete, with what its other instructions do.  It leads to the
\* start of a block, or a bx at its end jumps into the middle of one.
Complete(n) ==
  /\ (phase = "done" /\ pos <= n) \/ (phase = "go" /\ pos < n)
  /\ Elapse(n) /\ pos' = 0
  /\ \/ phase' = "boundary"
     \/ phase = "go" /\ MaxBlock > 1 /\ log'[1].at >= -MaxLate /\ phase' = "midway"

\* The block counts as if it were run from its start, p instructions before; no
\* boundary is looked at.
EnterMidway(p) ==
  /\ phase = "midway" /\ ~ended
  /\ Elapse(-p) /\ pos' = p
  /\ phase' = "go"

Program == EnableVblank \/ SoundCommand \/ Mask \/ Unmask
           \/ Acknowledge \/ Transmit \/ NothingToSend \/ Return
Apply   == uart_shift_done \/ (\E idle \in BOOLEAN : probe(idle)) \/ Applied
Machine == Pass \/ Due \/ Apply \/ run_frame
           \/ (\E n \in 1 .. MaxBlock : Complete(n))
           \/ (\E p \in 1 .. MaxBlock - 1 : EnterMidway(p))

Next == Program \/ Machine
Spec == Init /\ [][Next]_vars

\* The machine runs; a handler, reached often enough, gets on; what raises the
\* priority lowers it.
FairSpec ==
  /\ Spec
  /\ WF_vars(Machine)
  /\ SF_vars(Acknowledge) /\ SF_vars(Transmit) /\ SF_vars(NothingToSend)
  /\ SF_vars(Return) /\ SF_vars(Unmask)
-----------------------------------------------------------------------------
Callback == [call : {"probe", "shift"}, at : Int]
Byte     == 0 .. Bytes - 1

TypeOK ==
  /\ phase \in {"boundary", "apply", "go", "done", "midway"}
  /\ pos \in 0 .. MaxBlock /\ at \in Int
  /\ log \in Seq(Callback) /\ next \in Int
  /\ waiting \in Lines \cup {"none"} /\ missed \in BOOLEAN /\ table \subseteq Lines
  /\ masked \in BOOLEAN /\ handler \in Lines \cup {"main"}
  /\ step \in {"out", "ack", "serve", "leave"}
  /\ intreq \subseteq Lines /\ intena \subseteq Lines /\ lines \subseteq Lines
  /\ txrdy \in BOOLEAN /\ busy \in BOOLEAN
  /\ hold \in Seq(Byte) /\ out \in Seq(Byte)
  /\ ended \in BOOLEAN /\ in_vblank \in BOOLEAN /\ since \in Int
  /\ queue \in Seq(Byte) /\ made \in Byte /\ taken \in Byte

(* The log has the one probe, and the end of a shift while a byte is shifted *)
(* out, the sooner one first: refresh_next always finds a first.  The probe  *)
(* is at most kProbe away from the start of the block.                       *)
CallbacksFit ==
  /\ Len(log) = IF busy THEN 2 ELSE 1
  /\ \E i \in DOMAIN log : log[i].call = "probe" /\ log[i].at <= kProbe + pos
  /\ busy => log[1].call # log[2].call /\ log[1].at <= log[2].at

(* next_count is never behind a callback, nor is one behind the count applied. *)
NextFits ==
  /\ IF phase = "apply" THEN at <= 0 /\ at <= log[1].at ELSE at = 0 /\ next <= log[1].at
  /\ phase \in {"boundary", "apply", "midway"} => pos = 0
  /\ phase = "done" => pos > 0
  /\ phase = "go" => pos < MaxBlock
  /\ phase = "go" /\ pos = 0 => next > 0

(* A handler was entered at a priority that let it in.                     *)
HandlerFits ==
  /\ step = "out" <=> handler = "main"
  /\ step = "serve" => handler = "uart"
  /\ masked => handler = "main"

(* An interrupt that waits and was not missed can be taken, unless the     *)
(* block raised the priority after it, and the next boundary looks at it.  *)
WaitingFits ==
  /\ missed => waiting # "none" /\ MaxBlock > 1
  /\ waiting # "none" /\ ~missed =>
       /\ handler = "main"
       /\ masked => phase \notin {"go", "midway"} /\ MaxBlock > 1
       /\ phase # "apply" => next <= pos

(* An interrupt left in the pending table has something to fetch it from there: *)
(* a handler that will return, a priority that will drop, or one that waits.    *)
NoneStranded ==
  table # {} => handler # "main" \/ masked \/ waiting # "none"

(* The UART's interrupt is at one place at most until it is acknowledged, and *)
(* its line is up as long.                                                    *)
Entered == handler = "uart" /\ step = "ack"
RequestFits ==
  /\ lines = intreq
  /\ waiting = "uart" \/ "uart" \in table \/ Entered => "uart" \in intreq
  /\ waiting = "uart" \/ Entered => "uart" \notin table
  /\ ~(waiting = "uart" /\ Entered)
  /\ step = "serve" => "uart" \notin intreq

(* A byte that is held is being waited for by a shift, and nobody who could *)
(* write over it is on the way.                                             *)
HoldFits ==
  /\ txrdy <=> hold = <<>>
  /\ ~txrdy => /\ busy /\ "uart" \notin intreq
               /\ step # "serve"

(* Why the properties below hold, for every program: callbacks, registers, *)
(* ret and modpc keep these.                                               *)
BoardInv ==
  /\ TypeOK /\ CallbacksFit /\ NextFits /\ HandlerFits /\ WaitingFits
  /\ NoneStranded /\ RequestFits /\ HoldFits

(* No block begins behind a callback, and none is behind the count at which *)
(* apply works: an exact count is compared, so one that were passed would   *)
(* never be called, nor any after it (lockstep.cpp).                        *)
NothingPassed ==
  /\ phase = "go" /\ pos = 0 => next > 0 /\ \A i \in DOMAIN log : log[i].at >= next
  /\ phase = "apply" => \A i \in DOMAIN log : log[i].at >= at

(* An interrupt that can be taken at once is taken at the next boundary, even *)
(* when a callback added in between sets next_count anew (lockstep.h: poke).  *)
(* A block that raises the priority after it enabled the interrupt is the one *)
(* way round: its boundary drops the poke, and the interrupt waits for the    *)
(* next callback, at most kProbe instructions.                                *)
TakenAtBoundary ==
  /\ phase = "go" /\ pos = 0 /\ waiting # "none" => missed /\ next <= kProbe
  /\ missed => MaxBlock > 1

(* The bytes the sound board is given are those the program sent, in order  *)
(* and each once, whichever frame they leave in.                            *)
BytesInOrder ==
  LET sent == <<taken>> \o out \o hold \o queue
  IN  /\ \A i \in 1 .. Len(sent) - 1 : sent[i + 1] = After(sent[i])
      /\ Last(sent) = made

(* Every byte the program queues leaves for the sound board, if callbacks   *)
(* find the program where it takes interrupts again and again, as the probe *)
(* finds it in its wait loop.                                               *)
Waits == []<>(phase = "apply" /\ Takes)
BytesLeave ==
  Waits => \A b \in 0 .. Bytes - 1 :
    (\E i \in DOMAIN queue : queue[i] = b) ~> (\E i \in DOMAIN out : out[i] = b)

(* run_frame returns, and the next one starts, whatever the program does: the *)
(* probe always comes again.                                                  *)
FramesEnd == []<>ended /\ []<>~ended

=============================================================================

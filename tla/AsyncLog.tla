------------------------------ MODULE AsyncLog ------------------------------
(***************************************************************************)
(* The log of the Vita program: platform/vita/async_log.h (class AsyncLog, *)
(* one slot and a thread) over diagnostic_log.h (class DiagnosticLog, the  *)
(* file).  The owner, main, leaves periodic records in the slot and never  *)
(* waits for them; a critical record it writes itself, after a drain.      *)
(*                                                                         *)
(* What a thread does between taking mutex_ and releasing it, or sleeping  *)
(* on it, is one step.  A write to the file takes several: it is outside   *)
(* the mutex, and two writers at once would share bytes_ and error_.       *)
(***************************************************************************)
EXTENDS Naturals, Sequences, FiniteSets

CONSTANTS
  MaxRecords,   \* bound: records the owner makes
  Size,         \* parts of a record, as sceIoWrite may split it
  Limit,        \* kLimit, in parts
  Undrained     \* main_gpu.cpp:1082: one warning is written without a drain

ASSUME RecordsAssumption == MaxRecords \in Nat
ASSUME SizeAssumption == Size \in Nat \ {0} /\ Limit \in Nat
ASSUME UndrainedAssumption == Undrained \in BOOLEAN

VARIABLES
  call,         \* the call the owner is in, "none" between calls
  at,           \* where in it
  worker,       \* the thread: none, at a place of entry, or ended
  busy, stopping, initialized,
  record,       \* record_: the number of the record in the slot
  submitted, dropped, completed, failures,
  observed,     \* observed_: completed and failures as the owner last saw them
  made,         \* records so far, which numbers them
  session,      \* those submitted since open
  io,           \* of each thread, the call of DiagnosticLog::write it is in
  file,         \* the parts in the file
  bytes, limited, error

owner  == <<call, at>>
flags  == <<busy, stopping, initialized>>
counts == <<submitted, dropped, completed, failures, observed>>
ghosts == <<made, session>>
sink   == <<file, bytes, limited, error>>
vars   == <<owner, worker, flags, record, counts, ghosts, io, sink>>

Writers  == {"owner", "worker"}
Records  == 0 .. MaxRecords
Idle     == [at |-> "out", record |-> 0, left |-> 0, ok |-> TRUE]
Threaded == worker # "none"
Calls    == {"drain", "sync", "log", "close", "open"}

TypeOK ==
  /\ call \in Calls \cup {"none"}
  /\ at \in {"out", "drain", "drain_wait", "write", "stop", "join", "create",
             "init", "init_wait"}
  /\ worker \in {"none", "start", "look", "asleep", "write", "ended"}
  /\ busy \in BOOLEAN /\ stopping \in BOOLEAN /\ initialized \in BOOLEAN
  /\ record \in Records /\ made \in Records /\ session \subseteq Records
  /\ submitted \in Nat /\ dropped \in Nat /\ completed \in Nat /\ failures \in Nat
  /\ observed \in Nat \X Nat
  /\ io \in [Writers -> [at : {"out", "enter", "loop", "close"}, record : Records,
                         left : 0 .. Size, ok : BOOLEAN]]
  /\ file \in Seq(Records \X (1 .. Size))
  /\ bytes \in Nat /\ limited \in BOOLEAN /\ error \in BOOLEAN

Init ==
  /\ call = "none" /\ at = "out" /\ worker = "none"
  /\ busy = FALSE /\ stopping = FALSE /\ initialized = FALSE
  /\ record = 0 /\ made = 0 /\ session = {}
  /\ submitted = 0 /\ dropped = 0 /\ completed = 0 /\ failures = 0
  /\ observed = <<0, 0>>
  /\ io = [w \in Writers |-> Idle]
  /\ file = <<>> /\ bytes = 0 /\ limited = FALSE /\ error = FALSE
-----------------------------------------------------------------------------
(* DiagnosticLog::write, by either thread.                                 *)
Enter(rec) == [at |-> "enter", record |-> rec, left |-> Size, ok |-> TRUE]

Fits_Always == TRUE                        \* mutant: the limit is not tested
Fits        == bytes + Size <= Limit

Leave(w) == io' = [io EXCEPT ![w] = [@ EXCEPT !.at = "out", !.ok = FALSE]]
FileOpen(w) ==
  /\ io[w].at = "enter"
  /\ \/ Fits /\ io' = [io EXCEPT ![w].at = "loop"] /\ UNCHANGED <<limited, error>>
     \/ Fits /\ error' = TRUE /\ Leave(w) /\ limited' = limited
     \/ ~Fits /\ limited' = TRUE /\ Leave(w) /\ error' = error
  /\ UNCHANGED <<file, bytes>>

(* sceIoWrite takes n parts at the end of the file, or fails.              *)
FileWrite(w) ==
  /\ io[w].at = "loop"
  /\ LET next == Size - io[w].left IN
     \/ \E n \in 1 .. io[w].left :
          /\ file' = file \o [i \in 1 .. n |-> <<io[w].record, next + i>>]
          /\ bytes' = bytes + n
          /\ io' = [io EXCEPT ![w].left = @ - n,
                      ![w].at = IF n = io[w].left THEN "close" ELSE "loop"]
          /\ error' = error
     \/ /\ io' = [io EXCEPT ![w].at = "close", ![w].ok = FALSE]
        /\ error' = TRUE
        /\ UNCHANGED <<file, bytes>>
  /\ limited' = limited

FileClose(w) ==
  /\ io[w].at = "close"
  /\ \/ io' = [io EXCEPT ![w].at = "out"] /\ error' = error
     \/ Leave(w) /\ error' = TRUE
  /\ UNCHANGED <<file, bytes, limited>>

File(w) == FileOpen(w) \/ FileWrite(w) \/ FileClose(w)
-----------------------------------------------------------------------------
(* The owner.                                                              *)
Signal_Not(thread) == thread               \* mutant: the worker is not woken
Signal(thread)     == IF thread = "asleep" THEN "look" ELSE thread

(* try_append: leave the record in the free slot, ...                      *)
SlotFree        == ~busy /\ ~stopping
Submit ==
  /\ call = "none" /\ made < MaxRecords
  /\ Threaded /\ SlotFree
  /\ made' = made + 1 /\ record' = made' /\ session' = session \cup {made'}
  /\ submitted' = submitted + 1
  /\ busy' = TRUE /\ worker' = Signal(worker)
  /\ UNCHANGED <<owner, stopping, initialized, dropped, completed, failures, observed,
                 io, sink>>

(* ... or drop it: no thread, the slot taken, or the mutex with the worker *)
(* for a moment (SDL_TryLockMutex).                                        *)
Contended == worker = "look"
Drop ==
  /\ call = "none" /\ made < MaxRecords
  /\ ~Threaded \/ ~SlotFree \/ Contended
  /\ made' = made + 1
  /\ dropped' = dropped + 1
  /\ UNCHANGED <<owner, worker, flags, record, submitted, completed, failures, observed,
                 session, io, sink>>

(* stats, where the mutex is free.                                         *)
Observe == observed' = <<completed, failures>>
Stats ==
  /\ call = "none" /\ Threaded
  /\ Observe
  /\ UNCHANGED <<owner, worker, flags, record, submitted, dropped, completed, failures,
                 ghosts, io, sink>>

(* The calls that take longer.  Each starts with a drain, but for the      *)
(* warning of main_gpu.cpp:1082 ("log").                                   *)
Call(c) ==
  /\ call = "none"
  /\ c \in {"sync", "log"} => made < MaxRecords
  /\ c = "log" => Undrained
  /\ call' = c
  /\ IF c = "log" THEN at' = "write" /\ made' = made + 1
                       /\ io' = [io EXCEPT !["owner"] = Enter(made')]
                  ELSE at' = "drain" /\ UNCHANGED <<made, io>>
  /\ UNCHANGED <<worker, flags, record, counts, session, sink>>

Return     == call' = "none" /\ at' = "out"
GoTo(next) == call' = call /\ at' = next

AwaitIdle_Not == FALSE                     \* mutant: drain does not wait
AwaitIdle     == Threaded /\ busy
DrainWait ==
  /\ at = "drain" /\ AwaitIdle
  /\ GoTo("drain_wait")
  /\ UNCHANGED <<worker, flags, record, counts, ghosts, io, sink>>

(* The drain is over; sync then runs its function, which writes records    *)
(* (so does commit_settings of main_gpu.cpp after its drain).              *)
Drained ==
  /\ at = "drain" /\ ~AwaitIdle
  /\ IF Threaded THEN Observe ELSE observed' = observed
  /\ \/ call = "drain" /\ Return /\ UNCHANGED <<made, io>>
     \/ call = "sync" /\ GoTo("write") /\ made' = made + 1
          /\ io' = [io EXCEPT !["owner"] = Enter(made')]
     \/ call \in {"close", "open"} /\ GoTo("stop") /\ UNCHANGED <<made, io>>
  /\ UNCHANGED <<worker, flags, record, submitted, dropped, completed, failures, session, sink>>

OwnWrite == at = "write" /\ File("owner")
            /\ UNCHANGED <<owner, worker, flags, record, counts, ghosts>>
OwnWritten ==
  /\ at = "write" /\ io["owner"].at = "out"
  /\ \/ Return /\ UNCHANGED <<made, io>>
     \/ made < MaxRecords /\ GoTo("write") /\ made' = made + 1
          /\ io' = [io EXCEPT !["owner"] = Enter(made')]
  /\ UNCHANGED <<worker, flags, record, counts, session, sink>>

(* close: tell the thread to end and wait until it has.                    *)
Closed == IF call = "open" THEN GoTo("create") ELSE Return
Stop ==
  /\ at = "stop"
  /\ IF Threaded THEN stopping' = TRUE /\ worker' = Signal(worker) /\ GoTo("join")
                 ELSE Closed /\ UNCHANGED <<stopping, worker>>
  /\ UNCHANGED <<busy, initialized, record, counts, ghosts, io, sink>>
Join ==
  /\ at = "join" /\ worker = "ended"
  /\ worker' = "none"
  /\ Closed
  /\ UNCHANGED <<flags, record, counts, ghosts, io, sink>>

(* open, once it has closed: new counters, and a thread or none.           *)
Create ==
  /\ at = "create"
  /\ submitted' = 0 /\ dropped' = 0 /\ completed' = 0 /\ failures' = 0
  /\ observed' = <<0, 0>> /\ session' = {}
  /\ busy' = FALSE /\ stopping' = FALSE /\ initialized' = FALSE
  /\ \/ worker' = "start" /\ GoTo("init")
     \/ worker' = "none" /\ Return
  /\ UNCHANGED <<record, made, io, sink>>
AwaitInit ==
  /\ at = "init"
  /\ IF initialized THEN Return ELSE GoTo("init_wait")
  /\ UNCHANGED <<worker, flags, record, counts, ghosts, io, sink>>

Awake(place) ==
  IF place = "drain_wait" THEN "drain" ELSE IF place = "init_wait" THEN "init" ELSE place
SpuriousOwner ==
  /\ at \in {"drain_wait", "init_wait"}
  /\ GoTo(Awake(at))
  /\ UNCHANGED <<worker, flags, record, counts, ghosts, io, sink>>
-----------------------------------------------------------------------------
(* The thread.  The head of its loop: end, write the record, or sleep.     *)
Loop(full) ==
  \/ stopping /\ worker' = "ended" /\ io' = io
  \/ ~stopping /\ full /\ worker' = "write"
       /\ io' = [io EXCEPT !["worker"] = Enter(record)]
  \/ ~stopping /\ ~full /\ worker' = "asleep" /\ io' = io

Start ==
  /\ worker = "start"
  /\ initialized' = TRUE /\ at' = Awake(at)
  /\ Loop(busy)
  /\ UNCHANGED <<call, busy, stopping, record, counts, ghosts, sink>>
Look ==
  /\ worker = "look"
  /\ Loop(busy)
  /\ UNCHANGED <<owner, flags, record, counts, ghosts, sink>>
SpuriousWorker ==
  /\ worker = "asleep"
  /\ worker' = "look"
  /\ UNCHANGED <<owner, flags, record, counts, ghosts, io, sink>>

Write == worker = "write" /\ File("worker")
         /\ UNCHANGED <<owner, worker, flags, record, counts, ghosts>>

Failed_Never == FALSE                      \* mutant: the result is not looked at
Failed       == ~io["worker"].ok
WakeOwner_Not == at                        \* mutant: the owner is not woken
WakeOwner     == Awake(at)
Written ==
  /\ worker = "write" /\ io["worker"].at = "out"
  /\ completed' = completed + 1
  /\ failures' = IF Failed THEN failures + 1 ELSE failures
  /\ busy' = FALSE
  /\ at' = WakeOwner
  /\ Loop(FALSE)
  /\ UNCHANGED <<call, stopping, initialized, record, submitted, dropped, observed, ghosts,
                 sink>>
-----------------------------------------------------------------------------
Owner ==
  \/ DrainWait \/ Drained \/ OwnWrite \/ OwnWritten
  \/ Stop \/ Join \/ Create \/ AwaitInit
Thread == Start \/ Look \/ Write \/ Written
Next ==
  \/ Submit \/ Drop \/ Stats \/ (\E c \in Calls : Call(c))
  \/ Owner \/ Thread \/ SpuriousOwner \/ SpuriousWorker

Spec == Init /\ [][Next]_vars

(* The scheduler runs a thread that can run; a file operation ends.        *)
FairSpec == Spec /\ WF_vars(Owner) /\ WF_vars(Thread)
-----------------------------------------------------------------------------
(* "Critical records ... remain synchronous: use sync(fn) or drain()       *)
(* before them" (async_log.h): the file and its bookkeeping are never in   *)
(* the hands of the owner and of the thread at once.                       *)
SinkAlone == io["owner"].at = "out" \/ io["worker"].at = "out"

(* The file holds the records of both threads in the order they were made, *)
(* none inside another, and one that is torn left error_ behind.           *)
LogInOrder ==
  /\ file # <<>> => file[1][2] = 1
  /\ \A i \in 1 .. Len(file) - 1 :
       LET p == file[i]
           q == file[i + 1]
       IN \/ q[1] = p[1] /\ q[2] = p[2] + 1
          \/ q[1] > p[1] /\ q[2] = 1 /\ (p[2] = Size \/ error)

(* When the slot is free, every record that was taken is in the file whole *)
(* or among the failures: only try_append's own answer drops a record.     *)
Whole(r) == \E i \in 1 .. Len(file) : file[i] = <<r, Size>>
Accounted ==
  Threaded /\ ~busy =>
    /\ completed = submitted /\ submitted = Cardinality(session)
    /\ Cardinality({r \in session : ~Whole(r)}) <= failures /\ failures <= completed

(* Why: the owner writes only after it has drained, and fills the slot     *)
(* only between calls; the thread writes only what is in the slot; a       *)
(* writer that has begun has room for what is left of its record.          *)
PlaceFits ==
  /\ call = "none" <=> at = "out"
  /\ call = "log" => Undrained
  /\ at \in {"write", "stop", "join", "create"} \/ ~Threaded => ~busy
  /\ worker = "write" => busy
  /\ call = "sync" /\ at # "write" => made < MaxRecords
WriterFits ==
  /\ io["owner"].at # "out" => at = "write"
  /\ io["worker"].at # "out" => worker = "write"
WithinLimit ==
  /\ bytes = Len(file) /\ bytes <= Limit
  /\ \A w \in Writers : io[w].at = "loop" => bytes + io[w].left <= Limit

(* The log's two writers take turns, and the limit holds for both of them  *)
(* together; the calls of async_log.h all keep this.                       *)
LogInv == TypeOK /\ PlaceFits /\ WriterFits /\ WithinLimit

(* Every call of the owner ends: no drain and no join waits for a thread   *)
(* that sleeps.                                                            *)
CallsReturn == call # "none" ~> call = "none"

(* And a record that was taken is written, whether main waits or not.      *)
RecordsWritten == busy ~> ~busy
=============================================================================

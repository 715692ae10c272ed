---------------------------- MODULE SoundWorker ----------------------------
(***************************************************************************)
(* The sound thread of platform/vita/sound_worker.h: main hands it one     *)
(* sound frame at a time (dispatch) and joins it before the next (finish). *)
(*                                                                         *)
(* Both threads touch the shared fields under mutex_ only, so what one     *)
(* does between taking the mutex and releasing it, or sleeping on it in    *)
(* SDL_CondWait, is one step; the job runs outside.  A sleeper is woken by *)
(* a signal or for no reason and tests its condition again.  Main may make *)
(* any call when it is in none.                                            *)
(***************************************************************************)
EXTENDS Naturals

CONSTANT MaxJobs   \* bound: jobs that are dispatched

ASSUME MaxJobsAssumption == MaxJobs \in Nat

VARIABLES
  call,         \* the call main is in, "none" between calls
  at,           \* where in it
  worker,       \* the thread: none, at a place of entry, or ended
  queued, busy, done, stopping, initialized,
  context,      \* context_: the job main has dispatched, 0 for none
  job,          \* the worker's own copy of it
  result,       \* the job ticks_ and queue_ticks_ are of
  error,        \* error_ is set
  given,        \* jobs dispatched
  ran,          \* jobs that ran
  answered,     \* jobs whose completion main has called
  failed,       \* jobs that threw
  told          \* jobs whose exception finish or dispatch threw on

flags == <<queued, busy, done, stopping, initialized>>
jobs  == <<context, job, result, error>>
count == <<given, ran, answered, failed, told>>
vars  == <<call, at, worker, flags, jobs, count>>

Threaded == worker # "none"
Calls    == {"finish", "dispatch", "close", "open"}

TypeOK ==
  /\ call \in Calls \cup {"none"}
  /\ at \in {"out", "finish", "finish_wait", "enqueue", "stop", "join",
             "create", "init", "init_wait"}
  /\ worker \in {"none", "start", "look", "asleep", "run", "post", "ended"}
  /\ queued \in BOOLEAN /\ busy \in BOOLEAN /\ done \in BOOLEAN
  /\ stopping \in BOOLEAN /\ initialized \in BOOLEAN /\ error \in BOOLEAN
  /\ context \in 0 .. MaxJobs /\ job \in 0 .. MaxJobs /\ result \in 0 .. MaxJobs
  /\ given \in 0 .. MaxJobs /\ ran \in 0 .. MaxJobs /\ answered \in 0 .. MaxJobs
  /\ failed \subseteq 1 .. MaxJobs /\ told \subseteq 1 .. MaxJobs

Init ==
  /\ call = "none" /\ at = "out" /\ worker = "none"
  /\ queued = FALSE /\ busy = FALSE /\ done = FALSE
  /\ stopping = FALSE /\ initialized = FALSE
  /\ context = 0 /\ job = 0 /\ result = 0 /\ error = FALSE
  /\ given = 0 /\ ran = 0 /\ answered = 0 /\ failed = {} /\ told = {}
-----------------------------------------------------------------------------
(* Main.  Each of the four calls starts with a finish: open with a close,  *)
(* close with a finish.                                                    *)
Call(c) ==
  /\ call = "none"
  /\ c = "dispatch" => given < MaxJobs
  /\ call' = c /\ at' = "finish"
  /\ UNCHANGED <<worker, flags, jobs, count>>

Return     == call' = "none" /\ at' = "out"
GoTo(next) == call' = call /\ at' = next

AfterFinish ==
  \/ call = "finish" /\ Return
  \/ call = "dispatch" /\ GoTo("enqueue")
  \/ call \in {"close", "open"} /\ GoTo("stop")

NothingToFinish ==
  /\ at = "finish"
  /\ ~Threaded \/ ~busy
  /\ AfterFinish
  /\ UNCHANGED <<worker, flags, jobs, count>>

AwaitDone        == busy /\ ~done
Wait ==
  /\ at = "finish" /\ Threaded /\ AwaitDone
  /\ GoTo("finish_wait")
  /\ UNCHANGED <<worker, flags, jobs, count>>

(* The job is over: main calls its completion, then throws the job's       *)
(* exception on, which ends a finish or a dispatch there; close drops it.  *)
Ready_AtOnce == busy                       \* mutant: does not wait for the worker
Ready        == busy /\ done
TakeResult ==
  /\ at = "finish" /\ Threaded /\ Ready
  /\ context' = 0 /\ error' = FALSE /\ busy' = FALSE
  /\ answered' = answered + 1
  /\ told' = IF error THEN told \cup {context} ELSE told
  /\ IF error /\ call \in {"finish", "dispatch"} THEN Return ELSE AfterFinish
  /\ UNCHANGED <<worker, queued, done, stopping, initialized, job, result,
                 given, ran, failed>>

Signal(thread)     == IF thread = "asleep" THEN "look" ELSE thread

(* dispatch, with a thread: leave the job and wake it.                     *)
Clear     == FALSE
Enqueue ==
  /\ at = "enqueue" /\ Threaded
  /\ given' = given + 1 /\ context' = given + 1
  /\ done' = Clear /\ queued' = TRUE /\ busy' = TRUE
  /\ worker' = Signal(worker)
  /\ Return
  /\ UNCHANGED <<stopping, initialized, job, result, error, ran, answered, failed, told>>

(* dispatch without one: main runs the job and gets its exception.         *)
Inline ==
  /\ at = "enqueue" /\ ~Threaded
  /\ given' = given + 1 /\ ran' = ran + 1 /\ answered' = answered + 1
  /\ \/ UNCHANGED <<failed, told>>
     \/ failed' = failed \cup {given'} /\ told' = told \cup {given'}
  /\ Return
  /\ UNCHANGED <<worker, flags, jobs>>

(* close: tell the thread to end and wait until it has.                    *)
Closed == IF call = "open" THEN GoTo("create") ELSE Return
Stop ==
  /\ at = "stop"
  /\ IF Threaded THEN stopping' = TRUE /\ worker' = Signal(worker) /\ GoTo("join")
                 ELSE Closed /\ UNCHANGED <<stopping, worker>>
  /\ UNCHANGED <<queued, busy, done, initialized, jobs, count>>

Join ==
  /\ at = "join" /\ worker = "ended"
  /\ worker' = "none"
  /\ Closed
  /\ UNCHANGED <<flags, jobs, count>>

(* open: the thread is created, or that fails and main will run the jobs.  *)
Create ==
  /\ at = "create"
  /\ stopping' = FALSE /\ initialized' = FALSE
  /\ \/ worker' = "start" /\ GoTo("init")
     \/ worker' = "none" /\ Return
  /\ UNCHANGED <<queued, busy, done, jobs, count>>

AwaitInit ==
  /\ at = "init"
  /\ IF initialized THEN Return ELSE GoTo("init_wait")
  /\ UNCHANGED <<worker, flags, jobs, count>>

(* Main out of SDL_CondWait, signalled (below) or not.                     *)
Awake(place) ==
  IF place = "finish_wait" THEN "finish" ELSE IF place = "init_wait" THEN "init" ELSE place
SpuriousMain ==
  /\ at \in {"finish_wait", "init_wait"}
  /\ GoTo(Awake(at))
  /\ UNCHANGED <<worker, flags, jobs, count>>
-----------------------------------------------------------------------------
(* The thread.  The head of its loop: end, take the job, or sleep.         *)
Taken_Stays == queued                      \* mutant: queued_ is not taken back
Taken       == FALSE
Loop ==
  \/ stopping /\ worker' = "ended" /\ UNCHANGED <<queued, job>>
  \/ ~stopping /\ queued /\ worker' = "run" /\ queued' = Taken /\ job' = context
  \/ ~stopping /\ ~queued /\ worker' = "asleep" /\ UNCHANGED <<queued, job>>

Start ==
  /\ worker = "start"
  /\ initialized' = TRUE /\ at' = Awake(at)
  /\ Loop
  /\ UNCHANGED <<call, busy, done, stopping, context, result, error, count>>

Look ==
  /\ worker = "look"
  /\ Loop
  /\ UNCHANGED <<call, at, busy, done, stopping, initialized, context, result, error, count>>

SpuriousWorker ==
  /\ worker = "asleep"
  /\ worker' = "look"
  /\ UNCHANGED <<call, at, flags, jobs, count>>

(* run: the sound board's frame and its samples to the audio stream; an    *)
(* exception in either ends the job.                                       *)
Run ==
  /\ worker = "run"
  /\ worker' = "post"
  /\ ran' = ran + 1
  /\ failed' \in {failed, failed \cup {job}}
  /\ UNCHANGED <<call, at, flags, jobs, given, answered, told>>

Error      == job \in failed
WakeMain_Not == at                         \* mutant: main is not woken
WakeMain     == Awake(at)
Post ==
  /\ worker = "post"
  /\ result' = job /\ error' = Error /\ done' = TRUE
  /\ at' = WakeMain
  /\ Loop
  /\ UNCHANGED <<call, busy, stopping, initialized, context, count>>
-----------------------------------------------------------------------------
Main ==
  \/ NothingToFinish \/ Wait \/ TakeResult \/ Enqueue \/ Inline
  \/ Stop \/ Join \/ Create \/ AwaitInit
Thread == Start \/ Look \/ Run \/ Post
Next == (\E c \in Calls : Call(c)) \/ Main \/ Thread \/ SpuriousMain \/ SpuriousWorker

Spec == Init /\ [][Next]_vars

-----------------------------------------------------------------------------
(* What finish gives main ("until finish joins both stages"): with no job  *)
(* in flight the thread is at none and will take none, so main may change  *)
(* the game, its sound board and the audio.                                *)
JoinedMeansIdle == ~busy => worker \notin {"run", "post"} /\ ~queued

(* The times and the exception main takes are those of the job it joins,   *)
(* not of the one before.                                                  *)
ResultOfThisJob ==
  busy /\ done => result = context /\ (error <=> context \in failed)

(* The exception of every job is thrown on where it is joined, once, and   *)
(* no job gets that of another.                                            *)
ErrorsTold == told = failed \cap (1 .. answered)

(* No wake-up is lost: no thread sleeps while what it waits for is there.  *)
NoLostWakeup ==
  /\ at = "finish_wait" => ~done
  /\ at = "init_wait" => ~initialized
  /\ worker = "asleep" => ~queued /\ ~stopping

(* Why: main is past its finish only with nothing in flight, a thread that *)
(* runs is initialised and stops only while it is waited for, ...          *)
PlaceFits ==
  /\ at = "out" <=> call = "none"
  /\ at = "enqueue" => call = "dispatch"
  /\ at \in {"stop", "join"} => call \in {"close", "open"}
  /\ at \in {"create", "init", "init_wait"} => call = "open"
  /\ at \notin {"out", "finish", "finish_wait"} => ~busy
  /\ at = "finish_wait" => busy
  /\ at = "create" => ~Threaded
  /\ at \in {"join", "init", "init_wait"} => Threaded
  /\ Threaded => (stopping <=> at = "join")
  /\ worker = "start" => ~initialized /\ at \in {"init", "init_wait"}
  /\ Threaded /\ worker # "start" => initialized
  /\ worker = "ended" => stopping

(* ... the job in flight is queued, or with the thread, or done, and the   *)
(* thread is where that says it is.                                        *)
Waiting == busy /\ queued /\ ~done /\ worker = "look"
InHand  == busy /\ ~queued /\ ~done /\ worker \in {"run", "post"} /\ job = context
Over    == busy /\ ~queued /\ done /\ worker \in {"look", "asleep"}
AtRest  == ~busy /\ ~queued /\ worker \notin {"run", "post"}

StageFits ==
  /\ Waiting \/ InHand \/ Over \/ AtRest
  /\ given = IF busy THEN answered + 1 ELSE answered
  /\ ran = IF Over \/ worker = "post" THEN given ELSE answered
  /\ busy => context = given
  /\ call = "dispatch" => given < MaxJobs

ErrorFits == failed \subseteq 1 .. ran /\ (error => Over)

WorkerInv ==
  TypeOK /\ PlaceFits /\ StageFits /\ ErrorFits
    /\ NoLostWakeup /\ ResultOfThisJob /\ ErrorsTold

Slot == INSTANCE Handoff

(* One job at a time, each run once and in order, joined after it ran.     *)
OneAtATime == Slot!Spec
=============================================================================

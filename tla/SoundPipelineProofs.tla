------------------------ MODULE SoundPipelineProofs ------------------------
(***************************************************************************)
(* The sound thread and the frame loop over it, for any number of jobs and *)
(* games.  The first part is about SoundWorker alone, the second about     *)
(* SoundPipeline.                                                          *)
(***************************************************************************)
EXTENDS SoundPipeline, SequenceTheorems, TLAPS

Fits == PlaceFits /\ StageFits /\ NoLostWakeup

USE MaxJobsAssumption

(***************************************************************************)
(* The counts stay in range where a step raises them.                      *)
(***************************************************************************)
Room ==
  /\ at = "enqueue" => /\ given + 1 \in 1 .. MaxJobs
                       /\ ran + 1 \in 1 .. MaxJobs \/ Threaded
                       /\ answered + 1 \in 1 .. MaxJobs
  /\ busy => context \in 1 .. MaxJobs /\ answered + 1 \in 1 .. MaxJobs
  /\ worker = "run" => job \in 1 .. MaxJobs /\ ran + 1 \in 1 .. MaxJobs

(* Where a step raises a count, the hand-off leaves a number free.         *)
LEMMA FitsMakesRoom ==
  ASSUME TypeOK, PlaceFits, StageFits PROVE Room
<1> USE DEF TypeOK, PlaceFits, StageFits, Waiting, InHand, Over, AtRest, Threaded
<1>1. at = "enqueue" => ~busy /\ given < MaxJobs  OBVIOUS
<1>2. busy => given = answered + 1  OBVIOUS
<1>3. worker = "run" => busy /\ job = context /\ ran = answered  OBVIOUS
<1>4. ~Threaded /\ at = "enqueue" => ran = answered  BY <1>1
<1>5. QED  BY <1>1, <1>2, <1>3, <1>4 DEF Room

(* No call, spurious wake-up or step of the thread leaves the types.       *)
LEMMA StepKeepsType ==
  ASSUME TypeOK, Room, [Next]_vars PROVE TypeOK'
<1> USE DEF TypeOK, Threaded, Calls, flags, jobs, count, Return, GoTo, Room
<1>1. CASE Main
  <2>1. CASE NothingToFinish  BY <2>1 DEF NothingToFinish, AfterFinish
  <2>2. CASE Wait  BY <2>2 DEF Wait
  <2>3. CASE TakeResult
    <3>1. told' \subseteq 1 .. MaxJobs  BY <2>3 DEF TakeResult, Ready
    <3>2. answered' \in 0 .. MaxJobs  BY <2>3 DEF TakeResult, Ready
    <3>3. Return \/ AfterFinish  BY <2>3 DEF TakeResult
    <3>4. call' \in Calls \cup {"none"} /\ at' \in {"out", "enqueue", "stop"}
      BY <3>3 DEF AfterFinish
    <3>5. context' = 0 /\ error' = FALSE /\ busy' = FALSE  BY <2>3 DEF TakeResult
    <3>6. UNCHANGED <<worker, queued, done, stopping, initialized, job, result,
                      given, ran, failed>>
      BY <2>3 DEF TakeResult
    <3>7. context' \in 0 .. MaxJobs  BY <3>5
    <3>8. error' \in BOOLEAN /\ busy' \in BOOLEAN  BY <3>5, Zenon
    <3>9. QED  BY <3>1, <3>2, <3>4, <3>6, <3>7, <3>8
  <2>4. CASE Enqueue
    <3>1. given' \in 0 .. MaxJobs /\ context' \in 0 .. MaxJobs  BY <2>4 DEF Enqueue
    <3>2. worker' \in {worker, "look"}  BY <2>4 DEF Enqueue, Signal
    <3>3. QED  BY <2>4, <3>1, <3>2 DEF Enqueue, Clear
  <2>5. CASE Inline
    <3>1. given' \in 0 .. MaxJobs /\ ran' \in 0 .. MaxJobs /\ answered' \in 0 .. MaxJobs
      BY <2>5 DEF Inline
    <3>2. failed' \subseteq 1 .. MaxJobs /\ told' \subseteq 1 .. MaxJobs  BY <2>5 DEF Inline
    <3>3. QED  BY <2>5, <3>1, <3>2 DEF Inline
  <2>6. CASE Stop  BY ZenonT(30), <2>6 DEF Stop, Signal, Closed
  <2>7. CASE Join  BY <2>7 DEF Join, Closed
  <2>8. CASE Create  BY <2>8 DEF Create
  <2>9. CASE AwaitInit  BY <2>9 DEF AwaitInit
  <2>10. QED  BY <1>1, <2>1, <2>2, <2>3, <2>4, <2>5, <2>6, <2>7, <2>8, <2>9 DEF Main
<1>2. CASE Thread
  <2>1. CASE Start
    <3>1. worker' \in {"ended", "run", "asleep"} /\ job' \in {job, context}
      BY <2>1 DEF Start, Loop, Taken
    <3>2. queued' \in BOOLEAN  BY <2>1 DEF Start, Loop, Taken
    <3>3. QED  BY <2>1, <3>1, <3>2 DEF Start, Awake
  <2>2. CASE Look
    <3>1. worker' \in {"ended", "run", "asleep"} /\ job' \in {job, context}
      BY <2>2 DEF Look, Loop, Taken
    <3>2. queued' \in BOOLEAN  BY <2>2 DEF Look, Loop, Taken
    <3>3. QED  BY <2>2, <3>1, <3>2 DEF Look
  <2>3. CASE Run
    <3>1. failed' \subseteq 1 .. MaxJobs  BY <2>3 DEF Run
    <3>2. QED  BY <2>3, <3>1 DEF Run
  <2>4. CASE Post
    <3>1. error' \in BOOLEAN  BY <2>4 DEF Post, Error
    <3>2. QED  BY ZenonT(30), <2>4, <3>1 DEF Post, Loop, Taken, WakeMain, Awake
  <2>5. QED  BY <1>2, <2>1, <2>2, <2>3, <2>4 DEF Thread
<1>3. CASE \E c \in Calls : Call(c)  BY <1>3 DEF Call
<1>4. CASE SpuriousMain  BY <1>4 DEF SpuriousMain, Awake
<1>5. CASE SpuriousWorker  BY <1>5 DEF SpuriousWorker
<1>6. CASE UNCHANGED vars  BY <1>6 DEF vars
<1>7. QED  BY <1>1, <1>2, <1>3, <1>4, <1>5, <1>6 DEF Next

(***************************************************************************)
(* The state of the hand-off: which step leads from where to where.        *)
(***************************************************************************)
LEMMA StepKeepsFits ==
  ASSUME TypeOK, Fits, [Next]_vars PROVE Fits'
<1> USE DEF TypeOK, Fits, PlaceFits, StageFits, NoLostWakeup, Waiting, InHand, Over, AtRest,
            Threaded, Calls, flags, jobs, count, Return, GoTo
<1>1. CASE Main
  <2>1. CASE NothingToFinish  BY <2>1 DEF NothingToFinish, AfterFinish
  <2>2. CASE Wait  BY <2>2 DEF Wait, AwaitDone
  <2>3. CASE TakeResult
    <3>1. PlaceFits'  BY <2>3 DEF TakeResult, Ready, AfterFinish
    <3>2. StageFits'  BY <2>3 DEF TakeResult, Ready, AfterFinish
    <3>3. NoLostWakeup'  BY <2>3 DEF TakeResult, Ready, AfterFinish
    <3>4. QED  BY <3>1, <3>2, <3>3
  <2>4. CASE Enqueue
    <3>1. PlaceFits'  BY <2>4 DEF Enqueue, Signal, Clear
    <3>2. StageFits'  BY <2>4 DEF Enqueue, Signal, Clear
    <3>3. NoLostWakeup'  BY <2>4 DEF Enqueue, Signal, Clear
    <3>4. QED  BY <3>1, <3>2, <3>3
  <2>5. CASE Inline
    <3>1. PlaceFits'  BY <2>5 DEF Inline
    <3>2. StageFits'  BY <2>5 DEF Inline
    <3>3. NoLostWakeup'  BY <2>5 DEF Inline
    <3>4. QED  BY <3>1, <3>2, <3>3
  <2>6. CASE Stop  BY <2>6 DEF Stop, Signal, Closed
  <2>7. CASE Join  BY <2>7 DEF Join, Closed
  <2>8. CASE Create  BY <2>8 DEF Create
  <2>9. CASE AwaitInit  BY <2>9 DEF AwaitInit
  <2>10. QED  BY <1>1, <2>1, <2>2, <2>3, <2>4, <2>5, <2>6, <2>7, <2>8, <2>9 DEF Main
<1>2. CASE Thread
  <2>1. CASE Start  BY <2>1 DEF Start, Loop, Taken, Awake
  <2>2. CASE Look  BY <2>2 DEF Look, Loop, Taken
  <2>3. CASE Run  BY <2>3 DEF Run
  <2>4. CASE Post
    <3>1. PlaceFits'  BY <2>4 DEF Post, Loop, Taken, WakeMain, Awake
    <3>2. StageFits'  BY <2>4 DEF Post, Loop, Taken, WakeMain, Awake
    <3>3. NoLostWakeup'  BY <2>4 DEF Post, Loop, Taken, WakeMain, Awake
    <3>4. QED  BY <3>1, <3>2, <3>3
  <2>5. QED  BY <1>2, <2>1, <2>2, <2>3, <2>4 DEF Thread
<1>3. CASE \E c \in Calls : Call(c)  BY <1>3 DEF Call
<1>4. CASE SpuriousMain  BY <1>4 DEF SpuriousMain, Awake
<1>5. CASE SpuriousWorker  BY <1>5 DEF SpuriousWorker
<1>6. CASE UNCHANGED vars  BY <1>6 DEF vars
<1>7. QED  BY <1>1, <1>2, <1>3, <1>4, <1>5, <1>6 DEF Next

(***************************************************************************)
(* A job's exception: a job throws only while it runs, so error_ is set    *)
(* and kept only between the end of a job and the next join.               *)
(***************************************************************************)
Tells == ErrorFits /\ ResultOfThisJob /\ ErrorsTold

LEMMA StepKeepsTells ==
  ASSUME TypeOK, Fits, Tells, [Next]_vars PROVE Tells'
<1> USE DEF TypeOK, Tells, ErrorFits, ResultOfThisJob, ErrorsTold, Over,
            Threaded, flags, jobs, count
<1>1. CASE TakeResult
  <2>1. ran = answered + 1 /\ context = answered + 1
    BY <1>1 DEF TakeResult, Ready, Fits, StageFits, Waiting, InHand, AtRest
  <2>2. error <=> answered + 1 \in failed  BY <1>1, <2>1 DEF TakeResult, Ready
  <2>3. told' = failed' \cap (1 .. answered')
    <3>1. failed \cap (1 .. answered + 1)
             = (failed \cap (1 .. answered)) \cup (failed \cap {answered + 1})  OBVIOUS
    <3>2. told' = told \cup (failed \cap {answered + 1})
      BY <1>1, <2>1, <2>2 DEF TakeResult
    <3>3. QED  BY <1>1, <3>1, <3>2 DEF TakeResult
  <2>4. QED  BY <1>1, <2>3 DEF TakeResult
<1>2. CASE Enqueue
  <2>1. ~busy  BY <1>2 DEF Enqueue, Fits, PlaceFits
  <2>2. QED  BY <1>2, <2>1 DEF Enqueue, Clear
<1>3. CASE Inline
  <2>1. ~busy /\ ran = answered
    BY <1>3 DEF Inline, Fits, PlaceFits, StageFits
  <2>2. answered + 1 \notin failed  BY <2>1
  <2>3. failed' \subseteq 1 .. ran'
    <3>1. given = answered  BY <2>1 DEF Fits, StageFits
    <3>2. failed' \subseteq failed \cup {answered + 1} /\ ran' = answered + 1
      BY <1>3, <2>1, <3>1 DEF Inline
    <3>3. failed \subseteq 1 .. answered  BY <2>1
    <3>4. QED  BY <3>2, <3>3
  <2>4. told' = failed' \cap (1 .. answered')
    <3>1. failed \cap (1 .. answered + 1) = failed \cap (1 .. answered)  BY <2>2
    <3>2. CASE UNCHANGED <<failed, told>>  BY <1>3, <3>1, <3>2 DEF Inline
    <3>3. CASE failed' = failed \cup {given'} /\ told' = told \cup {given'}
      <4>1. given' = answered + 1  BY <1>3, <2>1 DEF Inline, Fits, StageFits
      <4>2. QED  BY <1>3, <3>1, <3>3, <4>1 DEF Inline
    <3>4. QED  BY <1>3, <3>2, <3>3 DEF Inline
  <2>5. QED  BY <1>3, <2>1, <2>3, <2>4 DEF Inline
<1>4. CASE Run
  <2>1. busy /\ ~done /\ ran = answered /\ job = answered + 1
    BY <1>4 DEF Run, Fits, StageFits, Waiting, InHand, Over, AtRest
  <2>2. failed' \subseteq 1 .. ran'  BY <1>4, <2>1 DEF Run
  <2>3. failed' \cap (1 .. answered) = failed \cap (1 .. answered)  BY <1>4, <2>1 DEF Run
  <2>4. QED  BY <1>4, <2>1, <2>2, <2>3 DEF Run
<1>5. CASE Post
  <2>1. busy /\ ~queued /\ job = context
    BY <1>5 DEF Post, Fits, StageFits, Waiting, InHand, Over, AtRest
  <2>2. ~stopping  BY <1>5, <2>1 DEF Post, Fits, PlaceFits
  <2>3. ~queued' /\ worker' = "asleep" /\ busy' /\ done'  BY <1>5, <2>1, <2>2 DEF Post, Loop
  <2>4. result' = job /\ error' = (job \in failed)  BY <1>5 DEF Post, Error
  <2>5. UNCHANGED <<context, count>>  BY <1>5 DEF Post
  <2>6. QED  BY <2>1, <2>3, <2>4, <2>5
<1>6. CASE Start \/ Look
  <2>1. UNCHANGED <<busy, done, context, result, error, count>>  BY <1>6 DEF Start, Look
  <2>2. error => ~queued /\ worker = "look"  BY <1>6 DEF Start, Look
  <2>3. error => ~stopping  BY <2>2 DEF Fits, PlaceFits
  <2>4. error => Over'  BY <1>6, <2>1, <2>2, <2>3 DEF Start, Look, Loop
  <2>5. QED  BY <2>1, <2>4
<1>7. CASE Stop
  <2>1. ~busy  BY <1>7 DEF Stop, Fits, PlaceFits
  <2>2. QED  BY <1>7, <2>1 DEF Stop
<1>8. CASE Join  BY <1>8 DEF Join
<1>9. CASE Create
  <2>1. ~busy  BY <1>9 DEF Create, Fits, PlaceFits
  <2>2. QED  BY <1>9, <2>1 DEF Create
<1>10. CASE SpuriousWorker  BY <1>10 DEF SpuriousWorker
<1>11. CASE UNCHANGED <<worker, flags, jobs, count>>  BY <1>11
<1>12. QED
  BY <1>1, <1>2, <1>3, <1>4, <1>5, <1>6, <1>7, <1>8, <1>9, <1>10, <1>11
  DEF Next, Main, Thread, Call, NothingToFinish, Wait, AwaitInit, SpuriousMain, vars

(***************************************************************************)
(* The inductive invariant: types, the places of the two threads, where    *)
(* the job in flight is, and what became of the exceptions.                *)
(***************************************************************************)
THEOREM WorkerInvariant == Spec => []WorkerInv
<1> USE DEF WorkerInv, Fits, Tells
<1>1. Init => WorkerInv
  <2> SUFFICES ASSUME Init PROVE WorkerInv  OBVIOUS
  <2> USE DEF Init
  <2>1. TypeOK
    <3>1. queued \in BOOLEAN /\ busy \in BOOLEAN /\ done \in BOOLEAN /\ stopping \in BOOLEAN
             /\ initialized \in BOOLEAN /\ error \in BOOLEAN
      BY Zenon
    <3>2. QED  BY <3>1 DEF TypeOK
  <2>2. PlaceFits /\ NoLostWakeup  BY DEF PlaceFits, NoLostWakeup, Threaded
  <2>3. StageFits  BY DEF StageFits, Waiting, InHand, Over, AtRest
  <2>4. ErrorFits /\ ResultOfThisJob /\ ErrorsTold
    BY DEF ErrorFits, ResultOfThisJob, ErrorsTold
  <2>5. QED  BY <2>1, <2>2, <2>3, <2>4
<1>2. WorkerInv /\ [Next]_vars => WorkerInv'
  BY FitsMakesRoom, StepKeepsType, StepKeepsFits, StepKeepsTells
<1>3. QED  BY <1>1, <1>2, PTL DEF Spec

(***************************************************************************)
(* With no job in flight the thread is at none and will take none: when    *)
(* finish has returned, main may change the game and its sound board.      *)
(***************************************************************************)
THEOREM JoinLeavesThreadIdle == Spec => []JoinedMeansIdle
<1>1. WorkerInv => JoinedMeansIdle
  BY DEF WorkerInv, TypeOK, StageFits, Waiting, InHand, Over, AtRest, JoinedMeansIdle
<1>2. QED  BY <1>1, WorkerInvariant, PTL

(***************************************************************************)
(* No thread sleeps while what it waits for is there.                      *)
(***************************************************************************)
THEOREM NoWakeupIsLost == Spec => []NoLostWakeup
BY WorkerInvariant, PTL DEF WorkerInv

(***************************************************************************)
(* Every exception of a job is thrown on, where that job is joined.        *)
(***************************************************************************)
THEOREM ErrorsReachMain == Spec => []ErrorsTold
BY WorkerInvariant, PTL DEF WorkerInv

(***************************************************************************)
(* The flags, the mutex and the two condition variables keep the promise   *)
(* of Handoff: one job at a time, run once, in order, before its answer.   *)
(***************************************************************************)
THEOREM WorkerIsHandoff == Spec => OneAtATime
<1>1. Init => Slot!Init  BY DEF Init, Slot!Init
<1>2. WorkerInv /\ [Next]_vars => [Slot!Next]_Slot!vars
  <2> SUFFICES ASSUME WorkerInv, [Next]_vars PROVE Slot!Next \/ UNCHANGED Slot!vars
    OBVIOUS
  <2> USE DEF Slot!vars, flags, jobs, count
  <2>1. StageFits /\ TypeOK /\ PlaceFits  BY DEF WorkerInv
  <2>2. CASE TakeResult
    <3>1. busy /\ done  BY <2>2 DEF TakeResult, Ready
    <3>2. given = answered + 1 /\ ran = given /\ answered \in Nat
      BY <2>1, <3>1 DEF StageFits, TypeOK, Waiting, InHand, AtRest
    <3>3. answered' = answered + 1 /\ UNCHANGED <<given, ran>>  BY <2>2 DEF TakeResult
    <3>4. Slot!Answer  BY <3>2, <3>3 DEF Slot!Answer
    <3>5. QED  BY <3>4 DEF Slot!Next
  <2>3. CASE Enqueue
    <3>1. given = answered  BY <2>1, <2>3 DEF Enqueue, StageFits, PlaceFits
    <3>2. Slot!Give  BY <2>3, <3>1 DEF Enqueue, Slot!Give
    <3>3. QED  BY <3>2 DEF Slot!Next
  <2>4. CASE Inline
    <3>1. given = answered  BY <2>1, <2>4 DEF Inline, StageFits, PlaceFits
    <3>2. Slot!Inline  BY <2>4, <3>1 DEF Inline, Slot!Inline
    <3>3. QED  BY <3>2 DEF Slot!Next
  <2>5. CASE Run
    <3>1. ran = answered /\ given = answered + 1 /\ answered \in Nat
      BY <2>1, <2>5 DEF Run, StageFits, TypeOK, Waiting, InHand, Over, AtRest
    <3>2. Slot!Run  BY <2>5, <3>1 DEF Run, Slot!Run
    <3>3. QED  BY <3>2 DEF Slot!Next
  <2>6. CASE UNCHANGED <<given, ran, answered>>  BY <2>6
  <2>7. QED
    BY <2>2, <2>3, <2>4, <2>5, <2>6
    DEF Next, Main, Thread, Call, NothingToFinish, Wait, Stop, Join, Create, AwaitInit,
        SpuriousMain, SpuriousWorker, Start, Look, Post, vars
<1>3. QED  BY <1>1, <1>2, WorkerInvariant, PTL DEF Spec, OneAtATime, Slot!Spec

-----------------------------------------------------------------------------
(***************************************************************************)
(* The frame loop.  Main's side is told from the worker's by WorkerStep:   *)
(* all that a step of the worker or of a call of it can do that the        *)
(* pipeline sees.                                                          *)
(***************************************************************************)
USE MaxBoardsAssumption

(* Where main is in no call of the worker, and in which it may be.         *)
CallFits ==
  /\ step \in {"boot", "finish", "dispatch", "fault", "save", "set", "start", "exit"} =>
       call = "none"
  /\ step = "joining" => call \in {"none", "finish"}
  /\ step = "dispatched" => call \in {"none", "dispatch"}
  /\ step \in {"loop", "create", "off"} => call \in {"none", "open", "close"}

(* sound_in_flight is what main knows of busy_: past a join neither is     *)
(* set, and in the loop the one never without the other.                   *)
JoinFits ==
  /\ step \notin {"loop", "finish"} => ~inFlight
  /\ step \in {"joining", "dispatched"} => (busy => (step = "joining") = (call # "none"))
  /\ step \notin {"loop", "finish", "joining", "dispatched"} => ~busy
  /\ step \in {"loop", "finish"} => (busy => inFlight /\ call = "none")

(* The frame that is run but not yet given to the thread.                  *)
Behind ==
  \/ step \in {"finish", "joining"} /\ then = "dispatch"
  \/ step = "dispatch"
  \/ step = "dispatched" /\ call = "dispatch"

(* The packet of the frame that is next to be played.                      *)
PacketFits ==
  /\ Behind \/ step = "dispatched" \/ given # ran => board # 0
  /\ given # ran \/ (step = "dispatched" /\ call = "dispatch") =>
       packet.frame = Len(heard) + 1

(* Every frame of the board is played, in the thread's hands, or behind.   *)
Played == \A i \in 1 .. Len(heard) : heard[i] = i
FramesFit ==
  /\ Played /\ Len(heard) <= ran
  /\ board # 0 => frames = Len(heard) + (given - ran) + (IF Behind THEN 1 ELSE 0)

PipelineInv == WorkerInv /\ PTypeOK /\ CallFits /\ JoinFits /\ PacketFits /\ FramesFit
-----------------------------------------------------------------------------
(* What the pipeline sees of the worker's steps: a job is left with the    *)
(* thread, run by main in its place, run by the thread, or none of these,  *)
(* when a call only returns with nothing in flight.                        *)
Leaves ==
  /\ call = "dispatch" /\ call' = "none"
  /\ ~busy /\ given = ran /\ given' = given + 1 /\ ran' = ran
RunsItself ==
  /\ call = "dispatch" /\ call' = "none"
  /\ ~busy /\ ~busy' /\ given = ran /\ given' = given + 1 /\ ran' = ran + 1
Plays ==
  /\ busy /\ given = ran + 1 /\ ran' = ran + 1 /\ UNCHANGED <<call, busy, given>>
Quiet ==
  /\ UNCHANGED <<given, ran>> /\ (busy' => busy) /\ call' \in {call, "none"}
  /\ call' # call => ~busy'
  /\ call = "dispatch" /\ ~busy => call' = call

(***************************************************************************)
(* All that a step of the worker or of a call of it can be.                *)
(***************************************************************************)
LEMMA WorkerStep ==
  ASSUME WorkerInv, Main \/ Thread \/ SpuriousMain \/ SpuriousWorker
  PROVE  Leaves \/ RunsItself \/ Plays \/ Quiet
<1>1. TypeOK /\ PlaceFits /\ StageFits  BY DEF WorkerInv
<1>2. ~Threaded => ~busy
  BY <1>1 DEF StageFits, Waiting, InHand, Over, AtRest, Threaded
<1>3. ~busy => given = ran
  BY <1>1 DEF StageFits, Waiting, InHand, Over, AtRest
<1> USE DEF flags, jobs, count, Return, GoTo
<1>4. CASE NothingToFinish
  <2>1. ~busy /\ ~busy'  BY <1>2, <1>4 DEF NothingToFinish
  <2>2. call = "dispatch" => call' = call  BY <1>4 DEF NothingToFinish, AfterFinish
  <2>3. call' \in {call, "none"}  BY <1>4 DEF NothingToFinish, AfterFinish
  <2>4. UNCHANGED <<given, ran, busy>>  BY <1>4 DEF NothingToFinish
  <2>5. QED  BY <2>1, <2>2, <2>3, <2>4 DEF Quiet
<1>5. CASE TakeResult
  <2>1. busy /\ ~busy' /\ UNCHANGED <<given, ran>>  BY <1>5 DEF TakeResult, Ready
  <2>2. call' \in {call, "none"}  BY <1>5 DEF TakeResult, AfterFinish
  <2>3. QED  BY <2>1, <2>2 DEF Quiet
<1>6. CASE Enqueue
  <2>1. call = "dispatch" /\ ~busy  BY <1>1, <1>6 DEF Enqueue, PlaceFits
  <2>2. QED  BY <1>3, <1>6, <2>1 DEF Enqueue, Leaves
<1>7. CASE Inline
  <2>1. call = "dispatch" /\ ~busy  BY <1>1, <1>7 DEF Inline, PlaceFits
  <2>2. QED  BY <1>3, <1>7, <2>1 DEF Inline, RunsItself
<1>8. CASE Stop
  <2>1. ~busy /\ call # "dispatch"  BY <1>1, <1>8 DEF Stop, PlaceFits
  <2>2. call' \in {call, "none"} /\ UNCHANGED <<given, ran, busy>>
    BY <1>8 DEF Stop, Closed
  <2>3. QED  BY <2>1, <2>2 DEF Quiet
<1>9. CASE Join
  <2>1. ~busy /\ call # "dispatch"  BY <1>1, <1>9 DEF Join, PlaceFits
  <2>2. call' \in {call, "none"} /\ UNCHANGED <<given, ran, busy>>
    BY <1>9 DEF Join, Closed
  <2>3. QED  BY <2>1, <2>2 DEF Quiet
<1>10. CASE Create \/ AwaitInit
  <2>1. ~busy /\ call # "dispatch"  BY <1>1, <1>10 DEF Create, AwaitInit, PlaceFits
  <2>2. call' \in {call, "none"} /\ UNCHANGED <<given, ran, busy>>
    BY <1>10 DEF Create, AwaitInit
  <2>3. QED  BY <2>1, <2>2 DEF Quiet
<1>11. CASE Run
  <2>1. busy /\ given = ran + 1
    BY <1>1, <1>11 DEF Run, TypeOK, StageFits, Waiting, InHand, Over, AtRest
  <2>2. QED  BY <1>11, <2>1 DEF Run, Plays
<1>12. CASE Wait \/ Start \/ Look \/ Post \/ SpuriousMain \/ SpuriousWorker
  <2>1. UNCHANGED <<given, ran, busy, call>>
    BY <1>12 DEF Wait, Start, Look, Post, SpuriousMain, SpuriousWorker
  <2>2. QED  BY <2>1 DEF Quiet
<1>13. QED
  BY <1>4, <1>5, <1>6, <1>7, <1>8, <1>9, <1>10, <1>11, <1>12 DEF Main, Thread

(***************************************************************************)
(* Main makes its calls of the worker one at a time, so what is proved of  *)
(* the worker under any main holds in the pipeline.                        *)
(***************************************************************************)
LEMMA PipelineStep == [PNext]_pvars => [Next]_vars
<1> SUFFICES ASSUME [PNext]_pvars PROVE Next \/ UNCHANGED vars  OBVIOUS
<1> USE DEF Stay, Calls
<1>1. CASE Worker  BY <1>1 DEF Worker, Next
<1>2. CASE Spurious  BY <1>2 DEF Spurious, Next
<1>3. CASE Frame  BY <1>3 DEF Frame, RunFrame
<1>4. CASE User  BY <1>4 DEF User, OpenMenu, Resume, Choose
<1>5. CASE Go
  <2>1. (\E c \in Calls : Call(c)) \/ UNCHANGED vars
    BY <1>5 DEF Go, Boot, FinishSound, Joined, JoinThrew, Dispatch, Dispatched,
                Fault, SaveOrSet, StartRefused, StartGame, NewGame, Exit
  <2>2. QED  BY <2>1 DEF Next
<1>6. CASE UNCHANGED pvars  BY <1>6 DEF pvars
<1>7. QED  BY <1>1, <1>2, <1>3, <1>4, <1>5, <1>6 DEF PNext

LEMMA PipelineIsWorker == PSpec => Spec
<1>1. PInit => Init  BY DEF PInit
<1>2. QED  BY <1>1, PipelineStep, PTL DEF PSpec, Spec

(***************************************************************************)
(* The hand-off keeps its promise in the frame loop and the menu.          *)
(***************************************************************************)
THEOREM PipelineIsHandoff == PSpec => OneAtATime
BY PipelineIsWorker, WorkerIsHandoff
-----------------------------------------------------------------------------
Fit == CallFits /\ JoinFits /\ PacketFits /\ FramesFit

(***************************************************************************)
(* What the frame that is appended to heard is: the next.                  *)
(***************************************************************************)
LEMMA PlayKeepsOrder ==
  ASSUME PTypeOK, Played, Len(heard) <= ran, packet.frame = Len(heard) + 1,
         ran' = ran + 1, ran' \in 0 .. MaxJobs, heard' = Append(heard, packet.frame)
  PROVE  /\ heard' \in Seq(1 .. MaxJobs) /\ Len(heard') = Len(heard) + 1
         /\ Played' /\ Len(heard') <= ran'
<1>1. heard \in Seq(1 .. MaxJobs) /\ Len(heard) \in Nat  BY DEF PTypeOK
<1>2. ran \in Nat  BY DEF PTypeOK, TypeOK
<1>3. packet.frame \in 1 .. MaxJobs  BY <1>1, <1>2
<1>4. heard' \in Seq(1 .. MaxJobs) /\ Len(heard') = Len(heard) + 1  BY <1>1, <1>3
<1>5. ASSUME NEW i \in 1 .. Len(heard') PROVE heard'[i] = i
  <2>1. CASE i = Len(heard) + 1  BY <1>1, <1>3, <2>1
  <2>2. CASE i \in 1 .. Len(heard)  BY <1>1, <1>3, <2>2 DEF Played
  <2>3. QED  BY <1>1, <1>4, <2>1, <2>2
<1>6. QED  BY <1>1, <1>2, <1>4, <1>5 DEF Played

(***************************************************************************)
(* A step of the worker: the packet it plays is that of the next frame.    *)
(***************************************************************************)
LEMMA WorkerKeepsFit ==
  ASSUME WorkerInv, PTypeOK, Fit, TypeOK', Worker \/ Spurious PROVE PTypeOK' /\ Fit'
<1>1. UNCHANGED <<step, then, menu, board, boards, native, frames, packet, inFlight>>
  BY DEF Worker, Spurious, place, play
<1>2. heard' = IF ran' = ran THEN heard ELSE Append(heard, packet.frame)
  <2>1. CASE Worker  BY <2>1 DEF Worker
  <2>2. CASE Spurious
    BY <2>2 DEF Spurious, SpuriousMain, SpuriousWorker, flags, count, jobs
  <2>3. QED  BY <2>1, <2>2
<1>3. {given, ran, given', ran'} \subseteq Nat  BY DEF TypeOK, PTypeOK
<1>4. Len(heard) \in Nat /\ frames \in Nat  BY DEF PTypeOK
<1>5. Leaves \/ RunsItself \/ Plays \/ Quiet  BY WorkerStep DEF Worker, Spurious
<1>6. call = "dispatch" => step = "dispatched"  BY DEF PTypeOK, Fit, CallFits
<1>7. CallFits' /\ JoinFits'
  <2>1. call' \in {call, "none"}  BY <1>5 DEF Leaves, RunsItself, Plays, Quiet
  <2>2. CallFits'  BY <1>1, <2>1 DEF Fit, CallFits
  <2>3. \/ busy' => busy /\ call' = call
        \/ ~busy'
        \/ step = "dispatched" /\ call' = "none"
    BY <1>5, <1>6 DEF Leaves, RunsItself, Plays, Quiet
  <2>4. JoinFits'  BY <1>1, <2>3 DEF Fit, JoinFits
  <2>5. QED  BY <2>2, <2>4
<1>8. CASE Quiet
  <2>1. Behind' = Behind
    BY <1>1, <1>8, Zenon DEF Fit, JoinFits, CallFits, Behind, Quiet
  <2>2. heard' = heard  BY <1>2, <1>8 DEF Quiet
  <2>3. PTypeOK'  BY <1>1, <2>2 DEF PTypeOK
  <2>4. QED
    BY <1>1, <1>7, <1>8, <2>1, <2>2, <2>3 DEF Fit, PacketFits, FramesFit, Played, Quiet
<1>9. CASE Leaves
  <2>1. heard' = heard  BY <1>2, <1>9 DEF Leaves
  <2>2. step = "dispatched" /\ Behind /\ ~Behind'
    BY <1>1, <1>9, <1>6 DEF Leaves, Behind
  <2>3. PTypeOK'  BY <1>1, <2>1 DEF PTypeOK
  <2>4. PacketFits'  BY <1>1, <1>9, <2>1, <2>2 DEF Fit, PacketFits, Leaves
  <2>5. FramesFit'
    BY <1>1, <1>3, <1>4, <1>9, <2>1, <2>2 DEF Fit, FramesFit, Played, Leaves
  <2>6. QED  BY <1>7, <2>3, <2>4, <2>5 DEF Fit
<1>10. CASE RunsItself \/ Plays
  <2>1. ran' = ran + 1 /\ heard' = Append(heard, packet.frame)
    BY <1>2, <1>3, <1>10 DEF RunsItself, Plays
  <2>2. board # 0 /\ packet.frame = Len(heard) + 1
    BY <1>3, <1>10, <1>6 DEF RunsItself, Plays, Fit, PacketFits, Behind
  <2>3. ran' \in 0 .. MaxJobs  BY DEF TypeOK
  <2>4. /\ heard' \in Seq(1 .. MaxJobs) /\ Len(heard') = Len(heard) + 1
        /\ Played' /\ Len(heard') <= ran'
    BY <2>1, <2>2, <2>3, PlayKeepsOrder DEF Fit, FramesFit
  <2>5. PTypeOK'  BY <1>1, <2>4 DEF PTypeOK
  <2>6. given' = ran'  BY <1>3, <1>10, <2>1 DEF RunsItself, Plays
  <2>7. PacketFits'
    <3>1. ~(step = "dispatched" /\ call' = "dispatch")
      BY <1>10 DEF RunsItself, Plays, Fit, JoinFits
    <3>2. QED  BY <1>1, <2>2, <2>6, <3>1 DEF PacketFits, Behind
  <2>8. FramesFit'
    <3>1. CASE RunsItself
      <4>1. Behind /\ ~Behind'  BY <1>1, <1>6, <3>1 DEF RunsItself, Behind
      <4>2. frames = Len(heard) + 1  BY <1>3, <1>4, <2>2, <3>1, <4>1 DEF Fit, FramesFit, RunsItself
      <4>3. frames' = Len(heard') + (given' - ran')  BY <1>1, <1>3, <1>4, <2>4, <2>6, <4>2
      <4>4. QED  BY <1>1, <2>4, <4>1, <4>3 DEF FramesFit
    <3>2. CASE Plays
      <4>1. Behind = Behind'  BY <1>1, <3>2, Zenon DEF Plays, Behind
      <4>2. frames = Len(heard) + 1 + (IF Behind THEN 1 ELSE 0)
        BY <1>3, <1>4, <2>2, <3>2 DEF Fit, FramesFit, Plays
      <4>3. frames' = Len(heard') + (given' - ran') + (IF Behind' THEN 1 ELSE 0)
        BY <1>1, <1>3, <1>4, <2>4, <2>6, <4>1, <4>2
      <4>4. QED  BY <2>4, <4>3 DEF FramesFit
    <3>3. QED  BY <1>10, <3>1, <3>2
  <2>9. QED  BY <1>7, <2>5, <2>7, <2>8 DEF Fit
<1>11. QED  BY <1>8, <1>9, <1>10, <1>5

(***************************************************************************)
(* The steps of main between its calls: the frame loop and the menu.       *)
(***************************************************************************)
MainStep == Go \/ Frame \/ User

(* Main's own steps leave the hand-off as it is; a call is only begun.     *)
LEMMA MainLeavesWorker ==
  ASSUME MainStep
  PROVE  /\ UNCHANGED <<worker, given, ran, busy, answered, told>> /\ call = "none"
         /\ call' \in Calls \cup {"none"}
<1>1. call = "none" /\ (UNCHANGED vars \/ \E c \in Calls : Call(c))
  BY DEF MainStep, Go, Frame, User, Boot, FinishSound, Joined, JoinThrew, Dispatch, Dispatched,
         Fault, SaveOrSet, StartRefused, StartGame, NewGame, Exit, RunFrame, OpenMenu, Resume,
         Choose, Stay, Calls
<1>2. QED  BY <1>1 DEF Call, vars, flags, jobs, count

(* No more frames are run than packets can be given.                       *)
LEMMA MainKeepsType ==
  ASSUME PTypeOK, Fit, TypeOK', MainStep PROVE PTypeOK'
<1> USE DEF PTypeOK, MainStep, GoOn, NoPacket, place, play
<1>1. RunFrame => frames + 1 \in 0 .. MaxJobs + 1
  <2> SUFFICES ASSUME RunFrame PROVE frames + 1 \in 0 .. MaxJobs + 1  OBVIOUS
  <2>1. board # 0 /\ ~Behind /\ given < MaxJobs  BY DEF RunFrame, Behind
  <2>2. Len(heard) \in Nat /\ ran \in Nat /\ given \in Nat  BY DEF TypeOK
  <2>3. frames = Len(heard) + (given - ran) /\ Len(heard) <= ran
    BY <2>1, <2>2 DEF Fit, FramesFit
  <2>4. QED  BY <2>1, <2>2, <2>3
<1>2. CASE Boot  BY <1>2, <1>1 DEF Boot
<1>3. CASE FinishSound  BY <1>3, <1>1 DEF FinishSound
<1>4. CASE Joined  BY <1>4, <1>1 DEF Joined
<1>5. CASE JoinThrew  BY <1>5, <1>1 DEF JoinThrew, EndGame
<1>6. CASE Dispatch  BY <1>6, <1>1 DEF Dispatch
<1>7. CASE Dispatched  BY <1>7, <1>1 DEF Dispatched, FinishThen
<1>8. CASE Fault  BY <1>8, <1>1 DEF Fault, EndGame
<1>9. CASE SaveOrSet  BY <1>9, <1>1 DEF SaveOrSet
<1>10. CASE StartRefused  BY <1>10, <1>1 DEF StartRefused
<1>11. CASE StartGame
  <2>1. native' \in BOOLEAN  BY <1>11, Zenon DEF StartGame
  <2>2. UNCHANGED <<menu, boards, frames, inFlight, heard, then>> /\ step' = "create"
    BY <1>11 DEF StartGame
  <2>3. board' = 0 /\ packet' = NoPacket  BY <1>11 DEF StartGame, EndGame
  <2>4. QED  BY <2>1, <2>2, <2>3
<1>12. CASE NewGame
  <2>1. menu' \in BOOLEAN  BY <1>12, Zenon DEF NewGame
  <2>2. {board', boards'} \subseteq 0 .. MaxBoards  BY <1>12 DEF NewGame
  <2>3. frames' \in {0, frames} /\ heard' \in {<<>>, heard}  BY <1>12 DEF NewGame
  <2>6. <<>> \in Seq(1 .. MaxJobs) /\ 0 \in 0 .. MaxJobs + 1  OBVIOUS
  <2>4. UNCHANGED <<native, packet, inFlight, then>> /\ step' = "loop"  BY <1>12 DEF NewGame
  <2>5. QED  BY <2>1, <2>2, <2>3, <2>4, <2>6
<1>13. CASE Exit  BY <1>13, <1>1 DEF Exit
<1>14. CASE RunFrame  BY <1>14, <1>1 DEF RunFrame, AfterFrame, AfterThrow, FinishThen
<1>15. CASE OpenMenu  BY <1>15, <1>1 DEF OpenMenu, AtMenu, FinishThen
<1>16. CASE Resume  BY <1>16, <1>1 DEF Resume
<1>17. CASE Choose  BY <1>17, <1>1 DEF Choose, FinishThen
<1>18. QED
  BY <1>2, <1>3, <1>4, <1>5, <1>6, <1>7, <1>8, <1>9, <1>10, <1>11, <1>12, <1>13,
     <1>14, <1>15, <1>16, <1>17
  DEF Go, Frame, User

(* Past a join nothing is in flight, and main is in the calls it began.    *)
LEMMA MainKeepsJoins ==
  ASSUME PTypeOK, Fit, MainStep, ErrorsTold, StageFits
  PROVE  CallFits' /\ JoinFits'
<1> USE DEF Calls, MainStep, GoOn, place, play, Fit, CallFits, JoinFits, PTypeOK
<1>1. Threw => ~busy
  BY DEF Threw, ErrorsTold, StageFits, TypeOK
<1>2. /\ busy' = busy /\ call = "none"
      /\ Stay => call' = "none"
      /\ \A c \in Calls : Call(c) => call' = c
  BY MainLeavesWorker DEF Stay, Call, vars
<1>3. CASE Boot  BY <1>3, <1>1, <1>2 DEF Boot
<1>4. CASE FinishSound  BY <1>4, <1>1, <1>2 DEF FinishSound
<1>5. CASE Joined  BY <1>5, <1>1, <1>2 DEF Joined
<1>6. CASE JoinThrew  BY <1>6, <1>1, <1>2 DEF JoinThrew, EndGame
<1>7. CASE Dispatch  BY <1>7, <1>1, <1>2 DEF Dispatch
<1>8. CASE Dispatched  BY <1>8, <1>1, <1>2 DEF Dispatched, FinishThen
<1>9. CASE Fault  BY <1>9, <1>1, <1>2 DEF Fault, EndGame
<1>10. CASE SaveOrSet  BY <1>10, <1>1, <1>2 DEF SaveOrSet
<1>11. CASE StartRefused  BY <1>11, <1>1, <1>2 DEF StartRefused
<1>12. CASE StartGame  BY <1>12, <1>1, <1>2 DEF StartGame, EndGame, Threaded
<1>13. CASE NewGame  BY <1>13, <1>1, <1>2 DEF NewGame
<1>14. CASE Exit  BY <1>14, <1>1, <1>2 DEF Exit
<1>15. CASE RunFrame  BY <1>15, <1>1, <1>2 DEF RunFrame, AfterFrame, AfterThrow, FinishThen
<1>16. CASE OpenMenu  BY <1>16, <1>1, <1>2 DEF OpenMenu, AtMenu, FinishThen
<1>17. CASE Resume  BY <1>17, <1>1, <1>2 DEF Resume
<1>18. CASE Choose  BY <1>18, <1>1, <1>2 DEF Choose, FinishThen
<1>19. QED
  BY <1>3, <1>4, <1>5, <1>6, <1>7, <1>8, <1>9, <1>10, <1>11, <1>12, <1>13,
     <1>14, <1>15, <1>16, <1>17, <1>18
  DEF Go, Frame, User

(* A packet is replaced, and its game ended, only when it has been played. *)
LEMMA MainKeepsFrames ==
  ASSUME PTypeOK, Fit, MainStep, ~busy => given = ran PROVE PacketFits' /\ FramesFit'
<1> USE DEF MainStep, GoOn, place, play, Fit, PacketFits, FramesFit, Played, Behind, PTypeOK,
            TypeOK, CallFits, JoinFits
<1>1. UNCHANGED <<given, ran, busy>> /\ call = "none"  BY MainLeavesWorker
<1>2. CASE Boot  BY <1>2, <1>1 DEF Boot
<1>3. CASE FinishSound  BY <1>3, <1>1 DEF FinishSound
<1>4. CASE Joined  BY <1>4, <1>1 DEF Joined
<1>5. CASE JoinThrew  BY <1>5, <1>1 DEF JoinThrew, EndGame
<1>6. CASE Dispatch
  <2>1. Behind /\ ~busy  BY <1>6, <1>1 DEF Dispatch
  <2>2. board # 0 /\ given = ran /\ frames = Len(heard) + 1  BY SMTT(30), <2>1
  <2>3. Behind' /\ packet'.frame = frames  BY <1>6 DEF Dispatch, Call
  <2>4. UNCHANGED <<board, frames, heard>>  BY <1>6 DEF Dispatch
  <2>5. QED  BY <1>1, <2>2, <2>3, <2>4
<1>7. CASE Dispatched  BY <1>7, <1>1 DEF Dispatched, FinishThen
<1>8. CASE Fault  BY <1>8, <1>1 DEF Fault, EndGame
<1>9. CASE SaveOrSet  BY <1>9, <1>1 DEF SaveOrSet
<1>10. CASE StartRefused  BY <1>10, <1>1 DEF StartRefused
<1>11. CASE StartGame  BY <1>11, <1>1 DEF StartGame, EndGame, Threaded
<1>12. CASE NewGame  BY SMTT(30), <1>12, <1>1 DEF NewGame
<1>13. CASE Exit  BY <1>13, <1>1 DEF Exit
<1>14. CASE RunFrame
  <2>1. board # 0 /\ ~Behind  BY <1>14 DEF RunFrame
  <2>2. frames = Len(heard) + (given - ran)  BY <2>1
  <2>3. \/ frames' = frames + 1 /\ Behind'
        \/ frames' = frames /\ ~Behind'
    BY <1>14 DEF RunFrame, AfterFrame, AfterThrow, FinishThen
  <2>4. UNCHANGED <<board, packet, heard>> /\ step' = "finish"
    BY <1>14 DEF RunFrame, AfterFrame, AfterThrow, FinishThen
  <2>5. QED  BY <1>1, <2>1, <2>2, <2>3, <2>4
<1>15. CASE OpenMenu  BY <1>15, <1>1 DEF OpenMenu, AtMenu, FinishThen
<1>16. CASE Resume  BY <1>16, <1>1 DEF Resume
<1>17. CASE Choose  BY <1>17, <1>1 DEF Choose, FinishThen
<1>18. QED
  BY <1>2, <1>3, <1>4, <1>5, <1>6, <1>7, <1>8, <1>9, <1>10, <1>11, <1>12, <1>13,
     <1>14, <1>15, <1>16, <1>17
  DEF Go, Frame, User
-----------------------------------------------------------------------------
(***************************************************************************)
(* The inductive invariant: where main is says what it knows of the job in *)
(* flight, whose packet is that of the next frame to be played.            *)
(***************************************************************************)
THEOREM PipelineFits == PSpec => []PipelineInv
<1> USE DEF Fit, PipelineInv
<1>1. PInit => PTypeOK /\ Fit
  <2> SUFFICES ASSUME PInit PROVE PTypeOK /\ Fit  OBVIOUS
  <2> USE DEF PInit, Init, NoPacket
  <2>1. {menu, native, inFlight} \subseteq BOOLEAN  BY Zenon
  <2>2. queued \in BOOLEAN /\ busy \in BOOLEAN /\ done \in BOOLEAN /\ stopping \in BOOLEAN
           /\ initialized \in BOOLEAN /\ error \in BOOLEAN
    BY Zenon
  <2>3. TypeOK  BY <2>2 DEF TypeOK
  <2>4. <<>> \in Seq(1 .. MaxJobs)  OBVIOUS
  <2>5. PTypeOK  BY <2>1, <2>3, <2>4 DEF PTypeOK
  <2>6. CallFits /\ JoinFits  BY DEF CallFits, JoinFits
  <2>7. ~Behind  BY DEF Behind
  <2>8. PacketFits  BY <2>7 DEF PacketFits
  <2>9. FramesFit  BY <2>7 DEF FramesFit, Played
  <2>10. QED  BY <2>5, <2>6, <2>8, <2>9
<1>2. WorkerInv /\ WorkerInv' /\ PTypeOK /\ Fit /\ [PNext]_pvars => PTypeOK' /\ Fit'
  <2> SUFFICES ASSUME WorkerInv, WorkerInv', PTypeOK, Fit, [PNext]_pvars PROVE PTypeOK' /\ Fit'
    OBVIOUS
  <2>1. TypeOK' /\ StageFits /\ ErrorsTold  BY DEF WorkerInv
  <2>2. CASE Worker \/ Spurious  BY <2>1, <2>2, WorkerKeepsFit
  <2>3. CASE MainStep
    <3>1. ~busy => given = ran  BY <2>1 DEF StageFits, Waiting, InHand, Over, AtRest
    <3>2. QED  BY <2>1, <2>3, <3>1, MainKeepsType, MainKeepsJoins, MainKeepsFrames
  <2>4. CASE UNCHANGED pvars
    BY <2>4 DEF pvars, vars, flags, jobs, count, place, play, PTypeOK, TypeOK, CallFits, JoinFits,
                PacketFits, FramesFit, Played, Behind
  <2>5. QED  BY <2>2, <2>3, <2>4 DEF PNext, MainStep
<1>3. PSpec => []WorkerInv  BY PipelineIsWorker, WorkerInvariant
<1>4. QED  BY <1>1, <1>2, <1>3, PTL DEF PSpec

(***************************************************************************)
(* Past a join no job is in flight.                                        *)
(***************************************************************************)
LEMMA JoinedIsIdle ==
  ASSUME PipelineInv, step \notin {"boot", "loop", "finish", "joining", "dispatched", "off"}
  PROVE  ~busy /\ given = ran /\ worker # "run" /\ ~queued
<1>1. ~busy  BY DEF PipelineInv, JoinFits
<1>2. QED
  BY <1>1 DEF PipelineInv, WorkerInv, StageFits, Waiting, InHand, Over, AtRest

(***************************************************************************)
(* Main replaces the packet, changes the volumes, saves or ends the game   *)
(* only while the sound thread plays nothing and will play nothing: each   *)
(* of these places is reached through finish_sound only.                   *)
(***************************************************************************)
THEOREM MainIsAlone == PSpec => []MainAlone
<1>1. PipelineInv => MainAlone  BY JoinedIsIdle DEF MainAlone
<1>2. QED  BY <1>1, PipelineFits, PTL

(***************************************************************************)
(* What the menu saves is a whole game: the sound board has been run for   *)
(* every frame of the board.                                               *)
(***************************************************************************)
THEOREM WholeGameSaved == PSpec => []SavedWhole
<1>1. PipelineInv => SavedWhole
  <2> SUFFICES ASSUME PipelineInv, step \in {"save", "start", "exit"}, board # 0
               PROVE  Len(heard) = frames
    BY DEF SavedWhole
  <2>1. ~Behind /\ Len(heard) \in Nat /\ ran \in Nat
    BY DEF Behind, PipelineInv, PTypeOK, TypeOK
  <2>2. QED  BY <2>1, JoinedIsIdle DEF PipelineInv, FramesFit
<1>2. QED  BY <1>1, PipelineFits, PTL

(***************************************************************************)
(* The sound board is run once for every frame of its board, in order, and *)
(* is never more than two frames behind it: the one in flight and the one  *)
(* that waits for it to be joined.                                         *)
(***************************************************************************)
THEOREM FramesPlayedInOrder == PSpec => []PlayedInOrder
<1>1. PipelineInv => PlayedInOrder
  <2> SUFFICES ASSUME PipelineInv PROVE PlayedInOrder  OBVIOUS
  <2>1. PTypeOK /\ Played  BY DEF PipelineInv, FramesFit
  <2>2. given \in Nat /\ ran \in Nat /\ answered \in Nat /\ Len(heard) \in Nat
    BY <2>1 DEF PTypeOK, TypeOK
  <2>3. given - ran \in 0 .. 1
    BY <2>2 DEF PipelineInv, WorkerInv, StageFits
  <2>4. board # 0 => Len(heard) \in frames - 2 .. frames
    BY <2>2, <2>3 DEF PipelineInv, FramesFit
  <2>5. QED  BY <2>1, <2>4 DEF PlayedInOrder, Played
<1>2. QED  BY <1>1, PipelineFits, PTL

(***************************************************************************)
(* The packet that is given to the thread and the board it is of stay as   *)
(* they are until it has been played: main changes them at no place it can *)
(* be at while the job is in flight.                                       *)
(***************************************************************************)
THEOREM PacketStaysAlive == PSpec => PacketKept
<1>1. PipelineInv /\ [PNext]_pvars
        => [queued \/ worker = "run" => packet' = packet /\ board' = board /\ board # 0]_pvars
  <2> SUFFICES ASSUME PipelineInv, PNext, queued \/ worker = "run"
               PROVE  packet' = packet /\ board' = board /\ board # 0
    OBVIOUS
  <2>1. busy /\ given = ran + 1 /\ ran \in Nat
    BY DEF PipelineInv, WorkerInv, TypeOK, StageFits, Waiting, InHand, Over, AtRest
  <2>2. board # 0  BY <2>1 DEF PipelineInv, PacketFits
  <2>3. step \in {"loop", "finish", "dispatched"} \/ call # "none"
    BY <2>1 DEF PipelineInv, JoinFits
  <2>4. CASE Worker \/ Spurious  BY <2>2, <2>4 DEF Worker, Spurious, play
  <2>5. CASE MainStep
    BY <2>2, <2>3, <2>5
    DEF MainStep, Go, Frame, User, Boot, FinishSound, Joined, JoinThrew, Dispatch, Dispatched,
        Fault, SaveOrSet, StartRefused, StartGame, NewGame, Exit, RunFrame, OpenMenu, Resume,
        Choose, play
  <2>6. QED  BY <2>2, <2>4, <2>5 DEF PNext, MainStep
<1>2. QED  BY <1>1, PipelineFits, PTL DEF PSpec, PacketKept
=============================================================================

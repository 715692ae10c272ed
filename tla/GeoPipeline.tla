---------------------------- MODULE GeoPipeline ----------------------------
(***************************************************************************)
(* The geometrizer of the Vita build on its own core:                      *)
(* platform/vita/src/runtime/geo.cpp (class Geo) as M2Board and the frame  *)
(* loop use it, from the creation of a game's board to its end.            *)
(*                                                                         *)
(* Main begins a parse at a vblank start (at 30 Hz every other one), reads *)
(* list and window count at each vblank end, and the i960 may read the     *)
(* polygon count in between.  Between two frames the menu may commit its   *)
(* settings, which set the wide margin: that joins the parse too, but      *)
(* keeps its error for a later call.  Main and the thread hand over        *)
(* to each other with two semaphores of at most 1; what either does        *)
(* between two of its waits is one step, and a parse has a step for its    *)
(* beginning and one for its end.                                          *)
(***************************************************************************)
EXTENDS Integers

CONSTANT MaxParses   \* bound: display lists of the game

ASSUME MaxParsesAssumption == MaxParses \in Nat

VARIABLES
  at,              \* main: out of Geo, or in which call of it
  mode,            \* mode_
  phase, frames,   \* the blank that is next, the vblank ends so far
  age, pair,       \* job_age_, pair_
  snapshot,        \* the parse the snapshot and the job are of
  inFlight, unpublished, pending,  \* in_flight_, unpublished_, pending_error_ is set
  latest,          \* the parse latest_count_ is of
  front,           \* front_ and front_windows_
  thread, start, done, stop,       \* the thread, the two semaphores, stop_
  back,            \* core_.polys
  result, error,   \* the parse the results of the job are of, job_error_ is set
  given, ran, answered,            \* parses begun, run and joined
  begunAt, bad,    \* the frame each parse was begun in, those that threw
  shown            \* what the reads of a vblank end gave

main   == <<at, mode, phase, frames, age, pair>>
list   == <<snapshot, inFlight, unpublished, pending, latest, front>>
job    == <<back, result, error>>
count  == <<given, ran, answered, begunAt, bad>>
vars   == <<main, list, thread, start, done, stop, job, count, shown>>

(* A list of polygons: the parse it is of, and whether all of it is there. *)
List(p, whole) == [parse |-> p, whole |-> whole]
Screen(l, w)   == [list |-> l, windows |-> w]

Init ==
  /\ at = "new" /\ mode = "sync" /\ phase = "start" /\ frames = 0
  /\ age = 0 /\ pair = "none"
  /\ snapshot = 0 /\ inFlight = FALSE /\ unpublished = FALSE /\ pending = FALSE
  /\ latest = 0 /\ front = Screen(List(0, TRUE), 0)
  /\ thread = "none" /\ start = 0 /\ done = 0 /\ stop = FALSE
  /\ back = List(0, TRUE) /\ result = 0 /\ error = FALSE
  /\ given = 0 /\ ran = 0 /\ answered = 0
  /\ begunAt = [p \in 1 .. MaxParses |-> 0] /\ bad = {}
  /\ shown = front

Signal(s) == 1     \* sceKernelSignalSema: a semaphore at its maximum stays there
-----------------------------------------------------------------------------
(* configure, before the first frame.  Without a thread the parses stay on *)
(* main; else main waits on done until the thread has begun.               *)
Configure ==
  /\ at = "new"
  /\ \/ at' = "out" /\ UNCHANGED <<mode, thread>>
     \/ at' = "starting" /\ mode' = "pipelined" /\ thread' = "begin"
  /\ UNCHANGED <<phase, frames, age, pair, list, start, done, stop, job, count, shown>>

Begun_Left(d) == d                           \* mutant: done is polled, not taken
Begun(d)      == d - 1
Configured ==
  /\ at = "starting" /\ done = 1
  /\ done' = Begun(done)
  /\ at' = "out"
  /\ UNCHANGED <<mode, phase, frames, age, pair, list, thread, start, stop, job, count, shown>>

(* wait(): nothing is in flight, or done is taken and with it the results. *)
Joinable_Polled == TRUE                      \* mutant: polls, but does not wait
Joinable        == inFlight => done = 1
Join ==
  /\ Joinable
  /\ IF inFlight
       THEN done' = 0 /\ error' = FALSE /\ latest' = result /\ answered' = answered + 1
       ELSE UNCHANGED <<done, error, latest, answered>>

(* rethrow_pending: the error of the joined parse ends the frame.          *)
Caught_Lost == FALSE                         \* mutant: it is not thrown on
Caught      == pending \/ (inFlight /\ error)
Throw       == at' = "over" /\ pending' = FALSE

(* publish(): the lists are swapped.                                       *)
Publish ==
  IF unpublished
    THEN front' = Screen(back, result) /\ back' = front.list
    ELSE UNCHANGED <<front, back>>

(* M2Board::vblank_start: a parse, but on odd frames at 30 Hz.             *)
VblankStart ==
  /\ at = "out" /\ phase = "start"
  /\ \/ given < MaxParses /\ at' = "parse" /\ phase' = phase
     \/ frames % 2 = 1 /\ phase' = "end" /\ at' = at
  /\ UNCHANGED <<mode, frames, age, pair, list, thread, start, done, stop, job, count, shown>>

NewAge_Kept == age                           \* mutant: job_age_ is not reset
NewAge      == 0
Begin ==
  /\ given' = given + 1 /\ snapshot' = given + 1
  /\ begunAt' = [begunAt EXCEPT ![given + 1] = frames]
  /\ age' = NewAge /\ pair' = "none"

(* parse(): join the parse before it, ...                                  *)
JoinLast ==
  /\ at = "parse"
  /\ Join /\ inFlight' = FALSE
  /\ IF Caught THEN Throw ELSE at' = "begin" /\ pending' = pending
  /\ UNCHANGED <<mode, phase, frames, age, pair, snapshot, unpublished, front, thread, start,
                 stop, back, result, given, ran, begunAt, bad, shown>>

(* ... pipelined: show it and start the next, ...                          *)
Parse ==
  /\ at = "begin" /\ mode = "pipelined"
  /\ Begin /\ Publish
  /\ inFlight' = TRUE /\ unpublished' = TRUE
  /\ start' = Signal(start)
  /\ at' = "out" /\ phase' = "end"
  /\ UNCHANGED <<mode, frames, pending, latest, thread, done, stop, result, error,
                 ran, answered, bad, shown>>

(* ... or Sync: parse on main and show it at once.                         *)
ParseInline ==
  /\ at = "begin" /\ mode = "sync"
  /\ Begin
  /\ ran' = ran + 1 /\ answered' = answered + 1
  /\ result' = given' /\ latest' = given'
  /\ \/ /\ at' = "out" /\ phase' = "end"
        /\ front' = Screen(List(given', TRUE), given') /\ back' = front.list
        /\ bad' = bad
     \/ /\ at' = "over" /\ phase' = phase
        /\ back' = List(given', FALSE) /\ front' = front
        /\ bad' = bad \cup {given'}
  /\ UNCHANGED <<mode, frames, inFlight, unpublished, pending, thread, start, done, stop,
                 error, shown>>

(* M2Board::vblank_end calls screen_update with list and window count, in  *)
(* either order: the first of the two may take up the parse in flight, the *)
(* list is a reference.                                                    *)
VblankEnd ==
  /\ at = "out" /\ phase = "end"
  /\ at' = "read"
  /\ UNCHANGED <<mode, phase, frames, age, pair, list, thread, start, done, stop, job, count, shown>>

Windows(kind, value) == IF kind = "windows" THEN value ELSE shown.windows

Due        == mode = "pipelined" /\ unpublished /\ age >= 1
ReadNotDue(kind) ==
  /\ at = "read" /\ pair = "none" /\ ~Due
  /\ pair' = kind
  /\ age' = IF mode = "pipelined" /\ unpublished THEN age + 1 ELSE age
  /\ shown' = [shown EXCEPT !.windows = Windows(kind, front.windows)]
  /\ UNCHANGED <<at, mode, phase, frames, list, thread, start, done, stop, job, count>>

ReadDue(kind) ==
  /\ at = "read" /\ pair = "none" /\ Due
  /\ pair' = kind
  /\ Join /\ inFlight' = FALSE
  /\ IF Caught
       THEN Throw /\ UNCHANGED <<front, back, unpublished, shown>>
       ELSE /\ Publish /\ unpublished' = FALSE
            /\ shown' = [shown EXCEPT !.windows = Windows(kind, front'.windows)]
            /\ UNCHANGED <<at, pending>>
  /\ UNCHANGED <<mode, phase, frames, age, snapshot, thread, start, stop, result,
                 given, ran, begunAt, bad>>

ReadSecond(kind) ==
  /\ at = "read" /\ pair \notin {"none", kind}
  /\ pair' = "none"
  /\ shown' = Screen(front.list, Windows(kind, front.windows))
  /\ frames' = frames + 1
  /\ at' = "out" /\ phase' = "start"
  /\ UNCHANGED <<mode, age, list, thread, start, done, stop, job, count>>

Read == \E kind \in {"list", "windows"} : ReadNotDue(kind) \/ ReadDue(kind) \/ ReadSecond(kind)

(* polys.size(): the polygon count register.                               *)
CountRead ==
  /\ at = "out"
  /\ at' = "count"
  /\ UNCHANGED <<mode, phase, frames, age, pair, list, thread, start, done, stop, job, count, shown>>

Counted ==
  /\ at = "count"
  /\ Join /\ inFlight' = FALSE
  /\ IF Caught THEN Throw ELSE at' = "out" /\ pending' = pending
  /\ UNCHANGED <<mode, phase, frames, age, pair, snapshot, unpublished, front, thread, start,
                 stop, back, result, given, ran, begunAt, bad, shown>>

(* set_wide_margin, from M2Board::set_wide_margin: the settings are        *)
(* committed, or the game has just been loaded.  An error stays pending,   *)
(* and the game goes on until a parse, a read that is due or a count read. *)
SetMargin ==
  /\ at = "out" /\ phase = "start"
  /\ at' = "margin"
  /\ UNCHANGED <<mode, phase, frames, age, pair, list, thread, start, done, stop, job, count, shown>>

MarginSet ==
  /\ at = "margin"
  /\ Join /\ inFlight' = FALSE
  /\ pending' = Caught
  /\ at' = "out"
  /\ UNCHANGED <<mode, phase, frames, age, pair, snapshot, unpublished, front, thread, start,
                 stop, back, result, given, ran, begunAt, bad, shown>>

(* The game ends, by choice or after an error: ~Geo joins the parse, drops *)
(* its error and ends the thread.                                          *)
EndGame ==
  /\ at \in {"out", "over"}
  /\ at' = "end"
  /\ UNCHANGED <<mode, phase, frames, age, pair, list, thread, start, done, stop, job, count, shown>>

WakeToStop_Not == start                      \* mutant: the thread is not woken
WakeToStop     == Signal(start)
Destroy ==
  /\ at = "end"
  /\ Join /\ inFlight' = FALSE
  /\ pending' = Caught
  /\ IF thread = "none" THEN at' = "gone" /\ UNCHANGED <<stop, start>>
                        ELSE at' = "ending" /\ stop' = TRUE /\ start' = WakeToStop
  /\ UNCHANGED <<mode, phase, frames, age, pair, snapshot, unpublished, front, thread, back,
                 result, given, ran, begunAt, bad, shown>>

Gone ==
  /\ at = "ending" /\ thread = "ended"
  /\ at' = "gone" /\ thread' = "none"
  /\ UNCHANGED <<mode, phase, frames, age, pair, list, start, done, stop, job, count, shown>>
-----------------------------------------------------------------------------
(* The thread: ready, a parse for each start, the end.                     *)
ThreadBegins ==
  /\ thread = "begin"
  /\ thread' = "idle" /\ done' = Signal(done)
  /\ UNCHANGED <<main, list, start, stop, job, count, shown>>

Take ==
  /\ thread = "idle" /\ start = 1
  /\ start' = 0
  /\ \/ stop /\ thread' = "ended" /\ back' = back
     \/ ~stop /\ thread' = "parse" /\ back' = List(snapshot, FALSE)
  /\ UNCHANGED <<main, list, done, stop, result, error, count, shown>>

RunJob ==
  /\ thread = "parse"
  /\ thread' = "post"
  /\ ran' = ran + 1 /\ result' = snapshot
  /\ \/ back' = List(snapshot, TRUE) /\ UNCHANGED <<error, bad>>
     \/ error' = TRUE /\ bad' = bad \cup {snapshot} /\ back' = back
  /\ UNCHANGED <<main, list, start, done, stop, given, answered, begunAt, shown>>

Post ==
  /\ thread = "post"
  /\ thread' = "idle" /\ done' = Signal(done)
  /\ UNCHANGED <<main, list, start, stop, job, count, shown>>
-----------------------------------------------------------------------------
Call   == VblankStart \/ VblankEnd \/ CountRead \/ SetMargin \/ EndGame
Main   == Configure \/ Configured \/ JoinLast \/ Parse \/ ParseInline
            \/ Read \/ Counted \/ MarginSet \/ Destroy \/ Gone
Thread == ThreadBegins \/ Take \/ RunJob \/ Post
Next   == Call \/ Main \/ Thread

Spec == Init /\ [][Next]_vars

(* The kernel runs a thread that can run, and a parse ends.                *)
FairSpec == Spec /\ WF_vars(Main) /\ WF_vars(Thread)
-----------------------------------------------------------------------------
Lists   == [parse : 0 .. MaxParses, whole : BOOLEAN]
Screens == [list : Lists, windows : 0 .. MaxParses]

TypeOK ==
  /\ at \in {"new", "starting", "out", "parse", "begin", "read", "count", "margin",
            "over", "end", "ending", "gone"}
  /\ mode \in {"sync", "pipelined"} /\ phase \in {"start", "end"} /\ frames \in Nat
  /\ age \in 0 .. 1 /\ pair \in {"none", "list", "windows"}
  /\ inFlight \in BOOLEAN /\ unpublished \in BOOLEAN /\ pending \in BOOLEAN
  /\ snapshot \in 0 .. MaxParses /\ latest \in 0 .. MaxParses
  /\ thread \in {"none", "begin", "idle", "parse", "post", "ended"}
  /\ start \in 0 .. 1 /\ done \in 0 .. 1 /\ stop \in BOOLEAN
  /\ back \in Lists /\ result \in 0 .. MaxParses /\ error \in BOOLEAN
  /\ given \in 0 .. MaxParses /\ ran \in 0 .. MaxParses /\ answered \in 0 .. MaxParses
  /\ begunAt \in [1 .. MaxParses -> Nat] /\ bad \subseteq 1 .. MaxParses
  /\ front \in Screens /\ shown \in Screens

(* A frame shows the newest list that was begun before the frame before    *)
(* ended (without a thread: the newest), all of it, with the window count  *)
(* of that list; a list that was not parsed to its end is never shown.     *)
Late == IF mode = "pipelined" THEN 2 ELSE 1
ToShow == {p \in 1 .. given : begunAt[p] + Late <= frames}
PictureIsNewest ==
  at = "out" /\ phase = "start" =>
     /\ shown.list.whole /\ shown.windows = shown.list.parse
     /\ shown.list.parse \in ToShow \cup {0}
     /\ \A p \in ToShow : p <= shown.list.parse

(* What a count read returns is the count of the newest parse.             *)
CountIsNewest == at = "count" /\ at' = "out" => latest' = given

(* GEO_ASYNC.md: "the picture is the exact one, one frame late", at 30 Hz  *)
(* "the list is shown from the frame after its parse", while "the polygon  *)
(* count register still reports the newest parse".                         *)
OneFrameLate == [][PictureIsNewest /\ CountIsNewest]_vars

(* "Only touched by the parse while it runs": from the start of a parse to *)
(* its end main changes neither the snapshot nor either list.              *)
Undisturbed ==
  [][start = 1 \/ thread = "parse" =>
       snapshot' = snapshot /\ front' = front /\ (back' = back \/ thread' # thread)]_vars

(* An error of a parse ends the game before the next list is begun, also   *)
(* when the call that joined it left it pending: no later parse builds on  *)
(* the state it left, and what there is is a state of the board.           *)
NothingAfterError == TypeOK /\ bad \subseteq {given}

(* Every call of the board and the end of the game come back.              *)
CallsReturn == at \notin {"out", "over", "gone"} ~> at \in {"out", "over", "gone"}

Handed == INSTANCE Handoff

(* One parse at a time, run once and in order, joined after it ran.        *)
OneParseAtATime == Handed!Spec
=============================================================================

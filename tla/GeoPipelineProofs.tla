------------------------- MODULE GeoPipelineProofs -------------------------
(***************************************************************************)
(* What GeoPipeline's runs check, for every number of parses: GeoInv is    *)
(* inductive as it stands.  It names, for each place main can be at, where *)
(* the parse in flight is (Stage) and which list the two buffers hold      *)
(* (ListsFit); OneFrameLate adds when each list was begun (TimesFit).      *)
(* A lemma for each action, then the theorems.                             *)
(***************************************************************************)
EXTENDS GeoPipeline, TLAPS

(* The game is over, or a blank and the place in it fit together.          *)
Over == at \in {"over", "end", "ending", "gone"}
PlaceFits ==
  /\ at \in {"new", "starting", "parse", "begin", "margin"} => phase = "start"
  /\ at = "read" => phase = "end"
  /\ pair # "none" => at = "read" \/ Over
  /\ at \in {"parse", "begin"} => given < MaxParses
  /\ at \in {"begin", "ending", "gone"} => ~inFlight
  /\ at \in {"new", "starting"} => given = 0

(* The thread is there from configure to the end, and without a parse in   *)
(* flight it sleeps; done is up once for its beginning.                    *)
ThreadFits ==
  /\ mode = "sync" => thread = "none" /\ at \notin {"starting", "ending"}
                      /\ ~inFlight /\ ~unpublished
  /\ mode = "pipelined" => (thread = "none" <=> at = "gone") /\ at # "new"
  /\ stop => at \in {"ending", "gone"}
  /\ thread = "begin" => at = "starting"
  /\ at = "starting" => thread \in {"begin", "idle"} /\ start = 0
                        /\ done = (IF thread = "begin" THEN 0 ELSE 1)
  /\ at = "ending" => stop /\ thread \in {"idle", "ended"} /\ done = 0
                      /\ start = (IF thread = "idle" THEN 1 ELSE 0)
  /\ ~inFlight /\ at \notin {"starting", "ending"} =>
       thread \in {"none", "idle"} /\ start = 0 /\ done = 0

(* A parse in flight is at one place: asked for, run, over, or answered.   *)
Stage ==
  \/ start = 1 /\ thread = "idle"  /\ done = 0 /\ ran = answered
  \/ start = 0 /\ thread = "parse" /\ done = 0 /\ ran = answered
  \/ start = 0 /\ thread = "post"  /\ done = 0 /\ ran = given
  \/ start = 0 /\ thread = "idle"  /\ done = 1 /\ ran = given
JobFits ==
  /\ given = answered + (IF inFlight THEN 1 ELSE 0)
  /\ IF inFlight THEN Stage /\ unpublished ELSE ran = given
  /\ snapshot = given /\ latest = answered
  /\ ran = given => result = given

(* An error is of the last parse; it waits for a join, a join has left it  *)
(* pending with the list unpublished, or the game is over.                 *)
ErrorFits ==
  /\ bad \subseteq {given} \ {0}
  /\ error => inFlight /\ ran = given
  /\ pending => unpublished /\ ~inFlight /\ at # "begin"
  /\ bad # {} => ran = given /\ (error \/ pending \/ Over)

(* Of the lists, the one that is shown is the last or the one before it,   *)
(* and the last, once it is there, is the other.                           *)
ListsFit ==
  /\ unpublished => given > 0
  /\ front = LET p == IF unpublished \/ bad # {} THEN given - 1 ELSE given
             IN  Screen(List(p, TRUE), p)
  /\ unpublished /\ ran = given /\ bad = {} => back = List(given, TRUE)
  /\ phase = "start" => shown = front
  /\ pair = "windows" /\ at = "read" => shown.windows = front.windows

(* When the last list was begun: in this frame, or in the one before, or   *)
(* it is shown; no two in one frame.                                       *)
TimesFit ==
  ~Over /\ given > 0 =>
    /\ given > 1 => begunAt[given - 1] < begunAt[given]
    /\ mode = "sync" => begunAt[given] + (IF phase = "end" THEN 0 ELSE 1) <= frames
    /\ mode = "pipelined" /\ ~unpublished =>
         begunAt[given] + (IF phase = "end" THEN 1 ELSE 2) <= frames
    /\ unpublished =>
         /\ begunAt[given] + (IF phase = "start" THEN 1 ELSE IF pair = "none" THEN age ELSE 0)
              = frames
         /\ phase = "start" \/ pair # "none" => age = 1

GeoInv == TypeOK /\ PlaceFits /\ ThreadFits /\ JobFits /\ ErrorFits /\ ListsFit /\ TimesFit

(* What List makes is a list. *)
LEMMA ListIn == \A p \in 0 .. MaxParses, w \in BOOLEAN : List(p, w) \in Lists
BY DEF List, Lists

(* wait() in a call of main: the parse begun last is over and answered, the thread *)
(* sleeps, no signal is left, and what it threw is in main's hands.                *)
LEMMA Joined ==
  ASSUME GeoInv, at \in {"parse", "read", "count", "margin", "end"}, Join
  PROVE  /\ thread \in {"none", "idle"} /\ start = 0 /\ done' = 0
         /\ ran = given /\ result = given /\ answered' = given
         /\ error' = FALSE /\ latest' = given
         /\ at # "end" /\ ~Caught => bad = {}
         /\ ~stop
<1>1. CASE inFlight
  BY <1>1 DEF GeoInv, TypeOK, PlaceFits, ThreadFits, JobFits, Stage, ErrorFits, Over, Join,
     Joinable, Caught
<1>2. CASE ~inFlight
  BY <1>2 DEF GeoInv, TypeOK, PlaceFits, ThreadFits, JobFits, ErrorFits, Over, Join, Joinable,
     Caught
<1> QED
  BY <1>1, <1>2

(* Each action keeps the invariant; configure, without a thread or with one that has to begin. *)
LEMMA ConfigureKeeps ==
  ASSUME GeoInv, Configure
  PROVE  GeoInv'
<1>1. TypeOK'
  BY DEF GeoInv, list, job, count, Configure, TypeOK
<1>2. PlaceFits'
  BY DEF GeoInv, list, job, count, Configure, Over, PlaceFits
<1>3. ThreadFits'
  BY DEF GeoInv, list, job, count, Configure, ThreadFits, TypeOK
<1>4. JobFits'
  BY DEF GeoInv, list, job, count, Configure, JobFits, PlaceFits, TypeOK
<1>5. ErrorFits'
  BY DEF GeoInv, list, job, count, Configure, ErrorFits, PlaceFits
<1>6. ListsFit'
  BY DEF GeoInv, list, job, count, Configure, ListsFit
<1>7. TimesFit'
  BY DEF GeoInv, list, job, count, Configure, PlaceFits, TimesFit
<1> QED
  BY <1>1, <1>2, <1>3, <1>4, <1>5, <1>6, <1>7 DEF GeoInv

(* done is taken once the thread has begun. *)
LEMMA ConfiguredKeeps ==
  ASSUME GeoInv, Configured
  PROVE  GeoInv'
<1>1. TypeOK'
  BY DEF GeoInv, list, job, count, Configured, Begun, TypeOK
<1>2. PlaceFits'
  BY DEF GeoInv, list, job, count, Configured, Begun, Over, PlaceFits
<1>3. ThreadFits'
  BY DEF GeoInv, list, job, count, Configured, Begun, ThreadFits
<1>4. JobFits'
  BY DEF GeoInv, list, job, count, Configured, Begun, JobFits, PlaceFits, TypeOK
<1>5. ErrorFits'
  BY DEF GeoInv, list, job, count, Configured, Begun, ErrorFits, PlaceFits
<1>6. ListsFit'
  BY DEF GeoInv, list, job, count, Configured, Begun, ListsFit
<1>7. TimesFit'
  BY DEF GeoInv, list, job, count, Configured, Begun, PlaceFits, TimesFit
<1> QED
  BY <1>1, <1>2, <1>3, <1>4, <1>5, <1>6, <1>7 DEF GeoInv

(* A blank with a parse or, on an odd frame, without. *)
LEMMA VblankStartKeeps ==
  ASSUME GeoInv, VblankStart
  PROVE  GeoInv'
<1>1. TypeOK'
  BY DEF GeoInv, list, job, count, VblankStart, TypeOK
<1>2. PlaceFits'
  BY DEF GeoInv, list, job, count, VblankStart, Over, PlaceFits
<1>3. ThreadFits'
  BY DEF GeoInv, list, job, count, VblankStart, ThreadFits
<1>4. JobFits'
  BY DEF GeoInv, list, job, count, VblankStart, JobFits, Stage
<1>5. ErrorFits'
  BY DEF GeoInv, list, job, count, VblankStart, ErrorFits, Over
<1>6. ListsFit'
  BY DEF GeoInv, list, job, count, VblankStart, ListsFit
<1>7. TimesFit'
  BY DEF GeoInv, list, job, count, VblankStart, JobFits, Over, PlaceFits, TimesFit, TypeOK
<1> QED
  BY <1>1, <1>2, <1>3, <1>4, <1>5, <1>6, <1>7 DEF GeoInv

(* The parse before is joined, and an error ends the game before the next begins. *)
LEMMA JoinLastKeeps ==
  ASSUME GeoInv, JoinLast
  PROVE  GeoInv'
<1>1. TypeOK'
  <2>1. /\ done' \in 0 .. 1 /\ error' \in BOOLEAN
        /\ latest' \in 0 .. MaxParses /\ answered' \in 0 .. MaxParses
    BY Joined DEF GeoInv, TypeOK, JoinLast
  <2>2. pending' \in BOOLEAN /\ at' \in {"over", "begin"}
    BY Zenon DEF GeoInv, TypeOK, JoinLast, Throw
  <2>3. UNCHANGED <<mode, phase, frames, age, pair, snapshot, unpublished, front, thread, start,
                    stop, back, result, given, ran, begunAt, bad, shown>> /\ inFlight' = FALSE
    BY DEF JoinLast
  <2>4. QED
    BY <2>1, <2>2, <2>3, ZenonT(30) DEF GeoInv, TypeOK
<1>2. PlaceFits'
  BY DEF GeoInv, JoinLast, Caught, Throw, Over, PlaceFits
<1>3. ThreadFits'
  BY Joined DEF GeoInv, JoinLast, Caught, Throw, ThreadFits
<1>4. JobFits'
  <2>1. answered' = given /\ latest' = given /\ ran = given /\ result = given
    BY Joined DEF GeoInv, JoinLast
  <2>2. QED
    BY <2>1 DEF GeoInv, JobFits, JoinLast
<1>5. ErrorFits'
  BY Joined DEF GeoInv, JoinLast, Caught, Throw, ErrorFits, Over
<1>6. ListsFit'
  BY DEF GeoInv, JoinLast, Caught, Throw, ListsFit
<1>7. TimesFit'
  BY DEF GeoInv, JoinLast, Caught, Throw, Over, TimesFit
<1> QED
  BY <1>1, <1>2, <1>3, <1>4, <1>5, <1>6, <1>7 DEF GeoInv

(* Only a joined parse is at "begin": its list is whole, and it is swapped in before *)
(* the next one is handed over.                                                      *)
LEMMA ParseKeeps ==
  ASSUME GeoInv, Parse
  PROVE  GeoInv'
<1>1. TypeOK'
  <2>1. given + 1 \in 1 .. MaxParses
    BY MaxParsesAssumption DEF GeoInv, TypeOK, PlaceFits, Parse
  <2>2. begunAt' \in [1 .. MaxParses -> Nat]
    BY DEF GeoInv, TypeOK, Parse, Begin
  <2>3. front' \in Screens /\ back' \in Lists
    BY DEF GeoInv, TypeOK, Parse, Publish, Screens, Screen
  <2>4. QED
    BY <2>2, <2>3 DEF GeoInv, TypeOK, Parse, Begin, NewAge, Signal
<1>2. PlaceFits'
  BY DEF GeoInv, list, Parse, Begin, NewAge, Publish, Signal, PlaceFits, Screen
<1>3. ThreadFits'
  BY DEF GeoInv, list, Parse, Begin, NewAge, Publish, Signal, Screen, ThreadFits
<1>4. JobFits'
  BY DEF GeoInv, list, Parse, Begin, NewAge, Publish, Signal, JobFits, PlaceFits, Screen, Stage,
     ThreadFits, TypeOK
<1>5. ErrorFits'
  BY DEF GeoInv, list, Parse, Begin, NewAge, Publish, Signal, ErrorFits, Over, PlaceFits, Screen
<1>6. ListsFit'
  BY DEF GeoInv, list, Parse, Begin, NewAge, Publish, Signal, ErrorFits, JobFits, List,
     ListsFit, Over, PlaceFits, Screen, TypeOK
<1>7. TimesFit'
  BY MaxParsesAssumption DEF GeoInv, list, Parse, Begin, NewAge, Publish, Signal, Over,
     PlaceFits, Screen, TimesFit, TypeOK
<1> QED
  BY <1>1, <1>2, <1>3, <1>4, <1>5, <1>6, <1>7 DEF GeoInv

(* Without a thread the list is shown at once, and that of a parse that throws never. *)
LEMMA ParseInlineKeeps ==
  ASSUME GeoInv, ParseInline
  PROVE  GeoInv'
<1>1. TypeOK'
  <2>1. given + 1 \in 1 .. MaxParses
    BY MaxParsesAssumption DEF GeoInv, TypeOK, PlaceFits, ParseInline
  <2>2. begunAt' \in [1 .. MaxParses -> Nat]
    BY DEF GeoInv, TypeOK, ParseInline, Begin
  <2>3. given' \in 1 .. MaxParses /\ ran' \in 0 .. MaxParses /\ answered' \in 0 .. MaxParses
    BY <2>1 DEF GeoInv, TypeOK, PlaceFits, JobFits, ParseInline, Begin
  <2>4. snapshot' = given' /\ result' = given' /\ latest' = given' /\ age' = 0 /\ pair' = "none"
    BY DEF ParseInline, Begin, NewAge
  <2>5. bad' \subseteq 1 .. MaxParses
    BY <2>3 DEF GeoInv, TypeOK, ParseInline
  <2>6. given' \in 0 .. MaxParses
    BY <2>3
  <2>7. List(given', TRUE) \in Lists /\ List(given', FALSE) \in Lists
    BY <2>6, ListIn, Zenon
  <2>8. front.list \in Lists
    BY DEF GeoInv, TypeOK, Screens
  <2>9. Screen(List(given', TRUE), given') \in Screens
    BY <2>6, <2>7 DEF Screens, Screen
  <2>10. back' \in Lists /\ front' \in Screens
    BY <2>7, <2>8, <2>9 DEF GeoInv, TypeOK, ParseInline
  <2>11. at' \in {"out", "over"} /\ phase' \in {"start", "end"}
    BY DEF GeoInv, TypeOK, ParseInline
  <2>12. QED
    BY <2>2, <2>3, <2>4, <2>5, <2>10, <2>11 DEF GeoInv, TypeOK, ParseInline
<1>2. PlaceFits'
  BY DEF GeoInv, list, ParseInline, Begin, NewAge, List, PlaceFits, Screen
<1>3. ThreadFits'
  BY DEF GeoInv, list, ParseInline, Begin, NewAge, List, Screen, ThreadFits
<1>4. JobFits'
  BY DEF GeoInv, list, ParseInline, Begin, NewAge, JobFits, List, PlaceFits, Screen, TypeOK
<1>5. ErrorFits'
  BY DEF GeoInv, list, ParseInline, Begin, NewAge, ErrorFits, JobFits, List, Over, PlaceFits,
     Screen, TypeOK
<1>6. ListsFit'
  <2>1. mode = "sync" /\ pair = "none" /\ ~unpublished /\ ran = given /\ bad = {} /\ given \in Nat
    BY DEF GeoInv, TypeOK, ParseInline, ThreadFits, PlaceFits, JobFits, ErrorFits, Over
  <2>2. CASE /\ at' = "out" /\ phase' = "end" /\ bad' = bad
             /\ front' = Screen(List(given', TRUE), given')
    BY <2>1, <2>2 DEF ParseInline, Begin, ListsFit
  <2>3. CASE at' = "over" /\ phase' = phase /\ front' = front /\ bad' = bad \cup {given'}
    <3>1. /\ given' = given + 1 /\ given' - 1 = given /\ bad' # {}
          /\ unpublished' = FALSE /\ pair' = "none" /\ shown' = shown
      BY <2>1, <2>3 DEF ParseInline, Begin
    <3>2. QED
      BY <2>1, <2>3, <3>1 DEF GeoInv, ListsFit
  <2>4. QED
    BY <2>2, <2>3 DEF ParseInline
<1>7. TimesFit'
  BY MaxParsesAssumption DEF GeoInv, list, ParseInline, Begin, NewAge, List, Over, PlaceFits,
     Screen, TimesFit, TypeOK
<1> QED
  BY <1>1, <1>2, <1>3, <1>4, <1>5, <1>6, <1>7 DEF GeoInv

(* The blank ends with the two reads. *)
LEMMA VblankEndKeeps ==
  ASSUME GeoInv, VblankEnd
  PROVE  GeoInv'
<1>1. TypeOK'
  BY DEF GeoInv, list, job, count, VblankEnd, TypeOK
<1>2. PlaceFits'
  BY DEF GeoInv, list, job, count, VblankEnd, PlaceFits
<1>3. ThreadFits'
  BY DEF GeoInv, list, job, count, VblankEnd, ThreadFits
<1>4. JobFits'
  BY DEF GeoInv, list, job, count, VblankEnd, JobFits, Stage
<1>5. ErrorFits'
  BY DEF GeoInv, list, job, count, VblankEnd, ErrorFits, Over
<1>6. ListsFit'
  BY DEF GeoInv, list, job, count, VblankEnd, ListsFit, Over, PlaceFits
<1>7. TimesFit'
  BY DEF GeoInv, list, job, count, VblankEnd, Over, TimesFit
<1> QED
  BY <1>1, <1>2, <1>3, <1>4, <1>5, <1>6, <1>7 DEF GeoInv

(* The first read of a frame that has its list already, or whose list has to age. *)
LEMMA ReadNotDueKeeps ==
  ASSUME GeoInv, NEW kind \in {"list", "windows"}, ReadNotDue(kind)
  PROVE  GeoInv'
<1>1. TypeOK'
  <2>1. shown' \in Screens
    BY DEF GeoInv, TypeOK, ReadNotDue, Windows, Screens
  <2>2. age' \in 0 .. 1
    BY DEF GeoInv, TypeOK, ReadNotDue, Due
  <2>3. QED
    BY <2>1, <2>2 DEF GeoInv, TypeOK, ReadNotDue, list, job, count
<1>2. PlaceFits'
  BY DEF GeoInv, list, job, count, ReadNotDue, Due, Windows, PlaceFits
<1>3. ThreadFits'
  BY DEF GeoInv, list, job, count, ReadNotDue, Due, Windows, ThreadFits
<1>4. JobFits'
  BY DEF GeoInv, list, job, count, ReadNotDue, Due, Windows, JobFits, Stage
<1>5. ErrorFits'
  BY DEF GeoInv, list, job, count, ReadNotDue, Due, Windows, ErrorFits, Over
<1>6. ListsFit'
  BY DEF GeoInv, list, job, count, ReadNotDue, Due, Windows, ListsFit, Screens, TypeOK
<1>7. TimesFit'
  BY DEF GeoInv, list, job, count, ReadNotDue, Due, Windows, Over, ThreadFits, TimesFit, TypeOK
<1> QED
  BY <1>1, <1>2, <1>3, <1>4, <1>5, <1>6, <1>7 DEF GeoInv

(* The first read that is due joins the parse and swaps its list in. *)
LEMMA ReadDueKeeps ==
  ASSUME GeoInv, NEW kind \in {"list", "windows"}, ReadDue(kind)
  PROVE  GeoInv'
<1>1. TypeOK'
  <2>1. front' \in Screens /\ back' \in Lists
    BY DEF GeoInv, TypeOK, ReadDue, Publish, Screens, Screen
  <2>2. shown' \in Screens
    BY <2>1 DEF GeoInv, TypeOK, ReadDue, Windows, Screens
  <2>3. /\ done' \in 0 .. 1 /\ error' \in BOOLEAN
        /\ latest' \in 0 .. MaxParses /\ answered' \in 0 .. MaxParses
    BY Joined DEF GeoInv, TypeOK, ReadDue
  <2>4. QED
    BY <2>1, <2>2, <2>3 DEF GeoInv, TypeOK, ReadDue, Throw
<1>2. PlaceFits'
  BY DEF GeoInv, list, ReadDue, Due, Windows, Caught, Throw, Publish, Over, PlaceFits, Screen
<1>3. ThreadFits'
  BY Joined DEF GeoInv, list, ReadDue, Due, Windows, Caught, Throw, Publish, Screen, ThreadFits
<1>4. JobFits'
  <2>1. answered' = given /\ latest' = given /\ ran = given /\ result = given
    BY Joined DEF GeoInv, ReadDue
  <2>2. QED
    BY <2>1 DEF GeoInv, TypeOK, JobFits, ReadDue
<1>5. ErrorFits'
  BY Joined DEF GeoInv, list, ReadDue, Due, Windows, Caught, Throw, Publish, ErrorFits, Over,
     Screen
<1>6. ListsFit'
  BY Joined DEF GeoInv, list, ReadDue, Due, Windows, Caught, Throw, Publish, ListsFit,
     PlaceFits, Screen, Screens, TypeOK
<1>7. TimesFit'
  <2>1. ~Caught => unpublished' = FALSE /\ at' = "read"
    BY DEF ReadDue
  <2>2. Caught => at' = "over"
    BY DEF ReadDue, Throw
  <2>3. /\ given' = given /\ begunAt' = begunAt /\ frames' = frames
        /\ phase' = phase /\ age' = age /\ mode' = mode
    BY DEF ReadDue
  <2>4. unpublished /\ age = 1 /\ pair = "none" /\ phase = "end" /\ at = "read"
    BY DEF ReadDue, Due, GeoInv, TypeOK, PlaceFits
  <2>5. QED
    BY <2>1, <2>2, <2>3, <2>4 DEF GeoInv, TypeOK, TimesFit, Over
<1> QED
  BY <1>1, <1>2, <1>3, <1>4, <1>5, <1>6, <1>7 DEF GeoInv

(* The second read of the same frame is of the same list. *)
LEMMA ReadSecondKeeps ==
  ASSUME GeoInv, NEW kind \in {"list", "windows"}, ReadSecond(kind)
  PROVE  GeoInv'
<1>1. TypeOK'
  BY DEF GeoInv, list, job, count, ReadSecond, Windows, List, Screen, Screens, TypeOK
<1>2. PlaceFits'
  BY DEF GeoInv, list, job, count, ReadSecond, Windows, PlaceFits, Screen
<1>3. ThreadFits'
  BY DEF GeoInv, list, job, count, ReadSecond, Windows, Screen, ThreadFits
<1>4. JobFits'
  BY DEF GeoInv, list, job, count, ReadSecond, Windows, JobFits, Screen, Stage
<1>5. ErrorFits'
  BY DEF GeoInv, list, job, count, ReadSecond, Windows, ErrorFits, Over, Screen
<1>6. ListsFit'
  BY DEF GeoInv, list, job, count, ReadSecond, Windows, ListsFit, Screen, TypeOK
<1>7. TimesFit'
  BY MaxParsesAssumption DEF GeoInv, list, job, count, ReadSecond, Windows, Over, PlaceFits,
     Screen, TimesFit, TypeOK
<1> QED
  BY <1>1, <1>2, <1>3, <1>4, <1>5, <1>6, <1>7 DEF GeoInv

(* The polygon count is read. *)
LEMMA CountReadKeeps ==
  ASSUME GeoInv, CountRead
  PROVE  GeoInv'
<1>1. TypeOK'
  BY DEF GeoInv, list, job, count, CountRead, TypeOK
<1>2. PlaceFits'
  BY DEF GeoInv, list, job, count, CountRead, Over, PlaceFits
<1>3. ThreadFits'
  BY DEF GeoInv, list, job, count, CountRead, ThreadFits
<1>4. JobFits'
  BY DEF GeoInv, list, job, count, CountRead, JobFits, Stage
<1>5. ErrorFits'
  BY DEF GeoInv, list, job, count, CountRead, ErrorFits, Over
<1>6. ListsFit'
  BY DEF GeoInv, list, job, count, CountRead, ListsFit
<1>7. TimesFit'
  BY DEF GeoInv, list, job, count, CountRead, Over, TimesFit
<1> QED
  BY <1>1, <1>2, <1>3, <1>4, <1>5, <1>6, <1>7 DEF GeoInv

(* It joins the parse, but shows nothing. *)
LEMMA CountedKeeps ==
  ASSUME GeoInv, Counted
  PROVE  GeoInv'
<1>1. TypeOK'
  <2>1. /\ done' \in 0 .. 1 /\ error' \in BOOLEAN
        /\ latest' \in 0 .. MaxParses /\ answered' \in 0 .. MaxParses
    BY Joined DEF GeoInv, TypeOK, Counted
  <2>2. pending' \in BOOLEAN /\ at' \in {"over", "out"}
    BY Zenon DEF GeoInv, TypeOK, Counted, Throw
  <2>3. UNCHANGED <<mode, phase, frames, age, pair, snapshot, unpublished, front, thread, start,
                    stop, back, result, given, ran, begunAt, bad, shown>> /\ inFlight' = FALSE
    BY DEF Counted
  <2>4. QED
    BY <2>1, <2>2, <2>3, ZenonT(30) DEF GeoInv, TypeOK
<1>2. PlaceFits'
  BY DEF GeoInv, count, Counted, Caught, Throw, Over, PlaceFits
<1>3. ThreadFits'
  BY Joined DEF GeoInv, count, Counted, Caught, Throw, ThreadFits
<1>4. JobFits'
  <2>1. answered' = given /\ latest' = given /\ ran = given /\ result = given
    BY Joined DEF GeoInv, Counted
  <2>2. QED
    BY <2>1 DEF GeoInv, JobFits, Counted
<1>5. ErrorFits'
  BY Joined DEF GeoInv, count, Counted, Caught, Throw, ErrorFits, Over
<1>6. ListsFit'
  BY DEF GeoInv, count, Counted, Caught, Throw, ListsFit
<1>7. TimesFit'
  BY DEF GeoInv, count, Counted, Caught, Throw, Over, TimesFit
<1> QED
  BY <1>1, <1>2, <1>3, <1>4, <1>5, <1>6, <1>7 DEF GeoInv

(* Settings are committed. *)
LEMMA SetMarginKeeps ==
  ASSUME GeoInv, SetMargin
  PROVE  GeoInv'
<1>1. TypeOK'
  BY DEF GeoInv, list, job, count, SetMargin, TypeOK
<1>2. PlaceFits'
  BY DEF GeoInv, list, job, count, SetMargin, Over, PlaceFits
<1>3. ThreadFits'
  BY DEF GeoInv, list, job, count, SetMargin, ThreadFits
<1>4. JobFits'
  BY DEF GeoInv, list, job, count, SetMargin, JobFits, Stage
<1>5. ErrorFits'
  BY DEF GeoInv, list, job, count, SetMargin, ErrorFits, Over
<1>6. ListsFit'
  BY DEF GeoInv, list, job, count, SetMargin, ListsFit
<1>7. TimesFit'
  BY DEF GeoInv, list, job, count, SetMargin, Over, TimesFit
<1> QED
  BY <1>1, <1>2, <1>3, <1>4, <1>5, <1>6, <1>7 DEF GeoInv

(* It joins the parse and keeps its error. *)
LEMMA MarginSetKeeps ==
  ASSUME GeoInv, MarginSet
  PROVE  GeoInv'
<1>1. TypeOK'
  <2>1. /\ done' \in 0 .. 1 /\ error' \in BOOLEAN
        /\ latest' \in 0 .. MaxParses /\ answered' \in 0 .. MaxParses
    BY Joined DEF GeoInv, TypeOK, MarginSet
  <2>2. pending' \in BOOLEAN /\ at' = "out"
    BY Zenon DEF GeoInv, TypeOK, MarginSet, Caught
  <2>3. UNCHANGED <<mode, phase, frames, age, pair, snapshot, unpublished, front, thread, start,
                    stop, back, result, given, ran, begunAt, bad, shown>> /\ inFlight' = FALSE
    BY DEF MarginSet
  <2>4. QED
    BY <2>1, <2>2, <2>3, ZenonT(30) DEF GeoInv, TypeOK
<1>2. PlaceFits'
  BY DEF GeoInv, count, MarginSet, Caught, Over, PlaceFits
<1>3. ThreadFits'
  BY Joined DEF GeoInv, count, MarginSet, Caught, ThreadFits
<1>4. JobFits'
  <2>1. answered' = given /\ latest' = given /\ ran = given /\ result = given
    BY Joined DEF GeoInv, MarginSet
  <2>2. QED
    BY <2>1 DEF GeoInv, JobFits, MarginSet
<1>5. ErrorFits'
  BY Joined DEF GeoInv, count, MarginSet, Caught, ErrorFits, JobFits, Over
<1>6. ListsFit'
  BY DEF GeoInv, count, MarginSet, Caught, ListsFit
<1>7. TimesFit'
  BY DEF GeoInv, count, MarginSet, Caught, Over, TimesFit
<1> QED
  BY <1>1, <1>2, <1>3, <1>4, <1>5, <1>6, <1>7 DEF GeoInv

(* The game ends between two calls, or by an error. *)
LEMMA EndGameKeeps ==
  ASSUME GeoInv, EndGame
  PROVE  GeoInv'
<1>1. TypeOK'
  BY DEF GeoInv, list, job, count, EndGame, TypeOK
<1>2. PlaceFits'
  BY DEF GeoInv, list, job, count, EndGame, Over, PlaceFits
<1>3. ThreadFits'
  BY DEF GeoInv, list, job, count, EndGame, ThreadFits
<1>4. JobFits'
  BY DEF GeoInv, list, job, count, EndGame, JobFits, Stage
<1>5. ErrorFits'
  BY DEF GeoInv, list, job, count, EndGame, ErrorFits, Over
<1>6. ListsFit'
  BY DEF GeoInv, list, job, count, EndGame, ListsFit
<1>7. TimesFit'
  BY DEF GeoInv, list, job, count, EndGame, Over, TimesFit
<1> QED
  BY <1>1, <1>2, <1>3, <1>4, <1>5, <1>6, <1>7 DEF GeoInv

(* The destructor joins, then wakes the thread to stop. *)
LEMMA DestroyKeeps ==
  ASSUME GeoInv, Destroy
  PROVE  GeoInv'
<1>1. TypeOK'
  <2>1. /\ done' \in 0 .. 1 /\ error' \in BOOLEAN
        /\ latest' \in 0 .. MaxParses /\ answered' \in 0 .. MaxParses
    BY Joined DEF GeoInv, TypeOK, Destroy
  <2>2. pending' \in BOOLEAN
    BY Zenon DEF GeoInv, TypeOK, Destroy, Caught
  <2>3. stop' \in BOOLEAN /\ at' \in {"gone", "ending"}
    BY Zenon DEF GeoInv, TypeOK, Destroy
  <2>4. start' \in 0 .. 1
    BY DEF GeoInv, TypeOK, Destroy, WakeToStop, Signal
  <2>5. QED
    BY <2>1, <2>2, <2>4 DEF GeoInv, TypeOK, Destroy
<1>2. PlaceFits'
  BY DEF GeoInv, Destroy, Caught, WakeToStop, Signal, Over, PlaceFits
<1>3. ThreadFits'
  BY Joined DEF GeoInv, Destroy, Caught, WakeToStop, Signal, ThreadFits
<1>4. JobFits'
  <2>1. answered' = given /\ latest' = given /\ ran = given /\ result = given
    BY Joined DEF GeoInv, Destroy
  <2>2. QED
    BY <2>1 DEF GeoInv, JobFits, Destroy
<1>5. ErrorFits'
  BY Joined DEF GeoInv, Destroy, Caught, WakeToStop, Signal, ErrorFits, JobFits, Over
<1>6. ListsFit'
  BY DEF GeoInv, Destroy, Caught, WakeToStop, Signal, ListsFit
<1>7. TimesFit'
  BY DEF GeoInv, Destroy, Caught, WakeToStop, Signal, Over, TimesFit
<1> QED
  BY <1>1, <1>2, <1>3, <1>4, <1>5, <1>6, <1>7 DEF GeoInv

(* The thread is joined. *)
LEMMA GoneKeeps ==
  ASSUME GeoInv, Gone
  PROVE  GeoInv'
<1>1. TypeOK'
  BY DEF GeoInv, list, job, count, Gone, TypeOK
<1>2. PlaceFits'
  BY DEF GeoInv, list, job, count, Gone, Over, PlaceFits
<1>3. ThreadFits'
  BY DEF GeoInv, list, job, count, Gone, ThreadFits
<1>4. JobFits'
  BY DEF GeoInv, list, job, count, Gone, JobFits, PlaceFits
<1>5. ErrorFits'
  BY DEF GeoInv, list, job, count, Gone, ErrorFits, Over
<1>6. ListsFit'
  BY DEF GeoInv, list, job, count, Gone, ListsFit
<1>7. TimesFit'
  BY DEF GeoInv, list, job, count, Gone, Over, TimesFit
<1> QED
  BY <1>1, <1>2, <1>3, <1>4, <1>5, <1>6, <1>7 DEF GeoInv

(* The thread signals that it is there. *)
LEMMA ThreadBeginsKeeps ==
  ASSUME GeoInv, ThreadBegins
  PROVE  GeoInv'
<1>1. TypeOK'
  BY DEF GeoInv, main, list, job, count, ThreadBegins, Signal, TypeOK
<1>2. PlaceFits'
  BY DEF GeoInv, main, list, job, count, ThreadBegins, Signal, Over, PlaceFits
<1>3. ThreadFits'
  BY DEF GeoInv, main, list, job, count, ThreadBegins, Signal, ThreadFits
<1>4. JobFits'
  BY DEF GeoInv, main, list, job, count, ThreadBegins, Signal, JobFits, PlaceFits, ThreadFits,
     TypeOK
<1>5. ErrorFits'
  BY DEF GeoInv, main, list, job, count, ThreadBegins, Signal, ErrorFits, Over
<1>6. ListsFit'
  BY DEF GeoInv, main, list, job, count, ThreadBegins, Signal, ListsFit
<1>7. TimesFit'
  BY DEF GeoInv, main, list, job, count, ThreadBegins, Signal, Over, TimesFit
<1> QED
  BY <1>1, <1>2, <1>3, <1>4, <1>5, <1>6, <1>7 DEF GeoInv

(* A start is a parse or the stop. *)
LEMMA TakeKeeps ==
  ASSUME GeoInv, Take
  PROVE  GeoInv'
<1>1. TypeOK'
  <2>1. back' \in Lists
    BY ListIn DEF GeoInv, TypeOK, Take
  <2>2. thread' \in {"ended", "parse"} /\ start' = 0
    BY DEF Take
  <2>3. QED
    BY <2>1, <2>2 DEF GeoInv, TypeOK, Take, main, list, count
<1>2. PlaceFits'
  BY DEF GeoInv, main, list, count, Take, List, Over, PlaceFits
<1>3. ThreadFits'
  BY DEF GeoInv, main, list, count, Take, List, ThreadFits
<1>4. JobFits'
  BY DEF GeoInv, main, list, count, Take, JobFits, List, PlaceFits, Stage, ThreadFits
<1>5. ErrorFits'
  BY DEF GeoInv, main, list, count, Take, ErrorFits, List, Over
<1>6. ListsFit'
  BY DEF GeoInv, main, list, count, Take, JobFits, List, ListsFit, Stage, ThreadFits
<1>7. TimesFit'
  BY DEF GeoInv, main, list, count, Take, List, Over, TimesFit
<1> QED
  BY <1>1, <1>2, <1>3, <1>4, <1>5, <1>6, <1>7 DEF GeoInv

(* A parse ends, with its list or with an error. *)
LEMMA RunJobKeeps ==
  ASSUME GeoInv, RunJob
  PROVE  GeoInv'
<1>1. TypeOK'
  <2>1. snapshot \in 1 .. MaxParses /\ ran + 1 \in 0 .. MaxParses
    BY DEF GeoInv, TypeOK, JobFits, Stage, ThreadFits, RunJob
  <2>2. back' \in Lists
    BY ListIn DEF GeoInv, TypeOK, RunJob
  <2>3. bad' \subseteq 1 .. MaxParses
    BY <2>1 DEF GeoInv, TypeOK, RunJob
  <2>4. error' \in BOOLEAN
    BY Zenon DEF GeoInv, TypeOK, RunJob
  <2>5. QED
    BY <2>1, <2>2, <2>3, <2>4 DEF GeoInv, TypeOK, RunJob, main, list
<1>2. PlaceFits'
  BY DEF GeoInv, main, list, RunJob, List, Over, PlaceFits
<1>3. ThreadFits'
  BY DEF GeoInv, main, list, RunJob, List, ThreadFits
<1>4. JobFits'
  BY DEF GeoInv, main, list, RunJob, JobFits, List, Stage, ThreadFits
<1>5. ErrorFits'
  BY DEF GeoInv, main, list, RunJob, ErrorFits, JobFits, List, Stage, ThreadFits, TypeOK
<1>6. ListsFit'
  BY DEF GeoInv, main, list, RunJob, JobFits, List, ListsFit, ThreadFits
<1>7. TimesFit'
  BY DEF GeoInv, main, list, RunJob, List, Over, TimesFit
<1> QED
  BY <1>1, <1>2, <1>3, <1>4, <1>5, <1>6, <1>7 DEF GeoInv

(* The parse is answered. *)
LEMMA PostKeeps ==
  ASSUME GeoInv, Post
  PROVE  GeoInv'
<1>1. TypeOK'
  BY DEF GeoInv, main, list, job, count, Post, Signal, TypeOK
<1>2. PlaceFits'
  BY DEF GeoInv, main, list, job, count, Post, Signal, Over, PlaceFits
<1>3. ThreadFits'
  BY DEF GeoInv, main, list, job, count, Post, Signal, ThreadFits
<1>4. JobFits'
  BY DEF GeoInv, main, list, job, count, Post, Signal, JobFits, Stage
<1>5. ErrorFits'
  BY DEF GeoInv, main, list, job, count, Post, Signal, ErrorFits, Over
<1>6. ListsFit'
  BY DEF GeoInv, main, list, job, count, Post, Signal, ListsFit
<1>7. TimesFit'
  BY DEF GeoInv, main, list, job, count, Post, Signal, Over, TimesFit
<1> QED
  BY <1>1, <1>2, <1>3, <1>4, <1>5, <1>6, <1>7 DEF GeoInv
-----------------------------------------------------------------------------
(* A new Geo. *)
LEMMA InitFits == Init => GeoInv
<1> SUFFICES ASSUME Init PROVE GeoInv
  OBVIOUS
<1>0. 0 \in 0 .. MaxParses
  BY MaxParsesAssumption
<1>a. List(0, TRUE) \in Lists
  BY <1>0, ListIn
<1>b. Screen(List(0, TRUE), 0) \in Screens
  BY <1>0, <1>a DEF Screens, Screen
<1>1. TypeOK
  <2>1. begunAt \in [1 .. MaxParses -> Nat] /\ bad \subseteq 1 .. MaxParses
    BY DEF Init
  <2>2. front \in Screens /\ shown \in Screens /\ back \in Lists
    BY <1>a, <1>b DEF Init
  <2>3. /\ at \in {"new", "starting", "out", "parse", "begin", "read", "count", "margin",
                  "over", "end", "ending", "gone"}
        /\ mode \in {"sync", "pipelined"} /\ phase \in {"start", "end"}
        /\ pair \in {"none", "list", "windows"}
        /\ thread \in {"none", "begin", "idle", "parse", "post", "ended"}
    BY DEF Init
  <2>4. frames \in Nat /\ age \in 0 .. 1 /\ start \in 0 .. 1 /\ done \in 0 .. 1
    BY DEF Init
  <2>5. /\ inFlight \in BOOLEAN /\ unpublished \in BOOLEAN /\ pending \in BOOLEAN
        /\ stop \in BOOLEAN /\ error \in BOOLEAN
    BY DEF Init
  <2>6. /\ snapshot \in 0 .. MaxParses /\ latest \in 0 .. MaxParses /\ result \in 0 .. MaxParses
        /\ given \in 0 .. MaxParses /\ ran \in 0 .. MaxParses /\ answered \in 0 .. MaxParses
    BY <1>0 DEF Init
  <2> QED
    BY <2>1, <2>2, <2>3, <2>4, <2>5, <2>6 DEF TypeOK
<1>2. PlaceFits /\ ThreadFits /\ JobFits /\ TimesFit
  BY DEF Init, PlaceFits, ThreadFits, JobFits, TimesFit
<1>3. ErrorFits
  BY DEF Init, ErrorFits
<1>4. ListsFit
  BY DEF Init, ListsFit
<1> QED
  BY <1>1, <1>2, <1>3, <1>4 DEF GeoInv

(* Every step keeps the invariant. *)
LEMMA StepKeepsInv == ASSUME GeoInv, [Next]_vars PROVE GeoInv'
<1>1. CASE Call
  BY <1>1, VblankStartKeeps, VblankEndKeeps, CountReadKeeps, SetMarginKeeps,
     EndGameKeeps DEF Call
<1>2. CASE Main
  <2>1. CASE Read
    BY <2>1, ReadNotDueKeeps, ReadDueKeeps, ReadSecondKeeps DEF Read
  <2> QED
    BY <1>2, <2>1, ConfigureKeeps, ConfiguredKeeps, JoinLastKeeps, ParseKeeps,
       ParseInlineKeeps, CountedKeeps, MarginSetKeeps, DestroyKeeps, GoneKeeps DEF Main
<1>3. CASE Thread
  BY <1>3, ThreadBeginsKeeps, TakeKeeps, RunJobKeeps, PostKeeps DEF Thread
<1>4. CASE UNCHANGED vars
  <2>1. TypeOK' /\ PlaceFits' /\ ThreadFits'
    BY <1>4 DEF GeoInv, TypeOK, PlaceFits, ThreadFits, Over, vars, main, list, job, count
  <2>2. JobFits' /\ ErrorFits'
    BY <1>4 DEF GeoInv, JobFits, Stage, ErrorFits, Over, vars, main, list, job, count
  <2>3. ListsFit' /\ TimesFit'
    BY <1>4 DEF GeoInv, ListsFit, TimesFit, Over, vars, main, list, job, count
  <2> QED
    BY <2>1, <2>2, <2>3 DEF GeoInv
<1> QED
  BY <1>1, <1>2, <1>3, <1>4 DEF Next

(* Semaphores, flags, lists and times fit together throughout a game, for any number of *)
(* parses and of settings committed between the frames: an error is of the last parse,  *)
(* and pending only as long as its list is unpublished; the list that is shown is the   *)
(* newest that was joined, and it is whole.                                             *)
THEOREM GeoFits == Spec => []GeoInv
<1>1. GeoInv /\ [Next]_vars => GeoInv'
  BY StepKeepsInv
<1> QED
  BY InitFits, <1>1, PTL DEF Spec

(* GEO_ASYNC.md: a parse failure "is rethrown on the main thread at the next join" - or, when *)
(* that join is set_wide_margin's, at the call after it.  No list is begun in between, so     *)
(* that no parse builds on the state the one that threw has left.                             *)
THEOREM ErrorEndsTheGame == Spec => []NothingAfterError
<1>1. GeoInv => NothingAfterError
  BY DEF GeoInv, ErrorFits, NothingAfterError
<1> QED
  BY GeoFits, <1>1, PTL

(* The invariant says which list it is at the start of a frame: without a parse in flight *)
(* the last, else the one before.                                                         *)
LEMMA ShowsTheLast ==
  ASSUME GeoInv PROVE PictureIsNewest
<1> SUFFICES ASSUME at = "out", phase = "start"
             PROVE  /\ shown.list.whole /\ shown.windows = shown.list.parse
                    /\ shown.list.parse \in ToShow \cup {0}
                    /\ \A p \in ToShow : p <= shown.list.parse
  BY DEF PictureIsNewest
<1> DEFINE n == IF unpublished THEN given - 1 ELSE given
<1>1. given \in Nat /\ frames \in Nat /\ mode \in {"sync", "pipelined"} /\ unpublished \in BOOLEAN
      /\ \A p \in 1 .. given : begunAt[p] \in Nat
  BY MaxParsesAssumption DEF GeoInv, TypeOK
<1>2. bad = {} \/ error \/ pending
  BY DEF GeoInv, ErrorFits, Over
<1>3. shown = front
  BY DEF GeoInv, ListsFit
<1>4. front = Screen(List(n, TRUE), n)
  BY <1>2 DEF GeoInv, ListsFit, ErrorFits, JobFits
<1>5. shown.list.whole /\ shown.windows = n /\ shown.list.parse = n
  BY <1>3, <1>4 DEF Screen, List
<1>6. CASE given = 0
  BY <1>1, <1>5, <1>6 DEF GeoInv, ListsFit, ToShow
<1>7. CASE given > 0
  <2>1. CASE ~unpublished
    <3>1. begunAt[given] + Late <= frames
      BY <1>7, <1>1, <2>1 DEF GeoInv, TimesFit, Over, Late
    <3> QED
      BY <1>1, <1>5, <1>7, <2>1, <3>1 DEF ToShow, Late
  <2>2. CASE unpublished
    <3>1. mode = "pipelined" /\ Late = 2
      BY <1>1, <2>2 DEF GeoInv, ThreadFits, Late
    <3>2. begunAt[given] + 1 = frames
      BY <1>7, <2>2 DEF GeoInv, TimesFit, Over
    <3>3. given > 1 => begunAt[given - 1] + 2 <= frames
      BY <1>7, <1>1, <3>2 DEF GeoInv, TimesFit, Over
    <3>4. given \notin ToShow
      BY <1>1, <1>7, <3>1, <3>2 DEF ToShow
    <3>5. n = given - 1 /\ (n = 0 \/ n \in ToShow)
      BY <1>1, <1>7, <2>2, <3>1, <3>3 DEF ToShow
    <3>6. \A p \in ToShow : p <= n
      BY <1>1, <3>4, <3>5 DEF ToShow
    <3> QED
      BY <1>5, <3>5, <3>6
  <2> QED
    BY <1>1, <2>1, <2>2
<1> QED
  BY <1>1, <1>6, <1>7

(* A count read that comes back has joined the newest parse. *)
LEMMA CountsTheNewest ==
  ASSUME GeoInv, [Next]_vars, at = "count", at' = "out" PROVE latest' = given
<1>1. CASE Counted
  BY <1>1, Joined DEF Counted
<1>2. ~Thread /\ ~(UNCHANGED vars)
  BY DEF Thread, ThreadBegins, Take, RunJob, Post, main, vars
<1>3. ~Call /\ ~(Main /\ ~Counted)
  BY DEF Call, VblankStart, VblankEnd, CountRead, SetMargin, EndGame, Main, Configure, Configured,
         JoinLast, Parse, ParseInline, Read, ReadNotDue, ReadDue, ReadSecond, MarginSet, Destroy,
         Gone
<1> QED
  BY <1>1, <1>2, <1>3 DEF Next

(* GEO_ASYNC.md: "the picture is the exact one, one frame late", at 60 and at 30 Hz, and the *)
(* polygon count read is that of the newest parse, whichever call has joined it.             *)
THEOREM ShownOneFrameLate == Spec => OneFrameLate
<1>1. GeoInv /\ [Next]_vars => [PictureIsNewest /\ CountIsNewest]_vars
  BY ShowsTheLast, CountsTheNewest DEF CountIsNewest
<1> QED
  BY GeoFits, <1>1, PTL DEF Spec, OneFrameLate

(* From the signal for a parse to its end, main changes neither the snapshot nor the lists. *)
THEOREM ListsUndisturbed == Spec => Undisturbed
<1>1. ASSUME GeoInv, [Next]_vars, start = 1 \/ thread = "parse"
      PROVE  snapshot' = snapshot /\ front' = front /\ (back' = back \/ thread' # thread)
  <2>1. inFlight \/ at = "ending"
    BY <1>1 DEF GeoInv, ThreadFits
  <2>2. at # "begin" /\ mode = "pipelined" /\ ~(inFlight /\ done = 1)
    BY <1>1, <2>1 DEF GeoInv, TypeOK, PlaceFits, ThreadFits, JobFits, Stage
  <2>3. CASE Call
    BY <2>3 DEF Call, VblankStart, VblankEnd, CountRead, SetMargin, EndGame, list, job
  <2>4. CASE Main
    BY <1>1, <2>1, <2>2, <2>4 DEF Main, Configure, Configured, JoinLast, Parse, ParseInline,
       Read, ReadNotDue,
       ReadDue, ReadSecond, Counted, MarginSet, Destroy, Gone, Join, Joinable, list, job
  <2>5. CASE Thread
    BY <1>1, <2>5 DEF Thread, ThreadBegins, Take, RunJob, Post, list, job
  <2>6. CASE UNCHANGED vars
    BY <2>6 DEF vars, list, job
  <2> QED
    BY <1>1, <2>3, <2>4, <2>5, <2>6 DEF Next
<1>2. GeoInv /\ [Next]_vars =>
        [start = 1 \/ thread = "parse" =>
           snapshot' = snapshot /\ front' = front /\ (back' = back \/ thread' # thread)]_vars
  BY <1>1
<1> QED
  BY GeoFits, <1>2, PTL DEF Spec, Undisturbed

(* Each step gives a parse, runs it, answers it, does all three, or none. *)
LEMMA StepIsHandoff == ASSUME GeoInv, [Next]_vars PROVE [Handed!Next]_Handed!vars
<1> USE DEF Handed!Next, Handed!vars
<1>0. given \in Nat /\ answered \in Nat /\ given = answered + (IF inFlight THEN 1 ELSE 0)
      /\ ran \in Nat /\ inFlight \in BOOLEAN
  BY MaxParsesAssumption DEF GeoInv, TypeOK, JobFits
<1>1. CASE Call
  BY <1>1 DEF Call, VblankStart, VblankEnd, CountRead, SetMargin, EndGame, count
<1>2. CASE Main
  <2>1. CASE Parse
    <3>1. given' = given + 1 /\ ran' = ran /\ answered' = answered /\ given = answered
      BY <1>0, <2>1 DEF Parse, Begin, GeoInv, PlaceFits
    <3> QED
      BY <3>1 DEF Handed!Give
  <2>2. CASE ParseInline
    <3>1. given' = given + 1 /\ ran' = ran + 1 /\ answered' = answered + 1 /\ given = answered
      BY <1>0, <2>2 DEF ParseInline, Begin, GeoInv, PlaceFits
    <3> QED
      BY <3>1 DEF Handed!Inline
  <2>3. ASSUME Join, given' = given, ran' = ran, at \in {"parse", "read", "count", "margin", "end"}
        PROVE  Handed!Answer \/ UNCHANGED <<given, ran, answered>>
    <3>1. CASE inFlight
      <4>1. ran = given /\ answered' = given
        BY <2>3, Joined
      <4>2. answered < given
        BY <1>0, <3>1
      <4> QED
        BY <2>3, <4>1, <4>2 DEF Handed!Answer
    <3>2. CASE ~inFlight
      BY <2>3, <3>2 DEF Join
    <3> QED
      BY <3>1, <3>2
  <2>4. CASE JoinLast \/ Counted \/ MarginSet \/ Destroy
    BY <2>3, <2>4 DEF JoinLast, Counted, MarginSet, Destroy
  <2>5. CASE Read
    <3>1. PICK kind \in {"list", "windows"} :
            ReadNotDue(kind) \/ ReadDue(kind) \/ ReadSecond(kind)
      BY <2>5 DEF Read
    <3>2. CASE ReadDue(kind)
      BY <2>3, <3>2 DEF ReadDue
    <3>3. CASE ReadNotDue(kind) \/ ReadSecond(kind)
      BY <3>3 DEF ReadNotDue, ReadSecond, count
    <3> QED
      BY <3>1, <3>2, <3>3
  <2>6. CASE Configure \/ Configured \/ Gone
    BY <2>6 DEF Configure, Configured, Gone, count
  <2> QED
    BY <1>2, <2>1, <2>2, <2>4, <2>5, <2>6 DEF Main
<1>3. CASE Thread
  <2>1. CASE RunJob
    <3>1. ran < given /\ ran' = ran + 1 /\ given' = given /\ answered' = answered
      BY <1>0, <2>1 DEF RunJob, GeoInv, JobFits, Stage, ThreadFits
    <3> QED
      BY <3>1 DEF Handed!Run
  <2> QED
    BY <1>3, <2>1 DEF Thread, ThreadBegins, Take, Post, count
<1>4. CASE UNCHANGED vars
  BY <1>4 DEF vars, count
<1> QED
  BY <1>1, <1>2, <1>3, <1>4 DEF Next

(* The geometry thread keeps the promise of Handoff: one parse at a time, each run once, *)
(* in order, and answered after it ran.                                                  *)
THEOREM GeoIsHandoff == Spec => OneParseAtATime
<1>1. Init => Handed!Init
  BY DEF Init, Handed!Init
<1>2. GeoInv /\ [Next]_vars => [Handed!Next]_Handed!vars
  BY StepIsHandoff
<1> QED
  BY GeoFits, <1>1, <1>2, PTL DEF Spec, OneParseAtATime, Handed!Spec
=============================================================================

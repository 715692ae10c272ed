-------------------------- MODULE LinkCableProofs --------------------------
(***************************************************************************)
(* Theorems about LinkCable, for any size of a frame, any room in TCP and  *)
(* in outgoing_, any number of frames, connections, breaks and inits.      *)
(***************************************************************************)
EXTENDS LinkCable, SequenceTheorems, TLAPS

Socket == [state : {"none", "connecting", "open"}, prompt : BOOLEAN, limited : BOOLEAN,
           expired : BOOLEAN, broken : BOOLEAN,
           out : [1 .. OutRoom -> Byte \cup {None}],
           begin : 0 .. OutRoom, end : 0 .. OutRoom]
Stream == [bytes : Seq(Byte), closed : BOOLEAN]

(* What waits in a socket is bytes; one that is not open holds nothing.    *)
SocketOK(t) ==
  /\ t.begin <= t.end
  /\ \A i \in t.begin + 1 .. t.end : t.out[i] \in Byte
  /\ t.state # "open" => t.end = 0
Out(t) == SubSeq(t.out, t.begin + 1, t.end)

LEMMA SizeType == Size \in Nat /\ Size > 0 /\ Room \in Nat /\ OutRoom \in Nat
  BY SizesAssumption

LEMMA NewSocket == NoSocket \in Socket /\ SocketOK(NoSocket) /\ Out(NoSocket) = <<>>
<1>1. NoSocket \in Socket /\ SocketOK(NoSocket)
  BY SizeType DEF NoSocket, Socket, SocketOK
<1>2. NoSocket.begin = 0 /\ NoSocket.end = 0
  BY DEF NoSocket
<1>3. SubSeq(NoSocket.out, 0 + 1, 0) = <<>>
  BY SubSeqEmpty
<1> QED BY <1>1, <1>2, <1>3 DEF Out

LEMMA OutType ==
  ASSUME NEW t \in Socket, SocketOK(t)
  PROVE  /\ Out(t) \in Seq(Byte) /\ Len(Out(t)) = Waiting(t) /\ Waiting(t) \in Nat
         /\ \A i \in 1 .. Waiting(t) : Out(t)[i] = t.out[t.begin + i]
<1>1. t.begin \in Nat /\ t.end \in Nat /\ t.begin <= t.end
  BY SizeType DEF Socket, SocketOK
<1>2. PICK m, n \in Int : m = t.begin + 1 /\ n = t.end
  BY <1>1
<1>3. \A i \in m .. n : t.out[i] \in Byte
  BY <1>2 DEF SocketOK
<1>4. /\ SubSeq(t.out, m, n) \in Seq(Byte)
      /\ Len(SubSeq(t.out, m, n)) = IF m <= n THEN n - m + 1 ELSE 0
      /\ \A i \in 1 .. n - m + 1 : SubSeq(t.out, m, n)[i] = t.out[m + i - 1]
  BY <1>3, SubSeqProperties
<1>5. Out(t) = SubSeq(t.out, m, n) /\ Waiting(t) = n - m + 1 /\ n - m + 1 \in Nat
  BY <1>1, <1>2 DEF Out, Waiting
<1>6. \A i \in Nat : m + i - 1 = t.begin + i
  BY ONLY <1>1, <1>2
<1>7. Len(Out(t)) = Waiting(t)
  BY <1>1, <1>2, <1>4, <1>5
<1>8. ASSUME NEW i \in 1 .. Waiting(t) PROVE Out(t)[i] = t.out[t.begin + i]
  <2>1. m + i - 1 = t.begin + i
    BY <1>6
  <2> QED BY <1>4, <1>5, <2>1
<1> QED BY <1>4, <1>5, <1>7, <1>8

(* Two sockets in which the same waits, place by place.                    *)
LEMMA SameOut ==
  ASSUME NEW t \in Socket, SocketOK(t), NEW u \in Socket, SocketOK(u),
         Waiting(t) = Waiting(u),
         \A i \in 1 .. Waiting(t) : t.out[t.begin + i] = u.out[u.begin + i]
  PROVE  Out(t) = Out(u)
<1>1. Out(t) \in Seq(Byte) /\ Out(u) \in Seq(Byte) /\ Len(Out(t)) = Len(Out(u))
  BY OutType
<1>2. \A i \in 1 .. Len(Out(t)) : Out(t)[i] = Out(u)[i]
  BY OutType
<1> QED BY <1>1, <1>2, SeqEqual

LEMMA TidyOK ==
  ASSUME NEW t \in Socket, SocketOK(t)
  PROVE  /\ Tidy(t) \in Socket /\ SocketOK(Tidy(t)) /\ Out(Tidy(t)) = Out(t)
         /\ Waiting(Tidy(t)) = Waiting(t)
         /\ Tidy(t).state = t.state /\ Tidy(t).limited = t.limited
         /\ Tidy(t).expired = t.expired /\ Tidy(t).broken = t.broken
<1>0. t.begin \in Nat /\ t.end \in 0 .. OutRoom /\ t.begin <= t.end
  BY SizeType DEF Socket, SocketOK
<1>1. /\ Tidy(t).state = t.state /\ Tidy(t).limited = t.limited
      /\ Tidy(t).expired = t.expired /\ Tidy(t).broken = t.broken
      /\ Tidy(t).begin = t.begin /\ Tidy(t).end = t.end
      /\ Tidy(t).out = [i \in 1 .. OutRoom |->
                          IF t.begin < i /\ i <= t.end THEN t.out[i] ELSE None]
  BY DEF Socket, Tidy
<1>2. Tidy(t) \in Socket
  <2>1. [i \in 1 .. OutRoom |-> IF t.begin < i /\ i <= t.end THEN t.out[i] ELSE None]
          \in [1 .. OutRoom -> Byte \cup {None}]
    BY DEF Socket
  <2> QED BY <2>1 DEF Socket, Tidy
<1>3. \A i \in t.begin + 1 .. t.end : Tidy(t).out[i] = t.out[i]
  BY <1>0, <1>1, SizeType
<1>4. SocketOK(Tidy(t))
  BY <1>1, <1>3 DEF SocketOK
<1>5. Waiting(Tidy(t)) = Waiting(t) /\ Waiting(t) = t.end - t.begin
  BY <1>1 DEF Waiting
<1>6. \A i \in 1 .. Waiting(t) : Tidy(t).out[Tidy(t).begin + i] = t.out[t.begin + i]
  BY <1>0, <1>1, <1>3, <1>5
<1>7. Out(Tidy(t)) = Out(t)
  BY <1>2, <1>4, <1>5, <1>6, SameOut
<1> QED BY <1>1, <1>2, <1>4, <1>5, <1>7

(* Streams: only the last one changes.                                     *)
Others(ss, st) == Len(st) = Len(ss) /\ \A c \in 1 .. Len(ss) - 1 : st[c] = ss[c]

LEMMA SentOK ==
  ASSUME NEW ss \in Seq(Stream), ss # <<>>, NEW bs \in Seq(Byte)
  PROVE  /\ Sent(ss, bs) \in Seq(Stream) /\ Others(ss, Sent(ss, bs))
         /\ Sent(ss, bs)[Len(ss)].closed = ss[Len(ss)].closed
         /\ Sent(ss, bs)[Len(ss)].bytes =
              IF ss[Len(ss)].closed THEN ss[Len(ss)].bytes ELSE ss[Len(ss)].bytes \o bs
<1>1. PICK n \in Nat : n = Len(ss) /\ n \in 1 .. Len(ss)
  BY EmptySeq, LenProperties
<1>2. ss[n] \in Stream
  BY <1>1, ElementOfSeq
<1>3. PICK r : r = [ss[n] EXCEPT !.bytes = IF ss[n].closed THEN @ ELSE @ \o bs]
  OBVIOUS
<1>4. ss[n].bytes \o bs \in Seq(Byte)
  BY <1>2, ConcatProperties DEF Stream
<1>5. /\ r \in Stream /\ r.closed = ss[n].closed
      /\ r.bytes = IF ss[n].closed THEN ss[n].bytes ELSE ss[n].bytes \o bs
  BY <1>2, <1>3, <1>4 DEF Stream
<1>6. Sent(ss, bs) = [ss EXCEPT ![n] = r]
  BY <1>1, <1>3 DEF Sent
<1>7. /\ Sent(ss, bs) \in Seq(Stream) /\ Len(Sent(ss, bs)) = Len(ss)
      /\ \A j \in 1 .. Len(ss) : Sent(ss, bs)[j] = IF j = n THEN r ELSE ss[j]
  BY <1>1, <1>5, <1>6, ExceptSeq
<1> QED BY <1>1, <1>5, <1>7 DEF Others

LEMMA ClosedOK ==
  ASSUME NEW ss \in Seq(Stream), ss # <<>>
  PROVE  /\ Closed(ss) \in Seq(Stream) /\ Others(ss, Closed(ss))
         /\ Closed(ss)[Len(ss)].closed
         /\ Closed(ss)[Len(ss)].bytes = ss[Len(ss)].bytes
<1>1. PICK n \in Nat : n = Len(ss) /\ n \in 1 .. Len(ss)
  BY EmptySeq, LenProperties
<1>2. ss[n] \in Stream
  BY <1>1, ElementOfSeq
<1>3. PICK r : r = [ss[n] EXCEPT !.closed = TRUE]
  OBVIOUS
<1>4. r \in Stream /\ r.closed /\ r.bytes = ss[n].bytes
  BY <1>2, <1>3 DEF Stream
<1>5. Closed(ss) = [ss EXCEPT ![n] = r]
  BY <1>1, <1>3 DEF Closed
<1>6. /\ Closed(ss) \in Seq(Stream) /\ Len(Closed(ss)) = Len(ss)
      /\ \A j \in 1 .. Len(ss) : Closed(ss)[j] = IF j = n THEN r ELSE ss[j]
  BY <1>1, <1>4, <1>5, ExceptSeq
<1> QED BY <1>1, <1>4, <1>6 DEF Others

(* ConcatAssociative for sequences of bytes.                               *)
LEMMA Associative ==
  \A p, q, r \in Seq(Byte) : (p \o q) \o r = p \o (q \o r)
<1> SUFFICES ASSUME NEW p \in Seq(Byte), NEW q \in Seq(Byte), NEW r \in Seq(Byte)
             PROVE  (p \o q) \o r = p \o (q \o r)
  OBVIOUS
<1>1. PICK B : B = Byte
  OBVIOUS
<1>2. p \in Seq(B) /\ q \in Seq(B) /\ r \in Seq(B)
  BY <1>1
<1> QED BY ONLY <1>2, ConcatAssociative

(* What flush does: the socket stays open and what it and TCP hold         *)
(* together is what they held, or it gives up, and TCP keeps what it has.  *)
Held(t, ss) == ss[Len(ss)].bytes \o Out(t)
Stays(t, ss, u, st) ==
  /\ u.state = "open" /\ u.limited = t.limited
  /\ u.broken = t.broken /\ (u.expired => t.expired)
  /\ Waiting(u) <= Waiting(t)
  /\ st[Len(ss)].closed = ss[Len(ss)].closed
  /\ IF ss[Len(ss)].closed THEN st[Len(ss)].bytes = ss[Len(ss)].bytes
     ELSE Held(u, st) = Held(t, ss)
GaveUp(t, ss, u, st) ==
  /\ u = NoSocket /\ (t.broken \/ t.expired)
  /\ st[Len(ss)].closed /\ st[Len(ss)].bytes = ss[Len(ss)].bytes
Flushed(t, ss, u, st) ==
  /\ u \in Socket /\ SocketOK(u) /\ st \in Seq(Stream) /\ Others(ss, st)
  /\ Len(st[Len(ss)].bytes) <= Room
  /\ Stays(t, ss, u, st) \/ GaveUp(t, ss, u, st)

LEMMA DropOut ==
  ASSUME NEW t \in Socket, SocketOK(t), NEW n \in 0 .. Waiting(t)
  PROVE  LET u == [t EXCEPT !.begin = @ + n, !.expired = @ /\ n = 0]
             bs == SubSeq(t.out, t.begin + 1, t.begin + n)
         IN /\ u \in Socket /\ (t.state = "open" => SocketOK(u)) /\ u.state = t.state
            /\ u.limited = t.limited /\ u.broken = t.broken
            /\ u.expired = (t.expired /\ n = 0)
            /\ Waiting(u) = Waiting(t) - n
            /\ bs \in Seq(Byte) /\ Len(bs) = n
            /\ t.state = "open" => bs \o Out(u) = Out(t)
<1> DEFINE u == [t EXCEPT !.begin = @ + n, !.expired = @ /\ n = 0]
           bs == SubSeq(t.out, t.begin + 1, t.begin + n)
<1>0. /\ t.begin \in Nat /\ t.end \in 0 .. OutRoom /\ t.begin <= t.end
      /\ Waiting(t) = t.end - t.begin /\ n \in Nat /\ n <= t.end - t.begin
  BY SizeType DEF Socket, SocketOK, Waiting
<1>1. /\ u.state = t.state /\ u.limited = t.limited /\ u.broken = t.broken
      /\ u.expired = (t.expired /\ n = 0)
      /\ u.begin = t.begin + n /\ u.end = t.end /\ u.out = t.out
  BY DEF Socket
<1>2. u \in Socket
  <2>1. t.begin + n \in 0 .. OutRoom
    BY <1>0, SizeType
  <2>2. (t.expired /\ n = 0) \in BOOLEAN
    BY ZenonT(30)
  <2> QED BY <2>1, <2>2 DEF Socket
<1>3. Waiting(u) = Waiting(t) - n
  BY <1>0, <1>1 DEF Waiting
<1>4. t.state = "open" => SocketOK(u)
  BY <1>0, <1>1 DEF SocketOK
<1>5. PICK k, m \in Int : k = t.begin + 1 /\ m = t.begin + n
  BY <1>0
<1>6. /\ \A i \in k .. m : t.out[i] \in Byte
      /\ m - k + 1 = n /\ (IF k <= m THEN m - k + 1 ELSE 0) = n
      /\ \A i \in Int : k + i - 1 = t.begin + i
  BY <1>0, <1>5 DEF SocketOK
<1>7. /\ SubSeq(t.out, k, m) \in Seq(Byte)
      /\ Len(SubSeq(t.out, k, m)) = IF k <= m THEN m - k + 1 ELSE 0
      /\ \A i \in 1 .. m - k + 1 : SubSeq(t.out, k, m)[i] = t.out[k + i - 1]
  BY <1>6, SubSeqProperties
<1>8. bs \in Seq(Byte) /\ Len(bs) = n /\ \A i \in 1 .. n : bs[i] = t.out[t.begin + i]
  BY <1>5, <1>6, <1>7
<1>9. t.state = "open" => bs \o Out(u) = Out(t)
  <2> SUFFICES ASSUME t.state = "open" PROVE bs \o Out(u) = Out(t)
    OBVIOUS
  <2> HIDE DEF u, bs
  <2>1. /\ Out(u) \in Seq(Byte) /\ Len(Out(u)) = Waiting(u)
        /\ \A i \in 1 .. Waiting(u) : Out(u)[i] = t.out[t.begin + n + i]
    BY <1>1, <1>2, <1>4, OutType
  <2>2. /\ Out(t) \in Seq(Byte) /\ Len(Out(t)) = Waiting(t)
        /\ \A i \in 1 .. Waiting(t) : Out(t)[i] = t.out[t.begin + i]
    BY OutType
  <2>3. /\ bs \o Out(u) \in Seq(Byte) /\ Len(bs \o Out(u)) = Len(bs) + Len(Out(u))
        /\ \A i \in 1 .. Len(bs) + Len(Out(u)) : (bs \o Out(u))[i] =
             IF i <= Len(bs) THEN bs[i] ELSE Out(u)[i - Len(bs)]
    <3>1. PICK p, q \in Seq(Byte) : p = bs /\ q = Out(u)
      BY <1>8, <2>1
    <3> QED BY ONLY <3>1, ConcatProperties
  <2>4. Len(bs \o Out(u)) = Len(Out(t))
    BY <1>0, <1>3, <1>8, <2>1, <2>2, <2>3
  <2>5. ASSUME NEW i \in 1 .. Len(bs \o Out(u))
        PROVE  (bs \o Out(u))[i] = Out(t)[i]
    <3>1. i \in 1 .. Waiting(t)
      BY <2>2, <2>4, <2>5
    <3>2. CASE i <= n
      BY <1>8, <2>2, <2>3, <2>5, <3>1, <3>2
    <3>3. CASE ~(i <= n)
      <4>1. i - n \in 1 .. Waiting(u) /\ t.begin + n + (i - n) = t.begin + i
        BY <1>0, <1>3, <3>1, <3>3
      <4>2. (bs \o Out(u))[i] = Out(u)[i - n]
        BY <1>8, <2>3, <2>5, <3>3
      <4>3. Out(u)[i - n] = t.out[t.begin + i]
        BY <2>1, <4>1
      <4> QED BY <2>2, <3>1, <4>2, <4>3
    <3> QED BY <3>2, <3>3
  <2> QED BY <2>2, <2>3, <2>4, <2>5, SeqEqual
<1> QED BY <1>1, <1>2, <1>3, <1>4, <1>8, <1>9

LEMMA EmptiedOK ==
  ASSUME NEW t \in Socket, SocketOK(t), Waiting(t) = 0
  PROVE  LET u == Tidy([t EXCEPT !.begin = 0, !.end = 0])
         IN /\ u \in Socket /\ SocketOK(u) /\ u.state = t.state /\ u.limited = t.limited
            /\ u.broken = t.broken /\ u.expired = t.expired
            /\ Waiting(u) = 0 /\ Out(u) = Out(t)
<1>1. PICK v : v = [t EXCEPT !.begin = 0, !.end = 0]
  OBVIOUS
<1>2. /\ v \in Socket /\ SocketOK(v) /\ Waiting(v) = 0 /\ v.state = t.state
      /\ v.limited = t.limited /\ v.broken = t.broken /\ v.expired = t.expired
  <2>1. /\ v.state = t.state /\ v.limited = t.limited /\ v.broken = t.broken
        /\ v.expired = t.expired /\ v.begin = 0 /\ v.end = 0 /\ v.out = t.out
    BY <1>1 DEF Socket
  <2>2. v \in Socket
    <3>1. 0 \in 0 .. OutRoom
      BY SizeType
    <3> QED BY <1>1, <3>1 DEF Socket
  <2> QED BY <2>1, <2>2 DEF SocketOK, Waiting
<1>3. Out(v) = Out(t)
  BY <1>2, SameOut
<1> QED BY <1>1, <1>2, <1>3, TidyOK

LEMMA FlushOK ==
  ASSUME NEW t \in Socket, SocketOK(t), t.state = "open",
         NEW ss \in Seq(Stream), ss # <<>>, Len(ss[Len(ss)].bytes) <= Room
  PROVE  Flushed(t, ss, flush(t, ss)[1], flush(t, ss)[2])
<1>0. PICK last : last = ss[Len(ss)] /\ last \in Stream
  BY EmptySeq, LenProperties, ElementOfSeq
<1>1. /\ Len(last.bytes) \in Nat /\ last.bytes \in Seq(Byte) /\ Len(last.bytes) <= Room
      /\ last.closed \in BOOLEAN
  BY <1>0, LenProperties DEF Stream
<1>2. PICK room \in Nat : room = Room - Len(last.bytes)
  <2>1. Room - Len(last.bytes) \in Nat
    BY <1>1, SizeType
  <2> QED BY <2>1
<1>3. Waiting(t) \in Nat
  BY OutType
<1>4. PICK n \in Nat : n = IF room < Waiting(t) THEN room ELSE Waiting(t)
  BY <1>2, <1>3
<1>5. n \in 0 .. Waiting(t) /\ n <= room
  BY <1>2, <1>3, <1>4
<1>6. PICK sent : sent = [t EXCEPT !.begin = @ + n, !.expired = @ /\ n = 0]
  OBVIOUS
<1>7. PICK bs : bs = SubSeq(t.out, t.begin + 1, t.begin + n)
  OBVIOUS
<1>8. PICK on : on = Sent(ss, bs)
  OBVIOUS
<1>9. flush(t, ss) =
        IF Waiting(t) = 0 THEN <<Tidy([t EXCEPT !.begin = 0, !.end = 0]), ss>>
        ELSE IF t.broken THEN Disconnect(ss)
        ELSE IF Waiting(sent) = 0 THEN <<Tidy([sent EXCEPT !.begin = 0, !.end = 0]), on>>
        ELSE IF sent.expired THEN Disconnect(on)
        ELSE <<Tidy(sent), on>>
  BY <1>0, <1>2, <1>4, <1>6, <1>7, <1>8 DEF flush
<1>10. /\ sent \in Socket /\ SocketOK(sent) /\ sent.state = "open"
       /\ sent.limited = t.limited /\ sent.broken = t.broken
       /\ sent.expired = (t.expired /\ n = 0) /\ Waiting(sent) = Waiting(t) - n
       /\ bs \in Seq(Byte) /\ Len(bs) = n /\ bs \o Out(sent) = Out(t)
  BY <1>5, <1>6, <1>7, DropOut
<1>11. /\ on \in Seq(Stream) /\ Others(ss, on) /\ on # <<>> /\ Len(on) = Len(ss)
       /\ on[Len(ss)].closed = last.closed
       /\ on[Len(ss)].bytes = IF last.closed THEN last.bytes ELSE last.bytes \o bs
  BY <1>0, <1>8, <1>10, SentOK DEF Others
<1>12. Len(on[Len(ss)].bytes) <= Room
  <2>1. Len(last.bytes \o bs) = Len(last.bytes) + n
    BY <1>1, <1>10, ConcatProperties
  <2>2. Len(last.bytes) + n <= Room
    BY <1>1, <1>2, <1>5, SizeType
  <2>3. CASE last.closed
    BY <1>1, <1>11, <2>3
  <2>4. CASE ~last.closed
    BY <1>11, <2>1, <2>2, <2>4
  <2> QED BY <2>3, <2>4
<1>13. Waiting(sent) \in Nat /\ Waiting(sent) <= Waiting(t)
  BY <1>3, <1>5, <1>10
<1>14. ASSUME NEW u \in Socket, Out(u) = Out(sent)
       PROVE  ~last.closed => on[Len(ss)].bytes \o Out(u) = last.bytes \o Out(t)
  <2>1. Out(sent) \in Seq(Byte)
    BY <1>10, OutType
  <2>2. last.bytes \in Seq(Byte) /\ bs \in Seq(Byte)
    BY <1>1, <1>10
  <2>3. (last.bytes \o bs) \o Out(sent) = last.bytes \o (bs \o Out(sent))
    BY ONLY <2>1, <2>2, Associative
  <2> QED BY <1>10, <1>11, <1>14, <2>3
<1>15. CASE Waiting(t) = 0
  <2>1. PICK u : u = Tidy([t EXCEPT !.begin = 0, !.end = 0])
    OBVIOUS
  <2>2. /\ u \in Socket /\ SocketOK(u) /\ u.state = t.state /\ u.limited = t.limited
        /\ u.broken = t.broken /\ u.expired = t.expired
        /\ Waiting(u) = 0 /\ Out(u) = Out(t)
    BY <1>15, <2>1, EmptiedOK
  <2>3. Stays(t, ss, u, ss)
    BY <1>15, <2>2 DEF Stays, Held
  <2>4. flush(t, ss)[1] = u /\ flush(t, ss)[2] = ss
    BY <1>9, <1>15, <2>1
  <2> QED BY <1>0, <1>1, <2>2, <2>3, <2>4 DEF Flushed, Others
<1>16. CASE Waiting(t) # 0 /\ t.broken
  <2>1. flush(t, ss)[1] = NoSocket /\ flush(t, ss)[2] = Closed(ss)
    BY <1>9, <1>16 DEF Disconnect
  <2>2. GaveUp(t, ss, NoSocket, Closed(ss))
    BY <1>16, ClosedOK DEF GaveUp
  <2> QED BY <1>0, <1>1, <2>1, <2>2, NewSocket, ClosedOK DEF Flushed
<1>17. CASE Waiting(t) # 0 /\ ~t.broken /\ Waiting(sent) = 0
  <2>1. PICK u : u = Tidy([sent EXCEPT !.begin = 0, !.end = 0])
    OBVIOUS
  <2>2. /\ u \in Socket /\ SocketOK(u) /\ u.state = "open" /\ u.limited = t.limited
        /\ u.broken = t.broken /\ (u.expired => t.expired)
        /\ Waiting(u) = 0 /\ Out(u) = Out(sent)
    BY <1>10, <1>17, <2>1, EmptiedOK
  <2>3. ~last.closed => Held(u, on) = Held(t, ss)
    BY <1>0, <1>11, <1>14, <2>2 DEF Held
  <2>4. Waiting(u) <= Waiting(t)
    BY <1>3, <2>2
  <2>5. Stays(t, ss, u, on)
    BY <1>0, <1>11, <2>2, <2>3, <2>4 DEF Stays
  <2>6. flush(t, ss)[1] = u /\ flush(t, ss)[2] = on
    BY <1>9, <1>17, <2>1
  <2> QED BY <1>11, <1>12, <2>2, <2>5, <2>6 DEF Flushed
<1>18. CASE Waiting(t) # 0 /\ ~t.broken /\ Waiting(sent) # 0 /\ sent.expired
  <2>1. flush(t, ss)[1] = NoSocket /\ flush(t, ss)[2] = Closed(on)
    BY <1>9, <1>18 DEF Disconnect
  <2>2. /\ Closed(on) \in Seq(Stream) /\ Others(on, Closed(on))
        /\ Closed(on)[Len(ss)].closed
        /\ Closed(on)[Len(ss)].bytes = on[Len(ss)].bytes
    BY <1>11, ClosedOK
  <2>3. n = 0 /\ t.expired
    BY <1>10, <1>18
  <2>4. bs = <<>>
    BY <1>10, <2>3, EmptySeq
  <2>5. on[Len(ss)].bytes = last.bytes
    BY <1>1, <1>11, <2>4, ConcatEmptySeq
  <2>6. GaveUp(t, ss, NoSocket, Closed(on))
    BY <1>0, <2>2, <2>3, <2>5 DEF GaveUp
  <2>7. Others(ss, Closed(on))
    BY <1>11, <2>2 DEF Others
  <2> QED BY <1>12, <2>1, <2>2, <2>6, <2>7, NewSocket DEF Flushed
<1>19. CASE Waiting(t) # 0 /\ ~t.broken /\ Waiting(sent) # 0 /\ ~sent.expired
  <2>1. PICK u : u = Tidy(sent)
    OBVIOUS
  <2>2. /\ u \in Socket /\ SocketOK(u) /\ u.state = "open" /\ u.limited = t.limited
        /\ u.broken = t.broken /\ (u.expired => t.expired)
        /\ Waiting(u) = Waiting(sent) /\ Out(u) = Out(sent)
    BY <1>10, <2>1, TidyOK
  <2>3. Stays(t, ss, u, on)
    BY <1>0, <1>11, <1>13, <1>14, <2>2 DEF Stays, Held
  <2>4. flush(t, ss)[1] = u /\ flush(t, ss)[2] = on
    BY <1>9, <1>19, <2>1
  <2> QED BY <1>11, <1>12, <2>2, <2>3, <2>4 DEF Flushed
<1> QED BY <1>15, <1>16, <1>17, <1>18, <1>19

LEMMA CompactOK ==
  ASSUME NEW t \in Socket, SocketOK(t), t.state = "open"
  PROVE  /\ compact(t) \in Socket /\ SocketOK(compact(t)) /\ Out(compact(t)) = Out(t)
         /\ compact(t).state = "open" /\ compact(t).limited = t.limited
         /\ compact(t).broken = t.broken /\ compact(t).expired = t.expired
         /\ compact(t).begin = 0 /\ compact(t).end = Waiting(t)
         /\ Waiting(compact(t)) = Waiting(t)
<1>0. /\ t.begin \in Nat /\ t.end \in 0 .. OutRoom /\ t.begin <= t.end
      /\ Waiting(t) = t.end - t.begin /\ Waiting(t) \in 0 .. OutRoom
  BY SizeType DEF Socket, SocketOK, Waiting
<1>1. PICK u : u = compact(t)
  OBVIOUS
<1>2. PICK out : out = [i \in 1 .. OutRoom |-> IF i + t.begin <= t.end THEN t.out[i + t.begin]
                                               ELSE None]
  OBVIOUS
<1>3. /\ u.state = "open" /\ u.limited = t.limited /\ u.broken = t.broken
      /\ u.expired = t.expired /\ u.begin = 0 /\ u.end = Waiting(t) /\ u.out = out
  BY <1>1, <1>2 DEF Socket, compact
<1>4. out \in [1 .. OutRoom -> Byte \cup {None}]
  <2>1. ASSUME NEW i \in 1 .. OutRoom, i + t.begin <= t.end
        PROVE  t.out[i + t.begin] \in Byte
    <3>1. i + t.begin \in t.begin + 1 .. t.end
      BY <1>0, <2>1, SizeType
    <3> QED BY <3>1 DEF SocketOK
  <2> QED BY <1>2, <2>1
<1>5. u \in Socket
  <2>1. 0 \in 0 .. OutRoom
    BY SizeType
  <2> QED BY <1>0, <1>1, <1>2, <1>4, <2>1 DEF Socket, compact
<1>6. \A i \in 1 .. Waiting(t) : out[i] = t.out[t.begin + i]
  <2>1. ASSUME NEW i \in 1 .. Waiting(t) PROVE out[i] = t.out[t.begin + i]
    <3>1. i \in 1 .. OutRoom /\ i + t.begin <= t.end /\ i + t.begin = t.begin + i
      BY <1>0, SizeType
    <3> QED BY <1>2, <3>1
  <2> QED BY <2>1
<1>7. \A i \in 1 .. Waiting(t) : t.out[t.begin + i] \in Byte
  BY <1>0 DEF SocketOK
<1>8. SocketOK(u) /\ Waiting(u) = Waiting(t)
  BY <1>0, <1>3, <1>6, <1>7 DEF SocketOK, Waiting
<1>9. \A i \in 1 .. Waiting(u) : u.out[u.begin + i] = t.out[t.begin + i]
  BY <1>0, <1>3, <1>6, <1>8
<1>10. Out(u) = Out(t)
  BY <1>5, <1>8, <1>9, SameOut
<1> QED BY <1>1, <1>3, <1>5, <1>8, <1>10

(* append puts the frame behind what waits.                                *)
LEMMA AppendOK ==
  ASSUME NEW t \in Socket, SocketOK(t), t.state = "open",
         NEW bs \in Seq(Byte), Len(bs) <= OutRoom - Waiting(t)
  PROVE  /\ append(t, bs) \in Socket /\ SocketOK(append(t, bs))
         /\ append(t, bs).state = "open" /\ append(t, bs).limited = t.limited
         /\ append(t, bs).broken = t.broken /\ (append(t, bs).expired => t.expired)
         /\ Out(append(t, bs)) = Out(t) \o bs
<1>0. /\ t.begin \in Nat /\ t.end \in 0 .. OutRoom /\ t.begin <= t.end
      /\ Waiting(t) = t.end - t.begin /\ Waiting(t) \in 0 .. OutRoom
  BY SizeType DEF Socket, SocketOK, Waiting
<1>1. PICK at : at = IF t.end + Len(bs) > OutRoom THEN compact(t) ELSE t
  OBVIOUS
<1>2. PICK k \in Nat : k = Len(bs)
  BY LenProperties
<1>3. /\ at \in Socket /\ SocketOK(at) /\ Out(at) = Out(t) /\ at.state = "open"
      /\ at.limited = t.limited /\ at.broken = t.broken /\ at.expired = t.expired
      /\ at.end + k <= OutRoom
  <2>1. CASE t.end + k > OutRoom
    <3>1. at = compact(t)
      BY <1>1, <1>2, <2>1
    <3>2. Waiting(t) + k <= OutRoom
      BY <1>0, <1>2, SizeType
    <3> QED BY <3>1, <3>2, CompactOK
  <2>2. CASE ~(t.end + k > OutRoom)
    <3>1. at = t
      BY <1>1, <1>2, <2>2
    <3>2. t.end + k <= OutRoom
      BY <1>0, <1>2, <2>2, SizeType
    <3> QED BY <3>1, <3>2
  <2> QED BY <2>1, <2>2
<1>4. /\ at.begin \in Nat /\ at.end \in Nat /\ at.begin <= at.end
      /\ Waiting(at) = at.end - at.begin
  BY <1>3, SizeType DEF Socket, SocketOK, Waiting
<1>5. PICK out : out = [i \in 1 .. OutRoom |->
                          IF i \in at.end + 1 .. at.end + k THEN bs[i - at.end] ELSE at.out[i]]
  OBVIOUS
<1>6. PICK u : u = append(t, bs)
  OBVIOUS
<1>7. u = [at EXCEPT !.out = out, !.end = at.end + k, !.expired = @ /\ Waiting(at) # 0]
  BY <1>1, <1>2, <1>5, <1>6 DEF append
<1>8. /\ u.state = "open" /\ u.limited = t.limited /\ u.broken = t.broken
      /\ u.expired = (at.expired /\ Waiting(at) # 0)
      /\ u.begin = at.begin /\ u.end = at.end + k /\ u.out = out
  BY <1>3, <1>7 DEF Socket
<1>9. \A i \in 1 .. k : out[at.end + i] = bs[i] /\ bs[i] \in Byte
  <2>1. ASSUME NEW i \in 1 .. k PROVE out[at.end + i] = bs[i] /\ bs[i] \in Byte
    <3>1. at.end + i \in 1 .. OutRoom /\ at.end + i \in at.end + 1 .. at.end + k
          /\ (at.end + i) - at.end = i
      BY <1>2, <1>3, <1>4, SizeType
    <3>2. bs[i] \in Byte
      BY <1>2, ElementOfSeq
    <3> QED BY <1>5, <3>1, <3>2
  <2> QED BY <2>1
<1>10. \A i \in at.begin + 1 .. at.end : out[i] = at.out[i] /\ at.out[i] \in Byte
  <2>1. ASSUME NEW i \in at.begin + 1 .. at.end PROVE out[i] = at.out[i] /\ at.out[i] \in Byte
    <3>1. i \in 1 .. OutRoom /\ ~(i \in at.end + 1 .. at.end + k)
      BY <1>2, <1>3, <1>4, SizeType
    <3> QED BY <1>3, <1>5, <3>1 DEF SocketOK
  <2> QED BY <2>1
<1>11. \A i \in at.begin + 1 .. at.end + k : out[i] \in Byte
  <2>1. ASSUME NEW i \in at.begin + 1 .. at.end + k PROVE out[i] \in Byte
    <3>1. CASE i <= at.end
      BY <1>2, <1>4, <1>10, <3>1
    <3>2. CASE ~(i <= at.end)
      <4>1. PICK j \in 1 .. k : i = at.end + j
        <5>1. i - at.end \in 1 .. k /\ i = at.end + (i - at.end)
          BY <1>2, <1>4, <3>2
        <5> QED BY <5>1
      <4> QED BY <1>9, <4>1
    <3> QED BY <3>1, <3>2
  <2> QED BY <2>1
<1>12. u \in Socket
  <2>1. out \in [1 .. OutRoom -> Byte \cup {None}]
    <3>1. \A i \in 1 .. OutRoom : i \in at.end + 1 .. at.end + k => bs[i - at.end] \in Byte
      <4>1. ASSUME NEW i \in 1 .. OutRoom, i \in at.end + 1 .. at.end + k
            PROVE  bs[i - at.end] \in Byte
        <5>1. i - at.end \in 1 .. k
          BY <1>2, <1>4, <4>1
        <5> QED BY <1>9, <5>1
      <4> QED BY <4>1
    <3> QED BY <1>3, <1>5, <3>1 DEF Socket
  <2>2. at.end + k \in 0 .. OutRoom
    BY <1>2, <1>3, <1>4, SizeType
  <2>3. (at.expired /\ Waiting(at) # 0) \in BOOLEAN
    BY ZenonT(30)
  <2> QED BY <1>3, <1>7, <2>1, <2>2, <2>3 DEF Socket
<1>13. SocketOK(u)
  <2>1. u.begin <= u.end
    BY <1>2, <1>4, <1>8
  <2> QED BY <1>8, <1>11, <2>1 DEF SocketOK
<1>14. Out(u) = Out(at) \o bs
  <2>1. /\ Out(u) \in Seq(Byte) /\ Len(Out(u)) = Waiting(u)
        /\ \A i \in 1 .. Waiting(u) : Out(u)[i] = out[at.begin + i]
    BY <1>8, <1>12, <1>13, OutType
  <2>2. /\ Out(at) \in Seq(Byte) /\ Len(Out(at)) = Waiting(at) /\ Waiting(at) \in Nat
        /\ \A i \in 1 .. Waiting(at) : Out(at)[i] = at.out[at.begin + i]
    BY <1>3, OutType
  <2>3. /\ Out(at) \o bs \in Seq(Byte) /\ Len(Out(at) \o bs) = Len(Out(at)) + Len(bs)
        /\ \A i \in 1 .. Len(Out(at)) + Len(bs) : (Out(at) \o bs)[i] =
             IF i <= Len(Out(at)) THEN Out(at)[i] ELSE bs[i - Len(Out(at))]
    BY <2>2, ConcatProperties
  <2>4. Waiting(u) = Waiting(at) + k
    BY <1>2, <1>4, <1>8 DEF Waiting
  <2>5. ASSUME NEW i \in 1 .. Waiting(u) PROVE Out(u)[i] = (Out(at) \o bs)[i]
    <3>1. i \in 1 .. Len(Out(at)) + Len(bs)
      BY <1>2, <2>2, <2>4, <2>5
    <3>2. CASE i <= Waiting(at)
      <4>1. at.begin + i \in at.begin + 1 .. at.end /\ i \in 1 .. Waiting(at)
        BY <1>4, <2>2, <3>2
      <4> QED BY <1>10, <2>1, <2>2, <2>3, <3>1, <3>2, <4>1
    <3>3. CASE ~(i <= Waiting(at))
      <4>1. /\ i - Waiting(at) \in 1 .. k
            /\ at.begin + i = at.end + (i - Waiting(at))
        BY SMTT(30), <1>2, <1>4, <2>2, <2>4, <3>3
      <4> QED BY <1>9, <2>1, <2>2, <2>3, <3>1, <3>3, <4>1
    <3> QED BY <3>2, <3>3
  <2>6. Len(Out(u)) = Len(Out(at) \o bs)
    BY <1>2, <2>1, <2>2, <2>3, <2>4
  <2> QED BY <2>1, <2>3, <2>5, <2>6, SeqEqual
<1> QED BY <1>3, <1>6, <1>8, <1>12, <1>13, <1>14

-----------------------------------------------------------------------------
SenderOK ==
  /\ vita \in BOOLEAN /\ tx \in Socket /\ SocketOK(tx) /\ sending \in Seq(Byte)
  /\ frames \in 0 .. MaxFrames /\ conns \in 0 .. MaxConns
  /\ streams \in Seq(Stream) /\ Len(streams) = conns
  /\ \A c \in 1 .. conns : Len(streams[c].bytes) <= Room
  /\ tx.state = "open" => conns # 0
  /\ tx.state # "open" => sending = <<>>
  /\ IF vita THEN sending = <<>> ELSE tx.end = 0
ReaderOK ==
  /\ from \in 0 .. conns /\ rx \in BOOLEAN /\ (rx => from # 0)
  /\ part \in Seq(Byte) /\ Len(part) < Size
  /\ link \in {"waiting", "up", "lost"}
  /\ heard \in (0 .. MaxConns) \X (0 .. MaxFrames)
  /\ garbled \in BOOLEAN /\ torn \in BOOLEAN
BoundsOK == breaks \in 0 .. MaxBreaks /\ inits \in 0 .. MaxInits
ShapeInv == SenderOK /\ ReaderOK /\ BoundsOK

LEMMA ShapeIsType == ShapeInv => TypeOK
<1> SUFFICES ASSUME ShapeInv PROVE TypeOK
  OBVIOUS
<1>1. from \in 0 .. MaxConns
  BY BoundsAssumption DEF ShapeInv, SenderOK, ReaderOK
<1> QED BY <1>1 DEF ShapeInv, SenderOK, ReaderOK, BoundsOK, TypeOK, Socket, Stream

(* The connection is up; what is on its way from sender to reader on       *)
(* connection c, the part the sender still holds included.                 *)
Live == tx.state = "open" /\ ~streams[conns].closed
Flow(c) == IF c = conns /\ Live THEN streams[c].bytes \o Outgoing \o sending
           ELSE streams[c].bytes

(* What a step of the sender or of the network does to it: nothing, a      *)
(* frame joins it, or the connection ends and takes what is behind a byte. *)
Moves ==
  /\ conns' = conns /\ Len(streams') = conns
  /\ UNCHANGED <<rx, from, part, link, heard, garbled, torn>>
  /\ \A c \in 1 .. conns : c # conns \/ ~Live => streams'[c].bytes = streams[c].bytes
  /\ ~Live => ~Live'
  /\ Live => \/ Live' /\ frames' = frames /\ Flow(conns)' = Flow(conns)
             \/ /\ Live' /\ frames' = frames + 1
                /\ Flow(conns)' = Flow(conns) \o Frame(conns, frames + 1)
             \/ /\ ~Live'
                /\ \E k \in 0 .. Len(Flow(conns)) :
                     streams'[conns].bytes = SubSeq(Flow(conns), 1, k)

LEMMA Cut ==
  ASSUME NEW q \in Seq(Byte), NEW n \in 0 .. Len(q)
  PROVE  LET p == SubSeq(q, 1, n)
             r == SubSeq(q, n + 1, Len(q))
         IN /\ p \in Seq(Byte) /\ r \in Seq(Byte) /\ Len(p) = n /\ Len(r) = Len(q) - n
            /\ p \o r = q
            /\ \A i \in 1 .. n : p[i] = q[i]
            /\ \A i \in 1 .. Len(q) - n : r[i] = q[n + i]
<1>1. PICK k \in Nat : k = Len(q) /\ n \in Nat /\ n <= k
  BY LenProperties
<1>2. \A i \in 1 .. k : q[i] \in Byte
  BY <1>1, ElementOfSeq
<1>3. /\ SubSeq(q, 1, n) \in Seq(Byte)
      /\ Len(SubSeq(q, 1, n)) = IF 1 <= n THEN n - 1 + 1 ELSE 0
      /\ \A i \in 1 .. n - 1 + 1 : SubSeq(q, 1, n)[i] = q[1 + i - 1]
  BY <1>1, <1>2, SubSeqProperties
<1>4. PICK m \in Int : m = n + 1
  BY <1>1
<1>5. /\ SubSeq(q, m, k) \in Seq(Byte)
      /\ Len(SubSeq(q, m, k)) = IF m <= k THEN k - m + 1 ELSE 0
      /\ \A i \in 1 .. k - m + 1 : SubSeq(q, m, k)[i] = q[m + i - 1]
  <2>1. \A i \in m .. k : q[i] \in Byte
    BY <1>1, <1>2, <1>4
  <2> QED BY <2>1, <1>1, SubSeqProperties
<1>6. SubSeq(q, 1, n) \o SubSeq(q, n + 1, Len(q)) = SubSeq(q, 1, Len(q))
  <2>1. 1 \in 1 .. Len(q) + 1 /\ n \in 1 - 1 .. Len(q) /\ Len(q) \in n .. Len(q)
    BY <1>1
  <2> QED BY <2>1, ConcatAdjacentSubSeq
<1>7. SubSeq(q, 1, Len(q)) = q
  BY SubSeqFull
<1>8. /\ Len(SubSeq(q, 1, n)) = n /\ Len(SubSeq(q, m, k)) = k - n
      /\ \A i \in 1 .. n : SubSeq(q, 1, n)[i] = q[i]
      /\ \A i \in 1 .. k - n : SubSeq(q, m, k)[i] = q[n + i]
  <2>1. n - 1 + 1 = n /\ \A i \in 1 .. n : 1 + i - 1 = i
    BY <1>1
  <2>2. k - m + 1 = k - n /\ \A i \in 1 .. k - n : m + i - 1 = n + i
    BY <1>1, <1>4
  <2>3. (IF 1 <= n THEN n - 1 + 1 ELSE 0) = n /\ (IF m <= k THEN k - m + 1 ELSE 0) = k - n
    BY <1>1, <1>4
  <2> QED BY <1>3, <1>5, <2>1, <2>2, <2>3
<1> QED BY <1>1, <1>3, <1>4, <1>5, <1>6, <1>7, <1>8

(* A part of the first of two sequences is a part of both together.        *)
LEMMA PartOf ==
  ASSUME NEW p \in Seq(Byte), NEW q \in Seq(Byte), NEW k \in 0 .. Len(p)
  PROVE  k \in 0 .. Len(p \o q) /\ SubSeq(p \o q, 1, k) = SubSeq(p, 1, k)
<1>1. /\ p \o q \in Seq(Byte) /\ Len(p \o q) = Len(p) + Len(q)
      /\ \A i \in 1 .. Len(p) + Len(q) : (p \o q)[i] =
                     IF i <= Len(p) THEN p[i] ELSE q[i - Len(p)]
  BY ConcatProperties
<1>2. Len(p) \in Nat /\ Len(q) \in Nat
  BY LenProperties
<1>3. k \in 0 .. Len(p \o q)
  BY <1>1, <1>2
<1>4. /\ SubSeq(p, 1, k) \in Seq(Byte) /\ Len(SubSeq(p, 1, k)) = k
      /\ \A i \in 1 .. k : SubSeq(p, 1, k)[i] = p[i]
  BY Cut
<1>5. /\ SubSeq(p \o q, 1, k) \in Seq(Byte) /\ Len(SubSeq(p \o q, 1, k)) = k
      /\ \A i \in 1 .. k : SubSeq(p \o q, 1, k)[i] = (p \o q)[i]
  BY <1>1, <1>3, Cut
<1>6. \A i \in 1 .. k : (p \o q)[i] = p[i]
  BY <1>1, <1>2
<1> QED BY <1>3, <1>4, <1>5, <1>6, SeqEqual

LEMMA LastStream ==
  ASSUME SenderOK, conns # 0
  PROVE  /\ streams # <<>> /\ conns \in 1 .. conns /\ conns \in 1 .. MaxConns
         /\ Pipe = streams[conns] /\ streams[conns] \in Stream
         /\ streams[conns].bytes \in Seq(Byte) /\ Len(streams[conns].bytes) \in Nat
         /\ Len(streams[conns].bytes) <= Room
<1>1. /\ conns \in Nat /\ conns \in 1 .. conns /\ conns \in 1 .. MaxConns
      /\ streams \in Seq(Stream) /\ Len(streams) = conns
      /\ Len(streams[conns].bytes) <= Room
  BY BoundsAssumption DEF SenderOK
<1>2. streams[conns] \in Stream
  BY <1>1, ElementOfSeq
<1>3. streams # <<>>
  BY <1>1, EmptySeq
<1>4. Pipe = streams[conns]
  BY <1>1 DEF Pipe, Last
<1> QED BY <1>1, <1>2, <1>3, <1>4, LenProperties DEF Stream

(* A frame is Size bytes.                                                  *)
LEMMA FrameType ==
  ASSUME NEW c \in 1 .. MaxConns, NEW f \in 1 .. MaxFrames
  PROVE  /\ Frame(c, f) \in Seq(Byte) /\ Len(Frame(c, f)) = Size
         /\ \A i \in 1 .. Size : Frame(c, f)[i] = <<c, f, i>>
  BY SizeType DEF Frame, Byte

(* The streams after a step that touches only the last.                    *)
LEMMA StreamsOK ==
  ASSUME SenderOK, conns # 0, streams' \in Seq(Stream), Others(streams, streams'),
         conns' = conns, Len(streams'[conns].bytes) <= Room
  PROVE  /\ Len(streams') = conns
         /\ \A c \in 1 .. conns : Len(streams'[c].bytes) <= Room
         /\ \A c \in 1 .. conns : c # conns => streams'[c].bytes = streams[c].bytes
<1>1. conns \in Nat /\ Len(streams) = conns
  BY DEF SenderOK
<1>2. \A c \in 1 .. conns : c = conns \/ c \in 1 .. Len(streams) - 1
  BY <1>1
<1> QED BY <1>1, <1>2 DEF Others, SenderOK

-----------------------------------------------------------------------------
(* The steps of the sender and of the network.                             *)
LEMMA BeginWriteMoves ==
  ASSUME SenderOK, BeginWrite
  PROVE  SenderOK' /\ Moves
<1>1. conns # 0
  BY DEF BeginWrite, SenderOK
<1>2. frames + 1 \in 1 .. MaxFrames /\ frames + 1 \in 0 .. MaxFrames
  BY BoundsAssumption DEF BeginWrite, SenderOK
<1>3. /\ Frame(conns, frames + 1) \in Seq(Byte) /\ sending' = Frame(conns, frames + 1)
      /\ frames' = frames + 1 /\ sending = <<>>
      /\ UNCHANGED <<vita, conns, streams>> /\ conns \in 1 .. MaxConns
  BY <1>1, <1>2, FrameType, LastStream DEF BeginWrite
<1>4. /\ tx' \in Socket /\ SocketOK(tx') /\ tx'.state = "open" /\ tx.state = "open"
      /\ tx'.begin = tx.begin /\ tx'.end = tx.end /\ tx'.out = tx.out /\ ~vita
  BY DEF BeginWrite, SenderOK, Socket, SocketOK
<1>5. SenderOK'
  BY <1>1, <1>2, <1>3, <1>4 DEF SenderOK
<1>6. Live' = Live
  BY <1>3, <1>4 DEF Live
<1>7. Live => Flow(conns)' = Flow(conns) \o Frame(conns, frames + 1)
  <2> SUFFICES ASSUME Live PROVE Flow(conns)' = Flow(conns) \o Frame(conns, frames + 1)
    OBVIOUS
  <2>1. Outgoing' = Outgoing /\ Outgoing \in Seq(Byte)
    BY <1>4, OutType DEF Outgoing, Out, SenderOK
  <2>2. PICK p \in Seq(Byte) : p = streams[conns].bytes \o Outgoing
    BY <1>1, <2>1, LastStream, ConcatProperties
  <2>3. Flow(conns) = p \o <<>> /\ Flow(conns)' = p \o Frame(conns, frames + 1)
    BY <1>3, <1>6, <2>1, <2>2 DEF Flow
  <2>4. p \o <<>> = p
    BY ConcatEmptySeq
  <2> QED BY <2>3, <2>4
<1>8. UNCHANGED <<rx, from, part, link, heard, garbled, torn>>
  BY DEF BeginWrite, reader
<1> QED BY <1>3, <1>5, <1>6, <1>7, <1>8 DEF Moves, SenderOK

LEMMA SendMoves ==
  ASSUME SenderOK, Send
  PROVE  SenderOK' /\ Moves
<1>1. conns # 0 /\ tx.state = "open" /\ ~vita /\ tx.end = 0 /\ tx.begin = 0
  <2>1. tx.state = "open" /\ ~vita /\ tx.end = 0
    BY DEF Send, SenderOK
  <2> QED BY <2>1, SizeType DEF SenderOK, SocketOK, Socket
<1>2. PICK n \in 1 .. Len(sending) :
        /\ n <= Free
        /\ streams' = Sent(streams, SubSeq(sending, 1, n))
        /\ sending' = SubSeq(sending, n + 1, Len(sending))
  BY DEF Send
<1>3. sending \in Seq(Byte) /\ n \in 0 .. Len(sending) /\ n \in Nat
  BY LenProperties DEF SenderOK
<1>4. PICK a, b \in Seq(Byte) : a = SubSeq(sending, 1, n) /\ Len(a) = n
        /\ b = sending' /\ a \o b = sending
  <2>1. /\ SubSeq(sending, 1, n) \in Seq(Byte) /\ Len(SubSeq(sending, 1, n)) = n
        /\ SubSeq(sending, n + 1, Len(sending)) \in Seq(Byte)
        /\ SubSeq(sending, 1, n) \o SubSeq(sending, n + 1, Len(sending)) = sending
    BY <1>3, Cut
  <2> QED BY <1>2, <2>1
<1>5. PICK p \in Seq(Byte) : p = streams[conns].bytes
  BY <1>1, LastStream
<1>6. /\ streams' \in Seq(Stream) /\ Others(streams, streams')
      /\ streams'[conns].closed = streams[conns].closed
      /\ streams'[conns].bytes = IF streams[conns].closed THEN p ELSE p \o a
  BY <1>1, <1>2, <1>4, <1>5, LastStream, SentOK DEF SenderOK
<1>7. Len(streams'[conns].bytes) <= Room
  <2>1. Len(p \o a) = Len(p) + n /\ Len(p) \in Nat
    BY <1>4, ConcatProperties, LenProperties
  <2>2. n <= Room - Len(p) /\ Len(p) <= Room
    BY <1>1, <1>2, <1>5, LastStream DEF Free
  <2>3. Len(p) + n <= Room
    BY <1>3, <2>1, <2>2, SizeType
  <2>4. CASE streams[conns].closed
    BY <1>6, <2>2, <2>4
  <2>5. CASE ~streams[conns].closed
    BY <1>6, <2>1, <2>3, <2>5
  <2> QED BY <2>4, <2>5
<1>8. /\ tx' \in Socket /\ SocketOK(tx') /\ tx'.state = "open"
      /\ tx'.begin = 0 /\ tx'.end = 0
  BY <1>1 DEF Send, SenderOK, Socket, SocketOK
<1>9. UNCHANGED <<vita, frames, conns>>
      /\ UNCHANGED <<rx, from, part, link, heard, garbled, torn>>
  BY DEF Send, reader
<1>10. /\ Len(streams') = conns
       /\ \A c \in 1 .. conns : Len(streams'[c].bytes) <= Room
       /\ \A c \in 1 .. conns : c # conns => streams'[c].bytes = streams[c].bytes
  BY <1>1, <1>6, <1>7, <1>9, StreamsOK
<1>11. SenderOK'
  BY <1>1, <1>4, <1>6, <1>8, <1>9, <1>10 DEF SenderOK
<1>12. Live' = Live
  BY <1>1, <1>6, <1>8, <1>9 DEF Live
<1>13. Live => Flow(conns)' = Flow(conns)
  <2> SUFFICES ASSUME Live PROVE Flow(conns)' = Flow(conns)
    OBVIOUS
  <2>1. Outgoing = <<>> /\ Outgoing' = <<>>
    BY <1>1, <1>8, SubSeqEmpty DEF Outgoing
  <2>2. streams'[conns].bytes = p \o a
    BY <1>6 DEF Live
  <2>3. Flow(conns) = (p \o <<>>) \o sending /\ Flow(conns)' = ((p \o a) \o <<>>) \o b
    BY <1>4, <1>5, <1>9, <1>12, <2>1, <2>2 DEF Flow
  <2>4. p \o a \in Seq(Byte)
    BY ConcatProperties
  <2>5. p \o <<>> = p /\ (p \o a) \o <<>> = p \o a
    BY <2>4, ConcatEmptySeq
  <2>6. (p \o a) \o b = p \o (a \o b)
    BY Associative
  <2> QED BY <1>4, <2>3, <2>5, <2>6
<1>14. ~Live => \A c \in 1 .. conns : streams'[c].bytes = streams[c].bytes
  BY <1>1, <1>5, <1>6, <1>10 DEF Live
<1> QED BY <1>9, <1>10, <1>11, <1>12, <1>13, <1>14 DEF Moves

(* A connection that ends keeps what TCP has of it.                        *)
LEMMA FlowParts ==
  ASSUME SenderOK, Live
  PROVE  /\ conns # 0 /\ tx.state = "open" /\ Outgoing = Out(tx)
         /\ Flow(conns) \in Seq(Byte)
         /\ Held(tx, streams) \in Seq(Byte)
         /\ Flow(conns) = Held(tx, streams) \o sending
         /\ \A k \in 0 .. Len(streams[conns].bytes) :
              /\ k \in 0 .. Len(Flow(conns))
              /\ SubSeq(streams[conns].bytes, 1, k) = SubSeq(Flow(conns), 1, k)
         /\ \E k \in 0 .. Len(Flow(conns)) :
              streams[conns].bytes = SubSeq(Flow(conns), 1, k)
<1>1. conns # 0 /\ tx.state = "open" /\ Outgoing = Out(tx) /\ sending \in Seq(Byte)
  BY DEF SenderOK, Live, Outgoing, Out
<1>2. PICK p, q, s \in Seq(Byte) : p = streams[conns].bytes /\ q = Outgoing /\ s = sending
  BY <1>1, LastStream, OutType DEF SenderOK
<1>3. p \o q \in Seq(Byte) /\ (p \o q) \o s \in Seq(Byte) /\ q \o s \in Seq(Byte)
  BY ConcatProperties
<1>4. Held(tx, streams) = p \o q /\ Flow(conns) = (p \o q) \o s
  BY <1>1, <1>2 DEF Held, SenderOK, Flow
<1>5. (p \o q) \o s = p \o (q \o s)
  BY Associative
<1>6. \A k \in 0 .. Len(p) : /\ k \in 0 .. Len(Flow(conns))
                             /\ SubSeq(p, 1, k) = SubSeq(Flow(conns), 1, k)
  BY <1>3, <1>4, <1>5, PartOf
<1>7. Len(p) \in 0 .. Len(p) /\ SubSeq(p, 1, Len(p)) = p
  BY LenProperties, SubSeqFull
<1> QED BY <1>1, <1>2, <1>3, <1>4, <1>6, <1>7

LEMMA SendFailsMoves ==
  ASSUME SenderOK, SendFails
  PROVE  SenderOK' /\ Moves
<1>1. conns # 0 /\ tx.state = "open"
  BY DEF SendFails, SenderOK
<1>2. /\ sending' = <<>> /\ tx' = NoSocket /\ streams' = Closed(streams)
      /\ UNCHANGED <<vita, frames, conns, rx, from, part, link, heard, garbled, torn>>
  BY DEF SendFails, reader
<1>3. /\ streams' \in Seq(Stream) /\ Others(streams, streams')
      /\ streams'[conns].closed /\ streams'[conns].bytes = streams[conns].bytes
  BY <1>1, <1>2, LastStream, ClosedOK DEF SenderOK
<1>4. /\ Len(streams') = conns
      /\ \A c \in 1 .. conns : Len(streams'[c].bytes) <= Room
      /\ \A c \in 1 .. conns : c # conns => streams'[c].bytes = streams[c].bytes
  BY <1>1, <1>2, <1>3, LastStream, StreamsOK
<1>5. tx' \in Socket /\ SocketOK(tx') /\ tx'.state = "none" /\ tx'.end = 0
  BY <1>2, NewSocket DEF NoSocket
<1>6. SenderOK'
  <2>1. <<>> \in Seq(Byte)
    BY EmptySeq
  <2> QED BY <1>2, <1>3, <1>4, <1>5, <2>1 DEF SenderOK
<1>7. ~Live'
  BY <1>5 DEF Live
<1> QED BY <1>2, <1>3, <1>4, <1>6, <1>7, FlowParts DEF Moves

LEMMA BreakMoves ==
  ASSUME SenderOK, Break
  PROVE  SenderOK' /\ Moves
<1>1. conns # 0 /\ tx.state = "open" /\ UNCHANGED <<vita, tx, sending, frames, conns>>
      /\ UNCHANGED <<rx, from, part, link, heard, garbled, torn>>
  BY DEF Break, SenderOK, sender, reader
<1>2. PICK k \in 0 .. Len(streams[conns].bytes) :
        streams' = [streams EXCEPT ![conns] =
                      [bytes |-> SubSeq(streams[conns].bytes, 1, k), closed |-> TRUE]]
  BY <1>1, LastStream DEF Break, SenderOK
<1>3. PICK r : r = [bytes |-> SubSeq(streams[conns].bytes, 1, k), closed |-> TRUE]
  OBVIOUS
<1>4. /\ SubSeq(streams[conns].bytes, 1, k) \in Seq(Byte)
      /\ Len(SubSeq(streams[conns].bytes, 1, k)) = k /\ k <= Room
  BY <1>1, <1>2, LastStream, Cut, SizeType
<1>5. r \in Stream /\ r.closed /\ r.bytes = SubSeq(streams[conns].bytes, 1, k)
  BY <1>3, <1>4 DEF Stream
<1>6. /\ streams' \in Seq(Stream) /\ Len(streams') = Len(streams)
      /\ \A j \in 1 .. Len(streams) : streams'[j] = IF j = conns THEN r ELSE streams[j]
  <2>1. streams \in Seq(Stream) /\ conns \in 1 .. Len(streams)
    BY <1>1, LastStream DEF SenderOK
  <2> QED BY <1>2, <1>3, <1>5, <2>1, ExceptSeq
<1>7. /\ streams'[conns] = r /\ Others(streams, streams')
  BY <1>1, <1>6, LastStream DEF Others, SenderOK
<1>8. /\ Len(streams') = conns
      /\ \A c \in 1 .. conns : Len(streams'[c].bytes) <= Room
      /\ \A c \in 1 .. conns : c # conns => streams'[c].bytes = streams[c].bytes
  BY <1>1, <1>4, <1>5, <1>6, <1>7, StreamsOK
<1>9. SenderOK'
  BY <1>1, <1>6, <1>8 DEF SenderOK
<1>10. Live /\ ~Live'
  BY <1>1, <1>5, <1>7, LastStream DEF Live, Break
<1>11. \E j \in 0 .. Len(Flow(conns)) : streams'[conns].bytes = SubSeq(Flow(conns), 1, j)
  BY <1>2, <1>5, <1>7, <1>10, FlowParts
<1> QED BY <1>1, <1>8, <1>9, <1>10, <1>11 DEF Moves

(* Time passes, or the sender is told: only two flags change.              *)
LEMMA FlagMoves ==
  ASSUME SenderOK, Elapse \/ Notice
  PROVE  SenderOK' /\ Moves
<1>1. UNCHANGED <<vita, sending, frames, conns, streams>>
      /\ UNCHANGED <<rx, from, part, link, heard, garbled, torn>>
  BY DEF Elapse, Notice, reader
<1>2. /\ tx' \in Socket /\ SocketOK(tx') /\ tx'.state = tx.state
      /\ tx'.begin = tx.begin /\ tx'.end = tx.end /\ tx'.out = tx.out
  BY DEF Elapse, Notice, SenderOK, Socket, SocketOK
<1>3. SenderOK'
  BY <1>1, <1>2 DEF SenderOK
<1>4. Live' = Live /\ Outgoing' = Outgoing
  BY <1>1, <1>2 DEF Live, Outgoing
<1>5. Flow(conns)' = Flow(conns)
  BY <1>1, <1>4 DEF Flow
<1> QED BY <1>1, <1>3, <1>4, <1>5 DEF Moves, SenderOK

(* The Vita: what a write or a poll has done when it ends.                 *)
VitaKept ==
  /\ tx'.state = "open" /\ streams'[conns].closed = streams[conns].closed
  /\ IF streams[conns].closed THEN streams'[conns].bytes = streams[conns].bytes
     ELSE \/ frames' = frames /\ Held(tx', streams') = Held(tx, streams)
          \/ /\ frames' = frames + 1
             /\ Held(tx', streams') = Held(tx, streams) \o Frame(conns, frames + 1)
VitaLost ==
  /\ tx' = NoSocket /\ streams'[conns].closed
  /\ IF streams[conns].closed THEN streams'[conns].bytes = streams[conns].bytes
     ELSE \E k \in 0 .. Len(Held(tx, streams)) :
            streams'[conns].bytes = SubSeq(Held(tx, streams), 1, k)
VitaDid ==
  /\ tx' \in Socket /\ SocketOK(tx')
  /\ streams' \in Seq(Stream) /\ Others(streams, streams')
  /\ Len(streams'[conns].bytes) <= Room
  /\ VitaKept \/ VitaLost

LEMMA VitaMoves ==
  ASSUME SenderOK, vita, tx.state = "open", VitaDid, frames' \in 0 .. MaxFrames,
         UNCHANGED <<vita, sending, conns, rx, from, part, link, heard, garbled, torn>>
  PROVE  SenderOK' /\ Moves
<1>1. conns # 0 /\ sending = <<>> /\ Len(streams) = conns
  BY DEF SenderOK
<1>2. /\ Len(streams') = conns
      /\ \A c \in 1 .. conns : Len(streams'[c].bytes) <= Room
      /\ \A c \in 1 .. conns : c # conns => streams'[c].bytes = streams[c].bytes
  BY <1>1, StreamsOK DEF VitaDid
<1>3. SenderOK'
  BY <1>1, <1>2 DEF VitaDid, SenderOK
<1>4. ~Live => ~Live' /\ \A c \in 1 .. conns : streams'[c].bytes = streams[c].bytes
  <2> SUFFICES ASSUME ~Live
               PROVE  ~Live' /\ \A c \in 1 .. conns : streams'[c].bytes = streams[c].bytes
    OBVIOUS
  <2>1. streams[conns].closed
    BY DEF Live
  <2>2. streams'[conns].closed /\ streams'[conns].bytes = streams[conns].bytes
    BY <2>1 DEF VitaDid, VitaKept, VitaLost
  <2> QED BY <1>2, <2>2 DEF Live
<1>5. ASSUME Live
      PROVE  \/ Live' /\ frames' = frames /\ Flow(conns)' = Flow(conns)
             \/ /\ Live' /\ frames' = frames + 1
                /\ Flow(conns)' = Flow(conns) \o Frame(conns, frames + 1)
             \/ /\ ~Live'
                /\ \E k \in 0 .. Len(Flow(conns)) :
                     streams'[conns].bytes = SubSeq(Flow(conns), 1, k)
  <2>1. Held(tx, streams) \in Seq(Byte) /\ Flow(conns) = Held(tx, streams) \o <<>>
    BY <1>1, <1>5, FlowParts
  <2>2. Flow(conns) = Held(tx, streams)
    BY <2>1, ConcatEmptySeq
  <2>3. ~streams[conns].closed
    BY <1>5 DEF Live
  <2>4. CASE VitaKept
    <3>1. Live'
      BY <2>3, <2>4 DEF VitaKept, Live
    <3>2. /\ streams'[conns].bytes \in Seq(Byte) /\ Out(tx') \in Seq(Byte)
          /\ Outgoing' = Out(tx')
      <4>1. streams'[conns] \in Stream
        BY <1>1, <1>2, LastStream, ElementOfSeq DEF VitaDid
      <4>2. Out(tx') \in Seq(Byte)
        BY OutType DEF VitaDid
      <4> QED BY <4>1, <4>2 DEF Stream, Outgoing, Out
    <3>3. streams'[conns].bytes \o Out(tx') \in Seq(Byte)
      BY <3>2, ConcatProperties
    <3>4. Flow(conns)' = Held(tx', streams')
      <4>1. Held(tx', streams') = streams'[conns].bytes \o Out(tx')
        BY <1>2 DEF Held
      <4>2. Flow(conns)' = (streams'[conns].bytes \o Out(tx')) \o <<>>
        BY <1>1, <3>1, <3>2 DEF Flow
      <4> QED BY <3>3, <4>1, <4>2, ConcatEmptySeq
    <3> QED BY <2>2, <2>3, <2>4, <3>1, <3>4 DEF VitaKept
  <2>5. CASE VitaLost
    <3>1. ~Live'
      BY <2>5 DEF VitaLost, Live
    <3> QED BY <2>2, <2>3, <2>5, <3>1 DEF VitaLost
  <2> QED BY <2>4, <2>5 DEF VitaDid
<1> QED BY <1>2, <1>3, <1>4, <1>5 DEF Moves

(* What TCP has is a part of what it and the socket hold.                  *)
LEMMA HeldPart ==
  ASSUME NEW t \in Socket, SocketOK(t), NEW ss \in Seq(Stream), ss # <<>>
  PROVE  /\ Held(t, ss) \in Seq(Byte)
         /\ \E k \in 0 .. Len(Held(t, ss)) : ss[Len(ss)].bytes = SubSeq(Held(t, ss), 1, k)
<1>1. ss[Len(ss)] \in Stream
  BY EmptySeq, LenProperties, ElementOfSeq
<1>2. PICK p, q \in Seq(Byte) : p = ss[Len(ss)].bytes /\ q = Out(t)
  BY <1>1, OutType DEF Stream
<1>3. Held(t, ss) = p \o q /\ p \o q \in Seq(Byte)
  BY <1>2, ConcatProperties DEF Held
<1>4. PICK k \in 0 .. Len(p) : SubSeq(p, 1, k) = p
  BY LenProperties, SubSeqFull
<1>5. k \in 0 .. Len(p \o q) /\ SubSeq(p \o q, 1, k) = p
  BY <1>4, PartOf
<1> QED BY <1>2, <1>3, <1>5

LEMMA FlushDid ==
  ASSUME SenderOK, tx.state = "open", frames' = frames,
         Flushed(tx, streams, tx', streams')
  PROVE  VitaDid
<1>1. conns # 0 /\ Len(streams) = conns /\ tx \in Socket /\ SocketOK(tx)
  BY DEF SenderOK
<1>2. CASE Stays(tx, streams, tx', streams')
  <2>1. VitaKept
    BY <1>1, <1>2 DEF Stays, VitaKept
  <2> QED BY <1>1, <2>1 DEF Flushed, VitaDid
<1>3. CASE GaveUp(tx, streams, tx', streams')
  <2>1. \E k \in 0 .. Len(Held(tx, streams)) :
          streams[conns].bytes = SubSeq(Held(tx, streams), 1, k)
    BY <1>1, LastStream, HeldPart DEF SenderOK
  <2>2. VitaLost
    BY <1>1, <1>3, <2>1 DEF GaveUp, VitaLost
  <2> QED BY <1>1, <2>2 DEF Flushed, VitaDid
<1> QED BY <1>2, <1>3 DEF Flushed

LEMMA PollMoves ==
  ASSUME SenderOK, Poll
  PROVE  SenderOK' /\ Moves
<1>1. /\ vita /\ tx.state = "open" /\ frames' = frames
      /\ tx' = flush(tx, streams)[1] /\ streams' = flush(tx, streams)[2]
      /\ UNCHANGED <<vita, sending, conns, rx, from, part, link, heard, garbled, torn>>
  BY DEF Poll, After, Flush, reader
<1>2. conns # 0 /\ tx \in Socket /\ SocketOK(tx) /\ streams \in Seq(Stream)
      /\ Len(streams) = conns /\ frames \in 0 .. MaxFrames
  BY <1>1 DEF SenderOK
<1>3. Flushed(tx, streams, tx', streams')
  BY <1>1, <1>2, LastStream, FlushOK
<1> QED BY <1>1, <1>2, <1>3, FlushDid, VitaMoves

(* The three outcomes of a write.                                          *)
FirstFlush(u, st) == u = flush(tx, streams)[1] /\ st = flush(tx, streams)[2]
LEMMA WriteCases ==
  ASSUME SenderOK, WriteVita
  PROVE  \E u \in Socket, st \in Seq(Stream) :
           /\ FirstFlush(u, st) /\ Flushed(tx, streams, u, st)
           /\ \/ u.state = "none" /\ frames' = frames /\ tx' = u /\ streams' = st
              \/ /\ u.state = "open" /\ Size > OutRoom - Waiting(u) /\ frames' = frames
                 /\ tx' = NoSocket /\ streams' = Closed(st)
              \/ /\ u.state = "open" /\ Size <= OutRoom - Waiting(u) /\ frames' = frames + 1
                 /\ \E v \in Socket :
                      /\ v = append(u, Frame(conns, frames + 1)) /\ SocketOK(v)
                      /\ v.state = "open" /\ v.broken = u.broken /\ (v.expired => u.expired)
                      /\ Out(v) = Out(u) \o Frame(conns, frames + 1)
                      /\ Flushed(v, st, tx', streams')
<1>1. /\ tx.state = "open" /\ conns # 0 /\ tx \in Socket /\ SocketOK(tx)
      /\ streams \in Seq(Stream) /\ Len(streams) = conns
  BY DEF WriteVita, SenderOK
<1>2. PICK u, st : FirstFlush(u, st)
  BY DEF FirstFlush
<1>3. Flushed(tx, streams, u, st)
  BY <1>1, <1>2, LastStream, FlushOK DEF FirstFlush
<1>4. u \in Socket /\ SocketOK(u) /\ st \in Seq(Stream) /\ Len(st) = conns
      /\ Len(st[conns].bytes) <= Room /\ st # <<>>
  BY <1>1, <1>3, EmptySeq DEF Flushed, Others
<1>5. PICK f : f = frames + 1
  OBVIOUS
<1>6. \/ u.state = "none" /\ frames' = frames /\ tx' = u /\ streams' = st
      \/ /\ u.state = "open" /\ Size > OutRoom - Waiting(u) /\ frames' = frames
         /\ tx' = NoSocket /\ streams' = Closed(st)
      \/ /\ u.state = "open" /\ Size <= OutRoom - Waiting(u) /\ frames' = f
         /\ tx' = flush(append(u, Frame(conns, f)), st)[1]
         /\ streams' = flush(append(u, Frame(conns, f)), st)[2]
  BY <1>2, <1>5 DEF WriteVita, FirstFlush, After, Disconnect
<1>7. CASE /\ u.state = "open" /\ Size <= OutRoom - Waiting(u) /\ frames' = f
           /\ tx' = flush(append(u, Frame(conns, f)), st)[1]
           /\ streams' = flush(append(u, Frame(conns, f)), st)[2]
  <2>1. f \in 1 .. MaxFrames /\ conns \in 1 .. MaxConns
    BY <1>1, <1>5, LastStream, BoundsAssumption DEF WriteVita, SenderOK
  <2>2. Frame(conns, f) \in Seq(Byte) /\ Len(Frame(conns, f)) = Size
    BY <2>1, FrameType
  <2>3. PICK v : v = append(u, Frame(conns, f))
    OBVIOUS
  <2>4. /\ v \in Socket /\ SocketOK(v) /\ v.state = "open" /\ v.broken = u.broken
        /\ (v.expired => u.expired) /\ Out(v) = Out(u) \o Frame(conns, f)
    BY <1>4, <1>7, <2>2, <2>3, AppendOK
  <2>5. Flushed(v, st, tx', streams')
    BY <1>4, <1>7, <2>3, <2>4, FlushOK
  <2> QED BY <1>2, <1>3, <1>4, <1>5, <1>7, <2>3, <2>4, <2>5
<1>8. CASE \/ u.state = "none" /\ frames' = frames /\ tx' = u /\ streams' = st
           \/ /\ u.state = "open" /\ Size > OutRoom - Waiting(u) /\ frames' = frames
              /\ tx' = NoSocket /\ streams' = Closed(st)
  BY <1>2, <1>3, <1>4, <1>8
<1> QED BY <1>6, <1>7, <1>8

LEMMA WriteVitaMoves ==
  ASSUME SenderOK, WriteVita
  PROVE  SenderOK' /\ Moves
<1>1. /\ vita /\ tx.state = "open" /\ frames < MaxFrames
      /\ UNCHANGED <<vita, sending, conns, rx, from, part, link, heard, garbled, torn>>
  BY DEF WriteVita, reader
<1>2. /\ conns # 0 /\ tx \in Socket /\ SocketOK(tx) /\ streams \in Seq(Stream)
      /\ Len(streams) = conns /\ frames \in 0 .. MaxFrames /\ streams # <<>>
  BY <1>1, LastStream DEF SenderOK
<1>3. frames + 1 \in 0 .. MaxFrames
  BY <1>1, <1>2, BoundsAssumption
<1>4. PICK u \in Socket, st \in Seq(Stream) :
           /\ FirstFlush(u, st) /\ Flushed(tx, streams, u, st)
           /\ \/ u.state = "none" /\ frames' = frames /\ tx' = u /\ streams' = st
              \/ /\ u.state = "open" /\ Size > OutRoom - Waiting(u) /\ frames' = frames
                 /\ tx' = NoSocket /\ streams' = Closed(st)
              \/ /\ u.state = "open" /\ Size <= OutRoom - Waiting(u) /\ frames' = frames + 1
                 /\ \E v \in Socket :
                      /\ v = append(u, Frame(conns, frames + 1)) /\ SocketOK(v)
                      /\ v.state = "open" /\ v.broken = u.broken /\ (v.expired => u.expired)
                      /\ Out(v) = Out(u) \o Frame(conns, frames + 1)
                      /\ Flushed(v, st, tx', streams')
  BY WriteCases
<1>5. /\ SocketOK(u) /\ Others(streams, st) /\ Len(st) = conns /\ st # <<>>
      /\ Len(st[conns].bytes) <= Room
  BY <1>2, <1>4, EmptySeq DEF Flushed, Others
<1>6. CASE u.state = "none" /\ frames' = frames /\ tx' = u /\ streams' = st
  BY <1>1, <1>2, <1>4, <1>6, FlushDid, VitaMoves
<1>7. ASSUME u.state = "open"
      PROVE  Stays(tx, streams, u, st)
  BY <1>4, <1>7 DEF Flushed, GaveUp, NoSocket
<1>8. ASSUME u.state = "open", ~streams[conns].closed
      PROVE  \E k \in 0 .. Len(Held(tx, streams)) :
               st[conns].bytes = SubSeq(Held(tx, streams), 1, k)
  <2>1. Held(u, st) = Held(tx, streams)
    BY <1>2, <1>7, <1>8 DEF Stays
  <2> QED BY <1>5, <2>1, HeldPart
<1>9. CASE /\ u.state = "open" /\ Size > OutRoom - Waiting(u) /\ frames' = frames
           /\ tx' = NoSocket /\ streams' = Closed(st)
  <2>1. /\ streams' \in Seq(Stream) /\ Others(st, streams') /\ streams'[conns].closed
        /\ streams'[conns].bytes = st[conns].bytes
    BY <1>5, <1>9, ClosedOK
  <2>2. Others(streams, streams') /\ Len(streams'[conns].bytes) <= Room
    BY <1>2, <1>5, <2>1 DEF Others
  <2>3. streams[conns].closed => streams'[conns].bytes = streams[conns].bytes
    BY <1>2, <1>7, <1>9, <2>1 DEF Stays
  <2>4. VitaLost
    BY <1>8, <1>9, <2>1, <2>3 DEF VitaLost
  <2>5. VitaDid
    BY <1>9, <2>1, <2>2, <2>4, NewSocket DEF VitaDid
  <2> QED BY <1>1, <1>2, <1>9, <2>5, VitaMoves
<1>10. ASSUME u.state = "open", frames' = frames + 1, NEW v \in Socket,
              SocketOK(v), Out(v) = Out(u) \o Frame(conns, frames + 1),
              Flushed(v, st, tx', streams')
       PROVE  SenderOK' /\ Moves
  <2>1. streams' \in Seq(Stream) /\ Others(streams, streams') /\ tx' \in Socket /\ SocketOK(tx')
        /\ Len(streams'[conns].bytes) <= Room
    BY <1>2, <1>5, <1>10 DEF Flushed, Others
  <2>2. st[conns].closed = streams[conns].closed
        /\ (streams[conns].closed => st[conns].bytes = streams[conns].bytes)
        /\ (~streams[conns].closed => Held(u, st) = Held(tx, streams))
    BY <1>2, <1>7, <1>10 DEF Stays
  <2>3. CASE Stays(v, st, tx', streams')
    <3>1. streams'[conns].closed = streams[conns].closed /\ tx'.state = "open"
      BY <1>5, <2>2, <2>3 DEF Stays
    <3>2. streams[conns].closed => streams'[conns].bytes = streams[conns].bytes
      BY <1>5, <2>2, <2>3 DEF Stays
    <3>3. ASSUME ~streams[conns].closed
          PROVE  Held(tx', streams') = Held(tx, streams) \o Frame(conns, frames + 1)
      <4>1. Held(tx', streams') = Held(v, st)
        BY <1>5, <2>2, <2>3, <3>3 DEF Stays
      <4>2. PICK p, q, r \in Seq(Byte) :
              p = st[conns].bytes /\ q = Out(u) /\ r = Frame(conns, frames + 1)
        <5>1. st[conns] \in Stream
          BY <1>2, <1>5, LastStream, ElementOfSeq
        <5>2. Frame(conns, frames + 1) \in Seq(Byte)
          <6>1. frames + 1 \in 1 .. MaxFrames
            BY <1>1, <1>2, BoundsAssumption
          <6> QED BY <1>2, <6>1, LastStream, FrameType
        <5>3. Out(u) \in Seq(Byte)
          BY <1>5, OutType
        <5> QED BY <5>1, <5>2, <5>3 DEF Stream
      <4>3. Held(v, st) = p \o (q \o r) /\ Held(u, st) = p \o q
        BY <1>5, <1>10, <4>2 DEF Held
      <4>4. (p \o q) \o r = p \o (q \o r)
        BY Associative
      <4> QED BY <2>2, <3>3, <4>1, <4>2, <4>3, <4>4
    <3>4. VitaKept
      BY <1>10, <3>1, <3>2, <3>3 DEF VitaKept
    <3>5. VitaDid
      BY <2>1, <3>4 DEF VitaDid
    <3> QED BY <1>1, <1>2, <1>3, <1>10, <3>5, VitaMoves
  <2>4. CASE GaveUp(v, st, tx', streams')
    <3>1. tx' = NoSocket /\ streams'[conns].closed /\ streams'[conns].bytes = st[conns].bytes
      BY <1>5, <2>4 DEF GaveUp
    <3>2. VitaLost
      BY <1>8, <1>10, <2>2, <3>1 DEF VitaLost
    <3>3. VitaDid
      BY <2>1, <3>2 DEF VitaDid
    <3> QED BY <1>1, <1>2, <1>3, <1>10, <3>3, VitaMoves
  <2> QED BY <1>10, <2>3, <2>4 DEF Flushed
<1> QED BY <1>4, <1>6, <1>9, <1>10

-----------------------------------------------------------------------------
(* The place of byte n of a connection, and bytes that follow byte a of it *)
(* one after the other.                                                    *)
At(c, n) == <<c, ((n - 1) \div Size) + 1, ((n - 1) % Size) + 1>>
Run(q, c, a) == \A i \in 1 .. Len(q) : q[i] = At(c, a + i)

(* With p in front, what is on its way on c runs on from byte a, and to    *)
(* the end of the last frame when the connection is up.                    *)
Fits(p, c, a) ==
  /\ Run(p \o Flow(c), c, a)
  /\ Live /\ c = conns => a + Len(p) + Len(Flow(c)) = frames * Size

(* Of the connection that is up: it runs.  Of one the reader has not taken *)
(* up: from its first byte.  Of the reader's, unless it has lost step: it  *)
(* follows rx_ of the board, and rx_ the last frame handled.               *)
FlowInv  == Live => \E a \in Nat : Fits(<<>>, conns, a)
AheadInv == \A c \in from + 1 .. conns : Fits(<<>>, c, 0)
InStep   == ~torn /\ from # 0 /\ (link # "lost" \/ part = <<>>)
Had      == IF heard[1] = from THEN heard[2] ELSE 0
ReadInv ==
  /\ ~torn => ~garbled /\ heard[1] <= from
  /\ ~torn /\ ~rx /\ link # "lost" => part = <<>>
  /\ InStep => Fits(part, from, Had * Size)
CableInv == ShapeInv /\ FlowInv /\ AheadInv /\ ReadInv

LEMMA AtPlace ==
  ASSUME NEW c, NEW f \in Nat, NEW i \in 1 .. Size
  PROVE  At(c, f * Size + i) = <<c, f + 1, i>>
<1>1. PICK s \in Nat : s = Size /\ s > 0
  BY SizeType
<1>2. PICK j \in 0 .. s - 1 : i = j + 1
  <2>1. i - 1 \in 0 .. s - 1 /\ i = (i - 1) + 1
    BY <1>1
  <2> QED BY <2>1
<1>3. (f * s + j) \div s = f
  BY ONLY <1>1, f \in Nat, j \in 0 .. s - 1
<1>4. (f * s + j) % s = j
  BY ONLY <1>1, f \in Nat, j \in 0 .. s - 1
<1>5. f * Size + i - 1 = f * s + j
  BY <1>1, <1>2
<1> QED BY <1>1, <1>2, <1>3, <1>4, <1>5 DEF At

LEMMA AtFollows ==
  ASSUME NEW c, NEW n \in Nat, n > 0
  PROVE  Follows(At(c, n), At(c, n + 1))
<1>1. PICK s \in Nat : s = Size /\ s > 0
  BY SizeType
<1>2. PICK m \in Nat : n = m + 1
  <2>1. n - 1 \in Nat /\ n = (n - 1) + 1
    OBVIOUS
  <2> QED BY <2>1
<1>3. PICK f \in Nat, j \in 0 .. s - 1 : m = f * s + j
  <2>1. m = (m \div s) * s + (m % s)
    BY ONLY <1>1, m \in Nat
  <2>2. m % s \in 0 .. s - 1
    BY ONLY <1>1, m \in Nat
  <2>3. m \div s \in Nat
    BY ONLY <1>1, m \in Nat
  <2> QED BY <2>1, <2>2, <2>3
<1>4. At(c, n) = <<c, f + 1, j + 1>>
  <2>1. j + 1 \in 1 .. Size /\ n = f * Size + (j + 1)
    BY <1>1, <1>2, <1>3
  <2> QED BY <2>1, AtPlace
<1>5. CASE j + 1 = s
  <2>1. (f + 1) * s = f * s + s
    BY ONLY <1>1, f \in Nat
  <2>2. f + 1 \in Nat /\ 1 \in 1 .. Size /\ n + 1 = (f + 1) * Size + 1
    BY <1>1, <1>2, <1>3, <1>5, <2>1
  <2>3. At(c, n + 1) = <<c, f + 1 + 1, 1>>
    BY <2>2, AtPlace
  <2> QED BY <1>1, <1>4, <1>5, <2>3 DEF Follows
<1>6. CASE j + 1 # s
  <2>1. j + 2 \in 1 .. Size /\ n + 1 = f * Size + (j + 2)
    BY <1>1, <1>2, <1>3, <1>6
  <2>2. At(c, n + 1) = <<c, f + 1, j + 2>>
    BY <2>1, AtPlace
  <2> QED BY <1>1, <1>4, <1>6, <2>2 DEF Follows
<1> QED BY <1>5, <1>6

LEMMA RunTogether ==
  ASSUME NEW p \in Seq(Byte), NEW q \in Seq(Byte), NEW c, NEW a \in Nat
  PROVE  /\ p \o q \in Seq(Byte) /\ Len(p \o q) = Len(p) + Len(q)
         /\ Run(p \o q, c, a) <=> Run(p, c, a) /\ Run(q, c, a + Len(p))
<1>1. /\ p \o q \in Seq(Byte) /\ Len(p \o q) = Len(p) + Len(q)
      /\ \A i \in 1 .. Len(p) + Len(q) : (p \o q)[i] =
                     IF i <= Len(p) THEN p[i] ELSE q[i - Len(p)]
  BY ConcatProperties
<1>2. PICK k, m \in Nat : k = Len(p) /\ m = Len(q)
  BY LenProperties
<1>3. ASSUME Run(p \o q, c, a) PROVE Run(p, c, a) /\ Run(q, c, a + Len(p))
  <2>1. ASSUME NEW i \in 1 .. k PROVE p[i] = At(c, a + i)
    <3>1. i \in 1 .. k + m /\ i <= k
      BY <1>2
    <3> QED BY <1>1, <1>2, <1>3, <3>1 DEF Run
  <2>2. ASSUME NEW i \in 1 .. m PROVE q[i] = At(c, (a + k) + i)
    <3>1. k + i \in 1 .. k + m /\ ~(k + i <= k) /\ (k + i) - k = i /\ a + (k + i) = (a + k) + i
      BY <1>2
    <3>2. (p \o q)[k + i] = At(c, a + (k + i))
      BY <1>1, <1>2, <1>3, <3>1 DEF Run
    <3> QED BY <1>1, <1>2, <3>1, <3>2
  <2> QED BY <1>2, <2>1, <2>2 DEF Run
<1>4. ASSUME Run(p, c, a), Run(q, c, a + Len(p)) PROVE Run(p \o q, c, a)
  <2>1. ASSUME NEW i \in 1 .. k + m PROVE (p \o q)[i] = At(c, a + i)
    <3>1. CASE i <= k
      <4>1. i \in 1 .. k
        BY <1>2, <3>1
      <4> QED BY <1>1, <1>2, <1>4, <3>1, <4>1 DEF Run
    <3>2. CASE ~(i <= k)
      <4>1. i - k \in 1 .. m /\ (a + k) + (i - k) = a + i
        BY <1>2, <3>2
      <4>2. q[i - k] = At(c, (a + k) + (i - k))
        BY <1>2, <1>4, <4>1 DEF Run
      <4> QED BY <1>1, <1>2, <3>2, <4>1, <4>2
    <3> QED BY <3>1, <3>2
  <2> QED BY <1>1, <1>2, <2>1 DEF Run
<1> QED BY <1>1, <1>3, <1>4

LEMMA RunPart ==
  ASSUME NEW q \in Seq(Byte), NEW c, NEW a \in Nat, Run(q, c, a), NEW k \in 0 .. Len(q)
  PROVE  SubSeq(q, 1, k) \in Seq(Byte) /\ Run(SubSeq(q, 1, k), c, a)
<1>1. /\ SubSeq(q, 1, k) \in Seq(Byte) /\ Len(SubSeq(q, 1, k)) = k
      /\ \A i \in 1 .. k : SubSeq(q, 1, k)[i] = q[i]
  BY Cut
<1>2. \A i \in 1 .. k : i \in 1 .. Len(q)
  BY LenProperties
<1> QED BY <1>1, <1>2 DEF Run

LEMMA RunFrame ==
  ASSUME NEW c \in 1 .. MaxConns, NEW f \in Nat, f + 1 \in 1 .. MaxFrames
  PROVE  Run(Frame(c, f + 1), c, f * Size)
<1>1. /\ Len(Frame(c, f + 1)) = Size
      /\ \A i \in 1 .. Size : Frame(c, f + 1)[i] = <<c, f + 1, i>>
  BY FrameType
<1>2. \A i \in 1 .. Size : At(c, f * Size + i) = <<c, f + 1, i>>
  BY AtPlace
<1> QED BY <1>1, <1>2 DEF Run

LEMMA FlowType ==
  ASSUME SenderOK, NEW c \in 1 .. conns
  PROVE  Flow(c) \in Seq(Byte) /\ c \in 1 .. MaxConns
         /\ streams[c] \in Stream /\ Len(Flow(c)) \in Nat
<1>1. streams[c] \in Stream
  BY ElementOfSeq DEF SenderOK
<1>2. c \in 1 .. MaxConns
  BY BoundsAssumption DEF SenderOK
<1>3. Flow(c) \in Seq(Byte)
  BY <1>1, FlowParts DEF Flow, Stream
<1> QED BY <1>1, <1>2, <1>3, LenProperties

(* A step of the sender or of the network leaves what runs running.        *)
LEMMA RunOn ==
  ASSUME SenderOK, SenderOK', Moves, NEW c \in 1 .. conns,
         NEW p \in Seq(Byte), NEW a \in Nat, Fits(p, c, a)
  PROVE  Fits(p, c, a)'
<1>1. PICK q \in Seq(Byte) : q = Flow(c) /\ c \in 1 .. MaxConns
  BY FlowType
<1>2. Run(p \o q, c, a) /\ p \o q \in Seq(Byte) /\ Len(p \o q) = Len(p) + Len(q)
  BY <1>1, RunTogether DEF Fits
<1>3. conns' = conns /\ Len(p) \in Nat /\ Len(q) \in Nat
  BY LenProperties DEF Moves
<1>4. CASE Flow(c)' = Flow(c) /\ (Live' /\ c = conns => Live /\ frames' = frames)
  BY <1>3, <1>4 DEF Fits
<1>5. CASE /\ c = conns /\ Live /\ frames' = frames + 1
           /\ Flow(c)' = Flow(c) \o Frame(conns, frames + 1)
  <2>1. frames \in Nat /\ frames + 1 \in 1 .. MaxFrames
    BY <1>5, BoundsAssumption DEF SenderOK
  <2>2. PICK f \in Seq(Byte) : f = Frame(c, frames + 1) /\ Len(f) = Size
                               /\ Run(f, c, frames * Size)
    BY <1>1, <2>1, FrameType, RunFrame
  <2>3. a + Len(p) + Len(q) = frames * Size
    BY <1>1, <1>5 DEF Fits
  <2>4. Run((p \o q) \o f, c, a) /\ Len(q \o f) = Len(q) + Len(f)
    <3>1. a + Len(p \o q) = frames * Size
      BY <1>2, <1>3, <2>3
    <3>2. PICK pq \in Seq(Byte) : pq = p \o q
      BY <1>2
    <3>3. Run(pq, c, a) /\ Run(f, c, a + Len(pq))
      BY <1>2, <2>2, <3>1, <3>2
    <3>4. Run(pq \o f, c, a)
      BY <3>3, RunTogether
    <3> QED BY <3>2, <3>4, RunTogether
  <2>5. (p \o q) \o f = p \o (q \o f)
    BY Associative
  <2>6. frames' * Size = frames * Size + Size
    BY <1>5, <2>1, SizeType
  <2>7. a + Len(p) + (Len(q) + Size) = frames' * Size
    BY <1>3, <2>1, <2>3, <2>6, SizeType
  <2> QED BY <1>1, <1>5, <2>2, <2>4, <2>5, <2>7 DEF Fits
<1>6. CASE /\ c = conns /\ ~Live'
           /\ \E k \in 0 .. Len(Flow(c)) : Flow(c)' = SubSeq(Flow(c), 1, k)
  <2>1. PICK k \in 0 .. Len(q) : Flow(c)' = SubSeq(q, 1, k)
    BY <1>1, <1>6
  <2>2. Run(p, c, a) /\ Run(q, c, a + Len(p)) /\ a + Len(p) \in Nat
    BY <1>2, <1>3, RunTogether
  <2>3. SubSeq(q, 1, k) \in Seq(Byte) /\ Run(SubSeq(q, 1, k), c, a + Len(p))
    BY <2>2, RunPart
  <2>4. Run(p \o SubSeq(q, 1, k), c, a)
    BY <2>2, <2>3, RunTogether
  <2> QED BY <1>6, <2>1, <2>4 DEF Fits
<1>7. CASE c # conns \/ ~Live
  <2>1. Flow(c) = streams[c].bytes /\ streams'[c].bytes = streams[c].bytes
        /\ (~Live => ~Live')
    BY <1>7 DEF Flow, Moves
  <2>2. Flow(c)' = streams'[c].bytes
    BY <1>3, <1>7, <2>1 DEF Flow
  <2> QED BY <1>3, <1>4, <1>7, <2>1, <2>2
<1>8. CASE c = conns /\ Live
  <2>1. ~Live' => Flow(c)' = streams'[c].bytes
    BY DEF Flow
  <2>2. \/ Live' /\ frames' = frames /\ Flow(c)' = Flow(c)
        \/ /\ Live' /\ frames' = frames + 1
           /\ Flow(c)' = Flow(c) \o Frame(conns, frames + 1)
        \/ /\ ~Live'
           /\ \E k \in 0 .. Len(Flow(c)) : streams'[c].bytes = SubSeq(Flow(c), 1, k)
    BY <1>8 DEF Moves
  <2> QED BY <1>4, <1>5, <1>6, <1>8, <2>1, <2>2
<1> QED BY <1>7, <1>8

LEMMA MovesKeep ==
  ASSUME CableInv, SenderOK', Moves
  PROVE  ReaderOK' /\ FlowInv' /\ AheadInv' /\ ReadInv'
<1>1. /\ conns' = conns /\ UNCHANGED <<rx, from, part, link, heard, garbled, torn>>
      /\ conns \in Nat /\ from \in 0 .. conns /\ part \in Seq(Byte) /\ SenderOK
      /\ <<>> \in Seq(Byte)
  BY EmptySeq DEF Moves, CableInv, ShapeInv, SenderOK, ReaderOK
<1>2. ReaderOK'
  BY <1>1 DEF CableInv, ShapeInv, ReaderOK
<1>3. FlowInv'
  <2> SUFFICES ASSUME Live' PROVE \E a \in Nat : Fits(<<>>, conns, a)'
    BY <1>1 DEF FlowInv
  <2>1. Live /\ conns # 0
    BY <1>1 DEF Moves, SenderOK, Live
  <2>2. PICK a \in Nat : Fits(<<>>, conns, a)
    BY <2>1 DEF CableInv, FlowInv
  <2>3. PICK c \in 1 .. conns : c = conns
    BY <1>1, <2>1
  <2>4. Fits(<<>>, c, a)'
    BY <1>1, <2>2, <2>3, RunOn
  <2> QED BY <1>1, <2>3, <2>4
<1>4. AheadInv'
  <2>1. ASSUME NEW c \in from + 1 .. conns PROVE Fits(<<>>, c, 0)'
    <3>1. c \in 1 .. conns /\ Fits(<<>>, c, 0) /\ 0 \in Nat
      BY <1>1 DEF CableInv, AheadInv
    <3> QED BY <1>1, <3>1, RunOn
  <2> QED BY <1>1, <2>1 DEF AheadInv
<1>5. ReadInv'
  <2>1. /\ ~torn' => ~garbled' /\ heard'[1] <= from'
        /\ ~torn' /\ ~rx' /\ link' # "lost" => part' = <<>>
    BY <1>1 DEF CableInv, ReadInv
  <2>2. ASSUME InStep PROVE Fits(part, from, Had * Size)'
    <3>1. PICK p \in Seq(Byte), c \in 1 .. conns, a \in Nat :
            p = part /\ c = from /\ a = Had * Size
      <4>1. from \in 1 .. conns
        BY <1>1, <2>2 DEF InStep
      <4>2. Had \in Nat
        BY BoundsAssumption DEF CableInv, ShapeInv, ReaderOK, Had
      <4>3. Had * Size \in Nat
        BY <4>2, SizeType
      <4> QED BY <1>1, <4>1, <4>3
    <3>2. Fits(p, c, a)
      BY <2>2, <3>1 DEF CableInv, ReadInv
    <3>3. Fits(p, c, a)'
      BY <1>1, <3>2, RunOn
    <3>4. p = part' /\ c = from' /\ a = Had' * Size
      BY <1>1, <3>1 DEF Had
    <3> QED BY <3>3, <3>4
  <2>3. InStep' => InStep
    BY <1>1 DEF InStep
  <2> QED BY <2>1, <2>2, <2>3 DEF ReadInv
<1> QED BY <1>2, <1>3, <1>4, <1>5

-----------------------------------------------------------------------------
(* A new connection: nothing is on its way.                                *)
LEMMA ConnectKeeps ==
  ASSUME CableInv, Connect
  PROVE  CableInv'
<1>0. SenderOK /\ ReaderOK /\ BoundsOK
  BY DEF CableInv, ShapeInv
<1>1. /\ tx.state # "open" /\ sending = <<>> /\ ~Live
      /\ UNCHANGED <<vita, sending, rx, from, part, link, heard, garbled, torn, breaks, inits>>
  BY DEF Connect, reader, Live
<1>2. CASE /\ tx' = [NoSocket EXCEPT !.state = "connecting"] \/ tx' = NoSocket
           /\ UNCHANGED <<frames, conns, streams>>
  <2>1. tx' \in Socket /\ SocketOK(tx') /\ tx'.state # "open" /\ tx'.end = 0
    BY <1>2, NewSocket DEF NoSocket, Socket, SocketOK
  <2>2. SenderOK'
    BY <1>0, <1>1, <1>2, <2>1 DEF SenderOK
  <2>3. ~Live'
    BY <2>1 DEF Live
  <2>4. Moves
    BY <1>0, <1>1, <1>2, <2>3 DEF Moves, SenderOK
  <2> QED BY <1>0, <1>1, <2>2, <2>4, MovesKeep DEF CableInv, ShapeInv, BoundsOK
<1>3. CASE /\ conns < MaxConns /\ conns' = conns + 1 /\ frames' = 0
           /\ tx' = [NoSocket EXCEPT !.state = "open", !.limited = Limit,
                                     !.prompt = (tx.state = "none")]
           /\ streams' = Append(streams, [bytes |-> <<>>, closed |-> FALSE])
  <2>1. conns \in Nat /\ conns + 1 \in 0 .. MaxConns /\ from \in 0 .. conns + 1 /\ from <= conns
        /\ 0 \in 0 .. MaxFrames
    <3>1. conns \in 0 .. MaxConns /\ from \in 0 .. conns
      BY <1>0 DEF SenderOK, ReaderOK
    <3> QED BY <1>3, <3>1, BoundsAssumption
  <2>2. tx' \in Socket /\ SocketOK(tx') /\ tx'.state = "open" /\ tx'.begin = 0 /\ tx'.end = 0
    BY <1>3, NewSocket DEF NoSocket, Socket, SocketOK, Limit
  <2>3. PICK r \in Stream : r = [bytes |-> <<>>, closed |-> FALSE]
    BY EmptySeq DEF Stream
  <2>4. /\ streams' \in Seq(Stream) /\ Len(streams') = conns + 1
        /\ \A i \in 1 .. conns : streams'[i] = streams[i]
        /\ streams'[conns + 1] = r
    BY <1>0, <1>3, <2>3, AppendProperties DEF SenderOK
  <2>5. \A c \in 1 .. conns + 1 : c = conns + 1 \/ c \in 1 .. conns
    BY <2>1
  <2>6. SenderOK'
    <3>1. \A c \in 1 .. conns + 1 : Len(streams'[c].bytes) <= Room
      <4>1. Len(streams'[conns + 1].bytes) <= Room
        BY <2>3, <2>4, EmptySeq, SizeType
      <4> QED BY <1>0, <2>4, <2>5, <4>1 DEF SenderOK
    <3> QED BY <1>0, <1>1, <1>3, <2>1, <2>2, <2>4, <3>1 DEF SenderOK
  <2>7. ReaderOK' /\ BoundsOK'
    BY <1>0, <1>1, <1>3, <2>1 DEF ReaderOK, BoundsOK
  <2>8. PICK d \in Nat : d = conns + 1 /\ d = conns'
    BY <1>3, <2>1
  <2>9. \A c \in 1 .. conns : c # conns' /\ Flow(c)' = Flow(c)
    <3>1. ASSUME NEW c \in 1 .. conns PROVE c # conns' /\ Flow(c)' = Flow(c)
      <4>1. c # conns' /\ streams'[c] = streams[c]
        BY <2>1, <2>4, <2>8
      <4> QED BY <1>1, <4>1 DEF Flow
    <3> QED BY <3>1
  <2>10. Fits(<<>>, d, 0)'
    <3>1. Outgoing' = <<>> /\ sending' = <<>> /\ streams'[d].bytes = <<>>
      BY <1>1, <2>2, <2>3, <2>4, <2>8, SubSeqEmpty DEF Outgoing
    <3>2. <<>> \o <<>> = <<>> /\ <<>> \in Seq(Byte) /\ Len(<<>>) = 0
      BY EmptySeq, ConcatEmptySeq
    <3>3. Flow(d)' = <<>>
      BY <3>1, <3>2 DEF Flow
    <3>4. 0 * Size = 0
      BY SizeType
    <3> QED BY <1>3, <2>8, <3>2, <3>3, <3>4 DEF Fits, Run
  <2>11. FlowInv'
    BY <2>8, <2>10 DEF FlowInv
  <2>12. AheadInv'
    <3>1. ASSUME NEW c \in from + 1 .. conns + 1 PROVE Fits(<<>>, c, 0)'
      <4>1. CASE c = conns + 1
        BY <2>8, <2>10, <4>1
      <4>2. CASE c # conns + 1
        <5>1. c \in from + 1 .. conns /\ c \in 1 .. conns
          BY <1>0, <2>1, <4>2 DEF ReaderOK
        <5>2. Run(<<>> \o Flow(c), c, 0)
          BY <1>0, <5>1 DEF CableInv, AheadInv, Fits
        <5> QED BY <2>9, <5>1, <5>2 DEF Fits
      <4> QED BY <4>1, <4>2
    <3> QED BY <1>1, <1>3, <3>1 DEF AheadInv
  <2>13. ReadInv'
    <3>1. InStep' => InStep
      BY <1>1 DEF InStep
    <3>2. ASSUME InStep PROVE Fits(part, from, Had * Size)'
      <4>1. from \in 1 .. conns
        BY <2>1, <1>0, <3>2 DEF InStep, ReaderOK
      <4>2. Run(part \o Flow(from), from, Had * Size)
        BY <3>2 DEF CableInv, ReadInv, Fits
      <4>3. PICK c \in 1 .. conns : c = from
        BY <4>1
      <4>4. c # conns' /\ Flow(c)' = Flow(c) /\ Had' = Had
        BY <1>1, <2>9 DEF Had
      <4>5. Run(part \o Flow(c), c, Had * Size)' /\ ~(c = conns')
        BY <1>1, <4>2, <4>3, <4>4 DEF Run, At
      <4> QED BY <1>1, <4>3, <4>5 DEF Fits
    <3> QED BY <1>1, <3>1, <3>2 DEF CableInv, ReadInv
  <2> QED BY <2>6, <2>7, <2>11, <2>12, <2>13 DEF CableInv, ShapeInv
<1> QED BY <1>2, <1>3 DEF Connect

(* What the reader does without taking a byte.                             *)
LEMMA SameFlow ==
  ASSUME UNCHANGED <<vita, tx, sending, frames, conns, streams>>
  PROVE  /\ SenderOK' = SenderOK /\ Live' = Live
         /\ \A c, p, a : Fits(p, c, a)' = Fits(p, c, a)
<1>1. Live' = Live /\ Outgoing' = Outgoing
  BY DEF Live, Outgoing
<1>2. \A c : Flow(c)' = Flow(c)
  BY <1>1 DEF Flow
<1>3. SenderOK' = SenderOK
  BY DEF SenderOK
<1>4. \A c, p, a : Fits(p, c, a)' = Fits(p, c, a)
  BY <1>1, <1>2 DEF Fits
<1> QED BY <1>1, <1>3, <1>4

LEMMA AcceptKeeps ==
  ASSUME CableInv, Accept
  PROVE  CableInv'
<1>1. /\ UNCHANGED <<vita, tx, sending, frames, conns, streams>>
      /\ UNCHANGED <<part, link, heard, garbled, torn, breaks, inits>>
      /\ ~rx /\ from < conns /\ rx' = TRUE /\ from' = from + 1
  BY DEF Accept, sender
<1>2. /\ SenderOK /\ ReaderOK /\ BoundsOK /\ conns \in Nat /\ from \in 0 .. conns
      /\ from + 1 \in 0 .. conns /\ heard[1] \in Nat
  BY <1>1, BoundsAssumption DEF CableInv, ShapeInv, SenderOK, ReaderOK
<1>3. SenderOK' /\ ReaderOK' /\ BoundsOK'
  BY <1>1, <1>2, SameFlow DEF ReaderOK, BoundsOK
<1>4. FlowInv'
  BY <1>1, SameFlow DEF CableInv, FlowInv
<1>5. AheadInv'
  <2>1. \A c \in from + 1 + 1 .. conns : c \in from + 1 .. conns
    BY <1>2
  <2> QED BY <1>1, <2>1, SameFlow DEF CableInv, AheadInv
<1>6. ReadInv'
  <2>1. ~torn' => ~garbled' /\ heard'[1] <= from' /\ heard[1] # from + 1
    BY <1>1, <1>2 DEF CableInv, ReadInv
  <2>2. ASSUME InStep' PROVE Fits(part, from, Had * Size)'
    <3>1. ~torn /\ part = <<>>
      BY <1>1, <2>2 DEF InStep, CableInv, ReadInv
    <3>2. Had' = 0 /\ 0 * Size = 0
      BY <1>1, <2>1, <3>1, SizeType DEF Had
    <3>3. from + 1 \in from + 1 .. conns
      BY <1>1, <1>2
    <3>4. Fits(<<>>, from + 1, 0)
      BY <3>3 DEF CableInv, AheadInv
    <3>5. PICK c : c = from + 1
      OBVIOUS
    <3>6. Fits(<<>>, c, 0)'
      BY <1>1, <3>4, <3>5, SameFlow
    <3>7. c = from' /\ part' = <<>> /\ Had' * Size = 0
      BY <1>1, <3>1, <3>2, <3>5
    <3> QED BY <3>6, <3>7
  <2> QED BY <1>1, <2>1, <2>2 DEF ReadInv
<1> QED BY <1>3, <1>4, <1>5, <1>6 DEF CableInv, ShapeInv

LEMMA OthersKeep ==
  ASSUME CableInv, ReadEnd \/ LoseOther \/ InitAgain
  PROVE  CableInv'
<1>1. /\ UNCHANGED <<vita, tx, sending, frames, conns, streams>>
      /\ UNCHANGED <<from, heard, garbled, breaks>>
  BY DEF ReadEnd, LoseOther, InitAgain, sender
<1>2. SenderOK /\ ReaderOK /\ BoundsOK
  BY DEF CableInv, ShapeInv
<1>3. /\ link' \in {"waiting", "up", "lost"} /\ (rx' => rx) /\ rx' \in BOOLEAN
      /\ part' = part \/ part' = <<>>
      /\ torn' \in BOOLEAN /\ inits' \in 0 .. MaxInits
  <2>1. /\ link \in {"waiting", "up", "lost"} /\ rx \in BOOLEAN /\ torn \in BOOLEAN
        /\ inits \in 0 .. MaxInits
    BY <1>2 DEF ReaderOK, BoundsOK
  <2>2. CASE ReadEnd
    BY <2>1, <2>2 DEF ReadEnd
  <2>3. CASE LoseOther
    BY <2>1, <2>3 DEF LoseOther
  <2>4. CASE InitAgain
    BY <2>1, <2>4, BoundsAssumption DEF InitAgain
  <2> QED BY <2>2, <2>3, <2>4
<1>4. SenderOK' /\ ReaderOK' /\ BoundsOK'
  <2>1. part' \in Seq(Byte) /\ Len(part') < Size
    BY <1>2, <1>3, EmptySeq, SizeType DEF ReaderOK
  <2> QED BY <1>1, <1>2, <1>3, <2>1, SameFlow DEF ReaderOK, BoundsOK
<1>5. FlowInv'
  BY <1>1, SameFlow DEF CableInv, FlowInv
<1>6. AheadInv'
  BY <1>1, SameFlow DEF CableInv, AheadInv
<1>7. ASSUME ~torn'
      PROVE  /\ ~torn /\ (~rx' /\ link' # "lost" => part' = <<>>)
             /\ link' # "lost" \/ part' = <<>> =>
                  part' = part /\ (link # "lost" \/ part = <<>>)
  <2>1. CASE ReadEnd
    BY <1>2, <1>7, <2>1 DEF ReadEnd, ReaderOK
  <2>2. CASE LoseOther
    BY <1>7, <2>2 DEF LoseOther
  <2>3. CASE InitAgain
    BY <1>7, <2>3 DEF InitAgain
  <2> QED BY <2>1, <2>2, <2>3
<1>8. ReadInv'
  <2>1. ~torn' => ~garbled' /\ heard'[1] <= from'
    BY <1>1, <1>7 DEF CableInv, ReadInv
  <2>2. ASSUME InStep' PROVE Fits(part, from, Had * Size)'
    <3>1. InStep /\ part' = part
      BY <1>1, <1>7, <2>2 DEF InStep
    <3>2. Fits(part, from, Had * Size)
      BY <3>1 DEF CableInv, ReadInv
    <3>3. PICK p, c, a : p = part /\ c = from /\ a = Had * Size
      OBVIOUS
    <3>4. Fits(p, c, a)'
      BY <1>1, <3>2, <3>3, SameFlow
    <3>5. p = part' /\ c = from' /\ a = Had' * Size
      BY <1>1, <3>1, <3>3 DEF Had
    <3> QED BY <3>4, <3>5
  <2> QED BY <1>7, <2>1, <2>2 DEF ReadInv
<1> QED BY <1>4, <1>5, <1>6, <1>8 DEF CableInv, ShapeInv

(* A read takes the first n bytes off what is on its way to the reader.    *)
LEMMA ReadTakes ==
  ASSUME SenderOK, rx, from \in 1 .. conns, NEW n \in Nat, n <= Len(streams[from].bytes),
         streams' = [streams EXCEPT ![from].bytes = SubSeq(@, n + 1, Len(@))],
         UNCHANGED <<vita, tx, sending, frames, conns, from>>
  PROVE  /\ SenderOK' /\ Live' = Live
         /\ \A c \in 1 .. conns : c # from => Flow(c)' = Flow(c)
         /\ \E x, y \in Seq(Byte) :
              /\ x = SubSeq(streams[from].bytes, 1, n) /\ Len(x) = n
              /\ Flow(from) = x \o y /\ Flow(from)' = y
<1>1. PICK b : b = streams[from].bytes /\ streams[from] \in Stream /\ b \in Seq(Byte)
  BY FlowType DEF Stream
<1>2. n \in 0 .. Len(b)
  BY <1>1, LenProperties
<1>3. PICK x, z :
        /\ x \in Seq(Byte) /\ z \in Seq(Byte) /\ x \o z = b
        /\ x = SubSeq(b, 1, n) /\ z = SubSeq(b, n + 1, Len(b)) /\ Len(x) = n
        /\ Len(z) = Len(b) - n
  <2>1. /\ SubSeq(b, 1, n) \in Seq(Byte) /\ SubSeq(b, n + 1, Len(b)) \in Seq(Byte)
        /\ Len(SubSeq(b, 1, n)) = n /\ Len(SubSeq(b, n + 1, Len(b))) = Len(b) - n
        /\ SubSeq(b, 1, n) \o SubSeq(b, n + 1, Len(b)) = b
    BY <1>1, <1>2, Cut
  <2> QED BY <2>1
<1>4. PICK r : r = [streams[from] EXCEPT !.bytes = z]
  OBVIOUS
<1>5. r \in Stream /\ r.bytes = z /\ r.closed = streams[from].closed
  BY <1>1, <1>3, <1>4 DEF Stream
<1>6. streams \in Seq(Stream) /\ Len(streams) = conns /\ conns \in Nat
  BY DEF SenderOK
<1>7. streams' = [streams EXCEPT ![from] = r]
  BY <1>1, <1>3, <1>4
<1>8. /\ streams' \in Seq(Stream) /\ Len(streams') = conns
      /\ \A c \in 1 .. conns : streams'[c] = IF c = from THEN r ELSE streams[c]
  <2>1. from \in 1 .. Len(streams)
    BY <1>6
  <2>2. r \in Stream
    BY <1>5
  <2> QED BY ONLY <1>6, <1>7, <2>1, <2>2, ExceptSeq
<1>9. SenderOK'
  <2>1. Len(z) <= Room
    <3>1. Len(b) <= Room /\ Len(b) \in Nat
      BY <1>1, LenProperties DEF SenderOK
    <3> QED BY <1>3, <3>1, SizeType
  <2>2. \A c \in 1 .. conns : Len(streams'[c].bytes) <= Room
    BY <1>5, <1>8, <2>1 DEF SenderOK
  <2> QED BY <1>8, <2>2 DEF SenderOK
<1>10. Live' = Live
  <2>1. conns # 0 => streams'[conns].closed = streams[conns].closed
    BY <1>5, <1>6, <1>8
  <2>2. conns # 0
    BY <1>6
  <2> QED BY <2>1, <2>2 DEF Live
<1>11. \A c \in 1 .. conns : c # from => Flow(c)' = Flow(c)
  <2>1. ASSUME NEW c \in 1 .. conns, c # from PROVE Flow(c)' = Flow(c)
    <3>1. streams'[c] = streams[c] /\ Outgoing' = Outgoing
      BY <1>8, <2>1 DEF Outgoing
    <3>2. conns' = conns /\ sending' = sending
      OBVIOUS
    <3>3. CASE c = conns /\ Live
      BY ONLY <1>10, <3>1, <3>2, <3>3 DEF Flow
    <3>4. CASE ~(c = conns /\ Live)
      BY ONLY <1>10, <3>1, <3>2, <3>4 DEF Flow
    <3> QED BY <3>3, <3>4
  <2> QED BY <2>1
<1>12. \E y \in Seq(Byte) : Flow(from) = x \o y /\ Flow(from)' = y
  <2>1. streams'[from].bytes = z /\ Outgoing' = Outgoing
    BY <1>5, <1>8 DEF Outgoing
  <2>2. CASE from = conns /\ Live
    <3>1. PICK o, s : o \in Seq(Byte) /\ s \in Seq(Byte) /\ o = Outgoing /\ s = sending
      BY OutType DEF SenderOK, Outgoing, Out
    <3>2. PICK w : w \in Seq(Byte) /\ w = z \o o
      BY ONLY <1>3, <3>1, ConcatProperties
    <3>3. Flow(from) = ((x \o z) \o o) \o s /\ Flow(from)' = w \o s
      BY <1>1, <1>3, <1>10, <2>1, <2>2, <3>1, <3>2 DEF Flow
    <3>4. x \in Seq(Byte) /\ z \in Seq(Byte) /\ o \in Seq(Byte) /\ s \in Seq(Byte)
      BY ONLY <1>3, <3>1
    <3>5. (x \o z) \o o = x \o (z \o o)
      <4>1. x \in Seq(Byte) /\ z \in Seq(Byte) /\ o \in Seq(Byte)
        BY ONLY <3>4
      <4> QED BY ONLY <4>1, Associative
    <3>6. (x \o w) \o s = x \o (w \o s)
      <4>1. x \in Seq(Byte) /\ w \in Seq(Byte) /\ s \in Seq(Byte)
        BY ONLY <3>2, <3>4
      <4> QED BY ONLY <4>1, Associative
    <3>7. w \o s \in Seq(Byte)
      BY ONLY <3>2, <3>4, ConcatProperties
    <3> QED BY ONLY <3>2, <3>3, <3>5, <3>6, <3>7
  <2>3. CASE ~(from = conns /\ Live)
    BY <1>1, <1>3, <1>10, <2>1, <2>3 DEF Flow
  <2> QED BY <2>2, <2>3
<1> QED BY <1>1, <1>3, <1>9, <1>10, <1>11, <1>12

(* A frame's worth of bytes that follow a frame is the next frame.         *)
LEMMA RunIsFrame ==
  ASSUME NEW bs \in Seq(Byte), Len(bs) = Size, NEW c, NEW f \in Nat,
         Run(bs, c, f * Size)
  PROVE  bs = Frame(c, f + 1) /\ bs[1] = <<c, f + 1, 1>>
<1>1. \A i \in 1 .. Size : bs[i] = <<c, f + 1, i>>
  BY AtPlace DEF Run
<1>2. bs = [i \in 1 .. Size |-> bs[i]]
  BY LenProperties
<1>3. 1 \in 1 .. Size
  BY SizeType
<1> QED BY <1>1, <1>2, <1>3 DEF Frame

LEMMA ReadKeeps ==
  ASSUME CableInv, Read
  PROVE  CableInv'
<1>1. /\ UNCHANGED <<vita, tx, sending, frames, conns>>
      /\ UNCHANGED <<rx, from, torn, breaks, inits>> /\ rx /\ link # "lost"
  BY DEF Read, sender
<1>2. SenderOK /\ ReaderOK /\ BoundsOK /\ part \in Seq(Byte) /\ from \in 1 .. conns
  BY <1>1 DEF CableInv, ShapeInv, SenderOK, ReaderOK
<1>r. PICK n \in 1 .. Size - Len(part) :
        LET q == part \o SubSeq(streams[from].bytes, 1, n) IN
        /\ n <= Len(streams[from].bytes)
        /\ streams' = [streams EXCEPT ![from].bytes = SubSeq(@, n + 1, Len(@))]
        /\ \/ Len(q) = Size /\ Handle(q)
           \/ Len(q) < Size /\ part' = q /\ UNCHANGED <<heard, garbled, link>>
  BY DEF Read, Keeps
<1>3. PICK bs :
        /\ bs = part \o SubSeq(streams[from].bytes, 1, n)
        /\ n <= Len(streams[from].bytes)
        /\ streams' = [streams EXCEPT ![from].bytes = SubSeq(@, n + 1, Len(@))]
        /\ \/ Len(bs) = Size /\ Handle(bs)
           \/ Len(bs) < Size /\ part' = bs /\ UNCHANGED <<heard, garbled, link>>
  BY <1>r
<1>4. n \in Nat /\ n >= 1 /\ conns \in Nat /\ from \in Nat
  BY <1>2, LenProperties, SizeType DEF SenderOK
<1>5. /\ SenderOK' /\ Live' = Live
      /\ \A c \in 1 .. conns : c # from => Flow(c)' = Flow(c)
  BY <1>1, <1>2, <1>3, <1>4, ReadTakes
<1>6. PICK x, y \in Seq(Byte) :
        /\ x = SubSeq(streams[from].bytes, 1, n) /\ Len(x) = n
        /\ Flow(from) = x \o y /\ Flow(from)' = y
  BY <1>1, <1>2, <1>3, <1>4, ReadTakes
<1>7. PICK p \in Seq(Byte), d \in 1 .. conns : p = part /\ d = from
  BY <1>2
<1>8. /\ bs = p \o x /\ bs \in Seq(Byte) /\ Len(bs) = Len(p) + n
      /\ Flow(d) = x \o y /\ Flow(d)' = y /\ Len(x \o y) = n + Len(y)
      /\ Len(p) \in Nat /\ Len(y) \in Nat
  BY <1>1, <1>3, <1>6, <1>7, ConcatProperties, LenProperties
<1>9. 1 \in 1 .. Len(bs) /\ bs[1] \in Byte
  <2>1. 1 \in 1 .. Len(bs)
    BY <1>4, <1>8
  <2> QED BY <1>8, <2>1, ElementOfSeq
<1>10. ReaderOK' /\ BoundsOK'
  <2>1. bs[1][1] \in 0 .. MaxConns /\ bs[1][2] \in 0 .. MaxFrames
    BY <1>9, BoundsAssumption DEF Byte
  <2>2. <<>> \in Seq(Byte) /\ Len(<<>>) < Size
    BY EmptySeq, SizeType
  <2>3. CASE Len(bs) = Size /\ Handle(bs)
    <3>1. /\ part' = <<>> /\ heard' = <<bs[1][1], bs[1][2]>>
          /\ garbled' = (garbled \/ ~NextFrame(bs)) /\ link' \in {link, "up"}
      BY <2>3 DEF Handle
    <3>2. (garbled \/ ~NextFrame(bs)) \in BOOLEAN
      BY ZenonT(30)
    <3> QED BY <1>1, <1>2, <2>1, <2>2, <3>1, <3>2 DEF ReaderOK, BoundsOK
  <2>4. CASE Len(bs) < Size /\ part' = bs /\ UNCHANGED <<heard, garbled, link>>
    BY <1>1, <1>2, <1>8, <2>4 DEF ReaderOK, BoundsOK
  <2> QED BY <1>3, <2>3, <2>4
<1>11. FlowInv'
  <2> SUFFICES ASSUME Live' PROVE \E a \in Nat : Fits(<<>>, conns, a)'
    BY DEF FlowInv
  <2>1. PICK a \in Nat : Fits(<<>>, conns, a)
    BY <1>5 DEF CableInv, FlowInv
  <2>2. CASE from # conns
    <3>1. PICK c \in 1 .. conns : c = conns
      BY <1>2, <1>4
    <3>2. Flow(c)' = Flow(c)
      BY <1>5, <2>2, <3>1
    <3> QED BY <1>1, <1>5, <2>1, <3>1, <3>2 DEF Fits
  <2>3. CASE from = conns
    <3>1. <<>> \o (x \o y) = x \o y /\ <<>> \o y = y /\ Len(<<>>) = 0 /\ x \o y \in Seq(Byte)
      BY ConcatEmptySeq, ConcatProperties, EmptySeq
    <3>2. Run(x \o y, d, a) /\ a + 0 + Len(x \o y) = frames * Size
      BY <1>5, <1>7, <1>8, <2>1, <2>3, <3>1 DEF Fits
    <3>3. Run(y, d, a + n) /\ a + n \in Nat
      <4>1. Run(y, d, a + Len(x))
        BY <3>2, RunTogether
      <4> QED BY <1>4, <1>6, <4>1
    <3>4. (a + n) + 0 + Len(y) = frames * Size
      BY <1>4, <1>8, <3>2
    <3>5. PICK e \in Nat : e = a + n
      BY <3>3
    <3>6. Fits(<<>>, d, e)'
      BY <1>1, <1>5, <1>8, <3>1, <3>3, <3>4, <3>5 DEF Fits
    <3> QED BY <1>1, <1>7, <2>3, <3>6
  <2> QED BY <2>2, <2>3
<1>12. AheadInv'
  <2>1. ASSUME NEW c \in from + 1 .. conns PROVE Fits(<<>>, c, 0)'
    <3>1. c \in 1 .. conns /\ c # from
      BY <1>2, <1>4
    <3>2. Fits(<<>>, c, 0)
      BY DEF CableInv, AheadInv
    <3> QED BY <1>1, <1>5, <3>1, <3>2 DEF Fits
  <2> QED BY <1>1, <2>1 DEF AheadInv
<1>13. ASSUME ~torn
       PROVE  /\ ~garbled' /\ heard'[1] <= from' /\ Fits(part, from, Had * Size)'
  <2>1. ~garbled /\ heard[1] <= from
    BY <1>13 DEF CableInv, ReadInv
  <2>2. Fits(part, from, Had * Size)
    BY <1>1, <1>2, <1>4, <1>13 DEF CableInv, ReadInv, InStep
  <2>3. PICK h \in Nat : h = Had
    BY <1>2, BoundsAssumption DEF ReaderOK, Had
  <2>4. PICK a \in Nat : a = h * Size
    BY SizeType
  <2>5. /\ Run(p \o (x \o y), d, a)
        /\ (Live /\ d = conns => a + Len(p) + Len(x \o y) = frames * Size)
    BY <1>7, <1>8, <2>2, <2>3, <2>4 DEF Fits
  <2>6. p \o (x \o y) = bs \o y
    BY <1>8, Associative
  <2>7. Run(bs, d, a) /\ Run(y, d, a + Len(bs))
    BY <1>8, <2>5, <2>6, RunTogether
  <2>8. CASE Len(bs) = Size /\ Handle(bs)
    <3>1. bs = Frame(d, h + 1) /\ bs[1] = <<d, h + 1, 1>>
      <4>1. PICK q \in Seq(Byte) : q = bs
        BY <1>8
      <4>2. Len(q) = Size /\ Run(q, d, h * Size)
        BY <2>4, <2>7, <2>8, <4>1
      <4>3. q = Frame(d, h + 1) /\ q[1] = <<d, h + 1, 1>>
        BY <4>2, RunIsFrame
      <4> QED BY <4>1, <4>3
    <3>2. /\ part' = <<>> /\ heard' = <<bs[1][1], bs[1][2]>>
          /\ garbled' = (garbled \/ ~NextFrame(bs))
      BY <2>8 DEF Handle
    <3>3. heard' = <<d, h + 1>>
      BY <3>1, <3>2
    <3>4. heard[1] \in Nat /\ d \in Nat
      BY <1>2, <1>4, <1>7, BoundsAssumption DEF ReaderOK
    <3>5. NextFrame(bs)
      <4>1. IF d = heard[1] THEN h + 1 = heard[2] + 1 ELSE d > heard[1] /\ h + 1 = 1
        <5>1. CASE d = heard[1]
          BY <1>7, <2>3, <5>1 DEF Had
        <5>2. CASE d # heard[1]
          BY <1>7, <2>1, <2>3, <3>4, <5>2 DEF Had
        <5> QED BY <5>1, <5>2
      <4> QED BY <3>1, <4>1 DEF NextFrame
    <3>6. Had' = h + 1 /\ heard'[1] <= from'
      BY <1>1, <1>7, <3>3, <3>4 DEF Had
    <3>7. (h + 1) * Size = a + Size
      BY <2>4, SizeType
    <3>8. PICK e \in Nat : e = a + Size /\ e = Had' * Size
      BY <2>4, <3>6, <3>7, SizeType
    <3>9. <<>> \o y = y /\ Len(<<>>) = 0
      BY ConcatEmptySeq, EmptySeq
    <3>10. Live /\ d = conns => e + 0 + Len(y) = frames * Size
      BY <1>4, <1>8, <2>5, <2>8, <3>8
    <3>11. Fits(<<>>, d, e)'
      BY <1>1, <1>5, <1>8, <2>7, <2>8, <3>8, <3>9, <3>10 DEF Fits
    <3>12. d = from' /\ part' = <<>> /\ e = Had' * Size
      BY <1>1, <1>7, <3>2, <3>8
    <3> QED BY <2>1, <3>2, <3>5, <3>6, <3>11, <3>12
  <2>9. CASE Len(bs) < Size /\ part' = bs /\ UNCHANGED <<heard, garbled, link>>
    <3>1. Live /\ d = conns => a + Len(bs) + Len(y) = frames * Size
      BY <1>4, <1>8, <2>5
    <3>2. Run(bs \o y, d, a)
      BY <2>5, <2>6
    <3>3. Fits(bs, d, a)'
      BY <1>1, <1>5, <1>8, <3>1, <3>2 DEF Fits
    <3>4. d = from' /\ part' = bs /\ a = Had' * Size
      BY <1>1, <1>7, <2>3, <2>4, <2>9 DEF Had
    <3> QED BY <1>1, <2>1, <2>9, <3>3, <3>4
  <2> QED BY <1>3, <2>8, <2>9
<1>14. ReadInv'
  BY <1>1, <1>13 DEF ReadInv, InStep
<1> QED BY <1>5, <1>10, <1>11, <1>12, <1>14 DEF CableInv, ShapeInv

-----------------------------------------------------------------------------
LEMMA InitCable == Init => CableInv
<1> SUFFICES ASSUME Init PROVE CableInv
  OBVIOUS
<1>1. SenderOK
  BY NewSocket, EmptySeq, BoundsAssumption DEF Init, SenderOK, NoSocket
<1>2. ReaderOK
  <2>1. <<>> \in Seq(Byte) /\ Len(<<>>) < Size
    BY EmptySeq, SizeType
  <2>2. <<0, 0>> \in (0 .. MaxConns) \X (0 .. MaxFrames) /\ 0 \in 0 .. 0
    BY BoundsAssumption
  <2> QED BY <2>1, <2>2 DEF Init, ReaderOK
<1>3. BoundsOK
  BY BoundsAssumption DEF Init, BoundsOK
<1>4. ~Live
  BY DEF Init, NoSocket, Live
<1>5. \A c \in from + 1 .. conns : FALSE
  BY DEF Init
<1> QED BY <1>1, <1>2, <1>3, <1>4, <1>5
        DEF CableInv, ShapeInv, FlowInv, AheadInv, ReadInv, InStep, Init

LEMMA MovesKeepAll ==
  ASSUME CableInv, SenderOK', Moves, UNCHANGED inits, breaks' \in 0 .. MaxBreaks
  PROVE  CableInv'
BY MovesKeep DEF CableInv, ShapeInv, BoundsOK

LEMMA NextCable == CableInv /\ [Next]_vars => CableInv'
<1> SUFFICES ASSUME CableInv, [Next]_vars PROVE CableInv'
  OBVIOUS
<1>0. SenderOK /\ breaks \in 0 .. MaxBreaks
  BY DEF CableInv, ShapeInv, BoundsOK
<1>1. CASE Connect
  BY <1>1, ConnectKeeps
<1>2. CASE BeginWrite
  BY <1>0, <1>2, BeginWriteMoves, MovesKeepAll DEF BeginWrite
<1>3. CASE Send
  BY <1>0, <1>3, SendMoves, MovesKeepAll DEF Send
<1>4. CASE SendFails
  BY <1>0, <1>4, SendFailsMoves, MovesKeepAll DEF SendFails
<1>5. CASE WriteVita
  BY <1>0, <1>5, WriteVitaMoves, MovesKeepAll DEF WriteVita
<1>6. CASE Poll
  BY <1>0, <1>6, PollMoves, MovesKeepAll DEF Poll
<1>7. CASE Accept
  BY <1>7, AcceptKeeps
<1>8. CASE Read
  BY <1>8, ReadKeeps
<1>9. CASE ReadEnd \/ LoseOther \/ InitAgain
  BY <1>9, OthersKeep
<1>10. CASE Elapse \/ Notice
  BY <1>0, <1>10, FlagMoves, MovesKeepAll DEF Elapse, Notice
<1>11. CASE Break
  <2>1. breaks' \in 0 .. MaxBreaks /\ UNCHANGED inits
    BY <1>0, <1>11, BoundsAssumption DEF Break
  <2> QED BY <1>0, <1>11, <2>1, BreakMoves, MovesKeepAll
<1>12. CASE UNCHANGED vars
  <2>1. /\ UNCHANGED <<vita, tx, sending, frames, conns, streams>>
        /\ UNCHANGED <<rx, from, part, link, heard, garbled, torn, breaks, inits>>
    BY <1>12 DEF vars, sender, reader
  <2>2. Live' = Live /\ Outgoing' = Outgoing
    BY <2>1 DEF Live, Outgoing
  <2>3. \A c : Flow(c)' = Flow(c)
    BY <2>1, <2>2 DEF Flow
  <2>4. Moves
    <3>1. Live => Flow(conns)' = Flow(conns)
      BY <2>1, <2>3
    <3> QED BY <1>0, <2>1, <2>2, <3>1 DEF Moves, SenderOK
  <2>5. SenderOK'
    BY <1>0, <2>1, SameFlow
  <2> QED BY <1>0, <2>1, <2>4, <2>5, MovesKeepAll
<1> QED BY <1>1, <1>2, <1>3, <1>4, <1>5, <1>6, <1>7, <1>8, <1>9, <1>10, <1>11, <1>12
        DEF Next, Sender, Reader, Network

(* Whatever TCP takes on and gives out, wherever connections end and are   *)
(* made again, rx_, streams and outgoing_ hold an unbroken run of bytes.   *)
THEOREM CableRuns == Spec => []CableInv
<1>1. Init => CableInv
  BY InitCable
<1>2. CableInv /\ [Next]_vars => CableInv'
  BY NextCable
<1> QED BY <1>1, <1>2, PTL DEF Spec

(* comm_board.h, rx_: a board handles the frames of each connection whole, *)
(* in order, none left out, unless it lost step when a connection or an    *)
(* init command cut a frame in two.                                        *)
THEOREM FramesWholeUnlessTorn == Spec => []WholeUnlessTorn
<1>1. CableInv => WholeUnlessTorn
  BY DEF CableInv, ReadInv, WholeUnlessTorn
<1> QED BY <1>1, CableRuns, PTL

(* A run to the end of the last frame, byte by byte.                       *)
LEMMA RunFollows ==
  ASSUME SenderOK, Live, FlowInv
  PROVE  LET q == Pipe.bytes \o Outgoing \o sending
         IN /\ \A i \in 1 .. Len(q) - 1 : Follows(q[i], q[i + 1])
            /\ q # <<>> => Last(q) = <<conns, frames, Size>>
<1>1. conns \in 1 .. conns /\ Pipe = streams[conns] /\ frames \in Nat
  BY FlowParts, LastStream, BoundsAssumption DEF SenderOK
<1>2. PICK q \in Seq(Byte) : q = Flow(conns) /\ q = Pipe.bytes \o Outgoing \o sending
  BY <1>1, FlowType DEF Flow
<1>3. PICK a \in Nat : Fits(<<>>, conns, a)
  BY DEF FlowInv
<1>4. PICK n \in Nat : n = Len(q)
  BY LenProperties
<1>5. \A i \in 1 .. n : q[i] = At(conns, a + i)
  <2>1. <<>> \o q = q
    BY ConcatEmptySeq
  <2> QED BY <1>2, <1>3, <1>4, <2>1 DEF Fits, Run
<1>6. a + n = frames * Size
  <2>1. a + 0 + n = frames * Size
    BY <1>2, <1>3, <1>4, EmptySeq DEF Fits
  <2> QED BY <2>1
<1>7. ASSUME NEW i \in 1 .. n - 1 PROVE Follows(q[i], q[i + 1])
  <2>1. i \in 1 .. n /\ i + 1 \in 1 .. n /\ a + i \in Nat /\ a + i > 0 /\ a + (i + 1) = (a + i) + 1
    BY <1>4
  <2>2. Follows(At(conns, a + i), At(conns, (a + i) + 1))
    BY <2>1, AtFollows
  <2> QED BY <1>5, <2>1, <2>2
<1>8. ASSUME q # <<>> PROVE Last(q) = <<conns, frames, Size>>
  <2>1. n \in 1 .. n
    BY <1>4, <1>8, EmptySeq
  <2>2. frames # 0
    BY <1>6, <2>1, SizeType
  <2>3. PICK f \in Nat : frames = f + 1
    <3>1. frames - 1 \in Nat /\ frames = (frames - 1) + 1
      BY <1>1, <2>2
    <3> QED BY <3>1
  <2>4. frames * Size = f * Size + Size /\ Size \in 1 .. Size
    BY <2>3, SizeType
  <2>5. At(conns, f * Size + Size) = <<conns, f + 1, Size>>
    BY <2>4, AtPlace
  <2>6. q[n] = <<conns, frames, Size>>
    BY <1>5, <1>6, <2>1, <2>3, <2>4, <2>5
  <2> QED BY <1>4, <2>6 DEF Last
<1> QED BY <1>2, <1>4, <1>7, <1>8

(* outgoing_ and write() of link.h and link_socket.cpp: what a connection  *)
(* that is up holds is in order and to the last byte of the last frame     *)
(* write() took.                                                           *)
THEOREM NothingLostOnTheWay == Spec => []NothingLostInside
<1>1. CableInv => NothingLostInside
  <2> SUFFICES ASSUME CableInv PROVE NothingLostInside
    OBVIOUS
  <2>1. TypeOK /\ SenderOK /\ FlowInv
    BY ShapeIsType DEF CableInv, ShapeInv
  <2>2. tx.state = "open" /\ ~Pipe.closed => Live
    BY <2>1, LastStream DEF SenderOK, Live
  <2> QED BY <2>1, <2>2, RunFollows DEF NothingLostInside
<1> QED BY <1>1, CableRuns, PTL

(* A desktop socket has its send limit, unless it was connected at once.   *)
LimitInv == tx.state = "open" /\ ~vita => tx.limited \/ tx.prompt

LEMMA LimitStep ==
  ASSUME SenderOK, LimitInv, [Next]_vars
  PROVE  LimitInv'
<1> SUFFICES ASSUME tx'.state = "open", ~vita' PROVE tx'.limited \/ tx'.prompt
  BY DEF LimitInv
<1>0. tx \in Socket /\ vita' = vita /\ (tx.state = "open" => tx.limited \/ tx.prompt)
  BY DEF SenderOK, LimitInv, vars, sender, reader, Next, Sender, Reader, Network, Connect,
         BeginWrite, Send, SendFails, WriteVita, Poll, Accept, Read, ReadEnd, LoseOther, InitAgain,
         Elapse, Break, Notice
<1>1. CASE Connect
  <2>1. /\ tx.state = "none" \/ tx.state = "connecting"
        /\ tx' = [NoSocket EXCEPT !.state = "open", !.limited = Limit,
                                  !.prompt = (tx.state = "none")]
    BY <1>0, <1>1 DEF Connect, NoSocket, Socket
  <2>2. tx'.limited = Limit /\ tx'.prompt = (tx.state = "none")
    BY <2>1 DEF NoSocket
  <2> QED BY <2>1, <2>2 DEF Limit
<1>2. CASE BeginWrite \/ Send \/ Elapse \/ Notice
  BY <1>0, <1>2 DEF BeginWrite, Send, Elapse, Notice, Socket
<1>3. CASE SendFails
  BY <1>3 DEF SendFails, NoSocket
<1>4. CASE WriteVita \/ Poll
  BY <1>0, <1>4 DEF WriteVita, Poll
<1>5. CASE UNCHANGED tx
  BY <1>0, <1>5
<1>6. CASE Reader \/ Break
  BY <1>5, <1>6 DEF Reader, Accept, Read, ReadEnd, LoseOther, InitAgain, Break, sender
<1> QED BY <1>1, <1>2, <1>3, <1>4, <1>5, <1>6 DEF Next, Sender, Network, vars, sender

LEMMA StallStep ==
  ASSUME SenderOK, LimitInv, [Next]_vars, tx.state = "open", tx'.state = "none"
  PROVE  tx.broken \/ tx.expired \/ NoRoom
<1>0. /\ tx \in Socket /\ SocketOK(tx) /\ streams \in Seq(Stream) /\ Len(streams) = conns
      /\ conns # 0
  BY DEF SenderOK
<1>1. CASE Connect
  BY <1>1 DEF Connect
<1>2. CASE BeginWrite \/ Send \/ Elapse \/ Notice
  BY <1>0, <1>2 DEF BeginWrite, Send, Elapse, Notice, Socket
<1>3. CASE SendFails
  BY <1>3 DEF SendFails, GivesUp, SenderOK, LimitInv, NoRoom
<1>4. CASE Poll
  <2>1. Flushed(tx, streams, tx', flush(tx, streams)[2])
    BY <1>0, <1>4, LastStream, FlushOK DEF Poll, After, Flush
  <2> QED BY <2>1 DEF Flushed, Stays, GaveUp
<1>5. CASE WriteVita
  <2>1. PICK u \in Socket, st \in Seq(Stream) :
           /\ FirstFlush(u, st) /\ Flushed(tx, streams, u, st)
           /\ \/ u.state = "none" /\ frames' = frames /\ tx' = u /\ streams' = st
              \/ /\ u.state = "open" /\ Size > OutRoom - Waiting(u) /\ frames' = frames
                 /\ tx' = NoSocket /\ streams' = Closed(st)
              \/ /\ u.state = "open" /\ Size <= OutRoom - Waiting(u) /\ frames' = frames + 1
                 /\ \E v \in Socket :
                      /\ v = append(u, Frame(conns, frames + 1)) /\ SocketOK(v)
                      /\ v.state = "open" /\ v.broken = u.broken /\ (v.expired => u.expired)
                      /\ Out(v) = Out(u) \o Frame(conns, frames + 1)
                      /\ Flushed(v, st, tx', streams')
    BY <1>5, WriteCases
  <2>2. CASE u.state = "none"
    BY <2>1, <2>2 DEF Flushed, Stays, GaveUp
  <2>3. CASE u.state = "open"
    <3>1. /\ u.broken = tx.broken /\ (u.expired => tx.expired)
          /\ Waiting(u) <= Waiting(tx)
      BY <2>1, <2>3 DEF Flushed, Stays, GaveUp, NoSocket
    <3>2. CASE Size > OutRoom - Waiting(u)
      <4>1. Waiting(u) \in Nat /\ Waiting(tx) \in Nat
        BY <1>0, <2>1, OutType DEF Flushed
      <4>2. Waiting(tx) + Size > OutRoom
        BY <3>1, <3>2, <4>1, SizeType
      <4> QED BY <1>5, <4>2 DEF WriteVita, NoRoom
    <3>3. ASSUME NEW v \in Socket, v.broken = u.broken, v.expired => u.expired,
                 Flushed(v, st, tx', streams')
          PROVE  tx.broken \/ tx.expired
      BY <3>1, <3>3 DEF Flushed, Stays, GaveUp
    <3> QED BY <2>1, <2>3, <3>2, <3>3
  <2> QED BY <2>1, <2>2, <2>3
<1>6. CASE UNCHANGED tx
  BY <1>6
<1>7. CASE Reader \/ Break
  BY <1>6, <1>7 DEF Reader, Accept, Read, ReadEnd, LoseOther, InitAgain, Break, sender
<1> QED BY <1>1, <1>2, <1>3, <1>4, <1>5, <1>6, <1>7 DEF Next, Sender, Network, vars, sender

(* link_socket.h:4, 2 s: a connection that is not broken is closed only    *)
(* after 2 s in which nothing went, on the Vita also when outgoing_ has no *)
(* room, on the desktop also when TCP is full under a socket that was      *)
(* connected at once: that is the only way round the limit.                *)
THEOREM NoLossWithoutStall == Spec => StallBeforeLoss
<1>1. Init => LimitInv
  BY DEF Init, LimitInv, NoSocket
<1>2. CableInv /\ LimitInv /\ [Next]_vars => LimitInv'
  BY LimitStep DEF CableInv, ShapeInv
<1>3. CableInv /\ LimitInv /\ [Next]_vars =>
        [tx.state = "open" /\ tx'.state = "none" => tx.broken \/ tx.expired \/ NoRoom]_vars
  BY StallStep DEF CableInv, ShapeInv
<1> QED BY <1>1, <1>2, <1>3, CableRuns, PTL DEF Spec, StallBeforeLoss

=============================================================================

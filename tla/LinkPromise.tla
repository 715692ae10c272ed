---------------------------- MODULE LinkPromise ----------------------------
(***************************************************************************)
(* What link play promises, without tokens, cables or ticks                *)
(* (src/src/runtime/comm_board.h, lines 11-18): every cabinet of the ring  *)
(* learns its own number and the number of cabinets, in ring order from    *)
(* the master on; the link may be lost, and then stays lost.               *)
(***************************************************************************)
EXTENDS Integers

CONSTANT N
Cabinet == 0 .. N - 1

VARIABLES
  link,     \* CommBoard::Link of each cabinet
  number    \* its id and its count, once it is up

vars == <<link, number>>

Init ==
  /\ link = [c \in Cabinet |-> "off"]
  /\ number = [c \in Cabinet |-> <<0, 0>>]

Start(c) ==
  /\ link[c] = "off"
  /\ link' = [link EXCEPT ![c] = "waiting"]
  /\ UNCHANGED number

(* The master is number 1, the one behind it in the ring number N.         *)
ComeUp(c) ==
  /\ link[c] = "waiting"
  /\ \A d \in 0 .. c - 1 : link[d] \in {"up", "lost"}
  /\ link' = [link EXCEPT ![c] = "up"]
  /\ number' = [number EXCEPT ![c] = <<IF c = 0 THEN 1 ELSE N + 1 - c, N>>]

Lose(c) ==
  /\ link[c] = "up"
  /\ link' = [link EXCEPT ![c] = "lost"]
  /\ UNCHANGED number

Next == \E c \in Cabinet : Start(c) \/ ComeUp(c) \/ Lose(c)
Spec == Init /\ [][Next]_vars
=============================================================================

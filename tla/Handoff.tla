------------------------------ MODULE Handoff ------------------------------
(***************************************************************************)
(* What a thread that works for another promises, without its locks, flags *)
(* and condition variables: the next job is given only when the one before *)
(* is answered, each job is run once, in order, and answered after it ran. *)
(***************************************************************************)
EXTENDS Naturals

VARIABLES
  given,      \* jobs handed over so far
  ran,        \* jobs that have run
  answered    \* jobs the owner knows to have run

vars == <<given, ran, answered>>

Init == given = 0 /\ ran = 0 /\ answered = 0

Give ==
  /\ given = answered
  /\ given' = given + 1
  /\ UNCHANGED <<ran, answered>>

Run ==
  /\ ran < given
  /\ ran' = ran + 1
  /\ UNCHANGED <<given, answered>>

Answer ==
  /\ answered < given /\ ran = given
  /\ answered' = given
  /\ UNCHANGED <<given, ran>>

(* Without a thread the owner does all three itself.                       *)
Inline ==
  /\ given = answered
  /\ given' = given + 1 /\ ran' = ran + 1 /\ answered' = answered + 1

Next == Give \/ Run \/ Answer \/ Inline

Spec == Init /\ [][Next]_vars
=============================================================================

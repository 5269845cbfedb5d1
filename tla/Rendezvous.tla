----------------------------- MODULE Rendezvous -----------------------------
(***************************************************************************)
(* What discovery promises, whatever becomes of the datagrams: the smart   *)
(* controller answers daemons that have asked, and a daemon that believes  *)
(* it alive has been answered.                                             *)
(***************************************************************************)
CONSTANT Daemons

VARIABLES
  asked,    \* daemons the smart controller has heard a request of
  told,     \* daemons it has answered
  alive     \* daemons that believe the smart controller alive

vars == <<asked, told, alive>>

Init == asked = {} /\ told = {} /\ alive = {}

Ask(k) == asked' = asked \union {k} /\ UNCHANGED <<told, alive>>

Tell(k) == k \in asked /\ told' = told \union {k} /\ UNCHANGED <<asked, alive>>

Learn(k) ==
  k \in told /\ alive' = alive \union {k} /\ UNCHANGED <<asked, told>>

(* A daemon that is started again. *)
Forget(k) == alive' = alive \ {k} /\ UNCHANGED <<asked, told>>

Next == \E k \in Daemons : Ask(k) \/ Tell(k) \/ Learn(k) \/ Forget(k)

Spec == Init /\ [][Next]_vars
=============================================================================

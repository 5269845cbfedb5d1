-------------------------- MODULE MCCircularQueue --------------------------
(* CircularQueue on a ring of three slots: it wraps around, fills up and
   empties with three threads (the timer and UART threads store, the socket
   thread retrieves; here any thread may do both). *)
EXTENDS CircularQueue, TLC

CONSTANTS tty, socket, timer, p1, p2

MCThreads == {tty, socket, timer}
MCData == {p1, p2}

Symmetry == Permutations(MCThreads) \union Permutations(MCData)
=============================================================================

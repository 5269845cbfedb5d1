---------------------------- MODULE MCTimerHeap ----------------------------
(* TimerHeap with a heap of up to three levels: it is built from every array
   of up to four timers, grows by resizing from every smaller capacity, and
   percolates up and down over two levels. *)
EXTENDS TimerHeap, TLC

CONSTANTS t1, t2, t3, t4, MaxTime, MaxCap

MCTimers == {t1, t2, t3, t4}
MCTime == 0 .. MaxTime
MCCaps == 1 .. MaxCap

Symmetry == Permutations(MCTimers)
=============================================================================

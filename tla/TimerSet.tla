----------------------------- MODULE TimerSet ------------------------------
(***************************************************************************)
(* What the timer heap of the knx daemon promises: a set of pending timers *)
(* from which the earliest is always taken first.  A timer's callback runs *)
(* once, not before its expiry and never after the timer was deleted; the  *)
(* timer leaves the set when its callback has returned, or without a       *)
(* callback when it was deleted.  While a callback runs it may add timers  *)
(* that do not expire before its own.                                      *)
(* TimerHeap implements this specification (property RefinesTimerSet).     *)
(***************************************************************************)
EXTENDS Integers

CONSTANTS
  Timers,     \* the timer objects (struct knx_timer pointers)
  Time,       \* the values of time_t in use
  NULL        \* no callback is running

VARIABLES
  pending,    \* the timers added and not yet removed
  expire,     \* expire[t]: when t is due
  deleted,    \* the pending timers that timer_heap_del was called on
  firing,     \* the timer whose callback has started, until it is removed
  now         \* the clock, time(NULL)

vars == <<pending, expire, deleted, firing, now>>

Init ==
  /\ pending \in SUBSET Timers
  /\ expire \in [Timers -> Time]
  /\ deleted = {}
  /\ firing = NULL
  /\ now \in Time

Earliest(t) ==
  /\ t \in pending
  /\ \A u \in pending : expire[t] <= expire[u]

Add(t, e) ==
  /\ t \notin pending
  /\ firing # NULL => e >= expire[firing]
  /\ pending' = pending \union {t}
  /\ expire' = [expire EXCEPT ![t] = e]
  /\ UNCHANGED <<deleted, firing, now>>

Delete(t) ==
  /\ t \in pending
  /\ firing = NULL
  /\ deleted' = deleted \union {t}
  /\ UNCHANGED <<pending, expire, firing, now>>

(* The callback of the earliest timer starts. *)
Fire(t) ==
  /\ firing = NULL
  /\ Earliest(t)
  /\ t \notin deleted
  /\ expire[t] <= now
  /\ firing' = t
  /\ UNCHANGED <<pending, expire, deleted, now>>

(* The timer is removed: the one that fired, or a deleted one. *)
Remove(t) ==
  /\ Earliest(t)
  /\ t = firing \/ (firing = NULL /\ t \in deleted)
  /\ pending' = pending \ {t}
  /\ deleted' = deleted \ {t}
  /\ firing' = NULL
  /\ UNCHANGED <<expire, now>>

Clock ==
  /\ now' \in Time
  /\ now' > now
  /\ UNCHANGED <<pending, expire, deleted, firing>>

Next ==
  \/ \E t \in Timers :
       \/ \E e \in Time : Add(t, e)
       \/ Delete(t) \/ Fire(t) \/ Remove(t)
  \/ Clock

Spec == Init /\ [][Next]_vars
=============================================================================

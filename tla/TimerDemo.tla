----------------------------- MODULE TimerDemo -----------------------------
(***************************************************************************)
(* The timer demo of misc/timer: six timers, two of them invalidated after *)
(* the heap was built, and a main loop that sleeps until the root is due   *)
(* and ticks.  mytimer_heap.c is an earlier copy of knx/timerHeap.c with   *)
(* the same build, pop and percolation; here the heap is the set of        *)
(* pending timers from which the earliest is taken, which TimerHeap is     *)
(* proved to implement.                                                    *)
(***************************************************************************)
EXTENDS Integers, Sequences

CONSTANTS
  MaxNow,      \* the clock stops here
  InitTime     \* how long the six calls of mytimer_init take at most

VARIABLES
  phase,       \* where main is
  expire,      \* of the timers initialized so far, in the order of gTimer
  valid,       \* the timers whose valid is set
  pending,     \* the timers in the heap
  cur,         \* the clock as the running tick read it
  now,         \* time(NULL)
  fired        \* the callbacks run so far: timers, in order

demo_vars == <<phase, expire, valid, pending, cur, now, fired>>

delays == <<1, 12, 6, 8, 9, 21>>
Timers == DOMAIN delays
WithCallback == {1, 2, 3}

ASSUME TimeAssumption ==
  InitTime \in Nat /\ MaxNow \in Nat /\ MaxNow >= InitTime + 21

DemoInit ==
  /\ phase = "init"
  /\ expire = <<>> /\ valid = {} /\ pending = {}
  /\ cur = 0 /\ now = 0 /\ fired = <<>>

(* One after the other. *)
mytimer_init ==
  /\ phase = "init"
  /\ Len(expire) < Len(delays)
  /\ expire' = Append(expire, now + delays[Len(expire) + 1])
  /\ valid' = valid \union {Len(expire) + 1}
  /\ UNCHANGED <<phase, pending, cur, now, fired>>

(* mytimer_heap_init_by_array, and the fourth and the sixth timer made
   invalid. *)
Build ==
  /\ phase = "init"
  /\ Len(expire) = Len(delays)
  /\ pending' = Timers
  /\ valid' = valid \ {4, 6}
  /\ phase' = "loop"
  /\ UNCHANGED <<expire, cur, now, fired>>

Earliest(t) == t \in pending /\ \A u \in pending : expire[t] <= expire[u]

(* Mutant: an invalid timer is skipped but not popped. *)
PopInvalidLeft(t) ==
  /\ phase = "loop"
  /\ Earliest(t)
  /\ t \notin valid
  /\ UNCHANGED demo_vars

PopInvalid(t) ==
  /\ phase = "loop"
  /\ Earliest(t)
  /\ t \notin valid
  /\ pending' = pending \ {t}
  /\ UNCHANGED <<phase, expire, valid, cur, now, fired>>

(* sleep may be cut short by a signal; the tick reads the clock. *)
SleepAndTick(t) ==
  /\ phase = "loop"
  /\ Earliest(t)
  /\ t \in valid
  /\ cur' = now
  /\ phase' = "tick"
  /\ UNCHANGED <<expire, valid, pending, now, fired>>

(* Mutant: a timer is taken for due one second early. *)
ExpiredEarly(t) == expire[t] <= cur + 1

Expired(t) == expire[t] <= cur

(* A timer that is due: its callback, if it has one, and the pop. *)
TickFire(t) ==
  /\ phase = "tick"
  /\ Earliest(t) /\ Expired(t)
  /\ fired' = IF t \in WithCallback THEN Append(fired, t) ELSE fired
  /\ pending' = pending \ {t}
  /\ UNCHANGED <<phase, expire, valid, cur, now>>

TickReturn ==
  /\ phase = "tick"
  /\ \A t \in pending : Earliest(t) => ~ Expired(t)
  /\ phase' = "loop"
  /\ UNCHANGED <<expire, valid, pending, cur, now, fired>>

Return ==
  /\ phase = "loop"
  /\ pending = {}
  /\ phase' = "done"
  /\ UNCHANGED <<expire, valid, pending, cur, now, fired>>

main ==
  \/ mytimer_init \/ Build
  \/ \E t \in pending : PopInvalid(t) \/ SleepAndTick(t) \/ TickFire(t)
  \/ TickReturn \/ Return

Clock ==
  /\ now < MaxNow
  /\ phase = "init" => now < InitTime
  /\ now' = now + 1
  /\ UNCHANGED <<phase, expire, valid, pending, cur, fired>>

Ended == phase = "done" /\ UNCHANGED demo_vars

DemoNext == main \/ Clock \/ Ended

DemoSpec == DemoInit /\ [][DemoNext]_demo_vars

(* main is scheduled and time passes. *)
DemoFairSpec == DemoSpec /\ WF_demo_vars(main) /\ WF_demo_vars(Clock)

-----------------------------------------------------------------------------
(* The callbacks run in the order of their expiry times, none early and none
   twice, although main looks at the root, sleeps, and lets the tick look
   again. *)
InOrder ==
  \A k \in DOMAIN fired :
    /\ expire[fired[k]] <= now
    /\ \A j \in 1 .. k - 1 : /\ fired[j] # fired[k]
                             /\ expire[fired[j]] <= expire[fired[k]]

DemoTypeOK ==
  /\ phase \in {"init", "loop", "tick", "done"}
  /\ expire \in Seq(Nat) /\ Len(expire) <= Len(delays)
  /\ phase # "init" => Len(expire) = Len(delays)
  /\ valid \in SUBSET Timers /\ pending \in SUBSET Timers
  /\ now \in Nat /\ cur \in 0 .. now
  /\ fired \in Seq(Timers)

(* The inductive invariant behind InOrder: a timer whose callback has run is
   out of the heap, and what is left there expires no earlier. *)
DemoInv ==
  /\ DemoTypeOK /\ InOrder
  /\ phase = "init" => fired = <<>>
  /\ \A k \in DOMAIN fired :
       /\ fired[k] \notin pending
       /\ \A t \in pending : expire[fired[k]] <= expire[t]

(* The demo ends, with every callback run: an invalid timer at the root, or
   one without a callback, does not hold up those behind it. *)
AllFire ==
  <>(phase = "done" /\ {fired[k] : k \in DOMAIN fired} = WithCallback)
=============================================================================

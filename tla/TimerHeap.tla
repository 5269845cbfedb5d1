----------------------------- MODULE TimerHeap -----------------------------
(***************************************************************************)
(* The timer heap of src/knx/timerHeap.c, one loop iteration per step, and *)
(* the loop of src/knx/threadTimer.c that pops and ticks it.  The heap has *)
(* no lock; here its operations are called one at a time, which is what    *)
(* the code needs of its callers.  While the timer thread sleeps between   *)
(* two turns (pc = "idle") other code adds and deletes timers.             *)
(***************************************************************************)
EXTENDS Integers

CONSTANTS
  Timers,     \* the timer objects (struct knx_timer pointers)
  Time,       \* the values of time_t in use
  Caps,       \* initial capacities (the daemon's is DEFAULT_TIMER_HEAP_SIZE)
  NULL        \* the null pointer

(* timer_heap_resize doubles the capacity, which never leaves 0: a heap made
   by timer_heap_init(0) overruns its array.  The daemon passes 64. *)
ASSUME CapsAssumption == Caps \subseteq Nat \ {0}

ASSUME TimeAssumption == Time \subseteq Nat

ASSUME NullAssumption == NULL \notin Timers

VARIABLES
  timer_array,            \* gTimer_heap.timer_array
  capacity, cur_size,     \* gTimer_heap.capacity, gTimer_heap.cur_size
  expire, valid, cb_func, \* the fields of each struct knx_timer
  pc,                     \* where the running operation is
  ret,                    \* where it returns to
  hole, temp,             \* locals of the two percolation loops
  base,                   \* i of timer_heap_init_by_array: parents from here
                          \* on are in heap order (0 once it has returned)
  cur,                    \* local cur of timer_heap_tick
  now                     \* time(NULL)

heap == <<timer_array, capacity, cur_size>>
fields == <<expire, valid, cb_func>>
locals == <<hole, temp, base, cur>>
vars == <<heap, fields, pc, ret, locals, now>>

Indices == 0 .. cur_size - 1

timer_heap_is_empty == cur_size <= 0

parent(i) == (i - 1) \div 2

left(i) == 2 * i + 1

-----------------------------------------------------------------------------
(* timer_heap_init(cap), and timer_heap_init_by_array(init_array, size, cap)
   with every array that fits: it copies the array and then percolates down
   from the last parent to the root. *)
Init ==
  /\ capacity \in Caps
  /\ cur_size \in 0 .. capacity
  /\ timer_array \in [0 .. capacity - 1 -> Timers \union {NULL}]
  /\ \A i \in 0 .. capacity - 1 : timer_array[i] # NULL <=> i < cur_size
  /\ \A i, j \in Indices : timer_array[i] = timer_array[j] => i = j
  /\ expire \in [Timers -> Time]
  /\ valid = [t \in Timers |-> TRUE]
  /\ cb_func = [t \in Timers |-> TRUE]
  /\ base = IF cur_size = 0 THEN 0 ELSE parent(cur_size) + 1
  /\ pc = IF cur_size = 0 THEN "idle" ELSE "build"
  /\ ret = "idle"
  /\ hole = 0
  /\ temp = NULL
  /\ cur = 0
  /\ now \in Time

-----------------------------------------------------------------------------
(* timer_heap_add *)

(* A full array is copied into one twice as large. *)
timer_heap_resize ==
  /\ capacity' = 2 * capacity
  /\ timer_array' = [i \in 0 .. 2 * capacity - 1 |->
                       IF i < cur_size THEN timer_array[i] ELSE NULL]

(* The new timer's fields, and the hole at the end. *)
AddFrom(t, e, from, return) ==
  /\ pc = from
  /\ pc' = "up"
  /\ ret' = return
  /\ t \notin {timer_array[i] : i \in Indices}
  /\ expire' = [expire EXCEPT ![t] = e]
  /\ valid' = [valid EXCEPT ![t] = TRUE]
  /\ cb_func' = [cb_func EXCEPT ![t] = TRUE]
  /\ \/ cur_size < capacity /\ UNCHANGED <<timer_array, capacity>>
     \/ cur_size >= capacity /\ timer_heap_resize
  /\ cur_size' = cur_size + 1
  /\ hole' = cur_size
  /\ temp' = t
  /\ UNCHANGED <<base, cur, now>>

Add(t, e) == AddFrom(t, e, "idle", "idle")

(* The callback re-arms itself: not before the timer that is firing (the
   daemon's only callback uses the same expiry). *)
CallbackAdd(t, e) ==
  /\ pc = "callback"
  /\ e >= expire[timer_array[0]]
  /\ AddFrom(t, e, "callback", "callback")

(* The loop's locals go out of scope. *)
EndLoop == hole' = 0 /\ temp' = NULL

RisesAbove == hole > 0 /\ expire[timer_array[parent(hole)]] > expire[temp]

UpStep ==
  /\ pc = "up"
  /\ RisesAbove
  /\ timer_array' = [timer_array EXCEPT ![hole] = timer_array[parent(hole)]]
  /\ hole' = parent(hole)
  /\ UNCHANGED <<capacity, cur_size, fields, pc, ret, temp, base, cur, now>>

UpDone ==
  /\ pc = "up"
  /\ ~ RisesAbove
  /\ timer_array' = [timer_array EXCEPT ![hole] = temp]
  /\ pc' = ret
  /\ EndLoop
  /\ UNCHANGED <<capacity, cur_size, fields, ret, base, cur, now>>

-----------------------------------------------------------------------------
(* timer_heap_del *)
Del(t) ==
  /\ pc = "idle"
  /\ t \in {timer_array[i] : i \in Indices}
  /\ valid' = [valid EXCEPT ![t] = FALSE]
  /\ cb_func' = [cb_func EXCEPT ![t] = FALSE]
  /\ UNCHANGED <<heap, expire, pc, ret, locals, now>>

-----------------------------------------------------------------------------
(* timer_heap_percolate_down *)

(* Mutant: the right child is never looked at. *)
left_child(h) == left(h)

smaller_child(h) ==
  IF left(h) < cur_size - 1
     /\ expire[timer_array[left(h) + 1]] < expire[timer_array[left(h)]]
  THEN left(h) + 1
  ELSE left(h)

SinksBelow ==
  /\ left(hole) <= cur_size - 1
  /\ expire[timer_array[smaller_child(hole)]] < expire[temp]

DownStep ==
  /\ pc = "down"
  /\ SinksBelow
  /\ timer_array' = [timer_array EXCEPT
                       ![hole] = timer_array[smaller_child(hole)]]
  /\ hole' = smaller_child(hole)
  /\ UNCHANGED <<capacity, cur_size, fields, pc, ret, temp, base, cur, now>>

DownDone ==
  /\ pc = "down"
  /\ ~ SinksBelow
  /\ timer_array' = [timer_array EXCEPT ![hole] = temp]
  /\ pc' = ret
  /\ EndLoop
  /\ UNCHANGED <<capacity, cur_size, fields, ret, base, cur, now>>

(* The next parent of timer_heap_init_by_array, from the last to the root. *)
BuildStep ==
  /\ pc = "build"
  /\ base > 0
  /\ base' = base - 1
  /\ \/ cur_size < 2 /\ UNCHANGED <<pc, ret, hole, temp>>
     \/ /\ cur_size >= 2
        /\ pc' = "down"
        /\ ret' = "build"
        /\ hole' = base - 1
        /\ temp' = timer_array[base - 1]
  /\ UNCHANGED <<heap, fields, cur, now>>

BuildDone ==
  /\ pc = "build"
  /\ base = 0
  /\ pc' = "idle"
  /\ UNCHANGED <<heap, fields, ret, locals, now>>

-----------------------------------------------------------------------------
(* timer_heap_pop: the last timer goes to the root and sinks.  The slot it
   leaves keeps its pointer; with fewer than two timers left nothing sinks. *)
Pop(return) ==
  /\ cur_size' = cur_size - 1
  /\ timer_array' = [timer_array EXCEPT ![0] = timer_array[cur_size - 1]]
  /\ \/ /\ cur_size' < 2
        /\ pc' = return
        /\ UNCHANGED <<ret, hole, temp>>
     \/ /\ cur_size' >= 2
        /\ pc' = "down"
        /\ ret' = return
        /\ hole' = 0
        /\ temp' = timer_array'[0]
  /\ UNCHANGED <<capacity, fields, base, cur, now>>

(* handle_timer: a turn that finds the top timer invalid pops it. *)
PopInvalid ==
  /\ pc = "idle"
  /\ ~ timer_heap_is_empty
  /\ ~ valid[timer_array[0]]
  /\ Pop("idle")

(* handle_timer: a turn that found the top timer valid sleeps until it is due
   and ticks.  A signal ends the sleep early, the scheduler late, and timers
   come and go meanwhile: the tick may start at any time. *)
Tick ==
  /\ pc = "idle"
  /\ ~ timer_heap_is_empty
  /\ pc' = "tick"
  /\ cur' = now
  /\ UNCHANGED <<heap, fields, ret, hole, temp, base, now>>

(* timer_heap_tick: the loop and its two ways out. *)

(* Mutant: a timer due at this very second is left for later. *)
ExpiredBefore == ~ timer_heap_is_empty /\ expire[timer_array[0]] < cur

(* Mutant: the callback of a deleted timer runs. *)
TickCallbackAlways ==
  /\ pc = "tick"
  /\ ~ timer_heap_is_empty /\ expire[timer_array[0]] <= cur
  /\ pc' = "callback"
  /\ UNCHANGED <<heap, fields, ret, locals, now>>

Expired == ~ timer_heap_is_empty /\ expire[timer_array[0]] <= cur

TickCallback ==
  /\ pc = "tick"
  /\ Expired
  /\ pc' = IF cb_func[timer_array[0]] THEN "callback" ELSE "pop"
  /\ UNCHANGED <<heap, fields, ret, locals, now>>

CallbackReturn ==
  /\ pc = "callback"
  /\ pc' = "pop"
  /\ UNCHANGED <<heap, fields, ret, locals, now>>

TickPop ==
  /\ pc = "pop"
  /\ Pop("tick")

TickReturn ==
  /\ pc = "tick"
  /\ ~ Expired
  /\ pc' = "idle"
  /\ cur' = 0
  /\ UNCHANGED <<heap, fields, ret, hole, temp, base, now>>

Clock ==
  /\ now' \in Time
  /\ now' > now
  /\ UNCHANGED <<heap, fields, pc, ret, locals>>

Next ==
  \/ \E t \in Timers : \/ \E e \in Time : Add(t, e) \/ CallbackAdd(t, e)
                       \/ Del(t)
  \/ UpStep \/ UpDone
  \/ DownStep \/ DownDone
  \/ BuildStep \/ BuildDone
  \/ PopInvalid
  \/ Tick \/ TickCallback \/ CallbackReturn \/ TickPop \/ TickReturn
  \/ Clock

Spec == Init /\ [][Next]_vars

-----------------------------------------------------------------------------
InFlight == pc \in {"up", "down"}

(* The slots whose timer is not a left-over copy. *)
Filled == IF InFlight THEN Indices \ {hole} ELSE Indices

Pending ==
  {timer_array[i] : i \in Filled} \union (IF InFlight THEN {temp} ELSE {})

CallbackRunning ==
  \/ pc = "callback"
  \/ pc = "up" /\ ret = "callback"
  \/ pc = "pop" /\ cb_func[timer_array[0]]

(* The fields stay in range. *)
TypeOK ==
  /\ capacity \in Nat \ {0}
  /\ cur_size \in 0 .. capacity
  /\ timer_array \in [0 .. capacity - 1 -> Timers \union {NULL}]
  /\ expire \in [Timers -> Time]
  /\ valid \in [Timers -> BOOLEAN]
  /\ cb_func \in [Timers -> BOOLEAN]
  /\ pc \in {"idle", "up", "down", "build", "tick", "callback", "pop"}
  /\ ret \in {"idle", "callback", "tick", "build"}
  /\ hole \in Nat
  /\ temp \in Timers \union {NULL}
  /\ base \in Nat
  /\ cur \in Nat
  /\ now \in Time
  /\ InFlight => hole \in Indices /\ temp \in Timers

(* Every slot below cur_size holds a timer, and no timer twice; the one in
   flight is in no slot. *)
NoDuplicates ==
  /\ \A i \in Filled : timer_array[i] \in Timers
  /\ \A i, j \in Filled : timer_array[i] = timer_array[j] => i = j
  /\ InFlight => \A i \in Filled : timer_array[i] # temp

InOrder(i, j) == expire[timer_array[i]] <= expire[timer_array[j]]

(* No timer is due before its parent; around the hole of a percolation, the
   hole's parent is not due after the hole's children, and the timer in
   flight fits on the side it comes from. *)
HeapOrder ==
  /\ \A i \in Filled \ {0} :
       parent(i) \in Filled /\ parent(i) >= base => InOrder(parent(i), i)
  /\ InFlight =>
       \A i \in Filled \ {0} :
         /\ parent(i) = hole /\ hole > 0 /\ parent(hole) >= base
              => InOrder(parent(hole), i)
         /\ parent(i) = hole /\ pc = "up"
              => expire[temp] <= expire[timer_array[i]]
  /\ pc = "down" /\ hole > 0 /\ parent(hole) >= base
       => expire[timer_array[parent(hole)]] <= expire[temp]

(* Which operations are nested in which, and what a tick has established
   when it runs a callback or pops. *)
Control ==
  /\ base > 0 => pc = "build" \/ (pc = "down" /\ ret = "build")
  /\ pc = "build" => base <= cur_size
  /\ pc = "down" => ret # "callback" /\ base <= hole
  /\ pc = "down" /\ ret # "build" => base = 0
  /\ pc = "up" => ret \in {"idle", "callback"}
  /\ pc = "up" /\ ret = "callback"
       => hole > 0 /\ expire[timer_array[0]] <= expire[temp]
  /\ pc \in {"callback", "pop"} => ~ timer_heap_is_empty
  /\ pc \in {"callback", "pop"} \/ (pc = "up" /\ ret = "callback")
       => expire[timer_array[0]] <= cur
  /\ pc = "callback" \/ (pc = "up" /\ ret = "callback")
       => cb_func[timer_array[0]]
  /\ cur <= now
  /\ \A t \in Timers : valid[t] = cb_func[t]

IInv == TypeOK /\ NoDuplicates /\ HeapOrder /\ Control

(* When timer_heap_tick returns, every timer that was due when it read the
   clock is gone, the ones its callbacks added included. *)
TickDrains ==
  [][pc = "tick" /\ pc' = "idle"
       => \A t \in Pending : expire[t] > cur]_vars

Set == INSTANCE TimerSet WITH
         pending <- Pending,
         deleted <- {t \in Pending : ~ cb_func[t]},
         firing <- IF CallbackRunning THEN timer_array[0] ELSE NULL

(* The heap is a set from which the earliest timer is taken first: none is
   lost, duplicated, fired early, fired twice or fired after it was deleted. *)
RefinesTimerSet == Set!Spec
=============================================================================

----------------------------- MODULE TimerRace -----------------------------
(***************************************************************************)
(* The timer heap of src/knx, gTimer_heap, as the socket thread and the    *)
(* timer thread of the knx daemon share it: without a lock.  A step is one *)
(* write to cur_size, capacity or timer_array, or one read whose value a   *)
(* later step uses, together with the tests that lead to it, in the order  *)
(* of the program.                                                         *)
(*                                                                         *)
(* All timers of the daemon expire at the instant 3, which is past, so     *)
(* every comparison of two of them finds them equal.  A freed timer may be *)
(* allocated again.  What a use of freed memory or of an index outside the *)
(* array does is not pursued: the process is "undefined" from there, and   *)
(* "crashed" where it goes through a null pointer.  overlapped is not in   *)
(* the code: it records that a step of one thread on the heap came in the  *)
(* middle of an operation of the other.                                    *)
(***************************************************************************)
EXTENDS Integers

CONSTANTS
  Timers,      \* memory for timers
  NULL,
  Capacity,    \* of the heap at first
  MaxArms      \* the socket thread arms no more timers than this

ASSUME TimersAssumption == NULL \notin Timers
ASSUME CapacityAssumption == Capacity \in Nat \ {0} /\ MaxArms \in Nat

VARIABLES
  timer_array, cur_size, capacity,   \* gTimer_heap
  allocated,    \* the timers that are allocated and not freed
  alive,        \* the smart controller has answered
  pc,           \* where each thread is
  hole,         \* local hole of each thread; in a pop, the index read
  mine,         \* the timer each thread is adding
  temp, copied, \* locals temp and i of timer_heap_resize, per thread
  tmp,          \* local tmp of timer_heap_tick, then temp of percolate_down
  arms,         \* timers the socket thread has armed
  status,       \* "running", "crashed" or "undefined"
  overlapped

heap == <<timer_array, cur_size, capacity>>
resize == <<temp, copied>>
vars == <<heap, allocated, alive, pc, hole, mine, resize, tmp, arms, status,
          overlapped>>

Threads == {"socket", "timer"}
Other(t) == IF t = "socket" THEN "timer" ELSE "socket"

Init ==
  /\ timer_array = [i \in 0 .. Capacity - 1 |-> NULL]
  /\ cur_size = 0 /\ capacity = Capacity
  /\ allocated = {}
  /\ alive = FALSE
  /\ pc = [t \in Threads |-> IF t = "socket" THEN "idle" ELSE "top"]
  /\ hole = [t \in Threads |-> 0]
  /\ mine = [t \in Threads |-> NULL]
  /\ temp = [t \in Threads |-> <<>>]
  /\ copied = [t \in Threads |-> 0]
  /\ tmp = NULL /\ arms = 0
  /\ status = "running" /\ overlapped = FALSE

Running == status = "running"

Goto(t, l) == pc' = [pc EXCEPT ![t] = l]

(* Between these places and the step before them a thread has no operation
   on the heap under way. *)
Between(t) == pc[t] \in {"idle", "top", "tick", "call", "add", "pop"}

(* What a step of t on the heap records. *)
Overlap(t) == overlapped' = (overlapped \/ ~ Between(Other(t)))

(* The use of the timers X, as a pointer each. *)
Sound(X) == X \subseteq allocated

UseOf(t, X) ==
  /\ ~ Sound(X)
  /\ status' = IF NULL \in X THEN "crashed" ELSE "undefined"
  /\ Overlap(t)
  /\ UNCHANGED <<heap, allocated, alive, pc, hole, mine, resize, tmp, arms>>

(* Elements at the indices I, and an access outside the array, or to the array
   that a resize of the other thread has freed and not yet replaced. *)
At(I) == {timer_array[i] : i \in I}
Inside(I) == I \subseteq DOMAIN timer_array

OutOf(t, I) ==
  /\ ~ Inside(I) \/ pc[Other(t)] = "switch"
  /\ status' = "undefined"
  /\ Overlap(t)
  /\ UNCHANGED <<heap, allocated, alive, pc, hole, mine, resize, tmp, arms>>

-----------------------------------------------------------------------------
(* timer_heap_add, by either thread. *)

(* Mutant: the heap is resized one timer too late. *)
AddTestLate(t) ==
  /\ Running
  /\ pc[t] = "add"
  /\ Goto(t, IF cur_size > capacity THEN "resize" ELSE "index")
  /\ Overlap(t)
  /\ UNCHANGED <<heap, allocated, alive, hole, mine, resize, tmp, status,
                 arms>>

AddTest(t) ==
  /\ Running
  /\ pc[t] = "add"
  /\ Goto(t, IF cur_size >= capacity THEN "resize" ELSE "index")
  /\ Overlap(t)
  /\ UNCHANGED <<heap, allocated, alive, hole, mine, resize, tmp, status,
                 arms>>

ResizeAlloc(t) ==
  /\ Running
  /\ pc[t] = "resize"
  /\ temp' = [temp EXCEPT ![t] = [i \in 0 .. 2 * capacity - 1 |-> NULL]]
  /\ copied' = [copied EXCEPT ![t] = 0]
  /\ Goto(t, "double")
  /\ Overlap(t)
  /\ UNCHANGED <<heap, allocated, alive, hole, mine, tmp, status, arms>>

ResizeDouble(t) ==
  /\ Running
  /\ pc[t] = "double"
  /\ capacity' = 2 * capacity
  /\ Goto(t, "copy")
  /\ Overlap(t)
  /\ UNCHANGED <<timer_array, cur_size, allocated, alive, hole, mine, resize,
                 tmp, status, arms>>

ResizeCopy(t) ==
  /\ Running
  /\ pc[t] = "copy"
  /\ LET i == copied[t] IN
     \/ /\ i < cur_size
        /\ Inside({i}) /\ i \in DOMAIN temp[t]
        /\ temp' = [temp EXCEPT ![t][i] = timer_array[i]]
        /\ copied' = [copied EXCEPT ![t] = i + 1]
        /\ Overlap(t)
        /\ UNCHANGED <<heap, allocated, alive, pc, hole, mine, tmp, status,
                       arms>>
     \/ /\ i < cur_size
        /\ OutOf(t, {i} \union ({i} \ DOMAIN temp[t]))
     \/ /\ i >= cur_size
        /\ Goto(t, "switch")
        /\ Overlap(t)
        /\ UNCHANGED <<heap, allocated, alive, hole, mine, resize, tmp,
                       status, arms>>

(* The old array has been freed. *)
ResizeSwitch(t) ==
  /\ Running
  /\ pc[t] = "switch"
  /\ timer_array' = temp[t]
  /\ temp' = [temp EXCEPT ![t] = <<>>]
  /\ copied' = [copied EXCEPT ![t] = 0]
  /\ Goto(t, "index")
  /\ Overlap(t)
  /\ UNCHANGED <<cur_size, capacity, allocated, alive, hole, mine, tmp, status,
                 arms>>

(* cur_size++ reads the size and writes what it read plus one. *)
AddIndex(t) ==
  /\ Running
  /\ pc[t] = "index"
  /\ hole' = [hole EXCEPT ![t] = cur_size]
  /\ Goto(t, "bump")
  /\ Overlap(t)
  /\ UNCHANGED <<heap, allocated, alive, mine, resize, tmp, status, arms>>

AddBump(t) ==
  /\ Running
  /\ pc[t] = "bump"
  /\ cur_size' = hole[t] + 1
  /\ Goto(t, IF hole[t] > 0 THEN "compare" ELSE "store")
  /\ Overlap(t)
  /\ UNCHANGED <<timer_array, capacity, allocated, alive, hole, mine, resize,
                 tmp,
                 status, arms>>

(* The parent never expires later: the loop ends at once. *)
AddCompare(t) ==
  /\ Running
  /\ pc[t] = "compare"
  /\ LET parent == (hole[t] - 1) \div 2 IN
     \/ OutOf(t, {parent})
     \/ Inside({parent}) /\ UseOf(t, At({parent}))
     \/ /\ Inside({parent}) /\ Sound(At({parent}))
        /\ Goto(t, "store")
        /\ Overlap(t)
        /\ UNCHANGED <<heap, allocated, alive, hole, mine, resize, tmp,
                       status, arms>>

AddStore(t) ==
  /\ Running
  /\ pc[t] = "store"
  /\ \/ OutOf(t, {hole[t]})
     \/ /\ Inside({hole[t]})
        /\ timer_array' = [timer_array EXCEPT ![hole[t]] = mine[t]]
        /\ mine' = [mine EXCEPT ![t] = NULL]
        /\ hole' = [hole EXCEPT ![t] = 0]
        /\ Goto(t, IF t = "socket" THEN "idle" ELSE "pop")
        /\ Overlap(t)
        /\ UNCHANGED <<cur_size, capacity, allocated, alive, resize, tmp,
                       status, arms>>

Add(t) ==
  AddTest(t) \/ ResizeAlloc(t) \/ ResizeDouble(t) \/ ResizeCopy(t)
  \/ ResizeSwitch(t) \/ AddIndex(t) \/ AddBump(t) \/ AddCompare(t)
  \/ AddStore(t)

(* handle_socket: a request that needs an answer has been sent. *)
Arm ==
  /\ Running
  /\ pc["socket"] = "idle"
  /\ arms < MaxArms
  /\ arms' = arms + 1
  /\ \E t \in Timers \ allocated :
       /\ allocated' = allocated \union {t}
       /\ mine' = [mine EXCEPT !["socket"] = t]
  /\ Goto("socket", "add")
  /\ UNCHANGED <<heap, alive, hole, resize, tmp, status, overlapped>>

-----------------------------------------------------------------------------
(* handle_timer *)

Top ==
  /\ Running
  /\ pc["timer"] = "top"
  /\ LET due == cur_size > 0 /\ At({0}) # {NULL} IN
     \/ ~ due /\ UNCHANGED vars
     \/ due /\ OutOf("timer", {0})
     \/ due /\ UseOf("timer", At({0}))
     \/ /\ due /\ Sound(At({0}))
        /\ Goto("timer", "tick")
        /\ Overlap("timer")
        /\ UNCHANGED <<heap, allocated, alive, hole, mine, resize, tmp,
                       status, arms>>

(* timer_heap_tick: tmp is read before the loop looks at the size. *)
TickRead ==
  /\ Running
  /\ pc["timer"] = "tick"
  /\ \/ OutOf("timer", {0})
     \/ /\ Inside({0})
        /\ tmp' = timer_array[0]
        /\ Goto("timer", "test")
        /\ Overlap("timer")
        /\ UNCHANGED <<heap, allocated, alive, hole, mine, resize, status,
                       arms>>

TickTest ==
  /\ Running
  /\ pc["timer"] = "test"
  /\ LET going == cur_size > 0 /\ tmp # NULL IN
     \/ going /\ UseOf("timer", {tmp})
     \/ /\ going => Sound({tmp})
        /\ Goto("timer", IF going THEN "call" ELSE "top")
        /\ tmp' = NULL
        /\ Overlap("timer")
        /\ UNCHANGED <<heap, allocated, alive, hole, mine, resize, status,
                       arms>>

(* Mutant: the timer is not armed again. *)
TickCallOnce ==
  /\ Running
  /\ pc["timer"] = "call"
  /\ \/ OutOf("timer", {0})
     \/ UseOf("timer", At({0}))
     \/ /\ Sound(At({0}))
        /\ Goto("timer", "pop")
        /\ Overlap("timer")
        /\ UNCHANGED <<heap, allocated, alive, hole, mine, resize, tmp, status,
                       arms>>

(* Mutant: the timer is armed again after the answer too. *)
TickCallAlways ==
  /\ Running
  /\ pc["timer"] = "call"
  /\ \/ OutOf("timer", {0})
     \/ UseOf("timer", At({0}))
     \/ /\ Sound(At({0}))
        /\ \E t \in Timers \ allocated :
             /\ allocated' = allocated \union {t}
             /\ mine' = [mine EXCEPT !["timer"] = t]
        /\ Goto("timer", "add")
        /\ Overlap("timer")
        /\ UNCHANGED <<heap, alive, hole, resize, tmp, status, arms>>

(* The callback of the root: nothing if the smart controller is alive,
   otherwise the timer is armed again. *)
TickCall ==
  /\ Running
  /\ pc["timer"] = "call"
  /\ \/ OutOf("timer", {0})
     \/ UseOf("timer", At({0}))
     \/ /\ Sound(At({0}))
        /\ IF alive
           THEN Goto("timer", "pop") /\ UNCHANGED <<allocated, mine, arms>>
           ELSE \E t \in Timers \ allocated :
                  /\ allocated' = allocated \union {t}
                  /\ mine' = [mine EXCEPT !["timer"] = t]
                  /\ Goto("timer", "add")
        /\ Overlap("timer")
        /\ UNCHANGED <<heap, alive, hole, resize, tmp, status, arms>>

(* timer_heap_pop: nothing if there is no root, otherwise the root is freed;
   free() of a freed timer is a use of it. *)
Pop ==
  /\ Running
  /\ pc["timer"] = "pop"
  /\ LET root == timer_array[0] IN
     \/ OutOf("timer", {0})
     \/ /\ cur_size <= 0 \/ root = NULL
        /\ Goto("timer", "tick")
        /\ Overlap("timer")
        /\ UNCHANGED <<heap, allocated, alive, hole, mine, resize, tmp,
                       status, arms>>
     \/ cur_size > 0 /\ root # NULL /\ UseOf("timer", {root})
     \/ /\ cur_size > 0 /\ root \in allocated
        /\ allocated' = allocated \ {root}
        /\ Goto("timer", "dec")
        /\ Overlap("timer")
        /\ UNCHANGED <<heap, alive, hole, mine, resize, tmp, status, arms>>

(* Mutant: the pop counts a timer too many. *)
PopDecTwo ==
  /\ Running
  /\ pc["timer"] = "dec"
  /\ hole' = [hole EXCEPT !["timer"] = cur_size - 2]
  /\ Goto("timer", "dec_write")
  /\ Overlap("timer")
  /\ UNCHANGED <<heap, allocated, alive, mine, resize, tmp, status, arms>>

PopDec ==
  /\ Running
  /\ pc["timer"] = "dec"
  /\ hole' = [hole EXCEPT !["timer"] = cur_size - 1]
  /\ Goto("timer", "dec_write")
  /\ Overlap("timer")
  /\ UNCHANGED <<heap, allocated, alive, mine, resize, tmp, status, arms>>

PopDecWrite ==
  /\ Running
  /\ pc["timer"] = "dec_write"
  /\ cur_size' = hole["timer"]
  /\ Goto("timer", "root")
  /\ Overlap("timer")
  /\ UNCHANGED <<timer_array, capacity, allocated, alive, hole, mine, resize,
                 tmp,
                 status, arms>>

PopRoot ==
  /\ Running
  /\ pc["timer"] = "root"
  /\ \/ OutOf("timer", {0, hole["timer"]})
     \/ /\ Inside({0, hole["timer"]})
        /\ timer_array' =
             [timer_array EXCEPT ![0] = timer_array[hole["timer"]]]
        /\ hole' = [hole EXCEPT !["timer"] = 0]
        /\ Goto("timer", "percolate")
        /\ Overlap("timer")
        /\ UNCHANGED <<cur_size, capacity, allocated, alive, mine, resize, tmp,
                       status, arms>>

(* timer_heap_percolate_down(0) takes the root out, unless it is alone ... *)
PopPercolate ==
  /\ Running
  /\ pc["timer"] = "percolate"
  /\ \/ /\ cur_size < 2
        /\ Goto("timer", "tick")
        /\ Overlap("timer")
        /\ UNCHANGED <<heap, allocated, alive, hole, mine, resize, tmp,
                       status, arms>>
     \/ cur_size >= 2 /\ OutOf("timer", {0})
     \/ /\ cur_size >= 2 /\ Inside({0})
        /\ tmp' = timer_array[0]
        /\ Goto("timer", "sift")
        /\ Overlap("timer")
        /\ UNCHANGED <<heap, allocated, alive, hole, mine, resize, status,
                       arms>>

(* ... compares it with its children, neither of which expires earlier ... *)
PopSift ==
  /\ Running
  /\ pc["timer"] = "sift"
  /\ LET children == {i \in 1 .. 2 : i < cur_size}
         compared == IF children = {} THEN {} ELSE At(children) \union {tmp}
     IN  \/ children # {} /\ OutOf("timer", children)
         \/ Inside(children) /\ UseOf("timer", compared)
         \/ /\ Inside(children) /\ Sound(compared)
            /\ Goto("timer", "place")
            /\ Overlap("timer")
            /\ UNCHANGED <<heap, allocated, alive, hole, mine, resize, tmp,
                           status, arms>>

(* ... and puts it back. *)
PopPlace ==
  /\ Running
  /\ pc["timer"] = "place"
  /\ \/ OutOf("timer", {0})
     \/ /\ Inside({0})
        /\ timer_array' = [timer_array EXCEPT ![0] = tmp]
        /\ tmp' = NULL
        /\ Goto("timer", "tick")
        /\ Overlap("timer")
        /\ UNCHANGED <<cur_size, capacity, allocated, alive, hole, mine,
                       resize, status, arms>>

Timer ==
  Top \/ TickRead \/ TickTest \/ TickCall \/ Add("timer")
  \/ Pop \/ PopDec \/ PopDecWrite \/ PopRoot
  \/ PopPercolate \/ PopSift \/ PopPlace

Answer ==
  /\ Running
  /\ ~ alive
  /\ alive' = TRUE
  /\ UNCHANGED <<heap, allocated, pc, hole, mine, resize, tmp, status,
                 overlapped, arms>>

Ended == ~ Running /\ UNCHANGED vars

Next == Arm \/ Add("socket") \/ Timer \/ Answer \/ Ended

Spec == Init /\ [][Next]_vars /\ WF_vars(Add("socket")) /\ WF_vars(Timer)

-----------------------------------------------------------------------------
Pointers == Timers \union {NULL}

(* The variables stay in range. *)
TypeOK ==
  /\ cur_size \in Nat /\ capacity \in Nat
  /\ \A i \in DOMAIN timer_array : timer_array[i] \in Pointers
  /\ allocated \subseteq Timers
  /\ alive \in BOOLEAN /\ overlapped \in BOOLEAN
  /\ pc \in [Threads ->
               {"idle", "top", "tick", "test", "call", "add", "resize",
                "double", "copy", "switch", "index", "bump", "compare",
                "store", "pop", "dec", "dec_write", "root", "percolate",
                "sift", "place"}]
  /\ hole \in [Threads -> Nat] /\ copied \in [Threads -> Nat]
  /\ mine \in [Threads -> Pointers] /\ tmp \in Pointers
  /\ DOMAIN temp = Threads
  /\ \A t \in Threads : \A i \in DOMAIN temp[t] : temp[t][i] \in Pointers
  /\ arms \in 0 .. MaxArms
  /\ status \in {"running", "crashed", "undefined"}

(* What both threads know of cur_size while the smart controller is silent,
   though neither locks the other out: *)
SizeKnown ==
  ~ alive =>
    \* the timer thread works on a heap that is not empty,
    /\ pc["timer"] # "top" => cur_size >= 1
    \* an index read from cur_size is not below the root,
    /\ cur_size >= 1 /\ pc["socket"] = "bump" => hole["socket"] >= 1
    /\ pc["timer"] = "bump" => hole["timer"] >= 1
    \* and the timer armed in the callback is counted until the pop is over.
    /\ pc["timer"] \in {"compare", "store", "pop", "dec"} => cur_size >= 2
    /\ pc["timer"] = "dec_write" => hole["timer"] >= 1

(* After an answer the timer thread does not lose the root it is popping. *)
PopCounted == pc["timer"] = "dec" => cur_size >= 1

(* The slots whose timer is in the heap: the root is not while it is popped,
   nor the last slot until the timer that is added is stored in it. *)
Popping == pc["timer"] \in {"dec", "dec_write", "root"}

Slots ==
  (IF Popping THEN 1 ELSE 0)
    .. (IF pc["timer"] = "root" THEN cur_size
        ELSE IF \E t \in Threads : pc[t] \in {"compare", "store"}
        THEN cur_size - 2
        ELSE cur_size - 1)

Adding(t) ==
  pc[t] \in {"add", "resize", "double", "copy", "switch", "index", "bump",
            "compare", "store"}

(* The timers in the heap and those being added are allocated, each of them
   once. *)
SlotsSound ==
  /\ \A i \in Slots : i \in DOMAIN timer_array /\ timer_array[i] \in allocated
  /\ \A i, j \in Slots : i # j => timer_array[i] # timer_array[j]
  /\ \A t \in Threads : Adding(t) =>
       /\ mine[t] \in allocated
       /\ \A i \in Slots : timer_array[i] # mine[t]
  /\ Adding("socket") /\ Adding("timer") => mine["socket"] # mine["timer"]

(* The array has the capacity it is said to have, but while it is replaced. *)
ArrayFits ==
  IF \E t \in Threads : pc[t] \in {"copy", "switch"}
  THEN cur_size < capacity
  ELSE /\ DOMAIN timer_array = 0 .. capacity - 1
       /\ capacity > 0 /\ cur_size <= capacity

(* What timer_heap_add has read and copied is still so. *)
AddKnows(t) ==
  /\ pc[t] = "double" => DOMAIN temp[t] = 0 .. 2 * capacity - 1 /\ copied[t] = 0
  /\ pc[t] \in {"copy", "switch"} =>
       /\ DOMAIN temp[t] = 0 .. capacity - 1
       /\ copied[t] <= cur_size
       /\ \A i \in 0 .. copied[t] - 1 : temp[t][i] = timer_array[i]
  /\ pc[t] = "switch" => copied[t] = cur_size
  /\ pc[t] \in {"index", "bump"} => cur_size < capacity
  /\ pc[t] = "bump" => hole[t] = cur_size
  /\ pc[t] \in {"compare", "store"} => hole[t] = cur_size - 1
  /\ pc[t] = "compare" => hole[t] > 0

(* So is what timer_heap_tick and timer_heap_pop have read. *)
TickKnows ==
  /\ pc["timer"] = "test" /\ cur_size > 0 => tmp = timer_array[0]
  /\ pc["timer"] \in {"call", "pop", "dec", "dec_write"} \/ Adding("timer")
       => cur_size > 0
  /\ pc["timer"] = "dec_write" => hole["timer"] = cur_size - 1
  /\ pc["timer"] = "root" => hole["timer"] = cur_size /\ cur_size < capacity
  /\ pc["timer"] \in {"sift", "place"} => tmp = timer_array[0]

(* As long as no two operations have overlapped, each finds the heap as it left
   it. *)
Calm ==
  /\ Running
  /\ Between("socket") \/ Between("timer")
  /\ SlotsSound /\ ArrayFits
  /\ \A t \in Threads : AddKnows(t)
  /\ TickKnows

Undisturbed == ~ overlapped => Calm

IInv == TypeOK /\ SizeKnown /\ PopCounted /\ Undisturbed

(* However the accesses of the two threads interleave, a heap that has a timer
   keeps one until the smart controller answers: the retries go on. *)
SizeKept == [][cur_size > 0 /\ ~ alive' => cur_size' > 0]_vars

(* The timers in the heap are allocated, each of them once. *)
HeapSound ==
  \A i, j \in 0 .. cur_size - 1 :
    /\ i \in DOMAIN timer_array /\ timer_array[i] \in allocated
    /\ i # j => timer_array[i] # timer_array[j]

Quiet == Between("socket") /\ Between("timer")

(* Freed timers, timers counted twice and indices outside the array come from
   operations that overlap and from nothing else: neither a resize nor a timer
   armed in the callback of one that is about to be popped brings them. *)
UnlessOverlapped == ~ overlapped => Running /\ (Quiet => HeapSound)

(* Once the smart controller has answered the timer thread comes back to its
   loop, where it sees gFlagExit, whatever is left in the heap. *)
TickReturns == alive ~> pc["timer"] = "top" \/ ~ Running
=============================================================================

-------------------------- MODULE TimerHeapProofs --------------------------
(***************************************************************************)
(* For every set of timers, every expiry and every initial capacity: the   *)
(* invariant IInv of TimerHeap is inductive, the root is the earliest      *)
(* timer, and the heap implements TimerSet.                                *)
(***************************************************************************)
EXTENDS TimerHeap, WellFoundedInduction, TLAPS

USE CapsAssumption, TimeAssumption, NullAssumption

(* The children of slot h are 2h + 1 and 2h + 2. *)
LEMMA Parent ==
  ASSUME NEW i \in Nat, i > 0
  PROVE  /\ parent(i) \in 0 .. i - 1
         /\ \A h \in Nat : parent(i) = h <=> i = left(h) \/ i = left(h) + 1
BY DEF parent, left

(* The smaller child is a child, and not due after the other one. *)
LEMMA SmallerChild ==
  ASSUME TypeOK, NoDuplicates, InFlight, left(hole) <= cur_size - 1
  PROVE  LET c == smaller_child(hole) IN
         /\ c \in Filled /\ c > hole /\ parent(c) = hole
         /\ \A i \in Filled \ {0} : parent(i) = hole => InOrder(c, i)
<1> DEFINE c == smaller_child(hole)
<1>1. hole \in Indices /\ hole \in Nat /\ cur_size \in Nat
  BY DEF TypeOK, Indices
<1>2. c \in Indices /\ c > hole /\ (c = left(hole) \/ c = left(hole) + 1)
  BY <1>1 DEF smaller_child, left, Indices
<1>3. c \in Filled /\ parent(c) = hole
  BY <1>1, <1>2, Parent DEF Filled, Indices
<1>4. ASSUME NEW i \in Filled \ {0}, parent(i) = hole
      PROVE  InOrder(c, i)
  <2>1. i \in Nat /\ i > 0 /\ i <= cur_size - 1
    BY <1>1 DEF Filled, Indices
  <2>2. i = left(hole) \/ i = left(hole) + 1
    BY <1>1, <1>4, <2>1, Parent
  <2>3. left(hole) \in Filled
    BY <1>1 DEF left, Filled, Indices
  <2>4. \A j \in Filled : expire[timer_array[j]] \in Nat
    BY DEF TypeOK, NoDuplicates
  <2>5. left(hole) \in Int /\ cur_size \in Int
    BY <1>1 DEF left
  <2>6. CASE i = left(hole) + 1
    BY <2>1, <2>3, <2>4, <2>5, <2>6 DEF smaller_child, InOrder
  <2>7. CASE i = left(hole)
    <3>1. c # i => c = left(hole) + 1 /\ c \in Filled
      BY <1>2, <1>3, <2>7
    <3> QED BY <2>3, <2>4, <2>5, <2>7, <3>1 DEF smaller_child, InOrder
  <2> QED BY <2>2, <2>6, <2>7
<1> QED BY <1>2, <1>3, <1>4

-----------------------------------------------------------------------------
(* What timer_heap_add sets up: the old timers stay where they are, the new
   one is in flight at the first free slot. *)
LEMMA AddFacts ==
  ASSUME TypeOK, NEW t \in Timers, NEW e \in Time,
         NEW r \in {"idle", "callback"},
         \/ Add(t, e) /\ r = "idle"
         \/ CallbackAdd(t, e) /\ r = "callback"
  PROVE  /\ pc = r /\ pc' = "up" /\ ret' = r
         /\ ~ InFlight /\ InFlight' /\ Filled = Indices /\ Filled' = Indices
         /\ capacity' \in Nat \ {0} /\ cur_size' \in 0 .. capacity'
         /\ timer_array' \in [0 .. capacity' - 1 -> Timers \union {NULL}]
         /\ cur_size' = cur_size + 1 /\ hole' = cur_size /\ temp' = t
         /\ \A i \in Indices : timer_array'[i] = timer_array[i]
         /\ \A i \in Indices : timer_array[i] # t
         /\ expire' = [expire EXCEPT ![t] = e]
         /\ valid' = [valid EXCEPT ![t] = TRUE]
         /\ cb_func' = [cb_func EXCEPT ![t] = TRUE]
         /\ UNCHANGED <<base, cur, now>>
<1>1. AddFrom(t, e, r, r)
  BY DEF Add, CallbackAdd
<1>2. /\ pc = r /\ pc' = "up" /\ ret' = r
      /\ cur_size' = cur_size + 1 /\ hole' = cur_size /\ temp' = t
      /\ expire' = [expire EXCEPT ![t] = e]
      /\ valid' = [valid EXCEPT ![t] = TRUE]
      /\ cb_func' = [cb_func EXCEPT ![t] = TRUE]
      /\ UNCHANGED <<base, cur, now>>
      /\ \A i \in Indices : timer_array[i] # t
  BY <1>1 DEF AddFrom, timer_heap_resize
<1>3. ~ InFlight /\ InFlight'
  BY <1>2 DEF InFlight
<1>4. cur_size \in Nat /\ Indices \subseteq 0 .. capacity - 1
  BY DEF TypeOK, Indices
<1>5. Filled = Indices /\ Filled' = Indices
  BY <1>2, <1>3, <1>4 DEF Filled, Indices
<1>6. \/ cur_size < capacity /\ UNCHANGED <<timer_array, capacity>>
      \/ /\ cur_size = capacity
         /\ capacity' = 2 * capacity
         /\ timer_array' = [j \in 0 .. 2 * capacity - 1 |->
                              IF j < cur_size THEN timer_array[j] ELSE NULL]
  BY <1>1 DEF AddFrom, timer_heap_resize, TypeOK
<1>7. /\ capacity' \in Nat \ {0} /\ cur_size' \in 0 .. capacity'
      /\ timer_array' \in [0 .. capacity' - 1 -> Timers \union {NULL}]
      /\ \A i \in Indices : timer_array'[i] = timer_array[i]
  BY <1>2, <1>6 DEF TypeOK, Indices
<1> QED BY <1>2, <1>3, <1>5, <1>7

(* What timer_heap_pop does: the last timer goes to the root, and is in flight
   when there are others it may have to sink below. *)
LEMMA PopFacts ==
  ASSUME TypeOK, NoDuplicates, Control, NEW r \in {"idle", "tick"},
         \/ PopInvalid /\ r = "idle"
         \/ TickPop /\ r = "tick"
  PROVE  /\ ~ InFlight /\ Filled = Indices
         /\ cur_size \in Nat /\ cur_size > 0 /\ cur_size' = cur_size - 1
         /\ timer_array' \in [0 .. capacity - 1 -> Timers \union {NULL}]
         /\ \A i \in Indices' \ {0} : timer_array'[i] = timer_array[i]
         /\ timer_array'[0] = timer_array[cur_size - 1]
         /\ timer_array'[0] \in Timers
         /\ UNCHANGED <<capacity, expire, valid, cb_func, base, cur, now>>
         /\ \/ /\ pc' = r /\ cur_size' < 2 /\ UNCHANGED <<ret, hole, temp>>
               /\ ~ InFlight' /\ Filled' = Indices'
            \/ /\ pc' = "down" /\ ret' = r /\ cur_size' >= 2
               /\ hole' = 0 /\ temp' = timer_array'[0]
               /\ InFlight' /\ Filled' = Indices' \ {0}
<1>1. /\ pc \in {"idle", "pop"} /\ cur_size > 0 /\ Pop(r)
  BY DEF PopInvalid, TickPop, Control, timer_heap_is_empty, TypeOK
<1>2. ~ InFlight /\ Filled = Indices /\ cur_size \in Nat
  BY <1>1 DEF InFlight, Filled, TypeOK
<1>3. timer_array[cur_size - 1] \in Timers
  BY <1>1, <1>2 DEF NoDuplicates, Indices
<1>4. /\ cur_size' = cur_size - 1
      /\ timer_array' = [timer_array EXCEPT ![0] = timer_array[cur_size - 1]]
      /\ UNCHANGED <<capacity, expire, valid, cb_func, base, cur, now>>
  BY <1>1 DEF Pop, fields
<1>5. /\ timer_array' \in [0 .. capacity - 1 -> Timers \union {NULL}]
      /\ timer_array'[0] = timer_array[cur_size - 1]
      /\ \A i \in Indices' \ {0} : timer_array'[i] = timer_array[i]
  BY <1>1, <1>3, <1>4 DEF TypeOK, Indices
<1>6. \/ pc' = r /\ cur_size' < 2 /\ UNCHANGED <<ret, hole, temp>>
      \/ pc' = "down" /\ ret' = r /\ cur_size' >= 2
         /\ hole' = 0 /\ temp' = timer_array'[0]
  BY <1>1 DEF Pop
<1>7. r # "up" /\ r # "down"
  OBVIOUS
<1> QED BY <1>1, <1>2, <1>3, <1>4, <1>5, <1>6, <1>7 DEF InFlight, Filled

-----------------------------------------------------------------------------
(* Every step keeps the fields in range. *)
LEMMA TypeStep ==
  ASSUME IInv, Next
  PROVE  TypeOK'
<1> USE DEF IInv, TypeOK, InFlight, Indices, heap, fields, locals
<1>1. ASSUME NEW t \in Timers, NEW e \in Time,
             Add(t, e) \/ CallbackAdd(t, e)
      PROVE  TypeOK'
  <2> HIDE DEF IInv, TypeOK, InFlight, Indices, heap, fields, locals
  <2>1. PICK r \in {"idle", "callback"} : \/ Add(t, e) /\ r = "idle"
                                          \/ CallbackAdd(t, e) /\ r = "callback"
    BY <1>1
  <2>2. TypeOK
    BY DEF IInv
  <2>3. /\ pc' = "up" /\ ret' = r
        /\ capacity' \in Nat \ {0} /\ cur_size' \in 0 .. capacity'
        /\ timer_array' \in [0 .. capacity' - 1 -> Timers \union {NULL}]
        /\ cur_size' = cur_size + 1 /\ hole' = cur_size /\ temp' = t
        /\ expire' = [expire EXCEPT ![t] = e]
        /\ valid' = [valid EXCEPT ![t] = TRUE]
        /\ cb_func' = [cb_func EXCEPT ![t] = TRUE]
        /\ UNCHANGED <<base, cur, now>>
    BY <2>1, <2>2, AddFacts
  <2>4. hole' \in Indices' /\ hole' \in Nat
    BY <2>2, <2>3 DEF TypeOK, Indices
  <2> QED BY <2>2, <2>3, <2>4 DEF TypeOK
<1>2. ASSUME NEW t \in Timers, Del(t) PROVE TypeOK'
  BY <1>2 DEF Del
<1>3. CASE UpStep
  <2>1. hole > 0 /\ parent(hole) \in 0 .. hole - 1
    BY <1>3, Parent DEF UpStep, RisesAbove
  <2> QED BY <1>3, <2>1 DEF UpStep
<1>4. CASE UpDone
  BY <1>4 DEF UpDone, EndLoop, Control
<1>5. CASE DownStep
  <2>1. smaller_child(hole) \in Indices
    BY <1>5, SmallerChild DEF DownStep, SinksBelow, Filled
  <2> QED BY <1>5, <2>1 DEF DownStep
<1>6. CASE DownDone
  BY <1>6 DEF DownDone, EndLoop
<1>7. CASE BuildStep
  <2>1. base - 1 \in Indices /\ timer_array[base - 1] \in Timers
    BY <1>7 DEF BuildStep, Control, NoDuplicates, Filled
  <2> QED BY <1>7, <2>1 DEF BuildStep
<1>8. CASE BuildDone
  BY <1>8 DEF BuildDone
<1>10. CASE PopInvalid \/ TickPop
  <2> HIDE DEF IInv, TypeOK, InFlight, Indices, heap, fields, locals
  <2>1. PICK r \in {"idle", "tick"} : \/ PopInvalid /\ r = "idle"
                                      \/ TickPop /\ r = "tick"
    BY <1>10
  <2> QED BY <2>1, PopFacts DEF IInv, TypeOK, InFlight, Indices
<1>12. CASE Tick \/ TickCallback \/ CallbackReturn \/ TickReturn
  BY <1>12 DEF Tick, TickCallback, CallbackReturn, TickReturn
<1>13. CASE Clock
  BY <1>13 DEF Clock
<1> QED BY <1>1, <1>2, <1>3, <1>4, <1>5, <1>6, <1>7, <1>8, <1>10,
           <1>12, <1>13 DEF Next

(* Every step keeps each timer in one place. *)
LEMMA DuplicatesStep ==
  ASSUME IInv, Next, TypeOK'
  PROVE  NoDuplicates'
<1> USE DEF IInv, NoDuplicates, InFlight, Filled, Indices, heap, fields, locals
<1>1. ASSUME NEW t \in Timers, NEW e \in Time,
             Add(t, e) \/ CallbackAdd(t, e)
      PROVE  NoDuplicates'
  <2> HIDE DEF IInv, NoDuplicates, InFlight, Filled, Indices
  <2>1. PICK r \in {"idle", "callback"} : \/ Add(t, e) /\ r = "idle"
                                          \/ CallbackAdd(t, e) /\ r = "callback"
    BY <1>1
  <2>2. /\ Filled = Indices /\ Filled' = Indices /\ temp' = t
        /\ \A i \in Indices : timer_array'[i] = timer_array[i]
        /\ \A i \in Indices : timer_array[i] # t
    BY <2>1, AddFacts DEF IInv
  <2> QED BY <2>2 DEF IInv, NoDuplicates
<1>2. ASSUME NEW t \in Timers, Del(t) PROVE NoDuplicates'
  BY <1>2 DEF Del
<1>3. CASE UpStep
  <2>1. parent(hole) \in Filled /\ hole \in Indices /\ hole # parent(hole)
    BY <1>3, Parent DEF UpStep, RisesAbove, TypeOK
  <2>2. /\ pc' = pc /\ cur_size' = cur_size /\ temp' = temp
        /\ hole' = parent(hole)
        /\ timer_array' = [timer_array EXCEPT
                             ![hole] = timer_array[parent(hole)]]
    BY <1>3 DEF UpStep
  <2> QED BY <1>3, <2>1, <2>2 DEF UpStep, TypeOK
<1>4. CASE UpDone
  BY <1>4 DEF UpDone, EndLoop, Control, TypeOK
<1>5. CASE DownStep
  <2>1. /\ smaller_child(hole) \in Filled /\ hole \in Indices
        /\ smaller_child(hole) # hole
    BY <1>5, SmallerChild DEF DownStep, SinksBelow, TypeOK
  <2>2. /\ pc' = pc /\ cur_size' = cur_size /\ temp' = temp
        /\ hole' = smaller_child(hole)
        /\ timer_array' = [timer_array EXCEPT
                             ![hole] = timer_array[smaller_child(hole)]]
    BY <1>5 DEF DownStep
  <2> QED BY <1>5, <2>1, <2>2 DEF DownStep, TypeOK
<1>6. CASE DownDone
  BY <1>6 DEF DownDone, EndLoop, Control, TypeOK
<1>7. CASE BuildStep
  BY <1>7 DEF BuildStep, Control, TypeOK
<1>8. CASE BuildDone
  BY <1>8 DEF BuildDone
<1>10. CASE PopInvalid \/ TickPop
  <2> HIDE DEF IInv, NoDuplicates, InFlight, Filled, Indices
  <2>1. PICK r \in {"idle", "tick"} : \/ PopInvalid /\ r = "idle"
                                      \/ TickPop /\ r = "tick"
    BY <1>10
  <2>2. /\ Filled = Indices /\ cur_size \in Nat /\ cur_size > 0
        /\ cur_size' = cur_size - 1
        /\ \A i \in Indices' \ {0} : timer_array'[i] = timer_array[i]
        /\ timer_array'[0] = timer_array[cur_size - 1]
        /\ \/ Filled' = Indices' /\ ~ InFlight'
           \/ Filled' = Indices' \ {0} /\ temp' = timer_array'[0] /\ InFlight'
              /\ cur_size' >= 2
    BY <2>1, PopFacts DEF IInv
  <2>3. \A i, j \in Indices' : timer_array'[i] = timer_array'[j] => i = j
    BY <2>2 DEF IInv, NoDuplicates, Indices
  <2>4. \A i \in Indices' : timer_array'[i] \in Timers
    BY <2>2 DEF IInv, NoDuplicates, Indices
  <2>5. 0 \in Indices' \/ Indices' = {}
    BY <2>2 DEF Indices
  <2> QED BY <2>2, <2>3, <2>4, <2>5 DEF NoDuplicates, Indices
<1>12. CASE Tick \/ TickCallback \/ CallbackReturn \/ TickReturn
  BY <1>12 DEF Tick, TickCallback, CallbackReturn, TickReturn
<1>13. CASE Clock
  BY <1>13 DEF Clock
<1> QED BY <1>1, <1>2, <1>3, <1>4, <1>5, <1>6, <1>7, <1>8, <1>10,
           <1>12, <1>13 DEF Next

-----------------------------------------------------------------------------
(* Every step keeps the timers in heap order. *)
LEMMA OrderStep ==
  ASSUME IInv, Next, TypeOK', NoDuplicates'
  PROVE  HeapOrder'
<1> USE DEF IInv
<1>a. /\ \A i \in Filled : i \in Nat /\ expire[timer_array[i]] \in Nat
      /\ InFlight => /\ hole \in Nat /\ hole \in Indices
                     /\ expire[temp] \in Nat
                     /\ Filled = Indices \ {hole}
      /\ base \in Nat /\ cur_size \in Nat
  <2>0. capacity \in Nat /\ cur_size \in 0 .. capacity
        /\ base \in Nat /\ hole \in Nat /\ expire \in [Timers -> Time]
    BY DEF TypeOK
  <2>1. cur_size \in Nat /\ base \in Nat /\ hole \in Nat
    BY <2>0
  <2>5. ASSUME NEW t \in Timers PROVE expire[t] \in Nat
    <3>1. expire[t] \in Time
      BY <2>0
    <3> QED BY <3>1
  <2>2. \A i \in Filled : i \in Nat
    BY <2>1 DEF Filled, Indices
  <2>3. \A i \in Filled : timer_array[i] \in Timers
    BY DEF NoDuplicates
  <2>4. InFlight => hole \in Indices /\ temp \in Timers
    BY DEF TypeOK
  <2> QED BY <2>1, <2>2, <2>3, <2>4, <2>5 DEF Filled
<1>b. \A i \in Nat \ {0} : parent(i) \in Nat /\ parent(i) < i
  BY Parent
<1>1. ASSUME NEW t \in Timers, NEW e \in Time,
             Add(t, e) \/ CallbackAdd(t, e)
      PROVE  HeapOrder'
  <2>1. PICK r \in {"idle", "callback"} : \/ Add(t, e) /\ r = "idle"
                                          \/ CallbackAdd(t, e) /\ r = "callback"
    BY <1>1
  <2>2. /\ ~ InFlight /\ pc' = "up" /\ Filled = Indices /\ Filled' = Indices
        /\ hole' = cur_size /\ base' = base
        /\ \A i \in Indices : timer_array'[i] = timer_array[i]
        /\ \A i \in Indices : timer_array[i] # t
        /\ expire' = [expire EXCEPT ![t] = e]
    BY <2>1, AddFacts
  <2>3. \A i \in Filled : expire'[timer_array'[i]] = expire[timer_array[i]]
    BY <2>2 DEF TypeOK, NoDuplicates
  <2>4. \A i \in Indices \ {0} : parent(i) # cur_size
    BY <1>a, <1>b DEF Indices
  <2> QED BY <1>a, <1>b, <2>2, <2>3, <2>4 DEF HeapOrder, InOrder
<1>2. ASSUME NEW t \in Timers, Del(t) PROVE HeapOrder'
  BY <1>2 DEF Del, heap, locals, HeapOrder, InOrder, InFlight, Filled, Indices
<1>3. CASE UpStep
  <2>p. PICK p \in Nat : p = parent(hole)
    BY <1>3, <1>a, <1>b DEF UpStep, RisesAbove, InFlight
  <2>1. /\ pc = "up" /\ InFlight /\ hole > 0 /\ base = 0
        /\ expire[timer_array[p]] > expire[temp]
    BY <1>3, <2>p DEF UpStep, RisesAbove, InFlight, Control, TypeOK
  <2>2. /\ pc' = pc /\ cur_size' = cur_size /\ temp' = temp /\ hole' = p
        /\ base' = base /\ expire' = expire
        /\ timer_array' = [timer_array EXCEPT ![hole] = timer_array[p]]
    BY <1>3, <2>p DEF UpStep, fields
  <2>3. p \in Filled /\ p < hole
    BY <1>a, <1>b, <2>1, <2>p DEF Indices
  <2>4. /\ Filled' = Indices \ {p} /\ InFlight'
        /\ timer_array'[hole] = timer_array[p]
        /\ \A i \in Filled : timer_array'[i] = timer_array[i]
    BY <1>a, <2>1, <2>2 DEF Filled, InFlight, Indices, TypeOK
  <2>5. ASSUME NEW i \in Filled' \ {0}, parent(i) \in Filled'
        PROVE  InOrder(parent(i), i)'
    <3>1. i # hole /\ i \in Filled
      BY <1>a, <2>p, <2>1, <2>4, <2>5
    <3>2. CASE parent(i) = hole
      BY <1>a, <2>p, <2>1, <2>2, <2>3, <2>4, <3>1, <3>2 DEF HeapOrder, InOrder
    <3>3. CASE parent(i) # hole
      BY <1>a, <1>b, <2>1, <2>2, <2>4, <2>5, <3>1, <3>3 DEF HeapOrder, InOrder
    <3> QED BY <3>2, <3>3
  <2>6. ASSUME NEW i \in Filled' \ {0}, parent(i) = p
        PROVE  /\ p > 0 => InOrder(parent(p), i)'
               /\ expire'[temp'] <= expire'[timer_array'[i]]
    <3>1. p > 0 => parent(p) \in Filled /\ InOrder(parent(p), p)
      BY <1>a, <1>b, <2>1, <2>3 DEF HeapOrder, Indices
    <3>2. CASE i = hole
      BY <1>a, <2>1, <2>2, <2>3, <2>4, <3>1, <3>2 DEF InOrder
    <3>3. CASE i # hole
      <4>1. i \in Filled /\ InOrder(p, i)
        <5>1. i \in Filled \ {0} /\ parent(i) >= base
          BY <1>a, <2>p, <2>1, <2>4, <2>6, <3>3
        <5> QED BY <2>3, <2>6, <5>1 DEF HeapOrder
      <4> QED BY <1>a, <2>1, <2>2, <2>3, <2>4, <3>1, <4>1 DEF InOrder
    <3> QED BY <3>2, <3>3
  <2> QED BY <2>1, <2>2, <2>4, <2>5, <2>6 DEF HeapOrder
<1>4. CASE UpDone \/ DownDone
  <2>1. /\ InFlight /\ ~ InFlight' /\ cur_size' = cur_size /\ base' = base
        /\ expire' = expire /\ pc' = ret
        /\ timer_array' = [timer_array EXCEPT ![hole] = temp]
    BY <1>4 DEF UpDone, DownDone, InFlight, fields, Control, TypeOK
  <2>2. /\ Filled' = Indices
        /\ timer_array'[hole] = temp
        /\ \A i \in Filled : timer_array'[i] = timer_array[i]
    BY <1>a, <2>1 DEF Filled, Indices, TypeOK
  <2>3. hole > 0 /\ parent(hole) >= base
          => expire[timer_array[parent(hole)]] <= expire[temp]
    <3>1. CASE UpDone
      <4>1. hole > 0 => parent(hole) \in Filled
        BY <1>a, <1>b, <2>1 DEF Indices
      <4> QED BY <1>a, <2>1, <3>1, <4>1 DEF UpDone, RisesAbove
    <3>2. CASE DownDone
      BY <3>2 DEF DownDone, HeapOrder
    <3> QED BY <1>4, <3>1, <3>2
  <2>4. ASSUME NEW i \in Filled \ {0}, parent(i) = hole
        PROVE  expire[temp] <= expire[timer_array[i]]
    <3>1. CASE UpDone
      BY <2>1, <2>4, <3>1 DEF UpDone, HeapOrder
    <3>2. CASE DownDone
      <4>1. left(hole) <= cur_size - 1
        BY <1>a, <2>1, <2>4, Parent DEF left, Indices
      <4>2. /\ smaller_child(hole) \in Filled
            /\ InOrder(smaller_child(hole), i)
        BY <2>1, <2>4, <4>1, SmallerChild
      <4>3. ~ (expire[timer_array[smaller_child(hole)]] < expire[temp])
        BY <3>2, <4>1 DEF DownDone, SinksBelow
      <4> QED BY <1>a, <2>1, <4>2, <4>3 DEF InOrder
    <3> QED BY <1>4, <3>1, <3>2
  <2>5. ASSUME NEW i \in Indices \ {0}, parent(i) >= base
        PROVE  InOrder(parent(i), i)'
    <3>1. i \in Nat /\ parent(i) \in Indices
      BY <1>a, <1>b DEF Indices
    <3>2. CASE i = hole
      <4>1. parent(i) \in Filled
        BY <1>a, <1>b, <2>1, <3>1, <3>2
      <4> QED BY <1>a, <2>1, <2>2, <2>3, <2>5, <3>1, <3>2, <4>1 DEF InOrder
    <3>3. CASE i # hole /\ parent(i) = hole
      BY <1>a, <2>1, <2>2, <2>4, <3>1, <3>3 DEF InOrder
    <3>4. CASE i # hole /\ parent(i) # hole
      BY <1>a, <2>1, <2>2, <2>5, <3>1, <3>4 DEF InOrder, HeapOrder
    <3> QED BY <3>2, <3>3, <3>4
  <2> QED BY <2>1, <2>2, <2>5 DEF HeapOrder, InFlight
<1>5. CASE DownStep
  <2>c. PICK c : c = smaller_child(hole)
    OBVIOUS
  <2>h. PICK h \in Nat : h = hole
    BY <1>5, <1>a DEF DownStep, InFlight
  <2>1. /\ pc = "down" /\ InFlight /\ base <= h
        /\ expire[timer_array[c]] < expire[temp]
        /\ left(h) <= cur_size - 1
    BY <1>5, <2>c, <2>h DEF DownStep, SinksBelow, InFlight, Control
  <2>2. /\ pc' = pc /\ cur_size' = cur_size /\ temp' = temp /\ hole' = c
        /\ base' = base /\ expire' = expire
        /\ timer_array' = [timer_array EXCEPT ![h] = timer_array[c]]
    BY <1>5, <2>c, <2>h DEF DownStep, fields
  <2>3. /\ c \in Filled /\ c > h /\ parent(c) = h
        /\ \A i \in Filled \ {0} : parent(i) = h => InOrder(c, i)
    BY <2>1, <2>c, <2>h, SmallerChild
  <2>4. /\ Filled' = Indices \ {c} /\ InFlight'
        /\ timer_array'[h] = timer_array[c]
        /\ \A i \in Filled : timer_array'[i] = timer_array[i]
    BY <1>a, <2>h, <2>1, <2>2 DEF Filled, InFlight, Indices, TypeOK
  <2>5. ASSUME NEW i \in Filled' \ {0}, parent(i) \in Filled', parent(i) >= base
        PROVE  InOrder(parent(i), i)'
    <3>1. CASE i = h
      <4>1. InOrder(parent(h), c)
        BY <1>a, <2>h, <2>1, <2>3, <2>5, <3>1 DEF HeapOrder
      <4>2. parent(h) \in Filled
        BY <1>a, <1>b, <2>h, <2>1, <2>4, <2>5, <3>1
      <4> QED BY <1>a, <2>2, <2>3, <2>4, <3>1, <4>1, <4>2 DEF InOrder
    <3>2. CASE i # h /\ parent(i) = h
      BY <1>a, <2>h, <2>1, <2>2, <2>3, <2>4, <3>2 DEF InOrder
    <3>3. CASE i # h /\ parent(i) # h
      BY <1>a, <1>b, <2>h, <2>1, <2>2, <2>4, <2>5, <3>3 DEF HeapOrder, InOrder
    <3> QED BY <3>1, <3>2, <3>3
  <2>6. ASSUME NEW i \in Filled' \ {0}, parent(i) = c
        PROVE  InOrder(h, i)'
    <3>1. i # h /\ i \in Filled
      BY <1>a, <1>b, <2>h, <2>1, <2>3, <2>4, <2>6
    <3>2. InOrder(c, i)
      BY <1>a, <2>1, <2>3, <2>6, <3>1 DEF HeapOrder
    <3> QED BY <2>2, <2>4, <3>1, <3>2 DEF InOrder
  <2>7. expire'[timer_array'[h]] <= expire'[temp']
    BY <1>a, <2>1, <2>2, <2>3, <2>4
  <2>8. hole' = c /\ parent(c) = h /\ pc' = "down" /\ base' = base
    BY <2>1, <2>2, <2>3
  <2> QED BY <2>4, <2>5, <2>6, <2>7, <2>8 DEF HeapOrder
<1>6. CASE BuildStep
  <2>1. /\ pc = "build" /\ ~ InFlight /\ Filled = Indices
        /\ base > 0 /\ base' = base - 1
        /\ cur_size' = cur_size /\ timer_array' = timer_array
        /\ expire' = expire
    BY <1>6 DEF BuildStep, InFlight, Filled, heap, fields
  <2>2. CASE cur_size < 2
    <3>1. Filled' \ {0} = {}
      BY <1>a, <2>1, <2>2 DEF Filled, Indices
    <3>2. ~ InFlight'
      BY <1>6, <1>a, <2>1, <2>2 DEF BuildStep, InFlight
    <3> QED BY <3>1, <3>2 DEF HeapOrder, InFlight
  <2>3. CASE cur_size >= 2
    <3>1. /\ pc' = "down" /\ hole' = base - 1 /\ InFlight'
          /\ Filled' = Indices \ {base - 1}
      BY <1>6, <1>a, <2>1, <2>3 DEF BuildStep, InFlight, Filled, Indices
    <3>2. hole' > 0 => ~ (parent(hole') >= base')
      BY <1>a, <1>b, <2>1, <3>1
    <3>3. ASSUME NEW i \in Filled' \ {0},
                 parent(i) \in Filled', parent(i) >= base'
          PROVE  InOrder(parent(i), i)'
      <4>1. i \in Filled /\ parent(i) \in Filled /\ parent(i) >= base
        BY <1>a, <1>b, <2>1, <3>1, <3>3
      <4> QED BY <2>1, <4>1 DEF HeapOrder, InOrder
    <3> QED BY <3>1, <3>2, <3>3 DEF HeapOrder
  <2> QED BY <1>a, <2>2, <2>3
<1>7. CASE PopInvalid \/ TickPop
  <2>1. PICK r \in {"idle", "tick"} : \/ PopInvalid /\ r = "idle"
                                      \/ TickPop /\ r = "tick"
    BY <1>7
  <2>2. /\ Filled = Indices /\ cur_size > 0 /\ cur_size' = cur_size - 1
        /\ \A i \in Indices' \ {0} : timer_array'[i] = timer_array[i]
        /\ base' = base /\ expire' = expire
        /\ \/ Filled' = Indices' /\ ~ InFlight' /\ cur_size' < 2
           \/ Filled' = Indices' \ {0} /\ hole' = 0 /\ pc' = "down"
    BY <2>1, PopFacts
  <2>3. \A i \in Filled' \ {0} : i \in Indices' /\ i \in Filled
    BY <1>a, <2>2 DEF Indices
  <2>4. CASE Filled' = Indices' /\ ~ InFlight' /\ cur_size' < 2
    <3>1. Filled' \ {0} = {}
      BY <1>a, <2>2, <2>4 DEF Indices
    <3> QED BY <2>4, <3>1 DEF HeapOrder, InFlight
  <2>5. CASE Filled' = Indices' \ {0} /\ hole' = 0 /\ pc' = "down"
    <3>1. ASSUME NEW i \in Filled' \ {0},
                 parent(i) \in Filled', parent(i) >= base'
          PROVE  InOrder(parent(i), i)'
      <4>1. parent(i) \in Filled' \ {0}
        BY <2>5, <3>1
      <4> QED BY <2>2, <2>3, <3>1, <4>1 DEF HeapOrder, InOrder
    <3> QED BY <2>5, <3>1 DEF HeapOrder
  <2> QED BY <2>2, <2>4, <2>5
<1>8. CASE BuildDone \/ Tick \/ TickCallback \/ CallbackReturn \/ TickReturn
  <2>1. /\ ~ InFlight /\ ~ InFlight'
        /\ UNCHANGED <<timer_array, cur_size, expire, base>>
    BY <1>8 DEF BuildDone, Tick, TickCallback, CallbackReturn, TickReturn,
                InFlight, heap, fields, locals
  <2> QED BY <2>1 DEF HeapOrder, InOrder, Filled, Indices, InFlight
<1>9. CASE Clock
  BY <1>9 DEF Clock, heap, fields, locals, HeapOrder, InOrder, InFlight,
              Filled, Indices
<1> QED BY <1>1, <1>2, <1>3, <1>4, <1>5, <1>6, <1>7, <1>8, <1>9 DEF Next

-----------------------------------------------------------------------------
(* Every step keeps the operations nested as they are. *)
LEMMA ControlStep ==
  ASSUME IInv, Next, TypeOK', NoDuplicates'
  PROVE  Control'
<1> USE DEF IInv
<1>a. /\ cur_size \in Nat /\ base \in Nat /\ cur \in Nat /\ hole \in Nat
      /\ now \in Nat
      /\ \A t \in Timers : expire[t] \in Nat
  <2>1. /\ capacity \in Nat /\ cur_size \in 0 .. capacity
        /\ base \in Nat /\ cur \in Nat /\ hole \in Nat /\ now \in Time
        /\ expire \in [Timers -> Time]
    BY DEF TypeOK
  <2>2. now \in Nat
    BY <2>1
  <2>3. ASSUME NEW t \in Timers PROVE expire[t] \in Nat
    <3>1. expire[t] \in Time
      BY <2>1
    <3> QED BY <3>1
  <2> QED BY <2>1, <2>2, <2>3
<1>1. ASSUME NEW t \in Timers, NEW e \in Time,
             Add(t, e) \/ CallbackAdd(t, e)
      PROVE  Control'
  <2>1. PICK r \in {"idle", "callback"} : \/ Add(t, e) /\ r = "idle"
                                          \/ CallbackAdd(t, e) /\ r = "callback"
    BY <1>1
  <2>2. /\ pc = r /\ pc' = "up" /\ ret' = r /\ Filled = Indices
        /\ cur_size' = cur_size + 1 /\ hole' = cur_size /\ temp' = t
        /\ \A i \in Indices : timer_array'[i] = timer_array[i]
        /\ \A i \in Indices : timer_array[i] # t
        /\ expire' = [expire EXCEPT ![t] = e]
        /\ valid' = [valid EXCEPT ![t] = TRUE]
        /\ cb_func' = [cb_func EXCEPT ![t] = TRUE]
        /\ UNCHANGED <<base, cur, now>>
    BY <2>1, AddFacts
  <2>3. base = 0
    BY <1>a, <2>2 DEF Control
  <2>4. \A u \in Timers : valid'[u] = cb_func'[u]
    BY <2>2 DEF Control, TypeOK
  <2>5. CASE r = "callback"
    <3>1. /\ 0 \in Indices /\ cur_size > 0
          /\ expire[timer_array[0]] <= cur /\ cb_func[timer_array[0]]
          /\ e >= expire[timer_array[0]]
      BY <1>a, <2>1, <2>2, <2>5
         DEF Control, CallbackAdd, timer_heap_is_empty, Indices
    <3>2. /\ timer_array'[0] = timer_array[0] /\ timer_array[0] # t
          /\ timer_array[0] \in Timers
      BY <2>2, <3>1 DEF NoDuplicates
    <3>3. /\ expire'[timer_array'[0]] = expire[timer_array[0]]
          /\ cb_func'[timer_array'[0]] = cb_func[timer_array[0]]
          /\ expire'[temp'] = e
      BY <2>2, <3>2 DEF TypeOK
    <3> QED BY <2>2, <2>3, <2>4, <2>5, <3>1, <3>3 DEF Control
  <2>6. CASE r = "idle"
    BY <2>2, <2>3, <2>4, <2>6 DEF Control
  <2> QED BY <2>5, <2>6
<1>2. ASSUME NEW t \in Timers, Del(t) PROVE Control'
  <2>1. /\ pc = "idle" /\ pc' = "idle" /\ base' = base /\ base = 0
        /\ cur' = cur /\ now' = now
        /\ valid' = [valid EXCEPT ![t] = FALSE]
        /\ cb_func' = [cb_func EXCEPT ![t] = FALSE]
    BY <1>2, <1>a DEF Del, locals, Control
  <2>2. \A u \in Timers : valid'[u] = cb_func'[u]
    BY <2>1 DEF Control, TypeOK
  <2> QED BY <2>1, <2>2 DEF Control
<1>3. CASE UpStep
  <2>p. PICK p \in Nat : p = parent(hole) /\ p < hole /\ hole > 0
    BY <1>3, <1>a, Parent DEF UpStep, RisesAbove
  <2>1. /\ pc = "up" /\ expire[timer_array[p]] > expire[temp]
        /\ timer_array' = [timer_array EXCEPT ![hole] = timer_array[p]]
        /\ hole' = p
        /\ UNCHANGED <<cur_size, expire, valid, cb_func, pc, ret, temp, base,
                       cur, now>>
    BY <1>3, <2>p DEF UpStep, RisesAbove, fields
  <2>2. /\ timer_array'[0] = timer_array[0]
        /\ timer_array[0] \in Timers
    <3>1. hole \in Indices /\ 0 \in Filled
      BY <1>a, <2>1, <2>p DEF TypeOK, InFlight, Filled, Indices
    <3> QED BY <2>1, <2>p, <3>1 DEF TypeOK, NoDuplicates
  <2>3. ret = "callback" => p > 0
    BY <1>a, <2>1, <2>2, <2>p DEF Control, TypeOK, InFlight
  <2> QED BY <2>1, <2>2, <2>3 DEF Control
<1>4. CASE UpDone
  <2>1. /\ pc = "up" /\ ret \in {"idle", "callback"} /\ pc' = ret
        /\ timer_array' = [timer_array EXCEPT ![hole] = temp]
        /\ UNCHANGED <<cur_size, expire, valid, cb_func, ret, base, cur, now>>
    BY <1>4 DEF UpDone, fields, Control
  <2>2. ret = "callback" => timer_array'[0] = timer_array[0] /\ cur_size > 0
    <3>1. hole \in Indices /\ (ret = "callback" => hole > 0)
      BY <2>1 DEF TypeOK, InFlight, Control
    <3> QED BY <1>a, <2>1, <3>1 DEF TypeOK, Indices
  <2>3. ret = "callback" => /\ expire[timer_array[0]] <= cur
                            /\ cb_func[timer_array[0]]
    BY <2>1 DEF Control
  <2>4. base' = 0 /\ cur' <= now' /\ \A t \in Timers : valid'[t] = cb_func'[t]
    BY <1>a, <2>1 DEF Control
  <2>5. CASE ret = "idle"
    BY <2>1, <2>4, <2>5 DEF Control
  <2>6. CASE ret = "callback"
    <3>1. ~ timer_heap_is_empty'
      BY <1>a, <2>1, <2>2, <2>6 DEF timer_heap_is_empty
    <3> QED BY <2>1, <2>2, <2>3, <2>4, <2>6, <3>1 DEF Control
  <2> QED BY <2>1, <2>5, <2>6
<1>5. CASE DownStep
  <2>1. /\ pc = "down" /\ hole' = smaller_child(hole)
        /\ UNCHANGED <<cur_size, expire, valid, cb_func, pc, ret, temp, base,
                       cur, now>>
    BY <1>5 DEF DownStep, fields
  <2>2. smaller_child(hole) > hole /\ smaller_child(hole) \in Nat
    BY <1>a, <1>5, SmallerChild
       DEF DownStep, SinksBelow, InFlight, smaller_child, left
  <2> QED BY <1>a, <2>1, <2>2 DEF Control
<1>6. CASE DownDone
  <2>1. /\ pc = "down" /\ ret # "callback" /\ pc' = ret
        /\ base <= hole /\ hole \in Indices
        /\ UNCHANGED <<cur_size, expire, valid, cb_func, ret, base, cur, now>>
    BY <1>6 DEF DownDone, fields, Control, TypeOK, InFlight
  <2>2. ret \in {"idle", "tick", "build"} /\ (ret # "build" => base = 0)
    BY <2>1 DEF Control, TypeOK
  <2>3. base <= cur_size
    BY <1>a, <2>1 DEF Indices
  <2> QED BY <1>a, <2>1, <2>2, <2>3 DEF Control
<1>7. CASE BuildStep
  <2>1. /\ pc = "build" /\ base > 0 /\ base' = base - 1
        /\ UNCHANGED <<cur_size, valid, cb_func, cur, now>>
    BY <1>7 DEF BuildStep, heap, fields
  <2>2. \/ pc' = "build"
        \/ pc' = "down" /\ ret' = "build" /\ hole' = base - 1
    BY <1>7 DEF BuildStep
  <2>3. base <= cur_size
    BY <2>1 DEF Control
  <2> QED BY <1>a, <2>1, <2>2, <2>3 DEF Control
<1>8. CASE BuildDone
  BY <1>8 DEF BuildDone, heap, fields, locals, Control
<1>9. CASE PopInvalid \/ TickPop
  <2>1. PICK r \in {"idle", "tick"} : \/ PopInvalid /\ r = "idle"
                                      \/ TickPop /\ r = "tick"
    BY <1>9
  <2>2. /\ UNCHANGED <<valid, cb_func, base, cur, now>>
        /\ \/ pc' = r
           \/ pc' = "down" /\ ret' = r /\ hole' = 0
    BY <2>1, PopFacts
  <2>3. base = 0
    BY <1>a, <2>1 DEF Control, PopInvalid, TickPop
  <2> QED BY <2>2, <2>3 DEF Control
<1>10. CASE Tick
  BY <1>10, <1>a DEF Tick, heap, fields, Control
<1>11. CASE TickCallback
  BY <1>11 DEF TickCallback, Expired, heap, fields, locals, Control,
               timer_heap_is_empty
<1>12. CASE CallbackReturn
  BY <1>12 DEF CallbackReturn, heap, fields, locals, Control,
               timer_heap_is_empty
<1>13. CASE TickReturn
  BY <1>13, <1>a DEF TickReturn, heap, fields, Control
<1>14. CASE Clock
  <2>1. UNCHANGED <<heap, fields, pc, ret, locals>> /\ now' \in Nat /\ now' > now
    BY <1>14 DEF Clock
  <2> QED BY <1>a, <2>1 DEF heap, fields, locals, Control, timer_heap_is_empty
<1> QED BY <1>1, <1>2, <1>3, <1>4, <1>5, <1>6, <1>7, <1>8, <1>9, <1>10, <1>11,
           <1>12, <1>13, <1>14 DEF Next

-----------------------------------------------------------------------------
(* In every reachable state of the heap the timers are in heap order around
   the hole of the percolation that is running, each in one place, and a tick
   that runs a callback has an expired timer at the root. *)
THEOREM HeapInvariant == Spec => []IInv
<1>1. Init => IInv
  <2> SUFFICES ASSUME Init PROVE IInv
    OBVIOUS
  <2>1. /\ capacity \in Nat \ {0} /\ cur_size \in 0 .. capacity
        /\ timer_array \in [0 .. capacity - 1 -> Timers \union {NULL}]
        /\ \A i \in 0 .. capacity - 1 : timer_array[i] # NULL <=> i < cur_size
        /\ \A i, j \in Indices : timer_array[i] = timer_array[j] => i = j
        /\ base = IF cur_size = 0 THEN 0 ELSE parent(cur_size) + 1
        /\ pc = IF cur_size = 0 THEN "idle" ELSE "build"
        /\ ret = "idle" /\ hole = 0 /\ temp = NULL /\ cur = 0 /\ now \in Time
        /\ expire \in [Timers -> Time]
        /\ valid = [t \in Timers |-> TRUE] /\ cb_func = [t \in Timers |-> TRUE]
    BY DEF Init
  <2>2. cur_size \in Nat /\ ~ InFlight /\ Filled = Indices
    BY <2>1 DEF InFlight, Filled
  <2>3. base \in Nat /\ base <= cur_size
    <3>1. cur_size # 0 => parent(cur_size) \in 0 .. cur_size - 1
      BY <2>2, Parent
    <3> QED BY <2>1, <2>2, <3>1
  <2>4. TypeOK
    BY <2>1, <2>2, <2>3 DEF TypeOK
  <2>5. NoDuplicates
    BY <2>1, <2>2 DEF NoDuplicates, Indices
  <2>6. HeapOrder
    <3>1. ASSUME NEW i \in Indices \ {0}, parent(i) >= base PROVE FALSE
      BY <2>1, <2>2, <3>1 DEF parent, Indices
    <3> QED BY <2>1, <2>2, <3>1 DEF HeapOrder
  <2>7. Control
    <3>1. now \in Nat
      BY <2>1
    <3> QED BY <2>1, <2>3, <3>1 DEF Control
  <2> QED BY <2>4, <2>5, <2>6, <2>7 DEF IInv
<1>2. IInv /\ [Next]_vars => IInv'
  <2> SUFFICES ASSUME IInv, [Next]_vars PROVE IInv'
    OBVIOUS
  <2>1. CASE Next
    <3>1. TypeOK'
      BY <2>1, TypeStep
    <3>2. NoDuplicates'
      BY <2>1, <3>1, DuplicatesStep
    <3>3. HeapOrder'
      BY <2>1, <3>1, <3>2, OrderStep
    <3>4. Control'
      BY <2>1, <3>1, <3>2, ControlStep
    <3> QED BY <3>1, <3>2, <3>3, <3>4 DEF IInv
  <2>2. CASE UNCHANGED vars
    <3>1. UNCHANGED <<timer_array, capacity, cur_size, expire, valid, cb_func, pc,
                      ret, hole, temp, base, cur, now>>
      BY <2>2 DEF vars, heap, fields, locals
    <3>2. TypeOK'
      BY <3>1 DEF IInv, TypeOK, InFlight, Indices
    <3>3. NoDuplicates'
      BY <3>1 DEF IInv, NoDuplicates, InFlight, Indices, Filled
    <3>4. HeapOrder'
      BY <3>1 DEF IInv, HeapOrder, InOrder, InFlight, Indices, Filled
    <3>5. Control'
      BY <3>1 DEF IInv, Control, timer_heap_is_empty
    <3> QED BY <3>2, <3>3, <3>4, <3>5 DEF IInv
  <2> QED BY <2>1, <2>2
<1> QED BY <1>1, <1>2, PTL DEF Spec

-----------------------------------------------------------------------------
(* Every set of slots that is not empty has a least one: what induction over
   the slots comes down to. *)
LEMMA LeastNumber ==
  ASSUME NEW S \in SUBSET Nat, S # {}
  PROVE  \E m \in S : \A k \in S : m <= k
<1>1. \E m \in S : \A k \in S : <<k, m>> \notin OpToRel(<, Nat)
  BY NatLessThanWellFounded, WFMin
<1>2. \A k, m \in S : k < m => <<k, m>> \in OpToRel(<, Nat)
  BY DEF OpToRel
<1>3. \E m \in S : \A k \in S : ~ (k < m)
  BY <1>1, <1>2, Zenon
<1> QED BY <1>3

(* Between two operations the root is the earliest timer: if one is earlier,
   the one of them in the least slot is not before its parent, which is earlier
   too. *)
LEMMA RootEarliest ==
  ASSUME IInv, ~ InFlight, base = 0
  PROVE  \A i \in Indices : InOrder(0, i)
<1>1. /\ cur_size \in Nat /\ Indices \subseteq Nat
      /\ \A k \in Indices : expire[timer_array[k]] \in Nat
      /\ \A k \in Indices \ {0} :
           parent(k) \in Indices => InOrder(parent(k), k)
  <2>1. cur_size \in Nat /\ expire \in [Timers -> Time]
    BY DEF IInv, TypeOK
  <2>2. Filled = Indices
    BY DEF Filled
  <2>3. \A k \in Indices : timer_array[k] \in Timers
    BY <2>2 DEF IInv, NoDuplicates
  <2>4. \A k \in Indices : expire[timer_array[k]] \in Time
    BY <2>1, <2>3
  <2>5. Indices \subseteq Nat
    BY <2>1 DEF Indices
  <2>6. ASSUME NEW k \in Indices \ {0}, parent(k) \in Indices
        PROVE  InOrder(parent(k), k)
    <3>1. parent(k) \in Filled /\ k \in Filled \ {0}
      BY <2>2, <2>6
    <3>2. PICK p \in Nat : p = parent(k)
      BY <2>5, <2>6
    <3>3. p >= base
      OBVIOUS
    <3> QED BY <3>1, <3>2, <3>3 DEF IInv, HeapOrder
  <2> QED BY <2>1, <2>4, <2>5, <2>6
<1> DEFINE earlier == {k \in Indices : expire[timer_array[k]]
                                          < expire[timer_array[0]]}
<1>2. SUFFICES ASSUME earlier # {} PROVE FALSE
  <2>1. 0 \in Indices \/ Indices = {}
    BY <1>1 DEF Indices
  <2> QED BY <1>1, <2>1 DEF InOrder
<1>3. PICK m \in earlier : \A k \in earlier : m <= k
  <2>1. earlier \in SUBSET Nat
    BY <1>1
  <2> HIDE DEF earlier
  <2> QED BY <1>2, <2>1, LeastNumber
<1>4. m \in Indices \ {0} /\ 0 \in Indices
  BY <1>1, <1>3 DEF Indices
<1>5. PICK p \in Indices : p = parent(m) /\ p < m
  BY <1>1, <1>4, Parent DEF Indices
<1>6. expire[timer_array[p]] <= expire[timer_array[m]]
  BY <1>1, <1>4, <1>5 DEF InOrder
<1>7. expire[timer_array[m]] < expire[timer_array[0]]
  BY <1>3
<1>8. p \in earlier
  BY <1>1, <1>4, <1>6, <1>7
<1>9. m <= p
  BY <1>3, <1>8
<1> QED BY <1>1, <1>4, <1>5, <1>9

(* No timer is built into the heap while another operation runs. *)
LEMMA BuiltHeap ==
  ASSUME IInv, pc \in {"idle", "tick", "callback", "pop"}
  PROVE  /\ base = 0 /\ ~ InFlight /\ Filled = Indices
         /\ Pending = {timer_array[i] : i \in Indices}
         /\ \A t \in Pending : expire[timer_array[0]] <= expire[t]
         /\ Pending \subseteq Timers
<1>1. base = 0 /\ ~ InFlight
  BY DEF IInv, TypeOK, Control, InFlight
<1>2. Filled = Indices /\ Pending = {timer_array[i] : i \in Indices}
  BY <1>1 DEF Filled, Pending
<1>3. \A t \in Pending : expire[timer_array[0]] <= expire[t]
  BY <1>1, <1>2, RootEarliest DEF InOrder
<1> QED BY <1>1, <1>2, <1>3 DEF IInv, NoDuplicates

(* When timer_heap_tick returns, no timer that was due when it read the clock
   is left: the root is not due, and none is earlier. *)
THEOREM TickLeavesNoneDue == Spec => TickDrains
<1>1. ASSUME IInv, Next, pc = "tick", pc' = "idle"
      PROVE  \A t \in Pending : expire[t] > cur
  <2>1. TickReturn
    BY <1>1 DEF Next, Add, CallbackAdd, AddFrom, Del, UpStep, UpDone, DownStep,
                DownDone, BuildStep, BuildDone, PopInvalid, Tick, TickCallback,
                CallbackReturn, TickPop, Clock
  <2>2. /\ cur_size \in Nat /\ cur \in Nat
        /\ \A t \in Timers : expire[t] \in Nat
    <3>1. cur_size \in Nat /\ cur \in Nat /\ expire \in [Timers -> Time]
      BY <1>1 DEF IInv, TypeOK
    <3> QED BY <3>1
  <2>3. /\ Pending = {timer_array[i] : i \in Indices} /\ Pending \subseteq Timers
        /\ \A t \in Pending : expire[timer_array[0]] <= expire[t]
    BY <1>1, BuiltHeap
  <2>4. ASSUME NEW t \in Pending PROVE expire[t] > cur
    <3>1. cur_size > 0 /\ timer_array[0] \in Pending
      BY <2>2, <2>3, <2>4 DEF Indices
    <3>2. expire[timer_array[0]] > cur
      BY <2>1, <2>2, <2>3, <3>1 DEF TickReturn, Expired, timer_heap_is_empty
    <3> QED BY <2>2, <2>3, <2>4, <3>1, <3>2
  <2> QED BY <2>4
<1>2. IInv /\ [Next]_vars
        => [pc = "tick" /\ pc' = "idle" => \A t \in Pending : expire[t] > cur]_vars
  BY <1>1
<1> QED BY <1>2, HeapInvariant, PTL DEF Spec, TickDrains

-----------------------------------------------------------------------------
(* The refinement of TimerSet. *)
Deleted == {t \in Pending : ~ cb_func[t]}
Firing == IF CallbackRunning THEN timer_array[0] ELSE NULL

(* What a step that TimerSet does not see leaves alone. *)
LEMMA Stutter ==
  ASSUME Pending' = Pending, UNCHANGED <<expire, cb_func, now>>,
         CallbackRunning' <=> CallbackRunning,
         CallbackRunning => timer_array'[0] = timer_array[0]
  PROVE  UNCHANGED Set!vars
<1>1. Firing' = Firing
  BY DEF Firing
<1>2. Deleted' = Deleted
  BY DEF Deleted
<1> QED BY <1>1, <1>2 DEF Set!vars, Deleted, Firing

(* A timer that moves along its percolation stays pending, and so do the
   others. *)
LEMMA MoveStep ==
  ASSUME IInv, Next, UpStep \/ DownStep
  PROVE  UNCHANGED Set!vars
<1>1. PICK s \in Filled : /\ hole' = s /\ s # hole
                          /\ timer_array' = [timer_array EXCEPT
                                               ![hole] = timer_array[s]]
                          /\ ret = "callback" /\ pc = "up" => hole > 0
  <2>0. /\ hole \in Indices /\ hole \in Nat /\ Filled = Indices \ {hole}
        /\ InFlight /\ cur_size \in Nat
    BY DEF UpStep, DownStep, IInv, TypeOK, InFlight, Filled
  <2>1. CASE UpStep
    <3>1. parent(hole) \in 0 .. hole - 1
      BY <2>0, <2>1, Parent DEF UpStep, RisesAbove
    <3>2. PICK p \in 0 .. hole - 1 : p = parent(hole)
      BY <3>1
    <3>3. p \in Filled /\ p # hole
      BY <2>0 DEF Indices
    <3> QED BY <2>1, <3>2, <3>3 DEF UpStep, RisesAbove
  <2>2. CASE DownStep
    <3>1. smaller_child(hole) \in Filled /\ smaller_child(hole) > hole
      BY <2>0, <2>2, SmallerChild DEF DownStep, SinksBelow, IInv
    <3> QED BY <2>0, <2>2, <3>1 DEF DownStep
  <2> QED BY <2>1, <2>2
<1>2. /\ pc' = pc /\ ret' = ret /\ temp' = temp /\ cur_size' = cur_size
      /\ UNCHANGED <<expire, cb_func, now>>
      /\ pc \in {"up", "down"}
  BY DEF UpStep, DownStep, fields
<1>3. /\ InFlight /\ InFlight' /\ hole \in Indices /\ hole \in Nat
      /\ cur_size \in Nat
  BY <1>2 DEF InFlight, IInv, TypeOK
<1>4. Filled = Indices \ {hole} /\ Filled' = Indices \ {hole'}
  BY <1>2, <1>3 DEF Filled, Indices
<1>5. /\ timer_array'[hole] = timer_array[hole']
      /\ \A i \in Filled : timer_array'[i] = timer_array[i]
  <2>1. Indices \subseteq DOMAIN timer_array
    BY DEF IInv, TypeOK, Indices
  <2> QED BY <1>1, <1>3, <1>4, <2>1
<1>6. {timer_array'[i] : i \in Filled'} = {timer_array[i] : i \in Filled}
  <2>1. \A i \in Filled' : i = hole \/ (i \in Filled /\ i # hole')
    BY <1>4
  <2>2. \A i \in Filled : i = hole' \/ (i \in Filled' /\ i # hole)
    BY <1>4
  <2>3. hole \in Filled' /\ hole' \in Filled
    BY <1>1, <1>3, <1>4
  <2> QED BY <1>5, <2>1, <2>2, <2>3
<1>7. Pending' = Pending
  BY <1>2, <1>3, <1>6 DEF Pending
<1>8. CallbackRunning' <=> CallbackRunning
  BY <1>2 DEF CallbackRunning
<1>9. CallbackRunning => timer_array'[0] = timer_array[0]
  <2>1. CallbackRunning => pc = "up" /\ ret = "callback"
    BY <1>2 DEF CallbackRunning
  <2>2. CallbackRunning => hole # 0 /\ 0 \in Filled
    BY <1>1, <1>3, <1>4, <2>1 DEF Indices
  <2> QED BY <1>5, <2>2
<1> QED BY <1>2, <1>7, <1>8, <1>9, Stutter

(* The timer in flight lands in the hole. *)
LEMMA LandStep ==
  ASSUME IInv, Next, UpDone \/ DownDone
  PROVE  UNCHANGED Set!vars
<1>1. /\ pc \in {"up", "down"} /\ pc' = ret /\ ret' = ret
      /\ timer_array' = [timer_array EXCEPT ![hole] = temp]
      /\ cur_size' = cur_size
      /\ UNCHANGED <<expire, cb_func, now>>
  BY DEF UpDone, DownDone, fields
<1>2. /\ InFlight /\ hole \in Indices /\ hole \in Nat /\ cur_size \in Nat
      /\ Indices \subseteq DOMAIN timer_array
      /\ ret \in {"idle", "callback", "tick", "build"}
  BY <1>1 DEF InFlight, IInv, TypeOK, Indices
<1>3. ~ InFlight'
  BY <1>1, <1>2 DEF InFlight
<1>4. Filled = Indices \ {hole} /\ Filled' = Indices
  BY <1>1, <1>2, <1>3 DEF Filled, Indices
<1>5. timer_array'[hole] = temp
      /\ \A i \in Filled : timer_array'[i] = timer_array[i]
  BY <1>1, <1>2, <1>4
<1>6. {timer_array'[i] : i \in Indices}
        = {timer_array[i] : i \in Filled} \union {temp}
  <2>1. \A i \in Indices : i = hole \/ i \in Filled
    BY <1>4
  <2> QED BY <1>2, <1>4, <1>5, <2>1
<1>7. Pending' = Pending
  BY <1>2, <1>3, <1>4, <1>6 DEF Pending
<1>8. CallbackRunning' <=> CallbackRunning
  BY <1>1, <1>2 DEF CallbackRunning, IInv, Control
<1>9. CallbackRunning => timer_array'[0] = timer_array[0]
  <2>1. CallbackRunning => hole # 0 /\ 0 \in Filled
    BY <1>1, <1>2, <1>4 DEF CallbackRunning, IInv, Control, Indices
  <2> QED BY <1>5, <2>1
<1> QED BY <1>1, <1>7, <1>8, <1>9, Stutter

(* timer_heap_add adds one timer, in a callback not before the one that
   fires. *)
LEMMA AddRefines ==
  ASSUME IInv, NEW t \in Timers, NEW e \in Time, Add(t, e) \/ CallbackAdd(t, e)
  PROVE  Set!Add(t, e)
<1>1. PICK r \in {"idle", "callback"} : \/ Add(t, e) /\ r = "idle"
                                        \/ CallbackAdd(t, e) /\ r = "callback"
  OBVIOUS
<1>2. TypeOK
  BY DEF IInv
<1>3. /\ pc = r /\ pc' = "up" /\ ret' = r
      /\ InFlight' /\ Filled' = Indices
      /\ temp' = t /\ cur_size \in Nat
      /\ \A i \in Indices : timer_array'[i] = timer_array[i]
      /\ expire' = [expire EXCEPT ![t] = e]
      /\ cb_func' = [cb_func EXCEPT ![t] = TRUE] /\ now' = now
  BY <1>1, <1>2, AddFacts DEF TypeOK
<1>4. /\ Pending = {timer_array[i] : i \in Indices} /\ Pending \subseteq Timers
      /\ t \notin Pending
  BY <1>1, <1>2, <1>3, AddFacts, BuiltHeap
<1>5. Pending' = Pending \union {t}
  BY <1>3, <1>4 DEF Pending
<1>6. Deleted' = Deleted
  <2>1. \A u \in Pending : cb_func'[u] = cb_func[u]
    BY <1>2, <1>3, <1>4 DEF TypeOK
  <2>2. cb_func'[t]
    BY <1>2, <1>3 DEF TypeOK
  <2> QED BY <1>5, <2>1, <2>2 DEF Deleted
<1>7. Firing' = Firing /\ (Firing # NULL => e >= expire[Firing])
  <2>1. CASE r = "idle"
    BY <1>3, <2>1 DEF Firing, CallbackRunning
  <2>2. CASE r = "callback"
    <3>1. 0 \in Indices /\ e >= expire[timer_array[0]]
      BY <1>1, <1>3, <2>2
         DEF CallbackAdd, IInv, Control, timer_heap_is_empty, Indices
    <3>2. CallbackRunning /\ CallbackRunning'
      BY <1>3, <2>2 DEF CallbackRunning
    <3> QED BY <1>3, <3>1, <3>2 DEF Firing
  <2> QED BY <2>1, <2>2
<1> QED BY <1>3, <1>4, <1>5, <1>6, <1>7 DEF Set!Add, Deleted, Firing

(* timer_heap_del marks one timer. *)
LEMMA DelRefines ==
  ASSUME IInv, NEW t \in Timers, Del(t)
  PROVE  Set!Delete(t)
<1>1. /\ pc = "idle" /\ t \in {timer_array[i] : i \in Indices}
      /\ cb_func' = [cb_func EXCEPT ![t] = FALSE]
      /\ UNCHANGED <<timer_array, cur_size, hole, temp, expire, pc, ret, now>>
  BY DEF Del, heap, locals
<1>2. Pending' = Pending /\ t \in Pending /\ Pending \subseteq Timers
  BY <1>1, BuiltHeap DEF Pending, Filled, Indices, InFlight
<1>3. Deleted' = Deleted \union {t}
  <2>1. \A u \in Pending : cb_func'[u] = IF u = t THEN FALSE ELSE cb_func[u]
    BY <1>1, <1>2 DEF IInv, TypeOK
  <2> QED BY <1>2, <2>1 DEF Deleted
<1>4. Firing = NULL /\ Firing' = NULL
  BY <1>1 DEF Firing, CallbackRunning
<1> QED BY <1>1, <1>2, <1>3, <1>4 DEF Set!Delete, Deleted, Firing

(* A tick that finds an expired timer at the root runs its callback, or goes
   on to pop it when it was deleted. *)
LEMMA FireRefines ==
  ASSUME IInv, TickCallback
  PROVE  \/ \E t \in Timers : Set!Fire(t)
         \/ UNCHANGED Set!vars
<1>1. /\ pc = "tick" /\ Expired
      /\ pc' = IF cb_func[timer_array[0]] THEN "callback" ELSE "pop"
      /\ UNCHANGED <<timer_array, cur_size, hole, temp, expire, cb_func, ret,
                     now>>
  BY DEF TickCallback, heap, fields, locals
<1>2. /\ Pending = {timer_array[i] : i \in Indices} /\ Pending \subseteq Timers
      /\ \A t \in Pending : expire[timer_array[0]] <= expire[t]
      /\ 0 \in Indices /\ timer_array[0] \in Pending
  <2>1. cur_size \in Nat /\ cur_size > 0
    BY <1>1 DEF Expired, timer_heap_is_empty, IInv, TypeOK
  <2>2. 0 \in Indices
    BY <2>1 DEF Indices
  <2> QED BY <1>1, <2>2, BuiltHeap
<1> PICK root \in Timers : root = timer_array[0]
  BY <1>2
<1>3. Pending' = Pending
  BY <1>1 DEF Pending, Filled, Indices, InFlight
<1>4. Firing = NULL
  BY <1>1 DEF Firing, CallbackRunning
<1>5. CASE cb_func[root]
  <2>1. Deleted' = Deleted /\ root \notin Deleted
    BY <1>1, <1>3, <1>5 DEF Deleted
  <2>2. Firing' = root
    BY <1>1, <1>5 DEF Firing, CallbackRunning
  <2>3. expire[root] <= now
    <3>1. expire[root] \in Nat /\ cur \in Nat /\ now \in Nat /\ cur <= now
      BY <1>2 DEF IInv, TypeOK, Control
    <3> QED BY <1>1, <3>1 DEF Expired
  <2>4. Set!Fire(root)
    BY <1>1, <1>2, <1>3, <1>4, <2>1, <2>2, <2>3
       DEF Set!Fire, Set!Earliest, Deleted, Firing
  <2> QED BY <2>4
<1>6. CASE ~ cb_func[root]
  <2>1. ~ CallbackRunning /\ ~ CallbackRunning'
    BY <1>1, <1>6 DEF CallbackRunning
  <2> QED BY <1>1, <1>3, <2>1, Stutter
<1> QED BY <1>5, <1>6

(* timer_heap_pop removes the earliest timer: the one whose callback has run,
   or one that was deleted. *)
LEMMA PopRefines ==
  ASSUME IInv, PopInvalid \/ TickPop
  PROVE  \E t \in Timers : Set!Remove(t)
<1>1. PICK r \in {"idle", "tick"} : \/ PopInvalid /\ r = "idle"
                                    \/ TickPop /\ r = "tick"
  OBVIOUS
<1>2. /\ cur_size \in Nat /\ cur_size > 0 /\ cur_size' = cur_size - 1
      /\ \A i \in Indices' \ {0} : timer_array'[i] = timer_array[i]
      /\ timer_array'[0] = timer_array[cur_size - 1]
      /\ UNCHANGED <<expire, cb_func, now>>
      /\ \/ /\ pc' = r /\ cur_size' < 2
            /\ ~ InFlight' /\ Filled' = Indices'
         \/ /\ pc' = "down" /\ ret' = r /\ cur_size' >= 2
            /\ temp' = timer_array'[0]
            /\ InFlight' /\ Filled' = Indices' \ {0}
  BY <1>1, PopFacts DEF IInv
<1>3. pc \in {"idle", "pop"} /\ pc' \in {"idle", "tick", "down"}
  BY <1>1, <1>2 DEF PopInvalid, TickPop
<1>4. 0 \in Indices /\ cur_size - 1 \in Indices /\ Indices' \subseteq Indices
  BY <1>2 DEF Indices
<1>5. /\ Pending = {timer_array[i] : i \in Indices} /\ Pending \subseteq Timers
      /\ \A t \in Pending : expire[timer_array[0]] <= expire[t]
      /\ timer_array[0] \in Pending
      /\ \A i, j \in Indices : timer_array[i] = timer_array[j] => i = j
  BY <1>3, <1>4, BuiltHeap DEF IInv, NoDuplicates
<1> PICK root \in Timers : root = timer_array[0]
  BY <1>5
<1>6. Pending' = {timer_array[i] : i \in Indices \ {0}}
  <2>1. \A i \in Indices \ {0} : i \in Indices' \ {0} \/ i = cur_size - 1
    BY <1>2 DEF Indices
  <2>2. \A i \in Indices' \ {0} : i \in Indices \ {0}
    BY <1>4
  <2>3. CASE cur_size = 1
    <3>1. Indices' = {} /\ Indices \ {0} = {}
      BY <1>2, <2>3 DEF Indices
    <3>2. ~ InFlight' /\ Filled' = Indices'
      BY <1>2, <2>3
    <3> QED BY <3>1, <3>2 DEF Pending
  <2>4. CASE cur_size > 1
    <3>1. 0 \in Indices' /\ cur_size - 1 \in Indices \ {0}
      BY <1>2, <2>4 DEF Indices
    <3>2. Pending' = {timer_array'[i] : i \in Indices' \ {0}}
                       \union {timer_array'[0]}
      BY <1>2, <3>1 DEF Pending
    <3> QED BY <1>2, <2>1, <2>2, <3>1, <3>2
  <2> QED BY <1>2, <2>3, <2>4
<1>7. Pending' = Pending \ {root}
  BY <1>4, <1>5, <1>6
<1>8. Deleted' = Deleted \ {root}
  BY <1>2, <1>7 DEF Deleted
<1>9. Firing' = NULL
  BY <1>3, <1>2, <1>1 DEF Firing, CallbackRunning
<1>10. root = Firing \/ (Firing = NULL /\ root \in Deleted)
  <2>1. CASE PopInvalid
    BY <2>1, <1>5
       DEF PopInvalid, Firing, CallbackRunning, Deleted, IInv, Control
  <2>2. CASE TickPop
    BY <2>2, <1>5 DEF TickPop, Firing, CallbackRunning, Deleted
  <2> QED BY <2>1, <2>2
<1>11. Set!Remove(root)
  BY <1>2, <1>5, <1>7, <1>8, <1>9, <1>10
     DEF Set!Remove, Set!Earliest, Deleted, Firing
<1> QED BY <1>11

(* The other steps change nothing that TimerSet sees. *)
LEMMA QuietStep ==
  ASSUME IInv, BuildStep \/ BuildDone \/ Tick \/ CallbackReturn \/ TickReturn
  PROVE  UNCHANGED Set!vars
<1>1. UNCHANGED <<timer_array, cur_size, expire, cb_func, now>> /\ ~ InFlight
  BY DEF BuildStep, BuildDone, Tick, CallbackReturn, TickReturn, InFlight,
         heap, fields
<1>2. CallbackRunning' <=> CallbackRunning
  BY <1>1 DEF BuildStep, BuildDone, Tick, CallbackReturn, TickReturn,
              CallbackRunning, IInv, Control
<1>3. Pending' = Pending
  <2>1. CASE ~ InFlight'
    BY <1>1, <2>1 DEF Pending, Filled, Indices
  <2>2. CASE InFlight'
    <3>1. /\ BuildStep /\ cur_size >= 2 /\ hole' = base - 1
          /\ temp' = timer_array[base - 1]
      BY <2>2 DEF BuildStep, BuildDone, Tick, CallbackReturn, TickReturn,
                  InFlight
    <3>2. base - 1 \in Indices
      BY <3>1 DEF BuildStep, IInv, TypeOK, Control, Indices
    <3>3. Filled' = Indices \ {base - 1} /\ Filled = Indices
      BY <1>1, <2>2, <3>1 DEF Filled, Indices
    <3> QED BY <1>1, <2>2, <3>1, <3>2, <3>3 DEF Pending
  <2> QED BY <2>1, <2>2
<1> QED BY <1>1, <1>2, <1>3, Stutter

LEMMA ClockRefines ==
  ASSUME Clock
  PROVE  Set!Clock
<1>1. /\ UNCHANGED <<timer_array, cur_size, expire, cb_func, pc, ret, hole,
                     temp>>
      /\ now' \in Time /\ now' > now
  BY DEF Clock, heap, fields, locals
<1>2. Pending' = Pending
  BY <1>1 DEF Pending, Filled, Indices, InFlight
<1>3. Deleted' = Deleted /\ Firing' = Firing
  BY <1>1, <1>2 DEF Deleted, Firing, CallbackRunning
<1> QED BY <1>1, <1>2, <1>3 DEF Set!Clock, Deleted, Firing

(* Every behaviour of the heap is one of the set from which the earliest timer
   is taken first: however its slots are shifted, and whatever its callbacks
   add, no timer is lost, duplicated, fired early, twice or after it was
   deleted. *)
THEOREM HeapImplementsSet == Spec => RefinesTimerSet
<1>1. Init => Set!Init
  <2> SUFFICES ASSUME Init PROVE Set!Init
    OBVIOUS
  <2>1. /\ ~ InFlight /\ ~ CallbackRunning
        /\ cur_size \in 0 .. capacity /\ capacity \in Nat
        /\ timer_array \in [0 .. capacity - 1 -> Timers \union {NULL}]
        /\ \A i \in 0 .. capacity - 1 : timer_array[i] # NULL <=> i < cur_size
        /\ cb_func = [t \in Timers |-> TRUE]
    BY DEF Init, InFlight, CallbackRunning
  <2>2. Pending = {timer_array[i] : i \in Indices}
    BY <2>1 DEF Pending, Filled
  <2>3. \A i \in Indices : timer_array[i] \in Timers
    BY <2>1 DEF Indices
  <2>4. Pending \in SUBSET Timers
    BY <2>2, <2>3
  <2>5. Deleted = {} /\ Firing = NULL
    BY <2>1, <2>4 DEF Deleted, Firing
  <2> QED BY <2>4, <2>5 DEF Init, Set!Init, Deleted, Firing
<1>2. IInv /\ [Next]_vars => [Set!Next]_(Set!vars)
  <2> SUFFICES ASSUME IInv, [Next]_vars
               PROVE  Set!Next \/ UNCHANGED Set!vars
    OBVIOUS
  <2>1. CASE UNCHANGED vars
    BY <2>1 DEF vars, heap, fields, locals, Set!vars, Pending, Filled, Indices,
                InFlight, CallbackRunning
  <2>2. ASSUME NEW t \in Timers, NEW e \in Time, Add(t, e) \/ CallbackAdd(t, e)
        PROVE  Set!Next
    BY <2>2, AddRefines DEF Set!Next
  <2>3. ASSUME NEW t \in Timers, Del(t) PROVE Set!Next
    BY <2>3, DelRefines DEF Set!Next
  <2>4. CASE UpStep \/ DownStep
    BY <2>4, MoveStep DEF Next
  <2>5. CASE UpDone \/ DownDone
    BY <2>5, LandStep DEF Next
  <2>6. CASE BuildStep \/ BuildDone \/ Tick \/ CallbackReturn \/ TickReturn
    BY <2>6, QuietStep
  <2>7. CASE TickCallback
    <3>1. \/ \E t \in Timers : Set!Fire(t)
          \/ UNCHANGED Set!vars
      BY <2>7, FireRefines
    <3> QED BY <3>1 DEF Set!Next
  <2>8. CASE PopInvalid \/ TickPop
    <3>1. \E t \in Timers : Set!Remove(t)
      BY <2>8, PopRefines
    <3> QED BY <3>1 DEF Set!Next
  <2>9. CASE Clock
    BY <2>9, ClockRefines DEF Set!Next
  <2> QED BY <2>1, <2>2, <2>3, <2>4, <2>5, <2>6, <2>7, <2>8, <2>9 DEF Next
<1> QED BY <1>1, <1>2, HeapInvariant, PTL
        DEF Spec, RefinesTimerSet, Set!Spec
=============================================================================

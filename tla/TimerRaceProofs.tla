-------------------------- MODULE TimerRaceProofs --------------------------
(***************************************************************************)
(* Proofs about TimerRace for any number of timers, any capacity of the    *)
(* heap at first and any number of timers the socket thread arms: although *)
(* no lock keeps the two threads apart, the heap that has a timer keeps    *)
(* one until the smart controller answers; and as long as no two of their  *)
(* operations overlap, the heap stays sound.                               *)
(***************************************************************************)
EXTENDS TimerRace, TLAPS

Places == {"idle", "top", "tick", "test", "call", "add", "resize", "double",
           "copy", "switch", "index", "bump", "compare", "store", "pop",
           "dec", "dec_write", "root", "percolate", "sift", "place"}

BaseInv == TypeOK /\ SizeKnown /\ PopCounted

(* The steps that end the process change nothing else but the history. *)
LEMMA FaultFacts ==
  ASSUME TypeOK, NEW t \in Threads, NEW X, OutOf(t, X) \/ UseOf(t, X)
  PROVE  /\ status' \in {"crashed", "undefined"}
         /\ overlapped' \in BOOLEAN
         /\ UNCHANGED <<heap, allocated, alive, pc, hole, mine, resize, tmp,
                        arms>>
BY DEF OutOf, UseOf, Overlap, Between, TypeOK

(* Such a step keeps the invariant and the size. *)
Faults(t) == \E X : OutOf(t, X) \/ UseOf(t, X)

LEMMA FaultStep ==
  ASSUME BaseInv, NEW t \in Threads, Faults(t)
  PROVE  BaseInv' /\ cur_size' = cur_size
<1>1. PICK X : OutOf(t, X) \/ UseOf(t, X)
  BY DEF Faults
<1>2. TypeOK
  BY DEF BaseInv
<1>3. /\ status' \in {"crashed", "undefined"}
      /\ overlapped' \in BOOLEAN
      /\ UNCHANGED <<heap, allocated, alive, pc, hole, mine, resize, tmp,
                     arms>>
  BY <1>1, <1>2, FaultFacts
<1> QED BY <1>3 DEF BaseInv, TypeOK, SizeKnown, PopCounted, heap, resize

-----------------------------------------------------------------------------
(* The actions on the heap, their faults aside, keep the variables in range. *)
LEMMA GotoFacts ==
  ASSUME TypeOK, NEW t \in Threads, NEW l \in Places, Goto(t, l)
  PROVE  /\ pc' \in [Threads -> Places]
         /\ pc'[t] = l
         /\ \A u \in Threads : u # t => pc'[u] = pc[u]
BY DEF Goto, TypeOK, Places

LEMMA OverlapFacts ==
  ASSUME TypeOK, NEW t, Overlap(t)
  PROVE  overlapped' \in BOOLEAN
BY DEF Overlap, TypeOK, Between

LEMMA ThreadsTwo == /\ "socket" \in Threads /\ "timer" \in Threads
                    /\ \A t \in Threads : t = "socket" \/ t = "timer"
BY DEF Threads

-----------------------------------------------------------------------------
(* The heap that has a timer keeps one. *)
Keeps == cur_size > 0 /\ ~ alive' => cur_size' > 0

(* Every step of timer_heap_add, by either thread, keeps the invariant. *)
LEMMA AddStep ==
  ASSUME BaseInv, NEW t \in Threads, Add(t)
  PROVE  BaseInv' /\ Keeps
<1>a. TypeOK /\ SizeKnown /\ PopCounted
  BY DEF BaseInv
<1>b. t = "socket" \/ t = "timer"
  BY ThreadsTwo
<1>c. cur_size \in Nat /\ capacity \in Nat /\ hole[t] \in Nat
/\ copied[t] \in Nat
  BY <1>a DEF TypeOK
<1> USE ThreadsTwo
<1>1. CASE Faults(t)
  BY <1>1, FaultStep DEF Keeps
<1>2. CASE AddTest(t)
  <2>1. overlapped' \in BOOLEAN
    BY <1>2, <1>a, OverlapFacts DEF AddTest
  <2>2. /\ pc' \in [Threads -> Places]
        /\ pc'[t] \in {"resize", "index"}
        /\ \A u \in Threads : u # t => pc'[u] = pc[u]
    BY <1>2, <1>a, GotoFacts DEF AddTest, Places
  <2>3. /\ UNCHANGED <<heap, allocated, alive, hole, mine, resize, tmp, status,
                       arms>>
        /\ pc[t] = "add"
    BY <1>2 DEF AddTest
  <2>4. TypeOK'
    BY <1>a, <2>1, <2>2, <2>3 DEF TypeOK, Places, heap, resize
  <2>5. SizeKnown' /\ PopCounted' /\ Keeps
    BY <1>a, <1>b, <1>c, <2>2, <2>3 DEF SizeKnown, PopCounted, Keeps, heap
  <2> QED BY <2>4, <2>5 DEF BaseInv
<1>3. CASE ResizeAlloc(t)
  <2>1. overlapped' \in BOOLEAN
    BY <1>3, <1>a, OverlapFacts DEF ResizeAlloc
  <2>2. /\ pc' \in [Threads -> Places]
        /\ pc'[t] = "double" /\ \A u \in Threads : u # t => pc'[u] = pc[u]
    BY <1>3, <1>a, GotoFacts DEF ResizeAlloc, Places
  <2>3. UNCHANGED <<heap, allocated, alive, hole, mine, tmp, status, arms>>
    BY <1>3 DEF ResizeAlloc
  <2>4. /\ DOMAIN temp' = Threads /\ copied' \in [Threads -> Nat]
        /\ \A u \in Threads :
             \A i \in DOMAIN temp'[u] : temp'[u][i] \in Pointers
    BY <1>3, <1>a DEF ResizeAlloc, TypeOK, Pointers
  <2>5. TypeOK'
    BY <1>a, <2>1, <2>2, <2>3, <2>4 DEF TypeOK, Places, heap
  <2>6. SizeKnown' /\ PopCounted' /\ Keeps
    BY <1>3, <1>a, <1>b, <1>c, <2>2, <2>3
       DEF ResizeAlloc, SizeKnown, PopCounted, Keeps, heap
  <2> QED BY <2>5, <2>6 DEF BaseInv
<1>4. CASE ResizeDouble(t)
  <2>1. overlapped' \in BOOLEAN
    BY <1>4, <1>a, OverlapFacts DEF ResizeDouble
  <2>2. /\ pc' \in [Threads -> Places]
        /\ pc'[t] = "copy" /\ \A u \in Threads : u # t => pc'[u] = pc[u]
    BY <1>4, <1>a, GotoFacts DEF ResizeDouble, Places
  <2>3. /\ capacity' \in Nat
        /\ UNCHANGED <<timer_array, cur_size, allocated, alive, hole, mine,
                       resize, tmp, status, arms>>
    BY <1>4, <1>c DEF ResizeDouble
  <2>5. TypeOK'
    BY <1>a, <2>1, <2>2, <2>3 DEF TypeOK, Places, resize
  <2>6. SizeKnown' /\ PopCounted' /\ Keeps
    BY <1>4, <1>a, <1>b, <1>c, <2>2, <2>3
       DEF ResizeDouble, SizeKnown, PopCounted, Keeps
  <2> QED BY <2>5, <2>6 DEF BaseInv
<1>5. CASE ResizeCopy(t) /\ ~ Faults(t)
  <2>1. overlapped' \in BOOLEAN
    BY <1>5, <1>a, OverlapFacts DEF ResizeCopy, Faults
  <2>2. /\ pc' \in [Threads -> Places]
        /\ pc'[t] \in {"copy", "switch"}
        /\ \A u \in Threads : u # t => pc'[u] = pc[u]
    BY <1>5, <1>a, GotoFacts DEF ResizeCopy, Faults, Places, TypeOK
  <2>3. UNCHANGED <<heap, allocated, alive, hole, mine, tmp, status, arms>>
    BY <1>5 DEF ResizeCopy, Faults
  <2>4. /\ DOMAIN temp' = Threads /\ copied' \in [Threads -> Nat]
        /\ \A u \in Threads :
             \A i \in DOMAIN temp'[u] : temp'[u][i] \in Pointers
    <3>1. CASE UNCHANGED resize
      BY <3>1, <1>a DEF resize, TypeOK
    <3>2. CASE /\ copied[t] \in DOMAIN timer_array
               /\ temp' = [temp EXCEPT ![t][copied[t]] = timer_array[copied[t]]]
               /\ copied' = [copied EXCEPT ![t] = copied[t] + 1]
      BY <3>2, <1>a, <1>c DEF TypeOK
    <3> QED BY <1>5, <3>1, <3>2 DEF ResizeCopy, Faults, Inside
  <2>5. TypeOK'
    BY <1>a, <2>1, <2>2, <2>3, <2>4 DEF TypeOK, Places, heap
  <2>6. SizeKnown' /\ PopCounted' /\ Keeps
    BY <1>5, <1>a, <1>b, <1>c, <2>2, <2>3
       DEF ResizeCopy, SizeKnown, PopCounted, Keeps, heap
  <2> QED BY <2>5, <2>6 DEF BaseInv
<1>6. CASE ResizeSwitch(t)
  <2>1. overlapped' \in BOOLEAN
    BY <1>6, <1>a, OverlapFacts DEF ResizeSwitch
  <2>2. /\ pc' \in [Threads -> Places]
        /\ pc'[t] = "index" /\ \A u \in Threads : u # t => pc'[u] = pc[u]
    BY <1>6, <1>a, GotoFacts DEF ResizeSwitch, Places
  <2>3. /\ UNCHANGED <<cur_size, capacity, allocated, alive, hole, mine, tmp,
                       status, arms>>
        /\ pc[t] = "switch"
    BY <1>6 DEF ResizeSwitch
  <2>4. /\ \A i \in DOMAIN timer_array' : timer_array'[i] \in Pointers
        /\ DOMAIN temp' = Threads /\ copied' \in [Threads -> Nat]
        /\ \A u \in Threads :
             \A i \in DOMAIN temp'[u] : temp'[u][i] \in Pointers
    BY <1>6, <1>a DEF ResizeSwitch, TypeOK
  <2>5. TypeOK'
    BY <1>a, <2>1, <2>2, <2>3, <2>4 DEF TypeOK, Places
  <2>6. SizeKnown' /\ PopCounted' /\ Keeps
    BY <1>a, <1>b, <1>c, <2>2, <2>3 DEF SizeKnown, PopCounted, Keeps
  <2> QED BY <2>5, <2>6 DEF BaseInv
<1>10. CASE AddIndex(t)
  <2>1. overlapped' \in BOOLEAN
    BY <1>10, <1>a, OverlapFacts DEF AddIndex
  <2>2. /\ pc' \in [Threads -> Places]
        /\ pc'[t] = "bump" /\ \A u \in Threads : u # t => pc'[u] = pc[u]
    BY <1>10, <1>a, GotoFacts DEF AddIndex, Places
  <2>3. /\ hole' \in [Threads -> Nat] /\ hole'[t] = cur_size
        /\ \A u \in Threads : u # t => hole'[u] = hole[u]
    BY <1>10, <1>a, <1>c DEF AddIndex, TypeOK
  <2>4. UNCHANGED <<heap, allocated, alive, mine, resize, tmp, status, arms>>
        /\ pc[t] = "index"
    BY <1>10 DEF AddIndex
  <2>5. TypeOK'
    BY <1>a, <2>1, <2>2, <2>3, <2>4 DEF TypeOK, Places, heap, resize
  <2>6. SizeKnown' /\ PopCounted' /\ Keeps
    BY <1>a, <1>b, <1>c, <2>2, <2>3, <2>4 DEF SizeKnown, PopCounted, Keeps,
                                              heap
  <2> QED BY <2>5, <2>6 DEF BaseInv
<1>7. CASE AddBump(t)
  <2>1. overlapped' \in BOOLEAN
    BY <1>7, <1>a, OverlapFacts DEF AddBump
  <2>2. /\ pc' \in [Threads -> Places]
        /\ pc'[t] = IF hole[t] > 0 THEN "compare" ELSE "store"
        /\ \A u \in Threads : u # t => pc'[u] = pc[u]
    BY <1>7, <1>a, GotoFacts DEF AddBump, Places
  <2>3. /\ cur_size' = hole[t] + 1 /\ pc[t] = "bump"
        /\ UNCHANGED <<timer_array, capacity, allocated, alive, hole, mine,
                       resize, tmp, status, arms>>
    BY <1>7 DEF AddBump
  <2>4. TypeOK'
    BY <1>a, <1>c, <2>1, <2>2, <2>3 DEF TypeOK, Places, resize
  <2>5. SizeKnown' /\ PopCounted' /\ Keeps
    BY <1>a, <1>b, <1>c, <2>2, <2>3 DEF SizeKnown, PopCounted, Keeps
  <2> QED BY <2>4, <2>5 DEF BaseInv
<1>8. CASE AddCompare(t) /\ ~ Faults(t)
  <2>1. overlapped' \in BOOLEAN
    BY <1>8, <1>a, OverlapFacts DEF AddCompare, Faults
  <2>2. /\ pc' \in [Threads -> Places]
        /\ pc'[t] = "store" /\ \A u \in Threads : u # t => pc'[u] = pc[u]
    BY <1>8, <1>a, GotoFacts DEF AddCompare, Faults, Places
  <2>3. /\ pc[t] = "compare"
        /\ UNCHANGED <<heap, allocated, alive, hole, mine, resize, tmp, status,
                       arms>>
    BY <1>8 DEF AddCompare, Faults
  <2>4. TypeOK'
    BY <1>a, <2>1, <2>2, <2>3 DEF TypeOK, Places, heap, resize
  <2>5. SizeKnown' /\ PopCounted' /\ Keeps
    BY <1>a, <1>b, <1>c, <2>2, <2>3 DEF SizeKnown, PopCounted, Keeps, heap
  <2> QED BY <2>4, <2>5 DEF BaseInv
<1>9. CASE AddStore(t) /\ ~ Faults(t)
  <2>1. overlapped' \in BOOLEAN
    BY <1>9, <1>a, OverlapFacts DEF AddStore, Faults
  <2>2. /\ pc' \in [Threads -> Places]
        /\ pc'[t] = IF t = "socket" THEN "idle" ELSE "pop"
        /\ \A u \in Threads : u # t => pc'[u] = pc[u]
    BY <1>9, <1>a, GotoFacts DEF AddStore, Faults, Places
  <2>3. /\ hole' \in [Threads -> Nat] /\ mine' \in [Threads -> Pointers]
        /\ \A u \in Threads : u # t => hole'[u] = hole[u]
    BY <1>9, <1>a DEF AddStore, Faults, TypeOK, Pointers
  <2>4. /\ pc[t] = "store"
        /\ UNCHANGED <<cur_size, capacity, allocated, alive, resize, tmp,
                       status, arms>>
    BY <1>9 DEF AddStore, Faults
  <2>5. \A i \in DOMAIN timer_array' : timer_array'[i] \in Pointers
    BY <1>9, <1>a DEF AddStore, Faults, TypeOK
  <2>6. TypeOK'
    BY <1>a, <2>1, <2>2, <2>3, <2>4, <2>5 DEF TypeOK, Places, resize
  <2>7. SizeKnown' /\ PopCounted' /\ Keeps
    BY <1>a, <1>b, <1>c, <2>2, <2>3, <2>4 DEF SizeKnown, PopCounted, Keeps
  <2> QED BY <2>6, <2>7 DEF BaseInv
<1> QED BY <1>1, <1>2, <1>3, <1>4, <1>5, <1>6, <1>7, <1>8, <1>9, <1>10 DEF Add

(* So does every step of the timer thread outside timer_heap_add. *)
LEMMA TimerStep ==
  ASSUME BaseInv, Timer, ~ Add("timer")
  PROVE  BaseInv' /\ Keeps
<1>a. TypeOK /\ SizeKnown /\ PopCounted
  BY DEF BaseInv
<1>b. cur_size \in Nat /\ hole["timer"] \in Nat
  BY <1>a, ThreadsTwo DEF TypeOK
<1> USE ThreadsTwo
<1>1. CASE Faults("timer") \/ UNCHANGED vars
  <2>1. CASE Faults("timer")
    BY <2>1, FaultStep DEF Keeps
  <2>2. CASE UNCHANGED vars
    BY <2>2, <1>a DEF vars, heap, resize, BaseInv, TypeOK, SizeKnown, PopCounted,
                      Keeps
  <2> QED BY <1>1, <2>1, <2>2
<1>2. CASE Top /\ ~ Faults("timer") /\ ~ UNCHANGED vars
  <2>0. /\ Goto("timer", "tick") /\ Overlap("timer")
        /\ pc["timer"] = "top" /\ cur_size > 0
        /\ UNCHANGED <<heap, allocated, alive, hole, mine, resize, tmp, status,
                       arms>>
    BY <1>2 DEF Top, Faults
  <2>1. overlapped' \in BOOLEAN
    BY <2>0, <1>a, OverlapFacts
  <2>2. /\ pc' \in [Threads -> Places]
        /\ pc'["timer"] = "tick" /\ pc'["socket"] = pc["socket"]
    BY <2>0, <1>a, GotoFacts DEF Places
  <2>5. TypeOK'
    BY <1>a, <2>0, <2>1, <2>2 DEF TypeOK, Places, heap, resize
  <2>6. SizeKnown' /\ PopCounted' /\ Keeps
    BY <1>a, <1>b, <2>0, <2>2 DEF SizeKnown, PopCounted, Keeps, heap
  <2> QED BY <2>5, <2>6 DEF BaseInv
<1>3. CASE TickRead /\ ~ Faults("timer")
  <2>1. overlapped' \in BOOLEAN
    BY <1>3, <1>a, OverlapFacts DEF TickRead, Faults
  <2>2. /\ pc' \in [Threads -> Places]
        /\ pc'["timer"] = "test" /\ pc'["socket"] = pc["socket"]
    BY <1>3, <1>a, GotoFacts DEF TickRead, Faults, Places
  <2>3. /\ pc["timer"] = "tick"
        /\ UNCHANGED <<heap, allocated, alive, hole, mine, resize, status,
                       arms>>
    BY <1>3, <1>a DEF TickRead, Faults, TypeOK, Pointers, Sound
  <2>4. tmp' \in Pointers
    BY <1>3, <1>a DEF TickRead, Faults, Inside, TypeOK
  <2>5. TypeOK'
    BY <1>a, <1>b, <2>1, <2>2, <2>3, <2>4 DEF TypeOK, Places, heap, resize
  <2>6. SizeKnown' /\ PopCounted' /\ Keeps
    BY <1>a, <1>b, <2>2, <2>3, <2>4 DEF SizeKnown, PopCounted, Keeps, heap
  <2> QED BY <2>5, <2>6 DEF BaseInv
<1>4. CASE TickTest /\ ~ Faults("timer")
  <2>1. overlapped' \in BOOLEAN
    BY <1>4, <1>a, OverlapFacts DEF TickTest, Faults
  <2>2. /\ pc' \in [Threads -> Places]
        /\ pc'["timer"] \in {"call", "top"} /\ pc'["socket"] = pc["socket"]
    BY <1>4, <1>a, GotoFacts DEF TickTest, Faults, Places
  <2>3. /\ pc["timer"] = "test" /\ tmp' \in Pointers
        /\ UNCHANGED <<heap, allocated, alive, hole, mine, resize, status,
                       arms>>
    BY <1>4, <1>a DEF TickTest, Faults, TypeOK, Pointers, Sound
  <2>5. TypeOK'
    BY <1>a, <1>b, <2>1, <2>2, <2>3 DEF TypeOK, Places, heap, resize
  <2>6. SizeKnown' /\ PopCounted' /\ Keeps
    BY <1>a, <1>b, <2>2, <2>3 DEF SizeKnown, PopCounted, Keeps, heap
  <2> QED BY <2>5, <2>6 DEF BaseInv
<1>5. CASE TickCall /\ ~ Faults("timer")
  <2>1. overlapped' \in BOOLEAN
    BY <1>5, <1>a, OverlapFacts DEF TickCall, Faults
  <2>2. /\ pc' \in [Threads -> Places]
        /\ pc'["timer"] = (IF alive THEN "pop" ELSE "add")
        /\ pc'["socket"] = pc["socket"]
    BY <1>5, <1>a, GotoFacts DEF TickCall, Faults, Places
  <2>3. /\ pc["timer"] = "call"
        /\ UNCHANGED <<heap, alive, hole, resize, tmp, status>>
    BY <1>5 DEF TickCall, Faults
  <2>4. allocated' \subseteq Timers /\ mine' \in [Threads -> Pointers]
        /\ arms' \in 0 .. MaxArms
    BY <1>5, <1>a DEF TickCall, Faults, TypeOK, Pointers
  <2>5. TypeOK'
    BY <1>a, <2>1, <2>2, <2>3, <2>4 DEF TypeOK, Places, heap, resize
  <2>6. SizeKnown' /\ PopCounted' /\ Keeps
    BY <1>a, <1>b, <2>2, <2>3 DEF SizeKnown, PopCounted, Keeps, heap
  <2> QED BY <2>5, <2>6 DEF BaseInv
<1>6. CASE Pop /\ ~ Faults("timer")
  <2>1. overlapped' \in BOOLEAN
    BY <1>6, <1>a, OverlapFacts DEF Pop, Faults
  <2>2. /\ pc' \in [Threads -> Places]
        /\ pc'["timer"] \in {"tick", "dec"} /\ pc'["socket"] = pc["socket"]
    BY <1>6, <1>a, GotoFacts DEF Pop, Faults, Places
  <2>3. /\ pc["timer"] = "pop" /\ allocated' \subseteq Timers
        /\ pc'["timer"] = "dec" => cur_size >= 1
        /\ UNCHANGED <<heap, alive, hole, mine, resize, tmp, status, arms>>
    BY <1>6, <1>a DEF Pop, Faults, Goto, TypeOK
  <2>5. TypeOK'
    BY <1>a, <1>b, <2>1, <2>2, <2>3 DEF TypeOK, Places, heap, resize
  <2>6. SizeKnown' /\ PopCounted' /\ Keeps
    BY <1>a, <1>b, <2>2, <2>3 DEF SizeKnown, PopCounted, Keeps, heap
  <2> QED BY <2>5, <2>6 DEF BaseInv
<1>7. CASE PopDec
  <2>1. overlapped' \in BOOLEAN
    BY <1>7, <1>a, OverlapFacts DEF PopDec
  <2>2. /\ pc' \in [Threads -> Places]
        /\ pc'["timer"] = "dec_write" /\ pc'["socket"] = pc["socket"]
    BY <1>7, <1>a, GotoFacts DEF PopDec, Places
  <2>3. /\ pc["timer"] = "dec"
        /\ UNCHANGED <<heap, allocated, alive, mine, resize, tmp, status,
                       arms>>
    BY <1>7, <1>a DEF PopDec, TypeOK, Pointers, Sound
  <2>4. /\ hole' \in [Threads -> Nat] /\ hole'["timer"] = cur_size - 1
        /\ hole'["socket"] = hole["socket"]
    <3>1. cur_size - 1 \in Nat
      BY <1>a, <1>b, <2>3 DEF PopCounted
    <3> QED BY <1>7, <1>a, <3>1 DEF PopDec, TypeOK
  <2>5. TypeOK'
    BY <1>a, <1>b, <2>1, <2>2, <2>3, <2>4 DEF TypeOK, Places, heap, resize
  <2>6. SizeKnown' /\ PopCounted' /\ Keeps
    BY <1>a, <1>b, <2>2, <2>3, <2>4 DEF SizeKnown, PopCounted, Keeps, heap
  <2> QED BY <2>5, <2>6 DEF BaseInv
<1>8. CASE PopDecWrite
  <2>1. overlapped' \in BOOLEAN
    BY <1>8, <1>a, OverlapFacts DEF PopDecWrite
  <2>2. /\ pc' \in [Threads -> Places]
        /\ pc'["timer"] = "root" /\ pc'["socket"] = pc["socket"]
    BY <1>8, <1>a, GotoFacts DEF PopDecWrite, Places
  <2>3. /\ pc["timer"] = "dec_write" /\ cur_size' = hole["timer"]
        /\ UNCHANGED <<timer_array, capacity, allocated, alive, hole, mine,
                       resize, tmp, status, arms>>
    BY <1>8, <1>a DEF PopDecWrite, TypeOK, Pointers, Sound
  <2>5. TypeOK'
    BY <1>a, <1>b, <2>1, <2>2, <2>3 DEF TypeOK, Places, resize
  <2>6. SizeKnown' /\ PopCounted' /\ Keeps
    BY <1>a, <1>b, <2>2, <2>3 DEF SizeKnown, PopCounted, Keeps
  <2> QED BY <2>5, <2>6 DEF BaseInv
<1>9. CASE PopRoot /\ ~ Faults("timer")
  <2>1. overlapped' \in BOOLEAN
    BY <1>9, <1>a, OverlapFacts DEF PopRoot, Faults
  <2>2. /\ pc' \in [Threads -> Places]
        /\ pc'["timer"] = "percolate" /\ pc'["socket"] = pc["socket"]
    BY <1>9, <1>a, GotoFacts DEF PopRoot, Faults, Places
  <2>3. /\ pc["timer"] = "root"
        /\ UNCHANGED <<cur_size, capacity, allocated, alive, mine, resize, tmp,
                       status, arms>>
    BY <1>9, <1>a DEF PopRoot, Faults, TypeOK, Pointers, Sound
  <2>4. /\ hole' \in [Threads -> Nat] /\ hole'["socket"] = hole["socket"]
        /\ \A i \in DOMAIN timer_array' : timer_array'[i] \in Pointers
    BY <1>9, <1>a DEF PopRoot, Faults, Inside, TypeOK
  <2>5. TypeOK'
    BY <1>a, <1>b, <2>1, <2>2, <2>3, <2>4 DEF TypeOK, Places, resize
  <2>6. SizeKnown' /\ PopCounted' /\ Keeps
    BY <1>a, <1>b, <2>2, <2>3, <2>4 DEF SizeKnown, PopCounted, Keeps
  <2> QED BY <2>5, <2>6 DEF BaseInv
<1>10. CASE PopPercolate /\ ~ Faults("timer")
  <2>1. overlapped' \in BOOLEAN
    BY <1>10, <1>a, OverlapFacts DEF PopPercolate, Faults
  <2>2. /\ pc' \in [Threads -> Places]
        /\ pc'["timer"] \in {"tick", "sift"} /\ pc'["socket"] = pc["socket"]
    BY <1>10, <1>a, GotoFacts DEF PopPercolate, Faults, Places
  <2>3. /\ pc["timer"] = "percolate"
        /\ UNCHANGED <<heap, allocated, alive, hole, mine, resize, status,
                       arms>>
    BY <1>10 DEF PopPercolate, Faults
  <2>4. tmp' \in Pointers
    BY <1>10, <1>a DEF PopPercolate, Faults, Inside, TypeOK
  <2>5. TypeOK'
    BY <1>a, <1>b, <2>1, <2>2, <2>3, <2>4 DEF TypeOK, Places, heap, resize
  <2>6. SizeKnown' /\ PopCounted' /\ Keeps
    BY <1>a, <1>b, <2>2, <2>3, <2>4 DEF SizeKnown, PopCounted, Keeps, heap
  <2> QED BY <2>5, <2>6 DEF BaseInv
<1>11. CASE PopSift /\ ~ Faults("timer")
  <2>1. overlapped' \in BOOLEAN
    BY <1>11, <1>a, OverlapFacts DEF PopSift, Faults
  <2>2. /\ pc' \in [Threads -> Places]
        /\ pc'["timer"] = "place" /\ pc'["socket"] = pc["socket"]
    BY <1>11, <1>a, GotoFacts DEF PopSift, Faults, Places
  <2>3. /\ pc["timer"] = "sift"
        /\ UNCHANGED <<heap, allocated, alive, hole, mine, resize, tmp, status,
                       arms>>
    BY <1>11 DEF PopSift, Faults
  <2>4. TypeOK'
    BY <1>a, <1>b, <2>1, <2>2, <2>3 DEF TypeOK, Places, heap, resize
  <2>5. SizeKnown' /\ PopCounted' /\ Keeps
    BY <1>a, <1>b, <2>2, <2>3 DEF SizeKnown, PopCounted, Keeps, heap
  <2> QED BY <2>4, <2>5 DEF BaseInv
<1>12. CASE PopPlace /\ ~ Faults("timer")
  <2>1. overlapped' \in BOOLEAN
    BY <1>12, <1>a, OverlapFacts DEF PopPlace, Faults
  <2>2. /\ pc' \in [Threads -> Places]
        /\ pc'["timer"] = "tick" /\ pc'["socket"] = pc["socket"]
    BY <1>12, <1>a, GotoFacts DEF PopPlace, Faults, Places
  <2>3. /\ pc["timer"] = "place"
        /\ UNCHANGED <<cur_size, capacity, allocated, alive, hole, mine, resize,
                       status, arms>>
    BY <1>12 DEF PopPlace, Faults
  <2>4. /\ tmp' \in Pointers
        /\ \A i \in DOMAIN timer_array' : timer_array'[i] \in Pointers
    BY <1>12, <1>a DEF PopPlace, Faults, TypeOK, Pointers
  <2>5. TypeOK'
    BY <1>a, <1>b, <2>1, <2>2, <2>3, <2>4 DEF TypeOK, Places, resize
  <2>6. SizeKnown' /\ PopCounted' /\ Keeps
    BY <1>a, <1>b, <2>2, <2>3, <2>4 DEF SizeKnown, PopCounted, Keeps
  <2> QED BY <2>5, <2>6 DEF BaseInv
<1> QED BY <1>1, <1>2, <1>3, <1>4, <1>5, <1>6, <1>7, <1>8, <1>9, <1>10, <1>11,
           <1>12 DEF Timer

(* So do arming a timer and the answer of the smart controller. *)
LEMMA OtherStep ==
  ASSUME BaseInv, Arm \/ Answer \/ Ended
  PROVE  BaseInv' /\ Keeps
<1>a. TypeOK /\ SizeKnown /\ PopCounted
  BY DEF BaseInv
<1>b. cur_size \in Nat
  BY <1>a DEF TypeOK
<1> USE ThreadsTwo
<1>1. CASE Arm
  <2>1. /\ pc' \in [Threads -> Places]
        /\ pc'["socket"] = "add" /\ pc'["timer"] = pc["timer"]
    BY <1>1, <1>a, GotoFacts DEF Arm, Places
  <2>2. /\ UNCHANGED <<heap, alive, hole, resize, tmp, status, overlapped>>
        /\ allocated' \subseteq Timers /\ mine' \in [Threads -> Pointers]
    BY <1>1, <1>a DEF Arm, TypeOK, Pointers
  <2>3. arms' \in 0 .. MaxArms
    BY <1>1, <1>a, CapacityAssumption DEF Arm, TypeOK
  <2>4. TypeOK'
    BY <1>a, <2>1, <2>2, <2>3 DEF TypeOK, Places, heap, resize
  <2>5. SizeKnown' /\ PopCounted' /\ Keeps
    BY <1>a, <1>b, <2>1, <2>2 DEF SizeKnown, PopCounted, Keeps, heap
  <2> QED BY <2>4, <2>5 DEF BaseInv
<1>2. CASE Answer
  BY <1>2, <1>a DEF Answer, BaseInv, TypeOK, SizeKnown, PopCounted, Keeps, heap,
                    resize
<1>3. CASE Ended
  BY <1>3, <1>a DEF Ended, BaseInv, TypeOK, SizeKnown, PopCounted, Keeps, vars,
                    heap, resize
<1> QED BY <1>1, <1>2, <1>3

LEMMA RaceStep ==
  ASSUME BaseInv, Next PROVE BaseInv' /\ Keeps
BY AddStep, TimerStep, OtherStep, ThreadsTwo DEF Next, Timer

-----------------------------------------------------------------------------
(* The calm heap, as it looks to a thread t, at the place q, while the other
   thread o has no operation on the heap under way. *)
Betweens == {"idle", "top", "tick", "call", "add", "pop"}
Adds == {"add", "resize", "double", "copy", "switch", "index", "bump",
         "compare", "store"}
Pops == {"dec", "dec_write", "root"}

SlotsFor(q, n) ==
  (IF q \in Pops THEN 1 ELSE 0)
    .. (IF q = "root" THEN n
        ELSE IF q \in {"compare", "store"} THEN n - 2 ELSE n - 1)

View(t, o, q) ==
  /\ Running /\ pc[t] = q /\ pc[o] \in Betweens
  /\ \A i \in SlotsFor(q, cur_size) :
       /\ i \in DOMAIN timer_array /\ timer_array[i] \in allocated
       /\ q \in Adds => timer_array[i] # mine[t]
       /\ pc[o] = "add" => timer_array[i] # mine[o]
  /\ \A i, j \in SlotsFor(q, cur_size) :
       i # j => timer_array[i] # timer_array[j]
  /\ q \in Adds => mine[t] \in allocated
  /\ pc[o] = "add" => mine[o] \in allocated
  /\ q \in Adds /\ pc[o] = "add" => mine[t] # mine[o]
  /\ q \in {"copy", "switch"} => cur_size < capacity
  /\ q \notin {"copy", "switch"} =>
       /\ DOMAIN timer_array = 0 .. capacity - 1
       /\ capacity > 0 /\ cur_size <= capacity
  /\ AddKnows(t)
  /\ TickKnows

LEMMA OtherFacts ==
  ASSUME NEW t \in Threads
  PROVE  /\ Other(t) \in Threads /\ Other(t) # t
         /\ \A u \in Threads : u = t \/ u = Other(t)
         /\ t = "socket" => Other(t) = "timer"
         /\ t = "timer" => Other(t) = "socket"
BY DEF Other, Threads

LEMMA ViewOf ==
  ASSUME TypeOK, Calm, NEW t \in Threads, NEW o \in Threads, o = Other(t),
         Between(o), NEW q, q = pc[t], q \in Pops => t = "timer"
  PROVE  View(t, o, q)
<1>1. /\ pc[o] \in Betweens /\ Running /\ pc[t] = q
      /\ t # o /\ \A u \in Threads : u = t \/ u = o
      /\ t = "timer" \/ o = "timer"
  BY OtherFacts, ThreadsTwo DEF Between, Betweens, Calm
<1>2. /\ Popping <=> q \in Pops
      /\ pc["timer"] = "root" <=> q = "root"
  BY <1>1 DEF Popping, Pops, Betweens
<1>3. (\E u \in Threads : pc[u] \in {"compare", "store"})
        <=> q \in {"compare", "store"}
  BY <1>1 DEF Betweens
<1>4. Slots = SlotsFor(q, cur_size)
  BY <1>2, <1>3 DEF Slots, SlotsFor
<1>5. (\E u \in Threads : pc[u] \in {"copy", "switch"})
        <=> q \in {"copy", "switch"}
  BY <1>1 DEF Betweens
<1>6. (Adding(t) <=> q \in Adds) /\ (Adding(o) <=> pc[o] = "add")
  BY <1>1 DEF Adding, Adds, Betweens
<1>7. q \in Adds /\ pc[o] = "add" => mine[t] # mine[o]
  BY <1>6, OtherFacts, ThreadsTwo DEF Calm, SlotsSound
<1>8. /\ \A i \in SlotsFor(q, cur_size) :
           /\ i \in DOMAIN timer_array /\ timer_array[i] \in allocated
           /\ q \in Adds => timer_array[i] # mine[t]
           /\ pc[o] = "add" => timer_array[i] # mine[o]
      /\ \A i, j \in SlotsFor(q, cur_size) :
           i # j => timer_array[i] # timer_array[j]
      /\ q \in Adds => mine[t] \in allocated
      /\ pc[o] = "add" => mine[o] \in allocated
  BY <1>4, <1>6 DEF Calm, SlotsSound
<1>9. /\ q \in {"copy", "switch"} => cur_size < capacity
      /\ q \notin {"copy", "switch"} =>
           /\ DOMAIN timer_array = 0 .. capacity - 1
           /\ capacity > 0 /\ cur_size <= capacity
  BY <1>5 DEF Calm, ArrayFits
<1> QED BY <1>1, <1>7, <1>8, <1>9 DEF View, Calm

LEMMA ViewShows ==
  ASSUME NEW t \in Threads, NEW o \in Threads, o = Other(t), NEW q,
         View(t, o, q)', q \in Pops => t = "timer"
  PROVE  Calm'
<1>1. /\ pc'[o] \in Betweens /\ Running' /\ pc'[t] = q
      /\ t # o /\ \A u \in Threads : u = t \/ u = o
      /\ t = "timer" \/ o = "timer"
  BY OtherFacts, ThreadsTwo DEF View
<1>2. /\ Popping' <=> q \in Pops
      /\ pc'["timer"] = "root" <=> q = "root"
  BY <1>1 DEF Popping, Pops, Betweens
<1>3. (\E u \in Threads : pc'[u] \in {"compare", "store"})
        <=> q \in {"compare", "store"}
  BY <1>1 DEF Betweens
<1>4. Slots' = SlotsFor(q, cur_size')
  BY <1>2, <1>3 DEF Slots, SlotsFor
<1>5. (\E u \in Threads : pc'[u] \in {"copy", "switch"})
        <=> q \in {"copy", "switch"}
  BY <1>1 DEF Betweens
<1>6. (Adding(t)' <=> q \in Adds) /\ (Adding(o)' <=> pc'[o] = "add")
  BY <1>1 DEF Adding, Adds, Betweens
<1>7. Adding("socket")' /\ Adding("timer")' => mine'["socket"] # mine'["timer"]
  BY <1>1, <1>6, OtherFacts, ThreadsTwo DEF View
<1>8. \A u \in Threads : Adding(u)' =>
         /\ mine'[u] \in allocated'
         /\ \A i \in Slots' : timer_array'[i] # mine'[u]
  BY <1>1, <1>4, <1>6 DEF View
<1>9. SlotsSound'
  BY <1>4, <1>7, <1>8 DEF View, SlotsSound
<1>10. ArrayFits'
  BY <1>5 DEF View, ArrayFits
<1>11. AddKnows(o)'
  BY <1>1 DEF AddKnows, Betweens
<1>12. Between("socket")' \/ Between("timer")'
  BY <1>1, ThreadsTwo DEF Between, Betweens
<1>13. \A u \in Threads : AddKnows(u)'
  BY <1>1, <1>11 DEF View
<1> QED BY <1>1, <1>9, <1>10, <1>12, <1>13 DEF View, Calm

(* A step on the heap that no operation of the other thread is overlapped by
   starts from such a view, and faults in none. *)
LEMMA StepView ==
  ASSUME TypeOK, Undisturbed, NEW t \in Threads, Overlap(t), ~ overlapped',
         pc[t] \in Pops => t = "timer"
  PROVE  /\ View(t, Other(t), pc[t])
         /\ Other(t) \in Threads /\ Other(t) # t
         /\ pc[Other(t)] # "switch"
<1>1. ~ overlapped /\ Between(Other(t))
  BY DEF Overlap, Between, TypeOK
<1>2. Calm
  BY <1>1 DEF Undisturbed
<1>3. Other(t) \in Threads /\ Other(t) # t
  BY OtherFacts
<1>4. View(t, Other(t), pc[t])
  BY <1>1, <1>2, <1>3, ViewOf
<1> QED BY <1>1, <1>3, <1>4 DEF Between

(* Every step of timer_heap_add that overlaps with nothing finds the heap
   sound, and leaves it so. *)
LEMMA AddCalm ==
  ASSUME TypeOK, Undisturbed, NEW t \in Threads, Add(t), ~ overlapped'
  PROVE  Calm'
<1> DEFINE o == Other(t)
<1>1. Overlap(t) /\ pc[t] \in Adds
  BY DEF Add, AddTest, ResizeAlloc, ResizeDouble, ResizeCopy, ResizeSwitch,
         AddIndex, AddBump, AddCompare, AddStore, OutOf, UseOf, Adds
<1>2. View(t, o, pc[t]) /\ o \in Threads /\ o # t /\ pc[o] # "switch"
  BY <1>1, StepView DEF Adds, Pops
<1>3. /\ cur_size \in Nat /\ capacity \in Nat /\ hole[t] \in Nat
      /\ copied[t] \in Nat /\ pc \in [Threads -> Places]
      /\ hole \in [Threads -> Nat] /\ copied \in [Threads -> Nat]
      /\ mine \in [Threads -> Pointers] /\ DOMAIN temp = Threads
      /\ t = "timer" \/ o = "timer"
  BY OtherFacts, ThreadsTwo DEF TypeOK, Places
<1>4. SUFFICES \E q \in Adds \union {"idle", "pop"} : View(t, o, q)'
  BY <1>2, ViewShows DEF Adds, Pops
<1> HIDE DEF o
<1> USE DEF SlotsFor, Pops, Adds
(* A step within timer_heap_add that leaves the size as it is disturbs nothing
   the timer thread knows. *)
<1>t. ASSUME cur_size' = cur_size, pc'[t] \in Adds, pc'[o] = pc[o]
      PROVE  TickKnows'
  <2>1. TickKnows /\ pc[o] \in Betweens
    BY <1>2 DEF View
  <2>2. CASE t = "timer"
    BY <1>1, <1>t, <2>1, <2>2 DEF TickKnows, Adding
  <2>3. CASE o = "timer"
    <3>1. pc'["timer"] = pc["timer"] /\ pc["timer"] \in Betweens
      BY <1>t, <2>1, <2>3
    <3> QED BY <1>t, <2>1, <3>1 DEF TickKnows, Adding, Betweens
  <2> QED BY <1>3, <2>2, <2>3
<1>5. CASE AddTest(t)
  <2>1. CASE cur_size >= capacity
    <3>1. /\ pc' = [pc EXCEPT ![t] = "resize"] /\ pc[t] = "add"
          /\ UNCHANGED <<timer_array, cur_size, capacity, allocated, hole, mine,
                         temp, copied, tmp, status>>
      BY <1>5, <2>1 DEF AddTest, Goto, heap, resize
    <3>2. AddKnows(t)' /\ TickKnows' /\ pc'[t] = "resize" /\ pc'[o] = pc[o]
      BY <1>2, <1>3, <3>1 DEF View, AddKnows, TickKnows, Adding
    <3>3. View(t, o, "resize")'
      BY <1>2, <3>1, <3>2 DEF View, Running
    <3> QED BY <3>3
  <2>2. CASE cur_size < capacity
    <3>0. ~ cur_size >= capacity
      BY <1>3, <2>2
    <3>1. /\ pc' = [pc EXCEPT ![t] = "index"] /\ pc[t] = "add"
          /\ UNCHANGED <<timer_array, cur_size, capacity, allocated, hole, mine,
                         temp, copied, tmp, status>>
      BY <1>5, <3>0 DEF AddTest, Goto, heap, resize
    <3>2. pc'[t] = "index" /\ pc'[o] = pc[o] /\ cur_size' < capacity'
      BY <1>2, <1>3, <2>2, <3>1
    <3>3. AddKnows(t)' /\ TickKnows'
      <4>1. TickKnows'
        BY <1>t, <3>1, <3>2
      <4>2. AddKnows(t)'
        BY <3>2 DEF AddKnows
      <4> QED BY <4>1, <4>2
    <3>4. View(t, o, "index")'
      BY <1>2, <3>1, <3>2, <3>3 DEF View, Running
    <3> QED BY <3>4
  <2> QED BY <1>3, <2>1, <2>2
<1>6. CASE ResizeAlloc(t)
  <2>1. /\ pc' = [pc EXCEPT ![t] = "double"] /\ pc[t] = "resize"
        /\ temp' = [temp EXCEPT ![t] = [i \in 0 .. 2 * capacity - 1 |-> NULL]]
        /\ copied' = [copied EXCEPT ![t] = 0]
        /\ UNCHANGED <<timer_array, cur_size, capacity, allocated, hole, mine,
                       tmp, status>>
    BY <1>6 DEF ResizeAlloc, Goto, heap
  <2> QED BY <1>2, <1>3, <2>1 DEF View, Running, AddKnows, TickKnows, Adding
<1>7. CASE ResizeDouble(t)
  <2>1. /\ pc' = [pc EXCEPT ![t] = "copy"] /\ pc[t] = "double"
        /\ capacity' = 2 * capacity
        /\ UNCHANGED <<timer_array, cur_size, allocated, hole, mine, temp,
                       copied, tmp, status>>
    BY <1>7 DEF ResizeDouble, Goto, resize
  <2>2. capacity > 0 /\ cur_size < 2 * capacity
    BY <1>2, <1>3, <2>1 DEF View
  <2>3. AddKnows(t)' /\ TickKnows' /\ pc'[t] = "copy" /\ pc'[o] = pc[o]
    BY <1>2, <1>3, <2>1 DEF View, AddKnows, TickKnows, Adding
  <2>4. View(t, o, "copy")'
    BY <1>2, <2>1, <2>2, <2>3 DEF View, Running
  <2> QED BY <2>4
<1>8. CASE ResizeCopy(t)
  <2>1. pc[t] = "copy"
    BY <1>8 DEF ResizeCopy
  <2>2. CASE copied[t] < cur_size
    <3>1. copied[t] \in DOMAIN timer_array /\ copied[t] \in DOMAIN temp[t]
      BY <1>2, <1>3, <2>1, <2>2 DEF View, AddKnows
    <3>2. /\ temp' = [temp EXCEPT ![t][copied[t]] = timer_array[copied[t]]]
          /\ copied' = [copied EXCEPT ![t] = copied[t] + 1]
          /\ UNCHANGED <<timer_array, cur_size, capacity, allocated, hole, mine,
                         pc, tmp, status>>
      BY <1>2, <1>3, <1>8, <2>2, <3>1 DEF ResizeCopy, OutOf, Inside, heap, o
    <3>3. /\ DOMAIN temp'[t] = DOMAIN temp[t]
          /\ temp'[t][copied[t]] = timer_array[copied[t]]
          /\ \A i \in DOMAIN temp[t] : i # copied[t] => temp'[t][i] = temp[t][i]
          /\ copied'[t] = copied[t] + 1
      BY <1>3, <3>1, <3>2
    <3>4. AddKnows(t)'
      <4>1. \A i \in 0 .. copied'[t] - 1 : temp'[t][i] = timer_array[i]
        <5> SUFFICES ASSUME NEW i \in 0 .. copied'[t] - 1
                     PROVE  temp'[t][i] = timer_array[i]
          OBVIOUS
        <5>1. i = copied[t] \/ i \in 0 .. copied[t] - 1
          BY <1>3, <3>3
        <5>2. i \in DOMAIN temp[t]
          BY <1>2, <1>3, <2>1, <2>2, <5>1 DEF View, AddKnows
        <5> QED BY <1>2, <2>1, <3>3, <5>1, <5>2 DEF View, AddKnows
      <4> QED BY <1>2, <1>3, <2>1, <2>2, <3>2, <3>3, <4>1 DEF View, AddKnows
    <3> QED BY <1>2, <1>3, <2>1, <3>2, <3>4 DEF View, Running, TickKnows, Adding
  <2>3. CASE ~ copied[t] < cur_size
    <3>1. /\ pc' = [pc EXCEPT ![t] = "switch"]
          /\ UNCHANGED <<timer_array, cur_size, capacity, allocated, hole, mine,
                         temp, copied, tmp, status>>
      BY <1>8, <2>3 DEF ResizeCopy, Goto, heap, resize
    <3>2. copied[t] = cur_size
      BY <1>2, <1>3, <2>1, <2>3 DEF View, AddKnows
    <3>3. pc'[t] = "switch" /\ pc'[o] = pc[o]
      BY <1>2, <1>3, <3>1
    <3>4. AddKnows(t)'
      BY <1>2, <2>1, <3>1, <3>2, <3>3 DEF View, AddKnows
    <3>5. View(t, o, "switch")'
      BY <1>2, <1>t, <2>1, <3>1, <3>3, <3>4 DEF View, Running
    <3> QED BY <3>5
  <2> QED BY <2>2, <2>3
<1>9. CASE ResizeSwitch(t)
  <2>1. /\ pc' = [pc EXCEPT ![t] = "index"] /\ pc[t] = "switch"
        /\ timer_array' = temp[t]
        /\ UNCHANGED <<cur_size, capacity, allocated, hole, mine, tmp, status>>
    BY <1>9 DEF ResizeSwitch, Goto
  <2>2. \A i \in 0 .. cur_size - 1 : /\ timer_array'[i] = timer_array[i]
                                     /\ i \in DOMAIN timer_array'
    BY <1>2, <1>3, <2>1 DEF View, AddKnows
  <2>3. DOMAIN timer_array' = 0 .. capacity - 1 /\ cur_size < capacity
    BY <1>2, <2>1 DEF View, AddKnows
  <2>4. pc'[t] = "index" /\ pc'[o] = pc[o]
    BY <1>2, <1>3, <2>1
  <2>5. AddKnows(t)' /\ TickKnows'
    <3>1. TickKnows'
      BY <1>t, <2>1, <2>4
    <3>2. AddKnows(t)'
      BY <2>1, <2>3, <2>4 DEF AddKnows
    <3> QED BY <3>1, <3>2
  <2>6. \A i \in 0 .. cur_size - 1 :
          /\ i \in DOMAIN timer_array' /\ timer_array'[i] \in allocated'
          /\ timer_array'[i] # mine'[t]
          /\ pc'[o] = "add" => timer_array'[i] # mine'[o]
    BY <1>2, <2>1, <2>2, <2>4 DEF View
  <2>7. \A i, j \in 0 .. cur_size - 1 :
          i # j => timer_array'[i] # timer_array'[j]
    BY <1>2, <2>1, <2>2 DEF View
  <2>8. SlotsFor("index", cur_size') = 0 .. cur_size - 1
    BY <2>1
  <2>9. /\ DOMAIN timer_array' = 0 .. capacity' - 1
        /\ capacity' > 0 /\ cur_size' <= capacity'
    BY <1>3, <2>1, <2>3
  <2>10. /\ Running' /\ pc'[o] \in Betweens
         /\ mine'[t] \in allocated'
         /\ pc'[o] = "add" => mine'[o] \in allocated' /\ mine'[t] # mine'[o]
    BY <1>2, <2>1, <2>4 DEF View, Running
  <2>11. View(t, o, "index")'
    <3> HIDE DEF SlotsFor
    <3> QED BY <2>4, <2>5, <2>6, <2>7, <2>8, <2>9, <2>10 DEF View
  <2> QED BY <2>11
<1>13. CASE AddIndex(t)
  <2>1. /\ pc' = [pc EXCEPT ![t] = "bump"] /\ pc[t] = "index"
        /\ hole' = [hole EXCEPT ![t] = cur_size]
        /\ UNCHANGED <<timer_array, cur_size, capacity, allocated, mine, temp,
                       copied, tmp, status>>
    BY <1>13 DEF AddIndex, Goto, heap, resize
  <2>2. cur_size < capacity
    BY <1>2, <2>1 DEF View, AddKnows
  <2>3. AddKnows(t)' /\ TickKnows' /\ pc'[t] = "bump" /\ pc'[o] = pc[o]
    BY <1>2, <1>3, <2>1, <2>2 DEF View, AddKnows, TickKnows, Adding
  <2>4. View(t, o, "bump")'
    BY <1>2, <2>1, <2>2, <2>3 DEF View, Running
  <2> QED BY <2>4
<1>10. CASE AddBump(t)
  <2>1. /\ cur_size' = hole[t] + 1 /\ pc[t] = "bump"
        /\ pc' = [pc EXCEPT ![t] = IF hole[t] > 0 THEN "compare" ELSE "store"]
        /\ UNCHANGED <<timer_array, capacity, allocated, hole, mine, temp,
                       copied, tmp, status>>
    BY <1>10 DEF AddBump, Goto, resize
  <2>2. hole[t] = cur_size /\ cur_size < capacity
    BY <1>2, <2>1 DEF View, AddKnows
  <2>3. PICK q \in {"compare", "store"} : pc'[t] = q
    BY <1>3, <2>1
  <2>4. AddKnows(t)' /\ TickKnows' /\ pc'[o] = pc[o]
    <3>1. pc'[o] = pc[o] /\ hole'[t] = cur_size' - 1 /\ cur_size' > 0
          /\ (q = "compare" => hole'[t] > 0)
      BY <1>2, <1>3, <2>1, <2>2, <2>3
    <3>2. /\ t = "timer" \/ (t = "socket" /\ o = "timer")
          /\ pc[o] \in Betweens
      BY <1>2, <1>3, ThreadsTwo DEF View
    <3>3. AddKnows(t)'
      BY <2>3, <3>1 DEF AddKnows
    <3>4. TickKnows'
      BY <2>3, <3>1, <3>2 DEF TickKnows, Betweens
    <3> QED BY <3>1, <3>3, <3>4
  <2>5. SlotsFor(q, cur_size') = SlotsFor("bump", cur_size)
    BY <1>3, <2>1, <2>2, <2>3
  <2>6. View(t, o, q)'
    <3> HIDE DEF SlotsFor
    <3> QED BY <1>2, <1>3, <2>1, <2>2, <2>3, <2>4, <2>5 DEF View, Running
  <2> QED BY <2>6
<1>11. CASE AddCompare(t)
  <2>1. pc[t] = "compare" /\ hole[t] = cur_size - 1 /\ hole[t] > 0
    BY <1>2, <1>11 DEF AddCompare, View, AddKnows
  <2>2. PICK p : p = (hole[t] - 1) \div 2
    OBVIOUS
  <2>3. p \in 0 .. cur_size - 2
    BY <1>3, <2>1, <2>2
  <2>4. Inside({p}) /\ Sound(At({p}))
    BY <1>2, <2>1, <2>3 DEF View, Inside, Sound, At
  <2>5. /\ pc' = [pc EXCEPT ![t] = "store"]
        /\ UNCHANGED <<timer_array, cur_size, capacity, allocated, hole, mine,
                       temp, copied, tmp, status>>
    BY <1>2, <1>11, <2>2, <2>4 DEF AddCompare, OutOf, UseOf, Goto, heap, resize,
                                   o
  <2> QED BY <1>2, <1>3, <2>1, <2>5
          DEF View, Running, AddKnows, TickKnows, Adding
<1>12. CASE AddStore(t)
  <2>1. pc[t] = "store" /\ hole[t] = cur_size - 1
    BY <1>2, <1>12 DEF AddStore, View, AddKnows
  <2>2. DOMAIN timer_array = 0 .. capacity - 1 /\ hole[t] \in DOMAIN timer_array
    BY <1>2, <1>3, <2>1 DEF View
  <2>3. /\ timer_array' = [timer_array EXCEPT ![hole[t]] = mine[t]]
        /\ mine' = [mine EXCEPT ![t] = NULL]
        /\ hole' = [hole EXCEPT ![t] = 0]
        /\ pc' = [pc EXCEPT ![t] = IF t = "socket" THEN "idle" ELSE "pop"]
        /\ UNCHANGED <<cur_size, capacity, allocated, temp, copied, tmp, status>>
    BY <1>2, <1>12, <2>2 DEF AddStore, OutOf, Inside, Goto, resize, o
  <2>4. /\ timer_array'[cur_size - 1] = mine[t]
        /\ \A i \in 0 .. cur_size - 2 : timer_array'[i] = timer_array[i]
        /\ DOMAIN timer_array' = DOMAIN timer_array
    BY <1>3, <2>1, <2>2, <2>3
  <2>5. /\ \A i \in 0 .. cur_size - 2 :
             /\ i \in DOMAIN timer_array /\ timer_array[i] \in allocated
             /\ timer_array[i] # mine[t]
             /\ pc[o] = "add" => timer_array[i] # mine[o]
        /\ \A i, j \in 0 .. cur_size - 2 : i # j => timer_array[i] # timer_array[j]
        /\ mine[t] \in allocated
        /\ pc[o] = "add" => mine[o] \in allocated /\ mine[t] # mine[o]
    BY <1>2, <2>1 DEF View
  <2>6. \A i \in 0 .. cur_size - 1 : i = cur_size - 1 \/ i \in 0 .. cur_size - 2
    BY <1>3
  <2>7. /\ \A i \in 0 .. cur_size - 1 :
             /\ i \in DOMAIN timer_array' /\ timer_array'[i] \in allocated
             /\ pc[o] = "add" => timer_array'[i] # mine[o]
        /\ \A i, j \in 0 .. cur_size - 1 :
             i # j => timer_array'[i] # timer_array'[j]
    BY <2>1, <2>2, <2>4, <2>5, <2>6
  <2>8. /\ mine'[o] = mine[o] /\ pc'[o] = pc[o]
        /\ pc'[t] = IF t = "socket" THEN "idle" ELSE "pop"
    BY <1>2, <1>3, <2>3
  <2>9. AddKnows(t)'
    BY <2>8 DEF AddKnows
  <2>10. TickKnows'
    <3>1. /\ t = "timer" \/ (t = "socket" /\ o = "timer")
          /\ pc[o] \in Betweens
      BY <1>2, <1>3, ThreadsTwo DEF View
    <3>2. cur_size > 0 /\ hole[t] \in Nat
      BY <1>3, <2>1
    <3> QED BY <2>3, <2>8, <3>1, <3>2 DEF TickKnows, Adding, Betweens
  <2>11. PICK q \in {"idle", "pop"} : q = pc'[t]
    BY <2>8
  <2>12. View(t, o, q)'
    BY <1>2, <2>1, <2>2, <2>3, <2>4, <2>7, <2>8, <2>9, <2>10, <2>11
       DEF View, Running
  <2> QED BY <2>12
<1> QED BY <1>5, <1>6, <1>7, <1>8, <1>9, <1>10, <1>11, <1>12, <1>13 DEF Add

(* So does every step of the timer thread outside timer_heap_add. *)
LEMMA TimerCalm ==
  ASSUME TypeOK, Undisturbed, Timer, ~ Add("timer"), ~ UNCHANGED vars,
         ~ overlapped'
  PROVE  Calm'
<1>1. Overlap("timer") /\ pc["timer"] \in Places \ Adds
  BY DEF Timer, Top, TickRead, TickTest, TickCall, Pop, PopDec, PopDecWrite,
         PopRoot, PopPercolate, PopSift, PopPlace, OutOf, UseOf, Adds, Places
<1> PICK t, o \in Threads : t = "timer" /\ o = "socket" /\ o = Other(t)
  BY ThreadsTwo, OtherFacts
<1>2. View(t, o, pc[t]) /\ o # t /\ pc[o] # "switch"
  BY <1>1, StepView
<1>3. /\ cur_size \in Nat /\ capacity \in Nat /\ hole[t] \in Nat
      /\ pc \in [Threads -> Places]
      /\ hole \in [Threads -> Nat] /\ mine \in [Threads -> Pointers]
      /\ allocated \subseteq Timers /\ NULL \notin Timers
  BY TimersAssumption DEF TypeOK, Places
<1>4. SUFFICES \E q \in Places : View(t, o, q)'
  BY ViewShows
<1> USE DEF SlotsFor, Pops, Adds, Places
<1>5. ASSUME pc[t] \in {"tick", "test", "call", "pop", "top", "percolate",
                       "sift", "place"}
      PROVE  /\ DOMAIN timer_array = 0 .. capacity - 1 /\ capacity > 0
             /\ 0 \in DOMAIN timer_array
             /\ \A i \in 0 .. cur_size - 1 : /\ i \in DOMAIN timer_array
                                             /\ timer_array[i] \in allocated
             /\ cur_size > 0 => Sound(At({0}))
  BY <1>2, <1>3, <1>5 DEF View, Sound, At
<1>6. ASSUME NEW l \in {"top", "tick", "call", "pop", "test", "sift", "place"},
             pc[t] \in {"tick", "test", "call", "pop", "top", "percolate",
                       "sift", "place"},
             pc' = [pc EXCEPT ![t] = l],
             l \in {"test", "sift", "place"} => tmp' = timer_array[0],
             l \in {"call", "pop"} => cur_size > 0,
             UNCHANGED <<timer_array, cur_size, capacity, allocated, hole, mine,
                         temp, copied, status>>
      PROVE  View(t, o, l)'
  <2>1. pc'[t] = l /\ pc'[o] = pc[o]
    BY <1>2, <1>3, <1>6
  <2>2. AddKnows(t)' /\ TickKnows'
    BY <1>6, <2>1 DEF AddKnows, TickKnows, Adding
  <2>3. SlotsFor(l, cur_size') = SlotsFor(pc[t], cur_size)
    BY <1>6
  <2> HIDE DEF SlotsFor
  <2> QED BY <1>2, <1>6, <2>1, <2>2, <2>3 DEF View, Running
<1>7. CASE Top
  <2>1. pc[t] = "top" /\ cur_size > 0
    BY <1>7 DEF Top
  <2>2. /\ pc' = [pc EXCEPT ![t] = "tick"]
        /\ UNCHANGED <<timer_array, cur_size, capacity, allocated, hole, mine,
                       temp, copied, status>>
    BY <1>2, <1>5, <1>7, <2>1 DEF Top, OutOf, UseOf, Inside, Goto, heap, resize
  <2> QED BY <1>6, <2>1, <2>2
<1>8. CASE TickRead
  <2>1. pc[t] = "tick"
    BY <1>8 DEF TickRead
  <2>2. /\ pc' = [pc EXCEPT ![t] = "test"] /\ tmp' = timer_array[0]
        /\ UNCHANGED <<timer_array, cur_size, capacity, allocated, hole, mine,
                       temp, copied, status>>
    BY <1>2, <1>5, <1>8, <2>1 DEF TickRead, OutOf, Inside, Goto, heap, resize
  <2> QED BY <1>6, <2>1, <2>2
<1>9. CASE TickTest
  <2>1. pc[t] = "test" /\ (cur_size > 0 => tmp \in allocated)
    BY <1>2, <1>5, <1>9 DEF TickTest, View, TickKnows, Sound, At
  <2>2. PICK l \in {"call", "top"} :
          /\ pc' = [pc EXCEPT ![t] = l] /\ (l = "call" => cur_size > 0)
          /\ UNCHANGED <<timer_array, cur_size, capacity, allocated, hole, mine,
                         temp, copied, status>>
    BY <1>9, <2>1 DEF TickTest, UseOf, Sound, Goto, heap, resize
  <2> QED BY <1>6, <2>1, <2>2
<1>10. CASE TickCall
  <2>1. pc[t] = "call" /\ cur_size > 0
    BY <1>2, <1>10 DEF TickCall, View, TickKnows
  <2>2. CASE alive
    <3>1. /\ pc' = [pc EXCEPT ![t] = "pop"]
          /\ UNCHANGED <<timer_array, cur_size, capacity, allocated, hole, mine,
                         temp, copied, status>>
      BY <1>2, <1>5, <1>10, <2>1, <2>2
         DEF TickCall, OutOf, UseOf, Inside, Goto, heap, resize
    <3> QED BY <1>6, <2>1, <3>1
  <2>3. CASE ~ alive
    <3>1. PICK n \in Timers \ allocated :
            /\ allocated' = allocated \union {n}
            /\ mine' = [mine EXCEPT ![t] = n]
            /\ pc' = [pc EXCEPT ![t] = "add"]
            /\ UNCHANGED <<timer_array, cur_size, capacity, hole, temp, copied,
                           tmp, status>>
      BY <1>2, <1>5, <1>10, <2>1, <2>3
         DEF TickCall, OutOf, UseOf, Inside, Goto, heap, resize
    <3>2. /\ pc'[t] = "add" /\ pc'[o] = pc[o] /\ mine'[t] = n /\ mine'[o] = mine[o]
      BY <1>2, <1>3, <3>1
    <3>3. AddKnows(t)' /\ TickKnows'
      BY <2>1, <3>1, <3>2 DEF AddKnows, TickKnows
    <3>4. View(t, o, "add")'
      BY <1>2, <2>1, <3>1, <3>2, <3>3 DEF View, Running
    <3> QED BY <3>4
  <2> QED BY <2>2, <2>3
<1>11. CASE Pop
  <2>1. pc[t] = "pop" /\ cur_size > 0
    BY <1>2, <1>11 DEF Pop, View, TickKnows
  <2>2. timer_array[0] \in allocated /\ timer_array[0] # NULL
    BY <1>3, <1>5, <2>1 DEF Sound, At
  <2>3. /\ allocated' = allocated \ {timer_array[0]}
        /\ pc' = [pc EXCEPT ![t] = "dec"]
        /\ UNCHANGED <<timer_array, cur_size, capacity, hole, mine, temp,
                       copied, tmp, status>>
    BY <1>2, <1>3, <1>5, <1>11, <2>1, <2>2
       DEF Pop, OutOf, UseOf, Sound, Inside, Goto, heap, resize
  <2>4. pc'[t] = "dec" /\ pc'[o] = pc[o]
    BY <1>2, <1>3, <2>3
  <2>5. AddKnows(t)' /\ TickKnows'
    BY <2>1, <2>3, <2>4 DEF AddKnows, TickKnows, Adding
  <2>6. \A i \in 1 .. cur_size - 1 : timer_array[i] # timer_array[0]
    BY <1>2, <1>3, <2>1 DEF View
  <2>7. pc[o] = "add" => timer_array[0] # mine[o]
    BY <1>2, <1>3, <2>1 DEF View
  <2>8. View(t, o, "dec")'
    BY <1>2, <1>3, <2>1, <2>3, <2>4, <2>5, <2>6, <2>7 DEF View, Running
  <2> QED BY <2>8
<1>12. CASE PopDec
  <2>1. /\ pc[t] = "dec"
        /\ pc' = [pc EXCEPT ![t] = "dec_write"]
        /\ hole' = [hole EXCEPT ![t] = cur_size - 1]
        /\ UNCHANGED <<timer_array, cur_size, capacity, allocated, mine, temp,
                       copied, tmp, status>>
    BY <1>12 DEF PopDec, Goto, heap, resize
  <2>2. pc'[t] = "dec_write" /\ pc'[o] = pc[o] /\ hole'[t] = cur_size - 1
    BY <1>2, <1>3, <2>1
  <2>3. AddKnows(t)' /\ TickKnows'
    BY <1>2, <2>1, <2>2 DEF View, AddKnows, TickKnows, Adding
  <2>4. View(t, o, "dec_write")'
    BY <1>2, <2>1, <2>2, <2>3 DEF View, Running
  <2> QED BY <2>4
<1>13. CASE PopDecWrite
  <2>1. /\ pc[t] = "dec_write" /\ cur_size' = hole[t]
        /\ pc' = [pc EXCEPT ![t] = "root"]
        /\ UNCHANGED <<timer_array, capacity, allocated, hole, mine, temp,
                       copied, tmp, status>>
    BY <1>13 DEF PopDecWrite, Goto, resize
  <2>2. pc'[t] = "root" /\ pc'[o] = pc[o] /\ cur_size' = cur_size - 1
        /\ cur_size > 0 /\ cur_size <= capacity
    BY <1>2, <1>3, <2>1 DEF View, TickKnows
  <2>3. AddKnows(t)' /\ TickKnows'
    BY <1>3, <2>1, <2>2 DEF AddKnows, TickKnows, Adding
  <2>4. View(t, o, "root")'
    BY <1>2, <1>3, <2>1, <2>2, <2>3 DEF View, Running
  <2> QED BY <2>4
<1>14. CASE PopRoot
  <2>1. pc[t] = "root" /\ hole[t] = cur_size /\ cur_size < capacity
    BY <1>2, <1>14 DEF PopRoot, View, TickKnows
  <2>2. /\ DOMAIN timer_array = 0 .. capacity - 1 /\ capacity > 0
        /\ Inside({0, hole[t]})
    BY <1>2, <1>3, <2>1 DEF View, Inside
  <2>3. /\ timer_array' = [timer_array EXCEPT ![0] = timer_array[cur_size]]
        /\ pc' = [pc EXCEPT ![t] = "percolate"]
        /\ UNCHANGED <<cur_size, capacity, allocated, mine, temp, copied, tmp,
                       status>>
    BY <1>2, <1>14, <2>1, <2>2 DEF PopRoot, OutOf, Goto, resize
  <2>4. /\ pc'[t] = "percolate" /\ pc'[o] = pc[o]
        /\ timer_array'[0] = timer_array[cur_size]
        /\ \A i \in 1 .. cur_size - 1 : timer_array'[i] = timer_array[i]
        /\ DOMAIN timer_array' = DOMAIN timer_array
    BY <1>2, <1>3, <2>1, <2>2, <2>3
  <2>5. PICK from : from = [i \in 0 .. cur_size - 1 |-> IF i = 0 THEN cur_size ELSE i]
    OBVIOUS
  <2>6. /\ \A i \in 1 .. cur_size :
             /\ i \in DOMAIN timer_array /\ timer_array[i] \in allocated
             /\ pc[o] = "add" => timer_array[i] # mine[o]
        /\ \A i, j \in 1 .. cur_size : i # j => timer_array[i] # timer_array[j]
    BY <1>2, <2>1 DEF View
  <2>7. /\ \A i \in 0 .. cur_size - 1 :
             /\ i \in DOMAIN timer_array' /\ timer_array'[i] \in allocated
             /\ pc[o] = "add" => timer_array'[i] # mine[o]
        /\ \A i, j \in 0 .. cur_size - 1 :
             i # j => timer_array'[i] # timer_array'[j]
    <3>1. \A i \in 0 .. cur_size - 1 : /\ from[i] \in 1 .. cur_size
                                       /\ timer_array'[i] = timer_array[from[i]]
                                       /\ i \in DOMAIN timer_array
      BY <1>3, <2>1, <2>2, <2>4, <2>5
    <3>2. \A i, j \in 0 .. cur_size - 1 : i # j => from[i] # from[j]
      BY <1>3, <2>5
    <3> QED BY <2>4, <2>6, <3>1, <3>2
  <2>8. AddKnows(t)' /\ TickKnows'
    BY <2>4 DEF AddKnows, TickKnows, Adding
  <2>9. View(t, o, "percolate")'
    BY <1>2, <1>3, <2>1, <2>2, <2>3, <2>4, <2>7, <2>8 DEF View, Running
  <2> QED BY <2>9
<1>15. CASE PopPercolate
  <2>1. pc[t] = "percolate"
    BY <1>15 DEF PopPercolate
  <2>2. PICK l \in {"tick", "sift"} :
          /\ pc' = [pc EXCEPT ![t] = l]
          /\ l = "sift" => tmp' = timer_array[0]
          /\ UNCHANGED <<timer_array, cur_size, capacity, allocated, hole, mine,
                         temp, copied, status>>
    BY <1>2, <1>5, <1>15, <2>1
       DEF PopPercolate, OutOf, Inside, Goto, heap, resize
  <2> QED BY <1>6, <2>1, <2>2
<1>16. CASE PopSift
  <2>1. pc[t] = "sift" /\ tmp = timer_array[0]
    BY <1>2, <1>16 DEF PopSift, View, TickKnows
  <2>2. PICK children : children = {i \in 1 .. 2 : i < cur_size}
    OBVIOUS
  <2>3. \A i \in children : i \in 0 .. cur_size - 1 /\ cur_size > 0
    BY <1>3, <2>2
  <2>4. /\ Inside(children) /\ Sound(At(children))
        /\ children # {} => tmp \in allocated
    BY <1>3, <1>5, <2>1, <2>3 DEF Inside, Sound, At
  <2>5. PICK compared : compared = IF children = {} THEN {}
                                   ELSE At(children) \union {tmp}
    OBVIOUS
  <2>6. Sound(compared)
    BY <2>4, <2>5 DEF Sound
  <2>7. /\ pc' = [pc EXCEPT ![t] = "place"]
        /\ UNCHANGED <<timer_array, cur_size, capacity, allocated, hole, mine,
                       temp, copied, tmp, status>>
    BY <1>2, <1>16, <2>2, <2>4, <2>5, <2>6
       DEF PopSift, OutOf, UseOf, Goto, heap, resize
  <2> QED BY <1>6, <2>1, <2>7
<1>17. CASE PopPlace
  <2>1. pc[t] = "place" /\ tmp = timer_array[0]
    BY <1>2, <1>17 DEF PopPlace, View, TickKnows
  <2>2. /\ pc' = [pc EXCEPT ![t] = "tick"]
        /\ timer_array' = [timer_array EXCEPT ![0] = timer_array[0]]
        /\ UNCHANGED <<cur_size, capacity, allocated, hole, mine, temp, copied,
                       status>>
    BY <1>2, <1>5, <1>17, <2>1 DEF PopPlace, OutOf, Inside, Goto, resize
  <2>3. /\ pc'[t] = "tick" /\ pc'[o] = pc[o]
        /\ DOMAIN timer_array' = DOMAIN timer_array
        /\ \A i \in DOMAIN timer_array : timer_array'[i] = timer_array[i]
    BY <1>2, <1>3, <2>2
  <2>4. AddKnows(t)' /\ TickKnows'
    BY <2>3 DEF AddKnows, TickKnows, Adding
  <2>5. View(t, o, "tick")'
    BY <1>2, <2>1, <2>2, <2>3, <2>4 DEF View, Running
  <2> QED BY <2>5
<1> QED BY <1>7, <1>8, <1>9, <1>10, <1>11, <1>12, <1>13, <1>14, <1>15, <1>16,
           <1>17 DEF Timer

(* Arming a timer, the answer and a step that changes nothing leave what the
   other operations know as it is. *)
LEMMA OtherCalm ==
  ASSUME TypeOK, Undisturbed, Arm \/ Answer \/ UNCHANGED vars, ~ overlapped'
  PROVE  Calm'
<1> USE ThreadsTwo
<1>1. Calm
  BY DEF Undisturbed, Arm, Answer, vars
<1>2. CASE Answer \/ UNCHANGED vars
  <2>1. UNCHANGED <<timer_array, cur_size, capacity, allocated, pc, hole, mine,
                    temp, copied, tmp, status>>
    BY <1>2 DEF Answer, vars, heap, resize
  <2>2. SlotsSound' /\ ArrayFits'
    BY <1>1, <2>1 DEF Calm, SlotsSound, ArrayFits, Slots, Popping, Adding
  <2>3. TickKnows' /\ \A t \in Threads : AddKnows(t)'
    BY <1>1, <2>1 DEF Calm, TickKnows, AddKnows, Adding
  <2> QED BY <1>1, <2>1, <2>2, <2>3 DEF Calm, Running, Between
<1>3. CASE Arm
  <2>1. PICK t, o \in Threads : t = "timer" /\ o = "socket" /\ o = Other(t)
    BY OtherFacts
  <2>2. PICK n \in Timers \ allocated :
          /\ pc[o] = "idle" /\ pc' = [pc EXCEPT ![o] = "add"]
          /\ allocated' = allocated \union {n}
          /\ mine' = [mine EXCEPT ![o] = n]
          /\ UNCHANGED <<timer_array, cur_size, capacity, hole, temp, copied,
                         tmp, status>>
    BY <1>3, <2>1 DEF Arm, Goto, heap, resize
  <2>3. View(t, o, pc[t]) /\ o # t
    BY <1>1, <2>1, <2>2, ViewOf DEF Between
  <2>4. /\ pc'[t] = pc[t] /\ pc'[o] = "add" /\ mine'[t] = mine[t] /\ mine'[o] = n
    BY <2>2, <2>3 DEF TypeOK
  <2>5. AddKnows(t)' /\ TickKnows'
    BY <2>1, <2>2, <2>3, <2>4 DEF View, AddKnows, TickKnows, Adding
  <2>6. View(t, o, pc[t])'
    <3> DEFINE q == pc[t]
    <3>1. View(t, o, q)
      BY <2>3
    <3>2. pc'[t] = q
      BY <2>4
    <3> HIDE DEF q
    <3>3. SlotsFor(q, cur_size') = SlotsFor(q, cur_size)
      BY <2>2
    <3>4. /\ Running' /\ pc'[t] = q /\ pc'[o] \in Betweens
          /\ \A i \in SlotsFor(q, cur_size') :
               /\ i \in DOMAIN timer_array' /\ timer_array'[i] \in allocated'
               /\ q \in Adds => timer_array'[i] # mine'[t]
               /\ pc'[o] = "add" => timer_array'[i] # mine'[o]
      BY <2>2, <2>4, <3>1, <3>2, <3>3 DEF View, Running, Betweens
    <3> QED BY <2>2, <2>4, <2>5, <3>1, <3>2, <3>3, <3>4 DEF View
  <2> QED BY <2>1, <2>6, ViewShows
<1> QED BY <1>2, <1>3

LEMMA UndisturbedStep ==
  ASSUME TypeOK, Undisturbed, [Next]_vars
  PROVE  Undisturbed'
<1> SUFFICES ASSUME ~ overlapped' PROVE Calm'
  BY DEF Undisturbed
<1>1. CASE Arm \/ Answer \/ UNCHANGED vars
  BY <1>1, OtherCalm
<1>2. CASE Add("socket")
  BY <1>2, AddCalm, ThreadsTwo
<1>3. CASE Add("timer")
  BY <1>3, AddCalm, ThreadsTwo
<1>4. CASE Timer /\ ~ Add("timer") /\ ~ UNCHANGED vars
  BY <1>4, TimerCalm
<1> QED BY <1>1, <1>2, <1>3, <1>4 DEF Next, Ended

-----------------------------------------------------------------------------
(* The invariant holds whatever the interleaving: what each thread knows of
   the size while the smart controller is silent and, as long as no two
   operations have overlapped, that each finds the heap as it left it. *)
THEOREM RaceInvariant == Spec => []IInv
<1>1. Init => IInv
  <2> SUFFICES ASSUME Init PROVE IInv
    OBVIOUS
  <2>1. /\ \A i \in DOMAIN timer_array : timer_array[i] \in Pointers
        /\ cur_size \in Nat /\ capacity \in Nat /\ arms \in 0 .. MaxArms
    BY CapacityAssumption DEF Init, Pointers
  <2>2. /\ pc \in [Threads -> Places]
        /\ pc["timer"] = "top" /\ pc["socket"] = "idle"
        /\ hole \in [Threads -> Nat] /\ copied \in [Threads -> Nat]
        /\ mine \in [Threads -> Pointers] /\ tmp \in Pointers
    BY DEF Init, Threads, Places, Pointers
  <2>3. /\ DOMAIN temp = Threads
        /\ \A t \in Threads : \A i \in DOMAIN temp[t] : temp[t][i] \in Pointers
    <3>1. temp = [t \in Threads |-> <<>>] /\ DOMAIN <<>> = {}
      BY DEF Init
    <3> QED BY <3>1
  <2>4. /\ allocated \subseteq Timers
        /\ alive \in BOOLEAN /\ overlapped \in BOOLEAN
        /\ status \in {"running", "crashed", "undefined"}
    BY DEF Init
  <2>5. TypeOK
    BY <2>1, <2>2, <2>3, <2>4 DEF TypeOK, Places
  <2>6. SizeKnown /\ PopCounted
    <3>1. cur_size = 0
      BY DEF Init
    <3> QED BY <2>2, <3>1 DEF SizeKnown, PopCounted
  <2>7. Undisturbed
    <3>1. \A t \in Threads : pc[t] \in {"idle", "top"}
      BY <2>2, ThreadsTwo
    <3>2. Slots = {}
      BY <2>2, <3>1 DEF Init, Slots, Popping
    <3>3. SlotsSound
      BY <3>1, <3>2, ThreadsTwo DEF SlotsSound, Adding
    <3>4. ArrayFits
      BY <3>1, CapacityAssumption DEF Init, ArrayFits
    <3>5. TickKnows /\ \A t \in Threads : AddKnows(t)
      BY <3>1, ThreadsTwo DEF TickKnows, AddKnows, Adding
    <3> QED BY <2>2, <3>3, <3>4, <3>5 DEF Init, Undisturbed, Calm, Running,
                                            Between
  <2> QED BY <2>5, <2>6, <2>7 DEF IInv
<1>2. IInv /\ [Next]_vars => IInv'
  <2> SUFFICES ASSUME IInv, [Next]_vars PROVE IInv'
    OBVIOUS
  <2>1. BaseInv /\ Undisturbed
    BY DEF IInv, BaseInv
  <2>2. BaseInv'
    <3>1. CASE UNCHANGED vars
      BY <2>1, <3>1 DEF BaseInv, TypeOK, SizeKnown, PopCounted, vars, heap,
                        resize
    <3> QED BY <2>1, <3>1, RaceStep
  <2>3. Undisturbed'
    BY <2>1, UndisturbedStep DEF BaseInv
  <2> QED BY <2>2, <2>3 DEF IInv, BaseInv
<1> QED BY <1>1, <1>2, PTL DEF Spec

(* The heap that has a timer keeps one until the smart controller answers,
   for every interleaving of the accesses the two threads make without a
   lock. *)
THEOREM RetriesKept == Spec => SizeKept
<1>1. IInv /\ [Next]_vars => [cur_size > 0 /\ ~ alive' => cur_size' > 0]_vars
  BY RaceStep DEF Keeps, IInv, BaseInv
<1> QED BY <1>1, RaceInvariant, PTL DEF Spec, SizeKept

(* Without two operations that overlap the process neither crashes nor uses
   memory it has freed, and between operations every slot of the heap holds an
   allocated timer of its own. *)
THEOREM SoundUnlessOverlapped == Spec => []UnlessOverlapped
<1>1. IInv => UnlessOverlapped
  <2> SUFFICES ASSUME IInv, ~ overlapped PROVE Running /\ (Quiet => HeapSound)
    BY DEF UnlessOverlapped
  <2>1. Calm
    BY DEF IInv, Undisturbed
  <2>2. ASSUME Quiet PROVE HeapSound
    <3>1. \A t \in Threads : pc[t] \in Betweens
      BY <2>2, ThreadsTwo DEF Quiet, Between, Betweens
    <3>2. Slots = 0 .. cur_size - 1
      BY <3>1, ThreadsTwo DEF Slots, Popping, Betweens
    <3> QED BY <2>1, <3>2 DEF Calm, SlotsSound, HeapSound
  <2> QED BY <2>1, <2>2 DEF Calm
<1> QED BY <1>1, RaceInvariant, PTL
=============================================================================

------------------------ MODULE CircularQueueProofs ------------------------
(***************************************************************************)
(* For every ring of at least two slots, any set of threads and any set of *)
(* packets: the invariant IInv of CircularQueue is inductive, and under it   *)
(* every step of the ring is a step of the atomic FIFO or a stutter.       *)
(***************************************************************************)
EXTENDS CircularQueue, TLAPS

USE SizeAssumption, PointerAssumption

-----------------------------------------------------------------------------
(* Index arithmetic modulo the size of the ring. *)

(* Below twice the size, the remainder is at most one subtraction away. *)
LEMMA Wrap ==
  \A x \in 0 .. 2 * MAX_QUEUE_SIZE - 1 :
    x % MAX_QUEUE_SIZE =
      IF x < MAX_QUEUE_SIZE THEN x ELSE x - MAX_QUEUE_SIZE
<1> DEFINE N == MAX_QUEUE_SIZE
<1>1. ASSUME NEW x \in 0 .. N - 1 PROVE x % N = x
  BY SMT
<1>2. ASSUME NEW x \in 0 .. N - 1 PROVE (x + N) % N = x
  BY SMT
<1> QED BY <1>1, <1>2

(* advance goes to the next slot, and from the last one to the first. *)
LEMMA AdvanceSlot ==
  ASSUME NEW a \in Slots
  PROVE  /\ advance(a) \in Slots
         /\ advance(a) = IF a = MAX_QUEUE_SIZE - 1 THEN 0 ELSE a + 1
BY Wrap DEF advance, Slots

(* Different slots have different successors. *)
LEMMA AdvanceInjective ==
  ASSUME NEW a \in Slots, NEW b \in Slots, advance(a) = advance(b)
  PROVE  a = b
BY AdvanceSlot DEF Slots

(* The distance from front to rear, without the remainder operator. *)
LEMMA Distance ==
  ASSUME NEW f \in Slots, NEW r \in Slots
  PROVE  (r - f + MAX_QUEUE_SIZE) % MAX_QUEUE_SIZE =
           IF f <= r THEN r - f ELSE r - f + MAX_QUEUE_SIZE
BY Wrap DEF Slots

(* The slot at distance i from f, without the remainder operator. *)
LEMMA SlotAt ==
  ASSUME NEW f \in Slots, NEW i \in Slots
  PROVE  /\ (f + i) % MAX_QUEUE_SIZE \in Slots
         /\ (f + i) % MAX_QUEUE_SIZE =
              IF f + i < MAX_QUEUE_SIZE THEN f + i ELSE f + i - MAX_QUEUE_SIZE
BY Wrap DEF Slots

(* The number of packets never exceeds the number of slots. *)
LEMMA SizeBounds ==
  ASSUME TypeOK
  PROVE  Size \in 0 .. MAX_QUEUE_SIZE
BY Distance DEF TypeOK, Slots, Size, get_queue_size

-----------------------------------------------------------------------------
(* Every step keeps the fields in range. *)
LEMMA TypeStep ==
  ASSUME TypeOK, HandAgrees, Next
  PROVE  TypeOK'
<1> USE DEF TypeOK, Labels, Goto, Return
<1> SUFFICES ASSUME NEW t \in Threads,
                    \/ \E d \in Data : LockAndStore(t, d)
                    \/ LockAndRetrieve(t)
                    \/ EnqueueFull(t) \/ EnqueueSlot(t)
                    \/ EnqueueRear(t) \/ EnqueueTag(t)
                    \/ DequeueEmpty(t) \/ DequeueSlot(t)
                    \/ DequeueFront(t) \/ DequeueTag(t)
                    \/ Unlock(t)
             PROVE  TypeOK'
  BY DEF Next
<1>1. ASSUME NEW d \in Data, LockAndStore(t, d) PROVE TypeOK'
  BY <1>1 DEF LockAndStore
<1>2. CASE LockAndRetrieve(t)
  BY <1>2 DEF LockAndRetrieve
<1>3. CASE EnqueueFull(t)
  BY <1>3 DEF EnqueueFull
<1>4. CASE EnqueueSlot(t)
  BY <1>4 DEF EnqueueSlot
<1>5. CASE EnqueueRear(t)
  BY <1>5, AdvanceSlot DEF EnqueueRear
<1>6. CASE EnqueueTag(t)
  BY <1>6 DEF EnqueueTag, TagAfterEnqueue,
              QUEUE_EMPTY, QUEUE_HAS_ELEMENT, QUEUE_FULL
<1>7. CASE DequeueEmpty(t)
  BY <1>7 DEF DequeueEmpty
<1>8. CASE DequeueSlot(t)
  BY <1>8 DEF DequeueSlot
<1>9. CASE DequeueFront(t)
  BY <1>9, AdvanceSlot DEF DequeueFront
<1>10. CASE DequeueTag(t)
  BY <1>10 DEF DequeueTag, TagAfterDequeue,
               QUEUE_EMPTY, QUEUE_HAS_ELEMENT, QUEUE_FULL
<1>11. CASE Unlock(t)
  BY <1>11 DEF Unlock
<1> QED BY <1>1, <1>2, <1>3, <1>4, <1>5, <1>6, <1>7, <1>8, <1>9, <1>10, <1>11

(* Every step keeps the mutex with the thread inside the queue. *)
LEMMA MutexStep ==
  ASSUME TypeOK, MutexHeld, Next
  PROVE  MutexHeld'
<1> USE DEF TypeOK, MutexHeld, Goto
<1> QED BY DEF Next, LockAndStore, LockAndRetrieve, EnqueueFull, EnqueueSlot,
               EnqueueRear, EnqueueTag, DequeueEmpty, DequeueSlot,
               DequeueFront, DequeueTag, Unlock

-----------------------------------------------------------------------------
(* What one thread inside the queue knows of the others: nobody else is at a
   statement of the queue.  Stated for any pc and mutex, so that it can be
   used before and after a step. *)
LEMMA OnlyOwner ==
  ASSUME NEW label, NEW owner, NEW t \in Threads, owner = t,
         \A u \in Threads : label[u] # "idle" <=> owner = u,
         NEW l, l # "idle"
  PROVE  (\E u \in Threads : label[u] = l) <=> label[t] = l
OBVIOUS

(* Every step keeps the tag telling the two meanings of front = rear apart. *)
LEMMA TagStep ==
  ASSUME TypeOK, MutexHeld, TagAgrees, Next, TypeOK', MutexHeld'
  PROVE  TagAgrees'
<1> USE DEF Goto
<1> USE DEF QUEUE_EMPTY, QUEUE_HAS_ELEMENT, QUEUE_FULL
<1>a. ASSUME NEW t \in Threads, qmutex = t, NEW l, l # "idle"
      PROVE  Updating(l) <=> pc[t] = l
  BY <1>a, OnlyOwner DEF MutexHeld, Updating
<1>b. ASSUME NEW t \in Threads, qmutex' = t, NEW l, l # "idle"
      PROVE  Updating(l)' <=> pc'[t] = l
  BY <1>b, OnlyOwner DEF MutexHeld, Updating
<1>c. ASSUME qmutex = NULL, NEW l, l # "idle" PROVE ~ Updating(l)
  BY <1>c DEF MutexHeld, Updating
<1>d. ASSUME qmutex' = NULL, NEW l, l # "idle" PROVE ~ Updating(l)'
  BY <1>d DEF MutexHeld, Updating
<1>e. PICK t \in Threads :
         \/ \E d \in Data : LockAndStore(t, d)
         \/ LockAndRetrieve(t)
         \/ EnqueueFull(t) \/ EnqueueSlot(t)
         \/ EnqueueRear(t) \/ EnqueueTag(t)
         \/ DequeueEmpty(t) \/ DequeueSlot(t)
         \/ DequeueFront(t) \/ DequeueTag(t)
         \/ Unlock(t)
  BY DEF Next
<1>1. CASE (\E d \in Data : LockAndStore(t, d)) \/ LockAndRetrieve(t)
  BY <1>1, <1>b, <1>c DEF LockAndStore, LockAndRetrieve, TagAgrees, TypeOK
<1>2. CASE EnqueueFull(t) \/ DequeueEmpty(t)
  BY <1>2, <1>a, <1>b
     DEF EnqueueFull, DequeueEmpty, TagAgrees, TypeOK, MutexHeld
<1>3. CASE EnqueueSlot(t)
  BY <1>3, <1>a, <1>b
     DEF EnqueueSlot, is_queue_full, TagAgrees, TypeOK, MutexHeld
<1>4. CASE EnqueueRear(t)
  <2>1. rear' = advance(rear) /\ UNCHANGED <<front, tag>> /\ tag # QUEUE_FULL
    BY <1>4, <1>a DEF EnqueueRear, TagAgrees, MutexHeld
  <2>2. front # rear <=> tag = QUEUE_HAS_ELEMENT
    BY <1>4, <1>a DEF EnqueueRear, TagAgrees, MutexHeld
  <2>3. advance(rear) = advance(front) => rear = front
    BY AdvanceInjective DEF TypeOK
  <2>4. \A l : l # "idle" => (Updating(l)' <=> l = "enq_tag")
    BY <1>4, <1>b DEF EnqueueRear, TypeOK, MutexHeld
  <2>5. tag = QUEUE_EMPTY \/ tag = QUEUE_HAS_ELEMENT
    BY <2>1 DEF TypeOK
  <2>6. advance(front)' = advance(front)
    BY <2>1 DEF advance
  <2> QED BY <2>1, <2>2, <2>3, <2>4, <2>5, <2>6 DEF TagAgrees
<1>5. CASE EnqueueTag(t)
  <2>1. \/ tag = QUEUE_EMPTY /\ rear = advance(front)
        \/ tag = QUEUE_HAS_ELEMENT /\ rear # advance(front)
    BY <1>5, <1>a DEF EnqueueTag, TagAgrees, MutexHeld
  <2>2. advance(front) # front
    BY AdvanceSlot DEF TypeOK, Slots
  <2>3. \A l : l # "idle" => (Updating(l)' <=> l = "unlock")
    BY <1>5, <1>b DEF EnqueueTag, TypeOK, MutexHeld
  <2>4. tag' = TagAfterEnqueue /\ UNCHANGED <<front, rear>>
    BY <1>5 DEF EnqueueTag
  <2> QED BY <2>1, <2>2, <2>3, <2>4 DEF TagAgrees, TagAfterEnqueue
<1>6. CASE DequeueSlot(t)
  BY <1>6, <1>a, <1>b
     DEF DequeueSlot, is_queue_empty, TagAgrees, TypeOK, MutexHeld
<1>7. CASE DequeueFront(t)
  <2>1. front' = advance(front) /\ UNCHANGED <<rear, tag>> /\ tag # QUEUE_EMPTY
    BY <1>7, <1>a DEF DequeueFront, TagAgrees, MutexHeld
  <2>2. front # rear <=> tag = QUEUE_HAS_ELEMENT
    BY <1>7, <1>a DEF DequeueFront, TagAgrees, MutexHeld
  <2>3. advance(front) = advance(rear) => front = rear
    BY AdvanceInjective DEF TypeOK
  <2>4. \A l : l # "idle" => (Updating(l)' <=> l = "deq_tag")
    BY <1>7, <1>b DEF DequeueFront, TypeOK, MutexHeld
  <2>5. tag = QUEUE_FULL \/ tag = QUEUE_HAS_ELEMENT
    BY <2>1 DEF TypeOK
  <2>6. advance(rear)' = advance(rear)
    BY <2>1 DEF advance
  <2> QED BY <2>1, <2>2, <2>3, <2>4, <2>5, <2>6 DEF TagAgrees
<1>8. CASE DequeueTag(t)
  <2>1. \/ tag = QUEUE_FULL /\ front = advance(rear)
        \/ tag = QUEUE_HAS_ELEMENT /\ front # advance(rear)
    BY <1>8, <1>a DEF DequeueTag, TagAgrees, MutexHeld
  <2>2. advance(rear) # rear
    BY AdvanceSlot DEF TypeOK, Slots
  <2>3. \A l : l # "idle" => (Updating(l)' <=> l = "unlock")
    BY <1>8, <1>b DEF DequeueTag, TypeOK, MutexHeld
  <2>4. tag' = TagAfterDequeue /\ UNCHANGED <<front, rear>>
    BY <1>8 DEF DequeueTag
  <2> QED BY <2>1, <2>2, <2>3, <2>4 DEF TagAgrees, TagAfterDequeue
<1>9. CASE Unlock(t)
  BY <1>9, <1>a, <1>d DEF Unlock, TagAgrees, MutexHeld
<1> QED BY <1>e, <1>1, <1>2, <1>3, <1>4, <1>5, <1>6, <1>7, <1>8, <1>9

(* Every step keeps the packet in a thread's hand equal to the slot. *)
LEMMA HandStep ==
  ASSUME TypeOK, MutexHeld, HandAgrees, Next, MutexHeld'
  PROVE  HandAgrees'
<1> USE DEF TypeOK, MutexHeld, HandAgrees, Goto
<1> QED BY DEF Next, LockAndStore, LockAndRetrieve, EnqueueFull, EnqueueSlot,
               EnqueueRear, EnqueueTag, DequeueEmpty, DequeueSlot,
               DequeueFront, DequeueTag, Unlock

-----------------------------------------------------------------------------
(* How each step changes the number of packets and their places. *)

(* When rear advances, one packet is added at the end. *)
LEMMA StoreSize ==
  ASSUME IInv, NEW t \in Threads, EnqueueRear(t), MutexHeld'
  PROVE  /\ Size \in Slots
         /\ Position(Size) = rear
         /\ Size' = Size + 1
<1> USE DEF IInv, QUEUE_EMPTY, QUEUE_HAS_ELEMENT, QUEUE_FULL
<1>1. /\ front \in Slots /\ rear \in Slots /\ tag # QUEUE_FULL
      /\ front # rear <=> tag = QUEUE_HAS_ELEMENT
      /\ rear' = advance(rear) /\ UNCHANGED <<front, tag>>
      /\ ~ Updating("enq_tag") /\ Updating("enq_tag")'
  BY DEF EnqueueRear, Goto, TypeOK, MutexHeld, TagAgrees, Updating
<1>2. Size = IF front <= rear THEN rear - front
             ELSE rear - front + MAX_QUEUE_SIZE
  BY <1>1, Distance DEF Size, get_queue_size, is_queue_full
<1>3. Size \in Slots /\ Position(Size) = rear
  <2>1. Size \in Slots
    BY <1>1, <1>2 DEF Slots
  <2>2. Position(Size) = IF front + Size < MAX_QUEUE_SIZE THEN front + Size
                         ELSE front + Size - MAX_QUEUE_SIZE
    BY <1>1, <2>1, SlotAt DEF Position
  <2> QED BY <1>1, <1>2, <2>1, <2>2 DEF Slots
<1>4. Size' = IF front = rear' THEN MAX_QUEUE_SIZE
              ELSE IF front <= rear' THEN rear' - front
              ELSE rear' - front + MAX_QUEUE_SIZE
  <2>1. rear' \in Slots
    BY <1>1, AdvanceSlot
  <2> QED BY <1>1, <2>1, Distance DEF Size, get_queue_size, is_queue_full
<1>5. Size' = Size + 1
  BY <1>1, <1>2, <1>4, AdvanceSlot DEF Slots
<1> QED BY <1>3, <1>5

(* When front advances, the first packet goes and the others move up. *)
LEMMA RetrieveSize ==
  ASSUME IInv, NEW t \in Threads, DequeueFront(t), MutexHeld'
  PROVE  /\ Size \in 1 .. MAX_QUEUE_SIZE
         /\ Position(0) = front
         /\ Size' = Size - 1
         /\ \A i \in 0 .. Size - 2 : Position(i)' = Position(i + 1)
<1> USE DEF IInv, QUEUE_EMPTY, QUEUE_HAS_ELEMENT, QUEUE_FULL
<1>1. /\ front \in Slots /\ rear \in Slots /\ tag # QUEUE_EMPTY
      /\ front # rear <=> tag = QUEUE_HAS_ELEMENT
      /\ tag \in {QUEUE_EMPTY, QUEUE_HAS_ELEMENT, QUEUE_FULL}
      /\ front' = advance(front) /\ UNCHANGED <<rear, tag>>
      /\ ~ Updating("enq_tag") /\ ~ Updating("enq_tag")'
  BY DEF DequeueFront, Goto, TypeOK, MutexHeld, TagAgrees, Updating
<1>2. Size = IF front = rear THEN MAX_QUEUE_SIZE
             ELSE IF front <= rear THEN rear - front
             ELSE rear - front + MAX_QUEUE_SIZE
  BY <1>1, Distance DEF Size, get_queue_size, is_queue_full
<1>3. front' \in Slots
      /\ front' = IF front = MAX_QUEUE_SIZE - 1 THEN 0 ELSE front + 1
  BY <1>1, AdvanceSlot
<1>4. Size' = IF front' <= rear THEN rear - front'
              ELSE rear - front' + MAX_QUEUE_SIZE
  <2>1. ~ is_queue_full'
    BY <1>1, <1>3 DEF is_queue_full, Slots
  <2>2. (rear' - front' + MAX_QUEUE_SIZE) % MAX_QUEUE_SIZE =
          IF front' <= rear THEN rear - front'
          ELSE rear - front' + MAX_QUEUE_SIZE
    BY <1>1, <1>3, Distance
  <2> QED BY <1>1, <2>1, <2>2 DEF Size, get_queue_size
<1>5. Size \in 1 .. MAX_QUEUE_SIZE /\ Size' = Size - 1
  BY <1>1, <1>2, <1>3, <1>4 DEF Slots
<1>6. Position(0) = front
  <2>1. 0 \in Slots /\ front + 0 = front /\ front < MAX_QUEUE_SIZE
    BY <1>1 DEF Slots
  <2> QED BY <1>1, <2>1, SlotAt DEF Position
<1>7. ASSUME NEW i \in 0 .. Size - 2 PROVE Position(i)' = Position(i + 1)
  <2>1. i \in Slots /\ i + 1 \in Slots
    BY <1>5 DEF Slots
  <2>2. Position(i)' = IF front' + i < MAX_QUEUE_SIZE THEN front' + i
                       ELSE front' + i - MAX_QUEUE_SIZE
    BY <1>3, <2>1, SlotAt DEF Position
  <2>3. Position(i + 1) = IF front + (i + 1) < MAX_QUEUE_SIZE
                          THEN front + (i + 1)
                          ELSE front + (i + 1) - MAX_QUEUE_SIZE
    BY <1>1, <2>1, SlotAt DEF Position
  <2> QED BY <1>1, <1>3, <2>1, <2>2, <2>3 DEF Slots
<1> QED BY <1>5, <1>6, <1>7

(* The other steps change neither the number of packets nor their places. *)
LEMMA SameSize ==
  ASSUME IInv, MutexHeld', NEW t \in Threads,
         \/ \E d \in Data : LockAndStore(t, d)
         \/ LockAndRetrieve(t)
         \/ EnqueueFull(t) \/ EnqueueSlot(t) \/ EnqueueTag(t)
         \/ DequeueEmpty(t) \/ DequeueSlot(t) \/ DequeueTag(t)
         \/ Unlock(t)
  PROVE  /\ UNCHANGED <<front, rear>>
         /\ Size' = Size
         /\ \A i : Position(i)' = Position(i)
<1> USE DEF IInv, QUEUE_EMPTY, QUEUE_HAS_ELEMENT, QUEUE_FULL, Goto
<1>1. UNCHANGED <<front, rear>> /\ \A i : Position(i)' = Position(i)
  BY DEF LockAndStore, LockAndRetrieve, EnqueueFull, EnqueueSlot, EnqueueTag,
         DequeueEmpty, DequeueSlot, DequeueTag, Unlock, Position
<1>2. CASE EnqueueTag(t)
  <2>1. \/ tag = QUEUE_EMPTY /\ rear = advance(front)
        \/ tag = QUEUE_HAS_ELEMENT /\ rear # advance(front)
    BY <1>2 DEF EnqueueTag, TagAgrees, Updating
  <2>2. /\ Updating("enq_tag") /\ ~ Updating("enq_tag")'
        /\ tag' = TagAfterEnqueue
    BY <1>2 DEF EnqueueTag, Updating, TypeOK, MutexHeld
  <2>3. advance(front) # front
    BY AdvanceSlot DEF TypeOK, Slots
  <2>4. is_queue_full' <=> front = rear
    BY <1>1, <2>1, <2>2, <2>3 DEF TagAfterEnqueue, is_queue_full
  <2>5. ~ is_queue_full
    BY <2>1 DEF is_queue_full
  <2> QED BY <1>1, <2>2, <2>4, <2>5 DEF Size, get_queue_size
<1>3. CASE DequeueTag(t)
  <2>1. \/ tag = QUEUE_FULL /\ front = advance(rear)
        \/ tag = QUEUE_HAS_ELEMENT /\ front # advance(rear)
    BY <1>3 DEF DequeueTag, TagAgrees, Updating
  <2>2. /\ ~ Updating("enq_tag") /\ ~ Updating("enq_tag")'
        /\ tag' = TagAfterDequeue
    BY <1>3 DEF DequeueTag, Updating, TypeOK, MutexHeld
  <2>3. advance(rear) # rear
    BY AdvanceSlot DEF TypeOK, Slots
  <2>4. ~ is_queue_full /\ ~ is_queue_full'
    BY <1>1, <2>1, <2>2, <2>3 DEF TagAfterDequeue, is_queue_full
  <2> QED BY <1>1, <2>2, <2>4 DEF Size, get_queue_size
<1>4. CASE \/ \E d \in Data : LockAndStore(t, d)
           \/ LockAndRetrieve(t)
           \/ EnqueueFull(t) \/ EnqueueSlot(t)
           \/ DequeueEmpty(t) \/ DequeueSlot(t)
           \/ Unlock(t)
  <2>1. /\ tag' = tag
        /\ ~ Updating("enq_tag") /\ ~ Updating("enq_tag")'
    BY <1>4 DEF LockAndStore, LockAndRetrieve, EnqueueFull, EnqueueSlot,
                DequeueEmpty, DequeueSlot, Unlock, Updating, TypeOK, MutexHeld
  <2> QED BY <1>1, <2>1 DEF Size, get_queue_size, is_queue_full
<1> QED BY <1>1, <1>2, <1>3, <1>4

(* Every step keeps packets in all the slots between front and rear. *)
LEMMA SlotsStep ==
  ASSUME IInv, Next, TypeOK', MutexHeld'
  PROVE  SlotsFilled'
<1> USE DEF IInv
<1>1. PICK t \in Threads :
         \/ \E d \in Data : LockAndStore(t, d)
         \/ LockAndRetrieve(t)
         \/ EnqueueFull(t) \/ EnqueueSlot(t)
         \/ EnqueueRear(t) \/ EnqueueTag(t)
         \/ DequeueEmpty(t) \/ DequeueSlot(t)
         \/ DequeueFront(t) \/ DequeueTag(t)
         \/ Unlock(t)
  BY DEF Next
<1>2. Size \in 0 .. MAX_QUEUE_SIZE
  BY SizeBounds
<1>3. \A i \in 0 .. Size - 1 : Position(i) \in Slots
  <2> SUFFICES ASSUME NEW i \in 0 .. Size - 1 PROVE Position(i) \in Slots
    OBVIOUS
  <2> i \in Slots
    BY <1>2 DEF Slots
  <2> QED BY SlotAt DEF Position, TypeOK
<1>4. CASE EnqueueRear(t)
  <2>1. q' = q /\ UNCHANGED front /\ q[rear] \in Data
    BY <1>4 DEF EnqueueRear, Goto, HandAgrees
  <2>2. Position(Size) = rear /\ Size' = Size + 1 /\ Size \in Slots
    BY <1>4, StoreSize
  <2>3. \A i : Position(i)' = Position(i)
    BY <2>1 DEF Position
  <2> QED BY <2>1, <2>2, <2>3 DEF SlotsFilled, Slots
<1>5. CASE DequeueFront(t)
  <2>1. q' = q
    BY <1>5 DEF DequeueFront
  <2>2. /\ Size' = Size - 1
        /\ \A i \in 0 .. Size - 2 : Position(i)' = Position(i + 1)
    BY <1>5, RetrieveSize
  <2> QED BY <1>2, <2>1, <2>2 DEF SlotsFilled
<1>6. CASE ~ EnqueueRear(t) /\ ~ DequeueFront(t)
  <2>1. Size' = Size /\ \A i : Position(i)' = Position(i)
    BY <1>1, <1>6, SameSize
  <2>2. \A s \in Slots : q[s] \in Data => q'[s] \in Data
    BY <1>1, <1>6
       DEF LockAndStore, LockAndRetrieve, EnqueueFull, EnqueueSlot, EnqueueTag,
           DequeueEmpty, DequeueSlot, DequeueTag, Unlock, TypeOK, HandAgrees,
           Goto
  <2> QED BY <1>3, <2>1, <2>2 DEF SlotsFilled
<1> QED BY <1>1, <1>4, <1>5, <1>6

-----------------------------------------------------------------------------
(* The fields of struct circular_queue agree in every reachable state: the
   indices stay inside the array, the tag says whether front = rear means
   empty or full, the mutex is held by the thread inside the queue, and every
   slot between front and rear holds a packet. *)
THEOREM QueueInvariant == Spec => []IInv
<1>1. Init => IInv
  <2> SUFFICES ASSUME Init PROVE IInv
    OBVIOUS
  <2> USE DEF Init, QUEUE_EMPTY, QUEUE_HAS_ELEMENT, QUEUE_FULL
  <2>1. TypeOK
    BY DEF TypeOK, Slots, Labels
  <2>2. MutexHeld
    BY DEF MutexHeld
  <2>3. TagAgrees
    BY DEF TagAgrees, Updating
  <2>4. HandAgrees
    BY DEF HandAgrees
  <2>5. Size = 0
    BY Distance DEF Size, get_queue_size, is_queue_full, Updating, Slots
  <2> QED BY <2>1, <2>2, <2>3, <2>4, <2>5 DEF IInv, SlotsFilled
<1>2. IInv /\ [Next]_vars => IInv'
  <2> SUFFICES ASSUME IInv, [Next]_vars PROVE IInv'
    OBVIOUS
  <2>1. CASE Next
    <3>1. TypeOK'
      BY <2>1, TypeStep DEF IInv
    <3>2. MutexHeld'
      BY <2>1, MutexStep DEF IInv
    <3>3. TagAgrees'
      BY <2>1, <3>1, <3>2, TagStep DEF IInv
    <3>4. HandAgrees'
      BY <2>1, <3>2, HandStep DEF IInv
    <3>5. SlotsFilled'
      BY <2>1, <3>1, <3>2, SlotsStep
    <3> QED BY <3>1, <3>2, <3>3, <3>4, <3>5 DEF IInv
  <2>2. CASE UNCHANGED vars
    BY <2>2 DEF vars, IInv, TypeOK, MutexHeld, TagAgrees, HandAgrees,
                SlotsFilled, Size, Position, Updating, get_queue_size,
                is_queue_full, advance
  <2> QED BY <2>1, <2>2
<1> QED BY <1>1, <1>2, PTL DEF Spec

-----------------------------------------------------------------------------
(* The refinement mapping. *)

LEMMA ContentsSeq ==
  ASSUME IInv
  PROVE  /\ Contents \in Seq(Data)
         /\ Len(Contents) = Size
<1>1. Size \in Nat
  BY SizeBounds DEF IInv
<1>2. \A i \in 1 .. Size : q[Position(i - 1)] \in Data
  BY <1>1 DEF IInv, SlotsFilled
<1> QED BY <1>1, <1>2 DEF Contents

(* Each slot of the ring lies at one distance from front only. *)
LEMMA PositionInjective ==
  ASSUME IInv, NEW i \in Slots, NEW j \in Slots, Position(i) = Position(j)
  PROVE  i = j
<1>1. front \in Slots
  BY DEF IInv, TypeOK
<1>2. Position(i) = IF front + i < MAX_QUEUE_SIZE THEN front + i
                    ELSE front + i - MAX_QUEUE_SIZE
  BY <1>1, SlotAt DEF Position
<1>3. Position(j) = IF front + j < MAX_QUEUE_SIZE THEN front + j
                    ELSE front + j - MAX_QUEUE_SIZE
  BY <1>1, SlotAt DEF Position
<1>4. \A f, x, y, n \in Int :
        /\ 0 <= x /\ x < n /\ 0 <= y /\ y < n
        /\ (IF f + x < n THEN f + x ELSE f + x - n) =
             (IF f + y < n THEN f + y ELSE f + y - n)
        => x = y
  OBVIOUS
<1>5. /\ i \in Int /\ j \in Int /\ front \in Int /\ MAX_QUEUE_SIZE \in Int
      /\ 0 <= i /\ i < MAX_QUEUE_SIZE /\ 0 <= j /\ j < MAX_QUEUE_SIZE
  BY <1>1 DEF Slots
<1>6. (IF front + i < MAX_QUEUE_SIZE THEN front + i
       ELSE front + i - MAX_QUEUE_SIZE) =
      (IF front + j < MAX_QUEUE_SIZE THEN front + j
       ELSE front + j - MAX_QUEUE_SIZE)
  BY <1>2, <1>3
<1> HIDE SizeAssumption, PointerAssumption
<1> QED BY <1>4, <1>5, <1>6

(* Writing the free slot at rear leaves the packets alone. *)
LEMMA RearIsFree ==
  ASSUME IInv, NEW t \in Threads, EnqueueSlot(t), MutexHeld'
  PROVE  Contents' = Contents
<1> USE DEF IInv, QUEUE_EMPTY, QUEUE_HAS_ELEMENT, QUEUE_FULL
<1>1. /\ front \in Slots /\ rear \in Slots
      /\ ~ is_queue_full /\ ~ Updating("enq_tag")
      /\ front # rear <=> tag = QUEUE_HAS_ELEMENT
      /\ q \in [Slots -> Data \union {NULL}]
      /\ q' = [q EXCEPT ![rear] = pkt[t]]
  BY DEF EnqueueSlot, Goto, TypeOK, MutexHeld, TagAgrees, Updating
<1>2. Size = IF front <= rear THEN rear - front
             ELSE rear - front + MAX_QUEUE_SIZE
  BY <1>1, Distance DEF Size, get_queue_size
<1>3. Size \in Slots
  BY <1>1, <1>2 DEF Slots
<1>4. Position(Size) = rear
  <2>1. Position(Size) = IF front + Size < MAX_QUEUE_SIZE THEN front + Size
                         ELSE front + Size - MAX_QUEUE_SIZE
    BY <1>1, <1>3, SlotAt DEF Position
  <2> QED BY <1>1, <1>2, <2>1 DEF Slots
<1>5. ASSUME NEW i \in 1 .. Size
      PROVE  q'[Position(i - 1)] = q[Position(i - 1)]
  <2>1. i - 1 \in Slots /\ i - 1 # Size
    BY <1>3 DEF Slots
  <2>2. Position(i - 1) # rear
    BY <1>3, <1>4, <2>1, PositionInjective
  <2>3. Position(i - 1) \in Slots
    BY <1>1, <2>1, SlotAt DEF Position
  <2> QED BY <1>1, <2>2, <2>3
<1>6. Size' = Size /\ \A i : Position(i)' = Position(i)
  BY SameSize
<1> QED BY <1>5, <1>6 DEF Contents

(* The atomic FIFO is a correct description of the ring under its mutex. *)
THEOREM RingRefinesFifo == Spec => RefinesFifo
<1> DEFINE Map == <<Contents, Outstanding, Answer>>
<1>1. Init => Fifo!Init
  <2> SUFFICES ASSUME Init PROVE Fifo!Init
    OBVIOUS
  <2> USE DEF Init, QUEUE_EMPTY, QUEUE_HAS_ELEMENT, QUEUE_FULL
  <2>1. Size = 0
    BY Distance DEF Size, get_queue_size, is_queue_full, Updating, Slots
  <2>2. Contents = <<>>
    BY <2>1 DEF Contents
  <2>3. Outstanding = [t \in Threads |-> NULL]
    BY DEF Outstanding
  <2>4. Answer = [t \in Threads |-> NULL]
    BY DEF Answer
  <2> QED BY <2>2, <2>3, <2>4 DEF Fifo!Init
<1>2. IInv /\ IInv' /\ [Next]_vars => [Fifo!Next]_(Fifo!vars)
  <2> SUFFICES ASSUME IInv, IInv', [Next]_vars
               PROVE  Fifo!Next \/ UNCHANGED Map
    BY DEF Fifo!vars
  <2> USE DEF IInv, TypeOK, Goto, Return
  <2>1. ASSUME NEW t \in Threads, NEW d \in Data, LockAndStore(t, d)
        PROVE  Fifo!Next
    <3>1. Contents' = Contents
      <4>1. q' = q
        BY <2>1 DEF LockAndStore
      <4> QED BY <2>1, <4>1, SameSize DEF Contents
    <3>2. Outstanding[t] = NULL /\ Outstanding' = [Outstanding EXCEPT ![t] = d]
      BY <2>1 DEF LockAndStore, Outstanding
    <3>3. Answer' = Answer
      BY <2>1 DEF LockAndStore, Answer
    <3> QED BY <3>1, <3>2, <3>3 DEF Fifo!Next, Fifo!Invoke
  <2>2. ASSUME NEW t \in Threads, LockAndRetrieve(t)
        PROVE  Fifo!Next
    <3>1. Contents' = Contents
      <4>1. q' = q
        BY <2>2 DEF LockAndRetrieve
      <4> QED BY <2>2, <4>1, SameSize DEF Contents
    <3>2. Outstanding[t] = NULL
          /\ Outstanding' = [Outstanding EXCEPT ![t] = RETRIEVE]
      BY <2>2 DEF LockAndRetrieve, Outstanding
    <3>3. Answer' = Answer
      BY <2>2 DEF LockAndRetrieve, Answer
    <3> QED BY <3>1, <3>2, <3>3 DEF Fifo!Next, Fifo!Invoke
  <2>3. ASSUME NEW t \in Threads, EnqueueFull(t)
        PROVE  Fifo!Next
    <3>1. Contents' = Contents
      <4>1. q' = q
        BY <2>3 DEF EnqueueFull
      <4> QED BY <2>3, <4>1, SameSize DEF Contents
    <3>2. Outstanding[t] \in Data
          /\ Outstanding' = [Outstanding EXCEPT ![t] = NULL]
      BY <2>3 DEF EnqueueFull, Outstanding, HandAgrees
    <3>3. Answer' = [Answer EXCEPT ![t] = -1]
      BY <2>3 DEF EnqueueFull, Answer
    <3>4. Len(Contents) = MAX_QUEUE_SIZE
      <4>1. is_queue_full /\ ~ Updating("enq_tag")
        BY <2>3 DEF EnqueueFull, Updating, MutexHeld
      <4> QED BY <4>1, ContentsSeq DEF Size, get_queue_size
    <3> QED BY <3>1, <3>2, <3>3, <3>4
            DEF Fifo!Next, Fifo!StoreFull, Fifo!Respond
  <2>4. ASSUME NEW t \in Threads, EnqueueSlot(t)
        PROVE  UNCHANGED Map
    <3>1. Outstanding' = Outstanding /\ Answer' = Answer
      BY <2>4 DEF EnqueueSlot, Outstanding, Answer
    <3> QED BY <2>4, <3>1, RearIsFree
  <2>5. ASSUME NEW t \in Threads, EnqueueRear(t)
        PROVE  Fifo!Next
    <3>1. /\ Position(Size) = rear /\ Size' = Size + 1
          /\ Size \in 0 .. MAX_QUEUE_SIZE - 1
      BY <2>5, StoreSize DEF Slots
    <3>2. q' = q /\ \A i : Position(i)' = Position(i)
      BY <2>5 DEF EnqueueRear, Position
    <3>3. q[rear] = pkt[t] /\ pkt[t] \in Data
      BY <2>5 DEF EnqueueRear, HandAgrees
    <3>4. Contents' = Append(Contents, pkt[t])
      <4>1. Contents \in Seq(Data) /\ Len(Contents) = Size
        BY ContentsSeq
      <4>2. Contents' \in Seq(Data) /\ Len(Contents') = Size + 1
        <5>1. \A i \in 1 .. Size + 1 : q[Position(i - 1)] \in Data
          BY <3>1, <3>3 DEF SlotsFilled
        <5> QED BY <3>1, <3>2, <5>1 DEF Contents
      <4>3. \A i \in 1 .. Size + 1 : Contents'[i] = Append(Contents, pkt[t])[i]
        BY <3>1, <3>2, <3>3, <4>1 DEF Contents
      <4> QED BY <3>1, <3>3, <4>1, <4>2, <4>3
    <3>5. /\ Outstanding[t] = pkt[t]
          /\ Outstanding' = [Outstanding EXCEPT ![t] = NULL]
      BY <2>5 DEF EnqueueRear, Outstanding
    <3>6. Answer' = [Answer EXCEPT ![t] = 0]
      BY <2>5 DEF EnqueueRear, Answer
    <3>7. Len(Contents) < MAX_QUEUE_SIZE
      BY <3>1, ContentsSeq
    <3> QED BY <3>3, <3>4, <3>5, <3>6, <3>7
            DEF Fifo!Next, Fifo!Store, Fifo!Respond
  <2>6. ASSUME NEW t \in Threads, EnqueueTag(t)
        PROVE  UNCHANGED Map
    <3>1. Contents' = Contents
      <4>1. q' = q
        BY <2>6 DEF EnqueueTag
      <4> QED BY <2>6, <4>1, SameSize DEF Contents
    <3>2. Outstanding' = Outstanding /\ Answer' = Answer
      BY <2>6 DEF EnqueueTag, Outstanding, Answer
    <3> QED BY <3>1, <3>2
  <2>7. ASSUME NEW t \in Threads, DequeueEmpty(t)
        PROVE  Fifo!Next
    <3>1. Contents' = Contents
      <4>1. q' = q
        BY <2>7 DEF DequeueEmpty
      <4> QED BY <2>7, <4>1, SameSize DEF Contents
    <3>2. Outstanding[t] = RETRIEVE
          /\ Outstanding' = [Outstanding EXCEPT ![t] = NULL]
      BY <2>7 DEF DequeueEmpty, Outstanding
    <3>3. Answer' = [Answer EXCEPT ![t] = NULL]
      BY <2>7 DEF DequeueEmpty, Answer
    <3>4. Contents = <<>>
      <4>1. is_queue_empty /\ ~ Updating("enq_tag")
        BY <2>7 DEF DequeueEmpty, Updating, MutexHeld
      <4>2. Size = 0
        BY <4>1, Distance DEF Size, get_queue_size, is_queue_empty,
             is_queue_full, QUEUE_EMPTY, QUEUE_FULL, Slots
      <4> QED BY <4>2, ContentsSeq
    <3> QED BY <3>1, <3>2, <3>3, <3>4
            DEF Fifo!Next, Fifo!RetrieveEmpty, Fifo!Respond
  <2>8. ASSUME NEW t \in Threads, DequeueSlot(t)
        PROVE  UNCHANGED Map
    <3>1. Contents' = Contents
      <4>1. q' = q
        BY <2>8 DEF DequeueSlot
      <4> QED BY <2>8, <4>1, SameSize DEF Contents
    <3>2. Outstanding' = Outstanding /\ Answer' = Answer
      BY <2>8 DEF DequeueSlot, Outstanding, Answer
    <3> QED BY <3>1, <3>2
  <2>9. ASSUME NEW t \in Threads, DequeueFront(t)
        PROVE  Fifo!Next
    <3>1. /\ Size \in 1 .. MAX_QUEUE_SIZE
          /\ Position(0) = front
          /\ Size' = Size - 1
          /\ \A i \in 0 .. Size - 2 : Position(i)' = Position(i + 1)
      BY <2>9, RetrieveSize
    <3>2. q' = q
      BY <2>9 DEF DequeueFront
    <3>3. Contents \in Seq(Data) /\ Len(Contents) = Size
      BY ContentsSeq
    <3>4. Contents' = Tail(Contents)
      <4>1. \A i \in 1 .. Size - 1 : q[Position(i)] \in Data
        BY <3>1 DEF SlotsFilled
      <4>2. Contents' = [i \in 1 .. Size - 1 |-> q[Position(i)]]
        <5>1. \A i \in 1 .. Size - 1 : Position(i - 1)' = Position(i)
          BY <3>1
        <5> QED BY <3>1, <3>2, <5>1 DEF Contents
      <4>3. Contents' \in Seq(Data) /\ Len(Contents') = Size - 1
        BY <3>1, <4>1, <4>2
      <4>4. \A i \in 1 .. Size - 1 : Contents'[i] = Tail(Contents)[i]
        BY <3>1, <3>3, <4>2 DEF Contents
      <4> QED BY <3>1, <3>3, <4>3, <4>4
    <3>5. Head(Contents) = pkt[t] /\ Contents # <<>>
      BY <2>9, <3>1, <3>3 DEF DequeueFront, HandAgrees, Contents
    <3>6. /\ Outstanding[t] = RETRIEVE
          /\ Outstanding' = [Outstanding EXCEPT ![t] = NULL]
      BY <2>9 DEF DequeueFront, Outstanding
    <3>7. Answer' = [Answer EXCEPT ![t] = pkt[t]]
      BY <2>9 DEF DequeueFront, Answer
    <3> QED BY <3>4, <3>5, <3>6, <3>7
            DEF Fifo!Next, Fifo!Retrieve, Fifo!Respond
  <2>10. ASSUME NEW t \in Threads, DequeueTag(t)
         PROVE  UNCHANGED Map
    <3>1. Contents' = Contents
      <4>1. q' = q
        BY <2>10 DEF DequeueTag
      <4> QED BY <2>10, <4>1, SameSize DEF Contents
    <3>2. Outstanding' = Outstanding /\ Answer' = Answer
      BY <2>10 DEF DequeueTag, Outstanding, Answer
    <3> QED BY <3>1, <3>2
  <2>11. ASSUME NEW t \in Threads, Unlock(t)
         PROVE  UNCHANGED Map
    <3>1. Contents' = Contents
      <4>1. q' = q
        BY <2>11 DEF Unlock
      <4> QED BY <2>11, <4>1, SameSize DEF Contents
    <3>2. Outstanding' = Outstanding /\ Answer' = Answer
      BY <2>11 DEF Unlock, Outstanding, Answer
    <3> QED BY <3>1, <3>2
  <2>12. CASE UNCHANGED vars
    BY <2>12 DEF vars, Contents, Outstanding, Answer, Size, Position, Updating,
                 get_queue_size, is_queue_full
  <2> QED BY <2>1, <2>2, <2>3, <2>4, <2>5, <2>6, <2>7, <2>8, <2>9, <2>10,
             <2>11, <2>12 DEF Next
<1> QED BY <1>1, <1>2, QueueInvariant, PTL DEF Spec, RefinesFifo, Fifo!Spec
=============================================================================

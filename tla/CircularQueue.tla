--------------------------- MODULE CircularQueue ---------------------------
(***************************************************************************)
(* struct circular_queue of src/knx/circularQueue.{h,c} as the threads of  *)
(* the knx daemon use it: knx_protocol_store_packet and                    *)
(* knx_protocol_retrieve_packet called between pthread_mutex_lock and      *)
(* pthread_mutex_unlock of the queue's qmutex.  Each assignment to the     *)
(* shared structure is a step of its own, so the interleavings the mutex   *)
(* has to exclude are in the model.                                        *)
(*                                                                         *)
(* A store and a retrieve of a NULL queue or packet return before touching *)
(* the structure and are left out: the callers have checked both.          *)
(***************************************************************************)
EXTENDS Integers, Sequences

CONSTANTS
  MAX_QUEUE_SIZE,   \* slots of the ring (8 in circularQueue.h)
  Threads,          \* the threads that share the queue
  Data,             \* the packets (struct pkt_t pointers)
  NULL,             \* the null pointer; no owner of the mutex
  RETRIEVE          \* tells an outstanding retrieve from a store

(* One slot would not do: HAS_ELEMENT would have to mean both front # rear
   and front = rear.  The code fixes the size to 8. *)
ASSUME SizeAssumption == MAX_QUEUE_SIZE \in Nat /\ MAX_QUEUE_SIZE >= 2

ASSUME PointerAssumption ==
  /\ NULL \notin Threads
  /\ NULL \notin Data
  /\ RETRIEVE \notin Data \union {NULL}

QUEUE_EMPTY == 0
QUEUE_HAS_ELEMENT == 1
QUEUE_FULL == 2

Slots == 0 .. MAX_QUEUE_SIZE - 1

VARIABLES
  q, front, rear, tag,   \* the fields of struct circular_queue
  qmutex,                \* the thread that holds qmutex, or NULL
  pc,                    \* pc[t]: the next statement of t inside the queue
  pkt,                   \* pkt[t]: argument d of enqueue, local p of dequeue
  ret                    \* ret[t]: what t's last call returned

vars == <<q, front, rear, tag, qmutex, pc, pkt, ret>>

-----------------------------------------------------------------------------
(* circularQueue.h *)

is_queue_empty == front = rear /\ tag = QUEUE_EMPTY

is_queue_full == front = rear /\ tag = QUEUE_FULL

get_queue_size ==
  IF is_queue_full
  THEN MAX_QUEUE_SIZE
  ELSE (rear - front + MAX_QUEUE_SIZE) % MAX_QUEUE_SIZE

advance(index) == (index + 1) % MAX_QUEUE_SIZE

-----------------------------------------------------------------------------
(* circular_queue_init: memset, then front, rear and tag. *)
Init ==
  /\ q = [i \in Slots |-> NULL]
  /\ front = 0
  /\ rear = 0
  /\ tag = QUEUE_EMPTY
  /\ qmutex = NULL
  /\ pc = [t \in Threads |-> "idle"]
  /\ pkt = [t \in Threads |-> NULL]
  /\ ret = [t \in Threads |-> NULL]

Goto(t, from, to) == pc[t] = from /\ pc' = [pc EXCEPT ![t] = to]

Return(t, value) == ret' = [ret EXCEPT ![t] = value]

(* A caller takes qmutex and enters knx_protocol_store_packet with d. *)
LockAndStore(t, d) ==
  /\ qmutex = NULL
  /\ qmutex' = t
  /\ Goto(t, "idle", "enqueue")
  /\ pkt' = [pkt EXCEPT ![t] = d]
  /\ UNCHANGED <<q, front, rear, tag, ret>>

LockAndRetrieve(t) ==
  /\ qmutex = NULL
  /\ qmutex' = t
  /\ Goto(t, "idle", "dequeue")
  /\ UNCHANGED <<q, front, rear, tag, pkt, ret>>

EnqueueFull(t) ==
  /\ Goto(t, "enqueue", "unlock")
  /\ is_queue_full
  /\ Return(t, -1)
  /\ UNCHANGED <<q, front, rear, tag, qmutex, pkt>>

EnqueueSlot(t) ==
  /\ Goto(t, "enqueue", "enq_rear")
  /\ ~ is_queue_full
  /\ q' = [q EXCEPT ![rear] = pkt[t]]
  /\ UNCHANGED <<front, rear, tag, qmutex, pkt, ret>>

EnqueueRear(t) ==
  /\ Goto(t, "enq_rear", "enq_tag")
  /\ rear' = advance(rear)
  /\ UNCHANGED <<q, front, tag, qmutex, pkt, ret>>

(* Mutant: a full queue is not marked. *)
TagNeverFull == IF tag = QUEUE_EMPTY THEN QUEUE_HAS_ELEMENT ELSE tag

TagAfterEnqueue ==
  IF front = rear /\ tag = QUEUE_HAS_ELEMENT THEN QUEUE_FULL
  ELSE IF tag = QUEUE_EMPTY THEN QUEUE_HAS_ELEMENT
  ELSE tag

EnqueueTag(t) ==
  /\ Goto(t, "enq_tag", "unlock")
  /\ tag' = TagAfterEnqueue
  /\ Return(t, 0)
  /\ UNCHANGED <<q, front, rear, qmutex, pkt>>

DequeueEmpty(t) ==
  /\ Goto(t, "dequeue", "unlock")
  /\ is_queue_empty
  /\ Return(t, NULL)
  /\ UNCHANGED <<q, front, rear, tag, qmutex, pkt>>

DequeueSlot(t) ==
  /\ Goto(t, "dequeue", "deq_front")
  /\ ~ is_queue_empty
  /\ pkt' = [pkt EXCEPT ![t] = q[front]]
  /\ UNCHANGED <<q, front, rear, tag, qmutex, ret>>

DequeueFront(t) ==
  /\ Goto(t, "deq_front", "deq_tag")
  /\ front' = advance(front)
  /\ UNCHANGED <<q, rear, tag, qmutex, pkt, ret>>

(* Mutant: the mark of a full queue is not taken back. *)
TagStaysFull ==
  IF front = rear /\ tag = QUEUE_HAS_ELEMENT THEN QUEUE_EMPTY ELSE tag

TagAfterDequeue ==
  IF front = rear /\ tag = QUEUE_HAS_ELEMENT THEN QUEUE_EMPTY
  ELSE IF tag = QUEUE_FULL THEN QUEUE_HAS_ELEMENT
  ELSE tag

DequeueTag(t) ==
  /\ Goto(t, "deq_tag", "unlock")
  /\ tag' = TagAfterDequeue
  /\ Return(t, pkt[t])
  /\ UNCHANGED <<q, front, rear, qmutex, pkt>>

Unlock(t) ==
  /\ Goto(t, "unlock", "idle")
  /\ qmutex' = NULL
  /\ UNCHANGED <<q, front, rear, tag, pkt, ret>>

Next ==
  \E t \in Threads :
    \/ \E d \in Data : LockAndStore(t, d)
    \/ LockAndRetrieve(t)
    \/ EnqueueFull(t) \/ EnqueueSlot(t) \/ EnqueueRear(t) \/ EnqueueTag(t)
    \/ DequeueEmpty(t) \/ DequeueSlot(t) \/ DequeueFront(t) \/ DequeueTag(t)
    \/ Unlock(t)

Spec == Init /\ [][Next]_vars

-----------------------------------------------------------------------------
Labels == {"idle", "enqueue", "enq_rear", "enq_tag",
           "dequeue", "deq_front", "deq_tag", "unlock"}

(* The fields stay in range: the indices inside the array, the tag one of
   its three values, the mutex free or held by one thread. *)
TypeOK ==
  /\ q \in [Slots -> Data \union {NULL}]
  /\ front \in Slots
  /\ rear \in Slots
  /\ tag \in {QUEUE_EMPTY, QUEUE_HAS_ELEMENT, QUEUE_FULL}
  /\ qmutex \in Threads \union {NULL}
  /\ pc \in [Threads -> Labels]
  /\ pkt \in [Threads -> Data \union {NULL}]
  /\ ret \in [Threads -> Data \union {NULL, 0, -1}]

(* The mutex is held exactly while its owner is inside the queue. *)
MutexHeld == \A t \in Threads : pc[t] # "idle" <=> qmutex = t

Updating(label) == \E t \in Threads : pc[t] = label

(* front, rear and tag agree: when nobody is between the pointer update and
   the tag update, the tag tells the two meanings of front = rear apart and
   is HAS_ELEMENT exactly when they differ; in between, it is the tag of the
   queue before the pointer moved.  A wrong tag makes is_queue_full or
   is_queue_empty lie, and the next call overwrites or resurrects a packet. *)
TagAgrees ==
  /\ ~ Updating("enq_tag") /\ ~ Updating("deq_tag")
       => (front # rear <=> tag = QUEUE_HAS_ELEMENT)
  /\ Updating("enq_rear") => tag # QUEUE_FULL
  /\ Updating("deq_front") => tag # QUEUE_EMPTY
  /\ Updating("enq_tag") =>
       \/ tag = QUEUE_EMPTY /\ rear = advance(front)
       \/ tag = QUEUE_HAS_ELEMENT /\ rear # advance(front)
  /\ Updating("deq_tag") =>
       \/ tag = QUEUE_FULL /\ front = advance(rear)
       \/ tag = QUEUE_HAS_ELEMENT /\ front # advance(rear)

(* The packet in a thread's hand is the one in the slot it is about to
   publish (enqueue) or to give up (dequeue). *)
HandAgrees ==
  \A t \in Threads :
    /\ pc[t] \in {"enqueue", "enq_rear"} => pkt[t] \in Data
    /\ pc[t] = "enq_rear" => q[rear] = pkt[t]
    /\ pc[t] = "deq_front" => q[front] = pkt[t]

(* The slots between front and rear hold packets, never the null pointer. *)
Size ==
  IF Updating("enq_tag") /\ front = rear THEN MAX_QUEUE_SIZE
  ELSE get_queue_size

Position(i) == (front + i) % MAX_QUEUE_SIZE

SlotsFilled == \A i \in 0 .. Size - 1 : q[Position(i)] \in Data

IInv == TypeOK /\ MutexHeld /\ TagAgrees /\ HandAgrees /\ SlotsFilled

-----------------------------------------------------------------------------
(* The refinement mapping.  A store takes effect when rear advances and a
   retrieve when front advances; from then on the call has been answered. *)

Contents == [i \in 1 .. Size |-> q[Position(i - 1)]]

Outstanding ==
  [t \in Threads |->
     IF pc[t] \in {"enqueue", "enq_rear"} THEN pkt[t]
     ELSE IF pc[t] \in {"dequeue", "deq_front"} THEN RETRIEVE
     ELSE NULL]

Answer ==
  [t \in Threads |->
     IF pc[t] = "enq_tag" THEN 0
     ELSE IF pc[t] = "deq_tag" THEN pkt[t]
     ELSE ret[t]]

Fifo == INSTANCE BoundedFifo WITH
          Capacity <- MAX_QUEUE_SIZE, fifo <- Contents,
          call <- Outstanding, ret <- Answer

(* The ring buffer under its mutex is an atomic bounded FIFO: no packet is
   lost, duplicated or reordered, store fails only when all the slots are
   taken and retrieve only when none is. *)
RefinesFifo == Fifo!Spec
=============================================================================

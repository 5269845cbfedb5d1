---------------------------- MODULE BoundedFifo ----------------------------
(***************************************************************************)
(* What the packet queues of the knx daemon promise to the threads that    *)
(* share them: an atomic FIFO of at most Capacity packets.  A thread has   *)
(* at most one call outstanding; between its invocation and its response   *)
(* the call takes effect exactly once.  A store into a full queue reports  *)
(* -1 and changes nothing; a retrieve from an empty queue reports NULL.    *)
(* CircularQueue implements this specification (property RefinesFifo).     *)
(***************************************************************************)
EXTENDS Integers, Sequences

CONSTANTS
  Capacity,   \* number of packets the queue can hold
  Threads,    \* the threads that call the queue
  Data,       \* the packets
  NULL,       \* no call outstanding; also the answer of an empty queue
  RETRIEVE    \* an outstanding retrieve (a store is its packet)

VARIABLES
  fifo,       \* the packets stored and not yet retrieved, oldest first
  call,       \* call[t]: what t has asked for and not yet obtained
  ret         \* ret[t]: the answer to t's last completed call

vars == <<fifo, call, ret>>

Init ==
  /\ fifo = <<>>
  /\ call = [t \in Threads |-> NULL]
  /\ ret = [t \in Threads |-> NULL]

Invoke(t, c) ==
  /\ call[t] = NULL
  /\ call' = [call EXCEPT ![t] = c]
  /\ UNCHANGED <<fifo, ret>>

Respond(t, answer) ==
  /\ call' = [call EXCEPT ![t] = NULL]
  /\ ret' = [ret EXCEPT ![t] = answer]

Store(t) ==
  /\ call[t] \in Data
  /\ Len(fifo) < Capacity
  /\ fifo' = Append(fifo, call[t])
  /\ Respond(t, 0)

StoreFull(t) ==
  /\ call[t] \in Data
  /\ Len(fifo) = Capacity
  /\ UNCHANGED fifo
  /\ Respond(t, -1)

Retrieve(t) ==
  /\ call[t] = RETRIEVE
  /\ fifo # <<>>
  /\ fifo' = Tail(fifo)
  /\ Respond(t, Head(fifo))

RetrieveEmpty(t) ==
  /\ call[t] = RETRIEVE
  /\ fifo = <<>>
  /\ UNCHANGED fifo
  /\ Respond(t, NULL)

Next ==
  \E t \in Threads :
    \/ \E c \in Data \union {RETRIEVE} : Invoke(t, c)
    \/ Store(t) \/ StoreFull(t)
    \/ Retrieve(t) \/ RetrieveEmpty(t)

Spec == Init /\ [][Next]_vars
=============================================================================

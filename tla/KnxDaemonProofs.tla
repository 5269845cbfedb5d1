-------------------------- MODULE KnxDaemonProofs --------------------------
(***************************************************************************)
(* Proofs about KnxDaemon for every queue capacity, number of timers and   *)
(* datagrams: no two threads are ever inside the rx queue at once, the     *)
(* first datagram sent is the discovery request, and an armed retry is not *)
(* lost until the smart controller answers.                                *)
(***************************************************************************)
EXTENDS KnxDaemon, SequenceTheorems, TLAPS

(* The constants are numbers. *)
LEMMA Bounds == /\ MaxQueue \in Nat \ {0} /\ MaxTimers \in Nat
                /\ MaxInbox \in Nat
BY BoundsAssumption

(* A store appends the packet or leaves the queue as it is. *)
LEMMA StoreFacts ==
  ASSUME TypeOK, NEW p \in Packets, Store(p)
  PROVE  /\ rxq' \in Seq(Packets) /\ Len(rxq') <= MaxQueue
         /\ \A i \in DOMAIN rxq' :
              (i \in DOMAIN rxq /\ rxq'[i] = rxq[i]) \/ rxq'[i] = p
         /\ rxq = <<>> => \A i \in DOMAIN rxq' : i = 1
BY Bounds DEF TypeOK, Store

-----------------------------------------------------------------------------
(* The actions that only move a thread on, or end the process. *)
Moves ==
  \/ CreateTty \/ CreateSocket \/ CreateTimer \/ Join \/ DeinitTwice
  \/ UseAfterDeinit \/ Exit
  \/ TtyCheck \/ TtyWrite \/ TtyRead \/ TtyDump
  \/ SocketSetup \/ SocketPoll \/ SocketUseTorn \/ SocketUseFreed
  \/ SocketDump \/ SocketTurn
  \/ TimerCallback \/ TimerUseFreed \/ TimerTurn

(* They leave the data alone, unless the socket goes with the process. *)
LEMMA MovesFacts ==
  ASSUME TypeOK, Moves
  PROVE  /\ UNCHANGED <<flags, queue, heap, pkt>>
         /\ port' \in BOOLEAN /\ inbox' \in Nat /\ isDumped' \in BOOLEAN
         /\ main' \in {"create_tty", "create_socket", "create_timer",
                       "join_tty", "join_socket", "join_timer", "deinit",
                       "return", "destroyed"}
         /\ tty' \in {"none", "check", "write", "read", "dump", "lock",
                      "store", "done"}
         /\ socket' \in {"none", "setup", "first", "poll", "lock", "retrieve",
                         "send", "arm", "arm_over", "free", "receive", "dump",
                         "turn", "done"}
         /\ timer' \in {"none", "top", "tick", "callback", "lock", "store",
                        "readd", "pop", "discard", "turn", "done"}
         /\ status' \in {"running", "exited", "crashed"}
<1>1. SocketGone \/ UNCHANGED udp
  BY DEF Moves, CreateTty, CreateSocket, CreateTimer, Join, DeinitTwice,
         UseAfterDeinit, Exit, SocketUseTorn, SocketUseFreed, TimerUseFreed,
         TtyCheck, TtyWrite, TtyRead, TtyDump, SocketSetup, SocketPoll,
         SocketDump, SocketTurn, TimerCallback, TimerTurn, Crash, vars
<1>2. port' \in BOOLEAN /\ inbox' \in Nat /\ isDumped' \in BOOLEAN
  <2>1. CASE SocketGone
    BY <2>1 DEF SocketGone
  <2>2. CASE UNCHANGED udp
    <3>1. port' = port /\ inbox' = inbox /\ isDumped' = isDumped
      BY <2>2 DEF udp
    <3>2. port \in BOOLEAN /\ inbox \in Nat /\ isDumped \in BOOLEAN
      BY DEF TypeOK
    <3> QED BY <3>1, <3>2
  <2> QED BY <1>1, <2>1, <2>2
<1> USE <1>2 DEF TypeOK
<1>3. CASE CreateTty \/ CreateSocket \/ CreateTimer \/ Join
  BY <1>3 DEF CreateTty, CreateSocket, CreateTimer, Join
<1>4. CASE DeinitTwice \/ UseAfterDeinit \/ Exit \/ SocketUseTorn
           \/ SocketUseFreed \/ TimerUseFreed
  BY <1>4 DEF DeinitTwice, UseAfterDeinit, Exit, SocketUseTorn, SocketUseFreed,
              TimerUseFreed, Crash
<1>5. CASE TtyCheck \/ TtyWrite \/ TtyRead \/ TtyDump
  BY <1>5 DEF TtyCheck, TtyWrite, TtyRead, TtyDump, Crash, vars
<1>6. CASE SocketSetup \/ SocketPoll \/ SocketDump \/ SocketTurn
  BY <1>6 DEF SocketSetup, SocketPoll, SocketDump, SocketTurn, Crash, vars
<1>7. CASE TimerCallback \/ TimerTurn
  BY <1>7 DEF TimerCallback, TimerTurn
<1> QED BY <1>3, <1>4, <1>5, <1>6, <1>7 DEF Moves

-----------------------------------------------------------------------------
(* What a step of the timer thread on the heap may leave. *)
LEMMA HeapOpFacts ==
  ASSUME TypeOK, NEW n \in Nat, NEW min \in Nat, HeapOp(n, min)
  PROVE  /\ timers' \in Nat /\ (timers' = n \/ timers' >= min)
         /\ torn' \in BOOLEAN
         /\ \/ socket' = socket /\ socket # "arm_over"
            \/ socket \in {"arm", "arm_over"} /\ socket' = "arm_over" /\ torn'
<1>1. CASE socket # "arm_over" /\ timers' = n /\ UNCHANGED <<socket, torn>>
  BY <1>1 DEF TypeOK
<1>2. CASE /\ socket \in {"arm", "arm_over"}
           /\ timers' \in Sizes(min)
           /\ torn' = TRUE
           /\ socket' = "arm_over"
  BY <1>2, Bounds DEF Sizes
<1> QED BY <1>1, <1>2 DEF HeapOp

(* Arming a timer leaves at least one behind where there was one, two where
   the callback has armed another. *)
LEMMA ArmFacts ==
  ASSUME TypeOK, SocketArm
  PROVE  /\ timers' \in Nat /\ (timers > 0 => timers' > 0)
         /\ Rearmed /\ timers >= 2 => timers' >= 2
         /\ UNCHANGED <<flags, torn, firing, timer>>
<1>1. timers \in Nat
  BY DEF TypeOK
<1>2. CASE timers' = timers + 1
  BY <1>1, <1>2 DEF SocketArm
<1>3. CASE timers' \in
             Sizes(IF timers = 0 THEN 0 ELSE IF Rearmed THEN 2 ELSE 1)
  <2>1. CASE timers = 0
    BY <1>3, <2>1, Bounds DEF SocketArm, Sizes
  <2>2. CASE timers # 0 /\ Rearmed
    BY <1>3, <2>2, Bounds DEF SocketArm, Sizes
  <2>3. CASE timers # 0 /\ ~ Rearmed
    BY <1>3, <2>3, Bounds DEF SocketArm, Sizes
  <2> QED BY <2>1, <2>2, <2>3
<1> QED BY <1>2, <1>3 DEF SocketArm

(* A datagram never makes the smart controller go away. *)
LEMMA ReceiveFacts ==
  ASSUME TypeOK, SocketReceive
  PROVE  /\ alive' \in BOOLEAN /\ isDumped' \in BOOLEAN
         /\ alive => alive'
<1>1. PICK h \in Headers : smc_knx_handle_protocol(h)
  BY DEF SocketReceive
<1>2. alive' = (alive \/ h = "response") /\ isDumped' = (h # "other")
  BY <1>1 DEF smc_knx_handle_protocol, set_real_time_info
<1>3. alive \in BOOLEAN
  BY DEF TypeOK
<1> QED BY <1>2, <1>3, Zenon

(* Arming a timer again leaves at least one behind, two if the root was not
   one that had been freed. *)
LEMMA ReaddFacts ==
  ASSUME TypeOK, TimerReadd, timers > 0
  PROVE  /\ timers' \in Nat /\ timers' > 0
         /\ firing # "stale" => timers' >= 2
         /\ torn' \in BOOLEAN
         /\ \/ socket' = socket /\ socket # "arm_over"
            \/ socket \in {"arm", "arm_over"} /\ socket' = "arm_over" /\ torn'
         /\ timer = "readd" /\ timer' = "pop"
         /\ UNCHANGED <<flags, queue, firing, main, tty, pkt, udp, status>>
<1>1. timers \in Nat
  BY DEF TypeOK
<1>2. CASE firing = "stale"
  <2>1. HeapOp(timers + 1, 1)
    BY <1>2 DEF TimerReadd
  <2> QED BY <1>1, <1>2, <2>1, HeapOpFacts DEF TimerReadd
<1>3. CASE firing # "stale"
  <2>1. HeapOp(timers + 1, 2)
    BY <1>3 DEF TimerReadd
  <2> QED BY <1>1, <1>3, <2>1, HeapOpFacts DEF TimerReadd
<1> QED BY <1>2, <1>3

(* A pop takes one timer away; the one armed in the callback stays.  What it
   frees is nowhere else after it. *)
LEMMA PopFacts ==
  ASSUME TypeOK, TimerPop, timers > 0
  PROVE  /\ timers' \in Nat /\ (Rearmed /\ timers >= 2 => timers' > 0)
         /\ torn' \in BOOLEAN
         /\ \/ socket' = socket /\ socket # "arm_over"
            \/ socket \in {"arm", "arm_over"} /\ socket' = "arm_over" /\ torn'
         /\ rxq' \in Seq(Packets) /\ Len(rxq') = Len(rxq)
         /\ \A i \in DOMAIN rxq' :
              i \in DOMAIN rxq /\ (rxq'[i] = rxq[i] \/ rxq'[i] = "freed")
         /\ pkt' \in Packets \union {"none"}
         /\ timer \in {"pop", "discard"} /\ timer' \in {"tick", "turn"}
         /\ firing' = "none"
         /\ UNCHANGED <<flags, qmutex, main, tty, udp, status>>
<1>1. timers \in Nat /\ timers - 1 \in Nat
  BY DEF TypeOK
<1>6. /\ timers' \in Nat /\ (Rearmed /\ timers >= 2 => timers' > 0)
      /\ torn' \in BOOLEAN
      /\ \/ socket' = socket /\ socket # "arm_over"
         \/ socket \in {"arm", "arm_over"} /\ socket' = "arm_over" /\ torn'
  <2>1. CASE Rearmed
    <3>1. HeapOp(timers - 1, 1)
      BY <2>1 DEF TimerPop
    <3> QED BY <1>1, <3>1, HeapOpFacts
  <2>2. CASE ~ Rearmed
    <3>1. HeapOp(timers - 1, 0)
      BY <2>2 DEF TimerPop
    <3> QED BY <1>1, <2>2, <3>1, HeapOpFacts
  <2> QED BY <2>1, <2>2
<1>7. /\ rxq' \in Seq(Packets) /\ Len(rxq') = Len(rxq)
      /\ \A i \in DOMAIN rxq' :
           i \in DOMAIN rxq /\ (rxq'[i] = rxq[i] \/ rxq'[i] = "freed")
  <2>1. rxq \in Seq(Packets) /\ "freed" \in Packets
    BY DEF TypeOK, Packets
  <2>2. /\ rxq' = [i \in 1 .. Len(rxq) |->
                    IF rxq[i] = "retry" THEN "freed" ELSE rxq[i]]
        /\ DOMAIN rxq = 1 .. Len(rxq) /\ Len(rxq) \in Nat
    BY <2>1, LenProperties DEF TimerPop
  <2>3. \A i \in 1 .. Len(rxq) : rxq[i] \in Packets
    BY <2>1, ElementOfSeq
  <2> QED BY <2>1, <2>2, <2>3, IsASeq
<1>8. pkt' \in Packets \union {"none"}
  BY DEF TimerPop, TypeOK, Packets
<1>9. /\ timer \in {"pop", "discard"} /\ timer' \in {"tick", "turn"}
      /\ firing' = "none"
      /\ UNCHANGED <<flags, qmutex, main, tty, udp, status>>
  BY DEF TimerPop
<1> QED BY <1>6, <1>7, <1>8, <1>9

(* A retrieve takes the packet at the head and moves the others up. *)
LEMMA RetrieveFacts ==
  ASSUME TypeOK, rxq # <<>>, rxq' = Tail(rxq)
  PROVE  /\ rxq' \in Seq(Packets) /\ Len(rxq') <= MaxQueue
         /\ \A i \in DOMAIN rxq' : i + 1 \in DOMAIN rxq /\ rxq'[i] = rxq[i + 1]
                                  /\ i >= 1
         /\ Head(rxq) \in Packets /\ Head(rxq) = rxq[1]
<1>1. rxq \in Seq(Packets) /\ Len(rxq) <= MaxQueue
  BY DEF TypeOK
<1>2. PICK n \in Nat : n = Len(rxq) /\ n # 0
  BY <1>1, EmptySeq
<1>3. /\ Head(rxq) \in Packets /\ Tail(rxq) \in Seq(Packets)
      /\ Len(Tail(rxq)) = n - 1
      /\ \A i \in 1 .. n - 1 : Tail(rxq)[i] = rxq[i + 1]
  BY <1>1, <1>2, HeadTailProperties
<1>4. DOMAIN rxq = 1 .. n /\ DOMAIN rxq' = 1 .. n - 1
  BY <1>1, <1>2, <1>3, LenProperties
<1> QED BY <1>1, <1>2, <1>3, <1>4, Bounds

-----------------------------------------------------------------------------
(* Every step keeps the variables in range. *)
LEMMA TypeStep ==
  ASSUME IInv, Next
  PROVE  TypeOK'
<1> USE DEF udp
<1>a. TypeOK
  BY DEF IInv
<1>1. CASE Moves
  BY <1>a, <1>1, MovesFacts DEF TypeOK, flags, queue, heap
<1>2. CASE Deinit
  <2>1. CASE UNCHANGED rxq
    BY <1>a, <1>2, <2>1 DEF Deinit, TypeOK, flags
  <2>2. CASE rxq' = [i \in DOMAIN rxq |-> "freed"]
    <3>1. rxq \in Seq(Packets) /\ "freed" \in Packets
      BY <1>a DEF TypeOK, Packets
    <3>2. DOMAIN rxq = 1 .. Len(rxq) /\ Len(rxq) \in Nat
      BY <3>1, LenProperties
    <3>3. rxq' \in Seq(Packets) /\ Len(rxq') = Len(rxq)
      BY <2>2, <3>1, <3>2, IsASeq
    <3>4. firing' \in {"none", "own", "freed", "stale"}
      BY <1>a, <1>2 DEF Deinit, TypeOK
    <3> QED BY <1>a, <1>2, <3>3, <3>4 DEF Deinit, TypeOK, flags
  <2> QED BY <1>2, <2>1, <2>2 DEF Deinit
<1>3. CASE TtyLock \/ SocketLock \/ TimerLock
  BY <1>a, <1>3 DEF TtyLock, SocketLock, TimerLock, TypeOK, flags, heap
<1>4. CASE TtyStore \/ SocketFirst \/ TimerStore
  <2>1. rxq' \in Seq(Packets) /\ Len(rxq') <= MaxQueue
    <3>1. PICK p \in Packets : Store(p)
      BY <1>4 DEF TtyStore, SocketFirst, TimerStore, Packets
    <3> QED BY <1>a, <3>1, StoreFacts
  <2> QED BY <1>a, <1>4, <2>1
         DEF TtyStore, SocketFirst, TimerStore, TypeOK, flags, heap
<1>5. CASE SocketRetrieve
  <2>1. rxq' \in Seq(Packets) /\ Len(rxq') <= MaxQueue
        /\ pkt' \in Packets \union {"none"}
    BY <1>a, <1>5, RetrieveFacts DEF SocketRetrieve, TypeOK
  <2> QED BY <1>a, <1>5, <2>1 DEF SocketRetrieve, TypeOK, flags, heap
<1>6. CASE SocketArm
  <2>1. timers' \in Nat
    BY <1>a, <1>6, ArmFacts
  <2> QED BY <1>a, <1>6, <2>1 DEF SocketArm, TypeOK, flags, queue
<1>7. CASE SocketFree \/ TimerTop \/ TimerInvalid
  BY <1>a, <1>7 DEF SocketFree, TimerTop, TimerInvalid, TypeOK, flags, queue,
                    heap
<1>8. CASE SocketReceive
  <2>1. socket = "receive" /\ inbox > 0
    BY <1>a, <1>8 DEF SocketReceive, TypeOK, IInv, Gated
  <2>2. alive' \in BOOLEAN /\ isDumped' \in BOOLEAN
    BY <1>8, ReceiveFacts DEF IInv
  <2> QED BY <1>a, <1>8, <2>1, <2>2 DEF SocketReceive, TypeOK, queue, heap
<1>9. CASE TimerTick
  BY <1>a, <1>9 DEF TimerTick, TypeOK, flags, queue
<1>10. CASE TimerReadd
  <2>1. timers > 0
    BY <1>a, <1>10 DEF TimerReadd, IInv, RootKept, TypeOK
  <2> QED BY <1>a, <1>10, <2>1, ReaddFacts DEF TypeOK, flags, queue
<1>11. CASE TimerPop
  <2>1. timers > 0
    BY <1>11 DEF TimerPop, IInv, RootKept
  <2> QED BY <1>a, <1>11, <2>1, PopFacts DEF TypeOK, flags
<1>12. CASE sighandler
  BY <1>a, <1>12 DEF sighandler, TypeOK, queue, heap
<1>13. CASE Datagram
  BY <1>a, <1>13 DEF Datagram, TypeOK, flags, queue, heap
<1>14. CASE Ended
  BY <1>a, <1>14 DEF Ended, TypeOK, vars, flags, queue, heap
<1>15. CASE SocketSend
  <2>1. port' \in BOOLEAN
    BY <1>a, <1>15 DEF SocketSend, TypeOK
  <2>2. /\ socket' \in {"free", "arm", "dump"}
        /\ UNCHANGED <<flags, queue, heap, main, tty, timer, pkt, inbox,
                       isDumped, status>>
    BY <1>15 DEF SocketSend
  <2> QED BY <1>a, <2>1, <2>2 DEF TypeOK, flags, queue, heap
<1>16. CASE SocketRecvFails
  BY <1>a, <1>16 DEF SocketRecvFails, TypeOK, flags, queue, heap, udp
<1> QED BY <1>1, <1>2, <1>3, <1>4, <1>5, <1>6, <1>7, <1>8, <1>9, <1>10, <1>11,
           <1>12, <1>13, <1>14, <1>15, <1>16
       DEF Next, Moves, Main, Tty, Socket, Timer

-----------------------------------------------------------------------------
(* The actions by what they do to the mutex of the rx queue. *)
LEMMA LockStep ==
  ASSUME IInv, Next
  PROVE  LockOwned'
<1> USE DEF IInv, LockOwned
<1>1. CASE Main
  BY <1>1 DEF Main, CreateTty, CreateSocket, CreateTimer, Join, Deinit,
              DeinitTwice, UseAfterDeinit, Exit, Crash, Joined, queue
<1>2. CASE Tty
  BY <1>2 DEF Tty, TtyCheck, TtyWrite, TtyRead, TtyDump, Crash, vars,
              TtyLock, TtyStore, queue
<1>3. CASE Socket
  <2>1. CASE SocketLock \/ SocketRetrieve \/ SocketUseTorn \/ SocketUseFreed
             \/ SocketReceive \/ SocketRecvFails \/ SocketDump
    BY <1>3, <2>1 DEF SocketLock, SocketRetrieve, SocketUseTorn,
                      SocketUseFreed, SocketReceive, SocketRecvFails,
                      SocketDump, Crash, queue, vars
  <2>2. CASE SocketSetup \/ SocketFirst \/ SocketPoll \/ SocketSend
             \/ SocketArm
             \/ SocketFree \/ SocketTurn
    BY <1>3, <2>2 DEF SocketSetup, SocketFirst, SocketPoll, SocketSend,
                      SocketArm, SocketFree, SocketTurn, queue
  <2> QED BY <1>3, <2>1, <2>2 DEF Socket
<1>4. CASE Timer
  <2>1. CASE TimerReadd \/ TimerPop
    BY <2>1, HeapOpFacts DEF TimerReadd, TimerPop, HeapOp, queue
  <2>2. CASE TimerTop \/ TimerTick \/ TimerCallback \/ TimerLock \/ TimerStore
             \/ TimerInvalid \/ TimerUseFreed \/ TimerTurn
    BY <2>2 DEF TimerTop, TimerTick, TimerCallback, TimerLock, TimerStore,
                TimerInvalid, TimerUseFreed, TimerTurn, Crash, queue
  <2> QED BY <1>4, <2>1, <2>2 DEF Timer
<1>5. CASE sighandler \/ Datagram \/ Ended
  BY <1>5 DEF sighandler, Datagram, Ended, vars, queue
<1> QED BY <1>1, <1>2, <1>3, <1>4, <1>5 DEF Next

-----------------------------------------------------------------------------
(* Until the socket thread enters its loop nothing else starts. *)
LEMMA GatedStep ==
  ASSUME IInv, Next, TypeOK'
  PROVE  Gated'
<1> USE DEF IInv, Gated, BeforeLoop, Running, udp
<1>1. CASE Main
  <2>1. CASE CreateTty \/ CreateSocket \/ CreateTimer \/ Join
    BY <2>1 DEF CreateTty, CreateSocket, CreateTimer, Join, Joined, flags,
                queue, heap
  <2>2. CASE Deinit
    BY <2>2 DEF Deinit, flags
  <2>3. CASE DeinitTwice \/ UseAfterDeinit \/ Exit
    BY <2>3 DEF DeinitTwice, UseAfterDeinit, Exit, Crash, flags, queue, heap
  <2> QED BY <1>1, <2>1, <2>2, <2>3 DEF Main
<1>2. CASE Tty
  BY <1>2 DEF Tty, TtyCheck, TtyWrite, TtyRead, TtyDump, Crash, vars,
              TtyLock, TtyStore, flags,
              queue, heap
<1>3. CASE Socket
  <2>1. CASE SocketSetup \/ SocketPoll
    BY <2>1 DEF SocketSetup, SocketPoll, flags, queue, heap
  <2>2. CASE SocketSend
    <3>1. /\ socket = "send" /\ socket' \in {"free", "arm", "dump"}
          /\ UNCHANGED <<flags, queue, heap, tty, timer, inbox, status>>
      BY <2>2 DEF SocketSend
    <3> QED BY <3>1 DEF flags, queue, heap
  <2>3. CASE SocketTurn \/ SocketUseTorn \/ SocketUseFreed \/ SocketDump
    BY <2>3 DEF SocketTurn, SocketUseTorn, SocketUseFreed, SocketDump, Crash,
                flags, queue, heap, vars
  <2>4. CASE SocketFirst \/ SocketLock \/ SocketRetrieve \/ SocketArm
             \/ SocketFree \/ SocketReceive \/ SocketRecvFails
    BY <2>4 DEF SocketFirst, SocketLock, SocketRetrieve, SocketArm, SocketFree,
                SocketReceive, SocketRecvFails, smc_knx_handle_protocol,
                set_real_time_info, flags, queue, heap
  <2> QED BY <1>3, <2>1, <2>2, <2>3, <2>4 DEF Socket
<1>4. CASE Timer
  <2>1. CASE TimerReadd
    <3>1. timers > 0
      BY <2>1 DEF TimerReadd, RootKept
    <3> QED BY <2>1, <3>1, ReaddFacts DEF flags, queue
  <2>2. CASE TimerPop
    <3>1. timers > 0
      BY <2>2 DEF TimerPop, RootKept
    <3> QED BY <2>2, <3>1, PopFacts DEF flags
  <2>3. CASE TimerTop \/ TimerTick \/ TimerCallback \/ TimerLock \/ TimerTurn
             \/ TimerInvalid \/ TimerUseFreed
    BY <2>3 DEF TimerTop, TimerTick, TimerCallback, TimerLock, TimerTurn,
                TimerInvalid, TimerUseFreed, Crash, flags, queue, heap
  <2>4. CASE TimerStore
    BY <2>4 DEF TimerStore, flags, heap
  <2> QED BY <1>4, <2>1, <2>2, <2>3, <2>4 DEF Timer
<1>5. CASE sighandler \/ Ended
  BY <1>5 DEF sighandler, Ended, vars, flags, queue, heap
<1>6. CASE Datagram
  BY <1>6 DEF Datagram, TypeOK, flags, queue, heap
<1> QED BY <1>1, <1>2, <1>3, <1>4, <1>5, <1>6 DEF Next

-----------------------------------------------------------------------------
(* main destroys the queue only when nobody is left to use it. *)
LEMMA JoinedStep ==
  ASSUME IInv, Next
  PROVE  Joined'
<1> USE DEF IInv, Joined
<1>1. CASE Main
  BY <1>1 DEF Main, CreateTty, CreateSocket, CreateTimer, Join, Deinit,
              DeinitTwice, UseAfterDeinit, Exit, Crash
<1>2. CASE Tty
  BY <1>2 DEF Tty, TtyCheck, TtyWrite, TtyRead, TtyDump, Crash, vars,
              TtyLock, TtyStore
<1>3. CASE Socket
  BY <1>3 DEF Socket, SocketSetup, SocketFirst, SocketPoll, SocketLock,
              SocketRetrieve, SocketSend, SocketArm, SocketFree,
              SocketUseTorn, SocketUseFreed, SocketReceive, SocketRecvFails,
              SocketDump, SocketTurn, Crash, vars
<1>4. CASE Timer
  BY <1>4 DEF Timer, TimerTop, TimerTick, TimerCallback, TimerLock, TimerStore,
              TimerReadd, TimerPop, HeapOp, TimerInvalid, TimerUseFreed,
              TimerTurn, Crash
<1>5. CASE sighandler \/ Datagram \/ Ended
  BY <1>5 DEF sighandler, Datagram, Ended, vars
<1> QED BY <1>1, <1>2, <1>3, <1>4, <1>5 DEF Next

-----------------------------------------------------------------------------
(* The actions that leave the rx queue alone and take no packet from it. *)
LEMMA SameQueue ==
  ASSUME IInv, Next, ~ Deinit, ~ TtyStore, ~ SocketFirst, ~ SocketRetrieve,
         ~ TimerStore, ~ TimerPop
  PROVE  rxq' = rxq /\ (socket' = "send" => socket = "send")
<1>1. CASE Main
  BY <1>1 DEF Main, CreateTty, CreateSocket, CreateTimer, Join, DeinitTwice,
              UseAfterDeinit, Exit, Crash, queue
<1>2. CASE Tty
  BY <1>2 DEF Tty, TtyCheck, TtyWrite, TtyRead, TtyDump, Crash, vars,
              TtyLock, queue
<1>3. CASE Socket
  BY <1>3 DEF Socket, SocketSetup, SocketPoll, SocketLock, SocketSend,
              SocketArm, SocketFree, SocketUseTorn, SocketUseFreed,
              SocketReceive, SocketRecvFails, SocketDump, SocketTurn,
              Crash, queue, vars
<1>4. CASE Timer
  BY <1>4 DEF Timer, TimerTop, TimerTick, TimerCallback, TimerLock, TimerReadd,
              HeapOp, TimerInvalid, TimerUseFreed, TimerTurn, Crash, queue
<1>5. CASE sighandler \/ Datagram \/ Ended
  BY <1>5 DEF sighandler, Datagram, Ended, vars, queue
<1> QED BY <1>1, <1>2, <1>3, <1>4, <1>5 DEF Next

(* The discovery request stays at the head of the queue. *)
LEMMA HeadStep ==
  ASSUME IInv, Next
  PROVE  RequestAtHead'
<1>a. TypeOK
  BY DEF IInv
<1>b. /\ \A i \in DOMAIN rxq : rxq[i] = "request" => i = 1
      /\ socket = "send" => \A i \in DOMAIN rxq : rxq[i] # "request"
  BY DEF IInv, RequestAtHead
<1>1. CASE Deinit
  <2>1. rxq' = rxq \/ rxq' = [i \in DOMAIN rxq |-> "freed"]
    BY <1>1 DEF Deinit
  <2>2. socket' = socket
    BY <1>1 DEF Deinit
  <2>3. CASE rxq' = rxq
    BY <1>b, <2>2, <2>3 DEF RequestAtHead
  <2>4. CASE rxq' = [i \in DOMAIN rxq |-> "freed"]
    BY <2>4 DEF RequestAtHead
  <2> QED BY <2>1, <2>3, <2>4
<1>2. CASE TtyStore \/ TimerStore
  <2>1. PICK p \in {"frame", "retry", "freed"} : Store(p)
    BY <1>2 DEF TtyStore, TimerStore
  <2>2. p \in Packets /\ p # "request"
    BY <2>1 DEF Packets
  <2>3. \A i \in DOMAIN rxq' :
          (i \in DOMAIN rxq /\ rxq'[i] = rxq[i]) \/ rxq'[i] = p
    BY <1>a, <2>1, <2>2, StoreFacts
  <2>4. socket' = socket
    BY <1>2 DEF TtyStore, TimerStore
  <2> QED BY <1>b, <2>2, <2>3, <2>4 DEF RequestAtHead
<1>3. CASE SocketFirst
  <2>1. socket' = "poll" /\ Store("request") /\ "request" \in Packets
    BY <1>3 DEF SocketFirst, Packets
  <2>2. rxq = <<>>
    BY <1>3 DEF SocketFirst, IInv, Gated, BeforeLoop
  <2>3. \A i \in DOMAIN rxq' : i = 1
    BY <1>a, <2>1, <2>2, StoreFacts
  <2> QED BY <2>1, <2>3 DEF RequestAtHead
<1>4. CASE SocketRetrieve
  <2>1. CASE rxq = <<>>
    BY <1>4, <1>b, <2>1 DEF SocketRetrieve, RequestAtHead
  <2>2. CASE rxq # <<>>
    <3>1. \A i \in DOMAIN rxq' : i + 1 \in DOMAIN rxq /\ rxq'[i] = rxq[i + 1]
                                /\ i >= 1
      BY <1>4, <1>a, <2>2, RetrieveFacts DEF SocketRetrieve
    <3>2. \A i \in DOMAIN rxq' : i \in Nat
      BY <1>4, <1>a, <2>2, RetrieveFacts, LenProperties DEF SocketRetrieve
    <3>3. \A i \in DOMAIN rxq' : rxq'[i] # "request"
      BY <1>b, <3>1, <3>2
    <3> QED BY <3>3 DEF RequestAtHead
  <2> QED BY <2>1, <2>2
<1>5. CASE TimerPop
  <2>1. timers > 0
    BY <1>5 DEF TimerPop, IInv, RootKept
  <2>2. /\ socket' = socket \/ socket' = "arm_over"
        /\ \A i \in DOMAIN rxq' :
             i \in DOMAIN rxq /\ (rxq'[i] = rxq[i] \/ rxq'[i] = "freed")
    BY <1>5, <1>a, <2>1, PopFacts
  <2> QED BY <1>b, <2>2 DEF RequestAtHead
<1>6. CASE ~ Deinit /\ ~ TtyStore /\ ~ SocketFirst /\ ~ SocketRetrieve
           /\ ~ TimerStore /\ ~ TimerPop
  BY <1>6, <1>b, SameQueue DEF RequestAtHead
<1> QED BY <1>1, <1>2, <1>3, <1>4, <1>5, <1>6

-----------------------------------------------------------------------------
(* The actions that leave the timers alone. *)
LEMMA SameTimers ==
  ASSUME IInv, Next, ~ SocketArm, ~ TimerReadd, ~ TimerPop
  PROVE  timers' = timers /\ (alive => alive')
<1>1. CASE Main
  BY <1>1 DEF Main, CreateTty, CreateSocket, CreateTimer, Join, Deinit,
              DeinitTwice, UseAfterDeinit, Exit, Crash, flags, heap
<1>2. CASE Tty
  BY <1>2 DEF Tty, TtyCheck, TtyWrite, TtyRead, TtyDump, Crash, vars,
              TtyLock, TtyStore, flags, heap
<1>3. CASE Socket
  <2>1. CASE SocketReceive
    <3>1. timers' = timers
      BY <2>1 DEF SocketReceive, heap
    <3>2. TypeOK
      BY DEF IInv
    <3> QED BY <2>1, <3>1, <3>2, ReceiveFacts, Zenon
  <2>2. CASE SocketSetup \/ SocketFirst \/ SocketPoll \/ SocketLock
    BY <2>2 DEF SocketSetup, SocketFirst, SocketPoll, SocketLock, flags, heap
  <2>3. CASE SocketRetrieve \/ SocketSend \/ SocketTurn
    <3>1. UNCHANGED <<flags, heap>>
      BY <2>3 DEF SocketRetrieve, SocketSend, SocketTurn
    <3> QED BY <3>1 DEF flags, heap
  <2>4. CASE SocketFree \/ SocketUseTorn \/ SocketUseFreed \/ SocketDump
    BY <2>4 DEF SocketFree, SocketUseTorn, SocketUseFreed, SocketDump, Crash,
                flags, heap, vars
  <2>5. CASE SocketRecvFails
    BY <2>5 DEF SocketRecvFails, flags, heap
  <2> QED BY <1>3, <2>1, <2>2, <2>3, <2>4, <2>5 DEF Socket
<1>4. CASE Timer
  BY <1>4 DEF Timer, TimerTop, TimerTick, TimerCallback, TimerLock, TimerStore,
              TimerInvalid, TimerUseFreed, TimerTurn, Crash, flags, heap
<1>5. CASE sighandler \/ Datagram \/ Ended
  BY <1>5 DEF sighandler, Datagram, Ended, vars, flags, heap
<1> QED BY <1>1, <1>2, <1>3, <1>4, <1>5 DEF Next

(* The firing timer stays in the heap until it is popped. *)
LEMMA RootStep ==
  ASSUME IInv, Next
  PROVE  RootKept'
<1>a. TypeOK /\ RootKept /\ Joined
  BY DEF IInv
<1>b. timers \in Nat
  BY <1>a DEF TypeOK
<1> USE DEF RootKept, Rearmed
<1>1. CASE Main
  <2>1. CASE Deinit
    <3>1. timer \in {"none", "done"}
          /\ UNCHANGED <<timers, torn, socket, timer>>
      BY <1>a, <2>1 DEF Deinit, Joined
    <3> QED BY <1>a, <3>1
  <2>2. CASE ~ Deinit
    <3>1. UNCHANGED <<flags, heap, socket, timer>>
          \/ CreateSocket \/ CreateTimer
      BY <1>1, <2>2 DEF Main, CreateTty, Join, DeinitTwice, UseAfterDeinit,
                        Exit, Crash
    <3> QED BY <1>a, <3>1 DEF CreateSocket, CreateTimer, flags, heap
  <2> QED BY <2>1, <2>2
<1>2. CASE Tty
  <2>1. UNCHANGED <<flags, heap, socket, timer>>
    BY <1>2 DEF Tty, TtyCheck, TtyWrite, TtyRead, TtyDump, Crash, vars,
                TtyLock, TtyStore
  <2> QED BY <1>a, <2>1 DEF flags, heap
<1>3. CASE SocketArm
  <2>1. alive' = alive /\ torn' = torn /\ firing' = firing /\ timer' = timer
        /\ socket' = "free"
    BY <1>3 DEF SocketArm, flags
  <2> QED BY <1>3, <1>a, <1>b, <2>1, ArmFacts DEF flags
<1>4. CASE Socket /\ ~ SocketArm
  <2>1. CASE SocketFree
    BY <1>a, <2>1 DEF SocketFree, flags
  <2>2. CASE SocketReceive \/ SocketRecvFails
    <3>1. timers' = timers /\ (alive => alive')
      BY <1>4, <2>2, SameTimers
         DEF SocketReceive, SocketRecvFails, TimerReadd, TimerPop, Next
    <3> QED BY <1>a, <2>2, <3>1 DEF SocketReceive, SocketRecvFails, heap
  <2>3. CASE ~ SocketFree /\ ~ SocketReceive /\ ~ SocketRecvFails
    <3>1. /\ UNCHANGED <<flags, heap, timer>>
          /\ socket' = "arm_over" => socket = "arm_over"
      BY <1>4, <2>3
         DEF Socket, SocketSetup, SocketFirst, SocketPoll, SocketLock,
             SocketRetrieve, SocketSend, SocketUseTorn, SocketUseFreed,
             SocketDump, SocketTurn, Crash, vars
    <3> QED BY <1>a, <3>1 DEF flags, heap
  <2> QED BY <2>1, <2>2, <2>3
<1>5. CASE TimerReadd
  <2>1. timers > 0
    BY <1>a, <1>5 DEF TimerReadd
  <2> QED BY <1>5, <1>a, <2>1, ReaddFacts DEF flags
<1>6. CASE TimerPop
  <2>1. timers > 0
    BY <1>a, <1>6 DEF TimerPop
  <2> QED BY <1>6, <1>a, <2>1, PopFacts DEF flags
<1>7. CASE Timer /\ ~ TimerReadd /\ ~ TimerPop
  <2>1. CASE TimerTop \/ TimerInvalid
    BY <1>a, <2>1 DEF TimerTop, TimerInvalid, flags
  <2>2. CASE TimerTick
    BY <1>a, <2>2 DEF TimerTick, flags
  <2>3. CASE TimerCallback \/ TimerLock \/ TimerStore
    BY <1>a, <2>3 DEF TimerCallback, TimerLock, TimerStore, flags, heap
  <2>4. CASE TimerUseFreed \/ TimerTurn
    BY <1>a, <2>4 DEF TimerUseFreed, TimerTurn, Crash, flags, heap
  <2> QED BY <1>7, <2>1, <2>2, <2>3, <2>4 DEF Timer
<1>8. CASE sighandler \/ Datagram \/ Ended
  BY <1>a, <1>8 DEF sighandler, Datagram, Ended, vars, flags, heap
<1> QED BY <1>1, <1>2, <1>3, <1>4, <1>5, <1>6, <1>7, <1>8 DEF Next

-----------------------------------------------------------------------------
(* The inductive invariant holds in every reachable state. *)
THEOREM DaemonInvariant == Spec => []IInv
<1>1. Init => IInv
  <2> SUFFICES ASSUME Init PROVE IInv
    OBVIOUS
  <2>1. TypeOK
    <3>1. rxq \in Seq(Packets) /\ Len(rxq) <= MaxQueue
      BY Bounds, EmptySeq DEF Init
    <3>2. inbox \in Nat /\ isDumped \in BOOLEAN
      BY DEF Init
    <3>3. gNetworkRole \in 0 .. 1
      BY DEF Init, ROLE_TRANSMITTER, ROLE_RECEIVER
    <3> QED BY <3>1, <3>2, <3>3 DEF Init, TypeOK
  <2>2. LockOwned /\ Gated /\ Joined
    BY DEF Init, LockOwned, Gated, BeforeLoop, Joined
  <2>3. RequestAtHead /\ RootKept
    BY DEF Init, RequestAtHead, RootKept, Rearmed
  <2> QED BY <2>1, <2>2, <2>3 DEF IInv
<1>2. IInv /\ [Next]_vars => IInv'
  <2> SUFFICES ASSUME IInv, [Next]_vars PROVE IInv'
    OBVIOUS
  <2>1. CASE Next
    <3>1. TypeOK'
      BY <2>1, TypeStep
    <3> QED BY <2>1, <3>1, LockStep, GatedStep, JoinedStep, HeadStep, RootStep
            DEF IInv
  <2>2. CASE UNCHANGED vars
    BY <2>2 DEF IInv, TypeOK, LockOwned, Gated, BeforeLoop, Joined,
                Running, RequestAtHead, RootKept, Rearmed, vars, flags, queue,
                heap, udp
  <2> QED BY <2>1, <2>2
<1> QED BY <1>1, <1>2, PTL DEF Spec

(* No two threads are ever inside the rx queue at once, the store of the first
   discovery request and the destruction of the queue included, which take no
   lock. *)
THEOREM QueueExclusive == Spec => []RxqExclusive
<1>1. IInv => RxqExclusive
  <2> SUFFICES ASSUME IInv,
                      NEW t \in {"tty", "socket", "timer", "main"},
                      NEW u \in {"tty", "socket", "timer", "main"},
                      InQueue(t), InQueue(u)
               PROVE  t = u
    BY DEF RxqExclusive
  <2>1. LockOwned /\ Gated /\ Joined
    BY DEF IInv
  <2> QED BY <2>1 DEF LockOwned, Gated, BeforeLoop, Joined, InQueue
<1> QED BY <1>1, DaemonInvariant, PTL

(* The smart controller is sent the discovery request before anything else. *)
THEOREM RequestFirst == Spec => []DiscoveryFirst
<1>1. IInv => DiscoveryFirst
  BY DEF IInv, Gated, BeforeLoop, RequestAtHead, DiscoveryFirst
<1> QED BY <1>1, DaemonInvariant, PTL

(* Until the smart controller answers, the heap never runs out of timers once
   one is armed, unless a freed timer fires. *)
THEOREM RetryKept == Spec => TimerKept
<1>1. IInv /\ [Next]_vars =>
        [timers > 0 /\ ~ alive' /\ firing # "stale" => timers' > 0]_vars
  <2> SUFFICES ASSUME IInv, Next, timers > 0, ~ alive', firing # "stale"
               PROVE  timers' > 0
    OBVIOUS
  <2>a. TypeOK /\ RootKept
    BY DEF IInv
  <2>1. CASE SocketArm
    BY <2>1, <2>a, ArmFacts
  <2>2. CASE TimerReadd
    BY <2>2, <2>a, ReaddFacts
  <2>3. CASE TimerPop
    <3>1. timer \in {"pop", "discard"} /\ alive' = alive
      BY <2>3, <2>a, PopFacts DEF flags
    <3>2. Rearmed /\ timers >= 2
      BY <2>a, <3>1 DEF RootKept, Rearmed
    <3> QED BY <2>3, <2>a, <3>2, PopFacts
  <2>4. CASE ~ SocketArm /\ ~ TimerReadd /\ ~ TimerPop
    BY <2>4, SameTimers
  <2> QED BY <2>1, <2>2, <2>3, <2>4
<1> QED BY <1>1, DaemonInvariant, PTL DEF Spec, TimerKept
=============================================================================

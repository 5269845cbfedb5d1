----------------------------- MODULE KnxDaemon -----------------------------
(***************************************************************************)
(* The knx daemon of src/knx: main, the UART thread (handle_knx_tty), the  *)
(* socket thread (handle_socket) and the timer thread (handle_timer), the  *)
(* rx queue they share under its mutex, and the timer heap they share      *)
(* without one.                                                            *)
(*                                                                         *)
(* The queue is the atomic FIFO that CircularQueue implements, its mutex a *)
(* variable.  Every timer of the daemon expires at the instant 3, which is *)
(* past whenever the clock is read, so their number is all that matters of *)
(* them.  What becomes of the heap when operations of the two threads      *)
(* overlap is worked out, access by access, in TimerRace; here the heap is *)
(* torn then: of a size that TimerRace allows, and with any slot pointing  *)
(* to a timer, to one that was freed, or nowhere.  Packets are known by    *)
(* what they are and by who frees them.  What a use of freed memory does   *)
(* is a choice between stopping the process and going on with an arbitrary *)
(* result.                                                                 *)
(***************************************************************************)
EXTENDS Integers, Sequences

CONSTANTS
  MaxQueue,    \* packets the rx queue holds (MAX_QUEUE_SIZE, 8)
  MaxTimers,   \* the socket thread arms no timer beyond this number
  MaxInbox     \* datagrams the UDP socket buffers

ASSUME BoundsAssumption ==
  /\ MaxQueue \in Nat \ {0}
  /\ {MaxTimers, MaxInbox} \subseteq Nat

VARIABLES
  gFlagExit,      \* set by the signal handler
  gNetworkRole,   \* the -r option
  alive,          \* gServerInfo[INFO_NR_SMC].state = STATE_ALIVE
  rxq, qmutex,    \* gKNXRxQueue: its packets, oldest first; its owner
  timers, torn,   \* gTimer_heap.cur_size; whether adds and pops overlapped
  firing,         \* the user_data of the timer whose callback is running
  main, tty, socket, timer,   \* where each thread is
  pkt,            \* local pkt of handle_socket
  port,           \* whether its UDP socket has sent, and so has a port
  inbox,          \* how many datagrams have arrived there
  isDumped,       \* whether the daemon dumps what its buffer begins with
  status          \* the process: "running", "exited" or "crashed"

flags == <<gFlagExit, gNetworkRole, alive>>
queue == <<rxq, qmutex>>
heap == <<timers, torn, firing>>
udp == <<port, inbox, isDumped>>
vars == <<flags, queue, heap, main, tty, socket, timer, pkt, udp, status>>

ROLE_TRANSMITTER == 0
ROLE_RECEIVER == 1

(* Packets: the first discovery request; a KNX frame; the user_data of the
   firing timer, which the coming pop frees; a packet already freed. *)
Packets == {"request", "frame", "retry", "freed"}

(* What the receive buffer begins with when a datagram was read:
   KNX_PROTO_DISCOVERY_RESPONSE, KNX_PROTO_STANDARD_PACKET or neither.  A
   short datagram leaves some of an earlier one there. *)
Headers == {"response", "standard", "other"}

Init ==
  /\ gFlagExit = FALSE
  /\ gNetworkRole \in {ROLE_TRANSMITTER, ROLE_RECEIVER}
  /\ alive = FALSE
  /\ rxq = <<>> /\ qmutex = "none"
  /\ timers = 0 /\ torn = FALSE /\ firing = "none"
  /\ main = "create_tty"
  /\ tty = "none" /\ socket = "none" /\ timer = "none"
  /\ pkt = "none"
  /\ port = FALSE /\ inbox = 0 /\ isDumped = FALSE
  /\ status = "running"

Running == status = "running"

(* With the process its socket goes, and what was buffered there. *)
SocketGone == port' = FALSE /\ inbox' = 0 /\ isDumped' = FALSE

Crash ==
  /\ status' = "crashed"
  /\ SocketGone
  /\ UNCHANGED <<flags, queue, heap, main, tty, socket, timer, pkt>>

(* Mutant: no test for a full queue. *)
StoreUnchecked(p) == rxq' = Append(rxq, p)

(* knx_protocol_store_packet; no caller looks at its result. *)
Store(p) == rxq' = IF Len(rxq) < MaxQueue THEN Append(rxq, p) ELSE rxq

-----------------------------------------------------------------------------
(* main *)

CreateTty ==
  /\ Running
  /\ main = "create_tty"
  /\ \/ tty' = "check" /\ main' = "create_socket"
     \/ UNCHANGED tty /\ main' = "deinit"
  /\ UNCHANGED <<flags, queue, heap, socket, timer, pkt, udp, status>>

CreateSocket ==
  /\ Running
  /\ main = "create_socket"
  /\ \/ socket' = "setup" /\ main' = "create_timer"
     \/ UNCHANGED socket /\ main' = "deinit"
  /\ UNCHANGED <<flags, queue, heap, tty, timer, pkt, udp, status>>

CreateTimer ==
  /\ Running
  /\ main = "create_timer"
  /\ \/ timer' = "top" /\ main' = "join_tty"
     \/ UNCHANGED timer /\ main' = "deinit"
  /\ UNCHANGED <<flags, queue, heap, tty, socket, pkt, udp, status>>

(* Mutant: the timer thread is not joined. *)
JoinTwo ==
  /\ Running
  /\ \/ main = "join_tty" /\ tty = "done" /\ main' = "join_socket"
     \/ main = "join_socket" /\ socket = "done" /\ main' = "deinit"
  /\ UNCHANGED <<flags, queue, heap, tty, socket, timer, pkt, udp, status>>

Join ==
  /\ Running
  /\ \/ main = "join_tty" /\ tty = "done" /\ main' = "join_socket"
     \/ main = "join_socket" /\ socket = "done" /\ main' = "join_timer"
     \/ main = "join_timer" /\ timer = "done" /\ main' = "deinit"
  /\ UNCHANGED <<flags, queue, heap, tty, socket, timer, pkt, udp, status>>

(* knx_protocol_deinit_queue, without the lock: an empty queue is left alone,
   the packets of any other are freed and then the queue. *)
Deinit ==
  /\ Running
  /\ main = "deinit"
  /\ \/ rxq = <<>> /\ main' = "return" /\ UNCHANGED <<rxq, firing>>
     \/ /\ rxq # <<>>
        /\ main' = "destroyed"
        /\ rxq' = [i \in DOMAIN rxq |-> "freed"]
        /\ firing' = IF \E i \in DOMAIN rxq : rxq[i] = "retry"
                     THEN "freed" ELSE firing
  /\ UNCHANGED <<flags, qmutex, timers, torn, tty, socket, timer, pkt, udp,
                 status>>

(* free() of a freed packet aborts, or passes unnoticed as above. *)
DeinitTwice ==
  /\ Running
  /\ main = "deinit"
  /\ \E i \in DOMAIN rxq : rxq[i] = "freed"
  /\ Crash

UseAfterDeinit ==
  /\ Running
  /\ main = "destroyed"
  /\ \/ tty \in {"lock", "store"}
     \/ socket \in {"first", "lock", "retrieve"}
     \/ timer \in {"lock", "store"}
  /\ Crash

(* main returns: the process ends, and its threads with it. *)
Exit ==
  /\ Running
  /\ main \in {"return", "destroyed"}
  /\ status' = "exited"
  /\ SocketGone
  /\ UNCHANGED <<flags, queue, heap, main, tty, socket, timer, pkt>>

Main ==
  CreateTty \/ CreateSocket \/ CreateTimer \/ Join
  \/ Deinit \/ DeinitTwice \/ UseAfterDeinit \/ Exit

-----------------------------------------------------------------------------
(* handle_knx_tty *)

(* Mutant: frames are read before the smart controller is alive. *)
TtyCheckUngated ==
  /\ Running
  /\ tty = "check"
  /\ \/ gFlagExit /\ tty' = "done"
     \/ /\ ~ gFlagExit
        /\ tty' = IF gNetworkRole # ROLE_TRANSMITTER THEN "write" ELSE "read"
  /\ UNCHANGED <<flags, queue, heap, main, socket, timer, pkt, udp, status>>

(* Mutant: the loop does not look at gFlagExit once frames are read. *)
TtyCheckForever ==
  /\ Running
  /\ tty = "check"
  /\ \/ gFlagExit /\ ~ alive /\ tty' = "done"
     \/ /\ alive
        /\ tty' = IF gNetworkRole # ROLE_TRANSMITTER THEN "write" ELSE "read"
  /\ UNCHANGED <<flags, queue, heap, main, socket, timer, pkt, udp, status>>

(* The head of the loop.  While the smart controller is not alive the thread
   sleeps and looks again. *)
TtyCheck ==
  /\ Running
  /\ tty = "check"
  /\ \/ gFlagExit /\ tty' = "done"
     \/ /\ ~ gFlagExit
        /\ alive
        /\ tty' = IF gNetworkRole # ROLE_TRANSMITTER THEN "write" ELSE "read"
  /\ UNCHANGED <<flags, queue, heap, main, socket, timer, pkt, udp, status>>

(* Nothing in the daemon stores into the tx queue: there is no packet. *)
TtyWrite ==
  /\ Running
  /\ tty = "write"
  /\ tty' = "check"
  /\ UNCHANGED <<flags, queue, heap, main, socket, timer, pkt, udp, status>>

(* select and the two reads: no whole frame has come, or one has and a packet
   is filled with it, or a read fails.  VMIN and VTIME are 0, no read
   blocks. *)
TtyRead ==
  /\ Running
  /\ tty = "read"
  /\ tty' \in {"check", "lock", "dump"}
  /\ UNCHANGED <<flags, queue, heap, main, socket, timer, pkt, udp, status>>

(* dump_buffer with the -1 of a failed read as its length: the 16-bit index
   never gets there.  The loop reads on behind the buffer, for ever or until
   that stops the process. *)
TtyDump ==
  /\ Running
  /\ tty = "dump"
  /\ UNCHANGED vars \/ Crash

TtyLock ==
  /\ Running
  /\ tty = "lock"
  /\ qmutex = "none"
  /\ qmutex' = "tty"
  /\ tty' = "store"
  /\ UNCHANGED <<flags, rxq, heap, main, socket, timer, pkt, udp, status>>

(* A frame that finds the queue full is dropped. *)
TtyStore ==
  /\ Running
  /\ tty = "store"
  /\ Store("frame")
  /\ qmutex' = "none"
  /\ tty' = "check"
  /\ UNCHANGED <<flags, heap, main, socket, timer, pkt, udp, status>>

Tty == TtyCheck \/ TtyWrite \/ TtyRead \/ TtyDump \/ TtyLock \/ TtyStore

-----------------------------------------------------------------------------
(* handle_socket *)

(* getaddrinfo or socket fails, or the discovery request is assembled. *)
SocketSetup ==
  /\ Running
  /\ socket = "setup"
  /\ socket' \in {"done", "first"}
  /\ UNCHANGED <<flags, queue, heap, main, tty, timer, pkt, udp, status>>

(* The discovery request goes into the rx queue, without the lock. *)
SocketFirst ==
  /\ Running
  /\ socket = "first"
  /\ Store("request")
  /\ socket' = "poll"
  /\ UNCHANGED <<flags, qmutex, heap, main, tty, timer, pkt, udp, status>>

(* poll: the socket is writable, whether readable or not; or it is only
   readable; or, with nothing to read, the call times out or a signal ends
   it. *)
SocketPoll ==
  /\ Running
  /\ socket = "poll"
  /\ \/ socket' = "lock"
     \/ inbox > 0 /\ socket' = "receive"
     \/ inbox = 0 /\ socket' = "turn"
  /\ UNCHANGED <<flags, queue, heap, main, tty, timer, pkt, udp, status>>

SocketLock ==
  /\ Running
  /\ socket = "lock"
  /\ qmutex = "none"
  /\ qmutex' = "socket"
  /\ socket' = "retrieve"
  /\ UNCHANGED <<flags, rxq, heap, main, tty, timer, pkt, udp, status>>

SocketRetrieve ==
  /\ Running
  /\ socket = "retrieve"
  /\ qmutex' = "none"
  /\ \/ rxq = <<>> /\ socket' = "turn" /\ UNCHANGED <<rxq, pkt>>
     \/ /\ rxq # <<>>
        /\ rxq' = Tail(rxq)
        /\ pkt' = Head(rxq)
        /\ socket' = "send"
  /\ UNCHANGED <<flags, heap, main, tty, timer, udp, status>>

(* pkt->type & PACKET_RESPONSE_NEEDED.  The type of a KNX frame is never
   written, that of a freed packet may be overwritten: either value. *)
ResponseNeeded(p) == IF p \in {"request", "retry"} THEN {TRUE} ELSE BOOLEAN

(* The packet is dumped, for ever if its length was freed and is past 16 bits
   now, and sent: sendto fails or sends part of it, or it needs no response,
   or a timer is armed for it. *)
SocketSend ==
  /\ Running
  /\ socket = "send"
  /\ \/ pkt = "freed" /\ socket' = "dump" /\ UNCHANGED port
     \/ /\ port' = TRUE
        /\ \/ socket' = "free"
           \/ /\ TRUE \in ResponseNeeded(pkt)
              /\ timers < MaxTimers
              /\ socket' = "arm"
  /\ UNCHANGED <<flags, queue, heap, main, tty, timer, pkt, inbox, isDumped,
                 status>>

(* The sizes an overlap may leave behind: at least min. *)
Sizes(min) == min .. MaxTimers + 1

(* The timer thread is about to pop a timer whose callback armed another. *)
Rearmed == timer = "pop" /\ ~ alive /\ firing # "stale"

(* timer_heap_add, without a lock.  In "arm" the thread is inside it; in
   "arm_over" an operation of the timer thread has come in between. *)
SocketArm ==
  /\ Running
  /\ socket \in {"arm", "arm_over"}
  /\ \/ socket = "arm" /\ timers' = timers + 1
     \/ /\ socket = "arm_over"
        /\ timers' \in
             Sizes(IF timers = 0 THEN 0 ELSE IF Rearmed THEN 2 ELSE 1)
  /\ socket' = "free"
  /\ UNCHANGED <<flags, queue, torn, firing, main, tty, timer, pkt, udp,
                 status>>

(* The add reads the expiry of a timer that was freed, or through NULL. *)
SocketUseTorn ==
  /\ Running
  /\ socket \in {"arm", "arm_over"} /\ torn
  /\ Crash

(* free(pkt->u), free(pkt).  The packet of a timer is freed under it. *)
SocketFree ==
  /\ Running
  /\ socket = "free"
  /\ pkt' = "none"
  /\ firing' = IF pkt = "retry" /\ firing = "own" THEN "freed" ELSE firing
  /\ socket' = "turn"
  /\ UNCHANGED <<flags, queue, timers, torn, main, tty, timer, udp, status>>

(* Sending or freeing a freed packet, or the buffer that a retry shares with
   the request it was copied from and that was freed after it was sent. *)
SocketUseFreed ==
  /\ Running
  /\ socket \in {"send", "free"}
  /\ pkt \in {"retry", "freed"}
  /\ Crash

(* The state in the server table; nothing sets it back. *)
set_real_time_info(heard) == alive' = (alive \/ heard)

(* A discovery response, from anyone, makes the smart controller alive and
   then, for want of a break, is dumped like a standard packet. *)
smc_knx_handle_protocol(h) ==
  set_real_time_info(h = "response") /\ isDumped' = (h # "other")

SocketReceive ==
  /\ Running
  /\ socket = "receive"
  /\ inbox' = inbox - 1
  /\ \E h \in Headers : smc_knx_handle_protocol(h)
  /\ socket' = "turn"
  /\ UNCHANGED <<gFlagExit, gNetworkRole, queue, heap, main, tty, timer, pkt,
                 port, status>>

(* recvfrom fails, which only prints a message: the buffer is handled as the
   datagram before left it, with -1 for its length.  A response there has made
   the smart controller alive already. *)
SocketRecvFails ==
  /\ Running
  /\ socket = "receive"
  /\ socket' = IF isDumped THEN "dump" ELSE "turn"
  /\ UNCHANGED <<flags, queue, heap, main, tty, timer, pkt, udp, status>>

(* dump_buffer, with a length its 16-bit index never gets to. *)
SocketDump ==
  /\ Running
  /\ socket = "dump"
  /\ UNCHANGED vars \/ Crash

(* The end of the loop. *)
SocketTurn ==
  /\ Running
  /\ socket = "turn"
  /\ socket' = IF gFlagExit THEN "done" ELSE "poll"
  /\ UNCHANGED <<flags, queue, heap, main, tty, timer, pkt, udp, status>>

Socket ==
  SocketSetup \/ SocketFirst \/ SocketPoll \/ SocketLock \/ SocketRetrieve
  \/ SocketSend \/ SocketArm \/ SocketUseTorn \/ SocketFree
  \/ SocketUseFreed \/ SocketReceive \/ SocketRecvFails \/ SocketDump
  \/ SocketTurn

-----------------------------------------------------------------------------
(* handle_timer *)

(* An operation of the timer thread on the heap that leaves n timers behind,
   or, with the socket thread inside timer_heap_add, any number from min on. *)
HeapOp(n, min) ==
  \/ socket # "arm_over" /\ timers' = n /\ UNCHANGED <<socket, torn>>
  \/ /\ socket \in {"arm", "arm_over"}
     /\ timers' \in Sizes(min)
     /\ torn' = TRUE
     /\ socket' = "arm_over"

(* No timer of the daemon is ever made invalid.  The sleep until the root is
   due may end early.  A torn heap may have no root. *)
TimerTop ==
  /\ Running
  /\ timer = "top"
  /\ \/ timers > 0 /\ timer' = "tick"
     \/ (timers = 0 \/ torn) /\ timer' = "turn"
  /\ UNCHANGED <<flags, queue, timers, torn, firing, main, tty, socket, pkt,
                 udp, status>>

(* A root that was freed may look like an invalid timer. *)
TimerInvalid ==
  /\ Running
  /\ timer = "top"
  /\ torn /\ timers > 0
  /\ firing' = "stale"
  /\ timer' = "discard"
  /\ UNCHANGED <<flags, queue, timers, torn, main, tty, socket, pkt, udp,
                 status>>

(* timer_heap_tick: its loop.  A root that was freed may look due or not, with
   or without a callback. *)
TimerTick ==
  /\ Running
  /\ timer = "tick"
  /\ \/ /\ timers > 0
        /\ timer' = "callback"
        /\ firing' = "own"
     \/ /\ timers > 0 /\ torn
        /\ timer' \in {"callback", "pop"}
        /\ firing' = "stale"
     \/ /\ timers = 0 \/ torn
        /\ timer' = "turn"
        /\ UNCHANGED firing
  /\ UNCHANGED <<flags, queue, timers, torn, main, tty, socket, pkt, udp,
                 status>>

(* Mutant: the callback does not look at the state of the smart controller. *)
TimerCallbackUngated ==
  /\ Running
  /\ timer = "callback"
  /\ timer' = "lock"
  /\ UNCHANGED <<flags, queue, heap, main, tty, socket, pkt, udp, status>>

(* timeout_cb_func_discovery_req: with the smart controller alive there is
   nothing to do, nor without a packet, which only a timer that was freed may
   be; otherwise the packet goes into the rx queue and the timer is armed
   again. *)
TimerCallback ==
  /\ Running
  /\ timer = "callback"
  /\ \/ timer' = IF alive THEN "pop" ELSE "lock"
     \/ firing = "stale" /\ timer' = "pop"
  /\ UNCHANGED <<flags, queue, heap, main, tty, socket, pkt, udp, status>>

TimerLock ==
  /\ Running
  /\ timer = "lock"
  /\ qmutex = "none"
  /\ qmutex' = "timer"
  /\ timer' = "store"
  /\ UNCHANGED <<flags, rxq, heap, main, tty, socket, pkt, udp, status>>

TimerStore ==
  /\ Running
  /\ timer = "store"
  /\ Store(IF firing = "own" THEN "retry" ELSE "freed")
  /\ qmutex' = "none"
  /\ timer' = "readd"
  /\ UNCHANGED <<flags, heap, main, tty, socket, pkt, udp, status>>

(* Mutant: the timer is not armed again. *)
TimerReaddForgotten ==
  /\ Running
  /\ timer = "readd"
  /\ timer' = "pop"
  /\ UNCHANGED <<flags, queue, heap, main, tty, socket, pkt, udp, status>>

TimerReadd ==
  /\ Running
  /\ timer = "readd"
  /\ HeapOp(timers + 1, IF firing = "stale" THEN 1 ELSE 2)
  /\ timer' = "pop"
  /\ UNCHANGED <<flags, queue, firing, main, tty, pkt, udp, status>>

(* timer_heap_pop frees the root and its user_data, wherever else it is. *)
TimerPop ==
  /\ Running
  /\ timer \in {"pop", "discard"}
  /\ HeapOp(timers - 1, IF Rearmed THEN 1 ELSE 0)
  /\ rxq' = [i \in DOMAIN rxq |-> IF rxq[i] = "retry" THEN "freed" ELSE rxq[i]]
  /\ pkt' = IF pkt = "retry" THEN "freed" ELSE pkt
  /\ firing' = "none"
  /\ timer' = IF timer = "discard" THEN "turn" ELSE "tick"
  /\ UNCHANGED <<flags, qmutex, main, tty, udp, status>>

(* The callback copies, and prints, a buffer that was freed after the request
   was sent, and for a frame it writes past the end of the copy; the pop frees
   a packet already freed; or what the heap points to was freed, or is not
   there. *)
TimerUseFreed ==
  /\ Running
  /\ \/ timer = "readd"
     \/ timer = "pop" /\ firing = "freed"
     \/ /\ timer \in {"top", "tick", "callback", "readd", "pop", "discard"}
        /\ socket = "arm" \/ torn
  /\ Crash

TimerTurn ==
  /\ Running
  /\ timer = "turn"
  /\ timer' = IF gFlagExit THEN "done" ELSE "top"
  /\ UNCHANGED <<flags, queue, heap, main, tty, socket, pkt, udp, status>>

Timer ==
  TimerTop \/ TimerInvalid \/ TimerTick \/ TimerCallback \/ TimerLock
  \/ TimerStore
  \/ TimerReadd \/ TimerPop \/ TimerUseFreed \/ TimerTurn

-----------------------------------------------------------------------------
(* The environment: SIGINT, SIGTERM or SIGQUIT; a datagram from the smart
   controller or anyone else. *)

sighandler ==
  /\ Running
  /\ ~ gFlagExit
  /\ gFlagExit' = TRUE
  /\ UNCHANGED <<gNetworkRole, alive, queue, heap, main, tty, socket, timer,
                 pkt, udp, status>>

Datagram ==
  /\ Running
  /\ port /\ socket # "done"
  /\ inbox < MaxInbox
  /\ inbox' = inbox + 1
  /\ UNCHANGED <<flags, queue, heap, main, tty, socket, timer, pkt, port,
                 isDumped, status>>

(* A process that has ended stays so. *)
Ended == ~ Running /\ UNCHANGED vars

Next ==
  \/ Main \/ Tty \/ Socket \/ Timer
  \/ sighandler \/ Datagram
  \/ Ended

(* Each thread is scheduled again and again; an endless dump need not end in
   a crash.  Nothing more is assumed: a mutex may be granted to the same
   thread every time, the signal and the datagrams may never come. *)
Fairness ==
  /\ WF_vars(Main)
  /\ WF_vars(tty # "dump" /\ Tty)
  /\ WF_vars(socket # "dump" /\ Socket)
  /\ WF_vars(Timer)

Spec == Init /\ [][Next]_vars

FairSpec == Spec /\ Fairness

-----------------------------------------------------------------------------
(* The variables stay in range. *)
TypeOK ==
  /\ gFlagExit \in BOOLEAN /\ gNetworkRole \in 0 .. 1 /\ alive \in BOOLEAN
  /\ rxq \in Seq(Packets) /\ Len(rxq) <= MaxQueue
  /\ qmutex \in {"none", "tty", "socket", "timer"}
  /\ timers \in Nat /\ torn \in BOOLEAN
  /\ firing \in {"none", "own", "freed", "stale"}
  /\ main \in {"create_tty", "create_socket", "create_timer", "join_tty",
               "join_socket", "join_timer", "deinit", "return", "destroyed"}
  /\ tty \in {"none", "check", "write", "read", "dump", "lock", "store",
              "done"}
  /\ socket \in {"none", "setup", "first", "poll", "lock", "retrieve", "send",
                 "arm", "arm_over", "free", "receive", "dump", "turn",
                 "done"}
  /\ timer \in {"none", "top", "tick", "callback", "lock", "store", "readd",
                "pop", "discard", "turn", "done"}
  /\ pkt \in Packets \union {"none"}
  /\ port \in BOOLEAN /\ inbox \in Nat /\ isDumped \in BOOLEAN
  /\ status \in {"running", "exited", "crashed"}

(* The threads that are inside the rx queue. *)
InQueue(t) ==
  \/ t = "tty" /\ tty = "store"
  \/ t = "socket" /\ socket \in {"first", "retrieve"}
  \/ t = "timer" /\ timer = "store"
  \/ t = "main" /\ main = "deinit" /\ timer # "none"

(* No two threads are inside the rx queue at once, although the first
   discovery request is stored and the queue destroyed without the lock
   (unless main gives up because a thread could not be created). *)
RxqExclusive ==
  \A t, u \in {"tty", "socket", "timer", "main"} :
    InQueue(t) /\ InQueue(u) => t = u

(* The first datagram sent is the discovery request: as long as it is in the
   queue nothing else is sent, and nothing is queued before it. *)
DiscoveryFirst ==
  /\ socket \in {"none", "setup", "first"} => rxq = <<>>
  /\ socket = "send" /\ pkt # "request"
       => \A i \in DOMAIN rxq : rxq[i] # "request"

(* The parts of the inductive invariant behind the three properties above and
   below.  The mutex is held by the thread that is inside the queue; *)
LockOwned ==
  /\ qmutex = "tty" <=> tty = "store"
  /\ qmutex = "socket" <=> socket = "retrieve"
  /\ qmutex = "timer" <=> timer = "store"

(* until the socket thread enters its loop the other two threads have nothing
   to do, since only that loop makes the smart controller alive and arms
   timers; *)
BeforeLoop == socket \in {"none", "setup", "first"}

Gated ==
  /\ BeforeLoop => ~ alive /\ timers = 0 /\ rxq = <<>>
  /\ tty \in {"write", "read", "lock", "store"} => alive
  /\ timer \notin {"none", "top", "turn", "done"} => ~ BeforeLoop
  /\ Running /\ socket = "receive" => inbox > 0

(* main starts each thread once, and destroys the queue after it has joined
   them or when one could not be created; *)
Joined ==
  /\ main = "create_tty" => tty = "none"
  /\ main \in {"create_tty", "create_socket"} => socket = "none"
  /\ main \in {"create_tty", "create_socket", "create_timer"} => timer = "none"
  /\ main \in {"join_socket", "join_timer"} => tty = "done"
  /\ main = "join_timer" => socket = "done"
  /\ main \in {"deinit", "return", "destroyed"} /\ timer # "none"
       => tty = "done" /\ socket = "done" /\ timer = "done"

(* the discovery request is at the head of the queue until it is taken; *)
RequestAtHead ==
  /\ \A i \in DOMAIN rxq : rxq[i] = "request" => i = 1
  /\ socket = "send" => \A i \in DOMAIN rxq : rxq[i] # "request"

(* and while its callback runs the firing timer is the root, with another
   behind it once the callback has armed it again. *)
RootKept ==
  /\ timer \in {"callback", "lock", "store", "readd", "pop", "discard"}
       => timers > 0
  /\ Rearmed => timers >= 2
  /\ timer = "discard" => firing = "stale"
  /\ socket = "arm_over" => torn

IInv == TypeOK /\ LockOwned /\ Gated /\ Joined /\ RequestAtHead /\ RootKept

(* Once a discovery request has been sent and its timer armed, a timer stays
   armed until the smart controller has answered, whatever the races between
   the two threads that use the heap, unless they have fired a timer that was
   freed. *)
TimerKept ==
  [][timers > 0 /\ ~ alive' /\ firing # "stale" => timers' > 0]_vars

(* After a signal the UART thread leaves its loop, unless a read has failed. *)
TtyStops ==
  gFlagExit ~> tty \in {"none", "done", "dump"} \/ status # "running"

(* After a signal, and once the smart controller has been alive, every thread
   leaves its loop and the process ends, unless one of the two that dump what
   they read or send is caught in a dump without an end. *)
DaemonStops ==
  gFlagExit /\ alive ~> tty = "dump" \/ socket = "dump" \/ status # "running"

-----------------------------------------------------------------------------
(* What comments say, and the code does not do. *)

(* threadSocket.c:134: the memory of a timer's packet is released when the
   timer is popped; the queue is not left with it.  (Shutdown frees the queue
   as a whole.) *)
NoFreedPacketQueued ==
  main # "destroyed" => \A i \in DOMAIN rxq : rxq[i] # "freed"

(* threadSocket.c:135: only the discovery request needs a response, and so the
   timer that asks for one again; a KNX frame is sent and forgotten. *)
OnlyRequestTimed == socket \in {"arm", "arm_over"} => pkt # "frame"
=============================================================================

----------------------------- MODULE SmcDaemon -----------------------------
(***************************************************************************)
(* The smc daemon of src/smc: main, the APP thread (smc_thread_app), the   *)
(* KNX thread (smc_thread_knx) and the UDP socket they share.  As built    *)
(* only the APP thread is started: the start of the other is under #if 0;  *)
(* here main may be built with it or without.                              *)
(*                                                                         *)
(* DieWithUserMessage and DieWithSystemMessage only print, so a call that  *)
(* fails changes nothing about where a thread goes next.  A datagram is    *)
(* known by its sender and by its header.  The client table has one entry  *)
(* for all knx daemons: a later one displaces an earlier.  asked, told,    *)
(* entered and registrant are not in the code: they record what happened.  *)
(***************************************************************************)
EXTENDS Integers, Sequences

CONSTANTS
  Builds,      \* whether main starts the KNX thread: {FALSE} as built
  Clients,     \* addresses that send datagrams
  NoAddr,      \* the address before the first datagram
  MaxInbox,    \* datagrams the UDP socket buffers
  ShortSent    \* whether anyone sends a datagram shorter than a header

ASSUME BuildsAssumption == Builds \subseteq BOOLEAN
ASSUME ClientsAssumption ==
  NoAddr \notin Clients /\ MaxInbox \in Nat /\ ShortSent \in BOOLEAN

VARIABLES
  gDoExit,     \* set by the signal handler
  main, pc,    \* where main and each thread are
  writable,    \* fds[1].revents of each thread
  clntAddr,    \* local clntAddr of each thread
  isRequest,   \* whether the KNX thread's buffer begins with that header
  alive,       \* the classes whose gClientInfo[].state is CLIENT_STATE_ALIVE
  srcAddr,     \* gClientInfo[INFO_NR_KNX].client_info.src_addr: whose clntAddr
  inbox,       \* datagrams that have arrived
  status,      \* the process: "running", "exited" or "crashed"
  asked,       \* senders of the discovery requests that were received
  told,        \* clients a discovery response was sent to
  entered,     \* clients that the entry of INFO_NR_KNX was written for
  registrant   \* the last of them, whom it stands for

info == <<alive, srcAddr>>
local == <<writable, clntAddr, isRequest>>
history == <<asked, told, entered, registrant>>
vars == <<gDoExit, main, pc, local, info, inbox, status, history>>

INFO_NR_KNX == 1
AllThreads == {"app", "knx"}
Datagrams == [from : Clients, kind : {"request", "other"}
                                      \union (IF ShortSent THEN {"short"} ELSE {})]

(* gClientInfo when the program starts. *)
NoClients == alive = {} /\ srcAddr = "null"

Init ==
  /\ gDoExit = FALSE
  /\ main = "create_knx"
  /\ pc = [t \in AllThreads |-> "none"]
  /\ writable = [t \in AllThreads |-> FALSE]
  /\ clntAddr = [t \in AllThreads |-> NoAddr]
  /\ isRequest = FALSE
  /\ NoClients
  /\ inbox = <<>>
  /\ status = "running"
  /\ asked = {} /\ told = {} /\ entered = {} /\ registrant = NoAddr

Running == status = "running"

Crash ==
  /\ status' = "crashed"
  /\ UNCHANGED <<gDoExit, main, pc, local, info, inbox, history>>

-----------------------------------------------------------------------------
(* main.  Only the APP thread is joined.  The socket is closed before main
   returns, and with it the process. *)

CreateKnx ==
  /\ Running
  /\ main = "create_knx"
  /\ \/ FALSE \in Builds /\ main' = "create_app" /\ UNCHANGED pc
     \/ /\ TRUE \in Builds
        /\ \/ main' = "create_app" /\ pc' = [pc EXCEPT !["knx"] = "poll"]
           \/ main' = "close" /\ UNCHANGED pc
  /\ UNCHANGED <<gDoExit, local, info, inbox, status, history>>

CreateApp ==
  /\ Running
  /\ main = "create_app"
  /\ \/ main' = "join" /\ pc' = [pc EXCEPT !["app"] = "poll"]
     \/ main' = "close" /\ UNCHANGED pc
  /\ UNCHANGED <<gDoExit, local, info, inbox, status, history>>

Join ==
  /\ Running
  /\ main = "join"
  /\ pc["app"] = "done"
  /\ main' = "close"
  /\ UNCHANGED <<gDoExit, pc, local, info, inbox, status, history>>

Close ==
  /\ Running
  /\ main = "close"
  /\ main' = "return"
  /\ UNCHANGED <<gDoExit, pc, local, info, inbox, status, history>>

Closed == main = "return"

Exit ==
  /\ Running
  /\ main = "return"
  /\ status' = "exited"
  /\ UNCHANGED <<gDoExit, main, pc, local, info, inbox, history>>

Main == CreateKnx \/ CreateApp \/ Join \/ Close \/ Exit

-----------------------------------------------------------------------------
(* What both threads do. *)

(* Mutant: the socket is read whether or not poll reports it readable. *)
PollIgnored(t) ==
  /\ Running
  /\ pc[t] = "poll"
  /\ pc' = [pc EXCEPT ![t] = "recv"]
  /\ UNCHANGED <<gDoExit, main, local, info, inbox, status, history>>

(* poll times out or fails, or reports the socket readable, writable or both.
   A closed socket has an event too, and any event counts as readable. *)
Poll(t) ==
  /\ Running
  /\ pc[t] = "poll"
  /\ \E w \in BOOLEAN :
       /\ writable' = [writable EXCEPT ![t] = w]
       /\ \/ ~ w /\ pc' = [pc EXCEPT ![t] = "turn"]
          \/ w /\ ~ Closed /\ pc' = [pc EXCEPT ![t] = "write"]
          \/ (inbox # <<>> \/ Closed) /\ pc' = [pc EXCEPT ![t] = "recv"]
  /\ UNCHANGED <<gDoExit, main, clntAddr, isRequest, info, inbox, status,
                 history>>

(* recvfrom blocks until there is a datagram, whatever poll said before. *)
Received(t) ==
  /\ Running
  /\ pc[t] = "recv"
  /\ ~ Closed
  /\ inbox # <<>>
  /\ inbox' = Tail(inbox)
  /\ clntAddr' = [clntAddr EXCEPT ![t] = Head(inbox).from]
  /\ asked' = IF Head(inbox).kind = "request"
              THEN asked \union {Head(inbox).from}
              ELSE asked

(* recvfrom on a closed socket fails, which only prints a message: dump_buffer
   gets -1 for a length. *)
RecvFails(t) ==
  /\ Running
  /\ pc[t] = "recv"
  /\ Closed
  /\ pc' = [pc EXCEPT ![t] = "dump"]
  /\ UNCHANGED <<gDoExit, main, local, info, inbox, status, history>>

(* The 16-bit index of dump_buffer never gets to that length: the loop reads
   on behind the buffer, for ever or until that stops the process. *)
Dump(t) ==
  /\ Running
  /\ pc[t] = "dump"
  /\ UNCHANGED vars \/ Crash

(* What follows the read branch. *)
AfterRead(t) == IF writable[t] THEN "write" ELSE "turn"

(* The end of the loop. *)
Turn(t) ==
  /\ Running
  /\ pc[t] \in {"turn", "not_alive"}
  /\ pc' = [pc EXCEPT ![t] = IF gDoExit THEN "done" ELSE "poll"]
  /\ UNCHANGED <<gDoExit, main, local, info, inbox, status, history>>

-----------------------------------------------------------------------------
(* smc_thread_app: smc_app_handle_protocol only prints; the test buffer goes
   to the last sender. *)

AppReceive ==
  /\ Received("app")
  /\ pc' = [pc EXCEPT !["app"] = AfterRead("app")]
  /\ UNCHANGED <<gDoExit, main, writable, isRequest, info, status, told,
                 entered, registrant>>

AppSend ==
  /\ Running
  /\ pc["app"] = "write"
  /\ pc' = [pc EXCEPT !["app"] = "turn"]
  /\ UNCHANGED <<gDoExit, main, local, info, inbox, status, history>>

App ==
  Poll("app") \/ AppReceive \/ RecvFails("app") \/ Dump("app") \/ AppSend
  \/ Turn("app")

-----------------------------------------------------------------------------
(* smc_thread_knx *)

(* Mutant: the header of an earlier datagram is left in the buffer. *)
KnxReceiveStale ==
  /\ Received("knx")
  /\ isRequest' = (isRequest \/ Head(inbox).kind = "request")
  /\ pc' = [pc EXCEPT !["knx"] = "handle"]
  /\ UNCHANGED <<gDoExit, main, writable, info, status, told, entered,
                 registrant>>

(* The buffer is not cleared: a datagram shorter than a header leaves part of
   an earlier one in place. *)
KnxReceive ==
  /\ Received("knx")
  /\ isRequest' \in IF Head(inbox).kind = "short" THEN BOOLEAN
                    ELSE {Head(inbox).kind = "request"}
  /\ pc' = [pc EXCEPT !["knx"] = "handle"]
  /\ UNCHANGED <<gDoExit, main, writable, info, status, told, entered,
                 registrant>>

(* Mutant: the cases of the switch the other way round, without breaks. *)
KnxHandleFallsThrough ==
  /\ Running
  /\ pc["knx"] = "handle"
  /\ pc' = [pc EXCEPT !["knx"] = "respond"]
  /\ UNCHANGED <<gDoExit, main, local, info, inbox, status, history>>

(* smc_knx_handle_protocol: a request is answered and then, for want of a
   break, printed like any other packet. *)
KnxHandle ==
  /\ Running
  /\ pc["knx"] = "handle"
  /\ pc' = [pc EXCEPT !["knx"] = IF isRequest THEN "respond"
                                 ELSE AfterRead("knx")]
  /\ UNCHANGED <<gDoExit, main, local, info, inbox, status, history>>

(* smc_knx_send_discovery_resp, to the sender of the request; the result is
   only printed. *)
KnxRespond ==
  /\ Running
  /\ pc["knx"] = "respond"
  /\ told' \in {told, told \union {clntAddr["knx"]}}
  /\ pc' = [pc EXCEPT !["knx"] = "register"]
  /\ UNCHANGED <<gDoExit, main, local, info, inbox, status, asked, entered,
                 registrant>>

(* Mutant: the range check of set_real_time_info refuses the KNX class. *)
KnxRegisterRefused ==
  /\ Running
  /\ pc["knx"] = "register"
  /\ pc' = [pc EXCEPT !["knx"] = AfterRead("knx")]
  /\ UNCHANGED <<gDoExit, main, local, info, inbox, status, history>>

(* set_real_time_info keeps a pointer to the thread's own clntAddr.  Whoever
   the entry was written for before is no longer in it. *)
KnxRegister ==
  /\ Running
  /\ pc["knx"] = "register"
  /\ alive' = alive \union {INFO_NR_KNX}
  /\ srcAddr' = "knx"
  /\ registrant' = clntAddr["knx"]
  /\ entered' = entered \union {clntAddr["knx"]}
  /\ pc' = [pc EXCEPT !["knx"] = AfterRead("knx")]
  /\ UNCHANGED <<gDoExit, main, local, inbox, status, asked, told>>

(* real_time_info points to the entry of INFO_NR_KNX already and is indexed
   by INFO_NR_KNX once more: the state tested is that of another class, which
   nothing makes alive, and the send that follows is never reached. *)
KnxNotAlive ==
  /\ Running
  /\ pc["knx"] = "write"
  /\ INFO_NR_KNX + INFO_NR_KNX \notin alive
  /\ pc' = [pc EXCEPT !["knx"] = "not_alive"]
  /\ UNCHANGED <<gDoExit, main, local, info, inbox, status, history>>

Knx ==
  Poll("knx") \/ KnxReceive \/ RecvFails("knx") \/ Dump("knx") \/ KnxHandle
  \/ KnxRespond \/ KnxRegister \/ KnxNotAlive \/ Turn("knx")

-----------------------------------------------------------------------------
(* SIGINT, SIGTERM or SIGQUIT: the handler may run in a thread that is blocked
   in recvfrom, which then fails. *)
sighandler ==
  /\ Running
  /\ ~ gDoExit
  /\ gDoExit' = TRUE
  /\ \/ UNCHANGED pc
     \/ /\ inbox = <<>> /\ ~ Closed
        /\ \E t \in AllThreads :
             pc[t] = "recv" /\ pc' = [pc EXCEPT ![t] = "dump"]
  /\ UNCHANGED <<main, local, info, inbox, status, history>>

Datagram ==
  /\ Running
  /\ Len(inbox) < MaxInbox
  /\ \E d \in Datagrams : inbox' = Append(inbox, d)
  /\ UNCHANGED <<gDoExit, main, pc, local, info, status, history>>

(* A process that has ended stays so. *)
Ended == ~ Running /\ UNCHANGED vars

Next == Main \/ App \/ Knx \/ sighandler \/ Datagram \/ Ended

(* Each thread is scheduled again and again; an endless dump need not end in
   a crash.  Nothing is assumed of signals and datagrams. *)
Fairness ==
  /\ WF_vars(Main)
  /\ WF_vars(pc["app"] # "dump" /\ App)
  /\ WF_vars(pc["knx"] # "dump" /\ Knx)

Spec == Init /\ [][Next]_vars

FairSpec == Spec /\ Fairness

-----------------------------------------------------------------------------
(* The variables stay in range. *)
TypeOK ==
  /\ gDoExit \in BOOLEAN
  /\ main \in {"create_knx", "create_app", "join", "close", "return"}
  /\ pc \in [AllThreads -> {"none", "poll", "recv", "dump", "write", "handle",
                         "respond", "register", "not_alive", "turn", "done"}]
  /\ writable \in [AllThreads -> BOOLEAN]
  /\ clntAddr \in [AllThreads -> Clients \union {NoAddr}]
  /\ isRequest \in BOOLEAN
  /\ alive \subseteq {INFO_NR_KNX}
  /\ srcAddr \in {"null", "knx"}
  /\ inbox \in Seq(Datagrams)
  /\ status \in {"running", "exited", "crashed"}
  /\ asked \subseteq Clients
  /\ told \subseteq Clients /\ entered \subseteq Clients
  /\ registrant \in Clients \union {NoAddr}

(* Each thread is started once. *)
Started ==
  /\ main = "create_knx" => pc["knx"] = "none"
  /\ main \in {"create_knx", "create_app"} => pc["app"] = "none"

(* The request in hand is one that was received: while the KNX thread handles
   it, its sender is in clntAddr. *)
SenderKnown ==
  pc["knx"] \in {"handle", "respond", "register"} => clntAddr["knx"] \in Clients

InHand ==
  /\ pc["knx"] \in {"respond", "register"} => clntAddr["knx"] \in asked
  /\ pc["knx"] = "handle" /\ isRequest => clntAddr["knx"] \in asked

(* The clients whose entry a later request was written over. *)
Displaced == entered \ {registrant}

(* Each client that was told that the smart controller is there is the one in
   the entry of its class, or was there until another client's request was
   written over it, or is about to be written: the response goes out before
   the registration, and no answer is left without one.  Once written the
   entry is never empty. *)
ToldIsEntered ==
  /\ \A c \in told :
       \/ c = registrant \/ c \in Displaced
       \/ pc["knx"] = "register" /\ clntAddr["knx"] = c
  /\ entered # {} => registrant \in Clients
  /\ registrant \in Clients => registrant \in entered /\ INFO_NR_KNX \in alive

(* Only senders of a discovery request are answered and registered, and so only
   they displace another, although the cases of the switch run into each
   other, if every datagram is long enough for a header. *)
OnlyAskersServed ==
  /\ told \subseteq asked /\ entered \subseteq asked
  /\ INFO_NR_KNX \in alive => srcAddr = "knx" /\ registrant \in asked

(* The APP thread on its own, which is the daemon as built, never waits in
   recvfrom: between poll and recvfrom nobody else takes the datagram. *)
AloneNeverWaits ==
  pc["knx"] = "none" /\ pc["app"] = "recv" => inbox # <<>> \/ Closed

IInv ==
  /\ TypeOK /\ Started /\ SenderKnown /\ ToldIsEntered /\ AloneNeverWaits
  /\ ~ ShortSent => InHand /\ OnlyAskersServed

(* After a signal the process ends, unless a read has failed.  As built no
   thread ever waits in recvfrom; with both threads one may, for the datagram
   that the other has taken, and nobody else's signal wakes it. *)
SmcStops ==
  gDoExit ~> \/ status # "running"
             \/ \E t \in AllThreads : pc[t] = "dump"
             \/ /\ pc["knx"] # "none"
                /\ inbox = <<>>
                /\ \E t \in AllThreads : pc[t] = "recv"
=============================================================================

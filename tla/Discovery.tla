----------------------------- MODULE Discovery -----------------------------
(***************************************************************************)
(* Discovery from end to end: knx daemons (src/knx), the smart controller  *)
(* (src/smc) and the UDP network between them, which loses datagrams,      *)
(* delivers them late, out of order or more than once.  Either program may *)
(* stop at any time and be started again; neither keeps anything.          *)
(*                                                                         *)
(* KnxDaemon and SmcDaemon model what each program does inside; here a     *)
(* daemon is its request, whether a timer is armed, and whether a retry is *)
(* in its rx queue, and of the two threads of the smart controller the APP *)
(* thread only takes datagrams from the other.  The test datagram of the   *)
(* APP thread says nothing to the other side, nor do most KNX frames, and  *)
(* they are left out of the network.  Nobody else sends anything here: a   *)
(* daemon that hears a response takes it from whoever sent it and only     *)
(* prints that this is not its server, which is in KnxDaemon.              *)
(*                                                                         *)
(* The table of the smart controller has one entry for all knx daemons.    *)
(* asked and told, which outlive a run of the smart controller, and        *)
(* answered and entered, which do not, are not in the code.                *)
(***************************************************************************)
CONSTANTS
  Daemons,     \* the addresses of the knx daemons
  NoAddr,      \* the address in clntAddr before the first datagram
  Builds       \* whether smc starts the KNX thread: {FALSE} as built

ASSUME DaemonsAssumption == NoAddr \notin Daemons
ASSUME BuildsAssumption == Builds \subseteq BOOLEAN

VARIABLES
  first,       \* the first request of each daemon
  armed,       \* the daemons with a timer in their heap
  queued,      \* those with a retry in their rx queue
  alive,       \* those whose gServerInfo says STATE_ALIVE
  net,         \* datagrams on their way
  built,       \* whether the KNX thread runs
  pc,          \* where it is
  clntAddr,    \* its local clntAddr
  entry,       \* the daemon gClientInfo[INFO_NR_KNX] was last written for
  asked,       \* the daemons it has taken a request of
  told,        \* the daemons it has sent a response to
  answered,    \* those of them this run of it has sent one to
  entered      \* those this run of it has written the entry for

knx == <<first, armed, queued, alive>>
smc == <<built, pc, clntAddr, entry>>
history == <<asked, told, answered, entered>>
vars == <<knx, net, smc, history>>

(* The datagrams to and from a daemon.  A damaged one comes from a packet that
   was freed while it was in the queue, or from the buffer that was. *)
Datagram(kind, k) == [kind |-> kind, knx |-> k]
Requests ==
  {Datagram(kind, k) : kind \in {"request", "damaged"}, k \in Daemons}
Responses == {Datagram("response", k) : k \in Daemons}

Init ==
  /\ first = [k \in Daemons |-> "unsent"]
  /\ armed = {} /\ queued = {} /\ alive = {}
  /\ net = {}
  /\ built \in Builds
  /\ pc = "idle" /\ clntAddr = NoAddr /\ entry = NoAddr
  /\ asked = {} /\ told = {} /\ answered = {} /\ entered = {}

(* A datagram that is delivered may come again. *)
Delivered(m) == m \in net /\ net' \in {net, net \ {m}}

-----------------------------------------------------------------------------
(* The knx daemons. *)

(* Mutant: the timer is armed whatever sendto returned. *)
SendFirstArmed(k) ==
  /\ first[k] = "unsent"
  /\ \/ /\ first' = [first EXCEPT ![k] = "sent"]
        /\ net' = net \union {Datagram("request", k)}
     \/ /\ first' = [first EXCEPT ![k] = "refused"]
        /\ UNCHANGED net
  /\ armed' = armed \union {k}
  /\ UNCHANGED <<queued, alive, smc, history>>

(* The first request is sent and a timer armed; or sendto fails or sends part
   of it, and that is all. *)
SendFirst(k) ==
  /\ first[k] = "unsent"
  /\ \/ /\ first' = [first EXCEPT ![k] = "sent"]
        /\ net' = net \union {Datagram("request", k)}
        /\ armed' = armed \union {k}
     \/ /\ first' = [first EXCEPT ![k] = "refused"]
        /\ UNCHANGED <<armed, net>>
  /\ UNCHANGED <<queued, alive, smc, history>>

(* Mutant: the callback does not look at the state of the smart controller. *)
TimeoutUngated(k) ==
  /\ k \in armed
  /\ queued' = queued \union {k}
  /\ UNCHANGED <<first, armed, alive, net, smc, history>>

(* timeout_cb_func_discovery_req, for the timer at the root: it queues the
   packet and is armed again, or, with the smart controller alive, is popped
   and with it all that are left. *)
Timeout(k) ==
  /\ k \in armed
  /\ \/ /\ k \notin alive
        /\ queued' = queued \union {k}
        /\ UNCHANGED armed
     \/ /\ k \in alive
        /\ armed' = armed \ {k}
        /\ UNCHANGED queued
  /\ UNCHANGED <<first, alive, net, smc, history>>

(* The packet was freed when its timer was popped: it may be sent as it was,
   sent damaged, or not sent, and may be taken for one that needs a timer. *)
SendRetry(k) ==
  /\ k \in queued
  /\ queued' = queued \ {k}
  /\ \/ /\ \E kind \in {"request", "damaged"} :
             net' = net \union {Datagram(kind, k)}
        /\ armed' \in {armed, armed \union {k}}
     \/ UNCHANGED <<armed, net>>
  /\ UNCHANGED <<first, alive, smc, history>>

(* A KNX frame is read and sent.  Its type was never written: it may be taken
   for a packet that needs a response, and a timer be armed for it. *)
SendFrame(k) ==
  /\ k \in alive
  /\ armed' \in {armed, armed \union {k}}
  /\ UNCHANGED <<first, queued, alive, net, smc, history>>

(* A KNX frame is sent without a header of its own.  One that begins like a
   discovery request is taken for one; one that is shorter than a header
   leaves that of an earlier datagram in place. *)
SendFrameTaken(k) ==
  /\ k \in alive
  /\ armed' \in {armed, armed \union {k}}
  /\ \E kind \in {"request", "damaged"} : net' = net \union {Datagram(kind, k)}
  /\ UNCHANGED <<first, queued, alive, smc, history>>

(* Its socket has a port once the daemon has sent, by chance that of an earlier
   run of it. *)
Receive(k) ==
  /\ first[k] # "unsent"
  /\ Delivered(Datagram("response", k))
  /\ alive' = alive \union {k}
  /\ UNCHANGED <<first, armed, queued, smc, history>>

(* The daemon is stopped, or the use of a freed packet stops it, and it is
   started again. *)
KnxRestart(k) ==
  /\ first' = [first EXCEPT ![k] = "unsent"]
  /\ armed' = armed \ {k} /\ queued' = queued \ {k} /\ alive' = alive \ {k}
  /\ UNCHANGED <<net, smc, history>>

Knx(k) ==
  SendFirst(k) \/ Timeout(k) \/ SendRetry(k) \/ SendFrame(k)
  \/ SendFrameTaken(k) \/ Receive(k) \/ KnxRestart(k)

-----------------------------------------------------------------------------
(* The smart controller. *)

(* Mutant: the KNX thread is started after all. *)
KnxReceiveUnbuilt ==
  /\ pc = "idle"
  /\ \E m \in Requests :
       /\ Delivered(m)
       /\ \/ /\ pc' = "respond"
             /\ asked' = asked \union {m.knx}
          \/ m.kind = "damaged" /\ UNCHANGED <<pc, asked>>
       /\ clntAddr' = m.knx
  /\ UNCHANGED <<knx, built, entry, told, answered, entered>>

(* Mutant: the cases of the switch the other way round, without breaks:
   whatever came is answered. *)
KnxReceiveFallsThrough ==
  /\ built
  /\ pc = "idle"
  /\ \E m \in Requests :
       /\ Delivered(m)
       /\ asked' = IF m.kind = "request" THEN asked \union {m.knx} ELSE asked
       /\ clntAddr' = m.knx
  /\ pc' = "respond"
  /\ UNCHANGED <<knx, built, entry, told, answered, entered>>

(* The KNX thread takes a datagram.  One that is too short leaves the header
   of an earlier one in the buffer. *)
KnxReceive ==
  /\ built
  /\ pc = "idle"
  /\ \E m \in Requests :
       /\ Delivered(m)
       /\ \/ /\ pc' = "respond"
             /\ asked' = asked \union {m.knx}
          \/ m.kind = "damaged" /\ UNCHANGED <<pc, asked>>
       /\ clntAddr' = m.knx
  /\ UNCHANGED <<knx, built, entry, told, answered, entered>>

(* The response is as long as the request was; sending it may fail. *)
KnxRespond ==
  /\ pc = "respond"
  /\ pc' = "register"
  /\ \/ /\ net' = net \union {Datagram("response", clntAddr)}
        /\ told' = told \union {clntAddr}
        /\ answered' = answered \union {clntAddr}
     \/ UNCHANGED <<net, told, answered>>
  /\ UNCHANGED <<knx, built, clntAddr, entry, asked, entered>>

(* Mutant: set_real_time_info refuses the KNX class. *)
KnxRegisterRefused ==
  /\ pc = "register"
  /\ pc' = "idle"
  /\ UNCHANGED <<knx, net, built, clntAddr, entry, history>>

(* set_real_time_info writes the one entry over, whoever was in it. *)
KnxRegister ==
  /\ pc = "register"
  /\ entry' = clntAddr
  /\ entered' = entered \union {clntAddr}
  /\ pc' = "idle"
  /\ UNCHANGED <<knx, net, built, clntAddr, asked, told, answered>>

SmcRestart ==
  /\ pc' = "idle" /\ clntAddr' = NoAddr /\ entry' = NoAddr
  /\ answered' = {} /\ entered' = {}
  /\ UNCHANGED <<knx, net, built, asked, told>>

-----------------------------------------------------------------------------
(* A datagram is lost, or the APP thread takes it, which answers none. *)
Lose ==
  /\ \E m \in net : net' = net \ {m}
  /\ UNCHANGED <<knx, smc, history>>

Next ==
  \/ \E k \in Daemons : Knx(k)
  \/ KnxReceive \/ KnxRespond \/ KnxRegister \/ SmcRestart
  \/ Lose

Spec == Init /\ [][Next]_vars

-----------------------------------------------------------------------------
(* The variables stay in range. *)
TypeOK ==
  /\ first \in [Daemons -> {"unsent", "sent", "refused"}]
  /\ armed \subseteq Daemons /\ queued \subseteq Daemons
  /\ alive \subseteq Daemons
  /\ net \subseteq Requests \union Responses
  /\ built \in Builds
  /\ pc \in {"idle", "respond", "register"}
  /\ clntAddr \in Daemons \union {NoAddr}
  /\ entry \in Daemons \union {NoAddr}
  /\ asked \subseteq Daemons /\ told \subseteq Daemons
  /\ answered \subseteq Daemons /\ entered \subseteq Daemons

(* The parts of the inductive invariant: a response on its way was sent, and
   the KNX thread answers a daemon that has asked; *)
Answered ==
  /\ \A k \in Daemons : Datagram("response", k) \in net => k \in told
  /\ alive \subseteq told
  /\ pc # "idle" => clntAddr \in asked

(* without a KNX thread nothing is answered; *)
Unanswered == ~ built => pc = "idle" /\ told = {}

(* a daemon whose first request was refused never has a timer armed nor a
   retry queued, unless a response to an earlier run of it comes; *)
RefusedSilent ==
  \A k \in Daemons :
    /\ k \in alive => first[k] # "unsent"
    /\ first[k] # "sent" /\ k \notin alive
         => k \notin armed /\ k \notin queued

(* and whom this run of the smart controller has answered it has entered, or
   is about to; the last of them is in the entry. *)
Introduced ==
  /\ \A k \in answered : k \in entered \/ (pc = "register" /\ clntAddr = k)
  /\ entered \subseteq asked
  /\ IF entered = {} THEN entry = NoAddr ELSE entry \in entered

IInv == TypeOK /\ Answered /\ Unanswered /\ RefusedSilent /\ Introduced

(* As built, with the APP thread alone on the socket, no daemon ever finds the
   smart controller alive, however often it asks. *)
NeverAlive == ~ built => alive = {}

(* The daemons whose entry was written over for another. *)
Displaced == entered \ {entry}

(* A daemon that finds alive the smart controller that has answered it is the
   one in its entry, or was until a daemon that had asked too displaced it, or
   is about to be entered: it is answered before that.  Daemons that an earlier
   run of the smart controller answered are forgotten. *)
AliveIsEntered ==
  /\ \A k \in alive \intersect answered :
       k = entry \/ k \in Displaced \/ (pc = "register" /\ clntAddr = k)
  /\ Displaced # {} => entry \in asked

(* The smart controller has entered nobody and no daemon will ask. *)
Forgotten ==
  /\ entry = NoAddr /\ pc = "idle"
  /\ queued = {} /\ net \intersect Requests = {}
  /\ \A k \in Daemons : k \in alive \/ first[k] = "refused"

(* A smart controller that is started again after every daemon has found it
   stays without a client until a daemon is started again too, or a KNX frame
   happens to look like a request: nothing makes a daemon ask a second time. *)
StaysForgotten ==
  [][Forgotten => \/ Forgotten'
                  \/ \E k \in Daemons :
                       KnxRestart(k) \/ SendFrameTaken(k)]_vars

(* Discovery implements Rendezvous. *)
R == INSTANCE Rendezvous

RefinesRendezvous == R!Spec
=============================================================================

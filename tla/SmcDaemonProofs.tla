-------------------------- MODULE SmcDaemonProofs --------------------------
(***************************************************************************)
(* What the smc daemon keeps for any set of clients, whether or not the    *)
(* KNX thread is started, and however many datagrams the socket buffers;   *)
(* who is served, only if no datagram is shorter than a header.            *)
(***************************************************************************)
EXTENDS SmcDaemon, SequenceTheorems, TLAPS

(* What either thread does to receive a datagram. *)
LEMMA ReceivedFacts ==
  ASSUME TypeOK, NEW t \in AllThreads, Received(t)
  PROVE  /\ Head(inbox) \in Datagrams
         /\ inbox' \in Seq(Datagrams)
         /\ clntAddr' = [clntAddr EXCEPT ![t] = Head(inbox).from]
         /\ asked' \subseteq Clients
         /\ asked \subseteq asked'
         /\ Head(inbox).from \in Clients
         /\ Head(inbox).kind = "request" => Head(inbox).from \in asked'
<1>1. inbox \in Seq(Datagrams) /\ inbox # <<>> /\ inbox' = Tail(inbox)
  BY DEF TypeOK, Received
<1>2. Head(inbox) \in Datagrams /\ Tail(inbox) \in Seq(Datagrams)
  BY <1>1, HeadTailProperties
<1> QED BY <1>1, <1>2 DEF Received, TypeOK, Datagrams

(* The actions that change only where a thread is, or end the process. *)
Moves ==
  \/ CreateKnx \/ CreateApp \/ Join \/ Close \/ Exit
  \/ AppSend \/ KnxHandle \/ KnxNotAlive
  \/ \E t \in AllThreads : Poll(t) \/ RecvFails(t) \/ Dump(t) \/ Turn(t)

LEMMA MovesType ==
  ASSUME TypeOK, Moves
  PROVE  TypeOK'
<1> USE DEF TypeOK, info, local, history
<1>1. CASE CreateKnx \/ CreateApp \/ Join \/ Close \/ Exit
  BY <1>1 DEF CreateKnx, CreateApp, Join, Close, Exit, AllThreads
<1>2. CASE AppSend \/ KnxHandle \/ KnxNotAlive
  BY <1>2 DEF AppSend, KnxHandle, KnxNotAlive, AfterRead
<1>3. ASSUME NEW t \in AllThreads, Poll(t)
      PROVE  TypeOK'
  BY <1>3 DEF Poll
<1>4. ASSUME NEW t \in AllThreads, RecvFails(t) \/ Dump(t) \/ Turn(t)
      PROVE  TypeOK'
  BY <1>4 DEF RecvFails, Dump, Crash, Turn, vars
<1> QED BY <1>1, <1>2, <1>3, <1>4 DEF Moves

(* They leave the table and the address of the KNX thread alone, and move that
   thread to "respond" only with a request in hand. *)
Quiet ==
  /\ UNCHANGED <<alive, srcAddr, asked, told, entered, registrant, isRequest>>
  /\ clntAddr'["knx"] = clntAddr["knx"]
  /\ pc'["knx"] \in {"handle", "register"} => pc'["knx"] = pc["knx"]
  /\ pc'["knx"] = "respond" =>
       pc["knx"] = "respond" \/ (pc["knx"] = "handle" /\ isRequest)
  /\ pc["knx"] = "register" => pc'["knx"] = "register"

LEMMA MovesQuiet ==
  ASSUME TypeOK, Started, Moves
  PROVE  Quiet
<1> USE DEF TypeOK, Started, Quiet, AllThreads, local, info, history
<1>1. CASE CreateKnx \/ CreateApp \/ Join \/ Close \/ Exit
  BY <1>1 DEF CreateKnx, CreateApp, Join, Close, Exit
<1>2. CASE AppSend \/ KnxHandle \/ KnxNotAlive
  BY <1>2 DEF AppSend, KnxHandle, KnxNotAlive, AfterRead
<1>3. ASSUME NEW t \in AllThreads, Poll(t)
      PROVE  Quiet
  BY <1>3 DEF Poll
<1>4. ASSUME NEW t \in AllThreads, RecvFails(t) \/ Dump(t) \/ Turn(t)
      PROVE  Quiet
  BY <1>4 DEF RecvFails, Dump, Crash, Turn, vars
<1> QED BY <1>1, <1>2, <1>3, <1>4 DEF Moves

(* So do a signal, a datagram that arrives, and a process that has ended. *)
LEMMA EnvironmentQuiet ==
  ASSUME TypeOK, sighandler \/ Datagram \/ Ended
  PROVE  Quiet
BY DEF sighandler, Datagram, Ended, TypeOK, Quiet, AllThreads, local, info,
       history, vars

(* The other actions of the next-state relation. *)
LEMMA NextCases ==
  ASSUME Next
  PROVE  \/ Moves \/ AppReceive \/ KnxReceive \/ KnxRespond \/ KnxRegister
         \/ sighandler \/ Datagram \/ Ended
BY DEF Next, Moves, Main, App, Knx, AllThreads

-----------------------------------------------------------------------------
LEMMA TypeStep ==
  ASSUME IInv, Next
  PROVE  TypeOK'
<1> USE DEF IInv
<1>1. CASE Moves
  BY <1>1, MovesType
<1>2. CASE AppReceive
  <2>1. Received("app")
    BY <1>2 DEF AppReceive
  <2> QED BY <1>2, <2>1, ReceivedFacts
       DEF AppReceive, TypeOK, AllThreads, AfterRead, Datagrams, info
<1>3. CASE KnxReceive
  <2>1. Received("knx")
    BY <1>3 DEF KnxReceive
  <2> QED BY <1>3, <2>1, ReceivedFacts
       DEF KnxReceive, TypeOK, AllThreads, Datagrams, info
<1>4. CASE KnxRespond
  BY <1>4 DEF KnxRespond, SenderKnown, TypeOK, AllThreads, local, info
<1>5. CASE KnxRegister
  BY <1>5 DEF KnxRegister, SenderKnown, TypeOK, AllThreads, AfterRead, local
<1>6. CASE sighandler
  BY <1>6 DEF sighandler, TypeOK, AllThreads, local, info, history
<1>7. CASE Datagram
  <2>1. PICK d \in Datagrams : inbox' = Append(inbox, d)
    BY <1>7 DEF Datagram
  <2>2. inbox' \in Seq(Datagrams)
    BY <2>1, AppendProperties DEF TypeOK
  <2> QED BY <1>7, <2>2 DEF Datagram, TypeOK, local, info, history
<1>8. CASE Ended
  BY <1>8 DEF Ended, TypeOK, vars, local, info, history
<1> QED BY <1>1, <1>2, <1>3, <1>4, <1>5, <1>6, <1>7, <1>8, NextCases

(* Only CreateKnx and CreateApp start a thread, and main goes on. *)
LEMMA StartedStep ==
  ASSUME IInv, Next
  PROVE  Started'
<1> USE DEF IInv, TypeOK, Started, AllThreads
<1>1. CASE CreateKnx \/ CreateApp \/ Join \/ Close \/ Exit
  BY <1>1 DEF CreateKnx, CreateApp, Join, Close, Exit
<1>2. CASE AppSend \/ AppReceive
  BY <1>2 DEF AppSend, AppReceive, Received
<1>3. CASE KnxReceive \/ KnxHandle \/ KnxRespond \/ KnxRegister \/ KnxNotAlive
  BY <1>3 DEF KnxReceive, Received, KnxHandle, KnxRespond, KnxRegister,
              KnxNotAlive
<1>4. ASSUME NEW t \in AllThreads, Poll(t) \/ RecvFails(t) \/ Dump(t) \/ Turn(t)
      PROVE  Started'
  BY <1>4 DEF Poll, RecvFails, Dump, Crash, Turn, vars
<1>5. CASE sighandler \/ Datagram \/ Ended
  BY <1>5 DEF sighandler, Datagram, Ended, vars
<1> QED BY <1>1, <1>2, <1>3, <1>4, <1>5 DEF Next, Main, App, Knx

(* What the KNX thread does with a datagram, and what the APP thread's leaves
   alone. *)
LEMMA AppReceiveFacts ==
  ASSUME TypeOK, AppReceive
  PROVE  /\ UNCHANGED <<alive, srcAddr, told, entered, registrant, isRequest>>
         /\ pc'["knx"] = pc["knx"] /\ clntAddr'["knx"] = clntAddr["knx"]
         /\ asked \subseteq asked'
<1>1. Received("app") /\ "app" \in AllThreads
  BY DEF AppReceive, AllThreads
<1> QED BY <1>1, ReceivedFacts DEF AppReceive, TypeOK, AllThreads, info

LEMMA KnxReceiveFacts ==
  ASSUME TypeOK, KnxReceive
  PROVE  /\ UNCHANGED <<alive, srcAddr, told, entered, registrant>>
         /\ pc["knx"] = "recv" /\ pc'["knx"] = "handle"
         /\ clntAddr'["knx"] = Head(inbox).from
         /\ Head(inbox).from \in Clients
         /\ asked \subseteq asked'
         /\ ~ ShortSent /\ isRequest' => clntAddr'["knx"] \in asked'
<1>1. Received("knx") /\ "knx" \in AllThreads
  BY DEF KnxReceive, AllThreads
<1>2. Head(inbox) \in Datagrams
  BY <1>1, ReceivedFacts
<1>3. ~ ShortSent => Head(inbox).kind # "short"
  BY <1>2 DEF Datagrams
<1>4. isRequest' \in IF Head(inbox).kind = "short" THEN BOOLEAN
                     ELSE {Head(inbox).kind = "request"}
  BY DEF KnxReceive
<1>5. ~ ShortSent /\ isRequest' => Head(inbox).kind = "request"
  BY <1>3, <1>4
<1> QED BY <1>1, <1>5, ReceivedFacts
     DEF KnxReceive, Received, TypeOK, AllThreads, info

(* A datagram in hand has a sender, and who was told is entered next. *)
LEMMA ToldStep ==
  ASSUME IInv, Next
  PROVE  SenderKnown' /\ ToldIsEntered'
<1> USE DEF IInv, SenderKnown, ToldIsEntered, Displaced
<1>1. CASE Moves \/ sighandler \/ Datagram \/ Ended
  <2>1. Quiet
    BY <1>1, MovesQuiet, EnvironmentQuiet
  <2> QED BY <2>1 DEF Quiet
<1>2. CASE AppReceive
  BY <1>2, AppReceiveFacts
<1>3. CASE KnxReceive
  BY <1>3, KnxReceiveFacts
<1>4. CASE KnxRespond
  BY <1>4 DEF KnxRespond, TypeOK, AllThreads, local, info
<1>5. CASE KnxRegister
  <2>1. /\ pc["knx"] = "register"
        /\ pc'["knx"] \notin {"handle", "respond", "register"}
        /\ alive' = alive \union {INFO_NR_KNX}
        /\ registrant' = clntAddr["knx"] /\ clntAddr["knx"] \in Clients
        /\ entered' = entered \union {clntAddr["knx"]}
        /\ told' = told /\ told \subseteq Clients
    BY <1>5 DEF KnxRegister, TypeOK, AllThreads, AfterRead
  <2>2. SenderKnown'
    BY <2>1
  <2>3. \A c \in told : c \in entered \union {clntAddr["knx"]}
    BY <2>1
  <2> QED BY <2>1, <2>2, <2>3
<1> QED BY <1>1, <1>2, <1>3, <1>4, <1>5, NextCases

(* A request is in hand from its reception to its registration; nobody else
   writes the KNX thread's address in between. *)
LEMMA ServedStep ==
  ASSUME IInv, Next, ~ ShortSent
  PROVE  InHand' /\ OnlyAskersServed'
<1> USE DEF IInv, InHand, OnlyAskersServed
<1>1. CASE Moves \/ sighandler \/ Datagram \/ Ended
  <2>1. Quiet
    BY <1>1, MovesQuiet, EnvironmentQuiet
  <2> QED BY <2>1 DEF Quiet
<1>2. CASE AppReceive
  BY <1>2, AppReceiveFacts
<1>3. CASE KnxReceive
  BY <1>3, KnxReceiveFacts
<1>4. CASE KnxRespond
  BY <1>4 DEF KnxRespond, TypeOK, AllThreads, local, info
<1>5. CASE KnxRegister
  BY <1>5 DEF KnxRegister, TypeOK, AllThreads, AfterRead, local
<1> QED BY <1>1, <1>2, <1>3, <1>4, <1>5, NextCases

(* Only its own reception takes a datagram from the APP thread on its own. *)
LEMMA AloneStep ==
  ASSUME IInv, Next
  PROVE  AloneNeverWaits'
<1> USE DEF IInv, TypeOK, AloneNeverWaits, Closed, AllThreads
<1>1. CASE CreateKnx \/ CreateApp \/ Join \/ Close \/ Exit
  BY <1>1 DEF CreateKnx, CreateApp, Join, Close, Exit
<1>2. CASE AppSend \/ KnxHandle \/ KnxNotAlive \/ KnxRespond \/ KnxRegister
  BY <1>2 DEF AppSend, KnxHandle, KnxNotAlive, KnxRespond, KnxRegister,
              AfterRead
<1>3. ASSUME NEW t \in AllThreads, Poll(t)
      PROVE  AloneNeverWaits'
  BY <1>3 DEF Poll
<1>4. ASSUME NEW t \in AllThreads, RecvFails(t) \/ Dump(t) \/ Turn(t)
      PROVE  AloneNeverWaits'
  BY <1>4 DEF RecvFails, Dump, Crash, Turn, vars
<1>5. CASE AppReceive
  BY <1>5 DEF AppReceive, Received, AfterRead
<1>6. CASE KnxReceive
  BY <1>6 DEF KnxReceive, Received
<1>7. CASE sighandler \/ Ended
  BY <1>7 DEF sighandler, Ended, vars
<1>8. CASE Datagram
  <2>1. inbox' # <<>>
    BY <1>8 DEF Datagram
  <2> QED BY <2>1
<1> QED
  BY <1>1, <1>2, <1>3, <1>4, <1>5, <1>6, <1>7, <1>8, NextCases DEF Moves

-----------------------------------------------------------------------------
(* The inductive invariant holds in every reachable state. *)
THEOREM SmcInvariant == Spec => []IInv
<1>1. Init => IInv
  <2> SUFFICES ASSUME Init PROVE IInv
    OBVIOUS
  <2>1. TypeOK
    <3>1. writable \in [AllThreads -> BOOLEAN]
      BY Zenon DEF Init, NoClients
    <3>2. clntAddr \in [AllThreads -> Clients \union {NoAddr}]
      BY DEF Init, NoClients
    <3>3. pc \in [AllThreads -> {"none", "poll", "recv", "dump", "write",
                                 "handle", "respond", "register", "not_alive",
                                 "turn", "done"}]
      BY DEF Init, NoClients
    <3>4. inbox \in Seq(Datagrams)
      BY EmptySeq DEF Init, NoClients
    <3> QED BY <3>1, <3>2, <3>3, <3>4 DEF Init, NoClients, TypeOK
  <2>2. pc["knx"] = "none" /\ pc["app"] = "none"
    BY DEF Init, NoClients, AllThreads
  <2>3. Started /\ SenderKnown /\ InHand /\ AloneNeverWaits
    BY <2>2 DEF Started, SenderKnown, InHand, AloneNeverWaits
  <2>4. ToldIsEntered /\ OnlyAskersServed
    BY ClientsAssumption
       DEF Init, NoClients, ToldIsEntered, Displaced, OnlyAskersServed
  <2> QED BY <2>1, <2>3, <2>4 DEF IInv
<1>2. IInv /\ [Next]_vars => IInv'
  <2> SUFFICES ASSUME IInv, [Next]_vars
               PROVE  IInv'
    OBVIOUS
  <2>1. CASE Next
    BY <2>1, TypeStep, StartedStep, ToldStep, ServedStep, AloneStep DEF IInv
  <2>2. CASE UNCHANGED vars
    BY <2>2 DEF vars, local, info, history, IInv, TypeOK, Started,
                SenderKnown, InHand, ToldIsEntered, Displaced,
                OnlyAskersServed, AloneNeverWaits, Closed
  <2> QED BY <2>1, <2>2
<1> QED BY <1>1, <1>2, PTL DEF Spec

(* Each client that was told of the smart controller is entered next, and stays
   in the entry of its class until another client displaces it. *)
THEOREM ClientsEntered == Spec => []ToldIsEntered
BY SmcInvariant, PTL DEF IInv

(* As built, the daemon never waits in recvfrom for a datagram. *)
THEOREM NeverWaits == Spec => []AloneNeverWaits
BY SmcInvariant, PTL DEF IInv

(* Nobody is answered or registered without having asked, if every datagram
   has a whole header. *)
THEOREM AskersServed ==
  ASSUME ~ ShortSent
  PROVE  Spec => []OnlyAskersServed
<1>1. IInv => OnlyAskersServed
  BY DEF IInv
<1> QED BY <1>1, SmcInvariant, PTL
=============================================================================

-------------------------- MODULE DiscoveryProofs --------------------------
(***************************************************************************)
(* Proofs about Discovery for any set of daemons: it implements            *)
(* Rendezvous, as built no daemon ever finds the smart controller alive,   *)
(* one that does is entered until another displaces it, and a smart        *)
(* controller that has forgotten its daemons stays without them.           *)
(***************************************************************************)
EXTENDS Discovery, TLAPS

(* The datagrams are told apart, and so are the daemons. *)
LEMMA Kinds ==
  /\ \A k \in Daemons : Datagram("response", k) \in Responses
  /\ \A k \in Daemons : Datagram("response", k) \notin Requests
  /\ \A j, k \in Daemons :
       Datagram("response", j) = Datagram("response", k) => j = k
  /\ \A j, k \in Daemons : \A kind \in {"request", "damaged"} :
       /\ Datagram(kind, k) \in Requests
       /\ Datagram("response", j) # Datagram(kind, k)
  /\ \A m \in Requests : m.knx \in Daemons
<1>1. \A j, k \in Daemons :
        Datagram("response", j) = Datagram("response", k) => j = k
  BY DEF Datagram
<1>2. \A j, k \in Daemons : \A kind \in {"request", "damaged"} :
        Datagram("response", j) # Datagram(kind, k)
  BY DEF Datagram
<1>3. \A k \in Daemons : Datagram("response", k) \notin Requests
  BY <1>2 DEF Requests
<1>4. ASSUME NEW m \in Requests PROVE m.knx \in Daemons
  <2>1. PICK kind \in {"request", "damaged"}, k \in Daemons :
          m = Datagram(kind, k)
    BY <1>4 DEF Requests
  <2> QED BY <2>1 DEF Datagram
<1> QED BY <1>1, <1>2, <1>3, <1>4 DEF Requests, Responses

(* TypeOK and Answered need no more of a datagram than this. *)
LEMMA NetGrows ==
  ASSUME TypeOK, Answered, NEW k \in Daemons,
         \E kind \in {"request", "damaged"} :
           net' \in {net, net \union {Datagram(kind, k)}},
         told' = told
  PROVE  /\ net' \subseteq Requests \union Responses
         /\ \A j \in Daemons : Datagram("response", j) \in net' => j \in told'
BY Kinds DEF TypeOK, Answered

(* A delivery brings nothing new. *)
LEMMA DeliveredFacts ==
  ASSUME NEW m, Delivered(m)
  PROVE  m \in net /\ net' \subseteq net
BY DEF Delivered

(* What a step of a daemon does. *)
LEMMA KnxStep ==
  ASSUME IInv, NEW k \in Daemons, Knx(k)
  PROVE  IInv'
<1>a. TypeOK /\ Answered /\ Unanswered /\ RefusedSilent /\ Introduced
  BY DEF IInv
<1>1. CASE SendFirst(k)
  <2>1. \E kind \in {"request", "damaged"} :
          net' \in {net, net \union {Datagram(kind, k)}}
    BY <1>1 DEF SendFirst
  <2>2. told' = told
    BY <1>1 DEF SendFirst, history
  <2>3. /\ net' \subseteq Requests \union Responses
        /\ \A j \in Daemons : Datagram("response", j) \in net' => j \in told'
    BY <1>a, <2>1, <2>2, NetGrows
  <2>4. TypeOK'
    BY <1>1, <1>a, <2>3 DEF SendFirst, TypeOK, smc, history
  <2>5. Answered' /\ Unanswered' /\ Introduced'
    BY <1>1, <1>a, <2>3
       DEF SendFirst, Answered, Unanswered, Introduced, smc, history
  <2>6. RefusedSilent'
    <3> SUFFICES ASSUME NEW j \in Daemons
                 PROVE  /\ j \in alive' => first'[j] # "unsent"
                        /\ first'[j] # "sent" /\ j \notin alive'
                             => j \notin armed' /\ j \notin queued'
      BY DEF RefusedSilent
    <3>1. j \notin alive \/ j # k
      BY <1>1, <1>a DEF SendFirst, RefusedSilent
    <3>2. CASE j # k
      BY <1>1, <1>a, <3>2 DEF SendFirst, RefusedSilent, TypeOK
    <3>3. CASE j = k
      BY <1>1, <1>a, <3>1, <3>3 DEF SendFirst, RefusedSilent, TypeOK
    <3> QED BY <3>2, <3>3
  <2> QED BY <2>4, <2>5, <2>6 DEF IInv
<1>2. CASE SendRetry(k)
  <2>1. \E kind \in {"request", "damaged"} :
          net' \in {net, net \union {Datagram(kind, k)}}
    BY <1>2 DEF SendRetry
  <2>2. told' = told
    BY <1>2 DEF SendRetry, history
  <2>3. /\ net' \subseteq Requests \union Responses
        /\ \A j \in Daemons : Datagram("response", j) \in net' => j \in told'
    BY <1>a, <2>1, <2>2, NetGrows
  <2>4. TypeOK'
    BY <1>2, <1>a, <2>3 DEF SendRetry, TypeOK, smc, history
  <2>5. Answered' /\ Unanswered' /\ Introduced'
    BY <1>2, <1>a, <2>3
       DEF SendRetry, Answered, Unanswered, Introduced, smc, history
  <2>6. RefusedSilent'
    BY <1>2, <1>a DEF SendRetry, RefusedSilent
  <2> QED BY <2>4, <2>5, <2>6 DEF IInv
<1>7. CASE SendFrameTaken(k)
  <2>1. \E kind \in {"request", "damaged"} :
          net' \in {net, net \union {Datagram(kind, k)}}
    BY <1>7 DEF SendFrameTaken
  <2>2. told' = told
    BY <1>7 DEF SendFrameTaken, history
  <2>3. /\ net' \subseteq Requests \union Responses
        /\ \A j \in Daemons : Datagram("response", j) \in net' => j \in told'
    BY <1>a, <2>1, <2>2, NetGrows
  <2>4. TypeOK'
    BY <1>7, <1>a, <2>3 DEF SendFrameTaken, TypeOK, smc, history
  <2>5. Answered' /\ Unanswered' /\ Introduced'
    BY <1>7, <1>a, <2>3
       DEF SendFrameTaken, Answered, Unanswered, Introduced, smc, history
  <2>6. RefusedSilent'
    BY <1>7, <1>a DEF SendFrameTaken, RefusedSilent
  <2> QED BY <2>4, <2>5, <2>6 DEF IInv
<1> USE DEF TypeOK, Answered, Unanswered, RefusedSilent, Introduced, smc,
            history
<1>3. CASE Timeout(k)
  BY <1>3, <1>a DEF Timeout, IInv
<1>4. CASE SendFrame(k)
  BY <1>4, <1>a DEF SendFrame, IInv
<1>5. CASE Receive(k)
  <2>1. Datagram("response", k) \in net /\ net' \subseteq net
        /\ first[k] # "unsent" /\ alive' = alive \union {k}
        /\ UNCHANGED <<first, armed, queued, smc, history>>
    BY <1>5, DeliveredFacts DEF Receive
  <2> QED BY <1>a, <2>1 DEF IInv
<1>6. CASE KnxRestart(k)
  BY <1>6, <1>a DEF KnxRestart, IInv
<1> QED BY <1>1, <1>2, <1>3, <1>4, <1>5, <1>6, <1>7 DEF Knx

(* What a step of the smart controller or of the network does. *)
LEMMA SmcStep ==
  ASSUME IInv,
         KnxReceive \/ KnxRespond \/ KnxRegister \/ SmcRestart \/ Lose
  PROVE  IInv'
<1>a. TypeOK /\ Answered /\ Unanswered /\ RefusedSilent /\ Introduced
  BY DEF IInv
<1> USE DEF TypeOK, Answered, Unanswered, RefusedSilent, Introduced, knx
<1>1. CASE KnxReceive
  <2>1. PICK m \in Requests :
          /\ Delivered(m)
          /\ \/ /\ pc' = "respond"
                /\ asked' = asked \union {m.knx}
             \/ m.kind = "damaged" /\ UNCHANGED <<pc, asked>>
          /\ clntAddr' = m.knx
    BY <1>1 DEF KnxReceive
  <2>2. m.knx \in Daemons /\ net' \subseteq net
    BY <2>1, Kinds, DeliveredFacts
  <2>3. built /\ pc = "idle"
        /\ UNCHANGED <<knx, built, entry, told, answered, entered>>
    BY <1>1 DEF KnxReceive
  <2> QED BY <1>a, <2>1, <2>2, <2>3 DEF IInv
<1>2. CASE KnxRespond
  <2>1. clntAddr \in Daemons /\ built
    BY <1>2, <1>a DEF KnxRespond
  <2>2. /\ \/ /\ net' = net \union {Datagram("response", clntAddr)}
              /\ told' = told \union {clntAddr}
              /\ answered' = answered \union {clntAddr}
           \/ UNCHANGED <<net, told, answered>>
        /\ pc' = "register"
        /\ UNCHANGED <<knx, built, clntAddr, entry, asked, entered>>
    BY <1>2 DEF KnxRespond
  <2>3. \A j \in Daemons : Datagram("response", j) \in net' =>
          j \in told'
    BY <1>a, <2>1, <2>2, Kinds
  <2>4. net' \subseteq Requests \union Responses
    BY <1>a, <2>1, <2>2, Kinds
  <2>5. TypeOK'
    BY <1>a, <2>1, <2>2, <2>4
  <2>6. Answered' /\ Unanswered' /\ RefusedSilent'
    BY <1>2, <1>a, <2>1, <2>2, <2>3 DEF KnxRespond
  <2>7. Introduced'
    BY <1>2, <1>a, <2>2 DEF KnxRespond
  <2> QED BY <2>5, <2>6, <2>7 DEF IInv
<1>3. CASE KnxRegister
  <2>1. /\ pc = "register" /\ pc' = "idle"
        /\ entry' = clntAddr /\ entered' = entered \union {clntAddr}
        /\ UNCHANGED <<knx, net, built, clntAddr, asked, told, answered>>
    BY <1>3 DEF KnxRegister
  <2>2. built /\ clntAddr \in asked
    BY <1>a, <2>1
  <2>3. TypeOK' /\ Answered' /\ Unanswered' /\ RefusedSilent'
    BY <1>a, <2>1, <2>2
  <2>4. Introduced'
    BY <1>a, <2>1, <2>2
  <2> QED BY <2>3, <2>4 DEF IInv
<1>4. CASE SmcRestart
  BY <1>4, <1>a DEF SmcRestart, IInv
<1>5. CASE Lose
  BY <1>5, <1>a DEF Lose, IInv, smc, history
<1> QED BY <1>1, <1>2, <1>3, <1>4, <1>5

(* The inductive invariant. *)
THEOREM DiscoveryInvariant == Spec => []IInv
<1>1. Init => IInv
  BY DaemonsAssumption, BuildsAssumption
     DEF Init, IInv, TypeOK, Answered, Unanswered, RefusedSilent, Introduced
<1>2. IInv /\ [Next]_vars => IInv'
  <2> SUFFICES ASSUME IInv, [Next]_vars PROVE IInv'
    OBVIOUS
  <2>1. CASE Next
    BY <2>1, KnxStep, SmcStep DEF Next
  <2>2. CASE UNCHANGED vars
    BY <2>2 DEF IInv, TypeOK, Answered, Unanswered, RefusedSilent, Introduced,
                vars, knx, smc, history
  <2> QED BY <2>1, <2>2
<1> QED BY <1>1, <1>2, PTL DEF Spec

(* As built, no daemon ever finds the smart controller alive. *)
THEOREM AsBuiltNeverAlive == Spec => []NeverAlive
<1>1. IInv => NeverAlive
  BY DEF IInv, Answered, Unanswered, NeverAlive
<1> QED BY <1>1, DiscoveryInvariant, PTL

(* A daemon that finds alive the smart controller that has answered it is the
   one in its entry, unless a daemon that has asked too displaced it, or is
   about to be entered. *)
THEOREM FoundIsEntered == Spec => []AliveIsEntered
<1>1. IInv => AliveIsEntered
  BY DEF IInv, TypeOK, Introduced, Displaced, AliveIsEntered
<1> QED BY <1>1, DiscoveryInvariant, PTL

(* Nothing but a daemon that is started again, or a KNX frame that looks like a
   request, ends the state in which the smart controller has forgotten all of
   them. *)
THEOREM ForgottenForGood == Spec => StaysForgotten
<1>1. ASSUME IInv, Next, Forgotten
      PROVE  \/ Forgotten'
             \/ \E k \in Daemons : KnxRestart(k) \/ SendFrameTaken(k)
  <2>a. RefusedSilent
    BY <1>1 DEF IInv
  <2>b. /\ entry = NoAddr /\ pc = "idle"
        /\ queued = {} /\ net \intersect Requests = {}
        /\ \A k \in Daemons : k \in alive \/ first[k] = "refused"
    BY <1>1 DEF Forgotten
  <2>1. ASSUME NEW k \in Daemons, Knx(k), ~ KnxRestart(k),
               ~ SendFrameTaken(k)
        PROVE  Forgotten'
    <3>1. ~ SendFirst(k)
      BY <2>a, <2>b DEF RefusedSilent, SendFirst
    <3>2. ~ SendRetry(k)
      BY <2>b DEF SendRetry
    <3>3. CASE Timeout(k)
      <4>1. k \in armed
        BY <3>3 DEF Timeout
      <4>2. k \in alive
        BY <2>a, <2>b, <4>1 DEF RefusedSilent
      <4> QED BY <2>b, <3>3, <4>2 DEF Timeout, Forgotten, smc
    <3>4. CASE SendFrame(k)
      BY <2>b, <3>4 DEF SendFrame, Forgotten, smc
    <3>5. CASE Receive(k)
      <4>1. net' \subseteq net /\ alive' = alive \union {k}
            /\ UNCHANGED <<first, queued, smc>>
        BY <3>5, DeliveredFacts DEF Receive
      <4> QED BY <2>b, <4>1 DEF Forgotten, smc
    <3> QED BY <2>1, <3>1, <3>2, <3>3, <3>4, <3>5 DEF Knx
  <2>2. ~ KnxReceive /\ ~ KnxRespond /\ ~ KnxRegister
    BY <2>b DEF KnxReceive, Delivered, KnxRespond, KnxRegister
  <2>3. CASE SmcRestart
    BY <2>b, <2>3 DEF SmcRestart, Forgotten, knx
  <2>4. CASE Lose
    BY <2>b, <2>4 DEF Lose, Forgotten, knx, smc
  <2> QED BY <1>1, <2>1, <2>2, <2>3, <2>4 DEF Next
<1>2. IInv /\ [Next]_vars =>
        [Forgotten => \/ Forgotten'
                      \/ \E k \in Daemons :
                           KnxRestart(k) \/ SendFrameTaken(k)]_vars
  BY <1>1
<1> QED BY <1>2, DiscoveryInvariant, PTL DEF Spec, StaysForgotten

(* Every step is one of Rendezvous, or changes nothing there. *)
LEMMA RendezvousStep ==
  ASSUME IInv, Next
  PROVE  [R!Next]_(R!vars)
<1>a. Answered /\ TypeOK
  BY DEF IInv
<1> USE DEF R!Next, R!vars
<1>1. ASSUME NEW k \in Daemons, Knx(k) PROVE [R!Next]_(R!vars)
  <2>1. CASE Receive(k)
    <3>1. k \in told
      BY <2>1, <1>a, DeliveredFacts DEF Receive, Answered
    <3>2. R!Learn(k)
      BY <2>1, <3>1 DEF Receive, R!Learn, history
    <3> QED BY <3>2
  <2>2. CASE KnxRestart(k)
    <3>1. R!Forget(k)
      BY <2>2 DEF KnxRestart, R!Forget, history
    <3> QED BY <3>1
  <2>3. CASE SendFirst(k) \/ Timeout(k) \/ SendRetry(k) \/ SendFrame(k)
             \/ SendFrameTaken(k)
    BY <2>3 DEF SendFirst, Timeout, SendRetry, SendFrame, SendFrameTaken,
                history
  <2> QED BY <1>1, <2>1, <2>2, <2>3 DEF Knx
<1>2. CASE KnxReceive
  <2>1. PICK m \in Requests :
          \/ asked' = asked \union {m.knx}
          \/ UNCHANGED asked
    BY <1>2 DEF KnxReceive
  <2>2. m.knx \in Daemons /\ UNCHANGED <<alive, told>>
    BY <1>2, Kinds DEF KnxReceive, knx
  <2>3. R!Ask(m.knx) \/ UNCHANGED <<asked, told, alive>>
    BY <2>1, <2>2 DEF R!Ask
  <2> QED BY <2>2, <2>3
<1>3. CASE KnxRespond
  <2>1. clntAddr \in Daemons /\ clntAddr \in asked
    BY <1>3, <1>a DEF KnxRespond, Answered, TypeOK
  <2>2. R!Tell(clntAddr) \/ UNCHANGED <<asked, told, alive>>
    BY <1>3, <2>1 DEF KnxRespond, R!Tell, knx
  <2> QED BY <2>1, <2>2
<1>4. CASE KnxRegister \/ SmcRestart \/ Lose
  BY <1>4 DEF KnxRegister, SmcRestart, Lose, knx, history
<1> QED BY <1>1, <1>2, <1>3, <1>4 DEF Next

(* Discovery implements Rendezvous: whatever the network loses, repeats or
   delays, a daemon that finds the smart controller alive was answered, and it
   answers those that asked. *)
THEOREM DiscoveryRefines == Spec => RefinesRendezvous
<1>1. Init => R!Init
  BY DEF Init, R!Init
<1>2. IInv /\ [Next]_vars => [R!Next]_(R!vars)
  <2>1. UNCHANGED vars => UNCHANGED R!vars
    BY DEF vars, knx, history, R!vars
  <2> QED BY <2>1, RendezvousStep
<1> QED BY <1>1, <1>2, DiscoveryInvariant, PTL
           DEF Spec, RefinesRendezvous, R!Spec
=============================================================================

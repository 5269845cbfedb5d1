----------------------------- MODULE MiscProofs -----------------------------
(***************************************************************************)
(* Proofs about the programs of src/misc.  Adapter: for any number of      *)
(* programs, a sender shares the adapter with nobody, a driver that was    *)
(* detached stays detached, and a program that has lost the adapter never  *)
(* notices.  TtyReader, also the reader of the knx daemon: for frames of   *)
(* any lengths and any number, the reader stays in step with the stream.   *)
(* TimerDemo: for any clock, the callbacks run in order.                   *)
(***************************************************************************)
EXTENDS Adapter, TtyReader, TimerDemo, SequenceTheorems, WellFoundedInduction,
        TLAPS

(* What the end of a program leaves, and that it hurts none of the parts. *)
LEMMA ExitKeeps ==
  ASSUME IInv, NEW p \in Programs, Exit(p), UNCHANGED driver
  PROVE  IInv'
<1>a. TypeOK /\ Bound /\ Claimed /\ Closed
  BY DEF IInv
<1>1. /\ \A q \in Programs : q # p => pc'[q] = pc[q] /\ tty'[q] = tty[q]
      /\ pc'[p] = "off" /\ tty'[p] = "none"
      /\ \A s \in Senders : devh'[s] = IF s = p THEN "none" ELSE devh[s]
      /\ owner' = IF owner = p THEN Nobody ELSE owner
      /\ UNCHANGED <<source, plugged>>
  BY <1>a DEF Exit, TypeOK
<1>2. TypeOK'
  BY <1>a DEF TypeOK, Exit
<1>3. Bound'
  BY <1>a, <1>1 DEF Bound
<1>4. Claimed'
  <2>1. owner' # Nobody => owner' = owner /\ owner # p /\ owner \in Senders
    BY <1>a, <1>1 DEF TypeOK
  <2>2. owner' # Nobody => At(owner, "io")' /\ devh'[owner'] = "live"
    BY <1>a, <1>1, <2>1 DEF Claimed, At, Programs
  <2>3. ASSUME NEW s \in Senders, At(s, "io")'
        PROVE  owner' = s \/ devh'[s] = "stale"
    BY <1>a, <1>1, <2>3 DEF Claimed, At, Programs
  <2> QED BY <2>1, <2>2, <2>3 DEF Claimed, At
<1>5. Closed'
  BY <1>a, <1>1 DEF Closed, At, Programs
<1> QED BY <1>2, <1>3, <1>4, <1>5 DEF IInv

(* Unplugging the adapter ends the claim and hangs every terminal up. *)
LEMMA UnplugKeeps ==
  ASSUME IInv, Unplug
  PROVE  IInv'
<1>a. TypeOK /\ Bound /\ Claimed /\ Closed
  BY DEF IInv
<1>1. TypeOK'
  BY <1>a DEF TypeOK, Unplug, HungUp
<1>2. Bound'
  BY <1>a DEF TypeOK, Bound, Unplug, HungUp
<1>3. Claimed'
  BY <1>a DEF TypeOK, Claimed, At, Unplug
<1>4. Closed'
  BY <1>a DEF TypeOK, Closed, At, Unplug, HungUp, Programs
<1> QED BY <1>1, <1>2, <1>3, <1>4 DEF IInv

(* A step of a sender on its way to the loop. *)
LEMMA SetUpKeeps ==
  ASSUME IInv, NEW s \in Senders, SetUp(s)
  PROVE  IInv'
<1>a. TypeOK /\ Bound /\ Claimed /\ Closed
  BY DEF IInv
<1>b. s \in Programs /\ s # Nobody
  BY ProgramsAssumption DEF Programs
<1>c. At(s, "io") = FALSE => owner # s
  BY <1>a, <1>b DEF Claimed
<1> USE DEF At, Goto
<1>1. CASE SetBaudrate(s)
  <2>1. TypeOK'
    BY <1>a, <1>1 DEF TypeOK, SetBaudrate, Fopen
  <2>2. Bound'
    BY <1>a, <1>1 DEF TypeOK, Bound, SetBaudrate, Fopen
  <2>3. Claimed' /\ Closed'
    BY <1>a, <1>b, <1>1
       DEF TypeOK, Claimed, Closed, SetBaudrate, Fopen, Programs
  <2> QED BY <2>1, <2>2, <2>3 DEF IInv
<1>7. CASE OpenOutput(s)
  <2>1. TypeOK'
    BY <1>a, <1>7 DEF TypeOK, OpenOutput, Fopen
  <2>2. Bound'
    BY <1>a, <1>7 DEF TypeOK, Bound, OpenOutput, Fopen
  <2>3. Claimed' /\ Closed'
    BY <1>a, <1>b, <1>7
       DEF TypeOK, Claimed, Closed, OpenOutput, Fopen, Programs
  <2> QED BY <2>1, <2>2, <2>3 DEF IInv
<1>2. CASE Close(s)
  <2>1. TypeOK'
    BY <1>a, <1>2 DEF TypeOK, Close
  <2>2. Bound'
    BY <1>a, <1>2 DEF TypeOK, Bound, Close
  <2>3. Claimed' /\ Closed'
    BY <1>a, <1>b, <1>2 DEF TypeOK, Claimed, Closed, Close, Programs
  <2> QED BY <2>1, <2>2, <2>3 DEF IInv
<1>3. CASE Find(s)
  <2>1. CASE Out(s)
    BY <1>b, <2>1, ExitKeeps DEF Out
  <2>2. CASE /\ plugged /\ devh' = [devh EXCEPT ![s] = "live"]
             /\ pc' = [pc EXCEPT ![s] = "active"]
             /\ UNCHANGED <<source, plugged, driver, owner, tty>>
    <3>1. TypeOK' /\ Bound'
      BY <1>a, <2>2 DEF TypeOK, Bound
    <3>2. Claimed' /\ Closed'
      BY <1>a, <1>b, <1>c, <1>3, <2>2
         DEF TypeOK, Claimed, Closed, Find, Programs
    <3> QED BY <3>1, <3>2 DEF IInv
  <2> QED BY <1>3, <2>1, <2>2 DEF Find
<1>4. CASE DriverActive(s)
  <2>1. TypeOK' /\ Bound'
    BY <1>a, <1>4 DEF TypeOK, Bound, DriverActive
  <2>2. Claimed' /\ Closed'
    BY <1>a, <1>b, <1>c, <1>4
       DEF TypeOK, Claimed, Closed, DriverActive, Programs
  <2> QED BY <2>1, <2>2 DEF IInv
<1>5. CASE Detach(s)
  <2>1. CASE Out(s)
    BY <1>b, <2>1, ExitKeeps DEF Out
  <2>2. CASE /\ driver' = FALSE /\ tty' = HungUp
             /\ pc' = [pc EXCEPT ![s] = "claim"]
             /\ UNCHANGED <<source, plugged, owner, devh>>
    <3>1. TypeOK' /\ Bound'
      BY <1>a, <2>2 DEF TypeOK, Bound, HungUp
    <3>2. Claimed' /\ Closed'
      BY <1>a, <1>b, <1>c, <1>5, <2>2
         DEF TypeOK, Claimed, Closed, Detach, HungUp, Programs
    <3> QED BY <3>1, <3>2 DEF IInv
  <2> QED BY <1>5, <2>1, <2>2 DEF Detach
<1>6. CASE Claim(s)
  <2>1. CASE Out(s)
    BY <1>b, <2>1, ExitKeeps DEF Out
  <2>2. CASE /\ Claimable(s) /\ owner' = s
             /\ pc' = [pc EXCEPT ![s] = "io"]
             /\ UNCHANGED <<source, plugged, driver, devh, tty>>
    <3>1. TypeOK' /\ Bound'
      BY <1>a, <2>2 DEF TypeOK, Bound, Claimable
    <3>2. Claimed'
      <4>1. pc'[s] = "io" /\ devh'[s] = "live" /\ owner' = s
        BY <1>a, <1>b, <2>2 DEF TypeOK, Claimable
      <4>2. ASSUME NEW r \in Senders, r # s, pc'[r] = "io"
            PROVE  devh'[r] = "stale"
        BY <1>a, <1>b, <2>2, <4>2, ProgramsAssumption
           DEF TypeOK, Claimed, Claimable, Programs
      <4> QED BY <4>1, <4>2 DEF Claimed
    <3>3. Closed'
      BY <1>a, <1>b, <1>6, <2>2 DEF TypeOK, Closed, Claim, Programs
    <3> QED BY <3>1, <3>2, <3>3 DEF IInv
  <2> QED BY <1>6, <2>1, <2>2 DEF Claim
<1> QED BY <1>1, <1>2, <1>3, <1>4, <1>5, <1>6, <1>7 DEF SetUp

(* A step of a program at the terminal, which is no sender. *)
LEMMA TerminalKeeps ==
  ASSUME IInv, NEW t \in Terminals, Open(t) \/ Verify(t) \/ Read(t)
  PROVE  IInv'
<1>a. TypeOK /\ Bound /\ Claimed /\ Closed
  BY DEF IInv
<1>b. t \in Programs /\ t \notin Senders
  BY ProgramsAssumption DEF Programs
<1>1. CASE Open(t)
  <2>1. TypeOK' /\ Bound'
    BY <1>a, <1>1 DEF TypeOK, Bound, Open, Goto
  <2>2. Claimed' /\ Closed'
    BY <1>a, <1>b, <1>1
       DEF TypeOK, Claimed, Closed, Open, At, Goto, Programs
  <2> QED BY <2>1, <2>2 DEF IInv
<1>2. CASE Verify(t)
  <2>1. CASE Exit(t)
    BY <1>b, <1>2, <2>1, ExitKeeps DEF Verify
  <2>2. CASE /\ pc' = [pc EXCEPT ![t] = "loop"]
             /\ UNCHANGED <<source, plugged, owner, devh, tty, driver>>
    <3>1. TypeOK' /\ Bound'
      BY <1>a, <2>2 DEF TypeOK, Bound
    <3>2. Claimed' /\ Closed'
      BY <1>a, <1>b, <2>2 DEF TypeOK, Claimed, Closed, At, Programs
    <3> QED BY <3>1, <3>2 DEF IInv
  <2> QED BY <1>2, <2>1, <2>2 DEF Verify, Goto
<1>3. CASE Read(t)
  BY <1>3, <1>a
     DEF Read, vars, IInv, TypeOK, Bound, Claimed, Closed, At
<1> QED BY <1>1, <1>2, <1>3

(* The inductive invariant is kept by every step. *)
LEMMA NextKeeps ==
  ASSUME IInv, [Next]_vars
  PROVE  IInv'
<1>a. TypeOK /\ Bound /\ Claimed /\ Closed
  BY DEF IInv
<1>1. CASE Plug
  <2>1. owner = Nobody
    BY <1>1, <1>a DEF Plug, TypeOK, Bound, Claimed
  <2> QED BY <1>1, <1>a, <2>1
             DEF Plug, IInv, TypeOK, Bound, Claimed, Closed, At
<1>2. CASE Unplug
  BY <1>2, UnplugKeeps
<1>3. ASSUME NEW p \in Programs, Kill(p) PROVE IInv'
  BY <1>3, ExitKeeps DEF Kill
<1>4. ASSUME NEW s \in Senders, Start(s) PROVE IInv'
  <2>1. TypeOK' /\ Bound'
    BY <1>a, <1>4 DEF TypeOK, Bound, Start, Goto
  <2>2. Claimed' /\ Closed'
    BY <1>a, <1>4 DEF TypeOK, Claimed, Closed, Start, At, Goto, Programs
  <2> QED BY <2>1, <2>2 DEF IInv
<1>5. ASSUME NEW s \in Senders, SetUp(s) PROVE IInv'
  BY <1>5, SetUpKeeps
<1>6. ASSUME NEW s \in Senders, Transfer(s) PROVE IInv'
  BY <1>6, <1>a
     DEF Transfer, vars, IInv, TypeOK, Bound, Claimed, Closed, At
<1>7. ASSUME NEW t \in Terminals, Open(t) \/ Verify(t) \/ Read(t) PROVE IInv'
  BY <1>7, TerminalKeeps
<1>8. CASE UNCHANGED vars
  BY <1>8, <1>a DEF vars, IInv, TypeOK, Bound, Claimed, Closed, At
<1> QED BY <1>1, <1>2, <1>3, <1>4, <1>5, <1>6, <1>7, <1>8 DEF Next

(* The inductive invariant. *)
THEOREM AdapterInvariant == Spec => []IInv
<1>1. Init => IInv
  BY DEF Init, IInv, TypeOK, Bound, Claimed, Closed, At, Programs
<1>2. IInv /\ [Next]_vars => IInv'
  BY NextKeeps
<1> QED BY <1>1, <1>2, PTL DEF Spec

(* The sender whose transfers reach the adapter shares it with nobody. *)
THEOREM AdapterAlone == Spec => []Alone
<1>1. IInv => Alone
  BY ProgramsAssumption DEF IInv, Bound, Claimed, Alone
<1> QED BY <1>1, AdapterInvariant, PTL

(* No program attaches a driver again that was detached. *)
THEOREM DriverLost == Spec => StaysDetached
<1>1. Next => (plugged /\ ~ driver => ~ driver')
  BY DEF Next, Plug, Unplug, Kill, Start, SetUp, SetBaudrate, OpenOutput,
         Fopen, Close, Find, DriverActive, Detach, Claim, Out, Transfer, Open,
         Verify, Read, vars
<1>2. [Next]_vars => [plugged /\ ~ driver => ~ driver']_vars
  BY <1>1
<1> QED BY <1>2, PTL DEF Spec, StaysDetached

(* A program that has lost the adapter goes on until it is killed. *)
THEOREM LostUnnoticed == Spec => DeafForever
<1>1. ASSUME IInv, Next, NEW p \in Programs, Deaf(p)
      PROVE  Deaf(p)' \/ Kill(p)
  <2>a. TypeOK /\ Closed
    BY <1>1 DEF IInv
  <2>1. CASE p \in Senders
    <3>1. /\ p \notin Terminals /\ pc[p] = "io" /\ devh[p] = "stale"
      BY <1>1, <2>1, ProgramsAssumption DEF Deaf, At
    <3>2. SUFFICES ASSUME ~ Kill(p)
                   PROVE  pc'[p] = "io" /\ devh'[p] = "stale"
      BY <2>1 DEF Deaf, At
    <3>3. ASSUME NEW q \in Programs, q # p, Exit(q)
          PROVE  pc'[p] = "io" /\ devh'[p] = "stale"
      BY <2>a, <2>1, <3>1, <3>3 DEF TypeOK, Exit, Programs
    <3>4. CASE Plug \/ Unplug
      BY <2>a, <2>1, <3>1, <3>4 DEF TypeOK, Plug, Unplug
    <3>5. ASSUME NEW q \in Programs, Kill(q)
          PROVE  pc'[p] = "io" /\ devh'[p] = "stale"
      BY <3>2, <3>3, <3>5 DEF Kill
    <3>6. ASSUME NEW s \in Senders, Start(s) \/ SetUp(s) \/ Transfer(s)
          PROVE  pc'[p] = "io" /\ devh'[p] = "stale"
      <4>1. CASE s = p
        BY <2>a, <3>1, <3>6, <4>1
           DEF TypeOK, Start, SetUp, SetBaudrate, OpenOutput, Fopen, Close,
               Find, DriverActive, Detach, Claim, Transfer, vars, At
      <4>2. CASE s # p /\ Out(s)
        BY <3>3, <4>2 DEF Out, Programs
      <4>3. CASE s # p /\ ~ Out(s)
        BY <2>a, <2>1, <3>1, <3>6, <4>3
           DEF TypeOK, Start, SetUp, SetBaudrate, OpenOutput, Fopen, Close,
               Find, DriverActive, Detach, Claim, Transfer, vars, Goto, Programs
      <4> QED BY <4>1, <4>2, <4>3
    <3>7. ASSUME NEW t \in Terminals, Open(t) \/ Verify(t) \/ Read(t)
          PROVE  pc'[p] = "io" /\ devh'[p] = "stale"
      <4>1. t \in Programs /\ t # p
        BY <2>1, <3>1 DEF Programs
      <4> QED BY <2>a, <2>1, <3>1, <3>3, <3>7, <4>1
                 DEF TypeOK, Open, Verify, Read, Goto, vars, Programs
    <3> QED BY <1>1, <3>4, <3>5, <3>6, <3>7 DEF Next
  <2>2. CASE p \in Terminals
    <3>1. /\ p \notin Senders /\ pc[p] = "loop" /\ tty[p] = "hung"
      BY <1>1, <2>2, ProgramsAssumption DEF Deaf, At
    <3>2. SUFFICES ASSUME ~ Kill(p)
                   PROVE  pc'[p] = "loop" /\ tty'[p] = "hung"
      BY <2>2 DEF Deaf, At
    <3>3. ASSUME NEW q \in Programs, q # p, Exit(q)
          PROVE  pc'[p] = "loop" /\ tty'[p] = "hung"
      BY <2>a, <3>1, <3>3 DEF TypeOK, Exit
    <3>4. CASE Plug \/ Unplug
      BY <2>a, <3>1, <3>4 DEF TypeOK, Plug, Unplug, HungUp
    <3>5. ASSUME NEW q \in Programs, Kill(q)
          PROVE  pc'[p] = "loop" /\ tty'[p] = "hung"
      BY <3>2, <3>3, <3>5 DEF Kill
    <3>6. ASSUME NEW s \in Senders, Start(s) \/ SetUp(s) \/ Transfer(s)
          PROVE  pc'[p] = "loop" /\ tty'[p] = "hung"
      <4>1. s # p /\ s \in Programs
        BY <3>1 DEF Programs
      <4>2. CASE Out(s)
        BY <3>3, <4>1, <4>2 DEF Out
      <4>3. CASE ~ Out(s)
        BY <2>a, <3>1, <3>6, <4>1, <4>3
           DEF TypeOK, Start, SetUp, SetBaudrate, OpenOutput, Fopen, Close,
               Find, DriverActive, Detach, Claim, Transfer, vars, Goto, HungUp
      <4> QED BY <4>2, <4>3
    <3>7. ASSUME NEW t \in Terminals, Open(t) \/ Verify(t) \/ Read(t)
          PROVE  pc'[p] = "loop" /\ tty'[p] = "hung"
      <4>1. CASE t = p
        BY <3>1, <3>7, <4>1 DEF Open, Verify, Read, At, vars
      <4>2. CASE t # p
        BY <2>a, <3>1, <3>3, <3>7, <4>2
           DEF TypeOK, Open, Verify, Read, Goto, vars, Programs
      <4> QED BY <4>1, <4>2
    <3> QED BY <1>1, <3>4, <3>5, <3>6, <3>7 DEF Next
  <2> QED BY <1>1, <2>1, <2>2 DEF Programs
<1>2. ASSUME UNCHANGED vars, NEW p \in Programs, Deaf(p)
      PROVE  Deaf(p)'
  BY <1>2 DEF vars, Deaf, At
<1>3. IInv /\ [Next]_vars =>
        [\A p \in Programs : Deaf(p) => Deaf(p)' \/ Kill(p)]_vars
  BY <1>1
<1> QED BY <1>3, AdapterInvariant, PTL DEF Spec, DeafForever

-----------------------------------------------------------------------------
(* TtyReader *)

LEMMA LeastNumber ==
  ASSUME NEW S \in SUBSET Nat, S # {}
  PROVE  \E m \in S : \A k \in S : m <= k
<1>1. \E m \in S : \A k \in S : <<k, m>> \notin OpToRel(<, Nat)
  BY NatLessThanWellFounded, WFMin
<1>2. \A k, m \in S : k < m => <<k, m>> \in OpToRel(<, Nat)
  BY DEF OpToRel
<1>3. \E m \in S : \A k \in S : ~ (k < m)
  BY <1>1, <1>2, Zenon
<1> QED BY <1>3

-----------------------------------------------------------------------------
(* FlattenSeq *)
Flat(f, ss, n) ==
  f = [i \in 1 .. n |-> IF i = 1 THEN ss[i] ELSE f[i-1] \o ss[i]]

LEMMA FlatAt ==
  ASSUME NEW f, NEW ss, NEW n \in Nat, Flat(f, ss, n), NEW i \in 1 .. n
  PROVE  f[i] = IF i = 1 THEN ss[i] ELSE f[i - 1] \o ss[i]
  BY DEF Flat

LEMMA FlatExists ==
  ASSUME NEW ss, NEW n \in Nat
  PROVE  \E f : Flat(f, ss, n)
<1> DEFINE S == {k \in Nat : ~ \E f : Flat(f, ss, k)}
<1> SUFFICES ASSUME S # {} PROVE FALSE
  OBVIOUS
<1>1. PICK m \in S : \A k \in S : m <= k
  BY LeastNumber
<1>2. CASE m = 0
  <2>1. PICK f : f = [i \in 1 .. 0 |-> ss]
    OBVIOUS
  <2>2. 1 .. 0 = {}
    OBVIOUS
  <2>3. Flat(f, ss, 0)
    BY <2>1, <2>2 DEF Flat
  <2> QED
    BY <1>2, <2>3
<1>3. CASE m # 0
  <2>1. m - 1 \in Nat /\ m - 1 \notin S
    BY <1>1, <1>3
  <2>2. PICK f : Flat(f, ss, m - 1)
    BY <2>1
  <2>3. PICK g : g = [i \in 1 .. m |->
                        IF i = 1 THEN ss[i] ELSE f[i - 1] \o ss[i]]
    OBVIOUS
  <2>4. \A i \in 1 .. m - 1 : g[i] = f[i]
    <3> TAKE i \in 1 .. m - 1
    <3>1. f[i] = IF i = 1 THEN ss[i] ELSE f[i - 1] \o ss[i]
      BY <2>1, <2>2 DEF Flat
    <3>2. i \in 1 .. m
      BY <2>1
    <3> QED
      BY <2>3, <3>1, <3>2
  <2>5. \A i \in 1 .. m : i # 1 => i - 1 \in 1 .. m - 1
    BY <2>1
  <2>6. Flat(g, ss, m)
    BY <2>3, <2>4, <2>5 DEF Flat
  <2> QED
    BY <2>6
<1> QED
  BY <1>2, <1>3

LEMMA FlattenFlat ==
  ASSUME NEW ss, Len(ss) \in Nat \ {0}
  PROVE  \E f : Flat(f, ss, Len(ss)) /\ FlattenSeq(ss) = f[Len(ss)]
<1> DEFINE g == CHOOSE f : Flat(f, ss, Len(ss))
<1>1. Flat(g, ss, Len(ss))
  BY FlatExists
<1>2. FlattenSeq(ss) =
        (CHOOSE f : f = [i \in 1 .. Len(ss) |->
                           IF i = 1 THEN ss[i] ELSE f[i-1] \o ss[i]])[Len(ss)]
  BY DEF FlattenSeq
<1>3. FlattenSeq(ss) = g[Len(ss)]
  BY <1>2 DEF Flat
<1> QED
  BY <1>1, <1>3

Agree(ss, tt, k) == \A i \in 1 .. k : ss[i] = tt[i]

LEMMA FlatUnique ==
  ASSUME NEW ss, NEW tt, NEW m \in Nat, NEW n \in Nat, NEW f, NEW g,
         Flat(f, ss, m), Flat(g, tt, n),
         NEW k \in Nat, k <= m, k <= n, Agree(ss, tt, k)
  PROVE  \A i \in 1 .. k : f[i] = g[i]
<1> DEFINE S == {i \in 1 .. k : f[i] # g[i]}
<1> SUFFICES ASSUME S # {} PROVE FALSE
  OBVIOUS
<1>0. S \in SUBSET Nat
  OBVIOUS
<1>1. PICK i \in S : \A j \in S : i <= j
  BY <1>0, LeastNumber, Zenon
<1>2. i \in 1 .. m /\ i \in 1 .. n
  OBVIOUS
<1>3. /\ f[i] = IF i = 1 THEN ss[i] ELSE f[i - 1] \o ss[i]
      /\ g[i] = IF i = 1 THEN tt[i] ELSE g[i - 1] \o tt[i]
  BY <1>2, FlatAt
<1>4. i # 1 => f[i - 1] = g[i - 1]
  BY <1>1
<1> QED
  BY <1>3, <1>4 DEF Agree

LEMMA FlatUnique2 ==
  ASSUME NEW ss, NEW tt, NEW n \in Nat, NEW f, NEW g,
         Flat(f, ss, n), Flat(g, tt, n + 1), Agree(ss, tt, n)
  PROVE  \A i \in 1 .. n : f[i] = g[i]
<1>1. n + 1 \in Nat /\ n <= n /\ n <= n + 1
  OBVIOUS
<1> QED
  BY <1>1, FlatUnique

LEMMA FlatSeq ==
  ASSUME NEW ss \in Seq(Seq(Nat)), NEW f, Flat(f, ss, Len(ss))
  PROVE  \A i \in 1 .. Len(ss) : f[i] \in Seq(Nat)
<1> DEFINE T == {i \in 1 .. Len(ss) : f[i] \notin Seq(Nat)}
<1> SUFFICES ASSUME T # {} PROVE FALSE
  OBVIOUS
<1>0. Len(ss) \in Nat
  BY LenProperties
<1>1. PICK i \in T : \A j \in T : i <= j
  <2>1. T \in SUBSET Nat
    BY <1>0
  <2> QED
    BY <2>1, LeastNumber, Zenon
<1>2. f[i] = IF i = 1 THEN ss[i] ELSE f[i - 1] \o ss[i]
  BY <1>0, FlatAt
<1>3. i # 1 => f[i - 1] \in Seq(Nat)
  BY <1>0, <1>1
<1>4. ss[i] \in Seq(Nat)
  BY ElementOfSeq
<1> QED
  BY <1>2, <1>3, <1>4, ConcatProperties

LEMMA FlattenEmpty == FlattenSeq(<<>>) = <<>>
  BY DEF FlattenSeq

LEMMA FlattenType ==
  ASSUME NEW ss \in Seq(Seq(Nat))
  PROVE  FlattenSeq(ss) \in Seq(Nat)
<1>1. CASE ss = <<>>
  BY <1>1, FlattenEmpty, EmptySeq
<1>2. CASE ss # <<>>
  <2>1. Len(ss) \in Nat \ {0} /\ Len(ss) \in 1 .. Len(ss)
    BY <1>2, EmptySeq
  <2>2. PICK f : Flat(f, ss, Len(ss)) /\ FlattenSeq(ss) = f[Len(ss)]
    BY <2>1, FlattenFlat
  <2> QED
    BY <2>1, <2>2, FlatSeq
<1> QED
  BY <1>1, <1>2

(* Flattening a sequence with one more part at its end appends the part. *)
LEMMA FlattenAppend ==
  ASSUME NEW ss \in Seq(Seq(Nat)), NEW x \in Seq(Nat)
  PROVE  FlattenSeq(Append(ss, x)) = FlattenSeq(ss) \o x
<1> DEFINE tt == Append(ss, x)
           n == Len(ss)
<1>1. /\ n \in Nat /\ Len(tt) = n + 1 /\ tt[n + 1] = x
      /\ \A i \in 1 .. n : ss[i] = tt[i]
  BY AppendProperties, LenProperties
<1> HIDE DEF tt, n
<1>2. PICK g : Flat(g, tt, n + 1) /\ FlattenSeq(tt) = g[n + 1]
  BY <1>1, FlattenFlat
<1>3. g[n + 1] = IF n = 0 THEN x ELSE g[n] \o x
  <2>1. PICK m \in Nat : m = n + 1
    BY <1>1
  <2>2. m \in 1 .. m /\ m - 1 = n /\ (m = 1 <=> n = 0)
    BY <1>1, <2>1
  <2>3. g[m] = IF m = 1 THEN tt[m] ELSE g[m - 1] \o tt[m]
    BY <1>2, <2>1, <2>2 DEF Flat
  <2> QED
    BY <1>1, <2>1, <2>2, <2>3
<1>4. CASE n = 0
  <2>1. ss = <<>>
    BY <1>4, EmptySeq DEF n
  <2> QED
    BY <1>2, <1>3, <1>4, <2>1, FlattenEmpty, ConcatEmptySeq DEF tt
<1>5. CASE n # 0
  <2>1. PICK f : Flat(f, ss, n) /\ FlattenSeq(ss) = f[n]
    BY <1>1, <1>5, FlattenFlat DEF n
  <2>2. n <= n + 1 /\ n + 1 \in Nat /\ n \in 1 .. n /\ n <= n
    BY <1>1, <1>5
  <2>3. f[n] = g[n]
    <3>2. Flat(f, ss, n) /\ Flat(g, tt, n + 1) /\ Agree(ss, tt, n)
      BY <1>1, <1>2, <2>1 DEF Agree
    <3>3. \A i \in 1 .. n : f[i] = g[i]
      BY <1>1, <3>2, FlatUnique2
    <3> QED
      BY <2>2, <3>3
  <2> QED
    BY <1>1, <1>2, <1>3, <1>5, <2>1, <2>3 DEF tt
<1> QED
  BY <1>4, <1>5

LEMMA Assoc == \A x, y, z \in Seq(Nat) : (x \o y) \o z = x \o (y \o z)
  BY ConcatAssociative, SMTT(30)

(* Flattening a sequence with one more part in front puts the part in front. *)
LEMMA FlattenCons ==
  ASSUME NEW x \in Seq(Nat)
  PROVE  \A ss, tt \in Seq(Seq(Nat)) :
           /\ Len(ss) = Len(tt) + 1 /\ ss[1] = x
           /\ \A i \in 1 .. Len(tt) : ss[i + 1] = tt[i]
           => FlattenSeq(ss) = x \o FlattenSeq(tt)
<1>0. \A y, z \in Seq(Nat) : (x \o y) \o z = x \o (y \o z)
  BY Assoc
<1> SUFFICES ASSUME NEW ss \in Seq(Seq(Nat)), NEW tt \in Seq(Seq(Nat)),
                    Len(ss) = Len(tt) + 1, ss[1] = x,
                    \A i \in 1 .. Len(tt) : ss[i + 1] = tt[i]
             PROVE  FlattenSeq(ss) = x \o FlattenSeq(tt)
  OBVIOUS
<1> DEFINE n == Len(tt)
<1>1. n \in Nat
  BY LenProperties
<1>2. PICK g : Flat(g, ss, n + 1) /\ FlattenSeq(ss) = g[n + 1]
  BY <1>1, FlattenFlat
<1>3. g[1] = x
  <2>1. 1 \in 1 .. n + 1 /\ n + 1 \in Nat
    BY <1>1
  <2> QED
    BY <1>2, <2>1, FlatAt, Zenon
<1>4. CASE n = 0
  <2>1. tt = <<>>
    BY <1>4, EmptySeq
  <2> QED
    BY <1>2, <1>3, <1>4, <2>1, FlattenEmpty, ConcatEmptySeq
<1>5. CASE n # 0
  <2>1. PICK f : Flat(f, tt, n) /\ FlattenSeq(tt) = f[n]
    BY <1>1, <1>5, FlattenFlat
  <2>2. \A i \in 1 .. n : f[i] \in Seq(Nat)
    BY <2>1, FlatSeq
  <2> DEFINE T == {i \in 1 .. n : g[i + 1] # x \o f[i]}
  <2>3. ASSUME T # {} PROVE FALSE
    <3>0. T \in SUBSET Nat
      <4>1. T \subseteq 1 .. n
        BY Zenon
      <4>2. 1 .. n \subseteq Nat
        BY <1>1
      <4> QED
        BY <4>1, <4>2, Zenon
    <3>1. PICK i \in T : \A j \in T : i <= j
      BY <2>3, <3>0, LeastNumber, Zenon
    <3>2. f[i] = IF i = 1 THEN tt[i] ELSE f[i - 1] \o tt[i]
      <4>1. i \in 1 .. n
        OBVIOUS
      <4> HIDE DEF T
      <4> QED
        BY <1>1, <2>1, <4>1, FlatAt
    <3>3. g[i + 1] = g[i] \o tt[i]
      <4>1. i + 1 \in 1 .. n + 1 /\ n + 1 \in Nat /\ i + 1 # 1 /\ (i + 1) - 1 = i
        BY <1>1
      <4>2. g[i + 1] = IF i + 1 = 1 THEN ss[i + 1] ELSE g[(i + 1) - 1] \o ss[i + 1]
        BY <1>2, <4>1 DEF Flat
      <4> QED
        BY <4>1, <4>2
    <3>4. CASE i = 1
      BY <1>3, <3>2, <3>3, <3>4
    <3>5. CASE i # 1
      <4>0. i \in 1 .. n
        BY <3>1
      <4>1. i - 1 \in 1 .. n /\ (i - 1) + 1 = i
        BY <1>1, <3>5, <4>0
      <4>a. i - 1 \notin T
        <5> HIDE DEF T
        <5> SUFFICES ASSUME i - 1 \in T PROVE FALSE
          OBVIOUS
        <5>1. i <= i - 1
          BY <3>1
        <5> QED
          BY <4>0, <5>1
      <4>2. g[i] = x \o f[i - 1]
        <5>1. g[(i - 1) + 1] = x \o f[i - 1]
          BY <4>1, <4>a
        <5> QED
          BY <4>1, <5>1
      <4>3. f[i - 1] \in Seq(Nat) /\ tt[i] \in Seq(Nat)
        BY <2>2, <4>1, ElementOfSeq
      <4>4. (x \o f[i - 1]) \o tt[i] = x \o (f[i - 1] \o tt[i])
        BY <1>0, <4>3
      <4> QED
        BY <3>2, <3>3, <3>5, <4>2, <4>4
    <3> QED
      BY <3>4, <3>5
  <2>4. n \in 1 .. n
    BY <1>1, <1>5
  <2>5. g[n + 1] = x \o f[n]
    BY <2>3, <2>4
  <2> QED
    BY <1>2, <2>1, <2>5
<1> QED
  BY <1>4, <1>5

-----------------------------------------------------------------------------
(* What lies before the reader, cut in two. *)
LEMMA CutFront ==
  \A s, t, u, v \in Seq(Nat) :
           s \o t = u \o v /\ Len(u) <= Len(s)
             => /\ SubSeq(s, 1, Len(u)) = u
                /\ SubSeq(s, Len(u) + 1, Len(s)) \o t = v
                /\ SubSeq(s, Len(u) + 1, Len(s)) \in Seq(Nat)
<1> SUFFICES ASSUME NEW s \in Seq(Nat), NEW t \in Seq(Nat), NEW u \in Seq(Nat), NEW v \in Seq(Nat),
                    s \o t = u \o v, Len(u) <= Len(s)
             PROVE  /\ SubSeq(s, 1, Len(u)) = u
                    /\ SubSeq(s, Len(u) + 1, Len(s)) \o t = v
                    /\ SubSeq(s, Len(u) + 1, Len(s)) \in Seq(Nat)
  OBVIOUS
<1> DEFINE n == Len(u)
           w == SubSeq(s, n + 1, Len(s))
<1>1. n \in Nat /\ Len(s) \in Nat /\ Len(t) \in Nat /\ Len(v) \in Nat /\ n <= Len(s)
  BY LenProperties
<1>2. /\ Len(s \o t) = Len(s) + Len(t) /\ Len(u \o v) = n + Len(v)
      /\ \A i \in 1 .. Len(s) + Len(t) :
           (s \o t)[i] = IF i <= Len(s) THEN s[i] ELSE t[i - Len(s)]
      /\ \A i \in 1 .. n + Len(v) :
           (u \o v)[i] = IF i <= n THEN u[i] ELSE v[i - n]
  BY ConcatProperties
<1>3. Len(s) + Len(t) = n + Len(v)
  BY <1>2
<1> HIDE DEF n
<1>4. SubSeq(s, 1, n) = u
  <2>1. /\ SubSeq(s, 1, n) \in Seq(Nat) /\ Len(SubSeq(s, 1, n)) = n
        /\ \A i \in 1 .. n : SubSeq(s, 1, n)[i] = s[i]
    <3>1. \A i \in 1 .. n : s[i] \in Nat
      BY <1>1, ElementOfSeq
    <3>2. /\ SubSeq(s, 1, n) \in Seq(Nat)
          /\ Len(SubSeq(s, 1, n)) = IF 1 <= n THEN n - 1 + 1 ELSE 0
          /\ \A i \in 1 .. n - 1 + 1 : SubSeq(s, 1, n)[i] = s[1 + i - 1]
      BY <1>1, <3>1, SubSeqProperties
    <3> QED
      BY <1>1, <3>2
  <2>2. \A i \in 1 .. n : s[i] = u[i]
    <3> TAKE i \in 1 .. n
    <3>1. i \in 1 .. Len(s) + Len(t) /\ i \in 1 .. n + Len(v) /\ i <= Len(s) /\ i <= n
      BY <1>1
    <3> QED
      BY <1>2, <3>1
  <2> QED
    BY <2>1, <2>2, SeqEqual DEF n
<1>5. /\ w \in Seq(Nat) /\ Len(w) = Len(s) - n
      /\ \A i \in 1 .. Len(s) - n : w[i] = s[n + i]
  <2>1. \A i \in n + 1 .. Len(s) : s[i] \in Nat
    BY <1>1, ElementOfSeq
  <2>2. /\ w \in Seq(Nat)
        /\ Len(w) = IF n + 1 <= Len(s) THEN Len(s) - (n + 1) + 1 ELSE 0
        /\ \A i \in 1 .. Len(s) - (n + 1) + 1 : w[i] = s[(n + 1) + i - 1]
    <3>1. n + 1 \in Int /\ Len(s) \in Int
      BY <1>1
    <3> QED
      BY <2>1, <3>1, SubSeqProperties
  <2>3. Len(s) - (n + 1) + 1 = Len(s) - n
    BY <1>1
  <2>4. \A i \in 1 .. Len(s) - n : (n + 1) + i - 1 = n + i
    BY <1>1
  <2> HIDE DEF w
  <2>5. Len(w) = Len(s) - n
    BY <1>1, <2>2
  <2>6. \A i \in 1 .. Len(s) - n : w[i] = s[n + i]
    BY <2>2, <2>3, <2>4
  <2> QED
    BY <2>2, <2>5, <2>6
<1> HIDE DEF w
<1>6. w \o t = v
  <2>1. /\ w \o t \in Seq(Nat) /\ Len(w \o t) = Len(w) + Len(t)
        /\ \A i \in 1 .. Len(w) + Len(t) :
             (w \o t)[i] = IF i <= Len(w) THEN w[i] ELSE t[i - Len(w)]
    BY <1>5, ConcatProperties
  <2>2. Len(w) + Len(t) = Len(v)
    BY <1>1, <1>3, <1>5
  <2>3. ASSUME NEW i \in 1 .. Len(v) PROVE (w \o t)[i] = v[i]
    <3>1. /\ n + i \in 1 .. Len(s) + Len(t) /\ n + i \in 1 .. n + Len(v)
          /\ ~ (n + i <= n) /\ (n + i) - n = i
      BY <1>1, <1>3
    <3>2. v[i] = (s \o t)[n + i]
      BY <1>2, <3>1
    <3>3. CASE i <= Len(w)
      <4>1. n + i <= Len(s) /\ i \in 1 .. Len(s) - n
        BY <1>1, <1>5, <3>3
      <4> QED
        BY <1>2, <1>5, <2>1, <2>2, <3>1, <3>2, <3>3, <4>1
    <3>4. CASE ~ (i <= Len(w))
      <4>1. ~ (n + i <= Len(s)) /\ (n + i) - Len(s) = i - Len(w)
        BY <1>1, <1>5, <3>4
      <4> QED
        BY <1>2, <2>1, <2>2, <3>1, <3>2, <3>4, <4>1
    <3> QED
      BY <3>3, <3>4
  <2> QED
    BY <2>1, <2>2, <2>3, SeqEqual
<1> QED
  BY <1>4, <1>5, <1>6 DEF w, n

LEMMA CutHead ==
  \A s, t, v \in Seq(Nat), h \in Nat :
           s \o t = <<h>> \o v /\ s # <<>>
             => Head(s) = h /\ Tail(s) \o t = v /\ Tail(s) \in Seq(Nat)
<1> TAKE s, t, v \in Seq(Nat), h \in Nat
<1>1. PICK u \in Seq(Nat) : u = <<h>> /\ Len(u) = 1
  <2>1. <<h>> \in Seq(Nat) /\ Len(<<h>>) = 1
    OBVIOUS
  <2> QED
    BY <2>1
<1>0. s \o t = u \o v /\ Len(u) <= Len(s)
        => /\ SubSeq(s, 1, Len(u)) = u
           /\ SubSeq(s, Len(u) + 1, Len(s)) \o t = v
  BY CutFront
<1> HAVE s \o t = <<h>> \o v /\ s # <<>>
<1>2. Len(s) \in Nat \ {0}
  BY EmptySeq
<1>3. /\ SubSeq(s, 1, Len(u)) = u
      /\ SubSeq(s, Len(u) + 1, Len(s)) \o t = v
  <2>1. s \o t = u \o v /\ Len(u) <= Len(s)
    BY <1>1, <1>2
  <2> QED
    BY <1>0, <2>1
<1>4. Tail(s) = SubSeq(s, 2, Len(s))
  BY TailIsSubSeq
<1>5. Head(s) = SubSeq(s, 1, 1)[1]
  BY <1>2
<1>6. Tail(s) \in Seq(Nat)
  BY HeadTailProperties
<1>7. SubSeq(s, 1, 1) = <<h>> /\ SubSeq(s, 2, Len(s)) \o t = v
  <2>1. Len(u) + 1 = 2
    BY <1>1
  <2> QED
    BY <1>1, <1>3, <2>1
<1>8. Head(s) = h
  BY <1>5, <1>7
<1>9. Tail(s) \o t = v
  BY <1>4, <1>7
<1> QED
  BY <1>6, <1>8, <1>9

-----------------------------------------------------------------------------
(* The bytes of a frame, and of all frames from the n-th on. *)
LEMMA PayloadType ==
  ASSUME NEW k \in Nat, NEW n \in Nat
  PROVE  Payload(k, n) \in Seq(Nat) /\ Len(Payload(k, n)) = n
<1>1. Payload(k, n) \in [1 .. n -> Nat]
  BY DEF Payload
<1>2. Payload(k, n) \in Seq(Nat)
  BY <1>1, SeqDef
<1> QED
  BY <1>1, <1>2, LenProperties DEF Payload

LEMMA TrailerType ==
  ASSUME gEnableRssi \in BOOLEAN
  PROVE  /\ Trailer \in Seq(Nat)
         /\ gEnableRssi => Trailer = <<0>> \o <<39>>
         /\ ~ gEnableRssi => Trailer = <<>>
<1>1. <<0, 39>> = <<0>> \o <<39>>
  OBVIOUS
<1>2. <<0, 39>> \in Seq(Nat) /\ <<>> \in Seq(Nat)
  OBVIOUS
<1> QED
  BY <1>1, <1>2 DEF Trailer

LEMMA BytesType ==
  ASSUME gEnableRssi \in BOOLEAN, NEW k \in Nat, NEW n \in Nat
  PROVE  /\ Bytes(k, n) \in Seq(Nat)
         /\ Bytes(k, n) = <<n>> \o (Payload(k, n) \o Trailer)
         /\ Payload(k, n) \o Trailer \in Seq(Nat)
<1>1. <<n>> \in Seq(Nat)
  OBVIOUS
<1>2. Payload(k, n) \in Seq(Nat) /\ Trailer \in Seq(Nat)
  BY PayloadType, TrailerType
<1>3. <<n>> \o Payload(k, n) \in Seq(Nat) /\ Payload(k, n) \o Trailer \in Seq(Nat)
  BY <1>1, <1>2, ConcatProperties
<1>4. Bytes(k, n) \in Seq(Nat)
  BY <1>2, <1>3, ConcatProperties DEF Bytes
<1>5. (<<n>> \o Payload(k, n)) \o Trailer = <<n>> \o (Payload(k, n) \o Trailer)
  BY <1>1, <1>2, Assoc
<1> QED
  BY <1>3, <1>4, <1>5 DEF Bytes

Pieces(n) == [i \in 1 .. Len(lengths) - n |-> Bytes(n + i, lengths[n + i])]

LEMMA SentType ==
  ASSUME TtyTypeOK
  PROVE  /\ Len(lengths) \in Nat /\ gEnableRssi \in BOOLEAN
         /\ \A k \in 1 .. Len(lengths) : lengths[k] \in 1 .. 63 /\ lengths[k] \in Nat
<1>1. lengths \in Seq(1 .. 63)
  BY DEF TtyTypeOK, RC1180_MAX_BUFFER_SIZE
<1> QED
  <2>1. \A k \in 1 .. Len(lengths) : lengths[k] \in 1 .. 63
    BY <1>1, ElementOfSeq
  <2>2. \A k \in 1 .. Len(lengths) : lengths[k] \in Nat
    <3>1. 1 .. 63 \subseteq Nat
      OBVIOUS
    <3> QED
      BY <2>1, <3>1, Zenon
  <2>3. Len(lengths) \in Nat
    BY <1>1, LenProperties
  <2>4. gEnableRssi \in BOOLEAN
    BY DEF TtyTypeOK
  <2> QED
    BY <2>1, <2>2, <2>3, <2>4, Zenon

LEMMA PiecesType ==
  ASSUME TtyTypeOK, NEW n \in 0 .. Len(lengths)
  PROVE  Pieces(n) \in Seq(Seq(Nat)) /\ Len(Pieces(n)) = Len(lengths) - n
<1>1. Len(lengths) - n \in Nat
  BY SentType
<1>2. \A i \in 1 .. Len(lengths) - n : Bytes(n + i, lengths[n + i]) \in Seq(Nat)
  <2> TAKE i \in 1 .. Len(lengths) - n
  <2>1. n + i \in 1 .. Len(lengths)
    BY SentType
  <2>2. n + i \in Nat
    BY SentType
  <2>3. lengths[n + i] \in Nat /\ gEnableRssi \in BOOLEAN
    BY <2>1, SentType, Zenon
  <2> QED
    BY <2>2, <2>3, BytesType
<1>3. Pieces(n) \in [1 .. Len(lengths) - n -> Seq(Nat)]
  BY <1>2 DEF Pieces
<1>4. Pieces(n) \in Seq(Seq(Nat))
  BY <1>1, <1>3, SeqDef
<1> QED
  BY <1>1, <1>3, <1>4, LenProperties

LEMMA RestPieces == \A n : Rest(n) = FlattenSeq(Pieces(n))
  BY DEF Rest, Pieces

LEMMA RestType ==
  ASSUME TtyTypeOK, NEW n \in 0 .. Len(lengths)
  PROVE  Rest(n) \in Seq(Nat)
  BY PiecesType, FlattenType, RestPieces

LEMMA RestEnd ==
  ASSUME TtyTypeOK
  PROVE  Rest(Len(lengths)) = <<>>
<1>1. Len(lengths) \in 0 .. Len(lengths) /\ Len(lengths) - Len(lengths) = 0
  BY SentType
<1>2. Pieces(Len(lengths)) \in Seq(Seq(Nat)) /\ Len(Pieces(Len(lengths))) = 0
  BY <1>1, PiecesType
<1>3. Pieces(Len(lengths)) = <<>>
  BY <1>2, EmptySeq
<1> QED
  BY <1>3, FlattenEmpty, RestPieces

LEMMA RestCons ==
  ASSUME TtyTypeOK, NEW n \in Nat, n < Len(lengths)
  PROVE  Rest(n) = Bytes(n + 1, lengths[n + 1]) \o Rest(n + 1)
<1>1. n \in 0 .. Len(lengths) /\ n + 1 \in 0 .. Len(lengths) /\ n + 1 \in 1 .. Len(lengths)
  BY SentType
<1>2. Bytes(n + 1, lengths[n + 1]) \in Seq(Nat)
  <2>1. n + 1 \in Nat /\ lengths[n + 1] \in Nat /\ gEnableRssi \in BOOLEAN
    <3>1. lengths[n + 1] \in Nat /\ gEnableRssi \in BOOLEAN
      BY <1>1, SentType, Zenon
    <3>2. n + 1 \in Nat
      OBVIOUS
    <3> QED
      BY <3>1, <3>2
  <2> QED
    BY <2>1, BytesType
<1>3. /\ Pieces(n) \in Seq(Seq(Nat)) /\ Len(Pieces(n)) = Len(lengths) - n
      /\ Pieces(n + 1) \in Seq(Seq(Nat)) /\ Len(Pieces(n + 1)) = Len(lengths) - (n + 1)
  BY <1>1, PiecesType
<1>4. Len(Pieces(n)) = Len(Pieces(n + 1)) + 1
  <2>1. Len(lengths) - n = Len(lengths) - (n + 1) + 1
    BY SentType
  <2> QED
    BY <1>3, <2>1
<1>5. Pieces(n)[1] = Bytes(n + 1, lengths[n + 1])
  BY <1>1 DEF Pieces
<1>6. \A i \in 1 .. Len(Pieces(n + 1)) : Pieces(n)[i + 1] = Pieces(n + 1)[i]
  <2> TAKE i \in 1 .. Len(Pieces(n + 1))
  <2>1. /\ i \in 1 .. Len(lengths) - (n + 1) /\ i + 1 \in 1 .. Len(lengths) - n
        /\ n + (i + 1) = (n + 1) + i
    BY <1>1, <1>3, SentType
  <2> QED
    BY <2>1 DEF Pieces
<1>7. FlattenSeq(Pieces(n)) = Bytes(n + 1, lengths[n + 1]) \o FlattenSeq(Pieces(n + 1))
  <2> HIDE DEF Pieces
  <2> QED
    BY <1>2, <1>3, <1>4, <1>5, <1>6, FlattenCons
<1> QED
  BY <1>7, RestPieces

LEMMA RestSend ==
  ASSUME TtyTypeOK, NEW m \in Nat, lengths' = Append(lengths, m), UNCHANGED gEnableRssi,
         NEW n \in 0 .. Len(lengths), m \in 1 .. 63
  PROVE  Rest(n)' = Rest(n) \o Bytes(Len(lengths) + 1, m)
<1> DEFINE x == Bytes(Len(lengths) + 1, m)
<1>1. x \in Seq(Nat) /\ Len(lengths) \in Nat
  <2>1. Len(lengths) \in Nat /\ Len(lengths) + 1 \in Nat /\ gEnableRssi \in BOOLEAN
    BY SentType
  <2> QED
    BY <2>1, BytesType
<1>2. /\ Len(lengths') = Len(lengths) + 1 /\ lengths'[Len(lengths) + 1] = m
      /\ \A k \in 1 .. Len(lengths) : lengths'[k] = lengths[k]
  BY AppendProperties DEF TtyTypeOK, RC1180_MAX_BUFFER_SIZE
<1>3. /\ Pieces(n) \in Seq(Seq(Nat)) /\ Len(Pieces(n)) = Len(lengths) - n
      /\ Append(Pieces(n), x) \in Seq(Seq(Nat))
      /\ Len(Append(Pieces(n), x)) = Len(lengths) - n + 1
      /\ \A i \in 1 .. Len(lengths) - n : Append(Pieces(n), x)[i] = Pieces(n)[i]
      /\ Append(Pieces(n), x)[Len(lengths) - n + 1] = x
  BY <1>1, PiecesType, AppendProperties
<1>4. \A k, l : Bytes(k, l)' = Bytes(k, l)
  BY DEF Bytes, Payload, Trailer
<1>5. Pieces(n)' = [i \in 1 .. Len(lengths) - n + 1 |-> Bytes(n + i, lengths'[n + i])]
  <2>1. Len(lengths') - n = Len(lengths) - n + 1
    BY <1>1, <1>2
  <2> QED
    BY <1>4, <2>1 DEF Pieces
<1>6. \A i \in 1 .. Len(lengths) - n + 1 :
        Append(Pieces(n), x)[i] = Bytes(n + i, lengths'[n + i])
  <2> TAKE i \in 1 .. Len(lengths) - n + 1
  <2>1. CASE i \in 1 .. Len(lengths) - n
    <3>1. n + i \in 1 .. Len(lengths)
      BY <1>1, <2>1
    <3>2. Pieces(n)[i] = Bytes(n + i, lengths[n + i])
      BY <2>1 DEF Pieces
    <3> QED
      BY <1>2, <1>3, <2>1, <3>1, <3>2
  <2>2. CASE i = Len(lengths) - n + 1
    <3>1. n + i = Len(lengths) + 1
      BY <1>1, <2>2
    <3> QED
      BY <1>2, <1>3, <2>2, <3>1
  <2>3. i \in 1 .. Len(lengths) - n \/ i = Len(lengths) - n + 1
    BY <1>1
  <2> QED
    BY <2>1, <2>2, <2>3
<1>7. Append(Pieces(n), x) = [i \in 1 .. Len(lengths) - n + 1 |-> Bytes(n + i, lengths'[n + i])]
  <2>1. Append(Pieces(n), x) = [i \in 1 .. Len(lengths) - n + 1 |-> Append(Pieces(n), x)[i]]
    <3>1. Append(Pieces(n), x) \in [1 .. Len(lengths) - n + 1 -> Seq(Nat)]
      <4> DEFINE a == Append(Pieces(n), x)
      <4>1. a \in Seq(Seq(Nat)) /\ Len(a) = Len(lengths) - n + 1
        BY <1>3
      <4> HIDE DEF a
      <4>2. a \in [1 .. Len(a) -> Seq(Nat)]
        BY <4>1, LenProperties
      <4> QED
        BY <4>1, <4>2 DEF a
    <3> QED
      BY <3>1
  <2> QED
    BY <1>6, <2>1
<1>8. Pieces(n)' = Append(Pieces(n), x)
  BY <1>5, <1>7
<1>9. Rest(n)' = FlattenSeq(Pieces(n))'
  BY DEF Rest, Pieces
<1>10. FlattenSeq(Pieces(n))' = FlattenSeq(Pieces(n)')
  OBVIOUS
<1>11. FlattenSeq(Append(Pieces(n), x)) = FlattenSeq(Pieces(n)) \o x
  BY <1>1, <1>3, FlattenAppend
<1> QED
  BY <1>8, <1>9, <1>10, <1>11, RestPieces

-----------------------------------------------------------------------------
(* The sleeps are long enough. *)
LEMMA ByteTimes ==
  /\ baud = 9600 => ByteTime = 1042
  /\ baud = 19200 => ByteTime = 521
  /\ baud = 115200 => ByteTime = 87
<1>1. 10000000 \div 9600 = 1041 /\ 10000000 \div 19200 = 520 /\ 10000000 \div 115200 = 86
  BY SMT
<1> QED
  BY <1>1 DEF ByteTime

LEMMA TimesPerByte ==
  TimePerByte(9600) = 1770 /\ TimePerByte(19200) = 660 /\ TimePerByte(115200) = 590
  BY DEF TimePerByte, TIME_TXD

LEMMA WaitTimes ==
  ASSUME NEW h \in Nat
  PROVE  /\ WaitTime(9600, h) = 1080 + 1770 * h
         /\ WaitTime(19200, h) = 1080 + 660 * h
         /\ WaitTime(115200, h) = 1080 + 590 * h
  BY TimesPerByte DEF WaitTime, TIME_RX_TXD, TIME_TXD_IDLE

LEMMA Uncut ==
  ASSUME NEW x \in Nat, x < 65536
  PROVE  x % 65536 = x
  BY SMT

LEMMA TransferBaudRate ==
  ASSUME baud \in {9600, 19200, 115200}
  PROVE  transfer_baud_rate(baud) = baud
<1>1. 9600 % 65536 = 9600 /\ 19200 % 65536 = 19200 /\ 115200 % 65536 = 49664
  BY SMT
<1> QED
  BY <1>1 DEF transfer_baud_rate

(* The sleep of every receiver is long enough for the bytes it waits for. *)
LEMMA SleepEnough ==
  ASSUME <<program, baud>> \in Receivers, NEW h \in Nat, Sleep(h),
         h = 0 \/ \E f \in Frames : f[1] = program /\ f[2] = baud /\ f[3] = h
  PROVE  gTxInterval' \in Nat /\ owed' \in Nat /\ h <= owed' /\ 1 <= owed'
<1>1. owed' = gTxInterval' \div ByteTime
  BY DEF Sleep
<1>2. CASE program = "knx"
  <2>1. baud \in {9600, 19200, 115200}
    BY <1>2 DEF Receivers
  <2>2. WaitTime(baud, h) < 65536
    <3>1. CASE h = 0
      <4>1. /\ WaitTime(9600, 0) = 1080 /\ WaitTime(19200, 0) = 1080
            /\ WaitTime(115200, 0) = 1080
        BY TimesPerByte DEF WaitTime, TIME_RX_TXD, TIME_TXD_IDLE
      <4>2. WaitTime(baud, h) = 1080
        BY <2>1, <3>1, <4>1
      <4> QED
        BY <4>2
    <3>2. CASE \E f \in Frames : f[1] = program /\ f[2] = baud /\ f[3] = h
      BY <1>2, <3>2, SleepAssumption
    <3> QED
      BY <3>1, <3>2
  <2>3. gTxInterval' = transfer_wait_time(baud, h)
    <3>1. gTxInterval' = transfer_wait_time(transfer_baud_rate(baud), h)
      BY <1>2, Zenon DEF Sleep
    <3> QED
      BY <2>1, <3>1, TransferBaudRate
  <2>4. CASE baud = 9600
    <3>1. PICK x : x = 1080 + 1770 * h
      OBVIOUS
    <3>2. x = WaitTime(baud, h)
      BY <2>4, <3>1, WaitTimes
    <3>3. x \in Nat /\ x < 65536
      BY <2>2, <3>1, <3>2
    <3>4. gTxInterval' = x
      BY <2>3, <3>2, <3>3, Uncut DEF transfer_wait_time
    <3>5. x \div 1042 \in Nat /\ h <= x \div 1042 /\ 1 <= x \div 1042
      BY <3>1, <3>3
    <3> QED
      BY <1>1, <2>4, <3>3, <3>4, <3>5, ByteTimes
  <2>5. CASE baud = 19200
    <3>1. PICK x : x = 1080 + 660 * h
      OBVIOUS
    <3>2. x = WaitTime(baud, h)
      BY <2>5, <3>1, WaitTimes
    <3>3. x \in Nat /\ x < 65536
      BY <2>2, <3>1, <3>2
    <3>4. gTxInterval' = x
      BY <2>3, <3>2, <3>3, Uncut DEF transfer_wait_time
    <3>5. x \div 521 \in Nat /\ h <= x \div 521 /\ 1 <= x \div 521
      BY <3>1, <3>3
    <3> QED
      BY <1>1, <2>5, <3>3, <3>4, <3>5, ByteTimes
  <2>6. CASE baud = 115200
    <3>1. PICK x : x = 1080 + 590 * h
      OBVIOUS
    <3>2. x = WaitTime(baud, h)
      BY <2>6, <3>1, WaitTimes
    <3>3. x \in Nat /\ x < 65536
      BY <2>2, <3>1, <3>2
    <3>4. gTxInterval' = x
      BY <2>3, <3>2, <3>3, Uncut DEF transfer_wait_time
    <3>5. x \div 87 \in Nat /\ h <= x \div 87 /\ 1 <= x \div 87
      BY <3>1, <3>3
    <3> QED
      BY <1>1, <2>6, <3>3, <3>4, <3>5, ByteTimes
  <2> QED
    BY <2>1, <2>4, <2>5, <2>6
<1>3. CASE program = "test"
  <2>1. baud = 9600
    BY <1>3 DEF Receivers
  <2>2. gTxInterval' = TestSleep(h)
    BY <1>3, Zenon DEF Sleep
  <2>3. gTxInterval' = 180 + 1770 * (IF h = 0 THEN 1 ELSE h) + 900
    BY <2>2 DEF TestSleep
  <2>4. PICK x : x = gTxInterval'
    OBVIOUS
  <2>a. x \in Nat
    BY <2>3, <2>4
  <2>5. 1770 * h + 1080 <= x /\ 1042 <= x
    BY <2>3, <2>4
  <2>6. x \div 1042 \in Nat /\ h <= x \div 1042 /\ 1 <= x \div 1042
    BY <2>a, <2>5
  <2>7. owed' = x \div 1042
    BY <1>1, <2>1, <2>4, ByteTimes
  <2>8. owed' \in Nat /\ h <= owed' /\ 1 <= owed'
    BY <2>5, <2>6, <2>7
  <2>9. gTxInterval' \in Nat
    BY <2>4, <2>a, Zenon
  <2> QED
    BY <2>8, <2>9, Zenon
<1>4. CASE program = "0116"
  <2>1. baud = 19200
    BY <1>4 DEF Receivers
  <2>2. gTxInterval' = Sleep0116(h)
    BY <1>4, Zenon DEF Sleep
  <2>3. PICK x : x = gTxInterval'
    OBVIOUS
  <2>4. x \in Nat /\ 660 * h + 1080 <= x
    BY <2>2, <2>3 DEF Sleep0116
  <2>5. x \div 521 \in Nat /\ h <= x \div 521 /\ 1 <= x \div 521
    BY <2>4
  <2>6. owed' = x \div 521
    BY <1>1, <2>1, <2>3, ByteTimes
  <2> QED
    BY <2>3, <2>4, <2>5, <2>6
<1> QED
  BY <1>2, <1>3, <1>4 DEF Receivers

-----------------------------------------------------------------------------
(* The steps. *)
LEMMA Parts ==
  ASSUME TtyInv
  PROVE  /\ TtyTypeOK /\ gEnableRssi \in BOOLEAN
         /\ arrived \in Seq(Nat) /\ line \in Seq(Nat)
         /\ owed \in Nat /\ frame_length \in Nat
         /\ Len(arrived) \in Nat /\ Len(line) \in Nat
         /\ Len(lengths) \in Nat /\ Len(queued) \in 0 .. Len(lengths)
         /\ Len(queued) \in Nat
         /\ DOMAIN queued = 1 .. Len(queued)
         /\ Trailer \in Seq(Nat)
<1>1. TtyTypeOK /\ Len(queued) <= Len(lengths)
  BY DEF TtyInv, FramesWhole
<1>2. /\ gEnableRssi \in BOOLEAN /\ arrived \in Seq(Nat) /\ line \in Seq(Nat)
      /\ queued \in Seq(Seq(Nat)) /\ owed \in Nat /\ frame_length \in Nat
  BY <1>1 DEF TtyTypeOK
<1>3. Len(arrived) \in Nat /\ Len(line) \in Nat /\ Len(queued) \in Nat
  BY <1>2, LenProperties
<1>4. Len(lengths) \in Nat
  BY <1>1, SentType
<1>5. DOMAIN queued = 1 .. Len(queued)
  BY <1>2, LenProperties
<1>6. Trailer \in Seq(Nat)
  BY <1>2, TrailerType
<1>7. Len(queued) \in 0 .. Len(lengths)
  BY <1>1, <1>3, <1>4
<1> QED
  BY <1>1, <1>2, <1>3, <1>4, <1>5, <1>6, <1>7

(* What was before the reader still is, with x behind it. *)
LEMMA StreamGrows ==
  ASSUME TtyInv, NEW x \in Seq(Nat),
         UNCHANGED <<gEnableRssi, thread, queued, frame_length>>,
         arrived' \o line' = (arrived \o line) \o x,
         \A n \in 0 .. Len(lengths) : Rest(n)' = Rest(n) \o x,
         Len(lengths') \in Nat, Len(lengths) <= Len(lengths'),
         \A k \in 1 .. Len(lengths) : lengths'[k] = lengths[k],
         thread = "sleep" => Comes(frame_length)',
         thread = "sleep_rssi" => Comes(1)'
  PROVE  InStep' /\ AsleepInStep' /\ FramesWhole'
<1> DEFINE q == Len(queued)
<1>1. /\ q \in 0 .. Len(lengths) /\ Len(lengths) \in Nat /\ Trailer \in Seq(Nat)
      /\ TtyTypeOK /\ q \in Nat /\ frame_length \in Nat
  BY Parts
<1>2. Len(queued') = q /\ Trailer' = Trailer
  BY DEF Trailer
<1>3. Rest(q) \in Seq(Nat)
  BY <1>1, RestType
<1>4. Rest(q)' = Rest(q) \o x
  BY <1>1
<1>5. InStep'
  <2>1. SUFFICES ASSUME thread = "select"
        PROVE  \/ arrived' \o line' = Rest(q)'
               \/ queued # <<>> /\ arrived' \o line' = Trailer \o Rest(q)'
    BY <1>2 DEF InStep
  <2>2. (Trailer \o Rest(q)) \o x = Trailer \o (Rest(q) \o x)
    BY <1>1, <1>3, Assoc
  <2>3. \/ arrived \o line = Rest(q)
        \/ queued # <<>> /\ arrived \o line = Trailer \o Rest(q)
    BY <2>1 DEF TtyInv, InStep
  <2> QED
    BY <1>4, <2>2, <2>3, Zenon
<1>6. AsleepInStep'
  <2>1. ASSUME thread = "sleep"
        PROVE  /\ q < Len(lengths') /\ frame_length = lengths'[q + 1]
               /\ arrived' \o line' =
                    Payload(q + 1, frame_length) \o (Trailer \o Rest(q + 1)')
    <3>1. /\ q < Len(lengths) /\ frame_length = lengths[q + 1]
          /\ arrived \o line =
               Payload(q + 1, frame_length) \o (Trailer \o Rest(q + 1))
      BY <2>1 DEF TtyInv, AsleepInStep
    <3>2. q + 1 \in 0 .. Len(lengths) /\ q + 1 \in 1 .. Len(lengths) /\ q + 1 \in Nat
      BY <1>1, <3>1
    <3>3. Rest(q + 1)' = Rest(q + 1) \o x
      BY <3>2
    <3>4. Rest(q + 1) \in Seq(Nat) /\ Payload(q + 1, frame_length) \in Seq(Nat)
      BY <1>1, <3>2, RestType, PayloadType
    <3>5. Trailer \o Rest(q + 1) \in Seq(Nat)
      BY <1>1, <3>4, ConcatProperties
    <3>6. (Payload(q + 1, frame_length) \o (Trailer \o Rest(q + 1))) \o x
            = Payload(q + 1, frame_length) \o ((Trailer \o Rest(q + 1)) \o x)
      BY <3>4, <3>5, Assoc
    <3>7. (Trailer \o Rest(q + 1)) \o x = Trailer \o (Rest(q + 1) \o x)
      BY <1>1, <3>4, Assoc
    <3>8. lengths'[q + 1] = lengths[q + 1] /\ q < Len(lengths')
      BY <1>1, <3>1, <3>2
    <3>9. arrived' \o line' =
            Payload(q + 1, frame_length) \o (Trailer \o Rest(q + 1)')
      BY <3>1, <3>3, <3>6, <3>7
    <3> QED
      BY <3>1, <3>8, <3>9
  <2>2. ASSUME thread = "sleep_rssi"
        PROVE  arrived' \o line' = <<39>> \o Rest(q)'
    <3>1. arrived \o line = <<39>> \o Rest(q)
      BY <2>2 DEF TtyInv, AsleepInStep
    <3>2. <<39>> \in Seq(Nat)
      OBVIOUS
    <3>3. (<<39>> \o Rest(q)) \o x = <<39>> \o (Rest(q) \o x)
      BY <1>3, <3>2, Assoc
    <3> QED
      BY <1>4, <3>1, <3>3
  <2> QED
    BY <1>2, <2>1, <2>2 DEF AsleepInStep
<1>7. FramesWhole'
  <2>1. Len(queued') <= Len(lengths')
    BY <1>1, <1>2
  <2>2. \A k \in DOMAIN queued : k \in 1 .. Len(lengths)
    BY <1>1, Parts
  <2>3. \A k \in DOMAIN queued : queued[k] = Payload(k, lengths[k])
    BY DEF TtyInv, FramesWhole
  <2>4. \A k \in DOMAIN queued : queued[k] = Payload(k, lengths'[k])
    BY <2>2, <2>3
  <2>5. \A k \in DOMAIN queued' : queued'[k] = Payload(k, lengths'[k])
    BY <2>4
  <2> QED
    BY <2>1, <2>5 DEF FramesWhole
<1> QED
  BY <1>5, <1>6, <1>7

(* With nothing left on the line, what is to come first has arrived. *)
LEMMA SilentArrived ==
  \A s, u, v \in Seq(Nat) : s \o <<>> = u \o v => Len(u) <= Len(s)
<1> TAKE s, u, v \in Seq(Nat)
<1>1. /\ Len(u \o v) = Len(u) + Len(v)
      /\ Len(u) \in Nat /\ Len(v) \in Nat
  BY ConcatProperties, LenProperties
<1>2. s \o <<>> = s
  BY ConcatEmptySeq
<1> QED
  BY <1>1, <1>2

(* A sleep whose bytes come ends with the bytes there. *)
LEMMA ComeWhenAwake ==
  ASSUME arrived \in Seq(Nat), owed \in Nat,
         NEW u \in Seq(Nat), NEW v \in Seq(Nat),
         arrived \o line = u \o v, Comes(Len(u)), Awake
  PROVE  Len(u) <= Len(arrived)
<1>1. Len(u) \in Nat /\ Len(arrived) \in Nat
  BY LenProperties
<1>2. CASE line = <<>>
  BY <1>2, SilentArrived
<1>3. CASE line # <<>>
  BY <1>1, <1>3 DEF Comes, Awake
<1> QED
  BY <1>2, <1>3

(* When a frame is sent on a silent line nothing is owed any more, and what the
   thread sleeps for has arrived. *)
LEMMA SendComes ==
  ASSUME arrived \in Seq(Nat), owed \in Nat, Send,
         NEW u \in Seq(Nat), NEW v \in Seq(Nat),
         arrived \o line = u \o v, Comes(Len(u))
  PROVE  Comes(Len(u))'
<1>1. Len(u) \in Nat /\ Len(arrived) \in Nat /\ Len(u)' = Len(u)
  BY LenProperties
<1>2. arrived' = arrived /\ owed' = IF line = <<>> THEN 0 ELSE owed
  BY DEF Send
<1>3. CASE line = <<>>
  <2>1. Len(u) <= Len(arrived)
    BY <1>3, SilentArrived
  <2> QED
    BY <1>1, <1>2, <1>3, <2>1 DEF Comes
<1>4. CASE line # <<>>
  BY <1>1, <1>2, <1>4 DEF Comes
<1> QED
  BY <1>3, <1>4

(* An arrival may be one of those owed, or one more. *)
LEMMA ArriveComes ==
  ASSUME arrived \in Seq(Nat), line \in Seq(Nat), owed \in Nat, Arrive,
         NEW n \in Nat, Comes(n)
  PROVE  Comes(n)'
<1>1. /\ line # <<>> /\ arrived' = Append(arrived, Head(line))
      /\ owed' = IF owed = 0 THEN 0 ELSE owed - 1
  BY DEF Arrive
<1>2. Head(line) \in Nat
  BY <1>1, HeadTailProperties
<1>3. Len(arrived') = Len(arrived) + 1 /\ Len(arrived) \in Nat
  BY <1>1, <1>2, AppendProperties, LenProperties
<1> QED
  BY <1>1, <1>3 DEF Comes

(* The bytes of the frame that the thread sleeps for, and those behind them. *)
LEMMA Sleeping ==
  ASSUME TtyInv, thread = "sleep"
  PROVE  \E u, v \in Seq(Nat) :
           /\ Len(u) = frame_length
           /\ u = Payload(Len(queued) + 1, frame_length)
           /\ v = Trailer \o Rest(Len(queued) + 1)
           /\ arrived \o line = u \o v /\ Comes(Len(u))
<1>1. /\ Len(queued) < Len(lengths)
      /\ arrived \o line =
           Payload(Len(queued) + 1, frame_length) \o (Trailer \o Rest(Len(queued) + 1))
      /\ Comes(frame_length)
  BY DEF TtyInv, AsleepInStep
<1>2. /\ Len(queued) + 1 \in 0 .. Len(lengths) /\ Len(queued) + 1 \in Nat
      /\ frame_length \in Nat /\ TtyTypeOK /\ Trailer \in Seq(Nat)
  BY <1>1, Parts
<1>3. Rest(Len(queued) + 1) \in Seq(Nat)
  BY <1>2, RestType
<1>4. Trailer \o Rest(Len(queued) + 1) \in Seq(Nat)
  BY <1>2, <1>3, ConcatProperties
<1>5. /\ Payload(Len(queued) + 1, frame_length) \in Seq(Nat)
      /\ Len(Payload(Len(queued) + 1, frame_length)) = frame_length
  BY <1>2, PayloadType
<1> QED
  BY <1>1, <1>4, <1>5

LEMMA SleepingRssi ==
  ASSUME TtyInv, thread = "sleep_rssi"
  PROVE  \E u, v \in Seq(Nat) :
           /\ Len(u) = 1 /\ u = <<39>> /\ v = Rest(Len(queued))
           /\ arrived \o line = u \o v /\ Comes(Len(u))
<1>1. arrived \o line = <<39>> \o Rest(Len(queued)) /\ Comes(1)
  BY DEF TtyInv, AsleepInStep
<1>2. <<39>> \in Seq(Nat) /\ Len(<<39>>) = 1
  OBVIOUS
<1>3. TtyTypeOK /\ Len(queued) \in 0 .. Len(lengths)
  BY Parts
<1>4. Rest(Len(queued)) \in Seq(Nat)
  BY <1>3, RestType
<1> QED
  BY <1>1, <1>2, <1>4

(* A frame is put on the wire. *)
LEMMA SendStep ==
  ASSUME TtyInv, Send
  PROVE  TtyInv'
<1>1. PICK f \in Frames :
        /\ f[1] = program /\ f[2] = baud
        /\ lengths' = Append(lengths, f[3])
        /\ line' = line \o Bytes(Len(lengths) + 1, f[3])
  BY DEF Send
<1>2. PICK m : m = f[3]
  OBVIOUS
<1>3. m \in 1 .. 63 /\ m \in Nat
  <2>1. f[3] \in 1 .. RC1180_MAX_BUFFER_SIZE - 1
    BY FramesAssumption, Zenon
  <2>2. m \in 1 .. RC1180_MAX_BUFFER_SIZE - 1
    BY <1>2, <2>1
  <2> QED
    BY <2>2 DEF RC1180_MAX_BUFFER_SIZE
<1>4. /\ UNCHANGED <<program, baud, gEnableRssi, arrived, gTxInterval, frame_length>>
      /\ UNCHANGED <<thread, queued>>
      /\ owed' = IF line = <<>> THEN 0 ELSE owed
  BY DEF Send, env
<1>5. PICK x : x = Bytes(Len(lengths) + 1, m)
  OBVIOUS
<1>6. x \in Seq(Nat)
  <2>1. Len(lengths) + 1 \in Nat /\ gEnableRssi \in BOOLEAN
    BY Parts
  <2> QED
    BY <1>3, <1>5, <2>1, BytesType
<1>7. line' = line \o x /\ lengths' = Append(lengths, m)
  BY <1>1, <1>2, <1>5
<1>8. /\ lengths \in Seq(1 .. 63) /\ TtyTypeOK
      /\ arrived \in Seq(Nat) /\ line \in Seq(Nat) /\ owed \in Nat
      /\ Len(lengths) \in Nat
  BY Parts DEF TtyTypeOK, RC1180_MAX_BUFFER_SIZE
<1>9. /\ lengths' \in Seq(1 .. 63) /\ Len(lengths') = Len(lengths) + 1
      /\ lengths'[Len(lengths) + 1] = m
      /\ \A k \in 1 .. Len(lengths) : lengths'[k] = lengths[k]
  BY <1>3, <1>7, <1>8, AppendProperties
<1>10. line' \in Seq(Nat) /\ owed' \in Nat
  BY <1>4, <1>6, <1>7, <1>8, ConcatProperties
<1>11. TtyTypeOK'
  <2>1. ASSUME NEW k \in 1 .. Len(lengths')
        PROVE  \E g \in Frames : g[1] = program /\ g[2] = baud /\ g[3] = lengths'[k]
    <3>1. k \in 1 .. Len(lengths) \/ k = Len(lengths) + 1
      BY <1>8, <1>9
    <3>2. CASE k \in 1 .. Len(lengths)
      BY <1>8, <1>9, <3>2 DEF TtyTypeOK
    <3>3. CASE k = Len(lengths) + 1
      BY <1>1, <1>2, <1>9, <3>3
    <3> QED
      BY <3>1, <3>2, <3>3
  <2>2. \A k \in 1 .. Len(lengths') :
          \E g \in Frames : g[1] = program' /\ g[2] = baud' /\ g[3] = lengths'[k]
    BY <1>4, <2>1
  <2>3. lengths' \in Seq(1 .. RC1180_MAX_BUFFER_SIZE - 1)
    BY <1>9 DEF RC1180_MAX_BUFFER_SIZE
  <2> QED
    BY <1>4, <1>8, <1>10, <2>2, <2>3 DEF TtyTypeOK
<1>12. arrived' \o line' = (arrived \o line) \o x
  BY <1>4, <1>6, <1>7, <1>8, Assoc
<1>13. \A n \in 0 .. Len(lengths) : Rest(n)' = Rest(n) \o x
  <2> TAKE n \in 0 .. Len(lengths)
  <2> QED
    BY <1>3, <1>4, <1>5, <1>7, <1>8, RestSend
<1>14. Len(lengths') \in Nat /\ Len(lengths) <= Len(lengths')
  BY <1>8, <1>9
<1>15. thread = "sleep" => Comes(frame_length)'
  <2> SUFFICES ASSUME thread = "sleep" PROVE Comes(frame_length)'
    OBVIOUS
  <2>1. PICK u, v \in Seq(Nat) :
          Len(u) = frame_length /\ arrived \o line = u \o v /\ Comes(Len(u))
    BY Sleeping
  <2>4. Comes(Len(u))'
    BY <1>8, <2>1, SendComes
  <2> QED
    BY <1>4, <2>1, <2>4 DEF Comes
<1>16. thread = "sleep_rssi" => Comes(1)'
  <2> SUFFICES ASSUME thread = "sleep_rssi" PROVE Comes(1)'
    OBVIOUS
  <2>1. PICK u, v \in Seq(Nat) :
          Len(u) = 1 /\ arrived \o line = u \o v /\ Comes(Len(u))
    BY SleepingRssi
  <2>4. Comes(Len(u))'
    BY <1>8, <2>1, SendComes
  <2> QED
    BY <2>1, <2>4 DEF Comes
<1>17. InStep' /\ AsleepInStep' /\ FramesWhole'
  BY <1>4, <1>6, <1>9, <1>12, <1>13, <1>14, <1>15, <1>16, StreamGrows
<1>18. CrashesAtHeader'
  BY <1>4 DEF TtyInv, CrashesAtHeader, Last
<1> QED
  BY <1>11, <1>17, <1>18 DEF TtyInv

LEMMA HeadAppend ==
  \A s, t \in Seq(Nat) :
    t # <<>> => /\ Append(s, Head(t)) \o Tail(t) = s \o t
                /\ Append(s, Head(t)) \in Seq(Nat) /\ Tail(t) \in Seq(Nat)
<1> SUFFICES ASSUME NEW s \in Seq(Nat), NEW t \in Seq(Nat), t # <<>>
             PROVE  /\ Append(s, Head(t)) \o Tail(t) = s \o t
                    /\ Append(s, Head(t)) \in Seq(Nat) /\ Tail(t) \in Seq(Nat)
  OBVIOUS
<1>1. PICK h \in Nat : h = Head(t)
  BY HeadTailProperties
<1>2. Tail(t) \in Seq(Nat) /\ <<h>> \in Seq(Nat)
  BY HeadTailProperties
<1>3. Append(s, h) = s \o <<h>> /\ Append(s, h) \in Seq(Nat)
  BY AppendIsConcat, AppendProperties
<1>4. t = <<h>> \o Tail(t)
  <2>1. /\ Len(t) \in Nat /\ Len(Tail(t)) = Len(t) - 1 /\ t[1] = h
        /\ \A i \in 1 .. Len(Tail(t)) : Tail(t)[i] = t[i + 1]
    BY <1>1, HeadTailProperties, LenProperties
  <2>2. Len(<<h>>) = 1 /\ <<h>>[1] = h
    OBVIOUS
  <2>3. /\ <<h>> \o Tail(t) \in Seq(Nat)
        /\ Len(<<h>> \o Tail(t)) = Len(<<h>>) + Len(Tail(t))
        /\ \A i \in 1 .. Len(<<h>>) + Len(Tail(t)) :
             (<<h>> \o Tail(t))[i] = IF i <= Len(<<h>>) THEN <<h>>[i]
                                     ELSE Tail(t)[i - Len(<<h>>)]
    BY <1>2, ConcatProperties
  <2>4. Len(<<h>> \o Tail(t)) = Len(t)
    BY <2>1, <2>2, <2>3
  <2>5. ASSUME NEW i \in 1 .. Len(t) PROVE (<<h>> \o Tail(t))[i] = t[i]
    <3>1. (<<h>> \o Tail(t))[i] = IF i <= 1 THEN <<h>>[i] ELSE Tail(t)[i - 1]
      BY <2>1, <2>2, <2>3
    <3>2. CASE i = 1
      BY <2>1, <2>2, <3>1, <3>2
    <3>3. CASE i # 1
      <4>1. i - 1 \in 1 .. Len(Tail(t)) /\ (i - 1) + 1 = i /\ ~ (i <= 1)
        BY <2>1, <3>3
      <4> QED
        BY <2>1, <3>1, <4>1
    <3> QED
      BY <3>2, <3>3
  <2> QED
    BY <2>3, <2>4, <2>5, SeqEqual
<1>5. (s \o <<h>>) \o Tail(t) = s \o (<<h>> \o Tail(t))
  BY <1>2, Assoc
<1> QED
  BY <1>1, <1>2, <1>3, <1>4, <1>5

LEMMA SameRest ==
  ASSUME UNCHANGED <<gEnableRssi, lengths>>
  PROVE  Trailer' = Trailer /\ \A n : Rest(n)' = Rest(n)
<1>1. Trailer' = Trailer
  BY DEF Trailer
<1>2. \A k, l : Bytes(k, l)' = Bytes(k, l)
  BY <1>1 DEF Bytes, Payload
<1> QED
  BY <1>1, <1>2 DEF Rest

(* The next byte on the wire arrives. *)
LEMMA ArriveStep ==
  ASSUME TtyInv, Arrive
  PROVE  TtyInv'
<1>1. /\ line # <<>> /\ arrived' = Append(arrived, Head(line)) /\ line' = Tail(line)
      /\ owed' = IF owed = 0 THEN 0 ELSE owed - 1
      /\ UNCHANGED <<program, baud, gEnableRssi, gTxInterval, frame_length>>
      /\ UNCHANGED <<thread, lengths, queued>>
  BY DEF Arrive, env
<1>2. /\ TtyTypeOK /\ arrived \in Seq(Nat) /\ line \in Seq(Nat) /\ owed \in Nat
      /\ Len(lengths) \in Nat /\ frame_length \in Nat
  BY Parts
<1>3. /\ arrived' \o line' = arrived \o line
      /\ arrived' \in Seq(Nat) /\ line' \in Seq(Nat)
  BY <1>1, <1>2, HeadAppend
<1>4. TtyTypeOK'
  <2>1. owed' \in Nat
    BY <1>1, <1>2
  <2> QED
    BY <1>1, <1>2, <1>3, <2>1 DEF TtyTypeOK
<1>5. PICK x \in Seq(Nat) : x = <<>>
  <2>1. <<>> \in Seq(Nat)
    OBVIOUS
  <2> QED
    BY <2>1
<1>6. arrived' \o line' = (arrived \o line) \o x
  <2>1. arrived \o line \in Seq(Nat)
    BY <1>2, ConcatProperties
  <2> QED
    BY <1>3, <1>5, <2>1, ConcatEmptySeq
<1>7. \A n \in 0 .. Len(lengths) : Rest(n)' = Rest(n) \o x
  <2> TAKE n \in 0 .. Len(lengths)
  <2>1. Rest(n) \in Seq(Nat)
    BY <1>2, RestType
  <2>2. Rest(n)' = Rest(n)
    BY <1>1, SameRest
  <2> QED
    BY <1>5, <2>1, <2>2, ConcatEmptySeq
<1>8. thread = "sleep" => Comes(frame_length)'
  <2>1. thread = "sleep" => Comes(frame_length)
    BY DEF TtyInv, AsleepInStep
  <2>2. PICK n \in Nat : n = frame_length
    BY <1>2
  <2>3. Comes(n) => Comes(n)'
    BY <1>2, ArriveComes
  <2>4. thread = "sleep" => Comes(n)'
    BY <2>1, <2>2, <2>3
  <2>5. frame_length' = n
    BY <1>1, <2>2
  <2> QED
    BY <2>4, <2>5 DEF Comes
<1>9. thread = "sleep_rssi" => Comes(1)'
  <2>1. thread = "sleep_rssi" => Comes(1)
    BY DEF TtyInv, AsleepInStep
  <2> QED
    BY <1>2, <2>1, ArriveComes
<1>10. Len(lengths') \in Nat /\ Len(lengths) <= Len(lengths')
       /\ \A k \in 1 .. Len(lengths) : lengths'[k] = lengths[k]
  BY <1>1, <1>2
<1>11. InStep' /\ AsleepInStep' /\ FramesWhole'
  BY <1>1, <1>6, <1>7, <1>8, <1>9, <1>10, StreamGrows
<1>12. CrashesAtHeader'
  BY <1>1 DEF TtyInv, CrashesAtHeader, Last
<1> QED
  BY <1>4, <1>11, <1>12 DEF TtyInv

(* At the beginning of a frame its length byte comes next. *)
LEMMA AtFrame ==
  ASSUME TtyInv, arrived # <<>>, NEW q \in Nat, q = Len(queued),
         arrived \o line = Rest(q)
  PROVE  /\ q < Len(lengths)
         /\ \E n \in Nat, v \in Seq(Nat) :
              /\ n # 0 /\ n = lengths[q + 1]
              /\ \E f \in Frames : f[1] = program /\ f[2] = baud /\ f[3] = n
              /\ v = Payload(q + 1, n) \o (Trailer \o Rest(q + 1))
              /\ arrived \o line = <<n>> \o v
<1>2. /\ TtyTypeOK /\ q \in 0 .. Len(lengths) /\ Len(lengths) \in Nat
      /\ arrived \in Seq(Nat) /\ line \in Seq(Nat) /\ Trailer \in Seq(Nat)
      /\ gEnableRssi \in BOOLEAN
  BY Parts
<1>3. q < Len(lengths)
  <2>1. arrived \o line # <<>>
    <3>1. /\ Len(arrived \o line) = Len(arrived) + Len(line)
          /\ Len(arrived) \in Nat \ {0} /\ Len(line) \in Nat
      BY <1>2, ConcatProperties, LenProperties, EmptySeq
    <3>2. Len(<<>>) = 0
      OBVIOUS
    <3> QED
      BY <3>1, <3>2
  <2>2. q # Len(lengths)
    BY <1>2, <2>1, RestEnd
  <2> QED
    BY <1>2, <2>2
<1>4. q + 1 \in 1 .. Len(lengths) /\ q + 1 \in 0 .. Len(lengths) /\ q + 1 \in Nat
  BY <1>2, <1>3
<1>5. PICK m \in Nat : m = lengths[q + 1] /\ m \in 1 .. 63
  BY <1>2, <1>4, SentType
<1>6. \E f \in Frames : f[1] = program /\ f[2] = baud /\ f[3] = m
  BY <1>2, <1>4, <1>5 DEF TtyTypeOK
<1>7. PICK p, s \in Seq(Nat) : p = Payload(q + 1, m) /\ s = Rest(q + 1)
  BY <1>2, <1>4, PayloadType, RestType
<1>8. Rest(q) = Bytes(q + 1, m) \o s
  BY <1>2, <1>3, <1>5, <1>7, RestCons
<1>9. PICK h \in Seq(Nat) : h = <<m>>
  <2>1. <<m>> \in Seq(Nat)
    OBVIOUS
  <2> QED
    BY <2>1
<1>10. Bytes(q + 1, m) = h \o (p \o Trailer) /\ p \o Trailer \in Seq(Nat)
  BY <1>2, <1>4, <1>7, <1>9, BytesType
<1>11. (h \o (p \o Trailer)) \o s = h \o ((p \o Trailer) \o s)
  BY <1>10, Assoc
<1>12. (p \o Trailer) \o s = p \o (Trailer \o s)
  BY <1>2, Assoc
<1>13. Trailer \o s \in Seq(Nat) /\ p \o (Trailer \o s) \in Seq(Nat)
  <2>1. Trailer \o s \in Seq(Nat)
    BY <1>2, ConcatProperties
  <2> QED
    BY <2>1, ConcatProperties
<1>14. arrived \o line = h \o (p \o (Trailer \o s))
  BY <1>8, <1>10, <1>11, <1>12
<1>15. m # 0
  <2>1. m \in 1 .. 63
    BY <1>5
  <2> QED
    BY <2>1, SMT
<1> QED
  BY <1>3, <1>5, <1>6, <1>7, <1>9, <1>13, <1>14, <1>15

(* Reading a length byte takes it off what is before the reader, and the sleep
   is long enough for as many bytes. *)
LEMMA LengthRead ==
  ASSUME TtyInv, ReadLength, NEW h \in Nat, NEW v \in Seq(Nat),
         arrived \o line = <<h>> \o v,
         h = 0 \/ \E f \in Frames : f[1] = program /\ f[2] = baud /\ f[3] = h,
         thread' \in {"select", "sleep", "sleep_rssi"}
  PROVE  /\ TtyTypeOK' /\ Head(arrived) = h /\ frame_length' = h
         /\ arrived' \o line' = v /\ h <= owed' /\ 1 <= owed' /\ owed' \in Nat
         /\ Len(arrived') \in Nat
<1>1. /\ arrived # <<>> /\ frame_length' = Head(arrived) /\ arrived' = Tail(arrived)
      /\ Sleep(Head(arrived))
      /\ UNCHANGED <<program, baud, gEnableRssi, line, lengths, queued>>
  BY DEF ReadLength, env
<1>2. TtyTypeOK /\ arrived \in Seq(Nat) /\ line \in Seq(Nat)
  BY Parts
<1>3. Head(arrived) = h /\ Tail(arrived) \o line = v /\ Tail(arrived) \in Seq(Nat)
  BY <1>1, <1>2, CutHead
<1>4. Sleep(h) /\ <<program, baud>> \in Receivers
  BY <1>1, <1>2, <1>3 DEF TtyTypeOK
<1>5. gTxInterval' \in Nat /\ owed' \in Nat /\ h <= owed' /\ 1 <= owed'
  BY <1>4, SleepEnough
<1>6. TtyTypeOK'
  BY <1>1, <1>2, <1>3, <1>5 DEF TtyTypeOK
<1>7. Len(arrived') \in Nat
  BY <1>1, <1>3, LenProperties
<1> QED
  BY <1>1, <1>3, <1>5, <1>6, <1>7

(* The thread reads a length byte and sleeps for the rest of its frame. *)
LEMMA ReadNonzeroStep ==
  ASSUME TtyInv, ReadNonzero
  PROVE  TtyInv'
<1>1. /\ ReadLength /\ Head(arrived) # 0 /\ thread = "select" /\ arrived # <<>>
      /\ thread' = "sleep"
      /\ UNCHANGED <<program, baud, gEnableRssi, line, lengths, queued>>
  BY DEF ReadNonzero, ReadLength, env
<1>2. PICK q \in Nat : q = Len(queued)
  BY Parts
<1>3. /\ arrived \in Seq(Nat) /\ line \in Seq(Nat) /\ TtyTypeOK
      /\ gEnableRssi \in BOOLEAN /\ q \in 0 .. Len(lengths)
  BY <1>2, Parts
<1>4. arrived \o line = Rest(q)
  <2>1. \/ arrived \o line = Rest(q)
        \/ arrived \o line = Trailer \o Rest(q)
    BY <1>1, <1>2 DEF TtyInv, InStep
  <2>2. Rest(q) \in Seq(Nat)
    BY <1>3, RestType
  <2>3. CASE ~ gEnableRssi
    <3>1. Trailer \o Rest(q) = Rest(q)
      BY <1>3, <2>2, <2>3, TrailerType, ConcatEmptySeq
    <3> QED
      BY <2>1, <3>1
  <2>4. CASE gEnableRssi
    <3>1. ASSUME arrived \o line = Trailer \o Rest(q) PROVE FALSE
      <4>1. PICK z, r \in Seq(Nat) : z = <<0>> /\ r = <<39>>
        <5>1. <<0>> \in Seq(Nat) /\ <<39>> \in Seq(Nat)
          OBVIOUS
        <5> QED
          BY <5>1
      <4>2. Trailer = z \o r
        BY <1>3, <2>4, <4>1, TrailerType
      <4>3. Trailer \o Rest(q) = z \o (r \o Rest(q)) /\ r \o Rest(q) \in Seq(Nat)
        BY <2>2, <4>2, Assoc, ConcatProperties
      <4>4. Head(arrived) = 0
        BY <1>1, <1>3, <3>1, <4>1, <4>3, CutHead
      <4> QED
        BY <1>1, <4>4
    <3> QED
      BY <2>1, <3>1
  <2> QED
    BY <1>3, <2>3, <2>4
<1>5. q < Len(lengths)
  BY <1>1, <1>2, <1>4, AtFrame
<1>6. PICK n \in Nat, v \in Seq(Nat) :
        /\ n # 0 /\ n = lengths[q + 1]
        /\ \E f \in Frames : f[1] = program /\ f[2] = baud /\ f[3] = n
        /\ v = Payload(q + 1, n) \o (Trailer \o Rest(q + 1))
        /\ arrived \o line = <<n>> \o v
  BY <1>1, <1>2, <1>4, AtFrame
<1>8. thread' \in {"select", "sleep", "sleep_rssi"}
  BY <1>1
<1>9. /\ TtyTypeOK' /\ frame_length' = n /\ arrived' \o line' = v
      /\ n <= owed' /\ owed' \in Nat /\ Len(arrived') \in Nat
  BY <1>1, <1>6, <1>8, LengthRead
<1>10. Comes(n)'
  BY <1>9 DEF Comes
<1>11. Comes(frame_length)'
  BY <1>9, <1>10 DEF Comes
<1>12. Trailer' = Trailer /\ Rest(q + 1)' = Rest(q + 1)
  BY <1>1, SameRest
<1>13. AsleepInStep'
  <2>1. /\ Len(queued') = q /\ lengths' = lengths
        /\ arrived' \o line' =
             Payload(q + 1, frame_length') \o (Trailer' \o Rest(q + 1)')
    BY <1>1, <1>2, <1>6, <1>9, <1>12
  <2> QED
    BY <1>1, <1>5, <1>6, <1>9, <1>11, <2>1 DEF AsleepInStep
<1>14. FramesWhole'
  BY <1>1 DEF TtyInv, FramesWhole
<1>15. InStep' /\ CrashesAtHeader'
  BY <1>1 DEF InStep, CrashesAtHeader
<1> QED
  BY <1>9, <1>13, <1>14, <1>15 DEF TtyInv

(* The thread reads a zero, the first of the two bytes behind a frame. *)
LEMMA ReadZeroStep ==
  ASSUME TtyInv, ReadZero
  PROVE  TtyInv'
<1>1. /\ ReadLength /\ Head(arrived) = 0 /\ thread = "select" /\ arrived # <<>>
      /\ thread' = IF gEnableRssi \/ program # "knx" THEN "sleep_rssi" ELSE "select"
      /\ UNCHANGED <<program, baud, gEnableRssi, line, lengths, queued>>
  BY DEF ReadZero, ReadLength, env
<1>2. PICK q \in Nat : q = Len(queued)
  BY Parts
<1>3. /\ arrived \in Seq(Nat) /\ line \in Seq(Nat) /\ TtyTypeOK
      /\ gEnableRssi \in BOOLEAN /\ q \in 0 .. Len(lengths)
  BY <1>2, Parts
<1>4. arrived \o line # Rest(q)
  <2> SUFFICES ASSUME arrived \o line = Rest(q) PROVE FALSE
    OBVIOUS
  <2>1. PICK n \in Nat, v \in Seq(Nat) : n # 0 /\ arrived \o line = <<n>> \o v
    BY <1>1, <1>2, AtFrame
  <2>2. Head(arrived) = n
    BY <1>1, <1>3, <2>1, CutHead
  <2> QED
    BY <1>1, <2>1, <2>2
<1>5. arrived \o line = Trailer \o Rest(q)
  BY <1>1, <1>2, <1>4 DEF TtyInv, InStep
<1>6. PICK r \in Seq(Nat) : r = Rest(q)
  BY <1>3, RestType
<1>7. gEnableRssi
  <2> SUFFICES ASSUME ~ gEnableRssi PROVE FALSE
    OBVIOUS
  <2>1. Trailer \o r = r
    BY <1>3, TrailerType, ConcatEmptySeq
  <2> QED
    BY <1>4, <1>5, <1>6, <2>1
<1>8. PICK z, s \in Seq(Nat) : z = <<0>> /\ s = <<39>>
  <2>1. <<0>> \in Seq(Nat) /\ <<39>> \in Seq(Nat)
    OBVIOUS
  <2> QED
    BY <2>1
<1>9. Trailer = z \o s
  BY <1>3, <1>7, <1>8, TrailerType
<1>10. (z \o s) \o r = z \o (s \o r) /\ s \o r \in Seq(Nat)
  BY Assoc, ConcatProperties
<1>11. arrived \o line = <<0>> \o (s \o r)
  BY <1>5, <1>6, <1>8, <1>9, <1>10
<1>12. thread' = "sleep_rssi"
  BY <1>1, <1>7
<1>13. /\ TtyTypeOK' /\ arrived' \o line' = s \o r
       /\ 1 <= owed' /\ owed' \in Nat /\ Len(arrived') \in Nat
  <2>1. thread' \in {"select", "sleep", "sleep_rssi"} /\ 0 \in Nat
    BY <1>12
  <2> QED
    BY <1>1, <1>10, <1>11, <2>1, LengthRead
<1>14. Comes(1)'
  BY <1>13 DEF Comes
<1>15. AsleepInStep'
  <2>1. Rest(q)' = Rest(q)
    BY <1>1, SameRest
  <2>2. Len(queued') = q /\ arrived' \o line' = <<39>> \o Rest(q)'
    BY <1>1, <1>2, <1>6, <1>8, <1>13, <2>1
  <2> QED
    BY <1>12, <1>14, <2>2 DEF AsleepInStep
<1>16. FramesWhole'
  BY <1>1 DEF TtyInv, FramesWhole
<1>17. InStep' /\ CrashesAtHeader'
  BY <1>12 DEF InStep, CrashesAtHeader
<1> QED
  BY <1>13, <1>15, <1>16, <1>17 DEF TtyInv

(* The thread reads the second of them. *)
LEMMA ReadRssiStep ==
  ASSUME TtyInv, ReadRssi
  PROVE  TtyInv'
<1>1. /\ thread = "sleep_rssi" /\ Awake /\ thread' = "select"
      /\ arrived' = IF arrived = <<>> THEN <<>> ELSE Tail(arrived)
      /\ UNCHANGED <<program, baud, gEnableRssi, line, owed, gTxInterval>>
      /\ UNCHANGED <<frame_length, lengths, queued>>
  BY DEF ReadRssi, env
<1>2. /\ TtyTypeOK /\ arrived \in Seq(Nat) /\ line \in Seq(Nat) /\ owed \in Nat
  BY Parts
<1>3. PICK u, v \in Seq(Nat) :
        /\ Len(u) = 1 /\ u = <<39>> /\ v = Rest(Len(queued))
        /\ arrived \o line = u \o v /\ Comes(Len(u))
  BY <1>1, SleepingRssi
<1>4. arrived # <<>>
  <2>1. Len(u) <= Len(arrived)
    BY <1>1, <1>2, <1>3, ComeWhenAwake
  <2>2. Len(arrived) # 0
    BY <1>2, <1>3, <2>1, LenProperties
  <2> QED
    BY <1>2, <2>2, EmptySeq
<1>5. Tail(arrived) \o line = v /\ Tail(arrived) \in Seq(Nat)
  <2>1. Len(u) <= Len(arrived)
    BY <1>1, <1>2, <1>3, ComeWhenAwake
  <2>2. arrived \in Seq(Nat) /\ line \in Seq(Nat) /\ arrived \o line = u \o v
    BY <1>2, <1>3
  <2>3. /\ SubSeq(arrived, Len(u) + 1, Len(arrived)) \o line = v
        /\ SubSeq(arrived, Len(u) + 1, Len(arrived)) \in Seq(Nat)
    BY <2>1, <2>2, CutFront, Zenon
  <2>4. Len(u) + 1 = 2
    BY <1>3
  <2>5. Tail(arrived) = SubSeq(arrived, 2, Len(arrived))
    BY <1>4, <2>2, TailIsSubSeq
  <2> QED
    BY <2>3, <2>4, <2>5
<1>6. arrived' = Tail(arrived)
  BY <1>1, <1>4
<1>7. TtyTypeOK'
  BY <1>1, <1>2, <1>5, <1>6 DEF TtyTypeOK
<1>8. InStep'
  <2>1. PICK q : q = Len(queued)
    OBVIOUS
  <2>2. Rest(q)' = Rest(q) /\ Len(queued') = q
    BY <1>1, <2>1, SameRest
  <2>3. arrived' \o line' = Rest(q)'
    BY <1>1, <1>3, <1>5, <1>6, <2>1, <2>2
  <2> QED
    BY <2>2, <2>3 DEF InStep
<1>9. FramesWhole'
  BY <1>1 DEF TtyInv, FramesWhole
<1>10. AsleepInStep' /\ CrashesAtHeader'
  BY <1>1 DEF AsleepInStep, CrashesAtHeader
<1> QED
  BY <1>7, <1>8, <1>9, <1>10 DEF TtyInv

(* The thread reads the rest of a frame and queues it. *)
LEMMA ReadFrameStep ==
  ASSUME TtyInv, ReadFrame
  PROVE  TtyInv'
<1>1. /\ thread = "sleep" /\ Awake
      /\ UNCHANGED <<program, baud, gEnableRssi, line, owed, gTxInterval>>
      /\ UNCHANGED <<frame_length, lengths>>
  BY DEF ReadFrame, ReadUpTo, env
<1>2. /\ TtyTypeOK /\ arrived \in Seq(Nat) /\ line \in Seq(Nat) /\ owed \in Nat
      /\ frame_length \in Nat /\ Len(arrived) \in Nat /\ Len(lengths) \in Nat
      /\ queued \in Seq(Seq(Nat)) /\ DOMAIN queued = 1 .. Len(queued)
  BY Parts DEF TtyTypeOK
<1>3. PICK q \in Nat : q = Len(queued)
  BY Parts
<1>4. PICK n \in Nat : n = frame_length
  BY <1>2
<1>5. q < Len(lengths) /\ n = lengths[q + 1]
  BY <1>1, <1>3, <1>4 DEF TtyInv, AsleepInStep
<1>6. PICK u, v \in Seq(Nat) :
        /\ Len(u) = n /\ u = Payload(q + 1, n) /\ v = Trailer \o Rest(q + 1)
        /\ arrived \o line = u \o v /\ Comes(Len(u))
  BY <1>1, <1>3, <1>4, Sleeping
<1>7. n <= Len(arrived)
  BY <1>1, <1>2, <1>6, ComeWhenAwake
<1>8. /\ arrived' = SubSeq(arrived, n + 1, Len(arrived))
      /\ queued' = Append(queued, SubSeq(arrived, 1, n))
      /\ thread' = IF Overruns(n) THEN "crashed" ELSE "select"
  <2>1. (IF frame_length < Len(arrived) THEN frame_length ELSE Len(arrived)) = n
    BY <1>2, <1>4, <1>7
  <2> QED
    BY <1>4, <2>1 DEF ReadFrame, ReadUpTo
<1>9. /\ SubSeq(arrived, 1, n) = u /\ arrived' \o line' = v /\ arrived' \in Seq(Nat)
  <2>1. arrived \o line = u \o v /\ Len(u) <= Len(arrived)
    BY <1>6, <1>7
  <2>2. arrived \in Seq(Nat) /\ line \in Seq(Nat)
    BY <1>2
  <2>3. /\ SubSeq(arrived, 1, Len(u)) = u
        /\ SubSeq(arrived, Len(u) + 1, Len(arrived)) \o line = v
        /\ SubSeq(arrived, Len(u) + 1, Len(arrived)) \in Seq(Nat)
    BY <2>1, <2>2, CutFront, Zenon
  <2>4. Len(u) = n /\ line' = line
    BY <1>1, <1>6
  <2> QED
    BY <1>8, <2>3, <2>4, Zenon
<1>10. /\ queued' \in Seq(Seq(Nat)) /\ Len(queued') = q + 1 /\ queued'[q + 1] = u
       /\ \A k \in 1 .. q : queued'[k] = queued[k]
       /\ DOMAIN queued' = 1 .. q + 1
  <2>1. queued' = Append(queued, u)
    BY <1>8, <1>9
  <2>2. /\ queued' \in Seq(Seq(Nat)) /\ Len(queued') = Len(queued) + 1
        /\ queued'[Len(queued) + 1] = u
        /\ \A k \in 1 .. Len(queued) : queued'[k] = queued[k]
    BY <1>2, <2>1, AppendProperties
  <2>3. DOMAIN queued' = 1 .. Len(queued')
    BY <2>2, LenProperties
  <2> QED
    BY <1>3, <2>2, <2>3
<1>11. TtyTypeOK'
  <2>1. thread' \in {"select", "crashed"}
    BY <1>8
  <2> QED
    BY <1>1, <1>2, <1>9, <1>10, <2>1 DEF TtyTypeOK
<1>12. InStep'
  <2>1. Trailer' = Trailer /\ Rest(q + 1)' = Rest(q + 1)
    BY <1>1, SameRest
  <2>2. arrived' \o line' = Trailer' \o Rest(q + 1)'
    BY <1>6, <1>9, <2>1
  <2>3. queued' # <<>>
    <3>1. Len(queued') # 0
      BY <1>10
    <3> QED
      BY <1>10, <3>1, EmptySeq
  <2> QED
    BY <1>10, <2>2, <2>3 DEF InStep
<1>13. FramesWhole'
  <2>1. ASSUME NEW k \in 1 .. q + 1 PROVE queued'[k] = Payload(k, lengths[k])
    <3>1. CASE k = q + 1
      BY <1>5, <1>6, <1>10, <3>1
    <3>2. CASE k # q + 1
      <4>1. k \in 1 .. q
        BY <3>2
      <4>2. queued[k] = Payload(k, lengths[k])
        BY <1>2, <1>3, <4>1 DEF TtyInv, FramesWhole
      <4> QED
        BY <1>10, <4>1, <4>2
    <3> QED
      BY <3>1, <3>2
  <2>2. Len(queued') <= Len(lengths)
    BY <1>2, <1>5, <1>10
  <2>3. \A k \in DOMAIN queued' : queued'[k] = Payload(k, lengths'[k])
    BY <1>1, <1>10, <2>1
  <2> QED
    BY <1>1, <2>2, <2>3 DEF FramesWhole
<1>14. AsleepInStep'
  BY <1>8 DEF AsleepInStep
<1>15. CrashesAtHeader'
  <2> SUFFICES ASSUME thread' = "crashed"
               PROVE  program' = "test" /\ Last(queued') = Payload(Len(queued'), 17)
    BY DEF CrashesAtHeader
  <2>1. Overruns(n)
    BY <1>8
  <2>2. ~ (ApplData0116(n) < 0)
    BY SMT DEF ApplData0116, LENGTH_BEFORE_APPL_DATA
  <2>3. TestApplData(n) < 0 => n = 17
    BY SMT DEF TestApplData, LENGTH_BEFORE_APPL_DATA
  <2>4. program = "test" /\ n = 17
    BY <2>1, <2>2, <2>3 DEF Overruns
  <2>5. Last(queued') = u
    BY <1>10 DEF Last
  <2> QED
    BY <1>1, <1>6, <1>10, <2>4, <2>5
<1> QED
  BY <1>11, <1>12, <1>13, <1>14, <1>15 DEF TtyInv

LEMMA TtyInitInv == TtyInit => TtyInv
<1> SUFFICES ASSUME TtyInit PROVE TtyInv
  OBVIOUS
<1>1. /\ line = <<>> /\ arrived = <<>> /\ lengths = <<>> /\ queued = <<>>
      /\ owed = 0 /\ gTxInterval = 0 /\ frame_length = 0 /\ thread = "select"
      /\ gEnableRssi \in BOOLEAN
  BY DEF TtyInit
<1>2. <<program, baud>> \in Receivers
  BY FramesAssumption DEF TtyInit
<1>3. Len(<<>>) = 0 /\ 1 .. 0 = {}
  OBVIOUS
<1>4. TtyTypeOK
  <2>1. \A k \in 1 .. Len(lengths) :
          \E f \in Frames : f[1] = program /\ f[2] = baud /\ f[3] = lengths[k]
    BY <1>1, <1>3
  <2>2. lengths \in Seq(1 .. RC1180_MAX_BUFFER_SIZE - 1) /\ queued \in Seq(Seq(Nat))
        /\ line \in Seq(Nat) /\ arrived \in Seq(Nat)
    BY <1>1
  <2> QED
    BY <1>1, <1>2, <2>1, <2>2 DEF TtyTypeOK
<1>5. InStep
  <2>1. Rest(Len(lengths)) = <<>>
    BY <1>4, RestEnd
  <2>2. arrived \o line = <<>>
    BY <1>1
  <2> QED
    BY <1>1, <2>1, <2>2 DEF InStep
<1>6. FramesWhole
  BY <1>1, <1>3 DEF FramesWhole
<1> QED
  BY <1>1, <1>4, <1>5, <1>6 DEF TtyInv, AsleepInStep, CrashesAtHeader

(* Every step preserves the invariant. *)
LEMMA TtyStep == TtyInv /\ [TtyNext]_tty_vars => TtyInv'
<1> SUFFICES ASSUME TtyInv, [TtyNext]_tty_vars PROVE TtyInv'
  OBVIOUS
<1>1. CASE UNCHANGED tty_vars
  <2>1. /\ UNCHANGED <<program, baud, gEnableRssi, line, arrived, owed>>
        /\ UNCHANGED <<gTxInterval, frame_length, thread, lengths, queued>>
    BY <1>1 DEF tty_vars, env
  <2>2. Trailer' = Trailer /\ \A n : Rest(n)' = Rest(n)
    BY <2>1, SameRest
  <2>3. TtyTypeOK'
    BY <2>1 DEF TtyInv, TtyTypeOK
  <2>4. PICK q : q = Len(queued)
    OBVIOUS
  <2>5. Rest(q)' = Rest(q) /\ Rest(q + 1)' = Rest(q + 1) /\ Len(queued') = q
    BY <2>1, <2>2, <2>4
  <2>6. InStep'
    BY <2>1, <2>2, <2>4, <2>5 DEF TtyInv, InStep
  <2>7. AsleepInStep'
    BY <2>1, <2>2, <2>4, <2>5 DEF TtyInv, AsleepInStep, Comes
  <2>8. FramesWhole'
    BY <2>1 DEF TtyInv, FramesWhole
  <2>9. CrashesAtHeader'
    BY <2>1 DEF TtyInv, CrashesAtHeader, Last
  <2> QED
    BY <2>3, <2>6, <2>7, <2>8, <2>9 DEF TtyInv
<1>2. CASE Send
  BY <1>2, SendStep
<1>3. CASE Arrive
  BY <1>3, ArriveStep
<1>4. CASE Reader
  BY <1>4, ReadZeroStep, ReadNonzeroStep, ReadRssiStep, ReadFrameStep DEF Reader
<1>5. CASE Done
  BY <1>1, <1>5 DEF Done
<1> QED
  BY <1>1, <1>2, <1>3, <1>4, <1>5 DEF TtyNext

(* Between any two steps of the wire and of the thread of handle_knx_tty
   (threadKnxTty.c; also of the receivers in misc/test/smc.c and
   smc_baud_rate_0116_2.c), what is arrived, held and still on its way is
   exactly the frames sent and not yet queued, and after transfer_wait_time no
   byte of the frame whose length was read is missing. *)
THEOREM TtyInvariant == TtySpec => []TtyInv
  BY TtyInitInv, TtyStep, PTL DEF TtySpec

(* Whenever handle_knx_tty returns to its select, the next byte it will read is
   the length byte of a frame or the first of the two bytes behind one: the
   sleep of transfer_wait_time between its reads never loses its place. *)
THEOREM ReaderInStep == TtySpec => []InStep
<1>1. TtyInv => InStep
  BY DEF TtyInv
<1> QED
  BY <1>1, TtyInvariant, PTL

(* What the read branch of handle_knx_tty has queued is the frames sent, each
   whole, in order, none left out and none merged with the next. *)
THEOREM FramesQueuedWhole == TtySpec => []FramesWhole
<1>1. TtyInv => FramesWhole
  BY DEF TtyInv
<1> QED
  BY <1>1, TtyInvariant, PTL

(* Only the receiver of misc/test/smc.c can end in its memcpy of a negative
   length, and only at a frame that is no longer than its own header. *)
THEOREM CrashOnlyAtHeader == TtySpec => []CrashesAtHeader
<1>1. TtyInv => CrashesAtHeader
  BY DEF TtyInv
<1> QED
  BY <1>1, TtyInvariant, PTL

-----------------------------------------------------------------------------
(* TimerDemo *)

LEMMA SixTimers == Timers = 1 .. 6 /\ Len(delays) = 6 /\ \A i \in 1 .. 6 : delays[i] \in Nat
  BY DEF Timers, delays

LEMMA DemoInitInv == DemoInit => DemoInv
  BY SixTimers DEF DemoInit, DemoInv, DemoTypeOK, InOrder

(* The tick pops the root, which is due, and runs its callback. *)
LEMMA FireStep ==
  ASSUME DemoInv, NEW t \in pending, TickFire(t), t \in WithCallback
  PROVE  DemoInv'
<1>1. /\ phase = "tick" /\ fired' = Append(fired, t) /\ pending' = pending \ {t}
      /\ UNCHANGED <<phase, expire, valid, cur, now>>
      /\ expire[t] <= cur /\ \A u \in pending : expire[t] <= expire[u]
  BY DEF TickFire, Earliest, Expired
<1>2. /\ DemoTypeOK /\ Len(expire) = 6 /\ \A u \in 1 .. 6 : expire[u] \in Nat
      /\ pending \subseteq 1 .. 6 /\ fired \in Seq(1 .. 6) /\ Len(fired) \in Nat
      /\ \A k \in 1 .. Len(fired) : fired[k] \in 1 .. 6
  BY <1>1, SixTimers, ElementOfSeq, LenProperties DEF DemoInv, DemoTypeOK
<1>3. /\ fired' \in Seq(1 .. 6) /\ Len(fired') = Len(fired) + 1
      /\ \A k \in 1 .. Len(fired) : fired'[k] = fired[k]
      /\ fired'[Len(fired) + 1] = t
      /\ DOMAIN fired' = 1 .. Len(fired) + 1
  BY <1>1, <1>2, AppendProperties, LenProperties
<1>4. DemoTypeOK'
  BY <1>1, <1>2, <1>3, SixTimers DEF DemoTypeOK
<1>5. \A k \in 1 .. Len(fired) :
        /\ expire[fired[k]] <= now /\ fired[k] \notin pending
        /\ \A u \in pending : expire[fired[k]] <= expire[u]
        /\ \A j \in 1 .. k - 1 : fired[j] # fired[k]
                                 /\ expire[fired[j]] <= expire[fired[k]]
  <2>1. DOMAIN fired = 1 .. Len(fired)
    BY <1>2, LenProperties
  <2> QED
    BY <2>1 DEF DemoInv, InOrder
<1>6. \A k \in 1 .. Len(fired) + 1 : k \in 1 .. Len(fired) \/ k = Len(fired) + 1
  BY <1>2
<1>7. ASSUME NEW k \in 1 .. Len(fired) + 1
      PROVE  /\ expire[fired'[k]] <= now /\ fired'[k] \notin pending'
             /\ \A u \in pending' : expire[fired'[k]] <= expire[u]
             /\ \A j \in 1 .. k - 1 : fired'[j] # fired'[k]
                                      /\ expire[fired'[j]] <= expire[fired'[k]]
  <2>1. CASE k \in 1 .. Len(fired)
    <3>1. \A j \in 1 .. k - 1 : j \in 1 .. Len(fired)
      BY <1>2, <2>1
    <3> QED
      BY <1>1, <1>3, <1>5, <2>1, <3>1
  <2>2. CASE k = Len(fired) + 1
    <3>1. expire[t] <= now
      <4>1. cur \in 0 .. now /\ now \in Nat /\ expire[t] \in Nat
        BY <1>2 DEF DemoTypeOK
      <4> QED
        BY <1>1, <4>1
    <3>2. \A j \in 1 .. k - 1 : j \in 1 .. Len(fired)
      BY <1>2, <2>2
    <3>3. \A j \in 1 .. k - 1 : fired[j] # t /\ expire[fired[j]] <= expire[t]
      BY <1>5, <3>2
    <3> QED
      BY <1>1, <1>3, <2>2, <3>1, <3>2, <3>3
  <2> QED
    BY <1>6, <2>1, <2>2
<1>8. /\ InOrder' 
      /\ \A k \in DOMAIN fired' :
           fired'[k] \notin pending' /\ \A u \in pending' : expire'[fired'[k]] <= expire'[u]
  BY <1>1, <1>3, <1>7 DEF InOrder
<1>9. phase' # "init"
  BY <1>1
<1> QED
  BY <1>4, <1>8, <1>9 DEF DemoInv

(* mytimer_init sets the expiry time of one more timer. *)
LEMMA InitTimerStep ==
  ASSUME DemoInv, mytimer_init
  PROVE  DemoInv'
<1>1. /\ phase = "init" /\ Len(expire) < 6 /\ Len(expire) \in Nat /\ fired = <<>>
      /\ expire' = Append(expire, now + delays[Len(expire) + 1])
      /\ valid' = valid \union {Len(expire) + 1}
      /\ UNCHANGED <<phase, pending, cur, now, fired>>
      /\ expire \in Seq(Nat)
  BY SixTimers, LenProperties DEF mytimer_init, DemoInv, DemoTypeOK
<1>2. Len(expire) + 1 \in 1 .. 6
  BY <1>1
<1>3. now + delays[Len(expire) + 1] \in Nat
  <2>1. now \in Nat /\ delays[Len(expire) + 1] \in Nat
    BY <1>2, SixTimers DEF DemoInv, DemoTypeOK
  <2> QED
    BY <2>1
<1>4. expire' \in Seq(Nat) /\ Len(expire') = Len(expire) + 1
  BY <1>1, <1>3, AppendProperties
<1>5. DemoTypeOK'
  <2>1. Len(expire') <= Len(delays)
    BY <1>1, <1>4, SixTimers
  <2>2. valid' \in SUBSET Timers
    BY <1>1, <1>2, SixTimers DEF DemoInv, DemoTypeOK
  <2> QED
    BY <1>1, <1>4, <2>1, <2>2 DEF DemoInv, DemoTypeOK
<1>6. fired' = <<>> /\ DOMAIN fired' = {}
  BY <1>1
<1> QED
  BY <1>5, <1>6 DEF DemoInv, InOrder

(* A step that runs no callback and leaves the clock and the heap alone. *)
LEMMA QuietStep ==
  ASSUME DemoInv, UNCHANGED <<expire, fired>>, pending' \subseteq pending \/ phase = "init",
         DemoTypeOK', now <= now', phase' = "init" => phase = "init"
  PROVE  DemoInv'
<1>1. InOrder'
  <2>1. \A k \in 1 .. Len(fired) : expire[fired[k]] \in Nat \/ fired = <<>>
    <3>1. CASE fired = <<>> BY <3>1
    <3>2. CASE phase # "init"
      BY <3>2, SixTimers, ElementOfSeq DEF DemoInv, DemoTypeOK
    <3> QED BY <3>1, <3>2 DEF DemoInv
  <2>2. DOMAIN fired = 1 .. Len(fired)
    BY LenProperties DEF DemoInv, DemoTypeOK
  <2>3. \A k \in DOMAIN fired : expire[fired[k]] <= now'
    <3>1. CASE fired = <<>> BY <3>1
    <3>2. CASE fired # <<>>
      BY <2>1, <2>2, <3>2 DEF DemoInv, InOrder, DemoTypeOK
    <3> QED BY <3>1, <3>2
  <2> QED BY <2>3 DEF DemoInv, InOrder
<1> QED
  BY <1>1 DEF DemoInv

(* Every step preserves the invariant of the demo. *)
LEMMA DemoStep == DemoInv /\ [DemoNext]_demo_vars => DemoInv'
<1> SUFFICES ASSUME DemoInv, [DemoNext]_demo_vars PROVE DemoInv'
  OBVIOUS
<1>a. now \in Nat
  BY DEF DemoInv, DemoTypeOK
<1>1. CASE mytimer_init
  BY <1>1, InitTimerStep
<1>2. CASE Build
  <2>1. DemoTypeOK'
    BY <1>2 DEF Build, DemoInv, DemoTypeOK
  <2> QED
    BY <1>2, <1>a, <2>1, QuietStep DEF Build
<1>3. ASSUME NEW t \in pending, PopInvalid(t) PROVE DemoInv'
  <2>1. DemoTypeOK'
    BY <1>3 DEF PopInvalid, DemoInv, DemoTypeOK
  <2> QED
    BY <1>3, <1>a, <2>1, QuietStep DEF PopInvalid
<1>4. ASSUME NEW t \in pending, SleepAndTick(t) PROVE DemoInv'
  <2>1. DemoTypeOK'
    BY <1>4 DEF SleepAndTick, DemoInv, DemoTypeOK
  <2> QED
    BY <1>4, <1>a, <2>1, QuietStep DEF SleepAndTick
<1>5. ASSUME NEW t \in pending, TickFire(t) PROVE DemoInv'
  <2>1. CASE t \in WithCallback
    BY <1>5, <2>1, FireStep
  <2>2. CASE t \notin WithCallback
    <3>1. DemoTypeOK'
      BY <1>5, <2>2 DEF TickFire, DemoInv, DemoTypeOK
    <3> QED
      BY <1>5, <2>2, <1>a, <3>1, QuietStep DEF TickFire
  <2> QED BY <2>1, <2>2
<1>6. CASE TickReturn
  <2>1. DemoTypeOK'
    BY <1>6 DEF TickReturn, DemoInv, DemoTypeOK
  <2> QED
    BY <1>6, <1>a, <2>1, QuietStep DEF TickReturn
<1>7. CASE Return
  <2>1. DemoTypeOK'
    BY <1>7 DEF Return, DemoInv, DemoTypeOK
  <2> QED
    BY <1>7, <1>a, <2>1, QuietStep DEF Return
<1>8. CASE Clock
  <2>1. DemoTypeOK' /\ now <= now'
    BY <1>8 DEF Clock, DemoInv, DemoTypeOK
  <2> QED
    BY <1>8, <2>1, QuietStep DEF Clock
<1>9. CASE UNCHANGED demo_vars
  <2>1. DemoTypeOK'
    BY <1>9 DEF demo_vars, DemoInv, DemoTypeOK
  <2> QED
    BY <1>9, <1>a, <2>1, QuietStep DEF demo_vars
<1> QED
  BY <1>1, <1>2, <1>3, <1>4, <1>5, <1>6, <1>7, <1>8, <1>9 DEF DemoNext, main, Ended

(* The callbacks of misc/timer/main.c run in the order of their expiry times,
   none before its time and none twice, however time passes between main's
   look at the root, its sleep and mytimer_heap_tick. *)
THEOREM DemoInOrder == DemoSpec => []InOrder
<1>1. DemoInv => InOrder
  BY DEF DemoInv
<1> QED
  BY <1>1, DemoInitInv, DemoStep, PTL DEF DemoSpec
=============================================================================

------------------------------ MODULE Adapter ------------------------------
(***************************************************************************)
(* The radio adapter and the experiments that use it (src/misc): programs  *)
(* that write frames to it over libusb (smc_main.c, smc_main_0112.c, and   *)
(* smc_main_0113.c with an argument), and programs that read or write its  *)
(* terminal, /dev/ttyUSB0 (misc/test/smc.c, smc_baud_rate_0116.c).  The    *)
(* terminal exists while the kernel's driver is bound to the adapter; over *)
(* libusb the driver must be detached and the interface claimed first.     *)
(*                                                                         *)
(* Any program may run at any time and be killed at any time, and the      *)
(* adapter unplugged and plugged in again.  The kernel and libusb are      *)
(* external: they are as the programs use them.  The bytes are left out.   *)
(***************************************************************************)
CONSTANTS
  Senders,      \* the programs that use libusb
  Terminals,    \* the programs that use the terminal
  Nobody        \* no sender

ASSUME ProgramsAssumption ==
  Senders \intersect Terminals = {} /\ Nobody \notin Senders

VARIABLES
  source,     \* the source file of each sender
  plugged,    \* whether the adapter is plugged in
  driver,     \* whether the kernel's driver is bound to it
  owner,      \* the sender that has claimed the interface
  pc,         \* where each program is
  devh,       \* the handle of each sender; stale: the adapter was unplugged
  tty         \* the terminal of each program: none, live, or hung up

vars == <<source, plugged, driver, owner, pc, devh, tty>>

Programs == Senders \union Terminals
Sources == {"smc_main", "smc_main_0112", "smc_main_0113"}

Init ==
  /\ source \in [Senders -> Sources]
  /\ plugged \in BOOLEAN /\ driver = plugged
  /\ owner = Nobody
  /\ pc = [p \in Programs |-> "off"]
  /\ devh = [s \in Senders |-> "none"]
  /\ tty = [p \in Programs |-> "none"]

-----------------------------------------------------------------------------
(* The kernel. *)

HungUp == [p \in Programs |-> IF tty[p] = "live" THEN "hung" ELSE tty[p]]

(* The end of a program: its descriptors are closed, and so is its claim. *)
Exit(p) ==
  /\ pc' = [pc EXCEPT ![p] = "off"]
  /\ owner' = IF owner = p THEN Nobody ELSE owner
  /\ devh' = IF p \in Senders THEN [devh EXCEPT ![p] = "none"] ELSE devh
  /\ tty' = [tty EXCEPT ![p] = "none"]
  /\ UNCHANGED <<source, plugged>>

Unplug ==
  /\ plugged
  /\ plugged' = FALSE /\ driver' = FALSE /\ owner' = Nobody
  /\ devh' = [s \in Senders |-> IF devh[s] = "live" THEN "stale" ELSE devh[s]]
  /\ tty' = HungUp
  /\ UNCHANGED <<source, pc>>

(* The driver is bound to an adapter that is plugged in. *)
Plug ==
  /\ ~ plugged
  /\ plugged' = TRUE /\ driver' = TRUE
  /\ UNCHANGED <<source, owner, pc, devh, tty>>

(* A program is stopped, or the remains of one that crashed are cleared. *)
Kill(p) == pc[p] # "off" /\ Exit(p) /\ UNCHANGED driver

-----------------------------------------------------------------------------
(* The senders. *)
At(s, label) == pc[s] = label
Goto(s, label) == pc' = [pc EXCEPT ![s] = label]

(* smc_main_0112.c first opens the terminal. *)
Start(s) ==
  /\ At(s, "off")
  /\ Goto(s, IF source[s] = "smc_main_0112" THEN "set_baudrate" ELSE "find")
  /\ UNCHANGED <<source, plugged, driver, owner, devh, tty>>

(* fopen for reading, then for writing.  Without one of them fileno gets a null
   pointer; so it may with the adapter plugged in, when the terminal is called
   something else because a program had the old one open. *)
Fopen(s, label) ==
  \/ /\ driver
     /\ tty' = [tty EXCEPT ![s] = "live"]
     /\ Goto(s, label)
  \/ /\ tty' = [tty EXCEPT ![s] = "none"]
     /\ Goto(s, "crashed")

SetBaudrate(s) ==
  /\ At(s, "set_baudrate")
  /\ Fopen(s, "output")
  /\ UNCHANGED <<source, plugged, driver, owner, devh>>

OpenOutput(s) ==
  /\ At(s, "output")
  /\ Fopen(s, "fclose")
  /\ UNCHANGED <<source, plugged, driver, owner, devh>>

(* Mutant: the terminal is not closed. *)
CloseForgotten(s) ==
  /\ At(s, "fclose")
  /\ Goto(s, "find")
  /\ UNCHANGED <<source, plugged, driver, owner, devh, tty>>

(* The terminals are closed; the speed never is set. *)
Close(s) ==
  /\ At(s, "fclose")
  /\ tty' = [tty EXCEPT ![s] = "none"]
  /\ Goto(s, "find")
  /\ UNCHANGED <<source, plugged, driver, owner, devh>>

(* Mutant: the error path attaches the driver again. *)
OutAttached(s) ==
  /\ Exit(s)
  /\ driver' = (plugged /\ owner \in {s, Nobody})

(* goto out: the label behind the one that would attach the driver again. *)
Out(s) == Exit(s) /\ UNCHANGED driver

(* find_radiocrafts_device; it may fail though the adapter is there. *)
Find(s) ==
  /\ At(s, "find")
  /\ \/ /\ plugged
        /\ devh' = [devh EXCEPT ![s] = "live"]
        /\ Goto(s, "active")
        /\ UNCHANGED <<source, plugged, driver, owner, tty>>
     \/ Out(s)

(* Only an answer of 1 matters, not an error. *)
DriverActive(s) ==
  /\ At(s, "active")
  /\ Goto(s, IF devh[s] = "live" /\ driver THEN "detach" ELSE "claim")
  /\ UNCHANGED <<source, plugged, driver, owner, devh, tty>>

(* Another sender may have detached the driver in between. *)
Detach(s) ==
  /\ At(s, "detach")
  /\ \/ /\ devh[s] = "live" /\ driver
        /\ driver' = FALSE
        /\ tty' = HungUp
        /\ Goto(s, "claim")
        /\ UNCHANGED <<source, plugged, owner, devh>>
     \/ /\ devh[s] # "live" \/ ~ driver
        /\ Out(s)

Claimable(s) == devh[s] = "live" /\ ~ driver /\ owner = Nobody

(* Mutant: the result of the claim is printed, and no more. *)
ClaimUnchecked(s) ==
  /\ At(s, "claim")
  /\ owner' = IF Claimable(s) THEN s ELSE owner
  /\ Goto(s, "io")
  /\ UNCHANGED <<source, plugged, driver, devh, tty>>

(* Mutant: an interface that is busy is tried again. *)
ClaimAgain(s) ==
  /\ At(s, "claim")
  /\ \/ /\ Claimable(s)
        /\ owner' = s
        /\ Goto(s, "io")
     \/ /\ ~ Claimable(s)
        /\ Goto(s, "active")
        /\ UNCHANGED owner
  /\ UNCHANGED <<source, plugged, driver, devh, tty>>

Claim(s) ==
  /\ At(s, "claim")
  /\ \/ /\ Claimable(s)
        /\ owner' = s
        /\ Goto(s, "io")
        /\ UNCHANGED <<source, plugged, driver, devh, tty>>
     \/ ~ Claimable(s) /\ Out(s)

(* Mutant: an error opens the device once more. *)
TransferReopened(s) ==
  /\ At(s, "io")
  /\ devh[s] # "live"
  /\ Goto(s, "find")
  /\ UNCHANGED <<source, plugged, driver, owner, devh, tty>>

(* The loop goes on whatever becomes of a transfer. *)
Transfer(s) ==
  /\ At(s, "io")
  /\ UNCHANGED vars

(* A step towards the loop. *)
SetUp(s) ==
  SetBaudrate(s) \/ OpenOutput(s) \/ Close(s) \/ Find(s) \/ DriverActive(s)
  \/ Detach(s) \/ Claim(s)

-----------------------------------------------------------------------------
(* The programs that use the terminal. *)

(* open; without a terminal the program ends. *)
Open(t) ==
  /\ At(t, "off")
  /\ driver
  /\ Goto(t, "isatty")
  /\ tty' = [tty EXCEPT ![t] = "live"]
  /\ UNCHANGED <<source, plugged, driver, owner, devh>>

(* tcsetattr, fcntl and isatty: of a terminal hung up they fail. *)
Verify(t) ==
  /\ At(t, "isatty")
  /\ \/ /\ tty[t] = "live"
        /\ Goto(t, "loop")
        /\ UNCHANGED <<source, plugged, owner, devh, tty>>
     \/ tty[t] = "hung" /\ Exit(t)
  /\ UNCHANGED driver

(* select always reports a terminal hung up, and the read returns 0. *)
Read(t) ==
  /\ At(t, "loop")
  /\ UNCHANGED vars

Next ==
  \/ Plug \/ Unplug
  \/ \E p \in Programs : Kill(p)
  \/ \E s \in Senders : Start(s) \/ SetUp(s) \/ Transfer(s)
  \/ \E t \in Terminals : Open(t) \/ Verify(t) \/ Read(t)

(* No call on the way to the loop waits for another program, so that a sender
   takes its next step.  A transfer may wait for ever: its timeout is 0. *)
Spec == Init /\ [][Next]_vars /\ \A s \in Senders : WF_vars(SetUp(s))

-----------------------------------------------------------------------------
(* The variables stay in range. *)
TypeOK ==
  /\ source \in [Senders -> Sources]
  /\ plugged \in BOOLEAN /\ driver \in BOOLEAN
  /\ owner \in Senders \union {Nobody}
  /\ pc \in [Programs -> {"off", "set_baudrate", "output", "fclose", "find",
                          "active", "detach", "claim", "io", "crashed",
                          "isatty", "loop"}]
  /\ devh \in [Senders -> {"none", "live", "stale"}]
  /\ tty \in [Programs -> {"none", "live", "hung"}]

(* The parts of the inductive invariant: a terminal is one of the driver's,
   which is bound to an adapter that is plugged in and claimed by nobody, and
   a live handle is of an adapter that is plugged in; *)
Bound ==
  /\ \A p \in Programs : tty[p] = "live" => driver
  /\ driver => plugged /\ owner = Nobody
  /\ \A s \in Senders : devh[s] = "live" => plugged

(* the owner is in its loop with a live handle, and of those in their loops the
   handles of all others are of an adapter unplugged; *)
Claimed ==
  /\ owner # Nobody => At(owner, "io") /\ devh[owner] = "live"
  /\ \A s \in Senders : At(s, "io") => owner = s \/ devh[s] = "stale"

(* only the set_baudrate of a sender opens a terminal. *)
Closed ==
  \A s \in Senders : tty[s] # "none" => At(s, "output") \/ At(s, "fclose")

IInv == TypeOK /\ Bound /\ Claimed /\ Closed

(* The sender whose transfers reach the adapter shares it with nobody: no other
   sender's do, and no program has a terminal that works. *)
Alone ==
  \A s \in Senders :
    At(s, "io") /\ devh[s] = "live" =>
      /\ \A p \in Programs : tty[p] # "live"
      /\ \A r \in Senders \ {s} : ~ (At(r, "io") /\ devh[r] = "live")

(* A driver that was detached is not attached again by any program, nor does
   its end: until the adapter is unplugged there is no terminal. *)
StaysDetached == [][plugged /\ ~ driver => ~ driver']_vars

(* Neither a sender whose adapter was unplugged nor a program whose terminal
   was hung up finds out: only when it is killed it ends. *)
Deaf(p) ==
  \/ p \in Senders /\ At(p, "io") /\ devh[p] = "stale"
  \/ p \in Terminals /\ At(p, "loop") /\ tty[p] = "hung"

DeafForever == [][\A p \in Programs : Deaf(p) => Deaf(p)' \/ Kill(p)]_vars

(* A sender that is started gets to its loop, crashes or ends, whatever the
   others do. *)
Starting(s) == pc[s] \notin {"off", "crashed", "io"}

SetUpEnds == \A s \in Senders : Starting(s) ~> ~ Starting(s)
=============================================================================

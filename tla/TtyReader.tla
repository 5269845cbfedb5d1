----------------------------- MODULE TtyReader -----------------------------
(***************************************************************************)
(* How the byte stream of the radio module is cut into frames, by the UART *)
(* thread of the knx daemon (the read branch of handle_knx_tty) and by the *)
(* receivers it grew out of (src/misc), and how long each waits for the    *)
(* bytes of a frame.                                                       *)
(*                                                                         *)
(* A frame is a length byte n and n bytes; with RSSI enabled a zero byte   *)
(* and the RSSI byte follow it.  The length byte is read, the program      *)
(* sleeps, and takes what has arrived: a read does not wait for the rest.  *)
(* There is no clock.  During a sleep of gTxInterval microseconds at least *)
(* gTxInterval \div ByteTime bytes arrive, unless the line falls silent;   *)
(* any number of bytes more may, since a sleep has no upper bound.         *)
(*                                                                         *)
(* The bytes of the k-th frame are all k: out of step, the reader takes    *)
(* them for lengths.                                                       *)
(***************************************************************************)
EXTENDS Integers, SequencesExt

CONSTANTS
  Frames,       \* triples: a program, a baud rate, a frame length
  MaxFrames     \* the radio module sends no more than this number

RC1180_MAX_BUFFER_SIZE == 64

(* The programs, each at the rates it is made for: the knx daemon ("knx"), and
   the receivers misc/test/smc.c ("test"), which leaves the terminal as another
   program has set it and sleeps for 9600 baud, and smc_baud_rate_0116_2.c
   ("0116"), which sets 19200. *)
Receivers == ({"knx"} \X {9600, 19200, 115200})
              \union {<<"test", 9600>>, <<"0116", 19200>>}

ASSUME FramesAssumption ==
  /\ \A f \in Frames : /\ <<f[1], f[2]>> \in Receivers
                       /\ f[3] \in 1 .. RC1180_MAX_BUFFER_SIZE - 1
  /\ MaxFrames \in Nat

VARIABLES
  program,       \* the program that reads
  baud,          \* the rate of the line, also the argument of -b
  gEnableRssi,   \* whether the module sends the RSSI, also the -s option
  line,          \* bytes on their way
  arrived,       \* bytes received that the thread has not read
  owed,          \* how many bytes more are sure to arrive in this sleep
  gTxInterval,   \* the length of the sleep
  frame_length,  \* the length byte read last
  thread,        \* where the reading thread is
  lengths,       \* of the frames sent
  queued         \* the packets stored in the rx queue, or printed

env == <<program, baud, gEnableRssi>>
tty_vars == <<env, line, arrived, owed, gTxInterval, frame_length, thread,
              lengths, queued>>

TIME_RX_TXD == 180
TIME_TXD == 590
TIME_TXD_IDLE == 900

(* The -b option goes through a uint16_t; what it is not made for is 115200. *)
transfer_baud_rate(b) ==
  LET int_baud_rate == b % 65536
  IN  IF int_baud_rate \in {9600, 19200} THEN int_baud_rate ELSE 115200

(* The time per byte that the code allows for at a speed. *)
TimePerByte(spd) ==
  CASE spd = 9600 -> TIME_TXD * 3
    [] spd = 19200 -> TIME_TXD + 70
    [] OTHER -> TIME_TXD

WaitTime(spd, len) == TIME_RX_TXD + TimePerByte(spd) * len + TIME_TXD_IDLE

(* Mutant: every rate is taken for the fastest. *)
WaitTimeOfFastest(spd, len) == WaitTime(115200, len) % 65536

(* The result is a uint16_t. *)
transfer_wait_time(spd, len) == WaitTime(spd, len) % 65536

(* It is not cut off, as it would be for more than 36 bytes at 9600 baud. *)
ASSUME SleepAssumption ==
  \A f \in Frames : f[1] = "knx" => WaitTime(f[2], f[3]) < 65536

(* Ten bits, in microseconds, rounded up. *)
ByteTime == 10000000 \div baud + 1

(* set_tty_attr: a read returns at once, with no byte if there is none. *)
VMIN == 0

(* Two bytes follow every frame if RSSI is enabled. *)
Payload(k, n) == [i \in 1 .. n |-> k]
Trailer == IF gEnableRssi THEN <<0, 39>> ELSE <<>>
Bytes(k, n) == <<n>> \o Payload(k, n) \o Trailer

TtyInit ==
  /\ \E f \in Frames : program = f[1] /\ baud = f[2]
  /\ gEnableRssi \in BOOLEAN
  /\ line = <<>> /\ arrived = <<>>
  /\ owed = 0 /\ gTxInterval = 0 /\ frame_length = 0
  /\ thread = "select"
  /\ lengths = <<>> /\ queued = <<>>

-----------------------------------------------------------------------------
(* The radio module sends a frame behind what it is sending, or after a
   silence of any length. *)
Send ==
  /\ Len(lengths) < MaxFrames
  /\ \E f \in Frames :
       /\ f[1] = program /\ f[2] = baud
       /\ lengths' = Append(lengths, f[3])
       /\ line' = line \o Bytes(Len(lengths) + 1, f[3])
  /\ owed' = IF line = <<>> THEN 0 ELSE owed
  /\ UNCHANGED <<env, arrived, gTxInterval, frame_length, thread, queued>>

Arrive ==
  /\ line # <<>>
  /\ arrived' = Append(arrived, Head(line))
  /\ line' = Tail(line)
  /\ owed' = IF owed = 0 THEN 0 ELSE owed - 1
  /\ UNCHANGED <<env, gTxInterval, frame_length, thread, lengths, queued>>

-----------------------------------------------------------------------------
(* The sleeps of the receivers in src/misc: the RSSI byte has one byte's time
   at 9600 baud, and the bytes of a frame of b bytes theirs. *)
TestSleep(b) == 180 + 590 * 3 * (IF b = 0 THEN 1 ELSE b) + 900

Sleep0116(b) == IF b = 0 THEN 180 + 1770 + 900 ELSE 180 + 660 * b + 900

(* The sleep that the length byte b asks for. *)
Sleep(b) ==
  /\ gTxInterval' =
       CASE program = "knx" ->
              transfer_wait_time(transfer_baud_rate(baud), b)
         [] program = "test" -> TestSleep(b)
         [] program = "0116" -> Sleep0116(b)
  /\ owed' = gTxInterval' \div ByteTime

(* select reports a byte, and it is read. *)
ReadLength ==
  /\ thread = "select"
  /\ arrived # <<>>
  /\ frame_length' = Head(arrived)
  /\ arrived' = Tail(arrived)
  /\ Sleep(Head(arrived))
  /\ UNCHANGED <<env, line, lengths, queued>>

(* Mutant: the RSSI byte is never read. *)
ReadZeroOnly ==
  /\ ReadLength
  /\ Head(arrived) = 0
  /\ thread' = "select"

(* No frame has length 0: with RSSI enabled another byte follows.  The
   receivers always take it to be enabled. *)
ReadZero ==
  /\ ReadLength
  /\ Head(arrived) = 0
  /\ thread' = IF gEnableRssi \/ program # "knx" THEN "sleep_rssi" ELSE "select"

ReadNonzero ==
  /\ ReadLength
  /\ Head(arrived) # 0
  /\ thread' = "sleep"

(* The sleep is over. *)
Awake == owed = 0 \/ line = <<>>

ReadRssi ==
  /\ thread = "sleep_rssi"
  /\ Awake
  /\ Len(arrived) >= VMIN
  /\ arrived' = IF arrived = <<>> THEN <<>> ELSE Tail(arrived)
  /\ thread' = "select"
  /\ UNCHANGED <<env, line, owed, gTxInterval, frame_length, lengths, queued>>

(* The number of bytes dump_buffer_appl_data copies of a frame of n bytes, an
   unsigned number: below 0 it is larger than any buffer. *)
LENGTH_BEFORE_APPL_DATA == 17

TestApplData(n) ==
  IF n < LENGTH_BEFORE_APPL_DATA THEN 0 ELSE n - LENGTH_BEFORE_APPL_DATA - 1

(* Mutant: the last byte is left out here too. *)
ApplData0116Short(n) == TestApplData(n)

ApplData0116(n) ==
  IF n < LENGTH_BEFORE_APPL_DATA THEN 0 ELSE n - LENGTH_BEFORE_APPL_DATA

Overruns(n) ==
  \/ program = "test" /\ TestApplData(n) < 0
  \/ program = "0116" /\ ApplData0116(n) < 0

(* A read of n bytes returns what there is of them; less than frame_length
   bytes are printed and dropped. *)
ReadUpTo(n) ==
  LET actual_len == IF n < Len(arrived) THEN n ELSE Len(arrived)
  IN  /\ thread = "sleep"
      /\ Awake
      /\ actual_len >= VMIN
      /\ arrived' = SubSeq(arrived, actual_len + 1, Len(arrived))
      /\ queued' = IF frame_length = actual_len
                   THEN Append(queued, SubSeq(arrived, 1, actual_len))
                   ELSE queued
      /\ thread' = IF frame_length = actual_len /\ Overruns(actual_len)
               THEN "crashed" ELSE "select"
      /\ UNCHANGED <<env, line, owed, gTxInterval, frame_length, lengths>>

(* Mutant: the length byte is counted among the bytes of the frame. *)
ReadFrameShort == ReadUpTo(frame_length - 1)

ReadFrame == ReadUpTo(frame_length)

Reader == ReadZero \/ ReadNonzero \/ ReadRssi \/ ReadFrame

(* All frames sent and, unless the program has crashed, read. *)
Done ==
  /\ Len(lengths) = MaxFrames /\ line = <<>>
  /\ \/ arrived = <<>> /\ thread = "select"
     \/ thread = "crashed"
  /\ UNCHANGED tty_vars

TtyNext == Send \/ Arrive \/ Reader \/ Done

TtySpec == TtyInit /\ [][TtyNext]_tty_vars

(* Bytes on the line arrive, and the thread is scheduled. *)
TtyFairSpec == TtySpec /\ WF_tty_vars(Arrive) /\ WF_tty_vars(Reader)

-----------------------------------------------------------------------------
(* What is still to be read when n frames have been queued. *)
Rest(n) ==
  FlattenSeq([i \in 1 .. Len(lengths) - n |-> Bytes(n + i, lengths[n + i])])

(* Whenever the program looks for a length byte it is at the beginning of a
   frame, or of the two bytes behind the frame it has queued last. *)
InStep ==
  thread = "select" =>
    \/ arrived \o line = Rest(Len(queued))
    \/ queued # <<>> /\ arrived \o line = Trailer \o Rest(Len(queued))

(* The packets queued are the frames sent, whole, in order, none left out. *)
FramesWhole ==
  /\ Len(queued) <= Len(lengths)
  /\ \A k \in DOMAIN queued : queued[k] = Payload(k, lengths[k])

(* Every frame that is sent is queued in the end, or the program crashes. *)
FramesQueued ==
  \A k \in 1 .. MaxFrames :
    Len(lengths) >= k ~> Len(queued) >= k \/ thread = "crashed"

(* No frame ends a program but one as long as what comes before its application
   data, and only misc/test/smc.c, which leaves its last byte out: it copies
   four gigabytes. *)
CrashesAtHeader ==
  thread = "crashed" => /\ program = "test"
                        /\ Last(queued) = Payload(Len(queued), 17)

TtyTypeOK ==
  /\ <<program, baud>> \in Receivers /\ gEnableRssi \in BOOLEAN
  /\ line \in Seq(Nat) /\ arrived \in Seq(Nat)
  /\ owed \in Nat /\ gTxInterval \in Nat /\ frame_length \in Nat
  /\ thread \in {"select", "sleep", "sleep_rssi", "crashed"}
  /\ lengths \in Seq(1 .. RC1180_MAX_BUFFER_SIZE - 1)
  /\ \A k \in 1 .. Len(lengths) :
       \E f \in Frames : f[1] = program /\ f[2] = baud /\ f[3] = lengths[k]
  /\ queued \in Seq(Seq(Nat))

(* n bytes will have arrived when the sleep is over. *)
Comes(n) == line = <<>> \/ Len(arrived) + owed >= n

(* What the reader has before it while it sleeps, and that the sleep is long
   enough for it. *)
AsleepInStep ==
  LET q == Len(queued)
  IN  /\ thread = "sleep" =>
           /\ q < Len(lengths) /\ frame_length = lengths[q + 1]
           /\ arrived \o line =
                Payload(q + 1, frame_length) \o (Trailer \o Rest(q + 1))
           /\ Comes(frame_length)
      /\ thread = "sleep_rssi" =>
           /\ arrived \o line = <<39>> \o Rest(q)
           /\ Comes(1)

(* The inductive invariant behind InStep, FramesWhole and CrashesAtHeader. *)
TtyInv == TtyTypeOK /\ InStep /\ AsleepInStep /\ FramesWhole /\ CrashesAtHeader
=============================================================================

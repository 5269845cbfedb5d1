# A verification of the ksmc daemons

ksmc ("Smart Controller") is a pair of Linux daemons written in C. The **knx** daemon
(`src/knx`) sits on a UART with a KNX radio module (RC1180) behind it and forwards the
frames it reads over UDP to the **smc** daemon (`src/smc`), the smart controller, which
also talks to an APP client. `src/misc` holds earlier copies of the queue and of the
timer heap with demo programs, and adapter experiments.

This directory holds TLA+ modules translated from that code, TLC configurations that
check them on small instances, and proofs that TLAPS checks for every value of the
constants.

## 1. Inventory

| component | source | state | operations |
|---|---|---|---|
| packet queue | `knx/circularQueue.{c,h}`, wrappers in `knx/knxProtocol.c` | `q[8]`, `front`, `rear`, `tag`, `qmutex` | init, enqueue, dequeue, destroy |
| timer heap | `knx/timerHeap.{c,h}`, `knx/knxTimer.{c,h}` | `timer_array`, `capacity`, `cur_size`; per timer `expire`, `valid`, `cb_func`, `user_data` | init, init_by_array, add, del, top, pop, tick, resize, destroy |
| timer thread | `knx/threadTimer.c` | none of its own | sleep until the root is due, tick |
| socket thread | `knx/threadSocket.c` | the UDP socket, the packet in hand | queue the discovery request; send packets and arm timers; receive |
| UART thread | `knx/threadKnxTty.c` | the UART, the read buffer | read a frame and queue it, or write |
| network protocol | `knx/knxNetwork.c`, `knx/smcProtocol.c` | `gServerInfo[INFO_NR_SMC].state` | handle a datagram; the time-out callback; byte order helpers |
| knx main | `knx/main.c` | `gFlagExit`, `gNetworkRole`, `gEnableRssi` | options, start and join three threads, signal handler, free the queues |
| smc daemon | `smc/*.c` | `gClientInfo`, `gDoExit`, the UDP socket | APP thread; KNX thread (its start is under `#if 0`) |
| wire format | `knx/knxNetwork.c`, `smc/smcNetwork.c` | the cursor into a datagram | store and retrieve 8, 16, 32 bits and raw bytes |
| timer demo | `misc/timer` | six timers and an earlier copy of the heap | init, build, sleep, tick |
| adapter experiments | `misc/android_src/main`, `misc/android_src/baud_rate`, `misc/test/smc.c` | the USB adapter, its driver and terminal | detach, claim and write over libusb; open and read the terminal |
| queue demo | `misc/queue` | an earlier copy of the queue | fill and empty it once |
| logging, terminal setup | `log.c`, `knxCommon.c` | | |

How they interact (knx daemon):

    UART --> UART thread --enqueue--> rx queue --dequeue--> socket thread --> UDP
                                        ^                      |      ^
                                 enqueue| (retry)          add |      | response
                                     timer thread <-- timer heap    alive := true

* The rx queue is shared by the UART thread, the timer thread (from the callback) and
  the socket thread, under `qmutex`; the first store, and the destruction by main, take
  no lock. The tx queue is read by the UART thread; nothing stores into it.
* The timer heap is shared by the socket thread (add) and the timer thread (top, tick,
  pop, and add from the callback), with no lock at all.
* `gServerInfo[].state` is written by the socket thread and read by the UART and timer
  threads; `gFlagExit` is written by the signal handler and read by all.

Between the two daemons (over UDP): the knx daemon sends a discovery request and repeats
it from its timer until a discovery response comes; the KNX thread of the smc daemon
answers a request and registers the client. As built that thread is not started, and the
APP thread prints what arrives.

The programs of `src/misc` share no memory; they meet at the adapter: libusb takes the
interface away from the kernel's driver, and the terminal programs lose their terminal
with it.

What is hard: the interleaving of four threads over a locked queue and an unlocked heap;
the tag of the ring; the two percolations; the callback that stores and re-arms in the
middle of a tick; the retry of a datagram that UDP may lose; who frees a packet; and
leaving three loops after a signal. The full list, each with its line, is under
`hazards` in PROJECT.json.

What makes each component correct:

* queue: no packet lost, duplicated or reordered; full and empty told apart;
* heap: the root is the earliest timer; none lost, fired early, twice or after it was
  deleted; a tick leaves no due timer;
* knx daemon: one thread in the queue at a time; the discovery request first; a timer
  armed until the answer comes; every thread stops after a signal;
* UART reader: the frames queued are the frames sent, whole and in order;
* smc daemon: who is told of the controller gets into the one entry of its class, and only
  a later asker displaces it; only who asked is served; it stops after a signal;
* discovery: who finds the controller alive was answered by it, and is in its entry or was
  displaced there by another who asked;
* wire format: what one host stores the other retrieves;
* adapter: one program at a time reaches it.

## 2. Modules

| module | models | role |
|---|---|---|
| `BoundedFifo` | what the queue promises | abstract specification |
| `CircularQueue` | `circularQueue.{c,h}` and its callers' locking, a step per statement | refines `BoundedFifo` |
| `MCCircularQueue` | | its instance for TLC |
| `CircularQueueProofs` | | two theorems |
| `TimerSet` | what the heap promises | abstract specification |
| `TimerHeap` | `timerHeap.c` and the loop of `threadTimer.c`, a step per loop iteration | refines `TimerSet` |
| `MCTimerHeap` | | its instance for TLC |
| `TimerHeapProofs` | | three theorems |
| `TimerRace` | add, resize, tick and pop as the two threads of the daemon run them on one heap, a write per step | what `KnxDaemon` assumes of overlapping operations |
| `TimerRaceProofs` | | three theorems |
| `KnxDaemon` | `main.c`, the three threads, the network protocol, signals, datagrams | composition, over an atomic queue and the size of the heap |
| `KnxDaemonProofs` | | four theorems |
| `TtyReader` | the read branch of `threadKnxTty.c`, `transfer_wait_time`, `transfer_baud_rate`; the receivers of `misc/test/smc.c` and `smc_baud_rate_0116_2.c` | the UART thread's `read` step, byte by byte |
| `MCTtyReader` | | its instances for TLC |
| `SmcDaemon` | `smc/main.c`, both threads, the network protocol, the client table | composition of the smc daemon |
| `SmcDaemonProofs` | | four theorems |
| `Rendezvous` | what discovery promises | abstract specification |
| `Discovery` | the discovery of both daemons, the network between them, stops and restarts | composition, refines `Rendezvous` |
| `MCDiscovery` | | its instance for TLC |
| `DiscoveryProofs` | | five theorems |
| `WireFormat` | the store and retrieve helpers of both daemons | sender and receiver of a datagram |
| `MCWireFormat` | | its instance for TLC |
| `WireFormatProofs` | | four theorems |
| `TimerDemo` | `misc/timer/main.c` and the copy of the heap it uses | the heap as a set of pending timers |
| `Adapter` | `smc_main.c`, `smc_main_0112.c`, `smc_main_0113.c`; the terminal programs `smc_baud_rate_0116.c` and `misc/test/smc.c` | programs around one adapter |
| `MiscProofs` | | nine theorems, on `Adapter`, `TtyReader` and `TimerDemo` |

`KnxDaemon` uses the queue as the atomic FIFO that `CircularQueue` is shown to
implement, so the queue's own statements are not interleaved twice. Of the heap it keeps
the size, which `TimerRace` accounts for when operations overlap. `Discovery` keeps of
each daemon what the other can notice. `TimerDemo` likewise uses the set of timers that
`TimerHeap` is proved to implement.

`MiscProofs` extends three modules at once, the models of the programs of `src/misc`.
That is why the specifications of `TtyReader` and `TimerDemo` are called `TtySpec` and
`DemoSpec`, and their parts likewise.

### CircularQueue

`q`, `front`, `rear`, `tag` and `qmutex` are the fields of the C structure; `pc` says
which statement a thread executes next and `pkt` is the argument `d` of `enqueue` or the
local `p` of `dequeue`. `LockAndStore` and `LockAndRetrieve` are the
`pthread_mutex_lock` of a caller and the entry of the wrapper; then the test, the slot,
the pointer and the tag are four steps, and `Unlock` the last. `ret` is the answer of
the wrapper (0 or -1; a packet or NULL).

In the refinement a store takes effect when `rear` advances and a retrieve when `front`
advances. The tag is one statement behind, so the number of packets (`Size`) cannot be
read off `get_queue_size` between the two: when `rear` has just caught up with `front`
the ring is full, although the tag does not say so yet.

### TimerHeap

One step is one iteration of a percolation loop, one iteration of the tick loop or one
straight-line piece of an operation. During a percolation the timer being moved is in
the local `temp` (in `timer_heap_add`, the parameter `t`), and slot `hole` holds a
left-over copy; `Pending` and `HeapOrder` are stated around the hole. The model starts
right after `timer_heap_init` or in the middle of `timer_heap_init_by_array`, from any
array of distinct timers; `base` is its loop counter.

Operations are called one at a time, which is what this code needs of its callers: it is
not what the daemon guarantees (see `TimerRace`). Adding and deleting happen while the
timer thread is between turns, and adding also from a running callback. A callback adds
no timer earlier than its own (`CallbackAdd`): `timer_heap_tick` pops slot 0 after the
callback, and it would pop another timer otherwise. The daemon's only callback gives the
new timer the same `expire`. A timer is identified with its pointer and may be added
again once it was popped.

### TimerRace

A step is one write to `cur_size`, `capacity` or `timer_array`, or one read whose value a
later step uses, with the tests that lead to it, in the order of the program:
`cur_size++` is a read and a write, the index of an add (`AddIndex`) is read after the
test of the size, a resize allocates, doubles `capacity`, copies slot by slot and
switches, and a pop reads the last timer, stores it at the root, counts down, sifts
(`PopSift`: one look at the children, since none expires earlier) and puts the timer back
(`PopPlace`). `hole[t]` is the index a thread has read and may be using when the other has
moved on. What is not split is a test from the read next to it that it guards, such as
the comparison of a parent or the choice of a child. All timers are equal, so
comparisons are reads that keep the order. `Timers` is memory: a freed timer may be
allocated again. A step that would read outside the array, through the array a resize
has freed, or through a freed or null timer, ends the model with `status = "undefined"`
or `"crashed"`; nothing is claimed of what follows. `overlapped` records that a step came
in of the other thread's operation, and lets `UnlessOverlapped` say that nothing else
does harm.

### KnxDaemon

Each thread has a variable that says where it is (`main`, `tty`, `socket`, `timer`). A
step ends where another thread's step could matter: taking a lock, storing or
retrieving, reading a flag, a heap operation. The critical sections are `Lock` and an
action that does the queue operation and unlocks.

* Packets are known by who frees them: the first `request`, a `frame` from the UART, a
  `retry` (the `user_data` of the timer that is firing, freed by the pop that follows)
  and a `freed` packet. `TimerPop` turns every `retry` there is into `freed`.
* Every use of freed memory (`SocketUseFreed`, `TimerUseFreed`, `DeinitTwice`,
  `UseAfterDeinit`) may stop the process (`status = "crashed"`), or pass and go on with
  any outcome.
* All timers of the daemon have the same `expire` (3), which is past whenever the clock
  is read, so there is no clock, and `timers` is only `cur_size`. `firing` is the packet
  of the timer whose callback runs.
* The heap has no lock. While the socket thread is inside `timer_heap_add` (`socket =
  "arm"`) an add or a pop of the timer thread may run (`HeapOp`). The heap is `torn`
  from then on: its size is any that `Sizes` allows, and a slot may hold a timer, one
  that was freed (`firing = "stale"`), or nothing; each use of it may stop the process.
  `Sizes(min)` is not chosen here but justified by `TimerRace`, where `SizeKnown` says
  from which size on each access of the two threads goes.
* A `select`, `read`, `sendto`, `recvfrom` or `pthread_create` may have any of its
  outcomes. `poll` may report the socket writable, whether it is readable or not, or only
  readable, or time out, which it does only with nothing to read.
* A datagram is known by what the receive buffer begins with once it was read
  (`Headers`), and `inbox` counts those that have arrived, which none does before the
  socket has a port (`port`), that is before it has sent. A `recvfrom` that fails leaves
  the buffer as it was, and it is handled once more (`SocketRecvFails`): if the last one
  was a response or a standard packet (`isDumped`), `dump_buffer` gets -1 for its length.
  With the process its socket goes, and what it had received.
* A read of the UART that fails gives -1 to `dump_buffer` too, whose 16-bit index never
  gets to that length (`TtyDump`, `SocketDump`): the thread loops for ever, or the process
  stops. So may the dump of a freed packet, whose length may be anything (`SocketSend`).
* `sighandler` may run at any step, once.
  `sleep` is not an action: any number of steps of the others may pass between two steps
  of a thread.

### TtyReader

The radio module sends frames (`Send`: a length byte, the bytes of the frame, and with
RSSI enabled a zero byte and the RSSI byte), the bytes arrive one by one (`Arrive`), and
the thread reads the length, sleeps, and takes what is there. There is no clock: while
the line is busy, a sleep of `gTxInterval` microseconds sees at least `gTxInterval \div
ByteTime` bytes arrive (ten bits a byte), and any number more, because a sleep has no
upper bound. `owed` counts the bytes still sure to come; the thread is awake when it is
0 or the line is silent. The terminal has VMIN = 0 and VTIME = 0, so a read returns what
there is.

`program` says who reads: the UART thread at any of its three rates, `misc/test/smc.c`
or `smc_baud_rate_0116_2.c` at the rate each is made for. The receivers have the same
loop, their own sleeps (`TestSleep`, `Sleep0116`), take RSSI to be on, and print what
they have read from byte 17 on; `misc/test/smc.c` takes one byte too many off an
unsigned length (`Overruns`). It does not set the terminal, which is taken to be left
with VMIN 0 by another program.

A frame is a program, a rate and a length. The lengths are those that fit in the 64-byte
buffer, and at 9600 baud, for the daemon, those of up to 36 bytes: for more, the sleep
does not fit in the `uint16_t` that `transfer_wait_time` returns (`SleepAssumption`),
and the thread would look for the frame long before it is there. `-b` goes through a
`uint16_t`, so 115200 arrives as 49664, and is right because 115200 is the default of
the `switch`.

### SmcDaemon

`pc[t]` says where a thread is. Between `poll` and `recvfrom` the other thread may take
the datagram. `Builds` says whether `main` starts the KNX thread: `{FALSE}` is the
program as built, `{TRUE}` the program with the code under `#if 0`. `DieWithUserMessage`
and `DieWithSystemMessage` only print here, so no failing call changes where a thread
goes; a failed `recvfrom`, however, gives -1 to `dump_buffer` (`Dump`), as in the knx
daemon.

A datagram is a sender and a kind; a `short` one has less than two bytes and leaves part
of an earlier header in the buffer (`KnxReceive`). `clntAddr` is the local address
buffer of each thread, and `srcAddr` the pointer the client table keeps: it names the
thread whose buffer it points to. The table has one entry for the class of all knx
daemons, and each registration is written over the last: `entered` are the clients it was
ever written for, `registrant` the last of them, `Displaced` the others. These, `asked`
and `told` record what happened and are not in the code. `main` joins only
the APP thread and closes the socket; the KNX thread then fails in `recvfrom`
until the process ends.

`KnxNotAlive` is the test of `threadKNX.c:74`: the pointer is that of the KNX class
already and is indexed by the class again, so the send behind it is never reached.

### Discovery

A knx daemon is its first request (`first`), whether a timer is armed, whether a retry
is queued, and whether it believes the controller alive; the smart controller is the KNX
thread with its `clntAddr` and the one `entry` of its table, which every registration
overwrites. `net` is a set of
datagrams: a delivery may leave the datagram there (`Delivered`: duplicates, delays,
reordering) and `Lose` takes any away, which is also what the APP thread does with a
request. `KnxRestart` and `SmcRestart` are a stop and a new start: neither program keeps
anything, and a restarted daemon may have the port of its predecessor, so that an old
answer still reaches it. A retry is sent from a packet that was freed, and a short
datagram is handled with the header before it: hence the `damaged` requests. A KNX frame
may arm a timer (its `type` was never written), which is a way back into asking, but
only while the daemon believes the controller alive. The frame itself goes out without a
header of its own, and may begin like a discovery request (`SendFrameTaken`). `asked` and
`told` are history, and so are, of the present run of the controller, `answered` and
`entered`. The world is closed: nobody else sends anything. A stranger's response, which
the knx daemon takes and only remarks upon, is in `KnxDaemon`, where a response may come
from anyone.

`Rendezvous` is what that comes to: answers go to who asked, and who believes was
answered.

### Adapter

`source` says which of the three programs a sender is. A sender opens the device, asks
whether the driver is active, detaches it, claims the interface and writes for ever;
`smc_main_0112.c` first opens the terminal twice, for reading (`SetBaudrate`) and for
writing (`OpenOutput`), and closes it again. A terminal program
opens `/dev/ttyUSB0`, checks that it is a terminal, and loops. Each call is a step, so
that another program, an unplug or a kill may come between any two. The kernel and
libusb are external: the terminal exists while the driver is bound, detaching hangs it
up, a claim needs that nobody else has it, a process that ends gives up what it holds
but attaches nothing. Finding the device may fail at any time; detaching, claiming and
transferring fail when the state of the adapter makes them fail.

### WireFormat

A sender stores fields one after the other and a receiver takes them out; each has a
byte order. `memcpy` and `htons` are modelled by what they do to the bytes, so that a
missing conversion on one side shows. A raw field leaves the receiver's cursor where it
is (`retrieve_raw_bytes`), and `RoundTrip` promises nothing behind one. `IInv` says
where every field lies in the datagram (`Layout`) and where the cursor stands.

### TimerDemo

Six timers with the demo's delays; the fourth and sixth are invalidated after the heap
was built, and three have a callback. `main` looks at the root, pops it if it is
invalid, and otherwise sleeps and ticks.

## 3. Runs

| run | instance | checks | distinct states |
|---|---|---|---|
| `queue` | 3 slots, 3 threads, 2 packets | `IInv`, `RefinesFifo` | 57 082 |
| `timer_heap` | 4 timers, times 0..1, first capacity 1..4 | `IInv`, `TickDrains`, `RefinesTimerSet` | 230 878 |
| `timer_race` | 4 timers, first capacity 1, 2 armed by the socket thread, with fairness | `IInv`, `UnlessOverlapped`, `SizeKept`, `TickReturns` | 304 574 |
| `daemon` | queue of 2, 2 timers armed by the socket thread, 1 datagram buffered, with fairness | `IInv`, `RxqExclusive`, `DiscoveryFirst`, `TimerKept`, `TtyStops`, `DaemonStops` | 521 905 |
| `smc` | both builds, 2 clients, 1 datagram buffered, with fairness | `IInv`, `ToldIsEntered`, `OnlyAskersServed`, `AloneNeverWaits`, `SmcStops` | 332 272 |
| `discovery` | 2 knx daemons, both builds | `IInv`, `NeverAlive`, `AliveIsEntered`, `StaysForgotten`, `RefinesRendezvous` | 362 048 |
| `tty_reader` | 5 programs and rates, 2 or 3 lengths each, with and without RSSI, 2 frames, with fairness | `InStep`, `FramesWhole`, `CrashesAtHeader`, `FramesQueued` | 210 106 |
| `adapter` | 2 senders of any kind, 2 terminal programs, with fairness | `IInv`, `Alone`, `StaysDetached`, `DeafForever`, `SetUpEnds` | 33 930 |
| `wire_format` | 4 pairs of byte orders, up to 3 fields of 4 kinds | `RoundTrip`, `IInv` | 22 840 |
| `timer_demo` | the demo, with up to 2 seconds for its set-up, with fairness | `InOrder`, `AllFire` | 40 997 |

Bounds and why they are enough:

* `MAX_QUEUE_SIZE = 3` (8 in the code): the ring is empty, partly filled, full and
  wrapped around at every offset; two packets show a swap or a duplicate. The proofs
  hold for every size from 2.
* `Time = 0..1` in the heap: the heap only compares expiry times, and a comparison-based
  heap that orders all arrays of zeros and ones orders all arrays. Four timers make
  three levels (two steps up, two steps down), an only child and a choice of two; the
  capacity grows from 1, 2 and 3. The four timers are interchangeable (symmetry).
* `MaxQueue = 2` (8): the queue can be full with the request in it. `MaxTimers = 2`
  bounds only what the socket thread arms; the callback's re-arming is unbounded in the
  code and stays so in the model, where a tick pops one timer for each it adds.
  `MaxInbox = 1`: a datagram is read one at a time, the next may arrive at any step after
  that, and only the first response changes anything but the buffer.
* `TimerRace`: two timers armed by the socket thread and the one the callback arms make
  the heap grow from 1 to 2 and to 4 in the middle of an operation of the other thread;
  with four timers neither thread ever runs out of memory, those lost in an overlap
  included, and one that was freed is allocated again.
* `Discovery`: two daemons, so that an answer may reach the wrong one and one may be
  entered over the other. Duplicates need no bound, because `net` is a set.
* `Adapter`: two senders race for the claim, of equal or different kinds; two terminals
  show one that is hung up beside one that works.
* `MaxInbox = 1` in `SmcDaemon`: each `recvfrom` takes one datagram, and the next may
  arrive at any step after it; a longer buffer only lets it arrive earlier. Two clients
  show an address that is overwritten. `ShortSent = FALSE`, because what is claimed of
  who is served needs whole headers.
* Two frames in `TtyReader`: the second shows whether the first was left whole. The
  lengths are the shortest and the longest of each rate, and for the receivers also
  those where the application data begins (16, 17).
* In `WireFormat` no byte is above 127, because TLC's integers have 31 bits and the
  receiver may make a number of any four bytes. The proofs have no such bound.
* `MaxNow = 23` in `TimerDemo` is the last expiry time: the set-up ends by 2, and the
  longest delay is 21.
* There is no deadlock check to switch off: a process that has ended stutters (`Ended`),
  and the others are never all blocked.

Properties that say more than a type:

* `IInv` (eight modules): the parts of the inductive invariants described below.
* `RefinesFifo`, `RefinesTimerSet`: the implementation relations.
* `TickDrains`: when a tick returns, no timer that was due when it read the clock is
  left, those its callbacks added included.
* `RxqExclusive`: no two threads are inside the rx queue, although the first store and
  the destruction take no lock. It holds because nobody else has anything to store until
  the socket thread is in its loop, and because main joins all three threads; it is not
  claimed when `pthread_create` failed (`UseAfterDeinit`).
* `DiscoveryFirst`: nothing is sent before the discovery request.
* `TimerKept`: a heap that is not empty stays so until the smart controller is alive,
  even when two unlocked heap operations overlap: the callback arms before the pop, and
  one lost operation leaves a timer.
* `SizeKept`: the same of the heap itself, access by access: however `cur_size++` and
  `cur_size--` of the two threads overwrite each other, a heap that is not empty stays
  so until the answer.
* `UnlessOverlapped`: as long as no two operations overlap, no freed timer is used, no
  index leaves the array, and between operations each timer is in the heap once, also
  across a resize in the middle of a callback. Damage needs an overlap.
* `TickReturns`: after the answer the tick ends, whatever the socket thread adds
  meanwhile, and the timer thread gets to the test of its flag.
* `TtyStops`, `DaemonStops`: after a signal the UART thread leaves its loop, and if the
  smart controller is alive the process ends. Without an answer it may never end: while
  the controller is not alive each callback arms a timer that is due at once,
  `timer_heap_tick` never returns, and main waits in `pthread_join`. Nothing is claimed
  of a UART or socket thread that is in an endless `dump_buffer`: after a failed read, a
  failed `recvfrom`, or with a freed packet.
* `ToldIsEntered`: the response goes out before the client is registered, and what comes
  in between never leaves a client that was told without its entry: each of them is the
  one in the entry, was displaced from it by another, or is about to be written there. It
  does not say that a told client stays in the entry: the code has one for all.
* `OnlyAskersServed`: although the cases of the switch run into each other and both
  threads read from one socket, the address answered and registered is that of a request
  that was received; so only who has asked displaces another.
* `AloneNeverWaits`, `SmcStops`: as built nobody takes the datagram that `poll` has
  reported, and the process ends after a signal. With both threads, one may be in
  `recvfrom` with nothing to read, and `main` then waits for it.
* `NeverAlive`: as built, with the APP thread alone on the socket, discovery never
  succeeds.
* `AliveIsEntered`: each daemon that finds alive the controller that has answered it is
  the one in the controller's entry, or about to be, though it is answered first, or was
  displaced from it, and then whoever is there has asked. Of those that were answered
  before the controller was started again nothing is claimed.
* `StaysForgotten`: a controller that was started again when everybody had found it, or
  had had its request refused, and nothing is on its way, never gets a client until a
  knx daemon is restarted or sends a KNX frame that is taken for a request.
* `RefinesRendezvous`: the two programs over the network implement the promise.
* `Alone`: however the checks and claims of two senders mix, the one whose transfers
  arrive shares the adapter with no other and with no terminal that works.
* `StaysDetached`: the driver is attached again by no error path and by no kill, only by
  plugging the adapter in anew: the label that would do it is never jumped to.
* `DeafForever`: a sender or receiver whose adapter was unplugged goes on for ever; only
  a kill ends it.
* `SetUpEnds`: a sender that was started gets to its loop or ends, whoever takes the
  interface meanwhile.
* `CrashesAtHeader`: of all frames only one as long as the header stops a program, and
  only `misc/test/smc.c`.
* `InStep`, `FramesWhole`, `FramesQueued`: the reader never takes a byte of a frame, or
  an RSSI byte, for a length; the packets are the frames, and none is left out. This
  rests on the sleep being long enough for the rate, and on reading the RSSI byte.
* `RoundTrip`: a datagram means the same to hosts of either byte order, field by field.
* `InOrder`, `AllFire`: the demo's callbacks run once each, in order, none early, and
  the invalid timers hold nothing up.

### Disagreements with the comments

Two runs each show that the code does not do what a comment says; the counterexample is
TLC's.

| run | text | what happens |
|---|---|---|
| `freed_packet` | "its memory will be release when pop the timer" (`threadSocket.c:134`) | the callback has put that memory into the rx queue; the pop frees it under the queue |
| `frames_timed` | "only the discovery request needs response now" (`threadSocket.c:135`) | the `type` of a KNX frame is never written: `malloc` leaves what was there, so that a frame may get the timer of a discovery request (whose callback does nothing by then: frames are read only once the controller is alive) |

The models also contain, without a run of its own, that every timer is due at once (the
comment at `threadSocket.c:133` says "3 second for timeout", but `expire = 3` is
compared with `time(NULL)`), that the sleep for 37 bytes or more at 9600 baud is cut off
at 16 bits (`SleepAssumption`; the line commented out at `threadKnxTty.c:116` was not),
that every writable turn of the socket thread ends before its read branch (`SocketPoll`,
`SocketSend`; a UDP socket is nearly always writable, so nothing is claimed of when a
datagram is read), that role 0 reads from the UART where the usage text calls it the
transmitter (`TtyCheck`), that the registered client's address is overwritten by the
next datagram (`KnxRegister`, `Received`) and its entry by the next client
(`Displaced`), that a short datagram is handled with an
earlier header (`KnxReceive`), that a registered client is reported not alive
(`KnxNotAlive`), and that as built no discovery request is answered (only `Knx` actions
write `told`).

### Fairness

`FairSpec` assumes weak fairness of each thread: a thread that stays able to run is run
again. That is what the scheduler gives. Nothing is assumed of a mutex (it may be
granted to the same thread every time it is free), of the signal or of datagrams.
`DaemonStops` needs no more, because each thread that contends for the queue finds the
exit flag after at most one more turn. The UART and the socket thread are excepted while
they are in `dump_buffer` with a length it never gets to: that loop is endless.
`TimerRace` assumes that each thread goes on with
an operation it has begun.

`SmcDaemon` assumes the same of main and its two threads. `TtyReader` assumes that bytes
on the line arrive and that the thread is scheduled; nothing makes the module send.
`TimerDemo` assumes that main is scheduled and that time passes. `Adapter` assumes that
a sender takes its next step on the way to its loop, where no call waits for another
program; nothing is assumed of a transfer, whose time-out is 0 and which may wait for
ever. `Discovery` has no fairness: the network owes nothing, and a retry comes from
freed memory, so that no daemon is sure to ask again.

## 4. Proofs

| theorem | statement |
|---|---|
| `QueueInvariant` | `CircularQueue!Spec => []IInv` |
| `RingRefinesFifo` | `CircularQueue!Spec => RefinesFifo` |
| `HeapInvariant` | `TimerHeap!Spec => []IInv` |
| `TickLeavesNoneDue` | `TimerHeap!Spec => TickDrains` |
| `HeapImplementsSet` | `TimerHeap!Spec => RefinesTimerSet` |
| `DaemonInvariant` | `KnxDaemon!Spec => []IInv` |
| `QueueExclusive` | `KnxDaemon!Spec => []RxqExclusive` |
| `RequestFirst` | `KnxDaemon!Spec => []DiscoveryFirst` |
| `RetryKept` | `KnxDaemon!Spec => TimerKept` |
| `SmcInvariant` | `SmcDaemon!Spec => []IInv` |
| `ClientsEntered` | `SmcDaemon!Spec => []ToldIsEntered` |
| `NeverWaits` | `SmcDaemon!Spec => []AloneNeverWaits` |
| `AskersServed` | `SmcDaemon!Spec => []OnlyAskersServed`, if `~ ShortSent` |
| `RaceInvariant` | `TimerRace!Spec => []IInv` |
| `SoundUnlessOverlapped` | `TimerRace!Spec => []UnlessOverlapped` |
| `RetriesKept` | `TimerRace!Spec => SizeKept` |
| `DiscoveryInvariant` | `Discovery!Spec => []IInv` |
| `AsBuiltNeverAlive` | `Discovery!Spec => []NeverAlive` |
| `FoundIsEntered` | `Discovery!Spec => []AliveIsEntered` |
| `ForgottenForGood` | `Discovery!Spec => StaysForgotten` |
| `DiscoveryRefines` | `Discovery!Spec => RefinesRendezvous` |
| `AdapterInvariant` | `Adapter!Spec => []IInv` |
| `AdapterAlone` | `Adapter!Spec => []Alone` |
| `DriverLost` | `Adapter!Spec => StaysDetached` |
| `LostUnnoticed` | `Adapter!Spec => DeafForever` |
| `TtyInvariant` | `TtySpec => []TtyInv` |
| `ReaderInStep` | `TtySpec => []InStep` |
| `FramesQueuedWhole` | `TtySpec => []FramesWhole` |
| `CrashOnlyAtHeader` | `TtySpec => []CrashesAtHeader` |
| `DemoInOrder` | `DemoSpec => []InOrder` |
| `WireInvariant` | `WireFormat!Spec => []IInv` |
| `DatagramAgrees` | `WireFormat!Spec => []RoundTrip` |
| `HeaderAgrees` | `retrieve_bytes16(to, store_bytes16(from, c)) = c` for every 16-bit `c` and all hosts |
| `NumberAgrees` | the same for 32 bits |

Assumptions: `SizeAssumption` (at least two slots; with one, HAS_ELEMENT would mean
both), `PointerAssumption` and `NullAssumption` (NULL is no packet, thread or timer),
`CapsAssumption` (no heap of capacity 0, which doubling cannot grow), `TimeAssumption`
(times are natural numbers), `BoundsAssumption` (the bounds are natural numbers),
`BuildsAssumption`, `ClientsAssumption` and `DaemonsAssumption` (`NoAddr` is no client,
the rest is typed), `TimersAssumption` and `CapacityAssumption` (as for the heap),
`ProgramsAssumption` (no program is both a sender and a terminal program; `Nobody` is no
sender), `FieldsAssumption` (fields hold numbers of their width), `FramesAssumption`
(frames fit in the buffer, and each program reads at a rate it is made for) and
`SleepAssumption` (the sleep is not cut off at 16 bits). The two theorems on numbers
need none, and neither does `DemoInOrder`.

Several arguments are inductions over positions in an array or a sequence. The library's
induction theorems are out of the provers' reach, so each is put as: the set of
positions at which the claim fails, if not empty, has a least element (`LeastNumber`,
from the well-foundedness of `<` on the natural numbers), and there it does not fail.

**Queue.** That the tag tells full from empty is not inductive: the tag is written a
statement after the pointer. `IInv` adds what holds in between (`TagAgrees`: before the
tag is written it is the tag of the ring before the pointer moved), that the mutex
holder is the only thread inside (`MutexHeld`), that the packet in a thread's hand is
the one in the slot it publishes or gives up (`HandAgrees`), and that the slots between
`front` and `rear` are filled (`SlotsFilled`). The refinement follows step by step:
lemmas on arithmetic modulo the size say which slot is at which position before and
after `rear` or `front` advances; `EnqueueRear` and `DequeueFront` map to `Store` and
`Retrieve`, the failing tests to `StoreFull` and `RetrieveEmpty`, the two entries to
`Invoke`, everything else to a stutter.

**Heap.** Between two operations the invariant is the heap order. During a percolation
it has a hole, so `HeapOrder` adds that the hole's parent is not due after the hole's
children, and that the timer in flight fits on the side it comes from; for
`timer_heap_init_by_array` it is restricted to the parents from `base` on.
`NoDuplicates` counts the timer in flight instead of the copy left in the hole, and
`Control` says which operation is nested in which.

The heap order speaks of parents and children; that the root is due no later than any
timer (`RootEarliest`) is the induction along the path to the root. From it follow both
results on whole operations: a tick that finds the root not due leaves no due timer, and
in the refinement `Earliest` holds of the timer at slot 0 whenever `Tick`, `PopInvalid`
or `Pop` takes it. The refinement goes operation by operation; a percolation step moves
the hole and changes no pending timer, so it is a stutter.

**Daemon.** `LockOwned` (who holds the mutex is inside the queue), `Gated` (before the
socket thread's loop no timer and no packet exists and the controller is not alive),
`Joined` (what main has started and joined), `RequestAtHead` and `RootKept` (while a
callback runs its timer is in the heap, and another once it has re-armed) are proved
together, because each rests on the others. `TimerKept` follows from `RootKept` by cases
on the only actions that can empty the heap.

**Timer race.** That the heap is not emptied is not inductive by itself: each thread
writes back an index it read earlier. `SizeKnown` says from which value on that index
is, by the place of the thread: while the timer thread works there is a timer; what
`cur_size++` will write is at least two once there is one; and from the moment the
callback has armed the next timer until the pop is over there are two, so that a
`cur_size--` on any of the values a race can leave still ends above 0. One lemma takes
the steps of an add, for either thread, one those of the timer thread, and the faults
(`FaultStep`) leave the heap alone.

`UnlessOverlapped` needs to know every slot. Its invariant (`Undisturbed`) is stated for
as long as nothing has overlapped, when at most one thread is inside an operation
(`Calm`): between operations the first `cur_size` slots hold distinct live timers; inside
one the thread's index, its local copies and the half-copied array of a resize are what
the operation has made of them by then. A step of the second thread makes `overlapped`
true, so each step is a case of one thread alone. The resize inside a callback inside a
tick is the longest: the root stays the timer that is firing through the copy.

**Discovery.** `Answered` (answers on their way and believers were told, and the thread
answers one who has asked) carries the refinement; `Introduced` (each daemon answered by
this run of the controller has been entered or is next, all entered have asked, and one
of them is in the entry) carries `AliveIsEntered`; `RefusedSilent` the rest.
Every action is one of `Rendezvous` or leaves its three variables alone.

**Adapter.** `Alone` needs that the owner holds a live handle and that whoever else is
in its loop has one of an adapter that was unplugged (`Claimed`), and that a driver
bound excludes an owner (`Bound`): a claim is refused while either is there.

**smc daemon.** That who is told is entered next, and has asked, is inductive only
with what holds while the KNX thread has a datagram in hand: its sender is in
`clntAddr["knx"]` (`SenderKnown`), and if it is a request it was received from there
(`InHand`). No action of the APP thread writes that address: `Quiet` collects what most
actions leave alone, and one lemma per conjunct goes through the rest. `Started` says
that creating a thread does not move one that runs. `AloneNeverWaits` is inductive with
the types: only a reception takes a datagram, and without the KNX thread the only one is
that of the thread that waits.

**UART reader.** `TtyInv` says what is before the reader, in `arrived` and on the line
together, at every place of its loop: the rest of the frames sent; behind a length byte
the bytes of that frame first; behind a zero byte the RSSI byte. That a read returns all
of it needs a second part, `Comes`: as many bytes as the thread sleeps for have arrived
or are still owed, or the line is silent and everything has arrived. It holds at the
beginning of a sleep because the time per byte that each program allows is longer than
the ten bits of a byte at its rate (`SleepEnough`, by arithmetic for each rate), and it
is kept by an arrival (one owed less, one arrived more) and by a frame sent behind a
silence. The rest of the frames is a fold of the community modules (`FlattenSeq`): what
it does when a frame is added behind (`FlattenAppend`) or taken in front (`FlattenCons`)
are lemmas, each an induction over the positions of the function inside its definition.

**Timer demo.** `InOrder` is inductive together with what is left in the heap: a timer
that has fired is out of it, and what is there expires no earlier.

**Wire format.** Storing gives the bytes most significant first on either host
(`StoredBigEndian16`, `StoredBigEndian32`), and retrieving makes the number of such
bytes (`RetrievedBigEndian16`, `RetrievedBigEndian32`); 32 bits are two halves of 16.

For whole datagrams, `Laid` adds that the bytes sent are the fields one behind the other
(`Layout` gives the offset of each) and that the cursor stands at the beginning of the
next field to be read, until a raw field has been read, and lags behind it afterwards:
so every read lies inside the datagram and takes the bytes of one field.

Only model-checked: the liveness properties `TtyStops`, `DaemonStops`, `SmcStops`,
`TickReturns`, `SetUpEnds`, `FramesQueued` and `AllFire`, because fairness is out of the
prover's reach. Every other property of a run is a theorem, except the two that the code
violates. `TtyInv` and `DemoInv` imply what the runs check and are not listed there; TLC
finds both to hold on the instances of those runs.

## 5. What is not modelled

* A length byte beyond the 64-byte UART buffer, and what the read past its end
  overwrites. Bytes lost or damaged on the line.
* The contents of packets behind the header; nothing in the code looks at them.
* In `KnxDaemon` the UDP peer is the environment, and in `SmcDaemon` the clients are:
  `Discovery` composes an abstraction of both, and that it is one of each module is not
  shown.
* When the knx daemon reads a datagram that has arrived: as long as its socket is writable
  it does not, and how long that is the kernel decides.
* What the overwritten client address, and the thread's buffer after a short datagram,
  hold exactly.
* What a thread does with the heap after it has used a freed timer or left the array
  (`TimerRace` ends there; `KnxDaemon` goes on with any outcome), and the reordering of
  accesses by the compiler or the processor.
* `timer_heap_destroy`, which nothing calls.
* `malloc` is assumed to succeed (the code exits or returns NULL to callers that do not
  look); except in `TimerRace`, where freed timers are allocated again, reuse of freed
  blocks, leaks, and what a freed block contains are not tracked.
* main before the threads: options, opening the UART. It ends the process or goes on.
* A thread's creation that fails leaves threads running while the queues are destroyed;
  `UseAfterDeinit` stops the process or lets it go on until main returns.
* The queue demo: a sequential main, of one behaviour, over the ring that
  `CircularQueue` models. Its loop (`misc/queue/main.c:16`) runs to `MAX_QUEUE_SIZE`
  inclusive and writes an element behind its array, and its last loop reads what was
  freed.
* Of the adapter programs: `smc_lsdev.c` (a third-party listing), `getopt.c` (a test of
  getopt), `smc_baud_rate.c` (does not compile), `smc_baud_rate_0112.c`, `_0113_ok.c`
  and `_0114.c` (they print whatever a read returns), `smc_main_0113.c` without an
  argument (another device), and the bytes of the frames they assemble.
* Logging, and terminal attributes other than VMIN.

## 6. Plan

Done: the queue, the heap and its race, the knx daemon, the UART reader and the
receivers, the smc daemon, discovery between the two, the adapter, the wire format and
the timer demo; their invariants and thirty-four theorems. What is left are proofs of
composition:

1. That `KnxDaemon`'s queue steps are steps of `BoundedFifo`.
2. That `Discovery` abstracts `KnxDaemon` and `SmcDaemon`.

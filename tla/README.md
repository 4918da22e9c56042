# Verification of railab_nuttx_code

TLA+ models of the NuttX example programs in `apps/`, the TLC runs that check
them and the theorems TLAPS proves about them. Paths in this file are relative
to the repository, line numbers are those of the files named.

1. [The system](#1-the-system)
2. [The models](#2-the-models)
3. [What is checked](#3-what-is-checked)
4. [What is proved](#4-what-is-proved)
5. [What the code does and its comments do not say](#5-what-the-code-does-and-its-comments-do-not-say)
6. [What is not modelled](#6-what-is-not-modelled)
7. [Plan](#7-plan)

## 1. The system

The repository holds small applications for NuttX (`apps/mini_*`) and the board
configurations that build each of them into an image of its own
(`boards/**/defconfig`, entry point `CONFIG_INIT_ENTRYPOINT` or a shell). An
image runs one application: no two of them interact, except CAN nodes, which
share a bus. Two applications are systems in their own right; the others
demonstrate one OS facility each.

| Component | Source | State it keeps | Operations | Interacts through |
|---|---|---|---|---|
| Modbus slave | `apps/mini_modbusslave/modbusslave_main.c` | `g_modbus`: input registers (status, counter; now, min, max, avg of each ADC channel), holding registers (interval, reset request), a mutex; the sample buffer and loop index of `thread_adc` | boot; count a second; read input registers; read or write holding registers; refuse coils; trigger, read and store a scan; reset the statistics | the mutex; callbacks from `eMBPoll` of FreeModBus; the ADC driver |
| CAN node | `apps/mini_cannode/cannode_main.c`, `cannode.h` | `g_cannode` (descriptors, set at boot), the LED, the button sample | boot; heartbeat; receive and set the LED; poll, read and report the buttons; the dummy variants of both | the CAN driver's two queues, the bus, LED and button drivers |
| CAN back ends | `cannode_char.c`, `cannode_sock.c` | a descriptor | `can_init`, `can_send`, `can_read`: conversion of identifiers and data | called by the CAN node |
| Shared counter | `apps/mini_components3/components3_main.c` | `g_val`; by build a mutex, a condition variable or a rwlock | start three threads; increment; wait for 3 | shared memory |
| Timers | `apps/mini_components2/components2_main.c` | two timerfds, a pollfd array or an epoll set | wait with `read`, `poll` or `epoll_wait`; read a timer | file descriptors |
| Semaphore notification | `apps/mini_components4/components4_main.c` | a semaphore | post from a thread, or from a timer callback; wait | semaphore, POSIX timer, signals |
| Blinking LEDs | `apps/mini_blinky_posix`, `apps/mini_blinky_stm32` | the LED bit | toggle once a second | the LED driver, a GPIO |
| Single loops | `apps/mini_hello`, `mini_oscore`, `mini_components1` | none that matters | print, sleep, spin | - |
| Mathematics | `apps/mini_components5` | none | calls of libm, fixedmath and printf | - |
| Configurations | `boards/**`, `CMakeLists.txt`, `Kconfig` | - | - | select the variants above |

### What is hard here

*Modbus slave.* Three threads meet on one structure. A reply copies up to 18
registers in a loop while a scan stores channel after channel; a reset runs over
all channels; both sides are correct only if each loop is one critical section.
Registers cross the wire byte-swapped, signed values among them, and are
addressed as words of a packed structure from 1-based addresses, with a range
check that must also catch a range that starts inside and ends outside. The
reset is requested through a register that the master may rewrite before it is
looked at. Errors of the ADC are printed and the loop goes on.

*CAN node.* Three threads share a queue to the bus; the state of a button may
change before, between and after `poll`, `read` and `can_send`, each of which
may fail; requests arrive faster than they are served, mixed with other nodes'
traffic, and are told apart by arithmetic on identifiers that are cut to 11
bits on the way out and may carry flag bits on the way in. Each node is built
with a format and a back end of its own, and they share a bus.

*Shared counter.* The lost update, the lost wakeup, and the early finish.

*Timers.* main sleeps half a period in every pass and may block on one timer
while the other expires; a read of a timer returns, and clears, all its expiries
at once. `poll` describes every timer anew, `epoll_wait` only those that expired,
and the code looks at all entries. Creation may fail without anybody noticing.

*Semaphore.* A thread, a worker of the kernel and a signal meet main in
`sem_wait`, between two waits, or twice in a row. A post must be one pass of the
loop and an interruption none, at whatever moment each of them comes.

### What makes each component correct

| Component | Properties |
|---|---|
| Modbus slave | mutual exclusion; no word outside the structures; a reply is a copy of one instant and a write is one change; min and max are those of exactly the samples since the last reset; the average stays in range; no master sees half a reset; calls are answered, resets served, intervals adopted |
| CAN node | the LED follows the requests of the host in order and nothing else; every change of a button is reported or known to be lost; identifiers of different nodes never compete |
| Shared counter | every increment counts; main is never left waiting; main is done only after the last |
| Timers | no two expiries are read as one; a loop that polls never blocks in a read and comes to every expiry in time; every expiry is read in the end |
| Semaphore notification | one "sem!" for every post, none for an interruption, no post lost before the semaphore is full; main is notified again and again |

`PROJECT.json` lists each hazard with its line and the properties that cover it, or
why none does: failures whose consequence no document speaks of (a lost report, a
heartbeat that ends the node, a half-booted slave) are steps of the models, but
what should follow is not stated anywhere.

## 2. The models

### Modbus slave

| Module | What it is |
|---|---|
| `ModbusRegisters` | the structures, their word view, byte order, bounds and ADC arithmetic: operators only |
| `ModbusBank` | abstract: one bank of registers whose scans, replies and writes are single steps, written from the documented register map (`modbusslave_main.c:83-108`) |
| `ModbusSlave` | the three threads and the mutex |
| `ModbusSlaveHistory` | two history variables, the refinement mapping to `ModbusBank` and the properties about samples |
| `MCModbusSlave` | instances for TLC |
| `ModbusRegistersProofs`, `ModbusSlaveProofs`, `ModbusHistoryProofs`, `ModbusBankProofs` | proofs |

`pc` holds the place of each thread. One action is what a thread does between
two points where another thread can be seen: taking the mutex, copying *one*
register word, storing *one* channel, releasing the mutex. Without the mutex
the model would show every mixture the code could produce; a mutant that drops
it does.

- main: `DeviceInitialize`, `CreateModbusThread`, `CreateAdcThread`, `BootFails`,
  `MainLock`, `MainCount`.
- `thread_modbus`: `PollRequest` (any request of `Requests`), `CbLock`,
  `CbReadWord`, `CbWriteWord`, `CbUnlock` for the two register callbacks,
  `RejectCoils` for the other two.
- `thread_adc`: `AdcOpen`, `AdcInitLock`, `AdcReady`; then per scan `AdcRead(n)`
  (n samples arrived; 0 is a failed trigger or read, which the code does not
  leave out of the loop), `AdcLock`, `AdcReset`, `AdcStore` for each channel,
  `AdcUnlock`.

An input word is read by its index into the packed structure and swapped byte by
byte, as the code does; the bank says on its own which register an address is and
that its high byte goes first (`RegisterBytes`, `RegisterFrom`). That the index
arithmetic and the swap amount to this is a consequence (`ImplementsBank`,
`ReplyIsSnapshot`), not an assumption. A sample slot never written holds stack garbage: storing it yields
any value of `Garbage`.

The committed bank, which the refinement maps to, is `g_modbus` as the last
owner of the mutex left it. History variables are read by no action.

### CAN network

| Module | What it is |
|---|---|
| `CanFrames` | identifiers, frames, the two back ends' conversions, the filter of `thread_rx` |
| `CanNetwork` | any number of nodes with three threads each, their drivers' queues, the bus, a host |
| `RemoteLamp` | abstract: each node is a lamp that reads its own letters in order |
| `MCCanNetwork` | networks with the node IDs and back ends of the board configurations |
| `CanNetworkProofs` | proofs |

Each node has its own build: node ID, back end (`"char"`, `"sock"`), extended
identifiers or not, drivers or dummies. A driver queues frames to send
(`TxLimit`; a send waits for room) and frames received (`RxLimit`; an arriving
frame that finds no room is lost). `Transmit` puts the oldest frame of one node
on the bus and with it into the queue of every other node that is up and can
hear its format; `HostSend` is another station. `Press` is somebody at the
buttons: a change is an event for whoever has the device open, a read returns
the state and clears the event.

- main: `CanInit`, `CreateRxThread`, `CreateButtonThread`, `BootFails`,
  `Heartbeat`, `HeartbeatFails` (which ends the node), `HeartbeatSleep`.
- `thread_rx`: `LedInit`, `LedInitFails`, `IgnoreFrame`, `LedSet`, `LedSetFails`.
- `thread_button`: `ButtonInit`, `ButtonInitFails`, `ButtonPoll`, `ButtonGet`,
  `ButtonGetFails`, `ButtonSend`, `ButtonSendFails`; the dummy: `DummySample` and
  the two sends.

Identifiers are numbers and keep their width: a standard frame carries
`id % 2048`, a SocketCAN `can_id` carries the extended flag on top. Data is the
one byte the nodes exchange; the heartbeat's time stamp is left out. A frame may
come without data (`NoData`): the code ignores the length and takes the byte the
stack held, so `CanReadData` is any byte and a request without data a letter
that leaves the state open.

The drivers, the bus and the host are not in the repository and are modelled
from how the code uses them.

### Shared counter

| Module | What it is |
|---|---|
| `SharedCounter` | abstract: a counter that goes up in single steps and a main that finishes at the goal |
| `CounterThreads` | the six builds of `components3_main.c`, chosen by the variable `build` |
| `MCCounterThreads` | the instance for TLC |
| `CounterThreadsProofs` | proofs |

`g_val++` is a `Load` and a `Store`. `pthread_cond_wait` releases the mutex and
waits in one step (`Wait`), may return for no reason (`WakeSpuriously`) and takes
the mutex again before it returns (`Relock`); a `Signal` without a waiter is
lost. Threads are started one at a time and each start may fail, which the code
does not notice. main is the only reader, so the rwlock excludes what the mutex
excludes and the two share their actions. The build without threads and the
one whose threads only print are there too; they never finish.

### Timers

| Module | What it is |
|---|---|
| `TimerWait` | the three loops of `components2_main.c`, chosen by the variable `loop`, with their timers, in discrete time |
| `MCTimerWait` | the instance for TLC |
| `TimerWaitProofs` | proofs |

Each existing timer `t` has `due[t]` ticks to its next expiry and `pending[t]`
expiries that a read would return. `Tick` takes one off every timer and off
main's sleep, whatever main does. main creates the timers (`StartTimer`,
`NoTimer`), waits (`Poll`, `EpollWait`), looks at one timer or entry after the
other (`Skip`, `ReadTimer`, `ReadFails`) and sleeps (`WakeUp`). A read of a timer
that has not expired is not a step: main stays where it is, as it does in the
code. Main's own steps take no time; what they take in the code is `late`: when
main can run it may be kept from it, for at most `LATE` ticks in a pass of the
loop.

The entries of `events[]` that `epoll_wait` does not write keep what they held,
and hold any value of `Garbage` at first: no event, a timer, a descriptor whose
read fails (`Stray`), or one that is open and has nothing to read (`Silent`). The
number a read returns is printed only, so `pending` stops at 3 (`Many`), which
stands for three and more; `Age(t)` is the time since the oldest expiry that waits
to be read, and needs to tell one expiry that waits from two and from more. timerfd, `poll` and `epoll_wait` are modelled from how
the code uses them.

### Semaphore

| Module | What it is |
|---|---|
| `Notices` | abstract: posts are made, owed and reported, one at a time |
| `SemNotify` | main, the thread, the timer with its callback or its signal; the variable `build` is the set of Kconfig options |
| `MCSemNotify` | the instance for TLC |
| `SemNotifyProofs` | proofs |

main is at `"waits"` only when it found the semaphore empty: a post then goes to
main itself (`"granted"`) and not to the count, and a signal ends the wait
(`"interrupted"`). The signal has no handler, so one that comes while main prints
is gone. The callback of a timer runs on a worker and is not queued a second
time while it waits for it. Each creation may fail, which the code does not
notice. The refinement maps who is at `sem_post` to `posting`, and the count
with the post main has taken and not printed to `owed`.

## 3. What is checked

| Run | Instance | States | Shows |
|---|---|---|---|
| `modbus_slave` | 1 channel, registers of 16 values, 8 requests | 440 000 | types, mutual exclusion, bounds, exact statistics, range and course of the average, refinement |
| `modbus_scan` | 2 channels, registers of 4 values, a read across all groups, a reset | 516 000 | replies are snapshots, resets are whole, what a master decodes from a reply is consistent, refinement |
| `modbus_live` | 1 channel, registers of 4 values, a refused range among the requests | 92 000 | every call answered, the ones after a refused call too; resets carried out, once the master stops withdrawing them; intervals adopted |
| `can_node` | 1 node with drivers and extended identifiers, 5 kinds of frame, one without data, two of which may wait | 102 000 | LED follows host, reports current, refinement, types; LED and buttons settle |
| `can_pair` | two nodes of one format, character device (0x100) and SocketCAN (0x200) | 418 000 | no two nodes offer one identifier, LEDs follow the host, refinement |
| `counter` | 3 threads, all six builds | 2 200 | no lost update, no lost wakeup, no early finish, refinement, termination |
| `timers` | 2 timers, period 8, sleep 4, delay 1, the three loops | 4 700 | no two expiries read as one, the poll build never blocks, each build comes to an expiry in its time, every expiry is read |
| `semaphore` | all six builds, a semaphore that holds 3 | 206 | one report for each post and none for a signal (refinement), main notified again and again |

Four more runs, `modbus_garbage`, `modbus_withdrawn`, `can_socket_extended` and
`timers_epoll`, end in a violation on purpose; section 5 describes them.

### Bounds, and why they are enough

- `BYTE` (values of a byte) is 256 in the code and 2 or 4 here: a register has 4
  or 16 values and an `int16_t` is -2..1 or -8..7. All that depends on the width
  (byte order, sign, sentinels, wrap of the counter, shift of a negative number)
  happens at any even width, and the proofs are for every even width.
- `ADC_SAMPLES` is 4 in the code, 1 or 2 here: two channels are what a reply or
  a reset can be torn between. The proofs are for every number of channels.
- `Requests`: at least one of every kind the callbacks distinguish: whole range,
  part of it, over the end, before the start, both holding registers at once,
  either value of the reset flag, a coil. The proofs are for every set.
  `modbus_withdrawn` has only a reset and its withdrawal, for a short trace.
- `MaxCount` stops main's counter. It is the bound that keeps the states finite;
  in `modbus_scan` and `modbus_live` it equals `WORD`, more than the counter can
  reach, so it wraps and nothing is cut off.
- `RawSamples`: the ends of the range, so an average can move both ways.
- `RxLimit`, `TxLimit`: 1 makes every queue full at once; 2 lets requests stand in
  line behind each other. `HostFrames`: both states of the LED, a request without
  data, a request for another node, an identifier with the same low bits, a frame of the format a
  node does not hear. The proofs are for any limits and any frames.
- `CAN_EFF_FLAG` is 2^29 for TLC, whose integers have 32 bits, instead of 2^31:
  all that matters is that it stands above every identifier of the host. The
  proofs are for any value above them.
- `THREADS` and `GOAL` are 3, as in the code.
- `MAXFDS` is 2, as in the code. `PERIOD = 8`, `PAUSE = 4`, `LATE = 1` are the
  code's 2 s and 1 s in quarters of a second and a quarter to lose; timers are
  started one delay apart, at most, so they expire together or not. The proofs
  are for any values with `PAUSE + 2 * LATE < PERIOD` (`TimingAssumption`).
- `Garbage` of `timers`: no event, the second timer, a failing descriptor.
  `Silent` is left out there: a first `events[1]` that names an open descriptor
  with nothing to read would hold up the epoll loop for ever, and
  `EveryExpiryRead` speaks of the program without it. `timers_epoll` starts from
  clean entries, so that only old ones are at work.
- `SEM_VALUE_MAX` is 3: enough for a post of the thread and one of the callback
  beside the one main has taken, and small enough to fill up. The proofs are for
  any value.

Symmetry is not used: nodes differ in their builds and threads in their order.

### Fairness

- Modbus: every thread runs on (weak fairness): the threads have one priority
  and each sleeps in its loop. A thread that asks for the mutex again and again
  gets it (strong fairness of the lock actions): a NuttX mutex is passed to a
  waiter when it is released. The ADC completes or fails every read. Nothing
  makes a master send.
- CAN: every thread runs on and the bus transmits what is queued (weak fairness).
  main and `thread_button` each get a place in the shared queue if places come
  free again and again (strong fairness of "a place is free and this thread is
  done with its send"): the driver is taken to wake its waiting writers in turn.
  A send may fail at any time, but nothing makes it fail: a full queue holds a
  sender up, as in the code. The strong fairness is needed. With weak fairness of
  the reports TLC refutes `ButtonSettles` by a main whose heartbeats take every
  place that comes free. Nothing makes the host send or a button move, so the
  properties about them say what follows *if* they leave things as they are.
- Counter: as above; strong fairness of the threads' locks only, because main
  polls in a loop while each thread takes the lock once. No fairness for
  spurious wakeups.

- Timers: main takes its steps (weak fairness, which the bound on `late` makes
  prompt) and time passes.
- Semaphore: main, the thread and the worker run, sleeps end and the timer
  expires (weak fairness). The signal need not find main waiting.

Deadlock is checked in all runs but `semaphore`, whose build with neither thread
nor timer waits for ever, as every build does when they could not be created.
The other programs that really stop do so through an explicit step (`Halted`,
`Finished`): main has returned, or every thread but main has ended. In `timers`
time goes on even if nothing else does.

Every property of a passing run has a mutant, a plausible bug of the code
written next to the action it replaces, under which TLC finds the property
violated.

## 4. What is proved

TLAPS proves the following for every value of the constants that satisfies the
assumptions of the modules: any even register width, number of channels, ADC
scale, set of requests; any number of nodes, node IDs the build accepts, back
ends, formats, queue lengths, host; any number of threads; any number of timers,
period, sleep and delay; any capacity of a semaphore.

| Theorem | Establishes |
|---|---|
| `SlaveTypeOK`, `SlaveMutualExclusion`, `SlaveAccessInBounds` | types, mutual exclusion, no word outside the structures |
| `SlaveStatsExact`, `SlaveAverageWithinRange`, `SlavePublishedWhole` | the statistics |
| `SlaveAverageTracks` | the average moves towards every sample, never past it, and rests only less than 4 mV below it |
| `SlaveGarbageAtFirstOnly` | once the ADC delivered a sample of a channel, no garbage is stored for it any more, whatever fails |
| `SlaveReplyConsistent` | what a master decodes from a reply has now within min and max for each channel, or the marks of a reset for all |
| `SlaveReplyIsSnapshot`, `SlaveImplementsBank` | replies are snapshots; the threads implement the bank |
| `CanTypeOK`, `CanReportsCurrent` | types; no change of a button slips through |
| `CanNoArbitrationClash` | no clash, if the identifiers of nodes of one format differ on the wire (`WireIdsDiffer`) |
| `CanLampFollowsHost` | LEDs follow the host, if it asks no SocketCAN node in extended frames that the node hears (`AskedPlainly`) |
| `CanExtendedSocketDeaf` | a SocketCAN node that is asked in extended frames only never moves its LED |
| `CanImplementsLamp` | the network implements the lamps, with `AskedPlainly` and `DistinctIds` |
| `CounterTypeOK`, `CounterNoLostUpdate`, `CounterDoneMeansAll`, `CounterNoLostWakeup`, `CounterImplements` | the counter |
| `TimerTypeOK`, `TimerKeepsUp`, `TimerPollNeverBlocks`, `TimerPollResponds` | the timers, if a sleep and two delays are shorter than a period (`TimingAssumption`) |
| `TimerReadResponds` | the loop that reads comes to an expiry within one delay |
| `TimerEpollResponds` | the epoll loop reads an expiry less than a period, a sleep and two delays after it, with two timers and no silent descriptor in the first `events[1]` |
| `SemTypeOK`, `SemImplementsNotices` | the semaphore |

### The arguments

*Modbus, threads.* `IInv` of `ModbusSlaveProofs` adds to the types: who is inside
a critical section owns the mutex; the index of a callback is where the words
done put it; threads run only after they were created, so boot cannot wipe
registers under them. Without the second the bounds do not follow, without the
third mutual exclusion is not inductive, since boot resets the mutex.

*Modbus, statistics.* `SInv` describes the registers channel by channel while the
scan runs: channels below the loop index have taken the sample in, those above
have not; the rest is about one `Store` and one `ResetStats` (lemmas
`StoreExtremes`, `StoreAvg`, `ResetFresh`). The average stays in range because a
quarter of a difference, rounded down, never leads past its end (`EmaBetween`);
the same quarter is zero only for a sample less than 4 above the average and
negative for every sample below it (`EmaTracks`): the average of a steady signal
that fell gets there, that of one that rose stops short of it.
`DeliveredInv` says what `sample[]` may hold, which only a successful read changes
(`SampleStep`).

*Modbus, refinement.* `BInv` of `ModbusBankProofs` says what the owner of the mutex
has made of the committed bank so far: a callback has copied, or written, the
first so many words of it; a scan has stored the first so many channels. When
the owner releases the mutex this is a whole step of the bank. `Documented` proves
that the packed structure read by index is the documented register map,
`WireBytesBigEndian`, `WireWordBigEndian` that the two swaps are big-endian order,
and `ByteOrder` that this is the order the bank asks for;
`Int16OnWire` says that a master who takes the sign back has the register's value
again, so that `PublishedWhole`, of the committed bank, becomes `ReplyConsistent`,
of the bytes of a reply.

*CAN.* A node ID is a multiple of 0x100 below 0x1000 (`NodeIdShape`), and cutting
an identifier to 11 bits leaves its low byte (`WireIdShape`): so nothing a node
sends has the low byte of an LED request (`NodeFrameNotRequested`). The filter of
`thread_rx` takes exactly the requests among frames whose identifier `can_read`
leaves alone (`FilterExact`), and none among those that keep the flag
(`FlaggedNotRequest`). `BusInv` says where the frames in the queues come from: the
node itself, or the host and the nodes it hears. The hypotheses are of the
identifiers in use and not of the builds: `FittingIdsDiffer` and
`PlainSocketAskedPlainly` give them for node IDs that differ and fit their format
(`IdsFit`) and for networks without extended SocketCAN nodes
(`NoExtendedSocket`). `CanExtendedSocketDeaf` is the other side of `AskedPlainly`.
`ButtonInv` says, for each place of `thread_button`, whose copy of the button's
state is current.

*Counter.* The value is the number of threads past their increment; it is
inductive with the ownership of the lock and the fact that a copy of the value
taken under the lock is good until it is stored. A subset of the threads as
large as all of them is all of them.

*Timers.* `Left(t)` is the time to the oldest expiry of timer `t` that main has
not read, negative if it has passed: a tick takes one off, a read adds a period.
Two expiries wait at once only if it falls to minus a period. `PollInv` bounds it
from below at each place of the poll loop (`PollFloor`). In the loop that reads,
main waits for whichever timer comes next, so no bound follows from one timer
alone: `ReadInv` adds that the timers, started in the order of the reads and
within one delay, stay in that order and within one delay of each other once the
read of this pass is accounted for (`Phase`). While main reads, a timer it has
still to come to is therefore late by at most the delay of main itself
(`TimerReadResponds`).

The epoll loop may block on the entry that `epoll_wait` did not write (`Blocked`),
for what that timer has left, less than a period; when it gets out it sleeps and
goes round once more. `EpollInv` puts this into a floor for `Left(t)` at each
place, and needs three expiries told apart. The floor is true for two timers
only, hence the hypothesis `MAXFDS = 2` (the code's number): with three, TLC shows
main blocked a second time before it comes to the third. The other hypothesis,
`Silent \notin Garbage`, leaves out a first `events[1]` that happens to name an open
descriptor with nothing to read, where main would wait for ever.

*Semaphore.* A post moves `owed` up by one whether main waits or not (`PostOwed`),
which needs that main waits only at an empty semaphore; every other step moves
`posting`, reports, or is a stutter (`StepImplements`).

### What is only model-checked

Liveness: the three properties of `modbus_live`, `LampSettles`, `ButtonSettles`,
`Terminates`, `EveryExpiryRead` and `KeepsNotifying`. TLAPS does not handle
fairness. All invariants, action properties and refinements of the passing runs
are proved; `SlaveGarbageAtFirstOnly` and `CanExtendedSocketDeaf` are proved only:
they say how far two of the findings of section 5 go.

## 5. What the code does and its comments do not say

Four runs check what a comment says and find a behaviour of the code that
contradicts it:

- `modbus_garbage`: `now` is the "Sample now in mV" (`:131`). A failed `read()`
  (`:341`) is stored all the same: stack garbage before the first success, the
  last scan once more after it.
- `modbus_withdrawn`: "Reset ADC samples when written value greater than 0" (`:107`).
  A write only sets the register, and `thread_adc` looks at it once a scan
  (`:353`): a write of 0 that comes first takes the reset back, and nothing is
  reset. `ResetServed` shows that such a write is the only cause.
- `can_socket_extended`: a SocketCAN node with `CONFIG_NET_CAN_EXTID` ignores every
  LED request in its own format, because `can_read` (`cannode_sock.c:113`) leaves
  `CAN_EFF_FLAG` in the identifier. `qemu-armv7a/configs/cannode_sock` is such a
  build.
- `timers_epoll`: "Wait with epoll" (`components2_main.c:152`). When one timer
  expired, `events[1]` (`:162`) is what an earlier pass left there, and the loop
  waits in the `read` of a timer that has not expired.

Further behaviour that the models show:

- The comment at `modbusslave_main.c:119` gives alpha as 0.5; the shift by 2 makes
  it 0.25, which is what the model computes.
- `status` becomes 1 before the first sample, with min and max at their sentinels;
  the average starts at 0 and approaches the signal from there.
- The first scan after a reset may have been sampled before it.
- A `read()` that returns fewer samples leaves the others as they were.
- `thread_button` reports the state at the read, not at the event: a press and
  release before the read is a report that repeats the last one.
- The check of the node ID (`cannode_main.c:49`) lets 0x800-0xf00 through, which a
  driver that sends 11 bits cuts to 0x000-0x700: two such IDs can clash on the
  bus. No configuration uses one; `CanNoArbitrationClash` has `WireIdsDiffer`.
- A heartbeat that cannot be sent ends the node, and its threads with it.
- A node whose LED cannot be opened loses `thread_rx` and goes on sending
  heartbeats. A report that could not be sent is not repeated. A button that is
  down at boot is not reported until it changes.
- The builds of mini_components3 without protection wait for ever, and so does
  every build if a thread could not be created.
- Kconfig allows `..._ATOMIC` and `..._MUTEX` together, for which the threads and
  main of mini_components3 would disagree about the protection; no configuration
  selects both.
- "Busy wait for both timers" (`components2_main.c:168`): the reads block, so main
  sleeps while it waits.
- mini_components2 and mini_components4 ignore the results of `timerfd_create`,
  `timer_create` and `pthread_create`. With a timer missing the loops of
  mini_components2 go on with the other; with both missing, the builds that poll
  wait for ever.
- A signal of mini_components4 that comes while main prints is lost: there may be
  fewer "EINTR" than expiries. A callback still queued when the timer expires
  again posts once for both.
- An LED request without data sets the LED to what the stack held; the next one
  with data puts it right.

## 6. What is not modelled

- Time, except in `TimerWait`: sleeps and timeouts may take any time. Durations (a
  heartbeat each second, `usleep(interval)`) are not checked.
- FreeModBus itself, framing and CRC: a request arrives or it does not.
- `am_channel` of a sample, which the code ignores; big-endian targets.
- Data lengths other than none, remote and error frames on CAN; how a character
  device packs several frames into one read. The code looks at none of them.
- Priorities: the models allow every interleaving, so what holds here holds
  under any scheduler.
- mini_hello, mini_oscore, mini_components1, mini_components5: no state anything
  depends on. The configurations are data; those that matter are instances.
- The LED programs (`mini_blinky_*`): one thread that toggles one bit and sleeps.
  Nothing runs beside it, and a property of it would repeat the toggle. That the
  POSIX one toggles a set it never initialised is listed as a hazard.

## 7. Plan

Done, the most important first: the Modbus slave (registers, threads, history,
bank, proofs), the CAN network (frames, network, lamps, proofs), the shared
counter (counter, threads, proofs), the timers (loops, proofs), the semaphore
(notices, threads, proofs), frames without data.

What may follow:

1. CAN: several frames in one read, if the drivers' sources come into reach; the
   boot of a node as a step of the abstract lamp.
2. Modbus: the durations of `usleep(interval)` and `sleep(1)`, in ticks as in
   `TimerWait`.

Every module is written so that it can be proved about: parameters are
constants with named assumptions, an action per operation, no recursive
operators.

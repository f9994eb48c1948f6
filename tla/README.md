# ImuLogger: specification and proofs

TLA+ modules, TLC configurations and TLAPS proofs for the ImuLogger firmware: a
data logger on a Sony Spresense board (NuttX) that records an IMU, and the
battery voltage, on an SD card until somebody holds the power button down.

    tlasany M.tla                             parse
    tlc -config X.cfg M                       model-check
    tlapm M.tla                               check the proofs

## 1. The system

`init.rc` starts four programs as tasks of one flat image; `sdk.config` gives
them two CPUs (`CONFIG_SMP_NCPUS=2`), so they really run at the same time.
The image being flat, a `static` variable of a library file is one object that
all tasks share, and `PTHREAD_MUTEX_INITIALIZER` mutexes work between tasks.

| component | source | state | operations |
|---|---|---|---|
| shutdown handler table | `PowerCtrl/PowerCtrl.c` | mutex, two condition variables, bitmap and handlers of four slots, `isPowerReady`, `isShutdown` | `SetShutdownCallback`, `NotifyStop`, `Shutdown`, `PowerReady` |
| power button | `PowerCtrl/PowerCtrl_main.c` | semaphore, idea of the button, power source, interrupt polarity, PWR_EN | interrupt handler, `Delay`, `Wait`, `Check1`, `Check2`, `ActivatePower`, `WatchPowerButton` |
| logging queue | `Logging/Logging.c` | mutex, condition variable, `isQueueCreated`, `openCount`, the message queue | `CreateQueue`, `OpenQueue`, `SendQueue`, `DecrementOpenCount` |
| logger task | `Logging/Logging_main.c` | `isShutdown`, its handler's index | the receive loop, `ShutdownNotify` |
| SD card writer | `Logging/Logging_Writer.c` | directory, file number, file size, descriptor | `Initialize`, `Write`, `Close` |
| block buffer | `Logging/Logging_Buffer.c` | header, size, footer and CRC of a block | `Init`, `Update`, `GetRemainingSize`, `GetNextPos`, `Finalize` |
| Imu task | `Imu/Imu_Logging.c` | ring of four blocks, `seqId`, handler's index, FIFO | set-up, block loop, record loop, `ShutdownHandler` |
| Battery task | `Battery/Battery_Logging.c` | ring of blocks, `seqId` | set-up, block loop, read loop |
| RTC counter | `Common/Common_Rtc.c` | the counter's registers, their latch and capture; a spin lock | `GetCount`, `GetCountByCapture` |
| PPS time stamps | `Gnss/Gnss_Pps.c` | ring of 32 stamps, expected edge, interrupt polarity | `Gnss_Pps_Init`, interrupt handler |
| Gnss task | `Gnss/Gnss_main.c` | handler's index, eventfd, ring of blocks | set-up, poll loop, `ShutdownHandler`; not started by `init.rc` |

How they interact:

- **Registration.** The logger and Imu register a handler with PowerCtrl, which
  makes them wait until the power button has been confirmed (`PowerReady`).
  Battery never registers.
- **Blocks.** Imu and Battery fill blocks in a ring and send the logger messages
  that point at them; the queue holds `MESSAGE_QUEUE_MAX` of them, the rings
  fewer. The logger writes each block and syncs the file.
- **Shutdown.** A long press makes the PowerCtrl task run
  `PowerCtrl_Shutdown`: with the table's mutex locked it calls every handler.
  The logger's sends SHUTDOWN into the queue (and may wait for room), Imu's
  writes to a FIFO that Imu polls. Imu sends its last block and END and
  notifies its stop; the logger, when SHUTDOWN and every END have been counted,
  closes the file and notifies its stop; the last notification wakes the
  PowerCtrl task.
- **Time.** Tasks on both CPUs read one counter in two halves, under a spin lock,
  to stamp their blocks; the PPS handler reads it by capture, without the lock.
- **Gnss**, started by hand, opens the queue and registers like Imu, and arms
  the PPS interrupt.

What makes each part correct, and what is hard about it:

- *Table*: a slot has one owner; a shutdown asks every registered task and
  waits for exactly those; no wake-up is lost. Hard because two CPUs race on
  one bitmap, because three error returns leave the mutex locked, and because
  handlers run under the mutex.
- *Button*: the task never reads the pin after start-up but flips a variable
  once per interrupt. One lost or doubled flip inverts the button for good.
- *Queue and logger*: the open count has to agree with the producers still to
  finish, although neither raising nor lowering it is one step with the queue
  operation it belongs to; the logger must stop after the last block and not
  before.
- *Rings*: nobody waits for a slot to be written before filling it again.
- *Blocks*: the CRC is fed piece by piece while polls time out and reads fail;
  it has to match what a reader of the block finds, and that has to be this
  block's samples. Hard because Imu's index and the block's size are two
  counters that part with the first time-out.
- *Counter and PPS*: a count put together from two registers must be one the
  counter really had; a handler that knows the edge only by counting its calls
  must not stamp a pulse twice.
- *Writer*: what was acknowledged survives a power loss, no boot or roll-over
  truncates an earlier file.
- *System*: the start-up order, the handlers and the two barriers (table and
  open count) together must neither lose samples nor lock up.

`PROJECT.json` lists every hazard with its line and the properties that cover it.

## 2. The modules

| module | models | role |
|---|---|---|
| `PowerCtrl` | `PowerCtrl.c` and the life of a client | component |
| `ShutdownBarrier` | what `PowerCtrl.c` promises | abstract specification |
| `PowerButton` | `PowerCtrl_main.c` | component |
| `Logging` | `Logging.c`, `Logging_main.c`, the rings | component |
| `LoggingWriter` | `Logging_Writer.c` over a card and power losses | component |
| `CardLog` | what `Logging_Writer.c` promises of the whole card | abstract specification |
| `SampleBlock` | `Logging_Buffer.c` and the loops that fill a block | component |
| `CommonRtc` | `Common_Rtc.c` over the counter's registers | component |
| `GnssPps` | the PPS handler of `Gnss_Pps.c` | composition with `CommonRtc` |
| `ImuLogger` | `init.rc`, `Imu_Logging_Run`'s set-up, all four tasks | composition of `PowerCtrl` and `Logging` |
| `GnssLogger` | `Gnss_main.c`, started by hand | composition with `ImuLogger` |
| `MCLogging`, `MCGnssPps` | symmetry set, channels of the callers | model checking |
| `PowerCtrlProofs`, `PowerButtonProofs`, `LoggingProofs`, `LoggingWriterProofs`, `SampleBlockProofs`, `GnssPpsProofs` | theorems on the module of that name | proofs |
| `ImuLoggerProofs` | theorems on `ImuLogger`, over those on its two components | proofs |
| `RingLemmas` | remainders: when two numbers share a slot of a ring; the least element of a set of numbers | lemmas |

Definitions carry the names of the functions they translate; when a function
takes several steps, its name is a prefix (`NotifyStop_Load`,
`NotifyStop_Store`). An operator marked *Mutant* is not part of any
specification: it is a plausible bug in the definition after it, and the
project checks that it breaks the property it is paired with in `PROJECT.json`.

### PowerCtrl

Steps end where another task can see or change something: at lock and unlock,
around a condition wait, and between the load and the store of the bitmap in
`|=` and `&= ~`. The last split looks redundant under a mutex and is not: three
error returns (`PowerCtrl.c:110`, `:119`, `:147`, `:152`) leave the mutex
locked. The kernel is configured with `CONFIG_PTHREAD_MUTEX_ROBUST`, so when
the task that did so exits, the mutex becomes inconsistent, every later
`pthread_mutex_lock` returns `EOWNERDEAD` at once, and, nobody looking at the
result, everybody walks into the critical section. `ownerDead` is that state;
the safety properties are stated up to it, and `PowerCtrl_leak.cfg` shows what
happens beyond it. `at[t]` is the task's place, `word[t]` its local copy of the
bitmap, `holder` the mutex.

With no slot free, `__builtin_clz(0)` is undefined: `SetShutdownCallback_Full`
chooses between the outcomes a compiler can produce.

### PowerButton

A delay has a step for its beginning and one for its end, by a post
(`DelayInterrupted`) or by the time-out (`DelayElapsed`); the return from
`Check1` and the write of PWR_EN (`ActivatePower_Confirm`,
`WatchPowerButton_Confirm`) come in a step after that. Between any two the
button may move and the interrupt may post, in the last delay and after it too:
such a post is taken by the next wait. `WatchPowerButton` runs in a critical
section, which holds interrupts off its CPU while the task runs; the model does
not rely on it. The hardware is external: the pin moves at any time
(`MoveButton`), the level interrupt fires when the pin has the programmed
polarity. LEDs are left out; `PowerCtrl_Shutdown`, which is module `PowerCtrl`,
is one step. *Assumption:* no interrupt stays pending through the whole of a
delay of 100 ms. `quiet` records that one was not pending at some moment of the
delay; where in the delay, and what comes after it, is open. `down` and `held`
record what `SwitchedByHolding` speaks of; the code keeps none of the three.

### Logging

A message of type WRITE is a pointer into a ring, so the model keeps the rings:
`slot[p][k]` is the `seqId` in the header of slot `k`. A block is read between
`WriteBegin` and `WriteEnd`, and `handed` records the `seqId` seen at either
end, which is how an overrun is observed. `openerAt` is the place of each
producer and of the task that runs `ShutdownNotify`. A step fills and sends a
whole block; how it is filled is `SampleBlock`. The tests for NULL and
empty messages (`Logging_main.c:71`) are left out, since no producer sends one.
The `callback` of an END comes from an uninitialised local
(`Imu_Logging.c:251-256`): with `"junkCallback"` in `Fault` it may be anything,
and the logger that calls it is lost.
A `poll` that fails before the first record of a block makes Imu send a slot it
has not filled (`SendUnfilled`): an old block goes to the card once more.

### LoggingWriter

The card is external: written data sits in a cache until `fsync` or `close`
succeeds, a power loss keeps a prefix of it whose last block may be torn, and
directories and file names are durable once created. Every call may fail, as
`Fault` says. A block is a record with its number and size.

`CreateDir` takes the first number whose `stat` says ENOENT. A `stat` that fails
otherwise makes it go on to the next number (`failing` in `FirstFree`, any set
of numbers), so a free number may be left behind, and a later boot may take it.
`passed` records such pairs: `<<x, d>>` when `x` was free and passed over as `d`
was made.

The module refines `CardLog`: the files of all directories, read in the order of
their numbers, are one log that grows only at its end and never loses what was
acknowledged. There is one exception, which `Precedes` states: a directory that
was passed over is read behind the one made instead. As long as no `stat` fails
but with ENOENT, `passed` is empty and the order that of the numbers. The log is a function from places on the card (a directory, a
file of it, an index in the file) to records, and `Before` is the order in
which the places are read. A step may add places only behind all there are
(`Continues`), and the blocks stand in the order they were handed over. The
mapping is `Contents`; that a directory or file made later comes behind all
others, over boots and failed calls, is exactly what the refinement checks.

### SampleBlock

One pass of Imu's record loop or one read of Battery's inner loop is a step. A
sample is its number in the order of delivery (0 is a zeroed record), so what a
block holds can be compared with what was read for it. The CRC is modelled by
what was fed to it, header, records and footer, in order; equal means equal
input. `Imu_TimeOut` moves Imu's index and not the size, `Imu_ReadFails` the
size too, as the code does; a poll that fails before the first pass leaves
`logdesc` at the previous block, or at NULL, and the block is finalised all the
same. `next`, `history` and `sent` are what the code keeps no record of. Imu and
Battery use separate buffers: `user` says whose behaviour it is. Battery's
device may return any number of samples that fit, including none, or an odd
number of bytes; `errno`, which decides what follows, is then whatever it was.

### CommonRtc and GnssPps

The registers are external: reading the upper half latches the lower one
(`GetCount_Post`), a capture request is completed by the hardware at some later
time (`Capture`). Every register access is a step, and the counter may tick
between any two. `lock` is the spin lock; `GetCountByCapture` takes none, and
only one handler per channel may call it (`CommonRtcAssumption`), as in the code.

`GnssPps` adds the handler. The pin moves at any time (`MovePin`), also while
the handler waits for the capture; the interrupt is a level interrupt whose
polarity the handler inverts. As no header declares `GetCountByCapture`, its
result passes through an `int` on its way into a `uint64_t`: `ThroughInt`.
`pulse` and `stamped` are ghosts: which pulse was stamped, and the whole count.

### ImuLogger

`PowerCtrl` and `Logging` are instantiated with the real tasks; a step of the
system is a step of one of them, or of both when a task calls one in the middle
of the other (the logger's registration, a handler run by the PowerCtrl task).
The module adds Imu's order of set-up: queue, registration, FIFO, sensor, each
of the last two of which may fail (`Imu_SetupFails`). A
FIFO opened `O_WRONLY` waits while nobody reads it, and fails when it does not
exist. `MoveButton` and the card are not composed: the long press is
`Main_Begin`, a write is the pair `WriteBegin`, `WriteEnd`.

### GnssLogger

`ImuLogger` with one more task. Three things in `Gnss_main.c` decide what it
does: `poll` is given one descriptor of two (line 373), so only the event wakes
it; the second one's `revents` is read without ever having been written; and
every way out of the loop is a plain `return`. The eventfd's number is used by
the PowerCtrl task, whose descriptors are its own: `Main_GnssHandler` leaves
open whether the write reaches Gnss. The code behind a position (lines 367-414
and 431-450) cannot be reached with a block to send and is left out. The module
serves the run `gnss`.

## 3. What TLC checks

| run | what it asks | bounds |
|---|---|---|
| `powerctrl_safety` | slots have one owner, a shutdown asks and awaits everyone, no lost wake-up, `PowerCtrl` implements `ShutdownBarrier`; a shutdown in which nobody dies with the mutex or abandons its slot completes | four tasks, two slots, any task may abandon its slot |
| `powerctrl_leak` | **violated**: every shutdown completes; finding 1 | three tasks, three slots |
| `logging_safety` | the open count is exact, the logger stops cleanly, END means all written | two counted producers of three blocks, queue of two, every failure |
| `logging_live` | how far an overrun goes; the logger stops | Imu and Battery, five blocks, ring of two, queue of one |
| `system_safety` | off means saved; a shutdown that begins once Imu has its FIFO completes unless the logger or Imu gives up | four tasks, every failure, queue of one |
| `system_window` | **violated**: a task whose handler was called has been told; finding 2 | as above, no failure |
| `system_refused` | **violated**: a shutdown waits only for registered tasks; finding 3 | as above, no failure |
| `gnss` | **violated**: a shutdown with Gnss in its loop completes; finding 4 | as above and Gnss, no failure |
| `button` | no drift, switched only after a check with the button held, a long press stops | ten moves, a check of three delays |
| `writer_safety` | durability, size, append-only, `LoggingWriter` implements `CardLog` | two boots, two directories, four blocks, every failure |
| `block` | a sent block's CRC is right; which samples it holds, in which order, and which are lost | blocks of three records, ring of two lapped twice, every failure |
| `rtc` | counts are instants of the call; pulses are stamped once, in order | two tasks on one channel and the handler, a lower half of two counts, counter up to 5, int of four values, two stamps, three pulses |

Why the bounds are enough:

- *Table.* Four tasks on two slots contain every relation of two tasks to a
  slot (same, other, none free), the highest-free-slot choice needs two, and a
  task that is refused can leave the mutex locked while three others go on. The
  proofs of section 4 remove the bound altogether.
- *Logging.* What can go wrong with a full queue goes wrong with one or two
  places; two producers are needed for an END to be followed by another's block.
  Three blocks make a ring of two wrap. In `logging_live` five blocks over a
  ring of two and a queue of one let the producer lap the logger by more than
  the bound of `OverrunBounded` if the queue did not hold it back.
- *System.* Queue of one and two blocks: the queue fills, both handlers can
  block, and each task meets the shutdown at every point of its life. Battery
  competes for the queue.
- *Button.* Ten moves and three delays put a bounce inside a check, several
  interrupts behind a delay, a release between a time-out and the write of
  PWR_EN, and a check after a cancelled one. The safety part is proved for any
  number of moves.
- *Blocks.* Three records let an index and a size part by one and by two before
  the end; a ring of two lapped twice leaves records of an earlier lap behind
  every position. Samples lost, foreign records and failed reads are all reached
  together in one block.
- *Counter.* With a lower half of two counts every second tick carries, so a
  carry falls between any two accesses; the counter leaves the range of the int
  (four values) and a third stamp wraps the ring of two.
- *Writer.* Two directories and two boots, after an initial card that may hold
  a directory already, reach "no number free" and a number passed over that the second boot takes;
  files of two or three blocks roll over at the limit and beyond it.

`SYMMETRY` is used in `logging_safety` only, which has no liveness property. Deadlock checking is off where tasks
come to rest: the program ends, or a task waits for a button or a queue that
nothing serves any more.

### Fairness

A task that is able to run does run: weak fairness of each task's steps. NuttX
serves the waiters of a queue or a mutex in order of priority and arrival and
all tasks have one priority (the default, in every `Makefile`), so a step that waits for room in the queue or for
the mutex has strong fairness. A pending interrupt is taken. Not fair, because
nothing makes them happen: a press of the button, the start of a program, and
any failure: that `poll` fails is never relied on to end a loop. In `PowerCtrl`
alone, a client whose handler was called notifies its stop; `ImuLogger` has that
as a consequence of the handlers' own code. `ShutdownCompletes` of `ImuLogger`
is conditional on `[]~Failed`, so that one run covers every failure: it speaks of
the behaviours in which the logger and Imu keep going.
`OrderlyShutdownCompletes` of `PowerCtrl` is conditional in the same way on
nobody dying with the mutex and nobody abandoning its slot. Neither condition
excludes a race. `SampleBlock`, `LoggingWriter` and `GnssPps` make no liveness
claim, and state no fairness: a device may stay silent for ever.

## 4. What is proved

For every value of the constants: any tasks, producers and readers, any number
of slots, button moves, blocks, ring places, queue places, pulses and ticks, and
any set of failures. The only assumptions are the named `ASSUME`s of the
modules (`PowerCtrlAssumption`, `PowerButtonAssumption`, `LoggingAssumption`,
`LoggingWriterAssumption`, `SampleBlockAssumption`, `CommonRtcAssumption`,
`GnssPpsAssumption`, `ImuLoggerAssumption`), and TLC evaluates each of them in a
run. That those of the components hold in the composed system is proved
(`PowerCtrlIn`, `LoggingIn` of `ImuLoggerProofs`).

Every safety invariant, action property and refinement that a passing run checks
is a theorem.

| theorem | says |
|---|---|
| `PowerCtrlProofs!TypeCorrect` | `PowerCtrl` keeps `TypeOK` |
| `PowerCtrlProofs!SlotsAreOwned` | `SlotOwnership` |
| `PowerCtrlProofs!ShutdownWaitsForAll` | `OffMeansStopped` |
| `PowerCtrlProofs!ShutdownAsksAll` | `EveryoneNotified` |
| `PowerCtrlProofs!NoWakeupIsLost` | `NoLostWakeup` |
| `PowerCtrlProofs!PowerCtrlImplementsBarrier` | `PowerCtrl` refines `ShutdownBarrier` |
| `PowerButtonProofs!TypeCorrect` | `PowerButton` keeps `TypeOK` |
| `PowerButtonProofs!ButtonNeverDrifts` | `NoDrift` |
| `PowerButtonProofs!PowerSwitchedByHolding` | `SwitchedByHolding` |
| `LoggingProofs!TypeCorrect` | `Logging` keeps `TypeOK`, the bound on the queue with it |
| `LoggingProofs!CountIsExact` | `OpenCountExact` |
| `LoggingProofs!StopIsClean` | `CleanStop` |
| `LoggingProofs!EndComesLast` | `EndMeansAllWritten` |
| `LoggingProofs!OverrunIsBounded` | `OverrunBounded`, as long as `poll` does not fail |
| `SampleBlockProofs!TypeCorrect` | `SampleBlock` keeps `TypeOK`: the size never exceeds the body |
| `SampleBlockProofs!SealedBlocksAreValid` | `SealedIsValid` |
| `SampleBlockProofs!EveryGapIsAccounted` | `GapsAccounted` |
| `SampleBlockProofs!SamplesAreInOrder` | `InOrder` |
| `LoggingWriterProofs!TypeCorrect` | `LoggingWriter` keeps `TypeOK` |
| `LoggingWriterProofs!FilesOnlyGrow` | `AppendOnly` |
| `LoggingWriterProofs!AcknowledgedIsDurable` | `Durable` |
| `LoggingWriterProofs!FilesAreBounded` | `FileSizeBounded` |
| `LoggingWriterProofs!WriterImplementsCardLog` | `LoggingWriter` refines `CardLog` |
| `ImuLoggerProofs!TypeCorrect` | `ImuLogger` keeps `TypeOK` |
| `ImuLoggerProofs!ImplementsBoth` | `ImuLogger` implements `PowerCtrl` and `Logging` |
| `ImuLoggerProofs!OffIsSaved` | `OffMeansSaved` |
| `GnssPpsProofs!TypeCorrect` | `GnssPps` keeps `TypeOK`: `head` stays in the array |
| `GnssPpsProofs!CountIsAnInstant` | `ReadsAnInstant` |
| `GnssPpsProofs!PulsesStampedOnce` | `OneStampPerPulse` |
| `GnssPpsProofs!TimesHoldTheLatest` | `LatestStamps` |

**The argument for PowerCtrl.** None of the properties is inductive: that two
tasks have different slots depends on the copy of the bitmap a task took a step
ago being the current one, which depends on who owns the mutex. `IInv` has the
chain in seven parts. `FlagsOfMain` ties the flags to Main's place;
`HoldsMutex` says that as long as no owner has died, a task between a load and
a store, and Main from the first handler to the wait, owns the mutex;
`FreshCopy` that such a task's copy of the bitmap is the bitmap; `Notified`
which clients Main has asked and which are left in its copy. The other three
are `SlotOwnership`, `EveryoneNotified` and `NoLostWakeup` themselves. Every
part but the first is under "no owner has died", which is stable the right way:
a death makes them void, and never comes undone. `IInvStep` has one case per
action. The refinement maps the bitmap and the tasks' places to the set of
members, Main's place to the phase; the abstract guards ("not a member",
"everybody asked", "nobody left") are exactly what `IInv` gives.

**The argument for PowerButton.** The parity of the posts not yet taken, the
task's idea of the button and the polarity of the interrupt are tied together
(`NoDrift`); every interrupt flips polarity and parity, every wake-up parity and
idea. `CheckMeansOn` says that a check is made with the idea "on"; so when no
post is left and no interrupt pending, the pin itself is down (`DownWhenQuiet`).
`QuietMeansDown` carries this through a delay: once there was a quiet moment
in it, either the button has been seen down in it, or there is a post, and
with a post a delay does not elapse. Hence each delay that does elapse counts
(`EachHeld`: `held` is `ticks` during a check), and a check that is confirmed has
`CheckTicks` of them. Nothing in this speaks of the pin at the time of the write.

**The argument for Logging.** The count is compared with a set, `Outstanding`,
that depends on the whole queue. `AllProper` says who can have sent a message
that is in the queue or in the logger's hands, and `Closing` where the logger
can be for which message. `Order` is the heart: END or SHUTDOWN is the last
message of its sender (`EndLast`), and as long as a message of an opener that
has finished is on its way, its END comes behind it (`EndFollows`). From it, an
opener is in `Outstanding` exactly while it owes the logger an END
(`OutstandingOwe`), so each step adds or removes at most one member, and
`CountSame`, `CountUp` and `CountDown` give the cardinality. A step that opens,
moves, writes or ends has the same shape for the producers and for the
notifier (`Shapes`), and is proved once. `CleanStop` follows: with the count at
0 nobody is outstanding, so nobody is in the middle of a block, and a message on
its way would have an END behind it, whose sender would be.

**The argument for the blocks of Logging.** A producer's blocks are numbered by
a running count through the queue: `before[j]` is how many of them have been
passed on once the first `j` messages and the one in the logger's hands are
counted. The count starts at the blocks written, ends at the blocks sent and
grows by one at each block (`Counting`), and a message points to the slot of its
own number (`Pointing`); the existence of such a count is the invariant, because
a step on either end of the queue only extends or shifts it, and no counting by
recursion is needed. An END is behind all blocks of its sender, the one in hand
included (`DescFollows`, `Order`), so when it is taken into account the two ends
of the count are equal: `EndComesLast`. For the rings, slot `n % NumBuffers` of
a producer that has begun block `n` holds `n` or a number some laps later
(`Rings`), and the write that is going on began with such a number (`Writing`);
the count bounds the distance by what the queue holds. A block sent unfilled
after a failed `poll` breaks `Rings`, hence the assumption
`"poll" \notin Fault`, which the run of `OverrunBounded` makes too.

**The argument for SampleBlock.** A block is `Unsealed` while its CRC is that of
its header and of the records that count. Beginning makes it so; counting
records feeds the CRC just those (`UpdatedUnsealed`, on concatenating
subsequences); storing samples keeps it so, because they land behind the size
(`Progress`: Imu's index is never behind it); finalising makes it `Valid`
(`FinalizedBlock`). `Filling` says that the block at hand has not been sent
since it was begun, so that no sent block is written to, and that the ring has
two places at least makes the next block a different one (`SlotsApart`).

**The argument for the counter and the stamps.** Between the two reads of
`GetCount` the reader has the spin lock (`HoldsLock`), so the latch is still its
own (`HalfRead`); once the request is completed the two captured halves are of
one instant, and only one handler per channel makes requests (`HalvesAgree`).
For the stamps, the expected edge and the polarity turn together, a pulse
whose rising edge is awaited with the pin up has not been stamped (`Unstamped`),
and no stamp is later than the start of the capture that is going on
(`StampedBefore`); that the ring holds the latest is arithmetic on remainders
(`RingLemmas`).

**The argument for the samples of a block.** `GapInv` speaks of every slot of the
ring and of the samples taken for it. What a slot held before a block was begun
is older than every sample of that block (`OlderThan`), so a record is either
the block's own or foreign, and never both. While Imu fills a block
(`ImuFilling`), the passes made are the records counted plus the time-outs; the
own samples stand in order, at passes already made; and each counted record is
either a sample taken or a failed read, so samples and failed reads together are
the size. Storing behind the size is how a sample gets lost, and the arithmetic
of the account follows: the samples kept and the records that are the block's
own are in bijection (`OwnAreKept`), and the samples lost map one to one into the
passes behind the size, which are as many as the time-outs (`LostAreLate`).
Battery has no time-out: its records are exactly the newest samples, in a row
(`BatteryFilling`).

**The argument for LoggingWriter.** `TypeInv` says why a new name is new:
a number left free below a directory was passed over (`GapsArePassed`), so that a
new directory comes behind all others (`NewIsLast`); the open file is the last
one made (`OpenFile`), and the next to be made comes behind all that are there
(`NextIsNew`), over boots and over calls that fail halfway. `creat` therefore
never meets a file, and `AppendOnly` follows. What is in the cache comes behind
what is on the card, and on the card blocks stand in the order they were handed
over, across files and directories (`CacheInOrder`, `CardInOrder`); a
block is acknowledged only after the cache went to the card (`NotYet`,
`Durable`). The refinement has the mapping `Contents` and three facts: `CardInOrder`
is `Log` (`CardHoldsLog`), whatever a flush adds lies in the last file behind
what it held (`LogContinues`), and a number passed over, or made in its place,
holds nothing at that time, so that files keep their order (`OrderStays`,
`PassedHoldsNothing`). A flush, whole, cut short or torn, is one lemma
(`PartOf`, `FlushedWith`) for all actions that have one.

`FileSizeBounded` is about a sum over a sequence. `WholeSize` is a recursive
function, and that it has a value, that it grows with the sequence and that
appending adds one weight is shown without induction over data: a set of lengths
at which the claim fails would have a least element (`Least` of `RingLemmas`,
from the well-foundedness of the numbers), and the step before it refutes that
(`SumExists`, `SumsCompare`, `SumsGrow`). `SizeKnown` then ties the sum to
`fileSize`: the open file with its cache never has more than `fileSize`, and a
block is started only below `MAX_FILE_SIZE`.

**The argument for ImuLogger.** Each step of the system is shown to be a step of
`PowerCtrl` or a stutter, and one of `Logging` or a stutter (`ImplementsBoth`);
all invariants proved of the two components hold in the composition without
being proved again (`Inherited`). What remains is how the two are tied, which
neither component knows: where the logger is in its loop against where it is in
the table (`LoggerPlace`), that Imu begins a block only when registered
(`ImuPlace`), and that the logger's handler runs in a shutdown only
(`MainPlace`). `Closed` is the heart: once the logger has left its loop, Imu has
ended with everything handed over, or will never begin, since a registration
would be refused, or has given up. The first case comes from `Logging`: the count
being 0, nobody owes the logger an END (`NoneOwes`), and an END comes last
(`EndComesLast`); that a shutdown has begun comes from `ShutdownIsSent`. From
`PowerCtrl` come that the table is empty when the shutdown returns, and that the
logger, having been notified, left it by its own `NotifyStop`.

**Only model-checked.** The four liveness properties (`ShutdownCompletes`,
`OrderlyShutdownCompletes`, `LoggerStops`, `LongPressStops`): they rest on
fairness and so on ENABLED, which the proof system does not reach. And the four
runs of section 5, which exhibit behaviours.

## 5. Findings

1. **A refused registration breaks the mutex** (`PowerCtrl.c:110`). The error
   return keeps the mutex locked. When the refused task exits, the mutex stops
   excluding; two `NotifyStop`s then load the same bitmap, one brings back the
   bit the other cleared, and the shutdown never returns.
2. **A shutdown just after Imu registered is lost** (`Imu_Logging.c:132`): the
   handler's FIFO is made later, so the handler's `open` fails and Imu is
   never told.
3. **Imu refused keeps its share of the open count** (`Imu_Logging.c:137`): it
   returns without END, the logger waits for it, and the shutdown waits for the
   logger.
4. **Gnss never lets a shutdown complete** (`Gnss_main.c:423`, "Exit
   gracefully"): told or not, it leaves without END and without
   `PowerCtrl_NotifyStop`.

More is visible in the models without a run of its own, because nothing written
promises the opposite or because the property states it as its exception:

- A FIFO or sensor that fails after registration makes a later shutdown hang
  (`Imu_Logging.c:145-185`; `Failed` in `ImuLogger`).
- On battery, PWR_EN is dropped before the shutdown has saved anything
  (`PowerCtrl_main.c:274`).
- A release in the last delay of a check, or just after it, does not cancel it:
  if its interrupt posts after the time-out, power is switched with the button
  up (`PowerCtrl_main.c:96`; `SwitchedByHolding` says "in each delay", not "at
  the write"). At start-up the post then ends `Check2` as a release should.
- A `stat` that fails while a directory is chosen passes over a free number; once
  a later boot has taken it, the numbers no longer tell the order of the logs
  (`Logging_Writer.c:71-87`; `Precedes` in `CardLog`).
- The comment of `Wait` has its two results the wrong way round
  (`PowerCtrl_main.c:109-110` against `:115`); its callers follow the code.
- A poll that fails before the first record of a block finalises the previous
  block again, which spoils the CRC of a block that may still be in the queue
  (`Imu_Logging.c:198`; `PollFailedFirst` in `SealedIsValid`).
- After a poll time-out a block holds records of an earlier lap, and loses its
  newest samples, under a valid CRC (`Imu_Logging.c:203`; `GapsAccounted` has
  the exact account).
- An odd byte count makes Battery send a short block or end, as a stale `errno`
  decides (`Battery_Logging.c:99`).
- The PPS stamps pass through an `int`: after 2^31 ticks, 18.2 hours at 32768 Hz,
  they are wrong (`Gnss_Pps.c:60`; `ThroughInt` in `LatestStamps`).

## 6. What is not modelled, and why

- `Logging_Buffer_Write`, `Gnss_Pps_SetTime`, `Gnss_Pps_main`, and all of
  `Imu_main.c` but its call of `Imu_Logging_Run`: nothing calls them.
- What Gnss does with a position (`Gnss_main.c:367-414`, `431-450`): `poll` never
  waits for one, and the loop is left before a block is sent.
- The settings of the IMU, of the GNSS receiver and of the ADC one by one: they
  succeed or fail as a whole, since every failure leaves by the same return.
- The time stamps in a block's header and footer: no code reads them.
- That two different contents may have the same CRC.
- LEDs, pin set-up, debug output, build files; `config.h` and the other
  generated headers under `.vscode`, which serve an editor.
- A second start of a program by hand from the shell.

## 7. Plan

Done, in this order: `PowerCtrl`, `ShutdownBarrier` and their proofs; `Logging`;
`ImuLogger`; `PowerButton` and its proofs; `LoggingWriter`; `SampleBlock` and
its proofs; `CommonRtc`, `GnssPps` and their proofs; `LoggingProofs`; `CardLog`
and the refinement; `GnssLogger`; the blocks of `Logging` in `LoggingProofs`;
`ImuLoggerProofs`; `LoggingWriterProofs`; the samples of a block in
`SampleBlockProofs`. In `LoggingWriter` and `CardLog` folds and concatenated
sequences were replaced by a function over the places of the card, which says the
same and can be reasoned about.

Next:

1. The safety halves of the liveness properties: that in `ImuLogger` no state is
   reached in which the shutdown waits and nobody it waits for is left to move,
   but by the failures that `Failed` names.
2. `Durable` and `OffMeansSaved` joined: `LoggingWriter` in the place of the pair
   `WriteBegin`, `WriteEnd`, so that "saved" means on the card.
3. `Logging_Buffer_Write` and the PPS time setting, should the program come to
   call them.

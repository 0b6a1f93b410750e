# A verification project for adi-bbp

adi-bbp puts an OFDM baseband (a Chisel design, `src/main/scala/baseband`) on a
Zynq board between the samples of an AD9361 radio and the processor's memory,
and gives it a Linux driver (`boot/baseband/baseband.c`), user programs (`sw/`)
and a link program between two boards (`adi-sw/`). The modules in this
directory model the parts of it that keep state, TLC checks them on small
instances, and TLAPS proves what matters most for all instances.

## Inventory

| part | state | operations | what is hard about it | what makes it correct |
|---|---|---|---|---|
| receive path of the driver: `read`, `mmap`, receive ioctls (`baseband.c`) | `baseband_rx_lock`, `baseband_rx_enabled`, DMA buffers, the calls in progress | `baseband_read`, `baseband_mmap`, `RX_CONF`, `RX_USE_BASEBAND`, `ALIGNER_EN`, `MAXCNT`, `CNTPASSTHROUGH`, `SKID_SET_OVERFLOW` | processes interleave between any two register accesses; some calls take the lock, others do not; a read programs the DMA before it has the lock; timeouts | captures are complete, aligned and undisturbed; configurations and mux settings are whole; calls return and give the lock back |
| receive hardware (`Baseband.scala` and libraries) | control registers, aligner counter, skid buffer, receiver chain, DMA transfer, memory | samples come in, words move on, the skid drains, the DMA stores | it runs on between the driver's writes | (the environment of the driver) |
| transmit path of the driver: `write`, `TX_ENABLE`, scratch memory, `DMA_SCRATCH_TX` | memory-to-stream DMA registers, a static bus address, TX enable registers | `baseband_write` and four ioctls | no lock at all; shares `DMA_EN` with reads, which turn it off before they wait for theirs | each write sends its own buffer, once |
| driver lifecycle: `probe`, `remove`, open files | mapped registers, memory region, class, device, character device, references on the module | insmod, probe ladder, remove, rmmod, unbinding by hand, open, release | a failure at any rung, some of them unnoticed; removal under open files | what was acquired is released, once, and a call always finds its registers |
| transmit hardware: scheduler, `TimeGate`, TX enables, Gold sequence | gate time, counters, enables | register writes, clock ticks | a 64-bit time written through a 32-bit field | samples leave when they should |
| client library and test program (`sw/baseband.c`, `baseband_test.c`) | none | one wrapper per ioctl | they trust returned values | they report what failed |
| OFDM encoder (`sw/tx.c`) | an encoder state per call | header packing, tail-biting convolutional code, pilots, modulation, cyclic prefix | index arithmetic on packed bits | frame layout and code as specified |
| inter-board link (`adi-sw/xcomm2ip.c`, `xcomm2ip_m.c`) | send and receive counters, mailbox registers, a message queue | send, retransmit, receive, acknowledge | loss, repetition, restarts of one side | messages arrive once and in order |
| IIO streaming (`sw/iiostream.c`) | library handles, a stop flag | set-up, streaming loop, shutdown, signal | failure half way through the set-up, from where shutdown is called; a signal at any time | everything is closed once, nothing is used after that, and no capture is taken on an untuned radio |
| test bench (`ip/cocotb`, `ip/baseband_test.sv`) | queues of samples | drivers, monitors, a channel model | - | (test code, not modelled) |
| builds, device trees, constraints, FFT, `rx_conf.c` | - | - | - | not modelled: generated, third-party, board description, or (rx_conf.c) does not compile |

The parts meet in these places: user programs call the driver through ioctl,
read, write and mmap; driver calls interleave on the registers they share, and
only some of them take `baseband_rx_lock`; the driver and the hardware meet in
the registers, in the skid buffer's and the DMA's counters it polls, and in the
memory behind the DMA buffers; receive and transmit calls share `DMA_EN`.

## Modules

**RxHardware** - the environment of the driver. One variable per register group
(`reg`, `sel`, `rxConf`, `s2mReg`) and per block (`cnt`/`aligned` the aligner,
`skid`/`skidOvf` the skid buffer, `chain` timeRx and freqRx together with the
width adapter, `s2m` the transfer, `mem` the memory). The wiring, and so which
path a sample takes under which mux setting, is that of `Baseband.scala`
lines 99-158. The blocks are library code that is not in the repository; each is
modelled by what the driver and `sw/baseband_test.c` rely on: the aligner lets
samples pass from a count of zero on, a disabled skid buffer takes nothing and
drains when told to, a full one sets its overflow bit and drops, the DMA counts
words down while `DMA_EN` is set. A word in flight is the aligner's count when
the sample came in; the value of a sample is abstracted away.

**BasebandDriver** - the receive calls. A step is one register access, one turn
of a polling loop or one kernel call; `pc[t]` names the statement thread `t` is
about to execute, and `buf`, `size`, `arg`, `kbuf`, `idx` are the calls' local
variables. Read: `ReadAlloc`, `DmaOff`, `SetBase`, `SetLength`, `LockRead`,
`AlignerOff`, ... `UnlockRead`, `CopyAndFree`, in the order of the code, with
`TransferTimeout` and `FreeTimedOut` for the timeout path, which does not
unlock. `RX_USE_BASEBAND` and `RX_CONF` likewise; the ioctls without a lock are
the disjuncts of `Poke`; `mmap` programs the same DMA. The two back-to-back
reads of the remaining count in the polling loop are one test, made when the
second of them happens. Threads have roles (`Readers`, `Tuners`, `Pokers`,
`Mappers`), which may overlap, so that an instance can choose which calls
compete.

**RxService** - what the receive interface promises: path and configuration
each change in one step and as a whole, and neither changes during a capture.
`BasebandDriver` implements it (`ServiceSpec`): a change of path takes effect at
the first mux write of the call that owns the lock, a configuration at its first
register write, and a capture lasts from `mutex_lock` to `mutex_unlock`.

**TxPath** - the transmit calls, none of which takes a lock, in the same style:
`write()` (`WriteAlloc`, `CopyIn`, `WriteDmaOn`, ... `WriteFree`), `TX_ENABLE`
(`EnableWrite`, `EnableRead`, one register each), `DMA_SET_CYCLE`,
`SCRATCH_WRITE`, `DMA_SCRATCH_TX`. Of a read it has what these calls notice: it
turns off the `DMA_EN` both directions share (`ReadPause`), waits for
`baseband_rx_lock` (`ReadLock`), drains the skid buffer and turns `DMA_EN` on
again (`ReadResume`), and gives the lock back (`ReadEnd`) or, timing out, keeps it
(`ReadTimesOut`). `dbuf` is one variable
for all calls because it is `static` in the code. `DmaSend` is the
memory-to-stream half of the DMA together with the two multiplexers in front of
the DACs (`Baseband.scala` 364-390). `air` records what each DAC sent, `promised`
what the write()s that were begun should make it send; the time gate between
them is open, since nothing sets its EN register.

**XcommLink** - two boards that run `xcomm2ip`, each fed by `xcomm2ip_m` through
a message queue. `pc[b]` names the part of main()'s loop: the receive mailbox is
looked at (`NothingReceived`, `ReceiveAck`, `ReceiveData`), something is sent or
not (`SendAnswer`, `SendNext`, `SendAgain`, `NothingToSend`), and the radio is
waited for (`PacketTaken`, or the program stops). `Enter` and `CloseConsole` are
the other program. Mailboxes and radio are hardware: a packet in the transmit
mailbox arrives at the peer or is lost, and is lost too if the peer has not
emptied its mailbox. `Faults` selects what else goes wrong: an interrupt, a
radio that is stuck, the uninitialized message that a turn without a message
copies, and the console closing. The length of that message may be anything
(`CopiesGarbage`): the copy stays in the array (`NothingToSend`), runs off it and
ends the program (`Overrun`), or overwrites the other variables of main() with
anything (`Overwrite`, at the boards in `Corrupted`). After that the garbage may
go out as a message, whose length may end the program that prints it
(`PrintOverrun`), and `tx_msg_index` may be neither 0 nor 1 (`Astray`,
`SendNothing`). `Start` runs a program (again), with the counters at zero.

**MessageLink** - what the link promises: what is typed at one board is printed
at the other, once and in order. `XcommLink` implements it with its own `typed`
and `printed` (`LinkSpec`; `LinkFairSpec` with fairness: everything typed is
printed in the end).

**ConvCoder**, **SymbolMapper**, **Encoder** - `encode()` of `sw/tx.c`.
`ConvCoder` is `cc_encode_tb`, one loop iteration per step (`Seed`, `Body`,
`BiteTail`), with `next_in_bit`'s read behind the frame as a choice of what is
there. `SymbolMapper` is `modulate`, `add_pilots`, the transforms and the cyclic
prefix. A sample is what it is made of (a data point with its number, a pilot, a
time sample); the FFT is not interpreted. `Encoder` packs the header, runs the
one, overwrites its result with 0x66 as the code does ("TODO REMOVE (DEBUG
ONLY)"), and runs the other.

**DriverLifecycle** - the module in the kernel. `doing` and `at` say whether
probe, its error labels or remove are at work and at which of the six things
that probe acquires; the tables `ProbeOrder`, `FailureLabel`, `UndoOrder` and
`RemoveOrder` are the order of the statements. `Acquire`, `FailNoticed` (the
code's test finds a failure and jumps to a label) and `FailUnnoticed`
(`class_create`, `device_create` and `cdev_add` report failures by values the
code does not test for, and probe goes on) are what one kernel call may do;
where the test of the code can never hold in a real kernel (`class_create`
returning NULL) `FailNoticed` takes it at its word. `device_destroy` of a class
that is an error pointer kills its caller (`Die`). Around it: `Insmod`,
`Register`, `InitReturns` (which does not look at the result), `Bind` and
`Unbind` through sysfs, `Rmmod`, `Unregister`, `Unload`; and the processes, whose
descriptor, mapping and call in progress each hold the module (`Pins`).

**IioStream** - the capture program. `at` is the libiio call that main() or
shutdown() makes next, `done` the handles that are set, `released` those given
back. A call of the set-up succeeds (`Succeed`), or fails into `ASSERT`
(`Abort`) or into shutdown() (`Refused`); then `Loop`, `Refill`, `Save`; `Release`
is a statement of shutdown(). `Signal` may come at any time.

**MCBasebandDriver**, **MCEncoder** and the `.cfg` files - instances for TLC.

**BasebandDriverProofs**, **CaptureProofs**, **RxServiceProofs**,
**XcommLinkProofs**, **TxPathProofs**, **EncoderProofs**,
**DriverLifecycleProofs**, **IioStreamProofs** - see Proofs.

Operators named `...Forgotten`, `...Unchecked`, `...Inverted` and the like are
slips used to check that the properties notice them (the mutation checks of
PROJECT.json); no specification uses them.

## Runs

| run | instance | question |
|---|---|---|
| `config` | two threads that tune; one of them also reads and may time out, the other also calls mmap and the ioctls without a lock; 2 configuration registers, one buffer | Does the lock keep configurations, mux settings and captures whole, whatever the calls without a lock do? (`TypeOK`, `HoldsLock`, `ConfWhole`, `MuxAgree`, `BreakBeforeMake`, `QuietCapture`, `ServiceSpec`) |
| `captures` | a reader of sizes 4 and 9 beside a thread that switches paths, three words of memory, skid depth 2, aligner period 2, fair, no timeout | Is what a read returns complete and aligned, whichever path was selected before, and does every call return? (`CaptureComplete`, `CaptureAligned`, `NoDanglingDma`, `LockReleased`, `CallsReturn`) |
| `transmit` | one writer, two readers that pause the DMA, take the lock and may time out, one buffer, sizes 4 and 7, 0 and 1 repetitions, one mask (the second DAC alone), fair | Is what is written sent, whole, in order, by the DACs that were enabled, and does every call return, as long as no read waits for a leaked lock? (`ReadsLiveMemory`, `OnAirAsWritten`, `CallsReturn`) |
| `lossy_link` | both boards type up to 2 messages of 2 texts, every fault, no restart, nothing overwritten | Is each message printed once and in order? (`AckedIsPrinted`, `OneOutstanding`, `AckedMessagePrinted`, `LinkSpec`) |
| `link_faults` | one board types one of 2 texts, both programs are started up to twice, one has its variables overwritten, packets get lost, a radio is stuck | Can restarts, lost packets and overwritten variables make a board print what its peer did not fetch? (`TypeOK`, `PrintedWasFetched`) |
| `link_delivers` | one board types up to 3 messages, packets get lost, fair | Is each message printed in the end? (`LinkFairSpec`) |
| `encode` | the real sizes (24 bytes, 64 points, 3 symbols), a code of 9 bits, 2 payloads, headers that use every bit of every field, no, 2 and 8 pilots | Are header, code, pilots, data and prefixes where they belong? (`HeaderWhole`, `BodyIsCode`, `OutputFits`, `PilotsInPlace`, `DataInOrder`, `SymbolsWithPrefix`) |
| `lifecycle` | two processes, every kernel call may fail | Is everything released, nothing acquired twice, the module never unloaded in use, and no call without registers? (`RegistersMapped`, `ModuleInUse`, `AllReleased`, `AcquiredOnce`) |
| `iio` | every library call may fail, a signal at any time, fair | Does iiostream clean up whatever fails, save only tuned captures, and end? (`UsedWhileLive`, `CleanExit`, `CaptureTuned`, `Terminates`) |
| `two_readers` | two readers | They do not get along: see Findings |
| `lock_leak` | a reader that times out, a tuner | The lock is lost |
| `two_writers` | two writers with a buffer each | One sends the other's buffer |

Bounds. Two registers are enough for a configuration to be torn, and one word of
memory for a read to end; the `captures` run has three, so that an aligner
period of 2 wraps within a capture and a skid buffer of depth 2 is smaller than
the longest capture and overflows; sizes 4 and 9 are a whole number of words and
one that is rounded up. Two threads in `config` let one own the
lock while the other waits or writes registers without it; the proofs cover any
number. `LenMod` and `WaitMod` stand for 2^32, `TimeoutTurns` for 1000000.
`MaxCalls` bounds the calls that send something (two let one follow on the
other); `TX_ENABLE` is not bounded. In the link `CountMod` stands for 2^32: with
2 the counters wrap at once, and the protocol needs no more. `MaxTyped` bounds
what is typed at a board, `MaxStarts` how often its program runs, and `MaxPrinted`
until which number of printed lines variables are overwritten, which could
otherwise repeat a message for ever: two, so that it happens before and after a
first line is printed. Variables are overwritten at one board only; the proof
covers both. Nothing in
`lifecycle` and `iio` is bounded but the number of processes: two let one keep
the module while the other comes and goes. Deadlock is not checked where the
system may stop for good: in `lossy_link` and `link_faults` (both programs
stopped), `lifecycle`
(the kernel thread that probes or removes was killed) and `iio` (the program
ended). `Finished` stands for an `encode()` that has returned.

Fairness (`FairSpec`). Weak fairness of the hardware's steps (samples keep
coming, the skid drains, the DMA stores) and of every thread inside a call: the
kernel schedules runnable threads. Strong fairness of taking the lock: a kernel
mutex queues its waiters and hands over, so nobody is passed over for ever.
Nothing forces a thread to begin a call, and no fairness is assumed of timeouts:
`captures` has `CanTimeout = FALSE`, because a read that does time out keeps the
lock (finding 2) and no call after it returns. In `TxPath` the threads inside a
call are weakly fair, as long as nothing holds them up: the step that turns
`DMA_EN` on again only comes after the read has the lock, for which the mutex is
strongly fair, and a capture either completes or times out. A read that times out
keeps the lock, and then the next one waits for ever, with `DMA_EN` off, and any
`write()` with it: `CallsReturn` excepts the behaviours that end so
(`ReadBlocked`), and them only. The DMA is strongly fair because readers may
pause it over and over. In `XcommLink` the
programs and the radio are weakly fair, and the air is strongly fair for each
kind of packet: it may lose any number of them, but not all data packets or all
acknowledgements from some time on. In `IioStream` main() is weakly fair: every
call of libiio returns, because a refill has a timeout and fails when no samples
come. `Lifecycle.cfg` checks safety only and needs no fairness.

## Findings

1. `two_readers`: base and length of the DMA are written before the lock is
   taken. A second read overwrites the base of the first, whose samples then go
   to the other buffer; the first read still returns success. (The same lines
   switch the DMA off under a read in progress, and the second read then waits
   for a lock whose owner waits for the DMA.)
2. `lock_leak`: the timeout path does not unlock. The next read waits for the
   lock with `DMA_EN` off, so that a `write()` then polls without end: that is
   the exception `ReadBlocked` of `TxPath`'s `CallsReturn`.
3. `two_writers`: `write()` keeps its bus address in a static variable. A second
   write allocates between the first one's allocation and its use, and the first
   reports success for samples it did not send.

Met while modelling, without a run: the coder's last iterations output before
they update, take their bits from behind the frame, and with few taps never reach
the remembered first state (`sw/tx.c` 160, 175-190), so the last pairs are not
those of a tail-biting code; `encode()` overwrites them with 0x66 in any case.
`TX_ENABLE` writes for every argument, though its comment (`baseband.c` 511) says
that one above 1 only reads. A failed probe keeps the memory region and the
mapping for good, so that no later probe gets past the region (`AcquiredOnce`
says that this at least keeps it from mapping twice). Unbinding the driver by
hand under an open file leaves calls without registers, which is why
`RegistersMapped` excepts such files (`late`). A program of the link that is
started again counts from zero, while its peer remembers the last number it saw
and may have an old packet on its way: it may take the first new message for
that old one and acknowledge it without printing it, and the sender may take an
acknowledgement of the old message for that of the new one. Nothing in the
repository promises delivery across a restart (`xcomm2ip.c` 149 only asks for
one), so this is no finding; the properties about delivery are of programs that
run once, and `PrintedWasFetched` says what holds all the same. With eight pilots a
symbol carries 56 points, and of the 192 points 24 get no place in the three
symbols that are sent (`sw/tx.c` 331, 353): `DataInOrder` is about the places
`add_pilots` fills.

## Proofs

`BasebandDriverProofs` and `RxServiceProofs` are checked by TLAPS for every set
of threads in every combination of roles, any buffers, sizes, queue depths and
number of configuration registers, with and without timeouts, under the two
assumptions the modules state about their constants (`HardwareAssumption`,
`DriverAssumption`: types, and that the "nobody" and "no buffer" values are not
threads or buffers).

The inductive invariant `IInv` has four parts. `TypeInv` is `TypeOK` together
with `BufferOwned` (a read in progress owns its buffer): without it nothing says
that the address a read gives the DMA is that of a buffer. `HoldsLock` is
inductive given types: every step takes the lock, drops it or keeps it
(`LockEffect`). `MuxInv` and `ConfInv` say how far a switch or a configuration
in progress has come: that is what makes `MuxAgree` and `ConfWhole` true again
when it ends, and what `BreakBeforeMake` needs in the middle. That nobody else
interferes in between is `HoldsLock` again (`OneUnderLock`). The action
properties and the refinement follow from `IInv`: a step either touches nothing
the mapping of `RxService` looks at (`Invisible`, `StepKept`) or is one of the
eleven steps taken one by one.

`CaptureProofs` goes on to what a capture returns. `LockGivenBack` needs only that
no read times out (`NoTimeouts`; `lock_leak` shows what happens when one does).
The other theorems assume a lone reader beside any number of threads that tune
(`LoneReader`: one thread in `Readers`, no timeout, nobody who maps or writes
registers without the lock; `two_readers` shows why), and, for what is captured,
that the sizes fit the length register (`FitsLength`). The invariant of
`TransfersStayInBuffers` says that a transfer in progress belongs to a read that
waits for it (`NobodyElses`) and, statement by statement of that read, what base
and length say and which words are written (`DmaInv`). For `CapturesComplete` and
`CapturesAligned`, `QuietInv` says that aligner and skid buffer have been emptied
when the DMA starts, and `AlignInv` that from there on the words stored, those in
the skid buffer and the aligner's counter continue each other (`InLine`), unless
the buffer has reported an overflow.

`XcommLinkProofs` proves of the link, for any texts, counter width above 1,
number of messages and faults: types (`LinkTypeCorrect`) and that a board prints
what its peer fetched or garbage (`LinkPrintedWasFetched`), however often programs
are restarted and whatever their variables are overwritten with; and, of programs
that run once and have nothing overwritten (`MaxStarts = 1`, `Corrupted = {}`,
stated in each theorem), that what is acknowledged was printed (`LinkAckedIsPrinted`,
`LinkOneOutstanding`, `LinkAckedMessagePrinted`) and that the link implements
`MessageLink` (`LinkImplements`). The invariant says what the packets on their
way can be: `DataInv` that data packets carry the message being sent or one the
peer has seen, `AckInv` that an acknowledgement with the current number means
that this very message was printed, `PrintedInv` that what is printed is what
was taken from the queue, but for the last message at most, and `LoopInv` what
the program knows at each place of its loop. Two numbers that are told apart are
enough because at most one message is outstanding, which is why the width of
the counters does not matter. `FetchedInv`, which needs neither proviso, follows a
text instead of a number: in the message, the packets and the mailboxes of a
board, data is what that board fetched, and stays so as it fetches more
(`KnownStays`).

`TxPathProofs` proves types for any number of threads, and of a single writer
(`OneWriter`, stated in each theorem) beside any number of readers that the
static `dbuf` is its own (`TxOwnAddress`) and that the DMA reads no freed buffer
and none past its end (`TxReadsLiveMemory`). The invariant follows a call from
register to register (`ProgramInv`) and says that a transfer from a buffer is
that of a `write()` that waits for it (`TransferInv`): neither scratch transfers
nor the steps of reads (`ReaderFrame`) change that. `two_writers` shows that `OneWriter` is needed.

`TxOnAirAsWritten` adds that the length register can hold the sizes (`FitsLength`).
Between a full buffer and the end of its transfer (`Sending`), a `write()` owes the
enabled DACs as many words as the DMA has still to send (`Owed`, `Due`), from the
DMA's offset on (`NextOff`). `AirInv`: what a DAC has heard begins what it was
promised, and the rest is exactly the owed words, their offsets modulo the length of
the message. It needs to know that the multiplexers are set as `TX_ENABLE` reports
(`EnableInv`), that the filled buffer holds the message (`PayloadInv`) and that the
transfer under way is the one `write()` asked for (`RoundInv`). Each word the DMA
sends turns the first owed word into a heard one (`AirStep`); at the end of a round
the offset wraps (`Wrap`).

`EncoderProofs` takes `encode()` for any length of the frame, generators, length
of the code up to the sixteen bits of `constraint_t`, transform, prefix and layout
of the pilots; bytes have eight bits and a point two, as in the code.

- `CoderInv` counts the bits read and written at each iteration of the coder's
  three loops; `CodeFits` follows.
- `EncodeInv` says which bits they are. `SourceInv`: the current byte holds the
  bits of the frame that are still to be read, and the shift register the last
  sixteen that were, the latest lowest; `CodeInv`: every pair of bits written for
  the body, in a complete byte or in the one being filled (`BitOut`), is the code
  of its bits. That a step keeps this (`WindowMoves`, `OutStep`, `CodeStep`) rests
  on what `update_state` and `next_out_bits` do to single bits (`UpdateBits`,
  `PushBits`), and those on quotients of powers of two (`HighBits`, `DivTwice`).
  The result is `CodeIsConvolution`. `FrameInv` says that the frame begins with
  `Header(info)`; the bits of that are those of fields put side by side
  (`FieldBits`, `JoinBits`), so `HeadersWhole` is a table of 32 cases in four
  groups.
- `MapperInv` is that of the mapper's four loops: while pilots are put in, those
  before the next one are behind it and the others still to come in this symbol,
  or all are behind and the next is the first again (`Behind`), which with `pos`
  in increasing order (`tx.h` 30) puts each pilot at its place (`PilotsPlaced`);
  while symbols are transformed, the ones before `mapCount` are time samples;
  while they are sent, `samps` holds `mapCount` whole ones (`PrefixesPlaced`).
  Under it `DataInOrder` is inductive as it stands (`DataStaysInOrder`).
- `EncoderTypes` combines them with the bounds of the arrays (`SizesInv`).

`DriverLifecycleProofs` proves all five invariants of the lifecycle for any set of
processes. The invariant ties `held` to the statement the driver has come to:
`HeldProbing`, `HeldUndoing`, `HeldRemoving` and `HeldIdle` bound it by what was
acquired before a statement of probe (`Acquired`), by what is left to release at
a label (`ToUndo`) or in remove (`ToRemove`), and by what a failed probe leaves
(`Leak`). `Nested` and `NothingTwice` say why the region, which is exclusive,
protects the rest. `WhenBound` and `Mapped` relate the pointer to the registers
to what is bound; `Users` says that a process that uses anything keeps the module
loaded and, unless it is `late`, has a bound driver that nobody is removing. That
remove never begins under such a process needs the look at the references that
`Rmmod` takes before any `Unregister`.

`IioStreamProofs` proves the four safety properties of iiostream. The invariant
numbers the calls of the set-up (`Rank`): what is done is exactly what comes
before the next call (`SettingUp`), the loop has everything (`Capturing`), and
shutdown() has given back exactly what its earlier statements are for
(`ShuttingDown`), whatever point it was called from.

Only model-checked: liveness (`CallsReturn`, `LinkFairSpec`, `Terminates`), which
is out of the prover's reach. Every invariant and action property that a passing
run checks is stated by a theorem; `LinkFairSpec` is proved without its fairness
(`LinkImplements`).

## Plan

1. (done) RxHardware, BasebandDriver, RxService, their runs and proofs.
2. (done) XcommLink against MessageLink, its runs and proofs.
3. (done) TxPath, its runs, types and the single-writer proofs.
4. (done) ConvCoder, SymbolMapper and Encoder, their run and proofs.
5. (done) DriverLifecycle and IioStream, their runs and proofs.
6. (done) Proofs about captures: CaptureProofs.
7. (done) `OnAirAsWritten` for a lone writer; the code's and the header's bits, the
   order of the points and the types of the encoder.
8. TimeGate, once the code sets its EN register.

## Not modelled

Sample values and signal processing (the FFT, the conversion to fixed point and
its overflow, the preamble tables); `SCRATCH_READ` and `TEST_PLUS_ONE`, which
change nothing another call depends on; the wording of messages; memory ordering
between the CPU and the device (the driver's `rmb`, `wmb`, `mb` are taken to do
their job); kmalloc failing in `RX_CONF` (an allocation of 44 bytes, unchecked in
the code); reads of zero bytes, which the DMA allocator refuses; and the parts
PROJECT.json lists as `not_modelled`. The test bench's channel model
(`ip/cocotb/ChannelModel.py`) is test code; its delay line pushes and pops at the
same end of its queue and so does not delay.

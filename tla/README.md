# stream1090 in TLA+

stream1090 reads IQ samples from an RTL-SDR, an Airspy or standard input,
resamples them, decodes Mode S frames and writes these to standard output and
to TCP clients. This directory holds TLA+ models of its parts, TLC
configurations that check them on small instances, and theorems proved with
TLAPS. Every definition of a module is translated from the source;
`PROJECT.json` names the lines ("map"), the runs, the hazards and the theorems.

## Inventory

| Component | State | Operations | Modelled in |
|---|---|---|---|
| `SpscFrameQueue` | slots, two atomic indices | `tryPush`, `tryPop` | `SpscFrameQueue`, `BoundedFifo` |
| `RingBufferAsync` | samples, count of full blocks, shutdown flag, one mutex and condition variable; each side's position and copy of the count | `write`, `finishLastBlock`, `eof`, `process`, `shutdown` | `RingBufferAsync`, `BlockPipe` |
| `main`, `MainInstance`, `ProcessSignals` | three atomic flags, attempts, the result of a run | select, run, watch, recover, exit | `Supervisor`, `ServerStart` |
| Command line | words, settings | parse, check, choose format and filter | `CommandLine` |
| Selection of a unit | units on the bus, configuration | choose, resolve rates, try to open | `DeviceSelection` |
| `RtlSdrDevice` | handle, shadow settings, histogram, PPM window, three threads | open, start, stop, setters, maintenance, gain loop | `Supervisor`, `DongleOpen`, `RtlTuner`, `AutoPpm`, `AdaptiveGain` |
| Vendored driver | transfers, `async_status`; registers of the tuner and their copy | open, tune, read, cancel, close; I2C transactions | `DongleOpen`, `RtlsdrAsync`, `R82xxTuner` |
| `AirspyDevice` | handle, shadow settings | the setters, open, start | `AirspyDevice` |
| `InputDeviceBase`, `SampleDropEventGate` | baseline, deficits, events of a minute | `writeDataToBuffer`, `takeSampleDropEvents` | `SampleClock` |
| `TcpOutputServer` | frame queue, listeners, clients with buffers, control pipe | `start`, `tryPublish`, worker loop, `stop` | `ServerStart`, `TcpOutputServer` |
| Readers, `IQPipeline`, filters | tiles, history of taps | convert, flip, remove DC, filter | `IqPipeline` |
| `SampleStream`, `BlockRing`, samplers | rings of blocks, count of blocks since a flush | resample, compare, look back, flush | `SampleStream` |
| `DemodCore`, `ICAOCache` | address table with times to live, candidates, memory of copies | one bit in, at most one frame out | `DemodCore`, `IcaoTable` |
| Altitudes of replies | none | decode | `AltitudeCode` |
| CRC tables, `ErasureRepair` | hash tables, linear system | build, look up, solve, guess | `BitRepair` |
| Encoders and writers | line buffer | encode, write, flush | `FrameOutput` |
| `Stats`, `Metrics`, `MetricsServer` | window, totals, registry, one thread | count, fold, publish, answer | `MetricsService`, `ServerStart` |

How they interact: a device thread (a callback of the driver) writes samples
into the ring; the main thread runs the pipeline: it takes blocks from the
ring, filters and resamples them, decodes and hands frames to standard output
and, through the frame queue, to the TCP worker. The watchdog thread looks at
the device every 200 ms, carries out the maintenance of the tuner and ends a run
whose device has been silent for a second or drops too many samples. A thread
of the device moves its gain, one answers scrapes. `main` decides from the flags
and the result of the run whether to exit, to select again or to recover.

What is hard: the indices of the lock-free queue; one condition variable
signalled by `notify_one` for two sides with stale local counts; five threads
that share three flags with no order between them; workers that match poll
results to clients by position, and partial sends; an address table swept one
entry per tick whose entries are used between expiry and sweep; shadow copies of
settings that calls fail to make; measurements that are reset while they are
taken; transfers that end while they are cancelled; look-backs across a ring. The
hazards are listed at their lines in `PROJECT.json`, each with the properties
that would catch it going wrong and a note on what they leave out.

## Modules

Each module begins with what it stands for; here is what it abstracts and what
its properties say.

### SpscFrameQueue, BoundedFifo

`SpscFrameQueue` splits `tryPush` and `tryPop` at each access to shared memory.
An acquire load may return any index between the one the thread saw last and the
latest one (`readSeen`, `writtenSeen`). A frame is copied as two words, so that
a torn copy would show. The indices are unsigned and wrap at `WordSize`
(`size_t` in the code). `NoSlotRace`: no thread is in a slot the other is in.
`ImplementsFifo`: the queue refines `BoundedFifo`, where pushing and popping are
atomic; liveness included: a consumer that polls gets every frame.

### RingBufferAsync, BlockPipe

Each critical section of `m_mutex` is a step, as is what a thread does on its own
between two of them. The condition variable is the set of sleeping threads;
`notify_one` wakes any of them, `SpuriousWakeup` one of them for no reason. A
notification is a step of its own, because the code notifies after unlocking.
Elements are numbered in the order `write` is given them. `ReaderLeaves` is the
end of the pipeline on a shutdown request (`InputBufferReader::eof`).
`NoOverwrite`, which is proved: the writer, with its stale count, never touches an
unread block.
`NoLostWakeup`: why `notify_one` suffices. `StreamOrder`: the reader sees the elements
in order, and one is missing only after a shutdown. `ImplementsPipe`: the ring refines
`BlockPipe`, a bounded queue of blocks that is closed once and then drained.
`NobodyStuck`: nobody waits for ever.

### Supervisor

The main thread (`mpc`), the watchdog (`wpc`), the reader thread of the device
(`dthread`), signals, and an environment that plugs, unplugs or silences the
device (`hw`). The flags are stored and cleared one by one, as in the code:
`handle_sighup` stores two, the watchdog on a loss five. Time is one bit,
`quiet`: more than a second since the last samples. `Stalls` says whether the
host may hold up a thread for so long. The ring is one block deep here.
`NothingLeftBehind`, `ReaderGoneBeforeClose`: what a run leaves when it ends.
`EndToldOnce`: `main` takes the result of a run for a loss exactly when that
run's watchdog declared one, the request that ended a run does not end the next,
and the process exits with 0 only after a signal. `SilenceEndsRun`,
`ComesToAnEnd`: liveness.

### CommandLine, DeviceSelection, ServerStart

`CommandLine` reads the words as `parse_cli` does, makes `main`'s checks and
chooses format and filter. `LineReadOnce` compares it with a definition that
knows nothing of an order of parsing: a line is cut into pieces, each an option
with its value, and an accepted line has exactly one such reading. `DeviceSelection`
lets units come and go between the list and the opening by index. A candidate names
a unit by the text or the number of its serial, and one whose serial is empty or
cannot be read stands for the first unit on the bus (`OpenIndex`), whichever that is.
`ChosenAsAsked`: an undisturbed automatic choice opens a unit that is free and that its
candidate leads to, passes over no free unit before it, and fails only when none is
left, but for units that share a serial, and one without a serial that is not first on
the bus, which need not be found (see Findings); and gain and correction are fixed
exactly where something fixed them. `ServerStart`
goes through every call that sets up the metrics server and the TCP server, each
of which may fail, and takes them down again; `ServersWhole`: all or nothing,
and nothing left for the next run.

### SampleClock

The host's and the device's clock, a queue of transfers between them, losses and
late callbacks. `NoPhantomDrop`: while the queue is caught up within the recovery
window, the growths reported do not exceed what was lost, so that neither a late
callback nor a loss counted twice is a drop. `LossesCounted`: a loss that stands out
against every deficit of the last comparison is counted within the recovery window
and one silence that is no gap, whatever comes late or is lost in between.

### RtlTuner, AdaptiveGain, AutoPpm

`RtlTuner` is the pair of what `RtlSdrDevice` remembers and what the chip has,
with calls that fail before or after they wrote. `AdaptiveGain` adds the loop,
with an antenna that is a noise floor and a strength of bursts. `ReportTruthful`:
a setting reported as accepted is what the tuner has. `LoopFollowsTuner`: the loop
knows the gain, whatever the maintenance retunes. `ComesToRest`: with a steady
antenna for which two rules do not contradict each other, it stops moving.
`AutoPpm` has callbacks fall between the decision, the call and the reset;
`Calibrates`: every window counted was sampled under one correction, and the
correction settles within the deadband.

### DongleOpen

The calls of `RtlSdrDevice::open` one after the other, each with the transactions
it sends. In any call a set of them may fail, and all do once the dongle is gone.
Some failures end the open, some are returned and some nobody looks at; the history
`trouble` records that one left the dongle other than asked, `stranded` that one kept
the kernel's driver away from it. `DongleWhole`: an open device is claimed and
tuned as asked unless such a failure came before, and a closed one holds
nothing; the driver remembers a frequency only where the hardware has it; and the
kernel's driver is back unless stranded. Below 24 MHz the driver goes round the tuner.

### RtlsdrAsync, R82xxTuner, AirspyDevice

`RtlsdrAsync` models each transfer and both kinds of host: one that ends a
cancelled transfer at once, one that ends it later. `FreedAtRest`: on the former
no transfer is freed that libusb holds; `StreamEnds`: a cancelled stream, and one
whose device is gone, ends. `R82xxTuner` writes the operations as lists of
I2C transactions on the registers; any of `FailingAt` may fail. `SettingsHold`:
frequency, gains and filter are what the last successful call made them, whatever
failed since. `AirspyDevice` opens, configures and starts a radio whose registers
outlive the object; `StagesKnown`: the shadow of the three gain stages is right.

### IqPipeline, SampleStream

`IqPipeline` computes with the code's int16 values on streams cut in every way into
tiles and chunks, with the padded and with the symmetric form of the filter.
`BranchesExact`: the outcome is that of one uncut stream (`FilteredAsOneStream`), the
widths hold (`WidthsKept`), and aligned branches are half a sample apart
(`BranchesHalfApart`). What `WidthsKept` says is less than the comment at
`LowPassFilter.hpp:90-97`, which counts on samples of at most 2^14 and lets taps sum up
to three: behind `DCRemoval` a sample reaches 32767, and then an `int32` is only sure to
hold the sums of taps that sum up to two. The tables in the tree, of which the comment
says 1.98 is the worst, are inside. In `SampleStream` a sample is its number, so a
look-back can be compared with what it is meant to find; the sizes of blocks, rings and
look-backs are the program's own for all 35 pairs of rates. `SamplesInStep`: the bits
are consecutive, each is made of the samples at its place of the stream, and a look-back
finds the samples of the bits it is asked for; and output waits for a bounded number of
blocks.

### BitRepair, AltitudeCode, FrameOutput

`BitRepair` has the code's polynomial, frames of 56 and 112 bits and the two hash tables
with their 469 and 6790 slots. The table for DF11 drops an entry whose slot is taken and
looks at one slot only; the one for DF17 goes on to the next free slot and marks where
it did. Abstracted are the confidences, which are ranks, and the sizes of the search, 9
candidates of the code's 24 for the solver, and fewer guesses. `RepairsExact`: every
burst a table was built for is undone to the bit, and whatever else it mends has a
parity that fits. The solver has a solution exactly when some of the candidates explain
the parity, its solution does, and it is the damage when no others do. The guesses come
in the order of doubt and miss none. `AltitudeCode` decodes the 13 bits of an altitude;
`AltitudesExact` compares every code with an encoder that is built from the definition
of Gillham's code and shares the places of the pulses only. `FrameOutput` encodes into
bytes; `FramesReadBack` has a client read, byte after byte and without looking ahead,
all that was sent: it gets every frame and is between two messages at the end.

### IcaoTable, DemodCore

`IcaoTable` is what a slot of the address table holds and how it is used, swept and
reset; `DemodCore` has one action per outcome of each handler, and `Tick`, which is
`ICAOTable::tick`. The code stores times and compares differences; the model stores ages
that stop growing past the last window they are compared with. A frame is what its CRC
and fields say of it: the address before and after a repair, its value, its position;
`DecodeCpr` and `Near` stand for the geometry. Any number of frames may come between two
ticks, as the code has several streams. Left out are frames that change nothing, among
them the identical frame in the next phase (`phaseDupCheck`), which only drops frames.
History (`earned`, `named`, `sound` and `told` of an entry; `sighted`, `refused` and
`aired` beside the table) records what really happened, and the properties compare the
table with it. `aired` is the time since the last emission of each address, whatever
becomes of its slot. `TrustIsTimely`: only two sightings of an address, apart and near
enough, make it trusted, and trust, life and the entry end in time, also when an entry
past its time is revived before its sweep. `EmissionsApart`: two emissions of an address
are a window apart, unless it lost its slot to another address in between (see
Findings). `Corroborated`, `RescueIsRepeat`: a value or repaired position is emitted
only with a witness of the same aircraft, or as the repetition of a refused frame.

### TcpOutputServer

The decoding thread offers frames, the worker goes through its loop (`wpc`):
test of `isRunning`, poll, accept, read input, distribute, flush each client,
remove the closed ones; then cleanup in its order. Peers connect, read and leave
at any time; a peer not in `Readers` never reads. A byte of a stream is a pair of
its frame and its place in it; a protocol is the size of its encoded frames. The
queue is atomic, which `SpscFrameQueue` justifies. `EachItsStream`: a client is
sent, byte for byte, the frames since it connected, and at the poll the list has
open clients only, each peer once. `MemoryBounded`: neither unsent nor already
sent bytes pile up. `FrameReachesReaders`, `StopReturns`: slow clients hold up
neither the others nor `stop`.

### MetricsService

The window, its totals and the registry, copied counter by counter while the
server reads; runs end and begin. `SnapshotFresh`: every interval copies, and a
copy has all that was counted. `NobodyHoldsServer`: a client that sends its request
is answered although others stall, and the end of a run joins the thread.

### Composition

`MCRtlSdr`, `MCDevices` and `MCPipeline` put several components into one run. They
share no variables in the program either, so a behaviour chooses one of them
(`part`) and the others stay where they begin: the state spaces add up. What
connects components is modelled where it matters: the ring in `Supervisor`, the
queue in `TcpOutputServer`, the driver's calls in `AutoPpm` and `RtlTuner`.

The proofs about a module are in a module of their own (`SpscFrameQueueProofs`,
`RingBufferAsyncProofs`, `RtlsdrAsyncProofs`); those about the output
(`TcpOutputServer`, `FrameOutput`) are in `TcpOutputServerProofs`, those about
what makes samples into frames (`IqPipeline`, `SampleStream`, `DemodCore`, `IcaoTable`)
in `DecodingProofs`, those about what starts and stops a run (`Supervisor`, `CommandLine`,
`ServerStart`, `MetricsService`, `DeviceSelection`) in `RunProofs`, those about what a run
does with its device (`AirspyDevice`, `SampleClock`, `AutoPpm`, `RtlTuner`,
`AdaptiveGain`) in `DeviceProofs`; `ModularArithmetic` has facts about
remainders several of them use, `Absent` a value for "nothing" that unites the
modules of `MCDevices`.

## Runs

| Run | Shows | Instance | Distinct states |
|---|---|---|---|
| `spsc` | the queue's safety and its refinement | 2 slots, indices wrap at 4, 2 frames, 6 pushes: the ring is filled and emptied three times and the indices wrap | 4961 |
| `ring` | safety, order, refinement, liveness | 3 blocks of 2 elements, writes of 1, 3 and 8 (less and more than the ring of 6), 14 elements: the ring wraps twice | 44885 |
| `sup` | safety and liveness | 2 attempts, both signals, all hardware changes, stalls | 125208 |
| `tcp_safety` | each client its stream, bounded memory | 3 peers of both protocols, one of which never reads, limit 2, 2 frames, buffers of 4 bytes, sockets of 1 byte: every send is partial | 1311829 |
| `tcp_live` | liveness | 3 frames, one client that reads and one that never does | 119511 |
| `demod` | trust, decay, copies, values and positions | two addresses in one slot and one implausible address, 2 capabilities, sweeps every 2 ticks, trust for 2 sweeps, life for 1, candidates good at exactly 2 ticks | 835556 |
| `rtlsdr` | correction, gain loop, transfers | windows of 3 samples, one failed call of each kind, one recalibration, 2 transfers, 2 errors, both hosts | 237150 |
| `devices` | clock, Airspy, selection, opening a dongle, tuner, command line, servers | 13 units of time and 2 losses; 2 runs of a radio; 5 units, one plugged meanwhile; two chips above and below the limit of direct sampling, with 2 calls that fail; 2 operations on a tuner, with a failure at one of three places; lines of up to three of 19 words and some of four; 2 starts with 2 failures | 681629 |
| `pipeline` | blocks, filters, repairs, altitudes, encoders, metrics | all 35 pairs of rates with 7 blocks; 7 samples cut everywhere; a frame of 56 and one of 112 bits, each with every burst of its table and with up to 3 flipped bits of 13; all 8192 codes of an altitude; 2 frames sent; 2 runs of 8 blocks | 69197 |
| `sup_sighup_hang`, `short_level`, `metrics_backwards` | see Findings | the instances above | |

Bounds. `MaxPushes`, `MaxElements`, `MaxFrames` (queue, ring, server); `MaxFailures`,
`MaxFaults`, `MaxRecalibrations`, `MaxErrors` (`rtlsdr`); `MaxTime`, `MaxLosses`,
`MaxRuns`, `MaxOps`, `MaxFailed`, `MaxFaulty`, `MaxStarts`, `MaxErrors`, `MaxTaken`,
`MaxPlugs` and the set of lines `MCArgvs` (`devices`); `MaxBlocks`, `MaxSamples`,
`HitBits`, `MaxHits`, `CandidateCount`, `Ranks`, `MaxFlips`, `MaxGuesses`, `MaxSent`,
`MaxServiceRuns`, `MaxMetricBlocks`, `MaxPieces` (`pipeline`). Everything else is finite
by itself.

Why they are enough. Two attempts behave as ten do: the code compares the count
with the limit only. In `demod` one slot and one place for candidates are enough,
because slots do not interact: every collision is one of two addresses in a slot.
A behaviour receives frames chosen for one `aspect` (trust, altitudes, squawks or
positions), so that the state spaces add up instead of multiplying; squitters or
all-call replies that open the trust door are in each. The windows keep the order
of the code's: a copy is nearer than a new sighting, and trust outlasts life. The
theorems below remove these bounds for the safety properties they state. In
`devices` a clock of 13 units passes start, a recovery window and a minute more
than once; a second operation on the tuner meets whatever the first, failing
at any register of interest, left behind. In `pipeline` seven blocks wrap each ring
of blocks at least once, and the sizes are the program's. The run of the queue
stops at `MaxPushes` by a conjunct in the next-state relation of the MC module.

Deadlock is not checked where the system stops (the process exits, the server
has stopped, the stream of elements ends) or where the bound stops it.

Fairness. Each thread is weakly fair: the operating system schedules it. So are
`FallQuiet` (time passes) and the second store of a signal handler that began. In
`rtlsdr` callbacks go on with no error of their own (`ObserveSamples(0)`), the
maintenance is called every 200 ms, the gain loop evaluates a window again and again
(written with a parity, `turn`, so that a window that changes nothing is not
a stutter), and the host ends the transfers it has been told to cancel. In
`pipeline` the server's thread runs. Nothing is assumed of callers, signals,
hardware, or of whether samples are dropped. In `ring` the reader may leave and
nobody has to write. Since a signal may hang a run or be erased (see Findings), the
supervisor's liveness properties except `SigintStops` end with `signalled`, and
`SigintStops` with its negation.

## Findings

The `violation` runs check what a document or comment says and the code does
not do.

- `sup_sighup_hang`: a signal between the silence of the device and its
  detection ends the watchdog, the only one to wake the pipeline.
- `short_level`: the level of a short frame is measured over 56 bits that are not
  the frame's.
- `metrics_backwards`: a run begins new totals, so that the scraped counters of a
  process go backwards.

Others have a definition in their module that states the claim, but no run; adding
it to the cfg shows the counterexample.

- `NoSignalLost` (`main.cpp:396`): beginning a recovery clears a shutdown that
  SIGINT has just requested (361-362). Likewise a SIGHUP between `clearReselect` and
  `clearShutdown` loses its shutdown and keeps its reselect: the run that follows
  goes on, and is started over when it ends.
- `BoundedRetries` (`README.md:549-551`): a dongle that opens and stays silent is
  retried for ever, since each loss is a fresh one that starts the count again
  (`main.cpp:402`).
- `TunerSerialised` (`RtlSdrDevice.hpp:93-94`): `rtlsdr_close` at
  `RtlSdrDevice.cpp:406` runs against the watchdog's tuner calls.
- `ShutdownDrains` (`README.md:108`): the worker leaves its loop at
  `TcpOutputServer.cpp:291` without emptying the queue.
- `TrustedBitSet` (`ICAOCache.hpp:228-229`): a frame that revives an entry between
  its end and its reset (243) leaves it trusted with its bit clear, so `maybeTrusted`
  denies it and the erasure repair is not tried. `TrustIsTimely` shows that nothing
  worse follows.
- `FreedAtRestAnyway` (`librtlsdr.c:2144-2149`): on a host that ends transfers late,
  some are freed in flight. `StreamEnds` covers such a host.
- `ConvergesAgain` (`README.md:49-51`, 278; `RtlSdrDevice.cpp:554-568`): after a call
  that failed half-way (`librtlsdr.c:965-988`) the driver holds a correction the
  device does not know of, and the calibration may stay off.
- `AppliedAsAsked`, `BoundToSerial`, `NothingHeld` (`README.md:276`, 280;
  `AirspyDevice.cpp:363-378`, 89-103): a gain the new
  object happens to remember is not sent to a radio that may have another; a
  serial as the enumeration writes it may not parse and then stands for any unit;
  an open that fails half-way never gives its handle back, since no destructor
  closes it.
- `FirstFreeOpenedAnyway` (`README.md:268`): of units that share a serial, as many
  leave the factory with, a busy one hides the others. A unit without a serial is only
  found if it is the first on the bus: its candidate opens index 0
  (`RtlSdrDevice.cpp:173-176`), which is another unit, or busy.
- `NoPhantomDrop` with `History` below `QueueRoom + Past`, as in the code at the fastest
  rates (`InputDeviceBase.hpp:223-225`): after up to 15 queued transfers came in one burst,
  they and the 22 of the next 900 ms at 3.2 Msps (18 at 2.56) are more than the 32
  remembered deficits. No past deficit is found then, the gate is not asked (139-140), and
  a candidate outlives its catching up until the next late callback makes it a reported
  loss, against `SampleDropEventGate.hpp:17-19`. It shows with the clock alone in
  `devices.cfg` and `Gap = 2`, `Past = 4`, `Recovery = 5`, `History = 5`, `QueueRoom = 3`,
  `MaxLosses = 0`, `MaxTime = 18`. At 2.4 Msps 15 and 17 are 32.

Met in reading, in code that is modelled, and left as the code has it:

- A loss hides behind lateness: if every callback of the last 900 ms was late by about
  what is lost, the deficit does not rise above those it is compared with, and what was
  late is taken for caught up. The gate gives lateness a whole second. `LossesCounted`
  therefore asks that a loss stands out; without that it fails with `Gap = 2`, `Past = 3`,
  `Recovery = 4`, `Threshold = 1`, `QueueRoom = 3` and `MaxLoss = 2`.
- An address that loses its slot to another one takes along when it was last emitted
  (`ICAOCache.hpp:116`, 467). If a candidate of it is waiting, the next copy confirms
  that, takes the slot back and is emitted, within 30 µs of the first
  (`DemodCore.hpp:176`). `EmissionsApart` says so with `displaced`.
- `MainInstance.hpp:227` says "more than 1 drop per 60 s", the default at 233 is 10.
- `InputDeviceBase.hpp:78` re-baselines after a write that blocked on a full ring and
  calls that "not congestion": a write blocked for more than 150 ms forgives losses.
- `TcpOutputServer.cpp:365` clears `isRunning` before `stop` writes its wake-up byte
  (377); the worker may have closed the pipe (177-178) by then.
- Command line: a switch ignores a value attached with `=`; `-f` wins over
  `--no-iq-filter` (`main.cpp:287`); a bare `--metrics 127.0.0.1` is read as a
  port (`MetricsServer.hpp:53`); numbers are narrowed without a test
  (`DeviceSelection.hpp:204`). `DeviceConfig.hpp:65-67` calls a second pass over the
  settings harmless; it overwrites `autoPpm.enabled`.
- R82xx: `set_pll` returns 0 without a lock, a failed retune leaves `dev->freq` 0
  (`librtlsdr.c:941-946`), the result of writing the initial array is ignored
  (`tuner_r82xx.c:1563-1567`), the copy of a register is stored before the write (264).
- Opening a dongle: a failed detach of the kernel's driver returns 0 without a
  device (`librtlsdr.c:1638-1639`), which the next call notices; a failed claim leaves
  that driver detached; a device whose index is gone keeps the library's list
  (1613-1616); a failed read of the EEPROM leaves the bias tee to an
  uninitialised buffer (1770-1773).
- Tuning it: a retune that fails inside `set_sample_rate` is ignored (1216) and leaves
  `dev->freq` 0, and the bandwidth that is set next retunes to 0, below 24 MHz, so that
  an R820T goes to direct sampling and the open succeeds; entering direct sampling
  forgets the failure of the retune before it (949-951); a failed write of a filter
  leaves the new IF with the tuner and the old one with the demodulator
  (`tuner_r82xx.c:1200-1252`, `librtlsdr.c:273-278`), so that the next correction tunes
  off by the difference.
- `ErasureRepair.hpp`: with linearly dependent candidates the pattern returned need
  not be a codeword's lightest (candidates 0, 9, 71, 79, 91, 95), whatever
  `tests/ErasureRepairTest.cpp:37` suggests; `RepairsExact` has the exact condition.
- `SampleStream.hpp:28-32`: the flush comes up to 12.3 ms after the last at 2 MHz.
- `LowPassFilter.hpp:98`: taps whose magnitudes sum to more than 2 may overflow the
  int16 result; so may `DCRemoval` with float input (`IQPipeline.hpp:34`).
- `Metrics.hpp:319-337`: before the first publication the age of a copy is 0.

## Proofs

All with TLAPS; every assumption is a named one of the model, and TLC evaluates it
in the runs.

`SpscFrameQueueProofs` proves, for every capacity that divides the range of the
indices, `IInv` inductive and from it `TypeOK`, `NoSlotRace`, `FifoOrder` and the
refinement of `BoundedFifo` (safety). `IInv` relates each index to the length of
its history modulo `WordSize` (`IndexInv`), bounds what each thread knows of the
other (`ProducerInv`, `ConsumerInv`) and says which slots hold which whole frames
(`SlotInv`). The first part is needed because `NoSlotRace` is about indices modulo
the capacity, which says nothing of how far apart the threads are. Assumptions:
`CapacityAssumption` (the code's `static_assert`s), `NoWordAssumption`.

`RingBufferAsyncProofs` proves, for every block size, number of blocks and set of
lengths, `IInv` and from it `TypeOK` and `NoOverwrite`; `SleepInv` and from it
`NoLostWakeup` and `NeverBothAsleep`. `CountInv` bounds the shared count by the
writer's copy of it, `PositionInv` ties the writer's position to the reader's.
Without the latter nothing keeps the two positions apart that the code never
compares. `StreamInv` says what the samples are: what is in the ring continues what the
reader took, element by element, up to what a write has copied of its block, and
what is missing was given up after a shutdown. From it follow `StreamOrder` and, with
the blocks of the ring as the queue of the pipe, the refinement of `BlockPipe`
(safety): each critical section is a step of the pipe or a stutter. Assumption:
`SizeAssumption`.

`RunProofs` proves, for every number of attempts and every choice of
hardware, signals and stalls, `TypeOK`, `NothingLeftBehind`,
`ReaderGoneBeforeClose` and `EndToldOnce`. None of them is inductive, because each
is about one place of `main` and what is true there was decided far earlier.
`LifeInv` says, for each place of `main`, which threads and handles exist; `LossInv`
ties the result of a run to the flag its watchdog set, through all the stores in
between; `StopInv` says who asked for a shutdown that is requested. Assumption:
`SupervisorAssumption`.

`RunProofs` also proves `ServersWhole`, for every choice of ports and failure: `OpenInv`
says what is open at each place of the start and the end, `BoundInv` that the ports
bound are those of what is open; and `SnapshotFresh`, for every interval: `LoggedInv`
adds that window and totals make up what the run counted, and that a copy is due no
later than the counted blocks say. Assumptions: `MetricsServiceAssumption`,
`PublishAssumption`, `CallsAssumption`. And `ChosenAsAsked`, for every set of units,
busy or not, and every command line. That the list of candidates is sorted and has
each unit once is a fact about finite sets (`Placed`, `RowOf`): the number of those before
it gives each element a place of its own. `SelInv` says that, while nobody touches the
bus, those tried so far are the first of that list, and taken if they can be found at
all (`TriedInOrder`, `Found`). Where the text of a candidate leads (`Leads`) is seen
through the other order in which the driver lists the units: a serial only one unit has
leads back to that unit, and an empty one to the first place (`SerialFound`,
`LeastPosition`). Assumption: `SelectionAssumption`.

And `LineReadOnce`, for every command line, of any words and length. `LineInv`: what
was read of the first words is one way to cut them into pieces, every way to cut the
whole line begins with it, and the settings are what its pieces say (`ReadTo`). A
reading goes on with one word or with two; that only one of them is possible is shown
option by option (`Alone`, `WithNext`), and for a switch that may stand alone it needs
the word after next: a value that does not look like an option cannot begin a piece
(`NextPiece`). Assumption: `WordsAssumption`.

`RtlsdrAsyncProofs` is about the vendored driver. It proves `FreedAtRest` for any number
of transfers, errors and calls. `SubmitInv`: a transfer handed back as cancelled is
never submitted again. The theorem is about a host that ends cancelled transfers at once
and a `libusb_handle_events` that does not fail. `SweptInv`: on such a host those the
sweep has passed are at rest or about to be handed back as cancelled, so that the sweep
that finds nothing to cancel is right to let the buffers go. It proves `DongleWhole` for
every chip, frequency, bandwidth and correction and any set of failing transactions:
`HeldInv` says what is held at each call of the sequence, `TunedInv` that, without
trouble, the PLL, the demodulator's shift and the resampler agree with what the driver
remembers; each call of the driver has a lemma of what it keeps of that, the change to
direct sampling and back included. Assumptions: `AsyncAssumption`, `DongleAssumption`,
`HandleAssumption`.

`DecodingProofs` proves, for every set of addresses and frames, any period, times to
live and windows, `TypeOK` and all properties of the run `demod`. `TableInv`: the time
to live of an entry times the sweeps' period bounds the time since the frame that set
it, by exactly what has passed since the last sweep of its slot (`TimeInv`,
`SinceSweep`), and what an entry holds its aircraft has told (`ToldInv`), which is what
makes a match a witness. `DoorsInv`: a candidate stands for a sighting or a refusal that
really came, at its age or later but still apart from now (`CandInv`). `AiredInv`
relates the memory of a slot to `aired`, which nothing resets: while an address keeps
its slot, the time that slot remembers is that of the last emission or of a copy of it,
and an entry that was swept is older than the window, for which the window must not
exceed the period of the sweeps. `OutInv` is about the last emission. Assumptions:
`TableAssumption`, `FrameAssumption`; of the geometry (`DecodeCpr`, `Near`) nothing is
assumed.

`DecodingProofs` also proves `SamplesInStep`, for every pair of rates, size of a block
and number of blocks. `RingsInv` gives the whole content of both rings as a function of
the blocks written and read (`After`): two blocks of consecutive numbers, alternating,
and the front, which repeats the end of the last block that wrapped. From there a
comparison and a resampled input need `AheadInRing`, that the numbers go on past the
end of the block by what the reader is late, whichever block it is, and a look-back
needs `BackInRing`, which holds as far as the block before and no further.
`LookBackAssumption` says that this is enough: a block has at least 266 iterations
(the fastest sampler of the program, 24 MHz, has 342). The even spacing is
`TableSpaced`, for the interpolation by the rounding of its weights and for the five
samplers with a table of their own by their entries; it needs the greatest common
divisor of the rates, which `GcdDivides` shows to exist. `FlushInv` bounds the blocks
since a flush. Other assumption: `SampleStreamAssumption`.

The third theorem of `DecodingProofs` is `BranchesExact`, for every set of pipelines,
taps, formats, tiles, chunks, vectors and windows of the mean. The output alone is not
inductive; `PipeInv` adds that what a branch carries is a function of the stream so far
(`StateAfter`): the level of `DCRemoval`, the sign by the parity of the length, and as
history the last samples before the filter. A tile then goes on where the stream
ended, stage by stage: `CentredJoins`, `FlippedJoins`, and for the filter
`FilterGoesOn`, which rests on `FirIs`, that the loop over the chunks makes what one
pass over history and tile makes, by induction over the chunks (`ChunkStep`). The
history must reach back to all taps (`BitCeilReaches`). That nothing wraps needs that
the mean of samples is a sample (`MeanStays`, `LevelsKept`; so the accumulator never
exceeds 16384 windows, 2^22 with the program's 256), and `WidthsAreKept` bounds every sum on the
way by the magnitude of the taps times the loudest sample, with pairs as well as
without (`TapSumsInside`, `PairSumsInside`, `PairsAddUp`). Assumption:
`IqPipelineAssumption`, that the taps are in Q15 and sum up to no more than three and
what rounding adds; `TapsLetThrough` proves this of all taps that
`requireTapsFitAccumulator` lets through.

`TcpOutputServerProofs` proves, for any peers, protocols, sizes and limits and
whatever the sockets take, `MemoryBounded` and `EachItsStream`. `ListInv` has the
bounds of each buffer (`ClientInv`), that the peers in the list are distinct and
served, and that they are all open when the worker polls. `StreamInv` says that what
is on the wire and then what is pending is the stream of the frames popped since
the accept (`Whole`), also for what is on the wire of a client given up, where it is
a beginning of it. The step that removes closed clients is what needs the
ascending order of the positions kept. Assumption: `ServerAssumption`.

It also proves `FramesReadBack`, for any bytes, lengths and numbers of frames and
streams. `OutputInv` has the client between two messages. That it is there again after
the next one is about two loops, the encoder's over the bytes of a message and the
client's over what these became: `ReadSoFar` says what the client has read after each
pass of the encoder (`BytesReadBack`), for which an escape and the byte after it
count as one, and it needs that the client has still to read as many bytes as come.
Since the provers cannot cite an induction theorem, `EveryPass` of
`ModularArithmetic` stands in for it: a set that contains 0 and with n also n + 1, up
to a limit, has no least number missing; that the functions of the two loops exist
(`IterateExists`) comes the same way. `TicksInTime` takes the ten rates apart.
Assumptions: `FrameOutputAssumption`, and `RoomAssumption` for the size of the
buffers.

`DeviceProofs` proves `StagesKnown`, for any tables of presets and any radio: `SpyInv`
says that the shadow agrees with the radio stage by stage, from the first preset that
reached it on (`Paired` through every setter). `NoPhantomDrop`, for all sizes and times:
the deficit is never less than what was lost since the baseline, and equal to it when
the queue is empty (`DeficitFacts`); so a report needs a witness that each deficit of
the recovery window stayed above a level, and that what was reported before lies below
that level. `ClockInv` carries these two as `Covered(level, before)`: a deficit below
the level is never compared with again (`Overtaken`), since a younger one is already old
enough. It needs `HistoryReaches`, which is `QueueRoom + Past <= History`: the
remembered deficits go back over the comparison even after the whole queue came in one
burst. The default rates satisfy it, the fastest do not (see Findings). Assumption:
`MonitorAssumption`.

`LossesCounted`, for all sizes and times as well, needs no word about lateness and the
same `HistoryReaches`. `TraceInv` says that the remembered deficits are those of
consecutive callbacks, none further apart than `Gap`, from at most `Gap` after the
baseline on unless older ones were dropped; so what a callback is compared with is
younger than `Past + Gap` (`ComparedRecently`), among those the loss stood out against.
`LossInv` follows a loss from there: no callback has come yet (`Unanswered`), or there
is a candidate whose base what was lost exceeds for good (`Pinned`), so that nothing
clears it, or it was counted. A candidate that is there already is covered by the last
remembered deficit, which lies above its base.

The same module proves `ReportTruthful`, for every table, configuration and loop, and
whichever calls fail, before or after they wrote. A report is made at the end of ten
settings, of which each may undo what an earlier one wrote and was told accepted, so
`Chain` says after each of them what of the report is true so far (`Truthful`) and what
has been accepted by then. A call keeps that if it is `Harmless`: what it writes beyond
its own setting agrees with what is reported of the others, or is marked as no longer
known. Two calls are not harmless by themselves, the gain, which writes the stages, and
the fork's offset tuning, which drives the bias tee; there `Chain` supplies that no
stage was accepted yet, or that the bias tee is the one the call asks for.

`LoopFollowsTuner`, for every table, configuration and course of the noise: `Known` says
of the device and the loop that the gain is a step of the table whose stages the chip has
(`OnTable`) and that the loop's VGA is the shadow's; `Followed` adds that the chip has the
shadow's VGA, unless the tuner was tuned again. The rules that answer a window nest and
share the device between a change of the VGA and a step of the table, so each is shown
to leave a `Sound` outcome, in which the chip's VGA is known again or nothing was written.
`OpenInv` supplies the state the configuration starts from. That the stages add up to
a gain of the table again (`StepsExact`) is what lets the loop recognise its own step;
it rests on `WalkAssumption`, which the 29 gains of the R820T satisfy. Other
assumptions: `TunerAssumption`, `ConfigAssumption`, `LoopAssumption`.

`WindowsUnderOnePpm`, the safety part of `Calibrates`, for every warm-up, interval,
drift and limit: `PpmInv` lets a window be stale between the driver's call and the reset,
when it was sampled under two corrections, and adds that nothing is measured or decided
in between. Assumption: `AutoPpmAssumption`.

`ModularArithmetic` has the facts about `%` and `\div` these rest on, and those about
loops.

Only model-checked: all liveness and the liveness part of the refinements, which are out
of the prover's reach, with it the convergence of `Calibrates`; of `devices`,
`SettingsHold` (lists of transactions on concrete registers); of `pipeline` the
properties other than `SamplesInStep`, `BranchesExact`, `FramesReadBack` and
`SnapshotFresh`: `AltitudesExact`, for which the run goes through all codes there are,
`RepairsExact` (a polynomial) and liveness.

## Not modelled

- Floating point: the weights of the interpolation, the magnitude, the tables of
  taps; the geometry of CPR positions, which is two unconstrained operators.
- The build option ORBGRAND and the test for identical bits in the next phase
  (`phaseDupCheck`), which drops frames only.
- Gauges, histograms and the text of the page; `AdcHistogramDiagnostics`, which
  prints; log texts.
- Tuners other than the R82xx, whose gain the program does not set by stage, the
  EEPROM and the registers of the demodulator chip.
- The failure to load a file of taps (`main.cpp:182-196`), to `main` a
  failed setup like any other (`Supervisor`); a thread that cannot be created (`TcpOutputServer.cpp:360`):
  the exception is caught nowhere and ends the process.
- A run on standard input, which has no watchdog and no recovery.
- The programs that come with the vendored library (`rtl_fm`, `rtl_tcp`, `rtl_power`,
  `rtl_adsb`, `getopt`), which stream1090 is not built from, and the Python scripts.

What remains worth doing: the altitudes of a reply related to a closed form, the tables
of taps in the tree as instances of `InstalledTaps`, the other tuners as instances of
the pattern of `R82xxTuner`.

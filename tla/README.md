# A verification project for Hemerion

Hemerion is flight software that runs, unchanged, against simulated hardware: the drivers
and applications of `modules/` and `apps/` talk to buses, and in a simulation those buses
are shared memory, datagrams or an emulator, with the simulated parts (FMUs) behind them.
What can go wrong unnoticed lives mostly where two processes or two threads meet. This
directory models those meeting points in TLA+, checks small instances with TLC and proves
the central properties for every instance with TLAPS.

Contents: [inventory](#inventory), [hard behaviours](#hard-behaviours),
[modules](#modules-and-how-they-correspond-to-the-code), [runs](#runs),
[bounds](#bounds), [fairness](#fairness), [proofs](#proofs),
[disagreements found](#disagreements-found), [not modelled](#what-is-not-modelled),
[plan](#plan).

## Inventory

| Component | Where | State | Operations | Correct when |
|---|---|---|---|---|
| I2C bus in shared memory | `sim/i2c_shm` | the `I2cBusRegion`: phase, ready, attached and interrupt flags, transaction index, header, two buffers, result | `attach`, `publish_interrupt`, `stop` of the peripheral; the service loop; `attach`, `transaction` of the controller | a call that returns `kOk` was walked by the device exactly once, with its bytes, and returns that walk's bytes; a stop reaches every waiting call |
| SPI bus in shared memory | `sim/spi_shm` | the `SpiBusRegion`, same handshake, a data-ready line | the same, with `transfer` | the same |
| Step bridge in shared memory | `sim/shm_bridge` | the `BridgeRegion`: phase, step counter, two channel frames | master: `post_inputs`, `wait_for_outputs`, `request_shutdown`; peer: `wait_for_inputs`, `post_outputs` | master and plant move in lockstep, each frame is read by one side at a time |
| Step bridge over UDP | `sim/udp_bridge` | a step index on each side, the datagrams under way | the same five operations | as above, as far as a network lets it be; no wait outlasts its timeout |
| IMU over SPI | `modules/sensors` (`imu`) | part: FIFO, sticky overflow bit; driver: parser state, burst budget | `push_frame`, register map, `probe`, `poll`, `do_step`, `terminate` | the sample stream arrives whole and in order, or the gap is reported |
| MMC5983MA magnetometer | `modules/sensors` (`mag/mmc5983ma`) | part: magnetization, done flag, data, pending trigger, mode bits; driver: bridge offset, configuration | `probe`, `calibrate_offset`, `measure_once`, `read_sample`, `do_step` | samples are the field: right sign, right offset, none twice |
| BMP390 barometer | `modules/sensors` (`baro/bmp390`) | registers, burst shadow, data-ready interrupt | `probe`, `read_sample`, `do_step` | one burst is one conversion, none comes twice, the rate is the driver's |
| Raw-sample packets | `modules/sensors` (`*_packet`, emitters, UDP FMUs) | parser state machine | `parse_byte`, `do_step` | damaged input never yields a wrong sample, and the parser finds the next frame |
| GPS receiver | `modules/sensors` (`gps`) | latency queue, dynamics envelope, parsers | `do_step`, `push`, `pop_due`, `apply`, `parse_byte` | fixes leave late but whole, in order, never inside a hold-off |
| Watchdog | `modules/fault` | table of channels: timeout, elapsed, expired | `register_channel`, `kick`, `step` | a channel is expired exactly while it is late |
| Fault registry | `modules/fault` | table of codes | `register_code`, `raise`, `clear` | a raised fault stays until cleared |
| Power | `modules/power` | sequencer state, index, elapsed time; battery limits | `configure`, `start`, `step`; pure comparisons | rails come up in order, or the sequence faults |
| Comms | `modules/comms` | bounded frame queue | `push`, `pop`, `make_frame` | first in, first out, nothing lost silently |
| RTOS descriptors | `modules/rtos_core` | two tables and a pool | `register_task`, `register_queue`, `acquire`, `release` | no duplicate, no overflow |
| Flight computers, co-simulation hosts | `examples` | options; loop position, counts, sockets; the inputs the host writes between steps | `parse_args`, bring-up, `drain_*`, `poll_*`, `main` | what was sent is counted, what is logged is what was sampled, a flight ends when its host has |
| TCP bridge, Renode peripheral | `sim/i2c_shm/tools`, `sim/renode` | a connection, bytes written so far | `serve_client`, `Read`, `FinishTransmission` | a reply belongs to its request |
| Segments | `sim/shm_bridge/src/shm_segment.cpp` | a named mapping | `create`, `open_existing`, destructor | one creator, no half-built mapping |
| Applications | `apps` | - | probe-and-poll loops | - |
| Error models, conversions, magnetic model | `modules/sensors` | floats, generators | - | numerical |
| Board, build, documents, vendored code | `bsp`, `cmake`, `doc`, `vendor` | - | - | - |

How they interact: an FMU owns a slave model (the part) and a peripheral endpoint (its end
of a bus). The simulation master calls `do_step` on the FMU's thread, which samples into the
slave and drives the interrupt or data-ready line; the endpoint's service thread walks bus
transactions against the same slave, under the slave's mutex. In another process the
controller end of the bus carries the driver, called by an application's polling loop.
Plant and master of a co-simulation meet through one of the two step bridges. In the examples the
master is a host process that steps every FMU, computes between two steps what no connection carries, and logs
the truth; a flight computer in another process takes datagrams from two sockets and polls three buses.

## Hard behaviours

* **Two processes, one region, no lock.** The payload of the shared-memory buses and of the
  step bridge is plain memory; only the phase says whose it is.
* **Timeouts with a late answer.** A caller that gives up leaves its transaction posted; a
  caller that then carries on may meet the answer of the abandoned one.
* **A stop at any moment.** `stop()` stores a terminal phase while a call is about to post;
  `request_shutdown()` stores one while the plant is in its step.
* **A network.** Datagrams are lost, repeated, overtaken; a retry counts as a new step.
* **Check, then act, on shared parts.** The driver reads a count, then bursts; the FMU reads
  the sensing state, releases the mutex, computes, and latches.
* **Levels driven after they are read**, and flags that clear on a write of the other side.
* **Counters that wrap** and timeouts cut down to whole milliseconds.
* **Streams that lose their place.** Bytes are damaged or lost, and what a parser then takes for a length decides how
  much good data it swallows.
* **What becomes due together.** Fixes in a latency line, rails with timeouts, a hold-off that is tripped again.
* **Names that outlive processes**, and connections that outlive the request they carried.
* **Processes that end at different times**: a host that starts first or stops early, datagrams still queued, a drain
  that has to end.

## Modules, and how they correspond to the code

### The buses and bridges

**`I2cShmBus`** (`sim/i2c_shm/src/i2c_shm_link.cpp`, `i2c_peripheral_endpoint.cpp`).
Three threads: the host thread (`Create` ... `StoreShutdown`: `attach`, `start`,
`publish_interrupt`, `stop`, one action per store), the service thread (`CheckStop` ...
`StoreComplete`: `service_loop` and `run_transaction`) and the controller (`FindBus` ...
`Release`: `attach`, `transaction`, the destructor). The grain is one load or store of the
region wherever another thread could notice. A payload is the number of the call that
wrote it, so that a torn or stale payload is visible as a wrong number. The device answers
nondeterministically (acknowledge, refuse its address, refuse a byte). `timeouts` and `walks`
are history.

**`BusCall`** is what the caller of `transaction()` is promised: open, walked at most once,
answered with what that walk produced, or failed. `I2cShmBus!ImplementsBusCall` is the
refinement, under a mapping that leaves out the region and the service thread.

**`ShmBridge`** (`sim/shm_bridge/src/shm_bridge.cpp`). The master and the plant, with the
phase, the step counter and both frames; a frame is the step it belongs to. Either side may
time out; the master may wait again for the posted step, or request a shutdown.

**`UdpBridge`** (`sim/udp_bridge/src/udp_bridge.cpp`). The same protocol over two bags of
datagrams, from which `Lose` removes one and a receive may leave a copy. After a timeout the
master posts again, as `udp_bridge.h` asks, and so may the peer. The network, and the retry
policy of the callers, are the environment. **`UdpWait`** (`udp_bridge.cpp`, `udp_socket.cpp`) is one
call of `wait_for_packet` with the socket below it, on a clock finer than the millisecond
in which `SO_RCVTIMEO` is set. `RecvFails` is `recv()` returning any other error: it, too, comes back as no packet and
is reported as `kTimedOut` at once.

**`Lockstep`** is what both bridges promise: post step n, advance by it, accept it. `ShmBridge`
implements it whatever times out. `UdpBridge` takes its steps only (`LossFreeIsLockstep`) until a
datagram is lost or the run stops being *calm*: `calm` is a history variable that turns 0 when a datagram
is delivered twice, when a wait runs out although its answer is still to come, or when the peer posts again.

**`ShmSegment`** (`sim/shm_bridge/src/shm_segment.cpp`). Below both shared-memory links: processes create, open,
move and drop handles of one name, one system call per action (`CreateName`, `SizeSegment`, `GiveUpCreate`, ...), and
may die between any two. An object is the number of the call that made it, so that a name that leads to the
wrong object shows.

**`I2cTcpBridge`** (`sim/renode/i2c_bridge/HemerionI2cBridge.cs`, `sim/i2c_shm/tools/i2c_shm_tcp_bridge.cpp`). The
peripheral inside the emulator and the process that serves it, with the two streams of each connection between
them: a stream element is a header, a block of bytes or a result, tagged with its transfer. The peripheral
may give up at any moment and reconnect, while the bridge still works on the old connection. What `transaction()` makes of a request
is one action with the outcomes `I2cShmBus` has for a caller that carries on after a timeout: the part walks the call (`Walked`), or
completes over it an earlier one that the bridge had given up (`Overtaken`), the call times out and is left posted (`TimesOut`), or the part is gone
(`PeripheralDown`). An answer therefore carries two numbers, the transfer it is framed for (`id`) and the transfer whose walk it tells of (`of`).

### The sensors

**`ImuSpi`** (IMU driver, packet parser, slave and FMU; `sim/spi_shm`). End
to end: `PushFrame`, `ReadLevel`, `DriveLine` are `do_step`; `Terminate` to `StoreShutdown` are
`terminate` and `stop`; `Shift` is a chip-select frame served under the slave's mutex, with one
operator per register; `LoadPhase` to `Release` are `SpiShmController::transfer`; `Attach` to `Leave`
are `probe`, `poll` and the loop around them. A stream byte is a pair of its frame and its
offset. `TakeByte` is the loop over a burst that arrived, a byte at a time: the controller is the only one to
touch its buffer, so nothing can come between two of them, and `remaining` is the driver's own count.

**`Mmc5983ma`** (driver, slave, FMU, measurement model, host tool, `apps/mag_logger`). A driver operation is a
sequence of bus transactions (`Probe`, `Calibrate`, `MeasureOnce`, `ReadSample`); each transaction is
one action, because the slave's mutex is held from START to STOP, and between any two of
them the FMU may take any of its own steps (`BeginStep`, `ReadPeriod`, `SenseState`,
`LatchMeasurement`, `PublishLine`: one per critical section). A measurement has a value
(polarity times field plus bridge) and a number. The driver's configuration is chosen in `Init`: automatic set/reset, continuous mode,
a calibration on probe or none, the interrupt, an offset restored before or none. So is the state in which `probe()` finds the part, as a previous run
left it: free running, triggered, RESET; its FMU goes on stepping it, before the software reset and across it. Four history variables say what the
properties except: `old`, the last measurement begun before the software reset; `mistaken`, that a calibration's wait was answered by another measurement than
its own; `failed`, that a calibration has failed after its RESET and none has succeeded since; `calibrated`, that one has stored an offset.

**`Bmp390`** (driver, slave, FMU, host tool, `apps/baro_logger`, the flight computer's `poll_baro`). The same grain, but the burst is
three actions, because what it returns is put together from three registers: the slave shadows them, and the
host's thread takes the lock it finds free between transactions only (`LockFree`). A conversion is its number and its
time. `host` chooses who steps the part, the FMU (every whole period, the rest carried over: `LatchConversion`,
`EndConversions`) or the tool in wall time (the newest one, the arrears dropped: `LatchNewest`); `client` chooses who polls, on the interrupt
line or on the status. The FMU may be reset under the client, or end.

**`PacketStream`** (`baro_packet.cpp`, `radalt_packet.cpp`, `mag_packet.cpp`, `imu_packet.cpp`, `ubxParser.cpp`). A
sender's frames arrive byte by byte; `Damage` and `LoseByte` are the wire; each state of `parse_byte` is an operator. A byte carries its place in its frame, so
that a checksum fits exactly when what was summed is a frame from its id on. Payload and checksum are any bytes, both sync bytes in a
row included: a parser that has lost its place may take them for the start of another frame (`Misled`), and `missed` counts from there anew. The
four raw-sample parsers are one machine with different numbers; the UBX machine drops the byte behind a
stray sync byte and skips any length. `ImuSpi` keeps a parser of its own, whose bytes are never damaged.

**`NmeaStream`** (`nmeaParser.cpp`). A receiver that reports a GGA and an RMC sentence per epoch, characters damaged or
lost, the parser and the fix it fills; each field of a fix is the epoch it was measured in. A character carries the sentence it
belongs to, so that a checksum fits exactly when the text kept is that of one whole sentence.

**`GpsReceiver`** (GPS `fmu_main.cpp`, `gpsLatencyLine.hpp`, `gpsDynamicsModel.hpp`, `udpSender.cpp`). `DoStep` is `do_step` up to
the sends, `Send` one datagram. Truth is only what the envelope tells apart. Times that the code sums up in floating point
and compares may, when equal, compare either way (`DuePrefixes`).

### The rest

**`Watchdog`** (`modules/fault/src/watchdog.cpp`). One action per operation; elapsed time is kept
modulo `Modulus`, beside history variables that keep the true time. **`RegulatorSequencer`**
(`modules/power/src/regulator_sequencer.cpp`), likewise.

**`CosimHost`** (the three `cosim_host_main.cpp`). `parse_args` with its two passes, set-up with every place it may fail, the
loop. A value is the number of the communication point whose plant state it was computed from, which makes a
delay of one step visible. The magnetometer's field is written by the host, after a step only: the first step samples none (`FieldSampled`). The three programs share their operators; one action per program says which of them
it uses, and in which order. Ecos is external: `Step` runs all FMUs on the inputs they have, then carries the connections.

**`FlightComputer`** (`f16_flight_computer.cpp`, the rocket's `flight_computer_main.cpp`, both `udpReceiver.cpp`). Bring-up against a host that may start
before or after, the loop with its four ways out, drains and polls, the final drain. The host steps, fills the
sockets and ends whenever it likes. The drivers are abstracted to "took a sample", "nothing new", "failed".

**`Bench`** composes nothing: it is a test bench on which ten small components are checked one at a time in one run.
`mounted` says which one a behaviour has; the others do not exist in it, and their variables are shared. Each property is
guarded by the component it is about. All bounds are constants, named in `BenchAssumption` where a proof needs something of them.

**The proof modules** hold theorems and lemmas only. `I2cShmBusProofs`, `ShmBridgeProofs`, `UdpBridgeProofs`, `ImuSpiProofs`,
`Mmc5983maProofs` and `Bmp390Proofs` have one component each. `ComponentProofs` has the components that are mounted on the bench: it
extends `PacketStream` and instantiates `RegulatorSequencer`, `UdpWait`, `GpsReceiver`, `ShmSegment`, `I2cTcpBridge`, `FlightComputer`,
`NmeaStream` and `CosimHost`. `BenchProofs` has the watchdog, which the bench extends, and carries the theorems about mounted components over to
the bench. Types and inductive invariants are defined beside the components, where TLC can check them too.

Operators commented "Seeded fault" are not part of any specification. Each is a
plausible mistake in the definition that follows it, with the same parameters; `PROJECT.json`
says which property it breaks when it takes that definition's place. They document how a property is falsified.

## Runs

`tlc -config <Module>_<name>.cfg <Module>.tla`.

| Configuration | Question | Answer |
|---|---|---|
| `I2cShmBus_calls` | With deadlines expiring and a stop at any moment, does a caller that stops at its first timeout get what `BusCall` promises, is the payload always one side's, and does each call end although no deadline helps it? | Yes. |
| `I2cShmBus_stale` | Does `kOk` still mean served for a caller that carries on after a timeout? | No (see below). |
| `ShmBridge_lockstep` | Whatever times out: lockstep, one owner per frame? And is a posted step answered, a waiting plant released, without timeouts? | Yes. |
| `UdpBridge_steps` | With every network fault and waits that run out at any moment: does a matching step index identify the step, does a repeated shutdown arrive? While calm: are outputs of this time, is a step answered despite losses, and without any is it a lockstep? | Yes, although the bridge itself never compares the index. |
| `UdpWait_returns` | Does a wait return? | No. |
| `ImuSpi_stream` | Is the sample stream whole through FIFO, bursts and parser; are gaps announced; is room respected; is the line right; does power-down end without its deadline? | Yes. |
| `ImuSpi_arrives` | Does the drain deliver every buffered sample? | No. |
| `Mmc5983ma_driver` | In every configuration, with restored offsets, a part found in any state, waits that run out and calibrations in between: is what is read the field, and read once? Is the offset in use the one that is due? Does a trigger drop the configuration, does the line announce what is there? | Under automatic set/reset samples are right always, otherwise until a calibration's wait is answered by another measurement; what they are off by is then what the offset in use leaves of the bridge's, and after a calibration that failed they may be negated. The rest holds throughout. |
| `Mmc5983ma_recalibrate` | Does a calibration find the bridge when the part was free running, found so by `probe()` or set so by the driver? | Not always. |
| `Bmp390_driver` | With two rates, either host and either client, resets and failing transfers: is a sample one conversion, does none come twice, is an unread one announced, is the rate the driver's? | Yes; only an FMU reset between status and burst delivers zeros. |
| `FlightComputer_stamps` | Is the index of a fix its epoch? | No. |
| `Bench_components` | Ten questions, one for each component mounted: see below. | Yes. |

What `Bench_components` asks: are alarms on time (`Watchdog`); is no wait more than a millisecond short unless its socket failed (`UdpWait`); does the name
lead to its owner's segment (`ShmSegment`); do rails come in turn, each with its own timeout (`RegulatorSequencer`); does a parser report
every whole frame and nothing else, and how much does a damaged length, or a false start inside a frame, cost (`PacketStream`); is a fix of one epoch (`NmeaStream`); do explicit
options win, and are the logged inputs those that are sampled next (`CosimHost`); is an answer framed for the transfer, and whose walk may it tell of (`I2cTcpBridge`); do fixes
leave in order and on time, and none during a hold-off (`GpsReceiver`); is everything the sockets took counted, and does a flight
end once its host has (`FlightComputer`).

Deadlock is not checked where the modelled system really stops: a powered-down bus, a run
that is over, a part that has taken all its samples.

## Bounds

* *I2C bus*: three calls. One call may be abandoned, the next
  meet its answer, a third follow; the handshake keeps nothing beyond the last payload, and
  each call is a new number, so a fourth adds no new relation. The device's answers, the
  lengths (each phase empty or not) and the moment of the stop are free.
* *Step bridge*: twenty steps, far more than the two-step memory of the protocol; the
  theorems cover every number.
* *UDP bridge*: two steps, three posts, a loss, a duplicate. That is enough for a late datagram to
  meet a retry, for a retry to be overtaken, and for outputs of one step to arrive in the next. `MaxPosts` is
  at least `MaxTime + MaxLosses`, so that a calm master never runs out of retries; `MaxQueued` bounds repeated posts only.
  Larger bounds were tried: four posts find nothing new.
* *UDP wait*: two and a half milliseconds of four ticks, two datagrams of any kind: a stray
  makes the wait start again with a fraction of a millisecond left.
* *IMU*: five frames of two bytes, a FIFO of seven (three frames and an odd byte of room, so that
  a frame may not fit although there is room), bursts of three (which cut a frame), room for two
  samples. Every boundary of the code (frame, burst, FIFO, capacity) falls at a different place, as it
  does there. The counterexample run uses three frames and a FIFO of five, which still overflows.
* *Magnetometer*: five measurements, two per FMU step: bring-up takes two, which leaves a calibration and a read, or
  three reads, or stale ones of a previous run in between. Field 2, bridge 1, a restored offset of 2: sums, differences and signs are all distinct.
  The theorems cover every number.
* *Barometer*: three steps of three ticks, periods of two and five: one rate has several conversions in a step, the other has steps
  without one and a remainder that crosses them. Sensor time wraps at eight, within the nine ticks.
* *Watchdog*: three callers on two channels, a counter modulo 8, timeouts 2 and 5, ticks 1 and 3,
  time to 11: the counter of an expired channel wraps and ends below its timeout.
* *Segment*: three processes, three objects: a creator, one that opens its object and outlives it, one that creates the next.
* *Sequencer*: up to three rails out of two names (one may repeat), timeouts 0 and 3, ticks 0 to 4: a tick can end exactly on the timeout or jump it.
* *Packets*: two damaged bytes, a length whose high byte weighs five, payloads up to three bytes: the longest payload the UBX parser can
  be made to believe in covers several frames. Bytes have five values: ids, small lengths and both sync bytes, which are all a parser tells apart, anywhere in a payload
  or checksum, a frame's last byte included. Frames are unbounded; `MissedAtMost` counts those lost in a row behind one false start.
* *NMEA*: three epochs, three faults, sentences of two characters in a buffer of five: its two damaged line ends overflow it, lost ones let it run into the next,
  and when the next `$` is hit as well a sentence is decoded although its own end never came.
* *TCP*: three transfers, two connections: one transfer is given up, the next meets the bridge still at the first; or one times out on the bus, the next
  is answered with its completion, and a third follows.
* *GPS*: steps of two ticks, latencies 0, 3, 4 (none, between two steps, on one), a hold-off of none or three, two runs, ten ticks: up to three frames in flight.
* *Flight*: four steps of the host, two radar returns each, sockets of three, drains of two, two probes: a
  socket overflows, a drain ends with datagrams left.
* *Hosts*: every command line of up to four arguments, three communication points.

## Fairness

Liveness is claimed under weak fairness of the threads inside calls they have begun:
that is what an operating system gives them, since every loop involved sleeps or
yields and holds no lock. Nothing forces a call, an attach, a step, a stop or a lost datagram.

In the models of the buses, the IMU and the step bridge deadlines may pass at any moment, but the fairness
conditions leave the actions in which they do (`TimeOut`, `MasterTimesOut`, `PlantTimesOut`,
`DrainExpires`) out: the liveness properties hold in the behaviours in which no deadline ever passes, so a deadline is never what makes
them true. `UdpBridge` is different, since after a loss only a deadline gets it going: there, waits are
finite. Strong fairness is used there alone: a datagram that is there again and again between the waits of
a peer that keeps waiting is received some time. `UdpWait` needs that
time passes and that the waiting thread runs. `Bench` has one condition, that the flight computer's process is scheduled: its host,
another process, owes nothing, and `HostEndEndsFlight` is about what follows once it has ended.

## Proofs

The theorems hold for every value of the constants, within the assumptions the modules name and the antecedents
named here. Every inductive invariant was first checked by TLC on the component's run.

**`I2cShmBusProofs`**, for every number of calls and every setting of the switches.
`HandshakeInv` is inductive: the life cycle of the host thread (the service thread is gone before the
flags are cleared, and these before the terminal phase), and, until a deadline expires, that
the phase follows the call, the request is stored before it is posted, a walk in progress is the
first of the waiting call, and a finished one answers it. Why it is needed: ownership of the payload
alone is not inductive, because it rests on the controller's position, which rests on the phase,
which may at any time become the terminal one. From it: `PayloadOwnership`, `OkIsServed`,
`AtMostOneWalk`, `ShutdownOrder`, and the action property `StopIsFinal`. `CallsAreServed` is the refinement of `BusCall`,
one case per action, for a caller that gives up at its first timeout (`~KeepsCalling`): the one that carries on is the
disagreement of `I2cShmBus_stale`. It needs a lemma beyond the invariant, since the walk of an abandoned call may end
after the call did (`LateWalkStep`).

**`ShmBridgeProofs`**, for every number of steps. `LockstepInv` says whose turn each phase is, what
the frames hold, and how far each side has counted (`advanced` is the counter or one less,
`accepted` likewise, by position). From it: `FrameOwnership`, `OutputsFollowInputs`, and
`BridgeIsLockstep`, the refinement of `Lockstep`: `FillInputs` is its `PostStep`, `AdvancePlant` its `Advance`,
`CopyOutputs` its `Accept`, every other step a stutter.

**`UdpBridgeProofs`**, for any numbers of steps, posts, losses and duplicates. A bag is a function into the positive numbers
whose domain changes, so the lemmas first say what a send and a receive do to what is under way. `UdpInv` has two parts. The
stamps: whatever the network does, inputs and outputs under way carry no later index than the master's, and those that carry
the master's own are of its present time; this gives
`StaleOutputsAreTold`. And, while a run is calm, the posted step is in one place only: in the master's datagram,
in the peer, in its answer, or gone and nothing under way (`OnlyToPeer`, `InThePeer`, `OnlyToMaster`, `Blocked`). `OnePlace` is why a calm master accepts the present step, and, with the
counts at each place (`CountedInPlace`), why without a loss it is a lockstep: `CalmIsLockstep` is that refinement, which holds of this bridge only until the network does its worst.

**`ImuSpiProofs`**, for any sizes of frame, FIFO, burst and caller's buffer, whatever times out, wherever the power-down falls.
That decoded samples are the ones written, in order, is not inductive: it says nothing of the bytes still on their way. `StreamInv` gives every
byte its position: what was decoded, what the parser holds, what is in flight on the bus and what is left in the FIFO are, in this
order and without a gap, the stream of the frames that were written (`StreamHolds`; the lemma `Positions` is its arithmetic). It holds from the write of CONTROL on
and until an answer is lost, which needs to know whose the transfer on the wire is (`WireInv`), and that a count read is still
there to be burst (`ReadsInv`). `RoomInv` bounds what a poll may still decode by the caller's capacity, although a burst
may end inside a frame. `GapInv` follows an announcement from the sticky bit through the answer of a status read to the driver: a frame counted
behind a gap has been told of by then. `LineInv` adds the level about to be driven. From these: `PollsKeepTheStream`,
`GapIsAnnounced` and `LineAnnouncesSamples`.

**`Mmc5983maProofs`**, for every field and bridge, any number of measurements. A driver operation is the list of transactions it has left, so the
invariant has to say which lists there are. `PartInv`: which operations may still be ahead (`LeftToDo`), in which order (`StepsInOrder`), that the FMU latches
only what a trigger or a period owes (`Owing`), what is configured at each place of the bring-up (`BringUp`), and that what is about to be read
is newer than the last sample (`NumbersGrow`). From it `PartStaysConfigured` and `NeverTheSameTwice`.
`FieldInv` adds the signs: where in a calibration the polarity flips and a measurement is kept (`FlipsInOrder`, `PulsesInOrder`), what
a measurement is worth under automatic set/reset (`AutomaticReads`) and without it, in either polarity (`ManualReads`). `CalibratedReads` is about the polarity, as long as
no calibration was answered by the wrong measurement: which it is at each place of an operation (`Polarity`), that nothing is under way where it flips
(`StillWhereItFlips`), and that what answers a wait, what may be read and what was kept has the polarity of the part (`Waiting`, `Settled`, `Kept`). The step that decides is the end of a calibration's wait:
a measurement that answers a trigger that is no longer pending ends the FMU's step in a part out of continuous mode, so that nothing is under way when the
pulse comes. One lemma per kind of step; `Onwards` has what the lists say of the step after. From it the action property `SamplesAreTheField` and `CalibrationFindsTheBridge`.

**`Bmp390Proofs`**, for any periods, any step and any wrap of the sensor's time. `BaroInv` says in which order the transactions of an operation
come, that what is about to be read, shadowed or not, is a conversion nobody has been given (`ReadsInv`), that the part converts only with its interrupt enabled, so that
the step that made a conversion announces it (`LineInv`), and how much time is accounted for at every place of a step: conversions times the period plus what is carried
over is the time since the rate was set (`RateInv`, `KeepsTime`; for the tool, which drops arrears, no more than that, and short by whole periods: lemma
`WholePeriods`). From it `SampleIsOneConversion`, `LineAnnouncesConversion`, `RateIsTheDrivers` and the action property `SamplesAdvance`.

**`ComponentProofs`**, by component:

* *Packets*, for every format within `PacketBounds`, any number of faults. `StreamInv`: a checksum that may still fit covers as many bytes as the parser has read of a frame (`SumIsPlace`), and they are of the frame being sent,
  or that one is damaged or has only begun (`SumIsOfFrame`); a parser that was looking when an unhurt frame began is where its sender is (`InStep`). These give
  `ReportsWholeFrames`. `ResyncBounded` is a bound on a history, and not inductive: what is, is a potential (`Resync`). While the parser
  is inside what it takes for a payload, seven times the frames missed since it was last misled, plus the bytes of the present one gone by, plus the bytes still
  owed, are no more than the longest payload and its surroundings; each byte moves one unit from what is owed to what is gone
  (lemmas `Paying`, `ComingBack`).
* *NMEA*, within `NmeaBounds`. `NmeaInv`: in an epoch without a fault the parser holds what was sent of the sentence (`InPlace`) and the fix what was sent of the
  epoch (`Collected`); nothing in the fix is newer than the sentence in the buffer (`InOrder`); and a whole sentence stays there past its end only if both characters of
  it were hit, past the next `$` only if that was, too (`Overdue`): three faults. From it `PairMakesFix`.
* *Hosts*, for any command line and any stop time. `LoopInv` carries with every linked input the communication point it was computed at; from it
  `LoggedInputsAreSampled`. `ParseInv` describes both passes over the arguments: the options are those of the last case the first has
  found, overridden by the last of each name the second has met, and what the first took for a case behind a name is no name of the second; from it `ExplicitOptionsWin`. An argument's place is what the induction runs over, so
  that this needs no induction over sequences.
* *TCP bridge*, for any number of transfers and connections. `AnswersThisTransfer` looks at one step; what makes it true is
  in the streams. `TransferInv` says that the peripheral waits on its newest connection, that those it has not made yet are empty, and that the
  newest carries the transfer it waits for and nothing else, in one of four states: none, on its way (`Requested`), in the bridge, answered. What is left
  on older connections nobody reads. Whose walk an answer tells of is followed along: its own, or that of a call the bridge gave up (`Own`, `LateWasAbandoned`).
* *Flight computer*, for any number of steps, returns, socket capacities and batch sizes (`FlightBounds`). `CountsWhatWasSent` holds at the
  end of a flight because no final round that leaves something behind is the last: `FlightInv` says where, in a round, what is still in
  a socket can be, whether the drains so far took all they could, and that whatever was sent is counted, lost or still queued.
* *Sequencer*: `RailsComeInTurn`, under its `NoWrap`; the counter is the time the current rail has been silent, and
  what was confirmed is the prefix of the rails that `index_` names.
* *Wait*: `WaitsAreLongEnough`; a receive is armed for less than a millisecond less than what is left, at every tick; a wait that ends earlier had its socket fail.
* *GPS*: `GpsInv` says that the hold-off counts from the last limit that tripped, and that the
  frames in the latency line are of this run, in order, none overdue; from it `HoldOffHolds` and the action property `LatencyIsKept`, for
  any latencies and hold-offs.
* *Segment*: `CreateIsExclusive`, for any number of processes; whoever creates hands the name from the call to
  its handle, there is one such process at a time, and only the object of a dead owner keeps the name (`SegmentInv`).

**`BenchProofs`**. Watchdog: `TypeCorrect` without further assumption, `DeadlinesAreKept` under `NoWrap` (no tick carries a channel that has not expired past
the counter's width); the invariant adds that such a channel has kept exact time. An expired one has not, and
need not: the expiry is latched. The rest concludes what the run `Bench_components` checks from `ComponentProofs`, for all bounds at once. A step of the bench
is a step of the mounted component (`MountedMoves`), nothing changes what is mounted, and the proof modules, instantiated on the bench's shared
variables, speak of the same formulas as the bench. `BenchAssumption` discharges the antecedents.

Antecedents and what justifies them: `NoWrap` excludes timeouts within one tick of the counter's 2^32 milliseconds, which the code does not
test; `~KeepsCalling` is the caller `i2c_shm` asks for; `FlightBounds`, `GpsParameters` and the types of `Timeout`, `TicksPerMs`,
`MaxRails` and `MaxConnections` only say that these are numbers, and that a step of the simulation, a batch and a millisecond are not empty; so
do the `ASSUME`s of the sensors (`SizesAssumption`, `ValuesAssumption`, `TimesAssumption`: a period, a burst, a frame and a field
are not zero). `PacketBounds` has the raw parsers skip at least the payloads their own senders make (they skip up to `kMaxSkipLength`, 1024 bytes);
`NmeaBounds` has the buffer hold a whole sentence, which NMEA 0183 limits to less.

*Only model-checked*: every liveness property (`StopReleasesWaitingCall`, `UpAnswersEveryCall`, `ShutdownReleasesWaitingPlant`, `PostedStepIsAccepted`, `StepIsAnswered`,
`ShutdownReachesPeer`, `DrainEnds`, `HostEndEndsFlight`), since fairness and `ENABLED` are outside the prover's reach. Every invariant and every safety
property of the passing runs is proved.

## Disagreements found

Each of these is a run that TLC ends with a counterexample; `PROJECT.json` quotes the text.

* `I2cShmBus_stale`: after a timeout the transaction stays posted. The TCP bridge answers its
  client with a bus fault and serves on; the late completion is then taken for the answer to the
  next call, which reports `kOk` with another call's bytes.
* `UdpWait_returns`: less than a millisecond left of the timeout is cut to zero, which
  `SO_RCVTIMEO` takes for "wait for ever".
* `ImuSpi_arrives`: the drain ends when the FIFO is empty, while the last burst is still on its
  way; the stop then fails that transfer and its samples are lost.
* `Mmc5983ma_recalibrate`: a free-running measurement begun before the part left continuous mode
  completes after the trigger, and is taken for one of the pair. The software reset of `probe()` is no help, because it does not end a step of the
  FMU that is under way: a part found free running spoils probe's own calibration the same way.
* `FlightComputer_stamps`: a fix is stamped by its index among those decoded. A host that starts first, or a socket that overflows, loses
  epochs, and every later fix is stamped too early.

The models show more, for which there is no run of its own because the properties are stated so that they hold:

* A shutdown is called terminal (`i2c_shm_protocol.h:59`, `bridge_protocol.h:43`) and is overwritten by a call
  that loaded the phase just before it (`Post`, `Release`), or by a plant in the middle of its step (`StoreOutputsPosted`). The victim
  waits out its deadline. `NothingServedAfterStop` and `FramesHaveOneOwner` say what holds nevertheless.
* Neither side of the UDP bridge compares the echoed step index, so a master whose wait ran out
  early stays one answer behind (hence `calm` in `OutputsAreOfThisTime`), and a repeated request
  makes the plant integrate its step twice (hence the word loss-free in `LossFreeIsLockstep`).
* A FIFO count that was read is not "still true for the burst that follows it" (`imu_spi_slave.h:26`): the mutex is
  released between the two transfers. Harmless, as `NeverOverReads` shows.
* A watchdog timeout within one tick of 2^32 ms is jumped over, and its channel never expires: `NoWrap` excludes it.
* An FMU that is reset between a status read and its burst delivers a barometer sample of zeros (`SampleIsOneConversion` says so).
* A payload may hold a sync pair, so that "can never desync" (`baro_packet.h:15`) is true of the sync bytes only: what holds is `ReportsWholeFrames`
  and a loss that is bounded after each false start. How often frames can mislead a parser that has lost its place, one after the other, depends on their payloads alone and has no bound.
* A receive error, such as the refusal of an earlier datagram by a peer that is not up yet, is reported as a timeout at once, whatever the timeout (`udp_socket.cpp:290`,
  `udp_bridge.cpp:66`); `NoEarlyTimeout` says "or the socket failed".
* The hosts say that the magnetometer's field has "the same one-communication-step transport delay a connection would" give (rocket :896, :955, trim :1175, :1246, autopilot :1132). A connection is carried when the simulation is initialised,
  the field is not: the first step samples the start value of the inputs, a field of zero, and `LoggedInputsAreSampled` claims the delay from the second step on.
* What `I2cShmBus_stale` shows of one call reaches the emulated firmware: an answer framed for the right transfer can be the completion of an earlier one that
  timed out on the bus. `AnswersThisTransfer` says whose it may be, and that nothing else gets through.
* A magnetometer calibration that fails after its RESET (`mmc5983ma_driver.cpp:207`) leaves the part RESET: later samples are the field negated, until one
  succeeds (`SamplesAreTheField` says so). Without a calibration on probe a sample holds what a restored offset, or none, leaves of the bridge's.
* An NMEA sentence both of whose line ends are lost is decoded when the next one begins; if that one's `$` is hit too, at the end behind it, with the
  time of a later epoch (`PairMakesFix` says so).
* The UBX parser drops a byte that follows a stray sync byte, so a frame right behind one is lost; the raw-sample parsers do not.

Met while reading, and not of a kind a model says more about: `regulator_sequencer.h:33` names a null `rail_ids` that is not tested; the radar altimeter's and the
barometer's FMU say that a reset keeps the turn-on bias, and build the noise model anew when they leave initialisation; the bound `idle < 20` of the flight
computers' final drain is never reached, since a round that decodes nothing ends it; the printing period of the hosts is zero for steps
above 20 s; unlike the other two the autopilot host accepts a GPS period that is no whole number of steps.

## What is not modelled

* Numerical code (noise, compensation, the magnetic model, calibration fits, geodesy, unit conversion, the autopilot's gains) and
  battery limits: floating point, without control.
* The I2C and SPI buses: weak memory. Phase and flags are modelled as sequentially consistent; the code publishes with release
  stores and observes with acquire loads, and the two orders that matter (payload before phase, absence before
  the terminal phase) are modelled as program order. A peripheral killed without `stop()` leaves its name, which `ShmSegment` has, and its region, which nothing re-reads.
* `ShmSegment`: the size of an object at the time it is mapped. `open_existing` does not look at it, and an opener that comes between the
  creator's `shm_open` and `ftruncate` faults at its first access; the Windows build, which sizes a mapping when it creates it.
* `ImuSpi`: damaged bytes, unknown message ids (both in `PacketStream`), FIFO disable, the identity's mismatch (a probe that
  fails leaves no state). Bus faults other than a timeout or a stop do not exist on this bus.
* `Mmc5983ma`: `reset()` and `terminate()` of its FMU, which detach the endpoint, so that every later transaction of the driver faults
  (the barometer's are modelled in `Bmp390`); the temperature measurement, self test, periodic SET (active only
  under automatic set/reset, where polarity does not count), the identity register, transfers that fail. A
  caller uses either `read_sample` or `measure_once`, as the header asks ("instead of continuous mode");
  `measure_once` acknowledges before its burst, so mixing the two can hand a measurement out twice.
* `Bmp390`: forced mode and the part's FIFO, which the driver never selects.
* `Watchdog`: a timeout of zero, which is late at once and expires at the next step.
* `PacketStream`, `NmeaStream`: a checksum that fits by accident.
* `FlightComputer`: errors of `select` and `recvfrom` on an open socket; the wires, which the other models have. A rocket may finish its magnetometer's probe without a step of the host
  whether or not it was told to skip the conditioning.
* `I2cTcpBridge`: a read whose bytes mix two walks is told apart only by the walk its result is of; `I2cShmBus` has them byte block by byte block.
* The components marked `not_modelled` in `PROJECT.json`, each with its reason: the fault registry, the CAN queue, the RTOS descriptors and the battery monitor are
  tables, wrappers and comparisons used by one thread, where unit tests reach everything.

## Plan

The modules of the first plan are written, and every safety property of the passing runs is proved. What is left, in this order:

1. `ShmSegment` joined to the attach of `I2cShmBus`, for a peripheral that is killed and started again.
2. The size of an object when it is mapped, so that an opener between the creator's two system calls shows.
3. The refinement of a raw-sample stream by `ImuSpi`, whose parser is that of `PacketStream` on a wire without damage.

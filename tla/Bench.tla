-------------------------------- MODULE Bench --------------------------------
(***************************************************************************)
(* Ten components that are checked one at a time, side by side: `mounted'  *)
(* says which of them a behaviour runs; the others do not exist in it.     *)
(* Only one is ever mounted, so all but the watchdog, which this module    *)
(* extends and which is at rest otherwise, share the variables v1 to v21.  *)
(***************************************************************************)
EXTENDS Watchdog

CONSTANTS
  Timeout, TicksPerMs, MaxDatagrams,                        \* UdpWait
  MaxObjects,                                               \* ShmSegment
  Rails, MaxRails, ConfirmTimeouts, SequencerTicks, Width,  \* RegulatorSequencer
  MaxSkip, ByteBase, FrameFaults,                           \* PacketStream
  BodyLength, BufferLength, NmeaEpochs, NmeaFaults,         \* NmeaStream
  MaxArgs, StopTime,                                        \* CosimHost
  MaxTransfers, MaxConnections,                             \* I2cTcpBridge
  StepTime, Latencies, HoldOffs, MaxSteppedTime, MaxRuns,   \* GpsReceiver
  MaxEpochs, SamplesPerStep, SocketCapacity, Batch, MaxAttempts  \* FlightComputer

VARIABLES
  mounted,
  v1, v2, v3, v4, v5, v6, v7, v8, v9, v10, v11, v12, v13, v14, v15, v16, v17, v18,
  v19, v20, v21

Wait == INSTANCE UdpWait WITH
  remaining <- v1, queue <- v2, arrived <- v3, at <- v4, blocked <- v5, result <-
  v6, packet <- v7

Segment == INSTANCE ShmSegment WITH
  Processes <- Ids,
  name <- v1, created <- v2, call <- v3, held <- v4, crashed <- v5

Sequencer == INSTANCE RegulatorSequencer WITH
  Timeouts <- ConfirmTimeouts, Ticks <- SequencerTicks,
  rail_ids <- v1, confirm_timeout <- v2, index <- v3, elapsed <- v4, state <- v5,
  confirmed <- v6, silent <- v7

Packets == INSTANCE PacketStream WITH
  MaxFaults <- FrameFaults,
  format <- v1, frame <- v2, parser <- v3, result <- v4, ready <- v5, missed <- v6,
  faults <- v7

Nmea == INSTANCE NmeaStream WITH
  MaxEpochs <- NmeaEpochs, MaxFaults <- NmeaFaults,
  epoch <- v1, sentence <- v2, at <- v3, usable <- v4, inSentence <- v5, length <-
  v6, sum <- v7, text <- v8, outcome <- v9, fix <- v10, garbled <- v11, faults <- v12

Host == INSTANCE CosimHost WITH
  program <- v1, args <- v2, pass <- v3, at <- v4, options <- v5, names <- v6, stage
  <- v7, time <- v8, inputs <- v9, field <- v10, refused <- v11, row <- v12

Tcp == INSTANCE I2cTcpBridge WITH
  pendingWrite <- v1, waiting <- v2, client <- v3, given <- v4, transfers <- v5,
  connections <- v6, requests <- v7, responses <- v8, open <- v9, serving <- v10, at
  <- v11, header <- v12, result <- v13, present <- v14, bus <- v15

Gps == INSTANCE GpsReceiver WITH
  MaxTime <- MaxSteppedTime,
  life <- v1, now <- v2, latency <- v3, nedWritten <- v4, line <- v5, due <- v6,
  platform <- v7, cocom <- v8, holdOff <- v9, previous <- v10, reacquiredAt <- v11,
  solution <- v12, sent <- v13, run <- v14, tripped <- v15

Flight == INSTANCE FlightComputer WITH
  program <- v1, host <- v2, epochs <- v3, lostEpochs <- v4, lostReturns <- v5,
  pending <- v6, bound <- v7, gpsSocket <- v8, radaltSocket <- v9, at <- v10, left
  <- v11, drained <- v12, attempts <- v13, probedAt <- v14, fixes <- v15, returns <-
  v16, before <- v17, heard <- v18, gone <- v19, imuFailed <- v20, stamped <- v21

\* What the components make of their bounds, none of it more than the code does:
\* a wait in whole ticks, counters wider than a timeout and a tick, a simulated
\* step that takes time, sockets read by at least one datagram at a time, payloads
\* skipped up to the longest a parser of the kind is sent, and a buffer for all of
\* a sentence that is kept.
ASSUME BenchAssumption ==
  /\ Timeout \in Nat /\ TicksPerMs \in Nat \ {0}
  /\ MaxRails \in Nat /\ Sequencer!NoWrap
  /\ MaxConnections \in Nat
  /\ StepTime \in Nat \ {0} /\ Latencies \subseteq Nat /\ HoldOffs \subseteq Nat
  /\ MaxSkip \in Nat /\ MaxSkip >= 3 /\ ByteBase \in Nat
  /\ BodyLength \in Nat /\ BufferLength \in Nat /\ BodyLength + 2 <= BufferLength
  /\ SamplesPerStep \in Nat /\ SocketCapacity \in Nat /\ Batch \in Nat \ {0}

(***************************************************************************)
(* The variables a component leaves unused: those from the nth on.         *)
(***************************************************************************)
From16 == <<v16, v17, v18, v19, v20, v21>>
From15 == <<v15, From16>>
From14 == <<v14, From15>>
From13 == <<v13, From14>>
From8 == <<v8, v9, v10, v11, v12, From13>>
From6 == <<v6, v7, From8>>
Shared == <<v1, v2, v3, v4, v5, From6>>
benchVars == <<vars, mounted, Shared>>

Blank16 == v16 = 0 /\ v17 = 0 /\ v18 = 0 /\ v19 = 0 /\ v20 = 0 /\ v21 = 0
Blank15 == v15 = 0 /\ Blank16
Blank14 == v14 = 0 /\ Blank15
Blank13 == v13 = 0 /\ Blank14
Blank8 == v8 = 0 /\ v9 = 0 /\ v10 = 0 /\ v11 = 0 /\ v12 = 0 /\ Blank13
Blank6 == v6 = 0 /\ v7 = 0 /\ Blank8

BenchInit ==
  /\ Init
  /\ \/ mounted = "watchdog" /\ v1 = 0 /\ v2 = 0 /\ v3 = 0 /\ v4 = 0 /\ v5 = 0 /\ Blank6
     \/ mounted = "wait" /\ Wait!Init /\ Blank8
     \/ mounted = "segment" /\ Segment!Init /\ Blank6
     \/ mounted = "sequencer" /\ Sequencer!Init /\ Blank8
     \/ mounted = "packets" /\ Packets!Init /\ Blank8
     \/ mounted = "nmea" /\ Nmea!Init /\ Blank13
     \/ mounted = "host" /\ Host!Init /\ Blank13
     \/ mounted = "tcp" /\ Tcp!Init /\ Blank16
     \/ mounted = "gps" /\ Gps!Init /\ Blank16
     \/ mounted = "flight" /\ Flight!Init

WatchdogNext == mounted = "watchdog" /\ Next /\ UNCHANGED <<mounted, Shared>>
WaitNext == mounted = "wait" /\ Wait!Next /\ UNCHANGED <<vars, mounted, From8>>
SegmentNext == mounted = "segment" /\ Segment!Next /\ UNCHANGED <<vars, mounted, From6>>
SequencerNext == mounted = "sequencer" /\ Sequencer!Next /\ UNCHANGED <<vars, mounted, From8>>
PacketsNext == mounted = "packets" /\ Packets!Next /\ UNCHANGED <<vars, mounted, From8>>
NmeaNext == mounted = "nmea" /\ Nmea!Next /\ UNCHANGED <<vars, mounted, From13>>
HostNext == mounted = "host" /\ Host!Next /\ UNCHANGED <<vars, mounted, From13>>
TcpNext == mounted = "tcp" /\ Tcp!Next /\ UNCHANGED <<vars, mounted, From16>>
GpsNext == mounted = "gps" /\ Gps!Next /\ UNCHANGED <<vars, mounted, From16>>
FlightNext == mounted = "flight" /\ Flight!Next /\ UNCHANGED <<vars, mounted>>

BenchNext ==
  \/ WatchdogNext \/ WaitNext \/ SegmentNext \/ SequencerNext \/ PacketsNext
  \/ NmeaNext \/ HostNext \/ TcpNext \/ GpsNext \/ FlightNext

\* Fairness is the flight computer's alone: its process is scheduled.
ComputerStep == mounted = "flight" /\ Flight!Computer /\ UNCHANGED <<vars, mounted>>

BenchSpec == BenchInit /\ [][BenchNext]_benchVars /\ WF_benchVars(ComputerStep)

-----------------------------------------------------------------------------
\* UdpBridge::wait_for_packet: no wait gives up more than a millisecond early unless
\* the socket below it fails.
NoEarlyTimeout == mounted = "wait" => Wait!NoEarlyTimeout

\* ShmSegment: the name leads to its one owner's segment, however processes race
\* in create(), open_existing(), moves and destructors; only a crash leaves it.
NameIsItsOwners == mounted = "segment" => Segment!NameIsItsOwners

\* RegulatorSequencer: rails in their order, each with a timeout of its own.
RailsInTurn == mounted = "sequencer" => Sequencer!RailsInTurn

\* The packet parsers: a frame that arrives whole is reported, and nothing else.
ReportsWholeFrames == [][mounted = "packets" => Packets!ReportsWholeFrames]_benchVars

\* The packet parsers: a damaged length costs a bounded number of good frames.
ResyncBounded == mounted = "packets" => Packets!ResyncBounded

\* NmeaParser: a GGA and an RMC that arrive as sent make a fix of their epoch.
PairMakesFix == mounted = "nmea" => Nmea!PairMakesFix

\* The co-simulation hosts' parse_args(): explicit options win over the case's.
ExplicitOptionsWin == [][mounted = "host" => Host!ExplicitOptionsWin]_benchVars

\* The co-simulation hosts' loop: what is logged is what the next step samples.
LoggedInputsAreSampled == [][mounted = "host" => Host!LoggedInputsAreSampled]_benchVars

\* HemerionI2cBridge and i2c_shm_tcp_bridge: an answer is to the transfer made.
AnswersThisTransfer == [][mounted = "tcp" => Tcp!AnswersThisTransfer]_benchVars

\* The GPS FMU's latency line: fixes leave in order and when they are due.
FixesLeaveOnTime == [][mounted = "gps" => Gps!FixesLeaveOnTime]_benchVars

\* The GPS FMU's dynamics envelope: no fix before the hold-off is over.
NoFixDuringHoldOff == mounted = "gps" => Gps!NoFixDuringHoldOff

\* The flight computers' final drain: what the sockets took has been counted.
CountsWhatWasSent == mounted = "flight" => Flight!CountsWhatWasSent

\* "so a scripted run never hangs": once the co-simulation has terminated the
\* flight computer ends, wherever in its bring-up, its loop or its drain it is.
HostEndEndsFlight ==
  (mounted = "flight" /\ Flight!HostEnded) ~> (mounted = "flight" /\ Flight!FlightEnded)
=============================================================================

\* Ten components, one after the other.
SPECIFICATION BenchSpec
CONSTANTS
  Ids = {a, b, c}
  Slots = 2
  Modulus = 8
  Timeouts = {2, 5}
  Ticks = {1, 3}
  MaxTime = 11
  \* UdpWait
  Timeout = 10
  TicksPerMs = 4
  MaxDatagrams = 2
  \* ShmSegment
  MaxObjects = 3
  \* RegulatorSequencer
  Rails = {1, 2}
  MaxRails = 3
  ConfirmTimeouts = {0, 3}
  SequencerTicks = {0, 1, 2, 4}
  Width = 8
  \* PacketStream
  MaxSkip = 9
  ByteBase = 5
  FrameFaults = 2
  \* NmeaStream
  BodyLength = 2
  BufferLength = 5
  NmeaEpochs = 3
  NmeaFaults = 3
  \* CosimHost
  MaxArgs = 4
  StopTime = 3
  \* I2cTcpBridge
  MaxTransfers = 3
  MaxConnections = 2
  \* GpsReceiver
  StepTime = 2
  Latencies = {0, 3, 4}
  HoldOffs = {0, 3}
  MaxSteppedTime = 10
  MaxRuns = 2
  \* FlightComputer
  MaxEpochs = 4
  SamplesPerStep = 2
  SocketCapacity = 3
  Batch = 2
  MaxAttempts = 2
  a = a
  b = b
  c = c
INVARIANTS
  AlarmsAreOnTime
  NoEarlyTimeout
  NameIsItsOwners
  RailsInTurn
  ResyncBounded
  PairMakesFix
  NoFixDuringHoldOff
  CountsWhatWasSent
PROPERTIES
  ReportsWholeFrames
  ExplicitOptionsWin
  LoggedInputsAreSampled
  AnswersThisTransfer
  FixesLeaveOnTime
  HostEndEndsFlight
\* A component may be done, or out of what bounds it.
CHECK_DEADLOCK FALSE

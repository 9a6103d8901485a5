----------------------------- MODULE BenchProofs -----------------------------
(***************************************************************************)
(* What the components' theorems say of the bench.  Each theorem about a   *)
(* component is about that component alone; here it becomes a theorem of   *)
(* the specification TLC checks, for all bounds at once: while a component *)
(* is mounted a step of the bench is one of its steps, and no step mounts  *)
(* another.  `Component' is the module of their proofs on the bench's      *)
(* shared variables; its definitions and those of the bench's own          *)
(* instances are the same formulas, which the step named <1>3 of every     *)
(* proof shows by unfolding both.                                          *)
(***************************************************************************)
EXTENDS Bench, TLAPS

Component == INSTANCE ComponentProofs WITH
  Processes <- Ids,
  MaxFaults <- FrameFaults,
  format <- v1, frame <- v2, parser <- v3, result <- v4, ready <- v5, missed <- v6,
  faults <- v7,
  pendingWrite <- v1, waiting <- v2, client <- v3, given <- v4, transfers <- v5,
  connections <- v6, requests <- v7, responses <- v8, open <- v9, serving <- v10,
  bridgeAt <- v11, header <- v12, bridgeResult <- v13, present <- v14, bus <- v15,
  remaining <- v1, queue <- v2, arrived <- v3, at <- v4, blocked <- v5, waitResult <- v6,
  packet <- v7,
  name <- v1, created <- v2, call <- v3, held <- v4, crashed <- v5,
  rail_ids <- v1, confirm_timeout <- v2, index <- v3, railElapsed <- v4, state <- v5,
  confirmed <- v6, silent <- v7,
  life <- v1, simTime <- v2, latency <- v3, nedWritten <- v4, line <- v5, due <- v6,
  platform <- v7, cocom <- v8, holdOff <- v9, previous <- v10, reacquiredAt <- v11,
  solution <- v12, sent <- v13, run <- v14, tripped <- v15,
  program <- v1, host <- v2, epochs <- v3, lostEpochs <- v4, lostReturns <- v5,
  pending <- v6, bound <- v7, gpsSocket <- v8, radaltSocket <- v9, flightAt <- v10,
  left <- v11, drained <- v12, attempts <- v13, probedAt <- v14, fixes <- v15,
  returns <- v16, before <- v17, heard <- v18, gone <- v19, imuFailed <- v20,
  stamped <- v21,
  epoch <- v1, sentence <- v2, nmeaAt <- v3, usable <- v4, inSentence <- v5,
  nmeaLength <- v6, nmeaSum <- v7, text <- v8, outcome <- v9, fix <- v10, garbled <- v11,
  nmeaFaults <- v12,
  hostProgram <- v1, args <- v2, pass <- v3, hostAt <- v4, options <- v5, names <- v6,
  stage <- v7, hostTime <- v8, inputs <- v9, field <- v10, refused <- v11, row <- v12

(***************************************************************************)
(* The watchdog, which the bench extends.                                  *)
(***************************************************************************)
\* The elapsed counters and the history keep their types and their ranges,
\* wherever the counters wrap (watchdog.cpp:39-96).
THEOREM TypeCorrect == Spec => []TypeOK
<1>1. Init => TypeOK
  BY WidthAssumption DEF Init, TypeOK
<1>2. TypeOK /\ [Next]_vars => TypeOK'
  <2> SUFFICES ASSUME TypeOK, [Next]_vars PROVE TypeOK'
    OBVIOUS
  <2> USE WidthAssumption DEF TypeOK
  <2>1. ASSUME NEW id \in Ids, NEW ms \in Timeouts, RegisterChannel(id, ms) PROVE TypeOK'
    BY <2>1 DEF RegisterChannel
  <2>2. ASSUME NEW id \in Ids, Kick(id) PROVE TypeOK'
    BY <2>2 DEF Kick
  <2>3. ASSUME NEW ms \in Ticks, Step(ms) PROVE TypeOK'
    <3>1. \A id \in Ids : Advanced(id, ms) \in 0 .. Modulus - 1
      BY DEF Advanced
    <3> QED
      BY <2>3, <3>1 DEF Step
  <2>4. CASE UNCHANGED vars
    BY <2>4 DEF vars
  <2> QED
    BY <2>1, <2>2, <2>3, <2>4 DEF Next
<1> QED
  BY <1>1, <1>2, PTL DEF Spec

\* While no tick carries a running channel past the width, a channel expires
\* exactly when it is late: the wrap of an expired one's counter is harmless,
\* because the expiry is latched (watchdog.cpp:66-89). And no alarm is hidden:
\* step() reports kOk only while no channel is expired.
THEOREM DeadlinesAreKept ==
  ASSUME NoWrap
  PROVE  Spec => []AlarmsAreOnTime
<1>1. Init => WatchdogInv
  BY WidthAssumption DEF Init, WatchdogInv, TypeOK, AlarmsAreOnTime, ExpiredWhenLate,
       StatusCoversAll, ElapsedIsExact
<1>2. WatchdogInv /\ [Next]_vars => WatchdogInv'
  <2> SUFFICES ASSUME WatchdogInv, [Next]_vars PROVE WatchdogInv'
    OBVIOUS
  <2> USE WidthAssumption DEF WatchdogInv, TypeOK, AlarmsAreOnTime, ExpiredWhenLate,
       StatusCoversAll,
           ElapsedIsExact, Late
  <2>1. ASSUME NEW id \in Ids, NEW ms \in Timeouts, RegisterChannel(id, ms) PROVE WatchdogInv'
    BY <2>1 DEF RegisterChannel
  <2>2. ASSUME NEW id \in Ids, Kick(id) PROVE WatchdogInv'
    BY <2>2 DEF Kick
  <2>3. ASSUME NEW ms \in Ticks, Step(ms) PROVE WatchdogInv'
    <3>1. \A id \in Ids : Advanced(id, ms) \in 0 .. Modulus - 1
      BY DEF Advanced
    <3>2. ASSUME NEW id \in registered, expired[id] = 0
          PROVE  Advanced(id, ms) = now + ms - fed[id]
      <4>1. elapsed[id] = now - fed[id] /\ elapsed[id] < timeout[id]
        BY <3>2
      <4>2. elapsed[id] + ms \in 0 .. Modulus - 1
        BY <4>1, NoWrap DEF NoWrap
      <4>3. (elapsed[id] + ms) % Modulus = elapsed[id] + ms
        BY <4>2, Component!BelowWidth
      <4> QED
        BY <4>1, <4>3 DEF Advanced
    <3>3. (TypeOK /\ ExpiredWhenLate /\ ElapsedIsExact)'
      BY <2>3, <3>1, <3>2 DEF Step
    <3>4. StatusCoversAll'
      <4> SUFFICES ASSUME status' = 0, NEW id \in registered PROVE expired'[id] = 0
        BY <2>3 DEF Step
      <4>1. ~\E other \in registered : expired'[other] = 1
        BY <2>3 DEF Step
      <4> QED
        BY <4>1, <3>3
    <3> QED
      BY <3>3, <3>4
  <2>4. CASE UNCHANGED vars
    BY <2>4 DEF vars
  <2> QED
    BY <2>1, <2>2, <2>3, <2>4 DEF Next
<1>3. WatchdogInv => AlarmsAreOnTime
  BY DEF WatchdogInv
<1> QED
  BY <1>1, <1>2, <1>3, PTL DEF Spec

(***************************************************************************)
(* The components that are mounted.                                        *)
(***************************************************************************)
\* What is mounted stays mounted.
LEMMA MountedStays == [BenchNext]_benchVars => UNCHANGED mounted
  BY DEF BenchNext, benchVars, WatchdogNext, WaitNext, SegmentNext, SequencerNext,
     PacketsNext, NmeaNext, HostNext, TcpNext, GpsNext, FlightNext

\* A step of the bench is one of the component that is mounted.
LEMMA MountedMoves ==
  ASSUME [BenchNext]_benchVars
  PROVE  /\ mounted = "wait" => [Wait!Next]_(Wait!vars)
         /\ mounted = "segment" => [Segment!Next]_(Segment!vars)
         /\ mounted = "sequencer" => [Sequencer!Next]_(Sequencer!vars)
         /\ mounted = "packets" => [Packets!Next]_(Packets!vars)
         /\ mounted = "nmea" => [Nmea!Next]_(Nmea!vars)
         /\ mounted = "host" => [Host!Next]_(Host!vars)
         /\ mounted = "tcp" => [Tcp!Next]_(Tcp!vars)
         /\ mounted = "gps" => [Gps!Next]_(Gps!vars)
         /\ mounted = "flight" => [Flight!Next]_(Flight!vars)
<1>1. CASE BenchNext
  BY <1>1 DEF BenchNext, WatchdogNext, WaitNext, SegmentNext, SequencerNext,
     PacketsNext, NmeaNext, HostNext, TcpNext, GpsNext, FlightNext
<1>2. CASE UNCHANGED benchVars
  BY <1>2 DEF benchVars, Shared, From6, From8, From13, From14, From15, From16,
     Packets!vars, Nmea!sent, Nmea!parser, Nmea!vars,
     Host!parsing, Host!running, Host!vars,
     Wait!vars, Segment!vars, Sequencer!vars, Tcp!vars, Tcp!peripheral, Tcp!wire, Tcp!bridge,
     Gps!vars, Gps!fmu,
     Gps!dynamics, Gps!history, Flight!vars, Flight!hostVars, Flight!sockets, Flight!bringUp,
     Flight!counts, Flight!flight
<1> QED
  BY <1>1, <1>2

\* UdpBridge::wait_for_packet() gives no wait up more than a millisecond early, for
\* any timeout and however many datagrams make it start again (udp_bridge.cpp:205).
THEOREM WaitsOnTheBench == BenchSpec => []NoEarlyTimeout
<1>1. BenchInit => (mounted = "wait" => Wait!Init)
  BY DEF BenchInit
<1>2. [BenchNext]_benchVars =>
        /\ mounted = "wait" => (mounted = "wait")' /\ [Wait!Next]_(Wait!vars)
        /\ ~(mounted = "wait") => ~(mounted = "wait")'
  BY MountedStays, MountedMoves
<1>3. /\ Wait!Init => Component!Wait!Init
      /\ [Wait!Next]_(Wait!vars) => [Component!Wait!Next]_(Component!Wait!vars)
      /\ Component!Wait!NoEarlyTimeout => Wait!NoEarlyTimeout
  BY DEF
     Wait!vars, Wait!Datagrams, Wait!Forever, Wait!Init, Wait!Tick, Wait!Arrive,
     Wait!Return, Wait!DeadlinePassed, Wait!RecvTimeout, Wait!StartRecv,
     Wait!Classify, Wait!ReceiveDatagram, Wait!RecvTimesOut, Wait!RecvFails, Wait!Wait,
     Wait!Next, Wait!NoEarlyTimeout, Component!Wait!vars, Component!Wait!Datagrams,
     Component!Wait!Forever, Component!Wait!Init, Component!Wait!Tick,
     Component!Wait!Arrive, Component!Wait!Return, Component!Wait!DeadlinePassed,
     Component!Wait!RecvTimeout, Component!Wait!StartRecv, Component!Wait!Classify,
     Component!Wait!ReceiveDatagram, Component!Wait!RecvTimesOut, Component!Wait!RecvFails,
     Component!Wait!Wait, Component!Wait!Next, Component!Wait!NoEarlyTimeout
<1>4. Component!Wait!Spec => []Component!Wait!NoEarlyTimeout
  <2>1. TicksPerMs \in Nat \ {0} /\ Timeout \in Nat
    BY BenchAssumption DEF BenchAssumption
  <2> QED
    BY <2>1, Component!WaitsAreLongEnough
<1>5. (mounted = "wait" => Wait!NoEarlyTimeout) => NoEarlyTimeout
  BY DEF NoEarlyTimeout
<1> QED
  BY <1>1, <1>2, <1>3, <1>4, <1>5, PTL DEF BenchSpec, Component!Wait!Spec

\* ShmSegment::create() is exclusive among any number of processes: the name leads to
\* the one segment whose owner will unlink it, and outlives it by a crash only.
THEOREM SegmentsOnTheBench == BenchSpec => []NameIsItsOwners
<1>1. BenchInit => (mounted = "segment" => Segment!Init)
  BY DEF BenchInit
<1>2. [BenchNext]_benchVars =>
        /\ mounted = "segment" => (mounted = "segment")' /\ [Segment!Next]_(Segment!vars)
        /\ ~(mounted = "segment") => ~(mounted = "segment")'
  BY MountedStays, MountedMoves
<1>3. /\ Segment!Init => Component!Segment!Init
      /\ [Segment!Next]_(Segment!vars) => [Component!Segment!Next]_(Component!Segment!vars)
      /\ Component!Segment!NameIsItsOwners => Segment!NameIsItsOwners
  BY DEF
     Segment!vars, Segment!None, Segment!NoCall, Segment!NoSegment, Segment!Init,
     Segment!Steps, Segment!Goes, Segment!Returns, Segment!CreateName,
     Segment!SizeSegment, Segment!GiveUpCreate, Segment!OpenName,
     Segment!GiveUpOpen, Segment!Unlinked, Segment!Adopt, Segment!CreateReturns,
     Segment!OpenReturns, Segment!Reset, Segment!Crash, Segment!Next, Segment!Owns,
     Segment!NameIsItsOwners, Component!Segment!vars, Component!Segment!None,
     Component!Segment!NoCall, Component!Segment!NoSegment, Component!Segment!Init,
     Component!Segment!Steps, Component!Segment!Goes, Component!Segment!Returns,
     Component!Segment!CreateName, Component!Segment!SizeSegment,
     Component!Segment!GiveUpCreate, Component!Segment!OpenName,
     Component!Segment!GiveUpOpen, Component!Segment!Unlinked,
     Component!Segment!Adopt, Component!Segment!CreateReturns,
     Component!Segment!OpenReturns, Component!Segment!Reset,
     Component!Segment!Crash, Component!Segment!Next, Component!Segment!Owns,
     Component!Segment!NameIsItsOwners
<1>4. Component!Segment!Spec => []Component!Segment!NameIsItsOwners
  BY Component!CreateIsExclusive
<1>5. (mounted = "segment" => Segment!NameIsItsOwners) => NameIsItsOwners
  BY DEF NameIsItsOwners
<1> QED
  BY <1>1, <1>2, <1>3, <1>4, <1>5, PTL DEF BenchSpec, Component!Segment!Spec

\* RegulatorSequencer::step() takes the rails in their order, and faults on the one it
\* waits for, whose own silence has lasted its timeout: any rails, timeouts, ticks.
THEOREM RailsOnTheBench == BenchSpec => []RailsInTurn
<1>1. BenchInit => (mounted = "sequencer" => Sequencer!Init)
  BY DEF BenchInit
<1>2. [BenchNext]_benchVars =>
        /\ mounted = "sequencer" => (mounted = "sequencer")' /\ [Sequencer!Next]_(Sequencer!vars)
        /\ ~(mounted = "sequencer") => ~(mounted = "sequencer")'
  BY MountedStays, MountedMoves
<1>3. /\ Sequencer!Init => Component!Sequencer!Init
      /\ [Sequencer!Next]_(Sequencer!vars) => [Component!Sequencer!Next]_(Component!Sequencer!vars)
      /\ Component!Sequencer!RailsInTurn => Sequencer!RailsInTurn
  BY DEF
     Sequencer!vars, Sequencer!Init, Sequencer!Configure, Sequencer!Start,
     Sequencer!CurrentRail, Sequencer!PowerGood, Sequencer!Silent, Sequencer!Next,
     Sequencer!RailsInTurn, Component!Sequencer!vars, Component!Sequencer!Init,
     Component!Sequencer!Configure, Component!Sequencer!Start,
     Component!Sequencer!CurrentRail, Component!Sequencer!PowerGood,
     Component!Sequencer!Silent, Component!Sequencer!Next,
     Component!Sequencer!RailsInTurn
<1>4. Component!Sequencer!Spec => []Component!Sequencer!RailsInTurn
  <2>1. Component!Sequencer!NoWrap /\ MaxRails \in Nat
    BY BenchAssumption DEF BenchAssumption, Sequencer!NoWrap, Component!Sequencer!NoWrap
  <2> QED
    BY <2>1, Component!RailsComeInTurn
<1>5. (mounted = "sequencer" => Sequencer!RailsInTurn) => RailsInTurn
  BY DEF RailsInTurn
<1> QED
  BY <1>1, <1>2, <1>3, <1>4, <1>5, PTL DEF BenchSpec, Component!Sequencer!Spec

\* The HemerionI2cBridge peripheral gives the firmware no answer but the one to the
\* transfer it made, whatever was given up and reconnected before.
THEOREM AnswersOnTheBench == BenchSpec => AnswersThisTransfer
<1>1. BenchInit => (mounted = "tcp" => Tcp!Init)
  BY DEF BenchInit
<1>2. [BenchNext]_benchVars =>
        /\ mounted = "tcp" => (mounted = "tcp")' /\ [Tcp!Next]_(Tcp!vars)
        /\ ~(mounted = "tcp") => ~(mounted = "tcp")'
  BY MountedStays, MountedMoves
<1>3. /\ Tcp!Init => Component!Tcp!Init
      /\ [Tcp!Next]_(Tcp!vars) => [Component!Tcp!Next]_(Component!Tcp!vars)
      /\ [Component!Tcp!AnswersThisTransfer]_(Component!Tcp!vars) =>
           [Tcp!AnswersThisTransfer]_(Tcp!vars)
  BY DEF
     Tcp!peripheral, Tcp!wire, Tcp!bridge, Tcp!vars, Tcp!None, Tcp!Idle,
     Tcp!Floating, Tcp!Connections, Tcp!Init, Tcp!Write, Tcp!Disconnect,
     Tcp!EnsureConnected, Tcp!Piece, Tcp!Request, Tcp!Transact, Tcp!Read,
     Tcp!FinishTransmission, Tcp!CannotConnect, Tcp!Answer, Tcp!AnswerLength,
     Tcp!ReceiveAnswer, Tcp!LoseAnswer, Tcp!ResetMachine, Tcp!Incoming,
     Tcp!Consume, Tcp!Reply, Tcp!SendResult, Tcp!Accept, Tcp!ClientGone,
     Tcp!HeaderIn, Tcp!ReceiveHeader, Tcp!Drain, Tcp!Refuse, Tcp!ReceiveBytes,
     Tcp!Walked, Tcp!Overtaken, Tcp!TimesOut, Tcp!PeripheralDown, Tcp!Own,
     Tcp!TransactOnBus, Tcp!SendAnswer, Tcp!SendReadBytes, Tcp!SendFails,
     Tcp!Served, Tcp!PowerDown, Tcp!Next, Tcp!AnswersThisTransfer,
     Component!Tcp!peripheral, Component!Tcp!wire, Component!Tcp!bridge, Component!Tcp!vars,
     Component!Tcp!None,
     Component!Tcp!Idle, Component!Tcp!Floating, Component!Tcp!Connections, Component!Tcp!Init,
     Component!Tcp!Write,
     Component!Tcp!Disconnect, Component!Tcp!EnsureConnected, Component!Tcp!Piece,
     Component!Tcp!Request,
     Component!Tcp!Transact, Component!Tcp!Read, Component!Tcp!FinishTransmission,
     Component!Tcp!CannotConnect,
     Component!Tcp!Answer, Component!Tcp!AnswerLength, Component!Tcp!ReceiveAnswer,
     Component!Tcp!LoseAnswer,
     Component!Tcp!ResetMachine, Component!Tcp!Incoming, Component!Tcp!Consume,
     Component!Tcp!Reply,
     Component!Tcp!SendResult, Component!Tcp!Accept, Component!Tcp!ClientGone,
     Component!Tcp!HeaderIn,
     Component!Tcp!ReceiveHeader, Component!Tcp!Drain, Component!Tcp!Refuse,
     Component!Tcp!ReceiveBytes,
     Component!Tcp!Walked, Component!Tcp!Overtaken, Component!Tcp!TimesOut,
     Component!Tcp!PeripheralDown, Component!Tcp!Own,
     Component!Tcp!TransactOnBus, Component!Tcp!SendAnswer, Component!Tcp!SendReadBytes,
     Component!Tcp!SendFails, Component!Tcp!Served, Component!Tcp!PowerDown, Component!Tcp!Next,
     Component!Tcp!AnswersThisTransfer
<1>4. Component!Tcp!Spec => [][Component!Tcp!AnswersThisTransfer]_(Component!Tcp!vars)
  <2>1. MaxConnections \in Nat
    BY BenchAssumption DEF BenchAssumption
  <2> QED
    BY <2>1, Component!AnswersAreTheirs
<1>5. ASSUME [BenchNext]_benchVars,
             mounted = "tcp" => [Tcp!AnswersThisTransfer]_(Tcp!vars)
      PROVE  [mounted = "tcp" => Tcp!AnswersThisTransfer]_benchVars
  <2>1. CASE mounted = "tcp" /\ BenchNext /\ UNCHANGED Tcp!vars
    <3>1. UNCHANGED benchVars
      BY <2>1 DEF BenchNext, WatchdogNext, WaitNext, SegmentNext, SequencerNext,
         PacketsNext, NmeaNext, HostNext, TcpNext, GpsNext, FlightNext, benchVars, Shared,
         From6, From8, From13, From14, From15, From16,
         Tcp!vars, Tcp!peripheral, Tcp!wire, Tcp!bridge
    <3> QED
      BY <3>1
  <2> QED
    BY <1>5, <2>1
<1> QED
  BY <1>1, <1>2, <1>3, <1>4, <1>5, PTL DEF BenchSpec, Component!Tcp!Spec, AnswersThisTransfer

\* The GPS FMU's dynamics envelope reports no solution before the hold-off after the
\* last limit that tripped, for any step size, latencies and hold-offs.
THEOREM HoldOffOnTheBench == BenchSpec => []NoFixDuringHoldOff
<1>1. BenchInit => (mounted = "gps" => Gps!Init)
  BY DEF BenchInit
<1>2. [BenchNext]_benchVars =>
        /\ mounted = "gps" => (mounted = "gps")' /\ [Gps!Next]_(Gps!vars)
        /\ ~(mounted = "gps") => ~(mounted = "gps")'
  BY MountedStays, MountedMoves
<1>3. /\ Gps!Init => Component!Gps!Init
      /\ [Gps!Next]_(Gps!vars) => [Component!Gps!Next]_(Component!Gps!vars)
      /\ Component!Gps!NoFixDuringHoldOff => Gps!NoFixDuringHoldOff
  BY DEF
     Gps!fmu, Gps!dynamics, Gps!history, Gps!vars, Gps!Never, Gps!NoSample,
     Gps!NoSolution, Gps!NotSent, Gps!Truths, Gps!Speed, Gps!Init,
     Gps!CreateSender, Gps!ExitInitialisationMode, Gps!Terminate, Gps!Reset,
     Gps!ApplyDynamicsConfig, Gps!WriteNedVelocity, Gps!Accelerates, Gps!Trips,
     Gps!Evaluate, Gps!IsValid, Gps!Frame, Gps!DuePrefixes, Gps!DoStep, Gps!Send,
     Gps!Next, Gps!NoFixDuringHoldOff, Component!Gps!fmu, Component!Gps!dynamics,
     Component!Gps!history, Component!Gps!vars, Component!Gps!Never,
     Component!Gps!NoSample, Component!Gps!NoSolution, Component!Gps!NotSent,
     Component!Gps!Truths, Component!Gps!Speed, Component!Gps!Init,
     Component!Gps!CreateSender, Component!Gps!ExitInitialisationMode,
     Component!Gps!Terminate, Component!Gps!Reset,
     Component!Gps!ApplyDynamicsConfig, Component!Gps!WriteNedVelocity,
     Component!Gps!Accelerates, Component!Gps!Trips, Component!Gps!Evaluate,
     Component!Gps!IsValid, Component!Gps!Frame, Component!Gps!DuePrefixes,
     Component!Gps!DoStep, Component!Gps!Send, Component!Gps!Next,
     Component!Gps!NoFixDuringHoldOff
<1>4. Component!Gps!Spec => []Component!Gps!NoFixDuringHoldOff
  <2>1. Component!GpsParameters
    BY BenchAssumption DEF BenchAssumption, Component!GpsParameters
  <2> QED
    BY <2>1, Component!HoldOffHolds
<1>5. (mounted = "gps" => Gps!NoFixDuringHoldOff) => NoFixDuringHoldOff
  BY DEF NoFixDuringHoldOff
<1> QED
  BY <1>1, <1>2, <1>3, <1>4, <1>5, PTL DEF BenchSpec, Component!Gps!Spec

\* The GPS FMU's latency line sends fixes in the order they were solved in, none before
\* it is due, none a step late, none of a run before the reset.
THEOREM LatencyOnTheBench == BenchSpec => FixesLeaveOnTime
<1>1. BenchInit => (mounted = "gps" => Gps!Init)
  BY DEF BenchInit
<1>2. [BenchNext]_benchVars =>
        /\ mounted = "gps" => (mounted = "gps")' /\ [Gps!Next]_(Gps!vars)
        /\ ~(mounted = "gps") => ~(mounted = "gps")'
  BY MountedStays, MountedMoves
<1>3. /\ Gps!Init => Component!Gps!Init
      /\ [Gps!Next]_(Gps!vars) => [Component!Gps!Next]_(Component!Gps!vars)
      /\ [Component!Gps!FixesLeaveOnTime]_(Component!Gps!vars) => [Gps!FixesLeaveOnTime]_(Gps!vars)
  BY DEF
     Gps!fmu, Gps!dynamics, Gps!history, Gps!vars, Gps!Never, Gps!NoSample,
     Gps!NoSolution, Gps!NotSent, Gps!Truths, Gps!Speed, Gps!Init,
     Gps!CreateSender, Gps!ExitInitialisationMode, Gps!Terminate, Gps!Reset,
     Gps!ApplyDynamicsConfig, Gps!WriteNedVelocity, Gps!Accelerates, Gps!Trips,
     Gps!Evaluate, Gps!IsValid, Gps!Frame, Gps!DuePrefixes, Gps!DoStep, Gps!Send,
     Gps!Next, Gps!FixesLeaveOnTime, Component!Gps!fmu, Component!Gps!dynamics,
     Component!Gps!history, Component!Gps!vars, Component!Gps!Never,
     Component!Gps!NoSample, Component!Gps!NoSolution, Component!Gps!NotSent,
     Component!Gps!Truths, Component!Gps!Speed, Component!Gps!Init,
     Component!Gps!CreateSender, Component!Gps!ExitInitialisationMode,
     Component!Gps!Terminate, Component!Gps!Reset,
     Component!Gps!ApplyDynamicsConfig, Component!Gps!WriteNedVelocity,
     Component!Gps!Accelerates, Component!Gps!Trips, Component!Gps!Evaluate,
     Component!Gps!IsValid, Component!Gps!Frame, Component!Gps!DuePrefixes,
     Component!Gps!DoStep, Component!Gps!Send, Component!Gps!Next,
     Component!Gps!FixesLeaveOnTime
<1>4. Component!Gps!Spec => [][Component!Gps!FixesLeaveOnTime]_(Component!Gps!vars)
  <2>1. Component!GpsParameters
    BY BenchAssumption DEF BenchAssumption, Component!GpsParameters
  <2> QED
    BY <2>1, Component!LatencyIsKept
<1>5. ASSUME [BenchNext]_benchVars,
             mounted = "gps" => [Gps!FixesLeaveOnTime]_(Gps!vars)
      PROVE  [mounted = "gps" => Gps!FixesLeaveOnTime]_benchVars
  <2>1. CASE mounted = "gps" /\ BenchNext /\ UNCHANGED Gps!vars
    <3>1. UNCHANGED benchVars
      BY <2>1 DEF BenchNext, WatchdogNext, WaitNext, SegmentNext, SequencerNext,
         PacketsNext, NmeaNext, HostNext, TcpNext, GpsNext, FlightNext, benchVars, Shared,
         From6, From8, From13, From14, From15, From16,
         Gps!vars, Gps!fmu, Gps!dynamics, Gps!history
    <3> QED
      BY <3>1
  <2> QED
    BY <1>5, <2>1
<1> QED
  BY <1>1, <1>2, <1>3, <1>4, <1>5, PTL DEF BenchSpec, Component!Gps!Spec, FixesLeaveOnTime

\* The flight computers' final drain: what the sockets took of the host's datagrams
\* is in their counts when they end, for any socket capacity and batch.
THEOREM CountsOnTheBench == BenchSpec => []CountsWhatWasSent
<1>1. BenchInit => (mounted = "flight" => Flight!Init)
  BY DEF BenchInit
<1>2. [BenchNext]_benchVars =>
        /\ mounted = "flight" => (mounted = "flight")' /\ [Flight!Next]_(Flight!vars)
        /\ ~(mounted = "flight") => ~(mounted = "flight")'
  BY MountedStays, MountedMoves
<1>3. /\ Flight!Init => Component!Flight!Init
      /\ [Flight!Next]_(Flight!vars) => [Component!Flight!Next]_(Component!Flight!vars)
      /\ Component!Flight!CountsWhatWasSent => Flight!CountsWhatWasSent
  BY DEF
     Flight!Parts, Flight!hostVars, Flight!sockets, Flight!bringUp, Flight!counts,
     Flight!flight, Flight!vars, Flight!HasRadalt, Flight!Init, Flight!HostStart,
     Flight!Returns, Flight!Room, Flight!Taken, Flight!HostStep,
     Flight!HostTerminate, Flight!Goto, Flight!Fail, Flight!ParseArgs,
     Flight!CreateReceiver, Flight!BindGps, Flight!BindRadalt, Flight!AttachBuses,
     Flight!ProbeImuBaro, Flight!BeginMagProbe, Flight!EndMagProbe,
     Flight!OpenLogs, Flight!AnyData, Flight!LeaveFor, Flight!LeaveLoop,
     Flight!StayInLoop, Flight!Receives, Flight!FeedGps, Flight!AfterDrains,
     Flight!GpsDrained, Flight!FeedRadalt, Flight!RadaltDrained, Flight!TakeSample,
     Flight!NothingNew, Flight!Poll, Flight!PollImu, Flight!PollBaro,
     Flight!PollMag, Flight!FinalRound, Flight!Summary, Flight!F16, Flight!Rocket,
     Flight!RocketParseArgs, Flight!RocketBind, Flight!RocketBringUp,
     Flight!RocketOpenLogs, Flight!RocketDrainGps, Flight!RocketPollImu,
     Flight!RocketPollBaro, Flight!RocketPollMag, Flight!RocketLoop,
     Flight!RocketFinish, Flight!Computer, Flight!Next, Flight!CountsWhatWasSent,
     Component!Flight!Parts, Component!Flight!hostVars, Component!Flight!sockets,
     Component!Flight!bringUp,
     Component!Flight!counts, Component!Flight!flight, Component!Flight!vars,
     Component!Flight!HasRadalt,
     Component!Flight!Init, Component!Flight!HostStart, Component!Flight!Returns,
     Component!Flight!Room,
     Component!Flight!Taken, Component!Flight!HostStep, Component!Flight!HostTerminate,
     Component!Flight!Goto,
     Component!Flight!Fail, Component!Flight!ParseArgs, Component!Flight!CreateReceiver,
     Component!Flight!BindGps,
     Component!Flight!BindRadalt, Component!Flight!AttachBuses, Component!Flight!ProbeImuBaro,
     Component!Flight!BeginMagProbe, Component!Flight!EndMagProbe, Component!Flight!OpenLogs,
     Component!Flight!AnyData, Component!Flight!LeaveFor, Component!Flight!LeaveLoop,
     Component!Flight!StayInLoop,
     Component!Flight!Receives, Component!Flight!FeedGps, Component!Flight!AfterDrains,
     Component!Flight!GpsDrained, Component!Flight!FeedRadalt, Component!Flight!RadaltDrained,
     Component!Flight!TakeSample, Component!Flight!NothingNew, Component!Flight!Poll,
     Component!Flight!PollImu,
     Component!Flight!PollBaro, Component!Flight!PollMag, Component!Flight!FinalRound,
     Component!Flight!Summary,
     Component!Flight!F16, Component!Flight!Rocket, Component!Flight!RocketParseArgs,
     Component!Flight!RocketBind,
     Component!Flight!RocketBringUp, Component!Flight!RocketOpenLogs,
     Component!Flight!RocketDrainGps,
     Component!Flight!RocketPollImu, Component!Flight!RocketPollBaro,
     Component!Flight!RocketPollMag,
     Component!Flight!RocketLoop, Component!Flight!RocketFinish, Component!Flight!Computer,
     Component!Flight!Next,
     Component!Flight!CountsWhatWasSent
<1>4. Component!Flight!Spec => []Component!Flight!CountsWhatWasSent
  <2>1. Component!FlightBounds
    BY BenchAssumption DEF BenchAssumption, Component!FlightBounds
  <2> QED
    BY <2>1, Component!SentIsCounted
<1>5. (mounted = "flight" => Flight!CountsWhatWasSent) => CountsWhatWasSent
  BY DEF CountsWhatWasSent
<1> QED
  BY <1>1, <1>2, <1>3, <1>4, <1>5, PTL DEF BenchSpec, Component!Flight!Spec

\* The packet parsers come back after a fault: a bounded number of whole frames is
\* missed, for any longest payload and whatever is damaged or lost.
THEOREM ResyncOnTheBench == BenchSpec => []ResyncBounded
<1>1. BenchInit => (mounted = "packets" => Packets!Init)
  BY DEF BenchInit
<1>2. [BenchNext]_benchVars =>
        /\ mounted = "packets" => (mounted = "packets")' /\ [Packets!Next]_(Packets!vars)
        /\ ~(mounted = "packets") => ~(mounted = "packets")'
  BY MountedStays, MountedMoves
<1>3. /\ Packets!Init => Component!Init
      /\ [Packets!Next]_(Packets!vars) => [Component!Next]_(Component!vars)
      /\ Component!ResyncBounded => Packets!ResyncBounded
  BY DEF
     Packets!vars, Packets!RawFormats, Packets!Formats, Packets!SampleId, Packets!UnknownId,
     Packets!Sync1, Packets!Sync2, Packets!Bytes, Packets!SampleLengths, Packets!Byte,
     Packets!FrameLength, Packets!Fresh, Packets!FreshFrames, Packets!Sent, Packets!Cleared,
     Packets!Init, Packets!Incomplete, Packets!Rejected, Packets!At, Packets!NextSum,
     Packets!FindSync1, Packets!StartFrame, Packets!RawSync2, Packets!UbxSync2,
     Packets!TakeId, Packets!TakeLength1, Packets!Length, Packets!BeginPayload,
     Packets!RawLength2, Packets!UbxLength2, Packets!TakePayload, Packets!ChecksumFits,
     Packets!CheckA, Packets!CheckB, Packets!RawParse, Packets!BaroParse,
     Packets!RadaltParse, Packets!MagParse, Packets!ImuParse, Packets!DecodeNavPvt,
     Packets!UbxParse, Packets!ParseByte, Packets!Hunting, Packets!Reported, Packets!Hurt,
     Packets!Misled, Packets!Missed,
     Packets!LastByte, Packets!Advance, Packets!Deliver, Packets!Damage, Packets!LoseByte,
     Packets!Next, Packets!LongestPayload, Packets!MissedAtMost, Packets!ResyncBounded,
     Component!vars, Component!RawFormats, Component!Formats, Component!SampleId,
     Component!UnknownId, Component!Sync1, Component!Sync2, Component!Bytes,
     Component!SampleLengths, Component!Byte, Component!FrameLength, Component!Fresh,
     Component!FreshFrames, Component!Sent, Component!Cleared, Component!Init,
     Component!Incomplete, Component!Rejected, Component!At, Component!NextSum,
     Component!FindSync1, Component!StartFrame, Component!RawSync2, Component!UbxSync2,
     Component!TakeId, Component!TakeLength1, Component!Length, Component!BeginPayload,
     Component!RawLength2, Component!UbxLength2, Component!TakePayload,
     Component!ChecksumFits, Component!CheckA, Component!CheckB, Component!RawParse,
     Component!BaroParse, Component!RadaltParse, Component!MagParse, Component!ImuParse,
     Component!DecodeNavPvt, Component!UbxParse, Component!ParseByte, Component!Hunting,
     Component!Reported, Component!Hurt, Component!Misled, Component!Missed,
     Component!LastByte, Component!Advance,
     Component!Deliver, Component!Damage, Component!LoseByte, Component!Next,
     Component!LongestPayload, Component!MissedAtMost, Component!ResyncBounded
<1>4. Component!Spec => []Component!ResyncBounded
  <2>1. Component!PacketBounds
    BY BenchAssumption DEF BenchAssumption, Component!PacketBounds
  <2> QED
    BY <2>1, Component!ParserComesBack
<1>5. (mounted = "packets" => Packets!ResyncBounded) => ResyncBounded
  BY DEF ResyncBounded
<1> QED
  BY <1>1, <1>2, <1>3, <1>4, <1>5, PTL DEF BenchSpec, Component!Spec

\* The packet parsers report a frame that arrives whole, and nothing that is made up.
THEOREM FramesOnTheBench == BenchSpec => ReportsWholeFrames
<1>1. BenchInit => (mounted = "packets" => Packets!Init)
  BY DEF BenchInit
<1>2. [BenchNext]_benchVars =>
        /\ mounted = "packets" => (mounted = "packets")' /\ [Packets!Next]_(Packets!vars)
        /\ ~(mounted = "packets") => ~(mounted = "packets")'
  BY MountedStays, MountedMoves
<1>3. /\ Packets!Init => Component!Init
      /\ [Packets!Next]_(Packets!vars) => [Component!Next]_(Component!vars)
      /\ [Component!ReportsWholeFrames]_(Component!vars) => [Packets!ReportsWholeFrames]_(Packets!vars)
  BY DEF
     Packets!vars, Packets!RawFormats, Packets!Formats, Packets!SampleId, Packets!UnknownId,
     Packets!Sync1, Packets!Sync2, Packets!Bytes, Packets!SampleLengths, Packets!Byte,
     Packets!FrameLength, Packets!Fresh, Packets!FreshFrames, Packets!Sent, Packets!Cleared,
     Packets!Init, Packets!Incomplete, Packets!Rejected, Packets!At, Packets!NextSum,
     Packets!FindSync1, Packets!StartFrame, Packets!RawSync2, Packets!UbxSync2,
     Packets!TakeId, Packets!TakeLength1, Packets!Length, Packets!BeginPayload,
     Packets!RawLength2, Packets!UbxLength2, Packets!TakePayload, Packets!ChecksumFits,
     Packets!CheckA, Packets!CheckB, Packets!RawParse, Packets!BaroParse,
     Packets!RadaltParse, Packets!MagParse, Packets!ImuParse, Packets!DecodeNavPvt,
     Packets!UbxParse, Packets!ParseByte, Packets!Hunting, Packets!Reported, Packets!Hurt,
     Packets!Misled, Packets!Missed,
     Packets!LastByte, Packets!Advance, Packets!Deliver, Packets!Damage, Packets!LoseByte,
     Packets!Next, Packets!Reports, Packets!ReportsWholeFrames, Component!vars,
     Component!RawFormats, Component!Formats, Component!SampleId, Component!UnknownId,
     Component!Sync1, Component!Sync2, Component!Bytes, Component!SampleLengths,
     Component!Byte, Component!FrameLength, Component!Fresh, Component!FreshFrames,
     Component!Sent, Component!Cleared, Component!Init, Component!Incomplete,
     Component!Rejected, Component!At, Component!NextSum, Component!FindSync1,
     Component!StartFrame, Component!RawSync2, Component!UbxSync2, Component!TakeId,
     Component!TakeLength1, Component!Length, Component!BeginPayload, Component!RawLength2,
     Component!UbxLength2, Component!TakePayload, Component!ChecksumFits, Component!CheckA,
     Component!CheckB, Component!RawParse, Component!BaroParse, Component!RadaltParse,
     Component!MagParse, Component!ImuParse, Component!DecodeNavPvt, Component!UbxParse,
     Component!ParseByte, Component!Hunting, Component!Reported, Component!Hurt,
     Component!Misled, Component!Missed,
     Component!LastByte, Component!Advance, Component!Deliver, Component!Damage,
     Component!LoseByte, Component!Next, Component!Reports, Component!ReportsWholeFrames
<1>4. Component!Spec => [][Component!ReportsWholeFrames]_(Component!vars)
  <2>1. Component!PacketBounds
    BY BenchAssumption DEF BenchAssumption, Component!PacketBounds
  <2> QED
    BY <2>1, Component!WholeFramesAreReported
<1>5. ASSUME [BenchNext]_benchVars,
             mounted = "packets" => [Packets!ReportsWholeFrames]_(Packets!vars)
      PROVE  [mounted = "packets" => Packets!ReportsWholeFrames]_benchVars
  <2>1. CASE mounted = "packets" /\ BenchNext /\ UNCHANGED Packets!vars
    <3>1. UNCHANGED benchVars
      BY <2>1 DEF BenchNext, WatchdogNext, WaitNext, SegmentNext, SequencerNext,
         PacketsNext, NmeaNext, HostNext, TcpNext, GpsNext, FlightNext, benchVars, Shared,
         From6, From8, From13, From14, From15, From16,
         Packets!vars
    <3> QED
      BY <3>1
  <2> QED
    BY <1>5, <2>1
<1> QED
  BY <1>1, <1>2, <1>3, <1>4, <1>5, PTL DEF BenchSpec, Component!Spec, ReportsWholeFrames

\* NmeaParser: an epoch's GGA and RMC that arrive as sent make a fix of that epoch,
\* whatever was garbled before, for any length of sentence and number of faults.
THEOREM FixesOnTheBench == BenchSpec => []PairMakesFix
<1>1. BenchInit => (mounted = "nmea" => Nmea!Init)
  BY DEF BenchInit
<1>2. [BenchNext]_benchVars =>
        /\ mounted = "nmea" => (mounted = "nmea")' /\ [Nmea!Next]_(Nmea!vars)
        /\ ~(mounted = "nmea") => ~(mounted = "nmea")'
  BY MountedStays, MountedMoves
<1>3. /\ Nmea!Init => Component!Nmea!Init
      /\ [Nmea!Next]_(Nmea!vars) => [Component!Nmea!Next]_(Component!Nmea!vars)
      /\ Component!Nmea!PairMakesFix => Nmea!PairMakesFix
  BY DEF
     Nmea!sent, Nmea!parser, Nmea!vars, Nmea!NoFix, Nmea!Current, Nmea!NoText,
     Nmea!SentenceLength, Nmea!Character, Nmea!Init, Nmea!Decode, Nmea!DecodeGga,
     Nmea!DecodeRmc, Nmea!DecodeSentence, Nmea!NothingDecoded, Nmea!Fits, Nmea!Begin,
     Nmea!End, Nmea!Overflow, Nmea!Store, Nmea!ParseByte, Nmea!Advance, Nmea!NewEpoch,
     Nmea!Deliver, Nmea!Damage, Nmea!LoseCharacter, Nmea!Next, Nmea!PairMakesFix,
     Component!Nmea!sent, Component!Nmea!parser, Component!Nmea!vars, Component!Nmea!NoFix,
     Component!Nmea!Current, Component!Nmea!NoText, Component!Nmea!SentenceLength,
     Component!Nmea!Character, Component!Nmea!Init, Component!Nmea!Decode,
     Component!Nmea!DecodeGga, Component!Nmea!DecodeRmc, Component!Nmea!DecodeSentence,
     Component!Nmea!NothingDecoded, Component!Nmea!Fits, Component!Nmea!Begin,
     Component!Nmea!End, Component!Nmea!Overflow, Component!Nmea!Store,
     Component!Nmea!ParseByte, Component!Nmea!Advance, Component!Nmea!NewEpoch,
     Component!Nmea!Deliver, Component!Nmea!Damage, Component!Nmea!LoseCharacter,
     Component!Nmea!Next, Component!Nmea!PairMakesFix
<1>4. Component!Nmea!Spec => []Component!Nmea!PairMakesFix
  <2>1. Component!NmeaBounds
    BY BenchAssumption DEF BenchAssumption, Component!NmeaBounds
  <2> QED
    BY <2>1, Component!PairsMakeFixes
<1>5. (mounted = "nmea" => Nmea!PairMakesFix) => PairMakesFix
  BY DEF PairMakesFix
<1> QED
  BY <1>1, <1>2, <1>3, <1>4, <1>5, PTL DEF BenchSpec, Component!Nmea!Spec

\* The co-simulation hosts' parse_args(): an option that is given wins over the
\* defaults of the case, for command lines of any length.
THEOREM OptionsOnTheBench == BenchSpec => ExplicitOptionsWin
<1>1. BenchInit => (mounted = "host" => Host!Init)
  BY DEF BenchInit
<1>2. [BenchNext]_benchVars =>
        /\ mounted = "host" => (mounted = "host")' /\ [Host!Next]_(Host!vars)
        /\ ~(mounted = "host") => ~(mounted = "host")'
  BY MountedStays, MountedMoves
<1>3. /\ Host!Init => Component!Host!Init
      /\ [Host!Next]_(Host!vars) => [Component!Host!Next]_(Component!Host!vars)
      /\ [Component!Host!ExplicitOptionsWin]_(Component!Host!vars) => [Host!ExplicitOptionsWin]_(Host!vars)
  BY DEF
     Host!Programs, Host!parsing, Host!running, Host!vars, Host!Names, Host!Numbers,
     Host!Cases, Host!Arguments, Host!Lines, Host!DefaultOf, Host!Explicit, Host!OptionsOf,
     Host!TrimDefaults, Host!AutopilotDefaults, Host!RocketDefaults, Host!Defaults,
     Host!TrimOptions, Host!AutopilotOptions, Host!RocketOptions, Host!Unknown,
     Host!NoInputs, Host!RowOf, Host!TrimRow, Host!AutopilotRow, Host!RocketRow, Host!Row,
     Host!NoRow, Host!Init, Host!Arg, Host!Fail, Host!ApplyCase, Host!FindCase,
     Host!BeginSecondPass, Host!Takes, Host!Applied, Host!TakeOption, Host!CheckPeriod,
     Host!Accept, Host!Parsing, Host!TrimParse, Host!AutopilotParse, Host!RocketParse,
     Host!Sensors, Host!PlantTo, Host!TrimLinks, Host!RocketLinks, Host!AutopilotLinks,
     Host!From, Host!Preflight, Host!TrimPreflight, Host!AutopilotPreflight,
     Host!RocketPreflight, Host!Build, Host!TrimBuild, Host!AutopilotBuild,
     Host!RocketBuild, Host!Scheduled, Host!WriteCommands, Host!FirstCommands,
     Host!OpenTruthLog, Host!TrimLog, Host!AutopilotLog, Host!RocketLog,
     Host!WriteRunConfig, Host!TrimConfig, Host!AutopilotConfig, Host!RocketConfig,
     Host!LogFirstRow, Host!TrimFirstRow, Host!AutopilotFirstRow, Host!RocketFirstRow,
     Host!Plant, Host!Output, Host!Step, Host!StepThrows, Host!EvaluateField,
     Host!FinishStep, Host!FinishStepOf, Host!TrimLoop, Host!AutopilotLoop, Host!RocketLoop,
     Host!Terminate, Host!TrimEnd, Host!AutopilotEnd, Host!RocketEnd, Host!Trim,
     Host!Autopilot, Host!Rocket, Host!Next, Host!Given, Host!LastGiven, Host!CaseGiven,
     Host!ExplicitOptionsWin, Component!Host!Programs, Component!Host!parsing,
     Component!Host!running, Component!Host!vars, Component!Host!Names,
     Component!Host!Numbers, Component!Host!Cases, Component!Host!Arguments,
     Component!Host!Lines, Component!Host!DefaultOf, Component!Host!Explicit,
     Component!Host!OptionsOf, Component!Host!TrimDefaults,
     Component!Host!AutopilotDefaults, Component!Host!RocketDefaults,
     Component!Host!Defaults, Component!Host!TrimOptions, Component!Host!AutopilotOptions,
     Component!Host!RocketOptions, Component!Host!Unknown, Component!Host!NoInputs,
     Component!Host!RowOf, Component!Host!TrimRow, Component!Host!AutopilotRow,
     Component!Host!RocketRow, Component!Host!Row, Component!Host!NoRow,
     Component!Host!Init, Component!Host!Arg, Component!Host!Fail, Component!Host!ApplyCase,
     Component!Host!FindCase, Component!Host!BeginSecondPass, Component!Host!Takes,
     Component!Host!Applied, Component!Host!TakeOption, Component!Host!CheckPeriod,
     Component!Host!Accept, Component!Host!Parsing, Component!Host!TrimParse,
     Component!Host!AutopilotParse, Component!Host!RocketParse, Component!Host!Sensors,
     Component!Host!PlantTo, Component!Host!TrimLinks, Component!Host!RocketLinks,
     Component!Host!AutopilotLinks, Component!Host!From, Component!Host!Preflight,
     Component!Host!TrimPreflight, Component!Host!AutopilotPreflight,
     Component!Host!RocketPreflight, Component!Host!Build, Component!Host!TrimBuild,
     Component!Host!AutopilotBuild, Component!Host!RocketBuild, Component!Host!Scheduled,
     Component!Host!WriteCommands, Component!Host!FirstCommands,
     Component!Host!OpenTruthLog, Component!Host!TrimLog, Component!Host!AutopilotLog,
     Component!Host!RocketLog, Component!Host!WriteRunConfig, Component!Host!TrimConfig,
     Component!Host!AutopilotConfig, Component!Host!RocketConfig,
     Component!Host!LogFirstRow, Component!Host!TrimFirstRow,
     Component!Host!AutopilotFirstRow, Component!Host!RocketFirstRow, Component!Host!Plant,
     Component!Host!Output, Component!Host!Step, Component!Host!StepThrows,
     Component!Host!EvaluateField, Component!Host!FinishStep, Component!Host!FinishStepOf,
     Component!Host!TrimLoop, Component!Host!AutopilotLoop, Component!Host!RocketLoop,
     Component!Host!Terminate, Component!Host!TrimEnd, Component!Host!AutopilotEnd,
     Component!Host!RocketEnd, Component!Host!Trim, Component!Host!Autopilot,
     Component!Host!Rocket, Component!Host!Next, Component!Host!Given,
     Component!Host!LastGiven, Component!Host!CaseGiven, Component!Host!ExplicitOptionsWin,
     Host!Max, Component!Host!Max
<1>4. Component!Host!Spec => [][Component!Host!ExplicitOptionsWin]_(Component!Host!vars)
  BY Component!OptionsWin
<1>5. ASSUME [BenchNext]_benchVars,
             mounted = "host" => [Host!ExplicitOptionsWin]_(Host!vars)
      PROVE  [mounted = "host" => Host!ExplicitOptionsWin]_benchVars
  <2>1. CASE mounted = "host" /\ BenchNext /\ UNCHANGED Host!vars
    <3>1. UNCHANGED benchVars
      BY <2>1 DEF BenchNext, WatchdogNext, WaitNext, SegmentNext, SequencerNext,
         PacketsNext, NmeaNext, HostNext, TcpNext, GpsNext, FlightNext, benchVars, Shared,
         From6, From8, From13, From14, From15, From16,
         Host!parsing, Host!running, Host!vars
    <3> QED
      BY <3>1
  <2> QED
    BY <1>5, <2>1
<1> QED
  BY <1>1, <1>2, <1>3, <1>4, <1>5, PTL DEF BenchSpec, Component!Host!Spec, ExplicitOptionsWin

\* The co-simulation hosts' loop: what a row logs as inputs is what the next step
\* samples, for any number of steps.
THEOREM RowsOnTheBench == BenchSpec => LoggedInputsAreSampled
<1>1. BenchInit => (mounted = "host" => Host!Init)
  BY DEF BenchInit
<1>2. [BenchNext]_benchVars =>
        /\ mounted = "host" => (mounted = "host")' /\ [Host!Next]_(Host!vars)
        /\ ~(mounted = "host") => ~(mounted = "host")'
  BY MountedStays, MountedMoves
<1>3. /\ Host!Init => Component!Host!Init
      /\ [Host!Next]_(Host!vars) => [Component!Host!Next]_(Component!Host!vars)
      /\ [Component!Host!LoggedInputsAreSampled]_(Component!Host!vars) => [Host!LoggedInputsAreSampled]_(Host!vars)
  BY DEF
     Host!Programs, Host!parsing, Host!running, Host!vars, Host!Names, Host!Numbers,
     Host!Cases, Host!Arguments, Host!Lines, Host!DefaultOf, Host!Explicit, Host!OptionsOf,
     Host!TrimDefaults, Host!AutopilotDefaults, Host!RocketDefaults, Host!Defaults,
     Host!TrimOptions, Host!AutopilotOptions, Host!RocketOptions, Host!Unknown,
     Host!NoInputs, Host!RowOf, Host!TrimRow, Host!AutopilotRow, Host!RocketRow, Host!Row,
     Host!NoRow, Host!Init, Host!Arg, Host!Fail, Host!ApplyCase, Host!FindCase,
     Host!BeginSecondPass, Host!Takes, Host!Applied, Host!TakeOption, Host!CheckPeriod,
     Host!Accept, Host!Parsing, Host!TrimParse, Host!AutopilotParse, Host!RocketParse,
     Host!Sensors, Host!PlantTo, Host!TrimLinks, Host!RocketLinks, Host!AutopilotLinks,
     Host!From, Host!Preflight, Host!TrimPreflight, Host!AutopilotPreflight,
     Host!RocketPreflight, Host!Build, Host!TrimBuild, Host!AutopilotBuild,
     Host!RocketBuild, Host!Scheduled, Host!WriteCommands, Host!FirstCommands,
     Host!OpenTruthLog, Host!TrimLog, Host!AutopilotLog, Host!RocketLog,
     Host!WriteRunConfig, Host!TrimConfig, Host!AutopilotConfig, Host!RocketConfig,
     Host!LogFirstRow, Host!TrimFirstRow, Host!AutopilotFirstRow, Host!RocketFirstRow,
     Host!Plant, Host!Output, Host!Step, Host!StepThrows, Host!EvaluateField,
     Host!FinishStep, Host!FinishStepOf, Host!TrimLoop, Host!AutopilotLoop, Host!RocketLoop,
     Host!Terminate, Host!TrimEnd, Host!AutopilotEnd, Host!RocketEnd, Host!Trim,
     Host!Autopilot, Host!Rocket, Host!Next, Host!FieldSampled, Host!LoggedInputsAreSampled,
     Component!Host!Programs, Component!Host!parsing, Component!Host!running,
     Component!Host!vars, Component!Host!Names, Component!Host!Numbers,
     Component!Host!Cases, Component!Host!Arguments, Component!Host!Lines,
     Component!Host!DefaultOf, Component!Host!Explicit, Component!Host!OptionsOf,
     Component!Host!TrimDefaults, Component!Host!AutopilotDefaults,
     Component!Host!RocketDefaults, Component!Host!Defaults, Component!Host!TrimOptions,
     Component!Host!AutopilotOptions, Component!Host!RocketOptions, Component!Host!Unknown,
     Component!Host!NoInputs, Component!Host!RowOf, Component!Host!TrimRow,
     Component!Host!AutopilotRow, Component!Host!RocketRow, Component!Host!Row,
     Component!Host!NoRow, Component!Host!Init, Component!Host!Arg, Component!Host!Fail,
     Component!Host!ApplyCase, Component!Host!FindCase, Component!Host!BeginSecondPass,
     Component!Host!Takes, Component!Host!Applied, Component!Host!TakeOption,
     Component!Host!CheckPeriod, Component!Host!Accept, Component!Host!Parsing,
     Component!Host!TrimParse, Component!Host!AutopilotParse, Component!Host!RocketParse,
     Component!Host!Sensors, Component!Host!PlantTo, Component!Host!TrimLinks,
     Component!Host!RocketLinks, Component!Host!AutopilotLinks, Component!Host!From,
     Component!Host!Preflight, Component!Host!TrimPreflight,
     Component!Host!AutopilotPreflight, Component!Host!RocketPreflight,
     Component!Host!Build, Component!Host!TrimBuild, Component!Host!AutopilotBuild,
     Component!Host!RocketBuild, Component!Host!Scheduled, Component!Host!WriteCommands,
     Component!Host!FirstCommands, Component!Host!OpenTruthLog, Component!Host!TrimLog,
     Component!Host!AutopilotLog, Component!Host!RocketLog, Component!Host!WriteRunConfig,
     Component!Host!TrimConfig, Component!Host!AutopilotConfig, Component!Host!RocketConfig,
     Component!Host!LogFirstRow, Component!Host!TrimFirstRow,
     Component!Host!AutopilotFirstRow, Component!Host!RocketFirstRow, Component!Host!Plant,
     Component!Host!Output, Component!Host!Step, Component!Host!StepThrows,
     Component!Host!EvaluateField, Component!Host!FinishStep, Component!Host!FinishStepOf,
     Component!Host!TrimLoop, Component!Host!AutopilotLoop, Component!Host!RocketLoop,
     Component!Host!Terminate, Component!Host!TrimEnd, Component!Host!AutopilotEnd,
     Component!Host!RocketEnd, Component!Host!Trim, Component!Host!Autopilot,
     Component!Host!Rocket, Component!Host!Next, Component!Host!FieldSampled,
     Component!Host!LoggedInputsAreSampled,
     Host!Max, Component!Host!Max
<1>4. Component!Host!Spec => [][Component!Host!LoggedInputsAreSampled]_(Component!Host!vars)
  BY Component!RowsAreSampled
<1>5. ASSUME [BenchNext]_benchVars,
             mounted = "host" => [Host!LoggedInputsAreSampled]_(Host!vars)
      PROVE  [mounted = "host" => Host!LoggedInputsAreSampled]_benchVars
  <2>1. CASE mounted = "host" /\ BenchNext /\ UNCHANGED Host!vars
    <3>1. UNCHANGED benchVars
      BY <2>1 DEF BenchNext, WatchdogNext, WaitNext, SegmentNext, SequencerNext,
         PacketsNext, NmeaNext, HostNext, TcpNext, GpsNext, FlightNext, benchVars, Shared,
         From6, From8, From13, From14, From15, From16,
         Host!parsing, Host!running, Host!vars
    <3> QED
      BY <3>1
  <2> QED
    BY <1>5, <2>1
<1> QED
  BY <1>1, <1>2, <1>3, <1>4, <1>5, PTL DEF BenchSpec, Component!Host!Spec, LoggedInputsAreSampled
=============================================================================

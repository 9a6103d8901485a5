-------------------------- MODULE I2cShmBusProofs ---------------------------
(***************************************************************************)
(* Theorems about I2cShmBus for every number of calls and whatever of the  *)
(* switches CanTimeOut, KeepsCalling and CanStop is on.  Typing first,     *)
(* then the inductive invariant HandshakeInv, then what follows from it.   *)
(***************************************************************************)
EXTENDS I2cShmBus, TLAPS

\* The constant records have the types of the fields they initialise.
LEMMA ConstantTypes ==
  /\ 0 \in Calls
  /\ NoRequest \in Requests
  /\ NoWalk \in Walks
  /\ \A c \in Requests : Fault(c) \in Answers
<1>1. 0 \in Calls
  BY MaxCallsAssumption DEF Calls
<1> QED
  BY <1>1 DEF NoRequest, Requests, NoWalk, Walks, TransactionResults, Fault, Answers, Results

\* Each field and each local keeps its type, whatever the interleaving of the
\* service thread, the host thread and the controller.
THEOREM TypeCorrect == Spec => []TypeOK
<1> USE ConstantTypes DEF TypeOK, Phases, Hosts, ServiceSteps, CallSteps, Flag
<1>1. Init => TypeOK
  BY DEF Init
<1>2. TypeOK /\ [Next]_vars => TypeOK'
  <2> SUFFICES ASSUME TypeOK, [Next]_vars PROVE TypeOK'
    OBVIOUS
  <2>1. CASE Host
    BY <2>1 DEF Host, HostAt, Create, SpawnService, MarkReady, PublishInterrupt,
         RequestStop, JoinService, ClearReady, ClearInterrupt, StoreShutdown,
         region, peripheral, caller, history
  <2>2. CASE CheckStop \/ NothingPosted \/ SkipWritePhase \/ StoreResult
               \/ CountTransaction \/ StoreComplete
    BY <2>2 DEF ServiceAt, CheckStop, NothingPosted, SkipWritePhase, StoreResult,
         CountTransaction, StoreComplete, region, caller, history
  <2>3. CASE PickUp
    BY <2>3 DEF NoWalk, Walks, Requests, TransactionResults, PickUp, ServiceAt, region, caller
  <2>4. CASE WalkWritePhase
    BY <2>4 DEF Walks, Requests, TransactionResults, WalkWritePhase, region, caller, history
  <2>5. CASE WalkReadPhase
    BY <2>5 DEF Walks, Requests, TransactionResults, WalkReadPhase, ServiceAt, caller, history
  <2>6. CASE BeginCall \/ RefuseCall
    <3>1. call' \in Requests
      BY <2>6, MaxCallsAssumption DEF Calls, Requests, BeginCall, RefuseCall
    <3> QED
      BY <2>6, <3>1 DEF BeginCall, RefuseCall, ControllerAt, region, peripheral
  <2>7. CASE TakeAnswer
    BY <2>7 DEF Answers, Walks, Requests, Results, TransactionResults, TakeAnswer, Code, ControllerAt, region, peripheral, history
  <2>8. CASE TimeOut
    BY <2>8 DEF TimeOut, ControllerAt, region, peripheral
  <2>9. CASE FindBus \/ MarkAttached \/ Detach \/ LoadPhase \/ FillWriteBytes
               \/ DescribeTransaction \/ Post \/ SeeComplete \/ SeeShutdown \/ Release
    BY <2>9 DEF Requests, FindBus, MarkAttached, Detach, LoadPhase, FillWriteBytes,
         DescribeTransaction, Post, SeeComplete, SeeShutdown, Release,
         ControllerAt, region, peripheral, history
  <2>10. CASE UNCHANGED vars
    BY <2>10 DEF vars, region, peripheral, caller, history
  <2> QED
    BY <2>1, <2>2, <2>3, <2>4, <2>5, <2>6, <2>7, <2>8, <2>9, <2>10
       DEF Next, Service, Controller, Transaction
<1>3. QED
  BY <1>1, <1>2, PTL DEF Spec

\* The part of HandshakeInv that holds until a deadline expires.
Turns == PhaseFollowsCall /\ RequestIsStored /\ WalkInProgress /\ WalksCounted /\ AnswersItsCall

\* Nothing has been asked for when the bus is laid out.
LEMMA InitHandshake == Init => HandshakeInv
  BY DEF Init, HandshakeInv, Lifecycle, PhaseFollowsCall, RequestIsStored, WalkInProgress,
         WalksCounted, AnswersItsCall, ServiceInPayload, Fault, NoWalk, NoRequest

\* The host thread's position bounds what the service thread and the lines can be.
LEMMA LifecycleStep == TypeOK /\ Lifecycle /\ [Next]_vars => Lifecycle'
<1> SUFFICES ASSUME TypeOK, Lifecycle, [Next]_vars PROVE Lifecycle'
  OBVIOUS
<1> USE DEF TypeOK, Lifecycle, Flag
<1>1. CASE Host
  BY <1>1 DEF Host, HostAt, Create, SpawnService, MarkReady, PublishInterrupt,
       RequestStop, JoinService, ClearReady, ClearInterrupt, StoreShutdown, region, peripheral
<1>2. CASE Service
  BY <1>2 DEF Service, ServiceAt, CheckStop, NothingPosted, PickUp, WalkWritePhase,
       SkipWritePhase, WalkReadPhase, StoreResult, CountTransaction, StoreComplete, region
<1>3. CASE Controller
  BY <1>3 DEF Controller, ControllerAt, FindBus, MarkAttached, Detach, BeginCall, RefuseCall,
       TimeOut, Transaction, LoadPhase, FillWriteBytes, DescribeTransaction, Post,
       SeeComplete, SeeShutdown, TakeAnswer, Release, region, peripheral
<1>4. CASE UNCHANGED vars
  BY <1>4 DEF vars, region, peripheral
<1> QED
  BY <1>1, <1>2, <1>3, <1>4 DEF Next

\* The host thread stores nothing the turns speak of but the terminal phase, and
\* that only when no walk is in progress.
LEMMA TurnsHost == TypeOK /\ Lifecycle /\ Turns /\ Host => Turns'
<1> SUFFICES ASSUME TypeOK, Lifecycle, Turns, Host PROVE Turns'
  OBVIOUS
<1> USE DEF Turns, PhaseFollowsCall, RequestIsStored, WalkInProgress, WalksCounted,
            AnswersItsCall, WalkAnswersCall, Written, ServiceInPayload, Writes, Reads
<1>1. CASE StoreShutdown
  BY <1>1 DEF StoreShutdown, HostAt, Lifecycle, caller, history
<1>2. CASE SpawnService
  BY <1>2 DEF SpawnService, HostAt, Lifecycle, region, caller, history
<1>3. CASE Create \/ MarkReady \/ PublishInterrupt \/ RequestStop \/ JoinService
             \/ ClearReady \/ ClearInterrupt
  BY <1>3 DEF Create, MarkReady, PublishInterrupt, RequestStop, JoinService, ClearReady,
       ClearInterrupt, region, peripheral, caller, history
<1> QED
  BY <1>1, <1>2, <1>3 DEF Host

\* The service thread enters the payload only on a posted transaction and hands
\* it back complete.
LEMMA TurnsService == TypeOK /\ Turns /\ Service => Turns'
<1> SUFFICES ASSUME TypeOK, Turns, Service PROVE Turns'
  OBVIOUS
<1> USE DEF Turns, PhaseFollowsCall, RequestIsStored, WalkInProgress, WalksCounted,
            AnswersItsCall, WalkAnswersCall, Written, ServiceInPayload, ServiceAt
<1>1. CASE CheckStop \/ NothingPosted
  BY <1>1 DEF CheckStop, NothingPosted, region, caller, history
<1>2. CASE PickUp
  BY <1>2 DEF PickUp, region, caller
<1>3. CASE WalkWritePhase
  BY <1>3 DEF WalkWritePhase, TypeOK, Walks, region, caller, history
<1>4. CASE SkipWritePhase
  BY <1>4 DEF SkipWritePhase, Writes, region, caller, history
<1>5. CASE WalkReadPhase
  BY <1>5 DEF WalkReadPhase, TypeOK, Walks, caller, history
<1>6. CASE StoreResult \/ CountTransaction
  BY <1>6 DEF StoreResult, CountTransaction, caller, history
<1>7. CASE StoreComplete
  BY <1>7 DEF StoreComplete, caller, history
<1> QED
  BY <1>1, <1>2, <1>3, <1>4, <1>5, <1>6, <1>7 DEF Service

\* The controller enters the payload only when no transaction is posted, and
\* accepts only an answer to the call it is in.
LEMMA TurnsController == TypeOK /\ Turns /\ Controller /\ timeouts' = 0 => Turns'
<1> SUFFICES ASSUME TypeOK, Turns, Controller, timeouts' = 0 PROVE Turns'
  OBVIOUS
<1> USE DEF Turns, PhaseFollowsCall, RequestIsStored, WalkInProgress, WalksCounted,
            AnswersItsCall, WalkAnswersCall, Written, ServiceInPayload, ControllerAt
<1>1. CASE FindBus \/ MarkAttached \/ Detach
  BY <1>1 DEF FindBus, MarkAttached, Detach, region, peripheral, history
<1>2. CASE BeginCall \/ RefuseCall
  BY <1>2 DEF BeginCall, RefuseCall, Fault, region, peripheral
<1>3. CASE TimeOut
  BY <1>3 DEF TimeOut, TypeOK
<1>4. CASE LoadPhase
  BY <1>4 DEF LoadPhase, Fault, region, peripheral, history
<1>5. CASE FillWriteBytes \/ DescribeTransaction
  BY <1>5 DEF FillWriteBytes, DescribeTransaction, peripheral, history
<1>6. CASE Post
  BY <1>6 DEF Post, peripheral, history
<1>7. CASE SeeComplete \/ SeeShutdown
  BY <1>7 DEF SeeComplete, SeeShutdown, Fault, region, peripheral, history
<1>8. CASE TakeAnswer
  BY <1>8 DEF TakeAnswer, Code, TypeOK, Walks, TransactionResults, region, peripheral, history
<1>9. CASE Release
  BY <1>9 DEF Release, peripheral, history
<1> QED
  BY <1>1, <1>2, <1>3, <1>4, <1>5, <1>6, <1>7, <1>8, <1>9 DEF Controller, Transaction

\* A caller that gives up does so in the wait of a posted transaction, and from
\* then on only the service thread moves: it finishes the walk it is in, or takes
\* up the posted transaction once.
LEMMA LateWalkStep ==
  /\ TypeOK /\ HandshakeInv /\ [Next]_vars
  /\ timeouts' > 0 /\ ~KeepsCalling
  => LateWalk'
<1> SUFFICES ASSUME TypeOK, HandshakeInv, [Next]_vars, timeouts' > 0, ~KeepsCalling
             PROVE  LateWalk'
  OBVIOUS
<1> USE DEF HandshakeInv, LateWalk, ServiceInPayload
<1>1. CASE TimeOut
  BY <1>1 DEF TimeOut, ControllerAt, TypeOK, WalkInProgress, WalksCounted, region, peripheral
<1>2. CASE Host
  BY <1>2 DEF Host, HostAt, Create, SpawnService, MarkReady, PublishInterrupt,
       RequestStop, JoinService, ClearReady, ClearInterrupt, StoreShutdown,
       TypeOK, Lifecycle, region, peripheral, caller, history
<1>3. CASE Service
  BY <1>3 DEF Service, ServiceAt, CheckStop, NothingPosted, PickUp, WalkWritePhase,
       SkipWritePhase, WalkReadPhase, StoreResult, CountTransaction, StoreComplete,
       TypeOK, region, caller, history
<1>4. CASE Controller /\ ~TimeOut
  BY <1>4 DEF Controller, ControllerAt, FindBus, MarkAttached, Detach, BeginCall, RefuseCall,
       Transaction, LoadPhase, FillWriteBytes, DescribeTransaction, Post,
       SeeComplete, SeeShutdown, TakeAnswer, Release, region, peripheral, history
<1>5. CASE UNCHANGED vars
  BY <1>5 DEF vars, region, peripheral, caller, history
<1> QED
  BY <1>1, <1>2, <1>3, <1>4, <1>5 DEF Next

\* The threads agree on whose turn it is in every reachable state in which no
\* deadline has expired yet.
THEOREM HandshakeInvariant == Spec => []HandshakeInv
<1>1. TypeOK /\ HandshakeInv /\ [Next]_vars => HandshakeInv'
  <2> SUFFICES ASSUME TypeOK, HandshakeInv, [Next]_vars PROVE HandshakeInv'
    OBVIOUS
  <2>1. Lifecycle'
    BY LifecycleStep DEF HandshakeInv
  <2>2. timeouts' = 0 => timeouts = 0
    BY DEF TypeOK, Next, Host, Service, Controller, Transaction, vars, history,
         Create, SpawnService, MarkReady, PublishInterrupt, RequestStop, JoinService,
         ClearReady, ClearInterrupt, StoreShutdown,
         CheckStop, NothingPosted, PickUp, WalkWritePhase, SkipWritePhase, WalkReadPhase,
         StoreResult, CountTransaction, StoreComplete,
         FindBus, MarkAttached, Detach, BeginCall, RefuseCall, TimeOut, LoadPhase,
         FillWriteBytes, DescribeTransaction, Post, SeeComplete, SeeShutdown, TakeAnswer, Release
  <2>3. ASSUME timeouts' = 0 PROVE Turns'
    <3>1. Turns /\ Lifecycle
      BY <2>2, <2>3 DEF HandshakeInv, Turns
    <3>2. CASE UNCHANGED vars
      BY <3>1, <3>2 DEF vars, region, peripheral, caller, history, Turns, PhaseFollowsCall,
           RequestIsStored, WalkInProgress, WalksCounted, AnswersItsCall, WalkAnswersCall,
           Written, ServiceInPayload
    <3> QED
      BY <2>3, <3>1, <3>2, TurnsHost, TurnsService, TurnsController DEF Next
  <2> QED
    BY <2>1, <2>3, LateWalkStep DEF HandshakeInv, Turns
<1> QED
  BY <1>1, InitHandshake, TypeCorrect, PTL DEF Spec

\* Until a deadline expires the payload has one owner: no data race on the
\* header, the buffers or the result, for any number of calls and any stop.
THEOREM PayloadOwnership == Spec => []PayloadHasOneOwner
<1>1. HandshakeInv => PayloadHasOneOwner
  BY DEF HandshakeInv, WalkInProgress, PayloadHasOneOwner, ControllerInPayload
<1> QED
  BY <1>1, HandshakeInvariant, PTL

\* Until a deadline expires, kOk means that the device walked this transaction.
THEOREM OkIsServed == Spec => []OkMeansServedUntilTimeout
<1>1. HandshakeInv => OkMeansServedUntilTimeout
  BY DEF HandshakeInv, OkMeansServedUntilTimeout
<1> QED
  BY <1>1, HandshakeInvariant, PTL

\* Until a deadline expires the device walks no call twice, and has walked once
\* every call whose answer is being taken.
THEOREM AtMostOneWalk == Spec => []WalkedOnce
<1>1. HandshakeInv => WalkedOnce
  BY DEF HandshakeInv, WalksCounted, WalkedOnce
<1> QED
  BY <1>1, HandshakeInvariant, PTL

\* The terminal phase is visible only after ready and the interrupt line fell,
\* timeouts or not.
THEOREM ShutdownOrder == Spec => []ShutdownPublishesAbsence
<1>1. TypeOK /\ HandshakeInv => ShutdownPublishesAbsence
  BY DEF TypeOK, Flag, HandshakeInv, Lifecycle, ShutdownPublishesAbsence
<1> QED
  BY <1>1, TypeCorrect, HandshakeInvariant, PTL

\* Once stop() has returned nothing is served, and only a call caught between
\* its load of the phase and its store can still move the phase.
THEOREM StopIsFinal == Spec => NothingServedAfterStop
<1>1. HandshakeInv /\ [Next]_vars =>
        [host = "down" => /\ index' = index /\ readBytes' = readBytes
                          /\ (phase' # phase => controller \in {"post", "release"})]_vars
  <2> SUFFICES ASSUME HandshakeInv, Next, host = "down"
               PROVE  /\ index' = index /\ readBytes' = readBytes
                      /\ phase' # phase => controller \in {"post", "release"}
    OBVIOUS
  <2>1. service = "none"
    BY DEF HandshakeInv, Lifecycle
  <2>2. CASE Host
    BY <2>2 DEF Host, HostAt, Create, SpawnService, MarkReady, PublishInterrupt,
         RequestStop, JoinService, ClearReady, ClearInterrupt, StoreShutdown
  <2>3. CASE Service
    BY <2>1, <2>3 DEF Service, ServiceAt, CheckStop, NothingPosted, PickUp, WalkWritePhase,
         SkipWritePhase, WalkReadPhase, StoreResult, CountTransaction, StoreComplete
  <2>4. CASE Controller
    BY <2>4 DEF Controller, ControllerAt, FindBus, MarkAttached, Detach, BeginCall, RefuseCall,
         TimeOut, Transaction, LoadPhase, FillWriteBytes, DescribeTransaction, Post,
         SeeComplete, SeeShutdown, TakeAnswer, Release, region
  <2> QED
    BY <2>2, <2>3, <2>4 DEF Next
<1> QED
  BY <1>1, HandshakeInvariant, PTL DEF Spec, NothingServedAfterStop

\* The caller's view of a step. The handshake decides which step of BusCall it
\* is: a walk starts only for the call that is open, or once for the one given up.
LEMMA StepImplementsBusCall ==
  ASSUME TypeOK, HandshakeInv, ~KeepsCalling, [Next]_vars
  PROVE  [AsCall!Next]_AsCall!vars
<1> USE DEF AsCall!vars, TypeOK
<1>1. CASE Host
  BY <1>1 DEF Host, HostAt, Create, SpawnService, MarkReady, PublishInterrupt,
       RequestStop, JoinService, ClearReady, ClearInterrupt, StoreShutdown,
       peripheral, caller, history
<1>2. CASE PickUp
  <2>1. (controller = "wait" \/ controller = "gaveUp") /\ walks = 0
    BY <1>2 DEF PickUp, ServiceAt, HandshakeInv, PhaseFollowsCall, WalksCounted, LateWalk,
         ServiceInPayload
  <2>2. AsCall!Execute
    BY <1>2, <2>1 DEF AsCall!Execute, PickUp, caller
  <2> QED
    BY <2>2 DEF AsCall!Next
<1>3. CASE Service /\ ~PickUp
  BY <1>3 DEF Service, ServiceAt, CheckStop, NothingPosted, WalkWritePhase,
       SkipWritePhase, WalkReadPhase, StoreResult, CountTransaction, StoreComplete,
       caller, history
<1>4. CASE BeginCall
  <2>1. AsCall!Issue
    BY <1>4 DEF AsCall!Issue, BeginCall, ControllerAt
  <2> QED
    BY <2>1 DEF AsCall!Next
<1>5. CASE RefuseCall
  <2>1. AsCall!Refuse
    BY <1>5 DEF AsCall!Refuse, AsCall!Fault, AsCall!NoWalk, RefuseCall, Fault, NoWalk
  <2> QED
    BY <2>1 DEF AsCall!Next
<1>6. CASE TimeOut \/ SeeShutdown \/ (LoadPhase /\ phase = "Shutdown")
  <2>1. AsCall!Fail
    BY <1>6 DEF AsCall!Fail, AsCall!Fault, AsCall!NoWalk, TimeOut, SeeShutdown, LoadPhase,
         ControllerAt, Fault, NoWalk, history
  <2> QED
    BY <2>1 DEF AsCall!Next
<1>7. CASE TakeAnswer
  <2>1. timeouts = 0
    BY <1>7 DEF TakeAnswer, ControllerAt, HandshakeInv, LateWalk
  <2>2. walks = 1 /\ WalkAnswersCall(result)
    BY <1>7, <2>1 DEF TakeAnswer, ControllerAt, HandshakeInv, WalksCounted
  <2>3. result = AsCall!Walk(call, result.wrote, result.result)
    BY <2>2 DEF AsCall!Walk, WalkAnswersCall, Walks
  <2>4. answer' \in AsCall!Outcomes(call)
    <3> DEFINE read == IF result.result = "Acknowledged" /\ Reads(call) THEN readBytes ELSE 0
    <3>1. answer' = AsCall!Answer(call, Code(result.result),
                                  AsCall!Walk(call, result.wrote, result.result), read)
      BY <1>7, <2>3 DEF TakeAnswer, AsCall!Answer
    <3> USE <2>2, <3>1 DEF WalkAnswersCall, Written, Writes, Reads, Code,
            AsCall!Outcomes, AsCall!Written, AsCall!Writes, AsCall!Reads
    <3>2. CASE result.result = "Acknowledged"
      BY <3>2
    <3>3. CASE result.result = "AddressNack"
      BY <3>3
    <3>4. CASE result.result = "DataNack"
      BY <3>4
    <3> QED
      BY <3>2, <3>3, <3>4 DEF Walks, TransactionResults
  <2>5. AsCall!Report
    BY <1>7, <2>2, <2>4 DEF AsCall!Report, TakeAnswer, ControllerAt, history
  <2> QED
    BY <2>5 DEF AsCall!Next
<1>8. CASE FindBus \/ MarkAttached \/ Detach \/ (LoadPhase /\ phase # "Shutdown")
           \/ FillWriteBytes \/ DescribeTransaction \/ Post \/ SeeComplete \/ Release
  BY <1>8 DEF FindBus, MarkAttached, Detach, LoadPhase, FillWriteBytes, DescribeTransaction,
       Post, SeeComplete, Release, ControllerAt, history
<1>9. CASE UNCHANGED vars
  BY <1>9 DEF vars, caller, history
<1> QED
  BY <1>1, <1>2, <1>3, <1>4, <1>5, <1>6, <1>7, <1>8, <1>9
     DEF Next, Service, Controller, Transaction

\* Whatever the service thread, the host thread and the deadline do, a caller
\* that fails the run on a timeout sees a call that is walked at most once and
\* returns either what that one walk produced or a bus fault.
THEOREM CallsAreServed == ASSUME ~KeepsCalling PROVE Spec => ImplementsBusCall
<1>1. Init => AsCall!Init
  BY DEF Init, AsCall!Init, AsCall!Fault, AsCall!NoWalk, Fault, NoRequest, NoWalk
<1>2. TypeOK /\ HandshakeInv /\ [Next]_vars => [AsCall!Next]_AsCall!vars
  BY StepImplementsBusCall
<1> QED
  BY <1>1, <1>2, TypeCorrect, HandshakeInvariant, PTL
     DEF Spec, ImplementsBusCall, AsCall!Spec
=============================================================================

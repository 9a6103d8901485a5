------------------------------ MODULE I2cShmBus ------------------------------
(***************************************************************************)
(* The shared-memory I2C bus of sim/i2c_shm: one peripheral process (the   *)
(* host thread that owns the endpoint and the service thread it spawns)    *)
(* and one controller process, meeting in the I2cBusRegion.                *)
(*                                                                         *)
(* The grain is one store or load of the region per step wherever the      *)
(* other side can see the difference.  A payload is abstracted to the      *)
(* number of the call that wrote it, so a torn or stale payload is one     *)
(* whose number is not that of the call that accepts it.                   *)
(***************************************************************************)
EXTENDS Naturals

CONSTANTS
  MaxCalls,     \* Calls of transaction() in a behaviour. Bounds the model.
  CanTimeOut,   \* Whether a deadline may expire before the part answers.
  KeepsCalling, \* Whether the caller uses the bus again after a timeout.
  CanStop       \* Whether the peripheral may be powered down.

ASSUME MaxCallsAssumption == MaxCalls \in Nat
ASSUME SwitchesAssumption == {CanTimeOut, KeepsCalling, CanStop} \subseteq BOOLEAN

VARIABLES
  \* The I2cBusRegion.
  phase, ready, attached, interrupt, index,
  header,       \* Target address and lengths: the call they were stored for.
  writeBytes,   \* Call whose write phase the buffer holds; 0 before the first.
  readBytes,    \* Call whose answer the buffer holds; 0 before the first.
  result,       \* TransactionResult and what the device walked to produce it.
  \* The peripheral process.
  host, stopRequested, service, job, walked,
  \* The controller process.
  controller, call, answer,
  \* History: deadlines expired; device walks seen by the current call.
  timeouts, walks

region     == <<phase, ready, attached, interrupt, index, header, writeBytes, readBytes, result>>
peripheral == <<host, stopRequested, service, job, walked>>
caller     == <<controller, call, answer>>
history    == <<timeouts, walks>>
vars       == <<region, peripheral, caller, history>>

Calls == 0 .. MaxCalls

\* What a call asks for: which of the two phases are non-empty. Neither is the
\* address probe. Number 0 stands for the zero-initialised region.
Requests == [id : Calls, phases : SUBSET {"write", "read"}]
NoRequest == [id |-> 0, phases |-> {}]
Writes(c) == "write" \in c.phases
Reads(c) == "read" \in c.phases

Flag == {0, 1}  \* As the region stores its flags and lines.

\* A walk of a posted transaction: the header it followed, the write bytes it
\* consumed (0 for none) and the TransactionResult.
TransactionResults == {"Acknowledged", "AddressNack", "DataNack"}
Walks == [id : Calls, wrote : Calls, result : TransactionResults]
NoWalk == [id |-> 0, wrote |-> 0, result |-> "Acknowledged"]

\* How transaction() returned: Result, the walk it reports, the read bytes.
Results == {"Ok", "AddressNack", "DataNack", "BusFault"}
Answers == [call : Requests, code : Results, walk : Walks, read : Calls]
Fault(c) == [call |-> c, code |-> "BusFault", walk |-> NoWalk, read |-> 0]

Phases == {"Idle", "Posted", "Complete", "Shutdown"}
Hosts == {"absent", "created", "spawned", "up", "joining", "joined",
          "unready", "quiet", "down"}
ServiceSteps == {"none", "check", "poll", "walk", "readPhase", "report", "count", "complete"}
CallSteps == {"detached", "found", "idle", "load", "fill", "describe", "post",
              "wait", "take", "release", "gaveUp"}

Init ==
  /\ phase = "Idle" /\ ready = 0 /\ attached = 0
  /\ interrupt = 0 /\ index = 0
  /\ header = NoRequest /\ writeBytes = 0 /\ readBytes = 0 /\ result = NoWalk
  /\ host = "absent" /\ stopRequested = 0
  /\ service = "none" /\ job = NoRequest /\ walked = NoWalk
  /\ controller = "detached" /\ call = NoRequest /\ answer = Fault(NoRequest)
  /\ timeouts = 0 /\ walks = 0

(***************************************************************************)
(* The host thread: I2cPeripheralEndpoint::attach, publish_interrupt and   *)
(* detach, down to the stores of I2cShmPeripheral::start and stop.         *)
(***************************************************************************)
HostAt(from, to) == host = from /\ host' = to

Create ==
  /\ HostAt("absent", "created")
  /\ UNCHANGED <<region, stopRequested, service, job, walked, caller, history>>

SpawnService ==
  /\ HostAt("created", "spawned")
  /\ stopRequested' = 0
  /\ service' = "check"
  /\ UNCHANGED <<region, job, walked, caller, history>>

MarkReady ==
  /\ HostAt("spawned", "up")
  /\ ready' = 1
  /\ UNCHANGED <<phase, attached, interrupt, index, header, writeBytes, readBytes, result>>
  /\ UNCHANGED <<stopRequested, service, job, walked, caller, history>>

PublishInterrupt ==
  /\ host = "up"
  /\ interrupt' \in Flag
  /\ UNCHANGED <<phase, ready, attached, index, header, writeBytes, readBytes, result>>
  /\ UNCHANGED <<peripheral, caller, history>>

RequestStop ==
  /\ CanStop
  /\ HostAt("up", "joining")
  /\ stopRequested' = 1
  /\ UNCHANGED <<region, service, job, walked, caller, history>>

JoinService ==
  /\ HostAt("joining", "joined")
  /\ service = "none"
  /\ UNCHANGED <<region, stopRequested, service, job, walked, caller, history>>

ClearReady ==
  /\ HostAt("joined", "unready")
  /\ ready' = 0
  /\ UNCHANGED <<phase, attached, interrupt, index, header, writeBytes, readBytes, result>>
  /\ UNCHANGED <<stopRequested, service, job, walked, caller, history>>

ClearInterrupt ==
  /\ HostAt("unready", "quiet")
  /\ interrupt' = 0
  /\ UNCHANGED <<phase, ready, attached, index, header, writeBytes, readBytes, result>>
  /\ UNCHANGED <<stopRequested, service, job, walked, caller, history>>

StoreShutdown ==
  /\ HostAt("quiet", "down")
  /\ phase' = "Shutdown"
  /\ UNCHANGED <<ready, attached, interrupt, index, header, writeBytes, readBytes, result>>
  /\ UNCHANGED <<stopRequested, service, job, walked, caller, history>>

Host == \/ Create \/ SpawnService \/ MarkReady \/ PublishInterrupt
        \/ RequestStop \/ JoinService \/ ClearReady \/ ClearInterrupt \/ StoreShutdown

(***************************************************************************)
(* The service thread: service_loop and run_transaction.                   *)
(***************************************************************************)
ServiceAt(from, to) == service = from /\ service' = to

\* The loop reads stop_requested, then the phase: a stop in between still lets
\* one posted transaction through.
CheckStop ==
  /\ service = "check"
  /\ service' = IF stopRequested = 1 THEN "none" ELSE "poll"
  /\ UNCHANGED <<region, host, stopRequested, job, walked, caller, history>>

\* Seeded fault: the loop re-serves whatever is not idle.
PickUpAgain ==
  /\ ServiceAt("poll", "walk")
  /\ phase \in {"Posted", "Complete"}
  /\ job' = header
  /\ walked' = [id |-> header.id, wrote |-> 0, result |-> "Acknowledged"]
  /\ walks' = walks + 1
  /\ UNCHANGED <<region, host, stopRequested, caller, timeouts>>

NothingPosted ==
  /\ ServiceAt("poll", "check")
  /\ phase # "Posted"
  /\ UNCHANGED <<region, host, stopRequested, job, walked, caller, history>>

\* The address and the lengths are copied out before the first bus event.
PickUp ==
  /\ ServiceAt("poll", "walk")
  /\ phase = "Posted"
  /\ job' = header
  /\ walked' = [id |-> header.id, wrote |-> 0, result |-> "Acknowledged"]
  /\ walks' = walks + 1
  /\ UNCHANGED <<region, host, stopRequested, caller, timeouts>>

\* START + address(W) and the write bytes: the write phase, or the probe of an
\* empty transaction. A NACK leaves only the STOP.
WalkWritePhase ==
  /\ service = "walk"
  /\ Writes(job) \/ ~Reads(job)
  /\ \/ walked' = [walked EXCEPT !.result = "AddressNack"] /\ service' = "report"
     \/ /\ Writes(job)
        /\ walked' = [walked EXCEPT !.result = "DataNack"] /\ service' = "report"
     \/ /\ walked' = [walked EXCEPT !.wrote = IF Writes(job) THEN writeBytes ELSE 0]
        /\ service' = IF Reads(job) THEN "readPhase" ELSE "report"
  /\ UNCHANGED <<region, host, stopRequested, job, caller, history>>

SkipWritePhase ==
  /\ ServiceAt("walk", "readPhase")
  /\ Reads(job) /\ ~Writes(job)
  /\ UNCHANGED <<region, host, stopRequested, job, walked, caller, history>>

\* (Repeated) START + address(R) and the read bytes, stored into the region.
WalkReadPhase ==
  /\ ServiceAt("readPhase", "report")
  /\ \/ walked' = [walked EXCEPT !.result = "AddressNack"] /\ UNCHANGED readBytes
     \/ readBytes' = job.id /\ UNCHANGED walked
  /\ UNCHANGED <<phase, ready, attached, interrupt, index, header, writeBytes, result>>
  /\ UNCHANGED <<host, stopRequested, job, caller, history>>

StoreResult ==
  /\ ServiceAt("report", "count")
  /\ result' = walked
  /\ UNCHANGED <<phase, ready, attached, interrupt, index, header, writeBytes, readBytes>>
  /\ UNCHANGED <<host, stopRequested, job, walked, caller, history>>

\* Seeded fault: the phase is published before the transaction is counted.
CountTransactionPublished ==
  /\ ServiceAt("count", "complete")
  /\ index' = index + 1
  /\ phase' = "Complete"
  /\ UNCHANGED <<ready, attached, interrupt, header, writeBytes, readBytes, result>>
  /\ UNCHANGED <<host, stopRequested, job, walked, caller, history>>

CountTransaction ==
  /\ ServiceAt("count", "complete")
  /\ index' = index + 1
  /\ UNCHANGED <<phase, ready, attached, interrupt, header, writeBytes, readBytes, result>>
  /\ UNCHANGED <<host, stopRequested, job, walked, caller, history>>

\* Seeded fault: the served transaction is put back to idle.
StoreCompleteIdle ==
  /\ ServiceAt("complete", "check")
  /\ phase' = "Idle"
  /\ UNCHANGED <<ready, attached, interrupt, index, header, writeBytes, readBytes, result>>
  /\ UNCHANGED <<host, stopRequested, job, walked, caller, history>>

StoreComplete ==
  /\ ServiceAt("complete", "check")
  /\ phase' = "Complete"
  /\ UNCHANGED <<ready, attached, interrupt, index, header, writeBytes, readBytes, result>>
  /\ UNCHANGED <<host, stopRequested, job, walked, caller, history>>

Service == \/ CheckStop \/ NothingPosted \/ PickUp \/ WalkWritePhase \/ SkipWritePhase
           \/ WalkReadPhase \/ StoreResult \/ CountTransaction \/ StoreComplete

(***************************************************************************)
(* The controller: attach, transaction and the destructor.                 *)
(***************************************************************************)
ControllerAt(from, to) == controller = from /\ controller' = to

\* attach() finds the segment, its version and the ready flag, which is
\* set only while the segment has a name and a constructed region.
FindBus ==
  /\ ControllerAt("detached", "found")
  /\ ready = 1
  /\ UNCHANGED <<region, peripheral, call, answer, history>>

MarkAttached ==
  /\ ControllerAt("found", "idle")
  /\ attached' = 1
  /\ UNCHANGED <<phase, ready, interrupt, index, header, writeBytes, readBytes, result>>
  /\ UNCHANGED <<peripheral, call, answer, history>>

Detach ==
  /\ controller \in {"idle", "gaveUp"}
  /\ controller' = IF controller = "idle" THEN "detached" ELSE "gaveUp"
  /\ attached' = 0
  /\ UNCHANGED <<phase, ready, interrupt, index, header, writeBytes, readBytes, result>>
  /\ UNCHANGED <<peripheral, call, answer, history>>

\* A call of transaction() with phases the bus can carry.
BeginCall ==
  /\ ControllerAt("idle", "load")
  /\ call.id < MaxCalls
  /\ \E phases \in SUBSET {"write", "read"} : call' = [id |-> call.id + 1, phases |-> phases]
  /\ walks' = 0
  /\ UNCHANGED <<region, peripheral, answer, timeouts>>

\* An over-long phase, or a write phase without bytes, is refused at once.
RefuseCall ==
  /\ controller = "idle"
  /\ call.id < MaxCalls
  /\ call' = [id |-> call.id + 1, phases |-> {}]
  /\ answer' = Fault(call')
  /\ walks' = 0
  /\ UNCHANGED <<region, peripheral, controller, timeouts>>

LoadPhase ==
  /\ controller = "load"
  /\ IF phase = "Shutdown"
       THEN controller' = "idle" /\ answer' = Fault(call)
       ELSE /\ controller' = IF Writes(call) THEN "fill" ELSE "describe"
            /\ UNCHANGED answer
  /\ UNCHANGED <<region, peripheral, call, history>>

FillWriteBytes ==
  /\ ControllerAt("fill", "describe")
  /\ writeBytes' = call.id
  /\ UNCHANGED <<phase, ready, attached, interrupt, index, header, readBytes, result>>
  /\ UNCHANGED <<peripheral, call, answer, history>>

DescribeTransaction ==
  /\ ControllerAt("describe", "post")
  /\ header' = call
  /\ UNCHANGED <<phase, ready, attached, interrupt, index, writeBytes, readBytes, result>>
  /\ UNCHANGED <<peripheral, call, answer, history>>

Post ==
  /\ ControllerAt("post", "wait")
  /\ phase' = "Posted"
  /\ UNCHANGED <<ready, attached, interrupt, index, header, writeBytes, readBytes, result>>
  /\ UNCHANGED <<peripheral, call, answer, history>>

\* Seeded fault: any phase but the posted one ends the wait as an answer.
SeeCompleteAnyPhase ==
  /\ ControllerAt("wait", "take")
  /\ phase # "Posted"
  /\ UNCHANGED <<region, peripheral, call, answer, history>>

SeeComplete ==
  /\ ControllerAt("wait", "take")
  /\ phase = "Complete"
  /\ UNCHANGED <<region, peripheral, call, answer, history>>

\* Seeded fault: the waiting loop does not look for the terminal phase.
SeeShutdownNever == FALSE /\ UNCHANGED vars

SeeShutdown ==
  /\ ControllerAt("wait", "idle")
  /\ phase = "Shutdown"
  /\ answer' = Fault(call)
  /\ UNCHANGED <<region, peripheral, call, history>>

\* The deadline is read after the phase, so it may expire whatever the phase
\* has become meanwhile. The transaction stays posted.
TimeOut ==
  /\ CanTimeOut
  /\ ControllerAt("wait", IF KeepsCalling THEN "idle" ELSE "gaveUp")
  /\ answer' = Fault(call)
  /\ timeouts' = timeouts + 1
  /\ UNCHANGED <<region, peripheral, call, walks>>

Code(r) == IF r = "Acknowledged" THEN "Ok" ELSE r

TakeAnswer ==
  /\ ControllerAt("take", "release")
  /\ answer' = [call |-> call, code |-> Code(result.result), walk |-> result,
                read |-> IF result.result = "Acknowledged" /\ Reads(call)
                           THEN readBytes ELSE 0]
  /\ UNCHANGED <<region, peripheral, call, history>>

Release ==
  /\ ControllerAt("release", "idle")
  /\ phase' = "Idle"
  /\ UNCHANGED <<ready, attached, interrupt, index, header, writeBytes, readBytes, result>>
  /\ UNCHANGED <<peripheral, call, answer, history>>

Transaction == \/ LoadPhase \/ FillWriteBytes \/ DescribeTransaction \/ Post
               \/ SeeComplete \/ SeeShutdown \/ TakeAnswer \/ Release
Controller == \/ FindBus \/ MarkAttached \/ Detach \/ BeginCall \/ RefuseCall
              \/ TimeOut \/ Transaction

Next == Host \/ Service \/ Controller

Spec == Init /\ [][Next]_vars

\* Each thread keeps being scheduled inside a call it has begun; nothing forces
\* a call, an attach, a power-down or the expiry of a deadline.
FairSpec ==
  /\ Spec
  /\ WF_vars(Service)
  /\ WF_vars(Transaction)
  /\ WF_vars(SpawnService \/ MarkReady \/ JoinService \/ ClearReady
             \/ ClearInterrupt \/ StoreShutdown)

-----------------------------------------------------------------------------
\* Every variable has the type of the field or the local it stands for.
TypeOK ==
  /\ phase \in Phases
  /\ ready \in Flag /\ attached \in Flag /\ interrupt \in Flag
  /\ index \in Nat
  /\ header \in Requests /\ writeBytes \in Calls /\ readBytes \in Calls
  /\ result \in Walks
  /\ host \in Hosts /\ stopRequested \in Flag
  /\ service \in ServiceSteps /\ job \in Requests /\ walked \in Walks
  /\ controller \in CallSteps /\ call \in Requests /\ answer \in Answers
  /\ timeouts \in Nat /\ walks \in Nat

\* The steps during which each side reads or writes the unguarded fields.
ControllerInPayload == controller \in {"fill", "describe", "post", "take", "release"}
ServiceInPayload == service \notin {"none", "check", "poll"}

\* Data-race freedom of the header, the buffers and the result: as long as no
\* deadline has expired, the phase hands the payload from one side to the other
\* and the two are never in it together, a stop at any moment included.
PayloadHasOneOwner == timeouts = 0 => ~(ControllerInPayload /\ ServiceInPayload)

\* What the accepted answer must say of the call that accepts it.
AnswersItsCall ==
  LET accepted == answer.call
  IN  answer.code = "Ok" =>
        /\ answer.walk.id = accepted.id
        /\ Writes(accepted) => answer.walk.wrote = accepted.id
        /\ Reads(accepted) => answer.read = accepted.id

\* kOk means "Every byte acknowledged; read bytes are valid": the device walked
\* this very transaction, with these write bytes, and the read bytes are its
\* answer.
OkMeansServed == AnswersItsCall

\* The same, for a caller that has met no timeout: no interleaving of a stop
\* with the handshake makes a call report a transaction that was not walked.
OkMeansServedUntilTimeout == timeouts = 0 => AnswersItsCall

\* A device sees a transaction at most once, and exactly once when the call
\* reports how it ended (read-clear registers and FIFOs make a second walk
\* visible to firmware).
WalkedOnce ==
  timeouts = 0 =>
    /\ walks <= 1
    /\ controller \in {"take", "release"} => walks = 1

\* The relaxed stores of stop() are published by its last one: a controller that
\* sees the terminal phase also sees the part gone and its interrupt line low.
ShutdownPublishesAbsence == phase = "Shutdown" => ready = 0 /\ interrupt = 0

\* The strengthening the proofs induct on. What the host thread's position
\* says of the service thread and of the lines it drives:
Lifecycle ==
  /\ host \in {"absent", "created", "joined", "unready", "quiet", "down"} => service = "none"
  /\ ready = 1 => host \in {"up", "joining", "joined"}
  /\ interrupt = 1 => host \in {"up", "joining", "joined", "unready"}
  /\ phase = "Shutdown" => host = "down"

\* the phase is never ahead of the call nor behind it;
PhaseFollowsCall ==
  /\ phase = "Posted" => controller = "wait"
  /\ phase = "Complete" => controller \in {"wait", "take", "release"}
  /\ controller = "wait" => phase # "Idle"
  /\ controller \in {"take", "release"} => phase \in {"Complete", "Shutdown"}
  /\ controller # "gaveUp"

\* the payload is stored before it is published;
RequestIsStored ==
  /\ controller \in {"describe", "post", "wait"} => (Writes(call) => writeBytes = call.id)
  /\ controller \in {"post", "wait"} => header = call

\* a finished walk w is one of the ways a walk of the current call can end;
Written(c) == IF Writes(c) THEN c.id ELSE 0
WalkAnswersCall(w) ==
  /\ w.id = call.id
  /\ w.result = "Acknowledged" => /\ w.wrote = Written(call)
                                  /\ Reads(call) => readBytes = call.id
  /\ w.result = "AddressNack" => w.wrote \in {0, Written(call)}
  /\ w.result = "DataNack" => Writes(call) /\ w.wrote = 0

\* a walk in progress is the first of the waiting call;
WalkInProgress ==
  ServiceInPayload =>
    /\ controller = "wait" /\ phase = "Posted" /\ job = call /\ walks = 1
    /\ service = "walk" => walked = [id |-> call.id, wrote |-> 0, result |-> "Acknowledged"]
    /\ service = "readPhase" => /\ walked.id = call.id /\ walked.result = "Acknowledged"
                                /\ Reads(call) /\ walked.wrote = Written(call)
    /\ service \in {"report", "count", "complete"} => WalkAnswersCall(walked)
    /\ service \in {"count", "complete"} => result = walked

\* and no call is walked before it is posted or after it is complete.
WalksCounted ==
  /\ walks \in {0, 1}
  /\ controller \in {"load", "fill", "describe", "post"} => walks = 0
  /\ phase = "Posted" /\ ~ServiceInPayload => walks = 0
  /\ phase = "Complete" \/ controller \in {"take", "release"} =>
       walks = 1 /\ WalkAnswersCall(result)

\* A caller that gives up at its first timeout leaves behind at most the walk of
\* the transaction it posted.
LateWalk ==
  /\ controller = "gaveUp"
  /\ walks \in {0, 1}
  /\ ServiceInPayload => walks = 1 /\ phase = "Posted"
  /\ phase = "Posted" /\ ~ServiceInPayload => walks = 0

\* The handshake in one formula: the host thread's life cycle always, the
\* agreement of the three threads on whose turn it is until a deadline expires,
\* and what is left of it once a caller that gives up has met one.
HandshakeInv ==
  /\ Lifecycle
  /\ timeouts = 0 => /\ PhaseFollowsCall /\ RequestIsStored
                  /\ WalkInProgress /\ WalksCounted /\ AnswersItsCall
  /\ timeouts > 0 /\ ~KeepsCalling => LateWalk

\* What the code does promise of a stop: only a call that had already loaded
\* the phase when stop() stored it can overwrite the terminal phase, so nothing
\* is served any more and transaction_index stands still.
NothingServedAfterStop ==
  [][host = "down" => /\ index' = index /\ readBytes' = readBytes
                      /\ (phase' # phase => controller \in {"post", "release"})]_vars

Returned == controller \in {"idle", "gaveUp"}

\* A call blocked on a posted transaction when the part powers down returns: the
\* terminal phase reaches the waiting loop. No deadline is forced to expire, so
\* it returns in the behaviours in which none does.
StopReleasesWaitingCall == (phase = "Shutdown" /\ controller = "wait") ~> Returned

\* While the part is up, every call is answered, again without its deadline.
UpAnswersEveryCall == (controller = "load" /\ stopRequested = 0)
                        ~> (Returned \/ stopRequested = 1)

\* The call as its caller sees it. A caller that fails the run on a timeout, as
\* transaction() asks of it, gets exactly what BusCall promises.
AsCall == INSTANCE BusCall WITH
  req <- call,
  open <- controller \in {"load", "fill", "describe", "post", "wait", "take"},
  lost <- controller = "gaveUp",
  ans <- answer
ImplementsBusCall == AsCall!Spec
=============================================================================

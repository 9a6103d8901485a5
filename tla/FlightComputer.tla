---------------------------- MODULE FlightComputer ----------------------------
(***************************************************************************)
(* The flight computer processes of the examples: f16_flight_computer and  *)
(* the rocket's flight_computer.  Bring-up against a co-simulation host    *)
(* that may start before or after, the loop that takes what the sensors    *)
(* have, and the final drain.  The rocket has no radar altimeter.          *)
(*                                                                         *)
(* The host steps, sends one NAV-PVT epoch and the radar returns of a step *)
(* and gives the parts on the buses something to read.  An epoch is its    *)
(* number; the wires themselves are the business of I2cShmBus, ImuSpi,     *)
(* Bmp390, Mmc5983ma and PacketStream.                                     *)
(***************************************************************************)
EXTENDS Naturals, Sequences

CONSTANTS
  MaxEpochs,       \* Steps of the host. Bounds the model.
  SamplesPerStep,  \* The radar altimeter's rate in samples per step, rounded.
  SocketCapacity,  \* Datagrams a socket holds.
  Batch,           \* Datagrams one drain takes, 512 in the code.
  MaxAttempts      \* Probes of the magnetometer, 20 in the code.

Parts == {"imu", "baro", "mag"}

VARIABLES
  program,
  \* The host: its state, the epochs it has sent, those that no socket took, and
  \* the parts that have something new to read.
  host, epochs, lostEpochs, lostReturns, pending,
  \* The sockets: which are bound, and the datagrams they hold.
  bound, gpsSocket, radaltSocket,
  \* main(): where it is, what it left the loop for, datagrams taken by the drain
  \* under way, probes of the magnetometer and the epoch the present one began at.
  at, left, drained, attempts, probedAt,
  \* fix_count, radalt_sample_count, their values when the final round began; the
  \* parts a sample came from, those given up, imu_bus_failed.
  fixes, returns, before, heard, gone, imuFailed,
  stamped     \* The epoch of the last fix and the one its stamp stands for.
hostVars == <<host, epochs, lostEpochs, lostReturns, pending>>
sockets == <<bound, gpsSocket, radaltSocket>>
bringUp == <<attempts, probedAt>>
counts == <<fixes, returns>>
flight == <<left, drained, counts, before, heard, gone, imuFailed, stamped>>
vars == <<program, hostVars, sockets, at, bringUp, flight>>

None == 0
Done == {"succeeded", "failed"}
HasRadalt == program = "f16"

Init ==
  /\ program \in {"f16", "rocket"}
  /\ host = "absent" /\ epochs = 0 /\ lostEpochs = 0 /\ lostReturns = 0 /\ pending = {}
  /\ bound = {} /\ gpsSocket = <<>> /\ radaltSocket = 0
  /\ at = "parse" /\ left = "none" /\ drained = 0 /\ attempts = 0 /\ probedAt = 0
  /\ fixes = 0 /\ returns = 0 /\ before = <<0, 0>>
  /\ heard = {} /\ gone = {} /\ imuFailed = FALSE
  /\ stamped = [epoch |-> 1, as |-> 1]

(***************************************************************************)
(* The host, as the flight computer sees it.                               *)
(***************************************************************************)
HostStart ==
  /\ host = "absent" /\ host' = "up"
  /\ UNCHANGED <<program, epochs, lostEpochs, lostReturns, pending, sockets, at, bringUp, flight>>

\* The radar altimeter's do_step: the samples that elapse within it, but one at least.
Returns == IF SamplesPerStep > 0 THEN SamplesPerStep ELSE 1
Room == IF "radalt" \in bound THEN SocketCapacity - radaltSocket ELSE 0
Taken == IF Returns <= Room THEN Returns ELSE Room

\* A datagram for a port nobody has bound, or for a full socket, is lost.
HostStep ==
  /\ host = "up" /\ epochs < MaxEpochs
  /\ epochs' = epochs + 1
  /\ pending' = Parts
  /\ IF "gps" \in bound /\ Len(gpsSocket) < SocketCapacity
       THEN gpsSocket' = Append(gpsSocket, epochs') /\ UNCHANGED lostEpochs
       ELSE lostEpochs' = lostEpochs + 1 /\ UNCHANGED gpsSocket
  /\ radaltSocket' = radaltSocket + Taken
  /\ lostReturns' = lostReturns + Returns - Taken
  /\ UNCHANGED <<program, host, bound, at, bringUp, flight>>

\* terminate() powers the parts down.
HostTerminate ==
  /\ host = "up" /\ host' = "terminated"
  /\ UNCHANGED <<program, epochs, lostEpochs, lostReturns, pending, sockets, at, bringUp, flight>>

(***************************************************************************)
(* Bring-up.                                                               *)
(***************************************************************************)
Goto(place) == at' = place
Fail == Goto("failed")

\* parse_args(): an option nobody knows, or one without a value, ends the program,
\* and so does a value std::stoi and its like throw at.
ParseArgs ==
  /\ at = "parse" /\ (Goto("bindGps") \/ Fail)
  /\ UNCHANGED <<program, hostVars, sockets, bringUp, flight>>

\* The sockets are bound before anything is waited for, so that datagrams queue.
CreateReceiver(port, next) ==
  /\ \/ bound' = bound \cup {port} /\ Goto(next)
     \/ Fail /\ UNCHANGED bound
  /\ UNCHANGED <<program, hostVars, gpsSocket, radaltSocket, bringUp, flight>>

BindGps == at = "bindGps" /\ CreateReceiver("gps", IF HasRadalt THEN "bindRadalt" ELSE "attach")
BindRadalt == at = "bindRadalt" /\ CreateReceiver("radalt", "attach")

\* attach_within() for each of the three buses: they come up in time or not.
AttachBuses ==
  /\ at = "attach"
  /\ (host = "up" /\ Goto("probe")) \/ Fail
  /\ UNCHANGED <<program, hostVars, sockets, bringUp, flight>>

\* The IMU and the barometer are probed once. Nobody answers for a host that has
\* terminated, and one that is up may be too busy to.
ProbeImuBaro ==
  /\ at = "probe"
  /\ (host = "up" /\ Goto("probeMag")) \/ Fail
  /\ UNCHANGED <<program, hostVars, sockets, bringUp, flight>>

\* The magnetometer's probe waits for a measurement, which takes a step of the
\* host, unless a rocket is told to skip the conditioning; a probe that times out
\* is repeated, every other failure is final.
BeginMagProbe ==
  /\ at = "probeMag"
  /\ IF attempts < MaxAttempts
       THEN /\ attempts' = attempts + 1 /\ probedAt' = epochs
            /\ Goto("calibrate")
       ELSE Fail /\ UNCHANGED bringUp
  /\ UNCHANGED <<program, hostVars, sockets, flight>>

EndMagProbe ==
  /\ at = "calibrate"
  /\ \/ host = "up" /\ (epochs > probedAt \/ program = "rocket") /\ Goto("openLogs")
     \/ host = "up" /\ Goto("probeMag")
     \/ Fail
  /\ UNCHANGED <<program, hostVars, sockets, bringUp, flight>>

\* One file per stream. What bring-up counted is of no further account.
OpenLogs ==
  /\ at = "openLogs" /\ (Goto("top") \/ Fail)
  /\ attempts' = 0 /\ probedAt' = 0
  /\ UNCHANGED <<program, hostVars, sockets, flight>>

(***************************************************************************)
(* One pass of the loop: its four ways out, then the drains and the polls. *)
(***************************************************************************)
AnyData == heard # {} \/ fixes > 0 \/ returns > 0

\* The tests at the top, in their order; the clock may say anything.
LeaveFor(reason) ==
  CASE reason = "wallClockCap" -> TRUE
    [] reason = "streamsQuiet"  -> AnyData
    [] reason = "imuFailed"     -> imuFailed
    [] reason = "poweredDown"   -> ~imuFailed /\ host = "terminated"

LeaveLoop ==
  /\ at = "top"
  /\ \E reason \in {"wallClockCap", "streamsQuiet", "imuFailed", "poweredDown"} :
       LeaveFor(reason) /\ left' = reason
  /\ before' = counts /\ drained' = 0 /\ Goto("gps")
  /\ UNCHANGED <<program, hostVars, sockets, bringUp, counts, heard, gone, imuFailed, stamped>>

StayInLoop ==
  /\ at = "top"
  /\ ~LeaveFor("imuFailed") /\ ~LeaveFor("poweredDown")
  /\ drained' = 0 /\ Goto("gps")
  /\ UNCHANGED <<program, hostVars, sockets, bringUp, left, counts, before, heard, gone, imuFailed, stamped>>

\* receive(): the oldest datagram, or none when the wait is over. That select() or
\* recvfrom() fails on an open socket is left out.
Receives(port) == IF port = "gps" THEN gpsSocket # <<>> ELSE radaltSocket > 0

\* drain_gps() and feed_gps(): a fix is stamped by its index.
FeedGps ==
  /\ at = "gps" /\ drained < Batch /\ Receives("gps")
  /\ gpsSocket' = Tail(gpsSocket) /\ drained' = drained + 1
  /\ fixes' = fixes + 1
  /\ stamped' = [epoch |-> Head(gpsSocket), as |-> fixes']
  /\ UNCHANGED <<program, hostVars, bound, radaltSocket, at, bringUp,
                 left, returns, before, heard, gone, imuFailed>>

AfterDrains == IF left = "none" THEN "imu" ELSE "round"

GpsDrained ==
  /\ at = "gps" /\ (drained = Batch \/ ~Receives("gps"))
  /\ drained' = 0 /\ Goto(IF HasRadalt THEN "radalt" ELSE AfterDrains)
  /\ UNCHANGED <<program, hostVars, sockets, bringUp, left, counts, before, heard, gone, imuFailed, stamped>>

FeedRadalt ==
  /\ at = "radalt" /\ drained < Batch /\ Receives("radalt")
  /\ radaltSocket' = radaltSocket - 1 /\ drained' = drained + 1
  /\ returns' = returns + 1
  /\ UNCHANGED <<program, hostVars, bound, gpsSocket, at, bringUp,
                 left, fixes, before, heard, gone, imuFailed, stamped>>

RadaltDrained ==
  /\ at = "radalt" /\ (drained = Batch \/ ~Receives("radalt"))
  /\ drained' = 0 /\ Goto(AfterDrains)
  /\ UNCHANGED <<program, hostVars, sockets, bringUp, left, counts, before, heard, gone, imuFailed, stamped>>

\* A part in the loop of its poll: a sample is taken and the part asked again.
TakeSample(part) ==
  /\ host = "up" /\ part \in pending
  /\ pending' = pending \ {part} /\ heard' = heard \cup {part}
  /\ UNCHANGED <<at, gone, imuFailed>>

\* Nothing to read: a data-ready line may tell so without a transfer.
NothingNew(part, next) ==
  /\ host = "terminated" \/ part \notin pending
  /\ Goto(next) /\ UNCHANGED <<pending, heard, gone, imuFailed>>

Poll(part, next, giveUp) ==
  /\ at = part
  /\ IF part \in gone THEN Goto(next) /\ UNCHANGED <<pending, heard, gone, imuFailed>>
     ELSE \/ TakeSample(part)
          \/ NothingNew(part, next)
          \/ giveUp /\ Goto(next) /\ UNCHANGED <<pending, heard>>
  /\ UNCHANGED <<program, host, epochs, lostEpochs, lostReturns, sockets, bringUp,
                 left, drained, counts, before, stamped>>

\* poll_imu(): a failed transfer counts only if the part is still there.
PollImu == Poll("imu", "baro", imuFailed' = (host = "up") /\ UNCHANGED gone)

\* poll_baro(), poll_mag(): a failed transfer ends the polling of the part.
PollBaro == Poll("baro", "mag", gone' = gone \cup {"baro"} /\ UNCHANGED imuFailed)
PollMag == Poll("mag", "top", gone' = gone \cup {"mag"} /\ UNCHANGED imuFailed)

(***************************************************************************)
(* The final drain and the summary.                                        *)
(***************************************************************************)
\* Seeded fault: one round, whatever it found.
FinalRoundOnce ==
  /\ at = "round" /\ Goto("summary") /\ UNCHANGED before
  /\ UNCHANGED <<program, hostVars, sockets, bringUp, left, drained, counts, heard, gone, imuFailed, stamped>>

\* Seeded fault: the counts of the first round are compared with in all of them.
FinalRoundAgainstFirst ==
  /\ at = "round" /\ UNCHANGED before
  /\ Goto(IF counts = before THEN "summary" ELSE "gps")
  /\ UNCHANGED <<program, hostVars, sockets, bringUp, left, drained, counts, heard, gone, imuFailed, stamped>>

\* Another round unless the last one decoded nothing.
FinalRound ==
  /\ at = "round" /\ before' = counts
  /\ Goto(IF counts = before THEN "summary" ELSE "gps")
  /\ UNCHANGED <<program, hostVars, sockets, bringUp, left, drained, counts, heard, gone, imuFailed, stamped>>

Summary ==
  /\ at = "summary"
  /\ Goto(IF fixes > 0 /\ heard = Parts /\ (HasRadalt => returns > 0) THEN "succeeded" ELSE "failed")
  /\ UNCHANGED <<program, hostVars, sockets, bringUp, flight>>

F16 ==
  /\ program = "f16"
  /\ \/ ParseArgs \/ BindGps \/ BindRadalt \/ AttachBuses
     \/ ProbeImuBaro \/ BeginMagProbe \/ EndMagProbe \/ OpenLogs
     \/ LeaveLoop \/ StayInLoop \/ FeedGps \/ GpsDrained \/ FeedRadalt \/ RadaltDrained
     \/ PollImu \/ PollBaro \/ PollMag \/ FinalRound \/ Summary

(***************************************************************************)
(* The rocket's flight computer is a copy without the radar altimeter.     *)
(***************************************************************************)
Rocket == program = "rocket"

RocketParseArgs == Rocket /\ ParseArgs
RocketBind == Rocket /\ BindGps
RocketBringUp == Rocket /\ (AttachBuses \/ ProbeImuBaro \/ BeginMagProbe \/ EndMagProbe)
RocketOpenLogs == Rocket /\ OpenLogs
RocketDrainGps == Rocket /\ (FeedGps \/ GpsDrained)
RocketPollImu == Rocket /\ PollImu
RocketPollBaro == Rocket /\ PollBaro
RocketPollMag == Rocket /\ PollMag
RocketLoop == Rocket /\ (LeaveLoop \/ StayInLoop)
RocketFinish == Rocket /\ (FinalRound \/ Summary)

Computer ==
  \/ F16
  \/ RocketParseArgs \/ RocketBind \/ RocketBringUp \/ RocketOpenLogs \/ RocketDrainGps
  \/ RocketPollImu \/ RocketPollBaro \/ RocketPollMag \/ RocketLoop \/ RocketFinish

Next == HostStart \/ HostStep \/ HostTerminate \/ Computer

Spec == Init /\ [][Next]_vars

-----------------------------------------------------------------------------
\* "Take whatever is still queued before summarising, so the counts reflect what
\* was sent rather than where the loop happened to exit": a flight that ended with
\* the parts powered down has counted every epoch and every radar return that a
\* socket took, however many there were and whenever they came.
CountsWhatWasSent ==
  at \in {"summary", "succeeded"} /\ left = "poweredDown"
    => /\ fixes = epochs - lostEpochs
       /\ returns = epochs * Returns - lostReturns

\* The two ends of HostEndEndsFlight, which the bench states under the fairness of
\* this process: it is scheduled; the host is another one and owes nothing.
HostEnded == host = "terminated"
FlightEnded == at \in Done

\* "One NAV-PVT frame is emitted per communication step, so the epoch index maps
\* directly to co-simulation time": the stamp of a fix, (fix_count - 1) periods, is
\* that of the epoch the fix belongs to.
StampIsEpoch == stamped.as = stamped.epoch

\* Every variable has the type of the local or the counter it stands for.
Places == {"parse", "bindGps", "bindRadalt", "attach", "probe", "probeMag", "calibrate",
           "openLogs", "top", "gps", "radalt", "imu", "baro", "mag", "round", "summary"} \cup Done
TypeOK ==
  /\ program \in {"f16", "rocket"} /\ host \in {"absent", "up", "terminated"}
  /\ epochs \in Nat /\ lostEpochs \in Nat /\ lostReturns \in Nat
  /\ gpsSocket \in Seq(Nat) /\ radaltSocket \in Nat
  /\ at \in Places /\ drained \in Nat
  /\ left \in {"none", "wallClockCap", "streamsQuiet", "imuFailed", "poweredDown"}
  /\ fixes \in Nat /\ returns \in Nat /\ before \in Nat \X Nat

\* What the proof inducts on. Nothing sent is unaccounted for: it is lost, still
\* in a socket, or counted;
AllAccountedFor ==
  /\ fixes + Len(gpsSocket) + lostEpochs = epochs
  /\ returns + radaltSocket + lostReturns = epochs * Returns

\* the rocket's computer binds no port for radar returns;
RadaltIsBound ==
  /\ radaltSocket <= SocketCapacity
  /\ at \in {"bindRadalt", "radalt"} => HasRadalt
  /\ ~HasRadalt => "radalt" \notin bound /\ radaltSocket = 0

\* a program that has left the loop is in its final rounds, and one that left it
\* because the parts were powered down is sent nothing any more;
LeftForGood ==
  /\ left # "none" => at \in {"gps", "radalt", "round", "summary"} \cup Done
  /\ left = "poweredDown" => host = "terminated"

\* and a final round that decoded nothing from a socket found it empty.
RoundsTakeAll ==
  left = "poweredDown" =>
    /\ at = "gps" => fixes = before[1] + drained /\ returns = before[2]
    /\ at = "radalt" => returns = before[2] + drained
    /\ at \in {"radalt", "round"} => (fixes = before[1] => gpsSocket = <<>>)
    /\ at = "round" => drained = 0 /\ (returns = before[2] => radaltSocket = 0)
    /\ at \in {"summary"} \cup Done => gpsSocket = <<>> /\ radaltSocket = 0

FlightInv == AllAccountedFor /\ RadaltIsBound /\ LeftForGood /\ RoundsTakeAll
=============================================================================

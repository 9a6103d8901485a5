------------------------------- MODULE ImuSpi --------------------------------
(***************************************************************************)
(* The IMU on its SPI bus, end to end: the FMU that steps the part, the    *)
(* part's FIFO and status register (ImuSpiSlave), the service thread and   *)
(* the handshake of sim/spi_shm, and the driver that probes the part and   *)
(* polls it until a transfer fails.                                        *)
(*                                                                         *)
(* A byte of the sample stream is the frame it belongs to and its offset   *)
(* there; only the first byte of a frame looks like a sync byte.  The      *)
(* slave's mutex is held for a whole chip-select frame, so the service     *)
(* thread shifts a transfer in one step.                                   *)
(***************************************************************************)
EXTENDS Integers, Sequences

CONSTANTS
  MaxFrames,    \* Frames the part samples. Bounds the model.
  FrameBytes,   \* Bytes of a raw-sample frame.
  FifoBytes,    \* Capacity of the part's FIFO.
  MaxBurst,     \* Longest burst the driver issues.
  Capacity,     \* Samples the caller of poll() has room for.
  CanTimeOut    \* Whether a transfer and the drain at termination may expire.

ASSUME SizesAssumption ==
  /\ MaxFrames \in Nat
  /\ {FrameBytes, FifoBytes, MaxBurst, Capacity} \subseteq Nat \ {0}
ASSUME SwitchAssumption == CanTimeOut \in BOOLEAN

VARIABLES
  \* The SpiBusRegion.
  phase, attached, present, line, mosi, miso,
  \* The slave: its FIFO and the sticky bit; history: frames sampled, and the
  \* frames that entered the FIFO since CONTROL was last written.
  fifo, sticky, sampled, written,
  \* The FMU's thread and the service thread.
  fmu, level, stopRequested, service, expired,
  \* The driver: the transfer it is in, what it knows, what it has decoded.
  \* (in all, and in this poll), and up to which frame it was told of drops.
  driver, transfer, rx, remaining, held, decoded, polled, told

region == <<phase, attached, present, line, mosi, miso>>
slave  == <<fifo, sticky, sampled, written>>
thread == <<fmu, level, stopRequested, service, expired>>
parsed == <<held, decoded, polled, told>>
caller == <<driver, transfer, rx, remaining, parsed>>
vars   == <<region, slave, thread, caller>>

FrameOf(k) == [i \in 1 .. FrameBytes |-> <<k, i>>]
Dummy == <<0, 0>>
StreamByte(frames, p) == <<frames[((p - 1) \div FrameBytes) + 1], ((p - 1) % FrameBytes) + 1>>
BytesOf(frames) == [p \in 1 .. Len(frames) * FrameBytes |-> StreamByte(frames, p)]

\* Transfers: WHO_AM_I, a write of CONTROL, STATUS with the count, FIFO_DATA.
Transfer(kind, n) == [kind |-> kind, bytes |-> n]
\* What the status registers say and the frame it was said at, or FIFO bytes.
NoAnswer == [overflow |-> 0, count |-> 0, at |-> 0, bytes |-> <<>>]

Init ==
  /\ phase = "Idle" /\ attached = 0 /\ present = 1 /\ line = 0
  /\ mosi = Transfer("none", 0) /\ miso = NoAnswer
  /\ fifo = <<>> /\ sticky = 0 /\ sampled = 0 /\ written = <<>>
  /\ fmu = "stepped" /\ level = 0 /\ stopRequested = 0 /\ service = "check" /\ expired = 0
  /\ driver = "detached" /\ transfer = "none" /\ rx = NoAnswer /\ remaining = 0
  /\ held = <<>> /\ decoded = <<>> /\ polled = 0 /\ told = 0

(***************************************************************************)
(* The FMU: do_step, one sample at a time, and terminate.                  *)
(***************************************************************************)
\* Seeded fault: a frame that does not fit is cut to the room there is.
PushFramePartial ==
  /\ fmu = "stepped" \/ fmu = "sampling"
  /\ sampled < MaxFrames
  /\ fmu' = "sampling"
  /\ sampled' = sampled + 1
  /\ LET room == FifoBytes - Len(fifo)
     IN  IF FrameBytes > room
           THEN fifo' = fifo \o SubSeq(FrameOf(sampled + 1), 1, room) /\ sticky' = 1 /\ UNCHANGED written
           ELSE /\ fifo' = fifo \o FrameOf(sampled + 1)
                /\ written' = Append(written, sampled + 1)
                /\ UNCHANGED sticky
  /\ UNCHANGED <<region, level, stopRequested, service, expired, caller>>

\* Seeded fault: the overflow flag says what the last push did.
PushFrameNotSticky ==
  /\ fmu = "stepped" \/ fmu = "sampling"
  /\ sampled < MaxFrames
  /\ fmu' = "sampling"
  /\ sampled' = sampled + 1
  /\ IF FrameBytes > FifoBytes - Len(fifo)
       THEN sticky' = 1 /\ UNCHANGED <<fifo, written>>
       ELSE /\ fifo' = fifo \o FrameOf(sampled + 1)
            /\ written' = Append(written, sampled + 1)
            /\ sticky' = 0
  /\ UNCHANGED <<region, level, stopRequested, service, expired, caller>>

\* push_frame: all or nothing.
PushFrame ==
  /\ fmu = "stepped" \/ fmu = "sampling"
  /\ sampled < MaxFrames
  /\ fmu' = "sampling"
  /\ sampled' = sampled + 1
  /\ IF FrameBytes > FifoBytes - Len(fifo)
       THEN sticky' = 1 /\ UNCHANGED <<fifo, written>>
       ELSE /\ fifo' = fifo \o FrameOf(sampled + 1)
            /\ written' = Append(written, sampled + 1)
            /\ UNCHANGED sticky
  /\ UNCHANGED <<region, level, stopRequested, service, expired, caller>>

\* Seeded fault: the line announces a full burst, not any sample.
ReadLevelWatermark ==
  /\ fmu = "sampling" /\ fmu' = "driving"
  /\ level' = IF Len(fifo) > FrameBytes THEN 1 ELSE 0
  /\ UNCHANGED <<region, slave, stopRequested, service, expired, caller>>

\* publish_data_ready(slave_.data_ready()): the level is read under the mutex
\* and driven after it.
ReadLevel ==
  /\ fmu = "sampling" /\ fmu' = "driving"
  /\ level' = IF fifo # <<>> THEN 1 ELSE 0
  /\ UNCHANGED <<region, slave, stopRequested, service, expired, caller>>

\* Seeded fault: data-ready is pulsed, not driven as a level.
DriveLinePulsed ==
  /\ fmu = "driving" /\ fmu' = "stepped"
  /\ line' = IF line = 1 THEN 0 ELSE level
  /\ UNCHANGED <<phase, attached, present, mosi, miso, slave, level, stopRequested, service, expired, caller>>

DriveLine ==
  /\ fmu = "driving" /\ fmu' = "stepped"
  /\ line' = level
  /\ UNCHANGED <<phase, attached, present, mosi, miso, slave, level, stopRequested, service, expired, caller>>

Terminate ==
  /\ fmu = "stepped" /\ fmu' = "drain"
  /\ UNCHANGED <<region, slave, level, stopRequested, service, expired, caller>>

\* The drain ends when the FIFO is empty or nobody is attached,
Drained ==
  /\ fmu = "drain" /\ fmu' = "stopping"
  /\ fifo = <<>> \/ attached = 0
  /\ stopRequested' = 1
  /\ UNCHANGED <<region, slave, level, service, expired, caller>>

\* and after its deadline whatever is left.
DrainExpires ==
  /\ CanTimeOut
  /\ fmu = "drain" /\ fmu' = "stopping"
  /\ stopRequested' = 1 /\ expired' = 1
  /\ UNCHANGED <<region, slave, level, service, caller>>

\* stop(), once the service thread is joined: ready and the line first, then
\* the terminal phase that publishes them.
ClearLevels ==
  /\ fmu = "stopping" /\ fmu' = "cleared"
  /\ service = "none"
  /\ present' = 0 /\ line' = 0
  /\ UNCHANGED <<phase, attached, mosi, miso, slave, level, stopRequested, service, expired, caller>>

StoreShutdown ==
  /\ fmu = "cleared" /\ fmu' = "down"
  /\ phase' = "Shutdown"
  /\ UNCHANGED <<attached, present, line, mosi, miso, slave, level, stopRequested, service, expired, caller>>

Fmu == PushFrame \/ ReadLevel \/ DriveLine \/ Terminate \/ Drained \/ ClearLevels \/ StoreShutdown

(***************************************************************************)
(* The service thread.                                                     *)
(***************************************************************************)
CheckStop ==
  /\ service = "check"
  /\ service' = IF stopRequested = 1 THEN "none" ELSE "poll"
  /\ UNCHANGED <<region, slave, fmu, level, stopRequested, expired, caller>>

NothingPosted ==
  /\ service = "poll" /\ service' = "check"
  /\ phase # "Posted"
  /\ UNCHANGED <<region, slave, fmu, level, stopRequested, expired, caller>>

\* STATUS and FIFO_COUNT of one chip-select frame; the overflow bit is cleared.
ShiftStatus ==
  /\ mosi.kind = "status"
  /\ miso' = [NoAnswer EXCEPT !.overflow = sticky, !.count = Len(fifo), !.at = sampled]
  /\ sticky' = 0
  /\ UNCHANGED <<fifo, sampled, written>>

\* FIFO_DATA pops; an empty FIFO answers with the idle byte.
ShiftBurst ==
  /\ mosi.kind = "burst"
  /\ miso' = [NoAnswer EXCEPT !.bytes =
                [i \in 1 .. mosi.bytes |-> IF i <= Len(fifo) THEN fifo[i] ELSE Dummy]]
  /\ fifo' = IF mosi.bytes >= Len(fifo) THEN <<>>
             ELSE SubSeq(fifo, mosi.bytes + 1, Len(fifo))
  /\ UNCHANGED <<sticky, sampled, written>>

\* CONTROL is written with the startup value: buffering on, FIFO emptied.
ShiftStartup ==
  /\ mosi.kind = "start"
  /\ fifo' = <<>> /\ sticky' = 0 /\ written' = <<>>
  /\ miso' = NoAnswer
  /\ UNCHANGED sampled

ShiftIdentity ==
  /\ mosi.kind = "identify"
  /\ miso' = NoAnswer
  /\ UNCHANGED slave

Shift ==
  /\ service = "poll" /\ service' = "complete"
  /\ phase = "Posted"
  /\ ShiftStatus \/ ShiftBurst \/ ShiftStartup \/ ShiftIdentity
  /\ UNCHANGED <<phase, attached, present, line, mosi, fmu, level, stopRequested, expired, caller>>

StoreComplete ==
  /\ service = "complete" /\ service' = "check"
  /\ phase' = "Complete"
  /\ UNCHANGED <<attached, present, line, mosi, miso, slave, fmu, level, stopRequested, expired, caller>>

Service == CheckStop \/ NothingPosted \/ Shift \/ StoreComplete

(***************************************************************************)
(* SpiShmController::transfer.                                             *)
(***************************************************************************)
LoadPhase ==
  /\ transfer = "load"
  /\ transfer' = IF phase = "Shutdown" THEN "failed" ELSE "post"
  /\ UNCHANGED <<region, slave, thread, driver, rx, remaining, parsed>>

\* Seeded fault: the last burst of a poll is not cut short.
RequestWholeBursts ==
  IF driver = "burst" THEN Transfer("burst", MaxBurst) ELSE Transfer(driver, 0)

\* What the driver's present step asks for.
Request ==
  CASE driver = "burst" -> Transfer("burst", IF remaining < MaxBurst THEN remaining ELSE MaxBurst)
    [] OTHER            -> Transfer(driver, 0)

Post ==
  /\ transfer = "post" /\ transfer' = "wait"
  /\ mosi' = Request
  /\ phase' = "Posted"
  /\ UNCHANGED <<attached, present, line, miso, slave, thread, driver, rx, remaining, parsed>>

\* Complete ends the wait and is read out; the terminal phase fails it.
SeeComplete ==
  /\ transfer = "wait" /\ transfer' = "release"
  /\ phase = "Complete"
  /\ rx' = miso
  /\ UNCHANGED <<region, slave, thread, driver, remaining, parsed>>

SeeShutdown ==
  /\ transfer = "wait" /\ transfer' = "failed"
  /\ phase = "Shutdown"
  /\ UNCHANGED <<region, slave, thread, driver, rx, remaining, parsed>>

TimeOut ==
  /\ CanTimeOut
  /\ transfer = "wait" /\ transfer' = "failed"
  /\ UNCHANGED <<region, slave, thread, driver, rx, remaining, parsed>>

Release ==
  /\ transfer = "release" /\ transfer' = "done"
  /\ phase' = "Idle"
  /\ UNCHANGED <<attached, present, line, mosi, miso, slave, thread, driver, rx, remaining, parsed>>

TransferSteps == LoadPhase \/ Post \/ SeeComplete \/ SeeShutdown \/ Release

(***************************************************************************)
(* The driver and the loop that polls it.                                  *)
(***************************************************************************)
Attach ==
  /\ driver = "detached" /\ driver' = "identify"
  /\ present = 1
  /\ attached' = 1
  /\ transfer' = "load"
  /\ UNCHANGED <<phase, present, line, mosi, miso, slave, thread, rx, remaining, parsed>>

\* One step of probe() or poll() is over, the next begins with a transfer.
Continue(step) == driver' = step /\ transfer' = "load"
Pause == driver' = "watch" /\ transfer' = "none"

Identified ==
  /\ driver = "identify" /\ transfer = "done"
  /\ Continue("start")
  /\ UNCHANGED <<region, slave, thread, rx, remaining, parsed>>

Started ==
  /\ driver = "start" /\ transfer = "done"
  /\ Pause
  /\ UNCHANGED <<region, slave, thread, rx, remaining, parsed>>

\* data_ready(): the line is only sampled; the status read decides.
BeginPoll ==
  /\ driver = "watch" /\ line = 1
  /\ Continue("status")
  /\ polled' = 0
  /\ UNCHANGED <<region, slave, thread, rx, remaining, held, decoded, told>>

\* Seeded fault: the caller's room is not looked at.
BudgetUncapped(count) == count

Budget(count) == IF count < Capacity * FrameBytes THEN count ELSE Capacity * FrameBytes

TakeStatus ==
  /\ driver = "status" /\ transfer = "done"
  /\ told' = IF rx.overflow = 1 THEN rx.at ELSE told
  /\ remaining' = Budget(rx.count)
  /\ IF rx.count = 0 THEN Pause ELSE Continue("burst")
  /\ UNCHANGED <<region, slave, thread, rx, held, decoded, polled>>

\* parse_byte on a frame being collected: bytes outside a frame are skipped
\* until one opens a frame; a full frame is decoded if it checks out.
Parse(byte) ==
  LET bytes == IF held = <<>> /\ byte[2] # 1 THEN <<>> ELSE Append(held, byte)
  IN  IF Len(bytes) < FrameBytes
        THEN held' = bytes /\ UNCHANGED <<decoded, polled>>
        ELSE /\ held' = <<>>
             /\ IF bytes = FrameOf(byte[1])
                  THEN decoded' = Append(decoded, byte[1]) /\ polled' = polled + 1
                  ELSE UNCHANGED <<decoded, polled>>

\* One byte of a burst; `remaining' is the driver's own and counts down with
\* them. The last one ends the poll or asks for another burst.
TakeByte ==
  /\ driver = "burst" /\ transfer = "done"
  /\ Parse(Head(rx.bytes))
  /\ rx' = [rx EXCEPT !.bytes = Tail(@)]
  /\ remaining' = remaining - 1
  /\ IF Len(rx.bytes) > 1 THEN UNCHANGED <<driver, transfer>>
     ELSE IF remaining' = 0 THEN Pause ELSE Continue("burst")
  /\ UNCHANGED <<region, slave, thread, told>>

\* A failed transfer ends the loop, and so does a part that is gone; the
\* controller's destructor clears the attached flag.
Leave ==
  /\ transfer = "failed" \/ (driver = "watch" /\ present = 0)
  /\ driver' = "ended" /\ transfer' = "none"
  /\ attached' = 0
  /\ UNCHANGED <<phase, present, line, mosi, miso, slave, thread, rx, remaining, parsed>>

Driver == Attach \/ Identified \/ Started \/ BeginPoll \/ TakeStatus \/ TakeByte \/ Leave

Next == Fmu \/ DrainExpires \/ Service \/ TransferSteps \/ TimeOut \/ Driver

Spec == Init /\ [][Next]_vars

\* The FMU's thread, the service thread and the controller's loop keep
\* running; nobody has to attach and no deadline has to pass.
FairSpec ==
  /\ Spec
  /\ WF_vars(Fmu) /\ WF_vars(Service)
  /\ WF_vars(TransferSteps \/ (driver # "detached" /\ Driver))
  /\ WF_vars(Drained)

(***************************************************************************)
(* Properties.                                                             *)
(***************************************************************************)
Frames == 1 .. MaxFrames
Bytes  == {Dummy} \cup (Frames \X (1 .. FrameBytes))

\* The states of the region, of the part and of the three threads.
TypeOK ==
  /\ phase \in {"Idle", "Posted", "Complete", "Shutdown"}
  /\ {attached, present, line, level, sticky, stopRequested, expired} \subseteq {0, 1}
  /\ fifo \in Seq(Bytes) /\ Len(fifo) <= FifoBytes
  /\ sampled \in 0 .. MaxFrames /\ written \in Seq(Frames) /\ decoded \in Seq(Frames)
  /\ fmu \in {"stepped", "sampling", "driving", "drain", "stopping", "cleared", "down"}
  /\ service \in {"check", "poll", "complete", "none"}
  /\ driver \in {"detached", "identify", "start", "watch", "status", "burst", "ended"}
  /\ transfer \in {"none", "load", "post", "wait", "release", "done", "failed"}
  /\ remaining \in 0 .. FifoBytes /\ held \in Seq(Bytes) /\ Len(held) < FrameBytes

\* What the part has answered to the transfer under way, and what of it is bytes
\* the driver has not parsed yet.
Answered ==
  \/ transfer \in {"release", "done"}
  \/ service = "complete" \/ (transfer = "wait" /\ phase = "Complete")
Answer ==
  IF transfer \in {"release", "done"} THEN rx ELSE IF Answered THEN miso ELSE NoAnswer
InFlight == IF driver = "burst" THEN Answer.bytes ELSE <<>>

Streaming == driver \in {"watch", "status", "burst"} /\ transfer # "failed"
AnswerLost == transfer = "wait" /\ phase = "Shutdown"
\* While the driver and the part are up, the frames the part buffered since it was started
\* are exactly what is decoded, half parsed, in a transfer and in the FIFO, in
\* that order: no byte is lost, repeated or cut out of a frame on its way
\* through FIFO, bursts and parser (imu_spi_driver.h:126-130).
StreamIntact ==
  Streaming /\ ~AnswerLost => BytesOf(written) = BytesOf(decoded) \o held \o InFlight \o fifo

\* A frame missing from the decoded samples was announced by an overflow
\* report no later than the poll that decodes the next one, although frames
\* are dropped while polls are under way (the sticky STATUS bit).
GapIsAnnounced ==
  \A i \in 1 .. Len(decoded) - 1 : decoded[i + 1] > decoded[i] + 1 => told >= decoded[i + 1] - 1

\* A poll never decodes more samples than the caller has room for, whatever
\* the previous poll left in the parser ("unreachable", imu_spi_driver.cpp:91).
CapacityRespected == polled <= Capacity

\* The bytes a burst asks for are in the FIFO when it is served: whatever
\* happens since the count was read, only this driver takes bytes out.
NeverOverReads ==
  driver = "burst" /\ transfer = "wait" /\ phase = "Posted" /\ service # "complete"
    => mosi.bytes <= Len(fifo)

\* All of it: polls, bursts and pushes in any order keep the stream, the FIFO's
\* bounds and the caller's.
PollsKeepTheStream == TypeOK /\ StreamIntact /\ CapacityRespected /\ NeverOverReads

\* Between steps of the part, buffered samples are announced on the line
\* although it is driven after the level was read (fmu_main.cpp:384-387).
LineAnnouncesSamples == fmu = "stepped" /\ fifo # <<>> => line = 1

\* Power-down does not live on its deadline: no deadline is forced to pass, and
\* still a controller that reads, or one that leaves, lets the part go
\* (fmu_main.cpp:312-320).
DrainEnds == fmu = "drain" ~> fmu = "down"

\* Power-down waits for a controller still reading, so that the sample stream
\* ends where the simulation does: unless the drain expired, what the part
\* buffered has been decoded once the driver is through (fmu_main.cpp:307-311).
EverySampleArrives ==
  driver = "ended" /\ written # <<>> /\ decoded # <<>> /\ expired = 0 => decoded = written

\* What the proofs of these properties induct on: the types of the answers,
Answers == [overflow : {0, 1}, count : 0 .. FifoBytes, at : 0 .. MaxFrames, bytes : Seq(Bytes)]
AnswersTyped ==
  /\ mosi.kind \in {"none", "identify", "start", "status", "burst"} /\ mosi.bytes \in 0 .. MaxBurst
  /\ miso \in Answers /\ rx \in Answers
  /\ polled \in Nat /\ told \in 0 .. sampled /\ rx.at <= sampled /\ miso.at <= sampled

\* that a transfer of a driver that is up is the one its present step asked for,
\* and that the service thread is gone before the bus is,
Up == driver \in {"identify", "start", "watch", "status", "burst"} /\ transfer # "failed"
Live == Up /\ ~AnswerLost
WireInv ==
  /\ (phase = "Shutdown" \/ fmu \in {"cleared", "down"}) => service = "none"
  /\ driver \in {"detached", "watch", "ended"} => transfer = "none"
  /\ driver \in {"identify", "start", "status", "burst"} => transfer # "none"
  /\ driver = "detached" => phase \in {"Idle", "Shutdown"} /\ service # "complete"
  /\ Up => /\ phase = "Posted" => transfer = "wait" /\ mosi = Request
           /\ phase = "Complete" => transfer \in {"wait", "release"}
           /\ service = "complete" => phase = "Posted"

\* that what is read of the FIFO is there,
ReadsInv ==
  Live =>
    /\ driver = "status" => Answer.count <= Len(fifo)
    /\ driver = "burst" =>
         /\ remaining > 0 /\ remaining <= Len(InFlight) + Len(fifo)
         /\ Answered => Len(InFlight) \in 1 .. remaining

\* where every byte of the stream is, from when CONTROL was written on,
Begun == driver \in {"watch", "status", "burst"} \/ (driver = "start" /\ Answered)
Parsed == Len(decoded) * FrameBytes + Len(held)
StreamHolds ==
  /\ Len(written) * FrameBytes = Parsed + Len(InFlight) + Len(fifo)
  /\ \A i \in 1 .. Len(decoded) : decoded[i] = written[i]
  /\ \A i \in 1 .. Len(held) : held[i] = <<written[Len(decoded) + 1], i>>
  /\ \A i \in 1 .. Len(InFlight) : InFlight[i] = StreamByte(written, Parsed + i)
  /\ \A i \in 1 .. Len(fifo) : fifo[i] = StreamByte(written, Parsed + Len(InFlight) + i)
StreamInv ==
  /\ driver \in {"detached", "identify", "start"} => held = <<>> /\ decoded = <<>>
  /\ Begun /\ Live => StreamHolds

\* what a poll may still decode,
RoomInv ==
  /\ polled * FrameBytes + Len(held) + (IF driver = "burst" THEN remaining ELSE 0)
       <= Capacity * FrameBytes + FrameBytes - 1
  /\ driver = "status" => polled = 0

\* and where a gap is announced: by the sticky bit, by the answer to a status
\* read or by what the driver was told, by the last of them alone once the frame
\* behind it has been counted.
Counted ==
  Parsed + (CASE driver = "burst" -> remaining [] driver = "status" -> Answer.count [] OTHER -> 0)
Reported(k) == driver = "status" /\ Answer.overflow = 1 /\ Answer.at >= k
Announced(k) == told >= k \/ Reported(k)
GapsTold ==
  /\ \A i \in 1 .. Len(written) - 1 :
       written[i + 1] > written[i] + 1 =>
         /\ sticky = 1 \/ Announced(written[i + 1] - 1)
         /\ i * FrameBytes < Counted => Announced(written[i + 1] - 1)
  /\ (Len(written) > 0 /\ written[Len(written)] < sampled) => sticky = 1 \/ Announced(sampled)
  /\ (driver = "status" /\ Answered) => Answer.at >= told
GapInv ==
  /\ \A i \in 1 .. Len(written) : written[i] <= sampled
  /\ GapIsAnnounced
  /\ Begun /\ Live => GapsTold

\* The line: what is about to be driven on it.
LineInv == LineAnnouncesSamples /\ (fmu = "driving" /\ fifo # <<>> => level = 1)
ImuInv ==
  TypeOK /\ AnswersTyped /\ WireInv /\ ReadsInv /\ StreamInv /\ RoomInv /\ GapInv /\ LineInv
=============================================================================

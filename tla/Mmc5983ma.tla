------------------------------ MODULE Mmc5983ma ------------------------------
(***************************************************************************)
(* The magnetometer: the part as its FMU steps it, and the driver that     *)
(* brings it up, calibrates its bridge offset with a SET/RESET pair and    *)
(* reads samples.  The part's mutex is held from START to STOP, so a bus   *)
(* transaction is one step; the FMU takes that mutex for each of its own   *)
(* accesses and releases it in between.                                    *)
(*                                                                         *)
(* One axis, relative to the null-field output: a measurement taken with   *)
(* sensing polarity p reads p * Field + Bridge, and Field under automatic  *)
(* set/reset.  Temperature measurements and self test share no state with  *)
(* this and are left out, and so is the periodic SET, which acts only      *)
(* under automatic set/reset, where the polarity does not count.           *)
(***************************************************************************)
EXTENDS Integers, Sequences

CONSTANTS
  Field, Bridge,    \* The field at the part, and the offset of its bridge.
  PerStep,          \* Most free-running measurements of one step of the FMU.
  MaxMeasurements,  \* Measurements the part takes. Bounds the model.
  CanTimeOut        \* Whether a wait for a measurement may run out.

ASSUME ValuesAssumption == Field \in Nat \ {0} /\ Bridge \in Nat \ {0}
ASSUME BoundsAssumption == PerStep \in Nat \ {0} /\ MaxMeasurements \in Nat
ASSUME SwitchAssumption == CanTimeOut \in BOOLEAN

VARIABLES
  \* The part: magnetization, measurement-done flag, data registers, TM_M
  \* pending, continuous mode, the persistent bits of Internal control 0.
  magnet, done, data, pending, continuous, interrupt, automatic,
  \* The FMU's step, what it sensed, whether it serves a trigger, the
  \* measurements it owes; history: measurements taken. The INT line.
  engine, sensed, triggered, owed, taken, line,
  \* The driver: its configuration, what is left of its operation, whether
  \* probe() succeeded, the offset in use, the counts it has read and the last
  \* sample it returned.
  config, todo, probed, offset, afterSet, counts, sample,
  \* History: the last measurement begun before the part was reset; whether a
  \* calibration's wait has been answered by another measurement than the one it
  \* triggered, whether one has failed after its RESET and none succeeded since,
  \* whether one has stored an offset.
  old, mistaken, failed, calibrated

part   == <<magnet, done, data, pending, continuous, interrupt, automatic>>
step   == <<engine, sensed, triggered, owed, taken, line>>
history == <<old, mistaken, failed, calibrated>>
driver == <<config, todo, probed, offset, afterSet, counts, sample, history>>
vars   == <<part, step, driver>>

Measurement(value, id) == [value |-> value, id |-> id]
None == Measurement(0, 0)

(***************************************************************************)
(* The driver's operations, each a sequence of bus transactions.           *)
(***************************************************************************)
\* trigger_and_wait, including the write that acknowledges the flag.
TriggerAndWait == <<"trigger", "await", "acknowledge">>

\* Seeded fault: the part is left RESET.
CalibrateLeftReset ==
  <<"stop", "set">> \o TriggerAndWait \o <<"keepSet", "reset">> \o TriggerAndWait
    \o <<"keepReset", "start">>

\* Seeded fault: the two halves are measured with one polarity.
CalibrateOnePolarity ==
  <<"stop", "set">> \o TriggerAndWait \o <<"keepSet">> \o TriggerAndWait
    \o <<"keepReset", "set", "start">>

Calibrate ==
  <<"stop", "set">> \o TriggerAndWait \o <<"keepSet", "reset">> \o TriggerAndWait
    \o <<"keepReset", "set", "start">>

\* Seeded fault: automatic set/reset keeps a restored offset.
ProbeKeepsOffset ==
  <<"softReset", "configure", "set">>
    \o (IF config.automatic = 1 \/ config.calibrate = 0 THEN <<>> ELSE Calibrate) \o <<"start">>

\* Automatic set/reset needs no offset; otherwise one is measured if asked for
\* (calibrate_offset_on_probe), or what set_bridge_offset() restored stays.
Probe ==
  <<"softReset", "configure", "set">>
    \o (IF config.automatic = 1 THEN <<"clearOffset">>
        ELSE IF config.calibrate = 1 THEN Calibrate ELSE <<>>)
    \o <<"start">>

MeasureOnce == TriggerAndWait \o <<"burst", "deliver">>

\* Seeded fault: read_sample never acknowledges the flag.
ReadSampleUnacknowledged == <<"check", "burst", "deliver">>

ReadSample == <<"check", "burst", "acknowledge", "deliver">>

\* The configuration is the driver's caller's, with the offset restored before
\* probe() or none.  The part is found as whatever drove it before left it, free
\* running or with a trigger to answer; its FMU goes on stepping it, so that the
\* software reset may find a measurement announced or a step half done.
Init ==
  /\ config \in [automatic : {0, 1}, continuous : {0, 1}, calibrate : {0, 1},
                 interrupt : {0, 1}, restored : {0, Bridge + 1}]
  /\ magnet \in {1, -1} /\ done = 0 /\ data = None /\ pending \in {0, 1}
  /\ continuous \in {0, 1} /\ interrupt \in {0, 1} /\ automatic \in {0, 1}
  /\ engine = "idle" /\ sensed = [magnet |-> 1, automatic |-> 0]
  /\ triggered = 0 /\ owed = 0 /\ taken = 0 /\ line = 0
  /\ todo = Probe /\ probed = 0 /\ offset = config.restored
  /\ afterSet = 0 /\ counts = None /\ sample = None
  /\ old = 0 /\ mistaken = 0 /\ failed = 0 /\ calibrated = 0

(***************************************************************************)
(* do_step.                                                                *)
(***************************************************************************)
\* take_triggered_measurement.
BeginStep ==
  /\ engine = "idle"
  /\ pending' = 0 /\ triggered' = pending
  /\ engine' = IF pending = 1 THEN "sense" ELSE "period"
  /\ UNCHANGED <<magnet, done, data, continuous, interrupt, automatic, sensed, owed, taken, line, driver>>

\* The whole periods that elapsed within a step; the host tool, which steps the
\* part in wall time, takes the newest measurement and drops the arrears.
Elapsed == 0 .. PerStep
ElapsedInWallTime == {0, 1}

\* sampling_period_us, and the measurements that are owed for it.
ReadPeriod ==
  /\ engine = "period"
  /\ owed' \in IF continuous = 1 THEN Elapsed \cup ElapsedInWallTime ELSE {0}
  /\ engine' = IF owed' > 0 THEN "sense" ELSE "publish"
  /\ UNCHANGED <<part, sensed, triggered, taken, line, driver>>

\* latch_field, first half: the sensing state is read and the mutex released.
SenseState ==
  /\ engine = "sense" /\ engine' = "latch"
  /\ taken < MaxMeasurements
  /\ sensed' = [magnet |-> magnet, automatic |-> automatic]
  /\ UNCHANGED <<part, triggered, owed, taken, line, driver>>

Reading == IF sensed.automatic = 1 THEN Field ELSE sensed.magnet * Field + Bridge

\* latch_field, second half: the measurement is computed and latched.
LatchMeasurement ==
  /\ engine = "latch"
  /\ taken' = taken + 1
  /\ data' = Measurement(Reading, taken + 1)
  /\ done' = 1
  /\ triggered' = 0
  /\ owed' = IF triggered = 1 THEN owed ELSE owed - 1
  /\ engine' = IF triggered = 1 THEN "period" ELSE IF owed > 1 THEN "sense" ELSE "publish"
  /\ UNCHANGED <<magnet, pending, continuous, interrupt, automatic, sensed, line, driver>>

\* Seeded fault: the line is driven for a new measurement only.
PublishLineOnce ==
  /\ engine = "publish" /\ engine' = "idle"
  /\ line' = IF interrupt = 1 /\ done = 1 /\ line = 0 THEN 1 ELSE 0
  /\ UNCHANGED <<part, sensed, triggered, owed, taken, driver>>

\* publish_interrupt(interrupt_asserted()).
PublishLine ==
  /\ engine = "publish" /\ engine' = "idle"
  /\ line' = IF interrupt = 1 /\ done = 1 THEN 1 ELSE 0
  /\ UNCHANGED <<part, sensed, triggered, owed, taken, driver>>

Fmu == BeginStep \/ ReadPeriod \/ SenseState \/ LatchMeasurement \/ PublishLine

(***************************************************************************)
(* The driver's transactions.                                              *)
(***************************************************************************)
Doing(what) == todo # <<>> /\ Head(todo) = what
Ahead(what) == \E i \in 1 .. Len(todo) : todo[i] = what
\* probe() has succeeded once its last write went through.
Advance == todo' = Tail(todo) /\ probed' = IF Len(todo) = 1 THEN 1 ELSE probed
Keeps == <<config, history, offset, afterSet, counts, sample>>

SoftReset ==
  /\ Doing("softReset") /\ Advance
  /\ magnet' = 1 /\ done' = 0 /\ data' = None /\ pending' = 0
  /\ continuous' = 0 /\ interrupt' = 0 /\ automatic' = 0
  /\ old' = taken + triggered + owed
  /\ UNCHANGED <<step, config, mistaken, failed, calibrated, offset, afterSet, counts, sample>>

\* Every write of Internal control 0 carries the persistent bits along.
PersistentBits == interrupt' = config.interrupt /\ automatic' = config.automatic

Configure ==
  /\ Doing("configure") /\ Advance
  /\ PersistentBits
  /\ UNCHANGED <<magnet, done, data, pending, continuous, step, Keeps>>

\* SET, and RESET, which flips the sensing polarity.
Pulse(what, polarity) ==
  /\ Doing(what) /\ Advance
  /\ PersistentBits
  /\ magnet' = polarity
  /\ UNCHANGED <<done, data, pending, continuous, step, Keeps>>

\* Seeded fault: the trigger is written without the shadowed bits.
TriggerUnshadowed ==
  /\ Doing("trigger") /\ Advance
  /\ interrupt' = 0 /\ automatic' = 0
  /\ pending' = 1 /\ done' = 0
  /\ UNCHANGED <<magnet, data, continuous, step, Keeps>>

\* TM_M: the measurement is owed, the done flag of the last one cleared.
Trigger ==
  /\ Doing("trigger") /\ Advance
  /\ PersistentBits
  /\ pending' = 1 /\ done' = 0
  /\ UNCHANGED <<magnet, data, continuous, step, Keeps>>

\* A poll that finds the flag clear changes nothing.  The flag does not say which
\* measurement it announces: one that was under way when the part was triggered
\* answers for the one that is still owed.
Calibrating == Ahead("keepReset")
AwaitDone ==
  /\ Doing("await") /\ Advance
  /\ done = 1
  /\ mistaken' = IF Calibrating /\ (pending = 1 \/ triggered = 1) THEN 1 ELSE mistaken
  /\ UNCHANGED <<part, step, config, old, failed, calibrated, offset, afterSet, counts, sample>>

\* The polls run out, and the operation ends with what it has done so far.
GiveUp ==
  /\ CanTimeOut
  /\ Doing("await")
  /\ todo' = <<>>
  /\ failed' = IF Calibrating /\ ~Ahead("keepSet") THEN 1 ELSE failed
  /\ UNCHANGED <<part, step, config, old, mistaken, calibrated, probed, offset, afterSet, counts,
                 sample>>

Acknowledge ==
  /\ Doing("acknowledge") /\ Advance
  /\ done' = 0
  /\ UNCHANGED <<magnet, data, pending, continuous, interrupt, automatic, step, Keeps>>

SetContinuous(what, mode) ==
  /\ Doing(what) /\ Advance
  /\ continuous' = mode
  /\ UNCHANGED <<magnet, done, data, pending, interrupt, automatic, step, Keeps>>

KeepAfterSet ==
  /\ Doing("keepSet") /\ Advance
  /\ afterSet' = data.value
  /\ UNCHANGED <<part, step, config, history, offset, counts, sample>>

\* pair_offset of the two measurements.
StoreOffset ==
  /\ Doing("keepReset") /\ Advance
  /\ offset' = (afterSet + data.value) \div 2
  /\ failed' = 0 /\ calibrated' = 1
  /\ UNCHANGED <<part, step, config, old, mistaken, afterSet, counts, sample>>

ClearOffset ==
  /\ Doing("clearOffset") /\ Advance
  /\ offset' = 0
  /\ UNCHANGED <<part, step, config, history, afterSet, counts, sample>>

\* read_sample's look at Status: without the flag there is no new data.
CheckStatus ==
  /\ Doing("check")
  /\ \/ done = 1 /\ Advance
     \/ done = 0 /\ todo' = <<>> /\ UNCHANGED probed
  /\ UNCHANGED <<part, step, Keeps>>

Burst ==
  /\ Doing("burst") /\ Advance
  /\ counts' = data
  /\ UNCHANGED <<part, step, config, history, offset, afterSet, sample>>

Deliver ==
  /\ Doing("deliver") /\ Advance
  /\ sample' = Measurement(counts.value - offset, counts.id)
  /\ UNCHANGED <<part, step, config, history, offset, afterSet, counts>>

\* The caller probes until that succeeds,
BeginProbe ==
  /\ todo = <<>> /\ probed = 0
  /\ todo' = Probe
  /\ UNCHANGED <<part, step, probed, Keeps>>

\* reads, in one-shot mode by measure_once ("instead of continuous mode"),
BeginReading ==
  /\ todo = <<>> /\ probed = 1
  /\ todo' = IF config.continuous = 1 THEN ReadSample ELSE MeasureOnce
  /\ UNCHANGED <<part, step, probed, Keeps>>

\* and may calibrate again, which automatic set/reset refuses.
BeginCalibration ==
  /\ todo = <<>> /\ probed = 1 /\ config.automatic = 0
  /\ todo' = Calibrate
  /\ UNCHANGED <<part, step, probed, Keeps>>

Driver ==
  \/ BeginProbe \/ BeginReading \/ BeginCalibration
  \/ SoftReset \/ Configure \/ Pulse("set", 1) \/ Pulse("reset", -1)
  \/ Trigger \/ AwaitDone \/ GiveUp \/ Acknowledge
  \/ SetContinuous("stop", 0) \/ SetContinuous("start", config.continuous)
  \/ KeepAfterSet \/ StoreOffset \/ ClearOffset \/ CheckStatus \/ Burst \/ Deliver

Next == Fmu \/ Driver

Spec == Init /\ [][Next]_vars

(***************************************************************************)
(* Properties.                                                             *)
(***************************************************************************)
Readings == {Field, Field + Bridge, Bridge - Field, 0}

\* The part's registers, the step of its FMU and the driver's locals.
TypeOK ==
  /\ magnet \in {1, -1} /\ {done, pending, continuous, interrupt, automatic, line} \subseteq {0, 1}
  /\ data \in [value : Readings, id : 0 .. MaxMeasurements] /\ taken \in 0 .. MaxMeasurements
  /\ engine \in {"idle", "period", "sense", "latch", "publish"} /\ owed \in 0 .. PerStep
  /\ sensed \in [magnet : {1, -1}, automatic : {0, 1}]
  /\ probed \in {0, 1} /\ Len(todo) <= Len(Calibrate) + 4 /\ afterSet \in Readings
  /\ counts.id \in 0 .. taken /\ sample.id \in 0 .. counts.id

\* The offset in use: none under automatic set/reset, the bridge's once a
\* calibration has stored it, and until then the one restored.
Due == IF config.automatic = 1 THEN 0 ELSE IF calibrated = 1 THEN Bridge ELSE config.restored
Uncorrected == IF config.automatic = 1 THEN 0 ELSE Bridge - Due

\* What a caller is given is the field plus what the offset in use leaves of the
\* bridge's: in sign, because every operation leaves the part SET, and in magnitude,
\* because nothing is subtracted twice (mmc5983ma_driver.cpp:216-230).  Exempt are
\* measurements begun before the part was reset and, without automatic set/reset,
\* all that follow a calibration answered by the wrong measurement; and a calibration
\* that fails after its RESET leaves the part RESET (:207), so that the field may
\* come negated until one succeeds.
SamplesAreTheField ==
  [][Deliver /\ counts.id > old /\ (config.automatic = 1 \/ mistaken = 0) =>
       sample'.value - Uncorrected \in IF failed = 1 THEN {Field, -Field} ELSE {Field}]_vars

\* The SET/RESET pair brackets one field: each half is a measurement of its
\* own polarity, so that the stored offset is the bridge's, "out of continuous
\* mode first" (mmc5983ma_driver.cpp:171-173).
PairBracketsOneField == calibrated = 1 => offset = Bridge

\* It does when each of its waits is answered by the measurement it triggered, and
\* no failure or restored offset is left in use: probe()'s and later ones.
CalibrationFindsTheBridge == mistaken = 0 /\ probed = 1 => offset = Due

\* A measurement is handed out at most once, and never an older one after a
\* newer, although the part latches between status, burst and acknowledgement.
NeverTheSameTwice == Doing("deliver") => counts.id > sample.id

\* The self-clearing triggers never switch the persistent bits off: while the
\* driver runs, the part is configured as probe() left it.
BroughtUp == interrupt = config.interrupt /\ automatic = config.automatic
ConfigurationKept == probed = 1 => BroughtUp

\* Between steps of the FMU an unread measurement of a part that has been
\* brought up with the interrupt enabled is announced on the line, although the flag
\* is cleared under it by triggers and acknowledgements at any moment; one begun
\* before the reset is by the next step.
Announced == engine = "idle" /\ interrupt = 1 /\ done = 1 /\ data.id > old => line = 1
LineAnnouncesMeasurement == probed = 1 => Announced

\* Both, and every register and local in its range: whatever the driver triggers
\* or acknowledges leaves a part that reports its measurements.
PartStaysConfigured == TypeOK /\ ConfigurationKept /\ LineAnnouncesMeasurement

\* What the proofs of PartStaysConfigured and NeverTheSameTwice induct on. What
\* may be left to do: an operation ends with `start' or a delivery; only a part
\* that is not brought up is reset and configured, only one that is, is read; and
\* under automatic set/reset bringing it up measures nothing.
Operations == {"softReset", "configure", "set", "reset", "trigger", "await", "acknowledge",
               "keepSet", "keepReset", "stop", "start", "clearOffset", "check", "burst", "deliver"}
Then(what) == Len(todo) > 1 /\ todo[2] = what
LeftToDo ==
  /\ todo # <<>> => todo[Len(todo)] \in {"start", "deliver"}
  /\ Doing("softReset") => todo = Probe
  /\ \A i \in 2 .. Len(todo) :
       todo[i] # "softReset" /\ (todo[i] = "configure" => i = 2 /\ Doing("softReset"))
  /\ probed = 1 => ~Ahead("softReset") /\ ~Ahead("configure")
  /\ probed = 0 => ~Ahead("check") /\ ~Ahead("burst") /\ ~Ahead("deliver")
  /\ config.automatic = 1 /\ probed = 0 =>
       /\ \A i \in 1 .. Len(todo) :
            todo[i] \in {"softReset", "configure", "set", "clearOffset", "start"}
       /\ \A i \in 1 .. Len(todo) : todo[i] = "start" => i = Len(todo)

\* The order of the steps that read: in continuous mode the flag is looked at,
\* the data read, then the flag acknowledged; after a trigger it is awaited and
\* acknowledged, then the data read.
StepsInOrder ==
  /\ \A i \in 1 .. Len(todo) - 1 :
       /\ todo[i] = "burst" =>
            todo[i + 1] = (IF config.continuous = 1 THEN "acknowledge" ELSE "deliver")
       /\ todo[i + 1] = "burst" =>
            todo[i] = (IF config.continuous = 1 THEN "check" ELSE "acknowledge")
       /\ todo[i + 1] = "deliver" =>
            todo[i] = (IF config.continuous = 1 THEN "acknowledge" ELSE "burst")
       /\ todo[i + 1] = "acknowledge" => todo[i] \in {"await", "burst"}
       /\ todo[i + 1] = "await" => todo[i] = "trigger"
  /\ \A i \in 1 .. Len(todo) - 2 : todo[i] = "await" => todo[i + 2] # "deliver"

\* The FMU latches what a trigger or a period owes, one or the other, within its
\* step, and what it owed at the reset is old;
Owing ==
  /\ triggered \in {0, 1}
  /\ engine \in {"sense", "latch"} => triggered = 1 \/ owed > 0
  /\ engine \notin {"sense", "latch"} => triggered = 0 /\ owed = 0
  /\ triggered = 1 => owed = 0
  /\ engine = "latch" => taken < MaxMeasurements
  /\ Doing("softReset") \/ old <= taken + triggered + owed

\* between the reset and the configuration nothing new begins, and from then on
\* nothing new can be unread without the line telling;
NothingNew == pending = 0 /\ continuous = 0 /\ taken + triggered + owed <= old
BringUp ==
  /\ Ahead("configure") => Doing("softReset") \/ NothingNew
  /\ ~Ahead("configure") => BroughtUp /\ Announced

\* and whatever is about to be read is newer than the last sample.
Fresh == data.id > sample.id
NumbersGrow ==
  /\ data.id <= taken /\ (done = 1 => data.id > 0)
  /\ probed = 0 => counts.id = 0 /\ sample.id = 0
  /\ probed = 1 /\ config.continuous = 1 /\ done = 1 => Fresh
  /\ config.continuous = 1 /\ Doing("deliver") /\ done = 1 => data.id > counts.id
  /\ Doing("await") /\ done = 1 => Fresh
  /\ Doing("burst") => Fresh
  /\ Doing("acknowledge") /\ Then("burst") => Fresh
  /\ Doing("acknowledge") /\ Then("deliver") => counts.id > sample.id
  /\ Doing("deliver") => counts.id > sample.id

DriverTypes ==
  /\ config \in [automatic : {0, 1}, continuous : {0, 1}, calibrate : {0, 1},
                 interrupt : {0, 1}, restored : Int]
  /\ todo \in Seq(Operations)
  /\ offset \in Int /\ old \in Nat /\ {mistaken, failed, calibrated} \subseteq {0, 1}
  /\ counts \in [value : Readings, id : Nat] /\ sample \in [value : Int, id : Nat]
PartInv == TypeOK /\ DriverTypes /\ LeftToDo /\ StepsInOrder /\ Owing /\ BringUp /\ NumbersGrow

\* What the proofs of SamplesAreTheField and CalibrationFindsTheBridge add: the
\* order in which a calibration flips the polarity and keeps a measurement,
Later(s, i, what) == \E j \in i + 1 .. Len(s) : s[j] = what
FlipsInOrder(s) ==
  /\ \A i \in 1 .. Len(s) :
       /\ s[i] = "set" => Later(s, i, "reset") \/ ~Later(s, i, "set")
       /\ s[i] = "reset" => Later(s, i, "set") /\ ~Later(s, i, "reset")
       /\ s[i] = "keepSet" => Later(s, i, "reset")
       /\ s[i] = "keepReset" =>
            Later(s, i, "set") /\ ~Later(s, i, "reset") /\ ~Later(s, i, "keepSet")
       /\ s[i] \in {"check", "burst", "deliver"} => ~Later(s, i, "set")
       /\ s[i] = "start" => \A j \in i .. Len(s) : s[j] = "start"
       /\ s[i] = "stop" => Later(s, i, "reset") /\ Later(s, i, "keepSet")
       /\ s[i] \notin {"softReset", "configure", "set"} => ~Later(s, i, "stop")
       /\ s[i] = "set" /\ Later(s, i, "keepReset") => Later(s, i, "keepSet")
  /\ \A i \in 1 .. Len(s) - 1 :
       /\ s[i + 1] \in {"keepSet", "keepReset"} => s[i] = "acknowledge"
       /\ s[i + 1] = "set" => s[i] \in {"configure", "stop", "keepReset"}
       /\ s[i + 1] = "trigger" => s[i] \in {"set", "reset"}
       /\ s[i] = "trigger" => s[i + 1] = "await"
       /\ s[i] = "await" => s[i + 1] = "acknowledge"
PulsesInOrder ==
  /\ FlipsInOrder(todo)
  /\ config.automatic = 1 => ~Ahead("keepReset")
  /\ config.automatic = 0 => ~Ahead("clearOffset")

\* that under automatic set/reset whatever is new and read is the field,
AutomaticReads ==
  config.automatic = 1 =>
    /\ offset = 0 \/ (probed = 0 /\ Ahead("clearOffset"))
    /\ Doing("softReset") \/
         /\ engine = "latch" /\ taken >= old => sensed.automatic = 1
         /\ data.id > old => data.value = Field
         /\ counts.id > old => counts.value = Field

\* that without it whatever is new is the field in either polarity, over the
\* bridge's offset,
EitherPolarity == {Field + Bridge, Bridge - Field}
ManualReads ==
  config.automatic = 0 =>
    Doing("softReset") \/
      /\ automatic = 0
      /\ engine = "latch" /\ taken >= old => sensed.automatic = 0
      /\ data.id > old => data.value \in EitherPolarity
      /\ counts.id > old => counts.value \in EitherPolarity

\* and, while no calibration was answered by the wrong measurement, in that of the
\* part: a calibration flips it only when nothing is under way, since its wait has
\* seen the step through that answered it. Before its first wait is over that may
\* be otherwise only where one has failed.
OfPolarity(value) ==
  (magnet = 1 => value = Field + Bridge) /\ (magnet = -1 => value = Bridge - Field)
Still == pending = 0 /\ triggered = 0 /\ owed = 0 /\ continuous = 0
Halfway == Calibrating /\ (Doing("acknowledge") \/ Doing("keepSet") \/ ~Ahead("keepSet"))

Polarity ==
  /\ failed = 0 /\ (Ahead("reset") \/ ~Ahead("set")) => magnet = 1
  /\ Ahead("configure") => magnet = 1
  /\ Ahead("reset") /\ (Doing("trigger") \/ Doing("await") \/ Halfway) => magnet = 1
  /\ Calibrating /\ ~Ahead("reset") => magnet = -1
StillWhereItFlips ==
  /\ Calibrating /\ ~Ahead("stop") => continuous = 0
  /\ Halfway /\ ~Doing("await") => Still /\ (Doing("acknowledge") \/ done = 0)
  /\ Doing("set") /\ ~Ahead("reset") => magnet = 1 \/ (Still /\ done = 0)
Waiting ==
  Calibrating /\ Doing("await") /\ pending = 0 =>
    /\ owed = 0
    /\ engine \in {"sense", "latch"} => taken >= old
    /\ engine = "latch" => sensed.magnet = magnet
    /\ triggered = 0 => OfPolarity(data.value)
Settled ==
  failed = 0 \/ Halfway =>
    /\ engine = "latch" /\ taken >= old => sensed.magnet = magnet
    /\ data.id > old /\ (done = 1 \/ Doing("acknowledge") \/ Doing("burst")) =>
         OfPolarity(data.value)
Kept ==
  /\ Halfway /\ (Doing("acknowledge") \/ Doing("keepSet") \/ Doing("keepReset")) =>
       OfPolarity(data.value)
  /\ Calibrating /\ ~Ahead("keepSet") => afterSet = Field + Bridge
  /\ failed = 0 /\ counts.id > old
     /\ (Doing("deliver") \/ (Doing("acknowledge") /\ Then("deliver"))) =>
       counts.value = Field + Bridge
CalibratedReads ==
  config.automatic = 0 /\ mistaken = 0 =>
    /\ offset = Due
    /\ Doing("softReset") \/ (Polarity /\ StillWhereItFlips /\ Waiting /\ Settled /\ Kept)
FieldInv == PartInv /\ PulsesInOrder /\ AutomaticReads /\ ManualReads /\ CalibratedReads
=============================================================================

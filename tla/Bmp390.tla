------------------------------- MODULE Bmp390 -------------------------------
(***************************************************************************)
(* The BMP390 barometer: the part as its FMU or, in wall time, its host    *)
(* tool steps it, and the driver that probes it and reads shadowed bursts  *)
(* from it.  A transaction holds the part's mutex from START to STOP; the  *)
(* stepping thread takes it once per access.  A conversion is its number,  *)
(* its two words and its time are kept apart: what a burst returns is put  *)
(* together from three registers.  Forced mode, which the driver never     *)
(* selects, is left out.                                                   *)
(***************************************************************************)
EXTENDS Integers, SequencesExt

CONSTANTS
  StepTime,        \* Length of the FMU's step, or of the tool's sleep.
  Periods,         \* Conversion periods the ODR register can select.
  SensorTimeWrap,  \* SENSORTIME counts modulo this.
  MaxTime          \* Time after which the master steps no more. Bounds the model.

ASSUME TimesAssumption ==
  /\ StepTime \in Nat \ {0} /\ Periods \subseteq Nat \ {0}
  /\ SensorTimeWrap \in Nat \ {0} /\ MaxTime \in Nat

VARIABLES
  \* The part: mode and rate, whether INT follows data ready, the conversion
  \* in the data registers, status, data-ready condition, the burst shadow.
  normal, odr, intEnabled, data, status, drdy, shadow,
  \* The FMU: the step's phase, the period it read, what is left of the step,
  \* its start, the time into the period, conversions; the INT line; attached.
  engine, period, remaining, now, into, converted, line, attached,
  \* Who steps the part. The client: how it polls, what is left of its operation, the rate it
  \* programs, whether the part is probed or given up, the burst's words, the
  \* last sample.
  host, client, todo, rate, probed, gone, words, sample,
  \* History: since when the part has been converting without a gap and how
  \* often it did, when each conversion was made, those before the last reset,
  \* and whether the FMU was reset between a status read and its burst.
  since, counted, at, before, torn

part == <<normal, odr, intEnabled, data, status, drdy, shadow>>
fmu == <<engine, period, remaining, now, into, converted, line, attached>>
driver == <<host, client, todo, rate, probed, gone, words, sample>>
history == <<since, counted, at, before, torn>>
vars == <<part, fmu, driver, history>>

\* The data registers and SENSORTIME, latched and shadowed together.
Block(press, temp, time) == [press |-> press, temp |-> temp, time |-> time]
Zeroed == Block(0, 0, 0)

\* One conversion: what it measures stands for its number.
Measure(number, time) == Block(number, number, time % SensorTimeWrap)

\* Nothing has been read.
NoSample == Block(-1, -1, -1)

(***************************************************************************)
(* The driver's operations, each a sequence of bus transactions; the burst *)
(* is one, of which three registers are told apart.                        *)
(***************************************************************************)
\* Seeded fault: the mode is selected before the interrupt is enabled.
ProbeModeFirst ==
  <<"identify", "softReset", "identify", "calibration", "osr", "odr", "powerControl", "intControl">>

Probe ==
  <<"identify", "softReset", "identify", "calibration", "osr", "odr", "intControl", "powerControl">>

ReadSample == <<"status", "data0", "data3", "sensorTime">>

\* A client finds the part asleep, or running as an earlier run left it.
Init ==
  /\ normal \in {0, 1} /\ odr \in Periods /\ intEnabled = normal
  /\ data = Zeroed /\ status = 0 /\ drdy = 0 /\ shadow = Zeroed
  /\ engine = "idle" /\ period = 0 /\ remaining = 0 /\ now = 0 /\ into = 0
  /\ converted = 0 /\ line = 0 /\ attached = 1
  /\ host \in {"fmu", "tool"} /\ client \in {"flight_computer", "baro_logger"} /\ rate \in Periods
  /\ todo = <<>> /\ probed = 0 /\ gone = 0 /\ words = Zeroed /\ sample = NoSample
  /\ since = 0 /\ counted = 0 /\ at = <<>> /\ before = 0 /\ torn = 0

Doing(what) == todo # <<>> /\ Head(todo) = what

\* transaction_lock_: the mutex is the client's while a burst is on the bus.
LockFree == ~Doing("data3") /\ ~Doing("sensorTime")

(***************************************************************************)
(* do_step.                                                                *)
(***************************************************************************)
\* sampling_period_us(); a part that sleeps forgets the period it was in.
BeginStep ==
  /\ engine = "idle" /\ attached = 1 /\ now < MaxTime
  /\ LockFree
  /\ period' = IF normal = 1 THEN odr ELSE 0
  /\ into' = IF normal = 1 THEN into ELSE 0
  /\ remaining' = StepTime
  /\ engine' = IF normal = 1 THEN "convert" ELSE "publish"
  /\ IF normal = 1 /\ period = odr
       THEN UNCHANGED <<since, counted>>
       ELSE since' = now - into' /\ counted' = 0
  /\ UNCHANGED <<part, now, converted, line, attached, driver, at, before, torn>>

Elapses == host = "fmu" /\ into + remaining >= period

\* Seeded fault: a conversion does not replace the sensor time of an unread one.
LatchConversionOldTime ==
  /\ engine = "convert" /\ Elapses /\ LockFree
  /\ remaining' = remaining - (period - into) /\ into' = 0
  /\ converted' = converted + 1 /\ counted' = counted + 1
  /\ at' = Append(at, now + StepTime - remaining')
  /\ data' = Block(converted', converted',
                   IF status = 1 THEN data.time ELSE Last(at') % SensorTimeWrap)
  /\ status' = normal /\ drdy' = 1
  /\ UNCHANGED <<normal, odr, intEnabled, shadow, engine, period, now, line, attached, driver, since, before, torn>>

\* One whole period, latch_one and latch_conversion: the data-ready condition
\* is raised whatever PWR_CTRL says, the status only for what it enables.
LatchConversion ==
  /\ engine = "convert" /\ Elapses /\ LockFree
  /\ remaining' = remaining - (period - into) /\ into' = 0
  /\ converted' = converted + 1 /\ counted' = counted + 1
  /\ at' = Append(at, now + StepTime - remaining')
  /\ data' = Measure(converted', Last(at'))
  /\ status' = normal /\ drdy' = 1
  /\ UNCHANGED <<normal, odr, intEnabled, shadow, engine, period, now, line, attached, driver, since, before, torn>>

\* Seeded fault: the remainder of the step is dropped.
EndConversionsDropped ==
  /\ engine = "convert" /\ host = "fmu" /\ ~Elapses
  /\ engine' = "publish"
  /\ UNCHANGED <<part, period, remaining, now, into, converted, line, attached, driver, history>>

\* The remainder of the step carries into the next.
EndConversions ==
  /\ engine = "convert" /\ host = "fmu" /\ ~Elapses
  /\ into' = into + remaining /\ engine' = "publish"
  /\ UNCHANGED <<part, period, remaining, now, converted, line, attached, driver, history>>

\* The tool was asleep while the time passed: of the periods that have ended it
\* converts one, now, and drops the arrears.
LatchNewest ==
  /\ engine = "convert" /\ host = "tool" /\ LockFree
  /\ into' = (into + remaining) % period /\ remaining' = 0 /\ engine' = "publish"
  /\ IF into + remaining >= period
       THEN /\ converted' = converted + 1 /\ counted' = counted + 1
            /\ at' = Append(at, now + StepTime)
            /\ data' = Measure(converted', Last(at'))
            /\ status' = normal /\ drdy' = 1
       ELSE UNCHANGED <<converted, counted, at, data, status, drdy>>
  /\ UNCHANGED <<normal, odr, intEnabled, shadow, period, now, line, attached, driver, since, before, torn>>

\* publish_interrupt(interrupt_asserted()), and the master's next time.
PublishLine ==
  /\ engine = "publish" /\ LockFree
  /\ line' = IF drdy = 1 /\ intEnabled = 1 THEN 1 ELSE 0
  /\ now' = now + StepTime /\ engine' = "idle"
  /\ UNCHANGED <<part, period, remaining, into, converted, attached, driver, history>>

\* apply_soft_reset.
ResetPart ==
  /\ normal' = 0 /\ odr' \in {p \in Periods : \A q \in Periods : p <= q} /\ intEnabled' = 0
  /\ data' = Zeroed /\ status' = 0 /\ drdy' = 0 /\ shadow' = Zeroed
  /\ before' = converted

\* fmi2Reset, which the tool has none of: the part is reset first and detached from its bus after that.
FmuReset ==
  /\ host = "fmu" /\ engine = "idle" /\ attached = 1 /\ LockFree
  /\ ResetPart
  /\ into' = 0 /\ period' = 0 /\ engine' = "reset"
  /\ torn' = IF Doing("data0") THEN 1 ELSE torn
  /\ UNCHANGED <<remaining, now, converted, line, attached, driver, since, counted, at>>

\* The part's terminate(), or the tool's way out: a signal, or its time is over.
\* detach() ends the service thread, a burst it walks included.
FmuDetach ==
  /\ engine \in {"idle", "reset"} /\ attached = 1 /\ LockFree
  /\ attached' = 0 /\ line' = 0 /\ engine' = "idle"
  /\ UNCHANGED <<part, period, remaining, now, into, converted, driver, history>>

Fmu ==
  BeginStep \/ LatchConversion \/ EndConversions \/ LatchNewest \/ PublishLine \/ FmuReset \/ FmuDetach

(***************************************************************************)
(* The driver's transactions.                                              *)
(***************************************************************************)
\* probe() has succeeded, or a sample is delivered, with the last of them.
Advance ==
  /\ attached = 1
  /\ todo' = Tail(todo)
  /\ probed' = IF Len(todo) = 1 THEN 1 ELSE probed
Settings == <<host, client, rate, gone>>

Identify ==
  /\ Doing("identify") \/ Doing("calibration") \/ Doing("osr")
  /\ Advance
  /\ UNCHANGED <<part, fmu, Settings, words, sample, history>>

SoftReset ==
  /\ Doing("softReset") /\ Advance
  /\ ResetPart
  /\ UNCHANGED <<fmu, Settings, words, sample, since, counted, at, torn>>

ProgramRate ==
  /\ Doing("odr") /\ Advance
  /\ odr' = rate
  /\ UNCHANGED <<normal, intEnabled, data, status, drdy, shadow, fmu, Settings, words, sample, history>>

EnableInterrupt ==
  /\ Doing("intControl") /\ Advance
  /\ intEnabled' = 1
  /\ UNCHANGED <<normal, odr, data, status, drdy, shadow, fmu, Settings, words, sample, history>>

SelectNormalMode ==
  /\ Doing("powerControl") /\ Advance
  /\ normal' = 1
  /\ UNCHANGED <<odr, intEnabled, data, status, drdy, shadow, fmu, Settings, words, sample, history>>

\* STATUS: without both ready bits there is no new data.
ReadStatus ==
  /\ Doing("status") /\ attached = 1
  /\ todo' = IF status = 1 THEN Tail(todo) ELSE <<>>
  /\ UNCHANGED <<part, fmu, Settings, probed, words, sample, history>>

\* Seeded fault: reading DATA_0 leaves the data-ready bits of the status.
ReadData0KeepsStatus ==
  /\ Doing("data0") /\ Advance
  /\ shadow' = data /\ words' = [words EXCEPT !.press = data.press]
  /\ drdy' = 0
  /\ UNCHANGED <<normal, odr, intEnabled, data, status, fmu, Settings, sample, history>>

\* read_register(DATA_0): the whole conversion goes to the shadow, the ready
\* condition is cleared.
ReadData0 ==
  /\ Doing("data0") /\ Advance
  /\ shadow' = data /\ words' = [words EXCEPT !.press = data.press]
  /\ status' = 0 /\ drdy' = 0
  /\ UNCHANGED <<normal, odr, intEnabled, data, fmu, Settings, sample, history>>

ReadData3 ==
  /\ Doing("data3") /\ Advance
  /\ words' = [words EXCEPT !.temp = shadow.temp]
  /\ UNCHANGED <<part, fmu, Settings, sample, history>>

\* SENSORTIME, and the sample the caller is given.
ReadSensorTime ==
  /\ Doing("sensorTime") /\ Advance
  /\ words' = [words EXCEPT !.time = shadow.time] /\ sample' = words'
  /\ UNCHANGED <<part, fmu, Settings, history>>

\* A transaction that is not answered, or not in time, fails the operation,
\* whether or not the part has done its share. The flight computer gives the
\* part up, the logger carries on.
TransferFails ==
  /\ todo # <<>>
  /\ todo' = <<>>
  /\ gone' = IF client = "flight_computer" THEN 1 ELSE gone
  /\ \/ UNCHANGED part
     \/ /\ Doing("data0") /\ attached = 1
        /\ shadow' = data /\ status' = 0 /\ drdy' = 0
        /\ UNCHANGED <<normal, odr, intEnabled, data>>
     \/ /\ Doing("powerControl") /\ attached = 1
        /\ normal' = 1
        /\ UNCHANGED <<odr, intEnabled, data, status, drdy, shadow>>
  /\ UNCHANGED <<fmu, host, client, rate, probed, words, sample, history>>

(***************************************************************************)
(* The clients: poll_baro's loop on the INT line, and baro_task's on the   *)
(* status alone, which probes until that succeeds.                         *)
(***************************************************************************)
BeginProbe ==
  /\ todo = <<>> /\ probed = 0 /\ gone = 0
  /\ todo' = Probe
  /\ UNCHANGED <<part, fmu, Settings, probed, words, sample, history>>

PollBaro ==
  /\ client = "flight_computer" /\ todo = <<>> /\ probed = 1 /\ gone = 0
  /\ line = 1
  /\ todo' = ReadSample
  /\ UNCHANGED <<part, fmu, Settings, probed, words, sample, history>>

BaroTask ==
  /\ client = "baro_logger" /\ todo = <<>> /\ probed = 1
  /\ todo' = ReadSample
  /\ UNCHANGED <<part, fmu, Settings, probed, words, sample, history>>

Driver ==
  \/ Identify \/ SoftReset \/ ProgramRate \/ EnableInterrupt \/ SelectNormalMode
  \/ ReadStatus \/ ReadData0 \/ ReadData3 \/ ReadSensorTime \/ TransferFails
  \/ BeginProbe \/ PollBaro \/ BaroTask

Next == Fmu \/ Driver

Spec == Init /\ [][Next]_vars

(***************************************************************************)
(* Properties.                                                             *)
(***************************************************************************)
Whole(block) ==
  block.press \in 1 .. converted /\ block = Measure(block.press, at[block.press])

\* Pressure, temperature and time of a sample are one conversion's, although
\* the part latches between the status and the burst, and the FMU in the middle
\* of a step (bmp390_i2c_slave.cpp:148). The exception is an FMU that is reset
\* under a client that has just read the status: it delivers zeros.
SampleIsOneConversion ==
  sample = NoSample \/ Whole(sample) \/ (sample = Zeroed /\ torn = 1)

\* No conversion is delivered twice or after a newer one, and none that an
\* earlier run left behind, although the client may find the part running and
\* a step under way (bmp390_driver.cpp:54, "known state").
SamplesAdvance ==
  [][ReadSensorTime => sample' = Zeroed \/ (sample'.press > sample.press /\ sample'.press > before)]_vars

\* Between steps an unread conversion of a part that has been brought up is
\* announced on the line the flight computer polls, whatever was read, reset or
\* reprogrammed while the step was under way (fmu_main.cpp:320).
LineAnnouncesConversion ==
  engine = "idle" /\ attached = 1 /\ probed = 1 /\ status = 1 => line = 1

\* The part converts at the rate the driver programmed, not at that of the
\* steps: periods that end inside a step are all converted, what is left of it
\* counts for the next (fmu_main.cpp:292). The tool may drop conversions, but
\* keeps the phase of the rate and makes none too many.
RateIsTheDrivers ==
  engine = "idle" /\ period > 0 =>
    /\ into < period
    /\ counted * period + into <= now - since
    /\ IF host = "fmu" THEN counted * period + into = now - since
                       ELSE (now - since - into) % period = 0

\* What the proofs of these properties induct on: the types,
Transactions == {"identify", "softReset", "calibration", "osr", "odr", "powerControl",
                 "intControl", "status", "data0", "data3", "sensorTime"}
Blocks == [press : Int, temp : Int, time : Int]
TypeOK ==
  /\ normal \in {0, 1} /\ odr \in Periods /\ intEnabled \in {0, 1}
  /\ status \in {0, 1} /\ drdy \in {0, 1}
  /\ data \in Blocks /\ shadow \in Blocks /\ words \in Blocks /\ sample \in Blocks
  /\ engine \in {"idle", "convert", "publish", "reset"} /\ period \in Periods \cup {0}
  /\ remaining \in Nat /\ now \in Nat /\ into \in Nat
  /\ converted \in Nat /\ line \in {0, 1} /\ attached \in {0, 1}
  /\ host \in {"fmu", "tool"} /\ todo \in Seq(Transactions) /\ rate \in Periods
  /\ since \in Int /\ counted \in Nat /\ at \in Seq(Int) /\ Len(at) = converted
  /\ before \in 0 .. converted /\ torn \in {0, 1}

\* the order of the transactions,
StepsInOrder ==
  \A i \in 1 .. Len(todo) - 1 :
    /\ todo[i + 1] = "data0" => todo[i] = "status"
    /\ todo[i + 1] = "data3" => todo[i] = "data0"
    /\ todo[i + 1] = "sensorTime" => todo[i] = "data3"
    /\ todo[i + 1] = "powerControl" => todo[i] = "intControl"

\* that what is about to be read is a conversion nobody has been given yet,
Unread(block) ==
  \/ Whole(block) /\ block.press > sample.press /\ block.press > before
  \/ block = Zeroed /\ torn = 1
ReadsInv ==
  /\ data = Zeroed \/ (Whole(data) /\ data.press > before)
  /\ status = 1 => Whole(data) /\ data.press > sample.press
  /\ Doing("data0") => Unread(data)
  /\ Doing("data3") => Unread(shadow) /\ status = 0 /\ words.press = shadow.press
  /\ Doing("sensorTime") =>
       Unread(shadow) /\ status = 0 /\ words.press = shadow.press /\ words.temp = shadow.temp
  /\ SampleIsOneConversion /\ sample.press <= converted

\* that a part which can still be stepped converts only with the interrupt
\* enabled, so that the step which made a conversion also announces it,
LineInv ==
  attached = 1 /\ engine # "reset" =>
    /\ normal = 1 \/ status = 1 \/ Doing("powerControl") => intEnabled = 1
    /\ status = 1 => drdy = 1
    /\ engine = "idle" /\ status = 1 => line = 1

\* and how far the conversions are behind the time, in every phase of a step.
KeepsTime(time) ==
  /\ counted * period + into <= time - since
  /\ host = "fmu" => counted * period + into = time - since
  /\ host = "tool" => (time - since - into) % period = 0
RateInv ==
  /\ engine = "convert" => period > 0 /\ (host = "tool" => remaining = StepTime)
  /\ period > 0 =>
       /\ engine = "idle" => into < period /\ KeepsTime(now)
       /\ engine = "convert" => KeepsTime(now + StepTime - remaining)
       /\ engine = "publish" => into < period /\ KeepsTime(now + StepTime)
       /\ engine # "reset"
BaroInv == TypeOK /\ StepsInOrder /\ ReadsInv /\ LineInv /\ RateInv
=============================================================================

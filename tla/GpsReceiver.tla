----------------------------- MODULE GpsReceiver -----------------------------
(***************************************************************************)
(* The simulated GPS receiver: an FMU that turns truth into one solution   *)
(* per step, gates it by the dynamics envelope of the configured platform, *)
(* holds it back in the latency line and sends it when it is due.          *)
(*                                                                         *)
(* Truth is what the envelope can tell apart.  Noise, units and the UBX    *)
(* encoding are left out.  Times are in ticks; equal times that both come  *)
(* from floating-point sums may compare either way.                        *)
(***************************************************************************)
EXTENDS Integers, Sequences

CONSTANTS
  StepTime,   \* Length of the communication step.
  Latencies,  \* Values of latency_s.
  HoldOffs,   \* Values of reacquisition_time_s.
  MaxTime,    \* Time after which the master steps no more. Bounds the model.
  MaxRuns     \* Runs, each but the first begun by a reset. Bounds the model.

VARIABLES
  \* The FMU: its life (the socket is open while it steps), time, latency, whether
  \* a NED velocity was ever written, frames in the latency line, frames that are due.
  life, now, latency, nedWritten, line, due,
  \* The dynamics model: platform, COCOM switch, hold-off, the previous sample
  \* (or none), end of the hold-off.
  platform, cocom, holdOff, previous, reacquiredAt,
  \* The last solution, the last frame sent; the run; when a limit tripped last
  \* under this configuration.
  solution, sent, run, tripped
fmu == <<life, now, latency, nedWritten, line, due>>
dynamics == <<platform, cocom, holdOff, previous, reacquiredAt>>
history == <<solution, sent, run, tripped>>
vars == <<fmu, dynamics, history>>

Never == -1
NoSample == [speed |-> 0, at |-> Never]
NoSolution == [at |-> Never, valid |-> FALSE]
NotSent == [epoch |-> Never, at |-> 0, run |-> 0]

\* Truth against the limits of a platform: beyond altitude and speed, where the
\* export control bites; outside the platform's envelope, which is narrower than
\* the export control's; and a speed that is reached from another only by
\* accelerating harder than the platform tracks, as the two sets of inputs give it.
Truths ==
  {truth \in [export : BOOLEAN, outside : BOOLEAN, ground : {0, 1}, ned : {0, 1}] :
     truth.export => truth.outside}
Speed(truth) == IF nedWritten THEN truth.ned ELSE truth.ground

Init ==
  /\ life = "instantiated" /\ now = 0 /\ latency \in Latencies /\ nedWritten = FALSE
  /\ line = <<>> /\ due = <<>>
  /\ platform = "airborne4g" /\ cocom = TRUE /\ holdOff \in HoldOffs
  /\ previous = NoSample /\ reacquiredAt = 0
  /\ solution = NoSolution /\ sent = NotSent /\ run = 1 /\ tripped = Never

\* create_from_env(): the socket opens, or the receiver never steps.
CreateSender == life' \in {"stepping", "refused"}

ExitInitialisationMode ==
  /\ life = "instantiated" /\ CreateSender
  /\ UNCHANGED <<now, latency, nedWritten, line, due, dynamics, history>>

Terminate ==
  /\ life = "stepping" /\ due = <<>>
  /\ life' = "terminated"
  /\ UNCHANGED <<now, latency, nedWritten, line, due, dynamics, history>>

\* Seeded fault: a reset leaves the frames in flight.
ResetInFlight ==
  /\ due = <<>> /\ run < MaxRuns
  /\ life' = "instantiated" /\ now' = 0 /\ latency' = 0 /\ nedWritten' = FALSE
  /\ UNCHANGED <<line, due>>
  /\ platform' = "airborne4g" /\ cocom' = TRUE /\ holdOff' \in HoldOffs
  /\ previous' = NoSample /\ reacquiredAt' = 0
  /\ run' = run + 1 /\ solution' = NoSolution /\ sent' = NotSent /\ tripped' = Never

\* reset(): a cold receiver, its parameters at their start values, which the
\* master may set again before it leaves initialisation.
Reset ==
  /\ due = <<>> /\ run < MaxRuns
  /\ life' = "instantiated" /\ now' = 0 /\ latency' \in Latencies /\ nedWritten' = FALSE
  /\ line' = <<>> /\ UNCHANGED due
  /\ platform' = "airborne4g" /\ cocom' = TRUE /\ holdOff' \in HoldOffs
  /\ previous' = NoSample /\ reacquiredAt' = 0
  /\ run' = run + 1 /\ solution' = NoSolution /\ sent' = NotSent /\ tripped' = Never

\* A tunable parameter is written: set_config() clears what was derived under
\* the configuration before, a hold-off included. A dynModel code the receiver
\* does not know leaves everything as it is.
ApplyDynamicsConfig ==
  /\ life = "stepping" /\ due = <<>>
  /\ \/ platform' \in {"airborne4g", "unlimited"} /\ UNCHANGED <<cocom, holdOff>>
     \/ cocom' \in BOOLEAN /\ UNCHANGED <<platform, holdOff>>
     \/ holdOff' \in HoldOffs /\ UNCHANGED <<platform, cocom>>
  /\ previous' = NoSample /\ reacquiredAt' = 0
  /\ tripped' = Never
  /\ UNCHANGED <<fmu, solution, sent, run>>

\* From the first write of a NED velocity on, speed and course are taken from it.
WriteNedVelocity ==
  /\ ~nedWritten
  /\ nedWritten' = TRUE
  /\ UNCHANGED <<life, now, latency, line, due, dynamics, history>>

\* The ordered checks of evaluate(): does any limit trip?
Accelerates(truth) == previous # NoSample /\ Speed(truth) # previous.speed
Trips(truth) ==
  \/ cocom /\ truth.export
  \/ platform # "unlimited" /\ (truth.outside \/ Accelerates(truth))

\* Seeded fault: a limit that trips during the hold-off does not extend it.
EvaluateOnce(truth, at) ==
  /\ previous' = [speed |-> Speed(truth), at |-> at]
  /\ reacquiredAt' = IF Trips(truth) /\ at >= reacquiredAt THEN at + holdOff ELSE reacquiredAt
  /\ tripped' = IF Trips(truth) THEN at ELSE tripped

Evaluate(truth, at) ==
  /\ previous' = [speed |-> Speed(truth), at |-> at]
  /\ reacquiredAt' = IF Trips(truth) THEN at + holdOff ELSE reacquiredAt
  /\ tripped' = IF Trips(truth) THEN at ELSE tripped

\* apply(): the solution is valid when no limit trips and none is held against it.
IsValid(truth, at) == ~Trips(truth) /\ at >= reacquiredAt

\* push(): due when the latency has passed.
Frame(at) == [epoch |-> at, at |-> at + latency, run |-> run]

\* pop_due(), called until it has nothing more: the oldest frames are taken up to
\* the first that is not due yet.
DuePrefixes(frames, at) ==
  {n \in 0 .. Len(frames) :
     /\ \A i \in 1 .. n : frames[i].at <= at
     /\ n < Len(frames) => frames[n + 1].at >= at}

\* do_step, up to the sends.
DoStep ==
  /\ life = "stepping" /\ due = <<>> /\ now < MaxTime
  /\ now' = now + StepTime
  /\ \E truth \in Truths :
       /\ Evaluate(truth, now')
       /\ solution' = [at |-> now', valid |-> IsValid(truth, now')]
  /\ LET frames == Append(line, Frame(now'))
     IN  \E n \in DuePrefixes(frames, now') :
           /\ due' = SubSeq(frames, 1, n)
           /\ line' = SubSeq(frames, n + 1, Len(frames))
  /\ UNCHANGED <<life, latency, nedWritten, platform, cocom, holdOff, sent, run>>

\* One datagram leaves; a send that fails is only warned of.
Send ==
  /\ due # <<>>
  /\ due' = Tail(due)
  /\ sent' \in {Head(due), sent}
  /\ UNCHANGED <<life, now, latency, nedWritten, line, dynamics, solution, run, tripped>>

Next ==
  \/ ExitInitialisationMode \/ Terminate \/ Reset
  \/ ApplyDynamicsConfig \/ WriteNedVelocity
  \/ DoStep \/ Send

Spec == Init /\ [][Next]_vars

-----------------------------------------------------------------------------
\* The latency line delays and drops nothing it should deliver: what the socket
\* sends was solved in this run, is newer than what it sent before, leaves no
\* earlier than it is due and no later than the first step end after that, and
\* nothing that is due longer than that waits.
FixesLeaveOnTime ==
  Send =>
    /\ Head(due).run = run /\ Head(due).epoch > sent.epoch
    /\ Head(due).at <= now /\ now <= Head(due).at + StepTime

\* "Hold-off before a fix returns after any limit trips": no solution is valid
\* while a limit is tripped or less than the hold-off after it, whatever tripped
\* in between, unless the envelope was configured anew.
NoFixDuringHoldOff ==
  solution.valid /\ tripped # Never =>
    solution.at > tripped /\ solution.at >= tripped + holdOff

\* Every field has its type.
Frames == [epoch : Nat, at : Nat, run : Nat]
TypeOK ==
  /\ life \in {"instantiated", "stepping", "refused", "terminated"}
  /\ now \in Nat /\ latency \in Nat /\ nedWritten \in BOOLEAN
  /\ line \in Seq(Frames) /\ due \in Seq(Frames)
  /\ platform \in {"airborne4g", "unlimited"} /\ cocom \in BOOLEAN /\ holdOff \in Nat
  /\ previous \in [speed : {0, 1}, at : Int] /\ reacquiredAt \in Nat
  /\ solution \in [at : Int, valid : BOOLEAN] /\ sent \in [epoch : Int, at : Nat, run : Nat]
  /\ run \in Nat /\ tripped \in Nat \cup {Never}

\* What NoFixDuringHoldOff rests on: the hold-off runs from the limit that
\* tripped last, which is no later than now.
HoldOffFromTheLast == tripped # Never => tripped <= now /\ reacquiredAt = tripped + holdOff

\* What FixesLeaveOnTime rests on: the frames under way are of this run, held
\* back by its latency, and in the order they were solved in, first those that
\* are due, which became so in this step, then those that are not due yet.
OfThisRun(frame) ==
  /\ frame.run = run /\ frame.at = frame.epoch + latency
  /\ sent.epoch < frame.epoch /\ frame.epoch <= now
InOrder(frames) == \A i, j \in 1 .. Len(frames) : i < j => frames[i].epoch < frames[j].epoch
DueNow(frame) == frame.at <= now /\ now <= frame.at + StepTime
FramesInLine ==
  /\ \A i \in 1 .. Len(due) : OfThisRun(due[i]) /\ DueNow(due[i])
  /\ \A i \in 1 .. Len(line) : OfThisRun(line[i]) /\ now <= line[i].at
  /\ InOrder(due) /\ InOrder(line)
  /\ \A i \in 1 .. Len(due), j \in 1 .. Len(line) : due[i].epoch < line[j].epoch

\* And what was sent had been solved.
SentBefore == sent.epoch <= now

GpsInv ==
  /\ TypeOK /\ HoldOffFromTheLast /\ FramesInLine /\ SentBefore
  /\ NoFixDuringHoldOff
=============================================================================

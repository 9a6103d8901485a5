------------------------------ MODULE CosimHost ------------------------------
(***************************************************************************)
(* The co-simulation hosts of the examples: the command line, the Ecos     *)
(* simulation they set up, and the loop that steps it, computes what no    *)
(* connection can carry and logs the truth.  The three programs share one  *)
(* shape; the autopilot host has a control loop and a command schedule in  *)
(* addition, the rocket host has no check-cases.  What they share is stated *)
(* once, and below it what each program makes of it.                       *)
(*                                                                         *)
(* A value that depends on the plant is the number of the communication    *)
(* point whose plant state it was computed from; Ecos itself is external:  *)
(* initialisation and each step run every FMU on the inputs it has and     *)
(* then carry each connected output to its input.                          *)
(***************************************************************************)
EXTENDS Integers, Sequences, FiniteSetsExt

CONSTANTS
  MaxArgs,      \* Arguments on the command line. Bounds the model.
  StopTime      \* Communication points of a run.

Programs == {"trim", "autopilot", "rocket"}

VARIABLES
  program,
  \* parse_args(): the arguments, which pass is at which of them, the options, and
  \* the arguments the second pass took for option names.
  args, pass, at, options, names,
  \* main(): where it is, and the communication point the simulation is at.
  stage, time,
  \* Inputs of the FMUs: the connected ones by their links, the magnetometer's
  \* field and the autopilot's command.
  inputs,
  field,        \* last_field_body.
  refused,      \* Points at which the field model refused the position.
  row           \* The last row of the truth log: its time and the inputs in it.
parsing == <<args, pass, at, options, names>>
running == <<time, inputs, field, refused, row>>
vars == <<program, parsing, stage, running>>

(***************************************************************************)
(* The command line.  "set" stands for the option a check-case has a       *)
(* default for: --alt0 and --vt0 of the trim host, --stop of the autopilot *)
(* host.  Cases are numbers, as values are.                                *)
(***************************************************************************)
Names == {"case", "set", "csv", "no-cocom", "help"}
Numbers == {"11", "12", "5"}
Cases == {"11", "12"}
Arguments == Names \cup Numbers
Lines == UNION {[1 .. n -> Arguments] : n \in 0 .. MaxArgs}

DefaultOf(case) == <<"default", case>>
Explicit(value) == <<"explicit", value>>
OptionsOf(case) == [case |-> case, setting |-> DefaultOf(case), csv |-> "results"]

\* What each program starts from, and the options it takes with a value.
TrimDefaults == OptionsOf("11")
AutopilotDefaults == OptionsOf("11")
RocketDefaults == OptionsOf("none")
Defaults ==
  CASE program = "trim" -> TrimDefaults
    [] program = "autopilot" -> AutopilotDefaults
    [] program = "rocket" -> RocketDefaults

TrimOptions == {"case", "set", "csv"}
AutopilotOptions == {"case", "set", "csv"}
RocketOptions == {"set", "csv"}

Unknown == -1
NoInputs == [linked |-> <<>>, field |-> Unknown, command |-> Unknown]

\* A row of the truth log holds the inputs its program names: those on some links,
\* the magnetometer's field and the autopilot's commands.
RowOf(links, t, in) ==
  [time |-> t, inputs |-> [in EXCEPT !.linked = [link \in links \cap DOMAIN @ |-> @[link]]]]
TrimRow(t, in) == RowOf({<<"f16", "imu">>, <<"f16", "radalt">>}, t, in)
AutopilotRow(t, in) == RowOf({<<"f16", "imu">>, <<"f16", "radalt">>, <<"ap", "f16">>}, t, in)
RocketRow(t, in) == RowOf({<<"rocket", "imu">>}, t, in)
Row(t, in) ==
  CASE program = "trim" -> TrimRow(t, in)
    [] program = "autopilot" -> AutopilotRow(t, in)
    [] program = "rocket" -> RocketRow(t, in)
NoRow == [time |-> Unknown, inputs |-> NoInputs]

Init ==
  /\ program \in Programs
  /\ args \in Lines /\ at = 1 /\ options = Defaults /\ names = {}
  /\ pass = IF program = "rocket" THEN 2 ELSE 1
  /\ stage = "parse" /\ time = 0
  /\ inputs = NoInputs
  /\ field = Unknown /\ refused = {} /\ row = NoRow

Arg(i) == args[i]
Fail == stage' = "failed" /\ UNCHANGED running

\* First pass: wherever `--case' stands, its defaults are applied. The autopilot
\* host records the case here, too.
ApplyCase(case) ==
  options' = [options EXCEPT !.setting = DefaultOf(case),
                             !.case = IF program = "autopilot" THEN case ELSE @]

FindCase ==
  /\ pass = 1 /\ at < Len(args)
  /\ IF Arg(at) # "case"
       THEN at' = at + 1 /\ UNCHANGED <<options, stage>>
       ELSE IF Arg(at + 1) \in Cases
         THEN at' = at + 1 /\ ApplyCase(Arg(at + 1)) /\ UNCHANGED stage
         ELSE stage' = "failed" /\ UNCHANGED <<at, options>>
  /\ UNCHANGED <<args, pass, names, running>>

BeginSecondPass ==
  /\ pass = 1 /\ at >= Len(args)
  /\ pass' = 2 /\ at' = 1
  /\ UNCHANGED <<args, options, names, stage, running>>

\* What the option table's lambdas do with a value; a number that is none throws.
Takes(name, value) == name = "set" => value \in Numbers

\* Seeded fault: the case's defaults are applied where `--case' stands.
AppliedInOrder(name, value) ==
  CASE name = "case" -> [options EXCEPT !.case = value, !.setting = DefaultOf(value)]
    [] name = "set"  -> [options EXCEPT !.setting = Explicit(value)]
    [] name = "csv"  -> [options EXCEPT !.csv = value]

Applied(name, value) ==
  CASE name = "case" -> [options EXCEPT !.case = value]
    [] name = "set"  -> [options EXCEPT !.setting = Explicit(value)]
    [] name = "csv"  -> [options EXCEPT !.csv = value]

TakeOption(known) ==
  /\ pass = 2 /\ at <= Len(args)
  /\ IF Arg(at) = "no-cocom"
       THEN at' = at + 1 /\ UNCHANGED <<options, names, stage>>
       ELSE IF Arg(at) \in known /\ at < Len(args) /\ Takes(Arg(at), Arg(at + 1))
         THEN /\ options' = Applied(Arg(at), Arg(at + 1))
              /\ names' = names \cup {at}
              /\ at' = at + 2 /\ UNCHANGED stage
         ELSE stage' = "failed" /\ UNCHANGED <<at, options, names>>
  /\ UNCHANGED <<args, pass, running>>

\* A fix period that is no whole number of steps is refused.
CheckPeriod ==
  /\ pass = 2 /\ at > Len(args)
  /\ stage' = "failed"
  /\ UNCHANGED <<parsing, running>>

\* Accepted. What was parsed is of no further account.
Accept ==
  /\ stage = "parse" /\ pass = 2 /\ at > Len(args)
  /\ stage' = "found"
  /\ args' = <<>> /\ at' = 1 /\ options' = Defaults /\ names' = {}
  /\ UNCHANGED <<pass, running>>

Parsing(p) == program = p /\ stage = "parse" /\ UNCHANGED program

TrimParse ==
  /\ Parsing("trim")
  /\ FindCase \/ BeginSecondPass \/ TakeOption(TrimOptions) \/ CheckPeriod \/ Accept

\* The autopilot host does not look at the fix period.
AutopilotParse ==
  /\ Parsing("autopilot")
  /\ FindCase \/ BeginSecondPass \/ TakeOption(AutopilotOptions) \/ Accept

RocketParse ==
  /\ Parsing("rocket")
  /\ TakeOption(RocketOptions) \/ CheckPeriod \/ Accept

(***************************************************************************)
(* Setting up.                                                             *)
(***************************************************************************)
\* A program's models and the links between them: which model's outputs are
\* carried to which model's inputs. The plant comes first.
Sensors == {"gps", "imu", "baro", "mag"}
PlantTo(plant, models) == {<<plant, model>> : model \in models}
TrimLinks == PlantTo("f16", Sensors \cup {"radalt"})
RocketLinks == PlantTo("rocket", Sensors)
AutopilotLinks == PlantTo("f16", Sensors \cup {"radalt", "ap"}) \cup {<<"ap", "f16">>}

From(p, here) == program = p /\ stage = here /\ UNCHANGED <<parsing, program>>

\* Every FMU has to exist, and one of them to unpack.
Preflight(p) ==
  /\ From(p, "found")
  /\ stage' \in {"build", "failed"}
  /\ UNCHANGED running

TrimPreflight == Preflight("trim")
AutopilotPreflight == Preflight("autopilot")
RocketPreflight == Preflight("rocket")

\* Models, links and parameters; load and init. Anything may throw.
Build(p, links) ==
  /\ From(p, "build")
  /\ \/ /\ stage' = IF p = "autopilot" THEN "schedule" ELSE "log"
        /\ inputs' = [inputs EXCEPT !.linked = [link \in links |-> 0]]
     \/ stage' = "failed" /\ UNCHANGED inputs
  /\ UNCHANGED <<time, field, refused, row>>

TrimBuild == Build("trim", TrimLinks)
AutopilotBuild == Build("autopilot", AutopilotLinks)
RocketBuild == Build("rocket", RocketLinks)

\* The commands, as the schedule has them at the time the simulation is at, with
\* the feedback taken from the plant state of that time.
Scheduled(t) == IF program = "autopilot" THEN t ELSE Unknown
WriteCommands(in, t) == [in EXCEPT !.command = Scheduled(t)]

\* The autopilot host writes the first commands before the first step.
FirstCommands ==
  /\ From("autopilot", "schedule")
  /\ inputs' = WriteCommands(inputs, 0)
  /\ stage' = "log"
  /\ UNCHANGED <<time, field, refused, row>>

\* The truth log opens and knows its variables, or throws.
OpenTruthLog(p) ==
  /\ From(p, "log")
  /\ stage' \in {"config", "failed"}
  /\ UNCHANGED running

TrimLog == OpenTruthLog("trim")
AutopilotLog == OpenTruthLog("autopilot")
RocketLog == OpenTruthLog("rocket")

\* "Losing the provenance stamp must not lose the run": written or not.
WriteRunConfig(p) ==
  /\ From(p, "config")
  /\ stage' = "first row"
  /\ UNCHANGED running

TrimConfig == WriteRunConfig("trim")
AutopilotConfig == WriteRunConfig("autopilot")
RocketConfig == WriteRunConfig("rocket")

\* The state at t = 0, before any stepping.
LogFirstRow(p) ==
  /\ From(p, "first row")
  /\ row' = Row(0, inputs) /\ stage' = "loop"
  /\ UNCHANGED <<time, inputs, field, refused>>

TrimFirstRow == LogFirstRow("trim")
AutopilotFirstRow == LogFirstRow("autopilot")
RocketFirstRow == LogFirstRow("rocket")

(***************************************************************************)
(* The loop.                                                               *)
(***************************************************************************)
\* sim->step(). The plant gives its new state, the autopilot what it computed from
\* the feedback it had.
Plant == IF program = "rocket" THEN "rocket" ELSE "f16"
Output(model, t) == IF model = Plant THEN t ELSE inputs.linked[<<Plant, model>>]

Step ==
  /\ stage = "loop" /\ time < StopTime
  /\ time' = time + 1
  /\ inputs' = [inputs EXCEPT !.linked = [link \in DOMAIN @ |-> Output(link[1], time')]]
  /\ stage' = "stepped"
  /\ UNCHANGED <<parsing, program, field, refused, row>>

StepThrows ==
  /\ stage = "loop" /\ time < StopTime
  /\ Fail
  /\ UNCHANGED <<parsing, program>>

\* The field at the new position, unless the model refuses it.
EvaluateField ==
  \/ field' = time /\ UNCHANGED refused
  \/ field' = field /\ refused' = refused \cup {time}

\* Seeded fault: the row is written before the inputs are.
FinishStepLogFirst ==
  /\ EvaluateField
  /\ inputs' = WriteCommands([inputs EXCEPT !.field = field'], time)
  /\ row' = Row(time, inputs)

\* The magnetometer's input, the commands, then the row.
FinishStep ==
  /\ EvaluateField
  /\ inputs' = WriteCommands([inputs EXCEPT !.field = field'], time)
  /\ row' = Row(time, inputs')

FinishStepOf(p) ==
  /\ From(p, "stepped")
  /\ FinishStep
  /\ stage' = "loop"
  /\ UNCHANGED time

TrimLoop == FinishStepOf("trim")
AutopilotLoop == FinishStepOf("autopilot")
RocketLoop == FinishStepOf("rocket")

Terminate(p) ==
  /\ From(p, "loop") /\ time = StopTime
  /\ stage' = "done"
  /\ UNCHANGED running

TrimEnd == Terminate("trim")
AutopilotEnd == Terminate("autopilot")
RocketEnd == Terminate("rocket")

Trim ==
  \/ TrimParse \/ TrimPreflight \/ TrimBuild
  \/ TrimLog \/ TrimConfig \/ TrimFirstRow \/ TrimLoop \/ TrimEnd
Autopilot ==
  \/ AutopilotParse \/ AutopilotPreflight \/ AutopilotBuild \/ FirstCommands
  \/ AutopilotLog \/ AutopilotConfig \/ AutopilotFirstRow \/ AutopilotLoop \/ AutopilotEnd
Rocket ==
  \/ RocketParse \/ RocketPreflight \/ RocketBuild
  \/ RocketLog \/ RocketConfig \/ RocketFirstRow \/ RocketLoop \/ RocketEnd

Next == Trim \/ Autopilot \/ Rocket \/ Step \/ StepThrows

Spec == Init /\ [][Next]_vars

-----------------------------------------------------------------------------
Given(name) == {i \in names : Arg(i) = name}
LastGiven(name) == Arg(Max(Given(name)) + 1)
CaseGiven == IF Given("case") = {} THEN Defaults.case ELSE LastGiven("case")

\* "A check-case is a set of defaults, so it is applied before anything else on
\* the command line": whatever the order of a command line the program accepts,
\* an option given explicitly wins over the case, and the case whose defaults
\* are used is the one the run is labelled with.
ExplicitOptionsWin ==
  Accept => options = [case |-> CaseGiven,
                       setting |-> IF Given("set") = {} THEN DefaultOf(CaseGiven)
                                   ELSE Explicit(LastGiven("set")),
                       csv |-> IF Given("csv") = {} THEN "results" ELSE LastGiven("csv")]

\* What is in the magnetometer's inputs at a communication point. The host writes
\* them after a step only, so at first they hold their start values: the first step
\* samples a field that was never computed from any plant state.
FieldSampled ==
  IF time = 0 THEN inputs.field = Unknown ELSE inputs.field = time \/ time \in refused

\* "The logged inputs are the ones the FMU will sample on the next step", one row
\* per communication point; and what the host writes carries the delay of a
\* connection: the field and the commands a step samples stem from the plant
\* state its linked inputs stem from, unless the field model refused that one,
\* and the surfaces lag the feedback by the "one-step transport delay". The field
\* does so from the second step on, and not in the first: there it is no "same
\* one-communication-step transport delay a connection would" give, since a
\* connection is carried when the simulation is initialised, too.
LoggedInputsAreSampled ==
  Step =>
    /\ row = Row(time, inputs)
    /\ \A link \in DOMAIN inputs.linked :
         inputs.linked[link] = IF link[1] = Plant \/ time = 0 THEN time ELSE time - 1
    /\ FieldSampled
    /\ inputs.command = Scheduled(time)

(***************************************************************************)
(* What the two rest on.                                                   *)
(***************************************************************************)
\* Where a `--case' stands that the first pass sees, and the case it finds last.
CasesBefore(k) == {i \in 1 .. Len(args) - 1 : i < k /\ Arg(i) = "case"}
CaseFound(k) ==
  IF program = "rocket" \/ CasesBefore(k) = {} THEN Defaults.case
  ELSE Arg(Max(CasesBefore(k)) + 1)

FirstPass ==
  /\ program # "rocket"
  /\ at \in 1 .. Len(args) + 1 /\ names = {}
  /\ \A i \in CasesBefore(at) : Arg(i + 1) \in Cases
  /\ options = [case |-> IF program = "autopilot" THEN CaseFound(at) ELSE Defaults.case,
                setting |-> DefaultOf(CaseFound(at)), csv |-> "results"]

\* Every case the first pass has found is a name of the second, or the value right
\* before `at'; and then what is at `at' is a case's number, which is no name.
SecondPass ==
  LET found == CaseFound(Len(args))
  IN /\ at \in 1 .. Len(args) + 1
     /\ \A i \in names : i \in 1 .. at - 2 /\ Arg(i) \in {"case", "set", "csv"}
     /\ program = "rocket" => Given("case") = {}
     /\ program # "rocket" =>
          \A i \in CasesBefore(Len(args)) :
            Arg(i + 1) \in Cases /\ (i < at - 1 => i \in names)
     /\ options = [case |-> IF Given("case") # {} THEN LastGiven("case")
                            ELSE IF program = "autopilot" THEN found ELSE Defaults.case,
                   setting |-> IF Given("set") = {} THEN DefaultOf(found)
                               ELSE Explicit(LastGiven("set")),
                   csv |-> IF Given("csv") = {} THEN "results" ELSE LastGiven("csv")]

ParseInv ==
  /\ program \in Programs /\ args \in Seq(Arguments)
  /\ stage = "parse" => (pass = 1 /\ FirstPass) \/ (pass = 2 /\ SecondPass)

\* Where the program is, and of which communication point its inputs are.
Links ==
  CASE program = "trim" -> TrimLinks
    [] program = "autopilot" -> AutopilotLinks
    [] program = "rocket" -> RocketLinks
Carried ==
  /\ DOMAIN inputs.linked = Links
  /\ \A link \in Links :
       inputs.linked[link] = IF link[1] = Plant \/ time = 0 THEN time ELSE time - 1
LoopInv ==
  /\ program \in Programs /\ time \in Nat
  /\ inputs = [linked |-> inputs.linked, field |-> inputs.field, command |-> inputs.command]
  /\ stage \in {"parse", "found", "build", "schedule", "log", "config", "first row"} => time = 0
  /\ time = 0 => inputs.field = Unknown /\ stage # "stepped"
  /\ stage \in {"parse", "found", "build"} => inputs.command = Unknown
  /\ stage = "schedule" => program = "autopilot"
  /\ stage \in {"schedule", "log", "config", "first row", "loop", "stepped"} => Carried
  /\ stage \in {"log", "config", "first row", "loop"} => inputs.command = Scheduled(time)
  /\ stage = "loop" => /\ row = Row(time, inputs)
                       /\ FieldSampled
=============================================================================

------------------------------ MODULE ShmBridge ------------------------------
(***************************************************************************)
(* The shared-memory step bridge of sim/shm_bridge: the FMI master and the *)
(* plant process, which meet in the BridgeRegion.  A ChannelFrame is       *)
(* abstracted to the step it belongs to.  The master posts a step and      *)
(* waits for its outputs, again after a timeout if it likes, and requests  *)
(* a shutdown at any moment between two calls; the plant alternates        *)
(* wait_for_inputs and post_outputs until a wait says that the run is over.*)
(***************************************************************************)
EXTENDS Naturals

CONSTANTS
  MaxSteps,   \* Calls of post_inputs(). Bounds the model.
  CanTimeOut  \* Whether a wait may expire before the other end answers.

ASSUME MaxStepsAssumption == MaxSteps \in Nat
ASSUME SwitchAssumption == CanTimeOut \in BOOLEAN

VARIABLES
  \* The BridgeRegion: the handshake, the step counter and the two frames.
  phase, step_index, master_to_plant, plant_to_master,
  \* The master: where it is, and the step of the outputs it accepted last.
  master, outputs,
  \* The plant process: where it is, and the step of the inputs it holds.
  plant, inputs,
  \* History: steps the plant has integrated, steps the master has accepted.
  advanced, accepted

region == <<phase, step_index, master_to_plant, plant_to_master>>
history == <<advanced, accepted>>
vars == <<region, master, outputs, plant, inputs, history>>

Steps == 0 .. MaxSteps
Phases == {"Idle", "InputsPosted", "OutputsPosted", "ShutdownRequested"}
MasterSteps == {"idle", "store", "wait", "copy", "consume", "gaveUp", "over"}
PlantSteps == {"absent", "wait", "copy", "step", "fill", "store", "over"}

\* create_master() constructs the region; the plant process opens it later.
Init ==
  /\ phase = "Idle" /\ step_index = 0
  /\ master_to_plant = 0 /\ plant_to_master = 0
  /\ master = "idle" /\ outputs = 0
  /\ plant = "absent" /\ inputs = 0
  /\ advanced = 0 /\ accepted = 0

MasterAt(from, to) == master = from /\ master' = to
PlantAt(from, to) == plant = from /\ plant' = to

(***************************************************************************)
(* The master.                                                             *)
(***************************************************************************)
\* post_inputs() up to its last store: the frame, the time and the counter.
FillInputs ==
  /\ MasterAt("idle", "store")
  /\ step_index < MaxSteps
  /\ step_index' = step_index + 1
  /\ master_to_plant' = step_index + 1
  /\ UNCHANGED <<phase, plant_to_master, outputs, plant, inputs, history>>

StoreInputsPosted ==
  /\ MasterAt("store", "wait")
  /\ phase' = "InputsPosted"
  /\ UNCHANGED <<step_index, master_to_plant, plant_to_master, outputs, plant, inputs, history>>

\* Seeded fault: the master takes the first phase change as its outputs.
SeeOutputsEarly ==
  /\ MasterAt("wait", "copy")
  /\ phase # "Idle"
  /\ UNCHANGED <<region, outputs, plant, inputs, history>>

SeeOutputs ==
  /\ MasterAt("wait", "copy")
  /\ phase = "OutputsPosted"
  /\ UNCHANGED <<region, outputs, plant, inputs, history>>

CopyOutputs ==
  /\ MasterAt("copy", "consume")
  /\ outputs' = plant_to_master
  /\ accepted' = accepted + 1
  /\ UNCHANGED <<region, plant, inputs, advanced>>

StoreIdle ==
  /\ MasterAt("consume", "idle")
  /\ phase' = "Idle"
  /\ UNCHANGED <<step_index, master_to_plant, plant_to_master, outputs, plant, inputs, history>>

\* The clock is read after the phase: a wait may expire whatever the phase is.
MasterTimesOut ==
  /\ CanTimeOut
  /\ MasterAt("wait", "gaveUp")
  /\ UNCHANGED <<region, outputs, plant, inputs, history>>

\* The step is still posted: the master may only wait for it again.
WaitAgain ==
  /\ MasterAt("gaveUp", "wait")
  /\ UNCHANGED <<region, outputs, plant, inputs, history>>

RequestShutdown ==
  /\ master \in {"idle", "gaveUp"}
  /\ master' = "over"
  /\ phase' = "ShutdownRequested"
  /\ UNCHANGED <<step_index, master_to_plant, plant_to_master, outputs, plant, inputs, history>>

Master == \/ FillInputs \/ StoreInputsPosted \/ SeeOutputs \/ CopyOutputs \/ StoreIdle
          \/ MasterTimesOut \/ WaitAgain \/ RequestShutdown

(***************************************************************************)
(* The plant process.                                                      *)
(***************************************************************************)
OpenPeer ==
  /\ PlantAt("absent", "wait")
  /\ UNCHANGED <<region, master, outputs, inputs, history>>

SeeInputs ==
  /\ PlantAt("wait", "copy")
  /\ phase = "InputsPosted"
  /\ UNCHANGED <<region, master, outputs, inputs, history>>

\* Seeded fault: the plant's wait does not look for the shutdown.
SeeShutdownNever == FALSE /\ UNCHANGED vars

SeeShutdown ==
  /\ PlantAt("wait", "over")
  /\ phase = "ShutdownRequested"
  /\ UNCHANGED <<region, master, outputs, inputs, history>>

\* A plant that waits again after a timeout is where it was; it may also leave.
PlantTimesOut ==
  /\ CanTimeOut
  /\ PlantAt("wait", "over")
  /\ UNCHANGED <<region, master, outputs, inputs, history>>

CopyInputs ==
  /\ PlantAt("copy", "step")
  /\ inputs' = master_to_plant
  /\ UNCHANGED <<region, master, outputs, history>>

AdvancePlant ==
  /\ PlantAt("step", "fill")
  /\ advanced' = advanced + 1
  /\ UNCHANGED <<region, master, outputs, inputs, accepted>>

\* post_outputs(): the frame, then the phase.
FillOutputs ==
  /\ PlantAt("fill", "store")
  /\ plant_to_master' = inputs
  /\ UNCHANGED <<phase, step_index, master_to_plant, master, outputs, inputs, history>>

\* Seeded fault: the phase is put back to idle instead.
StoreOutputsPostedIdle ==
  /\ PlantAt("store", "wait")
  /\ phase' = "Idle"
  /\ UNCHANGED <<step_index, master_to_plant, plant_to_master, master, outputs, inputs, history>>

\* Seeded fault: outputs are published as if they were inputs again.
StoreOutputsPostedWrong ==
  /\ PlantAt("store", "wait")
  /\ phase' = "InputsPosted"
  /\ UNCHANGED <<step_index, master_to_plant, plant_to_master, master, outputs, inputs, history>>

StoreOutputsPosted ==
  /\ PlantAt("store", "wait")
  /\ phase' = "OutputsPosted"
  /\ UNCHANGED <<step_index, master_to_plant, plant_to_master, master, outputs, inputs, history>>

Plant == \/ OpenPeer \/ SeeInputs \/ SeeShutdown \/ CopyInputs
         \/ AdvancePlant \/ FillOutputs \/ StoreOutputsPosted

Next == Master \/ Plant \/ PlantTimesOut

Spec == Init /\ [][Next]_vars

\* Both processes run; nothing forces a shutdown, a new step or a timeout.
FairSpec ==
  /\ Spec
  /\ WF_vars(StoreInputsPosted \/ SeeOutputs \/ CopyOutputs \/ StoreIdle)
  /\ WF_vars(Plant)

-----------------------------------------------------------------------------
\* Every field and local is what its declaration says.
TypeOK ==
  /\ phase \in Phases /\ step_index \in Steps
  /\ master_to_plant \in Steps /\ plant_to_master \in Steps
  /\ master \in MasterSteps /\ outputs \in Steps
  /\ plant \in PlantSteps /\ inputs \in Steps
  /\ advanced \in Nat /\ accepted \in Nat

MasterInFrames == master \in {"store", "copy", "consume"}
PlantInFrames == plant \in {"copy", "step", "fill", "store"}

\* "Every other field is only read after observing the phase transition that
\* published it": the two sides are never both in the fields around the phase,
\* timeouts, second waits and a shutdown included.
FramesHaveOneOwner == ~(MasterInFrames /\ PlantInFrames)

\* Outputs the master accepts are those of the step it posted last, computed
\* from that step's inputs, and the plant has integrated every posted step
\* once: no step skipped, none repeated.
OutputsAreOfThisStep ==
  master = "consume" => outputs = step_index /\ advanced = step_index

\* The strengthening the proofs induct on. Whose turn the phase says it is:
Turns ==
  /\ master \in {"idle", "store"} => phase = "Idle"
  /\ master \in {"wait", "gaveUp"} => phase \in {"InputsPosted", "OutputsPosted"}
  /\ master \in {"copy", "consume"} => phase = "OutputsPosted"
  /\ master = "over" => phase \in {"ShutdownRequested", "OutputsPosted"}
  /\ phase \in {"Idle", "OutputsPosted"} => ~PlantInFrames

\* what the frames hold when their owner's turn ends;
FramesFollowTheStep ==
  /\ master_to_plant = step_index
  /\ plant \in {"step", "fill", "store"} => inputs = step_index
  /\ (plant = "store" \/ phase = "OutputsPosted") => plant_to_master = step_index
  /\ master = "consume" => outputs = step_index

\* and how far each side has counted.
CountsFollowTheStep ==
  /\ master \in {"idle", "consume"} => accepted = step_index
  /\ master \in {"store", "wait", "gaveUp", "copy"} => accepted = step_index - 1
  /\ (master = "idle" \/ plant \in {"fill", "store"} \/ phase = "OutputsPosted")
       => advanced = step_index
  /\ (master = "store" \/ plant \in {"copy", "step"}
       \/ (phase = "InputsPosted" /\ ~PlantInFrames))
       => advanced = step_index - 1

LockstepInv == TypeOK /\ Turns /\ FramesFollowTheStep /\ CountsFollowTheStep

\* A plant blocked in wait_for_inputs when the shutdown is stored returns
\* kShutdown: no timeout is forced to expire, so it does in the behaviours in
\* which none does.
ShutdownReleasesWaitingPlant ==
  (phase = "ShutdownRequested" /\ plant = "wait") ~> (plant = "over")

\* A posted step is answered, whenever the plant comes up and unless it leaves,
\* again without a timeout.
PostedStepIsAccepted ==
  (master = "wait") ~> (master \in {"idle", "gaveUp"} \/ plant = "over")

\* Whatever times out, the bridge is a lockstep.
AsLockstep == INSTANCE Lockstep WITH
  posted <- step_index, advanced <- advanced, accepted <- accepted
ImplementsLockstep == AsLockstep!Spec
=============================================================================

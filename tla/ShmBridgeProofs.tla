--------------------------- MODULE ShmBridgeProofs ---------------------------
(***************************************************************************)
(* Proofs about ShmBridge for every number of steps: LockstepInv is        *)
(* inductive, the frames have one owner at a time, the outputs accepted    *)
(* are those of the step just posted, and the bridge implements Lockstep.  *)
(***************************************************************************)
EXTENDS ShmBridge, TLAPS

USE MaxStepsAssumption

\* Where the two ends may be, and that the counters move within their bounds.
LEMMA InitLockstep == Init => LockstepInv
BY DEF Init, LockstepInv, TypeOK, Turns, FramesFollowTheStep, CountsFollowTheStep,
       Steps, Phases, MasterSteps, PlantSteps, PlantInFrames

\* A step of the master, whatever the plant is doing, keeps the invariant.
LEMMA MasterKeepsLockstep == LockstepInv /\ Master => LockstepInv'
<1> SUFFICES ASSUME LockstepInv, Master PROVE LockstepInv'
  OBVIOUS
<1> USE DEF LockstepInv, TypeOK, Turns, FramesFollowTheStep, CountsFollowTheStep,
            Steps, Phases, MasterSteps, PlantSteps, PlantInFrames,
            MasterAt, region, history
<1>1. CASE FillInputs
  BY <1>1 DEF FillInputs
<1>2. CASE StoreInputsPosted
  BY <1>2 DEF StoreInputsPosted
<1>3. CASE SeeOutputs
  BY <1>3 DEF SeeOutputs
<1>4. CASE CopyOutputs
  BY <1>4 DEF CopyOutputs
<1>5. CASE StoreIdle
  BY <1>5 DEF StoreIdle
<1>6. CASE MasterTimesOut
  BY <1>6 DEF MasterTimesOut
<1>7. CASE WaitAgain
  BY <1>7 DEF WaitAgain
<1>8. CASE RequestShutdown
  BY <1>8 DEF RequestShutdown
<1>9. QED
  BY <1>1, <1>2, <1>3, <1>4, <1>5, <1>6, <1>7, <1>8 DEF Master

\* A step of the plant keeps it too, and so does its wait running out.
LEMMA PlantKeepsLockstep == LockstepInv /\ (Plant \/ PlantTimesOut) => LockstepInv'
<1> SUFFICES ASSUME LockstepInv, Plant \/ PlantTimesOut PROVE LockstepInv'
  OBVIOUS
<1> USE DEF LockstepInv, TypeOK, Turns, FramesFollowTheStep, CountsFollowTheStep,
            Steps, Phases, MasterSteps, PlantSteps, PlantInFrames,
            PlantAt, region, history
<1>1. CASE OpenPeer
  BY <1>1 DEF OpenPeer
<1>2. CASE SeeInputs
  BY <1>2 DEF SeeInputs
<1>3. CASE SeeShutdown
  BY <1>3 DEF SeeShutdown
<1>4. CASE PlantTimesOut
  BY <1>4 DEF PlantTimesOut
<1>5. CASE CopyInputs
  BY <1>5 DEF CopyInputs
<1>6. CASE AdvancePlant
  BY <1>6 DEF AdvancePlant
<1>7. CASE FillOutputs
  BY <1>7 DEF FillOutputs
<1>8. CASE StoreOutputsPosted
  BY <1>8 DEF StoreOutputsPosted
<1>9. QED
  BY <1>1, <1>2, <1>3, <1>4, <1>5, <1>6, <1>7, <1>8 DEF Plant

\* The inductive invariant holds in every reachable state.
THEOREM LockstepInvariant == Spec => []LockstepInv
<1>1. LockstepInv /\ [Next]_vars => LockstepInv'
  <2>1. LockstepInv /\ UNCHANGED vars => LockstepInv'
    BY DEF LockstepInv, TypeOK, Turns, FramesFollowTheStep, CountsFollowTheStep,
           PlantInFrames, vars, region, history
  <2>2. QED
    BY <2>1, MasterKeepsLockstep, PlantKeepsLockstep DEF Next
<1>2. QED
  BY <1>1, InitLockstep, PTL DEF Spec

\* Type correctness, a part of it.
THEOREM BridgeTypes == Spec => []TypeOK
<1>1. LockstepInv => TypeOK
  BY DEF LockstepInv
<1>2. QED
  BY <1>1, LockstepInvariant, PTL

\* The frames are handed over by the phase: no data race on them.
THEOREM FrameOwnership == Spec => []FramesHaveOneOwner
<1>1. LockstepInv => FramesHaveOneOwner
  BY DEF LockstepInv, Turns, FramesHaveOneOwner, MasterInFrames, PlantInFrames
<1>2. QED
  BY <1>1, LockstepInvariant, PTL

\* The outputs the master accepts were computed for the step it posted last.
THEOREM OutputsFollowInputs == Spec => []OutputsAreOfThisStep
<1>1. LockstepInv => OutputsAreOfThisStep
  BY DEF LockstepInv, Turns, FramesFollowTheStep, CountsFollowTheStep, OutputsAreOfThisStep
<1>2. QED
  BY <1>1, LockstepInvariant, PTL

\* Every step of the bridge is a step of the abstract lockstep or a stutter.
THEOREM BridgeIsLockstep == Spec => ImplementsLockstep
<1>1. Init => AsLockstep!Init
  BY DEF Init, AsLockstep!Init
<1>2. LockstepInv /\ [Next]_vars => [AsLockstep!Next]_AsLockstep!vars
  <2> SUFFICES ASSUME LockstepInv, [Next]_vars
               PROVE  [AsLockstep!Next]_AsLockstep!vars
    OBVIOUS
  <2> USE DEF LockstepInv, Turns, CountsFollowTheStep, TypeOK, Steps, AsLockstep!vars
  <2>1. CASE FillInputs
    BY <2>1 DEF FillInputs, MasterAt, history, AsLockstep!Next, AsLockstep!PostStep
  <2>2. CASE AdvancePlant
    <3>1. advanced = step_index - 1
      BY <2>2 DEF AdvancePlant, PlantAt
    <3>2. QED
      BY <2>2, <3>1 DEF AdvancePlant, region, AsLockstep!Next, AsLockstep!Advance
  <2>3. CASE CopyOutputs
    <3>1. advanced = step_index /\ accepted = step_index - 1
      BY <2>3 DEF CopyOutputs, MasterAt
    <3>2. QED
      BY <2>3, <3>1 DEF CopyOutputs, region, AsLockstep!Next, AsLockstep!Accept
  <2>4. CASE \/ StoreInputsPosted \/ SeeOutputs \/ StoreIdle \/ MasterTimesOut \/ WaitAgain
             \/ RequestShutdown
    BY <2>4 DEF StoreInputsPosted, SeeOutputs, StoreIdle, MasterTimesOut, WaitAgain,
                RequestShutdown, region, history
  <2>5. CASE \/ OpenPeer \/ SeeInputs \/ SeeShutdown \/ PlantTimesOut \/ CopyInputs
             \/ FillOutputs \/ StoreOutputsPosted \/ UNCHANGED vars
    BY <2>5 DEF OpenPeer, SeeInputs, SeeShutdown, PlantTimesOut, CopyInputs,
                FillOutputs, StoreOutputsPosted, vars, region, history
  <2>6. QED
    BY <2>1, <2>2, <2>3, <2>4, <2>5 DEF Next, Master, Plant
<1>3. QED
  BY <1>1, <1>2, LockstepInvariant, PTL DEF Spec, ImplementsLockstep, AsLockstep!Spec
=============================================================================

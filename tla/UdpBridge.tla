------------------------------ MODULE UdpBridge ------------------------------
(***************************************************************************)
(* The datagram step bridge of sim/udp_bridge: the master and the peer,    *)
(* each with its own step_index_, over a network that may lose, duplicate, *)
(* delay and reorder.  A channel frame is abstracted to the point of       *)
(* simulated time (the communication step) it was filled for.              *)
(*                                                                         *)
(* The master does what udp_bridge.h asks of it: after a timeout it calls  *)
(* again the post_*() that went unanswered; so may the peer.               *)
(***************************************************************************)
EXTENDS Naturals, Bags

CONSTANTS
  MaxTime,        \* Communication steps of the run.
  MaxPosts,       \* Calls of post_inputs(). Bounds the model.
  MaxLosses,      \* Datagrams the network may lose,
  MaxDuplicates,  \* and those it may deliver twice.
  MaxQueued       \* Datagrams under way at which a repeated post is pointless.

ASSUME BoundsAssumption ==
  {MaxTime, MaxPosts, MaxLosses, MaxDuplicates, MaxQueued} \subseteq Nat

VARIABLES
  master, masterStep, time, outputs,  \* The master: its step_index_, its clock.
  peer, peerStep, inputs,             \* The peer: the step_index_ it echoes.
  toPeer, toMaster,                   \* Datagrams under way, as bags.
  advanced, accepted,                 \* History: steps integrated, accepted,
  lost, duplicated,                   \* what the network has done, and whether
  calm                                \* nothing came twice and no wait ran out early.

masterVars == <<master, masterStep, time, outputs>>
peerVars   == <<peer, peerStep, inputs>>
network    == <<toPeer, toMaster>>
history    == <<advanced, accepted>>
faults     == <<lost, duplicated, calm>>
vars       == <<masterVars, peerVars, network, history, faults>>

Packets == [type : {"Inputs", "Outputs", "Shutdown"}, step_index : 0 .. MaxPosts,
            time : 0 .. MaxTime]
Packet(type, step, t) == [type |-> type, step_index |-> step, time |-> t]

Init ==
  /\ master = "idle" /\ masterStep = 0 /\ time = 0 /\ outputs = Packet("Outputs", 0, 0)
  /\ peer = "wait" /\ peerStep = 0 /\ inputs = 0
  /\ toPeer = EmptyBag /\ toMaster = EmptyBag
  /\ advanced = 0 /\ accepted = 0 /\ lost = 0 /\ duplicated = 0 /\ calm = 1

With(bag, packet) == bag (+) SetToBag({packet})
Without(bag, packet) == bag (-) SetToBag({packet})

\* A receiver takes a datagram off the network, or one of two copies of it.
TakeFrom(bag, packet) ==
  /\ BagIn(packet, bag)
  /\ \/ bag' = Without(bag, packet) /\ UNCHANGED <<duplicated, calm>>
     \/ /\ duplicated < MaxDuplicates
        /\ duplicated' = duplicated + 1 /\ calm' = 0
        /\ UNCHANGED bag

\* No answer can come any more: a datagram was lost.
Blocked == toPeer = EmptyBag /\ toMaster = EmptyBag /\ peer \in {"wait", "late"}

(***************************************************************************)
(* The master.                                                             *)
(***************************************************************************)
SendInputs(t) ==
  /\ masterStep < MaxPosts
  /\ masterStep' = masterStep + 1
  /\ toPeer' = With(toPeer, Packet("Inputs", masterStep + 1, t))

PostInputs ==
  /\ master = "idle" /\ master' = "wait"
  /\ time < MaxTime
  /\ time' = time + 1
  /\ SendInputs(time + 1)
  /\ UNCHANGED <<outputs, peerVars, toMaster, history, faults>>

\* Seeded fault: the repeated step is counted but not sent.
PostInputsAgainUnsent ==
  /\ master = "late" /\ master' = "wait"
  /\ masterStep < MaxPosts
  /\ masterStep' = masterStep + 1
  /\ UNCHANGED <<time, outputs, peerVars, network, history, faults>>

\* The same call for the same time; it counts as a new step.
PostInputsAgain ==
  /\ master = "late" /\ master' = "wait"
  /\ SendInputs(time)
  /\ UNCHANGED <<time, outputs, peerVars, toMaster, history, faults>>

AcceptOutputs ==
  /\ master = "wait" /\ master' = "idle"
  /\ \E d \in BagToSet(toMaster) :
       /\ d.type = "Outputs"
       /\ TakeFrom(toMaster, d)
       /\ outputs' = d
  /\ accepted' = accepted + 1
  /\ UNCHANGED <<masterStep, time, peerVars, toPeer, advanced, lost>>

\* A wait may run out at any moment; it is early if the answer was still to come.
MasterTimesOut ==
  /\ master = "wait" /\ master' = "late"
  /\ calm' = IF Blocked THEN calm ELSE 0
  /\ UNCHANGED <<masterStep, time, outputs, peerVars, network, history, lost, duplicated>>

\* Once, and again while the peer does not react.
RequestShutdown ==
  /\ \/ master \in {"idle", "late"}
     \/ master = "over" /\ BagCardinality(toPeer) < MaxQueued /\ peer # "over"
  /\ master' = "over"
  /\ toPeer' = With(toPeer, Packet("Shutdown", masterStep, 0))
  /\ UNCHANGED <<masterStep, time, outputs, peerVars, toMaster, history, faults>>

Master == PostInputs \/ PostInputsAgain \/ AcceptOutputs \/ MasterTimesOut \/ RequestShutdown

(***************************************************************************)
(* The peer.                                                               *)
(***************************************************************************)
\* Seeded fault: the stamp of the received inputs is not kept.
ReceiveInputsUnstamped ==
  /\ peer = "wait" /\ peer' = "step"
  /\ \E d \in BagToSet(toPeer) :
       /\ d.type = "Inputs"
       /\ TakeFrom(toPeer, d)
       /\ inputs' = d.time
       /\ peerStep' = peerStep + 1
  /\ UNCHANGED <<masterVars, toMaster, history, lost>>

\* Seeded fault: the out-parameters are not filled in.
ReceiveInputsUnfilled ==
  /\ peer = "wait" /\ peer' = "step"
  /\ \E d \in BagToSet(toPeer) :
       /\ d.type = "Inputs"
       /\ TakeFrom(toPeer, d)
       /\ peerStep' = d.step_index
  /\ UNCHANGED <<masterVars, inputs, toMaster, history, lost>>

\* Seeded fault: the datagram is looked at but left in the socket.
ReceiveInputsPeeked ==
  /\ peer = "wait" /\ peer' = "step"
  /\ \E d \in BagToSet(toPeer) :
       /\ d.type = "Inputs"
       /\ inputs' = d.time
       /\ peerStep' = d.step_index
  /\ UNCHANGED <<masterVars, network, history, faults>>

ReceiveInputs ==
  /\ peer = "wait" /\ peer' = "step"
  /\ \E d \in BagToSet(toPeer) :
       /\ d.type = "Inputs"
       /\ TakeFrom(toPeer, d)
       /\ inputs' = d.time
       /\ peerStep' = d.step_index
  /\ UNCHANGED <<masterVars, toMaster, history, lost>>

\* Seeded fault: a shutdown is skipped like any other unexpected datagram.
ReceiveShutdownNever == FALSE /\ UNCHANGED vars

ReceiveShutdown ==
  /\ peer = "wait" /\ peer' = "over"
  /\ \E d \in BagToSet(toPeer) : d.type = "Shutdown" /\ TakeFrom(toPeer, d)
  /\ UNCHANGED <<masterVars, peerStep, inputs, toMaster, history, lost>>

AdvancePlant ==
  /\ peer = "step" /\ peer' = "post"
  /\ advanced' = advanced + 1
  /\ UNCHANGED <<masterVars, peerStep, inputs, network, accepted, faults>>

SendOutputs == toMaster' = With(toMaster, Packet("Outputs", peerStep, inputs))

PostOutputs ==
  /\ peer = "post" /\ peer' = "wait"
  /\ SendOutputs
  /\ UNCHANGED <<masterVars, peerStep, inputs, toPeer, history, faults>>

PeerTimesOut ==
  /\ peer = "wait" /\ peer' = "late"
  /\ UNCHANGED <<masterVars, peerStep, inputs, network, history, faults>>

\* The peer posts its last outputs again, or only waits again.
PostOutputsAgain ==
  /\ peer = "late" /\ peer' = "wait"
  /\ \/ /\ peerStep > 0 /\ BagCardinality(toMaster) < MaxQueued
        /\ SendOutputs
        /\ calm' = 0
     \/ UNCHANGED <<toMaster, calm>>
  /\ UNCHANGED <<masterVars, peerStep, inputs, toPeer, history, lost, duplicated>>

Peer == \/ ReceiveInputs \/ ReceiveShutdown \/ AdvancePlant \/ PostOutputs
        \/ PeerTimesOut \/ PostOutputsAgain

Lose ==
  /\ lost < MaxLosses
  /\ lost' = lost + 1
  /\ \/ /\ \E d \in BagToSet(toPeer) : toPeer' = Without(toPeer, d)
        /\ UNCHANGED toMaster
     \/ /\ \E d \in BagToSet(toMaster) : toMaster' = Without(toMaster, d)
        /\ UNCHANGED toPeer
  /\ UNCHANGED <<masterVars, peerVars, history, duplicated, calm>>

Next == Master \/ Peer \/ Lose

Spec == Init /\ [][Next]_vars

\* Both processes run, waits are finite, and what keeps being sent arrives;
\* losing is never forced.
FairSpec ==
  /\ Spec
  /\ WF_vars(PostInputsAgain \/ AcceptOutputs \/ MasterTimesOut)
  /\ WF_vars(master = "over" /\ RequestShutdown)
  /\ WF_vars(ReceiveInputs \/ AdvancePlant \/ PostOutputs \/ PostOutputsAgain)
  /\ SF_vars(ReceiveInputs) /\ SF_vars(ReceiveShutdown)

-----------------------------------------------------------------------------
\* Every local and every datagram has its declared type.
TypeOK ==
  /\ master \in {"idle", "wait", "late", "over"}
  /\ masterStep \in 0 .. MaxPosts /\ time \in 0 .. MaxTime /\ outputs \in Packets
  /\ peer \in {"wait", "late", "step", "post", "over"}
  /\ peerStep \in 0 .. MaxPosts /\ inputs \in 0 .. MaxTime
  /\ BagToSet(toPeer) \cup BagToSet(toMaster) \subseteq Packets
  /\ advanced \in Nat /\ accepted \in Nat
  /\ lost \in 0 .. MaxLosses /\ duplicated \in 0 .. MaxDuplicates /\ calm \in {0, 1}

\* The step index is "echoed back by the peer, letting either side notice a
\* stale or duplicate datagram": outputs that carry the master's present index
\* were computed from the inputs of its present time, and none are ahead of it.
\* The bridge does not look; this is what its caller could rely on if it did.
StampTellsTheStep ==
  \A d \in BagToSet(toMaster) \cup {outputs} :
    /\ d.step_index <= masterStep
    /\ d.step_index = masterStep => d.time = time

\* Outputs a wait returned are those of the step the master is in, losses and
\* retries included, as long as no wait runs out on an answer still to come and
\* no datagram arrives twice (wait_for_packet never compares the step index).
OutputsAreOfThisTime == master = "idle" /\ calm = 1 => outputs.time = time

\* All of it: what is on the wire or accepted is never taken for another step's.
StaleIsTold == TypeOK /\ StampTellsTheStep /\ OutputsAreOfThisTime

\* What the theorems of UdpBridgeProofs rest on. Datagrams go one way, and only
\* a master whose run is over has sent a shutdown.
BagOf(bag, packets) == IsABag(bag) /\ BagToSet(bag) \subseteq packets
Directions ==
  /\ BagOf(toPeer, {d \in Packets : d.type \in {"Inputs", "Shutdown"}})
  /\ BagOf(toMaster, {d \in Packets : d.type = "Outputs"})
  /\ outputs.type = "Outputs"
  /\ peer = "over" \/ (\E d \in BagToSet(toPeer) : d.type = "Shutdown") => master = "over"

\* The inputs under way and those the peer has kept are stamped like the outputs.
Stamped(step, t) == step <= masterStep /\ (step = masterStep => t = time)
InputsTellTheStep ==
  /\ \A d \in BagToSet(toPeer) : d.type = "Inputs" => Stamped(d.step_index, d.time)
  /\ Stamped(peerStep, inputs)

\* In a calm run the posted step is in one place at most.
OnlyToPeer ==
  /\ toPeer = SetToBag({Packet("Inputs", masterStep, time)}) /\ toMaster = EmptyBag
  /\ peer \in {"wait", "late"}
InThePeer ==
  /\ toPeer = EmptyBag /\ toMaster = EmptyBag
  /\ peer \in {"step", "post"} /\ peerStep = masterStep /\ inputs = time
OnlyToMaster ==
  /\ toPeer = EmptyBag /\ toMaster = SetToBag({Packet("Outputs", masterStep, time)})
  /\ peer \in {"wait", "late"}
OnePlace ==
  calm = 1 =>
    /\ master \in {"idle", "late"} => Blocked
    /\ master = "wait" => Blocked \/ OnlyToPeer \/ InThePeer \/ OnlyToMaster

\* And as long as nothing is lost either, it is counted where it is.
LossFree == calm = 1 /\ lost = 0
CountedInPlace ==
  LossFree =>
    /\ master = "idle" => advanced = time /\ accepted = time
    /\ master = "wait" =>
         /\ accepted + 1 = time /\ ~Blocked
         /\ advanced = IF OnlyToPeer \/ peer = "step" THEN accepted ELSE time
    /\ master # "late"
    /\ master = "over" =>
         /\ \A d \in BagToSet(toPeer) : d.type = "Shutdown"
         /\ toMaster = EmptyBag /\ peer \in {"wait", "late", "over"}

UdpInv ==
  /\ TypeOK /\ Directions
  /\ StampTellsTheStep /\ InputsTellTheStep
  /\ OutputsAreOfThisTime /\ OnePlace /\ CountedInPlace

\* Retrying the post is enough: a posted step whose datagrams are lost is
\* answered, unless the master ends the run or stops being patient.
StepIsAnswered ==
  (master = "wait" /\ calm = 1) ~> (master \in {"idle", "over"} \/ calm = 0)

\* A shutdown that is repeated until it shows effect reaches the peer, whatever
\* is lost, repeated or overtaken on the way.
ShutdownReachesPeer == (master = "over") ~> (peer = "over")

\* Until something is lost the calm bridge takes the steps of the lockstep only.
AsLockstep == INSTANCE Lockstep WITH
  posted <- time, advanced <- advanced, accepted <- accepted
LossFreeIsLockstep ==
  /\ AsLockstep!Init
  /\ [][calm' = 1 /\ lost' = 0 => AsLockstep!Next \/ UNCHANGED AsLockstep!vars]_vars
=============================================================================

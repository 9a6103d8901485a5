--------------------------- MODULE UdpBridgeProofs ---------------------------
(***************************************************************************)
(* Proofs about UdpBridge for every number of steps, posts, losses and     *)
(* duplicates: UdpInv is inductive, what is on the wire or accepted is     *)
(* never taken for another step's, and a calm bridge that loses nothing    *)
(* takes the steps of Lockstep only.                                       *)
(***************************************************************************)
EXTENDS UdpBridge, TLAPS

USE BoundsAssumption

(***************************************************************************)
(* Bags of datagrams: what one more or one less of them does.              *)
(***************************************************************************)
\* The bag without datagrams: no socket holds anything.
LEMMA NothingIn == BagOf(EmptyBag, {}) /\ BagToSet(EmptyBag) = {}
BY DEF BagOf, EmptyBag, SetToBag, BagToSet, IsABag

\* The bag of one datagram.
LEMMA OneIn ==
  ASSUME NEW packets, NEW packet \in packets
  PROVE  /\ BagOf(SetToBag({packet}), packets)
         /\ BagToSet(SetToBag({packet})) = {packet}
         /\ SetToBag({packet}) # EmptyBag
<1>1. BagToSet(SetToBag({packet})) = {packet}
  BY DEF BagToSet, SetToBag
<1>2. IsABag(SetToBag({packet}))
  BY DEF SetToBag, IsABag
<1>3. QED
  BY <1>1, <1>2, NothingIn DEF BagOf

\* Sending adds one datagram to those under way.
LEMMA Sending ==
  ASSUME NEW packets, NEW bag, BagOf(bag, packets), NEW packet \in packets
  PROVE  /\ BagOf(With(bag, packet), packets)
         /\ BagToSet(With(bag, packet)) = BagToSet(bag) \cup {packet}
<1> USE DEF With, SetToBag, (+)
<1>1. BagToSet(With(bag, packet)) = BagToSet(bag) \cup {packet}
  BY DEF BagToSet
<1>2. \A e \in BagToSet(bag) : bag[e] \in Nat /\ bag[e] > 0
  BY DEF BagOf, IsABag, BagToSet
<1>3. \A e \in BagToSet(With(bag, packet)) :
        With(bag, packet)[e] \in Nat /\ With(bag, packet)[e] > 0
  BY <1>2 DEF BagToSet
<1>4. IsABag(With(bag, packet))
  BY <1>3 DEF IsABag, BagToSet
<1>5. QED
  BY <1>1, <1>4 DEF BagOf

\* Sending into an empty network.
LEMMA SendingAlone == \A packet : With(EmptyBag, packet) = SetToBag({packet})
BY DEF With, EmptyBag, SetToBag, (+)

\* Receiving or losing takes one datagram away and brings none.
LEMMA Taking ==
  ASSUME NEW packets, NEW bag, BagOf(bag, packets), NEW packet \in BagToSet(bag)
  PROVE  /\ BagOf(Without(bag, packet), packets)
         /\ BagToSet(Without(bag, packet)) \subseteq BagToSet(bag)
<1> USE DEF Without, SetToBag, (-)
<1>1. BagToSet(Without(bag, packet)) \subseteq BagToSet(bag)
  BY DEF BagToSet
<1>2. \A e \in BagToSet(bag) : bag[e] \in Nat /\ bag[e] > 0
  BY DEF BagOf, IsABag, BagToSet
<1>3. \A e \in BagToSet(Without(bag, packet)) :
        Without(bag, packet)[e] \in Nat /\ Without(bag, packet)[e] > 0
  BY <1>2 DEF BagToSet
<1>4. IsABag(Without(bag, packet))
  BY <1>3 DEF IsABag, BagToSet
<1>5. QED
  BY <1>1, <1>4 DEF BagOf

\* Receiving or losing the only one.
LEMMA TakingTheLast == \A packet : Without(SetToBag({packet}), packet) = EmptyBag
BY DEF Without, EmptyBag, SetToBag, (-)

\* What a receive leaves in the socket is what was there or less.
Arrived(packets, bag, packet, left) ==
  /\ packet \in BagToSet(bag) /\ packet \in packets
  /\ BagOf(left, packets) /\ BagToSet(left) \subseteq BagToSet(bag)

\* What a receive of the peer's leaves in its socket,
LEMMA PeerTakes ==
  ASSUME NEW packets, BagOf(toPeer, packets), NEW d, TakeFrom(toPeer, d)
  PROVE  Arrived(packets, toPeer, d, toPeer')
BY Taking DEF TakeFrom, BagIn, BagOf, Arrived

\* and one of the master's in its own.
LEMMA MasterTakes ==
  ASSUME NEW packets, BagOf(toMaster, packets), NEW d, TakeFrom(toMaster, d)
  PROVE  Arrived(packets, toMaster, d, toMaster')
BY Taking DEF TakeFrom, BagIn, BagOf, Arrived

(***************************************************************************)
(* The datagrams and the stamps.                                           *)
(***************************************************************************)
PeerPackets == {d \in Packets : d.type \in {"Inputs", "Shutdown"}}
MasterPackets == {d \in Packets : d.type = "Outputs"}

\* A datagram put together from numbers within their bounds is one of its kind.
LEMMA PacketsMade ==
  ASSUME NEW step \in 0 .. MaxPosts, NEW t \in 0 .. MaxTime
  PROVE  /\ Packet("Inputs", step, t) \in PeerPackets
         /\ Packet("Shutdown", step, 0) \in PeerPackets
         /\ Packet("Outputs", step, t) \in MasterPackets
         /\ \A type : /\ Packet(type, step, t).type = type
                      /\ Packet(type, step, t).step_index = step
                      /\ Packet(type, step, t).time = t
BY DEF Packet, Packets, PeerPackets, MasterPackets

\* The types and the stamps, without what holds in calm runs only.
StampInv == TypeOK /\ Directions /\ StampTellsTheStep /\ InputsTellTheStep

\* No datagram has been sent, so none has a wrong stamp.
LEMMA InitStamps == Init => StampInv
<1> SUFFICES ASSUME Init PROVE StampInv
  OBVIOUS
<1>1. Packet("Outputs", 0, 0) \in MasterPackets
  BY PacketsMade
<1>2. BagOf(EmptyBag, PeerPackets) /\ BagOf(EmptyBag, MasterPackets)
  BY NothingIn DEF BagOf
<1>3. TypeOK
  BY <1>1, NothingIn DEF Init, TypeOK, MasterPackets
<1>4. Directions
  BY <1>1, <1>2, NothingIn DEF Init, Directions, MasterPackets, PeerPackets
<1>5. StampTellsTheStep /\ InputsTellTheStep
  BY PacketsMade, NothingIn DEF Init, StampTellsTheStep, InputsTellTheStep, Stamped
<1>6. QED
  BY <1>3, <1>4, <1>5 DEF StampInv

\* The steps of the master: a post moves its step on, so that everything stamped
\* before is older; a repeated post does so without moving the time.
LEMMA MasterKeepsStamps == StampInv /\ Master => StampInv'
<1> SUFFICES ASSUME StampInv, Master PROVE StampInv'
  OBVIOUS
<1>0. /\ BagOf(toPeer, PeerPackets) /\ BagOf(toMaster, MasterPackets)
      /\ masterStep \in 0 .. MaxPosts /\ time \in 0 .. MaxTime
      /\ peerStep \in 0 .. MaxPosts /\ inputs \in 0 .. MaxTime
      /\ outputs \in MasterPackets
  BY DEF StampInv, TypeOK, Directions, PeerPackets, MasterPackets
<1>1. \A d \in BagToSet(toPeer) \cup BagToSet(toMaster) \cup {outputs} :
        d \in Packets /\ d.step_index \in 0 .. MaxPosts /\ d.time \in 0 .. MaxTime
  BY <1>0 DEF BagOf, Packets, PeerPackets, MasterPackets
<1> USE DEF StampInv, TypeOK, Directions, StampTellsTheStep, InputsTellTheStep,
            Stamped, masterVars, peerVars, network, history, faults
<1>2. ASSUME NEW t \in 0 .. MaxTime, SendInputs(t), t = time \/ t = time + 1,
             time' = t, master' = "wait", master \in {"idle", "late"},
             UNCHANGED <<outputs, peerVars, toMaster, history, faults>>
      PROVE  StampInv'
  <2>1. masterStep + 1 \in 0 .. MaxPosts /\ masterStep' = masterStep + 1
    BY <1>0, <1>2 DEF SendInputs
  <2> DEFINE sent == Packet("Inputs", masterStep + 1, t)
  <2>2. /\ sent \in PeerPackets /\ sent.type = "Inputs"
        /\ sent.step_index = masterStep + 1 /\ sent.time = t
    BY <2>1, PacketsMade
  <2>3. /\ BagOf(toPeer', PeerPackets)
        /\ BagToSet(toPeer') = BagToSet(toPeer) \cup {sent}
    BY <1>0, <1>2, <2>2, Sending DEF SendInputs
  <2> HIDE DEF sent
  <2>4. TypeOK'
    BY <1>0, <1>2, <2>1, <2>2, <2>3 DEF BagOf, PeerPackets, MasterPackets
  <2>5. Directions'
    BY <1>0, <1>2, <2>2, <2>3 DEF PeerPackets, MasterPackets
  <2>6. (StampTellsTheStep /\ InputsTellTheStep)'
    BY <1>0, <1>1, <1>2, <2>1, <2>2, <2>3
  <2>7. QED
    BY <2>4, <2>5, <2>6
<1>3. CASE PostInputs
  <2>1. time + 1 \in 0 .. MaxTime /\ time' = time + 1 /\ SendInputs(time + 1)
    BY <1>0, <1>3 DEF PostInputs
  <2>2. master' = "wait" /\ UNCHANGED <<outputs, peerVars, toMaster, history, faults>>
    BY <1>3 DEF PostInputs
  <2>3. QED
    BY <1>2, <1>3, <2>1, <2>2 DEF PostInputs
<1>4. CASE PostInputsAgain
  BY <1>0, <1>2, <1>4 DEF PostInputsAgain
<1>5. CASE AcceptOutputs
  <2>1. PICK d : d \in BagToSet(toMaster) /\ TakeFrom(toMaster, d) /\ outputs' = d
    BY <1>5 DEF AcceptOutputs
  <2>2. Arrived(MasterPackets, toMaster, d, toMaster')
    BY <1>0, <2>1, MasterTakes
  <2>3. duplicated' \in 0 .. MaxDuplicates /\ calm' \in {0, 1}
    BY <2>1 DEF TakeFrom
  <2>4. TypeOK'
    BY <1>0, <1>5, <2>1, <2>2, <2>3 DEF AcceptOutputs, Arrived, BagOf, MasterPackets
  <2>5. Directions'
    BY <1>0, <1>5, <2>1, <2>2 DEF AcceptOutputs, Arrived, MasterPackets, PeerPackets
  <2>6. (StampTellsTheStep /\ InputsTellTheStep)'
    BY <1>5, <2>1, <2>2 DEF AcceptOutputs, Arrived
  <2>7. QED
    BY <2>4, <2>5, <2>6
<1>6. CASE MasterTimesOut
  BY <1>6 DEF MasterTimesOut
<1>7. CASE RequestShutdown
  <2> DEFINE sent == Packet("Shutdown", masterStep, 0)
  <2>1. sent \in PeerPackets /\ sent.type = "Shutdown"
    BY <1>0, PacketsMade
  <2>2. /\ BagOf(toPeer', PeerPackets)
        /\ BagToSet(toPeer') = BagToSet(toPeer) \cup {sent}
    BY <1>0, <1>7, <2>1, Sending DEF RequestShutdown
  <2> HIDE DEF sent
  <2>3. TypeOK'
    BY <1>0, <1>7, <2>1, <2>2 DEF RequestShutdown, BagOf, PeerPackets
  <2>4. Directions'
    BY <1>0, <1>7, <2>2 DEF RequestShutdown, PeerPackets, MasterPackets
  <2>5. (StampTellsTheStep /\ InputsTellTheStep)'
    BY <1>7, <2>1, <2>2 DEF RequestShutdown
  <2>6. QED
    BY <2>3, <2>4, <2>5
<1>8. QED
  BY <1>3, <1>4, <1>5, <1>6, <1>7 DEF Master

\* The steps of the peer: it keeps the stamp of the inputs it takes, and the
\* outputs it sends carry that stamp.
LEMMA PeerKeepsStamps == StampInv /\ Peer => StampInv'
<1> SUFFICES ASSUME StampInv, Peer PROVE StampInv'
  OBVIOUS
<1>0. /\ BagOf(toPeer, PeerPackets) /\ BagOf(toMaster, MasterPackets)
      /\ peerStep \in 0 .. MaxPosts /\ inputs \in 0 .. MaxTime
  BY DEF StampInv, TypeOK, Directions, PeerPackets, MasterPackets
<1> USE DEF StampInv, TypeOK, Directions, StampTellsTheStep, InputsTellTheStep,
            Stamped, masterVars, peerVars, network, history, faults
<1>1. ASSUME NEW d \in BagToSet(toPeer), TakeFrom(toPeer, d)
      PROVE  /\ Arrived(PeerPackets, toPeer, d, toPeer')
             /\ duplicated' \in 0 .. MaxDuplicates /\ calm' \in {0, 1}
             /\ d.step_index \in 0 .. MaxPosts /\ d.time \in 0 .. MaxTime
  <2>1. Arrived(PeerPackets, toPeer, d, toPeer')
    BY <1>0, <1>1, PeerTakes
  <2>2. duplicated' \in 0 .. MaxDuplicates /\ calm' \in {0, 1}
    BY <1>1 DEF TakeFrom
  <2>3. QED
    BY <2>1, <2>2 DEF Arrived, PeerPackets, Packets
<1>2. ASSUME SendOutputs
      PROVE  /\ BagOf(toMaster', MasterPackets)
             /\ BagToSet(toMaster') =
                  BagToSet(toMaster) \cup {Packet("Outputs", peerStep, inputs)}
             /\ Packet("Outputs", peerStep, inputs) \in MasterPackets
             /\ Packet("Outputs", peerStep, inputs).step_index = peerStep
             /\ Packet("Outputs", peerStep, inputs).time = inputs
  <2>1. Packet("Outputs", peerStep, inputs) \in MasterPackets
    BY <1>0, PacketsMade
  <2>2. /\ Packet("Outputs", peerStep, inputs).step_index = peerStep
        /\ Packet("Outputs", peerStep, inputs).time = inputs
    BY DEF Packet
  <2>3. QED
    BY <1>0, <1>2, <2>1, <2>2, Sending DEF SendOutputs
<1>3. CASE ReceiveInputs
  <2>1. PICK d \in BagToSet(toPeer) : /\ d.type = "Inputs" /\ TakeFrom(toPeer, d)
                                     /\ inputs' = d.time /\ peerStep' = d.step_index
    BY <1>3 DEF ReceiveInputs
  <2>2. TypeOK'
    BY <1>1, <1>3, <2>1 DEF ReceiveInputs, Arrived, BagOf, PeerPackets
  <2>3. Directions'
    BY <1>0, <1>1, <1>3, <2>1 DEF ReceiveInputs, Arrived, PeerPackets, MasterPackets
  <2>4. (StampTellsTheStep /\ InputsTellTheStep)'
    BY <1>1, <1>3, <2>1 DEF ReceiveInputs, Arrived
  <2>5. QED
    BY <2>2, <2>3, <2>4
<1>4. CASE ReceiveShutdown
  <2>1. PICK d \in BagToSet(toPeer) : d.type = "Shutdown" /\ TakeFrom(toPeer, d)
    BY <1>4 DEF ReceiveShutdown
  <2>2. TypeOK'
    BY <1>1, <1>4, <2>1 DEF ReceiveShutdown, Arrived, BagOf, PeerPackets
  <2>3. Directions'
    BY <1>0, <1>1, <1>4, <2>1 DEF ReceiveShutdown, Arrived, PeerPackets, MasterPackets
  <2>4. (StampTellsTheStep /\ InputsTellTheStep)'
    BY <1>1, <1>4, <2>1 DEF ReceiveShutdown, Arrived
  <2>5. QED
    BY <2>2, <2>3, <2>4
<1>5. CASE AdvancePlant
  BY <1>5 DEF AdvancePlant
<1>6. ASSUME SendOutputs, peer \in {"post", "late"}, peer' = "wait", calm' \in {0, calm},
             UNCHANGED <<masterVars, peerStep, inputs, toPeer, history, lost, duplicated>>
      PROVE  StampInv'
  <2>1. TypeOK'
    BY <1>2, <1>6 DEF BagOf, MasterPackets
  <2>2. Directions'
    BY <1>0, <1>2, <1>6 DEF PeerPackets, MasterPackets
  <2>3. (StampTellsTheStep /\ InputsTellTheStep)'
    BY <1>2, <1>6
  <2>4. QED
    BY <2>1, <2>2, <2>3
<1>7. CASE PostOutputs
  BY <1>6, <1>7 DEF PostOutputs
<1>8. CASE PeerTimesOut
  BY <1>8 DEF PeerTimesOut
<1>9. CASE PostOutputsAgain
  BY <1>6, <1>9 DEF PostOutputsAgain
<1>10. QED
  BY <1>3, <1>4, <1>5, <1>7, <1>8, <1>9 DEF Peer

\* The network loses a datagram: those that are left were there before.
LEMMA LossKeepsStamps == StampInv /\ Lose => StampInv'
<1> SUFFICES ASSUME StampInv, Lose PROVE StampInv'
  OBVIOUS
<1>1. BagOf(toPeer, PeerPackets) /\ BagOf(toMaster, MasterPackets)
  BY DEF StampInv, Directions, PeerPackets, MasterPackets
<1>2. /\ BagOf(toPeer', PeerPackets) /\ BagToSet(toPeer') \subseteq BagToSet(toPeer)
      /\ BagOf(toMaster', MasterPackets) /\ BagToSet(toMaster') \subseteq BagToSet(toMaster)
  BY <1>1, Taking DEF Lose
<1> USE DEF StampInv, masterVars, peerVars, history
<1>3. TypeOK'
  BY <1>2 DEF Lose, TypeOK, BagOf, PeerPackets, MasterPackets
<1>4. Directions'
  BY <1>2 DEF Lose, Directions, PeerPackets, MasterPackets
<1>5. (StampTellsTheStep /\ InputsTellTheStep)'
  BY <1>2 DEF Lose, StampTellsTheStep, InputsTellTheStep, Stamped
<1>6. QED
  BY <1>3, <1>4, <1>5

(***************************************************************************)
(* Calm runs: the posted step is in one place, and counted there.          *)
(***************************************************************************)
\* What the places of a step say of the two bags.
LEMMA Singles ==
  \A packet : /\ With(EmptyBag, packet) = SetToBag({packet})
              /\ Without(SetToBag({packet}), packet) = EmptyBag
              /\ BagToSet(SetToBag({packet})) = {packet}
              /\ SetToBag({packet}) # EmptyBag
              /\ BagToSet(EmptyBag) = {}
BY SendingAlone, TakingTheLast, NothingIn, OneIn

\* A run that is calm and free of losses has been so before: nothing that
\* happens makes up for a datagram that came twice or was lost.
LEMMA CalmBefore ==
  StampInv /\ [Next]_vars =>
    /\ calm' = 1 => calm = 1
    /\ lost' = 0 => lost = 0
<1> SUFFICES ASSUME StampInv, [Next]_vars
             PROVE  (calm' = 1 => calm = 1) /\ (lost' = 0 => lost = 0)
  OBVIOUS
<1> USE DEF masterVars, peerVars, network, history, faults
<1>1. lost \in 0 .. MaxLosses
  BY DEF StampInv, TypeOK
<1>2. CASE Master
  BY <1>2 DEF Master, PostInputs, PostInputsAgain, AcceptOutputs, MasterTimesOut,
              RequestShutdown, TakeFrom
<1>3. CASE Peer
  BY <1>3 DEF Peer, ReceiveInputs, ReceiveShutdown, AdvancePlant, PostOutputs,
              PeerTimesOut, PostOutputsAgain, TakeFrom
<1>4. CASE Lose
  BY <1>1, <1>4 DEF Lose
<1>5. CASE UNCHANGED vars
  BY <1>5 DEF vars
<1>6. QED
  BY <1>2, <1>3, <1>4, <1>5 DEF Next

CalmInv == OutputsAreOfThisTime /\ OnePlace /\ CountedInPlace

\* Nothing is on its way before the first step, in any place.
LEMMA InitCalm == Init => CalmInv
BY PacketsMade DEF Init, CalmInv, OutputsAreOfThisTime, OnePlace, CountedInPlace, Blocked,
                   LossFree

\* The master. When it posts, its step is nowhere; when it accepts, the outputs
\* are the one datagram there is, and they are of the step it posted.
LEMMA MasterKeepsCalm == StampInv /\ CalmInv /\ Master => CalmInv'
<1> SUFFICES ASSUME StampInv, CalmInv, Master, calm' = 1 PROVE CalmInv'
  BY DEF CalmInv, OutputsAreOfThisTime, OnePlace, CountedInPlace, LossFree
<1>0. calm = 1 /\ (lost' = 0 => lost = 0)
  BY CalmBefore DEF Next
<1>1. /\ time \in Nat /\ masterStep \in Nat /\ advanced \in Nat /\ accepted \in Nat
      /\ (\E d \in BagToSet(toPeer) : d.type = "Shutdown") => master = "over"
  BY DEF StampInv, TypeOK, Directions
<1> USE DEF CalmInv, OutputsAreOfThisTime, OnePlace, CountedInPlace, LossFree, Blocked,
            OnlyToPeer, InThePeer, OnlyToMaster,
            masterVars, peerVars, network, history, faults
<1>2. CASE PostInputs
  <2>1. toPeer' = SetToBag({Packet("Inputs", masterStep', time')})
    BY <1>0, <1>2, Singles DEF PostInputs, SendInputs
  <2>2. QED
    BY <1>0, <1>1, <1>2, <2>1, Singles DEF PostInputs, SendInputs
<1>3. CASE PostInputsAgain
  <2>1. toPeer' = SetToBag({Packet("Inputs", masterStep', time')})
    BY <1>0, <1>3, Singles DEF PostInputsAgain, SendInputs
  <2>2. QED
    BY <1>0, <1>1, <1>3, <2>1, Singles DEF PostInputsAgain, SendInputs
<1>4. CASE AcceptOutputs
  <2>1. PICK d : d \in BagToSet(toMaster) /\ toMaster' = Without(toMaster, d) /\ outputs' = d
    BY <1>0, <1>4 DEF AcceptOutputs, TakeFrom
  <2>2. OnlyToMaster
    BY <1>0, <1>4, <2>1, Singles DEF AcceptOutputs
  <2>3. d = Packet("Outputs", masterStep, time) /\ toMaster' = EmptyBag
    BY <2>1, <2>2, Singles
  <2>4. outputs'.time = time
    BY <2>1, <2>3 DEF Packet
  <2>5. QED
    BY <1>0, <1>1, <1>4, <2>2, <2>3, <2>4, Singles DEF AcceptOutputs
<1>5. CASE MasterTimesOut
  BY <1>0, <1>1, <1>5, Singles DEF MasterTimesOut
<1>6. CASE RequestShutdown
  <2> DEFINE sent == Packet("Shutdown", masterStep, 0)
  <2>1. BagToSet(toPeer') = BagToSet(toPeer) \cup {sent} /\ sent.type = "Shutdown"
    <3>1. sent.type = "Shutdown" /\ sent \in PeerPackets /\ BagOf(toPeer, PeerPackets)
      BY PacketsMade DEF StampInv, TypeOK, Directions, PeerPackets
    <3>2. QED
      BY <1>6, <3>1, Sending DEF RequestShutdown
  <2> HIDE DEF sent
  <2>2. QED
    BY <1>0, <1>1, <1>6, <2>1, Singles DEF RequestShutdown
<1>7. QED
  BY <1>2, <1>3, <1>4, <1>5, <1>6 DEF Master

\* The peer: it takes the one request, steps once and sends one answer.
LEMMA PeerKeepsCalm == StampInv /\ CalmInv /\ Peer => CalmInv'
<1> SUFFICES ASSUME StampInv, CalmInv, Peer, calm' = 1 PROVE CalmInv'
  BY DEF CalmInv, OutputsAreOfThisTime, OnePlace, CountedInPlace, LossFree
<1>0. calm = 1 /\ (lost' = 0 => lost = 0)
  BY CalmBefore DEF Next
<1>1. /\ time \in Nat /\ masterStep \in Nat /\ advanced \in Nat /\ accepted \in Nat
      /\ (\E d \in BagToSet(toPeer) : d.type = "Shutdown") => master = "over"
      /\ master \in {"idle", "wait", "late", "over"}
      /\ peer = "over" => master = "over"
      /\ BagOf(toPeer, PeerPackets)
  BY DEF StampInv, TypeOK, Directions, PeerPackets
<1> USE DEF CalmInv, OutputsAreOfThisTime, OnePlace, CountedInPlace, LossFree, Blocked,
            OnlyToPeer, InThePeer, OnlyToMaster,
            masterVars, peerVars, network, history, faults
<1>2. CASE ReceiveInputs
  <2>1. PICK d : /\ d \in BagToSet(toPeer) /\ d.type = "Inputs" /\ toPeer' = Without(toPeer, d)
                 /\ inputs' = d.time /\ peerStep' = d.step_index
    BY <1>0, <1>2 DEF ReceiveInputs, TakeFrom
  <2>2. CASE master = "wait"
    <3>1. OnlyToPeer
      BY <1>0, <1>2, <2>1, <2>2, Singles DEF ReceiveInputs
    <3>2. d = Packet("Inputs", masterStep, time) /\ toPeer' = EmptyBag
      <4>1. toPeer = SetToBag({Packet("Inputs", masterStep, time)})
        BY <3>1
      <4>2. d = Packet("Inputs", masterStep, time)
        BY <2>1, <4>1, Singles
      <4>3. QED
        BY <2>1, <4>1, <4>2, Singles
    <3>3. inputs' = time /\ peerStep' = masterStep
      BY <2>1, <3>2 DEF Packet
    <3>4. QED
      BY <1>0, <1>1, <1>2, <2>2, <3>1, <3>2, <3>3, Singles DEF ReceiveInputs
  <2>3. CASE master # "wait"
    <3>1. master = "over"
      BY <1>0, <1>1, <2>1, <2>3, Singles
    <3>2. QED
      BY <1>0, <1>2, <2>1, <3>1 DEF ReceiveInputs
  <2>4. QED
    BY <2>2, <2>3
<1>3. CASE ReceiveShutdown
  <2>1. PICK d : /\ d \in BagToSet(toPeer) /\ d.type = "Shutdown" /\ TakeFrom(toPeer, d)
    BY <1>3 DEF ReceiveShutdown
  <2>2. BagToSet(toPeer') \subseteq BagToSet(toPeer)
    BY <1>1, <2>1, PeerTakes DEF Arrived
  <2>3. QED
    BY <1>0, <1>1, <1>3, <2>1, <2>2 DEF ReceiveShutdown
<1>4. CASE AdvancePlant
  BY <1>0, <1>1, <1>4, Singles DEF AdvancePlant
<1>5. CASE PostOutputs
  <2>1. CASE master = "wait"
    <3>1. InThePeer
      BY <1>0, <1>5, <2>1 DEF PostOutputs
    <3>2. toMaster' = SetToBag({Packet("Outputs", masterStep, time)})
      BY <1>5, <3>1, Singles DEF PostOutputs, SendOutputs
    <3>3. QED
      BY <1>0, <1>1, <1>5, <2>1, <3>1, <3>2, Singles DEF PostOutputs
  <2>2. CASE master # "wait"
    BY <1>0, <1>1, <1>5, <2>2 DEF PostOutputs
  <2>3. QED
    BY <2>1, <2>2
<1>6. CASE PeerTimesOut
  BY <1>0, <1>1, <1>6, Singles DEF PeerTimesOut
<1>7. CASE PostOutputsAgain
  BY <1>0, <1>1, <1>7, Singles DEF PostOutputsAgain
<1>8. QED
  BY <1>2, <1>3, <1>4, <1>5, <1>6, <1>7 DEF Peer

\* A loss leaves the step nowhere; it is in one place at most as before.
LEMMA LossKeepsCalm == StampInv /\ CalmInv /\ Lose => CalmInv'
<1> SUFFICES ASSUME StampInv, CalmInv, Lose, calm' = 1 PROVE CalmInv'
  BY DEF CalmInv, OutputsAreOfThisTime, OnePlace, CountedInPlace, LossFree
<1>1. calm = 1 /\ lost' # 0
  BY DEF Lose, StampInv, TypeOK
<1>2. /\ BagToSet(toPeer) = {} => UNCHANGED toPeer
      /\ BagToSet(toMaster) = {} => UNCHANGED toMaster
      /\ \A d : toPeer = SetToBag({d}) => toPeer' \in {toPeer, EmptyBag}
      /\ \A d : toMaster = SetToBag({d}) => toMaster' \in {toMaster, EmptyBag}
  BY Singles DEF Lose
<1> USE DEF CalmInv, OutputsAreOfThisTime, OnePlace, CountedInPlace, LossFree, Blocked,
            OnlyToPeer, InThePeer, OnlyToMaster, masterVars, peerVars, history
<1>3. QED
  BY <1>1, <1>2, Singles DEF Lose

(***************************************************************************)
(* The theorems.                                                           *)
(***************************************************************************)
\* The inductive invariant: which datagrams may be where, what their stamps say,
\* and, in a calm run, the one place the posted step is in.
THEOREM UdpInvariant == Spec => []UdpInv
<1>1. Init => StampInv /\ CalmInv
  BY InitStamps, InitCalm
<1>2. StampInv /\ CalmInv /\ [Next]_vars => StampInv' /\ CalmInv'
  <2>1. StampInv /\ CalmInv /\ UNCHANGED vars => StampInv' /\ CalmInv'
    BY DEF StampInv, TypeOK, Directions, StampTellsTheStep, InputsTellTheStep, Stamped,
           CalmInv, OutputsAreOfThisTime, OnePlace, CountedInPlace, LossFree, Blocked,
           OnlyToPeer, InThePeer, OnlyToMaster,
           vars, masterVars, peerVars, network, history, faults
  <2>2. QED
    BY <2>1, MasterKeepsStamps, PeerKeepsStamps, LossKeepsStamps,
       MasterKeepsCalm, PeerKeepsCalm, LossKeepsCalm DEF Next
<1>3. StampInv /\ CalmInv => UdpInv
  BY DEF UdpInv, StampInv, CalmInv
<1>4. QED
  BY <1>1, <1>2, <1>3, PTL DEF Spec

\* Outputs on the wire or accepted are of the master's present time when they
\* carry its present step index, and those accepted are in a calm run, whatever
\* the network loses and however often a step is posted again.
THEOREM StaleOutputsAreTold == Spec => []StaleIsTold
<1>1. UdpInv => StaleIsTold
  BY DEF UdpInv, StaleIsTold
<1>2. QED
  BY <1>1, UdpInvariant, PTL

\* One step of a calm bridge that has lost nothing is one of the lockstep, or
\* none: post_inputs() posts, the peer's step advances, wait_for_outputs() accepts.
LEMMA StepIsLockstep ==
  UdpInv /\ [Next]_vars /\ calm' = 1 /\ lost' = 0 => AsLockstep!Next \/ UNCHANGED AsLockstep!vars
<1> SUFFICES ASSUME UdpInv, [Next]_vars, calm' = 1, lost' = 0
             PROVE  AsLockstep!Next \/ UNCHANGED AsLockstep!vars
  OBVIOUS
<1>0. StampInv
  BY DEF UdpInv, StampInv
<1>1. LossFree
  BY <1>0, CalmBefore DEF LossFree
<1>2. /\ time \in Nat /\ advanced \in Nat /\ accepted \in Nat
      /\ master \in {"idle", "wait", "late", "over"}
  BY DEF UdpInv, TypeOK
<1> USE <1>1 DEF UdpInv, OnePlace, CountedInPlace, LossFree, Blocked, OnlyToPeer, InThePeer,
                 OnlyToMaster, AsLockstep!vars, AsLockstep!Next, AsLockstep!PostStep,
                 AsLockstep!Advance, AsLockstep!Accept,
                 masterVars, peerVars, network, history, faults
<1>3. CASE PostInputs
  BY <1>2, <1>3 DEF PostInputs
<1>4. CASE AcceptOutputs
  <2>1. toMaster # EmptyBag
    BY <1>4, Singles DEF AcceptOutputs
  <2>2. QED
    BY <1>2, <1>4, <2>1, Singles DEF AcceptOutputs
<1>5. CASE AdvancePlant
  BY <1>2, <1>5, Singles DEF AdvancePlant
<1>6. CASE PostInputsAgain \/ MasterTimesOut \/ RequestShutdown
  BY <1>6 DEF PostInputsAgain, MasterTimesOut, RequestShutdown
<1>7. CASE ReceiveInputs \/ ReceiveShutdown \/ PostOutputs \/ PeerTimesOut \/ PostOutputsAgain
  BY <1>7 DEF ReceiveInputs, ReceiveShutdown, PostOutputs, PeerTimesOut, PostOutputsAgain
<1>8. CASE Lose \/ UNCHANGED vars
  BY <1>8 DEF Lose, vars
<1>9. QED
  BY <1>3, <1>4, <1>5, <1>6, <1>7, <1>8 DEF Next, Master, Peer

\* Until the network loses or repeats a datagram, or a wait runs out early, the
\* datagram bridge implements the lockstep that the shared-memory bridge
\* implements whatever times out.
THEOREM CalmIsLockstep == Spec => LossFreeIsLockstep
<1>1. Init => AsLockstep!Init
  BY DEF Init, AsLockstep!Init
<1>2. UdpInv /\ [Next]_vars =>
        [calm' = 1 /\ lost' = 0 => AsLockstep!Next \/ UNCHANGED AsLockstep!vars]_vars
  BY StepIsLockstep
<1>3. QED
  BY <1>1, <1>2, UdpInvariant, PTL DEF Spec, LossFreeIsLockstep
=============================================================================

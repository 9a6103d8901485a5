---------------------------- MODULE I2cTcpBridge -----------------------------
(***************************************************************************)
(* The I2C peripheral inside the emulator and the bridge process it talks  *)
(* to over TCP: HemerionI2cBridge.cs turns the emulated controller's       *)
(* writes and reads into requests, i2c_shm_tcp_bridge serves them one      *)
(* after the other on the shared-memory bus.                               *)
(*                                                                         *)
(* A connection is two streams, one element of which is a header, a block  *)
(* of write bytes, a result or a block of read bytes.  A piece carries the *)
(* number of the transfer it is framed for; an answer also that of the     *)
(* transfer whose walk on the bus it tells of, which is an earlier one     *)
(* when the part was still at a call the bridge had given up.              *)
(***************************************************************************)
EXTENDS Naturals, Sequences

CONSTANTS
  MaxTransfers,   \* Transfers the firmware makes. Bounds the model.
  MaxConnections  \* Connections the peripheral opens. Bounds the model.

VARIABLES
  \* The emulated peripheral: what has been written since the last transfer, the
  \* transfer it waits for (or none), the connection it has (or none), what the
  \* firmware was given last, transfers and connections so far.
  pendingWrite, waiting, client, given, transfers, connections,
  \* Per connection: requests and responses on their way, whether the client's
  \* end is still open.
  requests, responses, open,
  \* The bridge: the connection it serves (or none), the request it is at, and
  \* what the transaction on the bus made of it; whether the part is there, the call
  \* it is still at although the bridge gave it up (or none), and all given up so far.
  serving, at, header, result, present, bus
peripheral == <<pendingWrite, waiting, client, given, transfers, connections>>
wire == <<requests, responses, open>>
bridge == <<serving, at, header, result, present, bus>>
vars == <<peripheral, wire, bridge>>

None == 0
Idle == [id |-> None, writes |-> FALSE, reads |-> FALSE, long |-> FALSE]
Floating == [id |-> None, of |-> None, ok |-> FALSE]  \* 0xFF bytes, as an undriven bus reads.

Connections == 1 .. MaxConnections

Init ==
  /\ pendingWrite = FALSE /\ waiting = Idle /\ client = None
  /\ given = Floating /\ transfers = 0 /\ connections = 0
  /\ requests = [c \in Connections |-> <<>>] /\ responses = [c \in Connections |-> <<>>]
  /\ open = [c \in Connections |-> FALSE]
  /\ serving = None /\ at = "accept" /\ header = Idle /\ present = TRUE
  /\ result = [code |-> "none", of |-> None]
  /\ bus = [late |-> None, abandoned |-> {}]

(***************************************************************************)
(* The peripheral in the emulator.                                         *)
(***************************************************************************)
Write ==
  /\ waiting = Idle /\ ~pendingWrite
  /\ pendingWrite' = TRUE
  /\ UNCHANGED <<waiting, client, given, transfers, connections, wire, bridge>>

Disconnect ==
  /\ client' = None
  /\ open' = IF client = None THEN open ELSE [open EXCEPT ![client] = FALSE]

\* Without a connection one is opened; the listener's backlog takes it even while
\* the bridge serves another. Once the bridge has exited nothing answers.
EnsureConnected ==
  \/ client # None /\ UNCHANGED <<client, connections, open>>
  \/ /\ client = None /\ at # "exited" /\ connections < MaxConnections
     /\ connections' = connections + 1 /\ client' = connections'
     /\ open' = [open EXCEPT ![client'] = TRUE]

\* The request is written in one piece: the header, then the bytes accumulated.
Piece(kind, r) == [kind |-> kind, of |-> r]
Request(r) == IF r.writes THEN <<Piece("header", r), Piece("bytes", r)>>
                          ELSE <<Piece("header", r)>>

Transact(reads) ==
  /\ waiting = Idle /\ transfers < MaxTransfers
  /\ EnsureConnected
  /\ transfers' = transfers + 1
  /\ \E long \in BOOLEAN :
       LET r == [id |-> transfers', writes |-> pendingWrite, reads |-> reads, long |-> long]
       IN  /\ waiting' = r
           /\ requests' = [requests EXCEPT ![client'] = @ \o Request(r)]
  /\ pendingWrite' = FALSE
  /\ UNCHANGED <<given, responses, bridge>>

\* Read() carries the accumulated bytes along; FinishTransmission() sends them
\* alone if there are any.
Read == Transact(TRUE)
FinishTransmission == pendingWrite /\ Transact(FALSE)

\* No bridge: the transfer floats at once.
CannotConnect ==
  /\ waiting = Idle /\ client = None /\ transfers < MaxTransfers
  /\ transfers' = transfers + 1 /\ given' = Floating /\ pendingWrite' = FALSE
  /\ UNCHANGED <<waiting, client, connections, wire, bridge>>

\* The answer: a result, followed by the read bytes if it is 0 and bytes were
\* asked for.
Answer == responses[client]
AnswerLength == IF Answer[1].ok /\ waiting.reads THEN 2 ELSE 1
ReceiveAnswer ==
  /\ waiting # Idle
  /\ Answer # <<>> /\ Len(Answer) >= AnswerLength
  /\ given' = [Answer[AnswerLength] EXCEPT !.ok = Answer[1].ok]
  /\ responses' = [responses EXCEPT ![client] = SubSeq(@, AnswerLength + 1, Len(@))]
  /\ waiting' = Idle
  /\ UNCHANGED <<pendingWrite, client, transfers, connections, requests, open, bridge>>

\* Seeded fault: a read that timed out keeps the connection for the next one.
LoseAnswerConnected ==
  /\ waiting # Idle
  /\ waiting' = Idle /\ given' = Floating
  /\ UNCHANGED <<client, open, pendingWrite, transfers, connections, requests, responses, bridge>>

\* The receive timeout, or a connection lost: log, disconnect, float.
LoseAnswer ==
  /\ waiting # Idle
  /\ waiting' = Idle /\ given' = Floating
  /\ Disconnect
  /\ UNCHANGED <<pendingWrite, transfers, connections, requests, responses, bridge>>

\* A machine reset, between transfers.
ResetMachine ==
  /\ waiting = Idle /\ client # None
  /\ pendingWrite' = FALSE
  /\ Disconnect
  /\ UNCHANGED <<waiting, given, transfers, connections, requests, responses, bridge>>

(***************************************************************************)
(* The bridge.                                                             *)
(***************************************************************************)
Incoming == requests[serving]
Consume == requests' = [requests EXCEPT ![serving] = Tail(@)]
\* send() to a client that has closed may still succeed.
Reply(r, of, ok) == [id |-> r.id, of |-> of, ok |-> ok]
SendResult(of, ok) ==
  responses' = [responses EXCEPT ![serving] = Append(@, Reply(header, of, ok))]

\* accept(): connections are taken in the order they were made.
Accept ==
  /\ at = "accept" /\ serving < connections
  /\ serving' = serving + 1 /\ at' = "header"
  /\ UNCHANGED <<header, result, present, bus, wire, peripheral>>

\* recv() returns 0 once everything the client sent has been read.
ClientGone ==
  /\ at \in {"header", "bytes", "drain"} /\ Incoming = <<>> /\ ~open[serving]
  /\ at' = "accept"
  /\ UNCHANGED <<serving, header, result, present, bus, wire, peripheral>>

\* Five bytes are a header, whatever they were meant to be; bytes that were not
\* read as payload pass for a transfer nobody made.
HeaderIn(item) == IF item.kind = "header" THEN item.of ELSE [Idle EXCEPT !.reads = TRUE]

\* Seeded fault: the bytes of a request too long for the bus are not drained.
ReceiveHeaderUndrained ==
  /\ at = "header" /\ Incoming # <<>>
  /\ header' = HeaderIn(Head(Incoming))
  /\ Consume
  /\ at' = IF header'.long THEN "refuse" ELSE IF header'.writes THEN "bytes" ELSE "transact"
  /\ UNCHANGED <<serving, result, present, bus, responses, open, peripheral>>

ReceiveHeader ==
  /\ at = "header" /\ Incoming # <<>>
  /\ header' = HeaderIn(Head(Incoming))
  /\ Consume
  /\ at' = IF header'.long THEN IF header'.writes THEN "drain" ELSE "refuse"
           ELSE IF header'.writes THEN "bytes" ELSE "transact"
  /\ UNCHANGED <<serving, result, present, bus, responses, open, peripheral>>

\* A phase longer than the bus carries: the write bytes are read and dropped.
Drain ==
  /\ at = "drain" /\ Incoming # <<>>
  /\ Consume /\ at' = "refuse"
  /\ UNCHANGED <<serving, header, result, present, bus, responses, open, peripheral>>

Refuse ==
  /\ at = "refuse"
  /\ SendResult(header.id, FALSE) /\ at' = "header"
  /\ UNCHANGED <<serving, header, result, present, bus, requests, open, peripheral>>

ReceiveBytes ==
  /\ at = "bytes" /\ Incoming # <<>>
  /\ Consume /\ at' = "transact"
  /\ UNCHANGED <<serving, header, result, present, bus, responses, open, peripheral>>

\* The transaction on the shared-memory bus.  The part walks the call and completes
\* it, finished with any the bridge had given up;
Walked ==
  /\ present
  /\ \E code \in {"Ok", "Nack"} : result' = [code |-> code, of |-> header.id]
  /\ bus' = [bus EXCEPT !.late = None]

\* or it completes the one it was still at, over the call just posted, which takes
\* that for its own completion and is itself never walked: a mixture of the bytes of
\* the two is told apart no further than that;
Overtaken ==
  /\ present /\ bus.late # None
  /\ \E code \in {"Ok", "Nack"} : result' = [code |-> code, of |-> bus.late]
  /\ bus' = [bus EXCEPT !.late = None]

\* or the call times out and is left posted, with the part at it, still at the one
\* before, or at neither;
TimesOut ==
  /\ present
  /\ result' = [code |-> "BusFault", of |-> header.id]
  /\ \E late \in {None, bus.late, header.id} :
       bus' = [late |-> late, abandoned |-> bus.abandoned \cup {header.id}]

\* or the part is gone, and the bus faults at once.
PeripheralDown ==
  /\ ~present
  /\ result' = [code |-> "BusFault", of |-> header.id]
  /\ UNCHANGED bus

TransactOnBus ==
  /\ at = "transact"
  /\ Walked \/ Overtaken \/ TimesOut \/ PeripheralDown
  /\ at' = "answer"
  /\ UNCHANGED <<serving, header, present, wire, peripheral>>

\* The result code is sent, then the read bytes if it is 0; a bus fault is answered
\* like any other code, and the next request is served.
SendAnswer ==
  /\ at = "answer"
  /\ SendResult(result.of, result.code = "Ok")
  /\ at' = IF result.code = "Ok" /\ header.reads THEN "answerBytes" ELSE "served"
  /\ UNCHANGED <<serving, header, result, present, bus, requests, open, peripheral>>

SendReadBytes ==
  /\ at = "answerBytes"
  /\ SendResult(result.of, TRUE)
  /\ at' = "served"
  /\ UNCHANGED <<serving, header, result, present, bus, requests, open, peripheral>>

\* A send that fails ends the connection; one to a closed client may.
SendFails ==
  /\ at \in {"refuse", "answer", "answerBytes"} /\ ~open[serving]
  /\ at' = "accept"
  /\ UNCHANGED <<serving, header, result, present, bus, wire, peripheral>>

\* A bus fault with the peripheral gone for good ends the bridge.
Served ==
  /\ at = "served"
  /\ at' = IF result.code = "BusFault" /\ ~present THEN "exited" ELSE "header"
  /\ open' = IF at' = "exited" THEN [c \in Connections |-> FALSE] ELSE open
  /\ UNCHANGED <<serving, header, result, present, bus, requests, responses, peripheral>>

PowerDown ==
  /\ present /\ present' = FALSE
  /\ UNCHANGED <<serving, at, header, result, bus, wire, peripheral>>

Next ==
  \/ Write \/ Read \/ FinishTransmission \/ CannotConnect
  \/ ReceiveAnswer \/ LoseAnswer \/ ResetMachine
  \/ Accept \/ ClientGone \/ ReceiveHeader \/ Drain \/ Refuse \/ ReceiveBytes
  \/ TransactOnBus \/ SendAnswer \/ SendReadBytes \/ SendFails \/ Served \/ PowerDown

Spec == Init /\ [][Next]_vars

-----------------------------------------------------------------------------
\* What the firmware is given is framed for the transfer it made: an answer that
\* comes after the peripheral gave the transfer up meets no later one, and a request
\* the bus cannot carry leaves nothing behind that passes for another.  And it tells
\* of that transfer's walk, unless a call timed out on the bus before and the bridge
\* carried on: then it may be that call's, whose completion the part stored over a
\* later one (I2cShmBus tells how), and no other's.
Own == {waiting.id} \cup bus.abandoned
AnswersThisTransfer == ReceiveAnswer => given'.id = waiting.id /\ given'.of \in Own

\* Transfers and connections are numbered in their order; one is waited for, or
\* served, only after it was made.
Transfers == [id : Nat, writes : BOOLEAN, reads : BOOLEAN, long : BOOLEAN]
Places == {"accept", "header", "bytes", "drain", "refuse", "transact", "answer",
           "answerBytes", "served", "exited"}
Items == [kind : {"header", "bytes"}, of : Transfers]
Replies == [id : Nat, of : Nat, ok : BOOLEAN]
PeripheralTypes ==
  pendingWrite \in BOOLEAN /\ waiting \in Transfers /\ transfers \in Nat /\ given \in Replies
ConnectionTypes ==
  connections \in 0 .. MaxConnections /\ client \in 0 .. connections /\ serving \in 0 .. connections
WireTypes ==
  /\ requests \in [Connections -> Seq(Items)] /\ responses \in [Connections -> Seq(Replies)]
  /\ open \in [Connections -> BOOLEAN]
BridgeTypes ==
  /\ at \in Places /\ header \in Transfers /\ present \in BOOLEAN
  /\ result \in [code : {"none", "Ok", "Nack", "BusFault"}, of : Nat]
  /\ bus \in [late : Nat, abandoned : SUBSET Nat]
TypeOK == PeripheralTypes /\ ConnectionTypes /\ WireTypes /\ BridgeTypes

\* What the proof inducts on. The peripheral waits on its newest connection, which
\* the bridge does not leave before it has lost it or exited;
WaitsOnTheNewest ==
  /\ client \in {None, connections}
  /\ client = None => waiting = Idle
  /\ client # None => at = "exited" \/ open[client]
  /\ client # None /\ serving = client => at # "accept"
  /\ serving = None => at = "accept"

\* a connection nobody has made yet has nothing on it;
NewOnesAreEmpty ==
  \A c \in Connections : c > connections => requests[c] = <<>> /\ responses[c] = <<>>

\* and the connection of the peripheral carries the transfer it waits for and
\* nothing else, in one of four states: none, the request on its way, the request
\* in the bridge, the answer on its way.
BetweenRequests == serving = client => at \in {"header", "served", "exited"}
Quiet == waiting = Idle /\ requests[client] = <<>> /\ responses[client] = <<>> /\ BetweenRequests
Requested ==
  /\ waiting # Idle /\ requests[client] = Request(waiting) /\ responses[client] = <<>>
  /\ BetweenRequests

InTheBridge ==
  /\ waiting # Idle /\ serving = client /\ header = waiting
  /\ \/ /\ at \in {"bytes", "drain"} /\ waiting.writes
        /\ requests[client] = <<Piece("bytes", waiting)>> /\ responses[client] = <<>>
     \/ /\ at \in {"refuse", "transact", "answer"}
        /\ at = "answer" => result.of \in Own
        /\ requests[client] = <<>> /\ responses[client] = <<>>
     \/ /\ at = "answerBytes" /\ waiting.reads /\ result.of \in Own
        /\ requests[client] = <<>> /\ responses[client] = <<Reply(waiting, result.of, TRUE)>>

Answered ==
  /\ waiting # Idle /\ serving = client /\ at \in {"header", "served", "exited"}
  /\ requests[client] = <<>>
  /\ \E of \in Own :
       \/ responses[client] = <<Reply(waiting, of, FALSE)>>
       \/ ~waiting.reads /\ responses[client] = <<Reply(waiting, of, TRUE)>>
       \/ waiting.reads /\ responses[client] = <<Reply(waiting, of, TRUE), Reply(waiting, of, TRUE)>>

OneTransferOnTheWire == client # None => Quiet \/ Requested \/ InTheBridge \/ Answered

\* The call the part is late with is one the bridge gave up.
LateWasAbandoned == bus.late = None \/ bus.late \in bus.abandoned

TransferInv == WaitsOnTheNewest /\ NewOnesAreEmpty /\ OneTransferOnTheWire /\ LateWasAbandoned
=============================================================================

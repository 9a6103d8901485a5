------------------------------- MODULE BusCall -------------------------------
(***************************************************************************)
(* What a caller of I2cShmController::transaction() is promised, with no   *)
(* region, phase or service thread: a call is open until it returns, the   *)
(* device walks it at most once, and a call that returns anything but a    *)
(* bus fault returns what that one walk produced.  A call that times out   *)
(* may still be walked, but nothing is asked of the bus after it.          *)
(***************************************************************************)
EXTENDS Naturals

VARIABLES req, open, lost, walks, ans
vars == <<req, open, lost, walks, ans>>

NoWalk == [id |-> 0, wrote |-> 0, result |-> "Acknowledged"]
Fault(r) == [call |-> r, code |-> "BusFault", walk |-> NoWalk, read |-> 0]

Walk(r, wrote, result) == [id |-> r.id, wrote |-> wrote, result |-> result]
Answer(r, code, walk, read) == [call |-> r, code |-> code, walk |-> walk, read |-> read]
Writes(r) == "write" \in r.phases
Reads(r) == "read" \in r.phases
Written(r) == IF Writes(r) THEN r.id ELSE 0

\* Every way a walk of r can end: all bytes acknowledged, no address ack at
\* either START, or a refused write byte.
Outcomes(r) ==
  {Answer(r, "Ok", Walk(r, Written(r), "Acknowledged"), IF Reads(r) THEN r.id ELSE 0)}
  \cup {Answer(r, "AddressNack", Walk(r, wrote, "AddressNack"), 0) : wrote \in {0, Written(r)}}
  \cup IF Writes(r) THEN {Answer(r, "DataNack", Walk(r, 0, "DataNack"), 0)} ELSE {}

Init ==
  /\ req = [id |-> 0, phases |-> {}]
  /\ open = FALSE /\ lost = FALSE /\ walks = 0 /\ ans = Fault(req)

Issue ==
  /\ ~open /\ ~lost
  /\ open' = TRUE
  /\ \E phases \in SUBSET {"write", "read"} : req' = [id |-> req.id + 1, phases |-> phases]
  /\ walks' = 0
  /\ UNCHANGED <<lost, ans>>

Refuse ==
  /\ ~open /\ ~lost
  /\ req' = [id |-> req.id + 1, phases |-> {}]
  /\ walks' = 0
  /\ ans' = Fault(req')
  /\ UNCHANGED <<open, lost>>

Execute ==
  /\ open \/ lost
  /\ walks = 0
  /\ walks' = 1
  /\ UNCHANGED <<req, open, lost, ans>>

Report ==
  /\ open
  /\ walks = 1
  /\ ans' \in Outcomes(req)
  /\ open' = FALSE
  /\ UNCHANGED <<req, lost, walks>>

Fail ==
  /\ open
  /\ ans' = Fault(req)
  /\ open' = FALSE
  /\ lost' \in BOOLEAN
  /\ UNCHANGED <<req, walks>>

Next == Issue \/ Refuse \/ Execute \/ Report \/ Fail

Spec == Init /\ [][Next]_vars
=============================================================================

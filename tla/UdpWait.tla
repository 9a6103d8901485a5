------------------------------- MODULE UdpWait -------------------------------
(***************************************************************************)
(* One blocking wait of sim/udp_bridge: UdpBridge::wait_for_packet and the *)
(* UdpSocket::receive below it, against a clock, a network that may        *)
(* deliver strays, and a socket that may fail.  Time is counted in ticks   *)
(* of a fraction of the millisecond in which the socket's receive timeout  *)
(* is set.                                                                 *)
(***************************************************************************)
EXTENDS Naturals, Sequences

CONSTANTS
  Timeout,      \* Ticks the caller is ready to wait.
  TicksPerMs,   \* Ticks of a millisecond.
  MaxDatagrams  \* Datagrams that arrive during the wait. Bounds the model.

VARIABLES
  remaining,  \* deadline - now, never below zero.
  queue,      \* Datagrams the socket holds.
  arrived,    \* Datagrams that have arrived.
  at,         \* Where the waiting thread is.
  blocked,    \* Ticks until recv() gives up, or Forever.
  result,     \* How the wait returned.
  packet      \* What recv() came back with last: a datagram, or an error.
vars == <<remaining, queue, arrived, at, blocked, result, packet>>

\* A datagram is of the expected type, another type, a shutdown, or malformed.
Datagrams == {"Expected", "Other", "Shutdown", "Malformed"}
Forever == Timeout + 1

Init ==
  /\ remaining = Timeout /\ queue = <<>> /\ arrived = 0
  /\ at = "loop" /\ blocked = 0 /\ result = "None" /\ packet = "None"

\* The clock runs, and with it the timeout recv() was armed with.
Tick ==
  /\ at # "returned"
  /\ remaining > 0 \/ (at = "recv" /\ blocked \in 1 .. Timeout)
  /\ remaining' = IF remaining > 0 THEN remaining - 1 ELSE 0
  /\ blocked' = IF at = "recv" /\ blocked \in 1 .. Timeout THEN blocked - 1 ELSE blocked
  /\ UNCHANGED <<queue, arrived, at, result, packet>>

Arrive ==
  /\ at # "returned"
  /\ arrived < MaxDatagrams
  /\ arrived' = arrived + 1
  /\ \E d \in Datagrams : queue' = Append(queue, d)
  /\ UNCHANGED <<remaining, at, blocked, result, packet>>

Return(how) == at' = "returned" /\ result' = how

DeadlinePassed ==
  /\ at = "loop"
  /\ remaining = 0
  /\ Return("TimedOut")
  /\ UNCHANGED <<remaining, queue, arrived, blocked, packet>>

\* Seeded fault: the receive timeout is one millisecond short.
RecvTimeoutShort(left) ==
  LET ms == left \div TicksPerMs
  IN  IF ms <= 1 THEN 0 ELSE (ms - 1) * TicksPerMs

\* The remaining time is cut to whole milliseconds and set as SO_RCVTIMEO,
\* for which zero means no timeout.
RecvTimeout(left) ==
  LET ms == left \div TicksPerMs
  IN  IF ms = 0 THEN Forever ELSE ms * TicksPerMs

StartRecv ==
  /\ at = "loop"
  /\ remaining > 0
  /\ at' = "recv"
  /\ blocked' = RecvTimeout(remaining)
  /\ UNCHANGED <<remaining, queue, arrived, result, packet>>

\* Malformed, foreign and unexpected datagrams send the wait round its loop.
Classify(d) ==
  CASE d = "Shutdown" -> Return("Shutdown")
    [] d = "Expected" -> Return("Ready")
    [] OTHER          -> at' = "loop" /\ UNCHANGED result

ReceiveDatagram ==
  /\ at = "recv"
  /\ queue # <<>>
  /\ packet' = Head(queue)
  /\ queue' = Tail(queue)
  /\ Classify(Head(queue))
  /\ UNCHANGED <<remaining, arrived, blocked>>

RecvTimesOut ==
  /\ at = "recv"
  /\ queue = <<>>
  /\ blocked = 0
  /\ Return("TimedOut")
  /\ UNCHANGED <<remaining, queue, arrived, blocked, packet>>

\* recv() fails, as it does when a peer that is not up yet refused an earlier
\* datagram or a signal interrupts the thread: whatever is left of the timeout,
\* and whatever is queued, the wait is reported as one that timed out.
RecvFails ==
  /\ at = "recv"
  /\ packet' = "Error"
  /\ Return("TimedOut")
  /\ UNCHANGED <<remaining, queue, arrived, blocked>>

Wait == DeadlinePassed \/ StartRecv \/ ReceiveDatagram \/ RecvTimesOut

Next == Tick \/ Arrive \/ RecvFails \/ Wait

Spec == Init /\ [][Next]_vars

\* The thread is scheduled and time passes; no datagram has to arrive and
\* no socket has to fail.
FairSpec == Spec /\ WF_vars(Wait) /\ WF_vars(Tick)

-----------------------------------------------------------------------------
\* A wait that is reported as timed out gives up no more than a millisecond before
\* its timeout, unless the socket failed: the whole milliseconds it blocks for add
\* up to the time it was given, however often a stray datagram made it start
\* again. A failing socket is reported the same way as soon as it fails, and
\* nothing in the result tells the caller so.
NoEarlyTimeout == result = "TimedOut" => remaining < TicksPerMs \/ packet = "Error"

\* "Blocks until a kOutputs datagram arrives, a kShutdown datagram is observed,
\* or `timeout` elapses": every wait returns.
WaitReturns == <>(at = "returned")

\* Every local of the waiting thread has its type.
TypeOK ==
  /\ remaining \in 0 .. Timeout /\ blocked \in 0 .. Forever
  /\ queue \in Seq(Datagrams) /\ arrived \in Nat
  /\ at \in {"loop", "recv", "returned"}
  /\ result \in {"None", "TimedOut", "Ready", "Shutdown"}
  /\ packet \in Datagrams \cup {"None", "Error"}

\* What NoEarlyTimeout rests on: a receive is armed for less than a millisecond
\* less than what is left, and stays so while the clock runs; and a wait that has
\* not returned has no result.
ArmedForWhatIsLeft == at = "recv" => remaining < blocked + TicksPerMs
ResultOnReturn == at # "returned" => result = "None"
WaitInv == TypeOK /\ ArmedForWhatIsLeft /\ ResultOnReturn /\ NoEarlyTimeout
=============================================================================

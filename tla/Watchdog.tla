------------------------------ MODULE Watchdog -------------------------------
(***************************************************************************)
(* The software watchdog: a fixed table of channels, each of which has to  *)
(* be kicked within its timeout, advanced once per scheduler tick by the   *)
(* time since the last.  Elapsed time is kept modulo 2^32 in the code and  *)
(* modulo Modulus here; the history variables now and fed keep true time.  *)
(***************************************************************************)
EXTENDS Integers, FiniteSets

CONSTANTS
  Ids,       \* Identifiers callers use.
  Slots,     \* Channels the table holds (kMaxWatchdogChannels).
  Modulus,   \* Wraps elapsed_ms.
  Timeouts,  \* Timeouts callers register.
  Ticks,     \* Time between two calls of step().
  MaxTime    \* Time that passes. Bounds the model.

ASSUME TableAssumption == Slots \in Nat /\ MaxTime \in Nat
ASSUME WidthAssumption ==
  /\ Modulus \in Nat \ {0}
  /\ Timeouts \subseteq 1 .. Modulus - 1
  /\ Ticks \subseteq 0 .. Modulus - 1

VARIABLES
  registered, timeout, elapsed, expired,  \* channels_, by identifier.
  status,                                 \* 1 if the last step() returned kExpired.
  now, fed                                \* True time, and when a channel was last fed.

vars == <<registered, timeout, elapsed, expired, status, now, fed>>

Init ==
  /\ registered = {}
  /\ timeout = [id \in Ids |-> 0] /\ elapsed = [id \in Ids |-> 0]
  /\ expired = [id \in Ids |-> 0]
  /\ status = 0
  /\ now = 0 /\ fed = [id \in Ids |-> 0]

\* Refused for a known identifier and for a full table, changing nothing.
RegisterChannel(id, ms) ==
  /\ id \notin registered
  /\ Cardinality(registered) < Slots
  /\ registered' = registered \cup {id}
  /\ timeout' = [timeout EXCEPT ![id] = ms]
  /\ elapsed' = [elapsed EXCEPT ![id] = 0]
  /\ expired' = [expired EXCEPT ![id] = 0]
  /\ fed' = [fed EXCEPT ![id] = now]
  /\ UNCHANGED <<status, now>>

Kick(id) ==
  /\ id \in registered
  /\ elapsed' = [elapsed EXCEPT ![id] = 0]
  /\ expired' = [expired EXCEPT ![id] = 0]
  /\ fed' = [fed EXCEPT ![id] = now]
  /\ UNCHANGED <<registered, timeout, status, now>>

Advanced(id, ms) == (elapsed[id] + ms) % Modulus

\* Seeded fault: the status is that of the channel advanced last.
StepReportsOne(ms) ==
  /\ now + ms <= MaxTime
  /\ elapsed' = [id \in Ids |-> IF id \in registered THEN Advanced(id, ms) ELSE elapsed[id]]
  /\ expired' = [id \in Ids |-> IF id \in registered /\ elapsed'[id] >= timeout[id] THEN 1 ELSE expired[id]]
  /\ \E id \in Ids : status' = IF id \in registered THEN expired'[id] ELSE 0
  /\ now' = now + ms
  /\ UNCHANGED <<registered, timeout, fed>>

Step(ms) ==
  /\ now + ms <= MaxTime
  /\ elapsed' = [id \in Ids |-> IF id \in registered THEN Advanced(id, ms) ELSE elapsed[id]]
  /\ expired' = [id \in Ids |-> IF id \in registered /\ elapsed'[id] >= timeout[id] THEN 1 ELSE expired[id]]
  /\ status' = IF \E id \in registered : expired'[id] = 1 THEN 1 ELSE 0
  /\ now' = now + ms
  /\ UNCHANGED <<registered, timeout, fed>>

Next ==
  \/ \E id \in Ids, ms \in Timeouts : RegisterChannel(id, ms)
  \/ \E id \in Ids : Kick(id)
  \/ \E ms \in Ticks : Step(ms)

Spec == Init /\ [][Next]_vars

(***************************************************************************)
(* Properties.                                                             *)
(***************************************************************************)
\* The table and its history; elapsed time fits its width.
TypeOK ==
  /\ registered \subseteq Ids
  /\ timeout \in [Ids -> 0 .. Modulus - 1] /\ elapsed \in [Ids -> 0 .. Modulus - 1]
  /\ expired \in [Ids -> {0, 1}] /\ status \in {0, 1}
  /\ now \in Nat /\ fed \in [Ids -> Nat]
  /\ \A id \in registered : timeout[id] \in Timeouts /\ fed[id] <= now

Late(id) == now - fed[id] >= timeout[id]

\* A channel is expired exactly when its timeout has passed since it was last
\* fed, however long ago that is and whatever the elapsed counter reads since
\* (watchdog.h:77-84).
ExpiredWhenLate == \A id \in registered : expired[id] = 1 <=> Late(id)

\* What step() returned is about all channels: the hardware watchdog is fed
\* only while none of them is expired (watchdog.h:14-19).
StatusCoversAll == status = 0 => \A id \in registered : expired[id] = 0

\* The supervisor's promise: a task that is late raises the alarm, and nothing
\* another task does hides it from whoever feeds the hardware watchdog.
AlarmsAreOnTime == ExpiredWhenLate /\ StatusCoversAll

\* No tick carries a channel that has not expired past the counter's width.
NoWrap == \A t \in Timeouts, ms \in Ticks : t + ms <= Modulus

\* A channel that has not expired has kept the exact time.
ElapsedIsExact == \A id \in registered : expired[id] = 0 => elapsed[id] = now - fed[id]

\* All of it together is inductive: types, deadlines and the time kept towards
\* them, across kicks and the wrap of a counter (watchdog.cpp:60-92).
WatchdogInv == TypeOK /\ AlarmsAreOnTime /\ ElapsedIsExact
=============================================================================

-------------------------- MODULE RegulatorSequencer --------------------------
(***************************************************************************)
(* The power module's RegulatorSequencer: rails enabled one at a time, the *)
(* next when the one before reports power good.  One task calls it; it     *)
(* samples the power-good line of current_rail_id().                       *)
(***************************************************************************)
EXTENDS Naturals, Sequences

CONSTANTS
  Rails,     \* Rail identifiers.
  MaxRails,  \* kMaxRails.
  Timeouts,  \* Confirmation timeouts the task configures.
  Ticks,     \* Times between two steps.
  Width      \* Values of the elapsed-time counter, 2^32 in the code.

VARIABLES
  rail_ids, confirm_timeout, index, elapsed, state,
  \* Of the run under way: the rails that confirmed, and how long the one being
  \* enabled has really been silent.
  confirmed, silent
vars == <<rail_ids, confirm_timeout, index, elapsed, state, confirmed, silent>>

Init ==
  /\ rail_ids = <<>> /\ confirm_timeout = 0 /\ index = 0 /\ elapsed = 0
  /\ state = "kIdle" /\ confirmed = <<>> /\ silent = 0

\* Refused while a sequence is under way, for no rails and for too many.
Configure(ids, timeout) ==
  /\ state # "kEnabling" /\ Len(ids) \in 1 .. MaxRails
  /\ rail_ids' = ids /\ confirm_timeout' = timeout
  /\ index' = 0 /\ elapsed' = 0 /\ state' = "kIdle"
  /\ confirmed' = <<>> /\ silent' = 0

Start ==
  /\ rail_ids # <<>> /\ state # "kEnabling"
  /\ index' = 0 /\ elapsed' = 0 /\ state' = "kEnabling"
  /\ confirmed' = <<>> /\ silent' = 0
  /\ UNCHANGED <<rail_ids, confirm_timeout>>

\* index_ counts from 0. Out of range it is the first rail.
CurrentRail == IF index < Len(rail_ids) THEN rail_ids[index + 1] ELSE rail_ids[1]

\* Seeded fault: the time spent on the rail before is charged to the next.
PowerGoodKeepsElapsed ==
  /\ state = "kEnabling"
  /\ index' = index + 1 /\ UNCHANGED elapsed
  /\ state' = IF index' >= Len(rail_ids) THEN "kComplete" ELSE state
  /\ confirmed' = Append(confirmed, CurrentRail) /\ silent' = 0
  /\ UNCHANGED <<rail_ids, confirm_timeout>>

\* step(), power good: however long it took, the rail counts as confirmed.
PowerGood ==
  /\ state = "kEnabling"
  /\ index' = index + 1 /\ elapsed' = 0
  /\ state' = IF index' >= Len(rail_ids) THEN "kComplete" ELSE state
  /\ confirmed' = Append(confirmed, CurrentRail) /\ silent' = 0
  /\ UNCHANGED <<rail_ids, confirm_timeout>>

\* step(), no power good.
Silent(tick) ==
  /\ state = "kEnabling"
  /\ elapsed' = (elapsed + tick) % Width
  /\ state' = IF elapsed' > confirm_timeout THEN "kFaulted" ELSE state
  /\ silent' = silent + tick
  /\ UNCHANGED <<rail_ids, confirm_timeout, index, confirmed>>

Next ==
  \/ \E n \in 1 .. MaxRails : \E ids \in [1 .. n -> Rails], timeout \in Timeouts : Configure(ids, timeout)
  \/ Start
  \/ PowerGood
  \/ \E tick \in Ticks : Silent(tick)

Spec == Init /\ [][Next]_vars

-----------------------------------------------------------------------------
\* Rails are confirmed in their order, none skipped; a sequence is complete only
\* when all of them are; and exactly a rail that has itself been silent for longer
\* than the timeout, whatever the rails before it took, faults the sequence.
RailsInTurn ==
  /\ confirmed = SubSeq(rail_ids, 1, index)
  /\ state = "kComplete" => confirmed = rail_ids
  /\ state = "kFaulted" <=> silent > confirm_timeout

\* Every field has its type, whatever the counter's width.
TypeOK ==
  /\ rail_ids \in Seq(Rails) /\ confirmed \in Seq(Rails)
  /\ rail_ids # <<>> => confirm_timeout \in Timeouts
  /\ confirm_timeout \in Nat /\ elapsed \in Nat /\ silent \in Nat
  /\ index \in 0 .. Len(rail_ids)
  /\ state \in {"kIdle", "kEnabling", "kComplete", "kFaulted"}

\* What RailsInTurn rests on: the counter is the time the rail has really been
\* silent, and a rail is being enabled exactly while there is one left.
CounterIsSilence == elapsed = silent
OneBeingEnabled ==
  /\ state = "kEnabling" => index < Len(rail_ids)
  /\ state = "kComplete" => index = Len(rail_ids)
SequencerInv == TypeOK /\ CounterIsSilence /\ OneBeingEnabled /\ RailsInTurn

\* No step carries a rail that is still within its timeout past the width.
NoWrap ==
  /\ Width \in Nat \ {0} /\ Timeouts \subseteq Nat /\ Ticks \subseteq Nat
  /\ \A ms \in Timeouts, tick \in Ticks : ms + tick < Width
=============================================================================

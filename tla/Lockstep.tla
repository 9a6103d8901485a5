------------------------------ MODULE Lockstep ------------------------------
(***************************************************************************)
(* What a co-simulation bridge promises its two ends: the master posts     *)
(* step n, the plant advances by exactly that step, the master accepts the *)
(* outputs of step n before it posts step n + 1.  Either end may leave the *)
(* run at any point; nothing happens out of order because of it.           *)
(***************************************************************************)
EXTENDS Naturals

VARIABLES
  posted,    \* Steps the master has posted.
  advanced,  \* Steps the plant has taken.
  accepted   \* Steps whose outputs the master has accepted.
vars == <<posted, advanced, accepted>>

Init == posted = 0 /\ advanced = 0 /\ accepted = 0

PostStep ==
  /\ accepted = posted
  /\ posted' = posted + 1
  /\ UNCHANGED <<advanced, accepted>>

Advance ==
  /\ advanced < posted
  /\ advanced' = advanced + 1
  /\ UNCHANGED <<posted, accepted>>

Accept ==
  /\ accepted < advanced
  /\ accepted' = accepted + 1
  /\ UNCHANGED <<posted, advanced>>

Next == PostStep \/ Advance \/ Accept

Spec == Init /\ [][Next]_vars
=============================================================================

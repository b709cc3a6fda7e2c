---------------------------- MODULE ReplayOracle ----------------------------
(***************************************************************************)
(* What ReplayWindow promises, stated without a window: an oracle that     *)
(* remembers every acceptance for ever.  A sequence number is accepted if  *)
(* it was never accepted before and is less than WindowSize behind every   *)
(* number accepted so far; acceptances[s] counts how often s was accepted. *)
(***************************************************************************)
EXTENDS Integers

CONSTANTS WindowSize, MAX_MESSAGE_SEQUENCE

VARIABLE acceptances

Sequence == 0 .. MAX_MESSAGE_SEQUENCE

Init == acceptances = [s \in Sequence |-> 0]

Acceptable(s) ==
  /\ s \in Sequence
  /\ acceptances[s] = 0
  /\ \A r \in Sequence : acceptances[r] > 0 => s > r - WindowSize

Accept(s) ==
  /\ Acceptable(s)
  /\ acceptances' = [acceptances EXCEPT ![s] = 1]

Next == \E s \in Sequence : Accept(s)

Spec == Init /\ [][Next]_acceptances
=============================================================================

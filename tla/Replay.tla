------------------------------- MODULE Replay -------------------------------
(***************************************************************************)
(* The replay window of replay.py as a value and the two functions on it:  *)
(* the check and the record that every caller makes under the window's     *)
(* lock.  The lock itself, and the threads that compete for it, are in     *)
(* ReplayWindow; Session keeps one such value per endpoint.                *)
(***************************************************************************)
EXTENDS Integers

CONSTANTS WindowSize,             \* ReplayWindow.window_size
          MAX_MESSAGE_SEQUENCE    \* (1 << 64) - 1 in protocol.py

\* __post_init__ refuses a window that is not a positive integer.
ASSUME WindowSizeAssumption == WindowSize \in Nat \ {0}
ASSUME MaxSequenceAssumption == MAX_MESSAGE_SEQUENCE \in Nat

(* A definition below whose comment begins with "Faulty" is a slip the     *)
(* code could contain, kept to show that the properties notice it; nothing *)
(* in the specification uses it.                                           *)

Sequence == 0 .. MAX_MESSAGE_SEQUENCE

\* Faulty: the range test is missing.
ValidSequenceUnchecked(s) == s \in Int

\* validate_message_sequence; its type test is subsumed by s being an integer.
ValidSequence(s) == s \in Sequence

Window == [highest_seen : Sequence \cup {-1}, seen : SUBSET Sequence]

NewWindow == [highest_seen |-> -1, seen |-> {}]

-----------------------------------------------------------------------------
\* Faulty: the oldest number of the window counts as recent but is pruned.
StaleOffByOne(w, s) == s < w.highest_seen - WindowSize

\* Faulty: no message may arrive late.
StaleBelowHighest(w, s) == s <= w.highest_seen

\* Faulty: seen grows for ever.
RecordWithoutPruning(w, s) ==
  [highest_seen |-> IF s > w.highest_seen THEN s ELSE w.highest_seen,
   seen         |-> w.seen \cup {s}]

Replayed(w, s) == s \in w.seen

Stale(w, s) == s <= w.highest_seen - WindowSize

\* _check_unlocked returns (rather than raises).
CheckUnlocked(w, s) ==
  /\ ValidSequence(s)
  /\ ~Replayed(w, s)
  /\ ~Stale(w, s)

\* _record_unlocked: add, raise the highest, prune to the window.
RecordUnlocked(w, s) ==
  LET highest == IF s > w.highest_seen THEN s ELSE w.highest_seen
  IN  [highest_seen |-> highest,
       seen         |-> {n \in w.seen \cup {s} : n > highest - WindowSize}]
=============================================================================

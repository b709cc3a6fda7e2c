---------------------------- MODULE ReplayProofs ----------------------------
(***************************************************************************)
(* What the check and the record of replay.py mean for a window whose      *)
(* whole history is the set A of numbers ever recorded: facts about        *)
(* _check_unlocked and _record_unlocked alone, for every window size and   *)
(* sequence range, on which the proofs about the threads that share a      *)
(* window (ReplayWindowProofs) and about sessions (SessionProofs) rest.    *)
(***************************************************************************)
EXTENDS Replay, TLAPS

\* The window w is the recent part of the history A.
Matches(w, A) ==
  /\ \A s \in A : s <= w.highest_seen
  /\ w.highest_seen \in A \cup {-1}
  /\ w.seen = {s \in A : s > w.highest_seen - WindowSize}

\* A window that never forgets would let s through.
New(s, A) ==
  /\ s \in Sequence
  /\ s \notin A
  /\ \A r \in A : s > r - WindowSize

-----------------------------------------------------------------------------
(* _check_unlocked on a window that matches the history lets through       *)
(* exactly the numbers a window that never forgets would let through.      *)
LEMMA CheckMatches ==
  ASSUME NEW w \in Window, NEW A \in SUBSET Sequence, Matches(w, A), NEW s \in Int
  PROVE  CheckUnlocked(w, s) <=> New(s, A)
<1> USE WindowSizeAssumption, MaxSequenceAssumption
<1>1. Sequence \subseteq Int
  BY DEF Sequence
<1>2. w.highest_seen \in Int
  BY DEF Window, Sequence
<1>3. ASSUME CheckUnlocked(w, s) PROVE New(s, A)
  <2>1. s \in Sequence /\ s \notin w.seen /\ s > w.highest_seen - WindowSize
    BY <1>2, <1>3 DEF CheckUnlocked, ValidSequence, Replayed, Stale
  <2>2. s \notin A
    BY <2>1 DEF Matches
  <2>3. ASSUME NEW r \in A PROVE s > r - WindowSize
    BY <1>1, <1>2, <2>1, <2>3 DEF Matches
  <2> QED BY <2>1, <2>2, <2>3 DEF New
<1>4. ASSUME New(s, A) PROVE CheckUnlocked(w, s)
  <2>1. s \in Sequence /\ s \notin A
    BY <1>4 DEF New
  <2>2. s \notin w.seen
    BY <2>1 DEF Matches
  <2>3. CASE w.highest_seen \in A
    BY <1>2, <1>4, <2>1, <2>2, <2>3 DEF New, CheckUnlocked, ValidSequence, Replayed, Stale
  <2>4. CASE w.highest_seen = -1
    BY <1>2, <2>1, <2>2, <2>4 DEF Sequence, CheckUnlocked, ValidSequence, Replayed, Stale
  <2> QED BY <2>3, <2>4 DEF Matches
<1> QED BY <1>3, <1>4

(* _record_unlocked keeps the window in step with the history it adds to. *)
LEMMA RecordMatches ==
  ASSUME NEW w \in Window, NEW A \in SUBSET Sequence, Matches(w, A), NEW s \in Sequence
  PROVE  RecordUnlocked(w, s) \in Window /\ Matches(RecordUnlocked(w, s), A \cup {s})
<1> USE WindowSizeAssumption, MaxSequenceAssumption
<1> DEFINE highest == IF s > w.highest_seen THEN s ELSE w.highest_seen
           next == RecordUnlocked(w, s)
<1>1. Sequence \subseteq Int
  BY DEF Sequence
<1>2. w.highest_seen \in Sequence \cup {-1} /\ w.seen \subseteq Sequence
  BY DEF Window
<1>3. /\ next.highest_seen = highest
      /\ next.seen = {n \in w.seen \cup {s} : n > highest - WindowSize}
      /\ next \in Window
  BY <1>1, <1>2 DEF RecordUnlocked, Window
<1>4. /\ w.highest_seen \in Int /\ highest \in Int /\ s \in Int
      /\ highest >= w.highest_seen /\ highest >= s
  BY <1>1, <1>2 DEF Sequence
<1>5. highest \in A \cup {s, -1}
  BY DEF Matches
<1> HIDE DEF next, highest
<1>6. \A r \in A \cup {s} : r <= next.highest_seen
  <2> SUFFICES ASSUME NEW r \in A PROVE r <= highest
    BY <1>3, <1>4
  <2>1. r <= w.highest_seen /\ r \in Int
    BY <1>1 DEF Matches
  <2> QED BY <2>1, <1>4
<1>7. next.seen = {r \in A \cup {s} : r > next.highest_seen - WindowSize}
  <2>1. ASSUME NEW r \in A, r > highest - WindowSize
        PROVE  r > w.highest_seen - WindowSize
    <3>1. r \in Int
      BY <1>1
    <3> QED BY <2>1, <3>1, <1>4
  <2> QED BY <2>1, <1>3, <1>4 DEF Matches
<1>8. Matches(next, A \cup {s})
  BY <1>3, <1>5, <1>6, <1>7 DEF Matches
<1> QED BY <1>3, <1>8 DEF next
=============================================================================

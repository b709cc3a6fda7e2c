------------------------- MODULE ReplayWindowProofs -------------------------
(***************************************************************************)
(* The properties of ReplayWindow for every window size, sequence range,   *)
(* set of threads and number of calls.                                     *)
(*                                                                         *)
(* AtMostOnce is not inductive: to see that recording s cannot count it    *)
(* twice one needs that the check made before the operation still holds    *)
(* (CheckStillHolds), which needs that only the holder of the lock is      *)
(* between check and record (Exclusion), and that passing the check means  *)
(* never recorded at all, which needs that what was pruned from seen lies  *)
(* below the window (WindowMatchesHistory).                                *)
(***************************************************************************)
EXTENDS ReplayWindow, ReplayProofs, FiniteSetTheorems, TLAPS

Exclusion == \A t \in Threads : pc[t] \in Inside <=> lock = t

Inv ==
  /\ TypeOK
  /\ Exclusion
  /\ CheckStillHolds
  /\ WindowMatchesHistory
  /\ AtMostOnce

-----------------------------------------------------------------------------
(* _check_unlocked on a window that matches the history lets through       *)
(* exactly the numbers a window that never forgets would let through.      *)
LEMMA CheckIsHistoryCheck ==
  ASSUME window \in Window, acceptances \in [Sequence -> Nat],
         WindowMatchesHistory, NEW s \in Int
  PROVE  CheckUnlocked(window, s) <=> Acceptable(s)
<1>1. Accepted \in SUBSET Sequence
  BY DEF Accepted
<1>2. Matches(window, Accepted)
  BY DEF WindowMatchesHistory, Matches
<1>3. CheckUnlocked(window, s) <=> New(s, Accepted)
  BY <1>1, <1>2, CheckMatches
<1> QED BY <1>3 DEF New, Acceptable

(* _record_unlocked of an acceptable number keeps the window in step with  *)
(* the history it adds to.                                                 *)
LEMMA RecordKeepsMatch ==
  ASSUME window \in Window, acceptances \in [Sequence -> Nat],
         WindowMatchesHistory,
         NEW s \in Sequence, CheckUnlocked(window, s),
         window' = RecordUnlocked(window, s),
         acceptances' = [acceptances EXCEPT ![s] = @ + 1]
  PROVE  /\ window' \in Window
         /\ acceptances' \in [Sequence -> Nat]
         /\ Accepted' = Accepted \cup {s}
         /\ WindowMatchesHistory'
<1>1. Accepted \in SUBSET Sequence
  BY DEF Accepted
<1>2. Matches(window, Accepted)
  BY DEF WindowMatchesHistory, Matches
<1>3. acceptances' \in [Sequence -> Nat]
  OBVIOUS
<1>4. Accepted' = Accepted \cup {s}
  BY <1>3 DEF Accepted
<1>5. window' \in Window /\ Matches(window', Accepted')
  BY <1>1, <1>2, <1>4, RecordMatches
<1> QED BY <1>3, <1>4, <1>5 DEF WindowMatchesHistory, Matches

-----------------------------------------------------------------------------
(* Before any call the window is empty, the lock free and nothing recorded. *)
LEMMA InitInv == Init => Inv
<1> USE WindowSizeAssumption, MaxSequenceAssumption, NoThreadAssumption, MaxCallsAssumption
<1> SUFFICES ASSUME Init PROVE Inv
  OBVIOUS
<1>1. TypeOK
  BY DEF Init, TypeOK, Window, NewWindow, Places, Methods
<1>2. Exclusion
  BY DEF Init, Exclusion, Inside
<1>3. CheckStillHolds
  BY DEF Init, CheckStillHolds
<1>4. Accepted = {}
  BY DEF Init, Accepted
<1>5. WindowMatchesHistory
  BY <1>4 DEF Init, NewWindow, WindowMatchesHistory
<1>6. AtMostOnce
  BY DEF Init, AtMostOnce
<1> QED BY <1>1, <1>2, <1>3, <1>5, <1>6 DEF Inv

(* A step that neither records nor counts keeps what only depends on the   *)
(* window and the history.                                                 *)
LEMMA QuietStep ==
  ASSUME WindowMatchesHistory, AtMostOnce, UNCHANGED <<window, acceptances>>
  PROVE  WindowMatchesHistory' /\ AtMostOnce'
BY DEF WindowMatchesHistory, AtMostOnce, Accepted

-----------------------------------------------------------------------------
(* Every step keeps the inductive invariant: one case per action. *)
LEMMA StepInv == Inv /\ [Next]_vars => Inv'
<1> USE NoThreadAssumption
<1> SUFFICES ASSUME Inv, [Next]_vars PROVE Inv'
  OBVIOUS
<1> USE DEF Inv
<1>1. CASE UNCHANGED vars
  BY <1>1 DEF vars, TypeOK, Exclusion, CheckStillHolds, WindowMatchesHistory,
              AtMostOnce, Accepted
<1>2. ASSUME NEW t \in Threads, NEW m \in Methods, NEW s \in Arguments, Call(t, m, s)
      PROVE  Inv'
  <2>1. TypeOK'
    BY <1>2, MaxCallsAssumption DEF Call, Goto, TypeOK, Places
  <2>2. Exclusion'
    BY <1>2 DEF Call, Goto, TypeOK, Exclusion, Inside
  <2>3. CheckStillHolds'
    BY <1>2 DEF Call, Goto, TypeOK, CheckStillHolds
  <2> QED BY <1>2, <2>1, <2>2, <2>3, QuietStep DEF Call
<1>3. ASSUME NEW t \in Threads, Acquire(t) PROVE Inv'
  <2>1. TypeOK'
    BY <1>3 DEF Acquire, Goto, TypeOK, Places
  <2>2. Exclusion'
    BY <1>3 DEF Acquire, Goto, TypeOK, Exclusion, Inside
  <2>3. CheckStillHolds'
    BY <1>3 DEF Acquire, Goto, TypeOK, CheckStillHolds
  <2> QED BY <1>3, <2>1, <2>2, <2>3, QuietStep DEF Acquire
<1>4. ASSUME NEW t \in Threads, CheckRaises(t) \/ OperationRaises(t) PROVE Inv'
  <2> USE <1>4 DEF CheckRaises, OperationRaises, Leave, Forget, Goto
  <2>1. TypeOK'
    BY DEF TypeOK, Places, Methods
  <2>2. Exclusion'
    BY DEF TypeOK, Exclusion, Inside
  <2>3. CheckStillHolds'
    BY DEF TypeOK, CheckStillHolds
  <2> QED BY <2>1, <2>2, <2>3, QuietStep
<1>5. ASSUME NEW t \in Threads, CheckPasses(t) PROVE Inv'
  <2> USE <1>5 DEF CheckPasses, Goto
  <2>1. TypeOK'
    BY DEF TypeOK, Places
  <2>2. Exclusion'
    BY DEF TypeOK, Exclusion, Inside
  <2>3. CheckStillHolds'
    BY DEF TypeOK, CheckStillHolds
  <2> QED BY <2>1, <2>2, <2>3, QuietStep
<1>6. ASSUME NEW t \in Threads, OperationReturns(t) PROVE Inv'
  <2> USE <1>6 DEF OperationReturns, Goto
  <2>1. TypeOK'
    BY DEF TypeOK, Places
  <2>2. Exclusion'
    BY DEF TypeOK, Exclusion, Inside
  <2>3. CheckStillHolds'
    BY DEF TypeOK, CheckStillHolds
  <2> QED BY <2>1, <2>2, <2>3, QuietStep
<1>7. ASSUME NEW t \in Threads, RecordAndReturn(t) PROVE Inv'
  <2> USE <1>7 DEF RecordAndReturn, Leave, Forget, Goto
  <2>1. CheckUnlocked(window, sequence[t])
    BY DEF CheckStillHolds
  <2>2. sequence[t] \in Sequence
    BY <2>1 DEF CheckUnlocked, ValidSequence
  <2>3. /\ window' \in Window
        /\ acceptances' \in [Sequence -> Nat]
        /\ WindowMatchesHistory'
    BY <2>1, <2>2, RecordKeepsMatch DEF TypeOK
  <2>4. TypeOK'
    BY <2>3 DEF TypeOK, Places, Methods
  <2>5. Exclusion'
    BY DEF TypeOK, Exclusion, Inside
  <2>6. CheckStillHolds'
    BY DEF TypeOK, CheckStillHolds, Exclusion, Inside
  <2>7. AtMostOnce'
    <3>1. sequence[t] \in Int
      BY <2>2, MaxSequenceAssumption DEF Sequence
    <3>2. Acceptable(sequence[t])
      BY <2>1, <3>1, CheckIsHistoryCheck DEF TypeOK
    <3>3. acceptances[sequence[t]] = 0
      BY <3>2 DEF Acceptable, Accepted, TypeOK
    <3> QED BY <2>2, <3>3 DEF AtMostOnce, TypeOK
  <2> QED BY <2>3, <2>4, <2>5, <2>6, <2>7
<1> QED
  BY <1>1, <1>2, <1>3, <1>4, <1>5, <1>6, <1>7 DEF Next, Run

(* The invariant holds in every reachable state. *)
THEOREM Invariance == Spec => []Inv
BY InitInv, StepInv, PTL DEF Spec

(* The variables keep their types: in particular highest_seen never leaves *)
(* the range validate_message_sequence enforces.                           *)
THEOREM TypeCorrect == Spec => []TypeOK
<1>1. Inv => TypeOK
  BY DEF Inv
<1> QED BY <1>1, Invariance, PTL

(* No sequence number is ever recorded twice. *)
THEOREM NoReplay == Spec => []AtMostOnce
<1>1. Inv => AtMostOnce
  BY DEF Inv
<1> QED BY <1>1, Invariance, PTL

(* The window always is the recent part of the whole history. *)
THEOREM WindowIsHistory == Spec => []WindowMatchesHistory
<1>1. Inv => WindowMatchesHistory
  BY DEF Inv
<1> QED BY <1>1, Invariance, PTL

(* The check a thread passed holds until it records. *)
THEOREM CheckIsNeverOutdated == Spec => []CheckStillHolds
<1>1. Inv => CheckStillHolds
  BY DEF Inv
<1> QED BY <1>1, Invariance, PTL

(* The pruning of _record_unlocked bounds seen by window_size. *)
THEOREM BoundedMemory == Spec => []SeenBounded
<1> USE WindowSizeAssumption, MaxSequenceAssumption
<1>1. ASSUME Inv PROVE SeenBounded
  <2> DEFINE h == window.highest_seen
             recent == (h - WindowSize + 1) .. h
  <2>1. h \in Int
    BY <1>1 DEF Inv, TypeOK, Window, Sequence
  <2>2. window.seen \subseteq recent
    BY <1>1, <2>1 DEF Inv, WindowMatchesHistory, Accepted, Sequence
  <2> HIDE DEF h
  <2>3. IsFiniteSet(recent) /\ Cardinality(recent) = WindowSize
    BY <2>1, FS_Interval
  <2> HIDE DEF recent
  <2>4. Cardinality(window.seen) <= Cardinality(recent)
    BY <2>2, <2>3, FS_Subset
  <2> QED BY <2>3, <2>4 DEF SeenBounded
<1> QED BY <1>1, Invariance, PTL

(* _check_unlocked refuses and lets pass what a window with unlimited      *)
(* memory would.                                                           *)
THEOREM JudgedByHistory == Spec => JudgesByHistory
<1>1. ASSUME Inv, [Next]_vars, NEW t \in Threads,
             pc[t] = "checking", pc'[t] # "checking"
      PROVE  pc'[t] # "idle" <=> Acceptable(sequence[t])
  <2>1. sequence[t] \in Int
    <3>1. sequence \in [Threads -> Arguments \cup {-1}]
      BY <1>1 DEF Inv, TypeOK
    <3>2. sequence[t] \in Arguments \/ sequence[t] = -1
      BY <3>1
    <3>3. ASSUME NEW a \in Arguments PROVE a \in Int
      BY ArgumentsAssumption
    <3> QED BY <3>2, <3>3
  <2>2. CheckUnlocked(window, sequence[t]) <=> Acceptable(sequence[t])
    BY <1>1, <2>1, CheckIsHistoryCheck DEF Inv, TypeOK
  <2>3. CheckRaises(t) \/ CheckPasses(t)
    <3>1. PICK u \in Threads :
            \/ \E m \in Methods, s \in Arguments : Call(u, m, s)
            \/ Run(u)
      BY <1>1 DEF Next, vars
    <3>2. u = t
      BY <1>1, <3>1 DEF Run, Call, Acquire, CheckRaises, CheckPasses, OperationRaises,
         OperationReturns, RecordAndReturn, Leave, Goto, Inv, TypeOK
    <3> QED BY <1>1, <3>1, <3>2 DEF Run, Call, Acquire, OperationRaises,
         OperationReturns, RecordAndReturn
  <2>4. CASE CheckRaises(t)
    BY <1>1, <2>2, <2>4 DEF CheckRaises, Leave, Goto, Inv, TypeOK
  <2>5. CASE CheckPasses(t)
    BY <1>1, <2>2, <2>5 DEF CheckPasses, Goto, Inv, TypeOK
  <2> QED BY <2>3, <2>4, <2>5
<1>2. ASSUME Inv, [Next]_vars
      PROVE  [\A t \in Threads :
                pc[t] = "checking" /\ pc'[t] # "checking"
                  => (pc'[t] # "idle" <=> Acceptable(sequence[t]))]_vars
  BY <1>1, <1>2
<1> QED BY <1>2, Invariance, PTL DEF Spec, JudgesByHistory

(* The window, its lock and its threads implement the oracle that never    *)
(* forgets: recording is accepting, every other step is invisible.         *)
THEOREM RefinesOracle == Spec => ImplementsOracle
<1>1. Init => Oracle!Init
  BY DEF Init, Oracle!Init, Oracle!Sequence, Sequence
<1>2. ASSUME Inv, [Next]_vars PROVE [Oracle!Next]_acceptances
  <2>1. ASSUME NEW t \in Threads, RecordAndReturn(t) PROVE Oracle!Next
    <3>1. CheckUnlocked(window, sequence[t])
      BY <1>2, <2>1 DEF RecordAndReturn, Inv, CheckStillHolds
    <3>2. sequence[t] \in Sequence /\ sequence[t] \in Int
      BY <3>1, MaxSequenceAssumption DEF CheckUnlocked, ValidSequence, Sequence
    <3>3. Acceptable(sequence[t])
      BY <1>2, <3>1, <3>2, CheckIsHistoryCheck DEF Inv, TypeOK
    <3>4. Oracle!Acceptable(sequence[t])
      BY <1>2, <3>3 DEF Acceptable, Accepted, Oracle!Acceptable, Oracle!Sequence,
                        Sequence, Inv, TypeOK
    <3>5. acceptances' = [acceptances EXCEPT ![sequence[t]] = 1]
      BY <2>1, <3>4 DEF RecordAndReturn, Oracle!Acceptable
    <3> QED BY <3>2, <3>4, <3>5 DEF Oracle!Next, Oracle!Accept, Oracle!Sequence, Sequence
  <2>2. ASSUME ~ \E t \in Threads : RecordAndReturn(t) PROVE UNCHANGED acceptances
    BY <1>2, <2>2 DEF Next, Run, Call, Acquire, CheckRaises, CheckPasses,
                      OperationRaises, OperationReturns, vars
  <2> QED BY <2>1, <2>2
<1> QED BY <1>1, <1>2, Invariance, PTL DEF Spec, ImplementsOracle, Oracle!Spec
=============================================================================

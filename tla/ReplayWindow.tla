---------------------------- MODULE ReplayWindow ----------------------------
(***************************************************************************)
(* One ReplayWindow object shared by several threads.  A thread calls      *)
(* observe(sequence) or authenticate_and_record(sequence, operation),      *)
(* waits for the lock, checks, runs the operation (which may raise),       *)
(* records and leaves.  Every statement between two points at which        *)
(* another thread may run is a step of its own, so that the lock - and not *)
(* the model's atomicity - is what keeps threads apart.                    *)
(***************************************************************************)
EXTENDS Replay, FiniteSets

CONSTANTS Threads,      \* threads that share the object
          NoThread,     \* the lock is free
          Arguments,    \* sequence numbers callers pass, valid or not
          MaxCalls      \* bound on the number of calls

ASSUME NoThreadAssumption == NoThread \notin Threads
ASSUME ArgumentsAssumption == Arguments \subseteq Int
ASSUME MaxCallsAssumption == MaxCalls \in Nat

VARIABLES
  window,       \* highest_seen and seen
  lock,         \* the holder of _lock
  pc,           \* where each thread is in its call
  method,       \* the method each thread is in
  sequence,     \* the argument of each thread's call
  calls,        \* calls made so far (bounds the model)
  acceptances   \* history: how often each sequence number was recorded

vars == <<window, lock, pc, method, sequence, calls, acceptances>>

Methods == {"observe", "authenticate_and_record"}
Places == {"idle", "waiting", "checking", "operating", "recording"}
Inside == {"checking", "operating", "recording"}
Accepted == {s \in Sequence : acceptances[s] > 0}

Init ==
  /\ window = NewWindow
  /\ lock = NoThread
  /\ pc = [t \in Threads |-> "idle"]
  /\ method = [t \in Threads |-> "observe"]
  /\ sequence = [t \in Threads |-> -1]
  /\ calls = 0
  /\ acceptances = [s \in Sequence |-> 0]

-----------------------------------------------------------------------------
Goto(t, place) == pc' = [pc EXCEPT ![t] = place]

\* The locals of a call end with it.
Forget(t) ==
  /\ method' = [method EXCEPT ![t] = "observe"]
  /\ sequence' = [sequence EXCEPT ![t] = -1]

\* Leaving the with block, by return or by exception, releases the lock.
Leave(t) ==
  /\ lock' = NoThread
  /\ Goto(t, "idle")
  /\ Forget(t)

Call(t, m, s) ==
  /\ pc[t] = "idle"
  /\ calls < MaxCalls
  /\ calls' = calls + 1
  /\ method' = [method EXCEPT ![t] = m]
  /\ sequence' = [sequence EXCEPT ![t] = s]
  /\ Goto(t, "waiting")
  /\ UNCHANGED <<window, lock, acceptances>>

\* Faulty: the check and the record run without the lock.
AcquireUnguarded(t) ==
  /\ pc[t] = "waiting"
  /\ lock' = t
  /\ Goto(t, "checking")
  /\ UNCHANGED <<window, method, sequence, calls, acceptances>>

\* Faulty: an exception leaves the lock held.
OperationRaisesHoldingLock(t) ==
  /\ pc[t] = "operating"
  /\ Goto(t, "idle")
  /\ Forget(t)
  /\ UNCHANGED <<lock, window, calls, acceptances>>

\* Faulty: a message that failed authentication is recorded.
OperationRaisesRecorded(t) ==
  /\ pc[t] = "operating"
  /\ window' = RecordUnlocked(window, sequence[t])
  /\ Leave(t)
  /\ UNCHANGED <<calls, acceptances>>

\* with self._lock.
Acquire(t) ==
  /\ pc[t] = "waiting"
  /\ lock = NoThread
  /\ lock' = t
  /\ Goto(t, "checking")
  /\ UNCHANGED <<window, method, sequence, calls, acceptances>>

CheckRaises(t) ==
  /\ pc[t] = "checking"
  /\ ~CheckUnlocked(window, sequence[t])
  /\ Leave(t)
  /\ UNCHANGED <<window, calls, acceptances>>

CheckPasses(t) ==
  /\ pc[t] = "checking"
  /\ CheckUnlocked(window, sequence[t])
  /\ Goto(t, IF method[t] = "observe" THEN "recording" ELSE "operating")
  /\ UNCHANGED <<window, lock, method, sequence, calls, acceptances>>

OperationRaises(t) ==
  /\ pc[t] = "operating"
  /\ Leave(t)
  /\ UNCHANGED <<window, calls, acceptances>>

OperationReturns(t) ==
  /\ pc[t] = "operating"
  /\ Goto(t, "recording")
  /\ UNCHANGED <<window, lock, method, sequence, calls, acceptances>>

RecordAndReturn(t) ==
  /\ pc[t] = "recording"
  /\ window' = RecordUnlocked(window, sequence[t])
  /\ acceptances' = [acceptances EXCEPT ![sequence[t]] = @ + 1]
  /\ Leave(t)
  /\ UNCHANGED calls

\* The steps of a call in progress.
Run(t) ==
  \/ Acquire(t)
  \/ CheckRaises(t)
  \/ CheckPasses(t)
  \/ OperationRaises(t)
  \/ OperationReturns(t)
  \/ RecordAndReturn(t)

Next ==
  \E t \in Threads :
    \/ \E m \in Methods, s \in Arguments : Call(t, m, s)
    \/ Run(t)

Spec == Init /\ [][Next]_vars

\* The interpreter keeps scheduling a thread that can run, and the operation
\* handed to authenticate_and_record returns or raises.
FairSpec == Spec /\ \A t \in Threads : WF_vars(Run(t))

-----------------------------------------------------------------------------
TypeOK ==
  /\ window \in Window
  /\ lock \in Threads \cup {NoThread}
  /\ pc \in [Threads -> Places]
  /\ method \in [Threads -> Methods]
  /\ sequence \in [Threads -> Arguments \cup {-1}]
  /\ calls \in 0 .. MaxCalls
  /\ acceptances \in [Sequence -> Nat]

(* No sequence number is recorded twice, however many threads present it   *)
(* at the same time and however far the window has moved on since: what    *)
(* _check_unlocked and _record_unlocked under one lock are for.            *)
AtMostOnce == \A s \in Sequence : acceptances[s] <= 1

(* The window is exactly the recent part of the whole history: highest_seen *)
(* is the largest number ever recorded, seen is what was recorded in the   *)
(* last WindowSize numbers, and a call whose operation raised left no      *)
(* trace.                                                                  *)
WindowMatchesHistory ==
  /\ \A s \in Accepted : s <= window.highest_seen
  /\ window.highest_seen \in Accepted \cup {-1}
  /\ window.seen = {s \in Accepted : s > window.highest_seen - WindowSize}

(* seen never holds more than window_size numbers, so an endless session   *)
(* needs bounded memory: the pruning of _record_unlocked.                  *)
SeenBounded == Cardinality(window.seen) <= WindowSize

(* The check a thread passed still holds when it records, after its        *)
(* operation ran: nobody moved the window in between.                      *)
CheckStillHolds ==
  \A t \in Threads :
    pc[t] \in {"operating", "recording"} => CheckUnlocked(window, sequence[t])

Acceptable(s) ==
  /\ s \in Sequence
  /\ s \notin Accepted
  /\ \A r \in Accepted : s > r - WindowSize

(* _check_unlocked decides as a window with unlimited memory would: a      *)
(* number is refused only if it is out of range, was recorded before or    *)
(* lies WindowSize or more behind a recorded one, and passed otherwise.    *)
JudgesByHistory ==
  [][\A t \in Threads :
       pc[t] = "checking" /\ pc'[t] # "checking"
         => (pc'[t] # "idle" <=> Acceptable(sequence[t]))]_vars

(* Every call returns or raises: no exception leaves the lock held. *)
CallsReturn == \A t \in Threads : pc[t] # "idle" ~> pc[t] = "idle"

Oracle == INSTANCE ReplayOracle

(* The window with bounded memory implements the oracle that never forgets. *)
ImplementsOracle == Oracle!Spec
=============================================================================

----------------------------- MODULE Persistence -----------------------------
(***************************************************************************)
(* atomic_write_bytes of persistence.py: any number of calls, of threads   *)
(* or processes, replace one destination file.  Every system call may      *)
(* fail, a process may be killed inside a call, and the machine may lose   *)
(* power.                                                                  *)
(*                                                                         *)
(* The file system is modelled as the code must assume it: a temporary     *)
(* file's bytes survive a power failure once fsync returned, a rename is   *)
(* atomic and survives once the directory is synchronised, and renames are *)
(* undone from the last one backwards.  An entry of a directory that       *)
(* mkdir has just made survives only if that directory does.               *)
(***************************************************************************)
EXTENDS Integers, Sequences, FiniteSets

CONSTANTS
  MaxCalls,         \* bound on the number of calls
  MaxFailures       \* bound on the number of power failures

ASSUME BoundsAssumption == MaxCalls \in Nat /\ MaxFailures \in Nat

Calls == 1 .. MaxCalls
Files == 0 .. MaxCalls      \* 0: what the destination held before the first call

VARIABLES
  platform,         \* os.name
  directory,        \* the parent: absent, found by the first call, made by
                    \* mkdir, or made and kept through a power failure
  symlink,          \* destination.is_symlink()
  step,             \* the statement each call is at
  content,          \* of each call's temporary file, wherever it is linked
  temps,            \* temporary files that have a directory entry
  history,          \* files renamed to the destination; the last is there now
  synced,           \* how many of those renames a power failure cannot undo
  failures          \* power failures so far (bounds the model)

vars == <<platform, directory, symlink, step, content, temps, history, synced, failures>>
environment == <<platform, symlink, failures>>

\* temporary_path is set in the second group and None in the others.
BeforeTemporary == {"mkdir", "mkstemp"}
WithTemporary == {"write", "flush", "fsync", "replace"}
InProgress == BeforeTemporary \cup WithTemporary \cup {"unlink", "sync_directory"}

\* PersistenceError is raised: with nothing left behind, with the temporary file
\* left behind, or by _sync_directory, after the rename.
Raised == {"raised", "littered", "unsynced"}
\* "escaped": an OSError is raised as it is.
Ended == Raised \cup {"returned", "escaped", "cut"}

Current == history[Len(history)]

Init ==
  /\ platform \in {"posix", "nt"}
  /\ directory \in {"absent", "found"}
  /\ symlink \in {s \in BOOLEAN : s => directory = "found"}
  /\ step = [n \in Calls |-> "idle"]
  /\ content = [f \in Files |-> IF f = 0 THEN "lasting" ELSE "empty"]
  /\ temps = {}
  /\ history = <<0>>
  /\ synced = 1
  /\ failures = 0

Goto(n, s) == step' = [step EXCEPT ![n] = s]

At(n, s, next) ==
  /\ step[n] = s
  /\ Goto(n, next)
  /\ UNCHANGED environment

Begin(n) ==
  /\ At(n, "idle", "mkdir")
  /\ \A m \in 1 .. (n - 1) : step[m] # "idle"
  /\ UNCHANGED <<directory, content, temps, history, synced>>

\* parent.mkdir(parents=True, exist_ok=True), then destination.is_symlink(),
\* whose own OSError nothing converts.
MakeDirectory(n) ==
  /\ \E s \in {IF symlink THEN "raised" ELSE "mkstemp", "escaped"} : At(n, "mkdir", s)
  /\ directory' = IF directory = "absent" THEN "made" ELSE directory
  /\ UNCHANGED <<content, temps, history, synced>>

\* tempfile.mkstemp: a new name; fchmod's failure is ignored.
MakeTemporary(n) ==
  /\ At(n, "mkstemp", "write")
  /\ temps' = temps \cup {n}
  /\ UNCHANGED <<directory, content, history, synced>>

\* os.fdopen, then handle.write, of which any part may reach the file before
\* the flush.
Write(n) ==
  /\ At(n, "write", "flush")
  /\ content' = [content EXCEPT ![n] = "partial"]
  /\ UNCHANGED <<directory, temps, history, synced>>

Flush(n) ==
  /\ At(n, "flush", "fsync")
  /\ content' = [content EXCEPT ![n] = "whole"]
  /\ UNCHANGED <<directory, temps, history, synced>>

\* Faulty: os.fsync(handle.fileno()) is missing.
FsyncMissing(n) ==
  /\ At(n, "fsync", "replace")
  /\ UNCHANGED <<directory, content, temps, history, synced>>

Fsync(n) ==
  /\ At(n, "fsync", "replace")
  /\ content' = [content EXCEPT ![n] = "lasting"]
  /\ UNCHANGED <<directory, temps, history, synced>>

\* os.replace, atomic; the failure of chmod after it is ignored.
Replace(n) ==
  /\ At(n, "replace", "sync_directory")
  /\ history' = Append(history, n)
  /\ temps' = temps \ {n}
  /\ UNCHANGED <<directory, content, synced>>

\* Faulty: the directory is never synchronised.
SyncDirectoryNowhere(n) ==
  /\ At(n, "sync_directory", "returned")
  /\ UNCHANGED <<directory, content, temps, history, synced>>

\* Faulty: the directory counts as synchronised for the next rename too.
SyncDirectoryAhead(n) ==
  /\ At(n, "sync_directory", "returned")
  /\ synced' = IF platform = "nt" THEN synced ELSE Len(history) + 1
  /\ UNCHANGED <<directory, content, temps, history>>

\* _sync_directory, which does nothing on Windows; then the call returns.
SyncDirectory(n) ==
  /\ At(n, "sync_directory", "returned")
  /\ synced' = IF platform = "nt" THEN synced ELSE Len(history)
  /\ UNCHANGED <<directory, content, temps, history>>

\* Faulty: an OSError is retried for ever.
RaiseOSErrorRetrying(n) ==
  /\ \/ At(n, "mkstemp", "mkdir")
     \/ \E s \in WithTemporary : At(n, s, "unlink")
     \/ At(n, "sync_directory", "unsynced")
  /\ UNCHANGED <<directory, content, temps, history, synced>>

\* Faulty: the temporary file is only removed once it was written.
RaiseOSErrorLittering(n) ==
  /\ \/ \E s \in BeforeTemporary \cup {"write", "flush"} : At(n, s, "raised")
     \/ \E s \in {"fsync", "replace"} : At(n, s, "unlink")
     \/ At(n, "sync_directory", "unsynced")
  /\ UNCHANGED <<directory, content, temps, history, synced>>

\* An OSError becomes a PersistenceError, after the finally block has run.
RaiseOSError(n) ==
  /\ \/ \E s \in BeforeTemporary : At(n, s, "raised")
     \/ \E s \in WithTemporary : At(n, s, "unlink")
     \/ At(n, "sync_directory", "unsynced")
  /\ UNCHANGED <<directory, content, temps, history, synced>>

\* os.fdopen fails, so the finally block closes the descriptor; if os.close
\* raises too, its OSError is the one the caller gets, and the unlink is skipped.
CloseFails(n) ==
  /\ At(n, "write", "escaped")
  /\ UNCHANGED <<directory, content, temps, history, synced>>

\* The finally block removes the temporary file, or fails to and says nothing.
Unlink(n) ==
  /\ \/ At(n, "unlink", "raised") /\ temps' = temps \ {n}
     \/ At(n, "unlink", "littered") /\ UNCHANGED temps
  /\ UNCHANGED <<directory, content, history, synced>>

Run(n) ==
  \/ MakeDirectory(n)
  \/ MakeTemporary(n)
  \/ Write(n)
  \/ Flush(n)
  \/ Fsync(n)
  \/ Replace(n)
  \/ SyncDirectory(n)
  \/ RaiseOSError(n)
  \/ CloseFails(n)
  \/ Unlink(n)

-----------------------------------------------------------------------------
(* Crashes *)

\* The process is killed: no finally block runs.
Kill(n) ==
  /\ step[n] \in InProgress
  /\ Goto(n, "cut")
  /\ UNCHANGED <<environment, directory, content, temps, history, synced>>

\* Bytes that were not synchronised may be lost.
AfterPowerFailure(c) == IF c = "lasting" THEN {c} ELSE {"empty", "partial", c}

PowerFailure ==
  /\ failures < MaxFailures
  /\ failures' = failures + 1
  /\ step' = [n \in Calls |-> IF step[n] \in InProgress THEN "cut" ELSE step[n]]
  /\ content' \in {c \in [Files -> {"empty", "partial", "whole", "lasting"}] :
                     \A f \in Files : c[f] \in AfterPowerFailure(content[f])}
  /\ \/ /\ directory = "made"
        /\ directory' = "absent"
        /\ temps' = {} /\ history' = <<0>> /\ synced' = 1
     \/ \E k \in synced .. Len(history) :
          /\ history' = SubSeq(history, 1, k)
          /\ synced' = k
          /\ temps' = temps \cup {history[i] : i \in (k + 1) .. Len(history)}
          /\ directory' = IF directory = "made" THEN "kept" ELSE directory
  /\ UNCHANGED <<platform, symlink>>

Next ==
  \/ \E n \in Calls : Begin(n) \/ Run(n) \/ Kill(n)
  \/ PowerFailure

Spec == Init /\ [][Next]_vars

\* System calls return, and a thread inside a call keeps running.
FairSpec == Spec /\ \A n \in Calls : WF_vars(Run(n))

-----------------------------------------------------------------------------
TypeOK ==
  /\ platform \in {"posix", "nt"}
  /\ directory \in {"absent", "made", "kept", "found"}
  /\ symlink \in BOOLEAN
  /\ step \in [Calls -> {"idle"} \cup InProgress \cup Ended]
  /\ content \in [Files -> {"empty", "partial", "whole", "lasting"}]
  /\ temps \subseteq Calls
  /\ history \in Seq(Files) /\ history # << >>
  /\ synced \in 1 .. Len(history)
  /\ failures \in 0 .. MaxFailures

Lasting == platform = "posix" /\ directory = "found"

(* Whoever reads the destination at any instant, also after a power        *)
(* failure and whatever calls were cut short, finds all the bytes of one   *)
(* write or those it held before: the bytes are synchronised before        *)
(* os.replace makes them the destination.                                  *)
NeverTorn == content[Current] \in {"whole", "lasting"}

(* The content of a call that returned survives any number of power        *)
(* failures, until another call's replaces it: _sync_directory is the last *)
(* thing before the return.  Promised neither on Windows nor in a          *)
(* directory mkdir has just made, whose own entry nobody synchronises.     *)
ReturnedSurvives ==
  Lasting => \A n \in Calls :
    step[n] = "returned" => \E i \in 1 .. synced : history[i] = n

\* Where the temporary file of a call that has not renamed it may be.
MayHaveTemporary == WithTemporary \cup {"unlink", "littered", "escaped", "cut"}

(* A temporary file outlives its call only if the call was cut short, the  *)
(* unlink of the finally block failed or was skipped because os.close had  *)
(* failed, or the call got past os.replace and a power failure undid the   *)
(* rename.                                                                 *)
NoLitter ==
  \A n \in temps :
    \/ step[n] \in MayHaveTemporary
    \/ step[n] \in {"returned", "unsynced"} /\ failures > 0

(* A call that raises PersistenceError has left the destination alone: the *)
(* save failure of test_identity.py preserves the previous bundle.         *)
FailurePreservesPrevious ==
  \A n \in Calls, i \in DOMAIN history : step[n] \in Raised => history[i] # n

(* Every call returns or raises, whatever fails on its way. *)
CallsEnd == \A n \in Calls : step[n] \in InProgress ~> step[n] \in Ended

Status(s) ==
  CASE s = "idle" -> "idle"
    [] s \in InProgress -> "pending"
    [] s \in Raised \cup {"escaped"} -> "raised"
    [] OTHER -> s

Register == INSTANCE DurableRegister
  WITH values <- [i \in DOMAIN history |->
                    IF content[history[i]] \in {"whole", "lasting"} THEN history[i] ELSE -1],
       kept <- IF directory = "made" THEN 1 ELSE synced,
       status <- [n \in Calls |-> Status(step[n])],
       lasting <- Lasting

(* The calls implement the durable register: each takes effect at most     *)
(* once, at one instant and as a whole, before it returns.                 *)
ImplementsRegister == Register!Spec
=============================================================================

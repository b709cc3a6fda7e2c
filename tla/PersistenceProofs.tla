-------------------------- MODULE PersistenceProofs --------------------------
(***************************************************************************)
(* The properties of Persistence for any number of calls and power         *)
(* failures.                                                               *)
(*                                                                         *)
(* NeverTorn is not inductive: that a power failure may put any earlier    *)
(* file back needs every file of the history to be synchronised, which     *)
(* needs that a call reaches os.replace only with synchronised bytes and   *)
(* never writes again after it.  The refinement also needs that a call at  *)
(* _sync_directory is in the history, and that a directory that does not   *)
(* exist holds no renamed file.                                            *)
(***************************************************************************)
EXTENDS Persistence, SequenceTheorems, TLAPS

Steps == {"idle"} \cup InProgress \cup Ended

\* Where a call may be once its file was renamed to the destination.
Renamed == {"sync_directory", "returned", "unsynced", "cut"}

\* Where a call needs the directory.
Inside == {"mkstemp", "unlink", "sync_directory"} \cup WithTemporary

HistoryOfCalls ==
  /\ history[1] = 0
  /\ \A i \in 2 .. Len(history) : history[i] \in Calls /\ step[history[i]] \in Renamed

HistoryLasts == \A i \in 1 .. Len(history) : content[history[i]] = "lasting"

ReplaceReady == \A n \in Calls : step[n] = "replace" => content[n] = "lasting"

RenameHappened ==
  \A n \in Calls : step[n] = "sync_directory" => \E i \in 1 .. Len(history) : history[i] = n

DirectoryThere ==
  directory = "absent" => Len(history) = 1 /\ \A n \in Calls : step[n] \notin Inside

Inv ==
  /\ TypeOK
  /\ HistoryOfCalls
  /\ HistoryLasts
  /\ ReplaceReady
  /\ RenameHappened
  /\ DirectoryThere
  /\ ReturnedSurvives
  /\ NoLitter

-----------------------------------------------------------------------------
(* Before any call the destination holds what it held, for good. *)
LEMMA InitInv == Init => Inv
<1> SUFFICES ASSUME Init PROVE Inv
  OBVIOUS
<1> USE BoundsAssumption DEF Init
<1>1. 0 \in Files /\ history \in Seq(Files) /\ Len(history) = 1 /\ history[1] = 0
  BY DEF Files
<1>2. TypeOK
  BY <1>1 DEF TypeOK, Files
<1>3. HistoryOfCalls /\ HistoryLasts
  BY <1>1 DEF HistoryOfCalls, HistoryLasts
<1>4. ReplaceReady /\ RenameHappened /\ ReturnedSurvives /\ NoLitter
  BY DEF ReplaceReady, RenameHappened, ReturnedSurvives, NoLitter
<1>5. DirectoryThere
  BY <1>1 DEF DirectoryThere, Inside, WithTemporary
<1> QED BY <1>2, <1>3, <1>4, <1>5 DEF Inv

(* A call that has not renamed its file is not in the history. *)
LEMMA NotYetRenamed ==
  ASSUME Inv, NEW n \in Calls, step[n] \notin Renamed
  PROVE  \A i \in 1 .. Len(history) : history[i] \in Files /\ history[i] # n
<1>1. history[1] = 0 /\ 0 # n
  BY BoundsAssumption DEF Inv, HistoryOfCalls, Calls
<1>2. ASSUME NEW i \in 1 .. Len(history) PROVE history[i] \in Files
  BY ElementOfSeq DEF Inv, TypeOK
<1>3. Len(history) \in Nat
  BY LenProperties DEF Inv, TypeOK
<1>4. \A i \in 1 .. Len(history) : i = 1 \/ i \in 2 .. Len(history)
  BY <1>3
<1> QED BY <1>1, <1>2, <1>4 DEF Inv, HistoryOfCalls

(* A step of one call that neither renames nor synchronises, and writes to *)
(* its own temporary file at most.                                         *)
LEMMA QuietInv ==
  ASSUME Inv, NEW n \in Calls, NEW s \in Steps, Goto(n, s),
         UNCHANGED <<environment, history, synced>>,
         step[n] \in Renamed => s \in {"unsynced", "cut"},
         s \notin {"returned", "sync_directory"},
         \/ UNCHANGED content
         \/ /\ step[n] \notin Renamed
            /\ \E c \in {"partial", "whole", "lasting"} : content' = [content EXCEPT ![n] = c],
         s = "replace" => content'[n] = "lasting",
         directory' \in {"absent", "made", "kept", "found"},
         directory' = "found" <=> directory = "found",
         directory' = "absent" => directory = "absent" /\ s \notin Inside,
         \/ temps' \subseteq temps
         \/ temps' \subseteq temps \cup {n} /\ s \in WithTemporary,
         n \in temps' => s \in MayHaveTemporary
  PROVE  Inv'
<1> USE DEF Inv
<1>1. step' = [step EXCEPT ![n] = s] /\ UNCHANGED <<platform, symlink, failures>>
  BY DEF Goto, environment
<1>2. step'[n] = s /\ \A m \in Calls \ {n} : step'[m] = step[m]
  BY <1>1 DEF TypeOK
<1>3. n \in Files
  BY BoundsAssumption DEF Calls, Files
<1>4. TypeOK'
  BY <1>1, <1>3 DEF TypeOK, Steps
<1>5. HistoryOfCalls'
  BY <1>2 DEF HistoryOfCalls, Renamed
<1>6. HistoryLasts'
  <2>1. CASE UNCHANGED content
    BY <2>1 DEF HistoryLasts
  <2>2. CASE step[n] \notin Renamed
    BY <2>2, NotYetRenamed DEF HistoryLasts, TypeOK
  <2> QED BY <2>1, <2>2
<1>7. ReplaceReady'
  <2> SUFFICES ASSUME NEW m \in Calls, step'[m] = "replace" PROVE content'[m] = "lasting"
    BY DEF ReplaceReady
  <2>1. CASE m = n
    BY <1>2, <2>1
  <2>2. CASE m # n
    <3>1. content[m] = "lasting" /\ m \in Files
      BY <1>2, <2>2, BoundsAssumption DEF ReplaceReady, Calls, Files
    <3> QED BY <2>2, <3>1 DEF TypeOK
  <2> QED BY <2>1, <2>2
<1>8. RenameHappened'
  BY <1>2 DEF RenameHappened
<1>9. DirectoryThere'
  BY <1>2 DEF DirectoryThere
<1>10. ReturnedSurvives'
  BY <1>1, <1>2 DEF ReturnedSurvives, Lasting
<1>11. NoLitter'
  <2> SUFFICES ASSUME NEW m \in temps'
               PROVE  \/ step'[m] \in MayHaveTemporary
                      \/ step'[m] \in {"returned", "unsynced"} /\ failures' > 0
    BY DEF NoLitter
  <2>1. CASE m = n
    BY <1>1, <1>2, <2>1
  <2>2. CASE m # n
    <3>1. m \in temps /\ m \in Calls
      BY <2>2 DEF TypeOK
    <3> QED BY <1>1, <1>2, <2>2, <3>1 DEF NoLitter
  <2> QED BY <2>1, <2>2
<1> QED BY <1>4, <1>5, <1>6, <1>7, <1>8, <1>9, <1>10, <1>11

(* os.replace puts a synchronised file at the end of the history. *)
LEMMA ReplaceInv ==
  ASSUME Inv, NEW n \in Calls, Replace(n)
  PROVE  Inv'
<1> USE DEF Inv
<1> DEFINE k == Len(history)
<1>1. n \in Files /\ history \in Seq(Files) /\ k \in Nat /\ k >= 1
  BY BoundsAssumption, LenProperties, EmptySeq DEF Calls, Files, TypeOK
<1>2. /\ step[n] = "replace" /\ step' = [step EXCEPT ![n] = "sync_directory"]
      /\ history' = Append(history, n) /\ temps' = temps \ {n}
      /\ UNCHANGED <<platform, symlink, failures, directory, content, synced>>
  BY DEF Replace, At, Goto, environment
<1>3. /\ history' \in Seq(Files) /\ Len(history') = k + 1 /\ history'[k + 1] = n
      /\ \A i \in 1 .. k : history'[i] = history[i]
  BY <1>1, <1>2
<1>4. step'[n] = "sync_directory" /\ \A m \in Calls \ {n} : step'[m] = step[m]
  BY <1>2 DEF TypeOK
<1>5. \A i \in 1 .. (k + 1) : i \in 1 .. k \/ i = k + 1
  BY <1>1
<1>6. TypeOK'
  <2>1. history' # << >> /\ synced' \in 1 .. Len(history')
    BY <1>1, <1>2, <1>3, EmptySeq DEF TypeOK
  <2> QED BY <1>2, <1>3, <2>1 DEF TypeOK, InProgress
<1>7. HistoryOfCalls'
  <2>1. history'[1] = 0
    BY <1>1, <1>3 DEF HistoryOfCalls
  <2>2. ASSUME NEW i \in 2 .. (k + 1)
        PROVE  history'[i] \in Calls /\ step'[history'[i]] \in Renamed
    <3>1. CASE i = k + 1
      BY <1>3, <1>4, <3>1 DEF Renamed
    <3>2. CASE i \in 2 .. k
      <4>1. history'[i] = history[i]
        BY <1>3, <3>2
      <4>2. history[i] \in Calls /\ step[history[i]] \in Renamed
        BY <3>2 DEF HistoryOfCalls
      <4> QED BY <1>2, <1>4, <4>1, <4>2 DEF Renamed
    <3> QED BY <1>1, <3>1, <3>2
  <2> QED BY <1>3, <2>1, <2>2 DEF HistoryOfCalls
<1>8. HistoryLasts'
  <2>1. content[n] = "lasting"
    BY <1>2 DEF ReplaceReady
  <2> QED BY <1>2, <1>3, <1>5, <2>1 DEF HistoryLasts
<1>9. ReplaceReady'
  BY <1>2, <1>4 DEF ReplaceReady
<1>10. RenameHappened'
  <2> SUFFICES ASSUME NEW m \in Calls, step'[m] = "sync_directory"
               PROVE  \E i \in 1 .. (k + 1) : history'[i] = m
    BY <1>3 DEF RenameHappened
  <2>1. CASE m = n
    BY <1>1, <1>3, <2>1
  <2>2. CASE m # n
    <3>1. PICK i \in 1 .. k : history[i] = m
      BY <1>4, <2>2 DEF RenameHappened
    <3> QED BY <1>1, <1>3, <3>1
  <2> QED BY <2>1, <2>2
<1>11. DirectoryThere'
  <2>1. directory # "absent"
    BY <1>2 DEF DirectoryThere, Inside, WithTemporary
  <2> QED BY <1>2, <2>1 DEF DirectoryThere
<1>12. ReturnedSurvives'
  <2> SUFFICES ASSUME Lasting, NEW m \in Calls, step'[m] = "returned"
               PROVE  \E i \in 1 .. synced : history'[i] = m
    BY <1>2 DEF ReturnedSurvives, Lasting
  <2>1. PICK i \in 1 .. synced : history[i] = m
    BY <1>4 DEF ReturnedSurvives
  <2>2. i \in 1 .. k
    BY <1>1, <2>1 DEF TypeOK
  <2> QED BY <1>3, <2>1, <2>2
<1>13. NoLitter'
  BY <1>2, <1>4 DEF NoLitter, TypeOK
<1> QED BY <1>6, <1>7, <1>8, <1>9, <1>10, <1>11, <1>12, <1>13

(* _sync_directory makes every rename so far last, except on Windows. *)
LEMMA SyncInv ==
  ASSUME Inv, NEW n \in Calls, SyncDirectory(n)
  PROVE  Inv'
<1> USE DEF Inv
<1>1. /\ step[n] = "sync_directory" /\ step' = [step EXCEPT ![n] = "returned"]
      /\ synced' = (IF platform = "nt" THEN synced ELSE Len(history))
      /\ UNCHANGED <<platform, symlink, failures, directory, content, temps, history>>
  BY DEF SyncDirectory, At, Goto, environment
<1>2. step'[n] = "returned" /\ \A m \in Calls \ {n} : step'[m] = step[m]
  BY <1>1 DEF TypeOK
<1>3. Len(history) \in Nat /\ Len(history) >= 1 /\ synced' \in synced .. Len(history)
  BY <1>1, LenProperties, EmptySeq DEF TypeOK
<1>4. TypeOK'
  <2>1. synced' \in 1 .. Len(history')
    BY <1>1, <1>3 DEF TypeOK
  <2> QED BY <1>1, <2>1 DEF TypeOK, Ended
<1>5. HistoryOfCalls' /\ HistoryLasts'
  BY <1>1, <1>2 DEF HistoryOfCalls, HistoryLasts, Renamed
<1>6. ReplaceReady' /\ RenameHappened'
  BY <1>1, <1>2 DEF ReplaceReady, RenameHappened
<1>7. DirectoryThere'
  BY <1>1, <1>2 DEF DirectoryThere, Inside, WithTemporary
<1>8. ReturnedSurvives'
  <2> SUFFICES ASSUME Lasting, NEW m \in Calls, step'[m] = "returned"
               PROVE  \E i \in 1 .. synced' : history[i] = m
    BY <1>1 DEF ReturnedSurvives, Lasting
  <2>1. synced' = Len(history)
    BY <1>1 DEF Lasting
  <2>2. CASE m = n
    BY <1>1, <2>1, <2>2 DEF RenameHappened
  <2>3. CASE m # n
    <3>1. PICK i \in 1 .. synced : history[i] = m
      BY <1>2, <2>3 DEF ReturnedSurvives
    <3>2. i \in 1 .. synced'
      BY <1>3, <3>1 DEF TypeOK
    <3> QED BY <3>1, <3>2
  <2> QED BY <2>2, <2>3
<1>9. NoLitter'
  BY <1>1, <1>2 DEF NoLitter, TypeOK, MayHaveTemporary, WithTemporary
<1> QED BY <1>4, <1>5, <1>6, <1>7, <1>8, <1>9

(* What is left of the history after the first k renames. *)
LEMMA PrefixFacts ==
  ASSUME Inv, NEW k \in synced .. Len(history)
  PROVE  /\ k \in 1 .. Len(history)
         /\ SubSeq(history, 1, k) \in Seq(Files)
         /\ Len(SubSeq(history, 1, k)) = k
         /\ \A i \in 1 .. k : SubSeq(history, 1, k)[i] = history[i]
<1>1. Len(history) \in Nat /\ synced \in 1 .. Len(history)
  BY LenProperties DEF Inv, TypeOK
<1>2. k \in 1 .. Len(history) /\ k \in Int /\ 1 \in Int
  BY <1>1
<1>3. ASSUME NEW i \in 1 .. k PROVE history[i] \in Files
  <2>1. i \in 1 .. Len(history)
    BY <1>1, <1>2
  <2> QED BY <2>1, ElementOfSeq DEF Inv, TypeOK
<1>4. /\ SubSeq(history, 1, k) \in Seq(Files)
      /\ Len(SubSeq(history, 1, k)) = IF 1 <= k THEN k - 1 + 1 ELSE 0
      /\ \A i \in 1 .. (k - 1 + 1) : SubSeq(history, 1, k)[i] = history[1 + i - 1]
  BY <1>2, <1>3, SubSeqProperties
<1> QED BY <1>2, <1>4

(* A power failure undoes renames that were not synchronised, or takes the *)
(* directory mkdir made with all that is in it.                            *)
LEMMA PowerFailureInv ==
  ASSUME Inv, PowerFailure
  PROVE  Inv'
<1> USE DEF Inv
<1>1. /\ failures' \in 0 .. MaxFailures /\ failures' > 0
      /\ step' = [n \in Calls |-> IF step[n] \in InProgress THEN "cut" ELSE step[n]]
      /\ UNCHANGED <<platform, symlink>>
  BY BoundsAssumption DEF PowerFailure, TypeOK
<1>2. /\ content' \in [Files -> {"empty", "partial", "whole", "lasting"}]
      /\ \A f \in Files : content[f] = "lasting" => content'[f] = "lasting"
  BY DEF PowerFailure, AfterPowerFailure
<1>3. /\ \A n \in Calls : step'[n] \notin InProgress
      /\ \A n \in Calls : step[n] \in Renamed => step'[n] \in Renamed
      /\ \A n \in Calls : step'[n] = "returned" => step[n] = "returned"
      /\ step' \in [Calls -> {"idle"} \cup InProgress \cup Ended]
  BY <1>1 DEF InProgress, BeforeTemporary, WithTemporary, Renamed, Ended, Raised, TypeOK
<1>4. ReplaceReady' /\ RenameHappened'
  BY <1>3 DEF ReplaceReady, RenameHappened, InProgress, WithTemporary
<1>5. \A n \in Calls : step'[n] \notin Inside
  BY <1>3 DEF Inside, InProgress, BeforeTemporary
<1>6. Len(history) \in Nat /\ Len(history) >= 1 /\ history \in Seq(Files)
  BY LenProperties, EmptySeq DEF TypeOK
<1>7. CASE /\ directory = "made" /\ directory' = "absent"
           /\ temps' = {} /\ history' = <<0>> /\ synced' = 1
  <2>1. 0 \in Files /\ content[0] = "lasting"
    BY <1>6, BoundsAssumption DEF Files, HistoryOfCalls, HistoryLasts
  <2>2. history' \in Seq(Files) /\ Len(history') = 1 /\ history'[1] = 0
    BY <1>7, <2>1
  <2>3. TypeOK'
    BY <1>1, <1>2, <1>3, <1>7, <2>2 DEF TypeOK
  <2>4. HistoryOfCalls' /\ HistoryLasts'
    BY <1>2, <2>1, <2>2 DEF HistoryOfCalls, HistoryLasts
  <2>5. DirectoryThere' /\ ReturnedSurvives' /\ NoLitter'
    BY <1>5, <1>7, <2>2 DEF DirectoryThere, ReturnedSurvives, Lasting, NoLitter
  <2> QED BY <1>4, <2>3, <2>4, <2>5
<1>8. ASSUME NEW k \in synced .. Len(history),
             history' = SubSeq(history, 1, k), synced' = k,
             temps' = temps \cup {history[i] : i \in (k + 1) .. Len(history)},
             directory' = IF directory = "made" THEN "kept" ELSE directory
      PROVE  Inv'
  <2>1. /\ k \in 1 .. Len(history) /\ history' \in Seq(Files) /\ Len(history') = k
        /\ \A i \in 1 .. k : history'[i] = history[i] /\ i \in 1 .. Len(history)
    BY <1>6, <1>8, PrefixFacts
  <2>2. \A i \in (k + 1) .. Len(history) : i \in 2 .. Len(history)
    BY <1>6, <2>1
  <2>3. temps' \subseteq Calls
    BY <1>8, <2>2 DEF TypeOK, HistoryOfCalls
  <2>4. history' # << >> /\ synced' \in 1 .. Len(history')
    BY <1>8, <2>1, EmptySeq
  <2>5. TypeOK'
    BY <1>1, <1>2, <1>3, <1>8, <2>1, <2>3, <2>4 DEF TypeOK
  <2>6. HistoryOfCalls'
    <3>1. history'[1] = 0
      BY <2>1 DEF HistoryOfCalls
    <3>2. ASSUME NEW i \in 2 .. k PROVE history'[i] \in Calls /\ step'[history'[i]] \in Renamed
      <4>1. i \in 1 .. k /\ i \in 2 .. Len(history)
        BY <1>6, <2>1, <3>2
      <4> QED BY <1>3, <2>1, <4>1 DEF HistoryOfCalls
    <3> QED BY <2>1, <3>1, <3>2 DEF HistoryOfCalls
  <2>7. HistoryLasts'
    <3>1. ASSUME NEW i \in 1 .. k PROVE content'[history'[i]] = "lasting"
      <4>1. history[i] \in Files
        BY <1>6, <2>1, <3>1, ElementOfSeq
      <4> QED BY <1>2, <2>1, <3>1, <4>1 DEF HistoryLasts
    <3> QED BY <2>1, <3>1 DEF HistoryLasts
  <2>8. DirectoryThere'
    <3>1. ASSUME directory' = "absent" PROVE Len(history') = 1
      BY <1>8, <2>1, <3>1 DEF DirectoryThere
    <3> QED BY <1>5, <3>1 DEF DirectoryThere
  <2>9. ReturnedSurvives'
    <3> SUFFICES ASSUME Lasting', NEW m \in Calls, step'[m] = "returned"
                 PROVE  \E i \in 1 .. k : history'[i] = m
      BY <1>8 DEF ReturnedSurvives
    <3>1. Lasting
      BY <1>1, <1>8 DEF Lasting
    <3>2. PICK i \in 1 .. synced : history[i] = m
      BY <1>3, <3>1 DEF ReturnedSurvives
    <3>3. i \in 1 .. k
      BY <1>6, <1>8, <3>2 DEF TypeOK
    <3> QED BY <2>1, <3>2, <3>3
  <2>10. NoLitter'
    <3> SUFFICES ASSUME NEW m \in temps'
                 PROVE  step'[m] \in MayHaveTemporary \cup {"returned", "unsynced"}
      BY <1>1 DEF NoLitter
    <3>1. m \in Calls /\ step[m] \in MayHaveTemporary \cup Renamed
      BY <1>8, <2>2, <2>3 DEF NoLitter, HistoryOfCalls, Renamed
    <3> QED
      BY <1>1, <3>1 DEF MayHaveTemporary, Renamed, InProgress, BeforeTemporary, WithTemporary
  <2> QED BY <1>4, <2>5, <2>6, <2>7, <2>8, <2>9, <2>10
<1> QED BY <1>7, <1>8 DEF PowerFailure

-----------------------------------------------------------------------------
(* Every step keeps the inductive invariant: one case per action. *)
LEMMA StepInv == Inv /\ [Next]_vars => Inv'
<1> SUFFICES ASSUME Inv, [Next]_vars PROVE Inv'
  OBVIOUS
<1> USE DEF At, Steps, InProgress, BeforeTemporary, WithTemporary, Ended, Raised, Renamed,
            Inside, MayHaveTemporary
<1>1. CASE UNCHANGED vars
  BY <1>1 DEF vars, Inv, TypeOK, HistoryOfCalls, HistoryLasts, ReplaceReady, RenameHappened,
              DirectoryThere, ReturnedSurvives, Lasting, NoLitter
<1>2. directory \in {"absent", "made", "kept", "found"}
  BY DEF Inv, TypeOK
<1>3. ASSUME NEW n \in Calls, Begin(n) PROVE Inv'
  <2>1. n \notin temps
    BY <1>3 DEF Begin, Inv, NoLitter
  <2> QED BY <1>2, <1>3, <2>1, QuietInv DEF Begin
<1>4. ASSUME NEW n \in Calls, MakeDirectory(n) PROVE Inv'
  <2>1. n \notin temps
    BY <1>4 DEF MakeDirectory, Inv, NoLitter
  <2>2. ASSUME NEW s \in {"raised", "mkstemp", "escaped"}, At(n, "mkdir", s) PROVE Inv'
    BY <1>2, <1>4, <2>1, <2>2, QuietInv DEF MakeDirectory
  <2> QED BY <1>4, <2>2 DEF MakeDirectory
<1>5. ASSUME NEW n \in Calls, MakeTemporary(n) PROVE Inv'
  <2>1. directory # "absent"
    BY <1>5 DEF MakeTemporary, Inv, DirectoryThere
  <2> QED BY <1>2, <1>5, <2>1, QuietInv DEF MakeTemporary
<1>6. ASSUME NEW n \in Calls, Write(n) PROVE Inv'
  <2>1. directory # "absent"
    BY <1>6 DEF Write, Inv, DirectoryThere
  <2> QED BY <1>2, <1>6, <2>1, QuietInv DEF Write
<1>7. ASSUME NEW n \in Calls, Flush(n) PROVE Inv'
  <2>1. directory # "absent"
    BY <1>7 DEF Flush, Inv, DirectoryThere
  <2> QED BY <1>2, <1>7, <2>1, QuietInv DEF Flush
<1>8. ASSUME NEW n \in Calls, Fsync(n) PROVE Inv'
  <2>1. directory # "absent"
    BY <1>8 DEF Fsync, Inv, DirectoryThere
  <2>2. content'[n] = "lasting"
    BY <1>8, BoundsAssumption DEF Fsync, Inv, TypeOK, Calls, Files
  <2> QED BY <1>2, <1>8, <2>1, <2>2, QuietInv DEF Fsync
<1>9. ASSUME NEW n \in Calls, Replace(n) PROVE Inv'
  BY <1>9, ReplaceInv
<1>10. ASSUME NEW n \in Calls, SyncDirectory(n) PROVE Inv'
  BY <1>10, SyncInv
<1>11. ASSUME NEW n \in Calls, RaiseOSError(n) PROVE Inv'
  <2>1. CASE \/ \E s \in BeforeTemporary : At(n, s, "raised")
             \/ At(n, "sync_directory", "unsynced")
    <3>1. n \notin temps
      BY <2>1 DEF Inv, NoLitter
    <3> QED BY <1>2, <1>11, <2>1, <3>1, QuietInv DEF RaiseOSError
  <2>2. CASE \E s \in WithTemporary : At(n, s, "unlink")
    <3>1. directory # "absent"
      BY <2>2 DEF Inv, DirectoryThere
    <3> QED BY <1>2, <1>11, <2>2, <3>1, QuietInv DEF RaiseOSError
  <2> QED BY <1>11, <2>1, <2>2 DEF RaiseOSError
<1>12. ASSUME NEW n \in Calls, Unlink(n) PROVE Inv'
  <2>1. CASE At(n, "unlink", "raised") /\ temps' = temps \ {n}
    BY <1>2, <1>12, <2>1, QuietInv DEF Unlink
  <2>2. CASE At(n, "unlink", "littered") /\ UNCHANGED temps
    BY <1>2, <1>12, <2>2, QuietInv DEF Unlink
  <2> QED BY <1>12, <2>1, <2>2 DEF Unlink
<1>13. ASSUME NEW n \in Calls, CloseFails(n) PROVE Inv'
  BY <1>2, <1>13, QuietInv DEF CloseFails
<1>14. ASSUME NEW n \in Calls, Kill(n) PROVE Inv'
  BY <1>2, <1>14, QuietInv DEF Kill
<1>15. CASE PowerFailure
  BY <1>15, PowerFailureInv
<1> QED
  BY <1>1, <1>3, <1>4, <1>5, <1>6, <1>7, <1>8, <1>9, <1>10, <1>11, <1>12, <1>13, <1>14,
     <1>15
  DEF Next, Run

(* The invariant holds in every reachable state. *)
THEOREM Invariance == Spec => []Inv
BY InitInv, StepInv, PTL DEF Spec

(* Steps, contents, entries and the history of the destination keep their  *)
(* types.                                                                  *)
THEOREM TypeCorrect == Spec => []TypeOK
<1>1. Inv => TypeOK
  BY DEF Inv
<1> QED BY <1>1, Invariance, PTL

(* No reader ever finds a torn file at the destination. *)
THEOREM WholeFiles == Spec => []NeverTorn
<1>1. ASSUME Inv PROVE NeverTorn
  <2>1. Len(history) \in 1 .. Len(history)
    BY <1>1, LenProperties, EmptySeq DEF Inv, TypeOK
  <2> QED BY <1>1, <2>1 DEF Inv, HistoryLasts, NeverTorn, Current
<1> QED BY <1>1, Invariance, PTL

(* What a returned call wrote survives every power failure. *)
THEOREM Durability == Spec => []ReturnedSurvives
<1>1. Inv => ReturnedSurvives
  BY DEF Inv
<1> QED BY <1>1, Invariance, PTL

(* Only a call that was cut short, or could not close or unlink it, leaves *)
(* a temporary file behind, or a power failure that undid a rename.        *)
THEOREM LitterExplained == Spec => []NoLitter
<1>1. Inv => NoLitter
  BY DEF Inv
<1> QED BY <1>1, Invariance, PTL

-----------------------------------------------------------------------------
(* Refinement *)

Values == [i \in DOMAIN history |->
             IF content[history[i]] \in {"whole", "lasting"} THEN history[i] ELSE -1]
Kept == IF directory = "made" THEN 1 ELSE synced
Statuses == [n \in Calls |-> Status(step[n])]

(* The register has held exactly the files of the history. *)
LEMMA ValuesAtOnce ==
  ASSUME Inv
  PROVE  Values = history
<1>1. history \in Seq(Files) /\ DOMAIN history = 1 .. Len(history)
  BY LenProperties DEF Inv, TypeOK
<1>2. \A i \in DOMAIN history : content[history[i]] = "lasting"
  BY <1>1 DEF Inv, HistoryLasts
<1>3. Values = [i \in DOMAIN history |-> history[i]]
  BY <1>2 DEF Values
<1> QED BY <1>1, <1>3

(* And it still has after a step. *)
LEMMA ValuesAreHistory ==
  ASSUME Inv, Inv'
  PROVE  Values = history /\ Values' = history'
<1>2. Inv' => Values' = history'
  <2> SUFFICES ASSUME Inv' PROVE Values' = history'
    OBVIOUS
  <2>1. history' \in Seq(Files) /\ DOMAIN history' = 1 .. Len(history')
    BY LenProperties DEF Inv, TypeOK
  <2>2. \A i \in DOMAIN history' : content'[history'[i]] = "lasting"
    BY <2>1 DEF Inv, HistoryLasts
  <2>3. Values' = [i \in DOMAIN history' |-> history'[i]]
    BY <2>2 DEF Values
  <2> QED BY <2>1, <2>3
<1> QED BY <1>2, ValuesAtOnce

(* A call that moves from one statement to another moves its status. *)
LEMMA StatusMoves ==
  ASSUME Inv, NEW n \in Calls, NEW s \in Steps, Goto(n, s)
  PROVE  /\ Statuses' = [Statuses EXCEPT ![n] = Status(s)]
         /\ Status(s) = Status(step[n]) => Statuses' = Statuses
<1>1. step' = [step EXCEPT ![n] = s] /\ step \in [Calls -> Steps]
  BY DEF Goto, Inv, TypeOK, Steps
<1>2. \A m \in Calls : step'[m] = IF m = n THEN s ELSE step[m]
  BY <1>1
<1> QED BY <1>2 DEF Statuses

(* In a directory that does not exist no rename is synchronised. *)
LEMMA AbsentHoldsNothing ==
  ASSUME Inv, directory = "absent"
  PROVE  synced = 1
<1>1. Len(history) = 1
  BY DEF Inv, DirectoryThere
<1>2. synced \in 1 .. Len(history)
  BY DEF Inv, TypeOK
<1> QED BY <1>1, <1>2

(* The status of every statement. *)
LEMMA StatusFacts ==
  /\ Status("idle") = "idle"
  /\ \A s \in InProgress : Status(s) = "pending"
  /\ \A s \in Raised \cup {"escaped"} : Status(s) = "raised"
  /\ Status("returned") = "returned" /\ Status("cut") = "cut"
BY DEF Status, InProgress, BeforeTemporary, WithTemporary, Raised

(* A call that gives up is a write the register abandons. *)
LEMMA AbandonStep ==
  ASSUME Inv, Inv', NEW n \in Calls, step[n] \in InProgress,
         NEW s \in Raised \cup {"escaped", "cut"}, Goto(n, s),
         UNCHANGED <<platform, history>>, Kept' = Kept,
         directory' = "found" <=> directory = "found"
  PROVE  Register!Abandon(n)
<1>1. Values' = Values
  BY ValuesAreHistory
<1>2. Lasting' = Lasting
  BY DEF Lasting
<1>3. s \in Steps
  BY DEF Steps, Ended, Raised
<1>4. Statuses' = [Statuses EXCEPT ![n] = Status(s)] /\ Status(s) \in {"raised", "cut"}
  BY <1>3, StatusMoves, StatusFacts
<1>5. Statuses[n] = "pending"
  BY StatusFacts DEF Statuses
<1> QED
  BY <1>1, <1>2, <1>4, <1>5 DEF Register!Abandon, Values, Kept, Statuses

(* A statement before the rename is invisible to the register. *)
LEMMA InvisibleStep ==
  ASSUME Inv, Inv', NEW n \in Calls, step[n] \in InProgress,
         NEW s \in InProgress, Goto(n, s),
         UNCHANGED <<platform, history>>, Kept' = Kept,
         directory' = "found" <=> directory = "found"
  PROVE  UNCHANGED <<Values, Kept, Statuses, Lasting>>
<1>1. Values' = Values
  BY ValuesAreHistory
<1>2. Lasting' = Lasting
  BY DEF Lasting
<1>3. s \in Steps
  BY DEF Steps
<1>4. Statuses' = Statuses
  BY <1>3, StatusMoves, StatusFacts
<1> QED BY <1>1, <1>2, <1>4

(* os.replace is the instant at which a write takes effect. *)
LEMMA ReplaceTakesEffect ==
  ASSUME Inv, Inv', NEW n \in Calls, Replace(n)
  PROVE  Register!TakeEffect(n)
<1>1. /\ step[n] = "replace" /\ Goto(n, "sync_directory") /\ history' = Append(history, n)
      /\ UNCHANGED <<platform, directory, synced>>
  BY DEF Replace, At, environment
<1>2. Values = history /\ Values' = Append(history, n)
  BY <1>1, ValuesAreHistory
<1>3. \A i \in DOMAIN Values : Values[i] # n
  <2>1. step[n] \notin Renamed
    BY <1>1 DEF Renamed
  <2>2. DOMAIN history = 1 .. Len(history)
    BY LenProperties DEF Inv, TypeOK
  <2> QED BY <1>2, <2>1, <2>2, NotYetRenamed
<1>4. Statuses' = Statuses /\ Statuses[n] = "pending"
  <2>1. "replace" \in InProgress /\ "sync_directory" \in InProgress
        /\ "sync_directory" \in Steps
    BY DEF InProgress, WithTemporary, Steps
  <2>2. Status("replace") = "pending" /\ Status("sync_directory") = "pending"
    BY <2>1, StatusFacts
  <2>3. Statuses' = Statuses
    BY <1>1, <2>1, <2>2, StatusMoves
  <2> QED BY <1>1, <2>2, <2>3 DEF Statuses
<1>5. Kept' = Kept /\ Lasting' = Lasting
  BY <1>1 DEF Kept, Lasting
<1> QED BY <1>2, <1>3, <1>4, <1>5 DEF Register!TakeEffect, Values, Kept, Statuses

(* A call that returns has taken effect, for good where that is promised. *)
LEMMA SyncReturns ==
  ASSUME Inv, Inv', NEW n \in Calls, SyncDirectory(n)
  PROVE  Register!Return(n)
<1>1. /\ step[n] = "sync_directory" /\ Goto(n, "returned")
      /\ synced' = (IF platform = "nt" THEN synced ELSE Len(history))
      /\ UNCHANGED <<platform, directory, history>>
  BY DEF SyncDirectory, At, environment
<1>2. Values = history /\ Values' = history
  BY <1>1, ValuesAreHistory
<1>3. Len(history) \in Nat /\ Len(history) >= 1 /\ synced \in 1 .. Len(history)
  BY LenProperties, EmptySeq DEF Inv, TypeOK
<1>4. Kept' \in Kept .. Len(Values)
  BY <1>1, <1>2, <1>3 DEF Kept
<1>5. PICK i \in 1 .. Len(history) : history[i] = n
  BY <1>1 DEF Inv, RenameHappened
<1>6. Lasting => Kept' = Len(history)
  BY <1>1 DEF Lasting, Kept
<1>7. \E j \in 1 .. (IF Lasting THEN Kept' ELSE Len(Values)) : Values[j] = n
  BY <1>2, <1>5, <1>6
<1>8. Statuses' = [Statuses EXCEPT ![n] = "returned"] /\ Statuses[n] = "pending"
  BY <1>1, StatusMoves, StatusFacts DEF Statuses, InProgress, Steps, Ended
<1>9. Lasting' = Lasting
  BY <1>1 DEF Lasting
<1> QED BY <1>2, <1>4, <1>7, <1>8, <1>9 DEF Register!Return, Values, Kept, Statuses

(* A power failure takes back writes that are not kept, the latest first. *)
LEMMA PowerFailureRefines ==
  ASSUME Inv, Inv', PowerFailure
  PROVE  Register!PowerFailure
<1>1. Values = history /\ Values' = history'
  BY ValuesAreHistory
<1>2. Statuses' = [n \in Calls |-> IF Statuses[n] = "pending" THEN "cut" ELSE Statuses[n]]
  <2>1. \A n \in Calls : step'[n] = IF step[n] \in InProgress THEN "cut" ELSE step[n]
    BY DEF PowerFailure
  <2>2. \A n \in Calls : step[n] \in Steps
    BY DEF Inv, TypeOK, Steps
  <2>3. \A n \in Calls : Status(step[n]) = "pending" <=> step[n] \in InProgress
    BY <2>2, StatusFacts DEF Steps, Ended
  <2> QED BY <2>1, <2>3, StatusFacts DEF Statuses
<1>3. Lasting' = Lasting
  BY DEF PowerFailure, Lasting
<1>4. Len(history) \in Nat /\ Len(history) >= 1 /\ synced \in 1 .. Len(history)
  BY LenProperties, EmptySeq DEF Inv, TypeOK
<1>5. \E k \in Kept .. Len(Values) : Values' = SubSeq(Values, 1, k) /\ Kept' = k
  <2>1. CASE directory = "made" /\ directory' = "absent" /\ history' = <<0>> /\ synced' = 1
    <3>1. Kept = 1 /\ Kept' = 1
      BY <2>1 DEF Kept
    <3>2. history[1] = 0 /\ history[1] \in Files /\ 1 \in 1 .. Len(history)
      BY <1>4, ElementOfSeq DEF Inv, HistoryOfCalls, TypeOK
    <3>3. SubSeq(history, 1, 1) = <<0>>
      <4>1. /\ SubSeq(history, 1, 1) \in Seq(Files)
            /\ Len(SubSeq(history, 1, 1)) = IF 1 <= 1 THEN 1 - 1 + 1 ELSE 0
            /\ \A i \in 1 .. (1 - 1 + 1) : SubSeq(history, 1, 1)[i] = history[1 + i - 1]
        <5>1. \A i \in 1 .. 1 : history[i] \in Files
          BY <3>2
        <5> QED BY <5>1, SubSeqProperties
      <4>2. Len(SubSeq(history, 1, 1)) = 1 /\ SubSeq(history, 1, 1)[1] = 0
        BY <3>2, <4>1
      <4>3. 0 \in Files /\ <<0>> \in Seq(Files) /\ Len(<<0>>) = 1
        BY <3>2
      <4>4. \A i \in 1 .. 1 : SubSeq(history, 1, 1)[i] = <<0>>[i]
        BY <4>2
      <4> QED BY <4>1, <4>2, <4>3, <4>4, SeqEqual
    <3>4. 1 \in Kept .. Len(Values)
      BY <1>1, <1>4, <3>1
    <3>5. Values' = SubSeq(Values, 1, 1)
      BY <1>1, <2>1, <3>3, Zenon
    <3> QED BY <3>1, <3>4, <3>5
  <2>2. ASSUME NEW k \in synced .. Len(history), history' = SubSeq(history, 1, k),
               synced' = k, directory' = IF directory = "made" THEN "kept" ELSE directory
        PROVE  \E j \in Kept .. Len(Values) : Values' = SubSeq(Values, 1, j) /\ Kept' = j
    <3>1. k \in Kept .. Len(history) /\ Kept' = k
      BY <1>4, <2>2 DEF Kept
    <3> QED BY <1>1, <2>2, <3>1
  <2> QED BY <2>1, <2>2 DEF PowerFailure
<1> QED BY <1>2, <1>3, <1>5 DEF Register!PowerFailure, Values, Kept, Statuses

(* The calls implement the durable register. *)
THEOREM RefinesRegister == Spec => ImplementsRegister
<1>1. Init => Register!Init
  <2> SUFFICES ASSUME Init PROVE Register!Init
    OBVIOUS
  <2>1. Values = <<0>>
    <3>1. Values = history
      BY InitInv, ValuesAtOnce
    <3> QED BY <3>1 DEF Init
  <2>2. Kept = 1 /\ Statuses = [n \in Calls |-> "idle"] /\ Lasting \in BOOLEAN
    BY StatusFacts DEF Init, Kept, Statuses, Lasting
  <2> QED BY <2>1, <2>2 DEF Register!Init, Values, Kept, Statuses
<1>2. ASSUME Inv, Inv', [Next]_vars
      PROVE  Register!Next \/ UNCHANGED <<Values, Kept, Statuses, Lasting>>
  <2> USE <1>2
  <2> USE DEF InProgress, BeforeTemporary, WithTemporary
  <2>1. CASE UNCHANGED vars
    BY <2>1 DEF vars, Values, Kept, Statuses, Lasting
  <2>2. ASSUME NEW n \in Calls, Begin(n) PROVE Register!Begin(n)
    <3>1. /\ step[n] = "idle" /\ Goto(n, "mkdir") /\ "mkdir" \in Steps
          /\ UNCHANGED <<platform, directory, history, synced>>
      BY <2>2 DEF Begin, At, environment, Steps
    <3>2. Values' = Values /\ Kept' = Kept /\ Lasting' = Lasting
      BY <3>1, ValuesAreHistory DEF Kept, Lasting
    <3>3. Statuses' = [Statuses EXCEPT ![n] = "pending"] /\ Statuses[n] = "idle"
      BY <3>1, StatusMoves, StatusFacts DEF Statuses
    <3> QED BY <3>2, <3>3 DEF Register!Begin, Values, Kept, Statuses
  <2>3. ASSUME NEW n \in Calls, MakeDirectory(n)
        PROVE  Register!Abandon(n) \/ UNCHANGED <<Values, Kept, Statuses, Lasting>>
    <3>1. /\ step[n] = "mkdir" /\ \E s \in {"raised", "mkstemp", "escaped"} : Goto(n, s)
          /\ directory' = (IF directory = "absent" THEN "made" ELSE directory)
          /\ UNCHANGED <<platform, history, synced>>
      BY <2>3 DEF MakeDirectory, At, environment
    <3>2. Kept' = Kept
      <4>1. directory = "absent" => synced = 1
        BY AbsentHoldsNothing
      <4> QED BY <3>1, <4>1 DEF Kept
    <3>3. (directory' = "found" <=> directory = "found") /\ step[n] \in InProgress
      BY <3>1
    <3>4. CASE \E s \in {"raised", "escaped"} : Goto(n, s)
      BY <3>1, <3>2, <3>3, <3>4, AbandonStep DEF Raised
    <3>5. CASE Goto(n, "mkstemp")
      BY <3>1, <3>2, <3>3, <3>5, InvisibleStep
    <3> QED BY <3>1, <3>4, <3>5
  <2>4. ASSUME NEW n \in Calls, MakeTemporary(n) \/ Write(n) \/ Flush(n) \/ Fsync(n)
        PROVE  UNCHANGED <<Values, Kept, Statuses, Lasting>>
    <3>1. /\ step[n] \in InProgress /\ \E s \in InProgress : Goto(n, s)
          /\ UNCHANGED <<platform, directory, history, synced>>
      BY <2>4 DEF MakeTemporary, Write, Flush, Fsync, At, environment
    <3> QED BY <3>1, InvisibleStep DEF Kept
  <2>5. ASSUME NEW n \in Calls, RaiseOSError(n) \/ CloseFails(n) \/ Unlink(n) \/ Kill(n)
        PROVE  Register!Abandon(n) \/ UNCHANGED <<Values, Kept, Statuses, Lasting>>
    <3>1. /\ step[n] \in InProgress
          /\ Kept' = Kept /\ UNCHANGED <<platform, directory, history>>
      BY <2>5 DEF RaiseOSError, CloseFails, Unlink, Kill, At, environment, Kept
    <3>2. \/ \E s \in Raised \cup {"escaped", "cut"} : Goto(n, s)
          \/ Goto(n, "unlink")
      BY <2>5 DEF RaiseOSError, CloseFails, Unlink, Kill, At, Raised
    <3>3. CASE \E s \in Raised \cup {"escaped", "cut"} : Goto(n, s)
      BY <3>1, <3>3, AbandonStep
    <3>4. CASE Goto(n, "unlink")
      BY <3>1, <3>4, InvisibleStep
    <3> QED BY <3>2, <3>3, <3>4
  <2> QED
    BY <2>1, <2>2, <2>3, <2>4, <2>5, ReplaceTakesEffect, SyncReturns, PowerFailureRefines
    DEF Next, Run, Register!Next
<1>3. ASSUME Inv, Inv', [Next]_vars PROVE [Register!Next]_(Register!vars)
  BY <1>2, <1>3 DEF Register!vars, Values, Kept, Statuses
<1> QED BY <1>1, <1>3, Invariance, PTL DEF Spec, ImplementsRegister, Register!Spec
=============================================================================

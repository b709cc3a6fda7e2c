--------------------------- MODULE DurableRegister ---------------------------
(***************************************************************************)
(* What atomic_write_bytes (persistence.py) promises: the destination is a *)
(* register that changes to a whole new value at one instant, at most once *)
(* per write.  A write that returned has taken effect, and where the       *)
(* platform can promise it, no power failure undoes it; a write that       *)
(* raised or was cut short may or may not have taken effect.               *)
(***************************************************************************)
EXTENDS Integers, Sequences

CONSTANT Calls

VARIABLES
  values,     \* what the register has held, oldest first; the last is current
  kept,       \* how many of them no power failure can take back
  status,     \* of each write
  lasting     \* whether returned writes are promised to last

vars == <<values, kept, status, lasting>>

Init ==
  /\ values = <<0>>
  /\ kept = 1
  /\ status = [n \in Calls |-> "idle"]
  /\ lasting \in BOOLEAN

Begin(n) ==
  /\ status[n] = "idle"
  /\ status' = [status EXCEPT ![n] = "pending"]
  /\ UNCHANGED <<values, kept, lasting>>

TakeEffect(n) ==
  /\ status[n] = "pending"
  /\ \A i \in DOMAIN values : values[i] # n
  /\ values' = Append(values, n)
  /\ UNCHANGED <<kept, status, lasting>>

\* Success: the write is among the values, and among the kept ones if promised.
Return(n) ==
  /\ status[n] = "pending"
  /\ kept' \in kept .. Len(values)
  /\ \E i \in 1 .. (IF lasting THEN kept' ELSE Len(values)) : values[i] = n
  /\ status' = [status EXCEPT ![n] = "returned"]
  /\ UNCHANGED <<values, lasting>>

Abandon(n) ==
  /\ status[n] = "pending"
  /\ status' \in {[status EXCEPT ![n] = s] : s \in {"raised", "cut"}}
  /\ UNCHANGED <<values, kept, lasting>>

PowerFailure ==
  /\ \E k \in kept .. Len(values) : values' = SubSeq(values, 1, k) /\ kept' = k
  /\ status' = [n \in Calls |-> IF status[n] = "pending" THEN "cut" ELSE status[n]]
  /\ UNCHANGED lasting

Next ==
  \/ \E n \in Calls : Begin(n) \/ TakeEffect(n) \/ Return(n) \/ Abandon(n)
  \/ PowerFailure

Spec == Init /\ [][Next]_vars
=============================================================================

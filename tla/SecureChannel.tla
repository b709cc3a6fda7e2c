---------------------------- MODULE SecureChannel ----------------------------
(***************************************************************************)
(* What an established session promises to the application, with no keys,  *)
(* windows, locks or packets in sight: whatever an endpoint's decrypt      *)
(* returns is a plaintext that its own peer's encrypt accepted, with the   *)
(* position it had in the peer's stream, and each position is returned at  *)
(* most once.  Loss and reordering are allowed.                            *)
(***************************************************************************)
EXTENDS Integers, Sequences

CONSTANTS Endpoints, Peer, Plaintexts

VARIABLES sent,       \* plaintexts each endpoint sent, in order
          received    \* what each endpoint received: position and plaintext

Init ==
  /\ sent = [e \in Endpoints |-> << >>]
  /\ received = [e \in Endpoints |-> << >>]

Send(e, b) ==
  /\ sent' = [sent EXCEPT ![e] = Append(@, b)]
  /\ UNCHANGED received

Deliver(e, i) ==
  /\ \A k \in DOMAIN received[e] : received[e][k].sequence # i - 1
  /\ received' = [received EXCEPT ![e] =
                    Append(@, [sequence |-> i - 1, body |-> sent[Peer[e]][i]])]
  /\ UNCHANGED sent

Next ==
  \E e \in Endpoints :
    \/ \E b \in Plaintexts : Send(e, b)
    \/ \E i \in DOMAIN sent[Peer[e]] : Deliver(e, i)

Spec == Init /\ [][Next]_<<sent, received>>
=============================================================================

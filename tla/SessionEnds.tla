---------------------------- MODULE SessionEnds ----------------------------
(***************************************************************************)
(* What SessionState.encrypt and decrypt take for granted of the values a  *)
(* SessionState was constructed with: Session assumes it of its endpoints, *)
(* Handshake shows it of the sessions that complete() returns.             *)
(***************************************************************************)

\* Every end has a peer with its suite, another name and another ephemeral
\* key, and shares its root key with that peer only.
EndsFit(ends, peer, name, suite_name, root, ephemeral_key) ==
  /\ peer \in [ends -> ends]
  /\ \A e \in ends :
       /\ peer[peer[e]] = e
       /\ suite_name[peer[e]] = suite_name[e]
       /\ name[peer[e]] # name[e]
       /\ ephemeral_key[peer[e]] # ephemeral_key[e]
  /\ \A e, f \in ends : root[e] = root[f] <=> f \in {e, peer[e]}
=============================================================================

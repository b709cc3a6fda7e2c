------------------------------ MODULE MCSession ------------------------------
(* Two sessions between the same two people with the same suite, so that   *)
(* nothing but keys tells their packets apart.                             *)
EXTENDS Session, TLC

MCEndpoints == {"a1", "b1", "a2", "b2"}
MCPeer == [a1 |-> "b1", b1 |-> "a1", a2 |-> "b2", b2 |-> "a2"]
MCName == [a1 |-> "alice", b1 |-> "bob", a2 |-> "alice", b2 |-> "bob"]
MCSuite == [a1 |-> "AES_GCM_SIV", b1 |-> "AES_GCM_SIV",
            a2 |-> "AES_GCM_SIV", b2 |-> "AES_GCM_SIV"]
MCRoot == [a1 |-> 1, b1 |-> 1, a2 |-> 2, b2 |-> 2]
MCEphemeral == [a1 |-> 11, b1 |-> 12, a2 |-> 21, b2 |-> 22]

\* One session, for longer exchanges.
OneEndpoints == {"a1", "b1"}
OnePeer == [a1 |-> "b1", b1 |-> "a1"]

MCSymmetry == Permutations(Threads)
=============================================================================

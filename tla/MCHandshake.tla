---------------------------- MODULE MCHandshake ----------------------------
(* Alice and Bob, and a namesake of Bob with a signing key of his own.     *)
EXTENDS Handshake

Alice == [name |-> "alice", key |-> "alice_key"]
Bob == [name |-> "bob", key |-> "bob_key"]
Namesake == [name |-> "bob", key |-> "namesake_key"]
MCIdentities == {Alice, Bob, Namesake}

Invitation(i, remote_name, anchor, suite, supplemental) ==
  [identity |-> i, remote_name |-> remote_name, anchor |-> anchor.key,
   suite |-> suite, supplemental |-> supplemental]

Acceptance(i, anchor, supplemental) ==
  [identity |-> i, anchor |-> anchor.key, supplemental |-> supplemental]

\* Alice invites Bob, with either suite; Bob invites Alice; Alice herself.
MCInvitations ==
  {Invitation(Alice, "bob", Bob, "AES_GCM_SIV", "none"),
   Invitation(Alice, "bob", Bob, "CHACHA20_POLY1305", "none"),
   Invitation(Bob, "alice", Alice, "AES_GCM_SIV", "none"),
   Invitation(Alice, "alice", Alice, "AES_GCM_SIV", "none")}

\* Bob with and without another supplemental secret, the namesake, Alice, and
\* Bob expecting the namesake.
MCAcceptances ==
  {Acceptance(Bob, Alice, "none"),
   Acceptance(Bob, Alice, "other"),
   Acceptance(Namesake, Alice, "none"),
   Acceptance(Alice, Bob, "none"),
   Acceptance(Bob, Namesake, "none")}

\* One honest pair, for the runs about what happens after a handshake starts.
OneInvitation == {Invitation(Alice, "bob", Bob, "AES_GCM_SIV", "none")}
TwoAcceptances == {Acceptance(Bob, Alice, "none"), Acceptance(Bob, Alice, "other")}
OneAcceptance == {Acceptance(Bob, Alice, "none")}
=============================================================================

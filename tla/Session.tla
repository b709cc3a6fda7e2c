------------------------------ MODULE Session ------------------------------
(***************************************************************************)
(* The established sessions of session.py: SessionState.encrypt and        *)
(* SessionState.decrypt at both endpoints of any number of sessions, each  *)
(* SessionState shared by several threads.                                 *)
(*                                                                         *)
(* Cryptography is symbolic: a derived key is the tuple of what it is      *)
(* derived from, a ciphertext is the key, the associated data and the      *)
(* plaintext it was sealed with, and it opens under the same key and       *)
(* associated data only.  The application moves packets as it likes: every *)
(* packet ever returned by encrypt may be lost, repeated, reordered, given *)
(* to any endpoint, or damaged in one field on the way.                    *)
(***************************************************************************)
EXTENDS Replay, Sequences, SessionEnds

CONSTANTS
  Endpoints,      \* SessionState objects
  Peer,           \* the other endpoint of the same handshake
  local_name,     \* [Endpoints -> names]
  suite,          \* [Endpoints -> suites]
  root_key,       \* [Endpoints -> root keys]
  ephemeral,      \* [Endpoints -> ephemeral public keys]
  Threads, NoThread,
  Plaintexts,     \* plaintexts callers pass to encrypt
  Oversized,      \* those longer than MAX_PLAINTEXT_BYTES
  MaxCalls        \* bound on the number of calls

\* What the two complete() methods of one handshake give their SessionStates:
\* mirrored names, one suite and one root of their own, distinct ephemerals.
ASSUME EndpointAssumption ==
  EndsFit(Endpoints, Peer, local_name, suite, root_key, ephemeral)

ASSUME NoThreadAssumption == NoThread \notin Threads
ASSUME MaxCallsAssumption == MaxCalls \in Nat

VARIABLES
  send_sequence,  \* SessionState.send_sequence
  send_lock,      \* holder of _send_lock
  window,         \* SessionState.replay_window
  replay_lock,    \* holder of replay_window._lock
  call,           \* what each thread is doing
  calls,          \* calls made so far (bounds the model)
  sent,           \* history: packets each endpoint's encrypt returned, in order
  received        \* history: what each endpoint's decrypt returned, in order

vars == <<send_sequence, send_lock, window, replay_lock, call, calls, sent, received>>

-----------------------------------------------------------------------------
(* Envelopes and keys *)

PROTOCOL_VERSION == 1
MAX_PROTOCOL_VERSION == 65535

remote_name(e) == local_name[Peer[e]]

\* derive_message_key: key and nonce together, through derive_directional_secret.
MessageKey(root, sequence, suite_name, sender_public_key, recipient_public_key) ==
  [root |-> root, sequence |-> sequence, suite |-> suite_name,
   sender |-> sender_public_key, recipient |-> recipient_public_key]

SendKey(e, s) == MessageKey(root_key[e], s, suite[e], ephemeral[e], ephemeral[Peer[e]])

\* Faulty: both directions derive from (local, remote).
ReceiveKeySameDirection(e, s) == SendKey(e, s)

ReceiveKey(e, s) == MessageKey(root_key[e], s, suite[e], ephemeral[Peer[e]], ephemeral[e])

\* MessageEnvelope.associated_data: every field but the ciphertext.
associated_data(p) ==
  [version |-> p.version, suite |-> p.suite, sender |-> p.sender,
   recipient |-> p.recipient, sequence |-> p.sequence]

\* The header encrypt builds.
Header(e, s) ==
  [version |-> PROTOCOL_VERSION, suite |-> suite[e], sender |-> local_name[e],
   recipient |-> remote_name(e), sequence |-> s]

\* The AEAD output; a ciphertext damaged on the way is no longer intact.
Ciphertext(key, ad, body) == [key |-> key, ad |-> ad, body |-> body, intact |-> TRUE]

Packet(e, s, body) ==
  [version |-> PROTOCOL_VERSION, suite |-> suite[e], sender |-> local_name[e],
   recipient |-> remote_name(e), sequence |-> s,
   ciphertext |-> Ciphertext(SendKey(e, s), Header(e, s), body)]

\* MessageEnvelope._validate_metadata, but for the format of each name.
ValidMetadata(p) ==
  /\ p.version \in 1 .. MAX_PROTOCOL_VERSION
  /\ p.sender # p.recipient
  /\ ValidSequence(p.sequence)

\* MessageEnvelope.from_bytes returns: the bytes of a packet, damaged or not,
\* are the canonical encoding of its fields.
WellFormed(p) == ValidMetadata(p)

\* The four comparisons decrypt makes before it touches the replay window.
Addressed(e, p) ==
  /\ p.version = PROTOCOL_VERSION
  /\ p.suite = suite[e]
  /\ p.recipient = local_name[e]
  /\ p.sender = remote_name(e)

\* Faulty: the key does not depend on session, direction or sequence.
OpensByHeaderOnly(e, p) ==
  /\ p.ciphertext.intact
  /\ p.ciphertext.ad = associated_data(p)

\* The closure authenticate(): derive the key, then AEAD decrypt.
Opens(e, p) ==
  /\ p.ciphertext.intact
  /\ p.ciphertext.key = ReceiveKey(e, p.sequence)
  /\ p.ciphertext.ad = associated_data(p)

\* What the application's transport may hand to decrypt.
Network == UNION {{sent[e][i] : i \in DOMAIN sent[e]} : e \in Endpoints}

Damaged(p) ==
  LET names == {local_name[e] : e \in Endpoints}
      suites == {suite[e] : e \in Endpoints}
  IN  {[p EXCEPT !.version = v] : v \in 0 .. 2}
      \cup {[p EXCEPT !.suite = s] : s \in suites}
      \cup {[p EXCEPT !.sender = n] : n \in names}
      \cup {[p EXCEPT !.recipient = n] : n \in names}
      \cup {[p EXCEPT !.sequence = s] : s \in 0 .. (MAX_MESSAGE_SEQUENCE + 1)}
      \cup {[p EXCEPT !.ciphertext = q.ciphertext] : q \in Network}
      \cup {[p EXCEPT !.ciphertext.intact = FALSE]}

InTransit == Network \cup UNION {Damaged(p) : p \in Network}

-----------------------------------------------------------------------------
Idle == [at |-> "idle"]

Init ==
  /\ send_sequence = [e \in Endpoints |-> 0]
  /\ send_lock = [e \in Endpoints |-> NoThread]
  /\ window = [e \in Endpoints |-> NewWindow]
  /\ replay_lock = [e \in Endpoints |-> NoThread]
  /\ call = [t \in Threads |-> Idle]
  /\ calls = 0
  /\ sent = [e \in Endpoints |-> << >>]
  /\ received = [e \in Endpoints |-> << >>]

Start(t, c) ==
  /\ call[t].at = "idle"
  /\ calls < MaxCalls
  /\ calls' = calls + 1
  /\ call' = [call EXCEPT ![t] = c]
  /\ UNCHANGED <<send_sequence, send_lock, window, replay_lock, sent, received>>

Finish(t) ==
  /\ call' = [call EXCEPT ![t] = Idle]
  /\ UNCHANGED calls

\* encrypt up to the lock; an oversized plaintext is refused and changes nothing.
Encrypt(t, e, body) ==
  /\ body \notin Oversized
  /\ Start(t, [at |-> "encrypting", endpoint |-> e, body |-> body])

\* Read send_sequence and go on to seal the message under it.
Claim(t) ==
  LET e == call[t].endpoint
  IN  /\ call[t].at = "encrypting"
      /\ send_lock' = [send_lock EXCEPT ![e] = t]
      /\ call' = [call EXCEPT ![t] = [at |-> "sealing", endpoint |-> e,
                                      body |-> call[t].body,
                                      sequence |-> send_sequence[e]]]
      /\ UNCHANGED <<send_sequence, window, replay_lock, calls, sent, received>>

Unlocked(lock, t) == call[t].at # "idle" /\ lock[call[t].endpoint] = NoThread
InRange(t) == send_sequence[call[t].endpoint] <= MAX_MESSAGE_SEQUENCE

\* Faulty: the sequence number is read outside the lock.
ClaimWithoutLock(t) == Claim(t) /\ InRange(t)

\* Faulty: the exhausted sequence is not noticed.
ClaimBeyondRange(t) == Unlocked(send_lock, t) /\ Claim(t)

\* with self._send_lock, the sequence is exhausted: OverflowError.
EncryptExhausted(t) ==
  /\ call[t].at = "encrypting"
  /\ Unlocked(send_lock, t)
  /\ ~InRange(t)
  /\ Finish(t)
  /\ UNCHANGED <<send_sequence, send_lock, window, replay_lock, sent, received>>

\* with self._send_lock: sequence = self.send_sequence.
ClaimSequence(t) == Unlocked(send_lock, t) /\ Claim(t) /\ InRange(t)

AbandonSealing(t) ==
  /\ call[t].at = "sealing"
  /\ Finish(t)
  /\ UNCHANGED <<window, replay_lock, sent, received>>

Release(t) == send_lock' = [send_lock EXCEPT ![call[t].endpoint] = NoThread]

\* Faulty: the number is consumed before sealing can fail.
EncryptRaisesConsuming(t) ==
  /\ AbandonSealing(t)
  /\ Release(t)
  /\ send_sequence' = [send_sequence EXCEPT ![call[t].endpoint] = @ + 1]

\* Faulty: an exception leaves the lock held.
EncryptRaisesHoldingLock(t) == AbandonSealing(t) /\ UNCHANGED <<send_lock, send_sequence>>

\* An exception while building, deriving, sealing or encoding: the sequence
\* number is not consumed and no packet leaves.
EncryptRaises(t) == AbandonSealing(t) /\ Release(t) /\ UNCHANGED send_sequence

\* Seal, encode, advance send_sequence and return the packet.
EncryptReturns(t) ==
  LET e == call[t].endpoint
  IN  /\ call[t].at = "sealing"
      /\ sent' = [sent EXCEPT ![e] = Append(@, Packet(e, call[t].sequence, call[t].body))]
      /\ send_sequence' = [send_sequence EXCEPT ![e] = @ + 1]
      /\ Release(t)
      /\ Finish(t)
      /\ UNCHANGED <<window, replay_lock, received>>

-----------------------------------------------------------------------------
\* decrypt up to the replay window's lock; anything else is refused, unseen by
\* the window.
Decrypt(t, e, p) ==
  /\ WellFormed(p)
  /\ Addressed(e, p)
  /\ Start(t, [at |-> "decrypting", endpoint |-> e, packet |-> p])

\* Faulty: the window is checked outside its lock.
EnterWindowWithoutLock(t) ==
  LET e == call[t].endpoint
  IN  /\ call[t].at = "decrypting"
      /\ CheckUnlocked(window[e], call[t].packet.sequence)
      /\ replay_lock' = [replay_lock EXCEPT ![e] = t]
      /\ call' = [call EXCEPT ![t].at = "authenticating"]
      /\ UNCHANGED <<send_sequence, send_lock, window, calls, sent, received>>

\* authenticate_and_record: lock and check, then the operation runs.
EnterWindow(t) == Unlocked(replay_lock, t) /\ EnterWindowWithoutLock(t)

\* authenticate_and_record: lock, check and - ReplayDetectedError - unlock.
ReplayDetected(t) ==
  /\ call[t].at = "decrypting"
  /\ Unlocked(replay_lock, t)
  /\ ~CheckUnlocked(window[call[t].endpoint], call[t].packet.sequence)
  /\ Finish(t)
  /\ UNCHANGED <<send_sequence, send_lock, window, replay_lock, sent, received>>

\* The operation has raised or returned: unlock.
LeaveWindow(t) ==
  /\ call[t].at = "authenticating"
  /\ replay_lock' = [replay_lock EXCEPT ![call[t].endpoint] = NoThread]
  /\ Finish(t)
  /\ UNCHANGED <<send_sequence, send_lock, sent>>

Record(t) ==
  window' = [window EXCEPT ![call[t].endpoint] = RecordUnlocked(@, call[t].packet.sequence)]

Deliver(t) ==
  LET p == call[t].packet
  IN  /\ Opens(call[t].endpoint, p)
      /\ received' = [received EXCEPT ![call[t].endpoint] =
                        Append(@, [sequence |-> p.sequence, body |-> p.ciphertext.body])]

Refuse(t) == ~Opens(call[t].endpoint, call[t].packet) /\ UNCHANGED received

\* Faulty: the window is moved before the packet is authenticated.
AuthenticationFailsRecorded(t) == LeaveWindow(t) /\ Refuse(t) /\ Record(t)

\* The operation raises InvalidTag: nothing is recorded.
AuthenticationFails(t) == LeaveWindow(t) /\ Refuse(t) /\ UNCHANGED window

\* Faulty: the window is not told of the message.
DecryptReturnsUnrecorded(t) == LeaveWindow(t) /\ Deliver(t) /\ UNCHANGED window

\* The operation returns the plaintext: record, unlock, return it.
DecryptReturns(t) == LeaveWindow(t) /\ Deliver(t) /\ Record(t)

\* The steps of a call in progress.
Run(t) ==
  \/ EncryptExhausted(t)
  \/ ClaimSequence(t)
  \/ EncryptRaises(t)
  \/ EncryptReturns(t)
  \/ ReplayDetected(t)
  \/ EnterWindow(t)
  \/ AuthenticationFails(t)
  \/ DecryptReturns(t)

Next ==
  \E t \in Threads :
    \/ \E e \in Endpoints, b \in Plaintexts : Encrypt(t, e, b)
    \/ \E e \in Endpoints, p \in InTransit : Decrypt(t, e, p)
    \/ Run(t)

Spec == Init /\ [][Next]_vars

\* The interpreter keeps scheduling a thread that can run.
FairSpec == Spec /\ \A t \in Threads : WF_vars(Run(t))

-----------------------------------------------------------------------------
TypeOK ==
  /\ send_sequence \in [Endpoints -> 0 .. (MAX_MESSAGE_SEQUENCE + 1)]
  /\ send_lock \in [Endpoints -> Threads \cup {NoThread}]
  /\ window \in [Endpoints -> Window]
  /\ replay_lock \in [Endpoints -> Threads \cup {NoThread}]
  /\ calls \in 0 .. MaxCalls
  /\ \A t \in Threads :
       /\ call[t].at \in {"idle", "encrypting", "sealing", "decrypting", "authenticating"}
       /\ call[t].at # "idle" => call[t].endpoint \in Endpoints
       /\ call[t].at \in {"encrypting", "sealing"} => call[t].body \in Plaintexts
       /\ call[t].at = "sealing" => call[t].sequence \in Sequence
       /\ call[t].at \in {"decrypting", "authenticating"} =>
            call[t].packet.sequence \in Sequence
  /\ \A e \in Endpoints :
       /\ \A i \in DOMAIN sent[e] :
            /\ sent[e][i].sequence \in Sequence
            /\ sent[e][i].ciphertext.body \in Plaintexts \ Oversized
       /\ \A i \in DOMAIN received[e] :
            received[e][i] \in [sequence : Sequence, body : Plaintexts]

(* No two packets that ever left an encrypt call, of any endpoint of any   *)
(* session, were sealed under the same message key and nonce, although     *)
(* threads share a SessionState and a call may fail after it read          *)
(* send_sequence: the send lock around lines 82 to 110.                    *)
KeyUsedOnce ==
  \A e, f \in Endpoints : \A i \in DOMAIN sent[e], j \in DOMAIN sent[f] :
    sent[e][i].ciphertext.key = sent[f][j].ciphertext.key => e = f /\ i = j

(* The i-th packet that leaves an endpoint carries sequence number i - 1   *)
(* and send_sequence is the next one: a failed call leaves no gap, which   *)
(* the receiver's window would count as lost messages.                     *)
NoSequenceGap ==
  \A e \in Endpoints :
    /\ send_sequence[e] = Len(sent[e])
    /\ \A i \in DOMAIN sent[e] : sent[e][i].sequence = i - 1

(* What decrypt returned is what the endpoint's own peer encrypted under   *)
(* that sequence number: not a reflected, damaged, spliced or foreign      *)
(* packet.                                                                 *)
ReceivedWasSent ==
  \A e \in Endpoints : \A k \in DOMAIN received[e] :
    \E i \in DOMAIN sent[Peer[e]] :
      /\ sent[Peer[e]][i].sequence = received[e][k].sequence
      /\ sent[Peer[e]][i].ciphertext.body = received[e][k].body

(* A packet given to decrypt twice, even by two threads at once, is        *)
(* returned once.                                                          *)
ReceivedOnce ==
  \A e \in Endpoints : \A j, k \in DOMAIN received[e] :
    received[e][j].sequence = received[e][k].sequence => j = k

(* Only authenticated traffic moves the window: highest_seen is a number   *)
(* the endpoint received (or -1), seen only holds such numbers, and so     *)
(* neither runs ahead of the peer's send_sequence.                         *)
WindowFollowsPeer ==
  \A e \in Endpoints :
    LET accepted == {received[e][k].sequence : k \in DOMAIN received[e]}
    IN  /\ window[e].highest_seen \in accepted \cup {-1}
        /\ window[e].seen \subseteq accepted
        /\ window[e].highest_seen < send_sequence[Peer[e]]

(* Every packet an endpoint sent passes all of its peer's tests but the    *)
(* replay window's: the two ends derive the same key from mirrored fields. *)
GenuineOpens ==
  \A e \in Endpoints : \A i \in DOMAIN sent[e] :
    /\ WellFormed(sent[e][i])
    /\ Addressed(Peer[e], sent[e][i])
    /\ Opens(Peer[e], sent[e][i])

(* A decrypt call given an undamaged packet of the peer raises only if the *)
(* same sequence number was received before or one at least WindowSize     *)
(* ahead of it was.                                                        *)
NoFalseReject ==
  [][\A t \in Threads :
       LET c == call[t]
       IN  /\ c.at \in {"decrypting", "authenticating"}
           /\ call'[t].at = "idle"
           /\ received' = received
           /\ \E i \in DOMAIN sent[Peer[c.endpoint]] :
                sent[Peer[c.endpoint]][i] = c.packet
           => \E k \in DOMAIN received[c.endpoint] :
                LET r == received[c.endpoint][k].sequence
                IN  r = c.packet.sequence \/ r >= c.packet.sequence + WindowSize]_vars

(* Every encrypt and decrypt call returns or raises: neither lock is left  *)
(* held by an exception.                                                   *)
CallsReturn == \A t \in Threads : call[t].at # "idle" ~> call[t].at = "idle"

Channel == INSTANCE SecureChannel
  WITH sent <- [e \in Endpoints |->
                  [i \in DOMAIN sent[e] |-> sent[e][i].ciphertext.body]]

(* The sessions implement the abstract channel. *)
ImplementsChannel == Channel!Spec
=============================================================================

-------------------------- MODULE HandshakeMessages --------------------------
(***************************************************************************)
(* The three handshake messages of handshake.py, what their signatures     *)
(* cover, the keys derived from them (kdf.py) and the tests the two        *)
(* complete() methods of session.py put them to.                           *)
(*                                                                         *)
(* Cryptography is symbolic: a signature is the signer's key with what was *)
(* signed, a derived key is the record of its inputs, and an exchange of   *)
(* two ephemeral keys is the pair of them, whichever side computes it.     *)
(* Messages carry no version: every constructor accepts PROTOCOL_VERSION   *)
(* only, so two messages never differ in it.  A definition whose comment    *)
(* begins with "Faulty" is a slip the code could contain, kept to show     *)
(* that the properties notice it.                                          *)
(***************************************************************************)

Suites == {"AES_GCM_SIV", "CHACHA20_POLY1305"}

\* Identity.sign and Identity.verify_signature.
Sign(identity, payload) == [key |-> identity.key, payload |-> payload]
Verifies(payload, signature, public_key) ==
  /\ signature.key = public_key
  /\ signature.payload = payload

Exchange(public, other) == {public, other}

-----------------------------------------------------------------------------
(* HandshakeOffer *)

OfferPayload(o) ==
  [kind |-> "offer", suite |-> o.suite,
   initiator |-> o.initiator, responder |-> o.responder,
   initiator_ephemeral |-> o.initiator_ephemeral,
   initiator_signing |-> o.initiator_signing]

\* The constructor's tests that depend on more than one field's format.
ValidParticipants(m) ==
  /\ m.suite \in Suites
  /\ m.initiator # m.responder

MakeOffer(identity, remote_name, suite, ephemeral) ==
  LET unsigned == [suite |-> suite, initiator |-> identity.name, responder |-> remote_name,
                   initiator_ephemeral |-> ephemeral, initiator_signing |-> identity.key,
                   signature |-> << >>]
  IN  [unsigned EXCEPT !.signature = Sign(identity, OfferPayload(unsigned))]

-----------------------------------------------------------------------------
(* Transcript and keys *)

\* handshake_transcript: every field of the offer, its signature included,
\* and the responder's two public keys.
Transcript(o, responder_ephemeral, responder_signing) ==
  [offer |-> o, responder_ephemeral |-> responder_ephemeral,
   responder_signing |-> responder_signing]

\* Faulty: neither the exchange nor the transcript enters the root.
SessionRootOfSupplement(shared_secret, transcript, supplemental_secret) ==
  [shared |-> << >>, transcript |-> << >>, supplemental |-> supplemental_secret]

\* derive_session_root
SessionRoot(shared_secret, transcript, supplemental_secret) ==
  [shared |-> shared_secret, transcript |-> transcript,
   supplemental |-> supplemental_secret]

\* derive_key_confirmation
KeyConfirmation(root, transcript, role) ==
  [root |-> root, transcript |-> transcript, role |-> role]

-----------------------------------------------------------------------------
(* HandshakeResponse *)

validate_for_offer(r, o) ==
  /\ r.suite = o.suite
  /\ r.initiator = o.initiator
  /\ r.responder = o.responder
  /\ r.initiator_ephemeral = o.initiator_ephemeral
  /\ r.initiator_signing = o.initiator_signing

ResponsePayload(transcript, responder_confirmation) ==
  [kind |-> "response", transcript |-> transcript,
   responder_confirmation |-> responder_confirmation]

\* SessionFactory.responder: from_offer, root, confirmation and signature.
MakeResponse(identity, o, ephemeral, root) ==
  LET transcript == Transcript(o, ephemeral, identity.key)
      confirmation == KeyConfirmation(root, transcript, "responder")
  IN  [suite |-> o.suite, initiator |-> o.initiator, responder |-> o.responder,
       initiator_ephemeral |-> o.initiator_ephemeral,
       initiator_signing |-> o.initiator_signing,
       responder_ephemeral |-> ephemeral,
       responder_signing |-> identity.key,
       responder_confirmation |-> confirmation,
       signature |-> Sign(identity, ResponsePayload(transcript, confirmation))]

\* The transcript an initiator sees.
InitiatorTranscript(h, r) == Transcript(h.offer, r.responder_ephemeral, r.responder_signing)

\* The root an initiator derives from a response to its offer.
InitiatorRoot(h, r) ==
  SessionRoot(Exchange(h.offer.initiator_ephemeral, r.responder_ephemeral),
              InitiatorTranscript(h, r), h.supplemental)

SignedResponse(h, r, anchor) ==
  /\ validate_for_offer(r, h.offer)
  /\ Verifies(ResponsePayload(InitiatorTranscript(h, r), r.responder_confirmation),
              r.signature, anchor)

ConfirmedResponse(h, r) ==
  r.responder_confirmation =
    KeyConfirmation(InitiatorRoot(h, r), InitiatorTranscript(h, r), "responder")

\* Faulty: the key confirmation is not compared.
ResponseAcceptedUnconfirmed(h, r) ==
  r.responder_signing = h.anchor /\ SignedResponse(h, r, h.anchor)

\* Faulty: any signing key will do.
ResponseAcceptedUnanchored(h, r) ==
  SignedResponse(h, r, r.responder_signing) /\ ConfirmedResponse(h, r)

\* InitiatorHandshake.complete, up to the point where nothing can fail.
ResponseAccepted(h, r) ==
  /\ r.responder_signing = h.anchor
  /\ SignedResponse(h, r, h.anchor)
  /\ ConfirmedResponse(h, r)

-----------------------------------------------------------------------------
(* HandshakeConfirmation *)

validate_for_response(c, r) ==
  /\ c.suite = r.suite
  /\ c.initiator = r.initiator
  /\ c.responder = r.responder
  /\ c.initiator_ephemeral = r.initiator_ephemeral
  /\ c.responder_ephemeral = r.responder_ephemeral

ConfirmationPayload(transcript, responder_confirmation, initiator_confirmation) ==
  [kind |-> "confirmation", transcript |-> transcript,
   responder_confirmation |-> responder_confirmation,
   initiator_confirmation |-> initiator_confirmation]

\* The confirmation InitiatorHandshake.complete returns.
MakeConfirmation(h, r) ==
  LET transcript == InitiatorTranscript(h, r)
      confirmation == KeyConfirmation(InitiatorRoot(h, r), transcript, "initiator")
  IN  [suite |-> r.suite, initiator |-> r.initiator, responder |-> r.responder,
       initiator_ephemeral |-> r.initiator_ephemeral,
       responder_ephemeral |-> r.responder_ephemeral,
       initiator_confirmation |-> confirmation,
       signature |-> Sign(h.identity,
                          ConfirmationPayload(transcript, r.responder_confirmation,
                                              confirmation))]

\* Faulty: neither signature nor key confirmation is tested.
ConfirmationAcceptedUnchecked(p, c) == validate_for_response(c, p.response)

\* ResponderHandshake.complete.
ConfirmationAccepted(p, c) ==
  LET transcript == Transcript(p.offer, p.response.responder_ephemeral,
                               p.response.responder_signing)
  IN  /\ validate_for_response(c, p.response)
      /\ Verifies(ConfirmationPayload(transcript, p.response.responder_confirmation,
                                      c.initiator_confirmation),
                  c.signature, p.anchor)
      /\ c.initiator_confirmation = KeyConfirmation(p.root, transcript, "initiator")
=============================================================================

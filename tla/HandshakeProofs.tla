--------------------------- MODULE HandshakeProofs ---------------------------
(***************************************************************************)
(* The agreement properties of Handshake for any identities, arguments,    *)
(* callers and number of handshakes.                                       *)
(*                                                                         *)
(* The argument: ephemeral keys are fresh, so a key names one object; a    *)
(* signature covers every other field of its message, so a message that    *)
(* passes its tests agrees with one an honest party made, however the      *)
(* transport damaged it; and the key confirmation makes the two roots      *)
(* equal.  Hence every call of complete() that passed its tests, every     *)
(* confirmation and every session belongs to a responder object that       *)
(* answers an initiator object (Answers).  That an object completes once   *)
(* needs the application's discipline (Confined) on top: only then is the  *)
(* secret a call has read still held when the call clears it.              *)
(***************************************************************************)
EXTENDS Handshake, FiniteSetTheorems, TLAPS

InitiatorOK(h) ==
  /\ h.identity \in Identities
  /\ InitiatorKey(h) \in 1 .. keys
  /\ ValidParticipants(h.offer)
  /\ h.offer = MakeOffer(h.identity, h.offer.responder, h.offer.suite, InitiatorKey(h))

ResponderOK(p) ==
  \E i \in Identities :
    /\ i.name = p.offer.responder
    /\ p.offer \in Offers
    /\ ResponderKey(p) \in 1 .. keys
    /\ p.suite = p.offer.suite
    /\ p.root.transcript = Transcript(p.offer, ResponderKey(p), i.key)
    /\ p.response = MakeResponse(i, p.offer, ResponderKey(p), p.root)

KeysAreFresh ==
  /\ \A h, g \in initiators : InitiatorKey(h) = InitiatorKey(g) => h = g
  /\ \A p, q \in responders : ResponderKey(p) = ResponderKey(q) => p = q
  /\ \A h \in initiators, p \in responders : InitiatorKey(h) # ResponderKey(p)

\* The responder object p answered the offer of h, and h can accept it.
Answers(p, h) ==
  /\ p.offer = h.offer
  /\ p.root = InitiatorRoot(h, p.response)
  /\ h.anchor = p.response.responder_signing

\* ... and h did accept it.
Completed(p, h) ==
  /\ Answers(p, h)
  /\ \E t \in sessions :
       t.owner = InitiatorKey(h) /\ t.state = InitiatorSession(h, p.response)

InitiatorCallOK(h, r) ==
  /\ h \in initiators
  /\ \E p \in responders :
       /\ Answers(p, h)
       /\ InitiatorSession(h, r) = InitiatorSession(h, p.response)
       /\ MakeConfirmation(h, r) = MakeConfirmation(h, p.response)

ResponderCallOK(p) ==
  /\ p \in responders
  /\ \E h \in initiators : Completed(p, h) /\ h.identity.key = p.anchor

CallOK(x) ==
  \/ x = <<"idle">>
  \/ x = <<"initiator", x[2], x[3]>> /\ InitiatorCallOK(x[2], x[3])
  \/ x = <<"responder", x[2], x[3]>> /\ ResponderCallOK(x[2])

CallsOK ==
  /\ call = [c \in Callers |-> call[c]]
  /\ \A c \in Callers : CallOK(call[c])

ConfirmationsOK ==
  \A x \in confirmations : \E p \in responders, h \in initiators :
    Completed(p, h) /\ x = MakeConfirmation(h, p.response)

InitiatorEnd(s, p, h) ==
  /\ Answers(p, h)
  /\ s.owner = InitiatorKey(h)
  /\ s.state = InitiatorSession(h, p.response)

ResponderEnd(s, p, h) ==
  /\ Completed(p, h) /\ h.identity.key = p.anchor
  /\ s.owner = ResponderKey(p)
  /\ s.state = ResponderSession(p)

SessionsOK ==
  /\ IsFiniteSet(sessions)
  /\ \A s \in sessions :
       /\ s.number \in Nat
       /\ \E p \in responders, h \in initiators : InitiatorEnd(s, p, h) \/ ResponderEnd(s, p, h)

\* The call c works on the object with key k.
WorksOn(c, k) ==
  \/ call[c][1] = "initiator" /\ InitiatorKey(call[c][2]) = k
  \/ call[c][1] = "responder" /\ ResponderKey(call[c][2]) = k

Exclusive ==
  /\ \A c \in Callers, k \in 1 .. keys : WorksOn(c, k) => k \in pending
  /\ \A c, d \in Callers, k \in 1 .. keys : WorksOn(c, k) /\ WorksOn(d, k) => c = d
  /\ \A s \in sessions : s.owner \notin pending
  /\ CompletedOnce

Inv ==
  /\ keys \in 0 .. MaxKeys
  /\ pending \subseteq 1 .. keys
  /\ \A h \in initiators : InitiatorOK(h)
  /\ \A p \in responders : ResponderOK(p)
  /\ KeysAreFresh
  /\ CallsOK
  /\ ConfirmationsOK
  /\ SessionsOK
  /\ Confined => Exclusive

-----------------------------------------------------------------------------
(* Messages *)

(* The fields of a transcript determine it and are determined by it. *)
LEMMA TranscriptFields ==
  ASSUME NEW o, NEW k, NEW s
  PROVE  LET t == Transcript(o, k, s)
         IN  t.offer = o /\ t.responder_ephemeral = k /\ t.responder_signing = s
BY DEF Transcript

(* A key confirmation determines the root it was derived from. *)
LEMMA ConfirmationOfRoot ==
  ASSUME NEW a, NEW b, NEW t, NEW u, NEW role,
         KeyConfirmation(a, t, role) = KeyConfirmation(b, u, role)
  PROVE  a = b
BY DEF KeyConfirmation

(* What HandshakeOffer's constructor and Identity.sign put into an offer. *)
LEMMA OfferFields ==
  ASSUME NEW i, NEW n, NEW s, NEW k
  PROVE  LET o == MakeOffer(i, n, s, k)
         IN  /\ o = [suite |-> s, initiator |-> i.name, responder |-> n,
                     initiator_ephemeral |-> k, initiator_signing |-> i.key,
                     signature |-> o.signature]
             /\ o.suite = s /\ o.initiator = i.name /\ o.responder = n
             /\ o.initiator_ephemeral = k /\ o.initiator_signing = i.key
             /\ o.signature.key = i.key
             /\ o.signature.payload = OfferPayload(o)
<1> DEFINE unsigned == [suite |-> s, initiator |-> i.name, responder |-> n,
                        initiator_ephemeral |-> k, initiator_signing |-> i.key,
                        signature |-> << >>]
           o == MakeOffer(i, n, s, k)
<1>1. o = [suite |-> s, initiator |-> i.name, responder |-> n,
           initiator_ephemeral |-> k, initiator_signing |-> i.key,
           signature |-> Sign(i, OfferPayload(unsigned))]
  BY DEF MakeOffer
<1>2. /\ o.suite = s /\ o.initiator = i.name /\ o.responder = n
      /\ o.initiator_ephemeral = k /\ o.initiator_signing = i.key
      /\ o.signature = Sign(i, OfferPayload(unsigned))
  BY <1>1
<1>3. OfferPayload(o) = OfferPayload(unsigned)
  BY <1>2 DEF OfferPayload
<1>4. o.signature.key = i.key /\ o.signature.payload = OfferPayload(unsigned)
  BY <1>2 DEF Sign
<1> QED BY <1>1, <1>2, <1>3, <1>4

(* What SessionFactory.responder puts into a response. *)
LEMMA ResponseFields ==
  ASSUME NEW i, NEW o, NEW k, NEW root
  PROVE  LET r == MakeResponse(i, o, k, root)
             t == Transcript(o, k, i.key)
             c == KeyConfirmation(root, t, "responder")
         IN  /\ r = [suite |-> o.suite, initiator |-> o.initiator, responder |-> o.responder,
                     initiator_ephemeral |-> o.initiator_ephemeral,
                     initiator_signing |-> o.initiator_signing,
                     responder_ephemeral |-> k, responder_signing |-> i.key,
                     responder_confirmation |-> c, signature |-> r.signature]
             /\ validate_for_offer(r, o)
             /\ r.responder_ephemeral = k /\ r.responder_signing = i.key
             /\ r.responder_confirmation = c
             /\ r.signature.key = i.key
             /\ r.signature.payload = ResponsePayload(t, c)
BY DEF MakeResponse, Sign, validate_for_offer

(* What an initiator's complete() puts into a confirmation. *)
LEMMA ConfirmationFields ==
  ASSUME NEW h, NEW r
  PROVE  LET x == MakeConfirmation(h, r)
             t == InitiatorTranscript(h, r)
             c == KeyConfirmation(InitiatorRoot(h, r), t, "initiator")
         IN  /\ x = [suite |-> r.suite, initiator |-> r.initiator, responder |-> r.responder,
                     initiator_ephemeral |-> r.initiator_ephemeral,
                     responder_ephemeral |-> r.responder_ephemeral,
                     initiator_confirmation |-> c, signature |-> x.signature]
             /\ x.signature.key = h.identity.key
             /\ x.signature.payload = ConfirmationPayload(t, r.responder_confirmation, c)
BY DEF MakeConfirmation, Sign

(* Damaging one field of an offer leaves it an offer with a signature some *)
(* initiator made.                                                         *)
LEMMA OffersInTransitFacts ==
  ASSUME \A h \in initiators : InitiatorOK(h), NEW o \in OffersInTransit
  PROVE  /\ o = [suite |-> o.suite, initiator |-> o.initiator, responder |-> o.responder,
                 initiator_ephemeral |-> o.initiator_ephemeral,
                 initiator_signing |-> o.initiator_signing, signature |-> o.signature]
         /\ \E x \in Offers : o.signature = x.signature
<1> DEFINE Shape(m) ==
      m = [suite |-> m.suite, initiator |-> m.initiator, responder |-> m.responder,
           initiator_ephemeral |-> m.initiator_ephemeral,
           initiator_signing |-> m.initiator_signing, signature |-> m.signature]
<1>1. ASSUME NEW x \in Offers PROVE Shape(x)
  <2>1. PICK h \in initiators : x = h.offer
    BY DEF Offers
  <2>2. x = MakeOffer(h.identity, h.offer.responder, h.offer.suite, InitiatorKey(h))
    BY <2>1 DEF InitiatorOK
  <2> QED BY <2>2, OfferFields
<1>2. CASE o \in Offers
  BY <1>1, <1>2
<1>3. ASSUME NEW x \in Offers, o \in DamagedOffer(x)
      PROVE  Shape(o) /\ \E y \in Offers : o.signature = y.signature
  <2>1. Shape(x)
    BY <1>1
  <2>2. CASE \E v : o = [x EXCEPT !.suite = v]
    BY <2>1, <2>2
  <2>3. CASE \E v : o = [x EXCEPT !.initiator = v]
    BY <2>1, <2>3
  <2>4. CASE \E v : o = [x EXCEPT !.responder = v]
    BY <2>1, <2>4
  <2>5. CASE \E v : o = [x EXCEPT !.initiator_ephemeral = v]
    BY <2>1, <2>5
  <2>6. CASE \E v : o = [x EXCEPT !.initiator_signing = v]
    BY <2>1, <2>6
  <2>7. CASE \E y \in Offers : o = [x EXCEPT !.signature = y.signature]
    BY <2>1, <2>7
  <2> QED BY <1>3, <2>2, <2>3, <2>4, <2>5, <2>6, <2>7 DEF DamagedOffer, DamagedParticipants
<1> QED BY <1>2, <1>3 DEF OffersInTransit

(* An offer that passes the tests of SessionFactory.responder was made by  *)
(* an initiator, field for field.                                          *)
LEMMA AcceptedOfferIsGenuine ==
  ASSUME \A h \in initiators : InitiatorOK(h), NEW a, NEW o \in OffersInTransit,
         OfferAccepted(a, o)
  PROVE  o \in Offers
<1>1. PICK x \in Offers : o.signature = x.signature
  BY OffersInTransitFacts
<1>2. PICK h \in initiators : x = h.offer
  BY DEF Offers
<1>3. x = MakeOffer(h.identity, h.offer.responder, h.offer.suite, InitiatorKey(h))
  BY <1>2 DEF InitiatorOK
<1>4. x.signature.payload = OfferPayload(x)
  BY <1>3, OfferFields
<1>5. OfferPayload(o) = OfferPayload(x)
  BY <1>1, <1>4 DEF OfferAccepted, Verifies
<1>6. /\ o.suite = x.suite /\ o.initiator = x.initiator /\ o.responder = x.responder
      /\ o.initiator_ephemeral = x.initiator_ephemeral
      /\ o.initiator_signing = x.initiator_signing
  BY <1>5 DEF OfferPayload
<1>7. x \in OffersInTransit
  BY DEF OffersInTransit
<1>8. /\ o = [suite |-> o.suite, initiator |-> o.initiator, responder |-> o.responder,
              initiator_ephemeral |-> o.initiator_ephemeral,
              initiator_signing |-> o.initiator_signing, signature |-> o.signature]
      /\ x = [suite |-> x.suite, initiator |-> x.initiator, responder |-> x.responder,
              initiator_ephemeral |-> x.initiator_ephemeral,
              initiator_signing |-> x.initiator_signing, signature |-> x.signature]
  BY <1>7, OffersInTransitFacts
<1>9. o = x
  BY <1>1, <1>6, <1>8
<1> QED BY <1>9

(* A response in transit carries a signature some responder made. *)
LEMMA ResponsesInTransitFacts ==
  ASSUME \A p \in responders : ResponderOK(p), NEW r \in ResponsesInTransit
  PROVE  \E q \in responders : r.signature = q.response.signature
<1> DEFINE Shape(m) ==
      m = [suite |-> m.suite, initiator |-> m.initiator, responder |-> m.responder,
           initiator_ephemeral |-> m.initiator_ephemeral,
           initiator_signing |-> m.initiator_signing,
           responder_ephemeral |-> m.responder_ephemeral,
           responder_signing |-> m.responder_signing,
           responder_confirmation |-> m.responder_confirmation, signature |-> m.signature]
<1>1. ASSUME NEW x \in Responses PROVE Shape(x) /\ \E q \in responders : x = q.response
  <2>1. PICK q \in responders : x = q.response
    BY DEF Responses
  <2>2. PICK i \in Identities : x = MakeResponse(i, q.offer, ResponderKey(q), q.root)
    BY <2>1 DEF ResponderOK
  <2>3. Shape(x)
    BY <2>2, ResponseFields
  <2> QED BY <2>1, <2>3
<1>2. ASSUME NEW x \in Responses, r \in DamagedResponse(x)
      PROVE  \E y \in Responses : r.signature = y.signature
  <2>1. Shape(x)
    BY <1>1
  <2>2. CASE \E v : r = [x EXCEPT !.suite = v]
    BY <2>1, <2>2
  <2>3. CASE \E v : r = [x EXCEPT !.initiator = v]
    BY <2>1, <2>3
  <2>4. CASE \E v : r = [x EXCEPT !.responder = v]
    BY <2>1, <2>4
  <2>5. CASE \E v : r = [x EXCEPT !.initiator_ephemeral = v]
    BY <2>1, <2>5
  <2>6. CASE \E v : r = [x EXCEPT !.responder_ephemeral = v]
    BY <2>1, <2>6
  <2>7. CASE \E v : r = [x EXCEPT !.initiator_signing = v]
    BY <2>1, <2>7
  <2>8. CASE \E v : r = [x EXCEPT !.responder_signing = v]
    BY <2>1, <2>8
  <2>9. CASE \E v : r = [x EXCEPT !.responder_confirmation = v]
    BY <2>1, <2>9
  <2>10. CASE \E y \in Responses : r = [x EXCEPT !.signature = y.signature]
    BY <2>1, <2>10
  <2> QED
    BY <1>2, <2>2, <2>3, <2>4, <2>5, <2>6, <2>7, <2>8, <2>9, <2>10
    DEF DamagedResponse, DamagedParticipants
<1> QED BY <1>1, <1>2 DEF ResponsesInTransit

(* A confirmation in transit carries a signature some initiator made. *)
LEMMA ConfirmationsInTransitFacts ==
  ASSUME ConfirmationsOK, NEW m \in ConfirmationsInTransit
  PROVE  \E x \in confirmations : m.signature = x.signature
<1> DEFINE Shape(c) ==
      c = [suite |-> c.suite, initiator |-> c.initiator, responder |-> c.responder,
           initiator_ephemeral |-> c.initiator_ephemeral,
           responder_ephemeral |-> c.responder_ephemeral,
           initiator_confirmation |-> c.initiator_confirmation, signature |-> c.signature]
<1>1. ASSUME NEW x \in confirmations, m \in DamagedConfirmation(x)
      PROVE  \E y \in confirmations : m.signature = y.signature
  <2>1. Shape(x)
    <3>1. PICK p \in responders, h \in initiators : x = MakeConfirmation(h, p.response)
      BY DEF ConfirmationsOK
    <3> QED BY <3>1, ConfirmationFields
  <2>2. CASE \E v : m = [x EXCEPT !.suite = v]
    BY <2>1, <2>2
  <2>3. CASE \E v : m = [x EXCEPT !.initiator = v]
    BY <2>1, <2>3
  <2>4. CASE \E v : m = [x EXCEPT !.responder = v]
    BY <2>1, <2>4
  <2>5. CASE \E v : m = [x EXCEPT !.initiator_ephemeral = v]
    BY <2>1, <2>5
  <2>6. CASE \E v : m = [x EXCEPT !.responder_ephemeral = v]
    BY <2>1, <2>6
  <2>7. CASE \E v : m = [x EXCEPT !.initiator_confirmation = v]
    BY <2>1, <2>7
  <2>8. CASE \E y \in confirmations : m = [x EXCEPT !.signature = y.signature]
    BY <2>1, <2>8
  <2> QED
    BY <1>1, <2>2, <2>3, <2>4, <2>5, <2>6, <2>7, <2>8
    DEF DamagedConfirmation, DamagedParticipants
<1> QED BY <1>1 DEF ConfirmationsInTransit

-----------------------------------------------------------------------------
(* What the tests of complete() establish *)

(* The two ends of an answered offer derive mirrored sessions. *)
LEMMA AnswersMirror ==
  ASSUME NEW p, NEW h, ResponderOK(p), Answers(p, h)
  PROVE  /\ Mirrors(InitiatorSession(h, p.response), ResponderSession(p))
         /\ Mirrors(ResponderSession(p), InitiatorSession(h, p.response))
         /\ InitiatorSession(h, p.response).root_key = p.root
         /\ InitiatorSession(h, p.response).remote_name = h.offer.responder
         /\ ResponderSession(p).root_key = p.root
         /\ ResponderSession(p).remote_name = h.offer.initiator
<1>1. p.response.suite = p.offer.suite /\ p.suite = p.offer.suite
  <2>1. PICK i \in Identities : /\ p.response = MakeResponse(i, p.offer, ResponderKey(p), p.root)
                                /\ p.suite = p.offer.suite
    BY DEF ResponderOK
  <2>2. validate_for_offer(p.response, p.offer)
    BY <2>1, ResponseFields
  <2> QED BY <2>1, <2>2 DEF validate_for_offer
<1>2. p.offer = h.offer /\ p.root = InitiatorRoot(h, p.response)
  BY DEF Answers
<1> HIDE DEF Answers
<1> QED BY <1>1, <1>2 DEF Mirrors, InitiatorSession, ResponderSession

(* A response that passes the tests of InitiatorHandshake.complete is, in  *)
(* all that complete() uses, one that a responder made for this offer.     *)
LEMMA AcceptedResponseIsAnswer ==
  ASSUME \A p \in responders : ResponderOK(p),
         NEW h \in initiators, NEW r \in ResponsesInTransit, ResponseAccepted(h, r)
  PROVE  InitiatorCallOK(h, r)
<1>1. PICK q \in responders : r.signature = q.response.signature
  BY ResponsesInTransitFacts
<1> DEFINE k == ResponderKey(q)
           t == InitiatorTranscript(h, r)
<1>2. PICK i \in Identities : q.response = MakeResponse(i, q.offer, k, q.root)
  BY DEF ResponderOK
<1> DEFINE u == Transcript(q.offer, k, i.key)
           c == KeyConfirmation(q.root, u, "responder")
<1>3. /\ validate_for_offer(q.response, q.offer)
      /\ q.response.responder_ephemeral = k /\ q.response.responder_signing = i.key
      /\ q.response.responder_confirmation = c
      /\ q.response.signature.key = i.key
      /\ q.response.signature.payload = ResponsePayload(u, c)
  BY <1>2, ResponseFields
<1>4. /\ r.signature.key = h.anchor
      /\ r.signature.payload = ResponsePayload(t, r.responder_confirmation)
      /\ r.responder_signing = h.anchor
      /\ validate_for_offer(r, h.offer)
      /\ r.responder_confirmation = KeyConfirmation(InitiatorRoot(h, r), t, "responder")
  BY DEF ResponseAccepted, SignedResponse, ConfirmedResponse, Verifies
<1>5. t = u /\ r.responder_confirmation = c /\ i.key = h.anchor
  <2>1. ResponsePayload(t, r.responder_confirmation) = ResponsePayload(u, c)
    BY <1>1, <1>3, <1>4
  <2>2. t = u /\ r.responder_confirmation = c
    BY <2>1 DEF ResponsePayload
  <2> QED BY <1>1, <1>3, <1>4, <2>2
<1>6. h.offer = q.offer /\ r.responder_ephemeral = k /\ r.responder_signing = i.key
  <2>1. /\ t.offer = h.offer /\ t.responder_ephemeral = r.responder_ephemeral
        /\ t.responder_signing = r.responder_signing
    BY TranscriptFields DEF InitiatorTranscript
  <2>2. u.offer = q.offer /\ u.responder_ephemeral = k /\ u.responder_signing = i.key
    BY TranscriptFields
  <2> QED BY <1>5, <2>1, <2>2
<1>7. q.root = InitiatorRoot(h, r)
  BY <1>4, <1>5, ConfirmationOfRoot
<1>8. /\ InitiatorTranscript(h, r) = InitiatorTranscript(h, q.response)
      /\ InitiatorRoot(h, r) = InitiatorRoot(h, q.response)
  BY <1>3, <1>6 DEF InitiatorTranscript, InitiatorRoot
<1>9. /\ r.suite = q.response.suite /\ r.initiator = q.response.initiator
      /\ r.responder = q.response.responder
      /\ r.initiator_ephemeral = q.response.initiator_ephemeral
      /\ r.responder_ephemeral = q.response.responder_ephemeral
      /\ r.responder_confirmation = q.response.responder_confirmation
  BY <1>3, <1>4, <1>5, <1>6 DEF validate_for_offer
<1>10. InitiatorSession(h, r) = InitiatorSession(h, q.response)
  BY <1>8, <1>9 DEF InitiatorSession
<1>11. MakeConfirmation(h, r) = MakeConfirmation(h, q.response)
  BY <1>8, <1>9 DEF MakeConfirmation
<1>12. Answers(q, h)
  BY <1>3, <1>5, <1>6, <1>7, <1>8 DEF Answers
<1> QED BY <1>10, <1>11, <1>12 DEF InitiatorCallOK

(* A confirmation that passes the tests of ResponderHandshake.complete     *)
(* comes from an initiator that completed with this responder's answer.    *)
LEMMA AcceptedConfirmationIsAnswered ==
  ASSUME \A p \in responders : ResponderOK(p), KeysAreFresh, ConfirmationsOK,
         NEW p \in responders, NEW m \in ConfirmationsInTransit, ConfirmationAccepted(p, m)
  PROVE  ResponderCallOK(p)
<1>1. PICK x \in confirmations : m.signature = x.signature
  BY ConfirmationsInTransitFacts
<1>2. PICK q \in responders, h \in initiators :
        Completed(q, h) /\ x = MakeConfirmation(h, q.response)
  BY DEF ConfirmationsOK
<1> DEFINE t == Transcript(p.offer, p.response.responder_ephemeral,
                           p.response.responder_signing)
           u == InitiatorTranscript(h, q.response)
           c == KeyConfirmation(InitiatorRoot(h, q.response), u, "initiator")
<1>3. /\ x.signature.key = h.identity.key
      /\ x.signature.payload = ConfirmationPayload(u, q.response.responder_confirmation, c)
  BY <1>2, ConfirmationFields
<1>4. /\ m.signature.key = p.anchor
      /\ m.signature.payload = ConfirmationPayload(t, p.response.responder_confirmation,
                                                   m.initiator_confirmation)
  BY DEF ConfirmationAccepted, Verifies
<1>5. t = u /\ h.identity.key = p.anchor
  <2>1. ConfirmationPayload(t, p.response.responder_confirmation, m.initiator_confirmation)
          = ConfirmationPayload(u, q.response.responder_confirmation, c)
    BY <1>1, <1>3, <1>4
  <2>2. t = u
    BY <2>1 DEF ConfirmationPayload
  <2> QED BY <1>1, <1>3, <1>4, <2>2
<1>6. ResponderKey(p) = ResponderKey(q)
  <2>1. t.responder_ephemeral = p.response.responder_ephemeral
    BY TranscriptFields
  <2>2. u.responder_ephemeral = q.response.responder_ephemeral
    BY TranscriptFields DEF InitiatorTranscript
  <2> QED BY <1>5, <2>1, <2>2 DEF ResponderKey
<1>7. p = q
  BY <1>6 DEF KeysAreFresh
<1> QED BY <1>2, <1>5, <1>7 DEF ResponderCallOK

-----------------------------------------------------------------------------
(* Init and steps *)

(* What sessions and calls refer to are keys of existing objects. *)
LEMMA KeysInUse ==
  ASSUME Inv
  PROVE  /\ \A h \in initiators : InitiatorKey(h) \in 1 .. keys
         /\ \A p \in responders : ResponderKey(p) \in 1 .. keys
         /\ \A s \in sessions : s.owner \in 1 .. keys
         /\ \A c \in Callers : \A k : WorksOn(c, k) => k \in 1 .. keys
<1>1. \A h \in initiators : InitiatorKey(h) \in 1 .. keys
  BY DEF Inv, InitiatorOK
<1>2. \A p \in responders : ResponderKey(p) \in 1 .. keys
  BY DEF Inv, ResponderOK
<1>3. \A s \in sessions : s.owner \in 1 .. keys
  BY <1>1, <1>2 DEF Inv, SessionsOK, InitiatorEnd, ResponderEnd
<1>4. ASSUME NEW c \in Callers, NEW k, WorksOn(c, k) PROVE k \in 1 .. keys
  <2>1. CASE call[c] = <<"idle">>
    BY <1>4, <2>1 DEF WorksOn
  <2>2. CASE /\ call[c] = <<"initiator", call[c][2], call[c][3]>>
             /\ call[c][2] \in initiators
    <3>1. call[c][1] = "initiator"
      BY <2>2
    <3> QED BY <1>1, <1>4, <2>2, <3>1 DEF WorksOn
  <2>3. CASE /\ call[c] = <<"responder", call[c][2], call[c][3]>>
             /\ call[c][2] \in responders
    <3>1. call[c][1] = "responder"
      BY <2>3
    <3> QED BY <1>2, <1>4, <2>3, <3>1 DEF WorksOn
  <2> QED BY <2>1, <2>2, <2>3 DEF Inv, CallsOK, CallOK, InitiatorCallOK, ResponderCallOK
<1> QED BY <1>1, <1>2, <1>3, <1>4

(* Objects, sessions and keys are never taken away, so what the invariant  *)
(* says of the existing ones stays true.                                   *)
LEMMA Growth ==
  ASSUME Inv, keys' \in Nat, keys <= keys', initiators \subseteq initiators',
         responders \subseteq responders', sessions \subseteq sessions'
  PROVE  /\ \A h \in initiators : InitiatorOK(h)'
         /\ \A p \in responders : ResponderOK(p)'
         /\ \A x : CallOK(x) => CallOK(x)'
         /\ \A p, h : Completed(p, h) => Completed(p, h)'
         /\ \A s, p, h : ResponderEnd(s, p, h) => ResponderEnd(s, p, h)'
<1>1. 1 .. keys \subseteq 1 .. keys'
  BY MaxKeysAssumption DEF Inv
<1>2. Offers \subseteq Offers'
  BY DEF Offers
<1>3. ASSUME NEW h \in initiators PROVE InitiatorOK(h)'
  BY <1>1 DEF Inv, InitiatorOK
<1>4. ASSUME NEW p \in responders PROVE ResponderOK(p)'
  <2>1. PICK i \in Identities :
          /\ i.name = p.offer.responder
          /\ p.offer \in Offers
          /\ ResponderKey(p) \in 1 .. keys
          /\ p.suite = p.offer.suite
          /\ p.root.transcript = Transcript(p.offer, ResponderKey(p), i.key)
          /\ p.response = MakeResponse(i, p.offer, ResponderKey(p), p.root)
    BY DEF Inv, ResponderOK
  <2>2. p.offer \in Offers' /\ ResponderKey(p) \in 1 .. keys'
    BY <1>1, <1>2, <2>1
  <2> QED BY <2>1, <2>2 DEF ResponderOK
<1>5. \A h, r : InitiatorCallOK(h, r) => InitiatorCallOK(h, r)'
  BY DEF InitiatorCallOK
<1>6. \A p, h : Completed(p, h) => Completed(p, h)'
  BY DEF Completed
<1>7. \A p : ResponderCallOK(p) => ResponderCallOK(p)'
  BY <1>6 DEF ResponderCallOK
<1>8. \A s, p, h : ResponderEnd(s, p, h) => ResponderEnd(s, p, h)'
  BY <1>6 DEF ResponderEnd
<1>9. \A x : CallOK(x) => CallOK(x)'
  BY <1>5, <1>7 DEF CallOK
<1> QED BY <1>3, <1>4, <1>6, <1>8, <1>9

(* There are no objects and no sessions yet. *)
LEMMA InitInv == Init => Inv
<1> SUFFICES ASSUME Init PROVE Inv
  OBVIOUS
<1> USE DEF Init
<1>1. CallsOK
  BY DEF CallsOK, CallOK
<1>2. SessionsOK /\ ConfirmationsOK
  BY FS_EmptySet DEF SessionsOK, ConfirmationsOK
<1>3. Exclusive
  <2>1. \A c \in Callers : call[c] = <<"idle">> /\ call[c][1] = "idle"
    OBVIOUS
  <2> QED BY <2>1 DEF Exclusive, WorksOn, CompletedOnce
<1> QED BY <1>1, <1>2, <1>3, MaxKeysAssumption DEF Inv, KeysAreFresh

(* The part of the invariant about calls, confirmations and sessions, when *)
(* a new object with the next key is made.                                 *)
LEMMA NewObject ==
  ASSUME Inv, keys < MaxKeys, keys' = FreshKey, pending' = pending \cup {FreshKey},
         initiators \subseteq initiators', responders \subseteq responders',
         UNCHANGED <<call, confirmations, sessions>>
  PROVE  /\ keys' \in 0 .. MaxKeys
         /\ pending' \subseteq 1 .. keys'
         /\ CallsOK' /\ ConfirmationsOK' /\ SessionsOK'
         /\ Confined => Exclusive'
<1>1. keys \in Nat /\ keys' \in Nat /\ keys' = keys + 1 /\ keys <= keys' /\ keys' \in 0 .. MaxKeys
  BY MaxKeysAssumption DEF Inv, FreshKey
<1>2. pending' \subseteq 1 .. keys'
  BY <1>1 DEF Inv, FreshKey
<1>3. /\ \A x : CallOK(x) => CallOK(x)'
      /\ \A p, h : Completed(p, h) => Completed(p, h)'
      /\ \A s, p, h : ResponderEnd(s, p, h) => ResponderEnd(s, p, h)'
  BY <1>1, Growth
<1>4. CallsOK'
  <2> SUFFICES ASSUME NEW c \in Callers, NEW x, x = call[c] PROVE CallOK(x)'
    BY DEF Inv, CallsOK, CallOK, InitiatorCallOK, ResponderCallOK, Completed
  <2> QED BY <1>3 DEF Inv, CallsOK
<1>5. ConfirmationsOK'
  BY <1>3 DEF Inv, ConfirmationsOK
<1>6. SessionsOK'
  BY <1>3 DEF Inv, SessionsOK, InitiatorEnd
<1>7. ASSUME Confined PROVE Exclusive'
  <2>1. \A c \in Callers : \A k : WorksOn(c, k)' <=> WorksOn(c, k)
    BY DEF WorksOn
  <2>2. \A c \in Callers : \A k : WorksOn(c, k) => k \in 1 .. keys
    BY KeysInUse
  <2>3. \A s \in sessions : s.owner \notin pending'
    <3>1. \A s \in sessions : s.owner \in 1 .. keys /\ s.owner \notin pending
      BY <1>7, KeysInUse DEF Inv, Exclusive
    <3> QED BY <1>1, <3>1 DEF FreshKey
  <2>4. CompletedOnce'
    BY <1>7 DEF Inv, Exclusive, CompletedOnce
  <2> QED BY <1>7, <2>1, <2>2, <2>3, <2>4 DEF Inv, Exclusive
<1> QED BY <1>1, <1>2, <1>4, <1>5, <1>6, <1>7

(* SessionFactory.initiator. *)
LEMMA InitiateInv ==
  ASSUME Inv, NEW v \in Invitations, Initiate(v)
  PROVE  Inv'
<1> SUFFICES ASSUME NEW k, k = FreshKey PROVE Inv'
  OBVIOUS
<1> DEFINE o == MakeOffer(v.identity, v.remote_name, v.suite, k)
           h == [identity |-> v.identity, anchor |-> v.anchor, offer |-> o,
                 supplemental |-> v.supplemental]
<1>1. /\ keys < MaxKeys /\ keys' = FreshKey /\ pending' = pending \cup {FreshKey}
      /\ initiators' = initiators \cup {h}
      /\ UNCHANGED <<responders, call, confirmations, sessions>>
      /\ v.identity.name # v.remote_name
  BY DEF Initiate, InitiateOneself
<1>2. keys \in Nat /\ keys' = keys + 1 /\ k = keys + 1 /\ k \in 1 .. keys'
  BY <1>1, MaxKeysAssumption DEF Inv, FreshKey
<1>3. /\ keys' \in 0 .. MaxKeys /\ pending' \subseteq 1 .. keys'
      /\ CallsOK' /\ ConfirmationsOK' /\ SessionsOK' /\ (Confined => Exclusive')
  BY <1>1, NewObject
<1>4. /\ \A g \in initiators : InitiatorOK(g)'
      /\ \A p \in responders : ResponderOK(p)'
  BY <1>1, <1>2, Growth
<1>5. /\ o.suite = v.suite /\ o.initiator = v.identity.name
      /\ o.responder = v.remote_name /\ o.initiator_ephemeral = k
  BY OfferFields
<1>6. h.identity = v.identity /\ h.offer = o
  OBVIOUS
<1> HIDE DEF o, h
<1>7. InitiatorKey(h) = k
  BY <1>5, <1>6 DEF InitiatorKey
<1>8. InitiatorOK(h)'
  <2>1. v.identity \in Identities /\ v.suite \in Suites
    BY InvitationsAssumption
  <2>2. ValidParticipants(h.offer)
    BY <1>1, <1>5, <1>6, <2>1 DEF ValidParticipants
  <2>3. h.offer = MakeOffer(h.identity, h.offer.responder, h.offer.suite, InitiatorKey(h))
    BY <1>5, <1>6, <1>7 DEF o
  <2> QED BY <1>2, <1>6, <1>7, <2>1, <2>2, <2>3 DEF InitiatorOK
<1>9. KeysAreFresh'
  <2>1. /\ \A g \in initiators : InitiatorKey(g) # k
        /\ \A p \in responders : ResponderKey(p) # k
    BY <1>2, KeysInUse
  <2> QED BY <1>1, <1>7, <2>1 DEF Inv, KeysAreFresh
<1> QED BY <1>1, <1>3, <1>4, <1>8, <1>9 DEF Inv

(* SessionFactory.responder. *)
LEMMA RespondInv ==
  ASSUME Inv, NEW a \in Acceptances, NEW o \in OffersInTransit, Respond(a, o)
  PROVE  Inv'
<1> SUFFICES ASSUME NEW k, k = FreshKey PROVE Inv'
  OBVIOUS
<1> DEFINE transcript == Transcript(o, k, a.identity.key)
           root == SessionRoot(Exchange(k, o.initiator_ephemeral), transcript, a.supplemental)
           p == [anchor |-> a.anchor, offer |-> o, suite |-> o.suite, root |-> root,
                 response |-> MakeResponse(a.identity, o, k, root)]
<1>1. /\ keys < MaxKeys /\ keys' = FreshKey /\ pending' = pending \cup {FreshKey}
      /\ responders' = responders \cup {p} /\ OfferAccepted(a, o)
      /\ UNCHANGED <<initiators, call, confirmations, sessions>>
  BY DEF Respond
<1>2. keys \in Nat /\ keys' = keys + 1 /\ k = keys + 1 /\ k \in 1 .. keys'
  BY <1>1, MaxKeysAssumption DEF Inv, FreshKey
<1>3. /\ keys' \in 0 .. MaxKeys /\ pending' \subseteq 1 .. keys'
      /\ CallsOK' /\ ConfirmationsOK' /\ SessionsOK' /\ (Confined => Exclusive')
  BY <1>1, NewObject
<1>4. /\ \A h \in initiators : InitiatorOK(h)'
      /\ \A q \in responders : ResponderOK(q)'
  BY <1>1, <1>2, Growth
<1>5. /\ p.offer = o /\ p.suite = o.suite /\ p.root = root
      /\ p.response = MakeResponse(a.identity, o, k, root)
  OBVIOUS
<1>6. root.transcript = transcript
  BY DEF SessionRoot
<1> HIDE DEF p, root
<1>7. ResponderKey(p) = k
  BY <1>5, ResponseFields DEF ResponderKey
<1>8. ResponderOK(p)'
  <2>1. a.identity \in Identities /\ a.identity.name = o.responder
    BY <1>1, AcceptancesAssumption DEF OfferAccepted, OfferAcceptedUnsigned
  <2>2. o \in Offers'
    BY <1>1, AcceptedOfferIsGenuine DEF Inv, Offers
  <2> QED BY <1>2, <1>5, <1>6, <1>7, <2>1, <2>2 DEF ResponderOK
<1>9. KeysAreFresh'
  <2>1. /\ \A h \in initiators : InitiatorKey(h) # k
        /\ \A q \in responders : ResponderKey(q) # k
    BY <1>2, KeysInUse
  <2> QED BY <1>1, <1>7, <2>1 DEF Inv, KeysAreFresh
<1> QED BY <1>1, <1>3, <1>4, <1>8, <1>9 DEF Inv

(* A call begins or ends: one entry of call changes, nothing is taken      *)
(* away, and the objects stay.                                             *)
LEMMA OneCall ==
  ASSUME Inv, NEW c \in Callers, NEW x, call' = [call EXCEPT ![c] = x], CallOK(x)',
         sessions \subseteq sessions', UNCHANGED <<keys, initiators, responders>>
  PROVE  /\ keys' \in 0 .. MaxKeys
         /\ \A h \in initiators' : InitiatorOK(h)'
         /\ \A p \in responders' : ResponderOK(p)'
         /\ KeysAreFresh' /\ CallsOK'
         /\ call'[c] = x
         /\ \A d \in Callers \ {c} : call'[d] = call[d]
<1>1. keys' \in Nat /\ keys <= keys' /\ keys' \in 0 .. MaxKeys
  BY MaxKeysAssumption DEF Inv
<1>2. call = [d \in Callers |-> call[d]] /\ \A d \in Callers : CallOK(call[d])
  BY DEF Inv, CallsOK
<1>3. /\ call' = [d \in Callers |-> call'[d]]
      /\ call'[c] = x
      /\ \A d \in Callers \ {c} : call'[d] = call[d]
  BY <1>2
<1>4. /\ \A y : CallOK(y) => CallOK(y)'
      /\ \A h \in initiators : InitiatorOK(h)'
      /\ \A p \in responders : ResponderOK(p)'
  BY <1>1, Growth
<1>5. CallsOK'
  <2> SUFFICES ASSUME NEW d \in Callers, NEW y, y = call'[d] PROVE CallOK(y)'
    BY <1>3 DEF CallsOK, CallOK, InitiatorCallOK, ResponderCallOK, Completed
  <2>1. CASE d = c
    BY <1>3, <2>1
  <2>2. CASE d # c
    BY <1>2, <1>3, <1>4, <2>2
  <2> QED BY <2>1, <2>2
<1>6. KeysAreFresh'
  BY DEF Inv, KeysAreFresh
<1> QED BY <1>1, <1>3, <1>4, <1>5, <1>6

(* A call that begins is the only one to work on its object, and the       *)
(* object's secret is there.                                               *)
LEMMA BeginExclusive ==
  ASSUME Inv, Confined, NEW c \in Callers, NEW k, k \in pending, ~InProgress(k),
         \A j : WorksOn(c, j)' <=> j = k,
         \A d \in Callers \ {c} : call'[d] = call[d],
         UNCHANGED <<keys, pending, sessions>>
  PROVE  Exclusive'
<1>1. \A d \in Callers : ~WorksOn(d, k)
  BY DEF InProgress, WorksOn
<1>2. Exclusive
  BY DEF Inv
<1>3. \A d \in Callers \ {c} : \A j : WorksOn(d, j)' <=> WorksOn(d, j)
  BY DEF WorksOn
<1>4. \A d \in Callers, j \in 1 .. keys : WorksOn(d, j)' => j \in pending
  BY <1>2, <1>3 DEF Exclusive
<1>5. \A d, e \in Callers, j \in 1 .. keys : WorksOn(d, j)' /\ WorksOn(e, j)' => d = e
  <2> SUFFICES ASSUME NEW d \in Callers, NEW e \in Callers, NEW j \in 1 .. keys,
                      WorksOn(d, j)', WorksOn(e, j)', d # e
               PROVE  FALSE
    OBVIOUS
  <2>1. CASE d = c
    BY <1>1, <1>3, <2>1
  <2>2. CASE e = c
    BY <1>1, <1>3, <2>2
  <2>3. CASE d # c /\ e # c
    BY <1>2, <1>3, <2>3 DEF Exclusive
  <2> QED BY <2>1, <2>2, <2>3
<1> QED BY <1>2, <1>4, <1>5 DEF Exclusive, CompletedOnce

(* What a step that only begins a call leaves alone. *)
LEMMA BeginRest ==
  ASSUME Inv, UNCHANGED <<keys, initiators, responders, pending, confirmations, sessions>>
  PROVE  pending' \subseteq 1 .. keys' /\ ConfirmationsOK' /\ SessionsOK'
<1>1. keys' \in Nat /\ keys <= keys'
  BY MaxKeysAssumption DEF Inv
<1>2. /\ \A p, h : Completed(p, h) => Completed(p, h)'
      /\ \A s, p, h : ResponderEnd(s, p, h) => ResponderEnd(s, p, h)'
  BY <1>1, Growth
<1>3. ConfirmationsOK'
  BY <1>2 DEF Inv, ConfirmationsOK
<1>4. SessionsOK'
  BY <1>2 DEF Inv, SessionsOK, InitiatorEnd
<1> QED BY <1>3, <1>4 DEF Inv

(* InitiatorHandshake.complete passes its tests. *)
LEMMA BeginInitiatorInv ==
  ASSUME Inv, NEW c \in Callers, NEW h \in initiators, NEW r \in ResponsesInTransit,
         MayCall(InitiatorKey(h)), BeginInitiator(c, h, r)
  PROVE  Inv'
<1> SUFFICES ASSUME NEW x, x = <<"initiator", h, r>> PROVE Inv'
  OBVIOUS
<1>1. /\ InitiatorKey(h) \in pending /\ ResponseAccepted(h, r)
      /\ call' = [call EXCEPT ![c] = x]
      /\ UNCHANGED <<keys, initiators, responders, pending, confirmations, sessions>>
  BY DEF BeginInitiator
<1>2. x[1] = "initiator" /\ x[2] = h /\ x[3] = r
  OBVIOUS
<1>3. CallOK(x)'
  <2>1. InitiatorCallOK(h, r)
    BY <1>1, AcceptedResponseIsAnswer DEF Inv
  <2>2. InitiatorCallOK(h, r)'
    BY <1>1, <2>1 DEF InitiatorCallOK
  <2> QED BY <1>2, <2>2 DEF CallOK
<1>4. /\ keys' \in 0 .. MaxKeys
      /\ \A g \in initiators' : InitiatorOK(g)'
      /\ \A p \in responders' : ResponderOK(p)'
      /\ KeysAreFresh' /\ CallsOK'
      /\ call'[c] = x
      /\ \A d \in Callers \ {c} : call'[d] = call[d]
  BY <1>1, <1>3, OneCall
<1>5. pending' \subseteq 1 .. keys' /\ ConfirmationsOK' /\ SessionsOK'
  BY <1>1, BeginRest
<1>6. ASSUME Confined PROVE Exclusive'
  <2>1. \A j : WorksOn(c, j)' <=> j = InitiatorKey(h)
    BY <1>2, <1>4 DEF WorksOn
  <2>2. ~InProgress(InitiatorKey(h))
    BY <1>6 DEF MayCall
  <2> QED BY <1>1, <1>4, <1>6, <2>1, <2>2, BeginExclusive
<1> QED BY <1>4, <1>5, <1>6 DEF Inv

(* ResponderHandshake.complete passes its tests. *)
LEMMA BeginResponderInv ==
  ASSUME Inv, NEW c \in Callers, NEW p \in responders, NEW m \in ConfirmationsInTransit,
         MayCall(ResponderKey(p)), BeginResponder(c, p, m)
  PROVE  Inv'
<1> SUFFICES ASSUME NEW x, x = <<"responder", p, m>> PROVE Inv'
  OBVIOUS
<1>1. /\ ResponderKey(p) \in pending /\ ConfirmationAccepted(p, m)
      /\ call' = [call EXCEPT ![c] = x]
      /\ UNCHANGED <<keys, initiators, responders, pending, confirmations, sessions>>
  BY DEF BeginResponder
<1>2. x[1] = "responder" /\ x[2] = p /\ x[3] = m
  OBVIOUS
<1>3. CallOK(x)'
  <2>1. ResponderCallOK(p)
    BY <1>1, AcceptedConfirmationIsAnswered DEF Inv
  <2>2. ResponderCallOK(p)'
    BY <1>1, <2>1 DEF ResponderCallOK, Completed
  <2> QED BY <1>2, <2>2 DEF CallOK
<1>4. /\ keys' \in 0 .. MaxKeys
      /\ \A h \in initiators' : InitiatorOK(h)'
      /\ \A q \in responders' : ResponderOK(q)'
      /\ KeysAreFresh' /\ CallsOK'
      /\ call'[c] = x
      /\ \A d \in Callers \ {c} : call'[d] = call[d]
  BY <1>1, <1>3, OneCall
<1>5. pending' \subseteq 1 .. keys' /\ ConfirmationsOK' /\ SessionsOK'
  BY <1>1, BeginRest
<1>6. ASSUME Confined PROVE Exclusive'
  <2>1. \A j : WorksOn(c, j)' <=> j = ResponderKey(p)
    BY <1>2, <1>4 DEF WorksOn
  <2>2. ~InProgress(ResponderKey(p))
    BY <1>6 DEF MayCall
  <2> QED BY <1>1, <1>4, <1>6, <2>1, <2>2, BeginExclusive
<1> QED BY <1>4, <1>5, <1>6 DEF Inv

(* complete() returns one more SessionState. *)
LEMMA OneSession ==
  ASSUME Inv, NEW k, NEW e, Return(k, e)
  PROVE  /\ IsFiniteSet(sessions')
         /\ \E n \in Nat : sessions' = sessions \cup {[owner |-> k, state |-> e, number |-> n]}
<1> DEFINE before == {s \in sessions : s.owner = k}
<1>1. IsFiniteSet(sessions)
  BY DEF Inv, SessionsOK
<1>2. IsFiniteSet(before)
  BY <1>1, FS_Subset
<1>3. Cardinality(before) \in Nat
  BY <1>2, FS_CardinalityType
<1>4. sessions' = sessions \cup {[owner |-> k, state |-> e, number |-> Cardinality(before)]}
  BY DEF Return
<1> HIDE DEF before
<1>5. IsFiniteSet(sessions')
  BY <1>1, <1>4, FS_AddElement
<1> QED BY <1>3, <1>4, <1>5

(* The secret the call has read is still held when it ends, so its object  *)
(* has returned no session; now it is cleared.                             *)
LEMMA EndExclusive ==
  ASSUME Inv, Confined, NEW c \in Callers, NEW k, WorksOn(c, k), NEW new, new.owner = k,
         sessions' = sessions \cup {new}, pending' = pending \ {k},
         call'[c] = <<"idle">>, \A d \in Callers \ {c} : call'[d] = call[d],
         UNCHANGED keys
  PROVE  Exclusive'
<1>1. Exclusive /\ k \in 1 .. keys
  BY KeysInUse DEF Inv
<1>2. k \in pending
  BY <1>1 DEF Exclusive
<1>3. call'[c][1] = "idle"
  OBVIOUS
<1>4. /\ \A j : ~WorksOn(c, j)'
      /\ \A d \in Callers \ {c} : \A j : WorksOn(d, j)' <=> WorksOn(d, j)
  BY <1>3 DEF WorksOn
<1>5. \A d \in Callers \ {c} : ~WorksOn(d, k)
  BY <1>1 DEF Exclusive
<1>6. \A d \in Callers, j \in 1 .. keys : WorksOn(d, j)' => j \in pending'
  BY <1>1, <1>4, <1>5 DEF Exclusive
<1>7. \A d, e \in Callers, j \in 1 .. keys : WorksOn(d, j)' /\ WorksOn(e, j)' => d = e
  BY <1>1, <1>4 DEF Exclusive
<1>8. \A s \in sessions : s.owner \notin pending /\ s.owner # k
  BY <1>1, <1>2 DEF Exclusive
<1>9. \A s \in sessions' : s.owner \notin pending'
  BY <1>8
<1>10. CompletedOnce'
  BY <1>1, <1>8 DEF Exclusive, CompletedOnce
<1> QED BY <1>6, <1>7, <1>9, <1>10 DEF Exclusive

(* InitiatorHandshake.complete returns. *)
LEMMA EndInitiatorInv ==
  ASSUME Inv, NEW c \in Callers, EndInitiator(c)
  PROVE  Inv'
<1> SUFFICES ASSUME NEW h, h = call[c][2], NEW r, r = call[c][3], NEW k, k = InitiatorKey(h),
                    NEW idle, idle = <<"idle">>, NEW e, e = InitiatorSession(h, r)
             PROVE  Inv'
  OBVIOUS
<1>1. /\ call[c][1] = "initiator"
      /\ confirmations' = confirmations \cup {MakeConfirmation(h, r)}
      /\ Return(k, e)
      /\ call' = [call EXCEPT ![c] = idle]
      /\ UNCHANGED <<keys, initiators, responders>>
      /\ pending' = pending \ {k}
  BY DEF EndInitiator, BuildInitiator
<1>2. WorksOn(c, k)
  BY <1>1 DEF WorksOn
<1>3. InitiatorCallOK(h, r)
  <2>1. CallOK(call[c])
    BY DEF Inv, CallsOK
  <2>2. call[c] # <<"idle">> /\ call[c] # <<"responder", h, r>>
    BY <1>1
  <2> QED BY <2>1, <2>2 DEF CallOK
<1>4. PICK n \in Nat : sessions' = sessions \cup {[owner |-> k, state |-> e, number |-> n]}
  BY <1>1, OneSession
<1> DEFINE new == [owner |-> k, state |-> e, number |-> n]
<1>5. new.owner = k /\ new.state = e /\ new.number = n
  OBVIOUS
<1>6. sessions' = sessions \cup {new} /\ sessions \subseteq sessions' /\ new \in sessions'
  BY <1>4
<1> HIDE DEF new
<1>7. CallOK(idle)'
  BY DEF CallOK
<1>8. /\ keys' \in 0 .. MaxKeys
      /\ \A g \in initiators' : InitiatorOK(g)'
      /\ \A p \in responders' : ResponderOK(p)'
      /\ KeysAreFresh' /\ CallsOK'
      /\ call'[c] = idle
      /\ \A d \in Callers \ {c} : call'[d] = call[d]
  BY <1>1, <1>6, <1>7, OneCall
<1>9. keys' \in Nat /\ keys <= keys'
  BY <1>1, MaxKeysAssumption DEF Inv
<1>10. /\ \A p, g : Completed(p, g) => Completed(p, g)'
       /\ \A s, p, g : ResponderEnd(s, p, g) => ResponderEnd(s, p, g)'
  BY <1>1, <1>6, <1>9, Growth
<1>11. PICK p \in responders :
         /\ Answers(p, h)
         /\ e = InitiatorSession(h, p.response)
         /\ MakeConfirmation(h, r) = MakeConfirmation(h, p.response)
  BY <1>3 DEF InitiatorCallOK
<1>12. h \in initiators
  BY <1>3 DEF InitiatorCallOK
<1>13. Completed(p, h)'
  BY <1>5, <1>6, <1>11 DEF Completed
<1>14. ConfirmationsOK'
  <2> SUFFICES ASSUME NEW x \in confirmations'
               PROVE  \E q \in responders', g \in initiators' :
                        Completed(q, g)' /\ x = MakeConfirmation(g, q.response)
    BY DEF ConfirmationsOK
  <2>1. CASE x \in confirmations
    <3>1. PICK q \in responders, g \in initiators :
            Completed(q, g) /\ x = MakeConfirmation(g, q.response)
      BY <2>1 DEF Inv, ConfirmationsOK
    <3> QED BY <1>1, <1>10, <3>1
  <2>2. CASE x = MakeConfirmation(h, r)
    BY <1>1, <1>11, <1>12, <1>13, <2>2
  <2> QED BY <1>1, <2>1, <2>2
<1>15. SessionsOK'
  <2>1. IsFiniteSet(sessions')
    BY <1>1, OneSession
  <2>2. InitiatorEnd(new, p, h)
    BY <1>5, <1>11 DEF InitiatorEnd
  <2>3. ASSUME NEW s \in sessions
        PROVE  /\ s.number \in Nat
               /\ \E q \in responders, g \in initiators :
                    InitiatorEnd(s, q, g) \/ ResponderEnd(s, q, g)'
    BY <1>10 DEF Inv, SessionsOK
  <2> QED BY <1>1, <1>5, <1>6, <1>12, <2>1, <2>2, <2>3 DEF SessionsOK, InitiatorEnd
<1>16. Confined => Exclusive'
  BY <1>1, <1>2, <1>5, <1>6, <1>8, EndExclusive
<1>17. pending' \subseteq 1 .. keys'
  BY <1>1 DEF Inv
<1> QED BY <1>8, <1>14, <1>15, <1>16, <1>17 DEF Inv

(* ResponderHandshake.complete returns. *)
LEMMA EndResponderInv ==
  ASSUME Inv, NEW c \in Callers, EndResponder(c)
  PROVE  Inv'
<1> SUFFICES ASSUME NEW p, p = call[c][2], NEW m, m = call[c][3], NEW k, k = ResponderKey(p),
                    NEW idle, idle = <<"idle">>, NEW e, e = ResponderSession(p)
             PROVE  Inv'
  OBVIOUS
<1>1. /\ call[c][1] = "responder"
      /\ Return(k, e)
      /\ call' = [call EXCEPT ![c] = idle]
      /\ UNCHANGED <<keys, initiators, responders, confirmations>>
      /\ pending' = pending \ {k}
  BY DEF EndResponder, BuildResponder
<1>2. WorksOn(c, k)
  BY <1>1 DEF WorksOn
<1>3. ResponderCallOK(p)
  <2>1. CallOK(call[c])
    BY DEF Inv, CallsOK
  <2>2. call[c] # <<"idle">> /\ call[c] # <<"initiator", p, m>>
    BY <1>1
  <2> QED BY <2>1, <2>2 DEF CallOK
<1>4. PICK n \in Nat : sessions' = sessions \cup {[owner |-> k, state |-> e, number |-> n]}
  BY <1>1, OneSession
<1> DEFINE new == [owner |-> k, state |-> e, number |-> n]
<1>5. new.owner = k /\ new.state = e /\ new.number = n
  OBVIOUS
<1>6. sessions' = sessions \cup {new} /\ sessions \subseteq sessions' /\ new \in sessions'
  BY <1>4
<1> HIDE DEF new
<1>7. CallOK(idle)'
  BY DEF CallOK
<1>8. /\ keys' \in 0 .. MaxKeys
      /\ \A g \in initiators' : InitiatorOK(g)'
      /\ \A q \in responders' : ResponderOK(q)'
      /\ KeysAreFresh' /\ CallsOK'
      /\ call'[c] = idle
      /\ \A d \in Callers \ {c} : call'[d] = call[d]
  BY <1>1, <1>6, <1>7, OneCall
<1>9. keys' \in Nat /\ keys <= keys'
  BY <1>1, MaxKeysAssumption DEF Inv
<1>10. /\ \A q, g : Completed(q, g) => Completed(q, g)'
       /\ \A s, q, g : ResponderEnd(s, q, g) => ResponderEnd(s, q, g)'
  BY <1>1, <1>6, <1>9, Growth
<1>11. PICK h \in initiators : Completed(p, h) /\ h.identity.key = p.anchor
  BY <1>3 DEF ResponderCallOK
<1>12. p \in responders
  BY <1>3 DEF ResponderCallOK
<1>13. ConfirmationsOK'
  BY <1>1, <1>10 DEF Inv, ConfirmationsOK
<1>14. SessionsOK'
  <2>1. IsFiniteSet(sessions')
    BY <1>1, OneSession
  <2>2. ResponderEnd(new, p, h)
    BY <1>5, <1>11 DEF ResponderEnd
  <2>3. ResponderEnd(new, p, h)'
    BY <1>10, <2>2
  <2>4. ASSUME NEW s \in sessions
        PROVE  /\ s.number \in Nat
               /\ \E q \in responders, g \in initiators :
                    InitiatorEnd(s, q, g) \/ ResponderEnd(s, q, g)'
    BY <1>10 DEF Inv, SessionsOK
  <2> QED BY <1>1, <1>5, <1>6, <1>11, <1>12, <2>1, <2>3, <2>4 DEF SessionsOK, InitiatorEnd
<1>15. Confined => Exclusive'
  BY <1>1, <1>2, <1>5, <1>6, <1>8, EndExclusive
<1>16. pending' \subseteq 1 .. keys'
  BY <1>1 DEF Inv
<1> QED BY <1>8, <1>13, <1>14, <1>15, <1>16 DEF Inv

(* A step that changes nothing. *)
LEMMA StutterInv == Inv /\ UNCHANGED vars => Inv'
BY DEF Inv, vars, InitiatorOK, ResponderOK, Offers, KeysAreFresh, CallsOK, CallOK,
       InitiatorCallOK, ResponderCallOK, Completed, ConfirmationsOK, SessionsOK,
       InitiatorEnd, ResponderEnd, Exclusive, WorksOn, CompletedOnce

(* Every step of a handshake preserves the invariant. *)
LEMMA StepInv == Inv /\ [Next]_vars => Inv'
<1> SUFFICES ASSUME Inv, [Next]_vars PROVE Inv'
  OBVIOUS
<1>1. CASE UNCHANGED vars
  BY <1>1, StutterInv
<1>2. ASSUME NEW v \in Invitations, Initiate(v) PROVE Inv'
  BY <1>2, InitiateInv
<1>3. ASSUME NEW a \in Acceptances, NEW o \in OffersInTransit, Respond(a, o) PROVE Inv'
  BY <1>3, RespondInv
<1>4. ASSUME NEW h \in initiators, NEW r \in ResponsesInTransit, NEW c \in Callers,
             MayCall(InitiatorKey(h)), BeginInitiator(c, h, r)
      PROVE  Inv'
  BY <1>4, BeginInitiatorInv
<1>5. ASSUME NEW p \in responders, NEW m \in ConfirmationsInTransit, NEW c \in Callers,
             MayCall(ResponderKey(p)), BeginResponder(c, p, m)
      PROVE  Inv'
  BY <1>5, BeginResponderInv
<1>6. ASSUME NEW h, NEW r, InitiatorRaises(h, r) PROVE Inv'
  BY <1>6, StutterInv DEF InitiatorRaises
<1>7. ASSUME NEW p, NEW m, ResponderRaises(p, m) PROVE Inv'
  BY <1>7, StutterInv DEF ResponderRaises
<1>8. ASSUME NEW c \in Callers, EndInitiator(c) PROVE Inv'
  BY <1>8, EndInitiatorInv
<1>9. ASSUME NEW c \in Callers, EndResponder(c) PROVE Inv'
  BY <1>9, EndResponderInv
<1> QED BY <1>1, <1>2, <1>3, <1>4, <1>5, <1>6, <1>7, <1>8, <1>9 DEF Next

(* The invariant holds in every reachable state. *)
THEOREM Invariance == Spec => []Inv
BY InitInv, StepInv, PTL DEF Spec

-----------------------------------------------------------------------------
(* The properties *)

(* A session belongs to one end of one answered handshake. *)
LEMMA EndsOfSession ==
  ASSUME Inv, NEW s \in sessions
  PROVE  \E p \in responders, h \in initiators :
           /\ ResponderOK(p) /\ Answers(p, h)
           /\ InitiatorEnd(s, p, h) \/ ResponderEnd(s, p, h)
<1>1. PICK p \in responders, h \in initiators : InitiatorEnd(s, p, h) \/ ResponderEnd(s, p, h)
  BY DEF Inv, SessionsOK
<1>2. Answers(p, h)
  BY <1>1 DEF InitiatorEnd, ResponderEnd, Completed
<1> QED BY <1>1, <1>2 DEF Inv

(* Every variable has its type: the keys in use were generated, and every  *)
(* message an object holds names two different participants.               *)
THEOREM TypeCorrect == Spec => []TypeOK
<1>1. ASSUME Inv PROVE TypeOK
  <2> USE <1>1
  <2>1. \A h \in initiators :
          h.identity \in Identities /\ InitiatorKey(h) \in 1 .. keys /\ ValidParticipants(h.offer)
    BY DEF Inv, InitiatorOK
  <2>2. ASSUME NEW p \in responders
        PROVE  ResponderKey(p) \in 1 .. keys /\ ValidParticipants(p.response)
    <3>1. PICK i \in Identities : /\ p.offer \in Offers
                                  /\ ResponderKey(p) \in 1 .. keys
                                  /\ p.response = MakeResponse(i, p.offer, ResponderKey(p), p.root)
      BY DEF Inv, ResponderOK
    <3>2. ValidParticipants(p.offer)
      BY <2>1, <3>1 DEF Offers
    <3>3. validate_for_offer(p.response, p.offer)
      BY <3>1, ResponseFields
    <3> QED BY <3>1, <3>2, <3>3 DEF ValidParticipants, validate_for_offer
  <2>3. ASSUME NEW c \in Callers PROVE call[c][1] \in {"idle", "initiator", "responder"}
    <3>1. \/ call[c] = <<"idle">>
          \/ call[c] = <<"initiator", call[c][2], call[c][3]>>
          \/ call[c] = <<"responder", call[c][2], call[c][3]>>
      BY DEF Inv, CallsOK, CallOK
    <3> QED BY <3>1
  <2>4. \A s \in sessions : s.owner \in (1 .. keys) /\ s.number \in Nat
    BY KeysInUse DEF Inv, SessionsOK
  <2>5. keys \in 0 .. MaxKeys /\ pending \subseteq 1 .. keys
    BY DEF Inv
  <2> QED BY <2>1, <2>2, <2>3, <2>4, <2>5 DEF TypeOK
<1> QED BY <1>1, Invariance, PTL

(* A responder object exists only for an offer that an initiator made,     *)
(* however the transport damaged what SessionFactory.responder was given.  *)
THEOREM GenuineOffers == Spec => []OffersAreGenuine
<1>1. ASSUME Inv PROVE OffersAreGenuine
  BY <1>1 DEF Inv, ResponderOK, OffersAreGenuine
<1> QED BY <1>1, Invariance, PTL

(* A session that InitiatorHandshake.complete returned is one that the     *)
(* identity the initiator trusts and named has answered with the same root *)
(* key, even where threads race inside complete().                         *)
THEOREM InitiatorAgrees == Spec => []InitiatorAgreement
<1>1. ASSUME Inv PROVE InitiatorAgreement
  <2> USE <1>1
  <2> SUFFICES ASSUME NEW h \in initiators, NEW s \in sessions, s.owner = InitiatorKey(h)
               PROVE  \E p \in responders, i \in Identities :
                        /\ p.offer = h.offer
                        /\ Mirrors(s.state, ResponderSession(p))
                        /\ i.key = h.anchor /\ i.key = p.response.responder_signing
                        /\ i.name = s.state.remote_name
    BY DEF InitiatorAgreement
  <2>1. PICK p \in responders, g \in initiators :
          /\ ResponderOK(p) /\ Answers(p, g)
          /\ InitiatorEnd(s, p, g) \/ ResponderEnd(s, p, g)
    BY EndsOfSession
  <2>2. g = h /\ s.state = InitiatorSession(h, p.response)
    BY <2>1 DEF Inv, KeysAreFresh, InitiatorEnd, ResponderEnd
  <2>3. /\ Mirrors(s.state, ResponderSession(p))
        /\ s.state.remote_name = h.offer.responder
    BY <2>1, <2>2, AnswersMirror
  <2>4. PICK i \in Identities : /\ i.name = p.offer.responder
                                /\ p.response = MakeResponse(i, p.offer, ResponderKey(p), p.root)
    BY <2>1 DEF ResponderOK
  <2>5. p.response.responder_signing = i.key
    BY <2>4, ResponseFields
  <2>6. p.offer = h.offer /\ h.anchor = p.response.responder_signing
    BY <2>1, <2>2 DEF Answers
  <2> QED BY <2>3, <2>4, <2>5, <2>6
<1> QED BY <1>1, Invariance, PTL

(* A handshake object whose complete() is never called from two threads at *)
(* once returns at most one session.                                       *)
THEOREM CompletesOnce == ASSUME Confined PROVE Spec => []CompletedOnce
<1>1. ASSUME Inv PROVE CompletedOnce
  BY <1>1 DEF Inv, Exclusive
<1> QED BY <1>1, Invariance, PTL

(* A root key holds its transcript, hence both fresh keys. *)
LEMMA RootsOfInv == Inv => SharedRoots
<1> SUFFICES ASSUME Inv, NEW s \in sessions, NEW t \in sessions,
                    s.state.root_key = t.state.root_key
             PROVE  s.owner = t.owner \/ Mirrors(s.state, t.state)
  BY DEF SharedRoots
<1>1. PICK p \in responders, h \in initiators :
        /\ ResponderOK(p) /\ Answers(p, h)
        /\ InitiatorEnd(s, p, h) \/ ResponderEnd(s, p, h)
  BY EndsOfSession
<1>2. PICK q \in responders, g \in initiators :
        /\ ResponderOK(q) /\ Answers(q, g)
        /\ InitiatorEnd(t, q, g) \/ ResponderEnd(t, q, g)
  BY EndsOfSession
<1>3. s.state.root_key = p.root
  BY <1>1, AnswersMirror DEF InitiatorEnd, ResponderEnd
<1>4. t.state.root_key = q.root
  BY <1>2, AnswersMirror DEF InitiatorEnd, ResponderEnd
<1>5. ResponderKey(p) = ResponderKey(q)
  <2>1. p.root.transcript.responder_ephemeral = ResponderKey(p)
    BY <1>1, TranscriptFields DEF ResponderOK
  <2>2. q.root.transcript.responder_ephemeral = ResponderKey(q)
    BY <1>2, TranscriptFields DEF ResponderOK
  <2> QED BY <1>3, <1>4, <2>1, <2>2
<1>6. p = q
  BY <1>5 DEF Inv, KeysAreFresh
<1>7. InitiatorKey(h) = InitiatorKey(g)
  BY <1>1, <1>2, <1>6 DEF Answers, InitiatorKey
<1>8. h = g
  BY <1>7 DEF Inv, KeysAreFresh
<1>9. CASE InitiatorEnd(s, p, h) /\ ResponderEnd(t, p, h)
  BY <1>1, <1>9, AnswersMirror DEF InitiatorEnd, ResponderEnd
<1>10. CASE ResponderEnd(s, p, h) /\ InitiatorEnd(t, p, h)
  BY <1>1, <1>10, AnswersMirror DEF InitiatorEnd, ResponderEnd
<1> QED
  BY <1>1, <1>2, <1>6, <1>8, <1>9, <1>10 DEF InitiatorEnd, ResponderEnd

(* Even where threads race inside complete(), a root key never leaves its  *)
(* handshake: the most that can happen is that one object returns several  *)
(* sessions under it.                                                      *)
THEOREM RootsStay == Spec => []SharedRoots
BY RootsOfInv, Invariance, PTL

\* Two SessionStates share a root key only if they are the two ends of one
\* handshake.
PairedRoots ==
  \A s, t \in sessions :
    s.state.root_key = t.state.root_key => s = t \/ Mirrors(s.state, t.state)

(* Without such a race two SessionStates with one root key are the two     *)
(* ends of one handshake, so that no two senders share message keys.       *)
THEOREM RootsPair == ASSUME Confined PROVE Spec => []PairedRoots
<1>1. ASSUME Inv PROVE PairedRoots
  <2>1. SharedRoots
    BY <1>1, RootsOfInv
  <2>2. CompletedOnce
    BY <1>1 DEF Inv, Exclusive
  <2> QED BY <2>1, <2>2 DEF SharedRoots, CompletedOnce, PairedRoots
<1> QED BY <1>1, Invariance, PTL

(* Without such a race a session that ResponderHandshake.complete returned *)
(* has exactly one mirror, returned to the identity the responder trusts.  *)
THEOREM ResponderAgrees == ASSUME Confined PROVE Spec => []ResponderAgreement
<1>1. ASSUME Inv PROVE ResponderAgreement
  <2> USE <1>1
  <2> SUFFICES ASSUME NEW p \in responders, NEW s \in sessions, s.owner = ResponderKey(p)
               PROVE  \E h \in initiators, t \in sessions :
                        /\ t.owner = InitiatorKey(h)
                        /\ Mirrors(s.state, t.state)
                        /\ h.identity.key = p.anchor
                        /\ h.identity.name = s.state.remote_name
                        /\ \A u \in sessions : Mirrors(s.state, u.state) => u = t
    BY DEF ResponderAgreement
  <2>1. PICK q \in responders, h \in initiators :
          /\ ResponderOK(q) /\ Answers(q, h)
          /\ InitiatorEnd(s, q, h) \/ ResponderEnd(s, q, h)
    BY EndsOfSession
  <2>2. ResponderEnd(s, q, h) /\ q = p
    BY <2>1 DEF Inv, KeysAreFresh, InitiatorEnd, ResponderEnd
  <2>3. s.state = ResponderSession(p) /\ h.identity.key = p.anchor
    BY <2>2 DEF ResponderEnd
  <2>4. PICK t \in sessions :
          t.owner = InitiatorKey(h) /\ t.state = InitiatorSession(h, p.response)
    BY <2>2 DEF ResponderEnd, Completed
  <2>5. /\ Mirrors(s.state, t.state)
        /\ s.state.remote_name = h.offer.initiator
    BY <2>1, <2>2, <2>3, <2>4, AnswersMirror
  <2>6. h.identity.name = h.offer.initiator
    <3>1. h.offer = MakeOffer(h.identity, h.offer.responder, h.offer.suite, InitiatorKey(h))
      BY DEF Inv, InitiatorOK
    <3> QED BY <3>1, OfferFields
  <2>7. ASSUME NEW u \in sessions, Mirrors(s.state, u.state) PROVE u = t
    <3>1. s.state.remote_ephemeral = InitiatorKey(h)
      BY <2>1, <2>2, <2>3 DEF Answers, ResponderSession, InitiatorKey
    <3>2. u.state.local_ephemeral = InitiatorKey(h)
      BY <2>7, <3>1 DEF Mirrors
    <3>3. PICK o \in responders, g \in initiators :
            InitiatorEnd(u, o, g) \/ ResponderEnd(u, o, g)
      BY EndsOfSession
    <3>4. CASE InitiatorEnd(u, o, g)
      <4>1. u.owner = u.state.local_ephemeral
        BY <3>4 DEF InitiatorEnd, InitiatorSession, InitiatorKey
      <4> QED BY <2>4, <3>2, <4>1 DEF Inv, Exclusive, CompletedOnce
    <3>5. CASE ResponderEnd(u, o, g)
      <4>1. u.state.local_ephemeral = ResponderKey(o)
        BY <3>5 DEF ResponderEnd, ResponderSession, ResponderKey
      <4> QED BY <3>2, <4>1 DEF Inv, KeysAreFresh
    <3> QED BY <3>3, <3>4, <3>5
  <2> QED BY <2>3, <2>4, <2>5, <2>6, <2>7
<1> QED BY <1>1, Invariance, PTL

-----------------------------------------------------------------------------
(* The ends that SessionState starts from *)

\* e is one of the two ends of the handshake in which p answered h.
EndOf(e, p, h) ==
  /\ ResponderOK(p) /\ Answers(p, h)
  /\ \/ e.owner = InitiatorKey(h) /\ e.state = InitiatorSession(h, p.response)
     \/ e.owner = ResponderKey(p) /\ e.state = ResponderSession(p)

(* The ephemeral keys of an end: the one its object made, and its peer's. *)
LEMMA KeysOfEnd ==
  ASSUME NEW e, NEW p, NEW h, EndOf(e, p, h)
  PROVE  /\ e.state.root_key = p.root
         /\ e.owner = e.state.local_ephemeral
         /\ \/ e.owner = InitiatorKey(h) /\ e.state.remote_ephemeral = ResponderKey(p)
            \/ e.owner = ResponderKey(p) /\ e.state.remote_ephemeral = InitiatorKey(h)
<1>1. e.state.root_key = p.root
  BY AnswersMirror DEF EndOf
<1>2. p.offer = h.offer
  BY DEF EndOf, Answers
<1>3. CASE e.owner = InitiatorKey(h) /\ e.state = InitiatorSession(h, p.response)
  BY <1>1, <1>3 DEF InitiatorSession, InitiatorKey, ResponderKey
<1>4. CASE e.owner = ResponderKey(p) /\ e.state = ResponderSession(p)
  BY <1>1, <1>2, <1>4 DEF ResponderSession, InitiatorKey, ResponderKey
<1> QED BY <1>3, <1>4 DEF EndOf

(* A root key names its handshake, on both sides. *)
LEMMA OneRoot ==
  ASSUME Inv, NEW p \in responders, NEW q \in responders, p.root = q.root
  PROVE  p = q
<1>1. /\ p.root.transcript.responder_ephemeral = ResponderKey(p)
      /\ q.root.transcript.responder_ephemeral = ResponderKey(q)
  BY TranscriptFields DEF Inv, ResponderOK
<1> QED BY <1>1 DEF Inv, KeysAreFresh

(* What a session mirrors, mirrors the session. *)
LEMMA MirrorsBack ==
  ASSUME NEW s, NEW t, Mirrors(s, t)
  PROVE  Mirrors(t, s)
BY DEF Mirrors

(* Every end belongs to an answered handshake, also one whose responder's  *)
(* complete() has yet to return.                                           *)
LEMMA EndsBelong ==
  ASSUME Inv, NEW e \in Ends
  PROVE  \E p \in responders, h \in initiators : EndOf(e, p, h)
<1>1. ASSUME NEW s \in sessions PROVE \E p \in responders, h \in initiators : EndOf(s, p, h)
  BY EndsOfSession DEF EndOf, InitiatorEnd, ResponderEnd
<1>2. ASSUME e \in Awaited PROVE \E p \in responders, h \in initiators : EndOf(e, p, h)
  <2>1. PICK p \in responders :
          /\ \E s \in sessions : Mirrors(s.state, ResponderSession(p))
          /\ e = [owner |-> ResponderKey(p), state |-> ResponderSession(p), number |-> 0]
    BY <1>2 DEF Awaited
  <2>2. PICK s \in sessions : Mirrors(s.state, ResponderSession(p))
    BY <2>1
  <2>3. PICK q \in responders, h \in initiators : EndOf(s, q, h)
    BY <1>1
  <2>4. q.root = p.root
    BY <2>2, <2>3, KeysOfEnd DEF Mirrors, ResponderSession
  <2>5. q = p
    BY <2>4, OneRoot
  <2>6. e.owner = ResponderKey(p) /\ e.state = ResponderSession(p)
    BY <2>1
  <2> QED BY <2>3, <2>5, <2>6 DEF EndOf
<1> QED BY <1>1, <1>2 DEF Ends

(* An object has one end: the session it returned, or the one awaited. *)
LEMMA OneEnd ==
  ASSUME Inv, Confined, NEW e \in Ends, NEW f \in Ends, e.owner = f.owner
  PROVE  e = f
<1>1. CASE e \in sessions /\ f \in sessions
  BY <1>1 DEF Inv, Exclusive, CompletedOnce
<1>2. ASSUME NEW x \in Awaited
      PROVE  \E p \in responders :
               /\ x = [owner |-> ResponderKey(p), state |-> ResponderSession(p), number |-> 0]
               /\ x.owner = ResponderKey(p)
               /\ \A s \in sessions : s.owner # ResponderKey(p)
  BY DEF Awaited
<1>3. CASE e \in Awaited /\ f \in Awaited
  <2>1. PICK p \in responders :
          /\ e = [owner |-> ResponderKey(p), state |-> ResponderSession(p), number |-> 0]
          /\ e.owner = ResponderKey(p)
    BY <1>2, <1>3
  <2>2. PICK q \in responders :
          /\ f = [owner |-> ResponderKey(q), state |-> ResponderSession(q), number |-> 0]
          /\ f.owner = ResponderKey(q)
    BY <1>2, <1>3
  <2>3. p = q
    BY <2>1, <2>2 DEF Inv, KeysAreFresh
  <2> QED BY <2>1, <2>2, <2>3
<1>4. CASE e \in sessions /\ f \in Awaited
  BY <1>2, <1>4
<1>5. CASE e \in Awaited /\ f \in sessions
  BY <1>2, <1>5
<1> QED BY <1>1, <1>3, <1>4, <1>5 DEF Ends

(* Every end has a mirror: an initiator returns only after its responder   *)
(* made the root, a responder only after its initiator returned.           *)
LEMMA EndHasMirror ==
  ASSUME Inv, NEW e \in Ends
  PROVE  \E f \in Ends : Mirrors(e.state, f.state)
<1>1. CASE e \in Awaited
  <2>1. PICK p \in responders, s \in sessions :
          /\ Mirrors(s.state, ResponderSession(p))
          /\ e = [owner |-> ResponderKey(p), state |-> ResponderSession(p), number |-> 0]
    BY <1>1 DEF Awaited
  <2>2. e.state = ResponderSession(p)
    BY <2>1
  <2>3. Mirrors(e.state, s.state)
    BY <2>1, <2>2, MirrorsBack
  <2> QED BY <2>3 DEF Ends
<1>2. CASE e \in sessions
  <2>1. PICK p \in responders, h \in initiators :
          /\ ResponderOK(p) /\ Answers(p, h)
          /\ InitiatorEnd(e, p, h) \/ ResponderEnd(e, p, h)
    BY <1>2, EndsOfSession
  <2>2. CASE ResponderEnd(e, p, h)
    <3>1. PICK t \in sessions : t.state = InitiatorSession(h, p.response)
      BY <2>2 DEF ResponderEnd, Completed
    <3>2. Mirrors(e.state, t.state)
      BY <2>1, <2>2, <3>1, AnswersMirror DEF ResponderEnd
    <3> QED BY <3>2 DEF Ends
  <2>3. CASE InitiatorEnd(e, p, h)
    <3>1. Mirrors(e.state, ResponderSession(p))
      BY <2>1, <2>3, AnswersMirror DEF InitiatorEnd
    <3>2. CASE \A s \in sessions : s.owner # ResponderKey(p)
      <4> DEFINE f == [owner |-> ResponderKey(p), state |-> ResponderSession(p), number |-> 0]
      <4>1. f \in Ends
        BY <1>2, <3>1, <3>2 DEF Awaited, Ends
      <4>2. f.state = ResponderSession(p)
        OBVIOUS
      <4> QED BY <3>1, <4>1, <4>2
    <3>3. ASSUME NEW s \in sessions, s.owner = ResponderKey(p)
          PROVE  \E f \in Ends : Mirrors(e.state, f.state)
      <4>1. PICK q \in responders, g \in initiators :
              InitiatorEnd(s, q, g) \/ ResponderEnd(s, q, g)
        BY EndsOfSession
      <4>2. s.state = ResponderSession(p)
        BY <3>3, <4>1 DEF Inv, KeysAreFresh, InitiatorEnd, ResponderEnd
      <4> QED BY <3>1, <4>2 DEF Ends
    <3> QED BY <3>2, <3>3
  <2> QED BY <2>1, <2>2, <2>3
<1> QED BY <1>1, <1>2 DEF Ends

(* ... and only one, since it is known by the peer's ephemeral key. *)
LEMMA OneMirror ==
  ASSUME Inv, Confined, NEW e, NEW f \in Ends, NEW g \in Ends,
         Mirrors(e.state, f.state), Mirrors(e.state, g.state)
  PROVE  f = g
<1>1. f.owner = f.state.local_ephemeral /\ g.owner = g.state.local_ephemeral
  BY EndsBelong, KeysOfEnd
<1>2. f.state.local_ephemeral = g.state.local_ephemeral
  BY DEF Mirrors
<1> QED BY <1>1, <1>2, OneEnd

(* The two names and the two ephemeral keys of an end differ. *)
LEMMA EndsDiffer ==
  ASSUME Inv, NEW e \in Ends
  PROVE  /\ e.state.local_name # e.state.remote_name
         /\ e.state.local_ephemeral # e.state.remote_ephemeral
<1>1. PICK p \in responders, h \in initiators : EndOf(e, p, h)
  BY EndsBelong
<1>2. InitiatorKey(h) # ResponderKey(p)
  BY DEF Inv, KeysAreFresh
<1>3. e.state.local_ephemeral # e.state.remote_ephemeral
  BY <1>1, <1>2, KeysOfEnd
<1>4. h.offer.initiator # h.offer.responder /\ p.offer = h.offer
  BY <1>1 DEF Inv, InitiatorOK, ValidParticipants, EndOf, Answers
<1>5. CASE e.state = InitiatorSession(h, p.response)
  BY <1>3, <1>4, <1>5 DEF InitiatorSession
<1>6. CASE e.state = ResponderSession(p)
  BY <1>3, <1>4, <1>6 DEF ResponderSession
<1> QED BY <1>1, <1>5, <1>6 DEF EndOf

(* Ends with one root key are one end or mirror each other. *)
LEMMA RootsOfEnds ==
  ASSUME Inv, Confined, NEW e \in Ends, NEW f \in Ends, e.state.root_key = f.state.root_key
  PROVE  e = f \/ Mirrors(e.state, f.state)
<1>1. PICK p \in responders, h \in initiators : EndOf(e, p, h)
  BY EndsBelong
<1>2. PICK q \in responders, g \in initiators : EndOf(f, q, g)
  BY EndsBelong
<1>3. p = q
  BY <1>1, <1>2, KeysOfEnd, OneRoot
<1>4. h = g
  <2>1. InitiatorKey(h) = InitiatorKey(g)
    BY <1>1, <1>2, <1>3 DEF EndOf, Answers, InitiatorKey
  <2> QED BY <2>1 DEF Inv, KeysAreFresh
<1>5. CASE e.owner = f.owner
  BY <1>5, OneEnd
<1>6. CASE e.state = InitiatorSession(h, p.response) /\ f.state = ResponderSession(p)
  BY <1>1, <1>6, AnswersMirror DEF EndOf
<1>7. CASE e.state = ResponderSession(p) /\ f.state = InitiatorSession(h, p.response)
  BY <1>1, <1>7, AnswersMirror DEF EndOf
<1> QED BY <1>1, <1>2, <1>3, <1>4, <1>5, <1>6, <1>7 DEF EndOf

(* The seam between the handshake and the session: without a race inside   *)
(* complete(), the SessionStates that handshakes return satisfy what       *)
(* Session assumes of its endpoints (EndpointAssumption).                  *)
THEOREM HandshakesMakeSessions == ASSUME Confined PROVE Spec => []SessionsFit
<1>1. ASSUME Inv PROVE SessionsFit
  <2> USE <1>1
  <2> DEFINE peer == [e \in Ends |-> PeerOf(e)]
             name == [e \in Ends |-> e.state.local_name]
             suite_name == [e \in Ends |-> e.state.suite]
             root == [e \in Ends |-> e.state.root_key]
             ephemeral_key == [e \in Ends |-> e.state.local_ephemeral]
  <2>1. ASSUME NEW e \in Ends PROVE PeerOf(e) \in Ends /\ Mirrors(e.state, PeerOf(e).state)
    BY EndHasMirror DEF PeerOf
  <2>2. ASSUME NEW e \in Ends, NEW f \in Ends, Mirrors(e.state, f.state) PROVE f = PeerOf(e)
    BY <2>1, <2>2, OneMirror
  <2>3. ASSUME NEW e \in Ends PROVE PeerOf(PeerOf(e)) = e
    BY <2>1, <2>2, MirrorsBack
  <2>4. ASSUME NEW e \in Ends
        PROVE  /\ PeerOf(e).state.suite = e.state.suite
               /\ PeerOf(e).state.local_name # e.state.local_name
               /\ PeerOf(e).state.local_ephemeral # e.state.local_ephemeral
               /\ PeerOf(e).state.root_key = e.state.root_key
               /\ e.state.remote_name = PeerOf(e).state.local_name
               /\ e.state.remote_ephemeral = PeerOf(e).state.local_ephemeral
    BY <2>1, EndsDiffer DEF Mirrors
  <2>5. ASSUME NEW e \in Ends, NEW f \in Ends
        PROVE  e.state.root_key = f.state.root_key <=> f \in {e, PeerOf(e)}
    BY <2>2, <2>4, RootsOfEnds
  <2>6. EndsFit(Ends, peer, name, suite_name, root, ephemeral_key)
    <3>1. peer \in [Ends -> Ends] /\ \A e \in Ends : peer[e] = PeerOf(e) /\ peer[e] \in Ends
      BY <2>1
    <3>2. \A e \in Ends : /\ name[e] = e.state.local_name /\ suite_name[e] = e.state.suite
                          /\ root[e] = e.state.root_key
                          /\ ephemeral_key[e] = e.state.local_ephemeral
      OBVIOUS
    <3> HIDE DEF peer, name, suite_name, root, ephemeral_key
    <3>3. ASSUME NEW e \in Ends
          PROVE  /\ peer[peer[e]] = e
                 /\ suite_name[peer[e]] = suite_name[e]
                 /\ name[peer[e]] # name[e]
                 /\ ephemeral_key[peer[e]] # ephemeral_key[e]
      BY <2>3, <2>4, <3>1, <3>2
    <3>4. ASSUME NEW e \in Ends, NEW f \in Ends
          PROVE  root[e] = root[f] <=> f \in {e, peer[e]}
      BY <2>5, <3>1, <3>2
    <3> QED BY <3>1, <3>3, <3>4 DEF EndsFit
  <2> QED BY <2>4, <2>6, EndHasMirror DEF SessionsFit
<1> QED BY <1>1, Invariance, PTL
=============================================================================

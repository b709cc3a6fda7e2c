------------------------------ MODULE Handshake ------------------------------
(***************************************************************************)
(* The mutually authenticated handshake of session.py.  Any number of      *)
(* initiators and responders run at once between several identities; the   *)
(* application carries their messages, and may lose, repeat, reorder or    *)
(* misdeliver them or damage one field on the way.                         *)
(*                                                                         *)
(* An InitiatorHandshake or ResponderHandshake object never changes but    *)
(* for one field: the private key, or the root, that complete() clears.    *)
(* So an object is an immutable record, known by the ephemeral key made    *)
(* for it, and pending is the set of keys whose secret is still held.      *)
(* complete() takes no lock: it reads the secret first and clears it last, *)
(* two steps between which another thread may call complete() too.         *)
(***************************************************************************)
EXTENDS HandshakeMessages, SessionEnds, Integers, FiniteSets

CONSTANTS
  Identities,     \* records [name, key]: participants and their signing keys
  Invitations,    \* arguments of SessionFactory.initiator
  Acceptances,    \* arguments of SessionFactory.responder, but for the offer
  Callers,        \* threads that call complete()
  Confined,       \* the application never calls complete() on one object
                  \* from two threads at once
  MaxKeys         \* bound on the number of handshake objects

ASSUME SigningKeysAssumption ==
  \A i, j \in Identities : i.key = j.key => i = j
ASSUME InvitationsAssumption ==
  \A v \in Invitations : v.identity \in Identities /\ v.suite \in Suites
ASSUME AcceptancesAssumption == \A a \in Acceptances : a.identity \in Identities
ASSUME ConfinedAssumption == Confined \in BOOLEAN
ASSUME MaxKeysAssumption == MaxKeys \in Nat

VARIABLES
  keys,           \* ephemeral keys generated so far
  initiators,     \* InitiatorHandshake objects
  responders,     \* ResponderHandshake objects
  pending,        \* keys whose object has not been completed
  call,           \* complete() calls between their first and last statement
  confirmations,  \* confirmations returned by initiators' complete()
  sessions        \* history: SessionStates returned by complete()

vars == <<keys, initiators, responders, pending, call, confirmations, sessions>>

Keys == 1 .. MaxKeys

Init ==
  /\ keys = 0
  /\ initiators = {}
  /\ responders = {}
  /\ pending = {}
  /\ call = [c \in Callers |-> <<"idle">>]
  /\ confirmations = {}
  /\ sessions = {}

-----------------------------------------------------------------------------
(* What the application's transport may hand over. *)

Names == {i.name : i \in Identities}
SigningKeys == {i.key : i \in Identities}

Offers == {h.offer : h \in initiators}
Responses == {p.response : p \in responders}

DamagedParticipants(m) ==
  {d \in {[m EXCEPT !.suite = s] : s \in Suites}
         \cup {[m EXCEPT !.initiator = n] : n \in Names}
         \cup {[m EXCEPT !.responder = n] : n \in Names} : ValidParticipants(d)}

DamagedOffer(o) ==
  DamagedParticipants(o)
  \cup {[o EXCEPT !.initiator_ephemeral = k] : k \in 1 .. keys}
  \cup {[o EXCEPT !.initiator_signing = s] : s \in SigningKeys}
  \cup {[o EXCEPT !.signature = x.signature] : x \in Offers}

DamagedResponse(r) ==
  DamagedParticipants(r)
  \cup {[r EXCEPT !.initiator_ephemeral = k] : k \in (1 .. keys) \ {r.responder_ephemeral}}
  \cup {[r EXCEPT !.responder_ephemeral = k] : k \in (1 .. keys) \ {r.initiator_ephemeral}}
  \cup {[r EXCEPT !.initiator_signing = s] : s \in SigningKeys}
  \cup {[r EXCEPT !.responder_signing = s] : s \in SigningKeys}
  \cup {[r EXCEPT !.responder_confirmation = x.responder_confirmation] : x \in Responses}
  \cup {[r EXCEPT !.signature = x.signature] : x \in Responses}

DamagedConfirmation(c) ==
  DamagedParticipants(c)
  \cup {[c EXCEPT !.initiator_ephemeral = k] : k \in (1 .. keys) \ {c.responder_ephemeral}}
  \cup {[c EXCEPT !.responder_ephemeral = k] : k \in (1 .. keys) \ {c.initiator_ephemeral}}
  \cup {[c EXCEPT !.initiator_confirmation = x.initiator_confirmation] : x \in confirmations}
  \cup {[c EXCEPT !.signature = x.signature] : x \in confirmations}

OffersInTransit == Offers \cup UNION {DamagedOffer(o) : o \in Offers}
ResponsesInTransit == Responses \cup UNION {DamagedResponse(r) : r \in Responses}
ConfirmationsInTransit ==
  confirmations \cup UNION {DamagedConfirmation(c) : c \in confirmations}

-----------------------------------------------------------------------------
(* SessionFactory *)

\* X25519PrivateKey.generate: a key nobody has.
FreshKey == keys + 1

\* Faulty: an identity may invite itself.
InitiateOneself(v) ==
  /\ keys < MaxKeys
  /\ keys' = FreshKey
  /\ initiators' = initiators \cup
       {[identity |-> v.identity, anchor |-> v.anchor,
         offer |-> MakeOffer(v.identity, v.remote_name, v.suite, FreshKey),
         supplemental |-> v.supplemental]}
  /\ pending' = pending \cup {FreshKey}
  /\ UNCHANGED <<responders, call, confirmations, sessions>>

\* SessionFactory.initiator; the offer's constructor refuses equal names.
Initiate(v) == v.identity.name # v.remote_name /\ InitiateOneself(v)

\* Faulty: the offer's signature is not verified.
OfferAcceptedUnsigned(a, o) ==
  /\ a.identity.name = o.responder
  /\ o.initiator_signing = a.anchor

\* The tests of SessionFactory.responder.
OfferAccepted(a, o) ==
  /\ OfferAcceptedUnsigned(a, o)
  /\ Verifies(OfferPayload(o), o.signature, a.anchor)

\* SessionFactory.responder; an offer it refuses changes nothing.
Respond(a, o) ==
  LET transcript == Transcript(o, FreshKey, a.identity.key)
      root == SessionRoot(Exchange(FreshKey, o.initiator_ephemeral), transcript,
                          a.supplemental)
      p == [anchor |-> a.anchor, offer |-> o, suite |-> o.suite, root |-> root,
            response |-> MakeResponse(a.identity, o, FreshKey, root)]
  IN  /\ keys < MaxKeys
      /\ OfferAccepted(a, o)
      /\ keys' = FreshKey
      /\ responders' = responders \cup {p}
      /\ pending' = pending \cup {FreshKey}
      /\ UNCHANGED <<initiators, call, confirmations, sessions>>

-----------------------------------------------------------------------------
(* complete() *)

InitiatorKey(h) == h.offer.initiator_ephemeral
ResponderKey(p) == p.response.responder_ephemeral

InitiatorSession(h, r) ==
  [local_name |-> h.offer.initiator, remote_name |-> h.offer.responder,
   suite |-> r.suite, root_key |-> InitiatorRoot(h, r),
   local_ephemeral |-> h.offer.initiator_ephemeral,
   remote_ephemeral |-> r.responder_ephemeral]

ResponderSession(p) ==
  [local_name |-> p.offer.responder, remote_name |-> p.offer.initiator,
   suite |-> p.suite, root_key |-> p.root,
   local_ephemeral |-> p.response.responder_ephemeral,
   remote_ephemeral |-> p.offer.initiator_ephemeral]

\* Each SessionState is an object of its own: number is how many the same
\* handshake object has returned before.
Return(owner, session) ==
  sessions' = sessions \cup
    {[owner |-> owner, state |-> session,
      number |-> Cardinality({s \in sessions : s.owner = owner})]}

\* The secret is read and every test passes.
BeginInitiator(c, h, r) ==
  /\ call[c] = <<"idle">>
  /\ InitiatorKey(h) \in pending
  /\ ResponseAccepted(h, r)
  /\ call' = [call EXCEPT ![c] = <<"initiator", h, r>>]
  /\ UNCHANGED <<keys, initiators, responders, pending, confirmations, sessions>>

BeginResponder(c, p, m) ==
  /\ call[c] = <<"idle">>
  /\ ResponderKey(p) \in pending
  /\ ConfirmationAccepted(p, m)
  /\ call' = [call EXCEPT ![c] = <<"responder", p, m>>]
  /\ UNCHANGED <<keys, initiators, responders, pending, confirmations, sessions>>

\* Faulty: a failed complete() clears the secret too.
InitiatorRaisesCleared(h, r) ==
  /\ ~ResponseAccepted(h, r)
  /\ pending' = pending \ {InitiatorKey(h)}
  /\ UNCHANGED <<keys, initiators, responders, call, confirmations, sessions>>

\* complete() raises: a message that fails a test, or a completed object.
InitiatorRaises(h, r) ==
  /\ InitiatorKey(h) \notin pending \/ ~ResponseAccepted(h, r)
  /\ UNCHANGED vars

ResponderRaises(p, m) ==
  /\ ResponderKey(p) \notin pending \/ ~ConfirmationAccepted(p, m)
  /\ UNCHANGED vars

\* The session is built and the results are about to be returned.
BuildInitiator(c) ==
  LET h == call[c][2]
      r == call[c][3]
  IN  /\ call[c][1] = "initiator"
      /\ confirmations' = confirmations \cup {MakeConfirmation(h, r)}
      /\ Return(InitiatorKey(h), InitiatorSession(h, r))
      /\ call' = [call EXCEPT ![c] = <<"idle">>]
      /\ UNCHANGED <<keys, initiators, responders>>

BuildResponder(c) ==
  /\ call[c][1] = "responder"
  /\ Return(ResponderKey(call[c][2]), ResponderSession(call[c][2]))
  /\ call' = [call EXCEPT ![c] = <<"idle">>]
  /\ UNCHANGED <<keys, initiators, responders, confirmations>>

\* Faulty: the secret is not cleared.
EndResponderKeepingRoot(c) == BuildResponder(c) /\ UNCHANGED pending

\* The secret is cleared, the results returned.
EndInitiator(c) == BuildInitiator(c) /\ pending' = pending \ {InitiatorKey(call[c][2])}
EndResponder(c) == BuildResponder(c) /\ pending' = pending \ {ResponderKey(call[c][2])}

\* The object a call works on.
InProgress(k) ==
  \E c \in Callers :
    \/ call[c][1] = "initiator" /\ InitiatorKey(call[c][2]) = k
    \/ call[c][1] = "responder" /\ ResponderKey(call[c][2]) = k

MayCall(k) == Confined => ~InProgress(k)

Next ==
  \/ \E v \in Invitations : Initiate(v)
  \/ \E a \in Acceptances, o \in OffersInTransit : Respond(a, o)
  \/ \E h \in initiators, r \in ResponsesInTransit :
       \/ \E c \in Callers : MayCall(InitiatorKey(h)) /\ BeginInitiator(c, h, r)
       \/ InitiatorRaises(h, r)
  \/ \E p \in responders, m \in ConfirmationsInTransit :
       \/ \E c \in Callers : MayCall(ResponderKey(p)) /\ BeginResponder(c, p, m)
       \/ ResponderRaises(p, m)
  \/ \E c \in Callers : EndInitiator(c) \/ EndResponder(c)

Spec == Init /\ [][Next]_vars

-----------------------------------------------------------------------------
(* Fairness: the application hands every response it has to the initiator  *)
(* that made the offer, and every confirmation to the responder it         *)
(* answers, sooner or later; a thread inside complete() finishes it.       *)

DeliverResponse(k) ==
  \E c \in Callers, h \in initiators, r \in Responses :
    InitiatorKey(h) = k /\ MayCall(k) /\ BeginInitiator(c, h, r)

DeliverConfirmation(k) ==
  \E c \in Callers, p \in responders, m \in confirmations :
    ResponderKey(p) = k /\ MayCall(k) /\ BeginResponder(c, p, m)

FairSpec ==
  /\ Spec
  /\ \A k \in Keys : WF_vars(DeliverResponse(k)) /\ WF_vars(DeliverConfirmation(k))
  /\ \A c \in Callers : WF_vars(EndInitiator(c)) /\ WF_vars(EndResponder(c))

-----------------------------------------------------------------------------
TypeOK ==
  /\ keys \in 0 .. MaxKeys
  /\ pending \subseteq 1 .. keys
  /\ \A h \in initiators :
       h.identity \in Identities /\ InitiatorKey(h) \in 1 .. keys /\ ValidParticipants(h.offer)
  /\ \A p \in responders :
       ResponderKey(p) \in 1 .. keys /\ ValidParticipants(p.response)
  /\ \A c \in Callers : call[c][1] \in {"idle", "initiator", "responder"}
  /\ \A s \in sessions : s.owner \in (1 .. keys) /\ s.number \in Nat

Mirrors(s, t) ==
  /\ s.local_name = t.remote_name /\ s.remote_name = t.local_name
  /\ s.local_ephemeral = t.remote_ephemeral /\ s.remote_ephemeral = t.local_ephemeral
  /\ s.suite = t.suite
  /\ s.root_key = t.root_key

(* When an initiator's complete() returns a session, a responder object    *)
(* exists that answered this very offer with this very root, on behalf of  *)
(* the identity that holds the initiator's trust anchor and bears the name *)
(* the initiator asked for.                                                *)
InitiatorAgreement ==
  \A h \in initiators, s \in sessions :
    s.owner = InitiatorKey(h) =>
      \E p \in responders, i \in Identities :
        /\ p.offer = h.offer
        /\ Mirrors(s.state, ResponderSession(p))
        /\ i.key = h.anchor /\ i.key = p.response.responder_signing
        /\ i.name = s.state.remote_name

(* When a responder's complete() returns a session, exactly one initiator  *)
(* object has returned the mirrored session, and it belongs to the         *)
(* identity that holds the responder's trust anchor and bears the name the *)
(* session gives the peer.                                                 *)
ResponderAgreement ==
  \A p \in responders, s \in sessions :
    s.owner = ResponderKey(p) =>
      \E h \in initiators, t \in sessions :
        /\ t.owner = InitiatorKey(h)
        /\ Mirrors(s.state, t.state)
        /\ h.identity.key = p.anchor
        /\ h.identity.name = s.state.remote_name
        /\ \A u \in sessions : Mirrors(s.state, u.state) => u = t

(* Two SessionStates with one root key come from one handshake object or   *)
(* are the two ends of one handshake, also where threads race inside       *)
(* complete(): a race can repeat a session, never mix two handshakes.      *)
SharedRoots ==
  \A s, t \in sessions :
    s.state.root_key = t.state.root_key => s.owner = t.owner \/ Mirrors(s.state, t.state)

(* A handshake object returns at most one session: complete() refuses a    *)
(* handshake that "has already been completed".                            *)
CompletedOnce ==
  \A s, t \in sessions : s.owner = t.owner => s = t

\* A responder's session that its initiator already talks to: complete() has
\* yet to return it.
Awaited ==
  {[owner |-> ResponderKey(p), state |-> ResponderSession(p), number |-> 0] :
     p \in {q \in responders :
             /\ \A s \in sessions : s.owner # ResponderKey(q)
             /\ \E s \in sessions : Mirrors(s.state, ResponderSession(q))}}

Ends == sessions \cup Awaited
PeerOf(e) == CHOOSE f \in Ends : Mirrors(e.state, f.state)

(* The sessions that complete() has returned, and the peers they will      *)
(* have, are what SessionState takes for granted: they pair off, each pair *)
(* with one suite and one root of its own, so that no two senders start    *)
(* from sequence number 0 under the same message keys, and the two agree   *)
(* on who and with which key is at the other end.                          *)
SessionsFit ==
  /\ \A e \in Ends : \E f \in Ends : Mirrors(e.state, f.state)
  /\ EndsFit(Ends, [e \in Ends |-> PeerOf(e)],
             [e \in Ends |-> e.state.local_name], [e \in Ends |-> e.state.suite],
             [e \in Ends |-> e.state.root_key], [e \in Ends |-> e.state.local_ephemeral])
  /\ \A e \in Ends :
       /\ e.state.remote_name = PeerOf(e).state.local_name
       /\ e.state.remote_ephemeral = PeerOf(e).state.local_ephemeral

(* No responder object is ever made from an offer that was damaged on the  *)
(* way: the offer of every one of them is field for field one that an      *)
(* initiator made.                                                         *)
OffersAreGenuine == \A p \in responders : p.offer \in Offers

(* A response the initiator can use is used and its handshake completed on *)
(* both sides, however many damaged, foreign or repeated messages either   *)
(* complete() was given and refused before.                                *)
HandshakeCompletes ==
  \A k \in Keys :
    (\E h \in initiators, r \in Responses : InitiatorKey(h) = k /\ ResponseAccepted(h, r))
      ~> \E s, t \in sessions : s.owner = k /\ t.owner # k /\ Mirrors(s.state, t.state)
=============================================================================

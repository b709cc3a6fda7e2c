---------------------------- MODULE SessionProofs ----------------------------
(***************************************************************************)
(* The properties of Session for any number of sessions and threads, every *)
(* window size, sequence range and number of calls.                        *)
(*                                                                         *)
(* The inductive invariant says of a call in the middle of encrypt that it *)
(* holds the send lock and that the sequence number it read still is       *)
(* send_sequence; of a call in the middle of authenticate_and_record that  *)
(* it holds the window's lock and that the check it passed still holds; of *)
(* a packet given to decrypt that its ciphertext, unless broken, is one    *)
(* that some encrypt call made; and that each window is the recent part of *)
(* what its endpoint received.                                             *)
(***************************************************************************)
EXTENDS Session, ReplayProofs, SequenceTheorems, TLAPS

(* Types of packets and calls *)

Names == {local_name[e] : e \in Endpoints}
Suites == {suite[e] : e \in Endpoints}
Roots == {root_key[e] : e \in Endpoints}
Ephemerals == {ephemeral[e] : e \in Endpoints}

Keys == [root : Roots, sequence : Sequence, suite : Suites,
         sender : Ephemerals, recipient : Ephemerals]

Headers == [version : {PROTOCOL_VERSION}, suite : Suites, sender : Names,
            recipient : Names, sequence : Sequence]

Ciphertexts == [key : Keys, ad : Headers, body : Plaintexts \ Oversized, intact : BOOLEAN]

Packets == [version : Int, suite : Suites, sender : Names, recipient : Names,
            sequence : Int, ciphertext : Ciphertexts]

Messages == [sequence : Sequence, body : Plaintexts]

Encrypting == [at : {"encrypting"}, endpoint : Endpoints, body : Plaintexts \ Oversized]
Sealing == [at : {"sealing"}, endpoint : Endpoints, body : Plaintexts \ Oversized,
            sequence : Sequence]
Decrypting == [at : {"decrypting", "authenticating"}, endpoint : Endpoints, packet : Packets]

Calls == {Idle} \cup Encrypting \cup Sealing \cup Decrypting

Types ==
  /\ send_sequence \in [Endpoints -> 0 .. (MAX_MESSAGE_SEQUENCE + 1)]
  /\ send_lock \in [Endpoints -> Threads \cup {NoThread}]
  /\ window \in [Endpoints -> Window]
  /\ replay_lock \in [Endpoints -> Threads \cup {NoThread}]
  /\ call \in [Threads -> Calls]
  /\ calls \in 0 .. MaxCalls
  /\ sent \in [Endpoints -> Seq(Packets)]
  /\ received \in [Endpoints -> Seq(Messages)]

-----------------------------------------------------------------------------
(* The inductive invariant *)

SealingHoldsLock ==
  \A t \in Threads : call[t].at = "sealing" =>
    /\ send_lock[call[t].endpoint] = t
    /\ call[t].sequence = send_sequence[call[t].endpoint]

AuthenticatingHoldsLock ==
  \A t \in Threads : call[t].at = "authenticating" =>
    /\ replay_lock[call[t].endpoint] = t
    /\ CheckUnlocked(window[call[t].endpoint], call[t].packet.sequence)

SentInOrder ==
  \A e \in Endpoints :
    /\ send_sequence[e] = Len(sent[e])
    /\ \A i \in 1 .. Len(sent[e]) : \E b \in Plaintexts \ Oversized : sent[e][i] = Packet(e, i - 1, b)

\* Some encrypt call made the ciphertext c, unless it is broken.
Made(c) ==
  c.intact => \E e \in Endpoints : \E i \in 1 .. Len(sent[e]) : c = sent[e][i].ciphertext

PresentedWasMade ==
  \A t \in Threads : call[t].at \in {"decrypting", "authenticating"} =>
    /\ call[t].packet.sequence \in Sequence
    /\ Made(call[t].packet.ciphertext)

\* The sequence numbers endpoint e accepted so far.
AcceptedBy(e) == {received[e][k].sequence : k \in 1 .. Len(received[e])}

WindowsMatch == \A e \in Endpoints : Matches(window[e], AcceptedBy(e))

Inv ==
  /\ Types
  /\ SealingHoldsLock
  /\ AuthenticatingHoldsLock
  /\ SentInOrder
  /\ PresentedWasMade
  /\ WindowsMatch
  /\ ReceivedWasSent
  /\ ReceivedOnce

-----------------------------------------------------------------------------
(* Packets and keys *)

(* The other end of an endpoint is one of the model's endpoints and not    *)
(* the endpoint itself.                                                    *)
LEMMA PeerFacts ==
  ASSUME NEW e \in Endpoints
  PROVE  Peer[e] \in Endpoints /\ Peer[Peer[e]] = e /\ Peer[e] # e
BY EndpointAssumption DEF EndsFit

(* What encrypt builds is a packet. *)
LEMMA PacketType ==
  ASSUME NEW e \in Endpoints, NEW s \in Sequence, NEW b \in Plaintexts \ Oversized
  PROVE  Packet(e, s, b) \in Packets
<1>1. s \in Int /\ PROTOCOL_VERSION \in Int
  BY MaxSequenceAssumption DEF Sequence, PROTOCOL_VERSION
<1>2. /\ suite[e] \in Suites /\ root_key[e] \in Roots
      /\ local_name[e] \in Names /\ remote_name(e) \in Names
      /\ ephemeral[e] \in Ephemerals /\ ephemeral[Peer[e]] \in Ephemerals
  BY PeerFacts DEF Suites, Roots, Names, Ephemerals, remote_name
<1>3. SendKey(e, s) \in Keys
  BY <1>2 DEF SendKey, MessageKey, Keys
<1>4. Header(e, s) \in Headers
  BY <1>2 DEF Header, Headers
<1>5. Ciphertext(SendKey(e, s), Header(e, s), b) \in Ciphertexts
  BY <1>3, <1>4 DEF Ciphertext, Ciphertexts
<1> QED BY <1>1, <1>2, <1>5 DEF Packet, Packets

(* Whatever the transport hands to decrypt, damaged or not, is a packet    *)
(* whose ciphertext was made by encrypt or is broken.                      *)
LEMMA TransitFacts ==
  ASSUME Types, NEW p \in InTransit
  PROVE  p \in Packets /\ Made(p.ciphertext)
<1>1. ASSUME NEW q \in Network PROVE q \in Packets /\ Made(q.ciphertext)
  <2>1. PICK e \in Endpoints : \E i \in DOMAIN sent[e] : q = sent[e][i]
    BY <1>1 DEF Network
  <2>2. PICK i \in DOMAIN sent[e] : q = sent[e][i]
    BY <2>1
  <2>3. i \in 1 .. Len(sent[e]) /\ sent[e][i] \in Packets
    BY <2>2, LenProperties, ElementOfSeq DEF Types
  <2> QED BY <2>2, <2>3 DEF Made
<1>2. ASSUME NEW q \in Network, p \in Damaged(q) PROVE p \in Packets /\ Made(p.ciphertext)
  <2>1. q \in Packets /\ Made(q.ciphertext)
    BY <1>1
  <2>2. CASE \E v \in 0 .. 2 : p = [q EXCEPT !.version = v]
    BY <2>1, <2>2 DEF Packets
  <2>3. CASE \E s \in Suites : p = [q EXCEPT !.suite = s]
    BY <2>1, <2>3 DEF Packets
  <2>4. CASE \E n \in Names : p = [q EXCEPT !.sender = n]
    BY <2>1, <2>4 DEF Packets
  <2>5. CASE \E n \in Names : p = [q EXCEPT !.recipient = n]
    BY <2>1, <2>5 DEF Packets
  <2>6. CASE \E s \in 0 .. (MAX_MESSAGE_SEQUENCE + 1) : p = [q EXCEPT !.sequence = s]
    BY <2>1, <2>6, MaxSequenceAssumption DEF Packets
  <2>7. CASE \E r \in Network : p = [q EXCEPT !.ciphertext = r.ciphertext]
    <3>1. PICK r \in Network : p = [q EXCEPT !.ciphertext = r.ciphertext]
      BY <2>7
    <3>2. r \in Packets /\ Made(r.ciphertext)
      BY <1>1
    <3>3. p \in Packets /\ p.ciphertext = r.ciphertext
      BY <2>1, <3>1, <3>2 DEF Packets
    <3> QED BY <3>2, <3>3
  <2>8. CASE p = [q EXCEPT !.ciphertext.intact = FALSE]
    <3>1. p \in Packets /\ p.ciphertext = [q.ciphertext EXCEPT !.intact = FALSE]
      BY <2>1, <2>8 DEF Packets, Ciphertexts
    <3>2. p.ciphertext.intact = FALSE
      BY <2>1, <3>1 DEF Packets, Ciphertexts
    <3> QED BY <3>1, <3>2 DEF Made
  <2> QED
    BY <1>2, <2>2, <2>3, <2>4, <2>5, <2>6, <2>7, <2>8 DEF Damaged, Names, Suites
<1> QED BY <1>1, <1>2 DEF InTransit

(* A key determines the endpoint that seals under it and the sequence      *)
(* number: the root tells sessions apart, the order of the ephemeral keys  *)
(* tells directions apart.                                                 *)
LEMMA SendKeyInjective ==
  ASSUME NEW e \in Endpoints, NEW f \in Endpoints, NEW m, NEW n,
         SendKey(e, m) = SendKey(f, n)
  PROVE  e = f /\ m = n
<1>1. /\ root_key[e] = root_key[f] /\ ephemeral[e] = ephemeral[f]
      /\ m = n
  BY DEF SendKey, MessageKey
<1>2. f \in {e, Peer[e]}
  BY <1>1, EndpointAssumption DEF EndsFit
<1> QED BY <1>1, <1>2, EndpointAssumption DEF EndsFit

(* The key an endpoint opens with is the one its peer seals with. *)
LEMMA KeysMirror ==
  ASSUME NEW e \in Endpoints, NEW s
  PROVE  ReceiveKey(e, s) = SendKey(Peer[e], s)
<1>1. root_key[Peer[e]] = root_key[e] /\ suite[Peer[e]] = suite[e]
  BY PeerFacts, EndpointAssumption DEF EndsFit
<1> QED BY <1>1, PeerFacts DEF ReceiveKey, SendKey

(* A ciphertext that opens at an endpoint is the one its own peer's        *)
(* encrypt made under that sequence number.                                *)
LEMMA OpensOnlyPeers ==
  ASSUME Types, SentInOrder, NEW e \in Endpoints, NEW p,
         Made(p.ciphertext), Opens(e, p)
  PROVE  \E i \in 1 .. Len(sent[Peer[e]]) :
           /\ p.sequence = i - 1
           /\ p.ciphertext = sent[Peer[e]][i].ciphertext
<1>1. PICK f \in Endpoints : \E i \in 1 .. Len(sent[f]) : p.ciphertext = sent[f][i].ciphertext
  BY DEF Made, Opens
<1>2. PICK i \in 1 .. Len(sent[f]) : p.ciphertext = sent[f][i].ciphertext
  BY <1>1
<1>3. PICK b \in Plaintexts \ Oversized : sent[f][i] = Packet(f, i - 1, b)
  BY <1>2 DEF SentInOrder
<1>4. p.ciphertext.key = SendKey(f, i - 1)
  BY <1>2, <1>3 DEF Packet, Ciphertext
<1>5. SendKey(f, i - 1) = SendKey(Peer[e], p.sequence)
  BY <1>4, KeysMirror DEF Opens
<1>6. f = Peer[e] /\ p.sequence = i - 1
  BY <1>5, PeerFacts, SendKeyInjective
<1> QED BY <1>2, <1>6

-----------------------------------------------------------------------------
(* Init and steps *)

(* A call in progress has the fields of its place. *)
LEMMA CallFacts ==
  ASSUME Types, NEW t \in Threads
  PROVE  /\ call[t].at \in {"idle", "encrypting", "sealing", "decrypting", "authenticating"}
         /\ call[t].at = "idle" => call[t] = Idle
         /\ call[t].at = "encrypting" => call[t] \in Encrypting
         /\ call[t].at = "sealing" => call[t] \in Sealing
         /\ call[t].at \in {"decrypting", "authenticating"} => call[t] \in Decrypting
<1>1. call[t] \in Calls
  BY DEF Types
<1>2. CASE call[t] = Idle
  BY <1>2 DEF Idle
<1>3. CASE call[t] \in Encrypting
  BY <1>3 DEF Encrypting
<1>4. CASE call[t] \in Sealing
  BY <1>4 DEF Sealing
<1>5. CASE call[t] \in Decrypting
  BY <1>5 DEF Decrypting
<1> QED BY <1>1, <1>2, <1>3, <1>4, <1>5 DEF Calls

(* A step that sends nothing keeps the order of what was sent, and what    *)
(* was made stays made.                                                    *)
LEMMA NothingSent ==
  ASSUME SentInOrder, UNCHANGED <<send_sequence, sent>>
  PROVE  SentInOrder' /\ \A c : Made(c) => Made(c)'
BY DEF SentInOrder, Made

(* A step that delivers nothing keeps windows and history in step. *)
LEMMA NothingReceived ==
  ASSUME WindowsMatch, ReceivedWasSent, ReceivedOnce, UNCHANGED <<window, sent, received>>
  PROVE  WindowsMatch' /\ ReceivedWasSent' /\ ReceivedOnce'
BY DEF WindowsMatch, AcceptedBy, Matches, ReceivedWasSent, ReceivedOnce

(* New sessions have sent and received nothing. *)
LEMMA InitInv == Init => Inv
<1> SUFFICES ASSUME Init PROVE Inv
  OBVIOUS
<1> USE MaxSequenceAssumption, MaxCallsAssumption, NoThreadAssumption, WindowSizeAssumption
<1> USE DEF Init
<1>1. Types
  <2>1. NewWindow \in Window
    BY DEF NewWindow, Window
  <2>2. Idle \in Calls
    BY DEF Calls
  <2> QED BY <2>1, <2>2, EmptySeq DEF Types
<1>2. \A e \in Endpoints : Len(sent[e]) = 0 /\ Len(received[e]) = 0
  BY EmptySeq
<1>3. \A t \in Threads : call[t].at = "idle"
  BY DEF Idle
<1>4. SealingHoldsLock /\ AuthenticatingHoldsLock /\ PresentedWasMade
  BY <1>3 DEF SealingHoldsLock, AuthenticatingHoldsLock, PresentedWasMade
<1>5. SentInOrder
  BY <1>2 DEF SentInOrder
<1>6. \A e \in Endpoints : AcceptedBy(e) = {}
  BY <1>2 DEF AcceptedBy
<1>7. WindowsMatch
  BY <1>6 DEF WindowsMatch, Matches, NewWindow
<1>8. ReceivedWasSent /\ ReceivedOnce
  BY DEF ReceivedWasSent, ReceivedOnce
<1> QED BY <1>1, <1>4, <1>5, <1>7, <1>8 DEF Inv

(* A call that begins with valid arguments. *)
LEMMA StartInv ==
  ASSUME Inv, NEW t \in Threads, NEW c \in Calls, Start(t, c),
         c.at \in {"encrypting", "decrypting"},
         c.at = "decrypting" => c.packet.sequence \in Sequence /\ Made(c.packet.ciphertext)
  PROVE  Inv'
<1> USE DEF Inv
<1>1. Types'
  BY MaxCallsAssumption DEF Start, Types
<1>2. call'[t] = c /\ \A u \in Threads \ {t} : call'[u] = call[u]
  BY DEF Start, Types
<1>3. SentInOrder' /\ \A d : Made(d) => Made(d)'
  BY NothingSent DEF Start
<1>4. SealingHoldsLock' /\ AuthenticatingHoldsLock'
  BY <1>2 DEF Start, SealingHoldsLock, AuthenticatingHoldsLock
<1>5. PresentedWasMade'
  BY <1>2, <1>3 DEF PresentedWasMade
<1> QED BY <1>1, <1>3, <1>4, <1>5, NothingReceived DEF Start

(* A call that ends without having sent or received anything, and lets go  *)
(* of the lock it holds.                                                   *)
LEMMA GiveUpInv ==
  ASSUME Inv, NEW t \in Threads, Finish(t),
         UNCHANGED <<send_sequence, window, sent, received>>,
         \/ UNCHANGED <<send_lock, replay_lock>>
         \/ call[t].at = "sealing" /\ Release(t) /\ UNCHANGED replay_lock
         \/ /\ call[t].at = "authenticating" /\ UNCHANGED send_lock
            /\ replay_lock' = [replay_lock EXCEPT ![call[t].endpoint] = NoThread]
  PROVE  Inv'
<1> USE DEF Inv
<1>1. Idle \in Calls /\ Idle.at = "idle"
  BY DEF Calls, Idle
<1>2. Types'
  BY <1>1 DEF Finish, Release, Types
<1>3. call'[t] = Idle /\ \A u \in Threads \ {t} : call'[u] = call[u]
  BY DEF Finish, Types
<1>4. SentInOrder' /\ \A d : Made(d) => Made(d)'
  BY NothingSent
<1>5. SealingHoldsLock'
  <2> SUFFICES ASSUME NEW u \in Threads, call'[u].at = "sealing"
               PROVE  /\ send_lock'[call'[u].endpoint] = u
                      /\ call'[u].sequence = send_sequence'[call'[u].endpoint]
    BY DEF SealingHoldsLock
  <2>1. u # t /\ call'[u] = call[u]
    BY <1>1, <1>3
  <2>2. send_lock[call[u].endpoint] = u
    BY <2>1 DEF SealingHoldsLock
  <2>3. call[u].endpoint \in Endpoints
    BY <2>1, CallFacts DEF Sealing
  <2>4. call[t].at = "sealing" => send_lock[call[t].endpoint] = t
    BY DEF SealingHoldsLock
  <2> QED BY <2>1, <2>2, <2>3, <2>4 DEF SealingHoldsLock, Release, Types
<1>6. AuthenticatingHoldsLock'
  <2> SUFFICES ASSUME NEW u \in Threads, call'[u].at = "authenticating"
               PROVE  /\ replay_lock'[call'[u].endpoint] = u
                      /\ CheckUnlocked(window[call'[u].endpoint], call'[u].packet.sequence)
    BY DEF AuthenticatingHoldsLock
  <2>1. u # t /\ call'[u] = call[u]
    BY <1>1, <1>3
  <2>2. replay_lock[call[u].endpoint] = u
    BY <2>1 DEF AuthenticatingHoldsLock
  <2>3. call[u].endpoint \in Endpoints
    BY <2>1, CallFacts DEF Decrypting
  <2>4. call[t].at = "authenticating" => replay_lock[call[t].endpoint] = t
    BY DEF AuthenticatingHoldsLock
  <2> QED BY <2>1, <2>2, <2>3, <2>4 DEF AuthenticatingHoldsLock, Types
<1>7. PresentedWasMade'
  BY <1>1, <1>3, <1>4 DEF PresentedWasMade
<1> QED BY <1>2, <1>4, <1>5, <1>6, <1>7, NothingReceived

(* Reading send_sequence under the send lock. *)
LEMMA ClaimInv ==
  ASSUME Inv, NEW t \in Threads, ClaimSequence(t)
  PROVE  Inv'
<1> USE DEF Inv
<1> DEFINE e == call[t].endpoint
           c == [at |-> "sealing", endpoint |-> e, body |-> call[t].body,
                 sequence |-> send_sequence[e]]
<1>1. call[t] \in Encrypting /\ e \in Endpoints /\ send_lock[e] = NoThread
  BY CallFacts DEF ClaimSequence, Claim, Encrypting, Unlocked
<1>2. send_sequence[e] \in Sequence
  BY <1>1, MaxSequenceAssumption DEF ClaimSequence, InRange, Types, Sequence
<1>3. c \in Sealing /\ c \in Calls /\ c.at = "sealing"
  BY <1>1, <1>2 DEF Sealing, Encrypting, Calls
<1>4. /\ call' = [call EXCEPT ![t] = c] /\ send_lock' = [send_lock EXCEPT ![e] = t]
      /\ UNCHANGED <<send_sequence, window, replay_lock, calls, sent, received>>
  BY DEF ClaimSequence, Claim
<1>5. Types'
  BY <1>1, <1>3, <1>4 DEF Types
<1>6. call'[t] = c /\ \A u \in Threads \ {t} : call'[u] = call[u]
  BY <1>4 DEF Types
<1>7. SealingHoldsLock'
  <2> SUFFICES ASSUME NEW u \in Threads, call'[u].at = "sealing"
               PROVE  /\ send_lock'[call'[u].endpoint] = u
                      /\ call'[u].sequence = send_sequence'[call'[u].endpoint]
    BY DEF SealingHoldsLock
  <2>1. CASE u = t
    BY <1>1, <1>4, <1>6, <2>1 DEF Types
  <2>2. CASE u # t
    <3>1. /\ send_lock[call[u].endpoint] = u
          /\ call[u].sequence = send_sequence[call[u].endpoint]
          /\ call'[u] = call[u]
      BY <1>6, <2>2 DEF SealingHoldsLock
    <3>2. call[u].endpoint # e /\ call[u].endpoint \in Endpoints
      BY <1>1, <1>6, <2>2, <3>1, NoThreadAssumption, CallFacts DEF Sealing
    <3> QED BY <1>4, <3>1, <3>2 DEF Types
  <2> QED BY <2>1, <2>2
<1>8. AuthenticatingHoldsLock'
  BY <1>3, <1>4, <1>6 DEF AuthenticatingHoldsLock
<1>9. SentInOrder' /\ \A d : Made(d) => Made(d)'
  BY <1>4, NothingSent
<1>10. PresentedWasMade'
  BY <1>3, <1>6, <1>9 DEF PresentedWasMade
<1> QED BY <1>4, <1>5, <1>7, <1>8, <1>9, <1>10, NothingReceived

(* What Append does to a sequence. *)
LEMMA AppendFacts ==
  ASSUME NEW S, NEW seq \in Seq(S), NEW x \in S
  PROVE  /\ Append(seq, x) \in Seq(S)
         /\ Len(Append(seq, x)) = Len(seq) + 1
         /\ Append(seq, x)[Len(seq) + 1] = x
         /\ \A i \in 1 .. Len(seq) : Append(seq, x)[i] = seq[i]
OBVIOUS

(* Sealing, advancing send_sequence and returning the packet. *)
LEMMA SendInv ==
  ASSUME Inv, NEW t \in Threads, EncryptReturns(t)
  PROVE  Inv'
<1> USE DEF Inv
<1> DEFINE e == call[t].endpoint
           n == Len(sent[e])
           p == Packet(e, call[t].sequence, call[t].body)
<1>1. call[t] \in Sealing /\ e \in Endpoints /\ sent[e] \in Seq(Packets) /\ n \in Nat
  BY CallFacts, LenProperties DEF EncryptReturns, Sealing, Types
<1>2. call[t].sequence = n /\ send_sequence[e] = n /\ call[t].sequence \in Sequence
  BY <1>1 DEF EncryptReturns, SealingHoldsLock, SentInOrder, Sealing
<1>3. p \in Packets
  BY <1>1, <1>2, PacketType DEF Sealing
<1>4. /\ sent' = [sent EXCEPT ![e] = Append(@, p)]
      /\ send_sequence' = [send_sequence EXCEPT ![e] = @ + 1]
      /\ send_lock' = [send_lock EXCEPT ![e] = NoThread]
      /\ call' = [call EXCEPT ![t] = Idle]
      /\ UNCHANGED <<window, replay_lock, calls, received>>
  BY DEF EncryptReturns, Release, Finish
<1>5. /\ sent'[e] = Append(sent[e], p)
      /\ \A f \in Endpoints \ {e} : sent'[f] = sent[f]
  BY <1>1, <1>4 DEF Types
<1>6. /\ sent'[e] \in Seq(Packets) /\ Len(sent'[e]) = n + 1 /\ sent'[e][n + 1] = p
      /\ \A i \in 1 .. n : sent'[e][i] = sent[e][i]
  BY <1>1, <1>3, <1>5, AppendFacts
<1>7. Idle \in Calls /\ Idle.at = "idle"
  BY DEF Calls, Idle
<1>8. Types'
  <2>1. send_sequence' \in [Endpoints -> 0 .. (MAX_MESSAGE_SEQUENCE + 1)]
    BY <1>1, <1>2, <1>4, MaxSequenceAssumption DEF Types, Sequence
  <2>2. sent' \in [Endpoints -> Seq(Packets)]
    BY <1>1, <1>4, <1>5, <1>6 DEF Types
  <2> QED BY <1>1, <1>4, <1>7, <2>1, <2>2 DEF Types
<1>9. call'[t] = Idle /\ \A u \in Threads \ {t} : call'[u] = call[u]
  BY <1>4 DEF Types
<1>10. SealingHoldsLock'
  <2> SUFFICES ASSUME NEW u \in Threads, call'[u].at = "sealing"
               PROVE  /\ send_lock'[call'[u].endpoint] = u
                      /\ call'[u].sequence = send_sequence'[call'[u].endpoint]
    BY DEF SealingHoldsLock
  <2>1. u # t /\ call'[u] = call[u]
    BY <1>7, <1>9
  <2>2. /\ send_lock[call[u].endpoint] = u
        /\ call[u].sequence = send_sequence[call[u].endpoint]
        /\ call[u].endpoint \in Endpoints
    BY <2>1, CallFacts DEF SealingHoldsLock, Sealing
  <2>3. send_lock[e] = t
    BY DEF EncryptReturns, SealingHoldsLock
  <2> QED BY <1>4, <2>1, <2>2, <2>3 DEF Types
<1>11. AuthenticatingHoldsLock'
  BY <1>4, <1>7, <1>9 DEF AuthenticatingHoldsLock
<1>12. SentInOrder'
  <2> SUFFICES ASSUME NEW f \in Endpoints
               PROVE  /\ send_sequence'[f] = Len(sent'[f])
                      /\ \A i \in 1 .. Len(sent'[f]) : \E b \in Plaintexts \ Oversized :
                           sent'[f][i] = Packet(f, i - 1, b)
    BY DEF SentInOrder
  <2>1. CASE f # e
    BY <1>4, <1>5, <2>1 DEF SentInOrder, Types
  <2>2. CASE f = e
    <3>1. send_sequence'[e] = n + 1
      BY <1>1, <1>2, <1>4 DEF Types
    <3>2. ASSUME NEW i \in 1 .. (n + 1)
          PROVE  \E b \in Plaintexts \ Oversized : sent'[e][i] = Packet(e, i - 1, b)
      <4>1. CASE i = n + 1
        <5>1. call[t].body \in Plaintexts \ Oversized /\ i - 1 = call[t].sequence
          BY <1>1, <1>2, <4>1 DEF Sealing
        <5> QED BY <1>6, <4>1, <5>1
      <4>2. CASE i # n + 1
        <5>1. i \in 1 .. n
          BY <1>1, <4>2
        <5>2. sent'[e][i] = sent[e][i]
          BY <1>6, <5>1
        <5> QED BY <1>1, <5>1, <5>2 DEF SentInOrder
      <4> QED BY <4>1, <4>2
    <3> QED BY <1>6, <2>2, <3>1, <3>2
  <2> QED BY <2>1, <2>2
<1>13. ASSUME NEW f \in Endpoints, NEW i \in 1 .. Len(sent[f])
       PROVE  i \in 1 .. Len(sent'[f]) /\ sent'[f][i] = sent[f][i]
  BY <1>1, <1>5, <1>6
<1>14. \A c : Made(c) => Made(c)'
  BY <1>13 DEF Made
<1>15. PresentedWasMade'
  BY <1>7, <1>9, <1>14 DEF PresentedWasMade
<1>16. WindowsMatch' /\ ReceivedOnce'
  BY <1>4 DEF WindowsMatch, AcceptedBy, Matches, ReceivedOnce
<1>17. ReceivedWasSent'
  <2> SUFFICES ASSUME NEW f \in Endpoints, NEW k \in DOMAIN received'[f]
               PROVE  \E i \in DOMAIN sent'[Peer[f]] :
                        /\ sent'[Peer[f]][i].sequence = received'[f][k].sequence
                        /\ sent'[Peer[f]][i].ciphertext.body = received'[f][k].body
    BY DEF ReceivedWasSent
  <2>1. PICK i \in DOMAIN sent[Peer[f]] :
          /\ sent[Peer[f]][i].sequence = received[f][k].sequence
          /\ sent[Peer[f]][i].ciphertext.body = received[f][k].body
    BY <1>4 DEF ReceivedWasSent
  <2>2. Peer[f] \in Endpoints
    BY PeerFacts
  <2>3. /\ DOMAIN sent[Peer[f]] = 1 .. Len(sent[Peer[f]])
        /\ DOMAIN sent'[Peer[f]] = 1 .. Len(sent'[Peer[f]])
    BY <1>8, <2>2, LenProperties DEF Types
  <2> QED BY <1>4, <1>13, <2>1, <2>2, <2>3
<1> QED BY <1>8, <1>10, <1>11, <1>12, <1>15, <1>16, <1>17

(* Passing the window's check under its lock. *)
LEMMA EnterInv ==
  ASSUME Inv, NEW t \in Threads, EnterWindow(t)
  PROVE  Inv'
<1> USE DEF Inv
<1> DEFINE e == call[t].endpoint
           c == [call[t] EXCEPT !.at = "authenticating"]
<1>1. /\ call[t] \in Decrypting /\ e \in Endpoints /\ replay_lock[e] = NoThread
      /\ call[t].at = "decrypting"
      /\ CheckUnlocked(window[e], call[t].packet.sequence)
  BY CallFacts DEF EnterWindow, EnterWindowWithoutLock, Decrypting, Unlocked
<1>2. /\ c \in Decrypting /\ c \in Calls /\ c.at = "authenticating"
      /\ c.endpoint = e /\ c.packet = call[t].packet
  BY <1>1 DEF Decrypting, Calls
<1>3. /\ call' = [call EXCEPT ![t] = c] /\ replay_lock' = [replay_lock EXCEPT ![e] = t]
      /\ UNCHANGED <<send_sequence, send_lock, window, calls, sent, received>>
  BY DEF EnterWindow, EnterWindowWithoutLock
<1> HIDE DEF c
<1>4. Types'
  BY <1>1, <1>2, <1>3 DEF Types
<1>5. call'[t] = c /\ \A u \in Threads \ {t} : call'[u] = call[u]
  BY <1>3 DEF Types
<1>6. SealingHoldsLock'
  BY <1>2, <1>3, <1>5 DEF SealingHoldsLock
<1>7. AuthenticatingHoldsLock'
  <2> SUFFICES ASSUME NEW u \in Threads, call'[u].at = "authenticating"
               PROVE  /\ replay_lock'[call'[u].endpoint] = u
                      /\ CheckUnlocked(window[call'[u].endpoint], call'[u].packet.sequence)
    BY <1>3 DEF AuthenticatingHoldsLock
  <2>1. CASE u = t
    BY <1>1, <1>2, <1>3, <1>5, <2>1 DEF Types
  <2>2. CASE u # t
    <3>1. /\ replay_lock[call[u].endpoint] = u
          /\ CheckUnlocked(window[call[u].endpoint], call[u].packet.sequence)
          /\ call'[u] = call[u]
      BY <1>5, <2>2 DEF AuthenticatingHoldsLock
    <3>2. call[u].endpoint # e /\ call[u].endpoint \in Endpoints
      BY <1>1, <1>5, <2>2, <3>1, NoThreadAssumption, CallFacts DEF Decrypting
    <3> QED BY <1>3, <3>1, <3>2 DEF Types
  <2> QED BY <2>1, <2>2
<1>8. SentInOrder' /\ \A d : Made(d) => Made(d)'
  BY <1>3, NothingSent
<1>9. PresentedWasMade'
  BY <1>1, <1>2, <1>5, <1>8 DEF PresentedWasMade
<1> QED BY <1>3, <1>4, <1>6, <1>7, <1>8, <1>9, NothingReceived

(* Endpoints accept sequence numbers only. *)
LEMMA AcceptedType ==
  ASSUME Types, NEW e \in Endpoints
  PROVE  AcceptedBy(e) \in SUBSET Sequence
<1>1. received[e] \in Seq(Messages)
  BY DEF Types
<1>2. ASSUME NEW k \in 1 .. Len(received[e]) PROVE received[e][k].sequence \in Sequence
  <2>1. received[e][k] \in Messages
    BY <1>1, ElementOfSeq
  <2> QED BY <2>1 DEF Messages
<1> QED BY <1>2 DEF AcceptedBy

(* Returning one more message adds its number to what e accepted. *)
LEMMA AcceptOne ==
  ASSUME Types, NEW e \in Endpoints, NEW m \in Messages,
         received' = [received EXCEPT ![e] = Append(@, m)]
  PROVE  /\ AcceptedBy(e)' = AcceptedBy(e) \cup {m.sequence}
         /\ \A f \in Endpoints \ {e} : AcceptedBy(f)' = AcceptedBy(f)
<1> DEFINE n == Len(received[e])
<1>1. received[e] \in Seq(Messages) /\ n \in Nat
  BY LenProperties DEF Types
<1>2. /\ received'[e] = Append(received[e], m)
      /\ \A f \in Endpoints \ {e} : received'[f] = received[f]
  BY DEF Types
<1>3. /\ Len(received'[e]) = n + 1 /\ received'[e][n + 1] = m
      /\ \A k \in 1 .. n : received'[e][k] = received[e][k]
  BY <1>1, <1>2, AppendFacts
<1>4. 1 .. (n + 1) = (1 .. n) \cup {n + 1}
  BY <1>1
<1>5. AcceptedBy(e)' = {received'[e][k].sequence : k \in (1 .. n) \cup {n + 1}}
  BY <1>3, <1>4 DEF AcceptedBy
<1>6. {received'[e][k].sequence : k \in 1 .. n} = AcceptedBy(e)
  BY <1>3 DEF AcceptedBy
<1>7. AcceptedBy(e)' = {received'[e][k].sequence : k \in 1 .. n} \cup {m.sequence}
  BY <1>3, <1>5
<1> QED BY <1>2, <1>6, <1>7 DEF AcceptedBy

(* What a call inside the window knows when its packet opens: the sequence *)
(* number is new to the endpoint, and the peer sent this body under it.    *)
LEMMA DeliverFacts ==
  ASSUME Inv, NEW t \in Threads, call[t].at = "authenticating",
         Opens(call[t].endpoint, call[t].packet)
  PROVE  LET e == call[t].endpoint
             p == call[t].packet
         IN  /\ e \in Endpoints /\ Peer[e] \in Endpoints
             /\ p.sequence \in Sequence
             /\ p.ciphertext.body \in Plaintexts
             /\ p.sequence \notin AcceptedBy(e)
             /\ \E i \in 1 .. Len(sent[Peer[e]]) :
                  /\ p.sequence = i - 1
                  /\ sent[Peer[e]][i].sequence = p.sequence
                  /\ sent[Peer[e]][i].ciphertext.body = p.ciphertext.body
<1> USE DEF Inv
<1> DEFINE e == call[t].endpoint
           p == call[t].packet
<1>1. call[t] \in Decrypting
  BY CallFacts
<1>2. e \in Endpoints /\ p \in Packets /\ p.ciphertext.body \in Plaintexts
  BY <1>1 DEF Decrypting, Packets, Ciphertexts
<1>3. p.sequence \in Sequence /\ p.sequence \in Int /\ Made(p.ciphertext)
  BY MaxSequenceAssumption DEF PresentedWasMade, Sequence
<1>4. CheckUnlocked(window[e], p.sequence)
  BY DEF AuthenticatingHoldsLock
<1>5. AcceptedBy(e) \in SUBSET Sequence
  BY <1>2, AcceptedType
<1>6. p.sequence \notin AcceptedBy(e)
  <2>1. window[e] \in Window /\ Matches(window[e], AcceptedBy(e))
    BY <1>2 DEF Types, WindowsMatch
  <2> QED BY <1>3, <1>4, <1>5, <2>1, CheckMatches DEF New
<1>7. PICK i \in 1 .. Len(sent[Peer[e]]) :
        p.sequence = i - 1 /\ p.ciphertext = sent[Peer[e]][i].ciphertext
  BY <1>2, <1>3, OpensOnlyPeers
<1>8. Peer[e] \in Endpoints
  BY <1>2, PeerFacts
<1>9. sent[Peer[e]][i].sequence = i - 1
  <2>1. PICK b \in Plaintexts \ Oversized : sent[Peer[e]][i] = Packet(Peer[e], i - 1, b)
    BY <1>7, <1>8 DEF SentInOrder
  <2> QED BY <2>1 DEF Packet
<1> QED BY <1>2, <1>3, <1>6, <1>7, <1>8, <1>9

(* Opening the packet, recording its number and returning the plaintext. *)
LEMMA DeliverInv ==
  ASSUME Inv, NEW t \in Threads, DecryptReturns(t)
  PROVE  Inv'
<1> SUFFICES ASSUME NEW e, e = call[t].endpoint, NEW p, p = call[t].packet PROVE Inv'
  OBVIOUS
<1> USE DEF Inv
<1> DEFINE n == Len(received[e])
           m == [sequence |-> p.sequence, body |-> p.ciphertext.body]
<1>1. call[t].at = "authenticating" /\ Opens(e, p)
  BY DEF DecryptReturns, LeaveWindow, Deliver
<1>2. /\ e \in Endpoints /\ Peer[e] \in Endpoints
      /\ p.sequence \in Sequence /\ p.ciphertext.body \in Plaintexts
      /\ p.sequence \notin AcceptedBy(e)
      /\ \E i \in 1 .. Len(sent[Peer[e]]) :
           /\ p.sequence = i - 1
           /\ sent[Peer[e]][i].sequence = p.sequence
           /\ sent[Peer[e]][i].ciphertext.body = p.ciphertext.body
  BY <1>1, DeliverFacts
<1>3. /\ window' = [window EXCEPT ![e] = RecordUnlocked(@, p.sequence)]
      /\ received' = [received EXCEPT ![e] = Append(@, m)]
      /\ replay_lock' = [replay_lock EXCEPT ![e] = NoThread]
      /\ call' = [call EXCEPT ![t] = Idle]
      /\ UNCHANGED <<send_sequence, send_lock, calls, sent>>
  BY DEF DecryptReturns, LeaveWindow, Deliver, Record, Finish
<1>4. m \in Messages /\ received[e] \in Seq(Messages) /\ n \in Nat
  BY <1>2, LenProperties DEF Messages, Types
<1>5. /\ received'[e] = Append(received[e], m)
      /\ \A f \in Endpoints \ {e} : received'[f] = received[f] /\ window'[f] = window[f]
      /\ window'[e] = RecordUnlocked(window[e], p.sequence)
  BY <1>2, <1>3 DEF Types
<1>6. /\ received'[e] \in Seq(Messages) /\ Len(received'[e]) = n + 1 /\ received'[e][n + 1] = m
      /\ \A k \in 1 .. n : received'[e][k] = received[e][k]
  BY <1>4, <1>5, AppendFacts
<1>7. /\ AcceptedBy(e)' = AcceptedBy(e) \cup {p.sequence}
      /\ \A f \in Endpoints \ {e} : AcceptedBy(f)' = AcceptedBy(f)
  <2>1. m.sequence = p.sequence
    OBVIOUS
  <2>2. received' = [received EXCEPT ![e] = Append(@, m)] /\ m \in Messages
    BY <1>3, <1>4
  <2>3. e \in Endpoints /\ Types
    BY <1>2
  <2> HIDE DEF m, Inv
  <2> QED BY <2>1, <2>2, <2>3, AcceptOne
<1>8. window'[e] \in Window /\ Matches(window'[e], AcceptedBy(e)')
  <2>1. window[e] \in Window /\ Matches(window[e], AcceptedBy(e))
    BY <1>2 DEF Types, WindowsMatch
  <2>2. AcceptedBy(e) \in SUBSET Sequence
    BY <1>2, AcceptedType
  <2>3. p.sequence \in Sequence
    BY <1>2
  <2> HIDE DEF Inv
  <2>4. /\ RecordUnlocked(window[e], p.sequence) \in Window
        /\ Matches(RecordUnlocked(window[e], p.sequence), AcceptedBy(e) \cup {p.sequence})
    BY <2>1, <2>2, <2>3, RecordMatches
  <2> QED BY <1>5, <1>7, <2>4
<1>9. Idle \in Calls /\ Idle.at = "idle"
  BY DEF Calls, Idle
<1>10. Types'
  <2>1. window' \in [Endpoints -> Window]
    BY <1>2, <1>3, <1>5, <1>8 DEF Types
  <2>2. received' \in [Endpoints -> Seq(Messages)]
    BY <1>2, <1>3, <1>5, <1>6 DEF Types
  <2> QED BY <1>2, <1>3, <1>9, <2>1, <2>2 DEF Types
<1>11. call'[t] = Idle /\ \A u \in Threads \ {t} : call'[u] = call[u]
  BY <1>3 DEF Types
<1>12. SealingHoldsLock'
  BY <1>3, <1>9, <1>11 DEF SealingHoldsLock
<1>13. AuthenticatingHoldsLock'
  <2> SUFFICES ASSUME NEW u \in Threads, call'[u].at = "authenticating"
               PROVE  /\ replay_lock'[call'[u].endpoint] = u
                      /\ CheckUnlocked(window'[call'[u].endpoint], call'[u].packet.sequence)
    BY DEF AuthenticatingHoldsLock
  <2>1. u # t /\ call'[u] = call[u]
    BY <1>9, <1>11
  <2>2. /\ replay_lock[call[u].endpoint] = u
        /\ CheckUnlocked(window[call[u].endpoint], call[u].packet.sequence)
        /\ call[u].endpoint \in Endpoints
    BY <2>1, CallFacts DEF AuthenticatingHoldsLock, Decrypting
  <2>3. replay_lock[e] = t
    BY <1>1 DEF AuthenticatingHoldsLock
  <2> QED BY <1>3, <1>5, <2>1, <2>2, <2>3 DEF Types
<1>14. SentInOrder' /\ \A d : Made(d) => Made(d)'
  BY <1>3, NothingSent
<1>15. PresentedWasMade'
  BY <1>9, <1>11, <1>14 DEF PresentedWasMade
<1>16. WindowsMatch'
  <2> SUFFICES ASSUME NEW f \in Endpoints PROVE Matches(window'[f], AcceptedBy(f)')
    BY DEF WindowsMatch, Matches
  <2>1. CASE f # e
    BY <1>5, <1>7, <2>1 DEF WindowsMatch
  <2> QED BY <1>8, <2>1
<1>17. ReceivedWasSent'
  <2> SUFFICES ASSUME NEW f \in Endpoints, NEW k \in DOMAIN received'[f]
               PROVE  \E i \in DOMAIN sent[Peer[f]] :
                        /\ sent[Peer[f]][i].sequence = received'[f][k].sequence
                        /\ sent[Peer[f]][i].ciphertext.body = received'[f][k].body
    BY <1>3 DEF ReceivedWasSent
  <2>1. CASE f # e
    BY <1>5, <2>1 DEF ReceivedWasSent
  <2>2. CASE f = e /\ k = n + 1
    <3>1. DOMAIN sent[Peer[e]] = 1 .. Len(sent[Peer[e]])
      BY <1>2, LenProperties DEF Types
    <3>2. /\ received'[f][k].sequence = p.sequence
          /\ received'[f][k].body = p.ciphertext.body
      BY <1>6, <2>2
    <3>3. PICK i \in 1 .. Len(sent[Peer[e]]) :
            /\ sent[Peer[e]][i].sequence = p.sequence
            /\ sent[Peer[e]][i].ciphertext.body = p.ciphertext.body
      BY <1>2
    <3> HIDE DEF Inv
    <3> QED BY <2>2, <3>1, <3>2, <3>3
  <2>3. CASE f = e /\ k # n + 1
    <3>1. k \in 1 .. n /\ k \in DOMAIN received[e]
      BY <1>4, <1>6, <2>3, LenProperties
    <3>2. received'[f][k] = received[e][k]
      BY <1>6, <2>3, <3>1
    <3>3. PICK i \in DOMAIN sent[Peer[e]] :
            /\ sent[Peer[e]][i].sequence = received[e][k].sequence
            /\ sent[Peer[e]][i].ciphertext.body = received[e][k].body
      BY <1>2, <3>1 DEF ReceivedWasSent
    <3> HIDE DEF Inv
    <3> QED BY <2>3, <3>2, <3>3
  <2> QED BY <2>1, <2>2, <2>3
<1>18. ReceivedOnce'
  <2> SUFFICES ASSUME NEW f \in Endpoints, NEW j \in DOMAIN received'[f],
                      NEW k \in DOMAIN received'[f],
                      received'[f][j].sequence = received'[f][k].sequence
               PROVE  j = k
    BY DEF ReceivedOnce
  <2>1. CASE f # e
    BY <1>5, <2>1 DEF ReceivedOnce
  <2>2. CASE f = e
    <3>1. DOMAIN received[e] = 1 .. n /\ DOMAIN received'[e] = 1 .. (n + 1)
      BY <1>4, <1>6, LenProperties
    <3>2. \A i \in 1 .. n : received'[e][i].sequence \in AcceptedBy(e)
      BY <1>6 DEF AcceptedBy
    <3>3. received'[e][n + 1].sequence \notin AcceptedBy(e)
      BY <1>2, <1>6
    <3>4. \A i \in 1 .. (n + 1) : i \in 1 .. n \/ i = n + 1
      BY <1>4
    <3>5. CASE j \in 1 .. n /\ k \in 1 .. n
      <4>1. received'[e][j] = received[e][j] /\ received'[e][k] = received[e][k]
        BY <1>6, <3>5
      <4> QED BY <1>2, <2>2, <3>1, <3>5, <4>1 DEF ReceivedOnce
    <3> QED BY <2>2, <3>1, <3>2, <3>3, <3>4, <3>5
  <2> QED BY <2>1, <2>2
<1> QED BY <1>10, <1>12, <1>13, <1>14, <1>15, <1>16, <1>17, <1>18

(* Every step keeps the inductive invariant: one case per action. *)
LEMMA StepInv == Inv /\ [Next]_vars => Inv'
<1> SUFFICES ASSUME Inv, [Next]_vars PROVE Inv'
  OBVIOUS
<1>1. CASE UNCHANGED vars
  <2>1. SentInOrder' /\ \A d : Made(d) => Made(d)'
    BY <1>1, NothingSent DEF vars, Inv
  <2>2. Types' /\ SealingHoldsLock' /\ AuthenticatingHoldsLock' /\ PresentedWasMade'
    BY <1>1, <2>1 DEF vars, Inv, Types, SealingHoldsLock, AuthenticatingHoldsLock,
                      PresentedWasMade
  <2> QED BY <1>1, <2>1, <2>2, NothingReceived DEF vars, Inv
<1>2. ASSUME NEW t \in Threads, NEW e \in Endpoints, NEW b \in Plaintexts, Encrypt(t, e, b)
      PROVE  Inv'
  <2> DEFINE c == [at |-> "encrypting", endpoint |-> e, body |-> b]
  <2>1. c \in Calls /\ c.at = "encrypting" /\ Start(t, c)
    BY <1>2 DEF Encrypt, Calls, Encrypting
  <2> HIDE DEF c
  <2> QED BY <2>1, StartInv
<1>3. ASSUME NEW t \in Threads, NEW e \in Endpoints, NEW p \in InTransit, Decrypt(t, e, p)
      PROVE  Inv'
  <2> DEFINE c == [at |-> "decrypting", endpoint |-> e, packet |-> p]
  <2>1. p \in Packets /\ Made(p.ciphertext)
    BY TransitFacts DEF Inv
  <2>2. p.sequence \in Sequence
    BY <1>3 DEF Decrypt, WellFormed, ValidMetadata, ValidSequence
  <2>3. c \in Calls /\ c.at = "decrypting" /\ c.packet = p /\ Start(t, c)
    BY <1>3, <2>1 DEF Decrypt, Calls, Decrypting
  <2> HIDE DEF c
  <2> QED BY <2>1, <2>2, <2>3, StartInv
<1>4. ASSUME NEW t \in Threads, EncryptExhausted(t) PROVE Inv'
  BY <1>4, GiveUpInv DEF EncryptExhausted
<1>5. ASSUME NEW t \in Threads, ClaimSequence(t) PROVE Inv'
  BY <1>5, ClaimInv
<1>6. ASSUME NEW t \in Threads, EncryptRaises(t) PROVE Inv'
  BY <1>6, GiveUpInv DEF EncryptRaises, AbandonSealing
<1>7. ASSUME NEW t \in Threads, EncryptReturns(t) PROVE Inv'
  BY <1>7, SendInv
<1>8. ASSUME NEW t \in Threads, ReplayDetected(t) PROVE Inv'
  BY <1>8, GiveUpInv DEF ReplayDetected
<1>9. ASSUME NEW t \in Threads, EnterWindow(t) PROVE Inv'
  BY <1>9, EnterInv
<1>10. ASSUME NEW t \in Threads, AuthenticationFails(t) PROVE Inv'
  BY <1>10, GiveUpInv DEF AuthenticationFails, LeaveWindow, Refuse
<1>11. ASSUME NEW t \in Threads, DecryptReturns(t) PROVE Inv'
  BY <1>11, DeliverInv
<1> QED
  BY <1>1, <1>2, <1>3, <1>4, <1>5, <1>6, <1>7, <1>8, <1>9, <1>10, <1>11 DEF Next, Run

(* The invariant holds in every reachable state. *)
THEOREM Invariance == Spec => []Inv
BY InitInv, StepInv, PTL DEF Spec

-----------------------------------------------------------------------------
(* The properties *)

(* The i-th packet an endpoint sent, under the invariant. *)
LEMMA SentFacts ==
  ASSUME Inv, NEW e \in Endpoints, NEW i \in DOMAIN sent[e]
  PROVE  /\ i \in 1 .. Len(sent[e]) /\ i \in Int /\ i - 1 \in Sequence
         /\ \E b \in Plaintexts \ Oversized : sent[e][i] = Packet(e, i - 1, b)
         /\ sent[e][i].sequence = i - 1
         /\ sent[e][i].ciphertext.key = SendKey(e, i - 1)
         /\ sent[e][i].ciphertext.body \in Plaintexts \ Oversized
<1>1. i \in 1 .. Len(sent[e]) /\ Len(sent[e]) \in Nat
  BY LenProperties DEF Inv, Types
<1>2. Len(sent[e]) <= MAX_MESSAGE_SEQUENCE + 1
  BY MaxSequenceAssumption DEF Inv, Types, SentInOrder
<1>3. i \in Int /\ i - 1 \in Sequence
  BY <1>1, <1>2, MaxSequenceAssumption DEF Sequence
<1>4. PICK b \in Plaintexts \ Oversized : sent[e][i] = Packet(e, i - 1, b)
  BY <1>1 DEF Inv, SentInOrder
<1>5. /\ sent[e][i].sequence = i - 1
      /\ sent[e][i].ciphertext.key = SendKey(e, i - 1)
      /\ sent[e][i].ciphertext.body = b
  BY <1>4 DEF Packet, Ciphertext
<1> QED BY <1>1, <1>3, <1>4, <1>5

(* Counters, locks, windows, calls and histories keep their types; in      *)
(* particular send_sequence stops one above MAX_MESSAGE_SEQUENCE and no    *)
(* packet leaves with a number out of range.                               *)
THEOREM TypeCorrect == Spec => []TypeOK
<1>1. ASSUME Inv PROVE TypeOK
  <2> USE <1>1
  <2>1. ASSUME NEW t \in Threads
        PROVE  /\ call[t].at \in {"idle", "encrypting", "sealing", "decrypting",
                                  "authenticating"}
               /\ call[t].at # "idle" => call[t].endpoint \in Endpoints
               /\ call[t].at \in {"encrypting", "sealing"} => call[t].body \in Plaintexts
               /\ call[t].at = "sealing" => call[t].sequence \in Sequence
               /\ call[t].at \in {"decrypting", "authenticating"} =>
                    call[t].packet.sequence \in Sequence
    BY <2>1, CallFacts DEF Inv, Encrypting, Sealing, Decrypting, PresentedWasMade
  <2>2. ASSUME NEW e \in Endpoints, NEW i \in DOMAIN sent[e]
        PROVE  /\ sent[e][i].sequence \in Sequence
               /\ sent[e][i].ciphertext.body \in Plaintexts \ Oversized
    BY <2>2, SentFacts
  <2>3. ASSUME NEW e \in Endpoints, NEW k \in DOMAIN received[e]
        PROVE  received[e][k] \in [sequence : Sequence, body : Plaintexts]
    <3>1. received[e] \in Seq(Messages)
      BY DEF Inv, Types
    <3>2. received[e][k] \in Messages
      BY <3>1, LenProperties, ElementOfSeq
    <3> QED BY <3>2 DEF Messages
  <2>4. /\ send_sequence \in [Endpoints -> 0 .. (MAX_MESSAGE_SEQUENCE + 1)]
        /\ send_lock \in [Endpoints -> Threads \cup {NoThread}]
        /\ window \in [Endpoints -> Window]
        /\ replay_lock \in [Endpoints -> Threads \cup {NoThread}]
        /\ calls \in 0 .. MaxCalls
    BY DEF Inv, Types
  <2> QED BY <2>1, <2>2, <2>3, <2>4 DEF TypeOK
<1> QED BY <1>1, Invariance, PTL

(* No message key and nonce seals two packets, across all endpoints of all *)
(* sessions.                                                               *)
THEOREM NoKeyReuse == Spec => []KeyUsedOnce
<1>1. ASSUME Inv PROVE KeyUsedOnce
  <2> SUFFICES ASSUME NEW e \in Endpoints, NEW f \in Endpoints,
                      NEW i \in DOMAIN sent[e], NEW j \in DOMAIN sent[f],
                      sent[e][i].ciphertext.key = sent[f][j].ciphertext.key
               PROVE  e = f /\ i = j
    BY DEF KeyUsedOnce
  <2>1. sent[e][i].ciphertext.key = SendKey(e, i - 1) /\ i \in Int
    BY <1>1, SentFacts
  <2>2. sent[f][j].ciphertext.key = SendKey(f, j - 1) /\ j \in Int
    BY <1>1, SentFacts
  <2>3. SendKey(e, i - 1) = SendKey(f, j - 1)
    BY <2>1, <2>2
  <2>4. e = f /\ i - 1 = j - 1
    BY <2>3, SendKeyInjective
  <2> QED BY <2>1, <2>2, <2>4
<1> QED BY <1>1, Invariance, PTL

(* The packets of an endpoint are numbered 0, 1, 2, ... without a gap. *)
THEOREM NumberedWithoutGap == Spec => []NoSequenceGap
<1>1. ASSUME Inv PROVE NoSequenceGap
  <2>1. ASSUME NEW e \in Endpoints, NEW i \in DOMAIN sent[e]
        PROVE  sent[e][i].sequence = i - 1
    BY <1>1, SentFacts
  <2> QED BY <1>1, <2>1 DEF NoSequenceGap, Inv, SentInOrder
<1> QED BY <1>1, Invariance, PTL

(* decrypt only returns what the endpoint's own peer encrypted. *)
THEOREM Authenticity == Spec => []ReceivedWasSent
<1>1. Inv => ReceivedWasSent
  BY DEF Inv
<1> QED BY <1>1, Invariance, PTL

(* decrypt returns a message at most once. *)
THEOREM NoReplay == Spec => []ReceivedOnce
<1>1. Inv => ReceivedOnce
  BY DEF Inv
<1> QED BY <1>1, Invariance, PTL

(* Nothing but authenticated traffic moves a window, so no window runs     *)
(* ahead of the peer's send_sequence.                                      *)
THEOREM WindowsFollow == Spec => []WindowFollowsPeer
<1>1. ASSUME Inv PROVE WindowFollowsPeer
  <2> SUFFICES ASSUME NEW e \in Endpoints
               PROVE  LET accepted == {received[e][k].sequence : k \in DOMAIN received[e]}
                      IN  /\ window[e].highest_seen \in accepted \cup {-1}
                          /\ window[e].seen \subseteq accepted
                          /\ window[e].highest_seen < send_sequence[Peer[e]]
    BY DEF WindowFollowsPeer
  <2>1. DOMAIN received[e] = 1 .. Len(received[e])
    BY <1>1, LenProperties DEF Inv, Types
  <2>2. Matches(window[e], AcceptedBy(e))
    BY <1>1 DEF Inv, WindowsMatch
  <2>3. Peer[e] \in Endpoints
    BY PeerFacts
  <2>4. send_sequence[Peer[e]] = Len(sent[Peer[e]]) /\ Len(sent[Peer[e]]) \in Nat
    BY <1>1, <2>3, LenProperties DEF Inv, Types, SentInOrder
  <2>5. ASSUME NEW k \in DOMAIN received[e]
        PROVE  received[e][k].sequence < send_sequence[Peer[e]]
    <3>1. PICK i \in DOMAIN sent[Peer[e]] :
            sent[Peer[e]][i].sequence = received[e][k].sequence
      BY <1>1 DEF Inv, ReceivedWasSent
    <3>2. i \in 1 .. Len(sent[Peer[e]]) /\ sent[Peer[e]][i].sequence = i - 1
      BY <1>1, <2>3, <3>1, SentFacts
    <3> QED BY <2>4, <3>1, <3>2
  <2>6. \A s \in AcceptedBy(e) : s < send_sequence[Peer[e]]
    BY <2>1, <2>5 DEF AcceptedBy
  <2>7. window[e].highest_seen < send_sequence[Peer[e]]
    BY <2>2, <2>4, <2>6 DEF Matches
  <2> QED BY <2>1, <2>2, <2>7 DEF Matches, AcceptedBy
<1> QED BY <1>1, Invariance, PTL

(* An undamaged packet passes every test of the peer but the window's. *)
LEMMA GenuineFacts ==
  ASSUME Inv, NEW e \in Endpoints, NEW i \in DOMAIN sent[e]
  PROVE  /\ WellFormed(sent[e][i])
         /\ Addressed(Peer[e], sent[e][i])
         /\ Opens(Peer[e], sent[e][i])
<1>1. PICK b \in Plaintexts \ Oversized : sent[e][i] = Packet(e, i - 1, b)
  BY SentFacts
<1>2. i - 1 \in Sequence
  BY SentFacts
<1>3. Peer[e] \in Endpoints /\ Peer[Peer[e]] = e
  BY PeerFacts
<1>4. WellFormed(sent[e][i])
  BY <1>1, <1>2, EndpointAssumption DEF EndsFit, WellFormed, ValidMetadata, Packet, ValidSequence,
     PROTOCOL_VERSION, MAX_PROTOCOL_VERSION, remote_name
<1>5. Addressed(Peer[e], sent[e][i])
  BY <1>1, <1>3, EndpointAssumption DEF EndsFit, Addressed, Packet, remote_name
<1>6. Opens(Peer[e], sent[e][i])
  <2>1. ReceiveKey(Peer[e], i - 1) = SendKey(e, i - 1)
    BY <1>3, KeysMirror
  <2> QED BY <1>1, <2>1 DEF Opens, Packet, Ciphertext, Header, associated_data
<1> QED BY <1>4, <1>5, <1>6

(* The two ends derive the same keys from mirrored fields. *)
THEOREM GenuinePass == Spec => []GenuineOpens
<1>1. ASSUME Inv PROVE GenuineOpens
  BY <1>1, GenuineFacts DEF GenuineOpens
<1> QED BY <1>1, Invariance, PTL

-----------------------------------------------------------------------------
(* Steps and refinement *)

(* Only its own thread moves a call on. *)
LEMMA OwnStep ==
  ASSUME Inv, [Next]_vars, NEW t \in Threads, call'[t] # call[t], call[t].at # "idle"
  PROVE  Run(t)
<1>1. call \in [Threads -> Calls]
  BY DEF Inv, Types
<1>2. ASSUME NEW u \in Threads, NEW c, Start(u, c) PROVE FALSE
  BY <1>1, <1>2 DEF Start
<1>3. ASSUME NEW u \in Threads, Run(u) PROVE u = t
  BY <1>1, <1>3 DEF Run, EncryptExhausted, ClaimSequence, Claim, EncryptRaises,
     AbandonSealing, EncryptReturns, ReplayDetected, EnterWindow, EnterWindowWithoutLock,
     AuthenticationFails, DecryptReturns, LeaveWindow, Finish
<1> QED BY <1>2, <1>3 DEF Next, Encrypt, Decrypt, vars

(* decrypt raises on an undamaged packet of the peer only for what the     *)
(* replay window promises to refuse.                                       *)
THEOREM OnlyReplaysRefused == Spec => NoFalseReject
<1>1. ASSUME Inv, [Next]_vars, NEW t \in Threads,
             call[t].at \in {"decrypting", "authenticating"},
             call'[t].at = "idle", received' = received,
             \E i \in DOMAIN sent[Peer[call[t].endpoint]] :
               sent[Peer[call[t].endpoint]][i] = call[t].packet
      PROVE  \E k \in DOMAIN received[call[t].endpoint] :
               LET r == received[call[t].endpoint][k].sequence
               IN  \/ r = call[t].packet.sequence
                   \/ r >= call[t].packet.sequence + WindowSize
  <2> DEFINE e == call[t].endpoint
             p == call[t].packet
  <2>1. call[t] \in Decrypting /\ e \in Endpoints /\ Peer[e] \in Endpoints /\ Peer[Peer[e]] = e
    BY <1>1, CallFacts, PeerFacts DEF Inv, Decrypting
  <2>2. Opens(e, p)
    <3>1. PICK i \in DOMAIN sent[Peer[e]] : sent[Peer[e]][i] = p
      BY <1>1
    <3>2. Opens(Peer[Peer[e]], sent[Peer[e]][i])
      BY <1>1, <2>1, GenuineFacts
    <3> QED BY <2>1, <3>1, <3>2
  <2>3. Run(t)
    BY <1>1, OwnStep
  <2>4. received[e] \in Seq(Messages)
    BY <1>1, <2>1 DEF Inv, Types
  <2>5. ~DecryptReturns(t)
    <3>1. SUFFICES ASSUME DecryptReturns(t) PROVE FALSE
      OBVIOUS
    <3>2. received'[e] = Append(received[e], [sequence |-> p.sequence, body |-> p.ciphertext.body])
      BY <1>1, <2>1, <3>1 DEF DecryptReturns, Deliver, Inv, Types
    <3>3. Len(received'[e]) = Len(received[e]) + 1
      BY <2>4, <3>2
    <3> QED BY <1>1, <2>4, <3>3, LenProperties
  <2>6. ReplayDetected(t)
    <3>1. ~EnterWindow(t)
      <4>1. SUFFICES ASSUME EnterWindow(t) PROVE FALSE
        OBVIOUS
      <4>2. call'[t] = [call[t] EXCEPT !.at = "authenticating"]
        BY <1>1, <4>1 DEF EnterWindow, EnterWindowWithoutLock, Inv, Types
      <4>3. call'[t].at = "authenticating"
        BY <2>1, <4>2 DEF Decrypting
      <4> QED BY <1>1, <4>3
    <3>2. ~AuthenticationFails(t)
      BY <2>2 DEF AuthenticationFails, Refuse
    <3> QED BY <1>1, <2>3, <2>5, <3>1, <3>2 DEF Run, EncryptExhausted, ClaimSequence, Claim,
         EncryptRaises, AbandonSealing, EncryptReturns
  <2>7. ~CheckUnlocked(window[e], p.sequence)
    BY <2>6 DEF ReplayDetected
  <2>8. p.sequence \in Sequence /\ p.sequence \in Int
    BY <1>1, MaxSequenceAssumption DEF Inv, PresentedWasMade, Sequence
  <2>9. AcceptedBy(e) \in SUBSET Sequence
    BY <1>1, <2>1, AcceptedType DEF Inv
  <2>10. window[e] \in Window /\ Matches(window[e], AcceptedBy(e))
    BY <1>1, <2>1 DEF Inv, Types, WindowsMatch
  <2>11. ~New(p.sequence, AcceptedBy(e))
    BY <2>7, <2>8, <2>9, <2>10, CheckMatches
  <2>12. PICK r \in AcceptedBy(e) : r = p.sequence \/ ~(p.sequence > r - WindowSize)
    BY <2>8, <2>11 DEF New
  <2>13. r = p.sequence \/ r >= p.sequence + WindowSize
    <3>1. r \in Int
      BY <2>9, MaxSequenceAssumption DEF Sequence
    <3> QED BY <2>8, <2>12, <3>1, WindowSizeAssumption
  <2>14. PICK k \in 1 .. Len(received[e]) : r = received[e][k].sequence
    BY DEF AcceptedBy
  <2>15. k \in DOMAIN received[e]
    BY <2>4, LenProperties
  <2> QED BY <2>13, <2>14, <2>15
<1>2. ASSUME Inv, [Next]_vars
      PROVE  [\A t \in Threads :
                LET c == call[t]
                IN  /\ c.at \in {"decrypting", "authenticating"}
                    /\ call'[t].at = "idle"
                    /\ received' = received
                    /\ \E i \in DOMAIN sent[Peer[c.endpoint]] :
                         sent[Peer[c.endpoint]][i] = c.packet
                    => \E k \in DOMAIN received[c.endpoint] :
                         LET r == received[c.endpoint][k].sequence
                         IN  r = c.packet.sequence \/ r >= c.packet.sequence + WindowSize]_vars
  BY <1>1, <1>2
<1> QED BY <1>2, Invariance, PTL DEF Spec, NoFalseReject

(* The plaintexts an endpoint sent, in the abstract channel. *)
Bodies == [e \in Endpoints |-> [i \in DOMAIN sent[e] |-> sent[e][i].ciphertext.body]]

(* The sessions implement the channel: returning a packet is sending its   *)
(* plaintext, returning a plaintext is delivering it, every other step is  *)
(* invisible.                                                              *)
THEOREM RefinesChannel == Spec => ImplementsChannel
<1>1. Init => Channel!Init
  <2> SUFFICES ASSUME Init PROVE Channel!Init
    OBVIOUS
  <2>1. \A e \in Endpoints : [i \in DOMAIN sent[e] |-> sent[e][i].ciphertext.body] = << >>
    BY DEF Init
  <2> QED BY <2>1 DEF Init, Channel!Init
<1>2. ASSUME Inv, [Next]_vars PROVE [Channel!Next]_<<Bodies, received>>
  <2>1. ASSUME NEW t \in Threads, EncryptReturns(t) PROVE Channel!Next
    <3> SUFFICES ASSUME NEW e, e = call[t].endpoint, NEW b, b = call[t].body
                 PROVE  Channel!Next
      OBVIOUS
    <3> DEFINE n == Len(sent[e])
               p == Packet(e, call[t].sequence, b)
    <3>1. call[t] \in Sealing /\ e \in Endpoints /\ b \in Plaintexts
      BY <1>2, <2>1, CallFacts DEF EncryptReturns, Sealing, Inv
    <3>2. sent[e] \in Seq(Packets) /\ n \in Nat /\ DOMAIN sent[e] = 1 .. n
      BY <1>2, <3>1, LenProperties DEF Inv, Types
    <3>3. p \in Packets /\ p.ciphertext.body = b
      <4>1. call[t].sequence \in Sequence /\ b \in Plaintexts \ Oversized
        BY <3>1 DEF Sealing
      <4> QED BY <3>1, <4>1, PacketType DEF Packet, Ciphertext
    <3>4. sent' = [sent EXCEPT ![e] = Append(@, p)] /\ received' = received
      BY <2>1 DEF EncryptReturns
    <3> HIDE DEF p
    <3>5. /\ sent'[e] = Append(sent[e], p)
          /\ \A f \in Endpoints \ {e} : sent'[f] = sent[f]
      BY <1>2, <3>1, <3>4 DEF Inv, Types
    <3>6. /\ DOMAIN sent'[e] = 1 .. (n + 1) /\ sent'[e][n + 1] = p
          /\ \A i \in 1 .. n : sent'[e][i] = sent[e][i]
      BY <3>2, <3>3, <3>5, AppendFacts, LenProperties
    <3>7. Bodies[e] = [i \in 1 .. n |-> sent[e][i].ciphertext.body]
      BY <3>1, <3>2 DEF Bodies
    <3>8. Bodies'[e] = [i \in 1 .. (n + 1) |-> sent'[e][i].ciphertext.body]
      BY <3>1, <3>6 DEF Bodies
    <3>9. Bodies[e] \in Seq(Plaintexts) /\ Len(Bodies[e]) = n
      <4>1. \A i \in 1 .. n : sent[e][i].ciphertext.body \in Plaintexts
        BY <1>2, <3>1, <3>2, SentFacts
      <4> QED BY <3>2, <3>7, <4>1
    <3>10. Bodies'[e] = Append(Bodies[e], b)
      <4>1. Bodies'[e] \in Seq(Plaintexts) /\ Len(Bodies'[e]) = n + 1
        <5>1. \A i \in 1 .. (n + 1) : i \in 1 .. n \/ i = n + 1
          BY <3>2
        <5>2. \A i \in 1 .. n : sent[e][i].ciphertext.body \in Plaintexts
          BY <1>2, <3>1, <3>2, SentFacts
        <5>3. \A i \in 1 .. (n + 1) : sent'[e][i].ciphertext.body \in Plaintexts
          BY <3>1, <3>3, <3>6, <5>1, <5>2
        <5> QED BY <3>2, <3>8, <5>3
      <4>2. /\ Append(Bodies[e], b) \in Seq(Plaintexts)
            /\ Len(Append(Bodies[e], b)) = n + 1
            /\ Append(Bodies[e], b)[n + 1] = b
            /\ \A i \in 1 .. n : Append(Bodies[e], b)[i] = Bodies[e][i]
        BY <3>1, <3>9, AppendFacts
      <4>3. ASSUME NEW i \in 1 .. (n + 1) PROVE Bodies'[e][i] = Append(Bodies[e], b)[i]
        <5>1. CASE i = n + 1
          BY <3>3, <3>6, <3>8, <4>2, <5>1
        <5>2. CASE i \in 1 .. n
          <6>1. Bodies'[e][i] = sent'[e][i].ciphertext.body
            BY <3>8, <4>3
          <6>2. Bodies[e][i] = sent[e][i].ciphertext.body
            BY <3>7, <5>2
          <6> QED BY <3>6, <4>2, <5>2, <6>1, <6>2
        <5>3. i = n + 1 \/ i \in 1 .. n
          BY <3>2, <4>3
        <5> QED BY <5>1, <5>2, <5>3
      <4> QED BY <4>1, <4>2, <4>3, SeqEqual
    <3>11. ASSUME NEW f \in Endpoints, f # e PROVE Bodies'[f] = Bodies[f]
      BY <3>5, <3>11 DEF Bodies
    <3>12. Bodies' = [Bodies EXCEPT ![e] = Append(@, b)]
      BY <3>1, <3>10, <3>11 DEF Bodies
    <3>13. Channel!Send(e, b)
      BY <3>4, <3>12 DEF Channel!Send, Bodies
    <3> QED BY <3>1, <3>13 DEF Channel!Next
  <2>2. ASSUME NEW t \in Threads, DecryptReturns(t) PROVE Channel!Next
    <3> SUFFICES ASSUME NEW e, e = call[t].endpoint, NEW p, p = call[t].packet
                 PROVE  Channel!Next
      OBVIOUS
    <3>1. call[t].at = "authenticating" /\ Opens(e, p) /\ UNCHANGED sent
      BY <2>2 DEF DecryptReturns, LeaveWindow, Deliver
    <3>2. /\ e \in Endpoints /\ Peer[e] \in Endpoints
          /\ p.sequence \notin AcceptedBy(e)
          /\ \E i \in 1 .. Len(sent[Peer[e]]) :
               /\ p.sequence = i - 1
               /\ sent[Peer[e]][i].ciphertext.body = p.ciphertext.body
      BY <1>2, <3>1, DeliverFacts
    <3>3. PICK i \in 1 .. Len(sent[Peer[e]]) :
            /\ p.sequence = i - 1
            /\ sent[Peer[e]][i].ciphertext.body = p.ciphertext.body
      BY <3>2
    <3>4. /\ DOMAIN sent[Peer[e]] = 1 .. Len(sent[Peer[e]])
          /\ DOMAIN received[e] = 1 .. Len(received[e])
      BY <1>2, <3>2, LenProperties DEF Inv, Types
    <3>5. i \in DOMAIN Bodies[Peer[e]] /\ Bodies[Peer[e]][i] = p.ciphertext.body
      BY <3>2, <3>3, <3>4 DEF Bodies
    <3>6. \A k \in DOMAIN received[e] : received[e][k].sequence # i - 1
      BY <3>2, <3>3, <3>4 DEF AcceptedBy
    <3>7. received' = [received EXCEPT ![e] =
                         Append(@, [sequence |-> i - 1, body |-> Bodies[Peer[e]][i]])]
      BY <2>2, <3>3, <3>5 DEF DecryptReturns, Deliver
    <3>8. Bodies' = Bodies
      BY <3>1 DEF Bodies
    <3>9. Channel!Deliver(e, i)
      BY <3>6, <3>7, <3>8 DEF Channel!Deliver, Bodies
    <3> QED BY <3>2, <3>5, <3>9 DEF Channel!Next, Bodies
  <2>3. ASSUME ~ \E t \in Threads : EncryptReturns(t) \/ DecryptReturns(t)
        PROVE  UNCHANGED <<sent, received>>
    BY <1>2, <2>3 DEF Next, Run, Encrypt, Decrypt, Start, EncryptExhausted, ClaimSequence,
       Claim, EncryptRaises, AbandonSealing, ReplayDetected, EnterWindow,
       EnterWindowWithoutLock, AuthenticationFails, LeaveWindow, Refuse, vars
  <2>4. CASE UNCHANGED <<sent, received>>
    BY <2>4 DEF Bodies
  <2> QED BY <2>1, <2>2, <2>3, <2>4
<1> QED BY <1>1, <1>2, Invariance, PTL DEF Spec, ImplementsChannel, Channel!Spec, Bodies
=============================================================================
